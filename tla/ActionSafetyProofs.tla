------------------------- MODULE ActionSafetyProofs -------------------------
(***************************************************************************)
(* The safety invariants of ActionSystem that hold by a protocol between   *)
(* several processes, for every number of actions, workers, crashes and    *)
(* cancellations: who starts and processes an action, what a run leaves in *)
(* memory, in the database and in docker, and who finishes it if it does   *)
(* not. Each rests on the type invariant of ActionSystemProofs.            *)
(***************************************************************************)
EXTENDS ActionSystemProofs

-----------------------------------------------------------------------------
(* What a consumer remembers of an action.                                 *)

Remembered(w) == activeActions[w] \cup cancelledActions[w] \cup activeContainers[w]

\* Where the pipeline has not registered its action, or forgot it again.
Quiet == {"idle", "fetched", "loaded", "succeeded", "failed"}

\* A step of the pipeline of w leaves the other workers' memory alone, and its
\* own within the action it is processing; a step into a quiet place clears it.
LEMMA PipelineForgets ==
    ASSUME TypeOK, BusyHasAction, MemoryForgotten,
           NEW w \in Workers, StartSteps(w) \/ ExitSteps(w)
    PROVE  MemoryForgotten'
<1>1. /\ pc \in [Workers -> RunnerPc]
      /\ cur \in [Workers -> Actions \cup {NoAction}]
      /\ activeActions \in [Workers -> SUBSET Actions]
      /\ cancelledActions \in [Workers -> SUBSET Actions]
      /\ activeContainers \in [Workers -> SUBSET Actions]
      /\ \A v \in Workers : Remembered(v) \subseteq IF pc[v] \in Quiet THEN {} ELSE {cur[v]}
  BY DEF TypeOK, RunnerTypeOK, MemoryForgotten, Remembered, Quiet
<1>2. SUFFICES \A v \in Workers :
                  Remembered(v)' \subseteq IF pc'[v] \in Quiet THEN {} ELSE {cur'[v]}
  BY DEF MemoryForgotten, Remembered, Quiet
<1>3. CASE RegisterAction(w)
  BY <1>1, <1>3 DEF RegisterAction, Goto, Remembered, Quiet
<1>4. CASE RegisterContainer(w)
  BY <1>1, <1>4 DEF RegisterContainer, Goto, Remembered, Quiet
<1>5. CASE /\ cleanup(w)
           /\ cur' = cur
           /\ \E to \in RunnerPc : pc' = [pc EXCEPT ![w] = to]
           /\ pc[w] \notin Quiet
  BY <1>1, <1>5 DEF cleanup, Remembered
<1>6. CASE /\ UNCHANGED memoryVars
           /\ cur' = cur
           /\ \E to \in RunnerPc : pc' = [pc EXCEPT ![w] = to]
                  /\ (pc[w] \in Quiet \/ to \notin Quiet)
  BY <1>1, <1>6 DEF memoryVars, Remembered
<1>7. CASE /\ UNCHANGED memoryVars
           /\ cur' = [cur EXCEPT ![w] = NoAction]
           /\ pc[w] \in Quiet
           /\ pc' = [pc EXCEPT ![w] = "idle"]
  BY <1>1, <1>7 DEF memoryVars, Remembered, Quiet
<1>8. CASE \/ RejectNotPending(w) \/ CancelledBeforeStart(w) \/ AccessLost(w)
           \/ SkipArtifacts(w) \/ DisposeKey(w)
  BY <1>5, <1>8
     DEF RejectNotPending, CancelledBeforeStart, AccessLost, SkipArtifacts, DisposeKey,
         Goto, RunnerPc, Quiet
<1>9. CASE Catch(w)
  BY <1>5, <1>6, <1>9 DEF Catch, Goto, RunnerPc, Quiet
<1>10. CASE JobCompleted(w) \/ JobFailed(w)
  BY <1>7, <1>10 DEF JobCompleted, JobFailed, Settle, Goto, Quiet
<1>11. CASE \/ LoadAction(w) \/ LoadFails(w) \/ MarkStarting(w) \/ createAPIkey(w)
            \/ MarkProcessing(w) \/ LaunchContainer(w) \/ StartFails(w) \/ CaptureInfo(w)
            \/ AwaitExit(w) \/ InspectFails(w) \/ MarkStopping(w) \/ ReadBackFails(w)
            \/ ResolveVerdict(w) \/ WriteVerdict(w) \/ StartUpload(w) \/ FinishUpload(w)
            \/ UploadThrows(w)
  BY <1>6, <1>11
     DEF LoadAction, LoadFails, MarkStarting, createAPIkey, MarkProcessing, LaunchContainer,
         StartFails, CaptureInfo, AwaitExit, InspectFails, MarkStopping, ReadBackFails,
         ResolveVerdict, WriteVerdict, StartUpload, FinishUpload, UploadThrows, Goto,
         RunnerPc, Quiet
<1> QED
  BY <1>3, <1>4, <1>8, <1>9, <1>10, <1>11 DEF StartSteps, ExitSteps

\* The dispatcher, the janitor, docker, the hooks and a restart do not touch it.
LEMMA MemoryFrame ==
    ASSUME MemoryForgotten, UNCHANGED <<pc, cur, memoryVars>>
    PROVE  MemoryForgotten'
BY DEF MemoryForgotten, memoryVars

LEMMA MemoryStep ==
    ASSUME TypeInv, MemoryForgotten, [Next]_vars
    PROVE  MemoryForgotten'
<1>1. TypeOK /\ BusyHasAction
  BY DEF TypeInv
<1>2. CASE UNCHANGED runnerVars
  BY <1>2, MemoryFrame DEF runnerVars, memoryVars
<1>3. ASSUME NEW w \in Workers, NEW a \in Actions, TakeJob(w, a)
      PROVE  MemoryForgotten'
  <2>1. /\ pc[w] = "idle"
        /\ pc' = [pc EXCEPT ![w] = "fetched"]
        /\ cur' = [cur EXCEPT ![w] = a]
        /\ UNCHANGED memoryVars
    BY <1>3 DEF TakeJob, Goto
  <2>2. pc \in [Workers -> RunnerPc] /\ cur \in [Workers -> Actions \cup {NoAction}]
    BY <1>1 DEF TypeOK, RunnerTypeOK
  <2> QED BY <2>1, <2>2 DEF memoryVars, MemoryForgotten
<1>4. ASSUME NEW w \in Workers, NEW a \in Actions, DeliverCancel(w, a)
      PROVE  MemoryForgotten'
  <2>1. UNCHANGED <<pc, cur, activeActions, activeContainers>>
    BY <1>4 DEF DeliverCancel
  <2>2. \/ cancelledActions' = cancelledActions
        \/ /\ a \in activeActions[w]
           /\ cancelledActions' = [cancelledActions EXCEPT ![w] = cancelledActions[w] \cup {a}]
    BY <1>4 DEF DeliverCancel
  <2>3. cancelledActions \in [Workers -> SUBSET Actions]
    BY <1>1 DEF TypeOK, RunnerTypeOK
  <2>4. CASE cancelledActions' = cancelledActions
    BY <2>1, <2>4, MemoryFrame DEF memoryVars
  <2>5. CASE /\ a \in activeActions[w]
             /\ cancelledActions' = [cancelledActions EXCEPT ![w] = cancelledActions[w] \cup {a}]
    BY <2>1, <2>3, <2>5 DEF MemoryForgotten
  <2> QED BY <2>2, <2>4, <2>5
<1>5. ASSUME NEW w \in Workers, NEW a \in Actions, QueueSteps(w, a)
      PROVE  MemoryForgotten'
  <2>1. UNCHANGED <<pc, cur, memoryVars>>
    BY <1>5 DEF QueueSteps, HookRead, markJobAsCompleted, handleUnexpectedError, HookThrows,
                PromoteDelayed, StalledJob, StalledTwice, runnerVars, memoryVars
  <2> QED BY <2>1, MemoryFrame
<1>6. ASSUME NEW w \in Workers, Crash(w)
      PROVE  MemoryForgotten'
  BY <1>1, <1>6 DEF Crash, CrashRunner, MemoryForgotten, TypeOK, RunnerTypeOK
<1>7. ASSUME NEW w \in Workers, Restart(w)
      PROVE  MemoryForgotten'
  BY <1>2, <1>7 DEF Restart, registerRunner
<1> QED
  BY <1>1, <1>2, <1>3, <1>4, <1>5, <1>6, <1>7, PipelineForgets
     DEF Next, RunnerNext, ProcessNext, vars

\* ActionCancellationService forgets an action on every path out of its run, so
\* that a cancellation never spills over to the next attempt, for any number of
\* workers and whenever cancellations arrive.
THEOREM MemoryIsForgotten == Spec => []MemoryForgotten
<1>1. Init => MemoryForgotten
  BY DEF Init, RunnerInit, MemoryForgotten
<1>2. TypeInv /\ MemoryForgotten /\ [Next]_vars => MemoryForgotten'
  BY MemoryStep
<1>3. Spec => [](TypeInv /\ MemoryForgotten)
  BY <1>1, <1>2, TypeInvInit, TypeInvStep, PTL DEF Spec
<1> QED BY <1>3, PTL
-----------------------------------------------------------------------------
(* Who may process an action: the job moves between queues, and is in one. *)

\* The worker that processes an action holds the lock of its job.
WorkerHoldsJob ==
    \A w \in Workers, a \in Actions : Works(w, a) => HoldsLock(w, a)

JobHasQueue == \A a \in Actions : job[a].st = "none" <=> job[a].q = NoWorker

\* Until its dispatch has queued it, an action has no job, and none to be moved.
QueuedByDispatch ==
    \A a \in Actions : disp[a].pc # "queued" =>
        job[a].st = "none" /\ \A w \in Workers : dead[w][a].pc = "none"

\* A health check moves the job of its own dead worker, which it takes from
\* that worker's queue before it adds it to another one ...
MovedFromDead ==
    \A w \in Workers, a \in Actions :
        /\ dead[w][a].pc \in {"listed", "read"} => job[a].q \in {w, NoWorker}
        /\ dead[w][a].pc \in {"removed", "add"} => job[a].st = "none"

\* ... and no two of them move the same job.
OneMover ==
    \A a \in Actions, v, w \in Workers :
        dead[v][a].pc # "none" /\ dead[w][a].pc # "none" => v = w

HandoverInv ==
    WorkerHoldsJob /\ JobHasQueue /\ QueuedByDispatch /\ MovedFromDead /\ OneMover

LEMMA HandoverSafe == ASSUME HandoverInv PROVE SingleProcessor
BY DEF HandoverInv, WorkerHoldsJob, Works, HoldsLock, SingleProcessor

\* A step that leaves jobs and movers alone, takes no job and queues nothing.
LEMMA HandoverFrame ==
    ASSUME HandoverInv, UNCHANGED <<job, dead>>,
           \A w \in Workers : pc'[w] # "idle" => pc[w] # "idle" /\ cur'[w] = cur[w],
           \A a \in Actions : disp'[a].pc # "queued" => disp[a].pc # "queued"
    PROVE  HandoverInv'
BY DEF HandoverInv, WorkerHoldsJob, Works, HoldsLock, JobHasQueue, QueuedByDispatch,
       MovedFromDead, OneMover

\* A step that removes the job of an action nobody is processing.
LEMMA JobRemoved ==
    ASSUME TypeOK, HandoverInv, NEW a \in Actions, job[a].st # "active",
           job' = [job EXCEPT ![a] = NoJob], UNCHANGED <<dead, disp, pc, cur>>
    PROVE  HandoverInv'
<1>1. job \in [Actions -> Job] /\ NoJob.st = "none" /\ NoJob.q = NoWorker
  BY DEF TypeOK, StoreTypeOK, NoJob
<1> USE <1>1 DEF HandoverInv
<1>2. WorkerHoldsJob'
  BY DEF WorkerHoldsJob, Works, HoldsLock
<1>3. JobHasQueue'
  BY DEF JobHasQueue
<1>4. QueuedByDispatch'
  BY DEF QueuedByDispatch
<1>5. MovedFromDead'
  BY DEF MovedFromDead
<1>6. OneMover'
  BY DEF OneMover
<1> QED BY <1>2, <1>3, <1>4, <1>5, <1>6

\* A step that changes the state of a job that stays in its queue.
LEMMA JobAdvanced ==
    ASSUME TypeOK, HandoverInv, NEW a \in Actions, NEW new \in Job,
           job[a].st \notin {"none", "active"}, new.st # "none", new.q = job[a].q,
           job' = [job EXCEPT ![a] = new], UNCHANGED <<dead, disp, pc, cur>>
    PROVE  HandoverInv'
<1>1. job \in [Actions -> Job]
  BY DEF TypeOK, StoreTypeOK
<1> USE <1>1 DEF HandoverInv
<1>2. WorkerHoldsJob'
  BY DEF WorkerHoldsJob, Works, HoldsLock
<1>3. JobHasQueue'
  BY DEF JobHasQueue
<1>4. QueuedByDispatch'
  BY DEF QueuedByDispatch
<1>5. MovedFromDead'
  BY DEF MovedFromDead
<1>6. OneMover'
  BY DEF OneMover
<1> QED BY <1>2, <1>3, <1>4, <1>5, <1>6

LEMMA HandoverDispatch ==
    ASSUME TypeOK, HandoverInv, UNCHANGED <<pc, cur>>,
           NEW a \in Actions, SaveAction(a) \/ DispatchNext(a)
    PROVE  HandoverInv'
<1>1. /\ job \in [Actions -> Job]
      /\ disp \in [Actions -> DispEntry]
      /\ queues \subseteq Workers
      /\ NoWorker \notin Workers
  BY StoreAssumption DEF TypeOK, StoreTypeOK, DispatcherTypeOK, DispEntry
<1>2. CASE AddJob(a)
  <2>1. /\ disp[a].pc # "queued"
        /\ job[a].st = "none"
        /\ \A w \in Workers : dead[w][a].pc = "none"
        /\ \A w \in Workers : pc[w] # "idle" => cur[w] # a
    BY <1>2 DEF AddJob, HandoverInv, QueuedByDispatch, WorkerHoldsJob, Works, HoldsLock
  <2>2. /\ job' = [job EXCEPT ![a] = WaitingJob(disp[a].w)]
        /\ WaitingJob(disp[a].w).st = "waiting"
        /\ WaitingJob(disp[a].w).q # NoWorker
        /\ dead' = dead
        /\ disp' = [disp EXCEPT ![a].pc = "queued"]
    BY <1>1, <1>2 DEF AddJob, WaitingJob, healthVars
  <2> USE <1>1, <2>1, <2>2 DEF HandoverInv
  <2>3. WorkerHoldsJob'
    BY DEF WorkerHoldsJob, Works, HoldsLock
  <2>4. JobHasQueue'
    BY DEF JobHasQueue
  <2>5. QueuedByDispatch'
    <3>1. \A b \in Actions : disp'[b].pc # "queued" => b # a /\ disp[b].pc # "queued"
      BY DEF DispEntry
    <3> QED BY <3>1 DEF QueuedByDispatch
  <2>6. MovedFromDead'
    BY DEF MovedFromDead
  <2>7. OneMover'
    BY DEF OneMover
  <2> QED BY <2>3, <2>4, <2>5, <2>6, <2>7
<1>3. CASE \/ SaveAction(a) \/ ChooseWorker(a) \/ NoWorkerFound(a) \/ AddJobFails(a)
           \/ RefreshAndRetry(a) \/ RejectAction(a)
  <2>1. UNCHANGED <<job, dead>>
    BY <1>3
       DEF SaveAction, ChooseWorker, NoWorkerFound, AddJobFails, RefreshAndRetry,
           RejectAction, storeVars, healthVars
  <2>2. /\ disp[a].pc # "queued"
        /\ \A b \in Actions : b # a => disp'[b] = disp[b]
    BY <1>1, <1>3
       DEF SaveAction, ChooseWorker, NoWorkerFound, AddJobFails, RefreshAndRetry, RejectAction
  <2>3. \A b \in Actions : disp'[b].pc # "queued" => disp[b].pc # "queued"
    BY <2>2
  <2> QED BY <2>1, <2>3, HandoverFrame
<1> QED BY <1>2, <1>3 DEF DispatchNext

LEMMA HandoverRequests ==
    ASSUME TypeOK, HandoverInv, UNCHANGED <<pc, cur>>, NEW a \in Actions,
           \/ Cancel(a) \/ StopNext(a) \/ DeleteAction(a)
           \/ \E s \in Diagnostics : RecordDiagnostic(a, s)
    PROVE  HandoverInv'
<1>1. CASE StopPublish(a)
  <2>1. UNCHANGED <<dead, disp>>
    BY <1>1 DEF StopPublish, healthVars
  <2>2. job' = job \/ (job[a].st # "active" /\ job' = [job EXCEPT ![a] = NoJob])
    BY <1>1 DEF StopPublish, Locked
  <2> QED BY <2>1, <2>2, JobRemoved, HandoverFrame
<1>2. CASE \/ Cancel(a) \/ StopRead(a) \/ StopSave(a) \/ DeleteAction(a)
           \/ \E s \in Diagnostics : RecordDiagnostic(a, s)
  <2>1. UNCHANGED <<job, dead, disp>>
    BY <1>2 DEF Cancel, StopRead, StopSave, DeleteAction, RecordDiagnostic, storeVars, healthVars
  <2> QED BY <2>1, HandoverFrame
<1> QED BY <1>1, <1>2 DEF StopNext

LEMMA HandoverHealthCheck ==
    ASSUME TypeOK, HandoverInv, UNCHANGED <<pc, cur>>, HealthCheckNext
    PROVE  HandoverInv'
<1>1. /\ job \in [Actions -> Job]
      /\ dead \in [Workers -> [Actions -> DeadEntry]]
      /\ queues \subseteq Workers
      /\ NoWorker \notin Workers
      /\ NoDeadJob.pc = "none"
      /\ disp' = disp
  BY ZenonT(60), StoreAssumption
     DEF TypeOK, StoreTypeOK, DispatcherTypeOK, DeadEntry, NoDeadJob, HealthCheckNext,
         DetectDeadWorker, ReadDeadJob, RemoveDeadJob, ChooseNewWorker, RequeueJob,
         RequeueLosesJob, FinishHealthCheck, OpenQueues
<1> USE <1>1 DEF HandoverInv
<1>2. ASSUME NEW w \in Workers, DetectDeadWorker(w)
      PROVE  HandoverInv'
  <2>1. job' = job
    BY <1>2 DEF DetectDeadWorker
  <2>2. \/ dead' = dead
        \/ /\ \A v \in Workers \ {w} : dead'[v] = dead[v]
           /\ \A a \in Actions : \/ dead'[w][a].pc = "none"
                                 \/ dead'[w][a].pc = "listed" /\ job[a].q = w
    BY <1>2 DEF DetectDeadWorker, NoDeadJob
  <2>3. ASSUME dead' # dead
        PROVE  HandoverInv'
    <3> USE <2>1, <2>2, <2>3
    <3>1. \A a \in Actions, v \in Workers \ {w} :
              dead'[w][a].pc # "none" => dead[v][a].pc = "none"
      BY DEF MovedFromDead, JobHasQueue, DeadEntry, DeadJobPc
    <3>2. WorkerHoldsJob' /\ JobHasQueue'
      BY DEF WorkerHoldsJob, Works, HoldsLock, JobHasQueue
    <3>3. QueuedByDispatch'
      BY DEF QueuedByDispatch, JobHasQueue
    <3>4. MovedFromDead'
      BY DEF MovedFromDead
    <3>5. OneMover'
      BY <3>1 DEF OneMover
    <3> QED BY <3>2, <3>3, <3>4, <3>5
  <2> QED BY <2>1, <2>2, <2>3, HandoverFrame
<1>3. ASSUME NEW w \in Workers, NEW a \in Actions,
             job' = job,
             \A v \in Workers, b \in Actions : <<v, b>> # <<w, a>> => dead'[v][b] = dead[v][b],
             dead[w][a].pc # "none",
             \/ dead'[w][a].pc = "none"
             \/ dead[w][a].pc = "listed" /\ dead'[w][a].pc = "read"
             \/ dead[w][a].pc = "removed" /\ dead'[w][a].pc = "add"
      PROVE  HandoverInv'
  <2> USE <1>3
  <2>1. WorkerHoldsJob' /\ JobHasQueue'
    BY DEF WorkerHoldsJob, Works, HoldsLock, JobHasQueue
  <2>2. QueuedByDispatch'
    BY DEF QueuedByDispatch
  <2>3. MovedFromDead'
    BY DEF MovedFromDead
  <2>4. OneMover'
    BY DEF OneMover
  <2> QED BY <2>1, <2>2, <2>3, <2>4
<1>4. ASSUME NEW w \in Workers, NEW a \in Actions, ReadDeadJob(w, a)
      PROVE  HandoverInv'
  <2>1. /\ job' = job
        /\ dead[w][a].pc = "listed"
        /\ \/ dead' = [dead EXCEPT ![w][a] = NoDeadJob]
           \/ dead' = [dead EXCEPT ![w][a] = [dead[w][a] EXCEPT !.pc = "read", !.entity = row[a]]]
    BY <1>4 DEF ReadDeadJob, storeVars
  <2>2. [dead[w][a] EXCEPT !.pc = "read", !.entity = row[a]].pc = "read"
    BY DEF DeadEntry
  <2>3. \/ dead'[w][a].pc = "none"
        \/ dead'[w][a].pc = "read"
    BY ZenonT(60), <2>1, <2>2
  <2>4. \A v \in Workers, b \in Actions : <<v, b>> # <<w, a>> => dead'[v][b] = dead[v][b]
    BY <1>4 DEF ReadDeadJob
  <2> QED BY <1>3, <2>1, <2>3, <2>4
<1>5. ASSUME NEW w \in Workers, NEW a \in Actions, ChooseNewWorker(w, a)
      PROVE  HandoverInv'
  <2>1. /\ job' = job
        /\ dead[w][a].pc = "removed"
        /\ \/ dead' = [dead EXCEPT ![w][a] = NoDeadJob]
           \/ \E v \in Workers :
                dead' = [dead EXCEPT ![w][a] = [pc |-> "add", entity |-> AbsentRow, to |-> v]]
    BY <1>5, DispatcherAssumption DEF ChooseNewWorker, findWorkerForAction, Candidates
  <2> QED BY <1>3, <2>1
<1>6. ASSUME NEW w \in Workers, NEW a \in Actions, RequeueLosesJob(w, a)
      PROVE  HandoverInv'
  <2>1. /\ job' = job
        /\ dead[w][a].pc = "add"
        /\ dead' = [dead EXCEPT ![w][a] = NoDeadJob]
    BY <1>6 DEF RequeueLosesJob, storeVars
  <2> QED BY <1>3, <2>1
<1>7. ASSUME NEW w \in Workers, NEW a \in Actions, RemoveDeadJob(w, a)
      PROVE  HandoverInv'
  <2>1. dead[w][a].pc = "read" /\ job[a].q \in {w, NoWorker}
    BY <1>7 DEF RemoveDeadJob, MovedFromDead
  <2>2. CASE Locked(a)
    <3>1. job' = job /\ dead' = [dead EXCEPT ![w][a] = NoDeadJob]
      BY <1>7, <2>2 DEF RemoveDeadJob
    <3> QED BY <1>3, <2>1, <3>1
  <2>3. CASE ~Locked(a)
    <3>1. /\ dead' = [dead EXCEPT ![w][a].pc = "removed"]
          /\ job' = [job EXCEPT ![a] = IF @.q = w THEN NoJob ELSE @]
          /\ job[a].st # "active"
      BY <1>7, <2>3 DEF RemoveDeadJob, Locked
    <3>2. /\ \A b \in Actions : b # a => job'[b] = job[b]
          /\ job'[a].st = "none" /\ job'[a].q = NoWorker
      BY <2>1, <3>1 DEF JobHasQueue, NoJob
    <3>3. /\ dead'[w][a].pc = "removed"
          /\ \A v \in Workers, b \in Actions : <<v, b>> # <<w, a>> => dead'[v][b] = dead[v][b]
      BY <3>1 DEF DeadEntry
    <3> USE <2>1, <3>2, <3>3
    <3>4. WorkerHoldsJob' /\ JobHasQueue'
      BY <3>1 DEF WorkerHoldsJob, Works, HoldsLock, JobHasQueue
    <3>5. QueuedByDispatch'
      BY DEF QueuedByDispatch
    <3>6. MovedFromDead'
      BY DEF MovedFromDead
    <3>7. OneMover'
      BY DEF OneMover
    <3> QED BY <3>4, <3>5, <3>6, <3>7
  <2> QED BY <2>2, <2>3
<1>8. ASSUME NEW w \in Workers, NEW a \in Actions, RequeueJob(w, a)
      PROVE  HandoverInv'
  <2>1. /\ dead[w][a].pc = "add"
        /\ job[a].st = "none"
        /\ \A v \in Workers \ {w} : dead[v][a].pc = "none"
    BY <1>8 DEF RequeueJob, MovedFromDead, OneMover
  <2>2. /\ \A b \in Actions : b # a => job'[b] = job[b]
        /\ job'[a].st = "waiting" /\ job'[a].q \in Workers
    BY <1>8 DEF RequeueJob, WaitingJob
  <2>3. /\ dead'[w][a].pc = "none"
        /\ \A v \in Workers, b \in Actions : <<v, b>> # <<w, a>> => dead'[v][b] = dead[v][b]
    BY <1>8 DEF RequeueJob
  <2> USE <2>1, <2>2, <2>3
  <2>4. WorkerHoldsJob' /\ JobHasQueue'
    BY DEF WorkerHoldsJob, Works, HoldsLock, JobHasQueue
  <2>5. QueuedByDispatch'
    BY DEF QueuedByDispatch
  <2>6. MovedFromDead'
    BY DEF MovedFromDead
  <2>7. OneMover'
    BY DEF OneMover
  <2> QED BY <2>4, <2>5, <2>6, <2>7
<1>9. CASE OpenQueues \/ \E w \in Workers : FinishHealthCheck(w)
  <2>1. UNCHANGED <<job, dead>>
    BY <1>9 DEF OpenQueues, FinishHealthCheck, storeVars, healthVars
  <2> QED BY <2>1, HandoverFrame
<1> QED BY <1>2, <1>4, <1>5, <1>6, <1>7, <1>8, <1>9 DEF HealthCheckNext

\* The pipeline gives its job up only where it becomes idle.
LEMMA HandoverPipeline ==
    ASSUME TypeOK, BusyHasAction, HandoverInv, UNCHANGED <<disp, dead>>,
           NEW w \in Workers, StartSteps(w) \/ ExitSteps(w)
    PROVE  HandoverInv'
<1>1. /\ pc \in [Workers -> RunnerPc]
      /\ cur \in [Workers -> Actions \cup {NoAction}]
      /\ job \in [Actions -> Job]
      /\ pc[w] # "idle"
      /\ cur[w] \in Actions
  BY PipelineBusy DEF TypeOK, StoreTypeOK, RunnerTypeOK
<1>2. HoldsLock(w, cur[w])
  BY <1>1 DEF HandoverInv, WorkerHoldsJob, Works
<1>3. CASE JobCompleted(w) \/ JobFailed(w)
  <2>1. /\ pc' = [pc EXCEPT ![w] = "idle"]
        /\ cur' = [cur EXCEPT ![w] = NoAction]
        /\ \/ job' = [job EXCEPT ![cur[w]] = NoJob]
           \/ job' = [job EXCEPT ![cur[w]] = [job[cur[w]] EXCEPT !.st = "delayed"]]
    BY <1>3 DEF JobCompleted, JobFailed, Settle, Goto
  <2>2. /\ \A b \in Actions : b # cur[w] => job'[b] = job[b]
        /\ \/ job'[cur[w]].st = "none" /\ job'[cur[w]].q = NoWorker
           \/ job'[cur[w]].st = "delayed" /\ job'[cur[w]].q = w
    <3> DEFINE delayed == [job[cur[w]] EXCEPT !.st = "delayed"]
    <3>1. delayed.st = "delayed" /\ delayed.q = w
      <4>1. \A j \in Job : [j EXCEPT !.st = "delayed"].st = "delayed"
                            /\ [j EXCEPT !.st = "delayed"].q = j.q
        BY DEF Job
      <4> QED BY <1>1, <1>2, <4>1 DEF HoldsLock
    <3>2. job' = [job EXCEPT ![cur[w]] = NoJob] \/ job' = [job EXCEPT ![cur[w]] = delayed]
      BY <2>1
    <3> HIDE DEF delayed
    <3> QED BY <1>1, <3>1, <3>2 DEF NoJob
  <2>3. \A v \in Workers, b \in Actions : Works(v, b)' => Works(v, b) /\ b # cur[w]
    BY <1>1, <1>2, <2>1 DEF Works, HoldsLock, HandoverInv, WorkerHoldsJob
  <2> USE <1>1, <1>2, <2>2, StoreAssumption DEF HandoverInv
  <2>4. WorkerHoldsJob'
    BY <2>3 DEF WorkerHoldsJob, HoldsLock
  <2>5. JobHasQueue'
    BY DEF JobHasQueue
  <2>6. QueuedByDispatch'
    BY DEF QueuedByDispatch, HoldsLock
  <2>7. MovedFromDead'
    BY DEF MovedFromDead, HoldsLock
  <2>8. OneMover'
    BY DEF OneMover
  <2> QED BY <2>4, <2>5, <2>6, <2>7, <2>8
<1>4. CASE ~(JobCompleted(w) \/ JobFailed(w))
  <2>1. UNCHANGED <<job, cur>> /\ \E to \in RunnerPc : pc' = [pc EXCEPT ![w] = to]
    <3>1. CASE StartSteps(w)
      BY <3>1
         DEF StartSteps, Goto, RunnerPc, LoadAction, LoadFails, RegisterAction,
             RejectNotPending, CancelledBeforeStart, MarkStarting, createAPIkey, AccessLost,
             MarkProcessing, LaunchContainer, StartFails, RegisterContainer, storeVars
    <3>2. CASE ExitSteps(w)
      BY <1>4, <3>2
         DEF ExitSteps, Goto, RunnerPc, CaptureInfo, AwaitExit, InspectFails, MarkStopping,
             ReadBackFails, ResolveVerdict, WriteVerdict, SkipArtifacts, StartUpload,
             FinishUpload, UploadThrows, Catch, DisposeKey, storeVars
    <3> QED BY <3>1, <3>2
  <2>2. \A v \in Workers : pc'[v] # "idle" => pc[v] # "idle" /\ cur'[v] = cur[v]
    BY <1>1, <2>1
  <2> QED BY <2>1, <2>2, HandoverFrame
<1> QED BY <1>3, <1>4

LEMMA HandoverQueue ==
    ASSUME TypeOK, HandoverInv, UNCHANGED <<disp, dead>>,
           NEW w \in Workers, NEW a \in Actions, QueueSteps(w, a)
    PROVE  HandoverInv'
<1>1. job \in [Actions -> Job] /\ job[a] \in Job
  BY DEF TypeOK, StoreTypeOK
<1>2. UNCHANGED <<pc, cur>>
  BY DEF QueueSteps, HookRead, markJobAsCompleted, handleUnexpectedError, HookThrows,
         PromoteDelayed, StalledJob, StalledTwice, runnerVars
<1>3. CASE HookRead(w, a)
  <2>1. job' = job \/ (job[a].st # "active" /\ job' = [job EXCEPT ![a] = NoJob])
    BY <1>3 DEF HookRead, HoldsLock
  <2> QED BY <1>2, <2>1, JobRemoved, HandoverFrame
<1>4. CASE markJobAsCompleted(w, a) \/ handleUnexpectedError(w, a) \/ HookThrows(w, a)
  <2>1. job' = job
    BY <1>4 DEF markJobAsCompleted, handleUnexpectedError, HookThrows, storeVars
  <2> QED BY <1>2, <2>1, HandoverFrame
<1>5. CASE PromoteDelayed(w, a) \/ StalledJob(w, a) \/ StalledTwice(w, a)
  <2>1. PICK new \in Job :
            /\ new.st # "none" /\ new.q = job[a].q
            /\ job' = [job EXCEPT ![a] = new]
    <3> DEFINE waiting == [job[a] EXCEPT !.st = "waiting"]
               stalled == [job[a] EXCEPT !.st = "waiting", !.stalled = TRUE]
               failed == [job[a] EXCEPT !.st = "failed"]
    <3>1. /\ waiting \in Job /\ stalled \in Job /\ failed \in Job
          /\ waiting.st # "none" /\ waiting.q = job[a].q
          /\ stalled.st # "none" /\ stalled.q = job[a].q
          /\ failed.st # "none" /\ failed.q = job[a].q
      BY <1>1 DEF Job
    <3>2. \/ job' = [job EXCEPT ![a] = waiting]
          \/ job' = [job EXCEPT ![a] = stalled]
          \/ job' = [job EXCEPT ![a] = failed]
      BY <1>1, <1>5 DEF PromoteDelayed, StalledJob, StalledTwice
    <3> HIDE DEF waiting, stalled, failed
    <3> QED BY <3>1, <3>2
  <2>2. job[a].st \notin {"none", "active"}
    BY <1>5 DEF PromoteDelayed, StalledJob, StalledTwice
  <2> QED BY <1>2, <2>1, <2>2, JobAdvanced
<1> QED BY <1>3, <1>4, <1>5 DEF QueueSteps

LEMMA HandoverTake ==
    ASSUME TypeOK, HandoverInv, UNCHANGED <<disp, dead>>,
           NEW w \in Workers, NEW a \in Actions, TakeJob(w, a)
    PROVE  HandoverInv'
<1>1. /\ pc \in [Workers -> RunnerPc]
      /\ cur \in [Workers -> Actions \cup {NoAction}]
      /\ job \in [Actions -> Job]
      /\ job[a].st = "waiting" /\ job[a].q = w
      /\ pc' = [pc EXCEPT ![w] = "fetched"]
      /\ cur' = [cur EXCEPT ![w] = a]
  BY DEF TypeOK, StoreTypeOK, RunnerTypeOK, TakeJob, Goto
<1>2. /\ \A b \in Actions : b # a => job'[b] = job[b]
      /\ job'[a].st = "active" /\ job'[a].q = w
  BY <1>1 DEF TakeJob, Job
<1>3. \A v \in Workers, b \in Actions : Works(v, b)' =>
          (v = w /\ b = a) \/ (Works(v, b) /\ b # a)
  BY <1>1 DEF Works, HoldsLock, HandoverInv, WorkerHoldsJob
<1> USE <1>1, <1>2, StoreAssumption DEF HandoverInv
<1>4. WorkerHoldsJob'
  BY <1>3 DEF WorkerHoldsJob, HoldsLock
<1>5. JobHasQueue'
  BY DEF JobHasQueue
<1>6. QueuedByDispatch'
  BY DEF QueuedByDispatch
<1>7. MovedFromDead'
  BY DEF MovedFromDead
<1>8. OneMover'
  BY DEF OneMover
<1> QED BY <1>4, <1>5, <1>6, <1>7, <1>8

LEMMA HandoverCrash ==
    ASSUME TypeOK, HandoverInv, NEW w \in Workers, Crash(w)
    PROVE  HandoverInv'
<1>1. /\ pc \in [Workers -> RunnerPc]
      /\ job \in [Actions -> Job]
      /\ UNCHANGED <<disp, dead>>
      /\ pc' = [pc EXCEPT ![w] = "idle"]
      /\ \A v \in Workers : v # w => cur'[v] = cur[v]
  BY DEF TypeOK, StoreTypeOK, RunnerTypeOK, Crash, CrashRunner, dispatcherVars
<1>2. \A b \in Actions :
        /\ job'[b].q = job[b].q
        /\ job'[b].st = "none" <=> job[b].st = "none"
        /\ job[b].q # w => job'[b] = job[b]
  BY <1>1 DEF Crash, CrashRunner, Job
<1>3. \A v \in Workers, b \in Actions : Works(v, b)' => v # w /\ Works(v, b)
  BY <1>1 DEF Works
<1> USE <1>1, <1>2 DEF HandoverInv
<1>4. WorkerHoldsJob'
  BY <1>3 DEF WorkerHoldsJob, HoldsLock
<1>5. JobHasQueue'
  BY DEF JobHasQueue
<1>6. QueuedByDispatch'
  BY DEF QueuedByDispatch
<1>7. MovedFromDead'
  BY DEF MovedFromDead
<1>8. OneMover'
  BY DEF OneMover
<1> QED BY <1>4, <1>5, <1>6, <1>7, <1>8

LEMMA HandoverInit == Init => HandoverInv
BY DEF Init, StoreInit, DispatcherInit, RunnerInit, NoJob, NoDeadJob, HandoverInv, WorkerHoldsJob,
       Works, JobHasQueue, QueuedByDispatch, MovedFromDead, OneMover

LEMMA HandoverStep ==
    ASSUME TypeInv, HandoverInv, [Next]_vars
    PROVE  HandoverInv'
<1>1. TypeOK /\ BusyHasAction
  BY DEF TypeInv
<1>2. CASE DispatcherNext /\ UNCHANGED <<runnerVars, janitorVars>>
  BY <1>1, <1>2, HandoverDispatch, HandoverRequests, HandoverHealthCheck
     DEF DispatcherNext, runnerVars
<1>3. CASE RunnerNext /\ UNCHANGED <<dispatcherVars, janitorVars>>
  <2>1. UNCHANGED <<disp, dead>>
    BY <1>3 DEF dispatcherVars
  <2>2. ASSUME NEW w \in Workers, NEW a \in Actions, DeliverCancel(w, a)
        PROVE  HandoverInv'
    BY <2>1, <2>2, HandoverFrame DEF DeliverCancel
  <2> QED
    BY <1>1, <1>3, <2>1, <2>2, HandoverPipeline, HandoverQueue, HandoverTake
       DEF RunnerNext, ProcessNext
<1>4. CASE UNCHANGED <<job, pc, cur, disp, dead>>
  BY <1>4, HandoverFrame
<1>5. CASE StoreNext /\ UNCHANGED <<dispatcherVars, runnerVars, janitorVars>>
  BY <1>4, <1>5
     DEF StoreNext, ContainerExit, DockerRemove, RuntimeExpires, dispatcherVars, runnerVars
<1>6. CASE JanitorNext /\ UNCHANGED <<dispatcherVars, runnerVars>>
  <2>1. job' = job
    BY <1>6 DEF JanitorNext, performReconciliation, Sweep, ListContainers, ReadActive, KillFirst,
                MarkTimedOut, MarkInterrupted, markActionAsFailed, MarkZombie, KillZombie,
                LeaveAlone, DetectCrashed, MarkCrashed, FinishPass, RunnerGoesInactive, storeVars
  <2> QED BY <1>4, <1>6, <2>1 DEF dispatcherVars, runnerVars
<1>7. ASSUME NEW w \in Workers, Restart(w)
      PROVE  HandoverInv'
  BY <1>4, <1>7 DEF Restart, registerRunner, dispatcherVars, runnerVars
<1>8. CASE UNCHANGED vars
  BY <1>4, <1>8 DEF vars, storeVars, dispatcherVars, runnerVars
<1> QED
  BY <1>1, <1>2, <1>3, <1>5, <1>6, <1>7, <1>8, HandoverCrash DEF Next

\* Two consumers never process the same action, for every number of workers and
\* crashes: Bull's lock, the health check's remove-then-add and the dispatcher
\* between them keep an action's job in one place.
THEOREM OneProcessor == Spec => []SingleProcessor
<1>1. Spec => [](TypeInv /\ HandoverInv)
  BY TypeInvInit, TypeInvStep, HandoverInit, HandoverStep, PTL DEF Spec
<1>2. HandoverInv => SingleProcessor
  BY HandoverSafe
<1> QED BY <1>1, <1>2, PTL
-----------------------------------------------------------------------------
(* The states that are written into a row.                                 *)

\* Every row keeps its state, gets a final one or goes.
FinalOnly ==
    \A a \in Actions : row'[a].state \in {row[a].state, "ABSENT"} \cup TERMINAL_ACTION_STATES

LEMMA RowsSame == ASSUME row' = row PROVE FinalOnly
BY DEF FinalOnly

LEMMA UpdateFinal ==
    ASSUME row \in [Actions -> Row], NEW a \in Actions, NEW new \in Row, Update(a, new),
           new.state \in {row[a].state} \cup TERMINAL_ACTION_STATES
    PROVE  FinalOnly
BY DEF Update, FinalOnly

\* The states of the rows that are written.
LEMMA RowStates ==
    ASSUME NEW a \in Actions, row \in [Actions -> Row]
    PROVE  /\ \A o \in ActionFailureOrigin : FailedRow(a, o).state = "FAILED"
           /\ \A s \in ActionSeverity : RaiseSeverity(a, s).state = row[a].state
           /\ \A e \in Row : Unprocessable(e).state = "UNPROCESSABLE"
                             /\ UnexpectedError(e).state = "FAILED"
           /\ UploadFailed(a).state = row[a].state
           /\ \A v \in Verdict : VerdictRow(a, v).state \in TERMINAL_ACTION_STATES
<1>1. row[a] \in Row
  OBVIOUS
<1>2. \A o \in ActionFailureOrigin : FailedRow(a, o).state = "FAILED"
  BY <1>1 DEF FailedRow, Row
<1>3. \A s \in ActionSeverity : RaiseSeverity(a, s).state = row[a].state
  BY <1>1 DEF RaiseSeverity, Row
<1>4. \A e \in Row : /\ Unprocessable(e).state = "UNPROCESSABLE"
                     /\ UnexpectedError(e).state = "FAILED"
  BY DEF Unprocessable, UnexpectedError, Row
<1>5. UploadFailed(a).state = row[a].state
  <2>1. RaiseSeverity(a, "WARNING") \in Row /\ RaiseSeverity(a, "WARNING").state = row[a].state
    BY <1>3, RowHelpers DEF ActionSeverity
  <2>2. \A e \in Row : [e EXCEPT !.artifacts = "ERROR"].state = e.state
    BY DEF Row
  <2> QED BY <2>1, <2>2 DEF UploadFailed
<1>6. \A v \in Verdict : VerdictRow(a, v).state \in TERMINAL_ACTION_STATES
  <2>1. \A v \in Verdict : VerdictRow(a, v).state = v.state
    BY <1>1 DEF VerdictRow, Row
  <2>2. \A v \in Verdict : v.state \in TERMINAL_ACTION_STATES
    BY DEF Verdict
  <2> QED BY <2>1, <2>2
<1> QED BY <1>2, <1>3, <1>4, <1>5, <1>6

LEMMA EditStates ==
    ASSUME NEW r \in Row
    PROVE  /\ \A w \in Workers \cup {NoWorker} : [r EXCEPT !.worker = w].state = r.state
           /\ \A s \in ActionState : [r EXCEPT !.state = s].state = s
           /\ \A x \in {"AWAITING", "UPLOADING", "UPLOADED", "ERROR"} :
                /\ [r EXCEPT !.artifacts = x].state = r.state
                /\ [r EXCEPT !.ended = TRUE, !.artifacts = x].state = r.state
<1>1. \A w \in Workers \cup {NoWorker} : [r EXCEPT !.worker = w].state = r.state
  BY DEF Row
<1>2. \A s \in ActionState : [r EXCEPT !.state = s].state = s
  BY DEF Row
<1>3. \A x \in {"AWAITING", "UPLOADING", "UPLOADED", "ERROR"} :
        /\ [r EXCEPT !.artifacts = x].state = r.state
        /\ [r EXCEPT !.ended = TRUE, !.artifacts = x].state = r.state
  BY DEF Row
<1> QED BY <1>1, <1>2, <1>3

LEMMA FinalStates ==
    {"CANCELLED", "FAILED", "UNPROCESSABLE", "DONE"} = TERMINAL_ACTION_STATES
BY DEF TERMINAL_ACTION_STATES

\* The states the pipeline of w writes into the row of its action on the way to
\* a final one.
OnTheWay(w, s) ==
    \/ s = "STARTING" /\ MarkStarting(w)
    \/ s = "PROCESSING" /\ MarkProcessing(w)
    \/ s = "STOPPING" /\ MarkStopping(w)

\* What the pipeline of w writes is about its own action.
LEMMA PipelineRows ==
    ASSUME TypeOK, BusyHasAction,
           NEW w \in Workers, StartSteps(w) \/ ExitSteps(w)
    PROVE  /\ \A a \in Actions \ {cur[w]} : row'[a] = row[a]
           /\ \/ row'[cur[w]].state \in {row[cur[w]].state} \cup TERMINAL_ACTION_STATES
              \/ OnTheWay(w, row'[cur[w]].state)
<1> DEFINE old == row[cur[w]]
<1>1. row \in [Actions -> Row] /\ cur[w] \in Actions /\ old \in Row
  BY PipelineBusy DEF TypeOK, StoreTypeOK
<1>2. {"CANCELLED", "STARTING", "PROCESSING", "STOPPING"} \subseteq ActionState
  BY DEF ActionState, TERMINAL_ACTION_STATES, CANCELLABLE_ACTION_STATES
<1>3. \A s \in {"CANCELLED", "STARTING", "PROCESSING", "STOPPING"} :
          [old EXCEPT !.state = s] \in Row /\ [old EXCEPT !.state = s].state = s
  BY <1>1, <1>2, RowEdits, EditStates
<1>4. SUFFICES \/ row' = row
               \/ \E new \in Row :
                    /\ Update(cur[w], new)
                    /\ \/ new.state \in {old.state} \cup TERMINAL_ACTION_STATES
                       \/ OnTheWay(w, new.state)
  BY <1>1 DEF Update
<1> HIDE DEF old
<1>5. CASE LoadAction(w)
  <2>1. [old EXCEPT !.worker = w] \in Row /\ [old EXCEPT !.worker = w].state = old.state
    BY <1>1, RowEdits, EditStates
  <2> QED BY <1>5, <2>1 DEF LoadAction, old
<1>6. CASE CancelledBeforeStart(w)
  BY <1>6, <1>3, FinalStates DEF CancelledBeforeStart, old
<1>7. CASE MarkStarting(w)
  BY <1>7, <1>3 DEF MarkStarting, OnTheWay, old
<1>8. CASE MarkProcessing(w)
  BY <1>8, <1>3 DEF MarkProcessing, OnTheWay, old
<1>9. CASE MarkStopping(w)
  BY <1>9, <1>3 DEF MarkStopping, OnTheWay, old
<1>10. CASE WriteVerdict(w)
  <2>1. verdict[w] \in Verdict
    BY DEF TypeOK, RunnerTypeOK
  <2> QED BY <1>1, <1>10, <2>1, RowHelpers, RowStates DEF WriteVerdict
<1>11. CASE SkipArtifacts(w)
  BY <1>1, <1>11, RowEdits, EditStates DEF SkipArtifacts, old
<1>12. CASE StartUpload(w)
  BY <1>1, <1>12, RowEdits, EditStates DEF StartUpload, old
<1>13. CASE FinishUpload(w)
  <2>1. UploadFailed(cur[w]) \in Row /\ UploadFailed(cur[w]).state = old.state
    BY <1>1, RowHelpers, RowStates DEF old
  <2>2. /\ [old EXCEPT !.artifacts = "UPLOADED"] \in Row
        /\ [old EXCEPT !.artifacts = "UPLOADED"].state = old.state
    BY <1>1, RowEdits, EditStates
  <2> QED BY <1>13, <2>1, <2>2 DEF FinishUpload, old
<1>14. CASE Catch(w)
  <2>1. FailedRow(cur[w], "SYSTEM") \in Row /\ FailedRow(cur[w], "SYSTEM").state = "FAILED"
    BY <1>1, RowHelpers, RowStates DEF ActionFailureOrigin
  <2> QED BY <1>14, <1>3, <2>1, FinalStates DEF Catch, old
<1>15. CASE \/ LoadFails(w) \/ RegisterAction(w) \/ RejectNotPending(w) \/ createAPIkey(w)
            \/ AccessLost(w) \/ LaunchContainer(w) \/ StartFails(w) \/ RegisterContainer(w)
            \/ CaptureInfo(w) \/ AwaitExit(w) \/ InspectFails(w) \/ ReadBackFails(w)
            \/ ResolveVerdict(w) \/ UploadThrows(w) \/ DisposeKey(w)
            \/ JobCompleted(w) \/ JobFailed(w)
  BY <1>15
     DEF LoadFails, RegisterAction, RejectNotPending, createAPIkey, AccessLost, LaunchContainer,
         StartFails, RegisterContainer, CaptureInfo, AwaitExit, InspectFails, ReadBackFails,
         ResolveVerdict, UploadThrows, DisposeKey, JobCompleted, JobFailed, Settle, storeVars
<1> QED
  BY <1>5, <1>6, <1>7, <1>8, <1>9, <1>10, <1>11, <1>12, <1>13, <1>14, <1>15
     DEF StartSteps, ExitSteps

LEMMA DispatchRows ==
    ASSUME TypeOK, NEW a \in Actions, DispatchNext(a)
    PROVE  FinalOnly
<1>1. row \in [Actions -> Row] /\ row[a] \in Row
  BY DEF TypeOK, StoreTypeOK
<1>2. CASE ChooseWorker(a)
  <2>1. PICK w \in Workers : Update(a, [row[a] EXCEPT !.worker = w])
    BY <1>2, DispatcherAssumption DEF ChooseWorker, findWorkerForAction, Candidates
  <2>2. /\ [row[a] EXCEPT !.worker = w] \in Row
        /\ [row[a] EXCEPT !.worker = w].state = row[a].state
    BY <1>1, RowEdits, EditStates
  <2> QED BY <1>1, <2>1, <2>2, UpdateFinal
<1>3. CASE NoWorkerFound(a)
  <2> DEFINE new == [AbsentRow EXCEPT !.worker = row[a].worker]
  <2>1. new \in Row
    BY <1>1, AbsentRowType DEF Row
  <2>2. Unprocessable(new).state = "UNPROCESSABLE"
    BY <1>1, <2>1, RowStates
  <2>3. row' = [row EXCEPT ![a] = Unprocessable(new)]
    BY <1>3 DEF NoWorkerFound
  <2> HIDE DEF new
  <2> QED BY <1>1, <2>2, <2>3, FinalStates DEF FinalOnly
<1>4. CASE RejectAction(a)
  <2>1. Unprocessable(row[a]) \in Row /\ Unprocessable(row[a]).state = "UNPROCESSABLE"
    BY <1>1, RowHelpers, RowStates
  <2> QED BY <1>1, <1>4, <2>1, UpdateFinal, FinalStates DEF RejectAction
<1>5. CASE AddJob(a) \/ AddJobFails(a) \/ RefreshAndRetry(a)
  BY <1>5, RowsSame DEF AddJob, AddJobFails, RefreshAndRetry, storeVars
<1> QED BY <1>2, <1>3, <1>4, <1>5 DEF DispatchNext

LEMMA RequestRows ==
    ASSUME TypeOK, NEW a \in Actions,
           \/ Cancel(a) \/ StopNext(a) \/ DeleteAction(a)
           \/ \E s \in Diagnostics : RecordDiagnostic(a, s)
    PROVE  FinalOnly
<1>1. row \in [Actions -> Row] /\ req[a].entity \in Row
  BY DEF TypeOK, StoreTypeOK, DispatcherTypeOK
<1>2. CASE StopSave(a)
  <2>1. /\ [req[a].entity EXCEPT !.state = "CANCELLED"] \in Row
        /\ [req[a].entity EXCEPT !.state = "CANCELLED"].state = "CANCELLED"
    BY ZenonT(60), <1>1, RowEdits, EditStates DEF ActionState, TERMINAL_ACTION_STATES
  <2>2. Update(a, [req[a].entity EXCEPT !.state = "CANCELLED"])
    BY <1>2 DEF StopSave, SaveEntity
  <2>3. "CANCELLED" \in TERMINAL_ACTION_STATES
    BY FinalStates
  <2> QED BY <1>1, <2>1, <2>2, <2>3, UpdateFinal
<1>3. CASE DeleteAction(a)
  BY <1>1, <1>3 DEF DeleteAction, AbsentRow, FinalOnly
<1>4. ASSUME NEW s \in Diagnostics, RecordDiagnostic(a, s)
      PROVE  FinalOnly
  <2>1. RaiseSeverity(a, s).state = row[a].state
    BY <1>1, RowStates, DispatcherAssumption
  <2> QED BY <1>1, <1>4, <2>1 DEF RecordDiagnostic, FinalOnly
<1>5. CASE Cancel(a) \/ StopRead(a) \/ StopPublish(a)
  BY <1>5, RowsSame DEF Cancel, StopRead, StopPublish, storeVars
<1> QED BY <1>2, <1>3, <1>4, <1>5 DEF StopNext

LEMMA HealthCheckRows ==
    ASSUME TypeOK, HealthCheckNext
    PROVE  FinalOnly
<1>1. row \in [Actions -> Row] /\ dead \in [Workers -> [Actions -> DeadEntry]]
  BY DEF TypeOK, StoreTypeOK, DispatcherTypeOK, DeadEntry
<1>2. ASSUME NEW w \in Workers, NEW a \in Actions, ChooseNewWorker(w, a)
      PROVE  FinalOnly
  <2>1. \A v \in Workers : /\ [row[a] EXCEPT !.worker = v] \in Row
                           /\ [row[a] EXCEPT !.worker = v].state = row[a].state
    BY <1>1, RowEdits, EditStates
  <2>2. /\ row[a].worker \in Workers \cup {NoWorker}
        /\ dead[w][a].entity \in Row
    BY <1>1 DEF Row, DeadEntry
  <2> DEFINE new == [dead[w][a].entity EXCEPT !.worker = row[a].worker]
  <2>3. new \in Row
    BY <2>2, RowEdits
  <2>4. Unprocessable(new) \in Row /\ Unprocessable(new).state = "UNPROCESSABLE"
    BY <1>1, <2>3, RowHelpers, RowStates
  <2>5. \/ \E v \in Workers : Update(a, [row[a] EXCEPT !.worker = v])
        \/ Update(a, Unprocessable(new))
    BY <1>2, DispatcherAssumption
       DEF ChooseNewWorker, SaveEntity, findWorkerForAction, Candidates
  <2> HIDE DEF new
  <2> QED BY <1>1, <2>1, <2>4, <2>5, UpdateFinal, FinalStates
<1>3. ASSUME \/ \E w \in Workers : DetectDeadWorker(w) \/ FinishHealthCheck(w)
             \/ \E w \in Workers, a \in Actions :
                  \/ ReadDeadJob(w, a) \/ RemoveDeadJob(w, a)
                  \/ RequeueJob(w, a) \/ RequeueLosesJob(w, a)
             \/ OpenQueues
      PROVE  row' = row
  BY <1>3 DEF DetectDeadWorker, FinishHealthCheck, ReadDeadJob, RemoveDeadJob, RequeueJob,
              RequeueLosesJob, OpenQueues, storeVars
<1> QED BY <1>2, <1>3, RowsSame DEF HealthCheckNext

\* The lifecycle hooks write final states only.
LEMMA QueueRows ==
    ASSUME TypeOK, NEW w \in Workers, NEW a \in Actions, QueueSteps(w, a)
    PROVE  FinalOnly
<1>1. /\ row \in [Actions -> Row]
      /\ hook[w][a].entity \in Row
      /\ row[a].worker \in Workers \cup {NoWorker}
  BY DEF TypeOK, StoreTypeOK, RunnerTypeOK, Row
<1>2. CASE markJobAsCompleted(w, a)
  <2> DEFINE e == hook[w][a].entity
             s == resolveCompletedActionState(e.state)
             new == [e EXCEPT !.state = s, !.worker = row[a].worker]
  <2>1. s \in TERMINAL_ACTION_STATES
    BY DEF resolveCompletedActionState, isTerminalActionState, TERMINAL_ACTION_STATES
  <2>2. new \in Row /\ new.state = s
    BY <1>1, <2>1 DEF Row, ActionState
  <2>3. row' = row \/ Update(a, new)
    BY <1>2 DEF markJobAsCompleted, SaveEntity
  <2> HIDE DEF new
  <2> QED BY <1>1, <2>1, <2>2, <2>3, UpdateFinal, RowsSame
<1>3. CASE handleUnexpectedError(w, a)
  <2> DEFINE e == UnexpectedError(hook[w][a].entity)
             new == [e EXCEPT !.worker = row[a].worker]
  <2>1. e \in Row /\ e.state = "FAILED"
    BY <1>1, RowHelpers, RowStates
  <2>2. Update(a, new)
    BY <1>3 DEF handleUnexpectedError, SaveEntity
  <2> HIDE DEF e
  <2>3. new \in Row /\ new.state = "FAILED"
    BY <1>1, <2>1, RowEdits, EditStates
  <2> HIDE DEF new
  <2> QED BY <1>1, <2>2, <2>3, UpdateFinal, FinalStates
<1>4. CASE \/ HookRead(w, a) \/ HookThrows(w, a) \/ PromoteDelayed(w, a)
           \/ StalledJob(w, a) \/ StalledTwice(w, a)
  BY <1>4, RowsSame
     DEF HookRead, HookThrows, PromoteDelayed, StalledJob, StalledTwice, storeVars
<1> QED BY <1>2, <1>3, <1>4 DEF QueueSteps

LEMMA JanitorRows ==
    ASSUME TypeOK, JanitorNext
    PROVE  FinalOnly
<1>1. row \in [Actions -> Row] /\ {"USER", "SYSTEM"} \subseteq ActionFailureOrigin
  BY DEF TypeOK, StoreTypeOK, ActionFailureOrigin
<1>2. ASSUME NEW a, NEW o \in ActionFailureOrigin, Update(a, FailedRow(a, o))
      PROVE  FinalOnly
  <2>1. CASE a \in Actions
    <3>1. FailedRow(a, o) \in Row /\ FailedRow(a, o).state = "FAILED"
      BY <1>1, <2>1, RowHelpers, RowStates
    <3> QED BY <1>1, <1>2, <2>1, <3>1, UpdateFinal, FinalStates
  <2>2. CASE a \notin Actions
    BY <1>2, <2>2, <1>1 DEF Update, FinalOnly
  <2> QED BY <2>1, <2>2
<1>3. ASSUME NEW w \in Workers, MarkTimedOut(w) \/ MarkInterrupted(w)
      PROVE  FinalOnly
  BY <1>1, <1>2, <1>3 DEF MarkTimedOut, MarkInterrupted, markActionAsFailed
<1>4. ASSUME NEW w \in Workers, NEW c \in Runners \X Actions, MarkZombie(w, c)
      PROVE  FinalOnly
  <2>1. Update(c[2], FailedRow(c[2], "SYSTEM"))
    BY <1>4 DEF MarkZombie, Zombie, Update
  <2> QED BY <1>1, <1>2, <2>1
<1>5. ASSUME NEW w \in Workers, NEW a \in Actions, MarkCrashed(w, a)
      PROVE  FinalOnly
  BY <1>1, <1>2, <1>5 DEF MarkCrashed
<1>6. ASSUME NEW w \in Workers,
             \/ ListContainers(w) \/ ReadActive(w) \/ DetectCrashed(w) \/ FinishPass(w)
             \/ KillZombie(w)
             \/ \E c \in Runners \X Actions : LeaveAlone(w, c) \/ KillFirst(w, c)
      PROVE  FinalOnly
  BY <1>6, RowsSame
     DEF ListContainers, ReadActive, DetectCrashed, FinishPass, KillZombie, LeaveAlone,
         KillFirst, storeVars
<1>7. ASSUME NEW r \in Runners, RunnerGoesInactive(r)
      PROVE  FinalOnly
  BY <1>7, RowsSame DEF RunnerGoesInactive, storeVars
<1> QED
  BY <1>3, <1>4, <1>5, <1>6, <1>7 DEF JanitorNext, performReconciliation, Sweep
-----------------------------------------------------------------------------
(* How often an action's container is started: the PENDING check, made     *)
(* against a state read some awaits earlier, is enough.                    *)

NeverStarted(a) == \A r \in Runners : cont[r][a].st = "none"

\* Nothing was started for an action that is PENDING or not dispatched yet.
PendingNotStarted ==
    \A a \in Actions : row[a].state = "PENDING" \/ disp[a].pc = "new" => NeverStarted(a)

\* A worker that may go on to start a container, starts the first one ...
MayStartOnce ==
    \A w \in Workers, a \in Actions :
        Works(w, a) /\ pc[w] \in {"loaded", "registered"} /\ loaded[w] = "PENDING"
            => NeverStarted(a)

\* ... and has marked the row, so that nobody else will.
StartingOnce ==
    \A w \in Workers, a \in Actions :
        Works(w, a) /\ pc[w] \in {"starting", "keyed", "processing"}
            => NeverStarted(a) /\ row[a].state # "PENDING"

StartInv == PendingNotStarted /\ MayStartOnce /\ StartingOnce /\ AtMostOneStart

\* No row is made PENDING again; no container is started, or its start undone.
PendingKept == \A a \in Actions : row'[a].state = "PENDING" => row[a].state = "PENDING"

StartedKept ==
    \A r \in Runners, a \in Actions :
        /\ cont'[r][a].st = "none" <=> cont[r][a].st = "none"
        /\ cont'[r][a].st = "running" => cont[r][a].st = "running"

BeforeStart == {"loaded", "registered", "starting", "keyed", "processing"}

\* A step that keeps both, and moves no worker towards a start.
LEMMA StartFrame ==
    ASSUME StartInv, PendingKept, StartedKept,
           \A w \in Workers : \/ pc'[w] \notin BeforeStart
                              \/ pc'[w] = pc[w] /\ cur'[w] = cur[w] /\ loaded'[w] = loaded[w],
           \A a \in Actions : disp'[a].pc = "new" => disp[a].pc = "new"
    PROVE  StartInv'
<1>1. \A a \in Actions : NeverStarted(a) => NeverStarted(a)'
  BY DEF NeverStarted, StartedKept
<1> USE <1>1 DEF StartInv
<1>2. PendingNotStarted'
  BY DEF PendingNotStarted, PendingKept
<1>3. MayStartOnce'
  BY DEF MayStartOnce, Works, BeforeStart
<1>4. StartingOnce'
  BY DEF StartingOnce, Works, BeforeStart, PendingKept
<1>5. AtMostOneStart'
  BY DEF AtMostOneStart, StartedKept
<1> QED BY <1>2, <1>3, <1>4, <1>5

\* An edit of one container that does not start it, or undo its start.
LEMMA ContainerEditKept ==
    ASSUME cont \in [Runners -> [Actions -> Container]],
           NEW r \in Runners, NEW a \in Actions, NEW c,
           cont' = [cont EXCEPT ![r][a] = c],
           c.st = "none" <=> cont[r][a].st = "none",
           c.st = "running" => cont[r][a].st = "running"
    PROVE  StartedKept
BY DEF StartedKept

LEMMA KilledStates ==
    ASSUME NEW c \in Container
    PROVE  /\ Killed(c).st = "none" <=> c.st = "none"
           /\ Killed(c).st # "running"
           /\ [Killed(c) EXCEPT !.rm = TRUE].st = Killed(c).st
           /\ [c EXCEPT !.rm = TRUE].st = c.st
<1>1. (Killed(c).st = "none" <=> c.st = "none") /\ Killed(c).st # "running"
  BY DEF Killed, Container
<1>2. \A d \in Container : [d EXCEPT !.rm = TRUE].st = d.st
  BY DEF Container
<1>3. Killed(c) \in Container
  BY ContainerHelpers
<1> QED BY <1>1, <1>2, <1>3

LEMMA FinalKeepsPending == ASSUME FinalOnly PROVE PendingKept
BY DEF FinalOnly, PendingKept, TERMINAL_ACTION_STATES

\* The pipeline of w never writes PENDING.
LEMMA PipelinePending ==
    ASSUME TypeOK, BusyHasAction,
           NEW w \in Workers, StartSteps(w) \/ ExitSteps(w)
    PROVE  PendingKept
BY PipelineRows DEF PendingKept, OnTheWay, TERMINAL_ACTION_STATES

\* The steps up to the start of the container.
LEMMA StartPipelineStarts ==
    ASSUME TypeOK, BusyHasAction, HandoverInv, StartInv, UNCHANGED disp, NEW w \in Workers,
           \/ LoadAction(w) \/ RegisterAction(w) \/ MarkStarting(w) \/ createAPIkey(w)
           \/ MarkProcessing(w) \/ LaunchContainer(w) \/ StartFails(w)
    PROVE  StartInv'
<1> DEFINE a == cur[w]
<1>1. /\ pc \in [Workers -> RunnerPc]
      /\ cur \in [Workers -> Actions \cup {NoAction}]
      /\ loaded \in [Workers -> ActionState]
      /\ row \in [Actions -> Row]
      /\ cont \in [Runners -> [Actions -> Container]]
      /\ a \in Actions
      /\ Me(w) \in Runners
      /\ pc[w] # "idle"
      /\ \A b \in Actions : Works(w, b) <=> b = a
      /\ \A v \in Workers : Works(v, a) => v = w
  <2>1. StartSteps(w)
    BY DEF StartSteps
  <2> QED
    BY <2>1, PipelineBusy, HandoverSafe
       DEF TypeOK, StoreTypeOK, RunnerTypeOK, Works, SingleProcessor, Me, Runners
<1>2. PendingKept
  BY PipelinePending DEF StartSteps
<1>3. cur' = cur /\ \A v \in Workers : v # w => pc'[v] = pc[v] /\ loaded'[v] = loaded[v]
  BY <1>1 DEF LoadAction, RegisterAction, MarkStarting, createAPIkey, MarkProcessing,
              LaunchContainer, StartFails, Goto
<1>4. CASE \/ LoadAction(w) \/ RegisterAction(w) \/ MarkStarting(w) \/ createAPIkey(w)
           \/ MarkProcessing(w)
  <2>1. StartedKept
    BY <1>4 DEF LoadAction, RegisterAction, MarkStarting, createAPIkey, MarkProcessing,
                StartedKept, storeVars
  <2>2. \A b \in Actions : NeverStarted(b) => NeverStarted(b)'
    BY <2>1 DEF NeverStarted, StartedKept
  <2>3. PendingNotStarted' /\ AtMostOneStart'
    BY <1>2, <2>1, <2>2 DEF StartInv, PendingNotStarted, PendingKept, AtMostOneStart, StartedKept
  <2>4. pc'[w] \in {"loaded", "registered"} /\ loaded'[w] = "PENDING" => NeverStarted(a)
    BY <1>1, <1>4
       DEF LoadAction, RegisterAction, MarkStarting, createAPIkey, MarkProcessing, Goto,
           StartInv, PendingNotStarted, MayStartOnce
  <2>5. pc'[w] \in {"starting", "keyed", "processing"}
            => NeverStarted(a) /\ row'[a].state # "PENDING"
    <3>1. CASE MarkStarting(w)
      <4>1. NeverStarted(a)
        BY <1>1, <3>1 DEF MarkStarting, MayStart, Goto, StartInv, MayStartOnce
      <4>2. row'[a].state # "PENDING"
        BY <1>1, <3>1 DEF MarkStarting, Update, Exists, Row
      <4> QED BY <4>1, <4>2
    <3>2. CASE createAPIkey(w) \/ MarkProcessing(w)
      BY <1>1, <1>2, <3>2
         DEF createAPIkey, MarkProcessing, Goto, StartInv, StartingOnce, PendingKept
    <3>3. CASE LoadAction(w) \/ RegisterAction(w)
      BY <1>1, <3>3 DEF LoadAction, RegisterAction, Goto
    <3> QED BY <1>4, <3>1, <3>2, <3>3
  <2>6. MayStartOnce'
    BY <1>1, <1>3, <2>2, <2>4 DEF StartInv, MayStartOnce, Works
  <2>7. StartingOnce'
    BY <1>1, <1>2, <1>3, <2>2, <2>5 DEF StartInv, StartingOnce, Works, PendingKept
  <2> QED BY <2>3, <2>6, <2>7 DEF StartInv
<1>5. CASE LaunchContainer(w) \/ StartFails(w)
  <2>1. pc[w] \in {"keyed", "processing"} /\ pc'[w] \notin BeforeStart
    BY <1>1, <1>5 DEF LaunchContainer, StartFails, Goto, BeforeStart
  <2>2. NeverStarted(a) /\ row[a].state # "PENDING" /\ disp[a].pc # "new"
    BY <1>1, <2>1
       DEF StartInv, StartingOnce, HandoverInv, WorkerHoldsJob, HoldsLock, QueuedByDispatch
  <2>3. \A r \in Runners, b \in Actions : <<r, b>> # <<Me(w), a>> => cont'[r][b] = cont[r][b]
    BY <1>1, <1>5 DEF LaunchContainer, StartFails
  <2>4. \A b \in Actions : b # a /\ NeverStarted(b) => NeverStarted(b)'
    BY <2>3 DEF NeverStarted
  <2>5. PendingNotStarted'
    BY <1>2, <2>2, <2>4 DEF StartInv, PendingNotStarted, PendingKept
  <2>7. ASSUME NEW v \in Workers, NEW b \in Actions, Works(v, b)', pc'[v] \in BeforeStart
        PROVE  Works(v, b) /\ pc'[v] = pc[v] /\ loaded'[v] = loaded[v] /\ b # a
    BY <1>1, <1>3, <2>1, <2>7 DEF Works
  <2>8. MayStartOnce'
    BY <2>4, <2>7 DEF StartInv, MayStartOnce, BeforeStart
  <2>9. StartingOnce'
    BY <1>2, <2>4, <2>7 DEF StartInv, StartingOnce, PendingKept, BeforeStart
  <2>6. AtMostOneStart'
    BY <2>2, <2>3 DEF StartInv, AtMostOneStart, NeverStarted
  <2> QED BY <2>5, <2>6, <2>8, <2>9 DEF StartInv
<1> QED BY <1>4, <1>5

\* Only two steps of the pipeline start, or create, a container.
LEMMA PipelineKept ==
    ASSUME TypeOK, BusyHasAction, NEW w \in Workers, StartSteps(w) \/ ExitSteps(w),
           ~LaunchContainer(w), ~StartFails(w)
    PROVE  StartedKept
<1> DEFINE c == cont[Me(w)][cur[w]]
<1>1. /\ cont \in [Runners -> [Actions -> Container]]
      /\ cur[w] \in Actions
      /\ Me(w) \in Runners
  BY PipelineBusy DEF TypeOK, StoreTypeOK, Me, Runners
<1>2. /\ c \in Container
      /\ Killed(c).st = "none" <=> c.st = "none"
      /\ Killed(c).st # "running"
      /\ [c EXCEPT !.rm = TRUE].st = c.st
  BY <1>1, KilledStates
<1>3. CASE RegisterContainer(w)
  <2>1. cont' = cont \/ cont' = [cont EXCEPT ![Me(w)][cur[w]] = Killed(c)]
    BY <1>1, <1>3 DEF RegisterContainer, KillIfCancelled, KillContainer
  <2>2. CASE cont' = cont
    BY <2>2 DEF StartedKept
  <2>3. CASE cont' = [cont EXCEPT ![Me(w)][cur[w]] = Killed(c)]
    BY <1>1, <1>2, <2>3, ContainerEditKept
  <2> QED BY <2>1, <2>2, <2>3
<1>4. CASE MarkStopping(w)
  <2>1. cont' = [cont EXCEPT ![Me(w)][cur[w]] = [c EXCEPT !.rm = TRUE]]
    BY <1>1, <1>4 DEF MarkStopping
  <2> QED BY <1>1, <1>2, <2>1, ContainerEditKept
<1>5. CASE StartSteps(w) /\ ~RegisterContainer(w)
  <2>1. cont' = cont
    BY <1>5
       DEF StartSteps, LoadAction, LoadFails, RegisterAction, RejectNotPending,
           CancelledBeforeStart, MarkStarting, createAPIkey, AccessLost, MarkProcessing, storeVars
  <2> QED BY <2>1 DEF StartedKept
<1>6. CASE ExitSteps(w) /\ ~MarkStopping(w)
  <2>1. cont' = cont
    BY <1>6
       DEF ExitSteps, CaptureInfo, AwaitExit, InspectFails, ReadBackFails, ResolveVerdict,
           WriteVerdict, SkipArtifacts, StartUpload, FinishUpload, UploadThrows, Catch,
           DisposeKey, JobCompleted, JobFailed, Settle, storeVars
  <2> QED BY <2>1 DEF StartedKept
<1> QED BY <1>3, <1>4, <1>5, <1>6

\* The other steps of the pipeline.
LEMMA StartPipeline ==
    ASSUME TypeOK, BusyHasAction, HandoverInv, StartInv, UNCHANGED disp,
           NEW w \in Workers, StartSteps(w) \/ ExitSteps(w)
    PROVE  StartInv'
<1>1. CASE \/ LoadAction(w) \/ RegisterAction(w) \/ MarkStarting(w) \/ createAPIkey(w)
           \/ MarkProcessing(w) \/ LaunchContainer(w) \/ StartFails(w)
  BY <1>1, StartPipelineStarts
<1>2. CASE \/ LoadFails(w) \/ RejectNotPending(w) \/ CancelledBeforeStart(w) \/ AccessLost(w)
           \/ RegisterContainer(w) \/ ExitSteps(w)
  <2>1. PendingKept
    BY PipelinePending
  <2>2. /\ pc \in [Workers -> RunnerPc]
        /\ cur \in [Workers -> Actions \cup {NoAction}]
        /\ loaded \in [Workers -> ActionState]
        /\ cont \in [Runners -> [Actions -> Container]]
        /\ cur[w] \in Actions
        /\ Me(w) \in Runners
    BY PipelineBusy DEF TypeOK, StoreTypeOK, RunnerTypeOK, Me, Runners
  <2>3. /\ \E to \in RunnerPc \ BeforeStart : pc' = [pc EXCEPT ![w] = to]
        /\ \/ UNCHANGED <<cur, loaded>>
           \/ /\ cur' = [cur EXCEPT ![w] = NoAction]
              /\ loaded' = [loaded EXCEPT ![w] = "PENDING"]
    BY <1>2
       DEF LoadFails, RejectNotPending, CancelledBeforeStart, AccessLost, RegisterContainer,
           ExitSteps, CaptureInfo, AwaitExit, InspectFails, MarkStopping, ReadBackFails,
           ResolveVerdict, WriteVerdict, SkipArtifacts, StartUpload, FinishUpload,
           UploadThrows, Catch, DisposeKey, JobCompleted, JobFailed, Settle, Goto, RunnerPc,
           BeforeStart
  <2>4. \A v \in Workers : \/ pc'[v] \notin BeforeStart
                           \/ pc'[v] = pc[v] /\ cur'[v] = cur[v] /\ loaded'[v] = loaded[v]
    BY <2>2, <2>3
  <2>5. CASE ~LaunchContainer(w) /\ ~StartFails(w)
    <3>1. StartedKept
      BY <2>5, PipelineKept
    <3> QED BY <2>1, <2>4, <3>1, StartFrame
  <2>6. CASE LaunchContainer(w) \/ StartFails(w)
    BY <2>6, StartPipelineStarts
  <2> QED BY <2>5, <2>6
<1> QED BY <1>1, <1>2 DEF StartSteps

\* Containers die, and are removed, but are not un-started.
LEMMA StartStore ==
    ASSUME TypeOK, StoreNext
    PROVE  PendingKept /\ StartedKept
<1>1. cont \in [Runners -> [Actions -> Container]]
  BY DEF TypeOK, StoreTypeOK
<1>2. ASSUME NEW r \in Runners, NEW a \in Actions, NEW code \in ExitCodes,
             ContainerExit(r, a, code)
      PROVE  StartedKept
  <2>1. cont' = [cont EXCEPT ![r][a] = [cont[r][a] EXCEPT !.st = "exited", !.code = code]]
    BY <1>1, <1>2 DEF ContainerExit
  <2>2. cont[r][a] \in Container /\ cont[r][a].st # "none"
    BY <1>1, <1>2 DEF ContainerExit
  <2>3. [cont[r][a] EXCEPT !.st = "exited", !.code = code].st = "exited"
    BY <2>2 DEF Container
  <2> QED BY <1>1, <2>1, <2>2, <2>3, ContainerEditKept
<1>3. ASSUME NEW r \in Runners, NEW a \in Actions, DockerRemove(r, a)
      PROVE  StartedKept
  <2>1. cont' = [cont EXCEPT ![r][a] = [cont[r][a] EXCEPT !.st = "gone"]]
    BY <1>1, <1>3 DEF DockerRemove
  <2>2. cont[r][a] \in Container /\ cont[r][a].st # "none"
    BY <1>1, <1>3 DEF DockerRemove
  <2>3. [cont[r][a] EXCEPT !.st = "gone"].st = "gone"
    BY <2>2 DEF Container
  <2> QED BY <1>1, <2>1, <2>2, <2>3, ContainerEditKept
<1>4. ASSUME NEW r \in Runners, NEW a \in Actions, RuntimeExpires(r, a)
      PROVE  StartedKept
  <2>1. cont' = [cont EXCEPT ![r][a] = [cont[r][a] EXCEPT !.expired = TRUE]]
    BY <1>1, <1>4 DEF RuntimeExpires
  <2>2. cont[r][a] \in Container
    BY <1>1
  <2>3. [cont[r][a] EXCEPT !.expired = TRUE].st = cont[r][a].st
    BY <2>2 DEF Container
  <2> QED BY <1>1, <2>1, <2>3, ContainerEditKept
<1>5. row' = row
  BY DEF StoreNext, ContainerExit, DockerRemove, RuntimeExpires
<1> QED BY <1>2, <1>3, <1>4, <1>5 DEF StoreNext, PendingKept

\* The dispatcher has nothing to do with containers.
LEMMA DispatcherKept ==
    ASSUME DispatcherNext
    PROVE  StartedKept
<1>1. ASSUME NEW a \in Actions,
             \/ SaveAction(a) \/ DispatchNext(a) \/ Cancel(a) \/ StopNext(a)
             \/ DeleteAction(a) \/ \E s \in Diagnostics : RecordDiagnostic(a, s)
      PROVE  cont' = cont
  BY <1>1 DEF SaveAction, DispatchNext, ChooseWorker, NoWorkerFound, AddJob, AddJobFails,
              RefreshAndRetry, RejectAction, Cancel, StopNext, StopRead, StopSave,
              StopPublish, DeleteAction, RecordDiagnostic, storeVars
<1>2. ASSUME HealthCheckNext
      PROVE  cont' = cont
  BY <1>2 DEF HealthCheckNext, DetectDeadWorker, ReadDeadJob, RemoveDeadJob, ChooseNewWorker,
              RequeueJob, RequeueLosesJob, FinishHealthCheck, OpenQueues, storeVars
<1> QED BY <1>1, <1>2 DEF DispatcherNext, StartedKept

LEMMA StartDispatcher ==
    ASSUME TypeOK, HandoverInv, StartInv, DispatcherNext, UNCHANGED <<pc, cur, loaded>>
    PROVE  StartInv'
<1>1. /\ row \in [Actions -> Row]
      /\ disp \in [Actions -> DispEntry]
  BY DEF TypeOK, StoreTypeOK, DispatcherTypeOK, DispEntry
<1>2. StartedKept
  BY DispatcherKept
<1>3. ASSUME NEW a \in Actions, SaveAction(a)
      PROVE  StartInv'
  <2>1. /\ NeverStarted(a)
        /\ \A w \in Workers : ~Works(w, a)
        /\ \A b \in Actions \ {a} : row'[b] = row[b] /\ disp'[b] = disp[b]
        /\ cont' = cont
    BY <1>1, <1>3
       DEF SaveAction, StartInv, PendingNotStarted, HandoverInv, WorkerHoldsJob, HoldsLock,
           QueuedByDispatch
  <2>2. \A b \in Actions : NeverStarted(b)' <=> NeverStarted(b)
    BY <2>1 DEF NeverStarted
  <2>3. PendingNotStarted'
    BY <2>1, <2>2 DEF StartInv, PendingNotStarted
  <2>4. MayStartOnce' /\ StartingOnce'
    BY <2>1, <2>2 DEF StartInv, MayStartOnce, StartingOnce, Works
  <2>5. AtMostOneStart'
    BY <2>1 DEF StartInv, AtMostOneStart
  <2> QED BY <2>3, <2>4, <2>5 DEF StartInv
<1>4. ASSUME PendingKept, \A a \in Actions : disp'[a].pc = "new" => disp[a].pc = "new"
      PROVE  StartInv'
  <2>1. \A w \in Workers : pc'[w] = pc[w] /\ cur'[w] = cur[w] /\ loaded'[w] = loaded[w]
    OBVIOUS
  <2> QED BY <1>2, <1>4, <2>1, StartFrame
<1>5. ASSUME NEW a \in Actions, DispatchNext(a)
      PROVE  StartInv'
  <2>1. \A b \in Actions : disp'[b].pc = "new" => disp[b].pc = "new"
    <3>1. CASE ChooseWorker(a)
      BY <1>1, <3>1 DEF ChooseWorker, DispEntry
    <3>2. CASE NoWorkerFound(a)
      BY <1>1, <3>2 DEF NoWorkerFound, DispEntry
    <3>3. CASE AddJob(a) \/ AddJobFails(a)
      BY <1>1, <3>3 DEF AddJob, AddJobFails, DispEntry
    <3>4. CASE RefreshAndRetry(a) \/ RejectAction(a)
      BY <1>1, <3>4 DEF RefreshAndRetry, RejectAction, DispEntry
    <3> QED BY <1>5, <3>1, <3>2, <3>3, <3>4 DEF DispatchNext
  <2>2. PendingKept
    BY <1>5, DispatchRows, FinalKeepsPending
  <2> QED BY <1>4, <2>1, <2>2
<1>6. ASSUME NEW a \in Actions,
             \/ Cancel(a) \/ StopNext(a) \/ DeleteAction(a)
             \/ \E s \in Diagnostics : RecordDiagnostic(a, s)
      PROVE  StartInv'
  <2>1. disp' = disp
    BY <1>6 DEF Cancel, StopNext, StopRead, StopSave, StopPublish, DeleteAction, RecordDiagnostic
  <2>2. PendingKept
    BY <1>6, RequestRows, FinalKeepsPending
  <2> QED BY <1>4, <2>1, <2>2
<1>7. ASSUME HealthCheckNext
      PROVE  StartInv'
  <2>1. disp' = disp
    BY ZenonT(60), <1>7 DEF HealthCheckNext, DetectDeadWorker, ReadDeadJob, RemoveDeadJob, ChooseNewWorker,
                RequeueJob, RequeueLosesJob, FinishHealthCheck, OpenQueues
  <2>2. PendingKept
    BY <1>7, HealthCheckRows, FinalKeepsPending
  <2> QED BY <1>4, <2>1, <2>2
<1> QED BY <1>3, <1>5, <1>6, <1>7 DEF DispatcherNext

\* The lifecycle hooks start nothing.
LEMMA StartQueue ==
    ASSUME TypeOK, StartInv, UNCHANGED disp,
           NEW w \in Workers, NEW a \in Actions, QueueSteps(w, a)
    PROVE  StartInv'
<1>1. UNCHANGED <<pc, cur, loaded, cont>>
  BY DEF QueueSteps, HookRead, markJobAsCompleted, handleUnexpectedError, HookThrows,
         PromoteDelayed, StalledJob, StalledTwice, runnerVars, storeVars
<1>2. PendingKept
  BY QueueRows, FinalKeepsPending
<1>3. /\ StartedKept
      /\ \A v \in Workers : pc'[v] = pc[v] /\ cur'[v] = cur[v] /\ loaded'[v] = loaded[v]
  BY <1>1 DEF StartedKept
<1> QED BY <1>2, <1>3, StartFrame

\* A kill does not undo a start, wherever it is aimed.
LEMMA KillKept ==
    ASSUME TypeOK, NEW r, NEW a,
           KillContainer(r, a) \/ killAndRemoveContainer(r, a)
    PROVE  StartedKept
<1>1. cont \in [Runners -> [Actions -> Container]]
  BY DEF TypeOK, StoreTypeOK
<1>2. CASE r \in Runners /\ a \in Actions
  <2>1. \/ cont' = [cont EXCEPT ![r][a] = Killed(cont[r][a])]
        \/ cont' = [cont EXCEPT ![r][a] = [Killed(cont[r][a]) EXCEPT !.rm = TRUE]]
    BY <1>1, <1>2 DEF KillContainer, killAndRemoveContainer
  <2>2. /\ Killed(cont[r][a]).st = "none" <=> cont[r][a].st = "none"
        /\ Killed(cont[r][a]).st # "running"
        /\ [Killed(cont[r][a]) EXCEPT !.rm = TRUE].st = Killed(cont[r][a]).st
    BY <1>1, <1>2, KilledStates
  <2> DEFINE k1 == Killed(cont[r][a])
             k2 == [Killed(cont[r][a]) EXCEPT !.rm = TRUE]
  <2>3. /\ k1.st = "none" => cont[r][a].st = "none"
        /\ cont[r][a].st = "none" => k1.st = "none"
        /\ k1.st # "running"
        /\ k2.st = k1.st
    BY <2>2
  <2>4. cont' = [cont EXCEPT ![r][a] = k1] \/ cont' = [cont EXCEPT ![r][a] = k2]
    BY <2>1
  <2> HIDE DEF k1, k2
  <2>5. CASE cont' = [cont EXCEPT ![r][a] = k1]
    BY <1>1, <1>2, <2>3, <2>5, ContainerEditKept
  <2>6. CASE cont' = [cont EXCEPT ![r][a] = k2]
    <3>1. /\ k2.st = "none" <=> cont[r][a].st = "none"
          /\ k2.st = "running" => cont[r][a].st = "running"
      BY <2>3
    <3> QED BY <1>1, <1>2, <2>6, <3>1, ContainerEditKept
  <2> QED BY <2>4, <2>5, <2>6
<1>3. CASE ~(r \in Runners /\ a \in Actions)
  BY <1>1, <1>3 DEF KillContainer, killAndRemoveContainer, StartedKept
<1> QED BY <1>2, <1>3

\* The rest of the consumer: a job taken, a cancellation delivered.
LEMMA StartConsumer ==
    ASSUME TypeOK, StartInv, UNCHANGED disp, NEW w \in Workers, NEW a \in Actions,
           TakeJob(w, a) \/ DeliverCancel(w, a)
    PROVE  StartInv'
<1>1. PendingKept
  BY DEF TakeJob, DeliverCancel, PendingKept
<1>2. CASE TakeJob(w, a)
  <2>1. StartedKept
    BY <1>2 DEF TakeJob, StartedKept
  <2>2. /\ pc \in [Workers -> RunnerPc]
        /\ cur \in [Workers -> Actions \cup {NoAction}]
    BY DEF TypeOK, RunnerTypeOK
  <2>3. \A v \in Workers : \/ pc'[v] \notin BeforeStart
                           \/ pc'[v] = pc[v] /\ cur'[v] = cur[v] /\ loaded'[v] = loaded[v]
    BY <1>2, <2>2 DEF TakeJob, Goto, BeforeStart
  <2> QED BY <1>1, <2>1, <2>3, StartFrame
<1>3. CASE DeliverCancel(w, a)
  <2>1. StartedKept
    <3>1. KillContainer(Me(w), a) \/ cont' = cont
      BY <1>3 DEF DeliverCancel
    <3> QED BY <3>1, KillKept DEF StartedKept
  <2>2. \A v \in Workers : pc'[v] = pc[v] /\ cur'[v] = cur[v] /\ loaded'[v] = loaded[v]
    BY <1>3 DEF DeliverCancel
  <2> QED BY <1>1, <2>1, <2>2, StartFrame
<1> QED BY <1>2, <1>3

\* The janitor only ever fails a row and kills a container.
LEMMA StartJanitor ==
    ASSUME TypeOK, JanitorNext
    PROVE  PendingKept /\ StartedKept
<1>1. ASSUME NEW w \in Workers, NEW c \in Runners \X Actions, KillFirst(w, c)
      PROVE  StartedKept
  BY <1>1, KillKept DEF KillFirst
<1>2. ASSUME NEW w \in Workers, KillZombie(w)
      PROVE  StartedKept
  BY <1>2, KillKept DEF KillZombie
<1>3. ASSUME NEW w \in Workers,
             \/ ListContainers(w) \/ ReadActive(w) \/ DetectCrashed(w) \/ FinishPass(w)
             \/ MarkTimedOut(w) \/ MarkInterrupted(w)
             \/ \E c \in Runners \X Actions : LeaveAlone(w, c) \/ MarkZombie(w, c)
             \/ \E a \in Actions : MarkCrashed(w, a)
      PROVE  cont' = cont
  BY <1>3 DEF ListContainers, ReadActive, DetectCrashed, FinishPass, LeaveAlone, MarkTimedOut,
              MarkInterrupted, markActionAsFailed, MarkZombie, MarkCrashed, storeVars
<1>4. ASSUME NEW r \in Runners, RunnerGoesInactive(r)
      PROVE  cont' = cont
  BY <1>4 DEF RunnerGoesInactive, storeVars
<1>5. cont' = cont => StartedKept
  BY DEF StartedKept
<1>6. StartedKept
  BY <1>1, <1>2, <1>3, <1>4, <1>5 DEF JanitorNext, performReconciliation, Sweep
<1>7. PendingKept
  BY JanitorRows, FinalKeepsPending
<1> QED BY <1>6, <1>7

LEMMA StartInit == Init => StartInv
BY DEF Init, StoreInit, DispatcherInit, RunnerInit, NoContainer, StartInv, PendingNotStarted,
       MayStartOnce, StartingOnce, AtMostOneStart, Works, NeverStarted

LEMMA StartStep ==
    ASSUME TypeInv, HandoverInv, StartInv, [Next]_vars
    PROVE  StartInv'
<1>1. TypeOK /\ BusyHasAction
  BY DEF TypeInv
<1>2. ASSUME PendingKept, StartedKept, UNCHANGED <<pc, cur, loaded, disp>>
      PROVE  StartInv'
  <2>1. \A w \in Workers : pc'[w] = pc[w] /\ cur'[w] = cur[w] /\ loaded'[w] = loaded[w]
    BY <1>2
  <2> QED BY <1>2, <2>1, StartFrame
<1>3. CASE StoreNext /\ UNCHANGED <<dispatcherVars, runnerVars, janitorVars>>
  BY <1>1, <1>2, <1>3, StartStore DEF dispatcherVars, runnerVars
<1>4. CASE DispatcherNext /\ UNCHANGED <<runnerVars, janitorVars>>
  BY <1>1, <1>4, StartDispatcher DEF runnerVars
<1>5. CASE RunnerNext /\ UNCHANGED <<dispatcherVars, janitorVars>>
  <2>1. UNCHANGED disp
    BY <1>5 DEF dispatcherVars
  <2> QED
    BY <1>1, <1>5, <2>1, StartPipeline, StartQueue, StartConsumer DEF RunnerNext, ProcessNext
<1>6. CASE JanitorNext /\ UNCHANGED <<dispatcherVars, runnerVars>>
  BY <1>1, <1>2, <1>6, StartJanitor DEF dispatcherVars, runnerVars
<1>7. ASSUME NEW w \in Workers, Crash(w)
      PROVE  StartInv'
  <2>1. PendingKept /\ StartedKept /\ UNCHANGED disp
    BY <1>7 DEF Crash, CrashRunner, dispatcherVars, PendingKept, StartedKept
  <2>2. /\ pc \in [Workers -> RunnerPc]
        /\ cur \in [Workers -> Actions \cup {NoAction}]
        /\ loaded \in [Workers -> ActionState]
    BY <1>1 DEF TypeOK, RunnerTypeOK
  <2>3. \A v \in Workers : \/ pc'[v] \notin BeforeStart
                           \/ pc'[v] = pc[v] /\ cur'[v] = cur[v] /\ loaded'[v] = loaded[v]
    BY <1>7, <2>2 DEF Crash, CrashRunner, BeforeStart
  <2> QED BY <2>1, <2>3, StartFrame
<1>8. ASSUME NEW w \in Workers, Restart(w)
      PROVE  StartInv'
  BY <1>2, <1>8 DEF Restart, registerRunner, dispatcherVars, runnerVars, PendingKept, StartedKept
<1>9. CASE UNCHANGED vars
  BY <1>2, <1>9 DEF vars, storeVars, dispatcherVars, runnerVars, PendingKept, StartedKept
<1> QED BY <1>3, <1>4, <1>5, <1>6, <1>7, <1>8, <1>9 DEF Next

\* An action's container is started at most once in its life, for every number
\* of workers, restarts and re-queueings: the PENDING check of
\* executeProcessAction suffices although the state it tests was read before.
THEOREM OneStart == Spec => []AtMostOneStart
<1>1. Spec => [](TypeInv /\ HandoverInv /\ StartInv)
  BY TypeInvInit, TypeInvStep, HandoverInit, HandoverStep, StartInit, StartStep, PTL DEF Spec
<1>2. StartInv => AtMostOneStart
  BY DEF StartInv
<1> QED BY <1>1, <1>2, PTL
-----------------------------------------------------------------------------
(* Runs that end: their keys, their cancellation, their containers.        *)

\* The steps of the other processes, as a consumer sees them.
Bystander ==
    /\ UNCHANGED <<pc, cur, loaded, memoryVars, liveKeys, up, epoch>>
    /\ StartedKept
    /\ FinalOnly \/ \E a \in Actions : SaveAction(a)

LEMMA BystanderDispatcher == ASSUME TypeOK, DispatcherNext, UNCHANGED runnerVars PROVE Bystander
<1>1. UNCHANGED <<liveKeys, up, epoch>>
  <2>1. ASSUME NEW a \in Actions,
               \/ SaveAction(a) \/ DispatchNext(a) \/ Cancel(a) \/ StopNext(a)
               \/ DeleteAction(a) \/ \E s \in Diagnostics : RecordDiagnostic(a, s)
        PROVE  UNCHANGED <<liveKeys, up, epoch>>
    BY <2>1 DEF SaveAction, DispatchNext, ChooseWorker, NoWorkerFound, AddJob, AddJobFails,
                RefreshAndRetry, RejectAction, Cancel, StopNext, StopRead, StopSave,
                StopPublish, DeleteAction, RecordDiagnostic, storeVars
  <2>2. ASSUME HealthCheckNext
        PROVE  UNCHANGED <<liveKeys, up, epoch>>
    BY ZenonT(60), <2>2 DEF HealthCheckNext, DetectDeadWorker, ReadDeadJob, RemoveDeadJob, ChooseNewWorker,
                RequeueJob, RequeueLosesJob, FinishHealthCheck, OpenQueues, storeVars
  <2> QED BY <2>1, <2>2 DEF DispatcherNext
<1>2. FinalOnly \/ \E a \in Actions : SaveAction(a)
  BY DispatchRows, RequestRows, HealthCheckRows DEF DispatcherNext
<1> QED BY <1>1, <1>2, DispatcherKept DEF Bystander, runnerVars, memoryVars

LEMMA BystanderJanitor == ASSUME TypeOK, JanitorNext, UNCHANGED runnerVars PROVE Bystander
<1>1. UNCHANGED <<liveKeys, up, epoch>>
  BY DEF JanitorNext, performReconciliation, Sweep, ListContainers, ReadActive, KillFirst,
         MarkTimedOut, MarkInterrupted, markActionAsFailed, MarkZombie, KillZombie,
         LeaveAlone, DetectCrashed, MarkCrashed, FinishPass, RunnerGoesInactive, storeVars
<1> QED BY <1>1, StartJanitor, JanitorRows DEF Bystander, runnerVars, memoryVars

LEMMA BystanderQueue ==
    ASSUME TypeOK, NEW w \in Workers, NEW a \in Actions, QueueSteps(w, a)
    PROVE  Bystander
<1>1. UNCHANGED <<pc, cur, loaded, memoryVars, liveKeys, up, epoch, cont>>
  BY DEF QueueSteps, HookRead, markJobAsCompleted, handleUnexpectedError, HookThrows,
         PromoteDelayed, StalledJob, StalledTwice, runnerVars, storeVars, memoryVars
<1> QED BY <1>1, QueueRows DEF Bystander, StartedKept

\* Every step is one of a consumer's pipeline or of its life, or a bystander's.
LEMMA StepKinds ==
    ASSUME TypeInv, [Next]_vars
    PROVE  \/ \E w \in Workers : StartSteps(w) \/ ExitSteps(w)
           \/ \E w \in Workers, a \in Actions : TakeJob(w, a) \/ DeliverCancel(w, a)
           \/ \E w \in Workers : Crash(w) \/ Restart(w)
           \/ Bystander
<1>1. TypeOK
  BY DEF TypeInv
<1>2. CASE StoreNext /\ UNCHANGED <<dispatcherVars, runnerVars, janitorVars>>
  <2>1. UNCHANGED <<liveKeys, up, epoch, row>>
    BY <1>2 DEF StoreNext, ContainerExit, DockerRemove, RuntimeExpires
  <2> QED BY <1>1, <1>2, <2>1, StartStore, RowsSame DEF Bystander, runnerVars, memoryVars
<1>3. CASE UNCHANGED vars
  BY <1>3, RowsSame DEF vars, storeVars, runnerVars, memoryVars, Bystander, StartedKept
<1> QED
  BY <1>1, <1>2, <1>3, BystanderDispatcher, BystanderJanitor, BystanderQueue
     DEF Next, RunnerNext, ProcessNext, runnerVars

\* A consumer that is down does nothing.
DownIsIdle == \A w \in Workers : ~up[w] => pc[w] = "idle"

LEMMA DownStep ==
    ASSUME TypeInv, DownIsIdle, [Next]_vars
    PROVE  DownIsIdle'
<1>1. pc \in [Workers -> RunnerPc] /\ up \in [Workers -> BOOLEAN]
  BY DEF TypeInv, TypeOK, StoreTypeOK, RunnerTypeOK
<1>2. ASSUME NEW w \in Workers, StartSteps(w) \/ ExitSteps(w)
      PROVE  DownIsIdle'
  <2>1. up' = up
    BY <1>2, PipelineFrame
  <2>2. up[w] /\ \E to \in RunnerPc : pc' = [pc EXCEPT ![w] = to]
    BY <1>2
       DEF StartSteps, ExitSteps, Goto, RunnerPc, LoadAction, LoadFails, RegisterAction,
           RejectNotPending, CancelledBeforeStart, MarkStarting, createAPIkey, AccessLost,
           MarkProcessing, LaunchContainer, StartFails, RegisterContainer, CaptureInfo,
           AwaitExit, InspectFails, MarkStopping, ReadBackFails, ResolveVerdict, WriteVerdict,
           SkipArtifacts, StartUpload, FinishUpload, UploadThrows, Catch, DisposeKey,
           JobCompleted, JobFailed
  <2> QED BY <1>1, <2>1, <2>2 DEF DownIsIdle
<1>3. ASSUME NEW w \in Workers, NEW a \in Actions, TakeJob(w, a) \/ DeliverCancel(w, a)
      PROVE  DownIsIdle'
  BY <1>1, <1>3 DEF TakeJob, DeliverCancel, Goto, DownIsIdle
<1>4. ASSUME NEW w \in Workers, Crash(w) \/ Restart(w)
      PROVE  DownIsIdle'
  BY <1>1, <1>4 DEF Crash, CrashRunner, Restart, registerRunner, runnerVars, DownIsIdle
<1>5. CASE Bystander
  BY <1>5 DEF Bystander, DownIsIdle
<1> QED BY <1>2, <1>3, <1>4, <1>5, StepKinds

\* A key names a runner that exists, or once did.
KeysOfRunners == \A k \in liveKeys : k[1][2] <= epoch[k[1][1]]

KeyInv == KeyAttended /\ KeysOfRunners

\* A step that makes no key, and takes no consumer away from one.
LEMMA KeyFrame ==
    ASSUME KeyInv, liveKeys' \subseteq liveKeys,
           \A k \in liveKeys' : /\ Alive(k[1])' => Alive(k[1])
                              /\ epoch[k[1][1]] <= epoch'[k[1][1]]
                              /\ k[1][2] \in Int /\ epoch[k[1][1]] \in Int
                              /\ epoch'[k[1][1]] \in Int,
           \A k \in liveKeys' : Attends(k[1], k[2]) /\ Alive(k[1])' => Attends(k[1], k[2])'
    PROVE  KeyInv'
<1>1. KeysOfRunners'
  BY DEF KeyInv, KeysOfRunners
<1>2. KeyAttended'
  BY DEF KeyInv, KeyAttended
<1> QED BY <1>1, <1>2 DEF KeyInv

LEMMA KeyPipeline ==
    ASSUME TypeInv, KeyInv, NEW w \in Workers, StartSteps(w) \/ ExitSteps(w)
    PROVE  KeyInv'
<1>1. /\ TypeOK /\ BusyHasAction
      /\ pc \in [Workers -> RunnerPc]
      /\ cur \in [Workers -> Actions \cup {NoAction}]
      /\ epoch \in [Workers -> 0..MaxCrashes]
      /\ liveKeys \subseteq (Workers \X (0..MaxCrashes)) \X Actions
      /\ MaxCrashes \in Nat
  BY StoreAssumption DEF TypeInv, TypeOK, StoreTypeOK, RunnerTypeOK, Runners, Epochs
<1>2. UNCHANGED <<up, epoch>> /\ cur[w] \in Actions
  BY <1>1, PipelineFrame, PipelineBusy
<1>3. \A r : Alive(r)' <=> Alive(r)
  BY <1>2 DEF Alive, Me
<1>4. CASE createAPIkey(w)
  <2>1. /\ liveKeys' = liveKeys \cup {<<Me(w), cur[w]>>}
        /\ cur' = cur /\ up[w]
        /\ pc[w] = "starting" /\ pc' = [pc EXCEPT ![w] = "keyed"]
    BY <1>4 DEF createAPIkey, Goto
  <2>2. \A k \in liveKeys : Attends(k[1], k[2]) => Attends(k[1], k[2])'
    BY <1>1, <1>3, <2>1 DEF Attends, HoldsKey
  <2>3. Attends(Me(w), cur[w])'
    BY <1>1, <1>2, <2>1 DEF Attends, Alive, Me, HoldsKey
  <2>4. KeyAttended'
    BY <1>2, <1>3, <2>1, <2>2, <2>3 DEF KeyInv, KeyAttended, Me
  <2>5. KeysOfRunners'
    BY <1>1, <1>2, <2>1 DEF KeyInv, KeysOfRunners, Me
  <2> QED BY <2>4, <2>5 DEF KeyInv
<1>5. CASE DisposeKey(w)
  <2>1. /\ liveKeys' = liveKeys \ {<<Me(w), cur[w]>>}
        /\ cur' = cur
        /\ \A v \in Workers : v # w => pc'[v] = pc[v]
    BY <1>1, <1>5 DEF DisposeKey, asyncDispose, Goto
  <2>2. ASSUME NEW k \in liveKeys', Attends(k[1], k[2])
        PROVE  Attends(k[1], k[2])'
    <3>1. k[1][1] \in Workers /\ k[1] = Me(k[1][1]) /\ cur[k[1][1]] = k[2] /\ k = <<k[1], k[2]>>
      BY <1>1, <2>1, <2>2 DEF Attends, Alive
    <3>2. k[1][1] # w
      BY <2>1, <3>1
    <3> QED BY <1>3, <2>1, <2>2, <3>1, <3>2 DEF Attends
  <2> QED BY <1>1, <1>2, <1>3, <2>1, <2>2, KeyFrame
<1>6. CASE ~createAPIkey(w) /\ ~DisposeKey(w)
  <2>1. /\ liveKeys' = liveKeys
        /\ \A v \in Workers : v # w => pc'[v] = pc[v] /\ cur'[v] = cur[v]
        /\ pc[w] \in HoldsKey => pc'[w] \in HoldsKey /\ cur'[w] = cur[w]
    <3>1. CASE JobCompleted(w) \/ JobFailed(w)
      BY <1>1, <3>1 DEF JobCompleted, JobFailed, Settle, Goto, HoldsKey
    <3>2. CASE StartSteps(w)
      BY <1>1, <1>6, <3>2
         DEF StartSteps, LoadAction, LoadFails, RegisterAction, RejectNotPending,
             CancelledBeforeStart, MarkStarting, AccessLost, MarkProcessing, LaunchContainer,
             StartFails, RegisterContainer, Goto, HoldsKey, storeVars
    <3>3. CASE ExitSteps(w) /\ ~(JobCompleted(w) \/ JobFailed(w))
      BY <1>1, <1>6, <3>3
         DEF ExitSteps, CaptureInfo, AwaitExit, InspectFails, MarkStopping, ReadBackFails,
             ResolveVerdict, WriteVerdict, SkipArtifacts, StartUpload, FinishUpload,
             UploadThrows, Catch, Goto, HoldsKey, storeVars
    <3> QED BY <3>1, <3>2, <3>3
  <2>2. \A k \in liveKeys : Attends(k[1], k[2]) => Attends(k[1], k[2])'
    BY <1>1, <1>3, <2>1 DEF Attends
  <2> QED BY <1>1, <1>2, <1>3, <2>1, <2>2, KeyFrame
<1> QED BY <1>4, <1>5, <1>6

LEMMA KeyStep ==
    ASSUME TypeInv, KeyInv, [Next]_vars
    PROVE  KeyInv'
<1>1. /\ TypeOK /\ BusyHasAction
      /\ pc \in [Workers -> RunnerPc]
      /\ cur \in [Workers -> Actions \cup {NoAction}]
      /\ up \in [Workers -> BOOLEAN]
      /\ epoch \in [Workers -> 0..MaxCrashes]
      /\ liveKeys \subseteq (Workers \X (0..MaxCrashes)) \X Actions
      /\ MaxCrashes \in Nat
  BY StoreAssumption DEF TypeInv, TypeOK, StoreTypeOK, RunnerTypeOK, Runners, Epochs
<1>2. ASSUME NEW w \in Workers, NEW a \in Actions, TakeJob(w, a) \/ DeliverCancel(w, a)
      PROVE  KeyInv'
  <2>1. /\ UNCHANGED <<liveKeys, up, epoch>>
        /\ \A v \in Workers : pc[v] \in HoldsKey => pc'[v] = pc[v] /\ cur'[v] = cur[v]
    BY <1>1, <1>2 DEF TakeJob, DeliverCancel, Goto, HoldsKey
  <2>2. \A r : Alive(r)' <=> Alive(r)
    BY <2>1 DEF Alive, Me
  <2>3. \A k \in liveKeys : Attends(k[1], k[2]) => Attends(k[1], k[2])'
    BY <1>1, <2>1, <2>2 DEF Attends
  <2> QED BY <1>1, <2>1, <2>2, <2>3, KeyFrame
<1>3. ASSUME NEW w \in Workers, Crash(w)
      PROVE  KeyInv'
  <2>1. /\ UNCHANGED <<liveKeys, epoch>>
        /\ up' = [up EXCEPT ![w] = FALSE]
        /\ \A v \in Workers : v # w => pc'[v] = pc[v] /\ cur'[v] = cur[v]
    BY <1>1, <1>3 DEF Crash, CrashRunner
  <2>2. \A k \in liveKeys : Alive(k[1])' => Alive(k[1]) /\ k[1][1] # w
    BY <1>1, <2>1 DEF Alive, Me
  <2>3. \A k \in liveKeys : Attends(k[1], k[2]) /\ Alive(k[1])' => Attends(k[1], k[2])'
    BY <1>1, <2>1, <2>2 DEF Attends
  <2> QED BY <1>1, <2>1, <2>2, <2>3, KeyFrame
<1>4. ASSUME NEW w \in Workers, Restart(w)
      PROVE  KeyInv'
  <2>1. /\ UNCHANGED <<liveKeys, pc, cur>>
        /\ ~up[w] /\ up' = [up EXCEPT ![w] = TRUE]
        /\ epoch' = [epoch EXCEPT ![w] = epoch[w] + 1]
    BY <1>1, <1>4 DEF Restart, registerRunner, runnerVars
  <2>2. ASSUME NEW k \in liveKeys, Alive(k[1])'
        PROVE  Alive(k[1])
    <3>1. k[1][1] \in Workers /\ k[1][2] <= epoch[k[1][1]] /\ k[1] = <<k[1][1], epoch'[k[1][1]]>>
      BY <1>1, <2>2 DEF KeyInv, KeysOfRunners, Alive, Me
    <3>2. k[1][1] # w
      BY <1>1, <2>1, <3>1
    <3> QED BY <1>1, <2>1, <2>2, <3>1, <3>2 DEF Alive, Me
  <2>3. \A k \in liveKeys : Attends(k[1], k[2]) /\ Alive(k[1])' => Attends(k[1], k[2])'
    BY <2>1 DEF Attends
  <2>4. \A k \in liveKeys : /\ epoch[k[1][1]] <= epoch'[k[1][1]]
                           /\ k[1][2] \in Int /\ epoch[k[1][1]] \in Int
                           /\ epoch'[k[1][1]] \in Int
    BY <1>1, <2>1
  <2> QED BY <2>1, <2>2, <2>3, <2>4, KeyFrame
<1>5. CASE Bystander
  BY <1>5 DEF Bystander, KeyInv, KeyAttended, KeysOfRunners, Attends, Alive, Me
<1> QED BY <1>2, <1>3, <1>4, <1>5, KeyPipeline, StepKinds

\* A container's API key lives no longer than the run it was made for, or its
\* runner, for any number of workers, restarts, cancellations and docker errors:
\* the finally blocks of executeProcessAction leave none behind.
THEOREM KeysAreAttended == Spec => []KeyAttended
<1>1. Init => KeyInv
  BY DEF Init, StoreInit, KeyInv, KeyAttended, KeysOfRunners
<1>2. TypeInv /\ KeyInv /\ [Next]_vars => KeyInv'
  BY KeyStep
<1>3. Spec => [](TypeInv /\ KeyInv)
  BY <1>1, <1>2, TypeInvInit, TypeInvStep, PTL DEF Spec
<1>4. KeyInv => KeyAttended
  BY DEF KeyInv
<1> QED BY <1>3, <1>4, PTL
\* What a step of the pipeline of w does is about w's own run.
LEMMA PipelineLocal ==
    ASSUME TypeOK, BusyHasAction,
           NEW w \in Workers, StartSteps(w) \/ ExitSteps(w)
    PROVE  /\ \A v \in Workers \ {w} :
                /\ pc'[v] = pc[v]
                /\ cur'[v] = cur[v]
                /\ loaded'[v] = loaded[v]
                /\ activeActions'[v] = activeActions[v]
                /\ cancelledActions'[v] = cancelledActions[v]
                /\ activeContainers'[v] = activeContainers[v]
           /\ \A r \in Runners, a \in Actions :
                <<r, a>> # <<Me(w), cur[w]>> => cont'[r][a] = cont[r][a]
<1>1. /\ pc \in [Workers -> RunnerPc]
      /\ cur \in [Workers -> Actions \cup {NoAction}]
      /\ loaded \in [Workers -> ActionState]
      /\ activeActions \in [Workers -> SUBSET Actions]
      /\ cancelledActions \in [Workers -> SUBSET Actions]
      /\ activeContainers \in [Workers -> SUBSET Actions]
      /\ cont \in [Runners -> [Actions -> Container]]
      /\ cur[w] \in Actions
      /\ Me(w) \in Runners
  BY PipelineBusy DEF TypeOK, StoreTypeOK, RunnerTypeOK, Me, Runners
<1>2. ASSUME NEW v \in Workers \ {w}
      PROVE  pc'[v] = pc[v] /\ cur'[v] = cur[v] /\ loaded'[v] = loaded[v]
  <2>1. CASE StartSteps(w)
    BY <1>1, <2>1
       DEF StartSteps, LoadAction, LoadFails, RegisterAction, RejectNotPending,
           CancelledBeforeStart, MarkStarting, createAPIkey, AccessLost, MarkProcessing,
           LaunchContainer, StartFails, RegisterContainer, Goto, storeVars
  <2>2. CASE ExitSteps(w)
    BY <1>1, <2>2
       DEF ExitSteps, CaptureInfo, AwaitExit, InspectFails, MarkStopping, ReadBackFails,
           ResolveVerdict, WriteVerdict, SkipArtifacts, StartUpload, FinishUpload,
           UploadThrows, Catch, DisposeKey, JobCompleted, JobFailed, Settle, Goto, storeVars
  <2> QED BY <2>1, <2>2
<1>3. ASSUME NEW v \in Workers \ {w}
      PROVE  /\ activeActions'[v] = activeActions[v]
             /\ cancelledActions'[v] = cancelledActions[v]
             /\ activeContainers'[v] = activeContainers[v]
  <2>1. CASE StartSteps(w)
    BY <1>1, <2>1
       DEF StartSteps, LoadAction, LoadFails, RegisterAction, RejectNotPending, cleanup,
           CancelledBeforeStart, MarkStarting, createAPIkey, AccessLost, MarkProcessing,
           LaunchContainer, StartFails, RegisterContainer, memoryVars
  <2>2. CASE ExitSteps(w)
    BY <1>1, <2>2
       DEF ExitSteps, CaptureInfo, AwaitExit, InspectFails, MarkStopping, ReadBackFails,
           ResolveVerdict, WriteVerdict, SkipArtifacts, StartUpload, FinishUpload, cleanup,
           UploadThrows, Catch, DisposeKey, JobCompleted, JobFailed, Settle, memoryVars
  <2> QED BY <2>1, <2>2
<1>4. ASSUME NEW r \in Runners, NEW a \in Actions, <<r, a>> # <<Me(w), cur[w]>>
      PROVE  cont'[r][a] = cont[r][a]
  <2>1. CASE StartSteps(w)
    BY <1>1, <1>4, <2>1
       DEF StartSteps, LoadAction, LoadFails, RegisterAction, RejectNotPending, KillIfCancelled,
           CancelledBeforeStart, MarkStarting, createAPIkey, AccessLost, MarkProcessing,
           LaunchContainer, StartFails, RegisterContainer, KillContainer, storeVars
  <2>2. CASE ExitSteps(w)
    BY SMTT(30), <1>1, <1>4, <2>2
       DEF ExitSteps, CaptureInfo, AwaitExit, InspectFails, MarkStopping, ReadBackFails,
           ResolveVerdict, WriteVerdict, SkipArtifacts, StartUpload, FinishUpload,
           UploadThrows, Catch, DisposeKey, JobCompleted, JobFailed, Settle, storeVars
  <2> QED BY <2>1, <2>2
<1> QED BY <1>2, <1>3, <1>4

\* A consumer that waits for a container has registered it.
AttachedKnown ==
    \A w \in Workers : pc[w] \in {"attached", "waiting"} => cur[w] \in activeContainers[w]

CancelInv == CancelledNeverRuns /\ AttachedKnown

\* The same for one worker.
CancelSafe(w) ==
    pc[w] \in {"attached", "waiting"} =>
        /\ cur[w] \in activeContainers[w]
        /\ isCancelled(w) => MyContainer(w).st # "running"

LEMMA CancelPerWorker == CancelInv <=> \A w \in Workers : CancelSafe(w)
BY DEF CancelInv, CancelledNeverRuns, AttachedKnown, CancelSafe

\* A step that leaves the run of w alone and starts no container of its runner.
LEMMA CancelFrame ==
    ASSUME TypeInv, NEW w \in Workers, CancelSafe(w),
           pc'[w] = pc[w], cur'[w] = cur[w], epoch'[w] = epoch[w],
           cancelledActions'[w] = cancelledActions[w],
           activeContainers'[w] = activeContainers[w],
           \A a \in Actions : cont'[Me(w)][a].st = "running" => cont[Me(w)][a].st = "running"
    PROVE  CancelSafe(w)'
<1>1. pc[w] \in {"attached", "waiting"} => cur[w] \in Actions
  BY DEF TypeInv, BusyHasAction
<1>2. Me(w)' = Me(w)
  BY DEF Me
<1> QED BY <1>1, <1>2 DEF CancelSafe, isCancelled, MyContainer

LEMMA CancelPipeline ==
    ASSUME TypeInv, CancelInv, NEW w \in Workers, StartSteps(w) \/ ExitSteps(w)
    PROVE  CancelInv'
<1>1. /\ TypeOK /\ BusyHasAction
      /\ pc \in [Workers -> RunnerPc]
      /\ activeContainers \in [Workers -> SUBSET Actions]
      /\ cancelledActions \in [Workers -> SUBSET Actions]
      /\ cont \in [Runners -> [Actions -> Container]]
      /\ cur[w] \in Actions
      /\ \A v \in Workers : Me(v) \in Runners
      /\ \A v \in Workers \ {w} : Me(v) # Me(w)
      /\ UNCHANGED <<up, epoch>>
  BY PipelineBusy, PipelineFrame DEF TypeInv, TypeOK, StoreTypeOK, RunnerTypeOK, Me, Runners
<1>2. \A v \in Workers : Me(v)' = Me(v)
  BY <1>1 DEF Me
<1>3. ASSUME NEW v \in Workers \ {w}
      PROVE  CancelSafe(v)'
  <2>1. CancelSafe(v)
    BY CancelPerWorker
  <2>2. \A a \in Actions : cont'[Me(v)][a] = cont[Me(v)][a]
    BY <1>1, PipelineLocal
  <2> QED BY <1>1, <2>1, <2>2, PipelineLocal, CancelFrame
<1>4. CancelSafe(w)'
  <2>1. CancelSafe(w)
    BY CancelPerWorker
  <2>2. CASE RegisterContainer(w)
    <3>1. /\ cur' = cur /\ cancelledActions' = cancelledActions
          /\ cur[w] \in activeContainers'[w]
      BY <1>1, <2>2 DEF RegisterContainer
    <3>2. isCancelled(w) => cont'[Me(w)][cur[w]] = Killed(MyContainer(w))
      BY <1>1, <2>2 DEF RegisterContainer, KillIfCancelled, KillContainer, MyContainer
    <3>3. Killed(MyContainer(w)).st # "running"
      BY <1>1, KilledStates DEF MyContainer
    <3> QED BY <1>2, <3>1, <3>2, <3>3 DEF CancelSafe, isCancelled, MyContainer
  <2>3. CASE CaptureInfo(w)
    BY <1>1, <1>2, <2>1, <2>3
       DEF CaptureInfo, Goto, CancelSafe, isCancelled, MyContainer, storeVars, memoryVars
  <2>4. CASE ~RegisterContainer(w) /\ ~CaptureInfo(w)
    <3>1. pc'[w] \notin {"attached", "waiting"}
      <4>1. CASE StartSteps(w)
        BY <1>1, <2>4, <4>1
           DEF StartSteps, LoadAction, LoadFails, RegisterAction, RejectNotPending,
               CancelledBeforeStart, MarkStarting, createAPIkey, AccessLost, MarkProcessing,
               LaunchContainer, StartFails, Goto
      <4>2. CASE ExitSteps(w)
        BY <1>1, <2>4, <4>2
           DEF ExitSteps, AwaitExit, InspectFails, MarkStopping, ReadBackFails, ResolveVerdict,
               WriteVerdict, SkipArtifacts, StartUpload, FinishUpload, UploadThrows, Catch,
               DisposeKey, JobCompleted, JobFailed, Goto
      <4> QED BY <4>1, <4>2
    <3> QED BY <3>1 DEF CancelSafe
  <2> QED BY <2>2, <2>3, <2>4
<1>5. \A v \in Workers : CancelSafe(v)'
  BY <1>3, <1>4
<1> QED BY <1>5 DEF CancelInv, CancelledNeverRuns, AttachedKnown, CancelSafe

LEMMA CancelStep ==
    ASSUME TypeInv, DownIsIdle, CancelInv, [Next]_vars
    PROVE  CancelInv'
<1>1. /\ TypeOK /\ BusyHasAction
      /\ pc \in [Workers -> RunnerPc]
      /\ cur \in [Workers -> Actions \cup {NoAction}]
      /\ activeActions \in [Workers -> SUBSET Actions]
      /\ activeContainers \in [Workers -> SUBSET Actions]
      /\ cancelledActions \in [Workers -> SUBSET Actions]
      /\ cont \in [Runners -> [Actions -> Container]]
      /\ up \in [Workers -> BOOLEAN]
      /\ epoch \in [Workers -> Epochs]
      /\ \A v \in Workers : Me(v) \in Runners
      /\ \A v \in Workers : CancelSafe(v)
  BY CancelPerWorker DEF TypeInv, TypeOK, StoreTypeOK, RunnerTypeOK, Me, Runners
<1>2. SUFFICES ASSUME ~\E w \in Workers : StartSteps(w) \/ ExitSteps(w)
               PROVE  \A v \in Workers : CancelSafe(v)'
  BY CancelPipeline DEF CancelInv, CancelledNeverRuns, AttachedKnown, CancelSafe
<1>3. ASSUME NEW w \in Workers, NEW a \in Actions, TakeJob(w, a), NEW v \in Workers
      PROVE  CancelSafe(v)'
  <2>1. CASE v = w
    BY <1>1, <1>3, <2>1 DEF TakeJob, Goto, CancelSafe
  <2>2. CASE v # w
    BY <1>1, <1>3, <2>2, CancelFrame DEF TakeJob, Goto, memoryVars
  <2> QED BY <2>1, <2>2
<1>4. ASSUME NEW w \in Workers, NEW a \in Actions, DeliverCancel(w, a), NEW v \in Workers
      PROVE  CancelSafe(v)'
  <2>1. UNCHANGED <<pc, cur, epoch, activeActions, activeContainers>>
    BY <1>4 DEF DeliverCancel
  <2>2. \A b \in Actions : cont'[Me(v)][b].st = "running" => cont[Me(v)][b].st = "running"
    <3>1. KillContainer(Me(w), a) \/ cont' = cont
      BY <1>4 DEF DeliverCancel
    <3> QED BY <1>1, <3>1, KillKept DEF StartedKept
  <2>3. CASE cancelledActions'[v] = cancelledActions[v]
    BY <1>1, <2>1, <2>2, <2>3, CancelFrame
  <2>4. CASE cancelledActions'[v] # cancelledActions[v]
    <3>1. /\ v = w
          /\ a \in activeActions[w]
          /\ cancelledActions'[w] = cancelledActions[w] \cup {a}
      BY <1>1, <1>4, <2>4 DEF DeliverCancel
    <3>2. a \in activeContainers[w] => cont'[Me(w)][a] = Killed(cont[Me(w)][a])
      BY <1>1, <1>4, <3>1 DEF DeliverCancel, KillContainer
    <3>3. Killed(cont[Me(w)][a]).st # "running"
      BY <1>1, KilledStates
    <3>4. Me(v)' = Me(v)
      BY <2>1 DEF Me
    <3>5. pc[v] \in {"attached", "waiting"} => cur[v] \in Actions
      BY <1>1 DEF BusyHasAction
    <3> QED
      BY <1>1, <2>1, <2>2, <3>1, <3>2, <3>3, <3>4, <3>5
         DEF CancelSafe, isCancelled, MyContainer
  <2> QED BY <2>3, <2>4
<1>5. ASSUME NEW w \in Workers, Crash(w), NEW v \in Workers
      PROVE  CancelSafe(v)'
  <2>1. CASE v = w
    BY <1>1, <1>5, <2>1 DEF Crash, CrashRunner, CancelSafe
  <2>2. CASE v # w
    BY <1>1, <1>5, <2>2, CancelFrame DEF Crash, CrashRunner
  <2> QED BY <2>1, <2>2
<1>6. ASSUME NEW w \in Workers, Restart(w), NEW v \in Workers
      PROVE  CancelSafe(v)'
  <2>1. CASE v = w
    BY <1>6, <2>1 DEF Restart, registerRunner, runnerVars, CancelSafe, DownIsIdle
  <2>2. CASE v # w
    BY <1>1, <1>6, <2>2, CancelFrame DEF Restart, registerRunner, runnerVars
  <2> QED BY <2>1, <2>2
<1>7. ASSUME Bystander, NEW v \in Workers
      PROVE  CancelSafe(v)'
  BY <1>1, <1>7, CancelFrame DEF Bystander, memoryVars, StartedKept
<1> QED BY <1>2, <1>3, <1>4, <1>5, <1>6, <1>7, StepKinds

LEMMA DownInit == Init => DownIsIdle
BY DEF Init, StoreInit, DownIsIdle

\* A cancellation that a consumer has taken note of has killed the container it
\* waits for, for any number of workers and restarts and whenever it came: a kill
\* on delivery where the container is registered, a kill on registration where not.
THEOREM CancellationKills == Spec => []CancelledNeverRuns
<1>1. Init => CancelInv
  BY DEF Init, RunnerInit, CancelInv, CancelledNeverRuns, AttachedKnown
<1>2. TypeInv /\ DownIsIdle /\ CancelInv /\ [Next]_vars => CancelInv'
  BY CancelStep
<1>3. TypeInv /\ DownIsIdle /\ [Next]_vars => DownIsIdle'
  BY DownStep
<1>4. Spec => [](TypeInv /\ DownIsIdle /\ CancelInv)
  BY <1>1, <1>2, <1>3, DownInit, TypeInvInit, TypeInvStep, PTL DEF Spec
<1>5. CancelInv => CancelledNeverRuns
  BY DEF CancelInv
<1> QED BY <1>4, <1>5, PTL
-----------------------------------------------------------------------------
(* Containers their runner has let go of.                                  *)

\* The states that make the janitor leave the container of its own runner alone.
RunsOnPaper(a) == row[a].state \in {"STARTING", "PROCESSING"}

\* Where the pipeline has, or may have, a container to account for.
InRun == {"launched", "attached", "waiting", "exited", "stopping", "judged", "caught"}

\* No container belongs to a runner that is still to come ...
FutureEmpty ==
    \A r \in Runners, a \in Actions : cont[r][a].st # "none" => r[2] <= epoch[r[1]]

\* ... and where a live runner has let go of one, its row says that it is over.
LetGo(w, a) ==
    up[w] /\ cont[Me(w)][a].st # "none" /\ ~(pc[w] \in InRun /\ cur[w] = a) => ~RunsOnPaper(a)

LetGoIsOver == \A w \in Workers, a \in Actions : LetGo(w, a)

StrayInv == FutureEmpty /\ LetGoIsOver

LEMMA StraySafe == ASSUME StrayInv PROVE StrayIsReclaimable
BY DEF StrayInv, LetGoIsOver, LetGo, StrayIsReclaimable, Attends, Alive, Me, InRun, HoldsKey,
       RunsOnPaper

\* A step that starts no container and marks no row as running.
LEMMA LetGoFrame ==
    ASSUME NEW w \in Workers, NEW a \in Actions, LetGo(w, a), StartedKept, Me(w) \in Runners,
           RunsOnPaper(a)' => RunsOnPaper(a),
           up'[w] => up[w], epoch'[w] = epoch[w],
           pc[w] \in InRun /\ cur[w] = a => pc'[w] = pc[w] /\ cur'[w] = cur[w]
    PROVE  LetGo(w, a)'
<1>1. Me(w)' = Me(w)
  BY DEF Me
<1> QED BY <1>1 DEF LetGo, StartedKept

\* The pipeline marks a row as running before it starts the container.
LEMMA PipelineMarks ==
    ASSUME TypeOK, BusyHasAction, StartInv,
           NEW w \in Workers, StartSteps(w) \/ ExitSteps(w), NEW a \in Actions,
           RunsOnPaper(a)'
    PROVE  \/ RunsOnPaper(a)
           \/ NeverStarted(a) /\ cont' = cont
<1>1. /\ row \in [Actions -> Row]
      /\ cur[w] \in Actions
      /\ pc[w] # "idle"
  BY PipelineBusy DEF TypeOK, StoreTypeOK
<1>2. CASE a # cur[w]
  BY <1>2, PipelineRows DEF RunsOnPaper
<1>3. CASE a = cur[w]
  <2>1. \/ row'[a].state \in {row[a].state} \cup TERMINAL_ACTION_STATES
        \/ MarkStarting(w)
        \/ MarkProcessing(w)
    BY <1>3, PipelineRows DEF OnTheWay, RunsOnPaper
  <2>2. CASE MarkStarting(w) \/ MarkProcessing(w)
    BY <1>1, <1>3, <2>2
       DEF MarkStarting, MarkProcessing, MayStart, Goto, StartInv, MayStartOnce, StartingOnce, Works
  <2> QED BY <2>1, <2>2 DEF RunsOnPaper, TERMINAL_ACTION_STATES
<1> QED BY <1>2, <1>3

\* The pipeline leaves a run by its verdict or by the catch block.
LEMMA PipelineLeaves ==
    ASSUME TypeOK, BusyHasAction,
           NEW w \in Workers, StartSteps(w) \/ ExitSteps(w), pc[w] \in InRun,
           NEW a \in Actions, a = cur[w]
    PROVE  \/ pc'[w] \in InRun /\ cur' = cur
           \/ ~RunsOnPaper(a)'
<1>1. /\ pc \in [Workers -> RunnerPc]
      /\ row \in [Actions -> Row]
      /\ cur[w] \in Actions
      /\ verdict[w] \in Verdict
  BY PipelineBusy DEF TypeOK, StoreTypeOK, RunnerTypeOK
<1>2. CASE StartSteps(w)
  BY <1>1, <1>2
     DEF StartSteps, LoadAction, LoadFails, RegisterAction, RejectNotPending,
         CancelledBeforeStart, MarkStarting, createAPIkey, AccessLost, MarkProcessing,
         LaunchContainer, StartFails, RegisterContainer, Goto, InRun
<1>3. CASE WriteVerdict(w)
  <2>1. VerdictRow(cur[w], verdict[w]).state \in TERMINAL_ACTION_STATES
    BY <1>1, RowStates
  <2> QED BY <1>1, <1>3, <2>1
          DEF WriteVerdict, Update, Exists, RunsOnPaper, TERMINAL_ACTION_STATES
<1>4. CASE Catch(w)
  <2>1. /\ FailedRow(cur[w], "SYSTEM").state = "FAILED"
        /\ [row[cur[w]] EXCEPT !.state = "CANCELLED"].state = "CANCELLED"
    BY <1>1, RowStates DEF ActionFailureOrigin, Row
  <2> QED BY <1>1, <1>4, <2>1 DEF Catch, Update, Exists, RunsOnPaper
<1>5. CASE ExitSteps(w) /\ ~WriteVerdict(w) /\ ~Catch(w)
  BY <1>1, <1>5
     DEF ExitSteps, CaptureInfo, AwaitExit, InspectFails, MarkStopping, ReadBackFails,
         ResolveVerdict, SkipArtifacts, StartUpload, FinishUpload, UploadThrows, DisposeKey,
         JobCompleted, JobFailed, Goto, InRun
<1> QED BY <1>2, <1>3, <1>4, <1>5

LEMMA StrayPipeline ==
    ASSUME TypeInv, StartInv, StrayInv, NEW w \in Workers, StartSteps(w) \/ ExitSteps(w)
    PROVE  StrayInv'
<1>1. /\ TypeOK /\ BusyHasAction
      /\ pc \in [Workers -> RunnerPc]
      /\ epoch \in [Workers -> Epochs]
      /\ cont \in [Runners -> [Actions -> Container]]
      /\ cur[w] \in Actions
      /\ \A v \in Workers : Me(v) \in Runners
      /\ UNCHANGED <<up, epoch>>
  BY PipelineBusy, PipelineFrame DEF TypeInv, TypeOK, StoreTypeOK, RunnerTypeOK, Me, Runners
<1>2. \A v \in Workers : Me(v)' = Me(v)
  BY <1>1 DEF Me
<1>3. FutureEmpty'
  <2> SUFFICES ASSUME NEW r \in Runners, NEW a \in Actions, cont'[r][a].st # "none"
               PROVE  r[2] <= epoch[r[1]]
    BY <1>1 DEF FutureEmpty
  <2>1. CASE cont'[r][a] = cont[r][a]
    BY <2>1 DEF StrayInv, FutureEmpty
  <2>2. CASE cont'[r][a] # cont[r][a]
    <3>1. r = Me(w)
      BY <1>1, <2>2, PipelineLocal
    <3>2. epoch[w] \in Int
      BY <1>1, StoreAssumption DEF Epochs
    <3> QED BY <3>1, <3>2 DEF Me
  <2> QED BY <2>1, <2>2
<1>4. ASSUME NEW v \in Workers, NEW a \in Actions
      PROVE  LetGo(v, a)'
  <2> SUFFICES ASSUME up[v], cont'[Me(v)][a].st # "none", ~(pc'[v] \in InRun /\ cur'[v] = a),
                      RunsOnPaper(a)'
               PROVE  FALSE
    BY <1>1, <1>2 DEF LetGo
  <2>1. ~(NeverStarted(a) /\ cont' = cont)
    BY <1>1 DEF NeverStarted
  <2>2. RunsOnPaper(a)
    BY <1>1, <2>1, PipelineMarks
  <2>3. cont[Me(v)][a].st = "none" \/ (pc[v] \in InRun /\ cur[v] = a)
    BY <2>2 DEF StrayInv, LetGoIsOver, LetGo
  <2>4. CASE pc[v] \in InRun /\ cur[v] = a
    <3>1. v = w
      BY <1>1, <2>4, PipelineLocal
    <3>2. (pc'[w] \in InRun /\ cur' = cur) \/ ~RunsOnPaper(a)'
      BY <1>1, <2>4, <3>1, PipelineLeaves
    <3> QED BY <2>4, <3>1, <3>2
  <2>5. CASE cont[Me(v)][a].st = "none"
    <3>1. LaunchContainer(w) \/ StartFails(w)
      BY <1>1, <2>5, PipelineKept DEF StartedKept
    <3>2. v = w /\ a = cur[w]
      <4>1. Me(v) = Me(w) /\ a = cur[w]
        BY <1>1, <2>5, PipelineLocal
      <4> QED BY <4>1 DEF Me
    <3>3. pc'[w] \in InRun /\ cur' = cur
      BY <1>1, <3>1 DEF LaunchContainer, StartFails, Goto, InRun
    <3> QED BY <3>2, <3>3
  <2> QED BY <2>3, <2>4, <2>5
<1> QED BY <1>3, <1>4 DEF StrayInv, LetGoIsOver

\* The rest: no container is started and no row marked as running.
LEMMA StrayKept ==
    ASSUME StrayInv, StartedKept, \A a \in Actions : RunsOnPaper(a)' => RunsOnPaper(a),
           UNCHANGED epoch, \A v \in Workers : Me(v) \in Runners,
           \A v \in Workers : /\ up'[v] => up[v]
                              /\ pc[v] \in InRun /\ up'[v] => pc'[v] = pc[v] /\ cur'[v] = cur[v]
    PROVE  StrayInv'
<1>1. FutureEmpty'
  BY DEF StrayInv, FutureEmpty, StartedKept
<1>2. \A v \in Workers : Me(v)' = Me(v)
  BY DEF Me
<1>3. LetGoIsOver'
  BY <1>2 DEF StrayInv, LetGoIsOver, LetGo, StartedKept
<1> QED BY <1>1, <1>3 DEF StrayInv

LEMMA StrayStep ==
    ASSUME TypeInv, StartInv, StrayInv, [Next]_vars
    PROVE  StrayInv'
<1>1. /\ TypeOK /\ BusyHasAction
      /\ pc \in [Workers -> RunnerPc]
      /\ cur \in [Workers -> Actions \cup {NoAction}]
      /\ row \in [Actions -> Row]
      /\ up \in [Workers -> BOOLEAN]
      /\ epoch \in [Workers -> Epochs]
      /\ MaxCrashes \in Nat
      /\ \A v \in Workers : Me(v) \in Runners
  BY StoreAssumption DEF TypeInv, TypeOK, StoreTypeOK, RunnerTypeOK, Me, Runners
<1>2. ASSUME row' = row
      PROVE  \A a \in Actions : RunsOnPaper(a)' => RunsOnPaper(a)
  BY <1>2 DEF RunsOnPaper
<1>3. ASSUME NEW w \in Workers, NEW a \in Actions, TakeJob(w, a)
      PROVE  StrayInv'
  <2>1. UNCHANGED <<row, cont, up, epoch>>
    BY <1>3 DEF TakeJob
  <2>2. \A v \in Workers : pc[v] \in InRun => pc'[v] = pc[v] /\ cur'[v] = cur[v]
    BY <1>1, <1>3 DEF TakeJob, Goto, InRun
  <2>3. StartedKept
    BY <2>1 DEF StartedKept
  <2> QED BY <1>1, <1>2, <2>1, <2>2, <2>3, StrayKept
<1>4. ASSUME NEW w \in Workers, NEW a \in Actions, DeliverCancel(w, a)
      PROVE  StrayInv'
  <2>1. UNCHANGED <<row, up, epoch, pc, cur>>
    BY <1>4 DEF DeliverCancel
  <2>2. KillContainer(Me(w), a) \/ cont' = cont
    BY <1>4 DEF DeliverCancel
  <2>3. StartedKept
    BY <1>1, <2>2, KillKept DEF StartedKept
  <2> QED BY <1>1, <1>2, <2>1, <2>3, StrayKept
<1>5. ASSUME NEW w \in Workers, Crash(w)
      PROVE  StrayInv'
  <2>1. /\ UNCHANGED <<row, cont, epoch>>
        /\ up' = [up EXCEPT ![w] = FALSE]
        /\ pc' = [pc EXCEPT ![w] = "idle"]
        /\ cur' = [cur EXCEPT ![w] = NoAction]
    BY <1>5 DEF Crash, CrashRunner
  <2>2. StartedKept
    BY <2>1 DEF StartedKept
  <2>3. \A v \in Workers : /\ up'[v] => up[v]
                           /\ up'[v] => pc'[v] = pc[v] /\ cur'[v] = cur[v]
    BY <1>1, <2>1
  <2> QED BY <1>1, <1>2, <2>1, <2>2, <2>3, StrayKept
<1>6. ASSUME NEW w \in Workers, Restart(w)
      PROVE  StrayInv'
  <2>1. /\ UNCHANGED <<row, cont, pc, cur>>
        /\ up' = [up EXCEPT ![w] = TRUE]
        /\ epoch' = [epoch EXCEPT ![w] = epoch[w] + 1]
    BY <1>1, <1>6 DEF Restart, registerRunner, runnerVars
  <2>2. \A v \in Workers : epoch[v] \in Int /\ epoch[v] <= epoch'[v]
    BY <1>1, <2>1 DEF Epochs
  <2>3. FutureEmpty'
    <3>1. \A r \in Runners : r[1] \in Workers /\ r[2] \in Int
      BY <1>1 DEF Runners, Epochs
    <3>2. \A v \in Workers : epoch'[v] \in Int
      BY <1>1, <2>1, <2>2
    <3> QED BY <2>1, <2>2, <3>1, <3>2 DEF StrayInv, FutureEmpty
  <2>4. \A a \in Actions : LetGo(w, a)'
    <3>1. Me(w)' \in Runners
      BY RestartType, <1>1, <1>6 DEF TypeInv, TypeOK, StoreTypeOK, Me, Runners
    <3>2. \A a \in Actions : cont[<<w, epoch[w] + 1>>][a].st = "none"
      BY <1>1, <2>1, <2>2, <3>1 DEF StrayInv, FutureEmpty, Me
    <3> QED BY <1>1, <2>1, <3>2 DEF LetGo, Me
  <2>5. \A v \in Workers \ {w}, a \in Actions : LetGo(v, a)'
    <3>1. \A v \in Workers \ {w} : Me(v)' = Me(v) /\ up'[v] = up[v]
      BY <1>1, <2>1 DEF Me
    <3> QED BY <2>1, <3>1 DEF StrayInv, LetGoIsOver, LetGo, RunsOnPaper
  <2> QED BY <2>3, <2>4, <2>5 DEF StrayInv, LetGoIsOver
<1>7. ASSUME Bystander
      PROVE  StrayInv'
  <2>1. \A a \in Actions : RunsOnPaper(a)' => RunsOnPaper(a)
    <3>1. CASE FinalOnly
      BY <3>1 DEF FinalOnly, RunsOnPaper, TERMINAL_ACTION_STATES
    <3>2. CASE \E a \in Actions : SaveAction(a)
      <4>1. [AbsentRow EXCEPT !.state = "PENDING"].state = "PENDING"
        BY DEF AbsentRow
      <4> QED BY <1>1, <3>2, <4>1 DEF SaveAction, RunsOnPaper
    <3> QED BY <1>7, <3>1, <3>2 DEF Bystander
  <2> QED BY <1>1, <1>7, <2>1, StrayKept DEF Bystander
<1> QED BY <1>3, <1>4, <1>5, <1>6, <1>7, StrayPipeline, StepKinds

LEMMA StrayInit == ASSUME Init PROVE StrayInv
<1>1. \A w \in Workers : Me(w) \in Runners
  BY StoreAssumption DEF Init, StoreInit, Me, Runners, Epochs
<1>2. \A r \in Runners, a \in Actions : cont[r][a].st = "none"
  BY DEF Init, StoreInit, NoContainer
<1> QED BY <1>1, <1>2 DEF StrayInv, FutureEmpty, LetGoIsOver, LetGo

\* A running container that its live runner has let go of belongs to a row the
\* janitor's conditional update matches, so the next pass kills it: no path of
\* executeProcessAction leaves a container running behind a row that says STARTING
\* or PROCESSING, for any number of workers, restarts and docker errors.
THEOREM StraysAreReclaimable == Spec => []StrayIsReclaimable
<1>1. Init => StrayInv
  BY StrayInit
<1>2. TypeInv /\ StartInv /\ StrayInv /\ [Next]_vars => StrayInv'
  BY StrayStep
<1>3. Spec => [](TypeInv /\ HandoverInv /\ StartInv /\ StrayInv)
  BY <1>1, <1>2, TypeInvInit, TypeInvStep, HandoverInit, HandoverStep, StartInit, StartStep,
     PTL DEF Spec
<1>4. StrayInv => StrayIsReclaimable
  BY StraySafe
<1> QED BY <1>3, <1>4, PTL
-----------------------------------------------------------------------------
(* Nobody waits for ever: who is going to finish an unfinished action.     *)

\* Who cares for an action once its consumer dies or lets go of it: its dispatch,
\* its job, a health check that is moving the job, or a hook that will fail the row.
Cared(a) ==
    \/ disp[a].pc \notin {"queued", "rejected"}
    \/ job[a].st \notin {"none", "failed"}
    \/ \E w \in Workers :
        \/ dead[w][a].pc \in {"removed", "add"}
        \/ hook[w][a].pc = "failedRead"
        \/ hook[w][a].pc = "failed" /\ job[a].st = "failed"

CaredUnlessLost(a) == a \notin Lost /\ Unfinished(a) => Cared(a)

AllCared == \A a \in Actions : CaredUnlessLost(a)

\* A run that goes on to succeed has a final row, or none any more: its job is
\* removed on completion, and nobody is bound to finish the action after that.
VerdictWritten ==
    \A w \in Workers :
        pc[w] \in {"ended", "uploading", "disposing", "succeeded"} => ~Unfinished(cur[w])

\* Outside a health check's pass over a worker no job of it is being moved.
QuietHealth == \A w \in Workers, a \in Actions : w \notin hc => dead[w][a].pc = "none"

OrphanInv == AllCared /\ VerdictWritten /\ QuietHealth

LEMMA OrphanSafe == ASSUME OrphanInv PROVE NoOrphanedAction
BY DEF OrphanInv, AllCared, CaredUnlessLost, Cared, NoOrphanedAction, Responsible, NoHook

\* A row that stays, becomes final or goes does not become unfinished.
LEMMA FinalFinishes ==
    ASSUME NEW a \in Actions, Unfinished(a)',
           row'[a].state \in {row[a].state, "ABSENT"} \cup TERMINAL_ACTION_STATES
    PROVE  Unfinished(a)
BY DEF Unfinished, Exists, isTerminalActionState

\* The steps after which nobody is bound to care for a.
Dropped(a) ==
    \/ a \in Lost'
    \/ RejectAction(a)
    \/ StopPublish(a) /\ job'[a] # job[a]
    \/ \E w \in Workers :
        \/ /\ dead[w][a].pc = "removed"
           /\ SaveEntity(a, Unprocessable([dead[w][a].entity EXCEPT !.worker = row[a].worker]))
        \/ JobCompleted(w) /\ cur[w] = a
        \/ HookRead(w, a) /\ ~Exists(a)
        \/ handleUnexpectedError(w, a)

CareKept(a) == Cared(a) => Cared(a)' \/ Dropped(a)

\* A step that changes nothing about who cares for a.
LEMMA CareFrame ==
    ASSUME NEW a \in Actions, disp'[a].pc = disp[a].pc, job'[a] = job[a],
           \A v \in Workers : dead'[v][a].pc = dead[v][a].pc /\ hook'[v][a].pc = hook[v][a].pc
    PROVE  CareKept(a)
BY DEF CareKept, Cared

LEMMA CareDispatch ==
    ASSUME TypeOK, UNCHANGED <<dead, hook>>,
           NEW a \in Actions, SaveAction(a) \/ DispatchNext(a)
    PROVE  \A b \in Actions : CareKept(b)
<1>1. /\ job \in [Actions -> Job]
      /\ disp \in [Actions -> DispEntry]
  BY DEF TypeOK, StoreTypeOK, DispatcherTypeOK, DispEntry
<1>2. ASSUME NEW b \in Actions \ {a}
      PROVE  CareKept(b)
  <2>1. job'[b] = job[b] /\ disp'[b] = disp[b]
    BY <1>1
       DEF SaveAction, DispatchNext, ChooseWorker, NoWorkerFound, AddJob, AddJobFails,
           RefreshAndRetry, RejectAction, storeVars
  <2> QED BY <2>1, CareFrame
<1>3. CareKept(a)
  <2>1. \A p \in DispPc : [disp[a] EXCEPT !.pc = p].pc = p
    BY <1>1 DEF DispEntry
  <2>2. CASE AddJob(a)
    BY <1>1, <2>2 DEF AddJob, WaitingJob, CareKept, Cared
  <2>3. CASE NoWorkerFound(a) \/ AddJobFails(a)
    <3>1. PICK p \in {"refresh", "failed"} : disp' = [disp EXCEPT ![a] = [disp[a] EXCEPT !.pc = p]]
      BY <1>1, <2>3 DEF NoWorkerFound, AddJobFails
    <3> QED BY <1>1, <2>1, <3>1 DEF DispPc, CareKept, Cared
  <2>4. CASE SaveAction(a) \/ RefreshAndRetry(a)
    <3>1. PICK p \in {"choose", "choose2"} : disp' = [disp EXCEPT ![a] = [disp[a] EXCEPT !.pc = p]]
      BY <1>1, <2>4 DEF SaveAction, RefreshAndRetry
    <3> QED BY <1>1, <2>1, <3>1 DEF DispPc, CareKept, Cared
  <2>5. CASE ChooseWorker(a)
    <3>1. disp'[a].pc \in {"add", "add2"}
      BY <1>1, <2>5 DEF ChooseWorker
    <3> QED BY <3>1 DEF CareKept, Cared
  <2> QED BY <2>2, <2>3, <2>4, <2>5 DEF DispatchNext, CareKept, Dropped
<1> QED BY <1>2, <1>3

LEMMA CareRequests ==
    ASSUME TypeOK, UNCHANGED hook, NEW a \in Actions,
           \/ Cancel(a) \/ StopNext(a) \/ DeleteAction(a)
           \/ \E s \in Diagnostics : RecordDiagnostic(a, s)
    PROVE  \A b \in Actions : CareKept(b)
<1>1. job \in [Actions -> Job]
  BY DEF TypeOK, StoreTypeOK
<1>2. CASE StopPublish(a)
  <2>1. UNCHANGED <<disp, dead>> /\ \A b \in Actions \ {a} : job'[b] = job[b]
    BY <1>1, <1>2 DEF StopPublish
  <2> QED BY <1>2, <2>1, CareFrame DEF CareKept, Dropped
<1>3. CASE \/ Cancel(a) \/ StopRead(a) \/ StopSave(a) \/ DeleteAction(a)
           \/ \E s \in Diagnostics : RecordDiagnostic(a, s)
  <2>1. UNCHANGED <<disp, job, dead>>
    BY <1>3 DEF Cancel, StopRead, StopSave, DeleteAction, RecordDiagnostic, storeVars, healthVars
  <2> QED BY <2>1, CareFrame
<1> QED BY <1>2, <1>3 DEF StopNext

LEMMA CareHealthCheck ==
    ASSUME TypeOK, QuietHealth, UNCHANGED hook, HealthCheckNext
    PROVE  QuietHealth' /\ \A b \in Actions : CareKept(b)
<1>1. /\ job \in [Actions -> Job]
      /\ dead \in [Workers -> [Actions -> DeadEntry]]
      /\ NoDeadJob.pc = "none"
      /\ disp' = disp
  BY ZenonT(60)
     DEF TypeOK, StoreTypeOK, DispatcherTypeOK, DeadEntry, NoDeadJob, HealthCheckNext,
         DetectDeadWorker, ReadDeadJob, RemoveDeadJob, ChooseNewWorker, RequeueJob,
         RequeueLosesJob, FinishHealthCheck, OpenQueues
<1>2. ASSUME NEW w \in Workers, DetectDeadWorker(w)
      PROVE  QuietHealth' /\ \A b \in Actions : CareKept(b)
  <2>1. /\ job' = job /\ w \notin hc
        /\ \/ UNCHANGED <<hc, dead>>
           \/ /\ hc' = hc \cup {w}
              /\ dead' = [dead EXCEPT ![w] = [a \in Actions |->
                           IF job[a].q = w /\ job[a].st # "failed"
                           THEN [NoDeadJob EXCEPT !.pc = "listed"] ELSE NoDeadJob]]
    BY <1>2 DEF DetectDeadWorker
  <2>2. \A v \in Workers, a \in Actions :
            dead[v][a].pc \in {"removed", "add"} => dead'[v][a].pc = dead[v][a].pc
    BY <1>1, <2>1 DEF QuietHealth
  <2>3. \A b \in Actions : CareKept(b)
    BY <1>1, <2>1, <2>2 DEF CareKept, Cared
  <2>4. QuietHealth'
    BY <1>1, <2>1 DEF QuietHealth
  <2> QED BY <2>3, <2>4
<1>3. ASSUME NEW w \in Workers, NEW a \in Actions,
             \/ ReadDeadJob(w, a) \/ RemoveDeadJob(w, a) \/ ChooseNewWorker(w, a)
             \/ RequeueJob(w, a) \/ RequeueLosesJob(w, a)
      PROVE  QuietHealth' /\ \A b \in Actions : CareKept(b)
  <2>1. /\ hc' = hc
        /\ dead[w][a].pc # "none"
        /\ \A v \in Workers, b \in Actions : <<v, b>> # <<w, a>> => dead'[v][b] = dead[v][b]
        /\ \A b \in Actions \ {a} : job'[b] = job[b]
    <3>1. CASE ReadDeadJob(w, a)
      BY <1>1, <3>1 DEF ReadDeadJob, storeVars
    <3>2. CASE RemoveDeadJob(w, a)
      BY <1>1, <3>2 DEF RemoveDeadJob
    <3>3. CASE ChooseNewWorker(w, a)
      <4>1. PICK e : dead' = [dead EXCEPT ![w][a] = e]
        BY <3>3 DEF ChooseNewWorker
      <4>2. UNCHANGED <<job, hc>> /\ dead[w][a].pc # "none"
        BY <3>3 DEF ChooseNewWorker
      <4> QED BY <1>1, <4>1, <4>2
    <3>4. CASE RequeueJob(w, a) \/ RequeueLosesJob(w, a)
      BY <1>1, <3>4 DEF RequeueJob, RequeueLosesJob, storeVars
    <3> QED BY <1>3, <3>1, <3>2, <3>3, <3>4
  <2>2. QuietHealth'
    BY <2>1 DEF QuietHealth
  <2>3. ASSUME NEW b \in Actions \ {a}
        PROVE  CareKept(b)
    BY <1>1, <2>1, CareFrame
  <2>4. CareKept(a)
    <3>1. CASE ReadDeadJob(w, a) \/ (RemoveDeadJob(w, a) /\ Locked(a))
      <4>1. job' = job /\ dead[w][a].pc \notin {"removed", "add"}
        BY <1>1, <3>1 DEF ReadDeadJob, RemoveDeadJob, storeVars
      <4> QED BY <1>1, <2>1, <4>1 DEF CareKept, Cared
    <3>2. CASE RemoveDeadJob(w, a) /\ ~Locked(a)
      <4>1. dead'[w][a].pc = "removed"
        BY <1>1, <3>2 DEF RemoveDeadJob, DeadEntry
      <4> QED BY <4>1 DEF CareKept, Cared
    <3>3. CASE ChooseNewWorker(w, a)
      <4>1. CASE dead'[w][a].pc = "add"
        BY <4>1 DEF CareKept, Cared
      <4>2. CASE dead'[w][a].pc # "add"
        <5>1. \A v : dead' = [dead EXCEPT ![w][a] =
                                  [pc |-> "add", entity |-> AbsentRow, to |-> v]]
                         => dead'[w][a].pc = "add"
          BY <1>1
        <5> QED BY <3>3, <4>2, <5>1 DEF ChooseNewWorker, CareKept, Dropped
      <4> QED BY <4>1, <4>2
    <3>4. CASE RequeueJob(w, a)
      BY <1>1, <3>4 DEF RequeueJob, WaitingJob, CareKept, Cared
    <3>5. CASE RequeueLosesJob(w, a)
      BY <3>5 DEF RequeueLosesJob, CareKept, Dropped, Lost
    <3> QED BY <1>3, <3>1, <3>2, <3>3, <3>4, <3>5
  <2> QED BY <2>2, <2>3, <2>4
<1>4. CASE OpenQueues \/ \E w \in Workers : FinishHealthCheck(w)
  <2>1. UNCHANGED <<job, dead>>
    BY <1>4 DEF OpenQueues, FinishHealthCheck, storeVars, healthVars
  <2>2. \A b \in Actions : CareKept(b)
    BY <1>1, <2>1, CareFrame
  <2>3. QuietHealth'
    BY <1>1, <1>4, <2>1 DEF OpenQueues, FinishHealthCheck, healthVars, QuietHealth
  <2> QED BY <2>2, <2>3
<1> QED BY <1>2, <1>3, <1>4 DEF HealthCheckNext

\* While the pipeline is on an action, the job cares for it.
LEMMA JobCares ==
    ASSUME TypeOK, BusyHasAction, HandoverInv,
           NEW w \in Workers, NEW a \in Actions, a = cur[w], StartSteps(w) \/ ExitSteps(w)
    PROVE  JobCompleted(w) \/ Cared(a)'
<1>1. /\ job \in [Actions -> Job]
      /\ pc[w] # "idle"
  BY PipelineBusy DEF TypeOK, StoreTypeOK
<1>2. HoldsLock(w, a)
  BY <1>1 DEF HandoverInv, WorkerHoldsJob, Works
<1>3. CASE JobCompleted(w)
  BY <1>3
<1>4. CASE JobFailed(w)
  <2>1. \A j \in Job : [j EXCEPT !.st = "delayed"].st = "delayed"
    BY DEF Job
  <2>2. job'[a].st = "delayed"
    BY <1>1, <1>4, <2>1 DEF JobFailed, Settle
  <2> QED BY <2>2 DEF Cared
<1>5. CASE ~(JobCompleted(w) \/ JobFailed(w))
  <2>1. job' = job
    BY <1>5
       DEF StartSteps, ExitSteps, LoadAction, LoadFails, RegisterAction, RejectNotPending,
           CancelledBeforeStart, MarkStarting, createAPIkey, AccessLost, MarkProcessing,
           LaunchContainer, StartFails, RegisterContainer, CaptureInfo, AwaitExit,
           InspectFails, MarkStopping, ReadBackFails, ResolveVerdict, WriteVerdict,
           SkipArtifacts, StartUpload, FinishUpload, UploadThrows, Catch, DisposeKey, storeVars
  <2> QED BY <1>2, <2>1 DEF HoldsLock, Cared
<1> QED BY <1>3, <1>4, <1>5

\* The pipeline itself lets go of an action only by completing its job.
LEMMA CarePipeline ==
    ASSUME TypeOK, BusyHasAction, HandoverInv, UNCHANGED <<disp, dead>>,
           NEW w \in Workers, StartSteps(w) \/ ExitSteps(w)
    PROVE  \A b \in Actions : CareKept(b)
<1>1. /\ job \in [Actions -> Job]
      /\ hook \in [Workers -> [Actions -> HookEntry]]
      /\ cur[w] \in Actions
      /\ pc[w] # "idle"
  BY PipelineBusy DEF TypeOK, StoreTypeOK, RunnerTypeOK, HookEntry
<1>2. \A b \in Actions \ {cur[w]} :
        job'[b] = job[b] /\ \A v \in Workers : hook'[v][b] = hook[v][b]
  <2>1. CASE JobCompleted(w) \/ JobFailed(w)
    BY <1>1, <2>1 DEF JobCompleted, JobFailed, Settle
  <2>2. CASE ~(JobCompleted(w) \/ JobFailed(w))
    BY <2>2
       DEF StartSteps, ExitSteps, LoadAction, LoadFails, RegisterAction, RejectNotPending,
           CancelledBeforeStart, MarkStarting, createAPIkey, AccessLost, MarkProcessing,
           LaunchContainer, StartFails, RegisterContainer, CaptureInfo, AwaitExit, InspectFails,
           MarkStopping, ReadBackFails, ResolveVerdict, WriteVerdict, SkipArtifacts, StartUpload,
           FinishUpload, UploadThrows, Catch, DisposeKey, storeVars
  <2> QED BY <2>1, <2>2
<1>3. ASSUME NEW b \in Actions \ {cur[w]}
      PROVE  CareKept(b)
  BY <1>2, CareFrame
<1>4. ASSUME NEW b \in Actions, b = cur[w]
      PROVE  CareKept(b)
  BY <1>4, JobCares DEF CareKept, Dropped
<1> QED BY <1>3, <1>4

\* The hooks fail a row before they let go of its action.
LEMMA CareQueue ==
    ASSUME TypeOK, UNCHANGED <<disp, dead>>,
           NEW w \in Workers, NEW a \in Actions, QueueSteps(w, a)
    PROVE  \A b \in Actions : CareKept(b)
<1>1. /\ job \in [Actions -> Job]
      /\ hook \in [Workers -> [Actions -> HookEntry]]
  BY DEF TypeOK, StoreTypeOK, RunnerTypeOK, HookEntry
<1>2. /\ \A b \in Actions \ {a} :
            job'[b] = job[b] /\ \A v \in Workers : hook'[v][b] = hook[v][b]
      /\ \A v \in Workers \ {w} : hook'[v][a] = hook[v][a]
  <2>1. CASE HookRead(w, a)
    BY <1>1, <2>1 DEF HookRead
  <2>2. CASE markJobAsCompleted(w, a) \/ handleUnexpectedError(w, a) \/ HookThrows(w, a)
    BY <1>1, <2>2 DEF markJobAsCompleted, handleUnexpectedError, HookThrows, storeVars
  <2>3. CASE PromoteDelayed(w, a) \/ StalledJob(w, a) \/ StalledTwice(w, a)
    BY <1>1, <2>3 DEF PromoteDelayed, StalledJob, StalledTwice, runnerVars
  <2> QED BY <2>1, <2>2, <2>3 DEF QueueSteps
<1>3. ASSUME NEW b \in Actions \ {a}
      PROVE  CareKept(b)
  BY <1>2, CareFrame
<1>4. CareKept(a)
  <2>1. CASE HookRead(w, a)
    <3>1. CASE hook[w][a].pc = "failed" /\ Exists(a)
      <4>1. hook'[w][a].pc = "failedRead"
        BY <1>1, <2>1, <3>1 DEF HookRead
      <4> QED BY <4>1 DEF CareKept, Cared
    <3>2. CASE hook[w][a].pc # "failed"
      <4>1. hook[w][a].pc = "completed" /\ job' = job
        BY <2>1, <3>2 DEF HookRead
      <4> QED BY <1>2, <4>1 DEF CareKept, Cared
    <3> QED BY <2>1, <3>1, <3>2 DEF CareKept, Dropped
  <2>2. CASE markJobAsCompleted(w, a)
    <3>1. hook[w][a].pc = "completedRead" /\ job' = job
      BY <2>2 DEF markJobAsCompleted
    <3> QED BY <1>2, <3>1 DEF CareKept, Cared
  <2>3. CASE handleUnexpectedError(w, a)
    BY <2>3 DEF CareKept, Dropped
  <2>4. CASE HookThrows(w, a)
    BY <2>4 DEF HookThrows, HoldsLock, storeVars, CareKept, Cared
  <2>5. CASE PromoteDelayed(w, a) \/ StalledJob(w, a)
    <3>1. job'[a].st = "waiting"
      BY <1>1, <2>5 DEF PromoteDelayed, StalledJob, Job
    <3> QED BY <3>1 DEF CareKept, Cared
  <2>6. CASE StalledTwice(w, a)
    <3>1. job'[a].st = "failed" /\ hook'[w][a].pc = "failed"
      BY <1>1, <2>6 DEF StalledTwice, Job, HookEntry
    <3> QED BY <3>1 DEF CareKept, Cared
  <2> QED BY <2>1, <2>2, <2>3, <2>4, <2>5, <2>6 DEF QueueSteps
<1> QED BY <1>3, <1>4

\* A crash loses hooks, and takes note of the actions that only a hook cared for.
LEMMA CareCrash ==
    ASSUME TypeOK, NEW w \in Workers, Crash(w)
    PROVE  \A b \in Actions : CareKept(b)
<1>1. /\ job \in [Actions -> Job]
      /\ hook \in [Workers -> [Actions -> HookEntry]]
      /\ UNCHANGED <<disp, dead, lostJobs>>
  BY DEF TypeOK, StoreTypeOK, RunnerTypeOK, HookEntry, Crash, CrashRunner, dispatcherVars
<1>2. \A b \in Actions :
        /\ job'[b].st \in {"none", "failed"} => job'[b] = job[b]
        /\ job[b].st = "failed" => job'[b] = job[b]
        /\ job'[b].st # job[b].st => job'[b].st = "abandoned"
  BY <1>1 DEF Crash, CrashRunner, Job
<1>3. /\ \A v \in Workers \ {w}, b \in Actions : hook'[v][b] = hook[v][b]
      /\ \A b \in Actions :
            /\ hook[w][b].pc = "failedRead" => b \in lostHooks'
            /\ hook[w][b].pc = "failed" /\ job[b].st = "failed" => b \in lostHooks'
  BY <1>1 DEF Crash, CrashRunner
<1> SUFFICES ASSUME NEW a \in Actions, a \notin Lost', Cared(a)
             PROVE  Cared(a)'
  BY DEF CareKept, Dropped
<1>4. a \notin lostHooks'
  BY DEF Lost
<1> QED BY <1>1, <1>2, <1>3, <1>4 DEF Cared

\* Who lets go of an action that somebody cares for.
LEMMA CareEnds ==
    ASSUME TypeInv, HandoverInv, QuietHealth, [Next]_vars
    PROVE  QuietHealth' /\ \A a \in Actions : CareKept(a)
<1>1. TypeOK /\ BusyHasAction
  BY DEF TypeInv
<1>2. ASSUME UNCHANGED <<hc, dead>>
      PROVE  QuietHealth'
  BY <1>2 DEF QuietHealth
<1>3. ASSUME UNCHANGED <<disp, job, hc, dead, hook>>
      PROVE  QuietHealth' /\ \A a \in Actions : CareKept(a)
  BY <1>2, <1>3, CareFrame
<1>4. CASE StoreNext /\ UNCHANGED <<dispatcherVars, runnerVars, janitorVars>>
  BY <1>3, <1>4
     DEF StoreNext, ContainerExit, DockerRemove, RuntimeExpires, dispatcherVars, healthVars,
         runnerVars
<1>5. CASE JanitorNext /\ UNCHANGED <<dispatcherVars, runnerVars>>
  <2>1. job' = job
    BY <1>5 DEF JanitorNext, performReconciliation, Sweep, ListContainers, ReadActive, KillFirst,
                MarkTimedOut, MarkInterrupted, markActionAsFailed, MarkZombie, KillZombie,
                LeaveAlone, DetectCrashed, MarkCrashed, FinishPass, RunnerGoesInactive, storeVars
  <2> QED BY <1>3, <1>5, <2>1 DEF dispatcherVars, healthVars, runnerVars
<1>6. CASE DispatcherNext /\ UNCHANGED <<runnerVars, janitorVars>>
  <2>1. hook' = hook
    BY <1>6 DEF runnerVars
  <2>2. ASSUME NEW a \in Actions, SaveAction(a) \/ DispatchNext(a)
        PROVE  QuietHealth' /\ \A b \in Actions : CareKept(b)
    <3>1. UNCHANGED <<hc, dead>>
      BY <2>2 DEF SaveAction, DispatchNext, ChooseWorker, NoWorkerFound, AddJob, AddJobFails,
                  RefreshAndRetry, RejectAction, healthVars
    <3> QED BY <1>1, <1>2, <2>1, <2>2, <3>1, CareDispatch
  <2>3. ASSUME NEW a \in Actions,
               \/ Cancel(a) \/ StopNext(a) \/ DeleteAction(a)
               \/ \E s \in Diagnostics : RecordDiagnostic(a, s)
        PROVE  QuietHealth' /\ \A b \in Actions : CareKept(b)
    <3>1. UNCHANGED <<hc, dead>>
      BY <2>3 DEF Cancel, StopNext, StopRead, StopSave, StopPublish, DeleteAction,
                  RecordDiagnostic, healthVars
    <3> QED BY <1>1, <1>2, <2>1, <2>3, <3>1, CareRequests
  <2> QED BY <1>1, <1>6, <2>1, <2>2, <2>3, CareHealthCheck DEF DispatcherNext
<1>7. CASE RunnerNext /\ UNCHANGED <<dispatcherVars, janitorVars>>
  <2>1. UNCHANGED <<disp, hc, dead>>
    BY <1>7 DEF dispatcherVars, healthVars
  <2>2. ASSUME NEW w \in Workers, NEW a \in Actions, TakeJob(w, a)
        PROVE  \A b \in Actions : CareKept(b)
    <3>1. /\ hook' = hook
          /\ \A b \in Actions \ {a} : job'[b] = job[b]
          /\ job'[a].st = "active"
      BY <1>1, <2>2 DEF TakeJob, TypeOK, StoreTypeOK, Job
    <3>2. CareKept(a)
      BY <3>1 DEF CareKept, Cared
    <3> QED BY <2>1, <3>1, <3>2, CareFrame
  <2>3. ASSUME NEW w \in Workers, NEW a \in Actions, DeliverCancel(w, a)
        PROVE  \A b \in Actions : CareKept(b)
    BY <1>3, <2>1, <2>3 DEF DeliverCancel
  <2> QED
    BY <1>1, <1>2, <1>7, <2>1, <2>2, <2>3, CarePipeline, CareQueue DEF RunnerNext, ProcessNext
<1>8. ASSUME NEW w \in Workers, Crash(w)
      PROVE  QuietHealth' /\ \A a \in Actions : CareKept(a)
  BY <1>1, <1>2, <1>8, CareCrash DEF Crash, dispatcherVars, healthVars
<1>9. CASE UNCHANGED vars \/ \E w \in Workers : Restart(w)
  BY <1>3, <1>9 DEF vars, storeVars, Restart, registerRunner, dispatcherVars, healthVars, runnerVars
<1> QED BY <1>4, <1>5, <1>6, <1>7, <1>8, <1>9 DEF Next

\* What was lost stays lost.
LEMMA LostStays ==
    ASSUME [Next]_vars
    PROVE  Lost \subseteq Lost'
<1>1. CASE StoreNext /\ UNCHANGED <<dispatcherVars, runnerVars, janitorVars>>
  BY <1>1 DEF dispatcherVars, healthVars, runnerVars, Lost
<1>2. CASE DispatcherNext /\ UNCHANGED <<runnerVars, janitorVars>>
  <2>1. lostHooks' = lostHooks
    BY <1>2 DEF runnerVars
  <2>2. lostJobs \subseteq lostJobs'
    <3>1. CASE HealthCheckNext
      BY <3>1
         DEF HealthCheckNext, DetectDeadWorker, ReadDeadJob, RemoveDeadJob, ChooseNewWorker,
             RequeueJob, RequeueLosesJob, FinishHealthCheck, OpenQueues, healthVars
    <3>2. CASE ~HealthCheckNext
      BY <1>2, <3>2
         DEF DispatcherNext, SaveAction, DispatchNext, ChooseWorker, NoWorkerFound, AddJob,
             AddJobFails, RefreshAndRetry, RejectAction, Cancel, StopNext, StopRead, StopSave,
             StopPublish, DeleteAction, RecordDiagnostic, healthVars
    <3> QED BY <3>1, <3>2
  <2> QED BY <2>1, <2>2 DEF Lost
<1>3. CASE RunnerNext /\ UNCHANGED <<dispatcherVars, janitorVars>>
  <2>1. lostJobs' = lostJobs
    BY <1>3 DEF dispatcherVars, healthVars
  <2>2. ASSUME NEW w \in Workers, StartSteps(w) \/ ExitSteps(w)
        PROVE  lostHooks' = lostHooks
    BY <2>2
       DEF StartSteps, ExitSteps, LoadAction, LoadFails, RegisterAction, RejectNotPending,
           CancelledBeforeStart, MarkStarting, createAPIkey, AccessLost, MarkProcessing,
           LaunchContainer, StartFails, RegisterContainer, CaptureInfo, AwaitExit, InspectFails,
           MarkStopping, ReadBackFails, ResolveVerdict, WriteVerdict, SkipArtifacts, StartUpload,
           FinishUpload, UploadThrows, Catch, DisposeKey, JobCompleted, JobFailed, Settle
  <2>3. ASSUME NEW w \in Workers, NEW a \in Actions,
               TakeJob(w, a) \/ DeliverCancel(w, a) \/ QueueSteps(w, a)
        PROVE  lostHooks' = lostHooks
    BY <2>3
       DEF TakeJob, DeliverCancel, QueueSteps, HookRead, markJobAsCompleted,
           handleUnexpectedError, HookThrows, PromoteDelayed, StalledJob, StalledTwice, runnerVars
  <2>4. lostHooks' = lostHooks
    BY <1>3, <2>2, <2>3 DEF RunnerNext, ProcessNext
  <2> QED BY <2>1, <2>4 DEF Lost
<1>4. CASE JanitorNext /\ UNCHANGED <<dispatcherVars, runnerVars>>
  BY <1>4 DEF dispatcherVars, healthVars, runnerVars, Lost
<1>5. CASE UNCHANGED vars \/ \E w \in Workers : Crash(w) \/ Restart(w)
  BY <1>5 DEF vars, dispatcherVars, healthVars, runnerVars, Crash, CrashRunner, Restart,
              registerRunner, Lost
<1> QED BY <1>1, <1>2, <1>3, <1>4, <1>5 DEF Next

\* The run that is about to succeed.
LEMMA VerdictPipeline ==
    ASSUME TypeOK, BusyHasAction, HandoverInv, VerdictWritten,
           NEW w \in Workers, StartSteps(w) \/ ExitSteps(w)
    PROVE  VerdictWritten'
<1> DEFINE After == {"ended", "uploading", "disposing", "succeeded"}
<1>1. /\ pc \in [Workers -> RunnerPc]
      /\ cur \in [Workers -> Actions \cup {NoAction}]
      /\ row \in [Actions -> Row]
      /\ cur[w] \in Actions
      /\ pc[w] # "idle"
      /\ verdict[w] \in Verdict
  BY PipelineBusy DEF TypeOK, StoreTypeOK, RunnerTypeOK
<1>2. ASSUME NEW v \in Workers \ {w}, pc'[v] \in After
      PROVE  ~Unfinished(cur[v])' /\ cur'[v] = cur[v]
  <2>1. pc[v] \in After /\ cur'[v] = cur[v] /\ cur[v] \in Actions
    BY <1>2, PipelineLocal DEF BusyHasAction
  <2>2. cur[v] # cur[w]
    BY <1>1, <2>1, HandoverSafe DEF SingleProcessor, Works
  <2>3. row'[cur[v]] = row[cur[v]]
    BY <2>1, <2>2, PipelineRows
  <2> QED BY <2>1, <2>3 DEF VerdictWritten, Unfinished, Exists
<1>3. ASSUME pc'[w] \in After, NEW a \in Actions, a = cur[w]
      PROVE  cur'[w] = a /\ ~Unfinished(a)'
  <2>1. cur'[w] = a
    <3>1. cur' = cur \/ pc' = [pc EXCEPT ![w] = "idle"]
      BY DEF StartSteps, ExitSteps, LoadAction, LoadFails, RegisterAction, RejectNotPending,
             CancelledBeforeStart, MarkStarting, createAPIkey, AccessLost, MarkProcessing,
             LaunchContainer, StartFails, RegisterContainer, CaptureInfo, AwaitExit,
             InspectFails, MarkStopping, ReadBackFails, ResolveVerdict, WriteVerdict,
             SkipArtifacts, StartUpload, FinishUpload, UploadThrows, Catch, DisposeKey,
             JobCompleted, JobFailed, Goto
    <3> QED BY <1>1, <1>3, <3>1
  <2>2. CASE WriteVerdict(w)
    <3>1. VerdictRow(a, verdict[w]).state \in TERMINAL_ACTION_STATES
      BY <1>1, RowStates
    <3> QED BY <1>1, <1>3, <2>1, <2>2, <3>1
            DEF WriteVerdict, Update, Unfinished, Exists, isTerminalActionState
  <2>3. CASE CancelledBeforeStart(w)
    <3>1. [row[a] EXCEPT !.state = "CANCELLED"].state = "CANCELLED"
      BY <1>1 DEF Row
    <3> QED BY <1>1, <1>3, <2>1, <2>3, <3>1, FinalStates
            DEF CancelledBeforeStart, Update, Unfinished, Exists, isTerminalActionState
  <2>4. CASE ~WriteVerdict(w) /\ ~CancelledBeforeStart(w)
    <3>1. pc[w] \in {"ended", "uploading", "disposing"}
      <4>1. CASE StartSteps(w)
        BY <1>1, <1>3, <2>4, <4>1
           DEF StartSteps, LoadAction, LoadFails, RegisterAction, RejectNotPending,
               MarkStarting, createAPIkey, AccessLost, MarkProcessing, LaunchContainer,
               StartFails, RegisterContainer, Goto
      <4>2. CASE ExitSteps(w)
        BY <1>1, <1>3, <2>4, <4>2
           DEF ExitSteps, CaptureInfo, AwaitExit, InspectFails, MarkStopping, ReadBackFails,
               ResolveVerdict, SkipArtifacts, StartUpload, FinishUpload, UploadThrows, Catch,
               DisposeKey, JobCompleted, JobFailed, Goto
      <4> QED BY <4>1, <4>2
    <3>2. ~OnTheWay(w, row'[a].state)
      BY <3>1 DEF OnTheWay, MarkStarting, MarkProcessing, MarkStopping, Goto
    <3>3. row'[a].state \in {row[a].state} \cup TERMINAL_ACTION_STATES
      BY <1>3, <3>2, PipelineRows
    <3>4. ~Unfinished(a)
      BY <1>3, <3>1 DEF VerdictWritten
    <3> QED BY <2>1, <3>3, <3>4, FinalFinishes
  <2> QED BY <2>2, <2>3, <2>4
<1> QED BY <1>1, <1>2, <1>3 DEF VerdictWritten, Unfinished, Exists

\* The steps of the others leave a final row final, or delete it.
LEMMA VerdictFrame ==
    ASSUME TypeOK, BusyHasAction, VerdictWritten, FinalOnly,
           \A v \in Workers : \/ pc'[v] \notin {"ended", "uploading", "disposing", "succeeded"}
                              \/ pc'[v] = pc[v] /\ cur'[v] = cur[v]
    PROVE  VerdictWritten'
<1> SUFFICES ASSUME NEW v \in Workers,
                    pc'[v] \in {"ended", "uploading", "disposing", "succeeded"}
             PROVE  ~Unfinished(cur[v])' /\ cur'[v] = cur[v]
  BY DEF VerdictWritten, Unfinished, Exists
<1>1. pc'[v] = pc[v] /\ cur'[v] = cur[v] /\ cur[v] \in Actions /\ ~Unfinished(cur[v])
  BY DEF VerdictWritten, BusyHasAction
<1>2. ASSUME NEW a \in Actions, a = cur[v]
      PROVE  ~Unfinished(a)'
  BY <1>1, <1>2, FinalFinishes DEF FinalOnly
<1> QED BY <1>1, <1>2 DEF Unfinished, Exists

\* Who lets go of an action that is not lost leaves its row final, or deleted.
LEMMA DroppedIsOver ==
    ASSUME TypeInv, VerdictWritten, NEW a \in Actions \ Lost', Dropped(a)
    PROVE  ~Unfinished(a)'
<1>1. /\ row \in [Actions -> Row]
      /\ hook \in [Workers -> [Actions -> HookEntry]]
      /\ dead \in [Workers -> [Actions -> DeadEntry]]
      /\ row[a].worker \in Workers \cup {NoWorker}
      /\ TypeOK /\ BusyHasAction
  BY DEF TypeInv, TypeOK, StoreTypeOK, RunnerTypeOK, HookEntry, DispatcherTypeOK, DeadEntry, Row
<1>2. ASSUME NEW new, Update(a, new), new.state \in TERMINAL_ACTION_STATES
      PROVE  ~Unfinished(a)'
  BY <1>1, <1>2 DEF Update, Unfinished, Exists, isTerminalActionState
<1>3. ASSUME row' = row, ~Unfinished(a)
      PROVE  ~Unfinished(a)'
  BY <1>3 DEF Unfinished, Exists
<1>4. CASE RejectAction(a)
  <2>1. Unprocessable(row[a]).state = "UNPROCESSABLE"
    BY <1>1, RowStates
  <2> QED BY <1>2, <1>4, <2>1, FinalStates DEF RejectAction
<1>5. CASE StopPublish(a) /\ job'[a] # job[a]
  BY <1>3, <1>5 DEF StopPublish, Lost
<1>6. ASSUME NEW w \in Workers,
             SaveEntity(a, Unprocessable([dead[w][a].entity EXCEPT !.worker = row[a].worker]))
      PROVE  ~Unfinished(a)'
  <2> DEFINE e == [dead[w][a].entity EXCEPT !.worker = row[a].worker]
  <2>1. dead[w][a].entity \in Row
    BY <1>1 DEF DeadEntry
  <2>2. e \in Row
    BY <1>1, <2>1, RowEdits
  <2>3. Unprocessable(e).state = "UNPROCESSABLE"
    BY <1>1, <2>2, RowStates
  <2> HIDE DEF e
  <2> QED BY <1>2, <1>6, <2>3, FinalStates DEF SaveEntity, e
<1>7. ASSUME NEW w \in Workers, JobCompleted(w), cur[w] = a
      PROVE  ~Unfinished(a)'
  BY <1>3, <1>7 DEF JobCompleted, Settle, Goto, VerdictWritten
<1>8. ASSUME NEW w \in Workers, HookRead(w, a), ~Exists(a)
      PROVE  ~Unfinished(a)'
  BY <1>3, <1>8 DEF HookRead, Unfinished
<1>9. ASSUME NEW w \in Workers, handleUnexpectedError(w, a)
      PROVE  ~Unfinished(a)'
  <2> DEFINE e == UnexpectedError(hook[w][a].entity)
             new == [e EXCEPT !.worker = row[a].worker]
  <2>1. hook[w][a].entity \in Row
    BY <1>1 DEF HookEntry
  <2>2. e \in Row /\ e.state = "FAILED"
    BY <1>1, <2>1, RowHelpers, RowStates
  <2>3. Update(a, new)
    BY <1>9 DEF handleUnexpectedError, SaveEntity
  <2> HIDE DEF e
  <2>4. new.state = "FAILED"
    BY <1>1, <2>2, EditStates
  <2> HIDE DEF new
  <2> QED BY <1>2, <2>3, <2>4, FinalStates
<1> QED BY <1>4, <1>5, <1>6, <1>7, <1>8, <1>9 DEF Dropped

\* Only its dispatch and its consumer make an action unfinished, and they care for it.
LEMMA UnfinishedIsCared ==
    ASSUME TypeInv, HandoverInv, [Next]_vars, NEW a \in Actions, Unfinished(a)'
    PROVE  Unfinished(a) \/ Cared(a)'
<1>1. TypeOK /\ BusyHasAction /\ row \in [Actions -> Row] /\ disp \in [Actions -> DispEntry]
  BY DEF TypeInv, TypeOK, StoreTypeOK, DispatcherTypeOK, DispEntry
<1>2. ASSUME row'[a] = row[a]
      PROVE  Unfinished(a)
  BY <1>2 DEF Unfinished, Exists
<1>3. ASSUME NEW w \in Workers, StartSteps(w) \/ ExitSteps(w)
      PROVE  Unfinished(a) \/ Cared(a)'
  <2>1. CASE cur[w] # a
    BY <1>1, <1>2, <1>3, <2>1, PipelineRows
  <2>2. CASE cur[w] = a
    <3>1. JobCompleted(w) => row'[a] = row[a]
      BY DEF JobCompleted, Settle
    <3> QED BY <1>1, <1>2, <1>3, <2>2, <3>1, JobCares
  <2> QED BY <2>1, <2>2
<1>4. ASSUME NEW w \in Workers, NEW b \in Actions, TakeJob(w, b) \/ DeliverCancel(w, b)
      PROVE  Unfinished(a)
  BY <1>2, <1>4 DEF TakeJob, DeliverCancel, storeVars
<1>5. ASSUME NEW w \in Workers, Crash(w) \/ Restart(w)
      PROVE  Unfinished(a)
  BY <1>2, <1>5 DEF Crash, CrashRunner, Restart, registerRunner
<1>6. CASE Bystander
  <2>1. FinalOnly => Unfinished(a)
    BY FinalFinishes DEF FinalOnly
  <2>2. ASSUME NEW b \in Actions, SaveAction(b)
        PROVE  Unfinished(a) \/ Cared(a)'
    <3>1. b # a => row'[a] = row[a]
      BY <1>1, <2>2 DEF SaveAction
    <3>2. b = a => disp'[a].pc = "choose"
      BY <1>1, <2>2 DEF SaveAction, DispEntry
    <3> QED BY <1>2, <3>1, <3>2 DEF Cared
  <2> QED BY <1>6, <2>1, <2>2 DEF Bystander
<1> QED BY <1>3, <1>4, <1>5, <1>6, StepKinds

LEMMA VerdictStep ==
    ASSUME TypeInv, HandoverInv, VerdictWritten, [Next]_vars
    PROVE  VerdictWritten'
<1>1. /\ TypeOK /\ BusyHasAction
      /\ pc \in [Workers -> RunnerPc]
      /\ cur \in [Workers -> Actions \cup {NoAction}]
  BY DEF TypeInv, TypeOK, RunnerTypeOK
<1>2. ASSUME NEW w \in Workers, StartSteps(w) \/ ExitSteps(w)
      PROVE  VerdictWritten'
  BY <1>1, <1>2, VerdictPipeline
<1>3. ASSUME NEW w \in Workers, NEW a \in Actions, TakeJob(w, a) \/ DeliverCancel(w, a)
      PROVE  VerdictWritten'
  <2>1. row' = row
    BY <1>3 DEF TakeJob, DeliverCancel, storeVars
  <2> QED BY <1>1, <1>3, <2>1, VerdictFrame, RowsSame DEF TakeJob, DeliverCancel, Goto
<1>4. ASSUME NEW w \in Workers, Crash(w) \/ Restart(w)
      PROVE  VerdictWritten'
  <2>1. row' = row
    BY <1>4 DEF Crash, CrashRunner, Restart, registerRunner
  <2> QED BY <1>1, <1>4, <2>1, VerdictFrame, RowsSame
          DEF Crash, CrashRunner, Restart, registerRunner, runnerVars
<1>5. CASE Bystander
  <2>1. UNCHANGED <<pc, cur>>
    BY <1>5 DEF Bystander
  <2>2. CASE FinalOnly
    BY <1>1, <2>1, <2>2, VerdictFrame
  <2>3. ASSUME NEW a \in Actions, SaveAction(a)
        PROVE  VerdictWritten'
    <3>1. \A w \in Workers : pc[w] # "idle" => cur[w] # a
      BY <2>3 DEF SaveAction, HandoverInv, QueuedByDispatch, WorkerHoldsJob, Works, HoldsLock
    <3>2. \A b \in Actions \ {a} : row'[b] = row[b]
      BY <1>1, <2>3 DEF SaveAction, TypeOK, StoreTypeOK
    <3> QED BY <1>1, <2>1, <3>1, <3>2 DEF VerdictWritten, Unfinished, Exists, BusyHasAction
  <2> QED BY <1>5, <2>2, <2>3 DEF Bystander
<1> QED BY <1>2, <1>3, <1>4, <1>5, StepKinds

LEMMA OrphanStep ==
    ASSUME TypeInv, HandoverInv, OrphanInv, [Next]_vars
    PROVE  OrphanInv'
<1>1. QuietHealth' /\ \A a \in Actions : CareKept(a)
  BY CareEnds DEF OrphanInv
<1>2. VerdictWritten'
  BY VerdictStep DEF OrphanInv
<1>3. ASSUME NEW a \in Actions \ Lost', Unfinished(a)'
      PROVE  Cared(a)'
  <2>1. CASE Unfinished(a)
    <3>1. Cared(a)
      BY <2>1, LostStays DEF OrphanInv, AllCared, CaredUnlessLost
    <3> QED BY <1>1, <1>3, <3>1, DroppedIsOver DEF CareKept, OrphanInv
  <2>2. CASE ~Unfinished(a)
    BY <1>3, <2>2, UnfinishedIsCared
  <2> QED BY <2>1, <2>2
<1>4. AllCared'
  BY <1>3 DEF AllCared, CaredUnlessLost
<1> QED BY <1>1, <1>2, <1>4 DEF OrphanInv

LEMMA OrphanInit == ASSUME Init PROVE OrphanInv
<1>1. \A a \in Actions : row[a].state = "ABSENT"
  BY DEF Init, StoreInit, AbsentRow
<1>2. \A w \in Workers : pc[w] = "idle"
  BY DEF Init, RunnerInit
<1>3. \A w \in Workers, a \in Actions : dead[w][a].pc = "none"
  BY DEF Init, DispatcherInit, NoDeadJob
<1> QED BY <1>1, <1>2, <1>3
        DEF OrphanInv, AllCared, CaredUnlessLost, VerdictWritten, QuietHealth, Unfinished, Exists

\* Somebody is always bound to finish an unfinished action (its dispatch, its job,
\* a health check, a hook or a consumer), for any number of workers, crashes and
\* cancellations, unless the code loses its job in one of the windows that
\* lostHooks and lostJobs record.
THEOREM NobodyIsOrphaned == Spec => []NoOrphanedAction
<1>1. Init => OrphanInv
  BY OrphanInit
<1>2. TypeInv /\ HandoverInv /\ OrphanInv /\ [Next]_vars => OrphanInv'
  BY OrphanStep
<1>3. Spec => [](TypeInv /\ HandoverInv /\ OrphanInv)
  BY <1>1, <1>2, TypeInvInit, TypeInvStep, HandoverInit, HandoverStep, PTL DEF Spec
<1>4. OrphanInv => NoOrphanedAction
  BY OrphanSafe
<1> QED BY <1>3, <1>4, PTL
-----------------------------------------------------------------------------
(* Which worker a row names.                                               *)

\* The worker an edited row names.
LEMMA EditWorkers ==
    ASSUME NEW r \in Row
    PROVE  /\ \A w \in Workers \cup {NoWorker} : [r EXCEPT !.worker = w].worker = w
           /\ \A s \in ActionState : [r EXCEPT !.state = s].worker = r.worker
           /\ \A x \in {"AWAITING", "UPLOADING", "UPLOADED", "ERROR"} :
                /\ [r EXCEPT !.artifacts = x].worker = r.worker
                /\ [r EXCEPT !.ended = TRUE, !.artifacts = x].worker = r.worker
           /\ Unprocessable(r).worker = r.worker
           /\ UnexpectedError(r).worker = r.worker
<1>1. \A w \in Workers \cup {NoWorker} : [r EXCEPT !.worker = w].worker = w
  BY DEF Row
<1>2. \A s \in ActionState : [r EXCEPT !.state = s].worker = r.worker
  BY DEF Row
<1>3. \A x \in {"AWAITING", "UPLOADING", "UPLOADED", "ERROR"} :
        /\ [r EXCEPT !.artifacts = x].worker = r.worker
        /\ [r EXCEPT !.ended = TRUE, !.artifacts = x].worker = r.worker
  BY DEF Row
<1>4. Unprocessable(r).worker = r.worker /\ UnexpectedError(r).worker = r.worker
  BY DEF Row, Unprocessable, UnexpectedError
<1> QED BY <1>1, <1>2, <1>3, <1>4

LEMMA RowWorkers ==
    ASSUME NEW a \in Actions, row \in [Actions -> Row]
    PROVE  /\ \A o \in ActionFailureOrigin : FailedRow(a, o).worker = row[a].worker
           /\ \A s \in ActionSeverity : RaiseSeverity(a, s).worker = row[a].worker
           /\ UploadFailed(a).worker = row[a].worker
           /\ \A v \in Verdict : VerdictRow(a, v).worker = row[a].worker
<1>1. row[a] \in Row
  OBVIOUS
<1>2. \A o \in ActionFailureOrigin : FailedRow(a, o).worker = row[a].worker
  BY <1>1 DEF FailedRow, Row
<1>3. \A s \in ActionSeverity : RaiseSeverity(a, s).worker = row[a].worker
  BY <1>1 DEF RaiseSeverity, Row
<1>4. UploadFailed(a).worker = row[a].worker
  <2>1. RaiseSeverity(a, "WARNING") \in Row /\ RaiseSeverity(a, "WARNING").worker = row[a].worker
    BY <1>3, RowHelpers DEF ActionSeverity
  <2> QED BY <2>1, EditWorkers DEF UploadFailed
<1>5. \A v \in Verdict : VerdictRow(a, v).worker = row[a].worker
  BY <1>1 DEF VerdictRow, Row
<1> QED BY <1>2, <1>3, <1>4, <1>5

\* A row is there only if it was, and names the worker it named.
NamesKept(a) == Exists(a)' => Exists(a) /\ row'[a].worker = row[a].worker

AllNamesKept == \A a \in Actions : NamesKept(a)

LEMMA NamesSame == ASSUME row' = row PROVE AllNamesKept
BY DEF AllNamesKept, NamesKept, Exists

LEMMA UpdateNames ==
    ASSUME row \in [Actions -> Row], NEW a, NEW new, Update(a, new),
           a \in Actions => new.worker = row[a].worker
    PROVE  AllNamesKept
BY DEF AllNamesKept, NamesKept, Update, Exists

\* Others than the owner of a row rarely change the worker it names.
LEMMA DispatcherNames ==
    ASSUME TypeOK, DispatcherNext, NEW a \in Actions
    PROVE  \/ NamesKept(a)
           \/ StopSave(a)
           \/ disp[a].pc # "queued" /\ disp'[a].pc # "new"
           \/ \E w \in Workers : dead[w][a].pc = "removed"
<1>1. /\ row \in [Actions -> Row] /\ disp \in [Actions -> DispEntry]
      /\ Diagnostics \subseteq ActionSeverity
  BY DispatcherAssumption DEF TypeOK, StoreTypeOK, DispatcherTypeOK, DispEntry
<1>2. ASSUME NEW b \in Actions, \A c \in Actions \ {b} : row'[c] = row[c],
             b = a => \/ StopSave(a)
                      \/ disp[a].pc # "queued" /\ disp'[a].pc # "new"
                      \/ \E w \in Workers : dead[w][a].pc = "removed"
      PROVE  \/ NamesKept(a)
             \/ StopSave(a)
             \/ disp[a].pc # "queued" /\ disp'[a].pc # "new"
             \/ \E w \in Workers : dead[w][a].pc = "removed"
  BY <1>2 DEF NamesKept, Exists
<1>3. ASSUME AllNamesKept PROVE NamesKept(a)
  BY <1>3 DEF AllNamesKept
<1>4. \A b \in Actions : \A new : Update(b, new) => \A c \in Actions \ {b} : row'[c] = row[c]
  BY <1>1 DEF Update
<1>5. ASSUME NEW b \in Actions,
             SaveAction(b) \/ ChooseWorker(b) \/ NoWorkerFound(b)
      PROVE  /\ \A c \in Actions \ {b} : row'[c] = row[c]
             /\ disp[b].pc # "queued" /\ disp'[b].pc # "new"
  <2>1. \A c \in Actions \ {b} : row'[c] = row[c]
    BY <1>1, <1>4, <1>5 DEF SaveAction, ChooseWorker, NoWorkerFound
  <2>2. disp[b] \in DispEntry
    BY <1>1
  <2>3. disp[b].pc # "queued"
    BY <1>5 DEF SaveAction, ChooseWorker, NoWorkerFound
  <2>4. disp'[b].pc \in {"choose", "add", "add2", "refresh", "failed"}
    <3>1. CASE SaveAction(b)
      BY <1>1, <2>2, <3>1 DEF SaveAction, DispEntry
    <3>2. CASE ChooseWorker(b)
      BY <1>1, <2>2, <3>2 DEF ChooseWorker, DispEntry
    <3>3. CASE NoWorkerFound(b)
      BY <1>1, <2>2, <3>3 DEF NoWorkerFound, DispEntry
    <3> QED BY <1>5, <3>1, <3>2, <3>3
  <2> QED BY <2>1, <2>3, <2>4
<1>6. ASSUME NEW b \in Actions, StopSave(b)
      PROVE  \A c \in Actions \ {b} : row'[c] = row[c]
  BY <1>4, <1>6 DEF StopSave, SaveEntity
<1>7. ASSUME NEW w \in Workers, NEW b \in Actions, ChooseNewWorker(w, b)
      PROVE  (\A c \in Actions \ {b} : row'[c] = row[c]) /\ dead[w][b].pc = "removed"
  BY <1>4, <1>7 DEF ChooseNewWorker, SaveEntity
<1>8. ASSUME NEW b \in Actions, RejectAction(b) PROVE AllNamesKept
  BY <1>1, <1>8, EditWorkers, UpdateNames DEF RejectAction
<1>9. ASSUME NEW b \in Actions, NEW s \in Diagnostics, RecordDiagnostic(b, s) PROVE AllNamesKept
  BY <1>1, <1>9, RowWorkers DEF RecordDiagnostic, AllNamesKept, NamesKept, Exists
<1>10. ASSUME NEW b \in Actions, DeleteAction(b) PROVE AllNamesKept
  BY <1>1, <1>10 DEF DeleteAction, AllNamesKept, NamesKept, Exists, AbsentRow
<1>11. ASSUME NEW b \in Actions,
              \/ AddJob(b) \/ AddJobFails(b) \/ RefreshAndRetry(b) \/ Cancel(b) \/ StopRead(b)
              \/ StopPublish(b)
       PROVE  AllNamesKept
  BY <1>11, NamesSame
     DEF AddJob, AddJobFails, RefreshAndRetry, Cancel, StopRead, StopPublish, storeVars
<1>12. ASSUME HealthCheckNext, \A w \in Workers, b \in Actions : ~ChooseNewWorker(w, b)
       PROVE  AllNamesKept
  BY <1>12, NamesSame
     DEF HealthCheckNext, DetectDeadWorker, ReadDeadJob, RemoveDeadJob, RequeueJob,
         RequeueLosesJob, FinishHealthCheck, OpenQueues, storeVars
<1>13. CASE \E b \in Actions : SaveAction(b) \/ ChooseWorker(b) \/ NoWorkerFound(b)
  BY <1>2, <1>5, <1>13
<1>14. CASE \E b \in Actions : StopSave(b)
  BY <1>2, <1>6, <1>14
<1>15. CASE \E w \in Workers, b \in Actions : ChooseNewWorker(w, b)
  BY <1>2, <1>7, <1>15
<1> QED
  BY <1>3, <1>8, <1>9, <1>10, <1>11, <1>12, <1>13, <1>14, <1>15
     DEF DispatcherNext, DispatchNext, StopNext

LEMMA PipelineNames ==
    ASSUME TypeOK, BusyHasAction, NEW w \in Workers, StartSteps(w) \/ ExitSteps(w),
           NEW a \in Actions
    PROVE  \/ NamesKept(a)
           \/ LoadAction(w) /\ cur[w] = a /\ row'[a].worker = w
<1> DEFINE old == row[cur[w]]
<1>1. row \in [Actions -> Row] /\ cur[w] \in Actions /\ old \in Row
  BY PipelineBusy DEF TypeOK, StoreTypeOK
<1>2. {"CANCELLED", "STARTING", "PROCESSING", "STOPPING"} \subseteq ActionState
  BY DEF ActionState, TERMINAL_ACTION_STATES, CANCELLABLE_ACTION_STATES
<1>3. \A s \in {"CANCELLED", "STARTING", "PROCESSING", "STOPPING"} :
          [old EXCEPT !.state = s].worker = old.worker
  BY <1>1, <1>2, EditWorkers
<1>4. CASE LoadAction(w)
  <2>1. [old EXCEPT !.worker = w].worker = w
    BY <1>1, EditWorkers
  <2>2. row' = [row EXCEPT ![cur[w]] = [old EXCEPT !.worker = w]]
    BY <1>4 DEF LoadAction, Update
  <2> QED BY <1>1, <1>4, <2>1, <2>2 DEF NamesKept, Exists
<1>5. SUFFICES ASSUME ~LoadAction(w)
               PROVE  row' = row \/ \E new : Update(cur[w], new) /\ new.worker = old.worker
  BY <1>1, <1>4, NamesSame, UpdateNames DEF AllNamesKept
<1> HIDE DEF old
<1>6. CASE CancelledBeforeStart(w) \/ MarkStarting(w) \/ MarkProcessing(w) \/ MarkStopping(w)
  BY <1>3, <1>6 DEF CancelledBeforeStart, MarkStarting, MarkProcessing, MarkStopping, old
<1>7. CASE WriteVerdict(w)
  <2>1. verdict[w] \in Verdict
    BY DEF TypeOK, RunnerTypeOK
  <2> QED BY <1>1, <1>7, <2>1, RowWorkers DEF WriteVerdict, old
<1>8. CASE SkipArtifacts(w) \/ StartUpload(w)
  BY <1>1, <1>8, EditWorkers DEF SkipArtifacts, StartUpload, old
<1>9. CASE FinishUpload(w)
  BY <1>1, <1>9, EditWorkers, RowWorkers DEF FinishUpload, old
<1>10. CASE Catch(w)
  BY <1>1, <1>3, <1>10, RowWorkers DEF Catch, ActionFailureOrigin, old
<1>11. CASE \/ LoadFails(w) \/ RegisterAction(w) \/ RejectNotPending(w) \/ createAPIkey(w)
            \/ AccessLost(w) \/ LaunchContainer(w) \/ StartFails(w) \/ RegisterContainer(w)
            \/ CaptureInfo(w) \/ AwaitExit(w) \/ InspectFails(w) \/ ReadBackFails(w)
            \/ ResolveVerdict(w) \/ UploadThrows(w) \/ DisposeKey(w)
            \/ JobCompleted(w) \/ JobFailed(w)
  BY <1>11
     DEF LoadFails, RegisterAction, RejectNotPending, createAPIkey, AccessLost, LaunchContainer,
         StartFails, RegisterContainer, CaptureInfo, AwaitExit, InspectFails, ReadBackFails,
         ResolveVerdict, UploadThrows, DisposeKey, JobCompleted, JobFailed, Settle, storeVars
<1> QED
  BY <1>5, <1>6, <1>7, <1>8, <1>9, <1>10, <1>11 DEF StartSteps, ExitSteps

LEMMA QueueNames ==
    ASSUME TypeOK, NEW w \in Workers, NEW a \in Actions, QueueSteps(w, a)
    PROVE  AllNamesKept
<1>1. /\ row \in [Actions -> Row]
      /\ hook[w][a].entity \in Row
      /\ row[a].worker \in Workers \cup {NoWorker}
  BY DEF TypeOK, StoreTypeOK, RunnerTypeOK, Row
<1>2. CASE markJobAsCompleted(w, a)
  <2> DEFINE s == resolveCompletedActionState(hook[w][a].entity.state)
             e == [hook[w][a].entity EXCEPT !.state = s, !.worker = row[a].worker]
  <2>1. e.worker = row[a].worker
    BY <1>1 DEF Row
  <2>2. row' = row \/ Update(a, e)
    BY <1>2 DEF markJobAsCompleted, SaveEntity
  <2> HIDE DEF e
  <2> QED BY <1>1, <2>1, <2>2, NamesSame, UpdateNames
<1>3. CASE handleUnexpectedError(w, a)
  <2> DEFINE e == [UnexpectedError(hook[w][a].entity) EXCEPT !.worker = row[a].worker]
  <2>1. e.worker = row[a].worker
    BY <1>1, RowHelpers, EditWorkers
  <2>2. Update(a, e)
    BY <1>3 DEF handleUnexpectedError, SaveEntity
  <2> HIDE DEF e
  <2> QED BY <1>1, <2>1, <2>2, UpdateNames
<1>4. CASE \/ HookRead(w, a) \/ HookThrows(w, a) \/ PromoteDelayed(w, a) \/ StalledJob(w, a)
           \/ StalledTwice(w, a)
  BY <1>4, NamesSame
     DEF HookRead, HookThrows, PromoteDelayed, StalledJob, StalledTwice, storeVars
<1> QED BY <1>2, <1>3, <1>4 DEF QueueSteps

LEMMA JanitorNames ==
    ASSUME TypeOK, JanitorNext
    PROVE  AllNamesKept
<1>1. row \in [Actions -> Row] /\ {"USER", "SYSTEM"} \subseteq ActionFailureOrigin
  BY DEF TypeOK, StoreTypeOK, ActionFailureOrigin
<1>2. ASSUME NEW a, NEW o \in ActionFailureOrigin, Update(a, FailedRow(a, o))
      PROVE  AllNamesKept
  BY <1>1, <1>2, RowWorkers, UpdateNames
<1>3. ASSUME NEW w \in Workers, MarkTimedOut(w) \/ MarkInterrupted(w)
      PROVE  AllNamesKept
  BY <1>1, <1>2, <1>3 DEF MarkTimedOut, MarkInterrupted, markActionAsFailed
<1>4. ASSUME NEW w \in Workers, NEW c \in Runners \X Actions, MarkZombie(w, c)
      PROVE  AllNamesKept
  <2>1. Update(c[2], FailedRow(c[2], "SYSTEM"))
    BY <1>4 DEF MarkZombie, Zombie, Update
  <2> QED BY <1>1, <1>2, <2>1
<1>5. ASSUME NEW w \in Workers, NEW a \in Actions, MarkCrashed(w, a)
      PROVE  AllNamesKept
  BY <1>1, <1>2, <1>5 DEF MarkCrashed
<1>6. ASSUME NEW w \in Workers,
             \/ ListContainers(w) \/ ReadActive(w) \/ DetectCrashed(w) \/ FinishPass(w)
             \/ KillZombie(w)
             \/ \E c \in Runners \X Actions : LeaveAlone(w, c) \/ KillFirst(w, c)
      PROVE  AllNamesKept
  BY <1>6, NamesSame
     DEF ListContainers, ReadActive, DetectCrashed, FinishPass, KillZombie, LeaveAlone,
         KillFirst, storeVars
<1>7. ASSUME NEW r \in Runners, RunnerGoesInactive(r)
      PROVE  AllNamesKept
  BY <1>7, NamesSame DEF RunnerGoesInactive, storeVars
<1> QED
  BY <1>3, <1>4, <1>5, <1>6, <1>7 DEF JanitorNext, performReconciliation, Sweep

\* Who may change the worker a row names, or insert the row.
LEMMA NamesChange ==
    ASSUME TypeInv, [Next]_vars, NEW a \in Actions
    PROVE  \/ NamesKept(a)
           \/ \E w \in Workers : LoadAction(w) /\ cur[w] = a /\ row'[a].worker = w
           \/ DispatcherNext /\ UNCHANGED runnerVars
              /\ \/ StopSave(a)
                 \/ disp[a].pc # "queued" /\ disp'[a].pc # "new"
                 \/ \E w \in Workers : dead[w][a].pc = "removed"
<1>1. TypeOK /\ BusyHasAction
  BY DEF TypeInv
<1>2. ASSUME AllNamesKept PROVE NamesKept(a)
  BY <1>2 DEF AllNamesKept
<1>3. CASE StoreNext
  BY <1>2, <1>3, NamesSame DEF StoreNext, ContainerExit, DockerRemove, RuntimeExpires
<1>4. CASE DispatcherNext /\ UNCHANGED <<runnerVars, janitorVars>>
  BY <1>1, <1>4, DispatcherNames
<1>5. ASSUME NEW w \in Workers,
             \/ ProcessNext(w)
             \/ \E b \in Actions : DeliverCancel(w, b) \/ QueueSteps(w, b)
      PROVE  NamesKept(a) \/ (LoadAction(w) /\ cur[w] = a /\ row'[a].worker = w)
  <2>1. CASE \E b \in Actions : TakeJob(w, b) \/ DeliverCancel(w, b)
    BY <1>2, <2>1, NamesSame DEF TakeJob, DeliverCancel
  <2> QED BY <1>1, <1>2, <1>5, <2>1, PipelineNames, QueueNames DEF ProcessNext
<1>6. CASE JanitorNext
  BY <1>1, <1>2, <1>6, JanitorNames
<1>7. CASE \E w \in Workers : Crash(w) \/ Restart(w)
  BY <1>2, <1>7, NamesSame DEF Crash, CrashRunner, Restart, registerRunner
<1>8. CASE UNCHANGED vars
  BY <1>2, <1>8, NamesSame DEF vars, storeVars
<1> QED BY <1>3, <1>4, <1>5, <1>6, <1>7, <1>8 DEF Next, RunnerNext
-----------------------------------------------------------------------------
(* Healthy runs. *)

\* A worker that is going to run a, or is running it.
Runs(w, a) ==
    /\ Works(w, a)
    /\ \/ pc[w] \in {"starting", "keyed", "processing", "launched", "attached", "waiting"}
       \/ pc[w] \in {"loaded", "registered"} /\ loaded[w] = "PENDING"

\* Nobody can start a any more: it is not PENDING, and was dispatched.
Begun(a) == row[a].state # "PENDING" /\ disp[a].pc # "new"

\* Where the pipeline knows that its action is not PENDING.
Past(w) ==
    /\ pc[w] \notin {"idle", "fetched"}
    /\ ~(pc[w] \in {"loaded", "registered"} /\ loaded[w] = "PENDING")

\* A consumer that was told so, or is past its start, has an action that is not PENDING.
EndsOver == \A w \in Workers : Past(w) => row[cur[w]].state # "PENDING"

\* Bull's lock keeps others away from an action that is in a worker's hands.
LEMMA InHands ==
    ASSUME HandoverInv, NEW w \in Workers, NEW a \in Actions, Works(w, a)
    PROVE  /\ disp[a].pc = "queued"
           /\ \A v \in Workers : dead[v][a].pc # "removed"
           /\ \A v \in Workers : Works(v, a) => v = w
<1>1. job[a].st = "active" /\ job[a].q = w
  BY DEF HandoverInv, WorkerHoldsJob, HoldsLock
<1> QED BY <1>1 DEF HandoverInv, WorkerHoldsJob, HoldsLock, QueuedByDispatch, MovedFromDead

\* A worker comes to run an action by loading it while it is PENDING.
LEMMA RunsFrom ==
    ASSUME TypeInv, [Next]_vars, NEW w \in Workers, NEW a \in Actions, Runs(w, a)'
    PROVE  Runs(w, a) \/ (LoadAction(w) /\ cur[w] = a /\ row[a].state = "PENDING")
<1>1. /\ TypeOK /\ BusyHasAction
      /\ pc \in [Workers -> RunnerPc]
      /\ cur \in [Workers -> Actions \cup {NoAction}]
      /\ loaded \in [Workers -> ActionState]
  BY DEF TypeInv, TypeOK, RunnerTypeOK
<1>2. ASSUME pc'[w] = pc[w] /\ cur'[w] = cur[w] /\ loaded'[w] = loaded[w]
      PROVE  Runs(w, a)
  BY <1>2 DEF Runs, Works
<1>3. ASSUME NEW v \in Workers, StartSteps(v) \/ ExitSteps(v), v # w
      PROVE  Runs(w, a)
  BY <1>1, <1>2, <1>3, PipelineLocal
<1>4. CASE LoadAction(w)
  BY <1>1, <1>4 DEF LoadAction, Goto, Runs, Works
<1>5. CASE StartSteps(w) /\ ~LoadAction(w)
  BY <1>1, <1>5
     DEF StartSteps, LoadFails, RegisterAction, RejectNotPending, CancelledBeforeStart, MayStart,
         MarkStarting, createAPIkey, AccessLost, MarkProcessing, LaunchContainer, StartFails,
         RegisterContainer, Goto, Runs, Works, storeVars
<1>6. CASE ExitSteps(w)
  <2>1. CASE JobCompleted(w) \/ JobFailed(w)
    BY <1>1, <2>1 DEF JobCompleted, JobFailed, Goto, Runs, Works
  <2>2. CASE CaptureInfo(w)
    BY <1>1, <2>2 DEF CaptureInfo, Goto, Runs, Works
  <2>3. CASE \/ AwaitExit(w) \/ InspectFails(w) \/ MarkStopping(w) \/ ReadBackFails(w)
             \/ ResolveVerdict(w) \/ WriteVerdict(w) \/ SkipArtifacts(w) \/ StartUpload(w)
             \/ FinishUpload(w) \/ UploadThrows(w) \/ Catch(w) \/ DisposeKey(w)
    BY <1>1, <2>3
       DEF AwaitExit, InspectFails, MarkStopping, ReadBackFails, ResolveVerdict, WriteVerdict,
           SkipArtifacts, StartUpload, FinishUpload, UploadThrows, Catch, DisposeKey, Goto,
           Runs, Works
  <2> QED BY <1>6, <2>1, <2>2, <2>3 DEF ExitSteps
<1>7. CASE \E v \in Workers, b \in Actions : TakeJob(v, b) \/ DeliverCancel(v, b)
  BY <1>1, <1>2, <1>7 DEF TakeJob, DeliverCancel, Goto, Runs, Works
<1>8. CASE \E v \in Workers : Crash(v) \/ Restart(v)
  BY <1>1, <1>2, <1>8 DEF Crash, CrashRunner, Restart, registerRunner, runnerVars, Runs, Works
<1>9. CASE Bystander
  BY <1>2, <1>9 DEF Bystander
<1> QED BY <1>3, <1>4, <1>5, <1>6, <1>7, <1>8, <1>9, StepKinds

\* An action that has begun does not become PENDING again.
LEMMA BegunStays ==
    ASSUME TypeInv, [Next]_vars, NEW a \in Actions
    PROVE  /\ disp'[a].pc = "new" => disp[a].pc = "new"
           /\ row'[a].state = "PENDING" => row[a].state = "PENDING" \/ disp[a].pc = "new"
<1>1. TypeOK /\ BusyHasAction /\ disp \in [Actions -> DispEntry] /\ row \in [Actions -> Row]
  BY DEF TypeInv, TypeOK, StoreTypeOK, DispatcherTypeOK, DispEntry
<1>2. disp'[a].pc = "new" => disp[a].pc = "new"
  <2>1. CASE disp' = disp
    BY <2>1
  <2>2. ASSUME NEW b \in Actions, SaveAction(b) \/ DispatchNext(b)
        PROVE  \E e : disp' = [disp EXCEPT ![b] = e] /\ e.pc # "new"
    <3>1. disp[b] \in DispEntry
      BY <1>1
    <3>2. \A p \in DispPc : [disp[b] EXCEPT !.pc = p].pc = p
      BY <3>1 DEF DispEntry
    <3>3. CASE SaveAction(b)
      BY <3>2, <3>3 DEF SaveAction, DispPc
    <3>4. CASE ChooseWorker(b)
      BY <3>4 DEF ChooseWorker
    <3>5. CASE NoWorkerFound(b) \/ AddJobFails(b)
      BY <3>2, <3>5 DEF NoWorkerFound, AddJobFails, DispPc
    <3>6. CASE AddJob(b) \/ RefreshAndRetry(b) \/ RejectAction(b)
      BY <3>2, <3>6 DEF AddJob, RefreshAndRetry, RejectAction, DispPc
    <3> QED BY <2>2, <3>3, <3>4, <3>5, <3>6 DEF DispatchNext
  <2>3. CASE \E b \in Actions : SaveAction(b) \/ DispatchNext(b)
    BY <1>1, <2>2, <2>3
  <2>4. CASE DispatcherNext /\ ~\E b \in Actions : SaveAction(b) \/ DispatchNext(b)
    <3>1. CASE HealthCheckNext
      BY ZenonT(60), <2>1, <3>1
         DEF HealthCheckNext, DetectDeadWorker, ReadDeadJob, RemoveDeadJob, ChooseNewWorker,
             RequeueJob, RequeueLosesJob, FinishHealthCheck, OpenQueues
    <3>2. CASE \E b \in Actions : \/ Cancel(b) \/ StopNext(b) \/ DeleteAction(b)
                                  \/ \E s \in Diagnostics : RecordDiagnostic(b, s)
      BY <2>1, <3>2
         DEF Cancel, StopNext, StopRead, StopSave, StopPublish, DeleteAction, RecordDiagnostic
    <3> QED BY <2>4, <3>1, <3>2 DEF DispatcherNext
  <2>5. CASE UNCHANGED dispatcherVars
    BY <2>1, <2>5 DEF dispatcherVars
  <2>6. CASE UNCHANGED vars
    BY <2>1, <2>6 DEF vars, dispatcherVars
  <2> QED BY <2>3, <2>4, <2>5, <2>6 DEF Next, Crash, Restart
<1>3. row'[a].state = "PENDING" => row[a].state = "PENDING" \/ disp[a].pc = "new"
  <2>1. CASE FinalOnly
    BY <2>1, FinalKeepsPending DEF PendingKept
  <2>2. CASE \E b \in Actions : SaveAction(b)
    BY <1>1, <2>2 DEF SaveAction
  <2>3. CASE \E w \in Workers : StartSteps(w) \/ ExitSteps(w)
    BY <1>1, <2>3, PipelinePending DEF PendingKept
  <2>4. CASE \/ \E w \in Workers, b \in Actions : TakeJob(w, b) \/ DeliverCancel(w, b)
             \/ \E w \in Workers : Crash(w) \/ Restart(w)
    BY <2>4 DEF TakeJob, DeliverCancel, Crash, CrashRunner, Restart, registerRunner
  <2> QED BY <2>1, <2>2, <2>3, <2>4, StepKinds DEF Bystander
<1> QED BY <1>2, <1>3

LEMMA EndsStep ==
    ASSUME TypeInv, HandoverInv, EndsOver, [Next]_vars
    PROVE  EndsOver'
<1>1. /\ TypeOK /\ BusyHasAction
      /\ pc \in [Workers -> RunnerPc]
      /\ cur \in [Workers -> Actions \cup {NoAction}]
      /\ loaded \in [Workers -> ActionState]
      /\ row \in [Actions -> Row]
  BY DEF TypeInv, TypeOK, StoreTypeOK, RunnerTypeOK
<1>2. ASSUME NEW w \in Workers, Past(w), cur'[w] = cur[w]
      PROVE  row'[cur'[w]].state # "PENDING"
  <2>1. cur[w] \in Actions /\ Works(w, cur[w])
    BY <1>1, <1>2 DEF BusyHasAction, Past, Works
  <2>2. disp[cur[w]].pc = "queued"
    BY <2>1, InHands
  <2> QED BY <1>2, <2>1, <2>2, BegunStays DEF EndsOver
<1>3. SUFFICES ASSUME NEW w \in Workers, Past(w)', ~(Past(w) /\ cur'[w] = cur[w])
               PROVE  row'[cur'[w]].state # "PENDING"
  BY <1>2 DEF EndsOver
<1>4. ASSUME pc'[w] = pc[w] /\ cur'[w] = cur[w] /\ loaded'[w] = loaded[w]
      PROVE  FALSE
  BY <1>3, <1>4 DEF Past
<1>5. ASSUME NEW v \in Workers, StartSteps(v) \/ ExitSteps(v), v # w
      PROVE  FALSE
  BY <1>1, <1>4, <1>5, PipelineLocal
<1>6. CASE LoadAction(w)
  <2>1. cur' = cur /\ cur[w] \in Actions /\ row[cur[w]].state # "PENDING"
    BY <1>1, <1>3, <1>6 DEF LoadAction, Goto, Past, BusyHasAction
  <2>2. [row[cur[w]] EXCEPT !.worker = w].state = row[cur[w]].state
    BY <1>1, <2>1, EditStates
  <2> QED BY <1>1, <1>6, <2>1, <2>2 DEF LoadAction, Update
<1>7. CASE LoadFails(w)
  BY <1>7 DEF LoadFails, Exists, storeVars
<1>8. CASE CancelledBeforeStart(w) \/ MarkStarting(w)
  <2>1. cur' = cur /\ cur[w] \in Actions
    BY <1>1, <1>8 DEF CancelledBeforeStart, MarkStarting, Goto, BusyHasAction
  <2>2. /\ [row[cur[w]] EXCEPT !.state = "CANCELLED"].state = "CANCELLED"
        /\ [row[cur[w]] EXCEPT !.state = "STARTING"].state = "STARTING"
    BY <1>1, <2>1 DEF Row
  <2> QED BY <1>1, <1>8, <2>1, <2>2 DEF CancelledBeforeStart, MarkStarting, Update, Exists
<1>9. CASE \/ RegisterAction(w) \/ RejectNotPending(w) \/ createAPIkey(w) \/ AccessLost(w)
           \/ MarkProcessing(w) \/ LaunchContainer(w) \/ StartFails(w) \/ RegisterContainer(w)
  BY <1>1, <1>3, <1>9
     DEF RegisterAction, RejectNotPending, createAPIkey, AccessLost, MarkProcessing, MayStart,
         LaunchContainer, StartFails, RegisterContainer, Goto, Past, storeVars
<1>10. CASE JobCompleted(w) \/ JobFailed(w)
  BY <1>1, <1>3, <1>10 DEF JobCompleted, JobFailed, Goto, Past
<1>11. CASE \/ CaptureInfo(w) \/ AwaitExit(w) \/ InspectFails(w) \/ MarkStopping(w)
            \/ ReadBackFails(w) \/ ResolveVerdict(w) \/ WriteVerdict(w) \/ SkipArtifacts(w)
            \/ StartUpload(w) \/ FinishUpload(w) \/ UploadThrows(w) \/ Catch(w)
            \/ DisposeKey(w)
  BY <1>1, <1>3, <1>11
     DEF CaptureInfo, AwaitExit, InspectFails, MarkStopping, ReadBackFails, ResolveVerdict,
         WriteVerdict, SkipArtifacts, StartUpload, FinishUpload, UploadThrows, Catch, DisposeKey,
         Goto, Past
<1>12. CASE \E v \in Workers, b \in Actions : TakeJob(v, b) \/ DeliverCancel(v, b)
  BY <1>1, <1>3, <1>4, <1>12 DEF TakeJob, DeliverCancel, Goto, Past
<1>13. CASE \E v \in Workers : Crash(v) \/ Restart(v)
  BY <1>1, <1>3, <1>4, <1>13 DEF Crash, CrashRunner, Restart, registerRunner, runnerVars, Past
<1>14. CASE Bystander
  BY <1>4, <1>14 DEF Bystander
<1> QED
  BY <1>5, <1>6, <1>7, <1>8, <1>9, <1>10, <1>11, <1>12, <1>13, <1>14, StepKinds
     DEF StartSteps, ExitSteps

\* What a worker's epoch says of the jobs in its queue: it crashed with a job that
\* is abandoned, and again with one that was abandoned and retried before.
Rounds ==
    \A w \in Workers, a \in Actions : job[a].q = w =>
        /\ job[a].st = "abandoned" /\ up[w] => epoch[w] >= 1
        /\ job[a].stalled => epoch[w] >= 1
        /\ job[a].stalled /\ job[a].st = "abandoned" /\ up[w] => epoch[w] >= 2

\* A step that abandons no job and retries no abandoned one.
JobSettles(a) ==
    \/ job'[a] = job[a]
    \/ /\ job'[a].st # "abandoned"
       /\ job'[a].stalled => job[a].stalled /\ job'[a].q = job[a].q

LEMMA JobEdit ==
    ASSUME job \in [Actions -> Job], NEW b, NEW new, job' = [job EXCEPT ![b] = new],
           b \in Actions => /\ new.st # "abandoned"
                            /\ new.stalled => job[b].stalled /\ new.q = job[b].q
    PROVE  \A a \in Actions : JobSettles(a)
BY DEF JobSettles

LEMMA JobsSettleDown ==
    ASSUME TypeInv, [Next]_vars,
           \A w \in Workers : ~Crash(w), \A w \in Workers, b \in Actions : ~StalledJob(w, b)
    PROVE  \A a \in Actions : JobSettles(a)
<1>1. /\ TypeOK /\ BusyHasAction
      /\ job \in [Actions -> Job]
  BY DEF TypeInv, TypeOK, StoreTypeOK
<1>2. /\ NoJob.st = "none" /\ NoJob.stalled = FALSE
      /\ \A w : WaitingJob(w).st = "waiting" /\ WaitingJob(w).stalled = FALSE
  BY DEF NoJob, WaitingJob
<1>3. ASSUME job' = job PROVE \A a \in Actions : JobSettles(a)
  BY <1>3 DEF JobSettles
<1>4. \A b \in Actions : \A s \in {"waiting", "active", "delayed", "failed"} :
        /\ [job[b] EXCEPT !.st = s].st = s
        /\ [job[b] EXCEPT !.st = s].stalled = job[b].stalled
        /\ [job[b] EXCEPT !.st = s].q = job[b].q
  BY <1>1 DEF Job
<1>5. CASE DispatcherNext
  <2>1. ASSUME NEW b \in Actions, AddJob(b) \/ StopPublish(b)
        PROVE  \A a \in Actions : JobSettles(a)
    BY <1>1, <1>2, <1>3, <2>1, JobEdit DEF AddJob, StopPublish
  <2>2. ASSUME NEW w \in Workers, NEW b \in Actions, RemoveDeadJob(w, b) \/ RequeueJob(w, b)
        PROVE  \A a \in Actions : JobSettles(a)
    <3>1. job' = [job EXCEPT ![b] = NoJob] \/ job' = [job EXCEPT ![b] = WaitingJob(dead[w][b].to)]
          \/ job' = job
      BY <1>1, <2>2 DEF RemoveDeadJob, RequeueJob
    <3> QED BY <1>1, <1>2, <1>3, <3>1, JobEdit
  <2>3. ASSUME NEW b \in Actions,
               \/ SaveAction(b) \/ ChooseWorker(b) \/ NoWorkerFound(b) \/ AddJobFails(b)
               \/ RefreshAndRetry(b) \/ RejectAction(b) \/ Cancel(b) \/ StopRead(b)
               \/ StopSave(b) \/ DeleteAction(b) \/ \E s \in Diagnostics : RecordDiagnostic(b, s)
        PROVE  job' = job
    BY <2>3 DEF SaveAction, ChooseWorker, NoWorkerFound, AddJobFails, RefreshAndRetry, Cancel,
                RejectAction, StopRead, StopSave, DeleteAction, RecordDiagnostic, storeVars
  <2>4. ASSUME HealthCheckNext,
               \A w \in Workers, b \in Actions : ~RemoveDeadJob(w, b) /\ ~RequeueJob(w, b)
        PROVE  job' = job
    BY <2>4 DEF HealthCheckNext, DetectDeadWorker, ReadDeadJob, ChooseNewWorker,
                RequeueLosesJob, FinishHealthCheck, OpenQueues, storeVars
  <2> QED BY <1>3, <1>5, <2>1, <2>2, <2>3, <2>4 DEF DispatcherNext, DispatchNext, StopNext
<1>6. ASSUME NEW w \in Workers, StartSteps(w) \/ ExitSteps(w)
      PROVE  \A a \in Actions : JobSettles(a)
  <2>1. cur[w] \in Actions
    BY <1>1, <1>6, PipelineBusy
  <2>2. CASE JobCompleted(w)
    BY <1>1, <1>2, <2>1, <2>2, JobEdit DEF JobCompleted, Settle
  <2>3. CASE JobFailed(w)
    BY <1>1, <1>4, <2>1, <2>3, JobEdit DEF JobFailed, Settle
  <2>4. CASE StartSteps(w)
    BY <1>3, <2>4
       DEF StartSteps, LoadAction, LoadFails, RegisterAction, RejectNotPending,
           CancelledBeforeStart, MarkStarting, createAPIkey, AccessLost, MarkProcessing,
           LaunchContainer, StartFails, RegisterContainer, storeVars
  <2>5. CASE \/ CaptureInfo(w) \/ AwaitExit(w) \/ InspectFails(w) \/ MarkStopping(w)
             \/ ReadBackFails(w) \/ ResolveVerdict(w) \/ WriteVerdict(w) \/ SkipArtifacts(w)
             \/ StartUpload(w) \/ FinishUpload(w) \/ UploadThrows(w) \/ Catch(w) \/ DisposeKey(w)
    BY <1>3, <2>5
       DEF CaptureInfo, AwaitExit, InspectFails, MarkStopping, ReadBackFails, ResolveVerdict,
           WriteVerdict, SkipArtifacts, StartUpload, FinishUpload, UploadThrows, Catch,
           DisposeKey, storeVars
  <2> QED BY <1>6, <2>2, <2>3, <2>4, <2>5 DEF ExitSteps
<1>7. ASSUME NEW w \in Workers, NEW b \in Actions, TakeJob(w, b) \/ DeliverCancel(w, b)
      PROVE  \A a \in Actions : JobSettles(a)
  <2>1. CASE DeliverCancel(w, b)
    BY <1>3, <2>1 DEF DeliverCancel
  <2>2. CASE TakeJob(w, b)
    <3> DEFINE e == [job[b] EXCEPT !.st = "active"]
    <3>1. job' = [job EXCEPT ![b] = e]
      BY <2>2 DEF TakeJob
    <3>2. e.st = "active" /\ e.stalled = job[b].stalled /\ e.q = job[b].q
      BY <1>4
    <3> HIDE DEF e
    <3> QED BY <1>1, <3>1, <3>2, JobEdit
  <2> QED BY <1>7, <2>1, <2>2
<1>8. ASSUME NEW w \in Workers, NEW b \in Actions, QueueSteps(w, b)
      PROVE  \A a \in Actions : JobSettles(a)
  <2>1. ASSUME NEW s \in {"waiting", "failed"},
               job' = [job EXCEPT ![b] = [job[b] EXCEPT !.st = s]]
        PROVE  \A a \in Actions : JobSettles(a)
    <3> DEFINE e == [job[b] EXCEPT !.st = s]
    <3>1. e.st = s /\ e.stalled = job[b].stalled /\ e.q = job[b].q
      BY <1>4
    <3>2. job' = [job EXCEPT ![b] = e]
      BY <2>1
    <3> HIDE DEF e
    <3> QED BY <1>1, <3>1, <3>2, JobEdit
  <2>2. CASE HookRead(w, b)
    <3>1. job' = job \/ job' = [job EXCEPT ![b] = NoJob]
      BY <2>2 DEF HookRead
    <3> QED BY <1>1, <1>2, <1>3, <3>1, JobEdit
  <2>3. CASE PromoteDelayed(w, b)
    BY <2>1, <2>3 DEF PromoteDelayed
  <2>4. CASE StalledTwice(w, b)
    BY <2>1, <2>4 DEF StalledTwice
  <2>5. CASE markJobAsCompleted(w, b) \/ handleUnexpectedError(w, b) \/ HookThrows(w, b)
    BY <1>3, <2>5 DEF markJobAsCompleted, handleUnexpectedError, HookThrows, storeVars
  <2> QED BY <1>8, <2>2, <2>3, <2>4, <2>5 DEF QueueSteps
<1>9. CASE StoreNext
  BY <1>3, <1>9 DEF StoreNext, ContainerExit, DockerRemove, RuntimeExpires
<1>10. CASE JanitorNext
  BY <1>3, <1>10
     DEF JanitorNext, performReconciliation, Sweep, ListContainers, ReadActive, KillFirst,
         MarkTimedOut, MarkInterrupted, markActionAsFailed, MarkZombie, KillZombie,
         LeaveAlone, DetectCrashed, MarkCrashed, FinishPass, RunnerGoesInactive, storeVars
<1>11. CASE \E w \in Workers : Restart(w)
  BY <1>3, <1>11 DEF Restart, registerRunner
<1>12. CASE UNCHANGED vars
  BY <1>3, <1>12 DEF vars, storeVars
<1> QED
  BY <1>5, <1>6, <1>7, <1>8, <1>9, <1>10, <1>11, <1>12 DEF Next, RunnerNext, ProcessNext

LEMMA RoundsStep ==
    ASSUME TypeInv, Rounds, [Next]_vars
    PROVE  Rounds'
<1>1. /\ job \in [Actions -> Job]
      /\ up \in [Workers -> BOOLEAN]
      /\ epoch \in [Workers -> Epochs]
      /\ MaxCrashes \in Nat /\ Epochs = 0..MaxCrashes
  BY StoreAssumption DEF TypeInv, TypeOK, StoreTypeOK, Epochs
<1>2. CASE UNCHANGED <<up, epoch>> /\ \A a \in Actions : JobSettles(a)
  BY <1>2 DEF Rounds, JobSettles
<1>3. ASSUME NEW v \in Workers, NEW b \in Actions, StalledJob(v, b), UNCHANGED <<up, epoch>>
      PROVE  Rounds'
  <2>1. /\ up[v] /\ job[b].st = "abandoned" /\ job[b].q = v
        /\ job' = [job EXCEPT ![b] = [job[b] EXCEPT !.st = "waiting", !.stalled = TRUE]]
    BY <1>3 DEF StalledJob
  <2>2. /\ [job[b] EXCEPT !.st = "waiting", !.stalled = TRUE].st = "waiting"
        /\ [job[b] EXCEPT !.st = "waiting", !.stalled = TRUE].q = v
    BY <1>1, <2>1 DEF Job
  <2> QED BY <1>1, <1>3, <2>1, <2>2 DEF Rounds
<1>4. ASSUME NEW v \in Workers, Crash(v)
      PROVE  Rounds'
  <2>1. /\ up[v] /\ epoch' = epoch /\ up' = [up EXCEPT ![v] = FALSE]
        /\ job' = [a \in Actions |-> IF job[a].q = v /\ job[a].st = "active"
                                     THEN [job[a] EXCEPT !.st = "abandoned"] ELSE job[a]]
    BY <1>4 DEF Crash, CrashRunner
  <2>2. \A a \in Actions : /\ [job[a] EXCEPT !.st = "abandoned"].q = job[a].q
                           /\ [job[a] EXCEPT !.st = "abandoned"].stalled = job[a].stalled
    BY <1>1 DEF Job
  <2> SUFFICES ASSUME NEW w \in Workers, NEW a \in Actions, job'[a].q = w
               PROVE  /\ job'[a].st = "abandoned" /\ up'[w] => epoch[w] >= 1
                      /\ job'[a].stalled => epoch[w] >= 1
                      /\ job'[a].stalled /\ job'[a].st = "abandoned" /\ up'[w] => epoch[w] >= 2
    BY <2>1 DEF Rounds
  <2>3. CASE job[a].q = v /\ job[a].st = "active"
    BY <1>1, <2>1, <2>2, <2>3 DEF Rounds
  <2>4. CASE job'[a] = job[a]
    BY <1>1, <2>1, <2>4 DEF Rounds
  <2> QED BY <2>1, <2>3, <2>4
<1>5. ASSUME NEW v \in Workers, Restart(v)
      PROVE  Rounds'
  <2>1. /\ ~up[v] /\ job' = job
        /\ up' = [up EXCEPT ![v] = TRUE] /\ epoch' = [epoch EXCEPT ![v] = epoch[v] + 1]
    BY <1>5 DEF Restart, registerRunner
  <2>2. \A w \in Workers : epoch[w] \in Nat
    BY <1>1
  <2>3. \A w \in Workers \ {v} : epoch'[w] = epoch[w] /\ up'[w] = up[w]
    BY <1>1, <2>1
  <2>4. epoch'[v] = epoch[v] + 1
    BY <1>1, <2>1
  <2> SUFFICES ASSUME NEW w \in Workers, NEW a \in Actions, job[a].q = w
               PROVE  /\ job[a].st = "abandoned" /\ up'[w] => epoch'[w] >= 1
                      /\ job[a].stalled => epoch'[w] >= 1
                      /\ job[a].stalled /\ job[a].st = "abandoned" /\ up'[w] => epoch'[w] >= 2
    BY <2>1 DEF Rounds
  <2>5. CASE w = v
    BY <2>2, <2>4, <2>5 DEF Rounds
  <2>6. CASE w # v
    BY <2>3, <2>6 DEF Rounds
  <2> QED BY <2>5, <2>6
<1>6. \/ UNCHANGED <<up, epoch>>
      \/ \E w \in Workers : Crash(w) \/ Restart(w)
  BY UpFrame DEF vars, storeVars
<1> QED BY <1>2, <1>3, <1>4, <1>5, <1>6, JobsSettleDown

\* The hook of a job that has left its consumer for good: it is about to end, or
\* the consumer has not crashed often enough to give the job up.
Ended(w, a) ==
    \/ hook[w][a].pc \in {"completed", "completedRead"}
    \/ hook[w][a].pc # "none" /\ epoch[w] < 2

\* Such a hook's action has begun, and nobody runs it any more.
HookOver ==
    \A w \in Workers, a \in Actions : Ended(w, a) => Begun(a) /\ \A v \in Workers : ~Runs(v, a)

\* A step that adds no hook.
HooksOnly ==
    \A w \in Workers, a \in Actions :
        /\ hook'[w][a].pc # "none" => hook[w][a].pc # "none"
        /\ hook'[w][a].pc \in {"completed", "completedRead"}
              => hook[w][a].pc \in {"completed", "completedRead"}

LEMMA HookEdit ==
    ASSUME hook \in [Workers -> [Actions -> HookEntry]],
           NEW v \in Workers, NEW b \in Actions, NEW e,
           hook' = [hook EXCEPT ![v][b] = e],
           e.pc # "none" => hook[v][b].pc # "none",
           e.pc \in {"completed", "completedRead"}
              => hook[v][b].pc \in {"completed", "completedRead"}
    PROVE  HooksOnly
BY DEF HooksOnly

LEMMA HooksChange ==
    ASSUME TypeInv, [Next]_vars
    PROVE  \/ HooksOnly
           \/ \E w \in Workers : /\ JobCompleted(w) \/ JobFailed(w)
                                 /\ \A v \in Workers, a \in Actions :
                                        hook'[v][a] = hook[v][a] \/ (v = w /\ a = cur[w])
           \/ \E w \in Workers, b \in Actions :
                 /\ StalledTwice(w, b)
                 /\ hook'[w][b].pc = "failed"
                 /\ \A v \in Workers, a \in Actions :
                        hook'[v][a] = hook[v][a] \/ (v = w /\ a = b)
<1>1. /\ TypeOK /\ BusyHasAction
      /\ hook \in [Workers -> [Actions -> HookEntry]]
  BY DEF TypeInv, TypeOK, RunnerTypeOK, HookEntry
<1>2. CASE hook' = hook
  BY <1>2 DEF HooksOnly
<1>3. ASSUME NEW w \in Workers, StartSteps(w) \/ ExitSteps(w), ~JobCompleted(w), ~JobFailed(w)
      PROVE  hook' = hook
  <2>1. CASE StartSteps(w)
    BY <2>1
       DEF StartSteps, LoadAction, LoadFails, RegisterAction, RejectNotPending,
           CancelledBeforeStart, MarkStarting, createAPIkey, AccessLost, MarkProcessing,
           LaunchContainer, StartFails, RegisterContainer
  <2>2. CASE \/ CaptureInfo(w) \/ AwaitExit(w) \/ InspectFails(w) \/ MarkStopping(w)
             \/ ReadBackFails(w) \/ ResolveVerdict(w) \/ WriteVerdict(w) \/ SkipArtifacts(w)
             \/ StartUpload(w) \/ FinishUpload(w) \/ UploadThrows(w) \/ Catch(w) \/ DisposeKey(w)
    BY <2>2
       DEF CaptureInfo, AwaitExit, InspectFails, MarkStopping, ReadBackFails, ResolveVerdict,
           WriteVerdict, SkipArtifacts, StartUpload, FinishUpload, UploadThrows, Catch,
           DisposeKey
  <2> QED BY <1>3, <2>1, <2>2 DEF ExitSteps
<1>4. ASSUME NEW w \in Workers, JobCompleted(w) \/ JobFailed(w)
      PROVE  \A v \in Workers, a \in Actions : hook'[v][a] = hook[v][a] \/ (v = w /\ a = cur[w])
  <2>1. PICK k : hook' = [hook EXCEPT ![w][cur[w]].pc = k]
    BY <1>4 DEF JobCompleted, JobFailed, Settle
  <2> QED BY <1>1, <2>1
<1>5. ASSUME NEW w \in Workers, NEW b \in Actions, StalledTwice(w, b)
      PROVE  /\ hook'[w][b].pc = "failed"
             /\ \A v \in Workers, a \in Actions : hook'[v][a] = hook[v][a] \/ (v = w /\ a = b)
  <2>1. hook' = [hook EXCEPT ![w][b].pc = "failed"]
    BY <1>5 DEF StalledTwice
  <2>2. hook[w][b] \in HookEntry
    BY <1>1
  <2>3. [hook[w][b] EXCEPT !.pc = "failed"].pc = "failed"
    BY <2>2 DEF HookEntry
  <2> QED BY <1>1, <2>1, <2>3
<1>6. ASSUME NEW w \in Workers, NEW b \in Actions, QueueSteps(w, b), ~StalledTwice(w, b)
      PROVE  HooksOnly
  <2>1. NoHook.pc = "none"
    BY DEF NoHook
  <2>2. CASE hook' = [hook EXCEPT ![w][b] = NoHook]
    BY <1>1, <2>1, <2>2, HookEdit
  <2>3. CASE HookRead(w, b)
    <3>1. PICK e : hook' = [hook EXCEPT ![w][b] = e]
                   /\ (e = NoHook \/ e = [pc |-> IF hook[w][b].pc = "failed" THEN "failedRead"
                                                  ELSE "completedRead", entity |-> row[b]])
      BY <2>3 DEF HookRead
    <3>2. hook[w][b].pc \in {"completed", "failed"}
      BY <2>3 DEF HookRead
    <3>3. e.pc \in {"completed", "completedRead"} => hook[w][b].pc \in {"completed", "completedRead"}
      BY <2>1, <3>1, <3>2
    <3> QED BY <1>1, <3>1, <3>2, <3>3, HookEdit
  <2>4. CASE PromoteDelayed(w, b) \/ StalledJob(w, b)
    BY <1>2, <2>4 DEF PromoteDelayed, StalledJob, runnerVars, HooksOnly
  <2> QED
    BY <1>6, <2>2, <2>3, <2>4 DEF QueueSteps, markJobAsCompleted, handleUnexpectedError, HookThrows
<1>7. CASE \E w \in Workers, b \in Actions : TakeJob(w, b) \/ DeliverCancel(w, b)
  BY <1>2, <1>7 DEF TakeJob, DeliverCancel
<1>8. ASSUME NEW w \in Workers, Crash(w)
      PROVE  HooksOnly
  BY <1>1, <1>8 DEF Crash, CrashRunner, HooksOnly, NoHook
<1>9. CASE \E w \in Workers : Restart(w)
  BY <1>2, <1>9 DEF Restart, registerRunner, runnerVars
<1>10. CASE UNCHANGED vars \/ UNCHANGED runnerVars
  BY <1>2, <1>10 DEF vars, runnerVars
<1> QED
  BY <1>2, <1>3, <1>4, <1>5, <1>6, <1>7, <1>8, <1>9, <1>10 DEF Next, RunnerNext, ProcessNext

LEMMA EpochGrows ==
    ASSUME TypeInv, [Next]_vars, NEW w \in Workers
    PROVE  epoch[w] \in Nat /\ epoch'[w] \in Nat /\ epoch[w] <= epoch'[w]
<1>1. epoch \in [Workers -> Epochs] /\ epoch[w] \in Nat
  BY StoreAssumption DEF TypeInv, TypeOK, StoreTypeOK, Epochs
<1>2. CASE epoch' = epoch
  BY <1>1, <1>2
<1>3. ASSUME NEW v \in Workers, Restart(v)
      PROVE  epoch[w] \in Nat /\ epoch'[w] \in Nat /\ epoch[w] <= epoch'[w]
  <2>1. epoch' = [epoch EXCEPT ![v] = epoch[v] + 1]
    BY <1>3 DEF Restart, registerRunner
  <2>2. epoch'[w] = epoch[w] \/ epoch'[w] = epoch[w] + 1
    BY <1>1, <2>1
  <2> QED BY <1>1, <2>2
<1>4. CASE \E v \in Workers : Crash(v)
  BY <1>2, <1>4 DEF Crash, CrashRunner
<1> QED BY <1>2, <1>3, <1>4, UpFrame DEF vars, storeVars

LEMMA EndedFrom ==
    ASSUME TypeInv, Rounds, [Next]_vars, NEW w \in Workers, NEW a \in Actions, Ended(w, a)'
    PROVE  Ended(w, a) \/ ((JobCompleted(w) \/ JobFailed(w)) /\ cur[w] = a)
<1>1. epoch[w] \in Nat /\ epoch'[w] \in Nat /\ epoch[w] <= epoch'[w]
  BY EpochGrows
<1>2. CASE hook'[w][a] = hook[w][a] \/ HooksOnly
  BY <1>1, <1>2 DEF Ended, HooksOnly
<1>3. ASSUME StalledTwice(w, a), hook'[w][a].pc = "failed"
      PROVE  FALSE
  <2>1. epoch[w] >= 2
    BY <1>3 DEF Rounds, StalledTwice
  <2> QED BY <1>1, <1>3, <2>1 DEF Ended
<1> QED BY <1>2, <1>3, HooksChange

LEMMA HookOverStep ==
    ASSUME TypeInv, HandoverInv, Rounds, EndsOver, HookOver, [Next]_vars
    PROVE  HookOver'
<1>1. SUFFICES ASSUME NEW w \in Workers, NEW a \in Actions, Ended(w, a)'
               PROVE  Begun(a)' /\ \A v \in Workers : ~Runs(v, a)'
  BY DEF HookOver
<1>2. Begun(a) /\ \A v \in Workers : ~Runs(v, a)
  <2>1. CASE Ended(w, a)
    BY <2>1 DEF HookOver
  <2>2. CASE (JobCompleted(w) \/ JobFailed(w)) /\ cur[w] = a
    <3>1. pc[w] \in {"succeeded", "failed"} /\ Works(w, a)
      BY <2>2 DEF JobCompleted, JobFailed, Goto, Works
    <3>2. row[a].state # "PENDING"
      BY <2>2, <3>1 DEF EndsOver, Past
    <3>3. disp[a].pc = "queued" /\ \A v \in Workers : Works(v, a) => v = w
      BY <3>1, InHands
    <3> QED BY <3>1, <3>2, <3>3 DEF Begun, Runs
  <2> QED BY <1>1, <2>1, <2>2, EndedFrom
<1>3. Begun(a)'
  BY <1>2, BegunStays DEF Begun
<1>4. \A v \in Workers : ~Runs(v, a)'
  BY <1>2, RunsFrom DEF Begun
<1> QED BY <1>3, <1>4

\* An action that was never dispatched has no row.
Unborn == \A a \in Actions : disp[a].pc = "new" => ~Exists(a)

\* A row names the worker that runs its action, unless a cancellation put an older
\* name back; then no cancellation is about to put the right one back again.
Named ==
    \A w \in Workers, a \in Actions : Runs(w, a) /\ Exists(a) =>
        row[a].worker = w \/ (req[a].pc = "read" => req[a].entity.worker # w)

\* Crash detection condemns no action that the row says another worker runs.
DetectSeen ==
    \A v \in Workers : janPc[v] = "detect" => \A a \in janActive[v] :
        /\ Begun(a)
        /\ \A w \in Workers \ {v} : Runs(w, a) /\ Exists(a) => row[a].worker # w

LEMMA UnbornStep ==
    ASSUME TypeInv, HandoverInv, Unborn, [Next]_vars
    PROVE  Unborn'
<1>1. row \in [Actions -> Row]
  BY DEF TypeInv, TypeOK, StoreTypeOK
<1>2. SUFFICES ASSUME NEW a \in Actions, disp'[a].pc = "new", Exists(a)'
               PROVE  FALSE
  BY DEF Unborn
<1>3. disp[a].pc = "new" /\ ~Exists(a)
  BY <1>2, BegunStays DEF Unborn
<1>4. \A w \in Workers : dead[w][a].pc = "none"
  BY <1>3 DEF HandoverInv, QueuedByDispatch
<1>5. CASE NamesKept(a)
  BY <1>2, <1>3, <1>5 DEF NamesKept
<1>6. CASE \E w \in Workers : LoadAction(w) /\ cur[w] = a
  BY <1>3, <1>6 DEF LoadAction
<1>7. CASE StopSave(a)
  BY <1>2, <1>3, <1>7 DEF StopSave, SaveEntity, Update, Exists
<1> QED BY <1>2, <1>4, <1>5, <1>6, <1>7, NamesChange

\* A cancellation reads the row it saves.
LEMMA RequestReads ==
    ASSUME TypeInv, [Next]_vars, NEW a \in Actions, req'[a].pc = "read"
    PROVE  req'[a] = req[a] \/ (row' = row /\ req'[a].entity = row[a])
<1>1. TypeOK /\ req \in [Actions -> ReqEntry]
  BY DEF TypeInv, TypeOK, DispatcherTypeOK, ReqEntry
<1>2. CASE req' = req
  BY <1>2
<1>3. ASSUME NEW b \in Actions, Cancel(b) \/ StopSave(b) \/ StopPublish(b)
      PROVE  req'[a] = req[a]
  <2>1. CASE Cancel(b)
    <3>1. req' = [req EXCEPT ![b] = [req[b] EXCEPT !.pc = "checked", !.n = req[b].n + 1]]
      BY <2>1 DEF Cancel
    <3>2. [req[b] EXCEPT !.pc = "checked", !.n = req[b].n + 1].pc = "checked"
      BY <1>1 DEF ReqEntry
    <3> QED BY <1>1, <3>1, <3>2
  <2>2. CASE StopSave(b)
    <3>1. PICK p \in {"saved", "idle"} : \E e :
            req' = [req EXCEPT ![b] = [req[b] EXCEPT !.pc = p, !.entity = e]]
      BY <2>2 DEF StopSave
    <3>2. \A e : [req[b] EXCEPT !.pc = p, !.entity = e].pc = p
      BY <1>1 DEF ReqEntry
    <3> QED BY <1>1, <3>1, <3>2
  <2>3. CASE StopPublish(b)
    <3>1. req' = [req EXCEPT ![b] = [req[b] EXCEPT !.pc = "idle", !.entity = AbsentRow]]
      BY <2>3 DEF StopPublish
    <3>2. [req[b] EXCEPT !.pc = "idle", !.entity = AbsentRow].pc = "idle"
      BY <1>1 DEF ReqEntry
    <3> QED BY <1>1, <3>1, <3>2
  <2> QED BY <1>3, <2>1, <2>2, <2>3
<1>4. ASSUME NEW b \in Actions, StopRead(b)
      PROVE  req'[a] = req[a] \/ (row' = row /\ req'[a].entity = row[a])
  <2>1. row' = row
    BY <1>4 DEF StopRead, storeVars
  <2>2. CASE req' = [req EXCEPT ![b] = [req[b] EXCEPT !.pc = "idle"]]
    <3>1. [req[b] EXCEPT !.pc = "idle"].pc = "idle"
      BY <1>1 DEF ReqEntry
    <3> QED BY <1>1, <2>2, <3>1
  <2>3. CASE req' = [req EXCEPT ![b] = [req[b] EXCEPT !.pc = "read", !.entity = row[b]]]
    <3>1. [req[b] EXCEPT !.pc = "read", !.entity = row[b]].entity = row[b]
      BY <1>1 DEF ReqEntry
    <3> QED BY <1>1, <2>1, <2>3, <3>1
  <2> QED BY <1>4, <2>2, <2>3 DEF StopRead
<1>5. ASSUME NEW b \in Actions,
             \/ SaveAction(b) \/ DispatchNext(b) \/ DeleteAction(b)
             \/ \E s \in Diagnostics : RecordDiagnostic(b, s)
      PROVE  req' = req
  BY <1>5 DEF SaveAction, DispatchNext, ChooseWorker, NoWorkerFound, AddJob, AddJobFails,
              RefreshAndRetry, RejectAction, DeleteAction, RecordDiagnostic
<1>6. ASSUME HealthCheckNext
      PROVE  req' = req
  BY ZenonT(60), <1>6 DEF HealthCheckNext, DetectDeadWorker, ReadDeadJob, RemoveDeadJob,
     ChooseNewWorker, RequeueJob, RequeueLosesJob, FinishHealthCheck, OpenQueues
<1>7. CASE DispatcherNext
  BY <1>2, <1>3, <1>4, <1>5, <1>6, <1>7 DEF DispatcherNext, StopNext
<1>8. CASE UNCHANGED dispatcherVars \/ UNCHANGED vars
  BY <1>2, <1>8 DEF dispatcherVars, vars
<1> QED BY <1>7, <1>8 DEF Next, Crash, Restart

LEMMA NamedStep ==
    ASSUME TypeInv, HandoverInv, Named, [Next]_vars
    PROVE  Named'
<1>1. SUFFICES ASSUME NEW w \in Workers, NEW a \in Actions, Runs(w, a)', Exists(a)',
                      row'[a].worker # w, req'[a].pc = "read"
               PROVE  req'[a].entity.worker # w
  BY DEF Named
<1>2. Runs(w, a)
  <2>1. CASE LoadAction(w) /\ cur[w] = a
    <3>1. row \in [Actions -> Row] /\ [row[a] EXCEPT !.worker = w].worker = w
      BY EditWorkers DEF TypeInv, TypeOK, StoreTypeOK
    <3> QED BY <1>1, <2>1, <3>1 DEF LoadAction, Update
  <2> QED BY <1>1, <2>1, RunsFrom
<1>3. /\ disp[a].pc = "queued" /\ \A v \in Workers : dead[v][a].pc # "removed"
      /\ \A v \in Workers : Works(v, a) => v = w
  BY <1>2, InHands DEF Runs
<1>4. CASE NamesKept(a)
  BY <1>1, <1>2, <1>4, RequestReads DEF Named, NamesKept
<1>5. ASSUME NEW v \in Workers, LoadAction(v), cur[v] = a, row'[a].worker = v
      PROVE  FALSE
  BY <1>1, <1>3, <1>5 DEF LoadAction, Goto, Works
<1>6. CASE StopSave(a)
  <2>1. req \in [Actions -> ReqEntry]
    BY DEF TypeInv, TypeOK, DispatcherTypeOK, ReqEntry
  <2>2. PICK p \in {"saved", "idle"} : \E e :
            req' = [req EXCEPT ![a] = [req[a] EXCEPT !.pc = p, !.entity = e]]
    BY <1>6 DEF StopSave
  <2>3. \A e : [req[a] EXCEPT !.pc = p, !.entity = e].pc = p
    BY <2>1 DEF ReqEntry
  <2> QED BY <1>1, <2>1, <2>2, <2>3
<1> QED BY <1>3, <1>4, <1>5, <1>6, NamesChange

\* Crash detection condemns what it has read.
LEMMA DetectFrom ==
    ASSUME TypeInv, [Next]_vars, NEW v \in Workers, janPc'[v] = "detect",
           NEW a \in janActive'[v]
    PROVE  \/ janPc[v] = "detect" /\ a \in janActive[v]
           \/ row' = row /\ row[a].state = "PROCESSING" /\ row[a].worker = v
<1>1. janPc \in [Workers -> JanitorPc] /\ janActive \in [Workers -> SUBSET Actions]
  BY DEF TypeInv, TypeOK, JanitorTypeOK
<1>2. CASE janPc'[v] = janPc[v] /\ janActive'[v] = janActive[v]
  BY <1>2
<1>3. ASSUME NEW u \in Workers, performReconciliation(u)
      PROVE  \/ janPc[v] = "detect" /\ a \in janActive[v]
             \/ row' = row /\ row[a].state = "PROCESSING" /\ row[a].worker = v
  <2>1. CASE DetectCrashed(u)
    BY <1>1, <2>1 DEF DetectCrashed, At, Processing, storeVars
  <2>2. CASE \E b \in Actions : MarkCrashed(u, b)
    BY <1>1, <2>2 DEF MarkCrashed
  <2>3. CASE ListContainers(u) \/ ReadActive(u) \/ FinishPass(u)
    BY <1>1, <2>3 DEF ListContainers, ReadActive, FinishPass, At
  <2>4. CASE Sweep(u)
    BY <1>1, <2>4 DEF Sweep, KillFirst, MarkZombie, LeaveAlone, MarkTimedOut, MarkInterrupted,
                      markActionAsFailed, KillZombie, At
  <2> QED BY <1>3, <2>1, <2>2, <2>3, <2>4 DEF performReconciliation
<1>4. CASE \E r \in Runners : RunnerGoesInactive(r)
  BY <1>2, <1>4 DEF RunnerGoesInactive
<1>5. CASE \E u \in Workers : Crash(u)
  BY <1>1, <1>5 DEF Crash, StopJanitor
<1>6. CASE \E u \in Workers : Restart(u)
  BY <1>2, <1>6 DEF Restart, janitorVars
<1>7. CASE UNCHANGED janitorVars \/ UNCHANGED vars
  BY <1>2, <1>7 DEF vars, janitorVars
<1> QED BY <1>3, <1>4, <1>5, <1>6, <1>7 DEF Next, JanitorNext

LEMMA DetectSeenStep ==
    ASSUME TypeInv, HandoverInv, Unborn, Named, DetectSeen, [Next]_vars
    PROVE  DetectSeen'
<1>1. TypeInv' /\ janActive' \in [Workers -> SUBSET Actions]
  BY TypeInvStep DEF TypeInv, TypeOK, JanitorTypeOK
<1>2. SUFFICES ASSUME NEW v \in Workers, janPc'[v] = "detect", NEW a \in janActive'[v]
               PROVE  /\ Begun(a)'
                      /\ \A w \in Workers \ {v} : Runs(w, a)' /\ Exists(a)' => row'[a].worker # w
  BY DEF DetectSeen
<1>3. a \in Actions
  BY <1>1, <1>2
<1>4. CASE row' = row /\ row[a].state = "PROCESSING" /\ row[a].worker = v
  <2>1. disp[a].pc # "new"
    BY <1>3, <1>4 DEF Unborn, Exists
  <2> QED BY <1>3, <1>4, <2>1, BegunStays DEF Begun
<1>5. CASE janPc[v] = "detect" /\ a \in janActive[v]
  <2>1. Begun(a)
    BY <1>5 DEF DetectSeen
  <2>2. Begun(a)'
    BY <1>3, <2>1, BegunStays DEF Begun
  <2>3. ASSUME NEW w \in Workers \ {v}, Runs(w, a)', Exists(a)'
        PROVE  row'[a].worker # w
    <3>1. Runs(w, a)
      BY <1>3, <2>1, <2>3, RunsFrom DEF Begun
    <3>2. /\ disp[a].pc = "queued" /\ \A u \in Workers : dead[u][a].pc # "removed"
          /\ \A u \in Workers : Works(u, a) => u = w
      BY <1>3, <3>1, InHands DEF Runs
    <3>3. Exists(a) => row[a].worker # w
      BY <1>5, <3>1 DEF DetectSeen
    <3>4. CASE NamesKept(a)
      BY <2>3, <3>3, <3>4 DEF NamesKept
    <3>5. ASSUME NEW u \in Workers, LoadAction(u), cur[u] = a
          PROVE  FALSE
      BY <3>1, <3>2, <3>5 DEF LoadAction, Goto, Works, Runs
    <3>6. CASE StopSave(a)
      <4>1. row \in [Actions -> Row] /\ req \in [Actions -> ReqEntry]
        BY DEF TypeInv, TypeOK, StoreTypeOK, DispatcherTypeOK, ReqEntry
      <4>2. Exists(a) /\ row'[a] = [req[a].entity EXCEPT !.state = "CANCELLED"]
        BY <1>3, <2>3, <3>6, <4>1 DEF StopSave, SaveEntity, Update, Exists
      <4>3. [req[a].entity EXCEPT !.state = "CANCELLED"].worker = req[a].entity.worker
        BY <1>3, <4>1 DEF ReqEntry, Row
      <4>4. req[a].entity.worker # w
        BY <1>3, <3>1, <3>3, <3>6, <4>2 DEF Named, StopSave
      <4> QED BY <4>2, <4>3, <4>4
    <3> QED BY <1>3, <3>2, <3>4, <3>5, <3>6, NamesChange
  <2> QED BY <2>2, <2>3
<1> QED BY <1>2, <1>4, <1>5, DetectFrom

\* A container that was started is not started again, and its action not marked
\* as running again.
LEMMA ContainerPast ==
    ASSUME TypeInv, StartInv, [Next]_vars,
           NEW r \in Runners, NEW a \in Actions, cont[r][a].st # "none"
    PROVE  /\ cont'[r][a].st # "none"
           /\ cont'[r][a].st = "running" => cont[r][a].st = "running"
           /\ RunsOnPaper(a)' => RunsOnPaper(a)
<1>1. /\ TypeOK /\ BusyHasAction
      /\ row \in [Actions -> Row]
      /\ ~NeverStarted(a)
  BY DEF TypeInv, TypeOK, StoreTypeOK, NeverStarted
<1>2. ASSUME NEW w \in Workers, StartSteps(w) \/ ExitSteps(w)
      PROVE  /\ cont'[r][a].st # "none"
             /\ cont'[r][a].st = "running" => cont[r][a].st = "running"
             /\ RunsOnPaper(a)' => RunsOnPaper(a)
  <2>1. CASE ~LaunchContainer(w) /\ ~StartFails(w)
    BY <1>1, <1>2, <2>1, PipelineKept, PipelineMarks DEF StartedKept
  <2>2. CASE LaunchContainer(w) \/ StartFails(w)
    <3>1. Works(w, cur[w]) /\ pc[w] \in {"keyed", "processing"} /\ row' = row /\ cur[w] \in Actions
      BY <1>1, <2>2 DEF LaunchContainer, StartFails, Goto, Works, BusyHasAction
    <3>2. a # cur[w]
      BY <1>1, <3>1 DEF StartInv, StartingOnce
    <3>3. cont'[r][a] = cont[r][a]
      BY <1>1, <1>2, <3>2, PipelineLocal
    <3> QED BY <3>1, <3>3 DEF RunsOnPaper
  <2> QED BY <2>1, <2>2
<1>3. ASSUME NEW w \in Workers, NEW b \in Actions, TakeJob(w, b) \/ DeliverCancel(w, b)
      PROVE  StartedKept /\ row' = row
  <2>1. CASE TakeJob(w, b)
    BY <2>1 DEF TakeJob, StartedKept
  <2>2. CASE DeliverCancel(w, b)
    <3>1. KillContainer(Me(w), b) \/ cont' = cont
      BY <2>2 DEF DeliverCancel
    <3> QED BY <1>1, <2>2, <3>1, KillKept DEF DeliverCancel, StartedKept
  <2> QED BY <1>3, <2>1, <2>2
<1>4. ASSUME NEW w \in Workers, Crash(w) \/ Restart(w)
      PROVE  StartedKept /\ row' = row
  BY <1>4 DEF Crash, CrashRunner, Restart, registerRunner, StartedKept
<1>5. ASSUME Bystander
      PROVE  StartedKept /\ (RunsOnPaper(a)' => RunsOnPaper(a))
  <2>1. CASE FinalOnly
    BY <1>5, <2>1 DEF Bystander, FinalOnly, RunsOnPaper, TERMINAL_ACTION_STATES
  <2>2. ASSUME NEW b \in Actions, SaveAction(b)
        PROVE  RunsOnPaper(a)' => RunsOnPaper(a)
    <3>1. [AbsentRow EXCEPT !.state = "PENDING"].state = "PENDING"
      BY DEF AbsentRow
    <3> QED BY <1>1, <2>2, <3>1 DEF SaveAction, RunsOnPaper
  <2> QED BY <1>5, <2>1, <2>2 DEF Bystander
<1> QED BY <1>2, <1>3, <1>4, <1>5, StepKinds DEF StartedKept, RunsOnPaper

\* Only the runners of processes that are gone become inactive.
InactiveDead ==
    \A r \in inactive : r[2] < epoch[r[1]] \/ (r[2] = epoch[r[1]] /\ ~up[r[1]])

LEMMA InactiveStep ==
    ASSUME TypeInv, InactiveDead, [Next]_vars
    PROVE  InactiveDead'
<1>1. /\ inactive \subseteq Runners
      /\ up \in [Workers -> BOOLEAN]
      /\ epoch \in [Workers -> Epochs]
      /\ \A r \in Runners : r[1] \in Workers /\ r[2] \in Int
      /\ \A w \in Workers : epoch[w] \in Int
  BY StoreAssumption DEF TypeInv, TypeOK, StoreTypeOK, JanitorTypeOK, Runners, Epochs
<1>2. CASE UNCHANGED <<up, epoch, inactive>>
  BY <1>2 DEF InactiveDead
<1>3. ASSUME NEW r \in Runners, RunnerGoesInactive(r)
      PROVE  InactiveDead'
  BY <1>1, <1>3 DEF RunnerGoesInactive, storeVars, InactiveDead
<1>4. ASSUME NEW w \in Workers, Crash(w)
      PROVE  InactiveDead'
  <2>1. up' = [up EXCEPT ![w] = FALSE] /\ UNCHANGED <<epoch, inactive>>
    BY <1>4 DEF Crash, CrashRunner, StopJanitor
  <2> QED BY <1>1, <2>1 DEF InactiveDead
<1>5. ASSUME NEW w \in Workers, Restart(w)
      PROVE  InactiveDead'
  <2>1. /\ ~up[w] /\ UNCHANGED inactive
        /\ up' = [up EXCEPT ![w] = TRUE] /\ epoch' = [epoch EXCEPT ![w] = epoch[w] + 1]
    BY <1>5 DEF Restart, registerRunner, janitorVars
  <2> SUFFICES ASSUME NEW r \in inactive
               PROVE  r[2] < epoch'[r[1]] \/ (r[2] = epoch'[r[1]] /\ ~up'[r[1]])
    BY <2>1 DEF InactiveDead
  <2>2. r[1] \in Workers /\ r[2] \in Int
    BY <1>1
  <2>3. CASE r[1] = w
    <3>1. epoch'[r[1]] = epoch[r[1]] + 1
      BY <1>1, <2>1, <2>3
    <3> QED BY <1>1, <2>2, <3>1 DEF InactiveDead
  <2>4. CASE r[1] # w
    <3>1. epoch'[r[1]] = epoch[r[1]] /\ up'[r[1]] = up[r[1]]
      BY <1>1, <2>1, <2>2, <2>4
    <3> QED BY <3>1 DEF InactiveDead
  <2> QED BY <2>3, <2>4
<1>6. JanitorNext => UNCHANGED inactive \/ \E r \in Runners : RunnerGoesInactive(r)
  BY DEF JanitorNext, performReconciliation, Sweep, ListContainers, ReadActive, KillFirst,
         MarkTimedOut, MarkInterrupted, markActionAsFailed, MarkZombie, KillZombie,
         LeaveAlone, DetectCrashed, MarkCrashed, FinishPass
<1>7. UNCHANGED inactive \/ \E r \in Runners : RunnerGoesInactive(r)
  BY <1>6 DEF Next, vars, janitorVars, Crash, StopJanitor, Restart
<1> QED BY <1>2, <1>3, <1>4, <1>5, <1>7, UpFrame DEF vars, storeVars

\* What the janitor of v has listed, it still finds: the containers to visit were
\* started, the zombie it kills has lost its row, the one it reports is dead.
JanitorKnows(v) ==
    /\ \A c \in janList[v] : cont[c[1]][c[2]].st # "none"
    /\ janPc[v] = "zombie" =>
          /\ janAt[v] \in Runners \X Actions
          /\ cont[janAt[v][1]][janAt[v][2]].st # "none"
          /\ ~RunsOnPaper(janAt[v][2])
    /\ janPc[v] \in {"timedOut", "foreign"} =>
          /\ janAt[v] \in Runners \X Actions
          /\ cont[janAt[v][1]][janAt[v][2]].st \notin {"none", "running"}

JanitorInv == \A v \in Workers : JanitorKnows(v)

LEMMA JanitorKnowsStep ==
    ASSUME TypeInv, StartInv, JanitorInv, [Next]_vars
    PROVE  JanitorInv'
<1>1. /\ TypeOK
      /\ janPc \in [Workers -> JanitorPc]
      /\ janList \in [Workers -> SUBSET (Runners \X Actions)]
      /\ janAt \in [Workers -> (Runners \X Actions) \cup {Nowhere}]
      /\ cont \in [Runners -> [Actions -> Container]]
      /\ row \in [Actions -> Row]
  BY DEF TypeInv, TypeOK, StoreTypeOK, JanitorTypeOK
<1>2. \A c \in Runners \X Actions : c[1] \in Runners /\ c[2] \in Actions /\ c = <<c[1], c[2]>>
  OBVIOUS
<1> SUFFICES ASSUME NEW v \in Workers
             PROVE  JanitorKnows(v)'
  BY DEF JanitorInv
<1>3. JanitorKnows(v)
  BY DEF JanitorInv
<1>4. ASSUME janList'[v] \subseteq janList[v]
      PROVE  \A c \in janList'[v] : cont'[c[1]][c[2]].st # "none"
  <2> TAKE c \in janList'[v]
  <2>1. c[1] \in Runners /\ c[2] \in Actions /\ cont[c[1]][c[2]].st # "none"
    BY <1>1, <1>2, <1>3, <1>4 DEF JanitorKnows
  <2> QED BY <2>1, ContainerPast
<1>5. ASSUME janList'[v] \subseteq janList[v],
             \/ janPc'[v] = janPc[v] /\ janAt'[v] = janAt[v]
             \/ janPc'[v] \notin {"zombie", "timedOut", "foreign"}
      PROVE  JanitorKnows(v)'
  <2>1. CASE janPc'[v] \notin {"zombie", "timedOut", "foreign"}
    BY <1>4, <1>5, <2>1 DEF JanitorKnows
  <2>2. CASE janPc'[v] \in {"zombie", "timedOut", "foreign"}
    <3> DEFINE c == janAt[v]
    <3>1. janPc'[v] = janPc[v] /\ janAt'[v] = c
      BY <1>5, <2>2
    <3>2. c[1] \in Runners /\ c[2] \in Actions /\ cont[c[1]][c[2]].st # "none"
      BY <1>2, <1>3, <2>2, <3>1 DEF JanitorKnows
    <3> QED BY <1>3, <1>4, <1>5, <2>2, <3>1, <3>2, ContainerPast DEF JanitorKnows, RunsOnPaper
  <2> QED BY <2>1, <2>2
<1>6. ASSUME NEW u \in Workers, performReconciliation(u), u # v
      PROVE  JanitorKnows(v)'
  <2>1. /\ janPc'[v] = janPc[v] /\ janAt'[v] = janAt[v] /\ janList'[v] = janList[v]
    BY <1>1, <1>6
       DEF performReconciliation, Sweep, ListContainers, ReadActive, KillFirst, MarkTimedOut,
           MarkInterrupted, markActionAsFailed, MarkZombie, KillZombie, LeaveAlone,
           DetectCrashed, MarkCrashed, FinishPass, At, Visit
  <2> QED BY <1>5, <2>1
<1>7. CASE ListContainers(v)
  <2>1. janPc'[v] = "listed" /\ janList'[v] = ListedContainers(v) /\ cont' = cont
    BY <1>1, <1>7 DEF ListContainers, At, storeVars
  <2> QED BY <2>1 DEF ListedContainers, JanitorKnows
<1>8. CASE ReadActive(v) \/ DetectCrashed(v) \/ FinishPass(v) \/ \E a \in Actions : MarkCrashed(v, a)
  <2>1. janList' = janList /\ janPc'[v] \notin {"zombie", "timedOut", "foreign"}
    BY <1>1, <1>8 DEF ReadActive, DetectCrashed, FinishPass, MarkCrashed, At
  <2> QED BY <1>5, <2>1
<1>9. CASE MarkTimedOut(v) \/ MarkInterrupted(v) \/ KillZombie(v)
  <2>1. janList' = janList /\ janPc'[v] = "sweep"
    BY <1>1, <1>9 DEF MarkTimedOut, MarkInterrupted, markActionAsFailed, KillZombie, At
  <2> QED BY <1>5, <2>1
<1>10. ASSUME NEW c \in Runners \X Actions, KillFirst(v, c)
       PROVE  JanitorKnows(v)'
  <2>1. /\ c \in janList[v] /\ janList'[v] \subseteq janList[v]
        /\ janPc'[v] \in {"timedOut", "foreign"} /\ janAt'[v] = c
        /\ killAndRemoveContainer(c[1], c[2])
    BY <1>1, <1>10 DEF KillFirst, Visit, At
  <2>2. c[1] \in Runners /\ c[2] \in Actions /\ cont[c[1]][c[2]].st # "none"
    BY <1>2, <1>3, <2>1 DEF JanitorKnows
  <2> DEFINE k == Killed(cont[c[1]][c[2]])
  <2>3. k.st # "running" /\ [k EXCEPT !.rm = TRUE].st = k.st
    BY <1>1, <2>2, KilledStates
  <2>4. cont' = [cont EXCEPT ![c[1]][c[2]] = [k EXCEPT !.rm = TRUE]]
    BY <1>1, <2>1, <2>2 DEF killAndRemoveContainer
  <2>5. cont'[c[1]][c[2]] = [k EXCEPT !.rm = TRUE]
    BY <1>1, <2>2, <2>4
  <2>6. cont'[c[1]][c[2]].st # "running" /\ cont'[c[1]][c[2]].st # "none"
    BY <2>2, <2>3, <2>5, ContainerPast
  <2> QED BY <1>4, <2>1, <2>6 DEF JanitorKnows
<1>11. ASSUME NEW c \in Runners \X Actions, MarkZombie(v, c)
       PROVE  JanitorKnows(v)'
  <2>1. /\ c \in janList[v] /\ janList'[v] \subseteq janList[v]
        /\ janPc'[v] = "zombie" /\ janAt'[v] = c
        /\ row' = [row EXCEPT ![c[2]] = FailedRow(c[2], "SYSTEM")]
        /\ cont' = cont
    BY <1>1, <1>11 DEF MarkZombie, Visit, At
  <2>2. c[1] \in Runners /\ c[2] \in Actions /\ cont[c[1]][c[2]].st # "none"
    BY <1>2, <1>3, <2>1 DEF JanitorKnows
  <2>3. FailedRow(c[2], "SYSTEM").state = "FAILED"
    BY <1>1, <2>2, RowStates DEF ActionFailureOrigin
  <2>4. ~RunsOnPaper(c[2])'
    BY <1>1, <2>1, <2>2, <2>3 DEF RunsOnPaper
  <2> QED BY <1>4, <2>1, <2>2, <2>4 DEF JanitorKnows, RunsOnPaper
<1>12. ASSUME NEW c \in Runners \X Actions, LeaveAlone(v, c)
       PROVE  JanitorKnows(v)'
  <2>1. janList'[v] \subseteq janList[v] /\ UNCHANGED <<janPc, janAt>>
    BY <1>1, <1>12 DEF LeaveAlone, Visit
  <2> QED BY <1>5, <2>1
<1>13. CASE JanitorNext
  <2>1. CASE \E r \in Runners : RunnerGoesInactive(r)
    BY <1>5, <2>1 DEF RunnerGoesInactive
  <2>2. CASE performReconciliation(v)
    BY <1>7, <1>8, <1>9, <1>10, <1>11, <1>12, <2>2 DEF performReconciliation, Sweep
  <2> QED BY <1>6, <1>13, <2>1, <2>2 DEF JanitorNext
<1>14. ASSUME NEW u \in Workers, Crash(u)
       PROVE  JanitorKnows(v)'
  <2>1. /\ janPc' = [janPc EXCEPT ![u] = "idle"]
        /\ janList' = [janList EXCEPT ![u] = {}]
        /\ janAt' = [janAt EXCEPT ![u] = Nowhere]
    BY <1>14 DEF Crash, StopJanitor
  <2> QED BY <1>1, <1>5, <2>1
<1>15. CASE UNCHANGED janitorVars \/ UNCHANGED vars \/ \E u \in Workers : Restart(u)
  <2>1. UNCHANGED <<janPc, janList, janAt>>
    BY <1>15 DEF vars, janitorVars, Restart
  <2> QED BY <1>5, <2>1
<1> QED BY <1>13, <1>14, <1>15 DEF Next

\* The api-server fails no action: what it writes is another final state.
LEMMA DispatcherFails ==
    ASSUME TypeOK, DispatcherNext, NEW a \in Actions, row'[a].state = "FAILED"
    PROVE  row[a].state = "FAILED"
<1>1. /\ row \in [Actions -> Row]
      /\ \A b \in Actions : row[b] \in Row /\ row[b].worker \in Workers \cup {NoWorker}
  BY DEF TypeOK, StoreTypeOK, Row
<1>2. ASSUME NEW b \in Actions, NEW new, Update(b, new), new.state # "FAILED" \/ new.state = row[b].state
      PROVE  row[a].state = "FAILED"
  BY <1>1, <1>2 DEF Update
<1>3. ASSUME NEW b \in Actions, SaveAction(b) \/ DeleteAction(b)
      PROVE  row[a].state = "FAILED"
  <2>1. AbsentRow.state = "ABSENT" /\ [AbsentRow EXCEPT !.state = "PENDING"].state = "PENDING"
    BY DEF AbsentRow
  <2> QED BY <1>1, <1>3, <2>1 DEF SaveAction, DeleteAction
<1>4. ASSUME NEW b \in Actions, ChooseWorker(b)
      PROVE  row[a].state = "FAILED"
  <2>1. PICK w \in Workers : Update(b, [row[b] EXCEPT !.worker = w])
    BY <1>4, DispatcherAssumption DEF ChooseWorker, findWorkerForAction, Candidates
  <2>2. [row[b] EXCEPT !.worker = w].state = row[b].state
    BY <1>1, EditStates
  <2> QED BY <1>2, <2>1, <2>2
<1>5. ASSUME NEW b \in Actions, NoWorkerFound(b)
      PROVE  row[a].state = "FAILED"
  <2> DEFINE new == [AbsentRow EXCEPT !.worker = row[b].worker]
  <2>1. new \in Row
    BY <1>1, AbsentRowType DEF Row
  <2>2. Unprocessable(new).state = "UNPROCESSABLE"
    BY <1>1, <2>1, RowStates
  <2>3. row' = [row EXCEPT ![b] = Unprocessable(new)]
    BY <1>5 DEF NoWorkerFound
  <2> HIDE DEF new
  <2> QED BY <1>1, <2>2, <2>3
<1>6. ASSUME NEW b \in Actions, RejectAction(b)
      PROVE  row[a].state = "FAILED"
  BY <1>1, <1>2, <1>6, RowStates DEF RejectAction
<1>7. ASSUME NEW b \in Actions, StopSave(b)
      PROVE  row[a].state = "FAILED"
  <2>1. req[b].entity \in Row
    BY DEF TypeOK, DispatcherTypeOK
  <2>2. [req[b].entity EXCEPT !.state = "CANCELLED"].state = "CANCELLED"
    BY <2>1 DEF Row
  <2> QED BY <1>2, <1>7, <2>2 DEF StopSave, SaveEntity
<1>8. ASSUME NEW b \in Actions, NEW s \in Diagnostics, RecordDiagnostic(b, s)
      PROVE  row[a].state = "FAILED"
  <2>1. RaiseSeverity(b, s).state = row[b].state
    BY <1>1, RowStates, DispatcherAssumption
  <2> QED BY <1>1, <1>8, <2>1 DEF RecordDiagnostic
<1>9. ASSUME NEW w \in Workers, NEW b \in Actions, ChooseNewWorker(w, b)
      PROVE  row[a].state = "FAILED"
  <2>1. \A v \in Workers : [row[b] EXCEPT !.worker = v].state = row[b].state
    BY <1>1, EditStates
  <2> DEFINE new == [dead[w][b].entity EXCEPT !.worker = row[b].worker]
  <2>2. dead[w][b].entity \in Row
    BY DEF TypeOK, DispatcherTypeOK
  <2>3. new \in Row
    BY <1>1, <2>2, RowEdits
  <2>4. Unprocessable(new).state = "UNPROCESSABLE"
    BY <1>1, <2>3, RowStates
  <2>5. \/ \E v \in Workers : Update(b, [row[b] EXCEPT !.worker = v])
        \/ Update(b, Unprocessable(new))
    BY <1>9, DispatcherAssumption
       DEF ChooseNewWorker, SaveEntity, findWorkerForAction, Candidates
  <2> HIDE DEF new
  <2> QED BY <1>2, <2>1, <2>4, <2>5
<1>10. ASSUME NEW b \in Actions,
              \/ AddJob(b) \/ AddJobFails(b) \/ RefreshAndRetry(b) \/ Cancel(b) \/ StopRead(b)
              \/ StopPublish(b)
       PROVE  row' = row
  BY <1>10 DEF AddJob, AddJobFails, RefreshAndRetry, Cancel, StopRead, StopPublish, storeVars
<1>11. ASSUME HealthCheckNext, \A w \in Workers, b \in Actions : ~ChooseNewWorker(w, b)
       PROVE  row' = row
  BY <1>11 DEF HealthCheckNext, DetectDeadWorker, ReadDeadJob, RemoveDeadJob, RequeueJob,
               RequeueLosesJob, FinishHealthCheck, OpenQueues, storeVars
<1> QED
  BY <1>3, <1>4, <1>5, <1>6, <1>7, <1>8, <1>9, <1>10, <1>11
     DEF DispatcherNext, DispatchNext, StopNext

LEMMA HealthyRuns ==
    ASSUME NEW w \in Workers, NEW a \in Actions, Healthy(w, a)
    PROVE  Runs(w, a)
BY DEF Healthy, Runs, Works

\* Only the consumer itself, its janitor and docker touch a container.
LEMMA HealthyKept ==
    ASSUME TypeInv, InactiveDead, JanitorInv, [Next]_vars,
           NEW w \in Workers, NEW a \in Actions, Healthy(w, a)
    PROVE  \/ cont'[Me(w)][a].st = "running"
           \/ \E code \in ExitCodes : ContainerExit(Me(w), a, code)
<1>1. /\ TypeOK /\ BusyHasAction
      /\ cont \in [Runners -> [Actions -> Container]]
      /\ inactive \subseteq Runners
      /\ epoch[w] \in Int
      /\ Me(w) \in Runners
      /\ Me(w)[1] = w /\ Me(w)[2] = epoch[w]
  BY StoreAssumption
     DEF TypeInv, TypeOK, StoreTypeOK, JanitorTypeOK, Me, Runners, Epochs
<1>2. ASSUME cont'[Me(w)][a] = cont[Me(w)][a]
      PROVE  cont'[Me(w)][a].st = "running"
  BY <1>2 DEF Healthy
<1>3. CASE cont' = cont
  BY <1>2, <1>3
<1>4. CASE StoreNext
  <2>1. PICK r \in Runners, b \in Actions :
            \/ \E code \in ExitCodes : ContainerExit(r, b, code)
            \/ DockerRemove(r, b)
            \/ RuntimeExpires(r, b)
    BY <1>4 DEF StoreNext
  <2>2. CASE r = Me(w) /\ b = a
    <3>1. CASE DockerRemove(r, b)
      BY <2>2, <3>1 DEF DockerRemove, Healthy
    <3>2. CASE RuntimeExpires(r, b)
      <4>1. cont' = [cont EXCEPT ![Me(w)][a] = [cont[Me(w)][a] EXCEPT !.expired = TRUE]]
        BY <1>1, <2>2, <3>2 DEF RuntimeExpires
      <4>2. [cont[Me(w)][a] EXCEPT !.expired = TRUE].st = cont[Me(w)][a].st
        BY <1>1 DEF Container
      <4> QED BY <1>1, <4>1, <4>2 DEF Healthy
    <3> QED BY <2>1, <2>2, <3>1, <3>2
  <2>3. CASE ~(r = Me(w) /\ b = a)
    <3>1. cont'[Me(w)][a] = cont[Me(w)][a]
      BY <1>1, <2>1, <2>3 DEF ContainerExit, DockerRemove, RuntimeExpires
    <3> QED BY <1>2, <3>1
  <2> QED BY <2>2, <2>3
<1>5. CASE DispatcherNext
  <2>1. ASSUME NEW b \in Actions,
               \/ SaveAction(b) \/ DispatchNext(b) \/ Cancel(b) \/ StopNext(b)
               \/ DeleteAction(b) \/ \E s \in Diagnostics : RecordDiagnostic(b, s)
        PROVE  cont' = cont
    BY <2>1 DEF SaveAction, DispatchNext, ChooseWorker, NoWorkerFound, AddJob, AddJobFails,
                RefreshAndRetry, RejectAction, Cancel, StopNext, StopRead, StopSave,
                StopPublish, DeleteAction, RecordDiagnostic, storeVars
  <2>2. ASSUME HealthCheckNext
        PROVE  cont' = cont
    BY ZenonT(60), <2>2 DEF HealthCheckNext, DetectDeadWorker, ReadDeadJob, RemoveDeadJob,
       ChooseNewWorker, RequeueJob, RequeueLosesJob, FinishHealthCheck, OpenQueues, storeVars
  <2> QED BY <1>3, <1>5, <2>1, <2>2 DEF DispatcherNext
<1>6. ASSUME NEW v \in Workers, StartSteps(v) \/ ExitSteps(v)
      PROVE  cont'[Me(w)][a] = cont[Me(w)][a]
  <2>1. CASE v # w
    <3>1. Me(v) # Me(w)
      BY <2>1 DEF Me
    <3> QED BY <1>1, <1>6, <3>1, PipelineLocal
  <2>2. CASE v = w /\ RegisterContainer(w)
    BY <2>2 DEF RegisterContainer, KillIfCancelled, isCancelled, Healthy
  <2>3. CASE v = w /\ (CaptureInfo(w) \/ AwaitExit(w) \/ InspectFails(w))
    BY <2>3 DEF CaptureInfo, AwaitExit, InspectFails, storeVars
  <2>4. CASE v = w /\ ~RegisterContainer(w) /\ StartSteps(w)
    BY <2>4
       DEF StartSteps, LoadAction, LoadFails, RegisterAction, RejectNotPending, Healthy,
           CancelledBeforeStart, MarkStarting, createAPIkey, AccessLost, MarkProcessing,
           LaunchContainer, StartFails, Goto
  <2>5. CASE /\ v = w /\ ExitSteps(w)
             /\ ~CaptureInfo(w) /\ ~AwaitExit(w) /\ ~InspectFails(w)
    BY <2>5
       DEF ExitSteps, MarkStopping, ReadBackFails, ResolveVerdict, WriteVerdict, SkipArtifacts,
           StartUpload, FinishUpload, UploadThrows, Catch, DisposeKey, JobCompleted, JobFailed,
           Goto, Healthy
  <2> QED BY <1>6, <2>1, <2>2, <2>3, <2>4, <2>5
<1>7. ASSUME NEW v \in Workers, NEW b \in Actions, DeliverCancel(v, b)
      PROVE  cont'[Me(w)][a] = cont[Me(w)][a]
  <2>1. ~(Me(v) = Me(w) /\ b = a)
    BY <1>7 DEF DeliverCancel, Healthy, Me
  <2>2. cont' = cont \/ cont' = [cont EXCEPT ![Me(v)][b] = Killed(@)]
    BY <1>7 DEF DeliverCancel, KillContainer
  <2> QED BY <1>1, <2>1, <2>2
<1>8. ASSUME NEW v \in Workers, NEW b \in Actions, TakeJob(v, b) \/ QueueSteps(v, b)
      PROVE  cont' = cont
  BY <1>8 DEF TakeJob, QueueSteps, HookRead, markJobAsCompleted, handleUnexpectedError,
              HookThrows, PromoteDelayed, StalledJob, StalledTwice, storeVars
<1>9. ASSUME NEW v \in Workers, NEW c \in Runners \X Actions, KillFirst(v, c)
      PROVE  cont'[Me(w)][a] = cont[Me(w)][a]
  <2>1. ~(c[1] = Me(w) /\ c[2] = a)
    BY <1>1, <1>9 DEF KillFirst, MyTimedOut, InactiveDead, Healthy
  <2>2. \E k : cont' = [cont EXCEPT ![c[1]][c[2]] = k]
    BY <1>9 DEF KillFirst, killAndRemoveContainer
  <2> QED BY <1>1, <2>1, <2>2
<1>10. ASSUME NEW v \in Workers, KillZombie(v)
       PROVE  cont'[Me(w)][a] = cont[Me(w)][a]
  <2> DEFINE c == janAt[v]
  <2>1. ~(c[1] = Me(w) /\ c[2] = a)
    BY <1>1, <1>10 DEF KillZombie, At, JanitorInv, JanitorKnows, RunsOnPaper, Healthy
  <2>2. \E k : cont' = [cont EXCEPT ![c[1]][c[2]] = k]
    BY <1>10 DEF KillZombie, killAndRemoveContainer
  <2> QED BY <1>1, <2>1, <2>2
<1>11. ASSUME NEW v \in Workers, performReconciliation(v), ~KillZombie(v),
              \A c \in Runners \X Actions : ~KillFirst(v, c)
       PROVE  cont' = cont
  BY <1>11
     DEF performReconciliation, Sweep, ListContainers, ReadActive, MarkTimedOut,
         MarkInterrupted, markActionAsFailed, MarkZombie, LeaveAlone, DetectCrashed,
         MarkCrashed, FinishPass, storeVars
<1>12. CASE JanitorNext
  BY <1>2, <1>3, <1>9, <1>10, <1>11, <1>12 DEF JanitorNext, RunnerGoesInactive, storeVars
<1>13. CASE RunnerNext
  BY <1>2, <1>3, <1>6, <1>7, <1>8, <1>13 DEF RunnerNext, ProcessNext
<1>14. CASE UNCHANGED vars \/ \E v \in Workers : Crash(v) \/ Restart(v)
  BY <1>3, <1>14 DEF vars, storeVars, Crash, CrashRunner, Restart, registerRunner
<1> QED BY <1>4, <1>5, <1>12, <1>13, <1>14 DEF Next

\* Only crash detection and the hook of a job that was given up fail the row of a
\* healthy run.
LEMMA HealthyNotFailed ==
    ASSUME TypeInv, HandoverInv, StartInv, HookOver, DetectSeen, JanitorInv, [Next]_vars,
           NEW w \in Workers, NEW a \in Actions, Healthy(w, a), row'[a].state = "FAILED",
           ~Condemned(w, a), ~GivenUp(a)
    PROVE  FALSE
<1>1. /\ TypeOK /\ BusyHasAction
      /\ row \in [Actions -> Row]
      /\ epoch \in [Workers -> Epochs]
      /\ \A v \in Workers : epoch[v] \in Int
      /\ Me(w) \in Runners
      /\ row[a].state = "PROCESSING" /\ Exists(a)
      /\ row' # row
      /\ Runs(w, a) /\ \A v \in Workers : Works(v, a) => v = w
  BY StoreAssumption, HealthyRuns, InHands
     DEF TypeInv, TypeOK, StoreTypeOK, Me, Runners, Epochs, Healthy, Exists, Runs
<1>2. \A b \in Actions : \A new : Update(b, new) => b = a
  BY <1>1 DEF Update
<1>3. CASE StoreNext
  BY <1>1, <1>3 DEF StoreNext, ContainerExit, DockerRemove, RuntimeExpires
<1>4. CASE DispatcherNext
  BY <1>1, <1>4, DispatcherFails
<1>5. ASSUME NEW v \in Workers, StartSteps(v) \/ ExitSteps(v)
      PROVE  FALSE
  <2>1. cur[v] \in Actions /\ Works(v, cur[v])
    BY <1>1, <1>5, PipelineBusy DEF Works
  <2>2. v = w /\ cur[w] = a
    BY <1>1, <1>5, <2>1, PipelineRows
  <2>3. CASE RegisterContainer(w) \/ CaptureInfo(w) \/ AwaitExit(w) \/ InspectFails(w)
    BY <1>1, <2>3 DEF RegisterContainer, CaptureInfo, AwaitExit, InspectFails, storeVars
  <2>4. CASE StartSteps(w) /\ ~RegisterContainer(w)
    BY <2>4
       DEF StartSteps, LoadAction, LoadFails, RegisterAction, RejectNotPending, Healthy,
           CancelledBeforeStart, MarkStarting, createAPIkey, AccessLost, MarkProcessing,
           LaunchContainer, StartFails, Goto
  <2>5. CASE ExitSteps(w) /\ ~CaptureInfo(w) /\ ~AwaitExit(w) /\ ~InspectFails(w)
    BY <2>5
       DEF ExitSteps, MarkStopping, ReadBackFails, ResolveVerdict, WriteVerdict, SkipArtifacts,
           StartUpload, FinishUpload, UploadThrows, Catch, DisposeKey, JobCompleted, JobFailed,
           Goto, Healthy
  <2> QED BY <1>5, <2>2, <2>3, <2>4, <2>5
<1>6. ASSUME NEW v \in Workers, NEW b \in Actions, QueueSteps(v, b)
      PROVE  FALSE
  <2>1. ~Ended(v, a)
    BY <1>1 DEF HookOver
  <2>2. CASE markJobAsCompleted(v, b)
    <3>1. b = a
      BY <1>1, <1>2, <2>2 DEF markJobAsCompleted, SaveEntity
    <3> QED BY <2>1, <2>2, <3>1 DEF markJobAsCompleted, Ended
  <2>3. CASE handleUnexpectedError(v, b)
    <3>1. b = a
      BY <1>2, <2>3 DEF handleUnexpectedError, SaveEntity
    <3> QED BY <1>1, <2>1, <2>3, <3>1 DEF handleUnexpectedError, Ended, GivenUp
  <2>4. CASE \/ HookRead(v, b) \/ HookThrows(v, b) \/ PromoteDelayed(v, b) \/ StalledJob(v, b)
             \/ StalledTwice(v, b)
    BY <1>1, <2>4
       DEF HookRead, HookThrows, PromoteDelayed, StalledJob, StalledTwice, storeVars
  <2> QED BY <1>6, <2>2, <2>3, <2>4 DEF QueueSteps
<1>7. ASSUME NEW v \in Workers, MarkTimedOut(v) \/ MarkInterrupted(v)
      PROVE  FALSE
  <2>1. /\ janAt[v][1] \in Runners /\ janAt[v][2] \in Actions
        /\ cont[janAt[v][1]][janAt[v][2]].st \notin {"none", "running"}
    BY <1>7 DEF MarkTimedOut, MarkInterrupted, At, JanitorInv, JanitorKnows
  <2>2. janAt[v][2] = a
    BY <1>2, <1>7, <2>1 DEF MarkTimedOut, MarkInterrupted, markActionAsFailed
  <2>3. cont[Me(w)][a].st = "running"
    BY DEF Healthy
  <2> QED BY <1>1, <2>1, <2>2, <2>3 DEF StartInv, AtMostOneStart
<1>8. ASSUME NEW v \in Workers, NEW c \in Runners \X Actions, MarkZombie(v, c)
      PROVE  FALSE
  <2>1. c[2] = a
    BY <1>1, <1>8 DEF MarkZombie
  <2> QED BY <1>1, <1>8, <2>1 DEF MarkZombie, Zombie
<1>9. ASSUME NEW v \in Workers, NEW b \in Actions, MarkCrashed(v, b)
      PROVE  FALSE
  <2>1. b = a /\ janPc[v] = "detect" /\ a \in janActive[v]
    BY <1>2, <1>9 DEF MarkCrashed
  <2> QED BY <1>1, <2>1 DEF DetectSeen, Condemned
<1>10. ASSUME NEW v \in Workers,
              \/ ListContainers(v) \/ ReadActive(v) \/ DetectCrashed(v) \/ FinishPass(v)
              \/ KillZombie(v)
              \/ \E c \in Runners \X Actions : LeaveAlone(v, c) \/ KillFirst(v, c)
       PROVE  FALSE
  BY <1>1, <1>10
     DEF ListContainers, ReadActive, DetectCrashed, FinishPass, KillZombie, LeaveAlone,
         KillFirst, storeVars
<1>11. CASE JanitorNext
  BY <1>1, <1>7, <1>8, <1>9, <1>10, <1>11
     DEF JanitorNext, performReconciliation, Sweep, RunnerGoesInactive, storeVars
<1>12. CASE RunnerNext
  BY <1>1, <1>5, <1>6, <1>12 DEF RunnerNext, ProcessNext, TakeJob, DeliverCancel
<1>13. CASE UNCHANGED vars \/ \E v \in Workers : Crash(v) \/ Restart(v)
  BY <1>1, <1>13 DEF vars, storeVars, Crash, CrashRunner, Restart, registerRunner
<1> QED BY <1>3, <1>4, <1>11, <1>12, <1>13 DEF Next

\* What else is known of the runs.
HealthInv ==
    /\ EndsOver /\ Rounds /\ HookOver
    /\ Unborn /\ Named /\ DetectSeen
    /\ InactiveDead /\ JanitorInv

LEMMA HealthInit == ASSUME Init PROVE HealthInv
<1>1. /\ \A w \in Workers : pc[w] = "idle" /\ epoch[w] = 0
      /\ \A w \in Workers, a \in Actions : hook[w][a].pc = "none"
      /\ \A a \in Actions : job[a].st = "none" /\ job[a].stalled = FALSE /\ ~Exists(a)
      /\ inactive = {}
      /\ \A w \in Workers : janPc[w] = "idle" /\ janList[w] = {}
  BY DEF Init, RunnerInit, StoreInit, JanitorInit, NoHook, NoJob, Exists, AbsentRow
<1>2. EndsOver /\ Named
  BY <1>1 DEF EndsOver, Past, Named, Runs, Works
<1>3. HookOver
  BY <1>1 DEF HookOver, Ended
<1>4. Rounds
  BY <1>1 DEF Rounds
<1>5. Unborn /\ DetectSeen /\ InactiveDead /\ JanitorInv
  BY <1>1 DEF Unborn, DetectSeen, InactiveDead, JanitorInv, JanitorKnows
<1> QED BY <1>2, <1>3, <1>4, <1>5 DEF HealthInv

LEMMA HealthStep ==
    ASSUME TypeInv, HandoverInv, StartInv, HealthInv, [Next]_vars
    PROVE  HealthInv'
BY EndsStep, RoundsStep, HookOverStep, UnbornStep, NamedStep, DetectSeenStep, InactiveStep,
   JanitorKnowsStep
   DEF HealthInv

\* A healthy run is killed by nobody, and its row failed by nobody but crash
\* detection and the hook of a job that was given up, for every number of workers,
\* crashes and cancellations: the three exceptions are all there are.
THEOREM HealthIsSpared == Spec => HealthyRunSpared
<1> DEFINE I == TypeInv /\ HandoverInv /\ StartInv /\ HealthInv
           A == \A w \in Workers, a \in Actions : Healthy(w, a) =>
                  /\ \/ cont'[Me(w)][a].st = "running"
                     \/ \E code \in ExitCodes : ContainerExit(Me(w), a, code)
                  /\ row'[a].state = "FAILED" => Condemned(w, a) \/ GivenUp(a)
<1>1. Spec => []I
  BY TypeInvInit, TypeInvStep, HandoverInit, HandoverStep, StartInit, StartStep, HealthInit,
     HealthStep, PTL
     DEF Spec
<1>2. I /\ [Next]_vars => [A]_vars
  <2>1. ASSUME I, [Next]_vars
        PROVE  A
    <3> TAKE w \in Workers, a \in Actions
    <3> HAVE Healthy(w, a)
    <3>1. \/ cont'[Me(w)][a].st = "running"
          \/ \E code \in ExitCodes : ContainerExit(Me(w), a, code)
      BY <2>1, HealthyKept DEF HealthInv
    <3>2. row'[a].state = "FAILED" => Condemned(w, a) \/ GivenUp(a)
      BY <2>1, HealthyNotFailed DEF HealthInv
    <3> QED BY <3>1, <3>2
  <2> QED BY <2>1
<1>3. Spec => [][A]_vars
  <2> HIDE DEF I, A
  <2> QED BY <1>1, <1>2, PTL DEF Spec
<1> QED BY <1>3 DEF HealthyRunSpared
-----------------------------------------------------------------------------
(* What becomes of the artifacts of a row.                                 *)

Uploading(r) == r.artifacts = "UPLOADING"

\* What the edits of a row do to its artifacts.
LEMMA EditArtifacts ==
    ASSUME NEW r \in Row
    PROVE  /\ \A w \in Workers \cup {NoWorker} : [r EXCEPT !.worker = w].artifacts = r.artifacts
           /\ \A s \in ActionState : [r EXCEPT !.state = s].artifacts = r.artifacts
           /\ \A x \in {"AWAITING", "UPLOADING", "UPLOADED", "ERROR"} :
                /\ [r EXCEPT !.artifacts = x].artifacts = x
                /\ [r EXCEPT !.ended = TRUE, !.artifacts = x].artifacts = x
           /\ Unprocessable(r).artifacts = r.artifacts
           /\ UnexpectedError(r).artifacts = "ERROR"
<1>1. \A w \in Workers \cup {NoWorker} : [r EXCEPT !.worker = w].artifacts = r.artifacts
  BY DEF Row
<1>2. \A s \in ActionState : [r EXCEPT !.state = s].artifacts = r.artifacts
  BY DEF Row
<1>3. \A x \in {"AWAITING", "UPLOADING", "UPLOADED", "ERROR"} :
        /\ [r EXCEPT !.artifacts = x].artifacts = x
        /\ [r EXCEPT !.ended = TRUE, !.artifacts = x].artifacts = x
  BY DEF Row
<1>4. Unprocessable(r).artifacts = r.artifacts /\ UnexpectedError(r).artifacts = "ERROR"
  BY DEF Row, Unprocessable, UnexpectedError
<1> QED BY <1>1, <1>2, <1>3, <1>4

LEMMA RowArtifacts ==
    ASSUME NEW a \in Actions, row \in [Actions -> Row]
    PROVE  /\ \A o \in ActionFailureOrigin : FailedRow(a, o).artifacts = row[a].artifacts
           /\ \A s \in ActionSeverity : RaiseSeverity(a, s).artifacts = row[a].artifacts
           /\ UploadFailed(a).artifacts = "ERROR"
           /\ \A v \in Verdict : VerdictRow(a, v).artifacts = row[a].artifacts
<1>1. row[a] \in Row
  OBVIOUS
<1>2. \A o \in ActionFailureOrigin : FailedRow(a, o).artifacts = row[a].artifacts
  BY <1>1 DEF FailedRow, Row
<1>3. \A s \in ActionSeverity : RaiseSeverity(a, s).artifacts = row[a].artifacts
  BY <1>1 DEF RaiseSeverity, Row
<1>4. UploadFailed(a).artifacts = "ERROR"
  <2>1. RaiseSeverity(a, "WARNING") \in Row
    BY RowHelpers DEF ActionSeverity
  <2> QED BY <2>1, EditArtifacts DEF UploadFailed
<1>5. \A v \in Verdict : VerdictRow(a, v).artifacts = row[a].artifacts
  BY <1>1 DEF VerdictRow, Row
<1> QED BY <1>2, <1>3, <1>4, <1>5

\* A row that shows an upload showed it before, in the same state unless the run
\* was failed or given up meanwhile.
UploadKept(a) ==
    Uploading(row'[a]) => Uploading(row[a]) /\ row'[a].state \in {row[a].state, "FAILED", "UNPROCESSABLE"}

AllUploadsKept == \A a \in Actions : UploadKept(a)

LEMMA UploadsSame == ASSUME row' = row PROVE AllUploadsKept
BY DEF AllUploadsKept, UploadKept

LEMMA UpdateUploads ==
    ASSUME row \in [Actions -> Row], NEW a, NEW new, Update(a, new),
           a \in Actions /\ Uploading(new) =>
               Uploading(row[a]) /\ new.state \in {row[a].state, "FAILED", "UNPROCESSABLE"}
    PROVE  AllUploadsKept
BY DEF AllUploadsKept, UploadKept, Update

LEMMA ReassignUploads ==
    ASSUME row \in [Actions -> Row], NEW a \in Actions, NEW w \in Workers,
           Update(a, [row[a] EXCEPT !.worker = w])
    PROVE  AllUploadsKept
<1> DEFINE new == [row[a] EXCEPT !.worker = w]
<1>1. new.artifacts = row[a].artifacts /\ new.state = row[a].state
  BY EditArtifacts, EditStates
<1> HIDE DEF new
<1>2. Update(a, new)
  BY DEF new
<1> QED BY <1>1, <1>2, UpdateUploads DEF Uploading

\* A cancellation saves the row it has read.
CancelSaves(a) ==
    StopSave(a) /\ Uploading(req[a].entity) /\ row'[a].state = "CANCELLED"

\* A health check that finds no worker saves the row it has read.
HealthCheckSaves(a) ==
    \E w \in Workers :
        /\ dead[w][a].pc = "removed"
        /\ Uploading(dead[w][a].entity)
        /\ row'[a].state = "UNPROCESSABLE"

LEMMA DispatcherUploads ==
    ASSUME TypeOK, DispatcherNext, NEW a \in Actions
    PROVE  UploadKept(a) \/ CancelSaves(a) \/ HealthCheckSaves(a)
<1>1. /\ row \in [Actions -> Row]
      /\ req \in [Actions -> ReqEntry]
      /\ dead \in [Workers -> [Actions -> DeadEntry]]
      /\ Diagnostics \subseteq ActionSeverity
  BY DispatcherAssumption
     DEF TypeOK, StoreTypeOK, DispatcherTypeOK, ReqEntry, DeadEntry
<1>2. ASSUME AllUploadsKept PROVE UploadKept(a)
  BY <1>2 DEF AllUploadsKept
<1>3. \A b \in Actions : \A new : Update(b, new) => \A c \in Actions \ {b} : row'[c] = row[c]
  BY <1>1 DEF Update
<1>4. ASSUME NEW b \in Actions, \A c \in Actions \ {b} : row'[c] = row[c], b # a
      PROVE  UploadKept(a)
  BY <1>4 DEF UploadKept
<1>5. \A b \in Actions : row[b].worker \in Workers \cup {NoWorker} /\ row[b] \in Row
  BY <1>1 DEF Row
<1>6. ASSUME NEW b \in Actions, SaveAction(b) \/ NoWorkerFound(b)
      PROVE  AllUploadsKept
  <2>1. PICK new : row' = [row EXCEPT ![b] = new] /\ ~Uploading(new)
    <3>1. CASE SaveAction(b)
      <4>1. ~Uploading([AbsentRow EXCEPT !.state = "PENDING"])
        BY DEF AbsentRow, Uploading
      <4> QED BY <3>1, <4>1 DEF SaveAction
    <3>2. CASE NoWorkerFound(b)
      <4>1. [AbsentRow EXCEPT !.worker = row[b].worker] \in Row
        BY <1>5, AbsentRowType DEF Row
      <4>2. [AbsentRow EXCEPT !.worker = row[b].worker].artifacts = "AWAITING"
        BY DEF AbsentRow
      <4>3. ~Uploading(Unprocessable([AbsentRow EXCEPT !.worker = row[b].worker]))
        BY <4>1, <4>2, EditArtifacts DEF Uploading
      <4> QED BY <3>2, <4>3 DEF NoWorkerFound
    <3> QED BY <1>6, <3>1, <3>2
  <2> QED BY <1>1, <2>1 DEF AllUploadsKept, UploadKept
<1>7. ASSUME NEW b \in Actions, ChooseWorker(b)
      PROVE  AllUploadsKept
  <2>1. PICK w \in Workers : Update(b, [row[b] EXCEPT !.worker = w])
    BY <1>7, DispatcherAssumption DEF ChooseWorker, findWorkerForAction, Candidates
  <2> QED BY <1>1, <2>1, ReassignUploads
<1>8. ASSUME NEW b \in Actions, RejectAction(b)
      PROVE  AllUploadsKept
  BY <1>1, <1>8, EditArtifacts, RowStates, UpdateUploads DEF RejectAction, Uploading
<1>9. ASSUME NEW b \in Actions, NEW s \in Diagnostics, RecordDiagnostic(b, s)
      PROVE  AllUploadsKept
  BY <1>1, <1>9, RowArtifacts, RowStates
     DEF RecordDiagnostic, AllUploadsKept, UploadKept, Uploading
<1>10. ASSUME NEW b \in Actions, DeleteAction(b)
       PROVE  AllUploadsKept
  BY <1>1, <1>10 DEF DeleteAction, AllUploadsKept, UploadKept, Uploading, AbsentRow
<1>11. ASSUME NEW b \in Actions, StopSave(b)
       PROVE  UploadKept(a) \/ CancelSaves(a)
  <2>1. CASE b # a
    BY <1>3, <1>4, <1>11, <2>1 DEF StopSave, SaveEntity
  <2>2. CASE b = a
    <3> DEFINE e == [req[a].entity EXCEPT !.state = "CANCELLED"]
    <3>1. req[a].entity \in Row /\ "CANCELLED" \in ActionState
      BY <1>1 DEF ReqEntry, ActionState, TERMINAL_ACTION_STATES
    <3>2. e.state = "CANCELLED" /\ e.artifacts = req[a].entity.artifacts
      BY <3>1, EditArtifacts, EditStates
    <3>3. Update(a, e)
      BY <1>11, <2>2 DEF StopSave, SaveEntity
    <3> HIDE DEF e
    <3>4. row'[a] = row[a] \/ row'[a] = e
      BY <1>1, <3>3 DEF Update
    <3> QED BY <1>11, <2>2, <3>2, <3>4 DEF UploadKept, CancelSaves, Uploading
  <2> QED BY <2>1, <2>2
<1>12. ASSUME NEW w \in Workers, NEW b \in Actions, ChooseNewWorker(w, b)
       PROVE  UploadKept(a) \/ HealthCheckSaves(a)
  <2>1. CASE b # a
    BY <1>3, <1>4, <1>12, <2>1 DEF ChooseNewWorker, SaveEntity
  <2>2. CASE \E v \in findWorkerForAction : Update(b, [row[b] EXCEPT !.worker = v])
    <3>1. PICK v \in Workers : Update(b, [row[b] EXCEPT !.worker = v])
      BY <2>2, DispatcherAssumption DEF findWorkerForAction, Candidates
    <3>2. AllUploadsKept
      BY <1>1, <3>1, ReassignUploads
    <3> QED BY <1>2, <3>2
  <2>3. CASE b = a /\ SaveEntity(a, Unprocessable([dead[w][a].entity EXCEPT !.worker = row[a].worker]))
    <3> DEFINE r == [dead[w][a].entity EXCEPT !.worker = row[a].worker]
               e == Unprocessable(r)
    <3>1. dead[w][a].entity \in Row
      BY <1>1 DEF DeadEntry
    <3>2. r \in Row /\ r.artifacts = dead[w][a].entity.artifacts
      BY <1>5, <3>1 DEF Row
    <3>3. e.state = "UNPROCESSABLE" /\ e.artifacts = dead[w][a].entity.artifacts
      BY <1>1, <3>2, EditArtifacts, RowStates
    <3> HIDE DEF e
    <3>4. row'[a] = row[a] \/ row'[a] = e
      BY <1>1, <2>3 DEF SaveEntity, Update, e
    <3>5. dead[w][a].pc = "removed"
      BY <1>12, <2>3 DEF ChooseNewWorker
    <3> QED BY <3>3, <3>4, <3>5 DEF UploadKept, HealthCheckSaves, Uploading
  <2> QED BY <1>12, <2>1, <2>2, <2>3 DEF ChooseNewWorker
<1>13. ASSUME NEW b \in Actions,
              \/ AddJob(b) \/ AddJobFails(b) \/ RefreshAndRetry(b) \/ Cancel(b) \/ StopRead(b)
              \/ StopPublish(b)
       PROVE  AllUploadsKept
  BY <1>13, UploadsSame
     DEF AddJob, AddJobFails, RefreshAndRetry, Cancel, StopRead, StopPublish, storeVars
<1>14. ASSUME HealthCheckNext, \A w \in Workers, b \in Actions : ~ChooseNewWorker(w, b)
       PROVE  AllUploadsKept
  BY <1>14, UploadsSame
     DEF HealthCheckNext, DetectDeadWorker, ReadDeadJob, RemoveDeadJob, RequeueJob,
         RequeueLosesJob, FinishHealthCheck, OpenQueues, storeVars
<1> QED
  BY <1>2, <1>6, <1>7, <1>8, <1>9, <1>10, <1>11, <1>12, <1>13, <1>14
     DEF DispatcherNext, DispatchNext, StopNext

\* A worker that has not yet shown an upload of its run of a.
Fresh(w, a) ==
    /\ Works(w, a)
    /\ \/ pc[w] \in {"starting", "keyed", "processing", "launched", "attached", "waiting",
                     "exited", "stopping", "judged", "ended"}
       \/ pc[w] \in {"loaded", "registered"} /\ loaded[w] = "PENDING"

\* The catch block fails or cancels a run that shows an upload.
CatchEnds(w, a) ==
    /\ Catch(w) /\ cur[w] = a
    /\ Uploading(row[a]) /\ row'[a].state \in {"CANCELLED", "FAILED"}

LEMMA PipelineUploads ==
    ASSUME TypeOK, BusyHasAction, NEW w \in Workers, StartSteps(w) \/ ExitSteps(w),
           NEW a \in Actions
    PROVE  \/ UploadKept(a)
           \/ StartUpload(w) /\ cur[w] = a /\ Exists(a) /\ row'[a].state = row[a].state
           \/ CatchEnds(w, a)
           \/ Fresh(w, a) /\ Uploading(row[a])
<1> DEFINE old == row[cur[w]]
<1>1. row \in [Actions -> Row] /\ cur[w] \in Actions /\ old \in Row
  BY PipelineBusy DEF TypeOK, StoreTypeOK
<1>2. {"CANCELLED", "STARTING", "PROCESSING", "STOPPING"} \subseteq ActionState
  BY DEF ActionState, TERMINAL_ACTION_STATES, CANCELLABLE_ACTION_STATES
<1>3. \A s \in {"CANCELLED", "STARTING", "PROCESSING", "STOPPING"} :
          /\ [old EXCEPT !.state = s].artifacts = old.artifacts
          /\ [old EXCEPT !.state = s].state = s
  BY <1>1, <1>2, EditArtifacts, EditStates
<1>4. \A new : Update(cur[w], new) =>
          (IF a = cur[w] /\ Exists(a) THEN row'[a] = new ELSE row'[a] = row[a])
  BY <1>1 DEF Update
<1>5. CASE LoadAction(w)
  <2>1. Update(cur[w], [old EXCEPT !.worker = w])
    BY <1>5 DEF LoadAction
  <2>2. w \in Workers
    OBVIOUS
  <2> QED BY <1>1, <2>1, <2>2, ReassignUploads DEF AllUploadsKept
<1>6. CASE \/ CancelledBeforeStart(w) \/ MarkStarting(w) \/ MarkProcessing(w) \/ MarkStopping(w)
           \/ WriteVerdict(w)
  <2>1. PICK new : (Update(cur[w], new) \/ row' = row) /\ new.artifacts = old.artifacts
    <3>1. verdict[w] \in Verdict
      BY DEF TypeOK, RunnerTypeOK
    <3>2. VerdictRow(cur[w], verdict[w]).artifacts = old.artifacts
      BY <1>1, <3>1, RowArtifacts
    <3> HIDE DEF old
    <3> QED
      BY <1>3, <1>6, <3>2
         DEF CancelledBeforeStart, MarkStarting, MarkProcessing, MarkStopping, WriteVerdict, old
  <2>2. Fresh(w, cur[w])
    BY <1>6 DEF CancelledBeforeStart, MarkStarting, MarkProcessing, MarkStopping, WriteVerdict,
                MayStart, Goto, Fresh, Works
  <2> QED BY <1>1, <1>4, <2>1, <2>2 DEF UploadKept, Uploading
<1>7. CASE SkipArtifacts(w)
  <2>1. Update(cur[w], [old EXCEPT !.ended = TRUE, !.artifacts = "ERROR"])
    BY <1>7 DEF SkipArtifacts
  <2> QED BY <1>1, <2>1, EditArtifacts, UpdateUploads DEF AllUploadsKept, Uploading
<1>8. CASE StartUpload(w)
  <2> DEFINE new == [old EXCEPT !.ended = TRUE, !.artifacts = "UPLOADING"]
  <2>1. Update(cur[w], new)
    BY <1>8 DEF StartUpload
  <2>2. new.state = old.state
    BY <1>1, EditStates
  <2> HIDE DEF new
  <2> QED BY <1>1, <1>4, <1>8, <2>1, <2>2 DEF UploadKept
<1>9. CASE FinishUpload(w)
  <2>1. PICK new : Update(cur[w], new) /\ new.artifacts # "UPLOADING"
    BY <1>1, <1>9, EditArtifacts, RowArtifacts DEF FinishUpload
  <2> QED BY <1>1, <2>1, UpdateUploads DEF AllUploadsKept, Uploading
<1>10. CASE Catch(w)
  <2>1. PICK new : /\ Update(cur[w], new)
                   /\ new.artifacts = old.artifacts
                   /\ new.state \in {"CANCELLED", "FAILED"}
    BY <1>1, <1>3, <1>10, RowArtifacts, RowStates DEF Catch, ActionFailureOrigin
  <2> QED BY <1>1, <1>4, <1>10, <2>1 DEF UploadKept, CatchEnds, Uploading
<1>11. CASE \/ LoadFails(w) \/ RegisterAction(w) \/ RejectNotPending(w) \/ createAPIkey(w)
            \/ AccessLost(w) \/ LaunchContainer(w) \/ StartFails(w) \/ RegisterContainer(w)
            \/ CaptureInfo(w) \/ AwaitExit(w) \/ InspectFails(w) \/ ReadBackFails(w)
            \/ ResolveVerdict(w) \/ UploadThrows(w) \/ DisposeKey(w)
            \/ JobCompleted(w) \/ JobFailed(w)
  <2>1. row' = row
    BY <1>11
       DEF LoadFails, RegisterAction, RejectNotPending, createAPIkey, AccessLost,
           LaunchContainer, StartFails, RegisterContainer, CaptureInfo, AwaitExit, InspectFails,
           ReadBackFails, ResolveVerdict, UploadThrows, DisposeKey, JobCompleted, JobFailed,
           Settle, storeVars
  <2> QED BY <2>1, UploadsSame DEF AllUploadsKept
<1> QED
  BY <1>5, <1>6, <1>7, <1>8, <1>9, <1>10, <1>11 DEF StartSteps, ExitSteps

\* The hook of a run that resolved saves the row it has read, with its final state.
HookSaves(a) ==
    \E w \in Workers :
        /\ hook[w][a].pc = "completedRead"
        /\ Uploading(hook[w][a].entity)
        /\ row'[a].state = resolveCompletedActionState(hook[w][a].entity.state)

LEMMA QueueUploads ==
    ASSUME TypeOK, NEW w \in Workers, NEW b \in Actions, QueueSteps(w, b), NEW a \in Actions
    PROVE  UploadKept(a) \/ HookSaves(a)
<1>1. /\ row \in [Actions -> Row]
      /\ hook[w][b].entity \in Row
      /\ row[b].worker \in Workers \cup {NoWorker}
  BY DEF TypeOK, StoreTypeOK, RunnerTypeOK, Row
<1>2. CASE markJobAsCompleted(w, b)
  <2> DEFINE s == resolveCompletedActionState(hook[w][b].entity.state)
             e == [hook[w][b].entity EXCEPT !.state = s, !.worker = row[b].worker]
  <2>1. e.state = s /\ e.artifacts = hook[w][b].entity.artifacts
    BY <1>1 DEF Row
  <2>2. row' = row \/ Update(b, e)
    BY <1>2 DEF markJobAsCompleted, SaveEntity
  <2>3. hook[w][b].pc = "completedRead"
    BY <1>2 DEF markJobAsCompleted
  <2> HIDE DEF e
  <2>4. row'[a] = row[a] \/ (a = b /\ row'[a] = e)
    BY <1>1, <2>2 DEF Update
  <2> QED BY <2>1, <2>3, <2>4 DEF UploadKept, HookSaves, Uploading
<1>3. CASE handleUnexpectedError(w, b)
  <2> DEFINE e == [UnexpectedError(hook[w][b].entity) EXCEPT !.worker = row[b].worker]
  <2>1. e.artifacts = "ERROR"
    BY <1>1, RowHelpers, EditArtifacts
  <2>2. Update(b, e)
    BY <1>3 DEF handleUnexpectedError, SaveEntity
  <2> HIDE DEF e
  <2> QED BY <1>1, <2>1, <2>2, UpdateUploads DEF AllUploadsKept, Uploading
<1>4. CASE \/ HookRead(w, b) \/ HookThrows(w, b) \/ PromoteDelayed(w, b) \/ StalledJob(w, b)
           \/ StalledTwice(w, b)
  BY <1>4, UploadsSame
     DEF HookRead, HookThrows, PromoteDelayed, StalledJob, StalledTwice, storeVars, AllUploadsKept
<1> QED BY <1>2, <1>3, <1>4 DEF QueueSteps

LEMMA JanitorUploads ==
    ASSUME TypeOK, JanitorNext
    PROVE  AllUploadsKept
<1>1. row \in [Actions -> Row] /\ {"USER", "SYSTEM"} \subseteq ActionFailureOrigin
  BY DEF TypeOK, StoreTypeOK, ActionFailureOrigin
<1>2. ASSUME NEW a, NEW o \in ActionFailureOrigin, Update(a, FailedRow(a, o))
      PROVE  AllUploadsKept
  BY <1>1, <1>2, RowArtifacts, RowStates, UpdateUploads DEF Uploading
<1>3. ASSUME NEW w \in Workers, MarkTimedOut(w) \/ MarkInterrupted(w)
      PROVE  AllUploadsKept
  BY <1>1, <1>2, <1>3 DEF MarkTimedOut, MarkInterrupted, markActionAsFailed
<1>4. ASSUME NEW w \in Workers, NEW c \in Runners \X Actions, MarkZombie(w, c)
      PROVE  AllUploadsKept
  <2>1. Update(c[2], FailedRow(c[2], "SYSTEM"))
    BY <1>4 DEF MarkZombie, Zombie, Update
  <2> QED BY <1>1, <1>2, <2>1
<1>5. ASSUME NEW w \in Workers, NEW a \in Actions, MarkCrashed(w, a)
      PROVE  AllUploadsKept
  BY <1>1, <1>2, <1>5 DEF MarkCrashed
<1>6. ASSUME NEW w \in Workers,
             \/ ListContainers(w) \/ ReadActive(w) \/ DetectCrashed(w) \/ FinishPass(w)
             \/ KillZombie(w)
             \/ \E c \in Runners \X Actions : LeaveAlone(w, c) \/ KillFirst(w, c)
      PROVE  AllUploadsKept
  BY <1>6, UploadsSame
     DEF ListContainers, ReadActive, DetectCrashed, FinishPass, KillZombie, LeaveAlone,
         KillFirst, storeVars
<1>7. ASSUME NEW r \in Runners, RunnerGoesInactive(r)
      PROVE  AllUploadsKept
  BY <1>7, UploadsSame DEF RunnerGoesInactive, storeVars
<1> QED
  BY <1>3, <1>4, <1>5, <1>6, <1>7 DEF JanitorNext, performReconciliation, Sweep

\* How a row comes to show an upload.
LEMMA UploadsChange ==
    ASSUME TypeInv, [Next]_vars, NEW a \in Actions
    PROVE  \/ UploadKept(a)
           \/ CancelSaves(a)
           \/ HealthCheckSaves(a)
           \/ HookSaves(a)
           \/ \E w \in Workers :
                \/ StartUpload(w) /\ cur[w] = a /\ Exists(a) /\ row'[a].state = row[a].state
                \/ CatchEnds(w, a)
                \/ Fresh(w, a) /\ Uploading(row[a])
<1>1. TypeOK /\ BusyHasAction
  BY DEF TypeInv
<1>2. ASSUME AllUploadsKept PROVE UploadKept(a)
  BY <1>2 DEF AllUploadsKept
<1>3. CASE StoreNext
  BY <1>2, <1>3, UploadsSame DEF StoreNext, ContainerExit, DockerRemove, RuntimeExpires
<1>4. CASE DispatcherNext
  BY <1>1, <1>4, DispatcherUploads
<1>5. CASE \E w \in Workers, b \in Actions : TakeJob(w, b) \/ DeliverCancel(w, b)
  BY <1>2, <1>5, UploadsSame DEF TakeJob, DeliverCancel
<1>6. CASE RunnerNext
  BY <1>1, <1>5, <1>6, PipelineUploads, QueueUploads DEF RunnerNext, ProcessNext
<1>7. CASE JanitorNext
  BY <1>1, <1>2, <1>7, JanitorUploads
<1>8. CASE \E w \in Workers : Crash(w) \/ Restart(w)
  BY <1>2, <1>8, UploadsSame DEF Crash, CrashRunner, Restart, registerRunner
<1>9. CASE UNCHANGED vars
  BY <1>2, <1>9, UploadsSame DEF vars, storeVars
<1> QED BY <1>3, <1>4, <1>6, <1>7, <1>8, <1>9 DEF Next

-----------------------------------------------------------------------------
(* Who is uploading, and who may still start to.                           *)

\* A worker that may have shown an upload of its run of a, and has not ended it.
Uploads(w, a) == Works(w, a) /\ pc[w] \in {"uploading", "caught"}

Executes(w, a) == Fresh(w, a) \/ Uploads(w, a)

\* A worker whose run of a has resolved.
Ending(w, a) == Works(w, a) /\ pc[w] \in {"disposing", "succeeded"}

\* How a worker's run of a may come to each of these, and leaves its upload.
RunMoves(w, a) ==
    /\ Fresh(w, a)' => Fresh(w, a) \/ (LoadAction(w) /\ cur[w] = a /\ row[a].state = "PENDING")
    /\ Uploads(w, a)' => Executes(w, a)
    /\ Ending(w, a)' =>
          \/ Ending(w, a)
          \/ cur[w] = a /\ (CancelledBeforeStart(w) \/ SkipArtifacts(w) \/ FinishUpload(w))
    /\ Uploads(w, a) => Uploads(w, a)' \/ FinishUpload(w) \/ Catch(w) \/ Crash(w)

LEMMA RunMovesOnly ==
    ASSUME TypeInv, [Next]_vars, NEW w \in Workers, NEW a \in Actions
    PROVE  RunMoves(w, a)
<1>1. /\ TypeOK /\ BusyHasAction
      /\ pc \in [Workers -> RunnerPc]
      /\ cur \in [Workers -> Actions \cup {NoAction}]
      /\ loaded \in [Workers -> ActionState]
  BY DEF TypeInv, TypeOK, RunnerTypeOK
<1>2. ASSUME pc'[w] = pc[w] /\ cur'[w] = cur[w] /\ loaded'[w] = loaded[w]
      PROVE  RunMoves(w, a)
  BY <1>2 DEF RunMoves, Executes, Fresh, Uploads, Ending, Works
<1>3. ASSUME NEW v \in Workers, StartSteps(v) \/ ExitSteps(v), v # w
      PROVE  RunMoves(w, a)
  BY <1>1, <1>2, <1>3, PipelineLocal
<1>4. CASE LoadAction(w)
  BY <1>1, <1>4 DEF LoadAction, Goto, RunMoves, Executes, Fresh, Uploads, Ending, Works
<1>5. CASE \/ LoadFails(w) \/ RegisterAction(w) \/ RejectNotPending(w) \/ CancelledBeforeStart(w)
           \/ MarkStarting(w) \/ createAPIkey(w)
  BY <1>1, <1>5
     DEF LoadFails, RegisterAction, RejectNotPending, CancelledBeforeStart, MayStart,
         MarkStarting, createAPIkey, Goto, storeVars,
         RunMoves, Executes, Fresh, Uploads, Ending, Works
<1>6. CASE \/ AccessLost(w) \/ MarkProcessing(w) \/ LaunchContainer(w) \/ StartFails(w)
           \/ RegisterContainer(w) \/ CaptureInfo(w) \/ AwaitExit(w) \/ InspectFails(w)
  BY <1>1, <1>6
     DEF AccessLost, MarkProcessing, LaunchContainer, StartFails, RegisterContainer, CaptureInfo,
         AwaitExit, InspectFails, Goto, storeVars,
         RunMoves, Executes, Fresh, Uploads, Ending, Works
<1>7. CASE \/ MarkStopping(w) \/ ReadBackFails(w) \/ ResolveVerdict(w) \/ WriteVerdict(w)
           \/ SkipArtifacts(w) \/ StartUpload(w)
  BY <1>1, <1>7
     DEF MarkStopping, ReadBackFails, ResolveVerdict, WriteVerdict, SkipArtifacts, StartUpload,
         Goto, storeVars, RunMoves, Executes, Fresh, Uploads, Ending, Works
<1>8. CASE FinishUpload(w) \/ UploadThrows(w) \/ Catch(w) \/ DisposeKey(w)
  BY <1>1, <1>8
     DEF FinishUpload, UploadThrows, Catch, DisposeKey, Goto, storeVars,
         RunMoves, Executes, Fresh, Uploads, Ending, Works
<1>9. CASE JobCompleted(w) \/ JobFailed(w)
  BY <1>1, <1>9
     DEF JobCompleted, JobFailed, Goto, RunMoves, Executes, Fresh, Uploads, Ending, Works
<1>10. CASE \E v \in Workers, b \in Actions : TakeJob(v, b) \/ DeliverCancel(v, b)
  BY <1>1, <1>2, <1>10
     DEF TakeJob, DeliverCancel, Goto, RunMoves, Executes, Fresh, Uploads, Ending, Works
<1>11. ASSUME NEW v \in Workers, Crash(v)
       PROVE  RunMoves(w, a)
  BY <1>1, <1>2, <1>11
     DEF Crash, CrashRunner, RunMoves, Executes, Fresh, Uploads, Ending, Works
<1>12. CASE \E v \in Workers : Restart(v)
  BY <1>2, <1>12 DEF Restart, registerRunner, runnerVars
<1>13. CASE Bystander
  BY <1>2, <1>13 DEF Bystander
<1> QED
  BY <1>3, <1>4, <1>5, <1>6, <1>7, <1>8, <1>9, <1>10, <1>11, <1>12, <1>13, StepKinds
     DEF StartSteps, ExitSteps

\* A dispatch that has queued its action is over.
LEMMA QueuedStays ==
    ASSUME TypeInv, [Next]_vars, NEW a \in Actions, disp[a].pc = "queued"
    PROVE  disp'[a].pc = "queued"
<1>1. disp \in [Actions -> DispEntry]
  BY DEF TypeInv, TypeOK, DispatcherTypeOK, DispEntry
<1>2. ASSUME NEW b \in Actions, SaveAction(b) \/ DispatchNext(b)
      PROVE  disp'[a] = disp[a]
  BY <1>1, <1>2
     DEF SaveAction, DispatchNext, ChooseWorker, NoWorkerFound, AddJob, AddJobFails,
         RefreshAndRetry, RejectAction
<1>3. CASE HealthCheckNext
  BY ZenonT(60), <1>3
     DEF HealthCheckNext, DetectDeadWorker, ReadDeadJob, RemoveDeadJob, ChooseNewWorker,
         RequeueJob, RequeueLosesJob, FinishHealthCheck, OpenQueues
<1>4. CASE \E b \in Actions : \/ Cancel(b) \/ StopNext(b) \/ DeleteAction(b)
                              \/ \E s \in Diagnostics : RecordDiagnostic(b, s)
  BY <1>4
     DEF Cancel, StopNext, StopRead, StopSave, StopPublish, DeleteAction, RecordDiagnostic
<1>5. CASE UNCHANGED dispatcherVars
  BY <1>5 DEF dispatcherVars
<1>6. CASE UNCHANGED vars
  BY <1>6 DEF vars, dispatcherVars
<1> QED BY <1>2, <1>3, <1>4, <1>5, <1>6 DEF Next, DispatcherNext, Crash, Restart

\* What was lost remains so, and a crash is not undone.
LEMMA CrashedStays ==
    ASSUME TypeInv, [Next]_vars, Crashed
    PROVE  Crashed'
<1>1. PICK w \in Workers : epoch[w] > 0 \/ ~up[w]
  BY DEF Crashed
<1>2. epoch[w] \in Nat /\ epoch'[w] \in Nat /\ epoch[w] <= epoch'[w]
  BY EpochGrows
<1>3. CASE epoch[w] > 0
  <2>1. epoch'[w] > 0
    BY <1>2, <1>3
  <2> QED BY <2>1 DEF Crashed
<1>4. CASE ~up[w]
  <2>1. CASE up'[w] = up[w]
    BY <1>4, <2>1 DEF Crashed
  <2>2. CASE Restart(w)
    <3>1. epoch'[w] = epoch[w] + 1
      BY <2>2 DEF Restart, registerRunner, TypeInv, TypeOK, StoreTypeOK
    <3>2. epoch'[w] > 0
      BY <1>2, <3>1
    <3> QED BY <3>2 DEF Crashed
  <2>3. ASSUME NEW v \in Workers, Crash(v) \/ (Restart(v) /\ v # w)
        PROVE  ~up'[w]
    BY <1>4, <2>3 DEF Crash, CrashRunner, Restart, registerRunner, TypeInv, TypeOK, StoreTypeOK
  <2>4. CASE UNCHANGED up
    BY <2>1, <2>4
  <2>5. CASE \E v \in Workers : Crash(v) \/ (Restart(v) /\ v # w)
    BY <2>3, <2>5 DEF Crashed
  <2> QED BY <2>2, <2>4, <2>5, UpFrame DEF vars, storeVars
<1> QED BY <1>1, <1>3, <1>4

\* A health check handles the jobs of a worker that is down, and copies the rows.
DeadJobMoves(w, a) ==
    /\ dead'[w][a].pc # "none" => dead[w][a].pc # "none" \/ Crashed
    /\ Uploading(dead'[w][a].entity) => dead'[w][a].entity \in {dead[w][a].entity, row[a]}

LEMMA DeadJobMovesOnly ==
    ASSUME TypeInv, [Next]_vars, NEW w \in Workers, NEW a \in Actions
    PROVE  DeadJobMoves(w, a)
<1>1. /\ dead \in [Workers -> [Actions -> DeadEntry]]
      /\ NoDeadJob.pc = "none" /\ ~Uploading(NoDeadJob.entity)
      /\ ~Uploading(AbsentRow)
  BY DEF TypeInv, TypeOK, DispatcherTypeOK, DeadEntry, NoDeadJob, Uploading, AbsentRow
<1>2. CASE dead'[w][a] = dead[w][a]
  BY <1>2 DEF DeadJobMoves
<1>3. ASSUME NEW v \in Workers, NEW b \in Actions, NEW e, dead' = [dead EXCEPT ![v][b] = e],
             dead[v][b].pc # "none",
             Uploading(e.entity) => e.entity \in {dead[v][b].entity, row[b]}
      PROVE  DeadJobMoves(w, a)
  <2>1. CASE v = w /\ b = a
    <3>1. dead'[w][a] = e
      BY <1>1, <1>3, <2>1
    <3> QED BY <1>3, <2>1, <3>1 DEF DeadJobMoves
  <2>2. CASE ~(v = w /\ b = a)
    <3>1. dead'[w][a] = dead[w][a]
      BY <1>1, <1>3, <2>2
    <3> QED BY <1>2, <3>1
  <2> QED BY <2>1, <2>2
<1>4. ASSUME NEW v \in Workers, DetectDeadWorker(v)
      PROVE  DeadJobMoves(w, a)
  <2>1. ~up[v]
    BY <1>4 DEF DetectDeadWorker, DeadWorkers
  <2>2. Crashed
    BY <2>1 DEF Crashed
  <2>3. [NoDeadJob EXCEPT !.pc = "listed"].entity = NoDeadJob.entity
    BY DEF NoDeadJob
  <2>4. dead'[w][a] = dead[w][a] \/ ~Uploading(dead'[w][a].entity)
    <3>1. CASE UNCHANGED dead
      BY <3>1
    <3>2. CASE v # w /\ dead' # dead
      BY <1>1, <1>4, <3>2 DEF DetectDeadWorker
    <3>3. CASE v = w /\ dead' # dead
      <4>1. dead'[w][a] \in {NoDeadJob, [NoDeadJob EXCEPT !.pc = "listed"]}
        BY <1>1, <1>4, <3>3 DEF DetectDeadWorker
      <4> QED BY <1>1, <2>3, <4>1
    <3> QED BY <3>1, <3>2, <3>3
  <2> QED BY <2>2, <2>4 DEF DeadJobMoves
<1>5. ASSUME NEW v \in Workers, NEW b \in Actions, ReadDeadJob(v, b)
      PROVE  DeadJobMoves(w, a)
  <2>1. PICK e : /\ dead' = [dead EXCEPT ![v][b] = e]
                 /\ e \in {NoDeadJob, [dead[v][b] EXCEPT !.pc = "read", !.entity = row[b]]}
    BY <1>1, <1>5 DEF ReadDeadJob
  <2>2. dead[v][b] \in DeadEntry /\ dead[v][b].pc # "none"
    BY <1>1, <1>5 DEF ReadDeadJob
  <2>3. [dead[v][b] EXCEPT !.pc = "read", !.entity = row[b]].entity = row[b]
    BY <2>2 DEF DeadEntry
  <2>4. Uploading(e.entity) => e.entity \in {dead[v][b].entity, row[b]}
    BY <1>1, <2>1, <2>3
  <2> QED BY <1>3, <2>1, <2>2, <2>4
<1>6. ASSUME NEW v \in Workers, NEW b \in Actions, RemoveDeadJob(v, b)
      PROVE  DeadJobMoves(w, a)
  <2>1. PICK e : /\ dead' = [dead EXCEPT ![v][b] = e]
                 /\ e \in {NoDeadJob, [dead[v][b] EXCEPT !.pc = "removed"]}
    BY <1>1, <1>6 DEF RemoveDeadJob
  <2>2. dead[v][b] \in DeadEntry /\ dead[v][b].pc # "none"
    BY <1>1, <1>6 DEF RemoveDeadJob
  <2>3. [dead[v][b] EXCEPT !.pc = "removed"].entity = dead[v][b].entity
    BY <2>2 DEF DeadEntry
  <2>4. Uploading(e.entity) => e.entity \in {dead[v][b].entity, row[b]}
    BY <1>1, <2>1, <2>3
  <2> QED BY <1>3, <2>1, <2>2, <2>4
<1>7. ASSUME NEW v \in Workers, NEW b \in Actions,
             ChooseNewWorker(v, b) \/ RequeueJob(v, b) \/ RequeueLosesJob(v, b)
      PROVE  DeadJobMoves(w, a)
  <2>1. PICK e : dead' = [dead EXCEPT ![v][b] = e] /\ ~Uploading(e.entity)
    <3>1. \A u : ~Uploading([pc |-> "add", entity |-> AbsentRow, to |-> u].entity)
      BY <1>1
    <3> QED BY <1>1, <1>7, <3>1 DEF ChooseNewWorker, RequeueJob, RequeueLosesJob
  <2>2. dead[v][b].pc # "none"
    BY <1>7 DEF ChooseNewWorker, RequeueJob, RequeueLosesJob
  <2> QED BY <1>3, <2>1, <2>2
<1>8. CASE OpenQueues \/ \E v \in Workers : FinishHealthCheck(v)
  BY <1>2, <1>8 DEF OpenQueues, FinishHealthCheck, healthVars
<1>9. CASE DispatcherNext /\ ~HealthCheckNext
  BY <1>2, <1>9
     DEF DispatcherNext, SaveAction, DispatchNext, ChooseWorker, NoWorkerFound, AddJob,
         AddJobFails, RefreshAndRetry, RejectAction, Cancel, StopNext, StopRead, StopSave,
         StopPublish, DeleteAction, RecordDiagnostic, healthVars
<1>10. CASE UNCHANGED dispatcherVars \/ UNCHANGED vars
  BY <1>2, <1>10 DEF dispatcherVars, healthVars, vars
<1> QED
  BY <1>4, <1>5, <1>6, <1>7, <1>8, <1>9, <1>10
     DEF Next, DispatcherNext, HealthCheckNext, Crash, Restart

\* A cancellation counts, and copies the row.
RequestMoves(a) ==
    /\ req[a].n > 0 => req'[a].n > 0
    /\ req'[a].pc # "idle" => req[a].pc # "idle" \/ req'[a].n > 0
    /\ Uploading(req'[a].entity) => req'[a].entity \in {req[a].entity, row[a]}

LEMMA RequestMovesOnly ==
    ASSUME TypeInv, [Next]_vars, NEW a \in Actions
    PROVE  RequestMoves(a)
<1>1. /\ req \in [Actions -> ReqEntry]
      /\ row \in [Actions -> Row]
      /\ \A b \in Actions : req[b].n \in Nat
  BY DispatcherAssumption
     DEF TypeInv, TypeOK, StoreTypeOK, DispatcherTypeOK, ReqEntry
<1>2. CASE req'[a] = req[a]
  BY <1>2 DEF RequestMoves
<1>3. ASSUME NEW b \in Actions, NEW e, req' = [req EXCEPT ![b] = e],
             req[b].n > 0 => e.n > 0,
             e.pc # "idle" => req[b].pc # "idle" \/ e.n > 0,
             Uploading(e.entity) => e.entity \in {req[b].entity, row[b]}
      PROVE  RequestMoves(a)
  <2>1. CASE b = a
    <3>1. req'[a] = e
      BY <1>1, <1>3, <2>1
    <3> QED BY <1>3, <2>1, <3>1 DEF RequestMoves
  <2>2. CASE b # a
    <3>1. req'[a] = req[a]
      BY <1>1, <1>3, <2>2
    <3> QED BY <1>2, <3>1
  <2> QED BY <2>1, <2>2
<1>4. ASSUME NEW b \in Actions, Cancel(b)
      PROVE  RequestMoves(a)
  <2> DEFINE e == [req[b] EXCEPT !.pc = "checked", !.n = req[b].n + 1]
  <2>1. req' = [req EXCEPT ![b] = e]
    BY <1>4 DEF Cancel
  <2>2. e.n = req[b].n + 1 /\ e.entity = req[b].entity
    BY <1>1 DEF ReqEntry
  <2>3. e.n > 0
    BY <1>1, <2>2
  <2> HIDE DEF e
  <2> QED BY <1>3, <2>1, <2>2, <2>3
<1>5. ASSUME NEW b \in Actions, StopRead(b)
      PROVE  RequestMoves(a)
  <2>1. PICK e : /\ req' = [req EXCEPT ![b] = e]
                 /\ e \in {[req[b] EXCEPT !.pc = "read", !.entity = row[b]],
                           [req[b] EXCEPT !.pc = "idle"]}
    BY <1>1, <1>5 DEF StopRead
  <2>2. e.n = req[b].n /\ e.entity \in {req[b].entity, row[b]}
    BY <1>1, <2>1 DEF ReqEntry
  <2>3. req[b].pc # "idle"
    BY <1>5 DEF StopRead
  <2> QED BY <1>3, <2>1, <2>2, <2>3
<1>6. ASSUME NEW b \in Actions, StopSave(b) \/ StopPublish(b)
      PROVE  RequestMoves(a)
  <2>1. ~Uploading(AbsentRow) /\ ~Uploading([AbsentRow EXCEPT !.worker = req[b].entity.worker])
    BY DEF AbsentRow, Uploading
  <2>2. PICK p, r : /\ req' = [req EXCEPT ![b] = [req[b] EXCEPT !.pc = p, !.entity = r]]
                    /\ ~Uploading(r)
    <3>1. CASE StopSave(b)
      <4>1. PICK p \in {"saved", "idle"} :
                req' = [req EXCEPT ![b] = [req[b] EXCEPT !.pc = p,
                          !.entity = [AbsentRow EXCEPT !.worker = req[b].entity.worker]]]
        BY <3>1 DEF StopSave
      <4> QED BY <2>1, <4>1
    <3>2. CASE StopPublish(b)
      <4>1. req' = [req EXCEPT ![b] = [req[b] EXCEPT !.pc = "idle", !.entity = AbsentRow]]
        BY <3>2 DEF StopPublish
      <4> QED BY <2>1, <4>1
    <3> QED BY <1>6, <3>1, <3>2
  <2> DEFINE e == [req[b] EXCEPT !.pc = p, !.entity = r]
  <2>3. e.n = req[b].n /\ e.entity = r
    BY <1>1 DEF ReqEntry
  <2>4. req[b].pc # "idle"
    BY <1>6 DEF StopSave, StopPublish
  <2>5. req' = [req EXCEPT ![b] = e]
    BY <2>2
  <2> HIDE DEF e
  <2> QED BY <1>3, <2>2, <2>3, <2>4, <2>5
<1>7. ASSUME NEW b \in Actions,
             \/ SaveAction(b) \/ DispatchNext(b) \/ DeleteAction(b)
             \/ \E s \in Diagnostics : RecordDiagnostic(b, s)
      PROVE  req' = req
  BY <1>7 DEF SaveAction, DispatchNext, ChooseWorker, NoWorkerFound, AddJob, AddJobFails,
              RefreshAndRetry, RejectAction, DeleteAction, RecordDiagnostic
<1>8. ASSUME HealthCheckNext
      PROVE  req' = req
  BY ZenonT(60), <1>8 DEF HealthCheckNext, DetectDeadWorker, ReadDeadJob, RemoveDeadJob,
     ChooseNewWorker, RequeueJob, RequeueLosesJob, FinishHealthCheck, OpenQueues
<1>9. CASE DispatcherNext
  BY <1>2, <1>4, <1>5, <1>6, <1>7, <1>8, <1>9 DEF DispatcherNext, StopNext
<1>10. CASE UNCHANGED dispatcherVars \/ UNCHANGED vars
  BY <1>2, <1>10 DEF dispatcherVars, vars
<1> QED BY <1>9, <1>10 DEF Next, Crash, Restart

\* The hook of a run that resolved copies the row.
HookMoves(w, a) ==
    /\ Uploading(hook'[w][a].entity) => hook'[w][a].entity \in {hook[w][a].entity, row[a]}
    /\ hook'[w][a].pc = "completed" =>
          hook[w][a].pc = "completed" \/ (JobCompleted(w) /\ cur[w] = a)
    /\ hook'[w][a].pc = "completedRead" =>
          \/ hook'[w][a] = hook[w][a]
          \/ hook[w][a].pc = "completed" /\ row' = row /\ hook'[w][a].entity = row[a]

LEMMA HookMovesOnly ==
    ASSUME TypeInv, [Next]_vars, NEW w \in Workers, NEW a \in Actions
    PROVE  HookMoves(w, a)
<1>1. /\ TypeOK /\ BusyHasAction
      /\ hook \in [Workers -> [Actions -> HookEntry]]
      /\ NoHook.pc = "none" /\ ~Uploading(NoHook.entity)
  BY DEF TypeInv, TypeOK, RunnerTypeOK, HookEntry, NoHook, AbsentRow, Uploading
<1>2. CASE hook'[w][a] = hook[w][a]
  BY <1>2 DEF HookMoves
<1>3. CASE hook'[w][a] = NoHook
  BY <1>1, <1>3 DEF HookMoves
<1>4. ASSUME NEW v \in Workers, StartSteps(v) \/ ExitSteps(v), ~JobCompleted(v), ~JobFailed(v)
      PROVE  HookMoves(w, a)
  <2>1. CASE StartSteps(v)
    BY <1>2, <2>1
       DEF StartSteps, LoadAction, LoadFails, RegisterAction, RejectNotPending,
           CancelledBeforeStart, MarkStarting, createAPIkey, AccessLost, MarkProcessing,
           LaunchContainer, StartFails, RegisterContainer
  <2>2. CASE \/ CaptureInfo(v) \/ AwaitExit(v) \/ InspectFails(v) \/ MarkStopping(v)
             \/ ReadBackFails(v) \/ ResolveVerdict(v) \/ WriteVerdict(v) \/ SkipArtifacts(v)
             \/ StartUpload(v) \/ FinishUpload(v) \/ UploadThrows(v) \/ Catch(v) \/ DisposeKey(v)
    BY <1>2, <2>2
       DEF CaptureInfo, AwaitExit, InspectFails, MarkStopping, ReadBackFails, ResolveVerdict,
           WriteVerdict, SkipArtifacts, StartUpload, FinishUpload, UploadThrows, Catch,
           DisposeKey
  <2> QED BY <1>4, <2>1, <2>2 DEF ExitSteps
<1>5. ASSUME NEW v \in Workers, JobCompleted(v) \/ JobFailed(v)
      PROVE  HookMoves(w, a)
  <2>1. PICK k : /\ hook' = [hook EXCEPT ![v][cur[v]].pc = k]
                 /\ (k = "completed" /\ JobCompleted(v)) \/ k = "failed"
    BY <1>5 DEF JobCompleted, JobFailed, Settle
  <2>2. CASE v = w /\ a = cur[w]
    <3>1. hook'[w][a] = [hook[w][a] EXCEPT !.pc = k]
      BY <1>1, <2>1, <2>2
    <3>2. hook'[w][a].pc = k /\ hook'[w][a].entity = hook[w][a].entity
      BY <1>1, <3>1 DEF HookEntry
    <3> QED BY <2>1, <2>2, <3>2 DEF HookMoves
  <2>3. CASE ~(v = w /\ a = cur[w])
    BY <1>1, <1>2, <2>1, <2>3
  <2> QED BY <2>2, <2>3
<1>6. ASSUME NEW v \in Workers, NEW b \in Actions, QueueSteps(v, b)
      PROVE  HookMoves(w, a)
  <2>1. CASE ~(v = w /\ b = a)
    <3>1. hook' = hook \/ \E e : hook' = [hook EXCEPT ![v][b] = e]
      <4>1. CASE PromoteDelayed(v, b) \/ StalledJob(v, b)
        BY <4>1 DEF PromoteDelayed, StalledJob, runnerVars
      <4>2. CASE HookRead(v, b) \/ StalledTwice(v, b)
        <5>1. StalledTwice(v, b) => hook' = [hook EXCEPT ![v][b] = [hook[v][b] EXCEPT !.pc = "failed"]]
          BY <1>1 DEF StalledTwice
        <5> QED BY <4>2, <5>1 DEF HookRead
      <4>3. CASE markJobAsCompleted(v, b) \/ handleUnexpectedError(v, b) \/ HookThrows(v, b)
        BY <4>3 DEF markJobAsCompleted, handleUnexpectedError, HookThrows
      <4> QED BY <1>6, <4>1, <4>2, <4>3 DEF QueueSteps
    <3>2. hook'[w][a] = hook[w][a]
      BY <1>1, <2>1, <3>1
    <3> QED BY <1>2, <3>2
  <2>2. CASE v = w /\ b = a
    <3>1. CASE PromoteDelayed(w, a) \/ StalledJob(w, a)
      BY <1>2, <3>1 DEF PromoteDelayed, StalledJob, runnerVars
    <3>2. CASE StalledTwice(w, a)
      <4>1. hook'[w][a] = [hook[w][a] EXCEPT !.pc = "failed"]
        BY <1>1, <3>2 DEF StalledTwice
      <4>2. hook'[w][a].pc = "failed" /\ hook'[w][a].entity = hook[w][a].entity
        BY <1>1, <4>1 DEF HookEntry
      <4> QED BY <4>2 DEF HookMoves
    <3>3. CASE markJobAsCompleted(w, a) \/ handleUnexpectedError(w, a) \/ HookThrows(w, a)
      <4>1. hook'[w][a] = NoHook
        BY <1>1, <3>3 DEF markJobAsCompleted, handleUnexpectedError, HookThrows
      <4> QED BY <1>3, <4>1
    <3>4. CASE HookRead(w, a)
      <4>1. hook[w][a].pc \in {"completed", "failed"} /\ row' = row
        BY <3>4 DEF HookRead
      <4>2. \/ hook'[w][a] = NoHook
            \/ hook'[w][a] = [pc |-> IF hook[w][a].pc = "failed" THEN "failedRead"
                                     ELSE "completedRead", entity |-> row[a]]
        BY <1>1, <3>4 DEF HookRead
      <4> QED BY <1>3, <4>1, <4>2 DEF HookMoves
    <3> QED BY <1>6, <2>2, <3>1, <3>2, <3>3, <3>4 DEF QueueSteps
  <2> QED BY <2>1, <2>2
<1>7. CASE \E v \in Workers, b \in Actions : TakeJob(v, b) \/ DeliverCancel(v, b)
  BY <1>2, <1>7 DEF TakeJob, DeliverCancel
<1>8. ASSUME NEW v \in Workers, Crash(v)
      PROVE  HookMoves(w, a)
  BY <1>1, <1>2, <1>3, <1>8 DEF Crash, CrashRunner
<1>9. CASE \E v \in Workers : Restart(v)
  BY <1>2, <1>9 DEF Restart, registerRunner, runnerVars
<1>10. CASE UNCHANGED vars \/ UNCHANGED runnerVars
  BY <1>2, <1>10 DEF vars, runnerVars
<1> QED
  BY <1>4, <1>5, <1>6, <1>7, <1>8, <1>9, <1>10 DEF Next, RunnerNext, ProcessNext

-----------------------------------------------------------------------------
(* Nobody is shown uploading for ever.                                     *)

\* Nothing that is or may be saved as the row of a shows an upload.
NoTrace(a) ==
    /\ ~Uploading(row[a]) /\ ~Uploading(req[a].entity)
    /\ \A w \in Workers : ~Uploading(hook[w][a].entity) /\ ~Uploading(dead[w][a].entity)

\* The run of a has not come to its upload.
BeforeUpload(a) ==
    row[a].state = "PENDING" \/ disp[a].pc # "queued" \/ \E w \in Workers : Fresh(w, a)

NoEarlyTrace == \A a \in Actions : BeforeUpload(a) => NoTrace(a)

\* The hook of a run that resolved finds nobody executing the action.
CompletedOver ==
    \A w \in Workers, a \in Actions :
        hook[w][a].pc \in {"completed", "completedRead"} => \A v \in Workers : ~Executes(v, a)

\* Unless the run was given up, its upload is in a worker's hands, or was in a crash.
UploadInHand ==
    \A a \in Actions :
        Uploading(row[a]) /\ row[a].state \notin {"CANCELLED", "FAILED", "UNPROCESSABLE"} =>
            Crashed \/ \E w \in Workers : Uploads(w, a)

\* The row r may be left as it is, for good.
Neat(a, r) == Uploading(r) => BrokenOff(a, r.state)

\* A run that resolved leaves such a row, and its hook saves such a row.
EndsNeat ==
    \A w \in Workers, a \in Actions :
        /\ Ending(w, a) \/ hook[w][a].pc = "completed" => Neat(a, row[a])
        /\ hook[w][a].pc = "completedRead" => Neat(a, hook[w][a].entity)

\* Whoever was bound to finish a is still there, or has left its row as it may remain.
LeftNeat == \A a \in Actions \ Lost : Cared(a) \/ Neat(a, row[a])

\* A row that is gone shows no upload, a request was counted, and a health check
\* moves jobs after a crash only.
Records ==
    \A a \in Actions :
        /\ ~Exists(a) => ~Uploading(row[a])
        /\ req[a].pc # "idle" => req[a].n > 0
        /\ \A w \in Workers : dead[w][a].pc # "none" => Crashed

UploadInv ==
    /\ NoEarlyTrace /\ CompletedOver /\ UploadInHand
    /\ EndsNeat /\ LeftNeat /\ Records

LEMMA UploadSafe == ASSUME UploadInv PROVE SettledArtifacts
<1> SUFFICES ASSUME NEW a \in Actions \ Lost, row[a].artifacts = "UPLOADING",
                    ~BrokenOff(a, row[a].state)
             PROVE  Responsible(a)
  BY DEF SettledArtifacts
<1>1. Cared(a)
  BY DEF UploadInv, LeftNeat, Neat, Uploading
<1> QED BY <1>1 DEF Cared, Responsible, NoHook

LEMMA BrokenOffStays ==
    ASSUME TypeInv, [Next]_vars, NEW a \in Actions, NEW s, BrokenOff(a, s),
           NEW t \in {s, "FAILED", "UNPROCESSABLE"}
    PROVE  BrokenOff(a, t)'
<1>1. Crashed => Crashed'
  BY CrashedStays
<1>2. req[a].n > 0 => req'[a].n > 0
  BY RequestMovesOnly DEF RequestMoves
<1> QED BY <1>1, <1>2 DEF BrokenOff

\* While a worker has an action in hand, it alone may execute it.
LEMMA Alone ==
    ASSUME HandoverInv, NEW w \in Workers, NEW a \in Actions, Works(w, a), ~Executes(w, a)
    PROVE  \A v \in Workers : ~Executes(v, a)
BY InHands DEF Executes, Fresh, Uploads

LEMMA IdleJob ==
    ASSUME HandoverInv, NEW a \in Actions, job[a].st # "active"
    PROVE  \A v \in Workers : ~Works(v, a)
BY DEF HandoverInv, WorkerHoldsJob, HoldsLock

\* The only step that shows the first upload.
LEMMA TraceStep ==
    ASSUME TypeInv, [Next]_vars, NEW a \in Actions, NoTrace(a)
    PROVE  NoTrace(a)' \/ \E w \in Workers : StartUpload(w) /\ cur[w] = a
<1>1. ~Uploading(row'[a]) \/ \E w \in Workers : StartUpload(w) /\ cur[w] = a
  BY UploadsChange
     DEF NoTrace, UploadKept, CancelSaves, HealthCheckSaves, HookSaves, CatchEnds
<1>2. ~Uploading(req'[a].entity)
  BY RequestMovesOnly DEF RequestMoves, NoTrace
<1>3. \A w \in Workers : ~Uploading(hook'[w][a].entity) /\ ~Uploading(dead'[w][a].entity)
  BY HookMovesOnly, DeadJobMovesOnly DEF HookMoves, DeadJobMoves, NoTrace
<1> QED BY <1>1, <1>2, <1>3 DEF NoTrace

LEMMA StartsUpload ==
    ASSUME TypeInv, HandoverInv, EndsOver, [Next]_vars,
           NEW w \in Workers, StartUpload(w), NEW a \in Actions, cur[w] = a
    PROVE  ~BeforeUpload(a)' /\ Uploads(w, a)' /\ disp[a].pc = "queued"
<1>1. /\ TypeOK /\ BusyHasAction
      /\ pc \in [Workers -> RunnerPc]
      /\ pc[w] = "ended" /\ cur' = cur /\ pc' = [pc EXCEPT ![w] = "uploading"]
  BY DEF TypeInv, TypeOK, RunnerTypeOK, StartUpload, Goto
<1>2. Works(w, a) /\ Uploads(w, a)'
  BY <1>1 DEF Works, Uploads
<1>3. disp[a].pc = "queued" /\ \A v \in Workers : Works(v, a) => v = w
  BY <1>2, InHands
<1>4. disp'[a].pc = "queued"
  BY <1>3, QueuedStays
<1>5. row'[a].state # "PENDING"
  <2>1. row[a].state # "PENDING"
    BY <1>1 DEF EndsOver, Past
  <2> QED BY <1>3, <2>1, BegunStays
<1>6. \A v \in Workers : ~Fresh(v, a)'
  BY <1>1, <1>3 DEF Fresh, Works
<1> QED BY <1>2, <1>3, <1>4, <1>5, <1>6 DEF BeforeUpload

LEMMA EarlyStep ==
    ASSUME TypeInv, HandoverInv, EndsOver, NoEarlyTrace, [Next]_vars
    PROVE  NoEarlyTrace'
<1> SUFFICES ASSUME NEW a \in Actions, BeforeUpload(a)'
             PROVE  NoTrace(a)'
  BY DEF NoEarlyTrace
<1>1. BeforeUpload(a)
  <2>1. row'[a].state = "PENDING" => BeforeUpload(a)
    BY BegunStays DEF BeforeUpload
  <2>2. disp'[a].pc # "queued" => BeforeUpload(a)
    BY QueuedStays DEF BeforeUpload
  <2>3. ASSUME NEW w \in Workers, Fresh(w, a)'
        PROVE  BeforeUpload(a)
    BY <2>3, RunMovesOnly DEF RunMoves, BeforeUpload
  <2> QED BY <2>1, <2>2, <2>3 DEF BeforeUpload
<1>2. NoTrace(a)
  BY <1>1 DEF NoEarlyTrace
<1> QED BY <1>2, TraceStep, StartsUpload

LEMMA CompletedStep ==
    ASSUME TypeInv, HandoverInv, EndsOver, HookOver, CompletedOver, [Next]_vars
    PROVE  CompletedOver'
<1> SUFFICES ASSUME NEW w \in Workers, NEW a \in Actions,
                    hook'[w][a].pc \in {"completed", "completedRead"},
                    NEW v \in Workers, Executes(v, a)'
             PROVE  FALSE
  BY DEF CompletedOver
<1>1. \/ hook[w][a].pc \in {"completed", "completedRead"}
      \/ JobCompleted(w) /\ cur[w] = a
  BY HookMovesOnly DEF HookMoves
<1>2. ~Executes(v, a) /\ row[a].state # "PENDING"
  <2>1. CASE hook[w][a].pc \in {"completed", "completedRead"}
    BY <2>1 DEF CompletedOver, HookOver, Ended, Begun
  <2>2. CASE JobCompleted(w) /\ cur[w] = a
    <3>1. pc[w] = "succeeded" /\ Works(w, a)
      BY <2>2 DEF JobCompleted, Goto, Works
    <3>2. ~Executes(w, a)
      BY <3>1 DEF Executes, Fresh, Uploads
    <3> QED BY <2>2, <3>1, <3>2, Alone DEF EndsOver, Past
  <2> QED BY <1>1, <2>1, <2>2
<1> QED BY <1>2, RunMovesOnly DEF RunMoves, Executes

\* A row that may remain as it is, does so while nobody executes its action.
LEMMA NeatStep ==
    ASSUME TypeInv, UploadInv, [Next]_vars,
           NEW a \in Actions, Neat(a, row[a]), \A v \in Workers : ~Executes(v, a)
    PROVE  Neat(a, row[a])'
<1> SUFFICES ASSUME Uploading(row'[a]), NEW t, t = row'[a].state
             PROVE  BrokenOff(a, t)'
  BY DEF Neat, BrokenOff
<1>1. CASE UploadKept(a)
  BY <1>1, BrokenOffStays DEF UploadKept, Neat
<1>2. CASE CancelSaves(a)
  <2>1. req[a].n > 0
    BY <1>2 DEF CancelSaves, StopSave, UploadInv, Records
  <2>2. req'[a].n > 0
    BY <2>1, RequestMovesOnly DEF RequestMoves
  <2> QED BY <1>2, <2>2 DEF CancelSaves, BrokenOff
<1>3. CASE HealthCheckSaves(a)
  <2>1. Crashed'
    BY <1>3, CrashedStays DEF HealthCheckSaves, UploadInv, Records
  <2> QED BY <1>3, <2>1 DEF HealthCheckSaves, BrokenOff
<1>4. CASE HookSaves(a)
  <2>1. PICK w \in Workers :
          /\ hook[w][a].pc = "completedRead"
          /\ Uploading(hook[w][a].entity)
          /\ row'[a].state = resolveCompletedActionState(hook[w][a].entity.state)
    BY <1>4 DEF HookSaves
  <2> DEFINE s == hook[w][a].entity.state
  <2>2. BrokenOff(a, s)
    BY <2>1 DEF UploadInv, EndsNeat, Neat
  <2>3. BrokenOff(a, resolveCompletedActionState(s))
    BY <2>2 DEF BrokenOff, resolveCompletedActionState, isTerminalActionState,
                TERMINAL_ACTION_STATES
  <2> HIDE DEF s
  <2> QED BY <2>1, <2>3, BrokenOffStays DEF s
<1>5. ASSUME NEW w \in Workers, StartUpload(w) \/ Catch(w), cur[w] = a
      PROVE  FALSE
  BY <1>5 DEF StartUpload, Catch, Goto, Executes, Fresh, Uploads, Works
<1> QED BY <1>1, <1>2, <1>3, <1>4, <1>5, UploadsChange DEF CatchEnds, Executes

\* A run that resolved does not show its upload any more.
LEMMA EndsClean ==
    ASSUME TypeInv, HandoverInv, UploadInv, [Next]_vars, NEW w \in Workers, NEW a \in Actions,
           cur[w] = a, CancelledBeforeStart(w) \/ SkipArtifacts(w) \/ FinishUpload(w)
    PROVE  ~Uploading(row'[a])
<1>1. row \in [Actions -> Row] /\ row[a] \in Row
  BY DEF TypeInv, TypeOK, StoreTypeOK
<1>2. ~Exists(a) => ~Uploading(row[a])
  BY DEF UploadInv, Records
<1>3. CASE CancelledBeforeStart(w)
  <2>1. Fresh(w, a)
    BY <1>3 DEF CancelledBeforeStart, MayStart, Goto, Fresh, Works
  <2>2. NoTrace(a)
    BY <2>1 DEF UploadInv, NoEarlyTrace, BeforeUpload
  <2>3. ~\E v \in Workers : StartUpload(v) /\ cur[v] = a
    <3>1. pc[w] = "registered" /\ Works(w, a)
      BY <1>3 DEF CancelledBeforeStart, Goto, Works
    <3>2. \A v \in Workers : Works(v, a) => v = w
      BY <3>1, InHands
    <3> QED BY <3>1, <3>2 DEF StartUpload, Goto, Works
  <2> QED BY <2>2, <2>3, TraceStep DEF NoTrace
<1>4. CASE SkipArtifacts(w) \/ FinishUpload(w)
  <2>1. PICK new : Update(a, new) /\ ~Uploading(new)
    <3>1. ~Uploading([row[a] EXCEPT !.ended = TRUE, !.artifacts = "ERROR"])
      BY <1>1, EditArtifacts DEF Uploading
    <3>2. ~Uploading([row[a] EXCEPT !.artifacts = "UPLOADED"])
      BY <1>1, EditArtifacts DEF Uploading
    <3>3. ~Uploading(UploadFailed(a))
      BY <1>1, RowArtifacts DEF Uploading
    <3> QED BY <1>4, <3>1, <3>2, <3>3 DEF SkipArtifacts, FinishUpload
  <2> QED BY <1>1, <1>2, <2>1 DEF Update
<1> QED BY <1>3, <1>4

LEMMA HandStep ==
    ASSUME TypeInv, HandoverInv, EndsOver, UploadInv, [Next]_vars
    PROVE  UploadInHand'
<1> SUFFICES ASSUME NEW a \in Actions, Uploading(row'[a]), ~Crashed',
                    row'[a].state \notin {"CANCELLED", "FAILED", "UNPROCESSABLE"}
             PROVE  \E w \in Workers : Uploads(w, a)'
  BY DEF UploadInHand
<1>1. ~Crashed
  BY CrashedStays
<1>2. CASE UploadKept(a)
  <2>1. Uploading(row[a]) /\ row[a].state = row'[a].state
    BY <1>2 DEF UploadKept
  <2>2. PICK w \in Workers : Uploads(w, a)
    BY <1>1, <2>1 DEF UploadInv, UploadInHand
  <2>3. cur[w] = a
    BY <2>2 DEF Uploads, Works
  <2>4. ~FinishUpload(w)
    BY <2>3, EndsClean
  <2>5. ~Catch(w)
    <3>1. row[a] \in Row /\ row \in [Actions -> Row] /\ Exists(a)
      BY <2>1 DEF TypeInv, TypeOK, StoreTypeOK, UploadInv, Records
    <3>2. "CANCELLED" \in ActionState
      BY DEF ActionState, TERMINAL_ACTION_STATES
    <3>3. [row[a] EXCEPT !.state = "CANCELLED"].state = "CANCELLED"
      BY <3>1, <3>2, EditStates
    <3>4. FailedRow(a, "SYSTEM").state = "FAILED"
      BY <3>1, RowStates DEF ActionFailureOrigin
    <3> QED BY <2>3, <3>1, <3>3, <3>4 DEF Catch, Update
  <2>6. ~Crash(w)
    <3>1. Crash(w) => ~up'[w]
      BY DEF Crash, CrashRunner, TypeInv, TypeOK, StoreTypeOK
    <3> QED BY <3>1 DEF Crashed
  <2> QED BY <2>2, <2>4, <2>5, <2>6, RunMovesOnly DEF RunMoves
<1>3. CASE CancelSaves(a) \/ HealthCheckSaves(a)
  BY <1>3 DEF CancelSaves, HealthCheckSaves
<1>4. CASE HookSaves(a)
  <2>1. PICK w \in Workers :
          /\ hook[w][a].pc = "completedRead"
          /\ Uploading(hook[w][a].entity)
          /\ row'[a].state = resolveCompletedActionState(hook[w][a].entity.state)
    BY <1>4 DEF HookSaves
  <2>2. hook[w][a].entity.state \in {"CANCELLED", "FAILED", "UNPROCESSABLE"}
    BY <1>1, <2>1 DEF UploadInv, EndsNeat, Neat, BrokenOff
  <2> QED
    BY <2>1, <2>2 DEF resolveCompletedActionState, isTerminalActionState, TERMINAL_ACTION_STATES
<1>5. ASSUME NEW w \in Workers, StartUpload(w), cur[w] = a
      PROVE  Uploads(w, a)'
  BY <1>5, StartsUpload
<1>6. ASSUME NEW w \in Workers, CatchEnds(w, a) \/ (Fresh(w, a) /\ Uploading(row[a]))
      PROVE  FALSE
  BY <1>6 DEF CatchEnds, UploadInv, NoEarlyTrace, BeforeUpload, NoTrace
<1> QED BY <1>2, <1>3, <1>4, <1>5, <1>6, UploadsChange

LEMMA EndsNeatStep ==
    ASSUME TypeInv, HandoverInv, UploadInv, [Next]_vars
    PROVE  EndsNeat'
<1>1. ASSUME NEW w \in Workers, NEW a \in Actions, Ending(w, a)
      PROVE  Neat(a, row[a])'
  <2>1. Works(w, a) /\ ~Executes(w, a)
    BY <1>1 DEF Ending, Executes, Fresh, Uploads
  <2>2. Neat(a, row[a])
    BY <1>1 DEF UploadInv, EndsNeat
  <2> QED BY <2>1, <2>2, Alone, NeatStep
<1>2. ASSUME NEW w \in Workers, NEW a \in Actions, Ending(w, a)'
      PROVE  Neat(a, row[a])'
  <2>1. CASE cur[w] = a /\ (CancelledBeforeStart(w) \/ SkipArtifacts(w) \/ FinishUpload(w))
    BY <2>1, EndsClean DEF Neat
  <2> QED BY <1>1, <1>2, <2>1, RunMovesOnly DEF RunMoves
<1>3. ASSUME NEW w \in Workers, NEW a \in Actions, hook[w][a].pc = "completed"
      PROVE  Neat(a, row[a])'
  <2>1. Neat(a, row[a]) /\ \A v \in Workers : ~Executes(v, a)
    BY <1>3 DEF UploadInv, EndsNeat, CompletedOver
  <2> QED BY <2>1, NeatStep
<1>4. ASSUME NEW w \in Workers, NEW a \in Actions, hook'[w][a].pc = "completed"
      PROVE  Neat(a, row[a])'
  <2>1. ASSUME JobCompleted(w), cur[w] = a
        PROVE  Neat(a, row[a])'
    <3>1. Ending(w, a)
      BY <2>1 DEF JobCompleted, Goto, Ending, Works
    <3> QED BY <1>1, <3>1
  <2> QED BY <1>3, <1>4, <2>1, HookMovesOnly DEF HookMoves
<1>5. ASSUME NEW w \in Workers, NEW a \in Actions, hook'[w][a].pc = "completedRead"
      PROVE  Neat(a, hook[w][a].entity)'
  <2>1. CASE hook'[w][a] = hook[w][a]
    <3>1. Neat(a, hook[w][a].entity)
      BY <1>5, <2>1 DEF UploadInv, EndsNeat
    <3>2. ASSUME NEW s, BrokenOff(a, s)
          PROVE  BrokenOff(a, s)'
      BY <3>2, BrokenOffStays
    <3> QED BY <2>1, <3>1, <3>2 DEF Neat, BrokenOff
  <2>2. CASE hook[w][a].pc = "completed" /\ row' = row /\ hook'[w][a].entity = row[a]
    <3>1. Neat(a, row[a])'
      BY <1>3, <2>2
    <3> QED BY <2>2, <3>1 DEF Neat, BrokenOff
  <2> QED BY <1>5, <2>1, <2>2, HookMovesOnly DEF HookMoves
<1> QED BY <1>2, <1>4, <1>5 DEF EndsNeat

LEMMA RecordsStep ==
    ASSUME TypeInv, UploadInv, [Next]_vars
    PROVE  Records'
<1> SUFFICES ASSUME NEW a \in Actions
             PROVE  /\ ~Exists(a)' => ~Uploading(row'[a])
                    /\ req'[a].pc # "idle" => req'[a].n > 0
                    /\ \A w \in Workers : dead'[w][a].pc # "none" => Crashed'
  BY DEF Records
<1>1. ~Exists(a)' => ~Uploading(row'[a])
  <2>1. \A s : resolveCompletedActionState(s) # "ABSENT"
    BY DEF resolveCompletedActionState, isTerminalActionState, TERMINAL_ACTION_STATES
  <2>2. ~Exists(a) => ~Uploading(row[a])
    BY DEF UploadInv, Records
  <2>3. ASSUME NEW w \in Workers, Fresh(w, a)
        PROVE  ~Uploading(row[a])
    BY <2>3 DEF UploadInv, NoEarlyTrace, BeforeUpload, NoTrace
  <2> QED
    BY <2>1, <2>2, <2>3, UploadsChange
       DEF UploadKept, CancelSaves, HealthCheckSaves, HookSaves, CatchEnds, Exists
<1>2. req'[a].pc # "idle" => req'[a].n > 0
  BY RequestMovesOnly DEF RequestMoves, UploadInv, Records
<1>3. \A w \in Workers : dead'[w][a].pc # "none" => Crashed'
  BY DeadJobMovesOnly, CrashedStays DEF DeadJobMoves, UploadInv, Records
<1> QED BY <1>1, <1>2, <1>3

\* Whoever lets go of an action leaves its row neat.
LEMMA DropsNeat ==
    ASSUME TypeInv, HandoverInv, UploadInv, [Next]_vars, NEW a \in Actions \ Lost', Dropped(a)
    PROVE  Neat(a, row[a])'
<1>1. /\ row \in [Actions -> Row] /\ row[a] \in Row
      /\ hook \in [Workers -> [Actions -> HookEntry]]
      /\ dead \in [Workers -> [Actions -> DeadEntry]]
      /\ job \in [Actions -> Job]
      /\ row[a].worker \in Workers \cup {NoWorker}
  BY DEF TypeInv, TypeOK, StoreTypeOK, RunnerTypeOK, HookEntry, DispatcherTypeOK, DeadEntry, Row
<1>2. ~Exists(a) => ~Uploading(row[a])
  BY DEF UploadInv, Records
<1>3. CASE RejectAction(a)
  <2>1. disp[a].pc = "failed"
    BY <1>3 DEF RejectAction
  <2>2. NoTrace(a)
    BY <2>1 DEF UploadInv, NoEarlyTrace, BeforeUpload
  <2>3. ASSUME NEW w \in Workers, StartUpload(w), cur[w] = a
        PROVE  FALSE
    BY <2>1, <2>3, InHands DEF StartUpload, Goto, Works
  <2> QED BY <2>2, <2>3, TraceStep DEF NoTrace, Neat
<1>4. CASE StopPublish(a) /\ job'[a] # job[a]
  <2>1. row' = row /\ job[a].st # "active"
    BY <1>4 DEF StopPublish, Locked
  <2>2. \A w \in Workers : ~Uploads(w, a)
    BY <2>1, IdleJob DEF Uploads
  <2>3. req[a].n > 0
    BY <1>4 DEF StopPublish, UploadInv, Records
  <2>4. Neat(a, row[a])
    BY <2>2, <2>3 DEF UploadInv, UploadInHand, Neat, BrokenOff
  <2>5. \A v \in Workers : ~Executes(v, a)
    BY <2>1, IdleJob DEF Executes, Fresh, Uploads
  <2> QED BY <2>4, <2>5, NeatStep
<1>5. ASSUME NEW w \in Workers, dead[w][a].pc = "removed",
             SaveEntity(a, Unprocessable([dead[w][a].entity EXCEPT !.worker = row[a].worker]))
      PROVE  Neat(a, row[a])'
  <2> DEFINE r == [dead[w][a].entity EXCEPT !.worker = row[a].worker]
  <2>1. r \in Row
    <3>1. dead[w][a].entity \in Row
      BY <1>1 DEF DeadEntry
    <3>2. \A e \in Row, v \in Workers \cup {NoWorker} : [e EXCEPT !.worker = v] \in Row
      BY DEF Row
    <3> QED BY <1>1, <3>1, <3>2
  <2>2. Unprocessable(r).state = "UNPROCESSABLE"
    BY <1>1, <2>1, RowStates
  <2>3. Crashed'
    BY <1>5, CrashedStays DEF UploadInv, Records
  <2>4. row'[a] = Unprocessable(r) \/ (row'[a] = row[a] /\ ~Exists(a))
    BY <1>1, <1>5 DEF SaveEntity, Update
  <2> HIDE DEF r
  <2> QED BY <1>2, <2>2, <2>3, <2>4 DEF Neat, BrokenOff
<1>6. ASSUME NEW w \in Workers, JobCompleted(w), cur[w] = a
      PROVE  Neat(a, row[a])'
  <2>1. Ending(w, a) /\ Works(w, a) /\ ~Executes(w, a)
    BY <1>6 DEF JobCompleted, Goto, Ending, Works, Executes, Fresh, Uploads
  <2>2. Neat(a, row[a])
    BY <2>1 DEF UploadInv, EndsNeat
  <2> QED BY <2>1, <2>2, Alone, NeatStep
<1>7. ASSUME NEW w \in Workers, HookRead(w, a), ~Exists(a)
      PROVE  Neat(a, row[a])'
  BY <1>2, <1>7 DEF HookRead, Neat
<1>8. ASSUME NEW w \in Workers, handleUnexpectedError(w, a)
      PROVE  Neat(a, row[a])'
  <2> DEFINE e == [UnexpectedError(hook[w][a].entity) EXCEPT !.worker = row[a].worker]
  <2>1. hook[w][a].entity \in Row
    BY <1>1 DEF HookEntry
  <2>2. UnexpectedError(hook[w][a].entity) \in Row
    BY <1>1, <2>1, RowHelpers
  <2>3. e.artifacts = "ERROR"
    BY <1>1, <2>1, <2>2, EditArtifacts
  <2>4. Update(a, e)
    BY <1>8 DEF handleUnexpectedError, SaveEntity
  <2> HIDE DEF e
  <2> QED BY <1>1, <1>2, <2>3, <2>4 DEF Update, Neat, Uploading
<1> QED BY <1>3, <1>4, <1>5, <1>6, <1>7, <1>8 DEF Dropped

LEMMA LeftStep ==
    ASSUME TypeInv, HandoverInv, QuietHealth, UploadInv, [Next]_vars
    PROVE  LeftNeat'
<1> SUFFICES ASSUME NEW a \in Actions, a \notin Lost', ~Cared(a)'
             PROVE  Neat(a, row[a])'
  BY DEF LeftNeat
<1>1. CASE Cared(a)
  BY <1>1, CareEnds, DropsNeat DEF CareKept
<1>2. CASE ~Cared(a)
  <2>1. a \notin Lost
    BY LostStays
  <2>2. Neat(a, row[a])
    BY <1>2, <2>1 DEF UploadInv, LeftNeat
  <2>3. job[a].st # "active"
    BY <1>2 DEF Cared
  <2>4. \A v \in Workers : ~Executes(v, a)
    BY <2>3, IdleJob DEF Executes, Fresh, Uploads
  <2> QED BY <2>2, <2>4, NeatStep
<1> QED BY <1>1, <1>2

LEMMA UploadInit == ASSUME Init PROVE UploadInv
<1>1. /\ \A a \in Actions : /\ ~Uploading(row[a]) /\ ~Uploading(req[a].entity)
                            /\ req[a].pc = "idle"
      /\ \A w \in Workers : pc[w] = "idle"
      /\ \A w \in Workers, a \in Actions :
            /\ hook[w][a].pc = "none" /\ ~Uploading(hook[w][a].entity)
            /\ dead[w][a].pc = "none" /\ ~Uploading(dead[w][a].entity)
  BY DEF Init, RunnerInit, StoreInit, DispatcherInit, NoHook, NoDeadJob, AbsentRow, Uploading
<1>2. NoEarlyTrace /\ CompletedOver /\ UploadInHand
  BY <1>1 DEF NoEarlyTrace, NoTrace, CompletedOver, UploadInHand
<1>3. EndsNeat /\ LeftNeat /\ Records
  BY <1>1 DEF EndsNeat, Ending, Works, LeftNeat, Neat, Records
<1> QED BY <1>2, <1>3 DEF UploadInv

LEMMA UploadStep ==
    ASSUME TypeInv, HandoverInv, HealthInv, QuietHealth, UploadInv, [Next]_vars
    PROVE  UploadInv'
BY EarlyStep, CompletedStep, HandStep, EndsNeatStep, LeftStep, RecordsStep
   DEF UploadInv, HealthInv

\* Nobody's artifacts are shown as uploading for good, but those of a run that was
\* broken off in one of the ways of SettledArtifacts, for every number of workers,
\* crashes and cancellations.
THEOREM ArtifactsSettle == Spec => []SettledArtifacts
<1> DEFINE I == TypeInv /\ HandoverInv /\ StartInv /\ HealthInv /\ QuietHealth /\ UploadInv
<1>1. Init => I
  BY TypeInvInit, HandoverInit, StartInit, HealthInit, OrphanInit, UploadInit DEF OrphanInv
<1>2. I /\ [Next]_vars => I'
  BY TypeInvStep, HandoverStep, StartStep, HealthStep, CareEnds, UploadStep
<1>3. Spec => []I
  <2> HIDE DEF I
  <2> QED BY <1>1, <1>2, PTL DEF Spec
<1>4. I => SettledArtifacts
  BY UploadSafe
<1> QED BY <1>3, <1>4, PTL

-----------------------------------------------------------------------------
(* Final rows that are shown as being run again.                           *)

\* A worker that holds a, found it PENDING, and has not yet come to its container.
Starts(w, a) ==
    /\ Works(w, a)
    /\ \/ pc[w] \in {"loaded", "registered"} /\ loaded[w] = "PENDING"
       \/ pc[w] \in {"starting", "keyed"}

\* The final states that such a worker writes over.
MayReopen(a) ==
    \/ row[a].state = "CANCELLED" /\ req[a].n > 0
    \/ row[a].state = "FAILED" /\ \E v \in Workers : epoch[v] >= 2

\* What became of an action that is about to start: nothing, or one of these two.
StartStates ==
    \A w \in Workers, a \in Actions : Starts(w, a) =>
        row[a].state \in {"ABSENT", "PENDING", "STARTING"} \/ MayReopen(a)

\* Crash detection condemns no action that is about to start.
DetectStarted ==
    \A v \in Workers : janPc[v] = "detect" =>
        \A a \in janActive[v], w \in Workers : ~Starts(w, a)

ReopenInv == StartStates /\ DetectStarted

LEMMA StartsIs ==
    ASSUME HandoverInv, StartInv, NEW w \in Workers, NEW a \in Actions, Starts(w, a)
    PROVE  /\ Runs(w, a) /\ NeverStarted(a)
           /\ disp[a].pc = "queued"
           /\ \A v \in Workers : dead[v][a].pc # "removed"
           /\ \A v \in Workers : Works(v, a) => v = w
<1>1. Works(w, a) /\ Runs(w, a)
  BY DEF Starts, Runs
<1>2. NeverStarted(a)
  BY DEF Starts, StartInv, MayStartOnce, StartingOnce
<1> QED BY <1>1, <1>2, InHands

LEMMA StartsFrom ==
    ASSUME TypeInv, [Next]_vars, NEW w \in Workers, NEW a \in Actions, Starts(w, a)'
    PROVE  Starts(w, a) \/ (LoadAction(w) /\ cur[w] = a /\ row[a].state = "PENDING")
<1>1. /\ TypeOK /\ BusyHasAction
      /\ pc \in [Workers -> RunnerPc]
      /\ cur \in [Workers -> Actions \cup {NoAction}]
      /\ loaded \in [Workers -> ActionState]
  BY DEF TypeInv, TypeOK, RunnerTypeOK
<1>2. ASSUME pc'[w] = pc[w] /\ cur'[w] = cur[w] /\ loaded'[w] = loaded[w]
      PROVE  Starts(w, a)
  BY <1>2 DEF Starts, Works
<1>3. ASSUME NEW v \in Workers, StartSteps(v) \/ ExitSteps(v), v # w
      PROVE  Starts(w, a)
  BY <1>1, <1>2, <1>3, PipelineLocal
<1>4. CASE LoadAction(w)
  BY <1>1, <1>4 DEF LoadAction, Goto, Starts, Works
<1>5. CASE StartSteps(w) /\ ~LoadAction(w)
  BY <1>1, <1>5
     DEF StartSteps, LoadFails, RegisterAction, RejectNotPending, CancelledBeforeStart, MayStart,
         MarkStarting, createAPIkey, AccessLost, MarkProcessing, LaunchContainer, StartFails,
         RegisterContainer, Goto, Starts, Works, storeVars
<1>6. CASE ExitSteps(w)
  <2>1. CASE JobCompleted(w) \/ JobFailed(w)
    BY <1>1, <2>1 DEF JobCompleted, JobFailed, Goto, Starts, Works
  <2>2. CASE \/ CaptureInfo(w) \/ AwaitExit(w) \/ InspectFails(w) \/ MarkStopping(w)
             \/ ReadBackFails(w) \/ ResolveVerdict(w) \/ WriteVerdict(w) \/ SkipArtifacts(w)
             \/ StartUpload(w) \/ FinishUpload(w) \/ UploadThrows(w) \/ Catch(w) \/ DisposeKey(w)
    BY <1>1, <2>2
       DEF CaptureInfo, AwaitExit, InspectFails, MarkStopping, ReadBackFails, ResolveVerdict,
           WriteVerdict, SkipArtifacts, StartUpload, FinishUpload, UploadThrows, Catch,
           DisposeKey, Goto, Starts, Works
  <2> QED BY <1>6, <2>1, <2>2 DEF ExitSteps
<1>7. CASE \E v \in Workers, b \in Actions : TakeJob(v, b) \/ DeliverCancel(v, b)
  BY <1>1, <1>2, <1>7 DEF TakeJob, DeliverCancel, Goto, Starts, Works
<1>8. CASE \E v \in Workers : Crash(v) \/ Restart(v)
  BY <1>1, <1>2, <1>8 DEF Crash, CrashRunner, Restart, registerRunner, runnerVars, Starts, Works
<1>9. CASE Bystander
  BY <1>2, <1>9 DEF Bystander
<1> QED BY <1>3, <1>4, <1>5, <1>6, <1>7, <1>8, <1>9, StepKinds

\* What the api-server writes of an action that is in a worker's hands.
LEMMA DispatcherInHand ==
    ASSUME TypeOK, DispatcherNext, NEW a \in Actions, disp[a].pc = "queued",
           \A v \in Workers : dead[v][a].pc # "removed"
    PROVE  \/ row'[a].state \in {row[a].state, "ABSENT"}
           \/ row'[a].state = "CANCELLED" /\ req[a].pc = "read"
<1>1. row \in [Actions -> Row]
  BY DEF TypeOK, StoreTypeOK
<1>2. ASSUME NEW b \in Actions,
             SaveAction(b) \/ ChooseWorker(b) \/ NoWorkerFound(b) \/ RejectAction(b)
      PROVE  row'[a] = row[a]
  <2>1. a # b
    BY <1>2 DEF SaveAction, ChooseWorker, NoWorkerFound, RejectAction
  <2> QED BY <1>1, <1>2, <2>1
          DEF SaveAction, ChooseWorker, NoWorkerFound, RejectAction, Update
<1>3. ASSUME NEW w \in Workers, NEW b \in Actions, ChooseNewWorker(w, b)
      PROVE  row'[a] = row[a]
  <2>1. a # b
    BY <1>3 DEF ChooseNewWorker
  <2> QED BY <1>1, <1>3, <2>1 DEF ChooseNewWorker, SaveEntity, Update
<1>4. ASSUME NEW b \in Actions, StopSave(b)
      PROVE  row'[a] = row[a] \/ (row'[a].state = "CANCELLED" /\ req[a].pc = "read")
  <2>1. req[b].entity \in Row
    BY DEF TypeOK, DispatcherTypeOK
  <2>2. [req[b].entity EXCEPT !.state = "CANCELLED"].state = "CANCELLED"
    BY <2>1 DEF Row
  <2> QED BY <1>1, <1>4, <2>2 DEF StopSave, SaveEntity, Update
<1>5. ASSUME NEW b \in Actions, NEW s \in Diagnostics, RecordDiagnostic(b, s)
      PROVE  row'[a].state = row[a].state
  <2>1. RaiseSeverity(b, s).state = row[b].state
    BY <1>1, RowStates, DispatcherAssumption
  <2> QED BY <1>1, <1>5, <2>1 DEF RecordDiagnostic
<1>6. ASSUME NEW b \in Actions, DeleteAction(b)
      PROVE  row'[a].state \in {row[a].state, "ABSENT"}
  BY <1>1, <1>6 DEF DeleteAction, AbsentRow
<1>7. ASSUME NEW b \in Actions,
             \/ AddJob(b) \/ AddJobFails(b) \/ RefreshAndRetry(b) \/ Cancel(b) \/ StopRead(b)
             \/ StopPublish(b)
      PROVE  row' = row
  BY <1>7 DEF AddJob, AddJobFails, RefreshAndRetry, Cancel, StopRead, StopPublish, storeVars
<1>8. ASSUME HealthCheckNext, \A w \in Workers, b \in Actions : ~ChooseNewWorker(w, b)
      PROVE  row' = row
  BY <1>8 DEF HealthCheckNext, DetectDeadWorker, ReadDeadJob, RemoveDeadJob, RequeueJob,
              RequeueLosesJob, FinishHealthCheck, OpenQueues, storeVars
<1> QED
  BY <1>2, <1>3, <1>4, <1>5, <1>6, <1>7, <1>8 DEF DispatcherNext, DispatchNext, StopNext

LEMMA StartStatesStep ==
    ASSUME TypeInv, HandoverInv, StartInv, HookOver, JanitorInv, Records, ReopenInv, [Next]_vars
    PROVE  StartStates'
<1> SUFFICES ASSUME NEW w \in Workers, NEW a \in Actions, Starts(w, a)'
             PROVE  row'[a].state \in {"ABSENT", "PENDING", "STARTING"} \/ MayReopen(a)'
  BY DEF StartStates
<1> DEFINE Goal == row'[a].state \in {"ABSENT", "PENDING", "STARTING"} \/ MayReopen(a)'
<1>1. /\ TypeOK /\ BusyHasAction
      /\ row \in [Actions -> Row]
      /\ \A b \in Actions : row[b].worker \in Workers \cup {NoWorker}
  BY DEF TypeInv, TypeOK, StoreTypeOK, Row
<1>2. req[a].n > 0 => req'[a].n > 0
  BY RequestMovesOnly DEF RequestMoves
<1>3. ASSUME NEW v \in Workers, epoch[v] >= 2
      PROVE  epoch'[v] >= 2
  BY <1>3, EpochGrows
<1>4. CASE LoadAction(w) /\ cur[w] = a /\ row[a].state = "PENDING"
  <2>1. [row[a] EXCEPT !.worker = w].state = row[a].state
    BY <1>1, EditStates
  <2> QED BY <1>1, <1>4, <2>1 DEF LoadAction, Update
<1>5. CASE Starts(w, a)
  <2>1. /\ Runs(w, a) /\ NeverStarted(a) /\ disp[a].pc = "queued"
        /\ \A v \in Workers : dead[v][a].pc # "removed"
        /\ \A v \in Workers : Works(v, a) => v = w
    BY <1>5, StartsIs
  <2>2. ASSUME row'[a].state \in {row[a].state, "ABSENT"}
        PROVE  Goal
    BY <1>2, <1>3, <1>5, <2>2 DEF ReopenInv, StartStates, MayReopen
  <2>3. ASSUME NEW b, NEW new, Update(b, new), b # a
        PROVE  Goal
    BY <1>1, <2>2, <2>3 DEF Update
  <2>4. CASE StoreNext
    BY <2>2, <2>4 DEF StoreNext, ContainerExit, DockerRemove, RuntimeExpires
  <2>5. CASE DispatcherNext
    <3>1. ASSUME row'[a].state = "CANCELLED", req[a].pc = "read"
          PROVE  Goal
      BY <1>2, <3>1 DEF Records, MayReopen
    <3> QED BY <1>1, <2>1, <2>2, <2>5, <3>1, DispatcherInHand
  <2>6. ASSUME NEW v \in Workers, StartSteps(v) \/ ExitSteps(v)
        PROVE  Goal
    <3>1. CASE cur[v] # a
      BY <1>1, <2>2, <2>6, <3>1, PipelineRows
    <3>2. CASE cur[v] = a
      <4>1. v = w
        BY <1>1, <2>1, <2>6, <3>2, PipelineBusy DEF Works
      <4>2. CASE MarkStarting(w)
        <5>1. [row[a] EXCEPT !.state = "STARTING"].state = "STARTING"
          BY <1>1 DEF Row
        <5> QED BY <1>1, <2>2, <3>2, <4>1, <4>2, <5>1 DEF MarkStarting, Update
      <4>3. CASE RegisterAction(w) \/ createAPIkey(w)
        BY <2>2, <4>3 DEF RegisterAction, createAPIkey, storeVars
      <4>4. CASE StartSteps(w) /\ ~MarkStarting(w) /\ ~RegisterAction(w) /\ ~createAPIkey(w)
        BY <1>1, <1>5, <3>2, <4>4
           DEF StartSteps, LoadAction, LoadFails, RejectNotPending, CancelledBeforeStart,
               MayStart, AccessLost, MarkProcessing, LaunchContainer, StartFails,
               RegisterContainer, Goto, Starts, Works, TypeOK, RunnerTypeOK, storeVars
      <4>5. CASE ExitSteps(w)
        BY <1>5, <4>5
           DEF ExitSteps, CaptureInfo, AwaitExit, InspectFails, MarkStopping, ReadBackFails,
               ResolveVerdict, WriteVerdict, SkipArtifacts, StartUpload, FinishUpload,
               UploadThrows, Catch, DisposeKey, JobCompleted, JobFailed, Goto, Starts, Works
      <4> QED BY <2>6, <4>1, <4>2, <4>3, <4>4, <4>5
    <3> QED BY <3>1, <3>2
  <2>7. ASSUME NEW v \in Workers, NEW b \in Actions, QueueSteps(v, b)
        PROVE  Goal
    <3>1. ~Ended(v, a)
      BY <2>1 DEF HookOver
    <3>2. CASE markJobAsCompleted(v, b)
      <4>1. b # a
        BY <3>1, <3>2 DEF markJobAsCompleted, Ended
      <4> QED BY <2>2, <2>3, <3>2, <4>1 DEF markJobAsCompleted, SaveEntity
    <3>3. CASE handleUnexpectedError(v, b)
      <4> DEFINE new == [UnexpectedError(hook[v][b].entity) EXCEPT !.worker = row[b].worker]
      <4>1. hook[v][b].entity \in Row
        BY <1>1 DEF TypeOK, RunnerTypeOK
      <4>2. UnexpectedError(hook[v][b].entity) \in Row
        BY <1>1, <4>1, RowHelpers
      <4>3. new.state = "FAILED"
        BY <1>1, <4>1, <4>2, RowStates, EditStates
      <4>4. Update(b, new)
        BY <3>3 DEF handleUnexpectedError, SaveEntity
      <4>5. CASE b # a
        BY <2>3, <4>4, <4>5
      <4>6. CASE b = a
        <5>1. epoch[v] \in Nat
          BY EpochGrows
        <5>2. epoch[v] >= 2
          BY <3>1, <3>3, <4>6, <5>1 DEF handleUnexpectedError, Ended
        <5>3. row'[a].state \in {row[a].state, "FAILED"}
          BY <1>1, <4>3, <4>4, <4>6 DEF Update
        <5> QED BY <1>3, <2>2, <5>2, <5>3 DEF MayReopen
      <4> QED BY <4>5, <4>6
    <3>4. CASE \/ HookRead(v, b) \/ HookThrows(v, b) \/ PromoteDelayed(v, b) \/ StalledJob(v, b)
               \/ StalledTwice(v, b)
      BY <2>2, <3>4
         DEF HookRead, HookThrows, PromoteDelayed, StalledJob, StalledTwice, storeVars
    <3> QED BY <2>7, <3>2, <3>3, <3>4 DEF QueueSteps
  <2>8. ASSUME NEW v \in Workers, performReconciliation(v)
        PROVE  Goal
    <3>1. CASE MarkTimedOut(v) \/ MarkInterrupted(v)
      <4>1. /\ janAt[v][1] \in Runners
            /\ cont[janAt[v][1]][janAt[v][2]].st # "none"
        BY <3>1 DEF MarkTimedOut, MarkInterrupted, At, JanitorInv, JanitorKnows
      <4>2. janAt[v][2] # a
        BY <2>1, <4>1 DEF NeverStarted
      <4> QED BY <2>3, <3>1, <4>2 DEF MarkTimedOut, MarkInterrupted, markActionAsFailed
    <3>2. ASSUME NEW c \in Runners \X Actions, MarkZombie(v, c)
          PROVE  Goal
      <4>1. cont[c[1]][c[2]].st # "none"
        BY <3>2 DEF MarkZombie, Visit, JanitorInv, JanitorKnows
      <4>2. c[2] # a
        BY <2>1, <4>1 DEF NeverStarted
      <4> QED BY <1>1, <2>2, <3>2, <4>2 DEF MarkZombie
    <3>3. ASSUME NEW b \in Actions, MarkCrashed(v, b)
          PROVE  Goal
      <4>1. b # a
        BY <1>5, <3>3 DEF MarkCrashed, ReopenInv, DetectStarted
      <4> QED BY <2>3, <3>3, <4>1 DEF MarkCrashed
    <3>4. CASE \/ ListContainers(v) \/ ReadActive(v) \/ DetectCrashed(v) \/ FinishPass(v)
               \/ KillZombie(v)
               \/ \E c \in Runners \X Actions : LeaveAlone(v, c) \/ KillFirst(v, c)
      BY <2>2, <3>4
         DEF ListContainers, ReadActive, DetectCrashed, FinishPass, KillZombie, LeaveAlone,
             KillFirst, storeVars
    <3> QED BY <2>8, <3>1, <3>2, <3>3, <3>4 DEF performReconciliation, Sweep
  <2>9. CASE JanitorNext
    BY <2>2, <2>8, <2>9 DEF JanitorNext, RunnerGoesInactive, storeVars
  <2>10. CASE RunnerNext
    BY <2>2, <2>6, <2>7, <2>10 DEF RunnerNext, ProcessNext, TakeJob, DeliverCancel
  <2>11. CASE UNCHANGED vars \/ \E v \in Workers : Crash(v) \/ Restart(v)
    BY <2>2, <2>11 DEF vars, storeVars, Crash, CrashRunner, Restart, registerRunner
  <2> HIDE DEF Goal
  <2> QED BY <2>4, <2>5, <2>9, <2>10, <2>11 DEF Next
<1> QED BY <1>4, <1>5, StartsFrom

LEMMA DetectStartedStep ==
    ASSUME TypeInv, DetectSeen, ReopenInv, [Next]_vars
    PROVE  DetectStarted'
<1> SUFFICES ASSUME NEW v \in Workers, janPc'[v] = "detect", NEW a \in janActive'[v],
                    NEW w \in Workers, Starts(w, a)'
             PROVE  FALSE
  BY DEF DetectStarted
<1>1. a \in Actions
  BY TypeInvStep DEF TypeInv, TypeOK, JanitorTypeOK
<1>2. Starts(w, a) \/ row[a].state = "PENDING"
  BY <1>1, StartsFrom
<1>3. CASE janPc[v] = "detect" /\ a \in janActive[v]
  BY <1>2, <1>3 DEF ReopenInv, DetectStarted, DetectSeen, Begun
<1>4. CASE row[a].state = "PROCESSING"
  BY <1>1, <1>2, <1>4 DEF ReopenInv, StartStates, MayReopen
<1> QED BY <1>1, <1>3, <1>4, DetectFrom

LEMMA ReopenStep ==
    ASSUME TypeInv, HandoverInv, StartInv, HealthInv, Records, ReopenInv, [Next]_vars
    PROVE  ReopenInv'
BY StartStatesStep, DetectStartedStep DEF HealthInv, ReopenInv

\* A final row is shown as being run again only by the run that found it PENDING: by
\* setting STARTING or PROCESSING, in executeProcessAction, over a state it has not
\* looked at again. What it writes over is CANCELLED, by a cancellation that came in
\* between, or FAILED, by the hook of a job that the queue gave up at the second crash
\* of a consumer; never DONE or UNPROCESSABLE. Other changes of a final row lead to
\* another final state.
ReopenedByItsRun ==
    [][\A a \in Actions : isTerminalActionState(row[a].state) /\ Unfinished(a)' =>
        /\ \E w \in Workers : cur[w] = a /\ (MarkStarting(w) \/ MarkProcessing(w))
        /\ \/ row[a].state = "CANCELLED" /\ req[a].n > 0
           \/ row[a].state = "FAILED" /\ \E v \in Workers : epoch[v] >= 2]_vars

LEMMA ReopensByRun ==
    ASSUME TypeInv, Unborn, ReopenInv, [Next]_vars, NEW a \in Actions,
           isTerminalActionState(row[a].state), Unfinished(a)'
    PROVE  MayReopen(a) /\ \E w \in Workers : cur[w] = a /\ (MarkStarting(w) \/ MarkProcessing(w))
<1>1. /\ TypeOK /\ BusyHasAction
      /\ row \in [Actions -> Row]
      /\ row[a].state \notin {"ABSENT", "PENDING", "STARTING"}
  BY DEF TypeInv, TypeOK, StoreTypeOK, isTerminalActionState, TERMINAL_ACTION_STATES
<1>2. row'[a].state \notin {row[a].state, "ABSENT"} \cup TERMINAL_ACTION_STATES
  BY FinalFinishes DEF Unfinished, isTerminalActionState
<1>3. ASSUME NEW w \in Workers, StartSteps(w) \/ ExitSteps(w)
      PROVE  cur[w] = a /\ (MarkStarting(w) \/ MarkProcessing(w))
  <2>1. cur[w] = a /\ OnTheWay(w, row'[a].state)
    BY <1>1, <1>2, <1>3, PipelineRows
  <2>2. ~MarkStopping(w)
    BY <1>2, <2>1 DEF MarkStopping
  <2> QED BY <2>1, <2>2 DEF OnTheWay
<1>4. ASSUME NEW w \in Workers, cur[w] = a, MarkStarting(w) \/ MarkProcessing(w)
      PROVE  MayReopen(a)
  <2>1. Starts(w, a)
    BY <1>4 DEF MarkStarting, MarkProcessing, MayStart, Goto, Starts, Works
  <2> QED BY <1>1, <2>1 DEF ReopenInv, StartStates
<1>5. ASSUME NEW b \in Actions, SaveAction(b)
      PROVE  FALSE
  <2>1. b # a
    BY <1>1, <1>5 DEF SaveAction, Unborn, Exists
  <2> QED BY <1>1, <1>2, <1>5, <2>1 DEF SaveAction
<1>6. CASE Bystander
  BY <1>2, <1>5, <1>6 DEF Bystander, FinalOnly
<1>7. CASE \E w \in Workers, b \in Actions : TakeJob(w, b) \/ DeliverCancel(w, b)
  BY <1>2, <1>7 DEF TakeJob, DeliverCancel
<1>8. CASE \E w \in Workers : Crash(w) \/ Restart(w)
  BY <1>2, <1>8 DEF Crash, CrashRunner, Restart, registerRunner
<1> QED BY <1>3, <1>4, <1>6, <1>7, <1>8, StepKinds

LEMMA ReopenInit == ASSUME Init PROVE ReopenInv
BY DEF Init, RunnerInit, JanitorInit, ReopenInv, StartStates, DetectStarted, Starts, Works

\* What holds of final states although TerminalIsFinal does not: hooks, janitor,
\* health check and cancellation, whose saves may be stale, only replace one final state
\* by another, and a run writes over one in the two ways of ReopenedByItsRun alone, for
\* every number of workers, crashes and cancellations.
THEOREM FinalReopenedByItsRun == Spec => ReopenedByItsRun
<1> DEFINE I == /\ TypeInv /\ HandoverInv /\ StartInv /\ HealthInv
                /\ QuietHealth /\ UploadInv /\ ReopenInv
           A == \A a \in Actions : isTerminalActionState(row[a].state) /\ Unfinished(a)' =>
                  /\ \E w \in Workers : cur[w] = a /\ (MarkStarting(w) \/ MarkProcessing(w))
                  /\ \/ row[a].state = "CANCELLED" /\ req[a].n > 0
                     \/ row[a].state = "FAILED" /\ \E v \in Workers : epoch[v] >= 2
<1>1. Init => I
  BY TypeInvInit, HandoverInit, StartInit, HealthInit, OrphanInit, UploadInit, ReopenInit
     DEF OrphanInv
<1>2. I /\ [Next]_vars => I'
  BY TypeInvStep, HandoverStep, StartStep, HealthStep, CareEnds, UploadStep, ReopenStep
     DEF UploadInv
<1>3. Spec => []I
  <2> HIDE DEF I
  <2> QED BY <1>1, <1>2, PTL DEF Spec
<1>4. I /\ [Next]_vars => [A]_vars
  BY ReopensByRun DEF HealthInv, MayReopen
<1> QED BY <1>3, <1>4, PTL DEF Spec, ReopenedByItsRun
=============================================================================
