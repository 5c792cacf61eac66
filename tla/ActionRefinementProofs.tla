----------------------- MODULE ActionRefinementProofs -----------------------
(***************************************************************************)
(* ActionSystem implements JobCustody, for every value of the constants:   *)
(* Init maps to its initial state, and every step to one of its steps or   *)
(* to a stutter. Rests on the invariants of ActionSafetyProofs.            *)
(***************************************************************************)
EXTENDS ActionSafetyProofs

\* The job that is active is in the hands of somebody who is working on it ...
Attended ==
    \A a \in Actions : job[a].st = "active" => \E w \in Workers : Works(w, a)

\* ... and an idle worker has none.
IdleIsFree == \A w \in Workers : pc[w] = "idle" => cur[w] = NoAction

CustodyInv == Attended /\ IdleIsFree

\* No worker takes a job or lets go of one.
IdleKept == \A w \in Workers : pc'[w] = "idle" <=> pc[w] = "idle"

\* What has to be shown of each step.
CustodyStep == CustodyInv' /\ (Custody!Next \/ UNCHANGED Custody!vars)
-----------------------------------------------------------------------------
LEMMA CustodyFrame ==
    ASSUME CustodyInv, cur' = cur, IdleKept,
           \A a \in Actions : job'[a].st = "active" => job[a].st = "active"
    PROVE  CustodyInv'
BY DEF CustodyInv, Attended, IdleIsFree, IdleKept, Works

LEMMA StartedSame == ASSUME StartedKept PROVE Started' = Started
<1>1. \A c \in Runners \X Actions : c[1] \in Runners /\ c[2] \in Actions
  OBVIOUS
<1> QED BY <1>1 DEF StartedKept, Started

LEMMA CustodyStutters ==
    ASSUME CustodyInv, UNCHANGED <<job, cur>>, IdleKept, StartedKept
    PROVE  CustodyStep
<1>1. [a \in Actions |-> Place(a)]' = [a \in Actions |-> Place(a)]
  BY DEF Place
<1>2. Started' = Started
  BY StartedSame
<1>3. UNCHANGED Custody!vars
  BY <1>1, <1>2 DEF Custody!vars
<1> QED BY <1>3, CustodyFrame DEF CustodyStep

\* The places of the other jobs when the job of one action moves.
LEMMA PlacesOfOthers ==
    ASSUME NEW a \in Actions, \A b \in Actions \ {a} : job'[b] = job[b]
    PROVE  [b \in Actions |-> Place(b)]' = [[b \in Actions |-> Place(b)] EXCEPT ![a] = Place(a)']
BY DEF Place

LEMMA CustodyMoves ==
    ASSUME CustodyInv, cur' = cur, IdleKept, StartedKept,
           NEW a \in Actions, job[a].st # "active", job'[a].st # "active",
           \A b \in Actions \ {a} : job'[b] = job[b]
    PROVE  CustodyStep
<1>1. Place(a) # "held" /\ Place(a)' \in {"nowhere", "queued"}
  BY DEF Place
<1>2. Started' = Started
  BY StartedSame
<1>3. Custody!Move(a)
  BY <1>1, <1>2, PlacesOfOthers DEF Custody!Move, Custody!Unattended
<1>4. CustodyInv'
  BY CustodyFrame
<1> QED BY <1>3, <1>4 DEF CustodyStep, Custody!Next
-----------------------------------------------------------------------------
(* The steps that leave the workers alone.                                 *)

LEMMA CustodyDispatch ==
    ASSUME TypeOK, HandoverInv, CustodyInv, UNCHANGED <<pc, cur>>,
           NEW a \in Actions, SaveAction(a) \/ DispatchNext(a), StartedKept
    PROVE  CustodyStep
<1>1. IdleKept
  BY DEF IdleKept
<1>2. CASE AddJob(a)
  <2>1. job[a].st = "none"
    BY <1>2 DEF AddJob, HandoverInv, QueuedByDispatch
  <2>2. job \in [Actions -> Job] /\ job' = [job EXCEPT ![a] = WaitingJob(disp[a].w)]
    BY <1>2 DEF AddJob, TypeOK, StoreTypeOK
  <2>3. job'[a].st = "waiting" /\ \A b \in Actions \ {a} : job'[b] = job[b]
    BY <2>2 DEF WaitingJob
  <2> QED BY <1>1, <2>1, <2>3, CustodyMoves
<1>3. CASE \/ SaveAction(a) \/ ChooseWorker(a) \/ NoWorkerFound(a) \/ AddJobFails(a)
           \/ RefreshAndRetry(a) \/ RejectAction(a)
  <2>1. job' = job
    BY <1>3
       DEF SaveAction, ChooseWorker, NoWorkerFound, AddJobFails, RefreshAndRetry,
           RejectAction, storeVars
  <2> QED BY <1>1, <2>1, CustodyStutters
<1> QED BY <1>2, <1>3 DEF DispatchNext

LEMMA CustodyRequests ==
    ASSUME TypeOK, CustodyInv, UNCHANGED <<pc, cur>>, StartedKept, NEW a \in Actions,
           \/ Cancel(a) \/ StopNext(a) \/ DeleteAction(a)
           \/ \E s \in Diagnostics : RecordDiagnostic(a, s)
    PROVE  CustodyStep
<1>1. IdleKept
  BY DEF IdleKept
<1>2. job' = job \/ (job[a].st # "active" /\ job' = [job EXCEPT ![a] = NoJob])
  <2>1. CASE StopPublish(a)
    BY <2>1 DEF StopPublish, Locked
  <2>2. CASE \/ Cancel(a) \/ StopRead(a) \/ StopSave(a) \/ DeleteAction(a)
             \/ \E s \in Diagnostics : RecordDiagnostic(a, s)
    BY <2>2 DEF Cancel, StopRead, StopSave, DeleteAction, RecordDiagnostic, storeVars
  <2> QED BY <2>1, <2>2 DEF StopNext
<1>3. CASE job' = job
  BY <1>1, <1>3, CustodyStutters
<1>4. CASE job[a].st # "active" /\ job' = [job EXCEPT ![a] = NoJob]
  <2>1. job'[a].st # "active" /\ \A b \in Actions \ {a} : job'[b] = job[b]
    BY <1>4 DEF NoJob, TypeOK, StoreTypeOK
  <2> QED BY <1>1, <1>4, <2>1, CustodyMoves
<1> QED BY <1>2, <1>3, <1>4

LEMMA CustodyHealthCheck ==
    ASSUME TypeOK, HandoverInv, CustodyInv, UNCHANGED <<pc, cur>>, StartedKept, HealthCheckNext
    PROVE  CustodyStep
<1>1. IdleKept /\ job \in [Actions -> Job]
  BY DEF IdleKept, TypeOK, StoreTypeOK
<1>2. ASSUME NEW w \in Workers, NEW a \in Actions, RemoveDeadJob(w, a)
      PROVE  CustodyStep
  <2>1. CASE job' = job
    BY <1>1, <2>1, CustodyStutters
  <2>2. CASE job' # job
    <3>1. /\ job[a].st # "active"
          /\ job' = [job EXCEPT ![a] = IF @.q = w THEN NoJob ELSE @]
      BY <1>2, <2>2 DEF RemoveDeadJob, Locked
    <3>2. job'[a].st # "active" /\ \A b \in Actions \ {a} : job'[b] = job[b]
      BY <1>1, <3>1 DEF NoJob
    <3> QED BY <1>1, <3>1, <3>2, CustodyMoves
  <2> QED BY <2>1, <2>2
<1>3. ASSUME NEW w \in Workers, NEW a \in Actions, RequeueJob(w, a)
      PROVE  CustodyStep
  <2>1. job[a].st = "none"
    BY <1>3 DEF RequeueJob, HandoverInv, MovedFromDead
  <2>2. job'[a].st = "waiting" /\ \A b \in Actions \ {a} : job'[b] = job[b]
    BY <1>1, <1>3 DEF RequeueJob, WaitingJob
  <2> QED BY <1>1, <2>1, <2>2, CustodyMoves
<1>4. CASE job' = job
  BY <1>1, <1>4, CustodyStutters
<1>5. ASSUME NEW w \in Workers,
             \/ DetectDeadWorker(w) \/ FinishHealthCheck(w) \/ OpenQueues
             \/ \E a \in Actions :
                   ReadDeadJob(w, a) \/ ChooseNewWorker(w, a) \/ RequeueLosesJob(w, a)
      PROVE  job' = job
  BY <1>5 DEF DetectDeadWorker, FinishHealthCheck, OpenQueues, ReadDeadJob, ChooseNewWorker,
              RequeueLosesJob, storeVars
<1>6. OpenQueues => job' = job
  BY DEF OpenQueues, storeVars
<1> QED BY <1>2, <1>3, <1>4, <1>5, <1>6 DEF HealthCheckNext

LEMMA CustodyQueue ==
    ASSUME TypeOK, CustodyInv, NEW w \in Workers, NEW a \in Actions, QueueSteps(w, a)
    PROVE  CustodyStep
<1>1. job \in [Actions -> Job] /\ job[a] \in Job
  BY DEF TypeOK, StoreTypeOK
<1>2. UNCHANGED <<pc, cur, cont>>
  BY DEF QueueSteps, HookRead, markJobAsCompleted, handleUnexpectedError, HookThrows,
         PromoteDelayed, StalledJob, StalledTwice, runnerVars, storeVars
<1>3. IdleKept /\ StartedKept
  BY <1>2 DEF IdleKept, StartedKept
<1>4. CASE job' = job
  BY <1>2, <1>3, <1>4, CustodyStutters
<1>5. ASSUME NEW new, job[a].st # "active", new.st # "active",
             job' = [job EXCEPT ![a] = new]
      PROVE  CustodyStep
  <2>1. job'[a].st # "active" /\ \A b \in Actions \ {a} : job'[b] = job[b]
    BY <1>1, <1>5
  <2> QED BY <1>2, <1>3, <1>5, <2>1, CustodyMoves
<1>6. CASE HookRead(w, a)
  <2>1. job' = job \/ (job[a].st # "active" /\ job' = [job EXCEPT ![a] = NoJob])
    BY <1>6 DEF HookRead, HoldsLock
  <2>2. NoJob.st # "active"
    BY DEF NoJob
  <2> QED BY <1>4, <1>5, <2>1, <2>2
<1>7. CASE markJobAsCompleted(w, a) \/ handleUnexpectedError(w, a) \/ HookThrows(w, a)
  BY <1>4, <1>7 DEF markJobAsCompleted, handleUnexpectedError, HookThrows, storeVars
<1>8. CASE PromoteDelayed(w, a) \/ StalledJob(w, a) \/ StalledTwice(w, a)
  <2> DEFINE waiting == [job[a] EXCEPT !.st = "waiting"]
             stalled == [job[a] EXCEPT !.st = "waiting", !.stalled = TRUE]
             failed == [job[a] EXCEPT !.st = "failed"]
  <2>1. waiting.st # "active" /\ stalled.st # "active" /\ failed.st # "active"
    BY <1>1 DEF Job
  <2>2. /\ job[a].st # "active"
        /\ \/ job' = [job EXCEPT ![a] = waiting]
           \/ job' = [job EXCEPT ![a] = stalled]
           \/ job' = [job EXCEPT ![a] = failed]
    BY <1>1, <1>8 DEF PromoteDelayed, StalledJob, StalledTwice
  <2> HIDE DEF waiting, stalled, failed
  <2> QED BY <1>5, <2>1, <2>2
<1> QED BY <1>6, <1>7, <1>8 DEF QueueSteps
-----------------------------------------------------------------------------
(* The steps of the workers.                                               *)

LEMMA CustodyTake ==
    ASSUME TypeOK, CustodyInv, NEW w \in Workers, NEW a \in Actions, TakeJob(w, a)
    PROVE  CustodyStep
<1>1. /\ pc \in [Workers -> RunnerPc]
      /\ cur \in [Workers -> Actions \cup {NoAction}]
      /\ job \in [Actions -> Job]
      /\ job[a].st = "waiting"
      /\ pc[w] = "idle"
      /\ pc' = [pc EXCEPT ![w] = "fetched"]
      /\ cur' = [cur EXCEPT ![w] = a]
  BY DEF TypeOK, StoreTypeOK, RunnerTypeOK, TakeJob, Goto
<1>2. /\ \A b \in Actions \ {a} : job'[b] = job[b]
      /\ job'[a].st = "active"
  BY <1>1 DEF TakeJob, Job
<1>3. StartedKept
  BY DEF TakeJob, StartedKept
<1>4. Attended'
  BY <1>1, <1>2 DEF CustodyInv, Attended, Works
<1>5. IdleIsFree'
  BY <1>1 DEF CustodyInv, IdleIsFree
<1>6. Place(a) = "queued" /\ Place(a)' = "held"
  BY <1>1, <1>2 DEF Place
<1>7. cur[w] = NoAction
  BY <1>1 DEF CustodyInv, IdleIsFree
<1>8. Custody!Take(w, a)
  BY <1>1, <1>2, <1>3, <1>6, <1>7, PlacesOfOthers, StartedSame DEF Custody!Take
<1> QED BY <1>4, <1>5, <1>8 DEF CustodyStep, CustodyInv, Custody!Next

\* A worker that becomes idle puts its job back, or is done with it.
LEMMA CustodyReleases ==
    ASSUME TypeOK, HandoverInv, CustodyInv, StartedKept,
           NEW w \in Workers, NEW a \in Actions, Works(w, a),
           pc' = [pc EXCEPT ![w] = "idle"], cur' = [cur EXCEPT ![w] = NoAction],
           job'[a].st # "active", \A b \in Actions \ {a} : job'[b] = job[b]
    PROVE  CustodyStep
<1>1. /\ pc \in [Workers -> RunnerPc]
      /\ cur \in [Workers -> Actions \cup {NoAction}]
      /\ cur[w] = a /\ job[a].st = "active"
  BY DEF TypeOK, RunnerTypeOK, Works, HandoverInv, WorkerHoldsJob, HoldsLock
<1>2. Attended'
  BY <1>1 DEF CustodyInv, Attended, Works
<1>3. IdleIsFree'
  BY <1>1 DEF CustodyInv, IdleIsFree
<1>4. Place(a) = "held" /\ Place(a)' \in {"nowhere", "queued"}
  BY <1>1 DEF Place
<1>5. Custody!Release(w, a)
  BY <1>1, <1>4, PlacesOfOthers, StartedSame DEF Custody!Release, Custody!Unattended
<1> QED BY <1>2, <1>3, <1>5 DEF CustodyStep, CustodyInv, Custody!Next

\* A container is started by the worker that has the job, and is the first one.
LEMMA CustodyStarts ==
    ASSUME TypeOK, BusyHasAction, StartInv, CustodyInv, NEW w \in Workers,
           LaunchContainer(w) \/ StartFails(w)
    PROVE  CustodyStep
<1> DEFINE a == cur[w]
           c == cont[Me(w)][cur[w]]
<1>1. /\ pc \in [Workers -> RunnerPc]
      /\ cont \in [Runners -> [Actions -> Container]]
      /\ a \in Actions
      /\ Me(w) \in Runners /\ Me(w)[1] = w
      /\ pc[w] \in {"keyed", "processing"}
      /\ Works(w, a)
  <2>1. StartSteps(w)
    BY DEF StartSteps
  <2>2. pc[w] \in {"keyed", "processing"}
    BY DEF LaunchContainer, StartFails, Goto
  <2> QED
    BY <2>1, <2>2, PipelineBusy DEF TypeOK, StoreTypeOK, RunnerTypeOK, Me, Runners, Works
<1>2. NeverStarted(a)
  BY <1>1 DEF StartInv, StartingOnce
<1>3. UNCHANGED <<job, cur>> /\ IdleKept
  BY <1>1 DEF LaunchContainer, StartFails, Goto, IdleKept
<1>4. CASE cont' = cont
  BY <1>3, <1>4, CustodyStutters DEF StartedKept
<1>5. CASE \E st \in {"running", "created"} : cont' = [cont EXCEPT ![Me(w)][a].st = st]
  <2>1. PICK st \in {"running", "created"} : cont' = [cont EXCEPT ![Me(w)][a].st = st]
    BY <1>5
  <2>2. c \in Container
    BY <1>1
  <2>3. cont' = [cont EXCEPT ![Me(w)][a] = [c EXCEPT !.st = st]]
    BY <1>1, <2>1
  <2>4. [c EXCEPT !.st = st].st # "none"
    BY <2>1, <2>2 DEF Container
  <2>5. /\ cont'[Me(w)][a].st # "none"
        /\ \A r \in Runners, b \in Actions : <<r, b>> # <<Me(w), a>> => cont'[r][b] = cont[r][b]
    BY <1>1, <2>3, <2>4
  <2>6. Started' = Started \cup {<<Me(w), a>>}
    <3>1. \A x \in Runners \X Actions : /\ x[1] \in Runners /\ x[2] \in Actions
                                        /\ x = <<x[1], x[2]>>
      OBVIOUS
    <3>2. <<Me(w), a>> \in Runners \X Actions
      BY <1>1
    <3> QED BY <1>1, <2>5, <3>1, <3>2 DEF Started
  <2>7. \A s \in Runners : <<s, a>> \notin Started
    BY <1>2 DEF NeverStarted, Started
  <2>8. [b \in Actions |-> Place(b)]' = [b \in Actions |-> Place(b)]
    BY <1>3 DEF Place
  <2>9. Custody!Start(w, Me(w), a)
    BY <1>1, <1>3, <2>6, <2>7, <2>8 DEF Custody!Start
  <2>10. CustodyInv'
    BY <1>3, CustodyFrame
  <2> QED BY <1>1, <2>9, <2>10 DEF CustodyStep, Custody!Next
<1>6. cont' = cont \/ \E st \in {"running", "created"} : cont' = [cont EXCEPT ![Me(w)][a].st = st]
  BY DEF LaunchContainer, StartFails
<1> QED BY <1>4, <1>5, <1>6

LEMMA CustodyPipeline ==
    ASSUME TypeOK, BusyHasAction, HandoverInv, StartInv, CustodyInv,
           NEW w \in Workers, StartSteps(w) \/ ExitSteps(w)
    PROVE  CustodyStep
<1>1. /\ pc \in [Workers -> RunnerPc]
      /\ job \in [Actions -> Job]
      /\ pc[w] # "idle"
      /\ cur[w] \in Actions
      /\ Works(w, cur[w])
  BY PipelineBusy DEF TypeOK, StoreTypeOK, RunnerTypeOK, Works
<1>2. CASE LaunchContainer(w) \/ StartFails(w)
  BY <1>2, CustodyStarts
<1>3. CASE ~LaunchContainer(w) /\ ~StartFails(w)
  <2>1. StartedKept
    BY <1>3, PipelineKept
  <2>2. CASE JobCompleted(w) \/ JobFailed(w)
    <3> DEFINE delayed == [job[cur[w]] EXCEPT !.st = "delayed"]
    <3>1. delayed.st # "active" /\ NoJob.st # "active"
      BY <1>1 DEF Job, NoJob
    <3>2. /\ pc' = [pc EXCEPT ![w] = "idle"]
          /\ cur' = [cur EXCEPT ![w] = NoAction]
          /\ job' = [job EXCEPT ![cur[w]] = NoJob] \/ job' = [job EXCEPT ![cur[w]] = delayed]
      BY <2>2 DEF JobCompleted, JobFailed, Settle, Goto
    <3> HIDE DEF delayed
    <3>3. job'[cur[w]].st # "active" /\ \A b \in Actions \ {cur[w]} : job'[b] = job[b]
      BY <1>1, <3>1, <3>2
    <3> QED BY <1>1, <2>1, <3>2, <3>3, CustodyReleases
  <2>3. CASE ~(JobCompleted(w) \/ JobFailed(w))
    <3>1. UNCHANGED <<job, cur>> /\ \E to \in RunnerPc \ {"idle"} : pc' = [pc EXCEPT ![w] = to]
      <4>1. CASE StartSteps(w)
        BY <4>1
           DEF StartSteps, Goto, RunnerPc, LoadAction, LoadFails, RegisterAction,
               RejectNotPending, CancelledBeforeStart, MarkStarting, createAPIkey, AccessLost,
               MarkProcessing, LaunchContainer, StartFails, RegisterContainer, storeVars
      <4>2. CASE ExitSteps(w)
        BY <2>3, <4>2
           DEF ExitSteps, Goto, RunnerPc, CaptureInfo, AwaitExit, InspectFails, MarkStopping,
               ReadBackFails, ResolveVerdict, WriteVerdict, SkipArtifacts, StartUpload,
               FinishUpload, UploadThrows, Catch, DisposeKey, storeVars
      <4> QED BY <4>1, <4>2
    <3>2. IdleKept
      BY <1>1, <3>1 DEF IdleKept
    <3> QED BY <2>1, <3>1, <3>2, CustodyStutters
  <2> QED BY <2>2, <2>3
<1> QED BY <1>2, <1>3

\* A crash takes the job from the worker that had it, if it had one.
LEMMA CustodyCrash ==
    ASSUME TypeOK, BusyHasAction, HandoverInv, CustodyInv, NEW w \in Workers, Crash(w)
    PROVE  CustodyStep
<1>1. /\ pc \in [Workers -> RunnerPc]
      /\ cur \in [Workers -> Actions \cup {NoAction}]
      /\ job \in [Actions -> Job]
      /\ pc' = [pc EXCEPT ![w] = "idle"]
      /\ cur' = [cur EXCEPT ![w] = NoAction]
      /\ cont' = cont
  BY DEF TypeOK, StoreTypeOK, RunnerTypeOK, Crash, CrashRunner
<1>2. \A a \in Actions :
        /\ HoldsLock(w, a) => job'[a].st # "active"
        /\ ~HoldsLock(w, a) => job'[a] = job[a]
  BY <1>1 DEF Crash, CrashRunner, HoldsLock, Job
<1>3. StartedKept
  BY <1>1 DEF StartedKept
<1>4. \A a \in Actions : HoldsLock(w, a) => Works(w, a)
  BY DEF CustodyInv, Attended, HandoverInv, WorkerHoldsJob, HoldsLock
<1>5. CASE pc[w] = "idle"
  <2>1. \A a \in Actions : job'[a] = job[a]
    BY <1>2, <1>4, <1>5 DEF Works
  <2>2. job' = job
    BY <1>1, <2>1 DEF Crash, CrashRunner
  <2>3. cur' = cur /\ IdleKept
    BY <1>1, <1>5 DEF CustodyInv, IdleIsFree, IdleKept
  <2> QED BY <1>3, <2>2, <2>3, CustodyStutters
<1>6. CASE pc[w] # "idle"
  <2>1. cur[w] \in Actions /\ Works(w, cur[w])
    BY <1>6 DEF BusyHasAction, Works
  <2>2. HoldsLock(w, cur[w]) /\ \A b \in Actions \ {cur[w]} : ~HoldsLock(w, b)
    BY <1>4, <2>1 DEF HandoverInv, WorkerHoldsJob, Works
  <2>3. job'[cur[w]].st # "active" /\ \A b \in Actions \ {cur[w]} : job'[b] = job[b]
    BY <1>2, <2>1, <2>2
  <2> QED BY <1>1, <1>3, <2>1, <2>3, CustodyReleases
<1> QED BY <1>5, <1>6

LEMMA CustodyInit == Init => CustodyInv /\ Custody!Init
<1> SUFFICES ASSUME Init PROVE CustodyInv /\ Custody!Init
  OBVIOUS
<1>1. /\ job = [a \in Actions |-> NoJob] /\ cur = [w \in Workers |-> NoAction]
      /\ cont = [r \in Runners |-> [a \in Actions |-> NoContainer]]
  BY DEF Init, StoreInit, RunnerInit
<1>2. [a \in Actions |-> Place(a)] = [a \in Actions |-> "nowhere"]
  BY <1>1 DEF Place, NoJob
<1>3. Started = {}
  <2>1. \A c \in Runners \X Actions : c[1] \in Runners /\ c[2] \in Actions
    OBVIOUS
  <2> QED BY <1>1, <2>1 DEF Started, NoContainer
<1>4. CustodyInv
  BY <1>1 DEF CustodyInv, Attended, IdleIsFree, NoJob
<1> QED BY <1>1, <1>2, <1>3, <1>4 DEF Custody!Init

LEMMA CustodyNext ==
    ASSUME TypeInv, HandoverInv, StartInv, CustodyInv, [Next]_vars
    PROVE  CustodyStep
<1>1. TypeOK /\ BusyHasAction
  BY DEF TypeInv
<1>2. ASSUME UNCHANGED <<job, pc, cur>>, StartedKept
      PROVE  CustodyStep
  BY <1>2, CustodyStutters DEF IdleKept
<1>3. CASE DispatcherNext /\ UNCHANGED <<runnerVars, janitorVars>>
  <2>1. StartedKept /\ UNCHANGED <<pc, cur>>
    BY <1>3, DispatcherKept DEF runnerVars
  <2> QED
    BY <1>1, <1>3, <2>1, CustodyDispatch, CustodyRequests, CustodyHealthCheck DEF DispatcherNext
<1>4. ASSUME NEW w \in Workers, NEW a \in Actions, DeliverCancel(w, a)
      PROVE  CustodyStep
  <2>1. KillContainer(Me(w), a) \/ cont' = cont
    BY <1>4 DEF DeliverCancel
  <2>2. StartedKept
    BY <1>1, <2>1, KillKept DEF StartedKept
  <2>3. UNCHANGED <<job, pc, cur>>
    BY <1>4 DEF DeliverCancel
  <2> QED BY <1>2, <2>2, <2>3
<1>5. CASE RunnerNext /\ UNCHANGED <<dispatcherVars, janitorVars>>
  BY <1>1, <1>4, <1>5, CustodyPipeline, CustodyQueue, CustodyTake DEF RunnerNext, ProcessNext
<1>6. CASE StoreNext /\ UNCHANGED <<dispatcherVars, runnerVars, janitorVars>>
  <2>1. UNCHANGED <<job, pc, cur>>
    BY <1>6 DEF StoreNext, ContainerExit, DockerRemove, RuntimeExpires, runnerVars
  <2> QED BY <1>1, <1>2, <1>6, <2>1, StartStore
<1>7. CASE JanitorNext /\ UNCHANGED <<dispatcherVars, runnerVars>>
  <2>1. job' = job
    BY <1>7 DEF JanitorNext, performReconciliation, Sweep, ListContainers, ReadActive, KillFirst,
                MarkTimedOut, MarkInterrupted, markActionAsFailed, MarkZombie, KillZombie,
                LeaveAlone, DetectCrashed, MarkCrashed, FinishPass, RunnerGoesInactive, storeVars
  <2>2. UNCHANGED <<job, pc, cur>>
    BY <1>7, <2>1 DEF runnerVars
  <2> QED BY <1>1, <1>2, <1>7, <2>2, StartJanitor
<1>8. ASSUME NEW w \in Workers, Restart(w)
      PROVE  CustodyStep
  BY <1>2, <1>8 DEF Restart, registerRunner, runnerVars, StartedKept
<1>9. CASE UNCHANGED vars
  BY <1>2, <1>9 DEF vars, storeVars, runnerVars, StartedKept
<1> QED
  BY <1>1, <1>3, <1>5, <1>6, <1>7, <1>8, <1>9, CustodyCrash DEF Next

\* The action subsystem implements JobCustody: whatever the health check, the
\* dispatcher, the hooks and cancellation do, for any number of workers, they
\* leave a job in the hands of the worker that has it, and only that worker
\* starts the container of its action, once.
THEOREM CustodyKept == Spec => ImplementsCustody
<1>1. Spec => [](TypeInv /\ HandoverInv /\ StartInv)
  BY TypeInvInit, TypeInvStep, HandoverInit, HandoverStep, StartInit, StartStep, PTL DEF Spec
<1>2. TypeInv /\ HandoverInv /\ StartInv /\ CustodyInv /\ [Next]_vars
          => CustodyInv' /\ [Custody!Next]_Custody!vars
  BY CustodyNext DEF CustodyStep
<1>3. Spec => Custody!Init /\ [][Custody!Next]_Custody!vars
  BY <1>1, <1>2, CustodyInit, PTL DEF Spec
<1> QED BY <1>3, PTL DEF ImplementsCustody, Custody!Spec
=============================================================================
