-------------------------- MODULE ActionDispatcher --------------------------
(***************************************************************************)
(* The api-server's half of the action subsystem: dispatching a run to a   *)
(* worker's queue, the cron that re-queues the jobs of dead workers,       *)
(* cancelling a run, recording a diagnostic and deleting a finished run.   *)
(* Every await that another process can slip into is a step boundary.      *)
(***************************************************************************)
EXTENDS ActionStore

CONSTANTS
    Fits,               \* workers with the hardware the template asks for
    MaxCancels,         \* bound: cancel requests per action
    Diagnostics,        \* severities a container may report
    DeletesAllowed,     \* users delete finished actions
    RequeueMayFail      \* queue.add may reject while a job is re-queued

ASSUME DispatcherAssumption ==
    /\ Fits \subseteq Workers
    /\ MaxCancels \in Nat
    /\ Diagnostics \subseteq ActionSeverity
    /\ DeletesAllowed \in BOOLEAN
    /\ RequeueMayFail \in BOOLEAN

VARIABLES
    queues,         \* actionQueues: workers the dispatcher holds a queue for
    disp,           \* Actions -> progress of dispatch() and the chosen worker
    req,            \* Actions -> progress of a cancel request and its entity
    hc,             \* dead workers a healthCheck() pass is handling
    dead,           \* Workers -> Actions -> progress of the pass over a job
    lostJobs        \* history: unfinished actions whose job was removed and
                    \* that nobody is bound to finish any more

dispatcherVars == <<queues, disp, req, hc, dead, lostJobs>>

healthVars == <<hc, dead, lostJobs>>

DispPc == {"new", "choose", "add", "refresh", "choose2", "add2", "failed",
           "queued", "rejected"}

ReqPc == {"idle", "checked", "read", "saved"}

DeadJobPc == {"none", "listed", "read", "removed", "add"}

NoDeadJob == [pc |-> "none", entity |-> AbsentRow, to |-> NoWorker]

DispatcherTypeOK ==
    /\ queues \subseteq Workers
    /\ disp \in [Actions -> [pc : DispPc, w : Workers \cup {NoWorker}]]
    /\ req \in [Actions -> [pc : ReqPc, entity : Row, n : 0..MaxCancels]]
    /\ hc \subseteq Workers
    /\ dead \in [Workers -> [Actions ->
                  [pc : DeadJobPc, entity : Row, to : Workers \cup {NoWorker}]]]
    /\ lostJobs \subseteq Actions

DispatcherInit ==
    /\ queues = Workers
    /\ disp = [a \in Actions |-> [pc |-> "new", w |-> NoWorker]]
    /\ req = [a \in Actions |-> [pc |-> "idle", entity |-> AbsentRow, n |-> 0]]
    /\ hc = {}
    /\ dead = [w \in Workers |-> [a \in Actions |-> NoDeadJob]]
    /\ lostJobs = {}
-----------------------------------------------------------------------------
(* Scheduling.                                                             *)

QueueLength(w) ==
    Cardinality({a \in Actions : job[a].q = w /\ job[a].st \in {"waiting", "delayed"}})

Candidates == {w \in Fits \cap queues : reachable[w]}

\* The reachable, capable worker with the shortest queue.
findWorkerForAction ==
    {w \in Candidates : \A v \in Candidates : QueueLength(w) <= QueueLength(v)}

\* Mutant: the state is left out.
UnprocessableStateKept(entity) == [entity EXCEPT !.severity = "ERROR", !.origin = "SYSTEM"]

Unprocessable(entity) ==
    [entity EXCEPT !.state = "UNPROCESSABLE", !.severity = "ERROR", !.origin = "SYSTEM"]

\* Mutant: job.remove() ignores the lock.
LockedNever(a) == FALSE

\* The worker that processes a job holds its lock: it cannot be removed.
Locked(a) == job[a].st = "active"

WaitingJob(w) == [st |-> "waiting", q |-> w, stalled |-> FALSE]

\* A dead worker has not written lastSeen for two minutes.
DeadWorkers == {w \in Workers : reachable[w] /\ ~up[w]}

\* dispatch(): the run is saved as PENDING.
SaveAction(a) ==
    /\ disp[a].pc = "new"
    /\ row' = [row EXCEPT ![a] = [AbsentRow EXCEPT !.state = "PENDING"]]
    /\ disp' = [disp EXCEPT ![a].pc = "choose"]
    /\ UNCHANGED <<job, msgs, liveKeys, cont, up, epoch, reachable, queues, req, healthVars>>

\* addActionQueue(): a worker is chosen and recorded ...
ChooseWorker(a) ==
    /\ disp[a].pc \in {"choose", "choose2"}
    /\ \E w \in findWorkerForAction :
        /\ Update(a, [row[a] EXCEPT !.worker = w])
        /\ disp' = [disp EXCEPT ![a] =
                      [pc |-> IF @.pc = "choose" THEN "add" ELSE "add2", w |-> w]]
    /\ UNCHANGED <<job, msgs, liveKeys, cont, up, epoch, reachable, queues, req, healthVars>>

\* ... or there is none: the entity dispatch() created is saved as UNPROCESSABLE.
\* It has its relations, so that a row deleted since the first try is inserted.
NoWorkerFound(a) ==
    /\ disp[a].pc \in {"choose", "choose2"}
    /\ findWorkerForAction = {}
    /\ row' = [row EXCEPT ![a] = Unprocessable([AbsentRow EXCEPT !.worker = row[a].worker])]
    /\ disp' = [disp EXCEPT ![a].pc = IF @ = "choose" THEN "refresh" ELSE "failed"]
    /\ UNCHANGED <<job, msgs, liveKeys, cont, up, epoch, reachable, queues, req, healthVars>>

AddJob(a) ==
    /\ disp[a].pc \in {"add", "add2"}
    /\ disp[a].w \in queues
    /\ job' = [job EXCEPT ![a] = WaitingJob(disp[a].w)]
    /\ disp' = [disp EXCEPT ![a].pc = "queued"]
    /\ UNCHANGED <<row, msgs, liveKeys, cont, up, epoch, reachable, queues, req, healthVars>>

\* queue.add rejects, or the health check just dropped the queue; swallowed.
AddJobFails(a) ==
    /\ disp[a].pc \in {"add", "add2"}
    /\ disp' = [disp EXCEPT ![a].pc = IF @ = "add" THEN "refresh" ELSE "failed"]
    /\ UNCHANGED <<storeVars, queues, req, healthVars>>

\* The first attempt failed: dispatch() awaits a health check (its part for
\* dead workers is DetectDeadWorker and its successors) and tries again.
RefreshAndRetry(a) ==
    /\ disp[a].pc = "refresh"
    /\ DeadWorkers = {}
    /\ queues' = queues \cup {w \in Workers : reachable[w]}
    /\ disp' = [disp EXCEPT ![a].pc = "choose2"]
    /\ UNCHANGED <<storeVars, req, healthVars>>

RejectAction(a) ==
    /\ disp[a].pc = "failed"
    /\ Update(a, Unprocessable(row[a]))
    /\ disp' = [disp EXCEPT ![a].pc = "rejected"]
    /\ UNCHANGED <<job, msgs, liveKeys, cont, up, epoch, reachable, queues, req, healthVars>>
-----------------------------------------------------------------------------
(* healthCheck(). The cron does not wait for its previous pass, so passes   *)
(* over different workers overlap.                                         *)

DetectDeadWorker(w) ==
    /\ w \in DeadWorkers
    /\ w \notin hc
    /\ reachable' = [reachable EXCEPT ![w] = FALSE]
    /\ IF w \in queues
       THEN /\ hc' = hc \cup {w}
            /\ dead' = [dead EXCEPT ![w] = [a \in Actions |->
                           IF job[a].q = w /\ job[a].st # "failed"
                           THEN [NoDeadJob EXCEPT !.pc = "listed"] ELSE NoDeadJob]]
       ELSE UNCHANGED <<hc, dead>>
    /\ UNCHANGED <<row, job, msgs, liveKeys, cont, up, epoch, queues, disp, req, lostJobs>>

\* The action of a dead worker's job is read; a deleted one is skipped.
ReadDeadJob(w, a) ==
    /\ dead[w][a].pc = "listed"
    /\ dead' = [dead EXCEPT ![w][a] =
                   IF Exists(a) THEN [@ EXCEPT !.pc = "read", !.entity = row[a]]
                                ELSE NoDeadJob]
    /\ UNCHANGED <<storeVars, queues, disp, req, hc, lostJobs>>

\* job.remove() in the dead worker's queue; it throws, and the job is skipped,
\* where the worker came back and is processing it.
RemoveDeadJob(w, a) ==
    /\ dead[w][a].pc = "read"
    /\ IF Locked(a)
       THEN /\ dead' = [dead EXCEPT ![w][a] = NoDeadJob]
            /\ UNCHANGED job
       ELSE /\ dead' = [dead EXCEPT ![w][a].pc = "removed"]
            /\ job' = [job EXCEPT ![a] = IF @.q = w THEN NoJob ELSE @]
    /\ UNCHANGED <<row, msgs, liveKeys, cont, up, epoch, reachable,
                   queues, disp, req, hc, lostJobs>>

\* addActionQueue() chooses another worker, or saves the entity read above.
ChooseNewWorker(w, a) ==
    /\ dead[w][a].pc = "removed"
    /\ \/ \E v \in findWorkerForAction :
            /\ Update(a, [row[a] EXCEPT !.worker = v])
            /\ dead' = [dead EXCEPT ![w][a] = [pc |-> "add", entity |-> AbsentRow, to |-> v]]
       \/ /\ findWorkerForAction = {}
          /\ SaveEntity(a, Unprocessable([dead[w][a].entity EXCEPT !.worker = row[a].worker]))
          /\ dead' = [dead EXCEPT ![w][a] = NoDeadJob]
    /\ UNCHANGED <<job, msgs, liveKeys, cont, up, epoch, reachable,
                   queues, disp, req, hc, lostJobs>>

RequeueJob(w, a) ==
    /\ dead[w][a].pc = "add"
    /\ dead[w][a].to \in queues
    /\ job' = [job EXCEPT ![a] = WaitingJob(dead[w][a].to)]
    /\ dead' = [dead EXCEPT ![w][a] = NoDeadJob]
    /\ UNCHANGED <<row, msgs, liveKeys, cont, up, epoch, reachable,
                   queues, disp, req, hc, lostJobs>>

\* queue.add rejects, or the queue was dropped meanwhile: addActionQueue
\* swallows the error, and here nobody looks at what it returns.
RequeueLosesJob(w, a) ==
    /\ dead[w][a].pc = "add"
    /\ RequeueMayFail \/ dead[w][a].to \notin queues
    /\ dead' = [dead EXCEPT ![w][a] = NoDeadJob]
    /\ lostJobs' = lostJobs \cup {a}
    /\ UNCHANGED <<storeVars, queues, disp, req, hc>>

FinishHealthCheck(w) ==
    /\ w \in hc
    /\ dead[w] = [a \in Actions |-> NoDeadJob]
    /\ queues' = queues \ {w}
    /\ hc' = hc \ {w}
    /\ UNCHANGED <<storeVars, disp, req, dead, lostJobs>>

\* The end of every pass opens the queues of new or returned workers.
OpenQueues ==
    /\ queues' = queues \cup {v \in Workers : reachable[v]}
    /\ queues' # queues
    /\ UNCHANGED <<storeVars, disp, req, healthVars>>
-----------------------------------------------------------------------------
(* Cancelling, reporting, deleting.                                        *)

\* ActionService.cancel: the state is checked once, before stopAction.
Cancel(a) ==
    /\ req[a].pc = "idle"
    /\ req[a].n < MaxCancels
    /\ isCancellableActionState(row[a].state)
    /\ req' = [req EXCEPT ![a].pc = "checked", ![a].n = @ + 1]
    /\ UNCHANGED <<storeVars, queues, disp, healthVars>>

\* stopAction reads the entity; without a worker it throws and rolls back.
StopRead(a) ==
    /\ req[a].pc = "checked"
    /\ req' = IF Exists(a) /\ row[a].worker # NoWorker
              THEN [req EXCEPT ![a].pc = "read", ![a].entity = row[a]]
              ELSE [req EXCEPT ![a].pc = "idle"]
    /\ UNCHANGED <<storeVars, queues, disp, healthVars>>

\* ... and saves all of it, whatever was written in between.
StopSave(a) ==
    /\ req[a].pc = "read"
    /\ SaveEntity(a, [req[a].entity EXCEPT !.state = "CANCELLED"])
    /\ req' = [req EXCEPT ![a].pc = IF Exists(a) THEN "saved" ELSE "idle",
                          ![a].entity = [AbsentRow EXCEPT !.worker = req[a].entity.worker]]
    /\ UNCHANGED <<job, msgs, liveKeys, cont, up, epoch, reachable, queues, disp, healthVars>>

\* The job is removed unless it is locked, and the cancellation published to
\* the consumers that are subscribed right now. Without a queue: an error. The
\* row may say again that the run is STARTING or PROCESSING: its consumer wrote
\* so after StopSave, and crashed.
StopPublish(a) ==
    LET w == req[a].entity.worker IN
    /\ req[a].pc = "saved"
    /\ req' = [req EXCEPT ![a].pc = "idle", ![a].entity = AbsentRow]
    /\ IF w \in queues
       THEN /\ \/ job[a].q = w /\ ~Locked(a) /\ job' = [job EXCEPT ![a] = NoJob]
               \/ /\ job[a].q # w \/ job[a].st \in {"active", "abandoned"}
                  /\ UNCHANGED job
            /\ msgs' = [v \in Workers |-> IF up[v] THEN msgs[v] \cup {a} ELSE msgs[v]]
       ELSE UNCHANGED <<job, msgs>>
    /\ lostJobs' = IF Unfinished(a) /\ job'[a] # job[a] THEN lostJobs \cup {a} ELSE lostJobs
    /\ UNCHANGED <<row, liveKeys, cont, up, epoch, reachable, queues, disp, hc, dead>>

\* A report sent by the container, possibly processed after it has exited: the
\* key must be live and the action unfinished, and severity only ever rises.
RecordDiagnostic(a, s) ==
    /\ \E r \in Runners : <<r, a>> \in liveKeys /\ cont[r][a].st \in {"running", "exited", "gone"}
    /\ Exists(a)
    /\ ~isTerminalActionState(row[a].state)
    /\ row' = [row EXCEPT ![a] = RaiseSeverity(a, s)]
    /\ row' # row
    /\ UNCHANGED <<job, msgs, liveKeys, cont, up, epoch, reachable, queues, disp, req, healthVars>>

DeleteAction(a) ==
    /\ DeletesAllowed
    /\ isTerminalActionState(row[a].state)
    /\ row' = [row EXCEPT ![a] = AbsentRow]
    /\ UNCHANGED <<job, msgs, liveKeys, cont, up, epoch, reachable, queues, disp, req, healthVars>>
-----------------------------------------------------------------------------
DispatchNext(a) ==
    \/ ChooseWorker(a) \/ NoWorkerFound(a) \/ AddJob(a) \/ AddJobFails(a)
    \/ RefreshAndRetry(a) \/ RejectAction(a)

HealthCheckNext ==
    \/ \E w \in Workers : DetectDeadWorker(w)
    \/ \E w \in Workers, a \in Actions :
        \/ ReadDeadJob(w, a) \/ RemoveDeadJob(w, a) \/ ChooseNewWorker(w, a)
        \/ RequeueJob(w, a) \/ RequeueLosesJob(w, a)
    \/ \E w \in Workers : FinishHealthCheck(w)
    \/ OpenQueues

StopNext(a) == StopRead(a) \/ StopSave(a) \/ StopPublish(a)

DispatcherNext ==
    \/ \E a \in Actions :
        \/ SaveAction(a) \/ DispatchNext(a)
        \/ Cancel(a) \/ StopNext(a)
        \/ \E s \in Diagnostics : RecordDiagnostic(a, s)
        \/ DeleteAction(a)
    \/ HealthCheckNext
=============================================================================
