---------------------------- MODULE ActionRunner ----------------------------
(***************************************************************************)
(* The queue consumer's half of an action run: Bull hands a job to         *)
(* ActionQueueProcessor.processAction (concurrency 1), which runs          *)
(* ActionManagerService.processAction and, once the job is settled, a      *)
(* lifecycle hook. ActionCancellationService keeps, in memory only, which  *)
(* actions are active, which were cancelled and which have a container.    *)
(*                                                                         *)
(* The program counter of a worker names the await it is suspended at.     *)
(***************************************************************************)
EXTENDS ActionStore

CONSTANT DockerMayFail      \* docker may fail to create, start or inspect

ASSUME RunnerAssumption == DockerMayFail \in BOOLEAN

VARIABLES
    pc,                 \* Workers -> where processAction stands
    cur,                \* Workers -> the action it processes
    loaded,             \* Workers -> action.state as read with the job
    verdict,            \* Workers -> outcome resolved, not yet written
    activeActions,      \* Workers -> SUBSET Actions, in memory
    cancelledActions,   \* Workers -> SUBSET Actions, in memory
    activeContainers,   \* Workers -> SUBSET Actions, in memory
    hook,               \* Workers -> Actions -> pending OnQueueCompleted / Failed
    lostHooks           \* history: actions whose OnQueueFailed died in a crash
                        \* when nothing was going to repeat it

runnerVars == <<pc, cur, loaded, verdict, activeActions, cancelledActions,
                activeContainers, hook, lostHooks>>

memoryVars == <<activeActions, cancelledActions, activeContainers>>

CONSTANT NoAction       \* the worker is idle

ASSUME NoActionAssumption == NoAction \notin Actions

RunnerPc == {"idle", "fetched", "loaded", "registered", "starting", "keyed",
             "processing", "launched", "attached", "waiting", "exited",
             "stopping", "judged", "ended", "uploading", "caught",
             "disposing", "disposingFailed", "succeeded", "failed"}

\* Where the run owns an API key: between createAPIkey and its disposal.
HoldsKey == {"keyed", "processing", "launched", "attached", "waiting", "exited",
             "stopping", "judged", "ended", "uploading", "caught",
             "disposing", "disposingFailed"}

NoVerdict == CancelledOutcome

NoHook == [pc |-> "none", entity |-> AbsentRow]

HookPc == {"none", "completed", "completedRead", "failed", "failedRead"}

RunnerTypeOK ==
    /\ pc \in [Workers -> RunnerPc]
    /\ cur \in [Workers -> Actions \cup {NoAction}]
    /\ loaded \in [Workers -> ActionState]
    /\ verdict \in [Workers -> Verdict]
    /\ activeActions \in [Workers -> SUBSET Actions]
    /\ cancelledActions \in [Workers -> SUBSET Actions]
    /\ activeContainers \in [Workers -> SUBSET Actions]
    /\ hook \in [Workers -> [Actions -> [pc : HookPc, entity : Row]]]
    /\ lostHooks \subseteq Actions

RunnerInit ==
    /\ pc = [w \in Workers |-> "idle"]
    /\ cur = [w \in Workers |-> NoAction]
    /\ loaded = [w \in Workers |-> "PENDING"]
    /\ verdict = [w \in Workers |-> NoVerdict]
    /\ activeActions = [w \in Workers |-> {}]
    /\ cancelledActions = [w \in Workers |-> {}]
    /\ activeContainers = [w \in Workers |-> {}]
    /\ hook = [w \in Workers |-> [a \in Actions |-> NoHook]]
    /\ lostHooks = {}
-----------------------------------------------------------------------------
isCancelled(w) == cur[w] \in cancelledActions[w]

Goto(w, from, to) == pc[w] = from /\ up[w] /\ pc' = [pc EXCEPT ![w] = to]

\* Mutant: the cancellation outlives the run.
cleanupKeepsCancelled(w) ==
    /\ activeActions' = [activeActions EXCEPT ![w] = @ \ {cur[w]}]
    /\ activeContainers' = [activeContainers EXCEPT ![w] = @ \ {cur[w]}]
    /\ UNCHANGED cancelledActions

\* ActionCancellationService.cleanup
cleanup(w) ==
    /\ activeActions' = [activeActions EXCEPT ![w] = @ \ {cur[w]}]
    /\ cancelledActions' = [cancelledActions EXCEPT ![w] = @ \ {cur[w]}]
    /\ activeContainers' = [activeContainers EXCEPT ![w] = @ \ {cur[w]}]

MyContainer(w) == cont[Me(w)][cur[w]]

\* Mutant: the state is not checked.
MayStartAlways(w) == TRUE

\* executeProcessAction insists on the state loaded before the awaits above.
MayStart(w) == loaded[w] = "PENDING"

\* Mutant: a cancellation that came before the registration goes unnoticed.
KillNever(w) == UNCHANGED cont

\* A cancellation delivered before the container was known kills it now.
KillIfCancelled(w) ==
    IF isCancelled(w) THEN KillContainer(Me(w), cur[w]) ELSE UNCHANGED cont

\* Mutant: an undefined origin is stored as if it were a value.
VerdictRowRaw(a, v) ==
    [row[a] EXCEPT !.state = v.state, !.origin = v.origin,
                   !.severity = IF v.raises THEN v.severity ELSE @]

\* The columns setActionState writes.
VerdictRow(a, v) ==
    [row[a] EXCEPT !.state = v.state,
                   !.origin = IF v.origin = "keep" THEN @ ELSE v.origin,
                   !.severity = IF v.raises THEN v.severity ELSE @]

\* Mutant: the key is disposed at the end of the try block, not in finally.
asyncDisposeOnSuccess(w) ==
    liveKeys' = IF pc[w] = "disposing" THEN liveKeys \ {<<Me(w), cur[w]>>} ELSE liveKeys

\* DisposableAPIKey[Symbol.asyncDispose]
asyncDispose(w) == liveKeys' = liveKeys \ {<<Me(w), cur[w]>>}

\* reportUploadFailure
UploadFailed(a) == [RaiseSeverity(a, "WARNING") EXCEPT !.artifacts = "ERROR"]

\* Mutants: the artifacts are left out; the state is.
UnexpectedErrorArtifactsKept(e) ==
    [e EXCEPT !.state = "FAILED", !.severity = "ERROR", !.origin = "SYSTEM"]
UnexpectedErrorStateKept(e) ==
    [e EXCEPT !.severity = "ERROR", !.origin = "SYSTEM", !.artifacts = "ERROR"]

\* The entity handleUnexpectedError saves.
UnexpectedError(e) ==
    [e EXCEPT !.state = "FAILED", !.severity = "ERROR", !.origin = "SYSTEM",
              !.artifacts = "ERROR"]

\* Bull moves the next waiting job of the worker's own queue to active.
TakeJob(w, a) ==
    /\ Goto(w, "idle", "fetched")
    /\ job[a].st = "waiting" /\ job[a].q = w
    /\ cur' = [cur EXCEPT ![w] = a]
    /\ job' = [job EXCEPT ![a].st = "active"]
    /\ UNCHANGED <<row, msgs, liveKeys, cont, up, epoch, reachable,
                   loaded, verdict, memoryVars, hook, lostHooks>>

\* findOneOrFail, and the reassignment to this worker where it differs.
LoadAction(w) ==
    /\ Goto(w, "fetched", "loaded")
    /\ Exists(cur[w])
    /\ loaded' = [loaded EXCEPT ![w] = row[cur[w]].state]
    /\ Update(cur[w], [row[cur[w]] EXCEPT !.worker = w])
    /\ UNCHANGED <<job, msgs, liveKeys, cont, up, epoch, reachable,
                   cur, verdict, memoryVars, hook, lostHooks>>

LoadFails(w) ==
    /\ Goto(w, "fetched", "failed")
    /\ ~Exists(cur[w])
    /\ UNCHANGED <<storeVars, cur, loaded, verdict, memoryVars, hook, lostHooks>>

RegisterAction(w) ==
    /\ Goto(w, "loaded", "registered")
    /\ activeActions' = [activeActions EXCEPT ![w] = @ \cup {cur[w]}]
    /\ UNCHANGED <<storeVars, cur, loaded, verdict, cancelledActions,
                   activeContainers, hook, lostHooks>>

RejectNotPending(w) ==
    /\ Goto(w, "registered", "failed")
    /\ ~MayStart(w)
    /\ cleanup(w)
    /\ UNCHANGED <<storeVars, cur, loaded, verdict, hook, lostHooks>>

CancelledBeforeStart(w) ==
    /\ Goto(w, "registered", "succeeded")
    /\ MayStart(w)
    /\ isCancelled(w)
    /\ Update(cur[w], [row[cur[w]] EXCEPT !.state = "CANCELLED"])
    /\ cleanup(w)
    /\ UNCHANGED <<job, msgs, liveKeys, cont, up, epoch, reachable,
                   cur, loaded, verdict, hook, lostHooks>>

MarkStarting(w) ==
    /\ Goto(w, "registered", "starting")
    /\ MayStart(w)
    /\ ~isCancelled(w)
    /\ Update(cur[w], [row[cur[w]] EXCEPT !.state = "STARTING"])
    /\ UNCHANGED <<job, msgs, liveKeys, cont, up, epoch, reachable,
                   cur, loaded, verdict, memoryVars, hook, lostHooks>>

createAPIkey(w) ==
    /\ Goto(w, "starting", "keyed")
    /\ liveKeys' = liveKeys \cup {<<Me(w), cur[w]>>}
    /\ UNCHANGED <<row, job, msgs, cont, up, epoch, reachable,
                   cur, loaded, verdict, memoryVars, hook, lostHooks>>

\* The creator lost write access: thrown before the try block.
AccessLost(w) ==
    /\ Goto(w, "starting", "failed")
    /\ cleanup(w)
    /\ UNCHANGED <<storeVars, cur, loaded, verdict, hook, lostHooks>>

\* startContainer: image resolved, then the onProcessing callback ...
MarkProcessing(w) ==
    /\ Goto(w, "keyed", "processing")
    /\ Update(cur[w], [row[cur[w]] EXCEPT !.state = "PROCESSING"])
    /\ UNCHANGED <<job, msgs, liveKeys, cont, up, epoch, reachable,
                   cur, loaded, verdict, memoryVars, hook, lostHooks>>

\* ... then createContainer and container.start.
LaunchContainer(w) ==
    /\ Goto(w, "processing", "launched")
    /\ cont' = [cont EXCEPT ![Me(w)][cur[w]].st = "running"]
    /\ UNCHANGED <<row, job, msgs, liveKeys, up, epoch, reachable,
                   cur, loaded, verdict, memoryVars, hook, lostHooks>>

\* An image, create or start error; the last one leaves the container created.
StartFails(w) ==
    /\ DockerMayFail
    /\ \/ Goto(w, "keyed", "caught") /\ UNCHANGED cont
       \/ /\ Goto(w, "processing", "caught")
          /\ \/ UNCHANGED cont
             \/ cont' = [cont EXCEPT ![Me(w)][cur[w]].st = "created"]
    /\ UNCHANGED <<row, job, msgs, liveKeys, up, epoch, reachable,
                   cur, loaded, verdict, memoryVars, hook, lostHooks>>

RegisterContainer(w) ==
    /\ Goto(w, "launched", "attached")
    /\ activeContainers' = [activeContainers EXCEPT ![w] = @ \cup {cur[w]}]
    /\ KillIfCancelled(w)
    /\ UNCHANGED <<row, job, msgs, liveKeys, up, epoch, reachable,
                   cur, loaded, verdict, activeActions, cancelledActions, hook, lostHooks>>

\* container.inspect and the container columns of the row.
CaptureInfo(w) ==
    /\ Goto(w, "attached", "waiting")
    /\ MyContainer(w).st # "gone"
    /\ UNCHANGED <<storeVars, cur, loaded, verdict, memoryVars, hook, lostHooks>>

\* container.wait: it has stopped.
AwaitExit(w) ==
    /\ Goto(w, "waiting", "exited")
    /\ MyContainer(w).st \in {"exited", "gone"}
    /\ UNCHANGED <<storeVars, cur, loaded, verdict, memoryVars, hook, lostHooks>>

\* inspect or wait on a container the janitor has removed, or a daemon error.
InspectFails(w) ==
    /\ \E from \in {"attached", "waiting", "stopping"} : Goto(w, from, "caught")
    /\ MyContainer(w).st = "gone" \/ DockerMayFail
    /\ UNCHANGED <<storeVars, cur, loaded, verdict, memoryVars, hook, lostHooks>>

\* The row is read back; STOPPING never replaces a final state; the container
\* is removed without waiting for it.
MarkStopping(w) ==
    /\ Goto(w, "exited", "stopping")
    /\ Exists(cur[w])
    /\ IF ~isCancelled(w) /\ ~isTerminalActionState(row[cur[w]].state)
       THEN Update(cur[w], [row[cur[w]] EXCEPT !.state = "STOPPING"])
       ELSE UNCHANGED row
    /\ cont' = [cont EXCEPT ![Me(w)][cur[w]].rm = TRUE]
    /\ UNCHANGED <<job, msgs, liveKeys, up, epoch, reachable,
                   cur, loaded, verdict, memoryVars, hook, lostHooks>>

ReadBackFails(w) ==
    /\ Goto(w, "exited", "caught")
    /\ ~Exists(cur[w])
    /\ UNCHANGED <<storeVars, cur, loaded, verdict, memoryVars, hook, lostHooks>>

\* setActionState: inspect, then read what is stored and resolve the verdict ...
ResolveVerdict(w) ==
    LET outcome == IF isCancelled(w) THEN CancelledOutcome
                   ELSE resolveActionOutcome(MyContainer(w).code)
    IN
    /\ Goto(w, "stopping", "judged")
    /\ MyContainer(w).st = "exited"
    /\ verdict' = [verdict EXCEPT ![w] =
                    IF Exists(cur[w]) THEN resolveFinalVerdict(row[cur[w]], outcome)
                                      ELSE outcome]
    /\ UNCHANGED <<storeVars, cur, loaded, memoryVars, hook, lostHooks>>

\* ... and write it.
WriteVerdict(w) ==
    /\ Goto(w, "judged", "ended")
    /\ Update(cur[w], VerdictRow(cur[w], verdict[w]))
    /\ verdict' = [verdict EXCEPT ![w] = NoVerdict]
    /\ UNCHANGED <<job, msgs, liveKeys, cont, up, epoch, reachable,
                   cur, loaded, memoryVars, hook, lostHooks>>

\* executionEndedAt; a cancelled run uploads no artifacts.
SkipArtifacts(w) ==
    /\ Goto(w, "ended", "disposing")
    /\ isCancelled(w)
    /\ Update(cur[w], [row[cur[w]] EXCEPT !.ended = TRUE, !.artifacts = "ERROR"])
    /\ cleanup(w)
    /\ UNCHANGED <<job, msgs, liveKeys, cont, up, epoch, reachable,
                   cur, loaded, verdict, hook, lostHooks>>

StartUpload(w) ==
    /\ Goto(w, "ended", "uploading")
    /\ ~isCancelled(w)
    /\ Update(cur[w], [row[cur[w]] EXCEPT !.ended = TRUE, !.artifacts = "UPLOADING"])
    /\ UNCHANGED <<job, msgs, liveKeys, cont, up, epoch, reachable,
                   cur, loaded, verdict, memoryVars, hook, lostHooks>>

\* The uploader container ended: uploaded, or failed and reported as a warning.
FinishUpload(w) ==
    /\ Goto(w, "uploading", "disposing")
    /\ \/ Update(cur[w], [row[cur[w]] EXCEPT !.artifacts = "UPLOADED"])
       \/ Update(cur[w], UploadFailed(cur[w]))
    /\ UNCHANGED <<job, msgs, liveKeys, cont, up, epoch, reachable,
                   cur, loaded, verdict, memoryVars, hook, lostHooks>>

\* The uploader container could not be launched.
UploadThrows(w) ==
    /\ Goto(w, "uploading", "caught")
    /\ DockerMayFail
    /\ UNCHANGED <<storeVars, cur, loaded, verdict, memoryVars, hook, lostHooks>>

\* The catch block: a cancelled run is CANCELLED, any other a SYSTEM failure.
Catch(w) ==
    /\ Goto(w, "caught", "disposingFailed")
    /\ IF isCancelled(w)
       THEN /\ Update(cur[w], [row[cur[w]] EXCEPT !.state = "CANCELLED"])
            /\ cleanup(w)
       ELSE /\ Update(cur[w], FailedRow(cur[w], "SYSTEM"))
            /\ UNCHANGED memoryVars
    /\ UNCHANGED <<job, msgs, liveKeys, cont, up, epoch, reachable,
                   cur, loaded, verdict, hook, lostHooks>>

\* The finally blocks: the API key is disposed, the in-memory sets forgotten.
DisposeKey(w) ==
    /\ Goto(w, "disposing", "succeeded") \/ Goto(w, "disposingFailed", "failed")
    /\ asyncDispose(w)
    /\ cleanup(w)
    /\ UNCHANGED <<row, job, msgs, cont, up, epoch, reachable, cur, loaded, verdict, hook, lostHooks>>
-----------------------------------------------------------------------------
(* Settling the job, and the queue's lifecycle hooks.                      *)

\* The bound: a hook ends before the same worker settles the same job again.
Settle(w, newJob, kind) ==
    /\ hook[w][cur[w]] = NoHook
    /\ cur' = [cur EXCEPT ![w] = NoAction]
    /\ loaded' = [loaded EXCEPT ![w] = "PENDING"]
    /\ job' = [job EXCEPT ![cur[w]] = newJob]
    /\ hook' = [hook EXCEPT ![w][cur[w]].pc = kind]
    /\ UNCHANGED <<row, msgs, liveKeys, cont, up, epoch, reachable, verdict, memoryVars, lostHooks>>

\* removeOnComplete
JobCompleted(w) ==
    /\ Goto(w, "succeeded", "idle")
    /\ Settle(w, NoJob, "completed")

\* A job with attempts left goes to the delayed set before the hook runs.
JobFailed(w) ==
    /\ Goto(w, "failed", "idle")
    /\ Settle(w, [job[cur[w]] EXCEPT !.st = "delayed"], "failed")

HoldsLock(w, a) == job[a].st = "active" /\ job[a].q = w

\* job.remove() throws: the job was re-queued here and is being processed.
HookThrows(w, a) ==
    /\ hook[w][a].pc = "failed"
    /\ HoldsLock(w, a)
    /\ hook' = [hook EXCEPT ![w][a] = NoHook]
    /\ UNCHANGED <<storeVars, pc, cur, loaded, verdict, memoryVars, lostHooks>>

\* The failed hook first removes the job from the worker's own queue. A missing
\* row is expected: a final action may already be deleted.
HookRead(w, a) ==
    LET h == hook[w][a] IN
    /\ h.pc \in {"completed", "failed"}
    /\ ~(h.pc = "failed" /\ HoldsLock(w, a))
    /\ job' = IF h.pc = "failed" /\ job[a].q = w THEN [job EXCEPT ![a] = NoJob] ELSE job
    /\ hook' = [hook EXCEPT ![w][a] =
                 IF ~Exists(a) THEN NoHook
                 ELSE [pc |-> IF h.pc = "failed" THEN "failedRead" ELSE "completedRead",
                       entity |-> row[a]]]
    /\ UNCHANGED <<row, msgs, liveKeys, cont, up, epoch, reachable,
                   pc, cur, loaded, verdict, memoryVars, lostHooks>>

\* markJobAsCompleted saves the entity only where something changed.
markJobAsCompleted(w, a) ==
    LET e == hook[w][a].entity
        resolved == resolveCompletedActionState(e.state)
    IN
    /\ hook[w][a].pc = "completedRead"
    /\ IF e.ended \/ e.state # resolved
       THEN SaveEntity(a, [e EXCEPT !.state = resolved, !.worker = row[a].worker])
       ELSE UNCHANGED row
    /\ hook' = [hook EXCEPT ![w][a] = NoHook]
    /\ UNCHANGED <<job, msgs, liveKeys, cont, up, epoch, reachable,
                   pc, cur, loaded, verdict, memoryVars, lostHooks>>

handleUnexpectedError(w, a) ==
    /\ hook[w][a].pc = "failedRead"
    /\ SaveEntity(a, [UnexpectedError(hook[w][a].entity) EXCEPT !.worker = row[a].worker])
    /\ hook' = [hook EXCEPT ![w][a] = NoHook]
    /\ UNCHANGED <<job, msgs, liveKeys, cont, up, epoch, reachable,
                   pc, cur, loaded, verdict, memoryVars, lostHooks>>

\* Bull's backoff ends: the job of a hook that never ran is retried.
PromoteDelayed(w, a) ==
    /\ job[a].st = "delayed" /\ job[a].q = w
    /\ hook[w][a] = NoHook
    /\ job' = [job EXCEPT ![a].st = "waiting"]
    /\ UNCHANGED <<row, msgs, liveKeys, cont, up, epoch, reachable, runnerVars>>

\* A consumer finds a job of its queue in the active list that nobody holds the
\* lock of: once it is retried ...
StalledJob(w, a) ==
    /\ up[w]
    /\ job[a].st = "abandoned" /\ job[a].q = w /\ ~job[a].stalled
    /\ job' = [job EXCEPT ![a].st = "waiting", ![a].stalled = TRUE]
    /\ UNCHANGED <<row, msgs, liveKeys, cont, up, epoch, reachable, runnerVars>>

\* ... the second time Bull moves it to the failed set, whatever its attempts.
StalledTwice(w, a) ==
    /\ up[w]
    /\ job[a].st = "abandoned" /\ job[a].q = w /\ job[a].stalled
    /\ hook[w][a] = NoHook
    /\ job' = [job EXCEPT ![a].st = "failed"]
    /\ hook' = [hook EXCEPT ![w][a].pc = "failed"]
    /\ UNCHANGED <<row, msgs, liveKeys, cont, up, epoch, reachable,
                   pc, cur, loaded, verdict, memoryVars, lostHooks>>
-----------------------------------------------------------------------------
\* handleActionCancellation: ignored unless the action is active on this worker.
DeliverCancel(w, a) ==
    /\ up[w]
    /\ a \in msgs[w]
    /\ msgs' = [msgs EXCEPT ![w] = @ \ {a}]
    /\ IF a \in activeActions[w]
       THEN cancelledActions' = [cancelledActions EXCEPT ![w] = @ \cup {a}]
       ELSE UNCHANGED cancelledActions
    /\ IF a \in activeActions[w] \cap activeContainers[w]
       THEN KillContainer(Me(w), a)
       ELSE UNCHANGED cont
    /\ UNCHANGED <<row, job, liveKeys, up, epoch, reachable, pc, cur, loaded,
                   verdict, activeActions, activeContainers, hook, lostHooks>>

\* The consumer process dies with everything it kept in memory.
CrashRunner(w) ==
    /\ up[w]
    /\ w \in Crashers /\ epoch[w] < MaxCrashes
    /\ up' = [up EXCEPT ![w] = FALSE]
    /\ msgs' = [msgs EXCEPT ![w] = {}]
    /\ pc' = [pc EXCEPT ![w] = "idle"]
    /\ cur' = [cur EXCEPT ![w] = NoAction]
    /\ loaded' = [loaded EXCEPT ![w] = "PENDING"]
    /\ verdict' = [verdict EXCEPT ![w] = NoVerdict]
    /\ activeActions' = [activeActions EXCEPT ![w] = {}]
    /\ cancelledActions' = [cancelledActions EXCEPT ![w] = {}]
    /\ activeContainers' = [activeContainers EXCEPT ![w] = {}]
    /\ hook' = [hook EXCEPT ![w] = [a \in Actions |-> NoHook]]
    /\ lostHooks' = lostHooks \cup {a \in Actions :
                        \/ hook[w][a].pc = "failedRead"
                        \/ hook[w][a].pc = "failed" /\ job[a].st = "failed"}
    /\ job' = [a \in Actions |-> IF job[a].q = w /\ job[a].st = "active"
                                  THEN [job[a] EXCEPT !.st = "abandoned"] ELSE job[a]]
    /\ UNCHANGED <<row, liveKeys, cont, epoch, reachable>>

\* It starts again as a new runner, and its worker row is reachable.
registerRunner(w) ==
    /\ ~up[w]
    /\ up' = [up EXCEPT ![w] = TRUE]
    /\ epoch' = [epoch EXCEPT ![w] = @ + 1]
    /\ reachable' = [reachable EXCEPT ![w] = TRUE]
    /\ UNCHANGED <<row, job, msgs, liveKeys, cont, runnerVars>>
-----------------------------------------------------------------------------
StartSteps(w) ==
    \/ LoadAction(w) \/ LoadFails(w) \/ RegisterAction(w) \/ RejectNotPending(w)
    \/ CancelledBeforeStart(w) \/ MarkStarting(w) \/ createAPIkey(w) \/ AccessLost(w)
    \/ MarkProcessing(w) \/ LaunchContainer(w) \/ StartFails(w) \/ RegisterContainer(w)

ExitSteps(w) ==
    \/ CaptureInfo(w) \/ AwaitExit(w) \/ InspectFails(w) \/ MarkStopping(w)
    \/ ReadBackFails(w) \/ ResolveVerdict(w) \/ WriteVerdict(w) \/ SkipArtifacts(w)
    \/ StartUpload(w) \/ FinishUpload(w) \/ UploadThrows(w) \/ Catch(w)
    \/ DisposeKey(w) \/ JobCompleted(w) \/ JobFailed(w)

QueueSteps(w, a) ==
    \/ HookRead(w, a) \/ markJobAsCompleted(w, a) \/ handleUnexpectedError(w, a)
    \/ HookThrows(w, a) \/ PromoteDelayed(w, a) \/ StalledJob(w, a)
    \/ StalledTwice(w, a)

ProcessNext(w) ==
    (\E a \in Actions : TakeJob(w, a)) \/ StartSteps(w) \/ ExitSteps(w)

RunnerNext ==
    \E w \in Workers :
        \/ ProcessNext(w)
        \/ \E a \in Actions : DeliverCancel(w, a) \/ QueueSteps(w, a)
=============================================================================
