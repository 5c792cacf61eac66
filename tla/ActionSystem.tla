---------------------------- MODULE ActionSystem ----------------------------
(***************************************************************************)
(* The action subsystem as a whole: the api-server's dispatcher, the queue *)
(* consumers with their job runner and their janitor, docker, the job      *)
(* queue and the database, with crashes and restarts of the consumers.     *)
(***************************************************************************)
EXTENDS ActionDispatcher, ActionRunner, ContainerJanitor

vars == <<storeVars, dispatcherVars, runnerVars, janitorVars>>

Init == StoreInit /\ DispatcherInit /\ RunnerInit /\ JanitorInit

Crash(w) == CrashRunner(w) /\ StopJanitor(w) /\ UNCHANGED dispatcherVars

Restart(w) == registerRunner(w) /\ UNCHANGED <<dispatcherVars, janitorVars>>

Next ==
    \/ StoreNext /\ UNCHANGED <<dispatcherVars, runnerVars, janitorVars>>
    \/ DispatcherNext /\ UNCHANGED <<runnerVars, janitorVars>>
    \/ RunnerNext /\ UNCHANGED <<dispatcherVars, janitorVars>>
    \/ JanitorNext /\ UNCHANGED <<dispatcherVars, runnerVars>>
    \/ \E w \in Workers : Crash(w) \/ Restart(w)

Spec == Init /\ [][Next]_vars
-----------------------------------------------------------------------------
TypeOK == StoreTypeOK /\ DispatcherTypeOK /\ RunnerTypeOK /\ JanitorTypeOK

\* The runner r is the current incarnation of a running consumer.
Alive(r) == up[r[1]] /\ r = Me(r[1])

\* A worker whose pipeline is on action a.
Works(w, a) == pc[w] # "idle" /\ cur[w] = a

\* Somebody will still move the action: the dispatcher, a queued or active
\* job (Bull forgets those in the failed set), a lifecycle hook, or a health check between remove and add.
Responsible(a) ==
    \/ disp[a].pc \notin {"queued", "rejected"}
    \/ job[a].st \notin {"none", "failed"}
    \/ \E w \in Workers : hook[w][a] # NoHook \/ Works(w, a)
                          \/ dead[w][a].pc \in {"removed", "add"}

\* The code has dropped the job of these without finishing the run.
Lost == lostHooks \cup lostJobs

\* At a fixed point of the pipeline the run of <<r, a>> is in r's hands.
Attends(r, a) == Alive(r) /\ pc[r[1]] \in HoldsKey /\ cur[r[1]] = a
-----------------------------------------------------------------------------
(* Safety.                                                                 *)

\* Two consumers never process the same action, although jobs move between
\* queues when a worker dies, and come back when it restarts.
SingleProcessor ==
    \A a \in Actions, v, w \in Workers : Works(v, a) /\ Works(w, a) => v = w

\* An action's container is started at most once, across crashes, stalled jobs
\* and re-queueing: the PENDING check of executeProcessAction, made against a
\* state read some awaits earlier, is enough.
AtMostOneStart ==
    \A a \in Actions, r, s \in Runners :
        cont[r][a].st # "none" /\ cont[s][a].st # "none" => r = s

\* An API key is live only while the runner that made it is processing that
\* very action, or after that runner died: no path through the catch and
\* finally blocks of executeProcessAction leaks one.
KeyAttended ==
    \A k \in liveKeys : Attends(k[1], k[2]) \/ ~Alive(k[1])

\* No action is left unfinished with nobody to move it: a row that is not
\* final has a dispatch, a job, a hook or a runner behind it. The windows the code
\* leaves are a crash inside handleUnexpectedError, between the removal of the job
\* and the save of the row, or before it for a job that has stalled twice; a
\* health check whose queue.add fails; and a cancellation whose CANCELLED is
\* overwritten by a consumer that then crashes, before stopAction removes the job.
NoOrphanedAction == \A a \in Actions \ Lost : Unfinished(a) => Responsible(a)

\* A cancellation the consumer has taken note of kills the container, whether
\* it arrives before, during or after the container's registration.
CancelledNeverRuns ==
    \A w \in Workers : pc[w] \in {"attached", "waiting"} /\ isCancelled(w)
        => MyContainer(w).st # "running"

\* What the consumer keeps in memory about an action ends with its processing,
\* on every path out of it and although cancellations arrive at any time: a
\* cancelled entry left behind would cancel the next attempt of the action.
MemoryForgotten ==
    \A w \in Workers :
        activeActions[w] \cup cancelledActions[w] \cup activeContainers[w] \subseteq
            IF pc[w] \in {"idle", "fetched", "loaded", "succeeded", "failed"}
            THEN {} ELSE {cur[w]}

\* A container that runs although its live runner has let go of it belongs to
\* an action the janitor's conditional update will match, so it gets killed.
StrayIsReclaimable ==
    \A w \in Workers, a \in Actions :
        /\ up[w] /\ cont[Me(w)][a].st = "running" /\ ~Attends(Me(w), a) /\ Exists(a)
        => row[a].state \notin {"PROCESSING", "STARTING"}

\* The consumer of some worker has crashed.
Crashed == \E w \in Workers : epoch[w] > 0 \/ ~up[w]

\* The run of a was broken off, and left its row in state s: a crash had it given
\* up, or it was cancelled.
BrokenOff(a, s) ==
    \/ Crashed /\ (s \in {"UNPROCESSABLE", "FAILED"} \/ req[a].n > 0)
    \/ req[a].n > 0 /\ s \in {"CANCELLED", "FAILED", "UNPROCESSABLE"}

\* Nobody's artifacts are shown as uploading forever, whether the upload ended or
\* threw, with two exceptions that are what the code does. After a crash in the
\* middle of an upload the health check may give the run up, but then it is not
\* reported as DONE or CANCELLED. And a cancellation may save the row it read during
\* the upload when that has ended, or remove the job of a consumer that crashed in it.
SettledArtifacts ==
    \A a \in Actions \ Lost :
        row[a].artifacts = "UPLOADING" => Responsible(a) \/ BrokenOff(a, row[a].state)
-----------------------------------------------------------------------------
(* Action properties.                                                      *)

\* A live runner waits for a running container that is within its time limit,
\* not cancelled, and whose row says PROCESSING.
Healthy(w, a) ==
    /\ up[w] /\ cur[w] = a /\ pc[w] \in {"launched", "attached", "waiting"}
    /\ cont[Me(w)][a].st = "running" /\ ~cont[Me(w)][a].expired
    /\ row[a].state = "PROCESSING" /\ a \notin cancelledActions[w] \cup msgs[w]

\* The queue has given up a job of a after the second crash of its consumer, and
\* the hook is about to save the row it has read.
GivenUp(a) == \E w \in Workers : hook[w][a].pc = "failedRead" /\ epoch[w] >= 2

\* Crash detection is about to fail the run of a on w: that of w itself, or that of
\* another worker, which the row names although w is running a.
Condemned(w, a) ==
    \E v \in Workers :
        janPc[v] = "detect" /\ a \in janActive[v] /\ (v = w \/ row[a].worker # w)

\* Nobody kills a healthy run or fails its row: not the janitor with a snapshot
\* older than the run, not a late hook, not a health check. Three exceptions are
\* what the code does: crash detection condemns a run that started since the
\* containers were listed; a cancellation that saves the row it read before the
\* run was moved puts the old worker back, so that its crash detection condemns
\* the run on the new one; and a job the queue gave up may have been queued again
\* by a health check that listed it before, when its failed hook comes late.
HealthyRunSpared ==
    [][\A w \in Workers, a \in Actions : Healthy(w, a) =>
        /\ \/ cont'[Me(w)][a].st = "running"
           \/ \E code \in ExitCodes : ContainerExit(Me(w), a, code)
        /\ row'[a].state = "FAILED" => Condemned(w, a) \/ GivenUp(a)]_vars
-----------------------------------------------------------------------------
(* Refinement.                                                             *)

\* Where the job is: in a worker's hands exactly while Bull has it locked.
Place(a) ==
    CASE job[a].st = "none" -> "nowhere"
      [] job[a].st = "active" -> "held"
      [] OTHER -> "queued"

Started == {c \in Runners \X Actions : cont[c[1]][c[2]].st # "none"}

Custody == INSTANCE JobCustody
           WITH place <- [a \in Actions |-> Place(a)], doing <- cur, started <- Started

\* The system keeps the promise of JobCustody: the health check, the dispatcher,
\* the hooks and cancellation never take a job out of a live worker's hands.
ImplementsCustody == Custody!Spec
-----------------------------------------------------------------------------
(* Fairness and liveness.                                                  *)

RunnerStep(A) == A /\ UNCHANGED <<dispatcherVars, janitorVars>>
DispatcherStep(A) == A /\ UNCHANGED <<runnerVars, janitorVars>>
JanitorStep(A) == A /\ UNCHANGED <<dispatcherVars, runnerVars>>
StoreStep(A) == A /\ UNCHANGED <<dispatcherVars, runnerVars, janitorVars>>

\* Started requests, jobs, hooks and crons make progress, time passes and a
\* dead consumer is restarted. Nobody has to cancel, report or delete, no
\* container has to end by itself and docker need not serve a removal.
Fairness ==
    /\ \A a \in Actions :
        /\ WF_vars(DispatcherStep(DispatchNext(a)))
        /\ WF_vars(DispatcherStep(StopNext(a)))
        /\ \A w \in Workers : WF_vars(RunnerStep(QueueSteps(w, a)))
        /\ \A w \in Workers : WF_vars(RunnerStep(DeliverCancel(w, a)))
        /\ \A r \in Runners : WF_vars(StoreStep(RuntimeExpires(r, a)))
    /\ WF_vars(DispatcherStep(HealthCheckNext))
    /\ \A w \in Workers :
        /\ WF_vars(RunnerStep(ProcessNext(w)))
        /\ WF_vars(JanitorStep(performReconciliation(w)))
        /\ WF_vars(Restart(w))
    /\ \A r \in Runners : WF_vars(JanitorStep(RunnerGoesInactive(r)))

FairSpec == Spec /\ Fairness

\* Every dispatched action reaches a final state (or is deleted in one), unless
\* the code loses its job in one of the ways of NoOrphanedAction.
EventuallyFinal ==
    \A a \in Actions : disp[a].pc # "new" ~>
        (~Exists(a) \/ isTerminalActionState(row[a].state) \/ a \in Lost)

\* No container runs forever, even if its runner died or it never exits.
ContainersReclaimed ==
    \A r \in Runners, a \in Actions :
        cont[r][a].st = "running" ~> cont[r][a].st # "running"
-----------------------------------------------------------------------------
(* What the repository says of the action subsystem and the code does not  *)
(* keep; a run of its own refutes it.                                      *)

\* action-state.ts: "Once an action is in one of these states, it will not
\* transition to any other state anymore."
TerminalIsFinal ==
    [][\A a \in Actions : isTerminalActionState(row[a].state)
        => row'[a].state \in {row[a].state, "ABSENT"}]_vars
=============================================================================
