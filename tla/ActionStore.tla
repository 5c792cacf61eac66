----------------------------- MODULE ActionStore -----------------------------
(***************************************************************************)
(* What the processes of the action subsystem share: the "action" table,   *)
(* the Bull job of each action in Redis, the redis channel                 *)
(* "action-cancellation", the API keys handed to containers, the docker    *)
(* daemons, and which queue consumers are alive.                           *)
(*                                                                         *)
(* A worker is one host with one queue consumer and one docker daemon; a   *)
(* runner is one incarnation of the consumer (ActionRunnerEntity), named   *)
(* <<worker, epoch>>.                                                      *)
(***************************************************************************)
EXTENDS ActionStates, FiniteSets

CONSTANTS
    Actions,        \* uuids of action runs
    Workers,        \* hosts running a queue consumer
    NoWorker,       \* SQL NULL in action.worker
    MaxCrashes,     \* bound: restarts of each queue consumer ...
    Crashers,       \* ... and the workers that may crash at all
    ExitCodes       \* exit codes the containers choose themselves

ASSUME StoreAssumption ==
    /\ MaxCrashes \in Nat
    /\ Crashers \subseteq Workers
    /\ NoWorker \notin Workers
    /\ ExitCodes \subseteq Nat

VARIABLES
    row,            \* Actions -> row of the action table
    job,            \* Actions -> its Bull job
    msgs,           \* Workers -> published cancellations not yet delivered
    liveKeys,       \* API keys not disposed: <<runner, action>>
    cont,           \* Runners -> Actions -> docker container
    up,             \* Workers -> is the queue consumer running
    epoch,          \* Workers -> its incarnation
    reachable       \* Workers -> column worker.reachable

storeVars == <<row, job, msgs, liveKeys, cont, up, epoch, reachable>>

Epochs == 0..MaxCrashes
Runners == Workers \X Epochs
Me(w) == <<w, epoch[w]>>

\* State "ABSENT": no such row (before dispatch or after a delete).
Row == [state : ActionState \cup {"ABSENT"}, severity : ActionSeverity,
        origin : ActionFailureOrigin,
        artifacts : {"AWAITING", "UPLOADING", "UPLOADED", "ERROR"},
        ended : BOOLEAN, worker : Workers \cup {NoWorker}]

AbsentRow == [state |-> "ABSENT", severity |-> "OK", origin |-> "none",
              artifacts |-> "AWAITING", ended |-> FALSE, worker |-> NoWorker]

\* "abandoned": still in the active list, but its worker crashed and its lock
\* expired. "failed": in the failed set, which nobody retries.
Job == [st : {"none", "waiting", "active", "abandoned", "delayed", "failed"},
        q : Workers \cup {NoWorker}, stalled : BOOLEAN]

NoJob == [st |-> "none", q |-> NoWorker, stalled |-> FALSE]

Container == [st : {"none", "created", "running", "exited", "gone"},
              code : Nat, rm : BOOLEAN, expired : BOOLEAN]

NoContainer == [st |-> "none", code |-> 0, rm |-> FALSE, expired |-> FALSE]

StoreTypeOK ==
    /\ row \in [Actions -> Row]
    /\ job \in [Actions -> Job]
    /\ msgs \in [Workers -> SUBSET Actions]
    /\ liveKeys \subseteq Runners \X Actions
    /\ cont \in [Runners -> [Actions -> Container]]
    /\ up \in [Workers -> BOOLEAN]
    /\ epoch \in [Workers -> Epochs]
    /\ reachable \in [Workers -> BOOLEAN]

StoreInit ==
    /\ row = [a \in Actions |-> AbsentRow]
    /\ job = [a \in Actions |-> NoJob]
    /\ msgs = [w \in Workers |-> {}]
    /\ liveKeys = {}
    /\ cont = [r \in Runners |-> [a \in Actions |-> NoContainer]]
    /\ up = [w \in Workers |-> TRUE]
    /\ epoch = [w \in Workers |-> 0]
    /\ reachable = [w \in Workers |-> TRUE]
-----------------------------------------------------------------------------
Exists(a) == row[a].state # "ABSENT"

Unfinished(a) == Exists(a) /\ ~isTerminalActionState(row[a].state)

\* repository.update({uuid}, ...): one SQL UPDATE, no effect on a missing row.
Update(a, new) == row' = IF Exists(a) THEN [row EXCEPT ![a] = new] ELSE row

\* repository.save(entity): writes every loaded column, stale or not. Saving
\* an entity whose row is gone is an INSERT that the NOT NULL relations reject.
SaveEntity(a, entity) == Update(a, entity)

\* Mutant: the state is left out.
FailedRowStateKept(a, origin) == [row[a] EXCEPT !.severity = "ERROR", !.origin = origin]

FailedRow(a, origin) ==
    [row[a] EXCEPT !.state = "FAILED", !.severity = "ERROR", !.origin = origin]

RaiseSeverity(a, s) ==
    [row[a] EXCEPT !.severity = IF @ \in severitiesBelow(s) THEN s ELSE @]

\* Docker: kill stops a running container with code 137 and is a logged error
\* on any other; remove is a request the daemon serves later.
Killed(c) == IF c.st = "running" THEN [c EXCEPT !.st = "exited", !.code = SIGKILL_CODE] ELSE c

KillContainer(r, a) == cont' = [cont EXCEPT ![r][a] = Killed(@)]

\* Mutant: the container is only removed, which docker refuses while it runs.
OnlyRemoveContainer(r, a) == cont' = [cont EXCEPT ![r][a].rm = TRUE]

killAndRemoveContainer(r, a) ==
    cont' = [cont EXCEPT ![r][a] = [Killed(@) EXCEPT !.rm = TRUE]]

\* The container's main process ends by itself.
ContainerExit(r, a, code) ==
    /\ cont[r][a].st = "running"
    /\ cont' = [cont EXCEPT ![r][a].st = "exited", ![r][a].code = code]
    /\ UNCHANGED <<row, job, msgs, liveKeys, up, epoch, reachable>>

\* The daemon serves a remove request (container.remove).
DockerRemove(r, a) ==
    /\ cont[r][a].rm
    /\ cont[r][a].st \in {"created", "exited"}
    /\ cont' = [cont EXCEPT ![r][a].st = "gone"]
    /\ UNCHANGED <<row, job, msgs, liveKeys, up, epoch, reachable>>

\* The time in the label expires_at passes. Only the containers of a current
\* runner are ever asked for it.
RuntimeExpires(r, a) ==
    /\ r = Me(r[1])
    /\ cont[r][a].st \in {"created", "running", "exited"}
    /\ ~cont[r][a].expired
    /\ cont' = [cont EXCEPT ![r][a].expired = TRUE]
    /\ UNCHANGED <<row, job, msgs, liveKeys, up, epoch, reachable>>

StoreNext ==
    \E r \in Runners, a \in Actions :
        \/ \E code \in ExitCodes : ContainerExit(r, a, code)
        \/ DockerRemove(r, a)
        \/ RuntimeExpires(r, a)
=============================================================================
