-------------------------- MODULE ContainerJanitor --------------------------
(***************************************************************************)
(* ContainerLifecycleService.performReconciliation, run by every queue     *)
(* consumer each 30 seconds beside its job: it lists the containers of its *)
(* docker daemon, takes a snapshot of the PROCESSING actions, and kills    *)
(* what timed out, what belongs to no active action and what a dead runner *)
(* left behind. Every step reads a world that has moved on since the list. *)
(***************************************************************************)
EXTENDS ActionStore

VARIABLES
    inactive,       \* runners whose lastSeenAt is older than five minutes
    janPc,          \* Workers -> where the pass stands
    janList,        \* Workers -> listed containers still to visit
    janSeen,        \* Workers -> actions of all listed containers
    janActive,      \* Workers -> actions PROCESSING when the pass read them
    janAt           \* Workers -> the container a two-step case is at

janitorVars == <<inactive, janPc, janList, janSeen, janActive, janAt>>

JanitorPc == {"idle", "listed", "sweep", "timedOut", "zombie", "foreign", "detect"}

\* No two-step case is under way.
Nowhere == <<>>

JanitorTypeOK ==
    /\ inactive \subseteq Runners
    /\ janPc \in [Workers -> JanitorPc]
    /\ janList \in [Workers -> SUBSET (Runners \X Actions)]
    /\ janSeen \in [Workers -> SUBSET Actions]
    /\ janActive \in [Workers -> SUBSET Actions]
    /\ janAt \in [Workers -> (Runners \X Actions) \cup {Nowhere}]

JanitorInit ==
    /\ inactive = {}
    /\ janPc = [w \in Workers |-> "idle"]
    /\ janList = [w \in Workers |-> {}]
    /\ janSeen = [w \in Workers |-> {}]
    /\ janActive = [w \in Workers |-> {}]
    /\ janAt = [w \in Workers |-> Nowhere]
-----------------------------------------------------------------------------
Processing == {a \in Actions : row[a].state = "PROCESSING"}

\* docker ps -a of the worker's daemon, whichever runner started them.
ListedContainers(w) ==
    {c \in Runners \X Actions :
        c[1][1] = w /\ cont[c[1]][c[2]].st \in {"created", "running", "exited"}}

\* Five minutes have passed since a dead runner's last heartbeat.
RunnerGoesInactive(r) ==
    /\ r \notin inactive
    /\ epoch[r[1]] > r[2] \/ (epoch[r[1]] = r[2] /\ ~up[r[1]])
    /\ inactive' = inactive \cup {r}
    /\ UNCHANGED <<storeVars, janPc, janList, janSeen, janActive, janAt>>

At(w, from, to) ==
    janPc[w] = from /\ up[w] /\ janPc' = [janPc EXCEPT ![w] = to]

\* Without any container the pass returns here, crash detection included.
ListContainers(w) ==
    /\ ListedContainers(w) # {}
    /\ At(w, "idle", "listed")
    /\ janList' = [janList EXCEPT ![w] = ListedContainers(w)]
    /\ janSeen' = [janSeen EXCEPT ![w] = {c[2] : c \in ListedContainers(w)}]
    /\ UNCHANGED <<storeVars, inactive, janActive, janAt>>

ReadActive(w) ==
    /\ At(w, "listed", "sweep")
    /\ janActive' = [janActive EXCEPT ![w] = Processing]
    /\ UNCHANGED <<storeVars, inactive, janList, janSeen, janAt>>

Visit(w, c) == c \in janList[w] /\ janList' = [janList EXCEPT ![w] = @ \ {c}]

\* Mutant: expires_at is not compared with now.
MyTimedOutAlways(w, c) == c[1] = Me(w)

MyTimedOut(w, c) == c[1] = Me(w) /\ cont[c[1]][c[2]].expired

MyInactive(w, c) ==
    c[1] = Me(w) /\ ~cont[c[1]][c[2]].expired /\ c[2] \notin janActive[w]

\* The row the conditional update of a zombie matches.
Zombie(a) == Exists(a) /\ row[a].state \notin {"PROCESSING", "STARTING"}

\* Case 1, timed out, and case 2, a known runner that is inactive: kill, then mark.
KillFirst(w, c) ==
    /\ Visit(w, c)
    /\ \/ MyTimedOut(w, c) /\ At(w, "sweep", "timedOut")
       \/ c[1] \in inactive /\ At(w, "sweep", "foreign")
    /\ killAndRemoveContainer(c[1], c[2])
    /\ janAt' = [janAt EXCEPT ![w] = c]
    /\ UNCHANGED <<row, job, msgs, liveKeys, up, epoch, reachable,
                   inactive, janSeen, janActive>>

markActionAsFailed(w, origin) ==
    LET a == janAt[w][2] IN
    /\ Update(a, FailedRow(a, origin))
    /\ janAt' = [janAt EXCEPT ![w] = Nowhere]
    /\ UNCHANGED <<job, msgs, liveKeys, cont, up, epoch, reachable,
                   inactive, janList, janSeen, janActive>>

MarkTimedOut(w) == At(w, "timedOut", "sweep") /\ markActionAsFailed(w, "USER")
MarkInterrupted(w) == At(w, "foreign", "sweep") /\ markActionAsFailed(w, "SYSTEM")

\* Case 1, action not in the snapshot: marked unless PROCESSING or STARTING ...
MarkZombie(w, c) ==
    /\ Visit(w, c)
    /\ MyInactive(w, c)
    /\ Zombie(c[2])
    /\ At(w, "sweep", "zombie")
    /\ row' = [row EXCEPT ![c[2]] = FailedRow(c[2], "SYSTEM")]
    /\ janAt' = [janAt EXCEPT ![w] = c]
    /\ UNCHANGED <<job, msgs, liveKeys, cont, up, epoch, reachable,
                   inactive, janSeen, janActive>>

\* ... and killed only where a row was marked.
KillZombie(w) ==
    /\ At(w, "zombie", "sweep")
    /\ killAndRemoveContainer(janAt[w][1], janAt[w][2])
    /\ janAt' = [janAt EXCEPT ![w] = Nowhere]
    /\ UNCHANGED <<row, job, msgs, liveKeys, up, epoch, reachable,
                   inactive, janList, janSeen, janActive>>

\* An active action, one that is starting or gone, or another live runner.
LeaveAlone(w, c) ==
    /\ janPc[w] = "sweep" /\ up[w]
    /\ Visit(w, c)
    /\ ~MyTimedOut(w, c)
    /\ c[1] \notin inactive
    /\ MyInactive(w, c) => ~Zombie(c[2])
    /\ UNCHANGED <<storeVars, inactive, janPc, janSeen, janActive, janAt>>

\* Crash detection: PROCESSING here, no container on the list. janActive now
\* holds the actions to mark.
DetectCrashed(w) ==
    /\ janList[w] = {}
    /\ At(w, "sweep", "detect")
    /\ janActive' = [janActive EXCEPT ![w] =
                        {a \in Processing : row[a].worker = w} \ janSeen[w]]
    /\ janSeen' = [janSeen EXCEPT ![w] = {}]
    /\ UNCHANGED <<storeVars, inactive, janList, janAt>>

MarkCrashed(w, a) ==
    /\ janPc[w] = "detect" /\ up[w]
    /\ a \in janActive[w]
    /\ Update(a, FailedRow(a, "SYSTEM"))
    /\ janActive' = [janActive EXCEPT ![w] = @ \ {a}]
    /\ UNCHANGED <<job, msgs, liveKeys, cont, up, epoch, reachable,
                   inactive, janPc, janList, janSeen, janAt>>

FinishPass(w) ==
    /\ janActive[w] = {}
    /\ At(w, "detect", "idle")
    /\ UNCHANGED <<storeVars, inactive, janList, janSeen, janActive, janAt>>

\* The janitor's half of a crash of the consumer.
StopJanitor(w) ==
    /\ janPc' = [janPc EXCEPT ![w] = "idle"]
    /\ janList' = [janList EXCEPT ![w] = {}]
    /\ janSeen' = [janSeen EXCEPT ![w] = {}]
    /\ janActive' = [janActive EXCEPT ![w] = {}]
    /\ janAt' = [janAt EXCEPT ![w] = Nowhere]
    /\ UNCHANGED inactive
-----------------------------------------------------------------------------
Sweep(w) ==
    \/ \E c \in Runners \X Actions :
        KillFirst(w, c) \/ MarkZombie(w, c) \/ LeaveAlone(w, c)
    \/ MarkTimedOut(w) \/ MarkInterrupted(w) \/ KillZombie(w)

performReconciliation(w) ==
    \/ ListContainers(w) \/ ReadActive(w) \/ Sweep(w)
    \/ DetectCrashed(w) \/ (\E a \in Actions : MarkCrashed(w, a)) \/ FinishPass(w)

JanitorNext ==
    \/ \E w \in Workers : performReconciliation(w)
    \/ \E r \in Runners : RunnerGoesInactive(r)
=============================================================================
