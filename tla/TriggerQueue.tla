----------------------------- MODULE TriggerQueue -----------------------------
(***************************************************************************)
(* The queue of triggers: the cron of the api-servers adds one check per   *)
(* minute, requests add file events, and the queue consumers work on the   *)
(* jobs, several at a time and in any order. A consumer may die, its job   *)
(* is then stalled and processed once more, from the beginning.            *)
(***************************************************************************)
EXTENDS TriggerRequests

CONSTANTS
    TPM,                \* ticks per minute
    MaxClock,           \* bound on the clock
    Dates               \* when the cron expressions are due, in ticks

ASSUME TriggerQueueAssumption ==
    /\ TPM \in Nat \ {0} /\ MaxClock \in Nat
    /\ Dates \subseteq Nat /\ \A d \in Dates : d % TPM = 0

VARIABLES
    clock,              \* the time, in ticks
    job                 \* JobIds -> a job of trigger-queue

triggerQueueVars == <<clock, job>>

Minute(tick) == tick \div TPM

\* The id of a check is its minute; events are counted.
JobIds == ({"fileEvent"} \X (1..MaxRequests)) \cup ({"cronCheck"} \X (0..Minute(MaxClock)))

\* at: the timestamp of a check, the number of an event. todo: triggers still to
\* be looked at, as they were read (saw); now: the one that is being dispatched.
TriggerJob ==
    [st : {"none", "waiting", "active", "done", "failed"}, at : Nat, rerun : 0..1,
     todo : SUBSET Triggers, saw : [Triggers -> TriggerRow], now : Triggers \cup {None}]

NoJob == [st |-> "none", at |-> 0, rerun |-> 0, todo |-> {},
          saw |-> [t \in Triggers |-> NoTrigger], now |-> None]

TriggerQueueTypeOK == clock \in 0..MaxClock /\ job \in [JobIds -> TriggerJob]

Active(j) == job[j].st = "active"
SetJob(j, row) == job' = [job EXCEPT ![j] = row]
-----------------------------------------------------------------------------
\* Time goes by.
Tick ==
    /\ "tick" \in agenda /\ clock < MaxClock
    /\ clock' = clock + 1
    /\ UNCHANGED job

\* Mutant: jobs are not told apart by their minute.
AddAnotherCheck ==
    LET j == <<"cronCheck", Minute(clock)>> IN
    /\ "tick" \in agenda
    /\ job[j].st \in {"none", "done"}
    /\ SetJob(j, [job[j] EXCEPT !.st = "waiting", !.at = clock])
    /\ UNCHANGED clock

\* addCronCheck on some server: a job with the id of this minute is added unless
\* there is one.
AddCronCheck ==
    LET j == <<"cronCheck", Minute(clock)>> IN
    /\ "tick" \in agenda
    /\ job[j].st = "none"
    /\ SetJob(j, [job[j] EXCEPT !.st = "waiting", !.at = clock])
    /\ UNCHANGED clock

\* A file event that nobody has taken yet.
Waiting(e) == job[<<"fileEvent", e.no>>].st \in {"none", "waiting"}

\* The triggers of the mission the file is in by now.
Matching(e) ==
    {t \in Triggers : /\ LiveTrigger(t) /\ trigger[t].type = "FILE"
                      /\ e.event \in trigger[t].events
                      /\ trigger[t].mission = file[e.file].mission}

\* handleFileEvent: the file, its mission, then the triggers.
LoadEvent ==
    \E e \in {x \in events : Waiting(x)} :
        /\ SetJob(<<"fileEvent", e.no>>, [job[<<"fileEvent", e.no>>] EXCEPT
               !.st = "active", !.at = e.no, !.saw = [t \in Triggers |-> Joined(trigger[t])],
               !.todo = IF LiveFile(e.file) /\ LiveMission(file[e.file].mission)
                        THEN Matching(e) ELSE {}])
        /\ UNCHANGED clock

\* Mutant: the minute is a tick too short.
DueDatesShort(at) == {d \in Dates : d < at /\ at + 1 < d + TPM}

\* The date before the timestamp, if less than a minute ago. A date that is the
\* very timestamp is not before it.
DueDates(at) == {d \in Dates : d < at /\ at < d + TPM}

\* handleCronCheck reads the triggers; their expressions are parsed one by one.
LoadCheck ==
    \E j \in {x \in JobIds : x[1] = "cronCheck" /\ job[x].st = "waiting"} :
        /\ SetJob(j, [job[j] EXCEPT
               !.st = "active", !.saw = [t \in Triggers |-> Joined(trigger[t])],
               !.todo = IF DueDates(job[j].at) = {} THEN {}
                        ELSE {t \in Triggers : LiveTrigger(t) /\ trigger[t].type = "TIME"}])
        /\ UNCHANGED clock

\* dispatchAction: an error is logged, and the next trigger is looked at.
DispatchTrigger(j, t) ==
    /\ Active(j) /\ job[j].now = None /\ t \in job[j].todo
    /\ \/ MayDispatch(t, job[j].saw[t]) /\ SetJob(j, [job[j] EXCEPT !.now = t])
       \/ Refused(t, job[j].saw[t]) /\ SetJob(j, [job[j] EXCEPT !.todo = @ \ {t}])
    /\ UNCHANGED <<clock, runs>>

\* What the run is for.
OccasionOf(j) == IF j[1] = "fileEvent" THEN {<<"event", job[j].at>>}
                 ELSE {<<"date", d>> : d \in DueDates(job[j].at)}

FireTrigger(j, t) ==
    /\ Active(j) /\ job[j].now = t /\ t # None
    /\ \E o \in OccasionOf(j) : SaveRun(t, job[j].saw[t], o[1], o[2], j[2], job[j].rerun)
    /\ SetJob(j, [job[j] EXCEPT !.now = None, !.todo = @ \ {t}])
    /\ UNCHANGED clock

FinishJob(j) ==
    /\ Active(j) /\ job[j].todo = {}
    /\ SetJob(j, [NoJob EXCEPT !.st = "done", !.at = job[j].at])
    /\ UNCHANGED clock

\* A consumer dies: Bull has its job processed again, but not a third time.
ConsumerDies(j) ==
    /\ "crash" \in agenda /\ Active(j)
    /\ SetJob(j, [NoJob EXCEPT !.st = IF job[j].rerun = 0 THEN "waiting" ELSE "failed",
                               !.at = job[j].at, !.rerun = 1])
    /\ UNCHANGED clock

QueueStep ==
    \/ /\ \/ Tick \/ AddCronCheck \/ LoadEvent \/ LoadCheck
          \/ \E j \in JobIds : FinishJob(j) \/ ConsumerDies(j)
                               \/ \E t \in Triggers : DispatchTrigger(j, t)
       /\ UNCHANGED runs
    \/ \E j \in JobIds, t \in Triggers : FireTrigger(j, t)
=============================================================================
