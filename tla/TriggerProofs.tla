----------------------------- MODULE TriggerProofs -----------------------------
(***************************************************************************)
(* Theorems about the triggers of CatalogSystem, for every number of       *)
(* triggers, requests and consumers, and every length of a minute: an      *)
(* occasion starts one run of a trigger per processing of its job, and a   *)
(* check that is done has started every trigger that was due. The first    *)
(* rests on what a job still has to do telling which runs it has started;  *)
(* both on a date being due in one minute only.                            *)
(***************************************************************************)
EXTENDS CatalogProofs

-----------------------------------------------------------------------------
(* Requests have numbers of their own.                                     *)

Numbered ==
    \A r \in Requests : req[r].pc # "idle" =>
        /\ req[r].no \in Nat /\ req[r].no <= served
        /\ \A s \in Requests : s # r /\ req[s].pc # "idle" => req[s].no # req[r].no
        /\ \A x \in runs : x.of = "call" => x.at # req[r].no

Called == \A x \in runs : x.of = "call" => x.job = 0 /\ x.rerun = 0 /\ x.at <= served

\* A request goes on with its number, or is answered.
Goes(r) ==
    /\ UNCHANGED served
    /\ \E e : /\ req' = [req EXCEPT ![r] = e]
              /\ e.pc = "idle" \/ (req[r].pc # "idle" /\ e.no = req[r].no)

LEMMA NumberedGoes ==
    ASSUME RequestsOK, Numbered, Called, NEW r \in Requests, Goes(r), UNCHANGED runs
    PROVE  Numbered' /\ Called'
<1>1. req \in [Requests -> CatalogRequest] /\ served' = served /\ runs' = runs
  BY DEF RequestsOK, CatalogRequestsTypeOK, Goes
<1>2. \A q \in Requests : req'[q].pc # "idle" => req[q].pc # "idle" /\ req'[q].no = req[q].no
  BY <1>1 DEF Goes
<1> QED BY <1>1, <1>2 DEF Numbered, Called

LEMMA NumberedBegins ==
    ASSUME RequestsOK, Numbered, Called, NEW r \in Requests, Begins(r), UNCHANGED runs,
           runs \subseteq Run
    PROVE  Numbered' /\ Called'
<1>1. PICK kind \in Kinds, on \in SUBSET On, locals \in CatalogRequest : Begin(r, kind, on, locals)
  BY DEF Begins
<1> DEFINE e == IF locals.pc = "idle" THEN NoRequest
                ELSE [locals EXCEPT !.kind = kind, !.no = served + 1, !.on = on]
<1>2. req' = [req EXCEPT ![r] = e] /\ served' = served + 1
  BY <1>1 DEF Begin
<1>3. req \in [Requests -> CatalogRequest] /\ served \in Nat
  BY CatalogRequestsAssumption DEF RequestsOK, CatalogRequestsTypeOK
<1>4. e.pc = "idle" \/ e.no = served + 1
  BY NoRequestType DEF CatalogRequest
<1> HIDE DEF e
<1>5. \A q \in Requests : IF q = r THEN req'[q] = e ELSE req'[q] = req[q]
  BY <1>2, <1>3
<1>6. \A x \in runs : x.at \in Nat
  BY DEF Run
<1>7. Called'
  BY <1>2, <1>3, <1>6 DEF Called
<1>8. Numbered'
  <2> SUFFICES ASSUME NEW q \in Requests, req'[q].pc # "idle"
               PROVE  /\ req'[q].no \in Nat /\ req'[q].no <= served'
                      /\ \A s \in Requests : s # q /\ req'[s].pc # "idle" => req'[s].no # req'[q].no
                      /\ \A x \in runs' : x.of = "call" => x.at # req'[q].no
    BY DEF Numbered
  <2>1. CASE q = r
    <3>1. req'[q].no = served + 1
      BY <1>4, <1>5, <2>1
    <3>2. \A s \in Requests : s # q /\ req'[s].pc # "idle" => req'[s].no \in Nat /\ req'[s].no <= served
      BY <1>5, <2>1 DEF Numbered
    <3>3. \A x \in runs : x.of = "call" => x.at <= served /\ x.at \in Nat
      BY <1>6 DEF Called
    <3> QED BY <1>2, <1>3, <3>1, <3>2, <3>3
  <2>2. CASE q # r
    <3>1. req'[q] = req[q]
      BY <1>5, <2>2
    <3>2. req[q].no \in Nat /\ req[q].no <= served
      BY <2>2, <3>1 DEF Numbered
    <3>3. ASSUME NEW s \in Requests, s # q, req'[s].pc # "idle" PROVE req'[s].no # req'[q].no
      <4>1. CASE s = r
        BY <1>3, <1>4, <1>5, <3>1, <3>2, <3>3, <4>1
      <4>2. CASE s # r
        BY <1>5, <2>2, <3>1, <3>3, <4>2 DEF Numbered
      <4> QED BY <4>1, <4>2
    <3>4. \A x \in runs : x.of = "call" => x.at # req[q].no
      BY <2>2, <3>1 DEF Numbered
    <3> QED BY <1>2, <1>3, <3>1, <3>2, <3>3, <3>4
  <2> QED BY <2>1, <2>2
<1> QED BY <1>7, <1>8

LEMMA GoesByAnswer ==
    ASSUME NEW r, Answer(r), UNCHANGED served
    PROVE  Goes(r)
  BY NoRequestType DEF Goes, Answer, Set

LEMMA GoesByLocals ==
    ASSUME NEW r, NEW e, req[r].pc # "idle", e.no = req[r].no, Set(r, e), UNCHANGED served
    PROVE  Goes(r)
  BY DEF Goes, Set

LEMMA GoesByGoto ==
    ASSUME RequestsOK, NEW r \in Requests, NEW pc, req[r].pc # "idle", Goto(r, pc), UNCHANGED served
    PROVE  Goes(r)
<1>1. [req[r] EXCEPT !.pc = pc].no = req[r].no
  BY RequestType DEF CatalogRequest
<1> QED BY <1>1, GoesByLocals DEF Goto

LEMMA GoesByToDo ==
    ASSUME RequestsOK, NEW r \in Requests, NEW t, NEW what, req[r].pc # "idle", ToDo(r, t, what),
           UNCHANGED served
    PROVE  Goes(r)
<1>1. [req[r] EXCEPT !.todo[t] = what].no = req[r].no
  BY RequestType DEF CatalogRequest
<1> QED BY <1>1, GoesByLocals DEF ToDo

\* Every request in progress goes on with its number.
LEMMA ContinueGoes ==
    ASSUME RequestsOK, NEW r \in Requests, CatalogContinue(r) \/ TriggerContinue(r)
    PROVE  Goes(r)
<1>0. req[r] \in CatalogRequest
  BY RequestType
<1>1. UNCHANGED served /\ req[r].pc # "idle"
  BY DEF CatalogContinue, SaveMetadataTypes, CountMissions, DropProject, MissionExists, InsertMission,
         MoveExists, SetProject, SoftRemoveMission, RemoveMetadata, Upserted, DeleteMetadata, FindForAdd,
         AddMetadata, FindForUpdate, UpdateMetadata, ReserveFile, ConfirmUpload, SaveMovedFile,
         FileMoved, TriggerContinue, SaveVersion, CountExecutions, ArchiveTemplate, EraseTemplate,
         SaveTrigger, CheckWebhook, FireWebhook, History, At
<1>2. CASE Answer(r)
  BY <1>1, <1>2, GoesByAnswer
<1>3. CASE \E pc \in CatalogPc : Goto(r, pc)
  BY <1>1, <1>3, GoesByGoto
<1>4. CASE \E t \in Types, what \in Todo : ToDo(r, t, what)
  BY <1>1, <1>4, GoesByToDo
<1>5. CASE InsertMission(r)
  <2>1. CASE Answer(r)
    BY <1>2, <2>1
  <2>2. CASE \E todo : Set(r, [req[r] EXCEPT !.pc = "upsert", !.todo = todo])
    <3>1. PICK todo : Set(r, [req[r] EXCEPT !.pc = "upsert", !.todo = todo])
      BY <2>2
    <3>2. [req[r] EXCEPT !.pc = "upsert", !.todo = todo].no = req[r].no
      BY <1>0 DEF CatalogRequest
    <3> QED BY <1>1, <3>1, <3>2, GoesByLocals
  <2> QED BY <1>5, <2>1, <2>2 DEF InsertMission
<1>6. CASE RemoveMetadata(r)
  <2> DEFINE todo == [t \in Types |-> IF req[r].given[t] # "value" THEN "none"
                                      ELSE IF req[r].seen[t] # {} THEN "update" ELSE "add"]
  <2>1. Set(r, [req[r] EXCEPT !.pc = "upsert", !.todo = todo])
    BY <1>6 DEF RemoveMetadata
  <2>2. [req[r] EXCEPT !.pc = "upsert", !.todo = todo].no = req[r].no
    BY <1>0 DEF CatalogRequest
  <2> QED BY <1>1, <2>1, <2>2, GoesByLocals
<1>7. ASSUME NEW t \in Types, FindForUpdate(r, t) PROVE Goes(r)
  <2>1. CASE ToDo(r, t, "none")
    BY <1>1, <2>1, GoesByToDo
  <2>2. CASE \E row : Set(r, [req[r] EXCEPT !.todo[t] = "updating", !.seen[t] = {row}])
    <3>1. PICK row : Set(r, [req[r] EXCEPT !.todo[t] = "updating", !.seen[t] = {row}])
      BY <2>2
    <3>2. [req[r] EXCEPT !.todo[t] = "updating", !.seen[t] = {row}].no = req[r].no
      BY <1>0 DEF CatalogRequest
    <3> QED BY <1>1, <3>1, <3>2, GoesByLocals
  <2> QED BY <1>7, <2>1, <2>2 DEF FindForUpdate
<1>8. CASE \E t \in Types : FindForAdd(r, t) \/ AddMetadata(r, t) \/ UpdateMetadata(r, t)
  BY <1>4, <1>8 DEF FindForAdd, AddMetadata, UpdateMetadata, Todo
<1>9. CASE \/ CountMissions(r) \/ MissionExists(r) \/ MoveExists(r) \/ ReserveFile(r)
           \/ SaveMovedFile(r) \/ CountExecutions(r) \/ CheckWebhook(r)
  <2>1. {"dropProject", "createMission", "moveMission", "confirm", "moved", "archive", "erase",
         "fire"} \subseteq CatalogPc
    BY DEF CatalogPc
  <2> QED BY <1>2, <1>3, <1>9, <2>1 DEF CountMissions, MissionExists, MoveExists, ReserveFile,
             SaveMovedFile, CountExecutions, CheckWebhook
<1>10. CASE \/ SaveMetadataTypes(r) \/ DropProject(r) \/ SetProject(r) \/ SoftRemoveMission(r)
            \/ Upserted(r) \/ DeleteMetadata(r) \/ ConfirmUpload(r) \/ FileMoved(r) \/ SaveVersion(r)
            \/ ArchiveTemplate(r) \/ EraseTemplate(r) \/ SaveTrigger(r) \/ FireWebhook(r)
  BY <1>2, <1>10 DEF SaveMetadataTypes, DropProject, SetProject, SoftRemoveMission, Upserted,
     DeleteMetadata, ConfirmUpload, FileMoved, SaveVersion, ArchiveTemplate, EraseTemplate,
     SaveTrigger, FireWebhook
<1> QED BY <1>5, <1>6, <1>7, <1>8, <1>9, <1>10 DEF CatalogContinue, TriggerContinue
-----------------------------------------------------------------------------
(* What a job has started.                                                 *)

\* A date is due in checks of one minute only, its own.
LEMMA DueInItsMinute ==
    ASSUME NEW at \in Nat, NEW d \in DueDates(at)
    PROVE  Minute(d) = Minute(at) /\ d \in Nat
<1>1. d \in Nat /\ d % TPM = 0 /\ d < at /\ at < d + TPM /\ TPM \in Nat \ {0}
  BY TriggerQueueAssumption DEF DueDates
<1>2. ASSUME NEW T \in Nat \ {0}, NEW a \in Nat, NEW b \in Nat, b % T = 0, b < a, a < b + T
      PROVE  b \div T = a \div T
  BY <1>2
<1> QED BY <1>1, <1>2 DEF Minute

OfJob(x, j) ==
    /\ x.job = j[2]
    /\ \/ x.of = "event" /\ j[1] = "fileEvent"
       \/ x.of = "date" /\ j[1] = "cronCheck"

\* The job of an event has its number, that of a check is in its minute.
Timed(j, row) ==
    row.st # "none" => IF j[1] = "fileEvent" THEN row.at = j[2] ELSE Minute(row.at) = j[2]

RunTimed(x) ==
    /\ x.of = "event" => x.at = x.job
    /\ x.of = "date" => x.job = Minute(x.at)

\* A job will not start this run's trigger again in the processing that started it.
Spent(x, row) ==
    \/ row.st \in {"done", "failed"}
    \/ row.st \in {"waiting", "active"} /\ x.rerun < row.rerun
    \/ row.st = "active" /\ x.rerun = row.rerun /\ x.trigger \notin row.todo

JobsTimed == \A j \in JobIds : Timed(j, job[j])
RunsSpent == \A x \in runs : RunTimed(x) /\ \A j \in JobIds : OfJob(x, j) => Spent(x, job[j])

FiredInv == Numbered /\ Called /\ JobsTimed /\ RunsSpent /\ FiresOnce

\* A job goes on without starting a run.
LEMMA JobGoesOn ==
    ASSUME QueueOK, JobsTimed, RunsSpent, NEW j, NEW row, SetJob(j, row), UNCHANGED runs,
           j \in JobIds => Timed(j, row) /\ \A x \in runs : Spent(x, job[j]) => Spent(x, row)
    PROVE  JobsTimed' /\ RunsSpent'
<1>1. job \in [JobIds -> TriggerJob]
  BY DEF QueueOK, TriggerQueueTypeOK
<1>2. \A i \in JobIds : IF i = j THEN job'[i] = row ELSE job'[i] = job[i]
  BY <1>1 DEF SetJob
<1>3. JobsTimed'
  <2>1. ASSUME NEW i \in JobIds PROVE Timed(i, job'[i])
    BY <1>2 DEF JobsTimed
  <2> QED BY <2>1 DEF JobsTimed, JobIds, Minute
<1>4. RunsSpent'
  <2>1. ASSUME NEW x \in runs, NEW i \in JobIds, OfJob(x, i) PROVE Spent(x, job'[i])
    BY <1>2, <2>1 DEF RunsSpent
  <2>2. \A x \in runs : RunTimed(x)
    BY DEF RunsSpent
  <2> QED BY <2>1, <2>2 DEF RunsSpent, JobIds, Minute
<1> QED BY <1>3, <1>4

\* A job starts a run it has not started in this processing.
LEMMA JobFires ==
    ASSUME StoreOK, RequestsOK, QueueOK, FiredInv, NEW j \in JobIds, NEW t \in Triggers, FireTrigger(j, t),
           UNCHANGED catalogRequestVars
    PROVE  FiredInv'
<1>0. job[j] \in TriggerJob /\ t \in job[j].todo /\ job[j].st = "active"
  BY JobType DEF FireTrigger, Handled, Active
<1>1. PICK o \in OccasionOf(j) : SaveRun(t, job[j].saw[t], o[1], o[2], j[2], job[j].rerun)
  BY DEF FireTrigger
<1> DEFINE run == [trigger |-> t, mission |-> job[j].saw[t].mission, version |-> job[j].saw[t].version,
                   of |-> o[1], at |-> o[2], job |-> j[2], rerun |-> job[j].rerun,
                   no |-> Cardinality(runs) + 1]
           row == [job[j] EXCEPT !.now = None, !.todo = @ \ {t}]
<1>2. runs' = runs \/ runs' = runs \cup {run}
  BY <1>1 DEF SaveRun
<1>3. SetJob(j, row) /\ UNCHANGED clock
  BY DEF FireTrigger
<1>4. row.st = "active" /\ row.at = job[j].at /\ row.rerun = job[j].rerun /\ row.todo = job[j].todo \ {t}
  BY <1>0 DEF TriggerJob
<1>5. run.trigger = t /\ run.of = o[1] /\ run.at = o[2] /\ run.job = j[2] /\ run.rerun = job[j].rerun
  OBVIOUS
<1> HIDE DEF run, row
<1>6. RunTimed(run) /\ OfJob(run, j) /\ run.of # "call"
  <2>1. CASE j[1] = "fileEvent"
    <3>1. o = <<"event", job[j].at>>
      BY <2>1 DEF OccasionOf
    <3>2. job[j].at = j[2]
      BY <1>0, <2>1 DEF FiredInv, JobsTimed, Timed
    <3> QED BY <1>5, <2>1, <3>1, <3>2 DEF RunTimed, OfJob
  <2>2. CASE j[1] # "fileEvent"
    <3>1. PICK d \in DueDates(job[j].at) : o = <<"date", d>>
      BY <2>2 DEF OccasionOf
    <3>2. Minute(job[j].at) = j[2] /\ j[1] = "cronCheck"
      BY <1>0, <2>2 DEF FiredInv, JobsTimed, Timed, JobIds
    <3>3. Minute(d) = Minute(job[j].at)
      BY <1>0, DueInItsMinute DEF TriggerJob
    <3> QED BY <1>5, <3>1, <3>2, <3>3 DEF RunTimed, OfJob
  <2> QED BY <2>1, <2>2
<1>7. ASSUME NEW i \in JobIds, OfJob(run, i) PROVE i = j
  <2>1. i[1] = j[1] /\ i[2] = j[2]
    BY <1>6, <1>7 DEF OfJob
  <2>2. i = <<i[1], i[2]>> /\ j = <<j[1], j[2]>>
    BY DEF JobIds
  <2> QED BY <2>1, <2>2
<1>8. Spent(run, row)
  BY <1>4, <1>5 DEF Spent
<1>9. \A x \in runs : Spent(x, job[j]) => Spent(x, row)
  BY <1>0, <1>4 DEF Spent
<1>10. job \in [JobIds -> TriggerJob]
  BY DEF QueueOK, TriggerQueueTypeOK
<1>11. \A i \in JobIds : IF i = j THEN job'[i] = row ELSE job'[i] = job[i]
  BY <1>3, <1>10 DEF SetJob
<1>12. JobsTimed'
  <2>1. ASSUME NEW i \in JobIds PROVE Timed(i, job'[i])
    BY <1>0, <1>4, <1>11 DEF FiredInv, JobsTimed, Timed
  <2> QED BY <2>1 DEF JobsTimed, JobIds, Minute
<1>13. RunsSpent'
  <2>1. ASSUME NEW x \in runs' PROVE RunTimed(x)
    BY <1>2, <1>6 DEF FiredInv, RunsSpent
  <2>2. ASSUME NEW x \in runs', NEW i \in JobIds, OfJob(x, i) PROVE Spent(x, job'[i])
    <3>1. CASE x \in runs
      <4>1. Spent(x, job[i])
        BY <2>2, <3>1 DEF FiredInv, RunsSpent
      <4> QED BY <1>9, <1>11, <3>1, <4>1
    <3>2. CASE x = run
      BY <1>7, <1>8, <1>11, <2>2, <3>2
    <3> QED BY <1>2, <3>1, <3>2
  <2> QED BY <2>1, <2>2 DEF RunsSpent, JobIds, Minute
<1>14. FiresOnce'
  <2>1. ASSUME NEW x \in runs, x.trigger = t, x.of = run.of, x.at = run.at
        PROVE  x.job = run.job /\ x.rerun # run.rerun
    <3>1. RunTimed(x)
      BY DEF FiredInv, RunsSpent
    <3>2. run.of \in {"event", "date"}
      BY <1>6 DEF OfJob
    <3>3. x.job = run.job
      BY <1>6, <2>1, <3>1, <3>2 DEF RunTimed
    <3>4. OfJob(x, j)
      BY <1>6, <2>1, <3>3 DEF OfJob
    <3>5. Spent(x, job[j])
      BY <3>4 DEF FiredInv, RunsSpent
    <3>6. x.rerun \in Nat /\ job[j].rerun \in Nat
      BY <1>0 DEF TriggerJob, StoreOK, CatalogStoreTypeOK, Run
    <3>7. x.rerun < job[j].rerun
      BY <1>0, <2>1, <3>5 DEF Spent
    <3> QED BY <1>5, <3>3, <3>6, <3>7
  <2>2. ASSUME NEW x \in runs', NEW y \in runs', x # y, x.trigger = y.trigger, x.of = y.of, x.at = y.at
        PROVE  x.job = y.job /\ x.rerun # y.rerun
    <3>1. CASE x \in runs /\ y \in runs
      BY <2>2, <3>1 DEF FiredInv, FiresOnce
    <3>2. CASE x \in runs /\ y = run
      BY <1>5, <2>1, <2>2, <3>2
    <3>3. CASE x = run /\ y \in runs
      BY <1>5, <2>1, <2>2, <3>3
    <3> QED BY <1>2, <2>2, <3>1, <3>2, <3>3
  <2> QED BY <2>2 DEF FiresOnce
<1>15. Numbered' /\ Called'
  <2>1. \A x \in runs' : x.of = "call" => x \in runs
    BY <1>2, <1>6
  <2>2. UNCHANGED <<req, served>>
    BY DEF catalogRequestVars
  <2> QED BY <2>1, <2>2 DEF FiredInv, Numbered, Called
<1> QED BY <1>12, <1>13, <1>14, <1>15 DEF FiredInv

LEMMA FiredQueue ==
    ASSUME StoreOK, RequestsOK, QueueOK, FiredInv, QueueStep, UNCHANGED catalogRequestVars
    PROVE  FiredInv'
<1>0. ASSUME JobsTimed', RunsSpent', UNCHANGED runs PROVE FiredInv'
  BY <1>0 DEF FiredInv, Numbered, Called, FiresOnce, catalogRequestVars
<1>1. CASE Tick /\ UNCHANGED runs
  BY <1>0, <1>1 DEF Tick, FiredInv, JobsTimed, RunsSpent, Timed, RunTimed, OfJob, Spent, JobIds, Minute
<1>2. CASE AddCronCheck /\ UNCHANGED runs
  <2> DEFINE j == <<"cronCheck", Minute(clock)>>
             row == [job[j] EXCEPT !.st = "waiting", !.at = clock]
  <2>1. SetJob(j, row) /\ job[j].st = "none"
    BY <1>2 DEF AddCronCheck
  <2>2. ASSUME j \in JobIds PROVE Timed(j, row) /\ \A x \in runs : Spent(x, job[j]) => Spent(x, row)
    <3>1. job[j] \in TriggerJob
      BY <2>2, JobType
    <3>2. row.at = clock /\ j[1] = "cronCheck" /\ j[2] = Minute(clock)
      BY <3>1 DEF TriggerJob
    <3> QED BY <2>1, <3>2 DEF Timed, Spent
  <2> HIDE DEF row, j
  <2> QED BY <1>0, <1>2, <2>1, <2>2, JobGoesOn DEF FiredInv
<1>3. CASE LoadEvent /\ UNCHANGED runs
  <2>1. PICK e \in events : \E saw, todo :
            /\ Waiting(e)
            /\ SetJob(<<"fileEvent", e.no>>, [job[<<"fileEvent", e.no>>] EXCEPT
                   !.st = "active", !.at = e.no, !.saw = saw, !.todo = todo])
    BY <1>3 DEF LoadEvent
  <2>2. PICK saw, todo :
            /\ Waiting(e)
            /\ SetJob(<<"fileEvent", e.no>>, [job[<<"fileEvent", e.no>>] EXCEPT
                   !.st = "active", !.at = e.no, !.saw = saw, !.todo = todo])
    BY <2>1
  <2> DEFINE j == <<"fileEvent", e.no>>
             row == [job[j] EXCEPT !.st = "active", !.at = e.no, !.saw = saw, !.todo = todo]
  <2>3. SetJob(j, row) /\ job[j].st \in {"none", "waiting"}
    BY <2>2 DEF Waiting
  <2>4. ASSUME j \in JobIds PROVE Timed(j, row) /\ \A x \in runs : Spent(x, job[j]) => Spent(x, row)
    <3>1. job[j] \in TriggerJob
      BY <2>4, JobType
    <3>2. row.st = "active" /\ row.at = j[2] /\ j[1] = "fileEvent" /\ row.rerun = job[j].rerun
      BY <3>1 DEF TriggerJob
    <3> QED BY <2>3, <3>2 DEF Timed, Spent
  <2> HIDE DEF row, j
  <2> QED BY <1>0, <1>3, <2>3, <2>4, JobGoesOn DEF FiredInv
<1>4. CASE LoadCheck /\ UNCHANGED runs
  <2>1. PICK j \in JobIds : \E saw, todo :
            job[j].st = "waiting" /\ SetJob(j, [job[j] EXCEPT !.st = "active", !.saw = saw, !.todo = todo])
    BY <1>4 DEF LoadCheck
  <2>2. PICK saw, todo :
            job[j].st = "waiting" /\ SetJob(j, [job[j] EXCEPT !.st = "active", !.saw = saw, !.todo = todo])
    BY <2>1
  <2> DEFINE row == [job[j] EXCEPT !.st = "active", !.saw = saw, !.todo = todo]
  <2>3. SetJob(j, row)
    BY <2>2
  <2>4. row.st = "active" /\ row.at = job[j].at /\ row.rerun = job[j].rerun
    BY JobType DEF TriggerJob
  <2> HIDE DEF row
  <2>5. Timed(j, row) /\ \A x \in runs : Spent(x, job[j]) => Spent(x, row)
    BY <2>2, <2>4 DEF FiredInv, JobsTimed, Timed, Spent
  <2> QED BY <1>0, <1>4, <2>3, <2>5, JobGoesOn DEF FiredInv
<1>5. ASSUME NEW j \in JobIds, FinishJob(j), UNCHANGED runs
      PROVE  FiredInv'
  <2> DEFINE row == [NoJob EXCEPT !.st = "done", !.at = job[j].at]
  <2>1. SetJob(j, row) /\ job[j].st = "active"
    BY <1>5 DEF FinishJob, Active
  <2>2. row.st = "done" /\ row.at = job[j].at
    BY DEF NoJob
  <2> HIDE DEF row
  <2>3. Timed(j, row) /\ \A x \in runs : Spent(x, row)
    BY <2>1, <2>2 DEF FiredInv, JobsTimed, Timed, Spent
  <2> QED BY <1>0, <1>5, <2>1, <2>3, JobGoesOn DEF FiredInv
<1>6. ASSUME NEW j \in JobIds, ConsumerDies(j), UNCHANGED runs
      PROVE  FiredInv'
  <2> DEFINE st == IF job[j].rerun = 0 THEN "waiting" ELSE "failed"
             row == [NoJob EXCEPT !.st = st, !.at = job[j].at, !.rerun = 1]
  <2>1. SetJob(j, row) /\ job[j].st = "active"
    BY <1>6 DEF ConsumerDies, Active
  <2>2. row.st = st /\ row.at = job[j].at /\ row.rerun = 1
    BY DEF NoJob
  <2> HIDE DEF row
  <2>3. Timed(j, row)
    BY <2>1, <2>2 DEF FiredInv, JobsTimed, Timed
  <2>4. ASSUME NEW x \in runs, Spent(x, job[j]) PROVE Spent(x, row)
    <3>1. x.rerun \in Nat /\ job[j].rerun \in 0..1
      BY JobType DEF TriggerJob, StoreOK, CatalogStoreTypeOK, Run
    <3>2. x.rerun <= job[j].rerun
      BY <2>1, <2>4, <3>1 DEF Spent
    <3> QED BY <2>2, <3>1, <3>2 DEF Spent
  <2> QED BY <1>0, <1>6, <2>1, <2>3, <2>4, JobGoesOn DEF FiredInv
<1>7. ASSUME NEW j \in JobIds, NEW t \in Triggers, DispatchTrigger(j, t), UNCHANGED runs
      PROVE  FiredInv'
  <2>1. PICK now, todo : SetJob(j, [job[j] EXCEPT !.now = now, !.todo = todo]) /\ todo \subseteq job[j].todo
    <3>1. CASE SetJob(j, [job[j] EXCEPT !.now = t])
      <4>1. [job[j] EXCEPT !.now = t] = [job[j] EXCEPT !.now = t, !.todo = job[j].todo]
        BY JobType DEF TriggerJob
      <4> QED BY <3>1, <4>1
    <3>2. CASE SetJob(j, [job[j] EXCEPT !.todo = @ \ {t}])
      <4>1. [job[j] EXCEPT !.todo = @ \ {t}] = [job[j] EXCEPT !.now = job[j].now, !.todo = job[j].todo \ {t}]
        BY JobType DEF TriggerJob
      <4> QED BY ZenonT(60), <3>2, <4>1
    <3> QED BY <1>7, <3>1, <3>2 DEF DispatchTrigger
  <2> DEFINE row == [job[j] EXCEPT !.now = now, !.todo = todo]
  <2>2. SetJob(j, row)
    BY <2>1
  <2>3. row.st = job[j].st /\ row.at = job[j].at /\ row.rerun = job[j].rerun /\ row.todo = todo
    BY JobType DEF TriggerJob
  <2> HIDE DEF row
  <2>4. Timed(j, row) /\ \A x \in runs : Spent(x, job[j]) => Spent(x, row)
    BY <2>1, <2>3 DEF FiredInv, JobsTimed, Timed, Spent
  <2> QED BY <1>0, <1>7, <2>2, <2>4, JobGoesOn DEF FiredInv
<1>8. ASSUME NEW j \in JobIds, NEW t \in Triggers, FireTrigger(j, t)
      PROVE  FiredInv'
  BY <1>8, JobFires
<1> QED BY <1>1, <1>2, <1>3, <1>4, <1>5, <1>6, <1>7, <1>8 DEF QueueStep

-----------------------------------------------------------------------------
(* What a call has started.                                                *)

LEMMA QueueLeft ==
    ASSUME FiredInv, UNCHANGED triggerQueueVars, UNCHANGED runs, Numbered' /\ Called'
    PROVE  FiredInv'
  BY DEF FiredInv, JobsTimed, RunsSpent, Timed, RunTimed, OfJob, Spent, FiresOnce, JobIds, Minute,
         triggerQueueVars

LEMMA CallFires ==
    ASSUME StoreOK, RequestsOK, FiredInv, NEW r \in Requests, FireWebhook(r), UNCHANGED triggerQueueVars
    PROVE  FiredInv'
<1> DEFINE run == [trigger |-> req[r].trigger, mission |-> req[r].row.mission,
                   version |-> req[r].row.version, of |-> "call", at |-> req[r].no, job |-> 0,
                   rerun |-> 0, no |-> Cardinality(runs) + 1]
<1>1. runs' = runs \/ runs' = runs \cup {run}
  BY DEF FireWebhook, SaveRun
<1>2. run.of = "call" /\ run.at = req[r].no /\ run.job = 0 /\ run.rerun = 0
  OBVIOUS
<1> HIDE DEF run
<1>3. req[r].pc = "fire" /\ Answer(r) /\ UNCHANGED served
  BY DEF FireWebhook, At, History
<1>4. /\ req[r].no \in Nat /\ req[r].no <= served
      /\ \A s \in Requests : s # r /\ req[s].pc # "idle" => req[s].no # req[r].no
      /\ \A x \in runs : x.of = "call" => x.at # req[r].no
  BY <1>3 DEF FiredInv, Numbered
<1>5. \A q \in Requests : req'[q].pc # "idle" => q # r /\ req[q].pc # "idle" /\ req'[q] = req[q]
  BY <1>3, NoRequestType DEF Answer, Set, RequestsOK, CatalogRequestsTypeOK
<1>6. Numbered'
  <2> SUFFICES ASSUME NEW q \in Requests, req'[q].pc # "idle"
               PROVE  /\ req'[q].no \in Nat /\ req'[q].no <= served'
                      /\ \A s \in Requests : s # q /\ req'[s].pc # "idle" => req'[s].no # req'[q].no
                      /\ \A x \in runs' : x.of = "call" => x.at # req'[q].no
    BY DEF Numbered
  <2>1. q # r /\ req[q].pc # "idle" /\ req'[q] = req[q]
    BY <1>5
  <2>2. req[q].no \in Nat /\ req[q].no <= served /\ req[q].no # req[r].no
    BY <1>4, <2>1 DEF FiredInv, Numbered
  <2>3. \A s \in Requests : s # q /\ req'[s].pc # "idle" => req'[s].no # req'[q].no
    BY <1>5, <2>1 DEF FiredInv, Numbered
  <2>4. \A x \in runs : x.of = "call" => x.at # req[q].no
    BY <2>1 DEF FiredInv, Numbered
  <2> QED BY <1>1, <1>2, <1>3, <2>1, <2>2, <2>3, <2>4
<1>7. Called'
  BY <1>1, <1>2, <1>3, <1>4 DEF FiredInv, Called
<1>8. FiresOnce'
  BY <1>1, <1>2, <1>4 DEF FiredInv, FiresOnce
<1>9. JobsTimed'
  BY DEF FiredInv, JobsTimed, Timed, JobIds, Minute, triggerQueueVars
<1>10. RunsSpent'
  <2>1. RunTimed(run) /\ \A j \in JobIds : ~OfJob(run, j)
    BY <1>2 DEF RunTimed, OfJob
  <2>2. \A x \in runs' : RunTimed(x)
    BY <1>1, <2>1 DEF FiredInv, RunsSpent
  <2>3. \A x \in runs', j \in JobIds : OfJob(x, j) => Spent(x, job[j])
    BY <1>1, <2>1 DEF FiredInv, RunsSpent
  <2>4. job' = job
    BY DEF triggerQueueVars
  <2> QED BY <2>2, <2>3, <2>4 DEF RunsSpent, JobIds, Minute
<1> QED BY <1>6, <1>7, <1>8, <1>9, <1>10 DEF FiredInv

LEMMA FiredRequests ==
    ASSUME StoreOK, RequestsOK, FiredInv, NEW r \in Requests, UNCHANGED triggerQueueVars,
           \/ CatalogReceive(r) \/ TriggerReceive(r) \/ CatalogContinue(r) \/ TriggerContinue(r)
    PROVE  FiredInv'
<1>1. CASE CatalogReceive(r) \/ TriggerReceive(r)
  <2>1. UNCHANGED runs
    BY <1>1 DEF CatalogReceive, TriggerReceive, CreateProject, UpdateMetadataTypes, DeleteProject,
       CreateMission, MoveMission, DeleteMission, ReplaceMissionMetadata, UnsetMetadata, Upload,
       ConfirmAgain, MoveFile, DeleteFile, CreateTemplate, CreateVersion, DeleteTemplate,
       CreateTrigger, EditTrigger, DeleteTrigger, CallWebhook, BeginSave, catalogStoreVars
  <2>2. Begins(r)
    BY <1>1, ReceiveOK, TriggerReceiveOK
  <2>3. runs \subseteq Run
    BY DEF StoreOK, CatalogStoreTypeOK
  <2> QED BY <2>1, <2>2, <2>3, NumberedBegins, QueueLeft DEF FiredInv
<1>2. CASE FireWebhook(r)
  BY <1>2, CallFires
<1>3. CASE (CatalogContinue(r) \/ TriggerContinue(r)) /\ ~FireWebhook(r)
  <2>1. UNCHANGED runs
    BY <1>3 DEF CatalogContinue, SaveMetadataTypes, CountMissions, DropProject, MissionExists,
       InsertMission, MoveExists, SetProject, SoftRemoveMission, RemoveMetadata, Upserted,
       DeleteMetadata, FindForAdd, AddMetadata, FindForUpdate, UpdateMetadata, ReserveFile,
       ConfirmUpload, SaveMovedFile, FileMoved, TriggerContinue, SaveVersion, CountExecutions,
       ArchiveTemplate, EraseTemplate, SaveTrigger, CheckWebhook, catalogStoreVars
  <2>2. Goes(r)
    BY <1>3, ContinueGoes
  <2> QED BY <2>1, <2>2, NumberedGoes, QueueLeft DEF FiredInv
<1> QED BY <1>1, <1>2, <1>3
-----------------------------------------------------------------------------
LEMMA FiredInit == CatalogInit => FiredInv
<1> SUFFICES ASSUME CatalogInit PROVE FiredInv
  OBVIOUS
<1>1. runs = {} /\ req = [r \in Requests |-> NoRequest] /\ job = [j \in JobIds |-> NoJob]
  BY DEF CatalogInit
<1>2. Numbered /\ Called
  BY <1>1, NoRequestType DEF Numbered, Called
<1>3. JobsTimed /\ RunsSpent /\ FiresOnce
  BY <1>1 DEF JobsTimed, Timed, NoJob, RunsSpent, FiresOnce
<1> QED BY <1>2, <1>3 DEF FiredInv

LEMMA FiredStep ==
    ASSUME CatalogInv, FiredInv, [CatalogNext]_catalogVars
    PROVE  FiredInv'
<1>0. StoreOK /\ RequestsOK /\ QueueOK
  BY DEF CatalogInv
<1>1. ASSUME NEW r \in Requests, UNCHANGED triggerQueueVars,
             \/ CatalogReceive(r) \/ TriggerReceive(r) \/ CatalogContinue(r) \/ TriggerContinue(r)
      PROVE  FiredInv'
  BY <1>0, <1>1, FiredRequests
<1>2. CASE /\ QueueStep
           /\ UNCHANGED <<project, mission, metadata, file, template, trigger, catalogRequestVars>>
  BY <1>0, <1>2, FiredQueue
<1>3. CASE UNCHANGED catalogVars
  <2>1. UNCHANGED <<runs, req, served>> /\ UNCHANGED triggerQueueVars
    BY <1>3 DEF catalogVars, catalogStoreVars, catalogRequestVars
  <2>2. Numbered' /\ Called'
    BY <2>1 DEF FiredInv, Numbered, Called
  <2> QED BY <2>1, <2>2, QueueLeft
<1> QED BY <1>1, <1>2, <1>3 DEF CatalogNext

\* However many consumers work on the queue, crash and start over, and however
\* requests edit and delete the triggers meanwhile: a date, an event or a call
\* starts one run of a trigger per processing of its job, and no other job does.
THEOREM FiresOncePerOccasion == CatalogSpec => []FiresOnce
<1>1. CatalogInv /\ FiredInv /\ [CatalogNext]_catalogVars => FiredInv'
  BY FiredStep
<1>2. FiredInv => FiresOnce
  BY DEF FiredInv
<1>3. CatalogSpec => []CatalogInv
  BY CatalogInvariant, PTL
<1> QED BY <1>1, <1>2, <1>3, FiredInit, PTL DEF CatalogSpec

-----------------------------------------------------------------------------
(* The dates that are due, where nothing is edited meanwhile.              *)

\* No trigger, mission or project comes, changes or goes, and the log store is up.
Calm == agenda \cap {"newTrigger", "editTrigger", "dropTrigger", "dropMission", "dropProject",
                     "newMission", "moveMission", "dropTemplate", "lokiDown"} = {}

\* A request is of a kind this behaviour sees.
Listed == \A r \in Requests : req[r].pc # "idle" => req[r].kind \in agenda

\* What a trigger or a mission refers to is there.
Reachable ==
    /\ \A t \in Triggers : LiveTrigger(t) => template[trigger[t].version] # "none"
    /\ \A m \in Missions : LiveMission(m) => LiveProject(mission[m].project)

Due(t) == LiveTrigger(t) /\ trigger[t].type = "TIME" /\ MayDispatch(t, Joined(trigger[t]))
Started(t, d) == \E run \in runs : run.trigger = t /\ run.of = "date" /\ run.at = d

\* A check will still look at this trigger, and has read it as it is.
Pending(t, row) == row.st = "active" /\ t \in row.todo /\ row.saw[t] = Joined(trigger[t])

Checked(row) ==
    row.st \in {"active", "done"} =>
        \A d \in Dates, t \in Triggers :
            d < row.at /\ Minute(d) = Minute(row.at) /\ Due(t) => Pending(t, row) \/ Started(t, d)

AllChecked == \A j \in JobIds : j[1] = "cronCheck" => Checked(job[j])

DatesInv == Listed /\ (Calm => Reachable /\ AllChecked)

\* The date of a minute is due in every check after it in that minute.
LEMMA DueInTheMinute ==
    ASSUME NEW at \in Nat, NEW d \in Dates, d < at, Minute(d) = Minute(at)
    PROVE  d \in DueDates(at)
<1>1. d \in Nat /\ d % TPM = 0 /\ TPM \in Nat \ {0}
  BY TriggerQueueAssumption
<1>2. ASSUME NEW T \in Nat \ {0}, NEW a \in Nat, NEW b \in Nat, b % T = 0, b \div T = a \div T
      PROVE  a < b + T
  BY <1>2
<1>3. at < d + TPM
  BY <1>1, <1>2 DEF Minute
<1> QED BY <1>3 DEF DueDates

LEMMA OneDateIsDue ==
    ASSUME NEW at \in Nat, NEW d \in DueDates(at), NEW x \in DueDates(at)
    PROVE  d = x
<1>1. d \in Nat /\ d % TPM = 0 /\ x \in Nat /\ x % TPM = 0 /\ TPM \in Nat \ {0}
  BY TriggerQueueAssumption DEF DueDates
<1>2. d \div TPM = x \div TPM
  BY DueInItsMinute DEF Minute
<1>3. ASSUME NEW T \in Nat \ {0}, NEW a \in Nat, NEW b \in Nat, a % T = 0, b % T = 0, a \div T = b \div T
      PROVE  a = b
  BY <1>3
<1> QED BY <1>1, <1>2, <1>3

LEMMA JoinedRow ==
    ASSUME NEW row \in TriggerRow, Joined(row).mission # None
    PROVE  row.mission # None /\ LiveMission(row.mission) /\ Joined(row) = row
  BY DEF Joined, TriggerRow

\* What is due by then was due before.
LEMMA DueBefore ==
    ASSUME StoreOK, Reachable, UNCHANGED <<trigger, mission>>, NEW t \in Triggers, Due(t)'
    PROVE  Due(t) /\ Joined(trigger[t])' = Joined(trigger[t])
<1>1. LiveTrigger(t) /\ trigger[t].type = "TIME" /\ trigger[t] \in TriggerRow
  BY RowTypes DEF Due, LiveTrigger
<1>2. Joined(trigger[t])' = Joined(trigger[t])
  BY DEF Joined, LiveMission
<1>3. Joined(trigger[t]).mission # None
  BY <1>2 DEF Due, MayDispatch
<1>4. LiveMission(trigger[t].mission) /\ Joined(trigger[t]) = trigger[t] /\ trigger[t].mission \in Missions
  BY <1>1, <1>3, JoinedRow DEF TriggerRow
<1>5. MayDispatch(t, Joined(trigger[t]))
  BY <1>1, <1>3, <1>4 DEF Reachable, MayDispatch
<1> QED BY <1>1, <1>2, <1>5 DEF Due

LEMMA CheckedStays ==
    ASSUME StoreOK, NEW row, Checked(row), Reachable, UNCHANGED <<trigger, mission>>, runs \subseteq runs'
    PROVE  Checked(row)'
<1> SUFFICES ASSUME row.st \in {"active", "done"}, NEW d \in Dates, NEW t \in Triggers,
                    d < row.at, Minute(d) = Minute(row.at), Due(t)'
             PROVE  Pending(t, row)' \/ Started(t, d)'
  BY DEF Checked, Minute
<1>1. Due(t) /\ Joined(trigger[t])' = Joined(trigger[t])
  BY DueBefore
<1>2. Pending(t, row) \/ Started(t, d)
  BY <1>1 DEF Checked
<1> QED BY <1>1, <1>2 DEF Pending, Started

\* Requests leave triggers and missions as they are, projects and templates there.
CalmStep ==
    /\ UNCHANGED <<trigger, mission, agenda>> /\ runs \subseteq runs'
    /\ \A p \in Projects : LiveProject(p) => project'[p].row = "live"
    /\ \A v \in Versions : template[v] # "none" => template'[v] # "none"

LEMMA ListedKept ==
    ASSUME StoreOK, RequestsOK, Listed, NEW r \in Requests,
           \/ CatalogReceive(r) \/ TriggerReceive(r) \/ CatalogContinue(r) \/ TriggerContinue(r)
    PROVE  Listed' /\ UNCHANGED agenda
<1>1. PICK e : req' = [req EXCEPT ![r] = e] /\ (e.pc # "idle" => e.kind \in agenda)
  <2>1. CASE CatalogReceive(r) \/ TriggerReceive(r)
    <3>1. PICK kind \in Kinds, on \in SUBSET On, locals \in CatalogRequest : Begin(r, kind, on, locals)
      BY <2>1, ReceiveOK, TriggerReceiveOK DEF Begins
    <3> DEFINE e == IF locals.pc = "idle" THEN NoRequest ELSE Begun(locals, kind, on, served + 1)
    <3>2. req' = [req EXCEPT ![r] = e] /\ kind \in agenda
      BY <3>1 DEF Begin, Begun
    <3>3. e.pc # "idle" => e.kind = kind
      BY NoRequestType DEF Begun, CatalogRequest
    <3> HIDE DEF e
    <3> QED BY <3>2, <3>3
  <2>2. CASE CatalogContinue(r) \/ TriggerContinue(r)
    BY <2>2, ContinueGoesOn DEF GoesOn, Going, Listed
  <2> QED BY <2>1, <2>2
<1>2. UNCHANGED agenda
  <2>1. CASE CatalogReceive(r) \/ TriggerReceive(r)
    BY <2>1, ReceiveOK, TriggerReceiveOK DEF Begins, Begin
  <2>2. CASE CatalogContinue(r) \/ TriggerContinue(r)
    BY <2>2 DEF CatalogContinue, SaveMetadataTypes, CountMissions, DropProject, MissionExists,
       InsertMission, MoveExists, SetProject, SoftRemoveMission, RemoveMetadata, Upserted,
       DeleteMetadata, FindForAdd, AddMetadata, FindForUpdate, UpdateMetadata, ReserveFile,
       ConfirmUpload, SaveMovedFile, FileMoved, TriggerContinue, SaveVersion, CountExecutions,
       ArchiveTemplate, EraseTemplate, SaveTrigger, CheckWebhook, FireWebhook, History
  <2> QED BY <2>1, <2>2
<1>3. \A q \in Requests : req'[q] = e \/ req'[q] = req[q]
  BY <1>1 DEF RequestsOK, CatalogRequestsTypeOK
<1> QED BY <1>1, <1>2, <1>3 DEF Listed

LEMMA CalmReceive ==
    ASSUME StoreOK, NEW r \in Requests, Calm, CatalogReceive(r) \/ TriggerReceive(r), UNCHANGED agenda
    PROVE  CalmStep
<1>1. ASSUME NEW on, NEW locals, Begin(r, "dropTrigger", on, locals) PROVE FALSE
  BY <1>1 DEF Begin, Calm
<1>2. ~DeleteTrigger(r)
  BY <1>1 DEF DeleteTrigger
<1>3. UNCHANGED <<trigger, mission, runs>>
  BY <1>2 DEF CatalogReceive, TriggerReceive, CreateProject, UpdateMetadataTypes, DeleteProject,
     CreateMission, MoveMission, DeleteMission, ReplaceMissionMetadata, UnsetMetadata, Upload,
     ConfirmAgain, MoveFile, DeleteFile, CreateTemplate, CreateVersion, DeleteTemplate,
     CreateTrigger, EditTrigger, CallWebhook, BeginSave, catalogStoreVars
<1>4. CASE CreateProject(r)
  <2>1. \A p \in Projects : project[p].row = "live" => project'[p].row = "live"
    BY <1>4 DEF CreateProject, StoreOK, CatalogStoreTypeOK
  <2> QED BY <1>3, <1>4, <2>1 DEF CreateProject, CalmStep, LiveProject
<1>5. CASE CreateTemplate(r)
  <2>1. \A v \in Versions : template[v] # "none" => template'[v] # "none"
    BY <1>5, CatalogStoreAssumption DEF CreateTemplate, StoreOK, CatalogStoreTypeOK
  <2> QED BY <1>3, <1>5, <2>1 DEF CreateTemplate, CalmStep, LiveProject
<1>6. CASE UNCHANGED <<project, template>>
  BY <1>3, <1>6 DEF CalmStep, LiveProject
<1> QED BY <1>2, <1>4, <1>5, <1>6 DEF CatalogReceive, TriggerReceive, UpdateMetadataTypes, DeleteProject,
        CreateMission, MoveMission, DeleteMission, ReplaceMissionMetadata, UnsetMetadata, Upload,
        ConfirmAgain, MoveFile, DeleteFile, CreateVersion, DeleteTemplate,
        CreateTrigger, EditTrigger, CallWebhook, BeginSave, catalogStoreVars

LEMMA CalmContinue ==
    ASSUME StoreOK, RequestsOK, Listed, NEW r \in Requests, Calm, CatalogContinue(r) \/ TriggerContinue(r),
           UNCHANGED agenda
    PROVE  CalmStep
<1>1. req[r].pc # "idle" => req[r].kind \in agenda
  BY DEF Listed
<1>2. req[r].kind \in agenda => req[r].kind \notin
          {"newTrigger", "editTrigger", "dropTrigger", "dropMission", "dropProject", "newMission",
           "moveMission", "dropTemplate", "lokiDown"}
  BY DEF Calm
<1>3. req[r].pc \notin {"dropProject", "createMission", "moveMission", "dropMission", "saveTrigger",
                        "archive", "erase"}
  BY <1>1, <1>2, RequestType DEF Told
<1>4. /\ ~DropProject(r) /\ ~InsertMission(r) /\ ~SetProject(r) /\ ~SoftRemoveMission(r)
      /\ ~SaveTrigger(r) /\ ~ArchiveTemplate(r) /\ ~EraseTemplate(r)
  BY <1>3 DEF DropProject, InsertMission, SetProject, SoftRemoveMission, SaveTrigger, ArchiveTemplate,
     EraseTemplate, At
<1>5. CASE SaveMetadataTypes(r)
  <2>1. \A p \in Projects : project'[p].row = project[p].row
    BY <1>5, RowTypes DEF SaveMetadataTypes, StoreOK, CatalogStoreTypeOK
  <2> QED BY <1>5, <2>1 DEF SaveMetadataTypes, CalmStep, LiveProject
<1>6. CASE SaveVersion(r)
  <2>1. \A v \in Versions : template[v] # "none" => template'[v] # "none"
    BY <1>6 DEF SaveVersion, StoreOK, CatalogStoreTypeOK
  <2> QED BY <1>6, <2>1 DEF SaveVersion, CalmStep, LiveProject
<1>7. CASE FireWebhook(r)
  BY <1>7 DEF FireWebhook, SaveRun, CalmStep, LiveProject
<1>8. CASE UNCHANGED <<project, mission, template, trigger, runs>>
  BY <1>8 DEF CalmStep, LiveProject
<1> QED BY <1>4, <1>5, <1>6, <1>7, <1>8 DEF CatalogContinue, CountMissions, MissionExists,
        MoveExists, RemoveMetadata, Upserted, DeleteMetadata, FindForAdd, AddMetadata, FindForUpdate,
        UpdateMetadata, ReserveFile, ConfirmUpload, SaveMovedFile, FileMoved, TriggerContinue,
        CountExecutions, CheckWebhook, catalogStoreVars, History

LEMMA ReachableKept ==
    ASSUME StoreOK, Reachable, CalmStep
    PROVE  Reachable'
<1>1. \A t \in Triggers : trigger'[t].row = "live" => template'[trigger'[t].version] # "none"
  BY RowTypes DEF Reachable, CalmStep, LiveTrigger, TriggerRow
<1>2. \A m \in Missions : mission'[m].row = "live" => project'[mission'[m].project].row = "live"
  BY DEF Reachable, CalmStep, LiveMission, StoreOK, Placed
<1> QED BY <1>1, <1>2 DEF Reachable, LiveTrigger, LiveMission, LiveProject

LEMMA DatesRequests ==
    ASSUME StoreOK, RequestsOK, DatesInv, NEW r \in Requests, UNCHANGED triggerQueueVars,
           \/ CatalogReceive(r) \/ TriggerReceive(r) \/ CatalogContinue(r) \/ TriggerContinue(r)
    PROVE  DatesInv'
<1>1. Listed /\ Listed' /\ UNCHANGED agenda
  BY ListedKept DEF DatesInv
<1>2. ASSUME Calm' PROVE Reachable' /\ AllChecked'
  <2>1. Calm /\ Reachable /\ AllChecked
    BY <1>1, <1>2 DEF Calm, DatesInv
  <2>2. CalmStep
    BY <1>1, <2>1, CalmReceive, CalmContinue
  <2>3. ASSUME NEW j \in JobIds, j[1] = "cronCheck" PROVE Checked(job[j])'
    <3>1. PICK row : row = job[j]
      OBVIOUS
    <3>2. row = job'[j]
      BY <3>1 DEF triggerQueueVars
    <3>3. Checked(row)
      BY <2>1, <2>3, <3>1 DEF AllChecked
    <3>4. Checked(row)'
      BY <2>1, <2>2, <3>3, CheckedStays DEF CalmStep
    <3> QED BY <3>2, <3>4 DEF Checked, Pending
  <2> QED BY <2>1, <2>2, <2>3, ReachableKept DEF AllChecked, JobIds, Minute
<1> QED BY <1>1, <1>2 DEF DatesInv

\* A job goes on, and its check loses no date.
LEMMA CheckGoesOn ==
    ASSUME StoreOK, QueueOK, Reachable, AllChecked, UNCHANGED <<trigger, mission>>, runs \subseteq runs',
           NEW j, NEW row, SetJob(j, row), j \in JobIds /\ j[1] = "cronCheck" => Checked(row)'
    PROVE  AllChecked'
<1>1. \A i \in JobIds : IF i = j THEN job'[i] = row ELSE job'[i] = job[i]
  BY DEF SetJob, QueueOK, TriggerQueueTypeOK
<1>2. ASSUME NEW i \in JobIds, i[1] = "cronCheck" PROVE Checked(job[i])'
  <2>1. PICK d : d = job'[i]
    OBVIOUS
  <2>2. Checked(d)'
    <3>1. CASE i = j
      BY <1>1, <1>2, <2>1, <3>1
    <3>2. CASE i # j
      <4>1. d = job[i]
        BY <1>1, <2>1, <3>2
      <4>2. Checked(d)
        BY <1>2, <4>1 DEF AllChecked
      <4> QED BY <4>2, CheckedStays
    <3> QED BY <3>1, <3>2
  <2> QED BY <2>1, <2>2 DEF Checked, Pending
<1> QED BY <1>2 DEF AllChecked, JobIds, Minute

\* The triggers of a check are read.
LEMMA LoadChecks ==
    ASSUME StoreOK, QueueOK, NEW j \in JobIds, NEW row, row.st = "active", row.at = job[j].at,
           row.saw = [t \in Triggers |-> Joined(trigger[t])],
           row.todo = IF DueDates(job[j].at) = {} THEN {}
                      ELSE {t \in Triggers : LiveTrigger(t) /\ trigger[t].type = "TIME"}
    PROVE  Checked(row)
<1> SUFFICES ASSUME NEW d \in Dates, NEW t \in Triggers, d < row.at, Minute(d) = Minute(row.at), Due(t)
             PROVE  Pending(t, row)
  BY DEF Checked
<1>1. job[j].at \in Nat
  BY JobType DEF TriggerJob
<1>2. d \in DueDates(job[j].at)
  BY <1>1, DueInTheMinute
<1>3. t \in row.todo
  BY <1>2 DEF Due
<1> QED BY <1>3 DEF Pending

\* A trigger that is due is not refused.
LEMMA DispatchChecks ==
    ASSUME StoreOK, QueueOK, Calm, NEW j \in JobIds, Checked(job[j]), NEW t \in Triggers,
           Refused(t, job[j].saw[t]), NEW row, row.st = job[j].st, row.at = job[j].at,
           row.saw = job[j].saw, row.todo = job[j].todo \ {t}
    PROVE  Checked(row)
<1> SUFFICES ASSUME row.st \in {"active", "done"}, NEW d \in Dates, NEW x \in Triggers, d < row.at,
                    Minute(d) = Minute(row.at), Due(x)
             PROVE  Pending(x, row) \/ Started(x, d)
  BY DEF Checked
<1>1. Pending(x, job[j]) \/ Started(x, d)
  BY DEF Checked
<1>2. ASSUME Pending(x, job[j]), x = t PROVE FALSE
  BY <1>2 DEF Pending, Due, Refused, Calm
<1> QED BY <1>1, <1>2 DEF Pending

\* A trigger that is due starts a run for the date.
LEMMA FireChecks ==
    ASSUME StoreOK, QueueOK, Reachable, NEW j \in JobIds, j[1] = "cronCheck", Checked(job[j]),
           NEW t \in Triggers, FireTrigger(j, t), NEW row, row.st = job[j].st, row.at = job[j].at,
           row.saw = job[j].saw, row.todo = job[j].todo \ {t}, UNCHANGED <<trigger, mission>>
    PROVE  Checked(row)'
<1> SUFFICES ASSUME row.st \in {"active", "done"}, NEW d \in Dates, NEW x \in Triggers, d < row.at,
                    Minute(d) = Minute(row.at), Due(x)'
             PROVE  Pending(x, row)' \/ Started(x, d)'
  BY DEF Checked, Minute
<1>1. Due(x) /\ Joined(trigger[x])' = Joined(trigger[x])
  BY DueBefore
<1>2. Pending(x, job[j]) \/ Started(x, d)
  BY <1>1 DEF Checked
<1>3. runs \subseteq runs'
  BY DEF FireTrigger, SaveRun
<1>4. CASE Started(x, d)
  BY <1>3, <1>4 DEF Started
<1>5. CASE Pending(x, job[j]) /\ x # t
  BY <1>1, <1>5 DEF Pending
<1>6. CASE Pending(x, job[j]) /\ x = t
  <2>1. PICK o \in OccasionOf(j) : SaveRun(t, job[j].saw[t], o[1], o[2], j[2], job[j].rerun)
    BY DEF FireTrigger
  <2>2. PICK y \in DueDates(job[j].at) : o = <<"date", y>>
    BY DEF OccasionOf
  <2>3. job[j].at \in Nat
    BY JobType DEF TriggerJob
  <2>4. y = d
    BY <2>2, <2>3, DueInTheMinute, OneDateIsDue
  <2>5. trigger[t] \in TriggerRow /\ job[j].saw[t] = trigger[t]
    BY <1>1, <1>6, RowTypes, JoinedRow DEF Pending, Due, MayDispatch
  <2>6. LiveTrigger(t) /\ template[job[j].saw[t].version] # "none"
    BY <1>1, <1>6, <2>5 DEF Due, Reachable
  <2> DEFINE run == [trigger |-> t, mission |-> job[j].saw[t].mission, version |-> job[j].saw[t].version,
                     of |-> o[1], at |-> o[2], job |-> j[2], rerun |-> job[j].rerun,
                     no |-> Cardinality(runs) + 1]
  <2>7. run \in runs'
    BY <2>1, <2>6 DEF SaveRun
  <2>8. run.trigger = t /\ run.of = "date" /\ run.at = d
    BY <2>2, <2>4
  <2> HIDE DEF run
  <2> QED BY <1>6, <2>7, <2>8 DEF Started
<1> QED BY <1>2, <1>4, <1>5, <1>6

LEMMA DatesQueue ==
    ASSUME StoreOK, RequestsOK, QueueOK, DatesInv, QueueStep,
           UNCHANGED <<project, mission, metadata, file, template, trigger, catalogRequestVars>>
    PROVE  DatesInv'
<1>0. UNCHANGED <<project, mission, template, trigger, req, agenda>>
  BY DEF catalogRequestVars
<1>1. Listed'
  BY <1>0 DEF DatesInv, Listed
<1> SUFFICES ASSUME Calm, Reachable, AllChecked PROVE AllChecked' /\ Reachable'
  BY <1>0, <1>1 DEF DatesInv, Calm
<1>2. Reachable'
  BY <1>0 DEF Reachable, LiveTrigger, LiveMission, LiveProject
<1>3. CASE Tick /\ UNCHANGED runs
  <2>1. UNCHANGED <<job, runs>>
    BY <1>3 DEF Tick
  <2>2. ASSUME NEW i \in JobIds, i[1] = "cronCheck" PROVE Checked(job[i])'
    <3>1. PICK d : d = job[i]
      OBVIOUS
    <3>2. d = job'[i] /\ Checked(d)
      BY <2>1, <2>2, <3>1 DEF AllChecked
    <3>3. Checked(d)'
      BY <1>0, <2>1, <3>2, CheckedStays
    <3> QED BY <3>2, <3>3 DEF Checked, Pending
  <2> QED BY <1>2, <2>2 DEF AllChecked, JobIds, Minute
<1>4. CASE AddCronCheck /\ UNCHANGED runs
  <2> DEFINE j == <<"cronCheck", Minute(clock)>>
             row == [job[j] EXCEPT !.st = "waiting", !.at = clock]
  <2>1. SetJob(j, row)
    BY <1>4 DEF AddCronCheck
  <2>2. PICK e : e = row
    OBVIOUS
  <2>3. PICK i : i = j
    OBVIOUS
  <2>4. SetJob(i, e)
    BY <2>1, <2>2, <2>3
  <2>5. i \in JobIds => e.st = "waiting"
    BY <2>2, <2>3, JobType DEF TriggerJob
  <2>6. i \in JobIds => Checked(e)'
    BY <2>5 DEF Checked
  <2> QED BY <1>0, <1>2, <1>4, <2>4, <2>6, CheckGoesOn
<1>5. CASE LoadEvent /\ UNCHANGED runs
  <2>1. PICK e \in events : \E row : SetJob(<<"fileEvent", e.no>>, row)
    BY <1>5 DEF LoadEvent
  <2>2. PICK row : SetJob(<<"fileEvent", e.no>>, row)
    BY <2>1
  <2>3. PICK i : i = <<"fileEvent", e.no>>
    OBVIOUS
  <2>4. i[1] # "cronCheck" /\ SetJob(i, row)
    BY <2>2, <2>3
  <2> QED BY <1>0, <1>2, <1>5, <2>4, CheckGoesOn
<1>6. CASE LoadCheck /\ UNCHANGED runs
  <2> DEFINE saw == [t \in Triggers |-> Joined(trigger[t])]
             todo(j) == IF DueDates(job[j].at) = {} THEN {}
                        ELSE {t \in Triggers : LiveTrigger(t) /\ trigger[t].type = "TIME"}
  <2>1. PICK j \in JobIds : SetJob(j, [job[j] EXCEPT !.st = "active", !.saw = saw, !.todo = todo(j)])
    BY <1>6 DEF LoadCheck
  <2>2. PICK row : row = [job[j] EXCEPT !.st = "active", !.saw = saw, !.todo = todo(j)]
    OBVIOUS
  <2> HIDE DEF saw, todo
  <2>3. row.st = "active" /\ row.at = job[j].at /\ row.saw = saw /\ row.todo = todo(j)
    BY <2>2, JobType DEF TriggerJob
  <2>4. Checked(row)
    BY <2>3, LoadChecks DEF saw, todo
  <2>5. Checked(row)'
    BY <1>0, <1>6, <2>4, CheckedStays
  <2> QED BY <1>0, <1>2, <1>6, <2>1, <2>2, <2>5, CheckGoesOn
<1>7. ASSUME NEW j \in JobIds, FinishJob(j), UNCHANGED runs PROVE AllChecked'
  <2>1. PICK row : row = [NoJob EXCEPT !.st = "done", !.at = job[j].at]
    OBVIOUS
  <2>2. SetJob(j, row) /\ job[j].st = "active" /\ job[j].todo = {}
    BY <1>7, <2>1 DEF FinishJob, Active
  <2>3. row.st = "done" /\ row.at = job[j].at
    BY <2>1 DEF NoJob
  <2>4. j[1] = "cronCheck" => Checked(row)
    BY <2>2, <2>3 DEF AllChecked, Checked, Pending
  <2>5. j[1] = "cronCheck" => Checked(row)'
    BY <1>0, <1>7, <2>4, CheckedStays
  <2> QED BY <1>0, <1>7, <2>2, <2>5, CheckGoesOn
<1>8. ASSUME NEW j \in JobIds, ConsumerDies(j), UNCHANGED runs PROVE AllChecked'
  <2> DEFINE st == IF job[j].rerun = 0 THEN "waiting" ELSE "failed"
  <2>1. PICK row : row = [NoJob EXCEPT !.st = st, !.at = job[j].at, !.rerun = 1]
    OBVIOUS
  <2>2. SetJob(j, row) /\ row.st \in {"waiting", "failed"}
    BY <1>8, <2>1 DEF ConsumerDies, NoJob
  <2>3. Checked(row)'
    BY <2>2 DEF Checked
  <2> QED BY <1>0, <1>8, <2>2, <2>3, CheckGoesOn
<1>9. ASSUME NEW j \in JobIds, NEW t \in Triggers, DispatchTrigger(j, t), UNCHANGED runs
      PROVE  AllChecked'
  <2>1. CASE SetJob(j, [job[j] EXCEPT !.now = t])
    <3>1. PICK row : row = [job[j] EXCEPT !.now = t]
      OBVIOUS
    <3>2. row.st = job[j].st /\ row.at = job[j].at /\ row.saw = job[j].saw /\ row.todo = job[j].todo
      BY <3>1, JobType DEF TriggerJob
    <3>3. j[1] = "cronCheck" => Checked(row)
      BY <3>2 DEF AllChecked, Checked, Pending
    <3>4. j[1] = "cronCheck" => Checked(row)'
      BY <1>0, <1>9, <3>3, CheckedStays
    <3> QED BY <1>0, <1>9, <2>1, <3>1, <3>4, CheckGoesOn
  <2>2. CASE Refused(t, job[j].saw[t]) /\ SetJob(j, [job[j] EXCEPT !.todo = @ \ {t}])
    <3>1. PICK row : row = [job[j] EXCEPT !.todo = @ \ {t}]
      OBVIOUS
    <3>2. /\ row.st = job[j].st /\ row.at = job[j].at /\ row.saw = job[j].saw
          /\ row.todo = job[j].todo \ {t}
      BY <3>1, JobType DEF TriggerJob
    <3>3. j[1] = "cronCheck" => Checked(row)
      BY <2>2, <3>2, DispatchChecks DEF AllChecked
    <3>4. j[1] = "cronCheck" => Checked(row)'
      BY <1>0, <1>9, <3>3, CheckedStays
    <3> QED BY <1>0, <1>9, <2>2, <3>1, <3>4, CheckGoesOn
  <2> QED BY <1>9, <2>1, <2>2 DEF DispatchTrigger
<1>10. ASSUME NEW j \in JobIds, NEW t \in Triggers, FireTrigger(j, t) PROVE AllChecked'
  <2>1. PICK row : row = [job[j] EXCEPT !.now = None, !.todo = @ \ {t}]
    OBVIOUS
  <2>2. SetJob(j, row) /\ runs \subseteq runs'
    BY <1>10, <2>1 DEF FireTrigger, SaveRun
  <2>3. /\ row.st = job[j].st /\ row.at = job[j].at /\ row.saw = job[j].saw
        /\ row.todo = job[j].todo \ {t}
    BY <2>1, JobType DEF TriggerJob
  <2>4. j[1] = "cronCheck" => Checked(row)'
    BY <1>0, <1>10, <2>3, FireChecks DEF AllChecked
  <2> QED BY <1>0, <2>2, <2>4, CheckGoesOn
<1>11. AllChecked'
  BY <1>3, <1>4, <1>5, <1>6, <1>7, <1>8, <1>9, <1>10 DEF QueueStep
<1> QED BY <1>2, <1>11

LEMMA DatesInit == CatalogInit => DatesInv
<1> SUFFICES ASSUME CatalogInit PROVE DatesInv
  OBVIOUS
<1>1. PICK c \in Catalogs : project = c.project /\ mission = c.mission /\ trigger = c.trigger
  BY DEF CatalogInit
<1>2. /\ req = [r \in Requests |-> NoRequest] /\ job = [j \in JobIds |-> NoJob]
      /\ template = [v \in Versions |-> IF v = 1 THEN "active" ELSE "none"]
  BY DEF CatalogInit
<1>3. Reachable
  BY <1>1, <1>2, CatalogAssumption, CatalogStoreAssumption DEF Reachable, LiveTrigger, LiveMission, LiveProject
<1>4. AllChecked
  BY <1>2 DEF AllChecked, Checked, NoJob
<1> QED BY <1>2, <1>3, <1>4, NoRequestType DEF DatesInv, Listed

LEMMA DatesStep ==
    ASSUME CatalogInv, DatesInv, [CatalogNext]_catalogVars
    PROVE  DatesInv'
<1>0. StoreOK /\ RequestsOK /\ QueueOK
  BY DEF CatalogInv
<1>1. ASSUME NEW r \in Requests, UNCHANGED triggerQueueVars,
             \/ CatalogReceive(r) \/ TriggerReceive(r) \/ CatalogContinue(r) \/ TriggerContinue(r)
      PROVE  DatesInv'
  BY <1>0, <1>1, DatesRequests
<1>2. CASE /\ QueueStep
           /\ UNCHANGED <<project, mission, metadata, file, template, trigger, catalogRequestVars>>
  BY <1>0, <1>2, DatesQueue
<1>3. CASE UNCHANGED catalogVars
  <2>1. UNCHANGED <<project, mission, template, trigger, runs, req, agenda, job>>
    BY <1>3 DEF catalogVars, catalogStoreVars, catalogRequestVars, triggerQueueVars
  <2>2. Listed' /\ (Calm' => Calm)
    BY <2>1 DEF DatesInv, Listed, Calm
  <2>3. Reachable => Reachable'
    BY <2>1 DEF Reachable, LiveTrigger, LiveMission, LiveProject
  <2>4. \A x \in Triggers : Due(x)' = Due(x) /\ Joined(trigger[x])' = Joined(trigger[x])
    BY <2>1 DEF Due, Joined, MayDispatch, LiveTrigger, LiveMission, LiveProject
  <2>5. ASSUME NEW j \in JobIds, Checked(job[j]) PROVE Checked(job[j])'
    BY <2>1, <2>4, <2>5 DEF Checked, Pending, Started, Minute
  <2>6. AllChecked => AllChecked'
    BY <2>1, <2>5 DEF AllChecked, JobIds, Minute
  <2> QED BY <2>2, <2>3, <2>6 DEF DatesInv
<1> QED BY <1>1, <1>2, <1>3 DEF CatalogNext

\* However many consumers work on the checks, and whatever crashes a check goes
\* through before it is done: it has started every trigger that is due at a date
\* of its minute, where nobody edits triggers or missions and the log store is up.
THEOREM DatesFire == CatalogSpec => []DueDatesFire
<1>1. CatalogInv /\ DatesInv /\ [CatalogNext]_catalogVars => DatesInv'
  BY DatesStep
<1>2. DatesInv => DueDatesFire
  BY DEF DatesInv, Calm, AllChecked, Checked, Pending, Due, Started, DueDatesFire
<1>3. CatalogSpec => []CatalogInv
  BY CatalogInvariant, PTL
<1> QED BY <1>1, <1>2, <1>3, DatesInit, PTL DEF CatalogSpec
=============================================================================
