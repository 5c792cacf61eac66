------------------------- MODULE ActionSystemProofs -------------------------
(***************************************************************************)
(* Theorems about ActionSystem, for every number of actions, workers,      *)
(* crashes and cancellations.                                              *)
(***************************************************************************)
EXTENDS ActionSystem, TLAPS

\* An UPDATE or a save with a well-formed row keeps the table well-formed.
LEMMA UpdateType ==
    ASSUME NEW a \in Actions, NEW new \in Row, row \in [Actions -> Row], Update(a, new)
    PROVE  row' \in [Actions -> Row]
  BY DEF Update

LEMMA AbsentRowType == AbsentRow \in Row
  BY DEF AbsentRow, Row, ActionState, CANCELLABLE_ACTION_STATES, ActionSeverity,
         ActionFailureOrigin

\* The helpers that compute a row to write, return a row.
LEMMA RowHelpers ==
    ASSUME NEW a \in Actions, row \in [Actions -> Row]
    PROVE  /\ \A o \in ActionFailureOrigin : FailedRow(a, o) \in Row
           /\ \A s \in ActionSeverity : RaiseSeverity(a, s) \in Row
           /\ \A e \in Row : Unprocessable(e) \in Row /\ UnexpectedError(e) \in Row
           /\ UploadFailed(a) \in Row
           /\ \A v \in Verdict : VerdictRow(a, v) \in Row
<1> USE DEF Row
<1>2. \A o \in ActionFailureOrigin : FailedRow(a, o) \in Row
  BY DEF FailedRow, ActionState, TERMINAL_ACTION_STATES, ActionSeverity
<1>3. \A s \in ActionSeverity : RaiseSeverity(a, s) \in Row
  BY DEF RaiseSeverity
<1>4. \A e \in Row : Unprocessable(e) \in Row /\ UnexpectedError(e) \in Row
  <2>1. /\ {"UNPROCESSABLE", "FAILED"} \subseteq ActionState
        /\ "ERROR" \in ActionSeverity /\ "SYSTEM" \in ActionFailureOrigin
    BY DEF ActionState, TERMINAL_ACTION_STATES, ActionSeverity, ActionFailureOrigin
  <2>2. ASSUME NEW e \in Row PROVE Unprocessable(e) \in Row
    BY <2>1 DEF Unprocessable
  <2>3. ASSUME NEW e \in Row PROVE UnexpectedError(e) \in Row
    BY <2>1 DEF UnexpectedError
  <2> QED BY <2>2, <2>3
<1>5. UploadFailed(a) \in Row
  <2>1. RaiseSeverity(a, "WARNING") \in Row
    BY <1>3 DEF ActionSeverity
  <2> QED BY <2>1 DEF UploadFailed
<1>6. ASSUME NEW v \in Verdict
      PROVE  VerdictRow(a, v) \in Row
  <2>1. v.origin # "keep" => v.origin \in ActionFailureOrigin
    BY DEF Verdict
  <2>2. v.state \in ActionState /\ v.severity \in ActionSeverity /\ row[a] \in Row
    BY DEF Verdict, ActionState
  <2> QED BY <2>1, <2>2 DEF VerdictRow
<1> QED BY <1>2, <1>3, <1>4, <1>5, <1>6

\* What an exit code implies is a verdict, and so is the final one.
LEMMA VerdictHelpers ==
    /\ CancelledOutcome \in Verdict
    /\ \A n \in Nat : resolveActionOutcome(n) \in Verdict
    /\ \A r \in Row, o \in Verdict : resolveFinalVerdict(r, o) \in Verdict
<1> USE DEF Verdict, ActionState, TERMINAL_ACTION_STATES, CANCELLABLE_ACTION_STATES,
            ActionSeverity, ActionFailureOrigin
<1>1. CancelledOutcome \in Verdict
  BY DEF CancelledOutcome
<1>2. \A n \in Nat : resolveActionOutcome(n) \in Verdict
  BY DEF resolveActionOutcome, failure
<1>3. \A x, y \in ActionSeverity : maxActionSeverity(x, y) \in ActionSeverity
  BY DEF maxActionSeverity
<1>4. ASSUME NEW r \in Row, NEW o \in Verdict
      PROVE  resolveFinalVerdict(r, o) \in Verdict
  BY <1>3 DEF resolveFinalVerdict, isTerminalActionState, Row
<1> QED BY <1>1, <1>2, <1>4

\* Whatever happens to a container, it remains one.
LEMMA ContainerHelpers ==
    ASSUME NEW c \in Container
    PROVE  /\ Killed(c) \in Container
           /\ [Killed(c) EXCEPT !.rm = TRUE] \in Container
           /\ [c EXCEPT !.rm = TRUE] \in Container
           /\ [c EXCEPT !.expired = TRUE] \in Container
           /\ \A s \in {"created", "running", "gone"} : [c EXCEPT !.st = s] \in Container
           /\ \A n \in Nat : [c EXCEPT !.st = "exited", !.code = n] \in Container
<1>1. Killed(c) \in Container
  BY DEF Container, Killed, SIGKILL_CODE
<1>2. \A d \in Container : [d EXCEPT !.rm = TRUE] \in Container
  BY DEF Container
<1>3. [c EXCEPT !.expired = TRUE] \in Container
  BY DEF Container
<1>4. \A s \in {"created", "running", "gone"} : [c EXCEPT !.st = s] \in Container
  BY DEF Container
<1>5. \A n \in Nat : [c EXCEPT !.st = "exited", !.code = n] \in Container
  BY DEF Container
<1> QED BY <1>1, <1>2, <1>3, <1>4, <1>5

-----------------------------------------------------------------------------
(* Type correctness: one lemma per process, one step per action.           *)

LEMMA StoreType ==
    ASSUME TypeOK, StoreNext, UNCHANGED <<dispatcherVars, runnerVars, janitorVars>>
    PROVE  TypeOK'
<1>1. DispatcherTypeOK' /\ RunnerTypeOK' /\ JanitorTypeOK'
  BY DEF TypeOK, DispatcherTypeOK, RunnerTypeOK, JanitorTypeOK,
         dispatcherVars, runnerVars, memoryVars, janitorVars
<1>2. cont \in [Runners -> [Actions -> Container]]
  BY DEF TypeOK, StoreTypeOK
<1>3. ASSUME NEW r \in Runners, NEW a \in Actions, NEW code \in ExitCodes, ContainerExit(r, a, code)
      PROVE  TypeOK'
  <2>1. [cont[r][a] EXCEPT !.st = "exited", !.code = code] \in Container
    BY <1>2, StoreAssumption, ContainerHelpers
  <2>2. cont' = [cont EXCEPT ![r][a] = [cont[r][a] EXCEPT !.st = "exited", !.code = code]]
    BY <1>2, <1>3 DEF ContainerExit
  <2>3. cont' \in [Runners -> [Actions -> Container]]
    BY <1>2, <2>1, <2>2
  <2> QED BY <1>1, <1>3, <2>3 DEF TypeOK, StoreTypeOK, ContainerExit
<1>4. ASSUME NEW r \in Runners, NEW a \in Actions, DockerRemove(r, a)
      PROVE  TypeOK'
  <2>1. [cont[r][a] EXCEPT !.st = "gone"] \in Container
    BY <1>2, ContainerHelpers
  <2>2. cont' = [cont EXCEPT ![r][a] = [cont[r][a] EXCEPT !.st = "gone"]]
    BY <1>2, <1>4 DEF DockerRemove
  <2>3. cont' \in [Runners -> [Actions -> Container]]
    BY <1>2, <2>1, <2>2
  <2> QED BY <1>1, <1>4, <2>3 DEF TypeOK, StoreTypeOK, DockerRemove
<1>5. ASSUME NEW r \in Runners, NEW a \in Actions, RuntimeExpires(r, a)
      PROVE  TypeOK'
  <2>1. [cont[r][a] EXCEPT !.expired = TRUE] \in Container
    BY <1>2, ContainerHelpers
  <2>2. cont' = [cont EXCEPT ![r][a] = [cont[r][a] EXCEPT !.expired = TRUE]]
    BY <1>2, <1>5 DEF RuntimeExpires
  <2>3. cont' \in [Runners -> [Actions -> Container]]
    BY <1>2, <2>1, <2>2
  <2> QED BY <1>1, <1>5, <2>3 DEF TypeOK, StoreTypeOK, RuntimeExpires
<1> QED BY <1>3, <1>4, <1>5 DEF StoreNext

\* The bookkeeping of a dispatch, and of a health check, about one action.
DispEntry == [pc : DispPc, w : Workers \cup {NoWorker}]
ReqEntry == [pc : ReqPc, entity : Row, n : 0..MaxCancels]
DeadEntry == [pc : DeadJobPc, entity : Row, to : Workers \cup {NoWorker}]

LEMMA DispatchType ==
    ASSUME StoreTypeOK, DispatcherTypeOK,
           NEW a \in Actions, SaveAction(a) \/ DispatchNext(a)
    PROVE  StoreTypeOK' /\ DispatcherTypeOK'
<1>1. /\ row \in [Actions -> Row]
      /\ job \in [Actions -> Job]
      /\ queues \subseteq Workers
      /\ disp \in [Actions -> DispEntry]
  BY DEF StoreTypeOK, DispatcherTypeOK, DispEntry
<1>2. CASE SaveAction(a)
  <2>1. [AbsentRow EXCEPT !.state = "PENDING"] \in Row
    BY AbsentRowType DEF Row, ActionState, CANCELLABLE_ACTION_STATES
  <2>2. row' \in [Actions -> Row]
    BY <1>1, <1>2, <2>1 DEF SaveAction
  <2>3. disp' \in [Actions -> DispEntry]
    BY <1>1, <1>2 DEF SaveAction, DispEntry, DispPc
  <2> QED
    BY <1>2, <2>2, <2>3 DEF SaveAction, healthVars, StoreTypeOK, DispatcherTypeOK, DispEntry
<1>3. CASE ChooseWorker(a)
  <2>1. PICK w \in findWorkerForAction :
            /\ Update(a, [row[a] EXCEPT !.worker = w])
            /\ disp' = [disp EXCEPT ![a] =
                          [pc |-> IF @.pc = "choose" THEN "add" ELSE "add2", w |-> w]]
    BY <1>3 DEF ChooseWorker
  <2>2. w \in Workers
    BY <2>1, DispatcherAssumption DEF findWorkerForAction, Candidates
  <2>3. [row[a] EXCEPT !.worker = w] \in Row
    BY <1>1, <2>2 DEF Row
  <2>4. row' \in [Actions -> Row]
    BY <1>1, <2>1, <2>3, UpdateType
  <2>5. disp' \in [Actions -> DispEntry]
    BY <1>1, <2>1, <2>2 DEF DispEntry, DispPc
  <2> QED
    BY <1>3, <2>4, <2>5 DEF ChooseWorker, healthVars, StoreTypeOK, DispatcherTypeOK, DispEntry
<1>4. CASE NoWorkerFound(a)
  <2>1. [AbsentRow EXCEPT !.worker = row[a].worker] \in Row
    BY <1>1, AbsentRowType DEF Row
  <2>2. Unprocessable([AbsentRow EXCEPT !.worker = row[a].worker]) \in Row
    BY <1>1, <2>1, RowHelpers
  <2>3. row' \in [Actions -> Row]
    BY <1>1, <1>4, <2>2 DEF NoWorkerFound
  <2>4. disp' \in [Actions -> DispEntry]
    BY <1>1, <1>4 DEF NoWorkerFound, DispEntry, DispPc
  <2> QED
    BY <1>4, <2>3, <2>4 DEF NoWorkerFound, healthVars, StoreTypeOK, DispatcherTypeOK, DispEntry
<1>5. CASE AddJob(a)
  <2>1. WaitingJob(disp[a].w) \in Job
    BY <1>1 DEF DispEntry, WaitingJob, Job
  <2>2. job' \in [Actions -> Job]
    BY <1>1, <1>5, <2>1 DEF AddJob
  <2>3. disp' \in [Actions -> DispEntry]
    BY <1>1, <1>5 DEF AddJob, DispEntry, DispPc
  <2> QED
    BY <1>5, <2>2, <2>3 DEF AddJob, healthVars, StoreTypeOK, DispatcherTypeOK, DispEntry
<1>6. CASE AddJobFails(a)
  <2>1. disp' \in [Actions -> DispEntry]
    BY <1>1, <1>6 DEF AddJobFails, DispEntry, DispPc
  <2> QED
    BY <1>6, <2>1 DEF AddJobFails, storeVars, healthVars, StoreTypeOK, DispatcherTypeOK, DispEntry
<1>7. CASE RefreshAndRetry(a)
  <2>1. disp' \in [Actions -> DispEntry]
    BY <1>1, <1>7 DEF RefreshAndRetry, DispEntry, DispPc
  <2>2. queues' \subseteq Workers
    BY <1>1, <1>7 DEF RefreshAndRetry
  <2> QED
    BY <1>7, <2>1, <2>2
       DEF RefreshAndRetry, storeVars, healthVars, StoreTypeOK, DispatcherTypeOK, DispEntry
<1>8. CASE RejectAction(a)
  <2>1. row' \in [Actions -> Row]
    BY <1>1, <1>8, RowHelpers, UpdateType DEF RejectAction
  <2>2. disp' \in [Actions -> DispEntry]
    BY <1>1, <1>8 DEF RejectAction, DispEntry, DispPc
  <2> QED
    BY <1>8, <2>1, <2>2 DEF RejectAction, healthVars, StoreTypeOK, DispatcherTypeOK, DispEntry
<1> QED
  BY <1>2, <1>3, <1>4, <1>5, <1>6, <1>7, <1>8 DEF DispatchNext

\* What a health check's steps make of an entry is an entry.
LEMMA DeadEntryHelpers ==
    ASSUME NEW e \in DeadEntry
    PROVE  /\ \A r \in Row : [e EXCEPT !.pc = "read", !.entity = r] \in DeadEntry
           /\ [e EXCEPT !.pc = "removed"] \in DeadEntry
           /\ \A v \in Workers \cup {NoWorker} : [e.entity EXCEPT !.worker = v] \in Row
<1>1. \A r \in Row : [e EXCEPT !.pc = "read", !.entity = r] \in DeadEntry
  BY DEF DeadEntry, DeadJobPc
<1>2. [e EXCEPT !.pc = "removed"] \in DeadEntry
  BY DEF DeadEntry, DeadJobPc
<1>3. e.entity \in Row
  BY DEF DeadEntry
<1>4. \A x \in Row, v \in Workers \cup {NoWorker} : [x EXCEPT !.worker = v] \in Row
  BY DEF Row
<1> QED BY <1>1, <1>2, <1>3, <1>4

LEMMA HealthCheckType ==
    ASSUME StoreTypeOK, DispatcherTypeOK, HealthCheckNext
    PROVE  StoreTypeOK' /\ DispatcherTypeOK'
<1>1. /\ row \in [Actions -> Row]
      /\ job \in [Actions -> Job]
      /\ queues \subseteq Workers
      /\ hc \subseteq Workers
      /\ dead \in [Workers -> [Actions -> DeadEntry]]
  BY DEF StoreTypeOK, DispatcherTypeOK, DeadEntry
<1>2. NoDeadJob \in DeadEntry /\ [NoDeadJob EXCEPT !.pc = "listed"] \in DeadEntry
  BY AbsentRowType DEF NoDeadJob, DeadEntry, DeadJobPc
<1>3. ASSUME NEW w \in Workers, DetectDeadWorker(w)
      PROVE  StoreTypeOK' /\ DispatcherTypeOK'
  <2>1. dead' \in [Workers -> [Actions -> DeadEntry]]
    <3> DEFINE listed == [a \in Actions |-> IF job[a].q = w /\ job[a].st # "failed"
                             THEN [NoDeadJob EXCEPT !.pc = "listed"] ELSE NoDeadJob]
    <3>1. listed \in [Actions -> DeadEntry]
      BY <1>2
    <3>2. dead' = [dead EXCEPT ![w] = listed] \/ dead' = dead
      BY <1>3 DEF DetectDeadWorker
    <3> HIDE DEF listed
    <3> QED BY <1>1, <3>1, <3>2
  <2>2. hc' \subseteq Workers /\ reachable' \in [Workers -> BOOLEAN]
    BY <1>1, <1>3 DEF DetectDeadWorker, StoreTypeOK
  <2> QED
    BY <1>3, <2>1, <2>2 DEF DetectDeadWorker, StoreTypeOK, DispatcherTypeOK, DeadEntry
<1>4. ASSUME NEW w \in Workers, NEW a \in Actions, ReadDeadJob(w, a)
      PROVE  StoreTypeOK' /\ DispatcherTypeOK'
  <2>1. [dead[w][a] EXCEPT !.pc = "read", !.entity = row[a]] \in DeadEntry
    BY <1>1, DeadEntryHelpers
  <2>2. \/ dead' = [dead EXCEPT ![w][a] = [dead[w][a] EXCEPT !.pc = "read", !.entity = row[a]]]
        \/ dead' = [dead EXCEPT ![w][a] = NoDeadJob]
    BY <1>1, <1>4 DEF ReadDeadJob
  <2>3. dead' \in [Workers -> [Actions -> DeadEntry]]
    BY <1>1, <1>2, <2>1, <2>2
  <2> QED
    BY <1>4, <2>3 DEF ReadDeadJob, storeVars, StoreTypeOK, DispatcherTypeOK, DeadEntry
<1>5. ASSUME NEW w \in Workers, NEW a \in Actions, RemoveDeadJob(w, a)
      PROVE  StoreTypeOK' /\ DispatcherTypeOK'
  <2>1. dead' \in [Workers -> [Actions -> DeadEntry]]
    <3>1. [dead[w][a] EXCEPT !.pc = "removed"] \in DeadEntry
      BY <1>1, DeadEntryHelpers
    <3>2. [dead EXCEPT ![w][a].pc = "removed"]
            = [dead EXCEPT ![w][a] = [dead[w][a] EXCEPT !.pc = "removed"]]
      BY <1>1
    <3>3. \/ dead' = [dead EXCEPT ![w][a] = NoDeadJob]
          \/ dead' = [dead EXCEPT ![w][a].pc = "removed"]
      BY <1>5 DEF RemoveDeadJob
    <3>4. [dead EXCEPT ![w][a] = NoDeadJob] \in [Workers -> [Actions -> DeadEntry]]
      BY <1>1, <1>2
    <3>5. [dead EXCEPT ![w][a] = [dead[w][a] EXCEPT !.pc = "removed"]]
            \in [Workers -> [Actions -> DeadEntry]]
      BY <1>1, <3>1
    <3> QED BY <3>2, <3>3, <3>4, <3>5
  <2>2. NoJob \in Job
    BY DEF NoJob, Job
  <2>3. job' \in [Actions -> Job]
    BY <1>1, <1>5, <2>2 DEF RemoveDeadJob
  <2> QED
    BY <1>5, <2>1, <2>3 DEF RemoveDeadJob, StoreTypeOK, DispatcherTypeOK, DeadEntry
<1>6. ASSUME NEW w \in Workers, NEW a \in Actions, ChooseNewWorker(w, a)
      PROVE  StoreTypeOK' /\ DispatcherTypeOK'
  <2>1. row' \in [Actions -> Row] /\ dead' \in [Workers -> [Actions -> DeadEntry]]
    <3>1. CASE \E v \in findWorkerForAction :
                 /\ Update(a, [row[a] EXCEPT !.worker = v])
                 /\ dead' = [dead EXCEPT ![w][a] =
                               [pc |-> "add", entity |-> AbsentRow, to |-> v]]
      <4>1. PICK v \in findWorkerForAction :
                 /\ Update(a, [row[a] EXCEPT !.worker = v])
                 /\ dead' = [dead EXCEPT ![w][a] =
                               [pc |-> "add", entity |-> AbsentRow, to |-> v]]
        BY <3>1
      <4>2. v \in Workers
        BY <4>1, DispatcherAssumption DEF findWorkerForAction, Candidates
      <4>3. [row[a] EXCEPT !.worker = v] \in Row
        BY <1>1, <4>2 DEF Row
      <4>4. [pc |-> "add", entity |-> AbsentRow, to |-> v] \in DeadEntry
        BY <4>2, AbsentRowType DEF DeadEntry, DeadJobPc
      <4> QED BY <1>1, <1>6, <4>1, <4>3, <4>4, UpdateType
    <3>2. CASE /\ SaveEntity(a, Unprocessable([dead[w][a].entity EXCEPT !.worker = row[a].worker]))
               /\ dead' = [dead EXCEPT ![w][a] = NoDeadJob]
      <4>1. [dead[w][a].entity EXCEPT !.worker = row[a].worker] \in Row
        <5>1. row[a].worker \in Workers \cup {NoWorker}
          BY <1>1 DEF Row
        <5> QED BY ZenonT(60), <1>1, <5>1, DeadEntryHelpers
      <4>2. Unprocessable([dead[w][a].entity EXCEPT !.worker = row[a].worker]) \in Row
        BY <1>1, <4>1, RowHelpers
      <4> QED BY <1>1, <1>2, <3>2, <4>2, UpdateType DEF SaveEntity
    <3> QED BY <1>6, <3>1, <3>2 DEF ChooseNewWorker
  <2> QED
    BY <1>6, <2>1 DEF ChooseNewWorker, StoreTypeOK, DispatcherTypeOK, DeadEntry
<1>7. ASSUME NEW w \in Workers, NEW a \in Actions, RequeueJob(w, a)
      PROVE  StoreTypeOK' /\ DispatcherTypeOK'
  <2>1. dead' \in [Workers -> [Actions -> DeadEntry]]
    BY <1>1, <1>2, <1>7 DEF RequeueJob
  <2>2. WaitingJob(dead[w][a].to) \in Job
    BY <1>1 DEF DeadEntry, WaitingJob, Job
  <2>3. job' \in [Actions -> Job]
    BY <1>1, <1>7, <2>2 DEF RequeueJob
  <2> QED
    BY <1>7, <2>1, <2>3 DEF RequeueJob, StoreTypeOK, DispatcherTypeOK, DeadEntry
<1>8. ASSUME NEW w \in Workers, NEW a \in Actions, RequeueLosesJob(w, a)
      PROVE  StoreTypeOK' /\ DispatcherTypeOK'
  <2>1. dead' \in [Workers -> [Actions -> DeadEntry]]
    BY <1>1, <1>2, <1>8 DEF RequeueLosesJob
  <2> QED
    BY <1>8, <2>1 DEF RequeueLosesJob, storeVars, StoreTypeOK, DispatcherTypeOK, DeadEntry
<1>9. ASSUME NEW w \in Workers, FinishHealthCheck(w)
      PROVE  StoreTypeOK' /\ DispatcherTypeOK'
  BY <1>9 DEF FinishHealthCheck, storeVars, StoreTypeOK, DispatcherTypeOK
<1>10. CASE OpenQueues
  BY <1>10 DEF OpenQueues, storeVars, healthVars, StoreTypeOK, DispatcherTypeOK
<1> QED
  BY <1>3, <1>4, <1>5, <1>6, <1>7, <1>8, <1>9, <1>10 DEF HealthCheckNext

LEMMA ReqEntryHelpers ==
    ASSUME NEW e \in ReqEntry
    PROVE  /\ \A x \in ReqPc : [e EXCEPT !.pc = x] \in ReqEntry
           /\ \A x \in ReqPc, r \in Row : [e EXCEPT !.pc = x, !.entity = r] \in ReqEntry
           /\ e.n < MaxCancels => [e EXCEPT !.pc = "checked", !.n = e.n + 1] \in ReqEntry
           /\ [e.entity EXCEPT !.state = "CANCELLED"] \in Row
           /\ [AbsentRow EXCEPT !.worker = e.entity.worker] \in Row
<1>1. \A x \in ReqPc : [e EXCEPT !.pc = x] \in ReqEntry
  BY DEF ReqEntry
<1>2. \A x \in ReqPc, r \in Row : [e EXCEPT !.pc = x, !.entity = r] \in ReqEntry
  BY DEF ReqEntry
<1>3. e.n < MaxCancels => [e EXCEPT !.pc = "checked", !.n = e.n + 1] \in ReqEntry
  <2>1. /\ e.n \in 0..MaxCancels
        /\ \A m \in 0..MaxCancels : [e EXCEPT !.pc = "checked", !.n = m] \in ReqEntry
    BY DEF ReqEntry, ReqPc
  <2>2. \A m \in 0..MaxCancels : m < MaxCancels => m + 1 \in 0..MaxCancels
    BY DispatcherAssumption
  <2> QED BY <2>1, <2>2
<1>4. [e.entity EXCEPT !.state = "CANCELLED"] \in Row
  <2>1. e.entity \in Row
    BY DEF ReqEntry
  <2> QED BY <2>1 DEF Row, ActionState, TERMINAL_ACTION_STATES
<1>5. [AbsentRow EXCEPT !.worker = e.entity.worker] \in Row
  <2>1. e.entity.worker \in Workers \cup {NoWorker}
    BY DEF ReqEntry, Row
  <2> QED BY <2>1, AbsentRowType DEF Row
<1> QED BY <1>1, <1>2, <1>3, <1>4, <1>5

LEMMA RequestType ==
    ASSUME StoreTypeOK, DispatcherTypeOK, NEW a \in Actions,
           Cancel(a) \/ StopNext(a)
    PROVE  StoreTypeOK' /\ DispatcherTypeOK'
<1>1. /\ row \in [Actions -> Row]
      /\ job \in [Actions -> Job]
      /\ msgs \in [Workers -> SUBSET Actions]
      /\ req \in [Actions -> ReqEntry]
      /\ req[a] \in ReqEntry
      /\ row[a] \in Row
  BY DEF StoreTypeOK, DispatcherTypeOK, ReqEntry
<1>2. CASE Cancel(a)
  <2>1. [req[a] EXCEPT !.pc = "checked", !.n = req[a].n + 1] \in ReqEntry
    BY <1>1, <1>2, ReqEntryHelpers DEF Cancel
  <2>2. req' = [req EXCEPT ![a] = [req[a] EXCEPT !.pc = "checked", !.n = req[a].n + 1]]
    BY <1>1, <1>2 DEF Cancel
  <2>3. req' \in [Actions -> ReqEntry]
    BY <1>1, <2>1, <2>2
  <2> QED
    BY <1>2, <2>3 DEF Cancel, storeVars, healthVars, StoreTypeOK, DispatcherTypeOK, ReqEntry
<1>3. CASE StopRead(a)
  <2>1. /\ [req[a] EXCEPT !.pc = "read", !.entity = row[a]] \in ReqEntry
        /\ [req[a] EXCEPT !.pc = "idle"] \in ReqEntry
    BY <1>1, ReqEntryHelpers DEF ReqPc
  <2>2. \/ req' = [req EXCEPT ![a] = [req[a] EXCEPT !.pc = "read", !.entity = row[a]]]
        \/ req' = [req EXCEPT ![a] = [req[a] EXCEPT !.pc = "idle"]]
    BY <1>1, <1>3 DEF StopRead
  <2>3. req' \in [Actions -> ReqEntry]
    BY <1>1, <2>1, <2>2
  <2> QED
    BY <1>3, <2>3 DEF StopRead, storeVars, healthVars, StoreTypeOK, DispatcherTypeOK, ReqEntry
<1>4. CASE StopSave(a)
  <2> DEFINE next == IF Exists(a) THEN "saved" ELSE "idle"
             kept == [AbsentRow EXCEPT !.worker = req[a].entity.worker]
  <2>1. [req[a] EXCEPT !.pc = next, !.entity = kept] \in ReqEntry
    <3>1. next \in ReqPc /\ kept \in Row
      BY <1>1, ReqEntryHelpers DEF ReqPc
    <3> HIDE DEF next, kept
    <3> QED BY <1>1, <3>1, ReqEntryHelpers
  <2>2. req' = [req EXCEPT ![a] = [req[a] EXCEPT !.pc = next, !.entity = kept]]
    BY <1>1, <1>4 DEF StopSave
  <2>3. req' \in [Actions -> ReqEntry]
    <3> HIDE DEF next, kept
    <3> QED BY <1>1, <2>1, <2>2
  <2>4. row' \in [Actions -> Row]
    BY <1>1, <1>4, ReqEntryHelpers, UpdateType DEF StopSave, SaveEntity
  <2> QED
    BY <1>4, <2>3, <2>4 DEF StopSave, healthVars, StoreTypeOK, DispatcherTypeOK, ReqEntry
<1>5. CASE StopPublish(a)
  <2>1. [req[a] EXCEPT !.pc = "idle", !.entity = AbsentRow] \in ReqEntry
    BY <1>1, AbsentRowType, ReqEntryHelpers DEF ReqPc
  <2>2. req' = [req EXCEPT ![a] = [req[a] EXCEPT !.pc = "idle", !.entity = AbsentRow]]
    BY <1>1, <1>5 DEF StopPublish
  <2>3. req' \in [Actions -> ReqEntry]
    BY <1>1, <2>1, <2>2
  <2>4. NoJob \in Job
    BY DEF NoJob, Job
  <2>5. job' = job \/ job' = [job EXCEPT ![a] = NoJob]
    BY <1>5 DEF StopPublish
  <2>6. msgs' = msgs \/ msgs' = [v \in Workers |-> IF up[v] THEN msgs[v] \cup {a} ELSE msgs[v]]
    BY <1>5 DEF StopPublish
  <2>7. job' \in [Actions -> Job] /\ msgs' \in [Workers -> SUBSET Actions]
    BY <1>1, <2>4, <2>5, <2>6
  <2> QED
    BY <1>5, <2>3, <2>7 DEF StopPublish, healthVars, StoreTypeOK, DispatcherTypeOK, ReqEntry
<1> QED BY <1>2, <1>3, <1>4, <1>5 DEF StopNext

LEMMA DispatcherType ==
    ASSUME TypeOK, DispatcherNext, UNCHANGED <<runnerVars, janitorVars>>
    PROVE  TypeOK'
<1>1. RunnerTypeOK' /\ JanitorTypeOK'
  BY DEF TypeOK, RunnerTypeOK, JanitorTypeOK, runnerVars, memoryVars, janitorVars
<1>2. StoreTypeOK /\ DispatcherTypeOK /\ row \in [Actions -> Row]
  BY DEF TypeOK, StoreTypeOK
<1>3. ASSUME NEW a \in Actions, NEW s \in Diagnostics, RecordDiagnostic(a, s)
      PROVE  StoreTypeOK' /\ DispatcherTypeOK'
  <2>1. RaiseSeverity(a, s) \in Row
    BY <1>2, DispatcherAssumption, RowHelpers
  <2>2. row' \in [Actions -> Row]
    BY <1>2, <1>3, <2>1 DEF RecordDiagnostic
  <2> QED
    BY <1>2, <1>3, <2>2 DEF RecordDiagnostic, healthVars, StoreTypeOK, DispatcherTypeOK
<1>4. ASSUME NEW a \in Actions, DeleteAction(a)
      PROVE  StoreTypeOK' /\ DispatcherTypeOK'
  <2>1. row' \in [Actions -> Row]
    BY <1>2, <1>4, AbsentRowType DEF DeleteAction
  <2> QED
    BY <1>2, <1>4, <2>1 DEF DeleteAction, healthVars, StoreTypeOK, DispatcherTypeOK
<1>5. StoreTypeOK' /\ DispatcherTypeOK'
  BY <1>2, <1>3, <1>4, DispatchType, RequestType, HealthCheckType DEF DispatcherNext
<1> QED BY <1>1, <1>5 DEF TypeOK
-----------------------------------------------------------------------------
\* A worker whose pipeline is not idle is processing some action.
BusyHasAction == \A w \in Workers : pc[w] # "idle" => cur[w] \in Actions

LEMMA PipelineBusy ==
    ASSUME TypeOK, BusyHasAction,
           NEW w \in Workers, StartSteps(w) \/ ExitSteps(w)
    PROVE  /\ BusyHasAction'
           /\ cur[w] \in Actions
           /\ pc[w] # "idle"
           /\ pc' \in [Workers -> RunnerPc]
           /\ cur' \in [Workers -> Actions \cup {NoAction}]
<1>1. /\ pc \in [Workers -> RunnerPc]
      /\ cur \in [Workers -> Actions \cup {NoAction}]
  BY DEF TypeOK, RunnerTypeOK
<1>2. pc[w] # "idle" /\ (\E to \in RunnerPc : pc' = [pc EXCEPT ![w] = to])
  BY DEF StartSteps, ExitSteps, RunnerPc, Goto, LoadAction, LoadFails, RegisterAction,
         RejectNotPending, CancelledBeforeStart, MarkStarting, createAPIkey, AccessLost,
         MarkProcessing, LaunchContainer, StartFails, RegisterContainer, CaptureInfo,
         AwaitExit, InspectFails, MarkStopping, ReadBackFails, ResolveVerdict, WriteVerdict,
         SkipArtifacts, StartUpload, FinishUpload, UploadThrows, Catch, DisposeKey,
         JobCompleted, JobFailed
<1>3. \/ cur' = cur
      \/ cur' = [cur EXCEPT ![w] = NoAction] /\ pc' = [pc EXCEPT ![w] = "idle"]
  BY DEF StartSteps, ExitSteps, Goto, LoadAction, LoadFails, RegisterAction,
         RejectNotPending, CancelledBeforeStart, MarkStarting, createAPIkey, AccessLost,
         MarkProcessing, LaunchContainer, StartFails, RegisterContainer, CaptureInfo,
         AwaitExit, InspectFails, MarkStopping, ReadBackFails, ResolveVerdict, WriteVerdict,
         SkipArtifacts, StartUpload, FinishUpload, UploadThrows, Catch, DisposeKey,
         JobCompleted, JobFailed, Settle
<1>4. cur[w] \in Actions
  BY <1>2 DEF BusyHasAction
<1>5. BusyHasAction'
  BY <1>1, <1>2, <1>3, <1>4 DEF BusyHasAction
<1>6. pc' \in [Workers -> RunnerPc] /\ cur' \in [Workers -> Actions \cup {NoAction}]
  BY <1>1, <1>2, <1>3
<1> QED BY <1>2, <1>4, <1>5, <1>6

\* What the runner changes in a row.
LEMMA RowEdits ==
    ASSUME NEW r \in Row
    PROVE  /\ \A w \in Workers \cup {NoWorker} : [r EXCEPT !.worker = w] \in Row
           /\ \A s \in ActionState : [r EXCEPT !.state = s] \in Row
           /\ \A x \in {"AWAITING", "UPLOADING", "UPLOADED", "ERROR"} :
                /\ [r EXCEPT !.artifacts = x] \in Row
                /\ [r EXCEPT !.ended = TRUE, !.artifacts = x] \in Row
<1> USE DEF Row
<1>1. \A w \in Workers \cup {NoWorker} : [r EXCEPT !.worker = w] \in Row
  OBVIOUS
<1>2. \A s \in ActionState : [r EXCEPT !.state = s] \in Row
  OBVIOUS
<1>3. \A x \in {"AWAITING", "UPLOADING", "UPLOADED", "ERROR"} : [r EXCEPT !.artifacts = x] \in Row
  OBVIOUS
<1>4. \A x \in {"AWAITING", "UPLOADING", "UPLOADED", "ERROR"} :
        [r EXCEPT !.ended = TRUE, !.artifacts = x] \in Row
  OBVIOUS
<1> HIDE DEF Row
<1> QED BY <1>1, <1>2, <1>3, <1>4

LEMMA PipelineRow ==
    ASSUME TypeOK, BusyHasAction,
           NEW w \in Workers, StartSteps(w) \/ ExitSteps(w)
    PROVE  row' \in [Actions -> Row]
<1>1. row \in [Actions -> Row] /\ cur[w] \in Actions /\ row[cur[w]] \in Row
  BY PipelineBusy DEF TypeOK, StoreTypeOK
<1>2. {"CANCELLED", "STARTING", "PROCESSING", "STOPPING"} \subseteq ActionState
  BY DEF ActionState, TERMINAL_ACTION_STATES, CANCELLABLE_ACTION_STATES
<1>3. SUFFICES row' = row \/ (\E new \in Row : Update(cur[w], new))
  BY <1>1, UpdateType
<1>4. CASE LoadAction(w)
  BY <1>1, <1>4, RowEdits DEF LoadAction
<1>5. CASE CancelledBeforeStart(w)
  BY <1>1, <1>2, <1>5, RowEdits DEF CancelledBeforeStart
<1>6. CASE MarkStarting(w)
  BY <1>1, <1>2, <1>6, RowEdits DEF MarkStarting
<1>7. CASE MarkProcessing(w)
  BY <1>1, <1>2, <1>7, RowEdits DEF MarkProcessing
<1>8. CASE MarkStopping(w)
  BY <1>1, <1>2, <1>8, RowEdits DEF MarkStopping
<1>9. CASE WriteVerdict(w)
  <2>1. verdict[w] \in Verdict
    BY DEF TypeOK, RunnerTypeOK
  <2> QED BY <1>1, <1>9, <2>1, RowHelpers DEF WriteVerdict
<1>10. CASE SkipArtifacts(w)
  BY <1>1, <1>10, RowEdits DEF SkipArtifacts
<1>11. CASE StartUpload(w)
  BY <1>1, <1>11, RowEdits DEF StartUpload
<1>12. CASE FinishUpload(w)
  BY <1>1, <1>12, RowEdits, RowHelpers DEF FinishUpload
<1>13. CASE Catch(w)
  <2>1. FailedRow(cur[w], "SYSTEM") \in Row
    BY <1>1, RowHelpers DEF ActionFailureOrigin
  <2> QED BY <1>1, <1>2, <1>13, <2>1, RowEdits DEF Catch
<1>14. CASE \/ LoadFails(w) \/ RegisterAction(w) \/ RejectNotPending(w) \/ createAPIkey(w)
            \/ AccessLost(w) \/ LaunchContainer(w) \/ StartFails(w) \/ RegisterContainer(w)
            \/ CaptureInfo(w) \/ AwaitExit(w) \/ InspectFails(w) \/ ReadBackFails(w)
            \/ ResolveVerdict(w) \/ UploadThrows(w) \/ DisposeKey(w)
            \/ JobCompleted(w) \/ JobFailed(w)
  BY <1>14
     DEF LoadFails, RegisterAction, RejectNotPending, createAPIkey, AccessLost, LaunchContainer,
         StartFails, RegisterContainer, CaptureInfo, AwaitExit, InspectFails, ReadBackFails,
         ResolveVerdict, UploadThrows, DisposeKey, JobCompleted, JobFailed, Settle, storeVars
<1> QED
  BY <1>4, <1>5, <1>6, <1>7, <1>8, <1>9, <1>10, <1>11, <1>12, <1>13, <1>14
     DEF StartSteps, ExitSteps

\* A runner's name, and the edit of one of its containers.
LEMMA ContainerEdit ==
    ASSUME StoreTypeOK, NEW w \in Workers, NEW a \in Actions, NEW c \in Container
    PROVE  /\ Me(w) \in Runners
           /\ cont[Me(w)][a] \in Container
           /\ [cont EXCEPT ![Me(w)][a] = c] \in [Runners -> [Actions -> Container]]
<1>1. Me(w) \in Runners
  BY DEF StoreTypeOK, Me, Runners
<1>2. cont \in [Runners -> [Actions -> Container]]
  BY DEF StoreTypeOK
<1> QED BY <1>1, <1>2

LEMMA PipelineContainers ==
    ASSUME TypeOK, BusyHasAction,
           NEW w \in Workers, StartSteps(w) \/ ExitSteps(w)
    PROVE  cont' \in [Runners -> [Actions -> Container]]
<1> DEFINE c == cont[Me(w)][cur[w]]
<1>1. /\ cont \in [Runners -> [Actions -> Container]]
      /\ cur[w] \in Actions
      /\ StoreTypeOK
      /\ Me(w) \in Runners
      /\ c \in Container
  BY PipelineBusy DEF TypeOK, StoreTypeOK, Me, Runners
<1>2. SUFFICES cont' = cont \/ (\E d \in Container : cont' = [cont EXCEPT ![Me(w)][cur[w]] = d])
  BY <1>1, ContainerEdit
<1>3. \A s \in {"created", "running"} : [c EXCEPT !.st = s] \in Container
  BY <1>1, ContainerHelpers
<1>4. Killed(c) \in Container /\ [c EXCEPT !.rm = TRUE] \in Container
  BY <1>1, ContainerHelpers
<1>5. CASE LaunchContainer(w)
  <2>1. cont' = [cont EXCEPT ![Me(w)][cur[w]] = [c EXCEPT !.st = "running"]]
    BY <1>1, <1>5 DEF LaunchContainer
  <2> QED BY <1>3, <2>1
<1>6. CASE StartFails(w)
  <2>1. cont' = cont \/ cont' = [cont EXCEPT ![Me(w)][cur[w]] = [c EXCEPT !.st = "created"]]
    BY <1>1, <1>6 DEF StartFails
  <2> QED BY <1>3, <2>1
<1>7. CASE RegisterContainer(w)
  <2>1. cont' = cont \/ cont' = [cont EXCEPT ![Me(w)][cur[w]] = Killed(c)]
    BY <1>1, <1>7 DEF RegisterContainer, KillIfCancelled, KillContainer
  <2> QED BY <1>4, <2>1
<1>8. CASE MarkStopping(w)
  <2>1. cont' = [cont EXCEPT ![Me(w)][cur[w]] = [c EXCEPT !.rm = TRUE]]
    BY <1>1, <1>8 DEF MarkStopping
  <2> QED BY <1>4, <2>1
<1>9. CASE \/ LoadAction(w) \/ LoadFails(w) \/ RegisterAction(w) \/ RejectNotPending(w)
           \/ CancelledBeforeStart(w) \/ MarkStarting(w) \/ createAPIkey(w) \/ AccessLost(w)
           \/ MarkProcessing(w) \/ CaptureInfo(w) \/ AwaitExit(w) \/ InspectFails(w)
           \/ ReadBackFails(w) \/ ResolveVerdict(w) \/ WriteVerdict(w) \/ SkipArtifacts(w)
           \/ StartUpload(w) \/ FinishUpload(w) \/ UploadThrows(w) \/ Catch(w)
           \/ DisposeKey(w) \/ JobCompleted(w) \/ JobFailed(w)
  BY <1>9
     DEF LoadAction, LoadFails, RegisterAction, RejectNotPending, CancelledBeforeStart,
         MarkStarting, createAPIkey, AccessLost, MarkProcessing, CaptureInfo, AwaitExit,
         InspectFails, ReadBackFails, ResolveVerdict, WriteVerdict, SkipArtifacts, StartUpload,
         FinishUpload, UploadThrows, Catch, DisposeKey, JobCompleted, JobFailed, Settle, storeVars
<1> QED BY <1>5, <1>6, <1>7, <1>8, <1>9 DEF StartSteps, ExitSteps

\* What is kept in memory about actions is a set of actions.
LEMMA PipelineMemory ==
    ASSUME TypeOK, BusyHasAction,
           NEW w \in Workers, StartSteps(w) \/ ExitSteps(w)
    PROVE  /\ activeActions' \in [Workers -> SUBSET Actions]
           /\ cancelledActions' \in [Workers -> SUBSET Actions]
           /\ activeContainers' \in [Workers -> SUBSET Actions]
<1>1. /\ activeActions \in [Workers -> SUBSET Actions]
      /\ cancelledActions \in [Workers -> SUBSET Actions]
      /\ activeContainers \in [Workers -> SUBSET Actions]
      /\ cur[w] \in Actions
  BY PipelineBusy DEF TypeOK, RunnerTypeOK
<1>2. CASE cleanup(w)
  BY <1>1, <1>2 DEF cleanup
<1>3. CASE RegisterAction(w)
  BY <1>1, <1>3 DEF RegisterAction
<1>4. CASE RegisterContainer(w)
  BY <1>1, <1>4 DEF RegisterContainer
<1>5. CASE UNCHANGED memoryVars
  BY <1>1, <1>5 DEF memoryVars
<1>6. cleanup(w) \/ RegisterAction(w) \/ RegisterContainer(w) \/ UNCHANGED memoryVars
  BY DEF StartSteps, ExitSteps, LoadAction, LoadFails, RejectNotPending,
         CancelledBeforeStart, MarkStarting, createAPIkey, AccessLost, MarkProcessing,
         LaunchContainer, StartFails, CaptureInfo, AwaitExit, InspectFails, MarkStopping,
         ReadBackFails, ResolveVerdict, WriteVerdict, SkipArtifacts, StartUpload,
         FinishUpload, UploadThrows, Catch, DisposeKey, JobCompleted, JobFailed, Settle
<1> QED BY <1>2, <1>3, <1>4, <1>5, <1>6

HookEntry == [pc : HookPc, entity : Row]

LEMMA HookEntryHelpers ==
    /\ NoHook \in HookEntry
    /\ \A e \in HookEntry, k \in HookPc : [e EXCEPT !.pc = k] \in HookEntry
<1>1. NoHook \in HookEntry
  BY AbsentRowType DEF NoHook, HookEntry, HookPc
<1>2. \A e \in HookEntry, k \in HookPc : [e EXCEPT !.pc = k] \in HookEntry
  BY DEF HookEntry
<1> QED BY <1>1, <1>2

LEMMA PipelineRest ==
    ASSUME TypeOK, BusyHasAction,
           NEW w \in Workers, StartSteps(w) \/ ExitSteps(w)
    PROVE  /\ loaded' \in [Workers -> ActionState]
           /\ verdict' \in [Workers -> Verdict]
           /\ job' \in [Actions -> Job]
           /\ liveKeys' \subseteq Runners \X Actions
           /\ hook' \in [Workers -> [Actions -> HookEntry]]
<1>1. /\ loaded \in [Workers -> ActionState]
      /\ verdict \in [Workers -> Verdict]
      /\ job \in [Actions -> Job]
      /\ liveKeys \subseteq Runners \X Actions
      /\ hook \in [Workers -> [Actions -> HookEntry]]
      /\ row \in [Actions -> Row]
      /\ cur[w] \in Actions
      /\ Me(w) \in Runners
  BY PipelineBusy DEF TypeOK, StoreTypeOK, RunnerTypeOK, HookEntry, Me, Runners
<1>2. CASE LoadAction(w)
  <2>1. row[cur[w]].state \in ActionState
    BY <1>1, <1>2 DEF LoadAction, Exists, Row
  <2> QED BY <1>1, <1>2, <2>1 DEF LoadAction
<1>3. CASE createAPIkey(w)
  BY <1>1, <1>3 DEF createAPIkey, memoryVars
<1>4. CASE DisposeKey(w)
  BY <1>1, <1>4 DEF DisposeKey, asyncDispose
<1>5. CASE ResolveVerdict(w)
  <2> DEFINE outcome == IF isCancelled(w) THEN CancelledOutcome
                        ELSE resolveActionOutcome(MyContainer(w).code)
  <2>1. MyContainer(w).code \in Nat
    BY <1>1 DEF MyContainer, TypeOK, StoreTypeOK, Container
  <2>2. outcome \in Verdict
    BY <2>1, VerdictHelpers
  <2>3. resolveFinalVerdict(row[cur[w]], outcome) \in Verdict
    BY <1>1, <2>2, VerdictHelpers
  <2>4. verdict' \in [Workers -> Verdict]
    <3>1. verdict' = [verdict EXCEPT ![w] =
                        IF Exists(cur[w]) THEN resolveFinalVerdict(row[cur[w]], outcome)
                                          ELSE outcome]
      BY <1>5 DEF ResolveVerdict
    <3> HIDE DEF outcome
    <3> QED BY <1>1, <2>2, <2>3, <3>1
  <2> QED BY <1>1, <1>5, <2>4 DEF ResolveVerdict, storeVars
<1>6. CASE WriteVerdict(w)
  BY <1>1, <1>6, VerdictHelpers DEF WriteVerdict, NoVerdict
<1>7. CASE JobCompleted(w) \/ JobFailed(w)
  <2>1. NoJob \in Job /\ [job[cur[w]] EXCEPT !.st = "delayed"] \in Job
    BY <1>1 DEF NoJob, Job
  <2>2. PICK new \in Job, kind \in HookPc : Settle(w, new, kind)
    BY <1>7, <2>1 DEF JobCompleted, JobFailed, HookPc
  <2>3. hook' \in [Workers -> [Actions -> HookEntry]]
    <3>1. [hook[w][cur[w]] EXCEPT !.pc = kind] \in HookEntry
      BY <1>1, HookEntryHelpers
    <3>2. hook' = [hook EXCEPT ![w][cur[w]] = [hook[w][cur[w]] EXCEPT !.pc = kind]]
      BY <1>1, <2>2 DEF Settle
    <3> QED BY <1>1, <3>1, <3>2
  <2>4. loaded' \in [Workers -> ActionState]
    <3>1. "PENDING" \in ActionState
      BY DEF ActionState, CANCELLABLE_ACTION_STATES
    <3> QED BY <1>1, <2>2, <3>1 DEF Settle
  <2> QED BY <1>1, <2>2, <2>3, <2>4 DEF Settle
<1>8. CASE \/ LoadFails(w) \/ RegisterAction(w) \/ RejectNotPending(w)
           \/ CancelledBeforeStart(w) \/ MarkStarting(w) \/ AccessLost(w)
           \/ MarkProcessing(w) \/ LaunchContainer(w) \/ StartFails(w) \/ RegisterContainer(w)
           \/ CaptureInfo(w) \/ AwaitExit(w) \/ InspectFails(w) \/ MarkStopping(w)
           \/ ReadBackFails(w) \/ SkipArtifacts(w) \/ StartUpload(w) \/ FinishUpload(w)
           \/ UploadThrows(w) \/ Catch(w)
  <2>1. UNCHANGED <<loaded, verdict, job, liveKeys, hook>>
    BY <1>8
       DEF LoadFails, RegisterAction, RejectNotPending, CancelledBeforeStart, MarkStarting,
           AccessLost, MarkProcessing, LaunchContainer, StartFails, RegisterContainer,
           CaptureInfo, AwaitExit, InspectFails, MarkStopping, ReadBackFails, SkipArtifacts,
           StartUpload, FinishUpload, UploadThrows, Catch, storeVars
  <2> QED BY <1>1, <2>1
<1> QED BY <1>2, <1>3, <1>4, <1>5, <1>6, <1>7, <1>8 DEF StartSteps, ExitSteps

\* No step of the pipeline touches the rest.
LEMMA PipelineFrame ==
    ASSUME NEW w \in Workers, StartSteps(w) \/ ExitSteps(w)
    PROVE  UNCHANGED <<msgs, up, epoch, reachable, lostHooks>>
<1>1. CASE StartSteps(w)
  BY <1>1
     DEF StartSteps, LoadAction, LoadFails, RegisterAction, RejectNotPending,
         CancelledBeforeStart, MarkStarting, createAPIkey, AccessLost, MarkProcessing,
         LaunchContainer, StartFails, RegisterContainer, storeVars
<1>2. CASE JobCompleted(w) \/ JobFailed(w)
  BY <1>2 DEF JobCompleted, JobFailed, Settle
<1>3. CASE \/ CaptureInfo(w) \/ AwaitExit(w) \/ InspectFails(w) \/ MarkStopping(w)
           \/ ReadBackFails(w) \/ ResolveVerdict(w) \/ WriteVerdict(w) \/ SkipArtifacts(w)
           \/ StartUpload(w) \/ FinishUpload(w) \/ UploadThrows(w) \/ Catch(w) \/ DisposeKey(w)
  BY <1>3
     DEF CaptureInfo, AwaitExit, InspectFails, MarkStopping, ReadBackFails, ResolveVerdict,
         WriteVerdict, SkipArtifacts, StartUpload, FinishUpload, UploadThrows, Catch,
         DisposeKey, storeVars
<1> QED BY <1>1, <1>2, <1>3 DEF ExitSteps

LEMMA PipelineType ==
    ASSUME TypeOK, BusyHasAction, UNCHANGED <<dispatcherVars, janitorVars>>,
           NEW w \in Workers, StartSteps(w) \/ ExitSteps(w)
    PROVE  TypeOK'
<1>1. DispatcherTypeOK' /\ JanitorTypeOK'
  BY DEF TypeOK, DispatcherTypeOK, JanitorTypeOK, dispatcherVars, janitorVars
<1>2. StoreTypeOK'
  BY PipelineFrame, PipelineRow, PipelineContainers, PipelineRest DEF TypeOK, StoreTypeOK
<1>3. RunnerTypeOK'
  BY PipelineFrame, PipelineBusy, PipelineMemory, PipelineRest
     DEF TypeOK, RunnerTypeOK, HookEntry
<1> QED BY <1>1, <1>2, <1>3 DEF TypeOK

\* The changes of a job's state are those of a job.
LEMMA JobEdits ==
    ASSUME NEW j \in Job
    PROVE  /\ \A s \in {"waiting", "active", "abandoned", "delayed", "failed"} :
                [j EXCEPT !.st = s] \in Job
           /\ [j EXCEPT !.st = "waiting", !.stalled = TRUE] \in Job
<1>1. \A s \in {"waiting", "active", "abandoned", "delayed", "failed"} : [j EXCEPT !.st = s] \in Job
  BY DEF Job
<1>2. [j EXCEPT !.st = "waiting", !.stalled = TRUE] \in Job
  BY DEF Job
<1> QED BY <1>1, <1>2

\* The hooks, the backoff and the stalled jobs of the queue.
LEMMA QueueType ==
    ASSUME TypeOK, UNCHANGED <<dispatcherVars, janitorVars>>,
           NEW w \in Workers, NEW a \in Actions, QueueSteps(w, a)
    PROVE  TypeOK'
<1>1. DispatcherTypeOK' /\ JanitorTypeOK'
  BY DEF TypeOK, DispatcherTypeOK, JanitorTypeOK, dispatcherVars, janitorVars
<1>2. /\ row \in [Actions -> Row]
      /\ row[a] \in Row
      /\ job \in [Actions -> Job]
      /\ job[a] \in Job
      /\ hook \in [Workers -> [Actions -> HookEntry]]
      /\ hook[w][a].entity \in Row
  BY DEF TypeOK, StoreTypeOK, RunnerTypeOK, HookEntry
<1>3. UNCHANGED <<msgs, liveKeys, cont, up, epoch, reachable, pc, cur, loaded, verdict,
                  activeActions, cancelledActions, activeContainers, lostHooks>>
  BY DEF QueueSteps, HookRead, markJobAsCompleted, handleUnexpectedError, HookThrows,
         PromoteDelayed, StalledJob, StalledTwice, storeVars, runnerVars, memoryVars
<1>4. SUFFICES /\ row' \in [Actions -> Row]
               /\ job' \in [Actions -> Job]
               /\ hook' \in [Workers -> [Actions -> HookEntry]]
  BY <1>1, <1>3 DEF TypeOK, StoreTypeOK, RunnerTypeOK, HookEntry
<1>5. NoJob \in Job
  BY DEF NoJob, Job
<1>6. CASE HookThrows(w, a)
  BY <1>2, <1>6, HookEntryHelpers DEF HookThrows, storeVars
<1>7. CASE HookRead(w, a)
  <2>1. \A k \in HookPc : [pc |-> k, entity |-> row[a]] \in HookEntry
    BY <1>2 DEF HookEntry
  <2>2. hook' = [hook EXCEPT ![w][a] = NoHook]
        \/ \E k \in HookPc : hook' = [hook EXCEPT ![w][a] = [pc |-> k, entity |-> row[a]]]
    BY <1>7 DEF HookRead, HookPc
  <2>3. hook' \in [Workers -> [Actions -> HookEntry]]
    BY SMTT(30), <1>2, <2>1, <2>2, HookEntryHelpers
  <2>4. job' = job \/ job' = [job EXCEPT ![a] = NoJob]
    BY <1>7 DEF HookRead
  <2> QED BY <1>2, <1>5, <1>7, <2>3, <2>4 DEF HookRead
<1>8. CASE markJobAsCompleted(w, a)
  <2> DEFINE resolved == resolveCompletedActionState(hook[w][a].entity.state)
             new == [hook[w][a].entity EXCEPT !.state = resolved, !.worker = row[a].worker]
  <2>1. new \in Row
    BY <1>2 DEF Row, resolveCompletedActionState, isTerminalActionState, ActionState,
                TERMINAL_ACTION_STATES
  <2>2. row' = row \/ Update(a, new)
    BY <1>8 DEF markJobAsCompleted, SaveEntity
  <2> QED
    BY <1>2, <1>8, <2>1, <2>2, UpdateType, HookEntryHelpers DEF markJobAsCompleted
<1>9. CASE handleUnexpectedError(w, a)
  <2> DEFINE new == [UnexpectedError(hook[w][a].entity) EXCEPT !.worker = row[a].worker]
  <2>1. UnexpectedError(hook[w][a].entity) \in Row
    BY <1>2, RowHelpers
  <2>2. row[a].worker \in Workers \cup {NoWorker}
    BY <1>2 DEF Row
  <2>3. new \in Row
    BY <2>1, <2>2, RowEdits
  <2> QED
    BY <1>2, <1>9, <2>3, UpdateType, HookEntryHelpers DEF handleUnexpectedError, SaveEntity
<1>10. CASE PromoteDelayed(w, a)
  <2>1. job' = [job EXCEPT ![a] = [job[a] EXCEPT !.st = "waiting"]]
    BY <1>2, <1>10 DEF PromoteDelayed
  <2> QED BY <1>2, <1>10, <2>1, JobEdits DEF PromoteDelayed, runnerVars
<1>11. CASE StalledJob(w, a)
  <2>1. job' = [job EXCEPT ![a] = [job[a] EXCEPT !.st = "waiting", !.stalled = TRUE]]
    BY <1>2, <1>11 DEF StalledJob
  <2>2. [job[a] EXCEPT !.st = "waiting", !.stalled = TRUE] \in Job
    BY <1>2, JobEdits
  <2> QED BY <1>2, <1>11, <2>1, <2>2 DEF StalledJob, runnerVars
<1>12. CASE StalledTwice(w, a)
  <2>1. job' = [job EXCEPT ![a] = [job[a] EXCEPT !.st = "failed"]]
    BY <1>2, <1>12 DEF StalledTwice
  <2>2. [hook[w][a] EXCEPT !.pc = "failed"] \in HookEntry
    BY <1>2, HookEntryHelpers DEF HookPc
  <2>3. hook' = [hook EXCEPT ![w][a] = [hook[w][a] EXCEPT !.pc = "failed"]]
    BY <1>2, <1>12 DEF StalledTwice
  <2>4. [job[a] EXCEPT !.st = "failed"] \in Job
    BY <1>2, JobEdits
  <2>5. job' \in [Actions -> Job] /\ hook' \in [Workers -> [Actions -> HookEntry]]
    BY <1>2, <2>1, <2>2, <2>3, <2>4
  <2>6. row' = row
    BY <1>12 DEF StalledTwice
  <2> QED BY <1>2, <2>5, <2>6
<1> QED
  BY <1>6, <1>7, <1>8, <1>9, <1>10, <1>11, <1>12 DEF QueueSteps

LEMMA DeliverType ==
    ASSUME TypeOK, UNCHANGED <<dispatcherVars, janitorVars>>,
           NEW w \in Workers, NEW a \in Actions, DeliverCancel(w, a)
    PROVE  TypeOK'
<1>1. DispatcherTypeOK' /\ JanitorTypeOK'
  BY DEF TypeOK, DispatcherTypeOK, JanitorTypeOK, dispatcherVars, janitorVars
<1>2. cont' \in [Runners -> [Actions -> Container]]
  <2>1. StoreTypeOK /\ cont[Me(w)][a] \in Container
    BY DEF TypeOK, StoreTypeOK, Me, Runners
  <2>2. Killed(cont[Me(w)][a]) \in Container
    BY <2>1, ContainerHelpers
  <2>3. cont' = cont \/ cont' = [cont EXCEPT ![Me(w)][a] = Killed(cont[Me(w)][a])]
    BY <2>1 DEF DeliverCancel, KillContainer
  <2>4. /\ cont \in [Runners -> [Actions -> Container]]
        /\ [cont EXCEPT ![Me(w)][a] = Killed(cont[Me(w)][a])] \in [Runners -> [Actions -> Container]]
    BY <2>1, <2>2, ContainerEdit DEF StoreTypeOK
  <2> QED BY <2>3, <2>4
<1>3. StoreTypeOK'
  <2>1. msgs' \in [Workers -> SUBSET Actions]
    BY DEF DeliverCancel, TypeOK, StoreTypeOK
  <2> QED BY <1>2, <2>1 DEF DeliverCancel, TypeOK, StoreTypeOK
<1>4. RunnerTypeOK'
  <2>1. cancelledActions' \in [Workers -> SUBSET Actions]
    <3>1. cancelledActions \in [Workers -> SUBSET Actions]
      BY DEF TypeOK, RunnerTypeOK
    <3>2. \/ cancelledActions' = cancelledActions
          \/ cancelledActions' = [cancelledActions EXCEPT ![w] = cancelledActions[w] \cup {a}]
      BY DEF DeliverCancel
    <3> QED BY <3>1, <3>2
  <2> QED BY <2>1 DEF DeliverCancel, TypeOK, RunnerTypeOK
<1> QED BY <1>1, <1>3, <1>4 DEF TypeOK

LEMMA TakeJobType ==
    ASSUME TypeOK, UNCHANGED <<dispatcherVars, janitorVars>>,
           NEW w \in Workers, NEW a \in Actions, TakeJob(w, a)
    PROVE  TypeOK'
<1>1. DispatcherTypeOK' /\ JanitorTypeOK'
  BY DEF TypeOK, DispatcherTypeOK, JanitorTypeOK, dispatcherVars, janitorVars
<1>2. job' \in [Actions -> Job]
  <2>1. job \in [Actions -> Job] /\ [job[a] EXCEPT !.st = "active"] \in Job
    BY JobEdits DEF TypeOK, StoreTypeOK
  <2>2. job' = [job EXCEPT ![a] = [job[a] EXCEPT !.st = "active"]]
    BY <2>1 DEF TakeJob
  <2> QED BY <2>1, <2>2
<1>3. StoreTypeOK'
  BY <1>2 DEF TakeJob, TypeOK, StoreTypeOK
<1>4. pc' \in [Workers -> RunnerPc] /\ cur' \in [Workers -> Actions \cup {NoAction}]
  BY DEF TakeJob, Goto, RunnerPc, TypeOK, RunnerTypeOK
<1>5. RunnerTypeOK'
  BY <1>4 DEF TakeJob, memoryVars, TypeOK, RunnerTypeOK
<1> QED BY <1>1, <1>3, <1>5 DEF TypeOK

\* The runner keeps the types, and its pipeline an action.
LEMMA RunnerType ==
    ASSUME TypeOK, BusyHasAction, RunnerNext, UNCHANGED <<dispatcherVars, janitorVars>>
    PROVE  TypeOK' /\ BusyHasAction'
<1>1. ASSUME NEW w \in Workers, NEW a \in Actions, TakeJob(w, a)
      PROVE  BusyHasAction'
  BY <1>1 DEF TakeJob, Goto, BusyHasAction, TypeOK, RunnerTypeOK
<1>2. ASSUME NEW w \in Workers, NEW a \in Actions, DeliverCancel(w, a) \/ QueueSteps(w, a)
      PROVE  BusyHasAction'
  <2>1. UNCHANGED <<pc, cur>>
    BY <1>2
       DEF DeliverCancel, QueueSteps, HookRead, markJobAsCompleted, handleUnexpectedError,
           HookThrows, PromoteDelayed, StalledJob, StalledTwice, runnerVars
  <2> QED BY <2>1 DEF BusyHasAction
<1> QED
  BY <1>1, <1>2, PipelineBusy, PipelineType, QueueType, DeliverType, TakeJobType
     DEF RunnerNext, ProcessNext
-----------------------------------------------------------------------------
(* The janitor, crashes and restarts.                                      *)

\* Whatever the janitor is at, it kills containers and fails rows.
LEMMA KillType ==
    ASSUME StoreTypeOK, NEW r, NEW a, killAndRemoveContainer(r, a)
    PROVE  cont' \in [Runners -> [Actions -> Container]]
<1>1. cont \in [Runners -> [Actions -> Container]]
  BY DEF StoreTypeOK
<1>2. CASE r \in Runners /\ a \in Actions
  <2>1. [Killed(cont[r][a]) EXCEPT !.rm = TRUE] \in Container
    BY <1>1, <1>2, ContainerHelpers
  <2>2. cont' = [cont EXCEPT ![r][a] = [Killed(cont[r][a]) EXCEPT !.rm = TRUE]]
    BY <1>1, <1>2 DEF killAndRemoveContainer
  <2> QED BY <1>1, <1>2, <2>1, <2>2
<1>3. CASE ~(r \in Runners /\ a \in Actions)
  BY <1>1, <1>3 DEF killAndRemoveContainer
<1> QED BY <1>2, <1>3

LEMMA FailType ==
    ASSUME row \in [Actions -> Row], NEW a, NEW o \in ActionFailureOrigin,
           Update(a, FailedRow(a, o))
    PROVE  row' \in [Actions -> Row]
<1>1. CASE a \in Actions
  BY <1>1, RowHelpers, UpdateType
<1>2. CASE a \notin Actions
  BY <1>2 DEF Update
<1> QED BY <1>1, <1>2

LEMMA JanitorType ==
    ASSUME TypeOK, JanitorNext, UNCHANGED <<dispatcherVars, runnerVars>>
    PROVE  TypeOK'
<1>1. DispatcherTypeOK' /\ RunnerTypeOK'
  BY DEF TypeOK, DispatcherTypeOK, RunnerTypeOK, dispatcherVars, runnerVars, memoryVars
<1>2. SUFFICES StoreTypeOK' /\ JanitorTypeOK'
  BY <1>1 DEF TypeOK
<1>3. /\ StoreTypeOK
      /\ JanitorTypeOK
      /\ row \in [Actions -> Row]
      /\ {"USER", "SYSTEM"} \subseteq ActionFailureOrigin
  BY DEF TypeOK, StoreTypeOK, ActionFailureOrigin
<1>4. ASSUME NEW r \in Runners, RunnerGoesInactive(r)
      PROVE  StoreTypeOK' /\ JanitorTypeOK'
  BY <1>3, <1>4 DEF RunnerGoesInactive, storeVars, StoreTypeOK, JanitorTypeOK
<1>5. ASSUME NEW w \in Workers, ListContainers(w)
      PROVE  StoreTypeOK' /\ JanitorTypeOK'
  <2>1. /\ ListedContainers(w) \subseteq Runners \X Actions
        /\ {c[2] : c \in ListedContainers(w)} \subseteq Actions
    BY DEF ListedContainers
  <2>2. /\ janPc' \in [Workers -> JanitorPc]
        /\ janList' \in [Workers -> SUBSET (Runners \X Actions)]
        /\ janSeen' \in [Workers -> SUBSET Actions]
    BY <1>3, <1>5, <2>1 DEF ListContainers, At, JanitorTypeOK, JanitorPc
  <2> QED
    BY <1>3, <1>5, <2>2 DEF ListContainers, storeVars, StoreTypeOK, JanitorTypeOK
<1>6. ASSUME NEW w \in Workers, ReadActive(w)
      PROVE  StoreTypeOK' /\ JanitorTypeOK'
  <2>1. Processing \subseteq Actions
    BY DEF Processing
  <2>2. janPc' \in [Workers -> JanitorPc] /\ janActive' \in [Workers -> SUBSET Actions]
    BY <1>3, <1>6, <2>1 DEF ReadActive, At, JanitorTypeOK, JanitorPc
  <2> QED
    BY <1>3, <1>6, <2>2 DEF ReadActive, storeVars, StoreTypeOK, JanitorTypeOK
<1>7. ASSUME NEW w \in Workers, NEW c \in Runners \X Actions, KillFirst(w, c)
      PROVE  StoreTypeOK' /\ JanitorTypeOK'
  <2>1. cont' \in [Runners -> [Actions -> Container]]
    BY <1>3, <1>7, KillType DEF KillFirst
  <2>2. janPc' \in [Workers -> JanitorPc]
    BY <1>3, <1>7 DEF KillFirst, At, JanitorTypeOK, JanitorPc
  <2>3. /\ janList' \in [Workers -> SUBSET (Runners \X Actions)]
        /\ janAt' \in [Workers -> (Runners \X Actions) \cup {Nowhere}]
    BY <1>3, <1>7 DEF KillFirst, Visit, JanitorTypeOK
  <2> QED
    BY <1>3, <1>7, <2>1, <2>2, <2>3 DEF KillFirst, StoreTypeOK, JanitorTypeOK
<1>8. ASSUME NEW w \in Workers, MarkTimedOut(w) \/ MarkInterrupted(w)
      PROVE  StoreTypeOK' /\ JanitorTypeOK'
  <2>1. row' \in [Actions -> Row]
    BY <1>3, <1>8, FailType DEF MarkTimedOut, MarkInterrupted, markActionAsFailed
  <2>2. /\ janPc' \in [Workers -> JanitorPc]
        /\ janAt' \in [Workers -> (Runners \X Actions) \cup {Nowhere}]
    BY <1>3, <1>8
       DEF MarkTimedOut, MarkInterrupted, markActionAsFailed, At, JanitorTypeOK, JanitorPc
  <2> QED
    BY <1>3, <1>8, <2>1, <2>2
       DEF MarkTimedOut, MarkInterrupted, markActionAsFailed, StoreTypeOK, JanitorTypeOK
<1>9. ASSUME NEW w \in Workers, NEW c \in Runners \X Actions, MarkZombie(w, c)
      PROVE  StoreTypeOK' /\ JanitorTypeOK'
  <2>1. FailedRow(c[2], "SYSTEM") \in Row
    BY <1>3, RowHelpers
  <2>2. row' \in [Actions -> Row]
    BY <1>3, <1>9, <2>1 DEF MarkZombie
  <2>3. janPc' \in [Workers -> JanitorPc]
    BY <1>3, <1>9 DEF MarkZombie, At, JanitorTypeOK, JanitorPc
  <2>4. /\ janList' \in [Workers -> SUBSET (Runners \X Actions)]
        /\ janAt' \in [Workers -> (Runners \X Actions) \cup {Nowhere}]
    BY <1>3, <1>9 DEF MarkZombie, Visit, JanitorTypeOK
  <2> QED
    BY <1>3, <1>9, <2>2, <2>3, <2>4 DEF MarkZombie, StoreTypeOK, JanitorTypeOK
<1>10. ASSUME NEW w \in Workers, KillZombie(w)
       PROVE  StoreTypeOK' /\ JanitorTypeOK'
  <2>1. cont' \in [Runners -> [Actions -> Container]]
    BY <1>3, <1>10, KillType DEF KillZombie
  <2>2. /\ janPc' \in [Workers -> JanitorPc]
        /\ janAt' \in [Workers -> (Runners \X Actions) \cup {Nowhere}]
    BY <1>3, <1>10 DEF KillZombie, At, JanitorTypeOK, JanitorPc
  <2> QED
    BY <1>3, <1>10, <2>1, <2>2 DEF KillZombie, StoreTypeOK, JanitorTypeOK
<1>11. ASSUME NEW w \in Workers, NEW c \in Runners \X Actions, LeaveAlone(w, c)
       PROVE  StoreTypeOK' /\ JanitorTypeOK'
  <2>1. janList' \in [Workers -> SUBSET (Runners \X Actions)]
    BY <1>3, <1>11 DEF LeaveAlone, Visit, JanitorTypeOK
  <2> QED
    BY <1>3, <1>11, <2>1 DEF LeaveAlone, storeVars, StoreTypeOK, JanitorTypeOK
<1>12. ASSUME NEW w \in Workers, DetectCrashed(w)
       PROVE  StoreTypeOK' /\ JanitorTypeOK'
  <2>1. {a \in Processing : row[a].worker = w} \ janSeen[w] \subseteq Actions
    BY DEF Processing
  <2>2. /\ janPc' \in [Workers -> JanitorPc]
        /\ janActive' \in [Workers -> SUBSET Actions]
        /\ janSeen' \in [Workers -> SUBSET Actions]
    BY <1>3, <1>12, <2>1 DEF DetectCrashed, At, JanitorTypeOK, JanitorPc
  <2> QED
    BY <1>3, <1>12, <2>2 DEF DetectCrashed, storeVars, StoreTypeOK, JanitorTypeOK
<1>13. ASSUME NEW w \in Workers, NEW a \in Actions, MarkCrashed(w, a)
       PROVE  StoreTypeOK' /\ JanitorTypeOK'
  <2>1. row' \in [Actions -> Row]
    BY <1>3, <1>13, FailType DEF MarkCrashed
  <2>2. janActive' \in [Workers -> SUBSET Actions]
    BY <1>3, <1>13 DEF MarkCrashed, JanitorTypeOK
  <2> QED
    BY <1>3, <1>13, <2>1, <2>2 DEF MarkCrashed, StoreTypeOK, JanitorTypeOK
<1>14. ASSUME NEW w \in Workers, FinishPass(w)
       PROVE  StoreTypeOK' /\ JanitorTypeOK'
  BY <1>3, <1>14 DEF FinishPass, At, storeVars, StoreTypeOK, JanitorTypeOK, JanitorPc
<1> QED
  BY <1>4, <1>5, <1>6, <1>7, <1>8, <1>9, <1>10, <1>11, <1>12, <1>13, <1>14
     DEF JanitorNext, performReconciliation, Sweep

LEMMA CrashType ==
    ASSUME TypeOK, BusyHasAction, NEW w \in Workers, Crash(w)
    PROVE  TypeOK' /\ BusyHasAction'
<1>1. DispatcherTypeOK'
  BY DEF Crash, TypeOK, DispatcherTypeOK, dispatcherVars
<1>2. JanitorTypeOK'
  BY DEF Crash, StopJanitor, TypeOK, JanitorTypeOK, JanitorPc
<1>3. StoreTypeOK'
  <2>1. \A a \in Actions : job[a] \in Job /\ [job[a] EXCEPT !.st = "abandoned"] \in Job
    BY JobEdits DEF TypeOK, StoreTypeOK
  <2>2. job' \in [Actions -> Job]
    BY <2>1 DEF Crash, CrashRunner
  <2> QED BY <2>2 DEF Crash, CrashRunner, TypeOK, StoreTypeOK
<1>4. RunnerTypeOK'
  <2>1. /\ pc' \in [Workers -> RunnerPc]
        /\ cur' \in [Workers -> Actions \cup {NoAction}]
        /\ loaded' \in [Workers -> ActionState]
        /\ verdict' \in [Workers -> Verdict]
    BY VerdictHelpers
       DEF Crash, CrashRunner, TypeOK, RunnerTypeOK, RunnerPc, NoVerdict, ActionState,
           CANCELLABLE_ACTION_STATES
  <2>2. /\ activeActions' \in [Workers -> SUBSET Actions]
        /\ cancelledActions' \in [Workers -> SUBSET Actions]
        /\ activeContainers' \in [Workers -> SUBSET Actions]
        /\ lostHooks' \subseteq Actions
    BY DEF Crash, CrashRunner, TypeOK, RunnerTypeOK
  <2>3. hook' \in [Workers -> [Actions -> HookEntry]]
    <3>1. hook \in [Workers -> [Actions -> HookEntry]]
      BY DEF TypeOK, RunnerTypeOK, HookEntry
    <3> QED BY <3>1, HookEntryHelpers DEF Crash, CrashRunner
  <2> QED BY <2>1, <2>2, <2>3 DEF RunnerTypeOK, HookEntry
<1>5. BusyHasAction'
  BY DEF Crash, CrashRunner, BusyHasAction, TypeOK, RunnerTypeOK
<1> QED BY <1>1, <1>2, <1>3, <1>4, <1>5 DEF TypeOK

\* A dead consumer has an incarnation left: the bound on crashes counts them.
DownCanRestart == \A w \in Workers : ~up[w] => epoch[w] < MaxCrashes

LEMMA RestartType ==
    ASSUME TypeOK, BusyHasAction, DownCanRestart, NEW w \in Workers, Restart(w)
    PROVE  TypeOK' /\ BusyHasAction'
<1>1. DispatcherTypeOK' /\ RunnerTypeOK' /\ JanitorTypeOK' /\ BusyHasAction'
  BY DEF Restart, registerRunner, TypeOK, DispatcherTypeOK, RunnerTypeOK, JanitorTypeOK,
         dispatcherVars, runnerVars, memoryVars, janitorVars, BusyHasAction
<1>2. epoch[w] + 1 \in Epochs
  <2>1. epoch[w] \in Epochs /\ epoch[w] < MaxCrashes
    BY DEF Restart, registerRunner, TypeOK, StoreTypeOK, DownCanRestart
  <2>2. \A n \in Epochs : n < MaxCrashes => n + 1 \in Epochs
    BY StoreAssumption DEF Epochs
  <2> QED BY <2>1, <2>2
<1>3. /\ epoch' \in [Workers -> Epochs]
      /\ up' \in [Workers -> BOOLEAN]
      /\ reachable' \in [Workers -> BOOLEAN]
  <2>1. epoch' \in [Workers -> Epochs]
    BY <1>2 DEF Restart, registerRunner, TypeOK, StoreTypeOK
  <2>2. up' \in [Workers -> BOOLEAN] /\ reachable' \in [Workers -> BOOLEAN]
    BY DEF Restart, registerRunner, TypeOK, StoreTypeOK
  <2> QED BY <2>1, <2>2
<1>4. StoreTypeOK'
  BY <1>3 DEF Restart, registerRunner, TypeOK, StoreTypeOK
<1> QED BY <1>1, <1>4 DEF TypeOK

\* Only a crash and a restart change which consumers run.
LEMMA UpFrame ==
    ASSUME Next
    PROVE  UNCHANGED <<up, epoch>> \/ \E w \in Workers : Crash(w) \/ Restart(w)
<1>1. CASE StoreNext
  BY <1>1 DEF StoreNext, ContainerExit, DockerRemove, RuntimeExpires
<1>2. CASE DispatcherNext
  <2>1. ASSUME NEW a \in Actions,
               SaveAction(a) \/ DispatchNext(a) \/ Cancel(a) \/ StopNext(a) \/ DeleteAction(a)
        PROVE  UNCHANGED <<up, epoch>>
    BY <2>1 DEF SaveAction, DispatchNext, ChooseWorker, NoWorkerFound, AddJob, AddJobFails,
                RefreshAndRetry, RejectAction, Cancel, StopNext, StopRead, StopSave, StopPublish,
                DeleteAction, storeVars
  <2>2. ASSUME NEW a \in Actions, NEW s \in Diagnostics, RecordDiagnostic(a, s)
        PROVE  UNCHANGED <<up, epoch>>
    BY <2>2 DEF RecordDiagnostic
  <2>3. ASSUME HealthCheckNext
        PROVE  UNCHANGED <<up, epoch>>
    BY ZenonT(60), <2>3 DEF HealthCheckNext, DetectDeadWorker, ReadDeadJob, RemoveDeadJob, ChooseNewWorker,
                RequeueJob, RequeueLosesJob, FinishHealthCheck, OpenQueues, storeVars
  <2> QED BY <1>2, <2>1, <2>2, <2>3 DEF DispatcherNext
<1>3. CASE RunnerNext
  <2>1. ASSUME NEW w \in Workers, NEW a \in Actions,
               TakeJob(w, a) \/ DeliverCancel(w, a) \/ QueueSteps(w, a)
        PROVE  UNCHANGED <<up, epoch>>
    BY <2>1 DEF TakeJob, DeliverCancel, QueueSteps, HookRead, markJobAsCompleted,
                handleUnexpectedError, HookThrows, PromoteDelayed, StalledJob, StalledTwice,
                storeVars
  <2> QED BY <1>3, <2>1, PipelineFrame DEF RunnerNext, ProcessNext
<1>4. CASE JanitorNext
  BY <1>4 DEF JanitorNext, performReconciliation, Sweep, ListContainers, ReadActive, KillFirst,
              MarkTimedOut, MarkInterrupted, markActionAsFailed, MarkZombie, KillZombie,
              LeaveAlone, DetectCrashed, MarkCrashed, FinishPass, RunnerGoesInactive, storeVars
<1> QED BY <1>1, <1>2, <1>3, <1>4 DEF Next

\* The inductive invariant of type correctness.
TypeInv == TypeOK /\ BusyHasAction /\ DownCanRestart

LEMMA TypeInvInit == Init => TypeInv
<1> SUFFICES ASSUME Init PROVE TypeInv
  OBVIOUS
<1>1. NoJob \in Job /\ NoContainer \in Container
  BY DEF NoJob, Job, NoContainer, Container
<1>2. StoreTypeOK
  BY <1>1, AbsentRowType, StoreAssumption DEF Init, StoreInit, StoreTypeOK, Epochs
<1>3. DispatcherTypeOK
  <2>1. NoDeadJob \in DeadEntry
    BY AbsentRowType DEF NoDeadJob, DeadEntry, DeadJobPc
  <2>2. dead \in [Workers -> [Actions -> DeadEntry]]
    BY <2>1 DEF Init, DispatcherInit
  <2>3. [pc |-> "idle", entity |-> AbsentRow, n |-> 0] \in ReqEntry
    BY AbsentRowType, DispatcherAssumption DEF ReqEntry, ReqPc
  <2>4. req \in [Actions -> ReqEntry]
    BY <2>3 DEF Init, DispatcherInit
  <2>5. disp \in [Actions -> DispEntry]
    BY DEF Init, DispatcherInit, DispEntry, DispPc
  <2> QED
    BY <2>2, <2>4, <2>5
       DEF Init, DispatcherInit, DispatcherTypeOK, DispEntry, ReqEntry, DeadEntry
<1>4. RunnerTypeOK
  <2>1. hook \in [Workers -> [Actions -> HookEntry]]
    BY HookEntryHelpers DEF Init, RunnerInit
  <2> QED
    BY <2>1, VerdictHelpers
       DEF Init, RunnerInit, RunnerTypeOK, HookEntry, RunnerPc, NoVerdict, ActionState,
           CANCELLABLE_ACTION_STATES
<1>5. JanitorTypeOK
  BY DEF Init, JanitorInit, JanitorTypeOK, JanitorPc
<1>6. BusyHasAction /\ DownCanRestart
  BY DEF Init, RunnerInit, StoreInit, BusyHasAction, DownCanRestart
<1> QED BY <1>2, <1>3, <1>4, <1>5, <1>6 DEF TypeInv, TypeOK

LEMMA TypeInvStep == TypeInv /\ [Next]_vars => TypeInv'
<1> SUFFICES ASSUME TypeInv, [Next]_vars PROVE TypeInv'
  OBVIOUS
<1>1. TypeOK' /\ BusyHasAction'
  <2>1. CASE StoreNext /\ UNCHANGED <<dispatcherVars, runnerVars, janitorVars>>
    BY <2>1, StoreType DEF TypeInv, BusyHasAction, runnerVars
  <2>2. CASE DispatcherNext /\ UNCHANGED <<runnerVars, janitorVars>>
    BY <2>2, DispatcherType DEF TypeInv, BusyHasAction, runnerVars
  <2>3. CASE RunnerNext /\ UNCHANGED <<dispatcherVars, janitorVars>>
    BY <2>3, RunnerType DEF TypeInv
  <2>4. CASE JanitorNext /\ UNCHANGED <<dispatcherVars, runnerVars>>
    BY <2>4, JanitorType DEF TypeInv, BusyHasAction, runnerVars
  <2>5. CASE \E w \in Workers : Crash(w) \/ Restart(w)
    BY <2>5, CrashType, RestartType DEF TypeInv
  <2>6. CASE UNCHANGED vars
    BY <2>6
       DEF TypeInv, TypeOK, StoreTypeOK, DispatcherTypeOK, RunnerTypeOK, JanitorTypeOK,
           BusyHasAction, vars, storeVars, dispatcherVars, runnerVars, memoryVars, janitorVars
  <2> QED BY <2>1, <2>2, <2>3, <2>4, <2>5, <2>6 DEF Next
<1>2. DownCanRestart'
  <2>1. TypeOK /\ DownCanRestart
    BY DEF TypeInv
  <2>2. ASSUME NEW w \in Workers, Crash(w) \/ Restart(w)
        PROVE  DownCanRestart'
    BY <2>1, <2>2
       DEF Crash, CrashRunner, Restart, registerRunner, DownCanRestart, TypeOK, StoreTypeOK
  <2>3. CASE UNCHANGED <<up, epoch>>
    BY <2>1, <2>3 DEF DownCanRestart
  <2>4. CASE UNCHANGED vars
    BY <2>3, <2>4 DEF vars, storeVars
  <2> QED BY <2>2, <2>3, <2>4, UpFrame
<1> QED BY <1>1, <1>2 DEF TypeInv

\* Every variable keeps its type, for every number of actions, workers, crashes
\* and requests: the api-server, the consumers and the janitor never write a row,
\* a job or a container of a shape the others do not know.
THEOREM TypeCorrect == Spec => []TypeOK
<1>1. Spec => []TypeInv
  BY TypeInvInit, TypeInvStep, PTL DEF Spec
<1>2. TypeInv => TypeOK
  BY DEF TypeInv
<1> QED BY <1>1, <1>2, PTL
=============================================================================
