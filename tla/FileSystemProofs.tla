--------------------------- MODULE FileSystemProofs ---------------------------
(***************************************************************************)
(* Theorems about FileSystem, for every number of files, jobs, requests,   *)
(* slots and crashes: type correctness; that the saves of entities read    *)
(* earlier can neither revive a deleted file nor, unless they are out of   *)
(* date, undo a confirmation or a cancellation; that an ingestion job has  *)
(* somebody to process it; that a file which is OK has its object; and     *)
(* that a job completes with a verdict on its file.                        *)
(***************************************************************************)
EXTENDS FileSystem, TLAPS

\* A row that exists has a name.
NameInv == \A f \in Ids : file[f].row # "none" => file[f].name \in Names

StoreInv == FileStoreTypeOK /\ NameInv

\* No step takes a row back to before its insertion, or revives a deleted one: it
\* may only be removed for good.
RowsKept ==
    \A f \in Ids : /\ file[f].row # "none" => file'[f].row # "none"
                   /\ file[f].row = "deleted" => file'[f].row \in {"deleted", "gone"}

FileMoves == file' \in [Ids -> FileRow] /\ NameInv' /\ RowsKept

-----------------------------------------------------------------------------
(* The statements on the tables.                                           *)

LEMMA EnumFacts ==
    /\ \A s \in DOMAIN QueueState : QueueState[s] \in QueueStates
    /\ DOMAIN QueueState = {"AWAITING_UPLOAD", "AWAITING_PROCESSING", "PROCESSING",
            "DOWNLOADING", "CONVERTING_AND_EXTRACTING_TOPICS", "UPLOADING", "COMPLETED",
            "ERROR", "CORRUPTED", "CANCELED"}
<1>1. DOMAIN QueueState = {"AWAITING_UPLOAD", "AWAITING_PROCESSING", "PROCESSING",
            "DOWNLOADING", "CONVERTING_AND_EXTRACTING_TOPICS", "UPLOADING", "COMPLETED",
            "ERROR", "CORRUPTED", "CANCELED"}
  BY DEF QueueState
<1>2. \A s \in DOMAIN QueueState : QueueState[s] \in QueueStates
  BY DEF QueueStates
<1> QED BY <1>1, <1>2

LEMMA StatesOfJobs ==
    /\ QueueState.AWAITING_UPLOAD \in QueueStates
    /\ QueueState.AWAITING_PROCESSING \in QueueStates
    /\ QueueState.PROCESSING \in QueueStates
    /\ QueueState.DOWNLOADING \in QueueStates
    /\ QueueState.CONVERTING_AND_EXTRACTING_TOPICS \in QueueStates
    /\ QueueState.UPLOADING \in QueueStates
    /\ QueueState.COMPLETED \in QueueStates
    /\ QueueState.ERROR \in QueueStates
    /\ QueueState.CORRUPTED \in QueueStates
    /\ QueueState.CANCELED \in QueueStates
  BY EnumFacts

LEMMA EntityIsEntity ==
    ASSUME NEW f \in Ids, file \in [Ids -> FileRow]
    PROVE  EntityOf(f) \in Entity
<1>1. file[f] \in FileRow OBVIOUS
<1> QED BY <1>1 DEF EntityOf, Entity, FileRow

\* A table that changes in one row only.
LEMMA OneRow ==
    ASSUME file \in [Ids -> FileRow], NameInv, NEW f \in Ids, NEW new \in FileRow,
           file' = [file EXCEPT ![f] = new],
           file[f].row # "none" => new.row # "none",
           file[f].row = "deleted" => new.row \in {"deleted", "gone"},
           new.row # "none" => new.name \in Names
    PROVE  FileMoves
  BY DEF FileMoves, NameInv, RowsKept

LEMMA SavedRow ==
    ASSUME NEW f \in Ids, file \in [Ids -> FileRow], NEW entity \in Entity
    PROVE  /\ Saved(f, entity) \in FileRow
           /\ Saved(f, entity).row = file[f].row
           /\ Saved(f, entity).name = file[f].name
           /\ Saved(f, entity).state = entity.state
           /\ Saved(f, entity).hash = entity.hash
<1>1. file[f] \in FileRow OBVIOUS
<1> QED BY <1>1 DEF Saved, FileRow, Entity

LEMMA SoftDeletedRow ==
    ASSUME NEW f \in Ids, file \in [Ids -> FileRow]
    PROVE  /\ SoftDeleted(file[f]) \in FileRow
           /\ file[f].row # "none" => SoftDeleted(file[f]).row # "none"
           /\ file[f].row = "none" => SoftDeleted(file[f]).row = "none"
           /\ file[f].row = "deleted" => SoftDeleted(file[f]).row = "deleted"
           /\ SoftDeleted(file[f]).name = file[f].name
           /\ SoftDeleted(file[f]).state = file[f].state
           /\ SoftDeleted(file[f]).hash = file[f].hash
<1>1. file[f] \in FileRow OBVIOUS
<1> QED BY <1>1 DEF SoftDeleted, FileRow, Presence

LEMMA SaveFileMoves ==
    ASSUME file \in [Ids -> FileRow], NameInv, NEW f, NEW entity \in Entity,
           SaveFile(f, entity)
    PROVE  FileMoves
<1>1. CASE f \in Ids
  BY <1>1, SavedRow, OneRow DEF SaveFile, NameInv
<1>2. CASE f \notin Ids
  BY <1>2 DEF SaveFile, FileMoves, NameInv, RowsKept
<1> QED BY <1>1, <1>2

LEMMA SaveCreatedMoves ==
    ASSUME file \in [Ids -> FileRow], NameInv, NEW f, NEW entity \in Entity,
           SaveCreated(f, entity)
    PROVE  FileMoves
<1>1. CASE f \in Ids
  <2> DEFINE new == [Saved(f, entity) EXCEPT !.row = IF @ = "gone" THEN "live" ELSE @]
  <2>1. Saved(f, entity) \in FileRow /\ Saved(f, entity).row = file[f].row
        /\ Saved(f, entity).name = file[f].name
    BY <1>1, SavedRow
  <2>2. /\ new \in FileRow /\ new.name = file[f].name
        /\ new.row = IF file[f].row = "gone" THEN "live" ELSE file[f].row
    BY <2>1 DEF FileRow, Presence
  <2>3. file' = [file EXCEPT ![f] = new]
    BY DEF SaveCreated
  <2> HIDE DEF new
  <2> QED BY <1>1, <2>2, <2>3, OneRow DEF NameInv
<1>2. CASE f \notin Ids
  BY <1>2 DEF SaveCreated, FileMoves, NameInv, RowsKept
<1> QED BY <1>1, <1>2

LEMMA InsertFileMoves ==
    ASSUME file \in [Ids -> FileRow], NameInv, NEW f, NEW name \in Names,
           NEW state \in FileState, NEW hash \in {"null", "empty", "md5"},
           InsertFile(f, name, state, hash)
    PROVE  FileMoves /\ f \in Ids /\ file'[f].row = "live"
<1> DEFINE new == [row |-> "live", name |-> name, state |-> state, hash |-> hash, old |-> FALSE]
<1>1. new \in FileRow /\ new.row = "live" /\ new.name \in Names
  BY DEF FileRow, Presence
<1>2. f \in Ids /\ file[f].row = "none" /\ file' = [file EXCEPT ![f] = new]
  BY DEF InsertFile, FreshFiles
<1> HIDE DEF new
<1>3. FileMoves
  BY <1>1, <1>2, OneRow
<1> QED BY <1>1, <1>2, <1>3

\* A statement that soft-deletes some rows.
LEMMA SoftDeleteMoves ==
    ASSUME file \in [Ids -> FileRow], NameInv, NEW ids,
           file' = [f \in Ids |-> IF f \in ids THEN SoftDeleted(file[f]) ELSE file[f]]
    PROVE  FileMoves
<1>1. \A f \in Ids : file'[f] = IF f \in ids THEN SoftDeleted(file[f]) ELSE file[f]
  OBVIOUS
<1>2. file' \in [Ids -> FileRow]
  BY SoftDeletedRow
<1>3. ASSUME NEW f \in Ids
      PROVE  /\ file[f].row # "none" => file'[f].row # "none"
             /\ file[f].row = "deleted" => file'[f].row = "deleted"
             /\ file'[f].row # "none" => file'[f].name \in Names
  BY <1>1, SoftDeletedRow DEF NameInv
<1> QED BY <1>2, <1>3 DEF FileMoves, NameInv, RowsKept

LEMMA RemovedRow ==
    ASSUME NEW f \in Ids, file \in [Ids -> FileRow]
    PROVE  /\ Removed(file[f]) \in FileRow
           /\ Removed(file[f]).row = file[f].row \/ Removed(file[f]).row = "gone"
           /\ file[f].row = "none" <=> Removed(file[f]).row = "none"
           /\ Removed(file[f]).row # "live"
           /\ Removed(file[f]).name = file[f].name
           /\ Removed(file[f]).state = file[f].state
           /\ Removed(file[f]).hash = file[f].hash
<1>1. file[f] \in FileRow OBVIOUS
<1> QED BY <1>1 DEF Removed, FileRow, Presence

\* A statement that removes some rows.
LEMMA RemoveMoves ==
    ASSUME file \in [Ids -> FileRow], NameInv, NEW ids,
           file' = [f \in Ids |-> IF f \in ids THEN Removed(file[f]) ELSE file[f]]
    PROVE  FileMoves
<1>1. \A f \in Ids : file'[f] = IF f \in ids THEN Removed(file[f]) ELSE file[f]
  OBVIOUS
<1>2. file' \in [Ids -> FileRow]
  BY RemovedRow
<1>3. ASSUME NEW f \in Ids
      PROVE  /\ file[f].row # "none" => file'[f].row # "none"
             /\ file[f].row = "deleted" => file'[f].row \in {"deleted", "gone"}
             /\ file'[f].row # "none" => file'[f].name \in Names
  BY <1>1, RemovedRow DEF NameInv
<1> QED BY <1>2, <1>3 DEF FileMoves, NameInv, RowsKept

LEMMA CancelMoves ==
    ASSUME file \in [Ids -> FileRow], NameInv, NEW ids, file' = CanceledIfUploading(ids)
    PROVE  FileMoves
<1> DEFINE new(f) == [file[f] EXCEPT !.state = "CANCELED", !.old = FALSE]
<1>1. \A f \in Ids : new(f) \in FileRow /\ new(f).row = file[f].row /\ new(f).name = file[f].name
  <2> TAKE f \in Ids
  <2>1. file[f] \in FileRow OBVIOUS
  <2> QED BY <2>1 DEF FileRow, FileState
<1>2. \A f \in Ids : file'[f] = new(f) \/ file'[f] = file[f]
  BY DEF CanceledIfUploading
<1>3. file' \in [Ids -> FileRow]
  <2>1. file' = [f \in Ids |-> IF f \in ids /\ file[f].state = "UPLOADING" THEN new(f) ELSE file[f]]
    BY DEF CanceledIfUploading
  <2> HIDE DEF new
  <2> QED BY <1>1, <2>1
<1> HIDE DEF new
<1> QED BY <1>1, <1>2, <1>3 DEF FileMoves, NameInv, RowsKept

LEMMA SaveJobType ==
    ASSUME job \in [JobIds -> JobRow], NEW j, NEW state \in QueueStates, SaveJob(j, state)
    PROVE  job' \in [JobIds -> JobRow]
<1>1. CASE j \in JobIds
  <2> DEFINE new == [job[j] EXCEPT !.state = state, !.old = FALSE,
                                   !.row = IF @ = "gone" THEN "live" ELSE @]
  <2>1. job[j] \in JobRow BY <1>1
  <2>2. new \in JobRow BY <2>1 DEF JobRow, Presence
  <2>3. job' = [job EXCEPT ![j] = new] BY <1>1 DEF SaveJob, JobRow
  <2> HIDE DEF new
  <2> QED BY <1>1, <2>2, <2>3
<1>2. CASE j \notin JobIds
  BY <1>2 DEF SaveJob
<1> QED BY <1>1, <1>2

LEMMA InsertJobType ==
    ASSUME job \in [JobIds -> JobRow], NEW j, NEW of \in Ids \cup {NoId},
           NEW state \in QueueStates, InsertJob(j, of, state)
    PROVE  job' \in [JobIds -> JobRow] /\ j \in JobIds
  BY DEF InsertJob, FreshJobs, JobRow, Presence

LEMMA SoftDeleteJobsType ==
    ASSUME job \in [JobIds -> JobRow], NEW ids, SoftDeleteJobs(ids)
    PROVE  job' \in [JobIds -> JobRow]
<1>1. \A j \in JobIds : SoftDeleted(job[j]) \in JobRow
  <2> TAKE j \in JobIds
  <2>1. job[j] \in JobRow OBVIOUS
  <2> QED BY <2>1 DEF SoftDeleted, JobRow, Presence
<1> QED BY <1>1 DEF SoftDeleteJobs

LEMMA WaitingType ==
    ASSUME waiting \in [JobIds -> Nat], NEW j, Enqueue(j) \/ RemoveWaiting(j)
    PROVE  waiting' \in [JobIds -> Nat]
<1>1. CASE j \notin JobIds
  BY <1>1 DEF Enqueue, RemoveWaiting
<1>2. CASE j \in JobIds
  <2>1. waiting[j] \in Nat /\ waiting[j] + 1 \in Nat
    BY <1>2
  <2>2. waiting[j] # 0 => waiting[j] - 1 \in Nat
    BY <2>1
  <2>3. ASSUME NEW n \in Nat, waiting' = [waiting EXCEPT ![j] = n]
        PROVE  waiting' \in [JobIds -> Nat]
    BY <2>3
  <2>4. CASE Enqueue(j)
    <3>1. waiting' = [waiting EXCEPT ![j] = waiting[j] + 1]
      BY <2>4 DEF Enqueue
    <3> QED BY <2>1, <2>3, <3>1
  <2>5. CASE RemoveWaiting(j)
    <3>1. waiting' = [waiting EXCEPT ![j] = IF waiting[j] = 0 THEN 0 ELSE waiting[j] - 1]
      BY <2>5 DEF RemoveWaiting
    <3>2. (IF waiting[j] = 0 THEN 0 ELSE waiting[j] - 1) \in Nat
      BY <2>1, <2>2
    <3> QED BY <2>3, <3>1, <3>2
  <2> QED BY <2>4, <2>5
<1> QED BY <1>1, <1>2

-----------------------------------------------------------------------------
(* The local variables of the requests.                                    *)

\* What a request knows at the awaits it has come to.
GoodRequest(e) ==
    /\ e.pc \in {"stat", "saveFile", "saveJob", "enqueue", "dequeue", "removeJob",
                 "unqueue", "canceled", "stop"} => e.job \in JobIds
    /\ e.pc \in {"findJob", "stat", "saveFile"} => e.seen.state # "CANCELED"
    /\ e.pc = "cancel" => e.seen.state # "OK"

RequestInv == \A r \in Requests : GoodRequest(req[r])

RequestsOK == FileRequestsTypeOK /\ RequestInv

LEMMA RequestSet ==
    ASSUME RequestsOK, NEW r \in Requests, NEW e \in Request, GoodRequest(e),
           req' = [req EXCEPT ![r] = e],
           served' \in 0..MaxRequests, abandoned' \subseteq Ids \cup JobIds
    PROVE  RequestsOK'
<1>1. req \in [Requests -> Request]
  BY DEF RequestsOK, FileRequestsTypeOK
<1>2. req' \in [Requests -> Request]
  BY <1>1
<1>3. \A q \in Requests : req'[q] = IF q = r THEN e ELSE req[q]
  BY <1>1
<1>4. \A q \in Requests : GoodRequest(req'[q])
  BY <1>3 DEF RequestsOK, RequestInv
<1>5. RequestInv'
  BY <1>4 DEF RequestInv, GoodRequest
<1> QED BY <1>2, <1>5 DEF RequestsOK, FileRequestsTypeOK

LEMMA NoRequestGood == NoRequest \in Request /\ GoodRequest(NoRequest)
  BY DEF NoRequest, Request, GoodRequest, ReqPc, NoEntity, Entity, FileState

LEMMA AnswerLocals ==
    ASSUME RequestsOK, NEW r \in Requests, Answer(r)
    PROVE  RequestsOK'
  BY NoRequestGood, RequestSet DEF Answer, RequestsOK, FileRequestsTypeOK

LEMMA GotoLocals ==
    ASSUME RequestsOK, NEW r \in Requests, NEW pc \in ReqPc, Goto(r, pc),
           GoodRequest([req[r] EXCEPT !.pc = pc])
    PROVE  RequestsOK'
<1>1. req \in [Requests -> Request] /\ req[r] \in Request
  BY DEF RequestsOK, FileRequestsTypeOK
<1>2. [req[r] EXCEPT !.pc = pc] \in Request
  BY <1>1 DEF Request
<1>3. req' = [req EXCEPT ![r] = [req[r] EXCEPT !.pc = pc]]
  BY DEF Goto
<1> QED BY <1>2, <1>3, RequestSet DEF Goto, RequestsOK, FileRequestsTypeOK

LEMMA BeginLocals ==
    ASSUME RequestsOK, NEW r \in Requests, NEW kind, NEW locals \in Request,
           GoodRequest(locals), Begin(r, kind, locals)
    PROVE  RequestsOK'
<1>1. served' \in 0..MaxRequests
  BY FileRequestsAssumption DEF Begin, RequestsOK, FileRequestsTypeOK
<1> QED BY <1>1, RequestSet DEF Begin, RequestsOK, FileRequestsTypeOK

LEMMA BeginOnLocals ==
    ASSUME RequestsOK, file \in [Ids -> FileRow], NEW r \in Requests, NEW kind,
           NEW pc \in {"findJob", "cancel", "edit", "delete"}, NEW f \in Ids,
           BeginOn(r, kind, pc, f),
           pc = "findJob" => file[f].state # "CANCELED",
           pc = "cancel" => file[f].state # "OK"
    PROVE  RequestsOK'
<1> DEFINE e == [NoRequest EXCEPT !.pc = pc, !.on = {f}, !.seen = EntityOf(f)]
<1>1. EntityOf(f) \in Entity /\ EntityOf(f).state = file[f].state
  BY EntityIsEntity DEF EntityOf
<1>2. e \in Request
  BY <1>1, NoRequestGood DEF Request, ReqPc
<1>3. GoodRequest(e)
  BY <1>1, NoRequestGood DEF GoodRequest, Request
<1>4. Begin(r, kind, e)
  BY DEF BeginOn
<1> HIDE DEF e
<1> QED BY <1>2, <1>3, <1>4, BeginLocals

LEMMA BeginJobLocals ==
    ASSUME RequestsOK, NEW r \in Requests, NEW kind, NEW j \in JobIds,
           NEW pc \in {"enqueue", "dequeue", "unqueue", "stop"}, BeginJob(r, kind, pc, j)
    PROVE  RequestsOK'
<1> DEFINE e == [NoRequest EXCEPT !.pc = pc, !.job = j]
<1>1. e \in Request /\ GoodRequest(e)
  BY NoRequestGood DEF Request, ReqPc, GoodRequest
<1>2. Begin(r, kind, e)
  BY DEF BeginJob
<1> HIDE DEF e
<1> QED BY <1>1, <1>2, BeginLocals

\* Every step of a request leaves its local variables in order.
LEMMA RequestLocals ==
    ASSUME StoreInv, RequestsOK, NEW r \in Requests,
           Receive(r) \/ Continue(r) \/ IssueFails(r) \/ RequestFails(r)
    PROVE  RequestsOK'
<1> USE DEF StoreInv, FileStoreTypeOK
<1>1. file \in [Ids -> FileRow] /\ job \in [JobIds -> JobRow]
  OBVIOUS
<1>2. req[r] \in Request /\ GoodRequest(req[r])
  BY DEF RequestsOK, FileRequestsTypeOK, RequestInv
<1>3. CASE Answer(r)
  BY <1>3, AnswerLocals
<1>4. ASSUME ReadExisting(r) PROVE RequestsOK'
  <2> PICK names \in SUBSET (Bases \X UploadTypes) \ {{}} :
        Begin(r, "reserve", [NoRequest EXCEPT !.pc = "reserve", !.names = names,
                                              !.on = Named(names)])
    BY <1>4 DEF ReadExisting
  <2>1. names \in SUBSET Names /\ Named(names) \in SUBSET Ids
    BY FileRequestsAssumption DEF Names, Named
  <2> DEFINE e == [NoRequest EXCEPT !.pc = "reserve", !.names = names, !.on = Named(names)]
  <2>2. e \in Request /\ GoodRequest(e)
    BY <2>1, NoRequestGood DEF Request, GoodRequest, ReqPc
  <2> HIDE DEF e
  <2> QED BY <2>2, BeginLocals DEF e
<1>5. ASSUME ConfirmUpload(r) PROVE RequestsOK'
  BY <1>1, <1>5, BeginOnLocals DEF ConfirmUpload
<1>6. ASSUME CancelUpload(r) PROVE RequestsOK'
  BY <1>1, <1>6, BeginOnLocals DEF CancelUpload
<1>7. ASSUME EditFile(r) \/ DeleteObject(r) PROVE RequestsOK'
  BY <1>1, <1>7, BeginOnLocals DEF EditFile, DeleteObject
<1>8. ASSUME DeleteObjects(r) PROVE RequestsOK'
  <2> PICK ids \in SUBSET Ids :
        Begin(r, "deleteMany", [NoRequest EXCEPT !.pc = "deleteMany", !.on = ids])
    BY <1>8 DEF DeleteObjects
  <2> DEFINE e == [NoRequest EXCEPT !.pc = "deleteMany", !.on = ids]
  <2>2. e \in Request /\ GoodRequest(e)
    BY NoRequestGood DEF Request, GoodRequest, ReqPc
  <2> HIDE DEF e
  <2> QED BY <2>2, BeginLocals DEF e
<1>9. ASSUME ImportFromDrive(r) PROVE RequestsOK'
  BY <1>9, BeginJobLocals DEF ImportFromDrive
<1>10. ASSUME QueueDelete(r) \/ CancelProcessing(r) \/ StopJob(r) PROVE RequestsOK'
  BY <1>10, BeginJobLocals DEF QueueDelete, CancelProcessing, StopJob
<1>11. ASSUME Reserve(r) PROVE RequestsOK'
  <2> PICK ids \in SUBSET FreshFiles :
        req' = [req EXCEPT ![r].pc = "issue", ![r].names = {}, ![r].on = @ \cup ids]
    BY <1>11 DEF Reserve
  <2> DEFINE e == [req[r] EXCEPT !.pc = "issue", !.names = {}, !.on = @ \cup ids]
  <2>1. ids \subseteq Ids
    BY DEF FreshFiles
  <2>2. e \in Request /\ GoodRequest(e)
    BY <1>2, <2>1 DEF Request, GoodRequest, ReqPc
  <2>3. req' = [req EXCEPT ![r] = e]
    BY DEF RequestsOK, FileRequestsTypeOK
  <2>4. UNCHANGED <<served, abandoned>>
    BY <1>11 DEF Reserve
  <2> HIDE DEF e
  <2> QED BY <2>2, <2>3, <2>4, RequestSet DEF RequestsOK, FileRequestsTypeOK
<1>12. ASSUME FindJob(r) PROVE RequestsOK'
  <2> PICK j \in JobIds : \/ Answer(r)
                          \/ /\ req' = [req EXCEPT ![r].pc = "stat", ![r].job = j]
                             /\ UNCHANGED <<served, abandoned>>
    BY <1>12 DEF FindJob
  <2>1. ASSUME req' = [req EXCEPT ![r].pc = "stat", ![r].job = j],
               UNCHANGED <<served, abandoned>>
        PROVE  RequestsOK'
    <3> DEFINE e == [req[r] EXCEPT !.pc = "stat", !.job = j]
    <3>1. At(r, "findJob") BY <1>12 DEF FindJob
    <3>2. e \in Request /\ GoodRequest(e)
      BY <1>2, <3>1 DEF Request, GoodRequest, ReqPc, At
    <3>3. req' = [req EXCEPT ![r] = e]
      BY <2>1 DEF RequestsOK, FileRequestsTypeOK
    <3> HIDE DEF e
    <3> QED BY <2>1, <3>2, <3>3, RequestSet DEF RequestsOK, FileRequestsTypeOK
  <2> QED BY <2>1, <1>3
<1>13. ASSUME NEW from \in ReqPc, NEW to \in ReqPc, At(r, from), Goto(r, to),
              <<from, to>> \in {<<"stat", "saveFile">>, <<"saveFile", "saveJob">>,
                  <<"saveJob", "enqueue">>, <<"dequeue", "removeJob">>, <<"unqueue", "canceled">>,
                  <<"findFile", "removeObject">>, <<"removeObject", "removeFile">>}
       PROVE  RequestsOK'
  <2>1. GoodRequest([req[r] EXCEPT !.pc = to])
    BY <1>2, <1>13 DEF GoodRequest, At, Request
  <2> QED BY <1>13, <2>1, GotoLocals
<1> USE DEF ReqPc
<1>14. ASSUME StatObject(r) PROVE RequestsOK'
  BY <1>3, <1>13, <1>14 DEF StatObject
<1>15. ASSUME ConfirmFile(r) PROVE RequestsOK'
  BY <1>3, <1>13, <1>15 DEF ConfirmFile
<1>16. ASSUME ConfirmJob(r) PROVE RequestsOK'
  BY <1>13, <1>16 DEF ConfirmJob
<1>17. ASSUME QueueDequeue(r) \/ CancelDequeue(r) PROVE RequestsOK'
  BY <1>13, <1>17 DEF QueueDequeue, CancelDequeue
<1>23. ASSUME QueueFindFile(r) \/ QueueRemoveObject(r) PROVE RequestsOK'
  BY <1>3, <1>13, <1>23 DEF QueueFindFile, QueueRemoveObject
<1>18. ASSUME QueueRemoveJob(r) PROVE RequestsOK'
  <2>1. req[r].job \in JobIds
    BY <1>2, <1>18 DEF QueueRemoveJob, GoodRequest, At
  <2>2. CASE job[req[r].job].of = NoId
    BY <1>3, <1>18, <2>2 DEF QueueRemoveJob
  <2>3. CASE job[req[r].job].of # NoId
    <3> DEFINE e == [NoRequest EXCEPT !.pc = "findFile", !.on = {job[req[r].job].of}]
    <3>1. job[req[r].job] \in JobRow BY <1>1, <2>1
    <3>2. job[req[r].job].of \in Ids BY <2>3, <3>1 DEF JobRow
    <3>3. e \in Request /\ GoodRequest(e)
      BY <3>2, NoRequestGood DEF Request, GoodRequest
    <3>4. req' = [req EXCEPT ![r] = e] /\ UNCHANGED <<served, abandoned>>
      BY <1>18, <2>3 DEF QueueRemoveJob
    <3> HIDE DEF e
    <3> QED BY <3>3, <3>4, RequestSet DEF RequestsOK, FileRequestsTypeOK
  <2> QED BY <2>2, <2>3
<1>19. ASSUME RequestFails(r) PROVE RequestsOK'
  <2>1. HalfDone(r) \subseteq Ids \cup JobIds
    BY <1>2 DEF HalfDone, GoodRequest, Request
  <2> QED BY <1>19, <2>1, NoRequestGood, RequestSet
          DEF RequestFails, RequestsOK, FileRequestsTypeOK
<1>20. ASSUME \/ ReserveConflict(r) \/ IssueCredentials(r) \/ IssueFails(r) \/ EnqueueJob(r)
              \/ CancelSave(r) \/ EditSave(r) \/ SoftRemoveFile(r) \/ DeleteMultiple(r)
              \/ QueueRemoveFile(r) \/ CancelSaveJob(r) \/ StopSave(r)
       PROVE  RequestsOK'
  BY <1>3, <1>20 DEF ReserveConflict, IssueCredentials, IssueFails, EnqueueJob, CancelSave,
     EditSave, SoftRemoveFile, DeleteMultiple, QueueRemoveFile, CancelSaveJob, StopSave
<1>21. CASE Receive(r)
  BY <1>4, <1>5, <1>6, <1>7, <1>8, <1>9, <1>10, <1>21 DEF Receive
<1>22. CASE Continue(r)
  BY <1>11, <1>12, <1>14, <1>15, <1>16, <1>17, <1>18, <1>20, <1>22, <1>23 DEF Continue
<1> QED BY <1>19, <1>20, <1>21, <1>22

-----------------------------------------------------------------------------
(* The tables under the steps of the requests.                             *)

StoreMoves ==
    /\ FileMoves
    /\ object' \subseteq Ids /\ credentials' \subseteq Ids
    /\ job' \in [JobIds -> JobRow] /\ waiting' \in [JobIds -> Nat]

LEMMA FileUnchanged ==
    ASSUME file \in [Ids -> FileRow], NameInv, UNCHANGED file
    PROVE  FileMoves
  BY DEF FileMoves, NameInv, RowsKept

LEMMA StoreUnchanged ==
    ASSUME StoreInv, UNCHANGED fileStoreVars
    PROVE  StoreMoves
<1>1. UNCHANGED <<file, object, credentials, job, waiting>>
  BY DEF fileStoreVars
<1> QED BY <1>1, FileUnchanged DEF StoreInv, FileStoreTypeOK, StoreMoves

\* What a transaction of getTemporaryAccess leaves.
LEMMA ReserveMoves ==
    ASSUME file \in [Ids -> FileRow], NameInv, RequestsOK, NEW r \in Requests, Reserve(r)
    PROVE  FileMoves
<1>0. PICK ids \in SUBSET FreshFiles : \E nameOf \in [ids -> NewNames(r)] :
        file' = [f \in Ids |-> ReservedRow(f, req[r].on, ids, nameOf)]
  BY DEF Reserve
<1>1. PICK nameOf \in [ids -> NewNames(r)] :
        file' = [f \in Ids |-> ReservedRow(f, req[r].on, ids, nameOf)]
  BY <1>0
<1>2. NewNames(r) \subseteq Names
  BY DEF NewNames, RequestsOK, FileRequestsTypeOK, Request
<1>3. ReservedEntity \in Entity
  BY DEF ReservedEntity, Entity, FileState
<1>4. ASSUME NEW f \in Ids
      PROVE  LET new == ReservedRow(f, req[r].on, ids, nameOf) IN
             /\ new \in FileRow
             /\ file[f].row # "none" => new.row # "none"
             /\ file[f].row = "deleted" => new.row = "deleted"
             /\ new.row # "none" => new.name \in Names
  <2>1. CASE f \in req[r].on
    BY <1>3, <2>1, SavedRow DEF ReservedRow, NameInv
  <2>2. CASE f \notin req[r].on /\ f \in ids
    <3>1. nameOf[f] \in Names
      BY <1>1, <1>2, <2>2
    <3>2. file[f].row = "none"
      BY <2>2 DEF FreshFiles
    <3> QED BY <2>2, <3>1, <3>2 DEF ReservedRow, FileRow, FileState, Presence
  <2>3. CASE f \notin req[r].on /\ f \notin ids
    BY <2>3 DEF ReservedRow, NameInv
  <2> QED BY <2>1, <2>2, <2>3
<1>5. file' \in [Ids -> FileRow]
  BY <1>1, <1>4
<1>6. \A f \in Ids : file'[f] = ReservedRow(f, req[r].on, ids, nameOf)
  BY <1>1
<1> QED BY <1>4, <1>5, <1>6 DEF FileMoves, NameInv, RowsKept

LEMMA RequestStores ==
    ASSUME StoreInv, RequestsOK, NEW r \in Requests,
           Receive(r) \/ Continue(r) \/ IssueFails(r) \/ RequestFails(r)
    PROVE  StoreMoves
<1>1. /\ file \in [Ids -> FileRow] /\ NameInv /\ job \in [JobIds -> JobRow]
      /\ object \subseteq Ids /\ credentials \subseteq Ids /\ waiting \in [JobIds -> Nat]
  BY DEF StoreInv, FileStoreTypeOK
<1>2. req[r] \in Request /\ GoodRequest(req[r])
  BY DEF RequestsOK, FileRequestsTypeOK, RequestInv
<1>3. req[r].seen \in Entity /\ req[r].on \subseteq Ids
  BY <1>2 DEF Request
<1>4. CASE UNCHANGED fileStoreVars
  BY <1>4, StoreUnchanged
<1>5. ASSUME FileMoves, UNCHANGED <<object, credentials, job, waiting>>
      PROVE  StoreMoves
  BY <1>1, <1>5 DEF StoreMoves
<1>6. ASSUME UNCHANGED file, job' \in [JobIds -> JobRow], UNCHANGED <<object, credentials, waiting>>
      PROVE  StoreMoves
  BY <1>1, <1>6, FileUnchanged DEF StoreMoves
<1>7. ASSUME UNCHANGED file, waiting' \in [JobIds -> Nat], UNCHANGED <<object, credentials, job>>
      PROVE  StoreMoves
  BY <1>1, <1>7, FileUnchanged DEF StoreMoves
<1>8. ASSUME UNCHANGED file, object' \subseteq Ids, credentials' \subseteq Ids,
             UNCHANGED <<job, waiting>>
      PROVE  StoreMoves
  BY <1>1, <1>8, FileUnchanged DEF StoreMoves
<1>9. ASSUME NEW f, NEW entity \in Entity, SaveFile(f, entity) \/ UNCHANGED file
      PROVE  FileMoves
  BY <1>1, <1>9, SaveFileMoves, FileUnchanged
<1>10. ASSUME NEW f, NEW state \in QueueStates, SaveJob(f, state) \/ UNCHANGED job
       PROVE  job' \in [JobIds -> JobRow]
  BY <1>1, <1>10, SaveJobType
<1>11. ASSUME Receive(r) PROVE StoreMoves
  <2>1. CASE \/ ReadExisting(r) \/ ConfirmUpload(r) \/ CancelUpload(r) \/ EditFile(r)
             \/ QueueDelete(r) \/ CancelProcessing(r) \/ StopJob(r)
    BY <1>4, <2>1 DEF ReadExisting, ConfirmUpload, CancelUpload, EditFile, QueueDelete,
       CancelProcessing, StopJob
  <2>2. CASE DeleteObject(r) \/ DeleteObjects(r)
    BY <1>1, <1>8, <2>2 DEF DeleteObject, DeleteObjects
  <2>3. CASE ImportFromDrive(r)
    <3> PICK j \in JobIds : InsertJob(j, NoId, QueueState.AWAITING_PROCESSING)
      BY <2>3 DEF ImportFromDrive
    <3>1. job' \in [JobIds -> JobRow]
      BY <1>1, InsertJobType, StatesOfJobs
    <3> QED BY <1>6, <2>3, <3>1 DEF ImportFromDrive
  <2> QED BY <1>11, <2>1, <2>2, <2>3 DEF Receive
<1>12. ASSUME Continue(r) PROVE StoreMoves
  <2>1. CASE Reserve(r)
    BY <1>1, <1>5, <2>1, ReserveMoves DEF Reserve
  <2>2. CASE ReserveConflict(r) \/ StatObject(r)
    BY <1>4, <2>2 DEF ReserveConflict, StatObject
  <2>3. CASE IssueCredentials(r)
    BY <1>1, <1>3, <1>8, <2>3 DEF IssueCredentials
  <2>4. CASE FindJob(r)
    <3>1. PICK f \in req[r].on, j \in JobIds :
            UNCHANGED job \/ InsertJob(j, f, QueueState.AWAITING_UPLOAD)
      BY <2>4 DEF FindJob
    <3>2. job' \in [JobIds -> JobRow]
      BY <1>1, <1>3, <3>1, InsertJobType, StatesOfJobs
    <3> QED BY <1>6, <2>4, <3>2 DEF FindJob
  <2>5. CASE ConfirmFile(r)
    <3>1. Confirmed(req[r].seen) \in Entity
      BY <1>3 DEF Confirmed, Entity, FileState
    <3>2. FileMoves
      BY <1>9, <2>5, <3>1 DEF ConfirmFile
    <3> QED BY <1>5, <2>5, <3>2 DEF ConfirmFile
  <2>6. CASE ConfirmJob(r) \/ CancelSaveJob(r) \/ StopSave(r)
    <3>1. job' \in [JobIds -> JobRow]
      BY <1>10, <2>6, StatesOfJobs DEF ConfirmJob, CancelSaveJob, StopSave
    <3> QED BY <1>6, <2>6, <3>1 DEF ConfirmJob, CancelSaveJob, StopSave
  <2>7. CASE EnqueueJob(r) \/ QueueDequeue(r) \/ CancelDequeue(r)
    <3>1. waiting' \in [JobIds -> Nat]
      BY <1>1, <2>7, WaitingType DEF EnqueueJob, QueueDequeue, CancelDequeue
    <3> QED BY <1>7, <2>7, <3>1 DEF EnqueueJob, QueueDequeue, CancelDequeue
  <2>8. CASE CancelSave(r)
    <3>1. Seen(r, "CANCELED") \in Entity
      BY <1>3 DEF Seen, Entity, FileState
    <3>2. FileMoves
      BY <1>9, <2>8, <3>1 DEF CancelSave
    <3> QED BY <1>5, <2>8, <3>2 DEF CancelSave
  <2>9. CASE EditSave(r)
    <3>1. FileMoves
      BY <1>3, <1>9, <2>9 DEF EditSave
    <3> QED BY <1>5, <2>9, <3>1 DEF EditSave
  <2>10. CASE SoftRemoveFile(r)
    <3>1. FileMoves
      BY <1>1, <2>10, SoftDeleteMoves DEF SoftRemoveFile
    <3> QED BY <1>5, <2>10, <3>1 DEF SoftRemoveFile
  <2>11. CASE DeleteMultiple(r)
    <3>1. FileMoves
      BY <1>1, <2>11, SoftDeleteMoves DEF DeleteMultiple
    <3>2. job' \in [JobIds -> JobRow]
      BY <1>1, <2>11, SoftDeleteJobsType DEF DeleteMultiple
    <3> QED BY <1>1, <2>11, <3>1, <3>2 DEF DeleteMultiple, StoreMoves
  <2>12. CASE QueueRemoveJob(r)
    <3> DEFINE j == req[r].job
    <3>1. job' = [job EXCEPT ![j].row = "gone"]
      BY <2>12 DEF QueueRemoveJob
    <3>2. ASSUME j \in JobIds PROVE job' \in [JobIds -> JobRow]
      <4>1. job[j] \in JobRow BY <1>1, <3>2
      <4>2. [job[j] EXCEPT !.row = "gone"] \in JobRow BY <4>1 DEF JobRow, Presence
      <4> QED BY <1>1, <3>1, <4>2
    <3>3. j \in JobIds
      BY <1>2, <2>12 DEF QueueRemoveJob, At, GoodRequest
    <3> QED BY <1>6, <2>12, <3>2, <3>3 DEF QueueRemoveJob
  <2>13. CASE QueueRemoveFile(r)
    <3>1. FileMoves
      BY <1>1, <2>13, RemoveMoves DEF QueueRemoveFile
    <3> QED BY <1>5, <2>13, <3>1 DEF QueueRemoveFile
  <2>14. CASE QueueFindFile(r)
    BY <1>4, <2>14 DEF QueueFindFile
  <2>15. CASE QueueRemoveObject(r)
    <3>1. FileMoves /\ object' \subseteq Ids
      BY <1>1, <2>15, FileUnchanged DEF QueueRemoveObject
    <3> QED BY <1>1, <2>15, <3>1 DEF QueueRemoveObject, StoreMoves
  <2> QED BY <1>12, <2>1, <2>2, <2>3, <2>4, <2>5, <2>6, <2>7, <2>8, <2>9, <2>10, <2>11, <2>12,
             <2>13, <2>14, <2>15 DEF Continue
<1>13. ASSUME IssueFails(r) PROVE StoreMoves
  BY <1>1, <1>5, <1>13, CancelMoves DEF IssueFails
<1>14. ASSUME RequestFails(r) PROVE StoreMoves
  BY <1>4, <1>14 DEF RequestFails
<1> QED BY <1>11, <1>12, <1>13, <1>14

-----------------------------------------------------------------------------
(* The slots of the queue consumer.                                        *)

\* What a slot knows at the stations it has come to.
GoodSlot(e) ==
    /\ e.pc # "idle" => e.job \in JobIds
    /\ e.pc \in {"upload", "validate", "corrupted", "handle", "converting", "convert",
                 "insertMcap"} => e.file \in Ids
    /\ e.pc \in {"extractMcap", "hashMcap", "saveMcap", "markUpload", "uploadMcap"} =>
            e.mcap \in Ids
    /\ e.pc = "addChild" => e.child \in JobIds

\* The file of a slot is a row.
SlotOnRow(e) == e.file \in Ids => file[e.file].row # "none"

SlotInv == \A s \in Slots : GoodSlot(slot[s]) /\ SlotOnRow(slot[s])

IngestionOK == IngestionTypeOK /\ SlotInv

\* Rows of files do not go away, whoever takes the step.
LEMMA OnRowKept ==
    ASSUME RowsKept, NEW e, SlotOnRow(e)
    PROVE  e.file \in Ids => file'[e.file].row # "none"
  BY DEF RowsKept, SlotOnRow

LEMMA SlotsUnmoved ==
    ASSUME IngestionOK, RowsKept, UNCHANGED ingestionVars
    PROVE  IngestionOK'
<1>1. UNCHANGED <<slot, stalled, stalls, dropped>>
  BY DEF ingestionVars
<1>2. \A s \in Slots : SlotOnRow(slot[s])'
  BY <1>1 DEF IngestionOK, SlotInv, SlotOnRow, RowsKept
<1>3. \A s \in Slots : GoodSlot(slot[s])'
  BY <1>1 DEF IngestionOK, SlotInv, GoodSlot
<1> QED BY <1>1, <1>2, <1>3 DEF IngestionOK, IngestionTypeOK, SlotInv

LEMMA SlotSet ==
    ASSUME IngestionOK, RowsKept, NEW s \in Slots, NEW e \in Slot, GoodSlot(e),
           e.file \in Ids => file'[e.file].row # "none",
           slot' = [slot EXCEPT ![s] = e],
           stalled' \subseteq JobIds, stalls' \in 0..MaxStalls, dropped' \subseteq JobIds
    PROVE  IngestionOK'
<1>1. slot \in [Slots -> Slot]
  BY DEF IngestionOK, IngestionTypeOK
<1>2. slot' \in [Slots -> Slot]
  BY <1>1
<1>3. \A q \in Slots : slot'[q] = IF q = s THEN e ELSE slot[q]
  BY <1>1
<1>4. \A q \in Slots : GoodSlot(slot'[q])
  BY <1>3 DEF IngestionOK, SlotInv
<1>5. \A q \in Slots : slot'[q].file \in Ids => file'[slot'[q].file].row # "none"
  BY <1>3, OnRowKept DEF IngestionOK, SlotInv
<1>6. SlotInv'
  BY <1>4, <1>5 DEF SlotInv, GoodSlot, SlotOnRow
<1> QED BY <1>2, <1>6 DEF IngestionOK, IngestionTypeOK

LEMMA IdleSlotGood == IdleSlot \in Slot /\ GoodSlot(IdleSlot) /\ IdleSlot.file = NoId
<1>1. 0 \in 0..MaxChildren
  BY FileIngestionAssumption
<1> QED BY <1>1 DEF IdleSlot, Slot, SlotPc, GoodSlot, NoEntity, Entity, FileState

\* The ways in which most steps change a slot.
LEMMA SlotHelpers ==
    ASSUME IngestionOK, RowsKept, UNCHANGED crashVars, NEW s \in Slots
    PROVE  /\ Idle(s) => IngestionOK'
           /\ \A pc \in SlotPc :
                Move(s, pc) /\ GoodSlot([slot[s] EXCEPT !.pc = pc]) => IngestionOK'
<1>1. slot \in [Slots -> Slot] /\ slot[s] \in Slot
  BY DEF IngestionOK, IngestionTypeOK
<1>2. stalled' \subseteq JobIds /\ stalls' \in 0..MaxStalls /\ dropped' \subseteq JobIds
  BY DEF IngestionOK, IngestionTypeOK, crashVars
<1>3. ASSUME Idle(s) PROVE IngestionOK'
  BY <1>2, <1>3, IdleSlotGood, FileStoreAssumption, SlotSet DEF Idle
<1>4. ASSUME NEW pc \in SlotPc, Move(s, pc), GoodSlot([slot[s] EXCEPT !.pc = pc])
      PROVE  IngestionOK'
  <2> DEFINE e == [slot[s] EXCEPT !.pc = pc]
  <2>1. e \in Slot /\ e.file = slot[s].file
    BY <1>1 DEF Slot
  <2>2. e.file \in Ids => file'[e.file].row # "none"
    BY <2>1, OnRowKept DEF IngestionOK, SlotInv
  <2>3. slot' = [slot EXCEPT ![s] = e]
    BY <1>1, <1>4 DEF Move
  <2>4. GoodSlot(e)
    BY <1>4
  <2> HIDE DEF e
  <2> QED BY <1>2, <2>1, <2>2, <2>3, <2>4, SlotSet
<1> QED BY <1>3, <1>4

\* The stations between which nothing but the station changes, and those from
\* which a slot may become idle.
LEMMA MoveGood ==
    ASSUME NEW e \in Slot, GoodSlot(e), NEW to \in SlotPc, e.pc # "idle",
           \/ to \in {"download", "fetch", "resolve", "fail", "expand", "finish", "complete", "extract",
                      "promote", "promoted", "mcapFailed", "bagFailed", "unreadable"}
           \/ e.pc \in {"upload", "validate", "handle", "converting", "convert"} /\
              to \in {"validate", "handle", "corrupted", "converting", "convert", "insertMcap"}
           \/ e.pc \in {"extractMcap", "hashMcap", "saveMcap", "markUpload", "uploadMcap"} /\
              to \in {"hashMcap", "saveMcap", "markUpload", "uploadMcap"}
    PROVE  GoodSlot([e EXCEPT !.pc = to])
  BY DEF GoodSlot, Slot

\* The stations `to` is reached from, so far as a slot need not know more there.
Leads(from, to) ==
    /\ from \in SlotPc \ {"idle"} /\ to \in SlotPc
    /\ \/ to \in {"download", "fetch", "resolve", "fail", "expand", "finish", "complete", "extract",
                 "promote", "promoted", "mcapFailed", "bagFailed", "unreadable"}
       \/ from \in {"upload", "validate", "handle", "converting", "convert"} /\
          to \in {"validate", "handle", "corrupted", "converting", "convert", "insertMcap"}
       \/ from \in {"extractMcap", "hashMcap", "saveMcap", "markUpload", "uploadMcap"} /\
          to \in {"hashMcap", "saveMcap", "markUpload", "uploadMcap"}

\* A slot moves on, and the tables are in order.
LEMMA SlotMoves ==
    ASSUME IngestionOK, StoreMoves, UNCHANGED crashVars, NEW s \in Slots,
           NEW from, NEW to, SlotAt(s, from), Leads(from, to), Move(s, to)
    PROVE  StoreMoves /\ IngestionOK'
<1>1. slot[s] \in Slot /\ GoodSlot(slot[s]) /\ slot[s].pc = from
  BY DEF IngestionOK, IngestionTypeOK, SlotInv, SlotAt
<1>2. GoodSlot([slot[s] EXCEPT !.pc = to])
  BY <1>1, MoveGood DEF Leads
<1>3. to \in SlotPc BY DEF Leads
<1> QED BY <1>2, <1>3, SlotHelpers DEF StoreMoves, FileMoves

LEMMA QuietMoves ==
    ASSUME StoreInv, IngestionOK, UNCHANGED <<fileStoreVars, crashVars>>, NEW s \in Slots,
           NEW from, NEW to, SlotAt(s, from), Leads(from, to), Move(s, to)
    PROVE  StoreMoves /\ IngestionOK'
<1>1. UNCHANGED fileStoreVars /\ UNCHANGED crashVars OBVIOUS
<1>2. StoreMoves BY <1>1, StoreUnchanged
<1> QED BY <1>1, <1>2, SlotMoves

LEMMA SlotIdles ==
    ASSUME IngestionOK, StoreMoves, UNCHANGED crashVars, NEW s \in Slots, Idle(s)
    PROVE  StoreMoves /\ IngestionOK'
  BY SlotHelpers DEF StoreMoves, FileMoves

LEMMA JobSaved ==
    ASSUME StoreInv, NEW j, NEW state \in QueueStates, SaveJob(j, state) \/ UNCHANGED job,
           UNCHANGED <<file, object, credentials, waiting>>
    PROVE  StoreMoves
<1>1. job' \in [JobIds -> JobRow]
  BY SaveJobType DEF StoreInv, FileStoreTypeOK
<1> QED BY <1>1, FileUnchanged DEF StoreInv, FileStoreTypeOK, StoreMoves

LEMMA MarkMoves ==
    ASSUME StoreInv, IngestionOK, NEW s \in Slots, NEW from, NEW to, Leads(from, to),
           NEW state \in QueueStates, Mark(s, from, state, to)
    PROVE  StoreMoves /\ IngestionOK'
<1>1. StoreMoves BY JobSaved DEF Mark
<1>2. UNCHANGED crashVars BY DEF Mark
<1> QED BY <1>1, <1>2, SlotMoves DEF Mark

LEMMA EndMoves ==
    ASSUME StoreInv, IngestionOK, NEW s \in Slots, NEW from, NEW state \in QueueStates,
           End(s, from, state)
    PROVE  StoreMoves /\ IngestionOK'
<1>1. StoreMoves BY JobSaved DEF End
<1>2. UNCHANGED crashVars BY DEF End
<1> QED BY <1>1, <1>2, SlotIdles DEF End

LEMMA FileSaved ==
    ASSUME StoreInv, FileMoves, UNCHANGED <<object, credentials, job, waiting>>
    PROVE  StoreMoves
  BY DEF StoreInv, FileStoreTypeOK, StoreMoves

LEMMA SaveSeenMoves ==
    ASSUME StoreInv, IngestionOK, NEW s \in Slots, NEW from \in SlotPc \ {"idle"},
           NEW state \in FileState, NEW to, NEW refused,
           {to, refused} \subseteq {"fail", "complete", "promoted", "mcapFailed", "unreadable"},
           SaveSeen(s, from, state, to, refused)
    PROVE  StoreMoves /\ IngestionOK'
<1> DEFINE entity == [slot[s].seen EXCEPT !.state = state]
           e == [slot[s] EXCEPT !.pc = to, !.seen = entity]
<1>1. slot \in [Slots -> Slot] /\ slot[s] \in Slot /\ GoodSlot(slot[s]) /\ SlotOnRow(slot[s])
  BY DEF IngestionOK, IngestionTypeOK, SlotInv
<1>2. entity \in Entity
  BY <1>1 DEF Slot, Entity
<1>3. e \in Slot /\ e.file = slot[s].file
  BY <1>1, <1>2 DEF Slot, SlotPc
<1>4. GoodSlot(e)
  BY <1>1, <1>3 DEF GoodSlot, Slot, SaveSeen, SlotAt
<1>5. Leads(from, to) /\ Leads(from, refused)
  BY DEF Leads, SlotPc
<1>6. UNCHANGED crashVars /\ UNCHANGED <<object, credentials, job, waiting>> /\ SlotAt(s, from)
  BY DEF SaveSeen
<1>7. \/ /\ SaveCreated(slot[s].file, entity) \/ SaveFile(slot[s].file, entity)
         /\ slot' = [slot EXCEPT ![s] = e]
      \/ UNCHANGED file /\ Move(s, refused)
  BY <1>1 DEF SaveSeen
<1> HIDE DEF entity, e
<1>8. FileMoves
  BY <1>2, <1>7, SaveCreatedMoves, SaveFileMoves, FileUnchanged DEF StoreInv, FileStoreTypeOK
<1>9. StoreMoves
  BY <1>6, <1>8, FileSaved
<1>10. CASE Move(s, refused)
  BY <1>5, <1>6, <1>9, <1>10, SlotMoves
<1>11. CASE slot' = [slot EXCEPT ![s] = e]
  <2>1. e.file \in Ids => file'[e.file].row # "none"
    BY <1>1, <1>3, <1>8, OnRowKept DEF FileMoves
  <2>2. stalled' \subseteq JobIds /\ stalls' \in 0..MaxStalls /\ dropped' \subseteq JobIds
    BY <1>6 DEF crashVars, IngestionOK, IngestionTypeOK
  <2> QED BY <1>3, <1>4, <1>8, <1>9, <1>11, <2>1, <2>2, SlotSet DEF FileMoves
<1> QED BY <1>7, <1>10, <1>11

LEMMA SaveMcapMoves ==
    ASSUME StoreInv, IngestionOK, NEW s \in Slots, NEW from, NEW state \in FileState, NEW to,
           SlotAt(s, from), Leads(from, to), Leads(from, "bagFailed"), SaveMcap(s, state, to)
    PROVE  StoreMoves /\ IngestionOK'
<1>1. McapEntity(s, state) \in Entity
  BY DEF McapEntity, Entity
<1>2. FileMoves
  BY <1>1, SaveCreatedMoves, FileUnchanged DEF SaveMcap, StoreInv, FileStoreTypeOK
<1>3. UNCHANGED <<object, credentials, job, waiting>> /\ UNCHANGED crashVars
  BY DEF SaveMcap
<1>4. StoreMoves
  BY <1>2, <1>3, FileSaved
<1>5. Move(s, to) \/ Move(s, "bagFailed")
  BY DEF SaveMcap
<1> QED BY <1>3, <1>4, <1>5, SlotMoves

\* A slot that takes a job, or that changes by hand what it knows.
LEMMA SlotChanges ==
    ASSUME IngestionOK, StoreMoves, NEW s \in Slots, NEW e \in Slot, GoodSlot(e),
           \/ e.file = slot[s].file
           \/ e.file \in Ids => file'[e.file].row # "none",
           slot' = [slot EXCEPT ![s] = e], UNCHANGED crashVars
    PROVE  StoreMoves /\ IngestionOK'
<1>1. SlotOnRow(slot[s]) /\ RowsKept
  BY DEF IngestionOK, SlotInv, StoreMoves, FileMoves
<1>2. e.file \in Ids => file'[e.file].row # "none"
  BY <1>1, OnRowKept
<1>3. stalled' \subseteq JobIds /\ stalls' \in 0..MaxStalls /\ dropped' \subseteq JobIds
  BY DEF crashVars, IngestionOK, IngestionTypeOK
<1> QED BY <1>1, <1>2, <1>3, SlotSet

LEMMA TakeMoves ==
    ASSUME StoreInv, IngestionOK, NEW s \in Slots, Take(s)
    PROVE  StoreMoves /\ IngestionOK'
<1>1. PICK j \in JobIds : /\ waiting[j] > 0 /\ waiting' = [waiting EXCEPT ![j] = @ - 1]
                          /\ slot' = [slot EXCEPT ![s].pc = "load", ![s].job = j]
  BY DEF Take
<1>2. /\ file \in [Ids -> FileRow] /\ NameInv /\ job \in [JobIds -> JobRow]
      /\ object \subseteq Ids /\ credentials \subseteq Ids /\ waiting \in [JobIds -> Nat]
  BY DEF StoreInv, FileStoreTypeOK
<1>3. waiting' \in [JobIds -> Nat]
  BY <1>1, <1>2
<1>4. UNCHANGED <<file, object, credentials, job>> /\ UNCHANGED crashVars
  BY DEF Take
<1>5. StoreMoves
  BY <1>2, <1>3, <1>4, FileUnchanged DEF StoreMoves
<1> DEFINE e == [slot[s] EXCEPT !.pc = "load", !.job = j]
<1>6. slot \in [Slots -> Slot] /\ slot[s] \in Slot /\ GoodSlot(slot[s])
  BY DEF IngestionOK, IngestionTypeOK, SlotInv
<1>7. e \in Slot /\ GoodSlot(e) /\ e.file = slot[s].file
  BY ZenonT(60), <1>6 DEF Slot, SlotPc, GoodSlot
<1>8. slot' = [slot EXCEPT ![s] = e]
  BY <1>1, <1>6
<1> HIDE DEF e
<1> QED BY <1>4, <1>5, <1>7, <1>8, SlotChanges

LEMMA ProcessMoves ==
    ASSUME StoreInv, IngestionOK, NEW s \in Slots, ProcessNext(s)
    PROVE  StoreMoves /\ IngestionOK'
<1>1. /\ file \in [Ids -> FileRow] /\ NameInv /\ job \in [JobIds -> JobRow]
      /\ object \subseteq Ids /\ credentials \subseteq Ids /\ waiting \in [JobIds -> Nat]
  BY DEF StoreInv, FileStoreTypeOK
<1>2. slot \in [Slots -> Slot] /\ slot[s] \in Slot /\ GoodSlot(slot[s]) /\ SlotOnRow(slot[s])
  BY DEF IngestionOK, IngestionTypeOK, SlotInv
<1>3. stalled \subseteq JobIds /\ stalls \in 0..MaxStalls /\ dropped \subseteq JobIds
  BY DEF IngestionOK, IngestionTypeOK
<1>4. \A from, to \in SlotPc : Leads(from, to) <=>
        /\ from # "idle"
        /\ \/ to \in {"download", "fetch", "resolve", "fail", "expand", "finish", "complete",
                     "extract", "promote", "promoted", "mcapFailed", "bagFailed", "unreadable"}
           \/ from \in {"upload", "validate", "handle", "converting", "convert"} /\
              to \in {"validate", "handle", "corrupted", "converting", "convert", "insertMcap"}
           \/ from \in {"extractMcap", "hashMcap", "saveMcap", "markUpload", "uploadMcap"} /\
              to \in {"hashMcap", "saveMcap", "markUpload", "uploadMcap"}
  BY DEF Leads
<1>5. ASSUME UNCHANGED file, object' \subseteq Ids, UNCHANGED <<credentials, job, waiting>>
      PROVE  StoreMoves
  BY <1>1, <1>5, FileUnchanged DEF StoreMoves
<1>6. CASE Load(s)
  <2>1. UNCHANGED fileStoreVars /\ UNCHANGED crashVars BY <1>6 DEF Load
  <2>2. StoreMoves BY <2>1, StoreUnchanged
  <2>3. CASE Idle(s)
    BY <2>1, <2>2, <2>3, SlotIdles
  <2>4. CASE Move(s, "download")
    BY <1>4, <1>6, <2>1, <2>2, <2>4, SlotMoves DEF Load, SlotPc
  <2>5. ASSUME NEW n \in 0..MaxChildren,
               slot' = [slot EXCEPT ![s].pc = "expand", ![s].left = n]
        PROVE  StoreMoves /\ IngestionOK'
    <3> DEFINE e == [slot[s] EXCEPT !.pc = "expand", !.left = n]
    <3>1. e \in Slot /\ GoodSlot(e) /\ e.file = slot[s].file
      BY <1>2, <1>6, <2>5 DEF Slot, SlotPc, GoodSlot, Load, SlotAt
    <3>2. slot' = [slot EXCEPT ![s] = e]
      BY <1>2, <2>5
    <3> HIDE DEF e
    <3> QED BY <2>1, <2>2, <3>1, <3>2, SlotChanges
  <2> QED BY <1>6, <2>3, <2>4, <2>5 DEF Load
<1>7. CASE SaveChild(s)
  <2>1. PICK j \in JobIds :
            /\ InsertJob(j, NoId, QueueState.AWAITING_PROCESSING)
            /\ slot' = [slot EXCEPT ![s].pc = "addChild", ![s].left = @ - 1, ![s].child = j]
    BY <1>7 DEF SaveChild
  <2>2. job' \in [JobIds -> JobRow]
    BY <1>1, <2>1, InsertJobType, StatesOfJobs
  <2>3. StoreMoves
    BY <1>1, <1>7, <2>2, FileUnchanged DEF SaveChild, StoreMoves
  <2> DEFINE e == [slot[s] EXCEPT !.pc = "addChild", !.left = @ - 1, !.child = j]
  <2>4. slot[s].left - 1 \in 0..MaxChildren
    BY <1>2, <1>7, FileIngestionAssumption DEF SaveChild, Slot
  <2>5. e \in Slot /\ GoodSlot(e) /\ e.file = slot[s].file
    BY <1>2, <1>7, <2>4 DEF Slot, SlotPc, GoodSlot, SaveChild, SlotAt
  <2>6. slot' = [slot EXCEPT ![s] = e]
    BY <1>2, <2>1
  <2> HIDE DEF e
  <2> QED BY <1>7, <2>3, <2>5, <2>6, SlotChanges DEF SaveChild
<1>8. CASE AddChild(s)
  <2>1. waiting' \in [JobIds -> Nat]
    BY <1>1, <1>8, WaitingType DEF AddChild
  <2>2. StoreMoves
    BY <1>1, <1>8, <2>1, FileUnchanged DEF AddChild, StoreMoves
  <2> DEFINE e == [slot[s] EXCEPT !.pc = "expand", !.child = NoJob]
  <2>3. e \in Slot /\ GoodSlot(e) /\ e.file = slot[s].file
    BY <1>2, <1>8 DEF Slot, SlotPc, GoodSlot, AddChild, SlotAt
  <2>4. slot' = [slot EXCEPT ![s] = e]
    BY <1>2, <1>8 DEF AddChild
  <2> HIDE DEF e
  <2> QED BY <1>8, <2>2, <2>3, <2>4, SlotChanges DEF AddChild
<1>9. CASE AddChildFails(s)
  <2>1. StoreMoves
    BY <1>9, StoreUnchanged DEF AddChildFails
  <2> DEFINE e == [slot[s] EXCEPT !.pc = "fail", !.child = NoJob]
  <2>2. e \in Slot /\ GoodSlot(e) /\ e.file = slot[s].file
    BY <1>2, <1>9 DEF Slot, SlotPc, GoodSlot, AddChildFails, SlotAt
  <2>3. slot' = [slot EXCEPT ![s] = e]
    BY <1>2, <1>9 DEF AddChildFails
  <2> HIDE DEF e
  <2>4. slot[s].child \in JobIds
    BY <1>2, <1>9 DEF AddChildFails, SlotAt, GoodSlot
  <2>5. stalled' \subseteq JobIds /\ stalls' \in 0..MaxStalls /\ dropped' \subseteq JobIds
    BY <1>3, <1>9, <2>4 DEF AddChildFails
  <2>6. e.file \in Ids => file'[e.file].row # "none"
    BY <1>2, <2>1, <2>2, OnRowKept DEF StoreMoves, FileMoves
  <2> QED BY <2>1, <2>2, <2>3, <2>5, <2>6, SlotSet DEF StoreMoves, FileMoves
<1>10. CASE ExpandEnds(s)
  BY <1>10, EndMoves, StatesOfJobs DEF ExpandEnds
<1>11. CASE MarkDownloading(s)
  BY <1>4, <1>11, MarkMoves, StatesOfJobs DEF MarkDownloading, SlotPc
<1>12. CASE Fetch(s)
  <2>1. StoreMoves
    BY <1>12, JobSaved, StatesOfJobs DEF Fetch
  <2>2. Leads("fetch", "resolve") /\ Leads("fetch", "fail")
    BY <1>4 DEF SlotPc
  <2>3. UNCHANGED crashVars /\ SlotAt(s, "fetch") /\ (Move(s, "resolve") \/ Move(s, "fail"))
    BY <1>12 DEF Fetch
  <2> QED BY <2>1, <2>2, <2>3, SlotMoves
<1>13. CASE ResolveUpload(s)
  <2> DEFINE f == job[slot[s].job].of
             e == [slot[s] EXCEPT !.pc = "validate", !.file = f, !.seen = EntityOf(f)]
  <2>1. StoreMoves
    BY <1>13, StoreUnchanged DEF ResolveUpload
  <2>2. slot[s].job \in JobIds /\ slot[s].pc = "resolve"
    BY <1>2, <1>13 DEF ResolveUpload, SlotAt, GoodSlot
  <2>3. f \in Ids
    <3>1. job[slot[s].job] \in JobRow BY <1>1, <2>2
    <3> QED BY <1>13, <3>1 DEF ResolveUpload, IsDrive, JobRow
  <2>4. EntityOf(f) \in Entity
    BY <1>1, <2>3, EntityIsEntity
  <2>5. slot' = [slot EXCEPT ![s] = e] /\ file[f].row = "live" /\ UNCHANGED crashVars
    BY <1>2, <1>13 DEF ResolveUpload, LiveFile
  <2> HIDE DEF f
  <2>6. e \in Slot /\ GoodSlot(e) /\ e.file = f
    BY <1>2, <2>2, <2>3, <2>4 DEF Slot, SlotPc, GoodSlot
  <2>7. file'[f].row # "none"
    BY <2>1, <2>3, <2>5 DEF StoreMoves, FileMoves, RowsKept
  <2> HIDE DEF e
  <2> QED BY <2>1, <2>5, <2>6, <2>7, SlotChanges
<1>14. CASE Discard(s)
  BY <1>14, EndMoves, StatesOfJobs DEF Discard
<1>15. CASE CreateDriveFile(s)
  <2>1. PICK name \in Bases \X DriveTypes :
        \/ Move(s, "fail") /\ UNCHANGED file
        \/ \E f \in Ids :
            /\ InsertFile(f, name, "UPLOADING", "md5")
            /\ slot' = [slot EXCEPT ![s].pc = "upload", ![s].file = f,
                                    ![s].seen = [state |-> "UPLOADING", hash |-> "md5"]]
    BY <1>15 DEF CreateDriveFile
  <2>2. name \in Names
    BY FileIngestionAssumption DEF Names
  <2>3. UNCHANGED <<object, credentials, job, waiting>> /\ UNCHANGED crashVars /\ SlotAt(s, "resolve")
    BY <1>15 DEF CreateDriveFile
  <2>4. ASSUME Move(s, "fail"), UNCHANGED file PROVE StoreMoves /\ IngestionOK'
    <3>1. StoreMoves BY <1>1, <1>5, <2>3, <2>4
    <3>2. Leads("resolve", "fail") BY <1>4 DEF SlotPc
    <3> QED BY <2>3, <2>4, <3>1, <3>2, SlotMoves
  <2>5. ASSUME NEW f \in Ids, InsertFile(f, name, "UPLOADING", "md5"),
               slot' = [slot EXCEPT ![s].pc = "upload", ![s].file = f,
                                    ![s].seen = [state |-> "UPLOADING", hash |-> "md5"]]
        PROVE  StoreMoves /\ IngestionOK'
    <3> DEFINE e == [slot[s] EXCEPT !.pc = "upload", !.file = f,
                                    !.seen = [state |-> "UPLOADING", hash |-> "md5"]]
    <3>1. FileMoves /\ file'[f].row = "live"
      BY <1>1, <2>2, <2>5, InsertFileMoves DEF FileState
    <3>2. StoreMoves
      BY <2>3, <3>1, FileSaved
    <3>3. e \in Slot /\ GoodSlot(e) /\ e.file = f
      BY <1>2, <2>3 DEF Slot, SlotPc, GoodSlot, SlotAt, Entity, FileState
    <3>4. slot' = [slot EXCEPT ![s] = e]
      BY <1>2, <2>5
    <3> HIDE DEF e
    <3> QED BY <2>3, <3>1, <3>2, <3>3, <3>4, SlotChanges
  <2> QED BY <2>1, <2>4, <2>5
<1>16. CASE UploadDriveFile(s)
  <2>1. object' \subseteq Ids
    BY <1>1, <1>2, <1>16 DEF UploadDriveFile, SlotAt, GoodSlot
  <2>2. StoreMoves
    BY <1>5, <1>16, <2>1 DEF UploadDriveFile
  <2>3. Leads("upload", "validate") /\ Leads("upload", "fail")
    BY <1>4 DEF SlotPc
  <2> QED BY <1>16, <2>2, <2>3, SlotMoves DEF UploadDriveFile
<1>17. CASE Validate(s)
  <2>1. Leads("validate", "handle") /\ Leads("validate", "corrupted")
    BY <1>4 DEF SlotPc
  <2> QED BY <1>17, <2>1, QuietMoves DEF Validate
<1>18. CASE RejectFile(s)
  BY <1>18, SaveSeenMoves DEF RejectFile, SlotPc, FileState
<1>19. CASE RejectJob(s)
  BY <1>19, EndMoves, StatesOfJobs DEF RejectJob
<1>20. CASE MarkProcessing(s)
  <2>1. Leads("handle", "converting") /\ Leads("handle", "extract") /\ Leads("handle", "finish")
    BY <1>4 DEF SlotPc
  <2>2. \E to \in {"converting", "extract", "finish"} : Mark(s, "handle", QueueState.PROCESSING, to)
    BY <1>20 DEF MarkProcessing
  <2> QED BY <2>1, <2>2, MarkMoves, StatesOfJobs
<1>21. CASE MarkConverting(s)
  <2>1. Leads("converting", "convert") /\ Leads("converting", "extract")
    BY <1>4 DEF SlotPc
  <2>2. \E to \in {"convert", "extract"} :
            Mark(s, "converting", QueueState.CONVERTING_AND_EXTRACTING_TOPICS, to)
    BY <1>21 DEF MarkConverting
  <2> QED BY <2>1, <2>2, MarkMoves, StatesOfJobs
<1>22. CASE Extract(s)
  BY <1>22, SaveSeenMoves DEF Extract, SlotPc, FileState
<1>23. CASE Convert(s)
  <2>1. Leads("convert", "insertMcap") /\ Leads("convert", "bagFailed")
    BY <1>4 DEF SlotPc
  <2> QED BY <1>23, <2>1, QuietMoves DEF Convert
<1>24. CASE InsertMcap(s)
  <2> DEFINE name == McapName(file[slot[s].file].name)
  <2>1. name \in Names
    <3>1. slot[s].file \in Ids
      BY <1>2, <1>24 DEF InsertMcap, SlotAt, GoodSlot
    <3>2. file[slot[s].file].name \in Bases \X Types
      BY <1>1, <1>2, <3>1 DEF SlotOnRow, NameInv, Names
    <3> QED BY <3>2 DEF McapName, Names, Types
  <2>2. \/ Move(s, "bagFailed") /\ UNCHANGED file
        \/ \E f \in Ids :
            /\ InsertFile(f, name, "CONVERTING", "null")
            /\ slot' = [slot EXCEPT ![s].pc = "extractMcap", ![s].mcap = f]
    BY <1>24 DEF InsertMcap
  <2>3. UNCHANGED <<object, credentials, job, waiting>> /\ UNCHANGED crashVars /\ SlotAt(s, "insertMcap")
    BY <1>24 DEF InsertMcap
  <2> HIDE DEF name
  <2>4. ASSUME Move(s, "bagFailed"), UNCHANGED file PROVE StoreMoves /\ IngestionOK'
    <3>1. StoreMoves BY <1>1, <1>5, <2>3, <2>4
    <3>2. Leads("insertMcap", "bagFailed") BY <1>4 DEF SlotPc
    <3> QED BY <2>3, <2>4, <3>1, <3>2, SlotMoves
  <2>5. ASSUME NEW f \in Ids, InsertFile(f, name, "CONVERTING", "null"),
               slot' = [slot EXCEPT ![s].pc = "extractMcap", ![s].mcap = f]
        PROVE  StoreMoves /\ IngestionOK'
    <3> DEFINE e == [slot[s] EXCEPT !.pc = "extractMcap", !.mcap = f]
    <3>1. FileMoves
      BY <1>1, <2>1, <2>5, InsertFileMoves DEF FileState
    <3>2. StoreMoves
      BY <2>3, <3>1, FileSaved
    <3>3. e \in Slot /\ GoodSlot(e) /\ e.file = slot[s].file
      BY <1>2, <2>3 DEF Slot, SlotPc, GoodSlot, SlotAt
    <3>4. slot' = [slot EXCEPT ![s] = e]
      BY <1>2, <2>5
    <3> HIDE DEF e
    <3> QED BY <2>3, <3>2, <3>3, <3>4, SlotChanges
  <2> QED BY <2>2, <2>4, <2>5
<1>25. CASE ExtractMcap(s)
  <2>1. /\ Leads("extractMcap", "hashMcap") /\ Leads("extractMcap", "bagFailed")
        /\ Leads("extractMcap", "mcapFailed")
    BY <1>4 DEF SlotPc
  <2>2. SlotAt(s, "extractMcap")
    BY <1>25 DEF ExtractMcap
  <2>3. CASE SaveMcap(s, "OK", "hashMcap")
    BY <2>1, <2>2, <2>3, SaveMcapMoves DEF FileState
  <2>4. CASE Move(s, "mcapFailed") /\ UNCHANGED <<fileStoreVars, crashVars>>
    BY <2>1, <2>2, <2>4, QuietMoves
  <2> QED BY <1>25, <2>3, <2>4 DEF ExtractMcap
<1>26. CASE HashMcap(s)
  <2> DEFINE e == [slot[s] EXCEPT !.pc = "saveMcap", !.hashed = TRUE]
  <2>1. StoreMoves
    BY <1>26, StoreUnchanged DEF HashMcap
  <2>2. e \in Slot /\ GoodSlot(e) /\ e.file = slot[s].file
    BY <1>2, <1>26 DEF Slot, SlotPc, GoodSlot, HashMcap, SlotAt
  <2>3. slot' = [slot EXCEPT ![s] = e]
    BY <1>2, <1>26 DEF HashMcap
  <2> HIDE DEF e
  <2> QED BY <1>26, <2>1, <2>2, <2>3, SlotChanges DEF HashMcap
<1>27. CASE SaveHash(s)
  <2>1. Leads("saveMcap", "markUpload") /\ Leads("saveMcap", "bagFailed")
    BY <1>4 DEF SlotPc
  <2> QED BY <1>27, <2>1, SaveMcapMoves DEF SaveHash, FileState
<1>28. CASE MarkUploading(s)
  BY <1>4, <1>28, MarkMoves, StatesOfJobs DEF MarkUploading, SlotPc
<1>29. CASE UploadMcap(s)
  <2>1. object' \subseteq Ids
    BY <1>1, <1>2, <1>29 DEF UploadMcap, SlotAt, GoodSlot
  <2>2. StoreMoves
    BY <1>5, <1>29, <2>1 DEF UploadMcap
  <2>3. Leads("uploadMcap", "promote") /\ Leads("uploadMcap", "mcapFailed")
    BY <1>4 DEF SlotPc
  <2> QED BY <1>29, <2>2, <2>3, SlotMoves DEF UploadMcap
<1>30. CASE PromoteBag(s)
  BY <1>30, SaveSeenMoves DEF PromoteBag, SlotPc, FileState
<1>31. CASE RecordConversion(s)
  <2>1. Leads("promoted", "complete") /\ Leads("promoted", "mcapFailed")
    BY <1>4 DEF SlotPc
  <2> QED BY <1>31, <2>1, QuietMoves DEF RecordConversion
<1>32. CASE McapFailed(s)
  <2>1. Leads("mcapFailed", "bagFailed")
    BY <1>4 DEF SlotPc
  <2> QED BY <1>32, <2>1, SaveMcapMoves DEF McapFailed, FileState
<1>33. CASE BagFailed(s)
  BY <1>33, SaveSeenMoves DEF BagFailed, SlotPc, FileState
<1>34. CASE FinishFile(s)
  <2>1. CASE slot[s].seen.state = "UPLOADING"
    BY <1>34, <2>1, SaveSeenMoves DEF FinishFile, SlotPc, FileState
  <2>2. CASE slot[s].seen.state # "UPLOADING"
    <3>1. Leads("finish", "complete")
      BY <1>4 DEF SlotPc
    <3> QED BY <1>34, <2>2, <3>1, QuietMoves DEF FinishFile
  <2> QED BY <2>1, <2>2
<1>35. CASE CompleteJob(s) \/ FailJob(s)
  BY <1>35, EndMoves, StatesOfJobs DEF CompleteJob, FailJob
<1> QED BY <1>6, <1>7, <1>8, <1>9, <1>10, <1>11, <1>12, <1>13, <1>14, <1>15, <1>16, <1>17, <1>18,
           <1>19, <1>20, <1>21, <1>22, <1>23, <1>24, <1>25, <1>26, <1>27, <1>28, <1>29, <1>30,
           <1>31, <1>32, <1>33, <1>34, <1>35 DEF ProcessNext

\* The consumer dies: the slots are empty, and jobs are queued again.
LEMMA StallMoves ==
    ASSUME StoreInv, IngestionOK, Stall
    PROVE  StoreMoves /\ IngestionOK'
<1> DEFINE busy == {s \in Slots : ~SlotAt(s, "idle")}
           lost == {slot[s].job : s \in busy}
<1>1. /\ file \in [Ids -> FileRow] /\ NameInv /\ job \in [JobIds -> JobRow]
      /\ object \subseteq Ids /\ credentials \subseteq Ids /\ waiting \in [JobIds -> Nat]
  BY DEF StoreInv, FileStoreTypeOK
<1>2. \A s \in Slots : slot[s] \in Slot /\ GoodSlot(slot[s])
  BY DEF IngestionOK, IngestionTypeOK, SlotInv
<1>3. lost \subseteq JobIds
  BY <1>2 DEF SlotAt, GoodSlot
<1>4. {slot[s].child : s \in busy} \ {NoJob} \subseteq JobIds
  BY <1>2 DEF Slot
<1>5. /\ stalls < MaxStalls /\ stalls' = stalls + 1
      /\ stalled' = stalled \cup lost
      /\ dropped' = dropped \cup (lost \cap stalled) \cup ({slot[s].child : s \in busy} \ {NoJob})
      /\ waiting' = [j \in JobIds |-> IF j \in lost \ stalled THEN waiting[j] + 1 ELSE waiting[j]]
      /\ slot' = [s \in Slots |-> IdleSlot]
      /\ UNCHANGED <<file, object, credentials, job>>
  BY DEF Stall
<1> HIDE DEF lost, busy
<1>6. waiting' \in [JobIds -> Nat]
  BY <1>1, <1>5
<1>7. StoreMoves
  BY <1>1, <1>5, <1>6, FileUnchanged DEF StoreMoves
<1>8. slot' \in [Slots -> Slot] /\ \A s \in Slots : slot'[s] = IdleSlot
  BY <1>5, IdleSlotGood
<1>9. SlotInv'
  BY <1>8, IdleSlotGood, FileStoreAssumption DEF SlotInv, GoodSlot, SlotOnRow
<1>10. stalled' \subseteq JobIds /\ dropped' \subseteq JobIds /\ stalls' \in 0..MaxStalls
  BY <1>3, <1>4, <1>5, FileIngestionAssumption DEF IngestionOK, IngestionTypeOK
<1> QED BY <1>7, <1>8, <1>9, <1>10 DEF IngestionOK, IngestionTypeOK

-----------------------------------------------------------------------------
(* The nightly crons, the clients and time.                                *)

LEMMA ReadType ==
    ASSUME file \in [Ids -> FileRow], NEW ids
    PROVE  Read(ids) \in [Ids -> Entity]
<1>1. NoEntity \in Entity
  BY DEF NoEntity, Entity, FileState
<1> QED BY <1>1, EntityIsEntity DEF Read

LEMMA OverdueIds == \A state : Overdue(state) \subseteq Ids
  BY DEF Overdue

LEMMA CleanupMoves ==
    ASSUME StoreInv, FileCleanupTypeOK, CleanupNext
    PROVE  StoreMoves /\ FileCleanupTypeOK'
<1>1. /\ file \in [Ids -> FileRow] /\ NameInv /\ job \in [JobIds -> JobRow]
      /\ object \subseteq Ids /\ credentials \subseteq Ids /\ waiting \in [JobIds -> Nat]
  BY DEF StoreInv, FileStoreTypeOK
<1>2. cleaner \in Cleaner /\ repair \in Repair /\ purged \subseteq Ids
  BY DEF FileCleanupTypeOK
<1>3. NoEntity \in Entity
  BY DEF NoEntity, Entity, FileState
<1>4. CASE FindUploads
  <2>1. StoreMoves BY <1>4, StoreUnchanged DEF FindUploads
  <2>2. cleaner' \in Cleaner
    BY <1>1, <1>2, <1>4, ReadType, OverdueIds DEF FindUploads, Cleaner
  <2> QED BY <1>2, <1>4, <2>1, <2>2 DEF FindUploads, FileCleanupTypeOK
<1>5. CASE TimeOut
  <2>0. PICK f \in cleaner.late :
        /\ IF CanSave(f) THEN SaveFile(f, [cleaner.seen[f] EXCEPT !.state = "ERROR"])
                         ELSE UNCHANGED file
        /\ cleaner' = [cleaner EXCEPT !.late = @ \ {f}, !.seen[f] = NoEntity,
                                      !.failed = @ \/ ~CanSave(f)]
    BY <1>5 DEF TimeOut
  <2>1. f \in Ids /\ cleaner.seen[f] \in Entity /\ cleaner.seen \in [Ids -> Entity]
        /\ cleaner.failed \in BOOLEAN
    BY <1>2, <2>0 DEF Cleaner
  <2>2. [cleaner.seen[f] EXCEPT !.state = "ERROR"] \in Entity
    BY <2>1 DEF Entity, FileState
  <2>3. FileMoves
    BY <1>1, <2>0, <2>2, SaveFileMoves, FileUnchanged
  <2>4. StoreMoves
    BY <1>5, <2>3, FileSaved DEF TimeOut
  <2> DEFINE seen == [cleaner.seen EXCEPT ![f] = NoEntity]
             failed == cleaner.failed \/ ~CanSave(f)
  <2>5. seen \in [Ids -> Entity]
    BY <1>3, <2>1
  <2>6. cleaner' = [cleaner EXCEPT !.late = @ \ {f}, !.seen = seen, !.failed = failed]
    BY <1>2, <2>0 DEF Cleaner
  <2>7. failed \in BOOLEAN
    OBVIOUS
  <2> HIDE DEF seen, failed
  <2>8. cleaner' \in Cleaner
    BY <1>2, <2>5, <2>6, <2>7 DEF Cleaner
  <2> QED BY <1>2, <1>5, <2>4, <2>8 DEF TimeOut, FileCleanupTypeOK
<1>6. CASE UploadsTimedOut
  <2>1. StoreMoves BY <1>6, StoreUnchanged DEF UploadsTimedOut
  <2>2. cleaner' \in Cleaner
    BY <1>2, <1>6 DEF UploadsTimedOut, Cleaner
  <2> QED BY <1>2, <1>6, <2>1, <2>2 DEF UploadsTimedOut, FileCleanupTypeOK
<1>7. CASE FindJobs
  <2>1. StoreMoves BY <1>7, StoreUnchanged DEF FindJobs
  <2>2. cleaner' \in Cleaner
    BY <1>2, <1>7 DEF FindJobs, Cleaner, OverdueJobs
  <2> QED BY <1>2, <1>7, <2>1, <2>2 DEF FindJobs, FileCleanupTypeOK
<1>8. CASE TimeOutJob
  <2>1. StoreMoves BY <1>8, JobSaved, StatesOfJobs DEF TimeOutJob
  <2>2. cleaner' \in Cleaner
    BY <1>2, <1>8 DEF TimeOutJob, Cleaner
  <2> QED BY <1>2, <1>8, <2>1, <2>2 DEF TimeOutJob, FileCleanupTypeOK
<1>9. CASE FindCanceled
  <2>1. StoreMoves BY <1>9, StoreUnchanged DEF FindCanceled
  <2>2. cleaner' \in Cleaner
    BY <1>2, <1>9, OverdueIds DEF FindCanceled, Cleaner
  <2> QED BY <1>2, <1>9, <2>1, <2>2 DEF FindCanceled, FileCleanupTypeOK
<1>10. CASE DisposeJobs
  <2>1. job' \in [JobIds -> JobRow]
    BY <1>1, <1>10, SoftDeleteJobsType DEF DisposeJobs
  <2>2. StoreMoves
    BY <1>1, <1>10, <2>1, FileUnchanged DEF DisposeJobs, StoreMoves
  <2>3. cleaner' \in Cleaner
    BY <1>2, <1>10 DEF DisposeJobs, Cleaner
  <2> QED BY <1>2, <1>10, <2>2, <2>3 DEF DisposeJobs, FileCleanupTypeOK
<1>11. CASE DisposeObject
  <2> PICK f \in cleaner.doomed :
        /\ object' = object \ {f}
        /\ cleaner' = [cleaner EXCEPT !.doomed = @ \ {f}, !.emptied = @ \cup {f}]
        /\ purged' = purged \cup {f}
    BY <1>11 DEF DisposeObject
  <2>1. f \in Ids
    BY <1>2 DEF Cleaner
  <2>2. StoreMoves
    BY <1>1, <1>11, FileUnchanged DEF DisposeObject, StoreMoves
  <2>3. cleaner' \in Cleaner
    BY <1>2, <2>1 DEF Cleaner
  <2> QED BY <1>2, <1>11, <2>1, <2>2, <2>3 DEF DisposeObject, FileCleanupTypeOK
<1>12. CASE DisposeRow
  <2> PICK f \in cleaner.emptied :
        /\ file' = [file EXCEPT ![f] = SoftDeletedIfCanceled(f)]
        /\ cleaner' = [cleaner EXCEPT !.emptied = @ \ {f},
                !.pc = IF cleaner.doomed \cup cleaner.emptied = {f} THEN "idle" ELSE "purge"]
    BY <1>12 DEF DisposeRow
  <2>1. f \in Ids
    BY <1>2 DEF Cleaner
  <2>2. /\ SoftDeletedIfCanceled(f) \in FileRow
        /\ file[f].row # "none" => SoftDeletedIfCanceled(f).row # "none"
        /\ file[f].row = "none" => SoftDeletedIfCanceled(f).row = "none"
        /\ file[f].row = "deleted" => SoftDeletedIfCanceled(f).row = "deleted"
        /\ SoftDeletedIfCanceled(f).name = file[f].name
    BY <1>1, <2>1, SoftDeletedRow DEF SoftDeletedIfCanceled
  <2>3. FileMoves
    BY <1>1, <2>1, <2>2, OneRow DEF NameInv
  <2>4. StoreMoves
    BY <1>12, <2>3, FileSaved DEF DisposeRow
  <2>5. cleaner' \in Cleaner
    BY <1>2 DEF Cleaner
  <2> QED BY <1>2, <1>12, <2>4, <2>5 DEF DisposeRow, FileCleanupTypeOK
<1> QED BY <1>4, <1>5, <1>6, <1>7, <1>8, <1>9, <1>10, <1>11, <1>12 DEF CleanupNext

LEMMA RepairMoves ==
    ASSUME StoreInv, FileCleanupTypeOK, RepairNext
    PROVE  StoreMoves /\ FileCleanupTypeOK'
<1>1. file \in [Ids -> FileRow] /\ NameInv
  BY DEF StoreInv, FileStoreTypeOK
<1>2. cleaner \in Cleaner /\ repair \in Repair /\ purged \subseteq Ids
  BY DEF FileCleanupTypeOK
<1>3. NoEntity \in Entity /\ NothingSeen \in [Ids -> Entity]
  BY DEF NoEntity, NothingSeen, Entity, FileState
<1>4. CASE FindUnhashed
  <2>1. StoreMoves BY <1>4, StoreUnchanged DEF FindUnhashed
  <2>2. repair' \in Repair
    BY <1>1, <1>2, <1>4, ReadType DEF FindUnhashed, Repair
  <2> QED BY <1>2, <1>4, <2>1, <2>2 DEF FindUnhashed, FileCleanupTypeOK
<1>5. CASE StreamObject
  <2>1. StoreMoves BY <1>5, StoreUnchanged DEF StreamObject
  <2>2. PICK f \in repair.list :
        repair' = IF f \in object
                  THEN [repair EXCEPT !.pc = "save", !.list = @ \ {f}, !.file = f]
                  ELSE [repair EXCEPT !.pc = "idle", !.list = {}, !.seen = NothingSeen]
    BY <1>5 DEF StreamObject
  <2>3. repair' \in Repair
    <3>1. CASE f \in object
      BY <1>2, <2>2, <3>1 DEF Repair
    <3>2. CASE f \notin object
      BY <1>2, <1>3, <2>2, <3>2 DEF Repair
    <3> QED BY <3>1, <3>2
  <2> QED BY <1>2, <1>5, <2>1, <2>3 DEF StreamObject, FileCleanupTypeOK
<1>6. CASE SaveHashOf
  <2> DEFINE f == repair.file
             seen == [repair.seen EXCEPT ![f] = NoEntity]
             next == [repair EXCEPT !.pc = "stream", !.seen = seen, !.file = NoId]
             ended == [next EXCEPT !.pc = "idle", !.list = {}, !.seen = NothingSeen]
  <2>1. repair.seen \in [Ids -> Entity]
    BY <1>2 DEF Repair
  <2>2. seen \in [Ids -> Entity]
    BY <1>3, <2>1
  <2>3. next = [repair EXCEPT !.pc = "stream", !.seen[f] = NoEntity, !.file = NoId]
    BY <1>2 DEF Repair
  <2>4. /\ \/ SaveFile(f, [repair.seen[f] EXCEPT !.hash = "md5"]) \/ UNCHANGED file
        /\ repair' = next \/ repair' = ended
    BY <1>6, <2>3 DEF SaveHashOf
  <2> HIDE DEF seen
  <2>5. next \in Repair
    BY <1>2, <2>2 DEF Repair
  <2> HIDE DEF next
  <2>6. repair' \in Repair
    <3>1. ended \in Repair
      BY <1>3, <2>5 DEF Repair
    <3> HIDE DEF ended
    <3> QED BY <2>4, <2>5, <3>1
  <2>7. FileMoves
    <3>1. CASE f \in Ids
      <4>1. [repair.seen[f] EXCEPT !.hash = "md5"] \in Entity
        BY <2>1, <3>1 DEF Entity
      <4> QED BY <1>1, <2>4, <4>1, SaveFileMoves, FileUnchanged
    <3>2. CASE f \notin Ids
      <4>1. UNCHANGED file
        BY <1>1, <2>4, <3>2 DEF SaveFile
      <4> QED BY <1>1, <4>1, FileUnchanged
    <3> QED BY <3>1, <3>2
  <2>8. StoreMoves
    BY <1>6, <2>7, FileSaved DEF SaveHashOf
  <2> QED BY <1>2, <1>6, <2>6, <2>8 DEF SaveHashOf, FileCleanupTypeOK
<1>7. CASE RepairEnds
  <2>1. StoreMoves BY <1>7, StoreUnchanged DEF RepairEnds
  <2>2. repair' \in Repair
    BY <1>2, <1>7 DEF RepairEnds, Repair
  <2> QED BY <1>2, <1>7, <2>1, <2>2 DEF RepairEnds, FileCleanupTypeOK
<1> QED BY <1>4, <1>5, <1>6, <1>7 DEF RepairNext

LEMMA EnvironmentMoves ==
    ASSUME StoreInv, EnvironmentNext
    PROVE  StoreMoves
<1>1. /\ file \in [Ids -> FileRow] /\ NameInv /\ job \in [JobIds -> JobRow]
      /\ object \subseteq Ids /\ credentials \subseteq Ids /\ waiting \in [JobIds -> Nat]
  BY DEF StoreInv, FileStoreTypeOK
<1>2. ASSUME NEW f \in Ids, PutObject(f) PROVE StoreMoves
  BY <1>1, <1>2, FileUnchanged DEF PutObject, StoreMoves
<1>3. ASSUME NEW f \in Ids, FileAges(f) PROVE StoreMoves
  <2> DEFINE new == [file[f] EXCEPT !.old = TRUE]
  <2>1. file[f] \in FileRow BY <1>1
  <2>2. new \in FileRow /\ new.row = file[f].row /\ new.name = file[f].name
    BY <2>1 DEF FileRow
  <2>3. file' = [file EXCEPT ![f] = new]
    BY <1>1, <1>3 DEF FileAges
  <2> HIDE DEF new
  <2>4. FileMoves
    BY <1>1, <2>2, <2>3, OneRow DEF NameInv
  <2> QED BY <1>3, <2>4, FileSaved DEF FileAges
<1>4. ASSUME NEW j \in JobIds, JobAges(j) PROVE StoreMoves
  <2> DEFINE new == [job[j] EXCEPT !.old = TRUE]
  <2>1. job[j] \in JobRow BY <1>1
  <2>2. new \in JobRow BY <2>1 DEF JobRow
  <2>3. job' = [job EXCEPT ![j] = new]
    BY <1>1, <1>4 DEF JobAges
  <2> HIDE DEF new
  <2>4. job' \in [JobIds -> JobRow]
    BY <1>1, <2>2, <2>3
  <2> QED BY <1>1, <1>4, <2>4, FileUnchanged DEF JobAges, StoreMoves
<1> QED BY <1>2, <1>3, <1>4 DEF EnvironmentNext

-----------------------------------------------------------------------------
(* The inductive invariant.                                                *)

FileInv == StoreInv /\ RequestsOK /\ IngestionOK /\ FileCleanupTypeOK /\ stale \subseteq Ids

LEMMA FileInvInit == FileInit => FileInv
<1> SUFFICES ASSUME FileInit PROVE FileInv
  OBVIOUS
<1>1. StoreInv
  <2>1. NoFile \in FileRow /\ NoFile.row = "none"
    BY DEF NoFile, FileRow, Presence, FileState
  <2>2. NoJobRow \in JobRow
    BY EnumFacts DEF NoJobRow, JobRow, Presence, QueueState
  <2> QED BY <2>1, <2>2 DEF FileInit, FileStoreInit, StoreInv, FileStoreTypeOK, NameInv
<1>2. RequestsOK
  BY NoRequestGood, FileRequestsAssumption
  DEF FileInit, FileRequestsInit, RequestsOK, FileRequestsTypeOK, RequestInv
<1>3. IngestionOK
  BY IdleSlotGood, FileIngestionAssumption, FileStoreAssumption
  DEF FileInit, IngestionInit, IngestionOK, IngestionTypeOK, SlotInv, SlotOnRow
<1>4. FileCleanupTypeOK
  <2>1. NothingSeen \in [Ids -> Entity]
    BY DEF NothingSeen, NoEntity, Entity, FileState
  <2> QED BY <2>1 DEF FileInit, FileCleanupInit, FileCleanupTypeOK, Cleaner, Repair
<1> QED BY <1>1, <1>2, <1>3, <1>4 DEF FileInit, FileInv

LEMMA StoreInvKept ==
    ASSUME StoreMoves
    PROVE  StoreInv'
  BY DEF StoreMoves, FileMoves, StoreInv, FileStoreTypeOK

LEMMA RequestsUnmoved ==
    ASSUME RequestsOK, UNCHANGED requestVars
    PROVE  RequestsOK'
  BY DEF RequestsOK, FileRequestsTypeOK, RequestInv, GoodRequest, requestVars

LEMMA CleanupUnmoved ==
    ASSUME FileCleanupTypeOK, UNCHANGED cleanupVars
    PROVE  FileCleanupTypeOK'
  BY DEF FileCleanupTypeOK, cleanupVars

\* Every step keeps the invariant, every row, and every deleted row deleted.
LEMMA FileInvStep ==
    ASSUME FileInv, [FileNext]_fileVars
    PROVE  FileInv' /\ StoreMoves
<1>0. StoreInv /\ RequestsOK /\ IngestionOK /\ FileCleanupTypeOK /\ stale \subseteq Ids
  BY DEF FileInv
<1>1. ASSUME StoreMoves, RequestsOK', IngestionOK', FileCleanupTypeOK', NoteStale \/ UNCHANGED stale
      PROVE  FileInv' /\ StoreMoves
  BY <1>0, <1>1, StoreInvKept DEF FileInv, NoteStale
<1>2. CASE RequestNext /\ UNCHANGED <<ingestionVars, cleanupVars>> /\ NoteStale
  <2>1. UNCHANGED ingestionVars /\ UNCHANGED cleanupVars
    BY <1>2
  <2>2. PICK r \in Requests : Receive(r) \/ Continue(r) \/ IssueFails(r) \/ RequestFails(r)
    BY <1>2 DEF RequestNext
  <2>3. StoreMoves /\ RequestsOK'
    BY <1>0, <2>2, RequestStores, RequestLocals
  <2>4. IngestionOK' /\ FileCleanupTypeOK'
    BY <1>0, <2>1, <2>3, SlotsUnmoved, CleanupUnmoved DEF StoreMoves, FileMoves
  <2> QED BY <1>1, <1>2, <2>3, <2>4
<1>3. CASE IngestionNext /\ UNCHANGED <<requestVars, cleanupVars>> /\ NoteStale
  <2>1. UNCHANGED requestVars /\ UNCHANGED cleanupVars
    BY <1>3
  <2>2. StoreMoves /\ IngestionOK'
    BY <1>0, <1>3, TakeMoves, ProcessMoves, StallMoves DEF IngestionNext
  <2>3. RequestsOK' /\ FileCleanupTypeOK'
    BY <1>0, <2>1, RequestsUnmoved, CleanupUnmoved
  <2> QED BY <1>1, <1>3, <2>2, <2>3
<1>4. CASE (CleanupNext \/ RepairNext) /\ UNCHANGED <<requestVars, ingestionVars>> /\ NoteStale
  <2>1. UNCHANGED requestVars /\ UNCHANGED ingestionVars
    BY <1>4
  <2>2. StoreMoves /\ FileCleanupTypeOK'
    BY <1>0, <1>4, CleanupMoves, RepairMoves
  <2>3. RequestsOK' /\ IngestionOK'
    BY <1>0, <2>1, <2>2, RequestsUnmoved, SlotsUnmoved DEF StoreMoves, FileMoves
  <2> QED BY <1>1, <1>4, <2>2, <2>3
<1>5. CASE EnvironmentNext /\ UNCHANGED <<requestVars, ingestionVars, cleanupVars, stale>>
  <2>1. UNCHANGED requestVars /\ UNCHANGED ingestionVars /\ UNCHANGED cleanupVars
    BY <1>5
  <2>2. StoreMoves
    BY <1>0, <1>5, EnvironmentMoves
  <2>3. RequestsOK' /\ IngestionOK' /\ FileCleanupTypeOK'
    BY <1>0, <2>1, <2>2, RequestsUnmoved, SlotsUnmoved, CleanupUnmoved DEF StoreMoves, FileMoves
  <2> QED BY <1>1, <1>5, <2>2, <2>3
<1>6. CASE UNCHANGED fileVars
  <2>1. /\ UNCHANGED fileStoreVars /\ UNCHANGED requestVars /\ UNCHANGED ingestionVars
        /\ UNCHANGED cleanupVars /\ UNCHANGED stale
    BY <1>6 DEF fileVars
  <2>2. StoreMoves
    BY <1>0, <2>1, StoreUnchanged
  <2>3. RequestsOK' /\ IngestionOK' /\ FileCleanupTypeOK'
    BY <1>0, <2>1, <2>2, RequestsUnmoved, SlotsUnmoved, CleanupUnmoved DEF StoreMoves, FileMoves
  <2> QED BY <1>1, <2>1, <2>2, <2>3
<1> QED BY <1>2, <1>3, <1>4, <1>5, <1>6 DEF FileNext

LEMMA FileInvariant == FileSpec => []FileInv
<1>1. FileInit => FileInv
  BY FileInvInit
<1>2. FileInv /\ [FileNext]_fileVars => FileInv'
  BY FileInvStep
<1> QED BY <1>1, <1>2, PTL DEF FileSpec

\* The tables, requests, slots and crons of the file subsystem are well-typed,
\* however many of them there are and whatever they do to each other: no request
\* touches a job it has not found, no slot a file it has not resolved.
THEOREM FileTypeCorrect == FileSpec => []FileTypeOK
<1>1. FileInv => FileTypeOK
  BY DEF FileInv, StoreInv, RequestsOK, IngestionOK, FileTypeOK
<1> QED BY <1>1, FileInvariant, PTL

\* A file that deleteFile, deleteMultiple or the cleanup has soft-deleted stays
\* deleted: none of the entities that requests, ingestions and crons still hold
\* and save revives it, and no reservation takes over its row.
THEOREM DeletedForGood == FileSpec => DeletedStaysDeleted
<1>1. FileInv /\ [FileNext]_fileVars =>
        [\A f \in Ids : file[f].row = "deleted" => file'[f].row \in {"deleted", "gone"}]_fileVars
  BY FileInvStep DEF StoreMoves, FileMoves, RowsKept
<1> QED BY <1>1, FileInvariant, PTL DEF FileSpec, DeletedStaysDeleted

-----------------------------------------------------------------------------
(* Confirmations and cancellations.                                        *)

SameEntity(f) == file'[f].state = file[f].state /\ file'[f].hash = file[f].hash

\* What a step may do to the state of a file.
Respects(f) ==
    /\ file[f].state = "OK" /\ file'[f].state = "CANCELED" => f \in stale'
    /\ req' # req /\ file[f].row # "none" /\ file[f].state = "CANCELED" =>
            f \in stale' \/ EntityOf(f)' \in {EntityOf(f), ReservedEntity}

LEMMA SameEntityRespects ==
    ASSUME NEW f, SameEntity(f)
    PROVE  Respects(f)
  BY DEF SameEntity, Respects, EntityOf

\* A save of an entity that is not the row's is noted.
LEMMA RequestStale ==
    ASSUME NEW f \in Ids, NEW r \in Requests, NoteStale,
           req[r].pc \in {"saveFile", "cancel", "edit"}, f \in req[r].on, req'[r] # req[r],
           file'[f] # file[f], req[r].seen # EntityOf(f)
    PROVE  f \in stale'
  BY DEF NoteStale, StaleSave

LEMMA RequestRespects ==
    ASSUME StoreInv, RequestsOK, NEW r \in Requests, NoteStale,
           Receive(r) \/ Continue(r) \/ IssueFails(r) \/ RequestFails(r),
           NEW f \in Ids
    PROVE  Respects(f)
<1>1. file \in [Ids -> FileRow] /\ file[f] \in FileRow
  BY DEF StoreInv, FileStoreTypeOK
<1>2. req \in [Requests -> Request] /\ req[r] \in Request /\ GoodRequest(req[r])
      /\ req[r].seen \in Entity
  BY DEF RequestsOK, FileRequestsTypeOK, RequestInv, Request
<1>3. CASE UNCHANGED file
  BY <1>3, SameEntityRespects DEF SameEntity
<1>4. ASSUME NEW ids, file' = [g \in Ids |-> IF g \in ids THEN SoftDeleted(file[g]) ELSE file[g]]
      PROVE  Respects(f)
  <2>1. SameEntity(f)
    BY <1>1, <1>4, SoftDeletedRow DEF SameEntity
  <2> QED BY <2>1, SameEntityRespects
\* A save of an entity of f that was confirmed, canceled or edited.
<1>5. ASSUME NEW g \in req[r].on, NEW entity \in Entity, SaveFile(g, entity),
             req[r].pc \in {"saveFile", "cancel", "edit"}, req'[r] # req[r],
             req[r].seen = EntityOf(f) =>
                /\ ~(file[f].state = "OK" /\ entity.state = "CANCELED")
                /\ file[f].state = "CANCELED" => entity = req[r].seen
      PROVE  Respects(f)
  <2>1. CASE g # f
    <3>1. SameEntity(f) BY <1>1, <1>5, <2>1 DEF SaveFile, SameEntity
    <3> QED BY <3>1, SameEntityRespects
  <2>2. CASE g = f
    <3>1. file'[f].state = entity.state /\ file'[f].hash = entity.hash
      BY <1>1, <1>5, <2>2, SavedRow DEF SaveFile
    <3>2. CASE req[r].seen = EntityOf(f)
      BY <1>5, <3>1, <3>2 DEF Respects, EntityOf
    <3>3. CASE req[r].seen # EntityOf(f) /\ file'[f] # file[f]
      <4>1. f \in stale' BY <1>5, <2>2, <3>3, RequestStale
      <4> QED BY <4>1 DEF Respects
    <3>4. CASE file'[f] = file[f]
      BY <3>4, SameEntityRespects DEF SameEntity
    <3> QED BY <3>2, <3>3, <3>4
  <2> QED BY <2>1, <2>2
<1>6. ASSUME Answer(r) \/ Goto(r, "saveJob"), req[r].pc \in {"saveFile", "cancel", "edit"}
      PROVE  req'[r] # req[r]
  <2>1. CASE Answer(r)
    <3>1. req'[r] = NoRequest /\ NoRequest.pc = "idle"
      BY <1>2, <2>1 DEF Answer, NoRequest
    <3> QED BY <1>6, <3>1
  <2>2. CASE Goto(r, "saveJob")
    <3>1. req'[r].pc = "saveJob"
      BY <1>2, <2>2 DEF Goto, Request
    <3> QED BY <1>6, <3>1
  <2> QED BY <1>6, <2>1, <2>2
<1>7. CASE Receive(r)
  <2>1. UNCHANGED file
    BY <1>7 DEF Receive, ReadExisting, ConfirmUpload, ImportFromDrive, CancelUpload, EditFile,
       DeleteObject, DeleteObjects, QueueDelete, CancelProcessing, StopJob, fileStoreVars
  <2> QED BY <1>3, <2>1
<1>8. CASE Reserve(r)
  <2>0. PICK ids \in SUBSET FreshFiles : \E nameOf \in [ids -> NewNames(r)] :
            file' = [g \in Ids |-> ReservedRow(g, req[r].on, ids, nameOf)]
    BY <1>8 DEF Reserve
  <2>1. PICK nameOf \in [ids -> NewNames(r)] :
            file' = [g \in Ids |-> ReservedRow(g, req[r].on, ids, nameOf)]
    BY <2>0
  <2>2. file'[f] = ReservedRow(f, req[r].on, ids, nameOf)
    BY <2>1
  <2>3. CASE f \in req[r].on
    <3>1. ReservedEntity \in Entity /\ ReservedEntity.state = "UPLOADING"
      BY DEF ReservedEntity, Entity, FileState
    <3>2. file'[f].state = ReservedEntity.state /\ file'[f].hash = ReservedEntity.hash
      BY <1>1, <2>2, <2>3, <3>1, SavedRow DEF ReservedRow
    <3>3. EntityOf(f)' = ReservedEntity
      BY <3>2 DEF EntityOf, ReservedEntity
    <3> QED BY <3>1, <3>2, <3>3 DEF Respects
  <2>4. CASE f \notin req[r].on /\ f \in ids
    <3>1. file[f].row = "none" /\ file'[f].state = "UPLOADING"
      BY <2>2, <2>4 DEF ReservedRow, FreshFiles
    <3> QED BY <3>1 DEF Respects
  <2>5. CASE f \notin req[r].on /\ f \notin ids
    BY <2>2, <2>5, SameEntityRespects DEF ReservedRow, SameEntity
  <2> QED BY <2>3, <2>4, <2>5
<1>9. CASE IssueFails(r)
  <2>1. file' = CanceledIfUploading(req[r].on)
    BY <1>9 DEF IssueFails
  <2>2. file[f].state = "UPLOADING" \/ file'[f] = file[f]
    BY <2>1 DEF CanceledIfUploading
  <2>3. CASE file'[f] = file[f]
    BY <2>3, SameEntityRespects DEF SameEntity
  <2> QED BY <2>2, <2>3 DEF Respects
<1>10. CASE ConfirmFile(r)
  <2>1. req[r].pc = "saveFile" /\ req[r].seen.state # "CANCELED"
    BY <1>2, <1>10 DEF ConfirmFile, At, GoodRequest
  <2>2. PICK g \in req[r].on :
            \/ SaveFile(g, Confirmed(req[r].seen)) /\ Goto(r, "saveJob")
            \/ UNCHANGED file
    BY <1>10 DEF ConfirmFile
  <2>3. Confirmed(req[r].seen) \in Entity /\ Confirmed(req[r].seen).state # "CANCELED"
    BY <1>2, <2>1 DEF Confirmed, Entity, FileState
  <2>4. req[r].seen = EntityOf(f) => file[f].state # "CANCELED"
    BY <2>1 DEF EntityOf
  <2> QED BY <1>3, <1>5, <1>6, <2>1, <2>2, <2>3, <2>4
<1>11. CASE CancelSave(r)
  <2>1. req[r].pc = "cancel" /\ req[r].seen.state # "OK"
    BY <1>2, <1>11 DEF CancelSave, At, GoodRequest
  <2>2. PICK g \in req[r].on :
            \/ SaveFile(g, Seen(r, "CANCELED")) /\ Answer(r)
            \/ UNCHANGED file
    BY <1>11 DEF CancelSave
  <2>3. Seen(r, "CANCELED") \in Entity
    BY <1>2 DEF Seen, Entity, FileState
  <2>4. req[r].seen.state = "CANCELED" => Seen(r, "CANCELED") = req[r].seen
    BY <1>2 DEF Seen, Entity
  <2>5. req[r].seen = EntityOf(f) => file[f].state = req[r].seen.state
    BY DEF EntityOf
  <2> QED BY <1>3, <1>5, <1>6, <2>1, <2>2, <2>3, <2>4, <2>5
<1>12. CASE EditSave(r)
  <2>1. req[r].pc = "edit"
    BY <1>12 DEF EditSave, At
  <2>2. PICK g \in req[r].on :
            \/ SaveFile(g, req[r].seen) /\ Answer(r)
            \/ UNCHANGED file
    BY <1>12 DEF EditSave
  <2>3. req[r].seen = EntityOf(f) => file[f].state = req[r].seen.state
    BY DEF EntityOf
  <2> QED BY <1>2, <1>3, <1>5, <1>6, <2>1, <2>2, <2>3
<1>13. CASE SoftRemoveFile(r) \/ DeleteMultiple(r)
  BY <1>4, <1>13 DEF SoftRemoveFile, DeleteMultiple
<1>14. CASE QueueRemoveFile(r)
  <2>1. file'[f] = Removed(file[f]) \/ file'[f] = file[f]
    BY <1>14 DEF QueueRemoveFile
  <2>2. SameEntity(f)
    BY <1>1, <2>1, RemovedRow DEF SameEntity
  <2> QED BY <2>2, SameEntityRespects
<1>15. CASE \/ ReserveConflict(r) \/ IssueCredentials(r) \/ FindJob(r) \/ StatObject(r)
            \/ ConfirmJob(r) \/ EnqueueJob(r) \/ QueueDequeue(r) \/ QueueRemoveJob(r)
            \/ QueueFindFile(r) \/ QueueRemoveObject(r)
            \/ CancelDequeue(r) \/ CancelSaveJob(r) \/ StopSave(r) \/ RequestFails(r)
  BY <1>3, <1>15 DEF ReserveConflict, IssueCredentials, FindJob, StatObject, ConfirmJob,
     EnqueueJob, QueueDequeue, QueueRemoveJob, QueueFindFile, QueueRemoveObject, CancelDequeue,
     CancelSaveJob, StopSave, RequestFails, fileStoreVars
<1>16. CASE Continue(r)
  BY <1>8, <1>10, <1>11, <1>12, <1>13, <1>14, <1>15, <1>16 DEF Continue
<1> QED BY <1>7, <1>9, <1>15, <1>16

\* A save that does not write CANCELED cancels nothing.
LEMMA SaveCancelsNot ==
    ASSUME file \in [Ids -> FileRow], NEW g, NEW entity \in Entity, entity.state # "CANCELED",
           SaveFile(g, entity) \/ SaveCreated(g, entity), NEW f \in Ids
    PROVE  file'[f].state = file[f].state \/ file'[f].state # "CANCELED"
<1>1. CASE g # f
  BY <1>1 DEF SaveFile, SaveCreated
<1>2. CASE g = f
  <2>1. Saved(f, entity) \in FileRow /\ Saved(f, entity).state = entity.state
    BY SavedRow
  <2>2. [Saved(f, entity) EXCEPT !.row = IF @ = "gone" THEN "live" ELSE @].state = entity.state
    BY <2>1 DEF FileRow
  <2> QED BY <1>2, <2>1, <2>2 DEF SaveFile, SaveCreated
<1> QED BY <1>1, <1>2

LEMMA InsertCancelsNot ==
    ASSUME file \in [Ids -> FileRow], NEW g, NEW name, NEW state, NEW hash, state # "CANCELED",
           InsertFile(g, name, state, hash), NEW f \in Ids
    PROVE  file'[f].state = file[f].state \/ file'[f].state # "CANCELED"
  BY DEF InsertFile

\* Ingestion never cancels a file.
LEMMA IngestionCancelsNot ==
    ASSUME StoreInv, IngestionOK, IngestionNext, NEW f \in Ids
    PROVE  file'[f].state = file[f].state \/ file'[f].state # "CANCELED"
<1> DEFINE Q == file'[f].state = file[f].state \/ file'[f].state # "CANCELED"
<1>1. file \in [Ids -> FileRow]
  BY DEF StoreInv, FileStoreTypeOK
<1>2. ASSUME UNCHANGED file PROVE Q
  BY <1>2
<1>3. CASE Stall
  BY <1>2, <1>3 DEF Stall
<1>4. ASSUME NEW s \in Slots, Take(s) \/ ProcessNext(s) PROVE Q
  <2>1. slot[s] \in Slot /\ slot[s].seen \in Entity
    BY DEF IngestionOK, IngestionTypeOK, Slot
  <2>2. ASSUME NEW from, NEW state \in FileState \ {"CANCELED"}, NEW to, NEW refused,
               SaveSeen(s, from, state, to, refused)
        PROVE  Q
    <3> DEFINE entity == [slot[s].seen EXCEPT !.state = state]
    <3>1. entity \in Entity /\ entity.state = state
      BY <2>1 DEF Entity
    <3>2. SaveCreated(slot[s].file, entity) \/ SaveFile(slot[s].file, entity) \/ UNCHANGED file
      BY <2>2 DEF SaveSeen
    <3> HIDE DEF entity
    <3> QED BY <1>1, <1>2, <2>2, <3>1, <3>2, SaveCancelsNot
  <2>3. ASSUME NEW state \in FileState \ {"CANCELED"}, NEW to, SaveMcap(s, state, to) PROVE Q
    <3>1. McapEntity(s, state) \in Entity /\ McapEntity(s, state).state = state
      BY DEF McapEntity, Entity
    <3>2. SaveCreated(slot[s].mcap, McapEntity(s, state)) \/ UNCHANGED file
      BY <2>3 DEF SaveMcap
    <3> QED BY <1>1, <1>2, <2>3, <3>1, <3>2, SaveCancelsNot
  <2>4. CASE \/ RejectFile(s) \/ Extract(s) \/ PromoteBag(s) \/ BagFailed(s)
    BY <2>2, <2>4 DEF RejectFile, Extract, PromoteBag, BagFailed, FileState
  <2>5. CASE FinishFile(s)
    <3>1. CASE slot[s].seen.state = "UPLOADING"
      BY <2>2, <2>5, <3>1 DEF FinishFile, FileState
    <3>2. CASE slot[s].seen.state # "UPLOADING"
      BY <1>2, <2>5, <3>2 DEF FinishFile, fileStoreVars
    <3> QED BY <3>1, <3>2
  <2>6. CASE ExtractMcap(s)
    <3>1. CASE SaveMcap(s, "OK", "hashMcap")
      BY <2>3, <3>1 DEF FileState
    <3>2. CASE UNCHANGED <<fileStoreVars, crashVars>>
      BY <1>2, <3>2 DEF fileStoreVars
    <3> QED BY <2>6, <3>1, <3>2 DEF ExtractMcap
  <2>7. CASE SaveHash(s) \/ McapFailed(s)
    BY <2>3, <2>7 DEF SaveHash, McapFailed, FileState
  <2>8. CASE CreateDriveFile(s)
    <3>1. UNCHANGED file \/ \E name, g : InsertFile(g, name, "UPLOADING", "md5")
      BY <2>8 DEF CreateDriveFile
    <3> QED BY <1>1, <1>2, <3>1, InsertCancelsNot
  <2>9. CASE InsertMcap(s)
    <3>1. UNCHANGED file \/ \E name, g : InsertFile(g, name, "CONVERTING", "null")
      BY <2>9 DEF InsertMcap
    <3> QED BY <1>1, <1>2, <3>1, InsertCancelsNot
  <2>10. CASE \/ Take(s) \/ Load(s) \/ SaveChild(s) \/ AddChild(s) \/ AddChildFails(s)
              \/ Fetch(s) \/ ResolveUpload(s) \/ UploadDriveFile(s) \/ Validate(s) \/ Convert(s)
              \/ HashMcap(s) \/ UploadMcap(s) \/ RecordConversion(s)
    BY <1>2, <2>10 DEF Take, Load, SaveChild, AddChild, AddChildFails, Fetch, ResolveUpload,
       UploadDriveFile, Validate, Convert, HashMcap, UploadMcap, RecordConversion, fileStoreVars
  <2>11. CASE \/ ExpandEnds(s) \/ MarkDownloading(s) \/ Discard(s) \/ RejectJob(s)
              \/ MarkProcessing(s) \/ MarkConverting(s) \/ MarkUploading(s) \/ CompleteJob(s)
              \/ FailJob(s)
    BY <1>2, <2>11 DEF ExpandEnds, MarkDownloading, Discard, RejectJob, MarkProcessing,
       MarkConverting, MarkUploading, CompleteJob, FailJob, Mark, End
  <2> QED BY <1>4, <2>4, <2>5, <2>6, <2>7, <2>8, <2>9, <2>10, <2>11 DEF ProcessNext
<1> QED BY <1>3, <1>4 DEF IngestionNext

\* A save of fixFileHashes moves the cron on.
LEMMA RepairMovesOn ==
    ASSUME FileCleanupTypeOK, SaveHashOf
    PROVE  repair' # repair
<1>0. repair \in Repair
  BY DEF FileCleanupTypeOK
<1>1. repair.pc = "save"
  BY DEF SaveHashOf
<1>2. repair'.pc # "save"
  <2>1. \A seen : /\ [repair EXCEPT !.pc = "stream", !.seen = seen, !.file = NoId].pc = "stream"
                  /\ [[repair EXCEPT !.pc = "stream", !.seen = seen, !.file = NoId] EXCEPT
                        !.pc = "idle", !.list = {}, !.seen = NothingSeen].pc = "idle"
    BY <1>0 DEF Repair
  <2>2. \E seen : \/ repair' = [repair EXCEPT !.pc = "stream", !.seen = seen, !.file = NoId]
                  \/ repair' = [[repair EXCEPT !.pc = "stream", !.seen = seen, !.file = NoId]
                          EXCEPT !.pc = "idle", !.list = {}, !.seen = NothingSeen]
    <3>1. [repair EXCEPT !.pc = "stream", !.seen[repair.file] = NoEntity, !.file = NoId] =
          [repair EXCEPT !.pc = "stream", !.file = NoId,
                         !.seen = [repair.seen EXCEPT ![repair.file] = NoEntity]]
      BY <1>0 DEF Repair
    <3> QED BY <3>1 DEF SaveHashOf
  <2> QED BY <2>1, <2>2
<1> QED BY <1>1, <1>2

\* Of the crons, only fixFileHashes can, with an entity that is out of date.
LEMMA CronRespects ==
    ASSUME StoreInv, FileCleanupTypeOK, NoteStale, CleanupNext \/ RepairNext, NEW f \in Ids,
           file[f].state = "OK", file'[f].state = "CANCELED"
    PROVE  f \in stale'
<1>1. file \in [Ids -> FileRow] /\ file[f] \in FileRow
  BY DEF StoreInv, FileStoreTypeOK
<1>2. cleaner \in Cleaner /\ repair \in Repair
  BY DEF FileCleanupTypeOK
<1>3. CASE UNCHANGED file
  BY <1>3
<1>4. CASE TimeOut
  <2>1. PICK g \in cleaner.late :
            SaveFile(g, [cleaner.seen[g] EXCEPT !.state = "ERROR"]) \/ UNCHANGED file
    BY <1>4 DEF TimeOut
  <2>2. cleaner.seen[g] \in Entity
    BY <1>2 DEF Cleaner
  <2> DEFINE entity == [cleaner.seen[g] EXCEPT !.state = "ERROR"]
  <2>3. entity \in Entity /\ entity.state = "ERROR"
    BY <2>2 DEF Entity, FileState
  <2>4. SaveFile(g, entity) \/ UNCHANGED file
    BY <2>1
  <2> HIDE DEF entity
  <2> QED BY <1>1, <1>3, <2>3, <2>4, SaveCancelsNot
<1>5. CASE DisposeRow
  <2>1. \E g : file' = [file EXCEPT ![g] = SoftDeletedIfCanceled(g)]
    BY <1>5 DEF DisposeRow
  <2>2. file'[f] = file[f] \/ file'[f] = SoftDeletedIfCanceled(f)
    BY <1>1, <2>1
  <2>3. SoftDeletedIfCanceled(f).state = file[f].state
    BY <1>1, SoftDeletedRow DEF SoftDeletedIfCanceled
  <2> QED BY <2>2, <2>3
<1>6. CASE SaveHashOf
  <2> DEFINE entity == [repair.seen[repair.file] EXCEPT !.hash = "md5"]
  <2>1. SaveFile(repair.file, entity) \/ UNCHANGED file
    BY <1>6 DEF SaveHashOf
  <2>2. CASE repair.file # f
    <3>1. file'[f] = file[f]
      BY <1>1, <2>1, <2>2 DEF SaveFile
    <3> QED BY <3>1
  <2>3. CASE repair.file = f
    <3>1. repair.seen[f] \in Entity
      BY <1>2, <2>3 DEF Repair
    <3>2. entity \in Entity /\ entity.state = repair.seen[f].state
      BY <2>3, <3>1 DEF Entity
    <3>3. repair.seen[f].state = "CANCELED"
      <4> HIDE DEF entity
      <4> QED BY <1>1, <2>1, <2>3, <3>2, SavedRow DEF SaveFile
    <3>4. repair.seen[f] # EntityOf(f)
      BY <3>3 DEF EntityOf
    <3>5. repair' # repair
      BY <1>6, RepairMovesOn
    <3>6. file'[f] # file[f]
      OBVIOUS
    <3> QED BY <2>3, <3>4, <3>5, <3>6 DEF NoteStale, StaleSave
  <2> QED BY <2>2, <2>3
<1>7. CASE \/ FindUploads \/ UploadsTimedOut \/ FindJobs \/ TimeOutJob \/ FindCanceled
           \/ DisposeJobs \/ DisposeObject \/ FindUnhashed \/ StreamObject \/ RepairEnds
  BY <1>3, <1>7 DEF FindUploads, UploadsTimedOut, FindJobs, TimeOutJob, FindCanceled,
     DisposeJobs, DisposeObject, FindUnhashed, StreamObject, RepairEnds, fileStoreVars
<1> QED BY <1>4, <1>5, <1>6, <1>7 DEF CleanupNext, RepairNext

LEMMA StepRespects ==
    ASSUME FileInv, [FileNext]_fileVars, NEW f \in Ids
    PROVE  Respects(f)
<1>0. StoreInv /\ RequestsOK /\ IngestionOK /\ FileCleanupTypeOK /\ file \in [Ids -> FileRow]
  BY DEF FileInv, StoreInv, FileStoreTypeOK
<1>1. CASE RequestNext /\ NoteStale
  BY <1>0, <1>1, RequestRespects DEF RequestNext
<1>2. CASE IngestionNext /\ UNCHANGED <<requestVars, cleanupVars>> /\ NoteStale
  <2>1. req' = req
    BY <1>2 DEF requestVars
  <2> QED BY <1>0, <1>2, <2>1, IngestionCancelsNot DEF Respects
<1>3. CASE (CleanupNext \/ RepairNext) /\ UNCHANGED <<requestVars, ingestionVars>> /\ NoteStale
  <2>1. req' = req
    BY <1>3 DEF requestVars
  <2> QED BY <1>0, <1>3, <2>1, CronRespects DEF Respects
<1>4. CASE EnvironmentNext
  <2>1. ASSUME NEW g \in Ids, FileAges(g) PROVE SameEntity(f)
    <3>1. file[f] \in FileRow BY <1>0
    <3>2. file'[f] = file[f] \/ file'[f] = [file[f] EXCEPT !.old = TRUE]
      BY <1>0, <2>1 DEF FileAges
    <3> QED BY <3>1, <3>2 DEF SameEntity, FileRow
  <2>2. SameEntity(f)
    BY <1>4, <2>1 DEF EnvironmentNext, PutObject, JobAges, SameEntity
  <2> QED BY <2>2, SameEntityRespects
<1>5. CASE UNCHANGED fileVars
  BY <1>5, SameEntityRespects DEF SameEntity, fileVars, fileStoreVars
<1> QED BY <1>1, <1>2, <1>3, <1>4, <1>5 DEF FileNext

\* An upload that was confirmed is not canceled, by a request to cancel it, by a
\* reservation whose credentials failed, nor by a cron: only by the save of an
\* entity that was read before the confirmation.
THEOREM ConfirmationKept == FileSpec => ConfirmedKept
<1>1. FileInv /\ [FileNext]_fileVars =>
        [\A f \in Ids : file[f].state = "OK" /\ file'[f].state = "CANCELED" => f \in stale']_fileVars
  BY StepRespects DEF Respects
<1> QED BY <1>1, FileInvariant, PTL DEF FileSpec, ConfirmedKept

\* An upload that was canceled is not confirmed or edited back by a request: it
\* stays as it is or is reserved anew, unless an entity out of date is saved.
THEOREM CancellationKept == FileSpec => CanceledKept
<1>1. FileInv /\ [FileNext]_fileVars =>
        [\A f \in Ids : req' # req /\ file[f].row # "none" /\ file[f].state = "CANCELED"
            => f \in stale' \/ EntityOf(f)' \in {EntityOf(f), ReservedEntity}]_fileVars
  BY StepRespects DEF Respects
<1> QED BY <1>1, FileInvariant, PTL DEF FileSpec, CanceledKept
-----------------------------------------------------------------------------
(* The custody of ingestion jobs.                                          *)

\* Somebody has to move the job on.
Pending(j) ==
    /\ LiveJob(j)
    /\ job[j].state >= QueueState.AWAITING_PROCESSING
    /\ job[j].state < QueueState.COMPLETED

\* A request that has the job in hand, and how a slot has it.
Holds(e, j) == e.job = j /\ e.pc \in {"enqueue", "removeJob", "canceled"}
Works(e, j) == e.job = j \/ e.child = j

\* An idle slot has no job, and a slot knows a child only while it queues it.
HandsFree(e) ==
    /\ e.pc = "idle" => e.job = NoJob
    /\ e.child # NoJob => e.pc = "addChild"

ChildInv == \A s \in Slots : HandsFree(slot[s])

CustodyInv == ChildInv /\ NoOrphanedJob

LEMMA StateNumbers ==
    /\ QueueState.AWAITING_UPLOAD = 0 /\ QueueState.AWAITING_PROCESSING = 10
    /\ QueueState.PROCESSING = 20 /\ QueueState.DOWNLOADING = 21
    /\ QueueState.CONVERTING_AND_EXTRACTING_TOPICS = 22 /\ QueueState.UPLOADING = 23
    /\ QueueState.COMPLETED = 30 /\ QueueState.ERROR = 40
    /\ QueueState.CORRUPTED = 41 /\ QueueState.CANCELED = 42
  BY DEF QueueState

\* A save of a job changes no other job, and where it is known by which file.
LEMMA SavedJob ==
    ASSUME job \in [JobIds -> JobRow], NEW j \in JobIds, NEW state \in QueueStates,
           SaveJob(j, state)
    PROVE  /\ \A k \in JobIds : k # j => job'[k] = job[k]
           /\ job'[j].state = state /\ job'[j].of = job[j].of
           /\ job'[j].row = IF job[j].row = "gone" THEN "live" ELSE job[j].row
<1> DEFINE new == [job[j] EXCEPT !.state = state, !.old = FALSE,
                                 !.row = IF @ = "gone" THEN "live" ELSE @]
<1>1. job[j] \in JobRow OBVIOUS
<1>2. /\ new.state = state /\ new.of = job[j].of
      /\ new.row = IF job[j].row = "gone" THEN "live" ELSE job[j].row
  BY <1>1 DEF JobRow
<1>3. job' = [job EXCEPT ![j] = new] BY <1>1 DEF SaveJob, JobRow
<1> HIDE DEF new
<1> QED BY <1>2, <1>3

\* A job that is neither saved nor inserted does not become pending.
LEMMA JobSame ==
    ASSUME NEW j, job'[j] = job[j]
    PROVE  Pending(j)' => Pending(j)
  BY DEF Pending, LiveJob

\* While one request is served, a job stays attended unless that request lets go.
LEMMA RequestKeepsCustody ==
    ASSUME NEW r \in Requests, NEW j \in JobIds, UNCHANGED <<slot, dropped>>,
           \A q \in Requests \ {r} : req'[q] = req[q],
           abandoned \subseteq abandoned', JobAttended(j),
           waiting[j] > 0 => waiting'[j] > 0 \/ Holds(req'[r], j),
           Holds(req[r], j) => \/ Holds(req'[r], j) \/ j \in abandoned' \/ waiting'[j] > 0
    PROVE  JobAttended(j)'
<1>1. CASE waiting[j] > 0 \/ Holds(req[r], j)
  BY <1>1 DEF JobAttended, Holds
<1>2. CASE \E q \in Requests \ {r} : Holds(req[q], j)
  BY <1>2 DEF JobAttended, Holds
<1>3. CASE (\E s \in Slots : slot[s].job = j \/ slot[s].child = j) \/ j \in dropped \cup abandoned
  BY <1>3 DEF JobAttended
<1> QED BY <1>1, <1>2, <1>3 DEF JobAttended, Holds

\* The same of a slot of the queue consumer.
LEMMA SlotKeepsCustody ==
    ASSUME NEW s \in Slots, NEW j \in JobIds, UNCHANGED <<req, abandoned>>,
           \A t \in Slots \ {s} : slot'[t] = slot[t],
           dropped \subseteq dropped', JobAttended(j),
           waiting[j] > 0 => waiting'[j] > 0 \/ Works(slot'[s], j),
           Works(slot[s], j) => \/ Works(slot'[s], j) \/ j \in dropped' \/ waiting'[j] > 0
    PROVE  JobAttended(j)'
<1>1. CASE waiting[j] > 0 \/ Works(slot[s], j)
  BY <1>1 DEF JobAttended, Works
<1>2. CASE \E t \in Slots \ {s} : Works(slot[t], j)
  BY <1>2 DEF JobAttended, Works
<1>3. CASE \/ j \in dropped \cup abandoned
           \/ \E r \in Requests : req[r].job = j /\ req[r].pc \in {"enqueue", "removeJob", "canceled"}
  BY <1>3 DEF JobAttended
<1> QED BY <1>1, <1>2, <1>3 DEF JobAttended, Works

\* A step of a request changes the locals of that request only.
LEMMA OneRequest ==
    ASSUME RequestsOK, NEW r \in Requests,
           Receive(r) \/ Continue(r) \/ IssueFails(r) \/ RequestFails(r)
    PROVE  /\ \A q \in Requests \ {r} : req'[q] = req[q]
           /\ abandoned \subseteq abandoned'
<1>1. req \in [Requests -> Request]
  BY DEF RequestsOK, FileRequestsTypeOK
<1>2. ASSUME \/ Answer(r) \/ \E pc : Goto(r, pc)
             \/ \E kind, locals : Begin(r, kind, locals)
      PROVE  (\A q \in Requests \ {r} : req'[q] = req[q]) /\ UNCHANGED abandoned
  BY <1>1, <1>2 DEF Answer, Goto, Begin
<1>3. CASE Receive(r)
  BY <1>2, <1>3 DEF Receive, ReadExisting, ConfirmUpload, ImportFromDrive, CancelUpload, EditFile,
     DeleteObject, DeleteObjects, QueueDelete, CancelProcessing, StopJob, BeginOn, BeginJob
<1>4. CASE Reserve(r)
  BY <1>1, <1>4 DEF Reserve
<1>5. CASE FindJob(r)
  <2>1. PICK j \in JobIds : \/ Answer(r)
                            \/ /\ req' = [req EXCEPT ![r].pc = "stat", ![r].job = j]
                               /\ UNCHANGED abandoned
    BY <1>5 DEF FindJob
  <2> QED BY <1>1, <1>2, <2>1
<1>6. CASE QueueRemoveJob(r)
  BY <1>1, <1>2, <1>6 DEF QueueRemoveJob
<1>7. CASE RequestFails(r)
  BY <1>1, <1>7 DEF RequestFails
<1>8. CASE \/ ReserveConflict(r) \/ IssueCredentials(r) \/ IssueFails(r) \/ EnqueueJob(r)
           \/ CancelSave(r) \/ EditSave(r) \/ SoftRemoveFile(r) \/ DeleteMultiple(r)
           \/ QueueRemoveFile(r) \/ CancelSaveJob(r) \/ StopSave(r) \/ StatObject(r)
           \/ ConfirmFile(r) \/ ConfirmJob(r) \/ QueueDequeue(r) \/ CancelDequeue(r)
           \/ QueueFindFile(r) \/ QueueRemoveObject(r)
  BY <1>2, <1>8 DEF ReserveConflict, IssueCredentials, IssueFails, EnqueueJob, CancelSave,
     EditSave, SoftRemoveFile, DeleteMultiple, QueueRemoveFile, CancelSaveJob, StopSave,
     StatObject, ConfirmFile, ConfirmJob, QueueDequeue, CancelDequeue, QueueFindFile,
     QueueRemoveObject
<1> QED BY <1>3, <1>4, <1>5, <1>6, <1>7, <1>8 DEF Continue
\* Requests delete, cancel, stop and queue jobs without leaving one unattended.
LEMMA RequestCustody ==
    ASSUME StoreInv, RequestsOK, NEW r \in Requests, UNCHANGED ingestionVars,
           Receive(r) \/ Continue(r) \/ IssueFails(r) \/ RequestFails(r),
           NEW j \in JobIds, Pending(j) => JobAttended(j)
    PROVE  Pending(j)' => JobAttended(j)'
<1> DEFINE Q == Pending(j)' => JobAttended(j)'
           e == req'[r]
<1>1. /\ job \in [JobIds -> JobRow] /\ job[j] \in JobRow
      /\ waiting \in [JobIds -> Nat] /\ waiting[j] \in Nat
  BY DEF StoreInv, FileStoreTypeOK
<1>2. req \in [Requests -> Request] /\ req[r] \in Request /\ GoodRequest(req[r])
  BY DEF RequestsOK, FileRequestsTypeOK, RequestInv
<1>3. UNCHANGED <<slot, dropped>>
  BY DEF ingestionVars
<1>4. (\A q \in Requests \ {r} : req'[q] = req[q]) /\ abandoned \subseteq abandoned'
  BY OneRequest
<1>5. ASSUME Pending(j)' => Pending(j), waiting[j] > 0 => waiting'[j] > 0 \/ Holds(e, j),
             Holds(req[r], j) => Holds(e, j) \/ j \in abandoned' \/ waiting'[j] > 0
      PROVE  Q
  BY <1>3, <1>4, <1>5, RequestKeepsCustody
\* The steps that leave the jobs and the queue alone, and have no job in hand.
<1>6. ASSUME UNCHANGED <<job, waiting>>, ~Holds(req[r], j) PROVE Q
  BY <1>5, <1>6, JobSame
<1>7. CASE RequestFails(r)
  <2>1. Holds(req[r], j) => j \in HalfDone(r)
    BY DEF Holds, HalfDone
  <2>2. UNCHANGED <<job, waiting>> /\ abandoned' = abandoned \cup HalfDone(r)
    BY <1>7 DEF RequestFails, fileStoreVars
  <2> QED BY <1>5, <2>1, <2>2, JobSame
<1>8. CASE Receive(r) /\ ~ImportFromDrive(r)
  <2>1. req[r].pc = "idle" /\ UNCHANGED <<job, waiting>>
    BY <1>8 DEF Receive, ReadExisting, ConfirmUpload, CancelUpload, EditFile, DeleteObject,
       DeleteObjects, QueueDelete, CancelProcessing, StopJob, BeginOn, BeginJob, Begin, At,
       fileStoreVars
  <2> QED BY <1>6, <2>1 DEF Holds
<1>9. CASE ImportFromDrive(r)
  <2> PICK i \in JobIds :
        InsertJob(i, NoId, QueueState.AWAITING_PROCESSING) /\ BeginJob(r, "import", "enqueue", i)
    BY <1>9 DEF ImportFromDrive
  <2>1. e = [NoRequest EXCEPT !.pc = "enqueue", !.job = i] /\ req[r].pc = "idle"
    BY <1>2 DEF BeginJob, Begin, At
  <2>2. e.pc = "enqueue" /\ e.job = i
    BY <2>1 DEF NoRequest
  <2>3. CASE i = j
    BY <2>2, <2>3 DEF JobAttended
  <2>4. CASE i # j
    <3>1. job'[j] = job[j] /\ UNCHANGED waiting
      BY <1>1, <1>9, <2>4 DEF InsertJob, ImportFromDrive
    <3> QED BY <1>5, <2>1, <3>1, JobSame DEF Holds
  <2> QED BY <2>3, <2>4
<1>10. CASE \/ Reserve(r) \/ ReserveConflict(r) \/ IssueCredentials(r) \/ IssueFails(r)
            \/ StatObject(r) \/ ConfirmFile(r) \/ CancelSave(r) \/ EditSave(r)
            \/ SoftRemoveFile(r) \/ QueueFindFile(r) \/ QueueRemoveObject(r) \/ QueueRemoveFile(r)
  <2>1. /\ req[r].pc \in {"reserve", "issue", "stat", "saveFile", "cancel", "edit", "delete",
                          "findFile", "removeObject", "removeFile"}
        /\ UNCHANGED <<job, waiting>>
    BY <1>10 DEF Reserve, ReserveConflict, IssueCredentials, IssueFails, StatObject, ConfirmFile,
       CancelSave, EditSave, SoftRemoveFile, QueueFindFile, QueueRemoveObject, QueueRemoveFile, At,
       fileStoreVars
  <2> QED BY <1>6, <2>1 DEF Holds
<1>11. CASE FindJob(r)
  <2>1. PICK f \in req[r].on, i \in JobIds :
            UNCHANGED job \/ InsertJob(i, f, QueueState.AWAITING_UPLOAD)
    BY <1>11 DEF FindJob
  <2>2. job'[j] = job[j] \/ job'[j].state = 0
    BY <1>1, <2>1, StateNumbers DEF InsertJob
  <2>3. Pending(j)' => Pending(j)
    BY <2>2, JobSame, StateNumbers DEF Pending
  <2>4. req[r].pc = "findJob" /\ UNCHANGED waiting
    BY <1>11 DEF FindJob, At
  <2> QED BY <1>5, <2>3, <2>4 DEF Holds
<1>12. CASE ConfirmJob(r)
  <2>1. /\ req[r].pc = "saveJob" /\ req[r].job \in JobIds /\ UNCHANGED waiting
        /\ SaveJob(req[r].job, QueueState.AWAITING_PROCESSING)
    BY <1>2, <1>12 DEF ConfirmJob, At, GoodRequest
  <2>2. e.pc = "enqueue" /\ e.job = req[r].job
    BY <1>2, <1>12 DEF ConfirmJob, Goto, Request
  <2>3. CASE j = req[r].job
    BY <2>2, <2>3 DEF JobAttended
  <2>4. CASE j # req[r].job
    <3>1. job'[j] = job[j]
      BY <1>1, <2>1, <2>4, SavedJob, StatesOfJobs
    <3> QED BY <1>5, <2>1, <3>1, JobSame DEF Holds
  <2> QED BY <2>3, <2>4
<1>13. CASE EnqueueJob(r)
  <2>1. UNCHANGED job /\ waiting' = [waiting EXCEPT ![req[r].job] = waiting[req[r].job] + 1]
    BY <1>13 DEF EnqueueJob, Enqueue
  <2>2. /\ req[r].job = j => waiting'[j] = waiting[j] + 1
        /\ req[r].job # j => waiting'[j] = waiting[j]
    BY <1>1, <2>1
  <2> QED BY <1>1, <1>5, <2>1, <2>2, JobSame DEF Holds
<1>14. CASE DeleteMultiple(r)
  <2>1. job'[j] = job[j] \/ job'[j] = SoftDeleted(job[j])
    BY <1>14 DEF DeleteMultiple, SoftDeleteJobs
  <2>2. SoftDeleted(job[j]) = job[j] \/ SoftDeleted(job[j]).row = "deleted"
    BY <1>1 DEF SoftDeleted, JobRow
  <2>3. Pending(j)' => Pending(j)
    BY <2>1, <2>2, JobSame DEF Pending, LiveJob
  <2>4. req[r].pc = "deleteMany" /\ UNCHANGED waiting
    BY <1>14 DEF DeleteMultiple, At
  <2> QED BY <1>5, <2>3, <2>4 DEF Holds
<1>15. CASE QueueDequeue(r) \/ CancelDequeue(r)
  <2>1. /\ RemoveWaiting(req[r].job) /\ UNCHANGED job
        /\ e.pc \in {"removeJob", "canceled"} /\ e.job = req[r].job
        /\ req[r].pc \in {"dequeue", "unqueue"}
    BY <1>2, <1>15 DEF QueueDequeue, CancelDequeue, Goto, Request, At
  <2>2. req[r].job # j => waiting'[j] = waiting[j]
    BY <1>1, <2>1 DEF RemoveWaiting
  <2> QED BY <1>5, <2>1, <2>2, JobSame DEF Holds
<1>16. CASE QueueRemoveJob(r)
  <2>1. job' = [job EXCEPT ![req[r].job].row = "gone"] /\ UNCHANGED waiting
    BY <1>16 DEF QueueRemoveJob
  <2>2. CASE j = req[r].job
    <3>1. job'[j].row = "gone"
      BY <1>1, <2>1, <2>2 DEF JobRow
    <3> QED BY <3>1 DEF Pending, LiveJob
  <2>3. CASE j # req[r].job
    <3>1. job'[j] = job[j]
      BY <1>1, <2>1, <2>3
    <3> QED BY <1>5, <2>1, <2>3, <3>1, JobSame DEF Holds
  <2> QED BY <2>2, <2>3
<1>17. CASE CancelSaveJob(r) \/ StopSave(r)
  <2>1. /\ req[r].pc \in {"canceled", "stop"} /\ req[r].job \in JobIds /\ UNCHANGED waiting
        /\ \/ SaveJob(req[r].job, QueueState.CANCELED) \/ SaveJob(req[r].job, QueueState.ERROR)
           \/ req[r].pc = "stop" /\ UNCHANGED job
    BY <1>2, <1>17 DEF CancelSaveJob, StopSave, At, GoodRequest
  <2>2. CASE UNCHANGED job /\ req[r].pc = "stop"
    BY <1>6, <2>1, <2>2 DEF Holds
  <2>3. CASE SaveJob(req[r].job, QueueState.CANCELED) \/ SaveJob(req[r].job, QueueState.ERROR)
    <3>1. /\ job'[req[r].job].state >= 30
          /\ j # req[r].job => job'[j] = job[j]
      BY <1>1, <2>1, <2>3, SavedJob, StatesOfJobs, StateNumbers
    <3>2. CASE j = req[r].job
      <4>1. job'[j].state \in Nat /\ job'[j].state >= 30
        BY <1>1, <2>1, <2>3, <3>2, SavedJob, StatesOfJobs, StateNumbers
      <4> QED BY <4>1, StateNumbers DEF Pending
    <3>3. CASE j # req[r].job
      BY <1>5, <2>1, <3>1, <3>3, JobSame DEF Holds
    <3> QED BY <3>2, <3>3
  <2> QED BY <2>1, <2>2, <2>3
<1>18. CASE Continue(r)
  BY <1>10, <1>11, <1>12, <1>13, <1>14, <1>15, <1>16, <1>17, <1>18 DEF Continue
<1> QED BY <1>7, <1>8, <1>9, <1>10, <1>18
\* What a step of a slot does with jobs, unless it handles a child of a folder:
\* it keeps the job it works on, or it leaves that job settled.
SlotJobs(s) ==
    /\ \A t \in Slots \ {s} : slot'[t] = slot[t]
    /\ UNCHANGED waiting /\ UNCHANGED crashVars
    /\ \A k \in JobIds : k # slot[s].job => job'[k] = job[k]
    /\ \/ slot'[s].job = slot[s].job /\ slot'[s].child = slot[s].child
       \/ /\ slot'[s] = IdleSlot /\ slot[s].pc # "addChild"
          /\ \A k \in JobIds : k = slot[s].job => ~Pending(k)'

LEMMA SlotJobsCustody ==
    ASSUME NEW s \in Slots, SlotJobs(s), ChildInv, UNCHANGED requestVars,
           NEW j \in JobIds, Pending(j) => JobAttended(j)
    PROVE  Pending(j)' => JobAttended(j)'
<1>1. UNCHANGED <<req, abandoned>> /\ UNCHANGED dropped
  BY DEF requestVars, SlotJobs, crashVars
<1>2. CASE slot'[s].job = slot[s].job /\ slot'[s].child = slot[s].child
  <2>1. CASE j = slot[s].job
    BY <1>2, <2>1 DEF JobAttended
  <2>2. CASE j # slot[s].job
    <3>1. Pending(j)' => Pending(j)
      BY <2>2, JobSame DEF SlotJobs
    <3> QED BY <1>1, <1>2, <3>1, SlotKeepsCustody DEF SlotJobs, Works
  <2> QED BY <2>1, <2>2
<1>3. CASE /\ slot'[s] = IdleSlot /\ slot[s].pc # "addChild"
           /\ \A k \in JobIds : k = slot[s].job => ~Pending(k)'
  <2>1. CASE j = slot[s].job
    BY <1>3, <2>1
  <2>2. CASE j # slot[s].job
    <3>1. Pending(j)' => Pending(j)
      BY <2>2, JobSame DEF SlotJobs
    <3>2. slot[s].child # j \/ j = NoJob
      BY <1>3 DEF ChildInv, HandsFree
    <3>3. ~Works(slot[s], j)
      BY <2>2, <3>2, FileStoreAssumption DEF Works
    <3> QED BY <1>1, <3>1, <3>3, SlotKeepsCustody DEF SlotJobs
  <2> QED BY <2>1, <2>2
<1> QED BY <1>2, <1>3 DEF SlotJobs

\* Every step of an ingestion but those that deal with a child, and how it moves.
LEMMA ProcessJobs ==
    ASSUME StoreInv, IngestionOK, NEW s \in Slots, ProcessNext(s),
           ~SaveChild(s), ~AddChild(s), ~AddChildFails(s)
    PROVE  /\ SlotJobs(s) /\ slot[s].pc # "addChild"
           /\ slot'[s].pc = "idle" => slot'[s].job = NoJob
<1> DEFINE Q == /\ SlotJobs(s) /\ slot[s].pc # "addChild"
                /\ slot'[s].pc = "idle" => slot'[s].job = NoJob
<1>1. /\ job \in [JobIds -> JobRow] /\ slot \in [Slots -> Slot] /\ slot[s] \in Slot
      /\ GoodSlot(slot[s])
  BY DEF StoreInv, FileStoreTypeOK, IngestionOK, IngestionTypeOK, SlotInv
<1>2. ASSUME NEW e \in Slot, slot' = [slot EXCEPT ![s] = e], e.job = slot[s].job,
             e.child = slot[s].child, e.pc # "idle", slot[s].pc # "addChild",
             UNCHANGED waiting, UNCHANGED crashVars,
             \A k \in JobIds : k # slot[s].job => job'[k] = job[k]
      PROVE  Q
  BY <1>1, <1>2 DEF SlotJobs
\* A station follows another.
<1>3. ASSUME NEW to \in SlotPc \ {"idle"}, Move(s, to), slot[s].pc # "addChild",
             UNCHANGED waiting, UNCHANGED crashVars,
             \A k \in JobIds : k # slot[s].job => job'[k] = job[k]
      PROVE  Q
  <2> DEFINE e == [slot[s] EXCEPT !.pc = to]
  <2>1. e \in Slot /\ e.job = slot[s].job /\ e.child = slot[s].child /\ e.pc = to
    BY <1>1 DEF Slot
  <2>2. slot' = [slot EXCEPT ![s] = e]
    BY <1>1, <1>3 DEF Move
  <2> HIDE DEF e
  <2> QED BY <1>2, <1>3, <2>1, <2>2
<1>4. ASSUME NEW state \in QueueStates, SaveJob(slot[s].job, state), slot[s].pc # "idle"
      PROVE  /\ \A k \in JobIds : k # slot[s].job => job'[k] = job[k]
             /\ job'[slot[s].job].state = state
  BY <1>1, <1>4, SavedJob DEF GoodSlot
<1>5. ASSUME NEW from \in SlotPc \ {"idle", "addChild"}, NEW state \in QueueStates,
             NEW to \in SlotPc \ {"idle"}, Mark(s, from, state, to)
      PROVE  Q
  BY <1>3, <1>4, <1>5 DEF Mark, SlotAt
<1>6. ASSUME NEW from \in SlotPc \ {"idle", "addChild"}, NEW state \in {30, 40, 41, 42},
             state \in QueueStates, End(s, from, state)
      PROVE  Q
  <2>1. slot'[s] = IdleSlot /\ \A t \in Slots \ {s} : slot'[t] = slot[t]
    BY <1>1, <1>6 DEF End, Idle
  <2>2. job'[slot[s].job].state = state /\ \A k \in JobIds : k # slot[s].job => job'[k] = job[k]
    BY <1>4, <1>6 DEF End, SlotAt
  <2>3. \A k \in JobIds : k = slot[s].job => ~Pending(k)'
    BY <1>6, <2>2, StateNumbers DEF Pending
  <2>4. IdleSlot.job = NoJob
    BY DEF IdleSlot
  <2> QED BY <1>6, <2>1, <2>2, <2>3, <2>4 DEF SlotJobs, End, SlotAt
<1>7. ASSUME NEW from \in SlotPc \ {"idle", "addChild"}, NEW state \in FileState,
             NEW to \in SlotPc \ {"idle"}, NEW refused \in SlotPc \ {"idle"},
             SaveSeen(s, from, state, to, refused)
      PROVE  Q
  <2> DEFINE entity == [slot[s].seen EXCEPT !.state = state]
             e == [slot[s] EXCEPT !.pc = to, !.seen = entity]
  <2>1. entity \in Entity
    BY <1>1 DEF Slot, Entity
  <2>2. e \in Slot /\ e.job = slot[s].job /\ e.child = slot[s].child /\ e.pc = to
    BY <1>1, <2>1 DEF Slot
  <2>3. slot' = [slot EXCEPT ![s] = e] \/ Move(s, refused)
    BY <1>1, <1>7 DEF SaveSeen
  <2>4. slot[s].pc = from /\ UNCHANGED <<job, waiting>> /\ UNCHANGED crashVars
    BY <1>7 DEF SaveSeen, SlotAt
  <2> HIDE DEF e
  <2> QED BY <1>2, <1>3, <1>7, <2>2, <2>3, <2>4
<1>8. ASSUME NEW from \in SlotPc \ {"idle", "addChild"}, slot[s].pc = from,
             NEW to \in SlotPc \ {"idle"}, NEW state, SaveMcap(s, state, to)
      PROVE  Q
  BY <1>3, <1>8 DEF SaveMcap, SlotPc
<1> USE DEF SlotPc
<1>9. CASE Load(s)
  <2>1. slot[s].pc = "load" /\ UNCHANGED <<job, waiting>> /\ UNCHANGED crashVars
    BY <1>9 DEF Load, SlotAt, fileStoreVars
  <2>2. CASE ~LiveJob(slot[s].job) /\ Idle(s)
    <3>1. slot'[s] = IdleSlot /\ \A t \in Slots \ {s} : slot'[t] = slot[t]
      BY <1>1, <2>2 DEF Idle
    <3>2. (\A k \in JobIds : k = slot[s].job => ~Pending(k)') /\ IdleSlot.job = NoJob
      BY <2>1, <2>2 DEF Pending, LiveJob, IdleSlot
    <3> QED BY <2>1, <3>1, <3>2 DEF SlotJobs
  <2>3. CASE Move(s, "download")
    BY <1>3, <2>1, <2>3
  <2>4. ASSUME NEW n \in 0..MaxChildren, slot' = [slot EXCEPT ![s].pc = "expand", ![s].left = n]
        PROVE  Q
    <3> DEFINE e == [slot[s] EXCEPT !.pc = "expand", !.left = n]
    <3>1. e \in Slot /\ e.job = slot[s].job /\ e.child = slot[s].child /\ e.pc = "expand"
      BY <1>1, <2>4 DEF Slot
    <3>2. slot' = [slot EXCEPT ![s] = e]
      BY <1>1, <2>4
    <3> HIDE DEF e
    <3> QED BY <1>2, <2>1, <3>1, <3>2
  <2> QED BY <1>9, <2>2, <2>3, <2>4 DEF Load
<1>10. CASE ExpandEnds(s) \/ Discard(s) \/ RejectJob(s) \/ CompleteJob(s) \/ FailJob(s)
  <2>1. {QueueState.COMPLETED, QueueState.ERROR, QueueState.CORRUPTED, QueueState.CANCELED}
            \subseteq {30, 40, 41, 42} \cap QueueStates
    BY StateNumbers, StatesOfJobs
  <2> QED BY <1>6, <1>10, <2>1 DEF ExpandEnds, Discard, RejectJob, CompleteJob, FailJob
<1>11. CASE MarkDownloading(s) \/ MarkConverting(s) \/ MarkUploading(s)
  BY <1>5, <1>11, StatesOfJobs DEF MarkDownloading, MarkConverting, MarkUploading
<1>12. CASE MarkProcessing(s)
  BY <1>5, <1>12, StatesOfJobs DEF MarkProcessing
<1>13. CASE Fetch(s)
  <2>1. slot[s].pc = "fetch" /\ UNCHANGED waiting /\ UNCHANGED crashVars
    BY <1>13 DEF Fetch, SlotAt
  <2>2. \/ SaveJob(slot[s].job, QueueState.DOWNLOADING) /\ Move(s, "resolve")
        \/ Move(s, "fail") /\ UNCHANGED job
    BY <1>13 DEF Fetch
  <2> QED BY <1>3, <1>4, <2>1, <2>2, StatesOfJobs
<1>14. CASE ResolveUpload(s)
  <2>1. slot[s].pc = "resolve" /\ UNCHANGED <<file, job, waiting>> /\ UNCHANGED crashVars
    BY <1>14 DEF ResolveUpload, SlotAt, fileStoreVars
  <2> DEFINE f == job[slot[s].job].of
             e == [slot[s] EXCEPT !.pc = "validate", !.file = f, !.seen = EntityOf(f)]
  <2>2. f \in Ids /\ EntityOf(f) \in Entity
    <3>1. job[slot[s].job] \in JobRow
      BY <1>1, <2>1 DEF GoodSlot
    <3>2. f \in Ids
      BY <1>14, <3>1 DEF ResolveUpload, IsDrive, JobRow
    <3> QED BY <3>2, EntityIsEntity DEF StoreInv, FileStoreTypeOK
  <2>3. e \in Slot /\ e.job = slot[s].job /\ e.child = slot[s].child /\ e.pc = "validate"
    BY <1>1, <2>2 DEF Slot
  <2>4. slot' = [slot EXCEPT ![s] = e]
    BY <1>1, <1>14 DEF ResolveUpload
  <2> HIDE DEF e
  <2> QED BY <1>2, <2>1, <2>3, <2>4
<1>15. CASE CreateDriveFile(s)
  <2>1. slot[s].pc = "resolve" /\ UNCHANGED <<job, waiting>> /\ UNCHANGED crashVars
    BY <1>15 DEF CreateDriveFile, SlotAt
  <2>2. CASE Move(s, "fail")
    BY <1>3, <2>1, <2>2
  <2>3. ASSUME NEW f \in Ids,
               slot' = [slot EXCEPT ![s].pc = "upload", ![s].file = f,
                                    ![s].seen = [state |-> "UPLOADING", hash |-> "md5"]]
        PROVE  Q
    <3> DEFINE e == [slot[s] EXCEPT !.pc = "upload", !.file = f,
                                    !.seen = [state |-> "UPLOADING", hash |-> "md5"]]
    <3>1. e \in Slot /\ e.job = slot[s].job /\ e.child = slot[s].child /\ e.pc = "upload"
      BY <1>1 DEF Slot, Entity, FileState
    <3>2. slot' = [slot EXCEPT ![s] = e]
      BY <1>1, <2>3
    <3> HIDE DEF e
    <3> QED BY <1>2, <2>1, <3>1, <3>2
  <2> QED BY <1>15, <2>2, <2>3 DEF CreateDriveFile
<1>16. CASE InsertMcap(s)
  <2>1. slot[s].pc = "insertMcap" /\ UNCHANGED <<job, waiting>> /\ UNCHANGED crashVars
    BY <1>16 DEF InsertMcap, SlotAt
  <2>2. CASE Move(s, "bagFailed")
    BY <1>3, <2>1, <2>2
  <2>3. ASSUME NEW f \in Ids, slot' = [slot EXCEPT ![s].pc = "extractMcap", ![s].mcap = f]
        PROVE  Q
    <3> DEFINE e == [slot[s] EXCEPT !.pc = "extractMcap", !.mcap = f]
    <3>1. e \in Slot /\ e.job = slot[s].job /\ e.child = slot[s].child /\ e.pc = "extractMcap"
      BY <1>1 DEF Slot
    <3>2. slot' = [slot EXCEPT ![s] = e]
      BY <1>1, <2>3
    <3> HIDE DEF e
    <3> QED BY <1>2, <2>1, <3>1, <3>2
  <2> QED BY <1>16, <2>2, <2>3 DEF InsertMcap
<1>17. CASE HashMcap(s)
  <2>1. slot[s].pc = "hashMcap" /\ UNCHANGED <<job, waiting>> /\ UNCHANGED crashVars
    BY <1>17 DEF HashMcap, SlotAt, fileStoreVars
  <2> DEFINE e == [slot[s] EXCEPT !.pc = "saveMcap", !.hashed = TRUE]
  <2>2. e \in Slot /\ e.job = slot[s].job /\ e.child = slot[s].child /\ e.pc = "saveMcap"
    BY <1>1 DEF Slot
  <2>3. slot' = [slot EXCEPT ![s] = e]
    BY <1>1, <1>17 DEF HashMcap
  <2> HIDE DEF e
  <2> QED BY <1>2, <2>1, <2>2, <2>3
<1>18. CASE \/ UploadDriveFile(s) \/ Validate(s) \/ Convert(s) \/ UploadMcap(s)
            \/ RecordConversion(s)
  <2>1. /\ slot[s].pc \in {"upload", "validate", "convert", "uploadMcap", "promoted"}
        /\ UNCHANGED <<job, waiting>> /\ UNCHANGED crashVars
        /\ \E to \in {"validate", "fail", "handle", "corrupted", "insertMcap", "bagFailed",
                      "promote", "mcapFailed", "complete"} : Move(s, to)
    BY <1>18 DEF UploadDriveFile, Validate, Convert, UploadMcap, RecordConversion, SlotAt,
       fileStoreVars
  <2> QED BY <1>3, <2>1
<1>19. CASE RejectFile(s) \/ Extract(s) \/ PromoteBag(s) \/ BagFailed(s)
  BY <1>7, <1>19 DEF RejectFile, Extract, PromoteBag, BagFailed, FileState
<1>20. CASE FinishFile(s)
  <2>1. CASE slot[s].seen.state = "UPLOADING"
    BY <1>7, <1>20, <2>1 DEF FinishFile, FileState
  <2>2. CASE slot[s].seen.state # "UPLOADING"
    <3>1. slot[s].pc = "finish" /\ UNCHANGED <<job, waiting>> /\ UNCHANGED crashVars
      BY <1>20, <2>2 DEF FinishFile, SlotAt, fileStoreVars
    <3> QED BY <1>3, <1>20, <2>2, <3>1 DEF FinishFile
  <2> QED BY <2>1, <2>2
<1>21. CASE ExtractMcap(s)
  <2>1. slot[s].pc = "extractMcap"
    BY <1>21 DEF ExtractMcap, SlotAt
  <2>2. CASE SaveMcap(s, "OK", "hashMcap")
    BY <1>8, <2>1, <2>2
  <2>3. CASE Move(s, "mcapFailed") /\ UNCHANGED <<fileStoreVars, crashVars>>
    BY <1>3, <2>1, <2>3 DEF fileStoreVars
  <2> QED BY <1>21, <2>2, <2>3 DEF ExtractMcap
<1>22. CASE SaveHash(s) \/ McapFailed(s)
  BY <1>8, <1>22 DEF SaveHash, McapFailed, SlotAt
<1> QED BY <1>9, <1>10, <1>11, <1>12, <1>13, <1>14, <1>15, <1>16, <1>17, <1>18, <1>19, <1>20,
           <1>21, <1>22 DEF ProcessNext
\* Taking a job and expanding a folder keep every job in somebody's hands.
LEMMA SlotCustody ==
    ASSUME StoreInv, IngestionOK, CustodyInv, NEW s \in Slots, Take(s) \/ ProcessNext(s),
           UNCHANGED requestVars, NEW j \in JobIds
    PROVE  /\ Pending(j)' => JobAttended(j)'
           /\ ChildInv'
<1> DEFINE Q == Pending(j)' => JobAttended(j)'
<1>1. /\ job \in [JobIds -> JobRow] /\ slot \in [Slots -> Slot] /\ slot[s] \in Slot
      /\ GoodSlot(slot[s]) /\ waiting \in [JobIds -> Nat] /\ waiting[j] \in Nat
  BY DEF StoreInv, FileStoreTypeOK, IngestionOK, IngestionTypeOK, SlotInv
<1>2. ChildInv /\ (Pending(j) => JobAttended(j))
  BY DEF CustodyInv, NoOrphanedJob, Pending
<1>3. UNCHANGED <<req, abandoned>>
  BY DEF requestVars
<1>4. ASSUME Pending(j)' => Pending(j), \A t \in Slots \ {s} : slot'[t] = slot[t],
             dropped \subseteq dropped',
             waiting[j] > 0 => waiting'[j] > 0 \/ Works(slot'[s], j),
             Works(slot[s], j) => \/ Works(slot'[s], j) \/ j \in dropped' \/ waiting'[j] > 0
      PROVE  Q
  BY <1>2, <1>3, <1>4, SlotKeepsCustody
<1>5. ASSUME \A t \in Slots \ {s} : slot'[t] = slot[t],
             HandsFree(slot'[s])
      PROVE  ChildInv'
  BY <1>2, <1>5 DEF ChildInv, HandsFree
<1>6. CASE Take(s)
  <2> PICK i \in JobIds : /\ waiting[i] > 0 /\ waiting' = [waiting EXCEPT ![i] = @ - 1]
                          /\ slot' = [slot EXCEPT ![s].pc = "load", ![s].job = i]
    BY <1>6 DEF Take
  <2>1. slot[s].pc = "idle" /\ UNCHANGED job /\ UNCHANGED dropped
    BY <1>6 DEF Take, SlotAt, crashVars
  <2>2. /\ slot'[s].pc = "load" /\ slot'[s].job = i /\ slot'[s].child = slot[s].child
        /\ \A t \in Slots \ {s} : slot'[t] = slot[t]
    BY <1>1 DEF Slot
  <2>3. slot[s].child = NoJob /\ slot[s].job = NoJob
    BY <1>2, <2>1 DEF ChildInv, HandsFree
  <2>4. ChildInv'
    BY <1>5, <2>2, <2>3 DEF HandsFree
  <2>5. CASE i = j
    BY <2>2, <2>5, <2>4 DEF JobAttended
  <2>6. CASE i # j
    <3>1. waiting'[j] = waiting[j]
      BY <1>1, <2>6
    <3>2. ~Works(slot[s], j)
      BY <2>3, FileStoreAssumption DEF Works
    <3> QED BY <1>4, <2>1, <2>2, <2>4, <3>1, <3>2, JobSame
  <2> QED BY <2>5, <2>6
<1>7. CASE SaveChild(s)
  <2> PICK i \in JobIds :
        /\ InsertJob(i, NoId, QueueState.AWAITING_PROCESSING)
        /\ slot' = [slot EXCEPT ![s].pc = "addChild", ![s].left = @ - 1, ![s].child = i]
    BY <1>7 DEF SaveChild
  <2>1. slot[s].pc = "expand" /\ UNCHANGED waiting /\ UNCHANGED dropped
    BY <1>7 DEF SaveChild, SlotAt, crashVars
  <2>2. /\ slot'[s].pc = "addChild" /\ slot'[s].job = slot[s].job /\ slot'[s].child = i
        /\ \A t \in Slots \ {s} : slot'[t] = slot[t]
    BY <1>1 DEF Slot
  <2>3. slot[s].child = NoJob
    BY <1>2, <2>1 DEF ChildInv, HandsFree
  <2>4. ChildInv'
    BY <1>5, <2>2 DEF HandsFree
  <2>5. CASE i = j
    BY <2>2, <2>5, <2>4 DEF JobAttended
  <2>6. CASE i # j
    <3>1. job'[j] = job[j]
      BY <1>1, <2>6 DEF InsertJob
    <3> QED BY <1>4, <2>1, <2>2, <2>3, <2>4, <3>1, JobSame, FileStoreAssumption DEF Works
  <2> QED BY <2>5, <2>6
<1>8. CASE AddChild(s)
  <2>1. /\ slot[s].pc = "addChild" /\ UNCHANGED job /\ UNCHANGED dropped
        /\ waiting' = [waiting EXCEPT ![slot[s].child] = waiting[slot[s].child] + 1]
        /\ slot' = [slot EXCEPT ![s].pc = "expand", ![s].child = NoJob]
    BY <1>8 DEF AddChild, SlotAt, crashVars, Enqueue
  <2>2. /\ slot'[s].child = NoJob /\ slot'[s].job = slot[s].job /\ slot'[s].pc # "idle"
        /\ \A t \in Slots \ {s} : slot'[t] = slot[t]
    BY <1>1, <2>1 DEF Slot
  <2>3. ChildInv'
    BY <1>5, <2>2 DEF HandsFree
  <2>4. waiting'[j] = IF j = slot[s].child THEN waiting[j] + 1 ELSE waiting[j]
    BY <1>1, <2>1
  <2> QED BY <1>1, <1>4, <2>1, <2>2, <2>3, <2>4, JobSame DEF Works
<1>9. CASE AddChildFails(s)
  <2>1. /\ UNCHANGED <<job, waiting>> /\ dropped' = dropped \cup {slot[s].child}
        /\ slot' = [slot EXCEPT ![s].pc = "fail", ![s].child = NoJob]
    BY <1>9 DEF AddChildFails, fileStoreVars
  <2>2. /\ slot'[s].child = NoJob /\ slot'[s].job = slot[s].job /\ slot'[s].pc # "idle"
        /\ \A t \in Slots \ {s} : slot'[t] = slot[t]
    BY <1>1, <2>1 DEF Slot
  <2>3. ChildInv'
    BY <1>5, <2>2 DEF HandsFree
  <2> QED BY <1>4, <2>1, <2>2, <2>3, JobSame DEF Works
<1>10. CASE ProcessNext(s) /\ ~SaveChild(s) /\ ~AddChild(s) /\ ~AddChildFails(s)
  <2>1. /\ SlotJobs(s) /\ slot[s].pc # "addChild"
        /\ slot'[s].pc = "idle" => slot'[s].job = NoJob
    BY <1>10, ProcessJobs
  <2>2. slot[s].child = NoJob /\ IdleSlot.child = NoJob
    BY <1>2, <2>1 DEF ChildInv, HandsFree, IdleSlot
  <2>3. ChildInv'
    BY <1>5, <2>1, <2>2 DEF SlotJobs, HandsFree
  <2> QED BY <1>2, <2>1, <2>3, SlotJobsCustody
<1> QED BY <1>6, <1>7, <1>8, <1>9, <1>10

\* A crash puts every job in hand back into the queue, or gives it up for good.
LEMMA StallCustody ==
    ASSUME StoreInv, IngestionOK, CustodyInv, Stall, UNCHANGED requestVars, NEW j \in JobIds
    PROVE  /\ Pending(j)' => JobAttended(j)'
           /\ ChildInv'
<1> DEFINE busy == {s \in Slots : ~SlotAt(s, "idle")}
           lost == {slot[s].job : s \in busy}
           children == {slot[s].child : s \in busy} \ {NoJob}
<1>1. /\ waiting \in [JobIds -> Nat] /\ waiting[j] \in Nat
  BY DEF StoreInv, FileStoreTypeOK
<1>2. \A s \in Slots : slot[s] \in Slot
  BY DEF IngestionOK, IngestionTypeOK
<1>3. /\ dropped' = dropped \cup (lost \cap stalled) \cup children
      /\ waiting' = [k \in JobIds |-> IF k \in lost \ stalled THEN waiting[k] + 1 ELSE waiting[k]]
      /\ slot' = [s \in Slots |-> IdleSlot]
      /\ UNCHANGED job /\ UNCHANGED <<req, abandoned>>
  BY DEF Stall, requestVars
<1>4. ChildInv'
  BY <1>3 DEF ChildInv, HandsFree, IdleSlot
<1>5. ASSUME Pending(j)' PROVE JobAttended(j)'
  <2>1. JobAttended(j)
    BY <1>3, <1>5, JobSame DEF CustodyInv, NoOrphanedJob, Pending
  <2>2. waiting'[j] = IF j \in lost \ stalled THEN waiting[j] + 1 ELSE waiting[j]
    BY <1>3
  <2>3. CASE waiting[j] > 0 \/ j \in lost
    <3>1. waiting'[j] > 0 \/ j \in dropped'
      BY <1>1, <1>3, <2>2, <2>3
    <3> QED BY <3>1 DEF JobAttended
  <2>4. ASSUME NEW s \in Slots, slot[s].job = j \/ slot[s].child = j
        PROVE  JobAttended(j)'
    <3>1. CASE s \in busy
      <4>1. j \in lost \/ j \in children
        BY <2>4, <3>1, FileStoreAssumption
      <4> QED BY <1>3, <2>3, <4>1 DEF JobAttended
    <3>2. CASE s \notin busy
      <4>1. slot[s].pc = "idle"
        BY <3>2 DEF SlotAt
      <4> QED BY <2>4, <4>1, FileStoreAssumption DEF CustodyInv, ChildInv, HandsFree
    <3> QED BY <3>1, <3>2
  <2>5. CASE \/ j \in dropped \cup abandoned
             \/ \E r \in Requests :
                  req[r].job = j /\ req[r].pc \in {"enqueue", "removeJob", "canceled"}
    BY <1>3, <2>5 DEF JobAttended
  <2> HIDE DEF lost, busy, children
  <2> QED BY <2>1, <2>3, <2>4, <2>5 DEF JobAttended
<1> QED BY <1>4, <1>5
\* The crons and time take nothing out of anybody's hands.
LEMMA CronCustody ==
    ASSUME StoreInv, FileCleanupTypeOK, NEW j \in JobIds, Pending(j) => JobAttended(j),
           CleanupNext \/ RepairNext \/ EnvironmentNext,
           UNCHANGED requestVars, UNCHANGED ingestionVars
    PROVE  Pending(j)' => JobAttended(j)'
<1>1. job \in [JobIds -> JobRow] /\ job[j] \in JobRow
  BY DEF StoreInv, FileStoreTypeOK
<1>2. ASSUME UNCHANGED waiting PROVE JobAttended(j)' = JobAttended(j)
  BY <1>2 DEF JobAttended, requestVars, ingestionVars
<1>3. ASSUME UNCHANGED waiting, Pending(j)' => Pending(j)
      PROVE  Pending(j)' => JobAttended(j)'
  BY <1>2, <1>3
<1>4. CASE TimeOutJob
  <2>1. PICK i \in cleaner.lateJobs : SaveJob(i, QueueState.ERROR)
    BY <1>4 DEF TimeOutJob
  <2>2. i \in JobIds
    BY DEF FileCleanupTypeOK, Cleaner
  <2>3. job'[j] = job[j] \/ job'[j].state = 40
    BY <1>1, <2>1, <2>2, SavedJob, StatesOfJobs, StateNumbers
  <2>4. Pending(j)' => Pending(j)
    BY <2>3, JobSame, StateNumbers DEF Pending
  <2> QED BY <1>3, <1>4, <2>4 DEF TimeOutJob
<1>5. CASE DisposeJobs
  <2>1. job'[j] = job[j] \/ job'[j] = SoftDeleted(job[j])
    BY <1>5 DEF DisposeJobs, SoftDeleteJobs
  <2>2. SoftDeleted(job[j]) = job[j] \/ SoftDeleted(job[j]).row = "deleted"
    BY <1>1 DEF SoftDeleted, JobRow
  <2>3. Pending(j)' => Pending(j)
    BY <2>1, <2>2, JobSame DEF Pending, LiveJob
  <2> QED BY <1>3, <1>5, <2>3 DEF DisposeJobs
<1>6. ASSUME NEW i \in JobIds, JobAges(i) PROVE Pending(j)' => JobAttended(j)'
  <2>1. job'[j] = job[j] \/ job'[j] = [job[j] EXCEPT !.old = TRUE]
    BY <1>1, <1>6 DEF JobAges
  <2>2. job'[j].row = job[j].row /\ job'[j].state = job[j].state
    BY <1>1, <2>1 DEF JobRow
  <2> QED BY <1>3, <1>6, <2>2 DEF Pending, LiveJob, JobAges
<1>7. CASE UNCHANGED <<job, waiting>>
  BY <1>3, <1>7, JobSame
<1>8. CASE \/ FindUploads \/ TimeOut \/ UploadsTimedOut \/ FindJobs \/ FindCanceled
           \/ DisposeObject \/ DisposeRow \/ RepairNext
  BY <1>7, <1>8 DEF FindUploads, TimeOut, UploadsTimedOut, FindJobs, FindCanceled, DisposeObject,
     DisposeRow, RepairNext, FindUnhashed, StreamObject, SaveHashOf, RepairEnds, fileStoreVars
<1>9. ASSUME NEW f \in Ids, PutObject(f) \/ FileAges(f) PROVE UNCHANGED <<job, waiting>>
  BY <1>9 DEF PutObject, FileAges
<1> QED BY <1>4, <1>5, <1>6, <1>7, <1>8, <1>9 DEF CleanupNext, EnvironmentNext

LEMMA ChildUnmoved ==
    ASSUME ChildInv, UNCHANGED ingestionVars
    PROVE  ChildInv'
  BY DEF ChildInv, HandsFree, ingestionVars

LEMMA CustodyInit == FileInit => CustodyInv
<1> SUFFICES ASSUME FileInit PROVE CustodyInv
  OBVIOUS
<1>1. \A j \in JobIds : job[j].row = "none"
  BY DEF FileInit, FileStoreInit, NoJobRow
<1>2. \A s \in Slots : slot[s] = IdleSlot
  BY DEF FileInit, IngestionInit
<1> QED BY <1>1, <1>2 DEF CustodyInv, ChildInv, HandsFree, NoOrphanedJob, LiveJob, IdleSlot

LEMMA CustodyStep ==
    ASSUME FileInv, CustodyInv, [FileNext]_fileVars
    PROVE  CustodyInv'
<1>0. StoreInv /\ RequestsOK /\ IngestionOK /\ FileCleanupTypeOK /\ ChildInv
  BY DEF FileInv, CustodyInv
<1>1. \A j \in JobIds : Pending(j) => JobAttended(j)
  BY DEF CustodyInv, NoOrphanedJob, Pending
<1>2. ASSUME ChildInv', \A j \in JobIds : Pending(j)' => JobAttended(j)'
      PROVE  CustodyInv'
  BY <1>2 DEF CustodyInv, NoOrphanedJob, Pending
<1>3. CASE RequestNext /\ UNCHANGED <<ingestionVars, cleanupVars>> /\ NoteStale
  <2>1. UNCHANGED ingestionVars BY <1>3
  <2>2. ChildInv' BY <1>0, <2>1, ChildUnmoved
  <2> QED BY <1>0, <1>1, <1>2, <1>3, <2>1, <2>2, RequestCustody DEF RequestNext
<1>4. CASE IngestionNext /\ UNCHANGED <<requestVars, cleanupVars>> /\ NoteStale
  <2>1. UNCHANGED requestVars BY <1>4
  <2>2. CASE Stall
    <3>1. ChildInv'
      BY <1>0, <2>2 DEF Stall, ChildInv, HandsFree, IdleSlot
    <3> QED BY <1>0, <1>2, <2>1, <2>2, <3>1, StallCustody
  <2>3. ASSUME NEW s \in Slots, Take(s) \/ ProcessNext(s) PROVE CustodyInv'
    <3>1. ASSUME JobIds = {} PROVE FALSE
      <4>1. slot[s] \in Slot /\ GoodSlot(slot[s]) /\ slot[s].job \notin JobIds
        BY <1>0, <3>1 DEF IngestionOK, IngestionTypeOK, SlotInv
      <4>2. slot[s].pc = "idle" /\ ~Take(s)
        BY <3>1, <4>1 DEF GoodSlot, Take
      <4>3. ~ProcessNext(s)
        BY <4>2 DEF ProcessNext, Load, SaveChild, AddChild, AddChildFails, ExpandEnds,
           MarkDownloading, Fetch, ResolveUpload, Discard, CreateDriveFile, UploadDriveFile,
           Validate, RejectFile, RejectJob, MarkProcessing, MarkConverting, Extract, Convert,
           InsertMcap, ExtractMcap, HashMcap, SaveHash, MarkUploading, UploadMcap, PromoteBag,
           RecordConversion, McapFailed, BagFailed, FinishFile, CompleteJob, FailJob,
           SlotAt, Mark, End, SaveSeen
      <4> QED BY <2>3, <4>2, <4>3
    <3> QED BY <1>0, <1>2, <2>1, <2>3, <3>1, SlotCustody
  <2> QED BY <1>4, <2>2, <2>3 DEF IngestionNext
<1>5. CASE (CleanupNext \/ RepairNext) /\ UNCHANGED <<requestVars, ingestionVars>> /\ NoteStale
  <2>1. UNCHANGED requestVars /\ UNCHANGED ingestionVars BY <1>5
  <2> QED BY <1>0, <1>1, <1>2, <1>5, <2>1, ChildUnmoved, CronCustody
<1>6. CASE EnvironmentNext /\ UNCHANGED <<requestVars, ingestionVars, cleanupVars, stale>>
  <2>1. UNCHANGED requestVars /\ UNCHANGED ingestionVars BY <1>6
  <2> QED BY <1>0, <1>1, <1>2, <1>6, <2>1, ChildUnmoved, CronCustody
<1>7. CASE UNCHANGED fileVars
  BY <1>7 DEF fileVars, fileStoreVars, requestVars, ingestionVars, CustodyInv, ChildInv, HandsFree,
     NoOrphanedJob, LiveJob, JobAttended
<1> QED BY <1>3, <1>4, <1>5, <1>6, <1>7 DEF FileNext

\* Every ingestion job that is queued or being processed has somebody who will
\* move it on: a Bull job, a slot of the consumer, the folder that adds it or a
\* request that is about to; unless adding or removing its Bull job broke off, or
\* it has stalled twice. No request that deletes, cancels or stops jobs under the
\* consumer's feet, and no crash of the consumer, leaves one behind.
THEOREM NobodyOrphansJobs == FileSpec => []NoOrphanedJob
<1>1. FileInit => CustodyInv
  BY CustodyInit
<1>2. FileInv /\ CustodyInv /\ [FileNext]_fileVars => CustodyInv'
  BY CustodyStep
<1>3. CustodyInv => NoOrphanedJob
  BY DEF CustodyInv
<1> QED BY <1>1, <1>2, <1>3, FileInvariant, PTL DEF FileSpec
-----------------------------------------------------------------------------
(* What becomes of the row of a file.                                      *)

Ok(f) == LiveFile(f) /\ file[f].state = "OK"
Uploading(f) == LiveFile(f) /\ file[f].state = "UPLOADING"

\* Those whose next step may declare the file OK.
Vouched(f) ==
    \/ \E r \in Requests : req[r].pc = "saveFile" /\ f \in req[r].on
    \/ \E s \in Slots : slot[s].file = f /\ slot[s].pc \in {"extract", "promote", "finish"}
    \/ \E s \in Slots : slot[s].mcap = f /\ slot[s].pc \in {"extractMcap", "saveMcap"}

\* A row comes to life, to OK or to UPLOADING by an insert, a reservation, somebody
\* who can vouch for the file, or a save that is noted as stale. A reservation is
\* told by its empty hash, which nothing but a stale save takes away from it.
RowMove(f) ==
    /\ file[f].row # "none" => file'[f].name = file[f].name
    /\ LiveFile(f)' => LiveFile(f) \/ f \in stale' \/ file[f].row = "none"
    /\ Ok(f)' => Ok(f) \/ f \in stale' \/ Vouched(f)
    /\ Uploading(f)' => \/ f \in stale' \/ file'[f].hash = "empty" \/ file[f].row = "none"
                        \/ Uploading(f) /\ file[f].hash # "empty"

\* fixFileHashes works on files it has found without a hash.
UnhashedInv == \A f \in Ids : repair.seen[f].hash = "null"

\* The row keeps its columns, and at most goes away.
LEMMA SameRowMove ==
    ASSUME NEW f \in Ids, SameEntity(f), file'[f].name = file[f].name,
           file'[f].row = file[f].row \/ file'[f].row \in {"deleted", "gone"}
    PROVE  RowMove(f)
  BY DEF SameEntity, RowMove, Ok, Uploading, LiveFile

LEMMA KeptRowMove ==
    ASSUME NEW f \in Ids, file'[f] = file[f]
    PROVE  RowMove(f)
  BY SameRowMove DEF SameEntity

LEMMA SoftDeleteRowMove ==
    ASSUME file \in [Ids -> FileRow], NEW f \in Ids,
           file'[f] = SoftDeleted(file[f]) \/ file'[f] = file[f]
    PROVE  RowMove(f)
<1>1. file[f] \in FileRow OBVIOUS
<1>2. SoftDeleted(file[f]).row = file[f].row \/ SoftDeleted(file[f]).row = "deleted"
  BY <1>1 DEF SoftDeleted, FileRow
<1> QED BY <1>2, KeptRowMove, SoftDeletedRow, SameRowMove DEF SameEntity

\* What a save does to a row.
LEMMA SavedMove ==
    ASSUME file \in [Ids -> FileRow], NEW g, NEW entity \in Entity,
           SaveFile(g, entity) \/ SaveCreated(g, entity), NEW f \in Ids
    PROVE  \/ file'[f] = file[f]
           \/ /\ f = g /\ file'[f].name = file[f].name
              /\ file'[f].state = entity.state /\ file'[f].hash = entity.hash
              /\ file'[f].row = file[f].row \/ (SaveCreated(g, entity) /\ file[f].row = "gone")
<1>1. CASE g # f
  BY <1>1 DEF SaveFile, SaveCreated
<1>2. CASE g = f
  <2> DEFINE new == [Saved(f, entity) EXCEPT !.row = IF @ = "gone" THEN "live" ELSE @]
  <2>1. /\ Saved(f, entity) \in FileRow /\ Saved(f, entity).row = file[f].row
        /\ Saved(f, entity).name = file[f].name /\ Saved(f, entity).state = entity.state
        /\ Saved(f, entity).hash = entity.hash
    BY SavedRow
  <2>2. /\ new.name = file[f].name /\ new.state = entity.state /\ new.hash = entity.hash
        /\ new.row = file[f].row \/ file[f].row = "gone"
    BY <2>1 DEF FileRow
  <2>3. CASE SaveFile(g, entity)
    <3>1. file'[f] = Saved(f, entity)
      BY <1>2, <2>3 DEF SaveFile
    <3> QED BY <1>2, <2>1, <3>1
  <2>4. CASE SaveCreated(g, entity)
    <3>1. file'[f] = new
      BY <1>2, <2>4 DEF SaveCreated
    <3> HIDE DEF new
    <3> QED BY <1>2, <2>2, <2>4, <3>1
  <2> QED BY <2>3, <2>4
<1> QED BY <1>1, <1>2

\* A save that gives a verdict needs somebody to vouch for an OK.
LEMMA VerdictRowMove ==
    ASSUME file \in [Ids -> FileRow], NoteStale, NEW g, NEW entity \in Entity,
           SaveFile(g, entity) \/ SaveCreated(g, entity), NEW f \in Ids,
           entity.state # "UPLOADING",
           f = g /\ entity.state = "OK" => Vouched(f)
    PROVE  RowMove(f)
<1>1. CASE file'[f] = file[f]
  BY <1>1, KeptRowMove
<1>2. CASE file'[f] # file[f] /\ file[f].row = "gone"
  <2>1. f \in stale'
    BY <1>2 DEF NoteStale, StaleSave
  <2> QED BY <1>2, <2>1, SavedMove DEF RowMove
<1>3. CASE file'[f] # file[f] /\ file[f].row # "gone"
  BY <1>3, SavedMove DEF RowMove, Ok, Uploading, LiveFile
<1> QED BY <1>1, <1>2, <1>3

\* A save that is noted as stale.
LEMMA StaleRowMove ==
    ASSUME file \in [Ids -> FileRow], NEW g, NEW entity \in Entity,
           SaveFile(g, entity), NEW f \in Ids, f = g => f \in stale'
    PROVE  RowMove(f)
<1>1. CASE f = g
  BY <1>1, SavedMove DEF RowMove
<1>2. CASE f # g
  BY <1>2, SavedMove, KeptRowMove
<1> QED BY <1>1, <1>2

\* A save of the state the row has, with a hash that does not hide a reservation.
LEMMA CurrentRowMove ==
    ASSUME file \in [Ids -> FileRow], NEW g, NEW entity \in Entity,
           SaveFile(g, entity), NEW f \in Ids,
           f = g => /\ entity.state = file[f].state
                    /\ entity.hash = file[f].hash \/ file[f].hash # "empty"
    PROVE  RowMove(f)
<1>1. CASE f = g
  <2>1. /\ file'[f].row = file[f].row /\ file'[f].name = file[f].name
        /\ file'[f].state = entity.state /\ file'[f].hash = entity.hash
    BY <1>1, SavedRow DEF SaveFile
  <2> QED BY <1>1, <2>1 DEF RowMove, Ok, Uploading, LiveFile
<1>2. CASE f # g
  BY <1>2, SavedMove, KeptRowMove
<1> QED BY <1>1, <1>2

LEMMA InsertRowMove ==
    ASSUME file \in [Ids -> FileRow], NEW g, NEW name, NEW state \in {"UPLOADING", "CONVERTING"},
           NEW hash, InsertFile(g, name, state, hash), NEW f \in Ids
    PROVE  RowMove(f)
<1>1. CASE f # g
  <2>1. file'[f] = file[f]
    BY <1>1 DEF InsertFile
  <2> QED BY <2>1, KeptRowMove
<1>2. CASE f = g
  <2>1. file[f].row = "none" /\ file'[f].state = state
    BY <1>2 DEF InsertFile, FreshFiles
  <2> QED BY <2>1 DEF RowMove, Ok
<1> QED BY <1>1, <1>2
LEMMA RequestRows ==
    ASSUME StoreInv, RequestsOK, NEW r \in Requests, NoteStale,
           Receive(r) \/ Continue(r) \/ IssueFails(r) \/ RequestFails(r),
           NEW f \in Ids
    PROVE  RowMove(f)
<1>1. file \in [Ids -> FileRow] /\ file[f] \in FileRow
  BY DEF StoreInv, FileStoreTypeOK
<1>2. req \in [Requests -> Request] /\ req[r] \in Request /\ req[r].seen \in Entity
  BY DEF RequestsOK, FileRequestsTypeOK, Request
<1>3. CASE UNCHANGED file
  BY <1>3, KeptRowMove
<1>4. CASE Receive(r)
  <2>1. UNCHANGED file
    BY <1>4 DEF Receive, ReadExisting, ConfirmUpload, ImportFromDrive, CancelUpload, EditFile,
       DeleteObject, DeleteObjects, QueueDelete, CancelProcessing, StopJob, fileStoreVars
  <2> QED BY <1>3, <2>1
<1>5. CASE Reserve(r)
  <2>0. PICK ids \in SUBSET FreshFiles : \E nameOf \in [ids -> NewNames(r)] :
            file' = [g \in Ids |-> ReservedRow(g, req[r].on, ids, nameOf)]
    BY <1>5 DEF Reserve
  <2>1. PICK nameOf \in [ids -> NewNames(r)] :
            file' = [g \in Ids |-> ReservedRow(g, req[r].on, ids, nameOf)]
    BY <2>0
  <2>2. file'[f] = ReservedRow(f, req[r].on, ids, nameOf)
    BY <2>1
  <2>3. CASE f \in req[r].on
    <3>1. /\ ReservedEntity \in Entity /\ ReservedEntity.state = "UPLOADING"
          /\ ReservedEntity.hash = "empty"
      BY DEF ReservedEntity, Entity, FileState
    <3>2. /\ file'[f].state = "UPLOADING" /\ file'[f].hash = "empty"
          /\ file'[f].row = file[f].row /\ file'[f].name = file[f].name
      BY <1>1, <2>2, <2>3, <3>1, SavedRow DEF ReservedRow
    <3> QED BY <3>2 DEF RowMove, Ok, LiveFile
  <2>4. CASE f \notin req[r].on /\ f \in ids
    <3>1. file[f].row = "none" /\ file'[f].state = "UPLOADING"
      BY <2>2, <2>4 DEF ReservedRow, FreshFiles
    <3> QED BY <3>1 DEF RowMove, Ok
  <2>5. CASE f \notin req[r].on /\ f \notin ids
    BY <2>2, <2>5, KeptRowMove DEF ReservedRow
  <2> QED BY <2>3, <2>4, <2>5
<1>6. CASE IssueFails(r)
  <2>1. \/ file'[f] = file[f]
        \/ file'[f] = [file[f] EXCEPT !.state = "CANCELED", !.old = FALSE]
    BY <1>6 DEF IssueFails, CanceledIfUploading
  <2>2. CASE file'[f] = [file[f] EXCEPT !.state = "CANCELED", !.old = FALSE]
    <3>1. /\ file'[f].state = "CANCELED" /\ file'[f].row = file[f].row
          /\ file'[f].name = file[f].name
      BY <1>1, <2>2 DEF FileRow
    <3> QED BY <3>1 DEF RowMove, Ok, Uploading, LiveFile
  <2> QED BY <2>1, <2>2, KeptRowMove
<1>7. CASE ConfirmFile(r)
  <2>1. PICK g \in req[r].on : SaveFile(g, Confirmed(req[r].seen)) \/ UNCHANGED file
    BY <1>7 DEF ConfirmFile
  <2>2. Confirmed(req[r].seen) \in Entity /\ Confirmed(req[r].seen).state # "UPLOADING"
    BY <1>2 DEF Confirmed, Entity, FileState
  <2>3. f = g => Vouched(f)
    BY <1>7 DEF ConfirmFile, At, Vouched
  <2> QED BY <1>1, <1>3, <2>1, <2>2, <2>3, VerdictRowMove
<1>8. CASE CancelSave(r)
  <2>1. PICK g \in req[r].on : SaveFile(g, Seen(r, "CANCELED")) \/ UNCHANGED file
    BY <1>8 DEF CancelSave
  <2>2. Seen(r, "CANCELED") \in Entity /\ Seen(r, "CANCELED").state = "CANCELED"
    BY <1>2 DEF Seen, Entity, FileState
  <2> QED BY <1>1, <1>3, <2>1, <2>2, VerdictRowMove
<1>9. CASE EditSave(r)
  <2>1. PICK g \in req[r].on : \/ SaveFile(g, req[r].seen) /\ Answer(r)
                               \/ UNCHANGED file
    BY <1>9 DEF EditSave
  <2>2. req[r].pc = "edit"
    BY <1>9 DEF EditSave, At
  <2>3. CASE req[r].seen = EntityOf(g) /\ SaveFile(g, req[r].seen)
    <3>1. f = g => req[r].seen.state = file[f].state /\ req[r].seen.hash = file[f].hash
      BY <2>3 DEF EntityOf
    <3> QED BY <1>1, <1>2, <2>3, <3>1, CurrentRowMove
  <2>4. CASE req[r].seen # EntityOf(g) /\ SaveFile(g, req[r].seen) /\ Answer(r)
    <3>1. req'[r] # req[r]
      <4>1. req'[r] = NoRequest /\ NoRequest.pc = "idle"
        BY <1>2, <2>4 DEF Answer, NoRequest
      <4> QED BY <2>2, <4>1
    <3>2. f = g /\ file'[f] # file[f] => f \in stale'
      BY <2>1, <2>2, <2>4, <3>1, RequestStale
    <3> QED BY <1>1, <1>2, <2>4, <3>2, StaleRowMove, KeptRowMove
  <2> QED BY <1>3, <2>1, <2>3, <2>4
<1>10. CASE SoftRemoveFile(r) \/ DeleteMultiple(r)
  <2>1. file'[f] = SoftDeleted(file[f]) \/ file'[f] = file[f]
    BY <1>10 DEF SoftRemoveFile, DeleteMultiple
  <2> QED BY <1>1, <2>1, SoftDeleteRowMove
<1>11. CASE QueueRemoveFile(r)
  <2>1. file'[f] = Removed(file[f]) \/ file'[f] = file[f]
    BY <1>11 DEF QueueRemoveFile
  <2>2. CASE file'[f] = Removed(file[f])
    <3>1. /\ SameEntity(f) /\ file'[f].name = file[f].name
          /\ file'[f].row = file[f].row \/ file'[f].row \in {"deleted", "gone"}
      BY <1>1, <2>2, RemovedRow DEF SameEntity
    <3> QED BY <3>1, SameRowMove
  <2> QED BY <2>1, <2>2, KeptRowMove
<1>12. CASE \/ ReserveConflict(r) \/ IssueCredentials(r) \/ FindJob(r) \/ StatObject(r)
            \/ ConfirmJob(r) \/ EnqueueJob(r) \/ QueueDequeue(r) \/ QueueRemoveJob(r)
            \/ QueueFindFile(r) \/ QueueRemoveObject(r)
            \/ CancelDequeue(r) \/ CancelSaveJob(r) \/ StopSave(r) \/ RequestFails(r)
  BY <1>3, <1>12 DEF ReserveConflict, IssueCredentials, FindJob, StatObject, ConfirmJob,
     EnqueueJob, QueueDequeue, QueueRemoveJob, QueueFindFile, QueueRemoveObject, CancelDequeue,
     CancelSaveJob, StopSave, RequestFails, fileStoreVars
<1>13. CASE Continue(r)
  BY <1>5, <1>7, <1>8, <1>9, <1>10, <1>11, <1>12, <1>13 DEF Continue
<1> QED BY <1>4, <1>6, <1>12, <1>13

LEMMA IngestionRows ==
    ASSUME StoreInv, IngestionOK, NoteStale, IngestionNext, NEW f \in Ids
    PROVE  RowMove(f)
<1>1. file \in [Ids -> FileRow]
  BY DEF StoreInv, FileStoreTypeOK
<1>2. ASSUME UNCHANGED file PROVE RowMove(f)
  BY <1>2, KeptRowMove
<1>3. CASE Stall
  BY <1>2, <1>3 DEF Stall
<1>4. ASSUME NEW s \in Slots, Take(s) \/ ProcessNext(s) PROVE RowMove(f)
  <2>1. slot[s] \in Slot /\ slot[s].seen \in Entity
    BY DEF IngestionOK, IngestionTypeOK, Slot
  <2>2. ASSUME NEW from, NEW state \in FileState \ {"UPLOADING"}, NEW to, NEW refused,
               SaveSeen(s, from, state, to, refused),
               state = "OK" => from \in {"extract", "promote", "finish"}
        PROVE  RowMove(f)
    <3> DEFINE entity == [slot[s].seen EXCEPT !.state = state]
    <3>1. entity \in Entity /\ entity.state = state
      BY <2>1 DEF Entity
    <3>2. SaveCreated(slot[s].file, entity) \/ SaveFile(slot[s].file, entity) \/ UNCHANGED file
      BY <2>2 DEF SaveSeen
    <3>3. f = slot[s].file /\ state = "OK" => Vouched(f)
      BY <2>2 DEF SaveSeen, SlotAt, Vouched
    <3> HIDE DEF entity
    <3> QED BY <1>1, <1>2, <2>2, <3>1, <3>2, <3>3, VerdictRowMove
  <2>3. ASSUME NEW state \in FileState \ {"UPLOADING"}, NEW to, SaveMcap(s, state, to),
               state = "OK" => slot[s].pc \in {"extractMcap", "saveMcap"}
        PROVE  RowMove(f)
    <3>1. McapEntity(s, state) \in Entity /\ McapEntity(s, state).state = state
      BY DEF McapEntity, Entity
    <3>2. SaveCreated(slot[s].mcap, McapEntity(s, state)) \/ UNCHANGED file
      BY <2>3 DEF SaveMcap
    <3>3. f = slot[s].mcap /\ state = "OK" => Vouched(f)
      BY <2>3 DEF Vouched
    <3> QED BY <1>1, <1>2, <2>3, <3>1, <3>2, <3>3, VerdictRowMove
  <2>4. CASE RejectFile(s) \/ Extract(s) \/ PromoteBag(s) \/ BagFailed(s)
    BY <2>2, <2>4 DEF RejectFile, Extract, PromoteBag, BagFailed, FileState
  <2>5. CASE FinishFile(s)
    <3>1. CASE slot[s].seen.state = "UPLOADING"
      BY <2>2, <2>5, <3>1 DEF FinishFile, FileState
    <3>2. CASE slot[s].seen.state # "UPLOADING"
      BY <1>2, <2>5, <3>2 DEF FinishFile, fileStoreVars
    <3> QED BY <3>1, <3>2
  <2>6. CASE ExtractMcap(s)
    <3>1. CASE SaveMcap(s, "OK", "hashMcap")
      BY <2>3, <2>6, <3>1 DEF FileState, ExtractMcap, SlotAt
    <3>2. CASE UNCHANGED <<fileStoreVars, crashVars>>
      BY <1>2, <3>2 DEF fileStoreVars
    <3> QED BY <2>6, <3>1, <3>2 DEF ExtractMcap
  <2>7. CASE SaveHash(s) \/ McapFailed(s)
    BY <2>3, <2>7 DEF SaveHash, McapFailed, FileState, SlotAt
  <2>8. CASE CreateDriveFile(s)
    <3>1. UNCHANGED file \/ \E name, g : InsertFile(g, name, "UPLOADING", "md5")
      BY <2>8 DEF CreateDriveFile
    <3> QED BY <1>1, <1>2, <3>1, InsertRowMove
  <2>9. CASE InsertMcap(s)
    <3>1. UNCHANGED file \/ \E name, g : InsertFile(g, name, "CONVERTING", "null")
      BY <2>9 DEF InsertMcap
    <3> QED BY <1>1, <1>2, <3>1, InsertRowMove
  <2>10. CASE \/ Take(s) \/ Load(s) \/ SaveChild(s) \/ AddChild(s) \/ AddChildFails(s)
              \/ Fetch(s) \/ ResolveUpload(s) \/ UploadDriveFile(s) \/ Validate(s) \/ Convert(s)
              \/ HashMcap(s) \/ UploadMcap(s) \/ RecordConversion(s)
    BY <1>2, <2>10 DEF Take, Load, SaveChild, AddChild, AddChildFails, Fetch, ResolveUpload,
       UploadDriveFile, Validate, Convert, HashMcap, UploadMcap, RecordConversion, fileStoreVars
  <2>11. CASE \/ ExpandEnds(s) \/ MarkDownloading(s) \/ Discard(s) \/ RejectJob(s)
              \/ MarkProcessing(s) \/ MarkConverting(s) \/ MarkUploading(s) \/ CompleteJob(s)
              \/ FailJob(s)
    BY <1>2, <2>11 DEF ExpandEnds, MarkDownloading, Discard, RejectJob, MarkProcessing,
       MarkConverting, MarkUploading, CompleteJob, FailJob, Mark, End
  <2> QED BY <1>4, <2>4, <2>5, <2>6, <2>7, <2>8, <2>9, <2>10, <2>11 DEF ProcessNext
<1> QED BY <1>3, <1>4 DEF IngestionNext

LEMMA CronRows ==
    ASSUME StoreInv, FileCleanupTypeOK, UnhashedInv, NoteStale, CleanupNext \/ RepairNext,
           NEW f \in Ids
    PROVE  RowMove(f)
<1>1. file \in [Ids -> FileRow] /\ file[f] \in FileRow
  BY DEF StoreInv, FileStoreTypeOK
<1>2. cleaner \in Cleaner /\ repair \in Repair
  BY DEF FileCleanupTypeOK
<1>3. CASE UNCHANGED file
  BY <1>3, KeptRowMove
<1>4. CASE TimeOut
  <2>1. PICK g \in cleaner.late :
            SaveFile(g, [cleaner.seen[g] EXCEPT !.state = "ERROR"]) \/ UNCHANGED file
    BY <1>4 DEF TimeOut
  <2>2. cleaner.seen[g] \in Entity
    BY <1>2 DEF Cleaner
  <2> DEFINE entity == [cleaner.seen[g] EXCEPT !.state = "ERROR"]
  <2>3. entity \in Entity /\ entity.state = "ERROR"
    BY <2>2 DEF Entity, FileState
  <2>4. SaveFile(g, entity) \/ UNCHANGED file
    BY <2>1
  <2> HIDE DEF entity
  <2> QED BY <1>1, <1>3, <2>3, <2>4, VerdictRowMove
<1>5. CASE DisposeRow
  <2>1. \E g : file' = [file EXCEPT ![g] = SoftDeletedIfCanceled(g)]
    BY <1>5 DEF DisposeRow
  <2>2. file'[f] = file[f] \/ file'[f] = SoftDeleted(file[f])
    BY <1>1, <2>1 DEF SoftDeletedIfCanceled
  <2> QED BY <1>1, <2>2, SoftDeleteRowMove
<1>6. CASE SaveHashOf
  <2> DEFINE g == repair.file
             entity == [repair.seen[g] EXCEPT !.hash = "md5"]
  <2>1. SaveFile(g, entity) \/ UNCHANGED file
    BY <1>6 DEF SaveHashOf
  <2>2. repair' # repair
    BY <1>6, RepairMovesOn
  <2>3. CASE g \notin Ids /\ SaveFile(g, entity)
    <3>1. file' = file
      BY <1>1, <2>3 DEF SaveFile
    <3> QED BY <1>3, <3>1
  <2>4. CASE g \in Ids /\ SaveFile(g, entity)
    <3>1. /\ repair.seen[g] \in Entity /\ repair.seen[g].hash = "null"
      BY <1>2, <2>4 DEF Repair, UnhashedInv
    <3>2. entity \in Entity /\ entity.state = repair.seen[g].state
      BY <3>1 DEF Entity
    <3>3. CASE repair.seen[g] = EntityOf(g)
      <4>1. f = g => entity.state = file[f].state /\ file[f].hash # "empty"
        BY <3>1, <3>2, <3>3 DEF EntityOf
      <4> HIDE DEF entity
      <4> QED BY <1>1, <2>4, <3>2, <4>1, CurrentRowMove
    <3>4. CASE repair.seen[g] # EntityOf(g)
      <4>1. f = g /\ file'[f] # file[f] => f \in stale'
        BY <2>2, <3>4 DEF NoteStale, StaleSave
      <4> HIDE DEF entity
      <4> QED BY <1>1, <2>4, <3>2, <4>1, StaleRowMove, KeptRowMove
    <3> QED BY <3>3, <3>4
  <2> QED BY <1>3, <2>1, <2>3, <2>4
<1>7. CASE \/ FindUploads \/ UploadsTimedOut \/ FindJobs \/ TimeOutJob \/ FindCanceled
           \/ DisposeJobs \/ DisposeObject \/ FindUnhashed \/ StreamObject \/ RepairEnds
  BY <1>3, <1>7 DEF FindUploads, UploadsTimedOut, FindJobs, TimeOutJob, FindCanceled,
     DisposeJobs, DisposeObject, FindUnhashed, StreamObject, RepairEnds, fileStoreVars
<1> QED BY <1>4, <1>5, <1>6, <1>7 DEF CleanupNext, RepairNext

LEMMA EnvironmentRows ==
    ASSUME StoreInv, EnvironmentNext, NEW f \in Ids
    PROVE  RowMove(f)
<1>1. file \in [Ids -> FileRow] /\ file[f] \in FileRow
  BY DEF StoreInv, FileStoreTypeOK
<1>2. ASSUME NEW g \in Ids, FileAges(g) PROVE RowMove(f)
  <2>1. file'[f] = file[f] \/ file'[f] = [file[f] EXCEPT !.old = TRUE]
    BY <1>1, <1>2 DEF FileAges
  <2>2. SameEntity(f) /\ file'[f].name = file[f].name /\ file'[f].row = file[f].row
    BY <1>1, <2>1 DEF SameEntity, FileRow
  <2> QED BY <2>2, SameRowMove
<1>3. CASE UNCHANGED file
  BY <1>3, KeptRowMove
<1> QED BY <1>2, <1>3 DEF EnvironmentNext, PutObject, JobAges
-----------------------------------------------------------------------------
(* What becomes of the object of a file.                                   *)

\* The object is there, or the file is on its way out or known to be off.
Safe(f) ==
    /\ file[f].row # "none"
    /\ ~LiveFile(f) \/ f \in object \/ Deleting(f) \/ f \in purged \cup stale

\* Who removes an object takes the row, is about to take it, or is the cleanup.
KeepsBacking(f) ==
    /\ f \in object => f \in object' \/ Deleting(f)' \/ ~LiveFile(f)' \/ f \in purged'
    /\ Deleting(f) => Deleting(f)' \/ ~LiveFile(f)'
    /\ f \in purged => f \in purged'
    /\ f \in stale => f \in stale'

LEMMA SafeKept ==
    ASSUME NEW f \in Ids, RowsKept, RowMove(f), KeepsBacking(f), Safe(f)
    PROVE  Safe(f)'
<1>1. file'[f].row # "none"
  BY DEF RowsKept, Safe
<1>2. CASE ~LiveFile(f)
  BY <1>1, <1>2 DEF Safe, RowMove
<1>3. CASE LiveFile(f)
  BY <1>1, <1>3 DEF Safe, KeepsBacking
<1> QED BY <1>2, <1>3

LEMMA RequestBacking ==
    ASSUME StoreInv, RequestsOK, NEW r \in Requests, NoteStale, UNCHANGED cleanupVars,
           Receive(r) \/ Continue(r) \/ IssueFails(r) \/ RequestFails(r), NEW f \in Ids
    PROVE  KeepsBacking(f)
<1>1. /\ file \in [Ids -> FileRow] /\ file[f] \in FileRow
      /\ req \in [Requests -> Request] /\ req[r] \in Request
  BY DEF StoreInv, FileStoreTypeOK, RequestsOK, FileRequestsTypeOK
<1>2. (\A q \in Requests \ {r} : req'[q] = req[q]) /\ abandoned \subseteq abandoned'
  BY OneRequest
<1>3. purged' = purged /\ stale \subseteq stale'
  BY DEF cleanupVars, NoteStale
\* Whose deletion it is, if this request does not complete it.
<1>4. ASSUME req[r].pc \in {"delete", "deleteMany", "removeFile"} /\ f \in req[r].on =>
                f \in abandoned' \/ ~LiveFile(f)'
      PROVE  Deleting(f) => Deleting(f)' \/ ~LiveFile(f)'
  <2>1. CASE f \in abandoned
    BY <1>2, <2>1 DEF Deleting
  <2>2. ASSUME NEW q \in Requests, q # r, f \in req[q].on,
               req[q].pc \in {"delete", "deleteMany", "removeFile"}
        PROVE  Deleting(f)'
    BY <1>2, <2>2 DEF Deleting
  <2> QED BY <1>4, <2>1, <2>2 DEF Deleting
<1>5. ASSUME object \subseteq object', req[r].pc \notin {"delete", "deleteMany", "removeFile"}
      PROVE  KeepsBacking(f)
  BY <1>3, <1>4, <1>5 DEF KeepsBacking
<1>6. CASE DeleteObject(r)
  <2>1. PICK g \in Ids : /\ BeginOn(r, "delete", "delete", g) /\ object' = object \ {g}
                         /\ LiveFile(g)
    BY <1>6 DEF DeleteObject
  <2>2. /\ req'[r] = [NoRequest EXCEPT !.pc = "delete", !.on = {g}, !.seen = EntityOf(g)]
        /\ req[r].pc = "idle"
    BY <1>1, <2>1 DEF BeginOn, Begin, At
  <2>3. req'[r].pc = "delete" /\ req'[r].on = {g}
    BY <2>2 DEF NoRequest
  <2>4. f = g => Deleting(f)'
    BY <2>3 DEF Deleting
  <2> QED BY <1>3, <1>4, <2>1, <2>2, <2>4 DEF KeepsBacking
<1>7. CASE DeleteObjects(r)
  <2>1. PICK ids \in SUBSET {g \in Ids : LiveFile(g)} \ {{}} :
            /\ Begin(r, "deleteMany", [NoRequest EXCEPT !.pc = "deleteMany", !.on = ids])
            /\ object' = object \ ids
    BY <1>7 DEF DeleteObjects
  <2>2. /\ req'[r] = [NoRequest EXCEPT !.pc = "deleteMany", !.on = ids] /\ req[r].pc = "idle"
    BY <1>1, <2>1 DEF Begin, At
  <2>3. req'[r].pc = "deleteMany" /\ req'[r].on = ids
    BY <2>2 DEF NoRequest
  <2>4. f \in ids => Deleting(f)'
    BY <2>3 DEF Deleting
  <2> QED BY <1>3, <1>4, <2>1, <2>2, <2>4 DEF KeepsBacking
<1>8. CASE \/ ReadExisting(r) \/ ConfirmUpload(r) \/ ImportFromDrive(r) \/ CancelUpload(r)
           \/ EditFile(r) \/ QueueDelete(r) \/ CancelProcessing(r) \/ StopJob(r)
  <2>1. req[r].pc = "idle" /\ UNCHANGED object
    BY <1>8 DEF ReadExisting, ConfirmUpload, ImportFromDrive, CancelUpload, EditFile, QueueDelete,
       CancelProcessing, StopJob, BeginOn, BeginJob, Begin, At, fileStoreVars
  <2> QED BY <1>5, <2>1
<1>9. CASE SoftRemoveFile(r) \/ DeleteMultiple(r)
  <2>1. f \in req[r].on => file'[f] = SoftDeleted(file[f])
    BY <1>9 DEF SoftRemoveFile, DeleteMultiple
  <2>2. SoftDeleted(file[f]).row # "live"
    BY <1>1 DEF SoftDeleted, FileRow
  <2>3. f \in req[r].on => ~LiveFile(f)'
    BY <2>1, <2>2 DEF LiveFile
  <2>4. UNCHANGED object
    BY <1>9 DEF SoftRemoveFile, DeleteMultiple
  <2> QED BY <1>3, <1>4, <2>3, <2>4 DEF KeepsBacking
<1>10. CASE QueueRemoveFile(r)
  <2>1. f \in req[r].on => file'[f] = Removed(file[f])
    BY <1>10 DEF QueueRemoveFile
  <2>2. f \in req[r].on => ~LiveFile(f)'
    BY <1>1, <2>1, RemovedRow DEF LiveFile
  <2>3. UNCHANGED object
    BY <1>10 DEF QueueRemoveFile
  <2> QED BY <1>3, <1>4, <2>2, <2>3 DEF KeepsBacking
<1>15. CASE QueueRemoveObject(r)
  <2>1. /\ object' = object \ req[r].on \/ object' = object
        /\ req'[r] = [req[r] EXCEPT !.pc = "removeFile"] /\ req[r].pc = "removeObject"
    BY <1>1, <1>15 DEF QueueRemoveObject, Goto, At
  <2>2. req'[r].pc = "removeFile" /\ req'[r].on = req[r].on
    BY <1>1, <2>1 DEF Request
  <2>3. f \in req[r].on => Deleting(f)'
    BY <2>2 DEF Deleting
  <2> QED BY <1>3, <1>4, <2>1, <2>3 DEF KeepsBacking
<1>11. CASE RequestFails(r)
  <2>1. UNCHANGED object /\ abandoned' = abandoned \cup HalfDone(r)
    BY <1>11 DEF RequestFails, fileStoreVars
  <2>2. req[r].pc \in {"delete", "deleteMany", "removeFile"} => HalfDone(r) = req[r].on
    BY DEF HalfDone
  <2> QED BY <1>3, <1>4, <2>1, <2>2 DEF KeepsBacking
<1>12. CASE \/ Reserve(r) \/ ReserveConflict(r) \/ IssueCredentials(r) \/ IssueFails(r)
            \/ FindJob(r) \/ StatObject(r) \/ ConfirmFile(r) \/ ConfirmJob(r) \/ EnqueueJob(r)
            \/ CancelSave(r) \/ EditSave(r) \/ QueueDequeue(r) \/ QueueRemoveJob(r)
            \/ QueueFindFile(r) \/ CancelDequeue(r) \/ CancelSaveJob(r) \/ StopSave(r)
  <2>1. /\ req[r].pc \in {"reserve", "issue", "findJob", "stat", "saveFile", "saveJob", "enqueue",
                          "cancel", "edit", "dequeue", "removeJob", "findFile", "unqueue", "canceled",
                          "stop"}
        /\ UNCHANGED object
    BY <1>12 DEF Reserve, ReserveConflict, IssueCredentials, IssueFails, FindJob, StatObject,
       ConfirmFile, ConfirmJob, EnqueueJob, CancelSave, EditSave, QueueDequeue, QueueRemoveJob,
       QueueFindFile, CancelDequeue, CancelSaveJob, StopSave, At, fileStoreVars
  <2> QED BY <1>5, <2>1
<1>13. CASE Receive(r)
  BY <1>6, <1>7, <1>8, <1>13 DEF Receive
<1>14. CASE Continue(r)
  BY <1>9, <1>10, <1>12, <1>14, <1>15 DEF Continue
<1> QED BY <1>11, <1>12, <1>13, <1>14

\* The other steps delete no object but that of a canceled upload, which they note.
LEMMA OtherBacking ==
    ASSUME UNCHANGED requestVars, stale \subseteq stale', NEW f \in Ids,
           \/ IngestionNext /\ UNCHANGED cleanupVars
           \/ CleanupNext \/ RepairNext
           \/ EnvironmentNext /\ UNCHANGED cleanupVars
    PROVE  KeepsBacking(f)
<1>1. Deleting(f)' = Deleting(f)
  BY DEF Deleting, requestVars
<1>2. ASSUME object \subseteq object', UNCHANGED purged PROVE KeepsBacking(f)
  BY <1>1, <1>2 DEF KeepsBacking
<1>3. CASE IngestionNext /\ UNCHANGED cleanupVars
  <2>1. ASSUME NEW s \in Slots, Take(s) \/ ProcessNext(s) PROVE object \subseteq object'
    BY <2>1 DEF ProcessNext, Take, Load, SaveChild, AddChild, AddChildFails, ExpandEnds,
       MarkDownloading, Fetch, ResolveUpload, Discard, CreateDriveFile, UploadDriveFile,
       Validate, RejectFile, RejectJob, MarkProcessing, MarkConverting, Extract, Convert,
       InsertMcap, ExtractMcap, HashMcap, SaveHash, MarkUploading, UploadMcap, PromoteBag,
       RecordConversion, McapFailed, BagFailed, FinishFile, CompleteJob, FailJob,
       Mark, End, SaveSeen, SaveMcap, fileStoreVars
  <2>2. Stall => UNCHANGED object
    BY DEF Stall
  <2> QED BY <1>2, <1>3, <2>1, <2>2 DEF IngestionNext, cleanupVars
<1>4. CASE DisposeObject
  <2>1. PICK g \in cleaner.doomed : object' = object \ {g} /\ purged' = purged \cup {g}
    BY <1>4 DEF DisposeObject
  <2> QED BY <1>1, <2>1 DEF KeepsBacking
<1>5. CASE \/ FindUploads \/ TimeOut \/ UploadsTimedOut \/ FindJobs \/ TimeOutJob \/ FindCanceled
           \/ DisposeJobs \/ DisposeRow \/ RepairNext
  BY <1>2, <1>5 DEF FindUploads, TimeOut, UploadsTimedOut, FindJobs, TimeOutJob, FindCanceled,
     DisposeJobs, DisposeRow, RepairNext, FindUnhashed, StreamObject, SaveHashOf, RepairEnds,
     fileStoreVars
<1>6. CASE EnvironmentNext /\ UNCHANGED cleanupVars
  BY <1>2, <1>6 DEF EnvironmentNext, PutObject, FileAges, JobAges, cleanupVars
<1> QED BY <1>3, <1>4, <1>5, <1>6 DEF CleanupNext

\* The row of a job keeps saying which file it is about.
JobsKept ==
    \A j \in JobIds : job[j].row # "none" => job'[j].row # "none" /\ job'[j].of = job[j].of

LEMMA JobStatements ==
    ASSUME job \in [JobIds -> JobRow],
           \/ UNCHANGED job
           \/ \E j \in JobIds, state \in QueueStates : SaveJob(j, state)
           \/ \E j, of, state : InsertJob(j, of, state)
           \/ \E ids : SoftDeleteJobs(ids)
           \/ \E j \in JobIds : job' = [job EXCEPT ![j].row = "gone"]
           \/ \E j \in JobIds : job' = [job EXCEPT ![j].old = TRUE]
    PROVE  JobsKept
<1>1. \A j \in JobIds : job[j] \in JobRow
  OBVIOUS
<1>2. CASE \E j \in JobIds, state \in QueueStates : SaveJob(j, state)
  <2> PICK j \in JobIds, state \in QueueStates : SaveJob(j, state)
    BY <1>2
  <2>1. /\ \A k \in JobIds : k # j => job'[k] = job[k]
        /\ job'[j].of = job[j].of
        /\ job'[j].row = IF job[j].row = "gone" THEN "live" ELSE job[j].row
    BY SavedJob
  <2> QED BY <2>1 DEF JobsKept
<1>3. CASE \E j, of, state : InsertJob(j, of, state)
  BY <1>3 DEF InsertJob, FreshJobs, JobsKept
<1>4. CASE \E ids : SoftDeleteJobs(ids)
  <2>1. \A j \in JobIds : job'[j] = job[j] \/ job'[j] = SoftDeleted(job[j])
    BY <1>4 DEF SoftDeleteJobs
  <2>2. \A j \in JobIds : /\ SoftDeleted(job[j]).of = job[j].of
                          /\ job[j].row # "none" => SoftDeleted(job[j]).row # "none"
    BY <1>1 DEF SoftDeleted, JobRow
  <2> QED BY <2>1, <2>2 DEF JobsKept
<1>5. CASE \E j \in JobIds : job' = [job EXCEPT ![j].row = "gone"]
  <2>1. \A j \in JobIds : job'[j] = job[j] \/ job'[j] = [job[j] EXCEPT !.row = "gone"]
    BY <1>5
  <2> QED BY <1>1, <2>1 DEF JobsKept, JobRow
<1>6. CASE \E j \in JobIds : job' = [job EXCEPT ![j].old = TRUE]
  <2>1. \A j \in JobIds : job'[j] = job[j] \/ job'[j] = [job[j] EXCEPT !.old = TRUE]
    BY <1>6
  <2> QED BY <1>1, <2>1 DEF JobsKept, JobRow
<1>7. CASE UNCHANGED job
  BY <1>7 DEF JobsKept
<1> QED BY <1>2, <1>3, <1>4, <1>5, <1>6, <1>7

LEMMA JobsStay ==
    ASSUME FileInv, [FileNext]_fileVars
    PROVE  JobsKept
<1>1. /\ job \in [JobIds -> JobRow]
      /\ \A r \in Requests : GoodRequest(req[r])
      /\ \A s \in Slots : GoodSlot(slot[s])
      /\ cleaner \in Cleaner
  BY DEF FileInv, StoreInv, FileStoreTypeOK, RequestsOK, RequestInv, IngestionOK, SlotInv,
     FileCleanupTypeOK
<1>2. ASSUME NEW r \in Requests, Receive(r) \/ Continue(r) \/ IssueFails(r) \/ RequestFails(r)
      PROVE  JobsKept
  <2>1. GoodRequest(req[r]) BY <1>1
  <2>2. CASE ConfirmJob(r) \/ CancelSaveJob(r) \/ StopSave(r)
    <3>1. req[r].job \in JobIds
      BY <2>1, <2>2 DEF ConfirmJob, CancelSaveJob, StopSave, At, GoodRequest
    <3>2. UNCHANGED job \/ \E state \in QueueStates : SaveJob(req[r].job, state)
      BY <2>2, StatesOfJobs DEF ConfirmJob, CancelSaveJob, StopSave
    <3> QED BY <1>1, <3>1, <3>2, JobStatements
  <2>3. CASE QueueRemoveJob(r)
    <3>1. req[r].job \in JobIds /\ job' = [job EXCEPT ![req[r].job].row = "gone"]
      BY <2>1, <2>3 DEF QueueRemoveJob, At, GoodRequest
    <3> QED BY <1>1, <3>1, JobStatements
  <2>4. CASE DeleteMultiple(r)
    BY <1>1, <2>4, JobStatements DEF DeleteMultiple
  <2>5. CASE ImportFromDrive(r)
    BY <1>1, <2>5, JobStatements DEF ImportFromDrive
  <2>6. CASE FindJob(r)
    <3>1. UNCHANGED job \/ \E j, of, state : InsertJob(j, of, state)
      BY <2>6 DEF FindJob
    <3> QED BY <1>1, <3>1, JobStatements
  <2>7. CASE Receive(r) /\ ~ImportFromDrive(r)
    <3>1. UNCHANGED job
      BY <2>7 DEF Receive, ReadExisting, ConfirmUpload, CancelUpload, EditFile, DeleteObject,
         DeleteObjects, QueueDelete, CancelProcessing, StopJob, fileStoreVars
    <3> QED BY <1>1, <3>1, JobStatements
  <2>8. CASE \/ Reserve(r) \/ ReserveConflict(r) \/ IssueCredentials(r) \/ IssueFails(r)
             \/ StatObject(r) \/ ConfirmFile(r) \/ EnqueueJob(r) \/ CancelSave(r) \/ EditSave(r)
             \/ SoftRemoveFile(r) \/ QueueDequeue(r) \/ QueueRemoveFile(r) \/ CancelDequeue(r)
             \/ RequestFails(r) \/ QueueFindFile(r) \/ QueueRemoveObject(r)
    <3>1. UNCHANGED job
      BY <2>8 DEF Reserve, ReserveConflict, IssueCredentials, IssueFails, StatObject, ConfirmFile,
         EnqueueJob, CancelSave, EditSave, SoftRemoveFile, QueueDequeue, QueueRemoveFile,
         CancelDequeue, RequestFails, QueueFindFile, QueueRemoveObject, fileStoreVars
    <3> QED BY <1>1, <3>1, JobStatements
  <2> QED BY <1>2, <2>2, <2>3, <2>4, <2>5, <2>6, <2>7, <2>8 DEF Continue
<1>3. ASSUME NEW s \in Slots, Take(s) \/ ProcessNext(s) PROVE JobsKept
  <2>1. \/ UNCHANGED job
        \/ slot[s].pc # "idle" /\ \E state \in QueueStates : SaveJob(slot[s].job, state)
        \/ \E j, of, state : InsertJob(j, of, state)
    BY <1>3, StatesOfJobs DEF ProcessNext, Take, Load, SaveChild, AddChild, AddChildFails,
       ExpandEnds, MarkDownloading, Fetch, ResolveUpload, Discard, CreateDriveFile,
       UploadDriveFile, Validate, RejectFile, RejectJob, MarkProcessing, MarkConverting, Extract,
       Convert, InsertMcap, ExtractMcap, HashMcap, SaveHash, MarkUploading, UploadMcap,
       PromoteBag, RecordConversion, McapFailed, BagFailed, FinishFile, CompleteJob, FailJob,
       SlotAt, Mark, End, SaveSeen, SaveMcap, fileStoreVars
  <2>2. slot[s].pc # "idle" => slot[s].job \in JobIds
    BY <1>1 DEF GoodSlot
  <2> QED BY <1>1, <2>1, <2>2, JobStatements
<1>4. CASE Stall
  BY <1>1, <1>4, JobStatements DEF Stall
<1>5. CASE CleanupNext \/ RepairNext
  <2>1. CASE TimeOutJob
    <3>1. cleaner.lateJobs \subseteq JobIds
      BY <1>1 DEF Cleaner
    <3> QED BY <1>1, <2>1, <3>1, JobStatements, StatesOfJobs DEF TimeOutJob
  <2>2. CASE DisposeJobs
    BY <1>1, <2>2, JobStatements DEF DisposeJobs
  <2>3. CASE \/ FindUploads \/ TimeOut \/ UploadsTimedOut \/ FindJobs \/ FindCanceled
             \/ DisposeObject \/ DisposeRow \/ RepairNext
    <3>1. UNCHANGED job
      BY <2>3 DEF FindUploads, TimeOut, UploadsTimedOut, FindJobs, FindCanceled, DisposeObject,
         DisposeRow, RepairNext, FindUnhashed, StreamObject, SaveHashOf, RepairEnds, fileStoreVars
    <3> QED BY <1>1, <3>1, JobStatements
  <2> QED BY <1>5, <2>1, <2>2, <2>3 DEF CleanupNext
<1>6. CASE EnvironmentNext
  <2>1. UNCHANGED job \/ \E j \in JobIds : job' = [job EXCEPT ![j].old = TRUE]
    BY <1>6 DEF EnvironmentNext, PutObject, FileAges, JobAges
  <2> QED BY <1>1, <2>1, JobStatements
<1>7. CASE UNCHANGED fileVars
  BY <1>1, <1>7, JobStatements DEF fileVars, fileStoreVars
<1> QED BY <1>2, <1>3, <1>4, <1>5, <1>6, <1>7 DEF FileNext, RequestNext, IngestionNext
-----------------------------------------------------------------------------
(* What confirmations and ingestions rely on, and that they may.           *)

\* The file is not left UPLOADING, unless it was reserved again or overwritten.
Settled(f) ==
    /\ file[f].row # "none"
    /\ Uploading(f) => f \in stale \/ file[f].hash = "empty"

\* confirmUpload has seen the object before it saves the file.
GroundedRequest(e) ==
    /\ e.pc \in {"findJob", "stat"} => \A f \in e.on : file[f].row # "none"
    /\ e.pc = "saveFile" => \A f \in e.on : Safe(f)

\* The stations at which a slot works on a file, and those of a converted file.
BagPc == {"validate", "corrupted", "handle", "extract", "converting", "convert", "insertMcap",
          "finish"}
ConvertPc == {"extractMcap", "hashMcap", "saveMcap", "markUpload", "uploadMcap"}
McapPc == ConvertPc \cup {"promote", "promoted", "complete", "mcapFailed", "bagFailed", "fail"}

\* The converted file is uploaded before the bag is promoted; a conversion that
\* failed has taken back what finishExtraction had declared.
GroundedMcap(e) ==
    e.mcap \in Ids =>
        /\ e.pc \in McapPc
        /\ file[e.mcap].row # "none" /\ file[e.mcap].name[2] = "MCAP"
        /\ e.pc \in {"promote", "promoted", "complete"} => Safe(e.mcap)
        /\ e.pc \in {"bagFailed", "fail"} => (Ok(e.mcap) => Safe(e.mcap))

\* The file was fetched from the bucket, or has been uploaded to it; once the
\* entity in memory has a verdict, so has the row.
GroundedSlot(e) ==
    /\ e.pc \in {"download", "fetch", "resolve"} => job[e.job].row # "none"
    /\ e.pc = "resolve" => \A f \in Ids : job[e.job].of = f => Safe(f)
    /\ e.pc \in BagPc \cup ConvertPc \cup {"promote"} => e.file \in Ids /\ Safe(e.file)
    /\ e.pc \in {"promoted", "complete"} => e.file \in Ids /\ Settled(e.file)
    /\ e.file \in Ids /\ e.seen.state # "UPLOADING" => Settled(e.file)
    /\ GroundedMcap(e)

\* A converted file belongs to one conversion.
OneMcap == \A s, t \in Slots : slot[s].mcap \in Ids /\ slot[s].mcap = slot[t].mcap => s = t

\* OkIsBacked, of rows that exist.
OkBacked ==
    \A f \in Ids : Ok(f) => \/ Safe(f) \/ Converting(f)
                            \/ stalls > 0 /\ file[f].name[2] = "MCAP"

GroundInv ==
    /\ UnhashedInv /\ OneMcap /\ OkBacked
    /\ \A r \in Requests : GroundedRequest(req[r])
    /\ \A s \in Slots : GroundedSlot(slot[s])

\* What every step keeps of rows, objects and jobs.
StepFacts ==
    /\ RowsKept /\ JobsKept
    /\ \A f \in Ids : RowMove(f) /\ KeepsBacking(f)

LEMMA SettledKept ==
    ASSUME NEW f \in Ids, StepFacts, Settled(f)
    PROVE  Settled(f)'
<1>1. file'[f].row # "none"
  BY DEF StepFacts, RowsKept, Settled
<1>2. ASSUME Uploading(f)' PROVE f \in stale' \/ file'[f].hash = "empty"
  BY <1>2 DEF StepFacts, RowMove, KeepsBacking, Settled
<1> QED BY <1>1, <1>2 DEF Settled

\* Who vouches for a file has its object, or is about to upload it.
LEMMA VouchedSafe ==
    ASSUME GroundInv, NEW f \in Ids, Vouched(f)
    PROVE  \/ Safe(f)
           \/ \E s \in Slots : slot[s].mcap = f /\ slot[s].pc \in {"extractMcap", "saveMcap"}
<1>1. CASE \E r \in Requests : req[r].pc = "saveFile" /\ f \in req[r].on
  BY <1>1 DEF GroundInv, GroundedRequest
<1>2. CASE \E s \in Slots : slot[s].file = f /\ slot[s].pc \in {"extract", "promote", "finish"}
  BY <1>2 DEF GroundInv, GroundedSlot, BagPc
<1> QED BY <1>1, <1>2 DEF Vouched

\* What a slot knew before somebody's step holds after it.
LEMMA GroundKept ==
    ASSUME FileInv, GroundInv, StepFacts, NEW t \in Slots, NEW e, e = slot[t]
    PROVE  GroundedSlot(e)'
<1>1. /\ GroundedSlot(e) /\ GoodSlot(e) /\ e \in Slot /\ job \in [JobIds -> JobRow]
  BY DEF GroundInv, FileInv, IngestionOK, IngestionTypeOK, SlotInv, StoreInv, FileStoreTypeOK
<1>2. \A f \in Ids : Safe(f) => Safe(f)'
  BY SafeKept DEF StepFacts
<1>3. \A f \in Ids : Settled(f) => Settled(f)'
  BY SettledKept
<1>4. e.pc \in {"download", "fetch", "resolve"} =>
        job'[e.job].row # "none" /\ job'[e.job].of = job[e.job].of
  BY <1>1 DEF GroundedSlot, GoodSlot, StepFacts, JobsKept
<1>5. e.pc = "resolve" => \A f \in Ids : job'[e.job].of = f => Safe(f)'
  BY <1>1, <1>2, <1>4 DEF GroundedSlot
<1>6. e.mcap \in Ids => /\ file'[e.mcap].row # "none" /\ file'[e.mcap].name[2] = "MCAP"
  BY <1>1 DEF GroundedSlot, GroundedMcap, StepFacts, RowsKept, RowMove
<1>7. e.mcap \in Ids /\ e.pc \in {"bagFailed", "fail"} => (Ok(e.mcap)' => Safe(e.mcap)')
  <2> SUFFICES ASSUME e.mcap \in Ids, e.pc \in {"bagFailed", "fail"}, NEW m \in Ids, m = e.mcap,
                      Ok(m)'
               PROVE  Safe(m)'
    OBVIOUS
  <2>1. CASE Ok(m)
    BY <1>1, <1>2, <2>1 DEF GroundedSlot, GroundedMcap
  <2>2. CASE m \in stale'
    BY <1>6, <2>2 DEF Safe
  <2>3. CASE Vouched(m)
    <3>1. ~ \E s \in Slots : slot[s].mcap = m /\ slot[s].pc \in {"extractMcap", "saveMcap"}
      BY DEF GroundInv, OneMcap
    <3> QED BY <1>2, <2>3, <3>1, VouchedSafe
  <2> QED BY <2>1, <2>2, <2>3 DEF StepFacts, RowMove
<1>8. GroundedMcap(e)'
  BY <1>1, <1>2, <1>6, <1>7 DEF GroundedSlot, GroundedMcap
<1>9. /\ e.pc \in BagPc \cup ConvertPc \cup {"promote"} => e.file \in Ids /\ Safe(e.file)'
      /\ e.pc \in {"promoted", "complete"} => e.file \in Ids /\ Settled(e.file)'
      /\ e.file \in Ids /\ e.seen.state # "UPLOADING" => Settled(e.file)'
  BY <1>1, <1>2, <1>3 DEF GroundedSlot
<1> QED BY <1>4, <1>5, <1>8, <1>9 DEF GroundedSlot
\* A file that is OK stays backed, if whoever converts to it sees to that.
LEMMA OkKept ==
    ASSUME GroundInv, StepFacts, stalls > 0 => stalls' > 0,
           \A f \in Ids : Converting(f) => \/ Converting(f)' \/ (Ok(f)' => Safe(f)')
                                           \/ stalls' > 0 /\ file[f].name[2] = "MCAP"
    PROVE  OkBacked'
<1> SUFFICES ASSUME NEW f \in Ids, Ok(f)'
             PROVE  Safe(f)' \/ Converting(f)' \/ (stalls' > 0 /\ file'[f].name[2] = "MCAP")
  BY DEF OkBacked
<1>1. file[f].row # "none" => file'[f].name = file[f].name
  BY DEF StepFacts, RowMove
<1>2. CASE Safe(f)
  BY <1>2, SafeKept DEF StepFacts
<1>3. CASE f \in stale'
  BY <1>3 DEF Safe, Ok, LiveFile
<1>4. CASE Converting(f)
  <2>1. file[f].row # "none"
    BY <1>4 DEF Converting, GroundInv, GroundedSlot, GroundedMcap
  <2> QED BY <1>1, <1>4, <2>1
<1>5. CASE Ok(f)
  <2>1. file[f].row # "none"
    BY <1>5 DEF Ok, LiveFile
  <2> QED BY <1>1, <1>2, <1>4, <1>5, <2>1 DEF GroundInv, OkBacked
<1>6. CASE Vouched(f)
  BY <1>2, <1>4, <1>6, VouchedSafe DEF Converting
<1> QED BY <1>3, <1>5, <1>6 DEF StepFacts, RowMove

\* The stations between which a slot need not learn anything.
Onward(from, to) ==
    \/ from = "download" /\ to = "fetch"
    \/ from \in BagPc /\ to \in BagPc
    \/ from \notin McapPc /\ to \in {"load", "expand", "addChild", "fail", "bagFailed", "unreadable"}
    \/ from \in ConvertPc /\ to \in ConvertPc
    \/ from \in ConvertPc \cup {"promote", "promoted"} /\ to = "mcapFailed"
    \/ from = "promoted" /\ to = "complete"
    \/ from = "bagFailed" /\ to = "fail"

LEMMA GroundOnward ==
    ASSUME NEW d \in Slot, NEW e \in Slot, GroundedSlot(d)', Onward(d.pc, e.pc),
           e.job = d.job \/ e.pc = "load",
           e.file = d.file, e.mcap = d.mcap, e.seen = d.seen
    PROVE  GroundedSlot(e)'
<1>1. e.pc \in {"download", "fetch", "resolve"} => d.pc = "download" /\ e.pc = "fetch"
  BY DEF Onward, BagPc, ConvertPc
<1>2. e.pc \in BagPc \cup ConvertPc \cup {"promote"} => d.pc \in BagPc \cup ConvertPc
  BY DEF Onward, BagPc, ConvertPc, McapPc
<1>3. e.pc \in {"promoted", "complete"} => d.pc = "promoted"
  BY DEF Onward, BagPc, ConvertPc, McapPc
<1>4. e.mcap \in Ids => /\ e.pc \in McapPc
                        /\ e.pc \in {"promote", "promoted", "complete"} => d.pc = "promoted"
                        /\ e.pc \in {"bagFailed", "fail"} => d.pc = "bagFailed"
  BY DEF Onward, BagPc, ConvertPc, McapPc, GroundedSlot, GroundedMcap
<1>5. GroundedMcap(e)'
  BY <1>4 DEF GroundedSlot, GroundedMcap
<1> QED BY <1>1, <1>2, <1>3, <1>5 DEF GroundedSlot, Slot
\* Stations that are reached with the verdict on the file.
LEMMA GroundVerdict ==
    ASSUME NEW d \in Slot, NEW e \in Slot, GroundedSlot(d)',
           \/ d.pc \in {"corrupted", "extract", "finish"} /\ e.pc \in {"complete", "fail", "unreadable"}
           \/ d.pc = "promote" /\ e.pc = "promoted"
           \/ d.pc = "bagFailed" /\ e.pc = "fail",
           e.file = d.file, e.mcap = d.mcap, e.file \in Ids => Settled(e.file)'
    PROVE  GroundedSlot(e)'
<1>1. e.pc \notin {"download", "fetch", "resolve", "promote"} \cup BagPc \cup ConvertPc
  BY DEF BagPc, ConvertPc
<1>2. e.pc \in {"promoted", "complete"} => e.file \in Ids
  BY DEF GroundedSlot, BagPc
<1>3. GroundedMcap(e)'
  BY DEF GroundedSlot, GroundedMcap, McapPc, ConvertPc
<1> QED BY <1>1, <1>2, <1>3 DEF GroundedSlot

\* Nor has a conversion that failed left its file OK.
LEMMA GroundFailed ==
    ASSUME NEW d \in Slot, NEW e \in Slot, GroundedSlot(d)', e.pc = "bagFailed",
           e.file = d.file, e.mcap = d.mcap, e.seen = d.seen,
           e.mcap \in Ids => ~Ok(e.mcap)'
    PROVE  GroundedSlot(e)'
<1>1. e.pc \notin {"download", "fetch", "resolve", "promote"} \cup BagPc \cup ConvertPc
  BY DEF BagPc, ConvertPc
<1>2. GroundedMcap(e)'
  BY DEF GroundedSlot, GroundedMcap, McapPc
<1> QED BY <1>1, <1>2 DEF GroundedSlot

LEMMA SavedState ==
    ASSUME file \in [Ids -> FileRow], NEW f \in Ids, NEW entity \in Entity,
           SaveFile(f, entity) \/ SaveCreated(f, entity)
    PROVE  file'[f].state = entity.state
<1>1. Saved(f, entity) \in FileRow /\ Saved(f, entity).state = entity.state
  BY SavedRow
<1>2. CASE SaveFile(f, entity)
  BY <1>1, <1>2 DEF SaveFile
<1>3. CASE SaveCreated(f, entity)
  <2> DEFINE new == [Saved(f, entity) EXCEPT !.row = IF @ = "gone" THEN "live" ELSE @]
  <2>1. new.state = entity.state
    BY <1>1 DEF FileRow
  <2>2. file'[f] = new
    BY <1>3 DEF SaveCreated
  <2> HIDE DEF new
  <2> QED BY <2>1, <2>2
<1> QED BY <1>2, <1>3

\* The converted file of a slot changes at the end, or when it is inserted.
McapStep(d, e) ==
    \/ e.mcap = d.mcap
    \/ e.mcap = NoId /\ (d.mcap \in Ids => d.pc \in {"complete", "fail"})
    \/ e.mcap \in Ids /\ file[e.mcap].row = "none" /\ d.mcap \notin Ids

\* What every step of a slot leads to.
SlotGrounds(s) ==
    \E e \in Slot : /\ slot' = [slot EXCEPT ![s] = e]
                    /\ GroundedSlot(e)' /\ McapStep(slot[s], e)

LEMMA GroundMove ==
    ASSUME FileInv, GroundInv, StepFacts, NEW s \in Slots, NEW to \in SlotPc, Move(s, to),
           Onward(slot[s].pc, to)
    PROVE  SlotGrounds(s)
<1>1. PICK d \in Slot : d = slot[s]
  BY DEF FileInv, IngestionOK, IngestionTypeOK
<1>2. GroundedSlot(d)'
  BY <1>1, GroundKept
<1> DEFINE e == [d EXCEPT !.pc = to]
<1>3. e \in Slot /\ e.pc = to /\ e.job = d.job /\ e.file = d.file /\ e.mcap = d.mcap /\ e.seen = d.seen
  BY DEF Slot
<1>4. slot' = [slot EXCEPT ![s] = e]
  BY <1>1 DEF Move, FileInv, IngestionOK, IngestionTypeOK
<1> HIDE DEF e
<1>5. GroundedSlot(e)'
  BY <1>1, <1>2, <1>3, GroundOnward
<1> QED BY <1>1, <1>3, <1>4, <1>5 DEF SlotGrounds, McapStep

LEMMA GroundIdle ==
    ASSUME FileInv, GroundInv, NEW s \in Slots, Idle(s),
           slot[s].pc \in {"complete", "fail"} \/ slot[s].pc \notin McapPc
    PROVE  SlotGrounds(s)
<1>1. slot[s].mcap \in Ids => slot[s].pc \in {"complete", "fail"}
  BY DEF GroundInv, GroundedSlot, GroundedMcap
<1>2. /\ IdleSlot.pc = "idle" /\ IdleSlot.file = NoId /\ IdleSlot.mcap = NoId
      /\ IdleSlot \in Slot /\ NoId \notin Ids
  BY IdleSlotGood, FileStoreAssumption DEF IdleSlot
<1>3. GroundedSlot(IdleSlot)'
  BY <1>2 DEF GroundedSlot, GroundedMcap, BagPc, ConvertPc
<1> QED BY <1>1, <1>2, <1>3 DEF Idle, SlotGrounds, McapStep

\* The entity in memory is saved with a verdict, or refused.
LEMMA GroundSave ==
    ASSUME FileInv, GroundInv, StepFacts, NEW s \in Slots, NEW from, NEW to, NEW refused,
           NEW state \in FileState \ {"UPLOADING"}, SaveSeen(s, from, state, to, refused),
           \/ from \in {"corrupted", "extract", "finish"} /\ to \in {"complete", "fail", "unreadable"}
           \/ from = "promote" /\ to = "promoted"
           \/ from = "bagFailed" /\ to = "fail",
           refused = IF from = "promote" THEN "mcapFailed" ELSE "fail"
    PROVE  SlotGrounds(s)
<1>1. PICK d \in Slot : d = slot[s]
  BY DEF FileInv, IngestionOK, IngestionTypeOK
<1>2. GroundedSlot(d)' /\ SlotOnRow(d) /\ d.pc = from
  BY <1>1, GroundKept DEF FileInv, IngestionOK, SlotInv, SaveSeen, SlotAt
<1> DEFINE entity == [d.seen EXCEPT !.state = state]
           e == [d EXCEPT !.pc = to, !.seen = entity]
<1>3. entity \in Entity /\ entity.state = state
  BY DEF Slot, Entity
<1>4. \/ /\ SaveCreated(d.file, entity) \/ SaveFile(d.file, entity)
         /\ slot' = [slot EXCEPT ![s] = e]
      \/ Move(s, refused)
  BY <1>1 DEF SaveSeen, FileInv, IngestionOK, IngestionTypeOK
<1>5. e \in Slot /\ e.pc = to /\ e.file = d.file /\ e.mcap = d.mcap
  BY ZenonT(60), <1>3 DEF Slot, SlotPc
<1> HIDE DEF entity, e
<1>6. CASE Move(s, refused)
  <2>1. refused \in SlotPc /\ Onward(from, refused)
    BY DEF SlotPc, Onward, McapPc, ConvertPc
  <2> QED BY <1>1, <1>2, <1>6, <2>1, GroundMove
<1>7. CASE /\ SaveCreated(d.file, entity) \/ SaveFile(d.file, entity)
           /\ slot' = [slot EXCEPT ![s] = e]
  <2>1. ASSUME NEW f \in Ids, f = d.file PROVE Settled(f)'
    <3>1. file'[f].state # "UPLOADING"
      BY <1>3, <1>7, <2>1, SavedState DEF FileInv, StoreInv, FileStoreTypeOK
    <3>2. file'[f].row # "none"
      BY <1>2, <2>1 DEF SlotOnRow, StepFacts, RowsKept
    <3> QED BY <3>1, <3>2 DEF Settled, Uploading
  <2>2. GroundedSlot(e)'
    BY <1>2, <1>5, <2>1, GroundVerdict
  <2> QED BY <1>1, <1>5, <1>7, <2>2 DEF SlotGrounds, McapStep
<1> QED BY <1>4, <1>6, <1>7

LEMMA GroundSaveMcap ==
    ASSUME FileInv, GroundInv, StepFacts, NEW s \in Slots, NEW state \in FileState, NEW to,
           SaveMcap(s, state, to),
           \/ slot[s].pc = "extractMcap" /\ to = "hashMcap"
           \/ slot[s].pc = "saveMcap" /\ to = "markUpload"
           \/ slot[s].pc = "mcapFailed" /\ to = "bagFailed" /\ state # "OK"
    PROVE  SlotGrounds(s)
<1>1. PICK d \in Slot : d = slot[s]
  BY DEF FileInv, IngestionOK, IngestionTypeOK
<1>2. GroundedSlot(d)'
  BY <1>1, GroundKept
<1>3. McapEntity(s, state) \in Entity /\ McapEntity(s, state).state = state
  BY DEF McapEntity, Entity
<1>4. CASE Move(s, to) /\ to # "bagFailed"
  <2>1. Onward(slot[s].pc, to) /\ to \in SlotPc
    BY <1>4 DEF Onward, ConvertPc, SlotPc
  <2> QED BY <1>4, <2>1, GroundMove
<1>5. CASE Move(s, "bagFailed")
  <2>1. ASSUME NEW m \in Ids, m = d.mcap PROVE ~Ok(m)'
    <3>1. \/ SaveCreated(m, McapEntity(s, state)) /\ Move(s, to)
          \/ UNCHANGED file /\ ~CanSaveCreated(m)
      BY <1>1, <2>1 DEF SaveMcap
    <3>2. CASE UNCHANGED file /\ ~CanSaveCreated(m)
      BY <3>2 DEF CanSaveCreated, CanSave, Ok, LiveFile
    <3>3. CASE SaveCreated(m, McapEntity(s, state)) /\ Move(s, to)
      <4>1. to = "bagFailed"
        BY <1>5, <3>3 DEF Move, FileInv, IngestionOK, IngestionTypeOK, Slot
      <4>2. file'[m].state = state
        BY <1>3, <3>3, SavedState DEF FileInv, StoreInv, FileStoreTypeOK
      <4> QED BY <4>1, <4>2 DEF Ok
    <3> QED BY <3>1, <3>2, <3>3
  <2> DEFINE e == [d EXCEPT !.pc = "bagFailed"]
  <2>2. e \in Slot /\ e.pc = "bagFailed" /\ e.file = d.file /\ e.mcap = d.mcap /\ e.seen = d.seen
    BY DEF Slot, SlotPc
  <2>3. slot' = [slot EXCEPT ![s] = e]
    BY <1>1, <1>5 DEF Move, FileInv, IngestionOK, IngestionTypeOK
  <2> HIDE DEF e
  <2>4. GroundedSlot(e)'
    BY <1>2, <2>1, <2>2, GroundFailed
  <2> QED BY <1>1, <2>2, <2>3, <2>4 DEF SlotGrounds, McapStep
<1> QED BY <1>4, <1>5 DEF SaveMcap
\* What a slot learns, station by station.
LEMMA SlotLearns ==
    ASSUME FileInv, GroundInv, StepFacts, NEW s \in Slots, Take(s) \/ ProcessNext(s)
    PROVE  SlotGrounds(s)
<1>1. PICK d \in Slot : d = slot[s]
  BY DEF FileInv, IngestionOK, IngestionTypeOK
<1>2. /\ GroundedSlot(d) /\ GroundedSlot(d)' /\ GoodSlot(d) /\ SlotOnRow(d)
      /\ slot \in [Slots -> Slot] /\ file \in [Ids -> FileRow] /\ job \in [JobIds -> JobRow]
      /\ NameInv
  BY <1>1, GroundKept DEF FileInv, IngestionOK, SlotInv, IngestionTypeOK, GroundInv, StoreInv,
     FileStoreTypeOK
<1>3. \A f \in Ids : Safe(f) => Safe(f)'
  BY SafeKept DEF StepFacts
\* A step that changes more of the slot than the station.
<1>4. ASSUME NEW e \in Slot, slot' = [slot EXCEPT ![s] = e], e.mcap = d.mcap, GroundedSlot(e)'
      PROVE  SlotGrounds(s)
  BY <1>1, <1>4 DEF SlotGrounds, McapStep
<1>5. ASSUME NEW to \in SlotPc, Move(s, to), Onward(d.pc, to)
      PROVE  SlotGrounds(s)
  BY <1>1, <1>5, GroundMove
<1>6. ASSUME NEW to \in SlotPc, Move(s, to)
      PROVE  LET e == [d EXCEPT !.pc = to] IN
             /\ e \in Slot /\ slot' = [slot EXCEPT ![s] = e] /\ e.pc = to /\ e.job = d.job
             /\ e.file = d.file /\ e.mcap = d.mcap /\ e.seen = d.seen
  BY <1>1, <1>2, <1>6 DEF Move, Slot
<1>7. CASE Take(s)
  <2>1. PICK j \in JobIds : slot' = [slot EXCEPT ![s].pc = "load", ![s].job = j]
    BY <1>7 DEF Take
  <2> DEFINE e == [d EXCEPT !.pc = "load", !.job = j]
  <2>2. e \in Slot /\ e.pc = "load" /\ e.file = d.file /\ e.mcap = d.mcap /\ e.seen = d.seen
    BY DEF Slot, SlotPc
  <2>3. slot' = [slot EXCEPT ![s] = e]
    BY <1>1, <1>2, <2>1
  <2>4. Onward(d.pc, "load")
    BY <1>1, <1>7 DEF Take, SlotAt, Onward, McapPc, ConvertPc
  <2> HIDE DEF e
  <2> QED BY <1>2, <1>4, <2>2, <2>3, <2>4, GroundOnward
<1>8. CASE Load(s)
  <2>1. d.pc = "load" /\ d.pc \notin McapPc
    BY <1>1, <1>8 DEF Load, SlotAt, McapPc, ConvertPc
  <2>2. CASE Idle(s)
    BY <1>1, <2>1, <2>2, GroundIdle
  <2>3. CASE Move(s, "download") /\ LiveJob(slot[s].job)
    <3> DEFINE e == [d EXCEPT !.pc = "download"]
    <3>1. /\ e \in Slot /\ slot' = [slot EXCEPT ![s] = e] /\ e.pc = "download" /\ e.job = d.job
          /\ e.file = d.file /\ e.mcap = d.mcap /\ e.seen = d.seen
      BY <1>6, <2>3 DEF SlotPc
    <3> HIDE DEF e
    <3>2. job'[e.job].row # "none"
      BY <1>1, <1>2, <2>1, <2>3, <3>1 DEF LiveJob, GoodSlot, StepFacts, JobsKept
    <3>3. GroundedSlot(e)'
      BY <1>2, <2>1, <3>1, <3>2 DEF GroundedSlot, GroundedMcap, BagPc, ConvertPc, McapPc
    <3> QED BY <1>4, <3>1, <3>3
  <2>4. ASSUME NEW n \in 0..MaxChildren, slot' = [slot EXCEPT ![s].pc = "expand", ![s].left = n]
        PROVE  SlotGrounds(s)
    <3> DEFINE e == [d EXCEPT !.pc = "expand", !.left = n]
    <3>1. /\ e \in Slot /\ e.pc = "expand" /\ e.job = d.job
          /\ e.file = d.file /\ e.mcap = d.mcap /\ e.seen = d.seen
      BY DEF Slot, SlotPc
    <3>2. slot' = [slot EXCEPT ![s] = e]
      BY <1>1, <1>2, <2>4
    <3>3. Onward(d.pc, "expand")
      BY <2>1 DEF Onward
    <3> HIDE DEF e
    <3> QED BY <1>2, <1>4, <3>1, <3>2, <3>3, GroundOnward
  <2> QED BY <1>8, <2>2, <2>3, <2>4 DEF Load
<1>9. CASE SaveChild(s)
  <2>1. PICK j \in JobIds :
            slot' = [slot EXCEPT ![s].pc = "addChild", ![s].left = @ - 1, ![s].child = j]
    BY <1>9 DEF SaveChild
  <2> DEFINE e == [d EXCEPT !.pc = "addChild", !.left = @ - 1, !.child = j]
  <2>2. d.left - 1 \in 0..MaxChildren
    BY <1>1, <1>9, FileIngestionAssumption DEF SaveChild, Slot
  <2>3. /\ e \in Slot /\ e.pc = "addChild" /\ e.job = d.job
        /\ e.file = d.file /\ e.mcap = d.mcap /\ e.seen = d.seen
    BY <2>2 DEF Slot, SlotPc
  <2>4. slot' = [slot EXCEPT ![s] = e]
    BY <1>1, <1>2, <2>1
  <2>5. Onward(d.pc, "addChild")
    BY <1>1, <1>9 DEF SaveChild, SlotAt, Onward, McapPc, ConvertPc
  <2> HIDE DEF e
  <2> QED BY <1>2, <1>4, <2>3, <2>4, <2>5, GroundOnward
<1>10. CASE AddChild(s) \/ AddChildFails(s)
  <2>1. PICK to \in {"expand", "fail"} : slot' = [slot EXCEPT ![s].pc = to, ![s].child = NoJob]
    BY <1>10 DEF AddChild, AddChildFails
  <2> DEFINE e == [d EXCEPT !.pc = to, !.child = NoJob]
  <2>2. /\ e \in Slot /\ e.pc = to /\ e.job = d.job
        /\ e.file = d.file /\ e.mcap = d.mcap /\ e.seen = d.seen
    BY DEF Slot, SlotPc
  <2>3. slot' = [slot EXCEPT ![s] = e]
    BY <1>1, <1>2, <2>1
  <2>4. Onward(d.pc, to)
    BY <1>1, <1>10 DEF AddChild, AddChildFails, SlotAt, Onward, McapPc, ConvertPc
  <2> HIDE DEF e
  <2> QED BY <1>2, <1>4, <2>2, <2>3, <2>4, GroundOnward
<1>11. CASE ExpandEnds(s) \/ Discard(s) \/ RejectJob(s) \/ CompleteJob(s) \/ FailJob(s)
  <2>1. Idle(s) /\ slot[s].pc \in {"expand", "resolve", "unreadable", "complete", "fail"}
    BY <1>11 DEF ExpandEnds, Discard, RejectJob, CompleteJob, FailJob, End, SlotAt
  <2> QED BY <2>1, GroundIdle DEF McapPc, ConvertPc
<1>12. CASE MarkDownloading(s) \/ MarkProcessing(s) \/ MarkConverting(s) \/ MarkUploading(s)
  <2>1. PICK to \in SlotPc : Move(s, to) /\ Onward(d.pc, to)
    <3>1. CASE MarkDownloading(s)
      BY <1>1, <3>1 DEF MarkDownloading, Mark, SlotAt, SlotPc, Onward
    <3>2. CASE MarkProcessing(s)
      BY <1>1, <3>2 DEF MarkProcessing, Mark, SlotAt, SlotPc, Onward, BagPc
    <3>3. CASE MarkConverting(s)
      BY <1>1, <3>3 DEF MarkConverting, Mark, SlotAt, SlotPc, Onward, BagPc
    <3>4. CASE MarkUploading(s)
      BY <1>1, <3>4 DEF MarkUploading, Mark, SlotAt, SlotPc, Onward, ConvertPc
    <3> QED BY <1>12, <3>1, <3>2, <3>3, <3>4
  <2> QED BY <1>5, <2>1
<1>13. CASE Validate(s) \/ Convert(s) \/ RecordConversion(s)
  <2>1. PICK to \in SlotPc : Move(s, to) /\ Onward(d.pc, to)
    <3>1. CASE Validate(s)
      BY <1>1, <3>1 DEF Validate, SlotAt, SlotPc, Onward, BagPc
    <3>2. CASE Convert(s)
      BY <1>1, <3>2 DEF Convert, SlotAt, SlotPc, Onward, BagPc, ConvertPc, McapPc
    <3>3. CASE RecordConversion(s)
      BY <1>1, <3>3 DEF RecordConversion, SlotAt, SlotPc, Onward
    <3> QED BY <1>13, <3>1, <3>2, <3>3
  <2> QED BY <1>5, <2>1
<1>14. CASE HashMcap(s)
  <2> DEFINE e == [d EXCEPT !.pc = "saveMcap", !.hashed = TRUE]
  <2>1. /\ e \in Slot /\ e.pc = "saveMcap" /\ e.job = d.job
        /\ e.file = d.file /\ e.mcap = d.mcap /\ e.seen = d.seen
    BY DEF Slot, SlotPc
  <2>2. slot' = [slot EXCEPT ![s] = e]
    BY <1>1, <1>2, <1>14 DEF HashMcap
  <2>3. Onward(d.pc, "saveMcap")
    BY <1>1, <1>14 DEF HashMcap, SlotAt, Onward, ConvertPc
  <2> HIDE DEF e
  <2> QED BY <1>2, <1>4, <2>1, <2>2, <2>3, GroundOnward
<1>15. CASE Fetch(s)
  <2>1. d.pc = "fetch"
    BY <1>1, <1>15 DEF Fetch, SlotAt
  <2>2. CASE Move(s, "fail")
    BY <1>5, <2>1, <2>2 DEF Onward, SlotPc, McapPc, ConvertPc
  <2>3. CASE /\ Move(s, "resolve")
             /\ ~IsDrive(s) => LET f == job[slot[s].job].of IN LiveFile(f) /\ f \in object
    <3> DEFINE e == [d EXCEPT !.pc = "resolve"]
    <3>1. /\ e \in Slot /\ slot' = [slot EXCEPT ![s] = e] /\ e.pc = "resolve" /\ e.job = d.job
          /\ e.file = d.file /\ e.mcap = d.mcap /\ e.seen = d.seen
      BY <1>6, <2>3 DEF SlotPc
    <3> HIDE DEF e
    <3>2. /\ job[e.job].row # "none" /\ e.job \in JobIds
          /\ job'[e.job].row # "none" /\ job'[e.job].of = job[e.job].of
      BY <1>2, <2>1, <3>1 DEF GroundedSlot, GoodSlot, StepFacts, JobsKept
    <3>3. ASSUME NEW f \in Ids, job'[e.job].of = f PROVE Safe(f)'
      <4>1. LiveFile(f) /\ f \in object
        BY <1>1, <2>3, <3>1, <3>2, <3>3, FileStoreAssumption DEF IsDrive
      <4>2. Safe(f)
        BY <4>1 DEF Safe, LiveFile
      <4> QED BY <1>3, <4>2
    <3>4. GroundedSlot(e)'
      BY <1>2, <2>1, <3>1, <3>2, <3>3 DEF GroundedSlot, GroundedMcap, BagPc, ConvertPc, McapPc
    <3> QED BY <1>4, <3>1, <3>4
  <2> QED BY <1>15, <2>2, <2>3 DEF Fetch
<1>16. CASE ResolveUpload(s)
  <2>1. PICK f : f = job[d.job].of
    OBVIOUS
  <2>2. /\ d.pc = "resolve" /\ f # NoId /\ LiveFile(f)
        /\ slot' = [slot EXCEPT ![s] = [d EXCEPT !.pc = "validate", !.file = f,
                                                !.seen = EntityOf(f)]]
    BY <1>1, <1>2, <1>16, <2>1 DEF ResolveUpload, SlotAt, IsDrive
  <2>3. f \in Ids
    <3>1. job[d.job] \in JobRow
      BY <1>2, <2>2 DEF GoodSlot
    <3> QED BY <2>1, <2>2, <3>1 DEF JobRow
  <2>4. PICK e \in Slot : e = [d EXCEPT !.pc = "validate", !.file = f, !.seen = EntityOf(f)]
    <3>1. EntityOf(f) \in Entity
      BY <1>2, <2>3, EntityIsEntity
    <3> QED BY <2>3, <3>1 DEF Slot, SlotPc
  <2>5. /\ slot' = [slot EXCEPT ![s] = e] /\ e.pc = "validate" /\ e.file = f
        /\ e.mcap = d.mcap /\ e.seen.state = file[f].state
    <3>1. e.pc = "validate" /\ e.file = f /\ e.mcap = d.mcap /\ e.seen = EntityOf(f)
      BY <2>4 DEF Slot
    <3> QED BY <2>2, <2>4, <3>1 DEF EntityOf
  <2>6. Safe(f)'
    BY <1>2, <1>3, <2>1, <2>2, <2>3 DEF GroundedSlot
  <2>7. file[f].state # "UPLOADING" => Settled(f)'
    <3>1. file[f].state # "UPLOADING" => Settled(f)
      BY <2>2 DEF Settled, Uploading, LiveFile
    <3> QED BY <2>3, <3>1, SettledKept
  <2>8. GroundedMcap(e)'
    <3>1. d.mcap \notin Ids
      BY <1>2, <2>2 DEF GroundedSlot, GroundedMcap, McapPc, ConvertPc
    <3> QED BY <2>5, <3>1 DEF GroundedMcap
  <2>9. GroundedSlot(e)'
    BY <2>3, <2>5, <2>6, <2>7, <2>8 DEF GroundedSlot
  <2> QED BY <1>4, <2>5, <2>9
<1>17. CASE CreateDriveFile(s)
  <2>1. d.pc = "resolve"
    BY <1>1, <1>17 DEF CreateDriveFile, SlotAt
  <2>2. CASE Move(s, "fail")
    BY <1>5, <2>1, <2>2 DEF Onward, SlotPc, McapPc, ConvertPc
  <2>3. ASSUME NEW f \in Ids,
               slot' = [slot EXCEPT ![s].pc = "upload", ![s].file = f,
                                    ![s].seen = [state |-> "UPLOADING", hash |-> "md5"]]
        PROVE  SlotGrounds(s)
    <3> DEFINE e == [d EXCEPT !.pc = "upload", !.file = f,
                              !.seen = [state |-> "UPLOADING", hash |-> "md5"]]
    <3>1. /\ e \in Slot /\ e.pc = "upload" /\ e.file = f /\ e.mcap = d.mcap
          /\ e.seen.state = "UPLOADING"
      BY DEF Slot, SlotPc, Entity, FileState
    <3>2. slot' = [slot EXCEPT ![s] = e]
      BY <1>1, <1>2, <2>3
    <3> HIDE DEF e
    <3>3. GroundedSlot(e)'
      BY <1>2, <2>1, <3>1 DEF GroundedSlot, GroundedMcap, BagPc, ConvertPc, McapPc
    <3> QED BY <1>4, <3>1, <3>2, <3>3
  <2> QED BY <1>17, <2>2, <2>3 DEF CreateDriveFile
<1>18. CASE UploadDriveFile(s)
  <2>1. d.pc = "upload"
    BY <1>1, <1>18 DEF UploadDriveFile, SlotAt
  <2>2. CASE Move(s, "fail")
    BY <1>5, <2>1, <2>2 DEF Onward, SlotPc, McapPc, ConvertPc
  <2>3. CASE object' = object \cup {slot[s].file} /\ Move(s, "validate")
    <3> DEFINE e == [d EXCEPT !.pc = "validate"]
    <3>1. /\ e \in Slot /\ slot' = [slot EXCEPT ![s] = e] /\ e.pc = "validate" /\ e.job = d.job
          /\ e.file = d.file /\ e.mcap = d.mcap /\ e.seen = d.seen
      BY <1>6, <2>3 DEF SlotPc
    <3> HIDE DEF e
    <3>2. e.file \in Ids /\ Safe(e.file)'
      <4>1. e.file \in Ids /\ e.file \in object'
        BY <1>1, <1>2, <2>1, <2>3, <3>1 DEF GoodSlot
      <4>2. file'[e.file].row # "none"
        BY <1>2, <3>1, <4>1 DEF SlotOnRow, StepFacts, RowsKept
      <4> QED BY <4>1, <4>2 DEF Safe
    <3>3. GroundedSlot(e)'
      BY <1>2, <2>1, <3>1, <3>2 DEF GroundedSlot, GroundedMcap, BagPc, ConvertPc, McapPc
    <3> QED BY <1>4, <3>1, <3>3
  <2> QED BY <1>18, <2>2, <2>3 DEF UploadDriveFile
<1>19. CASE InsertMcap(s)
  <2>1. d.pc = "insertMcap"
    BY <1>1, <1>19 DEF InsertMcap, SlotAt
  <2>2. CASE Move(s, "bagFailed")
    BY <1>5, <2>1, <2>2 DEF Onward, SlotPc, McapPc, ConvertPc
  <2>3. ASSUME NEW f \in Ids,
               InsertFile(f, McapName(file[slot[s].file].name), "CONVERTING", "null"),
               slot' = [slot EXCEPT ![s].pc = "extractMcap", ![s].mcap = f]
        PROVE  SlotGrounds(s)
    <3> DEFINE e == [d EXCEPT !.pc = "extractMcap", !.mcap = f]
    <3>1. /\ e \in Slot /\ e.pc = "extractMcap" /\ e.job = d.job
          /\ e.file = d.file /\ e.mcap = f /\ e.seen = d.seen
      BY DEF Slot, SlotPc
    <3>2. slot' = [slot EXCEPT ![s] = e]
      BY <1>1, <1>2, <2>3
    <3> HIDE DEF e
    <3>3. /\ file[f].row = "none" /\ file'[f].row = "live" /\ file'[f].name[2] = "MCAP"
      BY <1>2, <2>3 DEF InsertFile, FreshFiles, McapName
    <3>4. GroundedMcap(e)'
      BY <3>1, <3>3 DEF GroundedMcap, McapPc, ConvertPc
    <3>5. e.file \in Ids /\ Safe(e.file)'
      BY <1>2, <2>1, <3>1 DEF GroundedSlot, BagPc
    <3>6. e.file \in Ids /\ e.seen.state # "UPLOADING" => Settled(e.file)'
      BY <1>2, <3>1 DEF GroundedSlot
    <3>7. GroundedSlot(e)'
      BY <3>1, <3>4, <3>5, <3>6 DEF GroundedSlot
    <3>8. d.mcap \notin Ids
      BY <1>2, <2>1 DEF GroundedSlot, GroundedMcap, McapPc, ConvertPc
    <3> QED BY <1>1, <3>1, <3>2, <3>3, <3>7, <3>8 DEF SlotGrounds, McapStep
  <2> QED BY <1>19, <2>2, <2>3 DEF InsertMcap
<1>20. CASE UploadMcap(s)
  <2>1. d.pc = "uploadMcap"
    BY <1>1, <1>20 DEF UploadMcap, SlotAt
  <2>2. CASE Move(s, "mcapFailed")
    BY <1>5, <2>1, <2>2 DEF Onward, SlotPc, ConvertPc
  <2>3. CASE object' = object \cup {slot[s].mcap} /\ Move(s, "promote")
    <3> DEFINE e == [d EXCEPT !.pc = "promote"]
    <3>1. /\ e \in Slot /\ slot' = [slot EXCEPT ![s] = e] /\ e.pc = "promote" /\ e.job = d.job
          /\ e.file = d.file /\ e.mcap = d.mcap /\ e.seen = d.seen
      BY <1>6, <2>3 DEF SlotPc
    <3> HIDE DEF e
    <3>2. Safe(e.mcap)'
      <4>1. e.mcap \in Ids /\ e.mcap \in object'
        BY <1>1, <1>2, <2>1, <2>3, <3>1 DEF GoodSlot
      <4>2. file'[e.mcap].row # "none"
        BY <1>2, <3>1, <4>1 DEF GroundedSlot, GroundedMcap
      <4> QED BY <4>1, <4>2 DEF Safe
    <3>3. GroundedMcap(e)'
      BY <1>2, <3>1, <3>2 DEF GroundedSlot, GroundedMcap, McapPc
    <3>4. e.file \in Ids /\ Safe(e.file)'
      BY <1>2, <2>1, <3>1 DEF GroundedSlot, ConvertPc
    <3>5. GroundedSlot(e)'
      BY <1>2, <3>1, <3>3, <3>4 DEF GroundedSlot
    <3> QED BY <1>4, <3>1, <3>5
  <2> QED BY <1>20, <2>2, <2>3 DEF UploadMcap
<1>21. CASE RejectFile(s) \/ Extract(s) \/ PromoteBag(s) \/ BagFailed(s)
  <2>1. CASE RejectFile(s)
    BY <2>1, GroundSave DEF RejectFile, FileState
  <2>2. CASE Extract(s)
    BY <2>2, GroundSave DEF Extract, FileState
  <2>3. CASE PromoteBag(s)
    BY <2>3, GroundSave DEF PromoteBag, FileState
  <2>4. CASE BagFailed(s)
    BY <2>4, GroundSave DEF BagFailed, FileState
  <2> QED BY <1>21, <2>1, <2>2, <2>3, <2>4
<1>22. CASE FinishFile(s)
  <2>1. CASE slot[s].seen.state = "UPLOADING"
    BY <1>22, <2>1, GroundSave DEF FinishFile, FileState
  <2>2. CASE slot[s].seen.state # "UPLOADING"
    <3>1. d.pc = "finish" /\ Move(s, "complete")
      BY <1>1, <1>22, <2>2 DEF FinishFile, SlotAt
    <3> DEFINE e == [d EXCEPT !.pc = "complete"]
    <3>2. /\ e \in Slot /\ slot' = [slot EXCEPT ![s] = e] /\ e.pc = "complete"
          /\ e.file = d.file /\ e.mcap = d.mcap
      BY <1>6, <3>1 DEF SlotPc
    <3> HIDE DEF e
    <3>3. e.file \in Ids => Settled(e.file)'
      BY <1>1, <1>2, <2>2, <3>2 DEF GroundedSlot
    <3>4. GroundedSlot(e)'
      BY <1>2, <3>1, <3>2, <3>3, GroundVerdict
    <3> QED BY <1>4, <3>2, <3>4
  <2> QED BY <2>1, <2>2
<1>23. CASE ExtractMcap(s) \/ SaveHash(s) \/ McapFailed(s)
  <2>1. CASE ExtractMcap(s)
    <3>1. d.pc = "extractMcap"
      BY <1>1, <2>1 DEF ExtractMcap, SlotAt
    <3>2. CASE SaveMcap(s, "OK", "hashMcap")
      BY <1>1, <3>1, <3>2, GroundSaveMcap DEF FileState
    <3>3. CASE Move(s, "mcapFailed")
      BY <1>5, <3>1, <3>3 DEF Onward, SlotPc, ConvertPc
    <3> QED BY <2>1, <3>2, <3>3 DEF ExtractMcap
  <2>2. CASE SaveHash(s)
    BY <2>2, GroundSaveMcap DEF SaveHash, SlotAt, FileState
  <2>3. CASE McapFailed(s)
    BY <2>3, GroundSaveMcap DEF McapFailed, SlotAt, FileState
  <2> QED BY <1>23, <2>1, <2>2, <2>3
<1> QED BY <1>7, <1>8, <1>9, <1>10, <1>11, <1>12, <1>13, <1>14, <1>15, <1>16, <1>17, <1>18, <1>19,
           <1>20, <1>21, <1>22, <1>23 DEF ProcessNext
\* What every step keeps, as far as the requests and the crons go by.
LEMMA StepKeeps ==
    ASSUME FileInv, UnhashedInv, [FileNext]_fileVars
    PROVE  StepFacts
<1>0. StoreInv /\ RequestsOK /\ IngestionOK /\ FileCleanupTypeOK /\ stale \subseteq Ids
  BY DEF FileInv
<1>1. RowsKept /\ JobsKept
  BY FileInvStep, JobsStay DEF StoreMoves, FileMoves
<1>2. ASSUME NEW f \in Ids PROVE RowMove(f) /\ KeepsBacking(f)
  <2>1. CASE RequestNext /\ UNCHANGED <<ingestionVars, cleanupVars>> /\ NoteStale
    <3>1. PICK r \in Requests : Receive(r) \/ Continue(r) \/ IssueFails(r) \/ RequestFails(r)
      BY <2>1 DEF RequestNext
    <3>2. UNCHANGED cleanupVars
      BY <2>1
    <3> QED BY <1>0, <2>1, <3>1, <3>2, RequestRows, RequestBacking
  <2>2. CASE IngestionNext /\ UNCHANGED <<requestVars, cleanupVars>> /\ NoteStale
    <3>1. UNCHANGED requestVars /\ UNCHANGED cleanupVars /\ stale \subseteq stale'
      BY <2>2 DEF NoteStale
    <3> QED BY <1>0, <2>2, <3>1, IngestionRows, OtherBacking
  <2>3. CASE (CleanupNext \/ RepairNext) /\ UNCHANGED <<requestVars, ingestionVars>> /\ NoteStale
    <3>1. UNCHANGED requestVars /\ stale \subseteq stale'
      BY <2>3 DEF NoteStale
    <3> QED BY <1>0, <2>3, <3>1, CronRows, OtherBacking
  <2>4. CASE EnvironmentNext /\ UNCHANGED <<requestVars, ingestionVars, cleanupVars, stale>>
    <3>1. UNCHANGED requestVars /\ UNCHANGED cleanupVars /\ stale \subseteq stale'
      BY <2>4
    <3> QED BY <1>0, <2>4, <3>1, EnvironmentRows, OtherBacking
  <2>5. CASE UNCHANGED fileVars
    <3>1. KeepsBacking(f)
      BY <2>5 DEF KeepsBacking, Deleting, fileVars, fileStoreVars, requestVars, cleanupVars
    <3> QED BY <2>5, <3>1, KeptRowMove DEF fileVars, fileStoreVars
  <2> QED BY <2>1, <2>2, <2>3, <2>4, <2>5 DEF FileNext
<1> QED BY <1>1, <1>2 DEF StepFacts

\* What a request learns: that the row exists, and that the object does.
LEMMA RequestLearns ==
    ASSUME FileInv, GroundInv, StepFacts, NEW r \in Requests,
           Receive(r) \/ Continue(r) \/ IssueFails(r) \/ RequestFails(r),
           NEW q \in Requests, NEW e, e = req'[q]
    PROVE  GroundedRequest(e)'
<1>1. /\ req \in [Requests -> Request] /\ file \in [Ids -> FileRow] /\ RequestsOK
  BY DEF FileInv, RequestsOK, FileRequestsTypeOK, StoreInv, FileStoreTypeOK
<1>2. PICK d \in Request : d = req[q]
  BY <1>1
<1>3. GroundedRequest(d) /\ d.on \subseteq Ids
  BY <1>2 DEF GroundInv, Request
<1>4. \A f \in Ids : /\ Safe(f) => Safe(f)'
                     /\ file[f].row # "none" => file'[f].row # "none"
  BY SafeKept DEF StepFacts, RowsKept
<1>5. GroundedRequest(d)'
  BY <1>3, <1>4 DEF GroundedRequest
<1>6. CASE q # r
  BY <1>1, <1>2, <1>5, <1>6, OneRequest
<1>7. ASSUME q = r, e.pc \notin {"findJob", "stat", "saveFile"}
      PROVE  GroundedRequest(e)'
  BY <1>7 DEF GroundedRequest
<1>8. ASSUME q = r, Answer(r) \/ e = NoRequest PROVE GroundedRequest(e)'
  <2>1. e = NoRequest
    BY <1>1, <1>8 DEF Answer
  <2> QED BY <1>7, <1>8, <2>1 DEF NoRequest
<1>9. ASSUME q = r, NEW kind, NEW pc, NEW f \in Ids, BeginOn(r, kind, pc, f),
             pc = "findJob" => LiveFile(f), pc \notin {"stat", "saveFile"}
      PROVE  GroundedRequest(e)'
  <2>1. e = [NoRequest EXCEPT !.pc = pc, !.on = {f}, !.seen = EntityOf(f)]
    BY <1>1, <1>9 DEF BeginOn, Begin
  <2>2. e.pc = pc /\ e.on = {f}
    BY <2>1 DEF NoRequest
  <2> QED BY <1>4, <1>9, <2>2 DEF GroundedRequest, LiveFile
<1>10. ASSUME q = r, NEW kind, NEW pc, NEW j, BeginJob(r, kind, pc, j),
              pc \notin {"findJob", "stat", "saveFile"}
       PROVE  GroundedRequest(e)'
  <2>1. e = [NoRequest EXCEPT !.pc = pc, !.job = j]
    BY <1>1, <1>10 DEF BeginJob, Begin
  <2>2. e.pc = pc
    BY <2>1 DEF NoRequest
  <2> QED BY <1>7, <1>10, <2>2
<1>11. ASSUME q = r, NEW pc, Goto(r, pc), pc \notin {"findJob", "stat", "saveFile"}
       PROVE  GroundedRequest(e)'
  <2>1. e = [d EXCEPT !.pc = pc]
    BY <1>1, <1>2, <1>11 DEF Goto
  <2>2. e.pc = pc
    BY <2>1 DEF Request
  <2> QED BY <1>7, <1>11, <2>2
<1>12. ASSUME q = r, ReadExisting(r) PROVE GroundedRequest(e)'
  <2>1. PICK names : e = [NoRequest EXCEPT !.pc = "reserve", !.names = names, !.on = Named(names)]
    BY <1>1, <1>12 DEF ReadExisting, Begin
  <2>2. e.pc = "reserve"
    BY <2>1 DEF NoRequest
  <2> QED BY <1>7, <1>12, <2>2
<1>13. ASSUME q = r, DeleteObjects(r) PROVE GroundedRequest(e)'
  <2>1. PICK ids : e = [NoRequest EXCEPT !.pc = "deleteMany", !.on = ids]
    BY <1>1, <1>13 DEF DeleteObjects, Begin
  <2>2. e.pc = "deleteMany"
    BY <2>1 DEF NoRequest
  <2> QED BY <1>7, <1>13, <2>2
<1>14. ASSUME q = r, Receive(r) PROVE GroundedRequest(e)'
  <2>1. CASE ConfirmUpload(r) \/ CancelUpload(r) \/ EditFile(r) \/ DeleteObject(r)
    BY <1>9, <1>14, <2>1 DEF ConfirmUpload, CancelUpload, EditFile, DeleteObject
  <2>2. CASE ImportFromDrive(r) \/ QueueDelete(r) \/ CancelProcessing(r) \/ StopJob(r)
    BY <1>10, <1>14, <2>2 DEF ImportFromDrive, QueueDelete, CancelProcessing, StopJob
  <2> QED BY <1>12, <1>13, <1>14, <2>1, <2>2 DEF Receive
<1>15. ASSUME q = r, Reserve(r) PROVE GroundedRequest(e)'
  <2>1. PICK ids : req' = [req EXCEPT ![r].pc = "issue", ![r].names = {}, ![r].on = @ \cup ids]
    BY <1>15 DEF Reserve
  <2>2. e = [d EXCEPT !.pc = "issue", !.names = {}, !.on = @ \cup ids]
    BY <1>1, <1>2, <1>15, <2>1
  <2>3. e.pc = "issue"
    BY <2>2 DEF Request
  <2> QED BY <1>7, <1>15, <2>3
<1>16. ASSUME q = r, FindJob(r) PROVE GroundedRequest(e)'
  <2>1. \/ Answer(r)
        \/ \E j : req' = [req EXCEPT ![r].pc = "stat", ![r].job = j]
    BY <1>16 DEF FindJob
  <2>2. ASSUME NEW j, req' = [req EXCEPT ![r].pc = "stat", ![r].job = j]
        PROVE  GroundedRequest(e)'
    <3>1. e = [d EXCEPT !.pc = "stat", !.job = j]
      BY <1>1, <1>2, <1>16, <2>2
    <3>2. e.pc = "stat" /\ e.on = d.on
      BY <3>1 DEF Request
    <3>3. d.pc = "findJob"
      BY <1>2, <1>16 DEF FindJob, At
    <3> QED BY <1>3, <1>4, <3>2, <3>3 DEF GroundedRequest
  <2> QED BY <1>8, <1>16, <2>1, <2>2
<1>17. ASSUME q = r, StatObject(r) PROVE GroundedRequest(e)'
  <2>1. CASE req[r].on \subseteq object /\ Goto(r, "saveFile")
    <3>1. e = [d EXCEPT !.pc = "saveFile"]
      BY <1>1, <1>2, <1>17, <2>1 DEF Goto
    <3>2. e.pc = "saveFile" /\ e.on = d.on
      BY <3>1 DEF Request
    <3>3. d.pc = "stat" /\ d.on \subseteq object
      BY <1>2, <1>17, <2>1 DEF StatObject, At
    <3>4. \A f \in d.on : Safe(f)
      BY <1>3, <3>3 DEF GroundedRequest, Safe
    <3> QED BY <1>3, <1>4, <3>2, <3>4 DEF GroundedRequest
  <2> QED BY <1>8, <1>17, <2>1 DEF StatObject
<1>18. ASSUME q = r, QueueRemoveJob(r) PROVE GroundedRequest(e)'
  <2>1. CASE req' = [req EXCEPT ![r] = [NoRequest EXCEPT !.pc = "findFile",
                                                         !.on = {job[req[r].job].of}]]
    <3>1. e = [NoRequest EXCEPT !.pc = "findFile", !.on = {job[req[r].job].of}]
      BY <1>1, <1>18, <2>1
    <3>2. e.pc = "findFile"
      BY <3>1 DEF NoRequest
    <3> QED BY <1>7, <1>18, <3>2
  <2> QED BY <1>8, <1>18, <2>1 DEF QueueRemoveJob
<1>19. ASSUME q = r, \/ ConfirmFile(r) \/ ConfirmJob(r) \/ QueueDequeue(r) \/ CancelDequeue(r)
                     \/ QueueFindFile(r) \/ QueueRemoveObject(r)
       PROVE  GroundedRequest(e)'
  <2>1. \/ Answer(r)
        \/ \E pc \in {"saveJob", "enqueue", "removeJob", "canceled", "removeObject", "removeFile"} :
                Goto(r, pc)
    BY <1>19 DEF ConfirmFile, ConfirmJob, QueueDequeue, CancelDequeue, QueueFindFile, QueueRemoveObject
  <2> QED BY <1>8, <1>11, <1>19, <2>1
<1>20. ASSUME q = r, \/ ReserveConflict(r) \/ IssueCredentials(r) \/ IssueFails(r) \/ EnqueueJob(r)
                     \/ CancelSave(r) \/ EditSave(r) \/ SoftRemoveFile(r) \/ DeleteMultiple(r)
                     \/ QueueRemoveFile(r) \/ CancelSaveJob(r) \/ StopSave(r)
       PROVE  GroundedRequest(e)'
  <2>1. Answer(r)
    BY <1>20 DEF ReserveConflict, IssueCredentials, IssueFails, EnqueueJob, CancelSave, EditSave,
       SoftRemoveFile, DeleteMultiple, QueueRemoveFile, CancelSaveJob, StopSave
  <2> QED BY <1>8, <1>20, <2>1
<1>21. ASSUME q = r, RequestFails(r) PROVE GroundedRequest(e)'
  <2>1. e = NoRequest
    BY <1>1, <1>21 DEF RequestFails
  <2> QED BY <1>8, <1>21, <2>1
<1>22. ASSUME q = r, Continue(r) PROVE GroundedRequest(e)'
  BY <1>15, <1>16, <1>17, <1>18, <1>19, <1>20, <1>22 DEF Continue
<1> QED BY <1>6, <1>14, <1>20, <1>21, <1>22

\* fixFileHashes lists files that have no hash.
LEMMA StillUnhashed ==
    ASSUME UnhashedInv, repair \in Repair, RepairNext \/ UNCHANGED repair
    PROVE  UnhashedInv'
<1>1. repair.seen \in [Ids -> Entity] /\ NoEntity.hash = "null"
  BY DEF Repair, NoEntity
<1>2. \A f \in Ids : NothingSeen[f].hash = "null"
  BY <1>1 DEF NothingSeen
<1>3. ASSUME \/ repair'.seen \in {repair.seen, NothingSeen}
             \/ \E g : repair'.seen = [repair.seen EXCEPT ![g] = NoEntity]
      PROVE  UnhashedInv'
  BY <1>1, <1>2, <1>3 DEF UnhashedInv
<1>4. CASE FindUnhashed
  <2> DEFINE unhashed == {f \in Ids : LiveFile(f) /\ file[f].hash = "null"}
  <2>1. repair'.seen = Read(unhashed)
    BY <1>4 DEF FindUnhashed, Repair
  <2>2. \A f \in Ids : Read(unhashed)[f].hash = "null"
    BY <1>1 DEF Read, EntityOf
  <2> QED BY <2>1, <2>2 DEF UnhashedInv
<1>5. CASE StreamObject
  BY <1>3, <1>5 DEF StreamObject, Repair
<1>6. CASE SaveHashOf
  <2>1. \/ repair' = [repair EXCEPT !.pc = "stream", !.seen[repair.file] = NoEntity, !.file = NoId]
        \/ repair'.seen = NothingSeen
    BY <1>6 DEF SaveHashOf, Repair
  <2>2. CASE repair' = [repair EXCEPT !.pc = "stream", !.seen[repair.file] = NoEntity, !.file = NoId]
    <3>1. repair'.seen = [repair.seen EXCEPT ![repair.file] = NoEntity]
      BY <2>2 DEF Repair
    <3> QED BY <1>3, <3>1
  <2> QED BY <1>3, <2>1, <2>2
<1>7. CASE RepairEnds \/ UNCHANGED repair
  BY <1>3, <1>7 DEF RepairEnds, Repair
<1> QED BY <1>4, <1>5, <1>6, <1>7 DEF RepairNext
LEMMA GroundInit == FileInit => GroundInv
<1> SUFFICES ASSUME FileInit PROVE GroundInv
  OBVIOUS
<1>1. \A f \in Ids : ~Ok(f) /\ repair.seen[f].hash = "null"
  BY DEF FileInit, FileStoreInit, NoFile, Ok, LiveFile, FileCleanupInit, NothingSeen, NoEntity
<1>2. \A r \in Requests : req[r].pc = "idle"
  BY DEF FileInit, FileRequestsInit, NoRequest
<1>3. \A s \in Slots : /\ slot[s].pc = "idle" /\ slot[s].file \notin Ids
                       /\ slot[s].mcap \notin Ids
  BY FileStoreAssumption DEF FileInit, IngestionInit, IdleSlot
<1>4. OneMcap /\ OkBacked /\ UnhashedInv
  BY <1>1, <1>3 DEF OneMcap, OkBacked, UnhashedInv
<1>5. \A s \in Slots : GroundedSlot(slot[s])
  BY <1>3 DEF GroundedSlot, GroundedMcap, BagPc, ConvertPc
<1> QED BY <1>2, <1>4, <1>5 DEF GroundInv, GroundedRequest

LEMMA GroundStep ==
    ASSUME FileInv, GroundInv, [FileNext]_fileVars
    PROVE  GroundInv'
<1>0. /\ StepFacts /\ slot \in [Slots -> Slot] /\ req \in [Requests -> Request]
      /\ repair \in Repair /\ stalls \in Nat
  BY StepKeeps, FileIngestionAssumption DEF FileInv, GroundInv, IngestionOK, IngestionTypeOK,
     RequestsOK, FileRequestsTypeOK, FileCleanupTypeOK
<1>1. ASSUME NEW t \in Slots, NEW e, e = slot'[t], GroundedSlot(e)'
      PROVE  GroundedSlot(slot[t])'
  BY <1>1 DEF GroundedSlot, GroundedMcap, Safe, Settled, Uploading, Ok, Deleting, LiveFile
<1>2. ASSUME NEW q \in Requests, NEW e, e = req'[q], GroundedRequest(e)'
      PROVE  GroundedRequest(req[q])'
  BY <1>2 DEF GroundedRequest
\* The slots that take no step know what they knew.
<1>3. ASSUME NEW t \in Slots, slot'[t] = slot[t] PROVE GroundedSlot(slot[t])'
  <2>1. PICK e : e = slot[t]
    OBVIOUS
  <2>2. GroundedSlot(e)'
    BY <1>0, <2>1, GroundKept
  <2> QED BY <1>1, <1>3, <2>1, <2>2
<1>4. ASSUME UNCHANGED req PROVE \A q \in Requests : GroundedRequest(req[q])'
  <2> TAKE q \in Requests
  <2>1. \A f \in Ids : /\ Safe(f) => Safe(f)'
                       /\ file[f].row # "none" => file'[f].row # "none"
    BY <1>0, SafeKept DEF StepFacts, RowsKept
  <2>2. GroundedRequest(req[q]) /\ req[q].on \subseteq Ids
    BY <1>0 DEF GroundInv, Request
  <2> QED BY <1>4, <2>1, <2>2 DEF GroundedRequest
<1>5. ASSUME UNCHANGED <<slot, stalls>>
      PROVE  OneMcap' /\ OkBacked' /\ \A t \in Slots : GroundedSlot(slot[t])'
  <2>1. OneMcap'
    BY <1>5 DEF GroundInv, OneMcap
  <2>2. OkBacked'
    BY <1>0, <1>5, OkKept DEF Converting
  <2> QED BY <1>3, <1>5, <2>1, <2>2
<1>6. CASE RequestNext /\ UNCHANGED <<ingestionVars, cleanupVars>> /\ NoteStale
  <2>1. PICK r \in Requests : Receive(r) \/ Continue(r) \/ IssueFails(r) \/ RequestFails(r)
    BY <1>6 DEF RequestNext
  <2>2. \A q \in Requests : GroundedRequest(req[q])'
    <3> TAKE q \in Requests
    <3>1. PICK e : e = req'[q]
      OBVIOUS
    <3> QED BY <1>0, <1>2, <2>1, <3>1, RequestLearns
  <2>3. UNCHANGED <<slot, stalls>> /\ UNCHANGED repair
    BY <1>6 DEF ingestionVars, cleanupVars
  <2> QED BY <1>0, <1>5, <2>2, <2>3, StillUnhashed DEF GroundInv
<1>7. CASE IngestionNext /\ UNCHANGED <<requestVars, cleanupVars>> /\ NoteStale
  <2>1. UNCHANGED req /\ UNCHANGED repair
    BY <1>7 DEF requestVars, cleanupVars
  <2>2. ASSUME OneMcap', OkBacked', \A t \in Slots : GroundedSlot(slot[t])'
        PROVE  GroundInv'
    BY <1>0, <1>4, <2>1, <2>2, StillUnhashed DEF GroundInv
  <2>3. CASE Stall
    <3>1. \A t \in Slots : slot'[t] = IdleSlot /\ IdleSlot.mcap \notin Ids
      BY <2>3, FileStoreAssumption DEF Stall, IdleSlot
    <3>2. OneMcap'
      BY <3>1 DEF OneMcap
    <3>3. stalls' > 0
      BY <1>0, <2>3 DEF Stall
    <3>4. \A f \in Ids : Converting(f) => file[f].name[2] = "MCAP"
      BY DEF Converting, GroundInv, GroundedSlot, GroundedMcap
    <3>5. OkBacked'
      BY <1>0, <3>3, <3>4, OkKept
    <3>6. \A t \in Slots : GroundedSlot(slot[t])'
      <4> TAKE t \in Slots
      <4>1. slot'[t].pc = "idle" /\ slot'[t].file \notin Ids /\ slot'[t].mcap \notin Ids
        BY <3>1, FileStoreAssumption DEF IdleSlot
      <4> QED BY <4>1 DEF GroundedSlot, GroundedMcap, BagPc, ConvertPc
    <3> QED BY <2>2, <3>2, <3>5, <3>6
  <2>4. ASSUME NEW s \in Slots, Take(s) \/ ProcessNext(s) PROVE GroundInv'
    <3>1. PICK e \in Slot : /\ slot' = [slot EXCEPT ![s] = e]
                            /\ GroundedSlot(e)' /\ McapStep(slot[s], e)
      BY <1>0, <2>4, SlotLearns DEF SlotGrounds
    <3>2. slot'[s] = e /\ \A t \in Slots \ {s} : slot'[t] = slot[t]
      BY <1>0, <3>1
    <3>3. \A t \in Slots : GroundedSlot(slot[t])'
      BY <1>1, <1>3, <3>1, <3>2
    <3>4. \A t \in Slots : slot[t].mcap \in Ids => file[slot[t].mcap].row # "none"
      BY DEF GroundInv, GroundedSlot, GroundedMcap
    <3>5. OneMcap'
      BY <3>1, <3>2, <3>4, FileStoreAssumption DEF GroundInv, OneMcap, McapStep
    \* A slot that lets go of its converted file has it uploaded, or not left it OK.
    <3>6. ASSUME NEW f \in Ids, Converting(f) PROVE Converting(f)' \/ (Ok(f)' => Safe(f)')
      <4>1. PICK t \in Slots : slot[t].mcap = f
        BY <3>6 DEF Converting
      <4>2. CASE slot'[t].mcap = f
        BY <4>2 DEF Converting
      <4>3. CASE slot'[t].mcap # f
        <5>1. t = s /\ slot[t].pc \in {"complete", "fail"}
          BY <3>1, <3>2, <4>1, <4>3 DEF McapStep
        <5>2. PICK d : d = slot[s]
          OBVIOUS
        <5>3. GroundedSlot(d)' /\ d.mcap = f /\ d.pc \in {"complete", "fail"}
          BY <1>0, <4>1, <5>1, <5>2, GroundKept
        <5> QED BY <5>3 DEF GroundedSlot, GroundedMcap
      <4> QED BY <4>2, <4>3
    <3>7. stalls' = stalls
      BY <2>4 DEF ProcessNext, Take, Load, SaveChild, AddChild, AddChildFails,
         ExpandEnds, MarkDownloading, Fetch, ResolveUpload, Discard, CreateDriveFile,
         UploadDriveFile, Validate, RejectFile, RejectJob, MarkProcessing, MarkConverting, Extract,
         Convert, InsertMcap, ExtractMcap, HashMcap, SaveHash, MarkUploading, UploadMcap,
         PromoteBag, RecordConversion, McapFailed, BagFailed, FinishFile, CompleteJob, FailJob,
         Mark, End, SaveSeen, SaveMcap, crashVars
    <3>8. OkBacked'
      BY <1>0, <3>6, <3>7, OkKept
    <3> QED BY <2>2, <3>3, <3>5, <3>8
  <2> QED BY <1>7, <2>3, <2>4 DEF IngestionNext
<1>8. CASE (CleanupNext \/ RepairNext) /\ UNCHANGED <<requestVars, ingestionVars>> /\ NoteStale
  <2>1. UNCHANGED <<slot, stalls>> /\ UNCHANGED req
    BY <1>8 DEF ingestionVars, requestVars
  <2>2. UnhashedInv'
    <3>1. RepairNext \/ UNCHANGED repair
      BY <1>8 DEF CleanupNext, FindUploads, TimeOut, UploadsTimedOut, FindJobs, TimeOutJob,
         FindCanceled, DisposeJobs, DisposeObject, DisposeRow
    <3> QED BY <1>0, <3>1, StillUnhashed DEF GroundInv
  <2> QED BY <1>4, <1>5, <2>1, <2>2 DEF GroundInv
<1>9. CASE \/ EnvironmentNext /\ UNCHANGED <<requestVars, ingestionVars, cleanupVars, stale>>
           \/ UNCHANGED fileVars
  <2>1. UNCHANGED <<slot, stalls>> /\ UNCHANGED req /\ UNCHANGED repair
    BY <1>9 DEF ingestionVars, requestVars, cleanupVars, fileVars
  <2> QED BY <1>0, <1>4, <1>5, <2>1, StillUnhashed DEF GroundInv
<1> QED BY <1>6, <1>7, <1>8, <1>9 DEF FileNext

LEMMA Grounded == FileSpec => []GroundInv
<1>1. FileInit => GroundInv
  BY GroundInit
<1>2. FileInv /\ GroundInv /\ [FileNext]_fileVars => GroundInv'
  BY GroundStep
<1> QED BY <1>1, <1>2, FileInvariant, PTL DEF FileSpec

\* A file listed as OK has its object in the bucket, outside the windows that
\* OkIsBacked names: whatever requests, ingestions and crons do to the row and
\* to the object in between, and wherever requests and the consumer crash.
THEOREM OkFilesAreBacked == FileSpec => []OkIsBacked
<1>1. GroundInv => OkIsBacked
  <2> SUFFICES ASSUME GroundInv, NEW f \in Ids, LiveFile(f), file[f].state = "OK"
               PROVE  \/ f \in object \/ Deleting(f) \/ Converting(f) \/ f \in purged \cup stale
                      \/ stalls > 0 /\ file[f].name[2] = "MCAP"
    BY DEF OkIsBacked
  <2> QED BY DEF GroundInv, OkBacked, Ok, Safe
<1> QED BY <1>1, Grounded, PTL

\* An ingestion that is about to complete has not left its file UPLOADING: the
\* entity it saves carries a verdict at every station that leads there, and only
\* another reservation or a stale save puts that state back.
THEOREM CompletionSettles == FileSpec => []CompletedIsSettled
<1>1. GroundInv => CompletedIsSettled
  <2> SUFFICES ASSUME GroundInv, NEW s \in Slots, SlotAt(s, "complete"), NEW f, f = slot[s].file,
                      LiveFile(f), file[f].state = "UPLOADING"
               PROVE  f \in stale \/ file[f].hash = "empty"
    BY DEF CompletedIsSettled
  <2>1. f \in Ids /\ Settled(f)
    BY DEF GroundInv, GroundedSlot, SlotAt
  <2> QED BY <2>1 DEF Settled, Uploading
<1> QED BY <1>1, Grounded, PTL
=============================================================================
