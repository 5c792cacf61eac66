----------------------------- MODULE FileRequests -----------------------------
(***************************************************************************)
(* The api-server's half of the file subsystem (FileLifecycleService and   *)
(* QueueService). A member of Requests serves one HTTP request at a time:  *)
(* every await between two accesses to shared state is a step boundary. A  *)
(* request may fail at any await (RequestsMayFail): the api-server has     *)
(* crashed, or the database or redis refused.                              *)
(***************************************************************************)
EXTENDS FileStore

CONSTANTS
    Requests,           \* requests served at the same time
    MaxRequests,        \* bound: requests served in the course of a behaviour
    Kinds,              \* the kinds of request that are made
    UploadTypes,        \* the types of the files users upload
    RequestsMayFail     \* a request may stop at any await

ASSUME FileRequestsAssumption ==
    /\ Kinds \subseteq {"reserve", "confirm", "cancel", "edit", "delete", "deleteMany",
                        "queueDelete", "cancelProcessing", "stop", "import"}
    /\ UploadTypes \subseteq Types
    /\ MaxRequests \in Nat
    /\ RequestsMayFail \in BOOLEAN

VARIABLES
    req,                \* Requests -> progress of the request
    served,             \* requests received so far
    abandoned           \* history: the files whose deletion, and the jobs whose
                        \* queueing or removal, stopped half way

requestVars == <<req, served, abandoned>>

ReqPc == {"idle", "reserve", "issue", "findJob", "stat", "saveFile", "saveJob", "enqueue",
          "cancel", "edit", "delete", "deleteMany", "dequeue", "removeJob", "findFile",
          "removeObject", "removeFile", "unqueue", "canceled", "stop"}

\* on: the files the request works on; seen: its copy of the entity.
Request == [pc : ReqPc, names : SUBSET Names, on : SUBSET Ids,
            job : JobIds \cup {NoJob}, seen : Entity]

NoRequest == [pc |-> "idle", names |-> {}, on |-> {}, job |-> NoJob, seen |-> NoEntity]

FileRequestsTypeOK ==
    /\ req \in [Requests -> Request]
    /\ served \in 0..MaxRequests
    /\ abandoned \subseteq Ids \cup JobIds

FileRequestsInit ==
    /\ req = [r \in Requests |-> NoRequest]
    /\ served = 0
    /\ abandoned = {}

At(r, pc) == req[r].pc = pc
Goto(r, pc) == req' = [req EXCEPT ![r].pc = pc] /\ UNCHANGED <<served, abandoned>>

\* The request is answered, with success or with an error.
Answer(r) == req' = [req EXCEPT ![r] = NoRequest] /\ UNCHANGED <<served, abandoned>>

\* A request of that kind arrives and reaches its first await with locals.
Begin(r, kind, locals) ==
    /\ kind \in Kinds /\ At(r, "idle") /\ served < MaxRequests
    /\ served' = served + 1
    /\ req' = [req EXCEPT ![r] = locals]
    /\ UNCHANGED abandoned
BeginOn(r, kind, pc, f) ==
    Begin(r, kind, [NoRequest EXCEPT !.pc = pc, !.on = {f}, !.seen = EntityOf(f)])
BeginJob(r, kind, pc, j) == Begin(r, kind, [NoRequest EXCEPT !.pc = pc, !.job = j])

Seen(r, state) == [req[r].seen EXCEPT !.state = state]

Running(r) == ~At(r, "idle")
-----------------------------------------------------------------------------
(* getTemporaryAccess: reserve a batch of names, then issue credentials.   *)

\* The batch finds its existing rows. Any that is not CANCELED is a conflict
\* and fails the whole request; the canceled ones will be reused.
ReadExisting(r) ==
    \E names \in SUBSET (Bases \X UploadTypes) \ {{}} :
        /\ \A f \in Named(names) : file[f].state = "CANCELED"
        /\ Begin(r, "reserve", [NoRequest EXCEPT !.pc = "reserve", !.names = names,
                                                 !.on = Named(names)])
        /\ UNCHANGED fileStoreVars

ReservedEntity == [state |-> "UPLOADING", hash |-> "empty"]

\* The row written for f when the batch reuses `reuse` and inserts ids.
ReservedRow(f, reuse, ids, nameOf) ==
    IF f \in reuse THEN Saved(f, ReservedEntity)
    ELSE IF f \in ids THEN [row |-> "live", name |-> nameOf[f], state |-> "UPLOADING",
                            hash |-> "null", old |-> FALSE]
    ELSE file[f]

\* The names of the batch that had no row when it looked.
NewNames(r) == req[r].names \ {file[f].name : f \in req[r].on}

\* The transaction commits: canceled rows are saved as UPLOADING whatever has
\* become of them since, the other names get new rows.
Reserve(r) ==
    /\ At(r, "reserve")
    /\ \A f \in req[r].on : CanSave(f)
    /\ Named(NewNames(r)) = {}
    /\ \E ids \in SUBSET FreshFiles :
        \E nameOf \in [ids -> NewNames(r)] :
            /\ Cardinality(ids) = Cardinality(NewNames(r))
            /\ {nameOf[f] : f \in ids} = NewNames(r)
            /\ file' = [f \in Ids |-> ReservedRow(f, req[r].on, ids, nameOf)]
            /\ req' = [req EXCEPT ![r].pc = "issue", ![r].names = {}, ![r].on = @ \cup ids]
    /\ UNCHANGED <<object, credentials, job, waiting, served, abandoned>>

\* Somebody took a name in between: the unique index makes the insert fail and
\* the whole transaction is rolled back. So it is if a reused row was removed.
ReserveConflict(r) ==
    /\ At(r, "reserve")
    /\ \/ Named(NewNames(r)) # {} \/ \E f \in req[r].on : ~CanSave(f)
       \/ Cardinality(FreshFiles) < Cardinality(NewNames(r))
    /\ Answer(r)
    /\ UNCHANGED fileStoreVars

IssueCredentials(r) ==
    /\ At(r, "issue")
    /\ credentials' = credentials \cup req[r].on
    /\ Answer(r)
    /\ UNCHANGED <<file, object, job, waiting>>

\* Mutant: the update is not restricted to rows that are still UPLOADING.
CanceledAll(ids) ==
    [f \in Ids |-> IF f \in ids THEN [file[f] EXCEPT !.state = "CANCELED", !.old = FALSE]
                   ELSE file[f]]

\* UPDATE ... SET state = CANCELED WHERE uuid IN ids AND state = UPLOADING.
CanceledIfUploading(ids) ==
    [f \in Ids |-> IF f \in ids /\ file[f].state = "UPLOADING"
                   THEN [file[f] EXCEPT !.state = "CANCELED", !.old = FALSE] ELSE file[f]]

\* The credential service fails; the rows are released again. The credentials
\* generated before it failed are not returned.
IssueFails(r) ==
    /\ At(r, "issue")
    /\ file' = CanceledIfUploading(req[r].on)
    /\ Answer(r)
    /\ UNCHANGED <<object, credentials, job, waiting>>
-----------------------------------------------------------------------------
(* confirmUpload.                                                          *)

\* Mutant: a canceled upload is confirmed all the same.
ConfirmAnything(r) ==
    \E f \in Ids :
        /\ LiveFile(f)
        /\ BeginOn(r, "confirm", "findJob", f)
        /\ UNCHANGED fileStoreVars

ConfirmUpload(r) ==
    \E f \in Ids :
        /\ LiveFile(f) /\ file[f].state # "CANCELED"
        /\ BeginOn(r, "confirm", "findJob", f)
        /\ UNCHANGED fileStoreVars

JobsOf(f) == {j \in JobIds : LiveJob(j) /\ job[j].of = f}

\* What confirmUpload does with the job it found: a job that runs or has ended
\* well is left alone, one that waits is resumed, one that failed starts again.
Confirmable(j) ==
    job[j].state < QueueState.PROCESSING \/ job[j].state = QueueState.ERROR

FindJob(r) ==
    /\ At(r, "findJob")
    /\ \E f \in req[r].on, j \in JobIds :
        \/ /\ IF JobsOf(f) = {} THEN FreshJobs = {} ELSE j \in JobsOf(f) /\ ~Confirmable(j)
           /\ Answer(r) /\ UNCHANGED job
        \/ /\ IF JobsOf(f) = {} THEN InsertJob(j, f, QueueState.AWAITING_UPLOAD)
                               ELSE j \in JobsOf(f) /\ Confirmable(j) /\ UNCHANGED job
           /\ req' = [req EXCEPT ![r].pc = "stat", ![r].job = j]
           /\ UNCHANGED <<served, abandoned>>
    /\ UNCHANGED <<file, object, credentials, waiting>>

\* Mutant: the answer of the bucket is not looked at.
StatAlways(r) == At(r, "stat") /\ Goto(r, "saveFile") /\ UNCHANGED fileStoreVars

\* getFileInfo: the object must be in the bucket.
StatObject(r) ==
    /\ At(r, "stat")
    /\ IF req[r].on \subseteq object THEN Goto(r, "saveFile") ELSE Answer(r)
    /\ UNCHANGED fileStoreVars

\* Only an upload in progress becomes OK; the hash is the client's.
Confirmed(entity) ==
    [state |-> IF entity.state = "UPLOADING" THEN "OK" ELSE entity.state, hash |-> "md5"]

\* The entity read before the bucket was asked is saved as a whole.
ConfirmFile(r) ==
    /\ At(r, "saveFile")
    /\ \E f \in req[r].on :
        IF CanSave(f) THEN SaveFile(f, Confirmed(req[r].seen)) /\ Goto(r, "saveJob")
                      ELSE UNCHANGED file /\ Answer(r)
    /\ UNCHANGED <<object, credentials, job, waiting>>

ConfirmJob(r) ==
    /\ At(r, "saveJob")
    /\ SaveJob(req[r].job, QueueState.AWAITING_PROCESSING)
    /\ Goto(r, "enqueue")
    /\ UNCHANGED <<file, object, credentials, waiting>>

\* fileQueue.add, by confirmUpload and by importFromDrive.
EnqueueJob(r) ==
    /\ At(r, "enqueue")
    /\ Enqueue(req[r].job)
    /\ Answer(r)
    /\ UNCHANGED <<file, object, credentials, job>>

\* importFromDrive: the row of the job comes before the job itself.
ImportFromDrive(r) ==
    \E j \in JobIds :
        /\ InsertJob(j, NoId, QueueState.AWAITING_PROCESSING)
        /\ BeginJob(r, "import", "enqueue", j)
        /\ UNCHANGED <<file, object, credentials, waiting>>
-----------------------------------------------------------------------------
(* cancelUpload, update and moveFiles, deleteFile, deleteMultiple.         *)

CancelUpload(r) ==
    \E f \in Ids :
        /\ LiveFile(f) /\ file[f].state # "OK"
        /\ BeginOn(r, "cancel", "cancel", f)
        /\ UNCHANGED fileStoreVars

CancelSave(r) ==
    /\ At(r, "cancel")
    /\ \E f \in req[r].on :
        IF CanSave(f) THEN SaveFile(f, Seen(r, "CANCELED")) /\ Answer(r)
                      ELSE UNCHANGED file /\ Answer(r)
    /\ UNCHANGED <<object, credentials, job, waiting>>

\* update and moveFiles write a name, a mission, a date or categories, which
\* are left out, and with them every other column as it was read.
EditFile(r) ==
    \E f \in Ids :
        /\ LiveFile(f)
        /\ BeginOn(r, "edit", "edit", f)
        /\ UNCHANGED fileStoreVars

EditSave(r) ==
    /\ At(r, "edit")
    /\ \E f \in req[r].on :
        IF CanSave(f) THEN SaveFile(f, req[r].seen) /\ Answer(r)
                      ELSE UNCHANGED file /\ Answer(r)
    /\ UNCHANGED <<object, credentials, job, waiting>>

\* Inside the transaction the object goes first, then the row.
DeleteObject(r) ==
    \E f \in Ids :
        /\ LiveFile(f)
        /\ BeginOn(r, "delete", "delete", f)
        /\ object' = object \ {f}
        /\ UNCHANGED <<file, credentials, job, waiting>>

SoftRemoveFile(r) ==
    /\ At(r, "delete")
    /\ file' = [f \in Ids |-> IF f \in req[r].on THEN SoftDeleted(file[f]) ELSE file[f]]
    /\ Answer(r)
    /\ UNCHANGED <<object, credentials, job, waiting>>

DeleteObjects(r) ==
    \E ids \in SUBSET {f \in Ids : LiveFile(f)} \ {{}} :
        /\ Begin(r, "deleteMany", [NoRequest EXCEPT !.pc = "deleteMany", !.on = ids])
        /\ object' = object \ ids
        /\ UNCHANGED <<file, credentials, job, waiting>>

\* deleteMultiple commits: the ingestion jobs are soft-deleted with the files.
DeleteMultiple(r) ==
    /\ At(r, "deleteMany")
    /\ SoftDeleteJobs(req[r].on)
    /\ file' = [f \in Ids |-> IF f \in req[r].on THEN SoftDeleted(file[f]) ELSE file[f]]
    /\ Answer(r)
    /\ UNCHANGED <<object, credentials, waiting>>
-----------------------------------------------------------------------------
(* The ingestion queue: delete, cancelProcessing, stopJob.                 *)

\* delete: the guard is checked against the job as it was read.
QueueDelete(r) ==
    \E j \in JobIds :
        /\ LiveJob(j)
        /\ job[j].state < QueueState.PROCESSING \/ job[j].state >= QueueState.COMPLETED
        /\ BeginJob(r, "queueDelete", "dequeue", j)
        /\ UNCHANGED fileStoreVars

QueueDequeue(r) ==
    /\ At(r, "dequeue")
    /\ RemoveWaiting(req[r].job)
    /\ Goto(r, "removeJob")
    /\ UNCHANGED <<file, object, credentials, job>>

\* repository.remove: the row is really gone. The file of a Google Drive job is
\* looked up by the Drive id, which is no uuid: the request fails here.
QueueRemoveJob(r) ==
    /\ At(r, "removeJob")
    /\ job' = [job EXCEPT ![req[r].job].row = "gone"]
    /\ IF job[req[r].job].of = NoId THEN Answer(r)
       ELSE /\ req' = [req EXCEPT ![r] = [NoRequest EXCEPT !.pc = "findFile",
                                                           !.on = {job[req[r].job].of}]]
            /\ UNCHANGED <<served, abandoned>>
    /\ UNCHANGED <<file, object, credentials, waiting>>

QueueFindFile(r) ==
    /\ At(r, "findFile")
    /\ \E f \in req[r].on : IF LiveFile(f) THEN Goto(r, "removeObject") ELSE Answer(r)
    /\ UNCHANGED fileStoreVars

\* A failing removal of the object is only logged: the row goes all the same.
QueueRemoveObject(r) ==
    /\ At(r, "removeObject")
    /\ \/ object' = object \ req[r].on
       \/ RequestsMayFail /\ UNCHANGED object
    /\ Goto(r, "removeFile")
    /\ UNCHANGED <<file, credentials, job, waiting>>

\* repository.remove again, of the row as it is by now: also of one that was
\* soft-deleted since. The mcap of a BAG is then looked up by the very uuid that
\* has just been removed, and not found.
QueueRemoveFile(r) ==
    /\ At(r, "removeFile")
    /\ file' = [f \in Ids |-> IF f \in req[r].on THEN Removed(file[f]) ELSE file[f]]
    /\ Answer(r)
    /\ UNCHANGED <<object, credentials, job, waiting>>

CancelProcessing(r) ==
    \E j \in JobIds :
        /\ LiveJob(j) /\ job[j].state < QueueState.PROCESSING
        /\ BeginJob(r, "cancelProcessing", "unqueue", j)
        /\ UNCHANGED fileStoreVars

CancelDequeue(r) ==
    /\ At(r, "unqueue")
    /\ RemoveWaiting(req[r].job)
    /\ Goto(r, "canceled")
    /\ UNCHANGED <<file, object, credentials, job>>

\* Mutant: only the job of the queue is canceled.
CancelUnsaved(r) == At(r, "canceled") /\ Answer(r) /\ UNCHANGED fileStoreVars

CancelSaveJob(r) ==
    /\ At(r, "canceled")
    /\ SaveJob(req[r].job, QueueState.CANCELED)
    /\ Answer(r)
    /\ UNCHANGED <<file, object, credentials, waiting>>

StopJob(r) ==
    \E j \in JobIds :
        /\ LiveJob(j) /\ job[j].state = QueueState.PROCESSING
        /\ BeginJob(r, "stop", "stop", j)
        /\ UNCHANGED fileStoreVars

\* moveToFailed may be refused by Bull, which knows that another process holds
\* the lock. The processor of the job is not told in either case.
StopSave(r) ==
    /\ At(r, "stop")
    /\ \/ SaveJob(req[r].job, QueueState.ERROR) /\ Answer(r)
       \/ UNCHANGED job /\ Answer(r)
    /\ UNCHANGED <<file, object, credentials, waiting>>
-----------------------------------------------------------------------------
\* What a request that stops here leaves half done.
HalfDone(r) ==
    CASE req[r].pc \in {"delete", "deleteMany", "removeFile"} -> req[r].on
      [] req[r].pc \in {"enqueue", "removeJob", "canceled"} -> {req[r].job}
      [] OTHER -> {}

\* The request stops before its next access: a crash, or a refused statement.
\* importFromDrive swallows the failure of queue.add; the outcome is the same.
RequestFails(r) ==
    /\ RequestsMayFail /\ Running(r)
    /\ req' = [req EXCEPT ![r] = NoRequest]
    /\ abandoned' = abandoned \cup HalfDone(r)
    /\ UNCHANGED <<fileStoreVars, served>>

\* The steps of a request that has begun.
Continue(r) ==
    \/ Reserve(r) \/ ReserveConflict(r) \/ IssueCredentials(r)
    \/ FindJob(r) \/ StatObject(r) \/ ConfirmFile(r) \/ ConfirmJob(r) \/ EnqueueJob(r)
    \/ CancelSave(r) \/ EditSave(r) \/ SoftRemoveFile(r) \/ DeleteMultiple(r)
    \/ QueueDequeue(r) \/ QueueRemoveJob(r) \/ QueueFindFile(r) \/ QueueRemoveObject(r)
    \/ QueueRemoveFile(r) \/ CancelDequeue(r) \/ CancelSaveJob(r) \/ StopSave(r)

Receive(r) ==
    \/ ReadExisting(r) \/ ConfirmUpload(r) \/ ImportFromDrive(r) \/ CancelUpload(r)
    \/ EditFile(r) \/ DeleteObject(r) \/ DeleteObjects(r)
    \/ QueueDelete(r) \/ CancelProcessing(r) \/ StopJob(r)

RequestNext == \E r \in Requests : Receive(r) \/ Continue(r) \/ IssueFails(r) \/ RequestFails(r)
=============================================================================
