------------------------------ MODULE FileStore ------------------------------
(***************************************************************************)
(* What the processes of the file subsystem share: the tables file_entity  *)
(* and ingestion_job, the data bucket, the upload credentials handed out,  *)
(* and the Bull queue "file-queue".                                        *)
(*                                                                         *)
(* repository.save(entity) compares the entity with the row of that moment *)
(* and writes every loaded column that differs: whatever the process read  *)
(* earlier overwrites what others wrote since. deletedAt is not loaded     *)
(* (select: false), so a save never revives a soft-deleted row.            *)
(***************************************************************************)
EXTENDS Naturals, FiniteSets

CONSTANTS
    Ids,            \* file uuids, also the keys of the bucket
    JobIds,         \* uuids of ingestion jobs
    Bases,          \* file names without their extension
    NoId,           \* no file, or SQL NULL
    NoJob           \* no ingestion job

ASSUME FileStoreAssumption ==
    /\ IsFiniteSet(Ids) /\ NoId \notin Ids
    /\ NoJob \notin JobIds

VARIABLES
    file,           \* Ids -> row of file_entity
    object,         \* keys present in the data bucket
    credentials,    \* keys somebody holds temporary upload credentials for
    job,            \* JobIds -> row of ingestion_job
    waiting         \* JobIds -> Bull jobs waiting for that row

fileStoreVars == <<file, object, credentials, job, waiting>>

FileState == {"OK", "CORRUPTED", "UPLOADING", "ERROR", "CONVERTING",
              "CONVERSION_ERROR", "CANCELED"}

\* The numbers of enum QueueState, which the code compares with < and >=.
QueueState == [AWAITING_UPLOAD |-> 0, AWAITING_PROCESSING |-> 10,
    PROCESSING |-> 20, DOWNLOADING |-> 21, CONVERTING_AND_EXTRACTING_TOPICS |-> 22,
    UPLOADING |-> 23, COMPLETED |-> 30, ERROR |-> 40, CORRUPTED |-> 41, CANCELED |-> 42]

QueueStates == {QueueState[s] : s \in DOMAIN QueueState}

\* A name is a base and a type; YAML stands for the types without a handler
\* and MCAP for those whose handler only extracts (MCAP, DB3).
Types == {"BAG", "MCAP", "YAML"}
Names == Bases \X Types
McapName(name) == <<name[1], "MCAP">>

\* "deleted": soft-deleted. "gone": removed, there is no such row any more.
Presence == {"none", "live", "deleted", "gone"}

FileRow == [row : Presence, name : Names \cup {NoId}, state : FileState,
            hash : {"null", "empty", "md5"}, old : BOOLEAN]

NoFile == [row |-> "none", name |-> NoId, state |-> "OK", hash |-> "null", old |-> FALSE]

\* The columns of a file that an entity in memory carries.
Entity == [state : FileState, hash : {"null", "empty", "md5"}]

EntityOf(f) == [state |-> file[f].state, hash |-> file[f].hash]

NoEntity == [state |-> "OK", hash |-> "null"]

\* identifier: the file uuid of an upload, NoId for a Google Drive id.
JobRow == [row : Presence, of : Ids \cup {NoId}, state : QueueStates, old : BOOLEAN]

NoJobRow == [row |-> "none", of |-> NoId, state |-> 0, old |-> FALSE]

FileStoreTypeOK ==
    /\ file \in [Ids -> FileRow]
    /\ object \subseteq Ids
    /\ credentials \subseteq Ids
    /\ job \in [JobIds -> JobRow]
    /\ waiting \in [JobIds -> Nat]

FileStoreInit ==
    /\ file = [f \in Ids |-> NoFile]
    /\ object = {}
    /\ credentials = {}
    /\ job = [j \in JobIds |-> NoJobRow]
    /\ waiting = [j \in JobIds |-> 0]
-----------------------------------------------------------------------------
LiveFile(f) == file[f].row = "live"
LiveJob(j) == job[j].row = "live"

\* uuids not yet drawn. The sets are bounds: where none is left, the operation
\* fails as if the database had refused the insert.
FreshFiles == {f \in Ids : file[f].row = "none"}
FreshJobs == {j \in JobIds : job[j].row = "none"}

\* The partial unique index on (filename, mission) of rows not soft-deleted.
Named(names) == {f \in Ids : LiveFile(f) /\ file[f].name \in names}

\* Mutant: deletedAt is loaded, and so written back as NULL.
SavedReviving(f, entity) ==
    [file[f] EXCEPT !.row = "live", !.state = entity.state, !.hash = entity.hash, !.old = FALSE]

\* The row after save(entity): updatedAt moves, deletedAt stays.
Saved(f, entity) ==
    [file[f] EXCEPT !.state = entity.state, !.hash = entity.hash, !.old = FALSE]

\* A removed row would be inserted again, but the entity was loaded without
\* its creator, which the table does not allow to be NULL: save rejects.
CanSave(f) == file[f].row # "gone"

SaveFile(f, entity) == CanSave(f) /\ file' = [file EXCEPT ![f] = Saved(f, entity)]

\* An entity the process has created itself carries its creator and mission:
\* saving it after its row was removed inserts the row again.
CanSaveCreated(f) == CanSave(f) \/ Named({file[f].name}) = {}

SaveCreated(f, entity) ==
    /\ CanSaveCreated(f)
    /\ file' = [file EXCEPT ![f] = [Saved(f, entity) EXCEPT
                                       !.row = IF @ = "gone" THEN "live" ELSE @]]

InsertFile(f, name, state, hash) ==
    /\ f \in FreshFiles
    /\ Named({name}) = {}
    /\ file' = [file EXCEPT ![f] = [row |-> "live", name |-> name, state |-> state,
                                    hash |-> hash, old |-> FALSE]]

SoftDeleted(r) == IF r.row = "live" THEN [r EXCEPT !.row = "deleted"] ELSE r

\* DELETE by uuid: whatever row is there, soft-deleted or not.
Removed(r) == IF r.row \in {"live", "deleted"} THEN [r EXCEPT !.row = "gone"] ELSE r

\* All columns of an ingestion job may be NULL or are loaded: saving one whose
\* row was removed inserts it again.
SaveJob(j, state) ==
    job' = [job EXCEPT ![j].state = state, ![j].old = FALSE,
                       ![j].row = IF @ = "gone" THEN "live" ELSE @]

InsertJob(j, of, state) ==
    /\ j \in FreshJobs
    /\ job' = [job EXCEPT ![j] = [row |-> "live", of |-> of, state |-> state, old |-> FALSE]]

\* softDelete({identifier: In(ids)}).
SoftDeleteJobs(ids) ==
    job' = [j \in JobIds |-> IF job[j].of \in ids THEN SoftDeleted(job[j]) ELSE job[j]]

Enqueue(j) == waiting' = [waiting EXCEPT ![j] = @ + 1]

\* Mutant: what getWaiting() finds is not looked at.
RemoveUnchecked(j) == waiting' = [waiting EXCEPT ![j] = @ - 1]

\* fileQueue.getWaiting(), then remove() of the first job of that row, if any.
RemoveWaiting(j) == waiting' = [waiting EXCEPT ![j] = IF @ = 0 THEN 0 ELSE @ - 1]

\* A client uploads with credentials it holds, at any time, confirmed or not.
PutObject(f) ==
    /\ f \in credentials \ object
    /\ object' = object \cup {f}
    /\ UNCHANGED <<file, credentials, job, waiting>>
=============================================================================
