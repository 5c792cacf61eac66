------------------------------ MODULE FileSystem ------------------------------
(***************************************************************************)
(* The file subsystem as a whole: the requests of the api-server, the      *)
(* ingestion of the queue consumer, the nightly crons, the clients that    *)
(* upload, and the passing of time.                                        *)
(***************************************************************************)
EXTENDS FileRequests, FileIngestion, FileCleanup

CONSTANT
    TimePasses          \* half a day, or a day, may go by

VARIABLE
    stale               \* history: files a save has overwritten with an
                        \* entity older than the row

fileVars == <<fileStoreVars, requestVars, ingestionVars, cleanupVars, stale>>

FileInit ==
    /\ FileStoreInit /\ FileRequestsInit /\ IngestionInit /\ FileCleanupInit
    /\ stale = {}

\* A step that saves f from an entity other than the row it finds, which may
\* not even be there.
StaleSave(f) ==
    /\ file'[f] # file[f]
    /\ \/ file[f].row = "gone"
       \/ \E r \in Requests :
            /\ req[r].pc \in {"saveFile", "cancel", "edit"} /\ f \in req[r].on
            /\ req'[r] # req[r] /\ req[r].seen # EntityOf(f)
       \/ \E r \in Requests :
            /\ At(r, "reserve") /\ f \in req[r].on /\ req'[r] # req[r]
            /\ file[f].state # "CANCELED"
       \/ \E s \in Slots :
            /\ slot[s].file = f /\ slot'[s] # slot[s] /\ slot[s].seen # EntityOf(f)
       \/ f \in cleaner.late \ cleaner'.late /\ cleaner.seen[f] # EntityOf(f)
       \/ repair.file = f /\ repair' # repair /\ repair.seen[f] # EntityOf(f)

\* A request takes no half day: time passes for a row nobody is working on.
Unattended(f) ==
    /\ \A r \in Requests : Running(r) => f \notin req[r].on
    /\ \A s \in Slots : slot[s].file # f /\ (slot[s].job # NoJob => job[slot[s].job].of # f)

FileAges(f) ==
    /\ TimePasses /\ LiveFile(f) /\ ~file[f].old
    /\ file[f].state \in {"UPLOADING", "CANCELED"}
    /\ Unattended(f)
    /\ file' = [file EXCEPT ![f].old = TRUE]
    /\ UNCHANGED <<object, credentials, job, waiting>>

JobAges(j) ==
    /\ TimePasses /\ LiveJob(j) /\ ~job[j].old
    /\ job[j].state = QueueState.AWAITING_UPLOAD
    /\ \A r \in Requests : Running(r) => req[r].job # j
    /\ job' = [job EXCEPT ![j].old = TRUE]
    /\ UNCHANGED <<file, object, credentials, waiting>>

EnvironmentNext ==
    \/ \E f \in Ids : PutObject(f) \/ FileAges(f)
    \/ \E j \in JobIds : JobAges(j)

NoteStale == stale' = stale \cup {f \in Ids : StaleSave(f)}

FileNext ==
    \/ RequestNext /\ UNCHANGED <<ingestionVars, cleanupVars>> /\ NoteStale
    \/ IngestionNext /\ UNCHANGED <<requestVars, cleanupVars>> /\ NoteStale
    \/ CleanupNext /\ UNCHANGED <<requestVars, ingestionVars>> /\ NoteStale
    \/ RepairNext /\ UNCHANGED <<requestVars, ingestionVars>> /\ NoteStale
    \/ EnvironmentNext /\ UNCHANGED <<requestVars, ingestionVars, cleanupVars, stale>>

FileSpec == FileInit /\ [][FileNext]_fileVars
-----------------------------------------------------------------------------
FileTypeOK ==
    /\ FileStoreTypeOK /\ FileRequestsTypeOK /\ IngestionTypeOK /\ FileCleanupTypeOK
    /\ stale \subseteq Ids

\* The slots on whose behalf f is the converted file.
Converting(f) == \E s \in Slots : slot[s].mcap = f

\* A deletion (deleteFile, deleteMultiple, or delete of the file's ingestion job)
\* has taken the object and not yet, or never, the row.
Deleting(f) ==
    \/ f \in abandoned
    \/ \E r \in Requests : f \in req[r].on /\ req[r].pc \in {"delete", "deleteMany", "removeFile"}

\* A file listed as OK can be downloaded: its object is in the bucket. The
\* windows the code leaves are a deletion, of the file or of its ingestion job,
\* that is between the object and the row or has stopped there; a converted file
\* that finishExtraction has declared OK ahead of its upload (for good, if the
\* consumer crashes there); a canceled upload that was reserved or ingested while
\* the cleanup had it on its list; and a save of an entity that is out of date.
OkIsBacked ==
    \A f \in Ids : LiveFile(f) /\ file[f].state = "OK" =>
        \/ f \in object \/ Deleting(f) \/ Converting(f) \/ f \in purged \cup stale
        \/ stalls > 0 /\ file[f].name[2] = "MCAP"

\* An ingestion that is about to complete has given its file a verdict: it does
\* not leave it UPLOADING, which would hide it from everybody, unless a stale save
\* put that state back or the name was reserved again, which empties the hash.
CompletedIsSettled ==
    \A s \in Slots : SlotAt(s, "complete") =>
        LET f == slot[s].file IN
        LiveFile(f) /\ file[f].state = "UPLOADING" => f \in stale \/ file[f].hash = "empty"

\* Who will move the ingestion job j on.
JobAttended(j) ==
    \/ waiting[j] > 0
    \/ \E s \in Slots : slot[s].job = j \/ slot[s].child = j
    \/ \E r \in Requests :
        req[r].job = j /\ req[r].pc \in {"enqueue", "removeJob", "canceled"}
    \/ j \in dropped \cup abandoned

\* No ingestion job waits for processing, or is being processed, with nobody
\* to process it, although requests delete, cancel and stop jobs under the
\* consumer's feet and save their rows as they read them.
NoOrphanedJob ==
    \A j \in JobIds :
        /\ LiveJob(j)
        /\ job[j].state >= QueueState.AWAITING_PROCESSING
        /\ job[j].state < QueueState.COMPLETED
        => JobAttended(j)

\* A soft-deleted file does not come back, whoever still saves an entity of it:
\* its row stays as it is, or is removed for good with its ingestion job.
DeletedStaysDeleted ==
    [][\A f \in Ids : file[f].row = "deleted" => file'[f].row \in {"deleted", "gone"}]_fileVars

\* An upload that was confirmed is not canceled any more, neither by a request
\* to cancel it nor by a failing reservation, except by a stale save.
ConfirmedKept ==
    [][\A f \in Ids : file[f].state = "OK" /\ file'[f].state = "CANCELED"
        => f \in stale']_fileVars

\* An upload that was canceled is not confirmed any more ("Cannot confirm a
\* canceled upload", queue.service.ts): requests leave its state and hash alone
\* or reserve it anew, except for a save of an entity that is out of date.
CanceledKept ==
    [][\A f \in Ids : req' # req /\ file[f].row # "none" /\ file[f].state = "CANCELED"
        => f \in stale' \/ EntityOf(f)' \in {EntityOf(f), ReservedEntity}]_fileVars
-----------------------------------------------------------------------------
(* Fairness and liveness.                                                  *)

RequestStep(r) == Continue(r) /\ UNCHANGED <<ingestionVars, cleanupVars>> /\ NoteStale
SlotStep(s) == (Take(s) \/ ProcessNext(s)) /\ UNCHANGED <<requestVars, cleanupVars>> /\ NoteStale
CleanupStep == CleanupNext /\ UNCHANGED <<requestVars, ingestionVars>> /\ NoteStale
AgeStep(f) == FileAges(f) /\ UNCHANGED <<requestVars, ingestionVars, cleanupVars, stale>>

\* Requests that have begun, jobs and the nightly cleanup make progress, and
\* time passes. Nobody has to upload, confirm or cancel anything.
FileFairness ==
    /\ \A r \in Requests : WF_fileVars(RequestStep(r))
    /\ \A s \in Slots : WF_fileVars(SlotStep(s))
    /\ \A f \in Ids : WF_fileVars(AgeStep(f))
    /\ WF_fileVars(CleanupStep)

FileFairSpec == FileSpec /\ FileFairness

\* Every ingestion job that was queued comes to an end.
JobsSettle ==
    \A j \in JobIds :
        LiveJob(j) /\ job[j].state = QueueState.AWAITING_PROCESSING ~>
            \/ ~LiveJob(j) \/ job[j].state >= QueueState.COMPLETED
            \/ j \in dropped

\* No upload hangs forever: it is confirmed, canceled, deleted or timed out.
UploadsSettle ==
    \A f \in Ids : LiveFile(f) /\ file[f].state = "UPLOADING" ~>
        ~LiveFile(f) \/ file[f].state # "UPLOADING"
=============================================================================
