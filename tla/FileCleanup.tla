----------------------------- MODULE FileCleanup -----------------------------
(***************************************************************************)
(* The nightly crons of FileCleanupQueueProcessorProvider. A redis lock    *)
(* lets one run of each happen at a time. Time is the flag `old` of a row: *)
(* its updatedAt is more than 12 (UPLOADING) or 24 hours (CANCELED) ago.   *)
(***************************************************************************)
EXTENDS FileStore

CONSTANTS
    Crons               \* the crons that run: "cleanup", "repair"

ASSUME FileCleanupAssumption == Crons \subseteq {"cleanup", "repair"}

VARIABLES
    cleaner,            \* progress of cleanupFailedUploads
    repair,             \* progress of fixFileHashes
    purged              \* history: files whose object the cleanup deleted

cleanupVars == <<cleaner, repair, purged>>

\* late: uploads to time out, with the hash as read; lateJobs: jobs to fail;
\* doomed: canceled uploads whose object, and emptied: whose row goes next.
Cleaner == [pc : {"idle", "uploads", "jobs", "saveJobs", "dispose", "purge"},
            late : SUBSET Ids, seen : [Ids -> Entity], lateJobs : SUBSET JobIds,
            doomed : SUBSET Ids, emptied : SUBSET Ids, failed : BOOLEAN]

Repair == [pc : {"idle", "stream", "save"}, list : SUBSET Ids, seen : [Ids -> Entity],
           file : Ids \cup {NoId}]

NothingSeen == [f \in Ids |-> NoEntity]

FileCleanupTypeOK == cleaner \in Cleaner /\ repair \in Repair /\ purged \subseteq Ids

FileCleanupInit ==
    /\ cleaner = [pc |-> "idle", late |-> {}, seen |-> NothingSeen, lateJobs |-> {},
                  doomed |-> {}, emptied |-> {}, failed |-> FALSE]
    /\ repair = [pc |-> "idle", list |-> {}, seen |-> NothingSeen, file |-> NoId]
    /\ purged = {}

Read(ids) == [f \in Ids |-> IF f \in ids THEN EntityOf(f) ELSE NoEntity]
-----------------------------------------------------------------------------
(* cleanupFailedUploads.                                                   *)

Overdue(state) == {f \in Ids : LiveFile(f) /\ file[f].old /\ file[f].state = state}

OverdueJobs ==
    {j \in JobIds : LiveJob(j) /\ job[j].old /\ job[j].state = QueueState.AWAITING_UPLOAD}

\* A night on which nothing is overdue changes nothing and is left out.
FindUploads ==
    /\ cleaner.pc = "idle" /\ "cleanup" \in Crons
    /\ Overdue("UPLOADING") \cup Overdue("CANCELED") # {} \/ OverdueJobs # {}
    /\ cleaner' = [cleaner EXCEPT !.pc = "uploads", !.late = Overdue("UPLOADING"),
                                  !.seen = Read(Overdue("UPLOADING"))]
    /\ UNCHANGED <<fileStoreVars, repair, purged>>

\* Mutant: the upload is touched, its state stays.
TimeOutKept ==
    /\ cleaner.pc = "uploads"
    /\ \E f \in cleaner.late :
        /\ IF CanSave(f) THEN SaveFile(f, cleaner.seen[f]) ELSE UNCHANGED file
        /\ cleaner' = [cleaner EXCEPT !.late = @ \ {f}, !.seen[f] = NoEntity,
                                      !.failed = @ \/ ~CanSave(f)]
    /\ UNCHANGED <<object, credentials, job, waiting, repair, purged>>

\* The listed uploads are saved as ERROR at the same time, each as it was read.
\* The ingestion job is not touched: the mission of the file is not loaded.
TimeOut ==
    /\ cleaner.pc = "uploads"
    /\ \E f \in cleaner.late :
        /\ IF CanSave(f) THEN SaveFile(f, [cleaner.seen[f] EXCEPT !.state = "ERROR"])
                         ELSE UNCHANGED file
        /\ cleaner' = [cleaner EXCEPT !.late = @ \ {f}, !.seen[f] = NoEntity,
                                      !.failed = @ \/ ~CanSave(f)]
    /\ UNCHANGED <<object, credentials, job, waiting, repair, purged>>

\* One save that rejects ends the run, and with it everything that would follow.
UploadsTimedOut ==
    /\ cleaner.pc = "uploads" /\ cleaner.late = {}
    /\ cleaner' = [cleaner EXCEPT !.pc = IF cleaner.failed THEN "idle" ELSE "jobs",
                                  !.failed = FALSE]
    /\ UNCHANGED <<fileStoreVars, repair, purged>>

FindJobs ==
    /\ cleaner.pc = "jobs"
    /\ cleaner' = [cleaner EXCEPT !.pc = "saveJobs", !.lateJobs = OverdueJobs]
    /\ UNCHANGED <<fileStoreVars, repair, purged>>

TimeOutJob ==
    /\ cleaner.pc = "saveJobs"
    /\ \E j \in cleaner.lateJobs :
        /\ SaveJob(j, QueueState.ERROR)
        /\ cleaner' = [cleaner EXCEPT !.lateJobs = @ \ {j}]
    /\ UNCHANGED <<file, object, credentials, waiting, repair, purged>>

FindCanceled ==
    /\ cleaner.pc = "saveJobs" /\ cleaner.lateJobs = {}
    /\ cleaner' = [cleaner EXCEPT !.pc = IF Overdue("CANCELED") = {} THEN "idle" ELSE "dispose",
                                  !.doomed = Overdue("CANCELED")]
    /\ UNCHANGED <<fileStoreVars, repair, purged>>

DisposeJobs ==
    /\ cleaner.pc = "dispose"
    /\ SoftDeleteJobs(cleaner.doomed)
    /\ cleaner' = [cleaner EXCEPT !.pc = "purge"]
    /\ UNCHANGED <<file, object, credentials, waiting, repair, purged>>

DisposeObject ==
    /\ cleaner.pc = "purge"
    /\ \E f \in cleaner.doomed :
        /\ object' = object \ {f}
        /\ cleaner' = [cleaner EXCEPT !.doomed = @ \ {f}, !.emptied = @ \cup {f}]
        /\ purged' = purged \cup {f}
    /\ UNCHANGED <<file, credentials, job, waiting, repair>>

\* softDelete({uuid, state: CANCELED}).
SoftDeletedIfCanceled(f) == IF file[f].state = "CANCELED" THEN SoftDeleted(file[f]) ELSE file[f]

DisposeRow ==
    /\ cleaner.pc = "purge"
    /\ \E f \in cleaner.emptied :
        /\ file' = [file EXCEPT ![f] = SoftDeletedIfCanceled(f)]
        /\ cleaner' = [cleaner EXCEPT !.emptied = @ \ {f},
                !.pc = IF cleaner.doomed \cup cleaner.emptied = {f} THEN "idle" ELSE "purge"]
    /\ UNCHANGED <<object, credentials, job, waiting, repair, purged>>
-----------------------------------------------------------------------------
(* fixFileHashes.                                                          *)

FindUnhashed ==
    /\ repair.pc = "idle" /\ "repair" \in Crons
    /\ LET unhashed == {f \in Ids : LiveFile(f) /\ file[f].hash = "null"} IN
        /\ unhashed # {}
        /\ repair' = [repair EXCEPT !.pc = "stream", !.list = unhashed, !.seen = Read(unhashed)]
    /\ UNCHANGED <<fileStoreVars, cleaner, purged>>

\* One file after the other. A missing object makes getFileStream reject, and
\* the rest of the list is given up.
StreamObject ==
    /\ repair.pc = "stream"
    /\ \E f \in repair.list :
        repair' = IF f \in object
                  THEN [repair EXCEPT !.pc = "save", !.list = @ \ {f}, !.file = f]
                  ELSE [repair EXCEPT !.pc = "idle", !.list = {}, !.seen = NothingSeen]
    /\ UNCHANGED <<fileStoreVars, cleaner, purged>>

\* The hash is known when the stream ends; the entity read before is saved.
\* A stream that broke off is skipped, a save that rejects ends the run.
SaveHashOf ==
    /\ repair.pc = "save"
    /\ LET f == repair.file
           next == [repair EXCEPT !.pc = "stream", !.seen[f] = NoEntity, !.file = NoId] IN
        \/ /\ CanSave(f)
           /\ SaveFile(f, [repair.seen[f] EXCEPT !.hash = "md5"])
           /\ repair' = next
        \/ repair' = next /\ UNCHANGED file
        \/ /\ ~CanSave(f)
           /\ repair' = [next EXCEPT !.pc = "idle", !.list = {}, !.seen = NothingSeen]
           /\ UNCHANGED file
    /\ UNCHANGED <<object, credentials, job, waiting, cleaner, purged>>

RepairEnds ==
    /\ repair.pc = "stream" /\ repair.list = {}
    /\ repair' = [repair EXCEPT !.pc = "idle"]
    /\ UNCHANGED <<fileStoreVars, cleaner, purged>>

CleanupNext ==
    \/ FindUploads \/ TimeOut \/ UploadsTimedOut \/ FindJobs \/ TimeOutJob \/ FindCanceled
    \/ DisposeJobs \/ DisposeObject \/ DisposeRow

RepairNext == FindUnhashed \/ StreamObject \/ SaveHashOf \/ RepairEnds
=============================================================================
