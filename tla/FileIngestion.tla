---------------------------- MODULE FileIngestion ----------------------------
(***************************************************************************)
(* The queue consumer's half of the file subsystem: the processors of      *)
(* "file-queue" (FileQueueProcessorProvider, FileIngestionService and the  *)
(* file handlers). A slot is one job the consumer works on; Bull adds up   *)
(* the concurrency of the named processors, so several run at a time.      *)
(*                                                                         *)
(* The ingestion job in memory only matters for the state each save writes.*)
(* The file in memory is the entity `seen`, saved as a whole.              *)
(***************************************************************************)
EXTENDS FileStore

CONSTANTS
    Slots,              \* jobs processed at the same time
    MaxStalls,          \* bound: crashes of the consumer
    AutoConvert,        \* project.autoConvert
    DriveTypes,         \* the types of the files imported from Google Drive
    MaxChildren,        \* bound: files found in a Google Drive folder
    AddMayFail          \* queue.add may reject while a folder is expanded

ASSUME FileIngestionAssumption ==
    /\ MaxStalls \in Nat /\ MaxChildren \in Nat /\ DriveTypes \subseteq Types
    /\ AutoConvert \in BOOLEAN /\ AddMayFail \in BOOLEAN

VARIABLES
    slot,               \* Slots -> progress of the job it works on
    stalled,            \* ingestion jobs whose Bull job has stalled once
    stalls,             \* crashes so far
    dropped             \* history: rows whose Bull job was never added, or
                        \* which stalled a second time

ingestionVars == <<slot, stalled, stalls, dropped>>

crashVars == <<stalled, stalls, dropped>>

SlotPc == {"idle", "load", "expand", "addChild", "download", "fetch", "resolve", "upload", "validate",
           "corrupted", "handle", "extract", "converting", "convert", "insertMcap",
           "extractMcap", "hashMcap", "saveMcap", "markUpload", "uploadMcap", "promote", "promoted",
           "mcapFailed", "bagFailed", "unreadable", "finish", "complete", "fail"}

Slot == [pc : SlotPc, job : JobIds \cup {NoJob}, file : Ids \cup {NoId},
         mcap : Ids \cup {NoId}, seen : Entity, hashed : BOOLEAN,
         left : 0..MaxChildren, child : JobIds \cup {NoJob}]

IdleSlot == [pc |-> "idle", job |-> NoJob, file |-> NoId, mcap |-> NoId, seen |-> NoEntity,
             hashed |-> FALSE, left |-> 0, child |-> NoJob]

IngestionTypeOK ==
    /\ slot \in [Slots -> Slot]
    /\ stalled \subseteq JobIds
    /\ stalls \in 0..MaxStalls
    /\ dropped \subseteq JobIds

IngestionInit ==
    /\ slot = [s \in Slots |-> IdleSlot]
    /\ stalled = {}
    /\ stalls = 0
    /\ dropped = {}

SlotAt(s, pc) == slot[s].pc = pc
Move(s, pc) == slot' = [slot EXCEPT ![s].pc = pc]
Idle(s) == slot' = [slot EXCEPT ![s] = IdleSlot]

\* Mark(s, from, state, to): updateQueueState between two stations.
Mark(s, from, state, to) ==
    /\ SlotAt(s, from)
    /\ SaveJob(slot[s].job, state)
    /\ Move(s, to)
    /\ UNCHANGED <<file, object, credentials, waiting, crashVars>>

End(s, from, state) ==
    /\ SlotAt(s, from)
    /\ SaveJob(slot[s].job, state)
    /\ Idle(s)
    /\ UNCHANGED <<file, object, credentials, waiting, crashVars>>

IsDrive(s) == job[slot[s].job].of = NoId

\* The entity in memory gets a state and is saved; a save that rejects throws.
\* An upload's entity was loaded, a Drive file's was created here.
SaveSeen(s, from, state, to, refused) ==
    /\ SlotAt(s, from)
    /\ LET f == slot[s].file
           entity == [slot[s].seen EXCEPT !.state = state] IN
        IF CanSave(f) \/ (IsDrive(s) /\ CanSaveCreated(f))
        THEN /\ IF IsDrive(s) THEN SaveCreated(f, entity) ELSE SaveFile(f, entity)
             /\ slot' = [slot EXCEPT ![s].pc = to, ![s].seen = entity]
        ELSE UNCHANGED file /\ Move(s, refused)
    /\ UNCHANGED <<object, credentials, job, waiting, crashVars>>

\* The entity of the converted file, which this job has created.
McapEntity(s, state) == [state |-> state, hash |-> IF slot[s].hashed THEN "md5" ELSE "null"]

SaveMcap(s, state, to) ==
    /\ IF CanSaveCreated(slot[s].mcap)
       THEN SaveCreated(slot[s].mcap, McapEntity(s, state)) /\ Move(s, to)
       ELSE UNCHANGED file /\ Move(s, "bagFailed")
    /\ UNCHANGED <<object, credentials, job, waiting, crashVars>>

TypeOf(s) == file[slot[s].file].name[2]
-----------------------------------------------------------------------------
(* Taking a job, and Google Drive folders.                                 *)

Take(s) ==
    /\ SlotAt(s, "idle")
    /\ \E j \in JobIds :
        /\ waiting[j] > 0
        /\ waiting' = [waiting EXCEPT ![j] = @ - 1]
        /\ slot' = [slot EXCEPT ![s].pc = "load", ![s].job = j]
    /\ UNCHANGED <<file, object, credentials, job, crashVars>>

\* findOneOrFail: a job whose row was deleted fails in Bull and is dropped. A
\* Drive job may turn out to be a folder.
Load(s) ==
    /\ SlotAt(s, "load")
    /\ IF ~LiveJob(slot[s].job) THEN Idle(s)
       ELSE \/ Move(s, "download")
            \/ /\ IsDrive(s)
               /\ \E n \in 0..MaxChildren :
                    slot' = [slot EXCEPT ![s].pc = "expand", ![s].left = n]
    /\ UNCHANGED <<fileStoreVars, crashVars>>

\* One file of the folder: save its row, then add its job.
SaveChild(s) ==
    /\ SlotAt(s, "expand") /\ slot[s].left > 0
    /\ \E j \in JobIds :
        /\ InsertJob(j, NoId, QueueState.AWAITING_PROCESSING)
        /\ slot' = [slot EXCEPT ![s].pc = "addChild", ![s].left = @ - 1, ![s].child = j]
    /\ UNCHANGED <<file, object, credentials, waiting, crashVars>>

AddChild(s) ==
    /\ SlotAt(s, "addChild")
    /\ Enqueue(slot[s].child)
    /\ slot' = [slot EXCEPT ![s].pc = "expand", ![s].child = NoJob]
    /\ UNCHANGED <<file, object, credentials, job, crashVars>>

\* The child whose job was refused keeps its row, and nobody comes back to it.
AddChildFails(s) ==
    /\ AddMayFail /\ SlotAt(s, "addChild")
    /\ dropped' = dropped \cup {slot[s].child}
    /\ slot' = [slot EXCEPT ![s].pc = "fail", ![s].child = NoJob]
    /\ UNCHANGED <<fileStoreVars, stalled, stalls>>

\* COMPLETED when every child is queued; ERROR when Drive refused to list them.
\* The error is not rethrown: for Bull the job is done.
ExpandEnds(s) ==
    \/ slot[s].left = 0 /\ End(s, "expand", QueueState.COMPLETED)
    \/ End(s, "expand", QueueState.ERROR)
-----------------------------------------------------------------------------
(* processJob.                                                             *)

MarkDownloading(s) == Mark(s, "download", QueueState.DOWNLOADING, "fetch")

\* strategy.fetch, the save of the display name, and the download.
\* An upload needs its row and its object; a download may always break off.
Fetch(s) ==
    /\ SlotAt(s, "fetch")
    /\ \/ /\ ~IsDrive(s) => LET f == job[slot[s].job].of IN LiveFile(f) /\ f \in object
          /\ SaveJob(slot[s].job, QueueState.DOWNLOADING)
          /\ Move(s, "resolve")
       \/ Move(s, "fail") /\ UNCHANGED job
    /\ UNCHANGED <<file, object, credentials, waiting, crashVars>>

\* createAndSaveFileEntity for an upload: its row, read again.
ResolveUpload(s) ==
    /\ SlotAt(s, "resolve") /\ ~IsDrive(s)
    /\ LET f == job[slot[s].job].of IN
        /\ LiveFile(f)
        /\ slot' = [slot EXCEPT ![s].pc = "validate", ![s].file = f, ![s].seen = EntityOf(f)]
    /\ UNCHANGED <<fileStoreVars, crashVars>>

\* The upload was deleted while it was downloaded: the job is discarded.
Discard(s) ==
    /\ SlotAt(s, "resolve") /\ ~IsDrive(s) /\ ~LiveFile(job[slot[s].job].of)
    /\ End(s, "resolve", QueueState.CANCELED)

\* createAndSaveFileEntity for a Drive file: a new row, if its name is free.
CreateDriveFile(s) ==
    /\ SlotAt(s, "resolve") /\ IsDrive(s)
    /\ \E name \in Bases \X DriveTypes :
        \/ /\ Named({name}) # {} \/ FreshFiles = {}
           /\ Move(s, "fail") /\ UNCHANGED file
        \/ \E f \in Ids :
            /\ InsertFile(f, name, "UPLOADING", "md5")
            /\ slot' = [slot EXCEPT ![s].pc = "upload", ![s].file = f,
                                    ![s].seen = [state |-> "UPLOADING", hash |-> "md5"]]
    /\ UNCHANGED <<object, credentials, job, waiting, crashVars>>

\* ensureFileIsInS3: only a Drive file has to be uploaded.
UploadDriveFile(s) ==
    /\ SlotAt(s, "upload")
    /\ \/ object' = object \cup {slot[s].file} /\ Move(s, "validate")
       \/ UNCHANGED object /\ Move(s, "fail")
    /\ UNCHANGED <<file, credentials, job, waiting, crashVars>>

\* MagicNumberValidator.
Validate(s) ==
    /\ SlotAt(s, "validate")
    /\ Move(s, "handle") \/ Move(s, "corrupted")
    /\ UNCHANGED <<fileStoreVars, crashVars>>

RejectFile(s) == SaveSeen(s, "corrupted", "CORRUPTED", "unreadable", "fail")
RejectJob(s) == End(s, "unreadable", QueueState.CORRUPTED)

\* executeFileHandlers: by the type of the file.
MarkProcessing(s) ==
    Mark(s, "handle", QueueState.PROCESSING,
         CASE TypeOf(s) = "BAG" -> "converting" [] TypeOf(s) = "MCAP" -> "extract"
           [] OTHER -> "finish")

MarkConverting(s) ==
    Mark(s, "converting", QueueState.CONVERTING_AND_EXTRACTING_TOPICS,
         IF AutoConvert THEN "convert" ELSE "extract")

\* finishExtraction, by the MCAP, DB3 or bag metadata service: OK, or
\* CORRUPTED by the handler's catch, which rethrows.
Extract(s) ==
    \/ SaveSeen(s, "extract", "OK", "complete", "fail")
    \/ SaveSeen(s, "extract", "CORRUPTED", "fail", "fail")
-----------------------------------------------------------------------------
(* RosBagHandler with autoConvert: convert, then extract from the MCAP.    *)

Convert(s) ==
    /\ SlotAt(s, "convert")
    /\ Move(s, "insertMcap") \/ Move(s, "bagFailed")
    /\ UNCHANGED <<fileStoreVars, crashVars>>

\* The row of the converted file; its name may be taken.
InsertMcap(s) ==
    /\ SlotAt(s, "insertMcap")
    /\ LET name == McapName(file[slot[s].file].name) IN
        \/ /\ Named({name}) # {} \/ FreshFiles = {}
           /\ Move(s, "bagFailed") /\ UNCHANGED file
        \/ \E f \in Ids :
            /\ InsertFile(f, name, "CONVERTING", "null")
            /\ slot' = [slot EXCEPT ![s].pc = "extractMcap", ![s].mcap = f]
    /\ UNCHANGED <<object, credentials, job, waiting, crashVars>>

\* finishExtraction declares the converted file OK before it is uploaded.
ExtractMcap(s) ==
    /\ SlotAt(s, "extractMcap")
    /\ \/ SaveMcap(s, "OK", "hashMcap")
       \/ Move(s, "mcapFailed") /\ UNCHANGED <<fileStoreVars, crashVars>>

HashMcap(s) ==
    /\ SlotAt(s, "hashMcap")
    /\ slot' = [slot EXCEPT ![s].pc = "saveMcap", ![s].hashed = TRUE]
    /\ UNCHANGED <<fileStoreVars, crashVars>>

SaveHash(s) == SlotAt(s, "saveMcap") /\ SaveMcap(s, "OK", "markUpload")

MarkUploading(s) == Mark(s, "markUpload", QueueState.UPLOADING, "uploadMcap")

UploadMcap(s) ==
    /\ SlotAt(s, "uploadMcap")
    /\ \/ object' = object \cup {slot[s].mcap} /\ Move(s, "promote")
       \/ UNCHANGED object /\ Move(s, "mcapFailed")
    /\ UNCHANGED <<file, credentials, job, waiting, crashVars>>

\* The bag itself becomes OK.
PromoteBag(s) == SaveSeen(s, "promote", "OK", "promoted", "mcapFailed")

\* The converted file is unlinked and the events are saved, or one of it fails.
RecordConversion(s) ==
    /\ SlotAt(s, "promoted")
    /\ Move(s, "complete") \/ Move(s, "mcapFailed")
    /\ UNCHANGED <<fileStoreVars, crashVars>>

\* Mutant: the converted file is left in the state it has.
McapFailedSilently(s) ==
    /\ SlotAt(s, "mcapFailed") /\ Move(s, "bagFailed")
    /\ UNCHANGED <<fileStoreVars, crashVars>>

\* The catch blocks: first the converted file, then the bag.
McapFailed(s) == SlotAt(s, "mcapFailed") /\ SaveMcap(s, "CONVERSION_ERROR", "bagFailed")

BagFailed(s) == SaveSeen(s, "bagFailed", "CONVERSION_ERROR", "fail", "fail")
-----------------------------------------------------------------------------
(* The end of processJob.                                                  *)

\* Mutant: a file without a handler stays UPLOADING.
FinishFileKept(s) ==
    /\ SlotAt(s, "finish") /\ Move(s, "complete")
    /\ UNCHANGED <<fileStoreVars, crashVars>>

\* No handler has promoted the file: it is, if it is still marked UPLOADING.
FinishFile(s) ==
    IF slot[s].seen.state = "UPLOADING" THEN SaveSeen(s, "finish", "OK", "complete", "fail")
    ELSE /\ SlotAt(s, "finish") /\ Move(s, "complete")
         /\ UNCHANGED <<fileStoreVars, crashVars>>

CompleteJob(s) == End(s, "complete", QueueState.COMPLETED)

\* Mutant: the catch block forgets the row of the job.
FailUnsaved(s) == SlotAt(s, "fail") /\ Idle(s) /\ UNCHANGED <<fileStoreVars, crashVars>>

FailJob(s) == End(s, "fail", QueueState.ERROR)

ProcessNext(s) ==
    \/ Load(s) \/ SaveChild(s) \/ AddChild(s) \/ AddChildFails(s) \/ ExpandEnds(s)
    \/ MarkDownloading(s) \/ Fetch(s) \/ ResolveUpload(s) \/ Discard(s)
    \/ CreateDriveFile(s) \/ UploadDriveFile(s)
    \/ Validate(s) \/ RejectFile(s) \/ RejectJob(s)
    \/ MarkProcessing(s) \/ MarkConverting(s) \/ Extract(s)
    \/ Convert(s) \/ InsertMcap(s) \/ ExtractMcap(s) \/ HashMcap(s) \/ SaveHash(s) \/ MarkUploading(s)
    \/ UploadMcap(s) \/ PromoteBag(s) \/ RecordConversion(s) \/ McapFailed(s) \/ BagFailed(s)
    \/ FinishFile(s) \/ CompleteJob(s) \/ FailJob(s)

\* The consumer dies with every job it works on. Bull finds them stalled and
\* queues each again, once; a job that stalls a second time fails in Bull.
Stall ==
    LET busy == {s \in Slots : ~SlotAt(s, "idle")}
        lost == {slot[s].job : s \in busy} IN
    /\ stalls < MaxStalls /\ busy # {}
    /\ stalls' = stalls + 1
    /\ stalled' = stalled \cup lost
    /\ dropped' = dropped \cup (lost \cap stalled)
                          \cup ({slot[s].child : s \in busy} \ {NoJob})
    /\ waiting' = [j \in JobIds |-> IF j \in lost \ stalled THEN waiting[j] + 1 ELSE waiting[j]]
    /\ slot' = [s \in Slots |-> IdleSlot]
    /\ UNCHANGED <<file, object, credentials, job>>

IngestionNext == Stall \/ \E s \in Slots : Take(s) \/ ProcessNext(s)
=============================================================================
