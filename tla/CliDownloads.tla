----------------------------- MODULE CliDownloads -----------------------------
(***************************************************************************)
(* The downloads of the command line client: download_file decides with    *)
(* the local file and the list of files of the command's start, then       *)
(* _url_download appends what it gets, connection after connection. All    *)
(* files have Parts chunks; a local file is the sequence of those it has.  *)
(***************************************************************************)
EXTENDS TransferServer, Sequences

CONSTANTS
    Own,            \* content of a file the user had before
    Parts,          \* chunks of a file
    MaxRetries,     \* failures of a download in a row (MAX_RETRIES)
    MaxCommands     \* bound: downloads of a file, one after the other

Chunk == (Contents \cup {Own}) \X (1..Parts)

\* What a local file may be; it may be empty.
Stored == UNION {[1..k -> Chunk] : k \in 0..Parts}

ASSUME CliDownloadsAssumption ==
    /\ Own \notin Contents \cup {None, Empty}
    /\ None \notin Stored
    /\ Parts \in Nat \ {0} /\ MaxRetries \in Nat /\ MaxCommands \in Nat

VARIABLES
    local,          \* Names -> the local file of that name
    dl,             \* Names -> progress of the download
    commands        \* Names -> downloads so far

downloadVars == <<local, dl, commands>>

Whole(c) == [i \in 1..Parts |-> <<c, i>>]

\* A local file, or none.
NoFile == None
LocalFile == Stored \cup {NoFile}

\* b64_md5 of a local file: that of a content, or another one.
HashOf(f) == IF \E c \in Contents : f = Whole(c) THEN CHOOSE c \in Contents : f = Whole(c) ELSE Own

Fetching == {"listed", "url", "open", "connect", "stream", "check"}
Verdicts == {"downloaded", "invalidHash", "skipped", "failed", "killed"}

\* seen: the file as listed; overwrite: the option; from: the content that the
\* connection sends; got: chunks written; attempt: failures in a row.
Download == [pc : {"idle"} \cup Fetching \cup Verdicts, seen : Row, overwrite : BOOLEAN,
             from : Contents \cup {None}, got : 0..Parts, attempt : 0..MaxRetries]

DownloadsTypeOK ==
    /\ local \in [Names -> LocalFile]
    /\ dl \in [Names -> Download]
    /\ commands \in [Names -> 0..MaxCommands]

\* Of what is going to be downloaded the user has nothing, or a file of their own,
\* or the imported one.
DownloadsInit(names) ==
    /\ \E f \in {NoFile, Whole(Own), Whole(Legacy)} :
        local = [n \in Names |-> IF n \in names THEN f ELSE NoFile]
    /\ dl = [n \in Names |-> [pc |-> "idle", seen |-> NoRow, overwrite |-> FALSE, from |-> None,
                              got |-> 0, attempt |-> 0]]
    /\ commands = [n \in Names |-> 0]

Ready(n, pc) == dl[n].pc = pc
Turn(n, d) == dl' = [dl EXCEPT ![n] = d] /\ UNCHANGED commands
-----------------------------------------------------------------------------
(* download_file.                                                          *)

\* download: the files are listed.
ListFile(n) ==
    /\ dl[n].pc \in {"idle"} \cup Verdicts
    /\ row[n].state # "none" /\ commands[n] < MaxCommands
    /\ \E overwrite \in BOOLEAN :
        dl' = [dl EXCEPT ![n] = [pc |-> "listed", seen |-> row[n], overwrite |-> overwrite,
                                 from |-> None, got |-> 0, attempt |-> 0]]
    /\ commands' = [commands EXCEPT ![n] = @ + 1]
    /\ UNCHANGED local

SameHash(n) == dl[n].seen.hash # None /\ HashOf(local[n]) = dl[n].seen.hash

\* Mutant: only a local file that is as listed is kept.
KeepsLocalIfSame(n) ==
    /\ local[n] # NoFile
    /\ IF Len(local[n]) = Parts THEN SameHash(n) ELSE ~dl[n].overwrite

\* The local file is as listed, or it is not and shall not be overwritten.
KeepsLocal(n) ==
    /\ local[n] # NoFile
    /\ IF Len(local[n]) = Parts THEN SameHash(n) \/ (~dl[n].overwrite /\ dl[n].seen.hash # None)
       ELSE ~dl[n].overwrite

\* A file that is CORRUPTED is only downloaded if the user insists.
SkipFile(n) ==
    /\ Ready(n, "listed")
    /\ dl[n].seen.state # "OK" \/ KeepsLocal(n)
    /\ Turn(n, [dl[n] EXCEPT !.pc = "skipped"])
    /\ UNCHANGED local

TakeFile(n) ==
    /\ Ready(n, "listed")
    /\ dl[n].seen.state \in {"OK", "CORRUPTED"} /\ ~KeepsLocal(n)
    /\ Turn(n, [dl[n] EXCEPT !.pc = "url"])
    /\ UNCHANGED local

GetUrl(n) ==
    /\ Ready(n, "url")
    /\ \E pc \in {"open", "failed"} : Turn(n, [dl[n] EXCEPT !.pc = pc])
    /\ UNCHANGED local
-----------------------------------------------------------------------------
(* _url_download, and what download_file does when it throws.              *)

\* "Attempt to clean up potentially partial file."
GiveUp(n) ==
    /\ local' = [local EXCEPT ![n] = NoFile]
    /\ Turn(n, [dl[n] EXCEPT !.pc = "failed"])

\* A local file that is complete is an exception.
OpenFile(n) ==
    /\ Ready(n, "open")
    /\ IF local[n] # NoFile /\ ~dl[n].overwrite /\ Len(local[n]) = Parts THEN GiveUp(n)
       ELSE /\ local' = [local EXCEPT ![n] = IF dl[n].overwrite THEN NoFile ELSE @]
            /\ Turn(n, [dl[n] EXCEPT !.pc = "connect",
                                     !.got = IF local'[n] = NoFile THEN 0 ELSE Len(local[n])])

\* The connection reads the object as it is when it begins. Before anything has
\* been written the file is opened anew, later to append.
Connect(n) ==
    /\ Ready(n, "connect") /\ object[n] # None
    /\ local' = [local EXCEPT ![n] = IF dl[n].got = 0 THEN <<>> ELSE @]
    /\ Turn(n, [dl[n] EXCEPT !.pc = "stream", !.from = object[n]])

\* Mutant: the connection starts over, and what it sends is appended.
ReceiveFromStart(n) ==
    /\ Ready(n, "stream")
    /\ local' = [local EXCEPT ![n] = Append(@, <<dl[n].from, 1>>)]
    /\ Turn(n, [dl[n] EXCEPT !.got = @ + 1, !.attempt = 0,
                             !.pc = IF dl[n].got + 1 = Parts THEN "check" ELSE "stream"])

Receive(n) ==
    /\ Ready(n, "stream")
    /\ local' = [local EXCEPT ![n] = Append(@, <<dl[n].from, dl[n].got + 1>>)]
    /\ Turn(n, [dl[n] EXCEPT !.got = @ + 1, !.attempt = 0,
                             !.pc = IF dl[n].got + 1 = Parts THEN "check" ELSE "stream"])

Breaks(n) ==
    /\ Ready(n, "connect") \/ Ready(n, "stream")
    /\ IF dl[n].attempt = MaxRetries THEN GiveUp(n)
       ELSE /\ Turn(n, [dl[n] EXCEPT !.pc = "connect", !.attempt = @ + 1])
            /\ UNCHANGED local

CheckHash(n) ==
    /\ Ready(n, "check")
    /\ Turn(n, [dl[n] EXCEPT !.pc =
            IF dl[n].seen.hash # None /\ ~SameHash(n) THEN "invalidHash" ELSE "downloaded"])
    /\ UNCHANGED local

\* The host goes down: what it has written stays.
KillDownload(n) ==
    /\ dl[n].pc \in Fetching
    /\ Turn(n, [dl[n] EXCEPT !.pc = "killed"])
    /\ UNCHANGED local

DownloadStep(n) ==
    \/ ListFile(n) \/ SkipFile(n) \/ TakeFile(n) \/ GetUrl(n) \/ OpenFile(n)
    \/ Connect(n) \/ Receive(n) \/ Breaks(n) \/ CheckHash(n) \/ KillDownload(n)
=============================================================================
