---------------------------- MODULE TransferSystem ----------------------------
(***************************************************************************)
(* The clients that transfer files, with the server they share: commands   *)
(* and a browser that upload into one mission, commands that download from *)
(* it, calls that get lost, and ingestion and cleanup in the background.   *)
(***************************************************************************)
EXTENDS WebUploads, CliDownloads

CONSTANT
    Plans           \* bound: what users do in a behaviour: files uploaded by
                    \* commands, a batch in the browser, files downloaded

ASSUME PlansAssumption ==
    \A p \in Plans : p.files \subseteq CliFiles /\ p.batch \in Batches /\ p.downloads \subseteq Names

VARIABLE
    wanted          \* the files that are downloaded

transferVars == <<serverVars, uploadVars, downloadVars, batch, wanted>>

TransferInit ==
    /\ ServerInit
    /\ \E p \in Plans :
        /\ batch = p.batch /\ wanted = p.downloads
        /\ DownloadsInit(p.downloads)
        /\ UploadsInit(p.files \cup {p.batch[i] : i \in DOMAIN p.batch})

\* Those who are at work on the name n. A file takes less than half a day.
WorkingOn(n) == {u \in Uploads : up[u].pc \in Working /\ KeyOf(u) = n}

ServerNext ==
    \/ \E f \in flying : Arrive(f[1], f[2])
    \/ \E q \in late : ProcessLate(q)
    \/ \E n \in Names : \/ Ingest(n) \/ RepairHash(n)
                        \/ WorkingOn(n) = {} /\ TimeOut(n)

TransferNext ==
    \/ CliNext /\ UNCHANGED <<downloadVars, batch, wanted>>
    \/ WebNext /\ UNCHANGED <<downloadVars, batch, wanted>>
    \/ ServerNext /\ UNCHANGED <<uploadVars, downloadVars, batch, wanted>>
    \/ /\ \E n \in wanted : DownloadStep(n)
       /\ UNCHANGED <<serverVars, uploadVars, batch, wanted>>

TransferSpec == TransferInit /\ [][TransferNext]_transferVars
-----------------------------------------------------------------------------
TransferTypeOK ==
    /\ ServerTypeOK /\ UploadsTypeOK /\ DownloadsTypeOK
    /\ batch \in Batches /\ wanted \subseteq Names

\* The browser may have taken the answer about a file for that about another: a
\* name occurs twice in the batch.
Shuffled(u) ==
    u \in Items /\ \E i, j \in DOMAIN batch : i # j /\ NameOf[batch[i]] = NameOf[batch[j]]

\* "uploaded": the file is in the mission under its name, with its own content and
\* hash, unless somebody else's upload arrived late, a request that was given up
\* was processed late, or the browser mixed up a batch with a repeated name.
UploadedIsStored ==
    \A u \in Uploads : At(u, "uploaded") =>
        LET n == NameOf[u] IN
        \/ row[n].state \in {"OK", "CORRUPTED"} /\ row[n].hash = u /\ object[n] = u
        \/ n \in crossed \cup belated
        \/ Shuffled(u)

\* Whoever may leave a name reserved behind: an upload that was cut off, and one
\* by a user who may not cancel.
Leaves(u) == u \in cutOff \/ u \notin Uploaders

\* "skipped (already uploaded)": the file's name is taken by a file that is there,
\* or is just being uploaded by somebody else, or was left reserved by somebody
\* whose upload ended without a cancellation; an upload that fails and is tried
\* again does not meet its own reservation.
SkippedIsUploaded ==
    [][\A u \in Uploads : ~At(u, "exists") /\ up'[u].pc = "exists" =>
        \E n \in IF u \in Items THEN BatchNames ELSE {NameOf[u]} :
            \/ row[n].state \in {"OK", "CORRUPTED"}
            \/ WorkingOn(n) \ {u} # {}
            \/ \E v \in Uploads : Leaves(v) /\ n \in {NameOf[v], KeyOf(v)}]_transferVars

\* Without --overwrite, a download leaves a file alone that the user had, if the
\* server knows the hash of its file.
LocalFilesKept ==
    [][\A n \in Names :
        local[n] = Whole(Own) /\ ~dl[n].overwrite /\ dl[n].seen.hash # None
            => local'[n] = local[n]]_transferVars

\* A download that succeeds has the whole file: every chunk once, in order, of one
\* content, which is that of the hash if there is one, however often it was
\* interrupted and whatever was there before.
DownloadIsWhole ==
    \A n \in Names : Ready(n, "downloaded") =>
        \E c \in Contents : local[n] = Whole(c) /\ dl[n].seen.hash \in {c, None}
=============================================================================
