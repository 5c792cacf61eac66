------------------------------ MODULE CliUploads ------------------------------
(***************************************************************************)
(* The uploads of the command line client: upload_files hands the files of *)
(* a command to a pool of threads, and upload_file asks for credentials,   *)
(* uploads, and confirms or cancels. A call that gets no answer is made    *)
(* again, a few times, whether or not the server has processed it.         *)
(***************************************************************************)
EXTENDS TransferServer

CONSTANTS
    Commands,           \* command -> the files it uploads
    NameOf,             \* Uploads -> name the file is uploaded under
    Uploaders,          \* uploads by users with WRITE rights, who may cancel them;
                        \* CREATE rights are enough to upload
    NWorkers,           \* threads of a command (n_workers)
    MaxUploadRetries,   \* attempts to upload a file (MAX_UPLOAD_RETRIES)
    CredentialTries, ConfirmTries, CancelTries,     \* the max_attempts of the calls
    MaxLost,            \* bound: calls without an answer
    MaxKills            \* bound: commands that are killed

CliFiles == UNION {Commands[c] : c \in DOMAIN Commands}

ASSUME CliUploadsAssumption ==
    /\ CliFiles \subseteq Uploads
    /\ NameOf \in [Uploads -> Names]
    /\ Uploaders \subseteq Uploads
    /\ {MaxUploadRetries, CredentialTries, ConfirmTries, CancelTries} \subseteq Nat \ {0}
    /\ {NWorkers, MaxLost, MaxKills} \subseteq Nat

VARIABLES
    up,                 \* Uploads -> progress of the upload
    lost,               \* calls without an answer so far
    kills,              \* commands killed so far
    cutOff              \* history: uploads one of whose calls had no answer, or
                        \* failed in the server, or which were killed

uploadVars == <<up, lost, kills, cutOff>>

\* "check" and "abort" are stations of an upload in the browser only, and
\* "ignored" is one of its results.
Working == {"credentials", "check", "put", "abort", "cancel", "confirm"}
Results == {"uploaded", "exists", "failed", "noSpace", "dropped", "killed", "ignored"}

\* full: the bucket was out of space.
Upload == [pc : {"absent", "pending"} \cup Working \cup Results, attempt : 1..MaxUploadRetries,
           try : Nat, full : BOOLEAN]

UploadsTypeOK ==
    /\ up \in [Uploads -> Upload]
    /\ lost \in 0..MaxLost /\ kills \in 0..MaxKills
    /\ cutOff \subseteq Uploads

\* The files that somebody is going to upload.
UploadsInit(files) ==
    /\ up = [u \in Uploads |-> [pc |-> IF u \in files THEN "pending" ELSE "absent",
                               attempt |-> 1, try |-> 1, full |-> FALSE]]
    /\ lost = 0 /\ kills = 0 /\ cutOff = {}

At(u, pc) == up[u].pc = pc
Goto(u, pc) == up' = [up EXCEPT ![u].pc = pc, ![u].try = 1]
Quiet == UNCHANGED <<lost, kills, cutOff>>
CutOff(u) == cutOff' = cutOff \cup {u} /\ UNCHANGED <<lost, kills>>

\* A call of u for names gets no answer (httpx.TransportError): it is made again
\* until it has been tried `tries` times, then the upload goes on at pc. The
\* server may have processed it, or may yet.
LoseCall(u, call, names, tries, pc) ==
    /\ lost < MaxLost
    /\ lost' = lost + 1 /\ cutOff' = cutOff \cup {u} /\ UNCHANGED kills
    /\ late' = late \cup {[call |-> call, by |-> u, names |-> names]}
    /\ up' = IF up[u].try < tries THEN [up EXCEPT ![u].try = @ + 1]
                                  ELSE [up EXCEPT ![u].pc = pc, ![u].try = 1]
    /\ UNCHANGED <<row, object, owner, flying, crossed, belated>>
-----------------------------------------------------------------------------
(* upload_files.                                                           *)

Running(c) == {u \in Commands[c] : up[u].pc \in Working}

StartUpload(c, u) ==
    /\ u \in Commands[c] /\ At(u, "pending")
    /\ Cardinality(Running(c)) < NWorkers
    /\ Goto(u, "credentials")
    /\ Quiet /\ UNCHANGED serverVars

\* The first upload that found the storage full ends the command: the files that
\* no thread has begun with are dropped.
AbortCommand(c) ==
    /\ \E u \in Commands[c] : At(u, "noSpace")
    /\ \E u \in Commands[c] : At(u, "pending")
    /\ up' = [u \in Uploads |-> IF u \in Commands[c] /\ At(u, "pending")
                                THEN [up[u] EXCEPT !.pc = "dropped"] ELSE up[u]]
    /\ Quiet /\ UNCHANGED serverVars

\* The command is interrupted, or its host goes down. What was being uploaded
\* may still arrive.
Kill(c) ==
    LET killed == {u \in Commands[c] : At(u, "pending")} \cup Running(c) IN
    /\ kills < MaxKills /\ Running(c) # {}
    /\ kills' = kills + 1 /\ cutOff' = cutOff \cup Running(c) /\ UNCHANGED lost
    /\ up' = [u \in Uploads |-> IF u \in killed THEN [up[u] EXCEPT !.pc = "killed"] ELSE up[u]]
    /\ flying' = flying \cup {<<u, NameOf[u]>> : u \in {x \in Running(c) : At(x, "put")}}
    /\ UNCHANGED <<row, object, owner, late, crossed, belated>>
-----------------------------------------------------------------------------
(* upload_file: credentials.                                               *)

GetCredentials(u) ==
    /\ At(u, "credentials")
    /\ ReserveFor({NameOf[u]}, [n \in Names |-> u])
    /\ Goto(u, "put")
    /\ Quiet /\ UNCHANGED <<object, late, flying, crossed, belated>>

\* 409: UploadState.EXISTS, "already uploaded".
FileExists(u) ==
    /\ At(u, "credentials") /\ ~Reservable({NameOf[u]})
    /\ Goto(u, "exists")
    /\ Quiet /\ UNCHANGED serverVars

\* 507, before anything else.
NoSpace(u) ==
    /\ SpaceRunsOut /\ At(u, "credentials")
    /\ Goto(u, "noSpace")
    /\ Quiet /\ UNCHANGED serverVars

CredentialsFail(u) ==
    /\ At(u, "credentials")
    /\ ReserveFails({NameOf[u]})
    /\ Goto(u, "failed") /\ CutOff(u)
    /\ UNCHANGED <<object, owner, late, flying, crossed, belated>>

CredentialsLost(u) ==
    At(u, "credentials") /\ LoseCall(u, "reserve", {NameOf[u]}, CredentialTries, "failed")
-----------------------------------------------------------------------------
(* upload_file: the bucket.                                                *)

PutFile(u) ==
    /\ At(u, "put")
    /\ Store(u, NameOf[u])
    /\ Goto(u, "confirm")
    /\ Quiet /\ UNCHANGED <<row, owner, late, flying, belated>>

\* boto3 has given up, or the bucket is out of space; what was sent may arrive.
PutFails(u) ==
    /\ At(u, "put")
    /\ \E full \in BOOLEAN :
        /\ full => SpaceRunsOut
        /\ up' = [up EXCEPT ![u].pc = "cancel", ![u].try = 1, ![u].full = full]
        /\ flying' = IF full THEN flying ELSE flying \cup {<<u, NameOf[u]>>}
    /\ Quiet /\ UNCHANGED <<row, object, owner, late, crossed, belated>>
-----------------------------------------------------------------------------
(* upload_file: cancel, then try again or give up.                         *)

\* Mutant: the last attempt is followed by another one.
AfterCancelAgain(u) ==
    up' = IF up[u].full THEN [up EXCEPT ![u].pc = "noSpace"]
          ELSE [up EXCEPT ![u].pc = "credentials", ![u].attempt = @ + 1, ![u].try = 1]

AfterCancel(u) ==
    IF up[u].full THEN Goto(u, "noSpace")
    ELSE IF up[u].attempt < MaxUploadRetries
         THEN up' = [up EXCEPT ![u].pc = "credentials", ![u].attempt = @ + 1, ![u].try = 1]
         ELSE Goto(u, "failed")

\* Mutant: the upload is not canceled before it is tried again.
SkipCancel(u) ==
    /\ At(u, "cancel")
    /\ AfterCancel(u)
    /\ Quiet /\ UNCHANGED serverVars

\* Whoever may not cancel is told nothing: the answer is the same.
CancelUpload(u) ==
    /\ At(u, "cancel")
    /\ row' = IF u \in Uploaders THEN [row EXCEPT ![NameOf[u]] = CanceledRow(NameOf[u])] ELSE row
    /\ AfterCancel(u)
    /\ Quiet /\ UNCHANGED <<object, owner, late, flying, crossed, belated>>

\* The upload ends; only a full storage counts as such.
CancelFails(u) ==
    /\ At(u, "cancel")
    /\ Goto(u, IF up[u].full THEN "noSpace" ELSE "failed") /\ CutOff(u)
    /\ UNCHANGED serverVars

CancelLost(u) ==
    /\ At(u, "cancel")
    /\ LoseCall(u, "cancel", IF u \in Uploaders THEN {NameOf[u]} ELSE {}, CancelTries,
                IF up[u].full THEN "noSpace" ELSE "failed")
-----------------------------------------------------------------------------
(* upload_file: confirm. No failure of it cancels the upload.              *)

ConfirmUpload(u) ==
    /\ At(u, "confirm")
    /\ ConfirmBy(u, NameOf[u])
    /\ Goto(u, "uploaded")
    /\ Quiet /\ UNCHANGED <<object, owner, late, flying, belated>>

ConfirmRefused(u) ==
    /\ At(u, "confirm") /\ ~Confirms(NameOf[u])
    /\ Goto(u, "failed")
    /\ Quiet /\ UNCHANGED serverVars

ConfirmFails(u) ==
    /\ At(u, "confirm")
    /\ Goto(u, "failed") /\ CutOff(u)
    /\ UNCHANGED serverVars

ConfirmLost(u) ==
    At(u, "confirm") /\ LoseCall(u, "confirm", {NameOf[u]}, ConfirmTries, "failed")

CliStep(u) ==
    \/ GetCredentials(u) \/ FileExists(u) \/ NoSpace(u) \/ CredentialsFail(u) \/ CredentialsLost(u)
    \/ PutFile(u) \/ PutFails(u)
    \/ CancelUpload(u) \/ CancelFails(u) \/ CancelLost(u)
    \/ ConfirmUpload(u) \/ ConfirmRefused(u) \/ ConfirmFails(u) \/ ConfirmLost(u)

CliNext ==
    \E c \in DOMAIN Commands :
        \/ AbortCommand(c) \/ Kill(c)
        \/ \E u \in Commands[c] : StartUpload(c, u) \/ CliStep(u)
=============================================================================
