------------------------------ MODULE WebUploads ------------------------------
(***************************************************************************)
(* The uploads of the browser (_createFileAction, uploadFileMultipart):    *)
(* one request reserves all names of a batch, then each file is uploaded   *)
(* in parts and confirmed, or aborted and canceled. No request that failed *)
(* is made again, except with other names, which is left out.              *)
(***************************************************************************)
EXTENDS CliUploads, Sequences

CONSTANT
    Batches             \* sequences of files that are uploaded together

ASSUME WebUploadsAssumption ==
    /\ Batches \subseteq Seq(Uploads \ CliFiles)
    /\ \A b \in Batches : \A i, j \in DOMAIN b : b[i] = b[j] => i = j

VARIABLE
    batch               \* the files somebody uploads in the browser, in order

Items == {batch[i] : i \in DOMAIN batch}

Position(u) == CHOOSE i \in DOMAIN batch : batch[i] = u

\* getTemporaryAccess reserves each name once, in the order of its first item.
Firsts == {i \in DOMAIN batch : \A j \in DOMAIN batch : NameOf[batch[j]] = NameOf[batch[i]] => i <= j}

\* The client takes the answer for its i-th item to be the i-th of the answers.
AnswerTo(i) == {k \in Firsts : Cardinality({j \in Firsts : j <= k}) = i}

Answered(u) == AnswerTo(Position(u)) # {}

\* Mutant: the i-th file is uploaded under the name of the first.
KeyOfFirst(u) == IF u \in Items THEN NameOf[batch[1]] ELSE NameOf[u]

\* The name under which the client uploads the file.
KeyOf(u) ==
    IF u \in Items /\ Answered(u) THEN NameOf[batch[CHOOSE k \in AnswerTo(Position(u)) : TRUE]]
    ELSE NameOf[u]

BatchNames == {NameOf[u] : u \in Items}

\* Who got the answer about the name n.
Holder(n) ==
    LET holders == {u \in Items : Answered(u) /\ KeyOf(u) = n} IN
    IF holders = {} THEN None ELSE CHOOSE u \in holders : TRUE

SetItems(next) ==
    up' = [u \in Uploads |-> IF u \in Items THEN [up[u] EXCEPT !.pc = next[u]] ELSE up[u]]
-----------------------------------------------------------------------------
(* _createFileAction: credentials for all.                                 *)

BatchPending == batch # <<>> /\ \A u \in Items : At(u, "pending")

ReserveBatch ==
    /\ BatchPending
    /\ ReserveFor(BatchNames, [n \in Names |-> Holder(n)])
    /\ SetItems([u \in Items |-> IF Answered(u) THEN "check" ELSE "ignored"])
    /\ Quiet /\ UNCHANGED <<object, late, flying, crossed, belated>>

\* 409: one of the names is taken, none is reserved.
BatchExists ==
    /\ BatchPending /\ ~Reservable(BatchNames)
    /\ SetItems([u \in Items |-> "exists"])
    /\ Quiet /\ UNCHANGED serverVars

ReserveBatchFails ==
    /\ BatchPending
    /\ ReserveFails(BatchNames)
    /\ SetItems([u \in Items |-> "failed"])
    /\ cutOff' = cutOff \cup Items
    /\ UNCHANGED <<lost, kills, object, owner, late, flying, crossed, belated>>

ReserveBatchLost ==
    /\ BatchPending /\ lost < MaxLost
    /\ SetItems([u \in Items |-> "failed"])
    /\ lost' = lost + 1 /\ cutOff' = cutOff \cup Items
    /\ late' = late \cup {[call |-> "reserve", by |-> batch[1], names |-> BatchNames]}
    /\ UNCHANGED <<kills, row, object, owner, flying, crossed, belated>>
-----------------------------------------------------------------------------
(* uploadFileMultipart, for each file.                                     *)

\* existsFile answers with an object, whatever the state of the file: the upload
\* goes on, also if it was canceled or purged meanwhile.
WebCheck(u) ==
    /\ At(u, "check")
    /\ Goto(u, "put")
    /\ Quiet /\ UNCHANGED serverVars

CompleteUpload(u) ==
    /\ At(u, "put")
    /\ Store(u, KeyOf(u))
    /\ Goto(u, "confirm")
    /\ Quiet /\ UNCHANGED <<row, owner, late, flying, belated>>

\* The check or a part fails: parts are not visible until the upload is complete.
PartFails(u) ==
    /\ At(u, "check") \/ At(u, "put")
    /\ Goto(u, "abort")
    /\ Quiet /\ UNCHANGED serverVars

\* The upload is complete and the client does not know; what is complete cannot
\* be aborted, and the exception of the abort ends it all.
CompletionLost(u) ==
    /\ At(u, "put")
    /\ Store(u, KeyOf(u))
    /\ Goto(u, "failed") /\ CutOff(u)
    /\ UNCHANGED <<row, owner, late, flying, belated>>

AbortUpload(u) ==
    /\ At(u, "abort")
    /\ Goto(u, "cancel")
    /\ Quiet /\ UNCHANGED serverVars

AbortFails(u) ==
    /\ At(u, "abort")
    /\ Goto(u, "failed") /\ CutOff(u)
    /\ UNCHANGED serverVars

\* cancelUploads; the upload has failed whether or not it was of any use.
WebCancel(u) ==
    /\ At(u, "cancel")
    /\ row' = IF u \in Uploaders THEN [row EXCEPT ![KeyOf(u)] = CanceledRow(KeyOf(u))] ELSE row
    /\ Goto(u, "failed")
    /\ Quiet /\ UNCHANGED <<object, owner, late, flying, crossed, belated>>

WebConfirm(u) ==
    /\ At(u, "confirm")
    /\ ConfirmBy(u, KeyOf(u))
    /\ Goto(u, "uploaded")
    /\ Quiet /\ UNCHANGED <<object, owner, late, flying, belated>>

ConfirmRejected(u) ==
    /\ At(u, "confirm") /\ ~Confirms(KeyOf(u))
    /\ Goto(u, "failed")
    /\ Quiet /\ UNCHANGED serverVars

\* The server fails to cancel or to confirm, or does not answer.
CallFails(u) ==
    /\ At(u, "cancel") \/ At(u, "confirm")
    /\ \/ Goto(u, "failed") /\ CutOff(u) /\ UNCHANGED serverVars
       \/ LoseCall(u, up[u].pc, IF At(u, "cancel") /\ u \notin Uploaders THEN {} ELSE {KeyOf(u)},
                   1, "failed")

\* The tab is closed; the last call may be on its way.
CloseTab ==
    LET open == {u \in Items : up[u].pc \in Working} IN
    /\ kills < MaxKills /\ open # {}
    /\ kills' = kills + 1 /\ cutOff' = cutOff \cup open /\ UNCHANGED lost
    /\ up' = [u \in Uploads |-> IF u \in open THEN [up[u] EXCEPT !.pc = "killed"] ELSE up[u]]
    /\ flying' = flying \cup {<<u, KeyOf(u)>> : u \in {x \in open : At(x, "put")}}
    /\ UNCHANGED <<row, object, owner, late, crossed, belated>>

ItemStep(u) ==
    \/ WebCheck(u) \/ CompleteUpload(u) \/ PartFails(u) \/ CompletionLost(u)
    \/ AbortUpload(u) \/ AbortFails(u) \/ WebCancel(u)
    \/ WebConfirm(u) \/ ConfirmRejected(u) \/ CallFails(u)

WebNext ==
    \/ ReserveBatch \/ BatchExists \/ ReserveBatchFails \/ ReserveBatchLost
    \/ CloseTab
    \/ \E u \in Items : ItemStep(u)
=============================================================================
