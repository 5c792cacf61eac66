---------------------------- MODULE TransferServer ----------------------------
(***************************************************************************)
(* The server as a client that transfers files sees it: the rows of one    *)
(* mission, the objects in the bucket, and the requests and uploads that   *)
(* are on their way although the client has given them up. FileSystem has  *)
(* the steps inside a request; here a request is one step, and the bucket  *)
(* has contents, so that a file can be told from another of the same name. *)
(***************************************************************************)
EXTENDS Naturals, FiniteSets

CONSTANTS
    Uploads,        \* local files that somebody uploads, once; also their contents
    Names,          \* file names in the mission
    Legacy,         \* content of the files that were imported before
    Empty,          \* the empty string, as a hash
    None,           \* nobody, nothing, SQL NULL
    SpaceRunsOut    \* the storage may be full

ASSUME TransferServerAssumption ==
    /\ None \notin Uploads \cup {Legacy, Empty} /\ Legacy \notin Uploads
    /\ Empty \notin Uploads \cup {Legacy}
    /\ SpaceRunsOut \in BOOLEAN

VARIABLES
    row,            \* Names -> state, hash and ingestion job of the file
    object,         \* Names -> content of its object
    owner,          \* history: Names -> upload that reserved the name last
    late,           \* requests without an answer that the server may still process
    flying,         \* uploads to the bucket that were given up and may still arrive
    crossed,        \* history: names written by an upload that was not the owner
    belated         \* history: names a late request has changed

serverVars == <<row, object, owner, late, flying, crossed, belated>>

Contents == Uploads \cup {Legacy}

\* job: "ended" is PROCESSING and every later state but ERROR, which is "failed".
Row == [state : {"none", "OK", "UPLOADING", "CANCELED", "ERROR", "CORRUPTED"},
        hash : Contents \cup {Empty, None}, job : {"none", "waiting", "failed", "ended"}]

NoRow == [state |-> "none", hash |-> None, job |-> "none"]

Request == [call : {"reserve", "confirm", "cancel"}, by : Uploads, names : SUBSET Names]

ServerTypeOK ==
    /\ row \in [Names -> Row]
    /\ object \in [Names -> Contents \cup {None}]
    /\ owner \in [Names -> Uploads \cup {None}]
    /\ late \subseteq Request
    /\ flying \subseteq Uploads \X Names
    /\ crossed \subseteq Names /\ belated \subseteq Names

\* The mission is empty, or has a file without a hash, such as an import leaves.
ServerInit ==
    /\ \E imported \in {{}} \cup {{n} : n \in Names} :
        /\ row = [n \in Names |-> IF n \in imported THEN [state |-> "OK", hash |-> None, job |-> "ended"]
                                  ELSE NoRow]
        /\ object = [n \in Names |-> IF n \in imported THEN Legacy ELSE None]
    /\ owner = [n \in Names |-> None]
    /\ late = {} /\ flying = {} /\ crossed = {} /\ belated = {}
-----------------------------------------------------------------------------
(* getTemporaryAccess.                                                     *)

Reservable(names) == \A n \in names : row[n].state \in {"none", "CANCELED"}

\* A canceled row is used again; its hash is emptied.
Reserved(n, state) ==
    [row[n] EXCEPT !.state = state, !.hash = IF row[n].state = "none" THEN None ELSE Empty]

\* The rows of these names become UPLOADING, reserved by whom[n].
ReserveFor(names, whom) ==
    /\ Reservable(names)
    /\ row' = [n \in Names |-> IF n \in names THEN Reserved(n, "UPLOADING") ELSE row[n]]
    /\ owner' = [n \in Names |-> IF n \in names THEN whom[n] ELSE owner[n]]

\* The request fails: before the rows are written, or, when no credentials can be
\* had, after them, and then they are canceled.
ReserveFails(names) ==
    \/ UNCHANGED row
    \/ /\ Reservable(names)
       /\ row' = [n \in Names |-> IF n \in names THEN Reserved(n, "CANCELED") ELSE row[n]]
-----------------------------------------------------------------------------
(* confirmUpload and cancelUpload.                                         *)

\* A job that is being processed or has ended well answers "confirmed" and does
\* nothing; otherwise the object must be there. Nobody looks at what is in it.
Confirms(n) ==
    /\ row[n].state \notin {"none", "CANCELED"}
    /\ row[n].job = "ended" \/ object[n] # None

ConfirmedRow(n, u) ==
    IF row[n].job = "ended" THEN row[n]
    ELSE [state |-> IF row[n].state = "UPLOADING" THEN "OK" ELSE row[n].state,
          hash |-> u, job |-> "waiting"]

ConfirmBy(u, n) ==
    /\ Confirms(n)
    /\ row' = [row EXCEPT ![n] = ConfirmedRow(n, u)]
    /\ crossed' = IF owner[n] = u THEN crossed ELSE crossed \cup {n}

CanceledRow(n) ==
    IF row[n].state \in {"none", "OK"} THEN row[n] ELSE [row[n] EXCEPT !.state = "CANCELED"]
-----------------------------------------------------------------------------
(* The bucket.                                                             *)

\* An upload is complete in the bucket, whoever has the name by now.
Store(u, n) ==
    /\ object' = [object EXCEPT ![n] = u]
    /\ crossed' = IF owner[n] = u THEN crossed ELSE crossed \cup {n}

Arrive(u, n) ==
    /\ <<u, n>> \in flying
    /\ Store(u, n)
    /\ flying' = flying \ {<<u, n>>}
    /\ UNCHANGED <<row, owner, late, belated>>

\* The server processes a request its client has given up. Nobody gets the
\* credentials.
LateReserve(q) ==
    /\ q.call = "reserve"
    /\ IF Reservable(q.names) THEN ReserveFor(q.names, [n \in Names |-> None])
                              ELSE UNCHANGED <<row, owner>>
    /\ UNCHANGED crossed

LateConfirm(q) ==
    /\ q.call = "confirm"
    /\ \E n \in q.names : IF Confirms(n) THEN ConfirmBy(q.by, n) ELSE UNCHANGED <<row, crossed>>
    /\ UNCHANGED owner

LateCancel(q) ==
    /\ q.call = "cancel"
    /\ row' = [n \in Names |-> IF n \in q.names THEN CanceledRow(n) ELSE row[n]]
    /\ UNCHANGED <<owner, crossed>>

ProcessLate(q) ==
    /\ q \in late
    /\ late' = late \ {q}
    /\ LateReserve(q) \/ LateConfirm(q) \/ LateCancel(q)
    /\ belated' = IF row' # row THEN belated \cup q.names ELSE belated
    /\ UNCHANGED <<object, flying>>
-----------------------------------------------------------------------------
(* What the server does by itself.                                         *)

\* The ingestion of a confirmed upload: the file is found in order, or corrupted
\* by the check of its first bytes or by its handler, or it cannot be downloaded.
Ingest(n) ==
    /\ row[n].job = "waiting"
    /\ \E verdict \in {<<"OK", "ended">>, <<"CORRUPTED", "ended">>, <<"CORRUPTED", "failed">>,
                       <<row[n].state, "failed">>} :
        row' = [row EXCEPT ![n].state = verdict[1], ![n].job = verdict[2]]
    /\ UNCHANGED <<object, owner, late, flying, crossed, belated>>

\* fixFileHashes gives a file without a hash that of its object.
RepairHash(n) ==
    /\ row[n].state # "none" /\ row[n].hash = None /\ object[n] # None
    /\ row' = [row EXCEPT ![n].hash = object[n]]
    /\ UNCHANGED <<object, owner, late, flying, crossed, belated>>

\* cleanupFailedUploads gives up an upload after half a day.
TimeOut(n) ==
    /\ row[n].state = "UPLOADING"
    /\ row' = [row EXCEPT ![n].state = "ERROR"]
    /\ UNCHANGED <<object, owner, late, flying, crossed, belated>>
=============================================================================
