---------------------------- MODULE TransferProofs ----------------------------
(***************************************************************************)
(* Theorems about TransferSystem, for every number of files, names,        *)
(* commands, retries, lost calls and downloads.                            *)
(***************************************************************************)
EXTENDS TransferSystem, FiniteSetTheorems, SequenceTheorems, WellFoundedInduction, TLAPS

-----------------------------------------------------------------------------
(* The constants.                                                          *)

LEMMA ServerConstants ==
    /\ None \notin Contents \cup {Empty}
    /\ Uploads \subseteq Contents /\ Legacy \in Contents
    /\ Legacy \notin Uploads
  BY TransferServerAssumption DEF Contents

LEMMA CliFile ==
    ASSUME NEW c \in DOMAIN Commands, NEW u \in Commands[c]
    PROVE  u \in CliFiles /\ u \in Uploads
  BY CliUploadsAssumption DEF CliFiles

LEMMA NameType == \A u \in Uploads : NameOf[u] \in Names
  BY CliUploadsAssumption

LEMMA BatchType ==
    ASSUME batch \in Batches
    PROVE  /\ batch \in Seq(Uploads \ CliFiles)
           /\ Items \subseteq Uploads \ CliFiles
           /\ BatchNames \subseteq Names
           /\ batch # <<>> => batch[1] \in Items
<1>1. batch \in Seq(Uploads \ CliFiles)
  BY WebUploadsAssumption
<1>2. Items \subseteq Uploads \ CliFiles
  BY <1>1 DEF Items
<1>3. BatchNames \subseteq Names
  BY <1>2, NameType DEF BatchNames
<1>4. batch # <<>> => batch[1] \in Items
  BY <1>1 DEF Items
<1> QED BY <1>1, <1>2, <1>3, <1>4

LEMMA KeyType ==
    ASSUME batch \in Batches, NEW u \in Uploads
    PROVE  /\ KeyOf(u) \in Names
           /\ u \in CliFiles => KeyOf(u) = NameOf[u]
<1>1. KeyOf(u) \in Names
  <2>1. CASE u \in Items /\ Answered(u)
    <3>1. PICK k \in AnswerTo(Position(u)) : k = CHOOSE i \in AnswerTo(Position(u)) : TRUE
      BY <2>1 DEF Answered
    <3>2. k \in DOMAIN batch
      BY <3>1 DEF AnswerTo, Firsts
    <3>3. batch[k] \in Uploads
      BY <3>2, BatchType DEF Items
    <3>4. KeyOf(u) = NameOf[batch[k]]
      BY <2>1, <3>1 DEF KeyOf
    <3> QED BY <3>3, <3>4, NameType
  <2>2. CASE ~(u \in Items /\ Answered(u))
    BY <2>2, NameType DEF KeyOf
  <2> QED BY <2>1, <2>2
<1>2. u \in CliFiles => KeyOf(u) = NameOf[u]
  BY BatchType DEF KeyOf
<1> QED BY <1>1, <1>2

LEMMA KeyStays ==
    ASSUME batch' = batch, NEW u
    PROVE  KeyOf(u)' = KeyOf(u)
  BY DEF KeyOf, Items, Answered, AnswerTo, Position, Firsts

-----------------------------------------------------------------------------
(* What a step of a client does to its upload.                             *)

Pcs == {"absent", "pending"} \cup Working \cup Results

HoldingPcs == {"check", "put", "abort", "cancel", "confirm"}

\* The upload has credentials and has not ended.
Holding(u) == up[u].pc \in HoldingPcs

\* Somebody may have left the name n reserved behind.
Blamed(n) == \E v \in Uploads : Leaves(v) /\ n \in {NameOf[v], KeyOf(v)}

Moves(u, pc) ==
    /\ up' \in [Uploads -> Upload]
    /\ up'[u].pc = pc
    /\ \A v \in Uploads \ {u} : up'[v] = up[v]

TypesKept ==
    /\ ServerTypeOK' /\ UploadsTypeOK'
    /\ cutOff \subseteq cutOff'

LEMMA PcFacts ==
    /\ HoldingPcs \subseteq Pcs
    /\ {"absent", "pending", "credentials", "check", "put", "abort", "cancel", "confirm", "uploaded",
        "exists", "failed", "noSpace", "dropped", "killed", "ignored"} \subseteq Pcs
  BY DEF HoldingPcs, Pcs, Working, Results

LEMMA GotoMoves ==
    ASSUME UploadsTypeOK, NEW u \in Uploads, NEW pc \in Pcs, Goto(u, pc)
    PROVE  Moves(u, pc)
<1>1. up \in [Uploads -> Upload] /\ up[u] \in Upload
  BY DEF UploadsTypeOK
<1>2. [up[u] EXCEPT !.pc = pc, !.try = 1] \in Upload
  BY <1>1 DEF Upload, Pcs
<1>3. up' = [up EXCEPT ![u] = [up[u] EXCEPT !.pc = pc, !.try = 1]]
  BY <1>1 DEF Goto, Upload
<1> QED BY <1>1, <1>2, <1>3 DEF Moves, Upload

LEMMA CountsKept ==
    ASSUME UploadsTypeOK, NEW u \in Uploads, Quiet \/ CutOff(u)
    PROVE  /\ lost' \in 0..MaxLost /\ kills' \in 0..MaxKills /\ cutOff' \subseteq Uploads
           /\ cutOff \subseteq cutOff'
           /\ CutOff(u) => Leaves(u)'
  BY DEF UploadsTypeOK, Quiet, CutOff, Leaves

LEMMA ServerStays == ASSUME ServerTypeOK, UNCHANGED serverVars PROVE ServerTypeOK'
  BY DEF ServerTypeOK, serverVars

-----------------------------------------------------------------------------
(* What a step of a client does to the server.                             *)

\* Nobody gets hold of a name; who lets go of one may be blamed, or cannot confirm.
Withdraw ==
    /\ UNCHANGED <<row, object, owner, crossed, belated>>
    /\ \A q \in late' : q \in late \/ \A n \in q.names : Blamed(n)'
    /\ \A f \in flying' : f \in flying \/ (f[1] \in Uploads /\ Holding(f[1]) /\ f[2] = KeyOf(f[1]))
    /\ \A u \in Uploads :
        /\ Holding(u)' => Holding(u)
        /\ up'[u].pc \in {"confirm", "uploaded"} => up'[u].pc = up[u].pc
        /\ Holding(u) => Holding(u)' \/ Leaves(u)' \/ (up[u].pc = "confirm" /\ ~Confirms(KeyOf(u)))

\* Every name that is reserved gets its holder, who is its owner.
Reserve(names, whom) ==
    /\ names \subseteq Names /\ ReserveFor(names, whom)
    /\ UNCHANGED <<object, late, flying, crossed, belated, cutOff>>
    /\ \A u \in Uploads :
        /\ up'[u].pc \in {"confirm", "uploaded"} => up'[u].pc = up[u].pc
        /\ Holding(u) => Holding(u)'
        /\ Holding(u)' => Holding(u) \/ (KeyOf(u) \in names /\ whom[KeyOf(u)] = u)
    /\ \A n \in names : \E v \in Uploads : Holding(v)' /\ KeyOf(v) = n

ReserveInVain(names) ==
    /\ names \subseteq Names /\ ReserveFails(names)
    /\ UNCHANGED <<object, owner, late, flying, crossed, belated>>
    /\ \A u \in Uploads :
        /\ Holding(u)' <=> Holding(u)
        /\ up'[u].pc \in {"confirm", "uploaded"} => up'[u].pc = up[u].pc

StoreFile(u) ==
    /\ up[u].pc = "put" /\ Store(u, KeyOf(u))
    /\ UNCHANGED <<row, owner, late, flying, belated>>
    /\ Moves(u, "confirm") \/ (Moves(u, "failed") /\ Leaves(u)')

GiveBack(u) ==
    /\ up[u].pc = "cancel"
    /\ row' = IF u \in Uploaders THEN [row EXCEPT ![KeyOf(u)] = CanceledRow(KeyOf(u))] ELSE row
    /\ UNCHANGED <<object, owner, late, flying, crossed, belated>>
    /\ \E pc \in {"credentials", "failed", "noSpace"} : Moves(u, pc)

Confirm(u) ==
    /\ up[u].pc = "confirm" /\ ConfirmBy(u, KeyOf(u))
    /\ UNCHANGED <<object, owner, late, flying, belated>>
    /\ Moves(u, "uploaded")

ClientStep ==
    \/ Withdraw
    \/ \E names \in SUBSET Names, whom \in [Names -> Uploads \cup {None}] : Reserve(names, whom)
    \/ \E names \in SUBSET Names : ReserveInVain(names)
    \/ \E u \in Uploads : StoreFile(u) \/ GiveBack(u) \/ Confirm(u)

\* What the lemmas about steps assume.
Typed == ServerTypeOK /\ UploadsTypeOK /\ batch \in Batches /\ batch' = batch

LEMMA Aside ==
    ASSUME Typed, NEW u \in Uploads, NEW pc \in Pcs, Moves(u, pc), Quiet \/ CutOff(u),
           UNCHANGED serverVars,
           pc \notin {"confirm", "uploaded"},
           pc \in HoldingPcs => Holding(u),
           Holding(u) /\ pc \notin HoldingPcs =>
               CutOff(u) \/ (up[u].pc = "confirm" /\ ~Confirms(KeyOf(u)))
    PROVE  TypesKept /\ Withdraw
<1>1. TypesKept
  BY CountsKept, ServerStays DEF Typed, TypesKept, UploadsTypeOK, Moves
<1>2. UNCHANGED <<row, object, owner, crossed, belated, late, flying>>
  BY DEF serverVars
<1>3. CutOff(u) => Leaves(u)'
  BY CountsKept DEF Typed
<1>4. ASSUME NEW v \in Uploads
      PROVE  /\ Holding(v)' => Holding(v)
             /\ up'[v].pc \in {"confirm", "uploaded"} => up'[v].pc = up[v].pc
             /\ Holding(v) => Holding(v)' \/ Leaves(v)' \/ (up[v].pc = "confirm" /\ ~Confirms(KeyOf(v)))
  <2>1. CASE v = u
    BY <2>1, <1>3 DEF Holding, Moves
  <2>2. CASE v # u
    BY <2>2 DEF Holding, Moves
  <2> QED BY <2>1, <2>2
<1> QED BY <1>1, <1>2, <1>4 DEF Withdraw

LEMMA LateCall ==
    ASSUME Typed, NEW u \in Uploads, NEW call \in {"reserve", "confirm", "cancel"},
           NEW names \in SUBSET {KeyOf(u)}, NEW tries, NEW pc \in {"failed", "noSpace"},
           LoseCall(u, call, names, tries, pc)
    PROVE  TypesKept /\ Withdraw
<1>1. up \in [Uploads -> Upload] /\ up[u] \in Upload /\ lost \in 0..MaxLost /\ MaxLost \in Nat
  BY CliUploadsAssumption DEF Typed, UploadsTypeOK
<1>2. PICK p \in Pcs : p \in {up[u].pc, pc} /\ Moves(u, p)
  <2>1. CASE up[u].try < tries
    <3>1. up' = [up EXCEPT ![u].try = @ + 1]
      BY <2>1 DEF LoseCall
    <3>2. up' = [up EXCEPT ![u] = [up[u] EXCEPT !.try = up[u].try + 1]]
      BY <1>1, <3>1 DEF Upload
    <3>3. [up[u] EXCEPT !.try = up[u].try + 1] \in Upload
      BY <1>1 DEF Upload
    <3>4. Moves(u, up[u].pc)
      BY <1>1, <3>2, <3>3 DEF Moves, Upload
    <3> QED BY <3>4, <1>1 DEF Upload, Pcs
  <2>2. CASE ~(up[u].try < tries)
    <3>1. Goto(u, pc)
      BY <2>2 DEF LoseCall, Goto
    <3> QED BY <3>1, GotoMoves, PcFacts DEF Typed
  <2> QED BY <2>1, <2>2
<1>3. lost' \in 0..MaxLost /\ kills' = kills /\ cutOff' = cutOff \cup {u}
  BY <1>1 DEF LoseCall
<1>4. UploadsTypeOK' /\ cutOff \subseteq cutOff' /\ Leaves(u)'
  BY <1>2, <1>3 DEF Typed, UploadsTypeOK, Moves, Leaves
<1> DEFINE q == [call |-> call, by |-> u, names |-> names]
<1>5. q \in Request
  BY KeyType DEF Request, Typed
<1>6. /\ UNCHANGED <<row, object, owner, flying, crossed, belated>>
      /\ late' = late \cup {q}
  BY DEF LoseCall
<1>7. ServerTypeOK'
  BY <1>5, <1>6 DEF Typed, ServerTypeOK
<1>8. \A n \in q.names : Blamed(n)'
  <2>1. \A n \in names : n = KeyOf(u)'
    BY KeyStays DEF Typed
  <2> QED BY <2>1, <1>4 DEF Blamed
<1>9. ASSUME NEW v \in Uploads
      PROVE  /\ Holding(v)' => Holding(v)
             /\ up'[v].pc \in {"confirm", "uploaded"} => up'[v].pc = up[v].pc
             /\ Holding(v) => Holding(v)' \/ Leaves(v)'
  <2>1. CASE v = u
    BY <2>1, <1>2, <1>4 DEF Holding, HoldingPcs, Moves
  <2>2. CASE v # u
    BY <2>2, <1>2 DEF Holding, Moves
  <2> QED BY <2>1, <2>2
<1> HIDE DEF q
<1>10. Withdraw
  BY <1>6, <1>8, <1>9 DEF Withdraw
<1> QED BY <1>4, <1>7, <1>10 DEF TypesKept

-----------------------------------------------------------------------------
(* The operations of the server keep its types.                            *)

LEMMA RowType ==
    ASSUME ServerTypeOK, NEW n \in Names
    PROVE  /\ row[n] \in Row
           /\ CanceledRow(n) \in Row
           /\ \A state \in {"UPLOADING", "CANCELED"} : Reserved(n, state) \in Row
           /\ \A u \in Uploads : ConfirmedRow(n, u) \in Row
<1>1. row[n] \in Row
  BY DEF ServerTypeOK
<1>2. CanceledRow(n) \in Row
  BY <1>1 DEF CanceledRow, Row
<1>3. \A state \in {"UPLOADING", "CANCELED"} : Reserved(n, state) \in Row
  BY <1>1 DEF Reserved, Row
<1>4. \A u \in Uploads : ConfirmedRow(n, u) \in Row
  BY <1>1 DEF ConfirmedRow, Row, Contents
<1> QED BY <1>1, <1>2, <1>3, <1>4

LEMMA ReserveType ==
    ASSUME ServerTypeOK, NEW names, NEW whom \in [Names -> Uploads \cup {None}],
           ReserveFor(names, whom)
    PROVE  row' \in [Names -> Row] /\ owner' \in [Names -> Uploads \cup {None}]
<1>1. \A n \in Names : (IF n \in names THEN Reserved(n, "UPLOADING") ELSE row[n]) \in Row
  BY RowType
<1>2. \A n \in Names : (IF n \in names THEN whom[n] ELSE owner[n]) \in Uploads \cup {None}
  BY DEF ServerTypeOK
<1> QED BY <1>1, <1>2 DEF ReserveFor

LEMMA ReserveFailsType ==
    ASSUME ServerTypeOK, NEW names, ReserveFails(names)
    PROVE  row' \in [Names -> Row]
<1>1. \A n \in Names : (IF n \in names THEN Reserved(n, "CANCELED") ELSE row[n]) \in Row
  BY RowType
<1> QED BY <1>1 DEF ReserveFails, ServerTypeOK

LEMMA StoreType ==
    ASSUME ServerTypeOK, NEW u \in Uploads, NEW n \in Names, Store(u, n)
    PROVE  object' \in [Names -> Contents \cup {None}] /\ crossed' \subseteq Names
  BY DEF ServerTypeOK, Store, Contents

LEMMA ConfirmType ==
    ASSUME ServerTypeOK, NEW u \in Uploads, NEW n \in Names, ConfirmBy(u, n)
    PROVE  row' \in [Names -> Row] /\ crossed' \subseteq Names
  BY RowType DEF ServerTypeOK, ConfirmBy

-----------------------------------------------------------------------------
(* The steps of the command line client.                                   *)

LEMMA StartStep ==
    ASSUME Typed, NEW c \in DOMAIN Commands, NEW u \in Commands[c], StartUpload(c, u)
    PROVE  TypesKept /\ ClientStep
<1>1. u \in Uploads
  BY CliFile
<1>2. Moves(u, "credentials")
  BY <1>1, GotoMoves, PcFacts DEF StartUpload, Typed
<1>3. /\ UNCHANGED serverVars /\ Quiet /\ up[u].pc = "pending"
  BY DEF StartUpload, At
<1> QED BY <1>1, <1>2, <1>3, Aside, PcFacts DEF HoldingPcs, Holding, ClientStep

LEMMA EndWithoutHold ==
    ASSUME Typed, NEW us \in SUBSET Uploads, NEW pc \in {"dropped", "killed"},
           UNCHANGED <<row, object, owner, late, crossed, belated>>,
           up' = [u \in Uploads |-> IF u \in us THEN [up[u] EXCEPT !.pc = pc] ELSE up[u]],
           lost' \in 0..MaxLost, kills' \in 0..MaxKills, cutOff' \subseteq Uploads,
           cutOff \subseteq cutOff',
           {u \in us : Holding(u)} \subseteq cutOff',
           flying' \subseteq Uploads \X Names,
           \A f \in flying' : f \in flying \/ (f[1] \in Uploads /\ Holding(f[1]) /\ f[2] = KeyOf(f[1]))
    PROVE  TypesKept /\ ClientStep
<1>1. up \in [Uploads -> Upload]
  BY DEF Typed, UploadsTypeOK
<1>2. \A u \in Uploads : [up[u] EXCEPT !.pc = pc] \in Upload
  BY <1>1 DEF Upload, Results
<1>3. up' \in [Uploads -> Upload]
  BY <1>1, <1>2
<1>4. ServerTypeOK'
  BY DEF Typed, ServerTypeOK
<1>5. TypesKept
  BY <1>3, <1>4 DEF TypesKept, UploadsTypeOK
<1>6. ASSUME NEW u \in Uploads
      PROVE  /\ Holding(u)' => Holding(u)
             /\ up'[u].pc \in {"confirm", "uploaded"} => up'[u].pc = up[u].pc
             /\ Holding(u) => Holding(u)' \/ Leaves(u)'
  <2>1. CASE u \in us
    <3>1. up'[u].pc = pc
      BY <1>1, <2>1 DEF Upload
    <3> QED BY <2>1, <3>1 DEF Holding, HoldingPcs, Leaves
  <2>2. CASE u \notin us
    BY <2>2 DEF Holding
  <2> QED BY <2>1, <2>2
<1>7. Withdraw
  BY <1>6 DEF Withdraw
<1> QED BY <1>5, <1>7 DEF ClientStep

LEMMA AbortStep ==
    ASSUME Typed, NEW c \in DOMAIN Commands, AbortCommand(c)
    PROVE  TypesKept /\ ClientStep
<1> DEFINE us == {u \in Uploads : u \in Commands[c] /\ At(u, "pending")}
<1>1. us \in SUBSET Uploads
  OBVIOUS
<1>2. up' = [u \in Uploads |-> IF u \in us THEN [up[u] EXCEPT !.pc = "dropped"] ELSE up[u]]
  BY DEF AbortCommand
<1>3. UNCHANGED <<row, object, owner, late, flying, crossed, belated, lost, kills, cutOff>>
  BY DEF AbortCommand, Quiet, serverVars
<1>4. {u \in us : Holding(u)} = {}
  BY DEF At, Holding, HoldingPcs
<1>5. lost' \in 0..MaxLost /\ kills' \in 0..MaxKills /\ cutOff' \subseteq Uploads /\ cutOff \subseteq cutOff'
      /\ flying' \subseteq Uploads \X Names
  BY <1>3 DEF Typed, ServerTypeOK, UploadsTypeOK
<1> HIDE DEF us
<1> QED BY <1>1, <1>2, <1>3, <1>4, <1>5, EndWithoutHold

LEMMA KillStep ==
    ASSUME Typed, NEW c \in DOMAIN Commands, Kill(c)
    PROVE  TypesKept /\ ClientStep
<1> DEFINE us == {u \in Commands[c] : At(u, "pending")} \cup Running(c)
           sent == {x \in Running(c) : At(x, "put")}
<1>1. Running(c) \subseteq Commands[c] /\ Commands[c] \subseteq Uploads /\ us \in SUBSET Uploads
  BY CliFile DEF Running
<1>2. up' = [u \in Uploads |-> IF u \in us THEN [up[u] EXCEPT !.pc = "killed"] ELSE up[u]]
  BY DEF Kill
<1>3. /\ UNCHANGED <<row, object, owner, late, crossed, belated, lost>>
      /\ cutOff' = cutOff \cup Running(c) /\ kills' = kills + 1 /\ kills < MaxKills
      /\ flying' = flying \cup {<<u, NameOf[u]>> : u \in sent}
  BY DEF Kill
<1>4. {u \in us : Holding(u)} \subseteq cutOff'
  BY <1>3 DEF At, Holding, HoldingPcs
<1>5. lost' \in 0..MaxLost /\ kills' \in 0..MaxKills /\ cutOff' \subseteq Uploads /\ cutOff \subseteq cutOff'
  BY <1>1, <1>3, CliUploadsAssumption DEF Typed, UploadsTypeOK
<1>6. sent \subseteq CliFiles /\ sent \subseteq Uploads /\ \A u \in sent : Holding(u)
  BY <1>1, CliFile DEF At, Holding, HoldingPcs
<1>7. \A u \in sent : NameOf[u] = KeyOf(u)
  BY <1>6, KeyType DEF Typed
<1>8. flying \subseteq Uploads \X Names
  BY DEF Typed, ServerTypeOK
<1> HIDE DEF us, sent
<1>9. \A f \in flying' : f \in flying \/ (f[1] \in Uploads /\ Holding(f[1]) /\ f[2] = KeyOf(f[1]))
  BY <1>3, <1>6, <1>7
<1>10. flying' \subseteq Uploads \X Names
  BY <1>3, <1>6, <1>8, NameType
<1> QED BY <1>1, <1>2, <1>3, <1>4, <1>5, <1>9, <1>10, EndWithoutHold

LEMMA CliReserveStep ==
    ASSUME Typed, NEW u \in CliFiles, u \in Uploads, GetCredentials(u)
    PROVE  TypesKept /\ ClientStep
<1> DEFINE names == {NameOf[u]}
           whom == [n \in Names |-> u]
<1>1. names \in SUBSET Names /\ whom \in [Names -> Uploads \cup {None}]
  BY NameType
<1>2. KeyOf(u) \in names /\ whom[KeyOf(u)] = u
  BY KeyType DEF Typed
<1>3. /\ ReserveFor(names, whom) /\ Moves(u, "put") /\ Quiet
      /\ UNCHANGED <<object, late, flying, crossed, belated>>
      /\ up[u].pc = "credentials"
  BY GotoMoves, PcFacts DEF GetCredentials, At, Typed
<1>4. TypesKept
  <2>1. row' \in [Names -> Row] /\ owner' \in [Names -> Uploads \cup {None}]
    BY <1>1, <1>3, ReserveType DEF Typed
  <2> QED BY <2>1, <1>3, CountsKept DEF TypesKept, ServerTypeOK, UploadsTypeOK, Moves, Typed
<1> HIDE DEF names, whom
<1>5. ASSUME NEW v \in Uploads
      PROVE  /\ up'[v].pc \in {"confirm", "uploaded"} => up'[v].pc = up[v].pc
             /\ Holding(v) => Holding(v)'
             /\ Holding(v)' => Holding(v) \/ (KeyOf(v) \in names /\ whom[KeyOf(v)] = v)
  BY <1>2, <1>3 DEF Moves, Holding, HoldingPcs
<1>6. Holding(u)' /\ \A n \in names : n = KeyOf(u)
  BY <1>3, KeyType DEF Moves, Holding, HoldingPcs, names, Typed
<1>7. cutOff' = cutOff
  BY <1>3 DEF Quiet
<1>8. Reserve(names, whom)
  BY <1>1, <1>3, <1>5, <1>6, <1>7 DEF Reserve
<1> QED BY <1>1, <1>4, <1>8 DEF ClientStep

LEMMA PutFailsStep ==
    ASSUME Typed, NEW u \in CliFiles, u \in Uploads, PutFails(u)
    PROVE  TypesKept /\ ClientStep
<1>1. PICK full \in BOOLEAN :
        /\ up' = [up EXCEPT ![u].pc = "cancel", ![u].try = 1, ![u].full = full]
        /\ flying' = IF full THEN flying ELSE flying \cup {<<u, NameOf[u]>>}
  BY DEF PutFails
<1>2. up \in [Uploads -> Upload] /\ up[u] \in Upload /\ up[u].pc = "put"
  BY DEF Typed, UploadsTypeOK, PutFails, At
<1>3. Moves(u, "cancel")
  <2>1. [up[u] EXCEPT !.pc = "cancel", !.try = 1, !.full = full] \in Upload
    BY <1>2 DEF Upload, Working
  <2>2. up' = [up EXCEPT ![u] = [up[u] EXCEPT !.pc = "cancel", !.try = 1, !.full = full]]
    BY <1>1, <1>2 DEF Upload
  <2> QED BY <1>2, <2>1, <2>2 DEF Moves, Upload
<1>4. Quiet /\ UNCHANGED <<row, object, owner, late, crossed, belated>>
  BY DEF PutFails
<1>5. NameOf[u] = KeyOf(u) /\ NameOf[u] \in Names
  BY KeyType, NameType DEF Typed
<1>6. flying' \subseteq Uploads \X Names
  BY <1>1, <1>5 DEF Typed, ServerTypeOK
<1>7. TypesKept
  BY <1>3, <1>4, <1>6, CountsKept DEF TypesKept, ServerTypeOK, UploadsTypeOK, Moves, Typed
<1>8. \A f \in flying' : f \in flying \/ (f[1] \in Uploads /\ Holding(f[1]) /\ f[2] = KeyOf(f[1]))
  BY <1>1, <1>2, <1>5 DEF Holding, HoldingPcs
<1>9. ASSUME NEW v \in Uploads
      PROVE  /\ Holding(v)' => Holding(v)
             /\ up'[v].pc \in {"confirm", "uploaded"} => up'[v].pc = up[v].pc
             /\ Holding(v) => Holding(v)'
  BY <1>2, <1>3 DEF Moves, Holding, HoldingPcs
<1>10. Withdraw
  BY <1>4, <1>8, <1>9 DEF Withdraw
<1> QED BY <1>7, <1>10 DEF ClientStep

LEMMA PutStep ==
    ASSUME Typed, NEW u \in Uploads, up[u].pc = "put", Store(u, KeyOf(u)),
           UNCHANGED <<row, owner, late, flying, belated>>,
           \/ Moves(u, "confirm") /\ Quiet
           \/ Moves(u, "failed") /\ CutOff(u)
    PROVE  TypesKept /\ ClientStep
<1>1. KeyOf(u) \in Names
  BY KeyType DEF Typed
<1>2. object' \in [Names -> Contents \cup {None}] /\ crossed' \subseteq Names
  BY <1>1, StoreType DEF Typed
<1>3. TypesKept
  BY <1>2, CountsKept DEF TypesKept, ServerTypeOK, UploadsTypeOK, Moves, Typed
<1>4. StoreFile(u)
  BY CountsKept DEF StoreFile, Typed
<1> QED BY <1>3, <1>4 DEF ClientStep

LEMMA AfterCancelMoves ==
    ASSUME Typed, NEW u \in Uploads, AfterCancel(u)
    PROVE  \E pc \in {"credentials", "failed", "noSpace"} : Moves(u, pc)
<1>1. up \in [Uploads -> Upload] /\ up[u] \in Upload /\ MaxUploadRetries \in Nat
  BY CliUploadsAssumption DEF Typed, UploadsTypeOK
<1>2. CASE up[u].full
  BY <1>2, GotoMoves, PcFacts DEF AfterCancel, Typed
<1>3. CASE ~up[u].full /\ up[u].attempt < MaxUploadRetries
  <2>1. up' = [up EXCEPT ![u].pc = "credentials", ![u].attempt = @ + 1, ![u].try = 1]
    BY <1>3 DEF AfterCancel
  <2>2. [up[u] EXCEPT !.pc = "credentials", !.attempt = up[u].attempt + 1, !.try = 1] \in Upload
    <3>1. up[u].attempt + 1 \in 1..MaxUploadRetries
      BY <1>1, <1>3 DEF Upload
    <3>2. "credentials" \in {"absent", "pending"} \cup Working \cup Results
      BY DEF Working
    <3> QED BY <1>1, <3>1, <3>2 DEF Upload
  <2>3. up' = [up EXCEPT ![u] = [up[u] EXCEPT !.pc = "credentials", !.attempt = up[u].attempt + 1, !.try = 1]]
    BY <1>1, <2>1 DEF Upload
  <2>4. Moves(u, "credentials")
    BY <1>1, <2>2, <2>3 DEF Moves, Upload
  <2> QED BY <2>4
<1>4. CASE ~up[u].full /\ ~(up[u].attempt < MaxUploadRetries)
  BY <1>4, GotoMoves, PcFacts DEF AfterCancel, Typed
<1> QED BY <1>2, <1>3, <1>4

LEMMA CancelStep ==
    ASSUME Typed, NEW u \in Uploads, up[u].pc = "cancel",
           row' = IF u \in Uploaders THEN [row EXCEPT ![KeyOf(u)] = CanceledRow(KeyOf(u))] ELSE row,
           NEW pc \in {"credentials", "failed", "noSpace"}, Moves(u, pc),
           Quiet, UNCHANGED <<object, owner, late, flying, crossed, belated>>
    PROVE  TypesKept /\ ClientStep
<1>1. KeyOf(u) \in Names
  BY KeyType DEF Typed
<1>2. row \in [Names -> Row] /\ CanceledRow(KeyOf(u)) \in Row
  BY <1>1, RowType DEF Typed, ServerTypeOK
<1>3. row' \in [Names -> Row]
  BY <1>2
<1>4. TypesKept
  BY <1>3, CountsKept DEF TypesKept, ServerTypeOK, UploadsTypeOK, Moves, Typed
<1>5. GiveBack(u)
  BY DEF GiveBack
<1> QED BY <1>4, <1>5 DEF ClientStep

LEMMA ConfirmStep ==
    ASSUME Typed, NEW u \in Uploads, up[u].pc = "confirm", ConfirmBy(u, KeyOf(u)),
           Moves(u, "uploaded"), Quiet, UNCHANGED <<object, owner, late, flying, belated>>
    PROVE  TypesKept /\ ClientStep
<1>1. KeyOf(u) \in Names
  BY KeyType DEF Typed
<1>2. row' \in [Names -> Row] /\ crossed' \subseteq Names
  BY <1>1, ConfirmType DEF Typed
<1>3. TypesKept
  BY <1>2, CountsKept DEF TypesKept, ServerTypeOK, UploadsTypeOK, Moves, Typed
<1>4. Confirm(u)
  BY DEF Confirm
<1> QED BY <1>3, <1>4 DEF ClientStep

LEMMA ReserveFailsStep ==
    ASSUME Typed, NEW names \in SUBSET Names, ReserveFails(names),
           UNCHANGED <<object, owner, late, flying, crossed, belated, lost, kills>>,
           NEW us \in SUBSET Uploads, cutOff' = cutOff \cup us,
           up' \in [Uploads -> Upload],
           \A u \in us : ~Holding(u) /\ up'[u].pc = "failed",
           \A u \in Uploads \ us : up'[u] = up[u]
    PROVE  TypesKept /\ ClientStep
<1>1. row' \in [Names -> Row]
  BY ReserveFailsType DEF Typed
<1>2. TypesKept
  BY <1>1 DEF TypesKept, ServerTypeOK, UploadsTypeOK, Typed
<1>3. ASSUME NEW u \in Uploads
      PROVE  /\ Holding(u)' <=> Holding(u)
             /\ up'[u].pc \in {"confirm", "uploaded"} => up'[u].pc = up[u].pc
  <2>1. CASE u \in us
    BY <2>1 DEF Holding, HoldingPcs
  <2>2. CASE u \notin us
    BY <2>2 DEF Holding
  <2> QED BY <2>1, <2>2
<1>4. ReserveInVain(names)
  BY <1>3 DEF ReserveInVain
<1> QED BY <1>2, <1>4 DEF ClientStep

LEMMA CliUploadStep ==
    ASSUME Typed, NEW u \in CliFiles, u \in Uploads, CliStep(u)
    PROVE  TypesKept /\ ClientStep
<1>0. NameOf[u] = KeyOf(u) /\ KeyOf(u) \in Names
  BY KeyType DEF Typed
<1>1. CASE GetCredentials(u)
  BY <1>1, CliReserveStep
<1>2. CASE FileExists(u) \/ NoSpace(u)
  <2>1. up[u].pc = "credentials" /\ Quiet /\ UNCHANGED serverVars
    BY <1>2 DEF FileExists, NoSpace, At
  <2>2. \E pc \in {"exists", "noSpace"} : Moves(u, pc)
    BY <1>2, GotoMoves, PcFacts DEF FileExists, NoSpace, Typed
  <2> QED BY <2>1, <2>2, Aside, PcFacts DEF Holding, HoldingPcs, ClientStep
<1>3. CASE CredentialsFail(u)
  <2>1. /\ up[u].pc = "credentials" /\ ReserveFails({NameOf[u]}) /\ Moves(u, "failed") /\ CutOff(u)
        /\ UNCHANGED <<object, owner, late, flying, crossed, belated>>
    BY <1>3, GotoMoves, PcFacts DEF CredentialsFail, At, Typed
  <2>2. /\ UNCHANGED <<lost, kills>> /\ cutOff' = cutOff \cup {u} /\ up' \in [Uploads -> Upload]
        /\ \A v \in {u} : ~Holding(v) /\ up'[v].pc = "failed"
        /\ \A v \in Uploads \ {u} : up'[v] = up[v]
    BY <2>1 DEF CutOff, Moves, Holding, HoldingPcs
  <2> QED BY <1>0, <2>1, <2>2, ReserveFailsStep
<1>4. CASE CredentialsLost(u)
  <2>1. LoseCall(u, "reserve", {KeyOf(u)}, CredentialTries, "failed")
    BY <1>0, <1>4 DEF CredentialsLost
  <2> QED BY <2>1, LateCall DEF ClientStep
<1>5. CASE PutFile(u)
  <2>1. /\ up[u].pc = "put" /\ Store(u, KeyOf(u)) /\ Moves(u, "confirm") /\ Quiet
        /\ UNCHANGED <<row, owner, late, flying, belated>>
    BY <1>0, <1>5, GotoMoves, PcFacts DEF PutFile, At, Typed
  <2> QED BY <2>1, PutStep
<1>6. CASE PutFails(u)
  BY <1>6, PutFailsStep
<1>7. CASE CancelUpload(u)
  <2>1. /\ up[u].pc = "cancel" /\ Quiet /\ UNCHANGED <<object, owner, late, flying, crossed, belated>>
        /\ row' = IF u \in Uploaders THEN [row EXCEPT ![KeyOf(u)] = CanceledRow(KeyOf(u))] ELSE row
        /\ AfterCancel(u)
    BY <1>0, <1>7 DEF CancelUpload, At
  <2> QED BY <2>1, AfterCancelMoves, CancelStep
<1>8. CASE CancelFails(u) \/ ConfirmFails(u)
  <2>1. CutOff(u) /\ UNCHANGED serverVars
    BY <1>8 DEF CancelFails, ConfirmFails
  <2>2. \E pc \in {"noSpace", "failed"} : Moves(u, pc)
    BY <1>8, GotoMoves, PcFacts DEF CancelFails, ConfirmFails, Typed
  <2> QED BY <2>1, <2>2, Aside, PcFacts DEF HoldingPcs, ClientStep
<1>9. CASE CancelLost(u)
  <2>1. \E names \in SUBSET {KeyOf(u)}, pc \in {"failed", "noSpace"} :
            LoseCall(u, "cancel", names, CancelTries, pc)
    BY <1>0, <1>9 DEF CancelLost
  <2> QED BY <2>1, LateCall DEF ClientStep
<1>10. CASE ConfirmUpload(u)
  <2>1. /\ up[u].pc = "confirm" /\ ConfirmBy(u, KeyOf(u)) /\ Moves(u, "uploaded") /\ Quiet
        /\ UNCHANGED <<object, owner, late, flying, belated>>
    BY <1>0, <1>10, GotoMoves, PcFacts DEF ConfirmUpload, At, Typed
  <2> QED BY <2>1, ConfirmStep
<1>11. CASE ConfirmRefused(u)
  <2>1. /\ up[u].pc = "confirm" /\ ~Confirms(KeyOf(u)) /\ Moves(u, "failed") /\ Quiet
        /\ UNCHANGED serverVars
    BY <1>0, <1>11, GotoMoves, PcFacts DEF ConfirmRefused, At, Typed
  <2> QED BY <2>1, Aside, PcFacts DEF HoldingPcs, ClientStep
<1>12. CASE ConfirmLost(u)
  <2>1. LoseCall(u, "confirm", {KeyOf(u)}, ConfirmTries, "failed")
    BY <1>0, <1>12 DEF ConfirmLost
  <2> QED BY <2>1, LateCall DEF ClientStep
<1> QED BY <1>1, <1>2, <1>3, <1>4, <1>5, <1>6, <1>7, <1>8, <1>9, <1>10, <1>11, <1>12 DEF CliStep

LEMMA CliActions == ASSUME Typed, CliNext PROVE TypesKept /\ ClientStep
<1>1. PICK c \in DOMAIN Commands :
        AbortCommand(c) \/ Kill(c) \/ \E u \in Commands[c] : StartUpload(c, u) \/ CliStep(u)
  BY DEF CliNext
<1>2. CASE AbortCommand(c)
  BY <1>2, AbortStep
<1>3. CASE Kill(c)
  BY <1>3, KillStep
<1>4. ASSUME NEW u \in Commands[c], StartUpload(c, u)
      PROVE  TypesKept /\ ClientStep
  BY <1>4, StartStep
<1>5. ASSUME NEW u \in Commands[c], CliStep(u)
      PROVE  TypesKept /\ ClientStep
  BY <1>5, CliFile, CliUploadStep
<1> QED BY <1>1, <1>2, <1>3, <1>4, <1>5

-----------------------------------------------------------------------------
(* The answers to the request for a batch.                                 *)

LEMMA Least == ASSUME NEW S \in SUBSET Nat, S # {} PROVE \E m \in S : \A k \in S : m <= k
<1> DEFINE R == OpToRel(<, Nat)
<1>1. IsWellFoundedOn(R, Nat)
  BY NatLessThanWellFounded
<1>2. R = {ss \in Nat \X Nat : ss[1] < ss[2]}
  BY DEF OpToRel
<1> HIDE DEF R
<1>3. PICK m \in S : \A k \in S : ~(<<k, m>> \in R)
  BY <1>1, WFMin
<1>4. \A k \in S : ~(k < m)
  BY <1>2, <1>3
<1> QED BY <1>3, <1>4

\* How many names the server has answered about up to the k-th item.
Rank(k) == Cardinality({j \in Firsts : j <= k})

LEMMA RankOnce ==
    ASSUME batch \in Batches, NEW k \in Firsts, NEW l \in Firsts, Rank(k) = Rank(l)
    PROVE  k = l
<1> DEFINE upTo(m) == {j \in Firsts : j <= m}
<1>1. /\ Firsts \in SUBSET (1..Len(batch)) /\ Len(batch) \in Nat
      /\ \A j \in Firsts : j \in Nat
  BY BatchType DEF Firsts
<1>2. IsFiniteSet(Firsts)
  <2>1. IsFiniteSet(1..Len(batch))
    BY <1>1, FS_Interval
  <2> QED BY <1>1, <2>1, FS_Subset
<1>3. IsFiniteSet(upTo(k)) /\ IsFiniteSet(upTo(l))
  BY <1>2, FS_Subset
<1>4. CASE k <= l
  <2>1. upTo(k) \in SUBSET upTo(l)
    <3>1. \A j \in Firsts : j <= k => j <= l
      BY <1>1, <1>4
    <3> QED BY <3>1
  <2>2. Cardinality(upTo(l)) = Cardinality(upTo(k))
    BY DEF Rank
  <2>3. upTo(l) = upTo(k)
    BY <1>3, <2>1, <2>2, FS_Subset
  <2> QED BY <1>1, <1>4, <2>3
<1>5. CASE l <= k
  <2>1. upTo(l) \in SUBSET upTo(k)
    <3>1. \A j \in Firsts : j <= l => j <= k
      BY <1>1, <1>5
    <3> QED BY <3>1
  <2>2. Cardinality(upTo(l)) = Cardinality(upTo(k))
    BY DEF Rank
  <2>3. upTo(k) = upTo(l)
    BY <1>3, <2>1, <2>2, FS_Subset
  <2> QED BY <1>1, <1>5, <2>3
<1> QED BY <1>1, <1>4, <1>5

LEMMA RankRange ==
    ASSUME batch \in Batches, NEW k \in Firsts
    PROVE  Rank(k) \in DOMAIN batch
<1> DEFINE upTo == {j \in Firsts : j <= k}
<1>1. Firsts \subseteq 1..Len(batch) /\ Len(batch) \in Nat /\ DOMAIN batch = 1..Len(batch)
  BY BatchType DEF Firsts
<1>2. IsFiniteSet(1..Len(batch)) /\ Cardinality(1..Len(batch)) = Len(batch)
  <2> DEFINE L == Len(batch)
  <2>1. L \in Nat /\ L \in Int /\ 1 \in Int
    BY <1>1
  <2> HIDE DEF L
  <2>2. IsFiniteSet(1..L) /\ Cardinality(1..L) = IF 1 > L THEN 0 ELSE L - 1 + 1
    BY <2>1, FS_Interval
  <2>3. (IF 1 > L THEN 0 ELSE L - 1 + 1) = L
    BY <2>1
  <2> QED BY <2>2, <2>3 DEF L
<1>3. upTo \in SUBSET (1..Len(batch)) /\ k \in upTo
  <2>1. k \in Nat /\ k <= k
    BY <1>1
  <2> QED BY <1>1, <2>1
<1>4. IsFiniteSet(upTo) /\ Cardinality(upTo) <= Len(batch)
  BY <1>2, <1>3, FS_Subset
<1>5. Cardinality(upTo) \in Nat /\ Cardinality(upTo) # 0
  BY <1>3, <1>4, FS_CardinalityType, FS_EmptySet
<1> QED BY <1>1, <1>4, <1>5 DEF Rank

LEMMA PositionOf ==
    ASSUME batch \in Batches, NEW u \in Items
    PROVE  /\ Position(u) \in DOMAIN batch /\ batch[Position(u)] = u
           /\ \A i \in DOMAIN batch : batch[i] = u => i = Position(u)
<1>1. \E i \in DOMAIN batch : batch[i] = u
  BY DEF Items
<1>2. Position(u) \in DOMAIN batch /\ batch[Position(u)] = u
  BY <1>1 DEF Position
<1>3. \A i, j \in DOMAIN batch : batch[i] = batch[j] => i = j
  BY WebUploadsAssumption
<1> QED BY <1>2, <1>3

\* An upload that has its answer knows where the name stands in the batch.
LEMMA KeyAnswer ==
    ASSUME batch \in Batches, NEW u \in Items, Answered(u)
    PROVE  \E k \in Firsts : Rank(k) = Position(u) /\ KeyOf(u) = NameOf[batch[k]]
<1>1. PICK k \in AnswerTo(Position(u)) : k = CHOOSE i \in AnswerTo(Position(u)) : TRUE
  BY DEF Answered
<1>2. k \in Firsts /\ Rank(k) = Position(u)
  BY <1>1 DEF AnswerTo, Rank
<1>3. KeyOf(u) = NameOf[batch[k]]
  BY <1>1 DEF KeyOf
<1> QED BY <1>2, <1>3

LEMMA KeyOnce ==
    ASSUME batch \in Batches, NEW u \in Items, NEW v \in Items, Answered(u), Answered(v),
           KeyOf(u) = KeyOf(v)
    PROVE  u = v
<1>1. PICK k \in Firsts : Rank(k) = Position(u) /\ KeyOf(u) = NameOf[batch[k]]
  BY KeyAnswer
<1>2. PICK l \in Firsts : Rank(l) = Position(v) /\ KeyOf(v) = NameOf[batch[l]]
  BY KeyAnswer
<1>3. k <= l /\ l <= k
  BY <1>1, <1>2 DEF Firsts
<1>4. k \in Nat /\ l \in Nat
  BY BatchType DEF Firsts
<1>5. Position(u) = Position(v)
  BY <1>1, <1>2, <1>3, <1>4
<1> QED BY <1>5, PositionOf

LEMMA EveryNameAnswered ==
    ASSUME batch \in Batches, NEW n \in BatchNames
    PROVE  \E u \in Items : Answered(u) /\ KeyOf(u) = n
<1> DEFINE places == {i \in DOMAIN batch : NameOf[batch[i]] = n}
<1>1. DOMAIN batch \subseteq Nat
  BY BatchType
<1>2. places # {} /\ places \in SUBSET Nat
  BY <1>1 DEF BatchNames, Items
<1>3. PICK k \in places : \A j \in places : k <= j
  BY <1>2, Least
<1>4. k \in Firsts /\ NameOf[batch[k]] = n
  BY <1>3 DEF Firsts
<1> DEFINE u == batch[Rank(k)]
<1>5. Rank(k) \in DOMAIN batch
  BY <1>4, RankRange
<1>6. u \in Items /\ Position(u) = Rank(k)
  <2>1. u \in Items
    BY <1>5 DEF Items
  <2> QED BY <1>5, <2>1, PositionOf
<1>7. Answered(u)
  BY <1>4, <1>6 DEF Answered, AnswerTo, Rank
<1>8. PICK l \in Firsts : Rank(l) = Position(u) /\ KeyOf(u) = NameOf[batch[l]]
  BY <1>6, <1>7, KeyAnswer
<1>9. l = k
  BY <1>4, <1>6, <1>8, RankOnce
<1> QED BY <1>4, <1>6, <1>7, <1>8, <1>9

LEMMA HolderOf ==
    ASSUME batch \in Batches, NEW u \in Items, Answered(u)
    PROVE  Holder(KeyOf(u)) = u /\ KeyOf(u) \in BatchNames
<1>1. PICK k \in Firsts : KeyOf(u) = NameOf[batch[k]]
  BY KeyAnswer
<1>2. KeyOf(u) \in BatchNames
  BY <1>1 DEF BatchNames, Firsts, Items
<1> DEFINE holders == {v \in Items : Answered(v) /\ KeyOf(v) = KeyOf(u)}
<1>3. u \in holders /\ \A v \in holders : v = u
  BY KeyOnce
<1>4. Holder(KeyOf(u)) = CHOOSE v \in holders : TRUE
  BY <1>3 DEF Holder
<1> HIDE DEF holders
<1> QED BY <1>2, <1>3, <1>4

LEMMA HolderType ==
    ASSUME batch \in Batches
    PROVE  [n \in Names |-> Holder(n)] \in [Names -> Uploads \cup {None}]
<1> SUFFICES ASSUME NEW n \in Names PROVE Holder(n) \in Uploads \cup {None}
  OBVIOUS
<1> DEFINE holders == {u \in Items : Answered(u) /\ KeyOf(u) = n}
<1>1. Holder(n) = IF holders = {} THEN None ELSE CHOOSE u \in holders : TRUE
  BY DEF Holder
<1>2. holders \subseteq Uploads
  BY BatchType
<1> HIDE DEF holders
<1> QED BY <1>1, <1>2

-----------------------------------------------------------------------------
(* The steps of the browser.                                               *)

LEMMA BatchMoves ==
    ASSUME Typed, NEW next \in [Items -> Pcs], SetItems(next)
    PROVE  /\ up' \in [Uploads -> Upload]
           /\ \A u \in Items : u \in Uploads /\ up'[u].pc = next[u]
           /\ \A u \in Uploads \ Items : up'[u] = up[u]
<1>1. up \in [Uploads -> Upload] /\ Items \subseteq Uploads
  BY BatchType DEF Typed, UploadsTypeOK
<1>2. \A u \in Items : [up[u] EXCEPT !.pc = next[u]] \in Upload
  <2> SUFFICES ASSUME NEW u \in Items PROVE [up[u] EXCEPT !.pc = next[u]] \in Upload
    OBVIOUS
  <2>1. next[u] \in Pcs /\ up[u] \in Upload
    BY <1>1
  <2> QED BY <2>1 DEF Upload, Pcs
<1>3. up' = [u \in Uploads |-> IF u \in Items THEN [up[u] EXCEPT !.pc = next[u]] ELSE up[u]]
  BY DEF SetItems
<1>4. \A u \in Items : [up[u] EXCEPT !.pc = next[u]].pc = next[u]
  BY <1>1 DEF Upload
<1> QED BY <1>1, <1>2, <1>3, <1>4

LEMMA ReserveBatchStep == ASSUME Typed, ReserveBatch PROVE TypesKept /\ ClientStep
<1> DEFINE next == [u \in Items |-> IF Answered(u) THEN "check" ELSE "ignored"]
           whom == [n \in Names |-> Holder(n)]
<1>0. batch \in Batches
  BY DEF Typed
<1>1. next \in [Items -> Pcs] /\ whom \in [Names -> Uploads \cup {None}] /\ BatchNames \in SUBSET Names
  BY <1>0, PcFacts, HolderType, BatchType
<1>2. /\ \A u \in Items : up[u].pc = "pending"
      /\ ReserveFor(BatchNames, whom) /\ SetItems(next) /\ Quiet
      /\ UNCHANGED <<object, late, flying, crossed, belated>>
  BY DEF ReserveBatch, BatchPending, At
<1>3. /\ up' \in [Uploads -> Upload]
      /\ \A u \in Items : u \in Uploads /\ up'[u].pc = next[u]
      /\ \A u \in Uploads \ Items : up'[u] = up[u]
  BY <1>1, <1>2, BatchMoves
<1>4. TypesKept
  <2>1. row' \in [Names -> Row] /\ owner' \in [Names -> Uploads \cup {None}]
    BY <1>1, <1>2, ReserveType DEF Typed
  <2>2. /\ lost' \in 0..MaxLost /\ kills' \in 0..MaxKills
        /\ cutOff' \subseteq Uploads /\ cutOff \subseteq cutOff'
    BY <1>2 DEF Quiet, Typed, UploadsTypeOK
  <2> QED BY <1>2, <1>3, <2>1, <2>2 DEF TypesKept, ServerTypeOK, UploadsTypeOK, Typed
<1>5. \A u \in Items : Answered(u) => whom[KeyOf(u)] = u /\ KeyOf(u) \in BatchNames
  BY <1>0, <1>1, HolderOf
<1>6. \A u \in Items : Holding(u)' <=> Answered(u)
  BY <1>3 DEF Holding, HoldingPcs
<1>7. \A n \in BatchNames : \E v \in Uploads : Holding(v)' /\ KeyOf(v) = n
  BY <1>0, <1>3, <1>6, EveryNameAnswered
<1> HIDE DEF whom
<1>8. ASSUME NEW u \in Uploads
      PROVE  /\ up'[u].pc \in {"confirm", "uploaded"} => up'[u].pc = up[u].pc
             /\ Holding(u) => Holding(u)'
             /\ Holding(u)' => Holding(u) \/ (KeyOf(u) \in BatchNames /\ whom[KeyOf(u)] = u)
  <2>1. CASE u \in Items
    BY <1>2, <1>3, <1>5, <1>6, <2>1 DEF Holding, HoldingPcs
  <2>2. CASE u \notin Items
    BY <1>3, <2>2 DEF Holding
  <2> QED BY <2>1, <2>2
<1>9. cutOff' = cutOff
  BY <1>2 DEF Quiet
<1>10. Reserve(BatchNames, whom)
  BY <1>1, <1>2, <1>7, <1>8, <1>9 DEF Reserve
<1> QED BY <1>1, <1>4, <1>10 DEF ClientStep

LEMMA BatchExistsStep == ASSUME Typed, BatchExists PROVE TypesKept /\ ClientStep
<1> DEFINE next == [u \in Items |-> "exists"]
<1>1. next \in [Items -> Pcs]
  BY PcFacts
<1>2. /\ \A u \in Items : up[u].pc = "pending"
      /\ SetItems(next) /\ Quiet /\ UNCHANGED serverVars
  BY DEF BatchExists, BatchPending, At
<1>3. /\ up' \in [Uploads -> Upload]
      /\ \A u \in Items : u \in Uploads /\ up'[u].pc = "exists"
      /\ \A u \in Uploads \ Items : up'[u] = up[u]
  BY <1>1, <1>2, BatchMoves
<1>4. TypesKept
  <2>1. /\ lost' \in 0..MaxLost /\ kills' \in 0..MaxKills
        /\ cutOff' \subseteq Uploads /\ cutOff \subseteq cutOff'
    BY <1>2 DEF Quiet, Typed, UploadsTypeOK
  <2>2. ServerTypeOK'
    BY <1>2, ServerStays DEF Typed
  <2> QED BY <1>3, <2>1, <2>2 DEF TypesKept, UploadsTypeOK
<1>5. ASSUME NEW u \in Uploads
      PROVE  /\ Holding(u)' <=> Holding(u)
             /\ up'[u].pc \in {"confirm", "uploaded"} => up'[u].pc = up[u].pc
  <2>1. CASE u \in Items
    BY <1>2, <1>3, <2>1 DEF Holding, HoldingPcs
  <2>2. CASE u \notin Items
    BY <1>3, <2>2 DEF Holding
  <2> QED BY <2>1, <2>2
<1>6. Withdraw
  BY <1>2, <1>5 DEF Withdraw, serverVars
<1> QED BY <1>4, <1>6 DEF ClientStep

LEMMA ReserveBatchFailsStep == ASSUME Typed, ReserveBatchFails PROVE TypesKept /\ ClientStep
<1> DEFINE next == [u \in Items |-> "failed"]
<1>1. next \in [Items -> Pcs] /\ BatchNames \in SUBSET Names /\ Items \in SUBSET Uploads
  BY PcFacts, BatchType DEF Typed
<1>2. /\ \A u \in Items : up[u].pc = "pending"
      /\ ReserveFails(BatchNames) /\ SetItems(next) /\ cutOff' = cutOff \cup Items
      /\ UNCHANGED <<object, owner, late, flying, crossed, belated, lost, kills>>
  BY DEF ReserveBatchFails, BatchPending, At
<1>3. /\ up' \in [Uploads -> Upload]
      /\ \A u \in Items : up'[u].pc = "failed"
      /\ \A u \in Uploads \ Items : up'[u] = up[u]
  BY <1>1, <1>2, BatchMoves
<1>4. \A u \in Items : ~Holding(u) /\ up'[u].pc = "failed"
  BY <1>2, <1>3 DEF Holding, HoldingPcs
<1> QED BY <1>1, <1>2, <1>3, <1>4, ReserveFailsStep

LEMMA ReserveBatchLostStep == ASSUME Typed, ReserveBatchLost PROVE TypesKept /\ ClientStep
<1> DEFINE next == [u \in Items |-> "failed"]
           q == [call |-> "reserve", by |-> batch[1], names |-> BatchNames]
<1>1. /\ next \in [Items -> Pcs] /\ BatchNames \in SUBSET Names /\ Items \in SUBSET Uploads
      /\ batch # <<>> => batch[1] \in Uploads
  BY PcFacts, BatchType DEF Typed
<1>2. /\ \A u \in Items : up[u].pc = "pending"
      /\ SetItems(next) /\ cutOff' = cutOff \cup Items /\ lost < MaxLost /\ lost' = lost + 1
      /\ late' = late \cup {q} /\ batch # <<>>
      /\ UNCHANGED <<row, object, owner, flying, crossed, belated, kills>>
  BY DEF ReserveBatchLost, BatchPending, At
<1>3. /\ up' \in [Uploads -> Upload]
      /\ \A u \in Items : up'[u].pc = "failed"
      /\ \A u \in Uploads \ Items : up'[u] = up[u]
  BY <1>1, <1>2, BatchMoves
<1>4. lost' \in 0..MaxLost
  BY <1>2, CliUploadsAssumption DEF Typed, UploadsTypeOK
<1>5. q \in Request
  BY <1>1, <1>2 DEF Request
<1>6. TypesKept
  BY <1>1, <1>2, <1>3, <1>4, <1>5 DEF TypesKept, ServerTypeOK, UploadsTypeOK, Typed
<1>7. \A n \in q.names : Blamed(n)'
  <2>1. \A n \in BatchNames : \E v \in Items : n = NameOf[v]
    BY DEF BatchNames
  <2>2. \A v \in Items : Leaves(v)'
    BY <1>2 DEF Leaves
  <2> QED BY <1>1, <2>1, <2>2 DEF Blamed
<1>8. ASSUME NEW u \in Uploads
      PROVE  /\ Holding(u)' <=> Holding(u)
             /\ up'[u].pc \in {"confirm", "uploaded"} => up'[u].pc = up[u].pc
  <2>1. CASE u \in Items
    BY <1>2, <1>3, <2>1 DEF Holding, HoldingPcs
  <2>2. CASE u \notin Items
    BY <1>3, <2>2 DEF Holding
  <2> QED BY <2>1, <2>2
<1> HIDE DEF q
<1>9. Withdraw
  BY <1>2, <1>7, <1>8 DEF Withdraw
<1> QED BY <1>6, <1>9 DEF ClientStep

LEMMA CloseTabStep == ASSUME Typed, CloseTab PROVE TypesKept /\ ClientStep
<1> DEFINE us == {u \in Items : up[u].pc \in Working}
           sent == {x \in us : At(x, "put")}
<1>1. us \in SUBSET Uploads
  BY BatchType DEF Typed
<1>2. up' = [u \in Uploads |-> IF u \in us THEN [up[u] EXCEPT !.pc = "killed"] ELSE up[u]]
  BY DEF CloseTab
<1>3. /\ UNCHANGED <<row, object, owner, late, crossed, belated, lost>>
      /\ cutOff' = cutOff \cup us /\ kills' = kills + 1 /\ kills < MaxKills
      /\ flying' = flying \cup {<<u, KeyOf(u)>> : u \in sent}
  BY DEF CloseTab
<1>4. {u \in us : Holding(u)} \subseteq cutOff'
  BY <1>3
<1>5. lost' \in 0..MaxLost /\ kills' \in 0..MaxKills /\ cutOff' \subseteq Uploads /\ cutOff \subseteq cutOff'
  BY <1>1, <1>3, CliUploadsAssumption DEF Typed, UploadsTypeOK
<1>6. sent \subseteq Uploads /\ \A u \in sent : Holding(u) /\ KeyOf(u) \in Names
  BY <1>1, KeyType DEF At, Holding, HoldingPcs, Typed
<1>7. flying \subseteq Uploads \X Names
  BY DEF Typed, ServerTypeOK
<1> HIDE DEF us, sent
<1>8. \A f \in flying' : f \in flying \/ (f[1] \in Uploads /\ Holding(f[1]) /\ f[2] = KeyOf(f[1]))
  BY <1>3, <1>6
<1>9. flying' \subseteq Uploads \X Names
  BY <1>3, <1>6, <1>7
<1> QED BY <1>1, <1>2, <1>3, <1>4, <1>5, <1>8, <1>9, EndWithoutHold

LEMMA WebItemStep == ASSUME Typed, NEW u \in Uploads, ItemStep(u) PROVE TypesKept /\ ClientStep
<1>1. CASE WebCheck(u) \/ PartFails(u) \/ AbortUpload(u)
  <2>1. Holding(u) /\ Quiet /\ UNCHANGED serverVars
    BY <1>1 DEF WebCheck, PartFails, AbortUpload, At, Holding, HoldingPcs
  <2>2. \E pc \in {"put", "abort", "cancel"} : Moves(u, pc)
    BY <1>1, GotoMoves, PcFacts DEF WebCheck, PartFails, AbortUpload, Typed
  <2> QED BY <2>1, <2>2, Aside, PcFacts DEF HoldingPcs, ClientStep
<1>2. CASE CompleteUpload(u)
  <2>1. /\ up[u].pc = "put" /\ Store(u, KeyOf(u)) /\ Moves(u, "confirm") /\ Quiet
        /\ UNCHANGED <<row, owner, late, flying, belated>>
    BY <1>2, GotoMoves, PcFacts DEF CompleteUpload, At, Typed
  <2> QED BY <2>1, PutStep
<1>3. CASE CompletionLost(u)
  <2>1. /\ up[u].pc = "put" /\ Store(u, KeyOf(u)) /\ Moves(u, "failed") /\ CutOff(u)
        /\ UNCHANGED <<row, owner, late, flying, belated>>
    BY <1>3, GotoMoves, PcFacts DEF CompletionLost, At, Typed
  <2> QED BY <2>1, PutStep
<1>4. CASE AbortFails(u)
  <2>1. CutOff(u) /\ UNCHANGED serverVars /\ Moves(u, "failed")
    BY <1>4, GotoMoves, PcFacts DEF AbortFails, Typed
  <2> QED BY <2>1, Aside, PcFacts DEF HoldingPcs, ClientStep
<1>5. CASE WebCancel(u)
  <2>1. /\ up[u].pc = "cancel" /\ Quiet /\ UNCHANGED <<object, owner, late, flying, crossed, belated>>
        /\ row' = IF u \in Uploaders THEN [row EXCEPT ![KeyOf(u)] = CanceledRow(KeyOf(u))] ELSE row
        /\ Moves(u, "failed")
    BY <1>5, GotoMoves, PcFacts DEF WebCancel, At, Typed
  <2> QED BY <2>1, CancelStep
<1>6. CASE WebConfirm(u)
  <2>1. /\ up[u].pc = "confirm" /\ ConfirmBy(u, KeyOf(u)) /\ Moves(u, "uploaded") /\ Quiet
        /\ UNCHANGED <<object, owner, late, flying, belated>>
    BY <1>6, GotoMoves, PcFacts DEF WebConfirm, At, Typed
  <2> QED BY <2>1, ConfirmStep
<1>7. CASE ConfirmRejected(u)
  <2>1. /\ up[u].pc = "confirm" /\ ~Confirms(KeyOf(u)) /\ Moves(u, "failed") /\ Quiet
        /\ UNCHANGED serverVars
    BY <1>7, GotoMoves, PcFacts DEF ConfirmRejected, At, Typed
  <2> QED BY <2>1, Aside, PcFacts DEF HoldingPcs, ClientStep
<1>8. CASE CallFails(u)
  <2>1. CASE Goto(u, "failed") /\ CutOff(u) /\ UNCHANGED serverVars
    <3>1. Moves(u, "failed")
      BY <2>1, GotoMoves, PcFacts DEF Typed
    <3> QED BY <2>1, <3>1, Aside, PcFacts DEF HoldingPcs, ClientStep
  <2>2. CASE ~(Goto(u, "failed") /\ CutOff(u) /\ UNCHANGED serverVars)
    <3>1. \E call \in {"reserve", "confirm", "cancel"}, names \in SUBSET {KeyOf(u)} :
            LoseCall(u, call, names, 1, "failed")
      BY <1>8, <2>2 DEF CallFails, At
    <3> QED BY <3>1, LateCall DEF ClientStep
  <2> QED BY <2>1, <2>2
<1> QED BY <1>1, <1>2, <1>3, <1>4, <1>5, <1>6, <1>7, <1>8 DEF ItemStep

LEMMA WebActions == ASSUME Typed, WebNext PROVE TypesKept /\ ClientStep
<1>1. Items \subseteq Uploads
  BY BatchType DEF Typed
<1> QED BY <1>1, ReserveBatchStep, BatchExistsStep, ReserveBatchFailsStep, ReserveBatchLostStep,
          CloseTabStep, WebItemStep DEF WebNext

-----------------------------------------------------------------------------
(* The steps of the server.                                                *)

LEMMA ArriveType ==
    ASSUME ServerTypeOK, NEW f \in flying, Arrive(f[1], f[2])
    PROVE  ServerTypeOK' /\ f[1] \in Uploads /\ f[2] \in Names
<1>1. f[1] \in Uploads /\ f[2] \in Names
  BY DEF ServerTypeOK
<1>2. object' \in [Names -> Contents \cup {None}] /\ crossed' \subseteq Names
  BY <1>1, StoreType DEF Arrive
<1> QED BY <1>1, <1>2 DEF ServerTypeOK, Arrive

LEMMA LateType ==
    ASSUME ServerTypeOK, NEW q \in late, ProcessLate(q)
    PROVE  ServerTypeOK' /\ q \in Request
<1>1. q \in Request /\ q.names \subseteq Names /\ q.by \in Uploads
  BY DEF ServerTypeOK, Request
<1>2. CASE LateReserve(q)
  <2>1. [n \in Names |-> None] \in [Names -> Uploads \cup {None}]
    OBVIOUS
  <2>2. row' \in [Names -> Row] /\ owner' \in [Names -> Uploads \cup {None}] /\ crossed' = crossed
    <3>1. CASE Reservable(q.names)
      BY <1>2, <2>1, <3>1, ReserveType DEF LateReserve
    <3>2. CASE ~Reservable(q.names)
      BY <1>2, <3>2 DEF LateReserve, ServerTypeOK
    <3> QED BY <1>2, <3>1, <3>2 DEF LateReserve
  <2> QED BY <1>1, <2>2 DEF ServerTypeOK, ProcessLate
<1>3. CASE LateConfirm(q)
  <2>1. row' \in [Names -> Row] /\ owner' = owner /\ crossed' \subseteq Names
    BY <1>1, <1>3, ConfirmType DEF LateConfirm, ServerTypeOK
  <2> QED BY <1>1, <2>1 DEF ServerTypeOK, ProcessLate
<1>4. CASE LateCancel(q)
  <2>1. \A n \in Names : (IF n \in q.names THEN CanceledRow(n) ELSE row[n]) \in Row
    BY RowType
  <2>2. row' \in [Names -> Row] /\ owner' = owner /\ crossed' = crossed
    BY <1>4, <2>1 DEF LateCancel
  <2> QED BY <1>1, <2>2 DEF ServerTypeOK, ProcessLate
<1> QED BY <1>1, <1>2, <1>3, <1>4 DEF ProcessLate

LEMMA OwnStepType ==
    ASSUME ServerTypeOK, NEW n \in Names, Ingest(n) \/ RepairHash(n) \/ TimeOut(n)
    PROVE  ServerTypeOK'
<1>1. row \in [Names -> Row] /\ row[n] \in Row
  BY DEF ServerTypeOK
<1>2. row' \in [Names -> Row]
  <2>1. CASE Ingest(n)
    <3>1. PICK verdict \in {<<"OK", "ended">>, <<"CORRUPTED", "ended">>, <<"CORRUPTED", "failed">>,
                            <<row[n].state, "failed">>} :
            row' = [row EXCEPT ![n].state = verdict[1], ![n].job = verdict[2]]
      BY <2>1 DEF Ingest
    <3>2. row' = [row EXCEPT ![n] = [row[n] EXCEPT !.state = verdict[1], !.job = verdict[2]]]
      BY <1>1, <3>1 DEF Row
    <3>3. verdict[1] \in {"OK", "CORRUPTED", row[n].state} /\ verdict[2] \in {"ended", "failed"}
      OBVIOUS
    <3>4. [row[n] EXCEPT !.state = verdict[1], !.job = verdict[2]] \in Row
      BY <1>1, <3>3 DEF Row
    <3> QED BY <1>1, <3>2, <3>4
  <2>2. CASE RepairHash(n)
    <3>1. row' = [row EXCEPT ![n] = [row[n] EXCEPT !.hash = object[n]]]
      BY <1>1, <2>2 DEF Row, RepairHash
    <3>2. object[n] \in Contents
      BY <2>2 DEF ServerTypeOK, RepairHash
    <3>3. [row[n] EXCEPT !.hash = object[n]] \in Row
      BY <1>1, <3>2 DEF Row
    <3> QED BY <1>1, <3>1, <3>3
  <2>3. CASE TimeOut(n)
    <3>1. row' = [row EXCEPT ![n] = [row[n] EXCEPT !.state = "ERROR"]]
      BY <1>1, <2>3 DEF Row, TimeOut
    <3>2. [row[n] EXCEPT !.state = "ERROR"] \in Row
      BY <1>1 DEF Row
    <3> QED BY <1>1, <3>1, <3>2
  <2> QED BY <2>1, <2>2, <2>3
<1> QED BY <1>2 DEF ServerTypeOK, Ingest, RepairHash, TimeOut

LEMMA ServerActions == ASSUME ServerTypeOK, ServerNext PROVE ServerTypeOK'
  BY ArriveType, LateType, OwnStepType DEF ServerNext

-----------------------------------------------------------------------------
(* The downloads.                                                          *)

LEMMA StoredIsSeq ==
    \A f : f \in Stored <=> f \in Seq(Chunk) /\ Len(f) <= Parts
<1> SUFFICES ASSUME NEW f PROVE f \in Stored <=> f \in Seq(Chunk) /\ Len(f) <= Parts
  OBVIOUS
<1>0. Parts \in Nat
  BY CliDownloadsAssumption
<1>1. ASSUME f \in Stored PROVE f \in Seq(Chunk) /\ Len(f) <= Parts
  <2>1. PICK k \in 0..Parts : f \in [1..k -> Chunk]
    BY <1>1 DEF Stored
  <2>2. k \in Nat /\ f \in Seq(Chunk)
    BY <1>0, <2>1, SeqDef
  <2>3. Len(f) = k
    BY <2>1, <2>2, LenProperties
  <2> QED BY <1>0, <2>1, <2>2, <2>3
<1>2. ASSUME f \in Seq(Chunk), Len(f) <= Parts PROVE f \in Stored
  <2>1. Len(f) \in 0..Parts /\ f \in [1..Len(f) -> Chunk]
    BY <1>0, <1>2, LenProperties
  <2> QED BY <2>1 DEF Stored
<1> QED BY <1>1, <1>2

LEMMA NoFileIsNone == NoFile \notin Stored
  BY CliDownloadsAssumption DEF NoFile

LEMMA WholeIsStored ==
    ASSUME NEW c \in Contents \cup {Own}
    PROVE  Whole(c) \in Stored /\ Len(Whole(c)) = Parts /\ Whole(c) # NoFile
<1>0. Parts \in Nat
  BY CliDownloadsAssumption
<1>1. Whole(c) \in [1..Parts -> Chunk]
  BY DEF Whole, Chunk
<1>2. Whole(c) \in Stored
  BY <1>0, <1>1 DEF Stored
<1>3. Whole(c) \in Seq(Chunk) /\ DOMAIN Whole(c) = 1..Parts
  BY <1>1, <1>2, StoredIsSeq
<1>4. Len(Whole(c)) = Parts
  BY <1>0, <1>3, LenProperties
<1> QED BY <1>2, <1>4, NoFileIsNone

\* What a download that has been connected once has written can be continued.
Resumable(n) ==
    /\ dl[n].pc \in {"connect", "stream"} => dl[n].got < Parts
    /\ dl[n].pc = "connect" =>
        \/ local[n] = NoFile /\ dl[n].got = 0
        \/ local[n] \in Stored /\ Len(local[n]) = dl[n].got
    /\ dl[n].pc = "stream" =>
        local[n] \in Stored /\ Len(local[n]) = dl[n].got /\ dl[n].from \in Contents

\* What is taken will be written from its start, or it is not known what it shall be.
Takeable(n) ==
    dl[n].pc \in {"url", "open"} =>
        \/ dl[n].overwrite \/ local[n] = NoFile
        \/ Len(local[n]) = Parts /\ dl[n].seen.hash = None

DownloadsInv == DownloadsTypeOK /\ \A n \in Names : Resumable(n) /\ Takeable(n)

\* A step for the name n leaves the other files alone.
TurnsTo(n, f, d) ==
    /\ local' = [local EXCEPT ![n] = f] /\ f \in LocalFile
    /\ dl' = [dl EXCEPT ![n] = d] /\ d \in Download

LEMMA TurnKeeps ==
    ASSUME DownloadsInv, NEW n \in Names, NEW f, NEW d, TurnsTo(n, f, d),
           commands' \in [Names -> 0..MaxCommands],
           d.pc \in {"connect", "stream"} => d.got < Parts,
           d.pc = "connect" => (f = NoFile /\ d.got = 0) \/ (f \in Stored /\ Len(f) = d.got),
           d.pc = "stream" => f \in Stored /\ Len(f) = d.got /\ d.from \in Contents,
           d.pc \in {"url", "open"} =>
                d.overwrite \/ f = NoFile \/ (Len(f) = Parts /\ d.seen.hash = None)
    PROVE  DownloadsInv'
<1>1. local \in [Names -> LocalFile] /\ dl \in [Names -> Download]
  BY DEF DownloadsInv, DownloadsTypeOK
<1>2. DownloadsTypeOK'
  BY <1>1 DEF DownloadsTypeOK, TurnsTo
<1>3. local'[n] = f /\ dl'[n] = d
  BY <1>1 DEF TurnsTo
<1>4. Resumable(n)' /\ Takeable(n)'
  BY <1>3 DEF Resumable, Takeable
<1>5. \A m \in Names \ {n} : local'[m] = local[m] /\ dl'[m] = dl[m]
  BY <1>1 DEF TurnsTo
<1>6. \A m \in Names \ {n} : Resumable(m)' /\ Takeable(m)'
  BY <1>5 DEF Resumable, Takeable, DownloadsInv
<1> QED BY <1>2, <1>4, <1>6 DEF DownloadsInv

LEMMA Alone ==
    ASSUME DownloadsInv, NEW n \in Names
    PROVE  /\ local \in [Names -> LocalFile] /\ dl \in [Names -> Download]
           /\ dl[n] \in Download /\ local[n] \in LocalFile
           /\ local[n] # NoFile => local[n] \in Stored /\ Len(local[n]) \in Nat /\ Len(local[n]) <= Parts
           /\ Resumable(n) /\ Takeable(n)
           /\ Parts \in Nat \ {0} /\ MaxRetries \in Nat
<1>1. local[n] \in LocalFile
  BY DEF DownloadsInv, DownloadsTypeOK
<1>2. local[n] # NoFile => local[n] \in Stored
  BY <1>1 DEF LocalFile
<1>3. local[n] # NoFile => Len(local[n]) \in Nat /\ Len(local[n]) <= Parts
  BY <1>2, StoredIsSeq, LenProperties
<1> QED BY <1>2, <1>3, CliDownloadsAssumption DEF DownloadsInv, DownloadsTypeOK

\* A step that goes on without writing.
LEMMA TurnAside ==
    ASSUME DownloadsInv, NEW n \in Names, NEW pc \in {"url", "open", "connect", "check"} \cup Verdicts,
           NEW d, d = [dl[n] EXCEPT !.pc = pc] \/ d = [dl[n] EXCEPT !.pc = pc, !.attempt = dl[n].attempt + 1],
           d.attempt \in 0..MaxRetries,
           Turn(n, d), UNCHANGED local,
           pc \in {"url", "open"} =>
                dl[n].overwrite \/ local[n] = NoFile \/ (Len(local[n]) = Parts /\ dl[n].seen.hash = None),
           pc = "connect" => dl[n].pc \in {"connect", "stream"}
    PROVE  DownloadsInv'
<1>1. dl[n] \in Download /\ local \in [Names -> LocalFile] /\ local[n] \in LocalFile /\ Resumable(n)
  BY Alone
<1>2. /\ d.pc = pc /\ d.overwrite = dl[n].overwrite /\ d.seen = dl[n].seen /\ d.got = dl[n].got
      /\ d.from = dl[n].from
  BY <1>1 DEF Download
<1>3. pc \in {"idle"} \cup Fetching \cup Verdicts
  BY DEF Fetching
<1>4. d \in Download
  BY <1>1, <1>3 DEF Download
<1>5. local' = [local EXCEPT ![n] = local[n]] /\ dl' = [dl EXCEPT ![n] = d]
  BY <1>1 DEF Turn
<1>6. commands' \in [Names -> 0..MaxCommands]
  BY DEF Turn, DownloadsInv, DownloadsTypeOK
<1>7. TurnsTo(n, local[n], d)
  BY <1>1, <1>4, <1>5 DEF TurnsTo
<1>8. pc # "stream"
  BY DEF Verdicts
<1>9. pc = "connect" =>
        /\ dl[n].got < Parts
        /\ (local[n] = NoFile /\ dl[n].got = 0) \/ (local[n] \in Stored /\ Len(local[n]) = dl[n].got)
  BY <1>1 DEF Resumable
<1> QED BY <1>2, <1>6, <1>7, <1>8, <1>9, TurnKeeps

LEMMA GiveUpStep == ASSUME DownloadsInv, NEW n \in Names, GiveUp(n) PROVE DownloadsInv'
<1> DEFINE d == [dl[n] EXCEPT !.pc = "failed"]
<1>1. dl[n] \in Download /\ NoFile \in LocalFile
  BY Alone DEF LocalFile
<1>2. d \in Download /\ d.pc = "failed"
  BY <1>1 DEF Download, Verdicts
<1>3. TurnsTo(n, NoFile, d) /\ commands' \in [Names -> 0..MaxCommands]
  BY <1>1, <1>2 DEF TurnsTo, GiveUp, Turn, DownloadsInv, DownloadsTypeOK
<1> HIDE DEF d
<1> QED BY <1>2, <1>3, TurnKeeps

LEMMA ListStep ==
    ASSUME DownloadsInv, NEW n \in Names, row[n] \in Row, ListFile(n)
    PROVE  DownloadsInv'
<1>1. PICK overwrite \in BOOLEAN :
        dl' = [dl EXCEPT ![n] = [pc |-> "listed", seen |-> row[n], overwrite |-> overwrite,
                                 from |-> None, got |-> 0, attempt |-> 0]]
  BY DEF ListFile
<1> DEFINE d == [pc |-> "listed", seen |-> row[n], overwrite |-> overwrite,
                 from |-> None, got |-> 0, attempt |-> 0]
<1>2. d \in Download /\ d.pc = "listed"
  <2>1. 0 \in 0..Parts /\ 0 \in 0..MaxRetries
    BY Alone
  <2> QED BY <2>1 DEF Download, Fetching
<1>3. local \in [Names -> LocalFile] /\ local[n] \in LocalFile
  BY Alone
<1>4. TurnsTo(n, local[n], d)
  BY <1>1, <1>2, <1>3 DEF TurnsTo, ListFile
<1>5. commands' \in [Names -> 0..MaxCommands]
  <2>1. commands \in [Names -> 0..MaxCommands] /\ MaxCommands \in Nat
    BY CliDownloadsAssumption DEF DownloadsInv, DownloadsTypeOK
  <2>2. commands' = [commands EXCEPT ![n] = commands[n] + 1] /\ commands[n] < MaxCommands
    BY DEF ListFile
  <2>3. commands[n] + 1 \in 0..MaxCommands
    BY <2>1, <2>2
  <2> QED BY <2>1, <2>2, <2>3
<1> HIDE DEF d
<1> QED BY <1>2, <1>4, <1>5, TurnKeeps

LEMMA OpenStep == ASSUME DownloadsInv, NEW n \in Names, OpenFile(n) PROVE DownloadsInv'
<1>1. CASE local[n] # NoFile /\ ~dl[n].overwrite /\ Len(local[n]) = Parts
  BY <1>1, GiveUpStep DEF OpenFile
<1>2. CASE ~(local[n] # NoFile /\ ~dl[n].overwrite /\ Len(local[n]) = Parts)
  <2>1. /\ dl[n] \in Download /\ local \in [Names -> LocalFile] /\ Parts \in Nat \ {0}
        /\ dl[n].overwrite \/ local[n] = NoFile
    BY <1>2, Alone DEF Takeable, OpenFile, Ready
  <2>2. /\ local' = [local EXCEPT ![n] = IF dl[n].overwrite THEN NoFile ELSE local[n]]
        /\ Turn(n, [dl[n] EXCEPT !.pc = "connect",
                                 !.got = IF local'[n] = NoFile THEN 0 ELSE Len(local[n])])
    BY <1>2 DEF OpenFile
  <2>3. local' = [local EXCEPT ![n] = NoFile] /\ local'[n] = NoFile
    BY <2>1, <2>2
  <2> DEFINE d == [dl[n] EXCEPT !.pc = "connect", !.got = 0]
  <2>4. Turn(n, d)
    BY <2>2, <2>3
  <2>5. d \in Download /\ d.pc = "connect" /\ d.got = 0
    <3>1. 0 \in 0..Parts /\ "connect" \in {"idle"} \cup Fetching \cup Verdicts
      BY <2>1 DEF Fetching
    <3> QED BY <2>1, <3>1 DEF Download
  <2>6. TurnsTo(n, NoFile, d) /\ commands' \in [Names -> 0..MaxCommands]
    BY <2>3, <2>4, <2>5 DEF TurnsTo, Turn, LocalFile, DownloadsInv, DownloadsTypeOK
  <2> HIDE DEF d
  <2> QED BY <2>1, <2>5, <2>6, TurnKeeps
<1> QED BY <1>1, <1>2

LEMMA ConnectStep ==
    ASSUME DownloadsInv, NEW n \in Names, object[n] \in Contents \cup {None}, Connect(n)
    PROVE  /\ DownloadsInv'
           /\ dl[n].got = 0 => local' = [local EXCEPT ![n] = <<>>]
           /\ dl[n].got # 0 => local' = local /\ local[n] \in Stored /\ Len(local[n]) = dl[n].got
           /\ dl' = [dl EXCEPT ![n] = [dl[n] EXCEPT !.pc = "stream", !.from = object[n]]]
<1> DEFINE f == IF dl[n].got = 0 THEN <<>> ELSE local[n]
           d == [dl[n] EXCEPT !.pc = "stream", !.from = object[n]]
<1>1. /\ dl[n] \in Download /\ local \in [Names -> LocalFile] /\ Resumable(n) /\ dl[n].pc = "connect"
      /\ Parts \in Nat \ {0}
  BY Alone DEF Connect, Ready
<1>2. <<>> \in Stored /\ Len(<<>>) = 0
  <2>1. <<>> \in Seq(Chunk) /\ Len(<<>>) = 0
    BY EmptySeq
  <2>2. 0 <= Parts
    BY <1>1
  <2>3. Len(<<>>) <= Parts
    BY <2>1, <2>2
  <2> QED BY <2>1, <2>3, StoredIsSeq
<1>3. f \in Stored /\ Len(f) = dl[n].got
  <2>1. CASE dl[n].got = 0
    BY <1>2, <2>1
  <2>2. CASE dl[n].got # 0
    BY <1>1, <2>2 DEF Resumable
  <2> QED BY <2>1, <2>2
<1>4. object[n] \in Contents
  BY DEF Connect
<1>5. d \in Download /\ d.pc = "stream" /\ d.got = dl[n].got /\ d.from = object[n] /\ d.got < Parts
  BY <1>1, <1>4 DEF Download, Fetching, Resumable
<1>6. local' = [local EXCEPT ![n] = f] /\ dl' = [dl EXCEPT ![n] = d]
  BY <1>1 DEF Connect, Turn
<1>7. TurnsTo(n, f, d) /\ commands' \in [Names -> 0..MaxCommands]
  BY <1>3, <1>5, <1>6 DEF TurnsTo, LocalFile, Connect, Turn, DownloadsInv, DownloadsTypeOK
<1>8. dl[n].got # 0 => local' = local
  BY <1>1, <1>6
<1>9. dl[n].got = 0 => local' = [local EXCEPT ![n] = <<>>]
  BY <1>6
<1> QED BY <1>3, <1>4, <1>5, <1>6, <1>7, <1>8, <1>9, TurnKeeps

LEMMA ReceiveStep ==
    ASSUME DownloadsInv, NEW n \in Names, Receive(n)
    PROVE  /\ DownloadsInv'
           /\ local'[n] = Append(local[n], <<dl[n].from, dl[n].got + 1>>)
           /\ local[n] \in Seq(Chunk) /\ Len(local[n]) = dl[n].got /\ dl[n].got \in Nat
           /\ local'[n] \in Seq(Chunk) /\ Len(local'[n]) = dl[n].got + 1
           /\ \A i \in 1..dl[n].got : local'[n][i] = local[n][i]
           /\ local'[n][dl[n].got + 1] = <<dl[n].from, dl[n].got + 1>>
           /\ dl'[n].got = dl[n].got + 1 /\ dl'[n].seen = dl[n].seen /\ dl'[n].from = dl[n].from
           /\ dl'[n].pc = IF dl[n].got + 1 = Parts THEN "check" ELSE "stream"
           /\ \A m \in Names \ {n} : local'[m] = local[m] /\ dl'[m] = dl[m]
<1> DEFINE e == <<dl[n].from, dl[n].got + 1>>
           f == Append(local[n], e)
           pc == IF dl[n].got + 1 = Parts THEN "check" ELSE "stream"
           d == [dl[n] EXCEPT !.got = dl[n].got + 1, !.attempt = 0, !.pc = pc]
<1>1. /\ dl[n] \in Download /\ local \in [Names -> LocalFile] /\ Resumable(n) /\ dl[n].pc = "stream"
      /\ Parts \in Nat \ {0} /\ MaxRetries \in Nat /\ dl \in [Names -> Download]
  BY Alone DEF Receive, Ready
<1>2. /\ dl[n].got < Parts /\ local[n] \in Stored /\ Len(local[n]) = dl[n].got
      /\ dl[n].from \in Contents /\ dl[n].got \in Nat
  BY <1>1 DEF Resumable, Download
<1>3. local[n] \in Seq(Chunk)
  BY <1>2, StoredIsSeq
<1>4. e \in Chunk
  BY <1>1, <1>2 DEF Chunk
<1>5. /\ f \in Seq(Chunk) /\ Len(f) = dl[n].got + 1 /\ f[dl[n].got + 1] = e
      /\ \A i \in 1..dl[n].got : f[i] = local[n][i]
  BY <1>2, <1>3, <1>4, AppendProperties
<1>6. f \in Stored
  <2>1. dl[n].got + 1 <= Parts
    BY <1>1, <1>2
  <2> QED BY <1>5, <2>1, StoredIsSeq
<1>7. d \in Download /\ d.pc = pc /\ d.got = dl[n].got + 1 /\ d.from = dl[n].from /\ d.seen = dl[n].seen
  <2>1. dl[n].got + 1 \in 0..Parts /\ 0 \in 0..MaxRetries
    BY <1>1, <1>2
  <2>2. pc \in {"idle"} \cup Fetching \cup Verdicts
    BY DEF Fetching
  <2> HIDE DEF pc
  <2> QED BY <1>1, <2>1, <2>2 DEF Download
<1>8. local' = [local EXCEPT ![n] = f] /\ dl' = [dl EXCEPT ![n] = d]
  BY <1>1 DEF Receive, Turn
<1>9. TurnsTo(n, f, d) /\ commands' \in [Names -> 0..MaxCommands]
  BY <1>6, <1>7, <1>8 DEF TurnsTo, LocalFile, Receive, Turn, DownloadsInv, DownloadsTypeOK
<1>10. pc = "stream" => d.got < Parts
  BY <1>1, <1>2, <1>7
<1> HIDE DEF f, d, e
<1>11. DownloadsInv'
  BY <1>2, <1>5, <1>6, <1>7, <1>9, <1>10, TurnKeeps
<1>12. local'[n] = f /\ dl'[n] = d /\ \A m \in Names \ {n} : local'[m] = local[m] /\ dl'[m] = dl[m]
  BY <1>1, <1>8
<1> QED BY <1>2, <1>3, <1>5, <1>7, <1>11, <1>12 DEF f, e

LEMMA BreaksStep == ASSUME DownloadsInv, NEW n \in Names, Breaks(n) PROVE DownloadsInv'
<1>1. CASE dl[n].attempt = MaxRetries
  BY <1>1, GiveUpStep DEF Breaks
<1>2. CASE dl[n].attempt # MaxRetries
  <2> DEFINE d == [dl[n] EXCEPT !.pc = "connect", !.attempt = dl[n].attempt + 1]
  <2>1. Turn(n, d) /\ UNCHANGED local /\ dl[n].pc \in {"connect", "stream"}
    BY <1>2 DEF Breaks, Ready
  <2>2. dl[n].attempt + 1 \in 0..MaxRetries
    BY <1>2, Alone DEF Download
  <2>3. d.attempt = dl[n].attempt + 1
    BY Alone DEF Download
  <2> HIDE DEF d
  <2>4. d = [dl[n] EXCEPT !.pc = "connect", !.attempt = dl[n].attempt + 1]
    BY DEF d
  <2> QED BY <2>1, <2>2, <2>3, <2>4, TurnAside
<1> QED BY <1>1, <1>2

LEMMA DownloadActions ==
    ASSUME DownloadsInv, row \in [Names -> Row], object \in [Names -> Contents \cup {None}],
           NEW n \in Names, DownloadStep(n)
    PROVE  DownloadsInv'
<1>0. dl[n] \in Download /\ dl[n].attempt \in 0..MaxRetries
  BY Alone DEF Download
<1>1. ASSUME NEW pc \in {"skipped", "url", "open", "failed", "invalidHash", "downloaded", "killed"},
             Turn(n, [dl[n] EXCEPT !.pc = pc]), UNCHANGED local,
             pc = "url" => Ready(n, "listed") /\ ~KeepsLocal(n),
             pc = "open" => Ready(n, "url")
      PROVE  DownloadsInv'
  <2> DEFINE d == [dl[n] EXCEPT !.pc = pc]
  <2>1. d.attempt \in 0..MaxRetries
    BY <1>0 DEF Download
  <2>2. pc \in {"url", "open"} =>
          dl[n].overwrite \/ local[n] = NoFile \/ (Len(local[n]) = Parts /\ dl[n].seen.hash = None)
    <3>1. CASE pc = "url"
      BY <1>1, <3>1 DEF KeepsLocal
    <3>2. CASE pc = "open"
      BY <1>1, <3>2, Alone DEF Ready, Takeable
    <3> QED BY <3>1, <3>2
  <2>3. pc \in {"url", "open", "connect", "check"} \cup Verdicts /\ pc # "connect"
    BY DEF Verdicts
  <2>4. d = [dl[n] EXCEPT !.pc = pc]
    OBVIOUS
  <2>5. Turn(n, d)
    BY <1>1
  <2> HIDE DEF d
  <2> QED BY <1>1, <2>1, <2>2, <2>3, <2>4, <2>5, TurnAside
<1>2. CASE ListFile(n)
  BY <1>2, ListStep
<1>3. CASE SkipFile(n)
  BY <1>1, <1>3 DEF SkipFile
<1>4. CASE TakeFile(n)
  BY <1>1, <1>4 DEF TakeFile
<1>5. CASE GetUrl(n)
  BY <1>1, <1>5 DEF GetUrl
<1>6. CASE OpenFile(n)
  BY <1>6, OpenStep
<1>7. CASE Connect(n)
  BY <1>7, ConnectStep
<1>8. CASE Receive(n)
  BY <1>8, ReceiveStep
<1>9. CASE Breaks(n)
  BY <1>9, BreaksStep
<1>10. CASE CheckHash(n)
  BY <1>1, <1>10 DEF CheckHash
<1>11. CASE KillDownload(n)
  BY <1>1, <1>11 DEF KillDownload
<1> QED BY <1>2, <1>3, <1>4, <1>5, <1>6, <1>7, <1>8, <1>9, <1>10, <1>11 DEF DownloadStep

LEMMA DownloadsStay == ASSUME DownloadsInv, UNCHANGED downloadVars PROVE DownloadsInv'
  BY DEF DownloadsInv, DownloadsTypeOK, Resumable, Takeable, downloadVars

-----------------------------------------------------------------------------
(* Type correctness.                                                       *)

TypeInv == ServerTypeOK /\ UploadsTypeOK /\ DownloadsInv /\ batch \in Batches /\ wanted \subseteq Names

LEMMA InitTypes == TransferInit => TypeInv
<1> SUFFICES ASSUME TransferInit PROVE TypeInv
  OBVIOUS
<1>1. PICK p \in Plans : /\ batch = p.batch /\ wanted = p.downloads
                         /\ DownloadsInit(p.downloads)
                         /\ UploadsInit(p.files \cup {p.batch[i] : i \in DOMAIN p.batch})
  BY DEF TransferInit
<1>2. batch \in Batches /\ wanted \subseteq Names
  BY <1>1, PlansAssumption
<1>3. ServerTypeOK
  <2>1. PICK imported \in {{}} \cup {{n} : n \in Names} :
        /\ row = [n \in Names |-> IF n \in imported THEN [state |-> "OK", hash |-> None, job |-> "ended"]
                                  ELSE NoRow]
        /\ object = [n \in Names |-> IF n \in imported THEN Legacy ELSE None]
    BY DEF TransferInit, ServerInit
  <2>2. NoRow \in Row /\ [state |-> "OK", hash |-> None, job |-> "ended"] \in Row
    BY DEF NoRow, Row
  <2>3. row \in [Names -> Row]
    BY <2>1, <2>2
  <2>4. object \in [Names -> Contents \cup {None}]
    BY <2>1, ServerConstants
  <2> QED BY <2>3, <2>4 DEF ServerTypeOK, TransferInit, ServerInit
<1>4. UploadsTypeOK
  <2> DEFINE files == p.files \cup {p.batch[i] : i \in DOMAIN p.batch}
  <2>1. up = [u \in Uploads |-> [pc |-> IF u \in files THEN "pending" ELSE "absent",
                                attempt |-> 1, try |-> 1, full |-> FALSE]]
    BY <1>1 DEF UploadsInit
  <2>2. 1 \in 1..MaxUploadRetries /\ 0 \in 0..MaxLost /\ 0 \in 0..MaxKills
    BY CliUploadsAssumption
  <2> HIDE DEF files
  <2>3. up \in [Uploads -> Upload]
    BY <2>1, <2>2 DEF Upload
  <2> QED BY <1>1, <2>2, <2>3 DEF UploadsTypeOK, UploadsInit
<1>5. DownloadsInv
  <2> DEFINE d == [pc |-> "idle", seen |-> NoRow, overwrite |-> FALSE, from |-> None,
                   got |-> 0, attempt |-> 0]
  <2>1. PICK f \in {NoFile, Whole(Own), Whole(Legacy)} :
            local = [n \in Names |-> IF n \in p.downloads THEN f ELSE NoFile]
    BY <1>1 DEF DownloadsInit
  <2>2. f \in LocalFile
    BY WholeIsStored, ServerConstants DEF LocalFile
  <2>3. local \in [Names -> LocalFile]
    BY <2>1, <2>2 DEF LocalFile
  <2>4. d \in Download /\ d.pc = "idle"
    <3>1. 0 \in 0..Parts /\ 0 \in 0..MaxRetries
      BY CliDownloadsAssumption
    <3> QED BY <3>1 DEF Download, NoRow, Row
  <2>5. dl = [n \in Names |-> d]
    BY <1>1 DEF DownloadsInit
  <2>6. commands \in [Names -> 0..MaxCommands]
    BY <1>1, CliDownloadsAssumption DEF DownloadsInit
  <2> HIDE DEF d
  <2>7. \A n \in Names : dl[n].pc = "idle"
    BY <2>4, <2>5
  <2>8. \A n \in Names : Resumable(n) /\ Takeable(n)
    BY <2>7 DEF Resumable, Takeable
  <2> QED BY <2>3, <2>4, <2>5, <2>6, <2>8 DEF DownloadsInv, DownloadsTypeOK
<1> QED BY <1>2, <1>3, <1>4, <1>5 DEF TypeInv

\* Whatever happens happens to one part of the system: a client that uploads, the
\* server, or a download.
LEMMA NextTypes ==
    ASSUME TypeInv, [TransferNext]_transferVars
    PROVE  /\ TypeInv' /\ batch' = batch
           /\ \/ UNCHANGED transferVars
              \/ ClientStep /\ cutOff \subseteq cutOff' /\ UNCHANGED downloadVars
              \/ ServerNext /\ UNCHANGED <<uploadVars, downloadVars>>
              \/ /\ \E n \in Names : DownloadStep(n)
                 /\ UNCHANGED <<serverVars, uploadVars>>
<1>1. CASE UNCHANGED transferVars
  <2>1. UNCHANGED serverVars /\ UNCHANGED uploadVars /\ UNCHANGED downloadVars /\ UNCHANGED <<batch, wanted>>
    BY <1>1 DEF transferVars
  <2>2. ServerTypeOK' /\ DownloadsInv'
    BY <2>1, ServerStays, DownloadsStay DEF TypeInv
  <2> QED BY <1>1, <2>1, <2>2 DEF TypeInv, UploadsTypeOK, uploadVars
<1>2. ASSUME CliNext \/ WebNext, UNCHANGED <<downloadVars, batch, wanted>>
      PROVE  TypeInv' /\ batch' = batch /\ ClientStep /\ cutOff \subseteq cutOff' /\ UNCHANGED downloadVars
  <2>1. Typed
    BY <1>2 DEF TypeInv, Typed
  <2>2. TypesKept /\ ClientStep
    BY <1>2, <2>1, CliActions, WebActions
  <2>3. DownloadsInv'
    BY <1>2, DownloadsStay DEF TypeInv
  <2> QED BY <1>2, <2>2, <2>3 DEF TypeInv, TypesKept
<1>3. CASE ServerNext /\ UNCHANGED <<uploadVars, downloadVars, batch, wanted>>
  <2>1. ServerTypeOK' /\ DownloadsInv'
    BY <1>3, ServerActions, DownloadsStay DEF TypeInv
  <2> QED BY <1>3, <2>1 DEF TypeInv, UploadsTypeOK, uploadVars
<1>4. CASE (\E n \in wanted : DownloadStep(n)) /\ UNCHANGED <<serverVars, uploadVars, batch, wanted>>
  <2>1. PICK n \in Names : DownloadStep(n)
    BY <1>4 DEF TypeInv
  <2>2. DownloadsInv'
    BY <2>1, DownloadActions DEF TypeInv, ServerTypeOK
  <2>3. ServerTypeOK'
    BY <1>4, ServerStays DEF TypeInv
  <2> QED BY <1>4, <2>1, <2>2, <2>3 DEF TypeInv, UploadsTypeOK, uploadVars
<1> QED BY <1>1, <1>2, <1>3, <1>4 DEF TransferNext

\* The rows, the uploads and the local files are always of their types: no retry
\* exceeds its number, and a download never writes more than the file has.
THEOREM TransferTypeCorrect == TransferSpec => []TransferTypeOK
<1>1. TypeInv => TransferTypeOK
  BY DEF TypeInv, DownloadsInv, TransferTypeOK
<1>2. TypeInv /\ [TransferNext]_transferVars => TypeInv'
  BY NextTypes
<1> QED BY <1>1, <1>2, InitTypes, PTL DEF TransferSpec

-----------------------------------------------------------------------------
(* What the user had.                                                      *)

LEMMA OthersAlone ==
    ASSUME DownloadsInv, NEW m \in Names, DownloadStep(m), NEW n \in Names, n # m
    PROVE  local'[n] = local[n] /\ dl'[n] = dl[n]
<1>1. local \in [Names -> LocalFile] /\ dl \in [Names -> Download]
  BY Alone
<1>2. \E f : local' = [local EXCEPT ![m] = f]
  <2>1. local' = local \/ GiveUp(m) \/ \E f : local' = [local EXCEPT ![m] = f]
    BY DEF DownloadStep, ListFile, SkipFile, TakeFile, GetUrl, OpenFile, Connect, Receive, Breaks,
           CheckHash, KillDownload
  <2>2. local' = local => local' = [local EXCEPT ![m] = local[m]]
    BY <1>1
  <2> QED BY <2>1, <2>2 DEF GiveUp
<1>3. \E d : dl' = [dl EXCEPT ![m] = d]
  BY DEF DownloadStep, ListFile, SkipFile, TakeFile, GetUrl, OpenFile, Connect, Receive, Breaks,
         CheckHash, KillDownload, GiveUp, Turn
<1> QED BY <1>1, <1>2, <1>3

LEMMA OwnFileStays ==
    ASSUME DownloadsInv, NEW m \in Names, DownloadStep(m), NEW n \in Names,
           local[n] = Whole(Own), ~dl[n].overwrite, dl[n].seen.hash # None
    PROVE  local'[n] = local[n]
<1>1. Len(local[n]) = Parts /\ local[n] # NoFile
  BY WholeIsStored
<1>2. dl[n].pc # "open"
  BY <1>1, Alone DEF Takeable
<1>3. dl[n].pc # "connect" /\ dl[n].pc # "stream"
  <2>1. Resumable(n) /\ Parts \in Nat /\ (dl[n].pc \in {"connect", "stream"} => dl[n].got < Parts)
    BY Alone DEF Resumable
  <2> QED BY <1>1, <2>1 DEF Resumable
<1>4. CASE m # n
  BY <1>4, OthersAlone
<1>5. CASE m = n
  BY <1>2, <1>3, <1>5 DEF DownloadStep, ListFile, SkipFile, TakeFile, GetUrl, OpenFile, Connect, Receive,
                          Breaks, CheckHash, KillDownload, Ready
<1> QED BY <1>4, <1>5

\* Without --overwrite a file of the user is never touched once the server has a
\* hash to tell it from its own, whatever happens to the download.
THEOREM LocalFilesAreKept == TransferSpec => LocalFilesKept
<1>1. TypeInv /\ [TransferNext]_transferVars =>
        [\A n \in Names :
            local[n] = Whole(Own) /\ ~dl[n].overwrite /\ dl[n].seen.hash # None
                => local'[n] = local[n]]_transferVars
  <2> SUFFICES ASSUME TypeInv, [TransferNext]_transferVars, NEW n \in Names,
                      local[n] = Whole(Own), ~dl[n].overwrite, dl[n].seen.hash # None
               PROVE  local'[n] = local[n]
    OBVIOUS
  <2>1. UNCHANGED downloadVars \/ \E m \in Names : DownloadStep(m)
    <3>1. UNCHANGED transferVars => UNCHANGED downloadVars
      BY DEF transferVars
    <3> QED BY <3>1, NextTypes
  <2>2. CASE UNCHANGED downloadVars
    BY <2>2 DEF downloadVars
  <2>3. ASSUME NEW m \in Names, DownloadStep(m)
        PROVE  local'[n] = local[n]
    BY <2>3, OwnFileStays DEF TypeInv
  <2> QED BY <2>1, <2>2, <2>3
<1>2. TypeInv /\ [TransferNext]_transferVars => TypeInv'
  BY NextTypes
<1> QED BY <1>1, <1>2, InitTypes, PTL DEF TransferSpec, LocalFilesKept

-----------------------------------------------------------------------------
(* What a step does to a name.                                             *)

\* The row is written by a request, by the ingestion or by a cleanup.
RowStep(n) ==
    \/ row'[n] = row[n]
    \/ /\ row[n].state \in {"none", "CANCELED"}
       /\ \E state \in {"UPLOADING", "CANCELED"} : row'[n] = Reserved(n, state)
    \/ row'[n] = CanceledRow(n)
    \/ Confirms(n) /\ \E u \in Uploads : row'[n] = ConfirmedRow(n, u)
    \/ /\ row[n].job = "waiting"
       /\ \E state \in {"OK", "CORRUPTED", row[n].state}, job \in {"ended", "failed"} :
            row'[n] = [row[n] EXCEPT !.state = state, !.job = job]
    \/ row[n].state # "none" /\ object[n] # None /\ row'[n] = [row[n] EXCEPT !.hash = object[n]]
    \/ row[n].state = "UPLOADING" /\ row'[n] = [row[n] EXCEPT !.state = "ERROR"]

\* The object is written by somebody who has the name, or had it.
ObjectStep(n) ==
    \/ object'[n] = object[n]
    \/ \E u \in Uploads : /\ (Holding(u) /\ KeyOf(u) = n) \/ <<u, n>> \in flying
                          /\ object'[n] = u

FlyStep ==
    \A f \in flying' : f \in flying \/ (f[1] \in Uploads /\ Holding(f[1]) /\ f[2] = KeyOf(f[1]))

HoldStep == \A u \in Uploads :
    Holding(u)' => Holding(u) \/ row[KeyOf(u)].state \in {"none", "CANCELED"}

StepFacts == FlyStep /\ HoldStep /\ \A n \in Names : RowStep(n) /\ ObjectStep(n)

LEMMA StoreFacts ==
    ASSUME ServerTypeOK, NEW u \in Uploads, NEW k \in Names, Store(u, k),
           (Holding(u) /\ KeyOf(u) = k) \/ <<u, k>> \in flying, NEW n \in Names
    PROVE  ObjectStep(n)
  BY DEF ObjectStep, Store, ServerTypeOK

LEMMA ReserveFacts ==
    ASSUME NEW names, NEW whom, ReserveFor(names, whom), NEW n \in Names
    PROVE  RowStep(n) /\ (n \in names => row[n].state \in {"none", "CANCELED"})
<1>1. CASE n \in names
  BY <1>1 DEF ReserveFor, RowStep, Reservable
<1>2. CASE n \notin names
  BY <1>2 DEF ReserveFor, RowStep
<1> QED BY <1>1, <1>2

LEMMA ReserveFailsFacts == ASSUME NEW names, ReserveFails(names), NEW n \in Names PROVE RowStep(n)
<1>1. CASE UNCHANGED row
  BY <1>1 DEF RowStep
<1>2. CASE ~UNCHANGED row /\ n \in names
  BY <1>2 DEF ReserveFails, RowStep, Reservable
<1>3. CASE ~UNCHANGED row /\ n \notin names
  BY <1>3 DEF ReserveFails, RowStep
<1> QED BY <1>1, <1>2, <1>3

LEMMA ConfirmFacts ==
    ASSUME ServerTypeOK, NEW u \in Uploads, NEW k \in Names, ConfirmBy(u, k), NEW n \in Names
    PROVE  RowStep(n)
<1>1. row \in [Names -> Row]
  BY DEF ServerTypeOK
<1>2. CASE n = k
  BY <1>1, <1>2 DEF ConfirmBy, RowStep
<1>3. CASE n # k
  BY <1>1, <1>3 DEF ConfirmBy, RowStep
<1> QED BY <1>2, <1>3

LEMMA CancelFacts ==
    ASSUME ServerTypeOK, NEW k \in Names, row' = [row EXCEPT ![k] = CanceledRow(k)], NEW n \in Names
    PROVE  RowStep(n)
<1>1. row \in [Names -> Row]
  BY DEF ServerTypeOK
<1>2. CASE n = k
  BY <1>1, <1>2 DEF RowStep
<1>3. CASE n # k
  BY <1>1, <1>3 DEF RowStep
<1> QED BY <1>2, <1>3

LEMMA QuietFacts ==
    ASSUME row' = row, object' = object, NEW n \in Names
    PROVE  RowStep(n) /\ ObjectStep(n)
  BY DEF RowStep, ObjectStep

LEMMA ClientFacts ==
    ASSUME TypeInv, batch' = batch, ClientStep
    PROVE  StepFacts
<1>0. \A u \in Uploads : KeyOf(u) \in Names
  BY KeyType DEF TypeInv
<1>1. CASE Withdraw
  BY <1>1, QuietFacts DEF StepFacts, Withdraw, FlyStep, HoldStep
<1>2. ASSUME NEW names \in SUBSET Names, NEW whom \in [Names -> Uploads \cup {None}], Reserve(names, whom)
      PROVE  StepFacts
  <2>1. FlyStep /\ \A n \in Names : ObjectStep(n)
    BY <1>2 DEF Reserve, FlyStep, ObjectStep
  <2>2. \A n \in Names : RowStep(n) /\ (n \in names => row[n].state \in {"none", "CANCELED"})
    BY <1>2, ReserveFacts DEF Reserve
  <2>3. HoldStep
    BY <1>0, <1>2, <2>2 DEF Reserve, HoldStep
  <2> QED BY <2>1, <2>2, <2>3 DEF StepFacts
<1>3. ASSUME NEW names \in SUBSET Names, ReserveInVain(names)
      PROVE  StepFacts
  <2>1. FlyStep /\ HoldStep /\ \A n \in Names : ObjectStep(n)
    BY <1>3 DEF ReserveInVain, FlyStep, HoldStep, ObjectStep
  <2>2. \A n \in Names : RowStep(n)
    BY <1>3, ReserveFailsFacts DEF ReserveInVain
  <2> QED BY <2>1, <2>2 DEF StepFacts
<1>4. ASSUME NEW u \in Uploads, StoreFile(u)
      PROVE  StepFacts
  <2>1. FlyStep /\ Holding(u) /\ \A n \in Names : RowStep(n)
    BY <1>4 DEF StoreFile, FlyStep, RowStep, Holding, HoldingPcs
  <2>2. \A n \in Names : ObjectStep(n)
    BY <1>0, <1>4, <2>1, StoreFacts DEF StoreFile, TypeInv
  <2>3. HoldStep
    BY <1>4, <2>1 DEF StoreFile, HoldStep, Moves, Holding
  <2> QED BY <2>1, <2>2, <2>3 DEF StepFacts
<1>5. ASSUME NEW u \in Uploads, GiveBack(u)
      PROVE  StepFacts
  <2>1. FlyStep /\ \A n \in Names : ObjectStep(n)
    BY <1>5 DEF GiveBack, FlyStep, ObjectStep
  <2>2. \A n \in Names : RowStep(n)
    <3>1. CASE u \in Uploaders
      BY <1>0, <1>5, <3>1, CancelFacts DEF GiveBack, TypeInv
    <3>2. CASE u \notin Uploaders
      BY <1>5, <3>2 DEF GiveBack, RowStep
    <3> QED BY <3>1, <3>2
  <2>3. HoldStep
    BY <1>5 DEF GiveBack, HoldStep, Moves, Holding, HoldingPcs
  <2> QED BY <2>1, <2>2, <2>3 DEF StepFacts
<1>6. ASSUME NEW u \in Uploads, Confirm(u)
      PROVE  StepFacts
  <2>1. FlyStep /\ \A n \in Names : ObjectStep(n)
    BY <1>6 DEF Confirm, FlyStep, ObjectStep
  <2>2. \A n \in Names : RowStep(n)
    BY <1>0, <1>6, ConfirmFacts DEF Confirm, TypeInv
  <2>3. HoldStep
    BY <1>6 DEF Confirm, HoldStep, Moves, Holding, HoldingPcs
  <2> QED BY <2>1, <2>2, <2>3 DEF StepFacts
<1> QED BY <1>1, <1>2, <1>3, <1>4, <1>5, <1>6 DEF ClientStep

LEMMA OwnStepFacts ==
    ASSUME ServerTypeOK, NEW k \in Names, Ingest(k) \/ RepairHash(k) \/ TimeOut(k), NEW n \in Names
    PROVE  RowStep(n)
<1>1. row \in [Names -> Row] /\ row[k] \in Row
  BY DEF ServerTypeOK
<1>2. CASE n # k
  BY <1>1, <1>2 DEF RowStep, Ingest, RepairHash, TimeOut
<1>3. CASE n = k /\ Ingest(k)
  <2>1. PICK verdict \in {<<"OK", "ended">>, <<"CORRUPTED", "ended">>, <<"CORRUPTED", "failed">>,
                          <<row[k].state, "failed">>} :
          row' = [row EXCEPT ![k].state = verdict[1], ![k].job = verdict[2]]
    BY <1>3 DEF Ingest
  <2>2. row'[k] = [row[k] EXCEPT !.state = verdict[1], !.job = verdict[2]]
    BY <1>1, <2>1 DEF Row
  <2>3. verdict[1] \in {"OK", "CORRUPTED", row[k].state} /\ verdict[2] \in {"ended", "failed"}
    OBVIOUS
  <2> QED BY <1>3, <2>2, <2>3 DEF RowStep, Ingest
<1>4. CASE n = k /\ RepairHash(k)
  <2>1. row'[k] = [row[k] EXCEPT !.hash = object[k]]
    BY <1>1, <1>4 DEF RepairHash, Row
  <2> QED BY <1>4, <2>1 DEF RowStep, RepairHash
<1>5. CASE n = k /\ TimeOut(k)
  <2>1. row'[k] = [row[k] EXCEPT !.state = "ERROR"]
    BY <1>1, <1>5 DEF TimeOut, Row
  <2> QED BY <1>5, <2>1 DEF RowStep, TimeOut
<1> QED BY <1>2, <1>3, <1>4, <1>5

LEMMA LateFacts ==
    ASSUME ServerTypeOK, NEW q \in late, ProcessLate(q), NEW n \in Names
    PROVE  RowStep(n)
<1>1. q.by \in Uploads /\ q.names \subseteq Names
  BY LateType DEF Request
<1>2. CASE LateReserve(q)
  <2>1. CASE Reservable(q.names)
    BY <1>2, <2>1, ReserveFacts DEF LateReserve
  <2>2. CASE ~Reservable(q.names)
    BY <1>2, <2>2 DEF LateReserve, RowStep
  <2> QED BY <2>1, <2>2
<1>3. CASE LateConfirm(q)
  <2>1. row' = row \/ \E k \in q.names : ConfirmBy(q.by, k)
    BY <1>3 DEF LateConfirm
  <2>2. row' = row => RowStep(n)
    BY DEF RowStep
  <2> QED BY <1>1, <2>1, <2>2, ConfirmFacts
<1>4. CASE LateCancel(q)
  BY <1>4 DEF LateCancel, RowStep
<1> QED BY <1>2, <1>3, <1>4 DEF ProcessLate

LEMMA ServerFacts ==
    ASSUME TypeInv, batch' = batch, ServerNext, UNCHANGED uploadVars
    PROVE  StepFacts
<1>1. HoldStep
  BY DEF HoldStep, Holding, uploadVars
<1>2. ASSUME NEW f \in flying, Arrive(f[1], f[2])
      PROVE  StepFacts
  <2>1. f[1] \in Uploads /\ f[2] \in Names
    BY <1>2, ArriveType DEF TypeInv
  <2>2. /\ <<f[1], f[2]>> \in flying /\ Store(f[1], f[2]) /\ row' = row
        /\ flying' \subseteq flying
    BY <1>2 DEF Arrive
  <2>3. FlyStep /\ \A n \in Names : RowStep(n)
    BY <2>2 DEF FlyStep, RowStep
  <2>4. \A n \in Names : ObjectStep(n)
    BY <2>1, <2>2, StoreFacts DEF TypeInv
  <2> QED BY <1>1, <2>3, <2>4 DEF StepFacts
<1>3. ASSUME NEW q \in late, ProcessLate(q)
      PROVE  StepFacts
  <2>1. FlyStep /\ \A n \in Names : ObjectStep(n)
    BY <1>3 DEF ProcessLate, FlyStep, ObjectStep
  <2>2. \A n \in Names : RowStep(n)
    BY <1>3, LateFacts DEF TypeInv
  <2> QED BY <1>1, <2>1, <2>2 DEF StepFacts
<1>4. ASSUME NEW k \in Names, Ingest(k) \/ RepairHash(k) \/ TimeOut(k)
      PROVE  StepFacts
  <2>1. FlyStep /\ \A n \in Names : ObjectStep(n)
    BY <1>4 DEF Ingest, RepairHash, TimeOut, FlyStep, ObjectStep
  <2>2. \A n \in Names : RowStep(n)
    BY <1>4, OwnStepFacts DEF TypeInv
  <2> QED BY <1>1, <2>1, <2>2 DEF StepFacts
<1> QED BY <1>2, <1>3, <1>4 DEF ServerNext

LEMMA AllFacts ==
    ASSUME TypeInv, [TransferNext]_transferVars
    PROVE  StepFacts
<1>1. ASSUME UNCHANGED <<serverVars, uploadVars>> PROVE StepFacts
  BY <1>1, QuietFacts DEF StepFacts, FlyStep, HoldStep, Holding, serverVars, uploadVars
<1>2. UNCHANGED transferVars => UNCHANGED <<serverVars, uploadVars>>
  BY DEF transferVars
<1> QED BY <1>1, <1>2, NextTypes, ClientFacts, ServerFacts

-----------------------------------------------------------------------------
(* Downloads are whole.                                                    *)

\* An imported file, and nobody can write over it.
Imported(n) ==
    /\ row[n].state = "OK" /\ row[n].job = "ended" /\ object[n] = Legacy
    /\ \A f \in flying : f[2] # n
    /\ \A u \in Uploads : Holding(u) => KeyOf(u) # n

\* Every other file that can be downloaded has got a hash when it was confirmed.
Hashed(n) ==
    /\ row[n].hash = None => row[n].job = "none"
    /\ row[n].job = "none" => row[n].state \notin {"OK", "CORRUPTED"}
    /\ row[n].state = "none" => row[n].job = "none"

RowsInv == \A n \in Names : Imported(n) \/ Hashed(n)

LEMMA ImportedStays ==
    ASSUME TypeInv, batch' = batch, StepFacts, NEW n \in Names, Imported(n)
    PROVE  Imported(n)'
<1>0. row[n] \in Row
  BY DEF TypeInv, ServerTypeOK
<1>1. RowStep(n) /\ ObjectStep(n) /\ FlyStep /\ HoldStep
  BY DEF StepFacts
<1>2. row'[n].state = "OK" /\ row'[n].job = "ended"
  <2>1. row'[n] = row[n] \/ row'[n] = CanceledRow(n) \/ (\E u \in Uploads : row'[n] = ConfirmedRow(n, u))
        \/ row'[n] = [row[n] EXCEPT !.hash = object[n]]
    BY <1>1 DEF RowStep, Imported
  <2> QED BY <1>0, <2>1 DEF Imported, CanceledRow, ConfirmedRow, Row
<1>3. object'[n] = Legacy
  <2>1. ASSUME NEW u \in Uploads, <<u, n>> \in flying PROVE FALSE
    BY <2>1 DEF Imported
  <2> QED BY <1>1, <2>1 DEF ObjectStep, Imported
<1>4. \A f \in flying' : f[2] # n
  BY <1>1 DEF FlyStep, Imported
<1>5. ASSUME NEW u \in Uploads, Holding(u)' PROVE KeyOf(u)' # n
  <2>1. KeyOf(u)' = KeyOf(u)
    BY KeyStays
  <2>2. Holding(u) \/ row[KeyOf(u)].state \in {"none", "CANCELED"}
    BY <1>1, <1>5 DEF HoldStep
  <2> QED BY <2>1, <2>2 DEF Imported
<1> QED BY <1>2, <1>3, <1>4, <1>5 DEF Imported

LEMMA HashedStays ==
    ASSUME TypeInv, NEW n \in Names, RowStep(n), Hashed(n)
    PROVE  Hashed(n)'
<1>0. row[n] \in Row /\ \A u \in Uploads : u # None
  BY ServerConstants DEF TypeInv, ServerTypeOK
<1>1. CASE row'[n] = row[n]
  BY <1>1 DEF Hashed
<1>2. CASE \E state \in {"UPLOADING", "CANCELED"} : row'[n] = Reserved(n, state)
  BY <1>0, <1>2, ServerConstants DEF Hashed, Reserved, Row
<1>3. CASE row'[n] = CanceledRow(n)
  BY <1>0, <1>3 DEF Hashed, CanceledRow, Row
<1>4. CASE Confirms(n) /\ \E u \in Uploads : row'[n] = ConfirmedRow(n, u)
  BY <1>0, <1>4 DEF Hashed, ConfirmedRow, Confirms, Row
<1>5. CASE row[n].job = "waiting" /\
           \E state \in {"OK", "CORRUPTED", row[n].state}, job \in {"ended", "failed"} :
                row'[n] = [row[n] EXCEPT !.state = state, !.job = job]
  BY <1>0, <1>5 DEF Hashed, Row
<1>6. CASE row[n].state # "none" /\ object[n] # None /\ row'[n] = [row[n] EXCEPT !.hash = object[n]]
  BY <1>0, <1>6 DEF Hashed, Row
<1>7. CASE row[n].state = "UPLOADING" /\ row'[n] = [row[n] EXCEPT !.state = "ERROR"]
  BY <1>0, <1>7 DEF Hashed, Row
<1> QED BY <1>1, <1>2, <1>3, <1>4, <1>5, <1>6, <1>7 DEF RowStep

LEMMA RowsStay ==
    ASSUME TypeInv, batch' = batch, StepFacts, RowsInv
    PROVE  RowsInv'
<1> SUFFICES ASSUME NEW n \in Names PROVE Imported(n)' \/ Hashed(n)'
  BY DEF RowsInv
<1> QED BY ImportedStays, HashedStays DEF RowsInv, StepFacts

\* A download of a file without a hash: what it writes is the imported file.
Unhashed(n) ==
    dl[n].seen.hash = None =>
        /\ dl[n].pc = "listed" /\ dl[n].seen.state \in {"OK", "CORRUPTED"} => Imported(n)
        /\ dl[n].pc \in {"url", "open", "connect", "stream", "check"} => Imported(n)
        /\ dl[n].pc \in {"connect", "stream"} =>
            local[n] = NoFile \/ \A i \in 1..dl[n].got : local[n][i] = <<Legacy, i>>
        /\ dl[n].pc = "stream" => dl[n].from = Legacy
        /\ dl[n].pc \in {"check", "downloaded"} => local[n] = Whole(Legacy)

Proved(n) ==
    dl[n].pc = "downloaded" /\ dl[n].seen.hash # None =>
        \E c \in Contents : local[n] = Whole(c) /\ dl[n].seen.hash = c

WholeInv == RowsInv /\ \A n \in Names : Unhashed(n) /\ Proved(n)

LEMMA SameHashIsSame ==
    ASSUME NEW f, HashOf(f) \in Contents \cup {Empty}
    PROVE  \E c \in Contents : f = Whole(c) /\ HashOf(f) = c
<1>1. \E c \in Contents : f = Whole(c)
  BY CliDownloadsAssumption DEF HashOf
<1>2. HashOf(f) = CHOOSE c \in Contents : f = Whole(c)
  BY <1>1 DEF HashOf
<1> QED BY <1>1, <1>2

LEMMA ReceivedWhole ==
    ASSUME NEW f \in Seq(Chunk), Len(f) = Parts, \A i \in 1..Parts : f[i] = <<Legacy, i>>
    PROVE  f = Whole(Legacy)
<1>1. Whole(Legacy) \in Seq(Chunk) /\ Len(Whole(Legacy)) = Parts
  BY WholeIsStored, StoredIsSeq, ServerConstants
<1>2. \A i \in 1..Len(f) : f[i] = Whole(Legacy)[i]
  BY DEF Whole
<1> QED BY <1>1, <1>2, SeqEqual

LEMMA UnhashedTurn ==
    ASSUME TypeInv, RowsInv, NEW n \in Names, DownloadStep(n), Unhashed(n), Proved(n),
           UNCHANGED <<serverVars, uploadVars, batch>>
    PROVE  Unhashed(n)' /\ Proved(n)'
<1>0. /\ DownloadsInv /\ dl[n] \in Download /\ dl \in [Names -> Download]
      /\ row[n] \in Row /\ object[n] \in Contents \cup {None} /\ Parts \in Nat \ {0}
      /\ dl[n].seen \in Row
  BY Alone DEF TypeInv, ServerTypeOK, Download
<1>a. Imported(n) => Imported(n)'
  BY KeyStays DEF Imported, Holding, serverVars, uploadVars
<1>1. CASE ListFile(n)
  <2>1. dl'[n].pc = "listed" /\ dl'[n].seen = row[n]
    BY <1>0, <1>1 DEF ListFile
  <2>2. row[n].hash = None /\ row[n].state \in {"OK", "CORRUPTED"} => Imported(n)
    BY DEF RowsInv, Hashed
  <2> QED BY <1>a, <2>1, <2>2 DEF Unhashed, Proved
<1>2. ASSUME NEW pc \in {"skipped", "failed", "invalidHash", "killed"},
             Turn(n, [dl[n] EXCEPT !.pc = pc])
      PROVE  Unhashed(n)' /\ Proved(n)'
  <2>1. dl'[n].pc = pc
    BY <1>0, <1>2 DEF Turn, Download
  <2> QED BY <2>1 DEF Unhashed, Proved
<1>3. CASE SkipFile(n) \/ KillDownload(n) \/ GiveUp(n)
  BY <1>2, <1>3 DEF SkipFile, KillDownload, GiveUp
<1>4. CASE TakeFile(n) \/ GetUrl(n)
  <2>1. PICK pc \in {"url", "open", "failed"} :
          /\ Turn(n, [dl[n] EXCEPT !.pc = pc])
          /\ \/ Ready(n, "listed") /\ dl[n].seen.state \in {"OK", "CORRUPTED"}
             \/ Ready(n, "url")
    BY <1>4 DEF TakeFile, GetUrl
  <2>2. dl'[n].pc = pc /\ dl'[n].seen = dl[n].seen
    BY <1>0, <2>1 DEF Turn, Download
  <2>3. dl[n].seen.hash = None => Imported(n)
    BY <2>1 DEF Unhashed, Ready
  <2> QED BY <1>a, <2>2, <2>3 DEF Unhashed, Proved
<1>5. CASE OpenFile(n) /\ ~GiveUp(n)
  <2>1. /\ ~(local[n] # NoFile /\ ~dl[n].overwrite /\ Len(local[n]) = Parts)
        /\ Ready(n, "open")
    BY <1>5 DEF OpenFile
  <2>2. dl[n].overwrite \/ local[n] = NoFile
    BY <1>0, <2>1, Alone DEF Takeable, Ready
  <2>3. /\ local' = [local EXCEPT ![n] = IF dl[n].overwrite THEN NoFile ELSE local[n]]
        /\ \E g : Turn(n, [dl[n] EXCEPT !.pc = "connect", !.got = g])
    BY <1>5, <2>1 DEF OpenFile
  <2>4. local'[n] = NoFile
    BY <1>0, <2>2, <2>3, Alone
  <2>5. dl'[n].pc = "connect" /\ dl'[n].seen = dl[n].seen
    BY <1>0, <2>3 DEF Turn, Download
  <2>6. dl[n].seen.hash = None => Imported(n)
    BY <2>1 DEF Unhashed, Ready
  <2> QED BY <1>a, <2>4, <2>5, <2>6 DEF Unhashed, Proved
<1>6. CASE Connect(n)
  <2>1. /\ dl[n].got = 0 => local' = [local EXCEPT ![n] = <<>>]
        /\ dl[n].got # 0 => local' = local /\ local[n] \in Stored
        /\ dl' = [dl EXCEPT ![n] = [dl[n] EXCEPT !.pc = "stream", !.from = object[n]]]
    BY <1>0, <1>6, ConnectStep
  <2>2. /\ dl'[n].pc = "stream" /\ dl'[n].seen = dl[n].seen /\ dl'[n].from = object[n]
        /\ dl'[n].got = dl[n].got /\ dl[n].got \in Nat /\ dl[n].pc = "connect"
    BY <1>0, <1>6, <2>1 DEF Download, Connect, Ready
  <2>3. CASE dl[n].got = 0
    <3>1. \A i \in 1..dl'[n].got : FALSE
      BY <2>2, <2>3
    <3> QED BY <1>a, <2>2, <3>1 DEF Unhashed, Proved, Imported
  <2>4. CASE dl[n].got # 0
    <3>1. local'[n] = local[n] /\ local[n] # NoFile
      BY <2>1, <2>4, NoFileIsNone
    <3> QED BY <1>a, <2>2, <3>1 DEF Unhashed, Proved, Imported
  <2> QED BY <2>3, <2>4
<1>7. CASE Receive(n)
  <2>1. /\ dl[n].pc = "stream" /\ dl[n].got \in Nat
        /\ local'[n] \in Seq(Chunk) /\ Len(local'[n]) = dl[n].got + 1
        /\ \A i \in 1..dl[n].got : local'[n][i] = local[n][i]
        /\ local'[n][dl[n].got + 1] = <<dl[n].from, dl[n].got + 1>>
        /\ dl'[n].got = dl[n].got + 1 /\ dl'[n].seen = dl[n].seen /\ dl'[n].from = dl[n].from
        /\ dl'[n].pc = IF dl[n].got + 1 = Parts THEN "check" ELSE "stream"
    BY <1>0, <1>7, ReceiveStep DEF Receive, Ready
  <2>2. local[n] # NoFile
    BY <1>0, <2>1, Alone, NoFileIsNone DEF Resumable
  <2>3. ASSUME dl[n].seen.hash = None
        PROVE  Imported(n) /\ dl[n].from = Legacy /\ \A i \in 1..dl'[n].got : local'[n][i] = <<Legacy, i>>
    <3>1. Imported(n) /\ dl[n].from = Legacy /\ \A i \in 1..dl[n].got : local[n][i] = <<Legacy, i>>
      BY <2>1, <2>2, <2>3 DEF Unhashed
    <3> SUFFICES ASSUME NEW i \in 1..dl'[n].got PROVE local'[n][i] = <<Legacy, i>>
      BY <3>1
    <3>2. i \in 1..dl[n].got \/ i = dl[n].got + 1
      BY <2>1
    <3> QED BY <2>1, <3>1, <3>2
  <2>4. CASE dl[n].got + 1 = Parts
    <3>1. dl[n].seen.hash = None => local'[n] = Whole(Legacy)
      BY <2>1, <2>3, <2>4, ReceivedWhole
    <3> QED BY <1>a, <2>1, <2>3, <2>4, <3>1 DEF Unhashed, Proved
  <2>5. CASE dl[n].got + 1 # Parts
    BY <1>a, <2>1, <2>3, <2>5 DEF Unhashed, Proved
  <2> QED BY <2>4, <2>5
<1>8. CASE Breaks(n) /\ ~GiveUp(n)
  <2>1. /\ Turn(n, [dl[n] EXCEPT !.pc = "connect", !.attempt = dl[n].attempt + 1]) /\ UNCHANGED local
        /\ dl[n].pc \in {"connect", "stream"}
    BY <1>8 DEF Breaks, Ready
  <2>2. dl'[n].pc = "connect" /\ dl'[n].seen = dl[n].seen /\ dl'[n].got = dl[n].got
    BY <1>0, <2>1 DEF Turn, Download
  <2> QED BY <1>a, <2>1, <2>2 DEF Unhashed, Proved
<1>9. CASE CheckHash(n)
  <2> DEFINE pc == IF dl[n].seen.hash # None /\ ~SameHash(n) THEN "invalidHash" ELSE "downloaded"
  <2>1. Turn(n, [dl[n] EXCEPT !.pc = pc]) /\ UNCHANGED local /\ dl[n].pc = "check"
    BY <1>9 DEF CheckHash, Ready
  <2>2. dl'[n].pc = pc /\ dl'[n].seen = dl[n].seen
    BY <1>0, <2>1 DEF Turn, Download
  <2>3. CASE dl[n].seen.hash = None
    BY <2>1, <2>2, <2>3 DEF Unhashed, Proved
  <2>4. CASE dl[n].seen.hash # None
    <3>1. SameHash(n) => \E c \in Contents : local[n] = Whole(c) /\ dl[n].seen.hash = c
      <4>1. dl[n].seen.hash \in Contents \cup {Empty}
        BY <1>0, <2>4 DEF Row
      <4> QED BY <4>1, SameHashIsSame DEF SameHash
    <3> QED BY <2>1, <2>2, <2>4, <3>1 DEF Unhashed, Proved
  <2> QED BY <2>3, <2>4
<1> QED BY <1>1, <1>3, <1>4, <1>5, <1>6, <1>7, <1>8, <1>9 DEF DownloadStep

LEMMA WholeStays ==
    ASSUME TypeInv, WholeInv, [TransferNext]_transferVars
    PROVE  WholeInv'
<1>1. StepFacts /\ batch' = batch
  BY AllFacts, NextTypes
<1>2. RowsInv'
  BY <1>1, RowsStay DEF WholeInv
<1>3. \A n \in Names : Imported(n) => Imported(n)'
  BY <1>1, ImportedStays
<1>4. CASE UNCHANGED downloadVars
  <2>1. \A n \in Names : local'[n] = local[n] /\ dl'[n] = dl[n]
    BY <1>4 DEF downloadVars
  <2>2. \A n \in Names : Unhashed(n)' /\ Proved(n)'
    BY <1>3, <2>1 DEF WholeInv, Unhashed, Proved
  <2> QED BY <1>2, <2>2 DEF WholeInv
<1>5. ASSUME NEW m \in Names, DownloadStep(m), UNCHANGED <<serverVars, uploadVars>>
      PROVE  WholeInv'
  <2> SUFFICES ASSUME NEW n \in Names PROVE Unhashed(n)' /\ Proved(n)'
    BY <1>2 DEF WholeInv
  <2>1. CASE n = m
    BY <1>1, <1>5, <2>1, UnhashedTurn DEF WholeInv
  <2>2. CASE n # m
    <3>1. local'[n] = local[n] /\ dl'[n] = dl[n]
      BY <1>5, <2>2, OthersAlone DEF TypeInv
    <3> QED BY <1>3, <3>1 DEF WholeInv, Unhashed, Proved
  <2> QED BY <2>1, <2>2
<1>6. UNCHANGED transferVars => UNCHANGED downloadVars
  BY DEF transferVars
<1> QED BY <1>4, <1>5, <1>6, NextTypes

LEMMA InitUploads ==
    ASSUME TransferInit
    PROVE  /\ \A u \in Uploads : up[u].pc \in {"pending", "absent"}
           /\ late = {} /\ flying = {} /\ crossed = {} /\ belated = {} /\ cutOff = {}
           /\ owner = [n \in Names |-> None]
           /\ \A n \in Names : row[n] = NoRow \/ (/\ row[n] = [state |-> "OK", hash |-> None, job |-> "ended"]
                                                  /\ object[n] = Legacy)
           /\ \A n \in Names : dl[n].pc = "idle"
<1>1. PICK p \in Plans : /\ DownloadsInit(p.downloads)
                         /\ UploadsInit(p.files \cup {p.batch[i] : i \in DOMAIN p.batch})
  BY DEF TransferInit
<1>2. \A u \in Uploads : up[u].pc \in {"pending", "absent"}
  BY <1>1 DEF UploadsInit
<1>3. cutOff = {} /\ \A n \in Names : dl[n].pc = "idle"
  BY <1>1 DEF UploadsInit, DownloadsInit
<1>4. \A n \in Names : row[n] = NoRow \/ (/\ row[n] = [state |-> "OK", hash |-> None, job |-> "ended"]
                                          /\ object[n] = Legacy)
  <2>1. PICK imported \in {{}} \cup {{n} : n \in Names} :
        /\ row = [n \in Names |-> IF n \in imported THEN [state |-> "OK", hash |-> None, job |-> "ended"]
                                  ELSE NoRow]
        /\ object = [n \in Names |-> IF n \in imported THEN Legacy ELSE None]
    BY DEF TransferInit, ServerInit
  <2> QED BY <2>1
<1> QED BY <1>2, <1>3, <1>4 DEF TransferInit, ServerInit

LEMMA InitWhole == TransferInit => WholeInv
<1> SUFFICES ASSUME TransferInit, NEW n \in Names
             PROVE  (Imported(n) \/ Hashed(n)) /\ Unhashed(n) /\ Proved(n)
  BY DEF WholeInv, RowsInv
<1>1. row[n] = NoRow => Hashed(n)
  BY DEF Hashed, NoRow
<1>2. row[n] = [state |-> "OK", hash |-> None, job |-> "ended"] /\ object[n] = Legacy
        => Imported(n)
  BY InitUploads DEF Imported, Holding, HoldingPcs
<1>3. Unhashed(n) /\ Proved(n)
  BY InitUploads DEF Unhashed, Proved
<1> QED BY <1>1, <1>2, <1>3, InitUploads

\* A download that reports success has written every chunk once and in order, and
\* the chunks of one content, also when nobody knows the hash, the connection was
\* broken in between, or the object was written meanwhile.
THEOREM DownloadsAreWhole == TransferSpec => []DownloadIsWhole
<1>1. TypeInv /\ WholeInv => DownloadIsWhole
  <2> SUFFICES ASSUME WholeInv, NEW n \in Names, dl[n].pc = "downloaded"
               PROVE  \E c \in Contents : local[n] = Whole(c) /\ dl[n].seen.hash \in {c, None}
    BY DEF DownloadIsWhole, Ready
  <2>1. CASE dl[n].seen.hash = None
    BY <2>1, ServerConstants DEF WholeInv, Unhashed
  <2>2. CASE dl[n].seen.hash # None
    BY <2>2 DEF WholeInv, Proved
  <2> QED BY <2>1, <2>2
<1>2. TypeInv /\ WholeInv /\ [TransferNext]_transferVars => TypeInv' /\ WholeInv'
  BY NextTypes, WholeStays
<1> QED BY <1>1, <1>2, InitTypes, InitWhole, PTL DEF TransferSpec

-----------------------------------------------------------------------------
(* What a step does to a name that no late request has changed, and to the *)
(* uploads that have it.                                                   *)

OwnerStays(n) == owner'[n] = owner[n]

Untouched(n) == row'[n] = row[n] /\ OwnerStays(n)

Taken(n) ==
    /\ row[n].state \in {"none", "CANCELED"} /\ row'[n] = Reserved(n, "UPLOADING")
    /\ \E v \in Uploads : Holding(v)' /\ KeyOf(v) = n

TakenInVain(n) ==
    row[n].state \in {"none", "CANCELED"} /\ row'[n] = Reserved(n, "CANCELED") /\ OwnerStays(n)

Settled(v) ==
    /\ up[v].pc = "confirm" /\ up'[v].pc = "uploaded"
    /\ Confirms(KeyOf(v)) /\ row'[KeyOf(v)] = ConfirmedRow(KeyOf(v), v)

Ended(n) ==
    /\ OwnerStays(n)
    /\ \E v \in Uploads : /\ Holding(v) /\ ~Holding(v)' /\ KeyOf(v) = n
                          /\ row'[n] = CanceledRow(n) \/ Settled(v)

Ingested(n) ==
    /\ OwnerStays(n) /\ row[n].job = "waiting"
    /\ \E state \in {"OK", "CORRUPTED", row[n].state}, job \in {"ended", "failed"} :
        row'[n] = [row[n] EXCEPT !.state = state, !.job = job]

Rehashed(n) ==
    /\ OwnerStays(n) /\ row[n].hash = None
    /\ row'[n] = [row[n] EXCEPT !.hash = object[n]]

TimedOut(n) ==
    /\ OwnerStays(n) /\ row[n].state = "UPLOADING" /\ \A v \in Uploads : Holding(v) => KeyOf(v) # n
    /\ row'[n] = [row[n] EXCEPT !.state = "ERROR"]

NameMove(n) ==
    \/ n \in belated'
    \/ Untouched(n) \/ Taken(n) \/ TakenInVain(n) \/ Ended(n)
    \/ Ingested(n) \/ Rehashed(n) \/ TimedOut(n)

\* Whoever begins to hold a name owns it, and whoever ends has brought it to an end.
UploadMove(u) ==
    /\ Holding(u)' => Holding(u) \/ (owner'[KeyOf(u)] = u /\ row'[KeyOf(u)].state = "UPLOADING")
    /\ up'[u].pc = "confirm" => up[u].pc = "confirm" \/ object'[KeyOf(u)] = u
    /\ up'[u].pc = "uploaded" => up[u].pc = "uploaded" \/ Settled(u)
    /\ Holding(u) /\ ~Holding(u)' =>
        \/ Leaves(u)' \/ Settled(u)
        \/ up[u].pc = "confirm" /\ ~Confirms(KeyOf(u))
        \/ row'[KeyOf(u)].state \notin {"UPLOADING", "ERROR"}

ObjectMove(n) ==
    object'[n] # object[n] => object'[n] \in Uploads /\ (n \in crossed' \/ object'[n] = owner[n])

HistoryMove ==
    /\ crossed \subseteq crossed' /\ belated \subseteq belated' /\ cutOff \subseteq cutOff'
    /\ \A q \in late' : q \in late \/ \A n \in q.names : Blamed(n)'
    /\ \A n \in belated' : n \in belated \/ \E q \in late : n \in q.names

Move == HistoryMove /\ (\A n \in Names : NameMove(n) /\ ObjectMove(n)) /\ (\A u \in Uploads : UploadMove(u))

LEMMA StoreMove ==
    ASSUME ServerTypeOK, NEW u \in Uploads, NEW k \in Names, Store(u, k)
    PROVE  crossed \subseteq crossed' /\ \A n \in Names : ObjectMove(n)
  BY DEF ServerTypeOK, Store, ObjectMove

LEMMA WithdrawMoves == ASSUME TypeInv, Withdraw, cutOff \subseteq cutOff' PROVE Move
<1>1. HistoryMove /\ \A n \in Names : Untouched(n) /\ ObjectMove(n)
  BY DEF Withdraw, HistoryMove, Untouched, OwnerStays, ObjectMove
<1>2. \A u \in Uploads : UploadMove(u)
  BY DEF Withdraw, UploadMove
<1> QED BY <1>1, <1>2 DEF Move, NameMove

LEMMA ReserveMoves ==
    ASSUME TypeInv, NEW names \in SUBSET Names, NEW whom \in [Names -> Uploads \cup {None}],
           Reserve(names, whom)
    PROVE  Move
<1>0. \A u \in Uploads : KeyOf(u) \in Names
  BY KeyType DEF TypeInv
<1>1. HistoryMove /\ \A n \in Names : ObjectMove(n)
  BY DEF Reserve, HistoryMove, ObjectMove
<1>2. ASSUME NEW n \in Names PROVE NameMove(n)
  <2>1. CASE n \in names
    <3>1. row[n].state \in {"none", "CANCELED"} /\ row'[n] = Reserved(n, "UPLOADING")
      BY <2>1 DEF Reserve, ReserveFor, Reservable
    <3> QED BY <2>1, <3>1 DEF NameMove, Taken, Reserve
  <2>2. CASE n \notin names
    <3>1. Untouched(n)
      BY <2>2 DEF Reserve, ReserveFor, Untouched, OwnerStays
    <3> QED BY <3>1 DEF NameMove
  <2> QED BY <2>1, <2>2
<1>3. ASSUME NEW u \in Uploads PROVE UploadMove(u)
  <2>1. ASSUME KeyOf(u) \in names, whom[KeyOf(u)] = u
        PROVE  owner'[KeyOf(u)] = u /\ row'[KeyOf(u)].state = "UPLOADING"
    <3>1. row'[KeyOf(u)] = Reserved(KeyOf(u), "UPLOADING") /\ owner'[KeyOf(u)] = u
      BY <1>0, <2>1 DEF Reserve, ReserveFor
    <3>2. row[KeyOf(u)] \in Row
      BY <1>0 DEF TypeInv, ServerTypeOK
    <3> QED BY <3>1, <3>2 DEF Reserved, Row
  <2> QED BY <2>1 DEF Reserve, UploadMove
<1> QED BY <1>1, <1>2, <1>3 DEF Move

LEMMA ReserveInVainMoves ==
    ASSUME TypeInv, NEW names \in SUBSET Names, ReserveInVain(names), cutOff \subseteq cutOff'
    PROVE  Move
<1>1. HistoryMove /\ \A n \in Names : ObjectMove(n)
  BY DEF ReserveInVain, HistoryMove, ObjectMove
<1>2. ASSUME NEW n \in Names PROVE NameMove(n)
  <2>1. Untouched(n) \/ TakenInVain(n)
    <3>1. CASE UNCHANGED row
      BY <3>1 DEF ReserveInVain, Untouched, OwnerStays
    <3>2. CASE ~UNCHANGED row /\ n \in names
      BY <3>2 DEF ReserveInVain, ReserveFails, Reservable, TakenInVain, OwnerStays
    <3>3. CASE ~UNCHANGED row /\ n \notin names
      BY <3>3 DEF ReserveInVain, ReserveFails, Untouched, OwnerStays
    <3> QED BY <3>1, <3>2, <3>3
  <2> QED BY <2>1 DEF NameMove
<1>3. \A u \in Uploads : UploadMove(u)
  BY DEF ReserveInVain, UploadMove
<1> QED BY <1>1, <1>2, <1>3 DEF Move

LEMMA StoreFileMoves ==
    ASSUME TypeInv, NEW u \in Uploads, StoreFile(u), cutOff \subseteq cutOff'
    PROVE  Move
<1>0. KeyOf(u) \in Names /\ up[u].pc = "put" /\ object \in [Names -> Contents \cup {None}]
  BY KeyType DEF TypeInv, ServerTypeOK, StoreFile
<1>1. crossed \subseteq crossed' /\ \A n \in Names : ObjectMove(n)
  BY <1>0, StoreMove DEF StoreFile, TypeInv
<1>2. HistoryMove /\ \A n \in Names : Untouched(n)
  BY <1>1 DEF StoreFile, HistoryMove, Untouched, OwnerStays
<1>3. object'[KeyOf(u)] = u
  BY <1>0 DEF StoreFile, Store
<1>4. ASSUME NEW v \in Uploads PROVE UploadMove(v)
  <2>1. CASE v = u
    BY <1>0, <1>3, <2>1 DEF StoreFile, UploadMove, Moves, Holding, HoldingPcs
  <2>2. CASE v # u
    BY <2>2 DEF StoreFile, UploadMove, Moves, Holding
  <2> QED BY <2>1, <2>2
<1> QED BY <1>1, <1>2, <1>4 DEF Move, NameMove

LEMMA GiveBackMoves ==
    ASSUME TypeInv, NEW u \in Uploads, GiveBack(u), cutOff \subseteq cutOff'
    PROVE  Move
<1>0. /\ KeyOf(u) \in Names /\ up[u].pc = "cancel" /\ row \in [Names -> Row]
      /\ owner' = owner /\ cutOff \subseteq cutOff'
  BY KeyType DEF TypeInv, ServerTypeOK, GiveBack
<1>1. HistoryMove /\ \A n \in Names : ObjectMove(n)
  BY <1>0 DEF GiveBack, HistoryMove, ObjectMove
<1>2. PICK pc \in {"credentials", "failed", "noSpace"} : Moves(u, pc)
  BY DEF GiveBack
<1>3. Holding(u) /\ ~Holding(u)' /\ up'[u].pc \notin {"confirm", "uploaded"}
  BY <1>0, <1>2 DEF Moves, Holding, HoldingPcs
<1>4. ASSUME NEW n \in Names PROVE NameMove(n)
  <2>1. CASE n = KeyOf(u) /\ u \in Uploaders
    <3>1. row'[n] = CanceledRow(n)
      BY <1>0, <2>1 DEF GiveBack
    <3>2. Ended(n)
      BY <1>0, <1>3, <2>1, <3>1 DEF Ended, OwnerStays
    <3> QED BY <3>2 DEF NameMove
  <2>2. CASE ~(n = KeyOf(u) /\ u \in Uploaders)
    <3>1. Untouched(n)
      BY <1>0, <2>2 DEF GiveBack, Untouched, OwnerStays
    <3> QED BY <3>1 DEF NameMove
  <2> QED BY <2>1, <2>2
<1>5. Leaves(u)' \/ row'[KeyOf(u)].state \notin {"UPLOADING", "ERROR"}
  <2>1. CASE u \in Uploaders
    <3>1. row'[KeyOf(u)] = CanceledRow(KeyOf(u)) /\ row[KeyOf(u)] \in Row
      BY <1>0, <2>1 DEF GiveBack
    <3> QED BY <3>1 DEF CanceledRow, Row
  <2>2. CASE u \notin Uploaders
    BY <2>2 DEF Leaves
  <2> QED BY <2>1, <2>2
<1>6. ASSUME NEW v \in Uploads PROVE UploadMove(v)
  <2>1. CASE v = u
    BY <1>3, <1>5, <2>1 DEF UploadMove
  <2>2. CASE v # u
    BY <1>2, <2>2 DEF UploadMove, Moves, Holding
  <2> QED BY <2>1, <2>2
<1> QED BY <1>1, <1>4, <1>6 DEF Move

LEMMA ConfirmMoves ==
    ASSUME TypeInv, NEW u \in Uploads, Confirm(u), cutOff \subseteq cutOff'
    PROVE  Move
<1>0. /\ KeyOf(u) \in Names /\ up[u].pc = "confirm" /\ row \in [Names -> Row]
      /\ owner' = owner /\ Moves(u, "uploaded") /\ ConfirmBy(u, KeyOf(u))
  BY KeyType DEF TypeInv, ServerTypeOK, Confirm
<1>1. HistoryMove /\ \A n \in Names : ObjectMove(n)
  BY <1>0 DEF Confirm, ConfirmBy, HistoryMove, ObjectMove
<1>2. Holding(u) /\ ~Holding(u)' /\ Settled(u)
  BY <1>0 DEF Moves, Holding, HoldingPcs, Settled, ConfirmBy
<1>3. ASSUME NEW n \in Names PROVE NameMove(n)
  <2>1. CASE n = KeyOf(u)
    BY <1>0, <1>2, <2>1 DEF NameMove, Ended, OwnerStays
  <2>2. CASE n # KeyOf(u)
    BY <1>0, <2>2 DEF NameMove, Untouched, OwnerStays, ConfirmBy
  <2> QED BY <2>1, <2>2
<1>4. ASSUME NEW v \in Uploads PROVE UploadMove(v)
  <2>1. CASE v = u
    BY <1>0, <1>2, <2>1 DEF UploadMove, Moves
  <2>2. CASE v # u
    BY <1>0, <2>2 DEF UploadMove, Moves, Holding
  <2> QED BY <2>1, <2>2
<1> QED BY <1>1, <1>3, <1>4 DEF Move

LEMMA ClientMoves == ASSUME TypeInv, ClientStep, cutOff \subseteq cutOff' PROVE Move
  BY WithdrawMoves, ReserveMoves, ReserveInVainMoves, StoreFileMoves, GiveBackMoves, ConfirmMoves
  DEF ClientStep

LEMMA ArriveMoves ==
    ASSUME TypeInv, UNCHANGED uploadVars, NEW f \in flying, Arrive(f[1], f[2])
    PROVE  Move
<1>1. f[1] \in Uploads /\ f[2] \in Names
  BY ArriveType DEF TypeInv
<1>2. crossed \subseteq crossed' /\ \A n \in Names : ObjectMove(n)
  BY <1>1, StoreMove DEF Arrive, TypeInv
<1>3. HistoryMove /\ \A n \in Names : Untouched(n)
  BY <1>2 DEF Arrive, HistoryMove, Untouched, OwnerStays, uploadVars
<1>4. \A u \in Uploads : UploadMove(u)
  BY DEF UploadMove, Holding, uploadVars
<1> QED BY <1>2, <1>3, <1>4 DEF Move, NameMove

LEMMA LateMoves ==
    ASSUME TypeInv, UNCHANGED uploadVars, NEW q \in late, ProcessLate(q)
    PROVE  Move
<1>0. q.by \in Uploads /\ q.names \subseteq Names /\ row \in [Names -> Row] /\ crossed \subseteq Names
  BY LateType DEF Request, TypeInv, ServerTypeOK
<1>1. crossed \subseteq crossed'
  BY DEF ProcessLate, LateReserve, LateConfirm, LateCancel, ConfirmBy
<1>2. HistoryMove
  BY <1>1 DEF ProcessLate, HistoryMove, uploadVars
<1>3. \A n \in Names : ObjectMove(n)
  BY DEF ProcessLate, ObjectMove
<1>4. \A u \in Uploads : UploadMove(u)
  BY DEF UploadMove, Holding, uploadVars
<1>5. ASSUME NEW n \in Names, n \notin belated' PROVE Untouched(n)
  <2>1. row'[n] = row[n]
    <3>1. CASE row' = row
      BY <3>1
    <3>2. CASE row' # row
      <4>1. n \notin q.names
        BY <1>5, <3>2 DEF ProcessLate
      <4>2. CASE LateReserve(q)
        BY <3>2, <4>1, <4>2 DEF LateReserve, ReserveFor
      <4>3. CASE LateConfirm(q)
        BY <1>0, <3>2, <4>1, <4>3 DEF LateConfirm, ConfirmBy
      <4>4. CASE LateCancel(q)
        BY <4>1, <4>4 DEF LateCancel
      <4> QED BY <4>2, <4>3, <4>4 DEF ProcessLate
    <3> QED BY <3>1, <3>2
  <2>2. owner'[n] = owner[n]
    <3>1. CASE LateReserve(q) /\ Reservable(q.names)
      <4>1. CASE n \notin q.names
        BY <3>1, <4>1 DEF LateReserve, ReserveFor
      <4>2. CASE n \in q.names
        <5>1. row[n].state \in {"none", "CANCELED"} /\ row'[n] = Reserved(n, "UPLOADING")
          BY <3>1, <4>2 DEF LateReserve, ReserveFor, Reservable
        <5>2. row'[n].state = "UPLOADING"
          BY <1>0, <5>1 DEF Reserved, Row
        <5> QED BY <2>1, <5>1, <5>2
      <4> QED BY <4>1, <4>2
    <3>2. CASE ~(LateReserve(q) /\ Reservable(q.names))
      BY <3>2 DEF ProcessLate, LateReserve, LateConfirm, LateCancel
    <3> QED BY <3>1, <3>2
  <2> QED BY <2>1, <2>2 DEF Untouched, OwnerStays
<1> QED BY <1>2, <1>3, <1>4, <1>5 DEF Move, NameMove

LEMMA OwnMoves ==
    ASSUME TypeInv, batch' = batch, UNCHANGED uploadVars, NEW k \in Names,
           \/ Ingest(k) \/ RepairHash(k)
           \/ WorkingOn(k) = {} /\ TimeOut(k)
    PROVE  Move
<1>0. row \in [Names -> Row] /\ row[k] \in Row
  BY DEF TypeInv, ServerTypeOK
<1>1. UNCHANGED <<object, owner, late, flying, crossed, belated>>
  BY DEF Ingest, RepairHash, TimeOut
<1>2. HistoryMove /\ \A n \in Names : ObjectMove(n) /\ OwnerStays(n)
  BY <1>1 DEF HistoryMove, ObjectMove, OwnerStays, uploadVars
<1>3. \A u \in Uploads : UploadMove(u)
  BY DEF UploadMove, Holding, uploadVars
<1>4. ASSUME NEW n \in Names PROVE NameMove(n)
  <2>1. CASE n # k
    BY <1>0, <1>2, <2>1 DEF NameMove, Untouched, Ingest, RepairHash, TimeOut
  <2>2. CASE n = k /\ Ingest(k)
    <3>1. PICK verdict \in {<<"OK", "ended">>, <<"CORRUPTED", "ended">>, <<"CORRUPTED", "failed">>,
                            <<row[k].state, "failed">>} :
            row' = [row EXCEPT ![k].state = verdict[1], ![k].job = verdict[2]]
      BY <2>2 DEF Ingest
    <3>2. row'[k] = [row[k] EXCEPT !.state = verdict[1], !.job = verdict[2]]
      BY <1>0, <3>1 DEF Row
    <3>3. verdict[1] \in {"OK", "CORRUPTED", row[k].state} /\ verdict[2] \in {"ended", "failed"}
      OBVIOUS
    <3>4. Ingested(n)
      BY <1>2, <2>2, <3>2, <3>3 DEF Ingested, Ingest
    <3> QED BY <3>4 DEF NameMove
  <2>3. CASE n = k /\ RepairHash(k)
    <3>1. row'[k] = [row[k] EXCEPT !.hash = object[k]]
      BY <1>0, <2>3 DEF RepairHash, Row
    <3>2. Rehashed(n)
      BY <1>2, <2>3, <3>1 DEF Rehashed, RepairHash
    <3> QED BY <3>2 DEF NameMove
  <2>4. CASE n = k /\ TimeOut(k) /\ WorkingOn(k) = {}
    <3>1. row'[k] = [row[k] EXCEPT !.state = "ERROR"]
      BY <1>0, <2>4 DEF TimeOut, Row
    <3>2. \A v \in Uploads : Holding(v) => KeyOf(v) # k
      BY <2>4 DEF WorkingOn, Holding, HoldingPcs, Working
    <3>3. TimedOut(n)
      BY <1>2, <2>4, <3>1, <3>2 DEF TimedOut, TimeOut
    <3> QED BY <3>3 DEF NameMove
  <2> QED BY <2>1, <2>2, <2>3, <2>4
<1> QED BY <1>2, <1>3, <1>4 DEF Move

LEMMA ServerMoves ==
    ASSUME TypeInv, batch' = batch, ServerNext, UNCHANGED uploadVars
    PROVE  Move
  BY ArriveMoves, LateMoves, OwnMoves DEF ServerNext

LEMMA AllMoves == ASSUME TypeInv, [TransferNext]_transferVars PROVE Move
<1>1. ASSUME UNCHANGED <<serverVars, uploadVars>> PROVE Move
  BY <1>1 DEF Move, HistoryMove, NameMove, Untouched, OwnerStays, ObjectMove, UploadMove, Holding,
              serverVars, uploadVars
<1>2. UNCHANGED transferVars => UNCHANGED <<serverVars, uploadVars>>
  BY DEF transferVars
<1> QED BY <1>1, <1>2, NextTypes, ClientMoves, ServerMoves

-----------------------------------------------------------------------------
(* "uploaded" is uploaded.                                                 *)

\* Whoever holds a name owns it, unless a late request came in between.
Owned(u) ==
    Holding(u) /\ KeyOf(u) \notin belated => owner[KeyOf(u)] = u /\ row[KeyOf(u)].state = "UPLOADING"

\* The ingestion has nothing to do with files that are not there.
Unconfirmed(n) ==
    n \notin belated /\ row[n].state \notin {"OK", "CORRUPTED"} => row[n].job = "none"

Written(u) ==
    up[u].pc = "confirm" =>
        /\ object[KeyOf(u)] # None
        /\ KeyOf(u) \notin crossed \cup belated => object[KeyOf(u)] = u

Landed(u) ==
    up[u].pc = "uploaded" /\ KeyOf(u) \notin crossed \cup belated =>
        /\ owner[KeyOf(u)] = u /\ object[KeyOf(u)] = u
        /\ row[KeyOf(u)].state \in {"OK", "CORRUPTED"} /\ row[KeyOf(u)].hash = u

UploadInv ==
    /\ \A n \in Names : Unconfirmed(n)
    /\ \A u \in Uploads : Owned(u) /\ Written(u) /\ Landed(u)

LEMMA HolderEnds ==
    ASSUME TypeInv, UploadInv, NEW n \in Names, Ended(n), n \notin belated
    PROVE  \E v \in Uploads :
            /\ Holding(v) /\ ~Holding(v)' /\ KeyOf(v) = n /\ owner[n] = v /\ row[n].state = "UPLOADING"
            /\ row[n].job = "none"
            /\ \/ row'[n] = [row[n] EXCEPT !.state = "CANCELED"]
               \/ Settled(v) /\ row'[n] = [state |-> "OK", hash |-> v, job |-> "waiting"]
<1>1. PICK v \in Uploads : /\ Holding(v) /\ ~Holding(v)' /\ KeyOf(v) = n
                           /\ row'[n] = CanceledRow(n) \/ Settled(v)
  BY DEF Ended
<1>2. owner[n] = v /\ row[n].state = "UPLOADING"
  BY <1>1 DEF UploadInv, Owned
<1>3. row[n].job = "none"
  BY <1>2 DEF UploadInv, Unconfirmed
<1>4. row'[n] = CanceledRow(n) => row'[n] = [row[n] EXCEPT !.state = "CANCELED"]
  BY <1>2 DEF CanceledRow
<1>5. Settled(v) => row'[n] = [state |-> "OK", hash |-> v, job |-> "waiting"]
  BY <1>1, <1>2, <1>3 DEF Settled, ConfirmedRow
<1> QED BY <1>1, <1>2, <1>3, <1>4, <1>5

LEMMA UnconfirmedStays ==
    ASSUME TypeInv, UploadInv, Move, NEW n \in Names
    PROVE  Unconfirmed(n)'
<1> SUFFICES ASSUME n \notin belated', row'[n].state \notin {"OK", "CORRUPTED"}
             PROVE  row'[n].job = "none"
  BY DEF Unconfirmed
<1>0. n \notin belated /\ NameMove(n) /\ Unconfirmed(n) /\ row[n] \in Row
  BY DEF Move, HistoryMove, UploadInv, TypeInv, ServerTypeOK
<1>1. CASE Untouched(n)
  BY <1>0, <1>1 DEF Untouched, Unconfirmed
<1>2. CASE Taken(n) \/ TakenInVain(n)
  BY <1>0, <1>2 DEF Taken, TakenInVain, Reserved, Unconfirmed, Row
<1>3. CASE Ended(n)
  <2>1. PICK v \in Uploads :
          /\ row[n].job = "none"
          /\ \/ row'[n] = [row[n] EXCEPT !.state = "CANCELED"]
             \/ row'[n] = [state |-> "OK", hash |-> v, job |-> "waiting"]
    BY <1>0, <1>3, HolderEnds
  <2>2. row'[n] # [state |-> "OK", hash |-> v, job |-> "waiting"]
    OBVIOUS
  <2> QED BY <1>0, <2>1, <2>2 DEF Row
<1>4. CASE Ingested(n)
  BY <1>0, <1>4 DEF Ingested, Unconfirmed, Row
<1>5. CASE Rehashed(n) \/ TimedOut(n)
  BY <1>0, <1>5 DEF Rehashed, TimedOut, Unconfirmed, Row
<1> QED BY <1>0, <1>1, <1>2, <1>3, <1>4, <1>5 DEF NameMove

LEMMA OwnedStays ==
    ASSUME TypeInv, UploadInv, Move, batch' = batch, NEW u \in Uploads
    PROVE  Owned(u)'
<1> DEFINE k == KeyOf(u)
<1>0. k \in Names /\ k' = k
  BY KeyType, KeyStays DEF TypeInv
<1> SUFFICES ASSUME Holding(u)', k \notin belated'
             PROVE  owner'[k] = u /\ row'[k].state = "UPLOADING"
  BY <1>0 DEF Owned
<1>1. k \notin belated /\ NameMove(k) /\ UploadMove(u) /\ Unconfirmed(k) /\ row[k] \in Row /\ Owned(u)
  BY <1>0 DEF Move, HistoryMove, UploadInv, TypeInv, ServerTypeOK
<1>2. CASE ~Holding(u)
  BY <1>1, <1>2 DEF UploadMove
<1>3. CASE Holding(u)
  <2>1. owner[k] = u /\ row[k].state = "UPLOADING" /\ row[k].job = "none"
    BY <1>1, <1>3 DEF Owned, Unconfirmed
  <2>2. ~Taken(k) /\ ~TakenInVain(k) /\ ~Ingested(k) /\ ~TimedOut(k)
    BY <1>3, <2>1 DEF Taken, TakenInVain, Ingested, TimedOut
  <2>3. ~Ended(k)
    BY <1>0, <1>1, <2>1, HolderEnds
  <2>4. CASE Untouched(k)
    BY <2>1, <2>4 DEF Untouched, OwnerStays
  <2>5. CASE Rehashed(k)
    BY <1>1, <2>1, <2>5 DEF Rehashed, OwnerStays, Row
  <2> QED BY <1>1, <2>2, <2>3, <2>4, <2>5 DEF NameMove
<1> QED BY <1>2, <1>3

LEMMA WrittenStays ==
    ASSUME TypeInv, UploadInv, Move, batch' = batch, NEW u \in Uploads
    PROVE  Written(u)'
<1> DEFINE k == KeyOf(u)
<1>0. k \in Names /\ k' = k /\ u # None /\ \A v \in Uploads : v # None
  BY KeyType, KeyStays, ServerConstants DEF TypeInv
<1>1. ObjectMove(k) /\ UploadMove(u) /\ Written(u) /\ Owned(u) /\ HistoryMove
  BY <1>0 DEF Move, UploadInv
<1> SUFFICES ASSUME up'[u].pc = "confirm"
             PROVE  object'[k] # None /\ (k \notin crossed' \cup belated' => object'[k] = u)
  BY <1>0 DEF Written
<1>2. CASE up[u].pc # "confirm"
  BY <1>0, <1>1, <1>2 DEF UploadMove
<1>3. CASE up[u].pc = "confirm"
  <2>1. object[k] # None /\ (k \notin crossed \cup belated => object[k] = u)
    BY <1>1, <1>3 DEF Written
  <2>2. k \notin belated => owner[k] = u
    BY <1>1, <1>3 DEF Owned, Holding, HoldingPcs
  <2> QED BY <1>0, <1>1, <2>1, <2>2 DEF ObjectMove, HistoryMove
<1> QED BY <1>2, <1>3

LEMMA LandedStays ==
    ASSUME TypeInv, UploadInv, Move, batch' = batch, NEW u \in Uploads
    PROVE  Landed(u)'
<1> DEFINE k == KeyOf(u)
<1>0. k \in Names /\ k' = k /\ u # None
  BY KeyType, KeyStays, ServerConstants DEF TypeInv
<1> SUFFICES ASSUME up'[u].pc = "uploaded", k \notin crossed' \cup belated'
             PROVE  /\ owner'[k] = u /\ object'[k] = u
                    /\ row'[k].state \in {"OK", "CORRUPTED"} /\ row'[k].hash = u
  BY <1>0 DEF Landed
<1>1. /\ ObjectMove(k) /\ UploadMove(u) /\ NameMove(k) /\ Written(u) /\ Owned(u) /\ Landed(u)
      /\ Unconfirmed(k) /\ k \notin crossed \cup belated /\ row[k] \in Row
  BY <1>0 DEF Move, HistoryMove, UploadInv, TypeInv, ServerTypeOK
<1>2. CASE up[u].pc # "uploaded"
  <2>1. Settled(u)
    BY <1>1, <1>2 DEF UploadMove
  <2>2. owner[k] = u /\ row[k].state = "UPLOADING" /\ object[k] = u
    BY <1>1, <2>1 DEF Settled, Owned, Written, Holding, HoldingPcs
  <2>3. row[k].job = "none"
    BY <1>1, <2>2 DEF Unconfirmed
  <2>4. row'[k] = [state |-> "OK", hash |-> u, job |-> "waiting"]
    BY <2>1, <2>2, <2>3 DEF Settled, ConfirmedRow
  <2>5. object'[k] = u
    BY <1>1, <2>2 DEF ObjectMove
  <2>6. ~Taken(k)
    BY <2>2 DEF Taken
  <2>7. row'[k] # row[k] /\ owner'[k] = owner[k]
    BY <1>1, <2>2, <2>4, <2>6
    DEF NameMove, Untouched, TakenInVain, Ended, Ingested, Rehashed, TimedOut, OwnerStays
  <2> QED BY <2>2, <2>4, <2>5, <2>7
<1>3. CASE up[u].pc = "uploaded"
  <2>1. /\ owner[k] = u /\ object[k] = u
        /\ row[k].state \in {"OK", "CORRUPTED"} /\ row[k].hash = u
    BY <1>1, <1>3 DEF Landed
  <2>2. object'[k] = u
    BY <1>1, <2>1 DEF ObjectMove
  <2>3. ~Taken(k) /\ ~TakenInVain(k) /\ ~Rehashed(k) /\ ~TimedOut(k)
    BY <1>0, <2>1 DEF Taken, TakenInVain, Rehashed, TimedOut
  <2>4. ~Ended(k)
    BY <1>0, <1>1, <2>1, HolderEnds
  <2>5. CASE Untouched(k)
    BY <2>1, <2>2, <2>5 DEF Untouched, OwnerStays
  <2>6. CASE Ingested(k)
    BY <1>1, <2>1, <2>2, <2>6 DEF Ingested, OwnerStays, Row
  <2> QED BY <1>1, <2>3, <2>4, <2>5, <2>6 DEF NameMove
<1> QED BY <1>2, <1>3

LEMMA UploadInvStays ==
    ASSUME TypeInv, UploadInv, [TransferNext]_transferVars
    PROVE  UploadInv'
<1>1. Move /\ batch' = batch
  BY AllMoves, NextTypes
<1>2. \A n \in Names : Unconfirmed(n)'
  BY <1>1, UnconfirmedStays
<1>3. \A u \in Uploads : Owned(u)' /\ Written(u)' /\ Landed(u)'
  BY <1>1, OwnedStays, WrittenStays, LandedStays
<1> QED BY <1>2, <1>3 DEF UploadInv

LEMMA InitUploadInv == TransferInit => UploadInv
<1> SUFFICES ASSUME TransferInit PROVE UploadInv
  OBVIOUS
<1>1. \A n \in Names : Unconfirmed(n)
  BY InitUploads DEF Unconfirmed, NoRow
<1>2. \A u \in Uploads : Owned(u) /\ Written(u) /\ Landed(u)
  BY InitUploads DEF Owned, Written, Landed, Holding, HoldingPcs
<1> QED BY <1>1, <1>2 DEF UploadInv

\* Unless a name is repeated, every file is uploaded under its own name.
LEMMA KeyIsName ==
    ASSUME batch \in Batches, NEW u \in Uploads, ~Shuffled(u)
    PROVE  KeyOf(u) = NameOf[u]
<1>1. CASE ~(u \in Items /\ Answered(u))
  BY <1>1 DEF KeyOf
<1>2. CASE u \in Items /\ Answered(u)
  <2>1. \A i, j \in DOMAIN batch : NameOf[batch[i]] = NameOf[batch[j]] => i = j
    BY <1>2 DEF Shuffled
  <2>2. DOMAIN batch = 1..Len(batch) /\ Len(batch) \in Nat
    BY BatchType
  <2>3. Firsts = 1..Len(batch)
    BY <2>1, <2>2 DEF Firsts
  <2>4. PICK k \in Firsts : Rank(k) = Position(u) /\ KeyOf(u) = NameOf[batch[k]]
    BY <1>2, KeyAnswer
  <2>5. k \in 1..Len(batch)
    BY <2>3, <2>4
  <2>6. {j \in Firsts : j <= k} = 1..k
    BY <2>2, <2>3, <2>5
  <2>7. Cardinality(1..k) = k
    BY <2>5, FS_Interval
  <2>8. Position(u) = k
    BY <2>4, <2>6, <2>7 DEF Rank
  <2> QED BY <1>2, <2>4, <2>8, PositionOf
<1> QED BY <1>1, <1>2

\* A file that was reported as uploaded is in the mission under its name, with its
\* own content and hash, in whatever order the uploads of the name went on; the
\* exceptions the property names are the only ones.
THEOREM UploadedIsThere == TransferSpec => []UploadedIsStored
<1>1. TypeInv /\ UploadInv => UploadedIsStored
  <2> SUFFICES ASSUME TypeInv, UploadInv, NEW u \in Uploads, up[u].pc = "uploaded",
                      NameOf[u] \notin crossed \cup belated, ~Shuffled(u)
               PROVE  /\ row[NameOf[u]].state \in {"OK", "CORRUPTED"}
                      /\ row[NameOf[u]].hash = u /\ object[NameOf[u]] = u
    BY DEF UploadedIsStored, At
  <2>1. KeyOf(u) = NameOf[u]
    BY KeyIsName DEF TypeInv
  <2> QED BY <2>1 DEF UploadInv, Landed
<1>2. TypeInv /\ UploadInv /\ [TransferNext]_transferVars => TypeInv' /\ UploadInv'
  BY NextTypes, UploadInvStays
<1> QED BY <1>1, <1>2, InitTypes, InitUploadInv, PTL DEF TransferSpec

-----------------------------------------------------------------------------
(* "already uploaded".                                                     *)

\* What is reserved has somebody who holds it, or may be blamed for it.
Answerable(n) ==
    row[n].state \in {"UPLOADING", "ERROR"} =>
        Blamed(n) \/ \E v \in Uploads : Holding(v) /\ KeyOf(v) = n

BlameInv ==
    /\ \A q \in late : \A n \in q.names : Blamed(n)
    /\ \A n \in belated : Blamed(n)
    /\ \A n \in Names : Answerable(n)

LEMMA BlameStays ==
    ASSUME batch' = batch, cutOff \subseteq cutOff', NEW n, Blamed(n)
    PROVE  Blamed(n)'
<1>1. PICK v \in Uploads : Leaves(v) /\ n \in {NameOf[v], KeyOf(v)}
  BY DEF Blamed
<1>2. Leaves(v)' /\ KeyOf(v)' = KeyOf(v)
  BY <1>1, KeyStays DEF Leaves
<1> QED BY <1>1, <1>2 DEF Blamed

LEMMA AnswerableStays ==
    ASSUME TypeInv, UploadInv, BlameInv, Move, batch' = batch, NEW n \in Names,
           n \in belated' => Blamed(n)',
           row'[n].state \in {"UPLOADING", "ERROR"}
    PROVE  Blamed(n)' \/ \E v \in Uploads : Holding(v)' /\ KeyOf(v)' = n
<1>0. /\ NameMove(n) /\ HistoryMove /\ row[n] \in Row /\ Answerable(n) /\ Unconfirmed(n)
      /\ \A v \in Uploads : UploadMove(v) /\ Written(v) /\ Owned(v) /\ KeyOf(v)' = KeyOf(v)
  BY KeyStays DEF Move, UploadInv, BlameInv, TypeInv, ServerTypeOK
<1>1. Blamed(n) => Blamed(n)'
  BY <1>0, BlameStays DEF HistoryMove
<1>2. CASE n \in belated'
  BY <1>2
<1>3. CASE n \notin belated'
  <2>0. n \notin belated
    BY <1>0, <1>3 DEF HistoryMove
  <2>1. CASE Taken(n)
    BY <1>0, <2>1 DEF Taken
  <2>2. ~TakenInVain(n)
    BY <1>0 DEF TakenInVain, Reserved, Row
  <2>3. ~Ended(n)
    <3> SUFFICES ASSUME Ended(n) PROVE FALSE
      OBVIOUS
    <3>1. PICK v \in Uploads :
            \/ row'[n] = [row[n] EXCEPT !.state = "CANCELED"]
            \/ row'[n] = [state |-> "OK", hash |-> v, job |-> "waiting"]
      BY <2>0, HolderEnds
    <3>2. row'[n] # [state |-> "OK", hash |-> v, job |-> "waiting"]
      OBVIOUS
    <3> QED BY <1>0, <3>1, <3>2 DEF Row
  <2>4. ~Ingested(n)
    BY <1>0, <2>0 DEF Ingested, Unconfirmed, Row
  <2>5. CASE TimedOut(n)
    BY <1>0, <1>1, <2>5 DEF TimedOut, Answerable
  <2>6. CASE Untouched(n) \/ Rehashed(n)
    <3>1. row[n].state \in {"UPLOADING", "ERROR"} /\ row[n].state = row'[n].state /\ row[n].job = row'[n].job
      BY <1>0, <2>6 DEF Untouched, Rehashed, Row
    <3>2. CASE Blamed(n)
      BY <1>1, <3>2
    <3>3. ASSUME NEW v \in Uploads, Holding(v), KeyOf(v) = n
          PROVE  Blamed(n)' \/ Holding(v)'
      <4>1. Leaves(v)' => Blamed(n)'
        BY <1>0, <3>3 DEF Blamed
      <4>2. up[v].pc = "confirm" => Confirms(n)
        <5>1. up[v].pc = "confirm" => object[n] # None
          BY <1>0, <3>3 DEF Written
        <5> QED BY <3>1, <5>1 DEF Confirms
      <4>3. ~Settled(v)
        <5>1. row[n].state = "UPLOADING" /\ row[n].job = "none"
          BY <1>0, <2>0, <3>3 DEF Owned, Unconfirmed
        <5>2. row'[n] # [state |-> "OK", hash |-> v, job |-> "waiting"]
          BY <3>1
        <5> QED BY <3>3, <5>1, <5>2 DEF Settled, ConfirmedRow
      <4> QED BY <1>0, <3>3, <4>1, <4>2, <4>3 DEF UploadMove
    <3> QED BY <1>0, <3>1, <3>2, <3>3 DEF Answerable
  <2> QED BY <1>0, <1>3, <2>1, <2>2, <2>3, <2>4, <2>5, <2>6 DEF NameMove
<1> QED BY <1>2, <1>3

LEMMA BlameInvStays ==
    ASSUME TypeInv, UploadInv, BlameInv, [TransferNext]_transferVars
    PROVE  BlameInv'
<1>1. Move /\ HistoryMove /\ batch' = batch
  BY AllMoves, NextTypes DEF Move
<1>2. \A n : Blamed(n) => Blamed(n)'
  BY <1>1, BlameStays DEF HistoryMove
<1>3. \A q \in late' : \A n \in q.names : Blamed(n)'
  BY <1>1, <1>2 DEF HistoryMove, BlameInv
<1>4. \A n \in belated' : Blamed(n)'
  BY <1>1, <1>2 DEF HistoryMove, BlameInv
<1>5. \A n \in Names : Answerable(n)'
  BY <1>1, <1>4, AnswerableStays DEF Answerable
<1> QED BY <1>3, <1>4, <1>5 DEF BlameInv

LEMMA InitBlame == TransferInit => BlameInv
  BY InitUploads DEF BlameInv, Answerable, NoRow

\* No upload turns out to be there already.
NoneExists == \A u \in Uploads : up'[u].pc = "exists" => up[u].pc = "exists"

LEMMA MovesElsewhere ==
    ASSUME NEW u \in Uploads, NEW pc, Moves(u, pc), pc # "exists"
    PROVE  NoneExists
  BY DEF NoneExists, Moves

LEMMA LoseElsewhere ==
    ASSUME UploadsTypeOK, NEW u \in Uploads, NEW call, NEW names, NEW tries,
           NEW pc \in {"failed", "noSpace"}, LoseCall(u, call, names, tries, pc)
    PROVE  NoneExists
<1>1. up \in [Uploads -> Upload]
  BY DEF UploadsTypeOK
<1>2. up' = [up EXCEPT ![u].try = @ + 1] \/ up' = [up EXCEPT ![u].pc = pc, ![u].try = 1]
  BY DEF LoseCall
<1> QED BY <1>1, <1>2 DEF NoneExists, Upload

LEMMA CliExists ==
    ASSUME Typed, CliNext, NEW u \in Uploads, up[u].pc # "exists", up'[u].pc = "exists"
    PROVE  ~Holding(u) /\ u \in CliFiles /\ ~Reservable({NameOf[u]})
<1> SUFFICES ASSUME NEW c \in DOMAIN Commands,
                    AbortCommand(c) \/ Kill(c) \/ \E v \in Commands[c] : StartUpload(c, v) \/ CliStep(v)
             PROVE  NoneExists \/ (u \in CliFiles /\ FileExists(u))
  BY DEF CliNext, NoneExists, FileExists, At, Holding, HoldingPcs
<1>1. UploadsTypeOK /\ up \in [Uploads -> Upload]
  BY DEF Typed, UploadsTypeOK
<1>2. CASE AbortCommand(c) \/ Kill(c)
  BY <1>1, <1>2 DEF AbortCommand, Kill, NoneExists, Upload
<1>3. ASSUME NEW v \in Commands[c], StartUpload(c, v) \/ CliStep(v)
      PROVE  NoneExists \/ (u \in CliFiles /\ FileExists(u))
  <2>1. v \in Uploads /\ v \in CliFiles
    BY CliFile
  <2>2. ASSUME NEW pc \in {"credentials", "put", "confirm", "failed", "noSpace", "uploaded"}, Goto(v, pc)
        PROVE  NoneExists
    BY <1>1, <2>1, <2>2, GotoMoves, MovesElsewhere, PcFacts
  <2>3. CASE StartUpload(c, v) \/ GetCredentials(v) \/ NoSpace(v) \/ CredentialsFail(v) \/ PutFile(v)
             \/ CancelFails(v) \/ ConfirmUpload(v) \/ ConfirmRefused(v) \/ ConfirmFails(v)
    BY <2>2, <2>3 DEF StartUpload, GetCredentials, NoSpace, CredentialsFail, PutFile, CancelFails,
                      ConfirmUpload, ConfirmRefused, ConfirmFails
  <2>4. CASE FileExists(v)
    <3>1. Moves(v, "exists")
      BY <1>1, <2>1, <2>4, GotoMoves, PcFacts DEF FileExists
    <3> QED BY <2>1, <2>4, <3>1 DEF Moves, NoneExists
  <2>5. CASE CredentialsLost(v) \/ CancelLost(v) \/ ConfirmLost(v)
    BY <1>1, <2>1, <2>5, LoseElsewhere DEF CredentialsLost, CancelLost, ConfirmLost
  <2>6. CASE PutFails(v)
    <3>1. \E full \in BOOLEAN : up' = [up EXCEPT ![v].pc = "cancel", ![v].try = 1, ![v].full = full]
      BY <2>6 DEF PutFails
    <3> QED BY <1>1, <3>1 DEF NoneExists, Upload
  <2>7. CASE CancelUpload(v)
    <3>1. \E pc \in {"credentials", "failed", "noSpace"} : Moves(v, pc)
      BY <2>1, <2>7, AfterCancelMoves DEF CancelUpload
    <3> QED BY <2>1, <3>1, MovesElsewhere
  <2> QED BY <1>3, <2>3, <2>4, <2>5, <2>6, <2>7 DEF CliStep
<1> QED BY <1>2, <1>3

LEMMA WebExists ==
    ASSUME Typed, WebNext, NEW u \in Uploads, up[u].pc # "exists", up'[u].pc = "exists"
    PROVE  ~Holding(u) /\ u \in Items /\ ~Reservable(BatchNames)
<1>1. UploadsTypeOK /\ up \in [Uploads -> Upload] /\ Items \subseteq Uploads
  BY BatchType DEF Typed, UploadsTypeOK
<1>2. ASSUME NEW next \in [Items -> Pcs], SetItems(next), \A v \in Items : next[v] # "exists"
      PROVE  FALSE
  BY <1>2, BatchMoves
<1>3. CASE BatchExists
  <2>1. [v \in Items |-> "exists"] \in [Items -> Pcs]
    BY PcFacts
  <2>2. u \in Items
    BY <1>3, <2>1, BatchMoves DEF BatchExists
  <2> QED BY <1>3, <2>2 DEF BatchExists, BatchPending, At, Holding, HoldingPcs
<1>4. CASE ReserveBatch
  <2> DEFINE next == [v \in Items |-> IF Answered(v) THEN "check" ELSE "ignored"]
  <2>1. next \in [Items -> Pcs] /\ \A v \in Items : next[v] # "exists"
    BY PcFacts
  <2>2. SetItems(next)
    BY <1>4 DEF ReserveBatch
  <2> HIDE DEF next
  <2> QED BY <1>2, <2>1, <2>2
<1>5. CASE ReserveBatchFails \/ ReserveBatchLost
  <2> DEFINE next == [v \in Items |-> "failed"]
  <2>1. next \in [Items -> Pcs] /\ \A v \in Items : next[v] # "exists"
    BY PcFacts
  <2>2. SetItems(next)
    BY <1>5 DEF ReserveBatchFails, ReserveBatchLost
  <2> HIDE DEF next
  <2> QED BY <1>2, <2>1, <2>2
<1>6. CASE CloseTab
  BY <1>1, <1>6 DEF CloseTab, Upload
<1>7. ASSUME NEW v \in Items, ItemStep(v)
      PROVE  FALSE
  <2>1. ASSUME NEW pc \in {"put", "confirm", "abort", "cancel", "failed", "uploaded"}, Goto(v, pc)
        PROVE  NoneExists
    BY <1>1, <2>1, GotoMoves, MovesElsewhere, PcFacts
  <2>2. CASE CallFails(v)
    BY <1>1, <2>1, <2>2, LoseElsewhere DEF CallFails, NoneExists
  <2>3. CASE ~CallFails(v)
    BY <1>7, <2>1, <2>3 DEF ItemStep, WebCheck, CompleteUpload, PartFails, CompletionLost, AbortUpload,
                            AbortFails, WebCancel, WebConfirm, ConfirmRejected, NoneExists
  <2> QED BY <2>2, <2>3
<1> QED BY <1>3, <1>4, <1>5, <1>6, <1>7 DEF WebNext

\* A name that cannot be reserved is there, is held, or somebody is to blame.
LEMMA TakenBySomebody ==
    ASSUME TypeInv, BlameInv, NEW u \in Uploads, ~Holding(u), NEW names \in SUBSET Names, ~Reservable(names)
    PROVE  \E n \in names : \/ row[n].state \in {"OK", "CORRUPTED"}
                            \/ WorkingOn(n) \ {u} # {}
                            \/ Blamed(n)
<1>1. PICK n \in names : row[n].state \notin {"none", "CANCELED"}
  BY DEF Reservable
<1>2. row[n].state \in {"OK", "CORRUPTED", "UPLOADING", "ERROR"}
  BY <1>1 DEF TypeInv, ServerTypeOK, Row
<1>3. \A v \in Uploads : Holding(v) /\ KeyOf(v) = n => v \in WorkingOn(n) \ {u}
  BY DEF WorkingOn, Holding, HoldingPcs, Working
<1> QED BY <1>2, <1>3 DEF BlameInv, Answerable

\* "already uploaded" is said of a name that is in the mission, that somebody else
\* is uploading, or that an upload which was cut off, or may not be canceled, has
\* left reserved: an attempt never meets the reservation of the attempt before.
THEOREM SkippedIsThere == TransferSpec => SkippedIsUploaded
<1>1. TypeInv /\ BlameInv /\ [TransferNext]_transferVars =>
        [\A u \in Uploads : ~At(u, "exists") /\ up'[u].pc = "exists" =>
            \E n \in IF u \in Items THEN BatchNames ELSE {NameOf[u]} :
                \/ row[n].state \in {"OK", "CORRUPTED"}
                \/ WorkingOn(n) \ {u} # {}
                \/ \E v \in Uploads : Leaves(v) /\ n \in {NameOf[v], KeyOf(v)}]_transferVars
  <2> SUFFICES ASSUME TypeInv, BlameInv, TransferNext, ~UNCHANGED transferVars,
                      NEW u \in Uploads, up[u].pc # "exists", up'[u].pc = "exists"
               PROVE  \E n \in IF u \in Items THEN BatchNames ELSE {NameOf[u]} :
                          \/ row[n].state \in {"OK", "CORRUPTED"}
                          \/ WorkingOn(n) \ {u} # {}
                          \/ Blamed(n)
    BY DEF At, Blamed
  <2>1. (CliNext \/ WebNext) /\ batch' = batch
    BY DEF TransferNext, uploadVars
  <2>2. Typed /\ (u \in CliFiles => u \notin Items)
    BY <2>1, BatchType DEF TypeInv, Typed
  <2> DEFINE names == IF u \in Items THEN BatchNames ELSE {NameOf[u]}
  <2>3. ~Holding(u) /\ ~Reservable(names)
    BY <2>1, <2>2, CliExists, WebExists
  <2>4. names \in SUBSET Names
    BY NameType, BatchType DEF TypeInv
  <2> HIDE DEF names
  <2>5. \E n \in names : \/ row[n].state \in {"OK", "CORRUPTED"}
                         \/ WorkingOn(n) \ {u} # {}
                         \/ Blamed(n)
    BY <2>3, <2>4, TakenBySomebody
  <2> QED BY <2>5 DEF names
<1>2. TypeInv /\ UploadInv /\ BlameInv /\ [TransferNext]_transferVars => TypeInv' /\ UploadInv' /\ BlameInv'
  BY NextTypes, UploadInvStays, BlameInvStays
<1> QED BY <1>1, <1>2, InitTypes, InitUploadInv, InitBlame, PTL DEF TransferSpec, SkippedIsUploaded
=============================================================================
