----------------------------- MODULE AccessProofs -----------------------------
(***************************************************************************)
(* Theorems about AccessSystem, for every number of users, groups,         *)
(* requests, restarts and access configurations: type correctness; that a  *)
(* project keeps a group with DELETE rights, and a group an editor; whose  *)
(* rights a request may give; what a purged membership is worth; and what  *)
(* a start of the server achieves.                                         *)
(***************************************************************************)
EXTENDS AccessSystem, FiniteSetTheorems, TLAPS

-----------------------------------------------------------------------------
(* Memberships.                                                            *)

LEMMA NewMembershipType ==
    \A edit \in BOOLEAN, expires \in {"never", "later", "past"} :
        NewMembership(edit, expires) \in Membership
  BY DEF NewMembership, Membership, Presence

LEMMA NoMembershipType == NoMembership \in Membership
  BY DEF NoMembership, Membership, Presence

LEMMA MemberType ==
    ASSUME AccessStoreTypeOK, NEW g \in Groups, NEW u \in Users
    PROVE  member[g] \in [Users -> Membership] /\ member[g][u] \in Membership
  BY DEF AccessStoreTypeOK

LEMMA PutType ==
    ASSUME AccessStoreTypeOK, NEW g \in Groups, NEW u \in Users, NEW m \in Membership,
           PutMembership(g, u, m)
    PROVE  member' \in [Groups -> [Users -> Membership]]
<1>1. member \in [Groups -> [Users -> Membership]]
  BY DEF AccessStoreTypeOK
<1>2. [member[g] EXCEPT ![u] = m] \in [Users -> Membership]
  BY <1>1
<1>3. member' = [member EXCEPT ![g] = [member[g] EXCEPT ![u] = m]]
  BY DEF PutMembership
<1> QED BY <1>1, <1>2, <1>3

LEMMA DropType ==
    ASSUME AccessStoreTypeOK, NEW g, NEW us, DropMemberships(g, us)
    PROVE  member' \in [Groups -> [Users -> Membership]]
<1>1. member \in [Groups -> [Users -> Membership]]
  BY DEF AccessStoreTypeOK
<1>2. CASE g \in Groups
  <2>1. [u \in Users |-> IF u \in us THEN NoMembership ELSE member[g][u]] \in [Users -> Membership]
    BY <1>1, <1>2, NoMembershipType
  <2> QED BY <1>1, <2>1 DEF DropMemberships
<1>3. CASE g \notin Groups
  BY <1>1, <1>3 DEF DropMemberships
<1> QED BY <1>2, <1>3

LEMMA EditorsType == \A g : Editors(g) \subseteq Users
  BY DEF Editors

LEMMA RightsOfType == \A u : RightsOf(u) \subseteq Rights
  BY DEF RightsOf

-----------------------------------------------------------------------------
(* The local variables of the requests.                                    *)

\* What a request is about to write, is more than what it has read.
Raising(e) == e.pc = "grant" => e.row < e.rights

RequestInv == \A r \in Requests : Raising(req[r])

RequestsOK == AccessRequestsTypeOK /\ RequestInv

LEMMA NoRequestType == NoRequest \in AccessRequest /\ NoRequest.pc = "idle"
  BY NoMembershipType
  DEF NoRequest, AccessRequest, AccessPc, Rights, READ, CREATE, WRITE, DELETE, NoAccess

\* req changes as a whole, each request into one of the type.
LEMMA RequestsSet ==
    ASSUME RequestsOK, req' \in [Requests -> AccessRequest],
           \A r \in Requests : Raising(req'[r]),
           served' \in 0..MaxRequests, agenda' \in Agendas,
           expected' \in [Users -> SUBSET Affiliations], raced' \subseteq Groups,
           relinquished' \in BOOLEAN
    PROVE  RequestsOK'
<1>1. RequestInv'
  BY DEF RequestInv, Raising
<1> QED BY <1>1 DEF RequestsOK, AccessRequestsTypeOK

LEMMA RequestSet ==
    ASSUME RequestsOK, NEW r \in Requests, NEW e \in AccessRequest, Raising(e),
           req' = [req EXCEPT ![r] = e],
           served' \in 0..MaxRequests, agenda' \in Agendas,
           expected' \in [Users -> SUBSET Affiliations], raced' \subseteq Groups,
           relinquished' \in BOOLEAN
    PROVE  RequestsOK'
<1>1. req \in [Requests -> AccessRequest]
  BY DEF RequestsOK, AccessRequestsTypeOK
<1>2. req' \in [Requests -> AccessRequest]
  BY <1>1
<1>3. \A q \in Requests : Raising(req'[q])
  BY <1>1 DEF RequestsOK, RequestInv
<1> QED BY <1>2, <1>3, RequestsSet

LEMMA SetLocals ==
    ASSUME RequestsOK, NEW r \in Requests, NEW e \in AccessRequest, Raising(e), Set(r, e),
           UNCHANGED History
    PROVE  RequestsOK'
  BY RequestSet DEF Set, History, RequestsOK, AccessRequestsTypeOK

LEMMA AnswerLocals ==
    ASSUME RequestsOK, NEW r \in Requests, Answer(r), UNCHANGED History
    PROVE  RequestsOK'
  BY NoRequestType, SetLocals DEF Answer, Raising

LEMMA BeginLocals ==
    ASSUME RequestsOK, NEW r \in Requests, NEW kind, NEW locals \in AccessRequest,
           Raising(locals), Begin(r, kind, locals)
    PROVE  RequestsOK'
<1>1. served' \in 0..MaxRequests
  BY AccessRequestsAssumption DEF Begin, RequestsOK, AccessRequestsTypeOK
<1> QED BY <1>1, RequestSet DEF Begin, RequestsOK, AccessRequestsTypeOK

LEMMA BeginOnGroupLocals ==
    ASSUME RequestsOK, NEW r \in Requests, NEW kind, NEW u \in Users, NEW g \in Groups,
           NEW locals \in AccessRequest, locals.pc # "grant", BeginOnGroup(r, kind, u, g, locals)
    PROVE  RequestsOK' /\ UNCHANGED accessStoreVars
<1> DEFINE e == [locals EXCEPT !.by = {u}, !.on = {g}]
<1>1. e \in AccessRequest /\ Raising(e)
  BY DEF AccessRequest, Raising
<1>2. Begin(r, kind, e) /\ UNCHANGED accessStoreVars
  BY DEF BeginOnGroup
<1> HIDE DEF e
<1> QED BY <1>1, <1>2, BeginLocals

LEMMA BeginOnProjectLocals ==
    ASSUME RequestsOK, NEW r \in Requests, NEW kind, NEW u \in Users, NEW guard,
           NEW locals \in AccessRequest, locals.pc # "grant",
           BeginOnProject(r, kind, u, guard, locals)
    PROVE  RequestsOK' /\ UNCHANGED accessStoreVars
<1> DEFINE e == [locals EXCEPT !.by = {u}, !.had = RightsOf(u)]
<1>1. e \in AccessRequest /\ Raising(e)
  BY RightsOfType DEF AccessRequest, Raising
<1>2. Begin(r, kind, e) /\ UNCHANGED accessStoreVars
  BY DEF BeginOnProject
<1> HIDE DEF e
<1> QED BY <1>1, <1>2, BeginLocals

\* A replacement, a removal or a dissolution takes other requests' rows away.
LEMMA LosingType ==
    ASSUME NEW reqs \in [Requests -> AccessRequest], \A r \in Requests : Raising(reqs[r]), NEW rows
    PROVE  /\ Losing(rows, reqs) \in [Requests -> AccessRequest]
           /\ \A r \in Requests : Raising(Losing(rows, reqs)[r])
<1>1. ASSUME NEW r \in Requests
      PROVE  /\ [reqs[r] EXCEPT !.old = @ \ rows] \in AccessRequest
             /\ Raising([reqs[r] EXCEPT !.old = @ \ rows])
  <2>1. reqs[r] \in AccessRequest /\ Raising(reqs[r]) OBVIOUS
  <2> QED BY <2>1 DEF AccessRequest, Raising
<1> QED BY <1>1, NoRequestType DEF Losing, Raising

LEMMA DroppingType ==
    ASSUME NEW reqs \in [Requests -> AccessRequest], \A r \in Requests : Raising(reqs[r]), NEW g, NEW us
    PROVE  /\ Dropping(g, us, reqs) \in [Requests -> AccessRequest]
           /\ \A r \in Requests : Raising(Dropping(g, us, reqs)[r])
  BY NoRequestType DEF Dropping, Raising

LEMMA AnsweredType ==
    ASSUME RequestsOK, NEW r \in Requests
    PROVE  /\ [req EXCEPT ![r] = NoRequest] \in [Requests -> AccessRequest]
           /\ \A q \in Requests : Raising([req EXCEPT ![r] = NoRequest][q])
  BY NoRequestType DEF RequestsOK, AccessRequestsTypeOK, RequestInv, Raising

-----------------------------------------------------------------------------
(* The requests.                                                           *)

\* A project has an owner, unless a request has given that away.
Owned == (\E g \in Groups : access[g] = DELETE) \/ relinquished

AccessOK == AccessStoreTypeOK /\ RequestsOK /\ Owned

LEMMA StoreUnchanged ==
    ASSUME AccessStoreTypeOK, Owned, UNCHANGED accessStoreVars, relinquished => relinquished'
    PROVE  AccessStoreTypeOK' /\ Owned'
  BY DEF AccessStoreTypeOK, Owned, accessStoreVars

LEMMA MemberChanged ==
    ASSUME AccessStoreTypeOK, Owned, UNCHANGED <<group, access>>,
           member' \in [Groups -> [Users -> Membership]], relinquished => relinquished'
    PROVE  AccessStoreTypeOK' /\ Owned'
  BY DEF AccessStoreTypeOK, Owned

LEMMA BeginQuiet ==
    ASSUME NEW r, NEW kind, NEW locals, Begin(r, kind, locals)
    PROVE  UNCHANGED relinquished
  BY DEF Begin

LEMMA ReceiveOK ==
    ASSUME AccessOK, NEW r \in Requests, AccessReceive(r)
    PROVE  AccessOK'
<1>0. AccessStoreTypeOK /\ RequestsOK /\ Owned
  BY DEF AccessOK
<1>1. ASSUME NEW kind, NEW u \in Users, NEW g \in Groups, NEW locals \in AccessRequest,
             locals.pc # "grant", BeginOnGroup(r, kind, u, g, locals)
      PROVE  AccessOK'
  <2>1. RequestsOK' /\ UNCHANGED accessStoreVars
    BY <1>0, <1>1, BeginOnGroupLocals
  <2>2. UNCHANGED relinquished
    BY <1>1, BeginQuiet DEF BeginOnGroup
  <2> QED BY <1>0, <2>1, <2>2, StoreUnchanged DEF AccessOK
<1>2. ASSUME NEW kind, NEW u \in Users, NEW guard, NEW locals \in AccessRequest,
             locals.pc # "grant", BeginOnProject(r, kind, u, guard, locals)
      PROVE  AccessOK'
  <2>1. RequestsOK' /\ UNCHANGED accessStoreVars
    BY <1>0, <1>2, BeginOnProjectLocals
  <2>2. UNCHANGED relinquished
    BY <1>2, BeginQuiet DEF BeginOnProject
  <2> QED BY <1>0, <2>1, <2>2, StoreUnchanged DEF AccessOK
<1>3. CASE CreateAccessGroup(r)
  <2>1. PICK u \in Users, g \in Groups :
            /\ Begin(r, "create", NoRequest)
            /\ group' = [group EXCEPT ![g] = "live"]
            /\ PutMembership(g, u, NewMembership(TRUE, "never"))
            /\ UNCHANGED access
    BY <1>3 DEF CreateAccessGroup
  <2>2. RequestsOK' /\ UNCHANGED relinquished
    BY <1>0, <2>1, NoRequestType, BeginLocals, BeginQuiet DEF Raising
  <2>3. member' \in [Groups -> [Users -> Membership]]
    <3>1. NewMembership(TRUE, "never") \in Membership
      BY NewMembershipType
    <3> QED BY <1>0, <2>1, <3>1, PutType
  <2>4. AccessStoreTypeOK'
    BY <1>0, <2>1, <2>3 DEF AccessStoreTypeOK, Presence
  <2> QED BY <1>0, <2>1, <2>2, <2>4 DEF AccessOK, Owned
<1>4. CASE AddUser(r)
  <2>1. PICK by, u \in Users, g \in Groups, edit \in BOOLEAN, expires \in {"never", "later"} :
        BeginOnGroup(r, "join", by, g, [NoRequest EXCEPT !.pc = "join", !.users = {u},
                                                         !.edit = edit, !.expires = expires])
    BY <1>4 DEF AddUser
  <2>2. LET e == [NoRequest EXCEPT !.pc = "join", !.users = {u}, !.edit = edit, !.expires = expires]
        IN e \in AccessRequest /\ e.pc = "join"
    BY NoRequestType DEF AccessRequest, AccessPc
  <2> QED BY <1>1, <2>1, <2>2
<1>5. CASE RemoveUsers(r)
  <2>1. PICK by \in Users, us \in SUBSET Users, g \in Groups :
        BeginOnGroup(r, "leave", by, g, [NoRequest EXCEPT !.pc = "count", !.users = us])
    BY <1>5 DEF RemoveUsers
  <2>2. LET e == [NoRequest EXCEPT !.pc = "count", !.users = us]
        IN e \in AccessRequest /\ e.pc = "count"
    BY NoRequestType DEF AccessRequest, AccessPc
  <2> QED BY <1>1, <2>1, <2>2
<1>6. CASE SetCanEdit(r)
  <2>1. PICK by, u \in Users, g \in Groups, edit \in BOOLEAN :
        BeginOnGroup(r, "permit", by, g,
                [NoRequest EXCEPT !.pc = IF edit THEN "promote" ELSE "permit", !.users = {u},
                                  !.edit = edit, !.seen = member[g][u]])
    BY <1>6 DEF SetCanEdit
  <2>2. member[g][u] \in Membership
    BY <1>0, MemberType
  <2>3. \A pc \in {"promote", "permit"} :
        LET e == [NoRequest EXCEPT !.pc = pc, !.users = {u}, !.edit = edit, !.seen = member[g][u]]
        IN e \in AccessRequest /\ e.pc = pc
    BY <2>2, NoRequestType DEF AccessRequest, AccessPc
  <2> QED BY <1>1, <2>1, <2>3
<1>7. CASE SetExpireDate(r)
  <2>1. PICK by, u \in Users, g \in Groups, expires \in {"never", "later"} :
        BeginOnGroup(r, "expire", by, g, [NoRequest EXCEPT !.pc = "expire", !.users = {u},
                        !.expires = expires, !.seen = member[g][u], !.editors = Editors(g)])
    BY <1>7 DEF SetExpireDate
  <2>2. member[g][u] \in Membership
    BY <1>0, MemberType
  <2>3. LET e == [NoRequest EXCEPT !.pc = "expire", !.users = {u}, !.expires = expires,
                                   !.seen = member[g][u], !.editors = Editors(g)]
        IN e \in AccessRequest /\ e.pc = "expire"
    BY <2>2, NoRequestType, EditorsType DEF AccessRequest, AccessPc
  <2> QED BY <1>1, <2>1, <2>3
<1>8. CASE DeleteAccessGroup(r)
  <2>1. PICK u \in Users, g \in Groups :
        BeginOnGroup(r, "dissolve", u, g, [NoRequest EXCEPT !.pc = "dissolve"])
    BY <1>8 DEF DeleteAccessGroup
  <2>2. LET e == [NoRequest EXCEPT !.pc = "dissolve"] IN e \in AccessRequest /\ e.pc = "dissolve"
    BY NoRequestType DEF AccessRequest, AccessPc
  <2> QED BY <1>1, <2>1, <2>2
<1>9. CASE SignIn(r)
  <2>1. PICK u \in Users : \E g \in expected[u] :
        /\ Begin(r, "signIn", [NoRequest EXCEPT !.pc = "affiliate", !.on = {g}, !.users = {u}])
        /\ UNCHANGED accessStoreVars
    BY <1>9 DEF SignIn
  <2>2. PICK g \in expected[u] :
        /\ Begin(r, "signIn", [NoRequest EXCEPT !.pc = "affiliate", !.on = {g}, !.users = {u}])
        /\ UNCHANGED accessStoreVars
    BY <2>1
  <2> DEFINE e == [NoRequest EXCEPT !.pc = "affiliate", !.on = {g}, !.users = {u}]
  <2>3. g \in Groups
    BY <1>0 DEF RequestsOK, AccessRequestsTypeOK, Affiliations
  <2>4. e \in AccessRequest /\ Raising(e)
    BY <2>3, NoRequestType DEF AccessRequest, AccessPc, Raising
  <2>5. Begin(r, "signIn", e) /\ UNCHANGED accessStoreVars
    BY <2>2
  <2> HIDE DEF e
  <2>6. RequestsOK' /\ UNCHANGED relinquished
    BY <1>0, <2>4, <2>5, BeginLocals, BeginQuiet
  <2> QED BY <1>0, <2>5, <2>6, StoreUnchanged DEF AccessOK
<1>10. CASE AddGroupToProject(r)
  <2>1. PICK u \in Users, g \in Groups, rights \in Asked :
        BeginOnProject(r, "grant", u, WRITE,
                [NoRequest EXCEPT !.pc = IF rights = DELETE THEN "check" ELSE "find",
                                  !.on = {g}, !.rights = rights])
    BY <1>10 DEF AddGroupToProject
  <2>2. rights \in Rights
    BY AccessRequestsAssumption
  <2>3. \A pc \in {"check", "find"} :
        LET e == [NoRequest EXCEPT !.pc = pc, !.on = {g}, !.rights = rights]
        IN e \in AccessRequest /\ e.pc = pc
    BY <2>2, NoRequestType DEF AccessRequest, AccessPc
  <2> QED BY <1>2, <2>1, <2>3
<1>11. CASE RemoveGroup(r)
  <2>1. PICK u \in Users, g \in Groups :
        BeginOnProject(r, "revoke", u, DELETE, [NoRequest EXCEPT !.pc = "mayRevoke", !.on = {g}])
    BY <1>11 DEF RemoveGroup
  <2>2. LET e == [NoRequest EXCEPT !.pc = "mayRevoke", !.on = {g}]
        IN e \in AccessRequest /\ e.pc = "mayRevoke"
    BY NoRequestType DEF AccessRequest, AccessPc
  <2> QED BY <1>2, <2>1, <2>2
<1>12. CASE UpdateProjectAccess(r)
  <2>1. PICK u \in Users, new \in [Groups -> Asked \cup {NoAccess}] :
        BeginOnProject(r, "replace", u, WRITE, [NoRequest EXCEPT !.pc = "rights", !.new = new])
    BY <1>12 DEF UpdateProjectAccess
  <2>2. new \in [Groups -> Rights \cup {NoAccess}]
    BY AccessRequestsAssumption
  <2>3. LET e == [NoRequest EXCEPT !.pc = "rights", !.new = new]
        IN e \in AccessRequest /\ e.pc = "rights"
    BY <2>2, NoRequestType DEF AccessRequest, AccessPc
  <2> QED BY <1>2, <2>1, <2>3
<1> QED BY <1>3, <1>4, <1>5, <1>6, <1>7, <1>8, <1>9, <1>10, <1>11, <1>12 DEF AccessReceive

\* Steps that write nothing, or only memberships.
LEMMA QuietOK ==
    ASSUME AccessOK, UNCHANGED accessStoreVars, UNCHANGED relinquished, RequestsOK'
    PROVE  AccessOK'
  BY StoreUnchanged DEF AccessOK

LEMMA MemberOK ==
    ASSUME AccessOK, UNCHANGED <<group, access>>, UNCHANGED relinquished,
           member' \in [Groups -> [Users -> Membership]], RequestsOK'
    PROVE  AccessOK'
  BY MemberChanged DEF AccessOK

LEMMA SaveMembershipOK ==
    ASSUME AccessOK, NEW r \in Requests, NEW edit \in BOOLEAN,
           NEW expires \in {"never", "later", "past"}, SaveMembership(r, edit, expires)
    PROVE  AccessOK'
<1>1. AccessStoreTypeOK /\ RequestsOK /\ req[r] \in AccessRequest
  BY DEF AccessOK, RequestsOK, AccessRequestsTypeOK
<1>2. PICK g \in req[r].on, u \in req[r].users :
        /\ PutMembership(g, u, [row |-> member[g][u].row, edit |-> edit, expires |-> expires])
        /\ raced' = IF member[g][u] # req[r].seen \/ (~edit /\ Editors(g) # req[r].editors)
                    THEN raced \cup {g} ELSE raced
        /\ Answer(r)
        /\ Quietly /\ UNCHANGED <<group, access>>
  BY DEF SaveMembership
<1>3. g \in Groups /\ u \in Users
  BY <1>1 DEF AccessRequest
<1>4. [row |-> member[g][u].row, edit |-> edit, expires |-> expires] \in Membership
  <2>1. member[g][u] \in Membership BY <1>1, <1>3, MemberType
  <2> QED BY <2>1 DEF Membership
<1>5. member' \in [Groups -> [Users -> Membership]]
  BY <1>1, <1>2, <1>3, <1>4, PutType
<1>6. RequestsOK'
  <2>1. raced' \subseteq Groups
    BY <1>1, <1>2, <1>3 DEF RequestsOK, AccessRequestsTypeOK
  <2>2. req' = [req EXCEPT ![r] = NoRequest]
    BY <1>2 DEF Answer, Set
  <2> QED BY <1>1, <1>2, <2>1, <2>2, NoRequestType, RequestSet
          DEF Quietly, Raising, RequestsOK, AccessRequestsTypeOK
<1> QED BY <1>2, <1>5, <1>6, MemberOK DEF Quietly

LEMMA OwnAccessMax ==
    ASSUME AccessStoreTypeOK, NEW u \in Users, OwnAccess(u) # {}
    PROVE  (CHOOSE own \in OwnAccess(u) : \A o \in OwnAccess(u) : own >= o) \in Rights
<1>1. OwnAccess(u) \subseteq {WRITE, DELETE}
  BY DEF OwnAccess, AccessStoreTypeOK, Rights, READ, CREATE, WRITE, DELETE, NoAccess
<1>2. \E own \in OwnAccess(u) : \A o \in OwnAccess(u) : own >= o
  <2>1. CASE DELETE \in OwnAccess(u)
    BY <1>1, <2>1 DEF WRITE, DELETE
  <2>2. CASE DELETE \notin OwnAccess(u)
    <3>1. OwnAccess(u) = {WRITE} BY <1>1, <2>2
    <3> QED BY <3>1 DEF WRITE
  <2> QED BY <2>1, <2>2
<1>3. (CHOOSE own \in OwnAccess(u) : \A o \in OwnAccess(u) : own >= o) \in OwnAccess(u)
  BY <1>2
<1> QED BY <1>1, <1>3 DEF Rights

LEMMA ContinueOK ==
    ASSUME AccessOK, NEW r \in Requests, AccessContinue(r)
    PROVE  AccessOK'
<1>0. AccessStoreTypeOK /\ RequestsOK /\ Owned
  BY DEF AccessOK
<1>1. /\ req \in [Requests -> AccessRequest] /\ req[r] \in AccessRequest /\ Raising(req[r])
      /\ req[r].seen \in Membership
  BY <1>0 DEF RequestsOK, AccessRequestsTypeOK, RequestInv, AccessRequest
<1>2. /\ served \in 0..MaxRequests /\ agenda \in Agendas
      /\ expected \in [Users -> SUBSET Affiliations] /\ raced \subseteq Groups
      /\ relinquished \in BOOLEAN
  BY <1>0 DEF RequestsOK, AccessRequestsTypeOK
<1>3. ASSUME Answer(r), UNCHANGED <<accessStoreVars, History>> PROVE AccessOK'
  <2>1. UNCHANGED accessStoreVars /\ UNCHANGED History /\ UNCHANGED relinquished
    BY <1>3 DEF History
  <2> QED BY <1>0, <1>3, <2>1, AnswerLocals, QuietOK
<1>4. ASSUME NEW e \in AccessRequest, Raising(e), Set(r, e), UNCHANGED <<accessStoreVars, History>>
      PROVE  AccessOK'
  <2>1. UNCHANGED accessStoreVars /\ UNCHANGED History /\ UNCHANGED relinquished
    BY <1>4 DEF History
  <2> QED BY <1>0, <1>4, <2>1, SetLocals, QuietOK
<1>5. ASSUME Answer(r), UNCHANGED <<group, access, History>>,
             member' \in [Groups -> [Users -> Membership]]
      PROVE  AccessOK'
  <2>1. UNCHANGED History /\ UNCHANGED relinquished /\ UNCHANGED <<group, access>>
    BY <1>5 DEF History
  <2>2. RequestsOK'
    BY <1>0, <1>5, <2>1, AnswerLocals
  <2> QED BY <1>5, <2>1, <2>2, MemberOK
<1>6. CASE AddUserCommit(r) \/ Affiliate(r)
  <2>1. \E g \in req[r].on, u \in req[r].users, m \in Membership :
            PutMembership(g, u, m) \/ UNCHANGED member
    <3>1. /\ NewMembership(req[r].edit, req[r].expires) \in Membership
          /\ NewMembership(FALSE, "never") \in Membership
      BY <1>1, NewMembershipType DEF AccessRequest
    <3> QED BY <1>6, <3>1 DEF AddUserCommit, Affiliate
  <2>2. req[r].on \subseteq Groups /\ req[r].users \subseteq Users
    BY <1>1 DEF AccessRequest
  <2>3. member' \in [Groups -> [Users -> Membership]]
    BY <1>0, <2>1, <2>2, PutType DEF AccessStoreTypeOK
  <2> QED BY <1>5, <1>6, <2>3 DEF AddUserCommit, Affiliate
<1>7. CASE CountEditors(r) \/ MayDemote(r)
  <2>1. \E pc \in {"leave", "demote"}, g \in req[r].on :
            Answer(r) \/ Set(r, [req[r] EXCEPT !.pc = pc, !.editors = Editors(g)])
    BY <1>7 DEF CountEditors, MayDemote
  <2>2. \A pc \in {"leave", "demote"}, g \in req[r].on :
            LET e == [req[r] EXCEPT !.pc = pc, !.editors = Editors(g)]
            IN e \in AccessRequest /\ Raising(e)
    BY ZenonT(60), <1>1, EditorsType DEF AccessRequest, AccessPc, Raising
  <2>3. UNCHANGED <<accessStoreVars, History>>
    BY <1>7 DEF CountEditors, MayDemote
  <2> QED BY <1>3, <1>4, <2>1, <2>2, <2>3
<1>8. CASE RemoveUsersCommit(r)
  <2>1. PICK g \in req[r].on :
        /\ DropMemberships(g, req[r].users)
        /\ raced' = IF Editors(g) # req[r].editors THEN raced \cup {g} ELSE raced
        /\ req' = Dropping(g, req[r].users, [req EXCEPT ![r] = NoRequest])
    BY <1>8 DEF RemoveUsersCommit
  <2>2. g \in Groups BY <1>1 DEF AccessRequest
  <2>3. member' \in [Groups -> [Users -> Membership]]
    BY <1>0, <2>1, DropType
  <2>4. req' \in [Requests -> AccessRequest] /\ \A q \in Requests : Raising(req'[q])
    BY <1>0, <2>1, AnsweredType, DroppingType
  <2>5. raced' \subseteq Groups
    BY <1>2, <2>1, <2>2
  <2>6. UNCHANGED <<served, agenda, expected, relinquished>> /\ UNCHANGED <<group, access>>
    BY <1>8 DEF RemoveUsersCommit, Quietly
  <2>7. RequestsOK'
    BY <1>0, <1>2, <2>4, <2>5, <2>6, RequestsSet
  <2> QED BY <2>3, <2>6, <2>7, MemberOK
<1>9. CASE SetCanEditSave(r) \/ SetExpireDateSave(r)
  <2>1. /\ req[r].seen.expires \in {"never", "later", "past"} /\ req[r].seen.edit \in BOOLEAN
        /\ req[r].expires \in {"never", "later", "past"}
    BY <1>1 DEF AccessRequest, Membership
  <2> QED BY <1>9, <2>1, SaveMembershipOK DEF SetCanEditSave, SetExpireDateSave
<1>10. CASE Dissolve(r)
  <2>0. UNCHANGED access /\ UNCHANGED History
    BY <1>10 DEF Dissolve
  <2>1. PICK g \in req[r].on :
        \/ access[g] # NoAccess /\ Answer(r) /\ UNCHANGED <<group, member>>
        \/ /\ group' = [group EXCEPT ![g] = "gone"]
           /\ DropMemberships(g, Users)
           /\ req' = Dropping(g, Users, [req EXCEPT ![r] = NoRequest])
    BY <1>10 DEF Dissolve
  <2>2. CASE Answer(r) /\ UNCHANGED <<group, member>>
    BY <1>3, <2>0, <2>2 DEF accessStoreVars
  <2>3. CASE /\ group' = [group EXCEPT ![g] = "gone"]
             /\ DropMemberships(g, Users)
             /\ req' = Dropping(g, Users, [req EXCEPT ![r] = NoRequest])
    <3>1. req' \in [Requests -> AccessRequest] /\ \A q \in Requests : Raising(req'[q])
      BY <1>0, <2>3, AnsweredType, DroppingType
    <3>2. RequestsOK'
      BY <1>0, <1>2, <2>0, <3>1, RequestsSet DEF History
    <3>3. member' \in [Groups -> [Users -> Membership]]
      BY <1>0, <2>3, DropType
    <3>4. group' \in [Groups -> Presence]
      BY <1>0, <2>3 DEF AccessStoreTypeOK, Presence
    <3>5. AccessStoreTypeOK'
      BY <1>0, <2>0, <3>3, <3>4 DEF AccessStoreTypeOK
    <3> QED BY <1>0, <2>0, <3>2, <3>5 DEF AccessOK, Owned, History
  <2> QED BY <2>1, <2>2, <2>3
<1>11. CASE CheckDelete(r)
  <2>1. \E u : Answer(r) \/ Set(r, [req[r] EXCEPT !.pc = "find", !.had = @ \cup RightsOf(u)])
    BY <1>11 DEF CheckDelete
  <2>2. \A u : LET e == [req[r] EXCEPT !.pc = "find", !.had = @ \cup RightsOf(u)]
               IN e \in AccessRequest /\ Raising(e)
    BY <1>1, RightsOfType DEF AccessRequest, AccessPc, Raising
  <2> QED BY <1>3, <1>4, <1>11, <2>1, <2>2 DEF CheckDelete
<1>12. CASE FindAccess(r)
  <2>1. PICK g \in req[r].on :
        IF access[g] >= req[r].rights THEN Answer(r)
        ELSE Set(r, [req[r] EXCEPT !.pc = "grant", !.row = access[g]])
    BY <1>12 DEF FindAccess
  <2> DEFINE e == [req[r] EXCEPT !.pc = "grant", !.row = access[g]]
  <2>2. access[g] \in Rights \cup {NoAccess} /\ req[r].rights \in Rights
    BY <1>0, <1>1 DEF AccessRequest, AccessStoreTypeOK
  <2>3. e \in AccessRequest /\ e.row = access[g] /\ e.rights = req[r].rights
    BY <1>1, <2>2 DEF AccessRequest, AccessPc
  <2>4. ~(access[g] >= req[r].rights) => Raising(e)
    BY <2>2, <2>3 DEF Raising, Rights, READ, CREATE, WRITE, DELETE, NoAccess
  <2>5. Answer(r) \/ (Set(r, e) /\ Raising(e))
    BY <2>1, <2>4
  <2> HIDE DEF e
  <2> QED BY <1>3, <1>4, <1>12, <2>3, <2>5 DEF FindAccess
<1>13. CASE GrantAccess(r)
  <2>1. PICK g \in req[r].on :
        /\ IF req[r].row = NoAccess /\ (access[g] # NoAccess \/ ~HasRow(g))
           THEN UNCHANGED access
           ELSE access' = [access EXCEPT ![g] = req[r].rights]
        /\ relinquished' = (relinquished \/ (access[g] # req[r].row /\ access'[g] # access[g]))
    BY <1>13 DEF GrantAccess
  <2>2. g \in Groups /\ req[r].rights \in Rights /\ req[r].row \in Rights \cup {NoAccess}
        /\ req[r].pc = "grant"
    BY <1>1, <1>13 DEF AccessRequest, GrantAccess, At
  <2>3. /\ access \in [Groups -> Rights \cup {NoAccess}]
        /\ UNCHANGED <<group, member, served, agenda, expected, raced>> /\ Answer(r)
    BY <1>0, <1>13 DEF AccessStoreTypeOK, GrantAccess
  <2>4. access' = access \/ access' = [access EXCEPT ![g] = req[r].rights]
    BY <2>1
  <2>5. AccessStoreTypeOK'
    BY <1>0, <2>2, <2>3, <2>4 DEF AccessStoreTypeOK
  <2>6. Owned'
    <3>1. CASE relinquished' BY <3>1 DEF Owned
    <3>2. CASE access' = access /\ ~relinquished'
      BY <1>0, <2>1, <3>2 DEF Owned
    <3>3. CASE access' = [access EXCEPT ![g] = req[r].rights] /\ ~relinquished'
      <4>1. ~relinquished /\ (access[g] = req[r].row \/ req[r].rights = access[g])
        BY <2>1, <2>2, <2>3, <3>3
      <4>2. req[r].row < req[r].rights
        BY <1>1, <2>2 DEF Raising
      <4>3. access[g] = DELETE => req[r].rights = DELETE
        BY <2>2, <4>1, <4>2 DEF Rights, READ, CREATE, WRITE, DELETE, NoAccess
      <4>4. PICK o \in Groups : access[o] = DELETE
        BY <1>0, <4>1 DEF Owned
      <4>5. access'[o] = DELETE
        BY <2>2, <2>3, <3>3, <4>3, <4>4
      <4> QED BY <4>5 DEF Owned
    <3> QED BY <2>4, <3>1, <3>2, <3>3
  <2>7. RequestsOK'
    <3>1. relinquished' \in BOOLEAN BY <2>1
    <3>2. req' = [req EXCEPT ![r] = NoRequest] BY <2>3 DEF Answer, Set
    <3> QED BY <1>0, <1>2, <2>3, <3>1, <3>2, NoRequestType, RequestSet DEF Raising
  <2> QED BY <2>5, <2>6, <2>7 DEF AccessOK
<1>14. CASE MayRevoke(r)
  <2>1. LET e == [req[r] EXCEPT !.pc = "list"] IN e \in AccessRequest /\ Raising(e)
    BY <1>1 DEF AccessRequest, AccessPc, Raising
  <2>2. Answer(r) \/ Set(r, [req[r] EXCEPT !.pc = "list"])
    BY <1>14 DEF MayRevoke, Goto
  <2> QED BY <1>3, <1>4, <1>14, <2>1, <2>2 DEF MayRevoke
<1>15. CASE FindRevoked(r)
  <2>1. PICK g \in req[r].on :
            Answer(r) \/ Set(r, [req[r] EXCEPT !.pc = "revoke", !.row = access[g]])
    BY <1>15 DEF FindRevoked
  <2>2. access[g] \in Rights \cup {NoAccess}
    BY <1>0, <1>1 DEF AccessRequest, AccessStoreTypeOK
  <2>3. LET e == [req[r] EXCEPT !.pc = "revoke", !.row = access[g]]
        IN e \in AccessRequest /\ Raising(e)
    BY <1>1, <2>2 DEF AccessRequest, AccessPc, Raising
  <2> QED BY <1>3, <1>4, <1>15, <2>1, <2>3 DEF FindRevoked
<1>16. CASE RevokeAccess(r)
  <2>1. PICK g \in req[r].on :
        /\ access' = [access EXCEPT ![g] = NoAccess]
        /\ relinquished' = (relinquished \/ access[g] = DELETE)
        /\ req' = Losing({g}, [req EXCEPT ![r] = NoRequest])
    BY <1>16 DEF RevokeAccess
  <2>2. UNCHANGED <<group, member, served, agenda, expected, raced>>
    BY <1>16 DEF RevokeAccess
  <2>3. AccessStoreTypeOK'
    BY <1>0, <2>1, <2>2 DEF AccessStoreTypeOK
  <2>4. Owned'
    BY <1>0, <2>1, <2>2 DEF Owned, AccessStoreTypeOK
  <2>5. req' \in [Requests -> AccessRequest] /\ \A q \in Requests : Raising(req'[q])
    BY <1>0, <2>1, AnsweredType, LosingType
  <2>6. RequestsOK'
    BY <1>0, <1>2, <2>1, <2>2, <2>5, RequestsSet
  <2> QED BY <2>3, <2>4, <2>6 DEF AccessOK
<1>17. CASE ReadOwnRights(r)
  <2>1. PICK u \in req[r].by :
        IF OwnAccess(u) = {} THEN Answer(r)
        ELSE Set(r, [req[r] EXCEPT !.pc = "compare", !.had = @ \cup RightsOf(u),
                        !.lapsed = Lapsed(u),
                        !.row = CHOOSE own \in OwnAccess(u) : \A o \in OwnAccess(u) : own >= o])
    BY <1>17 DEF ReadOwnRights
  <2>2. u \in Users BY <1>1 DEF AccessRequest
  <2>3. CASE OwnAccess(u) = {}
    BY <1>3, <1>17, <2>1, <2>3 DEF ReadOwnRights
  <2>4. CASE OwnAccess(u) # {}
    <3> DEFINE own == CHOOSE own \in OwnAccess(u) : \A o \in OwnAccess(u) : own >= o
               e == [req[r] EXCEPT !.pc = "compare", !.had = @ \cup RightsOf(u),
                                   !.lapsed = Lapsed(u), !.row = own]
    <3>1. own \in Rights /\ Lapsed(u) \in BOOLEAN BY <1>0, <2>2, <2>4, OwnAccessMax DEF Lapsed
    <3>2. Set(r, e) BY <2>1, <2>4
    <3> HIDE DEF own
    <3>3. e \in AccessRequest /\ Raising(e)
      BY <1>1, <3>1, RightsOfType DEF AccessRequest, AccessPc, Raising
    <3> HIDE DEF e
    <3> QED BY <1>4, <1>17, <3>2, <3>3 DEF ReadOwnRights
  <2> QED BY <2>3, <2>4
<1>18. CASE CompareRights(r)
  <2>1. LET e == [req[r] EXCEPT !.pc = "delete", !.kept = {g \in Groups : req[r].new[g] = access[g]}]
        IN e \in AccessRequest /\ Raising(e)
    BY <1>1 DEF AccessRequest, AccessPc, Raising
  <2>2. \/ Answer(r)
        \/ Set(r, [req[r] EXCEPT !.pc = "delete", !.kept = {g \in Groups : req[r].new[g] = access[g]}])
    BY <1>18 DEF CompareRights
  <2> QED BY <1>3, <1>4, <1>18, <2>1, <2>2 DEF CompareRights
<1>19. CASE DeleteAccess(r)
  <2> DEFINE e == [req[r] EXCEPT !.pc = "replace", !.old = {g \in Groups : access[g] # NoAccess}]
  <2>1. e \in AccessRequest /\ Raising(e)
    BY <1>1 DEF AccessRequest, AccessPc, Raising
  <2>2. Set(r, e)
    BY <1>19 DEF DeleteAccess
  <2> HIDE DEF e
  <2> QED BY <1>4, <1>19, <2>1, <2>2 DEF DeleteAccess
<1>20. CASE ReplaceAccess(r)
  <2>1. UNCHANGED <<group, member>> /\ UNCHANGED History
    BY <1>20 DEF ReplaceAccess
  <2>2. CASE UNCHANGED access /\ Answer(r)
    BY <1>3, <2>1, <2>2 DEF accessStoreVars
  <2>3. CASE /\ \E g \in Groups : Replaced(r)[g] = DELETE
             /\ access' = Replaced(r)
             /\ req' = Losing(req[r].old, [req EXCEPT ![r] = NoRequest])
    <3>1. Replaced(r) \in [Groups -> Rights \cup {NoAccess}]
      BY <1>0, <1>1 DEF Replaced, AccessRequest, AccessStoreTypeOK
    <3>2. AccessStoreTypeOK'
      BY <1>0, <2>1, <2>3, <3>1 DEF AccessStoreTypeOK
    <3>3. Owned'
      BY <2>3 DEF Owned
    <3>4. req' \in [Requests -> AccessRequest] /\ \A q \in Requests : Raising(req'[q])
      BY <1>0, <2>3, AnsweredType, LosingType
    <3>5. RequestsOK'
      BY <1>0, <1>2, <2>1, <3>4, RequestsSet DEF History
    <3> QED BY <3>2, <3>3, <3>5 DEF AccessOK
  <2> QED BY <1>20, <2>2, <2>3 DEF ReplaceAccess
<1> QED BY <1>6, <1>7, <1>8, <1>9, <1>10, <1>11, <1>12, <1>13, <1>14, <1>15, <1>16, <1>17, <1>18,
           <1>19, <1>20 DEF AccessContinue

-----------------------------------------------------------------------------
(* The start of the api-server, the cron and time.                         *)

LEMMA RequestsUnmoved ==
    ASSUME RequestsOK, UNCHANGED accessRequestVars
    PROVE  RequestsOK'
  BY DEF RequestsOK, AccessRequestsTypeOK, RequestInv, Raising, accessRequestVars

LEMMA SyncUnmoved ==
    ASSUME SyncTypeOK, UNCHANGED syncVars
    PROVE  SyncTypeOK'
  BY DEF SyncTypeOK, syncVars

LEMMA BootUnmoved ==
    ASSUME AccessOK, UNCHANGED <<group, access, accessRequestVars>>,
           member' \in [Groups -> [Users -> Membership]]
    PROVE  AccessOK'
<1>1. UNCHANGED accessRequestVars /\ UNCHANGED relinquished
  BY DEF accessRequestVars
<1>2. RequestsOK'
  BY <1>1, RequestsUnmoved DEF AccessOK
<1> QED BY <1>1, <1>2, MemberOK

LEMMA ConfigType ==
    ASSUME SyncTypeOK
    PROVE  /\ boot.config \in Configs /\ boot.config.groups \subseteq Affiliations
           /\ boot.config.of \in [Users -> SUBSET Affiliations]
<1>1. boot.config \in Configs
  BY DEF SyncTypeOK, Boot
<1> QED BY <1>1, AffiliationSyncAssumption

LEMMA SyncOK ==
    ASSUME AccessOK, SyncTypeOK, Restart \/ SyncStep
    PROVE  AccessOK' /\ SyncTypeOK'
<1>0. AccessStoreTypeOK /\ RequestsOK /\ Owned /\ boot \in Boot /\ boots \in 0..MaxBoots
  BY DEF AccessOK, SyncTypeOK
<1>1. member \in [Groups -> [Users -> Membership]]
  BY <1>0 DEF AccessStoreTypeOK
<1>2. ASSUME UNCHANGED <<boots, accessStoreVars, accessRequestVars>>, boot' \in Boot
      PROVE  AccessOK' /\ SyncTypeOK'
  BY <1>0, <1>1, <1>2, BootUnmoved DEF SyncTypeOK, accessStoreVars
<1>3. ASSUME UNCHANGED <<boots, group, access, accessRequestVars>>, boot' \in Boot,
             member' \in [Groups -> [Users -> Membership]]
      PROVE  AccessOK' /\ SyncTypeOK'
  BY <1>0, <1>3, BootUnmoved DEF SyncTypeOK
<1>4. ASSUME UNCHANGED <<boots, member, access, accessRequestVars>>, boot' \in Boot,
             group' \in [Groups -> Presence]
      PROVE  AccessOK' /\ SyncTypeOK'
  <2>1. AccessStoreTypeOK' BY <1>0, <1>4 DEF AccessStoreTypeOK
  <2>2. UNCHANGED accessRequestVars BY <1>4
  <2>3. Owned' BY <1>0, <1>4, <2>2 DEF Owned, accessRequestVars
  <2>4. RequestsOK' BY <1>0, <2>2, RequestsUnmoved
  <2> QED BY <1>0, <1>4, <2>1, <2>3, <2>4 DEF AccessOK, SyncTypeOK
<1>5. CASE Restart
  <2>1. PICK c \in Configs :
        boot' = [pc |-> "upsert", config |-> c, stale |-> {}, doomed |-> {},
                 add |-> {}, drop |-> {}]
    BY <1>5 DEF Restart
  <2>2. boot' \in Boot
    BY <2>1 DEF Boot, BootPc
  <2>3. boots' \in 0..MaxBoots
    BY <1>0, <1>5, AffiliationSyncAssumption DEF Restart
  <2>4. UNCHANGED accessStoreVars /\ UNCHANGED History /\ req' = [r \in Requests |-> NoRequest]
    BY <1>5 DEF Restart
  <2>5. RequestsOK'
    <3>1. req' \in [Requests -> AccessRequest] /\ \A r \in Requests : Raising(req'[r])
      BY <2>4, NoRequestType DEF Raising
    <3> QED BY <1>0, <2>4, <3>1, RequestsSet DEF History, RequestsOK, AccessRequestsTypeOK
  <2>6. AccessOK'
    BY <2>4, <2>5, QuietOK DEF History
  <2> QED BY <2>2, <2>3, <2>6 DEF SyncTypeOK
<1>6. CASE UpsertGroups
  <2>1. boot' \in Boot
    BY <1>0, <1>6 DEF UpsertGroups, BootAt, Boot, BootPc
  <2>2. group' \in [Groups -> Presence]
    BY <1>0, <1>6 DEF UpsertGroups, AccessStoreTypeOK, Presence
  <2> QED BY <1>4, <1>6, <2>1, <2>2 DEF UpsertGroups, BootAt
<1>7. CASE FindStale
  <2>1. boot' \in Boot
    BY <1>0, <1>7 DEF FindStale, Boot, BootPc, Affiliations
  <2> QED BY <1>2, <1>7, <2>1 DEF FindStale
<1>8. CASE DropStaleMembers
  <2>1. PICK g \in boot.stale :
        /\ DropMemberships(g, Users)
        /\ boot' = [boot EXCEPT !.pc = "remove", !.stale = @ \ {g}, !.doomed = {g}]
    BY <1>8 DEF DropStaleMembers
  <2>2. boot' \in Boot
    BY <1>0, <2>1 DEF Boot, BootPc
  <2>3. member' \in [Groups -> [Users -> Membership]]
    BY <1>0, <2>1, DropType
  <2> QED BY <1>3, <1>8, <2>2, <2>3 DEF DropStaleMembers
<1>9. CASE RemoveStaleGroup
  <2>1. boot' \in Boot
    BY <1>0, <1>9 DEF RemoveStaleGroup, Boot, BootPc
  <2>2. group' \in [Groups -> Presence]
    BY <1>0, <1>9 DEF RemoveStaleGroup, AccessStoreTypeOK, Presence
  <2> QED BY <1>4, <1>9, <2>1, <2>2 DEF RemoveStaleGroup
<1>10. CASE ReadMembers
  <2> DEFINE wanted == {m \in Groups \X Users : m[1] \in boot.config.of[m[2]]}
             current == {m \in boot.config.groups \X Users : Listed(m[1], m[2])}
  <2>1. wanted \subseteq Groups \X Users /\ current \subseteq Groups \X Users
    <3>1. boot.config.groups \subseteq Groups
      BY ConfigType DEF Affiliations
    <3> QED BY <3>1
  <2>2. /\ boot' = [boot EXCEPT !.pc = "members", !.add = wanted \ current, !.drop = current \ wanted]
        /\ UNCHANGED <<boots, accessStoreVars, accessRequestVars>>
    BY <1>10 DEF ReadMembers
  <2> HIDE DEF wanted, current
  <2>3. boot' \in Boot
    BY <1>0, <2>1, <2>2 DEF Boot, BootPc
  <2> QED BY <1>2, <2>2, <2>3
<1>11. CASE AddMember
  <2>1. PICK m \in boot.add :
        IF member[m[1]][m[2]].row = "none"
        THEN /\ PutMembership(m[1], m[2], NewMembership(FALSE, "never"))
             /\ boot' = [boot EXCEPT !.add = @ \ {m}]
        ELSE UNCHANGED member /\ boot' = [boot EXCEPT !.pc = "down", !.add = {}, !.drop = {}]
    BY <1>11 DEF AddMember
  <2>2. m[1] \in Groups /\ m[2] \in Users
    BY <1>0 DEF Boot
  <2>3. NewMembership(FALSE, "never") \in Membership
    BY NewMembershipType
  <2>4. member' \in [Groups -> [Users -> Membership]]
    BY <1>0, <1>1, <2>1, <2>2, <2>3, PutType
  <2>5. boot' = [boot EXCEPT !.add = @ \ {m}] \/
        boot' = [boot EXCEPT !.pc = "down", !.add = {}, !.drop = {}]
    BY <2>1
  <2>6. boot' \in Boot
    <3>1. CASE boot' = [boot EXCEPT !.add = @ \ {m}]
      BY <1>0, <3>1 DEF Boot
    <3>2. CASE boot' = [boot EXCEPT !.pc = "down", !.add = {}, !.drop = {}]
      BY <1>0, <3>2 DEF Boot, BootPc
    <3> QED BY <2>5, <3>1, <3>2
  <2>7. UNCHANGED <<boots, group, access, accessRequestVars>>
    BY <1>11 DEF AddMember
  <2> QED BY <1>3, <2>4, <2>6, <2>7
<1>12. CASE RemoveMember
  <2>1. PICK m \in boot.drop :
        /\ DropMemberships(m[1], {m[2]})
        /\ boot' = [boot EXCEPT !.drop = @ \ {m}]
    BY <1>12 DEF RemoveMember
  <2>2. boot' \in Boot
    BY <1>0, <2>1 DEF Boot
  <2>3. member' \in [Groups -> [Users -> Membership]]
    BY <1>0, <2>1, DropType
  <2> QED BY <1>3, <1>12, <2>2, <2>3 DEF RemoveMember
<1>13. CASE Listen
  <2>1. boot' \in Boot
    BY <1>0, <1>13 DEF Listen, BootAt, Boot, BootPc
  <2>2. expected' \in [Users -> SUBSET Affiliations]
    BY <1>13, ConfigType DEF Listen
  <2>3. UNCHANGED accessStoreVars /\ UNCHANGED <<req, served, agenda, raced, relinquished>>
    BY <1>13 DEF Listen
  <2>4. RequestsOK'
    BY <1>0, <2>2, <2>3, RequestsSet DEF RequestsOK, AccessRequestsTypeOK, RequestInv
  <2>5. AccessOK'
    BY <2>3, <2>4, QuietOK
  <2> QED BY <1>0, <1>13, <2>1, <2>5 DEF Listen, BootAt, SyncTypeOK
<1> QED BY <1>5, <1>6, <1>7, <1>8, <1>9, <1>10, <1>11, <1>12, <1>13 DEF SyncStep

LEMMA TimeOK ==
    ASSUME AccessOK, SyncTypeOK, UNCHANGED <<accessRequestVars, syncVars>>,
           PurgeExpired \/ \E g \in Groups, u \in Users : MembershipExpires(g, u)
    PROVE  AccessOK' /\ SyncTypeOK'
<1>0. AccessStoreTypeOK /\ member \in [Groups -> [Users -> Membership]]
  BY DEF AccessOK, AccessStoreTypeOK
<1>1. CASE PurgeExpired
  <2>1. \A g \in Groups, u \in Users : PurgedMembership(member[g][u]) \in Membership
    <3> TAKE g \in Groups, u \in Users
    <3>1. member[g][u] \in Membership BY <1>0, MemberType
    <3> QED BY <3>1 DEF PurgedMembership, Membership, Presence
  <2>2. member' \in [Groups -> [Users -> Membership]]
    BY <1>1, <2>1 DEF PurgeExpired
  <2> QED BY <1>1, <2>2, BootUnmoved, SyncUnmoved DEF PurgeExpired
<1>2. ASSUME NEW g \in Groups, NEW u \in Users, MembershipExpires(g, u)
      PROVE  AccessOK' /\ SyncTypeOK'
  <2>1. [member[g][u] EXCEPT !.expires = "past"] \in Membership
    <3>1. member[g][u] \in Membership BY <1>0, MemberType
    <3> QED BY <3>1 DEF Membership
  <2>2. member' \in [Groups -> [Users -> Membership]]
    BY <1>0, <1>2, <2>1, PutType DEF MembershipExpires
  <2> QED BY <1>2, <2>2, BootUnmoved, SyncUnmoved DEF MembershipExpires
<1> QED BY <1>1, <1>2
-----------------------------------------------------------------------------
AccessInv == AccessOK /\ SyncTypeOK

LEMMA AccessInvInit == AccessInit => AccessInv
<1> SUFFICES ASSUME AccessInit PROVE AccessInv
  OBVIOUS
<1>1. PICK c \in Configs :
        /\ group = [g \in Groups |->
                IF GroupType[g] \in {"PRIMARY", "PUBLIC"} \/ g \in c.groups THEN "live" ELSE "none"]
        /\ member = [g \in Groups |-> [u \in Users |->
                IF g \in c.of[u] THEN NewMembership(FALSE, "never") ELSE NoMembership]]
        /\ access = InitialAccess
        /\ req = [r \in Requests |-> NoRequest]
        /\ served = 0
        /\ agenda \in Agendas
        /\ expected = c.of
        /\ raced = {}
        /\ relinquished = FALSE
        /\ boot = [pc |-> "up", config |-> c, stale |-> {}, doomed |-> {}, add |-> {}, drop |-> {}]
        /\ boots = 0
  BY DEF AccessInit
<1>2. AccessStoreTypeOK
  <2>1. member \in [Groups -> [Users -> Membership]]
    BY <1>1, NewMembershipType, NoMembershipType
  <2>2. group \in [Groups -> Presence]
    BY <1>1 DEF Presence
  <2> QED BY <1>1, <2>1, <2>2, InitialAccessAssumption DEF AccessStoreTypeOK
<1>3. RequestsOK
  <2>1. expected \in [Users -> SUBSET Affiliations]
    BY <1>1, AffiliationSyncAssumption
  <2>2. req \in [Requests -> AccessRequest] /\ \A r \in Requests : req[r] = NoRequest
    BY <1>1, NoRequestType
  <2>3. RequestInv
    BY <2>2, NoRequestType DEF RequestInv, Raising
  <2>4. served \in 0..MaxRequests
    <3>1. served = 0
      BY <1>1
    <3> QED BY <3>1, AccessRequestsAssumption
  <2>5. agenda \in Agendas
    BY <1>1
  <2>6. raced \subseteq Groups
    BY <1>1
  <2>7. relinquished \in BOOLEAN
    BY <1>1
  <2> QED BY <2>1, <2>2, <2>3, <2>4, <2>5, <2>6, <2>7 DEF RequestsOK, AccessRequestsTypeOK
<1>4. Owned
  BY <1>1, InitialAccessAssumption DEF Owned
<1>5. SyncTypeOK
  BY <1>1, AffiliationSyncAssumption DEF SyncTypeOK, Boot, BootPc
<1> QED BY <1>2, <1>3, <1>4, <1>5 DEF AccessInv, AccessOK

LEMMA AccessInvStep ==
    ASSUME AccessInv, [AccessNext]_accessVars
    PROVE  AccessInv'
<1>0. AccessOK /\ SyncTypeOK
  BY DEF AccessInv
<1>1. CASE (\E r \in Requests : AccessReceive(r) \/ AccessContinue(r)) /\ UNCHANGED syncVars
  BY <1>0, <1>1, ReceiveOK, ContinueOK, SyncUnmoved DEF AccessInv
<1>2. CASE Restart \/ SyncStep
  BY <1>0, <1>2, SyncOK DEF AccessInv
<1>3. CASE /\ PurgeExpired \/ \E g \in Groups, u \in Users : MembershipExpires(g, u)
           /\ UNCHANGED <<accessRequestVars, syncVars>>
  BY <1>0, <1>3, TimeOK DEF AccessInv
<1>4. CASE UNCHANGED accessVars
  <2>1. UNCHANGED accessStoreVars /\ UNCHANGED accessRequestVars /\ UNCHANGED syncVars
    BY <1>4 DEF accessVars
  <2>2. UNCHANGED <<group, access, accessRequestVars>> /\ member' = member
    BY <2>1 DEF accessStoreVars
  <2>3. member' \in [Groups -> [Users -> Membership]]
    BY <1>0, <2>2 DEF AccessOK, AccessStoreTypeOK
  <2> QED BY <1>0, <2>1, <2>2, <2>3, BootUnmoved, SyncUnmoved DEF AccessInv
<1> QED BY <1>1, <1>2, <1>3, <1>4 DEF AccessNext

LEMMA AccessInvariant == AccessSpec => []AccessInv
  BY AccessInvInit, AccessInvStep, PTL DEF AccessSpec

\* Groups, memberships, rights, requests and the start of the server are
\* well-typed, for every number of them: no request writes what it has not read.
THEOREM AccessTypeCorrect == AccessSpec => []AccessTypeOK
<1>1. AccessInv => AccessTypeOK
  BY DEF AccessInv, AccessOK, RequestsOK, AccessTypeOK
<1> QED BY <1>1, AccessInvariant, PTL

\* However many users replace, raise and remove the rights of groups in a project
\* at the same time: there is a group with DELETE rights, unless a request has
\* removed the last one's, or lowered what another had raised meanwhile.
THEOREM OwnerKept == AccessSpec => []ProjectKeepsOwner
<1>1. AccessInv => ProjectKeepsOwner
  BY DEF AccessInv, AccessOK, Owned, ProjectKeepsOwner
<1> QED BY <1>1, AccessInvariant, PTL

-----------------------------------------------------------------------------
(* Who is in a group, and what a request has seen of it.                   *)

\* A membership that is soft-deleted has expired, unless a save raced with that;
\* only a live group, and never the public one, has members.
GoodRow(g, u) ==
    LET m == member[g][u] IN
    /\ m.row # "gone"
    /\ m.row = "deleted" => m.expires = "past" \/ g \in raced
    /\ m.row # "none" => LiveGroup(g) /\ GroupType[g] # "PUBLIC"

KeepsEditor(g) ==
    \/ Editors(g) # {} \/ g \in raced
    \/ \E u \in Users : member[g][u].row = "deleted" /\ member[g][u].edit

MembersInv ==
    /\ \A g \in Groups, u \in Users : GoodRow(g, u)
    /\ \A g \in Groups : LiveGroup(g) /\ GroupType[g] = "CUSTOM" => KeepsEditor(g)

\* A request holds a membership that it found live, and that is still there.
Holds(e) == \E g \in Groups, u \in Users :
    e.on = {g} /\ e.users = {u} /\ e.seen.row = "live" /\ member[g][u].row # "none"

\* What a request has found out on its way.
KnowsMembers(e) ==
    /\ e.pc \in {"permit", "promote", "demote", "expire"} => Holds(e)
    /\ e.pc = "leave" => e.editors \ e.users # {}
    /\ e.pc = "demote" => \A u \in Users : e.editors \ {u} # {}
    /\ e.pc = "join" => \A g \in e.on : GroupType[g] # "PUBLIC"
    /\ e.pc = "affiliate" => e.on \subseteq Affiliations /\ \A g \in e.on : group[g] # "deleted"

KnowsRights(e) ==
    /\ e.pc = "check" => e.rights = DELETE
    /\ e.pc \in {"find", "grant"} => e.rights \in e.had
    /\ e.pc = "compare" => e.lapsed \/ \A x \in Rights : e.row >= x => x \in e.had
    /\ e.pc \in {"delete", "replace"} =>
          e.lapsed \/ \A g \in Groups : e.new[g] \in e.had \cup {NoAccess} \/ g \in e.kept

KnowledgeInv == \A r \in Requests : KnowsMembers(req[r]) /\ KnowsRights(req[r])

-----------------------------------------------------------------------------
(* The start of the server.                                                *)

Configured(g, u) == g \in boot.config.of[u]

\* A group that is not configured is on its way out, and so are its members.
BootGroups ==
    /\ boot.pc \in {"findStale", "stale", "remove", "members"} =>
           \A g \in boot.config.groups : LiveGroup(g)
    /\ boot.pc \in {"stale", "remove", "members"} =>
           \A g \in Affiliations \ boot.config.groups : LiveGroup(g) => g \in boot.stale \cup boot.doomed
    /\ boot.stale \subseteq Affiliations \ boot.config.groups
    /\ boot.doomed \subseteq Affiliations \ boot.config.groups
    /\ boot.stale # {} => boot.pc \in {"stale", "remove"}
    /\ boot.doomed # {} => boot.pc = "remove"
    /\ \A g \in boot.doomed, u \in Users : member[g][u].row = "none"

\* The memberships of one user in one configured group, once they have been read.
BootMember(g, u) ==
    /\ <<g, u>> \in boot.add => boot.pc = "members" /\ Configured(g, u) /\ ~Listed(g, u)
    /\ <<g, u>> \in boot.drop => boot.pc = "members" /\ g \in boot.config.groups /\ ~Configured(g, u)
    /\ boot.pc = "members" /\ g \in boot.config.groups =>
          IF Configured(g, u) THEN <<g, u>> \in boot.add \/ Listed(g, u) \/ member[g][u].expires = "past"
                              ELSE <<g, u>> \in boot.drop \/ ~Listed(g, u)

\* Requests are served by a server that is up, and by no other.
BootInv ==
    /\ boot.pc # "up" => \A r \in Requests : At(r, "idle")
    /\ BootGroups
    /\ \A g \in Groups, u \in Users : BootMember(g, u)
    /\ BootBlockedByPurge

GroupsInv == MembersInv /\ KnowledgeInv /\ BootInv

-----------------------------------------------------------------------------
(* Lemmas about single rows.                                               *)

LEMMA PutRow ==
    ASSUME AccessStoreTypeOK, NEW g \in Groups, NEW u \in Users, NEW m, PutMembership(g, u, m)
    PROVE  \A h \in Groups, v \in Users :
               member'[h][v] = IF h = g /\ v = u THEN m ELSE member[h][v]
<1>1. member \in [Groups -> [Users -> Membership]]
  BY DEF AccessStoreTypeOK
<1>2. member' = [member EXCEPT ![g] = [member[g] EXCEPT ![u] = m]]
  BY DEF PutMembership
<1> QED BY <1>1, <1>2

LEMMA DropRow ==
    ASSUME AccessStoreTypeOK, NEW g \in Groups, NEW us, DropMemberships(g, us)
    PROVE  \A h \in Groups, v \in Users :
               member'[h][v] = IF h = g /\ v \in us THEN NoMembership ELSE member[h][v]
<1>1. member \in [Groups -> [Users -> Membership]]
  BY DEF AccessStoreTypeOK
<1> QED BY <1>1 DEF DropMemberships

\* What holds of a group whose rows do not change, goes on to hold.
LEMMA GroupFrame ==
    ASSUME NEW h \in Groups, \A v \in Users : member'[h][v] = member[h][v],
           group'[h] = group[h], raced \subseteq raced'
    PROVE  /\ \A v \in Users : GoodRow(h, v) => GoodRow(h, v)'
           /\ KeepsEditor(h) => KeepsEditor(h)'
<1>1. \A v \in Users : GoodRow(h, v) => GoodRow(h, v)'
  BY DEF GoodRow, LiveGroup
<1>2. KeepsEditor(h) => KeepsEditor(h)'
  BY DEF KeepsEditor, Editors, Listed
<1> QED BY <1>1, <1>2

LEMMA MembersFrame ==
    ASSUME MembersInv, UNCHANGED <<group, member>>, raced \subseteq raced'
    PROVE  MembersInv'
<1>1. \A h \in Groups : /\ \A v \in Users : GoodRow(h, v) => GoodRow(h, v)'
                        /\ KeepsEditor(h) => KeepsEditor(h)'
  BY GroupFrame
<1> QED BY <1>1 DEF MembersInv, LiveGroup

\* One group has changed.
LEMMA GroupChanged ==
    ASSUME MembersInv, NEW g \in Groups, raced \subseteq raced',
           \A h \in Groups \ {g} : /\ group'[h] = group[h]
                                   /\ \A v \in Users : member'[h][v] = member[h][v],
           \A v \in Users : GoodRow(g, v)',
           LiveGroup(g)' /\ GroupType[g] = "CUSTOM" => KeepsEditor(g)'
    PROVE  MembersInv'
<1>1. \A h \in Groups \ {g} : /\ \A v \in Users : GoodRow(h, v) => GoodRow(h, v)'
                              /\ KeepsEditor(h) => KeepsEditor(h)'
  BY GroupFrame
<1>2. \A h \in Groups, u \in Users : GoodRow(h, u)'
  BY <1>1 DEF MembersInv
<1>3. \A h \in Groups : LiveGroup(h)' /\ GroupType[h] = "CUSTOM" => KeepsEditor(h)'
  BY <1>1 DEF MembersInv, LiveGroup
<1> QED BY <1>2, <1>3 DEF MembersInv

\* A row was saved or inserted.
LEMMA RowChanged ==
    ASSUME MembersInv, AccessStoreTypeOK, NEW g \in Groups, NEW u \in Users, NEW m,
           PutMembership(g, u, m), UNCHANGED group, raced \subseteq raced', GoodRow(g, u)',
           LiveGroup(g) /\ GroupType[g] = "CUSTOM" /\ KeepsEditor(g) => KeepsEditor(g)'
    PROVE  MembersInv'
<1>1. \A h \in Groups, v \in Users :
          member'[h][v] = IF h = g /\ v = u THEN m ELSE member[h][v]
  BY PutRow
<1>2. \A v \in Users : GoodRow(g, v)'
  <2> TAKE v \in Users
  <2>1. CASE v = u BY <2>1
  <2>2. CASE v # u
    <3>1. member'[g][v] = member[g][v] /\ GoodRow(g, v) BY <1>1, <2>2 DEF MembersInv
    <3> QED BY <3>1 DEF GoodRow, LiveGroup
  <2> QED BY <2>1, <2>2
<1>3. LiveGroup(g)' /\ GroupType[g] = "CUSTOM" => KeepsEditor(g)'
  BY DEF MembersInv, LiveGroup
<1> QED BY <1>1, <1>2, <1>3, GroupChanged

\* A member comes into a live group where there was no row.
LEMMA RowInserted ==
    ASSUME MembersInv, AccessStoreTypeOK, NEW g \in Groups, NEW u \in Users,
           NEW edit \in BOOLEAN, NEW expires \in {"never", "later"},
           PutMembership(g, u, NewMembership(edit, expires)), member[g][u].row = "none",
           LiveGroup(g), GroupType[g] # "PUBLIC", UNCHANGED <<group, raced>>
    PROVE  MembersInv'
<1>1. \A h \in Groups, v \in Users :
          member'[h][v] = IF h = g /\ v = u THEN NewMembership(edit, expires) ELSE member[h][v]
  BY PutRow
<1>2. GoodRow(g, u)'
  BY <1>1 DEF GoodRow, NewMembership, LiveGroup
<1>3. KeepsEditor(g) => KeepsEditor(g)'
  BY <1>1 DEF KeepsEditor, Editors, Listed
<1> QED BY <1>2, <1>3, RowChanged

\* What a request knows of members stays true while no row goes.
LEMMA KnowledgeKept ==
    ASSUME \A g \in Groups, u \in Users : member[g][u].row # "none" => member'[g][u].row # "none",
           \A g \in Groups : group'[g] = "deleted" => group[g] = "deleted",
           NEW e, KnowsMembers(e)
    PROVE  KnowsMembers(e)'
<1>1. Holds(e) => Holds(e)'
  BY DEF Holds
<1>2. e.pc = "affiliate" => \A g \in e.on : g \in Groups
  BY DEF KnowsMembers, Affiliations
<1> QED BY <1>1, <1>2 DEF KnowsMembers

LEMMA RequestKnows ==
    ASSUME RequestsOK, KnowledgeInv, NEW r \in Requests, NEW e,
           req' = [req EXCEPT ![r] = e], KnowsMembers(e)', KnowsRights(e),
           \A g \in Groups, u \in Users : member[g][u].row # "none" => member'[g][u].row # "none",
           \A g \in Groups : group'[g] = "deleted" => group[g] = "deleted"
    PROVE  KnowledgeInv'
<1>1. SUFFICES ASSUME NEW q \in Requests
               PROVE  KnowsMembers(req[q])' /\ KnowsRights(req[q])'
  BY DEF KnowledgeInv
<1>2. PICK x : x = req'[q]
  OBVIOUS
<1>3. x = IF q = r THEN e ELSE req[q]
  BY <1>2 DEF RequestsOK, AccessRequestsTypeOK
<1>4. KnowsMembers(x)' /\ KnowsRights(x)
  <2>1. CASE q = r BY <1>3, <2>1
  <2>2. CASE q # r
    <3>1. KnowsMembers(req[q]) /\ KnowsRights(req[q]) /\ x = req[q]
      BY <1>3, <2>2 DEF KnowledgeInv
    <3>2. KnowsMembers(x) /\ KnowsRights(x)
      BY <3>1
    <3> QED BY <3>2, KnowledgeKept
  <2> QED BY <2>1, <2>2
<1>5. KnowsMembers(req[q])'
  BY <1>2, <1>4 DEF KnowsMembers, Holds
<1>6. KnowsRights(req[q])'
  BY <1>2, <1>4 DEF KnowsRights
<1> QED BY <1>5, <1>6

LEMMA IdleKnows == ASSUME NEW e, e.pc = "idle" PROVE KnowsMembers(e) /\ KnowsRights(e)
  BY DEF KnowsMembers, KnowsRights

-----------------------------------------------------------------------------
(* Requests that arrive.                                                   *)

\* A request that has begun, or gone on, without a write to the tables.
LEMMA OnlyLocals ==
    ASSUME RequestsOK, MembersInv, KnowledgeInv, NEW r \in Requests, NEW e,
           req' = [req EXCEPT ![r] = e], UNCHANGED <<group, member, raced>>,
           KnowsMembers(e), KnowsRights(e)
    PROVE  MembersInv' /\ KnowledgeInv'
<1>1. MembersInv'
  BY MembersFrame
<1>2. KnowsMembers(e)'
  BY KnowledgeKept
<1> QED BY <1>1, <1>2, RequestKnows

LEMMA BegunOnGroup ==
    ASSUME RequestsOK, MembersInv, KnowledgeInv, NEW r \in Requests, NEW kind, NEW u \in Users,
           NEW g \in Groups, NEW locals \in AccessRequest, BeginOnGroup(r, kind, u, g, locals),
           GroupType[g] # "PUBLIC" =>
               LET e == [locals EXCEPT !.by = {u}, !.on = {g}] IN KnowsMembers(e) /\ KnowsRights(e)
    PROVE  MembersInv' /\ KnowledgeInv'
<1> DEFINE e == [locals EXCEPT !.by = {u}, !.on = {g}]
<1>1. KnowsMembers(e) /\ KnowsRights(e)
  BY DEF BeginOnGroup
<1>2. req' = [req EXCEPT ![r] = e] /\ UNCHANGED <<group, member, raced>>
  BY DEF BeginOnGroup, Begin, accessStoreVars
<1>3. PICK x : x = e
  OBVIOUS
<1>4. KnowsMembers(x) /\ KnowsRights(x) /\ req' = [req EXCEPT ![r] = x]
  BY <1>1, <1>2, <1>3
<1> QED BY <1>2, <1>4, OnlyLocals

LEMMA BegunOnProject ==
    ASSUME RequestsOK, MembersInv, KnowledgeInv, NEW r \in Requests, NEW kind, NEW u \in Users,
           NEW guard, NEW locals \in AccessRequest, BeginOnProject(r, kind, u, guard, locals),
           LET e == [locals EXCEPT !.by = {u}, !.had = RightsOf(u)]
           IN KnowsMembers(e) /\ (HasProjectRights(u, guard) => KnowsRights(e))
    PROVE  MembersInv' /\ KnowledgeInv'
<1> DEFINE e == [locals EXCEPT !.by = {u}, !.had = RightsOf(u)]
<1>1. KnowsMembers(e) /\ KnowsRights(e)
  BY DEF BeginOnProject
<1>2. req' = [req EXCEPT ![r] = e] /\ UNCHANGED <<group, member, raced>>
  BY DEF BeginOnProject, Begin, accessStoreVars
<1>3. PICK x : x = e
  OBVIOUS
<1>4. KnowsMembers(x) /\ KnowsRights(x) /\ req' = [req EXCEPT ![r] = x]
  BY <1>1, <1>2, <1>3
<1> QED BY <1>2, <1>4, OnlyLocals

\* Who may write, may also read and create.
LEMMA WritersMay ==
    ASSUME AccessStoreTypeOK, NEW u \in Users, HasProjectRights(u, WRITE),
           NEW x \in Rights, x # DELETE
    PROVE  x \in RightsOf(u)
<1>1. WRITE >= x
  BY DEF Rights, READ, CREATE, WRITE, DELETE
<1>2. HasProjectRights(u, x)
  <2>1. CASE u \in Admins BY <2>1 DEF HasProjectRights
  <2>2. CASE u \notin Admins
    <3>1. PICK g \in Groups : Granted(g, u, WRITE)
      BY <2>2 DEF HasProjectRights
    <3>2. access[g] \in Rights \cup {NoAccess} /\ access[g] # NoAccess
      BY <3>1 DEF AccessStoreTypeOK, Granted
    <3>3. GroupType[g] # "PUBLIC" /\ Counted(g, u) /\ access[g] >= WRITE
      BY <3>1 DEF Granted, READ, WRITE
    <3>4. access[g] >= x
      BY <1>1, <3>2, <3>3 DEF Rights, READ, CREATE, WRITE, DELETE
    <3>5. Granted(g, u, x)
      BY <3>2, <3>3, <3>4 DEF Granted
    <3> QED BY <3>5 DEF HasProjectRights
  <2> QED BY <2>1, <2>2
<1> QED BY <1>2 DEF RightsOf

LEMMA ReceiveMembers ==
    ASSUME AccessOK, MembersInv, KnowledgeInv, NEW r \in Requests, AccessReceive(r)
    PROVE  MembersInv' /\ KnowledgeInv'
<1>0. AccessStoreTypeOK /\ RequestsOK
  BY DEF AccessOK
<1>1. CASE CreateAccessGroup(r)
  <2>1. PICK u \in Users, g \in Groups :
            /\ GroupType[g] = "CUSTOM" /\ group[g] = "none"
            /\ Begin(r, "create", NoRequest)
            /\ group' = [group EXCEPT ![g] = "live"]
            /\ PutMembership(g, u, NewMembership(TRUE, "never"))
    BY <1>1 DEF CreateAccessGroup
  <2>2. \A h \in Groups, v \in Users :
            member'[h][v] = IF h = g /\ v = u THEN NewMembership(TRUE, "never") ELSE member[h][v]
    <3>1. PICK m : m = NewMembership(TRUE, "never")
      OBVIOUS
    <3>2. PutMembership(g, u, m)
      BY <2>1, <3>1
    <3>3. \A h \in Groups, v \in Users : member'[h][v] = IF h = g /\ v = u THEN m ELSE member[h][v]
      BY <1>0, <3>2, PutRow
    <3> QED BY <3>1, <3>3, Zenon
  <2>3. \A h \in Groups : group'[h] = IF h = g THEN "live" ELSE group[h]
    BY <1>0, <2>1 DEF AccessStoreTypeOK
  <2>4. UNCHANGED raced /\ req' = [req EXCEPT ![r] = NoRequest]
    BY <2>1 DEF Begin
  <2>5. \A v \in Users : GoodRow(g, v)'
    <3> TAKE v \in Users
    <3>1. CASE v = u BY <2>1, <2>2, <2>3, <3>1 DEF GoodRow, NewMembership, LiveGroup
    <3>2. CASE v # u
      <4>1. member'[g][v] = member[g][v] /\ member[g][v].row = "none"
        BY <2>1, <2>2, <3>2 DEF MembersInv, GoodRow, LiveGroup
      <4> QED BY <4>1 DEF GoodRow
    <3> QED BY <3>1, <3>2
  <2>6. KeepsEditor(g)'
    BY <2>2 DEF KeepsEditor, Editors, Listed, NewMembership
  <2>7. MembersInv'
    BY <2>2, <2>3, <2>4, <2>5, <2>6, GroupChanged
  <2>8. KnowsMembers(NoRequest)' /\ KnowsRights(NoRequest)
    BY NoRequestType DEF KnowsMembers, KnowsRights
  <2>9. \A h \in Groups, v \in Users : member[h][v].row # "none" => member'[h][v].row # "none"
    BY <2>2 DEF NewMembership
  <2> QED BY <1>0, <2>3, <2>4, <2>7, <2>8, <2>9, RequestKnows
<1>2. CASE AddUser(r)
  <2>1. PICK by, u \in Users, g \in Groups, edit \in BOOLEAN, expires \in {"never", "later"} :
        BeginOnGroup(r, "join", by, g, [NoRequest EXCEPT !.pc = "join", !.users = {u},
                                                         !.edit = edit, !.expires = expires])
    BY <1>2 DEF AddUser
  <2> DEFINE l == [NoRequest EXCEPT !.pc = "join", !.users = {u}, !.edit = edit, !.expires = expires]
             e == [l EXCEPT !.by = {by}, !.on = {g}]
  <2>2. l \in AccessRequest /\ e.pc = "join" /\ e.on = {g}
    BY NoRequestType DEF AccessRequest, AccessPc
  <2>3. GroupType[g] # "PUBLIC" => KnowsMembers(e) /\ KnowsRights(e)
    BY <2>2 DEF KnowsMembers, KnowsRights
  <2> QED BY <1>0, <2>1, <2>2, <2>3, BegunOnGroup
<1>3. CASE RemoveUsers(r)
  <2>1. PICK by \in Users, us \in SUBSET Users, g \in Groups :
        BeginOnGroup(r, "leave", by, g, [NoRequest EXCEPT !.pc = "count", !.users = us])
    BY <1>3 DEF RemoveUsers
  <2> DEFINE l == [NoRequest EXCEPT !.pc = "count", !.users = us]
             e == [l EXCEPT !.by = {by}, !.on = {g}]
  <2>2. l \in AccessRequest /\ e.pc = "count"
    BY NoRequestType DEF AccessRequest, AccessPc
  <2>3. KnowsMembers(e) /\ KnowsRights(e)
    BY <2>2 DEF KnowsMembers, KnowsRights
  <2> QED BY <1>0, <2>1, <2>2, <2>3, BegunOnGroup
<1>4. CASE SetCanEdit(r)
  <2>1. PICK by, u \in Users, g \in Groups, edit \in BOOLEAN :
        /\ Listed(g, u)
        /\ BeginOnGroup(r, "permit", by, g,
                [NoRequest EXCEPT !.pc = IF edit THEN "promote" ELSE "permit", !.users = {u},
                                  !.edit = edit, !.seen = member[g][u]])
    BY <1>4 DEF SetCanEdit
  <2> DEFINE l == [NoRequest EXCEPT !.pc = IF edit THEN "promote" ELSE "permit", !.users = {u},
                                    !.edit = edit, !.seen = member[g][u]]
             e == [l EXCEPT !.by = {by}, !.on = {g}]
  <2>2. member[g][u] \in Membership
    BY <1>0, MemberType
  <2>3. /\ l \in AccessRequest /\ e.pc \in {"promote", "permit"} /\ e.on = {g} /\ e.users = {u}
        /\ e.seen = member[g][u]
    BY ZenonT(60), <2>2, NoRequestType DEF AccessRequest, AccessPc
  <2>4. KnowsMembers(e) /\ KnowsRights(e)
    BY <2>1, <2>3 DEF KnowsMembers, KnowsRights, Holds, Listed
  <2> QED BY <1>0, <2>1, <2>3, <2>4, BegunOnGroup
<1>5. CASE SetExpireDate(r)
  <2>1. PICK by, u \in Users, g \in Groups, expires \in {"never", "later"} :
        /\ Listed(g, u)
        /\ BeginOnGroup(r, "expire", by, g, [NoRequest EXCEPT !.pc = "expire", !.users = {u},
                        !.expires = expires, !.seen = member[g][u], !.editors = Editors(g)])
    BY <1>5 DEF SetExpireDate
  <2> DEFINE l == [NoRequest EXCEPT !.pc = "expire", !.users = {u}, !.expires = expires,
                                    !.seen = member[g][u], !.editors = Editors(g)]
             e == [l EXCEPT !.by = {by}, !.on = {g}]
  <2>2. member[g][u] \in Membership
    BY <1>0, MemberType
  <2>3. /\ l \in AccessRequest /\ e.pc = "expire" /\ e.on = {g} /\ e.users = {u}
        /\ e.seen = member[g][u]
    BY <2>2, NoRequestType, EditorsType DEF AccessRequest, AccessPc
  <2>4. KnowsMembers(e) /\ KnowsRights(e)
    BY <2>1, <2>3 DEF KnowsMembers, KnowsRights, Holds, Listed
  <2> QED BY <1>0, <2>1, <2>3, <2>4, BegunOnGroup
<1>6. CASE DeleteAccessGroup(r)
  <2>1. PICK u \in Users, g \in Groups :
        BeginOnGroup(r, "dissolve", u, g, [NoRequest EXCEPT !.pc = "dissolve"])
    BY <1>6 DEF DeleteAccessGroup
  <2> DEFINE l == [NoRequest EXCEPT !.pc = "dissolve"]
             e == [l EXCEPT !.by = {u}, !.on = {g}]
  <2>2. l \in AccessRequest /\ e.pc = "dissolve"
    BY NoRequestType DEF AccessRequest, AccessPc
  <2>3. KnowsMembers(e) /\ KnowsRights(e)
    BY <2>2 DEF KnowsMembers, KnowsRights
  <2> QED BY <1>0, <2>1, <2>2, <2>3, BegunOnGroup
<1>7. CASE SignIn(r)
  <2>1. PICK u \in Users : \E g \in expected[u] :
        /\ LiveGroup(g)
        /\ Begin(r, "signIn", [NoRequest EXCEPT !.pc = "affiliate", !.on = {g}, !.users = {u}])
        /\ UNCHANGED accessStoreVars
    BY <1>7 DEF SignIn
  <2>2. PICK g \in expected[u] :
        /\ LiveGroup(g)
        /\ Begin(r, "signIn", [NoRequest EXCEPT !.pc = "affiliate", !.on = {g}, !.users = {u}])
        /\ UNCHANGED accessStoreVars
    BY <2>1
  <2>3. g \in Affiliations
    BY <1>0 DEF RequestsOK, AccessRequestsTypeOK
  <2>4. PICK e : e = [NoRequest EXCEPT !.pc = "affiliate", !.on = {g}, !.users = {u}]
    OBVIOUS
  <2>5. e.pc = "affiliate" /\ e.on = {g}
    BY <2>4, NoRequestType DEF AccessRequest
  <2>6. KnowsMembers(e) /\ KnowsRights(e)
    BY <2>2, <2>3, <2>5 DEF KnowsMembers, KnowsRights, LiveGroup
  <2>7. req' = [req EXCEPT ![r] = e] /\ UNCHANGED <<group, member, raced>>
    BY <2>2, <2>4 DEF Begin, accessStoreVars
  <2> QED BY <1>0, <2>6, <2>7, OnlyLocals
<1>8. CASE AddGroupToProject(r)
  <2>1. PICK u \in Users, g \in Groups, rights \in Asked :
        BeginOnProject(r, "grant", u, WRITE,
                [NoRequest EXCEPT !.pc = IF rights = DELETE THEN "check" ELSE "find",
                                  !.on = {g}, !.rights = rights])
    BY <1>8 DEF AddGroupToProject
  <2> DEFINE l == [NoRequest EXCEPT !.pc = IF rights = DELETE THEN "check" ELSE "find",
                                    !.on = {g}, !.rights = rights]
             e == [l EXCEPT !.by = {u}, !.had = RightsOf(u)]
  <2>2. rights \in Rights
    BY AccessRequestsAssumption
  <2>3. /\ l \in AccessRequest /\ e.rights = rights /\ e.had = RightsOf(u)
        /\ e.pc = IF rights = DELETE THEN "check" ELSE "find"
    BY <2>2, NoRequestType DEF AccessRequest, AccessPc
  <2>4. HasProjectRights(u, WRITE) => KnowsRights(e)
    BY <1>0, <2>2, <2>3, WritersMay DEF KnowsRights
  <2>5. KnowsMembers(e)
    BY <2>3 DEF KnowsMembers
  <2> QED BY <1>0, <2>1, <2>3, <2>4, <2>5, BegunOnProject
<1>9. CASE RemoveGroup(r)
  <2>1. PICK u \in Users, g \in Groups :
        BeginOnProject(r, "revoke", u, DELETE, [NoRequest EXCEPT !.pc = "mayRevoke", !.on = {g}])
    BY <1>9 DEF RemoveGroup
  <2> DEFINE l == [NoRequest EXCEPT !.pc = "mayRevoke", !.on = {g}]
             e == [l EXCEPT !.by = {u}, !.had = RightsOf(u)]
  <2>2. l \in AccessRequest /\ e.pc = "mayRevoke"
    BY NoRequestType DEF AccessRequest, AccessPc
  <2>3. KnowsMembers(e) /\ KnowsRights(e)
    BY <2>2 DEF KnowsMembers, KnowsRights
  <2> QED BY <1>0, <2>1, <2>2, <2>3, BegunOnProject
<1>10. CASE UpdateProjectAccess(r)
  <2>1. PICK u \in Users, new \in [Groups -> Asked \cup {NoAccess}] :
        BeginOnProject(r, "replace", u, WRITE, [NoRequest EXCEPT !.pc = "rights", !.new = new])
    BY <1>10 DEF UpdateProjectAccess
  <2> DEFINE l == [NoRequest EXCEPT !.pc = "rights", !.new = new]
             e == [l EXCEPT !.by = {u}, !.had = RightsOf(u)]
  <2>2. new \in [Groups -> Rights \cup {NoAccess}]
    BY AccessRequestsAssumption
  <2>3. l \in AccessRequest /\ e.pc = "rights"
    BY <2>2, NoRequestType DEF AccessRequest, AccessPc
  <2>4. KnowsMembers(e) /\ KnowsRights(e)
    BY <2>3 DEF KnowsMembers, KnowsRights
  <2> QED BY <1>0, <2>1, <2>3, <2>4, BegunOnProject
<1> QED BY <1>1, <1>2, <1>3, <1>4, <1>5, <1>6, <1>7, <1>8, <1>9, <1>10 DEF AccessReceive

-----------------------------------------------------------------------------
(* Requests that go on.                                                    *)

\* A request that holds a membership which goes is no more.
LEMMA DroppedKnows ==
    ASSUME RequestsOK, AccessStoreTypeOK, KnowledgeInv, NEW r \in Requests, NEW g \in Groups,
           NEW us, DropMemberships(g, us),
           req' = Dropping(g, us, [req EXCEPT ![r] = NoRequest]),
           \A h \in Groups : group'[h] = "deleted" => group[h] = "deleted"
    PROVE  KnowledgeInv'
<1>1. SUFFICES ASSUME NEW q \in Requests
               PROVE  KnowsMembers(req[q])' /\ KnowsRights(req[q])'
  BY DEF KnowledgeInv
<1>2. PICK y : y = [req EXCEPT ![r] = NoRequest][q]
  OBVIOUS
<1>3. PICK x : x = req'[q]
  OBVIOUS
<1>4. KnowsMembers(y) /\ KnowsRights(y)
  <2>1. y = IF q = r THEN NoRequest ELSE req[q]
    BY <1>2 DEF RequestsOK, AccessRequestsTypeOK
  <2>2. KnowsMembers(NoRequest) /\ KnowsRights(NoRequest)
    BY NoRequestType, IdleKnows
  <2>3. q # r => KnowsMembers(req[q]) /\ KnowsRights(req[q])
    BY DEF KnowledgeInv
  <2> QED BY <2>1, <2>2, <2>3
<1>5. x = IF y.pc \in {"permit", "promote", "demote", "expire"} /\ g \in y.on /\ y.users \subseteq us
          THEN NoRequest ELSE y
  BY <1>2, <1>3 DEF Dropping
<1>6. \A h \in Groups, v \in Users :
          member'[h][v] = IF h = g /\ v \in us THEN NoMembership ELSE member[h][v]
  BY DropRow
<1>7. KnowsMembers(x)' /\ KnowsRights(x)
  <2>1. CASE x = NoRequest
    BY <2>1, NoRequestType DEF KnowsMembers, KnowsRights
  <2>2. CASE x = y /\ ~(/\ y.pc \in {"permit", "promote", "demote", "expire"}
                        /\ g \in y.on /\ y.users \subseteq us)
    <3>1. KnowsMembers(x) /\ KnowsRights(x)
      BY <1>4, <2>2
    <3>2. x.pc \in {"permit", "promote", "demote", "expire"} => Holds(x)'
      <4>1. SUFFICES ASSUME x.pc \in {"permit", "promote", "demote", "expire"}
                     PROVE  Holds(x)'
        OBVIOUS
      <4>2. PICK h \in Groups, v \in Users :
                x.on = {h} /\ x.users = {v} /\ x.seen.row = "live" /\ member[h][v].row # "none"
        BY <3>1, <4>1 DEF KnowsMembers, Holds
      <4>3. ~(h = g /\ v \in us)
        BY <2>2, <4>1, <4>2
      <4>4. member'[h][v] = member[h][v]
        BY <1>6, <4>3
      <4> QED BY <4>2, <4>4 DEF Holds
    <3>3. x.pc = "affiliate" => \A h \in x.on : h \in Groups
      BY <3>1 DEF KnowsMembers, Affiliations
    <3> QED BY <3>1, <3>2, <3>3 DEF KnowsMembers
  <2> QED BY <1>5, <2>1, <2>2
<1>8. KnowsMembers(req[q])'
  BY <1>3, <1>7 DEF KnowsMembers, Holds
<1>9. KnowsRights(req[q])'
  BY <1>3, <1>7 DEF KnowsRights
<1> QED BY <1>8, <1>9

\* A request that holds the rows of the project takes nothing from the others.
LEMMA LosingKnows ==
    ASSUME RequestsOK, KnowledgeInv, NEW r \in Requests, NEW rows,
           req' = Losing(rows, [req EXCEPT ![r] = NoRequest]), UNCHANGED <<group, member>>
    PROVE  KnowledgeInv'
<1>1. SUFFICES ASSUME NEW q \in Requests
               PROVE  KnowsMembers(req[q])' /\ KnowsRights(req[q])'
  BY DEF KnowledgeInv
<1>2. PICK y : y = [req EXCEPT ![r] = NoRequest][q]
  OBVIOUS
<1>3. PICK x : x = req'[q]
  OBVIOUS
<1>4. KnowsMembers(y) /\ KnowsRights(y) /\ y \in AccessRequest
  <2>1. y = IF q = r THEN NoRequest ELSE req[q]
    BY <1>2 DEF RequestsOK, AccessRequestsTypeOK
  <2>2. KnowsMembers(NoRequest) /\ KnowsRights(NoRequest)
    BY NoRequestType, IdleKnows
  <2>3. q # r => KnowsMembers(req[q]) /\ KnowsRights(req[q])
    BY DEF KnowledgeInv
  <2>4. NoRequest \in AccessRequest /\ req[q] \in AccessRequest
    BY NoRequestType DEF RequestsOK, AccessRequestsTypeOK
  <2> QED BY <2>1, <2>2, <2>3, <2>4
<1>5. x = NoRequest \/ x = [y EXCEPT !.old = @ \ rows]
  BY <1>2, <1>3 DEF Losing
<1>6. KnowsMembers(x) /\ KnowsRights(x)
  <2>1. CASE x = NoRequest
    BY <2>1, NoRequestType, IdleKnows
  <2>2. CASE x = [y EXCEPT !.old = @ \ rows]
    <3>1. /\ x.pc = y.pc /\ x.on = y.on /\ x.users = y.users /\ x.seen = y.seen
          /\ x.editors = y.editors
      BY <1>4, <2>2 DEF AccessRequest
    <3>2. /\ x.rights = y.rights /\ x.had = y.had /\ x.lapsed = y.lapsed /\ x.row = y.row
          /\ x.new = y.new /\ x.kept = y.kept
      BY <1>4, <2>2 DEF AccessRequest
    <3>3. KnowsMembers(x)
      BY <1>4, <3>1 DEF KnowsMembers, Holds
    <3>4. KnowsRights(x)
      BY <1>4, <3>1, <3>2 DEF KnowsRights
    <3> QED BY <3>3, <3>4
  <2> QED BY <1>5, <2>1, <2>2
<1>7. KnowsMembers(x)'
  BY <1>6, KnowledgeKept
<1>8. KnowsMembers(req[q])'
  BY <1>3, <1>7 DEF KnowsMembers, Holds
<1>9. KnowsRights(req[q])'
  BY <1>3, <1>6 DEF KnowsRights
<1> QED BY <1>8, <1>9

LEMMA AnsweredKnows ==
    ASSUME RequestsOK, KnowledgeInv, NEW r \in Requests, Answer(r),
           \A g \in Groups, u \in Users : member[g][u].row # "none" => member'[g][u].row # "none",
           \A g \in Groups : group'[g] = "deleted" => group[g] = "deleted"
    PROVE  KnowledgeInv'
<1>1. req' = [req EXCEPT ![r] = NoRequest]
  BY DEF Answer, Set
<1>2. KnowsMembers(NoRequest)' /\ KnowsRights(NoRequest)
  BY NoRequestType DEF KnowsMembers, KnowsRights
<1> QED BY <1>1, <1>2, RequestKnows

\* Two users with edit rights leave one when either is taken away.
LEMMA SeveralEditors ==
    ASSUME NEW S \in SUBSET Users, ~(Cardinality(S) <= 1)
    PROVE  \A u \in Users : S \ {u} # {}
<1>1. SUFFICES ASSUME NEW u \in Users, S \ {u} = {}
               PROVE  FALSE
  OBVIOUS
<1>2. S = {} \/ S = {u}
  BY <1>1
<1>3. Cardinality(S) = 0 \/ Cardinality(S) = 1
  BY <1>2, FS_EmptySet, FS_Singleton
<1> QED BY <1>3

\* A membership is saved as it was read, but for one column.
LEMMA SaveMembers ==
    ASSUME AccessOK, MembersInv, KnowledgeInv, NEW r \in Requests,
           NEW edit \in BOOLEAN, NEW expires \in {"never", "later", "past"},
           SaveMembership(r, edit, expires), req[r].pc \in {"promote", "demote", "expire"},
           req[r].pc = "demote" \/ edit \/ edit = req[r].seen.edit
    PROVE  MembersInv' /\ KnowledgeInv'
<1>0. AccessStoreTypeOK /\ RequestsOK
  BY DEF AccessOK
<1>1. PICK e : e = req[r]
  OBVIOUS
<1>2. KnowsMembers(e)
  BY <1>1 DEF KnowledgeInv
<1>3. PICK g \in Groups, u \in Users :
        e.on = {g} /\ e.users = {u} /\ e.seen.row = "live" /\ member[g][u].row # "none"
  BY <1>1, <1>2 DEF KnowsMembers, Holds
<1>4. PICK m : m = [row |-> member[g][u].row, edit |-> edit, expires |-> expires]
  OBVIOUS
<1>5. /\ PutMembership(g, u, m) /\ Answer(r) /\ UNCHANGED group
      /\ raced' = IF member[g][u] # e.seen \/ (~edit /\ Editors(g) # e.editors)
                  THEN raced \cup {g} ELSE raced
  BY <1>1, <1>3, <1>4 DEF SaveMembership
<1>6. \A h \in Groups, v \in Users :
          member'[h][v] = IF h = g /\ v = u THEN m ELSE member[h][v]
  BY <1>0, <1>5, PutRow
<1>7. m.row = member[g][u].row /\ m.edit = edit
  BY <1>4
<1>8. GoodRow(g, u)'
  <2>1. GoodRow(g, u)
    BY DEF MembersInv
  <2>2. member[g][u].row = "deleted" => g \in raced'
    BY <1>3, <1>5
  <2> QED BY <1>5, <1>6, <1>7, <2>1, <2>2 DEF GoodRow, LiveGroup
<1>9. KeepsEditor(g) => KeepsEditor(g)'
  <2>1. CASE edit
    <3>1. member'[g][u].edit /\ member'[g][u].row \in {"live", "deleted"}
      <4>1. member[g][u] \in Membership /\ GoodRow(g, u)
        BY <1>0, MemberType DEF MembersInv
      <4>2. member'[g][u].row = member[g][u].row /\ member'[g][u].edit = edit
        BY <1>6, <1>7
      <4> QED BY <1>3, <2>1, <4>1, <4>2 DEF GoodRow, Membership, Presence
    <3> QED BY <3>1 DEF KeepsEditor, Editors, Listed
  <2>2. CASE g \in raced'
    BY <2>2 DEF KeepsEditor
  <2>3. CASE ~edit /\ g \notin raced'
    <3>1. member[g][u] = e.seen /\ Editors(g) = e.editors /\ g \notin raced
      BY <1>5, <2>3
    <3>2. CASE e.pc = "demote"
      <4>1. PICK v : v \in e.editors \ {u}
        BY <1>2, <3>2 DEF KnowsMembers
      <4>2. v \in Users /\ Listed(g, v) /\ member[g][v].edit /\ v # u
        BY <3>1, <4>1 DEF Editors
      <4>3. v \in Editors(g)'
        BY <1>6, <4>2 DEF Editors, Listed
      <4> QED BY <4>3 DEF KeepsEditor
    <3>3. CASE e.pc # "demote"
      <4>1. ~member[g][u].edit
        <5>1. edit = e.seen.edit
          BY <1>1, <2>3, <3>3
        <5> QED BY <2>3, <3>1, <5>1
      <4>2. \A v \in Users : member[g][v].edit => v # u /\ member'[g][v] = member[g][v]
        BY <1>6, <4>1
      <4> QED BY <3>1, <4>2 DEF KeepsEditor, Editors, Listed
    <3> QED BY <3>2, <3>3
  <2> QED BY <2>1, <2>2, <2>3
<1>10. MembersInv'
  BY <1>0, <1>5, <1>8, <1>9, RowChanged
<1>11. \A h \in Groups, v \in Users : member[h][v].row # "none" => member'[h][v].row # "none"
  BY <1>6, <1>7
<1>12. KnowledgeInv'
  BY <1>0, <1>5, <1>11, AnsweredKnows
<1> QED BY <1>10, <1>12

\* Members are removed while an editor remains whom nobody has removed.
LEMMA RemoveMembers ==
    ASSUME AccessOK, MembersInv, KnowledgeInv, NEW r \in Requests, RemoveUsersCommit(r)
    PROVE  MembersInv' /\ KnowledgeInv'
<1>0. AccessStoreTypeOK /\ RequestsOK
  BY DEF AccessOK
<1>1. PICK e : e = req[r]
  OBVIOUS
<1>2. KnowsMembers(e) /\ e \in AccessRequest /\ e.pc = "leave"
  BY <1>0, <1>1 DEF KnowledgeInv, RequestsOK, AccessRequestsTypeOK, RemoveUsersCommit, At
<1>3. PICK g \in e.on :
        /\ DropMemberships(g, e.users)
        /\ raced' = IF Editors(g) # e.editors THEN raced \cup {g} ELSE raced
        /\ req' = Dropping(g, e.users, [req EXCEPT ![r] = NoRequest])
  BY <1>1 DEF RemoveUsersCommit
<1>4. g \in Groups /\ UNCHANGED group
  BY <1>2 DEF AccessRequest, RemoveUsersCommit
<1>5. \A h \in Groups, v \in Users :
          member'[h][v] = IF h = g /\ v \in e.users THEN NoMembership ELSE member[h][v]
  BY <1>0, <1>3, <1>4, DropRow
<1>6. \A v \in Users : GoodRow(g, v)'
  <2> TAKE v \in Users
  <2>1. GoodRow(g, v) /\ (member'[g][v] = NoMembership \/ member'[g][v] = member[g][v])
    BY <1>4, <1>5 DEF MembersInv
  <2> QED BY <1>3, <1>4, <2>1 DEF GoodRow, NoMembership, LiveGroup
<1>7. KeepsEditor(g)'
  <2>1. CASE g \in raced' BY <2>1 DEF KeepsEditor
  <2>2. CASE g \notin raced'
    <3>1. Editors(g) = e.editors
      BY <1>3, <2>2
    <3>2. PICK v : v \in e.editors \ e.users
      BY <1>2 DEF KnowsMembers
    <3>3. v \in Users /\ Listed(g, v) /\ member[g][v].edit /\ v \notin e.users
      BY <3>1, <3>2 DEF Editors
    <3>4. v \in Editors(g)'
      BY <1>4, <1>5, <3>3 DEF Editors, Listed
    <3> QED BY <3>4 DEF KeepsEditor
  <2> QED BY <2>1, <2>2
<1>8. MembersInv'
  BY <1>3, <1>4, <1>5, <1>6, <1>7, GroupChanged
<1>9. KnowledgeInv'
  BY <1>0, <1>3, <1>4, DroppedKnows
<1> QED BY <1>8, <1>9

\* A dissolved group has no members.
LEMMA DissolveMembers ==
    ASSUME AccessOK, MembersInv, KnowledgeInv, NEW r \in Requests, NEW g \in Groups,
           group' = [group EXCEPT ![g] = "gone"], DropMemberships(g, Users), UNCHANGED raced,
           req' = Dropping(g, Users, [req EXCEPT ![r] = NoRequest])
    PROVE  MembersInv' /\ KnowledgeInv'
<1>0. AccessStoreTypeOK /\ RequestsOK
  BY DEF AccessOK
<1>1. \A h \in Groups, v \in Users :
          member'[h][v] = IF h = g /\ v \in Users THEN NoMembership ELSE member[h][v]
  BY <1>0, DropRow
<1>2. \A h \in Groups : group'[h] = IF h = g THEN "gone" ELSE group[h]
  BY <1>0 DEF AccessStoreTypeOK
<1>3. \A v \in Users : GoodRow(g, v)'
  BY <1>1 DEF GoodRow, NoMembership
<1>4. MembersInv'
  BY <1>1, <1>2, <1>3, GroupChanged DEF LiveGroup
<1>5. KnowledgeInv'
  BY <1>0, <1>2, DroppedKnows
<1> QED BY <1>4, <1>5

\* What is found to be a user's own is theirs, if no membership of theirs has expired.
LEMMA OwnRights ==
    ASSUME AccessStoreTypeOK, MembersInv, NEW u \in Users, ~Lapsed(u), OwnAccess(u) # {},
           NEW x \in Rights,
           (CHOOSE own \in OwnAccess(u) : \A o \in OwnAccess(u) : own >= o) >= x
    PROVE  x \in RightsOf(u)
<1>1. PICK own : own = CHOOSE o \in OwnAccess(u) : \A p \in OwnAccess(u) : o >= p
  OBVIOUS
<1>2. own \in OwnAccess(u)
  <2>1. OwnAccess(u) \subseteq {WRITE, DELETE}
    BY DEF OwnAccess, AccessStoreTypeOK, Rights, READ, CREATE, WRITE, DELETE, NoAccess
  <2>2. \E o \in OwnAccess(u) : \A p \in OwnAccess(u) : o >= p
    <3>1. CASE DELETE \in OwnAccess(u)
      BY <2>1, <3>1 DEF WRITE, DELETE
    <3>2. CASE DELETE \notin OwnAccess(u)
      <4>1. OwnAccess(u) = {WRITE} BY <2>1, <3>2
      <4> QED BY <4>1 DEF WRITE
    <3> QED BY <3>1, <3>2
  <2> QED BY <1>1, <2>2
<1>3. PICK g \in Groups : own = access[g] /\ Listed(g, u) /\ access[g] >= WRITE
  BY <1>2 DEF OwnAccess
<1>4. member[g][u].row = "live" /\ member[g][u].expires # "past" /\ GroupType[g] # "PUBLIC"
  BY <1>3 DEF Lapsed, Listed, MembersInv, GoodRow
<1>5. access[g] # NoAccess /\ access[g] >= x
  <2>1. access[g] \in Rights \cup {NoAccess}
    BY DEF AccessStoreTypeOK
  <2>2. own >= x
    BY <1>1
  <2> QED BY <1>3, <2>1, <2>2 DEF NoAccess, WRITE
<1>6. Granted(g, u, x)
  BY <1>4, <1>5 DEF Granted, Counted
<1> QED BY <1>6 DEF RightsOf, HasProjectRights

LEMMA ContinueMembers ==
    ASSUME AccessOK, MembersInv, KnowledgeInv, NEW r \in Requests, AccessContinue(r)
    PROVE  MembersInv' /\ KnowledgeInv'
<1>0. AccessStoreTypeOK /\ RequestsOK
  BY DEF AccessOK
<1>1. PICK e : e = req[r]
  OBVIOUS
<1>2. e \in AccessRequest /\ KnowsMembers(e) /\ KnowsRights(e)
  BY <1>0, <1>1 DEF KnowledgeInv, RequestsOK, AccessRequestsTypeOK
<1>3. ASSUME UNCHANGED <<accessStoreVars, History>>, Answer(r)
      PROVE  MembersInv' /\ KnowledgeInv'
  <2>1. UNCHANGED <<group, member, raced>> /\ req' = [req EXCEPT ![r] = NoRequest]
    BY <1>3 DEF accessStoreVars, History, Answer, Set
  <2> QED BY <1>0, <2>1, NoRequestType, IdleKnows, OnlyLocals
<1>4. ASSUME UNCHANGED <<group, member, raced>>, NEW x, Set(r, x), KnowsMembers(x), KnowsRights(x)
      PROVE  MembersInv' /\ KnowledgeInv'
  BY <1>0, <1>4, OnlyLocals DEF Set
<1>5. CASE AddUserCommit(r)
  <2>1. PICK g \in e.on, u \in e.users :
            IF LiveGroup(g) /\ member[g][u].row = "none"
            THEN PutMembership(g, u, NewMembership(e.edit, e.expires))
            ELSE UNCHANGED member
    BY <1>1, <1>5 DEF AddUserCommit
  <2>2. Answer(r) /\ UNCHANGED <<group, access, History>>
    BY <1>5 DEF AddUserCommit
  <2>3. g \in Groups /\ u \in Users /\ GroupType[g] # "PUBLIC"
    BY <1>1, <1>2, <1>5 DEF AccessRequest, KnowsMembers, AddUserCommit, At
  <2>4. e.edit \in BOOLEAN /\ e.expires \in {"never", "later"}
    BY <1>2 DEF AccessRequest
  <2>5. CASE UNCHANGED member
    BY <1>3, <2>2, <2>5 DEF accessStoreVars
  <2>6. CASE /\ LiveGroup(g) /\ member[g][u].row = "none"
             /\ PutMembership(g, u, NewMembership(e.edit, e.expires))
    <3>1. MembersInv'
      BY <1>0, <2>2, <2>3, <2>4, <2>6, RowInserted DEF History
    <3>2. PICK m : m = NewMembership(e.edit, e.expires)
      OBVIOUS
    <3>3. \A h \in Groups, v \in Users :
              member'[h][v] = IF h = g /\ v = u THEN m ELSE member[h][v]
      BY <1>0, <2>3, <2>6, <3>2, PutRow
    <3>4. \A h \in Groups, v \in Users : member[h][v].row # "none" => member'[h][v].row # "none"
      BY <2>6, <3>3
    <3> QED BY <1>0, <2>2, <3>1, <3>4, AnsweredKnows
  <2> QED BY <2>1, <2>5, <2>6
<1>6. CASE Affiliate(r)
  <2>1. PICK g \in e.on, u \in e.users :
            IF HasRow(g) /\ member[g][u].row = "none"
            THEN PutMembership(g, u, NewMembership(FALSE, "never"))
            ELSE UNCHANGED member
    BY <1>1, <1>6 DEF Affiliate
  <2>2. Answer(r) /\ UNCHANGED <<group, access, History>>
    BY <1>6 DEF Affiliate
  <2>3. g \in Groups /\ u \in Users /\ GroupType[g] # "PUBLIC" /\ group[g] # "deleted"
    BY <1>1, <1>2, <1>6 DEF AccessRequest, KnowsMembers, Affiliate, At, Affiliations
  <2>4. CASE UNCHANGED member
    BY <1>3, <2>2, <2>4 DEF accessStoreVars
  <2>5. CASE /\ HasRow(g) /\ member[g][u].row = "none"
             /\ PutMembership(g, u, NewMembership(FALSE, "never"))
    <3>1. LiveGroup(g)
      BY <2>3, <2>5 DEF HasRow, LiveGroup
    <3>2. PICK edit \in BOOLEAN, expires \in {"never", "later"} : edit = FALSE /\ expires = "never"
      OBVIOUS
    <3>3. PutMembership(g, u, NewMembership(edit, expires))
      BY <2>5, <3>2
    <3>4. MembersInv'
      BY <1>0, <2>2, <2>3, <2>5, <3>1, <3>3, RowInserted DEF History
    <3>5. PICK m : m = NewMembership(edit, expires)
      OBVIOUS
    <3>6. \A h \in Groups, v \in Users :
              member'[h][v] = IF h = g /\ v = u THEN m ELSE member[h][v]
      BY <1>0, <2>3, <3>3, <3>5, PutRow
    <3>7. \A h \in Groups, v \in Users : member[h][v].row # "none" => member'[h][v].row # "none"
      BY <2>5, <3>6
    <3> QED BY <1>0, <2>2, <3>4, <3>7, AnsweredKnows
  <2> QED BY <2>1, <2>4, <2>5
<1>7. CASE CountEditors(r)
  <2>1. UNCHANGED <<accessStoreVars, History>>
    BY <1>7 DEF CountEditors
  <2>2. CASE Answer(r) BY <1>3, <2>1, <2>2
  <2>3. CASE ~Answer(r)
    <3>1. PICK g \in e.on : /\ Editors(g) \ e.users # {}
                            /\ Set(r, [e EXCEPT !.pc = "leave", !.editors = Editors(g)])
      BY <1>1, <1>7, <2>3 DEF CountEditors
    <3>2. PICK x : x = [e EXCEPT !.pc = "leave", !.editors = Editors(g)]
      OBVIOUS
    <3>3. x.pc = "leave" /\ x.editors = Editors(g) /\ x.users = e.users
      BY <1>2, <3>2 DEF AccessRequest
    <3>4. KnowsMembers(x) /\ KnowsRights(x)
      BY <3>1, <3>3 DEF KnowsMembers, KnowsRights
    <3>5. Set(r, x)
      BY <3>1, <3>2
    <3> QED BY <1>4, <2>1, <3>4, <3>5 DEF accessStoreVars, History
  <2> QED BY <2>2, <2>3
<1>8. CASE RemoveUsersCommit(r)
  BY <1>8, RemoveMembers
<1>9. CASE MayDemote(r)
  <2>1. UNCHANGED <<accessStoreVars, History>>
    BY <1>9 DEF MayDemote
  <2>2. CASE Answer(r) BY <1>3, <2>1, <2>2
  <2>3. CASE ~Answer(r)
    <3>1. PICK g \in e.on : /\ ~(Cardinality(Editors(g)) <= 1)
                            /\ Set(r, [e EXCEPT !.pc = "demote", !.editors = Editors(g)])
      BY <1>1, <1>9, <2>3 DEF MayDemote
    <3>2. PICK x : x = [e EXCEPT !.pc = "demote", !.editors = Editors(g)]
      OBVIOUS
    <3>3. /\ x.pc = "demote" /\ x.editors = Editors(g) /\ x.on = e.on /\ x.users = e.users
          /\ x.seen = e.seen
      BY <1>2, <3>2 DEF AccessRequest
    <3>4. \A u \in Users : x.editors \ {u} # {}
      <4>1. PICK S \in SUBSET Users : S = Editors(g)
        BY EditorsType
      <4>2. ~(Cardinality(S) <= 1)
        BY <3>1, <4>1
      <4> QED BY <3>3, <4>1, <4>2, SeveralEditors
    <3>5. Holds(x)
      BY <1>1, <1>2, <1>9, <3>3 DEF KnowsMembers, Holds, MayDemote, At
    <3>6. KnowsMembers(x) /\ KnowsRights(x)
      BY <3>3, <3>4, <3>5 DEF KnowsMembers, KnowsRights
    <3>7. Set(r, x)
      BY <3>1, <3>2
    <3> QED BY <1>4, <2>1, <3>6, <3>7 DEF accessStoreVars, History
  <2> QED BY <2>2, <2>3
<1>10. CASE SetCanEditSave(r) \/ SetExpireDateSave(r)
  <2>1. /\ e.seen.expires \in {"never", "later", "past"} /\ e.seen.edit \in BOOLEAN
        /\ e.expires \in {"never", "later", "past"}
    <3>1. e.seen \in Membership /\ e.expires \in {"never", "later"}
      BY <1>2 DEF AccessRequest
    <3> QED BY <3>1 DEF Membership
  <2>2. CASE At(r, "promote") /\ SaveMembership(r, TRUE, e.seen.expires)
    BY <2>1, <2>2, SaveMembers DEF At
  <2>3. CASE At(r, "demote") /\ SaveMembership(r, FALSE, e.seen.expires)
    BY <2>1, <2>3, SaveMembers DEF At
  <2>4. CASE At(r, "expire") /\ SaveMembership(r, e.seen.edit, e.expires)
    BY <1>1, <2>1, <2>4, SaveMembers DEF At
  <2> QED BY <1>1, <1>10, <2>2, <2>3, <2>4 DEF SetCanEditSave, SetExpireDateSave
<1>11. CASE Dissolve(r)
  <2>1. UNCHANGED access /\ UNCHANGED History
    BY <1>11 DEF Dissolve
  <2>2. PICK g \in e.on :
        \/ Answer(r) /\ UNCHANGED <<group, member>>
        \/ /\ group' = [group EXCEPT ![g] = "gone"]
           /\ DropMemberships(g, Users)
           /\ req' = Dropping(g, Users, [req EXCEPT ![r] = NoRequest])
    BY <1>1, <1>11 DEF Dissolve
  <2>3. g \in Groups
    BY <1>2 DEF AccessRequest
  <2>4. CASE Answer(r) /\ UNCHANGED <<group, member>>
    BY <1>3, <2>1, <2>4 DEF accessStoreVars
  <2>5. CASE /\ group' = [group EXCEPT ![g] = "gone"]
             /\ DropMemberships(g, Users)
             /\ req' = Dropping(g, Users, [req EXCEPT ![r] = NoRequest])
    BY <2>1, <2>3, <2>5, DissolveMembers DEF History
  <2> QED BY <2>2, <2>4, <2>5
<1>12. CASE CheckDelete(r)
  <2>1. UNCHANGED <<accessStoreVars, History>>
    BY <1>12 DEF CheckDelete
  <2>2. CASE Answer(r) BY <1>3, <2>1, <2>2
  <2>3. CASE ~Answer(r)
    <3>1. PICK u \in e.by : /\ HasProjectRights(u, DELETE)
                            /\ Set(r, [e EXCEPT !.pc = "find", !.had = @ \cup RightsOf(u)])
      BY <1>1, <1>12, <2>3 DEF CheckDelete
    <3>2. PICK x : x = [e EXCEPT !.pc = "find", !.had = @ \cup RightsOf(u)]
      OBVIOUS
    <3>3. x.pc = "find" /\ x.had = e.had \cup RightsOf(u) /\ x.rights = e.rights
      BY <1>2, <3>2 DEF AccessRequest
    <3>4. x.rights \in x.had
      <4>1. e.rights = DELETE
        BY <1>1, <1>2, <1>12 DEF KnowsRights, CheckDelete, At
      <4>2. DELETE \in RightsOf(u)
        BY <3>1 DEF RightsOf, Rights
      <4> QED BY <3>3, <4>1, <4>2
    <3>5. KnowsMembers(x) /\ KnowsRights(x)
      BY <3>3, <3>4 DEF KnowsMembers, KnowsRights
    <3>6. Set(r, x)
      BY <3>1, <3>2
    <3> QED BY <1>4, <2>1, <3>5, <3>6 DEF accessStoreVars, History
  <2> QED BY <2>2, <2>3
<1>13. CASE FindAccess(r)
  <2>1. UNCHANGED <<accessStoreVars, History>>
    BY <1>13 DEF FindAccess
  <2>2. CASE Answer(r) BY <1>3, <2>1, <2>2
  <2>3. CASE ~Answer(r)
    <3>1. PICK g \in e.on : Set(r, [e EXCEPT !.pc = "grant", !.row = access[g]])
      BY <1>1, <1>13, <2>3 DEF FindAccess
    <3>2. PICK x : x = [e EXCEPT !.pc = "grant", !.row = access[g]]
      OBVIOUS
    <3>3. x.pc = "grant" /\ x.had = e.had /\ x.rights = e.rights
      BY <1>2, <3>2 DEF AccessRequest
    <3>4. KnowsMembers(x) /\ KnowsRights(x)
      BY <1>1, <1>2, <1>13, <3>3 DEF KnowsMembers, KnowsRights, FindAccess, At
    <3>5. Set(r, x)
      BY <3>1, <3>2
    <3> QED BY <1>4, <2>1, <3>4, <3>5 DEF accessStoreVars, History
  <2> QED BY <2>2, <2>3
<1>14. CASE GrantAccess(r)
  <2>1. /\ UNCHANGED <<group, member, served, agenda, expected, raced>>
        /\ Set(r, NoRequest)
    BY <1>14 DEF GrantAccess, Answer
  <2> QED BY <1>4, <2>1, NoRequestType, IdleKnows
<1>15. CASE MayRevoke(r)
  <2>1. UNCHANGED <<accessStoreVars, History>>
    BY <1>15 DEF MayRevoke
  <2>2. CASE Answer(r) BY <1>3, <2>1, <2>2
  <2>3. CASE ~Answer(r)
    <3>1. PICK x : x = [e EXCEPT !.pc = "list"]
      OBVIOUS
    <3>2. x.pc = "list" /\ Set(r, x)
      BY <1>1, <1>2, <1>15, <2>3, <3>1 DEF MayRevoke, Goto, AccessRequest
    <3>3. KnowsMembers(x) /\ KnowsRights(x)
      BY <3>2 DEF KnowsMembers, KnowsRights
    <3> QED BY <1>4, <2>1, <3>2, <3>3 DEF accessStoreVars, History
  <2> QED BY <2>2, <2>3
<1>16. CASE FindRevoked(r)
  <2>1. UNCHANGED <<accessStoreVars, History>>
    BY <1>16 DEF FindRevoked
  <2>2. CASE Answer(r) BY <1>3, <2>1, <2>2
  <2>3. CASE ~Answer(r)
    <3>1. PICK g \in e.on : Set(r, [e EXCEPT !.pc = "revoke", !.row = access[g]])
      BY <1>1, <1>16, <2>3 DEF FindRevoked
    <3>2. PICK x : x = [e EXCEPT !.pc = "revoke", !.row = access[g]]
      OBVIOUS
    <3>3. x.pc = "revoke" /\ Set(r, x)
      BY <1>2, <3>1, <3>2 DEF AccessRequest
    <3>4. KnowsMembers(x) /\ KnowsRights(x)
      BY <3>3 DEF KnowsMembers, KnowsRights
    <3> QED BY <1>4, <2>1, <3>3, <3>4 DEF accessStoreVars, History
  <2> QED BY <2>2, <2>3
<1>17. CASE RevokeAccess(r)
  <2>1. PICK rows : req' = Losing(rows, [req EXCEPT ![r] = NoRequest])
    BY <1>17 DEF RevokeAccess
  <2>2. UNCHANGED <<group, member, raced>>
    BY <1>17 DEF RevokeAccess
  <2> QED BY <1>0, <2>1, <2>2, LosingKnows, MembersFrame
<1>18. CASE ReadOwnRights(r)
  <2>1. UNCHANGED <<accessStoreVars, History>>
    BY <1>18 DEF ReadOwnRights
  <2>2. CASE Answer(r) BY <1>3, <2>1, <2>2
  <2>3. CASE ~Answer(r)
    <3>1. PICK u \in e.by :
            /\ OwnAccess(u) # {}
            /\ Set(r, [e EXCEPT !.pc = "compare", !.had = @ \cup RightsOf(u), !.lapsed = Lapsed(u),
                        !.row = CHOOSE own \in OwnAccess(u) : \A o \in OwnAccess(u) : own >= o])
      BY <1>1, <1>18, <2>3 DEF ReadOwnRights
    <3>2. PICK own : own = CHOOSE o \in OwnAccess(u) : \A p \in OwnAccess(u) : o >= p
      OBVIOUS
    <3>3. PICK x : x = [e EXCEPT !.pc = "compare", !.had = @ \cup RightsOf(u),
                                 !.lapsed = Lapsed(u), !.row = own]
      OBVIOUS
    <3>4. /\ x.pc = "compare" /\ x.had = e.had \cup RightsOf(u) /\ x.row = own
          /\ x.lapsed = Lapsed(u)
      BY <1>2, <3>3 DEF AccessRequest
    <3>5. u \in Users
      BY <1>2 DEF AccessRequest
    <3>6. x.lapsed \/ \A y \in Rights : x.row >= y => y \in x.had
      BY <1>0, <3>1, <3>2, <3>4, <3>5, OwnRights
    <3>7. KnowsMembers(x) /\ KnowsRights(x)
      BY <3>4, <3>6 DEF KnowsMembers, KnowsRights
    <3>8. Set(r, x)
      BY <3>1, <3>2, <3>3
    <3> QED BY <1>4, <2>1, <3>7, <3>8 DEF accessStoreVars, History
  <2> QED BY <2>2, <2>3
<1>19. CASE CompareRights(r)
  <2>1. UNCHANGED <<accessStoreVars, History>>
    BY <1>19 DEF CompareRights
  <2>2. CASE Answer(r) BY <1>3, <2>1, <2>2
  <2>3. CASE ~Answer(r)
    <3>1. /\ \A g \in Groups : e.new[g] # access[g] => e.row >= e.new[g]
          /\ Set(r, [e EXCEPT !.pc = "delete", !.kept = {g \in Groups : e.new[g] = access[g]}])
      BY <1>1, <1>19, <2>3 DEF CompareRights
    <3>2. PICK x : x = [e EXCEPT !.pc = "delete", !.kept = {g \in Groups : e.new[g] = access[g]}]
      OBVIOUS
    <3>3. /\ x.pc = "delete" /\ x.had = e.had /\ x.lapsed = e.lapsed /\ x.new = e.new
          /\ x.kept = {g \in Groups : e.new[g] = access[g]}
      BY <1>2, <3>2 DEF AccessRequest
    <3>4. e.lapsed \/ \A y \in Rights : e.row >= y => y \in e.had
      BY <1>1, <1>2, <1>19 DEF KnowsRights, CompareRights, At
    <3>5. \A g \in Groups : e.new[g] \in Rights \cup {NoAccess}
      BY <1>2 DEF AccessRequest
    <3>6. x.lapsed \/ \A g \in Groups : x.new[g] \in x.had \cup {NoAccess} \/ g \in x.kept
      BY <3>1, <3>3, <3>4, <3>5
    <3>7. KnowsMembers(x) /\ KnowsRights(x)
      BY <3>3, <3>6 DEF KnowsMembers, KnowsRights
    <3>8. Set(r, x)
      BY <3>1, <3>2
    <3> QED BY <1>4, <2>1, <3>7, <3>8 DEF accessStoreVars, History
  <2> QED BY <2>2, <2>3
<1>20. CASE DeleteAccess(r)
  <2>1. PICK x : x = [e EXCEPT !.pc = "replace", !.old = {g \in Groups : access[g] # NoAccess}]
    OBVIOUS
  <2>2. Set(r, x) /\ UNCHANGED <<group, member, raced>> /\ e.pc = "delete"
    BY <1>1, <1>20, <2>1 DEF DeleteAccess, accessStoreVars, History, At
  <2>3. x.pc = "replace" /\ x.had = e.had /\ x.lapsed = e.lapsed /\ x.new = e.new /\ x.kept = e.kept
    BY <1>2, <2>1 DEF AccessRequest
  <2>4. KnowsMembers(x) /\ KnowsRights(x)
    BY <1>2, <2>2, <2>3 DEF KnowsMembers, KnowsRights
  <2> QED BY <1>4, <2>2, <2>4
<1>21. CASE ReplaceAccess(r)
  <2>1. UNCHANGED <<group, member>> /\ UNCHANGED History
    BY <1>21 DEF ReplaceAccess
  <2>2. CASE UNCHANGED access /\ Answer(r)
    BY <1>3, <2>1, <2>2 DEF accessStoreVars
  <2>3. CASE req' = Losing(req[r].old, [req EXCEPT ![r] = NoRequest])
    <3>1. PICK rows : req' = Losing(rows, [req EXCEPT ![r] = NoRequest])
      BY <2>3
    <3> QED BY <1>0, <2>1, <3>1, LosingKnows, MembersFrame DEF History
  <2> QED BY <1>21, <2>2, <2>3 DEF ReplaceAccess
<1> QED BY <1>5, <1>6, <1>7, <1>8, <1>9, <1>10, <1>11, <1>12, <1>13, <1>14, <1>15, <1>16, <1>17, <1>18,
           <1>19, <1>20, <1>21 DEF AccessContinue

-----------------------------------------------------------------------------
(* The start of the server, the cron and time, as far as members go.       *)

LEMMA IdleKnowledge ==
    ASSUME \A r \in Requests : At(r, "idle")'
    PROVE  KnowledgeInv'
<1>1. SUFFICES ASSUME NEW r \in Requests
               PROVE  KnowsMembers(req[r])' /\ KnowsRights(req[r])'
  BY DEF KnowledgeInv
<1>2. req'[r].pc = "idle"
  BY DEF At
<1> QED BY <1>2 DEF KnowsMembers, KnowsRights

\* Nothing is going on but requests.
LEMMA UpQuiet ==
    ASSUME BootInv, Booting("up"), UNCHANGED syncVars
    PROVE  BootInv'
<1>1. boot.pc = "up" /\ boot' = boot
  BY DEF Booting, syncVars
<1>2. boot.stale = {} /\ boot.doomed = {}
  BY <1>1 DEF BootInv, BootGroups
<1>3. \A g \in Groups, u \in Users : <<g, u>> \notin boot.add /\ <<g, u>> \notin boot.drop
  BY <1>1 DEF BootInv, BootMember
<1>4. BootGroups'
  BY <1>1, <1>2 DEF BootGroups
<1>5. \A g \in Groups, u \in Users : BootMember(g, u)'
  BY <1>1, <1>3 DEF BootMember
<1> QED BY <1>1, <1>4, <1>5 DEF BootInv, BootBlockedByPurge, Booting

\* The rows that time and the cron change.
Ages(g, u) ==
    \/ member'[g][u] = member[g][u]
    \/ /\ member[g][u].row = "live" /\ member'[g][u].row \in {"live", "deleted"}
       /\ member'[g][u].expires = "past" /\ member'[g][u].edit = member[g][u].edit

LEMMA TimeAges ==
    ASSUME AccessStoreTypeOK, PurgeExpired \/ \E g \in Groups, u \in Users : MembershipExpires(g, u)
    PROVE  (\A h \in Groups, v \in Users : Ages(h, v)) /\ UNCHANGED group
<1>1. CASE PurgeExpired
  <2>1. SUFFICES ASSUME NEW h \in Groups, NEW v \in Users
                 PROVE  Ages(h, v)
    BY <1>1 DEF PurgeExpired
  <2>2. member'[h][v] = PurgedMembership(member[h][v]) /\ member[h][v] \in Membership
    BY <1>1, MemberType DEF PurgeExpired
  <2> QED BY <2>2 DEF PurgedMembership, Membership, Ages
<1>2. ASSUME NEW g \in Groups, NEW u \in Users, MembershipExpires(g, u)
      PROVE  (\A h \in Groups, v \in Users : Ages(h, v)) /\ UNCHANGED group
  <2>1. PICK m : m = [member[g][u] EXCEPT !.expires = "past"]
    OBVIOUS
  <2>2. PutMembership(g, u, m) /\ member[g][u].row = "live" /\ UNCHANGED group
    BY <1>2, <2>1 DEF MembershipExpires
  <2>3. \A h \in Groups, v \in Users :
            member'[h][v] = IF h = g /\ v = u THEN m ELSE member[h][v]
    BY <2>2, PutRow
  <2>4. m.row = member[g][u].row /\ m.expires = "past" /\ m.edit = member[g][u].edit
    <3>1. member[g][u] \in Membership
      BY MemberType
    <3> QED BY <2>1, <3>1 DEF Membership
  <2> QED BY <2>2, <2>3, <2>4 DEF Ages
<1> QED BY <1>1, <1>2

LEMMA TimeMembers ==
    ASSUME SyncTypeOK, MembersInv, KnowledgeInv, BootInv,
           UNCHANGED <<group, accessRequestVars, syncVars>>,
           \A g \in Groups, u \in Users : Ages(g, u)
    PROVE  MembersInv' /\ KnowledgeInv' /\ BootInv'
<1>1. UNCHANGED <<req, raced, boot>>
  BY DEF accessRequestVars, syncVars
<1>2. \A g \in Groups, u \in Users : GoodRow(g, u)'
  <2> TAKE g \in Groups, u \in Users
  <2>1. GoodRow(g, u) /\ Ages(g, u)
    BY DEF MembersInv
  <2> QED BY <1>1, <2>1 DEF GoodRow, Ages, LiveGroup
<1>3. \A g \in Groups : KeepsEditor(g) => KeepsEditor(g)'
  <2>1. SUFFICES ASSUME NEW g \in Groups, KeepsEditor(g)
                 PROVE  KeepsEditor(g)'
    OBVIOUS
  <2>2. CASE g \in raced BY <1>1, <2>2 DEF KeepsEditor
  <2>3. ASSUME NEW u \in Users, member[g][u].row \in {"live", "deleted"}, member[g][u].edit
        PROVE  KeepsEditor(g)'
    <3>1. Ages(g, u)
      OBVIOUS
    <3>2. member'[g][u].row \in {"live", "deleted"} /\ member'[g][u].edit
      BY <2>3, <3>1 DEF Ages
    <3> QED BY <3>2 DEF KeepsEditor, Editors, Listed
  <2> QED BY <2>1, <2>2, <2>3 DEF KeepsEditor, Editors, Listed
<1>4. MembersInv'
  BY <1>2, <1>3 DEF MembersInv, LiveGroup
<1>5. KnowledgeInv'
  <2>1. \A g \in Groups, u \in Users : member[g][u].row # "none" => member'[g][u].row # "none"
    BY DEF Ages
  <2>2. SUFFICES ASSUME NEW r \in Requests
                 PROVE  KnowsMembers(req[r])' /\ KnowsRights(req[r])'
    BY DEF KnowledgeInv
  <2>3. PICK e : e = req[r]
    OBVIOUS
  <2>4. KnowsMembers(e)' /\ KnowsRights(e)
    BY <2>1, <2>3, KnowledgeKept DEF KnowledgeInv
  <2>5. req'[r] = e
    BY <1>1, <2>3
  <2> QED BY <2>4, <2>5 DEF KnowsMembers, Holds, KnowsRights
<1>6. BootGroups'
  <2>1. \A g \in boot.doomed, u \in Users : member'[g][u].row = "none"
    <3> TAKE g \in boot.doomed, u \in Users
    <3>1. g \in Groups /\ member[g][u].row = "none" /\ Ages(g, u)
      BY DEF BootInv, BootGroups, Affiliations
    <3> QED BY <3>1 DEF Ages
  <2> QED BY <1>1, <2>1 DEF BootInv, BootGroups, LiveGroup
<1>7. \A g \in Groups, u \in Users : BootMember(g, u)'
  <2> TAKE g \in Groups, u \in Users
  <2>1. BootMember(g, u) /\ Ages(g, u)
    BY DEF BootInv
  <2>2. /\ Listed(g, u)' => Listed(g, u)
        /\ Listed(g, u) => Listed(g, u)' \/ member'[g][u].expires = "past"
        /\ member[g][u].expires = "past" => member'[g][u].expires = "past"
    BY <2>1 DEF Ages, Listed
  <2> QED BY <1>1, <2>1, <2>2 DEF BootMember, Configured
<1>8. BootBlockedByPurge'
  <2>1. SUFFICES ASSUME boot.pc = "down"
                 PROVE  \E u \in Users : \E g \in boot.config.of[u] : member'[g][u].row = "deleted"
    BY <1>1 DEF BootBlockedByPurge, Booting
  <2>0. PICK u \in Users : \E g \in boot.config.of[u] : member[g][u].row = "deleted"
    BY <2>1 DEF BootInv, BootBlockedByPurge, Booting
  <2>2. PICK g \in boot.config.of[u] : member[g][u].row = "deleted"
    BY <2>0
  <2>3. g \in Groups
    BY <2>2, ConfigType DEF Affiliations
  <2>4. Ages(g, u)
    BY <2>3
  <2> QED BY <2>2, <2>4 DEF Ages
<1> QED BY <1>1, <1>4, <1>5, <1>6, <1>7, <1>8 DEF BootInv, At

LEMMA BootFields ==
    ASSUME SyncTypeOK
    PROVE  /\ boot.stale \subseteq Groups /\ boot.doomed \subseteq Groups
           /\ boot.add \subseteq Groups \X Users /\ boot.drop \subseteq Groups \X Users
           /\ boot.config.groups \subseteq Affiliations
           /\ \A u \in Users : boot.config.of[u] \subseteq boot.config.groups
           /\ \A g \in Affiliations : g \in Groups /\ GroupType[g] = "AFFILIATION"
<1>1. boot \in Boot /\ boot.config \in Configs
  BY DEF SyncTypeOK, Boot
<1>2. boot.config.groups \subseteq Affiliations /\ boot.config.of \in [Users -> SUBSET boot.config.groups]
  BY <1>1, AffiliationSyncAssumption
<1> QED BY <1>1, <1>2 DEF Boot, Affiliations

\* Where no memberships are to be inserted or removed, there is nothing to say of one.
LEMMA NoMembers ==
    ASSUME boot'.pc # "members", boot'.add = {}, boot'.drop = {}
    PROVE  \A g \in Groups, u \in Users : BootMember(g, u)'
  BY DEF BootMember

LEMMA NothingToDo ==
    ASSUME SyncTypeOK, BootInv, boot.pc # "members"
    PROVE  boot.add = {} /\ boot.drop = {}
<1>1. \A g \in Groups, u \in Users : <<g, u>> \notin boot.add /\ <<g, u>> \notin boot.drop
  BY DEF BootInv, BootMember
<1>2. boot.add \subseteq Groups \X Users /\ boot.drop \subseteq Groups \X Users
  BY BootFields
<1> QED BY <1>1, <1>2

LEMMA SyncMembers ==
    ASSUME AccessOK, SyncTypeOK, MembersInv, BootInv, Restart \/ SyncStep
    PROVE  MembersInv' /\ KnowledgeInv' /\ BootInv'
<1>0. AccessStoreTypeOK /\ RequestsOK /\ boot \in Boot
  BY DEF AccessOK, SyncTypeOK
<1>1. CASE Restart
  <2>1. PICK c \in Configs :
        boot' = [pc |-> "upsert", config |-> c, stale |-> {}, doomed |-> {},
                 add |-> {}, drop |-> {}]
    BY <1>1 DEF Restart
  <2>2. req' = [r \in Requests |-> NoRequest] /\ UNCHANGED <<group, member, raced>>
    BY <1>1 DEF Restart, accessStoreVars, History
  <2>3. \A r \in Requests : At(r, "idle")'
    BY <2>2, NoRequestType DEF At
  <2>4. BootGroups' /\ BootBlockedByPurge'
    BY <2>1 DEF BootGroups, BootBlockedByPurge, Booting
  <2>5. \A g \in Groups, u \in Users : BootMember(g, u)'
    BY <2>1, NoMembers
  <2> QED BY <2>2, <2>3, <2>4, <2>5, MembersFrame, IdleKnowledge DEF BootInv
<1>2. ASSUME boot.pc # "up", UNCHANGED req
      PROVE  (\A r \in Requests : At(r, "idle")') /\ KnowledgeInv'
  <2>1. \A r \in Requests : At(r, "idle")'
    BY <1>2 DEF BootInv, At
  <2> QED BY <2>1, IdleKnowledge
<1>3. CASE UpsertGroups
  <2>1. /\ boot.pc = "upsert" /\ boot' = [boot EXCEPT !.pc = "findStale"]
        /\ group' = [g \in Groups |-> IF g \in boot.config.groups THEN "live" ELSE group[g]]
        /\ UNCHANGED <<member, req, raced>>
    BY <1>3 DEF UpsertGroups, Booting, BootAt, accessRequestVars
  <2>2. /\ boot'.pc = "findStale" /\ boot'.config = boot.config /\ boot'.stale = boot.stale
        /\ boot'.doomed = boot.doomed /\ boot'.add = boot.add /\ boot'.drop = boot.drop
    BY <1>0, <2>1 DEF Boot
  <2>3. MembersInv'
    <3>1. \A g \in Groups, u \in Users : GoodRow(g, u)'
      <4> TAKE g \in Groups, u \in Users
      <4>1. GoodRow(g, u) BY DEF MembersInv
      <4> QED BY <2>1, <4>1 DEF GoodRow, LiveGroup
    <3>2. ASSUME NEW g \in Groups, LiveGroup(g)', GroupType[g] = "CUSTOM"
          PROVE  KeepsEditor(g)'
      <4>1. group'[g] = group[g]
        BY <2>1, <3>2, BootFields
      <4>2. KeepsEditor(g)
        BY <3>2, <4>1 DEF MembersInv, LiveGroup
      <4> QED BY <2>1, <4>1, <4>2, GroupFrame
    <3> QED BY <3>1, <3>2 DEF MembersInv
  <2>4. BootGroups'
    <3>1. boot.stale = {} /\ boot.doomed = {}
      BY <2>1 DEF BootInv, BootGroups
    <3>2. \A g \in boot.config.groups : group'[g] = "live"
      BY <2>1, BootFields
    <3> QED BY <2>2, <3>1, <3>2 DEF BootGroups, LiveGroup
  <2>5. \A g \in Groups, u \in Users : BootMember(g, u)'
    BY <2>1, <2>2, NothingToDo, NoMembers
  <2> QED BY <1>2, <2>1, <2>2, <2>3, <2>4, <2>5 DEF BootInv, BootBlockedByPurge, Booting
<1>4. CASE FindStale
  <2>1. /\ boot.pc = "findStale"
        /\ boot' = [boot EXCEPT !.pc = "stale",
                        !.stale = {g \in Affiliations : LiveGroup(g)} \ boot.config.groups]
        /\ UNCHANGED <<group, member, req, raced>>
    BY <1>4 DEF FindStale, Booting, accessStoreVars, accessRequestVars
  <2>2. /\ boot'.pc = "stale" /\ boot'.config = boot.config
        /\ boot'.stale = {g \in Affiliations : LiveGroup(g)} \ boot.config.groups
        /\ boot'.doomed = boot.doomed /\ boot'.add = boot.add /\ boot'.drop = boot.drop
    BY <1>0, <2>1 DEF Boot
  <2>3. BootGroups'
    <3>1. boot.doomed = {} /\ \A g \in boot.config.groups : LiveGroup(g)
      BY <2>1 DEF BootInv, BootGroups
    <3> QED BY <2>1, <2>2, <3>1 DEF BootGroups, LiveGroup
  <2>4. \A g \in Groups, u \in Users : BootMember(g, u)'
    BY <2>1, <2>2, NothingToDo, NoMembers
  <2> QED BY <1>2, <2>1, <2>2, <2>3, <2>4, MembersFrame DEF BootInv, BootBlockedByPurge, Booting
<1>5. CASE DropStaleMembers
  <2>1. PICK g \in boot.stale :
        /\ DropMemberships(g, Users)
        /\ boot' = [boot EXCEPT !.pc = "remove", !.stale = @ \ {g}, !.doomed = {g}]
    BY <1>5 DEF DropStaleMembers
  <2>2. boot.pc = "stale" /\ UNCHANGED <<group, req, raced>>
    BY <1>5 DEF DropStaleMembers, Booting, accessRequestVars
  <2>3. /\ boot'.pc = "remove" /\ boot'.config = boot.config /\ boot'.stale = boot.stale \ {g}
        /\ boot'.doomed = {g} /\ boot'.add = boot.add /\ boot'.drop = boot.drop
    BY <1>0, <2>1 DEF Boot
  <2>4. g \in Groups /\ g \in Affiliations \ boot.config.groups /\ GroupType[g] # "CUSTOM"
    BY BootFields DEF BootInv, BootGroups
  <2>5. \A h \in Groups, v \in Users :
            member'[h][v] = IF h = g /\ v \in Users THEN NoMembership ELSE member[h][v]
    BY <1>0, <2>1, <2>4, DropRow
  <2>6. \A v \in Users : GoodRow(g, v)' /\ member'[g][v].row = "none"
    BY <2>4, <2>5 DEF GoodRow, NoMembership
  <2>7. MembersInv'
    BY <2>2, <2>4, <2>5, <2>6, GroupChanged
  <2>8. BootGroups'
    BY <2>2, <2>3, <2>4, <2>6 DEF BootInv, BootGroups, LiveGroup
  <2>9. \A h \in Groups, u \in Users : BootMember(h, u)'
    BY <2>2, <2>3, NothingToDo, NoMembers
  <2> QED BY <1>2, <2>2, <2>3, <2>7, <2>8, <2>9 DEF BootInv, BootBlockedByPurge, Booting
<1>6. CASE RemoveStaleGroup
  <2>1. /\ boot.pc = "remove" /\ boot' = [boot EXCEPT !.pc = "stale", !.doomed = {}]
        /\ group' = [g \in Groups |-> IF g \in boot.doomed THEN "deleted" ELSE group[g]]
        /\ UNCHANGED <<member, req, raced>>
    BY <1>6 DEF RemoveStaleGroup, Booting, accessRequestVars
  <2>2. /\ boot'.pc = "stale" /\ boot'.config = boot.config /\ boot'.stale = boot.stale
        /\ boot'.doomed = {} /\ boot'.add = boot.add /\ boot'.drop = boot.drop
    BY <1>0, <2>1 DEF Boot
  <2>3. MembersInv'
    <3>1. \A g \in Groups, u \in Users : GoodRow(g, u)'
      <4> TAKE g \in Groups, u \in Users
      <4>1. GoodRow(g, u) /\ (g \in boot.doomed => member[g][u].row = "none")
        BY DEF MembersInv, BootInv, BootGroups
      <4> QED BY <2>1, <4>1 DEF GoodRow, LiveGroup
    <3>2. ASSUME NEW g \in Groups, LiveGroup(g)', GroupType[g] = "CUSTOM"
          PROVE  KeepsEditor(g)'
      <4>1. group'[g] = group[g]
        BY <2>1, <3>2 DEF LiveGroup
      <4>2. KeepsEditor(g)
        BY <3>2, <4>1 DEF MembersInv, LiveGroup
      <4> QED BY <2>1, <4>1, <4>2, GroupFrame
    <3> QED BY <3>1, <3>2 DEF MembersInv
  <2>4. BootGroups'
    <3>1. \A g \in boot.config.groups : LiveGroup(g)'
      <4> TAKE g \in boot.config.groups
      <4>1. LiveGroup(g) /\ g \notin boot.doomed /\ g \in Groups
        BY <2>1, BootFields DEF BootInv, BootGroups
      <4> QED BY <2>1, <4>1 DEF LiveGroup
    <3>2. \A g \in Affiliations \ boot.config.groups : LiveGroup(g)' => g \in boot.stale
      <4> TAKE g \in Affiliations \ boot.config.groups
      <4>1. g \in Groups /\ (LiveGroup(g) => g \in boot.stale \cup boot.doomed)
        BY <2>1, BootFields DEF BootInv, BootGroups
      <4> QED BY <2>1, <4>1 DEF LiveGroup
    <3> QED BY <2>1, <2>2, <3>1, <3>2 DEF BootInv, BootGroups
  <2>5. \A g \in Groups, u \in Users : BootMember(g, u)'
    BY <2>1, <2>2, NothingToDo, NoMembers
  <2> QED BY <1>2, <2>1, <2>2, <2>3, <2>4, <2>5 DEF BootInv, BootBlockedByPurge, Booting
<1>7. CASE ReadMembers
  <2> DEFINE wanted == {m \in Groups \X Users : m[1] \in boot.config.of[m[2]]}
             current == {m \in boot.config.groups \X Users : Listed(m[1], m[2])}
  <2>1. /\ boot.pc = "stale" /\ boot.stale = {}
        /\ boot' = [boot EXCEPT !.pc = "members", !.add = wanted \ current, !.drop = current \ wanted]
        /\ UNCHANGED <<group, member, req, raced>>
    BY <1>7 DEF ReadMembers, Booting, accessStoreVars, accessRequestVars
  <2>2. /\ boot'.pc = "members" /\ boot'.config = boot.config /\ boot'.stale = boot.stale
        /\ boot'.doomed = boot.doomed /\ boot'.add = wanted \ current /\ boot'.drop = current \ wanted
    <3> HIDE DEF wanted, current
    <3> QED BY <1>0, <2>1 DEF Boot
  <2>3. BootGroups'
    BY <2>1, <2>2 DEF BootInv, BootGroups, LiveGroup
  <2>4. \A g \in Groups, u \in Users : BootMember(g, u)'
    <3> TAKE g \in Groups, u \in Users
    <3>1. /\ <<g, u>> \in wanted <=> Configured(g, u)
          /\ <<g, u>> \in current <=> g \in boot.config.groups /\ Listed(g, u)
      BY DEF Configured
    <3>2. Configured(g, u) => g \in boot.config.groups
      BY BootFields DEF Configured
    <3>3. (Configured(g, u)' <=> Configured(g, u)) /\ (Listed(g, u)' <=> Listed(g, u))
      BY <2>1, <2>2 DEF Configured, Listed
    <3> HIDE DEF wanted, current
    <3> QED BY <2>2, <3>1, <3>2, <3>3 DEF BootMember
  <2> QED BY <1>2, <2>1, <2>2, <2>3, <2>4, MembersFrame DEF BootInv, BootBlockedByPurge, Booting
<1>8. CASE AddMember
  <2>1. PICK m \in boot.add :
        IF member[m[1]][m[2]].row = "none"
        THEN /\ PutMembership(m[1], m[2], NewMembership(FALSE, "never"))
             /\ boot' = [boot EXCEPT !.add = @ \ {m}]
        ELSE UNCHANGED member /\ boot' = [boot EXCEPT !.pc = "down", !.add = {}, !.drop = {}]
    BY <1>8 DEF AddMember
  <2>2. PICK g \in Groups, u \in Users : m = <<g, u>>
    BY BootFields
  <2>3. boot.pc = "members" /\ UNCHANGED <<group, req, raced>>
    BY <1>8 DEF AddMember, Booting, accessRequestVars
  <2>4. /\ Configured(g, u) /\ ~Listed(g, u) /\ g \in boot.config.groups
        /\ LiveGroup(g) /\ GroupType[g] = "AFFILIATION"
    <3>1. Configured(g, u) /\ ~Listed(g, u)
      BY <2>1, <2>2 DEF BootInv, BootMember
    <3>2. g \in boot.config.groups
      BY <3>1, BootFields DEF Configured
    <3> QED BY <2>3, <3>1, <3>2, BootFields DEF BootInv, BootGroups
  <2>5. CASE /\ member[g][u].row = "none" /\ PutMembership(g, u, NewMembership(FALSE, "never"))
             /\ boot' = [boot EXCEPT !.add = @ \ {m}]
    <3>1. PICK edit \in BOOLEAN, expires \in {"never", "later"} : edit = FALSE /\ expires = "never"
      OBVIOUS
    <3>2. PutMembership(g, u, NewMembership(edit, expires))
      BY <2>5, <3>1
    <3>3. MembersInv'
      BY <1>0, <2>3, <2>4, <2>5, <3>2, RowInserted
    <3>4. PICK x : x = NewMembership(edit, expires)
      OBVIOUS
    <3>5. \A h \in Groups, v \in Users :
              member'[h][v] = IF h = g /\ v = u THEN x ELSE member[h][v]
      BY <1>0, <3>2, <3>4, PutRow
    <3>6. /\ boot'.pc = boot.pc /\ boot'.config = boot.config /\ boot'.stale = boot.stale
          /\ boot'.doomed = boot.doomed /\ boot'.add = boot.add \ {m} /\ boot'.drop = boot.drop
      BY <1>0, <2>5 DEF Boot
    <3>7. BootGroups'
      <4>1. boot.doomed = {}
        BY <2>3 DEF BootInv, BootGroups
      <4> QED BY <2>3, <3>6, <4>1 DEF BootInv, BootGroups, LiveGroup
    <3>8. \A h \in Groups, v \in Users : BootMember(h, v)'
      <4> TAKE h \in Groups, v \in Users
      <4>1. BootMember(h, v) /\ (Configured(h, v)' <=> Configured(h, v))
        BY <3>6 DEF BootInv, Configured
      <4>2. CASE h = g /\ v = u
        <5>1. Listed(h, v)'
          BY <3>4, <3>5, <4>2 DEF Listed, NewMembership
        <5> QED BY <2>2, <2>4, <3>6, <4>1, <4>2, <5>1 DEF BootMember
      <4>3. CASE ~(h = g /\ v = u)
        <5>1. member'[h][v] = member[h][v] /\ <<h, v>> # m
          BY <2>2, <3>5, <4>3
        <5> QED BY <3>6, <4>1, <5>1 DEF BootMember, Listed
      <4> QED BY <4>2, <4>3
    <3>9. BootBlockedByPurge'
      BY <2>3, <3>6 DEF BootBlockedByPurge, Booting
    <3> QED BY <1>2, <2>3, <3>3, <3>7, <3>8, <3>9 DEF BootInv
  <2>6. CASE /\ member[g][u].row # "none" /\ UNCHANGED member
             /\ boot' = [boot EXCEPT !.pc = "down", !.add = {}, !.drop = {}]
    <3>1. /\ boot'.pc = "down" /\ boot'.config = boot.config /\ boot'.stale = boot.stale
          /\ boot'.doomed = boot.doomed /\ boot'.add = {} /\ boot'.drop = {}
      BY <1>0, <2>6 DEF Boot
    <3>2. member[g][u].row = "deleted"
      <4>1. GoodRow(g, u) /\ member[g][u] \in Membership
        BY <1>0, MemberType DEF MembersInv
      <4> QED BY <2>4, <2>6, <4>1 DEF GoodRow, Membership, Presence, Listed
    <3>3. BootBlockedByPurge'
      BY <2>4, <2>6, <3>1, <3>2 DEF BootBlockedByPurge, Configured
    <3>4. BootGroups'
      BY <2>3, <3>1 DEF BootInv, BootGroups
    <3>5. \A h \in Groups, v \in Users : BootMember(h, v)'
      BY <3>1, NoMembers
    <3>6. MembersInv'
      BY <2>3, <2>6, MembersFrame
    <3> QED BY <1>2, <2>3, <3>3, <3>4, <3>5, <3>6 DEF BootInv
  <2> QED BY <2>1, <2>2, <2>5, <2>6
<1>9. CASE RemoveMember
  <2>1. PICK m \in boot.drop :
        DropMemberships(m[1], {m[2]}) /\ boot' = [boot EXCEPT !.drop = @ \ {m}]
    BY <1>9 DEF RemoveMember
  <2>2. PICK g \in Groups, u \in Users : m = <<g, u>>
    BY BootFields
  <2>3. boot.pc = "members" /\ UNCHANGED <<group, req, raced>>
    BY <1>9 DEF RemoveMember, Booting, accessRequestVars
  <2>4. ~Configured(g, u) /\ g \in boot.config.groups /\ GroupType[g] # "CUSTOM"
    BY <2>1, <2>2, BootFields DEF BootInv, BootMember
  <2>5. DropMemberships(g, {u})
    BY <2>1, <2>2
  <2>6. \A h \in Groups, v \in Users :
            member'[h][v] = IF h = g /\ v \in {u} THEN NoMembership ELSE member[h][v]
    BY <1>0, <2>5, DropRow
  <2>7. /\ boot'.pc = boot.pc /\ boot'.config = boot.config /\ boot'.stale = boot.stale
        /\ boot'.doomed = boot.doomed /\ boot'.add = boot.add /\ boot'.drop = boot.drop \ {m}
    BY <1>0, <2>1 DEF Boot
  <2>8. MembersInv'
    <3>1. \A v \in Users : GoodRow(g, v)'
      <4> TAKE v \in Users
      <4>1. GoodRow(g, v) /\ (member'[g][v] = NoMembership \/ member'[g][v] = member[g][v])
        BY <2>6 DEF MembersInv
      <4> QED BY <2>3, <4>1 DEF GoodRow, NoMembership, LiveGroup
    <3> QED BY <2>3, <2>4, <2>6, <3>1, GroupChanged
  <2>9. BootGroups'
    <3>1. boot.doomed = {}
      BY <2>3 DEF BootInv, BootGroups
    <3> QED BY <2>3, <2>7, <3>1 DEF BootInv, BootGroups, LiveGroup
  <2>10. \A h \in Groups, v \in Users : BootMember(h, v)'
    <3> TAKE h \in Groups, v \in Users
    <3>1. BootMember(h, v) /\ (Configured(h, v)' <=> Configured(h, v))
      BY <2>7 DEF BootInv, Configured
    <3>2. CASE h = g /\ v = u
      <4>1. ~Listed(h, v)'
        BY <2>6, <3>2 DEF Listed, NoMembership
      <4> QED BY <2>2, <2>4, <2>7, <3>1, <3>2, <4>1 DEF BootMember
    <3>3. CASE ~(h = g /\ v = u)
      <4>1. member'[h][v] = member[h][v] /\ <<h, v>> # m
        BY <2>2, <2>6, <3>3
      <4> QED BY <2>7, <3>1, <4>1 DEF BootMember, Listed
    <3> QED BY <3>2, <3>3
  <2>11. BootBlockedByPurge'
    BY <2>3, <2>7 DEF BootBlockedByPurge, Booting
  <2> QED BY <1>2, <2>3, <2>8, <2>9, <2>10, <2>11 DEF BootInv
<1>10. CASE Listen
  <2>1. /\ boot.pc = "members" /\ boot.add = {} /\ boot.drop = {}
        /\ boot' = [boot EXCEPT !.pc = "up"]
        /\ UNCHANGED <<group, member, req, raced>>
    BY <1>10 DEF Listen, Booting, BootAt, accessStoreVars
  <2>2. /\ boot'.pc = "up" /\ boot'.config = boot.config /\ boot'.stale = boot.stale
        /\ boot'.doomed = boot.doomed /\ boot'.add = boot.add /\ boot'.drop = boot.drop
    BY <1>0, <2>1 DEF Boot
  <2>3. BootGroups'
    BY <2>1, <2>2 DEF BootInv, BootGroups
  <2>4. \A h \in Groups, v \in Users : BootMember(h, v)'
    BY <2>1, <2>2, NoMembers
  <2> QED BY <1>2, <2>1, <2>2, <2>3, <2>4, MembersFrame DEF BootInv, BootBlockedByPurge, Booting
<1> QED BY <1>1, <1>3, <1>4, <1>5, <1>6, <1>7, <1>8, <1>9, <1>10 DEF SyncStep

-----------------------------------------------------------------------------
(* Members in the course of a behaviour.                                   *)

LEMMA GroupsInit == AccessInit => GroupsInv
<1> SUFFICES ASSUME AccessInit PROVE GroupsInv
  OBVIOUS
<1>1. PICK c \in Configs :
        /\ group = [g \in Groups |->
                IF GroupType[g] \in {"PRIMARY", "PUBLIC"} \/ g \in c.groups THEN "live" ELSE "none"]
        /\ member = [g \in Groups |-> [u \in Users |->
                IF g \in c.of[u] THEN NewMembership(FALSE, "never") ELSE NoMembership]]
        /\ req = [r \in Requests |-> NoRequest]
        /\ boot = [pc |-> "up", config |-> c, stale |-> {}, doomed |-> {}, add |-> {}, drop |-> {}]
  BY DEF AccessInit
<1>2. c.groups \subseteq Affiliations /\ c.of \in [Users -> SUBSET c.groups]
  BY <1>1, AffiliationSyncAssumption
<1>3. \A g \in Groups, u \in Users : GoodRow(g, u)
  <2> TAKE g \in Groups, u \in Users
  <2>1. CASE g \in c.of[u]
    <3>1. g \in c.groups /\ GroupType[g] = "AFFILIATION"
      BY <1>2, <2>1 DEF Affiliations
    <3>2. member[g][u].row = "live"
      BY <1>1, <2>1 DEF NewMembership
    <3> QED BY <1>1, <3>1, <3>2 DEF GoodRow, LiveGroup
  <2>2. CASE g \notin c.of[u]
    BY <1>1, <2>2 DEF GoodRow, NoMembership
  <2> QED BY <2>1, <2>2
<1>4. \A g \in Groups : GroupType[g] = "CUSTOM" => ~LiveGroup(g)
  BY <1>1, <1>2 DEF LiveGroup, Affiliations
<1>5. KnowledgeInv
  BY <1>1, NoRequestType DEF KnowledgeInv, KnowsMembers, KnowsRights
<1>6. BootInv
  BY <1>1 DEF BootInv, BootGroups, BootMember, BootBlockedByPurge, Booting
<1> QED BY <1>3, <1>4, <1>5, <1>6 DEF GroupsInv, MembersInv

LEMMA GroupsStep ==
    ASSUME AccessInv, GroupsInv, [AccessNext]_accessVars
    PROVE  GroupsInv'
<1>0. /\ AccessOK /\ SyncTypeOK /\ AccessStoreTypeOK /\ RequestsOK
      /\ MembersInv /\ KnowledgeInv /\ BootInv
  BY DEF AccessInv, AccessOK, GroupsInv
<1>1. CASE /\ Booting("up") /\ UNCHANGED syncVars
           /\ \E r \in Requests : AccessReceive(r) \/ AccessContinue(r)
  BY <1>0, <1>1, ReceiveMembers, ContinueMembers, UpQuiet DEF GroupsInv
<1>2. CASE Restart \/ SyncStep
  BY <1>0, <1>2, SyncMembers DEF GroupsInv
<1>3. CASE /\ PurgeExpired \/ \E g \in Groups, u \in Users : MembershipExpires(g, u)
           /\ UNCHANGED <<accessRequestVars, syncVars>>
  <2>1. (\A h \in Groups, v \in Users : Ages(h, v)) /\ UNCHANGED group
    BY <1>0, <1>3, TimeAges
  <2> QED BY <1>0, <1>3, <2>1, TimeMembers DEF GroupsInv
<1>4. CASE UNCHANGED accessVars
  <2>1. UNCHANGED <<group, accessRequestVars, syncVars>> /\ UNCHANGED member
    BY <1>4 DEF accessVars, accessStoreVars
  <2>2. \A g \in Groups, u \in Users : Ages(g, u)
    BY <2>1 DEF Ages
  <2> QED BY <1>0, <2>1, <2>2, TimeMembers DEF GroupsInv
<1> QED BY <1>1, <1>2, <1>3, <1>4 DEF AccessNext

LEMMA GroupsInvariant == AccessSpec => []GroupsInv
<1>1. AccessInit => GroupsInv
  BY GroupsInit
<1>2. AccessInv /\ GroupsInv /\ [AccessNext]_accessVars => GroupsInv'
  BY GroupsStep
<1> QED BY <1>1, <1>2, AccessInvariant, PTL DEF AccessSpec

\* However many requests change the members of a custom group at once, and
\* whatever the cron purges meanwhile: somebody is left who can edit it, unless a
\* request wrote what others had changed since it looked, or the last editor's
\* membership has expired and was purged.
THEOREM EditorKept == AccessSpec => []GroupKeepsEditor
<1>1. GroupsInv => GroupKeepsEditor
  BY DEF GroupsInv, MembersInv, KeepsEditor, GroupKeepsEditor
<1> QED BY <1>1, GroupsInvariant, PTL

\* The view of project rights does not look at soft deletion, and nobody profits:
\* a membership that counts is listed, unless a save has raced with the cron.
THEOREM PurgedCountForNothing == AccessSpec => []PurgedGrantsNothing
<1>1. AccessInv /\ GroupsInv => PurgedGrantsNothing
  <2>1. SUFFICES ASSUME AccessInv, GroupsInv, NEW g \in Groups, NEW u \in Users, Counted(g, u)
                 PROVE  Listed(g, u) \/ g \in raced
    BY DEF PurgedGrantsNothing
  <2>2. member[g][u] \in Membership /\ GoodRow(g, u)
    BY <2>1, MemberType DEF AccessInv, AccessOK, GroupsInv, MembersInv
  <2> QED BY <2>1, <2>2 DEF GoodRow, Counted, Listed, Membership, Presence
<1> QED BY <1>1, AccessInvariant, GroupsInvariant, PTL

\* A start that fails, has found a configured member whose membership was purged.
THEOREM BootFailsByPurgeAlone == AccessSpec => []BootBlockedByPurge
<1>1. GroupsInv => BootBlockedByPurge
  BY DEF GroupsInv, BootInv
<1> QED BY <1>1, GroupsInvariant, PTL

-----------------------------------------------------------------------------
(* What a step may do.                                                     *)

LEMMA ContinueGrants ==
    ASSUME AccessOK, KnowledgeInv, NEW r \in Requests, AccessContinue(r),
           NEW g \in Groups, access'[g] > access[g]
    PROVE  /\ Gives(r, g)
           /\ access'[g] \in req[r].had \/ g \in req[r].kept \/ req[r].lapsed
<1>0. AccessStoreTypeOK /\ RequestsOK
  BY DEF AccessOK
<1>1. access[g] \in Rights \cup {NoAccess} /\ Rights \cup {NoAccess} \subseteq Int
  BY <1>0 DEF AccessStoreTypeOK, Rights, READ, CREATE, WRITE, DELETE, NoAccess
<1>2. ~(NoAccess > access[g]) /\ ~(access[g] > access[g])
  BY <1>1 DEF Rights, READ, CREATE, WRITE, DELETE, NoAccess
<1>3. access' # access
  BY <1>2
<1>4. PICK e : e = req[r]
  OBVIOUS
<1>5. e \in AccessRequest /\ KnowsRights(e) /\ req \in [Requests -> AccessRequest]
  BY <1>0, <1>4 DEF KnowledgeInv, RequestsOK, AccessRequestsTypeOK
<1>6. CASE GrantAccess(r)
  <2>1. PICK h \in e.on :
        \/ UNCHANGED access
        \/ access' = [access EXCEPT ![h] = e.rights]
    BY <1>4, <1>6 DEF GrantAccess
  <2>2. h = g /\ access'[g] = e.rights
    BY <1>0, <1>2, <1>3, <2>1 DEF AccessStoreTypeOK
  <2>3. At(r, "grant") /\ req' = [req EXCEPT ![r] = NoRequest]
    BY <1>6 DEF GrantAccess, Answer, Set
  <2>4. Gives(r, g)
    BY <1>4, <1>5, <2>1, <2>2, <2>3, NoRequestType DEF Gives, At
  <2>5. e.rights \in e.had
    BY <1>4, <1>5, <2>3 DEF KnowsRights, At
  <2> QED BY <1>4, <2>2, <2>4, <2>5
<1>7. CASE RevokeAccess(r)
  <2>1. PICK h \in e.on : access' = [access EXCEPT ![h] = NoAccess]
    BY <1>4, <1>7 DEF RevokeAccess
  <2>2. access'[g] = NoAccess \/ access'[g] = access[g]
    BY <1>0, <2>1 DEF AccessStoreTypeOK
  <2> QED BY <1>2, <2>2
<1>8. CASE ReplaceAccess(r)
  <2>1. /\ access' = Replaced(r) /\ At(r, "replace")
        /\ req' = Losing(req[r].old, [req EXCEPT ![r] = NoRequest])
    BY <1>3, <1>8 DEF ReplaceAccess
  <2>2. access'[g] = e.new[g] /\ e.new[g] # NoAccess
    BY <1>2, <1>4, <2>1 DEF Replaced
  <2>3. At(r, "idle")'
    <3>1. [req EXCEPT ![r] = NoRequest][r] = NoRequest
      BY <1>5
    <3>2. req'[r] = NoRequest \/ req'[r] = [NoRequest EXCEPT !.old = @ \ req[r].old]
      BY <2>1, <3>1 DEF Losing
    <3> QED BY <3>2, NoRequestType DEF At, AccessRequest
  <2>4. e.lapsed \/ e.new[g] \in e.had \/ g \in e.kept
    BY <1>4, <1>5, <2>1, <2>2 DEF KnowsRights, At
  <2> QED BY <1>4, <2>1, <2>2, <2>3, <2>4 DEF Gives
<1>9. CASE ~GrantAccess(r) /\ ~RevokeAccess(r) /\ ~ReplaceAccess(r)
  <2>1. UNCHANGED access
    BY <1>9 DEF AccessContinue, AddUserCommit, CountEditors, RemoveUsersCommit, MayDemote,
                SetCanEditSave, SetExpireDateSave, SaveMembership, Dissolve, Affiliate,
                CheckDelete, FindAccess, MayRevoke, FindRevoked, ReadOwnRights, CompareRights,
                DeleteAccess, accessStoreVars
  <2> QED BY <1>3, <2>1
<1> QED BY <1>6, <1>7, <1>8, <1>9

\* However many users replace, raise and remove the rights of groups at the same
\* time: what a group gains, its giver had when that was checked, or had by an
\* expired membership, or the group had it too when the list was compared.
THEOREM GrantedWithinRights == AccessSpec => GrantsWithinRights
<1> DEFINE A == \A g \in Groups : access'[g] > access[g] =>
                    \E r \in Requests :
                        /\ Gives(r, g)
                        /\ access'[g] \in req[r].had \/ g \in req[r].kept \/ req[r].lapsed
<1>1. AccessInv /\ GroupsInv /\ [AccessNext]_accessVars => [A]_accessVars
  <2>1. SUFFICES ASSUME AccessInv, GroupsInv, AccessNext, NEW g \in Groups, access'[g] > access[g]
                 PROVE  \E r \in Requests :
                            /\ Gives(r, g)
                            /\ access'[g] \in req[r].had \/ g \in req[r].kept \/ req[r].lapsed
    OBVIOUS
  <2>2. AccessOK /\ KnowledgeInv /\ access[g] \in Int
    BY <2>1 DEF AccessInv, AccessOK, GroupsInv, AccessStoreTypeOK, Rights, READ, CREATE, WRITE,
                DELETE, NoAccess
  <2>3. access' # access
    BY <2>1, <2>2
  <2>4. ASSUME NEW r \in Requests, AccessReceive(r)
        PROVE  UNCHANGED access
    BY <2>4 DEF AccessReceive, CreateAccessGroup, AddUser, RemoveUsers, SetCanEdit, SetExpireDate,
                DeleteAccessGroup, SignIn, AddGroupToProject, RemoveGroup, UpdateProjectAccess,
                BeginOnGroup, BeginOnProject, accessStoreVars
  <2>5. ASSUME Restart \/ SyncStep PROVE FALSE
    <3>1. UNCHANGED access
      BY <2>5 DEF Restart, SyncStep, UpsertGroups, FindStale, DropStaleMembers, RemoveStaleGroup,
                  ReadMembers, AddMember, RemoveMember, Listen, accessStoreVars
    <3> QED BY <2>3, <3>1
  <2>6. ASSUME PurgeExpired \/ \E h \in Groups, u \in Users : MembershipExpires(h, u)
        PROVE  FALSE
    BY <2>3, <2>6 DEF PurgeExpired, MembershipExpires
  <2>7. PICK r \in Requests : AccessContinue(r)
    BY <2>1, <2>3, <2>4, <2>5, <2>6 DEF AccessNext
  <2> QED BY <2>1, <2>2, <2>7, ContinueGrants
<1>2. ([][A]_accessVars) => GrantsWithinRights
  BY DEF GrantsWithinRights
<1> HIDE DEF A
<1> QED BY <1>1, <1>2, AccessInvariant, GroupsInvariant, PTL DEF AccessSpec

\* The server comes up, and the memberships in affiliation groups are those of its
\* configuration.
LEMMA ListenReconciles ==
    ASSUME AccessOK, SyncTypeOK, MembersInv, BootInv, Listen,
           NEW u \in Users, NEW g \in Affiliations
    PROVE  IF g \in boot.config.of[u] THEN Listed(g, u) \/ member[g][u].expires = "past"
                                      ELSE ~Counted(g, u) \/ g \in raced
<1>1. boot.pc = "members" /\ boot.add = {} /\ boot.drop = {} /\ boot.stale = {} /\ boot.doomed = {}
  BY DEF Listen, Booting, BootInv, BootGroups
<1>2. g \in Groups /\ BootMember(g, u) /\ GoodRow(g, u)
  BY BootFields DEF BootInv, MembersInv
<1>3. member[g][u] \in Membership
  BY <1>2, MemberType DEF AccessOK
<1>4. CASE g \in boot.config.of[u]
  <2>1. g \in boot.config.groups
    BY <1>4, BootFields
  <2> QED BY <1>1, <1>2, <1>4, <2>1 DEF BootMember, Configured
<1>5. CASE g \notin boot.config.of[u] /\ g \in boot.config.groups
  <2>1. ~Listed(g, u)
    BY <1>1, <1>2, <1>5 DEF BootMember, Configured
  <2> QED BY <1>2, <1>3, <1>5, <2>1 DEF GoodRow, Counted, Listed, Membership, Presence
<1>6. CASE g \notin boot.config.of[u] /\ g \notin boot.config.groups
  <2>1. ~LiveGroup(g)
    BY <1>1, <1>6 DEF BootInv, BootGroups
  <2> QED BY <1>2, <1>6, <2>1 DEF GoodRow, Counted
<1> QED BY <1>4, <1>5, <1>6

\* Only the end of the start makes a server that is not up one that is.
LEMMA OnlyListen ==
    ASSUME SyncTypeOK, AccessNext, boot.pc # "up", boot'.pc = "up"
    PROVE  Listen
<1>1. boot \in Boot /\ boot' # boot
  BY DEF SyncTypeOK
<1>2. Restart \/ SyncStep
  BY <1>1 DEF AccessNext, syncVars
<1>3. CASE Restart
  BY <1>3 DEF Restart
<1>4. CASE UpsertGroups
  BY <1>1, <1>4 DEF UpsertGroups, BootAt, Boot
<1>5. CASE FindStale
  BY <1>1, <1>5 DEF FindStale, Boot
<1>6. CASE DropStaleMembers
  BY <1>1, <1>6 DEF DropStaleMembers, Boot
<1>7. CASE RemoveStaleGroup
  BY <1>1, <1>7 DEF RemoveStaleGroup, Boot
<1>8. CASE ReadMembers
  <2>1. \E add, drop : boot' = [boot EXCEPT !.pc = "members", !.add = add, !.drop = drop]
    BY <1>8 DEF ReadMembers
  <2> QED BY <1>1, <2>1 DEF Boot
<1>9. CASE AddMember
  <2>1. \/ \E add : boot' = [boot EXCEPT !.add = add]
        \/ boot' = [boot EXCEPT !.pc = "down", !.add = {}, !.drop = {}]
    BY <1>9 DEF AddMember
  <2> QED BY <1>1, <2>1 DEF Boot
<1>10. CASE RemoveMember
  <2>1. \E drop : boot' = [boot EXCEPT !.drop = drop]
    BY <1>10 DEF RemoveMember
  <2> QED BY <1>1, <2>1 DEF Boot
<1> QED BY <1>2, <1>3, <1>4, <1>5, <1>6, <1>7, <1>8, <1>9, <1>10 DEF SyncStep

\* A start that succeeds has made the members of the affiliation groups those of
\* the configuration, whatever was there before, and with the cron at work all
\* along: but for who expired meanwhile, and for rows of which a save has moved the
\* date after they were purged.
THEOREM StartReconciles == AccessSpec => SyncReconciles
<1> DEFINE A == boot.pc # "up" /\ boot'.pc = "up" =>
                    \A u \in Users, g \in Affiliations :
                        IF g \in boot.config.of[u] THEN Listed(g, u) \/ member[g][u].expires = "past"
                                                   ELSE ~Counted(g, u) \/ g \in raced
<1>1. AccessInv /\ GroupsInv /\ [AccessNext]_accessVars => [A]_accessVars
  <2>1. SUFFICES ASSUME AccessInv, GroupsInv, AccessNext, boot.pc # "up", boot'.pc = "up"
                 PROVE  \A u \in Users, g \in Affiliations :
                            IF g \in boot.config.of[u]
                            THEN Listed(g, u) \/ member[g][u].expires = "past"
                            ELSE ~Counted(g, u) \/ g \in raced
    OBVIOUS
  <2>2. AccessOK /\ SyncTypeOK /\ MembersInv /\ BootInv
    BY <2>1 DEF AccessInv, GroupsInv
  <2>3. Listen
    BY <2>1, <2>2, OnlyListen
  <2> QED BY <2>2, <2>3, ListenReconciles
<1>2. ([][A]_accessVars) => SyncReconciles
  BY DEF SyncReconciles
<1> HIDE DEF A
<1> QED BY <1>1, <1>2, AccessInvariant, GroupsInvariant, PTL DEF AccessSpec
=============================================================================
