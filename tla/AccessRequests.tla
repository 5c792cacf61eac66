---------------------------- MODULE AccessRequests ----------------------------
(***************************************************************************)
(* AccessModificationService behind its guards. A member of Requests is    *)
(* one HTTP request at a time; every await between two statements is a     *)
(* step boundary, and a transaction (READ COMMITTED) shows its writes to   *)
(* the others in its last step.                                            *)
(***************************************************************************)
EXTENDS AccessStore

CONSTANTS
    Requests,           \* requests served at the same time
    MaxRequests,        \* bound: requests served in the course of a behaviour
    Asked,              \* bound: rights that requests ask for
    Agendas             \* bound: sets of kinds of requests, or "restart"; a behaviour
                        \* sees those of one

ASSUME AccessRequestsAssumption ==
    /\ MaxRequests \in Nat
    /\ Asked \subseteq Rights
    /\ \A a \in Agendas : a \subseteq {"create", "dissolve", "join", "leave", "permit", "expire",
                                       "grant", "revoke", "replace", "signIn", "restart"}

VARIABLES
    req,                \* Requests -> progress of the request
    served,             \* requests received so far
    agenda,             \* the agenda of this behaviour
    expected,           \* access config the server runs with: Users -> affiliations
    raced,              \* history: groups of which a request wrote what it had read
                        \* before somebody else wrote
    relinquished        \* history: a request has taken DELETE away from a group,
                        \* which is not the business of updateProjectAccess

accessRequestVars == <<req, served, agenda, expected, raced, relinquished>>

AccessPc == {"idle", "join", "count", "leave", "permit", "promote", "demote", "expire",
             "check", "find", "grant", "mayRevoke", "list", "revoke", "rights", "compare",
             "delete", "replace", "dissolve", "affiliate"}

\* by: who asks; on: the group; users: the users of the group; edit, expires,
\* rights, new: the request's parameters. seen, editors: the membership and the
\* editors it read; row: the project access it read; had: rights the checks have
\* found; old: the project_access rows its DELETE saw. History: lapsed, when it
\* read its user's own rights, one of their memberships had expired; kept, the
\* groups to which its list gives what they had when it was compared.
AccessRequest == [pc : AccessPc, by : SUBSET Users, on : SUBSET Groups, users : SUBSET Users,
                  edit : BOOLEAN, expires : {"never", "later"}, rights : Rights,
                  new : [Groups -> Rights \cup {NoAccess}], seen : Membership,
                  editors : SUBSET Users, row : Rights \cup {NoAccess}, had : SUBSET Rights,
                  old : SUBSET Groups, lapsed : BOOLEAN, kept : SUBSET Groups]

NoRequest == [pc |-> "idle", by |-> {}, on |-> {}, users |-> {}, edit |-> FALSE,
              expires |-> "never", rights |-> READ, new |-> [g \in Groups |-> NoAccess],
              seen |-> NoMembership, editors |-> {}, row |-> NoAccess, had |-> {}, old |-> {},
              lapsed |-> FALSE, kept |-> {}]

AccessRequestsTypeOK ==
    /\ req \in [Requests -> AccessRequest]
    /\ served \in 0..MaxRequests
    /\ agenda \in Agendas
    /\ expected \in [Users -> SUBSET Affiliations]
    /\ raced \subseteq Groups
    /\ relinquished \in BOOLEAN

At(r, pc) == req[r].pc = pc

Begin(r, kind, locals) ==
    /\ kind \in agenda /\ At(r, "idle") /\ served < MaxRequests
    /\ served' = served + 1
    /\ req' = [req EXCEPT ![r] = locals]
    /\ UNCHANGED <<agenda, expected, raced, relinquished>>

Set(r, locals) == req' = [req EXCEPT ![r] = locals]
Goto(r, pc) == Set(r, [req[r] EXCEPT !.pc = pc])
Answer(r) == Set(r, NoRequest)
History == <<served, agenda, expected, raced, relinquished>>
Quietly == UNCHANGED <<served, agenda, expected, relinquished>>
-----------------------------------------------------------------------------
(* Groups and their members. The guard CanEditGroup comes first.           *)

\* createAccessGroup: the creator can always edit the group.
CreateAccessGroup(r) ==
    \E u \in Users, g \in Groups :
        /\ CanCreate(u) /\ GroupType[g] = "CUSTOM" /\ group[g] = "none"
        /\ Begin(r, "create", NoRequest)
        /\ group' = [group EXCEPT ![g] = "live"]
        /\ PutMembership(g, u, NewMembership(TRUE, "never"))
        /\ UNCHANGED access

\* A request of kind that works on a group its user u may edit.
BeginOnGroup(r, kind, u, g, locals) ==
    /\ LiveGroup(g) /\ GroupType[g] # "PUBLIC" /\ CanEditGroup(u, g)
    /\ Begin(r, kind, [locals EXCEPT !.by = {u}, !.on = {g}])
    /\ UNCHANGED accessStoreVars

\* addUserToAccessGroup: the membership is looked up, then inserted.
AddUser(r) ==
    \E by, u \in Users, g \in Groups, edit \in BOOLEAN, expires \in {"never", "later"} :
        /\ ~Listed(g, u)
        /\ BeginOnGroup(r, "join", by, g, [NoRequest EXCEPT !.pc = "join", !.users = {u},
                                                            !.edit = edit, !.expires = expires])

\* The unique constraint counts soft-deleted rows: a purged member cannot be
\* added again. The foreign key refuses a group that was dissolved.
AddUserCommit(r) ==
    /\ At(r, "join")
    /\ \E g \in req[r].on, u \in req[r].users :
        IF LiveGroup(g) /\ member[g][u].row = "none"
        THEN PutMembership(g, u, NewMembership(req[r].edit, req[r].expires))
        ELSE UNCHANGED member
    /\ Answer(r)
    /\ UNCHANGED <<group, access, History>>

\* removeUsersFromAccessGroup: other editors are counted, then rows deleted.
RemoveUsers(r) ==
    \E by \in Users, us \in SUBSET Users \ {{}}, g \in Groups :
        BeginOnGroup(r, "leave", by, g, [NoRequest EXCEPT !.pc = "count", !.users = us])

\* Mutant: the editors are counted together with those to be removed.
CountEditorsAll(r) ==
    /\ At(r, "count")
    /\ \E g \in req[r].on :
        IF Editors(g) = {} THEN Answer(r)
        ELSE Set(r, [req[r] EXCEPT !.pc = "leave", !.editors = Editors(g)])
    /\ UNCHANGED <<accessStoreVars, History>>

CountEditors(r) ==
    /\ At(r, "count")
    /\ \E g \in req[r].on :
        IF Editors(g) \ req[r].users = {} THEN Answer(r)
        ELSE Set(r, [req[r] EXCEPT !.pc = "leave", !.editors = Editors(g)])
    /\ UNCHANGED <<accessStoreVars, History>>

\* Requests that hold a membership that is removed: their save will insert a row
\* without a group and a user, which is nobody's.
Dropping(g, us, reqs) ==
    [r \in Requests |-> IF reqs[r].pc \in {"permit", "promote", "demote", "expire"}
                           /\ g \in reqs[r].on /\ reqs[r].users \subseteq us
                        THEN NoRequest ELSE reqs[r]]

RemoveUsersCommit(r) ==
    /\ At(r, "leave")
    /\ \E g \in req[r].on :
        /\ DropMemberships(g, req[r].users)
        /\ raced' = IF Editors(g) # req[r].editors THEN raced \cup {g} ELSE raced
        /\ req' = Dropping(g, req[r].users, [req EXCEPT ![r] = NoRequest])
    /\ Quietly /\ UNCHANGED <<group, access>>

\* setCanEditGroup: the membership is read, editors are counted before a
\* demotion, and the membership is saved as it was read.
SetCanEdit(r) ==
    \E by, u \in Users, g \in Groups, edit \in BOOLEAN :
        /\ Listed(g, u)
        /\ BeginOnGroup(r, "permit", by, g,
                [NoRequest EXCEPT !.pc = IF edit THEN "promote" ELSE "permit", !.users = {u},
                                  !.edit = edit, !.seen = member[g][u]])

MayDemote(r) ==
    /\ At(r, "permit")
    /\ \E g \in req[r].on :
        IF Cardinality(Editors(g)) <= 1 THEN Answer(r)
        ELSE Set(r, [req[r] EXCEPT !.pc = "demote", !.editors = Editors(g)])
    /\ UNCHANGED <<accessStoreVars, History>>

\* save(membership): its columns as read, with one of them changed. deletedAt is
\* not among them.
SaveMembership(r, edit, expires) ==
    \E g \in req[r].on, u \in req[r].users :
        /\ PutMembership(g, u, [row |-> member[g][u].row, edit |-> edit, expires |-> expires])
        /\ raced' = IF member[g][u] # req[r].seen \/ (~edit /\ Editors(g) # req[r].editors)
                    THEN raced \cup {g} ELSE raced
        /\ Answer(r)
        /\ Quietly /\ UNCHANGED <<group, access>>

SetCanEditSave(r) ==
    \/ At(r, "promote") /\ SaveMembership(r, TRUE, req[r].seen.expires)
    \/ At(r, "demote") /\ SaveMembership(r, FALSE, req[r].seen.expires)

\* Mutant: soft-deleted memberships are found as well.
SetExpireDateOfAny(r) ==
    \E by, u \in Users, g \in Groups, expires \in {"never", "later"} :
        /\ member[g][u].row # "none"
        /\ BeginOnGroup(r, "expire", by, g, [NoRequest EXCEPT !.pc = "expire", !.users = {u},
                        !.expires = expires, !.seen = member[g][u], !.editors = Editors(g)])

SetExpireDate(r) ==
    \E by, u \in Users, g \in Groups, expires \in {"never", "later"} :
        /\ Listed(g, u)
        /\ BeginOnGroup(r, "expire", by, g, [NoRequest EXCEPT !.pc = "expire", !.users = {u},
                        !.expires = expires, !.seen = member[g][u], !.editors = Editors(g)])

SetExpireDateSave(r) ==
    At(r, "expire") /\ SaveMembership(r, req[r].seen.edit, req[r].expires)

\* deleteAccessGroup: find, then remove.
DeleteAccessGroup(r) ==
    \E u \in Users, g \in Groups :
        BeginOnGroup(r, "dissolve", u, g, [NoRequest EXCEPT !.pc = "dissolve"])

\* Memberships go with the group. A project access does not: it keeps the group.
Dissolve(r) ==
    /\ At(r, "dissolve")
    /\ \E g \in req[r].on :
        \/ access[g] # NoAccess /\ Answer(r) /\ UNCHANGED <<group, member>>
        \/ /\ access[g] = NoAccess
           /\ group' = [group EXCEPT ![g] = "gone"]
           /\ DropMemberships(g, Users)
           /\ req' = Dropping(g, Users, [req EXCEPT ![r] = NoRequest])
    /\ UNCHANGED <<access, History>>

\* A returning user signs in: addToAffiliationGroups looks a membership up, then
\* inserts it. The groups are treated at the same time: one request each.
SignIn(r) ==
    \E u \in Users : \E g \in expected[u] :
        /\ LiveGroup(g) /\ ~Listed(g, u)
        /\ Begin(r, "signIn", [NoRequest EXCEPT !.pc = "affiliate", !.on = {g}, !.users = {u}])
        /\ UNCHANGED accessStoreVars

\* The constraint again: a user whose membership was purged cannot sign in.
Affiliate(r) ==
    /\ At(r, "affiliate")
    /\ \E g \in req[r].on, u \in req[r].users :
        IF HasRow(g) /\ member[g][u].row = "none"
        THEN PutMembership(g, u, NewMembership(FALSE, "never"))
        ELSE UNCHANGED member
    /\ Answer(r)
    /\ UNCHANGED <<group, access, History>>
-----------------------------------------------------------------------------
(* The rights of groups in the project.                                    *)

\* assertValidPublicAccessRights.
MayBeGiven(g, rights) == GroupType[g] = "PUBLIC" => rights = READ

\* The guard CanWriteProject (or CanDeleteProject) lets u through.
BeginOnProject(r, kind, u, guard, locals) ==
    /\ HasProjectRights(u, guard)
    /\ Begin(r, kind, [locals EXCEPT !.by = {u}, !.had = RightsOf(u)])
    /\ UNCHANGED accessStoreVars

\* addAccessGroupToProject.
AddGroupToProject(r) ==
    \E u \in Users, g \in Groups, rights \in Asked :
        /\ LiveGroup(g) /\ MayBeGiven(g, rights)
        /\ BeginOnProject(r, "grant", u, WRITE,
                [NoRequest EXCEPT !.pc = IF rights = DELETE THEN "check" ELSE "find",
                                  !.on = {g}, !.rights = rights])

\* "User cannot grant delete rights without having delete rights".
CheckDelete(r) ==
    /\ At(r, "check")
    /\ \E u \in req[r].by :
        IF HasProjectRights(u, DELETE)
        THEN Set(r, [req[r] EXCEPT !.pc = "find", !.had = @ \cup RightsOf(u)])
        ELSE Answer(r)
    /\ UNCHANGED <<accessStoreVars, History>>

\* The existing access, which is only ever raised.
FindAccess(r) ==
    /\ At(r, "find")
    /\ \E g \in req[r].on :
        IF access[g] >= req[r].rights THEN Answer(r)
        ELSE Set(r, [req[r] EXCEPT !.pc = "grant", !.row = access[g]])
    /\ UNCHANGED <<accessStoreVars, History>>

\* A request still holds the row of project_access it read, unless a replacement
\* or a removal of that row has come between: those reset `row` to NoAccess, and
\* turn what was an update into an insert that is refused.
Losing(rows, reqs) ==
    [r \in Requests |-> IF reqs[r].pc \in {"grant", "revoke"} /\ reqs[r].row # NoAccess
                           /\ reqs[r].on \subseteq rows
                        THEN NoRequest
                        ELSE [reqs[r] EXCEPT !.old = @ \ rows]]

\* Saved, or inserted if there was none. Raising what was read may lower what is
\* there now.
GrantAccess(r) ==
    /\ At(r, "grant")
    /\ \E g \in req[r].on :
        /\ IF req[r].row = NoAccess /\ (access[g] # NoAccess \/ ~HasRow(g))
           THEN UNCHANGED access
           ELSE access' = [access EXCEPT ![g] = req[r].rights]
        /\ relinquished' = (relinquished \/ (access[g] # req[r].row /\ access'[g] # access[g]))
    /\ Answer(r)
    /\ UNCHANGED <<group, member, served, agenda, expected, raced>>

\* removeAccessGroupFromProject: DELETE is checked by the guard and again.
RemoveGroup(r) ==
    \E u \in Users, g \in Groups :
        BeginOnProject(r, "revoke", u, DELETE, [NoRequest EXCEPT !.pc = "mayRevoke", !.on = {g}])

MayRevoke(r) ==
    /\ At(r, "mayRevoke")
    /\ \E u \in req[r].by : IF HasProjectRights(u, DELETE) THEN Goto(r, "list") ELSE Answer(r)
    /\ UNCHANGED <<accessStoreVars, History>>

FindRevoked(r) ==
    /\ At(r, "list")
    /\ \E g \in req[r].on :
        IF access[g] = NoAccess THEN Answer(r)
        ELSE Set(r, [req[r] EXCEPT !.pc = "revoke", !.row = access[g]])
    /\ UNCHANGED <<accessStoreVars, History>>

\* Nobody looks whether a group with DELETE remains.
RevokeAccess(r) ==
    /\ At(r, "revoke")
    /\ \E g \in req[r].on :
        /\ access' = [access EXCEPT ![g] = NoAccess]
        /\ relinquished' = (relinquished \/ access[g] = DELETE)
        /\ req' = Losing({g}, [req EXCEPT ![r] = NoRequest])
    /\ UNCHANGED <<group, member, served, agenda, expected, raced>>

\* updateProjectAccess: the whole list is replaced by the request's.
UpdateProjectAccess(r) ==
    \E u \in Users, new \in [Groups -> Asked \cup {NoAccess}] :
        /\ \A g \in Groups : new[g] # NoAccess => LiveGroup(g) /\ MayBeGiven(g, new[g])
        /\ BeginOnProject(r, "replace", u, WRITE, [NoRequest EXCEPT !.pc = "rights", !.new = new])

\* The user's own rights: groups the user is listed in, expired or not.
OwnAccess(u) == {access[g] : g \in {h \in Groups : Listed(h, u) /\ access[h] >= WRITE}}

ReadOwnRights(r) ==
    /\ At(r, "rights")
    /\ \E u \in req[r].by :
        IF OwnAccess(u) = {} THEN Answer(r)
        ELSE Set(r, [req[r] EXCEPT !.pc = "compare", !.had = @ \cup RightsOf(u),
                        !.lapsed = Lapsed(u),
                        !.row = CHOOSE own \in OwnAccess(u) : \A o \in OwnAccess(u) : own >= o])
    /\ UNCHANGED <<accessStoreVars, History>>

\* Mutant: what is granted is not compared with what the user has.
CompareAnything(r) == At(r, "compare") /\ Goto(r, "delete") /\ UNCHANGED <<accessStoreVars, History>>

\* "User cannot grant higher rights than he has himself": of the new entries that
\* are not there already.
CompareRights(r) ==
    /\ At(r, "compare")
    /\ IF \A g \in Groups : req[r].new[g] # access[g] => req[r].row >= req[r].new[g]
       THEN Set(r, [req[r] EXCEPT !.pc = "delete",
                        !.kept = {g \in Groups : req[r].new[g] = access[g]}])
       ELSE Answer(r)
    /\ UNCHANGED <<accessStoreVars, History>>

\* The DELETE statement sees the rows of now. It may have to wait for another
\* transaction, and does not see what that one commits.
DeleteAccess(r) ==
    /\ At(r, "delete")
    /\ Set(r, [req[r] EXCEPT !.pc = "replace", !.old = {g \in Groups : access[g] # NoAccess}])
    /\ UNCHANGED <<accessStoreVars, History>>

Replaced(r) ==
    [g \in Groups |-> IF req[r].new[g] # NoAccess THEN req[r].new[g]
                      ELSE IF g \in req[r].old THEN NoAccess ELSE access[g]]

\* Mutant: no condition has to hold afterwards.
ReplaceUnchecked(r) ==
    /\ At(r, "replace")
    /\ access' = Replaced(r)
    /\ req' = Losing(req[r].old, [req EXCEPT ![r] = NoRequest])
    /\ UNCHANGED <<group, member, History>>

\* Upserts, the postcondition, and the commit: the rows written are new ones.
ReplaceAccess(r) ==
    /\ At(r, "replace")
    /\ IF /\ \E g \in Groups : Replaced(r)[g] = DELETE
          /\ \A g \in Groups : req[r].new[g] # NoAccess => HasRow(g)
       THEN access' = Replaced(r) /\ req' = Losing(req[r].old, [req EXCEPT ![r] = NoRequest])
       ELSE UNCHANGED access /\ Answer(r)
    /\ UNCHANGED <<group, member, History>>
-----------------------------------------------------------------------------
AccessReceive(r) ==
    \/ CreateAccessGroup(r) \/ AddUser(r) \/ RemoveUsers(r) \/ SetCanEdit(r) \/ SetExpireDate(r)
    \/ DeleteAccessGroup(r) \/ SignIn(r) \/ AddGroupToProject(r) \/ RemoveGroup(r)
    \/ UpdateProjectAccess(r)

AccessContinue(r) ==
    \/ AddUserCommit(r) \/ CountEditors(r) \/ RemoveUsersCommit(r) \/ MayDemote(r)
    \/ SetCanEditSave(r) \/ SetExpireDateSave(r) \/ Dissolve(r) \/ Affiliate(r)
    \/ CheckDelete(r) \/ FindAccess(r) \/ GrantAccess(r)
    \/ MayRevoke(r) \/ FindRevoked(r) \/ RevokeAccess(r)
    \/ ReadOwnRights(r) \/ CompareRights(r) \/ DeleteAccess(r) \/ ReplaceAccess(r)
=============================================================================
