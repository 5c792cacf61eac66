------------------------------ MODULE AccessStore ------------------------------
(***************************************************************************)
(* Who may do what to a project: the tables access_group, group_membership *)
(* and project_access (of one project), and the two ways the code reads    *)
(* them. TypeORM's find and query-builder joins leave out soft-deleted     *)
(* rows and know nothing of expiration dates; the view project_access_view *)
(* looks at the expiration date and knows nothing of soft deletion.        *)
(***************************************************************************)
EXTENDS Integers, FiniteSets

CONSTANTS
    Users,
    Admins,             \* users with the role ADMIN
    Groups,             \* uuids of access groups
    GroupType           \* Groups -> type of the group of that uuid

ASSUME AccessStoreAssumption ==
    /\ IsFiniteSet(Users) /\ IsFiniteSet(Groups) /\ Admins \subseteq Users
    /\ GroupType \in [Groups -> {"PRIMARY", "AFFILIATION", "CUSTOM", "PUBLIC"}]

VARIABLES
    group,              \* Groups -> presence of its row
    member,             \* Groups -> Users -> row of group_membership
    access              \* Groups -> rights in project_access, or NoAccess

accessStoreVars == <<group, member, access>>

\* enum AccessGroupRights.
READ == 0
CREATE == 10
WRITE == 20
DELETE == 30

Rights == {READ, CREATE, WRITE, DELETE}
NoAccess == -1

Affiliations == {g \in Groups : GroupType[g] = "AFFILIATION"}

\* "deleted": soft-deleted. "gone": removed, and its uuid is not drawn again.
Presence == {"none", "live", "deleted", "gone"}

\* expires: no expiration date, one in the future, or one in the past.
Membership == [row : Presence, edit : BOOLEAN, expires : {"never", "later", "past"}]

NoMembership == [row |-> "none", edit |-> FALSE, expires |-> "never"]

\* Mutant: 'never' reaches the date column as it is.
NewMembershipUnconverted(edit, expires) ==
    [row |-> "live", edit |-> edit, expires |-> IF expires = "never" THEN "invalid" ELSE expires]

NewMembership(edit, expires) == [row |-> "live", edit |-> edit, expires |-> expires]

AccessStoreTypeOK ==
    /\ group \in [Groups -> Presence]
    /\ member \in [Groups -> [Users -> Membership]]
    /\ access \in [Groups -> Rights \cup {NoAccess}]
-----------------------------------------------------------------------------
LiveGroup(g) == group[g] = "live"

\* What a foreign key asks for.
HasRow(g) == group[g] \in {"live", "deleted"}

\* find: the membership is there and not soft-deleted, whatever its date says.
Listed(g, u) == member[g][u].row = "live"

Editors(g) == {u \in Users : Listed(g, u) /\ member[g][u].edit}

\* The view: the membership is unexpired, whether or not it is soft-deleted.
Counted(g, u) == member[g][u].row # "none" /\ member[g][u].expires # "past"

\* Somebody is still listed in a group their membership of which has expired.
Lapsed(u) == \E g \in Groups : Listed(g, u) /\ member[g][u].expires = "past"

\* ProjectAccessViewEntity; every user belongs to the PUBLIC group, as a reader.
Granted(g, u, rights) ==
    /\ access[g] # NoAccess
    /\ IF GroupType[g] = "PUBLIC" THEN rights = READ
                                  ELSE Counted(g, u) /\ access[g] >= rights

\* canAccessProject and hasProjectRights.
HasProjectRights(u, rights) == u \in Admins \/ \E g \in Groups : Granted(g, u, rights)

RightsOf(u) == {r \in Rights : HasProjectRights(u, r)}

\* canEditAccessGroupByGroupUuid.
CanEditGroup(u, g) == u \in Admins \/ u \in Editors(g)

\* canCreate: members of an affiliation group create projects and groups.
CanCreate(u) == u \in Admins \/ \E g \in Affiliations : LiveGroup(g) /\ Listed(g, u)

PutMembership(g, u, m) == member' = [member EXCEPT ![g][u] = m]

\* DELETE FROM group_membership: soft-deleted rows go as well.
DropMemberships(g, us) ==
    member' = [member EXCEPT ![g] = [u \in Users |-> IF u \in us THEN NoMembership
                                                     ELSE member[g][u]]]

\* A date goes by.
MembershipExpires(g, u) ==
    /\ member[g][u].row = "live" /\ member[g][u].expires = "later"
    /\ PutMembership(g, u, [member[g][u] EXCEPT !.expires = "past"])
    /\ UNCHANGED <<group, access>>

PurgedMembership(m) ==
    IF m.row = "live" /\ m.expires = "past" THEN [m EXCEPT !.row = "deleted"] ELSE m

\* removeExpiredAccessGroups: softDelete({expirationDate: LessThan(now)}).
PurgeExpired ==
    /\ \E g \in Groups, u \in Users : member[g][u] # PurgedMembership(member[g][u])
    /\ member' = [g \in Groups |-> [u \in Users |-> PurgedMembership(member[g][u])]]
    /\ UNCHANGED <<group, access>>
=============================================================================
