------------------------------ MODULE AccessSystem ------------------------------
(***************************************************************************)
(* Access control as a whole: requests, the start of the api-server, the   *)
(* cron that purges expired memberships, and the passing of time.          *)
(***************************************************************************)
EXTENDS AffiliationSync

CONSTANT
    InitialAccess       \* Groups -> rights in the project, as it was created

ASSUME InitialAccessAssumption ==
    /\ InitialAccess \in [Groups -> Rights \cup {NoAccess}]
    /\ \E g \in Groups : InitialAccess[g] = DELETE

accessVars == <<accessStoreVars, accessRequestVars, syncVars>>

\* A server that is up: every user is in their primary and affiliation groups,
\* and there is a project. Custom groups are created by requests.
AccessInit ==
    \E c \in Configs :
        /\ group = [g \in Groups |->
                IF GroupType[g] \in {"PRIMARY", "PUBLIC"} \/ g \in c.groups THEN "live" ELSE "none"]
        /\ member = [g \in Groups |-> [u \in Users |->
                IF g \in c.of[u] THEN NewMembership(FALSE, "never") ELSE NoMembership]]
        /\ access = InitialAccess
        /\ \A g \in Groups : InitialAccess[g] # NoAccess => LiveGroup(g)
        /\ req = [r \in Requests |-> NoRequest]
        /\ served = 0
        /\ agenda \in Agendas
        /\ expected = c.of
        /\ raced = {}
        /\ relinquished = FALSE
        /\ boot = [pc |-> "up", config |-> c, stale |-> {}, doomed |-> {}, add |-> {}, drop |-> {}]
        /\ boots = 0

AccessNext ==
    \/ /\ Booting("up")
       /\ \E r \in Requests : AccessReceive(r) \/ AccessContinue(r)
       /\ UNCHANGED syncVars
    \/ Restart \/ SyncStep
    \/ /\ PurgeExpired \/ \E g \in Groups, u \in Users : MembershipExpires(g, u)
       /\ UNCHANGED <<accessRequestVars, syncVars>>

AccessSpec == AccessInit /\ [][AccessNext]_accessVars
-----------------------------------------------------------------------------
AccessTypeOK == AccessStoreTypeOK /\ AccessRequestsTypeOK /\ SyncTypeOK

\* A custom group has somebody who can edit it ("Cannot remove the last user with
\* edit rights"), unless that membership expired and was purged, or a request
\* wrote what others had changed since it looked.
GroupKeepsEditor ==
    \A g \in Groups : LiveGroup(g) /\ GroupType[g] = "CUSTOM" =>
        \/ Editors(g) # {} \/ g \in raced
        \/ \E u \in Users : member[g][u].row = "deleted" /\ member[g][u].edit

\* Some group has DELETE rights on the project ("There must be at least one group
\* with delete rights"), unless removeAccessGroupFromProject took them away,
\* or addAccessGroupToProject raised a row that had been raised further since.
ProjectKeepsOwner == (\E g \in Groups : access[g] = DELETE) \/ relinquished

\* Whoever has rights through a group is listed among its members: a membership
\* the cron has purged gives nothing, unless a save that raced with the cron has
\* moved its date.
PurgedGrantsNothing ==
    \A g \in Groups, u \in Users :
        Counted(g, u) => Listed(g, u) \/ g \in raced

\* A purged membership is all that can keep the api-server from starting.
BootBlockedByPurge ==
    Booting("down") =>
        \E u \in Users : \E g \in boot.config.of[u] : member[g][u].row = "deleted"

\* r writes what g may do, as its last step.
Gives(r, g) ==
    /\ At(r, "replace") \/ (At(r, "grant") /\ g \in req[r].on)
    /\ At(r, "idle")'

\* A request only gives rights its user had when they were checked. What it may
\* give back are the rights a group had when its list was compared, if others have
\* taken them away since; and a membership that had expired, but was listed, counts.
GrantsWithinRights ==
    [][\A g \in Groups : access'[g] > access[g] =>
        \E r \in Requests :
            /\ Gives(r, g)
            /\ access'[g] \in req[r].had \/ g \in req[r].kept \/ req[r].lapsed]_accessVars

\* "User cannot grant higher rights than he has himself", where "the user will be
\* treated as if they were not part of the group after the expiration date": a
\* membership that has expired is of no use to give rights.
LapsedGivesNothing ==
    [][\A g \in Groups : access'[g] > access[g] =>
        \E r \in Requests :
            Gives(r, g) /\ (access'[g] \in req[r].had \/ g \in req[r].kept)]_accessVars

\* A start that succeeds leaves every user in the configured groups, and in no
\* other affiliation group, but for memberships that expired meanwhile, or that
\* count although they are purged, because a save raced with the cron.
SyncReconciles ==
    [][boot.pc # "up" /\ boot'.pc = "up" =>
        \A u \in Users, g \in Affiliations :
            IF g \in boot.config.of[u] THEN Listed(g, u) \/ member[g][u].expires = "past"
                                       ELSE ~Counted(g, u) \/ g \in raced]_accessVars
=============================================================================
