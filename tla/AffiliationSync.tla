---------------------------- MODULE AffiliationSync ----------------------------
(***************************************************************************)
(* The start of the api-server: AffiliationGroupService.syncAccessGroups   *)
(* brings the affiliation groups in line with the access configuration of  *)
(* the deployment. Requests are served when it has ended, and not at all   *)
(* when it throws; the queue consumer's cron goes on meanwhile.            *)
(***************************************************************************)
EXTENDS AccessRequests

CONSTANTS
    Configs,            \* access configurations: [groups, of: Users -> affiliations]
    MaxBoots            \* bound: restarts of the api-server

ASSUME AffiliationSyncAssumption ==
    /\ MaxBoots \in Nat
    /\ \A c \in Configs : /\ c.groups \subseteq Affiliations
                          /\ c.of \in [Users -> SUBSET c.groups]

VARIABLES
    boot,               \* progress of the start, "up" or "down"
    boots               \* restarts so far

syncVars == <<boot, boots>>

BootPc == {"up", "down", "upsert", "findStale", "stale", "remove", "users", "members"}

\* stale: groups that are not configured; doomed: the one whose memberships are
\* gone; add, drop: memberships <<g, u>> to insert and to remove.
Boot == [pc : BootPc, config : Configs, stale : SUBSET Groups, doomed : SUBSET Groups,
         add : SUBSET (Groups \X Users), drop : SUBSET (Groups \X Users)]

SyncTypeOK == boot \in Boot /\ boots \in 0..MaxBoots

Booting(pc) == boot.pc = pc
BootAt(pc) == boot' = [boot EXCEPT !.pc = pc] /\ UNCHANGED boots

\* The api-server stops, with every request, and starts with some configuration.
Restart ==
    /\ boot.pc \in {"up", "down"} /\ boots < MaxBoots /\ "restart" \in agenda
    /\ boots' = boots + 1
    /\ \E c \in Configs :
        boot' = [pc |-> "upsert", config |-> c, stale |-> {}, doomed |-> {},
                 add |-> {}, drop |-> {}]
    /\ req' = [r \in Requests |-> NoRequest]
    /\ UNCHANGED <<accessStoreVars, History>>

\* Configured groups are created, or restored.
UpsertGroups ==
    /\ Booting("upsert")
    /\ group' = [g \in Groups |-> IF g \in boot.config.groups THEN "live" ELSE group[g]]
    /\ BootAt("findStale")
    /\ UNCHANGED <<member, access, accessRequestVars>>

FindStale ==
    /\ Booting("findStale")
    /\ boot' = [boot EXCEPT !.pc = "stale",
                    !.stale = {g \in Affiliations : LiveGroup(g)} \ boot.config.groups]
    /\ UNCHANGED <<boots, accessStoreVars, accessRequestVars>>

\* Mutant: a stale group keeps its members.
KeepStaleMembers ==
    /\ Booting("stale")
    /\ \E g \in boot.stale :
        boot' = [boot EXCEPT !.pc = "remove", !.stale = @ \ {g}, !.doomed = {g}]
    /\ UNCHANGED <<boots, accessStoreVars, accessRequestVars>>

\* First the memberships of a stale group, then the group.
DropStaleMembers ==
    /\ Booting("stale")
    /\ \E g \in boot.stale :
        /\ DropMemberships(g, Users)
        /\ boot' = [boot EXCEPT !.pc = "remove", !.stale = @ \ {g}, !.doomed = {g}]
    /\ UNCHANGED <<boots, group, access, accessRequestVars>>

RemoveStaleGroup ==
    /\ Booting("remove")
    /\ group' = [g \in Groups |-> IF g \in boot.doomed THEN "deleted" ELSE group[g]]
    /\ boot' = [boot EXCEPT !.pc = "stale", !.doomed = {}]
    /\ UNCHANGED <<boots, member, access, accessRequestVars>>

\* Mutant: the memberships the users have already are not looked at.
ReadMembersBlindly ==
    /\ Booting("stale") /\ boot.stale = {}
    /\ boot' = [boot EXCEPT !.pc = "members",
                !.add = {m \in Groups \X Users : m[1] \in boot.config.of[m[2]]}]
    /\ UNCHANGED <<boots, accessStoreVars, accessRequestVars>>

\* All users with their memberships; the join leaves soft-deleted ones out.
ReadMembers ==
    /\ Booting("stale") /\ boot.stale = {}
    /\ LET wanted == {m \in Groups \X Users : m[1] \in boot.config.of[m[2]]}
           current == {m \in boot.config.groups \X Users : Listed(m[1], m[2])} IN
        boot' = [boot EXCEPT !.pc = "members", !.add = wanted \ current, !.drop = current \ wanted]
    /\ UNCHANGED <<boots, accessStoreVars, accessRequestVars>>

\* The unique constraint refuses a member whose row was purged, and the start
\* fails. A membership that was purged after it was read is not missed.
AddMember ==
    /\ Booting("members")
    /\ \E m \in boot.add :
        IF member[m[1]][m[2]].row = "none"
        THEN /\ PutMembership(m[1], m[2], NewMembership(FALSE, "never"))
             /\ boot' = [boot EXCEPT !.add = @ \ {m}]
        ELSE UNCHANGED member /\ boot' = [boot EXCEPT !.pc = "down", !.add = {}, !.drop = {}]
    /\ UNCHANGED <<boots, group, access, accessRequestVars>>

RemoveMember ==
    /\ Booting("members")
    /\ \E m \in boot.drop :
        /\ DropMemberships(m[1], {m[2]})
        /\ boot' = [boot EXCEPT !.drop = @ \ {m}]
    /\ UNCHANGED <<boots, group, access, accessRequestVars>>

\* The server listens, and signs users in by the new configuration.
Listen ==
    /\ Booting("members") /\ boot.add = {} /\ boot.drop = {}
    /\ BootAt("up")
    /\ expected' = boot.config.of
    /\ UNCHANGED <<accessStoreVars, req, served, agenda, raced, relinquished>>

SyncStep ==
    \/ UpsertGroups \/ FindStale \/ DropStaleMembers \/ RemoveStaleGroup
    \/ ReadMembers \/ AddMember \/ RemoveMember \/ Listen
=============================================================================
