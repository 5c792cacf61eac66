----------------------------- MODULE CatalogSystem -----------------------------
(***************************************************************************)
(* Projects, missions, metadata, files, templates and triggers as a whole: *)
(* requests, the queue of triggers, and the passing of time.               *)
(***************************************************************************)
EXTENDS TriggerQueue

CONSTANT
    Catalogs            \* initial contents: projects with what they require, missions
                        \* with metadata, files, triggers; and agendas to try on them

ASSUME CatalogAssumption ==
    \A c \in Catalogs :
        /\ c.project \in [Projects -> [row : {"none", "live"}, required : SUBSET Types]]
        /\ c.mission \in [Missions -> [row : {"none", "live"}, project : Projects \cup {None},
                                       name : Names \cup {None}]]
        /\ c.metadata \in [Missions -> [Types -> SUBSET Nat]]
        /\ c.file \in [Files -> [row : {"none", "live"}, mission : Missions \cup {None}]]
        /\ c.trigger \in [Triggers -> TriggerRow]
        /\ \A a \in c.agendas : a \subseteq Kinds
        /\ \A m \in Missions : c.mission[m].row = "live" =>
            c.mission[m].project \in {p \in Projects : c.project[p].row = "live"}
        /\ \A f \in Files : c.file[f].row = "live" =>
            c.file[f].mission \in {m \in Missions : c.mission[m].row = "live"}
        /\ \A t \in Triggers : c.trigger[t].row = "live" => c.trigger[t].version = 1

catalogVars == <<catalogStoreVars, catalogRequestVars, triggerQueueVars>>

\* A server that is up, with a catalog that requests have built one by one.
CatalogInit ==
    \E c \in Catalogs :
        /\ project = c.project /\ mission = c.mission /\ metadata = c.metadata
        /\ file = c.file /\ trigger = c.trigger /\ agenda \in c.agendas
        /\ template = [v \in Versions |-> IF v = 1 THEN "active" ELSE "none"]
        /\ runs = {}
        /\ req = [r \in Requests |-> NoRequest]
        /\ served = 0
        /\ events = {}
        /\ clashed = {}
        /\ clock = 0
        /\ job = [j \in JobIds |-> NoJob]

CatalogNext ==
    \/ /\ \E r \in Requests : \/ CatalogReceive(r) \/ CatalogContinue(r)
                              \/ TriggerReceive(r) \/ TriggerContinue(r)
       /\ UNCHANGED triggerQueueVars
    \/ /\ QueueStep
       /\ UNCHANGED <<project, mission, metadata, file, template, trigger, catalogRequestVars>>

CatalogSpec == CatalogInit /\ [][CatalogNext]_catalogVars
-----------------------------------------------------------------------------
CatalogTypeOK == CatalogStoreTypeOK /\ CatalogRequestsTypeOK /\ TriggerQueueTypeOK

Overlapped(kinds, x) == [kinds |-> kinds, on |-> x] \in clashed

\* Nothing is left behind: a live mission is in a live project and a live file
\* in a live mission ("Please delete them first"), unless the parent was deleted
\* while something was put into it.
HierarchyIntact ==
    /\ \A m \in Missions : LiveMission(m) =>
        \/ LiveProject(mission[m].project)
        \/ Overlapped({"dropProject", "newMission"}, mission[m].project)
        \/ Overlapped({"dropProject", "moveMission"}, mission[m].project)
    /\ \A f \in Files : LiveFile(f) =>
        \/ LiveMission(file[f].mission)
        \/ Overlapped({"dropMission", "upload"}, file[f].mission)
        \/ Overlapped({"dropMission", "moveFile"}, file[f].mission)

\* A required value vanishes only if it is deleted by itself ("Cannot remove
\* required metadata"), or if the project came to require it while the metadata
\* was replaced.
RequiredKept ==
    [][\A m \in {x \in Missions : LiveMission(x)} : \A t \in RequiredOf(m) :
        metadata[m][t] # {} /\ metadata'[m][t] = {} =>
            \/ \E r \in Requests : At(r, "unset") /\ req[r].mission = m
            \/ Overlapped({"require", "annotate"}, mission[m].project)
            \/ Overlapped({"moveMission", "annotate"}, m)]_catalogVars

\* A date, an event or a call starts one run of a trigger, or another one when a
\* consumer died and its job was processed again.
FiresOnce ==
    \A x, y \in runs :
        x # y /\ x.trigger = y.trigger /\ x.of = y.of /\ x.at = y.at =>
            x.job = y.job /\ x.rerun # y.rerun

\* When the check of a minute is done, a date after which it was taken has
\* started every trigger that is due, whatever crashes the check went through:
\* where neither triggers nor missions change and the log store is up.
DueDatesFire ==
    agenda \cap {"newTrigger", "editTrigger", "dropTrigger", "dropMission", "dropProject",
                 "newMission", "moveMission", "dropTemplate", "lokiDown"} = {} =>
        \A j \in JobIds : j[1] = "cronCheck" /\ job[j].st = "done" =>
            \A d \in Dates, t \in Triggers :
                /\ d < job[j].at /\ Minute(d) = Minute(job[j].at)
                /\ LiveTrigger(t) /\ trigger[t].type = "TIME" /\ MayDispatch(t, Joined(trigger[t]))
                => \E run \in runs : run.trigger = t /\ run.of = "date" /\ run.at = d
=============================================================================
