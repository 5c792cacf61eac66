----------------------------- MODULE CatalogStore -----------------------------
(***************************************************************************)
(* What users organise: projects, missions with their metadata and files,  *)
(* action templates and triggers, and the runs that triggers started. Rows *)
(* of projects, missions and files are soft-deleted ("deleted"); metadata, *)
(* templates and triggers are removed ("gone"). Foreign keys and unique    *)
(* indices are the database's, and the indices know live rows only.        *)
(***************************************************************************)
EXTENDS Integers, FiniteSets

CONSTANTS
    Projects,
    Missions,
    Names,              \* names of missions
    Types,              \* metadata types
    Files,
    Triggers,
    Direct,             \* triggers whose creator is an administrator, or has rights
                        \* on missions themselves and not by way of their projects
    Versions,           \* bound: version numbers of the template
    None                \* no reference

ASSUME CatalogStoreAssumption ==
    /\ IsFiniteSet(Missions) /\ IsFiniteSet(Types)
    /\ Versions \subseteq Nat /\ 1 \in Versions
    /\ Direct \subseteq Triggers
    /\ None \notin Projects \cup Missions \cup Names \cup Files \cup Triggers

VARIABLES
    project,            \* Projects -> its row, with the metadata types it requires
    mission,            \* Missions -> its row
    metadata,           \* Missions -> Types -> uuids of the rows that hold a value
    file,               \* Files -> its row
    template,           \* Versions -> presence of that version of the one template
    trigger,            \* Triggers -> its row
    runs                \* runs that triggers started

catalogStoreVars == <<project, mission, metadata, file, template, trigger, runs>>

Presence == {"none", "live", "deleted", "gone"}

\* enum TriggerType; of TriggerEvent those that put a file into a mission (DELETE is
\* never produced, and a RENAME is an event of a file that stays where it is).
TriggerType == {"TIME", "WEBHOOK", "FILE"}
TriggerEvent == {"UPLOAD", "MOVE"}

TriggerRow == [row : Presence, type : TriggerType, events : SUBSET TriggerEvent,
               mission : Missions \cup {None}, version : Versions]

\* What started a run: a date of the cron expression, a file event, or a call of
\* the webhook; job and rerun tell which processing of which job it was, and no
\* tells runs apart.
Run == [trigger : Triggers, mission : Missions, version : Versions,
        of : {"date", "event", "call"}, at : Nat, job : Nat, rerun : Nat, no : Nat]

CatalogStoreTypeOK ==
    /\ project \in [Projects -> [row : Presence, required : SUBSET Types]]
    /\ mission \in [Missions -> [row : Presence, project : Projects \cup {None},
                                 name : Names \cup {None}]]
    /\ metadata \in [Missions -> [Types -> SUBSET Nat]]
    /\ file \in [Files -> [row : Presence, mission : Missions \cup {None}]]
    /\ template \in [Versions -> {"none", "active", "archived"}]
    /\ trigger \in [Triggers -> TriggerRow]
    /\ runs \subseteq Run
-----------------------------------------------------------------------------
(* find: soft-deleted rows are left out, and so are they as joined relations. *)

LiveProject(p) == project[p].row = "live"
LiveMission(m) == mission[m].row = "live"
LiveFile(f) == file[f].row = "live"
LiveTrigger(t) == trigger[t].row = "live"

MissionsOf(p) == {m \in Missions : LiveMission(m) /\ mission[m].project = p}
FilesOf(m) == {f \in Files : LiveFile(f) /\ file[f].mission = m}

\* The relation mission.project is null when the project is soft-deleted.
RequiredOf(m) == IF LiveProject(mission[m].project)
                 THEN project[mission[m].project].required ELSE {}

\* unique_mission_name_per_project, WHERE "deletedAt" IS NULL.
NameTaken(p, n) == \E m \in MissionsOf(p) : mission[m].name = n

TemplateVersions == {v \in Versions : template[v] # "none"}
Executed == {run.version : run \in runs}

\* A new or an edited trigger: its template must have a row.
PutTrigger(t, row) ==
    trigger' = IF template[row.version] # "none" THEN [trigger EXCEPT ![t] = row] ELSE trigger

\* The mission of a trigger as a join finds it.
Joined(row) ==
    IF row.mission # None /\ LiveMission(row.mission) THEN row ELSE [row EXCEPT !.mission = None]

\* dispatch(), up to the row: the template is found, and the creator of t reaches
\* the mission. An administrator, and direct rights, reach one that was
\* soft-deleted since it was read; rights by way of the project do not. (No
\* mission at all: the column of the run may not be NULL.)
MayDispatch(t, row) ==
    /\ template[row.version] # "none"
    /\ row.mission # None
    /\ \/ t \in Direct
       \/ LiveMission(row.mission) /\ LiveProject(mission[row.mission].project)

\* The run is inserted, unless its trigger or its template has been removed.
SaveRun(t, row, of, at, job, rerun) ==
    runs' = IF LiveTrigger(t) /\ template[row.version] # "none"
            THEN runs \cup {[trigger |-> t, mission |-> row.mission, version |-> row.version,
                             of |-> of, at |-> at, job |-> job, rerun |-> rerun,
                             no |-> Cardinality(runs) + 1]}
            ELSE runs
=============================================================================
