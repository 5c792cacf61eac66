---------------------------- MODULE CatalogRequests ----------------------------
(***************************************************************************)
(* Requests on projects, missions and metadata, and those on files as far  *)
(* as missions notice them. A member of Requests is one HTTP request at a  *)
(* time: the guard and the first read are its first step, and every await  *)
(* between two statements is a step boundary. A transaction shows what it  *)
(* writes in its last step.                                                *)
(***************************************************************************)
EXTENDS CatalogStore

CONSTANTS
    Requests,           \* requests served at the same time
    MaxRequests         \* bound: requests served in the course of a behaviour

ASSUME CatalogRequestsAssumption == MaxRequests \in Nat

VARIABLES
    req,                \* Requests -> progress of the request
    served,             \* requests received so far
    agenda,             \* bound: kinds of requests this behaviour sees, and whether
                        \* there are "tick", "crash" and "lokiDown"
    events,             \* file events that wait in the trigger queue to be processed
    clashed             \* history: pairs of kinds of requests that were in progress
                        \* at the same time on the same project, mission or trigger

catalogRequestVars == <<req, served, agenda, events, clashed>>

CatalogPc == {"idle", "sameName", "createMission", "upsert", "remove", "unset", "require",
              "countMissions", "dropProject", "moveName", "moveMission", "dropMission",
              "reserve", "confirm", "refile", "moved", "saveTrigger", "dispatch", "fire",
              "saveVersion", "count", "archive", "erase"}

\* Requests, and what else an agenda may name.
Kinds == {"none", "newProject", "require", "dropProject", "newMission", "moveMission",
          "dropMission", "annotate", "unset", "upload", "confirm", "moveFile", "dropFile",
          "newTemplate", "newVersion", "dropTemplate", "newTrigger", "editTrigger",
          "dropTrigger", "webhook", "tick", "crash", "lokiDown"}

\* Values of metadata in a payload: no key, an empty string, something.
Payload == [Types -> {"absent", "empty", "value"}]

\* What is left to do for a type: look whether it is there and add it, save it,
\* look it up and update it, save it.
Todo == {"none", "add", "adding", "update", "updating"}

CatalogRequest ==
    [pc : CatalogPc, kind : Kinds, no : Nat, on : SUBSET (Projects \cup Missions \cup Triggers),
     project : Projects \cup {None}, mission : Missions \cup {None}, name : Names \cup {None},
     given : Payload, ignore : BOOLEAN, required : SUBSET Types,
     seen : [Types -> SUBSET Nat], todo : [Types -> Todo], file : Files \cup {None},
     trigger : Triggers \cup {None}, row : TriggerRow, version : Versions]

NoTrigger == [row |-> "none", type |-> "WEBHOOK", events |-> {}, mission |-> None, version |-> 1]

NoRequest ==
    [pc |-> "idle", kind |-> "none", no |-> 0, on |-> {}, project |-> None, mission |-> None,
     name |-> None, given |-> [t \in Types |-> "absent"], ignore |-> FALSE, required |-> {},
     seen |-> [t \in Types |-> {}], todo |-> [t \in Types |-> "none"], file |-> None,
     trigger |-> None, row |-> NoTrigger, version |-> 1]

FileEvent == [no : Nat, file : Files, event : TriggerEvent]

CatalogRequestsTypeOK ==
    /\ req \in [Requests -> CatalogRequest]
    /\ served \in 0..MaxRequests
    /\ agenda \subseteq Kinds
    /\ events \subseteq FileEvent
    /\ \A c \in clashed : c.kinds \subseteq Kinds
                          /\ c.on \in Projects \cup Missions \cup Triggers

At(r, pc) == req[r].pc = pc

\* A request of this kind on these projects, missions or triggers is received.
Begin(r, kind, on, locals) ==
    /\ kind \in agenda /\ At(r, "idle") /\ served < MaxRequests
    /\ served' = served + 1
    /\ req' = [req EXCEPT ![r] = IF locals.pc = "idle" THEN NoRequest
                                 ELSE [locals EXCEPT !.kind = kind, !.no = served + 1, !.on = on]]
    /\ clashed' = clashed \cup UNION {{[kinds |-> {kind, req[s].kind}, on |-> x] :
                                        x \in on \cap req[s].on} : s \in Requests}
    /\ UNCHANGED <<agenda, events>>

Set(r, locals) == req' = [req EXCEPT ![r] = locals]
Goto(r, pc) == Set(r, [req[r] EXCEPT !.pc = pc])
Answer(r) == Set(r, NoRequest)
History == <<served, agenda, events, clashed>>
-----------------------------------------------------------------------------
(* Projects.                                                               *)

\* create: name and access groups left aside, one transaction.
CreateProject(r) ==
    \E p \in Projects, required \in SUBSET Types :
        /\ project[p].row = "none"
        /\ Begin(r, "newProject", {p}, NoRequest)
        /\ project' = [project EXCEPT ![p] = [row |-> "live", required |-> required]]
        /\ UNCHANGED <<mission, metadata, file, template, trigger, runs>>

\* updateMetadataTypes: the project is read, its types looked up ...
UpdateMetadataTypes(r) ==
    \E p \in Projects, required \in SUBSET Types :
        /\ LiveProject(p)
        /\ Begin(r, "require", {p}, [NoRequest EXCEPT !.pc = "require", !.project = p,
                                                      !.required = required])
        /\ UNCHANGED catalogStoreVars

\* ... and the list replaced, in a project that may be soft-deleted by now.
SaveMetadataTypes(r) ==
    /\ At(r, "require")
    /\ project' = [project EXCEPT ![req[r].project].required = req[r].required]
    /\ Answer(r)
    /\ UNCHANGED <<mission, metadata, file, template, trigger, runs, History>>

DeleteProject(r) ==
    \E p \in Projects :
        /\ LiveProject(p)
        /\ Begin(r, "dropProject", {p}, [NoRequest EXCEPT !.pc = "countMissions", !.project = p])
        /\ UNCHANGED catalogStoreVars

\* Mutant: the missions are not counted.
CountNothing(r) ==
    At(r, "countMissions") /\ Goto(r, "dropProject") /\ UNCHANGED <<catalogStoreVars, History>>

\* "Project has n missions. Please delete them first."
CountMissions(r) ==
    /\ At(r, "countMissions")
    /\ IF MissionsOf(req[r].project) # {} THEN Answer(r) ELSE Goto(r, "dropProject")
    /\ UNCHANGED <<catalogStoreVars, History>>

DropProject(r) ==
    /\ At(r, "dropProject")
    /\ project' = [project EXCEPT ![req[r].project].row = "deleted"]
    /\ Answer(r)
    /\ UNCHANGED <<mission, metadata, file, template, trigger, runs, History>>
-----------------------------------------------------------------------------
(* Missions.                                                               *)

\* The values the filter of create finds missing: it asks for a value that is
\* undefined, empty and null at the same time.
Missing(required, given) == {t \in required : given[t] = "absent" /\ given[t] = "empty"}

CreateMission(r) ==
    \E p \in Projects, m \in Missions, n \in Names, given \in Payload, ignore \in BOOLEAN :
        /\ LiveProject(p) /\ mission[m].row = "none"
        /\ \A s \in Requests : req[s].kind = "newMission" => req[s].mission # m
        /\ ignore \/ Missing(project[p].required, given) = {}
        /\ Begin(r, "newMission", {p, m},
                 [NoRequest EXCEPT !.pc = "sameName", !.project = p, !.mission = m, !.name = n,
                                   !.given = given, !.ignore = ignore,
                                   !.required = project[p].required])
        /\ UNCHANGED catalogStoreVars

MissionExists(r) ==
    /\ At(r, "sameName")
    /\ IF NameTaken(req[r].project, req[r].name) THEN Answer(r) ELSE Goto(r, "createMission")
    /\ UNCHANGED <<catalogStoreVars, History>>

\* Mutant: the entity is saved without its project.
InsertStrayMission(r) ==
    /\ At(r, "createMission")
    /\ mission' = [mission EXCEPT ![req[r].mission].row = "live", ![req[r].mission].project = r]
    /\ Set(r, [req[r] EXCEPT !.pc = "upsert"])
    /\ UNCHANGED <<project, metadata, file, template, trigger, runs, History>>

\* The mission is inserted, in a project that may be soft-deleted by now; its
\* metadata follows without a transaction.
InsertMission(r) ==
    /\ At(r, "createMission")
    /\ IF NameTaken(req[r].project, req[r].name)
       THEN Answer(r) /\ UNCHANGED mission
       ELSE /\ mission' = [mission EXCEPT ![req[r].mission] =
                   [row |-> "live", project |-> req[r].project, name |-> req[r].name]]
            /\ Set(r, [req[r] EXCEPT !.pc = "upsert",
                    !.todo = [t \in Types |-> IF req[r].given[t] = "absent" THEN "none" ELSE "add"]])
    /\ UNCHANGED <<project, metadata, file, template, trigger, runs, History>>

\* moveMission: target project and mission are found, then the name looked up ...
MoveMission(r) ==
    \E m \in Missions, p \in Projects :
        /\ LiveMission(m) /\ LiveProject(p)
        /\ Begin(r, "moveMission", {m, p}, [NoRequest EXCEPT !.pc = "moveName", !.project = p,
                                            !.mission = m, !.name = mission[m].name])
        /\ UNCHANGED catalogStoreVars

MoveExists(r) ==
    /\ At(r, "moveName")
    /\ IF NameTaken(req[r].project, req[r].name) THEN Answer(r) ELSE Goto(r, "moveMission")
    /\ UNCHANGED <<catalogStoreVars, History>>

\* ... and the column set, if the unique index allows.
SetProject(r) ==
    /\ At(r, "moveMission")
    /\ LET m == req[r].mission IN
       mission' = IF LiveMission(m) /\ NameTaken(req[r].project, mission[m].name) THEN mission
                  ELSE [mission EXCEPT ![m].project = req[r].project]
    /\ Answer(r)
    /\ UNCHANGED <<project, metadata, file, template, trigger, runs, History>>

\* deleteMission: "Mission cannot be deleted because it contains files".
DeleteMission(r) ==
    \E m \in Missions :
        /\ LiveMission(m)
        /\ Begin(r, "dropMission", {m}, IF FilesOf(m) # {} THEN NoRequest
                 ELSE [NoRequest EXCEPT !.pc = "dropMission", !.mission = m])
        /\ UNCHANGED catalogStoreVars

SoftRemoveMission(r) ==
    /\ At(r, "dropMission")
    /\ mission' = [mission EXCEPT ![req[r].mission].row = "deleted"]
    /\ Answer(r)
    /\ UNCHANGED <<project, metadata, file, template, trigger, runs, History>>
-----------------------------------------------------------------------------
(* Metadata. The upserts of a request run concurrently (Promise.all), and  *)
(* one that fails leaves the others going.                                 *)

\* Mutant: metadata the project requires is removed like any other.
ReplaceAnything(r) ==
    \E m \in Missions, given \in Payload :
        /\ LiveMission(m)
        /\ Begin(r, "annotate", {m, mission[m].project},
                 [NoRequest EXCEPT !.pc = "remove", !.mission = m, !.given = given,
                                   !.seen = metadata[m], !.required = RequiredOf(m)])
        /\ UNCHANGED catalogStoreVars

\* replaceMissionMetadata reads the mission, its metadata and what its project
\* requires: "Cannot remove required metadata".
ReplaceMissionMetadata(r) ==
    \E m \in Missions, given \in Payload :
        /\ LiveMission(m)
        /\ \A t \in RequiredOf(m) : metadata[m][t] # {} => given[t] = "value"
        /\ Begin(r, "annotate", {m, mission[m].project},
                 [NoRequest EXCEPT !.pc = "remove", !.mission = m, !.given = given,
                                   !.seen = metadata[m], !.required = RequiredOf(m)])
        /\ UNCHANGED catalogStoreVars

\* The rows it has read and shall not keep are removed.
RemoveMetadata(r) ==
    /\ At(r, "remove")
    /\ metadata' = [metadata EXCEPT ![req[r].mission] = [t \in Types |->
                       IF req[r].given[t] = "value" THEN @[t] ELSE @[t] \ req[r].seen[t]]]
    /\ Set(r, [req[r] EXCEPT !.pc = "upsert", !.todo = [t \in Types |->
                  IF req[r].given[t] # "value" THEN "none"
                  ELSE IF req[r].seen[t] # {} THEN "update" ELSE "add"]])
    /\ UNCHANGED <<project, mission, file, template, trigger, runs, History>>

ToDo(r, t, what) == Set(r, [req[r] EXCEPT !.todo[t] = what])

\* addMetadata: "Metadata already exists", or the mission is gone.
FindForAdd(r, t) ==
    /\ At(r, "upsert") /\ req[r].todo[t] = "add"
    /\ ToDo(r, t, IF LiveMission(req[r].mission) /\ metadata[req[r].mission][t] = {}
                  THEN "adding" ELSE "none")
    /\ UNCHANGED <<catalogStoreVars, History>>

AddMetadata(r, t) ==
    /\ At(r, "upsert") /\ req[r].todo[t] = "adding"
    /\ metadata' = [metadata EXCEPT ![req[r].mission][t] = @ \cup {req[r].no}]
    /\ ToDo(r, t, "none")
    /\ UNCHANGED <<project, mission, file, template, trigger, runs, History>>

\* updateMetadata: some row of this type, or "Metadata hasn't been set yet".
FindForUpdate(r, t) ==
    /\ At(r, "upsert") /\ req[r].todo[t] = "update"
    /\ LET rows == metadata[req[r].mission][t] IN
       IF rows = {} \/ ~LiveMission(req[r].mission) THEN ToDo(r, t, "none")
       ELSE \E row \in rows : Set(r, [req[r] EXCEPT !.todo[t] = "updating", !.seen[t] = {row}])
    /\ UNCHANGED <<catalogStoreVars, History>>

\* The entity is saved: a row that was removed since is inserted again.
UpdateMetadata(r, t) ==
    /\ At(r, "upsert") /\ req[r].todo[t] = "updating"
    /\ metadata' = [metadata EXCEPT ![req[r].mission][t] = @ \cup req[r].seen[t]]
    /\ ToDo(r, t, "none")
    /\ UNCHANGED <<project, mission, file, template, trigger, runs, History>>

Upserted(r) ==
    /\ At(r, "upsert") /\ \A t \in Types : req[r].todo[t] = "none"
    /\ Answer(r)
    /\ UNCHANGED <<catalogStoreVars, History>>

\* deleteMetadata: the guard finds the mission of the row ...
UnsetMetadata(r) ==
    \E m \in Missions, t \in Types : \E row \in metadata[m][t] :
        /\ LiveMission(m)
        /\ Begin(r, "unset", {m}, [NoRequest EXCEPT !.pc = "unset", !.mission = m,
                                   !.seen = [NoRequest.seen EXCEPT ![t] = {row}]])
        /\ UNCHANGED catalogStoreVars

\* ... and the row is deleted, whatever the project requires.
DeleteMetadata(r) ==
    /\ At(r, "unset")
    /\ metadata' = [metadata EXCEPT ![req[r].mission] = [t \in Types |-> @[t] \ req[r].seen[t]]]
    /\ Answer(r)
    /\ UNCHANGED <<project, mission, file, template, trigger, runs, History>>
-----------------------------------------------------------------------------
(* Files, as far as missions notice.                                       *)

\* getTemporaryAccess finds the mission, then inserts the rows.
Upload(r) ==
    \E f \in Files, m \in Missions :
        /\ LiveMission(m) /\ file[f].row = "none"
        /\ \A s \in Requests : req[s].kind = "upload" => req[s].file # f
        /\ Begin(r, "upload", {m}, [NoRequest EXCEPT !.pc = "reserve", !.mission = m, !.file = f])
        /\ UNCHANGED catalogStoreVars

ReserveFile(r) ==
    /\ At(r, "reserve")
    /\ file' = [file EXCEPT ![req[r].file] = [row |-> "live", mission |-> req[r].mission]]
    /\ Goto(r, "confirm")
    /\ UNCHANGED <<project, mission, metadata, template, trigger, runs, History>>

\* addFileEvent.
AddFileEvent(r, event) ==
    events' = events \cup {[no |-> req[r].no, file |-> req[r].file, event |-> event]}

\* confirmUpload, which fails if the file is gone.
ConfirmUpload(r) ==
    /\ At(r, "confirm")
    /\ IF LiveFile(req[r].file) THEN AddFileEvent(r, "UPLOAD") ELSE UNCHANGED events
    /\ Answer(r)
    /\ UNCHANGED <<catalogStoreVars, served, agenda, clashed>>

\* A client that confirms once more before the file is processed is heard again.
ConfirmAgain(r) ==
    \E f \in Files :
        /\ LiveFile(f)
        /\ Begin(r, "confirm", {}, [NoRequest EXCEPT !.pc = "confirm", !.file = f])
        /\ UNCHANGED catalogStoreVars

\* moveFiles, and update with another mission: the guard finds the target, the service reads the file ...
MoveFile(r) ==
    \E f \in Files, m \in Missions :
        /\ LiveMission(m) /\ LiveFile(f)
        /\ Begin(r, "moveFile", {m}, [NoRequest EXCEPT !.pc = "refile", !.mission = m, !.file = f])
        /\ UNCHANGED catalogStoreVars

\* ... and saves it with the target in place of its mission.
SaveMovedFile(r) ==
    /\ At(r, "refile")
    /\ file' = [file EXCEPT ![req[r].file].mission = req[r].mission]
    /\ Goto(r, "moved")
    /\ UNCHANGED <<project, mission, metadata, template, trigger, runs, History>>

FileMoved(r) ==
    /\ At(r, "moved")
    /\ AddFileEvent(r, "MOVE")
    /\ Answer(r)
    /\ UNCHANGED <<catalogStoreVars, served, agenda, clashed>>

\* deleteFile: no trigger hears of it.
DeleteFile(r) ==
    \E f \in Files :
        /\ LiveFile(f)
        /\ Begin(r, "dropFile", {}, NoRequest)
        /\ file' = [file EXCEPT ![f].row = "deleted"]
        /\ UNCHANGED <<project, mission, metadata, template, trigger, runs>>
-----------------------------------------------------------------------------
CatalogReceive(r) ==
    \/ CreateProject(r) \/ UpdateMetadataTypes(r) \/ DeleteProject(r)
    \/ CreateMission(r) \/ MoveMission(r) \/ DeleteMission(r)
    \/ ReplaceMissionMetadata(r) \/ UnsetMetadata(r)
    \/ Upload(r) \/ ConfirmAgain(r) \/ MoveFile(r) \/ DeleteFile(r)

CatalogContinue(r) ==
    \/ SaveMetadataTypes(r) \/ CountMissions(r) \/ DropProject(r)
    \/ MissionExists(r) \/ InsertMission(r) \/ MoveExists(r) \/ SetProject(r)
    \/ SoftRemoveMission(r)
    \/ RemoveMetadata(r) \/ Upserted(r) \/ DeleteMetadata(r)
    \/ \E t \in Types : FindForAdd(r, t) \/ AddMetadata(r, t)
                        \/ FindForUpdate(r, t) \/ UpdateMetadata(r, t)
    \/ ReserveFile(r) \/ ConfirmUpload(r) \/ SaveMovedFile(r) \/ FileMoved(r)
=============================================================================
