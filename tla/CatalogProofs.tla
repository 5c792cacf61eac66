----------------------------- MODULE CatalogProofs -----------------------------
(***************************************************************************)
(* Theorems about CatalogSystem, for every number of projects, missions,   *)
(* files, triggers, requests and servers: type correctness, that nothing   *)
(* is left behind in a deleted parent, and that a mission keeps the        *)
(* metadata its project requires.                                          *)
(***************************************************************************)
EXTENDS CatalogSystem, FiniteSetTheorems, TLAPS

-----------------------------------------------------------------------------
(* The rows.                                                               *)

LEMMA NoTriggerType == NoTrigger \in TriggerRow
  BY CatalogStoreAssumption DEF NoTrigger, TriggerRow, Presence, TriggerType

LEMMA JoinedType ==
    ASSUME NEW row \in TriggerRow
    PROVE  Joined(row) \in TriggerRow
  BY DEF Joined, TriggerRow

LEMMA NoRequestType == NoRequest \in CatalogRequest /\ NoRequest.pc = "idle" /\ NoRequest.on = {}
<1>1. [t \in Types |-> "absent"] \in Payload
  BY DEF Payload
<1>2. [t \in Types |-> {}] \in [Types -> SUBSET Nat]
  OBVIOUS
<1>3. [t \in Types |-> "none"] \in [Types -> Todo]
  BY DEF Todo
<1>4. "idle" \in CatalogPc /\ 1 \in Versions
  BY CatalogStoreAssumption DEF CatalogPc
<1> DEFINE a == [t \in Types |-> "absent"]
           s == [t \in Types |-> {}]
           d == [t \in Types |-> "none"]
<1>5. NoRequest =
        [pc |-> "idle", kind |-> "none", no |-> 0, on |-> {}, project |-> None, mission |-> None,
         name |-> None, given |-> a, ignore |-> FALSE, required |-> {}, seen |-> s, todo |-> d,
         file |-> None, trigger |-> None, row |-> NoTrigger, version |-> 1]
  BY DEF NoRequest
<1>6. a \in Payload /\ s \in [Types -> SUBSET Nat] /\ d \in [Types -> Todo]
  BY <1>1, <1>2, <1>3
<1>7. NoRequest.pc = "idle" /\ NoRequest.on = {}
  BY <1>5
<1> HIDE DEF a, s, d
<1>8. NoRequest \in CatalogRequest
  BY <1>4, <1>5, <1>6, NoTriggerType DEF CatalogRequest, Kinds
<1> QED BY <1>7, <1>8

\* A run is inserted with the mission its trigger had.
LEMMA SaveRunType ==
    ASSUME runs \subseteq Run, IsFiniteSet(runs), NEW t \in Triggers, NEW row \in TriggerRow,
           row.mission \in Missions, NEW of \in {"date", "event", "call"}, NEW at \in Nat,
           NEW j \in Nat, NEW rerun \in Nat, SaveRun(t, row, of, at, j, rerun)
    PROVE  runs' \subseteq Run /\ IsFiniteSet(runs')
<1> DEFINE run == [trigger |-> t, mission |-> row.mission, version |-> row.version, of |-> of,
                   at |-> at, job |-> j, rerun |-> rerun, no |-> Cardinality(runs) + 1]
<1>1. Cardinality(runs) \in Nat
  BY FS_CardinalityType
<1>2. row.version \in Versions
  BY DEF TriggerRow
<1>3. run \in Run
  BY <1>1, <1>2 DEF Run
<1>4. runs' = runs \/ runs' = runs \cup {run}
  BY DEF SaveRun
<1>5. IsFiniteSet(runs \cup {run})
  BY FS_AddElement
<1> HIDE DEF run
<1> QED BY <1>3, <1>4, <1>5

-----------------------------------------------------------------------------
(* The local variables of the requests.                                    *)

\* Where a request stands tells its kind and what it is about.
Told(e) ==
    /\ e.pc = "require" => e.kind = "require" /\ e.project \in Projects \cap e.on
    /\ e.pc \in {"countMissions", "dropProject"} =>
        e.kind = "dropProject" /\ e.project \in Projects \cap e.on
    /\ e.pc \in {"sameName", "createMission"} =>
        e.kind = "newMission" /\ e.project \in Projects \cap e.on /\ e.mission \in Missions
    /\ e.pc \in {"moveName", "moveMission"} =>
        /\ e.kind = "moveMission"
        /\ e.project \in Projects \cap e.on /\ e.mission \in Missions \cap e.on
    /\ e.pc = "dropMission" => e.kind = "dropMission" /\ e.mission \in Missions \cap e.on
    /\ e.pc \in {"upsert", "remove", "unset"} => e.mission \in Missions
    /\ e.pc = "remove" => e.kind = "annotate" /\ e.mission \in e.on
    /\ e.pc = "reserve" => e.kind = "upload" /\ e.mission \in Missions \cap e.on /\ e.file \in Files
    /\ e.pc = "refile" => e.kind = "moveFile" /\ e.mission \in Missions \cap e.on /\ e.file \in Files
    /\ e.pc \in {"confirm", "moved"} => e.file \in Files
    /\ e.pc \in {"saveTrigger", "dispatch", "fire"} => e.trigger \in Triggers
    /\ e.pc = "saveTrigger" => e.kind \in {"newTrigger", "editTrigger"}
    /\ e.pc = "fire" => e.row.mission \in Missions
    /\ e.pc \in {"count", "archive", "erase"} => e.kind = "dropTemplate"

RequestsOK == CatalogRequestsTypeOK /\ \A r \in Requests : Told(req[r])

On == Projects \cup Missions \cup Triggers

LEMMA RequestType ==
    ASSUME RequestsOK, NEW r \in Requests
    PROVE  req[r] \in CatalogRequest /\ Told(req[r])
  BY DEF RequestsOK, CatalogRequestsTypeOK

LEMMA RequestSet ==
    ASSUME RequestsOK, NEW r \in Requests, NEW e \in CatalogRequest, Told(e),
           req' = [req EXCEPT ![r] = e],
           served' \in 0..MaxRequests, agenda' \subseteq Kinds, events' \subseteq FileEvent,
           \A c \in clashed' : c.kinds \subseteq Kinds /\ c.on \in On
    PROVE  RequestsOK'
<1>1. req \in [Requests -> CatalogRequest]
  BY DEF RequestsOK, CatalogRequestsTypeOK
<1>2. req' \in [Requests -> CatalogRequest]
  BY <1>1
<1>3. ASSUME NEW q \in Requests PROVE Told(req'[q])
  <2>1. req'[q] = e \/ req'[q] = req[q]
    BY <1>1
  <2> QED BY <2>1 DEF RequestsOK
<1>4. \A q \in Requests : Told(req[q])'
  BY <1>3 DEF Told
<1> QED BY <1>2, <1>4 DEF RequestsOK, CatalogRequestsTypeOK, On

LEMMA SetLocals ==
    ASSUME RequestsOK, NEW r \in Requests, NEW e \in CatalogRequest, Told(e), Set(r, e),
           UNCHANGED History
    PROVE  RequestsOK'
  BY RequestSet DEF Set, History, RequestsOK, CatalogRequestsTypeOK, On

LEMMA GotoLocals ==
    ASSUME RequestsOK, NEW r \in Requests, NEW pc \in CatalogPc,
           Told([req[r] EXCEPT !.pc = pc]), Goto(r, pc), UNCHANGED History
    PROVE  RequestsOK'
<1>1. req[r] \in CatalogRequest
  BY RequestType
<1>2. [req[r] EXCEPT !.pc = pc] \in CatalogRequest
  BY <1>1 DEF CatalogRequest
<1> QED BY <1>2, SetLocals DEF Goto

LEMMA AnswerLocals ==
    ASSUME RequestsOK, NEW r \in Requests, Answer(r), UNCHANGED History
    PROVE  RequestsOK'
<1>1. Told(NoRequest)
  BY NoRequestType DEF Told
<1> QED BY <1>1, NoRequestType, SetLocals DEF Answer

\* What Begin keeps: the locals, with kind, number and rows.
Begun(locals, kind, on, no) == [locals EXCEPT !.kind = kind, !.no = no, !.on = on]

LEMMA BeginLocals ==
    ASSUME RequestsOK, NEW r \in Requests, NEW kind, NEW on \in SUBSET On,
           NEW locals \in CatalogRequest,
           \A no \in Nat : Told(Begun(locals, kind, on, no)),
           Begin(r, kind, on, locals)
    PROVE  RequestsOK'
<1> DEFINE e == IF locals.pc = "idle" THEN NoRequest ELSE Begun(locals, kind, on, served + 1)
<1>1. /\ req \in [Requests -> CatalogRequest] /\ served \in 0..MaxRequests
      /\ agenda \subseteq Kinds /\ events \subseteq FileEvent
      /\ \A c \in clashed : c.kinds \subseteq Kinds /\ c.on \in On
  BY DEF RequestsOK, CatalogRequestsTypeOK, On
<1>2. kind \in Kinds /\ served < MaxRequests /\ served' = served + 1
  BY <1>1 DEF Begin
<1>3. served + 1 \in Nat /\ served' \in 0..MaxRequests
  BY <1>1, <1>2, CatalogRequestsAssumption
<1>4. Begun(locals, kind, on, served + 1) \in CatalogRequest
  BY <1>2, <1>3 DEF Begun, CatalogRequest, On
<1>5. e \in CatalogRequest
  BY <1>4, NoRequestType
<1>6. Told(NoRequest)
  BY NoRequestType DEF Told
<1>7. Told(e)
  BY <1>3, <1>6
<1>8. req' = [req EXCEPT ![r] = e]
  BY DEF Begin, Begun
<1>9. ASSUME NEW c \in clashed' PROVE c.kinds \subseteq Kinds /\ c.on \in On
  <2>1. clashed' = clashed \cup UNION {{[kinds |-> {kind, req[s].kind}, on |-> x] :
                                        x \in on \cap req[s].on} : s \in Requests}
    BY DEF Begin
  <2>2. CASE c \in clashed
    BY <2>2, <1>1
  <2>3. CASE c \notin clashed
    <3>1. PICK s \in Requests : \E x \in on \cap req[s].on : c = [kinds |-> {kind, req[s].kind}, on |-> x]
      BY <2>1, <2>3
    <3>2. req[s].kind \in Kinds
      BY <1>1 DEF CatalogRequest
    <3> QED BY <3>1, <3>2, <1>2
  <2> QED BY <2>2, <2>3
<1>10. agenda' \subseteq Kinds /\ events' \subseteq FileEvent
  BY <1>1 DEF Begin
<1> HIDE DEF e
<1> QED BY <1>3, <1>5, <1>7, <1>8, <1>9, <1>10, RequestSet

LEMMA BeginAnswered ==
    ASSUME RequestsOK, NEW r \in Requests, NEW kind, NEW on \in SUBSET On,
           Begin(r, kind, on, NoRequest)
    PROVE  RequestsOK'
<1>1. ASSUME NEW no \in Nat PROVE Told(Begun(NoRequest, kind, on, no))
  <2>1. Begun(NoRequest, kind, on, no).pc = "idle"
    BY NoRequestType DEF Begun, CatalogRequest
  <2> QED BY <2>1 DEF Told
<1> QED BY <1>1, NoRequestType, BeginLocals

-----------------------------------------------------------------------------
(* The tables.                                                             *)

\* What is live has a parent.
Placed ==
    /\ \A m \in Missions : mission[m].row = "live" => mission[m].project \in Projects
    /\ \A f \in Files : file[f].row = "live" => file[f].mission \in Missions

StoreOK == CatalogStoreTypeOK /\ IsFiniteSet(runs) /\ Placed

LEMMA StoreUnchanged ==
    ASSUME StoreOK, UNCHANGED catalogStoreVars
    PROVE  StoreOK'
  BY DEF StoreOK, CatalogStoreTypeOK, Placed, catalogStoreVars

LEMMA ProjectSet ==
    ASSUME StoreOK, project' \in [Projects -> [row : Presence, required : SUBSET Types]],
           UNCHANGED <<mission, metadata, file, template, trigger, runs>>
    PROVE  StoreOK'
  BY DEF StoreOK, CatalogStoreTypeOK, Placed

LEMMA MissionSet ==
    ASSUME StoreOK, NEW m \in Missions,
           NEW row \in [row : Presence, project : Projects \cup {None}, name : Names \cup {None}],
           row.row = "live" => row.project \in Projects,
           mission' = [mission EXCEPT ![m] = row],
           UNCHANGED <<project, metadata, file, template, trigger, runs>>
    PROVE  StoreOK'
<1> DEFINE Row == [row : Presence, project : Projects \cup {None}, name : Names \cup {None}]
<1>1. mission \in [Missions -> Row]
  BY DEF StoreOK, CatalogStoreTypeOK
<1> HIDE DEF Row
<1>2. mission' \in [Missions -> Row]
  BY <1>1 DEF Row
<1>3. \A x \in Missions : mission'[x] = row \/ mission'[x] = mission[x]
  BY <1>1
<1>4. \A x \in Missions : mission'[x].row = "live" => mission'[x].project \in Projects
  BY <1>3 DEF StoreOK, Placed
<1> QED BY <1>2, <1>4 DEF StoreOK, CatalogStoreTypeOK, Placed, Row

LEMMA FileSet ==
    ASSUME StoreOK, NEW f \in Files, NEW row \in [row : Presence, mission : Missions \cup {None}],
           row.row = "live" => row.mission \in Missions,
           file' = [file EXCEPT ![f] = row],
           UNCHANGED <<project, mission, metadata, template, trigger, runs>>
    PROVE  StoreOK'
<1> DEFINE Row == [row : Presence, mission : Missions \cup {None}]
<1>1. file \in [Files -> Row]
  BY DEF StoreOK, CatalogStoreTypeOK
<1> HIDE DEF Row
<1>2. file' \in [Files -> Row]
  BY <1>1 DEF Row
<1>3. \A x \in Files : file'[x] = row \/ file'[x] = file[x]
  BY <1>1
<1>4. \A x \in Files : file'[x].row = "live" => file'[x].mission \in Missions
  BY <1>3 DEF StoreOK, Placed
<1> QED BY <1>2, <1>4 DEF StoreOK, CatalogStoreTypeOK, Placed, Row

LEMMA MetadataSet ==
    ASSUME StoreOK, NEW m \in Missions, NEW values \in [Types -> SUBSET Nat],
           metadata' = [metadata EXCEPT ![m] = values],
           UNCHANGED <<project, mission, file, template, trigger, runs>>
    PROVE  StoreOK'
  BY DEF StoreOK, CatalogStoreTypeOK, Placed

LEMMA TemplateSet ==
    ASSUME StoreOK, template' \in [Versions -> {"none", "active", "archived"}],
           UNCHANGED <<project, mission, metadata, file, trigger, runs>>
    PROVE  StoreOK'
  BY DEF StoreOK, CatalogStoreTypeOK, Placed

LEMMA TriggerSet ==
    ASSUME StoreOK, trigger' \in [Triggers -> TriggerRow],
           UNCHANGED <<project, mission, metadata, file, template, runs>>
    PROVE  StoreOK'
  BY DEF StoreOK, CatalogStoreTypeOK, Placed

LEMMA RunsSet ==
    ASSUME StoreOK, runs' \subseteq Run, IsFiniteSet(runs'),
           UNCHANGED <<project, mission, metadata, file, template, trigger>>
    PROVE  StoreOK'
  BY DEF StoreOK, CatalogStoreTypeOK, Placed

LEMMA RowTypes ==
    ASSUME StoreOK
    PROVE  /\ \A p \in Projects : project[p] \in [row : Presence, required : SUBSET Types]
           /\ \A m \in Missions : mission[m] \in [row : Presence, project : Projects \cup {None},
                                                   name : Names \cup {None}]
           /\ \A m \in Missions : metadata[m] \in [Types -> SUBSET Nat]
           /\ \A f \in Files : file[f] \in [row : Presence, mission : Missions \cup {None}]
           /\ \A t \in Triggers : trigger[t] \in TriggerRow
  BY DEF StoreOK, CatalogStoreTypeOK

-----------------------------------------------------------------------------
(* The requests.                                                           *)

\* Somebody put a mission into this project, a file into this mission, while it
\* was deleted.
MissionExcused(p) == \E kind \in {"newMission", "moveMission"} : Overlapped({"dropProject", kind}, p)
FileExcused(m) == \E kind \in {"upload", "moveFile"} : Overlapped({"dropMission", kind}, m)

\* What a request relies on, as it has read it, still holds, or is excused.
Awaited(e) ==
    /\ e.pc \in {"sameName", "createMission", "moveName", "moveMission"} =>
        LiveProject(e.project) \/ MissionExcused(e.project)
    /\ e.pc = "dropProject" => MissionsOf(e.project) = {} \/ MissionExcused(e.project)
    /\ e.pc \in {"reserve", "refile"} => LiveMission(e.mission) \/ FileExcused(e.mission)
    /\ e.pc = "dropMission" => FilesOf(e.mission) = {} \/ FileExcused(e.mission)

\* A request is received that has found what it relies on.
Begins(r) ==
    \E kind \in Kinds, on \in SUBSET On, locals \in CatalogRequest :
        Begin(r, kind, on, locals) /\ Awaited(locals)

LEMMA AnsweredBegins ==
    ASSUME NEW r, NEW kind \in Kinds, NEW on \in SUBSET On, Begin(r, kind, on, NoRequest)
    PROVE  Begins(r)
<1>1. Awaited(NoRequest)
  BY NoRequestType DEF Awaited
<1> QED BY <1>1, NoRequestType DEF Begins

LEMMA ReceiveOK ==
    ASSUME StoreOK, RequestsOK, NEW r \in Requests, CatalogReceive(r)
    PROVE  StoreOK' /\ RequestsOK' /\ Begins(r)
<1>1. CASE UpdateMetadataTypes(r)
  <2>1. PICK p \in Projects, required \in SUBSET Types :
            Begin(r, "require", {p},
                  [NoRequest EXCEPT !.pc = "require", !.project = p, !.required = required])
    BY <1>1 DEF UpdateMetadataTypes
  <2> DEFINE e == [NoRequest EXCEPT !.pc = "require", !.project = p, !.required = required]
  <2>2. e \in CatalogRequest
    BY NoRequestType DEF CatalogRequest, CatalogPc
  <2>3. \A no \in Nat : Told(Begun(e, "require", {p}, no))
    BY NoRequestType DEF Told, Begun, CatalogRequest
  <2>4. {p} \in SUBSET On
    BY <2>1 DEF On
  <2>5. Begin(r, "require", {p}, e)
    BY <2>1
  <2>6. Awaited(e)
    BY <2>1, NoRequestType DEF Awaited, CatalogRequest
  <2> HIDE DEF e
  <2>7. UNCHANGED catalogStoreVars
    BY <1>1 DEF UpdateMetadataTypes
  <2>8. Begins(r)
    BY <2>2, <2>4, <2>5, <2>6 DEF Begins, Kinds
  <2> QED BY <2>2, <2>3, <2>4, <2>5, <2>7, <2>8, BeginLocals, StoreUnchanged
<1>2. CASE DeleteProject(r)
  <2>1. PICK p \in Projects :
            Begin(r, "dropProject", {p},
                  [NoRequest EXCEPT !.pc = "countMissions", !.project = p])
    BY <1>2 DEF DeleteProject
  <2> DEFINE e == [NoRequest EXCEPT !.pc = "countMissions", !.project = p]
  <2>2. e \in CatalogRequest
    BY NoRequestType DEF CatalogRequest, CatalogPc
  <2>3. \A no \in Nat : Told(Begun(e, "dropProject", {p}, no))
    BY NoRequestType DEF Told, Begun, CatalogRequest
  <2>4. {p} \in SUBSET On
    BY <2>1 DEF On
  <2>5. Begin(r, "dropProject", {p}, e)
    BY <2>1
  <2>6. Awaited(e)
    BY <2>1, NoRequestType DEF Awaited, CatalogRequest
  <2> HIDE DEF e
  <2>7. UNCHANGED catalogStoreVars
    BY <1>2 DEF DeleteProject
  <2>8. Begins(r)
    BY <2>2, <2>4, <2>5, <2>6 DEF Begins, Kinds
  <2> QED BY <2>2, <2>3, <2>4, <2>5, <2>7, <2>8, BeginLocals, StoreUnchanged
<1>3. CASE CreateMission(r)
  <2>1. PICK p \in Projects, m \in Missions, n \in Names, given \in Payload, ignore \in BOOLEAN :
            /\ LiveProject(p) /\ Begin(r, "newMission", {p, m},
                  [NoRequest EXCEPT !.pc = "sameName", !.project = p, !.mission = m, !.name = n,
                                     !.given = given, !.ignore = ignore, !.required = project[p].required])
    BY ZenonT(60), <1>3 DEF CreateMission
  <2>0. project[p].required \in SUBSET Types
    BY RowTypes
  <2> DEFINE e == [NoRequest EXCEPT !.pc = "sameName", !.project = p, !.mission = m, !.name = n,
                                     !.given = given, !.ignore = ignore, !.required = project[p].required]
  <2>2. e \in CatalogRequest
    BY <2>0, NoRequestType DEF CatalogRequest, CatalogPc
  <2>3. \A no \in Nat : Told(Begun(e, "newMission", {p, m}, no))
    BY <2>0, NoRequestType DEF Told, Begun, CatalogRequest
  <2>4. {p, m} \in SUBSET On
    BY <2>1 DEF On
  <2>5. Begin(r, "newMission", {p, m}, e)
    BY <2>1
  <2>6. Awaited(e)
    BY <2>1, NoRequestType DEF Awaited, CatalogRequest
  <2> HIDE DEF e
  <2>7. UNCHANGED catalogStoreVars
    BY <1>3 DEF CreateMission
  <2>8. Begins(r)
    BY <2>2, <2>4, <2>5, <2>6 DEF Begins, Kinds
  <2> QED BY <2>2, <2>3, <2>4, <2>5, <2>7, <2>8, BeginLocals, StoreUnchanged
<1>4. CASE MoveMission(r)
  <2>1. PICK m \in Missions, p \in Projects :
            /\ LiveProject(p) /\ Begin(r, "moveMission", {m, p},
                  [NoRequest EXCEPT !.pc = "moveName", !.project = p, !.mission = m,
                                     !.name = mission[m].name])
    BY <1>4 DEF MoveMission
  <2>0. mission[m].name \in Names \cup {None}
    BY RowTypes
  <2> DEFINE e == [NoRequest EXCEPT !.pc = "moveName", !.project = p, !.mission = m,
                                     !.name = mission[m].name]
  <2>2. e \in CatalogRequest
    BY <2>0, NoRequestType DEF CatalogRequest, CatalogPc
  <2>3. \A no \in Nat : Told(Begun(e, "moveMission", {m, p}, no))
    BY <2>0, NoRequestType DEF Told, Begun, CatalogRequest
  <2>4. {m, p} \in SUBSET On
    BY <2>1 DEF On
  <2>5. Begin(r, "moveMission", {m, p}, e)
    BY <2>1
  <2>6. Awaited(e)
    BY <2>1, NoRequestType DEF Awaited, CatalogRequest
  <2> HIDE DEF e
  <2>7. UNCHANGED catalogStoreVars
    BY <1>4 DEF MoveMission
  <2>8. Begins(r)
    BY <2>2, <2>4, <2>5, <2>6 DEF Begins, Kinds
  <2> QED BY <2>2, <2>3, <2>4, <2>5, <2>7, <2>8, BeginLocals, StoreUnchanged
<1>5. CASE ReplaceMissionMetadata(r)
  <2>1. PICK m \in Missions, given \in Payload :
            /\ LiveMission(m) /\ Begin(r, "annotate", {m, mission[m].project},
                  [NoRequest EXCEPT !.pc = "remove", !.mission = m, !.given = given,
                                     !.seen = metadata[m], !.required = RequiredOf(m)])
    BY <1>5 DEF ReplaceMissionMetadata
  <2>0. /\ metadata[m] \in [Types -> SUBSET Nat] /\ RequiredOf(m) \in SUBSET Types
        /\ mission[m].project \in Projects
    BY RowTypes, <2>1 DEF RequiredOf, LiveMission, StoreOK, Placed
  <2> DEFINE e == [NoRequest EXCEPT !.pc = "remove", !.mission = m, !.given = given,
                                     !.seen = metadata[m], !.required = RequiredOf(m)]
  <2>2. e \in CatalogRequest
    BY <2>0, NoRequestType DEF CatalogRequest, CatalogPc
  <2>3. \A no \in Nat : Told(Begun(e, "annotate", {m, mission[m].project}, no))
    BY <2>0, NoRequestType DEF Told, Begun, CatalogRequest
  <2>4. {m, mission[m].project} \in SUBSET On
    BY <2>0 DEF On
  <2>5. Begin(r, "annotate", {m, mission[m].project}, e)
    BY <2>1
  <2>6. Awaited(e)
    BY <2>1, NoRequestType DEF Awaited, CatalogRequest
  <2> HIDE DEF e
  <2>7. UNCHANGED catalogStoreVars
    BY <1>5 DEF ReplaceMissionMetadata
  <2>8. Begins(r)
    BY <2>2, <2>4, <2>5, <2>6 DEF Begins, Kinds
  <2> QED BY <2>2, <2>3, <2>4, <2>5, <2>7, <2>8, BeginLocals, StoreUnchanged
<1>6. CASE Upload(r)
  <2>1. PICK f \in Files, m \in Missions :
            /\ LiveMission(m) /\ Begin(r, "upload", {m},
                  [NoRequest EXCEPT !.pc = "reserve", !.mission = m, !.file = f])
    BY <1>6 DEF Upload
  <2> DEFINE e == [NoRequest EXCEPT !.pc = "reserve", !.mission = m, !.file = f]
  <2>2. e \in CatalogRequest
    BY NoRequestType DEF CatalogRequest, CatalogPc
  <2>3. \A no \in Nat : Told(Begun(e, "upload", {m}, no))
    BY NoRequestType DEF Told, Begun, CatalogRequest
  <2>4. {m} \in SUBSET On
    BY <2>1 DEF On
  <2>5. Begin(r, "upload", {m}, e)
    BY <2>1
  <2>6. Awaited(e)
    BY <2>1, NoRequestType DEF Awaited, CatalogRequest
  <2> HIDE DEF e
  <2>7. UNCHANGED catalogStoreVars
    BY <1>6 DEF Upload
  <2>8. Begins(r)
    BY <2>2, <2>4, <2>5, <2>6 DEF Begins, Kinds
  <2> QED BY <2>2, <2>3, <2>4, <2>5, <2>7, <2>8, BeginLocals, StoreUnchanged
<1>7. CASE ConfirmAgain(r)
  <2>1. PICK f \in Files :
            Begin(r, "confirm", {},
                  [NoRequest EXCEPT !.pc = "confirm", !.file = f])
    BY <1>7 DEF ConfirmAgain
  <2> DEFINE e == [NoRequest EXCEPT !.pc = "confirm", !.file = f]
  <2>2. e \in CatalogRequest
    BY NoRequestType DEF CatalogRequest, CatalogPc
  <2>3. \A no \in Nat : Told(Begun(e, "confirm", {}, no))
    BY NoRequestType DEF Told, Begun, CatalogRequest
  <2>4. {} \in SUBSET On
    BY <2>1 DEF On
  <2>5. Begin(r, "confirm", {}, e)
    BY <2>1
  <2>6. Awaited(e)
    BY <2>1, NoRequestType DEF Awaited, CatalogRequest
  <2> HIDE DEF e
  <2>7. UNCHANGED catalogStoreVars
    BY <1>7 DEF ConfirmAgain
  <2>8. Begins(r)
    BY <2>2, <2>4, <2>5, <2>6 DEF Begins, Kinds
  <2> QED BY <2>2, <2>3, <2>4, <2>5, <2>7, <2>8, BeginLocals, StoreUnchanged
<1>8. CASE MoveFile(r)
  <2>1. PICK f \in Files, m \in Missions :
            /\ LiveMission(m) /\ Begin(r, "moveFile", {m},
                  [NoRequest EXCEPT !.pc = "refile", !.mission = m, !.file = f])
    BY <1>8 DEF MoveFile
  <2> DEFINE e == [NoRequest EXCEPT !.pc = "refile", !.mission = m, !.file = f]
  <2>2. e \in CatalogRequest
    BY NoRequestType DEF CatalogRequest, CatalogPc
  <2>3. \A no \in Nat : Told(Begun(e, "moveFile", {m}, no))
    BY NoRequestType DEF Told, Begun, CatalogRequest
  <2>4. {m} \in SUBSET On
    BY <2>1 DEF On
  <2>5. Begin(r, "moveFile", {m}, e)
    BY <2>1
  <2>6. Awaited(e)
    BY <2>1, NoRequestType DEF Awaited, CatalogRequest
  <2> HIDE DEF e
  <2>7. UNCHANGED catalogStoreVars
    BY <1>8 DEF MoveFile
  <2>8. Begins(r)
    BY <2>2, <2>4, <2>5, <2>6 DEF Begins, Kinds
  <2> QED BY <2>2, <2>3, <2>4, <2>5, <2>7, <2>8, BeginLocals, StoreUnchanged
<1>9. CASE CreateProject(r)
  <2>1. PICK p \in Projects, required \in SUBSET Types :
            /\ Begin(r, "newProject", {p}, NoRequest)
            /\ project' = [project EXCEPT ![p] = [row |-> "live", required |-> required]]
            /\ UNCHANGED <<mission, metadata, file, template, trigger, runs>>
    BY <1>9 DEF CreateProject
  <2>2. [row |-> "live", required |-> required] \in [row : Presence, required : SUBSET Types]
    BY DEF Presence
  <2>3. project' \in [Projects -> [row : Presence, required : SUBSET Types]]
    BY <2>1, <2>2 DEF StoreOK, CatalogStoreTypeOK
  <2>4. {p} \in SUBSET On
    BY DEF On
  <2> QED BY <2>1, <2>3, <2>4, ProjectSet, BeginAnswered, AnsweredBegins DEF Kinds
<1>10. CASE DeleteMission(r)
  <2>1. PICK m \in Missions :
            Begin(r, "dropMission", {m}, IF FilesOf(m) # {} THEN NoRequest
                  ELSE [NoRequest EXCEPT !.pc = "dropMission", !.mission = m])
    BY <1>10 DEF DeleteMission
  <2>2. {m} \in SUBSET On
    BY DEF On
  <2> DEFINE e == [NoRequest EXCEPT !.pc = "dropMission", !.mission = m]
  <2>3. e \in CatalogRequest
    BY NoRequestType DEF CatalogRequest, CatalogPc
  <2>4. \A no \in Nat : Told(Begun(e, "dropMission", {m}, no))
    BY NoRequestType DEF Told, Begun, CatalogRequest
  <2>5. \/ Begin(r, "dropMission", {m}, NoRequest)
        \/ FilesOf(m) = {} /\ Begin(r, "dropMission", {m}, e)
    BY <2>1
  <2>6. FilesOf(m) = {} => Awaited(e)
    BY NoRequestType DEF Awaited, CatalogRequest
  <2> HIDE DEF e
  <2>7. UNCHANGED catalogStoreVars
    BY <1>10 DEF DeleteMission
  <2>8. CASE Begin(r, "dropMission", {m}, NoRequest)
    BY <2>2, <2>7, <2>8, BeginAnswered, AnsweredBegins, StoreUnchanged DEF Kinds
  <2>9. CASE FilesOf(m) = {} /\ Begin(r, "dropMission", {m}, e)
    <3>1. Begins(r)
      BY <2>2, <2>3, <2>6, <2>9 DEF Begins, Kinds
    <3> QED BY <2>2, <2>3, <2>4, <2>7, <2>9, <3>1, BeginLocals, StoreUnchanged
  <2> QED BY <2>5, <2>8, <2>9
<1>11. CASE UnsetMetadata(r)
  <2>1. PICK m \in Missions, t \in Types : \E row \in metadata[m][t] :
            Begin(r, "unset", {m}, [NoRequest EXCEPT !.pc = "unset", !.mission = m,
                  !.seen = [NoRequest.seen EXCEPT ![t] = {row}]])
    BY <1>11 DEF UnsetMetadata
  <2>2. PICK row \in metadata[m][t] :
            Begin(r, "unset", {m}, [NoRequest EXCEPT !.pc = "unset", !.mission = m,
                  !.seen = [NoRequest.seen EXCEPT ![t] = {row}]])
    BY <2>1
  <2>3. {m} \in SUBSET On
    BY DEF On
  <2>4. row \in Nat
    <3>1. metadata[m] \in [Types -> SUBSET Nat]
      BY RowTypes
    <3> QED BY <3>1
  <2> DEFINE seen == [NoRequest.seen EXCEPT ![t] = {row}]
             e == [NoRequest EXCEPT !.pc = "unset", !.mission = m, !.seen = seen]
  <2>5. seen \in [Types -> SUBSET Nat]
    <3>1. NoRequest.seen \in [Types -> SUBSET Nat]
      BY NoRequestType DEF CatalogRequest
    <3> QED BY <3>1, <2>4
  <2>8. Begin(r, "unset", {m}, e)
    BY <2>2
  <2> HIDE DEF seen
  <2>6. e \in CatalogRequest
    BY <2>5, NoRequestType DEF CatalogRequest, CatalogPc
  <2>7. \A no \in Nat : Told(Begun(e, "unset", {m}, no))
    BY NoRequestType, <2>5 DEF Told, Begun, CatalogRequest
  <2>9. Awaited(e)
    BY NoRequestType, <2>5 DEF Awaited, CatalogRequest
  <2> HIDE DEF e
  <2>10. UNCHANGED catalogStoreVars
    BY <1>11 DEF UnsetMetadata
  <2>11. Begins(r)
    BY <2>3, <2>6, <2>8, <2>9 DEF Begins, Kinds
  <2> QED BY <2>3, <2>6, <2>7, <2>8, <2>10, <2>11, BeginLocals, StoreUnchanged
<1>12. CASE DeleteFile(r)
  <2>1. PICK f \in Files :
            /\ LiveFile(f)
            /\ Begin(r, "dropFile", {}, NoRequest)
            /\ file' = [file EXCEPT ![f].row = "deleted"]
            /\ UNCHANGED <<project, mission, metadata, template, trigger, runs>>
    BY <1>12 DEF DeleteFile
  <2> DEFINE row == [file[f] EXCEPT !.row = "deleted"]
  <2>2. file[f] \in [row : Presence, mission : Missions \cup {None}]
    BY RowTypes
  <2>3. /\ row \in [row : Presence, mission : Missions \cup {None}]
        /\ row.mission = file[f].mission
    BY <2>2 DEF Presence
  <2>4. file[f].mission \in Missions
    BY <2>1 DEF LiveFile, StoreOK, Placed
  <2>5. file' = [file EXCEPT ![f] = row]
    BY <2>1
  <2> HIDE DEF row
  <2>6. {} \in SUBSET On
    OBVIOUS
  <2>7. StoreOK'
    BY <2>1, <2>3, <2>4, <2>5, FileSet
  <2>8. RequestsOK' /\ Begins(r)
    BY <2>1, <2>6, BeginAnswered, AnsweredBegins DEF Kinds
  <2> QED BY <2>7, <2>8
<1> QED BY <1>1, <1>2, <1>3, <1>4, <1>5, <1>6, <1>7, <1>8, <1>9, <1>10, <1>11, <1>12
        DEF CatalogReceive

\* A request that has changed some local variables, but not its place.
LEMMA TodoLocals ==
    ASSUME RequestsOK, NEW r \in Requests, NEW t \in Types, NEW what \in Todo,
           ToDo(r, t, what), UNCHANGED History
    PROVE  RequestsOK'
<1> DEFINE todo == [req[r].todo EXCEPT ![t] = what]
           e == [req[r] EXCEPT !.todo = todo]
<1>1. req[r] \in CatalogRequest /\ Told(req[r])
  BY RequestType
<1>2. todo \in [Types -> Todo]
  BY <1>1 DEF CatalogRequest
<1>3. Set(r, e)
  BY DEF ToDo
<1> HIDE DEF todo
<1>4. e \in CatalogRequest
  BY <1>1, <1>2 DEF CatalogRequest
<1>5. Told(e)
  BY <1>1 DEF Told, CatalogRequest
<1> HIDE DEF e
<1> QED BY <1>3, <1>4, <1>5, SetLocals

\* A file event is added.
LEMMA EventAdded ==
    ASSUME RequestsOK, NEW r \in Requests, NEW event \in TriggerEvent, req[r].file \in Files,
           AddFileEvent(r, event) \/ UNCHANGED events, Answer(r), UNCHANGED <<served, agenda, clashed>>
    PROVE  RequestsOK'
<1>1. req[r] \in CatalogRequest
  BY RequestType
<1>2. [no |-> req[r].no, file |-> req[r].file, event |-> event] \in FileEvent
  BY <1>1 DEF FileEvent, CatalogRequest
<1>3. events \subseteq FileEvent
  BY DEF RequestsOK, CatalogRequestsTypeOK
<1>4. events' \subseteq FileEvent
  BY <1>2, <1>3 DEF AddFileEvent
<1>5. Told(NoRequest)
  BY NoRequestType DEF Told
<1> QED BY <1>4, <1>5, NoRequestType, RequestSet DEF Answer, Set, RequestsOK, CatalogRequestsTypeOK, On

LEMMA ContinueOK ==
    ASSUME StoreOK, RequestsOK, NEW r \in Requests, CatalogContinue(r)
    PROVE  StoreOK' /\ RequestsOK'
<1>0. req[r] \in CatalogRequest /\ Told(req[r])
  BY RequestType
<1>1. CASE SaveMetadataTypes(r)
  <2>1. req[r].required \in SUBSET Types
    BY <1>0 DEF CatalogRequest
  <2> DEFINE row == [project[req[r].project] EXCEPT !.required = req[r].required]
  <2>2. req[r].project \in Projects
    BY <1>0, <1>1 DEF Told, SaveMetadataTypes, At
  <2>4. row \in [row : Presence, required : SUBSET Types]
    BY <2>1, <2>2, RowTypes
  <2>5. project' = [project EXCEPT ![req[r].project] = row]
    BY <1>1 DEF SaveMetadataTypes
  <2> HIDE DEF row
  <2>3. project' \in [Projects -> [row : Presence, required : SUBSET Types]]
    BY <2>4, <2>5 DEF StoreOK, CatalogStoreTypeOK
  <2> QED BY <1>1, <2>3, ProjectSet, AnswerLocals DEF SaveMetadataTypes, History
<1>2. CASE CountMissions(r)
  <2>1. Told([req[r] EXCEPT !.pc = "dropProject"])
    BY <1>0, <1>2 DEF Told, CatalogRequest, CountMissions, At
  <2>2. "dropProject" \in CatalogPc
    BY DEF CatalogPc
  <2>3. UNCHANGED catalogStoreVars /\ UNCHANGED History
    BY <1>2 DEF CountMissions
  <2>4. Answer(r) \/ Goto(r, "dropProject")
    BY <1>2 DEF CountMissions
  <2> QED BY <2>1, <2>2, <2>3, <2>4, StoreUnchanged, AnswerLocals, GotoLocals
<1>3. CASE DropProject(r)
  <2> DEFINE row == [project[req[r].project] EXCEPT !.row = "deleted"]
  <2>1. req[r].project \in Projects
    BY <1>0, <1>3 DEF Told, DropProject, At
  <2>3. row \in [row : Presence, required : SUBSET Types]
    BY <2>1, RowTypes DEF Presence
  <2>4. project' = [project EXCEPT ![req[r].project] = row]
    BY <1>3 DEF DropProject
  <2> HIDE DEF row
  <2>2. project' \in [Projects -> [row : Presence, required : SUBSET Types]]
    BY <2>3, <2>4 DEF StoreOK, CatalogStoreTypeOK
  <2> QED BY <1>3, <2>2, ProjectSet, AnswerLocals DEF DropProject, History
<1>4. CASE MissionExists(r)
  <2>1. Told([req[r] EXCEPT !.pc = "createMission"])
    BY <1>0, <1>4 DEF Told, CatalogRequest, MissionExists, At
  <2>2. "createMission" \in CatalogPc
    BY DEF CatalogPc
  <2>3. UNCHANGED catalogStoreVars /\ UNCHANGED History
    BY <1>4 DEF MissionExists
  <2>4. Answer(r) \/ Goto(r, "createMission")
    BY <1>4 DEF MissionExists
  <2> QED BY <2>1, <2>2, <2>3, <2>4, StoreUnchanged, AnswerLocals, GotoLocals
<1>5. CASE InsertMission(r)
  <2>1. /\ req[r].project \in Projects /\ req[r].mission \in Missions
        /\ req[r].name \in Names \cup {None}
    BY <1>0, <1>5 DEF Told, CatalogRequest, InsertMission, At
  <2>2. UNCHANGED <<project, metadata, file, template, trigger, runs>> /\ UNCHANGED History
    BY <1>5 DEF InsertMission
  <2>3. CASE NameTaken(req[r].project, req[r].name)
    <3>1. Answer(r) /\ UNCHANGED mission
      BY <1>5, <2>3 DEF InsertMission
    <3>2. UNCHANGED catalogStoreVars
      BY <2>2, <3>1 DEF catalogStoreVars
    <3> QED BY <2>2, <3>1, <3>2, AnswerLocals, StoreUnchanged
  <2>4. CASE ~NameTaken(req[r].project, req[r].name)
    <3> DEFINE row == [row |-> "live", project |-> req[r].project, name |-> req[r].name]
               todo == [t \in Types |-> IF req[r].given[t] = "absent" THEN "none" ELSE "add"]
               e == [req[r] EXCEPT !.pc = "upsert", !.todo = todo]
    <3>1. mission' = [mission EXCEPT ![req[r].mission] = row] /\ Set(r, e)
      BY <1>5, <2>4 DEF InsertMission
    <3>2. /\ row \in [row : Presence, project : Projects \cup {None}, name : Names \cup {None}]
          /\ row.project \in Projects
      BY <2>1 DEF Presence
    <3>3. todo \in [Types -> Todo]
      BY DEF Todo
    <3> HIDE DEF todo, row
    <3>4. e \in CatalogRequest
      BY <1>0, <3>3 DEF CatalogRequest, CatalogPc
    <3>5. Told(e)
      BY <1>0, <2>1 DEF Told, CatalogRequest
    <3> HIDE DEF e
    <3>6. StoreOK'
      BY <2>1, <2>2, <3>1, <3>2, MissionSet
    <3>7. RequestsOK'
      BY <2>2, <3>1, <3>4, <3>5, SetLocals
    <3> QED BY <3>6, <3>7
  <2> QED BY <2>3, <2>4
<1>6. CASE MoveExists(r)
  <2>1. Told([req[r] EXCEPT !.pc = "moveMission"])
    BY <1>0, <1>6 DEF Told, CatalogRequest, MoveExists, At
  <2>2. "moveMission" \in CatalogPc
    BY DEF CatalogPc
  <2>3. UNCHANGED catalogStoreVars /\ UNCHANGED History
    BY <1>6 DEF MoveExists
  <2>4. Answer(r) \/ Goto(r, "moveMission")
    BY <1>6 DEF MoveExists
  <2> QED BY <2>1, <2>2, <2>3, <2>4, StoreUnchanged, AnswerLocals, GotoLocals
<1>7. CASE SetProject(r)
  <2>1. req[r].project \in Projects /\ req[r].mission \in Missions
    BY <1>0, <1>7 DEF Told, SetProject, At
  <2>2. /\ UNCHANGED <<project, metadata, file, template, trigger, runs>> /\ UNCHANGED History
        /\ Answer(r)
    BY <1>7 DEF SetProject
  <2> DEFINE row == [mission[req[r].mission] EXCEPT !.project = req[r].project]
  <2>3. mission' = mission \/ mission' = [mission EXCEPT ![req[r].mission] = row]
    BY <1>7 DEF SetProject
  <2>4. mission[req[r].mission] \in [row : Presence, project : Projects \cup {None}, name : Names \cup {None}]
    BY <2>1, RowTypes
  <2>5. /\ row \in [row : Presence, project : Projects \cup {None}, name : Names \cup {None}]
        /\ row.project \in Projects
    BY <2>1, <2>4
  <2> HIDE DEF row
  <2>6. CASE mission' = mission
    <3>1. UNCHANGED catalogStoreVars
      BY <2>2, <2>6 DEF catalogStoreVars
    <3> QED BY <2>2, <3>1, AnswerLocals, StoreUnchanged
  <2>7. CASE mission' = [mission EXCEPT ![req[r].mission] = row]
    BY <2>1, <2>2, <2>5, <2>7, MissionSet, AnswerLocals
  <2> QED BY <2>3, <2>6, <2>7
<1>8. CASE SoftRemoveMission(r)
  <2>1. req[r].mission \in Missions
    BY <1>0, <1>8 DEF Told, SoftRemoveMission, At
  <2>2. /\ UNCHANGED <<project, metadata, file, template, trigger, runs>> /\ UNCHANGED History
        /\ Answer(r) /\ mission' = [mission EXCEPT ![req[r].mission].row = "deleted"]
    BY <1>8 DEF SoftRemoveMission
  <2>3. mission[req[r].mission] \in [row : Presence, project : Projects \cup {None}, name : Names \cup {None}]
    BY <2>1, RowTypes
  <2> DEFINE row == [mission[req[r].mission] EXCEPT !.row = "deleted"]
  <2>4. /\ row \in [row : Presence, project : Projects \cup {None}, name : Names \cup {None}]
        /\ row.row # "live"
    BY <2>3 DEF Presence
  <2>5. mission' = [mission EXCEPT ![req[r].mission] = row]
    BY <2>2
  <2> HIDE DEF row
  <2> QED BY <2>1, <2>2, <2>4, <2>5, MissionSet, AnswerLocals
<1>9. CASE RemoveMetadata(r)
  <2> DEFINE m == req[r].mission
             values == [t \in Types |-> IF req[r].given[t] = "value" THEN metadata[m][t]
                                        ELSE metadata[m][t] \ req[r].seen[t]]
             todo == [t \in Types |-> IF req[r].given[t] # "value" THEN "none"
                                      ELSE IF req[r].seen[t] # {} THEN "update" ELSE "add"]
             e == [req[r] EXCEPT !.pc = "upsert", !.todo = todo]
  <2>1. m \in Missions
    BY <1>0, <1>9 DEF Told, RemoveMetadata, At
  <2>2. metadata[m] \in [Types -> SUBSET Nat]
    BY <2>1, RowTypes
  <2>3. values \in [Types -> SUBSET Nat]
    BY <2>2
  <2>4. metadata' = [metadata EXCEPT ![m] = values]
    BY <1>9 DEF RemoveMetadata
  <2>5. Set(r, e) /\ UNCHANGED History /\ UNCHANGED <<project, mission, file, template, trigger, runs>>
    BY <1>9 DEF RemoveMetadata
  <2>6. todo \in [Types -> Todo]
    BY DEF Todo
  <2> HIDE DEF values, todo
  <2>7. e \in CatalogRequest
    BY <1>0, <2>6 DEF CatalogRequest, CatalogPc
  <2>8. Told(e)
    BY <1>0, <2>1 DEF Told, CatalogRequest
  <2> HIDE DEF e
  <2>9. RequestsOK'
    BY <2>5, <2>7, <2>8, SetLocals
  <2> QED BY <2>1, <2>3, <2>4, <2>5, <2>9, MetadataSet
<1>10. CASE Upserted(r)
  BY <1>10, AnswerLocals, StoreUnchanged DEF Upserted
<1>11. CASE DeleteMetadata(r)
  <2> DEFINE m == req[r].mission
             values == [t \in Types |-> metadata[m][t] \ req[r].seen[t]]
  <2>1. m \in Missions
    BY <1>0, <1>11 DEF Told, DeleteMetadata, At
  <2>2. metadata[m] \in [Types -> SUBSET Nat]
    BY <2>1, RowTypes
  <2>3. values \in [Types -> SUBSET Nat]
    BY <2>2
  <2>4. metadata' = [metadata EXCEPT ![m] = values]
    BY <1>11 DEF DeleteMetadata
  <2>5. Answer(r) /\ UNCHANGED History /\ UNCHANGED <<project, mission, file, template, trigger, runs>>
    BY <1>11 DEF DeleteMetadata
  <2> HIDE DEF values
  <2> QED BY <2>1, <2>3, <2>4, <2>5, MetadataSet, AnswerLocals
<1>12. ASSUME NEW t \in Types, FindForAdd(r, t)
       PROVE  StoreOK' /\ RequestsOK'
  <2>1. PICK what \in Todo : ToDo(r, t, what)
    BY <1>12 DEF FindForAdd, Todo
  <2> QED BY <1>12, <2>1, TodoLocals, StoreUnchanged DEF FindForAdd
<1>13. ASSUME NEW t \in Types, AddMetadata(r, t)
       PROVE  StoreOK' /\ RequestsOK'
  <2> DEFINE m == req[r].mission
             values == [metadata[m] EXCEPT ![t] = @ \cup {req[r].no}]
  <2>1. m \in Missions /\ req[r].no \in Nat
    BY <1>0, <1>13 DEF Told, AddMetadata, At, CatalogRequest
  <2>2. metadata[m] \in [Types -> SUBSET Nat]
    BY <2>1, RowTypes
  <2>3. values \in [Types -> SUBSET Nat]
    BY <2>1, <2>2
  <2>4. metadata' = [metadata EXCEPT ![m] = values]
    BY <1>13 DEF AddMetadata
  <2>5. /\ ToDo(r, t, "none") /\ UNCHANGED History
        /\ UNCHANGED <<project, mission, file, template, trigger, runs>>
    BY <1>13 DEF AddMetadata
  <2>6. "none" \in Todo
    BY DEF Todo
  <2> HIDE DEF values
  <2> QED BY <2>1, <2>3, <2>4, <2>5, <2>6, MetadataSet, TodoLocals
<1>14. ASSUME NEW t \in Types, FindForUpdate(r, t)
       PROVE  StoreOK' /\ RequestsOK'
  <2> DEFINE m == req[r].mission
  <2>1. m \in Missions
    BY <1>0, <1>14 DEF Told, FindForUpdate, At
  <2>2. UNCHANGED catalogStoreVars /\ UNCHANGED History
    BY <1>14 DEF FindForUpdate
  <2>3. metadata[m][t] \subseteq Nat
    <3>1. metadata[m] \in [Types -> SUBSET Nat]
      BY <2>1, RowTypes
    <3> QED BY <3>1
  <2>4. CASE ToDo(r, t, "none")
    BY <2>2, <2>4, TodoLocals, StoreUnchanged DEF Todo
  <2>5. ASSUME NEW row \in metadata[m][t],
               Set(r, [req[r] EXCEPT !.todo[t] = "updating", !.seen[t] = {row}])
        PROVE  RequestsOK'
    <3> DEFINE todo == [req[r].todo EXCEPT ![t] = "updating"]
               seen == [req[r].seen EXCEPT ![t] = {row}]
               e == [req[r] EXCEPT !.todo = todo, !.seen = seen]
    <3>1. Set(r, e)
      BY <1>0, <2>5 DEF CatalogRequest
    <3>2. todo \in [Types -> Todo]
      BY <1>0 DEF CatalogRequest, Todo
    <3>3. seen \in [Types -> SUBSET Nat]
      BY <1>0, <2>3 DEF CatalogRequest
    <3> HIDE DEF todo, seen
    <3>4. e \in CatalogRequest
      BY <1>0, <3>2, <3>3 DEF CatalogRequest
    <3>5. Told(e)
      BY <1>0 DEF Told, CatalogRequest
    <3> HIDE DEF e
    <3> QED BY <2>2, <3>1, <3>4, <3>5, SetLocals
  <2>6. \/ ToDo(r, t, "none")
        \/ \E row \in metadata[m][t] : Set(r, [req[r] EXCEPT !.todo[t] = "updating", !.seen[t] = {row}])
    BY <1>14 DEF FindForUpdate
  <2>7. StoreOK'
    BY <2>2, StoreUnchanged
  <2>8. CASE \E row \in metadata[m][t] : Set(r, [req[r] EXCEPT !.todo[t] = "updating", !.seen[t] = {row}])
    BY <2>5, <2>7, <2>8
  <2> QED BY <2>4, <2>6, <2>8
<1>15. ASSUME NEW t \in Types, UpdateMetadata(r, t)
       PROVE  StoreOK' /\ RequestsOK'
  <2> DEFINE m == req[r].mission
             values == [metadata[m] EXCEPT ![t] = @ \cup req[r].seen[t]]
  <2>1. m \in Missions /\ req[r].seen[t] \in SUBSET Nat
    BY <1>0, <1>15 DEF Told, UpdateMetadata, At, CatalogRequest
  <2>2. metadata[m] \in [Types -> SUBSET Nat]
    BY <2>1, RowTypes
  <2>3. values \in [Types -> SUBSET Nat]
    BY <2>1, <2>2
  <2>4. metadata' = [metadata EXCEPT ![m] = values]
    BY <1>15 DEF UpdateMetadata
  <2>5. /\ ToDo(r, t, "none") /\ UNCHANGED History
        /\ UNCHANGED <<project, mission, file, template, trigger, runs>>
    BY <1>15 DEF UpdateMetadata
  <2>6. "none" \in Todo
    BY DEF Todo
  <2> HIDE DEF values
  <2> QED BY <2>1, <2>3, <2>4, <2>5, <2>6, MetadataSet, TodoLocals
<1>16. CASE ReserveFile(r)
  <2> DEFINE row == [row |-> "live", mission |-> req[r].mission]
  <2>1. req[r].mission \in Missions /\ req[r].file \in Files
    BY <1>0, <1>16 DEF Told, ReserveFile, At
  <2>2. row \in [row : Presence, mission : Missions \cup {None}] /\ row.mission \in Missions
    BY <2>1 DEF Presence
  <2>3. file' = [file EXCEPT ![req[r].file] = row] /\ Goto(r, "confirm") /\ UNCHANGED History
    BY <1>16 DEF ReserveFile
  <2>4. UNCHANGED <<project, mission, metadata, template, trigger, runs>>
    BY <1>16 DEF ReserveFile
  <2> HIDE DEF row
  <2>5. Told([req[r] EXCEPT !.pc = "confirm"]) /\ "confirm" \in CatalogPc
    BY <1>0, <2>1 DEF Told, CatalogRequest, CatalogPc
  <2>6. RequestsOK'
    BY <2>3, <2>5, GotoLocals
  <2> QED BY <2>1, <2>2, <2>3, <2>4, <2>6, FileSet
<1>17. CASE ConfirmUpload(r)
  <2>1. req[r].file \in Files
    BY <1>0, <1>17 DEF Told, ConfirmUpload, At
  <2>2. UNCHANGED catalogStoreVars /\ UNCHANGED <<served, agenda, clashed>> /\ Answer(r)
    BY <1>17 DEF ConfirmUpload
  <2>3. AddFileEvent(r, "UPLOAD") \/ UNCHANGED events
    BY <1>17 DEF ConfirmUpload
  <2> QED BY <2>1, <2>2, <2>3, EventAdded, StoreUnchanged DEF TriggerEvent
<1>18. CASE SaveMovedFile(r)
  <2> DEFINE row == [file[req[r].file] EXCEPT !.mission = req[r].mission]
  <2>1. req[r].mission \in Missions /\ req[r].file \in Files
    BY <1>0, <1>18 DEF Told, SaveMovedFile, At
  <2>2. file[req[r].file] \in [row : Presence, mission : Missions \cup {None}]
    BY <2>1, RowTypes
  <2>3. row \in [row : Presence, mission : Missions \cup {None}] /\ row.mission \in Missions
    BY <2>1, <2>2
  <2>4. file' = [file EXCEPT ![req[r].file] = row] /\ Goto(r, "moved") /\ UNCHANGED History
    BY <1>18 DEF SaveMovedFile
  <2>5. UNCHANGED <<project, mission, metadata, template, trigger, runs>>
    BY <1>18 DEF SaveMovedFile
  <2> HIDE DEF row
  <2>6. Told([req[r] EXCEPT !.pc = "moved"]) /\ "moved" \in CatalogPc
    BY <1>0, <2>1 DEF Told, CatalogRequest, CatalogPc
  <2>7. RequestsOK'
    BY <2>4, <2>6, GotoLocals
  <2> QED BY <2>1, <2>3, <2>4, <2>5, <2>7, FileSet
<1>19. CASE FileMoved(r)
  <2>1. req[r].file \in Files
    BY <1>0, <1>19 DEF Told, FileMoved, At
  <2> QED BY <1>19, <2>1, EventAdded, StoreUnchanged DEF FileMoved, TriggerEvent
<1> QED BY <1>1, <1>2, <1>3, <1>4, <1>5, <1>6, <1>7, <1>8, <1>9, <1>10, <1>11, <1>12, <1>13,
           <1>14, <1>15, <1>16, <1>17, <1>18, <1>19 DEF CatalogContinue

-----------------------------------------------------------------------------
(* Templates and triggers.                                                 *)

\* A request that saves a trigger.
LEMMA SaveBegun ==
    ASSUME StoreOK, RequestsOK, NEW r \in Requests, NEW kind \in {"newTrigger", "editTrigger"},
           NEW t \in Triggers, BeginSave(r, kind, t)
    PROVE  StoreOK' /\ RequestsOK' /\ Begins(r)
<1>1. PICK c \in TriggerConfigs, m \in Missions, v \in TemplateVersions :
          Begin(r, kind, {t}, [NoRequest EXCEPT !.pc = "saveTrigger", !.trigger = t,
                                               !.row = TriggerRowOf(c, m, v)])
  BY DEF BeginSave
<1> DEFINE row == TriggerRowOf(c, m, v)
           e == [NoRequest EXCEPT !.pc = "saveTrigger", !.trigger = t, !.row = row]
<1>2. row \in TriggerRow
  BY TriggerRequestsAssumption DEF TriggerRowOf, TriggerRow, TemplateVersions, Presence
<1>3. Begin(r, kind, {t}, e)
  BY <1>1
<1> HIDE DEF row
<1>4. e \in CatalogRequest
  BY <1>2, NoRequestType DEF CatalogRequest, CatalogPc
<1>5. \A no \in Nat : Told(Begun(e, kind, {t}, no))
  BY <1>2, NoRequestType DEF Told, Begun, CatalogRequest
<1>6. Awaited(e)
  BY <1>2, NoRequestType DEF Awaited, CatalogRequest
<1> HIDE DEF e
<1>7. UNCHANGED catalogStoreVars
  BY DEF BeginSave
<1>8. {t} \in SUBSET On
  BY DEF On
<1>9. Begins(r)
  BY <1>3, <1>4, <1>6, <1>8 DEF Begins, Kinds
<1> QED BY <1>3, <1>4, <1>5, <1>7, <1>8, <1>9, BeginLocals, StoreUnchanged

LEMMA TriggerReceiveOK ==
    ASSUME StoreOK, RequestsOK, NEW r \in Requests, TriggerReceive(r)
    PROVE  StoreOK' /\ RequestsOK' /\ Begins(r)
<1>0. {} \in SUBSET On
  OBVIOUS
<1>1. CASE CreateTemplate(r)
  <2>1. template' \in [Versions -> {"none", "active", "archived"}]
    BY <1>1 DEF CreateTemplate, StoreOK, CatalogStoreTypeOK
  <2> QED BY <1>0, <1>1, <2>1, BeginAnswered, AnsweredBegins, TemplateSet DEF CreateTemplate, Kinds
<1>2. CASE CreateVersion(r)
  <2> DEFINE e == [NoRequest EXCEPT !.pc = "saveVersion", !.version = NextVersion]
  <2>1. NextVersion \in Versions /\ Begin(r, "newVersion", {}, e)
    BY <1>2 DEF CreateVersion
  <2>2. e \in CatalogRequest
    BY <2>1, NoRequestType DEF CatalogRequest, CatalogPc
  <2>3. \A no \in Nat : Told(Begun(e, "newVersion", {}, no))
    BY NoRequestType DEF Told, Begun, CatalogRequest
  <2>4. Awaited(e)
    BY NoRequestType DEF Awaited, CatalogRequest
  <2> HIDE DEF e
  <2>5. Begins(r)
    BY <1>0, <2>1, <2>2, <2>4 DEF Begins, Kinds
  <2> QED BY <1>0, <1>2, <2>1, <2>2, <2>3, <2>5, BeginLocals, StoreUnchanged DEF CreateVersion
<1>3. CASE DeleteTemplate(r)
  <2> DEFINE e == [NoRequest EXCEPT !.pc = "count"]
  <2>1. Begin(r, "dropTemplate", {}, e)
    BY <1>3 DEF DeleteTemplate
  <2>2. e \in CatalogRequest
    BY NoRequestType DEF CatalogRequest, CatalogPc
  <2>3. \A no \in Nat : Told(Begun(e, "dropTemplate", {}, no))
    BY NoRequestType DEF Told, Begun, CatalogRequest
  <2>4. Awaited(e)
    BY NoRequestType DEF Awaited, CatalogRequest
  <2> HIDE DEF e
  <2>5. Begins(r)
    BY <1>0, <2>1, <2>2, <2>4 DEF Begins, Kinds
  <2> QED BY <1>0, <1>3, <2>1, <2>2, <2>3, <2>5, BeginLocals, StoreUnchanged DEF DeleteTemplate
<1>4. CASE CreateTrigger(r)
  BY <1>4, SaveBegun DEF CreateTrigger, Kinds
<1>5. CASE EditTrigger(r)
  BY <1>5, SaveBegun DEF EditTrigger, Kinds
<1>6. CASE DeleteTrigger(r)
  <2>1. PICK t \in Triggers :
            /\ Begin(r, "dropTrigger", {t}, NoRequest)
            /\ trigger' = [trigger EXCEPT ![t].row = "gone"]
            /\ UNCHANGED <<project, mission, metadata, file, template, runs>>
    BY <1>6 DEF DeleteTrigger
  <2>2. {t} \in SUBSET On
    BY DEF On
  <2> DEFINE row == [trigger[t] EXCEPT !.row = "gone"]
  <2>3. row \in TriggerRow
    BY RowTypes DEF TriggerRow, Presence
  <2>4. trigger' = [trigger EXCEPT ![t] = row]
    BY <2>1
  <2> HIDE DEF row
  <2>5. trigger' \in [Triggers -> TriggerRow]
    BY <2>3, <2>4 DEF StoreOK, CatalogStoreTypeOK
  <2> QED BY <2>1, <2>2, <2>5, BeginAnswered, AnsweredBegins, TriggerSet DEF Kinds
<1>7. CASE CallWebhook(r)
  <2>1. PICK t \in Triggers :
            Begin(r, "webhook", {t}, [NoRequest EXCEPT !.pc = "dispatch", !.trigger = t,
                                                      !.row = Joined(trigger[t])])
    BY <1>7 DEF CallWebhook
  <2> DEFINE row == Joined(trigger[t])
             e == [NoRequest EXCEPT !.pc = "dispatch", !.trigger = t, !.row = row]
  <2>2. Begin(r, "webhook", {t}, e)
    BY <2>1
  <2>3. row \in TriggerRow
    BY RowTypes, JoinedType
  <2> HIDE DEF row
  <2>4. e \in CatalogRequest
    BY <2>3, NoRequestType DEF CatalogRequest, CatalogPc
  <2>5. \A no \in Nat : Told(Begun(e, "webhook", {t}, no))
    BY <2>3, NoRequestType DEF Told, Begun, CatalogRequest
  <2>6. Awaited(e)
    BY <2>3, NoRequestType DEF Awaited, CatalogRequest
  <2> HIDE DEF e
  <2>7. {t} \in SUBSET On
    BY DEF On
  <2>8. Begins(r)
    BY <2>2, <2>4, <2>6, <2>7 DEF Begins, Kinds
  <2> QED BY <1>7, <2>2, <2>4, <2>5, <2>7, <2>8, BeginLocals, StoreUnchanged DEF CallWebhook
<1> QED BY <1>1, <1>2, <1>3, <1>4, <1>5, <1>6, <1>7 DEF TriggerReceive

LEMMA TriggerContinueOK ==
    ASSUME StoreOK, RequestsOK, NEW r \in Requests, TriggerContinue(r)
    PROVE  StoreOK' /\ RequestsOK'
<1>0. req[r] \in CatalogRequest /\ Told(req[r])
  BY RequestType
<1>1. CASE SaveVersion(r)
  <2>1. template' = [template EXCEPT ![req[r].version] = IF @ = "none" THEN "active" ELSE @]
    BY <1>1 DEF SaveVersion
  <2>2. template' \in [Versions -> {"none", "active", "archived"}]
    BY <2>1 DEF StoreOK, CatalogStoreTypeOK
  <2> QED BY <1>1, <2>2, TemplateSet, AnswerLocals DEF SaveVersion
<1>2. CASE CountExecutions(r)
  <2>1. \A pc \in {"archive", "erase"} : Told([req[r] EXCEPT !.pc = pc]) /\ pc \in CatalogPc
    BY <1>0, <1>2 DEF Told, CatalogRequest, CatalogPc, CountExecutions, At
  <2>2. Goto(r, "archive") \/ Goto(r, "erase")
    BY <1>2 DEF CountExecutions
  <2> QED BY <1>2, <2>1, <2>2, GotoLocals, StoreUnchanged DEF CountExecutions
<1>3. CASE ArchiveTemplate(r)
  <2>1. template' \in [Versions -> {"none", "active", "archived"}]
    BY <1>3 DEF ArchiveTemplate
  <2> QED BY <1>3, <2>1, TemplateSet, AnswerLocals DEF ArchiveTemplate
<1>4. CASE EraseTemplate(r)
  <2>1. template' \in [Versions -> {"none", "active", "archived"}]
    BY <1>4 DEF EraseTemplate, StoreOK, CatalogStoreTypeOK
  <2> QED BY <1>4, <2>1, TemplateSet, AnswerLocals DEF EraseTemplate
<1>5. CASE SaveTrigger(r)
  <2>1. req[r].trigger \in Triggers /\ req[r].row \in TriggerRow
    BY <1>0, <1>5 DEF Told, SaveTrigger, At, CatalogRequest
  <2>2. trigger' = trigger \/ trigger' = [trigger EXCEPT ![req[r].trigger] = req[r].row]
    BY <1>5 DEF SaveTrigger, PutTrigger
  <2>3. trigger' \in [Triggers -> TriggerRow]
    BY <2>1, <2>2 DEF StoreOK, CatalogStoreTypeOK
  <2> QED BY <1>5, <2>3, TriggerSet, AnswerLocals DEF SaveTrigger
<1>6. CASE CheckWebhook(r)
  <2>1. UNCHANGED catalogStoreVars /\ UNCHANGED History
    BY <1>6 DEF CheckWebhook
  <2>2. CASE MayDispatch(req[r].trigger, req[r].row) /\ Goto(r, "fire")
    <3>1. req[r].row.mission \in Missions
      BY <1>0, <2>2 DEF MayDispatch, CatalogRequest, TriggerRow
    <3>2. Told([req[r] EXCEPT !.pc = "fire"]) /\ "fire" \in CatalogPc
      BY <1>0, <1>6, <3>1 DEF Told, CatalogRequest, CatalogPc, CheckWebhook, At
    <3> QED BY <2>1, <2>2, <3>2, GotoLocals, StoreUnchanged
  <2>3. CASE Answer(r)
    BY <2>1, <2>3, AnswerLocals, StoreUnchanged
  <2> QED BY <1>6, <2>2, <2>3 DEF CheckWebhook
<1>7. CASE FireWebhook(r)
  <2>1. /\ req[r].trigger \in Triggers /\ req[r].row \in TriggerRow
        /\ req[r].row.mission \in Missions /\ req[r].no \in Nat
    BY <1>0, <1>7 DEF Told, FireWebhook, At, CatalogRequest
  <2>2. runs' \subseteq Run /\ IsFiniteSet(runs')
    BY <1>7, <2>1, SaveRunType DEF FireWebhook, StoreOK, CatalogStoreTypeOK
  <2> QED BY <1>7, <2>2, RunsSet, AnswerLocals DEF FireWebhook
<1> QED BY <1>1, <1>2, <1>3, <1>4, <1>5, <1>6, <1>7 DEF TriggerContinue

-----------------------------------------------------------------------------
(* The queue of triggers.                                                  *)

\* The trigger that is being dispatched has a mission, and is still to be done.
Handled(row) ==
    /\ row.now # None => row.now \in row.todo /\ row.saw[row.now].mission \in Missions
    /\ row.st # "active" => row.now = None

QueueOK == TriggerQueueTypeOK /\ \A j \in JobIds : Handled(job[j])

LEMMA NoJobType == NoJob \in TriggerJob /\ Handled(NoJob) /\ NoJob.rerun = 0
<1>1. [t \in Triggers |-> NoTrigger] \in [Triggers -> TriggerRow]
  BY NoTriggerType
<1> QED BY <1>1 DEF NoJob, TriggerJob, Handled

LEMMA JobSet ==
    ASSUME QueueOK, NEW j, NEW row, j \in JobIds => row \in TriggerJob /\ Handled(row), SetJob(j, row),
           UNCHANGED clock
    PROVE  QueueOK'
<1>1. job \in [JobIds -> TriggerJob] /\ clock \in 0..MaxClock
  BY DEF QueueOK, TriggerQueueTypeOK
<1>2. job' \in [JobIds -> TriggerJob]
  BY <1>1 DEF SetJob
<1>3. ASSUME NEW i \in JobIds PROVE Handled(job'[i])
  <2>1. CASE i = j
    <3>1. job'[i] = row
      BY <1>1, <2>1 DEF SetJob
    <3> QED BY <2>1, <3>1
  <2>2. CASE i # j
    <3>1. job'[i] = job[i]
      BY <1>1, <2>2 DEF SetJob
    <3> QED BY <3>1 DEF QueueOK
  <2> QED BY <2>1, <2>2
<1> QED BY <1>1, <1>2, <1>3 DEF QueueOK, TriggerQueueTypeOK, Handled

LEMMA JobType ==
    ASSUME QueueOK, NEW j \in JobIds
    PROVE  job[j] \in TriggerJob /\ Handled(job[j])
  BY DEF QueueOK, TriggerQueueTypeOK

LEMMA JobIdType == \A j \in JobIds : j[2] \in Nat
  BY DEF JobIds

LEMMA OccasionType ==
    ASSUME QueueOK, NEW j \in JobIds, NEW o \in OccasionOf(j)
    PROVE  o[1] \in {"date", "event", "call"} /\ o[2] \in Nat
<1>1. job[j].at \in Nat
  BY JobType DEF TriggerJob
<1>2. \A d \in DueDates(job[j].at) : d \in Nat
  BY TriggerQueueAssumption DEF DueDates
<1> QED BY <1>1, <1>2 DEF OccasionOf

\* Triggers as a job reads them.
LEMMA SawType ==
    ASSUME StoreOK
    PROVE  [t \in Triggers |-> Joined(trigger[t])] \in [Triggers -> TriggerRow]
  BY RowTypes, JoinedType

LEMMA QueueStepOK ==
    ASSUME StoreOK, RequestsOK, QueueOK, QueueStep,
           UNCHANGED <<project, mission, metadata, file, template, trigger, catalogRequestVars>>
    PROVE  StoreOK' /\ QueueOK'
<1> DEFINE saw == [t \in Triggers |-> Joined(trigger[t])]
<1>0. saw \in [Triggers -> TriggerRow]
  BY SawType
<1> HIDE DEF saw
<1>a. clock \in Nat
  BY DEF QueueOK, TriggerQueueTypeOK
<1>1. CASE Tick /\ UNCHANGED runs
  <2>1. clock' \in 0..MaxClock
    BY <1>1, TriggerQueueAssumption DEF Tick, QueueOK, TriggerQueueTypeOK
  <2>2. QueueOK'
    BY <1>1, <2>1 DEF Tick, QueueOK, TriggerQueueTypeOK, Handled
  <2> QED BY <1>1, <2>2, StoreUnchanged DEF catalogStoreVars
<1>2. CASE AddCronCheck /\ UNCHANGED runs
  <2> DEFINE j == <<"cronCheck", Minute(clock)>>
             row == [job[j] EXCEPT !.st = "waiting", !.at = clock]
  <2>1. SetJob(j, row) /\ UNCHANGED clock
    BY <1>2 DEF AddCronCheck
  <2>2. ASSUME j \in JobIds PROVE row \in TriggerJob /\ Handled(row)
    <3>1. job[j] \in TriggerJob /\ Handled(job[j]) /\ job[j].st = "none"
      BY <1>2, <2>2, JobType DEF AddCronCheck
    <3> QED BY <3>1, <1>a DEF TriggerJob, Handled
  <2> HIDE DEF row, j
  <2>3. QueueOK'
    BY <2>1, <2>2, JobSet
  <2> QED BY <1>2, <2>3, StoreUnchanged DEF catalogStoreVars
<1>3. CASE LoadEvent /\ UNCHANGED runs
  <2>1. PICK e \in events :
            /\ Waiting(e)
            /\ SetJob(<<"fileEvent", e.no>>, [job[<<"fileEvent", e.no>>] EXCEPT
                   !.st = "active", !.at = e.no, !.saw = [t \in Triggers |-> Joined(trigger[t])],
                   !.todo = IF LiveFile(e.file) /\ LiveMission(file[e.file].mission)
                            THEN Matching(e) ELSE {}])
            /\ UNCHANGED clock
    BY <1>3 DEF LoadEvent
  <2> DEFINE j == <<"fileEvent", e.no>>
             todo == IF LiveFile(e.file) /\ LiveMission(file[e.file].mission) THEN Matching(e) ELSE {}
             row == [job[j] EXCEPT !.st = "active", !.at = e.no, !.saw = saw, !.todo = todo]
  <2>2. SetJob(j, row)
    BY <2>1 DEF saw
  <2>3. todo \in SUBSET Triggers
    BY DEF Matching
  <2>4. e.no \in Nat
    BY DEF RequestsOK, CatalogRequestsTypeOK, FileEvent
  <2> HIDE DEF todo
  <2>5. ASSUME j \in JobIds PROVE row \in TriggerJob /\ Handled(row)
    <3>1. job[j] \in TriggerJob /\ Handled(job[j]) /\ job[j].st # "active"
      BY <2>1, <2>5, JobType DEF Waiting
    <3> QED BY <3>1, <2>3, <2>4, <1>0 DEF TriggerJob, Handled
  <2> HIDE DEF row, j
  <2>6. QueueOK'
    BY <2>1, <2>2, <2>5, JobSet
  <2> QED BY <1>3, <2>6, StoreUnchanged DEF catalogStoreVars
<1>4. CASE LoadCheck /\ UNCHANGED runs
  <2>1. PICK j \in JobIds :
            /\ job[j].st = "waiting"
            /\ SetJob(j, [job[j] EXCEPT
                   !.st = "active", !.saw = [t \in Triggers |-> Joined(trigger[t])],
                   !.todo = IF DueDates(job[j].at) = {} THEN {}
                            ELSE {t \in Triggers : LiveTrigger(t) /\ trigger[t].type = "TIME"}])
            /\ UNCHANGED clock
    BY <1>4 DEF LoadCheck
  <2> DEFINE todo == IF DueDates(job[j].at) = {} THEN {}
                     ELSE {t \in Triggers : LiveTrigger(t) /\ trigger[t].type = "TIME"}
             row == [job[j] EXCEPT !.st = "active", !.saw = saw, !.todo = todo]
  <2>2. SetJob(j, row)
    BY <2>1 DEF saw
  <2>3. todo \in SUBSET Triggers
    OBVIOUS
  <2> HIDE DEF todo
  <2>4. job[j] \in TriggerJob /\ Handled(job[j]) /\ job[j].st # "active"
    BY <2>1, JobType
  <2>5. row \in TriggerJob /\ Handled(row)
    BY <2>3, <2>4, <1>0 DEF TriggerJob, Handled
  <2> HIDE DEF row
  <2>6. QueueOK'
    BY <2>1, <2>2, <2>5, JobSet
  <2> QED BY <1>4, <2>6, StoreUnchanged DEF catalogStoreVars
<1>5. ASSUME NEW j \in JobIds, FinishJob(j), UNCHANGED runs
      PROVE  StoreOK' /\ QueueOK'
  <2> DEFINE row == [NoJob EXCEPT !.st = "done", !.at = job[j].at]
  <2>1. SetJob(j, row) /\ UNCHANGED clock
    BY <1>5 DEF FinishJob
  <2>2. job[j].at \in Nat
    BY JobType DEF TriggerJob
  <2>3. NoJob.now = None
    BY DEF NoJob
  <2>4. row \in TriggerJob /\ Handled(row)
    BY <2>2, <2>3, NoJobType DEF TriggerJob, Handled
  <2> HIDE DEF row
  <2>5. QueueOK'
    BY <2>1, <2>4, JobSet
  <2> QED BY <1>5, <2>5, StoreUnchanged DEF catalogStoreVars
<1>6. ASSUME NEW j \in JobIds, ConsumerDies(j), UNCHANGED runs
      PROVE  StoreOK' /\ QueueOK'
  <2> DEFINE st == IF job[j].rerun = 0 THEN "waiting" ELSE "failed"
             row == [NoJob EXCEPT !.st = st, !.at = job[j].at, !.rerun = 1]
  <2>1. SetJob(j, row) /\ UNCHANGED clock
    BY <1>6 DEF ConsumerDies
  <2>2. job[j].at \in Nat
    BY JobType DEF TriggerJob
  <2>3. NoJob.now = None /\ st \in {"waiting", "failed"}
    BY DEF NoJob
  <2> HIDE DEF st
  <2>4. row \in TriggerJob /\ Handled(row)
    <3>1. row \in TriggerJob
      <4> DEFINE again == [NoJob EXCEPT !.rerun = 1]
      <4>1. 1 \in 0..1
        OBVIOUS
      <4>2. again \in TriggerJob
        BY <4>1, NoJobType DEF TriggerJob
      <4>3. row = [again EXCEPT !.st = st, !.at = job[j].at]
        BY NoJobType DEF TriggerJob
      <4> HIDE DEF again, row
      <4> QED BY <2>2, <2>3, <4>2, <4>3 DEF TriggerJob
    <3>2. row.now = None
      BY <2>3, NoJobType DEF TriggerJob
    <3> QED BY <3>1, <3>2 DEF Handled
  <2> HIDE DEF row
  <2>5. QueueOK'
    BY <2>1, <2>4, JobSet
  <2> QED BY <1>6, <2>5, StoreUnchanged DEF catalogStoreVars
<1>7. ASSUME NEW j \in JobIds, NEW t \in Triggers, DispatchTrigger(j, t), UNCHANGED runs
      PROVE  StoreOK' /\ QueueOK'
  <2>1. job[j] \in TriggerJob /\ Handled(job[j]) /\ Active(j) /\ job[j].now = None /\ t \in job[j].todo
    BY <1>7, JobType DEF DispatchTrigger
  <2>2. CASE MayDispatch(t, job[j].saw[t]) /\ SetJob(j, [job[j] EXCEPT !.now = t])
    <3> DEFINE row == [job[j] EXCEPT !.now = t]
    <3>1. job[j].saw[t] \in TriggerRow
      BY <2>1 DEF TriggerJob
    <3>2. job[j].saw[t].mission \in Missions
      BY <2>2, <3>1 DEF MayDispatch, TriggerRow
    <3>3. row \in TriggerJob /\ Handled(row)
      BY <2>1, <3>2 DEF TriggerJob, Handled, Active
    <3>4. SetJob(j, row)
      BY <2>2
    <3> HIDE DEF row
    <3> QED BY <1>7, <3>3, <3>4, JobSet, StoreUnchanged DEF DispatchTrigger, catalogStoreVars
  <2>3. CASE SetJob(j, [job[j] EXCEPT !.todo = @ \ {t}])
    <3> DEFINE row == [job[j] EXCEPT !.todo = @ \ {t}]
    <3>1. row \in TriggerJob
      BY <2>1 DEF TriggerJob
    <3>3. Handled(row)
      BY <2>1, <3>1 DEF TriggerJob, Handled, Active
    <3>2. SetJob(j, row)
      BY <2>3
    <3> HIDE DEF row
    <3> QED BY <1>7, <3>1, <3>2, <3>3, JobSet, StoreUnchanged DEF DispatchTrigger, catalogStoreVars
  <2> QED BY <1>7, <2>2, <2>3 DEF DispatchTrigger
<1>8. ASSUME NEW j \in JobIds, NEW t \in Triggers, FireTrigger(j, t)
      PROVE  StoreOK' /\ QueueOK'
  <2>1. job[j] \in TriggerJob /\ Handled(job[j]) /\ job[j].now = t /\ t # None /\ UNCHANGED clock
    BY <1>8, JobType DEF FireTrigger
  <2>2. PICK o \in OccasionOf(j) : SaveRun(t, job[j].saw[t], o[1], o[2], j[2], job[j].rerun)
    BY <1>8 DEF FireTrigger
  <2>3. /\ job[j].saw[t] \in TriggerRow /\ job[j].saw[t].mission \in Missions
        /\ job[j].rerun \in Nat /\ j[2] \in Nat
    BY <2>1, JobIdType DEF TriggerJob, Handled
  <2>4. runs' \subseteq Run /\ IsFiniteSet(runs')
    BY SMTT(30), <2>2, <2>3, OccasionType, SaveRunType DEF StoreOK, CatalogStoreTypeOK
  <2> DEFINE row == [job[j] EXCEPT !.now = None, !.todo = @ \ {t}]
  <2>5. SetJob(j, row)
    BY <1>8 DEF FireTrigger
  <2>6. row \in TriggerJob /\ Handled(row)
    BY <2>1 DEF TriggerJob, Handled
  <2> HIDE DEF row
  <2>7. QueueOK'
    BY <2>1, <2>5, <2>6, JobSet
  <2> QED BY <2>4, <2>7, RunsSet
<1> QED BY <1>1, <1>2, <1>3, <1>4, <1>5, <1>6, <1>7, <1>8 DEF QueueStep

-----------------------------------------------------------------------------
(* Nothing is left behind.                                                 *)

\* Requests that were in progress at the same time have been noted.
ClashNoted ==
    \A r, s \in Requests : \A x \in req[r].on \cap req[s].on :
        r # s => [kinds |-> {req[r].kind, req[s].kind}, on |-> x] \in clashed

HierarchyInv == ClashNoted /\ (\A r \in Requests : Awaited(req[r])) /\ HierarchyIntact

\* A request goes on, or is answered.
LEMMA NotedKept ==
    ASSUME RequestsOK, ClashNoted, NEW r \in Requests, NEW e, req' = [req EXCEPT ![r] = e],
           e.on = {} \/ (e.on = req[r].on /\ e.kind = req[r].kind), clashed \subseteq clashed'
    PROVE  ClashNoted'
<1>1. req \in [Requests -> CatalogRequest]
  BY DEF RequestsOK, CatalogRequestsTypeOK
<1>2. \A q \in Requests : req'[q].on = {} \/ (req'[q].on = req[q].on /\ req'[q].kind = req[q].kind)
  BY <1>1
<1> QED BY <1>2 DEF ClashNoted

LEMMA NotedBegin ==
    ASSUME RequestsOK, ClashNoted, NEW r \in Requests, NEW kind, NEW on, NEW locals \in CatalogRequest,
           Begin(r, kind, on, locals)
    PROVE  ClashNoted'
<1> DEFINE e == IF locals.pc = "idle" THEN NoRequest ELSE Begun(locals, kind, on, served + 1)
<1>1. req \in [Requests -> CatalogRequest]
  BY DEF RequestsOK, CatalogRequestsTypeOK
<1>2. req' = [req EXCEPT ![r] = e]
  BY DEF Begin, Begun
<1>3. e.on = {} \/ (e.on = on /\ e.kind = kind)
  BY NoRequestType DEF Begun, CatalogRequest
<1> HIDE DEF e
<1>4. \A q \in Requests : q # r => req'[q] = req[q]
  BY <1>1, <1>2
<1>5. req'[r] = e
  BY <1>1, <1>2
<1>6. clashed' = clashed \cup UNION {{[kinds |-> {kind, req[s].kind}, on |-> x] :
                                        x \in on \cap req[s].on} : s \in Requests}
  BY DEF Begin
<1>7. ASSUME NEW s \in Requests, NEW x \in on \cap req[s].on
      PROVE  [kinds |-> {kind, req[s].kind}, on |-> x] \in clashed'
  <2> DEFINE Met(q) == {[kinds |-> {kind, req[q].kind}, on |-> y] : y \in on \cap req[q].on}
  <2>1. [kinds |-> {kind, req[s].kind}, on |-> x] \in Met(s)
    BY <1>7
  <2>2. clashed' = clashed \cup UNION {Met(q) : q \in Requests}
    BY <1>6
  <2> HIDE DEF Met
  <2> QED BY <2>1, <2>2
<1>8. ASSUME NEW p \in Requests, NEW s \in Requests, NEW x \in req'[p].on \cap req'[s].on, p # s
      PROVE  [kinds |-> {req'[p].kind, req'[s].kind}, on |-> x] \in clashed'
  <2>1. CASE p = r
    <3>1. on = e.on /\ kind = e.kind /\ x \in on \cap req[s].on
      BY <1>3, <1>4, <1>5, <1>8, <2>1
    <3> QED BY <1>4, <1>5, <1>7, <1>8, <2>1, <3>1
  <2>2. CASE s = r
    <3>1. on = e.on /\ kind = e.kind /\ x \in on \cap req[p].on
      BY <1>3, <1>4, <1>5, <1>8, <2>2
    <3>2. [kinds |-> {kind, req[p].kind}, on |-> x] \in clashed'
      BY <1>7, <3>1
    <3>3. {req'[p].kind, req'[s].kind} = {kind, req[p].kind}
      BY <1>4, <1>5, <1>8, <2>2, <3>1
    <3> QED BY <3>2, <3>3
  <2>3. CASE p # r /\ s # r
    <3>1. [kinds |-> {req[p].kind, req[s].kind}, on |-> x] \in clashed
      BY <1>4, <1>8, <2>3 DEF ClashNoted
    <3> QED BY <1>4, <1>6, <2>3, <3>1
  <2> QED BY <2>1, <2>2, <2>3
<1> QED BY <1>8 DEF ClashNoted

\* Two requests of these kinds in progress excuse what happens.
LEMMA ProjectClash ==
    ASSUME RequestsOK, ClashNoted, NEW r \in Requests, NEW s \in Requests,
           req[r].pc \in {"countMissions", "dropProject"},
           req[s].pc \in {"sameName", "createMission", "moveName", "moveMission"},
           req[r].project = req[s].project
    PROVE  MissionExcused(req[r].project)
<1>1. /\ req[r].kind = "dropProject" /\ req[r].project \in req[r].on \cap req[s].on
      /\ req[s].kind \in {"newMission", "moveMission"} /\ r # s
  BY RequestType DEF Told
<1>2. [kinds |-> {req[r].kind, req[s].kind}, on |-> req[r].project] \in clashed
  BY <1>1 DEF ClashNoted
<1> QED BY <1>1, <1>2 DEF MissionExcused, Overlapped

LEMMA MissionClash ==
    ASSUME RequestsOK, ClashNoted, NEW r \in Requests, NEW s \in Requests,
           req[r].pc = "dropMission", req[s].pc \in {"reserve", "refile"},
           req[r].mission = req[s].mission
    PROVE  FileExcused(req[r].mission)
<1>1. /\ req[r].kind = "dropMission" /\ req[r].mission \in req[r].on \cap req[s].on
      /\ req[s].kind \in {"upload", "moveFile"} /\ r # s
  BY RequestType DEF Told
<1>2. [kinds |-> {req[r].kind, req[s].kind}, on |-> req[r].mission] \in clashed
  BY <1>1 DEF ClashNoted
<1> QED BY <1>1, <1>2 DEF FileExcused, Overlapped

LEMMA ExcusesKept ==
    ASSUME clashed \subseteq clashed'
    PROVE  /\ \A p : MissionExcused(p) => MissionExcused(p)'
           /\ \A m : FileExcused(m) => FileExcused(m)'
  BY DEF MissionExcused, FileExcused, Overlapped

\* Steps of a request that leave missions alone, delete no project and add no file.
LEMMA HierarchyFrame ==
    ASSUME StoreOK, RequestsOK, RequestsOK', HierarchyInv, ClashNoted',
           NEW r \in Requests, NEW e, req' = [req EXCEPT ![r] = e], Awaited(e), e \in CatalogRequest, Told(e),
           \A p \in Projects : project[p].row = "live" => project'[p].row = "live",
           \A f \in Files : file'[f].row = "live" =>
               file[f].row = "live" /\ file'[f].mission = file[f].mission,
           UNCHANGED mission, clashed \subseteq clashed'
    PROVE  HierarchyInv'
<1>1. /\ \A p : MissionExcused(p) => MissionExcused(p)'
      /\ \A m : FileExcused(m) => FileExcused(m)'
  BY ExcusesKept
<1>2. \A q \in Requests : /\ req'[q] \in CatalogRequest /\ Told(req'[q])
                          /\ Awaited(req'[q])
  <2>1. \A q \in Requests : req'[q] = e \/ req'[q] = req[q]
    BY DEF RequestsOK, CatalogRequestsTypeOK
  <2>2. \A q \in Requests : Awaited(req[q]) /\ req[q] \in CatalogRequest /\ Told(req[q])
    BY RequestType DEF HierarchyInv
  <2> QED BY <2>1, <2>2
<1>3. \A q \in Requests : Awaited(req[q])'
  <2> SUFFICES ASSUME NEW q \in Requests PROVE Awaited(req[q])'
    OBVIOUS
  <2>1. Told(req'[q]) /\ Awaited(req'[q])
    BY <1>2
  <2>2. MissionsOf(req'[q].project) = {} => MissionsOf(req[q].project)' = {}
    BY DEF MissionsOf, LiveMission
  <2>3. FilesOf(req'[q].mission) = {} => FilesOf(req[q].mission)' = {}
    BY DEF FilesOf, LiveFile
  <2>4. req'[q].project \in Projects /\ LiveProject(req'[q].project) => LiveProject(req[q].project)'
    BY DEF LiveProject
  <2>5. LiveMission(req'[q].mission) => LiveMission(req[q].mission)'
    BY DEF LiveMission
  <2>6. /\ MissionExcused(req'[q].project) => MissionExcused(req[q].project)'
        /\ FileExcused(req'[q].mission) => FileExcused(req[q].mission)'
    BY <1>1
  <2> QED BY <2>1, <2>2, <2>3, <2>4, <2>5, <2>6 DEF Awaited, Told
<1>4. HierarchyIntact'
  <2>1. HierarchyIntact
    BY DEF HierarchyInv
  <2>2. \A m \in Missions : LiveMission(m) => mission[m].project \in Projects
    BY DEF StoreOK, Placed, LiveMission
  <2>3. \A kinds, x : Overlapped(kinds, x) => Overlapped(kinds, x)'
    BY DEF Overlapped
  <2> QED BY <2>1, <2>2, <2>3 DEF HierarchyIntact, LiveMission, LiveProject, LiveFile
<1> QED BY <1>3, <1>4 DEF HierarchyInv

LEMMA HierarchyReceive ==
    ASSUME StoreOK, RequestsOK, HierarchyInv, NEW r \in Requests,
           CatalogReceive(r) \/ TriggerReceive(r)
    PROVE  HierarchyInv'
<1>1. RequestsOK' /\ Begins(r)
  BY ReceiveOK, TriggerReceiveOK
<1>2. PICK kind \in Kinds, on \in SUBSET On, locals \in CatalogRequest :
          Begin(r, kind, on, locals) /\ Awaited(locals)
  BY <1>1 DEF Begins
<1> DEFINE e == IF locals.pc = "idle" THEN NoRequest ELSE Begun(locals, kind, on, served + 1)
<1>3. req' = [req EXCEPT ![r] = e]
  BY <1>2 DEF Begin, Begun
<1>4. Awaited(e)
  <2>1. CASE locals.pc = "idle"
    BY <2>1, NoRequestType DEF Awaited
  <2>2. CASE locals.pc # "idle"
    <3>1. e.pc = locals.pc /\ e.project = locals.project /\ e.mission = locals.mission
      BY <2>2 DEF Begun, CatalogRequest
    <3> QED BY <1>2, <3>1 DEF Awaited
  <2> QED BY <2>1, <2>2
<1> HIDE DEF e
<1>5. e \in CatalogRequest /\ Told(e)
  <2>1. e = req'[r]
    BY <1>3 DEF RequestsOK, CatalogRequestsTypeOK
  <2> QED BY <1>1, <2>1 DEF RequestsOK, CatalogRequestsTypeOK, Told
<1>6. ClashNoted'
  BY <1>2, NotedBegin DEF HierarchyInv
<1>7. clashed \subseteq clashed'
  BY <1>2 DEF Begin
<1>8. /\ \A p \in Projects : project[p].row = "live" => project'[p].row = "live"
      /\ UNCHANGED mission
  <2>1. CASE UNCHANGED <<project, mission>>
    BY <2>1
  <2>2. CASE CreateProject(r)
    BY <2>2 DEF CreateProject, StoreOK, CatalogStoreTypeOK
  <2> QED BY <2>1, <2>2 DEF CatalogReceive, TriggerReceive, UpdateMetadataTypes, DeleteProject,
      CreateMission, MoveMission, DeleteMission, ReplaceMissionMetadata, UnsetMetadata, Upload,
      ConfirmAgain, MoveFile, DeleteFile, CreateTemplate, CreateVersion, DeleteTemplate,
      CreateTrigger, EditTrigger, DeleteTrigger, CallWebhook, BeginSave, catalogStoreVars
<1>9. \A f \in Files : file'[f].row = "live" =>
          file[f].row = "live" /\ file'[f].mission = file[f].mission
  <2>1. CASE UNCHANGED file
    BY <2>1
  <2>2. CASE DeleteFile(r)
    <3>1. PICK f \in Files : file' = [file EXCEPT ![f].row = "deleted"]
      BY <2>2 DEF DeleteFile
    <3>2. \A x \in Files : file[x] \in [row : Presence, mission : Missions \cup {None}]
      BY RowTypes
    <3>3. \A x \in Files : file'[x] = IF x = f THEN [file[f] EXCEPT !.row = "deleted"] ELSE file[x]
      BY <3>1 DEF StoreOK, CatalogStoreTypeOK
    <3> QED BY <3>2, <3>3
  <2> QED BY <2>1, <2>2 DEF CatalogReceive, TriggerReceive, UpdateMetadataTypes, DeleteProject,
      CreateMission, MoveMission, DeleteMission, ReplaceMissionMetadata, UnsetMetadata, Upload,
      ConfirmAgain, MoveFile, CreateProject, CreateTemplate, CreateVersion, DeleteTemplate,
      CreateTrigger, EditTrigger, DeleteTrigger, CallWebhook, BeginSave, catalogStoreVars
<1> QED BY <1>1, <1>3, <1>4, <1>5, <1>6, <1>7, <1>8, <1>9, HierarchyFrame

\* A request is answered, or goes where it relies on nothing.
Carefree == {"idle", "upsert", "confirm", "moved", "saveVersion", "archive", "erase", "fire"}

LEMMA CarefreeAwaits == \A e : e.pc \in Carefree => Awaited(e)
  BY DEF Carefree, Awaited

\* What a step of a request leaves behind for the others.
LEMMA HierarchyOthers ==
    ASSUME RequestsOK, RequestsOK', ClashNoted, NEW r \in Requests, NEW e, req' = [req EXCEPT ![r] = e],
           e.on = {} \/ (e.on = req[r].on /\ e.kind = req[r].kind),
           e.pc \in Carefree, UNCHANGED clashed,
           \A q \in Requests \ {r} : Awaited(req[q])', HierarchyIntact'
    PROVE  HierarchyInv'
<1>1. ClashNoted'
  BY NotedKept
<1>2. req'[r] = e
  BY DEF RequestsOK, CatalogRequestsTypeOK
<1>3. Awaited(req[r])'
  BY <1>2 DEF Awaited, Carefree
<1> QED BY <1>1, <1>3 DEF HierarchyInv

LEMMA IntactForm ==
    /\ HierarchyIntact <=>
        /\ \A m \in Missions : LiveMission(m) =>
            LiveProject(mission[m].project) \/ MissionExcused(mission[m].project)
        /\ \A f \in Files : LiveFile(f) =>
            LiveMission(file[f].mission) \/ FileExcused(file[f].mission)
    /\ HierarchyIntact' <=>
        /\ \A m \in Missions : mission'[m].row = "live" =>
            project'[mission'[m].project].row = "live" \/ MissionExcused(mission[m].project)'
        /\ \A f \in Files : file'[f].row = "live" =>
            mission'[file'[f].mission].row = "live" \/ FileExcused(file[f].mission)'
  BY DEF HierarchyIntact, MissionExcused, FileExcused, LiveMission, LiveProject, LiveFile

\* The project a request deletes has no missions, or is excused.
LEMMA HierarchyDropProject ==
    ASSUME StoreOK, RequestsOK, RequestsOK', HierarchyInv, NEW r \in Requests, DropProject(r)
    PROVE  HierarchyInv'
<1> DEFINE p == req[r].project
<1>1. /\ p \in Projects /\ req[r].pc = "dropProject"
      /\ MissionsOf(p) = {} \/ MissionExcused(p)
  BY RequestType DEF DropProject, At, Told, HierarchyInv, Awaited
<1>2. /\ req' = [req EXCEPT ![r] = NoRequest] /\ UNCHANGED clashed /\ UNCHANGED <<mission, file>>
      /\ project' = [project EXCEPT ![p].row = "deleted"]
  BY DEF DropProject, Answer, Set, History
<1>3. \A x \in Projects : x # p => project'[x] = project[x]
  BY <1>2 DEF StoreOK, CatalogStoreTypeOK
<1>4. /\ \A x : MissionExcused(x) => MissionExcused(x)'
      /\ \A x : FileExcused(x) => FileExcused(x)'
  BY <1>2, ExcusesKept
<1>5. ASSUME NEW q \in Requests \ {r} PROVE Awaited(req[q])'
  <2>1. req'[q] = req[q] /\ Told(req[q]) /\ Awaited(req[q])
    BY <1>2, RequestType DEF RequestsOK, CatalogRequestsTypeOK, HierarchyInv
  <2>2. CASE req[q].pc \in {"sameName", "createMission", "moveName", "moveMission"}
    <3>1. CASE req[q].project = p
      <4>1. MissionExcused(req[q].project)
        BY <1>1, <2>2, <3>1, ProjectClash DEF HierarchyInv
      <4>2. MissionExcused(req[q].project)'
        BY <1>2, <2>1, <4>1 DEF MissionExcused, Overlapped
      <4> QED BY <2>1, <2>2, <4>2 DEF Awaited
    <3>2. CASE req[q].project # p
      <4>1. req[q].project \in Projects
        BY <2>1, <2>2 DEF Told
      <4>2. LiveProject(req[q].project) => project'[req[q].project].row = "live"
        BY <1>3, <3>2, <4>1 DEF LiveProject
      <4>3. MissionExcused(req[q].project) => MissionExcused(req[q].project)'
        BY <1>4, <2>1 DEF MissionExcused, Overlapped
      <4> QED BY <2>1, <2>2, <4>2, <4>3 DEF Awaited, LiveProject
    <3> QED BY <3>1, <3>2
  <2>3. CASE req[q].pc \notin {"sameName", "createMission", "moveName", "moveMission"}
    <3>1. /\ MissionExcused(req[q].project) => MissionExcused(req[q].project)'
          /\ FileExcused(req[q].mission) => FileExcused(req[q].mission)'
      BY <1>4, <2>1 DEF MissionExcused, FileExcused, Overlapped
    <3> QED BY <1>2, <2>1, <2>3, <3>1 DEF Awaited, MissionsOf, FilesOf, LiveMission, LiveFile
  <2> QED BY <2>2, <2>3
<1>6. HierarchyIntact'
  <2>1. ASSUME NEW m \in Missions, LiveMission(m)
        PROVE  project'[mission[m].project].row = "live" \/ MissionExcused(mission[m].project)
    <3>1. mission[m].project \in Projects
      BY <2>1 DEF StoreOK, Placed, LiveMission
    <3>2. CASE mission[m].project = p
      BY <1>1, <2>1, <3>2 DEF MissionsOf
    <3>3. CASE mission[m].project # p
      BY <1>3, <2>1, <3>1, <3>3, IntactForm DEF HierarchyInv, LiveProject
    <3> QED BY <3>2, <3>3
  <2>2. \A m \in Missions : mission'[m].row = "live" =>
            project'[mission'[m].project].row = "live" \/ MissionExcused(mission[m].project)'
    BY <1>2, <2>1 DEF LiveMission, MissionExcused, Overlapped
  <2>3. \A f \in Files : file'[f].row = "live" =>
            mission'[file'[f].mission].row = "live" \/ FileExcused(file[f].mission)'
    BY <1>2, IntactForm DEF HierarchyInv, LiveFile, LiveMission, FileExcused, Overlapped
  <2> QED BY <2>2, <2>3, IntactForm
<1>7. NoRequest.pc \in Carefree /\ NoRequest.on = {}
  BY NoRequestType DEF Carefree
<1> QED BY <1>2, <1>5, <1>6, <1>7, HierarchyOthers DEF HierarchyInv

\* The mission a request deletes has no files, or is excused.
LEMMA HierarchyDropMission ==
    ASSUME StoreOK, RequestsOK, RequestsOK', HierarchyInv, NEW r \in Requests, SoftRemoveMission(r)
    PROVE  HierarchyInv'
<1> DEFINE m == req[r].mission
<1>1. /\ m \in Missions /\ req[r].pc = "dropMission"
      /\ FilesOf(m) = {} \/ FileExcused(m)
  BY RequestType DEF SoftRemoveMission, At, Told, HierarchyInv, Awaited
<1>2. /\ req' = [req EXCEPT ![r] = NoRequest] /\ UNCHANGED clashed /\ UNCHANGED <<project, file>>
      /\ mission' = [mission EXCEPT ![m].row = "deleted"]
  BY DEF SoftRemoveMission, Answer, Set, History
<1>3. \A x \in Missions : /\ x # m => mission'[x] = mission[x]
                          /\ x = m => mission'[x].row = "deleted"
  BY <1>2, RowTypes DEF StoreOK, CatalogStoreTypeOK
<1>4. ASSUME NEW q \in Requests \ {r} PROVE Awaited(req[q])'
  <2>1. req'[q] = req[q] /\ Told(req[q]) /\ Awaited(req[q])
    BY <1>2, RequestType DEF RequestsOK, CatalogRequestsTypeOK, HierarchyInv
  <2>2. /\ MissionExcused(req[q].project) => MissionExcused(req[q].project)'
        /\ FileExcused(req[q].mission) => FileExcused(req[q].mission)'
    BY <1>2, <2>1 DEF MissionExcused, FileExcused, Overlapped
  <2>3. CASE req[q].pc \in {"reserve", "refile"}
    <3>1. req[q].mission \in Missions
      BY <2>1, <2>3 DEF Told
    <3>2. CASE req[q].mission = m
      <4>1. FileExcused(req[q].mission)
        BY <1>1, <2>3, <3>2, MissionClash DEF HierarchyInv
      <4> QED BY <2>1, <2>2, <2>3, <4>1 DEF Awaited
    <3>3. CASE req[q].mission # m
      <4>1. LiveMission(req[q].mission) => mission'[req[q].mission].row = "live"
        BY <1>3, <3>1, <3>3 DEF LiveMission
      <4> QED BY <2>1, <2>2, <2>3, <4>1 DEF Awaited, LiveMission
    <3> QED BY <3>2, <3>3
  <2>4. CASE req[q].pc \notin {"reserve", "refile"}
    <3>1. MissionsOf(req[q].project) = {} => MissionsOf(req[q].project)' = {}
      BY <1>3, <2>1 DEF MissionsOf, LiveMission
    <3> QED BY <1>2, <2>1, <2>2, <2>4, <3>1 DEF Awaited, FilesOf, LiveFile, LiveProject
  <2> QED BY <2>3, <2>4
<1>5. HierarchyIntact'
  <2>1. ASSUME NEW f \in Files, LiveFile(f)
        PROVE  mission'[file[f].mission].row = "live" \/ FileExcused(file[f].mission)
    <3>1. file[f].mission \in Missions
      BY <2>1 DEF StoreOK, Placed, LiveFile
    <3>2. CASE file[f].mission = m
      BY <1>1, <2>1, <3>2 DEF FilesOf
    <3>3. CASE file[f].mission # m
      BY <1>3, <2>1, <3>1, <3>3, IntactForm DEF HierarchyInv, LiveMission
    <3> QED BY <3>2, <3>3
  <2>2. \A f \in Files : file'[f].row = "live" =>
            mission'[file'[f].mission].row = "live" \/ FileExcused(file[f].mission)'
    BY <1>2, <2>1 DEF LiveFile, FileExcused, Overlapped
  <2>3. \A x \in Missions : mission'[x].row = "live" =>
            project'[mission'[x].project].row = "live" \/ MissionExcused(mission[x].project)'
    <3>1. ASSUME NEW x \in Missions, mission'[x].row = "live"
          PROVE  mission'[x] = mission[x]
      BY <1>3, <3>1
    <3>2. \A x \in Missions : mission[x].row = "live" =>
              project[mission[x].project].row = "live" \/ MissionExcused(mission[x].project)
      BY IntactForm DEF HierarchyInv, LiveMission, LiveProject
    <3>4. ASSUME NEW x \in Missions, mission'[x].row = "live"
          PROVE  project'[mission'[x].project].row = "live" \/ MissionExcused(mission[x].project)'
      <4>1. mission'[x] = mission[x] /\ project' = project
        BY <1>2, <3>1, <3>4
      <4>2. mission[x].row = "live" /\ mission'[x].project = mission[x].project
        BY <3>4, <4>1
      <4>3. project[mission[x].project].row = "live" \/ MissionExcused(mission[x].project)
        BY <3>2, <4>2
      <4>4. CASE project[mission[x].project].row = "live"
        BY <4>1, <4>2, <4>4
      <4>5. CASE MissionExcused(mission[x].project)
        BY SMTT(30), <1>2, <4>1, <4>5 DEF MissionExcused, Overlapped
      <4> QED BY <4>3, <4>4, <4>5
    <3> QED BY <3>4
  <2> QED BY <2>2, <2>3, IntactForm
<1>6. NoRequest.pc \in Carefree /\ NoRequest.on = {}
  BY NoRequestType DEF Carefree
<1> QED BY <1>2, <1>4, <1>5, <1>6, HierarchyOthers DEF HierarchyInv

\* A mission is put into a project: created, or moved there.
LEMMA MissionPlaced ==
    ASSUME StoreOK, RequestsOK, RequestsOK', HierarchyInv, NEW r \in Requests, NEW e,
           req' = [req EXCEPT ![r] = e],
           e.on = {} \/ (e.on = req[r].on /\ e.kind = req[r].kind), e.pc \in Carefree,
           req[r].pc \in {"createMission", "moveMission"}, UNCHANGED <<project, file, clashed>>,
           NEW row, mission' = [mission EXCEPT ![req[r].mission] = row],
           row.project = req[r].project, LiveMission(req[r].mission) => row.row = "live"
    PROVE  HierarchyInv'
<1> DEFINE m == req[r].mission
           p == req[r].project
<1>1. m \in Missions /\ p \in Projects /\ (LiveProject(p) \/ MissionExcused(p))
  BY RequestType DEF Told, HierarchyInv, Awaited
<1>2. \A x \in Missions : mission'[x] = IF x = m THEN row ELSE mission[x]
  BY DEF StoreOK, CatalogStoreTypeOK
<1>3. ASSUME NEW q \in Requests \ {r} PROVE Awaited(req[q])'
  <2>1. req'[q] = req[q] /\ Told(req[q]) /\ Awaited(req[q])
    BY RequestType DEF RequestsOK, CatalogRequestsTypeOK, HierarchyInv
  <2>2. /\ MissionExcused(req[q].project) => MissionExcused(req[q].project)'
        /\ FileExcused(req[q].mission) => FileExcused(req[q].mission)'
    BY <2>1 DEF MissionExcused, FileExcused, Overlapped
  <2>3. req[q].pc \in {"reserve", "refile"} /\ LiveMission(req[q].mission) =>
            mission'[req[q].mission].row = "live"
    BY <1>2, <2>1 DEF Told, LiveMission
  <2>4. CASE req[q].pc = "dropProject"
    <3>1. CASE req[q].project = p
      BY <2>1, <2>2, <2>4, <3>1, ProjectClash DEF HierarchyInv, Awaited
    <3>2. CASE req[q].project # p
      <4>1. \A x \in Missions : mission'[x].row = "live" /\ mission'[x].project = req[q].project =>
                mission'[x] = mission[x]
        BY <1>2, <3>2
      <4>2. MissionsOf(req[q].project) = {} => MissionsOf(req[q].project)' = {}
        BY <2>1, <4>1 DEF MissionsOf, LiveMission
      <4> QED BY <2>1, <2>2, <2>4, <4>2 DEF Awaited
    <3> QED BY <3>1, <3>2
  <2>5. CASE req[q].pc # "dropProject"
    BY <2>1, <2>2, <2>3, <2>5 DEF Awaited, FilesOf, LiveFile, LiveProject, LiveMission
  <2> QED BY <2>4, <2>5
<1>4. HierarchyIntact'
  <2>1. \A x \in Missions : mission'[x].row = "live" =>
            project'[mission'[x].project].row = "live" \/ MissionExcused(mission[x].project)'
    <3>1. ASSUME NEW x \in Missions, mission'[x].row = "live"
          PROVE  project[mission'[x].project].row = "live" \/ MissionExcused(mission'[x].project)
      <4>1. CASE x = m
        BY <1>1, <1>2, <4>1 DEF LiveProject
      <4>2. CASE x # m
        BY <1>2, <3>1, <4>2, IntactForm DEF HierarchyInv, LiveMission, LiveProject
      <4> QED BY <4>1, <4>2
    <3> QED BY <3>1 DEF MissionExcused, Overlapped
  <2>2. \A f \in Files : file'[f].row = "live" =>
            mission'[file'[f].mission].row = "live" \/ FileExcused(file[f].mission)'
    <3>1. ASSUME NEW f \in Files, LiveFile(f)
          PROVE  mission'[file[f].mission].row = "live" \/ FileExcused(file[f].mission)
      <4>1. file[f].mission \in Missions
        BY <3>1 DEF StoreOK, Placed, LiveFile
      <4>2. LiveMission(file[f].mission) => mission'[file[f].mission].row = "live"
        BY <1>2, <4>1 DEF LiveMission
      <4> QED BY <3>1, <4>2, IntactForm DEF HierarchyInv
    <3> QED BY <3>1 DEF LiveFile, FileExcused, Overlapped
  <2> QED BY <2>1, <2>2, IntactForm
<1> QED BY <1>3, <1>4, HierarchyOthers DEF HierarchyInv

\* A file is put into a mission: reserved, or moved there.
LEMMA FilePlaced ==
    ASSUME StoreOK, RequestsOK, RequestsOK', HierarchyInv, NEW r \in Requests, NEW e,
           req' = [req EXCEPT ![r] = e],
           e.on = {} \/ (e.on = req[r].on /\ e.kind = req[r].kind), e.pc \in Carefree,
           req[r].pc \in {"reserve", "refile"}, UNCHANGED <<project, mission, clashed>>,
           NEW row, file' = [file EXCEPT ![req[r].file] = row], row.mission = req[r].mission
    PROVE  HierarchyInv'
<1> DEFINE f == req[r].file
           m == req[r].mission
<1>1. m \in Missions /\ f \in Files /\ (LiveMission(m) \/ FileExcused(m))
  BY RequestType DEF Told, HierarchyInv, Awaited
<1>2. \A x \in Files : file'[x] = IF x = f THEN row ELSE file[x]
  BY DEF StoreOK, CatalogStoreTypeOK
<1>3. ASSUME NEW q \in Requests \ {r} PROVE Awaited(req[q])'
  <2>1. req'[q] = req[q] /\ Told(req[q]) /\ Awaited(req[q])
    BY RequestType DEF RequestsOK, CatalogRequestsTypeOK, HierarchyInv
  <2>2. /\ MissionExcused(req[q].project) => MissionExcused(req[q].project)'
        /\ FileExcused(req[q].mission) => FileExcused(req[q].mission)'
    BY <2>1 DEF MissionExcused, FileExcused, Overlapped
  <2>3. CASE req[q].pc = "dropMission"
    <3>1. CASE req[q].mission = m
      BY <2>1, <2>2, <2>3, <3>1, MissionClash DEF HierarchyInv, Awaited
    <3>2. CASE req[q].mission # m
      <4>1. \A x \in Files : file'[x].row = "live" /\ file'[x].mission = req[q].mission =>
                file'[x] = file[x]
        BY <1>2, <3>2
      <4>2. FilesOf(req[q].mission) = {} => FilesOf(req[q].mission)' = {}
        BY <2>1, <4>1 DEF FilesOf, LiveFile
      <4> QED BY <2>1, <2>2, <2>3, <4>2 DEF Awaited
    <3> QED BY <3>1, <3>2
  <2>4. CASE req[q].pc # "dropMission"
    BY <2>1, <2>2, <2>4 DEF Awaited, MissionsOf, LiveProject, LiveMission
  <2> QED BY <2>3, <2>4
<1>4. HierarchyIntact'
  <2>1. \A x \in Files : file'[x].row = "live" =>
            mission'[file'[x].mission].row = "live" \/ FileExcused(file[x].mission)'
    <3>1. ASSUME NEW x \in Files, file'[x].row = "live"
          PROVE  mission[file'[x].mission].row = "live" \/ FileExcused(file'[x].mission)
      <4>1. CASE x = f
        BY <1>1, <1>2, <4>1 DEF LiveMission
      <4>2. CASE x # f
        BY <1>2, <3>1, <4>2, IntactForm DEF HierarchyInv, LiveMission, LiveFile
      <4> QED BY <4>1, <4>2
    <3> QED BY <3>1 DEF FileExcused, Overlapped
  <2>2. \A x \in Missions : mission'[x].row = "live" =>
            project'[mission'[x].project].row = "live" \/ MissionExcused(mission[x].project)'
    BY IntactForm DEF HierarchyInv, LiveMission, LiveProject, MissionExcused, Overlapped
  <2> QED BY <2>1, <2>2, IntactForm
<1> QED BY <1>3, <1>4, HierarchyOthers DEF HierarchyInv

\* A step that puts nothing anywhere and deletes nothing.
LEMMA HierarchyGoesOn ==
    ASSUME StoreOK, RequestsOK, RequestsOK', HierarchyInv, NEW r \in Requests, NEW e,
           req' = [req EXCEPT ![r] = e], e.on = {} \/ (e.on = req[r].on /\ e.kind = req[r].kind),
           Awaited(e), UNCHANGED <<mission, file, clashed>>,
           \A p \in Projects : project[p].row = "live" => project'[p].row = "live"
    PROVE  HierarchyInv'
<1>1. e = req'[r]
  BY DEF RequestsOK, CatalogRequestsTypeOK
<1>2. e \in CatalogRequest /\ Told(e)
  BY <1>1 DEF RequestsOK, CatalogRequestsTypeOK, Told
<1>3. ClashNoted'
  BY NotedKept DEF HierarchyInv
<1> QED BY <1>2, <1>3, HierarchyFrame

LEMMA HierarchyAnswer ==
    ASSUME StoreOK, RequestsOK, RequestsOK', HierarchyInv, NEW r \in Requests, Answer(r),
           UNCHANGED <<mission, file, clashed>>,
           \A p \in Projects : project[p].row = "live" => project'[p].row = "live"
    PROVE  HierarchyInv'
<1>1. NoRequest.on = {} /\ Awaited(NoRequest)
  BY NoRequestType DEF Awaited
<1> QED BY <1>1, HierarchyGoesOn DEF Answer, Set

LEMMA HierarchyGoto ==
    ASSUME StoreOK, RequestsOK, RequestsOK', HierarchyInv, NEW r \in Requests, NEW pc, Goto(r, pc),
           Awaited([req[r] EXCEPT !.pc = pc]), UNCHANGED <<project, mission, file, clashed>>
    PROVE  HierarchyInv'
<1> DEFINE e == [req[r] EXCEPT !.pc = pc]
<1>1. e.on = req[r].on /\ e.kind = req[r].kind /\ req' = [req EXCEPT ![r] = e] /\ Awaited(e)
  BY RequestType DEF CatalogRequest, Goto, Set
<1> HIDE DEF e
<1> QED BY <1>1, HierarchyGoesOn

LEMMA HierarchyContinue ==
    ASSUME StoreOK, RequestsOK, HierarchyInv, NEW r \in Requests, CatalogContinue(r)
    PROVE  HierarchyInv'
<1>0. RequestsOK' /\ req[r] \in CatalogRequest /\ Awaited(req[r]) /\ Told(req[r])
  BY ContinueOK, RequestType DEF HierarchyInv
<1>1. CASE SaveMetadataTypes(r)
  <2>1. project' = [project EXCEPT ![req[r].project].required = req[r].required]
    BY <1>1 DEF SaveMetadataTypes
  <2>2. \A p \in Projects : project'[p].row = project[p].row
    BY <2>1, RowTypes DEF StoreOK, CatalogStoreTypeOK
  <2> QED BY <1>0, <1>1, <2>2, HierarchyAnswer DEF SaveMetadataTypes, History
<1>2. CASE CountMissions(r)
  <2>1. UNCHANGED <<project, mission, file, clashed>>
    BY <1>2 DEF CountMissions, catalogStoreVars, History
  <2>2. CASE Answer(r)
    BY <1>0, <2>1, <2>2, HierarchyAnswer
  <2>3. CASE MissionsOf(req[r].project) = {} /\ Goto(r, "dropProject")
    <3>1. Awaited([req[r] EXCEPT !.pc = "dropProject"])
      BY <1>0, <2>3 DEF Awaited, CatalogRequest
    <3> QED BY <1>0, <2>1, <2>3, <3>1, HierarchyGoto
  <2> QED BY <1>2, <2>2, <2>3 DEF CountMissions
<1>3. CASE DropProject(r)
  BY <1>0, <1>3, HierarchyDropProject
<1>4. CASE MissionExists(r) \/ MoveExists(r)
  <2>1. UNCHANGED <<project, mission, file, clashed>>
    BY <1>4 DEF MissionExists, MoveExists, catalogStoreVars, History
  <2>2. CASE Answer(r)
    BY <1>0, <2>1, <2>2, HierarchyAnswer
  <2>3. ASSUME NEW pc \in {"createMission", "moveMission"}, Goto(r, pc)
        PROVE  HierarchyInv'
    <3>1. Awaited([req[r] EXCEPT !.pc = pc])
      BY <1>0, <1>4 DEF Awaited, CatalogRequest, MissionExists, MoveExists, At
    <3> QED BY <1>0, <2>1, <2>3, <3>1, HierarchyGoto
  <2> QED BY <1>4, <2>2, <2>3 DEF MissionExists, MoveExists
<1>5. CASE InsertMission(r)
  <2>1. UNCHANGED <<project, file, clashed>> /\ req[r].pc = "createMission"
    BY <1>5 DEF InsertMission, History, At
  <2>2. CASE Answer(r) /\ UNCHANGED mission
    BY <1>0, <2>1, <2>2, HierarchyAnswer
  <2>3. CASE ~NameTaken(req[r].project, req[r].name)
    <3> DEFINE row == [row |-> "live", project |-> req[r].project, name |-> req[r].name]
               todo == [t \in Types |-> IF req[r].given[t] = "absent" THEN "none" ELSE "add"]
               e == [req[r] EXCEPT !.pc = "upsert", !.todo = todo]
    <3>1. mission' = [mission EXCEPT ![req[r].mission] = row] /\ req' = [req EXCEPT ![r] = e]
      BY <1>5, <2>3 DEF InsertMission, Set
    <3> HIDE DEF todo
    <3>2. e.pc \in Carefree /\ e.on = req[r].on /\ e.kind = req[r].kind
      BY <1>0 DEF CatalogRequest, Carefree
    <3>3. row.project = req[r].project /\ row.row = "live"
      OBVIOUS
    <3> HIDE DEF e, row
    <3> QED BY <1>0, <2>1, <3>1, <3>2, <3>3, MissionPlaced
  <2> QED BY <1>5, <2>2, <2>3 DEF InsertMission
<1>6. CASE SetProject(r)
  <2> DEFINE row == [mission[req[r].mission] EXCEPT !.project = req[r].project]
  <2>1. UNCHANGED <<project, file, clashed>> /\ req[r].pc = "moveMission" /\ Answer(r)
    BY <1>6 DEF SetProject, History, At
  <2>2. mission' = mission \/ mission' = [mission EXCEPT ![req[r].mission] = row]
    BY <1>6 DEF SetProject
  <2>3. CASE mission' = mission
    BY <1>0, <2>1, <2>3, HierarchyAnswer
  <2>4. CASE mission' = [mission EXCEPT ![req[r].mission] = row]
    <3>1. req[r].mission \in Missions
      BY <1>0, <2>1 DEF Told
    <3>2. row.project = req[r].project /\ (LiveMission(req[r].mission) => row.row = "live")
      BY <3>1, RowTypes DEF LiveMission
    <3>3. NoRequest.on = {} /\ NoRequest.pc \in Carefree /\ req' = [req EXCEPT ![r] = NoRequest]
      BY <2>1, NoRequestType DEF Carefree, Answer, Set
    <3> HIDE DEF row
    <3> QED BY <1>0, <2>1, <2>4, <3>2, <3>3, MissionPlaced
  <2> QED BY <2>2, <2>3, <2>4
<1>7. CASE SoftRemoveMission(r)
  BY <1>0, <1>7, HierarchyDropMission
<1>8. CASE Upserted(r) \/ DeleteMetadata(r) \/ ConfirmUpload(r) \/ FileMoved(r)
  <2>1. UNCHANGED <<project, mission, file, clashed>> /\ Answer(r)
    BY <1>8 DEF Upserted, DeleteMetadata, ConfirmUpload, FileMoved, catalogStoreVars, History
  <2> QED BY <1>0, <2>1, HierarchyAnswer
<1>9. CASE RemoveMetadata(r)
  <2> DEFINE todo == [t \in Types |-> IF req[r].given[t] # "value" THEN "none"
                                      ELSE IF req[r].seen[t] # {} THEN "update" ELSE "add"]
             e == [req[r] EXCEPT !.pc = "upsert", !.todo = todo]
  <2>1. UNCHANGED <<project, mission, file, clashed>> /\ req' = [req EXCEPT ![r] = e]
    BY <1>9 DEF RemoveMetadata, Set, History
  <2> HIDE DEF todo
  <2>2. Awaited(e) /\ e.on = req[r].on /\ e.kind = req[r].kind
    BY <1>0 DEF Awaited, CatalogRequest
  <2> HIDE DEF e
  <2> QED BY <1>0, <2>1, <2>2, HierarchyGoesOn
<1>10. ASSUME NEW t \in Types,
              FindForAdd(r, t) \/ AddMetadata(r, t) \/ FindForUpdate(r, t) \/ UpdateMetadata(r, t)
       PROVE  HierarchyInv'
  <2>1. UNCHANGED <<project, mission, file, clashed>> /\ req[r].pc = "upsert"
    BY <1>10 DEF FindForAdd, AddMetadata, FindForUpdate, UpdateMetadata, catalogStoreVars, History, At
  <2>2. ASSUME NEW todo, NEW seen, Set(r, [req[r] EXCEPT !.todo = todo, !.seen = seen])
        PROVE  HierarchyInv'
    <3> DEFINE e == [req[r] EXCEPT !.todo = todo, !.seen = seen]
    <3>1. Awaited(e) /\ e.on = req[r].on /\ e.kind = req[r].kind
      BY <1>0, <2>1 DEF Awaited, CatalogRequest
    <3>2. req' = [req EXCEPT ![r] = e]
      BY <2>2 DEF Set
    <3> HIDE DEF e
    <3> QED BY <1>0, <2>1, <3>1, <3>2, HierarchyGoesOn
  <2>3. \E todo, seen : Set(r, [req[r] EXCEPT !.todo = todo, !.seen = seen])
    <3>1. ASSUME NEW what, ToDo(r, t, what)
          PROVE  \E todo, seen : Set(r, [req[r] EXCEPT !.todo = todo, !.seen = seen])
      <4> DEFINE todo == [req[r].todo EXCEPT ![t] = what]
      <4>1. [req[r] EXCEPT !.todo[t] = what] = [req[r] EXCEPT !.todo = todo, !.seen = req[r].seen]
        BY <1>0 DEF CatalogRequest
      <4> HIDE DEF todo
      <4> QED BY <3>1, <4>1 DEF ToDo
    <3>2. ASSUME NEW row, Set(r, [req[r] EXCEPT !.todo[t] = "updating", !.seen[t] = {row}])
          PROVE  \E todo, seen : Set(r, [req[r] EXCEPT !.todo = todo, !.seen = seen])
      <4> DEFINE todo == [req[r].todo EXCEPT ![t] = "updating"]
                 seen == [req[r].seen EXCEPT ![t] = {row}]
      <4>1. [req[r] EXCEPT !.todo[t] = "updating", !.seen[t] = {row}]
                = [req[r] EXCEPT !.todo = todo, !.seen = seen]
        BY <1>0 DEF CatalogRequest
      <4> HIDE DEF todo, seen
      <4> QED BY <3>2, <4>1
    <3> QED BY <1>10, <3>1, <3>2 DEF FindForAdd, AddMetadata, FindForUpdate, UpdateMetadata
  <2> QED BY <2>2, <2>3
<1>11. CASE ReserveFile(r)
  <2> DEFINE row == [row |-> "live", mission |-> req[r].mission]
             e == [req[r] EXCEPT !.pc = "confirm"]
  <2>1. /\ UNCHANGED <<project, mission, clashed>> /\ req[r].pc = "reserve"
        /\ file' = [file EXCEPT ![req[r].file] = row] /\ req' = [req EXCEPT ![r] = e]
    BY <1>11 DEF ReserveFile, Goto, Set, History, At
  <2>2. e.pc \in Carefree /\ e.on = req[r].on /\ e.kind = req[r].kind /\ row.mission = req[r].mission
    BY <1>0 DEF Carefree, CatalogRequest
  <2> HIDE DEF e, row
  <2> QED BY <1>0, <2>1, <2>2, FilePlaced
<1>12. CASE SaveMovedFile(r)
  <2> DEFINE row == [file[req[r].file] EXCEPT !.mission = req[r].mission]
             e == [req[r] EXCEPT !.pc = "moved"]
  <2>1. /\ UNCHANGED <<project, mission, clashed>> /\ req[r].pc = "refile"
        /\ file' = [file EXCEPT ![req[r].file] = row] /\ req' = [req EXCEPT ![r] = e]
    BY <1>12 DEF SaveMovedFile, Goto, Set, History, At
  <2>2. row.mission = req[r].mission
    BY <1>0, <2>1, RowTypes DEF Told
  <2>3. e.pc \in Carefree /\ e.on = req[r].on /\ e.kind = req[r].kind
    BY <1>0 DEF Carefree, CatalogRequest
  <2> HIDE DEF e, row
  <2> QED BY <1>0, <2>1, <2>2, <2>3, FilePlaced
<1> QED BY <1>1, <1>2, <1>3, <1>4, <1>5, <1>6, <1>7, <1>8, <1>9, <1>10, <1>11, <1>12
        DEF CatalogContinue

LEMMA HierarchyTriggers ==
    ASSUME StoreOK, RequestsOK, HierarchyInv, NEW r \in Requests, TriggerContinue(r)
    PROVE  HierarchyInv'
<1>0. RequestsOK' /\ req[r] \in CatalogRequest
  BY TriggerContinueOK, RequestType
<1>1. UNCHANGED <<project, mission, file, clashed>>
  BY DEF TriggerContinue, SaveVersion, CountExecutions, ArchiveTemplate, EraseTemplate, SaveTrigger,
         CheckWebhook, FireWebhook, catalogStoreVars, History
<1>2. CASE Answer(r)
  BY <1>0, <1>1, <1>2, HierarchyAnswer
<1>3. ASSUME NEW pc \in {"archive", "erase", "fire"}, Goto(r, pc)
      PROVE  HierarchyInv'
  <2>1. Awaited([req[r] EXCEPT !.pc = pc])
    BY <1>0 DEF Awaited, CatalogRequest
  <2> QED BY <1>0, <1>1, <1>3, <2>1, HierarchyGoto
<1> QED BY <1>2, <1>3 DEF TriggerContinue, SaveVersion, CountExecutions, ArchiveTemplate,
           EraseTemplate, SaveTrigger, CheckWebhook, FireWebhook

LEMMA HierarchyUnmoved ==
    ASSUME HierarchyInv, UNCHANGED <<project, mission, file, req, clashed>>
    PROVE  HierarchyInv'
  BY DEF HierarchyInv, ClashNoted, Awaited, HierarchyIntact, MissionExcused, FileExcused, Overlapped,
         MissionsOf, FilesOf, LiveProject, LiveMission, LiveFile
-----------------------------------------------------------------------------
(* What a request that replaces metadata has compared.                     *)

\* Where a mission is about to be inserted, or put into a project.
Inserting == {"sameName", "createMission"}
Places == Inserting \cup {"moveName", "moveMission"}

\* The mission a request inserts does not exist before, and no two insert the same.
Unborn ==
    \A r, s \in Requests :
        /\ req[r].pc \in Inserting => mission[req[r].mission].row = "none"
        /\ r # s /\ req[r].pc \in Inserting /\ req[s].pc \in Inserting =>
            req[r].mission # req[s].mission

\* The project of a mission exists, or did.
Housed ==
    /\ \A m \in Missions : LiveMission(m) => project[mission[m].project].row # "none"
    /\ \A r \in Requests : req[r].pc \in Places => project[req[r].project].row # "none"

\* A request that has found its mission is about one that exists, or did; what the
\* project requires by now was required when the request read it, unless somebody
\* has noted the difference.
Compared(e) ==
    /\ e.pc \in {"remove", "dropMission"} => mission[e.mission].row # "none"
    /\ e.pc = "remove" =>
        /\ \A t \in e.required : e.seen[t] # {} => e.given[t] = "value"
        /\ LiveMission(e.mission) =>
            \/ Overlapped({"moveMission", "annotate"}, e.mission)
            \/ /\ mission[e.mission].project \in e.on
               /\ \/ RequiredOf(e.mission) \subseteq e.required
                  \/ Overlapped({"require", "annotate"}, mission[e.mission].project)

KeptInv == Unborn /\ Housed /\ \A r \in Requests : Compared(req[r])

\* A request goes on, or is answered.
Going(e, d) ==
    \/ e.pc = "idle"
    \/ /\ d.pc # "idle" /\ e.kind = d.kind /\ e.pc \notin {"remove", "dropMission"}
       /\ e.pc \in Inserting => d.pc \in Inserting /\ e.mission = d.mission
       /\ e.pc \in Places => d.pc \in Places /\ e.project = d.project

GoesOn(r) == \E e : req' = [req EXCEPT ![r] = e] /\ Going(e, req[r])

LEMMA OnByAnswer ==
    ASSUME NEW r, Answer(r)
    PROVE  GoesOn(r)
  BY NoRequestType DEF GoesOn, Going, Answer, Set

LEMMA OnByGoto ==
    ASSUME RequestsOK, NEW r \in Requests, NEW pc, req[r].pc # "idle", pc \notin {"remove", "dropMission"},
           pc \in Inserting => req[r].pc \in Inserting, pc \in Places => req[r].pc \in Places,
           Goto(r, pc)
    PROVE  GoesOn(r)
<1> DEFINE e == [req[r] EXCEPT !.pc = pc]
<1>1. e.pc = pc /\ e.kind = req[r].kind /\ e.mission = req[r].mission /\ e.project = req[r].project
  BY RequestType DEF CatalogRequest
<1>2. req' = [req EXCEPT ![r] = e]
  BY DEF Goto, Set
<1> HIDE DEF e
<1> QED BY <1>1, <1>2 DEF GoesOn, Going

LEMMA OnByUpsert ==
    ASSUME RequestsOK, NEW r \in Requests, NEW e, req[r].pc # "idle", Set(r, e),
           e.pc = "upsert", e.kind = req[r].kind
    PROVE  GoesOn(r)
  BY DEF GoesOn, Going, Set, Inserting, Places

LEMMA ContinueGoesOn ==
    ASSUME RequestsOK, NEW r \in Requests, CatalogContinue(r) \/ TriggerContinue(r)
    PROVE  GoesOn(r)
<1>0. req[r] \in CatalogRequest
  BY RequestType
<1>1. CASE Answer(r)
  BY <1>1, OnByAnswer
<1>2. CASE \/ CountMissions(r) \/ MissionExists(r) \/ MoveExists(r) \/ ReserveFile(r)
           \/ SaveMovedFile(r) \/ CountExecutions(r) \/ CheckWebhook(r)
  BY <1>1, <1>2, OnByGoto DEF CountMissions, MissionExists, MoveExists, ReserveFile, SaveMovedFile,
     CountExecutions, CheckWebhook, At, Inserting, Places
<1>3. ASSUME NEW todo, NEW seen, req[r].pc # "idle",
             Set(r, [req[r] EXCEPT !.pc = "upsert", !.todo = todo, !.seen = seen])
      PROVE  GoesOn(r)
  <2> DEFINE e == [req[r] EXCEPT !.pc = "upsert", !.todo = todo, !.seen = seen]
  <2>1. e.pc = "upsert" /\ e.kind = req[r].kind
    BY <1>0 DEF CatalogRequest
  <2> HIDE DEF e
  <2> QED BY <1>3, <2>1, OnByUpsert DEF e
<1>4. CASE InsertMission(r) /\ ~Answer(r)
  <2> DEFINE todo == [t \in Types |-> IF req[r].given[t] = "absent" THEN "none" ELSE "add"]
  <2>1. Set(r, [req[r] EXCEPT !.pc = "upsert", !.todo = todo]) /\ req[r].pc # "idle"
    BY <1>4 DEF InsertMission, At
  <2> HIDE DEF todo
  <2>2. [req[r] EXCEPT !.pc = "upsert", !.todo = todo]
            = [req[r] EXCEPT !.pc = "upsert", !.todo = todo, !.seen = req[r].seen]
    BY <1>0 DEF CatalogRequest
  <2> QED BY <1>3, <2>1, <2>2
<1>5. CASE RemoveMetadata(r)
  <2> DEFINE todo == [t \in Types |-> IF req[r].given[t] # "value" THEN "none"
                                      ELSE IF req[r].seen[t] # {} THEN "update" ELSE "add"]
  <2>1. Set(r, [req[r] EXCEPT !.pc = "upsert", !.todo = todo]) /\ req[r].pc # "idle"
    BY <1>5 DEF RemoveMetadata, At
  <2> HIDE DEF todo
  <2>2. [req[r] EXCEPT !.pc = "upsert", !.todo = todo]
            = [req[r] EXCEPT !.pc = "upsert", !.todo = todo, !.seen = req[r].seen]
    BY <1>0 DEF CatalogRequest
  <2> QED BY <1>3, <2>1, <2>2
<1>6. ASSUME NEW t \in Types, NEW what, req[r].pc = "upsert", ToDo(r, t, what)
      PROVE  GoesOn(r)
  <2> DEFINE todo == [req[r].todo EXCEPT ![t] = what]
  <2>1. [req[r] EXCEPT !.todo[t] = what]
            = [req[r] EXCEPT !.pc = "upsert", !.todo = todo, !.seen = req[r].seen]
    BY <1>0, <1>6 DEF CatalogRequest
  <2> HIDE DEF todo
  <2> QED BY <1>3, <1>6, <2>1 DEF ToDo
<1>7. ASSUME NEW t \in Types, NEW row, req[r].pc = "upsert",
             Set(r, [req[r] EXCEPT !.todo[t] = "updating", !.seen[t] = {row}])
      PROVE  GoesOn(r)
  <2> DEFINE todo == [req[r].todo EXCEPT ![t] = "updating"]
             seen == [req[r].seen EXCEPT ![t] = {row}]
  <2>1. [req[r] EXCEPT !.todo[t] = "updating", !.seen[t] = {row}]
            = [req[r] EXCEPT !.pc = "upsert", !.todo = todo, !.seen = seen]
    BY <1>0, <1>7 DEF CatalogRequest
  <2> HIDE DEF todo, seen
  <2> QED BY <1>3, <1>7, <2>1
<1>8. ASSUME NEW t \in Types,
             FindForAdd(r, t) \/ AddMetadata(r, t) \/ FindForUpdate(r, t) \/ UpdateMetadata(r, t)
      PROVE  GoesOn(r)
  BY <1>6, <1>7, <1>8 DEF FindForAdd, AddMetadata, FindForUpdate, UpdateMetadata, At
<1>9. CASE \/ SaveMetadataTypes(r) \/ DropProject(r) \/ SetProject(r) \/ SoftRemoveMission(r)
           \/ Upserted(r) \/ DeleteMetadata(r) \/ ConfirmUpload(r) \/ FileMoved(r) \/ SaveVersion(r)
           \/ ArchiveTemplate(r) \/ EraseTemplate(r) \/ SaveTrigger(r) \/ FireWebhook(r)
  BY <1>1, <1>9 DEF SaveMetadataTypes, DropProject, SetProject, SoftRemoveMission, Upserted,
     DeleteMetadata, ConfirmUpload, FileMoved, SaveVersion, ArchiveTemplate, EraseTemplate,
     SaveTrigger, FireWebhook
<1> QED BY <1>1, <1>2, <1>4, <1>5, <1>8, <1>9 DEF CatalogContinue, TriggerContinue

\* A request that has compared keeps to it while its mission stays where it is,
\* and its project requires no more, or the difference is noted.
LEMMA ComparedStays ==
    ASSUME NEW d, Compared(d), clashed \subseteq clashed',
           d.pc \in {"remove", "dropMission"} =>
               (mission[d.mission].row # "none" => mission'[d.mission].row # "none"),
           d.pc = "remove" =>
               (mission'[d.mission].row = "live" =>
                   /\ mission[d.mission].row = "live"
                   /\ \/ Overlapped({"moveMission", "annotate"}, d.mission)'
                      \/ /\ mission'[d.mission].project = mission[d.mission].project
                         /\ \/ [kinds |-> {"require", "annotate"}, on |-> mission[d.mission].project]
                                   \in clashed'
                            \/ RequiredOf(d.mission)' \subseteq RequiredOf(d.mission))
    PROVE  Compared(d)'
<1>0. d.pc \in {"remove", "dropMission"} => mission'[d.mission].row # "none"
  BY DEF Compared
<1> SUFFICES ASSUME d.pc = "remove" PROVE Compared(d)'
  BY <1>0 DEF Compared
<1> DEFINE m == d.mission
           Met == [kinds |-> {"require", "annotate"}, on |-> mission[m].project] \in clashed'
<1>1. \A t \in d.required : d.seen[t] # {} => d.given[t] = "value"
  BY DEF Compared
<1>2. ASSUME mission'[m].row = "live", ~Overlapped({"moveMission", "annotate"}, m)'
      PROVE  /\ mission'[m].project \in d.on
             /\ RequiredOf(m)' \subseteq d.required
                \/ [kinds |-> {"require", "annotate"}, on |-> mission'[m].project] \in clashed'
  <2>1. LiveMission(m) /\ ~Overlapped({"moveMission", "annotate"}, m)
    BY <1>2 DEF LiveMission, Overlapped
  <2>2. /\ mission[m].project \in d.on
        /\ RequiredOf(m) \subseteq d.required \/ Met
    BY <2>1 DEF Compared, Overlapped
  <2>3. mission'[m].project = mission[m].project /\ (Met \/ RequiredOf(m)' \subseteq RequiredOf(m))
    BY <1>2
  <2> QED BY <2>2, <2>3
<1> QED BY <1>0, <1>1, <1>2 DEF Compared, LiveMission, Overlapped

\* Projects that have lived are not created again, and require what they did.
Steady ==
    /\ clashed \subseteq clashed'
    /\ \A p \in Projects : project[p].row # "none" =>
        /\ project'[p].row # "none"
        /\ project'[p].row = "live" => project'[p] = project[p]

LEMMA ComparedInSteady ==
    ASSUME StoreOK, Housed, NEW d, d.pc = "remove" => d.mission \in Missions, Compared(d),
           Steady, UNCHANGED mission
    PROVE  Compared(d)'
<1> SUFFICES ASSUME d.pc = "remove", mission[d.mission].row = "live"
             PROVE  RequiredOf(d.mission)' \subseteq RequiredOf(d.mission)
  BY ComparedStays DEF Steady
<1> DEFINE p == mission[d.mission].project
<1>1. p \in Projects /\ project[p].row # "none"
  BY DEF StoreOK, Placed, Housed, LiveMission
<1>2. project'[p].row = "live" => project'[p] = project[p]
  BY <1>1 DEF Steady
<1>3. mission'[d.mission].project = p
  OBVIOUS
<1> QED BY <1>2, <1>3 DEF RequiredOf, LiveProject

\* What a request leaves behind for the others.
LEMMA KeptByRequest ==
    ASSUME RequestsOK, KeptInv, NEW r \in Requests, NEW e, req' = [req EXCEPT ![r] = e],
           e.pc \in Inserting =>
               /\ mission'[e.mission].row = "none"
               /\ \A s \in Requests \ {r} : req[s].pc \in Inserting => req[s].mission # e.mission,
           e.pc \in Places => project'[e.project].row # "none",
           Compared(e)',
           \A s \in Requests \ {r} : req[s].pc \in Inserting => mission'[req[s].mission].row = "none",
           \A s \in Requests \ {r} : req[s].pc \in Places => project'[req[s].project].row # "none",
           \A m \in Missions : mission'[m].row = "live" => project'[mission'[m].project].row # "none",
           \A s \in Requests \ {r} : Compared(req[s])'
    PROVE  KeptInv'
<1>1. req'[r] = e /\ \A s \in Requests \ {r} : req'[s] = req[s]
  BY DEF RequestsOK, CatalogRequestsTypeOK
<1>2. Unborn'
  BY <1>1 DEF KeptInv, Unborn
<1>3. Housed'
  BY <1>1 DEF Housed, LiveMission
<1>4. Compared(req[r])'
  <2>1. Compared(e)'
    OBVIOUS
  <2> QED BY <1>1, <2>1 DEF Compared
<1> QED BY <1>2, <1>3, <1>4 DEF KeptInv

\* The mission of a request that compares is one.
LEMMA ComparedMission ==
    ASSUME RequestsOK
    PROVE  \A s \in Requests : req[s].pc \in {"remove", "dropMission"} => req[s].mission \in Missions
  BY RequestType DEF Told

\* A step that touches no mission, nor what a project requires.
LEMMA KeptInSteady ==
    ASSUME StoreOK, RequestsOK, KeptInv, NEW r \in Requests, NEW e, req' = [req EXCEPT ![r] = e],
           e.pc \in Inserting =>
               /\ mission[e.mission].row = "none"
               /\ \A s \in Requests \ {r} : req[s].pc \in Inserting => req[s].mission # e.mission,
           e.pc \in Places => e.project \in Projects /\ project[e.project].row # "none",
           e.pc = "remove" => e.mission \in Missions, Compared(e),
           Steady, UNCHANGED mission
    PROVE  KeptInv'
<1>1. Unborn /\ Housed
  BY DEF KeptInv
<1>2. Compared(e)'
  BY <1>1, ComparedInSteady
<1>3. ASSUME NEW s \in Requests \ {r} PROVE Compared(req[s])'
  <2>1. PICK d : d = req[s]
    OBVIOUS
  <2>2. d = req'[s]
    BY <1>3, <2>1 DEF RequestsOK, CatalogRequestsTypeOK
  <2>3. Compared(d) /\ (d.pc = "remove" => d.mission \in Missions)
    BY <2>1, ComparedMission DEF KeptInv
  <2>4. Compared(d)'
    BY <1>1, <2>3, ComparedInSteady
  <2> QED BY <2>2, <2>4 DEF Compared
<1>4. \A s \in Requests : req[s].pc \in Places => req[s].project \in Projects
  BY RequestType DEF Told, Places, Inserting
<1>5. \A s \in Requests : req[s].pc \in Places => project'[req[s].project].row # "none"
  BY <1>1, <1>4 DEF Housed, Steady
<1>6. \A m \in Missions : mission'[m].row = "live" => project'[mission'[m].project].row # "none"
  BY <1>1 DEF Housed, LiveMission, Steady, StoreOK, Placed
<1>7. \A s \in Requests : req[s].pc \in Inserting => mission'[req[s].mission].row = "none"
  BY <1>1 DEF Unborn
<1>8. e.pc \in Places => project'[e.project].row # "none"
  BY DEF Steady
<1>9. e.pc \in Inserting => mission'[e.mission].row = "none"
  OBVIOUS
<1> QED BY <1>2, <1>3, <1>5, <1>6, <1>7, <1>8, <1>9, KeptByRequest

\* What a request is received with.
Founded(e) ==
    /\ e.pc \in Inserting =>
        /\ mission[e.mission].row = "none"
        /\ \A s \in Requests : req[s].kind = "newMission" => req[s].mission # e.mission
    /\ e.pc \in Places => e.project \in Projects /\ LiveProject(e.project)
    /\ e.pc = "remove" => e.mission \in Missions
    /\ Compared(e)

BeginsFounded(r) == \E e : req' = [req EXCEPT ![r] = e] /\ Founded(e)

LEMMA FoundedBegins ==
    ASSUME NEW r, NEW kind, NEW on, NEW locals \in CatalogRequest, locals.pc # "idle",
           \A no : Founded(Begun(locals, kind, on, no)), Begin(r, kind, on, locals)
    PROVE  BeginsFounded(r)
  BY DEF Begin, Begun, BeginsFounded

LEMMA AnswerBegins ==
    ASSUME NEW r, NEW kind, NEW on, Begin(r, kind, on, NoRequest)
    PROVE  BeginsFounded(r)
<1>1. Founded(NoRequest)
  BY NoRequestType DEF Founded, Compared, Inserting, Places
<1> QED BY <1>1, NoRequestType DEF Begin, BeginsFounded

LEMMA PlainBegins ==
    ASSUME NEW r, NEW kind, NEW on, NEW locals \in CatalogRequest, Begin(r, kind, on, locals),
           locals.pc \notin Places \cup {"remove", "dropMission", "idle"}
    PROVE  BeginsFounded(r)
<1>1. ASSUME NEW no PROVE Founded(Begun(locals, kind, on, no))
  <2>1. Begun(locals, kind, on, no).pc = locals.pc
    BY DEF Begun, CatalogRequest
  <2> QED BY <2>1 DEF Founded, Compared, Inserting, Places
<1> QED BY <1>1, FoundedBegins

LEMMA CreateBegins ==
    ASSUME StoreOK, NEW r, CreateMission(r)
    PROVE  BeginsFounded(r)
<1>1. PICK p \in Projects, m \in Missions, n \in Names, given \in Payload, ignore \in BOOLEAN :
        /\ LiveProject(p) /\ mission[m].row = "none"
        /\ \A s \in Requests : req[s].kind = "newMission" => req[s].mission # m
        /\ Begin(r, "newMission", {p, m},
                 [NoRequest EXCEPT !.pc = "sameName", !.project = p, !.mission = m, !.name = n,
                                   !.given = given, !.ignore = ignore,
                                   !.required = project[p].required])
  BY DEF CreateMission
<1> DEFINE required == project[p].required
<1>2. required \in SUBSET Types
  BY RowTypes
<1> HIDE DEF required
<1> DEFINE e == [NoRequest EXCEPT !.pc = "sameName", !.project = p, !.mission = m, !.name = n,
                                  !.given = given, !.ignore = ignore, !.required = required]
<1>3. Begin(r, "newMission", {p, m}, e)
  BY <1>1 DEF required
<1>4. /\ e \in CatalogRequest /\ e.pc = "sameName"
      /\ \A kind, on, no : LET b == Begun(e, kind, on, no) IN
             b.pc = "sameName" /\ b.project = p /\ b.mission = m
  BY <1>2, NoRequestType DEF CatalogRequest, CatalogPc, Begun
<1> HIDE DEF e
<1>5. \A kind, on, no : Founded(Begun(e, kind, on, no))
  BY <1>1, <1>4 DEF Founded, Compared
<1> QED BY <1>3, <1>4, <1>5, FoundedBegins

LEMMA MoveBegins ==
    ASSUME StoreOK, NEW r, MoveMission(r)
    PROVE  BeginsFounded(r)
<1>1. PICK m \in Missions, p \in Projects :
        /\ LiveMission(m) /\ LiveProject(p)
        /\ Begin(r, "moveMission", {m, p}, [NoRequest EXCEPT !.pc = "moveName", !.project = p,
                                            !.mission = m, !.name = mission[m].name])
  BY DEF MoveMission
<1> DEFINE n == mission[m].name
<1>2. n \in Names \cup {None}
  BY RowTypes
<1> HIDE DEF n
<1> DEFINE e == [NoRequest EXCEPT !.pc = "moveName", !.project = p, !.mission = m, !.name = n]
<1>3. Begin(r, "moveMission", {m, p}, e)
  BY <1>1 DEF n
<1>4. /\ e \in CatalogRequest /\ e.pc = "moveName"
      /\ \A kind, on, no : LET b == Begun(e, kind, on, no) IN
             b.pc = "moveName" /\ b.project = p
  BY <1>2, NoRequestType DEF CatalogRequest, CatalogPc, Begun
<1> HIDE DEF e
<1>5. \A kind, on, no : Founded(Begun(e, kind, on, no))
  BY <1>1, <1>4 DEF Founded, Compared, Inserting
<1> QED BY <1>3, <1>4, <1>5, FoundedBegins

LEMMA ReplaceBegins ==
    ASSUME StoreOK, NEW r, ReplaceMissionMetadata(r)
    PROVE  BeginsFounded(r)
<1>1. PICK m \in Missions, given \in Payload :
        /\ LiveMission(m)
        /\ \A t \in RequiredOf(m) : metadata[m][t] # {} => given[t] = "value"
        /\ Begin(r, "annotate", {m, mission[m].project},
                 [NoRequest EXCEPT !.pc = "remove", !.mission = m, !.given = given,
                                   !.seen = metadata[m], !.required = RequiredOf(m)])
  BY DEF ReplaceMissionMetadata
<1> DEFINE required == RequiredOf(m)
           seen == metadata[m]
           on == {m, mission[m].project}
<1>2. required \in SUBSET Types /\ seen \in [Types -> SUBSET Nat]
  BY <1>1, RowTypes DEF RequiredOf, LiveMission, StoreOK, Placed
<1>3. \A t \in required : seen[t] # {} => given[t] = "value"
  BY <1>1
<1> HIDE DEF required, seen
<1> DEFINE e == [NoRequest EXCEPT !.pc = "remove", !.mission = m, !.given = given, !.seen = seen,
                                  !.required = required]
<1>4. Begin(r, "annotate", on, e)
  BY <1>1 DEF required, seen
<1>5. /\ e \in CatalogRequest /\ e.pc = "remove"
      /\ \A no : LET b == Begun(e, "annotate", on, no) IN
             /\ b.pc = "remove" /\ b.mission = m /\ b.given = given /\ b.seen = seen
             /\ b.required = required /\ b.on = on
  BY <1>2, NoRequestType DEF CatalogRequest, CatalogPc, Begun
<1> HIDE DEF e
<1>6. RequiredOf(m) \subseteq required /\ mission[m].project \in on /\ mission[m].row # "none"
  BY <1>1 DEF required, LiveMission
<1> HIDE DEF on
<1>7. ASSUME NEW no PROVE Founded(Begun(e, "annotate", on, no))
  <2>1. Compared(Begun(e, "annotate", on, no))
    BY <1>3, <1>5, <1>6 DEF Compared
  <2> QED BY <1>5, <2>1 DEF Founded, Inserting, Places
<1> QED BY <1>4, <1>5, <1>7, FoundedBegins

LEMMA ReceiveFounded ==
    ASSUME StoreOK, NEW r \in Requests, CatalogReceive(r) \/ TriggerReceive(r)
    PROVE  BeginsFounded(r)
<1>1. CASE CreateMission(r) \/ MoveMission(r) \/ ReplaceMissionMetadata(r)
  BY <1>1, CreateBegins, MoveBegins, ReplaceBegins
<1>2. CASE CreateProject(r) \/ DeleteFile(r) \/ CreateTemplate(r) \/ DeleteTrigger(r)
  BY <1>2, AnswerBegins DEF CreateProject, DeleteFile, CreateTemplate, DeleteTrigger
<1>3. CASE UpdateMetadataTypes(r)
  <2>1. PICK p \in Projects, required \in SUBSET Types :
            Begin(r, "require", {p},
                  [NoRequest EXCEPT !.pc = "require", !.project = p, !.required = required])
    BY <1>3 DEF UpdateMetadataTypes
  <2> DEFINE e == [NoRequest EXCEPT !.pc = "require", !.project = p, !.required = required]
  <2>2. e \in CatalogRequest /\ e.pc = "require"
    BY NoRequestType DEF CatalogRequest, CatalogPc
  <2> HIDE DEF e
  <2> QED BY <2>1, <2>2, PlainBegins DEF e, Places, Inserting
<1>4. CASE DeleteProject(r)
  <2>1. PICK p \in Projects :
            Begin(r, "dropProject", {p}, [NoRequest EXCEPT !.pc = "countMissions", !.project = p])
    BY <1>4 DEF DeleteProject
  <2> DEFINE e == [NoRequest EXCEPT !.pc = "countMissions", !.project = p]
  <2>2. e \in CatalogRequest /\ e.pc = "countMissions"
    BY NoRequestType DEF CatalogRequest, CatalogPc
  <2> HIDE DEF e
  <2> QED BY <2>1, <2>2, PlainBegins DEF e, Places, Inserting
<1>5. CASE DeleteMission(r)
  <2>1. PICK m \in Missions :
            /\ LiveMission(m)
            /\ Begin(r, "dropMission", {m}, IF FilesOf(m) # {} THEN NoRequest
                     ELSE [NoRequest EXCEPT !.pc = "dropMission", !.mission = m])
    BY <1>5 DEF DeleteMission
  <2>2. CASE FilesOf(m) # {}
    BY <2>1, <2>2, AnswerBegins
  <2>3. CASE FilesOf(m) = {}
    <3> DEFINE e == [NoRequest EXCEPT !.pc = "dropMission", !.mission = m]
    <3>1. /\ e \in CatalogRequest /\ e.pc = "dropMission"
          /\ \A on, no : LET b == Begun(e, "dropMission", on, no) IN
                 b.pc = "dropMission" /\ b.mission = m
      BY NoRequestType DEF CatalogRequest, CatalogPc, Begun
    <3>2. Begin(r, "dropMission", {m}, e)
      BY <2>1, <2>3
    <3> HIDE DEF e
    <3>3. \A on, no : Founded(Begun(e, "dropMission", on, no))
      BY <2>1, <3>1 DEF Founded, Compared, LiveMission, Inserting, Places
    <3> QED BY <3>1, <3>2, <3>3, FoundedBegins
  <2> QED BY <2>2, <2>3
<1>6. CASE UnsetMetadata(r)
  <2>1. PICK m \in Missions, t \in Types : \E row \in metadata[m][t] :
            Begin(r, "unset", {m}, [NoRequest EXCEPT !.pc = "unset", !.mission = m,
                                    !.seen = [NoRequest.seen EXCEPT ![t] = {row}]])
    BY <1>6 DEF UnsetMetadata
  <2>2. PICK row \in metadata[m][t] :
            Begin(r, "unset", {m}, [NoRequest EXCEPT !.pc = "unset", !.mission = m,
                                    !.seen = [NoRequest.seen EXCEPT ![t] = {row}]])
    BY <2>1
  <2> DEFINE seen == [NoRequest.seen EXCEPT ![t] = {row}]
  <2>3. seen \in [Types -> SUBSET Nat]
    BY NoRequestType, RowTypes DEF CatalogRequest
  <2> HIDE DEF seen
  <2> DEFINE e == [NoRequest EXCEPT !.pc = "unset", !.mission = m, !.seen = seen]
  <2>4. e \in CatalogRequest /\ e.pc = "unset"
    BY <2>3, NoRequestType DEF CatalogRequest, CatalogPc
  <2>5. Begin(r, "unset", {m}, e)
    BY <2>2 DEF seen
  <2> HIDE DEF e
  <2> QED BY <2>4, <2>5, PlainBegins DEF Places, Inserting
<1>7. CASE Upload(r)
  <2>1. PICK f \in Files, m \in Missions :
            Begin(r, "upload", {m}, [NoRequest EXCEPT !.pc = "reserve", !.mission = m, !.file = f])
    BY <1>7 DEF Upload
  <2> DEFINE e == [NoRequest EXCEPT !.pc = "reserve", !.mission = m, !.file = f]
  <2>2. e \in CatalogRequest /\ e.pc = "reserve"
    BY NoRequestType DEF CatalogRequest, CatalogPc
  <2> HIDE DEF e
  <2> QED BY <2>1, <2>2, PlainBegins DEF e, Places, Inserting
<1>8. CASE ConfirmAgain(r)
  <2>1. PICK f \in Files : Begin(r, "confirm", {}, [NoRequest EXCEPT !.pc = "confirm", !.file = f])
    BY <1>8 DEF ConfirmAgain
  <2> DEFINE e == [NoRequest EXCEPT !.pc = "confirm", !.file = f]
  <2>2. e \in CatalogRequest /\ e.pc = "confirm"
    BY NoRequestType DEF CatalogRequest, CatalogPc
  <2> HIDE DEF e
  <2> QED BY <2>1, <2>2, PlainBegins DEF e, Places, Inserting
<1>9. CASE MoveFile(r)
  <2>1. PICK f \in Files, m \in Missions :
            Begin(r, "moveFile", {m}, [NoRequest EXCEPT !.pc = "refile", !.mission = m, !.file = f])
    BY <1>9 DEF MoveFile
  <2> DEFINE e == [NoRequest EXCEPT !.pc = "refile", !.mission = m, !.file = f]
  <2>2. e \in CatalogRequest /\ e.pc = "refile"
    BY NoRequestType DEF CatalogRequest, CatalogPc
  <2> HIDE DEF e
  <2> QED BY <2>1, <2>2, PlainBegins DEF e, Places, Inserting
<1>10. CASE CreateVersion(r)
  <2> DEFINE e == [NoRequest EXCEPT !.pc = "saveVersion", !.version = NextVersion]
  <2>1. NextVersion \in Versions /\ Begin(r, "newVersion", {}, e)
    BY <1>10 DEF CreateVersion
  <2>2. e \in CatalogRequest /\ e.pc = "saveVersion"
    BY <2>1, NoRequestType DEF CatalogRequest, CatalogPc
  <2> HIDE DEF e
  <2> QED BY <2>1, <2>2, PlainBegins DEF Places, Inserting
<1>11. CASE DeleteTemplate(r)
  <2> DEFINE e == [NoRequest EXCEPT !.pc = "count"]
  <2>1. Begin(r, "dropTemplate", {}, e)
    BY <1>11 DEF DeleteTemplate
  <2>2. e \in CatalogRequest /\ e.pc = "count"
    BY NoRequestType DEF CatalogRequest, CatalogPc
  <2> HIDE DEF e
  <2> QED BY <2>1, <2>2, PlainBegins DEF Places, Inserting
<1>12. ASSUME NEW kind, NEW t \in Triggers, BeginSave(r, kind, t)
       PROVE  BeginsFounded(r)
  <2>1. PICK c \in TriggerConfigs, m \in Missions, v \in TemplateVersions :
            Begin(r, kind, {t}, [NoRequest EXCEPT !.pc = "saveTrigger", !.trigger = t,
                                                 !.row = TriggerRowOf(c, m, v)])
    BY <1>12 DEF BeginSave
  <2> DEFINE row == TriggerRowOf(c, m, v)
  <2>2. row \in TriggerRow
    BY TriggerRequestsAssumption DEF TriggerRowOf, TriggerRow, TemplateVersions, Presence
  <2> HIDE DEF row
  <2> DEFINE e == [NoRequest EXCEPT !.pc = "saveTrigger", !.trigger = t, !.row = row]
  <2>3. e \in CatalogRequest /\ e.pc = "saveTrigger"
    BY <2>2, NoRequestType DEF CatalogRequest, CatalogPc
  <2>4. Begin(r, kind, {t}, e)
    BY <2>1 DEF row
  <2> HIDE DEF e
  <2> QED BY <2>3, <2>4, PlainBegins DEF Places, Inserting
<1>13. CASE CreateTrigger(r) \/ EditTrigger(r)
  BY <1>12, <1>13 DEF CreateTrigger, EditTrigger
<1>14. CASE CallWebhook(r)
  <2>1. PICK t \in Triggers :
            Begin(r, "webhook", {t}, [NoRequest EXCEPT !.pc = "dispatch", !.trigger = t,
                                                       !.row = Joined(trigger[t])])
    BY <1>14 DEF CallWebhook
  <2> DEFINE row == Joined(trigger[t])
  <2>2. row \in TriggerRow
    BY RowTypes, JoinedType
  <2> HIDE DEF row
  <2> DEFINE e == [NoRequest EXCEPT !.pc = "dispatch", !.trigger = t, !.row = row]
  <2>3. e \in CatalogRequest /\ e.pc = "dispatch"
    BY <2>2, NoRequestType DEF CatalogRequest, CatalogPc
  <2>4. Begin(r, "webhook", {t}, e)
    BY <2>1 DEF row
  <2> HIDE DEF e
  <2> QED BY <2>3, <2>4, PlainBegins DEF Places, Inserting
<1> QED BY <1>1, <1>2, <1>3, <1>4, <1>5, <1>6, <1>7, <1>8, <1>9, <1>10, <1>11, <1>13, <1>14
        DEF CatalogReceive, TriggerReceive

LEMMA KeptReceive ==
    ASSUME StoreOK, RequestsOK, KeptInv, NEW r \in Requests, CatalogReceive(r) \/ TriggerReceive(r)
    PROVE  KeptInv'
<1>1. PICK e : req' = [req EXCEPT ![r] = e] /\ Founded(e)
  BY ReceiveFounded DEF BeginsFounded
<1>2. UNCHANGED mission /\ Steady
  <2>0. UNCHANGED mission
    BY DEF CatalogReceive, TriggerReceive, CreateProject, UpdateMetadataTypes, DeleteProject,
      CreateMission, MoveMission, DeleteMission, ReplaceMissionMetadata, UnsetMetadata, Upload,
      ConfirmAgain, MoveFile, DeleteFile, CreateTemplate, CreateVersion, DeleteTemplate,
      CreateTrigger, EditTrigger, DeleteTrigger, CallWebhook, BeginSave, catalogStoreVars
  <2>1. UNCHANGED mission /\ clashed \subseteq clashed'
    BY <2>0, ReceiveOK, TriggerReceiveOK DEF Begins, Begin
  <2>2. CASE UNCHANGED project
    BY <2>1, <2>2 DEF Steady
  <2>3. CASE CreateProject(r)
    BY <2>1, <2>3 DEF CreateProject, StoreOK, CatalogStoreTypeOK, Steady
  <2> QED BY <2>1, <2>2, <2>3 DEF CatalogReceive, TriggerReceive, UpdateMetadataTypes, DeleteProject,
      CreateMission, MoveMission, DeleteMission, ReplaceMissionMetadata, UnsetMetadata, Upload,
      ConfirmAgain, MoveFile, DeleteFile, CreateTemplate, CreateVersion, DeleteTemplate,
      CreateTrigger, EditTrigger, DeleteTrigger, CallWebhook, BeginSave, catalogStoreVars
<1>3. \A s \in Requests : req[s].pc \in Inserting => req[s].kind = "newMission"
  BY RequestType DEF Told, Inserting
<1>4. e.pc \in Inserting => \A s \in Requests \ {r} : req[s].pc \in Inserting => req[s].mission # e.mission
  BY <1>1, <1>3 DEF Founded
<1>5. e.pc \in Places => e.project \in Projects /\ project[e.project].row # "none"
  BY <1>1 DEF Founded, LiveProject
<1> QED BY <1>1, <1>2, <1>4, <1>5, KeptInSteady DEF Founded

\* The steps of a request that is in progress.
LEMMA KeptGoing ==
    ASSUME StoreOK, RequestsOK, KeptInv, NEW r \in Requests, GoesOn(r), Steady, UNCHANGED mission
    PROVE  KeptInv'
<1>1. PICK e : req' = [req EXCEPT ![r] = e] /\ Going(e, req[r])
  BY DEF GoesOn
<1>2. e.pc # "remove" /\ Compared(e)
  BY <1>1, NoRequestType DEF Going, Compared
<1>3. e.pc \in Inserting =>
        /\ mission[e.mission].row = "none"
        /\ \A s \in Requests \ {r} : req[s].pc \in Inserting => req[s].mission # e.mission
  BY <1>1 DEF Going, KeptInv, Unborn, Inserting
<1>4. e.pc \in Places => e.project \in Projects /\ project[e.project].row # "none"
  BY <1>1, RequestType DEF Going, KeptInv, Housed, Told, Inserting, Places
<1> QED BY <1>1, <1>2, <1>3, <1>4, KeptInSteady

LEMMA NoRequestKept == NoRequest.pc = "idle" /\ Compared(NoRequest)'
  BY NoRequestType DEF Compared

\* The project requires something else: who compares with it is noted.
LEMMA KeptRequire ==
    ASSUME StoreOK, RequestsOK, ClashNoted, KeptInv, NEW r \in Requests, SaveMetadataTypes(r)
    PROVE  KeptInv'
<1> DEFINE p == req[r].project
<1>1. /\ project' = [project EXCEPT ![p].required = req[r].required]
      /\ req' = [req EXCEPT ![r] = NoRequest] /\ UNCHANGED <<mission, clashed>>
  BY DEF SaveMetadataTypes, Answer, Set, History
<1>2. p \in Projects /\ p \in req[r].on /\ req[r].kind = "require"
  BY RequestType DEF SaveMetadataTypes, At, Told
<1>3. \A x \in Projects : project'[x].row = project[x].row /\ (x # p => project'[x] = project[x])
  BY <1>1, <1>2, RowTypes DEF StoreOK, CatalogStoreTypeOK
<1>4. ASSUME NEW s \in Requests \ {r} PROVE Compared(req[s])'
  <2>1. PICK d : d = req[s]
    OBVIOUS
  <2>2. d = req'[s]
    BY <1>1, <1>4, <2>1 DEF RequestsOK, CatalogRequestsTypeOK
  <2>3. Compared(d) /\ (d.pc = "remove" => d.kind = "annotate")
    BY <2>1, RequestType DEF KeptInv, Told
  <2>4. ASSUME d.pc = "remove", mission[d.mission].row = "live",
               ~Overlapped({"moveMission", "annotate"}, d.mission)
        PROVE  \/ [kinds |-> {"require", "annotate"}, on |-> mission[d.mission].project] \in clashed'
               \/ RequiredOf(d.mission)' \subseteq RequiredOf(d.mission)
    <3>1. mission[d.mission].project \in d.on /\ mission[d.mission].project \in Projects
      BY <2>1, <2>3, <2>4, ComparedMission DEF Compared, LiveMission, StoreOK, Placed
    <3>2. CASE mission[d.mission].project = p
      <4>1. [kinds |-> {req[r].kind, req[s].kind}, on |-> p] \in clashed
        BY <1>2, <1>4, <2>1, <3>1, <3>2 DEF ClashNoted
      <4> QED BY <1>1, <1>2, <2>1, <2>3, <2>4, <3>2, <4>1
    <3>3. CASE mission[d.mission].project # p
      <4>1. project'[mission[d.mission].project] = project[mission[d.mission].project]
        BY <1>3, <3>1, <3>3
      <4>2. mission' = mission
        BY <1>1
      <4> QED BY <4>1, <4>2 DEF RequiredOf, LiveProject
    <3> QED BY <3>2, <3>3
  <2>5. Compared(d)'
    BY <1>1, <2>3, <2>4, ComparedStays DEF Overlapped
  <2> QED BY <2>2, <2>5 DEF Compared
<1>5. \A s \in Requests : req[s].pc \in Inserting => mission'[req[s].mission].row = "none"
  BY <1>1 DEF KeptInv, Unborn
<1>6. \A s \in Requests : req[s].pc \in Places => req[s].project \in Projects
  BY RequestType DEF Told, Places, Inserting
<1>7. \A s \in Requests : req[s].pc \in Places => project'[req[s].project].row # "none"
  BY <1>3, <1>6 DEF KeptInv, Housed
<1>8. \A m \in Missions : mission'[m].row = "live" => project'[mission'[m].project].row # "none"
  BY <1>1, <1>3 DEF KeptInv, Housed, LiveMission, StoreOK, Placed
<1> QED BY <1>1, <1>4, <1>5, <1>7, <1>8, NoRequestKept, KeptByRequest DEF Inserting, Places

\* A mission is inserted that nobody has compared with.
LEMMA KeptInsert ==
    ASSUME StoreOK, RequestsOK, KeptInv, NEW r \in Requests, InsertMission(r)
    PROVE  KeptInv'
<1> DEFINE m == req[r].mission
           row == [row |-> "live", project |-> req[r].project, name |-> req[r].name]
<1>0. GoesOn(r) /\ UNCHANGED <<project, clashed>> /\ req[r].pc = "createMission"
  BY ContinueGoesOn DEF CatalogContinue, InsertMission, History, At
<1>1. CASE UNCHANGED mission
  BY <1>0, <1>1, KeptGoing DEF Steady
<1>2. CASE mission' = [mission EXCEPT ![m] = row]
  <2>1. PICK e : req' = [req EXCEPT ![r] = e] /\ e.pc = "upsert"
    <3> DEFINE todo == [t \in Types |-> IF req[r].given[t] = "absent" THEN "none" ELSE "add"]
               e == [req[r] EXCEPT !.pc = "upsert", !.todo = todo]
    <3>1. CASE Answer(r) /\ UNCHANGED mission
      <4>1. m \in Missions /\ mission[m].row = "none"
        BY <1>0, RequestType DEF Told, KeptInv, Unborn, Inserting
      <4>2. mission'[m] = row /\ row.row = "live"
        BY <1>2, <4>1 DEF StoreOK, CatalogStoreTypeOK
      <4> QED BY <3>1, <4>1, <4>2
    <3>2. CASE req' = [req EXCEPT ![r] = e]
      <4>1. e.pc = "upsert"
        BY RequestType DEF CatalogRequest
      <4> HIDE DEF e
      <4> QED BY <3>2, <4>1
    <3> QED BY <3>1, <3>2 DEF InsertMission, Set
  <2>2. m \in Missions /\ req[r].project \in Projects /\ mission[m].row = "none"
        /\ project[req[r].project].row # "none"
    BY <1>0, RequestType DEF Told, KeptInv, Unborn, Housed, Inserting, Places
  <2>3. \A x \in Missions : mission'[x] = IF x = m THEN row ELSE mission[x]
    BY <1>2, <2>2 DEF StoreOK, CatalogStoreTypeOK
  <2>4. row.row = "live" /\ row.project = req[r].project
    OBVIOUS
  <2> HIDE DEF row
  <2>5. ASSUME NEW s \in Requests \ {r} PROVE Compared(req[s])'
    <3>1. PICK d : d = req[s]
      OBVIOUS
    <3>2. d = req'[s]
      BY <2>1, <2>5, <3>1 DEF RequestsOK, CatalogRequestsTypeOK
    <3>3. Compared(d) /\ (d.pc \in {"remove", "dropMission"} => d.mission \in Missions)
      BY <3>1, ComparedMission DEF KeptInv
    <3>4. d.pc \in {"remove", "dropMission"} => mission'[d.mission] = mission[d.mission]
      BY <2>2, <2>3, <3>3 DEF Compared
    <3>5. d.pc = "remove" => RequiredOf(d.mission)' = RequiredOf(d.mission)
      BY <1>0, <3>4 DEF RequiredOf, LiveProject
    <3>6. Compared(d)'
      BY <1>0, <3>3, <3>4, <3>5, ComparedStays
    <3> QED BY <3>2, <3>6 DEF Compared
  <2>6. \A s \in Requests \ {r} : req[s].pc \in Inserting => mission'[req[s].mission].row = "none"
    BY <1>0, <2>3, RequestType DEF KeptInv, Unborn, Told, Inserting
  <2>7. \A s \in Requests : req[s].pc \in Places => project'[req[s].project].row # "none"
    BY <1>0 DEF KeptInv, Housed
  <2>8. \A x \in Missions : mission'[x].row = "live" => project'[mission'[x].project].row # "none"
    BY <1>0, <2>2, <2>3, <2>4 DEF KeptInv, Housed, LiveMission
  <2>9. e.pc \notin Places /\ e.pc \notin Inserting /\ Compared(e)'
    BY <2>1 DEF Places, Inserting, Compared
  <2> QED BY <2>1, <2>5, <2>6, <2>7, <2>8, <2>9, KeptByRequest
<1> QED BY <1>1, <1>2 DEF InsertMission

\* A mission is put into another project: who compares with it is noted.
LEMMA KeptMove ==
    ASSUME StoreOK, RequestsOK, ClashNoted, KeptInv, NEW r \in Requests, SetProject(r)
    PROVE  KeptInv'
<1> DEFINE m == req[r].mission
           row == [mission[m] EXCEPT !.project = req[r].project]
<1>0. /\ GoesOn(r) /\ UNCHANGED <<project, clashed>> /\ req[r].pc = "moveMission"
      /\ req' = [req EXCEPT ![r] = NoRequest]
  BY ContinueGoesOn DEF CatalogContinue, SetProject, History, At, Answer, Set
<1>1. CASE UNCHANGED mission
  BY <1>0, <1>1, KeptGoing DEF Steady
<1>2. CASE mission' = [mission EXCEPT ![m] = row]
  <2>1. /\ m \in Missions /\ m \in req[r].on /\ req[r].kind = "moveMission"
        /\ req[r].project \in Projects /\ project[req[r].project].row # "none"
    BY <1>0, RequestType DEF Told, KeptInv, Housed, Places
  <2>2. row.row = mission[m].row /\ row.project = req[r].project
    BY <2>1, RowTypes
  <2>3. \A x \in Missions : mission'[x] = IF x = m THEN row ELSE mission[x]
    BY <1>2, <2>1 DEF StoreOK, CatalogStoreTypeOK
  <2> HIDE DEF row
  <2>4. ASSUME NEW s \in Requests \ {r} PROVE Compared(req[s])'
    <3>1. PICK d : d = req[s]
      OBVIOUS
    <3>2. d = req'[s]
      BY <1>0, <2>4, <3>1 DEF RequestsOK, CatalogRequestsTypeOK
    <3>3. /\ Compared(d) /\ (d.pc \in {"remove", "dropMission"} => d.mission \in Missions)
          /\ d.pc = "remove" => d.mission \in d.on /\ d.kind = "annotate"
      BY <3>1, ComparedMission, RequestType DEF KeptInv, Told
    <3>4. CASE d.pc = "remove" /\ d.mission = m
      <4>1. [kinds |-> {req[r].kind, req[s].kind}, on |-> m] \in clashed
        BY <2>1, <2>4, <3>1, <3>3, <3>4 DEF ClashNoted
      <4>2. Overlapped({"moveMission", "annotate"}, d.mission)'
        BY <1>0, <2>1, <3>1, <3>3, <3>4, <4>1 DEF Overlapped
      <4>3. Compared(d)'
        BY <1>0, <2>1, <2>2, <2>3, <3>3, <3>4, <4>2, ComparedStays
      <4> QED BY <3>2, <4>3 DEF Compared
    <3>5. CASE ~(d.pc = "remove" /\ d.mission = m)
      <4>0. d.pc \in {"remove", "dropMission"} => mission'[d.mission].row = mission[d.mission].row
        BY <2>2, <2>3, <3>3
      <4>1. d.pc = "remove" => mission'[d.mission] = mission[d.mission]
        BY <2>3, <3>3, <3>5
      <4>2. d.pc = "remove" => RequiredOf(d.mission)' = RequiredOf(d.mission)
        BY <1>0, <4>1 DEF RequiredOf, LiveProject
      <4>3. Compared(d)'
        BY <1>0, <3>3, <4>0, <4>1, <4>2, ComparedStays
      <4> QED BY <3>2, <4>3 DEF Compared
    <3> QED BY <3>4, <3>5
  <2>5. \A s \in Requests : req[s].pc \in Inserting => mission'[req[s].mission].row = "none"
    BY <2>2, <2>3, RequestType DEF KeptInv, Unborn, Told, Inserting
  <2>6. \A s \in Requests : req[s].pc \in Places => project'[req[s].project].row # "none"
    BY <1>0 DEF KeptInv, Housed
  <2>7. \A x \in Missions : mission'[x].row = "live" => project'[mission'[x].project].row # "none"
    BY <1>0, <2>1, <2>2, <2>3 DEF KeptInv, Housed, LiveMission
  <2> QED BY <1>0, <2>4, <2>5, <2>6, <2>7, NoRequestKept, KeptByRequest DEF Inserting, Places
<1> QED BY <1>1, <1>2 DEF SetProject

LEMMA KeptDropMission ==
    ASSUME StoreOK, RequestsOK, KeptInv, NEW r \in Requests, SoftRemoveMission(r)
    PROVE  KeptInv'
<1> DEFINE m == req[r].mission
           row == [mission[m] EXCEPT !.row = "deleted"]
<1>0. /\ UNCHANGED <<project, clashed>> /\ mission' = [mission EXCEPT ![m] = row]
      /\ req' = [req EXCEPT ![r] = NoRequest]
  BY DEF SoftRemoveMission, History, Answer, Set
<1>1. m \in Missions
  BY RequestType DEF SoftRemoveMission, At, Told
<1>2. row.row = "deleted"
  BY <1>1, RowTypes
<1>3. \A x \in Missions : mission'[x] = IF x = m THEN row ELSE mission[x]
  BY <1>0, <1>1 DEF StoreOK, CatalogStoreTypeOK
<1> HIDE DEF row
<1>4. ASSUME NEW s \in Requests \ {r} PROVE Compared(req[s])'
  <2>1. PICK d : d = req[s]
    OBVIOUS
  <2>2. d = req'[s]
    BY <1>0, <1>4, <2>1 DEF RequestsOK, CatalogRequestsTypeOK
  <2>3. Compared(d) /\ (d.pc \in {"remove", "dropMission"} => d.mission \in Missions)
    BY <2>1, ComparedMission DEF KeptInv
  <2>4. d.pc = "remove" /\ mission'[d.mission].row = "live" => mission'[d.mission] = mission[d.mission]
    BY <1>2, <1>3, <2>3
  <2>5. d.pc = "remove" /\ mission'[d.mission].row = "live" =>
            RequiredOf(d.mission)' = RequiredOf(d.mission)
    BY <1>0, <2>4 DEF RequiredOf, LiveProject
  <2>6. d.pc \in {"remove", "dropMission"} => mission'[d.mission].row # "none"
    BY <1>2, <1>3, <2>3 DEF Compared
  <2>7. Compared(d)'
    BY <1>0, <2>3, <2>4, <2>5, <2>6, ComparedStays
  <2> QED BY <2>2, <2>7 DEF Compared
<1>5. \A s \in Requests : req[s].pc \in Places => project'[req[s].project].row # "none"
  BY <1>0 DEF KeptInv, Housed
<1>6. \A x \in Missions : mission'[x].row = "live" => project'[mission'[x].project].row # "none"
  BY <1>0, <1>2, <1>3 DEF KeptInv, Housed, LiveMission
<1>7. \A s \in Requests : req[s].pc \in Inserting => mission'[req[s].mission].row = "none"
  <2>1. \A s \in Requests : req[s].pc \in Inserting => req[s].mission # m /\ req[s].mission \in Missions
    <3>1. mission[m].row # "none"
      BY DEF KeptInv, Compared, SoftRemoveMission, At
    <3> QED BY <3>1, RequestType DEF KeptInv, Unborn, Told, Inserting
  <2> QED BY <1>3, <2>1 DEF KeptInv, Unborn
<1> QED BY <1>0, <1>4, <1>5, <1>6, <1>7, NoRequestKept, KeptByRequest DEF Inserting, Places

LEMMA KeptContinue ==
    ASSUME StoreOK, RequestsOK, ClashNoted, KeptInv, NEW r \in Requests,
           CatalogContinue(r) \/ TriggerContinue(r)
    PROVE  KeptInv'
<1>0. GoesOn(r)
  BY ContinueGoesOn
<1>1. CASE SaveMetadataTypes(r)
  BY <1>1, KeptRequire
<1>2. CASE InsertMission(r)
  BY <1>2, KeptInsert
<1>3. CASE SetProject(r)
  BY <1>3, KeptMove
<1>4. CASE SoftRemoveMission(r)
  BY <1>4, KeptDropMission
<1>5. CASE DropProject(r)
  <2>1. UNCHANGED <<mission, clashed>> /\ req[r].project \in Projects
        /\ project' = [project EXCEPT ![req[r].project].row = "deleted"]
    BY <1>5, RequestType DEF DropProject, History, At, Told
  <2>2. \A p \in Projects : \/ project'[p] = project[p]
                            \/ project'[p].row = "deleted"
    BY <2>1, RowTypes DEF StoreOK, CatalogStoreTypeOK
  <2> QED BY <1>0, <2>1, <2>2, KeptGoing DEF Steady
<1>6. CASE UNCHANGED <<project, mission, clashed>>
  BY <1>0, <1>6, KeptGoing DEF Steady
<1> QED BY <1>1, <1>2, <1>3, <1>4, <1>5, <1>6 DEF CatalogContinue, CountMissions, MissionExists,
        MoveExists, RemoveMetadata, Upserted, DeleteMetadata, FindForAdd, AddMetadata, FindForUpdate,
        UpdateMetadata, ReserveFile, ConfirmUpload, SaveMovedFile, FileMoved, TriggerContinue,
        SaveVersion, CountExecutions, ArchiveTemplate, EraseTemplate, SaveTrigger, CheckWebhook,
        FireWebhook, catalogStoreVars, History

LEMMA KeptUnmoved ==
    ASSUME KeptInv, UNCHANGED <<project, mission, req, clashed>>
    PROVE  KeptInv'
  BY DEF KeptInv, Unborn, Housed, Compared, RequiredOf, LiveProject, LiveMission, Overlapped

LEMMA KeptInit == CatalogInit => KeptInv
<1> SUFFICES ASSUME CatalogInit PROVE KeptInv
  OBVIOUS
<1>1. PICK c \in Catalogs : project = c.project /\ mission = c.mission
  BY DEF CatalogInit
<1>2. req = [r \in Requests |-> NoRequest]
  BY DEF CatalogInit
<1>3. \A m \in Missions : LiveMission(m) => project[mission[m].project].row # "none"
  BY <1>1, CatalogAssumption DEF LiveMission
<1> QED BY <1>2, <1>3, NoRequestType DEF KeptInv, Unborn, Housed, Compared, Inserting, Places

\* Values of a type vanish only where a request removes what it has read.
LEMMA ValuesVanish ==
    ASSUME StoreOK, RequestsOK, NEW m \in Missions, NEW t \in Types, CatalogNext,
           metadata[m][t] # {}, metadata'[m][t] = {}
    PROVE  \E r \in Requests : RemoveMetadata(r) \/ DeleteMetadata(r)
<1>0. metadata \in [Missions -> [Types -> SUBSET Nat]]
  BY DEF StoreOK, CatalogStoreTypeOK
<1>1. metadata' # metadata
  OBVIOUS
<1>2. ASSUME NEW r \in Requests, NEW x \in Types, AddMetadata(r, x) \/ UpdateMetadata(r, x)
      PROVE  FALSE
  <2>1. PICK more : metadata' = [metadata EXCEPT ![req[r].mission][x] = @ \cup more]
    BY <1>2 DEF AddMetadata, UpdateMetadata
  <2>2. metadata[m][t] \subseteq metadata'[m][t]
    BY <1>0, <2>1
  <2> QED BY <2>2
<1>3. PICK r \in Requests : CatalogReceive(r) \/ CatalogContinue(r) \/ TriggerReceive(r) \/ TriggerContinue(r)
  BY <1>1 DEF CatalogNext
<1>4. ~CatalogReceive(r) /\ ~TriggerReceive(r)
  BY <1>1 DEF CatalogReceive, TriggerReceive, CreateProject, UpdateMetadataTypes, DeleteProject,
     CreateMission, MoveMission, DeleteMission, ReplaceMissionMetadata, UnsetMetadata, Upload,
     ConfirmAgain, MoveFile, DeleteFile, CreateTemplate, CreateVersion, DeleteTemplate,
     CreateTrigger, EditTrigger, DeleteTrigger, CallWebhook, BeginSave, catalogStoreVars
<1>5. ~TriggerContinue(r)
  BY <1>1 DEF TriggerContinue, SaveVersion, CountExecutions, ArchiveTemplate, EraseTemplate,
     SaveTrigger, CheckWebhook, FireWebhook, catalogStoreVars
<1>6. CatalogContinue(r) => RemoveMetadata(r) \/ DeleteMetadata(r)
  BY <1>1, <1>2 DEF CatalogContinue, SaveMetadataTypes, CountMissions, DropProject, MissionExists,
     InsertMission, MoveExists, SetProject, SoftRemoveMission, Upserted, FindForAdd, FindForUpdate,
     ReserveFile, ConfirmUpload, SaveMovedFile, FileMoved, catalogStoreVars
<1> QED BY <1>3, <1>4, <1>5, <1>6

\* A request that removes a required value has found it required, or was told.
LEMMA RequiredVanishes ==
    ASSUME StoreOK, RequestsOK, KeptInv, NEW m \in Missions, LiveMission(m), NEW t \in RequiredOf(m),
           CatalogNext, metadata[m][t] # {}, metadata'[m][t] = {}
    PROVE  \/ \E r \in Requests : At(r, "unset") /\ req[r].mission = m
           \/ Overlapped({"require", "annotate"}, mission[m].project)
           \/ Overlapped({"moveMission", "annotate"}, m)
<1>1. t \in Types
  BY RowTypes DEF RequiredOf, StoreOK, Placed, LiveMission
<1>2. PICK r \in Requests : RemoveMetadata(r) \/ DeleteMetadata(r)
  BY <1>1, ValuesVanish
<1>3. req[r].mission \in Missions
  BY <1>2, RequestType DEF RemoveMetadata, DeleteMetadata, At, Told
<1>4. metadata \in [Missions -> [Types -> SUBSET Nat]]
  BY DEF StoreOK, CatalogStoreTypeOK
<1>5. req[r].mission = m
  BY <1>2, <1>3, <1>4 DEF RemoveMetadata, DeleteMetadata
<1>6. CASE DeleteMetadata(r)
  BY <1>5, <1>6 DEF DeleteMetadata
<1>7. CASE RemoveMetadata(r)
  <2>1. metadata'[m] = [x \in Types |-> IF req[r].given[x] = "value" THEN metadata[m][x]
                                        ELSE metadata[m][x] \ req[r].seen[x]]
    BY <1>4, <1>5, <1>7 DEF RemoveMetadata
  <2>2. req[r].given[t] # "value" /\ req[r].seen[t] # {}
    BY <1>1, <2>1
  <2>3. req[r].pc = "remove" /\ Compared(req[r])
    BY <1>7 DEF RemoveMetadata, At, KeptInv
  <2>4. t \notin req[r].required
    BY <2>2, <2>3 DEF Compared
  <2> QED BY <1>5, <2>3, <2>4 DEF Compared
<1> QED BY <1>2, <1>6, <1>7
-----------------------------------------------------------------------------
CatalogInv == StoreOK /\ RequestsOK /\ QueueOK

LEMMA CatalogInvInit == CatalogInit => CatalogInv /\ HierarchyInv
<1> SUFFICES ASSUME CatalogInit PROVE CatalogInv /\ HierarchyInv
  OBVIOUS
<1>1. PICK c \in Catalogs :
        /\ project = c.project /\ mission = c.mission /\ metadata = c.metadata
        /\ file = c.file /\ trigger = c.trigger /\ agenda \in c.agendas
  BY DEF CatalogInit
<1>2. /\ template = [v \in Versions |-> IF v = 1 THEN "active" ELSE "none"]
      /\ runs = {} /\ req = [r \in Requests |-> NoRequest] /\ served = 0
      /\ events = {} /\ clashed = {} /\ clock = 0 /\ job = [j \in JobIds |-> NoJob]
  BY DEF CatalogInit
<1>3. StoreOK
  <2>1. /\ project \in [Projects -> [row : {"none", "live"}, required : SUBSET Types]]
        /\ mission \in [Missions -> [row : {"none", "live"}, project : Projects \cup {None},
                                     name : Names \cup {None}]]
        /\ metadata \in [Missions -> [Types -> SUBSET Nat]]
        /\ file \in [Files -> [row : {"none", "live"}, mission : Missions \cup {None}]]
        /\ trigger \in [Triggers -> TriggerRow]
    BY <1>1, CatalogAssumption
  <2>2. \A p \in Projects : project[p] \in [row : Presence, required : SUBSET Types]
    BY <2>1 DEF Presence
  <2>3. \A m \in Missions : mission[m] \in [row : Presence, project : Projects \cup {None},
                                            name : Names \cup {None}]
    BY <2>1 DEF Presence
  <2>4. \A f \in Files : file[f] \in [row : Presence, mission : Missions \cup {None}]
    BY <2>1 DEF Presence
  <2>5. template \in [Versions -> {"none", "active", "archived"}]
    BY <1>2
  <2>6. CatalogStoreTypeOK
    <3>1. project \in [Projects -> [row : Presence, required : SUBSET Types]]
      BY <2>1, <2>2
    <3>2. mission \in [Missions -> [row : Presence, project : Projects \cup {None},
                                    name : Names \cup {None}]]
      BY <2>1, <2>3
    <3>3. file \in [Files -> [row : Presence, mission : Missions \cup {None}]]
      BY <2>1, <2>4
    <3> QED BY <1>2, <2>1, <2>5, <3>1, <3>2, <3>3 DEF CatalogStoreTypeOK
  <2>7. IsFiniteSet(runs)
    BY <1>2, FS_EmptySet
  <2>8. Placed
    BY <1>1, CatalogAssumption DEF Placed
  <2> QED BY <2>6, <2>7, <2>8 DEF StoreOK
<1>4. RequestsOK
  <2>1. agenda \subseteq Kinds
    BY <1>1, CatalogAssumption
  <2>2. req \in [Requests -> CatalogRequest] /\ \A r \in Requests : req[r] = NoRequest
    BY <1>2, NoRequestType
  <2>3. \A r \in Requests : Told(req[r])
    BY <2>2, NoRequestType DEF Told
  <2>4. served \in 0..MaxRequests
    BY <1>2, CatalogRequestsAssumption
  <2>5. CatalogRequestsTypeOK
    BY <1>2, <2>1, <2>2, <2>4 DEF CatalogRequestsTypeOK
  <2> QED BY <2>3, <2>5 DEF RequestsOK
<1>5. QueueOK
  <2>1. clock \in 0..MaxClock
    BY <1>2, TriggerQueueAssumption
  <2> QED BY <1>2, <2>1, NoJobType DEF QueueOK, TriggerQueueTypeOK
<1>6. HierarchyInv
  <2>1. \A r \in Requests : req[r] = NoRequest
    BY <1>2
  <2>2. ClashNoted /\ \A r \in Requests : Awaited(req[r])
    BY <2>1, NoRequestType DEF ClashNoted, Awaited
  <2>3. HierarchyIntact
    BY <1>1, CatalogAssumption, IntactForm DEF LiveMission, LiveProject, LiveFile
  <2> QED BY <2>2, <2>3 DEF HierarchyInv
<1> QED BY <1>3, <1>4, <1>5, <1>6 DEF CatalogInv

LEMMA QueueUnmoved ==
    ASSUME QueueOK, UNCHANGED triggerQueueVars
    PROVE  QueueOK'
  BY DEF QueueOK, TriggerQueueTypeOK, Handled, triggerQueueVars

LEMMA RequestsUnmoved ==
    ASSUME RequestsOK, UNCHANGED catalogRequestVars
    PROVE  RequestsOK'
  BY DEF RequestsOK, CatalogRequestsTypeOK, Told, catalogRequestVars

LEMMA CatalogInvStep ==
    ASSUME CatalogInv, HierarchyInv, [CatalogNext]_catalogVars
    PROVE  CatalogInv' /\ HierarchyInv'
<1>0. StoreOK /\ RequestsOK /\ QueueOK
  BY DEF CatalogInv
<1>1. ASSUME NEW r \in Requests, UNCHANGED triggerQueueVars, CatalogReceive(r) \/ TriggerReceive(r)
      PROVE  CatalogInv' /\ HierarchyInv'
  BY <1>0, <1>1, ReceiveOK, TriggerReceiveOK, HierarchyReceive, QueueUnmoved DEF CatalogInv
<1>2. ASSUME NEW r \in Requests, UNCHANGED triggerQueueVars, CatalogContinue(r)
      PROVE  CatalogInv' /\ HierarchyInv'
  BY <1>0, <1>2, ContinueOK, HierarchyContinue, QueueUnmoved DEF CatalogInv
<1>3. ASSUME NEW r \in Requests, UNCHANGED triggerQueueVars, TriggerContinue(r)
      PROVE  CatalogInv' /\ HierarchyInv'
  BY <1>0, <1>3, TriggerContinueOK, HierarchyTriggers, QueueUnmoved DEF CatalogInv
<1>4. CASE /\ QueueStep
           /\ UNCHANGED <<project, mission, metadata, file, template, trigger, catalogRequestVars>>
  <2>1. UNCHANGED <<project, mission, file, req, clashed>> /\ UNCHANGED catalogRequestVars
    BY <1>4 DEF catalogRequestVars
  <2> QED BY <1>0, <1>4, <2>1, QueueStepOK, RequestsUnmoved, HierarchyUnmoved DEF CatalogInv
<1>5. CASE UNCHANGED catalogVars
  <2>1. UNCHANGED catalogStoreVars /\ UNCHANGED catalogRequestVars /\ UNCHANGED triggerQueueVars
    BY <1>5 DEF catalogVars
  <2>2. UNCHANGED <<project, mission, file, req, clashed>>
    BY <2>1 DEF catalogStoreVars, catalogRequestVars
  <2> QED BY <1>0, <2>1, <2>2, StoreUnchanged, RequestsUnmoved, QueueUnmoved, HierarchyUnmoved
          DEF CatalogInv
<1> QED BY <1>1, <1>2, <1>3, <1>4, <1>5 DEF CatalogNext

LEMMA CatalogInvariant == CatalogSpec => [](CatalogInv /\ HierarchyInv)
  BY CatalogInvInit, CatalogInvStep, PTL DEF CatalogSpec

\* The tables, the requests and the queue of triggers are well-typed, for every
\* number of each: a request or a job never reads a local variable it has not
\* set, and every run has a mission.
THEOREM CatalogTypeCorrect == CatalogSpec => []CatalogTypeOK
<1>1. CatalogInv => CatalogTypeOK
  BY DEF CatalogInv, StoreOK, RequestsOK, QueueOK, CatalogTypeOK
<1> QED BY <1>1, CatalogInvariant, PTL

\* However many requests create, move and delete projects, missions and files at
\* the same time: what is live is in something live, unless it was put there
\* while its parent was deleted.
THEOREM NothingLeftBehind == CatalogSpec => []HierarchyIntact
<1>1. HierarchyInv => HierarchyIntact
  BY DEF HierarchyInv
<1> QED BY <1>1, CatalogInvariant, PTL

LEMMA KeptStep ==
    ASSUME CatalogInv, HierarchyInv, KeptInv, [CatalogNext]_catalogVars
    PROVE  KeptInv'
<1>0. StoreOK /\ RequestsOK /\ ClashNoted
  BY DEF CatalogInv, HierarchyInv
<1>1. ASSUME NEW r \in Requests, CatalogReceive(r) \/ TriggerReceive(r)
      PROVE  KeptInv'
  BY <1>0, <1>1, KeptReceive
<1>2. ASSUME NEW r \in Requests, CatalogContinue(r) \/ TriggerContinue(r)
      PROVE  KeptInv'
  BY <1>0, <1>2, KeptContinue
<1>3. CASE UNCHANGED <<project, mission, req, clashed>>
  BY <1>3, KeptUnmoved
<1> QED BY <1>1, <1>2, <1>3 DEF CatalogNext, catalogVars, catalogStoreVars, catalogRequestVars

\* However many requests replace and delete metadata, move missions and change
\* what projects require at the same time: a required value vanishes only if it is
\* deleted by itself, or if what is required changed while it was replaced.
THEOREM RequiredStays == CatalogSpec => RequiredKept
<1> DEFINE A == \A m \in {x \in Missions : LiveMission(x)} : \A t \in RequiredOf(m) :
        metadata[m][t] # {} /\ metadata'[m][t] = {} =>
            \/ \E r \in Requests : At(r, "unset") /\ req[r].mission = m
            \/ Overlapped({"require", "annotate"}, mission[m].project)
            \/ Overlapped({"moveMission", "annotate"}, m)
<1>1. CatalogInv /\ KeptInv /\ [CatalogNext]_catalogVars => [A]_catalogVars
  BY RequiredVanishes DEF CatalogInv
<1>2. CatalogInv /\ HierarchyInv /\ KeptInv /\ [CatalogNext]_catalogVars => KeptInv'
  BY KeptStep
<1>3. ([][A]_catalogVars) => RequiredKept
  BY DEF RequiredKept
<1> HIDE DEF A
<1> QED BY <1>1, <1>2, <1>3, KeptInit, CatalogInvariant, PTL DEF CatalogSpec
=============================================================================
