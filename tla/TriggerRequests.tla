---------------------------- MODULE TriggerRequests ----------------------------
(***************************************************************************)
(* Requests on action templates and on triggers, and calls of webhooks.    *)
(***************************************************************************)
EXTENDS CatalogRequests

CONSTANT
    TriggerConfigs      \* types with the events they ask for, as users give them

ASSUME TriggerRequestsAssumption ==
    TriggerConfigs \subseteq [type : TriggerType, events : SUBSET TriggerEvent]
-----------------------------------------------------------------------------
(* Templates: the versions under one name, which is not a system template. *)

\* create: version 1, or "Template with this name already exists".
CreateTemplate(r) ==
    /\ Begin(r, "newTemplate", {}, NoRequest)
    /\ template' = IF template[1] = "none" THEN [template EXCEPT ![1] = "active"] ELSE template
    /\ UNCHANGED <<project, mission, metadata, file, trigger, runs>>

NextVersion == 1 + (IF TemplateVersions = {} THEN 0
                    ELSE CHOOSE v \in TemplateVersions : \A x \in TemplateVersions : x <= v)

CreateVersion(r) ==
    /\ NextVersion \in Versions
    /\ Begin(r, "newVersion", {}, [NoRequest EXCEPT !.pc = "saveVersion", !.version = NextVersion])
    /\ UNCHANGED catalogStoreVars

\* The unique index refuses a version that exists by now.
SaveVersion(r) ==
    /\ At(r, "saveVersion")
    /\ template' = [template EXCEPT ![req[r].version] = IF @ = "none" THEN "active" ELSE @]
    /\ Answer(r)
    /\ UNCHANGED <<project, mission, metadata, file, trigger, runs, History>>

DeleteTemplate(r) ==
    /\ TemplateVersions # {}
    /\ Begin(r, "dropTemplate", {}, [NoRequest EXCEPT !.pc = "count"])
    /\ UNCHANGED catalogStoreVars

\* The runs of all versions are counted ...
CountExecutions(r) ==
    /\ At(r, "count")
    /\ Goto(r, IF Executed # {} THEN "archive" ELSE "erase")
    /\ UNCHANGED <<catalogStoreVars, History>>

ArchiveTemplate(r) ==
    /\ At(r, "archive")
    /\ template' = [v \in Versions |-> IF template[v] = "none" THEN "none" ELSE "archived"]
    /\ Answer(r)
    /\ UNCHANGED <<project, mission, metadata, file, trigger, runs, History>>

Referenced == Executed \cup {trigger[t].version : t \in {x \in Triggers : LiveTrigger(x)}}

\* ... and if there is none the rows are deleted, all or, when a trigger or a run
\* refers to one by now, none.
EraseTemplate(r) ==
    /\ At(r, "erase")
    /\ template' = IF Referenced # {} THEN template ELSE [v \in Versions |-> "none"]
    /\ Answer(r)
    /\ UNCHANGED <<project, mission, metadata, file, trigger, runs, History>>
-----------------------------------------------------------------------------
(* Triggers.                                                               *)

TriggerRowOf(c, m, v) ==
    [row |-> "live", type |-> c.type, events |-> c.events, mission |-> m, version |-> v]

\* create and update find mission and template, then save the trigger.
BeginSave(r, kind, t) ==
    /\ \E c \in TriggerConfigs, m \in Missions, v \in TemplateVersions :
        /\ LiveMission(m)
        /\ Begin(r, kind, {t}, [NoRequest EXCEPT !.pc = "saveTrigger", !.trigger = t,
                                                !.row = TriggerRowOf(c, m, v)])
    /\ UNCHANGED catalogStoreVars

CreateTrigger(r) ==
    \E t \in Triggers :
        /\ trigger[t].row = "none"
        /\ \A s \in Requests : req[s].kind = "newTrigger" => req[s].trigger # t
        /\ BeginSave(r, "newTrigger", t)

\* One whose mission is soft-deleted needs another: a null relation is not saved.
EditTrigger(r) == \E t \in Triggers : LiveTrigger(t) /\ BeginSave(r, "editTrigger", t)

\* The entity is saved as a whole: a row that was deleted since is inserted again.
SaveTrigger(r) ==
    /\ At(r, "saveTrigger")
    /\ PutTrigger(req[r].trigger, req[r].row)
    /\ Answer(r)
    /\ UNCHANGED <<project, mission, metadata, file, template, runs, History>>

DeleteTrigger(r) ==
    \E t \in Triggers :
        /\ LiveTrigger(t)
        /\ Begin(r, "dropTrigger", {t}, NoRequest)
        /\ trigger' = [trigger EXCEPT ![t].row = "gone"]
        /\ UNCHANGED <<project, mission, metadata, file, template, runs>>

\* triggerWebhook: anybody may call it.
CallWebhook(r) ==
    \E t \in Triggers :
        /\ LiveTrigger(t) /\ trigger[t].type = "WEBHOOK"
        /\ Begin(r, "webhook", {t}, [NoRequest EXCEPT !.pc = "dispatch", !.trigger = t,
                                                      !.row = Joined(trigger[t])])
        /\ UNCHANGED catalogStoreVars

\* dispatch: template and rights, then the store of logs, then the run.
Refused(t, row) == ~MayDispatch(t, row) \/ "lokiDown" \in agenda

CheckWebhook(r) ==
    /\ At(r, "dispatch")
    /\ \/ MayDispatch(req[r].trigger, req[r].row) /\ Goto(r, "fire")
       \/ Refused(req[r].trigger, req[r].row) /\ Answer(r)
    /\ UNCHANGED <<catalogStoreVars, History>>

FireWebhook(r) ==
    /\ At(r, "fire")
    /\ SaveRun(req[r].trigger, req[r].row, "call", req[r].no, 0, 0)
    /\ Answer(r)
    /\ UNCHANGED <<project, mission, metadata, file, template, trigger, History>>
-----------------------------------------------------------------------------
TriggerReceive(r) ==
    \/ CreateTemplate(r) \/ CreateVersion(r) \/ DeleteTemplate(r)
    \/ CreateTrigger(r) \/ EditTrigger(r) \/ DeleteTrigger(r) \/ CallWebhook(r)

TriggerContinue(r) ==
    \/ SaveVersion(r) \/ CountExecutions(r) \/ ArchiveTemplate(r) \/ EraseTemplate(r)
    \/ SaveTrigger(r) \/ CheckWebhook(r) \/ FireWebhook(r)
=============================================================================
