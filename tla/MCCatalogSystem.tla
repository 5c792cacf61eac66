---------------------------- MODULE MCCatalogSystem ----------------------------
(***************************************************************************)
(* An instance of CatalogSystem for TLC: two projects, two missions, one   *)
(* file and two triggers.                                                  *)
(***************************************************************************)
EXTENDS CatalogSystem, TLC

CONSTANTS p1, p2, m1, m2, f1, t1, t2, size, name

MCNoFile == [row |-> "none", mission |-> None]
MCNoMission == [row |-> "none", project |-> None, name |-> None]

\* A catalog with mission m1 in p1, p1 requiring this, m1 annotated with that.
MCCatalog(required, values, files, triggers, agendas) ==
    [project |-> [p \in {p1, p2} |-> [row |-> "live",
                    required |-> IF p = p1 THEN required ELSE {}]],
     mission |-> [m \in {m1, m2} |-> IF m = m1 THEN [row |-> "live", project |-> p1, name |-> name]
                                     ELSE MCNoMission],
     metadata |-> [m \in {m1, m2} |-> [t \in {size} |-> IF m = m1 THEN values ELSE {}]],
     file |-> [f \in {f1} |-> IF f \in files THEN [row |-> "live", mission |-> m1] ELSE MCNoFile],
     trigger |-> triggers, agendas |-> agendas]

MCNoTriggers == [t \in {t1, t2} |-> NoTrigger]

MCTriggers(config, other) ==
    [t \in {t1, t2} |-> LET c == IF t = t1 THEN config ELSE other IN
        [row |-> "live", type |-> c.type, events |-> c.events, mission |-> m1, version |-> 1]]

MCTime == [type |-> "TIME", events |-> {}]
MCHook == [type |-> "WEBHOOK", events |-> {}]
MCFileEvents == [type |-> "FILE", events |-> {"UPLOAD", "MOVE"}]

MCConfigs == {MCHook, MCFileEvents}

MCCatalogs ==
    {MCCatalog({size}, {0}, {}, MCNoTriggers,
        {{"newMission", "moveMission", "dropMission", "dropProject"},
         {"annotate", "unset", "moveMission", "require", "dropProject"},
         {"newMission", "annotate", "unset", "require"}}),
     [MCCatalog({size}, {}, {}, MCNoTriggers, {{"newMission", "annotate", "newProject"}})
         EXCEPT !.project[p2].row = "none"],
     MCCatalog({}, {}, {f1}, MCTriggers(MCFileEvents, MCTime),
        {{"dropMission", "upload", "moveFile", "dropFile", "newMission"},
         {"crash", "moveFile", "dropFile", "lokiDown"}}),
     MCCatalog({}, {}, {}, MCTriggers(MCFileEvents, MCTime),
        {{"upload", "confirm", "moveFile", "dropMission"},
         {"tick", "crash", "lokiDown"},
         {"tick", "dropTrigger"}}),
     MCCatalog({}, {}, {}, MCTriggers(MCTime, MCTime), {{"tick", "crash"}}),
     MCCatalog({}, {}, {}, MCTriggers(MCHook, MCHook),
        {{"webhook", "editTrigger", "dropTrigger", "dropMission", "dropProject"},
         {"webhook", "newVersion", "dropTemplate", "lokiDown"}}),
     MCCatalog({}, {}, {}, MCNoTriggers,
        {{"newTrigger", "newTemplate", "newVersion", "dropTemplate"},
         {"newTrigger", "upload", "webhook"}})}

MCSymmetry == Permutations(Requests)
=============================================================================
