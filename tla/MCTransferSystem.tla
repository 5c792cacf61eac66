--------------------------- MODULE MCTransferSystem ---------------------------
(***************************************************************************)
(* An instance of TransferSystem for TLC: two names, a command with two    *)
(* files, another command by a user who may not cancel, and two files in a *)
(* browser, with each other or with the same name.                         *)
(***************************************************************************)
EXTENDS TransferSystem

CONSTANTS n1, n2, a1, a2, b1, w1, w2, w3, c1, c2

MCCommands == [c \in {c1, c2} |-> IF c = c1 THEN {a1, a2} ELSE {b1}]

MCNameOf == [u \in {a1, a2, b1, w1, w2, w3} |-> IF u \in {a2, w3} THEN n2 ELSE n1]

MCBatches == {<<>>, <<w1>>, <<w1, w2>>, <<w1, w3>>, <<w1, w2, w3>>}

MCPlan(files, items, downloads) == [files |-> files, batch |-> items, downloads |-> downloads]

MCPlans ==
    {MCPlan({a1, b1}, <<>>, {}), MCPlan({a1, a2}, <<>>, {}), MCPlan({a1}, <<w1>>, {}),
     MCPlan({b1}, <<w1, w3>>, {}), MCPlan({}, <<w1, w2, w3>>, {}), MCPlan({a1}, <<>>, {n1})}
=============================================================================
