---------------------------- MODULE MCAccessSystem ----------------------------
(***************************************************************************)
(* An instance of AccessSystem for TLC: an administrator and a user, two   *)
(* affiliations, of which one owns a project and the other may write to    *)
(* it, a custom group that is created on the way, and the public.          *)
(***************************************************************************)
EXTENDS AccessSystem, TLC

CONSTANTS root, user, lab, club, team, public

MCGroupType == [g \in {lab, club, team, public} |->
    CASE g \in {lab, club} -> "AFFILIATION" [] g = team -> "CUSTOM" [] OTHER -> "PUBLIC"]

MCAccess == [g \in {lab, club, team, public} |->
    CASE g = lab -> 30 [] g = club -> 20 [] g = team -> -1 [] OTHER -> 0]

\* The user is in both affiliations; or nobody is in one, and the other is gone,
\* which only a restart can bring about.
MCConfigs ==
    {[groups |-> {lab, club}, of |-> [u \in {root, user} |-> IF u = user THEN {lab, club} ELSE {}]],
     [groups |-> {lab}, of |-> [u \in {root, user} |-> {}]]}

MCAgendas ==
    {{"create", "join", "leave", "permit", "expire", "dissolve"},
     {"create", "grant", "revoke", "dissolve"},
     {"grant", "replace", "dissolve"},
     {"expire", "revoke", "replace"},
     {"expire", "signIn", "leave", "restart"}}

\* Somebody with two memberships, one of which expires.
MCAgendaLapsed == {{"expire", "replace"}}

\* Requests are interchangeable.
MCSymmetry == Permutations(Requests)
=============================================================================
