----------------------------- MODULE JobCustody -----------------------------
(***************************************************************************)
(* What the action subsystem promises about the job of an action, whatever *)
(* crashes, stalls or is re-queued: a job in a worker's hands stays there  *)
(* until that worker lets go of it or dies, only a queued job is taken, a  *)
(* worker has one job at a time, and only the worker that has the job      *)
(* starts the action's container, once and for all.                        *)
(***************************************************************************)
CONSTANTS Actions, Workers, Runners, NoAction

VARIABLES
    place,          \* Actions -> where its job is
    doing,          \* Workers -> the action whose job it has, or NoAction
    started         \* <<runner, action>>: containers ever started

vars == <<place, doing, started>>

Unattended == {"nowhere", "queued"}

Init ==
    /\ place = [a \in Actions |-> "nowhere"]
    /\ doing = [w \in Workers |-> NoAction]
    /\ started = {}

\* Dispatch, cancellation, retry and re-queueing touch jobs nobody has in hand.
Move(a) ==
    /\ place[a] # "held"
    /\ \E p \in Unattended : place' = [place EXCEPT ![a] = p]
    /\ UNCHANGED <<doing, started>>

Take(w, a) ==
    /\ place[a] = "queued"
    /\ doing[w] = NoAction
    /\ place' = [place EXCEPT ![a] = "held"]
    /\ doing' = [doing EXCEPT ![w] = a]
    /\ UNCHANGED started

\* The run is over, failed and to be retried, or its worker has died.
Release(w, a) ==
    /\ place[a] = "held"
    /\ doing[w] = a
    /\ \E p \in Unattended : place' = [place EXCEPT ![a] = p]
    /\ doing' = [doing EXCEPT ![w] = NoAction]
    /\ UNCHANGED started

Start(w, r, a) ==
    /\ r[1] = w
    /\ doing[w] = a
    /\ \A s \in Runners : <<s, a>> \notin started
    /\ started' = started \cup {<<r, a>>}
    /\ UNCHANGED <<place, doing>>

Next ==
    \E a \in Actions :
        \/ Move(a)
        \/ \E w \in Workers : Take(w, a) \/ Release(w, a)
        \/ \E w \in Workers, r \in Runners : Start(w, r, a)

Spec == Init /\ [][Next]_vars
=============================================================================
