---------------------------- MODULE ActionStates ----------------------------
(***************************************************************************)
(* The pure vocabulary of an action run, shared by the api-server and the  *)
(* queue consumer: its lifecycle states, its severity, and the functions   *)
(* that turn an exit code and an already recorded verdict into the outcome *)
(* to store (packages/shared/src/common-utils/action-*.ts).                *)
(***************************************************************************)
EXTENDS Integers

TERMINAL_ACTION_STATES == {"DONE", "FAILED", "UNPROCESSABLE", "CANCELLED"}

CANCELLABLE_ACTION_STATES == {"PENDING", "STARTING", "PROCESSING"}

ActionState ==
    TERMINAL_ACTION_STATES \cup CANCELLABLE_ACTION_STATES \cup {"STOPPING"}

ActionSeverity == {"OK", "WARNING", "ERROR"}

\* "none" is SQL NULL.
ActionFailureOrigin == {"none", "USER", "SYSTEM"}

isTerminalActionState(s) == s \in TERMINAL_ACTION_STATES

isCancellableActionState(s) == s \in CANCELLABLE_ACTION_STATES

\* The state a row gets once its queue job resolved: a final state is kept.
resolveCompletedActionState(current) ==
    IF isTerminalActionState(current) THEN current ELSE "DONE"

ACTION_SEVERITY_RANK == [s \in ActionSeverity |->
    CASE s = "OK" -> 0 [] s = "WARNING" -> 1 [] s = "ERROR" -> 2]

maxActionSeverity(x, y) ==
    IF ACTION_SEVERITY_RANK[x] >= ACTION_SEVERITY_RANK[y] THEN x ELSE y

severitiesBelow(s) ==
    {c \in ActionSeverity : ACTION_SEVERITY_RANK[c] < ACTION_SEVERITY_RANK[s]}

EXIT_CODE_WARNING == 75
SIGKILL_CODE == 137

\* What an outcome or a verdict says. Its origin "keep" is JavaScript's
\* undefined: a repository update leaves that column alone.
Verdict == [state : TERMINAL_ACTION_STATES, severity : ActionSeverity,
            origin : ActionFailureOrigin \cup {"keep"}, raises : BOOLEAN]

failure(origin) ==
    [state |-> "FAILED", severity |-> "ERROR", origin |-> origin, raises |-> TRUE]

\* Every exit code other than 0 and 75 is the user's failure; the wording of
\* the causes (125, 126, 127, 137, 139, 143) is left out.
resolveActionOutcome(exitCode) ==
    CASE exitCode = 0 ->
            [state |-> "DONE", severity |-> "OK", origin |-> "keep", raises |-> FALSE]
      [] exitCode = EXIT_CODE_WARNING ->
            [state |-> "DONE", severity |-> "WARNING", origin |-> "keep", raises |-> TRUE]
      [] OTHER -> failure("USER")

CancelledOutcome ==
    [state |-> "CANCELLED", severity |-> "OK", origin |-> "keep", raises |-> FALSE]

\* A recorded final state wins over what the exit code implies. The severity
\* is merged separately: the larger of the stored and the implied one.
resolveFinalVerdict(recorded, outcome) ==
    LET sev == maxActionSeverity(recorded.severity, outcome.severity)
    IN  IF isTerminalActionState(recorded.state)
        THEN [state |-> recorded.state, severity |-> sev,
              origin |-> recorded.origin, raises |-> outcome.raises]
        ELSE [outcome EXCEPT !.severity = sev]
=============================================================================
