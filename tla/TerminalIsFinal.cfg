SPECIFICATION Spec
CONSTANTS
    Actions = {a1}
    Workers = {w1}
    NoWorker = NoWorker
    NoAction = NoAction
    ExitCodes = {0}
    Fits = {w1}
    Diagnostics = {}
    MaxCrashes = 0
    Crashers = {w1}
    MaxCancels = 0
    DeletesAllowed = FALSE
    RequeueMayFail = FALSE
    DockerMayFail = FALSE
PROPERTIES
    TerminalIsFinal
CHECK_DEADLOCK FALSE
