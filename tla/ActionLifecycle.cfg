SPECIFICATION Spec
CONSTANTS
    Actions = {a1}
    Workers = {w1}
    NoWorker = NoWorker
    NoAction = NoAction
    ExitCodes = {0}
    Fits = {w1}
    Diagnostics = {"WARNING"}
    MaxCrashes = 1
    Crashers = {w1}
    MaxCancels = 0
    DeletesAllowed = FALSE
    RequeueMayFail = FALSE
    DockerMayFail = TRUE
INVARIANTS
    TypeOK
    KeyAttended
    StrayIsReclaimable
    SettledArtifacts
CHECK_DEADLOCK FALSE
