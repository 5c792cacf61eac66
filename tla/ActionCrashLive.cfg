SPECIFICATION FairSpec
CONSTANTS
    Actions = {a1}
    Workers = {w1}
    NoWorker = NoWorker
    NoAction = NoAction
    ExitCodes = {}
    Fits = {w1}
    Diagnostics = {}
    MaxCrashes = 1
    Crashers = {w1}
    MaxCancels = 0
    DeletesAllowed = FALSE
    RequeueMayFail = FALSE
    DockerMayFail = FALSE
PROPERTIES
    EventuallyFinal
    ContainersReclaimed
CHECK_DEADLOCK FALSE
