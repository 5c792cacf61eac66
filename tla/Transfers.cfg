SPECIFICATION TransferSpec
CONSTANTS
    n1 = n1
    n2 = n2
    a1 = a1
    a2 = a2
    b1 = b1
    w1 = w1
    w2 = w2
    w3 = w3
    c1 = c1
    c2 = c2
    Uploads = {a1, a2, b1, w1, w2, w3}
    Names = {n1, n2}
    Legacy = Legacy
    Empty = Empty
    None = None
    SpaceRunsOut = TRUE
    Commands <- MCCommands
    NameOf <- MCNameOf
    Uploaders = {a1, a2, w1, w2, w3}
    NWorkers = 1
    MaxUploadRetries = 2
    CredentialTries = 2
    ConfirmTries = 2
    CancelTries = 2
    MaxLost = 1
    MaxKills = 1
    Batches <- MCBatches
    Own = Own
    Parts = 2
    MaxRetries = 1
    MaxCommands = 2
    Plans <- MCPlans
INVARIANTS
    TransferTypeOK
    UploadedIsStored
    DownloadIsWhole
PROPERTIES
    SkippedIsUploaded
    LocalFilesKept
CHECK_DEADLOCK FALSE
