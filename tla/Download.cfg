\* An object of two bytes, one attempt with a limit of two bytes, two callers
\* with two attempts each.
SPECIFICATION FairScenes
CONSTANTS
    Size = 2
    MaxChunk = 2
    Unknown = Unknown
    IdleTimeout = 2
    OperationTimeout = 4
    Horizon = 5
    Statuses = {200, 404, 500}
    Codes <- SomeCodes
    Maximum = 2
    AttemptTimeout = 2
    MaxDelivered = 3
    TicksPerSecond = 2
    Callers = {c1, c2}
    Bucket <- OurBucket
    Keys <- TwoKeys
    Stores <- TwoStores
    Requests <- Asked
    MaxAttempts = 2
    MaxXmlSize = 6
    MaxDeleteObjects = 2
INVARIANTS
    DestinationIsOldOrVerified
    FailureLeavesNoTrace
    SuccessIsPublished
    VerdictsAreTruthful
    ConditionsGuardEffects
    
PROPERTIES
    DownloadsEnd
    AttemptsEnd
    
CHECK_DEADLOCK FALSE
