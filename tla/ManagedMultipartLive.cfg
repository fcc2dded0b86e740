\* Liveness under polling of the task and firing timers, none of the service.
SPECIFICATION FairSpec
CONSTANTS
    PartCount = 2
    Concurrency = 2
    MaxAttempts = 2
PROPERTIES
    TaskEnds
    DroppedUploadIsCleaned
CHECK_DEADLOCK FALSE
