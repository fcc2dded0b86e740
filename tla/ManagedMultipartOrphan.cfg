\* The upload ID of an accepted create is lost with its reply.
SPECIFICATION Spec
CONSTANTS
    PartCount = 2
    Concurrency = 1
    MaxAttempts = 2
INVARIANT CleanFailureLeavesNoUpload
CHECK_DEADLOCK FALSE
