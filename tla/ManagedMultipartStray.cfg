\* A part request that the client timed out on arrives after the abort.
SPECIFICATION Spec
CONSTANTS
    PartCount = 2
    Concurrency = 1
    MaxAttempts = 2
INVARIANT CleanFailureLeavesNoParts
CHECK_DEADLOCK FALSE
