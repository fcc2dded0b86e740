\* Safety and the contract: three parts, two in flight, two attempts.
SPECIFICATION Spec
CONSTANTS
    PartCount = 3
    Concurrency = 2
    MaxAttempts = 2
INVARIANTS
    PublishedObjectIsWhole
    WholeUploadIsCompleted
    NoPartOutlivesUpload
PROPERTY ImplementsContract
CHECK_DEADLOCK FALSE
