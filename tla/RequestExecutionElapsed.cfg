\* A retry that begins after max_elapsed.
SPECIFICATION Spec
CONSTANTS
    Ops = {o1}
    MaxAttempts = 3
    BaseDelay = 1
    ThrottledBase = 2
    MaxDelay = 3
    MaxElapsed = 2
    Capacity = 3
    TransientCost = 2
    ThrottlingCost = 1
    OperationTimeout = 5
    RetryAfters = {0, 2}
    Horizon = 6
PROPERTY RetriesBeginInTime
CHECK_DEADLOCK FALSE
