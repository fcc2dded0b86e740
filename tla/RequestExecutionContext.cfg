\* A deadline that passes during the backoff loses the retry context.
SPECIFICATION Spec
CONSTANTS
    Ops = {o1}
    MaxAttempts = 3
    BaseDelay = 1
    ThrottledBase = 2
    MaxDelay = 3
    MaxElapsed = 3
    Capacity = 3
    TransientCost = 2
    ThrottlingCost = 1
    OperationTimeout = 4
    RetryAfters = {0, 2}
    Horizon = 5
INVARIANT ErrorCountsAttempts
CHECK_DEADLOCK FALSE
