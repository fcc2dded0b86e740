\* Two requests on one quota with their events: safety, liveness and the
\* lifecycle an observer sees.
SPECIFICATION FairOSpec
CONSTANTS
    Ops = {o1, o2}
    MaxAttempts = 3
    BaseDelay = 1
    ThrottledBase = 2
    MaxDelay = 2
    MaxElapsed = 2
    Capacity = 3
    TransientCost = 2
    ThrottlingCost = 1
    OperationTimeout = 4
    RetryAfters = {2}
    Horizon = 5
INVARIANTS
    QuotaConserved
    TakenTokensAreHeldOrSpent
    RetriesAreBought
    OneShotSentOnce
    SleepFitsBudget
PROPERTIES
    RequestsEnd
    ImplementsLifecycle
CHECK_DEADLOCK FALSE
