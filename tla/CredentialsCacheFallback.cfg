\* Two tasks: the age of what a failed refresh returns.
SPECIFICATION Spec
CONSTANTS
    Callers = {c1, c2}
    MaxCalls = 4
    RefreshBefore = 1
    Lifetimes = {2}
    Horizon = 2
    MaxFetches = 4
    Never = Never
    Lost = Lost
PROPERTY
    FallbackHasNotExpired
CHECK_DEADLOCK FALSE
