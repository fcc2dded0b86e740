------------------------------ MODULE RetryPolicy ------------------------------
(***************************************************************************)
(* retry/mod.rs: how often and how late a request may be attempted again.  *)
(* Durations are numbers of clock units; a random choice is the set of its *)
(* possible results, None is the empty set.                                *)
(***************************************************************************)
EXTENDS Integers

CONSTANTS
    MaxAttempts,     \* max_attempts
    BaseDelay,       \* base_delay
    ThrottledBase,   \* the one second of delay_ceiling
    MaxDelay,        \* max_delay
    MaxElapsed       \* max_elapsed

(* RetryPolicy::new refuses zero attempts, zero durations and a base delay   *)
(* above the maximum delay.                                                  *)
ASSUME PolicyAssumption ==
    /\ MaxAttempts \in Nat \ {0}
    /\ BaseDelay \in Nat \ {0}
    /\ ThrottledBase \in Nat \ {0}
    /\ MaxDelay \in Nat /\ MaxDelay >= BaseDelay
    /\ MaxElapsed \in Nat \ {0}

(* RetryClassification *)
Classifications == {"never", "retryable", "throttled"}

MinOf(a, b) == IF a <= b THEN a ELSE b
MaxOf(a, b) == IF a >= b THEN a ELSE b

(* The saturating multiplication is cut by max_delay, as any larger product. *)
delay_ceiling(classification, attempts) ==
    LET base == IF classification = "throttled"
                THEN MaxOf(BaseDelay, ThrottledBase) ELSE BaseDelay
        multiplier == 2 ^ MinOf(MaxOf(attempts - 1, 0), 31)
    IN  MinOf(base * multiplier, MaxDelay)

permits_retry(classification, attempts, elapsed) ==
    /\ classification # "never"
    /\ attempts < MaxAttempts
    /\ elapsed < MaxElapsed

(* Mutant of delay_for: the jitter is not cut at the elapsed-time limit. *)
delay_for_uncut(classification, attempts, elapsed, retry_after) ==
    IF attempts = 0 \/ ~permits_retry(classification, attempts, elapsed)
    THEN {}
    ELSE IF retry_after # {} THEN retry_after
         ELSE 0..delay_ceiling(classification, attempts)

(* A Retry-After value is a set of at most one delay. *)
delay_for(classification, attempts, elapsed, retry_after) ==
    LET remaining == MaxElapsed - elapsed
    IN  IF attempts = 0 \/ ~permits_retry(classification, attempts, elapsed)
        THEN {}
        ELSE IF retry_after # {}
             THEN {delay \in retry_after : delay <= remaining}
             ELSE {delay \in 0..remaining : delay <= delay_ceiling(classification, attempts)}
===============================================================================
