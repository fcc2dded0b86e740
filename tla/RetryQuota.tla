------------------------------ MODULE RetryQuota ------------------------------
(***************************************************************************)
(* RetryQuota and RetryPermit (client/mod.rs): the token bucket that the   *)
(* requests of a client and of its for_bucket handles share.  Each action  *)
(* is one atomic fetch_update, so requests interleave between them.        *)
(***************************************************************************)
EXTENDS Integers, FiniteSets

CONSTANTS
    Ops,              \* the requests that share the bucket
    Capacity,         \* RETRY_QUOTA_CAPACITY
    TransientCost,    \* TRANSIENT_RETRY_COST
    ThrottlingCost    \* THROTTLING_RETRY_COST

ASSUME QuotaAssumption ==
    /\ IsFiniteSet(Ops)
    /\ Capacity \in Nat
    /\ TransientCost \in Nat \ {0}
    /\ ThrottlingCost \in Nat \ {0}

VARIABLES
    tokens,     \* the available tokens
    permit,     \* the cost of the permit a request holds; 0 is no permit
    lastCost,   \* last_retry_cost of a request; 0 is None
    owed,       \* history: tokens taken and not given back by a dropped permit
    spent,      \* history: cost of the permits that were committed
    restored    \* history: tokens that successes gave back, before clamping

quota == <<tokens, permit, lastCost, owed, spent, restored>>

Costs == {TransientCost, ThrottlingCost}

QuotaInit ==
    /\ tokens = Capacity
    /\ permit = [o \in Ops |-> 0]
    /\ lastCost = [o \in Ops |-> 0]
    /\ owed = 0 /\ spent = 0 /\ restored = 0

Clamped(n) == IF n <= Capacity THEN n ELSE Capacity

RetryCost(classification) ==
    IF classification = "throttled" THEN ThrottlingCost ELSE TransientCost

(* RetryQuota::acquire *)
CanAcquire(classification) ==
    classification # "never" /\ tokens >= RetryCost(classification)

acquire(o, classification) ==
    /\ CanAcquire(classification)
    /\ tokens' = tokens - RetryCost(classification)
    /\ permit' = [permit EXCEPT ![o] = RetryCost(classification)]
    /\ owed' = owed + RetryCost(classification)
    /\ UNCHANGED <<lastCost, spent, restored>>

(* Mutant of commit: the permit stays and is dropped later as well. *)
commit_keeps(o) ==
    /\ spent' = spent + permit[o]
    /\ lastCost' = IF permit[o] = 0 THEN lastCost ELSE [lastCost EXCEPT ![o] = permit[o]]
    /\ UNCHANGED <<tokens, permit, owed, restored>>

(* pending_retry_permit.take() and RetryPermit::commit, when there is one *)
commit(o) ==
    /\ spent' = spent + permit[o]
    /\ lastCost' = IF permit[o] = 0 THEN lastCost ELSE [lastCost EXCEPT ![o] = permit[o]]
    /\ permit' = [permit EXCEPT ![o] = 0]
    /\ UNCHANGED <<tokens, owed, restored>>

(* Mutant of drop_permit: the tokens of an unused permit are lost. *)
drop_permit_leaks(o) ==
    /\ permit' = [permit EXCEPT ![o] = 0]
    /\ UNCHANGED <<tokens, lastCost, spent, restored>>
    /\ owed' = owed - permit[o]

(* Drop for RetryPermit, when the request holds one *)
drop_permit(o) ==
    /\ tokens' = Clamped(tokens + permit[o])
    /\ owed' = owed - permit[o]
    /\ permit' = [permit EXCEPT ![o] = 0]
    /\ UNCHANGED <<lastCost, spent, restored>>

(* RetryQuota::replenish_after_success(last_retry_cost) *)
replenish_after_success(o) ==
    LET gain == IF lastCost[o] = 0 THEN 1 ELSE lastCost[o]
    IN  /\ tokens' = Clamped(tokens + gain)
        /\ restored' = restored + gain
        /\ UNCHANGED <<permit, lastCost, owed, spent>>
===============================================================================
