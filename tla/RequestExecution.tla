--------------------------- MODULE RequestExecution ---------------------------
(***************************************************************************)
(* send_signed_inner (client/request/execute.rs): the attempt loop of every *)
(* signed request, for several requests at once that share one retry quota. *)
(*                                                                         *)
(* The clock advances by itself; a request may be polled late, so a timer   *)
(* that has passed need not be noticed at once.  The reply to an attempt,   *)
(* its transport error or its attempt timeout arrive at any moment.         *)
(***************************************************************************)
EXTENDS RetryPolicy, RetryQuota

CONSTANTS
    OperationTimeout,  \* operation_timeout: the deadline of every request
    RetryAfters,       \* the Retry-After values a service sends
    Horizon            \* bound: the clock stops here

ASSUME TimeAssumption ==
    /\ OperationTimeout \in Nat \ {0}
    /\ RetryAfters \subseteq Nat
    /\ Horizon \in Nat /\ Horizon > OperationTimeout

VARIABLES
    now,         \* the clock; the operations were called at 0
    pc,          \* where the request stands
    replayable,  \* its body can be sent again
    started,     \* when send_signed_inner was entered
    attempts,    \* attempts_completed
    redirected,  \* region_redirected
    wake,        \* when the backoff sleep ends
    result,      \* what the caller got
    reason,      \* S3Error::retry_stop_reason
    reported,    \* S3Error::attempts
    retries      \* history: attempts that a committed permit paid for

exec == <<pc, replayable, started, attempts, redirected, wake, result, reason, reported, retries>>
vars == <<now, exec, quota>>

Deadline == OperationTimeout

(* parse_retry_after: no usable header, or a delay. *)
RetryAfterHeaders == {{}} \cup {{delay} : delay \in RetryAfters}

StopReasons == {"NonReplayable", "NonRetryable", "AttemptsExhausted", "ElapsedLimit",
                "Deadline", "RetryQuota"}

Init ==
    /\ now = 0
    /\ pc = [o \in Ops |-> "prepare"]
    /\ replayable \in [Ops -> BOOLEAN]
    /\ started = [o \in Ops |-> 0]
    /\ attempts = [o \in Ops |-> 0]
    /\ redirected = [o \in Ops |-> FALSE]
    /\ wake = [o \in Ops |-> 0]
    /\ result = [o \in Ops |-> "none"]
    /\ reason = [o \in Ops |-> "none"]
    /\ reported = [o \in Ops |-> 0]
    /\ retries = [o \in Ops |-> 0]
    /\ QuotaInit

-------------------------------------------------------------------------------
(* The operation has its body and enters the loop; the deadline has been     *)
(* running since the operation was called.                                   *)
Begin(o) ==
    /\ pc[o] = "prepare"
    /\ pc' = [pc EXCEPT ![o] = "sign"]
    /\ started' = [started EXCEPT ![o] = now]
    /\ UNCHANGED <<now, replayable, attempts, redirected, wake, result, reason, reported,
                   retries, quota>>

(* Signing is done and the deadline has not passed: the permit is committed  *)
(* and the request is handed to the transport.                               *)
StartAttempt(o) ==
    /\ pc[o] = "sign" /\ now < Deadline
    /\ pc' = [pc EXCEPT ![o] = "sent"]
    /\ attempts' = [attempts EXCEPT ![o] = @ + 1]
    /\ retries' = IF permit[o] = 0 THEN retries ELSE [retries EXCEPT ![o] = @ + 1]
    /\ commit(o)
    /\ UNCHANGED <<now, replayable, started, redirected, wake, result, reason, reported>>

(* Mutant of FailBeforeAttempt: signing ignores the operation deadline. *)
FailBeforeDeadline(o) ==
    /\ pc[o] \in {"prepare", "sign"} /\ now < Deadline
    /\ pc' = [pc EXCEPT ![o] = "done"]
    /\ result' = [result EXCEPT ![o] = "error"]
    /\ drop_permit(o)
    /\ UNCHANGED <<now, replayable, started, attempts, redirected, wake, reason, reported, retries>>

(* A `?' before the attempt: preparing the body, deadline.remaining, the     *)
(* timeout of signing, the credentials, or the redirected authority.  The    *)
(* error has no retry context, and the pending permit is dropped.            *)
FailBeforeAttempt(o) ==
    /\ pc[o] \in {"prepare", "sign"}
    /\ pc' = [pc EXCEPT ![o] = "done"]
    /\ result' = [result EXCEPT ![o] = "error"]
    /\ drop_permit(o)
    /\ UNCHANGED <<now, replayable, started, attempts, redirected, wake, reason, reported, retries>>

(* A success, streamed or collected. *)
Succeed(o) ==
    /\ pc[o] = "sent"
    /\ pc' = [pc EXCEPT ![o] = "done"]
    /\ result' = [result EXCEPT ![o] = "ok"]
    /\ replenish_after_success(o)
    /\ UNCHANGED <<now, replayable, started, attempts, redirected, wake, reason, reported, retries>>

(* Mutant of Redirect: a second redirect is followed as well. *)
RedirectAgain(o) ==
    /\ pc[o] = "sent"
    /\ replayable[o]
    /\ attempts[o] < MaxAttempts
    /\ now - started[o] < MaxElapsed
    /\ pc' = [pc EXCEPT ![o] = "sign"]
    /\ redirected' = [redirected EXCEPT ![o] = TRUE]
    /\ UNCHANGED <<now, replayable, started, attempts, wake, result, reason, reported,
                   retries, quota>>

(* A validated region redirect to an AWS authority: sign again at once,      *)
(* without delay or permit.                                                  *)
Redirect(o) ==
    /\ pc[o] = "sent" /\ ~redirected[o]
    /\ replayable[o]
    /\ attempts[o] < MaxAttempts
    /\ now - started[o] < MaxElapsed
    /\ pc' = [pc EXCEPT ![o] = "sign"]
    /\ redirected' = [redirected EXCEPT ![o] = TRUE]
    /\ UNCHANGED <<now, replayable, started, attempts, wake, result, reason, reported,
                   retries, quota>>

-------------------------------------------------------------------------------
(* Mutant of stop_reason: replayability is not asked. *)
stop_reason_replays(o, classification, delays) ==
    IF classification = "never" THEN "NonRetryable"
    ELSE IF attempts[o] >= MaxAttempts THEN "AttemptsExhausted"
    ELSE IF now - started[o] >= MaxElapsed \/ delays = {} THEN "ElapsedLimit"
    ELSE IF now >= Deadline THEN "Deadline"
    ELSE "none"

(* The decision after a failed attempt. *)
stop_reason(o, classification, delays) ==
    IF ~replayable[o] THEN "NonReplayable"
    ELSE IF classification = "never" THEN "NonRetryable"
    ELSE IF attempts[o] >= MaxAttempts THEN "AttemptsExhausted"
    ELSE IF now - started[o] >= MaxElapsed \/ delays = {} THEN "ElapsedLimit"
    ELSE IF now >= Deadline THEN "Deadline"
    ELSE "none"

(* The error is returned with its retry context. *)
Stop(o, why) ==
    /\ pc' = [pc EXCEPT ![o] = "done"]
    /\ result' = [result EXCEPT ![o] = "error"]
    /\ reason' = [reason EXCEPT ![o] = why]
    /\ reported' = [reported EXCEPT ![o] = attempts[o]]
    /\ UNCHANGED <<replayable, started, attempts, redirected, wake, retries, quota>>

(* A permit is acquired and the sleep begins. *)
Schedule(o, classification, delay) ==
    /\ acquire(o, classification)
    /\ pc' = [pc EXCEPT ![o] = "sleep"]
    /\ wake' = [wake EXCEPT ![o] = now + delay]
    /\ UNCHANGED <<replayable, started, attempts, redirected, result, reason, reported, retries>>

(* An attempt failed: transport error, timeout, error response, embedded     *)
(* error, unreadable body, or a redirect that is not followed.               *)
FailAttempt(o, classification, retry_after) ==
    /\ pc[o] = "sent"
    /\ LET delays == delay_for(classification, attempts[o], now - started[o], retry_after)
           stop == stop_reason(o, classification, delays)
       IN  IF stop # "none"
           THEN Stop(o, stop)
           ELSE \E delay \in delays :
                   IF delay >= Deadline - now THEN Stop(o, "Deadline")
                   ELSE IF ~CanAcquire(classification) THEN Stop(o, "RetryQuota")
                   ELSE Schedule(o, classification, delay)
    /\ UNCHANGED now

(* The backoff is over: back to the head of the loop. *)
WakeUp(o) ==
    /\ pc[o] = "sleep" /\ now >= wake[o]
    /\ pc' = [pc EXCEPT ![o] = "sign"]
    /\ UNCHANGED <<now, replayable, started, attempts, redirected, wake, result, reason,
                   reported, retries, quota>>

(* The caller drops the future of the operation. *)
DropRequest(o) ==
    /\ pc[o] # "done"
    /\ pc' = [pc EXCEPT ![o] = "done"]
    /\ result' = [result EXCEPT ![o] = "dropped"]
    /\ drop_permit(o)
    /\ UNCHANGED <<now, replayable, started, attempts, redirected, wake, reason, reported, retries>>

Tick ==
    /\ now < Horizon
    /\ now' = now + 1
    /\ UNCHANGED <<exec, quota>>

-------------------------------------------------------------------------------
Step(o) ==
    \/ Begin(o) \/ StartAttempt(o) \/ FailBeforeAttempt(o) \/ Succeed(o) \/ Redirect(o) \/ WakeUp(o)
    \/ \E classification \in Classifications, retry_after \in RetryAfterHeaders :
          FailAttempt(o, classification, retry_after)

Next == Tick \/ \E o \in Ops : Step(o) \/ DropRequest(o)

Spec == Init /\ [][Next]_vars

(* The runtime polls every request, and the clock runs. *)
FairSpec == Spec /\ WF_vars(Tick) /\ \A o \in Ops : WF_vars(Step(o))
-------------------------------------------------------------------------------
(* Every variable has its type; the token count neither underflows nor       *)
(* exceeds the capacity.                                                     *)
TypeOK ==
    /\ now \in 0..Horizon
    /\ pc \in [Ops -> {"prepare", "sign", "sent", "sleep", "done"}]
    /\ replayable \in [Ops -> BOOLEAN] /\ redirected \in [Ops -> BOOLEAN]
    /\ started \in [Ops -> 0..Horizon]
    /\ attempts \in [Ops -> 0..MaxAttempts] /\ reported \in [Ops -> 0..MaxAttempts]
    /\ wake \in [Ops -> Nat]
    /\ result \in [Ops -> {"none", "ok", "error", "dropped"}]
    /\ reason \in [Ops -> StopReasons \cup {"none"}]
    /\ retries \in [Ops -> Nat]
    /\ tokens \in 0..Capacity
    /\ permit \in [Ops -> Costs \cup {0}] /\ lastCost \in [Ops -> Costs \cup {0}]
    /\ owed \in Int /\ spent \in Nat /\ restored \in Nat

(* The shared bucket neither loses nor mints tokens, whatever the order of   *)
(* acquisitions, commits, drops and successes of concurrent requests: what   *)
(* is missing was taken for a retry, and retries beyond the capacity were    *)
(* paid back by successes.                                                   *)
QuotaConserved ==
    Capacity <= tokens + owed /\ tokens + owed <= Capacity + restored

(* The tokens in the permits, each as its request and its number there. *)
HeldTokens == UNION {{o} \X (1..permit[o]) : o \in Ops}

(* Every token taken is in the permit of one request that waits for its      *)
(* retry, or was spent on a retry that was sent: permits are neither dropped *)
(* twice nor forgotten.                                                      *)
TakenTokensAreHeldOrSpent == owed = spent + Cardinality(HeldTokens)

(* A request whose future is gone holds no permit.                           *)
FinishedHoldsNoPermit == \A o \in Ops : pc[o] = "done" => permit[o] = 0

(* A request sends one attempt for nothing and one after a region redirect;  *)
(* every other one was paid from the quota.                                  *)
RetriesAreBought ==
    \A o \in Ops : attempts[o] <= 1 + retries[o] + (IF redirected[o] THEN 1 ELSE 0)

(* A body that can be read only once is sent only once, also when a redirect *)
(* or a retryable error comes back.                                          *)
OneShotSentOnce == \A o \in Ops : ~replayable[o] => attempts[o] <= 1

(* A request that sleeps wakes within the elapsed limit of the policy and    *)
(* before its deadline, with a permit in hand: no time is spent on a retry   *)
(* that can not be made.                                                     *)
SleepFitsBudget ==
    \A o \in Ops : pc[o] = "sleep" =>
        /\ wake[o] <= started[o] + MaxElapsed
        /\ wake[o] < Deadline
        /\ permit[o] \in Costs

(* Every request ends, even if the service never answers.                    *)
RequestsEnd == \A o \in Ops : <>(pc[o] = "done")

(* S3Error::attempts: "Returns the number of completed request attempts      *)
(* represented by this error."                                               *)
ErrorCountsAttempts ==
    \A o \in Ops : result[o] = "error" => reported[o] = attempts[o]

(* RetryPolicy::max_elapsed: "the maximum elapsed time in which another      *)
(* attempt may begin".                                                       *)
RetriesBeginInTime ==
    [][\A o \in Ops : attempts[o] > 0 /\ attempts'[o] > attempts[o]
                        => now - started[o] <= MaxElapsed]_vars

===============================================================================
