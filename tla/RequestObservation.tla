-------------------------- MODULE RequestObservation --------------------------
(***************************************************************************)
(* RequestExecution together with the events that send_signed_inner hands   *)
(* to the configured RequestObserver.  observe() catches a panic of the     *)
(* observer, so that an event never changes what the request does.          *)
(***************************************************************************)
EXTENDS RequestExecution

VARIABLE event   \* the last event of each request

ovars == <<vars, event>>

OInit == Init /\ event = [o \in Ops |-> [kind |-> "none", attempt |-> 0]]

(* S3Client::observe with the kind and the attempt of a RequestEvent. *)
observe(o, kind, n) == event' = [event EXCEPT ![o] = [kind |-> kind, attempt |-> n]]

Started(o) == StartAttempt(o) /\ observe(o, "AttemptStarted", attempts[o] + 1)
Succeeded(o) == Succeed(o) /\ observe(o, "AttemptSucceeded", attempts[o])
Redirected(o) == Redirect(o) /\ observe(o, "RegionRedirected", attempts[o])

(* Mutant of Failed: the retry is announced before the quota is asked. *)
FailedEager(o, classification, retry_after) ==
    /\ FailAttempt(o, classification, retry_after)
    /\ observe(o, IF pc'[o] = "sleep" \/ reason'[o] = "RetryQuota" THEN "RetryScheduled" ELSE "AttemptFailed", attempts[o])

(* Every branch that returns the error says AttemptFailed; the one that      *)
(* sleeps says RetryScheduled, once the permit is in hand.                   *)
Failed(o, classification, retry_after) ==
    /\ FailAttempt(o, classification, retry_after)
    /\ observe(o, IF pc'[o] = "sleep" THEN "RetryScheduled" ELSE "AttemptFailed", attempts[o])

(* No event comes with the entry, the end of a sleep, or a `?' in front of   *)
(* an attempt.                                                               *)
Unobserved(o) == (Begin(o) \/ WakeUp(o) \/ FailBeforeAttempt(o)) /\ UNCHANGED event

OStep(o) ==
    \/ Started(o) \/ Succeeded(o) \/ Redirected(o) \/ Unobserved(o)
    \/ \E classification \in Classifications, retry_after \in RetryAfterHeaders :
          Failed(o, classification, retry_after)

ODrop(o) == DropRequest(o) /\ UNCHANGED event
OTick == Tick /\ UNCHANGED event

ONext == OTick \/ \E o \in Ops : OStep(o) \/ ODrop(o)

OSpec == OInit /\ [][ONext]_ovars

(* As in RequestExecution: every request is polled, and the clock runs. *)
FairOSpec == OSpec /\ WF_ovars(OTick) /\ \A o \in Ops : WF_ovars(OStep(o))

-------------------------------------------------------------------------------
(* The events of every request keep the promise that RequestLifecycle makes  *)
(* to an observer, in every interleaving of retries, redirects, quota        *)
(* refusals, deadlines and drops.                                            *)
Lifecycle == INSTANCE RequestLifecycle WITH last <- event, turned <- redirected, answer <- result
ImplementsLifecycle == Lifecycle!Spec

(* The last event carries the number of attempts that the client has sent,   *)
(* and an error with a retry context the number of its AttemptFailed event:  *)
(* what an observer counts and what S3Error::attempts says agree.            *)
EventsCountAttempts ==
    \A o \in Ops :
        /\ event[o].attempt = attempts[o]
        /\ reason[o] # "none" => event[o].kind = "AttemptFailed" /\ event[o].attempt = reported[o]
===============================================================================
