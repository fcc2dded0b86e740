--------------------------- MODULE RequestLifecycle ---------------------------
(***************************************************************************)
(* What a RequestObserver may conclude from the events of each request      *)
(* (observer.rs): the promise that RequestObservation is shown to keep.     *)
(*                                                                         *)
(*   - attempts are numbered from one without a gap, up to the limit;       *)
(*   - an attempt that started is closed by exactly one event with its      *)
(*     number, unless the caller drops the request;                         *)
(*   - AttemptSucceeded and AttemptFailed come in the step that gives the   *)
(*     caller its result, and nothing comes behind them;                    *)
(*   - a request may also fail between two attempts, without an event.      *)
(***************************************************************************)
EXTENDS Naturals

CONSTANTS Ops, MaxAttempts

VARIABLES
    last,     \* the last event of each request
    turned,   \* a region redirect was announced
    answer    \* what the caller got

vars == <<last, turned, answer>>

Kinds == {"none", "AttemptStarted", "AttemptSucceeded", "AttemptFailed", "RetryScheduled", "RegionRedirected"}
Between == {"none", "RetryScheduled", "RegionRedirected"}

Init ==
    /\ last = [o \in Ops |-> [kind |-> "none", attempt |-> 0]]
    /\ turned = [o \in Ops |-> FALSE]
    /\ answer = [o \in Ops |-> "none"]

Announce(o, kind, n) == last' = [last EXCEPT ![o] = [kind |-> kind, attempt |-> n]]
Answer(o, value) == answer' = [answer EXCEPT ![o] = value]

Start(o) ==
    /\ answer[o] = "none" /\ last[o].kind \in Between /\ last[o].attempt < MaxAttempts
    /\ Announce(o, "AttemptStarted", last[o].attempt + 1)
    /\ UNCHANGED <<turned, answer>>

(* The attempt is over and another one is to follow. *)
Continue(o) ==
    /\ answer[o] = "none" /\ last[o].kind = "AttemptStarted" /\ last[o].attempt < MaxAttempts
    /\ \/ Announce(o, "RetryScheduled", last[o].attempt) /\ UNCHANGED turned
       \/ /\ ~turned[o] /\ turned' = [turned EXCEPT ![o] = TRUE]
          /\ Announce(o, "RegionRedirected", last[o].attempt)
    /\ UNCHANGED answer

(* The attempt is over and so is the request. *)
End(o) ==
    /\ answer[o] = "none" /\ last[o].kind = "AttemptStarted"
    /\ \/ Announce(o, "AttemptSucceeded", last[o].attempt) /\ Answer(o, "ok")
       \/ Announce(o, "AttemptFailed", last[o].attempt) /\ Answer(o, "error")
    /\ UNCHANGED turned

(* The request fails where no attempt is open. *)
FailSilently(o) ==
    /\ answer[o] = "none" /\ last[o].kind \in Between
    /\ Answer(o, "error")
    /\ UNCHANGED <<last, turned>>

Drop(o) == answer[o] = "none" /\ Answer(o, "dropped") /\ UNCHANGED <<last, turned>>

Next == \E o \in Ops : Start(o) \/ Continue(o) \/ End(o) \/ FailSilently(o) \/ Drop(o)

Spec == Init /\ [][Next]_vars
===============================================================================
