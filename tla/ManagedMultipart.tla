--------------------------- MODULE ManagedMultipart ---------------------------
(***************************************************************************)
(* S3Client::multipart_upload (client/multipart_upload.rs): the task that  *)
(* owns a managed upload, the future of the caller that may be dropped at  *)
(* any time, the signed requests the task sends, and the S3 service that   *)
(* may answer late, twice or never.                                        *)
(*                                                                         *)
(* A request is a sequence of attempts (client/request/execute.rs, detailed *)
(* in RequestExecution).  The client may give up on an attempt whose bytes *)
(* it has already transmitted: the copy then stays on the wire (`late')    *)
(* and the service may still act on it, but no reply to it is ever read.   *)
(* Time is the nondeterministic passing of the transfer deadline and of    *)
(* the attempt, settle and cleanup timeouts.                               *)
(***************************************************************************)
EXTENDS Naturals, FiniteSets, Sequences

CONSTANTS
    PartCount,     \* PreparedMultipartSource::part_count of the source
    Concurrency,   \* MultipartOptions::concurrency
    MaxAttempts    \* RetryPolicy::max_attempts

ASSUME PartCountAssumption == PartCount \in Nat \ {0}
ASSUME ConcurrencyAssumption == Concurrency \in Nat \ {0}
ASSUME MaxAttemptsAssumption == MaxAttempts \in Nat \ {0}

Parts == 1..PartCount

(* The requests of one managed upload: one per part, and three others. *)
Create == 0
Complete == PartCount + 1
Abort == PartCount + 2
Calls == 0..PartCount + 2

VARIABLES
    pc,             \* where run_multipart_upload stands
    cancelled,      \* the watch channel the dropped owner sets
    expired,        \* the transfer deadline has passed
    next,           \* next_part of upload_parts
    completed,      \* MultipartUpload::completed_parts, the part numbers
    quiesceFailed,  \* ManagedUploadFailure::quiesce_failure is set
    outcome,        \* what the task returned
    call,           \* each request as the client sees it
    attempts,       \* how many attempts of it were transmitted
    late,           \* how many transmitted copies of it the client gave up on
    upload,         \* service: the upload whose ID the client holds
    stored,         \* service: the parts it stores for that upload
    orphans         \* service: open uploads whose ID no one holds

client == <<pc, cancelled, expired, next, completed, quiesceFailed, outcome>>
requests == <<call, attempts, late>>
service == <<upload, stored, orphans>>
vars == <<client, requests, service>>

-------------------------------------------------------------------------------
(* State of a request: not begun; begun with no attempt on the wire (body    *)
(* preparation, signing, backoff); transmitted; carried out by the service   *)
(* with the reply on its way; over.                                          *)
CallStates == {"unstarted", "ready", "sent", "accepted", "settled"}
Phases == {"prepare", "create", "upload", "quiesce", "complete", "abort", "done"}
Outcomes == {"pending", "ok", "failed", "failed_cleanup"}

(* The futures of part requests in FuturesUnordered, with requests `c'. *)
Pending(c) == {p \in Parts : c[p] \in {"ready", "sent", "accepted"}}

(* The phases in which the task polls the future of a request. *)
Polled(c) ==
    \/ c = Create /\ pc = "create"
    \/ c \in Parts /\ pc \in {"upload", "quiesce"}
    \/ c = Complete /\ pc = "complete"
    \/ c = Abort /\ pc = "abort"

Active(c) == Polled(c) /\ call[c] \in {"ready", "sent", "accepted"}

(* The service no longer sees, or still sees, the copies of the requests in  *)
(* `dropped' that were transmitted and not answered when the client gave up. *)
GiveUp(dropped) ==
    \E copies \in SUBSET {c \in dropped : call[c] = "sent"} :
        late' = [c \in Calls |-> IF c \in copies THEN late[c] + 1 ELSE late[c]]

(* A create that the service carried out and whose reply the client drops    *)
(* leaves an upload behind.                                                  *)
DropReply(c) ==
    orphans' = IF c = Create /\ call[c] = "accepted" THEN orphans + 1 ELSE orphans

Recorded(s) == {s[i] : i \in DOMAIN s}

(* The insertion point binary_search_by_key finds for a number that is not   *)
(* in s.                                                                     *)
InsertionPoint(s, p) ==
    CHOOSE i \in 0..Len(s) : /\ \A j \in 1..i : s[j] < p
                             /\ \A j \in i + 1..Len(s) : s[j] > p

(* Mutant of record_part: parts are kept in the order in which they finish. *)
record_part_unsorted(s, p) == Append(s, p)

(* MultipartUpload::record_part for a part number that is not in s. *)
record_part(s, p) ==
    LET index == InsertionPoint(s, p)
    IN  [i \in 1..Len(s) + 1 |-> IF i <= index THEN s[i]
                                 ELSE IF i = index + 1 THEN p ELSE s[i - 1]]

(* CompleteMultipartUploadRequest::new *)
validate_completed_parts(s) ==
    /\ s # <<>>
    /\ \A i \in 1..Len(s) - 1 : s[i] < s[i + 1]

(* Mutant of Scheduled: the loop stops before the last part. *)
ScheduledWithoutLast(c) ==
    {p \in Parts : /\ p >= next /\ p < PartCount
                   /\ p < next + (Concurrency - Cardinality(Pending(c)))}

(* The `while pending.len() < concurrency' loop: the parts that are pushed. *)
Scheduled(c) ==
    {p \in Parts : p >= next /\ p < next + (Concurrency - Cardinality(Pending(c)))}

(* The loop head of upload_parts after the requests became `c' and the list  *)
(* of finished parts became `s': push parts, wait if any is in flight, else  *)
(* build the completion.                                                     *)
ScheduleParts(c, s) ==
    LET pushed == Scheduled(c)
        scheduled == [q \in Calls |-> IF q \in pushed THEN "ready" ELSE c[q]]
        finished == Pending(scheduled) = {}
        valid == validate_completed_parts(s)
        begun == IF valid THEN Complete ELSE Abort
    IN  /\ next' = next + Cardinality(pushed)
        /\ completed' = s
        /\ pc' = IF ~finished THEN "upload" ELSE IF valid THEN "complete" ELSE "abort"
        /\ call' = IF finished THEN [scheduled EXCEPT ![begun] = "ready"] ELSE scheduled

-------------------------------------------------------------------------------
Init ==
    /\ pc = "prepare"
    /\ cancelled = FALSE
    /\ expired = FALSE
    /\ next = 1
    /\ completed = <<>>
    /\ quiesceFailed = FALSE
    /\ outcome = "pending"
    /\ call = [c \in Calls |-> "unstarted"]
    /\ attempts = [c \in Calls |-> 0]
    /\ late = [c \in Calls |-> 0]
    /\ upload = "none"
    /\ stored = {}
    /\ orphans = 0

(* Drop for OwnedMultipartTask; also when the future has returned. *)
DropOwner ==
    /\ ~cancelled
    /\ cancelled' = TRUE
    /\ UNCHANGED <<pc, expired, next, completed, quiesceFailed, outcome, requests, service>>

(* The transfer deadline passes. *)
Expire ==
    /\ ~expired
    /\ expired' = TRUE
    /\ UNCHANGED <<pc, cancelled, next, completed, quiesceFailed, outcome, requests, service>>

(* The source is ready, part_count accepts it and no cancellation is seen.   *)
(* The creation that follows is not cancellable.                             *)
PrepareOk ==
    /\ pc = "prepare" /\ ~cancelled
    /\ pc' = "create"
    /\ call' = [call EXCEPT ![Create] = "ready"]
    /\ UNCHANGED <<cancelled, expired, next, completed, quiesceFailed, outcome,
                   attempts, late, service>>

(* Cancellation, deadline, unreadable source, or part_count refuses it. *)
PrepareFails ==
    /\ pc = "prepare"
    /\ pc' = "done" /\ outcome' = "failed"
    /\ UNCHANGED <<cancelled, expired, next, completed, quiesceFailed, requests, service>>

-------------------------------------------------------------------------------
(* One attempt of a request, send_signed_inner.  The deadline is checked     *)
(* before every attempt: the transfer deadline for all requests but the      *)
(* abort, whose cleanup deadline passes as AbortFails.                       *)
Transmit(c) ==
    /\ Polled(c) /\ call[c] = "ready"
    /\ attempts[c] < MaxAttempts
    /\ c # Abort => ~expired
    /\ call' = [call EXCEPT ![c] = "sent"]
    /\ attempts' = [attempts EXCEPT ![c] = @ + 1]
    /\ UNCHANGED <<client, late, service>>

(* Mutant of AttemptFails: the retry starts the count again. *)
AttemptFailsUncounted(c) ==
    /\ Active(c) /\ call[c] # "ready"
    /\ GiveUp({c})
    /\ DropReply(c)
    /\ call' = [call EXCEPT ![c] = "ready"]
    /\ attempts' = [attempts EXCEPT ![c] = 0]
    /\ UNCHANGED <<client, upload, stored>>

(* The attempt fails and is retried: a transport error, an attempt timeout,  *)
(* a retryable reply that reports no effect.  The reply may be lost after    *)
(* the service acted, and the request may still be on its way.               *)
AttemptFails(c) ==
    /\ Active(c) /\ call[c] # "ready"
    /\ attempts[c] < MaxAttempts
    /\ GiveUp({c})
    /\ DropReply(c)
    /\ call' = [call EXCEPT ![c] = "ready"]
    /\ UNCHANGED <<client, attempts, upload, stored>>

(* The request ends with an error: not retryable, attempts, quota or         *)
(* deadline exhausted, or a body that could not be read or parsed.           *)
EndCall(c) ==
    /\ Active(c)
    /\ GiveUp({c})
    /\ DropReply(c)
    /\ UNCHANGED <<attempts, upload, stored>>

(* `?' on the creation: nothing to abort. *)
CreateFails ==
    /\ EndCall(Create)
    /\ call' = [call EXCEPT ![Create] = "settled"]
    /\ pc' = "done" /\ outcome' = "failed"
    /\ UNCHANGED <<cancelled, expired, next, completed, quiesceFailed>>

(* Mutant of CreateSucceeds: a cancellation seen here returns at once. *)
CreateSucceedsOrReturns ==
    /\ Active(Create) /\ call[Create] = "accepted"
    /\ upload' = "open"
    /\ IF cancelled
       THEN /\ pc' = "done" /\ outcome' = "failed"
            /\ UNCHANGED <<next, completed, call>>
       ELSE /\ ScheduleParts([call EXCEPT ![Create] = "settled"], completed)
            /\ UNCHANGED outcome
    /\ UNCHANGED <<cancelled, expired, quiesceFailed, attempts, late, stored, orphans>>

(* The upload ID arrives; upload_parts starts. *)
CreateSucceeds ==
    /\ Active(Create) /\ call[Create] = "accepted"
    /\ upload' = "open"
    /\ ScheduleParts([call EXCEPT ![Create] = "settled"], completed)
    /\ UNCHANGED <<cancelled, expired, quiesceFailed, outcome, attempts, late, stored, orphans>>

-------------------------------------------------------------------------------
(* pending.next() yields a finished part: record it and refill. *)
PartSucceeds(p) ==
    /\ pc = "upload" /\ call[p] = "accepted"
    /\ LET others == [call EXCEPT ![p] = "settled"]
       IN  IF p \in Recorded(completed)
           THEN pc' = "quiesce" /\ call' = others /\ UNCHANGED <<next, completed>>
           ELSE ScheduleParts(others, record_part(completed, p))
    /\ UNCHANGED <<cancelled, expired, quiesceFailed, outcome, attempts, late, service>>

(* pending.next() yields an error, which becomes the primary failure; in     *)
(* quiesce_part_requests it is ignored.                                      *)
PartFails(p) ==
    /\ EndCall(p)
    /\ call' = [call EXCEPT ![p] = "settled"]
    /\ pc' = "quiesce"
    /\ UNCHANGED <<cancelled, expired, next, completed, quiesceFailed, outcome>>

(* The select of upload_parts takes the cancellation or the deadline branch; *)
(* it is not biased, so a finished part may be waiting at that moment.       *)
StopScheduling ==
    /\ pc = "upload" /\ (cancelled \/ expired)
    /\ pc' = "quiesce"
    /\ UNCHANGED <<cancelled, expired, next, completed, quiesceFailed, outcome, requests, service>>

(* quiesce_part_requests: a part settles with success, which is dropped. *)
QuiescePart(p) ==
    /\ pc = "quiesce" /\ call[p] = "accepted"
    /\ call' = [call EXCEPT ![p] = "settled"]
    /\ UNCHANGED <<client, attempts, late, service>>

(* Mutant of QuiesceDone: the abort does not wait for the part futures. *)
QuiesceSkipped ==
    /\ pc = "quiesce"
    /\ pc' = "abort"
    /\ call' = [call EXCEPT ![Abort] = "ready"]
    /\ UNCHANGED <<cancelled, expired, next, completed, quiesceFailed, outcome,
                   attempts, late, service>>

(* Every part future has settled: the abort begins. *)
QuiesceDone ==
    /\ pc = "quiesce" /\ Pending(call) = {}
    /\ pc' = "abort"
    /\ call' = [call EXCEPT ![Abort] = "ready"]
    /\ UNCHANGED <<cancelled, expired, next, completed, quiesceFailed, outcome,
                   attempts, late, service>>

(* settle_until passes: the failure is noted and the futures are dropped     *)
(* with their transmitted requests unanswered.                               *)
QuiesceTimeout ==
    /\ pc = "quiesce" /\ Pending(call) # {}
    /\ quiesceFailed' = TRUE
    /\ pc' = "abort"
    /\ GiveUp(Pending(call))
    /\ call' = [c \in Calls |-> IF c = Abort THEN "ready"
                                ELSE IF c \in Pending(call) THEN "settled" ELSE call[c]]
    /\ UNCHANGED <<cancelled, expired, next, completed, outcome, attempts, service>>

-------------------------------------------------------------------------------
(* The completion succeeds. *)
CompleteSucceeds ==
    /\ Active(Complete) /\ call[Complete] = "accepted"
    /\ call' = [call EXCEPT ![Complete] = "settled"]
    /\ pc' = "done" /\ outcome' = "ok"
    /\ UNCHANGED <<cancelled, expired, next, completed, quiesceFailed, attempts, late, service>>

(* The completion fails: fail_with_abort. *)
CompleteFails ==
    /\ EndCall(Complete)
    /\ call' = [call EXCEPT ![Complete] = "settled", ![Abort] = "ready"]
    /\ pc' = "abort"
    /\ UNCHANGED <<cancelled, expired, next, completed, quiesceFailed, outcome>>

(* The select drops the completion because the owner is gone. *)
CompleteCancelled == cancelled /\ CompleteFails

(* fail_with_abort: the abort is confirmed. *)
AbortSucceeds ==
    /\ Active(Abort) /\ call[Abort] = "accepted"
    /\ call' = [call EXCEPT ![Abort] = "settled"]
    /\ pc' = "done"
    /\ outcome' = IF quiesceFailed THEN "failed_cleanup" ELSE "failed"
    /\ UNCHANGED <<cancelled, expired, next, completed, quiesceFailed, attempts, late, service>>

(* Mutant of AbortFails: the cleanup error is dropped. *)
AbortFailureIgnored ==
    /\ EndCall(Abort)
    /\ call' = [call EXCEPT ![Abort] = "settled"]
    /\ pc' = "done" /\ outcome' = "failed"
    /\ UNCHANGED <<cancelled, expired, next, completed, quiesceFailed>>

(* fail_with_abort: the abort failed or its cleanup deadline passed. *)
AbortFails ==
    /\ EndCall(Abort)
    /\ call' = [call EXCEPT ![Abort] = "settled"]
    /\ pc' = "done" /\ outcome' = "failed_cleanup"
    /\ UNCHANGED <<cancelled, expired, next, completed, quiesceFailed>>

-------------------------------------------------------------------------------
(* External: the S3 service carries out a request for the held upload.  A    *)
(* part that arrives after the abort may still be stored.  A request it      *)
(* refuses has no effect; the client sees that as a failed attempt.          *)
Effect(c) ==
    \/ /\ c \in Parts /\ upload \in {"open", "aborted"}
       /\ stored' = stored \cup {c}
       /\ UNCHANGED <<upload, orphans>>
    \/ /\ c = Complete /\ upload = "open" /\ Recorded(completed) \subseteq stored
       /\ upload' = "completed"
       /\ UNCHANGED <<stored, orphans>>
    \/ /\ c = Abort /\ upload \in {"open", "aborted"}
       /\ upload' = "aborted" /\ stored' = {}
       /\ UNCHANGED orphans

(* External: the attempt the client waits for is carried out.  The upload a  *)
(* create opens counts once its reply is read or dropped.                    *)
Serve(c) ==
    /\ call[c] = "sent"
    /\ IF c = Create THEN UNCHANGED service ELSE Effect(c)
    /\ call' = [call EXCEPT ![c] = "accepted"]
    /\ UNCHANGED <<client, attempts, late>>

(* External: a copy the client gave up on is carried out. *)
ServeLate(c) ==
    /\ late[c] > 0
    /\ late' = [late EXCEPT ![c] = @ - 1]
    /\ IF c = Create
       THEN orphans' = orphans + 1 /\ UNCHANGED <<upload, stored>>
       ELSE Effect(c)
    /\ UNCHANGED <<client, call, attempts>>

(* External: such a copy is lost or refused. *)
LoseLate(c) ==
    /\ late[c] > 0
    /\ late' = [late EXCEPT ![c] = @ - 1]
    /\ UNCHANGED <<client, call, attempts, service>>

-------------------------------------------------------------------------------
Request(c) == Transmit(c) \/ AttemptFails(c)

(* The steps of the owned task; each attempt, settle and cleanup timeout is  *)
(* one of them, so none waits for the service.                               *)
Task ==
    \/ PrepareOk \/ PrepareFails
    \/ CreateSucceeds \/ CreateFails
    \/ \E p \in Parts : PartSucceeds(p) \/ PartFails(p) \/ QuiescePart(p)
    \/ StopScheduling \/ QuiesceDone \/ QuiesceTimeout
    \/ CompleteSucceeds \/ CompleteFails \/ CompleteCancelled
    \/ AbortSucceeds \/ AbortFails
    \/ \E c \in Calls : Request(c)

Service == \E c \in Calls : Serve(c) \/ ServeLate(c) \/ LoseLate(c)

Next == Task \/ DropOwner \/ Expire \/ Service

Spec == Init /\ [][Next]_vars

(* The runtime polls the task, and timers fire. *)
FairSpec == Spec /\ WF_vars(Task)

-------------------------------------------------------------------------------
(* Every variable has its type. *)
TypeOK ==
    /\ pc \in Phases
    /\ cancelled \in BOOLEAN /\ expired \in BOOLEAN /\ quiesceFailed \in BOOLEAN
    /\ next \in 1..PartCount + 1
    /\ completed \in Seq(Parts)
    /\ outcome \in Outcomes
    /\ call \in [Calls -> CallStates]
    /\ attempts \in [Calls -> 0..MaxAttempts]
    /\ late \in [Calls -> Nat]
    /\ upload \in {"none", "open", "aborted", "completed"}
    /\ stored \subseteq Parts
    /\ orphans \in Nat

(* run_multipart_upload: an upload the service completed holds every part,   *)
(* and the completion listed all part numbers in ascending order, whatever   *)
(* the order in which parts finished, failed attempts were repeated and late *)
(* copies arrived.                                                           *)
PublishedObjectIsWhole ==
    upload = "completed" =>
        /\ stored = Parts
        /\ completed = [i \in Parts |-> i]

(* An upload all of whose parts were recorded reaches CompleteMultipartUpload: *)
(* record_part keeps the order that CompleteMultipartUploadRequest::new       *)
(* demands, and no cancellation or deadline comes between the two.            *)
WholeUploadIsCompleted ==
    Recorded(completed) = Parts => call[Complete] # "unstarted"

(* quiesce_part_requests comes before fail_with_abort, and completion after  *)
(* the last part: when the upload is ended, one way or the other, no part    *)
(* future is left that could transmit another request for it.                *)
NoPartOutlivesUpload ==
    call[Abort] # "unstarted" \/ call[Complete] # "unstarted"
        => Pending(call) = {}

(* upload_parts holds at most `concurrency' part bodies in memory, also      *)
(* while it quiesces.                                                        *)
InFlightBound == Cardinality(Pending(call)) <= Concurrency

(* multipart_upload implements its contract: success means published, a      *)
(* failure without cleanup_failure means never published and nothing open,   *)
(* even though completions and aborts may be carried out after the client    *)
(* gave up on them.                                                          *)
Contract == INSTANCE UploadContract WITH upload <- upload, outcome <- outcome
ImplementsContract == Contract!Spec

(* The owned task always ends, with or without answers from the service.     *)
TaskEnds == <>(pc = "done")

(* Once the owner is gone, an upload the client opened does not stay open,   *)
(* unless the task ends with a cleanup failure.                              *)
DroppedUploadIsCleaned ==
    cancelled /\ upload = "open" ~>
        upload \in {"aborted", "completed"} \/ outcome = "failed_cleanup"

(* "Once creation starts, allow it to finish even after cancellation so a    *)
(* successful response cannot be discarded together with the upload ID       *)
(* needed for cleanup": a failure without cleanup_failure leaves no upload   *)
(* behind.                                                                   *)
CleanFailureLeavesNoUpload == outcome = "failed" => orphans = 0

(* "If requests cannot settle, the error exposes cleanup failure because     *)
(* abort cannot be guaranteed to win that race": a failure without           *)
(* cleanup_failure leaves no part behind.                                    *)
CleanFailureLeavesNoParts == outcome = "failed" => stored = {}

===============================================================================
