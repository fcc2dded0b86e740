--------------------------- MODULE ResponseHandling ---------------------------
(***************************************************************************)
(* One attempt from the transport to its verdict: send and                   *)
(* classify_client_error (transport/mod.rs), collect_response,               *)
(* response_error and the classification of service errors                   *)
(* (client/request/response.rs), and the two success modes of                *)
(* send_signed_inner.  The peer decides when a frame comes and what it is;   *)
(* the reader is polled at any moment after a frame or a timer is ready.     *)
(***************************************************************************)
EXTENDS Integers

CONSTANTS
    Statuses,          \* statuses of responses
    Codes,             \* S3 error codes; "" is a document without a code
    Maximum,           \* the size limit of the body that is collected
    IdleTimeout,       \* idle_body_timeout
    AttemptTimeout,    \* attempt_timeout
    OperationTimeout,  \* operation_timeout
    MaxDelivered,      \* bound: bytes a peer sends
    Horizon            \* bound: the clock stops here, after every deadline

(* What the constants have to be. *)
ResponseAssumption ==
    /\ Maximum \in Nat /\ IdleTimeout \in Nat \ {0} /\ AttemptTimeout \in Nat \ {0}
    /\ OperationTimeout \in Nat \ {0} /\ MaxDelivered \in Nat
    /\ Horizon \in Nat /\ Horizon >= OperationTimeout

VARIABLES
    now,            \* the clock
    mode,           \* "xml" (CollectedXml), "drain" (Streaming, then collect_response)
    https,          \* the scheme of the request
    pc,             \* send, check, wait, done
    response,       \* status, announced length and document of the response; {} is none
    frame,          \* the frame that is ready to be read
    delivered,      \* bytes the peer has sent
    output,         \* bytes collected
    idle_deadline,
    last_byte,      \* history: when the last byte was collected
    result          \* {} is none yet; "ok" or an error

vars == <<now, mode, https, pc, response, frame, delivered, output, idle_deadline, last_byte, result>>

deadline == OperationTimeout

Ok == [category |-> "Ok", retry |-> "Never", phase |-> "none", code |-> ""]

(* S3Error::new and its constructors *)
Error(category, retry) == [category |-> category, retry |-> retry, phase |-> "none", code |-> ""]
timeout(phase) == [category |-> "Timeout", retry |-> "Retryable", phase |-> phase, code |-> ""]
transport == Error("Transport", "Retryable")
integrity == Error("Integrity", "Never")
invalid_response == Error("InvalidResponse", "Never")
oversized_response == Error("OversizedResponse", "Never")

Init ==
    /\ now = 0
    /\ mode \in {"xml", "drain"} /\ https \in BOOLEAN
    /\ pc = "send" /\ response = {} /\ frame = "none"
    /\ delivered = 0 /\ output = 0 /\ idle_deadline = 0 /\ last_byte = 0
    /\ result = {}

Finish(verdict) ==
    /\ pc' = "done" /\ result' = {verdict}
    /\ UNCHANGED <<now, mode, https, response, delivered, output, idle_deadline, last_byte>>

-------------------------------------------------------------------------------
(* What a failed hyper request may carry: the S3Error of the upload body, or *)
(* a connect error with an I/O timeout or a TLS error in its chain.          *)
ClientErrors ==
    [body : {{}, {integrity}, {timeout("Operation")}}, connect : BOOLEAN,
     io_timeout : BOOLEAN, tls : BOOLEAN]

(* Mutant of classify_client_error: the chain is not searched for S3Errors. *)
classify_client_error_shallow(error) ==
    IF error.connect /\ error.io_timeout THEN timeout("Connect")
    ELSE IF https /\ error.connect /\ error.tls THEN Error("Tls", "Never")
    ELSE transport

classify_client_error(error) ==
    IF error.body # {} THEN CHOOSE e \in error.body : TRUE
    ELSE IF error.connect /\ error.io_timeout THEN timeout("Connect")
    ELSE IF https /\ error.connect /\ error.tls THEN Error("Tls", "Never")
    ELSE transport

(* Transport::send: the attempt's own timeout, an error, or a response. *)
SendTimeout ==
    /\ pc = "send" /\ now >= AttemptTimeout
    /\ Finish(timeout("Request")) /\ UNCHANGED frame

SendFails(error) ==
    /\ pc = "send"
    /\ Finish(classify_client_error(error)) /\ UNCHANGED frame

(* collect_response: the announced length is compared before a byte is read. *)
Respond(status, hint, document) ==
    /\ pc = "send"
    /\ response' = {[status |-> status, hint |-> hint, document |-> document]}
    /\ idle_deadline' = now + IdleTimeout /\ last_byte' = now
    /\ IF \E length \in hint : length > Maximum
       THEN pc' = "done" /\ result' = {oversized_response}
       ELSE pc' = "check" /\ UNCHANGED result
    /\ UNCHANGED <<now, mode, https, frame, delivered, output>>

-------------------------------------------------------------------------------
IsSuccess(status) == status \in 200..299

(* classify_service_error.  Every code of the code's lists is one of these   *)
(* representatives.                                                          *)
CodeCategory ==
    [code \in {"ExpiredToken", "AccessDenied", "NoSuchKey", "PreconditionFailed", "OperationAborted",
               "SlowDown", "InternalError", "RequestTimeout"} |->
        CASE code = "ExpiredToken" -> "Authentication" [] code = "AccessDenied" -> "Authorization"
          [] code = "NoSuchKey" -> "NotFound" [] code = "PreconditionFailed" -> "Precondition"
          [] code = "OperationAborted" -> "Conflict" [] code = "SlowDown" -> "Throttling"
          [] OTHER -> "Server"]

StatusCategory(status) ==
    CASE status = 401 -> "Authentication" [] status = 403 -> "Authorization"
      [] status = 404 -> "NotFound" [] status = 409 -> "Conflict"
      [] status = 412 -> "Precondition" [] status = 429 -> "Throttling"
      [] status = 408 \/ status \in 500..599 -> "Server"
      [] OTHER -> "InvalidResponse"

(* Mutant of classify_service_error: the status decides. *)
classify_by_status(status, code) == StatusCategory(status)

classify_service_error(status, code) ==
    IF code \in DOMAIN CodeCategory THEN CodeCategory[code] ELSE StatusCategory(status)

classify_retry(status, code, category) ==
    CASE category = "Throttling" -> "Throttled"
      [] category \in {"Server", "Transport", "Timeout"} -> "Retryable"
      [] category = "Conflict" /\ code = "OperationAborted" -> "Retryable"
      [] OTHER -> IF status \in {500, 502, 503, 504} THEN "Retryable" ELSE "Never"

service_error(status, code) ==
    LET category == classify_service_error(status, code)
    IN  [category |-> category, retry |-> classify_retry(status, code, category),
         phase |-> "none", code |-> code]

(* The verdict on a whole body: response_error, or the success mode.  A      *)
(* document is an error document with its code, the expected result, or no   *)
(* XML that parses.                                                          *)
Documents == [root : {"Error"}, code : Codes] \cup [root : {"Result", "garbage"}, code : {""}]

Verdict(answer) ==
    IF ~IsSuccess(answer.status)
    THEN service_error(answer.status, IF answer.document.root = "Error" THEN answer.document.code ELSE "")
    ELSE IF mode = "drain" THEN Ok
    ELSE IF answer.document.root = "garbage" THEN invalid_response
    ELSE IF answer.document.root = "Error" THEN service_error(200, answer.document.code)
    ELSE Ok

-------------------------------------------------------------------------------
(* collect_incoming *)

(* Mutant of Check: only the timer of timeout_at ends the loop. *)
CheckNothing ==
    /\ pc = "check"
    /\ pc' = "wait"
    /\ UNCHANGED <<now, mode, https, response, frame, delivered, output, idle_deadline, last_byte, result>>

(* The head of the loop. *)
Check ==
    /\ pc = "check"
    /\ IF deadline <= now THEN Finish(timeout("Operation")) /\ UNCHANGED frame
       ELSE IF idle_deadline <= now THEN Finish(timeout("ResponseBody")) /\ UNCHANGED frame
       ELSE /\ pc' = "wait"
            /\ UNCHANGED <<now, mode, https, response, frame, delivered, output, idle_deadline, last_byte, result>>

(* Mutant of WaitTimesOut: the phases are swapped. *)
WaitTimesOutSwapped ==
    /\ pc = "wait" /\ frame = "none"
    /\ now >= deadline \/ now >= idle_deadline
    /\ Finish(timeout(IF deadline <= idle_deadline THEN "ResponseBody" ELSE "Operation"))
    /\ UNCHANGED frame

(* timeout_at: it polls the body first, so that a ready frame wins. *)
WaitTimesOut ==
    /\ pc = "wait" /\ frame = "none"
    /\ now >= deadline \/ now >= idle_deadline
    /\ Finish(timeout(IF deadline <= idle_deadline THEN "Operation" ELSE "ResponseBody"))
    /\ UNCHANGED frame

(* Mutant of Oversizes: a body of exactly the limit is refused. *)
OversizesEarly(length) == length >= Maximum

(* The size check on the new length. *)
Oversizes(length) == length > Maximum

(* Mutant of TakeFrame: a broken body ends like a complete one. *)
TakeFrameLenient ==
    /\ pc = "wait" /\ frame # "none" /\ frame' = "none"
    /\ CASE frame \in {"end", "broken"} -> \E answer \in response : Finish(Verdict(answer))
         [] frame \in {"trailers", "empty"} ->
              /\ pc' = "check"
              /\ UNCHANGED <<now, mode, https, response, delivered, output, idle_deadline, last_byte, result>>
         [] frame = "data" ->
              IF Oversizes(output + 1) THEN Finish(oversized_response)
              ELSE /\ output' = output + 1 /\ idle_deadline' = now + IdleTimeout /\ last_byte' = now
                   /\ pc' = "check" /\ UNCHANGED <<now, mode, https, response, delivered, result>>

(* A frame is read: the end, an error, trailers, an empty one, or data. *)
TakeFrame ==
    /\ pc = "wait" /\ frame # "none" /\ frame' = "none"
    /\ CASE frame = "end" -> \E answer \in response : Finish(Verdict(answer))
         [] frame = "broken" -> Finish(transport)
         [] frame \in {"trailers", "empty"} ->
              /\ pc' = "check"
              /\ UNCHANGED <<now, mode, https, response, delivered, output, idle_deadline, last_byte, result>>
         [] frame = "data" ->
              IF Oversizes(output + 1) THEN Finish(oversized_response)
              ELSE /\ output' = output + 1 /\ idle_deadline' = now + IdleTimeout /\ last_byte' = now
                   /\ pc' = "check" /\ UNCHANGED <<now, mode, https, response, delivered, result>>

(* The peer: a body of an announced length ends when all of it was sent,     *)
(* which hyper enforces.                                                     *)
PeerSends(sent) ==
    /\ pc \in {"check", "wait"} /\ frame = "none"
    /\ sent = "data" => delivered < MaxDelivered
    /\ sent \in {"data", "end"} =>
          \A answer \in response : \A length \in answer.hint :
              IF sent = "data" THEN delivered < length ELSE delivered = length
    /\ frame' = sent /\ delivered' = IF sent = "data" THEN delivered + 1 ELSE delivered
    /\ UNCHANGED <<now, mode, https, pc, response, output, idle_deadline, last_byte, result>>

Tick ==
    /\ now < Horizon /\ pc # "done"
    /\ now' = now + 1
    /\ UNCHANGED <<mode, https, pc, response, frame, delivered, output, idle_deadline, last_byte, result>>

Reader == SendTimeout \/ Check \/ WaitTimesOut \/ TakeFrame

Next ==
    \/ Reader \/ Tick
    \/ \E error \in ClientErrors : SendFails(error)
    \/ \E status \in Statuses, hint \in {{}} \cup {{n} : n \in 0..MaxDelivered}, document \in Documents :
          Respond(status, hint, document)
    \/ \E sent \in {"data", "empty", "trailers", "end", "broken"} : PeerSends(sent)

Spec == Init /\ [][Next]_vars

-------------------------------------------------------------------------------
TypeOK ==
    /\ now \in 0..Horizon /\ mode \in {"xml", "drain"} /\ https \in BOOLEAN
    /\ pc \in {"send", "check", "wait", "done"}
    /\ frame \in {"none", "data", "empty", "trailers", "end", "broken"}
    /\ delivered \in 0..MaxDelivered /\ output \in 0..Maximum
    /\ idle_deadline \in 0..(Horizon + IdleTimeout) /\ last_byte \in 0..Horizon
    /\ pc = "done" <=> result # {}

(* Success is reported only for a 2xx response whose body arrived whole and   *)
(* within the limit, and where the operation reads XML only if the document   *)
(* is not an error embedded in a 200.                                         *)
SuccessIsEarned ==
    Ok \in result => \A answer \in response :
        /\ IsSuccess(answer.status)
        /\ output = delivered /\ output <= Maximum /\ frame = "none"
        /\ \A length \in answer.hint : output = length
        /\ mode = "xml" => answer.document.root = "Result"

(* A response is called oversized only when it announces or delivers more     *)
(* than the limit: a body of exactly the limit passes.                        *)
OversizedIsTruthful ==
    oversized_response \in result =>
        delivered > Maximum \/ \E answer \in response : \E length \in answer.hint : length > Maximum

(* A timeout names the phase that ran out: the idle timeout only when no byte *)
(* came for that long, however many empty frames did, and the operation's     *)
(* deadline or the attempt's timeout only when it has passed.                 *)
TimeoutPhasesAreTruthful ==
    \A verdict \in result :
        /\ verdict.phase = "ResponseBody" => now - last_byte >= IdleTimeout
        /\ verdict.phase = "Operation" /\ response # {} => now >= deadline
        /\ verdict.phase = "Request" => now >= AttemptTimeout

(* The status S3 sends with a code. *)
UsualStatus ==
    [code \in DOMAIN CodeCategory |->
        CASE code \in {"ExpiredToken", "RequestTimeout"} -> 400 [] code = "AccessDenied" -> 403
          [] code = "NoSuchKey" -> 404 [] code = "PreconditionFailed" -> 412
          [] code = "OperationAborted" -> 409 [] code = "SlowDown" -> 503 [] OTHER -> 500]

(* An error embedded in a 200 response is judged, category and retry, as the  *)
(* same error would be under its own status.                                  *)
EmbeddedErrorsCountAsTheirStatus ==
    \A verdict \in result : verdict.code \in DOMAIN UsualStatus
        /\ (\E answer \in response : IsSuccess(answer.status))
        => verdict = service_error(UsualStatus[verdict.code], verdict.code)

(* An upload body that found its source changed ends the operation: that      *)
(* failure comes out of hyper as a request error, and is not taken for a      *)
(* transport failure, which would be retried.                                 *)
BodyFailureKept ==
    \A error \in ClientErrors : SendFails(error) => \A cause \in error.body : result' = {cause}

BodyFailuresKeepTheirVerdict == [][BodyFailureKept]_vars

(* What the verdict on an attempt promises to the retry loop and the caller.  *)
VerdictsAreTruthful ==
    /\ SuccessIsEarned /\ OversizedIsTruthful /\ TimeoutPhasesAreTruthful
    /\ EmbeddedErrorsCountAsTheirStatus
===============================================================================
