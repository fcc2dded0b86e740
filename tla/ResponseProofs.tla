----------------------------- MODULE ResponseProofs -----------------------------
(***************************************************************************)
(* The safety of Download for every object, chunk length and timeout, and  *)
(* of ResponseHandling for every size limit, timeout, status and code; and *)
(* of object operations for any callers, attempts, keys and requests.      *)
(*                                                                         *)
(* The destination of a download is right because of what holds before the *)
(* rename: every byte the stream yielded is in the chunk being written, in *)
(* the write that runs in the background or in the file, unless a failed   *)
(* write is remembered (Accounting); each phase then adds one guarantee,   *)
(* and a success keeps them all (Outcome).  The verdict on an attempt is   *)
(* right because all that was delivered is collected, but for a frame that *)
(* is ready, and the idle timer runs from the last byte (Collecting).      *)
(***************************************************************************)
EXTENDS Responses, FiniteSetTheorems, SequenceTheorems, WellFoundedInduction, TLAPS

(* What the code has checked of a download's constants. *)
LEMMA DownloadConstants ==
    /\ Size \in Nat
    /\ MaxChunk \in Nat \ {0}
    /\ Unknown \notin Nat
    /\ IdleTimeout \in Nat \ {0}
    /\ OperationTimeout \in Nat \ {0}
    /\ Horizon \in Nat /\ Horizon >= OperationTimeout
BY ResponsesAssumption DEF DL!DownloadAssumption

Running == {"create", "get", "stream", "write", "flush", "sync", "persist"}

(* No byte is in two places, and none is lost without a trace. *)
Accounting ==
    /\ file + background + chunk <= received
    /\ pc \in Running /\ ~failedWrite => file + background + chunk = received
    /\ pc \in Running /\ pc # "write" => chunk = 0

(* What each phase of download_to_path adds. *)
PhaseInv ==
    /\ pc \in Running => returned = "none"
    /\ pc = "create" => temp = "none"
    /\ pc \in Running \ {"create"} => temp = "present"
    /\ pc \in {"flush", "sync", "persist"} => DL!Complete
    /\ pc \in {"sync", "persist"} => ~failedWrite /\ background = 0
    /\ pc = "persist" => durable = file

(* What holds once the caller has its answer. *)
Outcome ==
    /\ dest = "new" => returned = "ok"
    /\ returned = "ok" => /\ DL!Complete
                          /\ background = 0 /\ file = received /\ durable = received
                          /\ temp = "renamed"
                          /\ pc # "crashed" => dest = "new"
    /\ returned \in {"failed", "dropped"} => temp \in {"none", "detached", "removed"}

DownloadInv == DL!TypeOK /\ Accounting /\ PhaseInv /\ Outcome

LEMMA DownloadInitInv == DL!Init => DownloadInv
<1> SUFFICES ASSUME DL!Init PROVE DownloadInv
  OBVIOUS
<1>1. verified \in BOOLEAN /\ genuine \in BOOLEAN /\ failedWrite \in BOOLEAN
  BY DEF DL!Init
<1>2. DL!TypeOK
  BY <1>1, DownloadConstants DEF DL!Init, DL!TypeOK, DL!Lengths
<1>3. Accounting
  BY DEF DL!Init, Accounting
<1>4. PhaseInv /\ Outcome
  BY DEF DL!Init, PhaseInv, Outcome, Running
<1> QED BY <1>2, <1>3, <1>4 DEF DownloadInv

(* What an early return keeps. *)
LEMMA FailKeeps ==
    ASSUME DownloadInv, pc \in Running, DL!Fail
    PROVE  DownloadInv'
BY DownloadConstants DEF DL!Fail, DL!Leave, DownloadInv, DL!TypeOK, Accounting, PhaseInv, Outcome, Running,
   DL!Lengths, DL!Complete, DL!stream

LEMMA TaskKeeps == ASSUME DownloadInv, DL!Task PROVE DownloadInv'
<1> USE DownloadConstants DEF Running, DL!Lengths
<1>1. ASSUME pc \in Running, DL!Fail PROVE DownloadInv'
  BY <1>1, FailKeeps
<1>2. CASE DL!CreateTemp
  BY <1>2 DEF DL!CreateTemp, DownloadInv, DL!TypeOK, Accounting, PhaseInv, Outcome, DL!Complete, DL!stream
<1>3. CASE DL!CreateTempFails \/ DL!GetObjectFails \/ DL!PollTimeout \/ DL!SyncAllFails \/ DL!PersistFails
  BY <1>1, <1>3 DEF DL!CreateTempFails, DL!GetObjectFails, DL!PollTimeout, DL!SyncAllFails, DL!PersistFails
<1>4. ASSUME NEW length \in DL!Lengths \cup {Unknown}, NEW sha256 \in BOOLEAN,
             DL!GetObject(length, sha256)
      PROVE  DownloadInv'
  BY <1>4 DEF DL!GetObject, DownloadInv, DL!TypeOK, Accounting, PhaseInv, Outcome, DL!Complete, DL!disk
<1>5. CASE DL!WriteChunk
  <2>1. CASE failedWrite
    BY <1>1, <1>5, <2>1 DEF DL!WriteChunk
  <2>2. CASE ~failedWrite
    BY <1>5, <2>2 DEF DL!WriteChunk, DownloadInv, DL!TypeOK, Accounting, PhaseInv, Outcome, DL!Complete, DL!stream
  <2> QED BY <2>1, <2>2
<1>6. CASE DL!Flush
  <2>1. CASE failedWrite
    BY <1>1, <1>6, <2>1 DEF DL!Flush
  <2>2. CASE ~failedWrite
    BY <1>6, <2>2 DEF DL!Flush, DownloadInv, DL!TypeOK, Accounting, PhaseInv, Outcome, DL!Complete, DL!stream, DL!disk
  <2> QED BY <2>1, <2>2
<1>7. CASE DL!SyncAll
  BY <1>7 DEF DL!SyncAll, DownloadInv, DL!TypeOK, Accounting, PhaseInv, Outcome, DL!Complete, DL!stream
<1>8. CASE DL!Persist
  BY <1>8 DEF DL!Persist, DownloadInv, DL!TypeOK, Accounting, PhaseInv, Outcome, DL!Complete, DL!stream
<1> QED
  BY <1>2, <1>3, <1>4, <1>5, <1>6, <1>7, <1>8 DEF DL!Task

LEMMA BodyKeeps == ASSUME DownloadInv, DL!Body PROVE DownloadInv'
<1> USE DownloadConstants DEF Running, DL!Lengths
<1>1. ASSUME pc \in Running, DL!Fail PROVE DownloadInv'
  BY <1>1, FailKeeps
<1>2. ASSUME NEW length \in 1..MaxChunk, NEW intact \in BOOLEAN, DL!PollChunk(length, intact)
      PROVE  DownloadInv'
  <2>1. CASE DL!TooLong(received + length)
    BY <1>2, <2>1 DEF DL!PollChunk, DL!Leave, DownloadInv, DL!TypeOK, Accounting, PhaseInv, Outcome, DL!Complete
  <2>2. CASE ~DL!TooLong(received + length)
    <3>1. genuine' \in BOOLEAN
      BY <1>2, <2>2 DEF DL!PollChunk
    <3> QED
      BY <1>2, <2>2, <3>1 DEF DL!PollChunk, DownloadInv, DL!TypeOK, Accounting, PhaseInv, Outcome,
         DL!Complete, DL!disk
  <2> QED BY <2>1, <2>2
<1>3. CASE DL!PollError
  BY <1>1, <1>3 DEF DL!PollError
<1>4. CASE DL!PollEnd
  <2>1. CASE DL!Complete
    BY <1>4, <2>1 DEF DL!PollEnd, DownloadInv, DL!TypeOK, Accounting, PhaseInv, Outcome, DL!Complete, DL!stream, DL!disk
  <2>2. CASE ~DL!Complete
    BY <1>1, <1>4, <2>2 DEF DL!PollEnd
  <2> QED BY <2>1, <2>2
<1>5. CASE \E length \in 1..MaxChunk, intact \in BOOLEAN : DL!PollChunk(length, intact)
  BY <1>2, <1>5
<1> QED
  BY <1>3, <1>4, <1>5 DEF DL!Body

(* A file that lost bytes holds no more than before. *)
LEMMA LessFits ==
    ASSUME NEW f \in Nat, NEW g \in Nat, NEW b \in Nat, NEW c \in Nat, NEW r \in Nat,
           f + b + c <= r, g <= f
    PROVE  g + 0 + c <= r
OBVIOUS

LEMMA CrashKeeps == ASSUME DownloadInv, DL!Crash PROVE DownloadInv'
<1>1. file' \in DL!Lengths /\ durable' \in 0..file' /\ file' <= file
  BY DownloadConstants DEF DL!Crash, DownloadInv, DL!TypeOK, DL!Lengths
<1>2. dest' \in {"old", "new"} /\ (dest' = "new" => dest = "new")
  BY DEF DL!Crash, DownloadInv, DL!TypeOK
<1>3. DL!TypeOK'
  BY <1>1, <1>2, DownloadConstants DEF DL!Crash, DownloadInv, DL!TypeOK, DL!Lengths, DL!stream
<1>4. Accounting'
  <2>1. file \in Nat /\ background \in Nat /\ chunk \in Nat /\ received \in Nat
        /\ file + background + chunk <= received
    BY DownloadConstants DEF DownloadInv, DL!TypeOK, DL!Lengths, Accounting
  <2>2. file' \in Nat /\ file' <= file
    BY <1>1, DownloadConstants DEF DL!Lengths
  <2>3. file' + 0 + chunk <= received
    BY <2>1, <2>2, LessFits
  <2> QED BY <2>3 DEF DL!Crash, Accounting, Running, DL!stream
<1>5. PhaseInv'
  BY DEF DL!Crash, PhaseInv, Running
<1>6. Outcome'
  BY <1>1, <1>2 DEF DL!Crash, DownloadInv, DL!TypeOK, Outcome, DL!Complete, DL!stream
<1> QED BY <1>3, <1>4, <1>5, <1>6 DEF DownloadInv

LEMMA OthersKeep ==
    ASSUME DownloadInv, DL!Threads \/ DL!DropDownload \/ DL!Crash \/ DL!Tick
    PROVE  DownloadInv'
<1> USE DownloadConstants DEF Running, DL!Lengths, DownloadInv, DL!TypeOK, Accounting, PhaseInv, Outcome,
        DL!Complete, DL!stream, DL!control
<1>1. CASE DL!BackgroundOk
  BY <1>1 DEF DL!BackgroundOk
<1>2. CASE DL!BackgroundFails
  BY <1>2 DEF DL!BackgroundFails
<1>3. CASE DL!RemoveDetached
  BY <1>3 DEF DL!RemoveDetached
<1>4. CASE DL!DropDownload
  BY <1>4 DEF DL!DropDownload
<1>5. CASE DL!Crash
  BY <1>5, CrashKeeps
<1>6. CASE DL!Tick
  BY <1>6 DEF DL!Tick, DL!disk
<1> QED
  BY <1>1, <1>2, <1>3, <1>4, <1>5, <1>6 DEF DL!Threads

(* The invariant is inductive. *)
LEMMA DownloadNextInv == ASSUME DownloadInv, [DL!Next]_DL!vars PROVE DownloadInv'
<1>1. CASE DL!Task
  BY <1>1, TaskKeeps
<1>2. CASE DL!Body
  BY <1>2, BodyKeeps
<1>3. CASE DL!Threads \/ DL!DropDownload \/ DL!Crash \/ DL!Tick
  BY <1>3, OthersKeep
<1>4. CASE UNCHANGED DL!vars
  BY <1>4 DEF DL!vars, DL!control, DL!stream, DL!disk, DownloadInv, DL!TypeOK, Accounting, PhaseInv, Outcome,
     DL!Complete
<1> QED BY <1>1, <1>2, <1>3, <1>4 DEF DL!Next

(* Every variable of a download keeps its type; in particular no more bytes  *)
(* reach the file than the stream has yielded.                               *)
THEOREM TypeCorrect == DL!Spec => []DL!TypeOK
<1>1. DownloadInv => DL!TypeOK
  BY DEF DownloadInv
<1> QED BY <1>1, DownloadInitInv, DownloadNextInv, PTL DEF DL!Spec

-------------------------------------------------------------------------------
(* One attempt, from the transport to its verdict.  Its timers are those of   *)
(* the same client.                                                          *)

(* A response, once there is one: its announced length was compared.  *)
Answers ==
    /\ response \subseteq [status : Statuses, hint : SUBSET Nat, document : RH!Documents]
    /\ \A answer, other \in response : answer = other

(* The state of collect_incoming: all that was delivered is collected, but   *)
(* for a frame of data that is ready, and the idle timer runs from the last  *)
(* byte.                                                                     *)
Collecting ==
    at \in {"check", "wait"} =>
        /\ response # {}
        /\ delivered = output + (IF frame = "data" THEN 1 ELSE 0)
        /\ idle_deadline = last_byte + IdleTimeout
        /\ frame = "end" => \A answer \in response : \A length \in answer.hint : delivered = length

ResponseInv ==
    /\ RH!TypeOK /\ Answers /\ Collecting
    /\ at = "send" => response = {} /\ frame = "none" /\ delivered = 0 /\ output = 0
    /\ RH!VerdictsAreTruthful

(* The verdict names no timer that has not run out. *)
PhaseFits(v) ==
    /\ v.phase = "ResponseBody" => now - last_byte >= IdleTimeout
    /\ v.phase = "Operation" /\ response # {} => now >= RH!deadline
    /\ v.phase = "Request" => now >= AttemptTimeout

Frames == {"none", "data", "empty", "trailers", "end", "broken"}

-------------------------------------------------------------------------------
(* The classification never makes a success of a service error, whatever the *)
(* status and the code.                                                      *)
LEMMA ServiceErrorShape ==
    ASSUME NEW status, NEW code
    PROVE  /\ RH!service_error(status, code).category \notin {"Ok", "OversizedResponse"}
           /\ RH!service_error(status, code).phase = "none"
           /\ RH!service_error(status, code).code = code
  <1>1. \A c \in DOMAIN RH!CodeCategory : RH!CodeCategory[c] \notin {"Ok", "OversizedResponse"}
    BY DEF RH!CodeCategory
  <1>2. RH!StatusCategory(status) \notin {"Ok", "OversizedResponse"}
    BY DEF RH!StatusCategory
  <1>3. RH!classify_service_error(status, code) \notin {"Ok", "OversizedResponse"}
    BY <1>1, <1>2 DEF RH!classify_service_error
  <1> QED BY <1>3 DEF RH!service_error

(* An error that is embedded in a 200 is judged as under its own status. *)
LEMMA EmbeddedAsUsual ==
    ASSUME NEW code \in DOMAIN RH!UsualStatus
    PROVE  RH!service_error(200, code) = RH!service_error(RH!UsualStatus[code], code)
  <1>1. code \in DOMAIN RH!CodeCategory
    BY DEF RH!UsualStatus
  <1>2. RH!classify_service_error(200, code) = RH!CodeCategory[code]
        /\ RH!classify_service_error(RH!UsualStatus[code], code) = RH!CodeCategory[code]
    BY <1>1 DEF RH!classify_service_error
  <1>3. RH!classify_retry(200, code, RH!CodeCategory[code]) = RH!classify_retry(RH!UsualStatus[code], code, RH!CodeCategory[code])
    <2>1. code \in {"ExpiredToken", "AccessDenied", "NoSuchKey", "PreconditionFailed", "OperationAborted",
                    "SlowDown", "InternalError", "RequestTimeout"}
      BY <1>1 DEF RH!CodeCategory
    <2>2. CASE code \in {"OperationAborted", "SlowDown", "InternalError", "RequestTimeout"}
      <3>1. code \in {"SlowDown", "InternalError", "RequestTimeout"} =>
               RH!CodeCategory[code] \in {"Throttling", "Server"}
        BY <2>2 DEF RH!CodeCategory
      <3>2. code = "OperationAborted" => RH!CodeCategory[code] = "Conflict"
        BY DEF RH!CodeCategory
      <3> QED BY <2>2, <3>1, <3>2 DEF RH!classify_retry
    <2>3. CASE code \in {"ExpiredToken", "AccessDenied", "NoSuchKey", "PreconditionFailed"}
      <3>1. RH!CodeCategory[code] \in {"Authentication", "Authorization", "NotFound", "Precondition"}
        BY <2>3 DEF RH!CodeCategory
      <3>2. RH!UsualStatus[code] \in {400, 403, 404, 412}
        BY <1>1, <2>3 DEF RH!UsualStatus
      <3> QED BY <3>1, <3>2 DEF RH!classify_retry
    <2> QED BY <2>1, <2>2, <2>3
  <1> QED BY <1>2, <1>3 DEF RH!service_error

(* How the verdicts differ. *)
LEMMA VerdictShapes ==
    /\ RH!Ok.category = "Ok" /\ RH!Ok.phase = "none" /\ RH!Ok.code = ""
    /\ RH!oversized_response.category = "OversizedResponse"
    /\ RH!oversized_response.phase = "none" /\ RH!oversized_response.code = ""
    /\ RH!invalid_response.category = "InvalidResponse"
    /\ RH!invalid_response.phase = "none" /\ RH!invalid_response.code = ""
    /\ RH!transport.category = "Transport" /\ RH!transport.phase = "none" /\ RH!transport.code = ""
    /\ RH!integrity.category = "Integrity" /\ RH!integrity.phase = "none" /\ RH!integrity.code = ""
    /\ RH!Error("Tls", "Never").category = "Tls" /\ RH!Error("Tls", "Never").phase = "none"
    /\ RH!Error("Tls", "Never").code = ""
    /\ \A phase \in {"Connect", "Request", "Operation", "ResponseBody"} :
          RH!timeout(phase).category = "Timeout" /\ RH!timeout(phase).phase = phase /\ RH!timeout(phase).code = ""
  BY DEF RH!Ok, RH!oversized_response, RH!invalid_response, RH!transport, RH!integrity, RH!Error, RH!timeout

LEMMA NoUsualStatus == "" \notin DOMAIN RH!UsualStatus
  BY DEF RH!UsualStatus, RH!CodeCategory

-------------------------------------------------------------------------------
LEMMA InitResponse ==
    ASSUME RH!ResponseAssumption, RH!Init
    PROVE  ResponseInv
  BY DEF RH!ResponseAssumption, RH!Init, ResponseInv, RH!TypeOK, Answers, Collecting, RH!VerdictsAreTruthful,
         RH!SuccessIsEarned, RH!OversizedIsTruthful, RH!TimeoutPhasesAreTruthful, RH!EmbeddedErrorsCountAsTheirStatus

(* An attempt ends with an error that is neither a success, nor oversized,   *)
(* nor one of the service's.                                                 *)
LEMMA FinishWithError ==
    ASSUME RH!ResponseAssumption, ResponseInv, at # "done", NEW v, RH!Finish(v), frame' \in Frames,
           v.category \notin {"Ok", "OversizedResponse"}, v.code = "", PhaseFits(v)
    PROVE  ResponseInv'
  <1>1. /\ at' = "done" /\ verdict' = {v}
        /\ UNCHANGED <<now, mode, https, response, delivered, output, idle_deadline, last_byte>>
    BY DEF RH!Finish
  <1>2. v # RH!Ok /\ v # RH!oversized_response
    BY VerdictShapes
  <1>3. RH!TypeOK' /\ Answers' /\ Collecting'
    BY <1>1 DEF ResponseInv, RH!TypeOK, Answers, Collecting, Frames
  <1>4. RH!VerdictsAreTruthful'
    BY <1>1, <1>2, NoUsualStatus DEF RH!VerdictsAreTruthful, RH!SuccessIsEarned, RH!OversizedIsTruthful,
       RH!TimeoutPhasesAreTruthful, RH!EmbeddedErrorsCountAsTheirStatus, PhaseFits, RH!deadline
  <1> QED BY <1>1, <1>3, <1>4 DEF ResponseInv

LEMMA SendTimeoutStep ==
    ASSUME RH!ResponseAssumption, ResponseInv, RH!SendTimeout
    PROVE  ResponseInv'
  <1> DEFINE v == RH!timeout("Request")
  <1>1. v.category = "Timeout" /\ v.code = "" /\ v.phase = "Request"
    BY VerdictShapes
  <1>2. at = "send" /\ RH!Finish(v) /\ now >= AttemptTimeout /\ frame' \in Frames
    BY DEF RH!SendTimeout, ResponseInv, RH!TypeOK, Frames
  <1> HIDE DEF v
  <1>3. PhaseFits(v)
    BY <1>1, <1>2 DEF PhaseFits
  <1> QED BY <1>1, <1>2, <1>3, FinishWithError

(* classify_client_error: a request error before there is a response. *)
LEMMA SendFailsStep ==
    ASSUME RH!ResponseAssumption, ResponseInv, NEW error \in RH!ClientErrors, RH!SendFails(error)
    PROVE  ResponseInv'
  <1> DEFINE v == RH!classify_client_error(error)
  <1>1. v \in {RH!integrity, RH!timeout("Operation"), RH!timeout("Connect"), RH!Error("Tls", "Never"), RH!transport}
    BY DEF RH!classify_client_error, RH!ClientErrors
  <1> HIDE DEF v
  <1>2. /\ v.category \notin {"Ok", "OversizedResponse"} /\ v.code = ""
        /\ v.phase \in {"none", "Operation", "Connect"}
    BY <1>1, VerdictShapes
  <1>3. at = "send" /\ RH!Finish(v) /\ frame' \in Frames /\ response = {}
    BY DEF RH!SendFails, ResponseInv, RH!TypeOK, Frames, v
  <1>4. PhaseFits(v)
    BY <1>2, <1>3 DEF PhaseFits
  <1> QED BY <1>2, <1>3, <1>4, FinishWithError

LEMMA RespondStep ==
    ASSUME RH!ResponseAssumption, ResponseInv, NEW status \in Statuses,
           NEW hint \in {{}} \cup {{n} : n \in 0..MaxDelivered}, NEW document \in RH!Documents,
           RH!Respond(status, hint, document)
    PROVE  ResponseInv'
  <1> DEFINE answer == [status |-> status, hint |-> hint, document |-> document]
  <1>1. /\ at = "send" /\ response' = {answer}
        /\ idle_deadline' = now + IdleTimeout /\ last_byte' = now
        /\ UNCHANGED <<now, mode, https, frame, delivered, output>>
    BY DEF RH!Respond
  <1>2. hint \subseteq Nat /\ answer.hint = hint
    BY DEF RH!ResponseAssumption
  <1>3. Answers'
    BY <1>1, <1>2 DEF Answers
  <1>4. frame = "none" /\ delivered = 0 /\ output = 0 /\ verdict = {}
    BY <1>1 DEF ResponseInv, RH!TypeOK
  <1>5. CASE \E length \in hint : length > Maximum
    <2>1. at' = "done" /\ verdict' = {RH!oversized_response}
      BY <1>5 DEF RH!Respond
    <2>2. RH!TypeOK' /\ Collecting'
      BY <1>1, <2>1 DEF RH!ResponseAssumption, ResponseInv, RH!TypeOK, Collecting
    <2>3. /\ RH!oversized_response # RH!Ok /\ RH!oversized_response.phase = "none"
          /\ RH!oversized_response.code = ""
      BY VerdictShapes
    <2>4. RH!OversizedIsTruthful'
      BY <1>1, <1>2, <1>5 DEF RH!OversizedIsTruthful
    <2>5. RH!VerdictsAreTruthful'
      BY <2>1, <2>3, <2>4, NoUsualStatus DEF RH!VerdictsAreTruthful, RH!SuccessIsEarned,
         RH!TimeoutPhasesAreTruthful, RH!EmbeddedErrorsCountAsTheirStatus
    <2> QED BY <1>3, <2>1, <2>2, <2>5 DEF ResponseInv
  <1>6. CASE ~ \E length \in hint : length > Maximum
    <2>1. at' = "check" /\ verdict' = {}
      BY <1>4, <1>6 DEF RH!Respond
    <2>2. RH!TypeOK' /\ Collecting'
      BY <1>1, <1>4, <2>1 DEF RH!ResponseAssumption, ResponseInv, RH!TypeOK, Collecting
    <2>3. RH!VerdictsAreTruthful'
      BY <2>1 DEF RH!VerdictsAreTruthful, RH!SuccessIsEarned, RH!OversizedIsTruthful,
         RH!TimeoutPhasesAreTruthful, RH!EmbeddedErrorsCountAsTheirStatus
    <2> QED BY <1>3, <2>1, <2>2, <2>3 DEF ResponseInv
  <1> QED BY <1>5, <1>6

(* The two places where a timer ends the body. *)
LEMMA TimerSteps ==
    ASSUME RH!ResponseAssumption, ResponseInv, RH!Check \/ RH!WaitTimesOut
    PROVE  ResponseInv'
  <1>1. /\ at \in {"check", "wait"} /\ frame' = frame /\ frame \in Frames
        /\ now \in Int /\ last_byte \in Int /\ IdleTimeout \in Int /\ RH!deadline \in Int
        /\ idle_deadline = last_byte + IdleTimeout
    BY DEF RH!Check, RH!WaitTimesOut, ResponseInv, RH!TypeOK, Frames, Collecting, RH!ResponseAssumption, RH!deadline
  <1>2. ASSUME NEW phase \in {"Operation", "ResponseBody"}, RH!Finish(RH!timeout(phase)),
               phase = "Operation" => now >= RH!deadline,
               phase = "ResponseBody" => now >= idle_deadline
        PROVE  ResponseInv'
    <2> DEFINE v == RH!timeout(phase)
    <2>1. v.category = "Timeout" /\ v.code = "" /\ v.phase = phase
      BY VerdictShapes
    <2>2. RH!Finish(v)
      BY <1>2
    <2> HIDE DEF v
    <2>3. PhaseFits(v)
      <3>1. CASE phase = "Operation"
        BY <1>2, <2>1, <3>1 DEF PhaseFits
      <3>2. CASE phase = "ResponseBody"
        <4>1. now - last_byte >= IdleTimeout
          BY <1>1, <1>2, <3>2
        <4> QED BY <2>1, <3>2, <4>1 DEF PhaseFits
      <3> QED BY <3>1, <3>2
    <2> QED BY <1>1, <2>1, <2>2, <2>3, FinishWithError
  <1>3. CASE RH!Check
    <2>1. CASE RH!deadline <= now
      BY <1>1, <1>2, <1>3, <2>1 DEF RH!Check
    <2>2. CASE ~(RH!deadline <= now) /\ idle_deadline <= now
      BY <1>1, <1>2, <1>3, <2>2 DEF RH!Check
    <2>3. CASE ~(RH!deadline <= now) /\ ~(idle_deadline <= now)
      <3>1. /\ at = "check" /\ at' = "wait"
            /\ UNCHANGED <<now, mode, https, response, frame, delivered, output, idle_deadline, last_byte, verdict>>
        BY <1>3, <2>3 DEF RH!Check
      <3> QED BY <3>1 DEF ResponseInv, RH!TypeOK, Answers, Collecting, RH!VerdictsAreTruthful, RH!SuccessIsEarned,
                 RH!OversizedIsTruthful, RH!TimeoutPhasesAreTruthful, RH!EmbeddedErrorsCountAsTheirStatus
    <2> QED BY <2>1, <2>2, <2>3
  <1>4. CASE RH!WaitTimesOut
    <2>1. /\ RH!Finish(RH!timeout(IF RH!deadline <= idle_deadline THEN "Operation" ELSE "ResponseBody"))
          /\ now >= RH!deadline \/ now >= idle_deadline
      BY <1>4 DEF RH!WaitTimesOut
    <2>2. idle_deadline \in Int
      BY <1>1
    <2>3. CASE RH!deadline <= idle_deadline
      BY <1>1, <1>2, <2>1, <2>2, <2>3
    <2>4. CASE ~(RH!deadline <= idle_deadline)
      BY <1>1, <1>2, <2>1, <2>2, <2>4
    <2> QED BY <2>3, <2>4
  <1> QED BY <1>3, <1>4

(* The end of the body: the verdict on a response that arrived whole. *)
LEMMA EndStep ==
    ASSUME RH!ResponseAssumption, ResponseInv, RH!TakeFrame, frame = "end"
    PROVE  ResponseInv'
  <1>1. at = "wait" /\ frame' = "none" /\ \E answer \in response : RH!Finish(RH!Verdict(answer))
    BY DEF RH!TakeFrame
  <1>2. PICK answer \in response : RH!Finish(RH!Verdict(answer))
    BY <1>1
  <1>3. response = {answer} /\ answer.status \in Statuses /\ answer.document \in RH!Documents
    BY DEF ResponseInv, Answers
  <1> DEFINE v == RH!Verdict(answer)
  <1>4. /\ at' = "done" /\ verdict' = {v}
        /\ UNCHANGED <<now, mode, https, response, delivered, output, idle_deadline, last_byte>>
    BY <1>2 DEF RH!Finish
  <1>5. RH!TypeOK' /\ Answers' /\ Collecting'
    BY <1>1, <1>4 DEF ResponseInv, RH!TypeOK, Answers, Collecting
  <1>6. /\ output = delivered /\ output <= Maximum
        /\ \A length \in answer.hint : output = length
    BY <1>1, <1>2 DEF ResponseInv, RH!TypeOK, Collecting, RH!ResponseAssumption
  <1>7. CASE v = RH!Ok
    <2>1. /\ RH!IsSuccess(answer.status)
          /\ mode = "xml" => answer.document.root = "Result"
      <3>1. \A status, code : RH!service_error(status, code) # RH!Ok
        <4> SUFFICES ASSUME NEW status, NEW code PROVE RH!service_error(status, code) # RH!Ok
          OBVIOUS
        <4>1. RH!service_error(status, code).category # "Ok"
          BY ServiceErrorShape
        <4> QED BY <4>1, VerdictShapes
      <3>2. RH!invalid_response # RH!Ok
        BY VerdictShapes
      <3>3. answer.document.root \in {"Error", "Result", "garbage"}
        BY <1>3 DEF RH!Documents
      <3> QED BY <1>7, <3>1, <3>2, <3>3 DEF RH!Verdict, ResponseInv, RH!TypeOK
    <2>2. v # RH!oversized_response /\ v.phase = "none" /\ v.code = ""
      BY <1>7, VerdictShapes
    <2>3. RH!SuccessIsEarned'
      BY <1>1, <1>3, <1>4, <1>6, <2>1 DEF RH!SuccessIsEarned
    <2> HIDE DEF v
    <2>4. RH!VerdictsAreTruthful'
      BY <1>4, <2>2, <2>3, NoUsualStatus DEF RH!VerdictsAreTruthful, RH!OversizedIsTruthful,
         RH!TimeoutPhasesAreTruthful, RH!EmbeddedErrorsCountAsTheirStatus
    <2> QED BY <1>4, <1>5, <2>4 DEF ResponseInv
  <1>8. CASE v # RH!Ok
    <2>1. /\ v # RH!oversized_response /\ v.phase = "none"
          /\ v.code \in DOMAIN RH!UsualStatus /\ RH!IsSuccess(answer.status) =>
                v = RH!service_error(RH!UsualStatus[v.code], v.code)
      <3>1. CASE v = RH!invalid_response
        <4>1. v # RH!oversized_response /\ v.phase = "none" /\ v.code = ""
          BY <3>1, VerdictShapes
        <4> HIDE DEF v
        <4> QED BY <4>1, NoUsualStatus
      <3>2. CASE v # RH!invalid_response
        <4>1. \E code : v = RH!service_error(200, code) \/ (~RH!IsSuccess(answer.status) /\ v = RH!service_error(answer.status, code))
          BY <1>8, <3>2 DEF RH!Verdict
        <4> HIDE DEF v
        <4>2. PICK code : v = RH!service_error(200, code) \/ (~RH!IsSuccess(answer.status) /\ v = RH!service_error(answer.status, code))
          BY <4>1
        <4>3. v.category \notin {"Ok", "OversizedResponse"} /\ v.phase = "none" /\ v.code = code
          BY <4>2, ServiceErrorShape
        <4>4. v # RH!oversized_response
          BY <4>3, VerdictShapes
        <4> QED BY <4>2, <4>3, <4>4, EmbeddedAsUsual
      <3> QED BY <3>1, <3>2
    <2> HIDE DEF v
    <2>2. RH!VerdictsAreTruthful'
      BY <1>3, <1>4, <1>8, <2>1 DEF RH!VerdictsAreTruthful, RH!SuccessIsEarned, RH!OversizedIsTruthful,
         RH!TimeoutPhasesAreTruthful, RH!EmbeddedErrorsCountAsTheirStatus
    <2> QED BY <1>4, <1>5, <2>2 DEF ResponseInv
  <1> QED BY <1>7, <1>8

(* The other frames. *)
LEMMA FrameStep ==
    ASSUME RH!ResponseAssumption, ResponseInv, RH!TakeFrame, frame # "end"
    PROVE  ResponseInv'
  <1>1. at = "wait" /\ frame' = "none" /\ frame \in {"data", "empty", "trailers", "broken"}
    BY DEF RH!TakeFrame, ResponseInv, RH!TypeOK
  <1>2. CASE frame = "broken"
    <2>1. RH!Finish(RH!transport)
      BY <1>2 DEF RH!TakeFrame
    <2>2. RH!transport.category = "Transport" /\ RH!transport.code = "" /\ RH!transport.phase = "none"
      BY VerdictShapes
    <2>3. PhaseFits(RH!transport) /\ frame' \in Frames
      BY <1>1, <2>2 DEF PhaseFits, Frames
    <2> QED BY <1>1, <2>1, <2>2, <2>3, FinishWithError
  <1>3. CASE frame \in {"trailers", "empty"}
    <2>1. /\ at' = "check"
          /\ UNCHANGED <<now, mode, https, response, delivered, output, idle_deadline, last_byte, verdict>>
      BY <1>3 DEF RH!TakeFrame
    <2>2. RH!TypeOK' /\ Answers' /\ Collecting'
      BY <1>1, <1>3, <2>1 DEF ResponseInv, RH!TypeOK, Answers, Collecting
    <2>3. RH!VerdictsAreTruthful'
      BY <1>1, <2>1 DEF ResponseInv, RH!TypeOK, RH!VerdictsAreTruthful, RH!SuccessIsEarned, RH!OversizedIsTruthful,
         RH!TimeoutPhasesAreTruthful, RH!EmbeddedErrorsCountAsTheirStatus
    <2> QED BY <2>1, <2>2, <2>3 DEF ResponseInv
  <1>4. CASE frame = "data"
    <2>0. /\ output \in 0..Maximum /\ Maximum \in Nat /\ verdict = {} /\ now \in 0..Horizon /\ Horizon \in Nat
          /\ IdleTimeout \in Nat /\ delivered = output + 1
      BY <1>1, <1>4 DEF ResponseInv, RH!TypeOK, RH!ResponseAssumption, Collecting
    <2>1. CASE RH!Oversizes(output + 1)
      <3>1. /\ at' = "done" /\ verdict' = {RH!oversized_response}
            /\ UNCHANGED <<now, mode, https, response, delivered, output, idle_deadline, last_byte>>
        BY <1>4, <2>1 DEF RH!TakeFrame, RH!Finish
      <3>2. delivered > Maximum
        BY <2>0, <2>1 DEF RH!Oversizes
      <3>3. RH!TypeOK' /\ Answers' /\ Collecting'
        BY <1>1, <3>1 DEF ResponseInv, RH!TypeOK, Answers, Collecting
      <3>4. /\ RH!oversized_response # RH!Ok /\ RH!oversized_response.phase = "none"
            /\ RH!oversized_response.code = ""
        BY VerdictShapes
      <3>5. RH!VerdictsAreTruthful'
        BY <3>1, <3>2, <3>4, NoUsualStatus DEF RH!VerdictsAreTruthful, RH!SuccessIsEarned, RH!OversizedIsTruthful,
           RH!TimeoutPhasesAreTruthful, RH!EmbeddedErrorsCountAsTheirStatus
      <3> QED BY <3>1, <3>3, <3>5 DEF ResponseInv
    <2>2. CASE ~RH!Oversizes(output + 1)
      <3>1. /\ output' = output + 1 /\ idle_deadline' = now + IdleTimeout /\ last_byte' = now
            /\ at' = "check" /\ UNCHANGED <<now, mode, https, response, delivered, verdict>>
        BY <1>4, <2>2 DEF RH!TakeFrame
      <3>2. output' \in 0..Maximum
        BY <2>0, <2>2, <3>1 DEF RH!Oversizes
      <3>3. RH!TypeOK' /\ Answers' /\ Collecting'
        BY <1>1, <2>0, <3>1, <3>2 DEF ResponseInv, RH!TypeOK, Answers, Collecting
      <3>4. RH!VerdictsAreTruthful'
        BY <2>0, <3>1 DEF RH!VerdictsAreTruthful, RH!SuccessIsEarned, RH!OversizedIsTruthful,
           RH!TimeoutPhasesAreTruthful, RH!EmbeddedErrorsCountAsTheirStatus
      <3> QED BY <3>1, <3>3, <3>4 DEF ResponseInv
    <2> QED BY <2>1, <2>2
  <1> QED BY <1>1, <1>2, <1>3, <1>4

(* The peer and the clock. *)
LEMMA EnvironmentSteps ==
    ASSUME RH!ResponseAssumption, ResponseInv,
           RH!Tick \/ \E sent \in {"data", "empty", "trailers", "end", "broken"} : RH!PeerSends(sent)
    PROVE  ResponseInv'
  <1>1. at # "done" /\ verdict = {} /\ UNCHANGED <<mode, https, at, response, output, idle_deadline, last_byte, verdict>>
    BY DEF RH!Tick, RH!PeerSends, ResponseInv, RH!TypeOK
  <1>2. RH!VerdictsAreTruthful'
    BY <1>1 DEF RH!VerdictsAreTruthful, RH!SuccessIsEarned, RH!OversizedIsTruthful,
       RH!TimeoutPhasesAreTruthful, RH!EmbeddedErrorsCountAsTheirStatus
  <1>3. CASE RH!Tick
    <2>1. RH!TypeOK' /\ Answers' /\ Collecting'
      BY <1>1, <1>3 DEF RH!Tick, ResponseInv, RH!TypeOK, Answers, Collecting, RH!ResponseAssumption
    <2> QED BY <1>1, <1>2, <1>3, <2>1 DEF ResponseInv, RH!Tick
  <1>4. ASSUME NEW sent \in {"data", "empty", "trailers", "end", "broken"}, RH!PeerSends(sent) PROVE ResponseInv'
    <2>1. /\ at \in {"check", "wait"} /\ frame = "none" /\ frame' = sent /\ now' = now
          /\ delivered' = IF sent = "data" THEN delivered + 1 ELSE delivered
          /\ sent = "data" => delivered < MaxDelivered
          /\ sent = "end" => \A answer \in response : \A length \in answer.hint : delivered = length
      BY <1>4 DEF RH!PeerSends
    <2>2. RH!TypeOK' /\ Answers'
      BY <1>1, <2>1 DEF ResponseInv, RH!TypeOK, Answers, RH!ResponseAssumption
    <2>3. Collecting'
      BY <1>1, <2>1 DEF ResponseInv, RH!TypeOK, Collecting, RH!ResponseAssumption
    <2> QED BY <1>1, <1>2, <2>1, <2>2, <2>3 DEF ResponseInv
  <1> QED BY <1>3, <1>4

LEMMA NextResponse ==
    ASSUME RH!ResponseAssumption, ResponseInv, [RH!Next]_RH!vars
    PROVE  ResponseInv'
  <1>1. CASE RH!Reader
    <2>1. RH!TakeFrame => ResponseInv'
      BY EndStep, FrameStep
    <2> QED BY <1>1, <2>1, SendTimeoutStep, TimerSteps DEF RH!Reader
  <1>2. CASE \E error \in RH!ClientErrors : RH!SendFails(error)
    BY <1>2, SendFailsStep
  <1>3. CASE \E status \in Statuses, hint \in {{}} \cup {{n} : n \in 0..MaxDelivered}, document \in RH!Documents :
                RH!Respond(status, hint, document)
    BY <1>3, RespondStep
  <1>4. CASE UNCHANGED RH!vars
    BY <1>4 DEF RH!vars, ResponseInv, RH!TypeOK, Answers, Collecting, RH!VerdictsAreTruthful, RH!SuccessIsEarned,
       RH!OversizedIsTruthful, RH!TimeoutPhasesAreTruthful, RH!EmbeddedErrorsCountAsTheirStatus
  <1> QED BY <1>1, <1>2, <1>3, <1>4, EnvironmentSteps DEF RH!Next

-------------------------------------------------------------------------------
(* The scenes: each component moves alone, under its own next-state relation. *)
LEMMA ScenesInductive ==
    FairScenes => [](/\ scene = "download" => DownloadInv
                     /\ scene = "attempt" => ResponseInv)
<1> DEFINE I == /\ scene = "download" => DownloadInv
                /\ scene = "attempt" => ResponseInv
<1>1. ScenesInit => I
  BY DownloadInitInv, InitResponse, ResponsesAssumption DEF ScenesInit
<1>2. I /\ [ScenesNext]_all => I'
  <2> SUFFICES ASSUME I, [ScenesNext]_all PROVE I'
    OBVIOUS
  <2>1. scene' = scene
    BY DEF ScenesNext, all
  <2>2. scene = "download" => [DL!Next]_DL!vars
    BY DEF ScenesNext, all, download, DL!vars, DL!control, DL!stream, DL!disk
  <2>3. scene = "attempt" => [RH!Next]_RH!vars
    BY DEF ScenesNext, all, attempt, RH!vars
  <2>4. scene = "download" => DownloadInv'
    BY <2>2, DownloadNextInv
  <2>5. scene = "attempt" => ResponseInv'
    BY <2>3, NextResponse, ResponsesAssumption
  <2> QED BY <2>1, <2>4, <2>5
<1> QED BY <1>1, <1>2, PTL DEF FairScenes

(* download_to_path publishes only what was received, declared and verified, *)
(* whatever writes fail and whenever the machine crashes.                    *)
THEOREM DestinationVerified == FairScenes => []DestinationIsOldOrVerified
<1>1. (scene = "download" => DownloadInv) => DestinationIsOldOrVerified
  BY DownloadConstants DEF DownloadInv, DL!TypeOK, Outcome, DL!Complete, DL!DestinationIsOldOrVerified,
     DestinationIsOldOrVerified
<1> QED BY ScenesInductive, <1>1, PTL

(* A download that failed or was dropped leaves the destination as it was    *)
(* and no temporary file.                                                    *)
THEOREM NoTrace == FairScenes => []FailureLeavesNoTrace
<1>1. (scene = "download" => DownloadInv) => FailureLeavesNoTrace
  BY DEF DownloadInv, DL!TypeOK, Outcome, DL!FailureLeavesNoTrace, FailureLeavesNoTrace
<1> QED BY ScenesInductive, <1>1, PTL

(* download_to_path returns Ok only when the synced file is in place.        *)
THEOREM SuccessPublished == FairScenes => []SuccessIsPublished
<1>1. (scene = "download" => DownloadInv) => SuccessIsPublished
  BY DEF DownloadInv, Outcome, DL!SuccessIsPublished, SuccessIsPublished
<1> QED BY ScenesInductive, <1>1, PTL

(* A verdict names its cause, for every size limit, timeout, status and code, *)
(* and every order of frames and timers.                                     *)
THEOREM VerdictsTruthful == FairScenes => []VerdictsAreTruthful
<1>1. (scene = "attempt" => ResponseInv) => VerdictsAreTruthful
  BY DEF ResponseInv, VerdictsAreTruthful
<1> QED BY ScenesInductive, <1>1, PTL

(* The error of an upload body comes out of the transport as itself. *)
THEOREM BodyFailuresKept == FairScenes => BodyFailuresKeepTheirVerdict
<1>1. RH!BodyFailureKept
  <2> SUFFICES ASSUME NEW error \in RH!ClientErrors, RH!SendFails(error), NEW cause \in error.body
               PROVE  verdict' = {cause}
    BY DEF RH!BodyFailureKept
  <2>1. \A e \in error.body : e = cause
    BY DEF RH!ClientErrors
  <2>2. RH!classify_client_error(error) = cause
    BY <2>1 DEF RH!classify_client_error
  <2> QED BY <2>2 DEF RH!SendFails, RH!Finish
<1>2. [ScenesNext]_all => [scene = "attempt" => RH!BodyFailureKept]_<<now, attempt>>
  BY <1>1
<1> QED BY <1>2, PTL DEF FairScenes, BodyFailuresKeepTheirVerdict

-------------------------------------------------------------------------------
(***************************************************************************)
(* Object operations.  The argument has two halves.  What is in the request: *)
(* whatever a caller stated (a condition, a range, metadata, a copy source)  *)
(* is an entry that the operation generates, and insert_headers drops no     *)
(* entry and overwrites none (EntryHeld).  What is in the answer: as in      *)
(* MultipartSessionProofs, an answer is true of what the service did for the *)
(* attempt (Truth), what was done stays done, and an answered first attempt  *)
(* is the only one.                                                          *)
(***************************************************************************)

-------------------------------------------------------------------------------
(* Options, lists and what is in them. *)
LEMMA SomeOne == ASSUME NEW x PROVE Some({x}) = x
BY DEF Some

In(list, x) == \E i \in DOMAIN list : list[i] = x

LEMMA ListOf ==
    ASSUME NEW S, NEW s, s \in Seq(S)
    PROVE  IsList(s)
<1>1. Len(s) \in Nat /\ DOMAIN s = 1..Len(s) /\ s \in [1..Len(s) -> S]
  BY LenProperties
<1>2. s \in [1..Len(s) -> Range(s)]
  BY <1>1 DEF Range
<1>3. s \in Seq(Range(s))
  BY <1>1, <1>2, SeqDef
<1> QED
  BY <1>3 DEF IsList

LEMMA EmptyList == IsList(<<>>) /\ \A x : ~In(<<>>, x)
<1>1. <<>> \in Seq({}) /\ DOMAIN <<>> = {}
  OBVIOUS
<1>2. IsList(<<>>)
  BY <1>1, ListOf
<1>3. \A x : ~In(<<>>, x)
  BY <1>1 DEF In
<1> QED
  BY <1>2, <1>3

LEMMA OneList ==
    ASSUME NEW y
    PROVE  IsList(<<y>>) /\ \A x : In(<<y>>, x) <=> x = y
<1>1. <<y>> \in Seq({y}) /\ DOMAIN <<y>> = {1} /\ <<y>>[1] = y
  OBVIOUS
<1> QED
  BY <1>1, ListOf DEF In

LEMMA ConcatList ==
    ASSUME NEW s, NEW t, IsList(s), IsList(t)
    PROVE  IsList(s \o t) /\ \A x : In(s \o t, x) <=> In(s, x) \/ In(t, x)
<1> DEFINE S == Range(s) \cup Range(t)
           u == s \o t
<1>1. s \in Seq(S) /\ t \in Seq(S)
  BY DEF IsList, Range
<1>2. /\ u \in Seq(S) /\ Len(u) = Len(s) + Len(t)
      /\ \A i \in 1..Len(s) : u[i] = s[i]
      /\ \A i \in 1..Len(t) : u[Len(s) + i] = t[i]
  BY <1>1
<1>3. DOMAIN u = 1..Len(u) /\ DOMAIN s = 1..Len(s) /\ DOMAIN t = 1..Len(t) /\ Len(s) \in Nat /\ Len(t) \in Nat
  BY <1>1, <1>2
<1> HIDE DEF u, S
<1>4. IsList(u)
  BY <1>2, ListOf
<1>5. ASSUME NEW x, In(u, x) PROVE In(s, x) \/ In(t, x)
  <2>1. PICK i \in 1..Len(u) : u[i] = x
    BY <1>3, <1>5 DEF In
  <2>2. CASE i <= Len(s)
    BY <1>2, <1>3, <2>1, <2>2 DEF In
  <2>3. CASE i > Len(s)
    <3>1. i - Len(s) \in 1..Len(t) /\ Len(s) + (i - Len(s)) = i
      BY <1>2, <1>3, <2>3
    <3>2. t[i - Len(s)] = x
      BY <1>2, <2>1, <3>1
    <3> QED
      BY <1>3, <3>1, <3>2 DEF In
  <2> QED
    BY <1>3, <2>2, <2>3
<1>6. ASSUME NEW x, In(s, x) \/ In(t, x) PROVE In(u, x)
  <2>1. CASE In(s, x)
    <3>1. PICK i \in 1..Len(s) : s[i] = x
      BY <1>3, <2>1 DEF In
    <3>2. i \in 1..Len(u) /\ u[i] = x
      BY <1>2, <1>3, <3>1
    <3> QED
      BY <1>3, <3>2 DEF In
  <2>2. CASE In(t, x)
    <3>1. PICK i \in 1..Len(t) : t[i] = x
      BY <1>3, <2>2 DEF In
    <3>2. Len(s) + i \in 1..Len(u) /\ u[Len(s) + i] = x
      BY <1>2, <1>3, <3>1
    <3> QED
      BY <1>3, <3>2 DEF In
  <2> QED
    BY <1>6, <2>1, <2>2
<1> QED
  BY <1>4, <1>5, <1>6 DEF u

-------------------------------------------------------------------------------
(* The entries that the helpers give. *)
LEMMA OptionalIn ==
    ASSUME NEW name, NEW option, IsOption(option)
    PROVE  /\ IsList(insert_optional_header(name, option))
           /\ \A x : In(insert_optional_header(name, option), x) <=> \E v \in option : x = <<name, v>>
<1>1. CASE option = {}
  BY <1>1, EmptyList DEF insert_optional_header
<1>2. CASE option # {}
  <2>1. PICK v \in option : option = {v}
    BY <1>2 DEF IsOption
  <2>2. insert_optional_header(name, option) = << <<name, v>> >>
    BY <2>1, SomeOne DEF insert_optional_header
  <2> QED
    BY <2>1, <2>2, OneList
<1> QED
  BY <1>1, <1>2

LEMMA MetadataIn ==
    ASSUME NEW metadata, IsList(metadata)
    PROVE  /\ IsList(insert_user_metadata(metadata))
           /\ \A i \in DOMAIN metadata :
                 In(insert_user_metadata(metadata), <<<<"x-amz-meta-", metadata[i][1][1]>>, metadata[i][2]>>)
           /\ \A x : In(insert_user_metadata(metadata), x) => x[1][1] = "x-amz-meta-"
<1> DEFINE f(i) == <<<<"x-amz-meta-", metadata[i][1][1]>>, metadata[i][2]>>
           s == insert_user_metadata(metadata)
<1>1. s = [i \in DOMAIN metadata |-> f(i)]
  BY DEF insert_user_metadata
<1>2. \A i : f(i)[1][1] = "x-amz-meta-"
  OBVIOUS
<1>3. DOMAIN metadata = 1..Len(metadata) /\ Len(metadata) \in Nat
  BY DEF IsList
<1> HIDE DEF f, s
<1>4. s \in Seq({f(i) : i \in DOMAIN metadata})
  BY <1>1, <1>3
<1>5. IsList(s)
  BY <1>4, ListOf
<1>6. \A i \in DOMAIN metadata : In(s, f(i))
  BY <1>1 DEF In
<1>7. \A x : In(s, x) => \E i \in DOMAIN metadata : x = f(i)
  BY <1>1 DEF In
<1> QED
  BY <1>2, <1>5, <1>6, <1>7 DEF s, f

(* A header map that was built has every entry, and nothing else but what it *)
(* started with.                                                             *)
LEMMA EntryHeld ==
    ASSUME NEW own, NEW e, NEW h \in insert_headers(own, e)
    PROVE  /\ \A x : In(e, x) => x[1] \in DOMAIN h /\ h[x[1]] = x[2]
           /\ \A n \in DOMAIN h : n \in DOMAIN own \/ \E x : In(e, x) /\ x[1] = n
<1>1. /\ h = WithEntries(own, e)
      /\ \A i \in DOMAIN e : e[i][1] \notin DOMAIN own
      /\ \A i, k \in DOMAIN e : e[i][1] = e[k][1] => i = k
  BY DEF insert_headers
<1>2. DOMAIN h = DOMAIN own \cup {e[i][1] : i \in DOMAIN e}
  BY <1>1 DEF WithEntries
<1>3. ASSUME NEW i \in DOMAIN e PROVE e[i][1] \in DOMAIN h /\ h[e[i][1]] = e[i][2]
  <2>1. (CHOOSE k \in DOMAIN e : e[k][1] = e[i][1]) = i
    BY <1>1
  <2> QED
    BY <1>1, <1>2, <2>1 DEF WithEntries
<1> QED
  BY <1>2, <1>3 DEF In

-------------------------------------------------------------------------------
(* The headers state the conditions. *)
Stated(h, prefix, conditions) ==
    /\ \A tag \in conditions.if_match : response_header(h, <<prefix, "if-match">>) = {tag}
    /\ \A tag \in conditions.if_none_match : response_header(h, <<prefix, "if-none-match">>) = {tag}
    /\ \A t \in conditions.if_modified_since :
          response_header(h, <<prefix, "if-modified-since">>) = {format_http_date(t)}
    /\ \A t \in conditions.if_unmodified_since :
          response_header(h, <<prefix, "if-unmodified-since">>) = {format_http_date(t)}

IsConditions(conditions) ==
    /\ IsOption(conditions.if_match) /\ IsOption(conditions.if_none_match)
    /\ IsOption(conditions.if_modified_since) /\ IsOption(conditions.if_unmodified_since)

(* A service that finds the stated headers satisfied has the conditions.     *)
LEMMA StatedHolds ==
    ASSUME NEW h, NEW prefix, NEW conditions, NEW object,
           Stated(h, prefix, conditions), Matches(h, prefix, object), Changed(h, prefix, object)
    PROVE  Holds(conditions, object)
<1>1. \A tag \in conditions.if_match : \E o \in object : tag \in {ETag(o), AnyTag}
  BY DEF Stated, Matches
<1>2. \A tag \in conditions.if_none_match : \A o \in object : tag \notin {ETag(o), AnyTag}
  BY DEF Stated, Changed
<1>3. \A t : format_http_date(t)[2] = Second(t)
  BY DEF format_http_date, Second
<1>4. \A t \in conditions.if_modified_since : \A o \in object : Second(o.modified) > Second(t)
  BY <1>3 DEF Stated, Changed
<1>5. \A t \in conditions.if_unmodified_since : \A o \in object : Second(o.modified) <= Second(t)
  BY <1>3 DEF Stated, Matches
<1> QED
  BY <1>1, <1>2, <1>4, <1>5 DEF Holds

LEMMA DateOption ==
    ASSUME NEW option, IsOption(option)
    PROVE  IsOption({format_http_date(t) : t \in option})
BY DEF IsOption

ConditionNames == {"if-match", "if-none-match", "if-modified-since", "if-unmodified-since"}

LEMMA ConditionsIn ==
    ASSUME NEW conditions, NEW prefix, IsConditions(conditions)
    PROVE  LET list == insert_conditions(conditions, prefix) IN
           /\ IsList(list)
           /\ \A tag \in conditions.if_match : In(list, <<<<prefix, "if-match">>, tag>>)
           /\ \A tag \in conditions.if_none_match : In(list, <<<<prefix, "if-none-match">>, tag>>)
           /\ \A t \in conditions.if_modified_since :
                 In(list, <<<<prefix, "if-modified-since">>, format_http_date(t)>>)
           /\ \A t \in conditions.if_unmodified_since :
                 In(list, <<<<prefix, "if-unmodified-since">>, format_http_date(t)>>)
           /\ \A x : In(list, x) => x[1][2] \in ConditionNames
<1> DEFINE o1 == conditions.if_match
           o2 == conditions.if_none_match
           o3 == {format_http_date(t) : t \in conditions.if_modified_since}
           o4 == {format_http_date(t) : t \in conditions.if_unmodified_since}
           n1 == <<prefix, "if-match">>
           n2 == <<prefix, "if-none-match">>
           n3 == <<prefix, "if-modified-since">>
           n4 == <<prefix, "if-unmodified-since">>
           s1 == insert_optional_header(n1, o1)
           s2 == insert_optional_header(n2, o2)
           s3 == insert_optional_header(n3, o3)
           s4 == insert_optional_header(n4, o4)
           s12 == s1 \o s2
           s123 == s12 \o s3
           list == s123 \o s4
<1>1. insert_conditions(conditions, prefix) = list
  BY DEF insert_conditions
<1>2. IsOption(o1) /\ IsOption(o2) /\ IsOption(o3) /\ IsOption(o4)
  BY DateOption DEF IsConditions
<1>3. /\ \A x : x = n1 => x[2] \in ConditionNames
      /\ \A x : x = n2 => x[2] \in ConditionNames
      /\ \A x : x = n3 => x[2] \in ConditionNames
      /\ \A x : x = n4 => x[2] \in ConditionNames
  BY DEF ConditionNames
<1> HIDE DEF o1, o2, o3, o4, n1, n2, n3, n4
<1>4. /\ IsList(s1) /\ \A x : In(s1, x) <=> \E v \in o1 : x = <<n1, v>>
      /\ IsList(s2) /\ \A x : In(s2, x) <=> \E v \in o2 : x = <<n2, v>>
      /\ IsList(s3) /\ \A x : In(s3, x) <=> \E v \in o3 : x = <<n3, v>>
      /\ IsList(s4) /\ \A x : In(s4, x) <=> \E v \in o4 : x = <<n4, v>>
  BY <1>2, OptionalIn
<1> HIDE DEF s1, s2, s3, s4
<1>5. IsList(s12) /\ \A x : In(s12, x) <=> In(s1, x) \/ In(s2, x)
  BY <1>4, ConcatList
<1> HIDE DEF s12
<1>6. IsList(s123) /\ \A x : In(s123, x) <=> In(s12, x) \/ In(s3, x)
  BY <1>4, <1>5, ConcatList
<1> HIDE DEF s123
<1>7. IsList(list) /\ \A x : In(list, x) <=> In(s123, x) \/ In(s4, x)
  BY <1>4, <1>6, ConcatList
<1> HIDE DEF list
<1>8. \A x : In(list, x) <=> \/ \E v \in o1 : x = <<n1, v>>
                             \/ \E v \in o2 : x = <<n2, v>>
                             \/ \E v \in o3 : x = <<n3, v>>
                             \/ \E v \in o4 : x = <<n4, v>>
  BY <1>4, <1>5, <1>6, <1>7
<1>9. \A x : In(list, x) => x[1][2] \in ConditionNames
  <2> TAKE x
  <2> HAVE In(list, x)
  <2>1. x[1] \in {n1, n2, n3, n4}
    BY <1>8
  <2> QED
    BY <1>3, <2>1
<1>10. /\ \A tag \in conditions.if_match : In(list, <<n1, tag>>)
       /\ \A tag \in conditions.if_none_match : In(list, <<n2, tag>>)
  BY <1>8 DEF o1, o2
<1>11. /\ \A t \in conditions.if_modified_since : In(list, <<n3, format_http_date(t)>>)
       /\ \A t \in conditions.if_unmodified_since : In(list, <<n4, format_http_date(t)>>)
  BY <1>8 DEF o3, o4
<1> QED
  BY <1>1, <1>7, <1>9, <1>10, <1>11 DEF n1, n2, n3, n4

(* The entry is what the header has. *)
LEMMA EntryValue ==
    ASSUME NEW own, NEW e, NEW h \in insert_headers(own, e), NEW name, NEW value, In(e, <<name, value>>)
    PROVE  name \in DOMAIN h /\ h[name] = value /\ response_header(h, name) = {value}
<1> DEFINE x == <<name, value>>
<1>1. x[1] = name /\ x[2] = value
  OBVIOUS
<1> HIDE DEF x
<1>2. name \in DOMAIN h /\ h[name] = value
  BY <1>1, EntryHeld DEF x
<1> QED
  BY <1>2 DEF response_header

(* Entries that have the conditions state them. *)
LEMMA ConditionsStated ==
    ASSUME NEW own, NEW e, NEW h \in insert_headers(own, e), NEW prefix, NEW conditions,
           IsConditions(conditions), \A x : In(insert_conditions(conditions, prefix), x) => In(e, x)
    PROVE  Stated(h, prefix, conditions)
<1> DEFINE list == insert_conditions(conditions, prefix)
<1> HIDE DEF list
<1>1. /\ \A tag \in conditions.if_match : In(list, <<<<prefix, "if-match">>, tag>>)
      /\ \A tag \in conditions.if_none_match : In(list, <<<<prefix, "if-none-match">>, tag>>)
      /\ \A t \in conditions.if_modified_since :
            In(list, <<<<prefix, "if-modified-since">>, format_http_date(t)>>)
      /\ \A t \in conditions.if_unmodified_since :
            In(list, <<<<prefix, "if-unmodified-since">>, format_http_date(t)>>)
  BY ConditionsIn DEF list
<1>2. \A x : In(list, x) => In(e, x)
  BY DEF list
<1>3. \A name, value : In(list, <<name, value>>) => response_header(h, name) = {value}
  BY <1>2, EntryValue
<1> QED
  BY <1>1, <1>3, Zenon DEF Stated

-------------------------------------------------------------------------------
(* What the headers of each operation have. *)
LEMMA BuiltFrom ==
    ASSUME NEW r, NEW h \in Headers(r)
    PROVE  \E e \in Entries(r) : h \in insert_headers(r.headers, e)
<1>1. PICK own \in request_headers(r.headers) : \E e \in Entries(r) : h \in insert_headers(own, e)
  BY DEF Headers
<1>2. own = r.headers
  BY DEF request_headers
<1> QED
  BY <1>1, <1>2

PutEntries(r) ==
    {insert_optional_header(Name("content-type"), r.content_type)
     \o insert_conditions(r.conditions, "") \o insert_user_metadata(r.metadata) \o sum :
        sum \in insert_upload_checksum(r.algorithm, r.data)}

ModeEntry == << <<Name("x-amz-checksum-mode"), <<"ENABLED">>>> >>

RangeEntry(r) == insert_optional_header(Name("range"), {to_header_value(b) : b \in r.range})

BatchEntries(r) ==
    << <<Name("content-type"), <<"application/xml">>>>, <<Name("content-md5"), <<"md5", DeleteDocument(r)>>>> >>

BatchFits(r) ==
    ~(r.objects = {} \/ Cardinality(r.objects) > MaxDeleteObjects \/ DocumentSize(r) > MaxXmlSize)

LEMMA EntriesOf ==
    ASSUME NEW r
    PROVE  /\ r.op = "put" => Entries(r) = PutEntries(r)
           /\ r.op = "get" => Entries(r) = {insert_conditions(r.conditions, "") \o ModeEntry \o RangeEntry(r)}
           /\ r.op = "delete" =>
                 Entries(r) = {insert_optional_header(Name("if-match"), r.conditions.if_match)}
           /\ r.op = "copy" => Entries(r) = {CopyEntries(r)}
           /\ r.op = "delete_objects" => Entries(r) = IF BatchFits(r) THEN {BatchEntries(r)} ELSE {}
<1> DEFINE put == PutEntries(r)
           get == {insert_conditions(r.conditions, "") \o ModeEntry \o RangeEntry(r)}
           head == {insert_conditions(r.conditions, "") \o ModeEntry}
           delete == {insert_optional_header(Name("if-match"), r.conditions.if_match)}
           copy == {CopyEntries(r)}
           batch == IF r.objects = {} \/ Cardinality(r.objects) > MaxDeleteObjects \/ DocumentSize(r) > MaxXmlSize
                    THEN {} ELSE {BatchEntries(r)}
<1>1. Entries(r) = CASE r.op = "put" -> put [] r.op = "get" -> get [] r.op = "head" -> head
                     [] r.op = "delete" -> delete [] r.op = "copy" -> copy [] r.op = "delete_objects" -> batch
  BY Zenon DEF Entries, PutEntries, ModeEntry, RangeEntry, BatchEntries
<1>2. batch = IF BatchFits(r) THEN {BatchEntries(r)} ELSE {}
  BY Zenon DEF BatchFits
<1> HIDE DEF put, get, head, delete, copy, batch
<1>3. /\ r.op = "put" => Entries(r) = put
      /\ r.op = "get" => Entries(r) = get
      /\ r.op = "delete" => Entries(r) = delete
      /\ r.op = "copy" => Entries(r) = copy
      /\ r.op = "delete_objects" => Entries(r) = batch
  BY <1>1
<1> QED
  BY <1>2, <1>3, Zenon DEF put, get, delete, copy

LEMMA PutHeaders ==
    ASSUME NEW r, RequestAssumption(r), r.op = "put", NEW h \in Headers(r)
    PROVE  /\ Stated(h, "", r.conditions)
           /\ \A i \in DOMAIN r.metadata : <<r.metadata[i][1][1], r.metadata[i][2]>> \in Metadata(h)
<1> DEFINE type == insert_optional_header(Name("content-type"), r.content_type)
           conditions == insert_conditions(r.conditions, "")
           metadata == insert_user_metadata(r.metadata)
           s1 == type \o conditions
           s2 == s1 \o metadata
<1>1. PICK e \in Entries(r) : h \in insert_headers(r.headers, e)
  BY BuiltFrom
<1>2. PICK sum \in insert_upload_checksum(r.algorithm, r.data) : e = s2 \o sum
  <2>1. e \in PutEntries(r)
    BY EntriesOf
  <2>2. PutEntries(r) = {s2 \o sum : sum \in insert_upload_checksum(r.algorithm, r.data)}
    BY Zenon DEF PutEntries
  <2> HIDE DEF s2
  <2> QED
    BY <2>1, <2>2
<1>3. IsList(sum)
  <2>1. sum = <<>> \/ sum = << <<Name("x-amz-sdk-checksum-algorithm"), <<"SHA256">>>>,
                               <<Name("x-amz-checksum-sha256"), sha256_base64(r.data)>> >>
    BY DEF insert_upload_checksum
  <2>2. \A x, y : <<x, y>> \in Seq({x, y})
    OBVIOUS
  <2> QED
    BY <2>1, <2>2, EmptyList, ListOf
<1>4. IsConditions(r.conditions) /\ IsOption(r.content_type) /\ IsList(r.metadata)
  BY DEF RequestAssumption, IsConditions
<1>5. IsList(type) /\ IsList(conditions) /\ IsList(metadata)
  BY <1>4, OptionalIn, ConditionsIn, MetadataIn
<1> HIDE DEF type, conditions, metadata
<1>6. IsList(s1) /\ \A x : In(s1, x) <=> In(type, x) \/ In(conditions, x)
  BY <1>5, ConcatList
<1> HIDE DEF s1
<1>7. IsList(s2) /\ \A x : In(s2, x) <=> In(s1, x) \/ In(metadata, x)
  BY <1>5, <1>6, ConcatList
<1> HIDE DEF s2
<1>8. \A x : In(conditions, x) \/ In(metadata, x) => In(e, x)
  BY <1>2, <1>3, <1>6, <1>7, ConcatList
<1>9. Stated(h, "", r.conditions)
  BY <1>1, <1>4, <1>8, ConditionsStated DEF conditions
<1>10. ASSUME NEW i \in DOMAIN r.metadata
       PROVE  <<r.metadata[i][1][1], r.metadata[i][2]>> \in Metadata(h)
  <2> DEFINE n == r.metadata[i][1][1]
             v == r.metadata[i][2]
             name == <<"x-amz-meta-", n>>
  <2>1. In(e, <<name, v>>)
    BY <1>4, <1>8, MetadataIn DEF metadata
  <2>2. name[1] = "x-amz-meta-" /\ name[2] = n
    OBVIOUS
  <2> HIDE DEF n, v, name
  <2>3. name \in DOMAIN h /\ h[name] = v
    BY <1>1, <2>1, EntryValue
  <2>4. <<n, v>> \in Metadata(h)
    BY <2>2, <2>3 DEF Metadata
  <2> QED
    BY <2>4 DEF n, v
<1> QED
  BY <1>9, <1>10

LEMMA DeleteHeaders ==
    ASSUME NEW r, RequestAssumption(r), r.op = "delete", NEW h \in Headers(r)
    PROVE  \A tag \in r.conditions.if_match : response_header(h, Name("if-match")) = {tag}
<1> DEFINE list == insert_optional_header(Name("if-match"), r.conditions.if_match)
<1>1. h \in insert_headers(r.headers, list)
  BY BuiltFrom, EntriesOf
<1>2. \A tag \in r.conditions.if_match : In(list, <<Name("if-match"), tag>>)
  BY OptionalIn DEF RequestAssumption
<1> HIDE DEF list
<1> TAKE tag \in r.conditions.if_match
<1>3. In(list, <<Name("if-match"), tag>>)
  BY <1>2
<1> QED
  BY <1>1, <1>3, EntryValue

LEMMA BatchHeaders ==
    ASSUME NEW r, r.op = "delete_objects", NEW h \in Headers(r)
    PROVE  h[Name("content-md5")][2] = DeleteDocument(r)
<1> DEFINE value == <<"md5", DeleteDocument(r)>>
           first == <<Name("content-type"), <<"application/xml">>>>
           second == <<Name("content-md5"), value>>
           list == <<first, second>>
<1>1. h \in insert_headers(r.headers, list)
  BY BuiltFrom, EntriesOf DEF BatchEntries
<1>2. In(list, second)
  BY DEF In
<1>3. value[2] = DeleteDocument(r)
  OBVIOUS
<1> HIDE DEF list, value
<1>4. h[Name("content-md5")] = value
  BY <1>1, <1>2, EntryValue
<1> QED
  BY <1>3, <1>4

LEMMA CopyHeaders ==
    ASSUME NEW r, RequestAssumption(r), r.op = "copy", NEW h \in Headers(r)
    PROVE  /\ SourceOf(h[Name("x-amz-copy-source")]) = r.source
           /\ Stated(h, "x-amz-copy-source-", r.conditions)
<1> DEFINE name == Name("x-amz-copy-source")
           value == copy_source_header(r.source)
           source == << <<name, value>> >>
           conditions == insert_conditions(r.conditions, "x-amz-copy-source-")
           directive == IF r.directive = {} THEN <<>>
                        ELSE insert_user_metadata(Some(r.directive))
                             \o << <<Name("x-amz-metadata-directive"), <<"REPLACE">>>> >>
           s1 == source \o conditions
           list == s1 \o directive
<1>1. CopyEntries(r) = list
  BY Zenon DEF CopyEntries
<1> HIDE DEF list
<1>2. h \in insert_headers(r.headers, list)
  BY <1>1, BuiltFrom, EntriesOf
<1>3. IsConditions(r.conditions) /\ SourceOf(value) = r.source
  BY DEF RequestAssumption, IsConditions
<1> HIDE DEF name, value
<1>4. IsList(source) /\ In(source, <<name, value>>) /\ IsList(conditions)
  BY <1>3, OneList, ConditionsIn
<1>5. IsList(directive)
  <2>1. CASE r.directive = {}
    BY <2>1, EmptyList
  <2>2. CASE r.directive # {}
    <3> DEFINE metadata == insert_user_metadata(Some(r.directive))
               last == << <<Name("x-amz-metadata-directive"), <<"REPLACE">>>> >>
    <3>1. Some(r.directive) \in r.directive
      BY <2>2 DEF Some
    <3>2. IsList(metadata) /\ IsList(last)
      BY <3>1, MetadataIn, OneList DEF RequestAssumption
    <3>3. directive = metadata \o last
      BY <2>2
    <3> HIDE DEF directive, metadata, last
    <3> QED
      BY <3>2, <3>3, ConcatList
  <2> QED
    BY <2>1, <2>2
<1> HIDE DEF source, conditions, directive
<1>6. IsList(s1) /\ \A x : In(s1, x) <=> In(source, x) \/ In(conditions, x)
  BY <1>4, ConcatList
<1> HIDE DEF s1
<1>7. \A x : In(source, x) \/ In(conditions, x) => In(list, x)
  BY <1>5, <1>6, ConcatList DEF list
<1>8. Stated(h, "x-amz-copy-source-", r.conditions)
  BY <1>2, <1>3, <1>7, ConditionsStated DEF conditions
<1>9. h[name] = value
  BY <1>2, <1>4, <1>7, EntryValue
<1> QED
  BY <1>3, <1>8, <1>9 DEF name

LEMMA GetHeaders ==
    ASSUME NEW r, RequestAssumption(r), r.op = "get", NEW h \in Headers(r)
    PROVE  /\ r.range = {} => Name("range") \notin DOMAIN h
           /\ \A b \in r.range : Name("range") \in DOMAIN h /\ h[Name("range")] = to_header_value(b)
<1> DEFINE name == Name("range")
           modeName == Name("x-amz-checksum-mode")
           enabled == <<"ENABLED">>
           options == {to_header_value(b) : b \in r.range}
           conditions == insert_conditions(r.conditions, "")
           range == insert_optional_header(name, options)
           one == << <<modeName, enabled>> >>
           s1 == conditions \o one
           list == s1 \o range
<1>1. h \in insert_headers(r.headers, list)
  BY BuiltFrom, EntriesOf DEF ModeEntry, RangeEntry
<1>2. IsConditions(r.conditions) /\ IsOption(options) /\ name \notin DOMAIN r.headers
  BY DEF RequestAssumption, IsConditions, IsOption
<1>3. modeName # name /\ name[2] \notin ConditionNames
  BY DEF Name, ConditionNames
<1>4. options = {} <=> r.range = {}
  OBVIOUS
<1> HIDE DEF name, modeName, enabled
<1>5. /\ IsList(conditions) /\ \A x : In(conditions, x) => x[1][2] \in ConditionNames
      /\ IsList(one) /\ \A x : In(one, x) <=> x = <<modeName, enabled>>
  BY <1>2, ConditionsIn, OneList
<1> HIDE DEF options
<1>6. IsList(range) /\ \A x : In(range, x) <=> \E v \in options : x = <<name, v>>
  BY <1>2, OptionalIn
<1> HIDE DEF conditions, one, range
<1>7. IsList(s1) /\ \A x : In(s1, x) <=> In(conditions, x) \/ In(one, x)
  BY <1>5, ConcatList
<1> HIDE DEF s1
<1>8. \A x : In(list, x) <=> In(s1, x) \/ In(range, x)
  BY <1>6, <1>7, ConcatList
<1> HIDE DEF list
<1>9. ASSUME options = {}, name \in DOMAIN h PROVE FALSE
  <2>1. PICK x : In(list, x) /\ x[1] = name
    BY <1>1, <1>2, <1>9, EntryHeld
  <2> QED
    BY <1>3, <1>5, <1>6, <1>7, <1>8, <1>9, <2>1
<1>10. ASSUME NEW v \in options PROVE name \in DOMAIN h /\ h[name] = v
  <2>1. In(list, <<name, v>>)
    BY <1>6, <1>8
  <2> QED
    BY <1>1, <2>1, EntryValue
<1> QED
  BY <1>4, <1>9, <1>10 DEF name, options

-------------------------------------------------------------------------------
(* What a get makes of the headers of a read, damaged or not. *)
Damaged(headers, sent) ==
    /\ DOMAIN headers = DOMAIN sent
    /\ \A n \in DOMAIN sent : headers[n] = sent[n] \/ headers[n] = Unreadable

RangeBytes(whole, range) ==
    CASE range[1] = "inclusive" -> SubSeq(whole, range[2] + 1, Min({range[3] + 1, Len(whole)}))
      [] range[1] = "from" -> SubSeq(whole, range[2] + 1, Len(whole))
      [] range[1] = "suffix" -> SubSeq(whole, Max({0, Len(whole) - range[2]}) + 1, Len(whole))

SoundDownload(r, out) ==
    /\ out.expected_length = Len(out.body.bytes)
    /\ \A sum \in out.expected_sha256 : sum = sha256_base64(out.body.bytes)
    /\ r.range = {} => out.body.bytes = out.body.object
    /\ \A range \in r.range : out.body.bytes = RangeBytes(out.body.object, range)

LEMMA ReadHeaderValues ==
    ASSUME NEW object, NEW body, NEW spans
    PROVE  LET sent == ReadHeaders(object, body, spans)
               sum == Name("x-amz-checksum-sha256")
               type == Name("x-amz-checksum-type")
           IN  /\ Name("content-length") \in DOMAIN sent /\ sent[Name("content-length")] = <<Len(body)>>
               /\ type \in DOMAIN sent /\ sent[type] = <<object.type>>
               /\ sum \in DOMAIN sent /\ (object.type = "FULL_OBJECT" => sent[sum] = sha256_base64(object.data))
               /\ spans # {} => Name("content-range") \in DOMAIN sent
<1> DEFINE length == Name("content-length")
           tag == Name("etag")
           date == Name("last-modified")
           sum == Name("x-amz-checksum-sha256")
           type == Name("x-amz-checksum-type")
           content == Name("content-range")
           names == {length, tag, date, sum, type} \cup (IF spans = {} THEN {} ELSE {content})
                    \cup {<<"x-amz-meta-", m[1]>> : m \in object.metadata}
           c1 == <<Len(body)>>
           c2 == ETag(object)
           c3 == <<"date", Second(object.modified)>>
           c4 == <<object.type>>
           c5 == IF object.type = "FULL_OBJECT" THEN sha256_base64(object.data)
                 ELSE <<"sha256", <<"composite", object.data>>>>
           c6 == <<"bytes", Some(spans)[1], Some(spans)[2], {Len(object.data)}>>
           c7(x) == Some({m[2] : m \in {e \in object.metadata : e[1] = x[2]}})
           sent == ReadHeaders(object, body, spans)
<1>1. sent = [x \in names |-> CASE x = length -> c1 [] x = tag -> c2 [] x = date -> c3 [] x = type -> c4
                                [] x = sum -> c5 [] x = content -> c6 [] OTHER -> c7(x)]
  BY Zenon DEF ReadHeaders
<1>2. length \in names /\ type \in names /\ sum \in names /\ (spans # {} => content \in names)
  OBVIOUS
<1>3. /\ length # tag /\ length # date /\ length # type /\ length # sum /\ length # content
      /\ type # tag /\ type # date /\ type # sum /\ type # content
      /\ sum # tag /\ sum # date /\ sum # content
  BY DEF Name
<1> HIDE DEF length, tag, date, sum, type, content, names, c1, c2, c3, c4, c5, c6, c7, sent
<1>4. DOMAIN sent = names
  BY <1>1
<1>5. sent[length] = c1
  BY <1>1, <1>2, <1>3
<1>6. sent[type] = c4
  BY <1>1, <1>2, <1>3
<1>7. sent[sum] = c5
  BY <1>1, <1>2, <1>3
<1>8. object.type = "FULL_OBJECT" => c5 = sha256_base64(object.data)
  BY DEF c5
<1> QED
  BY <1>2, <1>4, <1>5, <1>6, <1>7, <1>8, Zenon DEF sent, length, type, sum, content, c1, c4

LEMMA DownloadSound ==
    ASSUME NEW r, NEW object, NEW bytes, NEW spans, NEW headers, NEW body,
           Damaged(headers, ReadHeaders(object, bytes, spans)),
           body.bytes = bytes, body.object = object.data,
           spans = {} => bytes = object.data,
           r.range = {} => spans = {},
           \A range \in r.range : bytes = RangeBytes(object.data, range),
           NEW out \in GetOutput(headers, body)
    PROVE  SoundDownload(r, out)
<1> DEFINE sent == ReadHeaders(object, bytes, spans)
           length == Name("content-length")
           sum == Name("x-amz-checksum-sha256")
           type == Name("x-amz-checksum-type")
           content == Name("content-range")
<1>1. /\ length \in DOMAIN sent /\ sent[length] = <<Len(bytes)>>
      /\ type \in DOMAIN sent /\ sent[type] = <<object.type>>
      /\ sum \in DOMAIN sent /\ (object.type = "FULL_OBJECT" => sent[sum] = sha256_base64(object.data))
      /\ spans # {} => content \in DOMAIN sent
  BY ReadHeaderValues
<1>2. length \in MetadataNames(headers)
  BY DEF MetadataNames
<1>3. /\ DOMAIN headers = DOMAIN sent
      /\ \A n \in DOMAIN sent : headers[n] = sent[n] \/ headers[n] = Unreadable
  BY DEF Damaged
<1>4. PICK metadata \in parse_object_metadata(headers), range \in parse_content_range(headers),
           digest \in verified_download_sha256(headers) :
           out = [expected_sha256 |-> IF range = {} THEN digest ELSE {},
                  expected_length |-> metadata.content_length, content_range |-> range, body |-> body]
  BY DEF GetOutput
<1>5. /\ out.expected_sha256 = IF range = {} THEN digest ELSE {}
      /\ out.expected_length = metadata.content_length /\ out.body = body
  BY <1>4
<1> HIDE DEF sent, length, sum, type, content
<1>6. metadata.content_length = Len(bytes)
  <2>1. Readable(headers, MetadataNames(headers)) /\ metadata.content_length = headers[length][1]
    BY <1>4 DEF parse_object_metadata, length
  <2>2. headers[length] = <<Len(bytes)>>
    BY <1>1, <1>2, <1>3, <2>1 DEF Readable
  <2> QED
    BY <2>1, <2>2
<1>7. range = {} => spans = {}
  <2>1. content \in DOMAIN headers => range # {}
    BY <1>4 DEF parse_content_range, content
  <2> QED
    BY <1>1, <1>3, <2>1
<1>8. \A d \in digest : d = sha256_base64(object.data)
  <2>1. /\ Readable(headers, {sum, type})
        /\ digest = {} \/ (headers[type] = <<"FULL_OBJECT">> /\ digest = {headers[sum]})
    BY <1>1, <1>3, <1>4 DEF verified_download_sha256, sum, type
  <2>2. headers[type] = <<object.type>> /\ headers[sum] = sent[sum]
    BY <1>1, <1>3, <2>1 DEF Readable
  <2>3. headers[type] = <<"FULL_OBJECT">> => object.type = "FULL_OBJECT"
    BY <2>2
  <2> QED
    BY <1>1, <2>1, <2>2, <2>3
<1>9. \A d \in out.expected_sha256 : d = sha256_base64(bytes)
  BY <1>5, <1>7, <1>8
<1> QED
  BY <1>5, <1>6, <1>9 DEF SoundDownload

(* The bytes that the service takes for the header are the ones of the range. *)
LEMMA SpanBytes ==
    ASSUME NEW data, IsList(data), NEW range, NEW first, NEW last,
           \/ range[1] = "inclusive" /\ range[2] \in Nat /\ range[3] \in Nat
           \/ range[1] \in {"from", "suffix"} /\ range[2] \in Nat,
           <<first, last>> \in Span(data, to_header_value(range))
    PROVE  SubSeq(data, first + 1, last + 1) = RangeBytes(data, range)
<1>0. Len(data) \in Nat
  BY DEF IsList
<1> DEFINE n == Len(data)
           value == to_header_value(range)
           from == IF value[2] # {} THEN Some(value[2]) ELSE Max({0, n - Some(value[3])})
           to == IF value[2] # {} /\ value[3] # {} THEN Min({Some(value[3]), n - 1}) ELSE n - 1
<1>1. first = from /\ last = to
  <2>1. Span(data, value) = IF from <= to THEN {<<from, to>>} ELSE {}
    BY Zenon DEF Span
  <2> HIDE DEF from, to, value
  <2>2. <<first, last>> = <<from, to>>
    BY <2>1 DEF value
  <2> QED
    BY <2>2
<1>2. \A a \in Int : Min({a, n - 1}) + 1 = Min({a + 1, n})
  <2> TAKE a \in Int
  <2>1. \A b, c \in Int : Min({b, c}) = IF b <= c THEN b ELSE c
    BY DEF Min
  <2> QED
    BY <1>0, <2>1
<1>3. CASE range[1] = "inclusive"
  <2>1. value = <<"bytes=", {range[2]}, {range[3]}>>
    BY <1>3 DEF to_header_value
  <2>2. value[2] = {range[2]} /\ value[3] = {range[3]}
    BY <2>1
  <2>3. from = range[2] /\ to = Min({range[3], n - 1})
    BY <2>2, SomeOne
  <2>4. range[2] \in Nat /\ range[3] \in Nat
    BY <1>3
  <2>5. first + 1 = range[2] + 1 /\ last + 1 = Min({range[3] + 1, n})
    BY <1>1, <1>2, <2>3, <2>4
  <2>6. RangeBytes(data, range) = SubSeq(data, range[2] + 1, Min({range[3] + 1, n}))
    BY <1>3 DEF RangeBytes
  <2> QED
    BY <2>5, <2>6
<1>4. CASE range[1] = "from"
  <2>1. value = <<"bytes=", {range[2]}, {}>>
    BY <1>4 DEF to_header_value
  <2>2. value[2] = {range[2]} /\ value[3] = {}
    BY <2>1
  <2>3. from = range[2] /\ to = n - 1
    BY <2>2, SomeOne
  <2>4. first + 1 = range[2] + 1 /\ last + 1 = n
    BY <1>0, <1>1, <2>3
  <2>5. RangeBytes(data, range) = SubSeq(data, range[2] + 1, n)
    BY <1>4 DEF RangeBytes
  <2> QED
    BY <2>4, <2>5
<1>5. CASE range[1] = "suffix"
  <2>1. value = <<"bytes=", {}, {range[2]}>>
    BY <1>5 DEF to_header_value
  <2>2. value[2] = {} /\ value[3] = {range[2]}
    BY <2>1
  <2>3. from = Max({0, n - range[2]}) /\ to = n - 1
    BY <2>2, SomeOne
  <2>4. first + 1 = Max({0, n - range[2]}) + 1 /\ last + 1 = n
    BY <1>0, <1>1, <2>3
  <2>5. RangeBytes(data, range) = SubSeq(data, Max({0, n - range[2]}) + 1, n)
    BY <1>5 DEF RangeBytes
  <2> QED
    BY <2>4, <2>5
<1> QED
  BY <1>3, <1>4, <1>5

-------------------------------------------------------------------------------
(* The inductive invariant. *)
IsVersion(version) ==
    /\ DOMAIN version = VersionFields
    /\ version.type \in {"FULL_OBJECT", "COMPOSITE"}
    /\ version.modified \in Int
    /\ IsList(version.data)

StoreTypes ==
    /\ DOMAIN store = Keys /\ clock \in Nat
    /\ \A k \in Keys : IsList(store[k])
    /\ \A k \in Keys : \A i \in DOMAIN store[k] : IsVersion(store[k][i]) /\ store[k][i].modified < clock

CallerTypes ==
    /\ request \in [Callers -> {{}} \cup {{r} : r \in Requests}]
    /\ attempts \in [Callers -> 0..MaxAttempts]
    /\ DOMAIN reply = Callers /\ DOMAIN result = Callers /\ DOMAIN effects = Callers
    /\ \A c \in Callers :
          /\ \A answer \in reply[c] : reply[c] = {answer} /\ Waiting(c)
          /\ \A out \in result[c] : result[c] = {out}
          /\ attempts[c] > 0 => \E r \in Requests : request[c] = {r} /\ Headers(r) # {}
          /\ attempts[c] = 0 => effects[c] = {}
          /\ request[c] = {} => result[c] = {}

(* An attempt on its way is one that its caller began. *)
AttemptsBelong ==
    \A f \in flying : f = <<f[1], f[2]>> /\ f[1] \in Callers /\ f[2] \in 1..attempts[f[1]]

(* A write of what r asks for is among what was done; versions are those of  *)
(* the bucket.                                                               *)
Stored(r, did, versions) ==
    \E e \in did : \E v \in e.after :
        /\ e.key = r.key
        /\ r.op = "put" => /\ v.data = r.data
                          /\ \A i \in DOMAIN r.metadata : <<r.metadata[i][1][1], r.metadata[i][2]>> \in v.metadata
        /\ r.op = "copy" =>
              /\ r.source.key \in Keys
              /\ \E s \in DOMAIN versions[r.source.key] :
                    v.data = versions[r.source.key][s].data /\ (r.source.version # {} => s \in r.source.version)

(* What an answer tells about a request for which the service did did. *)
Truth(r, answer, did, versions) ==
    /\ answer.status # 200 => did = {}
    /\ r.op \in {"put", "delete"} => answer.status \in {200, 412} /\ (answer.status = 200 => did # {})
    /\ answer.status = 200 /\ (r.op = "put" \/ (r.op = "copy" /\ answer.root # "Error")) => Stored(r, did, versions)
    /\ r.op = "delete_objects" /\ answer.status = 200 /\ answer.body.errors = {} =>
          \A o \in r.objects : \E e \in did : e.key = o.key
    /\ r.op = "get" /\ answer.status = 200 =>
          \A out \in GetOutput(answer.headers, answer.body) : SoundDownload(r, out)

(* The answer that waits for its caller is true of what was done for the     *)
(* call; the answer to a first attempt leaves nothing behind.                *)
ReplyTrue(c) ==
    /\ \A answer \in reply[c] : \A r \in request[c] : \E did \in SUBSET effects[c] :
          Truth(r, answer, did, store) /\ (attempts[c] = 1 => effects[c] = did)
    /\ Waiting(c) /\ attempts[c] = 1 =>
          IF reply[c] = {} THEN effects[c] = {} ELSE <<c, 1>> \notin flying

RepliesAreTrue == \A c \in Callers : ReplyTrue(c)

(* A result is true of what was done for its call. *)
ResultTrue(r, out, done, versions) ==
    /\ out.kind = "Ok" /\ r.op \in {"put", "copy"} => Stored(r, done, versions)
    /\ out.kind = "InvalidResponse" /\ r.op \in {"put", "delete"} => done # {}
    /\ out.kind = "Ok" /\ r.op = "delete_objects" /\ out.value.errors = {} =>
          \A o \in r.objects : \E e \in done : e.key = o.key
    /\ out.kind = "Ok" /\ r.op = "get" => SoundDownload(r, out.value)

ResultsAreTrue == \A c \in Callers : \A r \in request[c] : \A out \in result[c] : 
    ResultTrue(r, out, effects[c], store)

(* A call that was refused did nothing and has nothing on its way. *)
RefusalQuiet(c) ==
    \A out \in result[c] :
        /\ out.kind = "Configuration" => attempts[c] = 0
        /\ out.kind \in {"Precondition", "NotFound"} /\ attempts[c] = 1 =>
              effects[c] = {} /\ <<c, 1>> \notin flying

RefusalsAreQuiet == \A c \in Callers : RefusalQuiet(c)

(* What is done to an object for r is guarded by what r states. *)
Guarded(r, e) ==
    IF r.op = "delete_objects"
    THEN \E o \in r.objects : o.key = e.key /\ \A tag \in o.if_match : \E v \in e.before : tag \in {ETag(v), AnyTag}
    ELSE Holds(r.conditions, e.before)

IInv ==
    /\ StoreTypes /\ CallerTypes /\ AttemptsBelong /\ RepliesAreTrue /\ ResultsAreTrue /\ RefusalsAreQuiet
    /\ ConditionsGuardEffects

-------------------------------------------------------------------------------
(* The versions of a key. *)
LEMMA MaxIn ==
    ASSUME NEW n \in Nat, NEW S, S \subseteq 1..n, S # {}
    PROVE  Max(S) \in S
<1> DEFINE T == {n - i : i \in S}
<1>1. T \subseteq Nat /\ T # {}
  <2>1. \A i \in S : n - i \in Nat
    OBVIOUS
  <2>2. PICK i : i \in S
    OBVIOUS
  <2>3. n - i \in T
    BY <2>2
  <2> QED
    BY <2>1, <2>3
<1>2. PICK t \in T : \A u \in T : ~(<<u, t>> \in OpToRel(<, Nat))
  BY <1>1, NatLessThanWellFounded, WFMin, Zenon
<1>3. \A u \in T : ~(u < t)
  BY <1>1, <1>2 DEF OpToRel
<1>4. PICK m \in S : t = n - m
  OBVIOUS
<1>5. \A i \in S : m >= i
  <2> TAKE i \in S
  <2>1. ~(n - i < n - m)
    BY <1>3, <1>4
  <2>2. i \in Int /\ m \in Int
    OBVIOUS
  <2> QED
    BY <2>1, <2>2
<1> QED
  BY <1>4, <1>5 DEF Max

LEMMA VersionsList ==
    ASSUME StoreTypes, NEW k \in Keys
    PROVE  Len(store[k]) \in Nat /\ DOMAIN store[k] = 1..Len(store[k])
BY DEF StoreTypes, IsList

LEMMA SelectedVersion ==
    ASSUME StoreTypes, NEW k \in Keys, NEW version, NEW object \in Selected(k, version)
    PROVE  \E s \in DOMAIN store[k] : object = store[k][s] /\ (version # {} => s \in version)
<1>1. Len(store[k]) \in Nat /\ Alive(k) \subseteq 1..Len(store[k]) /\ Alive(k) \subseteq DOMAIN store[k]
  BY VersionsList DEF Alive
<1>2. CASE version = {}
  <2>1. object \in Latest(k)
    BY <1>2 DEF Selected
  <2>2. Alive(k) # {} /\ object = store[k][Max(Alive(k))]
    BY <2>1 DEF Latest
  <2>3. Max(Alive(k)) \in DOMAIN store[k]
    BY <1>1, <2>2, MaxIn
  <2> QED
    BY <1>2, <2>2, <2>3
<1>3. CASE version # {}
  BY <1>1, <1>3 DEF Selected
<1> QED
  BY <1>2, <1>3

LEMMA SelectedTypes ==
    ASSUME StoreTypes, NEW k \in Keys, NEW version, NEW object \in Selected(k, version)
    PROVE  IsVersion(object)
BY SelectedVersion DEF StoreTypes

(* The versions of a key after a step: nothing that was there has other data. *)
Follows(before, after) ==
    /\ IsList(after)
    /\ \A i \in DOMAIN after : IsVersion(after[i]) /\ after[i].modified < clock + 1
    /\ \A i \in DOMAIN before : i \in DOMAIN after /\ after[i].data = before[i].data

LEMMA FollowsItself ==
    ASSUME StoreTypes, NEW k \in Keys
    PROVE  Follows(store[k], store[k])
<1>1. \A i \in DOMAIN store[k] : store[k][i].modified < clock + 1
  BY DEF StoreTypes, IsVersion
<1> QED
  BY <1>1 DEF StoreTypes, Follows

LEMMA FollowsAppend ==
    ASSUME StoreTypes, NEW k \in Keys, NEW version, IsVersion(version), version.modified = clock
    PROVE  Follows(store[k], Append(store[k], version))
<1> DEFINE before == store[k]
           S == Range(before) \cup {version}
           after == Append(before, version)
<1>1. before \in Seq(Range(before)) /\ clock \in Nat
  BY DEF StoreTypes, IsList
<1>2. before \in Seq(S)
  BY <1>1, SeqMonotonic
<1>3. \A i \in DOMAIN before : IsVersion(before[i]) /\ before[i].modified < clock
  BY DEF StoreTypes
<1> HIDE DEF before
<1>4. /\ after \in Seq(S) /\ DOMAIN before = 1..Len(before) /\ DOMAIN after = 1..(Len(before) + 1)
      /\ Len(before) \in Nat /\ after[Len(before) + 1] = version
      /\ \A i \in 1..Len(before) : after[i] = before[i]
  BY <1>2
<1> HIDE DEF S, after
<1>5. IsList(after)
  BY <1>4, ListOf
<1>6. \A i \in DOMAIN after : i \in 1..Len(before) \/ i = Len(before) + 1
  BY <1>4
<1>7. \A i \in DOMAIN after : IsVersion(after[i]) /\ after[i].modified < clock + 1
  BY <1>1, <1>3, <1>4, <1>6 DEF IsVersion
<1>8. \A i \in DOMAIN before : i \in DOMAIN after /\ after[i].data = before[i].data
  BY <1>4
<1> QED
  BY <1>5, <1>7, <1>8 DEF Follows, before, after

LEMMA FollowsRemoved ==
    ASSUME StoreTypes, NEW k \in Keys, NEW version
    PROVE  Follows(store[k], Removed(store[k], version))
<1>1. CASE version = {}
  <2> DEFINE marker == [Version(<<>>, "FULL_OBJECT", {}) EXCEPT !.marker = TRUE]
  <2>1. /\ DOMAIN marker = VersionFields /\ marker.type = "FULL_OBJECT" /\ marker.modified = clock
        /\ marker.data = <<>>
    BY DEF Version, VersionFields
  <2>2. Removed(store[k], version) = Append(store[k], marker)
    BY <1>1 DEF Removed
  <2> HIDE DEF marker
  <2>3. IsVersion(marker)
    BY <2>1, EmptyList DEF IsVersion, StoreTypes
  <2> QED
    BY <2>1, <2>2, <2>3, FollowsAppend
<1>2. CASE version # {}
  <2> DEFINE before == store[k]
             after == [i \in DOMAIN before |-> IF i \in version THEN [before[i] EXCEPT !.alive = FALSE] ELSE before[i]]
  <2>1. Removed(before, version) = after
    BY <1>2 DEF Removed
  <2>2. /\ DOMAIN before = 1..Len(before) /\ Len(before) \in Nat /\ clock \in Nat
        /\ \A i \in DOMAIN before : IsVersion(before[i]) /\ before[i].modified < clock
    BY VersionsList DEF StoreTypes
  <2> HIDE DEF before
  <2>3. /\ DOMAIN after = DOMAIN before
        /\ \A i \in DOMAIN before :
              DOMAIN after[i] = DOMAIN before[i] /\ after[i].type = before[i].type
              /\ after[i].modified = before[i].modified /\ after[i].data = before[i].data
    BY <2>2 DEF IsVersion, VersionFields
  <2>4. after = [i \in DOMAIN before |-> after[i]]
    OBVIOUS
  <2> HIDE DEF after
  <2> DEFINE S == {after[i] : i \in DOMAIN after}
  <2>5. after \in [1..Len(before) -> S]
    BY <2>2, <2>3, <2>4
  <2>6. after \in Seq(S)
    BY <2>2, <2>5, SeqDef
  <2>7. IsList(after)
    BY <2>6, ListOf
  <2>8. \A i \in DOMAIN after : IsVersion(after[i]) /\ after[i].modified < clock + 1
    BY <2>2, <2>3 DEF IsVersion
  <2>9. Follows(before, after)
    BY <2>3, <2>7, <2>8 DEF Follows
  <2> QED
    BY <2>1, <2>9 DEF before
<1> QED
  BY <1>1, <1>2

(* A step of the bucket. *)
StoreKept == \A k \in Keys : \A i \in DOMAIN store[k] : i \in DOMAIN store'[k] /\ store'[k][i].data = store[k][i].data

LEMMA StoreStep ==
    ASSUME StoreTypes, DOMAIN store' = Keys, clock' = clock + 1, \A k \in Keys : Follows(store[k], store'[k])
    PROVE  StoreTypes' /\ StoreKept
<1>1. clock' \in Nat
  BY DEF StoreTypes
<1>2. StoreTypes'
  BY <1>1 DEF StoreTypes, Follows, IsVersion
<1> QED
  BY <1>2 DEF StoreKept, Follows

-------------------------------------------------------------------------------
(* An attempt reaches the service: the answer that its caller receives is    *)
(* true of what was done, and what was done is guarded.                      *)
Received(answer, sent) ==
    /\ answer.status = sent.status /\ answer.root = sent.root /\ answer.body = sent.body
    /\ Damaged(answer.headers, sent.headers)

Done(c, did) ==
    /\ DOMAIN effects' = Callers
    /\ \A d \in Callers : effects'[d] = IF d = c THEN effects[d] \cup did ELSE effects[d]

Served(c, n, r, sent, did) ==
    /\ Deliver(c, n, sent) /\ DOMAIN sent = {"status", "headers", "root", "body"}
    /\ Done(c, did)
    /\ StoreTypes' /\ StoreKept
    /\ \A e \in did : Guarded(r, e)
    /\ \A answer : Received(answer, sent) => Truth(r, answer, did, store')

LEMMA AnswerFields ==
    ASSUME NEW status, NEW headers, NEW root, NEW body
    PROVE  LET sent == Answer(status, headers, root, body) IN
           /\ DOMAIN sent = {"status", "headers", "root", "body"}
           /\ sent.status = status /\ sent.headers = headers /\ sent.root = root /\ sent.body = body
BY DEF Answer

LEMMA DeliverReceived ==
    ASSUME NEW c \in Callers, NEW n, NEW sent, Deliver(c, n, sent), DOMAIN reply = Callers,
           DOMAIN sent = {"status", "headers", "root", "body"}
    PROVE  IF Waiting(c) /\ attempts[c] = n /\ reply[c] = {}
           THEN \E answer : Received(answer, sent) /\ reply' = [reply EXCEPT ![c] = {answer}]
           ELSE reply' = reply
<1>1. CASE Waiting(c) /\ attempts[c] = n /\ reply[c] = {}
  <2>1. \/ reply' = [reply EXCEPT ![c] = {sent}]
        \/ \E h \in DOMAIN sent.headers :
              reply' = [reply EXCEPT ![c] = {[sent EXCEPT !.headers[h] = Unreadable]}]
    BY <1>1 DEF Deliver
  <2>2. Received(sent, sent)
    BY DEF Received, Damaged
  <2>3. ASSUME NEW h \in DOMAIN sent.headers
        PROVE  Received([sent EXCEPT !.headers[h] = Unreadable], sent)
    <3> DEFINE answer == [sent EXCEPT !.headers[h] = Unreadable]
    <3>1. /\ answer.status = sent.status /\ answer.root = sent.root /\ answer.body = sent.body
          /\ answer.headers = [sent.headers EXCEPT ![h] = Unreadable]
      OBVIOUS
    <3> HIDE DEF answer
    <3>2. Damaged(answer.headers, sent.headers)
      BY <3>1 DEF Damaged
    <3>3. Received(answer, sent)
      BY <3>1, <3>2 DEF Received
    <3> QED
      BY <3>3 DEF answer
  <2> QED
    BY <1>1, <2>1, <2>2, <2>3
<1>2. CASE ~(Waiting(c) /\ attempts[c] = n /\ reply[c] = {})
  BY <1>2 DEF Deliver
<1> QED
  BY <1>1, <1>2

LEMMA RestingStore ==
    ASSUME StoreTypes, UNCHANGED <<store, clock>>
    PROVE  StoreTypes' /\ StoreKept
BY DEF StoreTypes, StoreKept

LEMMA RefuseServed ==
    ASSUME StoreTypes, DOMAIN effects = Callers, NEW c \in Callers, NEW n, NEW r,
           NEW status \in {304, 404, 412, 416}, r.op \in {"put", "delete"} => status = 412, Refuse(c, n, status)
    PROVE  \E sent, did : Served(c, n, r, sent, did)
<1> DEFINE sent == Refusal(status)
<1>1. DOMAIN sent = {"status", "headers", "root", "body"} /\ sent.status = status
  BY AnswerFields DEF Refusal
<1> HIDE DEF sent
<1>2. Deliver(c, n, sent) /\ UNCHANGED <<store, clock, effects>>
  BY DEF Refuse, sent
<1>3. StoreTypes' /\ StoreKept
  BY <1>2, RestingStore
<1>4. Done(c, {})
  BY <1>2 DEF Done
<1>5. \A answer : Received(answer, sent) => Truth(r, answer, {}, store')
  BY <1>1 DEF Received, Truth
<1>6. Served(c, n, r, sent, {})
  BY <1>1, <1>2, <1>3, <1>4, <1>5 DEF Served
<1> QED
  BY <1>6

LEMMA VersionOf ==
    ASSUME StoreTypes, NEW data, IsList(data), NEW metadata
    PROVE  LET version == Version(data, "FULL_OBJECT", metadata) IN
           /\ IsVersion(version) /\ version.modified = clock
           /\ version.data = data /\ version.metadata = metadata
BY DEF Version, IsVersion, VersionFields, StoreTypes

LEMMA WriteStore ==
    ASSUME StoreTypes, NEW key \in Keys, NEW version, IsVersion(version), version.modified = clock,
           store' = [store EXCEPT ![key] = Append(@, version)], clock' = clock + 1
    PROVE  StoreTypes' /\ StoreKept
<1>1. DOMAIN store' = Keys
  BY DEF StoreTypes
<1>2. \A k \in Keys : store'[k] = IF k = key THEN Append(store[k], version) ELSE store[k]
  BY DEF StoreTypes
<1>3. \A k \in Keys : Follows(store[k], store'[k])
  BY <1>2, FollowsAppend, FollowsItself
<1> QED
  BY <1>1, <1>3, StoreStep

LEMMA ServePutServed ==
    ASSUME StoreTypes, DOMAIN effects = Callers, NEW c \in Callers, NEW n, NEW r, RequestAssumption(r),
           r.op = "put", NEW h \in Headers(r), ServePut(c, n, r, h)
    PROVE  \E sent, did : Served(c, n, r, sent, did)
<1> DEFINE before == Latest(r.key)
           good == Matches(h, "", before) /\ Changed(h, "", before)
           version == Version(r.data, "FULL_OBJECT", Metadata(h))
           names == {Name("etag"), Name("x-amz-request-id")}
           headers == [x \in names |-> IF x = Name("etag") THEN ETag(version) ELSE <<"id">>]
           sent == Answer(200, headers, "none", <<>>)
           e == Effect(r.key, before, {version})
<1>1. IF ~good THEN Refuse(c, n, 412) ELSE Write(c, n, r.key, version, before, sent)
  BY Zenon DEF ServePut
<1>2. r.key \in Keys /\ IsList(r.data)
  BY DEF RequestAssumption
<1>3. IsVersion(version) /\ version.modified = clock /\ version.data = r.data /\ version.metadata = Metadata(h)
  BY <1>2, VersionOf
<1>4. good => Holds(r.conditions, before)
  BY PutHeaders, StatedHolds
<1>5. /\ DOMAIN sent = {"status", "headers", "root", "body"} /\ sent.status = 200
  BY AnswerFields
<1> HIDE DEF before, good, version, sent
<1>6. CASE ~good
  BY <1>1, <1>6, RefuseServed
<1>7. CASE good
  <2>1. /\ store' = [store EXCEPT ![r.key] = Append(@, version)] /\ clock' = clock + 1
        /\ effects' = [effects EXCEPT ![c] = @ \cup {e}]
        /\ Deliver(c, n, sent)
    BY <1>1, <1>7 DEF Write
  <2>2. StoreTypes' /\ StoreKept
    BY <1>2, <1>3, <2>1, WriteStore
  <2>3. e.key = r.key /\ e.before = before /\ e.after = {version}
    BY DEF Effect
  <2> HIDE DEF e
  <2>4. Guarded(r, e)
    BY <1>4, <1>7, <2>3 DEF Guarded
  <2>5. Stored(r, {e}, store')
    <3>1. \A i \in DOMAIN r.metadata : <<r.metadata[i][1][1], r.metadata[i][2]>> \in version.metadata
      BY <1>3, PutHeaders
    <3>2. version \in e.after /\ e.key = r.key /\ version.data = r.data
      BY <1>3, <2>3
    <3> QED
      BY <3>1, <3>2, Zenon DEF Stored
  <2>6. \A answer : Received(answer, sent) => Truth(r, answer, {e}, store')
    BY <1>5, <2>5 DEF Received, Truth
  <2>7. Served(c, n, r, sent, {e})
    BY <1>5, <2>1, <2>2, <2>4, <2>6 DEF Served, Done
  <2> QED
    BY <2>7
<1> QED
  BY <1>6, <1>7

LEMMA ServeDeleteServed ==
    ASSUME StoreTypes, DOMAIN effects = Callers, NEW c \in Callers, NEW n, NEW r, RequestAssumption(r),
           r.op = "delete", NEW h \in Headers(r), ServeDelete(c, n, r, h)
    PROVE  \E sent, did : Served(c, n, r, sent, did)
<1> DEFINE before == Selected(r.key, r.version)
           headers == [x \in {Name("x-amz-delete-marker")} |-> <<IF r.version = {} THEN "true" ELSE "false">>]
           sent == Answer(200, headers, "none", <<>>)
           e == Effect(r.key, before, {})
<1>1. IF ~Matches(h, "", before) THEN Refuse(c, n, 412)
      ELSE /\ store' = [store EXCEPT ![r.key] = Removed(@, r.version)] /\ clock' = clock + 1
           /\ effects' = [effects EXCEPT ![c] = @ \cup {e}]
           /\ Deliver(c, n, sent)
  BY Zenon DEF ServeDelete
<1>2. Matches(h, "", before) => Holds(r.conditions, before)
  <2> HAVE Matches(h, "", before)
  <2>1. \A tag \in r.conditions.if_match : response_header(h, <<"", "if-match">>) = {tag}
    BY DeleteHeaders DEF Name
  <2>2. \A tag \in r.conditions.if_match : \E o \in before : tag \in {ETag(o), AnyTag}
    BY <2>1 DEF Matches
  <2> QED
    BY <2>2 DEF Holds, RequestAssumption
<1>3. DOMAIN sent = {"status", "headers", "root", "body"} /\ sent.status = 200
  BY AnswerFields
<1> HIDE DEF before, sent
<1>4. CASE ~Matches(h, "", before)
  <2>1. Refuse(c, n, 412)
    BY <1>1, <1>4
  <2> QED
    BY <2>1, RefuseServed
<1>5. CASE Matches(h, "", before)
  <2>1. /\ store' = [store EXCEPT ![r.key] = Removed(@, r.version)] /\ clock' = clock + 1
        /\ effects' = [effects EXCEPT ![c] = @ \cup {e}]
        /\ Deliver(c, n, sent)
    BY <1>1, <1>5
  <2>2. StoreTypes' /\ StoreKept
    <3>1. DOMAIN store' = Keys
      BY <2>1 DEF StoreTypes
    <3>2. \A k \in Keys : store'[k] = IF k = r.key THEN Removed(store[k], r.version) ELSE store[k]
      BY <2>1 DEF StoreTypes
    <3>3. \A k \in Keys : Follows(store[k], store'[k])
      BY <3>2, FollowsRemoved, FollowsItself
    <3> QED
      BY <2>1, <3>1, <3>3, StoreStep
  <2>3. e.before = before
    BY DEF Effect
  <2> HIDE DEF e
  <2>4. Guarded(r, e)
    BY <1>2, <1>5, <2>3 DEF Guarded
  <2>5. \A answer : Received(answer, sent) => Truth(r, answer, {e}, store')
    BY <1>3 DEF Received, Truth
  <2>6. Served(c, n, r, sent, {e})
    BY <1>3, <2>1, <2>2, <2>4, <2>5 DEF Served, Done
  <2> QED
    BY <2>6
<1> QED
  BY <1>4, <1>5

LEMMA ServeReadServed ==
    ASSUME StoreTypes, DOMAIN effects = Callers, NEW c \in Callers, NEW n, NEW r, RequestAssumption(r),
           r.op \in {"get", "head"}, NEW h \in Headers(r), ServeRead(c, n, r, h)
    PROVE  \E sent, did : Served(c, n, r, sent, did)
<1> DEFINE selected == Selected(r.key, r.version)
           object == Some(selected)
           ranged == Name("range") \in DOMAIN h
           spans == IF ranged THEN Span(object.data, h[Name("range")]) ELSE {}
           bytes == IF spans = {} THEN object.data
                    ELSE SubSeq(object.data, Some(spans)[1] + 1, Some(spans)[2] + 1)
           body == [bytes |-> bytes, object |-> object.data]
           sent == Answer(200, ReadHeaders(object, bytes, spans), "none", body)
<1>1. IF selected = {} THEN Refuse(c, n, 404)
      ELSE IF ~Matches(h, "", selected) THEN Refuse(c, n, 412)
      ELSE IF ~Changed(h, "", selected) THEN Refuse(c, n, 304)
      ELSE IF ranged /\ spans = {} THEN Refuse(c, n, 416)
      ELSE Deliver(c, n, sent) /\ UNCHANGED <<store, clock, effects>>
  BY Zenon DEF ServeRead
<1>2. ASSUME NEW status \in {304, 404, 412, 416}, Refuse(c, n, status)
      PROVE  \E s, did : Served(c, n, r, s, did)
  BY <1>2, RefuseServed
<1>3. ASSUME selected # {}, ~(ranged /\ spans = {}), Deliver(c, n, sent), UNCHANGED <<store, clock, effects>>
      PROVE  \E s, did : Served(c, n, r, s, did)
  <2>1. /\ DOMAIN sent = {"status", "headers", "root", "body"}
        /\ sent.headers = ReadHeaders(object, bytes, spans) /\ sent.body = body
    BY AnswerFields
  <2>2. body.bytes = bytes /\ body.object = object.data
    OBVIOUS
  <2>3. StoreTypes' /\ StoreKept
    BY <1>3, RestingStore
  <2>4. Done(c, {})
    BY <1>3 DEF Done
  <2>5. IsList(object.data)
    <3>1. object \in selected
      BY <1>3 DEF Some
    <3> QED
      BY <3>1, SelectedTypes DEF IsVersion, RequestAssumption
  <2>6. spans = {} => bytes = object.data
    OBVIOUS
  <2>7. r.op = "get" /\ r.range = {} => spans = {}
    BY GetHeaders
  <2>8. ASSUME r.op = "get", NEW range \in r.range
        PROVE  bytes = RangeBytes(object.data, range)
    <3>1. ranged /\ h[Name("range")] = to_header_value(range)
      BY <2>8, GetHeaders
    <3>2. spans = Span(object.data, to_header_value(range)) /\ spans # {}
      BY <1>3, <3>1
    <3>3. PICK first, last : spans = {<<first, last>>}
      BY <3>2 DEF Span
    <3>4. Some(spans)[1] = first /\ Some(spans)[2] = last
      <4>1. Some({<<first, last>>}) = <<first, last>>
        BY SomeOne
      <4> HIDE DEF spans
      <4>2. Some(spans) = <<first, last>>
        BY <3>3, <4>1
      <4> QED
        BY <4>2
    <3>5. bytes = SubSeq(object.data, first + 1, last + 1)
      BY <3>2, <3>4
    <3>6. \/ range[1] = "inclusive" /\ range[2] \in Nat /\ range[3] \in Nat
          \/ range[1] \in {"from", "suffix"} /\ range[2] \in Nat
      BY DEF RequestAssumption
    <3>7. <<first, last>> \in Span(object.data, to_header_value(range))
      BY <3>2, <3>3
    <3> HIDE DEF object, bytes, spans
    <3> QED
      BY <2>5, <3>5, <3>6, <3>7, SpanBytes
  <2> HIDE DEF sent, bytes, spans, object, body
  <2>9. ASSUME NEW answer, Received(answer, sent)
        PROVE  Truth(r, answer, {}, store')
    <3>1. Damaged(answer.headers, ReadHeaders(object, bytes, spans)) /\ answer.body = body
      BY <2>1, <2>9 DEF Received
    <3>2. ASSUME r.op = "get", NEW out \in GetOutput(answer.headers, answer.body)
          PROVE  SoundDownload(r, out)
      BY <2>2, <2>6, <2>7, <2>8, <3>1, <3>2, DownloadSound
    <3> QED
      BY <3>2 DEF Truth
  <2>10. Served(c, n, r, sent, {})
    BY <1>3, <2>1, <2>3, <2>4, <2>9 DEF Served
  <2> QED
    BY <2>10
<1>4. \/ \E status \in {304, 404, 412, 416} : Refuse(c, n, status)
      \/ selected # {} /\ ~(ranged /\ spans = {}) /\ Deliver(c, n, sent) /\ UNCHANGED <<store, clock, effects>>
  <2> HIDE DEF selected, sent, spans
  <2>1. CASE selected = {}
    BY <1>1, <2>1
  <2>2. CASE selected # {} /\ ~Matches(h, "", selected)
    BY <1>1, <2>2
  <2>3. CASE selected # {} /\ Matches(h, "", selected) /\ ~Changed(h, "", selected)
    BY <1>1, <2>3
  <2>4. CASE selected # {} /\ Matches(h, "", selected) /\ Changed(h, "", selected) /\ ranged /\ spans = {}
    <3>1. Refuse(c, n, 416)
      BY <1>1, <2>4, Zenon
    <3> QED
      BY <3>1
  <2>5. CASE selected # {} /\ Matches(h, "", selected) /\ Changed(h, "", selected) /\ ~(ranged /\ spans = {})
    BY <1>1, <2>5
  <2> QED
    BY <2>1, <2>2, <2>3, <2>4, <2>5
<1> HIDE DEF selected, sent, spans
<1> QED
  BY <1>2, <1>3, <1>4

LEMMA ServeDeleteObjectsServed ==
    ASSUME StoreTypes, DOMAIN effects = Callers, NEW c \in Callers, NEW n, NEW r, RequestAssumption(r),
           r.op = "delete_objects", NEW h \in Headers(r), ServeDeleteObjects(c, n, r, h)
    PROVE  \E sent, did : Served(c, n, r, sent, did)
<1> DEFINE document == h[Name("content-md5")][2]
           good == {o \in document.objects :
                       \A tag \in o.if_match : \E v \in Selected(o.key, o.version) : tag \in {ETag(v), AnyTag}}
           named(k) == UNION {o.version : o \in {g \in good : g.key = k}}
           headers == [x \in {Name("x-amz-request-id")} |-> <<"id">>]
           body == [deleted |-> IF document.quiet THEN {} ELSE good, errors |-> document.objects \ good]
           sent == Answer(200, headers, "Result", body)
           did == {Effect(o.key, Selected(o.key, o.version), {}) : o \in good}
<1>1. /\ store' = [k \in Keys |-> IF \E o \in good : o.key = k THEN Removed(store[k], named(k)) ELSE store[k]]
      /\ clock' = clock + 1
      /\ effects' = [effects EXCEPT ![c] = @ \cup did]
      /\ Deliver(c, n, sent)
  BY Zenon DEF ServeDeleteObjects
<1>2. document.objects = r.objects
  <2>1. document = DeleteDocument(r)
    BY BatchHeaders
  <2>2. DeleteDocument(r).objects = r.objects
    BY DEF DeleteDocument
  <2> HIDE DEF document
  <2> QED
    BY <2>1, <2>2
<1>3. DOMAIN sent = {"status", "headers", "root", "body"} /\ sent.status = 200 /\ sent.body.errors = r.objects \ good
  BY <1>2, AnswerFields
<1>4. good \subseteq r.objects
      /\ \A o \in good : \A tag \in o.if_match : \E v \in Selected(o.key, o.version) : tag \in {ETag(v), AnyTag}
  BY <1>2
<1> HIDE DEF document, good, named, sent
<1>5. StoreTypes' /\ StoreKept
  <2>1. /\ DOMAIN store' = Keys
        /\ \A k \in Keys : store'[k] = Removed(store[k], named(k)) \/ store'[k] = store[k]
    BY <1>1
  <2>2. \A k \in Keys : Follows(store[k], store'[k])
    BY <2>1, FollowsRemoved, FollowsItself
  <2> QED
    BY <1>1, <2>1, <2>2, StoreStep
<1>6. \A o : Effect(o.key, Selected(o.key, o.version), {}).key = o.key
             /\ Effect(o.key, Selected(o.key, o.version), {}).before = Selected(o.key, o.version)
  BY DEF Effect
<1>7. \A e \in did : \E o \in good : e.key = o.key /\ e.before = Selected(o.key, o.version)
  BY <1>6
<1>8. \A o \in good : \E e \in did : e.key = o.key
  BY <1>6
<1> HIDE DEF did
<1>9. ASSUME NEW e \in did PROVE Guarded(r, e)
  <2>1. PICK o \in good : e.key = o.key /\ e.before = Selected(o.key, o.version)
    BY <1>7
  <2> QED
    BY <1>4, <2>1 DEF Guarded
<1>10. \A answer : Received(answer, sent) => Truth(r, answer, did, store')
  <2> TAKE answer
  <2> HAVE Received(answer, sent)
  <2>1. answer.status = 200 /\ answer.body.errors = r.objects \ good
    BY <1>3 DEF Received
  <2>2. answer.body.errors = {} => \A o \in r.objects : \E e \in did : e.key = o.key
    BY <1>8, <2>1
  <2> QED
    BY <2>1, <2>2 DEF Truth
<1>11. Done(c, did)
  BY <1>1 DEF Done
<1>12. Served(c, n, r, sent, did)
  BY <1>1, <1>3, <1>5, <1>9, <1>10, <1>11 DEF Served
<1> QED
  BY <1>12

LEMMA ServeCopyServed ==
    ASSUME StoreTypes, DOMAIN effects = Callers, NEW c \in Callers, NEW n, NEW r, RequestAssumption(r),
           r.op = "copy", NEW h \in Headers(r), ServeCopy(c, n, r, h)
    PROVE  \E sent, did : Served(c, n, r, sent, did)
<1> DEFINE source == SourceOf(h[Name("x-amz-copy-source")])
           object == IF source.bucket = Bucket /\ source.key \in Keys THEN Selected(source.key, source.version) ELSE {}
           id == [x \in {Name("x-amz-request-id")} |-> <<"id">>]
           good == Matches(h, "x-amz-copy-source-", object) /\ Changed(h, "x-amz-copy-source-", object)
           free == Matches(h, "", Latest(r.key)) /\ Changed(h, "", Latest(r.key))
           metadata == IF Name("x-amz-metadata-directive") \in DOMAIN h THEN Metadata(h) ELSE Some(object).metadata
           version == Version(Some(object).data, "FULL_OBJECT", metadata)
           failed == Answer(200, id, "Error", <<>>)
           sent == Answer(200, id, "Result", <<>>)
           e == Effect(r.key, object, {version})
<1>1. IF object = {} THEN Refuse(c, n, 404)
      ELSE IF ~good THEN Refuse(c, n, 412)
      ELSE IF ~free THEN Refuse(c, n, 412)
      ELSE \/ Deliver(c, n, failed) /\ UNCHANGED <<store, clock, effects>>
           \/ Write(c, n, r.key, version, object, sent)
  BY Zenon DEF ServeCopy
<1>2. ASSUME NEW status \in {304, 404, 412, 416}, Refuse(c, n, status)
      PROVE  \E s, did : Served(c, n, r, s, did)
  BY <1>2, RefuseServed
<1>3. /\ DOMAIN sent = {"status", "headers", "root", "body"} /\ sent.status = 200
      /\ DOMAIN failed = {"status", "headers", "root", "body"} /\ failed.status = 200 /\ failed.root = "Error"
  BY AnswerFields
<1>4. source = r.source /\ Stated(h, "x-amz-copy-source-", r.conditions)
  BY CopyHeaders
<1>5. object # {} => /\ r.source.key \in Keys
                     /\ Some(object) \in Selected(r.source.key, r.source.version)
  BY <1>4 DEF Some
<1>6. ASSUME object # {}
      PROVE  /\ \E s \in DOMAIN store[r.source.key] :
                   Some(object) = store[r.source.key][s] /\ (r.source.version # {} => s \in r.source.version)
             /\ IsVersion(version) /\ version.modified = clock /\ version.data = Some(object).data
  <2>1. IsList(Some(object).data)
    BY <1>5, <1>6, SelectedTypes DEF IsVersion
  <2> HIDE DEF object, metadata
  <2>2. IsVersion(version) /\ version.modified = clock /\ version.data = Some(object).data
    BY <2>1, VersionOf
  <2> HIDE DEF version
  <2> QED
    BY <1>5, <1>6, <2>2, SelectedVersion
<1> HIDE DEF source, object, version, sent, failed
<1>7. ASSUME Deliver(c, n, failed), UNCHANGED <<store, clock, effects>>
      PROVE  \E s, did : Served(c, n, r, s, did)
  <2>1. StoreTypes' /\ StoreKept
    BY <1>7, RestingStore
  <2>2. Done(c, {})
    BY <1>7 DEF Done
  <2>3. \A answer : Received(answer, failed) => Truth(r, answer, {}, store')
    BY <1>3 DEF Received, Truth
  <2>4. Served(c, n, r, failed, {})
    BY <1>3, <1>7, <2>1, <2>2, <2>3 DEF Served
  <2> QED
    BY <2>4
<1>8. ASSUME object # {}, good, Write(c, n, r.key, version, object, sent)
      PROVE  \E s, did : Served(c, n, r, s, did)
  <2>1. /\ store' = [store EXCEPT ![r.key] = Append(@, version)] /\ clock' = clock + 1
        /\ effects' = [effects EXCEPT ![c] = @ \cup {e}]
        /\ Deliver(c, n, sent)
    BY <1>8 DEF Write
  <2>2. StoreTypes' /\ StoreKept
    BY <1>6, <1>8, <2>1, WriteStore DEF RequestAssumption
  <2>3. e.key = r.key /\ e.before = object /\ e.after = {version}
    BY DEF Effect
  <2> HIDE DEF e
  <2>4. Guarded(r, e)
    <3>1. Holds(r.conditions, object)
      BY <1>4, <1>8, StatedHolds
    <3> QED
      BY <2>3, <3>1 DEF Guarded
  <2>5. Stored(r, {e}, store')
    <3>1. PICK s \in DOMAIN store[r.source.key] :
             version.data = store[r.source.key][s].data /\ (r.source.version # {} => s \in r.source.version)
      BY <1>6, <1>8
    <3>2. s \in DOMAIN store'[r.source.key] /\ store'[r.source.key][s].data = store[r.source.key][s].data
      BY <1>5, <1>8, <2>2 DEF StoreKept
    <3>3. version \in e.after /\ e.key = r.key /\ e \in {e}
      BY <2>3
    <3>4. \E t \in DOMAIN store'[r.source.key] :
             version.data = store'[r.source.key][t].data /\ (r.source.version # {} => t \in r.source.version)
      BY <3>1, <3>2
    <3>5. r.op # "put" /\ r.source.key \in Keys
      BY <1>5, <1>8
    <3> QED
      BY <3>3, <3>4, <3>5, Zenon DEF Stored
  <2>6. \A answer : Received(answer, sent) => Truth(r, answer, {e}, store')
    BY <1>3, <2>5 DEF Received, Truth
  <2>7. Done(c, {e})
    BY <2>1 DEF Done
  <2>8. \A x \in {e} : Guarded(r, x)
    BY <2>4
  <2>9. Served(c, n, r, sent, {e})
    BY <1>3, <2>1, <2>2, <2>6, <2>7, <2>8 DEF Served
  <2> QED
    BY <2>9
<1> HIDE DEF good, free
<1> QED
  BY <1>1, <1>2, <1>7, <1>8

LEMMA ServeServed ==
    ASSUME StoreTypes, DOMAIN effects = Callers, NEW c \in Callers, NEW n, NEW r, RequestAssumption(r),
           request[c] = {r}, Headers(r) # {}, Serve(c, n)
    PROVE  \E sent, did : Served(c, n, r, sent, did)
<1> DEFINE h == Some(Headers(r))
<1>1. h \in Headers(r)
  BY DEF Some
<1>2. Some(request[c]) = r
  BY SomeOne
<1> HIDE DEF h
<1>3. (CASE r.op = "put" -> ServePut(c, n, r, h)
         [] r.op \in {"get", "head"} -> ServeRead(c, n, r, h)
         [] r.op = "delete" -> ServeDelete(c, n, r, h)
         [] r.op = "delete_objects" -> ServeDeleteObjects(c, n, r, h)
         [] r.op = "copy" -> ServeCopy(c, n, r, h))
  BY <1>2 DEF Serve, h
<1>4. r.op \in {"put", "get", "head", "delete", "delete_objects", "copy"}
  BY DEF RequestAssumption
<1>5. CASE r.op = "put"
  BY <1>1, <1>3, <1>5, ServePutServed
<1>6. CASE r.op \in {"get", "head"}
  BY <1>1, <1>3, <1>6, ServeReadServed
<1>7. CASE r.op = "delete"
  BY <1>1, <1>3, <1>7, ServeDeleteServed
<1>8. CASE r.op = "delete_objects"
  BY <1>1, <1>3, <1>8, ServeDeleteObjectsServed
<1>9. CASE r.op = "copy"
  BY <1>1, <1>3, <1>9, ServeCopyServed
<1> QED
  BY <1>4, <1>5, <1>6, <1>7, <1>8, <1>9

-------------------------------------------------------------------------------
(* What is true stays true while the bucket and the history grow. *)
LEMMA StoredStays ==
    ASSUME StoreKept, NEW r, NEW did, NEW done, did \subseteq done, Stored(r, did, store)
    PROVE  Stored(r, done, store')
<1>1. PICK e \in did : \E v \in e.after :
        /\ e.key = r.key
        /\ r.op = "put" => /\ v.data = r.data
                          /\ \A i \in DOMAIN r.metadata : <<r.metadata[i][1][1], r.metadata[i][2]>> \in v.metadata
        /\ r.op = "copy" =>
              /\ r.source.key \in Keys
              /\ \E s \in DOMAIN store[r.source.key] :
                    v.data = store[r.source.key][s].data /\ (r.source.version # {} => s \in r.source.version)
  BY Zenon DEF Stored
<1>2. PICK v \in e.after :
        /\ e.key = r.key
        /\ r.op = "put" => /\ v.data = r.data
                          /\ \A i \in DOMAIN r.metadata : <<r.metadata[i][1][1], r.metadata[i][2]>> \in v.metadata
        /\ r.op = "copy" =>
              /\ r.source.key \in Keys
              /\ \E s \in DOMAIN store[r.source.key] :
                    v.data = store[r.source.key][s].data /\ (r.source.version # {} => s \in r.source.version)
  BY <1>1
<1>3. r.op = "copy" =>
        /\ r.source.key \in Keys
        /\ \E s \in DOMAIN store'[r.source.key] :
              v.data = store'[r.source.key][s].data /\ (r.source.version # {} => s \in r.source.version)
  BY <1>2 DEF StoreKept
<1>4. e \in done
  OBVIOUS
<1> QED
  BY <1>2, <1>3, <1>4, Zenon DEF Stored

LEMMA TruthStays ==
    ASSUME StoreKept, NEW r, NEW answer, NEW did, Truth(r, answer, did, store)
    PROVE  Truth(r, answer, did, store')
<1>1. Stored(r, did, store) => Stored(r, did, store')
  BY StoredStays
<1> QED
  BY <1>1 DEF Truth

LEMMA ResultStays ==
    ASSUME StoreKept, NEW r, NEW out, NEW done, NEW more, done \subseteq more, ResultTrue(r, out, done, store)
    PROVE  ResultTrue(r, out, more, store')
<1>1. Stored(r, done, store) => Stored(r, more, store')
  BY StoredStays
<1>2. (\A o \in r.objects : \E e \in done : e.key = o.key) => \A o \in r.objects : \E e \in more : e.key = o.key
  OBVIOUS
<1>3. done # {} => more # {}
  OBVIOUS
<1> QED
  BY <1>1, <1>2, <1>3 DEF ResultTrue

LEMMA RequestOf ==
    ASSUME OperationsAssumption, CallerTypes, NEW c \in Callers, attempts[c] > 0
    PROVE  \E r \in Requests : request[c] = {r} /\ Headers(r) # {} /\ RequestAssumption(r) /\ Some(request[c]) = r
<1>1. PICK r \in Requests : request[c] = {r} /\ Headers(r) # {}
  BY DEF CallerTypes
<1>2. RequestAssumption(r)
  BY DEF OperationsAssumption
<1> QED
  BY <1>1, <1>2, SomeOne

(* A caller that a step leaves alone. *)
Resting(d) ==
    /\ request'[d] = request[d] /\ attempts'[d] = attempts[d] /\ reply'[d] = reply[d]
    /\ result'[d] = result[d] /\ effects'[d] = effects[d]
    /\ <<d, 1>> \in flying' => <<d, 1>> \in flying

LEMMA RestingReply ==
    ASSUME StoreKept, NEW d \in Callers, ReplyTrue(d), Resting(d)
    PROVE  ReplyTrue(d)'
<1>1. ASSUME NEW answer \in reply'[d], NEW r \in request'[d]
      PROVE  \E did \in SUBSET effects'[d] :
                Truth(r, answer, did, store') /\ (attempts'[d] = 1 => effects'[d] = did)
  <2>1. PICK did \in SUBSET effects[d] : Truth(r, answer, did, store) /\ (attempts[d] = 1 => effects[d] = did)
    BY <1>1 DEF ReplyTrue, Resting
  <2>2. Truth(r, answer, did, store')
    BY <2>1, TruthStays
  <2> QED
    BY <2>1, <2>2 DEF Resting
<1>2. Waiting(d)' /\ attempts'[d] = 1 =>
          IF reply'[d] = {} THEN effects'[d] = {} ELSE <<d, 1>> \notin flying'
  BY DEF ReplyTrue, Resting, Waiting
<1> QED
  BY <1>1, <1>2 DEF ReplyTrue

LEMMA RestingRefusal ==
    ASSUME NEW d \in Callers, RefusalQuiet(d), Resting(d)
    PROVE  RefusalQuiet(d)'
BY DEF RefusalQuiet, Resting

LEMMA StoreUntouched == ASSUME UNCHANGED store PROVE StoreKept
BY DEF StoreKept

(* The invariant says of conditions what the property does. *)
LEMMA GuardedEffects == ConditionsGuardEffects <=>
    \A c \in Callers : \A r \in request[c] : \A e \in effects[c] : Guarded(r, e)
BY DEF ConditionsGuardEffects, Guarded

-------------------------------------------------------------------------------
(* The invariant is inductive. *)
LEMMA InitIInv == ASSUME OperationsAssumption, Init PROVE IInv
<1>1. StoreTypes
  BY DEF Init, OperationsAssumption, StoreAssumption, StoreTypes, IsVersion
<1>2. CallerTypes
  BY DEF Init, OperationsAssumption, CallerTypes
<1>3. AttemptsBelong /\ RepliesAreTrue /\ ResultsAreTrue /\ RefusalsAreQuiet /\ ConditionsGuardEffects
  BY DEF Init, AttemptsBelong, RepliesAreTrue, ReplyTrue, ResultsAreTrue, RefusalsAreQuiet,
         RefusalQuiet, ConditionsGuardEffects, Waiting
<1> QED
  BY <1>1, <1>2, <1>3 DEF IInv

LEMMA RestingTruths ==
    ASSUME IInv, UNCHANGED <<store, clock, request, effects>>
    PROVE  StoreTypes' /\ ConditionsGuardEffects'
<1>1. StoreTypes'
  BY DEF IInv, StoreTypes
<1>2. ConditionsGuardEffects'
  BY GuardedEffects DEF IInv, ConditionsGuardEffects, Holds
<1> QED
  BY <1>1, <1>2

LEMMA CallIInv ==
    ASSUME OperationsAssumption, IInv, NEW c \in Callers, NEW r \in Requests, Call(c, r)
    PROVE  IInv'
<1>0. /\ StoreTypes /\ CallerTypes /\ AttemptsBelong /\ RepliesAreTrue /\ ResultsAreTrue
      /\ RefusalsAreQuiet /\ ConditionsGuardEffects
  BY DEF IInv
<1>1. /\ request[c] = {} /\ request' = [request EXCEPT ![c] = {r}]
      /\ UNCHANGED <<store, clock, reply, effects>>
  BY DEF Call
<1>2. attempts[c] = 0 /\ effects[c] = {} /\ result[c] = {} /\ reply[c] = {}
  BY <1>0, <1>1 DEF CallerTypes, Waiting
<1>3. /\ DOMAIN request' = Callers
      /\ \A d \in Callers : request'[d] = IF d = c THEN {r} ELSE request[d]
      /\ request' \in [Callers -> {{}} \cup {{q} : q \in Requests}]
  BY <1>0, <1>1 DEF CallerTypes
<1>4. ~\E n : <<c, n>> \in flying
  <2> SUFFICES ASSUME NEW n, <<c, n>> \in flying PROVE FALSE
    OBVIOUS
  <2> DEFINE f == <<c, n>>
  <2>1. f[1] = c /\ f \in flying
    OBVIOUS
  <2> HIDE DEF f
  <2>2. f[2] \in 1..0
    BY <1>0, <1>2, <2>1 DEF AttemptsBelong
  <2> QED
    BY <2>2
<1>5. StoreTypes'
  BY <1>0, <1>1 DEF StoreTypes
<1>6. ConditionsGuardEffects'
  BY <1>0, <1>1, <1>2, <1>3 DEF ConditionsGuardEffects, Holds
<1>7. CASE Headers(r) = {}
  <2>1. result' = [result EXCEPT ![c] = {[kind |-> "Configuration"]}] /\ UNCHANGED <<attempts, flying>>
    BY <1>7 DEF Call
  <2>2. \A d \in Callers : result'[d] = IF d = c THEN {[kind |-> "Configuration"]} ELSE result[d]
    BY <1>0, <2>1 DEF CallerTypes
  <2>3. CallerTypes'
    BY <1>0, <1>1, <1>2, <1>3, <2>1, <2>2 DEF CallerTypes, Waiting
  <2>4. AttemptsBelong'
    BY <1>0, <2>1 DEF AttemptsBelong
  <2>5. RepliesAreTrue'
    <3>1. ReplyTrue(c)'
      BY <1>1, <1>2, <2>1 DEF ReplyTrue, Waiting
    <3>2. \A d \in Callers \ {c} : Resting(d)
      BY <1>1, <1>3, <2>1, <2>2 DEF Resting
    <3> QED
      BY <1>0, <1>1, <3>1, <3>2, RestingReply, StoreUntouched DEF RepliesAreTrue
  <2>6. ResultsAreTrue'
    BY <1>0, <1>1, <1>3, <2>2 DEF ResultsAreTrue, ResultTrue
  <2>7. RefusalsAreQuiet'
    <3>1. RefusalQuiet(c)'
      <4>1. \A out \in result'[c] : attempts'[c] = 0
        BY <1>2, <2>1
      <4> QED
        BY <4>1 DEF RefusalQuiet
    <3>2. \A d \in Callers \ {c} : Resting(d)
      BY <1>1, <1>3, <2>1, <2>2 DEF Resting
    <3> QED
      BY <1>0, <3>1, <3>2, RestingRefusal DEF RefusalsAreQuiet
  <2> QED
    BY <1>5, <1>6, <2>3, <2>4, <2>5, <2>6, <2>7 DEF IInv
<1>8. CASE Headers(r) # {}
  <2>1. attempts' = [attempts EXCEPT ![c] = 1] /\ flying' = flying \cup {<<c, 1>>} /\ UNCHANGED result
    BY <1>8 DEF Call
  <2>2. \A d \in Callers : attempts'[d] = IF d = c THEN 1 ELSE attempts[d]
    BY <1>0, <2>1 DEF CallerTypes
  <2>3. CallerTypes'
    <3>1. attempts' \in [Callers -> 0..MaxAttempts]
      BY <1>0, <2>1 DEF CallerTypes, OperationsAssumption
    <3> QED
      BY <1>0, <1>1, <1>2, <1>3, <1>8, <2>1, <2>2, <3>1 DEF CallerTypes, Waiting
  <2>4. AttemptsBelong'
    BY <1>0, <1>2, <2>1, <2>2 DEF AttemptsBelong, CallerTypes
  <2>5. RepliesAreTrue'
    <3>1. ReplyTrue(c)'
      BY <1>1, <1>2 DEF ReplyTrue, Waiting
    <3>2. \A d \in Callers \ {c} : Resting(d)
      BY <1>1, <1>3, <2>1, <2>2 DEF Resting
    <3> QED
      BY <1>0, <1>1, <3>1, <3>2, RestingReply, StoreUntouched DEF RepliesAreTrue
  <2>6. ResultsAreTrue'
    BY <1>0, <1>1, <1>2, <1>3, <2>1 DEF ResultsAreTrue
  <2>7. RefusalsAreQuiet'
    <3>1. RefusalQuiet(c)'
      BY <1>2, <2>1 DEF RefusalQuiet
    <3>2. \A d \in Callers \ {c} : Resting(d)
      BY <1>1, <1>3, <2>1, <2>2 DEF Resting
    <3> QED
      BY <1>0, <3>1, <3>2, RestingRefusal DEF RefusalsAreQuiet
  <2> QED
    BY <1>5, <1>6, <2>3, <2>4, <2>5, <2>6, <2>7 DEF IInv
<1> QED
  BY <1>7, <1>8

(* A step that only answers its caller. *)
LEMMA ReturnIInv ==
    ASSUME IInv, NEW c \in Callers, NEW value, Waiting(c), Return(c, value),
           reply' = [reply EXCEPT ![c] = {}], UNCHANGED <<store, clock, request, effects>>,
           \A r \in request[c] : ResultTrue(r, value, effects[c], store),
           value.kind # "Configuration",
           value.kind \in {"Precondition", "NotFound"} /\ attempts[c] = 1 => effects[c] = {} /\ <<c, 1>> \notin flying
    PROVE  IInv'
<1>0. /\ StoreTypes /\ CallerTypes /\ AttemptsBelong /\ RepliesAreTrue /\ ResultsAreTrue /\ RefusalsAreQuiet
  BY DEF IInv
<1>1. result' = [result EXCEPT ![c] = {value}] /\ UNCHANGED <<attempts, flying>>
  BY DEF Return
<1>2. StoreTypes' /\ ConditionsGuardEffects'
  BY RestingTruths
<1>3. /\ \A d \in Callers : result'[d] = IF d = c THEN {value} ELSE result[d]
      /\ \A d \in Callers : reply'[d] = IF d = c THEN {} ELSE reply[d]
      /\ DOMAIN result' = Callers /\ DOMAIN reply' = Callers
  BY <1>0, <1>1 DEF CallerTypes
<1>4. request[c] # {}
  BY <1>0 DEF CallerTypes, Waiting
<1>5. CallerTypes'
  BY <1>0, <1>1, <1>3, <1>4 DEF CallerTypes, Waiting
<1>6. AttemptsBelong'
  BY <1>0, <1>1 DEF AttemptsBelong
<1>7. \A d \in Callers \ {c} : Resting(d)
  BY <1>1, <1>3 DEF Resting
<1>8. RepliesAreTrue'
  <2>1. ReplyTrue(c)'
    BY <1>3 DEF ReplyTrue, Waiting
  <2> QED
    BY <1>0, <1>7, <2>1, RestingReply, StoreUntouched DEF RepliesAreTrue
<1>9. ResultsAreTrue'
  BY <1>0, <1>3 DEF ResultsAreTrue
<1>10. RefusalsAreQuiet'
  <2>1. RefusalQuiet(c)'
    BY <1>1, <1>3 DEF RefusalQuiet
  <2> QED
    BY <1>0, <1>7, <2>1, RestingRefusal DEF RefusalsAreQuiet
<1> QED
  BY <1>2, <1>5, <1>6, <1>8, <1>9, <1>10 DEF IInv

LEMMA RetryIInv ==
    ASSUME OperationsAssumption, IInv, NEW c \in Callers, NEW category \in {"Transport", "Server"},
           Waiting(c), Retry(c, category),
           reply' = [reply EXCEPT ![c] = {}], UNCHANGED <<store, clock, request, effects>>
    PROVE  IInv'
<1>0. /\ StoreTypes /\ CallerTypes /\ AttemptsBelong /\ RepliesAreTrue /\ ResultsAreTrue /\ RefusalsAreQuiet
  BY DEF IInv
<1>1. CASE attempts[c] < MaxAttempts /\ Some(request[c]).replayable
  <2>1. /\ attempts' = [attempts EXCEPT ![c] = @ + 1]
        /\ flying' = flying \cup {<<c, attempts[c] + 1>>}
        /\ UNCHANGED result
    BY <1>1 DEF Retry
  <2>2. StoreTypes' /\ ConditionsGuardEffects'
    BY RestingTruths
  <2>3. attempts[c] \in Nat /\ attempts[c] > 0 /\ result[c] = {} /\ MaxAttempts \in Nat
    BY <1>0 DEF CallerTypes, Waiting, OperationsAssumption
  <2>4. /\ \A d \in Callers : attempts'[d] = IF d = c THEN attempts[d] + 1 ELSE attempts[d]
        /\ \A d \in Callers : reply'[d] = IF d = c THEN {} ELSE reply[d]
        /\ DOMAIN reply' = Callers
    BY <1>0, <2>1 DEF CallerTypes
  <2>5. CallerTypes'
    <3>1. attempts' \in [Callers -> 0..MaxAttempts]
      BY <1>0, <1>1, <2>1, <2>3 DEF CallerTypes
    <3>2. \E r \in Requests : request[c] = {r} /\ Headers(r) # {}
      BY <1>0, <2>3 DEF CallerTypes
    <3> QED
      BY <1>0, <2>1, <2>3, <2>4, <3>1, <3>2 DEF CallerTypes, Waiting
  <2>6. AttemptsBelong'
    <3> SUFFICES ASSUME NEW f \in flying'
                 PROVE  f = <<f[1], f[2]>> /\ f[1] \in Callers /\ f[2] \in 1..attempts'[f[1]]
      BY DEF AttemptsBelong
    <3>1. CASE f \in flying
      <4>1. f = <<f[1], f[2]>> /\ f[1] \in Callers /\ f[2] \in 1..attempts[f[1]]
        BY <1>0, <3>1 DEF AttemptsBelong
      <4>2. attempts[f[1]] \in Nat /\ attempts'[f[1]] \in {attempts[f[1]], attempts[f[1]] + 1}
        BY <1>0, <2>4, <4>1 DEF CallerTypes
      <4>3. f[2] \in 1..attempts'[f[1]]
        BY <4>1, <4>2
      <4> QED
        BY <4>1, <4>3
    <3>2. CASE f = <<c, attempts[c] + 1>>
      <4>1. f[1] = c /\ f[2] = attempts[c] + 1
        BY <3>2
      <4> QED
        BY <2>3, <2>4, <3>2, <4>1
    <3> QED
      BY <2>1, <3>1, <3>2
  <2>7. \A d \in Callers \ {c} : Resting(d)
    BY <2>1, <2>4 DEF Resting
  <2>8. RepliesAreTrue'
    <3>1. ReplyTrue(c)'
      BY <2>3, <2>4 DEF ReplyTrue
    <3> QED
      BY <1>0, <2>7, <3>1, RestingReply, StoreUntouched DEF RepliesAreTrue
  <2>9. ResultsAreTrue'
    BY <1>0, <2>1 DEF ResultsAreTrue
  <2>10. RefusalsAreQuiet'
    <3>1. RefusalQuiet(c)'
      BY <2>1, <2>3 DEF RefusalQuiet
    <3> QED
      BY <1>0, <2>7, <3>1, RestingRefusal DEF RefusalsAreQuiet
  <2> QED
    BY <2>2, <2>5, <2>6, <2>8, <2>9, <2>10 DEF IInv
<1>2. CASE ~(attempts[c] < MaxAttempts /\ Some(request[c]).replayable)
  <2> DEFINE value == [kind |-> category]
  <2>1. Return(c, value)
    BY <1>2 DEF Retry
  <2>2. value.kind \in {"Transport", "Server"}
    OBVIOUS
  <2> HIDE DEF value
  <2>3. \A r : ResultTrue(r, value, effects[c], store)
    BY <2>2 DEF ResultTrue
  <2> QED
    BY <2>1, <2>2, <2>3, ReturnIInv
<1> QED
  BY <1>1, <1>2

LEMMA LoseIInv ==
    ASSUME OperationsAssumption, IInv, NEW c \in Callers, Lose(c)
    PROVE  IInv'
BY RetryIInv DEF Lose

LEMMA BodyFailsIInv ==
    ASSUME OperationsAssumption, IInv, NEW c \in Callers, BodyFails(c)
    PROVE  IInv'
<1>1. CASE Some(request[c]).op = "copy"
  BY <1>1, RetryIInv DEF BodyFails
<1>2. CASE Some(request[c]).op # "copy"
  <2> DEFINE value == [kind |-> "Transport"]
  <2>1. Return(c, value)
    BY <1>2 DEF BodyFails
  <2>2. value.kind = "Transport"
    OBVIOUS
  <2> HIDE DEF value
  <2>3. \A r : ResultTrue(r, value, effects[c], store)
    BY <2>2 DEF ResultTrue
  <2>4. /\ Waiting(c) /\ reply' = [reply EXCEPT ![c] = {}]
        /\ UNCHANGED <<store, clock, request, effects>>
    BY DEF BodyFails
  <2> HIDE DEF Waiting, Return, ResultTrue, IInv
  <2> QED
    BY <2>1, <2>2, <2>3, <2>4, ReturnIInv
<1> QED
  BY <1>1, <1>2

LEMMA OutputOf ==
    ASSUME NEW r, NEW answer
    PROVE  /\ r.op = "get" => Output(r, answer) = GetOutput(answer.headers, answer.body)
           /\ r.op = "delete_objects" => Output(r, answer) \subseteq {parse_delete_objects(answer.body)}
<1> DEFINE get == GetOutput(answer.headers, answer.body)
           head == parse_object_metadata(answer.headers)
           put == IF Readable(answer.headers, WriteNames) THEN {<<>>} ELSE {}
           delete == IF /\ Readable(answer.headers, {Name("x-amz-version-id")} \cup RequestIdNames)
                        /\ parse_bool_header(answer.headers, Name("x-amz-delete-marker"))
                     THEN {<<>>} ELSE {}
           batch == IF Readable(answer.headers, RequestIdNames)
                    THEN {parse_delete_objects(answer.body)} ELSE {}
<1>1. Output(r, answer) = CASE r.op = "get" -> get [] r.op = "head" -> head [] r.op = "put" -> put
                            [] r.op = "delete" -> delete [] r.op = "delete_objects" -> batch
                            [] r.op = "copy" -> put
  BY Zenon DEF Output
<1>2. batch \subseteq {parse_delete_objects(answer.body)}
  OBVIOUS
<1> HIDE DEF get, head, put, delete, batch
<1>3. r.op = "get" => Output(r, answer) = get
  BY <1>1
<1>4. r.op = "delete_objects" => Output(r, answer) = batch
  BY <1>1
<1> QED
  BY <1>2, <1>3, <1>4 DEF get

LEMMA ReceiveIInv ==
    ASSUME OperationsAssumption, IInv, NEW c \in Callers, Receive(c)
    PROVE  IInv'
<1>0. Waiting(c) /\ CallerTypes /\ RepliesAreTrue
  BY DEF IInv, Receive
<1>1. PICK r \in Requests : request[c] = {r} /\ RequestAssumption(r) /\ Some(request[c]) = r
  BY <1>0, RequestOf DEF Waiting
<1>2. PICK answer \in reply[c] : reply[c] = {answer} /\ Some(reply[c]) = answer
  <2>1. PICK answer \in reply[c] : TRUE
    BY DEF Receive
  <2>2. reply[c] = {answer}
    BY <1>0, <2>1 DEF CallerTypes
  <2> QED
    BY <2>2, SomeOne
<1>3. PICK did \in SUBSET effects[c] : Truth(r, answer, did, store) /\ (attempts[c] = 1 => effects[c] = did)
  BY <1>0, <1>1, <1>2 DEF RepliesAreTrue, ReplyTrue
<1>4. attempts[c] = 1 => <<c, 1>> \notin flying
  BY <1>0, <1>2 DEF RepliesAreTrue, ReplyTrue
<1>5. reply' = [reply EXCEPT ![c] = {}] /\ UNCHANGED <<store, clock, request, effects>>
  BY DEF Receive
<1> DEFINE refusal == [kind |-> classify_service_error(answer.status)]
           value == Some(Output(r, answer))
           success == Ok(value)
<1>6. IF answer.status # 200 THEN Return(c, refusal)
      ELSE IF copy_embedded_error(r, answer) THEN Retry(c, "Server")
      ELSE IF Output(r, answer) = {} THEN Return(c, invalid_response)
      ELSE Return(c, success)
  BY <1>1, <1>2, Zenon DEF Receive
<1>7. refusal.kind = classify_service_error(answer.status)
  OBVIOUS
<1>8. success.kind = "Ok" /\ success.value = value
  BY DEF Ok
<1>9. invalid_response.kind = "InvalidResponse"
  BY DEF invalid_response
<1> HIDE DEF refusal, success
<1>10. ASSUME answer.status # 200 PROVE IInv'
  <2>1. Return(c, refusal)
    BY <1>6, <1>10
  <2>2. /\ refusal.kind \in {"NotFound", "Precondition", "InvalidResponse"}
        /\ answer.status = 412 => refusal.kind = "Precondition"
    BY <1>7 DEF classify_service_error
  <2>3. did = {} /\ (r.op \in {"put", "delete"} => answer.status = 412)
    BY <1>3, <1>10 DEF Truth
  <2>4. ResultTrue(r, refusal, effects[c], store)
    BY <2>2, <2>3 DEF ResultTrue
  <2>5. \A q \in request[c] : ResultTrue(q, refusal, effects[c], store)
    BY <1>1, <2>4, Zenon
  <2>6. refusal.kind # "Configuration"
    BY <2>2
  <2>7. attempts[c] = 1 => effects[c] = {} /\ <<c, 1>> \notin flying
    BY <1>3, <1>4, <2>3, Zenon
  <2> QED
    BY <1>0, <1>5, <2>1, <2>5, <2>6, <2>7, ReturnIInv, Zenon
<1>11. ASSUME answer.status = 200, copy_embedded_error(r, answer) PROVE IInv'
  <2>1. Retry(c, "Server")
    BY <1>6, <1>11
  <2> QED
    BY <1>0, <1>5, <2>1, RetryIInv
<1>12. ASSUME answer.status = 200, ~copy_embedded_error(r, answer), Output(r, answer) = {} PROVE IInv'
  <2>1. Return(c, invalid_response)
    BY <1>6, <1>12
  <2>2. r.op \in {"put", "delete"} => effects[c] # {}
    BY <1>3, <1>12 DEF Truth
  <2>3. ResultTrue(r, invalid_response, effects[c], store)
    BY <1>9, <2>2 DEF ResultTrue
  <2> QED
    BY <1>0, <1>1, <1>5, <1>9, <2>1, <2>3, ReturnIInv
<1>13. ASSUME answer.status = 200, ~copy_embedded_error(r, answer), Output(r, answer) # {} PROVE IInv'
  <2>1. Return(c, success)
    BY <1>6, <1>13
  <2>2. value \in Output(r, answer)
    BY <1>13 DEF Some
  <2> HIDE DEF value
  <2>3. r.op = "copy" => answer.root # "Error"
    BY <1>13 DEF copy_embedded_error
  <2>4. r.op \in {"put", "copy"} => Stored(r, effects[c], store)
    <3>1. r.op \in {"put", "copy"} => Stored(r, did, store)
      BY <1>3, <1>13, <2>3 DEF Truth
    <3>2. Stored(r, did, store) => Stored(r, effects[c], store)
      BY Zenon DEF Stored
    <3> QED
      BY <3>1, <3>2
  <2>5. r.op = "get" => SoundDownload(r, value)
    BY <1>3, <1>13, <2>2, OutputOf DEF Truth
  <2>6. r.op = "delete_objects" /\ value.errors = {} => \A o \in r.objects : \E e \in effects[c] : e.key = o.key
    <3> HAVE r.op = "delete_objects" /\ value.errors = {}
    <3>1. value = parse_delete_objects(answer.body)
      BY <2>2, OutputOf
    <3>2. value.errors = answer.body.errors
      BY <3>1 DEF parse_delete_objects
    <3>3. \A o \in r.objects : \E e \in did : e.key = o.key
      BY <1>3, <1>13, <3>2 DEF Truth
    <3> QED
      BY <3>3
  <2>7. ResultTrue(r, success, effects[c], store)
    BY <1>8, <2>4, <2>5, <2>6 DEF ResultTrue
  <2> QED
    BY <1>0, <1>1, <1>5, <1>8, <2>1, <2>7, ReturnIInv
<1> QED
  BY <1>10, <1>11, <1>12, <1>13

LEMMA ServeIInv ==
    ASSUME OperationsAssumption, IInv, NEW c \in Callers, NEW n \in 1..MaxAttempts, Serve(c, n)
    PROVE  IInv'
<1>0. /\ StoreTypes /\ CallerTypes /\ AttemptsBelong /\ RepliesAreTrue /\ ResultsAreTrue /\ RefusalsAreQuiet
      /\ ConditionsGuardEffects
  BY DEF IInv
<1>1. <<c, n>> \in flying /\ flying' = flying \ {<<c, n>>} /\ UNCHANGED <<request, attempts, result>>
  BY DEF Serve
<1>2. n \in 1..attempts[c] /\ attempts[c] \in Nat /\ attempts[c] > 0
  <2> DEFINE f == <<c, n>>
  <2>1. f[1] = c /\ f[2] = n /\ f \in flying
    BY <1>1
  <2> HIDE DEF f
  <2>2. n \in 1..attempts[c]
    BY <1>0, <2>1 DEF AttemptsBelong
  <2>3. attempts[c] \in Nat
    BY <1>0 DEF CallerTypes
  <2> QED
    BY <2>2, <2>3
<1>3. PICK r \in Requests : request[c] = {r} /\ Headers(r) # {} /\ RequestAssumption(r)
  BY <1>0, <1>2, RequestOf
<1>4. PICK sent, did : Served(c, n, r, sent, did)
  BY <1>0, <1>3, ServeServed DEF CallerTypes
<1>5. /\ Deliver(c, n, sent) /\ DOMAIN sent = {"status", "headers", "root", "body"}
      /\ DOMAIN effects' = Callers
      /\ \A d \in Callers : effects'[d] = IF d = c THEN effects[d] \cup did ELSE effects[d]
      /\ StoreTypes' /\ StoreKept
      /\ \A e \in did : Guarded(r, e)
      /\ \A answer : Received(answer, sent) => Truth(r, answer, did, store')
  BY <1>4 DEF Served, Done
<1> DEFINE current == Waiting(c) /\ attempts[c] = n /\ reply[c] = {}
<1>6. IF current THEN \E answer : Received(answer, sent) /\ reply' = [reply EXCEPT ![c] = {answer}]
      ELSE reply' = reply
  BY <1>0, <1>5, DeliverReceived DEF CallerTypes
<1>7. attempts[c] = 1 => n = 1 /\ <<c, 1>> \in flying /\ <<c, 1>> \notin flying'
  BY <1>1, <1>2
<1>8. \A d \in Callers \ {c} : reply'[d] = reply[d]
  BY <1>0, <1>6 DEF CallerTypes
<1>9. \A d \in Callers \ {c} : Resting(d)
  BY <1>1, <1>5, <1>8 DEF Resting
<1>10. CallerTypes'
  <2>1. DOMAIN reply' = Callers
    BY <1>0, <1>6 DEF CallerTypes
  <2>2. \A d \in Callers : \A answer \in reply'[d] : reply'[d] = {answer} /\ Waiting(d)'
    <3>1. \A d \in Callers : Waiting(d)' <=> Waiting(d)
      BY <1>1 DEF Waiting
    <3>2. \A d \in Callers \ {c} : \A answer \in reply'[d] : reply'[d] = {answer} /\ Waiting(d)
      BY <1>0, <1>8 DEF CallerTypes
    <3>3. \A answer \in reply'[c] : reply'[c] = {answer} /\ Waiting(c)
      BY <1>0, <1>6 DEF CallerTypes
    <3> QED
      BY <3>1, <3>2, <3>3
  <2>3. \A d \in Callers : attempts'[d] = 0 => effects'[d] = {}
    BY <1>0, <1>1, <1>2, <1>5 DEF CallerTypes
  <2> QED
    BY <1>0, <1>1, <1>5, <2>1, <2>2, <2>3 DEF CallerTypes
<1>11. AttemptsBelong'
  BY <1>0, <1>1 DEF AttemptsBelong
<1>12. RepliesAreTrue'
  <2>1. ReplyTrue(c)'
    <3>1. CASE current
      <4>1. PICK answer : Received(answer, sent) /\ reply' = [reply EXCEPT ![c] = {answer}]
        BY <1>6, <3>1
      <4>2. reply'[c] = {answer} /\ Truth(r, answer, did, store') /\ request'[c] = {r}
        BY <1>0, <1>1, <1>3, <1>5, <4>1 DEF CallerTypes
      <4>3. attempts[c] = 1 => effects[c] = {}
        BY <1>0, <3>1 DEF RepliesAreTrue, ReplyTrue
      <4>4. did \in SUBSET effects'[c] /\ (attempts[c] = 1 => effects'[c] = did)
        BY <1>5, <4>3
      <4>5. \E some \in SUBSET effects'[c] :
               Truth(r, answer, some, store') /\ (attempts'[c] = 1 => effects'[c] = some)
        BY <1>1, <4>2, <4>4
      <4>6. \A a \in reply'[c] : \A q \in request'[c] : \E some \in SUBSET effects'[c] :
               Truth(q, a, some, store') /\ (attempts'[c] = 1 => effects'[c] = some)
        BY <4>2, <4>5
      <4>7. reply'[c] # {} /\ (attempts'[c] = 1 => <<c, 1>> \notin flying')
        BY <1>1, <1>7, <4>2
      <4> QED
        BY <4>6, <4>7 DEF ReplyTrue
    <3>2. CASE ~current
      <4>1. reply'[c] = reply[c] /\ request'[c] = request[c] /\ attempts'[c] = attempts[c]
        BY <1>1, <1>6, <3>2
      <4>2. Waiting(c) => attempts[c] # 1
        BY <1>0, <1>7, <3>2 DEF RepliesAreTrue, ReplyTrue
      <4>3. \A a \in reply[c] : Waiting(c)
        BY <1>0 DEF CallerTypes
      <4>4. ASSUME NEW a \in reply[c], NEW q \in request[c]
            PROVE  \E some \in SUBSET effects'[c] :
                      Truth(q, a, some, store') /\ (attempts[c] = 1 => effects'[c] = some)
        <5>1. PICK some \in SUBSET effects[c] : Truth(q, a, some, store)
          BY <1>0, <4>4 DEF RepliesAreTrue, ReplyTrue
        <5>2. Truth(q, a, some, store') /\ some \in SUBSET effects'[c]
          BY <1>5, <5>1, TruthStays
        <5> QED
          BY <4>2, <4>3, <5>2
      <4>5. Waiting(c)' => attempts'[c] # 1
        BY <1>1, <4>2 DEF Waiting
      <4> QED
        BY <4>1, <4>4, <4>5 DEF ReplyTrue
    <3> QED
      BY <3>1, <3>2
  <2> QED
    BY <1>0, <1>5, <1>9, <2>1, RestingReply DEF RepliesAreTrue
<1>13. ResultsAreTrue'
  <2> SUFFICES ASSUME NEW d \in Callers, NEW q \in request'[d], NEW out \in result'[d]
               PROVE  ResultTrue(q, out, effects'[d], store')
    BY DEF ResultsAreTrue
  <2>1. ResultTrue(q, out, effects[d], store)
    BY <1>0, <1>1 DEF ResultsAreTrue
  <2>2. effects[d] \subseteq effects'[d]
    BY <1>5
  <2> QED
    BY <1>5, <2>1, <2>2, ResultStays
<1>14. RefusalsAreQuiet'
  <2>1. RefusalQuiet(c)'
    BY <1>0, <1>1, <1>7 DEF RefusalsAreQuiet, RefusalQuiet
  <2> QED
    BY <1>0, <1>9, <2>1, RestingRefusal DEF RefusalsAreQuiet
<1>15. ConditionsGuardEffects'
  <2>1. \A d \in Callers : \A q \in request[d] : \A e \in effects[d] : Guarded(q, e)
    BY <1>0, GuardedEffects
  <2>2. \A d \in Callers : \A q \in request'[d] : \A e \in effects'[d] : Guarded(q, e)
    BY <1>1, <1>3, <1>5, <2>1
  <2> QED
    BY <2>2 DEF ConditionsGuardEffects, Guarded, Holds
<1> QED
  BY <1>5, <1>10, <1>11, <1>12, <1>13, <1>14, <1>15 DEF IInv

LEMMA NextIInv == ASSUME OperationsAssumption, IInv, [Next]_vars PROVE IInv'
<1>1. CASE UNCHANGED vars
  <2>1. StoreTypes' /\ ConditionsGuardEffects'
    BY <1>1, RestingTruths DEF vars
  <2>2. CallerTypes' /\ AttemptsBelong' /\ ResultsAreTrue'
    BY <1>1 DEF IInv, vars, CallerTypes, Waiting, AttemptsBelong, ResultsAreTrue
  <2>3. \A d \in Callers : Resting(d)
    BY <1>1 DEF vars, Resting
  <2>4. RepliesAreTrue' /\ RefusalsAreQuiet'
    BY <1>1, <2>3, RestingReply, RestingRefusal, StoreUntouched DEF IInv, vars, RepliesAreTrue, RefusalsAreQuiet
  <2> QED
    BY <2>1, <2>2, <2>4 DEF IInv
<1>2. CASE Next
  <2>1. PICK c \in Callers :
           \/ \E r \in Requests : Call(c, r)
           \/ Lose(c) \/ Receive(c) \/ BodyFails(c)
           \/ \E n \in 1..MaxAttempts : Serve(c, n)
    BY <1>2 DEF Next
  <2> QED
    BY <2>1, CallIInv, LoseIInv, ReceiveIInv, BodyFailsIInv, ServeIInv
<1> QED
  BY <1>1, <1>2

LEMMA IInvTypes == ASSUME OperationsAssumption, IInv PROVE TypeOK
<1>1. /\ StoreTypes /\ CallerTypes /\ AttemptsBelong
  BY DEF IInv
<1>2. \A k \in Keys : \A i \in DOMAIN store[k] :
         store[k][i].type \in {"FULL_OBJECT", "COMPOSITE"} /\ store[k][i].modified < clock
  BY <1>1 DEF StoreTypes, IsVersion
<1>3. flying \subseteq Callers \X (1..MaxAttempts)
  BY <1>1 DEF AttemptsBelong, CallerTypes, OperationsAssumption
<1>4. \A S : (\A x \in S : S = {x}) => Cardinality(S) <= 1
  <2> TAKE S
  <2> HAVE \A x \in S : S = {x}
  <2>1. Cardinality(S) = 0 \/ Cardinality(S) = 1
    BY FS_EmptySet, FS_Singleton
  <2> QED
    BY <2>1
<1>5. \A c \in Callers : Cardinality(reply[c]) <= 1 /\ Cardinality(result[c]) <= 1
  BY <1>1, <1>4 DEF CallerTypes
<1>6. ASSUME NEW c \in Callers, attempts[c] = 0
      PROVE  effects[c] = {} /\ ~\E n \in 1..MaxAttempts : <<c, n>> \in flying
  <2>1. ASSUME NEW n, <<c, n>> \in flying PROVE FALSE
    <3> DEFINE f == <<c, n>>
    <3>1. f[1] = c /\ f \in flying
      BY <2>1
    <3> HIDE DEF f
    <3>2. f[2] \in 1..0
      BY <1>1, <1>6, <3>1 DEF AttemptsBelong
    <3> QED
      BY <3>2
  <2> QED
    BY <1>1, <1>6, <2>1 DEF CallerTypes
<1> QED
  BY <1>1, <1>2, <1>3, <1>5, <1>6 DEF TypeOK, CallerTypes

LEMMA IInvTruthful == ASSUME IInv PROVE AnswersAreTruthful
<1>1. CallerTypes /\ ResultsAreTrue /\ RefusalsAreQuiet
  BY DEF IInv
<1>2. \A c \in Callers : \A r \in request[c] : \A out \in result[c] : ResultTrue(r, out, effects[c], store)
  BY <1>1 DEF ResultsAreTrue
<1>3. SuccessesAreStored
  <2> SUFFICES ASSUME NEW c \in Callers, NEW r \in request[c], NEW out \in result[c],
                      out.kind = "Ok", r.op \in {"put", "copy"}
               PROVE  \E e \in effects[c] : \E v \in e.after :
                /\ e.key = r.key
                /\ r.op = "put" => /\ v.data = r.data
                                  /\ \A i \in DOMAIN r.metadata : <<r.metadata[i][1][1], r.metadata[i][2]>> \in v.metadata
                /\ r.op = "copy" => \E s \in DOMAIN store[r.source.key] :
                                       v.data = store[r.source.key][s].data /\ (r.source.version # {} => s \in r.source.version)
    BY Zenon DEF SuccessesAreStored
  <2>1. Stored(r, effects[c], store)
    BY <1>2 DEF ResultTrue
  <2> QED
    BY <2>1, Zenon DEF Stored
<1>4. RefusalsHaveNoEffect
  BY <1>1 DEF RefusalsHaveNoEffect, RefusalsAreQuiet, RefusalQuiet, CallerTypes
<1>5. InvalidAnswersFollowEffects /\ CleanBatchesDeleteEverything
  BY <1>2 DEF InvalidAnswersFollowEffects, CleanBatchesDeleteEverything, ResultTrue
<1>6. SoundDownloadsAreAccepted /\ RangesAreTheOnesAsked
  BY <1>2 DEF SoundDownloadsAreAccepted, RangesAreTheOnesAsked, ResultTrue, SoundDownload, RangeBytes
<1> QED
  BY <1>3, <1>4, <1>5, <1>6 DEF AnswersAreTruthful

-------------------------------------------------------------------------------
(* Nothing is written, copied or deleted while a condition that its caller   *)
(* stated does not hold of the object it was stated of, in whatever order    *)
(* attempts and their repetitions reach the service (insert_conditions,      *)
(* put_object, copy_object, delete_object, delete_objects).                  *)
THEOREM ConditionsGuarded ==
    ASSUME OperationsAssumption
    PROVE  Spec => [](TypeOK /\ ConditionsGuardEffects)
<1>1. Init => IInv
  BY InitIInv
<1>2. IInv /\ [Next]_vars => IInv'
  BY NextIInv
<1>3. IInv => TypeOK /\ ConditionsGuardEffects
  BY IInvTypes DEF IInv
<1> QED
  BY <1>1, <1>2, <1>3, PTL DEF Spec

(* What an object operation returns is what happened: an Ok has stored what  *)
(* was asked for, a refusal has changed nothing, an answer that can not be   *)
(* read follows an effect, a batch without errors has deleted everything,    *)
(* and what a download is compared with are the bytes that were sent, which  *)
(* are the ones of the range that was asked for (client/object).             *)
THEOREM AnswersTruthful ==
    ASSUME OperationsAssumption
    PROVE  Spec => []AnswersAreTruthful
<1>1. Init => IInv
  BY InitIInv
<1>2. IInv /\ [Next]_vars => IInv'
  BY NextIInv
<1>3. IInv => AnswersAreTruthful
  BY IInvTruthful
<1> QED
  BY <1>1, <1>2, <1>3, PTL DEF Spec
===============================================================================
