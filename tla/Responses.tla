------------------------------- MODULE Responses -------------------------------
(***************************************************************************)
(* What comes back from the service: the object operations of concurrent    *)
(* callers, a download to a path, and one attempt from its transport to its *)
(* verdict with the timers of the same client.  A behaviour is one of the   *)
(* scenes; the components of the others rest.                               *)
(***************************************************************************)
EXTENDS ObjectOperations

CONSTANTS
    IdleTimeout, OperationTimeout, Horizon,                    \* Download and ResponseHandling
    Size, MaxChunk, Unknown,                                   \* Download
    Statuses, Codes, Maximum, AttemptTimeout, MaxDelivered     \* ResponseHandling

VARIABLES
    scene,                                                     \* which component moves
    now,                                                       \* Download and ResponseHandling
    pc, declared, verified, received, genuine, idleAt, chunk,  \* Download
    background, failedWrite, temp, file, durable, dest, returned,
    mode, https, at, response, frame, delivered, output,       \* ResponseHandling
    idle_deadline, last_byte, verdict

download == <<pc, declared, verified, received, genuine, idleAt, chunk,
              background, failedWrite, temp, file, durable, dest, returned>>
attempt == <<mode, https, at, response, frame, delivered, output, idle_deadline, last_byte, verdict>>
all == <<scene, vars, now, download, attempt>>

DL == INSTANCE Download WITH result <- returned

RH == INSTANCE ResponseHandling WITH pc <- at, result <- verdict

ASSUME ResponsesAssumption ==
    OperationsAssumption /\ DL!DownloadAssumption /\ RH!ResponseAssumption

-------------------------------------------------------------------------------
ObjectsRest == store = CHOOSE s \in Stores : TRUE
DownloadRests ==
    /\ pc = "rest" /\ declared = 0 /\ verified = 0 /\ received = 0 /\ genuine = 0 /\ idleAt = 0 /\ chunk = 0
    /\ background = 0 /\ failedWrite = 0 /\ temp = 0 /\ file = 0 /\ durable = 0 /\ dest = 0 /\ returned = 0
AttemptRests ==
    /\ mode = 0 /\ https = 0 /\ at = 0 /\ response = 0 /\ frame = 0
    /\ delivered = 0 /\ output = 0 /\ idle_deadline = 0 /\ last_byte = 0 /\ verdict = 0

ScenesInit ==
    /\ Init
    /\ \/ scene = "objects" /\ now = 0 /\ DownloadRests /\ AttemptRests
       \/ scene = "download" /\ ObjectsRest /\ DL!Init /\ AttemptRests
       \/ scene = "attempt" /\ ObjectsRest /\ DownloadRests /\ RH!Init

ScenesNext ==
    /\ UNCHANGED scene
    /\ \/ scene = "objects" /\ Next /\ UNCHANGED <<now, download, attempt>>
       \/ scene = "download" /\ DL!Next /\ UNCHANGED <<vars, attempt>>
       \/ scene = "attempt" /\ RH!Next /\ UNCHANGED <<vars, download>>

(* In each scene the fairness of its component: the executor polls the task   *)
(* that is ready, and the clock goes on.  Object operations owe none.         *)
FairScenes ==
    /\ ScenesInit /\ [][ScenesNext]_all
    /\ WF_all(scene = "download" /\ DL!Task /\ UNCHANGED <<scene, vars, attempt>>)
    /\ WF_all(scene = "download" /\ DL!Threads /\ UNCHANGED <<scene, vars, attempt>>)
    /\ WF_all(scene = "download" /\ DL!Tick /\ UNCHANGED <<scene, vars, attempt>>)
    /\ WF_all(scene = "attempt" /\ RH!Reader /\ UNCHANGED <<scene, vars, download>>)
    /\ WF_all(scene = "attempt" /\ RH!Tick /\ UNCHANGED <<scene, vars, download>>)

-------------------------------------------------------------------------------
(* The destination of a download holds its old file or the whole object that  *)
(* was declared and verified, at every moment and also after a crash          *)
(* (download_to_path).                                                        *)
DestinationIsOldOrVerified == scene = "download" => DL!TypeOK /\ DL!DestinationIsOldOrVerified

(* A download that failed or was dropped leaves the destination as it was and *)
(* no temporary file (download_to_path, NamedTempFile).                       *)
FailureLeavesNoTrace == scene = "download" => DL!FailureLeavesNoTrace

(* A download that returned Ok is in place and synced (download_to_path).     *)
SuccessIsPublished == scene = "download" => DL!SuccessIsPublished

(* A download that nobody drops ends, whatever the service does: each wait    *)
(* has a timer (download_to_path, ResponseStream::poll_next).                 *)
DownloadsEnd == scene = "download" => DL!DownloadEnds

(* An attempt ends in a verdict, also when the peer sends empty frames for    *)
(* ever (collect_incoming).                                                   *)
AttemptsEnd == <>(scene = "attempt" => at = "done")

(* A verdict names its cause: success is a whole body within the limit that   *)
(* is no embedded error, an oversized one had a byte too many, a timeout      *)
(* names the timer that ran out, an error embedded in a 200 counts as it      *)
(* would under its own status (collect_response, classify_service_error).     *)
VerdictsAreTruthful ==
    scene = "attempt" => RH!TypeOK /\ RH!VerdictsAreTruthful

(* The failure of an upload body, which comes out of hyper as a request       *)
(* error, keeps its own category and is not retried as a transport failure    *)
(* (classify_client_error).                                                   *)
BodyFailuresKeepTheirVerdict == [][scene = "attempt" => RH!BodyFailureKept]_<<now, attempt>>
===============================================================================
