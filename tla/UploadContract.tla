---------------------------- MODULE UploadContract ----------------------------
(***************************************************************************)
(* What S3Client::multipart_upload promises about the upload whose ID it   *)
(* holds.  The detailed scheduler is ManagedMultipart.                     *)
(*                                                                         *)
(*   - success is reported only for an upload the service has completed,   *)
(*     and nothing ever happens to that upload afterwards;                 *)
(*   - a failure without a cleanup_failure is final: the upload was never  *)
(*     opened or is aborted, so the object can not appear later;           *)
(*   - a failure with a cleanup_failure promises nothing: requests that    *)
(*     are still on their way may complete or abort the upload.            *)
(***************************************************************************)
VARIABLES
    upload,   \* the service's state of the upload the caller asked for
    outcome   \* what multipart_upload has returned so far

vars == <<upload, outcome>>

Init == upload = "none" /\ outcome = "pending"

(* The service opens the upload and the client learns its ID. *)
Open ==
    /\ upload = "none" /\ outcome = "pending"
    /\ upload' = "open"
    /\ UNCHANGED outcome

(* The service completes or aborts an open upload, while the client is      *)
(* working or after it has given up without a confirmed cleanup.            *)
Settle(final) ==
    /\ upload = "open" /\ outcome \in {"pending", "failed_cleanup"}
    /\ upload' = final
    /\ UNCHANGED outcome

(* multipart_upload returns. *)
Report(result) ==
    /\ outcome = "pending"
    /\ result = "ok" => upload = "completed"
    /\ result = "failed" => upload \in {"none", "aborted"}
    /\ outcome' = result
    /\ UNCHANGED upload

Next ==
    \/ Open
    \/ \E final \in {"completed", "aborted"} : Settle(final)
    \/ \E result \in {"ok", "failed", "failed_cleanup"} : Report(result)

Spec == Init /\ [][Next]_vars
===============================================================================
