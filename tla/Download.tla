-------------------------------- MODULE Download --------------------------------
(***************************************************************************)
(* S3Client::download_to_path (client/download.rs): the response stream    *)
(* with its length, digest and timers (stream/download.rs), the write_to   *)
(* loop that copies it into a temporary file whose writes run in the       *)
(* background, and the rename that publishes the file.                     *)
(*                                                                         *)
(* The service may send any bytes in any chunks, or nothing.  The future   *)
(* may be dropped at every await, and the machine may crash: what was not  *)
(* synced is then lost in part, and so may be a rename.                    *)
(***************************************************************************)
EXTENDS Integers

CONSTANTS
    Size,              \* the length of the object
    MaxChunk,          \* bound: the length of a chunk
    Unknown,           \* expected_length of a response without Content-Length
    IdleTimeout,       \* idle_body_timeout
    OperationTimeout,  \* operation_timeout
    Horizon            \* bound: the clock stops here

(* What the constants have to be. *)
DownloadAssumption ==
    /\ Size \in Nat
    /\ MaxChunk \in Nat \ {0}
    /\ Unknown \notin Nat
    /\ IdleTimeout \in Nat \ {0}
    /\ OperationTimeout \in Nat \ {0}
    /\ Horizon \in Nat /\ Horizon >= OperationTimeout

VARIABLES
    now,          \* the clock, 0 when get_object is called
    pc,           \* where download_to_path stands
    declared,     \* expected_length
    verified,     \* there is an expected_sha256
    received,     \* bytes the stream has yielded
    genuine,      \* history: they are the first bytes of the object
    idleAt,       \* when the idle timer fires
    chunk,        \* length of the chunk that write_all is given
    background,   \* bytes of the write that runs in the background
    failedWrite,  \* such a write failed and no call has reported it
    temp,         \* the directory entry of the temporary file
    file,         \* bytes in the file
    durable,      \* bytes of it that a crash can not lose
    dest,         \* the destination: its previous file or the new one
    result        \* what the caller got

control == <<now, pc, result>>
stream == <<declared, verified, received, genuine, idleAt>>
disk == <<background, failedWrite, temp, file, durable, dest>>
vars == <<control, stream, chunk, disk>>

(* Bound: a body is at most one byte too long. *)
Lengths == 0..Size + 1

Init ==
    /\ now = 0 /\ pc = "create" /\ result = "none"
    /\ declared = Unknown /\ verified = FALSE
    /\ received = 0 /\ genuine = TRUE /\ idleAt = 0
    /\ chunk = 0
    /\ background = 0 /\ failedWrite = FALSE
    /\ temp = "none" /\ file = 0 /\ durable = 0
    /\ dest = "old"

-------------------------------------------------------------------------------
(* The future returns or is dropped; NamedTempFile removes its file. *)
Leave(how) ==
    /\ pc' = "done"
    /\ result' = how
    /\ temp' = IF temp = "present" THEN "removed" ELSE temp
    /\ UNCHANGED <<background, failedWrite, file, durable, dest>>

Fail == Leave("failed") /\ UNCHANGED <<now, stream, chunk>>

(* The blocking task has made the temporary file. *)
CreateTemp ==
    /\ pc = "create"
    /\ pc' = "get" /\ temp' = "present"
    /\ UNCHANGED <<now, result, stream, chunk, background, failedWrite, file, durable, dest>>

CreateTempFails == pc = "create" /\ Fail

(* get_object returns its stream, with the timers of with_deadline.  The     *)
(* digest of the object is expected unless only a range of it was returned.  *)
GetObject(length, sha256) ==
    /\ pc = "get"
    /\ pc' = "stream"
    /\ declared' = length /\ verified' = sha256
    /\ idleAt' = now + IdleTimeout
    /\ UNCHANGED <<now, result, received, genuine, chunk, disk>>

(* Cloning the file handle, the request or the parsing of its headers fails. *)
GetObjectFails == pc = "get" /\ Fail

-------------------------------------------------------------------------------
(* Neither timer of the stream has fired when it is polled. *)
InTime == now < OperationTimeout /\ now < idleAt

(* Mutant of PollTimeout: the timers are armed by the first chunk. *)
PollTimeoutArmedLate == pc = "stream" /\ ~InTime /\ received > 0 /\ Fail

(* poll_next: a timer fires before the body is asked. *)
PollTimeout == pc = "stream" /\ ~InTime /\ Fail

TooLong(length) == declared # Unknown /\ length > declared

(* poll_next: a chunk that is not empty.  An empty one changes nothing. *)
PollChunk(length, intact) ==
    /\ pc = "stream" /\ InTime
    /\ received + length \in Lengths
    /\ received' = received + length
    /\ idleAt' = now + IdleTimeout
    /\ IF TooLong(received + length)
       THEN Leave("failed") /\ UNCHANGED <<genuine, chunk>>
       ELSE /\ genuine' = (genuine /\ intact)
            /\ pc' = "write" /\ chunk' = length
            /\ UNCHANGED <<result, disk>>
    /\ UNCHANGED <<now, declared, verified>>

(* poll_next: the transport reports an error. *)
PollError == pc = "stream" /\ InTime /\ Fail

(* The checks at the end of the body: the length first, then the digest,     *)
(* which only the bytes of the whole object have.                            *)
Complete ==
    /\ declared # Unknown => received = declared
    /\ verified => genuine /\ received = Size

(* poll_next: the body ends, early or not. *)
PollEnd ==
    /\ pc = "stream" /\ InTime
    /\ IF Complete
       THEN pc' = "flush" /\ UNCHANGED <<now, result, stream, chunk, disk>>
       ELSE Fail

-------------------------------------------------------------------------------
(* External: tokio's File hands a write to a blocking thread and returns;    *)
(* the next call on the file waits for it and reports its error.             *)
BackgroundOk ==
    /\ background > 0
    /\ file' = file + background
    /\ background' = 0
    /\ UNCHANGED <<control, stream, chunk, failedWrite, temp, durable, dest>>

BackgroundFails ==
    /\ background > 0
    /\ failedWrite' = TRUE
    /\ background' = 0
    /\ UNCHANGED <<control, stream, chunk, temp, file, durable, dest>>

(* write_to: write_all of one chunk, then the next poll. *)
WriteChunk ==
    /\ pc = "write" /\ background = 0
    /\ IF failedWrite
       THEN Fail
       ELSE /\ background' = chunk /\ chunk' = 0
            /\ pc' = "stream"
            /\ UNCHANGED <<now, result, stream, failedWrite, temp, file, durable, dest>>

(* Mutant of Flush: it does not wait for the last write. *)
FlushSkipped ==
    /\ pc = "flush"
    /\ pc' = "sync" /\ UNCHANGED <<now, result, stream, chunk, disk>>

(* write_to: flush. *)
Flush ==
    /\ pc = "flush" /\ background = 0
    /\ IF failedWrite
       THEN Fail
       ELSE pc' = "sync" /\ UNCHANGED <<now, result, stream, chunk, disk>>

(* Mutant of SyncAll: the data is not forced to the disk. *)
SyncSkipped ==
    /\ pc = "sync" /\ background = 0
    /\ pc' = "persist"
    /\ UNCHANGED <<now, result, stream, chunk, disk>>

(* file.sync_all *)
SyncAll ==
    /\ pc = "sync" /\ background = 0
    /\ durable' = file
    /\ pc' = "persist"
    /\ UNCHANGED <<now, result, stream, chunk, background, failedWrite, temp, file, dest>>

SyncAllFails == pc = "sync" /\ background = 0 /\ Fail

(* persist_download: the rename and the return are one step of the future. *)
Persist ==
    /\ pc = "persist"
    /\ dest' = "new" /\ temp' = "renamed"
    /\ pc' = "done" /\ result' = "ok"
    /\ UNCHANGED <<now, stream, chunk, background, failedWrite, file, durable>>

PersistFails == pc = "persist" /\ Fail

-------------------------------------------------------------------------------
(* Mutant of DropDownload: the temporary file is kept. *)
DropDownloadOnly ==
    /\ pc \in {"create", "get", "stream", "write", "flush", "sync"}
    /\ pc' = "done" /\ result' = "dropped"
    /\ UNCHANGED <<now, stream, chunk, disk>>

(* The caller drops the future at one of its awaits; none lies between the   *)
(* sync and the rename.  A file that is being made is left to its thread.    *)
DropDownload ==
    /\ pc \in {"create", "get", "stream", "write", "flush", "sync"}
    /\ pc' = "done" /\ result' = "dropped"
    /\ temp' = IF pc = "create" THEN "detached" ELSE "removed"
    /\ UNCHANGED <<now, stream, chunk, background, failedWrite, file, durable, dest>>

(* The thread finds that nobody awaits the file and drops it. *)
RemoveDetached ==
    /\ temp = "detached"
    /\ temp' = "removed"
    /\ UNCHANGED <<control, stream, chunk, background, failedWrite, file, durable, dest>>

(* External: the machine stops.  Data that was not synced survives in part;  *)
(* the directory was not synced, so that a rename may be undone.             *)
Crash ==
    /\ pc # "crashed"
    /\ pc' = "crashed"
    /\ file' \in {n \in 0..file : n >= durable}
    /\ dest' \in {"old", dest}
    /\ background' = 0
    /\ UNCHANGED <<now, result, stream, chunk, failedWrite, temp, durable>>

(* No timer runs while the temporary file is made. *)
Tick ==
    /\ pc # "create" /\ now < Horizon
    /\ now' = now + 1
    /\ UNCHANGED <<pc, result, stream, chunk, disk>>

-------------------------------------------------------------------------------
Task ==
    \/ CreateTemp \/ CreateTempFails
    \/ \E length \in Lengths \cup {Unknown}, sha256 \in BOOLEAN : GetObject(length, sha256)
    \/ GetObjectFails
    \/ PollTimeout
    \/ WriteChunk \/ Flush \/ SyncAll \/ SyncAllFails \/ Persist \/ PersistFails

Body ==
    \/ \E length \in 1..MaxChunk, intact \in BOOLEAN : PollChunk(length, intact)
    \/ PollError \/ PollEnd

Threads == BackgroundOk \/ BackgroundFails \/ RemoveDetached

Next == Task \/ Body \/ Threads \/ DropDownload \/ Crash \/ Tick

Spec == Init /\ [][Next]_vars

(* The runtime polls the task, blocking threads run and the clock advances;  *)
(* the service owes nothing.                                                 *)
FairSpec == Spec /\ WF_vars(Task) /\ WF_vars(Threads) /\ WF_vars(Tick)
-------------------------------------------------------------------------------
(* Every variable has its type. *)
TypeOK ==
    /\ now \in 0..Horizon
    /\ pc \in {"create", "get", "stream", "write", "flush", "sync", "persist", "done", "crashed"}
    /\ declared \in Lengths \cup {Unknown} /\ verified \in BOOLEAN
    /\ received \in Lengths /\ genuine \in BOOLEAN
    /\ idleAt \in Nat /\ chunk \in Lengths
    /\ background \in Lengths /\ failedWrite \in BOOLEAN
    /\ temp \in {"none", "present", "detached", "removed", "renamed"}
    /\ file \in Lengths /\ durable \in 0..file
    /\ dest \in {"old", "new"}
    /\ result \in {"none", "ok", "failed", "dropped"}

(* "atomically persists it at destination only after the response body is    *)
(* fully verified": what the destination holds is the previous file, or all  *)
(* the bytes that were received, as many as were declared and with the       *)
(* digest that was returned; also when writes fail or the machine crashes.   *)
DestinationIsOldOrVerified ==
    dest = "new" => /\ file = received
                    /\ declared # Unknown => file = declared
                    /\ verified => genuine /\ file = Size

(* "Failed, cancelled, truncated, or checksum-invalid downloads leave the    *)
(* previous destination untouched and remove the temporary file on drop."    *)
FailureLeavesNoTrace ==
    result \in {"failed", "dropped"} =>
        dest = "old" /\ temp \in {"none", "detached", "removed"}

(* A caller that was told of success finds the new file, unless the machine  *)
(* crashed.                                                                  *)
SuccessIsPublished == result = "ok" /\ pc # "crashed" => dest = "new" /\ durable = received

(* A download ends, with nothing left to remove, even if the service never   *)
(* sends a byte or stops in the middle.                                      *)
DownloadEnds == <>(pc = "crashed" \/ (pc = "done" /\ temp # "detached"))
===============================================================================
