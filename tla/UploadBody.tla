-------------------------------- MODULE UploadBody --------------------------------
(***************************************************************************)
(* The body of an upload (stream/upload.rs, stream/snapshot.rs): how bytes, *)
(* a file or a caller's stream become a body with a signed length and      *)
(* digest, and how TransportBody hands it to the transport in every        *)
(* attempt.                                                                *)
(*                                                                         *)
(* A digest stands for the bytes it was computed from.  The file may be    *)
(* changed at any time, also while it is copied; a caller's stream may     *)
(* yield other bytes than those whose length and digest the caller gave.   *)
(***************************************************************************)
EXTENDS Integers, Sequences

CONSTANTS
    Byte,         \* the values of a byte
    MaxLength,    \* bound: the length of a body
    MaxChunk,     \* bound: the length of a chunk
    MaxAttempts,  \* RetryPolicy::max_attempts
    MaxChanges    \* bound: changes of the file

(* What the constants have to be. *)
BodyAssumption ==
    /\ MaxLength \in Nat /\ MaxChanges \in Nat
    /\ MaxChunk \in Nat \ {0}
    /\ MaxAttempts \in Nat \ {0}

VARIABLES
    kind,         \* UploadSource: Bytes, File or Stream
    source,       \* the bytes, the file now, or what the stream yields
    changes,      \* how often the file was changed
    copied,       \* the snapshot
    signed,       \* PreparedBody::length and sha256
    pc,           \* preparing, between attempts, sending, over
    attempts,     \* attempts begun
    yielded,      \* what the stream of this attempt has yielded and was hashed
    remaining,    \* TransportBody::remaining
    held,         \* TransportBody::final_chunk; <<>> is None
    sent,         \* what poll_frame has returned in this attempt
    finished,     \* TransportBody::finished
    result,       \* what the caller got
    complete      \* history: the bodies of the full length that were sent

input == <<kind, source, changes>>
prepared == <<copied, signed>>
body == <<yielded, remaining, held, sent, finished>>
vars == <<input, prepared, pc, attempts, body, result, complete>>

Sources == UNION {[1..n -> Byte] : n \in 0..MaxLength}

(* Bound: a stream is at most one byte longer than a body may be. *)
StreamContents == UNION {[1..n -> Byte] : n \in 0..MaxLength + 1}

is_replayable == kind # "stream"

(* What the stream of an attempt reads: the snapshot, or the input itself. *)
Content == IF kind = "file" THEN copied ELSE source

Init ==
    /\ \/ kind \in {"bytes", "file"} /\ source \in Sources /\ signed = <<>>
       \/ kind = "stream" /\ source \in StreamContents /\ signed \in Sources
    /\ changes = 0
    /\ copied = <<>>
    /\ pc = "prepare" /\ attempts = 0
    /\ yielded = <<>> /\ remaining = 0 /\ held = <<>> /\ sent = <<>> /\ finished = FALSE
    /\ result = "none"
    /\ complete = {}

-------------------------------------------------------------------------------
(* External: someone writes the file, in place or another length. *)
ChangeFile(bytes) ==
    /\ kind = "file" /\ changes < MaxChanges
    /\ source' = bytes
    /\ changes' = changes + 1
    /\ UNCHANGED <<kind, prepared, pc, attempts, body, result, complete>>

(* FileSnapshot::create: one read, hashed and written. *)
CopyChunk(length) ==
    /\ pc = "prepare" /\ kind = "file"
    /\ Len(copied) + length <= Len(source)
    /\ copied' = copied \o SubSeq(source, Len(copied) + 1, Len(copied) + length)
    /\ UNCHANGED <<input, signed, pc, attempts, body, result, complete>>

(* Mutant of PrepareFile: the file is hashed again after it was copied. *)
PrepareFileTwice ==
    /\ pc = "prepare" /\ kind = "file" /\ Len(copied) >= Len(source)
    /\ signed' = source
    /\ pc' = "ready"
    /\ UNCHANGED <<input, copied, attempts, body, result, complete>>

(* The read at the end of the file: length and digest are those of the copy. *)
PrepareFile ==
    /\ pc = "prepare" /\ kind = "file" /\ Len(copied) >= Len(source)
    /\ signed' = copied
    /\ pc' = "ready"
    /\ UNCHANGED <<input, copied, attempts, body, result, complete>>

(* ByteStream::prepare for bytes, which are hashed, and for a stream, whose  *)
(* length and digest the caller gave.                                        *)
PrepareOther ==
    /\ pc = "prepare" /\ kind # "file"
    /\ signed' = IF kind = "bytes" THEN source ELSE signed
    /\ pc' = "ready"
    /\ UNCHANGED <<input, copied, attempts, body, result, complete>>

(* The file can not be read, the snapshot not written, or the deadline of    *)
(* the operation passes.                                                     *)
PrepareFails ==
    /\ pc = "prepare"
    /\ pc' = "done" /\ result' = "failed"
    /\ UNCHANGED <<input, prepared, attempts, body, complete>>

-------------------------------------------------------------------------------
(* PreparedBody::request_body for an attempt; a stream is taken once. *)
request_body ==
    /\ pc = "ready" /\ attempts < MaxAttempts
    /\ pc' = "sending" /\ attempts' = attempts + 1
    /\ yielded' = <<>> /\ remaining' = Len(signed) /\ held' = <<>>
    /\ sent' = <<>> /\ finished' = FALSE
    /\ UNCHANGED <<input, prepared, result, complete>>

(* poll_frame returns bytes; those of the full length are a complete body. *)
Emit(bytes) ==
    /\ sent' = sent \o bytes
    /\ complete' = IF Len(sent \o bytes) = Len(signed)
                   THEN complete \cup {sent \o bytes} ELSE complete

(* An integrity error of the body: never retried, the request fails. *)
Refuse ==
    /\ pc' = "done" /\ result' = "refused"
    /\ finished' = TRUE /\ remaining' = 0 /\ held' = <<>>
    /\ UNCHANGED <<sent, complete>>

(* Mutant of PollChunk: the last chunk is not held back. *)
PollChunkAtOnce(length) ==
    /\ pc = "sending" /\ ~finished /\ Len(yielded) + length <= Len(Content)
    /\ LET next == SubSeq(Content, Len(yielded) + 1, Len(yielded) + length)
       IN  IF length > remaining
           THEN Refuse /\ UNCHANGED yielded
           ELSE /\ yielded' = yielded \o next
                /\ Emit(next) /\ remaining' = remaining - length
                /\ UNCHANGED <<pc, result, held, finished>>
    /\ UNCHANGED <<input, prepared, attempts>>

(* Mutant of PollChunk: what is held back is no longer in the size hint. *)
PollChunkUncounted(length) ==
    /\ pc = "sending" /\ ~finished /\ Len(yielded) + length <= Len(Content)
    /\ LET next == SubSeq(Content, Len(yielded) + 1, Len(yielded) + length)
       IN  IF held # <<>> \/ length > remaining
           THEN Refuse /\ UNCHANGED yielded
           ELSE /\ yielded' = yielded \o next
                /\ remaining' = remaining - length
                /\ IF length = remaining
                   THEN held' = next /\ UNCHANGED <<sent, complete>>
                   ELSE Emit(next) /\ UNCHANGED held
                /\ UNCHANGED <<pc, result, finished>>
    /\ UNCHANGED <<input, prepared, attempts>>

(* poll_frame: the stream yields a chunk that is not empty; an empty one is  *)
(* skipped.  The chunk that completes the length is held back.               *)
PollChunk(length) ==
    /\ pc = "sending" /\ ~finished /\ Len(yielded) + length <= Len(Content)
    /\ LET next == SubSeq(Content, Len(yielded) + 1, Len(yielded) + length)
       IN  IF held # <<>> \/ length > remaining
           THEN Refuse /\ UNCHANGED yielded
           ELSE /\ yielded' = yielded \o next
                /\ IF length = remaining
                   THEN held' = next /\ UNCHANGED <<sent, complete, remaining>>
                   ELSE Emit(next) /\ remaining' = remaining - length /\ UNCHANGED held
                /\ UNCHANGED <<pc, result, finished>>
    /\ UNCHANGED <<input, prepared, attempts>>

(* poll_frame: the stream ends.  The last chunk is released if the digest of *)
(* all that was yielded is the signed one; a body that is too short holds    *)
(* none, and the empty body needs none.                                      *)
PollEnd ==
    /\ pc = "sending" /\ ~finished /\ yielded = Content
    /\ IF (held # <<>> \/ remaining = 0) /\ yielded = signed
       THEN /\ Emit(held) /\ held' = <<>>
            /\ remaining' = 0 /\ finished' = TRUE
            /\ UNCHANGED <<pc, result, yielded>>
       ELSE Refuse /\ UNCHANGED yielded
    /\ UNCHANGED <<input, prepared, attempts>>

(* A transport error, which the stream may have caused, a timeout or an      *)
(* error response: the body is dropped, and another one is made if it can be. *)
AttemptFails ==
    /\ pc = "sending"
    /\ IF is_replayable /\ attempts < MaxAttempts
       THEN pc' = "ready" /\ UNCHANGED result
       ELSE pc' = "done" /\ result' = "failed"
    /\ UNCHANGED <<input, prepared, attempts, body, complete>>

(* The service has all bytes and reports success. *)
Succeed ==
    /\ pc = "sending" /\ Len(sent) = Len(signed)
    /\ pc' = "done" /\ result' = "ok"
    /\ UNCHANGED <<input, prepared, attempts, body, complete>>

-------------------------------------------------------------------------------
Next ==
    \/ \E bytes \in Sources : ChangeFile(bytes)
    \/ \E length \in 1..MaxChunk : CopyChunk(length) \/ PollChunk(length)
    \/ PrepareFile \/ PrepareOther \/ PrepareFails
    \/ request_body \/ PollEnd \/ AttemptFails \/ Succeed

Spec == Init /\ [][Next]_vars
-------------------------------------------------------------------------------
(* Every variable has its type. *)
TypeOK ==
    /\ kind \in {"bytes", "file", "stream"}
    /\ source \in Seq(Byte) /\ copied \in Seq(Byte) /\ signed \in Seq(Byte)
    /\ changes \in 0..MaxChanges
    /\ pc \in {"prepare", "ready", "sending", "done"}
    /\ attempts \in 0..MaxAttempts
    /\ yielded \in Seq(Byte) /\ held \in Seq(Byte) /\ sent \in Seq(Byte)
    /\ remaining \in 0..Len(signed) /\ finished \in BOOLEAN
    /\ result \in {"none", "ok", "failed", "refused"}
    /\ complete \subseteq Seq(Byte)

(* A body of the full length that went out in any attempt is the signed one: *)
(* "changes to the original path cannot alter the signed upload bytes", and  *)
(* a stream that does not match its digest is cut before its last chunk, so  *)
(* that the service can not have accepted it.                                *)
CompleteBodiesAreSigned == \A bytes \in complete : bytes = signed

(* The size hint, from which the transport takes Content-Length, is exact    *)
(* all the time, with a chunk held back or not.                              *)
SizeHintIsExact ==
    pc = "sending" => Len(sent) + remaining = Len(signed)

(* A body the client made itself passes its own checks in every attempt,     *)
(* however often and whenever the file is changed: only a caller's stream is  *)
(* refused.                                                                  *)
OnlyStreamsAreRefused == result = "refused" => kind = "stream"

(* What TransportBody and PreparedBody promise to the request that carries   *)
(* the body.                                                                 *)
BodiesAreSigned == CompleteBodiesAreSigned /\ SizeHintIsExact /\ OnlyStreamsAreRefused
===============================================================================
