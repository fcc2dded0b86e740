--------------------------------- MODULE Parts ---------------------------------
(***************************************************************************)
(* What goes out to the service: the multipart calls that callers make      *)
(* themselves, the parts a managed upload cuts out of its source, the       *)
(* bodies of requests, and their checksums.  A behaviour is one of the      *)
(* scenes; the components of the others rest.                               *)
(***************************************************************************)
EXTENDS MultipartSession

CONSTANTS
    Byte,                                                          \* PartSource and UploadBody
    MaxLength, ReadSize, PartSizes, Concurrencies, MaxPartNumber, MaxEdits,  \* PartSource
    MaxBody, MaxChunk, MaxChanges,                                 \* UploadBody
    Bodies, ChunkSize, Tails                                       \* Checksums

VARIABLES
    scene,                                                         \* which component moves
    file, edits, snapshot, pc, part_size, concurrency,             \* PartSource
    part_count, next_part, part, data, failure,
    kind, source, changes, copied, signed, at, tries, yielded,     \* UploadBody
    remaining, held, sent, finished, result, complete,
    job, consumed, value, checksum, verdict                        \* Checksums

cut == <<file, edits, snapshot, pc, part_size, concurrency, part_count, next_part, part, data, failure>>
body == <<kind, source, changes, copied, signed, at, tries, yielded,
          remaining, held, sent, finished, result, complete>>
digest == <<job, consumed, value, checksum, verdict>>
all == <<scene, vars, cut, body, digest>>

PO == INSTANCE PartSource

UB == INSTANCE UploadBody WITH pc <- at, attempts <- tries, MaxLength <- MaxBody

CK == INSTANCE Checksums WITH call <- job

ASSUME PartsAssumption ==
    MultipartAssumption /\ PO!PartSourceAssumption /\ UB!BodyAssumption
    /\ CK!ChecksumAssumption

-------------------------------------------------------------------------------
PartsRest ==
    /\ file = 0 /\ edits = 0 /\ snapshot = 0 /\ pc = 0 /\ part_size = 0 /\ concurrency = 0
    /\ part_count = 0 /\ next_part = 0 /\ part = 0 /\ data = 0 /\ failure = 0
BodyRests ==
    /\ kind = 0 /\ source = 0 /\ changes = 0 /\ copied = 0 /\ signed = 0 /\ at = 0 /\ tries = 0
    /\ yielded = 0 /\ remaining = 0 /\ held = 0 /\ sent = 0 /\ finished = 0 /\ result = 0 /\ complete = 0
DigestRests == job = 0 /\ consumed = 0 /\ value = 0 /\ checksum = 0 /\ verdict = 0

ScenesInit ==
    /\ Init
    /\ \/ scene = "session" /\ PartsRest /\ BodyRests /\ DigestRests
       \/ scene = "parts" /\ PO!Init /\ BodyRests /\ DigestRests
       \/ scene = "body" /\ PartsRest /\ UB!Init /\ DigestRests
       \/ scene = "checksum" /\ PartsRest /\ BodyRests /\ CK!Init

ScenesNext ==
    /\ UNCHANGED scene
    /\ \/ scene = "session" /\ Next /\ UNCHANGED <<cut, body, digest>>
       \/ scene = "parts" /\ PO!Next /\ UNCHANGED <<vars, body, digest>>
       \/ scene = "body" /\ UB!Next /\ UNCHANGED <<vars, cut, digest>>
       \/ scene = "checksum" /\ CK!Next /\ UNCHANGED <<vars, cut, body>>

Scenes == ScenesInit /\ [][ScenesNext]_all

-------------------------------------------------------------------------------
(* No part lies beyond its source, though another process edits the file while *)
(* it is copied and afterwards (read_part).                                   *)
ReadsNeverFail == scene = "parts" => PO!TypeOK /\ PO!ReadsNeverFail

(* The parts of a completed upload are the snapshot, cut without a gap and    *)
(* without an overlap (part_count, read_part).                                *)
ObjectIsTheSnapshot == scene = "parts" => PO!ObjectIsTheSnapshot

(* What the parts in flight hold in memory stays within                       *)
(* maximum_buffered_bytes, in whatever order they finish.                     *)
BufferedBytesAreBounded == scene = "parts" => PO!BufferedBytesAreBounded

(* A body of the full length that went out in any attempt is the signed one,  *)
(* however the file changes or the stream misbehaves; the size hint is exact  *)
(* all the time; and nothing but a caller's stream is refused                 *)
(* (TransportBody::poll_frame, FileSnapshot::create, PreparedBody).           *)
BodiesAreSigned ==
    scene = "body" => UB!TypeOK /\ UB!BodiesAreSigned

(* A calculated checksum is the remainder that the standards define, at once  *)
(* or in chunks, and passes the client's own validation; a supplied one is    *)
(* accepted exactly when it is the text of a digest (Checksum::calculate,     *)
(* calculate_cooperatively, valid_base64_digest).                             *)
ChecksumsAreSound ==
    scene = "checksum" =>
        /\ CK!TypeOK
        /\ CK!ChecksumsAreRemainders
        /\ CK!CalculatedChecksumsAreAccepted /\ CK!AcceptedChecksumsAreCanonical
===============================================================================
