------------------------------ MODULE PartSource ------------------------------
(***************************************************************************)
(* The bytes of a managed upload: PreparedMultipartSource                    *)
(* (client/multipart_upload.rs), FileSnapshot (stream/snapshot.rs) and the   *)
(* bounds of MultipartOptions (operation/multipart/managed.rs).  A file is   *)
(* copied while another process may still edit it, then cut into parts that  *)
(* concurrent futures read in any order.                                     *)
(***************************************************************************)
EXTENDS Integers, Sequences, FiniteSets

CONSTANTS
    Byte,          \* the bytes
    MaxLength,     \* bound: length of a file
    ReadSize,      \* the buffer of FileSnapshot::create
    PartSizes,     \* part_size of the validated MultipartOptions
    Concurrencies, \* concurrency of the validated MultipartOptions
    MaxPartNumber, \* PartNumber::MAX
    MaxEdits       \* bound: edits of the file by another process

(* What the constants have to be. *)
PartSourceAssumption ==
    /\ MaxLength \in Nat /\ ReadSize \in Nat \ {0} /\ MaxEdits \in Nat
    /\ PartSizes \subseteq Nat \ {0} /\ Concurrencies \subseteq Nat \ {0}
    /\ MaxPartNumber \in Nat \ {0}

VARIABLES
    file,         \* the file at the caller's path
    edits,        \* how often it was edited
    snapshot,     \* the private copy, or the caller's byte buffer
    pc,           \* copy, count, parts, done, failed
    part_size, concurrency,
    part_count,
    next_part,
    part,         \* idle, begun, read (held in memory), stored
    data,         \* the bytes of each part
    failure

vars == <<file, edits, snapshot, pc, part_size, concurrency, part_count, next_part, part, data, failure>>

PartNumbers == 1..MaxPartNumber

(* MultipartUploadSource::Bytes is a snapshot already; a File is copied. *)
Init ==
    /\ file \in UNION {[1..n -> Byte] : n \in 0..MaxLength} /\ edits = 0
    /\ \/ pc = "copy" /\ snapshot = <<>>
       \/ pc = "count" /\ snapshot = file
    /\ part_size \in PartSizes /\ concurrency \in Concurrencies
    /\ part_count = 0 /\ next_part = 1
    /\ part = [p \in PartNumbers |-> "idle"] /\ data = [p \in PartNumbers |-> <<>>]
    /\ failure = "none"

Fail(kind) ==
    /\ pc' = "failed" /\ failure' = kind
    /\ UNCHANGED <<file, edits, snapshot, part_size, concurrency, part_count, next_part, part, data>>

(* Another process writes to the path: a byte changes, the file grows, or it *)
(* is truncated.                                                             *)
Edit ==
    /\ edits < MaxEdits /\ edits' = edits + 1
    /\ \/ \E i \in DOMAIN file, b \in Byte : file' = [file EXCEPT ![i] = b]
       \/ Len(file) < MaxLength /\ \E b \in Byte : file' = Append(file, b)
       \/ file # <<>> /\ file' = SubSeq(file, 1, Len(file) - 1)
    /\ UNCHANGED <<snapshot, pc, part_size, concurrency, part_count, next_part, part, data, failure>>

(* FileSnapshot::create: one turn of the loop.  A read returns what the file  *)
(* has behind the bytes already read, and nothing at its end.                *)
CopyChunk ==
    /\ pc = "copy"
    /\ \E n \in 1..ReadSize :
          /\ Len(snapshot) + n <= Len(file)
          /\ snapshot' = snapshot \o SubSeq(file, Len(snapshot) + 1, Len(snapshot) + n)
    /\ UNCHANGED <<file, edits, pc, part_size, concurrency, part_count, next_part, part, data, failure>>

(* The read at the end of the file, and the length check on the copy. *)
CopyEnds ==
    /\ pc = "copy" /\ Len(file) <= Len(snapshot)
    /\ pc' = "count"
    /\ UNCHANGED <<file, edits, snapshot, part_size, concurrency, part_count, next_part, part, data, failure>>

-------------------------------------------------------------------------------
(* Mutant of div_ceil: the short last part is forgotten. *)
div_floor(length, size) == length \div size

(* u64::div_ceil *)
div_ceil(length, size) == (length + size - 1) \div size

TooManyParts(count) == count > MaxPartNumber

(* PreparedMultipartSource::part_count, before the upload is created. *)
CountParts ==
    /\ pc = "count"
    /\ LET count == div_ceil(Len(snapshot), part_size)
       IN  IF Len(snapshot) = 0 \/ TooManyParts(count) THEN Fail("configuration")
           ELSE /\ part_count' = count /\ pc' = "parts"
                /\ UNCHANGED <<file, edits, snapshot, part_size, concurrency, next_part, part, data, failure>>

InFlight == {p \in PartNumbers : part[p] \in {"begun", "read"}}

(* Mutant of BeginPart: the concurrency limit is not looked at. *)
BeginPartUnlimited ==
    /\ pc = "parts" /\ next_part <= part_count
    /\ part' = [part EXCEPT ![next_part] = "begun"] /\ next_part' = next_part + 1
    /\ UNCHANGED <<file, edits, snapshot, pc, part_size, concurrency, part_count, data, failure>>

(* upload_parts pushes the future of the next part. *)
BeginPart ==
    /\ pc = "parts" /\ next_part <= part_count /\ Cardinality(InFlight) < concurrency
    /\ part' = [part EXCEPT ![next_part] = "begun"] /\ next_part' = next_part + 1
    /\ UNCHANGED <<file, edits, snapshot, pc, part_size, concurrency, part_count, data, failure>>

Offset(p) == (p - 1) * part_size
Remaining(p) == Len(snapshot) - Offset(p)
PartLength(p) == IF Remaining(p) < part_size THEN Remaining(p) ELSE part_size

(* Mutant of Source: the parts are read from the caller's path. *)
SourceByPath == file

(* The bytes that read_part slices. *)
Source == snapshot

(* read_part: read_exact fails beyond the end of the bytes. *)
ReadPart(p) ==
    /\ pc = "parts" /\ part[p] = "begun"
    /\ IF Remaining(p) < 0 \/ Offset(p) + PartLength(p) > Len(Source) THEN Fail("integrity")
       ELSE /\ part' = [part EXCEPT ![p] = "read"]
            /\ data' = [data EXCEPT ![p] = SubSeq(Source, Offset(p) + 1, Offset(p) + PartLength(p))]
            /\ UNCHANGED <<file, edits, snapshot, pc, part_size, concurrency, part_count, next_part, failure>>

(* The part's request succeeded and its buffer is dropped; the upload ends    *)
(* when nothing is pending and nothing is left to push.                       *)
StorePart(p) ==
    /\ pc = "parts" /\ part[p] = "read"
    /\ part' = [part EXCEPT ![p] = "stored"]
    /\ UNCHANGED <<file, edits, snapshot, pc, part_size, concurrency, part_count, next_part, data, failure>>

Complete ==
    /\ pc = "parts" /\ InFlight = {} /\ next_part > part_count
    /\ pc' = "done"
    /\ UNCHANGED <<file, edits, snapshot, part_size, concurrency, part_count, next_part, part, data, failure>>

Next ==
    \/ Edit \/ CopyChunk \/ CopyEnds \/ CountParts \/ BeginPart \/ Complete
    \/ \E p \in PartNumbers : ReadPart(p) \/ StorePart(p)

Spec == Init /\ [][Next]_vars

-------------------------------------------------------------------------------
TypeOK ==
    /\ file \in Seq(Byte) /\ edits \in Nat /\ snapshot \in Seq(Byte)
    /\ pc \in {"copy", "count", "parts", "done", "failed"}
    /\ part_size \in PartSizes /\ concurrency \in Concurrencies
    /\ part_count \in 0..MaxPartNumber /\ next_part \in 1..(MaxPartNumber + 1)
    /\ part \in [PartNumbers -> {"idle", "begun", "read", "stored"}]
    /\ data \in [PartNumbers -> Seq(Byte)]
    /\ failure \in {"none", "configuration", "integrity"}

(* No part lies beyond the source: for a part that was scheduled, the checked *)
(* subtraction and the exact read of read_part can not fail, though another   *)
(* process edits the file while it is copied and afterwards.                  *)
ReadsNeverFail == failure # "integrity"

(* Each part that is read has the size the service demands: every part but    *)
(* the last has exactly part_size bytes, and none is empty.                   *)
PartsAreUploadable ==
    \A p \in PartNumbers : part[p] \in {"read", "stored"} =>
        /\ Len(data[p]) \in 1..part_size
        /\ p < part_count => Len(data[p]) = part_size

(* The parts of a completed upload are the snapshot, cut without a gap and    *)
(* without an overlap: each of its bytes is in the part where its position    *)
(* falls, and no part holds any other byte.                                   *)
ObjectIsTheSnapshot ==
    pc = "done" =>
        /\ \A p \in 1..part_count : \A i \in DOMAIN data[p] :
              Offset(p) + i \in DOMAIN snapshot /\ data[p][i] = snapshot[Offset(p) + i]
        /\ \A o \in DOMAIN snapshot : \E p \in 1..part_count : o - Offset(p) \in DOMAIN data[p]

(* MultipartOptions::maximum_buffered_bytes *)
maximum_buffered_bytes == part_size * concurrency

(* The bytes held in memory, each as its part and its position there. *)
BufferedBytes == UNION {{p} \X DOMAIN data[p] : p \in {q \in PartNumbers : part[q] = "read"}}

(* What the parts in flight hold in memory stays within                       *)
(* maximum_buffered_bytes, in whatever order the parts finish.                *)
BufferedBytesAreBounded == Cardinality(BufferedBytes) <= maximum_buffered_bytes
===============================================================================
