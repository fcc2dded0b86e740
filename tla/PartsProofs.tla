------------------------------ MODULE PartsProofs ------------------------------
(***************************************************************************)
(* For every length, part size and part limit: the parts of a managed upload *)
(* can be read, have the sizes the service demands, and are the snapshot; a  *)
(* body that goes out is the one that was signed; and, for every body and    *)
(* every chunking, the checksum calculated is the remainder of the division  *)
(* that defines a CRC, and base64 texts are accepted exactly when canonical. *)
(***************************************************************************)
EXTENDS Parts, FiniteSetTheorems, WellFoundedInduction, TLAPS

(* What the code has checked of the options of a managed upload. *)
LEMMA PartConstants ==
    /\ MaxLength \in Nat /\ ReadSize \in Nat \ {0} /\ MaxEdits \in Nat
    /\ PartSizes \subseteq Nat \ {0} /\ Concurrencies \subseteq Nat \ {0}
    /\ MaxPartNumber \in Nat \ {0}
BY PartsAssumption DEF PO!PartSourceAssumption

(* An instance has its own copy of Cardinality. *)
LEMMA SameCardinality ==
    ASSUME NEW S
    PROVE  PO!Cardinality(S) = Cardinality(S)
BY DEF Cardinality, PO!Cardinality

-------------------------------------------------------------------------------
(* Arithmetic of the ranges. *)

LEMMA DivBounds ==
    ASSUME NEW a \in Nat, NEW b \in Nat \ {0}
    PROVE  /\ a \div b \in Nat
           /\ b * (a \div b) <= a
           /\ a < b * (a \div b) + b
    BY Z3

LEMMA MulMono ==
    ASSUME NEW a \in Nat, NEW b \in Nat, NEW c \in Nat, a <= b
    PROVE  a * c <= b * c
    BY Z3

LEMMA MulStep ==
    ASSUME NEW a \in Int, NEW c \in Int
    PROVE  /\ (a - 1) * c = a * c - c
           /\ (a + 1) * c = a * c + c
           /\ a * c \in Int /\ a * c = c * a
    BY Z3

(* The count of parts is the least one that covers the source. *)
LEMMA CeilBounds ==
    ASSUME NEW n \in Nat \ {0}, NEW s \in Nat \ {0}
    PROVE  /\ PO!div_ceil(n, s) \in Nat
           /\ n <= PO!div_ceil(n, s) * s
           /\ PO!div_ceil(n, s) * s < n + s
  <1> DEFINE c == (n + s - 1) \div s
  <1>1. c \in Nat /\ s * c <= n + s - 1 /\ n + s - 1 < s * c + s
    <2>1. n + s - 1 \in Nat
      OBVIOUS
    <2> QED BY <2>1, DivBounds
  <1>2. c * s = s * c /\ c * s \in Int
    BY <1>1, MulStep
  <1> QED BY <1>1, <1>2 DEF PO!div_ceil

(* A part begins inside the source, and before the last one it is full. *)
LEMMA PartInside ==
    ASSUME NEW n \in Nat \ {0}, NEW s \in Nat \ {0}, NEW p \in 1..PO!div_ceil(n, s)
    PROVE  /\ (p - 1) * s \in Nat
           /\ (p - 1) * s < n
           /\ p < PO!div_ceil(n, s) => (p - 1) * s + s < n
  <1> DEFINE c == PO!div_ceil(n, s)
  <1>1. c \in Nat /\ c * s < n + s /\ p \in Nat /\ p <= c
    BY CeilBounds
  <1>2. p * s <= c * s /\ p * s \in Int /\ c * s \in Int
    BY <1>1, MulMono, MulStep
  <1>3. (p - 1) * s = p * s - s
    BY <1>1, MulStep
  <1>4. 1 * s <= p * s
    BY <1>1, MulMono
  <1>5. ASSUME p < c PROVE (p - 1) * s + s < n
    <2>1. (p + 1) * s <= c * s
      BY <1>1, <1>5, MulMono
    <2>2. (p + 1) * s = p * s + s
      BY <1>1, MulStep
    <2> QED BY <1>1, <1>2, <1>3, <2>1, <2>2
  <1> HIDE DEF c
  <1>6. (p - 1) * s \in Nat /\ (p - 1) * s < n
    BY <1>1, <1>2, <1>3, <1>4
  <1> QED BY <1>5, <1>6 DEF c

(* Every position of the source falls into one of the parts. *)
LEMMA PositionInPart ==
    ASSUME NEW n \in Nat \ {0}, NEW s \in Nat \ {0}, NEW o \in 1..n
    PROVE  \E p \in 1..PO!div_ceil(n, s) : (p - 1) * s < o /\ o <= (p - 1) * s + s
  <1> DEFINE c == PO!div_ceil(n, s)
             q == (o - 1) \div s
  <1>1. q \in Nat /\ s * q <= o - 1 /\ o - 1 < s * q + s
    <2>1. o - 1 \in Nat
      OBVIOUS
    <2> QED BY <2>1, DivBounds
  <1>2. c \in Nat /\ n <= c * s
    BY CeilBounds
  <1>3. q * s = s * q /\ q * s \in Int /\ c * s \in Int
    BY <1>1, <1>2, MulStep
  <1>4. q + 1 <= c
    <2>1. SUFFICES ASSUME c <= q PROVE FALSE
      BY <1>1, <1>2
    <2>2. c * s <= q * s
      BY <1>1, <1>2, <2>1, MulMono
    <2> HIDE DEF c, q
    <2> QED BY <1>1, <1>2, <1>3, <2>2
  <1> HIDE DEF c, q
  <1>5. (q + 1) - 1 = q /\ q + 1 \in 1..c
    BY <1>1, <1>2, <1>4
  <1>6. q * s < o /\ o <= q * s + s
    BY <1>1, <1>3
  <1>7. ((q + 1) - 1) * s < o /\ o <= ((q + 1) - 1) * s + s
    BY <1>5, <1>6
  <1> QED BY <1>5, <1>7 DEF c

-------------------------------------------------------------------------------
(* The state before the parts are cut, and after. *)
Untouched == \A p \in PO!PartNumbers : part[p] = "idle"

Counted ==
    /\ Len(snapshot) # 0
    /\ part_count = PO!div_ceil(Len(snapshot), part_size)

Scheduled ==
    /\ next_part <= part_count + 1
    /\ \A p \in PO!PartNumbers : part[p] # "idle" <=> p < next_part

SliceContents ==
    \A p \in PO!PartNumbers : part[p] \in {"read", "stored"} =>
        data[p] = SubSeq(snapshot, PO!Offset(p) + 1, PO!Offset(p) + PO!PartLength(p))

IInv ==
    /\ PO!TypeOK
    /\ pc \in {"copy", "count", "failed"} => Untouched /\ next_part = 1
    /\ pc \in {"parts", "done"} => Counted /\ Scheduled /\ SliceContents
    /\ pc = "done" => PO!InFlight = {} /\ next_part > part_count
    /\ PO!ReadsNeverFail

(* The window of futures that upload_parts fills. *)
WindowIsBounded == Cardinality(PO!InFlight) <= concurrency

(* A scheduled part lies inside the snapshot. *)
LEMMA PartFits ==
    ASSUME IInv, pc \in {"parts", "done"}, NEW p \in PO!PartNumbers, p <= part_count
    PROVE  /\ PO!Offset(p) \in Nat /\ PO!PartLength(p) \in 1..part_size
           /\ PO!Remaining(p) > 0
           /\ PO!Offset(p) + PO!PartLength(p) <= Len(snapshot)
           /\ p < part_count => PO!PartLength(p) = part_size
           /\ PO!Offset(p) + part_size <= Len(snapshot) \/ PO!Offset(p) + PO!PartLength(p) = Len(snapshot)
  <1>1. Len(snapshot) \in Nat \ {0} /\ part_size \in Nat \ {0} /\ part_count = PO!div_ceil(Len(snapshot), part_size)
    BY PartConstants DEF IInv, PO!TypeOK, Counted
  <1>2. p \in 1..PO!div_ceil(Len(snapshot), part_size)
    BY <1>1 DEF PO!PartNumbers, IInv, PO!TypeOK
  <1>3. /\ (p - 1) * part_size \in Nat
        /\ (p - 1) * part_size < Len(snapshot)
        /\ p < PO!div_ceil(Len(snapshot), part_size) => (p - 1) * part_size + part_size < Len(snapshot)
    BY <1>1, <1>2, PartInside
  <1>4. PO!Offset(p) \in Nat /\ PO!Offset(p) < Len(snapshot)
        /\ (p < part_count => PO!Offset(p) + part_size < Len(snapshot))
    BY <1>1, <1>3 DEF PO!Offset
  <1> QED BY <1>1, <1>4 DEF PO!Remaining, PO!PartLength

LEMMA InitIInv == PO!Init => IInv
  <1> SUFFICES ASSUME PO!Init PROVE IInv
    OBVIOUS
  <1>1. file \in Seq(Byte)
    <2>1. PICK n \in 0..MaxLength : file \in [1..n -> Byte]
      BY DEF PO!Init
    <2> QED BY <2>1, PartConstants
  <1>3. <<>> \in Seq(Byte)
    OBVIOUS
  <1>4. snapshot \in Seq(Byte)
    BY <1>1, <1>3 DEF PO!Init
  <1>5. data \in [PO!PartNumbers -> Seq(Byte)] /\ part \in [PO!PartNumbers -> {"idle", "begun", "read", "stored"}]
    BY <1>3 DEF PO!Init
  <1>6. part_count \in 0..MaxPartNumber /\ next_part \in 1..(MaxPartNumber + 1) /\ edits \in Nat
    BY PartConstants DEF PO!Init
  <1>2. PO!TypeOK
    BY <1>1, <1>4, <1>5, <1>6 DEF PO!Init, PO!TypeOK
  <1> QED BY <1>2 DEF PO!Init, IInv, Untouched, PO!ReadsNeverFail

(* What SubSeq holds. *)
LEMMA SubSeqElement ==
    ASSUME NEW S, NEW s \in Seq(S), NEW m \in Nat, NEW n \in Nat, m + n <= Len(s), NEW i \in 1..n
    PROVE  SubSeq(s, m + 1, m + n)[i] = s[m + i]
  <1>1. Len(s) \in Nat /\ m + n \in Nat /\ i \in 1..((m + n) - (m + 1) + 1)
    OBVIOUS
  <1>2. SubSeq(s, m + 1, m + n)[i] = s[(m + 1) + i - 1]
    BY <1>1
  <1>3. (m + 1) + i - 1 = m + i
    OBVIOUS
  <1> QED BY <1>2, <1>3

(* A prefix of a sequence is a sequence. *)
LEMMA SubSeqType ==
    ASSUME NEW S, NEW s \in Seq(S), NEW n \in Nat, n <= Len(s)
    PROVE  SubSeq(s, 1, n) \in Seq(S)
  <1>1. \A i \in 1..n : s[i] \in S
    OBVIOUS
  <1> QED BY <1>1

LEMMA FailConfiguration ==
    ASSUME IInv, pc = "count", PO!Fail("configuration")
    PROVE  IInv'
  <1>1. PO!TypeOK'
    BY DEF IInv, PO!TypeOK, PO!Fail
  <1>2. Untouched
    BY DEF IInv
  <1> QED BY <1>1, <1>2 DEF IInv, PO!Fail, Untouched, PO!ReadsNeverFail

(* The steps that do not touch the parts. *)
LEMMA PreparationSteps ==
    ASSUME IInv, PO!Edit \/ PO!CopyChunk \/ PO!CopyEnds \/ PO!CountParts
    PROVE  IInv'
  <1>1. CASE PO!Edit
    <2>1. file' \in Seq(Byte)
      <3>1. file \in Seq(Byte) /\ Len(file) \in Nat
        BY DEF IInv, PO!TypeOK
      <3>2. CASE \E i \in DOMAIN file, b \in Byte : file' = [file EXCEPT ![i] = b]
        BY <3>1, <3>2
      <3>3. CASE \E b \in Byte : file' = Append(file, b)
        BY <3>1, <3>3
      <3>4. CASE file # <<>> /\ file' = SubSeq(file, 1, Len(file) - 1)
        <4>1. Len(file) - 1 \in Nat
          BY <3>1, <3>4
        <4> QED BY <3>1, <3>4, <4>1, SubSeqType
      <3> QED BY <1>1, <3>2, <3>3, <3>4 DEF PO!Edit
    <2>5. edits' \in Nat
      BY <1>1 DEF IInv, PO!TypeOK, PO!Edit
    <2>2. PO!TypeOK'
      BY <1>1, <2>1, <2>5 DEF IInv, PO!TypeOK, PO!Edit
    <2> QED BY <1>1, <2>2 DEF IInv, PO!Edit, Untouched, Counted, Scheduled, SliceContents, PO!InFlight,
                              PO!ReadsNeverFail, PO!Offset, PO!PartLength, PO!Remaining
  <1>2. CASE PO!CopyChunk
    <2>1. PICK n \in 1..ReadSize :
             /\ Len(snapshot) + n <= Len(file)
             /\ snapshot' = snapshot \o SubSeq(file, Len(snapshot) + 1, Len(snapshot) + n)
      BY <1>2 DEF PO!CopyChunk
    <2>2. snapshot' \in Seq(Byte)
      <3>1. n \in Nat /\ Len(snapshot) \in Nat /\ Len(file) \in Nat
        BY PartConstants DEF IInv, PO!TypeOK
      <3>2. SubSeq(file, Len(snapshot) + 1, Len(snapshot) + n) \in Seq(Byte)
        <4>1. \A i \in (Len(snapshot) + 1)..(Len(snapshot) + n) : file[i] \in Byte
          BY <2>1, <3>1 DEF IInv, PO!TypeOK
        <4> QED BY <2>1, <3>1, <4>1 DEF IInv, PO!TypeOK
      <3> QED BY <2>1, <3>2 DEF IInv, PO!TypeOK
    <2>3. PO!TypeOK'
      BY <1>2, <2>2 DEF IInv, PO!TypeOK, PO!CopyChunk
    <2> QED BY <1>2, <2>3 DEF IInv, PO!CopyChunk, Untouched, PO!ReadsNeverFail
  <1>3. CASE PO!CopyEnds
    <2>1. PO!TypeOK'
      BY <1>3 DEF IInv, PO!TypeOK, PO!CopyEnds
    <2> QED BY <1>3, <2>1 DEF IInv, PO!CopyEnds, Untouched, PO!ReadsNeverFail
  <1>4. CASE PO!CountParts
    <2> DEFINE count == PO!div_ceil(Len(snapshot), part_size)
    <2>1. CASE Len(snapshot) = 0 \/ PO!TooManyParts(count)
      BY <1>4, <2>1, FailConfiguration DEF PO!CountParts
    <2>2. CASE ~(Len(snapshot) = 0 \/ PO!TooManyParts(count))
      <3>1. Len(snapshot) \in Nat \ {0} /\ part_size \in Nat \ {0}
        BY <2>2, PartConstants DEF IInv, PO!TypeOK
      <3>7. count \in Nat
        BY <3>1, CeilBounds
      <3>2. count \in Nat /\ count <= MaxPartNumber
        <4>1. ~(count > MaxPartNumber)
          BY <2>2 DEF PO!TooManyParts
        <4> HIDE DEF count
        <4> QED BY <3>7, <4>1, PartConstants
      <3> HIDE DEF count
      <3>3. /\ part_count' = count /\ pc' = "parts" /\ pc = "count"
            /\ UNCHANGED <<file, edits, snapshot, part_size, concurrency, next_part, part, data, failure>>
        BY <1>4, <2>2 DEF PO!CountParts, count
      <3>4. PO!TypeOK'
        BY <3>2, <3>3, PartConstants DEF IInv, PO!TypeOK
      <3>5. Counted'
        BY <2>2, <3>3 DEF Counted, count
      <3>6. Scheduled' /\ SliceContents'
        BY <3>2, <3>3 DEF IInv, Untouched, Scheduled, SliceContents, PO!PartNumbers
      <3> QED BY <3>3, <3>4, <3>5, <3>6 DEF IInv, PO!ReadsNeverFail
    <2> QED BY <2>1, <2>2
  <1> QED BY <1>1, <1>2, <1>3, <1>4

LEMMA BeginStep ==
    ASSUME IInv, PO!BeginPart
    PROVE  IInv'
  <1>1. next_part \in PO!PartNumbers /\ next_part' = next_part + 1 /\ next_part <= part_count
    BY PartConstants DEF IInv, PO!TypeOK, PO!BeginPart, PO!PartNumbers
  <1>2. PO!TypeOK'
    BY <1>1, PartConstants DEF IInv, PO!TypeOK, PO!BeginPart, PO!PartNumbers
  <1>3. Counted'
    BY DEF IInv, PO!BeginPart, Counted
  <1>4. Scheduled'
    <2>1. \A p \in PO!PartNumbers : part[p] # "idle" <=> p < next_part
      BY DEF IInv, PO!BeginPart, Scheduled
    <2>2. part' = [part EXCEPT ![next_part] = "begun"] /\ part_count' = part_count
      BY DEF PO!BeginPart
    <2>3. \A p \in PO!PartNumbers : part'[p] # "idle" <=> p < next_part + 1
      BY <1>1, <2>1, <2>2 DEF IInv, PO!TypeOK, PO!PartNumbers
    <2> QED BY <1>1, <2>2, <2>3 DEF Scheduled, IInv, PO!TypeOK
  <1>5. SliceContents'
    <2>1. part[next_part] = "idle"
      BY <1>1 DEF IInv, PO!BeginPart, Scheduled, PO!PartNumbers
    <2>2. \A p \in PO!PartNumbers : part'[p] \in {"read", "stored"} => part[p] \in {"read", "stored"}
      BY DEF PO!BeginPart, IInv, PO!TypeOK
    <2>3. data' = data /\ snapshot' = snapshot /\ part_size' = part_size /\ SliceContents
      BY DEF PO!BeginPart, IInv
    <2> QED BY <2>2, <2>3 DEF SliceContents, PO!Offset, PO!PartLength, PO!Remaining
  <1> QED BY <1>2, <1>3, <1>4, <1>5 DEF IInv, PO!BeginPart, PO!ReadsNeverFail

LEMMA ReadStep ==
    ASSUME IInv, NEW q \in PO!PartNumbers, PO!ReadPart(q)
    PROVE  IInv'
  <1>1. pc = "parts" /\ part[q] = "begun" /\ q <= part_count
    BY DEF IInv, PO!ReadPart, Scheduled, PO!TypeOK, PO!PartNumbers
  <1>2. /\ PO!Offset(q) \in Nat /\ PO!PartLength(q) \in 1..part_size
        /\ PO!Remaining(q) > 0 /\ PO!Offset(q) + PO!PartLength(q) <= Len(snapshot)
    BY <1>1, PartFits
  <1>3. PO!Remaining(q) \in Int /\ Len(snapshot) \in Nat
    BY <1>2, PartConstants DEF PO!Remaining, IInv, PO!TypeOK
  <1>4. /\ part' = [part EXCEPT ![q] = "read"]
        /\ data' = [data EXCEPT ![q] = SubSeq(snapshot, PO!Offset(q) + 1, PO!Offset(q) + PO!PartLength(q))]
        /\ UNCHANGED <<file, edits, snapshot, pc, part_size, concurrency, part_count, next_part, failure>>
    <2>1. ~(PO!Remaining(q) < 0 \/ PO!Offset(q) + PO!PartLength(q) > Len(PO!Source))
      BY <1>2, <1>3, PartConstants DEF PO!Source, IInv, PO!TypeOK
    <2> QED BY <2>1 DEF PO!ReadPart, PO!Source
  <1>5. SubSeq(snapshot, PO!Offset(q) + 1, PO!Offset(q) + PO!PartLength(q)) \in Seq(Byte)
    <2>1. PO!PartLength(q) \in Nat
      BY <1>2, PartConstants DEF IInv, PO!TypeOK
    <2>2. \A i \in (PO!Offset(q) + 1)..(PO!Offset(q) + PO!PartLength(q)) : snapshot[i] \in Byte
      BY <1>2, <1>3, <2>1 DEF IInv, PO!TypeOK
    <2> HIDE DEF PO!Offset, PO!PartLength
    <2> QED BY <1>2, <1>3, <2>1, <2>2 DEF IInv, PO!TypeOK
  <1>6. PO!TypeOK'
    BY <1>4, <1>5 DEF IInv, PO!TypeOK
  <1>7. Counted' /\ Scheduled'
    BY <1>1, <1>4 DEF IInv, Counted, Scheduled, PO!TypeOK
  <1>8. SliceContents'
    <2>1. \A p \in PO!PartNumbers : PO!Offset(p)' = PO!Offset(p) /\ PO!PartLength(p)' = PO!PartLength(p)
      BY <1>4 DEF PO!Offset, PO!PartLength, PO!Remaining
    <2>2. SUFFICES ASSUME NEW p \in PO!PartNumbers, part'[p] \in {"read", "stored"}
                   PROVE  data'[p] = SubSeq(snapshot, PO!Offset(p) + 1, PO!Offset(p) + PO!PartLength(p))
      BY <1>4, <2>1 DEF SliceContents
    <2> QED BY <1>1, <1>4, <2>2 DEF IInv, PO!TypeOK, SliceContents
  <1> QED BY <1>1, <1>4, <1>6, <1>7, <1>8 DEF IInv, PO!ReadsNeverFail

LEMMA StoreStep ==
    ASSUME IInv, NEW q \in PO!PartNumbers, PO!StorePart(q)
    PROVE  IInv'
  <1>1. PO!TypeOK'
    BY DEF IInv, PO!TypeOK, PO!StorePart
  <1>2. Counted' /\ Scheduled'
    BY DEF IInv, PO!StorePart, Counted, Scheduled, PO!TypeOK
  <1>3. SliceContents'
    BY DEF IInv, PO!StorePart, SliceContents, PO!TypeOK, PO!Offset, PO!PartLength, PO!Remaining
  <1> QED BY <1>1, <1>2, <1>3 DEF IInv, PO!StorePart, PO!ReadsNeverFail

LEMMA CompleteStep ==
    ASSUME IInv, PO!Complete
    PROVE  IInv'
  <1>1. PO!TypeOK'
    BY DEF IInv, PO!TypeOK, PO!Complete
  <1>2. Counted' /\ Scheduled' /\ SliceContents'
    BY DEF IInv, PO!Complete, Counted, Scheduled, SliceContents, PO!Offset, PO!PartLength, PO!Remaining
  <1> QED BY <1>1, <1>2 DEF IInv, PO!Complete, PO!InFlight, PO!ReadsNeverFail

LEMMA NextIInv == IInv /\ [PO!Next]_PO!vars => IInv'
  <1> SUFFICES ASSUME IInv, [PO!Next]_PO!vars PROVE IInv'
    OBVIOUS
  <1>1. CASE PO!Edit \/ PO!CopyChunk \/ PO!CopyEnds \/ PO!CountParts
    BY <1>1, PreparationSteps
  <1>2. CASE PO!BeginPart
    BY <1>2, BeginStep
  <1>3. CASE PO!Complete
    BY <1>3, CompleteStep
  <1>4. CASE \E p \in PO!PartNumbers : PO!ReadPart(p) \/ PO!StorePart(p)
    BY <1>4, ReadStep, StoreStep
  <1>5. CASE UNCHANGED PO!vars
    BY <1>5 DEF PO!vars, IInv, PO!TypeOK, Untouched, Counted, Scheduled, SliceContents, PO!InFlight, PO!ReadsNeverFail,
                PO!Offset, PO!PartLength, PO!Remaining
  <1> QED BY <1>1, <1>2, <1>3, <1>4, <1>5 DEF PO!Next

LEMMA SpecIInv == PO!Spec => []IInv
  BY InitIInv, NextIInv, PTL DEF PO!Spec

-------------------------------------------------------------------------------
(* The variables of PartSource keep their types; part_count stays within the  *)
(* part limit.                                                                *)
THEOREM PartTypes == PO!Spec => []PO!TypeOK
  <1>1. IInv => PO!TypeOK
    BY DEF IInv
  <1> QED BY <1>1, SpecIInv, PTL

LEMMA PartOfIInv ==
    ASSUME IInv, NEW p \in PO!PartNumbers, part[p] \in {"read", "stored"}
    PROVE  /\ pc \in {"parts", "done"} /\ p <= part_count
           /\ data[p] = SubSeq(snapshot, PO!Offset(p) + 1, PO!Offset(p) + PO!PartLength(p))
           /\ Len(data[p]) = PO!PartLength(p)
  <1>1. pc \in {"parts", "done"}
    BY DEF IInv, Untouched, PO!TypeOK
  <1>2. p <= part_count
    BY <1>1 DEF IInv, Scheduled, PO!TypeOK, PO!PartNumbers
  <1>3. data[p] = SubSeq(snapshot, PO!Offset(p) + 1, PO!Offset(p) + PO!PartLength(p))
    BY <1>1 DEF IInv, SliceContents
  <1>4. /\ PO!Offset(p) \in Nat /\ PO!PartLength(p) \in 1..part_size
        /\ PO!Offset(p) + PO!PartLength(p) <= Len(snapshot)
    BY <1>1, <1>2, PartFits
  <1>5. part_size \in Nat /\ snapshot \in Seq(Byte)
    BY PartConstants DEF IInv, PO!TypeOK
  <1>6. Len(data[p]) = PO!PartLength(p)
    <2> HIDE DEF PO!Offset, PO!PartLength
    <2> QED BY <1>3, <1>4, <1>5
  <1> QED BY <1>1, <1>2, <1>3, <1>6

(* Every part but the last has part_size bytes and none is empty, for every   *)
(* length and part size.                                                      *)
THEOREM PartSizesFit == PO!Spec => []PO!PartsAreUploadable
  <1>1. IInv => PO!PartsAreUploadable
    <2> SUFFICES ASSUME IInv, NEW p \in PO!PartNumbers, part[p] \in {"read", "stored"}
                 PROVE  /\ Len(data[p]) \in 1..part_size
                        /\ p < part_count => Len(data[p]) = part_size
      BY DEF PO!PartsAreUploadable
    <2>1. Len(data[p]) = PO!PartLength(p) /\ pc \in {"parts", "done"} /\ p <= part_count
      BY PartOfIInv
    <2> QED BY <2>1, PartFits
  <1> QED BY <1>1, SpecIInv, PTL

(* A completed upload is the snapshot, byte for byte. *)
LEMMA SnapshotIsCut == IInv => PO!ObjectIsTheSnapshot
  <1> SUFFICES ASSUME IInv, pc = "done"
               PROVE  /\ \A p \in 1..part_count : \A i \in DOMAIN data[p] :
                            PO!Offset(p) + i \in DOMAIN snapshot /\ data[p][i] = snapshot[PO!Offset(p) + i]
                      /\ \A o \in DOMAIN snapshot :
                            \E p \in 1..part_count : o - PO!Offset(p) \in DOMAIN data[p]
    BY DEF PO!ObjectIsTheSnapshot
  <1>1. part_count \in 0..MaxPartNumber /\ part_size \in Nat \ {0} /\ snapshot \in Seq(Byte)
        /\ Len(snapshot) \in Nat \ {0} /\ part_count = PO!div_ceil(Len(snapshot), part_size)
    BY PartConstants DEF IInv, PO!TypeOK, Counted
  <1>2. \A p \in 1..part_count : p \in PO!PartNumbers /\ part[p] \in {"read", "stored"}
    <2> SUFFICES ASSUME NEW p \in 1..part_count PROVE p \in PO!PartNumbers /\ part[p] \in {"read", "stored"}
      OBVIOUS
    <2>1. p \in PO!PartNumbers /\ p < next_part
      BY <1>1, PartConstants DEF IInv, PO!TypeOK, PO!PartNumbers
    <2>2. part[p] # "idle" /\ p \notin PO!InFlight
      BY <2>1 DEF IInv, Scheduled
    <2> QED BY <2>1, <2>2 DEF PO!InFlight, IInv, PO!TypeOK
  <1>3. \A p \in 1..part_count :
           /\ PO!Offset(p) \in Nat /\ PO!PartLength(p) \in 1..part_size
           /\ PO!Offset(p) + PO!PartLength(p) <= Len(snapshot)
           /\ PO!Offset(p) + part_size <= Len(snapshot) \/ PO!Offset(p) + PO!PartLength(p) = Len(snapshot)
           /\ data[p] = SubSeq(snapshot, PO!Offset(p) + 1, PO!Offset(p) + PO!PartLength(p))
           /\ Len(data[p]) = PO!PartLength(p) /\ data[p] \in Seq(Byte)
    BY <1>2, PartFits, PartOfIInv DEF IInv, PO!TypeOK
  <1>4. ASSUME NEW p \in 1..part_count, NEW i \in DOMAIN data[p]
        PROVE  PO!Offset(p) + i \in DOMAIN snapshot /\ data[p][i] = snapshot[PO!Offset(p) + i]
    <2>1. i \in 1..PO!PartLength(p)
      BY <1>3
    <2>2. PO!PartLength(p) \in Nat /\ PO!Offset(p) \in Nat
      BY <1>1, <1>3
    <2>3. PO!Offset(p) + i \in 1..Len(snapshot)
      BY <1>1, <1>3, <2>1, <2>2
    <2> HIDE DEF PO!Offset, PO!PartLength
    <2>4. data[p][i] = snapshot[PO!Offset(p) + i]
      <3>1. snapshot \in Seq(Byte) /\ PO!Offset(p) + PO!PartLength(p) <= Len(snapshot)
        BY <1>3 DEF IInv, PO!TypeOK
      <3>2. SubSeq(snapshot, PO!Offset(p) + 1, PO!Offset(p) + PO!PartLength(p))[i] = snapshot[PO!Offset(p) + i]
        BY <2>1, <2>2, <3>1, SubSeqElement
      <3> QED BY <1>3, <3>2
    <2> QED BY <1>1, <2>1, <2>2, <2>3, <2>4
  <1>5. ASSUME NEW o \in DOMAIN snapshot
        PROVE  \E p \in 1..part_count : o - PO!Offset(p) \in DOMAIN data[p]
    <2>1. o \in 1..Len(snapshot)
      BY <1>1
    <2>2. PICK p \in 1..part_count : (p - 1) * part_size < o /\ o <= (p - 1) * part_size + part_size
      BY <1>1, <2>1, PositionInPart
    <2>3. PO!Offset(p) < o /\ o <= PO!Offset(p) + part_size
      BY <2>2 DEF PO!Offset
    <2>4. PO!PartLength(p) = part_size \/ PO!Offset(p) + PO!PartLength(p) = Len(snapshot)
      BY <1>1, <1>3 DEF PO!PartLength, PO!Remaining
    <2> HIDE DEF PO!Offset, PO!PartLength
    <2>5. o - PO!Offset(p) \in 1..PO!PartLength(p)
      BY <1>1, <1>3, <2>1, <2>3, <2>4
    <2>6. DOMAIN data[p] = 1..PO!PartLength(p)
      BY <1>3
    <2> QED BY <2>5, <2>6
  <1> QED BY <1>4, <1>5

-------------------------------------------------------------------------------
(* A set of part numbers is finite. *)
LEMMA PartsAreFinite ==
    ASSUME NEW S \in SUBSET PO!PartNumbers
    PROVE  IsFiniteSet(S) /\ Cardinality(S) \in Nat
  <1>1. IsFiniteSet(PO!PartNumbers)
    BY FS_Interval, PartConstants DEF PO!PartNumbers
  <1> QED BY <1>1, FS_Subset, FS_CardinalityType

LEMMA InitWindow == PO!Init => WindowIsBounded
  <1> SUFFICES ASSUME PO!Init PROVE WindowIsBounded
    OBVIOUS
  <1>1. PO!InFlight = {}
    BY DEF PO!Init, PO!InFlight
  <1>2. concurrency \in Nat
    BY PartConstants DEF PO!Init
  <1> QED BY <1>1, <1>2, FS_EmptySet DEF WindowIsBounded

(* A step that keeps the parts in flight among those before it, and the limit. *)
LEMMA WindowShrinks ==
    ASSUME WindowIsBounded, PO!TypeOK, concurrency' = concurrency, PO!InFlight' \subseteq PO!InFlight
    PROVE  WindowIsBounded'
  <1>1. IsFiniteSet(PO!InFlight) /\ Cardinality(PO!InFlight) \in Nat
    BY PartsAreFinite DEF PO!InFlight
  <1>2. IsFiniteSet(PO!InFlight') /\ Cardinality(PO!InFlight') <= Cardinality(PO!InFlight)
    BY <1>1, FS_Subset
  <1>3. Cardinality(PO!InFlight') \in Nat
    BY <1>2, FS_CardinalityType
  <1>4. concurrency \in Nat
    BY PartConstants DEF PO!TypeOK
  <1> QED BY <1>1, <1>2, <1>3, <1>4 DEF WindowIsBounded

(* Only BeginPart adds to the window, and it looks at the limit first. *)
LEMMA NextWindow == IInv /\ WindowIsBounded /\ [PO!Next]_PO!vars => WindowIsBounded'
  <1> SUFFICES ASSUME IInv, WindowIsBounded, [PO!Next]_PO!vars PROVE WindowIsBounded'
    OBVIOUS
  <1>0. PO!TypeOK
    BY DEF IInv
  <1>1. CASE PO!BeginPart
    <2>1. next_part \in PO!PartNumbers
      BY <1>0, <1>1, PartConstants DEF PO!TypeOK, PO!BeginPart, PO!PartNumbers
    <2>2. PO!InFlight' \subseteq PO!InFlight \cup {next_part}
      BY <1>0, <1>1 DEF PO!TypeOK, PO!BeginPart, PO!InFlight
    <2>3. IsFiniteSet(PO!InFlight) /\ Cardinality(PO!InFlight) \in Nat
      BY PartsAreFinite DEF PO!InFlight
    <2>4. /\ IsFiniteSet(PO!InFlight \cup {next_part})
          /\ Cardinality(PO!InFlight \cup {next_part}) \in Nat
          /\ Cardinality(PO!InFlight \cup {next_part}) <= Cardinality(PO!InFlight) + 1
      <3> DEFINE A == PO!InFlight
      <3>1. IsFiniteSet(A) /\ Cardinality(A) \in Nat
        BY <2>3
      <3> HIDE DEF A
      <3>2. IsFiniteSet(A \cup {next_part})
        BY <3>1, FS_AddElement
      <3>3. Cardinality(A \cup {next_part}) = IF next_part \in A THEN Cardinality(A) ELSE Cardinality(A) + 1
        BY <3>1, FS_AddElement
      <3> QED BY <3>1, <3>2, <3>3 DEF A
    <2>5. IsFiniteSet(PO!InFlight') /\ Cardinality(PO!InFlight') <= Cardinality(PO!InFlight \cup {next_part})
      BY <2>2, <2>4, FS_Subset
    <2>6. Cardinality(PO!InFlight') \in Nat
      BY <2>5, FS_CardinalityType
    <2>7. Cardinality(PO!InFlight) < concurrency /\ concurrency' = concurrency /\ concurrency \in Nat
      BY <1>0, <1>1, PartConstants, SameCardinality DEF PO!BeginPart, PO!TypeOK
    <2> QED BY <2>3, <2>4, <2>5, <2>6, <2>7 DEF WindowIsBounded
  <1>2. CASE PO!Edit \/ PO!CopyChunk \/ PO!CopyEnds \/ PO!CountParts \/ PO!Complete
    <2>1. part' = part /\ concurrency' = concurrency
      BY <1>2 DEF PO!Edit, PO!CopyChunk, PO!CopyEnds, PO!CountParts, PO!Complete, PO!Fail
    <2>2. PO!InFlight' \subseteq PO!InFlight
      BY <2>1 DEF PO!InFlight
    <2> QED BY <1>0, <2>1, <2>2, WindowShrinks
  <1>3. CASE \E p \in PO!PartNumbers : PO!ReadPart(p) \/ PO!StorePart(p)
    <2>1. PICK p \in PO!PartNumbers : PO!ReadPart(p) \/ PO!StorePart(p)
      BY <1>3
    <2>2. PO!InFlight' \subseteq PO!InFlight /\ concurrency' = concurrency
      BY <1>0, <2>1 DEF PO!ReadPart, PO!StorePart, PO!Fail, PO!InFlight, PO!TypeOK
    <2> QED BY <1>0, <2>2, WindowShrinks
  <1>4. CASE UNCHANGED PO!vars
    <2>1. PO!InFlight' \subseteq PO!InFlight /\ concurrency' = concurrency
      BY <1>4 DEF PO!vars, PO!InFlight
    <2> QED BY <1>0, <2>1, WindowShrinks
  <1> QED BY <1>1, <1>2, <1>3, <1>4 DEF PO!Next

(* What the window holds in memory stays within maximum_buffered_bytes.      *)
LEMMA WindowHolds == IInv /\ WindowIsBounded => PO!BufferedBytesAreBounded
  <1> SUFFICES ASSUME IInv, WindowIsBounded PROVE PO!BufferedBytesAreBounded
    OBVIOUS
  <1> DEFINE R == {q \in PO!PartNumbers : part[q] = "read"}
             Full == R \X (1..part_size)
  <1>1. part_size \in Nat /\ concurrency \in Nat
    BY PartConstants DEF IInv, PO!TypeOK
  <1>2. IsFiniteSet(1..part_size) /\ Cardinality(1..part_size) = part_size
    BY <1>1, FS_Interval
  <1>3. /\ IsFiniteSet(R) /\ Cardinality(R) \in Nat
        /\ IsFiniteSet(PO!InFlight) /\ Cardinality(PO!InFlight) \in Nat
    BY PartsAreFinite DEF PO!InFlight
  <1>4. R \subseteq PO!InFlight
    BY DEF PO!InFlight
  <1>5. Cardinality(R) <= concurrency
    <2>1. Cardinality(R) <= Cardinality(PO!InFlight)
      BY <1>3, <1>4, FS_Subset
    <2> HIDE DEF R
    <2> QED BY <1>1, <1>3, <2>1 DEF WindowIsBounded
  <1>6. IsFiniteSet(Full) /\ Cardinality(Full) = Cardinality(R) * part_size
    <2> HIDE DEF R
    <2> QED BY <1>2, <1>3, FS_Product
  <1>7. Cardinality(R) * part_size <= concurrency * part_size
    <2> HIDE DEF R
    <2> QED BY <1>1, <1>3, <1>5, MulMono
  <1>8. PO!BufferedBytes \subseteq Full
    <2> SUFFICES ASSUME NEW b \in PO!BufferedBytes PROVE b \in Full
      OBVIOUS
    <2>1. PICK p \in R : b \in {p} \X DOMAIN data[p]
      BY DEF PO!BufferedBytes
    <2>2. p \in PO!PartNumbers /\ part[p] \in {"read", "stored"}
      OBVIOUS
    <2>3. pc \in {"parts", "done"} /\ p <= part_count /\ Len(data[p]) = PO!PartLength(p)
      BY <2>2, PartOfIInv
    <2>4. PO!PartLength(p) \in 1..part_size
      BY <2>2, <2>3, PartFits
    <2>5. DOMAIN data[p] = 1..Len(data[p])
      BY <2>2 DEF IInv, PO!TypeOK
    <2>6. DOMAIN data[p] \subseteq 1..part_size
      <3> HIDE DEF PO!PartLength
      <3> QED BY <1>1, <2>3, <2>4, <2>5
    <2> QED BY <2>1, <2>6
  <1>9. IsFiniteSet(PO!BufferedBytes) /\ Cardinality(PO!BufferedBytes) <= Cardinality(Full)
    <2> HIDE DEF Full
    <2> QED BY <1>6, <1>8, FS_Subset
  <1>10. Cardinality(PO!BufferedBytes) \in Nat
    BY <1>9, FS_CardinalityType
  <1>11. concurrency * part_size = part_size * concurrency /\ concurrency * part_size \in Int
         /\ Cardinality(R) * part_size \in Int
    <2> HIDE DEF R
    <2> QED BY <1>1, <1>3, MulStep
  <1> HIDE DEF R, Full
  <1> QED BY <1>6, <1>7, <1>9, <1>10, <1>11, SameCardinality DEF PO!BufferedBytesAreBounded, PO!maximum_buffered_bytes

-------------------------------------------------------------------------------
(* The body of a part or of a single upload (UploadBody), for bodies and     *)
(* chunks of every length and any number of attempts and changes of the      *)
(* file: what went out at the full length was signed, the size hint is       *)
(* exact, and no body that the client made itself is refused.                *)

(* Before the body is prepared nothing is sent; afterwards the length and    *)
(* the digest of a body that can be replayed are those of what is read.      *)
Prepared ==
    /\ at = "prepare" => complete = {} /\ remaining = 0
    /\ at # "done" => result = "none"
    /\ at # "prepare" /\ kind # "stream" => result = "failed" \/ signed = UB!Content

(* One attempt: what the stream has yielded is out or held back, and the     *)
(* rest of the signed length is still remaining.                             *)
Sending ==
    at = "sending" =>
        /\ Len(sent) + remaining = Len(signed)
        /\ ~finished =>
              /\ sent \o held = yielded
              /\ held # <<>> => Len(held) = remaining

BodyIInv == UB!TypeOK /\ Prepared /\ Sending /\ UB!BodiesAreSigned

-------------------------------------------------------------------------------
(* Sequences. *)

LEMMA EmptyTail ==
    ASSUME NEW S, NEW s \in Seq(S)
    PROVE  s \o <<>> = s
  OBVIOUS

LEMMA JoinedBytes ==
    ASSUME NEW S, NEW s \in Seq(S), NEW t \in Seq(S)
    PROVE  s \o t \in Seq(S) /\ Len(s \o t) = Len(s) + Len(t)
  OBVIOUS

LEMMA Slice ==
    ASSUME NEW S, NEW s \in Seq(S), NEW m \in Nat, NEW n \in Nat, m + n <= Len(s)
    PROVE  /\ SubSeq(s, m + 1, m + n) \in Seq(S)
           /\ Len(SubSeq(s, m + 1, m + n)) = n
  <1>1. \A i \in (m + 1)..(m + n) : s[i] \in S
    OBVIOUS
  <1> QED BY <1>1

-------------------------------------------------------------------------------
LEMMA InitBody ==
    ASSUME UB!BodyAssumption, UB!Init
    PROVE  BodyIInv
  <1>1. source \in Seq(Byte) /\ signed \in Seq(Byte)
    <2>1. \A n \in Nat : [1..n -> Byte] \subseteq Seq(Byte)
      OBVIOUS
    <2>2. UB!Sources \subseteq Seq(Byte) /\ UB!StreamContents \subseteq Seq(Byte)
      BY <2>1 DEF UB!Sources, UB!StreamContents, UB!BodyAssumption
    <2>3. <<>> \in Seq(Byte)
      OBVIOUS
    <2> QED BY <2>2, <2>3, Zenon DEF UB!Init
  <1>2. UB!TypeOK
    <2>1. <<>> \in Seq(Byte) /\ 0 \in 0..Len(signed) /\ 0 \in 0..MaxChanges /\ 0 \in 0..MaxAttempts
      BY <1>1 DEF UB!BodyAssumption
    <2> QED BY <1>1, <2>1 DEF UB!Init, UB!TypeOK
  <1> QED BY <1>2 DEF UB!Init, BodyIInv, Prepared, Sending, UB!BodiesAreSigned, UB!CompleteBodiesAreSigned,
                      UB!SizeHintIsExact, UB!OnlyStreamsAreRefused

(* What a step needs to know of the state. *)
LEMMA BodyFacts ==
    ASSUME UB!BodyAssumption, BodyIInv
    PROVE  /\ UB!Content \in Seq(Byte) /\ Len(UB!Content) \in Nat
           /\ Len(signed) \in Nat /\ Len(sent) \in Nat /\ Len(held) \in Nat /\ Len(yielded) \in Nat
           /\ remaining \in Nat
  BY DEF BodyIInv, UB!TypeOK, UB!Content

(* While an attempt runs without a chunk held back, all that was yielded is  *)
(* out.                                                                      *)
LEMMA NothingHeld ==
    ASSUME UB!BodyAssumption, BodyIInv, at = "sending", ~finished
    PROVE  /\ held = <<>> => sent = yielded /\ Len(yielded) + remaining = Len(signed)
           /\ held # <<>> => Len(yielded) = Len(signed)
  <1>1. sent \in Seq(Byte) /\ held \in Seq(Byte) /\ yielded \in Seq(Byte)
    BY DEF BodyIInv, UB!TypeOK
  <1>2. /\ sent \o held = yielded /\ Len(sent) + remaining = Len(signed)
        /\ held # <<>> => Len(held) = remaining
    BY DEF BodyIInv, Sending
  <1>3. Len(yielded) = Len(sent) + Len(held)
    BY <1>1, <1>2
  <1>4. CASE held = <<>>
    BY <1>1, <1>2, <1>4, EmptyTail
  <1>5. CASE held # <<>>
    BY <1>2, <1>3, <1>5, BodyFacts
  <1> QED BY <1>4, <1>5

(* A stream is refused, and nothing else. *)
LEMMA RefuseStep ==
    ASSUME UB!BodyAssumption, BodyIInv, at = "sending", ~finished, kind = "stream",
           UB!Refuse, UNCHANGED <<yielded, UB!input, UB!prepared, tries>>
    PROVE  BodyIInv'
  <1> USE DEF UB!Refuse, UB!input, UB!prepared
  <1>1. <<>> \in Seq(Byte) /\ 0 \in 0..Len(signed)
    BY BodyFacts
  <1>2. UB!TypeOK'
    BY <1>1 DEF BodyIInv, UB!TypeOK
  <1> QED BY <1>2 DEF BodyIInv, Prepared, Sending, UB!BodiesAreSigned, UB!CompleteBodiesAreSigned,
                      UB!SizeHintIsExact, UB!OnlyStreamsAreRefused, UB!Content

(* poll_frame with a chunk: a body of the client's own is never longer than  *)
(* what was signed, and the chunk that completes the length stays back.      *)
LEMMA PollChunkStep ==
    ASSUME UB!BodyAssumption, BodyIInv, NEW length \in 1..MaxChunk, UB!PollChunk(length)
    PROVE  BodyIInv'
  <1> DEFINE next == SubSeq(UB!Content, Len(yielded) + 1, Len(yielded) + length)
  <1>1. /\ at = "sending" /\ ~finished /\ Len(yielded) + length <= Len(UB!Content)
        /\ UNCHANGED <<UB!input, UB!prepared, tries>>
    BY DEF UB!PollChunk
  <1>2. length \in Nat /\ length > 0
    BY DEF UB!BodyAssumption
  <1>3. next \in Seq(Byte) /\ Len(next) = length
    BY <1>1, <1>2, BodyFacts, Slice
  <1> HIDE DEF next
  <1>4. CASE held # <<>> \/ length > remaining
    <2>1. UB!Refuse /\ UNCHANGED yielded
      BY <1>4 DEF UB!PollChunk
    <2>2. kind = "stream"
      <3>1. SUFFICES ASSUME kind # "stream" PROVE FALSE
        OBVIOUS
      <3>2. signed = UB!Content
        BY <1>1, <3>1 DEF BodyIInv, Prepared, Sending
      <3> QED BY <1>1, <1>2, <1>4, <3>2, NothingHeld, BodyFacts
    <2> QED BY <1>1, <2>1, <2>2, RefuseStep
  <1>5. CASE held = <<>> /\ length <= remaining
    <2>1. sent = yielded /\ Len(yielded) + remaining = Len(signed)
      BY <1>1, <1>5, NothingHeld
    <2>2. /\ yielded' = yielded \o next
          /\ IF length = remaining
             THEN held' = next /\ UNCHANGED <<sent, complete, remaining>>
             ELSE UB!Emit(next) /\ remaining' = remaining - length /\ UNCHANGED held
          /\ UNCHANGED <<at, result, finished>>
      <3>1. ~(held # <<>> \/ length > remaining)
        BY <1>2, <1>5, BodyFacts
      <3> QED BY <3>1 DEF UB!PollChunk, next
    <2>3. yielded \o next \in Seq(Byte) /\ Len(yielded \o next) = Len(yielded) + length
      BY <1>3, JoinedBytes DEF BodyIInv, UB!TypeOK
    <2>4. CASE length = remaining
      <3>1. held' = next /\ UNCHANGED <<sent, complete, remaining>>
        BY <2>2, <2>4
      <3>2. UB!TypeOK'
        BY <1>1, <1>3, <2>2, <2>3, <3>1 DEF BodyIInv, UB!TypeOK, UB!input, UB!prepared
      <3>3. Sending'
        BY <1>1, <1>3, <2>1, <2>2, <2>4, <3>1 DEF BodyIInv, Sending, UB!input, UB!prepared
      <3> QED BY <1>1, <2>2, <3>1, <3>2, <3>3
              DEF BodyIInv, Prepared, UB!Content, UB!BodiesAreSigned, UB!CompleteBodiesAreSigned,
                  UB!SizeHintIsExact, UB!OnlyStreamsAreRefused, Sending, UB!input, UB!prepared
    <2>5. CASE length # remaining
      <3>1. UB!Emit(next) /\ remaining' = remaining - length /\ UNCHANGED held
        BY <2>2, <2>5
      <3>2. sent' = yielded' /\ Len(sent') = Len(sent) + length
        BY <2>1, <2>2, <2>3, <3>1 DEF UB!Emit
      <3>3. remaining' \in Nat /\ remaining' > 0 /\ Len(sent') + remaining' = Len(signed)
        BY <1>2, <1>5, <2>1, <2>5, <3>1, <3>2, BodyFacts
      <3>4. complete' = complete
        <4>1. sent \o next = sent'
          BY <3>1 DEF UB!Emit
        <4>2. Len(sent \o next) # Len(signed)
          BY <2>3, <3>2, <3>3, <4>1, <2>1, <1>2, BodyFacts
        <4> QED BY <3>1, <4>2 DEF UB!Emit
      <3>5. UB!TypeOK'
        BY <1>1, <1>3, <2>2, <2>3, <3>1, <3>2, <3>3, <3>4, BodyFacts DEF BodyIInv, UB!TypeOK, UB!input, UB!prepared
      <3>6. Sending'
        <4>1. yielded' \in Seq(Byte) /\ held' = <<>>
          BY <1>5, <2>2, <2>3, <3>1
        <4>2. sent' \o held' = yielded'
          BY <3>2, <4>1, EmptyTail
        <4> QED BY <1>1, <2>2, <3>3, <4>1, <4>2 DEF BodyIInv, Sending, UB!input, UB!prepared
      <3> QED BY <1>1, <2>2, <3>4, <3>5, <3>6
              DEF BodyIInv, Prepared, UB!Content, UB!BodiesAreSigned, UB!CompleteBodiesAreSigned,
                  UB!SizeHintIsExact, UB!OnlyStreamsAreRefused, Sending, UB!input, UB!prepared
    <2> QED BY <2>4, <2>5
  <1> QED BY <1>2, <1>4, <1>5, BodyFacts

(* poll_frame at the end of the stream: only the signed bytes are released.  *)
LEMMA PollEndStep ==
    ASSUME UB!BodyAssumption, BodyIInv, UB!PollEnd
    PROVE  BodyIInv'
  <1>1. /\ at = "sending" /\ ~finished /\ yielded = UB!Content
        /\ UNCHANGED <<UB!input, UB!prepared, tries>>
    BY DEF UB!PollEnd
  <1>2. CASE (held # <<>> \/ remaining = 0) /\ yielded = signed
    <2>1. /\ UB!Emit(held) /\ held' = <<>> /\ remaining' = 0 /\ finished' = TRUE
          /\ UNCHANGED <<at, result, yielded>>
      BY <1>2 DEF UB!PollEnd
    <2>2. sent \o held = signed
      BY <1>1, <1>2 DEF BodyIInv, Sending
    <2>3. sent' = signed /\ complete' = complete \cup {signed}
      BY <2>1, <2>2 DEF UB!Emit
    <2>4. UB!TypeOK'
      BY <1>1, <2>1, <2>3, BodyFacts DEF BodyIInv, UB!TypeOK, UB!input, UB!prepared
    <2>5. Sending'
      BY <1>1, <2>1, <2>3, BodyFacts DEF BodyIInv, Sending, UB!input, UB!prepared
    <2> QED BY <1>1, <2>1, <2>3, <2>4, <2>5
            DEF BodyIInv, Prepared, UB!Content, UB!BodiesAreSigned, UB!CompleteBodiesAreSigned,
                UB!SizeHintIsExact, UB!OnlyStreamsAreRefused, Sending, UB!input, UB!prepared
  <1>3. CASE ~((held # <<>> \/ remaining = 0) /\ yielded = signed)
    <2>1. UB!Refuse /\ UNCHANGED yielded
      BY <1>3 DEF UB!PollEnd
    <2>2. kind = "stream"
      <3>1. SUFFICES ASSUME kind # "stream" PROVE FALSE
        OBVIOUS
      <3>2. signed = UB!Content
        BY <1>1, <3>1 DEF BodyIInv, Prepared, Sending
      <3>3. held = <<>> /\ remaining # 0
        BY <1>1, <1>3, <3>2
      <3> QED BY <1>1, <3>2, <3>3, NothingHeld, BodyFacts
    <2> QED BY <1>1, <2>1, <2>2, RefuseStep
  <1> QED BY <1>2, <1>3

(* The steps in which no attempt polls its body. *)
LEMMA OtherBodySteps ==
    ASSUME UB!BodyAssumption, BodyIInv,
           \/ \E bytes \in UB!Sources : UB!ChangeFile(bytes)
           \/ \E length \in 1..MaxChunk : UB!CopyChunk(length)
           \/ UB!PrepareFile \/ UB!PrepareOther \/ UB!PrepareFails
           \/ UB!request_body \/ UB!AttemptFails \/ UB!Succeed
    PROVE  BodyIInv'
  <1> USE DEF UB!input, UB!prepared, UB!body
  <1>1. CASE \E bytes \in UB!Sources : UB!ChangeFile(bytes)
    <2>1. PICK bytes \in UB!Sources : UB!ChangeFile(bytes)
      BY <1>1
    <2>2. bytes \in Seq(Byte)
      <3>1. \A n \in Nat : [1..n -> Byte] \subseteq Seq(Byte)
        OBVIOUS
      <3>2. UB!Sources \subseteq Seq(Byte)
        BY <3>1 DEF UB!Sources, UB!BodyAssumption
      <3> QED BY <3>2
    <2>3. UB!TypeOK'
      BY <2>1, <2>2 DEF BodyIInv, UB!TypeOK, UB!ChangeFile, UB!BodyAssumption
    <2> QED BY <2>1, <2>3 DEF BodyIInv, UB!ChangeFile, Prepared, Sending, UB!Content, UB!BodiesAreSigned,
                UB!CompleteBodiesAreSigned, UB!SizeHintIsExact, UB!OnlyStreamsAreRefused
  <1>2. CASE \E length \in 1..MaxChunk : UB!CopyChunk(length)
    <2>1. PICK length \in 1..MaxChunk : UB!CopyChunk(length)
      BY <1>2
    <2>2. copied' \in Seq(Byte)
      <3>1. length \in Nat /\ Len(copied) \in Nat /\ source \in Seq(Byte) /\ copied \in Seq(Byte)
        BY DEF UB!BodyAssumption, BodyIInv, UB!TypeOK
      <3>2. SubSeq(source, Len(copied) + 1, Len(copied) + length) \in Seq(Byte)
        BY <2>1, <3>1, Slice DEF UB!CopyChunk
      <3> QED BY <2>1, <3>1, <3>2 DEF UB!CopyChunk
    <2>3. UB!TypeOK'
      BY <2>1, <2>2 DEF BodyIInv, UB!TypeOK, UB!CopyChunk
    <2> QED BY <2>1, <2>3 DEF BodyIInv, UB!CopyChunk, Prepared, Sending, UB!BodiesAreSigned,
                UB!CompleteBodiesAreSigned, UB!SizeHintIsExact, UB!OnlyStreamsAreRefused
  <1>3. CASE UB!PrepareFile \/ UB!PrepareOther
    <2>1. /\ at = "prepare" /\ at' = "ready" /\ signed' \in Seq(Byte)
          /\ kind # "stream" => signed' = UB!Content
          /\ UNCHANGED <<UB!input, copied, tries, UB!body, result, complete>>
      BY <1>3 DEF UB!PrepareFile, UB!PrepareOther, BodyIInv, UB!TypeOK, UB!Content
    <2>2. complete = {} /\ remaining = 0 /\ result = "none"
      BY <2>1 DEF BodyIInv, Prepared
    <2>3. UB!TypeOK'
      <3>1. 0 \in 0..Len(signed')
        BY <2>1
      <3> QED BY <2>1, <2>2, <3>1 DEF BodyIInv, UB!TypeOK
    <2> QED BY <2>1, <2>2, <2>3 DEF BodyIInv, Prepared, Sending, UB!Content, UB!BodiesAreSigned,
                UB!CompleteBodiesAreSigned, UB!SizeHintIsExact, UB!OnlyStreamsAreRefused
  <1>4. CASE UB!PrepareFails
    <2>1. UB!TypeOK'
      BY <1>4 DEF BodyIInv, UB!TypeOK, UB!PrepareFails
    <2> QED BY <1>4, <2>1 DEF BodyIInv, UB!PrepareFails, Prepared, Sending, UB!Content, UB!BodiesAreSigned,
                UB!CompleteBodiesAreSigned, UB!SizeHintIsExact, UB!OnlyStreamsAreRefused
  <1>5. CASE UB!request_body
    <2>1. <<>> \in Seq(Byte) /\ Len(<<>>) = 0 /\ <<>> \o <<>> = <<>>
      OBVIOUS
    <2>2. /\ at = "ready" /\ at' = "sending" /\ tries' \in 0..MaxAttempts
          /\ yielded' = <<>> /\ remaining' = Len(signed) /\ held' = <<>>
          /\ sent' = <<>> /\ finished' = FALSE
          /\ UNCHANGED <<UB!input, UB!prepared, result, complete>>
      BY <1>5 DEF UB!request_body, BodyIInv, UB!TypeOK, UB!BodyAssumption
    <2>3. Len(signed) \in 0..Len(signed')
      BY <2>2, BodyFacts
    <2>4. UB!TypeOK'
      BY <2>1, <2>2, <2>3 DEF BodyIInv, UB!TypeOK
    <2>5. Sending'
      BY <2>1, <2>2, BodyFacts DEF BodyIInv, Sending, Prepared
    <2> QED BY <2>2, <2>4, <2>5 DEF BodyIInv, Prepared, Sending, UB!Content, UB!BodiesAreSigned,
                UB!CompleteBodiesAreSigned, UB!SizeHintIsExact, UB!OnlyStreamsAreRefused
  <1>6. CASE UB!AttemptFails \/ UB!Succeed
    <2>1. /\ at = "sending" /\ at' \in {"ready", "done"}
          /\ at' = "ready" => result' = result
          /\ result' \in {"none", "ok", "failed"}
          /\ UNCHANGED <<UB!input, UB!prepared, tries, UB!body, complete>>
      BY <1>6 DEF UB!AttemptFails, UB!Succeed, BodyIInv, UB!TypeOK, Prepared
    <2>2. UB!TypeOK'
      BY <2>1 DEF BodyIInv, UB!TypeOK
    <2> QED BY <2>1, <2>2 DEF BodyIInv, Prepared, Sending, UB!Content, UB!BodiesAreSigned,
                UB!CompleteBodiesAreSigned, UB!SizeHintIsExact, UB!OnlyStreamsAreRefused
  <1> QED BY <1>1, <1>2, <1>3, <1>4, <1>5, <1>6

LEMMA NextBody ==
    ASSUME UB!BodyAssumption, BodyIInv, [UB!Next]_UB!vars
    PROVE  BodyIInv'
  <1>1. CASE \E length \in 1..MaxChunk : UB!PollChunk(length)
    BY <1>1, PollChunkStep
  <1>2. CASE UB!PollEnd
    BY <1>2, PollEndStep
  <1>3. CASE UNCHANGED UB!vars
    BY <1>3 DEF UB!vars, UB!input, UB!prepared, UB!body, BodyIInv, UB!TypeOK, Prepared, Sending, UB!Content, UB!BodiesAreSigned,
                UB!CompleteBodiesAreSigned, UB!SizeHintIsExact, UB!OnlyStreamsAreRefused
  <1> QED BY <1>1, <1>2, <1>3, OtherBodySteps DEF UB!Next

-------------------------------------------------------------------------------
(* The variables of UploadBody keep their types; remaining never underflows. *)
THEOREM BodyTypes == UB!Spec => []UB!TypeOK
  <1>1. BodyIInv => UB!TypeOK
    BY DEF BodyIInv
  <1>2. UB!Init => BodyIInv
    BY InitBody, PartsAssumption
  <1>3. BodyIInv /\ [UB!Next]_UB!vars => BodyIInv'
    BY NextBody, PartsAssumption
  <1> QED BY <1>1, <1>2, <1>3, PTL DEF UB!Spec

-------------------------------------------------------------------------------
(* Checksums: words and loops. *)

LEMMA LeastNumber ==
    ASSUME NEW T \in SUBSET Nat, T # {}
    PROVE  \E n \in T : \A m \in T : n <= m
<1>1. \E n \in T : \A m \in T : ~(<<m, n>> \in OpToRel(<, Nat))
  BY NatLessThanWellFounded, WFMin, Zenon
<1>2. OpToRel(<, Nat) = {ss \in Nat \X Nat : ss[1] < ss[2]}
  BY Zenon DEF OpToRel
<1>3. \E n \in T : \A m \in T : <<m, n>> \notin {ss \in Nat \X Nat : ss[1] < ss[2]}
  BY <1>1, <1>2, Zenon
<1>4. \A n, m \in T : <<m, n>> \notin {ss \in Nat \X Nat : ss[1] < ss[2]} => n <= m
  OBVIOUS
<1>5. QED
  BY <1>3, <1>4, Zenon

LEMMA NumbersByStep ==
    ASSUME NEW X, 0 \in X, \A n \in Nat : n \in X => n + 1 \in X
    PROVE  Nat \subseteq X
<1> DEFINE T == Nat \ X
<1>1. SUFFICES ASSUME T # {} PROVE FALSE
  OBVIOUS
<1>2. PICK n \in T : \A m \in T : n <= m
  BY <1>1, LeastNumber
<1>3. n # 0 /\ n - 1 \in Nat /\ n - 1 \in X
  BY <1>2
<1>4. QED
  BY <1>2, <1>3

(* The values of a loop, one for each number of rounds. *)
Rounds(f, start, step, n) == f[0] = start /\ \A k \in 1..n : f[k] = step[<<f[k - 1], k>>]

LEMMA RoundsExist ==
    ASSUME NEW T, NEW start \in T, NEW n \in Nat, NEW step \in [T \X (1..n) -> T]
    PROVE  \E f \in [0..n -> T] : Rounds(f, start, step, n)
<1> DEFINE Eq(f, m) == f[0] = start /\ \A k \in 1..m : f[k] = step[<<f[k - 1], k>>]
           X == {m \in Nat : m <= n => \E f \in [0..m -> T] : Eq(f, m)}
<1>1. 0 \in X
  <2> DEFINE e == [i \in 0..0 |-> start]
  <2>1. e \in [0..0 -> T] /\ Eq(e, 0)
    OBVIOUS
  <2>2. QED
    BY <2>1
<1>2. ASSUME NEW m \in Nat, m \in X PROVE m + 1 \in X
  <2>1. SUFFICES ASSUME m + 1 <= n PROVE \E f \in [0..(m + 1) -> T] : Eq(f, m + 1)
    <3> HIDE DEF Eq
    <3> QED OBVIOUS
  <2>2. PICK f \in [0..m -> T] : Eq(f, m)
    BY <1>2, <2>1
  <2> DEFINE next == step[<<f[m], m + 1>>]
             g == [i \in 0..(m + 1) |-> IF i <= m THEN f[i] ELSE next]
  <2>3. f[m] \in T /\ m + 1 \in 1..n
    BY <2>1
  <2>4. next \in T
    BY <2>3
  <2> HIDE DEF next
  <2>5. g \in [0..(m + 1) -> T] /\ g[m + 1] = next /\ \A i \in 0..m : g[i] = f[i]
    BY <2>4
  <2> HIDE DEF g
  <2>6. Eq(g, m + 1)
    <3>1. g[0] = start
      BY <2>2, <2>5
    <3>2. ASSUME NEW k \in 1..(m + 1) PROVE g[k] = step[<<g[k - 1], k>>]
      <4>1. CASE k = m + 1
        <5>1. k - 1 = m /\ m \in 0..m
          BY <4>1
        <5>2. QED
          BY <2>5, <4>1, <5>1, Zenon DEF next
      <4>2. CASE k # m + 1
        <5>1. k \in 1..m /\ k \in 0..m /\ k - 1 \in 0..m
          BY <4>2
        <5>2. g[k] = f[k] /\ g[k - 1] = f[k - 1]
          BY <2>5, <5>1, Zenon
        <5>3. QED
          BY <2>2, <5>1, <5>2, Zenon
      <4>3. QED
        BY <4>1, <4>2
    <3>3. QED
      BY <3>1, <3>2, Zenon
  <2> HIDE DEF Eq
  <2>7. QED
    BY <2>5, <2>6, Zenon
<1>3. Nat \subseteq X
  <2> HIDE DEF X
  <2> QED BY <1>1, <1>2, NumbersByStep
<1>4. PICK f \in [0..n -> T] : Eq(f, n)
  <2> HIDE DEF Eq
  <2>1. QED
    BY <1>3
<1>5. QED
  BY <1>4, Zenon DEF Rounds

LEMMA InXor ==
    ASSUME NEW v, NEW w, NEW x
    PROVE  x \in CK!Xor(v, w) <=> ((x \in v /\ x \notin w) \/ (x \notin v /\ x \in w))
BY DEF CK!Xor

LEMMA InShr ==
    ASSUME NEW w \in SUBSET Nat, NEW n \in Nat
    PROVE  CK!Shr(w, n) \in SUBSET Nat /\ \A x \in Int : x \in CK!Shr(w, n) <=> (x + n \in w /\ x >= 0)
<1>1. \A j \in w : j \in Nat
  OBVIOUS
<1>2. CK!Shr(w, n) \in SUBSET Nat
  BY <1>1 DEF CK!Shr
<1>3. ASSUME NEW x \in Int, x + n \in w, x >= 0 PROVE x \in CK!Shr(w, n)
  <2>1. x = (x + n) - n /\ x + n >= n
    BY <1>3
  <2>2. QED
    BY <1>3, <2>1 DEF CK!Shr
<1>4. ASSUME NEW x \in Int, x \in CK!Shr(w, n) PROVE x + n \in w /\ x >= 0
  <2>1. PICK i \in w : i >= n /\ x = i - n
    BY <1>4 DEF CK!Shr
  <2>2. x + n = i
    BY <1>1, <2>1
  <2>3. QED
    BY <1>1, <2>1, <2>2
<1>5. QED
  BY <1>2, <1>3, <1>4

LEMMA SameWords ==
    ASSUME NEW T, NEW v \in SUBSET T, NEW w \in SUBSET T, \A x \in T : x \in v <=> x \in w
    PROVE  v = w
OBVIOUS

LEMMA XorType ==
    ASSUME NEW T, NEW v \in SUBSET T, NEW w \in SUBSET T
    PROVE  CK!Xor(v, w) \in SUBSET T
BY DEF CK!Xor

LEMMA ShiftOutType ==
    ASSUME NEW P \in SUBSET Nat, NEW w \in SUBSET Nat
    PROVE  CK!ShiftOut(P, w) \in SUBSET Nat
<1>1. CK!Shr(w, 1) \in SUBSET Nat
  BY InShr
<1>2. CK!Xor(CK!Shr(w, 1), P) \in SUBSET Nat
  BY <1>1, XorType
<1>3. QED
  BY <1>1, <1>2, Zenon DEF CK!ShiftOut

(* The eight rounds of one entry of a table. *)
LEMMA TableRounds ==
    ASSUME NEW P \in SUBSET Nat, NEW index \in SUBSET Nat
    PROVE  \E e \in [0..8 -> SUBSET Nat] :
              /\ e[0] = index /\ e[8] = CK!TableEntry(P, index)
              /\ \A k \in 1..8 : e[k] = CK!ShiftOut(P, e[k - 1])
<1> DEFINE T == SUBSET Nat
           step == [p \in T \X (1..8) |-> CK!ShiftOut(P, p[1])]
           Body(h, k) == IF k = 0 THEN index ELSE CK!ShiftOut(P, h[k - 1])
           Eq(h) == h = [k \in 0..8 |-> Body(h, k)]
           g == CHOOSE h : Eq(h)
<1>1. step \in [T \X (1..8) -> T]
  <2>1. \A p \in T \X (1..8) : p[1] \in T
    OBVIOUS
  <2>2. \A p \in T \X (1..8) : CK!ShiftOut(P, p[1]) \in T
    BY <2>1, ShiftOutType
  <2>3. QED
    BY <2>2
<1>2. \A w \in T, k \in 1..8 : step[<<w, k>>] = CK!ShiftOut(P, w)
  OBVIOUS
<1> HIDE DEF step, T
<1>3. index \in T
  BY DEF T
<1>4. PICK f \in [0..8 -> T] : Rounds(f, index, step, 8)
  <2>1. PICK n \in Nat : n = 8
    OBVIOUS
  <2>2. step \in [T \X (1..n) -> T]
    BY <1>1, <2>1, Zenon
  <2>3. \E f \in [0..n -> T] : Rounds(f, index, step, n)
    BY <1>3, <2>2, RoundsExist, Zenon
  <2>4. QED
    BY <2>1, <2>3, Zenon
<1>5. ASSUME NEW k \in 0..8 PROVE f[k] = Body(f, k)
  <2>1. CASE k = 0
    BY <1>4, <2>1, Zenon DEF Rounds
  <2>2. CASE k # 0
    <3>1. k \in 1..8 /\ k - 1 \in 0..8
      BY <2>2
    <3>2. f[k - 1] \in T
      BY <3>1
    <3>3. QED
      BY <1>2, <1>4, <2>2, <3>1, <3>2, Zenon DEF Rounds
  <2>3. QED
    BY <2>1, <2>2
<1>6. Eq(f)
  <2> HIDE DEF Body
  <2>1. f = [k \in 0..8 |-> f[k]]
    OBVIOUS
  <2>2. [k \in 0..8 |-> f[k]] = [k \in 0..8 |-> Body(f, k)]
    BY <1>5, Zenon
  <2>3. QED
    BY <2>1, <2>2, Zenon
<1>7. Eq(g)
  <2> HIDE DEF Eq
  <2> QED BY <1>6, Zenon
<1>8. CK!TableEntry(P, index) = g[8]
  BY Zenon DEF CK!TableEntry
<1> HIDE DEF g
<1>9. DOMAIN g = 0..8 /\ g[0] = index /\ \A k \in 1..8 : g[k] = CK!ShiftOut(P, g[k - 1])
  BY <1>7
<1>10. ASSUME NEW k \in 0..8 PROVE g[k] \in T
  <2> DEFINE X == {m \in Nat : m <= 8 => g[m] \in T}
  <2>1. 0 \in X
    BY <1>3, <1>9
  <2>2. ASSUME NEW m \in Nat, m \in X PROVE m + 1 \in X
    <3>1. SUFFICES ASSUME m + 1 <= 8 PROVE g[m + 1] \in T
      OBVIOUS
    <3>2. m + 1 \in 1..8 /\ (m + 1) - 1 = m /\ g[m] \in T
      BY <2>2, <3>1
    <3>3. g[m + 1] = CK!ShiftOut(P, g[m])
      BY <1>9, <3>2
    <3>4. QED
      BY <3>2, <3>3, ShiftOutType DEF T
  <2>3. Nat \subseteq X
    <3> HIDE DEF X
    <3> QED BY <2>1, <2>2, NumbersByStep
  <2>4. QED
    BY <2>3
<1>11. g \in [0..8 -> T]
  BY <1>7, <1>10
<1>12. QED
  BY <1>8, <1>9, <1>11 DEF T


(* A word is taken through eight rounds with the byte that enters it. *)
LEMMA ByteRounds ==
    ASSUME NEW P \in SUBSET Nat, NEW w \in SUBSET Nat, NEW byte \in SUBSET (0..7)
    PROVE  \E u \in [0..8 -> SUBSET Nat] :
              /\ u[0] = CK!Xor(w, byte) /\ u[8] = CK!TakeByte(P, w, byte)
              /\ \A k \in 1..8 : u[k] = CK!ShiftOut(P, u[k - 1])
<1> DEFINE low == CK!Xor(w \cap 0..7, byte)
           high == w \ (0..7)
<1>1. low \in SUBSET Nat /\ high \in SUBSET Nat
  <2>1. w \cap 0..7 \in SUBSET Nat /\ byte \in SUBSET Nat
    OBVIOUS
  <2>2. QED
    BY <2>1, XorType
<1>2. PICK e \in [0..8 -> SUBSET Nat] :
              /\ e[0] = low /\ e[8] = CK!TableEntry(P, low)
              /\ \A k \in 1..8 : e[k] = CK!ShiftOut(P, e[k - 1])
  <2> HIDE DEF low
  <2> QED BY <1>1, TableRounds
<1> DEFINE Both(k) == CK!Xor(e[k], CK!Shr(high, k))
           u == [k \in 0..8 |-> Both(k)]
<1>3. ASSUME NEW k \in 0..8
      PROVE  /\ e[k] \in SUBSET Nat /\ CK!Shr(high, k) \in SUBSET Nat /\ Both(k) \in SUBSET Nat
             /\ \A x \in Nat : x \in CK!Shr(high, k) <=> x + k \in high
  <2> HIDE DEF high
  <2>1. e[k] \in SUBSET Nat /\ k \in Nat
    OBVIOUS
  <2>2. CK!Shr(high, k) \in SUBSET Nat /\ \A x \in Int : x \in CK!Shr(high, k) <=> (x + k \in high /\ x >= 0)
    BY <1>1, <2>1, InShr
  <2>3. Both(k) \in SUBSET Nat
    BY <2>1, <2>2, XorType
  <2>4. QED
    BY <2>1, <2>2, <2>3
<1>4. u \in [0..8 -> SUBSET Nat]
  <2> HIDE DEF Both
  <2> QED BY <1>3
<1>5. Both(0) = CK!Xor(w, byte)
  <2>1. ASSUME NEW x \in Nat PROVE x \in Both(0) <=> x \in CK!Xor(w, byte)
    <3>1. x \in CK!Shr(high, 0) <=> x \in high
      <4>1. 0 \in 0..8 /\ x + 0 = x
        OBVIOUS
      <4> HIDE DEF Both, high
      <4>2. QED
        BY <1>3, <4>1, Zenon
    <3>2. x \in e[0] <=> x \in CK!Xor(w \cap 0..7, byte)
      BY <1>2
    <3>3. QED
      BY <3>1, <3>2, InXor
  <2>2. CK!Xor(w, byte) \in SUBSET Nat
    <3>1. byte \in SUBSET Nat
      OBVIOUS
    <3>2. QED
      BY <3>1, XorType
  <2>3. Both(0) \in SUBSET Nat
    <3> HIDE DEF Both, high
    <3>1. 0 \in 0..8
      OBVIOUS
    <3>2. QED
      BY <1>3, <3>1, Zenon
  <2> HIDE DEF Both
  <2>4. QED
    BY <2>1, <2>2, <2>3
<1>6. Both(8) = CK!TakeByte(P, w, byte)
  <2>1. CK!Shr(high, 8) = CK!Shr(w, 8)
    <3>1. CK!Shr(w, 8) \in SUBSET Nat /\ \A x \in Int : x \in CK!Shr(w, 8) <=> (x + 8 \in w /\ x >= 0)
      BY InShr
    <3>2. \A x \in Nat : x + 8 \in high <=> x + 8 \in w
      OBVIOUS
    <3> HIDE DEF high
    <3>3. CK!Shr(high, 8) \in SUBSET Nat /\ \A x \in Nat : x \in CK!Shr(high, 8) <=> x + 8 \in high
      BY <1>3
    <3>4. \A x \in Nat : x \in Int /\ x >= 0
      OBVIOUS
    <3>5. \A x \in Nat : x \in CK!Shr(high, 8) <=> x \in CK!Shr(w, 8)
      BY <3>1, <3>2, <3>3, <3>4, Zenon
    <3>6. QED
      BY <3>1, <3>3, <3>5, SameWords, Zenon
  <2>2. QED
    BY <1>2, <2>1, Zenon DEF CK!TakeByte
<1>7. ASSUME NEW k \in 1..8 PROVE Both(k) = CK!ShiftOut(P, Both(k - 1))
  <2> DEFINE d == e[k - 1]
             h == CK!Shr(high, k - 1)
             b == Both(k - 1)
  <2>1. k - 1 \in 0..8 /\ k \in 0..8
    OBVIOUS
  <2>2. d \in SUBSET Nat /\ h \in SUBSET Nat /\ b \in SUBSET Nat
        /\ \A x \in Nat : x \in h <=> x + (k - 1) \in high
    BY <1>3, <2>1
  <2>3. /\ Both(k) \in SUBSET Nat
        /\ \A x \in Nat : x \in CK!Shr(high, k) <=> x + k \in high
    BY <1>3, <2>1
  <2>4. \A x \in Nat : x \in b <=> ((x \in d /\ x \notin h) \/ (x \notin d /\ x \in h))
    BY InXor
  <2>5. 0 \notin h
    <3>1. 0 \in Nat /\ 0 + (k - 1) \notin high
      OBVIOUS
    <3> HIDE DEF h, high
    <3>2. QED
      BY <2>2, <3>1, Zenon
  <2>6. e[k] = CK!ShiftOut(P, d)
    BY <1>2
  <2>7. \A x \in Nat : x \in Both(k) <=> ((x \in e[k] /\ x + k \notin high) \/ (x \notin e[k] /\ x + k \in high))
    <3>1. \A x : x \in Both(k) <=> ((x \in e[k] /\ x \notin CK!Shr(high, k)) \/ (x \notin e[k] /\ x \in CK!Shr(high, k)))
      BY InXor
    <3> HIDE DEF Both, high
    <3>2. QED
      BY <2>3, <3>1, Zenon
  <2>8. \A x \in Nat : x + 1 \in h <=> x + k \in high
    <3>1. \A x \in Nat : x + 1 \in Nat /\ (x + 1) + (k - 1) = x + k
      OBVIOUS
    <3> HIDE DEF h, high
    <3>2. QED
      BY <2>2, <3>1
  <2> HIDE DEF d, h, b, Both, high
  <2>9. /\ CK!Shr(d, 1) \in SUBSET Nat /\ \A x \in Int : x \in CK!Shr(d, 1) <=> (x + 1 \in d /\ x >= 0)
        /\ CK!Shr(b, 1) \in SUBSET Nat /\ \A x \in Int : x \in CK!Shr(b, 1) <=> (x + 1 \in b /\ x >= 0)
    BY <2>2, InShr
  <2>10. 0 \in b <=> 0 \in d
    BY <2>4, <2>5
  <2>11. \A x \in Nat : x \in CK!Shr(b, 1) <=> ((x \in CK!Shr(d, 1) /\ x + k \notin high) \/ (x \notin CK!Shr(d, 1) /\ x + k \in high))
    <3>1. \A x \in Nat : x + 1 \in Nat /\ x \in Int /\ x >= 0
      OBVIOUS
    <3>2. \A x \in Nat : (x \in CK!Shr(b, 1) <=> x + 1 \in b) /\ (x \in CK!Shr(d, 1) <=> x + 1 \in d)
      BY <2>9, <3>1, Zenon
    <3>3. QED
      BY <2>4, <2>8, <3>1, <3>2, Zenon
  <2>12. CASE 0 \in d
    <3>1. e[k] = CK!Xor(CK!Shr(d, 1), P) /\ CK!ShiftOut(P, b) = CK!Xor(CK!Shr(b, 1), P)
      BY <2>6, <2>10, <2>12, Zenon DEF CK!ShiftOut
    <3>2. CK!Xor(CK!Shr(b, 1), P) \in SUBSET Nat
      BY <2>9, XorType
    <3>3. \A x \in Nat : x \in Both(k) <=> x \in CK!Xor(CK!Shr(b, 1), P)
      BY <2>7, <2>11, <3>1, InXor
    <3>4. Both(k) = CK!Xor(CK!Shr(b, 1), P)
      BY <2>3, <3>2, <3>3, SameWords, Zenon
    <3>5. QED
      BY <3>1, <3>4, Zenon DEF b
  <2>13. CASE 0 \notin d
    <3>1. e[k] = CK!Shr(d, 1) /\ CK!ShiftOut(P, b) = CK!Shr(b, 1)
      BY <2>6, <2>10, <2>13, Zenon DEF CK!ShiftOut
    <3>2. \A x \in Nat : x \in Both(k) <=> x \in CK!Shr(b, 1)
      BY <2>7, <2>11, <3>1
    <3>3. Both(k) = CK!Shr(b, 1)
      BY <2>3, <2>9, <3>2, SameWords, Zenon
    <3>4. QED
      BY <3>1, <3>3, Zenon DEF b
  <2>14. QED
    BY <2>12, <2>13, Zenon DEF b
<1>8. u[0] = CK!Xor(w, byte) /\ u[8] = CK!TakeByte(P, w, byte)
  BY <1>5, <1>6
<1>9. \A k \in 1..8 : u[k] = CK!ShiftOut(P, u[k - 1])
  <2> HIDE DEF Both
  <2>1. \A k \in 1..8 : k \in 0..8 /\ k - 1 \in 0..8
    OBVIOUS
  <2>2. \A k \in 0..8 : u[k] = Both(k)
    OBVIOUS
  <2> HIDE DEF u
  <2>3. QED
    BY <1>7, <2>1, <2>2, Zenon
<1>10. QED
  BY <1>4, <1>8, <1>9, Zenon

LEMMA TakeByteType ==
    ASSUME NEW P \in SUBSET Nat, NEW w \in SUBSET Nat, NEW byte \in SUBSET (0..7)
    PROVE  CK!TakeByte(P, w, byte) \in SUBSET Nat
<1>1. PICK u \in [0..8 -> SUBSET Nat] : u[8] = CK!TakeByte(P, w, byte)
  BY ByteRounds
<1>2. u[8] \in SUBSET Nat
  OBVIOUS
<1>3. QED
  BY <1>1, <1>2, Zenon

(* The rounds of update_crc_state, one for each byte. *)
LEMMA StateRounds ==
    ASSUME NEW P \in SUBSET Nat, NEW word \in SUBSET Nat, NEW bytes \in Seq(SUBSET (0..7))
    PROVE  \E s \in [0..Len(bytes) -> SUBSET Nat] :
              /\ s[0] = word /\ s[Len(bytes)] = CK!update_crc_state(P, word, bytes)
              /\ \A k \in 1..Len(bytes) : s[k] = CK!TakeByte(P, s[k - 1], bytes[k])
<1> DEFINE n == Len(bytes)
           T == SUBSET Nat
           step == [p \in T \X (1..n) |-> CK!TakeByte(P, p[1], bytes[p[2]])]
           Body(h, k) == IF k = 0 THEN word ELSE CK!TakeByte(P, h[k - 1], bytes[k])
           Eq(h) == h = [k \in 0..n |-> Body(h, k)]
           g == CHOOSE h : Eq(h)
<1>0. n \in Nat /\ \A k \in 1..n : bytes[k] \in SUBSET (0..7)
  OBVIOUS
<1>1. step \in [T \X (1..n) -> T]
  <2>1. \A p \in T \X (1..n) : p[1] \in T /\ p[2] \in 1..n
    OBVIOUS
  <2>2. \A w \in T, k \in 1..n : CK!TakeByte(P, w, bytes[k]) \in T
    BY <1>0, TakeByteType
  <2> HIDE DEF T, n
  <2>3. \A p \in T \X (1..n) : CK!TakeByte(P, p[1], bytes[p[2]]) \in T
    BY <2>1, <2>2, Zenon
  <2>4. QED
    BY <2>3
<1>2. \A w \in T, k \in 1..n : step[<<w, k>>] = CK!TakeByte(P, w, bytes[k])
  <2> HIDE DEF n, T
  <2> QED OBVIOUS
<1>3. word \in T
  OBVIOUS
<1>4. CK!update_crc_state(P, word, bytes) = g[n]
  BY Zenon DEF CK!update_crc_state
<1> HIDE DEF step, T, n
<1>5. PICK f \in [0..n -> T] : Rounds(f, word, step, n)
  BY <1>0, <1>1, <1>3, RoundsExist, Zenon
<1>6. ASSUME NEW k \in 0..n PROVE f[k] = Body(f, k)
  <2>1. CASE k = 0
    BY <1>5, <2>1, Zenon DEF Rounds
  <2>2. CASE k # 0
    <3>1. k \in 1..n /\ k - 1 \in 0..n
      BY <1>0, <2>2
    <3>2. f[k - 1] \in T
      BY <3>1
    <3>3. QED
      BY <1>2, <1>5, <2>2, <3>1, <3>2, Zenon DEF Rounds
  <2>3. QED
    BY <2>1, <2>2
<1>7. Eq(f)
  <2> HIDE DEF Body
  <2>1. f = [k \in 0..n |-> f[k]]
    OBVIOUS
  <2>2. [k \in 0..n |-> f[k]] = [k \in 0..n |-> Body(f, k)]
    BY <1>6, Zenon
  <2>3. QED
    BY <2>1, <2>2, Zenon
<1>8. Eq(g)
  <2> HIDE DEF Eq
  <2> QED BY <1>7, Zenon
<1> HIDE DEF g
<1>9. DOMAIN g = 0..n /\ g[0] = word /\ \A k \in 1..n : g[k] = CK!TakeByte(P, g[k - 1], bytes[k])
  BY <1>0, <1>8
<1>10. ASSUME NEW k \in 0..n PROVE g[k] \in T
  <2> DEFINE X == {m \in Nat : m <= n => g[m] \in T}
  <2>1. 0 \in X
    BY <1>3, <1>9
  <2>2. ASSUME NEW m \in Nat, m \in X PROVE m + 1 \in X
    <3>1. SUFFICES ASSUME m + 1 <= n PROVE g[m + 1] \in T
      OBVIOUS
    <3>2. m + 1 \in 1..n /\ (m + 1) - 1 = m /\ g[m] \in T
      BY <1>0, <2>2, <3>1
    <3>3. g[m + 1] = CK!TakeByte(P, g[m], bytes[m + 1]) /\ bytes[m + 1] \in SUBSET (0..7)
      BY <1>0, <1>9, <3>2, Zenon
    <3>4. QED
      BY <3>2, <3>3, TakeByteType DEF T
  <2>3. Nat \subseteq X
    <3> HIDE DEF X
    <3> QED BY <2>1, <2>2, NumbersByStep
  <2>4. QED
    BY <1>0, <2>3
<1>11. g \in [0..n -> T]
  BY <1>8, <1>10
<1>12. QED
  BY <1>4, <1>9, <1>11 DEF T, n

LEMMA InProduct ==
    ASSUME NEW G \in SUBSET Nat, NEW W \in Nat, NEW d \in Int
    PROVE  /\ {e + d - W : e \in G \cup {W}} \in SUBSET Int
           /\ \A x \in Int : x \in {e + d - W : e \in G \cup {W}} <=> ((x - d) + W \in G \/ x = d)
<1>1. \A e \in G \cup {W} : e \in Nat
  OBVIOUS
<1>2. ASSUME NEW x \in Int, x \in {e + d - W : e \in G \cup {W}} PROVE (x - d) + W \in G \/ x = d
  <2>1. PICK e \in G \cup {W} : x = e + d - W
    BY <1>2
  <2>2. (x - d) + W = e
    BY <1>1, <2>1
  <2>3. QED
    BY <2>1, <2>2
<1>3. ASSUME NEW x \in Int, (x - d) + W \in G \/ x = d PROVE x \in {e + d - W : e \in G \cup {W}}
  <2>1. x = ((x - d) + W) + d - W /\ (x = d => (x - d) + W = W)
    OBVIOUS
  <2>2. QED
    BY <1>3, <2>1
<1>4. {e + d - W : e \in G \cup {W}} \in SUBSET Int
  BY <1>1
<1>5. QED
  BY <1>2, <1>3, <1>4

LEMMA ReducedType ==
    ASSUME NEW G \in SUBSET Nat, NEW W \in Nat, NEW d \in Int, NEW p \in SUBSET Int
    PROVE  CK!Reduced(p, G, W, d) \in SUBSET Int
<1>1. {e + d - W : e \in G \cup {W}} \in SUBSET Int
  BY InProduct
<1> DEFINE q == {e + d - W : e \in G \cup {W}}
<1>2. CK!Reduced(p, G, W, d) = IF d \in p THEN CK!Xor(p, q) ELSE p
  BY Zenon DEF CK!Reduced
<1>3. CK!Xor(p, q) \in SUBSET Int
  <2>1. q \in SUBSET Int
    BY <1>1
  <2> HIDE DEF q
  <2>2. QED
    BY <2>1, XorType
<1> HIDE DEF q
<1>4. QED
  BY <1>2, <1>3, Zenon

(* The long division, with the rest after each step. *)
Division(p, G, W, n) ==
    CHOOSE h : h = [k \in 0..n |-> IF k = 0 THEN p ELSE CK!Reduced(h[k - 1], G, W, W + n - k)]

IsDivision(f, G, W, n) == \A k \in 1..n : f[k] = CK!Reduced(f[k - 1], G, W, W + n - k)

LEMMA DivisionRounds ==
    ASSUME NEW G \in SUBSET Nat, NEW W \in Nat, NEW n \in Nat, NEW p \in SUBSET Int
    PROVE  /\ CK!Remainder(p, G, W, n) = Division(p, G, W, n)[n]
           /\ Division(p, G, W, n)[0] = p
           /\ IsDivision(Division(p, G, W, n), G, W, n)
<1> DEFINE T == SUBSET Int
           step == [q \in T \X (1..n) |-> CK!Reduced(q[1], G, W, W + n - q[2])]
           Body(h, k) == IF k = 0 THEN p ELSE CK!Reduced(h[k - 1], G, W, W + n - k)
           Eq(h) == h = [k \in 0..n |-> Body(h, k)]
           g == CHOOSE h : Eq(h)
<1>1. step \in [T \X (1..n) -> T]
  <2>1. \A q \in T \X (1..n) : q[1] \in T /\ q[2] \in 1..n
    OBVIOUS
  <2>2. \A w \in T, k \in 1..n : CK!Reduced(w, G, W, W + n - k) \in T
    <3>1. \A k \in 1..n : W + n - k \in Int
      OBVIOUS
    <3>2. QED
      BY <3>1, ReducedType
  <2> HIDE DEF T
  <2>3. \A q \in T \X (1..n) : CK!Reduced(q[1], G, W, W + n - q[2]) \in T
    BY <2>1, <2>2, Zenon
  <2>4. QED
    BY <2>3
<1>2. \A w \in T, k \in 1..n : step[<<w, k>>] = CK!Reduced(w, G, W, W + n - k)
  <2> HIDE DEF T
  <2> QED OBVIOUS
<1>3. p \in T
  OBVIOUS
<1>4. CK!Remainder(p, G, W, n) = g[n] /\ Division(p, G, W, n) = g
  BY Zenon DEF CK!Remainder, Division
<1> HIDE DEF step, T
<1>5. PICK f \in [0..n -> T] : Rounds(f, p, step, n)
  BY <1>1, <1>3, RoundsExist, Zenon
<1>6. ASSUME NEW k \in 0..n PROVE f[k] = Body(f, k)
  <2>1. CASE k = 0
    BY <1>5, <2>1, Zenon DEF Rounds
  <2>2. CASE k # 0
    <3>1. k \in 1..n /\ k - 1 \in 0..n
      BY <2>2
    <3>2. f[k - 1] \in T
      BY <3>1
    <3>3. QED
      BY <1>2, <1>5, <2>2, <3>1, <3>2, Zenon DEF Rounds
  <2>3. QED
    BY <2>1, <2>2
<1>7. Eq(f)
  <2> HIDE DEF Body
  <2>1. f = [k \in 0..n |-> f[k]]
    OBVIOUS
  <2>2. [k \in 0..n |-> f[k]] = [k \in 0..n |-> Body(f, k)]
    BY <1>6, Zenon
  <2>3. QED
    BY <2>1, <2>2, Zenon
<1>8. Eq(g)
  <2> HIDE DEF Eq
  <2> QED BY <1>7, Zenon
<1> HIDE DEF g
<1>9. g[0] = p /\ \A k \in 1..n : g[k] = CK!Reduced(g[k - 1], G, W, W + n - k)
  BY <1>8
<1>10. IsDivision(g, G, W, n)
  BY <1>9, Zenon DEF IsDivision
<1>11. QED
  BY <1>4, <1>9, <1>10, Zenon


-------------------------------------------------------------------------------
(* The reflected calculation is the division. *)

(* The polynomial of a word whose bit 0 is the term of degree a. *)
Place(u, a) == {x \in Int : a - x \in u}

Mirrored(P, G, W) ==
    /\ W \in Nat /\ W >= 8
    /\ P \in SUBSET (0..(W - 1)) /\ G \in SUBSET (0..(W - 1))
    /\ \A x \in 0..(W - 1) : x \in P <=> (W - 1) - x \in G

(* One step of the division is one round of the calculation. *)
LEMMA DivideBit ==
    ASSUME NEW P, NEW G, NEW W, Mirrored(P, G, W), NEW u \in SUBSET Nat, NEW d \in Int,
           NEW R \in SUBSET Int, \A x \in R : x < d
    PROVE  CK!Reduced(CK!Xor(R, Place(u, d)), G, W, d) = CK!Xor(R, Place(CK!ShiftOut(P, u), d - 1))
<1> DEFINE p == CK!Xor(R, Place(u, d))
           q == {e + d - W : e \in G \cup {W}}
           v == CK!ShiftOut(P, u)
<1>1. W \in Nat /\ P \in SUBSET Nat /\ G \in SUBSET Nat
  BY DEF Mirrored
<1>2. /\ q \in SUBSET Int
      /\ \A x \in Int : x \in q <=> ((x - d) + W \in G \/ x = d)
  BY <1>1, InProduct
<1>3. \A a \in Int, w \in SUBSET Nat : Place(w, a) \in SUBSET Int /\ \A x \in Int : x \in Place(w, a) <=> a - x \in w
  BY DEF Place
<1>4. p \in SUBSET Int
  BY <1>3, XorType
<1>5. \A x \in Int : x \in p <=> ((x \in R /\ d - x \notin u) \/ (x \notin R /\ d - x \in u))
  BY <1>3, InXor
<1>6. d \in p <=> 0 \in u
  <2>1. d \notin R /\ d - d = 0
    OBVIOUS
  <2> HIDE DEF p
  <2>2. QED
    BY <1>5, <2>1
<1>7. v \in SUBSET Nat
  BY <1>1, ShiftOutType
<1>8. CK!Shr(u, 1) \in SUBSET Nat /\ \A x \in Int : x \in CK!Shr(u, 1) <=> (x + 1 \in u /\ x >= 0)
  BY InShr
<1> DEFINE r == CK!Xor(R, Place(v, d - 1))
<1>9. r \in SUBSET Int
  <2>1. Place(v, d - 1) \in SUBSET Int
    BY <1>3, <1>7
  <2> DEFINE z == Place(v, d - 1)
  <2>2. z \in SUBSET Int
    BY <2>1, Zenon
  <2> HIDE DEF z
  <2>3. CK!Xor(R, z) \in SUBSET Int
    BY <2>2, XorType
  <2>4. QED
    BY <2>3, Zenon DEF z
<1>10. \A x \in Int : x \in r <=> ((x \in R /\ (d - 1) - x \notin v) \/ (x \notin R /\ (d - 1) - x \in v))
  <2> HIDE DEF v
  <2>1. d - 1 \in Int
    OBVIOUS
  <2>2. \A x \in Int : x \in Place(v, d - 1) <=> (d - 1) - x \in v
    BY <1>3, <1>7, <2>1, Zenon
  <2>3. QED
    BY <2>2, InXor
<1>11. CK!Reduced(p, G, W, d) = IF d \in p THEN CK!Xor(p, q) ELSE p
  BY Zenon DEF CK!Reduced
<1>12. v = IF 0 \in u THEN CK!Xor(CK!Shr(u, 1), P) ELSE CK!Shr(u, 1)
  BY Zenon DEF CK!ShiftOut
<1> HIDE DEF p, q, v, r
<1>13. \A x \in Int : (d - 1) - x \in CK!Shr(u, 1) <=> (d - x \in u /\ d - x # 0)
  <2>1. \A x \in Int : (d - 1) - x \in Int /\ ((d - 1) - x) + 1 = d - x
    OBVIOUS
  <2>2. \A x \in Int : d - x \in u => d - x \in Nat
    OBVIOUS
  <2>3. \A x \in Int : d - x \in Nat => ((d - 1) - x >= 0 <=> d - x # 0)
    OBVIOUS
  <2>4. QED
    BY <1>8, <2>1, <2>2, <2>3, Zenon
<1>14. CASE 0 \in u
  <2>1. CK!Xor(p, q) \in SUBSET Int
    BY <1>2, <1>4, XorType
  <2>2. ASSUME NEW x \in Int PROVE x \in CK!Xor(p, q) <=> x \in r
    <3>1. CASE x = d
      <4>1. d - x = 0 /\ x \notin R
        BY <3>1
      <4>2. x \in p /\ x \in q
        BY <1>2, <1>6, <1>14, <3>1, Zenon
      <4>3. (d - 1) - x \notin Nat
        BY <3>1
      <4>4. x \notin r
        BY <1>7, <1>10, <4>1, <4>3
      <4>5. QED
        BY <4>2, <4>4, InXor
    <3>2. CASE x # d
      <4>1. (x - d) + W \in G <=> (d - 1) - x \in P
        <5> DEFINE y == (d - 1) - x
        <5>1. y \in Int /\ (W - 1) - y = (x - d) + W
          BY <1>1
        <5> HIDE DEF y
        <5>2. y \in P => y \in 0..(W - 1)
          BY DEF Mirrored
        <5>3. (x - d) + W \in G => (x - d) + W \in 0..(W - 1)
          BY DEF Mirrored
        <5>4. (x - d) + W \in 0..(W - 1) => y \in 0..(W - 1)
          BY <1>1, <5>1
        <5>5. y \in 0..(W - 1) => (y \in P <=> (x - d) + W \in G)
          BY <5>1 DEF Mirrored
        <5>6. QED
          BY <5>2, <5>3, <5>4, <5>5 DEF y
      <4>2. d - x # 0
        BY <3>2
      <4>3. x \in q <=> (d - 1) - x \in P
        BY <1>2, <3>2, <4>1, Zenon
      <4>4. (d - 1) - x \in v <=> ((d - x \in u /\ (d - 1) - x \notin P) \/ (d - x \notin u /\ (d - 1) - x \in P))
        <5>1. v = CK!Xor(CK!Shr(u, 1), P)
          BY <1>12, <1>14, Zenon
        <5>2. (d - 1) - x \in CK!Shr(u, 1) <=> d - x \in u
          BY <1>13, <4>2, Zenon
        <5>3. QED
          BY <5>1, <5>2, InXor
      <4>5. x \in CK!Xor(p, q) <=> ((x \in p /\ x \notin q) \/ (x \notin p /\ x \in q))
        BY InXor
      <4>6. QED
        BY <1>5, <1>10, <4>3, <4>4, <4>5, Zenon
    <3>3. QED
      BY <3>1, <3>2
  <2>3. CK!Xor(p, q) = r
    BY <1>9, <2>1, <2>2, SameWords, Zenon
  <2>4. QED
    BY <1>6, <1>11, <1>14, <2>3, Zenon DEF p, r, v
<1>15. CASE 0 \notin u
  <2>1. \A x \in Int : d - x = 0 => d - x \notin u
    BY <1>15
  <2>2. v = CK!Shr(u, 1)
    BY <1>12, <1>15, Zenon
  <2>3. \A x \in Int : x \in p <=> x \in r
    BY <1>5, <1>10, <1>13, <2>1, <2>2, Zenon
  <2>4. p = r
    BY <1>4, <1>9, <2>3, SameWords, Zenon
  <2>5. QED
    BY <1>6, <1>11, <1>15, <2>4, Zenon DEF p, r, v
<1>16. QED
  BY <1>14, <1>15, Zenon

(* Eight steps of the division take a byte. *)
EightSteps(f, m, a, G, W) == \A j \in 1..8 : f[m + j] = CK!Reduced(f[m + (j - 1)], G, W, a - (j - 1))

LEMMA DivideByte ==
    ASSUME NEW P, NEW G, NEW W, Mirrored(P, G, W), NEW w \in SUBSET Nat, NEW byte \in SUBSET (0..7),
           NEW a \in Int, NEW R \in SUBSET Int, \A x \in R : x < a - 7,
           NEW f, NEW m \in Nat, f[m] = CK!Xor(R, Place(CK!Xor(w, byte), a)),
           EightSteps(f, m, a, G, W)
    PROVE  f[m + 8] = CK!Xor(R, Place(CK!TakeByte(P, w, byte), a - 8))
<1>1. P \in SUBSET Nat
  BY DEF Mirrored
<1>2. PICK u \in [0..8 -> SUBSET Nat] :
              /\ u[0] = CK!Xor(w, byte) /\ u[8] = CK!TakeByte(P, w, byte)
              /\ \A k \in 1..8 : u[k] = CK!ShiftOut(P, u[k - 1])
  BY <1>1, ByteRounds
<1> DEFINE At(k) == CK!Xor(R, Place(u[k], a - k))
           X == {k \in Nat : k <= 8 => f[m + k] = At(k)}
<1>3. 0 \in X
  <2>1. m + 0 = m /\ a - 0 = a
    OBVIOUS
  <2>2. f[m + 0] = At(0)
    BY <1>2, <2>1, Zenon
  <2> HIDE DEF At
  <2>3. QED
    BY <2>2
<1>4. ASSUME NEW k \in Nat, k \in X PROVE k + 1 \in X
  <2>1. SUFFICES ASSUME k + 1 <= 8 PROVE f[m + (k + 1)] = At(k + 1)
    <3> HIDE DEF At
    <3> QED OBVIOUS
  <2>2. k + 1 \in 1..8 /\ (k + 1) - 1 = k /\ k \in 0..8 /\ k <= 8
    BY <2>1
  <2>3. f[m + k] = At(k)
    <3> HIDE DEF At
    <3> QED BY <1>4, <2>2
  <2>4. f[m + (k + 1)] = CK!Reduced(At(k), G, W, a - k)
    <3>1. f[m + (k + 1)] = CK!Reduced(f[m + ((k + 1) - 1)], G, W, a - ((k + 1) - 1))
      BY <2>2, Zenon DEF EightSteps
    <3> HIDE DEF At
    <3>2. QED
      BY <2>2, <2>3, <3>1, Zenon
  <2>5. u[k] \in SUBSET Nat /\ a - k \in Int /\ (a - k) - 1 = a - (k + 1) /\ \A x \in R : x < a - k
    BY <2>2
  <2>6. CK!Reduced(At(k), G, W, a - k) = CK!Xor(R, Place(CK!ShiftOut(P, u[k]), (a - k) - 1))
    <3> DEFINE d == a - k
               v == u[k]
    <3>1. v \in SUBSET Nat /\ d \in Int /\ \A x \in R : x < d
      BY <2>5, Zenon
    <3> HIDE DEF d, v
    <3>2. CK!Reduced(CK!Xor(R, Place(v, d)), G, W, d) = CK!Xor(R, Place(CK!ShiftOut(P, v), d - 1))
      BY <3>1, DivideBit
    <3>3. QED
      BY <3>2, Zenon DEF d, v
  <2>7. u[k + 1] = CK!ShiftOut(P, u[k])
    BY <1>2, <2>2, Zenon
  <2>8. QED
    BY <2>4, <2>5, <2>6, <2>7, Zenon
<1>5. Nat \subseteq X
  <2> HIDE DEF X
  <2> QED BY <1>3, <1>4, NumbersByStep
<1>6. f[m + 8] = At(8)
  <2> HIDE DEF At
  <2> QED BY <1>5
<1>7. QED
  BY <1>2, <1>6, Zenon

ByteStrings == Seq(SUBSET (0..7))

LEMMA InBodyPolynomial ==
    ASSUME NEW bytes \in ByteStrings
    PROVE  /\ CK!BodyPolynomial(bytes) \in SUBSET Nat
           /\ \A y \in Int : y \in CK!BodyPolynomial(bytes) <=>
                 \E k \in 1..Len(bytes) : (8 * (Len(bytes) - k) + 7) - y \in bytes[k]
<1> DEFINE L == Len(bytes)
           Terms(k) == {8 * (L - k) + 7 - i : i \in bytes[k]}
<1>1. L \in Nat /\ DOMAIN bytes = 1..L /\ \A k \in 1..L : bytes[k] \in SUBSET (0..7)
  BY DEF ByteStrings
<1>2. CK!BodyPolynomial(bytes) = UNION {Terms(k) : k \in 1..L}
  BY <1>1, Zenon DEF CK!BodyPolynomial
<1> HIDE DEF L
<1>3. ASSUME NEW k \in 1..L, NEW y \in Int PROVE y \in Terms(k) <=> (8 * (L - k) + 7) - y \in bytes[k]
  <2>1. \A i \in bytes[k] : i \in Int
    BY <1>1
  <2>2. \A i \in Int : (y = 8 * (L - k) + 7 - i) <=> (i = (8 * (L - k) + 7) - y)
    BY <1>1
  <2>3. (8 * (L - k) + 7) - y \in Int
    BY <1>1
  <2>4. QED
    BY <2>1, <2>2, <2>3, Zenon
<1>4. ASSUME NEW k \in 1..L PROVE Terms(k) \in SUBSET Nat
  BY <1>1
<1> HIDE DEF Terms
<1>5. CK!BodyPolynomial(bytes) \in SUBSET Nat
  BY <1>2, <1>4
<1>6. \A y \in Int : y \in CK!BodyPolynomial(bytes) <=> \E k \in 1..L : (8 * (L - k) + 7) - y \in bytes[k]
  BY <1>2, <1>3, Zenon
<1>7. QED
  BY <1>5, <1>6, Zenon DEF L

(* The terms of the bytes after the first n, as the division has them. *)
Later(bytes, W, n) == {x \in Int : x - W \in CK!BodyPolynomial(bytes) /\ x - W < 8 * (Len(bytes) - n)}

LEMMA LaterSplits ==
    ASSUME NEW bytes \in ByteStrings, NEW W \in Nat, NEW n \in 0..(Len(bytes) - 1)
    PROVE  Later(bytes, W, n) = CK!Xor(Later(bytes, W, n + 1), Place(bytes[n + 1], (W - 1) + 8 * (Len(bytes) - n)))
<1> DEFINE L == Len(bytes)
           a == (W - 1) + 8 * (L - n)
           b == bytes[n + 1]
<1>1. L \in Nat /\ n \in Nat /\ n + 1 \in 1..L /\ a \in Int /\ \A k \in 1..L : bytes[k] \in SUBSET (0..7)
  BY DEF ByteStrings
<1>2. \A y \in Int : y \in CK!BodyPolynomial(bytes) <=> \E k \in 1..L : (8 * (L - k) + 7) - y \in bytes[k]
  BY InBodyPolynomial
<1> HIDE DEF L
<1>3. ASSUME NEW x \in Int PROVE x \in Later(bytes, W, n) <=> x \in CK!Xor(Later(bytes, W, n + 1), Place(b, a))
  <2> DEFINE y == x - W
  <2>1. x \in Later(bytes, W, n) <=> (y \in CK!BodyPolynomial(bytes) /\ y < 8 * (L - n))
    BY DEF Later, L
  <2>2. x \in Later(bytes, W, n + 1) <=> (y \in CK!BodyPolynomial(bytes) /\ y < 8 * (L - (n + 1)))
    BY DEF Later, L
  <2>3. x \in Place(b, a) <=> (8 * (L - (n + 1)) + 7) - y \in b
    <3>0. L \in Int /\ n \in Int /\ W \in Int
      BY <1>1
    <3>1. a - x = (8 * (L - (n + 1)) + 7) - y
      BY <3>0, Z3
    <3> HIDE DEF a, y, b
    <3>2. QED
      BY <3>1 DEF Place
  <2>4. y \in Int
    OBVIOUS
  <2> HIDE DEF y, a, b
  <2>5. (8 * (L - (n + 1)) + 7) - y \in b => y \in CK!BodyPolynomial(bytes) /\ y < 8 * (L - n) /\ ~(y < 8 * (L - (n + 1)))
    <3>1. (8 * (L - (n + 1)) + 7) - y \in b => (8 * (L - (n + 1)) + 7) - y \in 0..7
      BY <1>1 DEF b
    <3>2. (8 * (L - (n + 1)) + 7) - y \in 0..7 => y < 8 * (L - n) /\ ~(y < 8 * (L - (n + 1)))
      BY <1>1, <2>4
    <3>3. (8 * (L - (n + 1)) + 7) - y \in b => y \in CK!BodyPolynomial(bytes)
      BY <1>1, <1>2, <2>4, Zenon DEF b
    <3>4. QED
      BY <3>1, <3>2, <3>3, Zenon
  <2>6. y \in CK!BodyPolynomial(bytes) /\ y < 8 * (L - n) /\ ~(y < 8 * (L - (n + 1))) => (8 * (L - (n + 1)) + 7) - y \in b
    <3>1. SUFFICES ASSUME y \in CK!BodyPolynomial(bytes), y < 8 * (L - n), ~(y < 8 * (L - (n + 1)))
                   PROVE  (8 * (L - (n + 1)) + 7) - y \in b
      OBVIOUS
    <3>2. PICK k \in 1..L : (8 * (L - k) + 7) - y \in bytes[k]
      BY <1>2, <2>4, <3>1, Zenon
    <3>3. (8 * (L - k) + 7) - y \in 0..7
      BY <1>1, <3>2
    <3>4. k = n + 1
      BY <1>1, <2>4, <3>1, <3>3
    <3>5. QED
      BY <3>2, <3>4, Zenon DEF b
  <2>7. y < 8 * (L - (n + 1)) => y < 8 * (L - n)
    BY <1>1, <2>4
  <2>8. x \in CK!Xor(Later(bytes, W, n + 1), Place(b, a)) <=>
          ((x \in Later(bytes, W, n + 1) /\ x \notin Place(b, a)) \/ (x \notin Later(bytes, W, n + 1) /\ x \in Place(b, a)))
    BY InXor
  <2>9. QED
    BY <2>1, <2>2, <2>3, <2>5, <2>6, <2>7, <2>8, Zenon
<1>4. Later(bytes, W, n) \in SUBSET Int
  BY DEF Later
<1>5. CK!Xor(Later(bytes, W, n + 1), Place(b, a)) \in SUBSET Int
  <2>1. Later(bytes, W, n + 1) \in SUBSET Int /\ Place(b, a) \in SUBSET Int
    BY DEF Later, Place
  <2> HIDE DEF a, b
  <2>2. QED
    BY <2>1, XorType
<1> HIDE DEF a, b
<1>6. Later(bytes, W, n) = CK!Xor(Later(bytes, W, n + 1), Place(b, a))
  BY <1>3, <1>4, <1>5, SameWords, Zenon
<1>7. QED
  BY <1>6, Zenon DEF a, b, L

(* What is divided: the body times x^W, its first W coefficients inverted. *)
Dividend(bytes, W) ==
    CK!Xor({e + W : e \in CK!BodyPolynomial(bytes)}, {8 * Len(bytes) + i : i \in CK!Ones(W)})

(* After n bytes the word w is the rest of the division so far. *)
CrcAt(bytes, G, W, n, w) ==
    Division(Dividend(bytes, W), G, W, 8 * Len(bytes))[8 * n]
      = CK!Xor(Later(bytes, W, n), Place(w, (W - 1) + 8 * (Len(bytes) - n)))

LEMMA DividendIs ==
    ASSUME NEW bytes \in ByteStrings, NEW W \in Nat
    PROVE  /\ Dividend(bytes, W) \in SUBSET Int
           /\ Dividend(bytes, W) = CK!Xor(Later(bytes, W, 0), Place(CK!Ones(W), (W - 1) + 8 * (Len(bytes) - 0)))
<1> DEFINE L == Len(bytes)
           B == CK!BodyPolynomial(bytes)
           s == {e + W : e \in B}
           q == {8 * L + i : i \in CK!Ones(W)}
           a == (W - 1) + 8 * (L - 0)
<1>1. L \in Nat /\ \A k \in 1..L : bytes[k] \in SUBSET (0..7)
  BY DEF ByteStrings
<1>2. /\ B \in SUBSET Nat
      /\ \A y \in Int : y \in B <=> \E k \in 1..L : (8 * (L - k) + 7) - y \in bytes[k]
  BY InBodyPolynomial
<1>3. Later(bytes, W, 0) = {x \in Int : x - W \in B /\ x - W < 8 * (L - 0)}
  BY Zenon DEF Later
<1>4. Dividend(bytes, W) = CK!Xor(s, q)
  BY Zenon DEF Dividend
<1> HIDE DEF L, B
<1>5. \A y \in B : y < 8 * (L - 0)
  <2>1. SUFFICES ASSUME NEW y \in B PROVE y < 8 * (L - 0)
    OBVIOUS
  <2>2. y \in Int
    BY <1>2
  <2>3. PICK k \in 1..L : (8 * (L - k) + 7) - y \in bytes[k]
    BY <1>2, <2>1, <2>2, Zenon
  <2>4. (8 * (L - k) + 7) - y \in 0..7
    BY <1>1, <2>3
  <2>5. QED
    BY <1>1, <2>2, <2>4
<1>6. s = Later(bytes, W, 0)
  <2>1. s \in SUBSET Int
    BY <1>2
  <2>2. \A x \in Int : x \in s <=> x - W \in B
    <3>1. \A e \in B : e \in Int
      BY <1>2
    <3>2. \A x \in Int : x = (x - W) + W
      OBVIOUS
    <3>3. \A e \in Int : (e + W) - W = e
      OBVIOUS
    <3>4. QED
      BY <3>1, <3>2, <3>3, Zenon
  <2> HIDE DEF s
  <2>3. QED
    BY <1>3, <1>5, <2>1, <2>2
<1>7. q = Place(CK!Ones(W), a)
  <2>1. ASSUME NEW x \in Int PROVE x \in q <=> a - x \in CK!Ones(W)
    <3>1. x \in q => a - x \in 0..(W - 1)
      BY <1>1 DEF CK!Ones
    <3>2. a - x \in 0..(W - 1) => x - 8 * L \in 0..(W - 1) /\ x = 8 * L + (x - 8 * L)
      BY <1>1
    <3>3. QED
      BY <3>1, <3>2 DEF CK!Ones
  <2>2. q \in SUBSET Int
    BY <1>1 DEF CK!Ones
  <2> HIDE DEF q, a
  <2>3. QED
    BY <2>1, <2>2 DEF Place
<1>8. s \in SUBSET Int /\ q \in SUBSET Int
  BY <1>6, <1>7 DEF Later, Place
<1> HIDE DEF s, q, a
<1>9. CK!Xor(s, q) \in SUBSET Int
  BY <1>8, XorType
<1>10. QED
  BY <1>4, <1>6, <1>7, <1>9, Zenon DEF a, L

LEMMA GeneratorType ==
    ASSUME NEW P, NEW G, NEW W, Mirrored(P, G, W)
    PROVE  W \in Nat /\ P \in SUBSET Nat /\ G \in SUBSET Nat
BY DEF Mirrored

LEMMA CrcStarts ==
    ASSUME NEW P, NEW G, NEW W, Mirrored(P, G, W), NEW bytes \in ByteStrings
    PROVE  CrcAt(bytes, G, W, 0, CK!Ones(W))
<1> DEFINE n == 8 * Len(bytes)
           p == Dividend(bytes, W)
<1>1. n \in Nat /\ 8 * 0 = 0
  BY DEF ByteStrings
<1>2. p \in SUBSET Int
  BY GeneratorType, DividendIs
<1> HIDE DEF n, p
<1>3. Division(p, G, W, n)[0] = p
  BY <1>1, <1>2, GeneratorType, DivisionRounds
<1>4. p = CK!Xor(Later(bytes, W, 0), Place(CK!Ones(W), (W - 1) + 8 * (Len(bytes) - 0)))
  BY GeneratorType, DividendIs DEF p
<1>5. Division(p, G, W, n)[8 * 0] = Division(p, G, W, n)[0]
  BY <1>1, Zenon
<1>6. QED
  BY <1>3, <1>4, <1>5, Zenon DEF CrcAt, n, p

LEMMA XorAssociates ==
    ASSUME NEW u, NEW v, NEW w
    PROVE  CK!Xor(CK!Xor(u, v), w) = CK!Xor(u, CK!Xor(v, w))
BY DEF CK!Xor

LEMMA PlaceXor ==
    ASSUME NEW v, NEW w, NEW a \in Int
    PROVE  CK!Xor(Place(v, a), Place(w, a)) = Place(CK!Xor(w, v), a)
BY DEF CK!Xor, Place

LEMMA CrcTakes ==
    ASSUME NEW P, NEW G, NEW W, Mirrored(P, G, W), NEW bytes \in ByteStrings,
           NEW n \in 0..(Len(bytes) - 1), NEW w \in SUBSET Nat, CrcAt(bytes, G, W, n, w)
    PROVE  CrcAt(bytes, G, W, n + 1, CK!TakeByte(P, w, bytes[n + 1]))
<1> DEFINE L == Len(bytes)
           a == (W - 1) + 8 * (L - n)
           f == Division(Dividend(bytes, W), G, W, 8 * L)
           R == Later(bytes, W, n + 1)
           byte == bytes[n + 1]
           m == 8 * n
<1>1. W \in Nat /\ G \in SUBSET Nat
  BY GeneratorType
<1>2. L \in Nat /\ n \in Nat /\ n + 1 <= L /\ byte \in SUBSET (0..7)
  BY DEF ByteStrings
<1>3. f[m] = CK!Xor(Later(bytes, W, n), Place(w, a))
  BY Zenon DEF CrcAt
<1>4. Later(bytes, W, n) = CK!Xor(R, Place(byte, a))
  BY <1>1, LaterSplits
<1>5. Dividend(bytes, W) \in SUBSET Int
  BY <1>1, DividendIs
<1>6. \A k \in 1..(8 * L) : f[k] = CK!Reduced(f[k - 1], G, W, W + 8 * L - k)
  <2> DEFINE N == 8 * L
             p == Dividend(bytes, W)
  <2>1. N \in Nat /\ p \in SUBSET Int
    BY <1>2, <1>5
  <2> HIDE DEF N, p
  <2>2. IsDivision(Division(p, G, W, N), G, W, N)
    BY <1>1, <2>1, DivisionRounds
  <2>3. QED
    BY <2>2, Zenon DEF N, p, IsDivision
<1>7. R \in SUBSET Int /\ \A x \in R : x < a - 7
  <2>1. \A x \in Int : x - W < 8 * (L - (n + 1)) => x < a - 7
    BY <1>1, <1>2
  <2> HIDE DEF a, L
  <2>2. QED
    BY <2>1 DEF Later, L
<1>8. a \in Int /\ m \in Nat /\ a - 8 = (W - 1) + 8 * (L - (n + 1)) /\ m + 8 = 8 * (n + 1)
  BY <1>1, <1>2
<1>9. ASSUME NEW j \in 1..8 PROVE f[m + j] = CK!Reduced(f[m + (j - 1)], G, W, a - (j - 1))
  <2>1. m + j \in 1..(8 * L) /\ (m + j) - 1 = m + (j - 1) /\ W + 8 * L - (m + j) = a - (j - 1)
    BY <1>1, <1>2
  <2> HIDE DEF f, m, a, L
  <2>2. QED
    BY <1>6, <2>1, Zenon
<1> HIDE DEF f, m, a, R, byte, L
<1>10. f[m] = CK!Xor(R, Place(CK!Xor(w, byte), a))
  <2>1. f[m] = CK!Xor(CK!Xor(R, Place(byte, a)), Place(w, a))
    BY <1>3, <1>4, Zenon
  <2>2. CK!Xor(CK!Xor(R, Place(byte, a)), Place(w, a)) = CK!Xor(R, CK!Xor(Place(byte, a), Place(w, a)))
    BY XorAssociates
  <2>3. CK!Xor(Place(byte, a), Place(w, a)) = Place(CK!Xor(w, byte), a)
    BY <1>8, PlaceXor
  <2>4. QED
    BY <2>1, <2>2, <2>3, Zenon
<1>11. f[m + 8] = CK!Xor(R, Place(CK!TakeByte(P, w, byte), a - 8))
  <2>1. EightSteps(f, m, a, G, W)
    BY <1>9, Zenon DEF EightSteps
  <2>2. QED
    BY <1>2, <1>7, <1>8, <1>10, <2>1, DivideByte
<1>12. QED
  BY <1>8, <1>11, Zenon DEF CrcAt, f, R, byte, L

(* What is left when all bytes are taken is the word, and its inverse is the CRC. *)
LEMMA CrcEnds ==
    ASSUME NEW P, NEW G, NEW W, Mirrored(P, G, W), NEW bytes \in ByteStrings,
           NEW w \in SUBSET CK!Ones(W), CrcAt(bytes, G, W, Len(bytes), w)
    PROVE  {W - 1 - e : e \in CK!Not(CK!Remainder(Dividend(bytes, W), G, W, 8 * Len(bytes)), W)} = CK!Not(w, W)
<1> DEFINE L == Len(bytes)
           N == 8 * L
           p == Dividend(bytes, W)
           rest == CK!Remainder(p, G, W, N)
           R == Later(bytes, W, L)
<1>1. W \in Nat /\ G \in SUBSET Nat
  BY GeneratorType
<1>2. L \in Nat /\ N \in Nat
  BY DEF ByteStrings
<1>3. p \in SUBSET Int
  BY <1>1, DividendIs
<1>4. Division(p, G, W, N)[N] = CK!Xor(R, Place(w, (W - 1) + 8 * (L - L)))
  BY Zenon DEF CrcAt
<1>5. R = {}
  <2>1. CK!BodyPolynomial(bytes) \in SUBSET Nat
    BY InBodyPolynomial
  <2>2. 8 * (L - L) = 0
    BY <1>2
  <2>3. R = {x \in Int : x - W \in CK!BodyPolynomial(bytes) /\ x - W < 8 * (L - L)}
    BY Zenon DEF Later
  <2> HIDE DEF R, L
  <2>4. QED
    BY <2>1, <2>2, <2>3
<1>6. (W - 1) + 8 * (L - L) = W - 1
  BY <1>1, <1>2
<1> HIDE DEF N, p, R, L
<1>7. rest = Division(p, G, W, N)[N]
  BY <1>1, <1>2, <1>3, DivisionRounds
<1>8. rest = CK!Xor({}, Place(w, W - 1))
  BY <1>4, <1>5, <1>6, <1>7, Zenon
<1> HIDE DEF rest
<1>9. rest = Place(w, W - 1)
  BY <1>8 DEF CK!Xor
<1>10. \A x \in Int : x \in rest <=> (W - 1) - x \in w
  BY <1>9 DEF Place
<1> DEFINE r == CK!Not(rest, W)
           c == {W - 1 - e : e \in r}
<1>11. r \in SUBSET (0..(W - 1)) /\ \A x \in 0..(W - 1) : x \in r <=> (W - 1) - x \notin w
  BY <1>10 DEF CK!Not, CK!Ones
<1> HIDE DEF r
<1>12. \A y \in 0..(W - 1) : y \in c <=> y \notin w
  <2>1. ASSUME NEW y \in 0..(W - 1) PROVE y \in c <=> y \notin w
    <3>1. \A e \in 0..(W - 1) : y = W - 1 - e <=> e = (W - 1) - y
      BY <1>1
    <3>2. (W - 1) - y \in 0..(W - 1) /\ (W - 1) - ((W - 1) - y) = y
      BY <1>1
    <3>3. y \in c <=> (W - 1) - y \in r
      BY <1>11, <3>1, <3>2, Zenon
    <3>4. (W - 1) - y \in r <=> y \notin w
      BY <1>11, <3>2
    <3>5. QED
      BY <3>3, <3>4, Zenon
  <2>2. QED
    BY <2>1, Zenon
<1>13. c \in SUBSET (0..(W - 1))
  BY <1>1, <1>11
<1> HIDE DEF c
<1>14. c = CK!Not(w, W)
  BY <1>12, <1>13 DEF CK!Not, CK!Ones
<1>15. QED
  BY <1>14, Zenon DEF c, r, rest, p, N, L

LEMMA ShiftOutFits ==
    ASSUME NEW P, NEW G, NEW W, Mirrored(P, G, W), NEW w \in SUBSET (0..(W - 1))
    PROVE  CK!ShiftOut(P, w) \in SUBSET (0..(W - 1))
<1>1. W \in Nat /\ P \in SUBSET (0..(W - 1)) /\ w \in SUBSET Nat
  BY DEF Mirrored
<1>2. CK!Shr(w, 1) \in SUBSET Nat /\ \A x \in Int : x \in CK!Shr(w, 1) <=> (x + 1 \in w /\ x >= 0)
  BY <1>1, InShr
<1>3. CK!Shr(w, 1) \in SUBSET (0..(W - 1))
  <2>1. SUFFICES ASSUME NEW x \in CK!Shr(w, 1) PROVE x \in 0..(W - 1)
    OBVIOUS
  <2>2. x \in Int /\ x >= 0 /\ x + 1 \in w
    BY <1>2
  <2>3. x + 1 \in 0..(W - 1)
    BY <2>2
  <2>4. QED
    BY <1>1, <2>2, <2>3
<1>4. CK!Xor(CK!Shr(w, 1), P) \in SUBSET (0..(W - 1))
  <2> DEFINE T == 0..(W - 1)
             v == CK!Shr(w, 1)
  <2>1. P \in SUBSET T /\ v \in SUBSET T
    BY <1>1, <1>3, Zenon
  <2> HIDE DEF T, v
  <2>2. CK!Xor(v, P) \in SUBSET T
    BY <2>1, XorType
  <2>3. QED
    BY <2>2, Zenon DEF T, v
<1>5. QED
  BY <1>3, <1>4, Zenon DEF CK!ShiftOut

LEMMA TakeByteFits ==
    ASSUME NEW P, NEW G, NEW W, Mirrored(P, G, W), NEW w \in SUBSET (0..(W - 1)), NEW byte \in SUBSET (0..7)
    PROVE  CK!TakeByte(P, w, byte) \in SUBSET (0..(W - 1))
<1> DEFINE T == SUBSET (0..(W - 1))
<1>1. P \in SUBSET Nat /\ w \in SUBSET Nat /\ W \in Nat /\ W >= 8
  BY DEF Mirrored
<1>2. PICK u \in [0..8 -> SUBSET Nat] :
              /\ u[0] = CK!Xor(w, byte) /\ u[8] = CK!TakeByte(P, w, byte)
              /\ \A k \in 1..8 : u[k] = CK!ShiftOut(P, u[k - 1])
  BY <1>1, ByteRounds
<1> DEFINE X == {k \in Nat : k <= 8 => u[k] \in T}
<1>3. 0 \in X
  <2>1. byte \in SUBSET (0..(W - 1))
    BY <1>1
  <2>2. CK!Xor(w, byte) \in T
    BY <2>1, XorType
  <2> HIDE DEF T
  <2>3. QED
    BY <1>2, <2>2
<1>4. ASSUME NEW k \in Nat, k \in X PROVE k + 1 \in X
  <2>1. SUFFICES ASSUME k + 1 <= 8 PROVE u[k + 1] \in T
    OBVIOUS
  <2>2. k + 1 \in 1..8 /\ (k + 1) - 1 = k /\ u[k] \in T
    BY <1>4, <2>1
  <2>3. u[k + 1] = CK!ShiftOut(P, u[k])
    BY <1>2, <2>2
  <2>4. CK!ShiftOut(P, u[k]) \in T
    BY <2>2, ShiftOutFits, Zenon
  <2>5. QED
    BY <2>3, <2>4, Zenon
<1>5. Nat \subseteq X
  <2> HIDE DEF X
  <2> QED BY <1>3, <1>4, NumbersByStep
<1>6. u[8] \in T
  <2> HIDE DEF T
  <2> QED BY <1>5
<1>7. QED
  BY <1>2, <1>6, Zenon

(* A part of the body, taken at once, whatever is taken before and after it. *)
LEMMA CrcOverChunk ==
    ASSUME NEW P, NEW G, NEW W, Mirrored(P, G, W), NEW bytes \in ByteStrings,
           NEW n \in 0..Len(bytes), NEW m \in n..Len(bytes), NEW w \in SUBSET CK!Ones(W),
           CrcAt(bytes, G, W, n, w)
    PROVE  LET v == CK!update_crc_state(P, w, SubSeq(bytes, n + 1, m))
           IN  v \in SUBSET CK!Ones(W) /\ CrcAt(bytes, G, W, m, v)
<1> DEFINE chunk == SubSeq(bytes, n + 1, m)
           T == SUBSET (0..(W - 1))
<1>1. n \in Nat /\ m \in Nat /\ n <= m /\ m <= Len(bytes) /\ m - n \in Nat
  BY DEF ByteStrings
<1>2. chunk \in ByteStrings /\ Len(chunk) = m - n /\ \A k \in 1..(m - n) : chunk[k] = bytes[n + k]
  BY <1>1 DEF ByteStrings
<1>3. P \in SUBSET Nat /\ w \in SUBSET Nat /\ W \in Nat /\ w \in T
  BY DEF Mirrored, CK!Ones
<1> HIDE DEF chunk
<1>4. PICK s \in [0..Len(chunk) -> SUBSET Nat] :
              /\ s[0] = w /\ s[Len(chunk)] = CK!update_crc_state(P, w, chunk)
              /\ \A k \in 1..Len(chunk) : s[k] = CK!TakeByte(P, s[k - 1], chunk[k])
  BY <1>2, <1>3, StateRounds, Zenon DEF ByteStrings
<1> DEFINE Good(k) == s[k] \in T /\ CrcAt(bytes, G, W, n + k, s[k])
           X == {k \in Nat : k <= m - n => Good(k)}
<1>5. 0 \in X
  <2>1. n + 0 = n
    BY <1>1
  <2>2. Good(0)
    BY <1>3, <1>4, <2>1, Zenon
  <2> HIDE DEF Good
  <2>3. QED
    BY <2>2
<1>6. ASSUME NEW k \in Nat, k \in X PROVE k + 1 \in X
  <2>1. SUFFICES ASSUME k + 1 <= m - n PROVE Good(k + 1)
    <3> HIDE DEF Good
    <3> QED OBVIOUS
  <2>2. Good(k)
    <3> HIDE DEF Good
    <3> QED BY <1>1, <1>6, <2>1
  <2>3. k + 1 \in 1..(m - n) /\ (k + 1) - 1 = k /\ n + k \in 0..(Len(bytes) - 1) /\ n + (k + 1) = (n + k) + 1
    BY <1>1, <2>1 DEF ByteStrings
  <2>4. s[k + 1] = CK!TakeByte(P, s[k], bytes[(n + k) + 1])
    <3>1. chunk[k + 1] = bytes[(n + k) + 1]
      <4>1. chunk[k + 1] = bytes[n + (k + 1)]
        BY <1>2, <2>3, Zenon
      <4>2. QED
        BY <2>3, <4>1
    <3>2. s[k + 1] = CK!TakeByte(P, s[(k + 1) - 1], chunk[k + 1])
      BY <1>2, <1>4, <2>3, Zenon
    <3>3. QED
      BY <2>3, <3>1, <3>2, Zenon
  <2>5. bytes[(n + k) + 1] \in SUBSET (0..7)
    <3>1. (n + k) + 1 \in 1..Len(bytes)
      BY <1>1, <2>1
    <3>2. \A i \in 1..Len(bytes) : bytes[i] \in SUBSET (0..7)
      BY DEF ByteStrings
    <3>3. QED
      BY <3>1, <3>2, Zenon
  <2>6. s[k] \in SUBSET Nat
    BY <2>2
  <2> DEFINE byte == bytes[(n + k) + 1]
             v == s[k]
             j == n + k
  <2>7. byte \in SUBSET (0..7) /\ v \in T /\ v \in SUBSET Nat /\ CrcAt(bytes, G, W, j, v) /\ j \in 0..(Len(bytes) - 1)
    BY <2>2, <2>3, <2>5, <2>6, Zenon
  <2>8. byte = bytes[j + 1] /\ s[k + 1] = CK!TakeByte(P, v, byte)
    BY <2>4, Zenon
  <2> HIDE DEF v, j, byte
  <2>9. CK!TakeByte(P, v, byte) \in T
    BY <2>7, TakeByteFits, Zenon
  <2>10. CrcAt(bytes, G, W, j + 1, CK!TakeByte(P, v, bytes[j + 1]))
    BY <2>7, CrcTakes, Zenon
  <2>11. QED
    BY <2>3, <2>8, <2>9, <2>10, Zenon DEF j
<1>7. Nat \subseteq X
  <2> HIDE DEF X
  <2> QED BY <1>5, <1>6, NumbersByStep
<1>8. Good(m - n)
  <2> HIDE DEF Good
  <2> QED BY <1>1, <1>7
<1>9. n + (m - n) = m
  BY <1>1
<1>10. CK!update_crc_state(P, w, chunk) = s[m - n]
  BY <1>2, <1>4, Zenon
<1>11. QED
  BY <1>8, <1>9, <1>10, Zenon DEF chunk, CK!Ones

(* The reflected polynomials of the tables are the generators of the standards. *)
LEMMA TablesAreMirrored ==
    ASSUME NEW algorithm \in CK!Crcs
    PROVE  Mirrored(CK!Polynomial[algorithm], CK!Generator[algorithm], CK!Width[algorithm])
<1>1. CASE algorithm = "Crc32"
  BY <1>1 DEF Mirrored, CK!Polynomial, CK!Generator, CK!Width
<1>2. CASE algorithm = "Crc32c"
  BY <1>2 DEF Mirrored, CK!Polynomial, CK!Generator, CK!Width
<1>3. CASE algorithm = "Crc64Nvme"
  BY <1>3 DEF Mirrored, CK!Polynomial, CK!Generator, CK!Width
<1>4. QED
  BY <1>1, <1>2, <1>3 DEF CK!Crcs

-------------------------------------------------------------------------------
(* Base64. *)

LEMMA Characters ==
    /\ \A n \in 0..63 : CK!Alphabet(n) \in CK!Admitted /\ CK!ValueOf(CK!Alphabet(n)) = n
                        /\ CK!Alphabet(n) # CK!PAD /\ CK!Alphabet(n) \in Nat
    /\ \A c \in CK!Admitted : CK!ValueOf(c) \in 0..63 /\ CK!Alphabet(CK!ValueOf(c)) = c
    /\ CK!PAD \in Nat
BY DEF CK!Alphabet, CK!Admitted, CK!ValueOf, CK!PAD

LEMMA ReadIsValue ==
    ASSUME NEW c \in CK!Admitted
    PROVE  CK!Read(c) = CK!ValueOf(c)
<1>1. \A n \in 0..63 : CK!Alphabet(n) = c <=> n = CK!ValueOf(c)
  BY Characters
<1>2. CK!ValueOf(c) \in 0..63
  BY Characters
<1>3. \E n \in 0..63 : CK!Alphabet(n) = c
  BY <1>1, <1>2
<1>4. (CHOOSE n \in 0..63 : CK!Alphabet(n) = c) = CK!ValueOf(c)
  BY <1>1, <1>3, Zenon
<1>5. QED
  BY <1>3, <1>4, Zenon DEF CK!Read

LEMMA BitIs ==
    ASSUME NEW w, NEW W, NEW p
    PROVE  CK!Bit(w, W, p) \in {0, 1} /\ (CK!Bit(w, W, p) = 1 <=> (W - 1) - p \in w)
BY DEF CK!Bit

Sixfold(a, b, c, d, e, f) == 32 * a + 16 * b + 8 * c + 4 * d + 2 * e + f

LEMMA SextetIs ==
    ASSUME NEW w, NEW W, NEW m
    PROVE  CK!Sextet(w, W, m) = Sixfold(CK!Bit(w, W, 6 * m), CK!Bit(w, W, 6 * m + 1), CK!Bit(w, W, 6 * m + 2),
                                        CK!Bit(w, W, 6 * m + 3), CK!Bit(w, W, 6 * m + 4), CK!Bit(w, W, 6 * m + 5))
BY Zenon DEF CK!Sextet, Sixfold

LEMMA SixfoldFacts ==
    /\ \A a, b, c, d, e, f \in {0, 1} : Sixfold(a, b, c, d, e, f) \in 0..63
    /\ \A a, b, c, d \in {0, 1} : Sixfold(a, b, c, d, 0, 0) % 4 = 0
    /\ \A a, b \in {0, 1} : Sixfold(a, b, 0, 0, 0, 0) % 16 = 0
    /\ \A v \in 0..63 : Sixfold((v \div 32) % 2, (v \div 16) % 2, (v \div 8) % 2,
                                (v \div 4) % 2, (v \div 2) % 2, (v \div 1) % 2) = v
<1>1. \A a, b, c, d, e, f \in {0, 1} : Sixfold(a, b, c, d, e, f) \in 0..63
  BY DEF Sixfold
<1>2. \A a, b, c, d \in {0, 1} : Sixfold(a, b, c, d, 0, 0) % 4 = 0
  BY DEF Sixfold
<1>3. \A a, b \in {0, 1} : Sixfold(a, b, 0, 0, 0, 0) % 16 = 0
  BY DEF Sixfold
<1>4. \A v \in 0..63 : Sixfold((v \div 32) % 2, (v \div 16) % 2, (v \div 8) % 2,
                               (v \div 4) % 2, (v \div 2) % 2, (v \div 1) % 2) = v
  BY DEF Sixfold
<1>5. QED
  BY <1>1, <1>2, <1>3, <1>4

LEMMA SextetType ==
    ASSUME NEW w, NEW W, NEW m
    PROVE  CK!Sextet(w, W, m) \in 0..63
<1> DEFINE a == CK!Bit(w, W, 6 * m)
           b == CK!Bit(w, W, 6 * m + 1)
           c == CK!Bit(w, W, 6 * m + 2)
           d == CK!Bit(w, W, 6 * m + 3)
           e == CK!Bit(w, W, 6 * m + 4)
           f == CK!Bit(w, W, 6 * m + 5)
<1>1. \A p : CK!Bit(w, W, p) \in {0, 1}
  BY BitIs
<1>2. a \in {0, 1} /\ b \in {0, 1} /\ c \in {0, 1} /\ d \in {0, 1} /\ e \in {0, 1} /\ f \in {0, 1}
  BY <1>1, Zenon
<1>3. CK!Sextet(w, W, m) = Sixfold(a, b, c, d, e, f)
  BY SextetIs, Zenon
<1> HIDE DEF a, b, c, d, e, f
<1>4. Sixfold(a, b, c, d, e, f) \in 0..63
  BY <1>2 DEF Sixfold
<1>5. QED
  BY <1>3, <1>4, Zenon

(* The layout of the text of a digest of W bits: N characters, of which D carry *)
(* data, the last one a multiple of Q.                                          *)
Layout(W, digest_length, N, D, Q) ==
    /\ W \in Nat /\ N \in Nat /\ D \in 1..N
    /\ 4 * ((W + 23) \div 24) = N /\ (W + 5) \div 6 = D
    /\ \/ Q = 4 /\ W = 6 * (D - 1) + 4
       \/ Q = 16 /\ W = 6 * (D - 1) + 2
    /\ \A text : CK!valid_base64_digest(text, digest_length) <=>
          /\ Len(text) = N
          /\ \A i \in 1..D : text[i] \in CK!Admitted
          /\ \A i \in (D + 1)..N : text[i] = CK!PAD
          /\ CK!ValueOf(text[D]) % Q = 0

LEMMA Layouts ==
    ASSUME NEW algorithm \in CK!Algorithms
    PROVE  \E N, D, Q : Layout(CK!Width[algorithm], CK!DigestLength[algorithm], N, D, Q)
<1>1. Layout(32, 4, 8, 6, 16)
  <2>1. ((4 + 2) \div 3) * 4 = 8 /\ 4 % 3 = 1 /\ 3 - 1 = 2 /\ 8 - 2 = 6
    OBVIOUS
  <2>2. QED
    BY <2>1 DEF Layout, CK!valid_base64_digest
<1>2. Layout(64, 8, 12, 11, 4)
  BY DEF Layout, CK!valid_base64_digest
<1>3. Layout(160, 20, 28, 27, 4)
  BY DEF Layout, CK!valid_base64_digest
<1>4. Layout(256, 32, 44, 43, 4)
  BY DEF Layout, CK!valid_base64_digest
<1>5. /\ CK!Width["Crc32"] = 32 /\ CK!DigestLength["Crc32"] = 4
      /\ CK!Width["Crc32c"] = 32 /\ CK!DigestLength["Crc32c"] = 4
      /\ CK!Width["Crc64Nvme"] = 64 /\ CK!DigestLength["Crc64Nvme"] = 8
      /\ CK!Width["Sha1"] = 160 /\ CK!DigestLength["Sha1"] = 20
      /\ CK!Width["Sha256"] = 256 /\ CK!DigestLength["Sha256"] = 32
  BY DEF CK!Width, CK!DigestLength
<1>6. algorithm \in {"Crc32", "Crc32c", "Crc64Nvme", "Sha1", "Sha256"}
  BY DEF CK!Algorithms, CK!Crcs
<1>7. QED
  BY <1>1, <1>2, <1>3, <1>4, <1>5, <1>6

(* The text of a word. *)
IsText(t, w, W, N, D) ==
    /\ t \in Seq(Nat) /\ Len(t) = N
    /\ \A m \in 1..D : t[m] = CK!Alphabet(CK!Sextet(w, W, m - 1))
    /\ \A m \in (D + 1)..N : t[m] = CK!PAD

LEMMA EncodedText ==
    ASSUME NEW W, NEW l, NEW N, NEW D, NEW Q, Layout(W, l, N, D, Q), NEW w
    PROVE  IsText(CK!encode(w, W), w, W, N, D)
<1> DEFINE Char(m) == IF m <= D THEN CK!Alphabet(CK!Sextet(w, W, m - 1)) ELSE CK!PAD
           t == [m \in 1..N |-> Char(m)]
<1>1. CK!encode(w, W) = t
  BY Zenon DEF CK!encode, Layout
<1>2. N \in Nat /\ D \in 1..N
  BY DEF Layout
<1>3. \A m : Char(m) \in Nat
  BY SextetType, Characters
<1>4. \A m \in 1..D : m \in 1..N /\ Char(m) = CK!Alphabet(CK!Sextet(w, W, m - 1))
  BY <1>2
<1>5. \A m \in (D + 1)..N : m \in 1..N /\ Char(m) = CK!PAD
  BY <1>2
<1> HIDE DEF Char
<1>6. t \in Seq(Nat) /\ Len(t) = N
  BY <1>2, <1>3
<1>7. QED
  BY <1>1, <1>4, <1>5, <1>6, Zenon DEF IsText

(* The text of any word passes the validation. *)
LEMMA EncodedIsValid ==
    ASSUME NEW W, NEW l, NEW N, NEW D, NEW Q, Layout(W, l, N, D, Q), NEW w \in SUBSET Nat
    PROVE  CK!valid_base64_digest(CK!encode(w, W), l)
<1> DEFINE t == CK!encode(w, W)
           v == CK!Sextet(w, W, D - 1)
           m == D - 1
<1>1. N \in Nat /\ D \in 1..N /\ W \in Nat /\ D \in Int /\ D \in 1..D
  BY DEF Layout
<1>2. /\ t \in Seq(Nat) /\ Len(t) = N
      /\ \A i \in 1..D : t[i] = CK!Alphabet(CK!Sextet(w, W, i - 1))
      /\ \A i \in (D + 1)..N : t[i] = CK!PAD
  BY EncodedText, Zenon DEF IsText
<1>3. \A i \in 1..D : t[i] \in CK!Admitted
  BY <1>2, SextetType, Characters, Zenon
<1>4. CK!ValueOf(t[D]) = v
  <2>1. t[D] = CK!Alphabet(v) /\ v \in 0..63
    BY <1>1, <1>2, SextetType, Zenon
  <2> HIDE DEF t, v
  <2>2. QED
    BY <2>1, Characters, Zenon
<1>5. \A p \in Int : CK!Bit(w, W, p) \in {0, 1} /\ (p >= W => CK!Bit(w, W, p) = 0)
  <2>1. SUFFICES ASSUME NEW p \in Int PROVE CK!Bit(w, W, p) \in {0, 1} /\ (p >= W => CK!Bit(w, W, p) = 0)
    OBVIOUS
  <2>2. p >= W => (W - 1) - p \notin Nat
    BY <1>1
  <2>3. QED
    BY <2>2, BitIs
<1>6. v = Sixfold(CK!Bit(w, W, 6 * m), CK!Bit(w, W, 6 * m + 1), CK!Bit(w, W, 6 * m + 2),
                  CK!Bit(w, W, 6 * m + 3), CK!Bit(w, W, 6 * m + 4), CK!Bit(w, W, 6 * m + 5))
  BY SextetIs, Zenon
<1>7. m \in Int
  BY <1>1
<1>8. 6 * m \in Int /\ 6 * m + 1 \in Int /\ 6 * m + 2 \in Int /\ 6 * m + 3 \in Int /\ 6 * m + 4 \in Int /\ 6 * m + 5 \in Int
  BY <1>7
<1>9. CASE Q = 4 /\ W = 6 * (D - 1) + 4
  <2>1. 6 * m + 4 >= W /\ 6 * m + 5 >= W
    BY <1>7, <1>9
  <2> HIDE DEF m, v
  <2>2. CK!Bit(w, W, 6 * m + 4) = 0 /\ CK!Bit(w, W, 6 * m + 5) = 0
    BY <1>5, <1>8, <2>1, Zenon
  <2>3. v % 4 = 0
    BY <1>5, <1>6, <1>8, <2>2, SixfoldFacts, Zenon
  <2>4. QED
    BY <1>2, <1>3, <1>4, <1>9, <2>3, Zenon DEF Layout
<1>10. CASE Q = 16 /\ W = 6 * (D - 1) + 2
  <2>1. 6 * m + 2 >= W /\ 6 * m + 3 >= W /\ 6 * m + 4 >= W /\ 6 * m + 5 >= W
    BY <1>7, <1>10
  <2> HIDE DEF m, v
  <2>2. CK!Bit(w, W, 6 * m + 2) = 0 /\ CK!Bit(w, W, 6 * m + 3) = 0
        /\ CK!Bit(w, W, 6 * m + 4) = 0 /\ CK!Bit(w, W, 6 * m + 5) = 0
    BY <1>5, <1>8, <2>1, Zenon
  <2>3. v % 16 = 0
    BY <1>5, <1>6, <1>8, <2>2, SixfoldFacts, Zenon
  <2>4. QED
    BY <1>2, <1>3, <1>4, <1>10, <2>3, Zenon DEF Layout
<1>11. QED
  BY <1>9, <1>10 DEF Layout

(* The bit that a character gives at a place in its sextet. *)
BitOf(v, j) == (v \div <<32, 16, 8, 4, 2, 1>>[j + 1]) % 2

LEMMA BitsOf ==
    ASSUME NEW v \in 0..63
    PROVE  /\ \A j \in 0..5 : BitOf(v, j) \in {0, 1}
           /\ Sixfold(BitOf(v, 0), BitOf(v, 1), BitOf(v, 2), BitOf(v, 3), BitOf(v, 4), BitOf(v, 5)) = v
           /\ v % 4 = 0 => BitOf(v, 4) = 0 /\ BitOf(v, 5) = 0
           /\ v % 16 = 0 => BitOf(v, 2) = 0 /\ BitOf(v, 3) = 0 /\ BitOf(v, 4) = 0 /\ BitOf(v, 5) = 0
<1>1. BitOf(v, 0) = (v \div 32) % 2 /\ BitOf(v, 1) = (v \div 16) % 2 /\ BitOf(v, 2) = (v \div 8) % 2
      /\ BitOf(v, 3) = (v \div 4) % 2 /\ BitOf(v, 4) = (v \div 2) % 2 /\ BitOf(v, 5) = (v \div 1) % 2
  BY DEF BitOf
<1>2. \A j \in 0..5 : j = 0 \/ j = 1 \/ j = 2 \/ j = 3 \/ j = 4 \/ j = 5
  OBVIOUS
<1>3. \A x \in Int : x % 2 \in {0, 1}
  OBVIOUS
<1>4. v \div 32 \in Int /\ v \div 16 \in Int /\ v \div 8 \in Int /\ v \div 4 \in Int /\ v \div 2 \in Int /\ v \div 1 \in Int
  OBVIOUS
<1>5. \A j \in 0..5 : BitOf(v, j) \in {0, 1}
  BY <1>1, <1>2, <1>3, <1>4, Zenon
<1>6. Sixfold(BitOf(v, 0), BitOf(v, 1), BitOf(v, 2), BitOf(v, 3), BitOf(v, 4), BitOf(v, 5)) = v
  BY <1>1, SixfoldFacts, Zenon
<1>7. v % 4 = 0 => (v \div 2) % 2 = 0 /\ (v \div 1) % 2 = 0
  OBVIOUS
<1>8. v % 16 = 0 => (v \div 8) % 2 = 0 /\ (v \div 4) % 2 = 0 /\ (v \div 2) % 2 = 0 /\ (v \div 1) % 2 = 0
  OBVIOUS
<1>9. QED
  BY <1>1, <1>5, <1>6, <1>7, <1>8, Zenon

(* A bit of the digest is one of a character. *)
LEMMA DecodedBit ==
    ASSUME NEW W \in Nat, NEW text \in Seq(Nat), NEW m \in 0..(Len(text) - 1), NEW j \in 0..5,
           text[m + 1] \in CK!Admitted
    PROVE  CK!Bit(CK!Decoded(text, W), W, 6 * m + j)
             = IF 6 * m + j < W THEN BitOf(CK!ValueOf(text[m + 1]), j) ELSE 0
<1> DEFINE p == 6 * m + j
           b == (W - 1) - p
           read == [i \in DOMAIN text |-> CK!Read(text[i])]
           v == CK!ValueOf(text[m + 1])
<1>1. m \in Nat /\ p \in Nat /\ b \in Int /\ W - 1 - b = p /\ m < Len(text) /\ m + 1 \in DOMAIN text
  OBVIOUS
<1>2. p \div 6 = m /\ p % 6 = j
  OBVIOUS
<1>3. read[m + 1] = v
  <2>1. read[m + 1] = CK!Read(text[m + 1])
    BY <1>1, Zenon
  <2>2. QED
    BY <2>1, ReadIsValue, Zenon
<1>4. v \in 0..63
  BY Characters
<1>5. CK!Decoded(text, W) = {c \in CK!Ones(W) :
          /\ ((W - 1 - c) \div 6) < Len(text)
          /\ (read[((W - 1 - c) \div 6) + 1] \div <<32, 16, 8, 4, 2, 1>>[((W - 1 - c) % 6) + 1]) % 2 = 1}
  BY Zenon DEF CK!Decoded
<1> HIDE DEF read, v, p, b
<1>6. b \in CK!Ones(W) <=> p < W
  BY <1>1 DEF CK!Ones, b
<1>7. b \in CK!Decoded(text, W) <=> (p < W /\ BitOf(v, j) = 1)
  <2>1. b \in CK!Decoded(text, W) <=>
          /\ b \in CK!Ones(W)
          /\ ((W - 1 - b) \div 6) < Len(text)
          /\ (read[((W - 1 - b) \div 6) + 1] \div <<32, 16, 8, 4, 2, 1>>[((W - 1 - b) % 6) + 1]) % 2 = 1
    BY <1>5, Zenon
  <2>2. (read[((W - 1 - b) \div 6) + 1] \div <<32, 16, 8, 4, 2, 1>>[((W - 1 - b) % 6) + 1]) % 2 = BitOf(v, j)
    BY <1>1, <1>2, <1>3, Zenon DEF BitOf
  <2>3. ((W - 1 - b) \div 6) < Len(text)
    BY <1>1, <1>2
  <2>4. QED
    BY <1>6, <2>1, <2>2, <2>3, Zenon
<1>8. BitOf(v, j) \in {0, 1}
  BY <1>4, BitsOf
<1>9. CK!Bit(CK!Decoded(text, W), W, p) \in {0, 1} /\ (CK!Bit(CK!Decoded(text, W), W, p) = 1 <=> b \in CK!Decoded(text, W))
  BY BitIs, Zenon DEF b
<1>10. CK!Bit(CK!Decoded(text, W), W, p) = IF p < W THEN BitOf(v, j) ELSE 0
  BY <1>7, <1>8, <1>9
<1>11. QED
  BY <1>10, Zenon DEF p, v


(* A valid text is what its own digest is written as: character by character. *)
LEMMA CharacterIsWritten ==
    ASSUME NEW W, NEW l, NEW N, NEW D, NEW Q, Layout(W, l, N, D, Q), NEW text \in Seq(Nat),
           CK!valid_base64_digest(text, l), NEW m \in 0..(D - 1)
    PROVE  CK!Sextet(CK!Decoded(text, W), W, m) = CK!ValueOf(text[m + 1])
<1> DEFINE w == CK!Decoded(text, W)
           v == CK!ValueOf(text[m + 1])
           Given(j) == IF 6 * m + j < W THEN BitOf(v, j) ELSE 0
<1>1. /\ W \in Nat /\ N \in Nat /\ D \in 1..N /\ Len(text) = N
      /\ \A i \in 1..D : text[i] \in CK!Admitted
      /\ CK!ValueOf(text[D]) % Q = 0
  BY Zenon DEF Layout
<1>2. m \in 0..(Len(text) - 1) /\ m + 1 \in 1..D /\ m \in Int
  BY <1>1
<1>3. text[m + 1] \in CK!Admitted
  BY <1>1, <1>2, Zenon
<1>4. v \in 0..63
  BY <1>3, Characters
<1>5. \A j \in 0..5 : CK!Bit(w, W, 6 * m + j) = Given(j)
  BY <1>1, <1>2, <1>3, DecodedBit, Zenon
<1>6. CK!Bit(w, W, 6 * m) = Given(0) /\ CK!Bit(w, W, 6 * m + 1) = Given(1) /\ CK!Bit(w, W, 6 * m + 2) = Given(2)
      /\ CK!Bit(w, W, 6 * m + 3) = Given(3) /\ CK!Bit(w, W, 6 * m + 4) = Given(4) /\ CK!Bit(w, W, 6 * m + 5) = Given(5)
  <2>1. 0 \in 0..5 /\ 1 \in 0..5 /\ 2 \in 0..5 /\ 3 \in 0..5 /\ 4 \in 0..5 /\ 5 \in 0..5 /\ 6 * m + 0 = 6 * m
    BY <1>2
  <2> HIDE DEF Given, w
  <2>2. CK!Bit(w, W, 6 * m + 0) = Given(0)
    BY <1>5, <2>1, Zenon
  <2>3. QED
    BY <1>5, <2>1, <2>2, Zenon
<1>7. Given(0) = BitOf(v, 0) /\ Given(1) = BitOf(v, 1) /\ Given(2) = BitOf(v, 2)
      /\ Given(3) = BitOf(v, 3) /\ Given(4) = BitOf(v, 4) /\ Given(5) = BitOf(v, 5)
  <2>1. m < D - 1 => 6 * m + 0 < W /\ 6 * m + 1 < W /\ 6 * m + 2 < W /\ 6 * m + 3 < W /\ 6 * m + 4 < W /\ 6 * m + 5 < W
    BY <1>1, <1>2 DEF Layout
  <2>2. CASE m < D - 1
    <3> HIDE DEF v
    <3>1. QED
      BY <2>1, <2>2
  <2>3. CASE m = D - 1 /\ Q = 4 /\ W = 6 * (D - 1) + 4
    <3>1. m + 1 = D
      BY <2>3, <1>1
    <3>2. v % 4 = 0
      BY <1>1, <2>3, <3>1, Zenon
    <3>3. BitOf(v, 4) = 0 /\ BitOf(v, 5) = 0
      BY <1>4, <3>2, BitsOf, Zenon
    <3>4. 6 * m + 0 < W /\ 6 * m + 1 < W /\ 6 * m + 2 < W /\ 6 * m + 3 < W /\ ~(6 * m + 4 < W) /\ ~(6 * m + 5 < W)
      BY <1>1, <1>2, <2>3
    <3> HIDE DEF v
    <3>5. QED
      BY <3>3, <3>4
  <2>4. CASE m = D - 1 /\ Q = 16 /\ W = 6 * (D - 1) + 2
    <3>1. m + 1 = D
      BY <2>4, <1>1
    <3>2. v % 16 = 0
      BY <1>1, <2>4, <3>1, Zenon
    <3>3. BitOf(v, 2) = 0 /\ BitOf(v, 3) = 0 /\ BitOf(v, 4) = 0 /\ BitOf(v, 5) = 0
      BY <1>4, <3>2, BitsOf, Zenon
    <3>4. 6 * m + 0 < W /\ 6 * m + 1 < W /\ ~(6 * m + 2 < W) /\ ~(6 * m + 3 < W) /\ ~(6 * m + 4 < W) /\ ~(6 * m + 5 < W)
      BY <1>1, <1>2, <2>4
    <3> HIDE DEF v
    <3>5. QED
      BY <3>3, <3>4
  <2>5. m < D - 1 \/ m = D - 1
    BY <1>1, <1>2
  <2>6. QED
    BY <2>2, <2>3, <2>4, <2>5, Zenon DEF Layout
<1> HIDE DEF Given, v, w
<1>8. CK!Sextet(w, W, m) = Sixfold(BitOf(v, 0), BitOf(v, 1), BitOf(v, 2), BitOf(v, 3), BitOf(v, 4), BitOf(v, 5))
  BY <1>6, <1>7, SextetIs, Zenon
<1>9. CK!Sextet(w, W, m) = v
  BY <1>4, <1>8, BitsOf, Zenon
<1>10. QED
  BY <1>9, Zenon DEF w, v

LEMMA ValidIsCanonical ==
    ASSUME NEW algorithm \in CK!Algorithms, NEW text \in Seq(Nat)
    PROVE  CK!valid_base64_digest(text, CK!DigestLength[algorithm]) <=> CK!IsDigestText(text, algorithm)
<1> DEFINE W == CK!Width[algorithm]
           l == CK!DigestLength[algorithm]
           w == CK!Decoded(text, W)
           t == CK!encode(w, W)
<1>1. PICK N, D, Q : Layout(W, l, N, D, Q)
  BY Layouts, Zenon
<1>2. W \in Nat /\ N \in Nat /\ D \in 1..N
  BY <1>1 DEF Layout
<1>3. w \in SUBSET Nat
  <2>1. \A b \in w : b \in CK!Ones(W)
    BY Zenon DEF CK!Decoded
  <2> HIDE DEF w
  <2>2. QED
    BY <1>2, <2>1 DEF CK!Ones
<1> HIDE DEF W, l, w
<1>4. CK!valid_base64_digest(t, l)
  BY <1>1, <1>3, EncodedIsValid, Zenon
<1>5. ASSUME CK!valid_base64_digest(text, l) PROVE text = t
  <2>1. /\ t \in Seq(Nat) /\ Len(t) = N
        /\ \A m \in 1..D : t[m] = CK!Alphabet(CK!Sextet(w, W, m - 1))
        /\ \A m \in (D + 1)..N : t[m] = CK!PAD
    <3>1. IsText(t, w, W, N, D)
      BY <1>1, EncodedText, Zenon
    <3> HIDE DEF t
    <3>2. QED
      BY <3>1, Zenon DEF IsText
  <2>2. /\ Len(text) = N
        /\ \A i \in 1..D : text[i] \in CK!Admitted
        /\ \A i \in (D + 1)..N : text[i] = CK!PAD
    BY <1>1, <1>5, Zenon DEF Layout
  <2>3. ASSUME NEW i \in 1..D PROVE t[i] = text[i]
    <3>1. i - 1 \in 0..(D - 1) /\ (i - 1) + 1 = i
      BY <1>2
    <3>2. CK!Sextet(w, W, i - 1) = CK!ValueOf(text[(i - 1) + 1])
      BY <1>1, <1>5, <3>1, CharacterIsWritten, Zenon DEF w
    <3>3. CK!Sextet(w, W, i - 1) = CK!ValueOf(text[i])
      BY <3>1, <3>2, Zenon
    <3>4. t[i] = CK!Alphabet(CK!ValueOf(text[i]))
      BY <2>1, <3>3, Zenon
    <3>5. QED
      BY <2>2, <3>4, Characters, Zenon
  <2> HIDE DEF t
  <2>4. \A i \in 1..N : t[i] = text[i]
    <3>1. \A i \in 1..N : i \in 1..D \/ i \in (D + 1)..N
      BY <1>2
    <3>2. QED
      BY <2>1, <2>2, <2>3, <3>1, Zenon
  <2>5. QED
    BY <1>2, <2>1, <2>2, <2>4
<1>6. CK!IsDigestText(text, algorithm) <=> text = t
  BY Zenon DEF CK!IsDigestText, w, W
<1>7. QED
  BY <1>4, <1>5, <1>6, Zenon DEF l


-------------------------------------------------------------------------------
(* The calculation.  What is kept of it: the running word is the rest of the  *)
(* division after the bytes consumed so far.                                  *)

IsCalculated(text) ==
    \E w \in SUBSET Nat :
        /\ text = CK!encode(w, CK!Width[job.algorithm])
        /\ job.algorithm \in CK!Crcs => w = CK!Crc(job.algorithm, job.body)

JobShape ==
    /\ job.way \in {"calculate", "calculate_cooperatively", "supplied"}
    /\ job.algorithm \in CK!Algorithms
    /\ job.body \in Bodies \cup {<<>>} /\ job.body \in ByteStrings

Running ==
    /\ consumed \in 0..Len(job.body)
    /\ value \in SUBSET CK!Ones(CK!Width[job.algorithm])
    /\ job.algorithm \in CK!Crcs =>
          CrcAt(job.body, CK!Generator[job.algorithm], CK!Width[job.algorithm], consumed, value)
    /\ job.way = "calculate" /\ checksum = {} => consumed = 0

Texts ==
    /\ checksum = {} \/ \E text \in Seq(Nat) : checksum = {text}
    /\ job.way # "supplied" => \A text \in checksum : IsCalculated(text)

Judged ==
    /\ verdict \in {"open", "accepted", "refused", "unsupported"}
    /\ job.way # "supplied" => verdict # "refused"
    /\ job.way = "supplied" /\ verdict # "open" =>
          \A text \in checksum :
             verdict = "accepted" <=> CK!valid_base64_digest(text, CK!DigestLength[job.algorithm])

DigestInv == JobShape /\ Running /\ Texts /\ Judged

LEMMA ChecksumConstants ==
    Bodies \subseteq ByteStrings /\ ChunkSize \in Nat \ {0} /\ Tails \subseteq Seq(Nat)
BY PartsAssumption, Zenon DEF CK!ChecksumAssumption, ByteStrings

LEMMA WidthType ==
    ASSUME NEW algorithm \in CK!Algorithms
    PROVE  CK!Width[algorithm] \in Nat
BY DEF CK!Width, CK!Algorithms, CK!Crcs

LEMMA SuppliedText ==
    ASSUME NEW algorithm \in CK!Algorithms, NEW tail \in Seq(Nat)
    PROVE  CK!Supplied(algorithm, tail) \in Seq(Nat)
<1> DEFINE n == 4 * ((CK!DigestLength[algorithm] - 1) \div 3)
           zeros == [m \in 1..n |-> CK!Alphabet(0)]
<1>1. CK!DigestLength[algorithm] \in {4, 8, 20, 32}
  BY DEF CK!DigestLength, CK!Algorithms, CK!Crcs
<1>2. n \in Nat
  BY <1>1
<1>3. CK!Alphabet(0) \in Nat
  BY DEF CK!Alphabet
<1>4. CK!Supplied(algorithm, tail) = zeros \o tail
  BY Zenon DEF CK!Supplied
<1> HIDE DEF n
<1>5. zeros \in Seq(Nat)
  BY <1>2, <1>3
<1> HIDE DEF zeros
<1>6. QED
  BY <1>4, <1>5

LEMMA EmptyIsByteString == <<>> \in ByteStrings
BY DEF ByteStrings

LEMMA InitDigest == CK!Init => DigestInv
<1> SUFFICES ASSUME CK!Init PROVE DigestInv
  OBVIOUS
<1>1. JobShape /\ Texts
  <2>1. CASE job \in [way : {"calculate", "calculate_cooperatively"}, algorithm : CK!Algorithms, body : Bodies]
             /\ checksum = {}
    BY <2>1, ChecksumConstants DEF JobShape, Texts
  <2>2. CASE \E algorithm \in CK!Algorithms, tail \in Tails :
               /\ job = [way |-> "supplied", algorithm |-> algorithm, body |-> <<>>]
               /\ checksum = {CK!Supplied(algorithm, tail)}
    <3>1. PICK algorithm \in CK!Algorithms, tail \in Tails :
               /\ job = [way |-> "supplied", algorithm |-> algorithm, body |-> <<>>]
               /\ checksum = {CK!Supplied(algorithm, tail)}
      BY <2>2
    <3>2. job.way = "supplied" /\ job.algorithm = algorithm /\ job.body = <<>>
      BY <3>1
    <3>3. CK!Supplied(algorithm, tail) \in Seq(Nat)
      BY ChecksumConstants, SuppliedText
    <3>4. QED
      BY <3>1, <3>2, <3>3, EmptyIsByteString DEF JobShape, Texts
  <2>3. QED
    BY <2>1, <2>2, Zenon DEF CK!Init
<1>2. Running
  <2>1. consumed = 0 /\ 0 \in 0..Len(job.body)
    BY <1>1 DEF CK!Init, JobShape, ByteStrings
  <2>2. value = IF job.algorithm \in CK!Crcs THEN CK!Ones(CK!Width[job.algorithm]) ELSE {}
    BY Zenon DEF CK!Init
  <2>3. ASSUME job.algorithm \in CK!Crcs
        PROVE  CrcAt(job.body, CK!Generator[job.algorithm], CK!Width[job.algorithm], 0, CK!Ones(CK!Width[job.algorithm]))
    <3>1. Mirrored(CK!Polynomial[job.algorithm], CK!Generator[job.algorithm], CK!Width[job.algorithm])
      BY <2>3, TablesAreMirrored, Zenon
    <3>2. job.body \in ByteStrings
      BY <1>1 DEF JobShape
    <3>3. QED
      BY <3>1, <3>2, CrcStarts, Zenon
  <2>4. value \in SUBSET CK!Ones(CK!Width[job.algorithm])
    BY <2>2
  <2>5. QED
    BY <2>1, <2>2, <2>3, <2>4, Zenon DEF Running
<1>3. Judged
  BY DEF CK!Init, Judged
<1>4. QED
  BY <1>1, <1>2, <1>3, Zenon DEF DigestInv

(* Bytes are taken on: the word stays the rest of the division. *)
LEMMA UpdatedWord ==
    ASSUME DigestInv, NEW n \in consumed..Len(job.body)
    PROVE  LET v == CK!Updated(SubSeq(job.body, consumed + 1, n))
           IN  /\ v \in SUBSET CK!Ones(CK!Width[job.algorithm])
               /\ job.algorithm \in CK!Crcs =>
                    CrcAt(job.body, CK!Generator[job.algorithm], CK!Width[job.algorithm], n, v)
<1> DEFINE P == CK!Polynomial[job.algorithm]
           G == CK!Generator[job.algorithm]
           W == CK!Width[job.algorithm]
           bytes == job.body
           chunk == SubSeq(job.body, consumed + 1, n)
           v == CK!Updated(chunk)
           u == CK!update_crc_state(P, value, chunk)
<1>1. bytes \in ByteStrings /\ consumed \in 0..Len(bytes) /\ value \in SUBSET CK!Ones(W)
  BY Zenon DEF DigestInv, JobShape, Running
<1>2. CASE job.algorithm \in CK!Crcs
  <2>1. Mirrored(P, G, W)
    BY <1>2, TablesAreMirrored, Zenon
  <2>2. CrcAt(bytes, G, W, consumed, value)
    BY <1>2, Zenon DEF DigestInv, Running
  <2>3. v = u
    BY <1>2, Zenon DEF CK!Updated
  <2> HIDE DEF P, G, W, v
  <2>4. u \in SUBSET CK!Ones(W) /\ CrcAt(bytes, G, W, n, u)
    BY <1>1, <2>1, <2>2, CrcOverChunk, Zenon
  <2>5. QED
    BY <2>3, <2>4, Zenon DEF v, G, W
<1>3. CASE job.algorithm \notin CK!Crcs
  <2>1. v = value
    BY <1>3, Zenon DEF CK!Updated
  <2>2. QED
    BY <1>1, <1>3, <2>1, Zenon
<1>4. QED
  BY <1>2, <1>3, Zenon

LEMMA ShaBits ==
    ASSUME NEW bytes \in ByteStrings
    PROVE  CK!Sha256Digest(bytes) \in SUBSET Nat
<1>1. Len(bytes) \in Nat
  BY DEF ByteStrings
<1>2. \A k \in DOMAIN bytes : \A i \in bytes[k] : 8 * k + i \in Nat
  BY DEF ByteStrings
<1>3. QED
  BY <1>1, <1>2 DEF CK!Sha256Digest

(* The end of a calculation. *)
LEMMA FinalizedWord ==
    ASSUME JobShape, NEW w \in SUBSET CK!Ones(CK!Width[job.algorithm]),
           job.algorithm \in CK!Crcs =>
             CrcAt(job.body, CK!Generator[job.algorithm], CK!Width[job.algorithm], Len(job.body), w)
    PROVE  /\ IsCalculated(CK!encode(CK!Finalized(w), CK!Width[job.algorithm]))
           /\ CK!encode(CK!Finalized(w), CK!Width[job.algorithm]) \in Seq(Nat)
<1> DEFINE P == CK!Polynomial[job.algorithm]
           G == CK!Generator[job.algorithm]
           W == CK!Width[job.algorithm]
           bytes == job.body
           z == CK!Finalized(w)
<1>1. bytes \in ByteStrings /\ W \in Nat /\ job.algorithm \in CK!Algorithms
  BY WidthType, Zenon DEF JobShape
<1>2. z \in SUBSET Nat /\ (job.algorithm \in CK!Crcs => z = CK!Crc(job.algorithm, bytes))
  <2>1. CASE job.algorithm \in CK!Crcs
    <3>1. Mirrored(P, G, W)
      BY <2>1, TablesAreMirrored, Zenon
    <3>2. CrcAt(bytes, G, W, Len(bytes), w)
      BY <2>1, Zenon
    <3>3. z = CK!Not(w, W)
      BY <2>1, Zenon DEF CK!Finalized
    <3>4. CK!Crc(job.algorithm, bytes)
            = {W - 1 - e : e \in CK!Not(CK!Remainder(Dividend(bytes, W), G, W, 8 * Len(bytes)), W)}
      BY Zenon DEF CK!Crc, Dividend
    <3>0. w \in SUBSET CK!Ones(W)
      BY Zenon
    <3> HIDE DEF P, G, W, z, bytes
    <3>5. {W - 1 - e : e \in CK!Not(CK!Remainder(Dividend(bytes, W), G, W, 8 * Len(bytes)), W)} = CK!Not(w, W)
      BY <1>1, <3>0, <3>1, <3>2, CrcEnds
    <3>6. CK!Not(w, W) \in SUBSET Nat
      BY <1>1 DEF CK!Not, CK!Ones
    <3>7. QED
      BY <3>3, <3>4, <3>5, <3>6, Zenon
  <2>2. CASE job.algorithm \notin CK!Crcs
    <3>1. z = CK!Sha256Digest(bytes)
      BY <2>2, Zenon DEF CK!Finalized
    <3>2. QED
      BY <1>1, <2>2, <3>1, ShaBits, Zenon
  <2>3. QED
    BY <2>1, <2>2, Zenon
<1>3. CK!encode(z, W) \in Seq(Nat)
  <2>1. PICK N, D, Q : Layout(W, CK!DigestLength[job.algorithm], N, D, Q)
    BY <1>1, Layouts, Zenon
  <2>2. IsText(CK!encode(z, W), z, W, N, D)
    BY <2>1, EncodedText, Zenon
  <2>3. QED
    BY <2>2, Zenon DEF IsText
<1>4. QED
  BY <1>2, <1>3, Zenon DEF IsCalculated


LEMMA ChunkStep == DigestInv /\ CK!Chunk => DigestInv'
<1> SUFFICES ASSUME DigestInv, CK!Chunk PROVE DigestInv'
  OBVIOUS
<1> DEFINE n == IF consumed + ChunkSize < Len(job.body) THEN consumed + ChunkSize ELSE Len(job.body)
<1>1. /\ job' = job /\ checksum' = checksum /\ verdict' = verdict
      /\ job.way = "calculate_cooperatively" /\ consumed' = n
      /\ value' = CK!Updated(SubSeq(job.body, consumed + 1, n))
  BY Zenon DEF CK!Chunk
<1>2. consumed \in Nat /\ Len(job.body) \in Nat /\ consumed <= Len(job.body) /\ ChunkSize \in Nat
  BY ChecksumConstants DEF DigestInv, JobShape, Running, ByteStrings
<1>3. n \in consumed..Len(job.body) /\ n \in 0..Len(job.body)
  BY <1>2
<1> HIDE DEF n
<1>4. /\ value' \in SUBSET CK!Ones(CK!Width[job.algorithm])
      /\ job.algorithm \in CK!Crcs =>
           CrcAt(job.body, CK!Generator[job.algorithm], CK!Width[job.algorithm], n, value')
  BY <1>1, <1>3, UpdatedWord, Zenon
<1>5. Running'
  BY <1>1, <1>3, <1>4, Zenon DEF Running
<1>6. JobShape' /\ Texts' /\ Judged'
  BY <1>1, Zenon DEF DigestInv, JobShape, Texts, Judged, IsCalculated
<1>7. QED
  BY <1>5, <1>6, Zenon DEF DigestInv

LEMMA FinishStep == DigestInv /\ CK!Finish => DigestInv'
<1> SUFFICES ASSUME DigestInv, CK!Finish PROVE DigestInv'
  OBVIOUS
<1> DEFINE text == CK!encode(CK!Finalized(value), CK!Width[job.algorithm])
<1>1. /\ job' = job /\ consumed' = consumed /\ value' = value /\ verdict' = verdict
      /\ job.way = "calculate_cooperatively" /\ consumed = Len(job.body) /\ checksum' = {text}
  BY Zenon DEF CK!Finish
<1>2. IsCalculated(text) /\ text \in Seq(Nat)
  <2>1. JobShape /\ value \in SUBSET CK!Ones(CK!Width[job.algorithm])
    BY Zenon DEF DigestInv, Running
  <2>2. job.algorithm \in CK!Crcs =>
          CrcAt(job.body, CK!Generator[job.algorithm], CK!Width[job.algorithm], Len(job.body), value)
    BY <1>1, Zenon DEF DigestInv, Running
  <2>3. QED
    BY <2>1, <2>2, FinalizedWord, Zenon
<1> HIDE DEF text
<1>3. Texts'
  BY <1>1, <1>2, Zenon DEF Texts, IsCalculated
<1>4. JobShape' /\ Running' /\ Judged'
  BY <1>1, Zenon DEF DigestInv, JobShape, Running, Judged
<1>5. QED
  BY <1>3, <1>4, Zenon DEF DigestInv

LEMMA CalculateStep == DigestInv /\ CK!calculate => DigestInv'
<1> SUFFICES ASSUME DigestInv, CK!calculate PROVE DigestInv'
  OBVIOUS
<1> DEFINE text == CK!encode(CK!Finalized(value'), CK!Width[job.algorithm])
           n == Len(job.body)
<1>1. /\ job' = job /\ verdict' = verdict /\ checksum = {}
      /\ job.way = "calculate" /\ consumed' = n
      /\ value' = CK!Updated(job.body) /\ checksum' = {text}
  BY Zenon DEF CK!calculate
<1>2. consumed = 0 /\ n \in Nat /\ JobShape
  BY <1>1 DEF DigestInv, Running, JobShape, ByteStrings
<1>3. n \in consumed..Len(job.body) /\ n \in 0..Len(job.body)
  BY <1>2
<1>4. SubSeq(job.body, consumed + 1, n) = job.body
  <2>1. job.body \in ByteStrings
    BY <1>2, Zenon DEF JobShape
  <2>2. \A bytes \in ByteStrings : SubSeq(bytes, 1, Len(bytes)) = bytes
    BY DEF ByteStrings
  <2>3. consumed + 1 = 1
    BY <1>2
  <2>4. QED
    BY <2>1, <2>2, <2>3, Zenon
<1>5. /\ value' \in SUBSET CK!Ones(CK!Width[job.algorithm])
      /\ job.algorithm \in CK!Crcs =>
           CrcAt(job.body, CK!Generator[job.algorithm], CK!Width[job.algorithm], n, value')
  <2>1. CK!Updated(SubSeq(job.body, consumed + 1, n)) = value'
    BY <1>1, <1>4, Zenon
  <2> HIDE DEF n
  <2>2. QED
    BY <1>3, <2>1, UpdatedWord, Zenon
<1>6. IsCalculated(text) /\ text \in Seq(Nat)
  BY <1>2, <1>5, FinalizedWord, Zenon
<1> HIDE DEF text
<1>7. Texts'
  BY <1>1, <1>6, Zenon DEF Texts, IsCalculated
<1>8. Running'
  <2>1. checksum' # {}
    BY <1>1
  <2> HIDE DEF n
  <2>2. QED
    BY <1>1, <1>3, <1>5, <2>1, Zenon DEF Running
<1>9. JobShape' /\ Judged'
  BY <1>1, Zenon DEF DigestInv, JobShape, Judged
<1>10. QED
  BY <1>7, <1>8, <1>9, Zenon DEF DigestInv

(* A calculated text passes, and a supplied one is judged by the validation. *)
LEMMA ValidateStep == DigestInv /\ CK!Validate => DigestInv'
<1> SUFFICES ASSUME DigestInv, CK!Validate PROVE DigestInv'
  OBVIOUS
<1> DEFINE l == CK!DigestLength[job.algorithm]
<1>1. PICK text \in checksum :
        verdict' = IF CK!valid_base64_digest(text, l) THEN "accepted" ELSE "refused"
  BY Zenon DEF CK!Validate
<1>2. job' = job /\ consumed' = consumed /\ value' = value /\ checksum' = checksum
  BY Zenon DEF CK!Validate
<1>3. checksum = {text}
  BY <1>1 DEF DigestInv, Texts
<1>4. job.way # "supplied" => CK!valid_base64_digest(text, l)
  <2>1. SUFFICES ASSUME job.way # "supplied" PROVE CK!valid_base64_digest(text, l)
    OBVIOUS
  <2>2. PICK w \in SUBSET Nat : text = CK!encode(w, CK!Width[job.algorithm])
    BY <1>1, <2>1, Zenon DEF DigestInv, Texts, IsCalculated
  <2>3. job.algorithm \in CK!Algorithms
    BY Zenon DEF DigestInv, JobShape
  <2>4. PICK N, D, Q : Layout(CK!Width[job.algorithm], l, N, D, Q)
    BY <2>3, Layouts, Zenon
  <2>5. CK!valid_base64_digest(CK!encode(w, CK!Width[job.algorithm]), l)
    BY <2>4, EncodedIsValid, Zenon
  <2>6. QED
    BY <2>2, <2>5, Zenon
<1>5. Judged'
  <2>1. verdict' \in {"accepted", "refused"} /\ (verdict' = "accepted" <=> CK!valid_base64_digest(text, l))
    BY <1>1
  <2>2. verdict' \in {"open", "accepted", "refused", "unsupported"} /\ (verdict' = "accepted" => verdict' # "refused")
    BY <2>1
  <2>3. QED
    BY <1>2, <1>3, <1>4, <2>1, <2>2 DEF Judged
<1>6. JobShape' /\ Running' /\ Texts'
  BY <1>2, Zenon DEF DigestInv, JobShape, Running, Texts, IsCalculated
<1>7. QED
  BY <1>5, <1>6, Zenon DEF DigestInv

LEMMA NextDigest == DigestInv /\ [CK!Next]_CK!vars => DigestInv'
<1> SUFFICES ASSUME DigestInv, [CK!Next]_CK!vars PROVE DigestInv'
  OBVIOUS
<1>1. CASE CK!Refuse
  <2>1. /\ job' = job /\ consumed' = consumed /\ value' = value /\ checksum' = checksum
        /\ checksum = {} /\ verdict' = "unsupported"
    BY <1>1 DEF CK!Refuse
  <2>2. JobShape' /\ Running' /\ Texts'
    BY <2>1, Zenon DEF DigestInv, JobShape, Running, Texts, IsCalculated
  <2>3. Judged'
    BY <2>1 DEF Judged
  <2>4. QED
    BY <2>2, <2>3, Zenon DEF DigestInv
<1>2. CASE UNCHANGED CK!vars
  <2>1. job' = job /\ consumed' = consumed /\ value' = value /\ checksum' = checksum /\ verdict' = verdict
    BY <1>2 DEF CK!vars
  <2>2. QED
    BY <2>1, Zenon DEF DigestInv, JobShape, Running, Texts, IsCalculated, Judged
<1>3. QED
  BY <1>1, <1>2, CalculateStep, ChunkStep, FinishStep, ValidateStep, Zenon DEF CK!Next

LEMMA DigestHolds ==
    DigestInv => /\ CK!TypeOK /\ CK!ChecksumsAreRemainders
                 /\ CK!CalculatedChecksumsAreAccepted /\ CK!AcceptedChecksumsAreCanonical
<1> SUFFICES ASSUME DigestInv
             PROVE  /\ CK!TypeOK /\ CK!ChecksumsAreRemainders
                    /\ CK!CalculatedChecksumsAreAccepted /\ CK!AcceptedChecksumsAreCanonical
  OBVIOUS
<1>1. CK!TypeOK
  <2>1. CK!Cardinality(checksum) <= 1
    <3>1. CK!Cardinality(checksum) = Cardinality(checksum)
      BY DEF Cardinality, CK!Cardinality
    <3>2. Cardinality({}) = 0
      BY FS_EmptySet
    <3>3. \A text : Cardinality({text}) = 1
      BY FS_Singleton
    <3>4. checksum = {} \/ \E text : checksum = {text}
      BY Zenon DEF DigestInv, Texts
    <3>5. Cardinality(checksum) = 0 \/ Cardinality(checksum) = 1
      BY <3>2, <3>3, <3>4, Zenon
    <3>6. QED
      BY <3>1, <3>5
  <2>2. value \subseteq CK!Ones(CK!Width[job.algorithm])
    BY DEF DigestInv, Running
  <2>3. QED
    BY <2>1, <2>2, Zenon DEF DigestInv, JobShape, Running, Judged, CK!TypeOK
<1>2. CK!ChecksumsAreRemainders
  BY Zenon DEF DigestInv, Texts, IsCalculated, CK!ChecksumsAreRemainders
<1>3. CK!CalculatedChecksumsAreAccepted
  BY Zenon DEF DigestInv, Judged, CK!CalculatedChecksumsAreAccepted
<1>4. CK!AcceptedChecksumsAreCanonical
  <2>1. SUFFICES ASSUME NEW text \in checksum, job.way = "supplied", verdict # "open"
                 PROVE  verdict = "accepted" <=> CK!IsDigestText(text, job.algorithm)
    BY Zenon DEF CK!AcceptedChecksumsAreCanonical
  <2>2. text \in Seq(Nat) /\ job.algorithm \in CK!Algorithms
    BY DEF DigestInv, Texts, JobShape
  <2>3. verdict = "accepted" <=> CK!valid_base64_digest(text, CK!DigestLength[job.algorithm])
    BY <2>1, Zenon DEF DigestInv, Judged
  <2>4. QED
    BY <2>2, <2>3, ValidIsCanonical, Zenon
<1>5. QED
  BY <1>1, <1>2, <1>3, <1>4, Zenon

-------------------------------------------------------------------------------
(* The scenes: each component moves alone, under its own next-state relation. *)
LEMMA ScenesInductive ==
    Scenes => [](/\ scene = "parts" => IInv /\ WindowIsBounded
                 /\ scene = "body" => BodyIInv
                 /\ scene = "checksum" => DigestInv)
<1> DEFINE I == /\ scene = "parts" => IInv /\ WindowIsBounded
                /\ scene = "body" => BodyIInv
                /\ scene = "checksum" => DigestInv
<1>1. ScenesInit => I
  BY InitIInv, InitWindow, InitBody, InitDigest, PartsAssumption DEF ScenesInit
<1>2. I /\ [ScenesNext]_all => I'
  <2> SUFFICES ASSUME I, [ScenesNext]_all PROVE I'
    OBVIOUS
  <2>1. scene' = scene
    BY DEF ScenesNext, all
  <2>2. scene = "parts" => [PO!Next]_PO!vars
    BY DEF ScenesNext, all, cut, PO!vars
  <2>3. scene = "body" => [UB!Next]_UB!vars
    BY DEF ScenesNext, all, body, UB!vars, UB!input, UB!prepared, UB!body
  <2>4. scene = "checksum" => [CK!Next]_CK!vars
    BY DEF ScenesNext, all, digest, CK!vars
  <2>5. scene = "parts" => IInv' /\ WindowIsBounded'
    BY <2>2, NextIInv, NextWindow
  <2>6. scene = "body" => BodyIInv'
    BY <2>3, NextBody, PartsAssumption
  <2>7. scene = "checksum" => DigestInv'
    BY <2>4, NextDigest
  <2> QED BY <2>1, <2>5, <2>6, <2>7
<1> QED BY <1>1, <1>2, PTL DEF Scenes

(* read_part never meets its own error returns, whatever is done to the file. *)
THEOREM PartReadsSucceed == Scenes => []ReadsNeverFail
<1>1. (scene = "parts" => IInv) => ReadsNeverFail
  BY DEF IInv, ReadsNeverFail
<1> QED BY ScenesInductive, <1>1, PTL

(* A completed upload is the snapshot, byte for byte, for every length, part  *)
(* size and order in which the parts are read.                                *)
THEOREM PartsAreTheSnapshot == Scenes => []ObjectIsTheSnapshot
<1>1. (scene = "parts" => IInv) => ObjectIsTheSnapshot
  BY SnapshotIsCut DEF ObjectIsTheSnapshot
<1> QED BY ScenesInductive, <1>1, PTL

(* What the window holds in memory stays within maximum_buffered_bytes, for   *)
(* every part size, concurrency and order in which the parts finish.          *)
THEOREM BufferedBytesBounded == Scenes => []BufferedBytesAreBounded
<1>1. (scene = "parts" => IInv /\ WindowIsBounded) => BufferedBytesAreBounded
  BY WindowHolds DEF BufferedBytesAreBounded
<1> QED BY ScenesInductive, <1>1, PTL

(* A body of the full length that went out in any attempt is the signed one, *)
(* the size hint is exact all the time, and only a caller's stream is ever   *)
(* refused: for every length, chunking, number of attempts and change of the *)
(* file.                                                                     *)
THEOREM BodiesSigned == Scenes => []BodiesAreSigned
<1>1. (scene = "body" => BodyIInv) => BodiesAreSigned
  BY DEF BodyIInv, BodiesAreSigned
<1> QED BY ScenesInductive, <1>1, PTL

(* A calculated CRC is the remainder that defines it, for every body, chunk   *)
(* size and number of yields; what is calculated passes the validation; and a *)
(* supplied text passes exactly when it is what its own digest is written as. *)
THEOREM ChecksumsSound == Scenes => []ChecksumsAreSound
<1>1. (scene = "checksum" => DigestInv) => ChecksumsAreSound
  BY DigestHolds DEF ChecksumsAreSound
<1> QED BY ScenesInductive, <1>1, PTL
===============================================================================
