------------------------------ MODULE Checksums ------------------------------
(***************************************************************************)
(* The local calculation of checksums (src/src/operation/checksum.rs) and  *)
(* the validation of the base64 text they travel in                        *)
(* (src/src/client/multipart/headers.rs).                                  *)
(*                                                                         *)
(* A word, and a byte, is the set of the positions of its one bits, 0 the  *)
(* least significant: exclusive or is symmetric difference, and the widths *)
(* and polynomials are the real ones.  The table-driven, reflected,        *)
(* chunk-by-chunk calculation is compared with the definition of a CRC:    *)
(* the remainder of a division of polynomials over GF(2), a polynomial     *)
(* being the set of its exponents.                                         *)
(***************************************************************************)
EXTENDS Integers, Sequences, FiniteSets

CONSTANTS
  Bodies,      \* the bodies: sequences of bytes
  ChunkSize,   \* bytes between two yields of a cooperative calculation
  Tails        \* the last characters of the checksums a caller supplies

ChecksumAssumption ==
  /\ Bodies \subseteq Seq(SUBSET (0 .. 7))
  /\ ChunkSize \in Nat \ {0}
  /\ Tails \subseteq Seq(Nat)

VARIABLES
  call,        \* what is calculated, or the checksum a caller supplies
  consumed,    \* the number of bytes already taken from the body
  value,       \* the running word of a CRC
  checksum,    \* {} until a calculation ends, then the text of the checksum
  verdict      \* what the headers of an upload say of that text

vars == <<call, consumed, value, checksum, verdict>>

-----------------------------------------------------------------------------
(* Words. *)

Xor(v, w) == (v \ w) \cup (w \ v)
Shr(w, n) == {i - n : i \in {j \in w : j >= n}}
Ones(width) == 0 .. (width - 1)
Not(w, width) == Ones(width) \ w

Crcs == {"Crc32", "Crc32c", "Crc64Nvme"}
Algorithms == Crcs \cup {"Sha256", "Sha1"}
Width == [Crc32 |-> 32, Crc32c |-> 32, Crc64Nvme |-> 64,
          Sha256 |-> 256, Sha1 |-> 160]

\* The polynomials of the tables: 0xedb8_8320, 0x82f6_3b78 and
\* 0x9a6c_9329_ac4b_c9b5.
Polynomial ==
  [Crc32 |-> {5, 8, 9, 15, 19, 20, 21, 23, 24, 26, 27, 29, 30, 31},
   Crc32c |-> {3, 4, 5, 6, 8, 9, 11, 12, 13, 17, 18, 20, 21, 22, 23, 25, 31},
   Crc64Nvme |-> {0, 2, 4, 5, 7, 8, 11, 14, 15, 16, 17, 19, 22, 26, 27, 29, 31,
                  32, 35, 37, 40, 41, 44, 47, 50, 51, 53, 54, 57, 59, 60, 63}]

\* The least significant bit goes out of a word.
ShiftOut(polynomial, w) ==
  IF 0 \in w THEN Xor(Shr(w, 1), polynomial) ELSE Shr(w, 1)

\* One entry of crc32_table and crc64_table.
TableEntry(polynomial, index) ==
  LET entry[bit \in 0 .. 8] ==
        IF bit = 0 THEN index ELSE ShiftOut(polynomial, entry[bit - 1])
  IN  entry[8]

\* update_crc32_state and update_crc64_state: one byte, and all.
TakeByte(polynomial, w, byte) ==
  Xor(TableEntry(polynomial, Xor(w \cap 0 .. 7, byte)), Shr(w, 8))

update_crc_state(polynomial, word, bytes) ==
  LET state[k \in 0 .. Len(bytes)] ==
        IF k = 0 THEN word ELSE TakeByte(polynomial, state[k - 1], bytes[k])
  IN  state[Len(bytes)]

\* SHA-256 is a library's: some bits that depend on the bytes absorbed.
Sha256Digest(bytes) ==
  {Len(bytes)} \cup UNION {{8 * k + i : i \in bytes[k]} : k \in DOMAIN bytes}

-----------------------------------------------------------------------------
(* Standard base64; a character is its code. *)

PAD == 61

\* The character of a sextet.
Alphabet(n) ==
  IF n < 26 THEN 65 + n ELSE IF n < 52 THEN 71 + n
  ELSE IF n < 62 THEN n - 4 ELSE IF n = 62 THEN 43 ELSE 47

Bit(w, width, p) == IF width - 1 - p \in w THEN 1 ELSE 0
Sextet(w, width, m) ==
  32 * Bit(w, width, 6 * m) + 16 * Bit(w, width, 6 * m + 1)
  + 8 * Bit(w, width, 6 * m + 2) + 4 * Bit(w, width, 6 * m + 3)
  + 2 * Bit(w, width, 6 * m + 4) + Bit(w, width, 6 * m + 5)

\* The text of the big-endian bytes of a word: sextets from the most
\* significant bit, zero bits after the least, padding to whole quadruples.
encode(w, width) ==
  [m \in 1 .. 4 * ((width + 23) \div 24) |->
     IF m <= (width + 5) \div 6 THEN Alphabet(Sextet(w, width, m - 1)) ELSE PAD]

\* The characters that valid_base64_digest admits, and the value of one.
Admitted == (48 .. 57) \cup (65 .. 90) \cup (97 .. 122) \cup {43, 47}
ValueOf(c) ==
  IF c \in 65 .. 90 THEN c - 65 ELSE IF c \in 97 .. 122 THEN c - 97 + 26
  ELSE IF c \in 48 .. 57 THEN c - 48 + 52 ELSE IF c = 43 THEN 62 ELSE 63

\* Mutant of valid_base64_digest: the unused bits of the last character of the
\* data are not looked at.
valid_base64_digest_lax(text, digest_length) ==
  LET encoded_length == ((digest_length + 2) \div 3) * 4
      padding == IF digest_length % 3 = 0 THEN 0 ELSE 3 - (digest_length % 3)
      data_length == encoded_length - padding
  IN  /\ Len(text) = encoded_length
      /\ \A i \in 1 .. data_length : text[i] \in Admitted
      /\ \A i \in data_length + 1 .. encoded_length : text[i] = PAD

\* Mutant of valid_base64_digest: the padding counts the bytes left over.
valid_base64_digest_padded(text, digest_length) ==
  LET encoded_length == ((digest_length + 2) \div 3) * 4
      padding == digest_length % 3
      data_length == encoded_length - padding
  IN  /\ Len(text) = encoded_length
      /\ \A i \in 1 .. data_length : text[i] \in Admitted
      /\ \A i \in data_length + 1 .. encoded_length : text[i] = PAD
      /\ padding = 1 => ValueOf(text[data_length]) % 4 = 0
      /\ padding = 2 => ValueOf(text[data_length]) % 16 = 0

valid_base64_digest(text, digest_length) ==
  LET encoded_length == ((digest_length + 2) \div 3) * 4
      padding == IF digest_length % 3 = 0 THEN 0 ELSE 3 - (digest_length % 3)
      data_length == encoded_length - padding
  IN  /\ Len(text) = encoded_length
      /\ \A i \in 1 .. data_length : text[i] \in Admitted
      /\ \A i \in data_length + 1 .. encoded_length : text[i] = PAD
      /\ padding = 1 => ValueOf(text[data_length]) % 4 = 0
      /\ padding = 2 => ValueOf(text[data_length]) % 16 = 0

\* The digest lengths checksum_headers and response_checksums ask for.
DigestLength ==
  [Crc32 |-> 4, Crc32c |-> 4, Crc64Nvme |-> 8, Sha1 |-> 20, Sha256 |-> 32]

-----------------------------------------------------------------------------
\* The text of a digest whose leading bytes are zero, but for its last
\* characters, which are the caller's.
Supplied(algorithm, tail) ==
  [m \in 1 .. 4 * ((DigestLength[algorithm] - 1) \div 3) |-> Alphabet(0)] \o tail

Init ==
  /\ \/ call \in [way : {"calculate", "calculate_cooperatively"},
                  algorithm : Algorithms, body : Bodies]
        /\ checksum = {}
     \/ \E algorithm \in Algorithms, tail \in Tails :
          /\ call = [way |-> "supplied", algorithm |-> algorithm, body |-> <<>>]
          /\ checksum = {Supplied(algorithm, tail)}
  /\ consumed = 0
  /\ value = IF call.algorithm \in Crcs THEN Ones(Width[call.algorithm]) ELSE {}
  /\ verdict = "open"

\* The digest of the whole body once it is consumed.
Finalized(word) ==
  IF call.algorithm \in Crcs THEN Not(word, Width[call.algorithm])
  ELSE Sha256Digest(call.body)

\* SHA-1 is not calculated locally.
Refuse ==
  /\ checksum = {} /\ verdict = "open"
  /\ call.algorithm = "Sha1"
  /\ verdict' = "unsupported"
  /\ UNCHANGED <<call, consumed, value, checksum>>

Updated(bytes) ==
  IF call.algorithm \in Crcs
  THEN update_crc_state(Polynomial[call.algorithm], value, bytes) ELSE value

\* Checksum::calculate: the whole body at once.
calculate ==
  /\ checksum = {} /\ call.way = "calculate" /\ call.algorithm # "Sha1"
  /\ consumed' = Len(call.body)
  /\ value' = Updated(call.body)
  /\ checksum' = {encode(Finalized(value'), Width[call.algorithm])}
  /\ UNCHANGED <<call, verdict>>

\* Mutant of Chunk: every chunk starts the calculation again.
ChunkAfresh ==
  /\ checksum = {} /\ call.way = "calculate_cooperatively"
  /\ call.algorithm # "Sha1" /\ consumed < Len(call.body)
  /\ LET next == IF consumed + ChunkSize < Len(call.body)
                 THEN consumed + ChunkSize ELSE Len(call.body)
     IN  /\ consumed' = next
         /\ value' = IF call.algorithm \in Crcs
                     THEN update_crc_state(Polynomial[call.algorithm],
                                           Ones(Width[call.algorithm]),
                                           SubSeq(call.body, consumed + 1, next))
                     ELSE value
  /\ UNCHANGED <<call, checksum, verdict>>

\* One chunk of a cooperative calculation, up to its yield.
Chunk ==
  /\ checksum = {} /\ call.way = "calculate_cooperatively"
  /\ call.algorithm # "Sha1" /\ consumed < Len(call.body)
  /\ LET next == IF consumed + ChunkSize < Len(call.body)
                 THEN consumed + ChunkSize ELSE Len(call.body)
     IN  /\ consumed' = next
         /\ value' = Updated(SubSeq(call.body, consumed + 1, next))
  /\ UNCHANGED <<call, checksum, verdict>>

\* The end of a cooperative calculation.
Finish ==
  /\ checksum = {} /\ call.way = "calculate_cooperatively"
  /\ call.algorithm # "Sha1" /\ consumed = Len(call.body)
  /\ checksum' = {encode(Finalized(value), Width[call.algorithm])}
  /\ UNCHANGED <<call, consumed, value, verdict>>

\* insert_checksum, and optional_checksum_header on the service's answer.
Validate ==
  /\ verdict = "open"
  /\ \E text \in checksum :
       verdict' = IF valid_base64_digest(text, DigestLength[call.algorithm])
                  THEN "accepted" ELSE "refused"
  /\ UNCHANGED <<call, consumed, value, checksum>>

Next == Refuse \/ calculate \/ Chunk \/ Finish \/ Validate

Spec == Init /\ [][Next]_vars

-----------------------------------------------------------------------------
(* The definition of a CRC. *)

\* The generator polynomials of the standards, without their leading term.
Generator ==
  [Crc32 |-> {26, 23, 22, 16, 12, 11, 10, 8, 7, 5, 4, 2, 1, 0},
   Crc32c |-> {28, 27, 26, 25, 23, 22, 20, 19, 18, 14, 13, 11, 10, 9, 8, 6, 0},
   Crc64Nvme |-> {63, 61, 59, 58, 56, 55, 52, 49, 48, 47, 46, 44, 41, 37, 36,
                  34, 32, 31, 28, 26, 23, 22, 19, 16, 13, 12, 10, 9, 6, 4, 3, 0}]

\* The polynomial of a body, each byte read from its least significant bit.
BodyPolynomial(body) ==
  UNION {{8 * (Len(body) - k) + 7 - i : i \in body[k]} : k \in DOMAIN body}

\* One step of a long division: the term of degree d is removed.
Reduced(p, generator, width, d) ==
  IF d \in p THEN Xor(p, {e + d - width : e \in generator \cup {width}}) ELSE p

\* Long division by the generator, from the highest degree downwards.
Remainder(polynomial, generator, width, degrees) ==
  LET rest[k \in 0 .. degrees] ==
        IF k = 0 THEN polynomial
        ELSE Reduced(rest[k - 1], generator, width, width + degrees - k)
  IN  rest[degrees]

\* The CRC of a body: its polynomial times x^width, the first width
\* coefficients inverted, divided; the remainder inverted and reflected.
Crc(algorithm, body) ==
  LET width == Width[algorithm]
      shifted == {e + width : e \in BodyPolynomial(body)}
      preset == {8 * Len(body) + i : i \in Ones(width)}
      rest == Remainder(Xor(shifted, preset), Generator[algorithm], width,
                        8 * Len(body))
  IN  {width - 1 - e : e \in Not(rest, width)}

-----------------------------------------------------------------------------
(* What is checked. *)

\* The shape of a calculation: the running word fits its width, and no more
\* is consumed than there is.
TypeOK ==
  /\ call.algorithm \in Algorithms /\ call.body \in Bodies \cup {<<>>}
  /\ consumed \in 0 .. Len(call.body)
  /\ value \subseteq Ones(Width[call.algorithm])
  /\ Cardinality(checksum) <= 1
  /\ verdict \in {"open", "accepted", "refused", "unsupported"}

\* A calculated CRC is the remainder the standards define, whether the body is
\* taken at once or in chunks between yields (Checksum::calculate,
\* calculate_cooperatively, crc32_table, crc64_table): the reflected tables
\* compute the division, for every length around a chunk boundary.
ChecksumsAreRemainders ==
  call.way # "supplied" /\ call.algorithm \in Crcs =>
    \A text \in checksum :
      text = encode(Crc(call.algorithm, call.body), Width[call.algorithm])

\* What the client calculates passes its own validation of checksum headers
\* (insert_checksum, optional_checksum_header): the digest lengths and the
\* padding of each algorithm agree on both sides.
CalculatedChecksumsAreAccepted ==
  call.way # "supplied" => verdict # "refused"

\* The digest of the given width that a text stands for, each character six
\* bits; bits that the text does not give are zero.
Read(c) == IF \E n \in 0 .. 63 : Alphabet(n) = c
           THEN CHOOSE n \in 0 .. 63 : Alphabet(n) = c ELSE 0

Decoded(text, width) ==
  LET read == [m \in DOMAIN text |-> Read(text[m])]
  IN  {b \in Ones(width) :
         LET p == width - 1 - b
         IN  /\ (p \div 6) < Len(text)
             /\ (read[(p \div 6) + 1] \div <<32, 16, 8, 4, 2, 1>>[(p % 6) + 1]) % 2 = 1}

\* A text is that of a digest if it is what its own digest is written as.
IsDigestText(text, algorithm) ==
  text = encode(Decoded(text, Width[algorithm]), Width[algorithm])

\* A supplied checksum is sent exactly when it is the text of some digest of
\* the algorithm's length (valid_base64_digest): checksums are compared as
\* texts, so a second text for the same digest would be a false mismatch.
AcceptedChecksumsAreCanonical ==
  \A text \in checksum :
    call.way = "supplied" /\ verdict # "open" =>
      (verdict = "accepted" <=> IsDigestText(text, call.algorithm))

=============================================================================
