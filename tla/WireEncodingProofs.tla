-------------------------- MODULE WireEncodingProofs --------------------------
(***************************************************************************)
(* What the encoders, the canonical forms and the service's reading of      *)
(* them compute, for byte strings of every length.                          *)
(***************************************************************************)
EXTENDS SigV4Service, SequenceTheorems, WellFoundedInduction, TLAPS

-------------------------------------------------------------------------------
(* Induction, with a set of good values in place of a predicate. *)

(* Every set of natural numbers has a least one. *)
LEMMA LeastNumber ==
    ASSUME NEW T \in SUBSET Nat, T # {}
    PROVE  \E n \in T : \A m \in T : n <= m
<1>1. \E n \in T : \A m \in T : ~(<<m, n>> \in OpToRel(<, Nat))
  BY NatLessThanWellFounded, WFMin, Zenon
<1>2. OpToRel(<, Nat) = {ss \in Nat \X Nat : ss[1] < ss[2]}
  BY Zenon DEF OpToRel
<1>3. \E n \in T : \A m \in T : <<m, n>> \notin {ss \in Nat \X Nat : ss[1] < ss[2]}
  BY <1>1, <1>2, Zenon
<1>4. \A n, m \in T : <<m, n>> \notin {ss \in Nat \X Nat : ss[1] < ss[2]} => n <= m
  OBVIOUS
<1>5. QED
  BY <1>3, <1>4, Zenon

LEMMA NumbersByStep ==
    ASSUME NEW X, 0 \in X, \A n \in Nat : n \in X => n + 1 \in X
    PROVE  Nat \subseteq X
<1> DEFINE T == Nat \ X
<1>1. SUFFICES ASSUME T # {} PROVE FALSE
  OBVIOUS
<1>2. PICK n \in T : \A m \in T : n <= m
  BY <1>1, LeastNumber
<1>3. n # 0 /\ n - 1 \in Nat /\ n - 1 \in X
  BY <1>2
<1>4. QED
  BY <1>2, <1>3

LEMMA StringsByAppend ==
    ASSUME NEW S, NEW X, <<>> \in X,
           \A s \in Seq(S) : s \in X => \A c \in S : Append(s, c) \in X
    PROVE  Seq(S) \subseteq X
<1> DEFINE Y == {n \in Nat : \A s \in Seq(S) : Len(s) = n => s \in X}
<1>1. 0 \in Y
  BY EmptySeq
<1>2. ASSUME NEW n \in Nat, n \in Y PROVE n + 1 \in Y
  <2>1. SUFFICES ASSUME NEW s \in Seq(S), Len(s) = n + 1 PROVE s \in X
    OBVIOUS
  <2> DEFINE f == SubSeq(s, 1, n)
  <2>2. f \in Seq(S) /\ Len(f) = n /\ s[n + 1] \in S
    BY <2>1
  <2>3. s = Append(f, s[n + 1])
    BY <2>1
  <2>4. QED
    BY <1>2, <2>2, <2>3
<1>3. Nat \subseteq Y
  <2> HIDE DEF Y
  <2> QED BY <1>1, <1>2, NumbersByStep
<1>4. QED
  BY <1>3
-------------------------------------------------------------------------------
(* Concatenations of pieces. *)

(* A function with the concatenation of every prefix. *)
Stages(f, pieces) ==
    \A i \in 1..Len(pieces) : f[i] = IF i = 1 THEN pieces[i] ELSE f[i - 1] \o pieces[i]

(* The pieces of one are the first pieces of the other. *)
Begins(p, q) == Len(p) <= Len(q) /\ \A i \in 1..Len(p) : p[i] = q[i]

(* There is one. *)
LEMMA StagesExist ==
    ASSUME NEW S, NEW pieces \in Seq(Seq(S))
    PROVE  \E f \in [1..Len(pieces) -> Seq(S)] : Stages(f, pieces)
<1> DEFINE Eq(f, n) == \A i \in 1..n : f[i] = IF i = 1 THEN pieces[i] ELSE f[i - 1] \o pieces[i]
           X == {n \in Nat : n <= Len(pieces) => \E f \in [1..n -> Seq(S)] : Eq(f, n)}
<1>1. 0 \in X
  <2> DEFINE e == [i \in 1..0 |-> i]
  <2>1. 1..0 = {}
    OBVIOUS
  <2>2. e \in [1..0 -> Seq(S)] /\ Eq(e, 0)
    BY <2>1
  <2>3. QED
    BY <2>2
<1>2. ASSUME NEW n \in Nat, n \in X PROVE n + 1 \in X
  <2>1. SUFFICES ASSUME n + 1 <= Len(pieces) PROVE \E f \in [1..(n + 1) -> Seq(S)] : Eq(f, n + 1)
    <3> HIDE DEF Eq
    <3> QED OBVIOUS
  <2>2. PICK f \in [1..n -> Seq(S)] : Eq(f, n)
    BY <1>2, <2>1
  <2> DEFINE Next(i) == IF i = 1 THEN pieces[i] ELSE f[i - 1] \o pieces[i]
             g == [i \in 1..(n + 1) |-> IF i <= n THEN f[i] ELSE Next(i)]
  <2>3. pieces[n + 1] \in Seq(S)
    BY <2>1
  <2>4. Next(n + 1) \in Seq(S)
    <3>1. n # 0 => f[n] \in Seq(S)
      OBVIOUS
    <3>2. n # 0 => f[n] \o pieces[n + 1] \in Seq(S)
      BY <2>3, <3>1, ConcatProperties
    <3>3. n + 1 - 1 = n /\ (n + 1 = 1 <=> n = 0)
      OBVIOUS
    <3>4. QED
      BY <2>3, <3>2, <3>3
  <2>5. \A i \in 1..(n + 1) : i <= n \/ i = n + 1
    OBVIOUS
  <2>6. g \in [1..(n + 1) -> Seq(S)]
    <3> HIDE DEF Next
    <3>1. \A i \in 1..(n + 1) : i <= n => f[i] \in Seq(S)
      OBVIOUS
    <3>2. \A i \in 1..(n + 1) : (IF i <= n THEN f[i] ELSE Next(i)) \in Seq(S)
      BY <2>4, <2>5, <3>1
    <3>3. QED
      BY <3>2
  <2>7. Eq(g, n + 1)
    <3>1. \A i \in 1..(n + 1) : g[i] = Next(i)
      <4>1. \A i \in 1..n : f[i] = Next(i)
        BY <2>2
      <4> HIDE DEF Next
      <4>2. QED
        BY <4>1, <2>5
    <3>2. \A i \in 1..(n + 1) : i # 1 => g[i - 1] = f[i - 1]
      OBVIOUS
    <3> HIDE DEF g
    <3>3. QED
      BY <3>1, <3>2
  <2> HIDE DEF g, Eq
  <2>8. QED
    BY <2>6, <2>7
<1>3. Nat \subseteq X
  <2> HIDE DEF X
  <2> QED BY <1>1, <1>2, NumbersByStep
<1>4. PICK f \in [1..Len(pieces) -> Seq(S)] : Eq(f, Len(pieces))
  <2> HIDE DEF Eq
  <2>1. Len(pieces) \in Nat
    OBVIOUS
  <2>2. QED
    BY <1>3, <2>1
<1>5. Stages(f, pieces)
  BY <1>4, Zenon DEF Stages
<1>6. QED
  BY <1>5

(* Two of them agree where their pieces do. *)
LEMMA StagesAgree ==
    ASSUME NEW p, NEW q, NEW f, NEW g, Stages(f, p), Stages(g, q), Begins(p, q),
           Len(p) \in Nat \ {0}, Len(q) \in Nat
    PROVE  f[Len(p)] = g[Len(p)]
<1> DEFINE n == Len(p)
<1> DEFINE X == {k \in Nat : k <= n /\ k # 0 => f[k] = g[k]}
<1>1. 0 \in X
  OBVIOUS
<1>2. ASSUME NEW k \in Nat, k \in X PROVE k + 1 \in X
  <2>1. CASE k + 1 <= n /\ k # 0
    <3>1. k + 1 \in 1..Len(p) /\ k + 1 \in 1..Len(q) /\ k + 1 # 1 /\ (k + 1) - 1 = k /\ k + 1 \in 1..n
      BY <2>1 DEF Begins
    <3>2. f[k + 1] = f[k] \o p[k + 1] /\ g[k + 1] = g[k] \o q[k + 1]
      BY <3>1 DEF Stages
    <3>3. f[k] = g[k] /\ p[k + 1] = q[k + 1]
      BY <1>2, <2>1, <3>1 DEF Begins
    <3>4. f[k + 1] = g[k + 1]
      BY <3>2, <3>3, Zenon
    <3>5. QED
      BY <3>4
  <2>2. CASE k + 1 <= n /\ k = 0
    <3>1. 1 \in 1..Len(p) /\ 1 \in 1..Len(q) /\ 1 \in 1..n /\ k + 1 = 1
      BY <2>2 DEF Begins
    <3>2. f[1] = p[1] /\ g[1] = q[1] /\ p[1] = q[1]
      BY <3>1 DEF Stages, Begins
    <3>3. QED
      BY <3>1, <3>2
  <2>3. QED
    BY <2>1, <2>2
<1>3. Nat \subseteq X
  <2> HIDE DEF X
  <2> QED BY <1>1, <1>2, NumbersByStep
<1>4. QED
  BY <1>3

(* FlattenSeq is the last of them. *)
LEMMA FlattenIsLastStage ==
    ASSUME NEW S, NEW pieces \in Seq(Seq(S)), Len(pieces) # 0,
           NEW f, Stages(f, pieces)
    PROVE  FlattenSeq(pieces) = f[Len(pieces)]
<1> DEFINE n == Len(pieces)
           Eq(h) == h = [i \in 1..n |-> IF i = 1 THEN pieces[i] ELSE h[i - 1] \o pieces[i]]
           g == CHOOSE h : Eq(h)
<1>1. n \in Nat /\ n \in 1..n
  OBVIOUS
<1>2. PICK h \in [1..n -> Seq(S)] : Stages(h, pieces)
  BY StagesExist
<1>3. Eq(h)
  <2>1. h = [i \in 1..n |-> h[i]]
    OBVIOUS
  <2>2. \A i \in 1..n : h[i] = IF i = 1 THEN pieces[i] ELSE h[i - 1] \o pieces[i]
    BY <1>2, Zenon DEF Stages
  <2>3. [i \in 1..n |-> h[i]] = [i \in 1..n |-> IF i = 1 THEN pieces[i] ELSE h[i - 1] \o pieces[i]]
    BY <2>2, Zenon
  <2>4. QED
    BY <2>1, <2>3, Zenon
<1>4. Eq(g)
  <2> HIDE DEF Eq
  <2> QED BY <1>3, Zenon
<1>5. FlattenSeq(pieces) = g[n]
  BY Zenon DEF FlattenSeq
<1>6. Stages(g, pieces)
  <2> HIDE DEF g
  <2>1. \A i \in 1..n : [j \in 1..n |-> IF j = 1 THEN pieces[j] ELSE g[j - 1] \o pieces[j]][i]
                         = IF i = 1 THEN pieces[i] ELSE g[i - 1] \o pieces[i]
    BY Zenon
  <2>2. \A i \in 1..n : g[i] = IF i = 1 THEN pieces[i] ELSE g[i - 1] \o pieces[i]
    BY <1>4, <2>1, Zenon
  <2>3. QED
    BY <2>2, Zenon DEF Stages
<1>7. g[n] = f[n]
  <2> HIDE DEF g
  <2>1. Begins(pieces, pieces)
    BY <1>1 DEF Begins
  <2>2. QED
    BY <1>1, <1>6, <2>1, StagesAgree
<1>8. QED
  BY <1>1, <1>5, <1>7, Zenon

LEMMA FlattenEmpty == FlattenSeq(<<>>) = <<>>
BY DEF FlattenSeq

LEMMA FlattenType ==
    ASSUME NEW S, NEW pieces \in Seq(Seq(S))
    PROVE  FlattenSeq(pieces) \in Seq(S)
<1>1. CASE Len(pieces) = 0
  BY <1>1, FlattenEmpty, EmptySeq
<1>2. CASE Len(pieces) # 0
  <2>1. PICK h \in [1..Len(pieces) -> Seq(S)] : Stages(h, pieces)
    BY StagesExist
  <2>2. Len(pieces) \in 1..Len(pieces)
    BY <1>2
  <2>3. FlattenSeq(pieces) = h[Len(pieces)]
    BY <1>2, <2>1, FlattenIsLastStage
  <2>4. QED
    BY <2>2, <2>3
<1>3. QED
  BY <1>1, <1>2

(* One more piece. *)
LEMMA FlattenAppend ==
    ASSUME NEW S, NEW pieces \in Seq(Seq(S)), NEW last \in Seq(S)
    PROVE  FlattenSeq(Append(pieces, last)) = FlattenSeq(pieces) \o last
<1> DEFINE more == Append(pieces, last)
           n == Len(pieces)
<1>1. more \in Seq(Seq(S)) /\ Len(more) = n + 1 /\ more[n + 1] = last /\ n \in Nat
      /\ \A i \in 1..n : more[i] = pieces[i]
  OBVIOUS
<1> HIDE DEF more
<1>2. PICK g : Stages(g, more)
  BY <1>1, StagesExist
<1>3. FlattenSeq(more) = g[n + 1]
  <2>1. Len(more) # 0
    BY <1>1
  <2>2. FlattenSeq(more) = g[Len(more)]
    BY <1>1, <1>2, <2>1, FlattenIsLastStage
  <2>3. QED
    BY <1>1, <2>2
<1>4. CASE n = 0
  <2>1. g[1] = last
    <3>1. 1 \in 1..Len(more)
      BY <1>1, <1>4
    <3>2. QED
      BY <1>1, <1>2, <1>4, <3>1 DEF Stages
  <2>2. pieces = <<>>
    BY <1>4, EmptySeq
  <2>3. QED
    BY <1>3, <1>4, <2>1, <2>2, FlattenEmpty, ConcatEmptySeq DEF more
<1>5. CASE n # 0
  <2>1. PICK f : Stages(f, pieces)
    BY StagesExist
  <2>2. FlattenSeq(pieces) = f[n]
    BY <1>5, <2>1, FlattenIsLastStage
  <2>3. f[n] = g[n]
    <3>1. Len(more) \in Nat /\ Len(pieces) \in Nat \ {0} /\ Len(pieces) <= Len(more)
      BY <1>1, <1>5
    <3>2. \A i \in 1..Len(pieces) : pieces[i] = more[i]
      BY <1>1, Zenon
    <3>3. Begins(pieces, more)
      BY <3>1, <3>2, Zenon DEF Begins
    <3>4. QED
      BY <1>2, <2>1, <3>1, <3>3, StagesAgree
  <2>4. g[n + 1] = g[n] \o last
    <3>1. n + 1 \in 1..Len(more) /\ n + 1 # 1 /\ (n + 1) - 1 = n
      BY <1>1, <1>5
    <3> HIDE DEF n
    <3>2. QED
      BY <1>1, <1>2, <3>1, Zenon DEF Stages
  <2>5. QED
    BY <1>3, <2>2, <2>3, <2>4, Zenon DEF more
<1>6. QED
  BY <1>4, <1>5

Associates(s, t, u) == (s \o t) \o u = s \o (t \o u)

LEMMA SequencesAssociate ==
    ASSUME NEW S, NEW s \in Seq(S), NEW t \in Seq(S), NEW u \in Seq(S)
    PROVE  Associates(s, t, u)
<1> DEFINE p == (s \o t) \o u
           q == s \o (t \o u)
<1>1. p \in Seq(S) /\ Len(p) = Len(s) + Len(t) + Len(u)
  OBVIOUS
<1>2. q \in Seq(S) /\ Len(q) = Len(s) + Len(t) + Len(u)
  OBVIOUS
<1>3. \A i \in 1..Len(p) : p[i] = q[i]
  OBVIOUS
<1> HIDE DEF p, q
<1>4. p = q
  BY <1>1, <1>2, <1>3
<1>5. QED
  BY <1>4, Zenon DEF p, q, Associates

LEMMA FlattenConcat ==
    ASSUME NEW S, NEW p \in Seq(Seq(S)), NEW q \in Seq(Seq(S))
    PROVE  FlattenSeq(p \o q) = FlattenSeq(p) \o FlattenSeq(q)
<1> DEFINE X == {r \in Seq(Seq(S)) : FlattenSeq(p \o r) = FlattenSeq(p) \o FlattenSeq(r)}
<1>1. <<>> \in X
  BY FlattenEmpty, FlattenType, ConcatEmptySeq, EmptySeq
<1>2. ASSUME NEW r \in Seq(Seq(S)), r \in X, NEW c \in Seq(S) PROVE Append(r, c) \in X
  <2>1. p \o Append(r, c) = Append(p \o r, c) /\ p \o r \in Seq(Seq(S)) /\ Append(r, c) \in Seq(Seq(S))
    OBVIOUS
  <2>2. FlattenSeq(p \o Append(r, c)) = (FlattenSeq(p) \o FlattenSeq(r)) \o c
    BY <1>2, <2>1, FlattenAppend
  <2>3. FlattenSeq(p) \in Seq(S) /\ FlattenSeq(r) \in Seq(S)
    BY FlattenType
  <2>4. (FlattenSeq(p) \o FlattenSeq(r)) \o c = FlattenSeq(p) \o (FlattenSeq(r) \o c)
    <3>1. Associates(FlattenSeq(p), FlattenSeq(r), c)
      BY <2>3, SequencesAssociate, Zenon
    <3>2. QED
      BY <3>1, Zenon DEF Associates
  <2>5. FlattenSeq(Append(r, c)) = FlattenSeq(r) \o c
    BY FlattenAppend
  <2>6. QED
    BY <2>1, <2>2, <2>4, <2>5, Zenon
<1>3. Seq(Seq(S)) \subseteq X
  <2> HIDE DEF X
  <2> QED BY <1>1, <1>2, StringsByAppend
<1>4. QED
  BY <1>3
-------------------------------------------------------------------------------
(* Bytes and triplets. *)

(* The algebra of byte strings. *)
LEMMA Strings ==
    /\ <<>> \in Seq(Byte)
    /\ \A s \in Seq(Byte) : s \o <<>> = s /\ <<>> \o s = s
    /\ \A s, t \in Seq(Byte) : s \o t \in Seq(Byte)
    /\ \A s \in Seq(Byte), c \in Byte : Append(s, c) \in Seq(Byte) /\ Append(s, c) = s \o <<c>>
    /\ \A s, t \in Seq(Byte), c \in Byte : s \o Append(t, c) = Append(s \o t, c)
    /\ \A c \in Byte : <<c>> \in Seq(Byte) /\ Append(<<>>, c) = <<c>>
OBVIOUS

LEMMA StringsAssociate == \A s, t, u \in Seq(Byte) : Associates(s, t, u)
BY SequencesAssociate, Zenon

(* What ServiceEncode makes of one byte. *)
EncodedByte(c, kept) ==
    IF c \in kept THEN <<c>> ELSE <<PERCENT, HexDigit(c \div 16), HexDigit(c % 16)>>

(* The digits a triplet is written with. *)
UpperHex == Digits \cup 65..70

LEMMA HexRoundTrip ==
    ASSUME NEW v \in 0..15
    PROVE  HexDigit(v) \in UpperHex /\ hex_value(HexDigit(v)) = v
BY DEF HexDigit, hex_value, UpperHex, Digits, Upper

LEMMA ByteDigits ==
    ASSUME NEW c \in Byte
    PROVE  c \div 16 \in 0..15 /\ c % 16 \in 0..15 /\ 16 * (c \div 16) + (c % 16) = c
BY DEF Byte

LEMMA DigitsAreBytes == UpperHex \subseteq HexDigits /\ HexDigits \subseteq Byte
                        /\ PERCENT \in Byte /\ PERCENT \notin HexDigits
BY DEF UpperHex, HexDigits, Digits, PERCENT, Byte

LEMMA EncodedByteType ==
    ASSUME NEW c \in Byte, NEW kept
    PROVE  /\ EncodedByte(c, kept) \in Seq(Byte)
           /\ c \in kept => EncodedByte(c, kept) = <<c>>
           /\ c \notin kept => /\ Len(EncodedByte(c, kept)) = 3
                               /\ EncodedByte(c, kept)[1] = PERCENT
                               /\ EncodedByte(c, kept)[2] = HexDigit(c \div 16)
                               /\ EncodedByte(c, kept)[3] = HexDigit(c % 16)
                               /\ HexDigit(c \div 16) \in UpperHex /\ HexDigit(c % 16) \in UpperHex
<1>1. HexDigit(c \div 16) \in UpperHex /\ HexDigit(c % 16) \in UpperHex
  BY ByteDigits, HexRoundTrip
<1>2. HexDigit(c \div 16) \in Byte /\ HexDigit(c % 16) \in Byte /\ PERCENT \in Byte
  BY <1>1, DigitsAreBytes
<1>3. <<PERCENT, HexDigit(c \div 16), HexDigit(c % 16)>> \in Seq(Byte)
  BY <1>2
<1>4. CASE c \in kept
  <2>1. EncodedByte(c, kept) = <<c>>
    BY <1>4 DEF EncodedByte
  <2>2. <<c>> \in Seq(Byte)
    OBVIOUS
  <2>3. QED
    BY <1>4, <2>1, <2>2
<1>5. CASE c \notin kept
  <2>1. EncodedByte(c, kept) = <<PERCENT, HexDigit(c \div 16), HexDigit(c % 16)>>
    BY <1>5 DEF EncodedByte
  <2> DEFINE x == HexDigit(c \div 16)
             y == HexDigit(c % 16)
  <2> HIDE DEF x, y
  <2>2. Len(<<PERCENT, x, y>>) = 3 /\ <<PERCENT, x, y>>[1] = PERCENT /\ <<PERCENT, x, y>>[2] = x
        /\ <<PERCENT, x, y>>[3] = y
    OBVIOUS
  <2>3. QED
    BY <1>1, <1>3, <1>5, <2>1, <2>2, Zenon DEF x, y
<1>6. QED
  BY <1>4, <1>5

-------------------------------------------------------------------------------
(* The encoder, byte by byte. *)

LEMMA EncodePieces ==
    ASSUME NEW s \in Seq(Byte), NEW kept
    PROVE  /\ ServiceEncode(s, kept) = FlattenSeq([i \in 1..Len(s) |-> EncodedByte(s[i], kept)])
           /\ [i \in 1..Len(s) |-> EncodedByte(s[i], kept)] \in Seq(Seq(Byte))
<1>1. DOMAIN s = 1..Len(s)
  OBVIOUS
<1>2. \A i \in 1..Len(s) : EncodedByte(s[i], kept) \in Seq(Byte)
  BY EncodedByteType
<1>3. [i \in 1..Len(s) |-> EncodedByte(s[i], kept)] \in Seq(Seq(Byte))
  BY <1>2
<1>4. ServiceEncode(s, kept) = FlattenSeq([i \in 1..Len(s) |-> EncodedByte(s[i], kept)])
  BY <1>1, Zenon DEF ServiceEncode, EncodedByte
<1>5. QED
  BY <1>3, <1>4

LEMMA EncodeType ==
    ASSUME NEW s \in Seq(Byte), NEW kept
    PROVE  ServiceEncode(s, kept) \in Seq(Byte)
<1>1. FlattenSeq([i \in 1..Len(s) |-> EncodedByte(s[i], kept)]) \in Seq(Byte)
  BY EncodePieces, FlattenType, Zenon
<1>2. QED
  BY <1>1, EncodePieces, Zenon

LEMMA EncodeEmpty ==
    ASSUME NEW kept
    PROVE  ServiceEncode(<<>>, kept) = <<>>
<1>1. <<>> \in Seq(Byte)
  BY EmptySeq
<1>2. [i \in 1..Len(<<>>) |-> EncodedByte(<<>>[i], kept)] = <<>>
  OBVIOUS
<1>3. QED
  BY <1>1, <1>2, EncodePieces, FlattenEmpty

LEMMA EncodeAppend ==
    ASSUME NEW s \in Seq(Byte), NEW c \in Byte, NEW kept
    PROVE  ServiceEncode(Append(s, c), kept) = ServiceEncode(s, kept) \o EncodedByte(c, kept)
<1> DEFINE t == Append(s, c)
           p == [i \in 1..Len(s) |-> EncodedByte(s[i], kept)]
           q == [i \in 1..Len(t) |-> EncodedByte(t[i], kept)]
           e == EncodedByte(c, kept)
<1>1. t \in Seq(Byte) /\ Len(t) = Len(s) + 1 /\ t[Len(s) + 1] = c /\ \A i \in 1..Len(s) : t[i] = s[i]
  OBVIOUS
<1>2. p \in Seq(Seq(Byte)) /\ q \in Seq(Seq(Byte)) /\ e \in Seq(Byte)
  BY <1>1, EncodePieces, EncodedByteType
<1>3. q = Append(p, e)
  <2>1. Len(p) = Len(s) /\ Len(Append(p, e)) = Len(s) + 1 /\ Len(q) = Len(s) + 1
    BY <1>1, <1>2
  <2>2. \A i \in 1..Len(s) : q[i] = EncodedByte(s[i], kept)
    BY <1>1
  <2>3. q[Len(s) + 1] = e
    BY <1>1
  <2>4. \A i \in 1..Len(s) : Append(p, e)[i] = p[i] /\ p[i] = EncodedByte(s[i], kept)
    BY <1>2
  <2>5. Append(p, e)[Len(s) + 1] = e
    BY <1>2, <2>1
  <2>6. \A i \in 1..(Len(s) + 1) : i \in 1..Len(s) \/ i = Len(s) + 1
    OBVIOUS
  <2> HIDE DEF p, q, e
  <2>7. \A i \in 1..Len(q) : q[i] = Append(p, e)[i]
    BY <2>1, <2>2, <2>3, <2>4, <2>5, <2>6, Zenon
  <2>8. Append(p, e) \in Seq(Seq(Byte))
    BY <1>2
  <2>9. QED
    BY <1>2, <2>1, <2>7, <2>8, SeqEqual, Zenon
<1>4. ServiceEncode(t, kept) = FlattenSeq(q) /\ ServiceEncode(s, kept) = FlattenSeq(p)
  BY <1>1, EncodePieces
<1> HIDE DEF p, q, e, t
<1>5. FlattenSeq(Append(p, e)) = FlattenSeq(p) \o e
  BY <1>2, FlattenAppend
<1>6. QED
  BY <1>3, <1>4, <1>5, Zenon DEF t, e

LEMMA EncodeConcat ==
    ASSUME NEW s \in Seq(Byte), NEW t \in Seq(Byte), NEW kept
    PROVE  ServiceEncode(s \o t, kept) = ServiceEncode(s, kept) \o ServiceEncode(t, kept)
<1> DEFINE X == {r \in Seq(Byte) : ServiceEncode(s \o r, kept) = ServiceEncode(s, kept) \o ServiceEncode(r, kept)}
<1>1. <<>> \in X
  <2>1. ServiceEncode(s, kept) \in Seq(Byte)
    BY EncodeType
  <2>2. QED
    BY <2>1, EncodeEmpty, Strings, Zenon
<1>2. ASSUME NEW r \in Seq(Byte), r \in X, NEW c \in Byte PROVE Append(r, c) \in X
  <2>1. s \o Append(r, c) = Append(s \o r, c) /\ s \o r \in Seq(Byte) /\ Append(r, c) \in Seq(Byte)
    BY Strings, Zenon
  <2>2. ServiceEncode(Append(s \o r, c), kept) = ServiceEncode(s \o r, kept) \o EncodedByte(c, kept)
    BY <2>1, EncodeAppend, Zenon
  <2>3. ServiceEncode(s, kept) \in Seq(Byte) /\ ServiceEncode(r, kept) \in Seq(Byte)
        /\ EncodedByte(c, kept) \in Seq(Byte)
    BY EncodeType, EncodedByteType
  <2>4. (ServiceEncode(s, kept) \o ServiceEncode(r, kept)) \o EncodedByte(c, kept)
          = ServiceEncode(s, kept) \o (ServiceEncode(r, kept) \o EncodedByte(c, kept))
    <3>1. Associates(ServiceEncode(s, kept), ServiceEncode(r, kept), EncodedByte(c, kept))
      BY <2>3, StringsAssociate, Zenon
    <3>2. QED
      BY <3>1, Zenon DEF Associates
  <2>5. ServiceEncode(Append(r, c), kept) = ServiceEncode(r, kept) \o EncodedByte(c, kept)
    BY EncodeAppend
  <2>6. QED
    BY <1>2, <2>1, <2>2, <2>4, <2>5, Zenon
<1>3. Seq(Byte) \subseteq X
  <2> HIDE DEF X
  <2> QED BY <1>1, <1>2, StringsByAppend
<1>4. QED
  BY <1>3

LEMMA EncodeByte ==
    ASSUME NEW c \in Byte, NEW kept
    PROVE  ServiceEncode(<<c>>, kept) = EncodedByte(c, kept)
<1>1. <<>> \in Seq(Byte) /\ Append(<<>>, c) = <<c>>
  BY Strings, Zenon
<1>2. EncodedByte(c, kept) \in Seq(Byte)
  BY EncodedByteType
<1>3. ServiceEncode(Append(<<>>, c), kept) = ServiceEncode(<<>>, kept) \o EncodedByte(c, kept)
  BY <1>1, EncodeAppend, Zenon
<1>4. <<>> \o EncodedByte(c, kept) = EncodedByte(c, kept)
  BY <1>2, Strings, Zenon
<1>5. QED
  BY <1>1, <1>3, <1>4, EncodeEmpty, Zenon

(* The bytes of an encoded string: those kept, percent signs and digits. *)
LEMMA EncodedBytes ==
    ASSUME NEW s \in Seq(Byte), NEW kept
    PROVE  \A i \in 1..Len(ServiceEncode(s, kept)) :
              ServiceEncode(s, kept)[i] \in kept \cup {PERCENT} \cup UpperHex
<1> DEFINE A == kept \cup {PERCENT} \cup UpperHex
           X == {r \in Seq(Byte) : \A i \in 1..Len(ServiceEncode(r, kept)) : ServiceEncode(r, kept)[i] \in A}
<1>1. <<>> \in X
  BY EncodeEmpty, EmptySeq
<1>2. ASSUME NEW r \in Seq(Byte), r \in X, NEW c \in Byte PROVE Append(r, c) \in X
  <2> DEFINE a == ServiceEncode(r, kept)
             b == EncodedByte(c, kept)
  <2>1. a \in Seq(Byte) /\ b \in Seq(Byte)
    BY EncodeType, EncodedByteType
  <2>2. \A i \in 1..Len(a) : a[i] \in A
    BY <1>2
  <2>3. \A i \in 1..Len(b) : b[i] \in A
    <3>1. CASE c \in kept
      BY <3>1, EncodedByteType
    <3>2. CASE c \notin kept
      <4>1. Len(b) = 3 /\ b[1] \in A /\ b[2] \in A /\ b[3] \in A
        BY <3>2, EncodedByteType
      <4>2. QED
        BY <4>1
    <3>3. QED
      BY <3>1, <3>2
  <2>4. ServiceEncode(Append(r, c), kept) = a \o b /\ Append(r, c) \in Seq(Byte)
    BY EncodeAppend
  <2> HIDE DEF a, b, A
  <2>5. \A i \in 1..Len(a \o b) : (a \o b)[i] \in A
    BY <2>1, <2>2, <2>3
  <2>6. QED
    BY <2>4, <2>5
<1>3. Seq(Byte) \subseteq X
  <2> HIDE DEF X
  <2> QED BY <1>1, <1>2, StringsByAppend
<1>4. QED
  BY <1>3

-------------------------------------------------------------------------------
(* Well-encoded strings, and what they stand for. *)

LEMMA TripletFits ==
    ASSUME NEW s \in Seq(Byte), WellEncoded(s), NEW i \in 1..Len(s), s[i] = PERCENT
    PROVE  i + 2 <= Len(s) /\ s[i + 1] \in HexDigits /\ s[i + 2] \in HexDigits
<1>1. i \in DOMAIN s
  OBVIOUS
<1>2. QED
  BY <1>1, Zenon DEF WellEncoded

LEMMA WellEncodedConcat ==
    ASSUME NEW a \in Seq(Byte), NEW b \in Seq(Byte), WellEncoded(a), WellEncoded(b)
    PROVE  WellEncoded(a \o b)
<1>1. SUFFICES ASSUME NEW i \in DOMAIN (a \o b), (a \o b)[i] = PERCENT
               PROVE  /\ i + 2 <= Len(a \o b)
                      /\ (a \o b)[i + 1] \in HexDigits /\ (a \o b)[i + 2] \in HexDigits
  BY DEF WellEncoded
<1>2. i \in Nat /\ Len(a \o b) = Len(a) + Len(b) /\ i \in 1..(Len(a) + Len(b))
  OBVIOUS
<1>3. CASE i <= Len(a)
  <2>1. i \in DOMAIN a /\ a[i] = PERCENT
    BY <1>1, <1>2, <1>3
  <2>2. i + 2 <= Len(a) /\ a[i + 1] \in HexDigits /\ a[i + 2] \in HexDigits
    BY <2>1 DEF WellEncoded
  <2>3. QED
    BY <1>2, <2>2
<1>4. CASE i > Len(a)
  <2> DEFINE j == i - Len(a)
  <2>1. j \in DOMAIN b /\ b[j] = PERCENT
    BY <1>1, <1>2, <1>4
  <2>2. j + 2 <= Len(b) /\ b[j + 1] \in HexDigits /\ b[j + 2] \in HexDigits
    BY <2>1 DEF WellEncoded
  <2>3. QED
    BY <1>2, <1>4, <2>2
<1>5. QED
  BY <1>2, <1>3, <1>4

LEMMA WellEncodedByte ==
    ASSUME NEW c \in Byte, NEW kept, PERCENT \notin kept
    PROVE  WellEncoded(EncodedByte(c, kept))
<1> DEFINE b == EncodedByte(c, kept)
<1>1. CASE c \in kept
  <2>1. b = <<c>> /\ c # PERCENT
    BY <1>1, EncodedByteType
  <2>2. QED
    BY <2>1 DEF WellEncoded
<1>2. CASE c \notin kept
  <2>1. b \in Seq(Byte) /\ Len(b) = 3 /\ b[1] = PERCENT /\ b[2] \in HexDigits /\ b[3] \in HexDigits
    BY <1>2, EncodedByteType, DigitsAreBytes
  <2>2. b[2] # PERCENT /\ b[3] # PERCENT
    BY <2>1, DigitsAreBytes
  <2>3. DOMAIN b = 1..3
    BY <2>1
  <2> HIDE DEF b
  <2>4. QED
    BY <2>1, <2>2, <2>3 DEF WellEncoded, b
<1>3. QED
  BY <1>1, <1>2

(* Whatever is encoded is well-encoded. *)
LEMMA EncodeIsWellEncoded ==
    ASSUME NEW s \in Seq(Byte), NEW kept, PERCENT \notin kept
    PROVE  WellEncoded(ServiceEncode(s, kept))
<1> DEFINE X == {r \in Seq(Byte) : WellEncoded(ServiceEncode(r, kept))}
<1>1. <<>> \in X
  <2>1. WellEncoded(<<>>)
    BY DEF WellEncoded
  <2>2. QED
    BY <2>1, EncodeEmpty, EmptySeq
<1>2. ASSUME NEW r \in Seq(Byte), r \in X, NEW c \in Byte PROVE Append(r, c) \in X
  <2>1. ServiceEncode(r, kept) \in Seq(Byte) /\ EncodedByte(c, kept) \in Seq(Byte)
        /\ WellEncoded(ServiceEncode(r, kept)) /\ WellEncoded(EncodedByte(c, kept))
    BY <1>2, EncodeType, EncodedByteType, WellEncodedByte
  <2>2. WellEncoded(ServiceEncode(r, kept) \o EncodedByte(c, kept))
    BY <2>1, WellEncodedConcat
  <2>3. ServiceEncode(Append(r, c), kept) = ServiceEncode(r, kept) \o EncodedByte(c, kept)
    BY EncodeAppend
  <2>4. QED
    BY <2>2, <2>3, Strings, Zenon
<1>3. Seq(Byte) \subseteq X
  <2> HIDE DEF X
  <2> QED BY <1>1, <1>2, StringsByAppend
<1>4. QED
  BY <1>3

(* The pieces of two strings next to each other. *)
LEMMA PiecesConcat ==
    ASSUME NEW p \in Seq(Seq(Byte)), NEW q \in Seq(Seq(Byte)), NEW r \in Seq(Seq(Byte)),
           Len(r) = Len(p) + Len(q),
           \A i \in 1..Len(p) : r[i] = p[i],
           \A i \in 1..Len(q) : r[Len(p) + i] = q[i]
    PROVE  FlattenSeq(r) = FlattenSeq(p) \o FlattenSeq(q)
<1>1. p \o q \in Seq(Seq(Byte)) /\ Len(p \o q) = Len(p) + Len(q)
  OBVIOUS
<1>2. \A i \in 1..Len(p) : (p \o q)[i] = p[i]
  OBVIOUS
<1>3. \A i \in 1..Len(q) : (p \o q)[Len(p) + i] = q[i]
  OBVIOUS
<1>4. \A i \in 1..Len(r) : i \in 1..Len(p) \/ \E k \in 1..Len(q) : i = Len(p) + k
  <2> TAKE i \in 1..Len(r)
  <2>1. CASE i > Len(p)
    <3>1. i - Len(p) \in 1..Len(q) /\ i = Len(p) + (i - Len(p))
      BY <2>1
    <3>2. QED
      BY <3>1, Zenon
  <2>2. QED
    BY <2>1
<1>5. \A i \in 1..Len(r) : r[i] = (p \o q)[i]
  BY <1>2, <1>3, <1>4, Zenon
<1>6. r = p \o q
  BY <1>1, <1>5, SeqEqual, Zenon
<1>7. QED
  BY <1>6, FlattenConcat, Zenon

(* What decode_url_field makes of the byte at i. *)
DecodedPiece(value, i) ==
    IF value[i] = PERCENT THEN <<16 * hex_value(value[i + 1]) + hex_value(value[i + 2])>>
    ELSE IF InTriplet(value, i) THEN <<>> ELSE <<value[i]>>

DecodedPieces(value) == [i \in 1..Len(value) |-> DecodedPiece(value, i)]

(* The bytes a well-encoded string stands for. *)
Decode(value) == FlattenSeq(DecodedPieces(value))

LEMMA DecodeIs ==
    ASSUME NEW s \in Seq(Byte), WellEncoded(s)
    PROVE  decode_url_field(s) = {Decode(s)}
<1>1. DOMAIN s = 1..Len(s)
  OBVIOUS
<1>2. QED
  BY <1>1, Zenon DEF decode_url_field, Decode, DecodedPieces, DecodedPiece

LEMMA HexValues ==
    ASSUME NEW h \in HexDigits, NEW l \in HexDigits
    PROVE  16 * hex_value(h) + hex_value(l) \in Byte
BY DEF HexDigits, hex_value, Digits, Upper, Byte

LEMMA DecodedPiecesType ==
    ASSUME NEW s \in Seq(Byte), WellEncoded(s)
    PROVE  DecodedPieces(s) \in Seq(Seq(Byte)) /\ Len(DecodedPieces(s)) = Len(s)
<1>1. ASSUME NEW i \in 1..Len(s) PROVE DecodedPiece(s, i) \in Seq(Byte)
  <2>1. CASE s[i] = PERCENT
    <3>1. s[i + 1] \in HexDigits /\ s[i + 2] \in HexDigits
      BY <2>1 DEF WellEncoded
    <3>2. <<16 * hex_value(s[i + 1]) + hex_value(s[i + 2])>> \in Seq(Byte)
      BY <3>1, HexValues, Strings, Zenon
    <3>3. QED
      BY <2>1, <3>2, Zenon DEF DecodedPiece
  <2>2. CASE s[i] # PERCENT
    <3>1. s[i] \in Byte
      OBVIOUS
    <3>2. QED
      BY <2>2, <3>1, Strings, Zenon DEF DecodedPiece
  <2>3. QED
    BY <2>1, <2>2
<1>2. [i \in 1..Len(s) |-> DecodedPiece(s, i)] \in Seq(Seq(Byte))
  BY <1>1
<1>3. Len([i \in 1..Len(s) |-> DecodedPiece(s, i)]) = Len(s)
  OBVIOUS
<1>4. QED
  BY <1>2, <1>3, Zenon DEF DecodedPieces

LEMMA DecodeType ==
    ASSUME NEW s \in Seq(Byte), WellEncoded(s)
    PROVE  Decode(s) \in Seq(Byte)
BY DecodedPiecesType, FlattenType, Zenon DEF Decode

(* A triplet does not reach over the end of a well-encoded string. *)
LEMMA TripletsStayInside ==
    ASSUME NEW a \in Seq(Byte), NEW b \in Seq(Byte), WellEncoded(a)
    PROVE  /\ \A i \in 1..Len(a) : InTriplet(a \o b, i) <=> InTriplet(a, i)
           /\ \A i \in 1..Len(b) : InTriplet(a \o b, Len(a) + i) <=> InTriplet(b, i)
<1> DEFINE c == a \o b
<1>1. c \in Seq(Byte) /\ Len(c) = Len(a) + Len(b) /\ DOMAIN c = 1..(Len(a) + Len(b))
      /\ DOMAIN a = 1..Len(a) /\ DOMAIN b = 1..Len(b) /\ Len(a) \in Nat /\ Len(b) \in Nat
  OBVIOUS
<1>2. \A i \in 1..Len(a) : c[i] = a[i]
  OBVIOUS
<1>3. \A i \in 1..Len(b) : c[Len(a) + i] = b[i]
  OBVIOUS
<1>4. \A i \in 1..Len(a) : a[i] = PERCENT => i + 2 <= Len(a)
  BY <1>1, Zenon DEF WellEncoded
<1> HIDE DEF c
<1>5. ASSUME NEW i \in 1..Len(a) PROVE InTriplet(c, i) <=> InTriplet(a, i)
  <2>1. \A k \in {i - 1, i - 2} : k \in DOMAIN c <=> k \in DOMAIN a
    BY <1>1
  <2>2. \A k \in {i - 1, i - 2} : k \in DOMAIN a => c[k] = a[k]
    BY <1>1, <1>2
  <2>3. QED
    BY <2>1, <2>2, Zenon DEF InTriplet
<1>6. ASSUME NEW i \in 1..Len(b) PROVE InTriplet(c, Len(a) + i) <=> InTriplet(b, i)
  <2>1. ASSUME InTriplet(b, i) PROVE InTriplet(c, Len(a) + i)
    <3>1. PICK k \in {i - 1, i - 2} : k \in DOMAIN b /\ b[k] = PERCENT
      BY <2>1 DEF InTriplet
    <3>2. Len(a) + k \in {Len(a) + i - 1, Len(a) + i - 2} /\ Len(a) + k \in DOMAIN c
          /\ c[Len(a) + k] = PERCENT
      BY <1>1, <1>3, <3>1
    <3>3. QED
      BY <3>2 DEF InTriplet
  <2>2. ASSUME InTriplet(c, Len(a) + i) PROVE InTriplet(b, i)
    <3>1. PICK k \in {Len(a) + i - 1, Len(a) + i - 2} : k \in DOMAIN c /\ c[k] = PERCENT
      BY <2>2 DEF InTriplet
    <3>2. k > Len(a)
      BY <1>1, <1>2, <1>4, <3>1
    <3>3. k - Len(a) \in {i - 1, i - 2} /\ k - Len(a) \in DOMAIN b /\ b[k - Len(a)] = PERCENT
      BY <1>1, <1>3, <3>1, <3>2
    <3>4. QED
      BY <3>3, Zenon DEF InTriplet
  <2>3. QED
    BY <2>1, <2>2
<1>7. QED
  BY <1>5, <1>6 DEF c

LEMMA DecodeConcat ==
    ASSUME NEW a \in Seq(Byte), NEW b \in Seq(Byte), WellEncoded(a), WellEncoded(b)
    PROVE  Decode(a \o b) = Decode(a) \o Decode(b)
<1> DEFINE c == a \o b
<1>1. c \in Seq(Byte) /\ Len(c) = Len(a) + Len(b) /\ Len(a) \in Nat /\ Len(b) \in Nat
  OBVIOUS
<1>2. WellEncoded(c)
  BY WellEncodedConcat
<1>3. \A i \in 1..Len(a) : c[i] = a[i]
  OBVIOUS
<1>4. \A i \in 1..Len(b) : c[Len(a) + i] = b[i]
  OBVIOUS
<1>5. /\ \A i \in 1..Len(a) : InTriplet(c, i) <=> InTriplet(a, i)
      /\ \A i \in 1..Len(b) : InTriplet(c, Len(a) + i) <=> InTriplet(b, i)
  BY TripletsStayInside
<1> HIDE DEF c
<1>6. ASSUME NEW i \in 1..Len(a) PROVE DecodedPiece(c, i) = DecodedPiece(a, i)
  <2>1. c[i] = a[i] /\ (InTriplet(c, i) <=> InTriplet(a, i))
    BY <1>3, <1>5
  <2>2. CASE a[i] = PERCENT
    <3>1. i + 2 <= Len(a)
      BY <2>2 DEF WellEncoded
    <3>2. c[i + 1] = a[i + 1] /\ c[i + 2] = a[i + 2]
      BY <1>1, <1>3, <3>1
    <3>3. QED
      BY <2>1, <2>2, <3>2, Zenon DEF DecodedPiece
  <2>3. CASE a[i] # PERCENT
    BY <2>1, <2>3, Zenon DEF DecodedPiece
  <2>4. QED
    BY <2>2, <2>3
<1>7. ASSUME NEW i \in 1..Len(b) PROVE DecodedPiece(c, Len(a) + i) = DecodedPiece(b, i)
  <2>1. c[Len(a) + i] = b[i] /\ (InTriplet(c, Len(a) + i) <=> InTriplet(b, i))
    BY <1>4, <1>5
  <2>2. CASE b[i] = PERCENT
    <3>1. i + 2 <= Len(b)
      BY <2>2, TripletFits
    <3>2. (Len(a) + i) + 1 = Len(a) + (i + 1) /\ (Len(a) + i) + 2 = Len(a) + (i + 2)
      BY <1>1
    <3>3. c[Len(a) + (i + 1)] = b[i + 1] /\ c[Len(a) + (i + 2)] = b[i + 2]
      BY <1>1, <1>4, <3>1
    <3>4. QED
      BY <2>1, <2>2, <3>2, <3>3, Zenon DEF DecodedPiece
  <2>3. CASE b[i] # PERCENT
    BY <2>1, <2>3, Zenon DEF DecodedPiece
  <2>4. QED
    BY <2>2, <2>3
<1> DEFINE p == DecodedPieces(a)
           q == DecodedPieces(b)
           r == DecodedPieces(c)
<1>8. p \in Seq(Seq(Byte)) /\ q \in Seq(Seq(Byte)) /\ r \in Seq(Seq(Byte))
      /\ Len(p) = Len(a) /\ Len(q) = Len(b) /\ Len(r) = Len(a) + Len(b)
  BY <1>1, <1>2, DecodedPiecesType
<1>9. \A i \in 1..Len(a) : i \in 1..Len(c) /\ p[i] = DecodedPiece(a, i)
  BY <1>1 DEF DecodedPieces
<1>10. \A i \in 1..Len(b) : Len(a) + i \in 1..Len(c)
  BY <1>1
<1>11. \A i \in 1..Len(p) : r[i] = p[i]
  BY <1>6, <1>8, <1>9, Zenon DEF DecodedPieces
<1>12. \A i \in 1..Len(q) : r[Len(p) + i] = q[i]
  BY <1>7, <1>8, <1>10, Zenon DEF DecodedPieces
<1> HIDE DEF p, q, r
<1>13. FlattenSeq(r) = FlattenSeq(p) \o FlattenSeq(q)
  BY <1>8, <1>11, <1>12, PiecesConcat
<1>14. QED
  BY <1>13, Zenon DEF Decode, p, q, r, c

LEMMA DecodeEmpty == WellEncoded(<<>>) /\ Decode(<<>>) = <<>>
<1>1. DecodedPieces(<<>>) = <<>>
  BY DEF DecodedPieces
<1>2. QED
  BY <1>1, FlattenEmpty DEF WellEncoded, Decode

(* A single piece. *)
LEMMA FlattenOne ==
    ASSUME NEW e \in Seq(Byte)
    PROVE  FlattenSeq(<<e>>) = e
<1>1. <<>> \in Seq(Seq(Byte)) /\ Append(<<>>, e) = <<e>>
  OBVIOUS
<1>2. FlattenSeq(Append(<<>>, e)) = <<>> \o e
  BY <1>1, FlattenAppend, FlattenEmpty, Zenon
<1>3. QED
  BY <1>1, <1>2, Strings, Zenon

LEMMA ThreeAppends ==
    ASSUME NEW T, NEW p \in Seq(T), Len(p) = 3
    PROVE  /\ p[1] \in T /\ p[2] \in T /\ p[3] \in T
           /\ p = Append(Append(<<p[1]>>, p[2]), p[3])
           /\ <<p[1]>> \in Seq(T) /\ Append(<<p[1]>>, p[2]) \in Seq(T)
<1>1. PICK x \in T, y \in T, z \in T : p[1] = x /\ p[2] = y /\ p[3] = z
  OBVIOUS
<1> DEFINE q == Append(Append(<<x>>, y), z)
<1>2. <<x>> \in Seq(T) /\ Append(<<x>>, y) \in Seq(T) /\ q \in Seq(T)
      /\ Len(q) = 3 /\ q[1] = x /\ q[2] = y /\ q[3] = z
  OBVIOUS
<1> HIDE DEF q
<1>3. \A i \in 1..3 : i = 1 \/ i = 2 \/ i = 3
  OBVIOUS
<1>4. p = q
  <2>1. \A i \in 1..Len(p) : p[i] = q[i]
    BY <1>1, <1>2, <1>3, Zenon
  <2>2. QED
    BY <1>2, <2>1, SeqEqual, Zenon
<1>5. QED
  BY <1>1, <1>2, <1>4, Zenon DEF q

LEMMA FlattenThree ==
    ASSUME NEW p \in Seq(Seq(Byte)), Len(p) = 3
    PROVE  FlattenSeq(p) = (p[1] \o p[2]) \o p[3]
<1> DEFINE T == Seq(Byte)
<1> HIDE DEF T
<1>1. p \in Seq(T)
  BY DEF T
<1>2. /\ p[1] \in T /\ p[2] \in T /\ p[3] \in T
      /\ p = Append(Append(<<p[1]>>, p[2]), p[3])
      /\ <<p[1]>> \in Seq(T) /\ Append(<<p[1]>>, p[2]) \in Seq(T)
  BY <1>1, ThreeAppends, Zenon
<1>3. FlattenSeq(Append(Append(<<p[1]>>, p[2]), p[3])) = FlattenSeq(Append(<<p[1]>>, p[2])) \o p[3]
  BY <1>2, FlattenAppend, Zenon DEF T
<1>4. FlattenSeq(Append(<<p[1]>>, p[2])) = FlattenSeq(<<p[1]>>) \o p[2]
  BY <1>2, FlattenAppend, Zenon DEF T
<1>5. FlattenSeq(<<p[1]>>) = p[1]
  BY <1>2, FlattenOne, Zenon DEF T
<1>6. QED
  BY <1>2, <1>3, <1>4, <1>5, Zenon

LEMMA DecodeByte ==
    ASSUME NEW c \in Byte, c # PERCENT
    PROVE  WellEncoded(<<c>>) /\ Decode(<<c>>) = <<c>>
<1> DEFINE s == <<c>>
<1>1. s \in Seq(Byte) /\ Len(s) = 1 /\ s[1] = c /\ DOMAIN s = {1}
  OBVIOUS
<1>2. WellEncoded(s)
  BY <1>1 DEF WellEncoded
<1>3. ~InTriplet(s, 1)
  BY <1>1 DEF InTriplet
<1> HIDE DEF s
<1>4. DecodedPiece(s, 1) = <<c>>
  BY <1>1, <1>3, Zenon DEF DecodedPiece
<1>5. DecodedPieces(s) = [i \in {1} |-> <<c>>]
  <2>1. 1..Len(s) = {1}
    BY <1>1
  <2>2. QED
    BY <1>4, <2>1, Zenon DEF DecodedPieces
<1>6. DecodedPieces(s) = << <<c>> >>
  BY <1>5
<1>7. QED
  BY <1>2, <1>6, FlattenOne, Strings, Zenon DEF Decode, s

LEMMA DecodeTriplet ==
    ASSUME NEW h \in HexDigits, NEW l \in HexDigits
    PROVE  /\ <<PERCENT, h, l>> \in Seq(Byte) /\ WellEncoded(<<PERCENT, h, l>>)
           /\ Decode(<<PERCENT, h, l>>) = <<16 * hex_value(h) + hex_value(l)>>
<1> DEFINE s == <<PERCENT, h, l>>
           v == 16 * hex_value(h) + hex_value(l)
<1>1. PERCENT \in Byte /\ h \in Byte /\ l \in Byte /\ h # PERCENT /\ l # PERCENT
  BY DigitsAreBytes
<1>2. s \in Seq(Byte) /\ Len(s) = 3 /\ s[1] = PERCENT /\ s[2] = h /\ s[3] = l /\ DOMAIN s = 1..3
  BY <1>1
<1>3. v \in Byte
  BY HexValues
<1> HIDE DEF s, v
<1>4. \A i \in 1..3 : i = 1 \/ i = 2 \/ i = 3
  OBVIOUS
<1>5. WellEncoded(s)
  <2>1. SUFFICES ASSUME NEW i \in DOMAIN s, s[i] = PERCENT
                 PROVE  i + 2 <= Len(s) /\ s[i + 1] \in HexDigits /\ s[i + 2] \in HexDigits
    BY Zenon DEF WellEncoded
  <2>2. i = 1
    BY <1>1, <1>2, <1>4, <2>1
  <2>3. QED
    BY <1>2, <2>2
<1>6. InTriplet(s, 2) /\ InTriplet(s, 3)
  BY <1>2 DEF InTriplet
<1>7. DecodedPiece(s, 1) = <<v>>
  <2>1. 1 + 1 = 2 /\ 1 + 2 = 3
    OBVIOUS
  <2>2. QED
    BY <1>2, <2>1, Zenon DEF DecodedPiece, v
<1>8. DecodedPiece(s, 2) = <<>> /\ DecodedPiece(s, 3) = <<>>
  BY <1>1, <1>2, <1>6, Zenon DEF DecodedPiece
<1> DEFINE p == DecodedPieces(s)
<1>9. p \in Seq(Seq(Byte)) /\ Len(p) = 3 /\ p[1] = <<v>> /\ p[2] = <<>> /\ p[3] = <<>>
  <2>1. p \in Seq(Seq(Byte)) /\ Len(p) = 3
    BY <1>2, <1>5, DecodedPiecesType
  <2>2. 1 \in 1..Len(s) /\ 2 \in 1..Len(s) /\ 3 \in 1..Len(s)
    BY <1>2
  <2>3. QED
    BY <1>7, <1>8, <2>1, <2>2, Zenon DEF DecodedPieces
<1>10. <<v>> \in Seq(Byte) /\ <<>> \in Seq(Byte)
  BY <1>3, Strings, Zenon
<1> HIDE DEF p
<1>11. FlattenSeq(p) = (<<v>> \o <<>>) \o <<>>
  BY <1>9, FlattenThree, Zenon
<1>12. FlattenSeq(p) = <<v>>
  BY <1>10, <1>11, Strings, Zenon
<1>13. QED
  BY <1>2, <1>5, <1>12, Zenon DEF Decode, p, s, v

LEMMA DecodeEncodedByte ==
    ASSUME NEW c \in Byte, NEW kept, PERCENT \notin kept
    PROVE  Decode(EncodedByte(c, kept)) = <<c>>
<1>1. CASE c \in kept
  <2>1. c # PERCENT /\ EncodedByte(c, kept) = <<c>>
    BY <1>1, EncodedByteType
  <2>2. QED
    BY <2>1, DecodeByte, Zenon
<1>2. CASE c \notin kept
  <2> DEFINE h == HexDigit(c \div 16)
             l == HexDigit(c % 16)
  <2>1. c \div 16 \in 0..15 /\ c % 16 \in 0..15 /\ 16 * (c \div 16) + (c % 16) = c
    BY ByteDigits
  <2>2. h \in HexDigits /\ l \in HexDigits /\ hex_value(h) = c \div 16 /\ hex_value(l) = c % 16
    BY <2>1, HexRoundTrip, DigitsAreBytes
  <2>3. EncodedByte(c, kept) = <<PERCENT, h, l>>
    BY <1>2, Zenon DEF EncodedByte
  <2>4. Decode(<<PERCENT, h, l>>) = <<16 * hex_value(h) + hex_value(l)>>
    BY <2>2, DecodeTriplet, Zenon
  <2>5. QED
    BY <2>1, <2>2, <2>3, <2>4, Zenon
<1>3. QED
  BY <1>1, <1>2

(* Decoding undoes encoding. *)
LEMMA DecodeEncode ==
    ASSUME NEW s \in Seq(Byte), NEW kept, PERCENT \notin kept
    PROVE  Decode(ServiceEncode(s, kept)) = s
<1> DEFINE X == {r \in Seq(Byte) : Decode(ServiceEncode(r, kept)) = r}
<1>1. <<>> \in X
  BY DecodeEmpty, EncodeEmpty, Strings, Zenon
<1>2. ASSUME NEW r \in Seq(Byte), r \in X, NEW c \in Byte PROVE Append(r, c) \in X
  <2>1. ServiceEncode(r, kept) \in Seq(Byte) /\ EncodedByte(c, kept) \in Seq(Byte)
        /\ WellEncoded(ServiceEncode(r, kept)) /\ WellEncoded(EncodedByte(c, kept))
    BY EncodeType, EncodedByteType, WellEncodedByte, EncodeIsWellEncoded
  <2>2. Decode(ServiceEncode(r, kept) \o EncodedByte(c, kept)) = r \o <<c>>
    BY <1>2, <2>1, DecodeConcat, DecodeEncodedByte, Zenon
  <2>3. ServiceEncode(Append(r, c), kept) = ServiceEncode(r, kept) \o EncodedByte(c, kept)
    BY EncodeAppend
  <2>4. QED
    BY <2>2, <2>3, Strings, Zenon
<1>3. Seq(Byte) \subseteq X
  <2> HIDE DEF X
  <2> QED BY <1>1, <1>2, StringsByAppend
<1>4. QED
  BY <1>3

-------------------------------------------------------------------------------
(* The canonical URI. *)

(* The bytes a path keeps. *)
PathBytes == Unreserved \cup {SLASH}

(* What canonical_uri_from_encoded makes of the byte at i. *)
CanonicalPiece(path, i) ==
    IF path[i] = PERCENT THEN <<PERCENT>>
    ELSE IF InTriplet(path, i) THEN <<HexDigit(hex_value(path[i]))>>
    ELSE EncodedByte(path[i], PathBytes)

CanonicalPieces(path) == [i \in 1..Len(path) |-> CanonicalPiece(path, i)]

Canonical(path) == FlattenSeq(CanonicalPieces(path))

LEMMA PathBytesAre == PathBytes \subseteq Byte /\ PERCENT \notin PathBytes /\ PERCENT \notin Unreserved
                      /\ SLASH \notin Unreserved /\ SLASH \in Byte /\ Unreserved \subseteq Byte
BY DEF PathBytes, Unreserved, Alphanumeric, Digits, Upper, Lower, SLASH, PERCENT, Byte

LEMMA CanonicalIs ==
    ASSUME NEW path \in Seq(Byte), path # <<>>, path[1] = SLASH, WellEncoded(path),
           Canonical(path) \in Seq(Byte)
    PROVE  canonical_uri_from_encoded(path) = {Canonical(path)}
<1>1. DOMAIN path = 1..Len(path)
  OBVIOUS
<1>2. canonical_uri_from_encoded(path) = {<<>> \o Canonical(path)}
  BY <1>1, Zenon DEF canonical_uri_from_encoded, Canonical, CanonicalPieces, CanonicalPiece,
                     EncodedByte, push_percent_encoded, PathBytes
<1>3. QED
  BY <1>2, Strings, Zenon

(* A digit of a triplet is a digit. *)
LEMMA InTripletIsDigit ==
    ASSUME NEW s \in Seq(Byte), WellEncoded(s), NEW i \in 1..Len(s), InTriplet(s, i)
    PROVE  s[i] \in HexDigits
<1>1. PICK k \in {i - 1, i - 2} : k \in DOMAIN s /\ s[k] = PERCENT
  BY DEF InTriplet
<1>2. k \in 1..Len(s)
  BY <1>1
<1>3. s[k + 1] \in HexDigits /\ s[k + 2] \in HexDigits
  BY <1>1, <1>2, TripletFits
<1>4. i = k + 1 \/ i = k + 2
  BY <1>1, <1>2
<1>5. QED
  BY <1>3, <1>4, Zenon

LEMMA HexDigitOfValue ==
    ASSUME NEW h \in HexDigits
    PROVE  hex_value(h) \in 0..15 /\ HexDigit(hex_value(h)) \in Byte
BY DEF HexDigits, hex_value, Digits, Upper, HexDigit, Byte

LEMMA CanonicalPiecesType ==
    ASSUME NEW s \in Seq(Byte), WellEncoded(s)
    PROVE  CanonicalPieces(s) \in Seq(Seq(Byte)) /\ Len(CanonicalPieces(s)) = Len(s)
<1>1. ASSUME NEW i \in 1..Len(s) PROVE CanonicalPiece(s, i) \in Seq(Byte)
  <2>1. s[i] \in Byte /\ PERCENT \in Byte
    BY DigitsAreBytes
  <2>2. InTriplet(s, i) => HexDigit(hex_value(s[i])) \in Byte
    BY InTripletIsDigit, HexDigitOfValue, Zenon
  <2>3. EncodedByte(s[i], PathBytes) \in Seq(Byte)
    BY <2>1, EncodedByteType, Zenon
  <2>4. QED
    BY <2>1, <2>2, <2>3, Strings, Zenon DEF CanonicalPiece
<1>2. [i \in 1..Len(s) |-> CanonicalPiece(s, i)] \in Seq(Seq(Byte))
  BY <1>1
<1>3. Len([i \in 1..Len(s) |-> CanonicalPiece(s, i)]) = Len(s)
  OBVIOUS
<1>4. QED
  BY <1>2, <1>3, Zenon DEF CanonicalPieces

LEMMA CanonicalType ==
    ASSUME NEW s \in Seq(Byte), WellEncoded(s)
    PROVE  Canonical(s) \in Seq(Byte)
BY CanonicalPiecesType, FlattenType, Zenon DEF Canonical

LEMMA CanonicalConcat ==
    ASSUME NEW a \in Seq(Byte), NEW b \in Seq(Byte), WellEncoded(a), WellEncoded(b)
    PROVE  Canonical(a \o b) = Canonical(a) \o Canonical(b)
<1> DEFINE c == a \o b
<1>1. c \in Seq(Byte) /\ Len(c) = Len(a) + Len(b) /\ Len(a) \in Nat /\ Len(b) \in Nat
  OBVIOUS
<1>2. WellEncoded(c)
  BY WellEncodedConcat
<1>3. \A i \in 1..Len(a) : c[i] = a[i]
  OBVIOUS
<1>4. \A i \in 1..Len(b) : c[Len(a) + i] = b[i]
  OBVIOUS
<1>5. /\ \A i \in 1..Len(a) : InTriplet(c, i) <=> InTriplet(a, i)
      /\ \A i \in 1..Len(b) : InTriplet(c, Len(a) + i) <=> InTriplet(b, i)
  BY TripletsStayInside
<1> HIDE DEF c
<1>6. \A i \in 1..Len(a) : CanonicalPiece(c, i) = CanonicalPiece(a, i)
  BY <1>3, <1>5, Zenon DEF CanonicalPiece
<1>7. \A i \in 1..Len(b) : CanonicalPiece(c, Len(a) + i) = CanonicalPiece(b, i)
  BY <1>4, <1>5, Zenon DEF CanonicalPiece
<1> DEFINE p == CanonicalPieces(a)
           q == CanonicalPieces(b)
           r == CanonicalPieces(c)
<1>8. p \in Seq(Seq(Byte)) /\ q \in Seq(Seq(Byte)) /\ r \in Seq(Seq(Byte))
      /\ Len(p) = Len(a) /\ Len(q) = Len(b) /\ Len(r) = Len(a) + Len(b)
  BY <1>1, <1>2, CanonicalPiecesType
<1>9. \A i \in 1..Len(a) : i \in 1..Len(c)
  BY <1>1
<1>10. \A i \in 1..Len(b) : Len(a) + i \in 1..Len(c)
  BY <1>1
<1>11. \A i \in 1..Len(p) : r[i] = p[i]
  BY <1>6, <1>8, <1>9, Zenon DEF CanonicalPieces
<1>12. \A i \in 1..Len(q) : r[Len(p) + i] = q[i]
  BY <1>7, <1>8, <1>10, Zenon DEF CanonicalPieces
<1> HIDE DEF p, q, r
<1>13. FlattenSeq(r) = FlattenSeq(p) \o FlattenSeq(q)
  BY <1>8, <1>11, <1>12, PiecesConcat
<1>14. QED
  BY <1>13, Zenon DEF Canonical, p, q, r, c

LEMMA CanonicalByte ==
    ASSUME NEW c \in Byte, c # PERCENT
    PROVE  Canonical(<<c>>) = EncodedByte(c, PathBytes)
<1> DEFINE s == <<c>>
<1>1. s \in Seq(Byte) /\ Len(s) = 1 /\ s[1] = c /\ DOMAIN s = {1}
  OBVIOUS
<1>2. ~InTriplet(s, 1)
  BY <1>1 DEF InTriplet
<1> HIDE DEF s
<1>3. CanonicalPiece(s, 1) = EncodedByte(c, PathBytes)
  BY <1>1, <1>2, Zenon DEF CanonicalPiece
<1> DEFINE e == EncodedByte(c, PathBytes)
<1>4. CanonicalPieces(s) = [i \in {1} |-> e]
  <2>1. 1..Len(s) = {1}
    BY <1>1
  <2>2. QED
    BY <1>3, <2>1, Zenon DEF CanonicalPieces
<1>5. e \in Seq(Byte)
  BY EncodedByteType
<1> HIDE DEF e
<1>6. CanonicalPieces(s) = <<e>>
  BY <1>4
<1>7. QED
  BY <1>5, <1>6, FlattenOne, Zenon DEF Canonical, s, e

LEMMA ThreeJoined ==
    ASSUME NEW a \in Byte, NEW b \in Byte, NEW c \in Byte
    PROVE  (<<a>> \o <<b>>) \o <<c>> = <<a, b, c>>
<1> DEFINE t == <<a, b, c>>
<1>1. t \in Seq(Byte) /\ Len(t) = 3 /\ t[1] = a /\ t[2] = b /\ t[3] = c
  OBVIOUS
<1> HIDE DEF t
<1>2. t = Append(Append(<<a>>, b), c) /\ <<a>> \in Seq(Byte) /\ Append(<<a>>, b) \in Seq(Byte)
  <2>1. /\ t = Append(Append(<<t[1]>>, t[2]), t[3])
        /\ <<t[1]>> \in Seq(Byte) /\ Append(<<t[1]>>, t[2]) \in Seq(Byte)
    BY <1>1, ThreeAppends, Zenon
  <2>2. QED
    BY <1>1, <2>1, Zenon
<1>3. Append(<<a>>, b) = <<a>> \o <<b>> /\ Append(Append(<<a>>, b), c) = Append(<<a>>, b) \o <<c>>
  BY <1>2, Strings, Zenon
<1>4. QED
  BY <1>2, <1>3, Zenon DEF t

LEMMA CanonicalTriplet ==
    ASSUME NEW h \in HexDigits, NEW l \in HexDigits
    PROVE  Canonical(<<PERCENT, h, l>>) = <<PERCENT, HexDigit(hex_value(h)), HexDigit(hex_value(l))>>
<1> DEFINE s == <<PERCENT, h, l>>
           x == HexDigit(hex_value(h))
           y == HexDigit(hex_value(l))
<1>1. PERCENT \in Byte /\ h \in Byte /\ l \in Byte /\ h # PERCENT /\ l # PERCENT
  BY DigitsAreBytes
<1>2. s \in Seq(Byte) /\ Len(s) = 3 /\ s[1] = PERCENT /\ s[2] = h /\ s[3] = l /\ DOMAIN s = 1..3
  BY <1>1
<1>3. WellEncoded(s)
  BY DecodeTriplet
<1>4. x \in Byte /\ y \in Byte
  BY HexDigitOfValue
<1> HIDE DEF s, x, y
<1>5. InTriplet(s, 2) /\ InTriplet(s, 3)
  BY <1>2 DEF InTriplet
<1>6. CanonicalPiece(s, 1) = <<PERCENT>> /\ CanonicalPiece(s, 2) = <<x>> /\ CanonicalPiece(s, 3) = <<y>>
  BY <1>1, <1>2, <1>5, Zenon DEF CanonicalPiece, x, y
<1> DEFINE p == CanonicalPieces(s)
<1>7. p \in Seq(Seq(Byte)) /\ Len(p) = 3 /\ p[1] = <<PERCENT>> /\ p[2] = <<x>> /\ p[3] = <<y>>
  <2>1. p \in Seq(Seq(Byte)) /\ Len(p) = 3
    BY <1>2, <1>3, CanonicalPiecesType
  <2>2. 1 \in 1..Len(s) /\ 2 \in 1..Len(s) /\ 3 \in 1..Len(s)
    BY <1>2
  <2>3. QED
    BY <1>6, <2>1, <2>2, Zenon DEF CanonicalPieces
<1> HIDE DEF p
<1>8. FlattenSeq(p) = (<<PERCENT>> \o <<x>>) \o <<y>>
  BY <1>7, FlattenThree, Zenon
<1>9. (<<PERCENT>> \o <<x>>) \o <<y>> = <<PERCENT, x, y>>
  BY <1>1, <1>4, ThreeJoined, Zenon
<1>10. QED
  BY <1>8, <1>9, Zenon DEF Canonical, p, s, x, y

LEMMA TripletIsEncodedByte ==
    ASSUME NEW h \in HexDigits, NEW l \in HexDigits
    PROVE  LET v == 16 * hex_value(h) + hex_value(l)
           IN  v \notin PathBytes =>
                 <<PERCENT, HexDigit(hex_value(h)), HexDigit(hex_value(l))>> = EncodedByte(v, PathBytes)
<1> DEFINE a == hex_value(h)
           b == hex_value(l)
           v == 16 * a + b
<1>1. a \in 0..15 /\ b \in 0..15
  BY HexDigitOfValue
<1> HIDE DEF a, b
<1>2. v \div 16 = a /\ v % 16 = b
  BY <1>1
<1> HIDE DEF v
<1>3. v \notin PathBytes => <<PERCENT, HexDigit(a), HexDigit(b)>> = EncodedByte(v, PathBytes)
  BY <1>2, Zenon DEF EncodedByte
<1>4. QED
  BY <1>3, Zenon DEF v, a, b

(* What follows a whole byte or triplet of a well-encoded string. *)
LEMMA WellEncodedRest ==
    ASSUME NEW a \in Seq(Byte), NEW b \in Seq(Byte), WellEncoded(a \o b), Minimal(a \o b), WellEncoded(a)
    PROVE  WellEncoded(b) /\ Minimal(b)
<1> DEFINE c == a \o b
<1>1. c \in Seq(Byte) /\ Len(c) = Len(a) + Len(b) /\ DOMAIN c = 1..(Len(a) + Len(b))
      /\ DOMAIN b = 1..Len(b) /\ Len(a) \in Nat /\ Len(b) \in Nat
  OBVIOUS
<1>2. \A i \in 1..Len(b) : c[Len(a) + i] = b[i]
  OBVIOUS
<1> HIDE DEF c
<1>3. ASSUME NEW i \in DOMAIN b, b[i] = PERCENT
      PROVE  /\ i + 2 <= Len(b) /\ b[i + 1] \in HexDigits /\ b[i + 2] \in HexDigits
             /\ 16 * hex_value(b[i + 1]) + hex_value(b[i + 2]) \notin Unreserved \cup {SLASH}
  <2> DEFINE k == Len(a) + i
  <2>1. k \in DOMAIN c /\ c[k] = PERCENT
    BY <1>1, <1>2, <1>3
  <2>2. k + 2 <= Len(c) /\ c[k + 1] \in HexDigits /\ c[k + 2] \in HexDigits
        /\ 16 * hex_value(c[k + 1]) + hex_value(c[k + 2]) \notin Unreserved \cup {SLASH}
    BY <2>1, Zenon DEF WellEncoded, Minimal, c
  <2>3. i + 2 <= Len(b) /\ i + 1 \in 1..Len(b) /\ i + 2 \in 1..Len(b)
    BY <1>1, <2>2
  <2>4. k + 1 = Len(a) + (i + 1) /\ k + 2 = Len(a) + (i + 2)
    BY <1>1, <1>3
  <2>5. c[k + 1] = b[i + 1] /\ c[k + 2] = b[i + 2]
    <3>1. c[Len(a) + (i + 1)] = b[i + 1] /\ c[Len(a) + (i + 2)] = b[i + 2]
      BY <1>1, <1>2, <2>3
    <3>2. QED
      BY <2>4, <3>1, Zenon
  <2>6. QED
    BY <2>2, <2>3, <2>5, Zenon
<1>4. QED
  BY <1>3, Zenon DEF WellEncoded, Minimal

LEMMA MinimalConcat ==
    ASSUME NEW a \in Seq(Byte), NEW b \in Seq(Byte), WellEncoded(a), WellEncoded(b), Minimal(a), Minimal(b)
    PROVE  Minimal(a \o b)
<1> DEFINE c == a \o b
<1>1. c \in Seq(Byte) /\ DOMAIN c = 1..(Len(a) + Len(b)) /\ Len(a) \in Nat /\ Len(b) \in Nat
      /\ DOMAIN a = 1..Len(a) /\ DOMAIN b = 1..Len(b)
  OBVIOUS
<1>2. \A i \in 1..Len(a) : c[i] = a[i]
  OBVIOUS
<1>3. \A i \in 1..Len(b) : c[Len(a) + i] = b[i]
  OBVIOUS
<1> HIDE DEF c
<1>4. ASSUME NEW i \in DOMAIN c, c[i] = PERCENT
      PROVE  16 * hex_value(c[i + 1]) + hex_value(c[i + 2]) \notin Unreserved \cup {SLASH}
  <2>1. CASE i <= Len(a)
    <3>1. i \in DOMAIN a /\ a[i] = PERCENT
      BY <1>1, <1>2, <1>4, <2>1
    <3>2. i + 1 \in 1..Len(a) /\ i + 2 \in 1..Len(a)
      BY <1>1, <3>1, TripletFits
    <3>3. QED
      BY <1>2, <3>1, <3>2, Zenon DEF Minimal
  <2>2. CASE i > Len(a)
    <3>1. PICK k \in 1..Len(b) : i = Len(a) + k
      <4>1. i - Len(a) \in 1..Len(b) /\ i = Len(a) + (i - Len(a))
        BY <1>1, <2>2
      <4>2. QED
        BY <4>1, Zenon
    <3>2. k \in DOMAIN b /\ b[k] = PERCENT
      BY <1>1, <1>3, <1>4, <3>1
    <3>3. k + 1 \in 1..Len(b) /\ k + 2 \in 1..Len(b)
      BY <1>1, <3>2, TripletFits
    <3>4. i + 1 = Len(a) + (k + 1) /\ i + 2 = Len(a) + (k + 2)
      BY <1>1, <3>1
    <3>5. c[i + 1] = b[k + 1] /\ c[i + 2] = b[k + 2]
      <4>1. c[Len(a) + (k + 1)] = b[k + 1] /\ c[Len(a) + (k + 2)] = b[k + 2]
        BY <1>1, <1>3, <3>3
      <4>2. QED
        BY <3>4, <4>1, Zenon
    <3>6. QED
      BY <3>2, <3>5, Zenon DEF Minimal
  <2>3. QED
    BY <1>1, <2>1, <2>2
<1>5. QED
  BY <1>4, Zenon DEF Minimal, c

(* The canonical form of a head and of the bytes it stands for. *)
LEMMA ReencodedConcat ==
    ASSUME NEW a \in Seq(Byte), NEW b \in Seq(Byte), WellEncoded(a), WellEncoded(b),
           Canonical(a) = ServiceEncode(Decode(a), PathBytes),
           Canonical(b) = ServiceEncode(Decode(b), PathBytes)
    PROVE  Canonical(a \o b) = ServiceEncode(Decode(a \o b), PathBytes)
<1>1. Decode(a) \in Seq(Byte) /\ Decode(b) \in Seq(Byte)
  BY DecodeType
<1>2. ServiceEncode(Decode(a) \o Decode(b), PathBytes)
        = ServiceEncode(Decode(a), PathBytes) \o ServiceEncode(Decode(b), PathBytes)
  BY <1>1, EncodeConcat, Zenon
<1>3. Canonical(a \o b) = Canonical(a) \o Canonical(b) /\ Decode(a \o b) = Decode(a) \o Decode(b)
  BY CanonicalConcat, DecodeConcat, Zenon
<1>4. QED
  BY <1>2, <1>3, Zenon

(* A string from its two parts. *)
LEMMA FromParts ==
    ASSUME NEW s \in Seq(Byte), NEW a \in Seq(Byte), NEW b \in Seq(Byte),
           Len(s) = Len(a) + Len(b),
           \A i \in 1..Len(a) : s[i] = a[i], \A i \in 1..Len(b) : s[Len(a) + i] = b[i]
    PROVE  s = a \o b
<1>1. a \o b \in Seq(Byte) /\ Len(a \o b) = Len(a) + Len(b)
  OBVIOUS
<1>2. \A i \in 1..Len(s) : s[i] = (a \o b)[i]
  OBVIOUS
<1>3. QED
  BY <1>1, <1>2, SeqEqual

LEMMA HeadAndRest ==
    ASSUME NEW s \in Seq(Byte), NEW n \in 0..Len(s)
    PROVE  /\ SubSeq(s, 1, n) \in Seq(Byte) /\ SubSeq(s, n + 1, Len(s)) \in Seq(Byte)
           /\ Len(SubSeq(s, n + 1, Len(s))) = Len(s) - n
           /\ Len(SubSeq(s, 1, n)) = n /\ \A i \in 1..n : SubSeq(s, 1, n)[i] = s[i]
           /\ s = SubSeq(s, 1, n) \o SubSeq(s, n + 1, Len(s))
<1> DEFINE a == SubSeq(s, 1, n)
           b == SubSeq(s, n + 1, Len(s))
<1>1. a \in Seq(Byte) /\ Len(a) = n /\ \A i \in 1..n : a[i] = s[i]
  OBVIOUS
<1>2. b \in Seq(Byte) /\ Len(b) = Len(s) - n /\ \A i \in 1..Len(b) : b[i] = s[n + i]
  OBVIOUS
<1> HIDE DEF a, b
<1>3. Len(s) = Len(a) + Len(b) /\ Len(a) = n
  BY <1>1, <1>2
<1>4. s = a \o b
  <2>1. \A i \in 1..Len(a) : s[i] = a[i]
    BY <1>1, <1>3, Zenon
  <2>2. \A i \in 1..Len(b) : s[Len(a) + i] = b[i]
    BY <1>2, <1>3, Zenon
  <2>3. QED
    BY <1>1, <1>2, <1>3, <2>1, <2>2, FromParts, Zenon
<1>5. QED
  BY <1>1, <1>2, <1>4, Zenon DEF a, b

LEMMA OneByte ==
    ASSUME NEW s \in Seq(Byte), Len(s) = 1
    PROVE  s = <<s[1]>> /\ s[1] \in Byte
OBVIOUS

LEMMA ThreeBytes ==
    ASSUME NEW s \in Seq(Byte), Len(s) = 3
    PROVE  s = <<s[1], s[2], s[3]>>
<1>1. PICK x \in Byte, y \in Byte, z \in Byte : x = s[1] /\ y = s[2] /\ z = s[3]
  OBVIOUS
<1>2. s = Append(Append(<<x>>, y), z) /\ <<x>> \in Seq(Byte) /\ Append(<<x>>, y) \in Seq(Byte)
  <2>1. /\ s = Append(Append(<<s[1]>>, s[2]), s[3])
        /\ <<s[1]>> \in Seq(Byte) /\ Append(<<s[1]>>, s[2]) \in Seq(Byte)
    BY ThreeAppends, Zenon
  <2>2. QED
    BY <1>1, <2>1, Zenon
<1>3. Append(<<x>>, y) = <<x>> \o <<y>> /\ Append(Append(<<x>>, y), z) = Append(<<x>>, y) \o <<z>>
  BY <1>2, Strings, Zenon
<1>4. s = (<<x>> \o <<y>>) \o <<z>>
  BY <1>2, <1>3, Zenon
<1>5. QED
  BY <1>1, <1>4, ThreeJoined, Zenon

(* The canonical form of a path is the encoding of what it stands for. *)
LEMMA CanonicalIsReencoded ==
    ASSUME NEW s \in Seq(Byte), WellEncoded(s), Minimal(s)
    PROVE  Canonical(s) = ServiceEncode(Decode(s), PathBytes)
<1> DEFINE Good(r) == WellEncoded(r) /\ Minimal(r) => Canonical(r) = ServiceEncode(Decode(r), PathBytes)
           T == {n \in Nat : \E r \in Seq(Byte) : Len(r) = n /\ ~Good(r)}
<1>1. SUFFICES ASSUME T # {} PROVE FALSE
  <2>1. Len(s) \in Nat
    OBVIOUS
  <2>2. QED
    BY <2>1, Zenon
<1>2. PICK n \in T : \A m \in T : n <= m
  <2>1. T \in SUBSET Nat
    OBVIOUS
  <2> HIDE DEF T
  <2>2. QED
    BY <1>1, <2>1, LeastNumber, Zenon
<1>3. PICK r \in Seq(Byte) : Len(r) = n /\ ~Good(r)
  BY <1>2, Zenon
<1>4. WellEncoded(r) /\ Minimal(r)
  BY <1>3, Zenon
<1>5. ASSUME NEW k \in 1..Len(r), NEW a, a = SubSeq(r, 1, k), WellEncoded(a),
             Canonical(a) = ServiceEncode(Decode(a), PathBytes)
      PROVE  FALSE
  <2> DEFINE b == SubSeq(r, k + 1, Len(r))
  <2>1. a \in Seq(Byte) /\ b \in Seq(Byte) /\ Len(b) = Len(r) - k /\ r = a \o b
    <3>1. k \in 0..Len(r)
      OBVIOUS
    <3>2. QED
      BY <1>5, <3>1, HeadAndRest, Zenon
  <2> HIDE DEF b
  <2>2. WellEncoded(b) /\ Minimal(b)
    BY <1>4, <1>5, <2>1, WellEncodedRest, Zenon
  <2>3. Len(b) \in Nat /\ Len(b) < n
    BY <1>3, <2>1
  <2>4. Good(b)
    <3>1. Len(b) \notin T
      BY <1>2, <2>3
    <3> HIDE DEF Good
    <3>2. QED
      BY <2>1, <2>3, <3>1, Zenon
  <2>5. Canonical(b) = ServiceEncode(Decode(b), PathBytes)
    BY <2>2, <2>4, Zenon
  <2>6. Good(r)
    BY <1>5, <2>1, <2>2, <2>5, ReencodedConcat, Zenon
  <2>7. QED
    BY <1>3, <2>6, Zenon
<1>6. r # <<>>
  <2>1. Canonical(<<>>) = <<>>
    <3>1. CanonicalPieces(<<>>) = <<>>
      BY DEF CanonicalPieces
    <3>2. QED
      BY <3>1, FlattenEmpty DEF Canonical
  <2>2. Good(<<>>)
    BY <2>1, DecodeEmpty, EncodeEmpty, Zenon
  <2> HIDE DEF Good
  <2>3. QED
    BY <1>3, <2>2, Zenon
<1>7. 1 \in 1..Len(r)
  BY <1>6, EmptySeq
<1>8. CASE r[1] # PERCENT
  <2> DEFINE a == SubSeq(r, 1, 1)
  <2>1. a = <<r[1]>> /\ r[1] \in Byte
    <3>1. 1 \in 0..Len(r) /\ 1 \in 1..1
      BY <1>7
    <3>2. a \in Seq(Byte) /\ Len(a) = 1 /\ a[1] = r[1]
      BY <3>1, HeadAndRest, Zenon
    <3> HIDE DEF a
    <3>3. QED
      BY <3>2, OneByte, Zenon
  <2>2. WellEncoded(a) /\ Decode(a) = a /\ Canonical(a) = EncodedByte(r[1], PathBytes)
    BY <1>8, <2>1, DecodeByte, CanonicalByte, Zenon
  <2>3. ServiceEncode(a, PathBytes) = EncodedByte(r[1], PathBytes)
    BY <2>1, EncodeByte, Zenon
  <2> HIDE DEF a
  <2>4. Canonical(a) = ServiceEncode(Decode(a), PathBytes)
    BY <2>2, <2>3, Zenon
  <2>5. QED
    BY <1>5, <1>7, <2>2, <2>4, Zenon DEF a
<1>9. CASE r[1] = PERCENT
  <2> DEFINE a == SubSeq(r, 1, 3)
             h == r[2]
             l == r[3]
             v == 16 * hex_value(h) + hex_value(l)
  <2>1. 3 <= Len(r) /\ h \in HexDigits /\ l \in HexDigits
    BY <1>4, <1>7, <1>9, TripletFits
  <2>2. v \notin PathBytes
    <3>1. 1 \in DOMAIN r /\ 1 + 1 = 2 /\ 1 + 2 = 3
      BY <1>7
    <3>2. 16 * hex_value(r[1 + 1]) + hex_value(r[1 + 2]) \notin Unreserved \cup {SLASH}
      BY <1>4, <1>9, <3>1, Zenon DEF Minimal
    <3>3. QED
      BY <3>1, <3>2, Zenon DEF PathBytes
  <2>3. a = <<PERCENT, h, l>>
    <3>1. 3 \in 0..Len(r) /\ 1 \in 1..3 /\ 2 \in 1..3 /\ 3 \in 1..3
      BY <2>1
    <3>2. a \in Seq(Byte) /\ Len(a) = 3 /\ a[1] = r[1] /\ a[2] = r[2] /\ a[3] = r[3]
      BY <3>1, HeadAndRest, Zenon
    <3> HIDE DEF a
    <3>3. QED
      BY <1>9, <3>2, ThreeBytes, Zenon
  <2>4. 3 \in 1..Len(r) /\ v \in Byte
    BY <2>1, HexValues
  <2> HIDE DEF a, h, l
  <2>5. WellEncoded(a) /\ Decode(a) = <<v>>
    BY <2>1, <2>3, DecodeTriplet, Zenon
  <2>6. Canonical(a) = EncodedByte(v, PathBytes)
    BY <2>1, <2>2, <2>3, CanonicalTriplet, TripletIsEncodedByte, Zenon
  <2> HIDE DEF v
  <2>7. ServiceEncode(<<v>>, PathBytes) = EncodedByte(v, PathBytes)
    BY <2>4, EncodeByte, Zenon
  <2>8. Canonical(a) = ServiceEncode(Decode(a), PathBytes)
    BY <2>5, <2>6, <2>7, Zenon
  <2>9. QED
    BY <1>5, <2>4, <2>5, <2>8, Zenon DEF a
<1>10. QED
  BY <1>8, <1>9

-------------------------------------------------------------------------------
(* The client's encoders are the service's. *)

LEMMA AwsUriEncodeIs ==
    ASSUME NEW s \in Seq(Byte)
    PROVE  /\ aws_uri_encode(s, TRUE) = ServiceEncode(s, Unreserved)
           /\ aws_uri_encode(s, FALSE) = ServiceEncode(s, PathBytes)
<1>1. \A i \in DOMAIN s : /\ (s[i] \in Unreserved \/ (s[i] = SLASH /\ ~TRUE)) <=> s[i] \in Unreserved
                          /\ (s[i] \in Unreserved \/ (s[i] = SLASH /\ ~FALSE)) <=> s[i] \in PathBytes
  BY Zenon DEF PathBytes
<1>2. aws_uri_encode(s, TRUE) = ServiceEncode(s, Unreserved)
  <2>1. [i \in DOMAIN s |-> IF s[i] \in Unreserved \/ (s[i] = SLASH /\ ~TRUE)
                            THEN <<s[i]>> ELSE push_percent_encoded(s[i])]
          = [i \in DOMAIN s |-> IF s[i] \in Unreserved THEN <<s[i]>>
                                ELSE <<PERCENT, HexDigit(s[i] \div 16), HexDigit(s[i] % 16)>>]
    BY <1>1, Zenon DEF push_percent_encoded
  <2>2. QED
    BY <2>1, Zenon DEF aws_uri_encode, ServiceEncode
<1>3. aws_uri_encode(s, FALSE) = ServiceEncode(s, PathBytes)
  <2>1. [i \in DOMAIN s |-> IF s[i] \in Unreserved \/ (s[i] = SLASH /\ ~FALSE)
                            THEN <<s[i]>> ELSE push_percent_encoded(s[i])]
          = [i \in DOMAIN s |-> IF s[i] \in PathBytes THEN <<s[i]>>
                                ELSE <<PERCENT, HexDigit(s[i] \div 16), HexDigit(s[i] % 16)>>]
    BY <1>1, Zenon DEF push_percent_encoded
  <2>2. QED
    BY <2>1, Zenon DEF aws_uri_encode, ServiceEncode
<1>4. QED
  BY <1>2, <1>3

(* A string without a slash is encoded alike as a component and in a path. *)
LEMMA ComponentInPath ==
    ASSUME NEW s \in Seq(Byte), \A i \in 1..Len(s) : s[i] # SLASH
    PROVE  ServiceEncode(s, Unreserved) = ServiceEncode(s, PathBytes)
<1>1. \A i \in 1..Len(s) : EncodedByte(s[i], Unreserved) = EncodedByte(s[i], PathBytes)
  BY Zenon DEF EncodedByte, PathBytes
<1>2. [i \in 1..Len(s) |-> EncodedByte(s[i], Unreserved)] = [i \in 1..Len(s) |-> EncodedByte(s[i], PathBytes)]
  BY <1>1, Zenon
<1>3. QED
  BY <1>2, EncodePieces, Zenon

(* An encoded string has no needless triplet. *)
LEMMA EncodedIsMinimal ==
    ASSUME NEW s \in Seq(Byte)
    PROVE  Minimal(ServiceEncode(s, PathBytes))
<1> DEFINE X == {r \in Seq(Byte) : Minimal(ServiceEncode(r, PathBytes))}
<1>1. <<>> \in X
  <2>1. Minimal(<<>>)
    BY DEF Minimal
  <2>2. QED
    BY <2>1, EncodeEmpty, EmptySeq, Zenon
<1>2. ASSUME NEW r \in Seq(Byte), r \in X, NEW c \in Byte PROVE Append(r, c) \in X
  <2> DEFINE e == EncodedByte(c, PathBytes)
             a == ServiceEncode(r, PathBytes)
  <2>1. PERCENT \notin PathBytes
    BY PathBytesAre
  <2>2. a \in Seq(Byte) /\ e \in Seq(Byte) /\ WellEncoded(a) /\ WellEncoded(e)
    BY <2>1, EncodeType, EncodedByteType, WellEncodedByte, EncodeIsWellEncoded
  <2>3. Minimal(e)
    <3>1. CASE c \in PathBytes
      <4>1. e = <<c>> /\ c # PERCENT
        BY <2>1, <3>1, EncodedByteType
      <4>2. QED
        BY <4>1 DEF Minimal
    <3>2. CASE c \notin PathBytes
      <4>1. /\ Len(e) = 3 /\ e[1] = PERCENT /\ e[2] = HexDigit(c \div 16) /\ e[3] = HexDigit(c % 16)
            /\ e[2] \in UpperHex /\ e[3] \in UpperHex
        BY <3>2, EncodedByteType, Zenon
      <4>2. hex_value(e[2]) = c \div 16 /\ hex_value(e[3]) = c % 16 /\ 16 * (c \div 16) + (c % 16) = c
        BY <4>1, ByteDigits, HexRoundTrip
      <4>3. e[2] # PERCENT /\ e[3] # PERCENT /\ DOMAIN e = 1..3
        BY <2>2, <4>1, DigitsAreBytes
      <4> HIDE DEF e
      <4>4. ASSUME NEW i \in DOMAIN e, e[i] = PERCENT
            PROVE  16 * hex_value(e[i + 1]) + hex_value(e[i + 2]) \notin PathBytes
        <5>1. i = 1
          BY <4>3, <4>4
        <5>2. i + 1 = 2 /\ i + 2 = 3
          BY <5>1
        <5>3. QED
          BY <3>2, <4>2, <5>2, Zenon
      <4>5. QED
        BY <4>4, Zenon DEF Minimal, PathBytes
    <3>3. QED
      BY <3>1, <3>2
  <2>4. ServiceEncode(Append(r, c), PathBytes) = a \o e /\ Append(r, c) \in Seq(Byte)
    BY EncodeAppend
  <2> HIDE DEF a, e
  <2>5. Minimal(a)
    BY <1>2, Zenon DEF a
  <2>6. Minimal(a \o e)
    BY <2>2, <2>3, <2>5, MinimalConcat, Zenon
  <2>7. QED
    BY <2>4, <2>6, Zenon
<1>3. Seq(Byte) \subseteq X
  <2> HIDE DEF X
  <2> QED BY <1>1, <1>2, StringsByAppend
<1>4. QED
  BY <1>3

(* A path that ends with a slash is well-encoded without it. *)
LEMMA FrontWellEncoded ==
    ASSUME NEW s \in Seq(Byte), s # <<>>, Last(s) = SLASH
    PROVE  /\ Front(s) \in Seq(Byte) /\ Len(Front(s)) = Len(s) - 1
           /\ \A i \in 1..(Len(s) - 1) : Front(s)[i] = s[i]
           /\ WellEncoded(s) => WellEncoded(Front(s))
           /\ Minimal(s) /\ WellEncoded(s) => Minimal(Front(s))
<1> DEFINE f == Front(s)
<1>1. Len(s) \in Nat \ {0} /\ s[Len(s)] = SLASH
  BY EmptySeq DEF Last
<1>2. f \in Seq(Byte) /\ Len(f) = Len(s) - 1 /\ DOMAIN f = 1..(Len(s) - 1)
      /\ \A i \in 1..(Len(s) - 1) : f[i] = s[i]
  <2> DEFINE n == Len(s) - 1
  <2>1. n \in 0..Len(s)
    BY <1>1
  <2>2. f \in Seq(Byte) /\ Len(f) = n /\ \A i \in 1..n : f[i] = s[i]
    <3> HIDE DEF n
    <3>1. SubSeq(s, 1, n) \in Seq(Byte) /\ Len(SubSeq(s, 1, n)) = n /\ \A i \in 1..n : SubSeq(s, 1, n)[i] = s[i]
      BY <2>1, HeadAndRest, Zenon
    <3>2. QED
      BY <3>1, Zenon DEF Front, n
  <2> HIDE DEF f
  <2>3. DOMAIN f = 1..Len(f)
    BY <2>2
  <2>4. QED
    BY <2>2, <2>3, Zenon
<1> HIDE DEF f
<1>3. SLASH \notin HexDigits
  BY DEF SLASH, HexDigits, Digits
<1>4. ASSUME WellEncoded(s), NEW i \in DOMAIN f, f[i] = PERCENT
      PROVE  i \in DOMAIN s /\ s[i] = PERCENT /\ i + 2 <= Len(f) /\ f[i + 1] = s[i + 1] /\ f[i + 2] = s[i + 2]
             /\ s[i + 1] \in HexDigits /\ s[i + 2] \in HexDigits
  <2>1. i \in 1..Len(s) /\ s[i] = PERCENT /\ i \in DOMAIN s
    BY <1>2, <1>4
  <2>2. i + 2 <= Len(s) /\ s[i + 1] \in HexDigits /\ s[i + 2] \in HexDigits
    BY <1>4, <2>1, TripletFits
  <2>3. i + 2 # Len(s)
    BY <1>1, <1>3, <2>2
  <2>4. i + 2 <= Len(f) /\ i + 1 \in 1..(Len(s) - 1) /\ i + 2 \in 1..(Len(s) - 1)
    BY <1>1, <1>2, <2>1, <2>2, <2>3
  <2>5. QED
    BY <1>2, <2>1, <2>2, <2>4
<1>5. WellEncoded(s) => WellEncoded(f)
  BY <1>4, Zenon DEF WellEncoded
<1>6. Minimal(s) /\ WellEncoded(s) => Minimal(f)
  BY <1>4, Zenon DEF Minimal
<1>7. QED
  BY <1>2, <1>5, <1>6 DEF f

-------------------------------------------------------------------------------
(* A loop over a string: its state after each prefix. *)

Stepped(step, x, c) == step[<<x, c>>]

Run(f, start, step, s) ==
    /\ f[0] = start
    /\ \A n \in 1..Len(s) : f[n] = Stepped(step, f[n - 1], s[n])

(* The state of the loop stays in T. *)
IsLoop(T, S, start, step) == start \in T /\ step \in [T \X S -> T]

(* The state after the last byte. *)
RunEnd(start, step, s) == (CHOOSE f : Run(f, start, step, s))[Len(s)]

LEMMA RunExists ==
    ASSUME NEW T, NEW S, NEW start, NEW step, IsLoop(T, S, start, step), NEW s \in Seq(S)
    PROVE  \E f \in [0..Len(s) -> T] : Run(f, start, step, s)
<1> DEFINE Eq(f, m) == f[0] = start /\ \A n \in 1..m : f[n] = Stepped(step, f[n - 1], s[n])
           X == {m \in Nat : m <= Len(s) => \E f \in [0..m -> T] : Eq(f, m)}
<1>1. 0 \in X
  <2> DEFINE e == [i \in 0..0 |-> start]
  <2>1. e \in [0..0 -> T] /\ Eq(e, 0)
    BY DEF IsLoop
  <2>2. QED
    BY <2>1
<1>2. ASSUME NEW m \in Nat, m \in X PROVE m + 1 \in X
  <2>1. SUFFICES ASSUME m + 1 <= Len(s) PROVE \E f \in [0..(m + 1) -> T] : Eq(f, m + 1)
    <3> HIDE DEF Eq
    <3> QED OBVIOUS
  <2>2. PICK f \in [0..m -> T] : Eq(f, m)
    BY <1>2, <2>1
  <2> DEFINE next == Stepped(step, f[m], s[m + 1])
             g == [i \in 0..(m + 1) |-> IF i <= m THEN f[i] ELSE next]
  <2>3. f[m] \in T /\ s[m + 1] \in S
    BY <2>1
  <2>4. next \in T
    BY <2>3 DEF IsLoop, Stepped
  <2> HIDE DEF next
  <2>5. g \in [0..(m + 1) -> T] /\ g[m + 1] = next /\ \A i \in 0..m : g[i] = f[i]
    BY <2>4
  <2> HIDE DEF g
  <2>6. Eq(g, m + 1)
    <3>1. g[0] = start
      BY <2>2, <2>5
    <3>2. ASSUME NEW n \in 1..(m + 1) PROVE g[n] = Stepped(step, g[n - 1], s[n])
      <4>1. CASE n = m + 1
        <5>1. n - 1 = m /\ m \in 0..m
          BY <4>1
        <5>2. QED
          BY <2>5, <4>1, <5>1, Zenon DEF next
      <4>2. CASE n # m + 1
        <5>1. n \in 1..m /\ n \in 0..m /\ n - 1 \in 0..m
          BY <4>2
        <5>2. g[n] = f[n] /\ g[n - 1] = f[n - 1]
          BY <2>5, <5>1, Zenon
        <5>3. QED
          BY <2>2, <5>1, <5>2, Zenon
      <4>3. QED
        BY <4>1, <4>2
    <3>3. QED
      BY <3>1, <3>2, Zenon
  <2> HIDE DEF Eq
  <2>7. QED
    BY <2>5, <2>6, Zenon
<1>3. Nat \subseteq X
  <2> HIDE DEF X
  <2> QED BY <1>1, <1>2, NumbersByStep
<1>4. PICK f \in [0..Len(s) -> T] : Eq(f, Len(s))
  <2> HIDE DEF Eq
  <2>1. Len(s) \in Nat
    OBVIOUS
  <2>2. QED
    BY <1>3, <2>1
<1>5. Run(f, start, step, s)
  BY <1>4, Zenon DEF Run
<1>6. QED
  BY <1>5

(* Two runs agree as far as their strings do. *)
LEMMA RunsAgree ==
    ASSUME NEW f, NEW g, NEW start, NEW step, NEW s, NEW t, Run(f, start, step, s), Run(g, start, step, t),
           Begins(s, t), Len(s) \in Nat, Len(t) \in Nat
    PROVE  f[Len(s)] = g[Len(s)]
<1> DEFINE X == {k \in Nat : k <= Len(s) => f[k] = g[k]}
<1>1. 0 \in X
  BY DEF Run
<1>2. ASSUME NEW k \in Nat, k \in X PROVE k + 1 \in X
  <2>1. SUFFICES ASSUME k + 1 <= Len(s) PROVE f[k + 1] = g[k + 1]
    OBVIOUS
  <2>2. k + 1 \in 1..Len(s) /\ k + 1 \in 1..Len(t) /\ (k + 1) - 1 = k /\ k <= Len(s)
    BY <2>1 DEF Begins
  <2>3. f[k] = g[k] /\ s[k + 1] = t[k + 1]
    BY <1>2, <2>2 DEF Begins
  <2>4. f[k + 1] = Stepped(step, f[k], s[k + 1]) /\ g[k + 1] = Stepped(step, g[k], t[k + 1])
    BY <2>2, Zenon DEF Run
  <2>5. QED
    BY <2>3, <2>4, Zenon
<1>3. Nat \subseteq X
  <2> HIDE DEF X
  <2> QED BY <1>1, <1>2, NumbersByStep
<1>4. QED
  BY <1>3

(* Any run ends there. *)
LEMMA RunEndsThere ==
    ASSUME NEW S, NEW s \in Seq(S), NEW start, NEW step, NEW f, Run(f, start, step, s)
    PROVE  RunEnd(start, step, s) = f[Len(s)]
<1> DEFINE g == CHOOSE h : Run(h, start, step, s)
<1>1. Run(g, start, step, s)
  BY Zenon
<1>2. Begins(s, s) /\ Len(s) \in Nat
  BY DEF Begins
<1> HIDE DEF g
<1>3. g[Len(s)] = f[Len(s)]
  BY <1>1, <1>2, RunsAgree
<1>4. QED
  BY <1>3, Zenon DEF RunEnd, g

LEMMA RunEndType ==
    ASSUME NEW T, NEW S, NEW start, NEW step, IsLoop(T, S, start, step), NEW s \in Seq(S)
    PROVE  RunEnd(start, step, s) \in T
<1>1. PICK f \in [0..Len(s) -> T] : Run(f, start, step, s)
  BY RunExists
<1>2. Len(s) \in 0..Len(s)
  OBVIOUS
<1>3. RunEnd(start, step, s) = f[Len(s)]
  BY <1>1, RunEndsThere
<1>4. QED
  BY <1>2, <1>3

LEMMA RunEndEmpty ==
    ASSUME NEW T, NEW S, NEW start, NEW step, IsLoop(T, S, start, step)
    PROVE  RunEnd(start, step, <<>>) = start
<1>1. <<>> \in Seq(S) /\ Len(<<>>) = 0
  OBVIOUS
<1>2. PICK f : Run(f, start, step, <<>>)
  BY <1>1, RunExists
<1>3. RunEnd(start, step, <<>>) = f[0]
  BY <1>1, <1>2, RunEndsThere
<1>4. QED
  BY <1>2, <1>3, Zenon DEF Run

LEMMA RunEndAppend ==
    ASSUME NEW T, NEW S, NEW start, NEW step, IsLoop(T, S, start, step), NEW s \in Seq(S), NEW c \in S
    PROVE  RunEnd(start, step, Append(s, c)) = Stepped(step, RunEnd(start, step, s), c)
<1> DEFINE t == Append(s, c)
           n == Len(s)
<1>1. t \in Seq(S) /\ Len(t) = n + 1 /\ t[n + 1] = c /\ n \in Nat /\ \A i \in 1..n : t[i] = s[i]
  OBVIOUS
<1> HIDE DEF t
<1>2. PICK f : Run(f, start, step, s)
  BY RunExists
<1>3. PICK g : Run(g, start, step, t)
  BY <1>1, RunExists
<1>4. Begins(s, t) /\ Len(t) \in Nat /\ Len(s) \in Nat
  BY <1>1 DEF Begins
<1>5. f[n] = g[n]
  BY <1>2, <1>3, <1>4, RunsAgree
<1>6. n + 1 \in 1..Len(t) /\ (n + 1) - 1 = n
  BY <1>1
<1>7. g[n + 1] = Stepped(step, g[n], c)
  <2> HIDE DEF n
  <2>1. g[n + 1] = Stepped(step, g[(n + 1) - 1], t[n + 1])
    BY <1>3, <1>6, Zenon DEF Run
  <2>2. QED
    BY <1>1, <1>6, <2>1, Zenon
<1>8. RunEnd(start, step, s) = f[n] /\ RunEnd(start, step, t) = g[n + 1]
  BY <1>1, <1>2, <1>3, RunEndsThere
<1>9. QED
  BY <1>5, <1>7, <1>8, Zenon DEF t

-------------------------------------------------------------------------------
(* The fields of a string. *)

LEMMA FrontAndLast ==
    ASSUME NEW T, NEW p \in Seq(T), p # <<>>
    PROVE  Front(p) \in Seq(T) /\ Last(p) \in T /\ p = Append(Front(p), Last(p))
           /\ Len(Front(p)) = Len(p) - 1
<1>1. Len(p) \in Nat \ {0}
  BY EmptySeq
<1> DEFINE n == Len(p) - 1
           f == SubSeq(p, 1, n)
           x == p[n + 1]
<1>2. n \in Nat /\ n + 1 = Len(p) /\ n + 1 \in 1..Len(p)
  BY <1>1
<1>3. f \in Seq(T) /\ Len(f) = n /\ \A i \in 1..n : f[i] = p[i]
  BY <1>2
<1>4. x \in T
  BY <1>2
<1> HIDE DEF n, f, x
<1>5. Append(f, x) \in Seq(T) /\ Len(Append(f, x)) = n + 1 /\ Append(f, x)[n + 1] = x
      /\ \A i \in 1..n : Append(f, x)[i] = f[i]
  BY <1>2, <1>3, <1>4, AppendProperties
<1>6. \A i \in 1..Len(p) : p[i] = Append(f, x)[i]
  <2>1. \A i \in 1..Len(p) : i \in 1..n \/ i = n + 1
    BY <1>2
  <2>2. QED
    BY <1>3, <1>5, <2>1, Zenon DEF x
<1>7. p = Append(f, x)
  BY <1>2, <1>5, <1>6, SeqEqual, Zenon
<1>8. Front(p) = f /\ Last(p) = x
  BY <1>2, Zenon DEF Front, Last, f, x, n
<1>9. QED
  BY <1>2, <1>3, <1>4, <1>7, <1>8, Zenon DEF n

LEMMA FrontOfAppend ==
    ASSUME NEW T, NEW p \in Seq(T), NEW x \in T
    PROVE  Front(Append(p, x)) = p /\ Last(Append(p, x)) = x /\ Append(p, x) # <<>>
<1> DEFINE q == Append(p, x)
<1>1. q \in Seq(T) /\ Len(q) = Len(p) + 1 /\ q[Len(p) + 1] = x /\ \A i \in 1..Len(p) : q[i] = p[i]
  BY AppendProperties
<1> HIDE DEF q
<1>2. q # <<>> /\ Len(q) - 1 = Len(p)
  BY <1>1
<1>3. Last(q) = x
  BY <1>1 DEF Last
<1>4. Front(q) \in Seq(T) /\ Len(Front(q)) = Len(p)
  BY <1>1, <1>2, FrontAndLast
<1>5. q = Append(Front(q), x)
  BY <1>1, <1>2, <1>3, FrontAndLast, Zenon
<1>6. \A i \in 1..Len(p) : Front(q)[i] = p[i]
  <2> DEFINE f == Front(q)
  <2> HIDE DEF f
  <2>1. f \in Seq(T) /\ Len(f) = Len(p)
    BY <1>4 DEF f
  <2>2. \A i \in 1..Len(f) : Append(f, x)[i] = f[i]
    BY <2>1, AppendProperties
  <2>3. QED
    BY <1>1, <1>5, <2>1, <2>2, Zenon DEF f
<1>7. Front(q) = p
  BY <1>4, <1>6, SeqEqual
<1>8. QED
  BY <1>2, <1>3, <1>7 DEF q

FieldLists == Seq(Seq(Byte)) \ {<<>>}

(* One more byte. *)
MoreFields(fields, c, separator) ==
    IF c = separator THEN Append(fields, <<>>)
    ELSE Append(Front(fields), Append(Last(fields), c))

FieldStep(separator) == [p \in FieldLists \X Byte |-> MoreFields(p[1], p[2], separator)]

LEMMA FieldStepType ==
    ASSUME NEW separator
    PROVE  /\ FieldStep(separator) \in [FieldLists \X Byte -> FieldLists]
           /\ << <<>> >> \in FieldLists
           /\ \A x \in FieldLists, c \in Byte : Stepped(FieldStep(separator), x, c) = MoreFields(x, c, separator)
<1>1. ASSUME NEW x \in FieldLists, NEW c \in Byte PROVE MoreFields(x, c, separator) \in FieldLists
  <2> DEFINE T == Seq(Byte)
  <2>1. x \in Seq(T) /\ x # <<>> /\ <<>> \in T
    BY Strings, Zenon DEF FieldLists
  <2> HIDE DEF T
  <2>2. Front(x) \in Seq(T) /\ Last(x) \in T
    BY <2>1, FrontAndLast
  <2>3. Append(Last(x), c) \in T
    BY <2>2, Strings, Zenon DEF T
  <2>4. \A p \in Seq(T), y \in T : Append(p, y) \in Seq(T) /\ Append(p, y) # <<>>
    BY AppendProperties
  <2>5. MoreFields(x, c, separator) \in Seq(T) /\ MoreFields(x, c, separator) # <<>>
    BY <2>1, <2>2, <2>3, <2>4, Zenon DEF MoreFields
  <2>6. QED
    BY <2>5, Zenon DEF T, FieldLists
<1>2. << <<>> >> \in FieldLists
  <2>1. << <<>> >> \in Seq(Seq(Byte)) /\ << <<>> >> # <<>>
    OBVIOUS
  <2>2. QED
    BY <2>1, Zenon DEF FieldLists
<1> HIDE DEF FieldLists
<1>3. \A p \in FieldLists \X Byte : MoreFields(p[1], p[2], separator) \in FieldLists
  BY <1>1
<1>4. FieldStep(separator) \in [FieldLists \X Byte -> FieldLists]
  BY <1>3 DEF FieldStep
<1>5. \A x \in FieldLists, c \in Byte : Stepped(FieldStep(separator), x, c) = MoreFields(x, c, separator)
  BY DEF FieldStep, Stepped
<1>6. QED
  BY <1>2, <1>4, <1>5

LEMMA FieldsLoop ==
    ASSUME NEW separator
    PROVE  IsLoop(FieldLists, Byte, << <<>> >>, FieldStep(separator))
BY FieldStepType, Zenon DEF IsLoop

LEMMA FieldsIsRunEnd ==
    ASSUME NEW s \in Seq(Byte), NEW separator
    PROVE  Fields(s, separator) = RunEnd(<< <<>> >>, FieldStep(separator), s)
<1> DEFINE N == Len(s)
           Body(h, n) == IF n = 0 THEN << <<>> >> ELSE MoreFields(h[n - 1], s[n], separator)
           Eq(h) == h = [n \in 0..N |-> Body(h, n)]
           g == CHOOSE h : Eq(h)
<1>1. PICK f \in [0..N -> FieldLists] : Run(f, << <<>> >>, FieldStep(separator), s)
  BY FieldsLoop, RunExists, Zenon
<1>2. ASSUME NEW n \in 0..N PROVE f[n] = Body(f, n)
  <2>1. CASE n = 0
    BY <1>1, <2>1, Zenon DEF Run
  <2>2. CASE n # 0
    <3>1. n \in 1..Len(s) /\ n - 1 \in 0..N /\ s[n] \in Byte
      BY <2>2
    <3>2. f[n - 1] \in FieldLists
      BY <3>1
    <3>3. f[n] = Stepped(FieldStep(separator), f[n - 1], s[n])
      BY <1>1, <3>1, Zenon DEF Run
    <3>4. QED
      BY <2>2, <3>1, <3>2, <3>3, FieldStepType, Zenon
  <2>3. QED
    BY <2>1, <2>2
<1>3. Eq(f)
  <2> HIDE DEF Body
  <2>1. f = [n \in 0..N |-> f[n]]
    OBVIOUS
  <2>2. [n \in 0..N |-> f[n]] = [n \in 0..N |-> Body(f, n)]
    BY <1>2, Zenon
  <2>3. QED
    BY <2>1, <2>2, Zenon
<1>4. Eq(g)
  <2> HIDE DEF Eq
  <2> QED BY <1>3, Zenon
<1>5. Fields(s, separator) = g[N]
  BY Zenon DEF Fields, MoreFields
<1> HIDE DEF g
<1>6. \A n \in 0..N : g[n] = Body(g, n)
  <2> HIDE DEF Body
  <2>1. \A n \in 0..N : [i \in 0..N |-> Body(g, i)][n] = Body(g, n)
    BY Zenon
  <2>2. QED
    BY <1>4, <2>1, Zenon
<1>7. g[N] = f[N]
  <2> DEFINE X == {k \in Nat : k <= N => g[k] = f[k]}
  <2>1. 0 \in X
    <3>1. 0 \in 0..N
      OBVIOUS
    <3>2. g[0] = f[0]
      BY <1>2, <1>6, <3>1, Zenon
    <3>3. QED
      BY <3>2
  <2>2. ASSUME NEW k \in Nat, k \in X PROVE k + 1 \in X
    <3>1. SUFFICES ASSUME k + 1 <= N PROVE g[k + 1] = f[k + 1]
      OBVIOUS
    <3>2. g[k] = f[k] /\ k + 1 \in 0..N /\ k + 1 # 0 /\ (k + 1) - 1 = k
      BY <2>2, <3>1
    <3>3. g[k + 1] = MoreFields(g[k], s[k + 1], separator) /\ f[k + 1] = MoreFields(f[k], s[k + 1], separator)
      BY <1>2, <1>6, <3>2, Zenon
    <3>4. QED
      BY <3>2, <3>3, Zenon
  <2>3. Nat \subseteq X
    <3> HIDE DEF X
    <3> QED BY <2>1, <2>2, NumbersByStep
  <2>4. QED
    BY <2>3
<1>8. RunEnd(<< <<>> >>, FieldStep(separator), s) = f[N]
  BY <1>1, RunEndsThere
<1>9. QED
  BY <1>5, <1>7, <1>8, Zenon

LEMMA FieldsType ==
    ASSUME NEW s \in Seq(Byte), NEW separator
    PROVE  Fields(s, separator) \in FieldLists
<1> DEFINE e == << <<>> >>
           st == FieldStep(separator)
<1>1. IsLoop(FieldLists, Byte, e, st)
  BY FieldsLoop, Zenon
<1> HIDE DEF e, st
<1>2. RunEnd(e, st, s) \in FieldLists
  BY <1>1, RunEndType
<1>3. QED
  BY <1>2, FieldsIsRunEnd, Zenon DEF e, st

LEMMA FieldsEmpty ==
    ASSUME NEW separator
    PROVE  Fields(<<>>, separator) = << <<>> >>
<1>1. <<>> \in Seq(Byte)
  BY Strings
<1>2. QED
  BY <1>1, FieldsIsRunEnd, FieldsLoop, RunEndEmpty, Zenon

LEMMA FieldsAppend ==
    ASSUME NEW s \in Seq(Byte), NEW c \in Byte, NEW separator
    PROVE  Fields(Append(s, c), separator) = MoreFields(Fields(s, separator), c, separator)
<1> DEFINE t == Append(s, c)
           e == << <<>> >>
           st == FieldStep(separator)
<1>1. t \in Seq(Byte)
  BY Strings
<1>2. Fields(t, separator) = RunEnd(e, st, t) /\ Fields(s, separator) = RunEnd(e, st, s)
  BY <1>1, FieldsIsRunEnd, Zenon
<1>3. IsLoop(FieldLists, Byte, e, st)
  BY FieldsLoop, Zenon
<1> HIDE DEF e, st
<1>4. RunEnd(e, st, t) = Stepped(st, RunEnd(e, st, s), c)
  BY <1>3, RunEndAppend
<1>5. Fields(s, separator) \in FieldLists
  BY FieldsType
<1>6. Stepped(st, Fields(s, separator), c) = MoreFields(Fields(s, separator), c, separator)
  BY <1>5, FieldStepType, Zenon DEF st
<1>7. QED
  BY <1>2, <1>4, <1>6, Zenon DEF t

(* The string does not have the byte. *)
Free(s, byte) == \A i \in 1..Len(s) : s[i] # byte

LEMMA FreeAppend ==
    ASSUME NEW s \in Seq(Byte), NEW c \in Byte, NEW byte, Free(Append(s, c), byte)
    PROVE  Free(s, byte) /\ c # byte
<1>1. \A i \in 1..(Len(s) + 1) : Append(s, c)[i] # byte
  BY DEF Free
<1>2. Append(s, c)[Len(s) + 1] = c /\ \A i \in 1..Len(s) : Append(s, c)[i] = s[i] /\ i \in 1..(Len(s) + 1)
  OBVIOUS
<1>3. Len(s) + 1 \in 1..(Len(s) + 1)
  OBVIOUS
<1>4. QED
  BY <1>1, <1>2, <1>3, Zenon DEF Free

LEMMA FieldListParts ==
    ASSUME NEW f \in FieldLists
    PROVE  f \in Seq(Seq(Byte)) /\ Front(f) \in Seq(Seq(Byte)) /\ Last(f) \in Seq(Byte)
           /\ f = Append(Front(f), Last(f))
<1> DEFINE T == Seq(Byte)
<1>1. f \in Seq(T) /\ f # <<>>
  BY Zenon DEF FieldLists
<1> HIDE DEF T
<1>2. Front(f) \in Seq(T) /\ Last(f) \in T /\ f = Append(Front(f), Last(f))
  BY <1>1, FrontAndLast, Zenon
<1>3. QED
  BY <1>1, <1>2, Zenon DEF T

LEMMA FieldListAppend ==
    ASSUME NEW p \in Seq(Seq(Byte)), NEW w \in Seq(Byte)
    PROVE  Append(p, w) \in FieldLists /\ Front(Append(p, w)) = p /\ Last(Append(p, w)) = w
<1> DEFINE T == Seq(Byte)
<1>1. p \in Seq(T) /\ w \in T
  OBVIOUS
<1> HIDE DEF T
<1>2. Append(p, w) \in Seq(T)
  BY <1>1, AppendProperties
<1>3. Front(Append(p, w)) = p /\ Last(Append(p, w)) = w /\ Append(p, w) # <<>>
  BY <1>1, FrontOfAppend, Zenon
<1>4. QED
  BY <1>2, <1>3, Zenon DEF T, FieldLists

(* Bytes other than the separator extend the last field. *)
LEMMA FieldsWord ==
    ASSUME NEW s \in Seq(Byte), NEW w \in Seq(Byte), NEW separator, Free(w, separator)
    PROVE  Fields(s \o w, separator)
             = Append(Front(Fields(s, separator)), Last(Fields(s, separator)) \o w)
<1> DEFINE F == Fields(s, separator)
           a == Front(F)
           b == Last(F)
           X == {r \in Seq(Byte) : Free(r, separator) => Fields(s \o r, separator) = Append(a, b \o r)}
<1>1. a \in Seq(Seq(Byte)) /\ b \in Seq(Byte) /\ F = Append(a, b)
  BY FieldsType, FieldListParts, Zenon
<1> HIDE DEF F, a, b
<1>2. <<>> \in X
  <2>1. s \o <<>> = s /\ b \o <<>> = b /\ <<>> \in Seq(Byte)
    BY <1>1, Strings, Zenon
  <2>2. QED
    BY <1>1, <2>1, Zenon DEF F
<1>3. ASSUME NEW r \in Seq(Byte), r \in X, NEW c \in Byte PROVE Append(r, c) \in X
  <2>1. SUFFICES ASSUME Free(Append(r, c), separator)
                 PROVE  Fields(s \o Append(r, c), separator) = Append(a, b \o Append(r, c))
    BY Strings, Zenon
  <2>2. Free(r, separator) /\ c # separator
    BY <2>1, FreeAppend, Zenon
  <2>3. s \o Append(r, c) = Append(s \o r, c) /\ s \o r \in Seq(Byte)
        /\ b \o Append(r, c) = Append(b \o r, c) /\ b \o r \in Seq(Byte)
    BY <1>1, Strings, Zenon
  <2>4. Fields(s \o r, separator) = Append(a, b \o r)
    BY <1>3, <2>2, Zenon
  <2>5. Fields(Append(s \o r, c), separator) = MoreFields(Append(a, b \o r), c, separator)
    <3> DEFINE u == s \o r
    <3> HIDE DEF u
    <3>1. u \in Seq(Byte) /\ Fields(u, separator) = Append(a, b \o r)
      BY <2>3, <2>4, Zenon DEF u
    <3>2. Fields(Append(u, c), separator) = MoreFields(Fields(u, separator), c, separator)
      BY <3>1, FieldsAppend, Zenon
    <3>3. QED
      BY <3>1, <3>2, Zenon DEF u
  <2>6. Front(Append(a, b \o r)) = a /\ Last(Append(a, b \o r)) = b \o r
    BY <1>1, <2>3, FieldListAppend, Zenon
  <2>7. QED
    BY <2>2, <2>3, <2>5, <2>6, Zenon DEF MoreFields
<1>4. Seq(Byte) \subseteq X
  <2> HIDE DEF X
  <2> QED BY <1>2, <1>3, StringsByAppend
<1>5. QED
  BY <1>4, Zenon DEF F, a, b

LEMMA FieldsFirst ==
    ASSUME NEW w \in Seq(Byte), NEW separator, Free(w, separator)
    PROVE  Fields(w, separator) = <<w>>
<1>1. <<>> \in Seq(Byte) /\ <<>> \o w = w
  BY Strings, Zenon
<1>2. << <<>> >> \in FieldLists /\ << <<>> >> = Append(<<>>, <<>>) /\ <<w>> = Append(<<>>, w)
  BY FieldStepType
<1>3. <<>> \in Seq(Seq(Byte))
  OBVIOUS
<1>4. Front(Append(<<>>, <<>>)) = <<>> /\ Last(Append(<<>>, <<>>)) = <<>>
  BY <1>1, <1>3, FieldListAppend, Zenon
<1>5. Fields(<<>> \o w, separator) = Append(Front(Fields(<<>>, separator)), Last(Fields(<<>>, separator)) \o w)
  BY <1>1, FieldsWord, Zenon
<1>6. QED
  BY <1>1, <1>2, <1>4, <1>5, FieldsEmpty, Zenon

LEMMA FieldsNext ==
    ASSUME NEW s \in Seq(Byte), NEW w \in Seq(Byte), NEW separator \in Byte, Free(w, separator)
    PROVE  Fields(s \o (<<separator>> \o w), separator) = Append(Fields(s, separator), w)
<1> DEFINE t == Append(s, separator)
           F == Fields(s, separator)
<1>1. t \in Seq(Byte) /\ t = s \o <<separator>> /\ <<separator>> \in Seq(Byte) /\ <<>> \in Seq(Byte)
      /\ <<>> \o w = w
  BY Strings, Zenon
<1>2. s \o (<<separator>> \o w) = t \o w
  <2>1. (s \o <<separator>>) \o w = s \o (<<separator>> \o w)
    <3>1. Associates(s, <<separator>>, w)
      BY <1>1, StringsAssociate, Zenon
    <3>2. QED
      BY <3>1, Zenon DEF Associates
  <2> HIDE DEF t
  <2>2. QED
    BY <1>1, <2>1, Zenon
<1>3. Fields(t, separator) = Append(F, <<>>)
  BY FieldsAppend, Zenon DEF MoreFields
<1>4. F \in Seq(Seq(Byte))
  BY FieldsType, FieldListParts, Zenon
<1> HIDE DEF F, t
<1>5. Front(Append(F, <<>>)) = F /\ Last(Append(F, <<>>)) = <<>>
  BY <1>1, <1>4, FieldListAppend, Zenon
<1>6. Fields(t \o w, separator) = Append(Front(Fields(t, separator)), Last(Fields(t, separator)) \o w)
  BY <1>1, FieldsWord, Zenon
<1>7. QED
  BY <1>1, <1>2, <1>3, <1>5, <1>6, Zenon DEF F

-------------------------------------------------------------------------------
(* Joining, and splitting what was joined. *)

JoinedPiece(parts, i, separator) == IF i = 1 THEN parts[i] ELSE <<separator>> \o parts[i]

LEMMA JoinedIs ==
    ASSUME NEW parts \in Seq(Seq(Byte)), NEW separator \in Byte
    PROVE  /\ Joined(parts, separator) = FlattenSeq([i \in 1..Len(parts) |-> JoinedPiece(parts, i, separator)])
           /\ [i \in 1..Len(parts) |-> JoinedPiece(parts, i, separator)] \in Seq(Seq(Byte))
           /\ Joined(parts, separator) \in Seq(Byte)
<1> DEFINE T == Seq(Byte)
<1>1. ASSUME NEW i \in 1..Len(parts) PROVE JoinedPiece(parts, i, separator) \in T
  <2>1. parts[i] \in Seq(Byte)
    OBVIOUS
  <2>2. QED
    BY <2>1, Strings, Zenon DEF JoinedPiece
<1>2. parts \in Seq(T) /\ Len(parts) \in Nat /\ DOMAIN parts = 1..Len(parts)
  OBVIOUS
<1> HIDE DEF T
<1>3. [i \in 1..Len(parts) |-> JoinedPiece(parts, i, separator)] \in Seq(T)
  BY <1>1, <1>2
<1>4. Joined(parts, separator) = FlattenSeq([i \in 1..Len(parts) |-> JoinedPiece(parts, i, separator)])
  BY <1>2, Zenon DEF Joined, JoinedPiece
<1>5. FlattenSeq([i \in 1..Len(parts) |-> JoinedPiece(parts, i, separator)]) \in Seq(Byte)
  BY <1>3, FlattenType, Zenon DEF T
<1>6. QED
  BY <1>3, <1>4, <1>5, Zenon DEF T

LEMMA JoinedEmpty ==
    ASSUME NEW separator
    PROVE  Joined(<<>>, separator) = <<>>
<1>1. [i \in DOMAIN <<>> |-> IF i = 1 THEN <<>>[i] ELSE <<separator>> \o <<>>[i]] = <<>>
  OBVIOUS
<1>2. QED
  BY <1>1, FlattenEmpty, Zenon DEF Joined

LEMMA JoinedAppend ==
    ASSUME NEW parts \in Seq(Seq(Byte)), NEW w \in Seq(Byte), NEW separator \in Byte
    PROVE  Joined(Append(parts, w), separator)
             = Joined(parts, separator) \o (IF parts = <<>> THEN w ELSE <<separator>> \o w)
<1> DEFINE T == Seq(Byte)
           more == Append(parts, w)
           p == [i \in 1..Len(parts) |-> JoinedPiece(parts, i, separator)]
           q == [i \in 1..Len(more) |-> JoinedPiece(more, i, separator)]
           e == IF parts = <<>> THEN w ELSE <<separator>> \o w
           n == Len(parts)
<1>1. parts \in Seq(T) /\ w \in T
  OBVIOUS
<1>2. e \in T
  BY Strings, Zenon
<1> HIDE DEF T
<1>3. more \in Seq(T) /\ Len(more) = n + 1 /\ more[n + 1] = w /\ n \in Nat
      /\ \A i \in 1..n : more[i] = parts[i]
  BY <1>1, AppendProperties
<1> HIDE DEF more
<1>4. p \in Seq(T) /\ Joined(parts, separator) = FlattenSeq(p)
  BY JoinedIs, Zenon DEF T
<1>5. q \in Seq(T) /\ Joined(more, separator) = FlattenSeq(q)
  BY <1>3, JoinedIs, Zenon DEF T
<1>6. Len(p) = n /\ Len(q) = n + 1
  BY <1>3
<1>7. \A i \in 1..n : q[i] = p[i]
  <2>1. \A i \in 1..n : i \in 1..Len(more) /\ i \in 1..Len(parts)
    BY <1>3
  <2>2. \A i \in 1..n : JoinedPiece(more, i, separator) = JoinedPiece(parts, i, separator)
    BY <1>3, Zenon DEF JoinedPiece
  <2>3. QED
    BY <2>1, <2>2, Zenon
<1>8. q[n + 1] = e
  <2>1. n + 1 \in 1..Len(more) /\ (n + 1 = 1 <=> parts = <<>>)
    BY <1>1, <1>3, EmptySeq
  <2> HIDE DEF n
  <2>2. q[n + 1] = JoinedPiece(more, n + 1, separator)
    BY <2>1, Zenon
  <2>3. QED
    BY <1>3, <2>1, <2>2, Zenon DEF JoinedPiece
<1> HIDE DEF p, q, e, n
<1>9. Append(p, e) \in Seq(T) /\ Len(Append(p, e)) = n + 1 /\ Append(p, e)[n + 1] = e
      /\ \A i \in 1..n : Append(p, e)[i] = p[i]
  BY <1>2, <1>4, <1>6, AppendProperties
<1>10. q = Append(p, e)
  <2>1. \A i \in 1..Len(q) : i \in 1..n \/ i = n + 1
    BY <1>3, <1>6
  <2>2. \A i \in 1..Len(q) : q[i] = Append(p, e)[i]
    BY <1>7, <1>8, <1>9, <2>1, Zenon
  <2>3. QED
    BY <1>5, <1>6, <1>9, <2>2, SeqEqual, Zenon
<1>11. FlattenSeq(Append(p, e)) = FlattenSeq(p) \o e
  BY <1>2, <1>4, FlattenAppend, Zenon DEF T
<1>12. QED
  BY <1>4, <1>5, <1>10, <1>11, Zenon DEF more, e

(* Splitting undoes joining when no part has the separator. *)
LEMMA FieldsOfJoined ==
    ASSUME NEW parts \in FieldLists, NEW separator \in Byte,
           \A i \in 1..Len(parts) : Free(parts[i], separator)
    PROVE  Fields(Joined(parts, separator), separator) = parts
<1> DEFINE T == Seq(Byte)
           Clean(p) == \A i \in 1..Len(p) : Free(p[i], separator)
           X == {p \in Seq(T) : p # <<>> /\ Clean(p) => Fields(Joined(p, separator), separator) = p}
<1>1. <<>> \in X
  OBVIOUS
<1>2. ASSUME NEW p \in Seq(T), p \in X, NEW w \in T PROVE Append(p, w) \in X
  <2>1. Append(p, w) \in Seq(T)
    BY AppendProperties
  <2>2. SUFFICES ASSUME Clean(Append(p, w))
                 PROVE  Fields(Joined(Append(p, w), separator), separator) = Append(p, w)
    BY <2>1, Zenon
  <2>3. Clean(p) /\ Free(w, separator)
    <3> HIDE DEF T
    <3>1. Append(p, w)[Len(p) + 1] = w /\ Len(Append(p, w)) = Len(p) + 1
          /\ \A i \in 1..Len(p) : Append(p, w)[i] = p[i]
      BY AppendProperties
    <3>2. Len(p) + 1 \in 1..(Len(p) + 1) /\ \A i \in 1..Len(p) : i \in 1..(Len(p) + 1)
      OBVIOUS
    <3>3. QED
      BY <2>2, <3>1, <3>2, Zenon
  <2>4. CASE p = <<>>
    <3>1. Joined(Append(p, w), separator) = <<>> \o w
      BY <2>4, JoinedAppend, JoinedEmpty, Zenon
    <3>2. <<>> \o w = w
      BY Strings, Zenon
    <3>3. Fields(w, separator) = <<w>>
      BY <2>3, FieldsFirst, Zenon
    <3>4. Append(p, w) = <<w>>
      BY <2>4
    <3>5. QED
      BY <3>1, <3>2, <3>3, <3>4, Zenon
  <2>5. CASE p # <<>>
    <3> DEFINE J == Joined(p, separator)
    <3>1. Joined(Append(p, w), separator) = J \o (<<separator>> \o w)
      BY <2>5, JoinedAppend, Zenon
    <3>2. J \in Seq(Byte) /\ Fields(J, separator) = p
      BY <1>2, <2>3, <2>5, JoinedIs, Zenon
    <3> HIDE DEF J
    <3>3. Fields(J \o (<<separator>> \o w), separator) = Append(Fields(J, separator), w)
      BY <2>3, <3>2, FieldsNext, Zenon
    <3>4. QED
      BY <3>1, <3>2, <3>3, Zenon
  <2>6. QED
    BY <2>4, <2>5
<1>3. Seq(T) \subseteq X
  <2> HIDE DEF X, T
  <2> QED BY <1>1, <1>2, StringsByAppend
<1>4. QED
  <2>1. parts \in Seq(T) /\ parts # <<>>
    BY Zenon DEF FieldLists
  <2>2. QED
    BY <1>3, <2>1, Zenon

-------------------------------------------------------------------------------
(* The order of pairs, and sorting. *)

LEMMA BytesAreNumbers == \A c \in Byte : c \in Int
BY DEF Byte

LEMMA Comparable ==
    ASSUME NEW m \in Int, NEW n \in Int
    PROVE  m < n \/ n < m \/ m = n
OBVIOUS

LEMMA BeforeTotal ==
    ASSUME NEW a \in Seq(Byte), NEW b \in Seq(Byte)
    PROVE  a = b \/ Before(a, b) \/ Before(b, a)
<1> DEFINE D == {i \in 1..Len(a) : i \in 1..Len(b) /\ a[i] # b[i]}
<1>1. DOMAIN a = 1..Len(a) /\ DOMAIN b = 1..Len(b)
  OBVIOUS
<1>2. Len(a) \in Int /\ Len(b) \in Int
  OBVIOUS
<1>3. D \in SUBSET Nat
  OBVIOUS
<1>4. CASE D # {}
  <2>1. PICK i \in D : \A m \in D : i <= m
    <3> HIDE DEF D
    <3> QED BY <1>3, <1>4, LeastNumber
  <2>2. i \in 1..Len(a) /\ i \in 1..Len(b) /\ a[i] # b[i]
    BY <2>1, Zenon
  <2>3. a[i] \in Byte /\ b[i] \in Byte
    <3> HIDE DEF D
    <3> QED BY <2>2
  <2>4. a[i] \in Int /\ b[i] \in Int /\ i \in DOMAIN a \cap DOMAIN b
    BY <1>1, <2>2, <2>3, BytesAreNumbers, Zenon
  <2>5. \A k \in 1..(i - 1) : a[k] = b[k]
    <3>1. \A k \in 1..(i - 1) : k \in 1..Len(a) /\ k \in 1..Len(b) /\ ~(i <= k)
      <4> HIDE DEF D
      <4> QED BY <1>2, <2>2
    <3>2. QED
      BY <2>1, <3>1, Zenon
  <2>6. \A k \in 1..(i - 1) : b[k] = a[k]
    BY <2>5, Zenon
  <2>7. a[i] < b[i] \/ b[i] < a[i]
    BY <2>2, <2>4, Comparable, Zenon
  <2>8. QED
    BY <2>4, <2>5, <2>6, <2>7, Zenon DEF Before
<1>5. CASE D = {}
  <2>1. \A i \in 1..Len(a) : i \in 1..Len(b) => a[i] = b[i]
    BY <1>5, Zenon
  <2> HIDE DEF D
  <2>2. Len(a) < Len(b) => Before(a, b)
    BY <1>1, <1>2, <2>1 DEF Before
  <2>3. Len(b) < Len(a) => Before(b, a)
    BY <1>1, <1>2, <2>1 DEF Before
  <2>4. Len(a) = Len(b) => a = b
    BY <2>1, SeqEqual
  <2>5. QED
    BY <1>2, <2>2, <2>3, <2>4, Comparable, Zenon
<1>6. QED
  BY <1>4, <1>5, Zenon

LEMMA PairParts ==
    ASSUME NEW A, NEW B, NEW p \in A \X B
    PROVE  p[1] \in A /\ p[2] \in B /\ p = <<p[1], p[2]>>
OBVIOUS

Pairs == Seq(Byte) \X Seq(Byte)

LEMMA PairFields ==
    ASSUME NEW p \in Pairs
    PROVE  p[1] \in Seq(Byte) /\ p[2] \in Seq(Byte) /\ p = <<p[1], p[2]>>
<1> DEFINE A == Seq(Byte)
<1>1. p \in A \X A
  BY DEF Pairs
<1> HIDE DEF A
<1>2. QED
  BY <1>1, PairParts DEF A

LEMMA PairBeforeTotal ==
    ASSUME NEW p \in Pairs, NEW q \in Pairs
    PROVE  p = q \/ PairBefore(p, q) \/ PairBefore(q, p)
<1>1. PICK a \in Seq(Byte), b \in Seq(Byte) : p = <<a, b>>
  BY PairFields, Zenon
<1>2. PICK c \in Seq(Byte), d \in Seq(Byte) : q = <<c, d>>
  BY PairFields, Zenon
<1>3. p[1] = a /\ p[2] = b /\ q[1] = c /\ q[2] = d
  BY <1>1, <1>2
<1>4. a = c \/ Before(a, c) \/ Before(c, a)
  BY BeforeTotal, Zenon
<1>5. b = d \/ Before(b, d) \/ Before(d, b)
  BY BeforeTotal, Zenon
<1>6. QED
  BY <1>1, <1>2, <1>3, <1>4, <1>5, Zenon DEF PairBefore

(* The sequence r is x with c at place k. *)
PutAt(r, x, c, k) ==
    /\ Len(r) = Len(x) + 1
    /\ \A i \in 1..(k - 1) : r[i] = x[i]
    /\ r[k] = c
    /\ \A i \in k..Len(x) : r[i + 1] = x[i]

LEMMA PutBetween ==
    ASSUME NEW P, NEW x \in Seq(P), NEW c \in P, NEW k \in 1..(Len(x) + 1)
    PROVE  LET r == SubSeq(x, 1, k - 1) \o <<c>> \o SubSeq(x, k, Len(x))
           IN  r \in Seq(P) /\ PutAt(r, x, c, k)
<1> DEFINE a == SubSeq(x, 1, k - 1)
           b == SubSeq(x, k, Len(x))
           d == a \o <<c>>
           r == d \o b
<1>1. a \in Seq(P) /\ Len(a) = k - 1 /\ \A i \in 1..(k - 1) : a[i] = x[i]
  OBVIOUS
<1>2. b \in Seq(P) /\ Len(b) = Len(x) - k + 1 /\ \A i \in 1..Len(b) : b[i] = x[k + i - 1]
  OBVIOUS
<1>3. <<c>> \in Seq(P) /\ Len(<<c>>) = 1 /\ <<c>>[1] = c
  OBVIOUS
<1> HIDE DEF a, b
<1>4. d \in Seq(P) /\ Len(d) = Len(a) + 1 /\ (\A i \in 1..Len(a) : d[i] = a[i]) /\ d[Len(a) + 1] = c
  <2> DEFINE e == <<c>>
  <2>1. e \in Seq(P) /\ Len(e) = 1 /\ e[1] = c
    BY <1>3
  <2> HIDE DEF e
  <2>2. a \o e \in Seq(P) /\ Len(a \o e) = Len(a) + Len(e)
        /\ \A i \in 1..(Len(a) + Len(e)) : (a \o e)[i] = IF i <= Len(a) THEN a[i] ELSE e[i - Len(a)]
    BY <1>1, <2>1, ConcatProperties
  <2>3. \A i \in 1..Len(a) : (a \o e)[i] = a[i]
    BY <1>1, <2>1, <2>2
  <2>4. (a \o e)[Len(a) + 1] = c
    BY <1>1, <2>1, <2>2
  <2>5. QED
    BY <2>1, <2>2, <2>3, <2>4, Zenon DEF e
<1> HIDE DEF d
<1>5. r \in Seq(P) /\ Len(r) = Len(d) + Len(b)
      /\ \A i \in 1..(Len(d) + Len(b)) : r[i] = IF i <= Len(d) THEN d[i] ELSE b[i - Len(d)]
  BY <1>2, <1>4, ConcatProperties
<1> HIDE DEF r
<1>6. Len(d) = k /\ Len(x) \in Nat /\ Len(r) = Len(x) + 1
  BY <1>1, <1>2, <1>4, <1>5
<1>7. \A i \in 1..(k - 1) : r[i] = x[i]
  BY <1>1, <1>2, <1>4, <1>5, <1>6
<1>8. r[k] = c
  BY <1>1, <1>2, <1>4, <1>5, <1>6
<1>9. \A i \in k..Len(x) : r[i + 1] = x[i]
  <2> TAKE i \in k..Len(x)
  <2>1. i + 1 \in 1..(Len(d) + Len(b)) /\ ~(i + 1 <= Len(d)) /\ i + 1 - Len(d) \in 1..Len(b)
        /\ k + (i + 1 - Len(d)) - 1 = i
    BY <1>2, <1>6
  <2>2. r[i + 1] = b[i + 1 - Len(d)]
    BY <1>5, <2>1
  <2>3. b[i + 1 - Len(d)] = x[k + (i + 1 - Len(d)) - 1]
    BY <1>2, <2>1
  <2>4. QED
    BY <2>1, <2>2, <2>3
<1>10. QED
  BY <1>5, <1>6, <1>7, <1>8, <1>9, Zenon DEF PutAt, r, d, a, b

(* Every pair is equal to the next or before it. *)
Ordered(x) == \A i \in 1..(Len(x) - 1) : x[i] = x[i + 1] \/ PairBefore(x[i], x[i + 1])

Elements(x) == {x[i] : i \in 1..Len(x)}

(* Where Inserted puts a pair. *)
IsPlace(k, x, c) ==
    /\ \A i \in 1..(k - 1) : ~PairBefore(c, x[i])
    /\ k <= Len(x) => PairBefore(c, x[k])

LEMMA InsertedIs ==
    ASSUME NEW x \in Seq(Pairs), NEW c \in Pairs
    PROVE  /\ Inserted(x, c) \in Seq(Pairs)
           /\ \E k \in 1..(Len(x) + 1) : IsPlace(k, x, c) /\ PutAt(Inserted(x, c), x, c, k)
<1> DEFINE K == {k \in 1..(Len(x) + 1) : k <= Len(x) => PairBefore(c, x[k])}
           at == CHOOSE k \in 1..(Len(x) + 1) : IsPlace(k, x, c)
<1>1. Len(x) \in Nat
  OBVIOUS
<1>2. \E k \in 1..(Len(x) + 1) : IsPlace(k, x, c)
  <2>1. Len(x) + 1 \in K /\ K \in SUBSET Nat
    BY <1>1
  <2>2. PICK k \in K : \A m \in K : k <= m
    <3> HIDE DEF K
    <3> QED BY <2>1, LeastNumber
  <2>3. k \in 1..(Len(x) + 1) /\ (k <= Len(x) => PairBefore(c, x[k]))
    BY <2>2, Zenon
  <2>4. \A i \in 1..(k - 1) : ~PairBefore(c, x[i])
    <3>1. \A i \in 1..(k - 1) : i \in 1..(Len(x) + 1) /\ ~(k <= i)
      <4> HIDE DEF K
      <4> QED BY <1>1, <2>3
    <3>2. QED
      BY <2>2, <3>1, Zenon
  <2>5. QED
    BY <2>3, <2>4, Zenon DEF IsPlace
<1>3. at \in 1..(Len(x) + 1) /\ IsPlace(at, x, c)
  BY <1>2, Zenon
<1>4. Inserted(x, c) = SubSeq(x, 1, at - 1) \o <<c>> \o SubSeq(x, at, Len(x))
  BY Zenon DEF Inserted, IsPlace
<1> HIDE DEF at
<1>5. Inserted(x, c) \in Seq(Pairs) /\ PutAt(Inserted(x, c), x, c, at)
  BY <1>3, <1>4, PutBetween, Zenon
<1>6. QED
  BY <1>3, <1>5, Zenon

LEMMA InsertedOrdered ==
    ASSUME NEW x \in Seq(Pairs), NEW c \in Pairs, Ordered(x)
    PROVE  Ordered(Inserted(x, c))
<1> DEFINE r == Inserted(x, c)
           n == Len(x)
<1>1. PICK k \in 1..(n + 1) : IsPlace(k, x, c) /\ PutAt(r, x, c, k)
  BY InsertedIs, Zenon
<1>2. n \in Nat /\ \A i \in 1..n : x[i] \in Pairs
  OBVIOUS
<1> HIDE DEF r, n
<1>3. Len(r) = n + 1 /\ (\A i \in 1..(k - 1) : r[i] = x[i]) /\ r[k] = c /\ \A i \in k..n : r[i + 1] = x[i]
  BY <1>1, Zenon DEF PutAt, n
<1>4. /\ \A i \in 1..(k - 1) : ~PairBefore(c, x[i])
      /\ k <= n => PairBefore(c, x[k])
  BY <1>1, Zenon DEF IsPlace, n
<1>5. \A i \in 1..(n - 1) : x[i] = x[i + 1] \/ PairBefore(x[i], x[i + 1])
  BY Zenon DEF Ordered, n
<1>6. ASSUME NEW i \in 1..(Len(r) - 1) PROVE r[i] = r[i + 1] \/ PairBefore(r[i], r[i + 1])
  <2>1. i \in 1..n
    BY <1>2, <1>3
  <2>2. CASE i + 1 < k
    <3>1. i \in 1..(k - 1) /\ i + 1 \in 1..(k - 1) /\ i \in 1..(n - 1)
      BY <1>2, <2>1, <2>2
    <3>2. r[i] = x[i] /\ r[i + 1] = x[i + 1]
      BY <1>3, <3>1, Zenon
    <3>3. QED
      BY <1>5, <3>1, <3>2, Zenon
  <2>3. CASE i + 1 = k
    <3>1. i \in 1..(k - 1)
      BY <1>2, <2>1, <2>3
    <3>2. r[i] = x[i] /\ r[i + 1] = c /\ ~PairBefore(c, x[i]) /\ x[i] \in Pairs
      BY <1>2, <1>3, <1>4, <2>1, <2>3, <3>1, Zenon
    <3>3. QED
      BY <3>2, PairBeforeTotal, Zenon
  <2>4. CASE i = k
    <3>1. k <= n /\ k \in k..n
      BY <1>2, <2>1, <2>4
    <3>2. r[i] = c /\ r[i + 1] = x[k]
      BY <1>3, <2>4, <3>1, Zenon
    <3>3. QED
      BY <1>4, <2>4, <3>1, <3>2, Zenon
  <2>5. CASE i > k
    <3>1. i - 1 \in k..n /\ i \in k..n /\ (i - 1) + 1 = i /\ i - 1 \in 1..(n - 1)
      BY <1>2, <2>1, <2>5
    <3>2. r[(i - 1) + 1] = x[i - 1] /\ r[i + 1] = x[i]
      BY <1>3, <3>1, Zenon
    <3>3. x[i - 1] = x[(i - 1) + 1] \/ PairBefore(x[i - 1], x[(i - 1) + 1])
      BY <1>5, <3>1, Zenon
    <3>4. QED
      BY <3>1, <3>2, <3>3, Zenon
  <2>6. i + 1 < k \/ i + 1 = k \/ i = k \/ i > k
    BY <1>2, <2>1
  <2>7. QED
    BY <2>2, <2>3, <2>4, <2>5, <2>6, Zenon
<1>7. QED
  BY <1>6, Zenon DEF Ordered, r

LEMMA InsertedElements ==
    ASSUME NEW x \in Seq(Pairs), NEW c \in Pairs
    PROVE  Len(Inserted(x, c)) = Len(x) + 1 /\ Elements(Inserted(x, c)) = Elements(x) \cup {c}
<1> DEFINE r == Inserted(x, c)
           n == Len(x)
<1>1. PICK k \in 1..(n + 1) : PutAt(r, x, c, k)
  BY InsertedIs, Zenon
<1>2. n \in Nat
  OBVIOUS
<1> HIDE DEF r, n
<1>3. Len(r) = n + 1 /\ (\A i \in 1..(k - 1) : r[i] = x[i]) /\ r[k] = c /\ \A i \in k..n : r[i + 1] = x[i]
  BY <1>1, Zenon DEF PutAt, n
<1>4. ASSUME NEW i \in 1..(n + 1) PROVE r[i] = c \/ \E j \in 1..n : r[i] = x[j]
  <2>1. CASE i < k
    <3>1. i \in 1..(k - 1) /\ i \in 1..n
      BY <1>2, <2>1
    <3>2. QED
      BY <1>3, <3>1, Zenon
  <2>2. CASE i > k
    <3>1. i - 1 \in k..n /\ (i - 1) + 1 = i /\ i - 1 \in 1..n
      BY <1>2, <2>2
    <3>2. r[(i - 1) + 1] = x[i - 1]
      BY <1>3, <3>1, Zenon
    <3>3. QED
      BY <3>1, <3>2, Zenon
  <2>3. i < k \/ i > k \/ i = k
    BY <1>2
  <2>4. QED
    BY <1>3, <2>1, <2>2, <2>3, Zenon
<1>5. ASSUME NEW j \in 1..n PROVE \E i \in 1..(n + 1) : r[i] = x[j]
  <2>1. CASE j < k
    <3>1. j \in 1..(k - 1) /\ j \in 1..(n + 1)
      BY <1>2, <2>1
    <3>2. QED
      BY <1>3, <3>1, Zenon
  <2>2. CASE ~(j < k)
    <3>1. j \in k..n /\ j + 1 \in 1..(n + 1)
      BY <1>2, <2>2
    <3>2. QED
      BY <1>3, <3>1, Zenon
  <2>3. QED
    BY <2>1, <2>2
<1>6. {r[i] : i \in 1..(n + 1)} = {x[j] : j \in 1..n} \cup {c}
  <2>1. {r[i] : i \in 1..(n + 1)} \subseteq {x[j] : j \in 1..n} \cup {c}
    BY <1>4, Zenon
  <2>2. {x[j] : j \in 1..n} \subseteq {r[i] : i \in 1..(n + 1)}
    BY <1>5, Zenon
  <2>3. c \in {r[i] : i \in 1..(n + 1)}
    BY <1>3, Zenon
  <2>4. QED
    BY <2>1, <2>2, <2>3, Zenon
<1>7. QED
  BY <1>3, <1>6, Zenon DEF Elements, r, n

SortStep == [p \in Seq(Pairs) \X Pairs |-> Inserted(p[1], p[2])]

LEMMA SortLoop ==
    /\ IsLoop(Seq(Pairs), Pairs, <<>>, SortStep)
    /\ \A x \in Seq(Pairs), c \in Pairs : Stepped(SortStep, x, c) = Inserted(x, c)
<1> DEFINE T == Seq(Pairs)
<1>1. \A x \in T, c \in Pairs : Inserted(x, c) \in T
  BY InsertedIs, Zenon
<1>2. <<>> \in T
  OBVIOUS
<1> HIDE DEF T
<1>3. [p \in T \X Pairs |-> Inserted(p[1], p[2])] \in [T \X Pairs -> T]
  BY <1>1
<1>4. \A x \in T, c \in Pairs : [p \in T \X Pairs |-> Inserted(p[1], p[2])][<<x, c>>] = Inserted(x, c)
  OBVIOUS
<1>5. QED
  BY <1>2, <1>3, <1>4, Zenon DEF T, IsLoop, Stepped, SortStep

LEMMA SortIsRunEnd ==
    ASSUME NEW s \in Seq(Pairs)
    PROVE  sort_unstable(s) = RunEnd(<<>>, SortStep, s)
<1> DEFINE N == Len(s)
           T == Seq(Pairs)
           Body(h, n) == IF n = 0 THEN <<>> ELSE Inserted(h[n - 1], s[n])
           Eq(h) == h = [n \in 0..N |-> Body(h, n)]
           g == CHOOSE h : Eq(h)
<1>1. PICK f \in [0..N -> T] : Run(f, <<>>, SortStep, s)
  BY SortLoop, RunExists, Zenon
<1> HIDE DEF T
<1>2. ASSUME NEW n \in 0..N PROVE f[n] = Body(f, n)
  <2>1. CASE n = 0
    BY <1>1, <2>1, Zenon DEF Run
  <2>2. CASE n # 0
    <3>1. n \in 1..Len(s) /\ n - 1 \in 0..N /\ s[n] \in Pairs
      BY <2>2
    <3>2. f[n - 1] \in T
      BY <3>1
    <3>3. f[n] = Stepped(SortStep, f[n - 1], s[n])
      BY <1>1, <3>1, Zenon DEF Run
    <3>4. QED
      BY <2>2, <3>1, <3>2, <3>3, SortLoop, Zenon DEF T
  <2>3. QED
    BY <2>1, <2>2
<1>3. Eq(f)
  <2> HIDE DEF Body
  <2>1. f = [n \in 0..N |-> f[n]]
    OBVIOUS
  <2>2. [n \in 0..N |-> f[n]] = [n \in 0..N |-> Body(f, n)]
    BY <1>2, Zenon
  <2>3. QED
    BY <2>1, <2>2, Zenon
<1>4. Eq(g)
  <2> HIDE DEF Eq
  <2> QED BY <1>3, Zenon
<1>5. sort_unstable(s) = g[N]
  BY Zenon DEF sort_unstable
<1> HIDE DEF g
<1>6. \A n \in 0..N : g[n] = Body(g, n)
  <2> HIDE DEF Body
  <2>1. \A n \in 0..N : [i \in 0..N |-> Body(g, i)][n] = Body(g, n)
    BY Zenon
  <2>2. QED
    BY <1>4, <2>1, Zenon
<1>7. g[N] = f[N]
  <2> DEFINE X == {k \in Nat : k <= N => g[k] = f[k]}
  <2>1. 0 \in X
    <3>1. 0 \in 0..N
      OBVIOUS
    <3>2. g[0] = f[0]
      BY <1>2, <1>6, <3>1, Zenon
    <3>3. QED
      BY <3>2
  <2>2. ASSUME NEW k \in Nat, k \in X PROVE k + 1 \in X
    <3>1. SUFFICES ASSUME k + 1 <= N PROVE g[k + 1] = f[k + 1]
      OBVIOUS
    <3>2. g[k] = f[k] /\ k + 1 \in 0..N /\ k + 1 # 0 /\ (k + 1) - 1 = k
      BY <2>2, <3>1
    <3>3. g[k + 1] = Inserted(g[k], s[k + 1]) /\ f[k + 1] = Inserted(f[k], s[k + 1])
      BY <1>2, <1>6, <3>2, Zenon
    <3>4. QED
      BY <3>2, <3>3, Zenon
  <2>3. Nat \subseteq X
    <3> HIDE DEF X
    <3> QED BY <2>1, <2>2, NumbersByStep
  <2>4. QED
    BY <2>3
<1>8. RunEnd(<<>>, SortStep, s) = f[N]
  BY <1>1, RunEndsThere
<1>9. QED
  BY <1>5, <1>7, <1>8, Zenon

(* Sorting orders the pairs and keeps them. *)
LEMMA SortFacts ==
    ASSUME NEW s \in Seq(Pairs)
    PROVE  /\ sort_unstable(s) \in Seq(Pairs) /\ Ordered(sort_unstable(s))
           /\ Len(sort_unstable(s)) = Len(s) /\ Elements(sort_unstable(s)) = Elements(s)
<1> DEFINE Good(t) == LET r == sort_unstable(t)
                      IN  r \in Seq(Pairs) /\ Ordered(r) /\ Len(r) = Len(t) /\ Elements(r) = Elements(t)
           X == {t \in Seq(Pairs) : Good(t)}
<1>1. <<>> \in X
  <2>1. <<>> \in Seq(Pairs)
    OBVIOUS
  <2>2. sort_unstable(<<>>) = <<>>
    BY <2>1, SortIsRunEnd, SortLoop, RunEndEmpty, Zenon
  <2>3. Ordered(<<>>)
    BY DEF Ordered
  <2>4. QED
    BY <2>1, <2>2, <2>3, Zenon
<1>2. ASSUME NEW t \in Seq(Pairs), t \in X, NEW c \in Pairs PROVE Append(t, c) \in X
  <2> DEFINE u == Append(t, c)
             r == sort_unstable(t)
             q == sort_unstable(u)
  <2>1. u \in Seq(Pairs) /\ Len(u) = Len(t) + 1 /\ u[Len(t) + 1] = c /\ \A i \in 1..Len(t) : u[i] = t[i]
    BY AppendProperties
  <2>2. r \in Seq(Pairs) /\ Ordered(r) /\ Len(r) = Len(t) /\ Elements(r) = Elements(t)
    BY <1>2, Zenon
  <2>3. q = Inserted(r, c)
    <3>1. q = RunEnd(<<>>, SortStep, u) /\ r = RunEnd(<<>>, SortStep, t)
      BY <2>1, SortIsRunEnd, Zenon
    <3> HIDE DEF q, r
    <3>2. RunEnd(<<>>, SortStep, u) = Stepped(SortStep, RunEnd(<<>>, SortStep, t), c)
      BY SortLoop, RunEndAppend
    <3>3. QED
      BY <2>2, <3>1, <3>2, SortLoop, Zenon
  <2> HIDE DEF q, r
  <2>4. q \in Seq(Pairs) /\ Ordered(q) /\ Len(q) = Len(r) + 1 /\ Elements(q) = Elements(r) \cup {c}
    BY <2>2, <2>3, InsertedIs, InsertedOrdered, InsertedElements, Zenon
  <2>5. Elements(u) = Elements(t) \cup {c}
    <3> HIDE DEF u
    <3>1. Len(t) \in Nat /\ \A i \in 1..(Len(t) + 1) : i \in 1..Len(t) \/ i = Len(t) + 1
      OBVIOUS
    <3>2. Len(t) + 1 \in 1..(Len(t) + 1) /\ \A i \in 1..Len(t) : i \in 1..(Len(t) + 1)
      OBVIOUS
    <3>3. Elements(u) = {u[i] : i \in 1..(Len(t) + 1)} /\ Elements(t) = {t[i] : i \in 1..Len(t)}
      BY <2>1, Zenon DEF Elements
    <3>4. Elements(u) \subseteq Elements(t) \cup {c}
      BY <2>1, <3>1, <3>3, Zenon
    <3>5. Elements(t) \subseteq Elements(u)
      BY <2>1, <3>2, <3>3, Zenon
    <3>6. c \in Elements(u)
      BY <2>1, <3>2, <3>3, Zenon
    <3>7. QED
      BY <3>4, <3>5, <3>6, Zenon
  <2>6. Len(q) = Len(u)
    BY <2>1, <2>2, <2>4, Zenon
  <2>7. Good(u)
    BY <2>2, <2>4, <2>5, <2>6, Zenon DEF q
  <2>8. QED
    BY <2>1, <2>7, Zenon
<1>3. Seq(Pairs) \subseteq X
  <2> HIDE DEF X
  <2> QED BY <1>1, <1>2, StringsByAppend
<1>4. QED
  BY <1>3, Zenon

-------------------------------------------------------------------------------
(* The canonical query. *)

EncodedPair(p) == <<ServiceEncode(p[1], Unreserved), ServiceEncode(p[2], Unreserved)>>

(* The bytes that separate the parts of a query are not in an encoded string. *)
LEMMA EncodedIsFree ==
    ASSUME NEW s \in Seq(Byte), NEW byte \in {AND, EQUALS, SLASH}
    PROVE  Free(ServiceEncode(s, Unreserved), byte)
<1>1. byte \notin Unreserved \cup {PERCENT} \cup UpperHex
  BY DEF Unreserved, Alphanumeric, Digits, Upper, Lower, UpperHex, PERCENT, AND, EQUALS, SLASH
<1>2. QED
  BY <1>1, EncodedBytes, Zenon DEF Free

LEMMA FreeConcat ==
    ASSUME NEW s \in Seq(Byte), NEW t \in Seq(Byte), NEW byte, Free(s, byte), Free(t, byte)
    PROVE  Free(s \o t, byte)
BY DEF Free

LEMMA SeparatorsAre == AND \in Byte /\ EQUALS \in Byte /\ AND # EQUALS
BY DEF AND, EQUALS, Byte

LEMMA TwoAppends ==
    ASSUME NEW T, NEW p \in Seq(T), Len(p) = 2
    PROVE  p = Append(<<p[1]>>, p[2]) /\ <<p[1]>> \in Seq(T)
<1>1. PICK x \in T, y \in T : p[1] = x /\ p[2] = y
  OBVIOUS
<1>2. <<x>> \in Seq(T)
  OBVIOUS
<1>3. p = Append(<<x>>, y)
  BY <1>1
<1>4. QED
  BY <1>1, <1>2, <1>3, Zenon

LEMMA TwoFields ==
    ASSUME NEW T, NEW a \in T, NEW b \in T
    PROVE  Append(<<a>>, b) = <<a, b>>
<1> DEFINE two == <<a, b>>
<1>1. two \in Seq(T) /\ Len(two) = 2 /\ two[1] = a /\ two[2] = b
  OBVIOUS
<1> HIDE DEF two
<1>2. two = Append(<<two[1]>>, two[2])
  BY <1>1, TwoAppends, Zenon
<1>3. QED
  BY <1>1, <1>2, Zenon DEF two

(* A pair that is written, and read again. *)
LEMMA QueryPairFields ==
    ASSUME NEW a \in Seq(Byte), NEW b \in Seq(Byte),
           Free(a, AND), Free(b, AND), Free(a, EQUALS), Free(b, EQUALS)
    PROVE  LET q == QueryPair(<<a, b>>)
           IN  q \in Seq(Byte) /\ q # <<>> /\ Free(q, AND) /\ Fields(q, EQUALS) = <<a, b>>
<1> DEFINE e == <<EQUALS>>
           q == (a \o e) \o b
<1>1. e \in Seq(Byte) /\ Len(e) = 1 /\ Free(e, AND)
  BY SeparatorsAre DEF Free
<1>2. QueryPair(<<a, b>>) = q
  <2>1. <<a, b>>[1] = a /\ <<a, b>>[2] = b
    OBVIOUS
  <2>2. QED
    BY <2>1, Zenon DEF QueryPair
<1> HIDE DEF e
<1>3. q \in Seq(Byte) /\ q = a \o (e \o b)
  <2>1. a \o e \in Seq(Byte)
    BY <1>1, Strings, Zenon
  <2>2. q \in Seq(Byte)
    BY <2>1, Strings, Zenon
  <2>3. Associates(a, e, b)
    BY <1>1, StringsAssociate, Zenon
  <2>4. QED
    BY <2>2, <2>3, Zenon DEF Associates
<1>4. Free(q, AND)
  <2>1. Free(a \o e, AND) /\ a \o e \in Seq(Byte)
    BY <1>1, FreeConcat, Strings, Zenon
  <2>2. QED
    BY <2>1, FreeConcat, Zenon
<1>5. q # <<>>
  <2>1. Len(a \o e) = Len(a) + 1 /\ a \o e \in Seq(Byte)
    <3>1. a \o e \in Seq(Byte) /\ Len(a \o e) = Len(a) + Len(e)
      BY <1>1, ConcatProperties
    <3>2. QED
      BY <1>1, <3>1, Zenon
  <2>2. Len(q) = (Len(a) + 1) + Len(b)
    <3> DEFINE ae == a \o e
    <3>1. ae \in Seq(Byte) /\ Len(ae) = Len(a) + 1
      BY <2>1
    <3> HIDE DEF ae
    <3>2. Len(ae \o b) = Len(ae) + Len(b)
      BY <3>1, ConcatProperties
    <3>3. QED
      BY <3>1, <3>2, Zenon DEF ae
  <2>3. Len(q) # 0
    BY <2>2
  <2>4. QED
    BY <2>3, EmptySeq
<1>6. Fields(q, EQUALS) = <<a, b>>
  <2>1. Fields(a, EQUALS) = <<a>>
    BY FieldsFirst, Zenon
  <2>2. Fields(a \o (e \o b), EQUALS) = Append(<<a>>, b)
    BY <2>1, SeparatorsAre, FieldsNext, Zenon DEF e
  <2>3. Append(<<a>>, b) = <<a, b>>
    BY TwoFields, Zenon
  <2>4. QED
    BY <1>3, <2>2, <2>3, Zenon
<1>7. QED
  BY <1>2, <1>3, <1>4, <1>5, <1>6, Zenon

(* The pairs of a query string. *)
SplitQuery(query) ==
    IF query = <<>> THEN <<>>
    ELSE [i \in DOMAIN Fields(query, AND) |-> Fields(Fields(query, AND)[i], EQUALS)]

QueryString(pairs) == Joined([i \in DOMAIN pairs |-> QueryPair(pairs[i])], AND)

(* Splitting a query gives the pairs it was joined from. *)
LEMMA SplitQueryString ==
    ASSUME NEW x \in Seq(Pairs),
           \A i \in 1..Len(x) : \A byte \in {AND, EQUALS} : Free(x[i][1], byte) /\ Free(x[i][2], byte)
    PROVE  /\ QueryString(x) \in Seq(Byte) /\ SplitQuery(QueryString(x)) = x
           /\ QueryString(x) = <<>> <=> x = <<>>
<1> DEFINE n == Len(x)
           T == Seq(Byte)
           parts == [i \in 1..n |-> QueryPair(x[i])]
<1>1. ASSUME NEW i \in 1..n
      PROVE  /\ QueryPair(x[i]) \in T /\ QueryPair(x[i]) # <<>> /\ Free(QueryPair(x[i]), AND)
             /\ Fields(QueryPair(x[i]), EQUALS) = x[i]
  <2>1. x[i] \in Pairs
    OBVIOUS
  <2>2. x[i][1] \in T /\ x[i][2] \in T /\ x[i] = <<x[i][1], x[i][2]>>
    BY <2>1, PairFields, Zenon
  <2>3. PICK a \in T, b \in T : a = x[i][1] /\ b = x[i][2]
    BY <2>2, Zenon
  <2>4. Free(a, AND) /\ Free(b, AND) /\ Free(a, EQUALS) /\ Free(b, EQUALS)
    BY <2>3, Zenon
  <2>5. x[i] = <<a, b>>
    BY <2>2, <2>3, Zenon
  <2>6. QED
    BY <2>4, <2>5, QueryPairFields, Zenon
<1>2. n \in Nat /\ DOMAIN x = 1..n
  OBVIOUS
<1> HIDE DEF T, n
<1>3. parts \in Seq(T) /\ Len(parts) = n /\ DOMAIN parts = 1..n /\ \A i \in 1..n : parts[i] = QueryPair(x[i])
  BY <1>1, <1>2
<1>4. QueryString(x) = Joined(parts, AND)
  BY <1>2, Zenon DEF QueryString
<1> HIDE DEF parts
<1>5. QueryString(x) \in T
  BY <1>3, <1>4, JoinedIs, SeparatorsAre, Zenon DEF T
<1>6. CASE x = <<>>
  <2>1. n = 0
    BY <1>6 DEF n
  <2>2. parts = <<>>
    BY <1>3, <2>1, EmptySeq
  <2>3. QueryString(x) = <<>>
    BY <1>4, <2>2, JoinedEmpty, Zenon
  <2>4. QED
    BY <1>5, <1>6, <2>3, Zenon DEF SplitQuery, T
<1>7. CASE x # <<>>
  <2>1. n # 0 /\ 1 \in 1..n
    BY <1>2, <1>7, EmptySeq DEF n
  <2>2. parts # <<>>
    BY <1>3, <2>1, EmptySeq
  <2>3. parts \in FieldLists
    BY <1>3, <2>2, Zenon DEF FieldLists, T
  <2>4. \A i \in 1..Len(parts) : Free(parts[i], AND)
    BY <1>1, <1>3, Zenon
  <2>5. Fields(QueryString(x), AND) = parts
    BY <1>4, <2>3, <2>4, FieldsOfJoined, SeparatorsAre, Zenon
  <2>6. QueryString(x) # <<>>
    <3>1. SUFFICES ASSUME QueryString(x) = <<>> PROVE FALSE
      OBVIOUS
    <3>2. parts = << <<>> >>
      BY <2>5, <3>1, FieldsEmpty, Zenon
    <3>3. << <<>> >>[1] = <<>>
      OBVIOUS
    <3>4. QED
      BY <1>1, <1>3, <2>1, <3>2, <3>3, Zenon
  <2>7. SplitQuery(QueryString(x)) = [i \in 1..n |-> Fields(parts[i], EQUALS)]
    BY <1>3, <2>5, <2>6, Zenon DEF SplitQuery
  <2>8. [i \in 1..n |-> Fields(parts[i], EQUALS)] = [i \in 1..n |-> x[i]]
    BY <1>1, <1>3, Zenon
  <2>9. [i \in 1..n |-> x[i]] = x
    BY <1>2
  <2>10. QED
    BY <1>5, <1>7, <2>6, <2>7, <2>8, <2>9, Zenon DEF T
<1>8. QED
  BY <1>6, <1>7

(* An encoded pair, and what the service decodes it to. *)
LEMMA EncodedPairIs ==
    ASSUME NEW p \in Pairs
    PROVE  /\ EncodedPair(p) \in Pairs
           /\ <<aws_uri_encode(p[1], TRUE), aws_uri_encode(p[2], TRUE)>> = EncodedPair(p)
           /\ \A byte \in {AND, EQUALS} : Free(EncodedPair(p)[1], byte) /\ Free(EncodedPair(p)[2], byte)
           /\ decode_url_field(EncodedPair(p)[1]) = {p[1]} /\ decode_url_field(EncodedPair(p)[2]) = {p[2]}
<1> DEFINE a == ServiceEncode(p[1], Unreserved)
           b == ServiceEncode(p[2], Unreserved)
           T == Seq(Byte)
<1>1. p[1] \in T /\ p[2] \in T
  BY PairFields, Zenon
<1>2. PICK x \in T, y \in T : x = p[1] /\ y = p[2]
  BY <1>1, Zenon
<1>3. PERCENT \notin Unreserved
  BY DEF PERCENT, Unreserved, Alphanumeric, Digits, Upper, Lower
<1>4. a \in T /\ b \in T
  BY <1>2, EncodeType, Zenon
<1>5. decode_url_field(a) = {p[1]} /\ decode_url_field(b) = {p[2]}
  BY <1>2, <1>3, <1>4, EncodeIsWellEncoded, DecodeIs, DecodeEncode, Zenon
<1>6. \A byte \in {AND, EQUALS} : Free(a, byte) /\ Free(b, byte)
  BY <1>2, EncodedIsFree, Zenon
<1>7. EncodedPair(p) = <<a, b>>
  BY Zenon DEF EncodedPair
<1>8. <<aws_uri_encode(p[1], TRUE), aws_uri_encode(p[2], TRUE)>> = <<a, b>>
  BY <1>2, AwsUriEncodeIs, Zenon
<1> HIDE DEF a, b, T
<1>9. <<a, b>>[1] = a /\ <<a, b>>[2] = b
  OBVIOUS
<1>10. <<a, b>> \in Pairs
  BY <1>4, Zenon DEF Pairs, T
<1>11. QED
  BY <1>5, <1>6, <1>7, <1>8, <1>9, <1>10, Zenon

(* What the service reads, when every field is well encoded. *)
ReadBack(received) ==
    [i \in DOMAIN received |-> <<CHOOSE n \in received[i][1] : TRUE, CHOOSE v \in received[i][2] : TRUE>>]

LEMMA SamePairsAreCanonical ==
    ASSUME NEW query, NEW read, NEW n \in Nat, SplitQuery(query) \in Seq(Pairs), Len(SplitQuery(query)) = n,
           DOMAIN read = 1..n, \A i \in 1..n : EncodedPair(read[i]) = SplitQuery(query)[i],
           Ordered(SplitQuery(query))
    PROVE  IsCanonicalQuery(query, read)
<1> DEFINE pairs == IF query = <<>> THEN <<>>
                    ELSE [i \in DOMAIN Fields(query, AND) |-> Fields(Fields(query, AND)[i], EQUALS)]
           encoded == [i \in DOMAIN read |->
                       <<ServiceEncode(read[i][1], Unreserved), ServiceEncode(read[i][2], Unreserved)>>]
<1>1. SplitQuery(query) = pairs
  BY Zenon DEF SplitQuery
<1>2. SUFFICES
        /\ \A pair \in ToSet(pairs) \cup ToSet(encoded) :
              Cardinality({i \in DOMAIN pairs : pairs[i] = pair})
                = Cardinality({i \in DOMAIN encoded : encoded[i] = pair})
        /\ \A i \in 1..(Len(pairs) - 1) : pairs[i] = pairs[i + 1] \/ PairBefore(pairs[i], pairs[i + 1])
  BY Zenon DEF IsCanonicalQuery
<1>3. encoded = [i \in 1..n |-> EncodedPair(read[i])]
  BY Zenon DEF EncodedPair
<1> HIDE DEF pairs, encoded
<1>4. DOMAIN pairs = 1..n /\ pairs = [i \in 1..n |-> pairs[i]]
  BY <1>1
<1>5. [i \in 1..n |-> EncodedPair(read[i])] = [i \in 1..n |-> pairs[i]]
  BY <1>1, Zenon
<1>6. encoded = pairs
  BY <1>3, <1>4, <1>5, Zenon
<1>7. QED
  BY <1>1, <1>6, Zenon DEF Ordered

(* The query that is signed and sent is canonical for the parameters that    *)
(* the service reads in it, and these are the parameters that were given.    *)
LEMMA QueryIsCanonical ==
    ASSUME NEW ps \in Seq(Pairs)
    PROVE  LET query == canonical_query(ps)
               received == ServiceParameters(query)
           IN  /\ query \in Seq(Byte)
               /\ IsCanonicalQuery(query, ReadBack(received))
               /\ \A i \in DOMAIN received : \E p \in Elements(ps) : received[i] = <<{p[1]}, {p[2]}>>
               /\ \A p \in Elements(ps) : \E i \in DOMAIN received : received[i] = <<{p[1]}, {p[2]}>>
<1> DEFINE encoded == [i \in DOMAIN ps |-> <<aws_uri_encode(ps[i][1], TRUE), aws_uri_encode(ps[i][2], TRUE)>>]
           n == Len(ps)
           sorted == sort_unstable(encoded)
           query == canonical_query(ps)
           received == ServiceParameters(query)
           origin(i) == CHOOSE p \in Elements(ps) : sorted[i] = EncodedPair(p)
<1>1. n \in Nat /\ DOMAIN ps = 1..n /\ \A i \in 1..n : ps[i] \in Pairs
  <2> HIDE DEF n
  <2>1. n = Len(ps)
    BY DEF n
  <2> QED BY <2>1
<1>2. \A i \in 1..n : encoded[i] = EncodedPair(ps[i]) /\ EncodedPair(ps[i]) \in Pairs
  BY <1>1, EncodedPairIs, Zenon
<1>3. encoded \in Seq(Pairs) /\ Len(encoded) = n
  <2>1. encoded = [i \in 1..n |-> EncodedPair(ps[i])]
    BY <1>1, EncodedPairIs, Zenon
  <2> HIDE DEF encoded
  <2>2. QED
    BY <1>1, <1>2, <2>1
<1>4. query = QueryString(sorted)
  BY Zenon DEF canonical_query, QueryString
<1> HIDE DEF encoded, n
<1>5. sorted \in Seq(Pairs) /\ Ordered(sorted) /\ Len(sorted) = n /\ Elements(sorted) = Elements(encoded)
  BY <1>3, SortFacts, Zenon
<1> HIDE DEF sorted, query
<1>6. Elements(encoded) = {EncodedPair(p) : p \in Elements(ps)} /\ \A p \in Elements(ps) : p \in Pairs
  <2>1. Elements(encoded) = {encoded[i] : i \in 1..n} /\ Elements(ps) = {ps[i] : i \in 1..n}
    BY <1>3, Zenon DEF Elements, n
  <2>2. Elements(encoded) \subseteq {EncodedPair(p) : p \in Elements(ps)}
    BY <1>2, <2>1, Zenon
  <2>3. {EncodedPair(p) : p \in Elements(ps)} \subseteq Elements(encoded)
    <3>1. \A i \in 1..n : EncodedPair(ps[i]) \in Elements(encoded)
      BY <1>2, <2>1, Zenon
    <3>2. \A p \in Elements(ps) : EncodedPair(p) \in Elements(encoded)
      BY <2>1, <3>1, Zenon
    <3>3. QED
      BY <3>2, Zenon
  <2>4. \A p \in Elements(ps) : p \in Pairs
    BY <1>1, <2>1, Zenon
  <2>5. QED
    BY <2>2, <2>3, <2>4, Zenon
<1>7. Elements(sorted) = {sorted[i] : i \in 1..n}
  BY <1>5, Zenon DEF Elements
<1>8. \A i \in 1..n : origin(i) \in Elements(ps) /\ origin(i) \in Pairs /\ sorted[i] = EncodedPair(origin(i))
  BY <1>5, <1>6, <1>7, Zenon
<1> HIDE DEF origin
<1>9. \A i \in 1..n : \A byte \in {AND, EQUALS} : Free(sorted[i][1], byte) /\ Free(sorted[i][2], byte)
  BY <1>8, EncodedPairIs, Zenon
<1>10. query \in Seq(Byte) /\ SplitQuery(query) = sorted
  BY <1>4, <1>5, <1>9, SplitQueryString, Zenon
<1>11. DOMAIN sorted = 1..n
  BY <1>5
<1>12. /\ DOMAIN received = 1..n
       /\ \A i \in 1..n : received[i] = <<decode_url_field(sorted[i][1]), decode_url_field(sorted[i][2])>>
  <2>1. CASE query = <<>>
    <3>1. sorted = <<>> /\ received = <<>>
      BY <1>10, <2>1, Zenon DEF SplitQuery, ServiceParameters
    <3>2. n = 0 /\ DOMAIN received = 1..0
      BY <1>5, <3>1
    <3>3. QED
      BY <3>2
  <2>2. CASE query # <<>>
    <3> DEFINE fields == Fields(query, AND)
               pair(i) == Fields(fields[i], EQUALS)
    <3>1. received = [i \in DOMAIN fields |-> <<decode_url_field(pair(i)[1]), decode_url_field(pair(i)[2])>>]
      BY <2>2, Zenon DEF ServiceParameters
    <3>2. sorted = [i \in DOMAIN fields |-> pair(i)]
      BY <1>10, <2>2, Zenon DEF SplitQuery
    <3> HIDE DEF fields, pair, received
    <3>3. DOMAIN fields = 1..n /\ \A i \in 1..n : sorted[i] = pair(i)
      BY <1>11, <3>2, Zenon
    <3>4. QED
      BY <3>1, <3>3, Zenon
  <2>3. QED
    BY <2>1, <2>2
<1>13. \A i \in 1..n : received[i] = <<{origin(i)[1]}, {origin(i)[2]}>>
  BY <1>8, <1>12, EncodedPairIs, Zenon
<1> HIDE DEF received
<1>14. DOMAIN ReadBack(received) = 1..n /\ \A i \in 1..n : ReadBack(received)[i] = origin(i)
  <2>1. DOMAIN ReadBack(received) = 1..n
    BY <1>12, Zenon DEF ReadBack
  <2>2. ASSUME NEW i \in 1..n PROVE ReadBack(received)[i] = origin(i)
    <3> DEFINE o == origin(i)
    <3>1. o \in Pairs
      BY <1>8, Zenon
    <3> HIDE DEF o
    <3>2. <<{o[1]}, {o[2]}>>[1] = {o[1]} /\ <<{o[1]}, {o[2]}>>[2] = {o[2]}
      OBVIOUS
    <3>3. received[i][1] = {o[1]} /\ received[i][2] = {o[2]}
      BY <1>13, <3>2, Zenon DEF o
    <3>4. (CHOOSE v \in {o[1]} : TRUE) = o[1] /\ (CHOOSE v \in {o[2]} : TRUE) = o[2]
      BY Zenon
    <3>5. ReadBack(received)[i] = <<CHOOSE v \in received[i][1] : TRUE, CHOOSE v \in received[i][2] : TRUE>>
      BY <1>12, Zenon DEF ReadBack
    <3>6. ReadBack(received)[i] = <<o[1], o[2]>>
      BY <3>3, <3>4, <3>5, Zenon
    <3>7. QED
      BY <3>1, <3>6, PairFields, Zenon DEF o
  <2>3. QED
    BY <2>1, <2>2, Zenon
<1>15. IsCanonicalQuery(query, ReadBack(received))
  BY <1>1, <1>5, <1>8, <1>10, <1>14, SamePairsAreCanonical, Zenon
<1>16. \A p \in Elements(ps) : \E i \in 1..n : received[i] = <<{p[1]}, {p[2]}>>
  <2> SUFFICES ASSUME NEW p \in Elements(ps) PROVE \E i \in 1..n : received[i] = <<{p[1]}, {p[2]}>>
    OBVIOUS
  <2>1. p \in Pairs
    BY <1>6, Zenon
  <2>2. PICK i \in 1..n : sorted[i] = EncodedPair(p)
    BY <1>5, <1>6, <1>7, Zenon
  <2>3. received[i] = <<{p[1]}, {p[2]}>>
    BY <1>12, <2>1, <2>2, EncodedPairIs, Zenon
  <2>4. QED
    BY <2>3
<1>17. QED
  BY <1>8, <1>10, <1>12, <1>13, <1>15, <1>16, Zenon DEF received, query

-------------------------------------------------------------------------------
(* Header values. *)

Worded(value, n) == \E k \in 1..n : value[k] \notin Blank

SqueezedPiece(value, i) ==
    IF value[i] \in Blank THEN <<>>
    ELSE IF i > 1 /\ value[i - 1] \in Blank /\ Worded(value, i - 1) THEN <<SPACE, value[i]>>
    ELSE <<value[i]>>

SqueezedTo(value, n) == FlattenSeq([i \in 1..n |-> SqueezedPiece(value, i)])

LEMMA SqueezedPieceType ==
    ASSUME NEW value \in Seq(Byte), NEW i \in 1..Len(value)
    PROVE  /\ SqueezedPiece(value, i) \in Seq(Byte)
           /\ SqueezedPiece(value, i) = <<>> <=> value[i] \in Blank
<1>1. SPACE \in Byte /\ value[i] \in Byte
  <2>1. SPACE \in Byte
    BY DEF SPACE, Byte
  <2>2. value[i] \in Byte
    OBVIOUS
  <2>3. QED
    BY <2>1, <2>2
<1>2. \A c \in Byte : <<c>> \in Seq(Byte) /\ <<SPACE, c>> \in Seq(Byte) /\ <<c>> # <<>> /\ <<SPACE, c>> # <<>>
  BY <1>1
<1>3. QED
  BY <1>1, <1>2, Strings, Zenon DEF SqueezedPiece

LEMMA MorePieces ==
    ASSUME NEW T, NEW n \in Nat \ {0}, NEW p(_), \A i \in 1..n : p(i) \in T
    PROVE  /\ [i \in 1..(n - 1) |-> p(i)] \in Seq(T)
           /\ [i \in 1..n |-> p(i)] = Append([i \in 1..(n - 1) |-> p(i)], p(n))
OBVIOUS

(* What one more character adds. *)
LEMMA SqueezedNext ==
    ASSUME NEW value \in Seq(Byte)
    PROVE  /\ SqueezedTo(value, 0) = <<>>
           /\ \A n \in 1..Len(value) :
                /\ SqueezedTo(value, n - 1) \in Seq(Byte)
                /\ SqueezedTo(value, n) = SqueezedTo(value, n - 1) \o SqueezedPiece(value, n)
<1>1. SqueezedTo(value, 0) = <<>>
  <2>1. [i \in 1..0 |-> SqueezedPiece(value, i)] = <<>>
    OBVIOUS
  <2>2. QED
    BY <2>1, FlattenEmpty, Zenon DEF SqueezedTo
<1>2. ASSUME NEW n \in 1..Len(value)
      PROVE  /\ SqueezedTo(value, n - 1) \in Seq(Byte)
             /\ SqueezedTo(value, n) = SqueezedTo(value, n - 1) \o SqueezedPiece(value, n)
  <2> DEFINE T == Seq(Byte)
             p(i) == SqueezedPiece(value, i)
             before == [i \in 1..(n - 1) |-> p(i)]
  <2>1. n \in Nat \ {0} /\ \A i \in 1..n : i \in 1..Len(value)
    OBVIOUS
  <2>2. \A i \in 1..n : p(i) \in T
    BY <2>1, SqueezedPieceType, Zenon
  <2>3. n \in 1..n
    BY <2>1
  <2> HIDE DEF T, p
  <2>4. before \in Seq(T) /\ [i \in 1..n |-> p(i)] = Append(before, p(n))
    BY <2>1, <2>2, MorePieces
  <2> HIDE DEF before
  <2>5. FlattenSeq(Append(before, p(n))) = FlattenSeq(before) \o p(n) /\ FlattenSeq(before) \in T
    BY <2>2, <2>3, <2>4, FlattenAppend, FlattenType, Zenon DEF T
  <2>6. QED
    BY <2>4, <2>5, Zenon DEF before, p, T, SqueezedTo
<1>3. QED
  BY <1>1, <1>2, Zenon

(* Nothing is written while there was no word. *)
LEMMA SqueezedWords ==
    ASSUME NEW value \in Seq(Byte)
    PROVE  \A n \in 0..Len(value) : SqueezedTo(value, n) = <<>> <=> ~Worded(value, n)
<1> DEFINE Good(n) == SqueezedTo(value, n) = <<>> <=> ~Worded(value, n)
           X == {n \in Nat : n <= Len(value) => Good(n)}
<1>1. 0 \in X
  <2>1. ~Worded(value, 0)
    BY DEF Worded
  <2>2. Good(0)
    BY <2>1, SqueezedNext, Zenon
  <2>3. QED
    BY <2>2
<1>2. ASSUME NEW n \in Nat, n \in X PROVE n + 1 \in X
  <2> SUFFICES ASSUME n + 1 <= Len(value) PROVE Good(n + 1)
    OBVIOUS
  <2> DEFINE before == SqueezedTo(value, n)
             piece == SqueezedPiece(value, n + 1)
  <2>1. n + 1 \in 1..Len(value) /\ (n + 1) - 1 = n /\ Good(n)
    BY <1>2
  <2>2. SqueezedTo(value, n + 1) = before \o piece /\ before \in Seq(Byte)
    BY <2>1, SqueezedNext, Zenon
  <2>3. piece \in Seq(Byte) /\ (piece = <<>> <=> value[n + 1] \in Blank)
    BY <2>1, SqueezedPieceType, Zenon
  <2>4. Worded(value, n + 1) <=> Worded(value, n) \/ value[n + 1] \notin Blank
    BY DEF Worded
  <2> HIDE DEF before, piece
  <2>5. before \o piece = <<>> <=> before = <<>> /\ piece = <<>>
    BY <2>2, <2>3
  <2>6. QED
    BY <2>1, <2>2, <2>3, <2>4, <2>5, Zenon DEF before
<1>3. Nat \subseteq X
  <2> HIDE DEF X
  <2> QED BY <1>1, <1>2, NumbersByStep
<1>4. QED
  BY <1>3

LEMMA TwoMore ==
    ASSUME NEW b \in Seq(Byte), NEW x \in Byte, NEW y \in Byte
    PROVE  (b \o <<x>>) \o <<y>> = b \o <<x, y>>
<1>1. <<x>> \in Seq(Byte) /\ <<y>> \in Seq(Byte) /\ Append(<<x>>, y) = <<x>> \o <<y>>
  BY Strings, Zenon
<1>2. Append(<<x>>, y) = <<x, y>>
  BY TwoFields, Zenon
<1>3. <<x>> \o <<y>> = <<x, y>>
  BY <1>1, <1>2, Zenon
<1> DEFINE o == <<x>>
           p == <<y>>
<1> HIDE DEF o, p
<1>4. o \in Seq(Byte) /\ p \in Seq(Byte)
  BY <1>1, Zenon DEF o, p
<1>5. (b \o o) \o p = b \o (o \o p)
  <2>1. Associates(b, o, p)
    BY <1>4, StringsAssociate, Zenon
  <2>2. QED
    BY <2>1, Zenon DEF Associates
<1>6. QED
  BY <1>3, <1>5, Zenon DEF o, p

NormalStep(last, c) ==
    IF c \in Blank THEN [last EXCEPT !.pending_space = last.normalized # <<>>]
    ELSE [normalized |-> last.normalized \o (IF last.pending_space THEN <<SPACE>> ELSE <<>>) \o <<c>>,
          pending_space |-> FALSE]

(* What the loop over the characters has after n of them. *)
NormalState(value, n) ==
    [normalized |-> SqueezedTo(value, n),
     pending_space |-> n > 0 /\ value[n] \in Blank /\ Worded(value, n)]

LEMMA NormalNext ==
    ASSUME NEW value \in Seq(Byte), NEW n \in 1..Len(value)
    PROVE  NormalState(value, n) = NormalStep(NormalState(value, n - 1), value[n])
<1> DEFINE before == SqueezedTo(value, n - 1)
           piece == SqueezedPiece(value, n)
           c == value[n]
           pending == n - 1 > 0 /\ value[n - 1] \in Blank /\ Worded(value, n - 1)
           last == NormalState(value, n - 1)
<1>1. /\ SqueezedTo(value, n) = before \o piece /\ before \in Seq(Byte)
  BY SqueezedNext, Zenon
<1>2. last = [normalized |-> before, pending_space |-> pending]
  BY Zenon DEF NormalState
<1>3. last.normalized = before /\ (last.pending_space <=> pending) /\ pending \in BOOLEAN
  <2> HIDE DEF before, last
  <2>1. last.normalized = before
    BY <1>2
  <2>2. last.pending_space = pending
    BY <1>2, Zenon
  <2>3. QED
    BY <2>1, <2>2, Zenon
<1>4. c \in Byte /\ SPACE \in Byte /\ n - 1 \in 0..Len(value)
  <2>1. SPACE \in Byte
    BY DEF SPACE, Byte
  <2>2. QED
    BY <2>1
<1>5. Worded(value, n) <=> Worded(value, n - 1) \/ c \notin Blank
  BY DEF Worded
<1>6. before = <<>> <=> ~Worded(value, n - 1)
  BY <1>4, SqueezedWords, Zenon
<1>7. CASE c \in Blank
  <2>1. piece = <<>>
    BY <1>7, Zenon DEF SqueezedPiece
  <2>2. SqueezedTo(value, n) = before
    BY <1>1, <2>1, Strings, Zenon
  <2>3. (n > 0 /\ c \in Blank /\ Worded(value, n)) = (before # <<>>)
    <3>1. n > 0
      OBVIOUS
    <3>2. QED
      BY <1>5, <1>6, <1>7, <3>1, Zenon
  <2>4. NormalState(value, n) = [normalized |-> before, pending_space |-> before # <<>>]
    BY <2>2, <2>3, Zenon DEF NormalState
  <2>5. NormalStep(last, c) = [last EXCEPT !.pending_space = before # <<>>]
    BY <1>3, <1>7, Zenon DEF NormalStep
  <2> HIDE DEF before, last, pending
  <2>6. [last EXCEPT !.pending_space = before # <<>>] = [normalized |-> before, pending_space |-> before # <<>>]
    BY <1>2
  <2>7. QED
    BY <2>4, <2>5, <2>6, Zenon DEF last
<1>8. CASE c \notin Blank
  <2>1. NormalStep(last, c) = [normalized |-> before \o (IF last.pending_space THEN <<SPACE>> ELSE <<>>) \o <<c>>,
                               pending_space |-> FALSE]
    BY <1>3, <1>8, Zenon DEF NormalStep
  <2>2. before \o (IF last.pending_space THEN <<SPACE>> ELSE <<>>) \o <<c>> = before \o piece
    <3>1. n - 1 > 0 <=> n > 1
      OBVIOUS
    <3>2. piece = IF pending THEN <<SPACE, c>> ELSE <<c>>
      BY <1>8, <3>1, Zenon DEF SqueezedPiece
    <3>3. \A b \in Seq(Byte), x, y \in Byte : (b \o <<x>>) \o <<y>> = b \o <<x, y>>
      BY TwoMore
    <3>4. CASE pending
      <4>1. piece = <<SPACE, c>> /\ (IF last.pending_space THEN <<SPACE>> ELSE <<>>) = <<SPACE>>
        BY <1>3, <3>2, <3>4, Zenon
      <4>2. QED
        BY <1>1, <1>4, <3>3, <4>1, Zenon
    <3>5. CASE ~pending
      <4>1. piece = <<c>> /\ (IF last.pending_space THEN <<SPACE>> ELSE <<>>) = <<>>
        BY <1>3, <3>2, <3>5, Zenon
      <4>2. before \o <<>> = before
        BY <1>1, Strings, Zenon
      <4>3. QED
        BY <4>1, <4>2, Zenon
    <3>6. QED
      BY <3>4, <3>5
  <2>3. (n > 0 /\ c \in Blank /\ Worded(value, n)) = FALSE
    BY <1>8, Zenon
  <2>4. QED
    BY <1>1, <2>1, <2>2, <2>3, Zenon DEF NormalState
<1>9. QED
  BY <1>7, <1>8

(* The client normalizes a header value to what the service makes of it. *)
LEMMA NormalizedIsSqueezed ==
    ASSUME NEW value \in Seq(Byte)
    PROVE  normalize_header_value(value) = Squeezed(value)
<1> DEFINE N == Len(value)
           zero == [normalized |-> <<>>, pending_space |-> FALSE]
           Body(h, n) == IF n = 0 THEN zero ELSE NormalStep(h[n - 1], value[n])
           Eq(h) == h = [n \in 0..N |-> Body(h, n)]
           g == CHOOSE h : Eq(h)
           f == [n \in 0..N |-> NormalState(value, n)]
<1>1. ASSUME NEW n \in 0..N PROVE f[n] = Body(f, n)
  <2>1. CASE n = 0
    <3>1. (0 > 0 /\ value[0] \in Blank /\ Worded(value, 0)) = FALSE
      <4>1. ~(0 > 0)
        OBVIOUS
      <4>2. QED
        BY <4>1, Zenon
    <3>2. NormalState(value, 0) = zero
      BY <3>1, SqueezedNext, Zenon DEF NormalState
    <3>3. QED
      BY <2>1, <3>2, Zenon
  <2>2. CASE n # 0
    <3>1. n \in 1..Len(value) /\ n - 1 \in 0..N
      BY <2>2
    <3>2. f[n] = NormalState(value, n) /\ f[n - 1] = NormalState(value, n - 1)
      BY <3>1, Zenon
    <3>3. QED
      BY <2>2, <3>1, <3>2, NormalNext, Zenon
  <2>3. QED
    BY <2>1, <2>2
<1>2. Eq(f)
  <2>1. f = [n \in 0..N |-> f[n]]
    <3> HIDE DEF N
    <3> QED OBVIOUS
  <2> HIDE DEF Body, f
  <2>2. [n \in 0..N |-> f[n]] = [n \in 0..N |-> Body(f, n)]
    BY <1>1, Zenon
  <2>3. QED
    BY <2>1, <2>2, Zenon
<1>3. Eq(g)
  <2> HIDE DEF Eq, f
  <2> QED BY <1>2, Zenon
<1>4. normalize_header_value(value) = g[N].normalized
  BY Zenon DEF normalize_header_value, NormalStep
<1> HIDE DEF g
<1>5. \A n \in 0..N : g[n] = Body(g, n)
  <2> HIDE DEF Body
  <2>1. \A n \in 0..N : [i \in 0..N |-> Body(g, i)][n] = Body(g, n)
    BY Zenon
  <2>2. QED
    BY <1>3, <2>1, Zenon
<1>6. g[N] = f[N]
  <2> HIDE DEF f
  <2> DEFINE X == {k \in Nat : k <= N => g[k] = f[k]}
  <2>1. 0 \in X
    <3>1. 0 \in 0..N
      OBVIOUS
    <3>2. g[0] = f[0]
      BY <1>1, <1>5, <3>1, Zenon
    <3>3. QED
      BY <3>2
  <2>2. ASSUME NEW k \in Nat, k \in X PROVE k + 1 \in X
    <3>1. SUFFICES ASSUME k + 1 <= N PROVE g[k + 1] = f[k + 1]
      OBVIOUS
    <3>2. g[k] = f[k] /\ k + 1 \in 0..N /\ k + 1 # 0 /\ (k + 1) - 1 = k
      BY <2>2, <3>1
    <3>3. g[k + 1] = NormalStep(g[k], value[k + 1]) /\ f[k + 1] = NormalStep(f[k], value[k + 1])
      BY <1>1, <1>5, <3>2, Zenon
    <3>4. QED
      BY <3>2, <3>3, Zenon
  <2>3. Nat \subseteq X
    <3> HIDE DEF X
    <3> QED BY <2>1, <2>2, NumbersByStep
  <2>4. QED
    BY <2>3
<1>7. g[N].normalized = SqueezedTo(value, N)
  <2>1. N \in 0..N
    OBVIOUS
  <2>2. g[N] = NormalState(value, N)
    BY <1>6, <2>1, Zenon
  <2>3. NormalState(value, N).normalized = SqueezedTo(value, N)
    BY DEF NormalState
  <2>4. QED
    BY <2>2, <2>3, Zenon
<1>8. Squeezed(value) = SqueezedTo(value, N)
  <2>1. DOMAIN value = 1..N
    OBVIOUS
  <2>2. QED
    BY <2>1, Zenon DEF Squeezed, SqueezedTo, SqueezedPiece, Worded
<1>9. QED
  BY <1>4, <1>7, <1>8, Zenon
===============================================================================
