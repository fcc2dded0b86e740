----------------------------- MODULE SigningProofs -----------------------------
(***************************************************************************)
(* Of the credentials cache, for any number of tasks, any lifetimes and any *)
(* refresh window; of signed requests and presigned URLs, for any byte      *)
(* strings, identities and clocks; of a client's handles, for any calls of  *)
(* its builder.                                                             *)
(***************************************************************************)
EXTENDS Signing, WireEncodingProofs

(* Of two tasks that wait or hold the lock, one is ahead of the other. *)
QueueInv ==
    \A c, d \in Callers : c # d /\ pc[c] # "idle" /\ pc[d] # "idle" =>
        c \in ahead[d] \/ d \in ahead[c]

(* The task that refreshes holds the lock, and asks for the latest number. *)
RefreshInv ==
    \A c \in Callers :
        IF pc[c] = "refresh"
        THEN /\ HasLock(c) /\ mine[c] = issued /\ issued > 0
             /\ expiry[issued] = Lost /\ floor <= issued
        ELSE mine[c] = 0

(* What may be returned, and what was asked for, only grow. *)
FloorInv ==
    /\ floor <= issued + 1
    /\ cached # 0 => floor <= cached
    /\ \A c \in Callers : due[c] <= floor

(* What arrived is in the cache, was replaced there or was cleared. *)
HistoryInv ==
    /\ \A g \in Fetches : g > issued => expiry[g] = Lost
    /\ \A g \in Fetches : fetched[g] <= now
    /\ \A m \in clears : m <= issued
    /\ \A g \in 1..issued : expiry[g] # Lost => g <= cached \/ \E m \in clears : g <= m

IInv ==
    /\ TypeOK /\ QueueInv /\ RefreshInv /\ FloorInv /\ HistoryInv
    /\ AnswersAreCurrent /\ NoRefreshStorm

-------------------------------------------------------------------------------
(* Preservation: one lemma per action. *)

(* A call joins the queue. *)
LEMMA CallInv ==
    ASSUME IInv, NEW c \in Callers, NEW operation \in {"provide", "invalidate"},
           Call(c, operation)
    PROVE  IInv'
<1>1. TypeOK'
  BY CacheAssumption DEF IInv, TypeOK, Call, Enqueue
<1>2. QueueInv'
  BY DEF IInv, TypeOK, QueueInv, Call, Enqueue
<1>3. RefreshInv'
  BY DEF IInv, TypeOK, RefreshInv, HasLock, Call, Enqueue
<1>4. FloorInv'
  BY DEF IInv, TypeOK, FloorInv, Call
<1>5. HistoryInv'
  BY DEF IInv, HistoryInv, Call
<1>6. AnswersAreCurrent'
  BY DEF IInv, TypeOK, AnswersAreCurrent, Call
<1>7. NoRefreshStorm'
  BY DEF IInv, NoRefreshStorm, expires_by, refresh_deadline, Call
<1>8. QED
  BY <1>1, <1>2, <1>3, <1>4, <1>5, <1>6, <1>7 DEF IInv

(* The cache answers. *)
LEMMA HitCacheInv ==
    ASSUME IInv, NEW c \in Callers, HitCache(c)
    PROVE  IInv'
<1>1. TypeOK'
  <2>1. cached \in 0..MaxFetches
    BY CacheAssumption DEF IInv, TypeOK
  <2>2. got' \in [Callers -> 0..MaxFetches] /\ floor' \in 0..MaxFetches + 1
    BY <2>1, CacheAssumption DEF IInv, TypeOK, HitCache, Return
  <2>3. pc' \in [Callers -> {"idle", "provide", "invalidate", "refresh"}]
    BY DEF IInv, TypeOK, HitCache, Return
  <2>4. ahead' \in [Callers -> SUBSET Callers]
    BY DEF IInv, TypeOK, HitCache, Return, Release
  <2>5. QED
    BY <2>2, <2>3, <2>4 DEF IInv, TypeOK, HitCache
<1>2. QueueInv'
  BY DEF IInv, TypeOK, QueueInv, HitCache, Return, Release
<1>3. RefreshInv'
  BY DEF IInv, TypeOK, QueueInv, RefreshInv, HasLock, FloorInv, HistoryInv, Fetches, HitCache,
         Return, Release
<1>4. FloorInv'
  BY DEF IInv, TypeOK, RefreshInv, FloorInv, Usable, HitCache, Return, Release
<1>5. HistoryInv'
  BY DEF IInv, TypeOK, RefreshInv, HistoryInv, Fetches, HitCache, Return, Release
<1>6. AnswersAreCurrent'
  BY DEF IInv, TypeOK, RefreshInv, FloorInv, AnswersAreCurrent, Usable, HitCache, Return, Release
<1>7. NoRefreshStorm'
  BY DEF IInv, TypeOK, RefreshInv, HistoryInv, NoRefreshStorm, expires_by, refresh_deadline,
         HitCache, Return, Release
<1>8. QED
  BY <1>1, <1>2, <1>3, <1>4, <1>5, <1>6, <1>7 DEF IInv

(* A refresh begins. *)
LEMMA StartRefreshInv ==
    ASSUME IInv, NEW c \in Callers, StartRefresh(c)
    PROVE  IInv'
<1> DEFINE h == issued + 1
<1>1. h \in Fetches /\ issued \in Nat /\ now \in Nat /\ RefreshBefore \in Nat
  BY CacheAssumption DEF IInv, TypeOK, StartRefresh, Fetches
<1>2. /\ issued' = h /\ fetched' = [fetched EXCEPT ![h] = now]
      /\ mine' = [mine EXCEPT ![c] = h] /\ pc' = [pc EXCEPT ![c] = "refresh"]
      /\ UNCHANGED <<now, ahead, cached, got, calls, expiry, clears, floor, due>>
  BY DEF StartRefresh
<1>3. expiry[h] = Lost
  BY <1>1 DEF IInv, HistoryInv
<1>4. TypeOK'
  BY CacheAssumption DEF IInv, TypeOK, Fetches, StartRefresh
<1>5. QueueInv'
  BY DEF IInv, TypeOK, QueueInv, StartRefresh
<1>6. RefreshInv'
  <2>1. \A d \in Callers : d # c => pc[d] # "refresh"
    BY DEF IInv, QueueInv, RefreshInv, HasLock, StartRefresh
  <2>2. floor <= h
    BY DEF IInv, FloorInv
  <2>3. QED
    BY <1>1, <1>2, <1>3, <2>1, <2>2 DEF IInv, TypeOK, RefreshInv, HasLock, StartRefresh
<1>7. FloorInv'
  BY DEF IInv, TypeOK, FloorInv, StartRefresh
<1>8. HistoryInv'
  <2>1. \A g \in Fetches : g > h => expiry[g] = Lost
    BY <1>1 DEF IInv, HistoryInv, Fetches
  <2>2. \A g \in Fetches : fetched'[g] <= now
    BY <1>1, <1>2 DEF IInv, TypeOK, HistoryInv
  <2>3. \A m \in clears : m <= h
    BY <1>1 DEF IInv, TypeOK, HistoryInv
  <2>4. \A g \in 1..h : expiry[g] # Lost => g \in 1..issued
    BY <1>1, <1>3
  <2>5. QED
    BY <1>1, <1>2, <2>1, <2>2, <2>3, <2>4 DEF IInv, HistoryInv
<1>9. AnswersAreCurrent'
  BY DEF IInv, AnswersAreCurrent, StartRefresh
<1>10. NoRefreshStorm'
  <2> SUFFICES ASSUME NEW g \in 1..h, NEW k \in 1..h, g < k, expiry[g] # Lost
               PROVE  \/ expiry[g] # Never /\ expiry[g] <= fetched'[k] + RefreshBefore
                      \/ \E m \in clears : g <= m /\ m < k
    BY <1>2 DEF NoRefreshStorm, expires_by, refresh_deadline
  <2>1. g \in 1..issued /\ g \in Fetches /\ k \in Fetches
    BY <1>1, CacheAssumption DEF Fetches
  <2>2. CASE k # h
    <3>1. k \in 1..issued /\ fetched'[k] = fetched[k]
      BY <1>1, <1>2, <2>1, <2>2 DEF IInv, TypeOK
    <3>2. QED
      BY <2>1, <3>1 DEF IInv, NoRefreshStorm, expires_by, refresh_deadline
  <2>3. CASE k = h /\ \E m \in clears : g <= m
    BY <1>1, <2>3 DEF IInv, TypeOK, HistoryInv
  <2>4. CASE k = h /\ ~\E m \in clears : g <= m
    <3>1. g <= cached /\ cached \in 1..issued /\ cached \in Fetches
      BY <1>1, <2>1, <2>4, CacheAssumption DEF IInv, TypeOK, HistoryInv, Fetches
    <3>2. expiry[cached] # Never /\ expiry[cached] <= now + RefreshBefore
      BY <3>1 DEF StartRefresh, Usable, expires_by, refresh_deadline
    <3>3. fetched'[k] = now
      BY <1>1, <1>2, <2>4 DEF IInv, TypeOK
    <3>4. CASE g = cached
      BY <3>2, <3>3, <3>4
    <3>5. CASE g < cached
      <4>1. expiry[g] # Never /\ expiry[g] <= fetched[cached] + RefreshBefore
        BY <2>1, <2>4, <3>1, <3>5 DEF IInv, NoRefreshStorm, expires_by, refresh_deadline
      <4>2. fetched[cached] <= now /\ fetched[cached] \in Nat /\ expiry[g] \in Nat
        BY <2>1, <3>1, <4>1 DEF IInv, TypeOK, HistoryInv
      <4>3. QED
        BY <1>1, <3>3, <4>1, <4>2
    <3>6. QED
      BY <2>1, <3>1, <3>4, <3>5
  <2>5. QED
    BY <2>2, <2>3, <2>4
<1>11. QED
  BY <1>4, <1>5, <1>6, <1>7, <1>8, <1>9, <1>10 DEF IInv

(* A refresh succeeds. *)
LEMMA RefreshOkInv ==
    ASSUME IInv, NEW c \in Callers, RefreshOk(c)
    PROVE  IInv'
<1>1. TypeOK'
  <2>1. mine[c] = issued /\ issued \in Fetches
    BY DEF IInv, TypeOK, RefreshInv, Fetches, RefreshOk
  <2>2. PICK expires_at \in {Never} \cup {now + l : l \in Lifetimes} :
            expiry' = [expiry EXCEPT ![mine[c]] = expires_at]
    BY DEF RefreshOk
  <2>3. expires_at \in Nat \cup {Never} /\ expires_at # Lost
    BY CacheAssumption DEF IInv, TypeOK
  <2>4. expiry' \in [Fetches -> Nat \cup {Never, Lost}] /\ expiry'[issued] # Lost
    BY <2>1, <2>2, <2>3 DEF IInv, TypeOK
  <2>5. got' \in [Callers -> 0..MaxFetches] /\ floor' \in 0..MaxFetches + 1
    BY <2>1, CacheAssumption DEF IInv, TypeOK, Fetches, RefreshOk, Return
  <2>6. QED
    BY <2>1, <2>4, <2>5, CacheAssumption DEF IInv, TypeOK, Fetches, RefreshOk, Return, Release
<1>2. QueueInv'
  BY DEF IInv, TypeOK, QueueInv, RefreshOk, Return, Release
<1>3. RefreshInv'
  BY DEF IInv, TypeOK, QueueInv, RefreshInv, HasLock, FloorInv, HistoryInv, Fetches, RefreshOk,
         Return, Release
<1>4. FloorInv'
  BY DEF IInv, TypeOK, RefreshInv, FloorInv, Usable, RefreshOk, Return, Release
<1>5. HistoryInv'
  BY DEF IInv, TypeOK, RefreshInv, HistoryInv, Fetches, RefreshOk, Return, Release
<1>6. AnswersAreCurrent'
  BY DEF IInv, TypeOK, RefreshInv, FloorInv, AnswersAreCurrent, Usable, RefreshOk, Return, Release
<1>7. NoRefreshStorm'
  BY DEF IInv, TypeOK, RefreshInv, HistoryInv, NoRefreshStorm, expires_by, refresh_deadline,
         RefreshOk, Return, Release
<1>8. QED
  BY <1>1, <1>2, <1>3, <1>4, <1>5, <1>6, <1>7 DEF IInv

(* A refresh fails. *)
LEMMA RefreshFailsInv ==
    ASSUME IInv, NEW c \in Callers, RefreshFails(c)
    PROVE  IInv'
<1>1. TypeOK'
  <2>1. PICK credentials \in {cached, 0} : Return(c, credentials)
    BY DEF RefreshFails
  <2>2. credentials \in 0..MaxFetches
    BY <2>1, CacheAssumption DEF IInv, TypeOK
  <2>3. got' \in [Callers -> 0..MaxFetches] /\ floor' \in 0..MaxFetches + 1
    BY <2>1, <2>2, CacheAssumption DEF IInv, TypeOK, Return
  <2>4. QED
    BY <2>1, <2>3, CacheAssumption DEF IInv, TypeOK, RefreshFails, Return, Release
<1>2. QueueInv'
  BY DEF IInv, TypeOK, QueueInv, RefreshFails, Return, Release
<1>3. RefreshInv'
  BY DEF IInv, TypeOK, QueueInv, RefreshInv, HasLock, FloorInv, HistoryInv, Fetches,
         RefreshFails, Return, Release
<1>4. FloorInv'
  BY DEF IInv, TypeOK, RefreshInv, FloorInv, Usable, RefreshFails, Return, Release
<1>5. HistoryInv'
  BY DEF IInv, TypeOK, RefreshInv, HistoryInv, Fetches, RefreshFails, Return, Release
<1>6. AnswersAreCurrent'
  BY DEF IInv, TypeOK, RefreshInv, FloorInv, AnswersAreCurrent, Usable, RefreshFails, Return,
         Release
<1>7. NoRefreshStorm'
  BY DEF IInv, TypeOK, RefreshInv, HistoryInv, NoRefreshStorm, expires_by, refresh_deadline,
         RefreshFails, Return, Release
<1>8. QED
  BY <1>1, <1>2, <1>3, <1>4, <1>5, <1>6, <1>7 DEF IInv

(* The entry is cleared. *)
LEMMA InvalidateInv ==
    ASSUME IInv, NEW c \in Callers, Invalidate(c)
    PROVE  IInv'
<1>1. TypeOK'
  BY CacheAssumption DEF IInv, TypeOK, RefreshInv, Fetches, Usable, Invalidate, Release
<1>2. QueueInv'
  BY DEF IInv, TypeOK, QueueInv, Invalidate, Release
<1>3. RefreshInv'
  BY DEF IInv, TypeOK, QueueInv, RefreshInv, HasLock, FloorInv, HistoryInv, Fetches, Invalidate,
         Release
<1>4. FloorInv'
  BY DEF IInv, TypeOK, RefreshInv, FloorInv, Usable, Invalidate, Release
<1>5. HistoryInv'
  BY DEF IInv, TypeOK, RefreshInv, HistoryInv, Fetches, Invalidate, Release
<1>6. AnswersAreCurrent'
  BY DEF IInv, TypeOK, RefreshInv, FloorInv, AnswersAreCurrent, Usable, Invalidate, Release
<1>7. NoRefreshStorm'
  BY DEF IInv, TypeOK, RefreshInv, HistoryInv, NoRefreshStorm, expires_by, refresh_deadline,
         Invalidate, Release
<1>8. QED
  BY <1>1, <1>2, <1>3, <1>4, <1>5, <1>6, <1>7 DEF IInv

(* A call is dropped. *)
LEMMA DropCallInv ==
    ASSUME IInv, NEW c \in Callers, DropCall(c)
    PROVE  IInv'
<1>1. TypeOK'
  BY CacheAssumption DEF IInv, TypeOK, RefreshInv, Fetches, Usable, DropCall, Release
<1>2. QueueInv'
  BY DEF IInv, TypeOK, QueueInv, DropCall, Release
<1>3. RefreshInv'
  BY DEF IInv, TypeOK, QueueInv, RefreshInv, HasLock, FloorInv, HistoryInv, Fetches, DropCall,
         Release
<1>4. FloorInv'
  BY DEF IInv, TypeOK, RefreshInv, FloorInv, Usable, DropCall, Release
<1>5. HistoryInv'
  BY DEF IInv, TypeOK, RefreshInv, HistoryInv, Fetches, DropCall, Release
<1>6. AnswersAreCurrent'
  BY DEF IInv, TypeOK, RefreshInv, FloorInv, AnswersAreCurrent, Usable, DropCall, Release
<1>7. NoRefreshStorm'
  BY DEF IInv, TypeOK, RefreshInv, HistoryInv, NoRefreshStorm, expires_by, refresh_deadline,
         DropCall, Release
<1>8. QED
  BY <1>1, <1>2, <1>3, <1>4, <1>5, <1>6, <1>7 DEF IInv

(* The clock advances. *)
LEMMA TickInv ==
    ASSUME IInv, Tick
    PROVE  IInv'
<1>1. TypeOK'
  BY CacheAssumption DEF IInv, TypeOK, Tick
<1>2. QueueInv' /\ RefreshInv' /\ FloorInv' /\ AnswersAreCurrent'
  BY DEF IInv, QueueInv, RefreshInv, HasLock, FloorInv, AnswersAreCurrent, Tick
<1>3. HistoryInv'
  BY DEF IInv, TypeOK, HistoryInv, Tick
<1>4. NoRefreshStorm'
  BY DEF IInv, NoRefreshStorm, expires_by, refresh_deadline, Tick
<1>5. QED
  BY <1>1, <1>2, <1>3, <1>4 DEF IInv

-------------------------------------------------------------------------------
(* The inductive invariant. *)

(* The cache starts empty and nobody is in the queue. *)
LEMMA InitInv == Init => IInv
BY CacheAssumption DEF Init, IInv, TypeOK, QueueInv, RefreshInv, FloorInv, HistoryInv,
                       AnswersAreCurrent, NoRefreshStorm, Fetches

(* Every step of every task preserves it. *)
LEMMA StepInv == IInv /\ [Next]_vars => IInv'
<1> SUFFICES ASSUME IInv, [Next]_vars PROVE IInv'
  OBVIOUS
<1>1. CASE Tick
  BY <1>1, TickInv
<1>2. ASSUME NEW c \in Callers, Call(c, "provide") \/ Call(c, "invalidate") PROVE IInv'
  BY <1>2, CallInv
<1>3. ASSUME NEW c \in Callers, Step(c) PROVE IInv'
  BY <1>3, HitCacheInv, StartRefreshInv, RefreshOkInv, RefreshFailsInv, InvalidateInv DEF Step
<1>4. ASSUME NEW c \in Callers, DropCall(c) PROVE IInv'
  BY <1>4, DropCallInv
<1>5. CASE UNCHANGED vars
  BY <1>5 DEF IInv, TypeOK, QueueInv, RefreshInv, HasLock, FloorInv, HistoryInv,
              AnswersAreCurrent, NoRefreshStorm, expires_by, refresh_deadline, vars
<1>6. QED
  BY <1>1, <1>2, <1>3, <1>4, <1>5 DEF Next

(* IInv is invariant. *)
LEMMA Invariance == Spec => []IInv
BY InitInv, StepInv, PTL DEF Spec

-------------------------------------------------------------------------------
(* Every variable keeps its type, and what is cached did arrive.             *)
THEOREM TypeCorrect == Spec => []TypeOK
<1>1. IInv => TypeOK
  BY DEF IInv
<1>2. QED
  BY <1>1, Invariance, PTL

(* No call returns credentials older than those that were current when it    *)
(* was made.  The mutex held across the provider call is what the proof      *)
(* rests on: while a task refreshes, nobody else returns or clears.          *)
THEOREM AnswersCurrent == Spec => []AnswersAreCurrent
<1>1. IInv => AnswersAreCurrent
  BY DEF IInv
<1>2. QED
  BY <1>1, Invariance, PTL

(* Refreshes are coalesced, however many tasks wait.                         *)
THEOREM RefreshesCoalesce == Spec => []NoRefreshStorm
<1>1. IInv => NoRefreshStorm
  BY DEF IInv
<1>2. QED
  BY <1>1, Invariance, PTL

-------------------------------------------------------------------------------
(* The path of a URL. *)

LEMMA KeptBytes == PERCENT \notin Unreserved /\ PERCENT \notin PathBytes /\ SLASH \in PathBytes /\ SLASH \in Byte
BY DEF PERCENT, SLASH, Byte, PathBytes, Unreserved, Alphanumeric, Digits, Upper, Lower

LEMMA RootedIs ==
    ASSUME NEW base \in Seq(Byte), Rooted(base)
    PROVE  /\ base # <<>> /\ base[1] = SLASH /\ Last(base) = SLASH
           /\ Len(base) \in Nat \ {0} /\ base[Len(base)] = SLASH
BY EmptySeq DEF Rooted, Last

(* A string that ends with a slash cuts no triplet in two. *)
LEMMA PrefixWellEncoded ==
    ASSUME NEW a \in Seq(Byte), NEW b \in Seq(Byte), a # <<>>, Last(a) = SLASH, WellEncoded(a \o b)
    PROVE  WellEncoded(a)
<1> DEFINE c == a \o b
           n == Len(a)
<1>1. n \in Nat \ {0} /\ a[n] = SLASH /\ DOMAIN a = 1..n
  BY EmptySeq DEF Last
<1>2. /\ Len(c) = n + Len(b) /\ Len(b) \in Nat /\ DOMAIN c = 1..(n + Len(b))
      /\ \A i \in 1..n : c[i] = a[i]
  OBVIOUS
<1>3. \A i \in DOMAIN c : c[i] = PERCENT =>
        i + 2 <= Len(c) /\ c[i + 1] \in HexDigits /\ c[i + 2] \in HexDigits
  BY Zenon DEF WellEncoded
<1>4. SLASH # PERCENT /\ SLASH \notin HexDigits
  BY DEF SLASH, PERCENT, HexDigits, Digits
<1> HIDE DEF c, n
<1>5. ASSUME NEW i \in 1..n, a[i] = PERCENT
      PROVE  i + 2 <= n /\ a[i + 1] \in HexDigits /\ a[i + 2] \in HexDigits
  <2>1. i \in DOMAIN c /\ c[i] = PERCENT
    BY <1>1, <1>2, <1>5
  <2>2. c[i + 1] \in HexDigits /\ c[i + 2] \in HexDigits
    BY <1>3, <2>1, Zenon
  <2>3. i # n
    BY <1>1, <1>4, <1>5
  <2>4. i + 1 # n
    <3>1. SUFFICES ASSUME i + 1 = n PROVE FALSE
      OBVIOUS
    <3>2. n \in 1..n
      BY <1>1
    <3>3. c[n] = SLASH
      BY <1>1, <1>2, <3>2
    <3>4. QED
      BY <1>4, <2>2, <3>1, <3>3, Zenon
  <2>5. i + 1 \in 1..n /\ i + 2 \in 1..n
    BY <1>1, <2>3, <2>4
  <2>6. QED
    BY <1>2, <2>2, <2>5
<1>6. QED
  BY <1>1, <1>5, Zenon DEF WellEncoded, n

LEMMA EncodedIsNotEmpty ==
    ASSUME NEW s \in Seq(Byte), s # <<>>, NEW kept, PERCENT \notin kept
    PROVE  ServiceEncode(s, kept) # <<>>
<1>1. Decode(ServiceEncode(s, kept)) = s
  BY DecodeEncode, Zenon
<1>2. QED
  BY <1>1, DecodeEmpty, Zenon

LEMMA EncodedIsInjective ==
    ASSUME NEW s \in Seq(Byte), NEW t \in Seq(Byte), NEW kept, PERCENT \notin kept,
           ServiceEncode(s, kept) = ServiceEncode(t, kept)
    PROVE  s = t
BY DecodeEncode, Zenon

(* What is named behind the base path. *)
NameOf(bucket, key, hosted) ==
    IF hosted THEN key ELSE IF key # <<>> THEN bucket \o (<<SLASH>> \o key) ELSE bucket

PathOf(base, bucket, key, hosted) ==
    IF hosted /\ key = <<>> /\ Len(base) > 1 THEN Front(base)
    ELSE base \o ServiceEncode(NameOf(bucket, key, hosted), PathBytes)

LEMMA BucketBytes ==
    ASSUME NEW bucket \in Seq(Byte), validate_bucket_for_path(bucket)
    PROVE  /\ bucket # <<>> /\ \A i \in 1..Len(bucket) : bucket[i] # SLASH
           /\ ServiceEncode(bucket, Unreserved) = ServiceEncode(bucket, PathBytes)
<1>1. Len(bucket) \in 1..255
  BY DEF validate_bucket_for_path
<1>2. bucket # <<>>
  <2>1. \A n \in 1..255 : n # 0
    OBVIOUS
  <2>2. QED
    BY <1>1, <2>1, EmptySeq, Zenon
<1>3. \A i \in 1..Len(bucket) : bucket[i] # SLASH
  BY DEF validate_bucket_for_path
<1>4. QED
  BY <1>2, <1>3, ComponentInPath, Zenon

LEMMA NameType ==
    ASSUME NEW bucket \in Seq(Byte), NEW key \in Seq(Byte), NEW hosted
    PROVE  NameOf(bucket, key, hosted) \in Seq(Byte)
BY Strings, KeptBytes, Zenon DEF NameOf

(* A bucket and a key are encoded as one name. *)
LEMMA NameEncoded ==
    ASSUME NEW bucket \in Seq(Byte), NEW key \in Seq(Byte)
    PROVE  ServiceEncode(bucket \o (<<SLASH>> \o key), PathBytes)
             = ServiceEncode(bucket, PathBytes) \o (<<SLASH>> \o ServiceEncode(key, PathBytes))
<1> DEFINE e == <<SLASH>>
<1>1. e \in Seq(Byte) /\ ServiceEncode(e, PathBytes) = e
  BY KeptBytes, Strings, EncodeByte, Zenon DEF EncodedByte
<1> HIDE DEF e
<1>2. e \o key \in Seq(Byte)
  BY <1>1, Strings, Zenon
<1>3. ServiceEncode(bucket \o (e \o key), PathBytes) = ServiceEncode(bucket, PathBytes) \o ServiceEncode(e \o key, PathBytes)
  BY <1>2, EncodeConcat, Zenon
<1>4. ServiceEncode(e \o key, PathBytes) = ServiceEncode(e, PathBytes) \o ServiceEncode(key, PathBytes)
  BY <1>1, EncodeConcat, Zenon
<1>5. QED
  BY <1>1, <1>3, <1>4, Zenon DEF e

LEMMA LastOfConcat ==
    ASSUME NEW T, NEW a \in Seq(T), NEW b \in Seq(T), b # <<>>
    PROVE  Last(a \o b) = b[Len(b)] /\ Len(b) \in 1..Len(b)
<1>1. Len(b) \in Nat \ {0}
  BY EmptySeq
<1>2. Len(a \o b) = Len(a) + Len(b) /\ (a \o b)[Len(a) + Len(b)] = b[Len(b)]
  BY <1>1
<1>3. Last(a \o b) = (a \o b)[Len(a \o b)]
  BY Zenon DEF Last
<1>4. Len(b) \in 1..Len(b)
  BY <1>1
<1>5. QED
  BY <1>2, <1>3, <1>4, Zenon

(* The URL of an object. *)
LEMMA ObjectUrlIs ==
    ASSUME NEW endpoint, NEW bucket \in Seq(Byte), NEW key \in Seq(Byte), NEW style,
           endpoint.base_path \in Seq(Byte), Rooted(endpoint.base_path),
           NEW u \in object_url(endpoint, bucket, key, style)
    PROVE  /\ u = [scheme |-> endpoint.scheme, authority |-> Authority(endpoint, bucket, style),
                   path |-> PathOf(endpoint.base_path, bucket, key, style = "VirtualHosted"), query |-> <<>>]
           /\ validate_bucket_for_path(bucket)
<1> DEFINE base == endpoint.base_path
           hosted == style = "VirtualHosted"
           path == base \o (IF hosted THEN <<>> ELSE aws_uri_encode(bucket, TRUE))
           full == IF key # <<>>
                   THEN path \o (IF hosted \/ Last(path) = SLASH THEN <<>> ELSE <<SLASH>>)
                          \o aws_uri_encode(key, FALSE)
                   ELSE IF hosted /\ Len(path) > 1 THEN Front(path) ELSE path
           shape(p) == [scheme |-> endpoint.scheme, authority |-> Authority(endpoint, bucket, style),
                        path |-> p, query |-> <<>>]
<1>1. validate_bucket_for_path(bucket) /\ u = shape(full)
  BY Zenon DEF object_url
<1> HIDE DEF shape
<1>2. SUFFICES full = PathOf(base, bucket, key, hosted)
  BY <1>1, Zenon DEF shape
<1> DEFINE b == ServiceEncode(bucket, Unreserved)
           k == ServiceEncode(key, PathBytes)
<1>3. aws_uri_encode(bucket, TRUE) = b /\ aws_uri_encode(key, FALSE) = k
  BY AwsUriEncodeIs, Zenon
<1>4. b \in Seq(Byte) /\ k \in Seq(Byte) /\ b = ServiceEncode(bucket, PathBytes)
  BY <1>1, BucketBytes, EncodeType, Zenon
<1>5. base \in Seq(Byte)
  OBVIOUS
<1>6. CASE hosted
  <2>1. path = base
    BY <1>5, <1>6, Strings, Zenon
  <2>2. CASE key # <<>>
    <3>1. full = base \o <<>> \o k
      BY <1>3, <1>6, <2>1, <2>2, Zenon
    <3>2. base \o <<>> = base
      BY <1>5, Strings, Zenon
    <3>3. QED
      BY <1>6, <2>2, <3>1, <3>2, Zenon DEF PathOf, NameOf
  <2>3. CASE key = <<>>
    <3>1. full = IF Len(base) > 1 THEN Front(base) ELSE base
      BY <1>6, <2>1, <2>3, Zenon
    <3>2. base \o ServiceEncode(<<>>, PathBytes) = base
      BY <1>5, EncodeEmpty, Strings, Zenon
    <3>3. QED
      BY <1>6, <2>3, <3>1, <3>2, Zenon DEF PathOf, NameOf
  <2>4. QED
    BY <2>2, <2>3
<1>7. CASE ~hosted
  <2>1. path = base \o b
    BY <1>3, <1>7, Zenon
  <2>2. CASE key # <<>>
    <3>1. Last(base \o b) # SLASH
      <4>1. b # <<>>
        BY <1>1, BucketBytes, KeptBytes, EncodedIsNotEmpty, Zenon
      <4>2. Free(b, SLASH)
        BY EncodedIsFree, Zenon
      <4>3. Last(base \o b) = b[Len(b)] /\ Len(b) \in 1..Len(b)
        BY <1>4, <1>5, <4>1, LastOfConcat, Zenon
      <4>4. QED
        BY <4>2, <4>3, Zenon DEF Free
    <3>2. full = ((base \o b) \o <<SLASH>>) \o k
      <4>1. (IF hosted \/ Last(path) = SLASH THEN <<>> ELSE <<SLASH>>) = <<SLASH>>
        <5> HIDE DEF path, hosted, b, base
        <5> QED BY <1>7, <2>1, <3>1, Zenon
      <4>2. full = path \o (IF hosted \/ Last(path) = SLASH THEN <<>> ELSE <<SLASH>>) \o aws_uri_encode(key, FALSE)
        BY <2>2, Zenon
      <4>3. QED
        BY <1>3, <2>1, <4>1, <4>2, Zenon
    <3> DEFINE e == <<SLASH>>
               S == Seq(Byte)
    <3>3. e \in Seq(Byte)
      BY KeptBytes, Strings, Zenon
    <3>4. base \in S /\ b \in S /\ e \in S /\ k \in S /\ b \o e \in S
      BY <1>4, <1>5, <3>3, Strings, Zenon
    <3>a. \A x, y, z \in S : Associates(x, y, z)
      BY StringsAssociate, Zenon
    <3> HIDE DEF e, b, k, base, path, hosted, S
    <3>b. Associates(base, b, e) /\ Associates(base, b \o e, k) /\ Associates(b, e, k)
      BY <3>4, <3>a, Zenon
    <3>5. (base \o b) \o e = base \o (b \o e)
      BY <3>b, Zenon DEF Associates
    <3>6. (base \o (b \o e)) \o k = base \o ((b \o e) \o k)
      BY <3>b, Zenon DEF Associates
    <3>7. (b \o e) \o k = b \o (e \o k)
      BY <3>b, Zenon DEF Associates
    <3>8. ServiceEncode(bucket \o (<<SLASH>> \o key), PathBytes) = b \o (e \o k)
      BY <1>4, NameEncoded, Zenon DEF e, k
    <3>9. full = base \o (b \o (e \o k))
      BY <3>2, <3>5, <3>6, <3>7, Zenon DEF e
    <3>10. QED
      BY <1>7, <2>2, <3>8, <3>9, Zenon DEF PathOf, NameOf
  <2>3. CASE key = <<>>
    <3>1. full = base \o b
      BY <1>7, <2>1, <2>3, Zenon
    <3>2. QED
      BY <1>4, <1>7, <2>3, <3>1, Zenon DEF PathOf, NameOf
  <2>4. QED
    BY <2>2, <2>3
<1>8. QED
  BY <1>6, <1>7

(* Whether there is a URL does not depend on the key. *)
LEMMA ObjectUrlExists ==
    ASSUME NEW endpoint, NEW bucket, NEW style, NEW key, NEW other,
           object_url(endpoint, bucket, other, style) # {}
    PROVE  object_url(endpoint, bucket, key, style) # {}
BY Zenon DEF object_url

(* The path of a URL is well encoded if the base path is, and canonical.     *)
LEMMA PathFacts ==
    ASSUME NEW base \in Seq(Byte), Rooted(base), NEW name \in Seq(Byte), NEW path,
           \/ path = base \o ServiceEncode(name, PathBytes)
           \/ path = Front(base) /\ Len(base) > 1
    PROVE  /\ path \in Seq(Byte) /\ path # <<>> /\ path[1] = SLASH
           /\ WellEncoded(path) <=> WellEncoded(base)
           /\ WellEncoded(base) /\ Minimal(base) => Minimal(path)
<1> DEFINE tail == ServiceEncode(name, PathBytes)
<1>1. tail \in Seq(Byte) /\ WellEncoded(tail) /\ Minimal(tail)
  BY KeptBytes, EncodeType, EncodeIsWellEncoded, EncodedIsMinimal, Zenon
<1>2. /\ base # <<>> /\ base[1] = SLASH /\ Last(base) = SLASH
      /\ Len(base) \in Nat \ {0} /\ base[Len(base)] = SLASH
  BY RootedIs, Zenon
<1>3. CASE path = base \o tail
  <2> HIDE DEF tail
  <2>1. path \in Seq(Byte) /\ path # <<>> /\ path[1] = SLASH
    <3>1. /\ base \o tail \in Seq(Byte) /\ Len(base \o tail) = Len(base) + Len(tail)
          /\ (base \o tail)[1] = base[1] /\ Len(tail) \in Nat
      BY <1>1, <1>2
    <3>2. Len(base \o tail) # 0 /\ Len(<<>>) = 0
      BY <1>2, <3>1
    <3>3. QED
      BY <1>2, <1>3, <3>1, <3>2, Zenon
  <2>2. QED
    BY <1>1, <1>2, <1>3, <2>1, PrefixWellEncoded, WellEncodedConcat, MinimalConcat, Zenon
<1>4. CASE path = Front(base) /\ Len(base) > 1
  <2>1. /\ path \in Seq(Byte) /\ Len(path) = Len(base) - 1
        /\ \A i \in 1..(Len(base) - 1) : path[i] = base[i]
        /\ WellEncoded(base) => WellEncoded(path)
        /\ Minimal(base) /\ WellEncoded(base) => Minimal(path)
    BY <1>2, <1>4, FrontWellEncoded, Zenon
  <2>2. Len(path) # 0 /\ Len(<<>>) = 0 /\ 1 \in 1..(Len(base) - 1)
    BY <1>2, <1>4, <2>1
  <2>3. path # <<>> /\ path[1] = SLASH
    BY <1>2, <2>1, <2>2, Zenon
  <2>4. ASSUME WellEncoded(path) PROVE WellEncoded(base)
    <3>1. base = Append(path, SLASH)
      BY <1>2, <1>4, FrontAndLast, Zenon
    <3>2. <<SLASH>> \in Seq(Byte) /\ WellEncoded(<<SLASH>>)
      <4>1. EncodedByte(SLASH, PathBytes) = <<SLASH>>
        BY KeptBytes, Zenon DEF EncodedByte
      <4>2. QED
        <5>1. WellEncoded(EncodedByte(SLASH, PathBytes))
          BY KeptBytes, WellEncodedByte, Zenon
        <5>2. <<SLASH>> \in Seq(Byte)
          BY KeptBytes, Strings, Zenon
        <5>3. QED
          BY <4>1, <5>1, <5>2, Zenon
    <3>3. Append(path, SLASH) = path \o <<SLASH>>
      BY <2>1, KeptBytes, Strings, Zenon
    <3>4. QED
      BY <2>1, <2>4, <3>1, <3>2, <3>3, WellEncodedConcat, Zenon
  <2>5. QED
    BY <2>1, <2>3, <2>4, Zenon
<1>5. QED
  BY <1>3, <1>4

(* The URI that is signed is the one the service computes. *)
LEMMA UriIsCanonical ==
    ASSUME NEW path \in Seq(Byte), path # <<>>, path[1] = SLASH, WellEncoded(path), Minimal(path)
    PROVE  canonical_uri_from_encoded(path)
             = {ServiceEncode(bytes, Unreserved \cup {SLASH}) : bytes \in decode_url_field(path)}
<1>1. canonical_uri_from_encoded(path) = {Canonical(path)}
  BY CanonicalType, CanonicalIs, Zenon
<1>2. decode_url_field(path) = {Decode(path)}
  BY DecodeIs, Zenon
<1>3. Canonical(path) = ServiceEncode(Decode(path), PathBytes)
  BY CanonicalIsReencoded, Zenon
<1>4. QED
  BY <1>1, <1>2, <1>3, Zenon DEF PathBytes

-------------------------------------------------------------------------------
(* What the service reads out of a path. *)

CutOf(rest) ==
    LET cuts == {i \in DOMAIN rest : rest[i] = SLASH}
    IN  IF cuts = {} THEN Len(rest) + 1 ELSE CHOOSE i \in cuts : \A k \in cuts : i <= k

Read(base, hosted, path, name) ==
    LET rest == SubSeq(path, Len(base) + 1, Len(path))
    IN  IF hosted THEN [bucket |-> {name}, key |-> decode_url_field(rest)]
        ELSE [bucket |-> decode_url_field(SubSeq(rest, 1, CutOf(rest) - 1)),
              key |-> decode_url_field(SubSeq(rest, CutOf(rest) + 1, Len(rest)))]

LEMMA RestIs ==
    ASSUME NEW T, NEW a \in Seq(T), NEW b \in Seq(T)
    PROVE  SubSeq(a \o b, Len(a) + 1, Len(a \o b)) = b /\ SubSeq(a \o b, 1, Len(a)) = a
<1> DEFINE c == a \o b
           r == SubSeq(c, Len(a) + 1, Len(c))
           h == SubSeq(c, 1, Len(a))
<1>1. /\ c \in Seq(T) /\ Len(c) = Len(a) + Len(b) /\ Len(a) \in Nat /\ Len(b) \in Nat
      /\ \A i \in 1..Len(a) : c[i] = a[i]
      /\ \A i \in 1..Len(b) : c[Len(a) + i] = b[i]
  OBVIOUS
<1> HIDE DEF c
<1>2. r \in Seq(T) /\ Len(r) = Len(b) /\ \A i \in 1..Len(b) : r[i] = c[Len(a) + i]
  BY <1>1
<1>3. h \in Seq(T) /\ Len(h) = Len(a) /\ \A i \in 1..Len(a) : h[i] = c[i]
  BY <1>1
<1> HIDE DEF r, h
<1>4. \A i \in 1..Len(r) : r[i] = b[i]
  BY <1>1, <1>2, Zenon
<1>5. \A i \in 1..Len(h) : h[i] = a[i]
  BY <1>1, <1>3, Zenon
<1>6. r = b
  BY <1>2, <1>4, SeqEqual, Zenon
<1>7. h = a
  BY <1>3, <1>5, SeqEqual, Zenon
<1>8. QED
  BY <1>6, <1>7, Zenon DEF r, h, c

LEMMA HeadOfConcat ==
    ASSUME NEW T, NEW x \in Seq(T), NEW t \in Seq(T), Len(x) = 1
    PROVE  /\ x \o t \in Seq(T) /\ Len(x \o t) = 1 + Len(t) /\ (x \o t)[1] = x[1] /\ Len(t) \in Nat
<1>1. x \o t \in Seq(T) /\ Len(x \o t) = Len(x) + Len(t)
  BY ConcatProperties, Zenon
<1>2. \A i \in 1..(Len(x) + Len(t)) : (x \o t)[i] = IF i <= Len(x) THEN x[i] ELSE t[i - Len(x)]
  BY ConcatProperties, Zenon
<1>3. Len(t) \in Nat
  OBVIOUS
<1>4. 1 \in 1..(1 + Len(t)) /\ 1 <= 1
  BY <1>3
<1>5. QED
  BY <1>1, <1>2, <1>3, <1>4, Zenon

(* The first slash ends the bucket. *)
LEMMA FirstCut ==
    ASSUME NEW a \in Seq(Byte), NEW t \in Seq(Byte), Free(a, SLASH)
    PROVE  LET rest == a \o (<<SLASH>> \o t)
           IN  /\ SubSeq(rest, 1, CutOf(rest) - 1) = a
               /\ SubSeq(rest, CutOf(rest) + 1, Len(rest)) = t
<1> DEFINE e == <<SLASH>>
           n == Len(a)
           rest == a \o (e \o t)
           cuts == {i \in DOMAIN rest : rest[i] = SLASH}
<1>1. e \in Seq(Byte) /\ Len(e) = 1 /\ e[1] = SLASH
  <2>1. e \in Seq(Byte)
    BY KeptBytes, Strings, Zenon
  <2>2. QED
    BY <2>1
<1> HIDE DEF e
<1>2. /\ e \o t \in Seq(Byte) /\ Len(e \o t) = 1 + Len(t) /\ (e \o t)[1] = SLASH /\ Len(t) \in Nat
  BY <1>1, HeadOfConcat, Zenon
<1>3. /\ rest \in Seq(Byte) /\ Len(rest) = n + (1 + Len(t)) /\ n \in Nat /\ DOMAIN rest = 1..(n + (1 + Len(t)))
      /\ \A i \in 1..n : rest[i] = a[i]
      /\ rest[n + 1] = SLASH
  <2> DEFINE q == e \o t
  <2> HIDE DEF q
  <2>1. q \in Seq(Byte) /\ Len(q) = 1 + Len(t) /\ q[1] = SLASH /\ Len(t) \in Nat
    BY <1>2, Zenon DEF q
  <2>2. /\ a \o q \in Seq(Byte) /\ Len(a \o q) = n + (1 + Len(t)) /\ n \in Nat
        /\ \A i \in 1..n : (a \o q)[i] = a[i]
        /\ (a \o q)[n + 1] = SLASH
    BY <2>1
  <2>3. DOMAIN (a \o q) = 1..(n + (1 + Len(t)))
    BY <2>2
  <2>4. QED
    BY <2>2, <2>3, Zenon DEF q
<1> HIDE DEF rest
<1>4. \A i \in 1..n : rest[i] # SLASH
  BY <1>3, Zenon DEF Free, n
<1>5. n + 1 \in cuts /\ \A k \in cuts : n + 1 <= k
  <2>1. n + 1 \in 1..(n + (1 + Len(t)))
    BY <1>2, <1>3
  <2>2. \A k \in 1..(n + (1 + Len(t))) : k \in 1..n \/ n + 1 <= k
    BY <1>2, <1>3
  <2>3. QED
    BY <1>3, <1>4, <2>1, <2>2, Zenon
<1>6. \A k \in cuts : k \in Nat
  BY <1>3
<1>7. CutOf(rest) = n + 1
  <2> DEFINE c == CHOOSE i \in cuts : \A k \in cuts : i <= k
  <2>1. CutOf(rest) = c
    BY <1>5, Zenon DEF CutOf
  <2> HIDE DEF cuts
  <2>2. c \in cuts /\ \A k \in cuts : c <= k
    BY <1>5, Zenon
  <2> HIDE DEF c
  <2>3. c \in Nat /\ c <= n + 1 /\ n + 1 <= c
    BY <1>5, <1>6, <2>2, Zenon
  <2>4. c = n + 1
    BY <1>3, <2>3
  <2>5. QED
    BY <2>1, <2>4, Zenon
<1>8. CutOf(rest) - 1 = n /\ CutOf(rest) + 1 = (n + 1) + 1
  BY <1>3, <1>7
<1>9. SubSeq(rest, 1, n) = a
  BY <1>2, RestIs, Zenon DEF rest, n
<1>10. SubSeq(rest, (n + 1) + 1, Len(rest)) = t
  <2>1. a \o e \in Seq(Byte) /\ Len(a \o e) = n + 1
    <3>1. a \o e \in Seq(Byte) /\ Len(a \o e) = Len(a) + Len(e)
      BY <1>1, ConcatProperties
    <3>2. QED
      BY <1>1, <3>1, Zenon
  <2>2. rest = (a \o e) \o t
    <3>1. Associates(a, e, t)
      BY <1>1, StringsAssociate, Zenon
    <3>2. QED
      BY <3>1, Zenon DEF Associates, rest
  <2>3. SubSeq((a \o e) \o t, Len(a \o e) + 1, Len((a \o e) \o t)) = t
    BY <2>1, RestIs, Zenon
  <2>4. QED
    BY <2>1, <2>2, <2>3, Zenon
<1>11. QED
  BY <1>8, <1>9, <1>10, Zenon DEF rest, e

LEMMA NoCut ==
    ASSUME NEW a \in Seq(Byte), Free(a, SLASH)
    PROVE  /\ SubSeq(a, 1, CutOf(a) - 1) = a
           /\ SubSeq(a, CutOf(a) + 1, Len(a)) = <<>>
<1>1. DOMAIN a = 1..Len(a) /\ Len(a) \in Nat
  OBVIOUS
<1>2. {i \in DOMAIN a : a[i] = SLASH} = {}
  BY <1>1, Zenon DEF Free
<1>3. CutOf(a) = Len(a) + 1
  BY <1>2, Zenon DEF CutOf
<1>4. SubSeq(a, 1, Len(a)) = a
  <2>1. <<>> \in Seq(Byte) /\ a \o <<>> = a
    BY Strings, Zenon
  <2>2. QED
    BY <2>1, RestIs, Zenon
<1>5. SubSeq(a, (Len(a) + 1) + 1, Len(a)) = <<>>
  BY <1>1, SubSeqEmpty
<1>6. (Len(a) + 1) - 1 = Len(a)
  BY <1>1
<1>7. QED
  BY <1>3, <1>4, <1>5, <1>6, Zenon

LEMMA DecodeEncoded ==
    ASSUME NEW s \in Seq(Byte)
    PROVE  decode_url_field(ServiceEncode(s, PathBytes)) = {s}
BY KeptBytes, EncodeType, EncodeIsWellEncoded, DecodeIs, DecodeEncode, Zenon

(* The service reads the bucket and the key that were written. *)
LEMMA ReadIsWritten ==
    ASSUME NEW base \in Seq(Byte), Rooted(base), NEW bucket \in Seq(Byte), NEW key \in Seq(Byte),
           validate_bucket_for_path(bucket), NEW hosted \in BOOLEAN
    PROVE  Read(base, hosted, PathOf(base, bucket, key, hosted), bucket)
             = [bucket |-> {bucket}, key |-> {key}]
<1> DEFINE path == PathOf(base, bucket, key, hosted)
           rest == SubSeq(path, Len(base) + 1, Len(path))
           b == ServiceEncode(bucket, PathBytes)
           k == ServiceEncode(key, PathBytes)
<1>1. b \in Seq(Byte) /\ k \in Seq(Byte) /\ decode_url_field(b) = {bucket} /\ decode_url_field(k) = {key}
  BY EncodeType, DecodeEncoded, Zenon
<1>2. Free(b, SLASH)
  <2>1. b = ServiceEncode(bucket, Unreserved)
    BY BucketBytes, Zenon
  <2>2. QED
    BY <2>1, EncodedIsFree, Zenon
<1>3. decode_url_field(<<>>) = {<<>>}
  BY Strings, DecodeEmpty, DecodeIs, Zenon
<1>4. CASE hosted
  <2>1. rest = k
    <3>1. CASE key = <<>> /\ Len(base) > 1
      <4>1. path = Front(base)
        BY <1>4, <3>1, Zenon DEF PathOf
      <4>2. Len(Front(base)) = Len(base) - 1
        BY RootedIs, FrontWellEncoded, Zenon
      <4>3. Len(base) + 1 \in Int /\ Len(base) - 1 \in Int /\ Len(base) - 1 < Len(base) + 1
        OBVIOUS
      <4>4. rest = <<>>
        BY <4>1, <4>2, <4>3, SubSeqEmpty, Zenon
      <4>5. QED
        BY <3>1, <4>4, EncodeEmpty, Zenon
    <3>2. CASE ~(key = <<>> /\ Len(base) > 1)
      <4>1. path = base \o k
        BY <1>4, <3>2, Zenon DEF PathOf, NameOf
      <4>2. QED
        <5>1. SubSeq(base \o k, Len(base) + 1, Len(base \o k)) = k
          BY <1>1, RestIs, Zenon
        <5>2. QED
          BY <4>1, <5>1, Zenon
    <3>3. QED
      BY <3>1, <3>2
  <2>2. QED
    BY <1>1, <1>4, <2>1, Zenon DEF Read
<1>5. CASE ~hosted
  <2>1. path = base \o ServiceEncode(NameOf(bucket, key, hosted), PathBytes)
    BY <1>5, Zenon DEF PathOf
  <2>2. NameOf(bucket, key, hosted) \in Seq(Byte)
    BY NameType, Zenon
  <2>3. rest = ServiceEncode(NameOf(bucket, key, hosted), PathBytes)
    <3> DEFINE t == ServiceEncode(NameOf(bucket, key, hosted), PathBytes)
    <3>1. t \in Seq(Byte)
      BY <2>2, EncodeType, Zenon
    <3> HIDE DEF t
    <3>2. SubSeq(base \o t, Len(base) + 1, Len(base \o t)) = t
      BY <3>1, RestIs, Zenon
    <3>3. QED
      BY <2>1, <3>2, Zenon DEF t
  <2>4. SubSeq(rest, 1, CutOf(rest) - 1) = b /\ SubSeq(rest, CutOf(rest) + 1, Len(rest)) = k
    <3>1. CASE key # <<>>
      <4>1. rest = b \o (<<SLASH>> \o k)
        BY <1>5, <2>3, <3>1, NameEncoded, Zenon DEF NameOf
      <4>2. QED
        BY <1>1, <1>2, <4>1, FirstCut, Zenon
    <3>2. CASE key = <<>>
      <4>1. rest = b /\ k = <<>>
        BY <1>5, <2>3, <3>2, EncodeEmpty, Zenon DEF NameOf
      <4>2. QED
        BY <1>1, <1>2, <4>1, NoCut, Zenon
    <3>3. QED
      BY <3>1, <3>2
  <2>5. QED
    BY <1>1, <1>5, <2>4, Zenon DEF Read
<1>6. QED
  BY <1>4, <1>5

(* Two buckets have two paths, whatever the key. *)
LEMMA PathsDiffer ==
    ASSUME NEW base \in Seq(Byte), NEW bucket \in Seq(Byte), NEW other \in Seq(Byte), NEW key \in Seq(Byte),
           bucket # other, Rooted(base), validate_bucket_for_path(bucket), validate_bucket_for_path(other)
    PROVE  PathOf(base, bucket, key, FALSE) # PathOf(base, other, key, FALSE)
<1> DEFINE p(b) == Read(base, FALSE, PathOf(base, b, key, FALSE), b)
<1>1. p(bucket) = [bucket |-> {bucket}, key |-> {key}] /\ p(other) = [bucket |-> {other}, key |-> {key}]
  BY ReadIsWritten, Zenon
<1>2. SUFFICES ASSUME PathOf(base, bucket, key, FALSE) = PathOf(base, other, key, FALSE) PROVE FALSE
  OBVIOUS
<1>3. p(bucket) = p(other)
  BY <1>2, Zenon DEF Read
<1> HIDE DEF p
<1>4. p(bucket).bucket = {bucket} /\ p(other).bucket = {other}
  BY <1>1
<1>5. QED
  BY <1>3, <1>4, Zenon

-------------------------------------------------------------------------------
(* SignedRequest has copies of the operators; they are the same. *)

LEMMA SRBytes ==
    /\ SR!SLASH = SLASH /\ SR!Unreserved = Unreserved
    /\ \A path : SR!WellEncoded(path) <=> WellEncoded(path)
    /\ \A path : SR!Rooted(path) <=> Rooted(path)
    /\ SR!EndpointShape = EndpointShape
    /\ SR!HostShape = HostShape
<1>1. SR!SLASH = SLASH /\ SR!Unreserved = Unreserved
  BY DEF SLASH, SR!SLASH, PERCENT, SR!PERCENT, Unreserved, SR!Unreserved, Alphanumeric, SR!Alphanumeric, Digits, SR!Digits, Upper, SR!Upper, Lower, SR!Lower
<1>2. \A path : SR!WellEncoded(path) <=> WellEncoded(path)
  BY DEF WellEncoded, SR!WellEncoded, PERCENT, SR!PERCENT, HexDigits, SR!HexDigits, Digits, SR!Digits
<1>3. \A path : SR!Rooted(path) <=> Rooted(path)
  BY DEF Rooted, SR!Rooted, SLASH, SR!SLASH, Last, SR!Last
<1>4. SR!EndpointShape = EndpointShape /\ SR!HostShape = HostShape
  BY Zenon DEF EndpointShape, SR!EndpointShape, HostShape, SR!HostShape, ServiceNames, SR!ServiceNames
<1>5. QED
  BY <1>1, <1>2, <1>3, <1>4

LEMMA SREncode == \A s, slash : SR!aws_uri_encode(s, slash) = aws_uri_encode(s, slash)
BY DEF aws_uri_encode, SR!aws_uri_encode, SLASH, SR!SLASH, PERCENT, SR!PERCENT, Unreserved, SR!Unreserved, Alphanumeric, SR!Alphanumeric, Digits, SR!Digits, Upper, SR!Upper, Lower, SR!Lower, push_percent_encoded, SR!push_percent_encoded, HexDigit, SR!HexDigit, FlattenSeq, SR!FlattenSeq

LEMMA SRUrl ==
    \A endpoint, bucket, key, style :
        SR!object_url(endpoint, bucket, key, style) = object_url(endpoint, bucket, key, style)
<1>1. \A bucket : SR!validate_bucket_for_path(bucket) <=> validate_bucket_for_path(bucket)
  BY Zenon DEF validate_bucket_for_path, SR!validate_bucket_for_path, SLASH, SR!SLASH
<1>2. \A bucket : SR!validate_virtual_host_bucket(bucket) <=> validate_virtual_host_bucket(bucket)
  BY Zenon DEF validate_virtual_host_bucket, SR!validate_virtual_host_bucket, HYPHEN, SR!HYPHEN, DOT, SR!DOT, Lower, SR!Lower, Digits, SR!Digits, DottedQuad, SR!DottedQuad, Fields, SR!Fields, Front, SR!Front, Last, SR!Last
<1>3. \A endpoint, bucket, style : SR!Authority(endpoint, bucket, style) = Authority(endpoint, bucket, style)
  BY Zenon DEF Authority, SR!Authority
<1>4. \A s : SR!Last(s) = Last(s) /\ SR!Front(s) = Front(s)
  BY Zenon DEF Last, SR!Last, Front, SR!Front
<1>5. ASSUME NEW endpoint, NEW bucket, NEW key, NEW style
      PROVE SR!object_url(endpoint, bucket, key, style) = object_url(endpoint, bucket, key, style)
  BY <1>1, <1>2, <1>3, <1>4, SRBytes, SREncode DEF object_url, SR!object_url
<1>6. QED
  BY <1>5, Zenon

LEMMA SRDecode ==
    /\ \A s : SR!decode_url_field(s) = decode_url_field(s)
    /\ \A s, kept : SR!ServiceEncode(s, kept) = ServiceEncode(s, kept)
    /\ \A s : SR!canonical_uri_from_encoded(s) = canonical_uri_from_encoded(s)
    /\ \A path : SR!Minimal(path) <=> Minimal(path)
    /\ SR!Byte = Byte
<1>1. \A s : SR!decode_url_field(s) = decode_url_field(s)
  BY DEF decode_url_field, SR!decode_url_field, WellEncoded, SR!WellEncoded, HexDigits, SR!HexDigits, PERCENT, SR!PERCENT, InTriplet, SR!InTriplet, hex_value, SR!hex_value, Digits, SR!Digits, Upper, SR!Upper, FlattenSeq, SR!FlattenSeq
<1>2. \A s, kept : SR!ServiceEncode(s, kept) = ServiceEncode(s, kept)
  BY Zenon DEF ServiceEncode, SR!ServiceEncode, PERCENT, SR!PERCENT, HexDigit, SR!HexDigit, FlattenSeq, SR!FlattenSeq
<1>3. \A s : SR!canonical_uri_from_encoded(s) = canonical_uri_from_encoded(s)
  BY DEF canonical_uri_from_encoded, SR!canonical_uri_from_encoded, WellEncoded, SR!WellEncoded, HexDigits, SR!HexDigits, InTriplet, SR!InTriplet, hex_value, SR!hex_value, SLASH, SR!SLASH, PERCENT, SR!PERCENT, push_percent_encoded, SR!push_percent_encoded, HexDigit, SR!HexDigit, FlattenSeq, SR!FlattenSeq,
     Digits, SR!Digits, Upper, SR!Upper, Unreserved, SR!Unreserved, Alphanumeric, SR!Alphanumeric, Lower, SR!Lower
<1>4. \A path : SR!Minimal(path) <=> Minimal(path)
  BY Zenon DEF Minimal, SR!Minimal, hex_value, SR!hex_value, SLASH, SR!SLASH, PERCENT, SR!PERCENT, Unreserved, SR!Unreserved, Alphanumeric, SR!Alphanumeric, Digits, SR!Digits, Upper, SR!Upper, Lower, SR!Lower
<1>5. SR!Byte = Byte
  BY DEF Byte, SR!Byte
<1>6. QED
  BY <1>1, <1>2, <1>3, <1>4, <1>5, Zenon

LEMMA SRQuery ==
    /\ \A ps : SR!canonical_query(ps) = canonical_query(ps)
    /\ \A s : SR!ServiceParameters(s) = ServiceParameters(s)
    /\ \A s, ps : SR!IsCanonicalQuery(s, ps) <=> IsCanonicalQuery(s, ps)
<1>1. \A s : SR!sort_unstable(s) = sort_unstable(s)
  BY Zenon DEF sort_unstable, SR!sort_unstable, Inserted, SR!Inserted, PairBefore, SR!PairBefore, Before, SR!Before
<1>2. \A s, c : SR!Fields(s, c) = Fields(s, c)
  BY Zenon DEF Fields, SR!Fields, Front, SR!Front, Last, SR!Last
<1>3. SR!AND = AND /\ SR!EQUALS = EQUALS
  BY DEF AND, SR!AND, EQUALS, SR!EQUALS
<1>4. \A ps : SR!QueryPair(ps) = QueryPair(ps)
  BY Zenon DEF QueryPair, SR!QueryPair, EQUALS, SR!EQUALS
<1>5. \A ps, c : SR!Joined(ps, c) = Joined(ps, c)
  BY Zenon DEF Joined, SR!Joined, FlattenSeq, SR!FlattenSeq
<1>6. ASSUME NEW ps PROVE SR!canonical_query(ps) = canonical_query(ps)
  <2> DEFINE e == [i \in DOMAIN ps |-> <<aws_uri_encode(ps[i][1], TRUE), aws_uri_encode(ps[i][2], TRUE)>>]
             f == [i \in DOMAIN ps |-> <<SR!aws_uri_encode(ps[i][1], TRUE), SR!aws_uri_encode(ps[i][2], TRUE)>>]
             s == sort_unstable(e)
  <2>1. e = f
    BY SREncode, Zenon
  <2>2. SR!canonical_query(ps) = SR!Joined([i \in DOMAIN SR!sort_unstable(f) |-> SR!QueryPair(SR!sort_unstable(f)[i])], SR!AND)
    BY Zenon DEF SR!canonical_query
  <2>3. canonical_query(ps) = Joined([i \in DOMAIN s |-> QueryPair(s[i])], AND)
    BY Zenon DEF canonical_query
  <2> HIDE DEF e, f
  <2>4. SR!sort_unstable(f) = s
    BY <1>1, <2>1, Zenon
  <2> HIDE DEF s
  <2>5. [i \in DOMAIN s |-> SR!QueryPair(s[i])] = [i \in DOMAIN s |-> QueryPair(s[i])]
    BY <1>4, Zenon
  <2>6. QED
    BY <1>3, <1>5, <2>2, <2>3, <2>4, <2>5, Zenon
<1>7. \A s : SR!ServiceParameters(s) = ServiceParameters(s)
  BY <1>2, <1>3, SRDecode, Zenon DEF ServiceParameters, SR!ServiceParameters
<1>8. \A s : SR!ToSet(s) = ToSet(s)
  BY Zenon DEF ToSet, SR!ToSet
<1>9. \A s : SR!Cardinality(s) = Cardinality(s)
  BY Zenon DEF Cardinality, SR!Cardinality
<1>10. \A p, q : SR!PairBefore(p, q) <=> PairBefore(p, q)
  BY Zenon DEF PairBefore, SR!PairBefore, Before, SR!Before
<1>11. ASSUME NEW s, NEW ps PROVE SR!IsCanonicalQuery(s, ps) <=> IsCanonicalQuery(s, ps)
  <2> DEFINE a == IF s = <<>> THEN <<>> ELSE [i \in DOMAIN Fields(s, AND) |-> Fields(Fields(s, AND)[i], EQUALS)]
             b == IF s = <<>> THEN <<>> ELSE [i \in DOMAIN SR!Fields(s, SR!AND) |-> SR!Fields(SR!Fields(s, SR!AND)[i], SR!EQUALS)]
             c == [i \in DOMAIN ps |-> <<ServiceEncode(ps[i][1], Unreserved), ServiceEncode(ps[i][2], Unreserved)>>]
             d == [i \in DOMAIN ps |-> <<SR!ServiceEncode(ps[i][1], SR!Unreserved), SR!ServiceEncode(ps[i][2], SR!Unreserved)>>]
  <2>1. a = b
    BY <1>2, <1>3, Zenon
  <2>2. SR!Unreserved = Unreserved /\ \A x, kept : SR!ServiceEncode(x, kept) = ServiceEncode(x, kept)
    BY SRDecode, SRBytes, Zenon
  <2>3. c = d
    BY <2>2, Zenon
  <2>4. SR!IsCanonicalQuery(s, ps) <=>
          /\ \A pair \in SR!ToSet(b) \cup SR!ToSet(d) :
                SR!Cardinality({i \in DOMAIN b : b[i] = pair}) = SR!Cardinality({i \in DOMAIN d : d[i] = pair})
          /\ \A i \in 1..(Len(b) - 1) : b[i] = b[i + 1] \/ SR!PairBefore(b[i], b[i + 1])
    BY Zenon DEF SR!IsCanonicalQuery
  <2>5. IsCanonicalQuery(s, ps) <=>
          /\ \A pair \in ToSet(a) \cup ToSet(c) :
                Cardinality({i \in DOMAIN a : a[i] = pair}) = Cardinality({i \in DOMAIN c : c[i] = pair})
          /\ \A i \in 1..(Len(a) - 1) : a[i] = a[i + 1] \/ PairBefore(a[i], a[i + 1])
    BY Zenon DEF IsCanonicalQuery
  <2> HIDE DEF a, b, c, d
  <2>6. SR!ToSet(b) = ToSet(a) /\ SR!ToSet(d) = ToSet(c)
    BY <1>8, <2>1, <2>3, Zenon
  <2>7. \A pair : SR!Cardinality({i \in DOMAIN b : b[i] = pair}) = Cardinality({i \in DOMAIN a : a[i] = pair})
    BY <1>9, <2>1, Zenon
  <2>8. \A pair : SR!Cardinality({i \in DOMAIN d : d[i] = pair}) = Cardinality({i \in DOMAIN c : c[i] = pair})
    BY <1>9, <2>3, Zenon
  <2>9. (\A i \in 1..(Len(b) - 1) : b[i] = b[i + 1] \/ SR!PairBefore(b[i], b[i + 1]))
          <=> (\A i \in 1..(Len(a) - 1) : a[i] = a[i + 1] \/ PairBefore(a[i], a[i + 1]))
    BY <1>10, <2>1, Zenon
  <2>10. (\A pair \in SR!ToSet(b) \cup SR!ToSet(d) :
             SR!Cardinality({i \in DOMAIN b : b[i] = pair}) = SR!Cardinality({i \in DOMAIN d : d[i] = pair}))
          <=> (\A pair \in ToSet(a) \cup ToSet(c) :
             Cardinality({i \in DOMAIN a : a[i] = pair}) = Cardinality({i \in DOMAIN c : c[i] = pair}))
    BY <2>6, <2>7, <2>8, Zenon
  <2>11. QED
    BY <2>4, <2>5, <2>9, <2>10, Zenon
<1>12. QED
  BY <1>6, <1>7, <1>11, Zenon

LEMMA SRHeaders ==
    /\ \A s : SR!normalize_header_value(s) = normalize_header_value(s)
    /\ \A s : SR!Squeezed(s) = Squeezed(s)
<1>1. \A s : SR!normalize_header_value(s) = normalize_header_value(s)
  BY Zenon DEF normalize_header_value, SR!normalize_header_value, Blank, SR!Blank, SPACE, SR!SPACE, TAB, SR!TAB
<1>2. \A s : SR!Squeezed(s) = Squeezed(s)
  BY Zenon DEF Squeezed, SR!Squeezed, Blank, SR!Blank, SPACE, SR!SPACE, TAB, SR!TAB, FlattenSeq, SR!FlattenSeq
<1>3. QED
  BY <1>1, <1>2, Zenon
-------------------------------------------------------------------------------
(* Signed requests. *)

(* The constants of SignedRequest. *)
LEMMA RequestConstants ==
    /\ MaxAttempts \in Nat \ {0} /\ RequestHorizon \in Nat
    /\ \A e \in RequestEndpoints :
          /\ e \in EndpointShape /\ e.base_path \in Seq(Byte) /\ Rooted(e.base_path)
          /\ WellEncoded(e.base_path) => Minimal(e.base_path)
    /\ RequestBuckets \subseteq Seq(Byte) /\ RequestKeys \subseteq Seq(Byte)
    /\ RequestQueries \subseteq Seq(Pairs)
    /\ \A headers \in RequestHeaders : \A name \in DOMAIN headers : headers[name] \in Seq(Seq(Byte))
    /\ \A i \in RequestIdentities : i.wellformed \in BOOLEAN /\ i.expires \in Nat
    /\ "" \notin SigningRegions
<1>1. SR!SignedRequestAssumption
  BY SigningAssumption, Zenon
<1>2. MaxAttempts \in Nat \ {0} /\ RequestHorizon \in Nat /\ "" \notin SigningRegions
  BY <1>1, Zenon DEF SR!SignedRequestAssumption
<1>3. RequestBuckets \subseteq Seq(Byte) /\ RequestKeys \subseteq Seq(Byte)
  BY <1>1, SRDecode, Zenon DEF SR!SignedRequestAssumption
<1>4. RequestQueries \subseteq Seq(Pairs)
  BY <1>1, SRDecode, Zenon DEF SR!SignedRequestAssumption, Pairs
<1>5. \A headers \in RequestHeaders : \A name \in DOMAIN headers : headers[name] \in Seq(Seq(Byte))
  BY <1>1, SRDecode, Zenon DEF SR!SignedRequestAssumption
<1>6. \A i \in RequestIdentities : i.wellformed \in BOOLEAN /\ i.expires \in Nat
  BY <1>1, Zenon DEF SR!SignedRequestAssumption
<1>7. ASSUME NEW e \in RequestEndpoints
      PROVE  /\ e \in EndpointShape /\ e.base_path \in Seq(Byte) /\ Rooted(e.base_path)
             /\ WellEncoded(e.base_path) => Minimal(e.base_path)
  <2>1. e \in EndpointShape
    BY <1>1, SRBytes, Zenon DEF SR!SignedRequestAssumption
  <2>2. e.base_path \in Seq(Byte)
    BY <2>1 DEF EndpointShape, Byte
  <2>3. Rooted(e.base_path) /\ (WellEncoded(e.base_path) => Minimal(e.base_path))
    BY <1>1, SRBytes, SRDecode, Zenon DEF SR!SignedRequestAssumption
  <2>4. QED
    BY <2>1, <2>2, <2>3, Zenon
<1>8. QED
  BY <1>2, <1>3, <1>4, <1>5, <1>6, <1>7, Zenon

(* The host a request may go to, signed for the region r. *)
AuthorityInv(authority, r) ==
    /\ cfg.style = "VirtualHosted" => authority.host.bucket = cfg.bucket
    /\ LET home == cfg.endpoint.authority
           host == [authority.host EXCEPT !.bucket = <<>>]
       IN  \/ host = home.host /\ authority.port = home.port
           \/ /\ cfg.endpoint.scheme = "https"
              /\ home.host.prefix \in ServiceNames
              /\ host = [home.host EXCEPT !.region = r]

(* The target that was built for the operation. *)
TargetInv ==
    /\ SR!Protected \cap DOMAIN op.headers = {}
    /\ validate_bucket_for_path(cfg.bucket)
    /\ target = [scheme |-> cfg.endpoint.scheme, authority |-> target.authority,
                 path |-> PathOf(cfg.endpoint.base_path, cfg.bucket, op.key, cfg.style = "VirtualHosted"),
                 query |-> canonical_query(op.query)]
    /\ AuthorityInv(target.authority, region)

(* The configuration, the operation and the credentials of a request. *)
GivenInv ==
    /\ cfg \in [endpoint : RequestEndpoints, bucket : RequestBuckets, style : AddressingStyles,
                region : SigningRegions]
    /\ op \in [key : RequestKeys, query : RequestQueries, headers : RequestHeaders,
               body : {{}, {"content"}}, replayable : BOOLEAN]
    /\ provider \subseteq RequestIdentities

(* The inductive invariant of a signed request. *)
RequestInv ==
    /\ SR!TypeOK /\ GivenInv
    /\ at \in {"build", "sign"} => attempts < MaxAttempts
    /\ answered <= clock
    /\ at \in {"sign", "sent"} => TargetInv
    /\ SR!SentRequestsVerify /\ SR!SentRequestsNameTheObject /\ SR!RedirectsStayContained

(* What the configuration and the operation are made of. *)
LEMMA GivenFacts ==
    ASSUME GivenInv
    PROVE  /\ cfg.endpoint \in EndpointShape /\ cfg.endpoint.base_path \in Seq(Byte)
           /\ Rooted(cfg.endpoint.base_path)
           /\ WellEncoded(cfg.endpoint.base_path) => Minimal(cfg.endpoint.base_path)
           /\ cfg.bucket \in Seq(Byte) /\ op.key \in Seq(Byte)
           /\ op.query \in Seq(Pairs)
           /\ \A name \in DOMAIN op.headers : op.headers[name] \in Seq(Seq(Byte))
           /\ cfg.style \in {"Path", "VirtualHosted"}
<1>1. cfg.endpoint \in RequestEndpoints /\ cfg.bucket \in RequestBuckets /\ cfg.style \in AddressingStyles
  BY DEF GivenInv
<1>2. op.key \in RequestKeys /\ op.query \in RequestQueries /\ op.headers \in RequestHeaders
  BY DEF GivenInv
<1>3. cfg.style \in {"Path", "VirtualHosted"}
  BY <1>1 DEF AddressingStyles
<1>4. QED
  BY <1>1, <1>2, <1>3, RequestConstants, Zenon

(* The path of a target that was built. *)
LEMMA TargetPath ==
    ASSUME GivenInv, TargetInv
    PROVE  /\ target.path \in Seq(Byte) /\ target.path # <<>> /\ target.path[1] = SLASH
           /\ WellEncoded(target.path) <=> WellEncoded(cfg.endpoint.base_path)
           /\ WellEncoded(target.path) => Minimal(target.path)
<1> DEFINE base == cfg.endpoint.base_path
           hosted == (cfg.style = "VirtualHosted")
           name == NameOf(cfg.bucket, op.key, hosted)
           path == PathOf(base, cfg.bucket, op.key, hosted)
<1>1. target.path = path
  BY DEF TargetInv
<1>2. base \in Seq(Byte) /\ Rooted(base) /\ (WellEncoded(base) => Minimal(base)) /\ name \in Seq(Byte)
  BY GivenFacts, NameType, Zenon
<1>3. path = base \o ServiceEncode(name, PathBytes) \/ (path = Front(base) /\ Len(base) > 1)
  BY Zenon DEF PathOf
<1> HIDE DEF base, name, path
<1>4. /\ path \in Seq(Byte) /\ path # <<>> /\ path[1] = SLASH
      /\ WellEncoded(path) <=> WellEncoded(base)
      /\ WellEncoded(base) /\ Minimal(base) => Minimal(path)
  BY <1>2, <1>3, PathFacts, Zenon
<1>5. QED
  BY <1>1, <1>2, <1>4, Zenon DEF base

(* What is signed is what the service computes from the request it gets. *)
LEMMA SignedVerifies ==
    ASSUME GivenInv, TargetInv, NEW identity \in provider, ~SR!SigningRefused(identity, op.headers)
    PROVE  SR!ServiceVerifies(SR!SignedWire(target, identity, region))
<1> DEFINE r == SR!SignedWire(target, identity, region)
           signed == SR!CanonicalRequest(target, identity, clock)
           ps == SR!ServiceParameters(target.query)
           secrets == {i.secret : i \in {i \in RequestIdentities : i.key = r.key /\ i.token = r.token}}
<1>1. /\ r.url = target /\ r.host = target.authority /\ r.date = clock
      /\ r.token = identity.token /\ r.payload = op.body /\ r.length = op.body
      /\ r.headers = op.headers /\ r.key = identity.key /\ r.region = region
      /\ r.signature = SR!Signature(identity.secret, clock, region, signed)
  BY DEF SR!SignedWire
<1>2. /\ r.signature.secret = identity.secret /\ r.signature.date = clock
      /\ r.signature.region = region /\ r.signature.canonical = signed
  BY <1>1 DEF SR!Signature
<1>3. /\ signed.uri = SR!canonical_uri_from_encoded(target.path)
      /\ signed.query = SR!canonical_query(op.query)
      /\ signed.host = target.authority /\ signed.date = clock /\ signed.token = identity.token
      /\ signed.payload = op.body /\ signed.length = op.body
      /\ signed.headers = SR!canonical_headers(op.headers)
  BY DEF SR!CanonicalRequest
<1> HIDE DEF r, signed
<1>4. identity.secret \in secrets
  <2>1. identity \in RequestIdentities
    BY DEF GivenInv
  <2>2. QED
    BY <1>1, <2>1, Zenon
<1>5. signed.uri = {SR!ServiceEncode(bytes, SR!Unreserved \cup {SR!SLASH}) : bytes \in SR!decode_url_field(target.path)}
  <2> DEFINE path == target.path
  <2>1. SR!canonical_uri_from_encoded(path) # {}
    BY Zenon DEF SR!SigningRefused
  <2>2. canonical_uri_from_encoded(path) # {}
    BY <2>1, SRDecode, Zenon
  <2>3. WellEncoded(path)
    BY <2>2, Zenon DEF canonical_uri_from_encoded
  <2>4. canonical_uri_from_encoded(path)
          = {ServiceEncode(bytes, Unreserved \cup {SLASH}) : bytes \in decode_url_field(path)}
    BY <2>3, TargetPath, UriIsCanonical, Zenon
  <2>5. {ServiceEncode(bytes, Unreserved \cup {SLASH}) : bytes \in decode_url_field(path)}
          = {SR!ServiceEncode(bytes, SR!Unreserved \cup {SR!SLASH}) : bytes \in SR!decode_url_field(path)}
    BY SRDecode, SRBytes, Zenon
  <2>6. QED
    BY <1>3, <2>4, <2>5, SRDecode, Zenon
<1>6. SR!IsCanonicalQuery(signed.query,
          [i \in DOMAIN ps |-> <<CHOOSE n \in ps[i][1] : TRUE, CHOOSE v \in ps[i][2] : TRUE>>])
  <2> DEFINE q == canonical_query(op.query)
  <2>1. target.query = q
    BY DEF TargetInv
  <2>2. signed.query = q
    BY <1>3, SRQuery, Zenon
  <2>3. ps = ServiceParameters(q)
    BY <2>1, SRQuery, Zenon
  <2>4. IsCanonicalQuery(q, ReadBack(ServiceParameters(q)))
    BY GivenFacts, QueryIsCanonical, Zenon
  <2> HIDE DEF q, ps
  <2>5. IsCanonicalQuery(signed.query, ReadBack(ps))
    BY <2>2, <2>3, <2>4, Zenon
  <2>6. QED
    BY <2>5, SRQuery, Zenon DEF ReadBack
<1>7. signed.headers = [name \in DOMAIN op.headers |->
          [i \in DOMAIN op.headers[name] |-> SR!Squeezed(op.headers[name][i])]]
  <2>1. \A name \in DOMAIN op.headers : \A i \in DOMAIN op.headers[name] : op.headers[name][i] \in Seq(Byte)
    <3>1. \A values \in Seq(Seq(Byte)) : \A i \in DOMAIN values : values[i] \in Seq(Byte)
      OBVIOUS
    <3>2. QED
      BY <3>1, GivenFacts, Zenon
  <2>2. \A name \in DOMAIN op.headers : \A i \in DOMAIN op.headers[name] :
            SR!normalize_header_value(op.headers[name][i]) = SR!Squeezed(op.headers[name][i])
    BY <2>1, SRHeaders, NormalizedIsSqueezed, Zenon
  <2>3. \A name \in DOMAIN op.headers :
            [i \in DOMAIN op.headers[name] |-> SR!normalize_header_value(op.headers[name][i])]
              = [i \in DOMAIN op.headers[name] |-> SR!Squeezed(op.headers[name][i])]
    BY <2>2, Zenon
  <2>4. SR!canonical_headers(op.headers)
          = [name \in DOMAIN op.headers |-> [i \in DOMAIN op.headers[name] |-> SR!normalize_header_value(op.headers[name][i])]]
    BY Zenon DEF SR!canonical_headers
  <2>5. QED
    BY <1>3, <2>3, <2>4, Zenon
<1> HIDE DEF secrets
<1>8. /\ r.signature.secret \in secrets
      /\ r.signature.date = r.date /\ r.signature.canonical.date = r.date
      /\ r.signature.region = r.region
      /\ r.signature.canonical.host = r.host /\ r.host = r.url.authority
      /\ r.signature.canonical.token = r.token
      /\ r.signature.canonical.payload = r.payload
      /\ r.signature.canonical.length = r.length
  BY <1>1, <1>2, <1>3, <1>4, Zenon
<1>9. r.url.path = target.path /\ r.url.query = target.query /\ r.headers = op.headers
      /\ r.signature.canonical = signed
  BY <1>1, <1>2, Zenon
<1>10. r.signature.canonical.uri = {SR!ServiceEncode(bytes, SR!Unreserved \cup {SR!SLASH}) :
           bytes \in SR!decode_url_field(r.url.path)}
  BY <1>5, <1>9, Zenon
<1>11. SR!IsCanonicalQuery(r.signature.canonical.query,
          [i \in DOMAIN SR!ServiceParameters(r.url.query) |->
              <<CHOOSE n \in SR!ServiceParameters(r.url.query)[i][1] : TRUE,
                CHOOSE v \in SR!ServiceParameters(r.url.query)[i][2] : TRUE>>])
  <2> DEFINE qs == SR!ServiceParameters(r.url.query)
  <2>1. qs = ps /\ r.signature.canonical.query = signed.query
    BY <1>9, Zenon
  <2> HIDE DEF qs, ps
  <2>2. SR!IsCanonicalQuery(r.signature.canonical.query,
            [i \in DOMAIN qs |-> <<CHOOSE n \in qs[i][1] : TRUE, CHOOSE v \in qs[i][2] : TRUE>>])
    BY <1>6, <2>1
  <2>3. QED
    BY <2>2, Zenon DEF qs
<1>12. r.signature.canonical.headers = [name \in DOMAIN r.headers |->
          [i \in DOMAIN r.headers[name] |-> SR!Squeezed(r.headers[name][i])]]
  BY <1>7, <1>9, Zenon
<1>13. SR!ServiceVerifies(r)
  BY <1>8, <1>10, <1>11, <1>12, Zenon DEF SR!ServiceVerifies, secrets
<1>14. QED
  BY <1>13, Zenon DEF r

(* What the service reads, of the configuration and a request. *)
Reads(c, r) == Read(c.endpoint.base_path, c.style = "VirtualHosted", r.url.path, r.host.host.bucket)

LEMMA ServiceReadsIs ==
    ASSUME NEW r
    PROVE  SR!ServiceReads(r) = Reads(cfg, r) /\ SR!ServiceReads(r)' = Reads(cfg', r)
<1> DEFINE R(c) == 
          LET base == c.endpoint.base_path
              rest == SubSeq(r.url.path, Len(base) + 1, Len(r.url.path))
              cuts == {i \in DOMAIN rest : rest[i] = SR!SLASH}
              cut == IF cuts = {} THEN Len(rest) + 1 ELSE CHOOSE i \in cuts : \A k \in cuts : i <= k
          IN  IF c.style = "VirtualHosted"
              THEN [bucket |-> {r.host.host.bucket}, key |-> SR!decode_url_field(rest)]
              ELSE [bucket |-> SR!decode_url_field(SubSeq(rest, 1, cut - 1)),
                    key |-> SR!decode_url_field(SubSeq(rest, cut + 1, Len(rest)))]
<1>1. SR!ServiceReads(r) = R(cfg)
  BY DEF SR!ServiceReads
<1>2. SR!ServiceReads(r)' = R(cfg')
  BY SRDecode DEF SR!ServiceReads
<1>3. ASSUME NEW c PROVE R(c) = Reads(c, r)
  <2> DEFINE path == r.url.path
             base == c.endpoint.base_path
             hosted == (c.style = "VirtualHosted")
             rest == SubSeq(path, Len(base) + 1, Len(path))
             cuts == {i \in DOMAIN rest : rest[i] = SR!SLASH}
             cut == IF cuts = {} THEN Len(rest) + 1 ELSE CHOOSE i \in cuts : \A k \in cuts : i <= k
  <2>1. cut = CutOf(rest)
    <3>1. cuts = {i \in DOMAIN rest : rest[i] = SLASH}
      BY SRBytes, Zenon
    <3> HIDE DEF cuts, rest
    <3>2. QED
      BY <3>1 DEF CutOf
  <2>2. R(c) =
          IF hosted THEN [bucket |-> {r.host.host.bucket}, key |-> SR!decode_url_field(rest)]
          ELSE [bucket |-> SR!decode_url_field(SubSeq(rest, 1, cut - 1)),
                key |-> SR!decode_url_field(SubSeq(rest, cut + 1, Len(rest)))]
    OBVIOUS
  <2>3. Reads(c, r) =
          IF hosted THEN [bucket |-> {r.host.host.bucket}, key |-> decode_url_field(rest)]
          ELSE [bucket |-> decode_url_field(SubSeq(rest, 1, CutOf(rest) - 1)),
                key |-> decode_url_field(SubSeq(rest, CutOf(rest) + 1, Len(rest)))]
    BY Zenon DEF Reads, Read
  <2> HIDE DEF rest, cut, hosted, R
  <2>4. QED
    BY <2>1, <2>2, <2>3, SRDecode, Zenon
<1> HIDE DEF R
<1>4. QED
  BY <1>1, <1>2, <1>3, Zenon

(* The service reads the bucket and the key of the operation. *)
LEMMA SignedNamesTheObject ==
    ASSUME GivenInv, TargetInv, NEW identity
    PROVE  Reads(cfg, SR!SignedWire(target, identity, region)) = [bucket |-> {cfg.bucket}, key |-> {op.key}]
<1> DEFINE r == SR!SignedWire(target, identity, region)
           base == cfg.endpoint.base_path
           hosted == (cfg.style = "VirtualHosted")
           path == PathOf(base, cfg.bucket, op.key, hosted)
<1>1. r.url.path = path /\ r.host = target.authority
  BY DEF SR!SignedWire, TargetInv
<1>2. hosted => r.host.host.bucket = cfg.bucket
  BY <1>1 DEF TargetInv, AuthorityInv
<1>3. Read(base, hosted, path, cfg.bucket) = [bucket |-> {cfg.bucket}, key |-> {op.key}]
  BY GivenFacts, ReadIsWritten, Zenon DEF TargetInv
<1> HIDE DEF r, path
<1>4. Read(base, hosted, path, r.host.host.bucket) = Read(base, hosted, path, cfg.bucket)
  BY <1>2, Zenon DEF Read
<1>5. Reads(cfg, r) = [bucket |-> {cfg.bucket}, key |-> {op.key}]
  BY <1>1, <1>3, <1>4, Zenon DEF Reads
<1>6. QED
  BY <1>5, Zenon DEF r

(* It goes to the host that AuthorityInv allows. *)
LEMMA SignedIsContained ==
    ASSUME TargetInv, NEW identity
    PROVE  LET r == SR!SignedWire(target, identity, region)
               home == cfg.endpoint.authority
               host == [r.host.host EXCEPT !.bucket = <<>>]
           IN  \/ host = home.host /\ r.host.port = home.port
               \/ /\ r.url.scheme = "https"
                  /\ home.host.prefix \in SR!ServiceNames
                  /\ host = [home.host EXCEPT !.region = r.region]
<1> DEFINE r == SR!SignedWire(target, identity, region)
<1>1. r.url = target /\ r.host = target.authority /\ r.region = region
  BY DEF SR!SignedWire
<1>2. target.scheme = cfg.endpoint.scheme
  BY DEF TargetInv
<1>3. AuthorityInv(target.authority, region)
  BY DEF TargetInv
<1>4. SR!ServiceNames = ServiceNames
  BY DEF ServiceNames, SR!ServiceNames
<1> HIDE DEF r
<1>5. QED
  BY <1>1, <1>2, <1>3, <1>4, Zenon DEF AuthorityInv, r

(* What the service finds in a request depends on nothing that changes. *)
LEMMA WireKept ==
    ASSUME RequestInv, UNCHANGED <<cfg, op, wire>>
    PROVE  (SR!SentRequestsVerify /\ SR!SentRequestsNameTheObject /\ SR!RedirectsStayContained)'
<1>1. SR!SentRequestsVerify'
  BY Zenon DEF RequestInv, SR!SentRequestsVerify, SR!ServiceVerifies
<1>2. SR!SentRequestsNameTheObject'
  BY ServiceReadsIs, Zenon DEF RequestInv, SR!SentRequestsNameTheObject
<1>3. SR!RedirectsStayContained'
  BY Zenon DEF RequestInv, SR!RedirectsStayContained
<1>4. QED
  BY <1>1, <1>2, <1>3

LEMMA TargetKept ==
    ASSUME TargetInv, UNCHANGED <<cfg, op, target, region>>
    PROVE  TargetInv'
BY Zenon DEF TargetInv, AuthorityInv

LEMMA FailInv ==
    ASSUME RequestInv, NEW kind \in {"configuration", "provider", "expired", "signing", "service"}, SR!Fail(kind)
    PROVE  RequestInv'
<1>1. SR!TypeOK' /\ GivenInv' /\ answered' <= clock' /\ at' = "done"
  BY DEF RequestInv, SR!TypeOK, GivenInv, SR!Fail
<1>2. UNCHANGED <<cfg, op, wire>>
  BY DEF SR!Fail
<1>3. QED
  BY <1>1, <1>2, WireKept DEF RequestInv

(* The url that object_url makes goes home. *)
LEMMA HomeInv ==
    ASSUME GivenInv
    PROVE  AuthorityInv(Authority(cfg.endpoint, cfg.bucket, cfg.style), region)
<1>1. cfg.endpoint.authority \in [host : HostShape, port : SUBSET Nat]
  BY GivenFacts DEF EndpointShape
<1>2. cfg.endpoint.authority.host \in [bucket : {<<>>}, prefix : STRING, region : STRING, suffix : STRING, ip : BOOLEAN]
  BY <1>1 DEF HostShape
<1>3. [cfg.endpoint.authority.host EXCEPT !.bucket = <<>>] = cfg.endpoint.authority.host
  BY <1>2
<1>4. [[cfg.endpoint.authority.host EXCEPT !.bucket = cfg.bucket] EXCEPT !.bucket = <<>>] = cfg.endpoint.authority.host
  BY <1>2
<1>5. CASE cfg.style # "VirtualHosted"
  BY <1>3, <1>5 DEF AuthorityInv, Authority
<1>6. CASE cfg.style = "VirtualHosted"
  <2> DEFINE a == Authority(cfg.endpoint, cfg.bucket, cfg.style)
  <2>1. a = [cfg.endpoint.authority EXCEPT !.host.bucket = cfg.bucket]
    BY <1>6 DEF Authority
  <2>2. a.host = [cfg.endpoint.authority.host EXCEPT !.bucket = cfg.bucket] /\ a.port = cfg.endpoint.authority.port
    BY <1>1, <2>1
  <2>3. a.host.bucket = cfg.bucket
    BY <1>2, <2>2
  <2> HIDE DEF a
  <2>4. AuthorityInv(a, region)
    BY <1>4, <2>2, <2>3, Zenon DEF AuthorityInv
  <2>5. QED
    BY <2>4 DEF a
<1>7. QED
  BY <1>5, <1>6

LEMMA BuildInv ==
    ASSUME RequestInv, SR!Build
    PROVE  RequestInv'
<1> DEFINE urls == SR!object_url(cfg.endpoint, cfg.bucket, op.key, cfg.style)
<1>1. CASE SR!Protected \cap DOMAIN op.headers # {} \/ urls = {}
  <2>1. SR!Fail("configuration")
    BY <1>1, Zenon DEF SR!Build
  <2>2. QED
    BY <2>1, FailInv
<1>2. CASE ~(SR!Protected \cap DOMAIN op.headers # {} \/ urls = {})
  <2>1. /\ \E url_1 \in urls : target' = SR!with_query(url_1, SR!canonical_query(op.query))
        /\ at = "build" /\ at' = "sign"
        /\ UNCHANGED <<clock, cfg, op, provider, region, redirected, attempts, answered, wire, failure>>
    BY <1>2, Zenon DEF SR!Build
  <2>2. PICK u \in urls : target' = SR!with_query(u, SR!canonical_query(op.query))
    BY <2>1
  <2>3. GivenInv
    BY DEF RequestInv
  <2>4. u \in object_url(cfg.endpoint, cfg.bucket, op.key, cfg.style)
    BY SRUrl, Zenon
  <2>5. /\ u = [scheme |-> cfg.endpoint.scheme, authority |-> Authority(cfg.endpoint, cfg.bucket, cfg.style),
                path |-> PathOf(cfg.endpoint.base_path, cfg.bucket, op.key, cfg.style = "VirtualHosted"), query |-> <<>>]
        /\ validate_bucket_for_path(cfg.bucket)
    BY <2>3, <2>4, GivenFacts, ObjectUrlIs, Zenon
  <2> HIDE DEF urls
  <2>6. target' = [u EXCEPT !.query = canonical_query(op.query)]
    BY <2>2, SRQuery, Zenon DEF SR!with_query
  <2>7. target' = [scheme |-> cfg.endpoint.scheme, authority |-> Authority(cfg.endpoint, cfg.bucket, cfg.style),
                path |-> PathOf(cfg.endpoint.base_path, cfg.bucket, op.key, cfg.style = "VirtualHosted"),
                query |-> canonical_query(op.query)]
    BY <2>5, <2>6
  <2>8. target'.authority = Authority(cfg.endpoint, cfg.bucket, cfg.style)
    BY <2>7
  <2>9. AuthorityInv(Authority(cfg.endpoint, cfg.bucket, cfg.style), region)
    BY <2>3, HomeInv
  <2>10. TargetInv'
    <3>1. cfg' = cfg /\ op' = op /\ region' = region
      BY <2>1
    <3>2. AuthorityInv(target.authority, region)'
      BY <2>8, <2>9, <3>1, Zenon DEF AuthorityInv
    <3>3. (SR!Protected \cap DOMAIN op.headers = {} /\ validate_bucket_for_path(cfg.bucket))'
      BY <1>2, <2>5, <3>1, Zenon
    <3>4. (target = [scheme |-> cfg.endpoint.scheme, authority |-> target.authority,
                 path |-> PathOf(cfg.endpoint.base_path, cfg.bucket, op.key, cfg.style = "VirtualHosted"),
                 query |-> canonical_query(op.query)])'
      BY <2>7, <2>8, <3>1, Zenon
    <3>5. QED
      BY <3>2, <3>3, <3>4, Zenon DEF TargetInv
  <2>11. SR!TypeOK' /\ GivenInv' /\ attempts' < MaxAttempts /\ answered' <= clock'
    BY <2>1, RequestConstants DEF RequestInv, SR!TypeOK, GivenInv
  <2>12. UNCHANGED <<cfg, op, wire>>
    BY <2>1
  <2>13. QED
    BY <2>10, <2>11, <2>12, WireKept, Zenon DEF RequestInv
<1>3. QED
  BY <1>1, <1>2

LEMMA SignInv ==
    ASSUME RequestInv, SR!Sign
    PROVE  RequestInv'
<1>1. CASE provider = {} /\ SR!Fail("provider")
  BY <1>1, FailInv
<1>2. ASSUME NEW identity \in provider, SR!Fail("expired") \/ SR!Fail("signing") PROVE RequestInv'
  BY <1>2, FailInv
<1>3. ASSUME NEW identity \in provider, ~SR!SigningRefused(identity, op.headers), at = "sign",
             wire' = {SR!SignedWire(target, identity, region)}, at' = "sent", attempts' = attempts + 1,
             UNCHANGED <<clock, cfg, op, provider, target, region, redirected, answered, failure>>
      PROVE  RequestInv'
  <2>1. TargetInv /\ GivenInv
    BY <1>3 DEF RequestInv
  <2>2. SR!TypeOK' /\ GivenInv' /\ answered' <= clock' /\ TargetInv'
    <3>1. SR!TypeOK' /\ answered' <= clock'
      <4>1. SR!TypeOK /\ attempts < MaxAttempts /\ answered <= clock
        BY <1>3 DEF RequestInv
      <4>2. at' = "sent" /\ attempts' = attempts + 1 /\ UNCHANGED <<clock, region, redirected, answered, failure>>
        BY <1>3
      <4>3. MaxAttempts \in Nat
        BY RequestConstants
      <4>4. QED
        BY <4>1, <4>2, <4>3 DEF SR!TypeOK
    <3>2. GivenInv'
      BY <1>3, <2>1 DEF GivenInv
    <3>3. TargetInv'
      BY <1>3, <2>1, TargetKept
    <3>4. QED
      BY <3>1, <3>2, <3>3
  <2> DEFINE r == SR!SignedWire(target, identity, region)
  <2>3. SR!ServiceVerifies(r) /\ Reads(cfg, r) = [bucket |-> {cfg.bucket}, key |-> {op.key}]
    BY <1>3, <2>1, SignedVerifies, SignedNamesTheObject, Zenon
  <2>4. LET home == cfg.endpoint.authority
            host == [r.host.host EXCEPT !.bucket = <<>>]
        IN  \/ host = home.host /\ r.host.port = home.port
            \/ /\ r.url.scheme = "https"
               /\ home.host.prefix \in SR!ServiceNames
               /\ host = [home.host EXCEPT !.region = r.region]
    BY <2>1, SignedIsContained, Zenon
  <2>5. wire' = {r} /\ cfg' = cfg /\ op' = op
    BY <1>3
  <2> HIDE DEF r
  <2>6. SR!SentRequestsVerify'
    <3>1. SUFFICES ASSUME NEW q \in wire' PROVE SR!ServiceVerifies(q)'
      BY Zenon DEF SR!SentRequestsVerify
    <3>2. q = r
      BY <2>5, Zenon
    <3>3. SR!ServiceVerifies(q)
      BY <2>3, <3>2, Zenon
    <3>4. QED
      BY <3>3, Zenon DEF SR!ServiceVerifies
  <2>7. SR!SentRequestsNameTheObject'
    <3>1. SUFFICES ASSUME NEW q \in wire' PROVE SR!ServiceReads(q)' = [bucket |-> {cfg'.bucket}, key |-> {op'.key}]
      BY Zenon DEF SR!SentRequestsNameTheObject
    <3>2. q = r
      BY <2>5, Zenon
    <3>3. Reads(cfg, q) = [bucket |-> {cfg.bucket}, key |-> {op.key}]
      BY <2>3, <3>2, Zenon
    <3>4. QED
      BY <2>5, <3>3, ServiceReadsIs, Zenon
  <2>8. SR!RedirectsStayContained'
    BY <2>4, <2>5, Zenon DEF SR!RedirectsStayContained
  <2>9. QED
    BY <1>3, <2>2, <2>6, <2>7, <2>8 DEF RequestInv
<1>4. QED
  BY <1>1, <1>2, <1>3, Zenon DEF SR!Sign

(* The bounds are numbers. *)
LEMMA RequestNumbers == MaxAttempts \in Nat /\ 0 < MaxAttempts /\ RequestHorizon \in Nat
<1>1. MaxAttempts \in Nat \ {0} /\ RequestHorizon \in Nat
  BY RequestConstants, Zenon
<1>2. QED
  BY <1>1

LEMMA NotAfterItself == \A n \in 0..RequestHorizon : n <= n
BY RequestNumbers

(* The records of a host and of a url, and a change of one field. *)
HostRecord(bucket, prefix, r, suffix, ip) ==
    [bucket |-> bucket, prefix |-> prefix, region |-> r, suffix |-> suffix, ip |-> ip]
WithBucket(host, bucket) == [host EXCEPT !.bucket = bucket]
WithRegion(host, r) == [host EXCEPT !.region = r]
UrlRecord(scheme, authority, path, query) ==
    [scheme |-> scheme, authority |-> authority, path |-> path, query |-> query]

LEMMA RecordFields ==
    /\ \A b, p, r, s, i, c : WithBucket(HostRecord(b, p, r, s, i), c) = HostRecord(c, p, r, s, i)
    /\ \A b, p, r, s, i, q : WithRegion(HostRecord(b, p, r, s, i), q) = HostRecord(b, p, q, s, i)
    /\ \A b, p, r, s, i : HostRecord(b, p, r, s, i).bucket = b
    /\ \A s, a, p, q, b : SR!with_authority(UrlRecord(s, a, p, q), b) = UrlRecord(s, b, p, q)
<1>1. ASSUME NEW b, NEW p, NEW r, NEW s, NEW i, NEW c
      PROVE  WithBucket(HostRecord(b, p, r, s, i), c) = HostRecord(c, p, r, s, i)
  BY DEF WithBucket, HostRecord
<1>2. ASSUME NEW b, NEW p, NEW r, NEW s, NEW i, NEW q
      PROVE  WithRegion(HostRecord(b, p, r, s, i), q) = HostRecord(b, p, q, s, i)
  BY DEF WithRegion, HostRecord
<1>3. ASSUME NEW b, NEW p, NEW r, NEW s, NEW i PROVE HostRecord(b, p, r, s, i).bucket = b
  BY DEF HostRecord
<1>4. ASSUME NEW s, NEW a, NEW p, NEW q, NEW b
      PROVE  SR!with_authority(UrlRecord(s, a, p, q), b) = UrlRecord(s, b, p, q)
  BY DEF SR!with_authority, UrlRecord
<1>5. QED
  BY <1>1, <1>2, <1>3, <1>4, Zenon

LEMMA HostIs ==
    ASSUME NEW e, NEW S, NEW B, NEW h \in [bucket : {e}, prefix : S, region : S, suffix : S, ip : B]
    PROVE  h = HostRecord(e, h.prefix, h.region, h.suffix, h.ip)
BY DEF HostRecord

(* The authority of another region of the same service. *)
LEMMA RedirectedIs ==
    ASSUME GivenInv, NEW hint, NEW a \in SR!RedirectedAuthority(hint)
    PROVE  AuthorityInv(a, hint)
<1> DEFINE host == cfg.endpoint.authority.host
           b == [host |-> SR!Host(host.prefix, hint, host.suffix, FALSE), port |-> {}]
<1>1. SR!ServiceNames = ServiceNames
  BY DEF ServiceNames, SR!ServiceNames
<1>2. a \in {IF cfg.style = "Path" THEN c ELSE [c EXCEPT !.host.bucket = cfg.bucket] :
               c \in SR!redirected_aws_authority(cfg.endpoint, hint)}
  BY Zenon DEF SR!RedirectedAuthority
<1>3. PICK c \in SR!redirected_aws_authority(cfg.endpoint, hint) :
         a = IF cfg.style = "Path" THEN c ELSE [c EXCEPT !.host.bucket = cfg.bucket]
  BY <1>2, Zenon
<1>4. cfg.endpoint.scheme = "https" /\ host.prefix \in ServiceNames /\ c = b
  BY <1>1 DEF SR!redirected_aws_authority
<1>5. host \in HostShape /\ ~host.ip
  BY <1>4, GivenFacts DEF EndpointShape
<1>6. host.ip = FALSE
  <2>1. host.ip \in BOOLEAN
    BY <1>5 DEF HostShape
  <2>2. QED
    BY <1>5, <2>1, Zenon
<1> DEFINE g == SR!Host(host.prefix, hint, host.suffix, FALSE)
           d == [g EXCEPT !.bucket = cfg.bucket]
<1>7. /\ [g EXCEPT !.bucket = <<>>] = [host EXCEPT !.region = hint]
      /\ d.bucket = cfg.bucket
      /\ [d EXCEPT !.bucket = <<>>] = [host EXCEPT !.region = hint]
  <2> DEFINE n == HostRecord(<<>>, host.prefix, hint, host.suffix, host.ip)
  <2>1. g = n
    BY <1>6, Zenon DEF SR!Host, HostRecord
  <2>2. host = HostRecord(<<>>, host.prefix, host.region, host.suffix, host.ip)
    BY <1>5, HostIs, Zenon DEF HostShape
  <2> HIDE DEF g, host
  <2>3. WithRegion(host, hint) = n
    BY <2>2, RecordFields
  <2>4. WithBucket(g, <<>>) = n
    BY <2>1, RecordFields
  <2>5. WithBucket(g, cfg.bucket) = HostRecord(cfg.bucket, host.prefix, hint, host.suffix, host.ip)
    BY <2>1, RecordFields
  <2>6. WithBucket(g, cfg.bucket).bucket = cfg.bucket /\ WithBucket(WithBucket(g, cfg.bucket), <<>>) = n
    BY <2>5, RecordFields
  <2> HIDE DEF n
  <2>7. QED
    BY <2>3, <2>4, <2>6, Zenon DEF WithBucket, WithRegion
<1>8. b.host = g
  OBVIOUS
<1>9. [b EXCEPT !.host.bucket = cfg.bucket].host = d
  OBVIOUS
<1> HIDE DEF g, d, b
<1>10. CASE cfg.style = "Path"
  <2>1. a.host = g
    BY <1>3, <1>4, <1>8, <1>10, Zenon
  <2>2. [a.host EXCEPT !.bucket = <<>>] = [host EXCEPT !.region = hint]
    BY <1>7, <2>1, Zenon
  <2>3. QED
    BY <1>4, <1>10, <2>2 DEF AuthorityInv
<1>11. CASE cfg.style # "Path"
  <2>1. a.host = d
    BY <1>3, <1>4, <1>9, <1>11, Zenon
  <2>2. a.host.bucket = cfg.bucket /\ [a.host EXCEPT !.bucket = <<>>] = [host EXCEPT !.region = hint]
    BY <1>7, <2>1, Zenon
  <2>3. QED
    BY <1>4, <2>2, Zenon DEF AuthorityInv
<1>12. QED
  BY <1>10, <1>11

LEMMA ErrorResponseInv ==
    ASSUME RequestInv, NEW status, NEW hint, SR!controlled_region_redirect(status, hint) \subseteq SigningRegions,
           SR!ErrorResponse(status, hint)
    PROVE  RequestInv'
<1>1. CASE SR!Fail("service")
  BY <1>1, FailInv
<1>2. ASSUME attempts < MaxAttempts, at = "sent", at' = "sign", answered' = clock,
             UNCHANGED <<clock, cfg, op, provider, target, region, redirected, attempts, wire, failure>>
      PROVE  RequestInv'
  <2>1. TargetInv /\ GivenInv /\ SR!TypeOK
    BY <1>2 DEF RequestInv
  <2>2. TargetInv'
    BY <1>2, <2>1, TargetKept
  <2>3. GivenInv' /\ SR!TypeOK' /\ attempts' < MaxAttempts /\ answered' <= clock'
    <3>1. GivenInv'
      BY <1>2, <2>1 DEF GivenInv
    <3>2. SR!TypeOK' /\ attempts' < MaxAttempts /\ answered' <= clock'
      <4>1. clock \in 0..RequestHorizon /\ attempts \in 0..MaxAttempts
        BY <2>1 DEF SR!TypeOK
      <4>2. answered' \in 0..RequestHorizon /\ answered' <= clock'
        BY <1>2, <4>1, NotAfterItself, Zenon
      <4>3. QED
        BY <1>2, <2>1, <4>2, Zenon DEF SR!TypeOK
    <3>3. QED
      BY <3>1, <3>2
  <2>4. QED
    BY <1>2, <2>2, <2>3, WireKept DEF RequestInv
<1>3. ASSUME at = "sent", attempts < MaxAttempts, SR!controlled_region_redirect(status, hint) # {},
             SR!FollowRedirect(hint)
      PROVE  RequestInv'
  <2>1. TargetInv /\ GivenInv /\ SR!TypeOK
    BY <1>3 DEF RequestInv
  <2>2. hint \in SigningRegions
    BY <1>3, Zenon DEF SR!controlled_region_redirect
  <2>3. PICK a \in SR!RedirectedAuthority(hint) : target' = SR!with_authority(target, a)
    BY <1>3, Zenon DEF SR!FollowRedirect
  <2>4. /\ region' = hint /\ redirected' = TRUE /\ at' = "sign" /\ answered' = clock
        /\ UNCHANGED <<clock, cfg, op, provider, attempts, wire, failure>>
    BY <1>3, Zenon DEF SR!FollowRedirect
  <2>5. AuthorityInv(a, hint)
    BY <2>1, RedirectedIs
  <2>6. target' = [target EXCEPT !.authority = a]
    BY <2>3, Zenon DEF SR!with_authority
  <2>7. target = [scheme |-> cfg.endpoint.scheme, authority |-> target.authority,
                 path |-> PathOf(cfg.endpoint.base_path, cfg.bucket, op.key, cfg.style = "VirtualHosted"),
                 query |-> canonical_query(op.query)]
    BY <2>1 DEF TargetInv
  <2>8. target' = [scheme |-> cfg.endpoint.scheme, authority |-> a,
                 path |-> PathOf(cfg.endpoint.base_path, cfg.bucket, op.key, cfg.style = "VirtualHosted"),
                 query |-> canonical_query(op.query)]
    <3> DEFINE s == cfg.endpoint.scheme
               b == target.authority
               p == PathOf(cfg.endpoint.base_path, cfg.bucket, op.key, cfg.style = "VirtualHosted")
               q == canonical_query(op.query)
               u == target
    <3>1. u = UrlRecord(s, b, p, q)
      BY <2>7, Zenon DEF UrlRecord
    <3>2. target' = SR!with_authority(u, a)
      BY <2>3, Zenon
    <3> HIDE DEF s, b, p, q, u
    <3>3. target' = UrlRecord(s, a, p, q)
      BY <3>1, <3>2, RecordFields
    <3>4. QED
      BY <3>3, Zenon DEF s, p, q, UrlRecord
  <2>9. target'.authority = a
    BY <2>8
  <2>10. cfg' = cfg /\ op' = op
    BY <2>4
  <2>11. TargetInv'
    <3>1. AuthorityInv(target.authority, region)'
      BY <2>4, <2>5, <2>9, <2>10, Zenon DEF AuthorityInv
    <3>2. (SR!Protected \cap DOMAIN op.headers = {} /\ validate_bucket_for_path(cfg.bucket))'
      BY <2>1, <2>10, Zenon DEF TargetInv
    <3>3. (target = [scheme |-> cfg.endpoint.scheme, authority |-> target.authority,
                 path |-> PathOf(cfg.endpoint.base_path, cfg.bucket, op.key, cfg.style = "VirtualHosted"),
                 query |-> canonical_query(op.query)])'
      BY <2>8, <2>9, <2>10, Zenon
    <3>4. QED
      BY <3>1, <3>2, <3>3, Zenon DEF TargetInv
  <2>12. GivenInv' /\ SR!TypeOK' /\ attempts' < MaxAttempts /\ answered' <= clock'
    <3>1. GivenInv'
      BY <2>1, <2>4 DEF GivenInv
    <3>2. SR!TypeOK' /\ attempts' < MaxAttempts /\ answered' <= clock'
      <4>1. attempts < MaxAttempts
        BY <1>3
      <4>2. clock \in 0..RequestHorizon
        BY <2>1 DEF SR!TypeOK
      <4>3. answered' \in 0..RequestHorizon /\ answered' <= clock'
        BY <2>4, <4>2, NotAfterItself, Zenon
      <4>4. QED
        BY <2>1, <2>2, <2>4, <4>1, <4>3, Zenon DEF SR!TypeOK
    <3>3. QED
      BY <3>1, <3>2
  <2>13. QED
    BY <2>4, <2>11, <2>12, WireKept DEF RequestInv
<1>4. QED
  BY <1>1, <1>2, <1>3, Zenon DEF SR!ErrorResponse

(* Every step of a request preserves it. *)
LEMMA RequestStepInv ==
    ASSUME RequestInv, SR!Next
    PROVE  RequestInv'
<1>1. CASE SR!Build
  BY <1>1, BuildInv
<1>2. CASE SR!Sign
  BY <1>2, SignInv
<1>3. CASE SR!Succeed
  <2>1. at' = "done" /\ UNCHANGED <<clock, cfg, op, provider, target, region, redirected, attempts, answered, wire, failure>>
    BY <1>3 DEF SR!Succeed
  <2>2. SR!TypeOK' /\ GivenInv' /\ answered' <= clock'
    BY <2>1 DEF RequestInv, SR!TypeOK, GivenInv
  <2>3. QED
    BY <2>1, <2>2, WireKept DEF RequestInv
<1>4. CASE SR!Rotate
  <2>1. /\ provider' \in {{}} \cup {{i} : i \in RequestIdentities}
        /\ UNCHANGED <<clock, cfg, op, at, target, region, redirected, attempts, answered, wire, failure>>
    BY <1>4 DEF SR!Rotate
  <2>2. SR!TypeOK' /\ answered' <= clock' /\ (at' \in {"build", "sign"} => attempts' < MaxAttempts)
    BY <2>1 DEF RequestInv, SR!TypeOK
  <2>3. GivenInv'
    BY <2>1 DEF RequestInv, GivenInv
  <2>4. at' \in {"sign", "sent"} => TargetInv'
    BY <2>1, TargetKept DEF RequestInv
  <2>5. QED
    BY <2>1, <2>2, <2>3, <2>4, WireKept DEF RequestInv
<1>5. CASE SR!Tick
  <2>1. /\ clock < RequestHorizon /\ clock' = clock + 1
        /\ UNCHANGED <<cfg, op, provider, at, target, region, redirected, attempts, answered, wire, failure>>
    BY <1>5 DEF SR!Tick
  <2>2. SR!TypeOK' /\ answered' <= clock' /\ (at' \in {"build", "sign"} => attempts' < MaxAttempts)
    BY <2>1, RequestNumbers DEF RequestInv, SR!TypeOK
  <2>3. GivenInv'
    BY <2>1 DEF RequestInv, GivenInv
  <2>4. at' \in {"sign", "sent"} => TargetInv'
    BY <2>1, TargetKept DEF RequestInv
  <2>5. QED
    BY <2>1, <2>2, <2>3, <2>4, WireKept DEF RequestInv
<1>6. ASSUME NEW status \in ErrorStatuses, NEW hint \in SigningRegions \cup {""}, SR!ErrorResponse(status, hint)
      PROVE  RequestInv'
  <2>1. SR!controlled_region_redirect(status, hint) \subseteq SigningRegions
    BY Zenon DEF SR!controlled_region_redirect
  <2>2. QED
    BY <1>6, <2>1, ErrorResponseInv, Zenon
<1>7. QED
  BY <1>1, <1>2, <1>3, <1>4, <1>5, <1>6, Zenon DEF SR!Next

LEMMA RequestInitInv == SR!Init => RequestInv
<1> SUFFICES ASSUME SR!Init PROVE RequestInv
  OBVIOUS
<1>1. SR!TypeOK
  <2>1. cfg.region \in SigningRegions
    BY DEF SR!Init
  <2>2. clock = 0 /\ at = "build" /\ region = cfg.region /\ redirected = FALSE /\ attempts = 0 /\ answered = 0 /\ failure = "none"
    BY DEF SR!Init
  <2>3. clock \in 0..RequestHorizon
    BY <2>1, <2>2, RequestNumbers
  <2>4. attempts \in 0..MaxAttempts
    BY <2>1, <2>2, RequestNumbers
  <2>5. answered \in 0..RequestHorizon
    BY <2>1, <2>2, RequestNumbers
  <2>6. redirected \in BOOLEAN
    BY <2>1, <2>2, Zenon
  <2>7. QED
    BY <2>1, <2>2, <2>3, <2>4, <2>5, <2>6, Zenon DEF SR!TypeOK
<1>2. GivenInv
  <2>1. SR!AddressingStyles = AddressingStyles
    BY DEF AddressingStyles, SR!AddressingStyles
  <2>2. QED
    BY <2>1 DEF SR!Init, GivenInv
<1>3. attempts < MaxAttempts /\ answered <= clock /\ at = "build" /\ wire = {}
  BY RequestNumbers DEF SR!Init
<1>4. SR!SentRequestsVerify /\ SR!SentRequestsNameTheObject /\ SR!RedirectsStayContained
  BY <1>3, Zenon DEF SR!SentRequestsVerify, SR!SentRequestsNameTheObject, SR!RedirectsStayContained
<1>5. QED
  BY <1>1, <1>2, <1>3, <1>4 DEF RequestInv

(* The invariant of the composition, where a request is made. *)
LEMMA RequestSceneInv == Scenes => [](scene = "request" => RequestInv)
<1> DEFINE I == scene = "request" => RequestInv
<1>1. ScenesInit => I
  BY RequestInitInv DEF ScenesInit
<1>2. I /\ [ScenesNext]_all => I'
  <2>1. SUFFICES ASSUME I, [ScenesNext]_all, scene' = "request" PROVE RequestInv'
    OBVIOUS
  <2>2. scene = "request" /\ RequestInv
    BY <2>1 DEF ScenesNext, all
  <2>3. CASE ScenesNext
    BY <2>2, <2>3, RequestStepInv DEF ScenesNext
  <2>4. CASE UNCHANGED all
    <3>1. UNCHANGED <<clock, at, cfg, failure, op, provider, target, region, redirected, attempts, answered, wire>>
      BY <2>4 DEF all, both, request
    <3>2. SR!TypeOK' /\ GivenInv' /\ answered' <= clock' /\ (at' \in {"build", "sign"} => attempts' < MaxAttempts)
      BY <2>2, <3>1 DEF RequestInv, SR!TypeOK, GivenInv
    <3>3. at' \in {"sign", "sent"} => TargetInv'
      BY <2>2, <3>1, TargetKept DEF RequestInv
    <3>4. QED
      BY <2>2, <3>1, <3>2, <3>3, WireKept DEF RequestInv
  <2>5. QED
    BY <2>1, <2>3, <2>4
<1>3. QED
  BY <1>1, <1>2, PTL DEF Scenes

(* For any endpoints, buckets, keys, queries and header values: the service  *)
(* finds in every request that is sent the signature it computes itself, and *)
(* the object that was meant, at the configured host or at that of another   *)
(* region of the same service.                                               *)
THEOREM SentAreAccepted == Scenes => []SentRequestsAreAccepted
<1>1. (scene = "request" => RequestInv) => SentRequestsAreAccepted
  BY DEF RequestInv, SentRequestsAreAccepted
<1>2. QED
  BY <1>1, RequestSceneInv, PTL

(* For any rotation of the credentials and any waiting between attempts:     *)
(* every attempt is signed with what is current when it is signed, and       *)
(* signing fails only for a malformed access key or base path.               *)
THEOREM AttemptsAreFresh == Scenes => AttemptsAreSignedAfresh
<1> DEFINE I == scene = "request" => RequestInv
           A == scene = "request" => SR!SignedAfresh /\ SR!RefusedForConfiguration
<1>1. I /\ [ScenesNext]_all => [A]_<<both, request>>
  <2>1. SUFFICES ASSUME I, ScenesNext, scene = "request" PROVE SR!SignedAfresh /\ SR!RefusedForConfiguration
    BY DEF all
  <2>2. RequestInv /\ SR!Next
    BY <2>1 DEF ScenesNext
  <2>3. SR!SignedAfresh
    <3>1. SUFFICES ASSUME attempts' # attempts, NEW r \in wire'
          PROVE  /\ r.date >= answered
                 /\ \E i \in RequestIdentities : i.key = r.key /\ i.token = r.token /\ i.expires > r.date
      BY Zenon DEF SR!SignedAfresh
    <3>2. SR!Sign
      BY <2>2, <3>1 DEF SR!Next, SR!Build, SR!Succeed, SR!Rotate, SR!Tick, SR!ErrorResponse, SR!FollowRedirect, SR!Fail
    <3>3. PICK i \in provider : ~(i.expires <= clock) /\ wire' = {SR!SignedWire(target, i, region)}
      BY <3>1, <3>2 DEF SR!Sign, SR!Fail
    <3>4. r.date = clock /\ r.key = i.key /\ r.token = i.token
      BY <3>1, <3>3 DEF SR!SignedWire
    <3>5. i \in RequestIdentities /\ i.expires \in Nat /\ clock \in Nat /\ answered \in Nat /\ answered <= clock
      <4>1. SR!TypeOK /\ answered <= clock
        BY <2>2 DEF RequestInv
      <4>2. i \in RequestIdentities
        BY <2>2, <3>3 DEF RequestInv, GivenInv
      <4>3. i.expires \in Nat
        BY <4>2, RequestConstants, Zenon
      <4>4. QED
        BY <4>1, <4>2, <4>3, RequestNumbers DEF SR!TypeOK
    <3>6. QED
      BY <3>3, <3>4, <3>5
  <2>4. SR!RefusedForConfiguration
    <3>1. SUFFICES ASSUME failure' = "signing", failure = "none"
          PROVE (\E i \in provider : ~i.wellformed) \/ ~SR!WellEncoded(cfg.endpoint.base_path)
      BY Zenon DEF SR!RefusedForConfiguration
    <3>2. SR!Sign
      BY <2>2, <3>1 DEF SR!Next, SR!Build, SR!Succeed, SR!Rotate, SR!Tick, SR!ErrorResponse, SR!FollowRedirect, SR!Fail
    <3>3. PICK i \in provider : SR!SigningRefused(i, op.headers)
      BY <3>1, <3>2 DEF SR!Sign, SR!Fail
    <3>4. TargetInv /\ GivenInv
      BY <2>2, <3>2 DEF SR!Sign, RequestInv
    <3>5. {"authorization", "x-amz-date", "x-amz-security-token", "host"} \cap DOMAIN op.headers = {}
      BY <3>4 DEF TargetInv, SR!Protected
    <3>6. CASE SR!canonical_uri_from_encoded(target.path) = {}
      <4>1. canonical_uri_from_encoded(target.path) = {}
        BY <3>6, SRDecode, Zenon
      <4>2. ~WellEncoded(target.path)
        BY <4>1 DEF canonical_uri_from_encoded
      <4>3. QED
        BY <3>4, <4>2, TargetPath, SRBytes, Zenon
    <3>7. QED
      BY <3>3, <3>5, <3>6, Zenon DEF SR!SigningRefused
  <2>5. QED
    BY <2>3, <2>4
<1>2. QED
  BY <1>1, RequestSceneInv, PTL DEF Scenes, AttemptsAreSignedAfresh
-------------------------------------------------------------------------------
(* Presigning has copies of the operators; they are the same. *)

LEMMA PSBytes ==
    /\ PS!SLASH = SLASH /\ PS!Unreserved = Unreserved
    /\ \A path : PS!WellEncoded(path) <=> WellEncoded(path)
    /\ \A path : PS!Rooted(path) <=> Rooted(path)
    /\ PS!EndpointShape = EndpointShape
    /\ PS!HostShape = HostShape
<1>1. PS!SLASH = SLASH /\ PS!Unreserved = Unreserved
  BY DEF SLASH, PS!SLASH, PERCENT, PS!PERCENT, Unreserved, PS!Unreserved, Alphanumeric, PS!Alphanumeric, Digits, PS!Digits, Upper, PS!Upper, Lower, PS!Lower
<1>2. \A path : PS!WellEncoded(path) <=> WellEncoded(path)
  BY DEF WellEncoded, PS!WellEncoded, PERCENT, PS!PERCENT, HexDigits, PS!HexDigits, Digits, PS!Digits
<1>3. \A path : PS!Rooted(path) <=> Rooted(path)
  BY DEF Rooted, PS!Rooted, SLASH, PS!SLASH, Last, PS!Last
<1>4. PS!EndpointShape = EndpointShape /\ PS!HostShape = HostShape
  BY Zenon DEF EndpointShape, PS!EndpointShape, HostShape, PS!HostShape, ServiceNames, PS!ServiceNames
<1>5. QED
  BY <1>1, <1>2, <1>3, <1>4

LEMMA PSEncode == \A s, slash : PS!aws_uri_encode(s, slash) = aws_uri_encode(s, slash)
BY DEF aws_uri_encode, PS!aws_uri_encode, SLASH, PS!SLASH, PERCENT, PS!PERCENT, Unreserved, PS!Unreserved, Alphanumeric, PS!Alphanumeric, Digits, PS!Digits, Upper, PS!Upper, Lower, PS!Lower, push_percent_encoded, PS!push_percent_encoded, HexDigit, PS!HexDigit, FlattenSeq, PS!FlattenSeq

LEMMA PSUrl ==
    \A endpoint, bucket, key, style :
        PS!object_url(endpoint, bucket, key, style) = object_url(endpoint, bucket, key, style)
<1>1. \A bucket : PS!validate_bucket_for_path(bucket) <=> validate_bucket_for_path(bucket)
  BY Zenon DEF validate_bucket_for_path, PS!validate_bucket_for_path, SLASH, PS!SLASH
<1>2. \A bucket : PS!validate_virtual_host_bucket(bucket) <=> validate_virtual_host_bucket(bucket)
  BY Zenon DEF validate_virtual_host_bucket, PS!validate_virtual_host_bucket, HYPHEN, PS!HYPHEN, DOT, PS!DOT, Lower, PS!Lower, Digits, PS!Digits, DottedQuad, PS!DottedQuad, Fields, PS!Fields, Front, PS!Front, Last, PS!Last
<1>3. \A endpoint, bucket, style : PS!Authority(endpoint, bucket, style) = Authority(endpoint, bucket, style)
  BY Zenon DEF Authority, PS!Authority
<1>4. \A s : PS!Last(s) = Last(s) /\ PS!Front(s) = Front(s)
  BY Zenon DEF Last, PS!Last, Front, PS!Front
<1>5. ASSUME NEW endpoint, NEW bucket, NEW key, NEW style
      PROVE PS!object_url(endpoint, bucket, key, style) = object_url(endpoint, bucket, key, style)
  BY <1>1, <1>2, <1>3, <1>4, PSBytes, PSEncode DEF object_url, PS!object_url
<1>6. QED
  BY <1>5, Zenon

LEMMA PSDecode ==
    /\ \A s : PS!decode_url_field(s) = decode_url_field(s)
    /\ \A s, kept : PS!ServiceEncode(s, kept) = ServiceEncode(s, kept)
    /\ \A s : PS!canonical_uri_from_encoded(s) = canonical_uri_from_encoded(s)
    /\ \A path : PS!Minimal(path) <=> Minimal(path)
    /\ PS!Byte = Byte
<1>1. \A s : PS!decode_url_field(s) = decode_url_field(s)
  BY DEF decode_url_field, PS!decode_url_field, WellEncoded, PS!WellEncoded, HexDigits, PS!HexDigits, PERCENT, PS!PERCENT, InTriplet, PS!InTriplet, hex_value, PS!hex_value, Digits, PS!Digits, Upper, PS!Upper, FlattenSeq, PS!FlattenSeq
<1>2. \A s, kept : PS!ServiceEncode(s, kept) = ServiceEncode(s, kept)
  BY Zenon DEF ServiceEncode, PS!ServiceEncode, PERCENT, PS!PERCENT, HexDigit, PS!HexDigit, FlattenSeq, PS!FlattenSeq
<1>3. \A s : PS!canonical_uri_from_encoded(s) = canonical_uri_from_encoded(s)
  BY DEF canonical_uri_from_encoded, PS!canonical_uri_from_encoded, WellEncoded, PS!WellEncoded, HexDigits, PS!HexDigits, InTriplet, PS!InTriplet, hex_value, PS!hex_value, SLASH, PS!SLASH, PERCENT, PS!PERCENT, push_percent_encoded, PS!push_percent_encoded, HexDigit, PS!HexDigit, FlattenSeq, PS!FlattenSeq,
     Digits, PS!Digits, Upper, PS!Upper, Unreserved, PS!Unreserved, Alphanumeric, PS!Alphanumeric, Lower, PS!Lower
<1>4. \A path : PS!Minimal(path) <=> Minimal(path)
  BY Zenon DEF Minimal, PS!Minimal, hex_value, PS!hex_value, SLASH, PS!SLASH, PERCENT, PS!PERCENT, Unreserved, PS!Unreserved, Alphanumeric, PS!Alphanumeric, Digits, PS!Digits, Upper, PS!Upper, Lower, PS!Lower
<1>5. PS!Byte = Byte
  BY DEF Byte, PS!Byte
<1>6. QED
  BY <1>1, <1>2, <1>3, <1>4, <1>5, Zenon

LEMMA PSQuery ==
    /\ \A ps : PS!canonical_query(ps) = canonical_query(ps)
    /\ \A s : PS!ServiceParameters(s) = ServiceParameters(s)
    /\ \A s, ps : PS!IsCanonicalQuery(s, ps) <=> IsCanonicalQuery(s, ps)
<1>1. \A s : PS!sort_unstable(s) = sort_unstable(s)
  BY Zenon DEF sort_unstable, PS!sort_unstable, Inserted, PS!Inserted, PairBefore, PS!PairBefore, Before, PS!Before
<1>2. \A s, c : PS!Fields(s, c) = Fields(s, c)
  BY Zenon DEF Fields, PS!Fields, Front, PS!Front, Last, PS!Last
<1>3. PS!AND = AND /\ PS!EQUALS = EQUALS
  BY DEF AND, PS!AND, EQUALS, PS!EQUALS
<1>4. \A ps : PS!QueryPair(ps) = QueryPair(ps)
  BY Zenon DEF QueryPair, PS!QueryPair, EQUALS, PS!EQUALS
<1>5. \A ps, c : PS!Joined(ps, c) = Joined(ps, c)
  BY Zenon DEF Joined, PS!Joined, FlattenSeq, PS!FlattenSeq
<1>6. ASSUME NEW ps PROVE PS!canonical_query(ps) = canonical_query(ps)
  <2> DEFINE e == [i \in DOMAIN ps |-> <<aws_uri_encode(ps[i][1], TRUE), aws_uri_encode(ps[i][2], TRUE)>>]
             f == [i \in DOMAIN ps |-> <<PS!aws_uri_encode(ps[i][1], TRUE), PS!aws_uri_encode(ps[i][2], TRUE)>>]
             s == sort_unstable(e)
  <2>1. e = f
    BY PSEncode, Zenon
  <2>2. PS!canonical_query(ps) = PS!Joined([i \in DOMAIN PS!sort_unstable(f) |-> PS!QueryPair(PS!sort_unstable(f)[i])], PS!AND)
    BY Zenon DEF PS!canonical_query
  <2>3. canonical_query(ps) = Joined([i \in DOMAIN s |-> QueryPair(s[i])], AND)
    BY Zenon DEF canonical_query
  <2> HIDE DEF e, f
  <2>4. PS!sort_unstable(f) = s
    BY <1>1, <2>1, Zenon
  <2> HIDE DEF s
  <2>5. [i \in DOMAIN s |-> PS!QueryPair(s[i])] = [i \in DOMAIN s |-> QueryPair(s[i])]
    BY <1>4, Zenon
  <2>6. QED
    BY <1>3, <1>5, <2>2, <2>3, <2>4, <2>5, Zenon
<1>7. \A s : PS!ServiceParameters(s) = ServiceParameters(s)
  BY <1>2, <1>3, PSDecode, Zenon DEF ServiceParameters, PS!ServiceParameters
<1>8. \A s : PS!ToSet(s) = ToSet(s)
  BY Zenon DEF ToSet, PS!ToSet
<1>9. \A s : PS!Cardinality(s) = Cardinality(s)
  BY Zenon DEF Cardinality, PS!Cardinality
<1>10. \A p, q : PS!PairBefore(p, q) <=> PairBefore(p, q)
  BY Zenon DEF PairBefore, PS!PairBefore, Before, PS!Before
<1>11. ASSUME NEW s, NEW ps PROVE PS!IsCanonicalQuery(s, ps) <=> IsCanonicalQuery(s, ps)
  <2> DEFINE a == IF s = <<>> THEN <<>> ELSE [i \in DOMAIN Fields(s, AND) |-> Fields(Fields(s, AND)[i], EQUALS)]
             b == IF s = <<>> THEN <<>> ELSE [i \in DOMAIN PS!Fields(s, PS!AND) |-> PS!Fields(PS!Fields(s, PS!AND)[i], PS!EQUALS)]
             c == [i \in DOMAIN ps |-> <<ServiceEncode(ps[i][1], Unreserved), ServiceEncode(ps[i][2], Unreserved)>>]
             d == [i \in DOMAIN ps |-> <<PS!ServiceEncode(ps[i][1], PS!Unreserved), PS!ServiceEncode(ps[i][2], PS!Unreserved)>>]
  <2>1. a = b
    BY <1>2, <1>3, Zenon
  <2>2. PS!Unreserved = Unreserved /\ \A x, kept : PS!ServiceEncode(x, kept) = ServiceEncode(x, kept)
    BY PSDecode, PSBytes, Zenon
  <2>3. c = d
    BY <2>2, Zenon
  <2>4. PS!IsCanonicalQuery(s, ps) <=>
          /\ \A pair \in PS!ToSet(b) \cup PS!ToSet(d) :
                PS!Cardinality({i \in DOMAIN b : b[i] = pair}) = PS!Cardinality({i \in DOMAIN d : d[i] = pair})
          /\ \A i \in 1..(Len(b) - 1) : b[i] = b[i + 1] \/ PS!PairBefore(b[i], b[i + 1])
    BY Zenon DEF PS!IsCanonicalQuery
  <2>5. IsCanonicalQuery(s, ps) <=>
          /\ \A pair \in ToSet(a) \cup ToSet(c) :
                Cardinality({i \in DOMAIN a : a[i] = pair}) = Cardinality({i \in DOMAIN c : c[i] = pair})
          /\ \A i \in 1..(Len(a) - 1) : a[i] = a[i + 1] \/ PairBefore(a[i], a[i + 1])
    BY Zenon DEF IsCanonicalQuery
  <2> HIDE DEF a, b, c, d
  <2>6. PS!ToSet(b) = ToSet(a) /\ PS!ToSet(d) = ToSet(c)
    BY <1>8, <2>1, <2>3, Zenon
  <2>7. \A pair : PS!Cardinality({i \in DOMAIN b : b[i] = pair}) = Cardinality({i \in DOMAIN a : a[i] = pair})
    BY <1>9, <2>1, Zenon
  <2>8. \A pair : PS!Cardinality({i \in DOMAIN d : d[i] = pair}) = Cardinality({i \in DOMAIN c : c[i] = pair})
    BY <1>9, <2>3, Zenon
  <2>9. (\A i \in 1..(Len(b) - 1) : b[i] = b[i + 1] \/ PS!PairBefore(b[i], b[i + 1]))
          <=> (\A i \in 1..(Len(a) - 1) : a[i] = a[i + 1] \/ PairBefore(a[i], a[i + 1]))
    BY <1>10, <2>1, Zenon
  <2>10. (\A pair \in PS!ToSet(b) \cup PS!ToSet(d) :
             PS!Cardinality({i \in DOMAIN b : b[i] = pair}) = PS!Cardinality({i \in DOMAIN d : d[i] = pair}))
          <=> (\A pair \in ToSet(a) \cup ToSet(c) :
             Cardinality({i \in DOMAIN a : a[i] = pair}) = Cardinality({i \in DOMAIN c : c[i] = pair}))
    BY <2>6, <2>7, <2>8, Zenon
  <2>11. QED
    BY <2>4, <2>5, <2>9, <2>10, Zenon
<1>12. QED
  BY <1>6, <1>7, <1>11, Zenon

-------------------------------------------------------------------------------
(* ClientConfig has copies of the operators; they are the same. *)

LEMMA CFBytes ==
    /\ CF!SLASH = SLASH /\ CF!Unreserved = Unreserved
    /\ \A path : CF!WellEncoded(path) <=> WellEncoded(path)
    /\ \A path : CF!Rooted(path) <=> Rooted(path)
    /\ CF!EndpointShape = EndpointShape
    /\ CF!HostShape = HostShape
<1>1. CF!SLASH = SLASH /\ CF!Unreserved = Unreserved
  BY DEF SLASH, CF!SLASH, PERCENT, CF!PERCENT, Unreserved, CF!Unreserved, Alphanumeric, CF!Alphanumeric, Digits, CF!Digits, Upper, CF!Upper, Lower, CF!Lower
<1>2. \A path : CF!WellEncoded(path) <=> WellEncoded(path)
  BY DEF WellEncoded, CF!WellEncoded, PERCENT, CF!PERCENT, HexDigits, CF!HexDigits, Digits, CF!Digits
<1>3. \A path : CF!Rooted(path) <=> Rooted(path)
  BY DEF Rooted, CF!Rooted, SLASH, CF!SLASH, Last, CF!Last
<1>4. CF!EndpointShape = EndpointShape /\ CF!HostShape = HostShape
  BY Zenon DEF EndpointShape, CF!EndpointShape, HostShape, CF!HostShape, ServiceNames, CF!ServiceNames
<1>5. QED
  BY <1>1, <1>2, <1>3, <1>4

LEMMA CFEncode == \A s, slash : CF!aws_uri_encode(s, slash) = aws_uri_encode(s, slash)
BY DEF aws_uri_encode, CF!aws_uri_encode, SLASH, CF!SLASH, PERCENT, CF!PERCENT, Unreserved, CF!Unreserved, Alphanumeric, CF!Alphanumeric, Digits, CF!Digits, Upper, CF!Upper, Lower, CF!Lower, push_percent_encoded, CF!push_percent_encoded, HexDigit, CF!HexDigit, FlattenSeq, CF!FlattenSeq

LEMMA CFUrl ==
    \A endpoint, bucket, key, style :
        CF!object_url(endpoint, bucket, key, style) = object_url(endpoint, bucket, key, style)
<1>1. \A bucket : CF!validate_bucket_for_path(bucket) <=> validate_bucket_for_path(bucket)
  BY Zenon DEF validate_bucket_for_path, CF!validate_bucket_for_path, SLASH, CF!SLASH
<1>2. \A bucket : CF!validate_virtual_host_bucket(bucket) <=> validate_virtual_host_bucket(bucket)
  BY Zenon DEF validate_virtual_host_bucket, CF!validate_virtual_host_bucket, HYPHEN, CF!HYPHEN, DOT, CF!DOT, Lower, CF!Lower, Digits, CF!Digits, DottedQuad, CF!DottedQuad, Fields, CF!Fields, Front, CF!Front, Last, CF!Last
<1>3. \A endpoint, bucket, style : CF!Authority(endpoint, bucket, style) = Authority(endpoint, bucket, style)
  BY Zenon DEF Authority, CF!Authority
<1>4. \A s : CF!Last(s) = Last(s) /\ CF!Front(s) = Front(s)
  BY Zenon DEF Last, CF!Last, Front, CF!Front
<1>5. ASSUME NEW endpoint, NEW bucket, NEW key, NEW style
      PROVE CF!object_url(endpoint, bucket, key, style) = object_url(endpoint, bucket, key, style)
  BY <1>1, <1>2, <1>3, <1>4, CFBytes, CFEncode DEF object_url, CF!object_url
<1>6. QED
  BY <1>5, Zenon
-------------------------------------------------------------------------------
(* A client's handles. *)

(* An endpoint that Endpoint::new has made. *)
GoodEndpoint(e) ==
    /\ e.scheme \in {"https", "http"}
    /\ e.base_path \in Seq(Byte) /\ Rooted(e.base_path)
    /\ \A bucket : [e.authority EXCEPT !.host.bucket = bucket].host.bucket = bucket

LEMMA ConfigConstants ==
    /\ ClientBuckets \subseteq Seq(Byte) /\ ClientKeys \subseteq Seq(Byte)
    /\ \A input \in EndpointInputs :
          /\ input.host \in HostShape
          /\ input.base \in Seq(Byte) /\ (input.base # <<>> => input.base[1] = SLASH)
    /\ Timeouts \subseteq Nat /\ MaxSetters \in Nat /\ MaxHandles \in Nat
<1>1. CF!ConfigAssumption
  BY SigningAssumption, Zenon
<1>2. Byte = 0..255
  BY DEF Byte
<1>3. QED
  BY <1>1, <1>2, CFBytes, Zenon DEF CF!ConfigAssumption

(* A path gets its last slash. *)
LEMMA RootedByAppend ==
    ASSUME NEW base \in Seq(Byte), base # <<>> => base[1] = SLASH
    PROVE  Append(base, SLASH) \in Seq(Byte) /\ Rooted(Append(base, SLASH))
<1> DEFINE path == Append(base, SLASH)
<1>1. SLASH \in Byte
  BY KeptBytes, Zenon
<1>2. path \in Seq(Byte) /\ Len(path) = Len(base) + 1 /\ Len(base) \in Nat /\ path[Len(base) + 1] = SLASH
  BY <1>1
<1>3. path # <<>>
  BY <1>2
<1>4. path[1] = SLASH
  <2>1. CASE base = <<>>
    BY <1>2, <2>1
  <2>2. CASE base # <<>>
    <3>1. Len(base) # 0
      BY <2>2, EmptySeq, Zenon
    <3>2. path[1] = base[1]
      BY <1>1, <3>1
    <3>3. QED
      BY <2>2, <3>2, Zenon
  <2>3. QED
    BY <2>1, <2>2
<1>5. Last(path) = SLASH
  BY <1>2 DEF Last
<1>6. QED
  BY <1>2, <1>3, <1>4, <1>5, Zenon DEF Rooted

(* The host of an endpoint has a place for a bucket. *)
LEMMA BucketOfHost ==
    ASSUME NEW h, "bucket" \in DOMAIN h, NEW p, NEW b
    PROVE  [[host |-> h, port |-> p] EXCEPT !.host.bucket = b].host.bucket = b
OBVIOUS

LEMMA EndpointNewIsGood ==
    ASSUME NEW input, "bucket" \in DOMAIN input.host,
           input.base \in Seq(Byte), input.base # <<>> => input.base[1] = SLASH,
           NEW e \in CF!EndpointNew(input)
    PROVE  GoodEndpoint(e)
<1> DEFINE base == IF input.base # <<>> /\ CF!Last(input.base) = CF!SLASH
                   THEN input.base ELSE Append(input.base, CF!SLASH)
           a == [host |-> input.host, port |-> input.port]
<1>1. /\ input.scheme \in {"https", "http"}
      /\ e = [scheme |-> input.scheme, authority |-> a, base_path |-> base]
  BY Zenon DEF CF!EndpointNew
<1>2. base \in Seq(Byte) /\ Rooted(base)
  <2>1. CF!SLASH = SLASH /\ CF!Last(input.base) = Last(input.base)
    BY CFBytes, Zenon DEF Last, CF!Last
  <2>2. CASE input.base # <<>> /\ Last(input.base) = SLASH
    <3>1. base = input.base
      BY <2>1, <2>2, Zenon
    <3> HIDE DEF base
    <3>2. QED
      BY <2>2, <3>1, Zenon DEF Rooted
  <2>3. CASE ~(input.base # <<>> /\ Last(input.base) = SLASH)
    <3>1. base = Append(input.base, SLASH)
      BY <2>1, <2>3, Zenon
    <3> HIDE DEF base
    <3>2. QED
      BY <3>1, RootedByAppend, Zenon
  <2>4. QED
    BY <2>2, <2>3, Zenon
<1> HIDE DEF base
<1>3. \A bucket : [a EXCEPT !.host.bucket = bucket].host.bucket = bucket
  BY BucketOfHost
<1> HIDE DEF a
<1>4. e.scheme = input.scheme /\ e.authority = a /\ e.base_path = base
  BY <1>1
<1>5. QED
  BY <1>1, <1>2, <1>3, <1>4, Zenon DEF GoodEndpoint

(* The endpoints a builder can be given. *)
LEMMA GivenEndpoints ==
    /\ \A input \in EndpointInputs : \A e \in CF!EndpointNew(input) : GoodEndpoint(e)
    /\ \A r, p, c : \A e \in CF!for_aws_region_variant(r, p, c) : GoodEndpoint(e)
    /\ GoodEndpoint(CF!DefaultEndpoint)
<1>1. ASSUME NEW input \in EndpointInputs, NEW e \in CF!EndpointNew(input) PROVE GoodEndpoint(e)
  <2>1. input.host \in HostShape
    BY ConfigConstants, Zenon
  <2>2. "bucket" \in DOMAIN input.host
    BY <2>1 DEF HostShape
  <2>3. QED
    BY <2>2, ConfigConstants, EndpointNewIsGood, Zenon
<1>2. ASSUME NEW r, NEW p, NEW s, NEW e \in CF!EndpointNew(
          [scheme |-> "https", userinfo |-> FALSE, query |-> FALSE, host |-> CF!Host(p, r, s, FALSE), port |-> {}, base |-> <<>>])
      PROVE  GoodEndpoint(e)
  <2> DEFINE input == [scheme |-> "https", userinfo |-> FALSE, query |-> FALSE, host |-> CF!Host(p, r, s, FALSE),
                       port |-> {}, base |-> <<>>]
  <2>1. input.base = <<>> /\ "bucket" \in DOMAIN input.host
    BY DEF CF!Host
  <2> HIDE DEF input
  <2>2. input.base \in Seq(Byte)
    BY <2>1, Strings, Zenon
  <2>3. e \in CF!EndpointNew(input)
    BY <1>2, Zenon DEF input
  <2>4. QED
    BY <2>1, <2>2, <2>3, EndpointNewIsGood, Zenon
<1>3. ASSUME NEW r, NEW p, NEW c, NEW e \in CF!for_aws_region_variant(r, p, c) PROVE GoodEndpoint(e)
  BY <1>2, Zenon DEF CF!for_aws_region_variant
<1>4. GoodEndpoint(CF!DefaultEndpoint)
  <2> DEFINE input == [scheme |-> "https", userinfo |-> FALSE, query |-> FALSE,
                       host |-> CF!Host("s3", "", "amazonaws.com", FALSE), port |-> {}, base |-> <<>>]
  <2>1. CF!EndpointNew(input) # {}
    <3>1. input.scheme = "https" /\ input.userinfo = FALSE /\ input.query = FALSE
      BY Zenon
    <3> HIDE DEF input
    <3>2. QED
      BY <3>1, Zenon DEF CF!EndpointNew
  <2>2. CF!DefaultEndpoint \in CF!EndpointNew(input)
    BY <2>1, Zenon DEF CF!DefaultEndpoint
  <2>3. QED
    BY <1>2, <2>2, Zenon
<1>5. QED
  BY <1>1, <1>3, <1>4, Zenon

AtMostOne(buckets) == buckets \subseteq ClientBuckets /\ \A b, c \in buckets : b = c

(* The builder: allow_http is only there when it was asked for. *)
BuilderInv ==
    /\ CF!TypeOK
    /\ GoodEndpoint(builder.endpoint)
    /\ AtMostOne(builder.bucket)
    /\ builder.allow_http => opted

(* The handles of a client with endpoint e, region r, style s and timeouts t. *)
HandleOf(e, r, b, s, t) ==
    [endpoint |-> e, region |-> r, bucket |-> b, style |-> s, timeout |-> t,
     transport |-> [allow_http |-> e.scheme # "https"]]

Allowed(e, s) == {b \in ClientBuckets : object_url(e, b, <<>>, s) # {}}

HandleSet(e, r, s, t) == {HandleOf(e, r, b, s, t) : b \in Allowed(e, s)}

HandlesInv ==
    handles = <<>> \/ \E e, r, s, t :
        /\ GoodEndpoint(e) /\ (e.scheme = "https" \/ opted)
        /\ handles \in Seq(HandleSet(e, r, s, t))

(* The inductive invariant of a builder and its handles. *)
ConfigInv == BuilderInv /\ HandlesInv /\ CF!PlainHttpIsOptedIn

ForBucket(h, bucket) == [h EXCEPT !.bucket = bucket]

IsHandle(h, e, r, b, s, t) ==
    /\ h.endpoint = e /\ h.bucket = b /\ h.style = s
    /\ h.transport = [allow_http |-> e.scheme # "https"]
    /\ \A c : ForBucket(h, c) = HandleOf(e, r, c, s, t)

LEMMA HandleFields ==
    ASSUME NEW e, NEW r, NEW b, NEW s, NEW t
    PROVE  IsHandle(HandleOf(e, r, b, s, t), e, r, b, s, t)
<1> DEFINE x == [allow_http |-> e.scheme # "https"]
           h == HandleOf(e, r, b, s, t)
<1>1. \A c : HandleOf(e, r, c, s, t)
              = [endpoint |-> e, region |-> r, bucket |-> c, style |-> s, timeout |-> t, transport |-> x]
  BY Zenon DEF HandleOf
<1> HIDE DEF x
<1>2. h = [endpoint |-> e, region |-> r, bucket |-> b, style |-> s, timeout |-> t, transport |-> x]
  BY <1>1, Zenon
<1> HIDE DEF h
<1>3. h.endpoint = e /\ h.bucket = b /\ h.style = s /\ h.transport = x
  BY <1>2
<1>4. ASSUME NEW c PROVE ForBucket(h, c) = HandleOf(e, r, c, s, t)
  <2>1. ForBucket(h, c) = [endpoint |-> e, region |-> r, bucket |-> c, style |-> s, timeout |-> t, transport |-> x]
    BY <1>2 DEF ForBucket
  <2>2. QED
    BY <1>1, <2>1, Zenon
<1>5. IsHandle(h, e, r, b, s, t)
  BY <1>3, <1>4, Zenon DEF x, IsHandle
<1>6. QED
  BY <1>5, Zenon DEF h

(* The element of a sequence of handles. *)
LEMMA HandleAt ==
    ASSUME NEW e, NEW r, NEW s, NEW t, NEW hs \in Seq(HandleSet(e, r, s, t)), NEW i \in DOMAIN hs
    PROVE  \E b \in Allowed(e, s) : IsHandle(hs[i], e, r, b, s, t)
<1> DEFINE H == HandleSet(e, r, s, t)
<1> HIDE DEF H
<1>1. \A q \in Seq(H) : \A k \in DOMAIN q : q[k] \in H
  OBVIOUS
<1>2. hs[i] \in H
  BY <1>1, Zenon DEF H
<1>3. PICK b \in Allowed(e, s) : hs[i] = HandleOf(e, r, b, s, t)
  BY <1>2, Zenon DEF H, HandleSet
<1> DEFINE h == hs[i]
<1> HIDE DEF h
<1>4. h = HandleOf(e, r, b, s, t)
  BY <1>3, Zenon DEF h
<1>5. IsHandle(h, e, r, b, s, t)
  BY <1>4, HandleFields
<1>6. QED
  BY <1>5, Zenon DEF h

(* A url has the scheme of its endpoint. *)
LEMMA UrlScheme ==
    ASSUME NEW e, NEW b, NEW key, NEW s, NEW u \in object_url(e, b, key, s)
    PROVE  u.scheme = e.scheme
<1>1. \E a, p : u = [scheme |-> e.scheme, authority |-> a, path |-> p, query |-> <<>>]
  BY Zenon DEF object_url
<1>2. PICK a, p : u = [scheme |-> e.scheme, authority |-> a, path |-> p, query |-> <<>>]
  BY <1>1, Zenon
<1>3. QED
  BY <1>2

(* A handle never refuses a request. *)
LEMMA HandlesAnswer ==
    ASSUME HandlesInv
    PROVE  CF!HandlesNeverRefuseARequest
<1>1. SUFFICES ASSUME NEW i \in DOMAIN handles, NEW key
      PROVE  \E u \in CF!object_url(handles[i].endpoint, handles[i].bucket, key, handles[i].style) :
                ~CF!TransportRefuses(handles[i].transport, u)
  BY Zenon DEF CF!HandlesNeverRefuseARequest
<1>2. handles # <<>>
  OBVIOUS
<1>3. PICK e, r, s, t : GoodEndpoint(e) /\ handles \in Seq(HandleSet(e, r, s, t))
  BY <1>2, Zenon DEF HandlesInv
<1>4. PICK b \in Allowed(e, s) : IsHandle(handles[i], e, r, b, s, t)
  BY <1>3, HandleAt, Zenon
<1>5. /\ handles[i].endpoint = e /\ handles[i].bucket = b /\ handles[i].style = s
      /\ handles[i].transport = [allow_http |-> e.scheme # "https"]
  BY <1>4, Zenon DEF IsHandle
<1>6. object_url(e, b, <<>>, s) # {}
  BY Zenon DEF Allowed
<1>7. PICK u \in object_url(e, b, key, s) : TRUE
  BY <1>6, ObjectUrlExists, Zenon
<1>8. u.scheme = e.scheme
  BY <1>7, UrlScheme, Zenon
<1>9. e.scheme \in {"https", "http"}
  BY <1>3, Zenon DEF GoodEndpoint
<1>10. ~CF!TransportRefuses([allow_http |-> e.scheme # "https"], u)
  BY <1>8, <1>9 DEF CF!TransportRefuses
<1>11. u \in CF!object_url(handles[i].endpoint, handles[i].bucket, key, handles[i].style)
  BY <1>5, <1>7, CFUrl, Zenon
<1>12. ~CF!TransportRefuses(handles[i].transport, u)
  BY <1>5, <1>10, Zenon
<1>13. QED
  BY <1>11, <1>12, Zenon

(* Two buckets have no url in common. *)
LEMMA UrlsDiffer ==
    ASSUME NEW e, GoodEndpoint(e), NEW s, NEW key \in Seq(Byte),
           NEW b \in Seq(Byte), NEW c \in Seq(Byte), b # c
    PROVE  object_url(e, b, key, s) \cap object_url(e, c, key, s) = {}
<1>1. SUFFICES ASSUME NEW u \in object_url(e, b, key, s), u \in object_url(e, c, key, s) PROVE FALSE
  BY Zenon
<1> DEFINE hosted == (s = "VirtualHosted")
           p(x) == PathOf(e.base_path, x, key, hosted)
           A(x) == Authority(e, x, s)
<1>2. e.base_path \in Seq(Byte) /\ Rooted(e.base_path)
  BY Zenon DEF GoodEndpoint
<1>3. u = [scheme |-> e.scheme, authority |-> A(b), path |-> p(b), query |-> <<>>] /\ validate_bucket_for_path(b)
  BY <1>1, <1>2, ObjectUrlIs, Zenon
<1>4. u = [scheme |-> e.scheme, authority |-> A(c), path |-> p(c), query |-> <<>>] /\ validate_bucket_for_path(c)
  BY <1>1, <1>2, ObjectUrlIs, Zenon
<1> HIDE DEF p, A
<1>5. u.authority = A(b) /\ u.path = p(b) /\ u.authority = A(c) /\ u.path = p(c)
  BY <1>3, <1>4
<1>6. CASE hosted
  <2>1. A(b).host.bucket = b /\ A(c).host.bucket = c
    BY <1>6, Zenon DEF A, Authority, GoodEndpoint
  <2>2. QED
    BY <1>5, <2>1, Zenon
<1>7. CASE ~hosted
  <2>1. hosted = FALSE
    BY <1>7, Zenon
  <2>2. p(b) = PathOf(e.base_path, b, key, FALSE) /\ p(c) = PathOf(e.base_path, c, key, FALSE)
    BY <2>1, Zenon DEF p
  <2>3. PathOf(e.base_path, b, key, FALSE) # PathOf(e.base_path, c, key, FALSE)
    BY <1>2, <1>3, <1>4, PathsDiffer, Zenon
  <2>4. QED
    BY <1>5, <2>2, <2>3, Zenon
<1>8. QED
  BY <1>6, <1>7

LEMMA HandlesApart ==
    ASSUME HandlesInv
    PROVE  CF!BucketsStayApart
<1>1. SUFFICES ASSUME NEW i \in DOMAIN handles, NEW j \in DOMAIN handles, NEW key \in ClientKeys,
                      handles[i].bucket # handles[j].bucket
      PROVE  /\ [handles[i] EXCEPT !.bucket = <<>>] = [handles[j] EXCEPT !.bucket = <<>>]
             /\ CF!object_url(handles[i].endpoint, handles[i].bucket, key, handles[i].style)
                 \cap CF!object_url(handles[j].endpoint, handles[j].bucket, key, handles[j].style) = {}
  BY Zenon DEF CF!BucketsStayApart
<1>2. handles # <<>>
  OBVIOUS
<1>3. PICK e, r, s, t : GoodEndpoint(e) /\ handles \in Seq(HandleSet(e, r, s, t))
  BY <1>2, Zenon DEF HandlesInv
<1>4. PICK b \in Allowed(e, s) : IsHandle(handles[i], e, r, b, s, t)
  BY <1>3, HandleAt, Zenon
<1>5. PICK c \in Allowed(e, s) : IsHandle(handles[j], e, r, c, s, t)
  BY <1>3, HandleAt, Zenon
<1>6. handles[i].endpoint = e /\ handles[i].bucket = b /\ handles[i].style = s
      /\ [handles[i] EXCEPT !.bucket = <<>>] = HandleOf(e, r, <<>>, s, t)
  BY <1>4, Zenon DEF IsHandle, ForBucket
<1>7. handles[j].endpoint = e /\ handles[j].bucket = c /\ handles[j].style = s
      /\ [handles[j] EXCEPT !.bucket = <<>>] = HandleOf(e, r, <<>>, s, t)
  BY <1>5, Zenon DEF IsHandle, ForBucket
<1>8. b \in Seq(Byte) /\ c \in Seq(Byte) /\ key \in Seq(Byte)
  BY ConfigConstants, Zenon DEF Allowed
<1>9. object_url(e, b, key, s) \cap object_url(e, c, key, s) = {}
  BY <1>1, <1>3, <1>6, <1>7, <1>8, UrlsDiffer, Zenon
<1>10. QED
  BY <1>6, <1>7, <1>9, CFUrl, Zenon

LEMMA ConfigNumbers == MaxSetters \in Nat /\ MaxHandles \in Nat
BY ConfigConstants, Zenon

(* The fields of a builder. *)
BuilderFieldNames == {"endpoint", "region", "bucket", "style", "allow_http", "timeout", "limits", "user_agent"}

(* A setter that changes one field for a value that is allowed there. *)
LEMMA SetterInv ==
    ASSUME ConfigInv, handles = <<>>, setters < MaxSetters, setters' = setters + 1, error' \in BOOLEAN,
           UNCHANGED <<handles, sent>>,
           opted' = opted \/ opted' = TRUE,
           DOMAIN builder' = BuilderFieldNames,
           builder'.endpoint = builder.endpoint \/ GoodEndpoint(builder'.endpoint),
           builder'.bucket = builder.bucket \/ AtMostOne(builder'.bucket),
           builder'.allow_http = builder.allow_http \/ opted' = TRUE,
           builder'.timeout \in [CF!Phases -> Timeouts \cup {1}]
    PROVE  ConfigInv'
<1>1. CF!TypeOK'
  <2>1. setters' \in 0..MaxSetters
    BY ConfigNumbers DEF ConfigInv, BuilderInv, CF!TypeOK
  <2>2. opted' \in BOOLEAN
    BY Zenon DEF ConfigInv, BuilderInv, CF!TypeOK
  <2>3. Len(handles)' <= MaxHandles + 1
    BY Zenon DEF ConfigInv, BuilderInv, CF!TypeOK
  <2>4. QED
    BY <2>1, <2>2, <2>3, Zenon DEF CF!TypeOK, BuilderFieldNames
<1>2. GoodEndpoint(builder.endpoint)' /\ AtMostOne(builder.bucket)'
  BY Zenon DEF ConfigInv, BuilderInv, GoodEndpoint, AtMostOne
<1>3. (builder.allow_http => opted)'
  BY Zenon DEF ConfigInv, BuilderInv
<1>4. HandlesInv'
  BY Zenon DEF HandlesInv
<1>5. \A u \in sent : u.scheme = "https" \/ opted
  BY Zenon DEF ConfigInv, CF!PlainHttpIsOptedIn
<1>6. \A u \in sent' : u.scheme = "https" \/ opted'
  <2>1. CASE opted' = opted
    BY <1>5, <2>1, Zenon
  <2>2. CASE opted' = TRUE
    BY <2>2, Zenon
  <2>3. QED
    BY <2>1, <2>2, Zenon
<1>7. CF!PlainHttpIsOptedIn'
  BY <1>6, Zenon DEF CF!PlainHttpIsOptedIn
<1>8. QED
  BY <1>1, <1>2, <1>3, <1>4, <1>7, Zenon DEF ConfigInv, BuilderInv

(* A call that leaves the builder and the handles as they are. *)
LEMMA ConfigKept ==
    ASSUME ConfigInv, UNCHANGED <<builder, setters, opted, handles>>, error' \in BOOLEAN,
           \A u \in sent' : u.scheme = "https" \/ opted
    PROVE  ConfigInv'
<1>1. BuilderInv'
  BY Zenon DEF ConfigInv, BuilderInv, CF!TypeOK, GoodEndpoint, AtMostOne
<1>2. HandlesInv'
  BY Zenon DEF ConfigInv, HandlesInv
<1>3. CF!PlainHttpIsOptedIn'
  BY Zenon DEF CF!PlainHttpIsOptedIn
<1>4. QED
  BY <1>1, <1>2, <1>3, Zenon DEF ConfigInv

LEMMA BuilderFields ==
    ASSUME ConfigInv
    PROVE  /\ DOMAIN builder = BuilderFieldNames /\ builder.timeout \in [CF!Phases -> Timeouts \cup {1}]
           /\ opted \in BOOLEAN /\ error \in BOOLEAN
BY Zenon DEF ConfigInv, BuilderInv, CF!TypeOK, BuilderFieldNames

LEMMA SetEndpointInv ==
    ASSUME ConfigInv, NEW endpoints, \A e \in endpoints : GoodEndpoint(e), CF!SetEndpoint(endpoints)
    PROVE  ConfigInv'
<1>1. ASSUME CF!Set({[builder EXCEPT !.endpoint = e] : e \in endpoints}) PROVE ConfigInv'
  <2>1. PICK e \in endpoints : builder' = [builder EXCEPT !.endpoint = e]
    BY <1>1, Zenon DEF CF!Set
  <2>2. handles = <<>> /\ setters < MaxSetters /\ setters' = setters + 1 /\ error' = FALSE /\ UNCHANGED <<opted, handles, sent>>
    BY <1>1, Zenon DEF CF!Set
  <2>3. /\ DOMAIN builder' = BuilderFieldNames /\ builder'.endpoint = e /\ builder'.bucket = builder.bucket
        /\ builder'.allow_http = builder.allow_http /\ builder'.timeout = builder.timeout
    BY <2>1, BuilderFields DEF BuilderFieldNames
  <2>4. builder'.timeout \in [CF!Phases -> Timeouts \cup {1}] /\ error' \in BOOLEAN /\ opted' = opted
    BY <2>2, <2>3, BuilderFields, Zenon
  <2>5. QED
    BY <2>2, <2>3, <2>4, SetterInv, Zenon
<1>2. ASSUME handles = <<>>, error' = TRUE, UNCHANGED <<builder, setters, opted, handles, sent>> PROVE ConfigInv'
  <2>1. \A u \in sent' : u.scheme = "https" \/ opted
    BY <1>2, Zenon DEF ConfigInv, CF!PlainHttpIsOptedIn
  <2>2. QED
    BY <1>2, <2>1, ConfigKept, Zenon
<1>3. QED
  BY <1>1, <1>2, Zenon DEF CF!SetEndpoint

LEMMA SetTimeoutInv ==
    ASSUME ConfigInv, CF!SetTimeout
    PROVE  ConfigInv'
<1> DEFINE Chosen == {[builder EXCEPT !.timeout[phase] = t] : phase \in CF!Phases, t \in Timeouts}
<1>0. CF!Set(Chosen)
  BY DEF CF!SetTimeout
<1>1. PICK phase \in CF!Phases, t \in Timeouts : builder' = [builder EXCEPT !.timeout[phase] = t]
  <2>1. builder' \in Chosen
    BY <1>0 DEF CF!Set
  <2>2. QED
    BY <2>1
<1>2. handles = <<>> /\ setters < MaxSetters /\ setters' = setters + 1 /\ error' = FALSE /\ UNCHANGED <<opted, handles, sent>>
  <2> HIDE DEF Chosen
  <2> QED
    BY <1>0, Zenon DEF CF!Set
<1>3. /\ DOMAIN builder' = BuilderFieldNames /\ builder'.endpoint = builder.endpoint /\ builder'.bucket = builder.bucket
      /\ builder'.allow_http = builder.allow_http /\ builder'.timeout = [builder.timeout EXCEPT ![phase] = t]
  BY <1>1, BuilderFields DEF BuilderFieldNames
<1>4. [builder.timeout EXCEPT ![phase] = t] \in [CF!Phases -> Timeouts \cup {1}]
  BY BuilderFields
<1>5. builder'.timeout \in [CF!Phases -> Timeouts \cup {1}] /\ error' \in BOOLEAN /\ opted' = opted
  BY <1>2, <1>3, <1>4, Zenon
<1>6. QED
  BY <1>2, <1>3, <1>5, SetterInv, Zenon

LEMMA SetOtherInv ==
    ASSUME ConfigInv, CF!SetOther
    PROVE  ConfigInv'
<1>1. handles = <<>> /\ setters < MaxSetters /\ setters' = setters + 1 /\ error' = FALSE /\ UNCHANGED <<opted, handles, sent>>
  BY Zenon DEF CF!SetOther, CF!Set
<1>2. \/ \E r \in ClientRegions : builder' = [builder EXCEPT !.region = r]
      \/ \E b \in ClientBuckets : builder' = [builder EXCEPT !.bucket = {b}]
      \/ \E s : builder' = [builder EXCEPT !.style = s]
      \/ builder' = [builder EXCEPT !.limits = FALSE]
      \/ builder' = [builder EXCEPT !.user_agent = FALSE]
  BY DEF CF!SetOther, CF!Set
<1>3. /\ DOMAIN builder' = BuilderFieldNames /\ builder'.endpoint = builder.endpoint
      /\ builder'.bucket = builder.bucket \/ AtMostOne(builder'.bucket)
      /\ builder'.allow_http = builder.allow_http /\ builder'.timeout = builder.timeout
  BY <1>2, BuilderFields DEF BuilderFieldNames, AtMostOne
<1>4. builder'.timeout \in [CF!Phases -> Timeouts \cup {1}] /\ error' \in BOOLEAN /\ opted' = opted
  BY <1>1, <1>3, BuilderFields, Zenon
<1>5. QED
  BY <1>1, <1>3, <1>4, SetterInv, Zenon

LEMMA AllowHttpInv ==
    ASSUME ConfigInv, CF!allow_http_for_local_testing
    PROVE  ConfigInv'
<1>1. /\ handles = <<>> /\ setters < MaxSetters /\ setters' = setters + 1 /\ opted' = TRUE
      /\ builder' = [builder EXCEPT !.allow_http = TRUE] /\ UNCHANGED <<handles, sent, error>>
  BY Zenon DEF CF!allow_http_for_local_testing
<1>2. /\ DOMAIN builder' = BuilderFieldNames /\ builder'.endpoint = builder.endpoint
      /\ builder'.bucket = builder.bucket /\ builder'.timeout = builder.timeout
  BY <1>1, BuilderFields DEF BuilderFieldNames
<1>3. builder'.timeout \in [CF!Phases -> Timeouts \cup {1}] /\ error' \in BOOLEAN
  BY <1>1, <1>2, BuilderFields, Zenon
<1>4. QED
  BY <1>1, <1>2, <1>3, SetterInv, Zenon

(* A change of the handles that leaves the builder alone. *)
LEMMA NewHandlesInv ==
    ASSUME ConfigInv, UNCHANGED <<builder, setters, opted, sent>>, error' \in BOOLEAN,
           HandlesInv', Len(handles') <= MaxHandles + 1
    PROVE  ConfigInv'
<1>1. BuilderInv'
  BY Zenon DEF ConfigInv, BuilderInv, CF!TypeOK, GoodEndpoint, AtMostOne
<1>2. CF!PlainHttpIsOptedIn'
  BY Zenon DEF ConfigInv, CF!PlainHttpIsOptedIn
<1>3. QED
  BY <1>1, <1>2, Zenon DEF ConfigInv

LEMMA BuildHandleInv ==
    ASSUME ConfigInv, CF!Build
    PROVE  ConfigInv'
<1>1. CASE \E bucket \in builder.bucket : CF!Buildable(bucket)
  <2> DEFINE e == builder.endpoint
             r == builder.region
             s == builder.style
             t == builder.timeout
  <2>1. PICK b \in builder.bucket :
          handles' = <<[endpoint |-> builder.endpoint, region |-> builder.region,
                        bucket |-> b, style |-> builder.style, timeout |-> builder.timeout,
                        transport |-> CF!TransportFor(builder.endpoint)]>>
    BY <1>1, Zenon DEF CF!Build
  <2>2. error' = FALSE /\ UNCHANGED <<builder, setters, opted, sent>>
    BY <1>1, Zenon DEF CF!Build
  <2>3. CF!Buildable(b) /\ b \in ClientBuckets
    BY <1>1, Zenon DEF ConfigInv, BuilderInv, AtMostOne
  <2>4. b \in Allowed(e, s)
    <3>1. object_url(e, b, <<>>, s) # {}
      BY <2>3, CFUrl, Zenon DEF CF!Buildable
    <3>2. QED
      BY <2>3, <3>1, Zenon DEF Allowed
  <2>5. GoodEndpoint(e) /\ (e.scheme = "https" \/ opted)
    BY <2>3, Zenon DEF CF!Buildable, ConfigInv, BuilderInv
  <2> DEFINE h == HandleOf(e, r, b, s, t)
             H == HandleSet(e, r, s, t)
  <2>6. handles' = <<h>>
    BY <2>1, Zenon DEF HandleOf, CF!TransportFor
  <2>7. h \in H
    BY <2>4, Zenon DEF HandleSet
  <2> HIDE DEF h, H
  <2>8. handles' \in Seq(H) /\ Len(handles') = 1
    BY <2>6, <2>7
  <2>9. HandlesInv'
    BY <2>2, <2>5, <2>8, Zenon DEF HandlesInv, GoodEndpoint, H
  <2>10. Len(handles') <= MaxHandles + 1
    BY <2>8, ConfigNumbers
  <2>11. QED
    BY <2>2, <2>9, <2>10, NewHandlesInv, Zenon
<1>2. CASE ~(\E bucket \in builder.bucket : CF!Buildable(bucket))
  <2>1. error' = TRUE /\ UNCHANGED <<builder, setters, opted, handles, sent>>
    BY <1>2, Zenon DEF CF!Build
  <2>2. \A u \in sent' : u.scheme = "https" \/ opted
    BY <2>1, Zenon DEF ConfigInv, CF!PlainHttpIsOptedIn
  <2>3. QED
    BY <2>1, <2>2, ConfigKept, Zenon
<1>3. QED
  BY <1>1, <1>2

LEMMA ForBucketInv ==
    ASSUME ConfigInv, NEW i \in DOMAIN handles, NEW b \in ClientBuckets, CF!for_bucket(handles[i], b)
    PROVE  ConfigInv'
<1>1. CASE CF!BucketAllowed(handles[i], b)
  <2>1. /\ handles' = Append(handles, ForBucket(handles[i], b)) /\ error' = FALSE
        /\ Len(handles) <= MaxHandles /\ UNCHANGED <<builder, setters, opted, sent>>
    BY <1>1, Zenon DEF CF!for_bucket, ForBucket
  <2>2. handles # <<>>
    OBVIOUS
  <2>3. PICK e, r, s, t : /\ GoodEndpoint(e) /\ (e.scheme = "https" \/ opted)
                          /\ handles \in Seq(HandleSet(e, r, s, t))
    BY <2>2, Zenon DEF ConfigInv, HandlesInv
  <2>4. PICK c \in Allowed(e, s) : IsHandle(handles[i], e, r, c, s, t)
    BY <2>3, HandleAt, Zenon
  <2>5. ForBucket(handles[i], b) = HandleOf(e, r, b, s, t) /\ handles[i].endpoint = e /\ handles[i].style = s
    BY <2>4, Zenon DEF IsHandle
  <2>6. b \in Allowed(e, s)
    BY <1>1, <2>5, CFUrl, Zenon DEF CF!BucketAllowed, Allowed
  <2> DEFINE h == ForBucket(handles[i], b)
             H == HandleSet(e, r, s, t)
  <2>7. h \in H /\ handles \in Seq(H)
    BY <2>3, <2>5, <2>6, Zenon DEF HandleSet
  <2>8. handles' = Append(handles, h)
    BY <2>1, Zenon
  <2> HIDE DEF h, H
  <2>9. handles' \in Seq(H) /\ Len(handles') = Len(handles) + 1 /\ Len(handles) \in Nat
    BY <2>7, <2>8
  <2>10. HandlesInv'
    BY <2>1, <2>3, <2>9, Zenon DEF HandlesInv, GoodEndpoint, H
  <2>11. Len(handles') <= MaxHandles + 1
    BY <2>1, <2>9, ConfigNumbers
  <2>12. error' \in BOOLEAN /\ UNCHANGED <<builder, setters, opted, sent>>
    BY <2>1, Zenon
  <2>13. QED
    BY <2>10, <2>11, <2>12, NewHandlesInv, Zenon
<1>2. CASE ~CF!BucketAllowed(handles[i], b)
  <2>1. error' = TRUE /\ UNCHANGED <<builder, setters, opted, handles, sent>>
    BY <1>2, Zenon DEF CF!for_bucket
  <2>2. \A u \in sent' : u.scheme = "https" \/ opted
    BY <2>1, Zenon DEF ConfigInv, CF!PlainHttpIsOptedIn
  <2>3. QED
    BY <2>1, <2>2, ConfigKept, Zenon
<1>3. QED
  BY <1>1, <1>2

LEMMA SendInv ==
    ASSUME ConfigInv, NEW i \in DOMAIN handles, NEW key, CF!Send(handles[i], key)
    PROVE  ConfigInv'
<1>1. handles # <<>>
  OBVIOUS
<1>2. PICK e, r, s, t : /\ GoodEndpoint(e) /\ (e.scheme = "https" \/ opted)
                        /\ handles \in Seq(HandleSet(e, r, s, t))
  BY <1>1, Zenon DEF ConfigInv, HandlesInv
<1>3. PICK c \in Allowed(e, s) : IsHandle(handles[i], e, r, c, s, t)
  BY <1>2, HandleAt, Zenon
<1>4. sent' = {} \/ sent' = object_url(e, c, key, s)
  BY <1>3, CFUrl, Zenon DEF IsHandle, CF!Send
<1>5. ASSUME NEW u \in sent' PROVE u.scheme = "https" \/ opted
  <2>1. u \in object_url(e, c, key, s)
    BY <1>4, Zenon
  <2>2. u.scheme = e.scheme
    BY <1>2, <2>1, UrlScheme, Zenon
  <2>3. QED
    BY <1>2, <2>2, Zenon
<1>6. error' \in BOOLEAN /\ UNCHANGED <<builder, setters, opted, handles>>
  BY Zenon DEF CF!Send
<1>7. QED
  BY <1>5, <1>6, ConfigKept, Zenon

LEMMA ConfigStepInv ==
    ASSUME ConfigInv, CF!Next
    PROVE  ConfigInv'
<1>1. ASSUME NEW input \in EndpointInputs, CF!SetEndpoint(CF!EndpointNew(input)) PROVE ConfigInv'
  BY <1>1, GivenEndpoints, SetEndpointInv, Zenon
<1>2. ASSUME NEW v \in EndpointVariants, CF!SetEndpoint(CF!for_aws_region_variant(v[1], v[2], v[3])) PROVE ConfigInv'
  BY <1>2, GivenEndpoints, SetEndpointInv, Zenon
<1>3. CASE CF!SetTimeout
  BY <1>3, SetTimeoutInv
<1>4. CASE CF!SetOther
  BY <1>4, SetOtherInv
<1>5. CASE CF!allow_http_for_local_testing
  BY <1>5, AllowHttpInv
<1>6. CASE CF!Build
  BY <1>6, BuildHandleInv
<1>7. ASSUME NEW i \in DOMAIN handles, NEW b \in ClientBuckets, CF!for_bucket(handles[i], b) PROVE ConfigInv'
  BY <1>7, ForBucketInv
<1>8. ASSUME NEW i \in DOMAIN handles, NEW key, CF!Send(handles[i], key) PROVE ConfigInv'
  BY <1>8, SendInv
<1>9. QED
  BY <1>1, <1>2, <1>3, <1>4, <1>5, <1>6, <1>7, <1>8, Zenon DEF CF!Next

LEMMA ConfigInitInv == CF!Init => ConfigInv
<1> SUFFICES ASSUME CF!Init PROVE ConfigInv
  OBVIOUS
<1> DEFINE T == [phase \in CF!Phases |-> 1]
<1>1. /\ builder = [endpoint |-> CF!DefaultEndpoint, region |-> "us-east-1", bucket |-> {},
                    style |-> "Path", allow_http |-> FALSE, timeout |-> T, limits |-> TRUE, user_agent |-> TRUE]
      /\ setters = 0 /\ opted = FALSE /\ handles = <<>> /\ sent = {} /\ error = FALSE
  BY Zenon DEF CF!Init
<1>2. T \in [CF!Phases -> Timeouts \cup {1}]
  OBVIOUS
<1> HIDE DEF T
<1>3. /\ DOMAIN builder = BuilderFieldNames /\ builder.endpoint = CF!DefaultEndpoint /\ builder.bucket = {}
      /\ builder.timeout = T /\ ~builder.allow_http
  BY <1>1 DEF BuilderFieldNames
<1>4. setters \in 0..MaxSetters /\ Len(handles) <= MaxHandles + 1
  BY <1>1, ConfigNumbers
<1>5. CF!TypeOK
  BY <1>1, <1>2, <1>3, <1>4, Zenon DEF CF!TypeOK, BuilderFieldNames
<1>6. BuilderInv
  BY <1>3, <1>5, GivenEndpoints, Zenon DEF BuilderInv, AtMostOne
<1>7. HandlesInv /\ CF!PlainHttpIsOptedIn
  BY <1>1, Zenon DEF HandlesInv, CF!PlainHttpIsOptedIn
<1>8. QED
  BY <1>6, <1>7 DEF ConfigInv

LEMMA ConfigSceneInv == Scenes => [](scene = "config" => ConfigInv)
<1> DEFINE I == scene = "config" => ConfigInv
<1>1. ScenesInit => I
  BY ConfigInitInv DEF ScenesInit
<1>2. I /\ [ScenesNext]_all => I'
  <2>1. SUFFICES ASSUME I, [ScenesNext]_all, scene' = "config" PROVE ConfigInv'
    OBVIOUS
  <2>2. scene = "config" /\ ConfigInv
    BY <2>1 DEF ScenesNext, all
  <2>3. CASE ScenesNext
    BY <2>2, <2>3, ConfigStepInv DEF ScenesNext
  <2>4. CASE UNCHANGED all
    <3>1. UNCHANGED <<builder, setters, opted, handles, sent, error>>
      BY <2>4 DEF all, config
    <3>2. \A u \in sent' : u.scheme = "https" \/ opted
      BY <2>2, <3>1, Zenon DEF ConfigInv, CF!PlainHttpIsOptedIn
    <3>3. error' \in BOOLEAN
      BY <2>2, <3>1, BuilderFields, Zenon
    <3>4. QED
      BY <2>2, <3>1, <3>2, <3>3, ConfigKept, Zenon
  <2>5. QED
    BY <2>1, <2>3, <2>4
<1>3. QED
  BY <1>1, <1>2, PTL DEF Scenes

(* For any order of any setters and any number of handles: what build and    *)
(* for_bucket have accepted never refuses a request, plain HTTP is spoken    *)
(* only when it was asked for, and two buckets never share a URL.            *)
THEOREM HandlesSound == Scenes => []HandlesAreSound
<1>1. (scene = "config" => ConfigInv) => HandlesAreSound
  BY HandlesAnswer, HandlesApart, Zenon DEF ConfigInv, BuilderInv, HandlesAreSound
<1>2. QED
  BY <1>1, ConfigSceneInv, PTL
-------------------------------------------------------------------------------
(* Presigned URLs. *)

LEMMA PresignConstants ==
    /\ PresignKeys \subseteq Seq(Byte) /\ UploadIds \subseteq Seq(Byte)
    /\ \A i \in PresignIdentities : i.key \in Seq(Byte) /\ i.token \subseteq Seq(Byte) /\ i.expires \subseteq Nat
    /\ \A i \in PresignIdentities : \A s, t \in i.token : s = t
    /\ \A c \in PresignClients :
          /\ c.bucket \in Seq(Byte) /\ c.region \in Seq(Byte)
          /\ c.endpoint.base_path \in Seq(Byte) /\ Rooted(c.endpoint.base_path)
          /\ WellEncoded(c.endpoint.base_path) => Minimal(c.endpoint.base_path)
<1>1. PS!PresigningAssumption
  BY SigningAssumption, Zenon
<1>2. PresignKeys \subseteq Seq(Byte) /\ UploadIds \subseteq Seq(Byte)
  BY <1>1, PSDecode, Zenon DEF PS!PresigningAssumption
<1>3. \A i \in PresignIdentities : i.key \in Seq(Byte) /\ i.token \subseteq Seq(Byte) /\ i.expires \subseteq Nat
  BY <1>1, PSDecode, Zenon DEF PS!PresigningAssumption
<1>4. \A i \in PresignIdentities : \A s, t \in i.token : s = t
  BY <1>1, Zenon DEF PS!PresigningAssumption
<1>5. ASSUME NEW c \in PresignClients
      PROVE  /\ c.bucket \in Seq(Byte) /\ c.region \in Seq(Byte)
             /\ c.endpoint.base_path \in Seq(Byte) /\ Rooted(c.endpoint.base_path)
             /\ WellEncoded(c.endpoint.base_path) => Minimal(c.endpoint.base_path)
  <2>1. c.bucket \in Seq(Byte) /\ c.region \in Seq(Byte)
    BY <1>1, PSDecode, Zenon DEF PS!PresigningAssumption
  <2>2. c.endpoint \in EndpointShape
    BY <1>1, PSBytes, Zenon DEF PS!PresigningAssumption
  <2>3. c.endpoint.base_path \in Seq(Byte)
    BY <2>2 DEF EndpointShape, Byte
  <2>4. Rooted(c.endpoint.base_path) /\ (WellEncoded(c.endpoint.base_path) => Minimal(c.endpoint.base_path))
    BY <1>1, PSBytes, PSDecode, Zenon DEF PS!PresigningAssumption
  <2>5. QED
    BY <2>1, <2>3, <2>4, Zenon
<1>6. QED
  BY <1>2, <1>3, <1>4, <1>5, Zenon

LEMMA PresignNumbers ==
    /\ MaxPresignExpiry \in Nat /\ 0 < MaxPresignExpiry
    /\ DaySeconds \in Nat /\ 0 < DaySeconds
    /\ PresignHorizon \in Nat /\ PresignLifetimes \subseteq Nat
<1>1. PS!PresigningAssumption
  BY SigningAssumption, Zenon
<1>2. MaxPresignExpiry \in Nat \ {0} /\ DaySeconds \in Nat \ {0} /\ PresignHorizon \in Nat \ {0} /\ PresignLifetimes \subseteq Nat
  BY <1>1, Zenon DEF PS!PresigningAssumption
<1>3. QED
  BY <1>2

(* A number that was written is read back. *)
LEMMA NumbersAreRead ==
    ASSUME NEW n \in 0..(PresignHorizon + MaxPresignExpiry)
    PROVE  Number[n] \in Seq(Byte) /\ PS!NumberIn(Number[n]) = n
<1>1. PS!PresigningAssumption
  BY SigningAssumption, Zenon
<1> DEFINE D == 0..(PresignHorizon + MaxPresignExpiry)
           B == Seq(Byte)
<1>2. Number \in [D -> B] /\ \A m, k \in DOMAIN Number : Number[m] = Number[k] => m = k
  BY <1>1, PSDecode, Zenon DEF PS!PresigningAssumption
<1>3. n \in D
  OBVIOUS
<1> HIDE DEF D, B
<1>4. DOMAIN Number = D /\ Number[n] \in B
  BY <1>2, <1>3, Zenon
<1>5. PS!NumberIn(Number[n]) = n
  BY <1>2, <1>3, <1>4, Zenon DEF PS!NumberIn
<1>6. QED
  BY <1>4, <1>5, Zenon DEF B

(* The moments and lifetimes of a URL are numbers that can be written. *)
LEMMA TimesAreWritten ==
    ASSUME NEW time \in 0..PresignHorizon, NEW expires \in Nat, expires \div 2 \in 1..MaxPresignExpiry
    PROVE  /\ time \div 2 \in 0..(PresignHorizon + MaxPresignExpiry)
           /\ (time \div 2) \div DaySeconds \in 0..(PresignHorizon + MaxPresignExpiry)
           /\ expires \div 2 \in 0..(PresignHorizon + MaxPresignExpiry)
<1>1. time \div 2 \in Nat /\ time \div 2 <= time
  OBVIOUS
<1>2. \A m \in Nat : m \div DaySeconds \in Nat /\ m \div DaySeconds <= m
  BY PresignNumbers
<1>3. QED
  BY <1>1, <1>2, PresignNumbers

LEMMA ElementsConcat ==
    ASSUME NEW T, NEW s \in Seq(T), NEW t \in Seq(T)
    PROVE  s \o t \in Seq(T) /\ Elements(s \o t) = Elements(s) \cup Elements(t)
<1>1. s \o t \in Seq(T) /\ Len(s \o t) = Len(s) + Len(t) /\ Len(s) \in Nat /\ Len(t) \in Nat
  OBVIOUS
<1>2. \A i \in 1..Len(s) : (s \o t)[i] = s[i]
  OBVIOUS
<1>3. \A i \in 1..Len(t) : (s \o t)[Len(s) + i] = t[i]
  OBVIOUS
<1>4. \A i \in 1..(Len(s) + Len(t)) : i \in 1..Len(s) \/ (i - Len(s) \in 1..Len(t) /\ i = Len(s) + (i - Len(s)))
  BY <1>1
<1>5. (\A i \in 1..Len(s) : i \in 1..(Len(s) + Len(t))) /\ (\A i \in 1..Len(t) : Len(s) + i \in 1..(Len(s) + Len(t)))
  BY <1>1
<1>6. ASSUME NEW x \in Elements(s \o t) PROVE x \in Elements(s) \cup Elements(t)
  <2>1. PICK i \in 1..(Len(s) + Len(t)) : x = (s \o t)[i]
    BY <1>1, <1>6, Zenon DEF Elements
  <2>2. CASE i \in 1..Len(s)
    BY <1>2, <2>1, <2>2, Zenon DEF Elements
  <2>3. CASE i - Len(s) \in 1..Len(t) /\ i = Len(s) + (i - Len(s))
    <3>1. x = t[i - Len(s)]
      BY <1>3, <2>1, <2>3, Zenon
    <3>2. QED
      BY <2>3, <3>1, Zenon DEF Elements
  <2>4. QED
    BY <1>4, <2>2, <2>3, Zenon
<1>7. Elements(s) \cup Elements(t) \subseteq Elements(s \o t)
  BY <1>1, <1>2, <1>3, <1>5, Zenon DEF Elements
<1>8. QED
  BY <1>1, <1>6, <1>7, Zenon

LEMMA ElementsOfFive ==
    ASSUME NEW T, NEW a \in T, NEW b \in T, NEW c \in T, NEW d \in T, NEW e \in T
    PROVE  <<a, b, c, d, e>> \in Seq(T) /\ Elements(<<a, b, c, d, e>>) = {a, b, c, d, e}
<1> DEFINE s == <<a, b, c, d, e>>
<1>1. s \in Seq(T) /\ Len(s) = 5 /\ s[1] = a /\ s[2] = b /\ s[3] = c /\ s[4] = d /\ s[5] = e
  OBVIOUS
<1>2. 1..5 = {1, 2, 3, 4, 5}
  OBVIOUS
<1> HIDE DEF s
<1>3. Elements(s) = {s[i] : i \in {1, 2, 3, 4, 5}}
  BY <1>1, <1>2, Zenon DEF Elements
<1>4. QED
  BY <1>1, <1>3, Zenon DEF s

LEMMA ElementsOfFew ==
    ASSUME NEW T
    PROVE  /\ <<>> \in Seq(T) /\ Elements(<<>>) = {}
           /\ \A a \in T : <<a>> \in Seq(T) /\ Elements(<<a>>) = {a}
           /\ \A a, b \in T : <<a, b>> \in Seq(T) /\ Elements(<<a, b>>) = {a, b}
<1>1. <<>> \in Seq(T) /\ Elements(<<>>) = {}
  BY DEF Elements
<1>2. ASSUME NEW a \in T PROVE <<a>> \in Seq(T) /\ Elements(<<a>>) = {a}
  BY DEF Elements
<1>3. ASSUME NEW a \in T, NEW b \in T PROVE <<a, b>> \in Seq(T) /\ Elements(<<a, b>>) = {a, b}
  <2> DEFINE s == <<a, b>>
  <2>1. s \in Seq(T) /\ Len(s) = 2 /\ s[1] = a /\ s[2] = b /\ 1..2 = {1, 2}
    OBVIOUS
  <2> HIDE DEF s
  <2>2. Elements(s) = {s[i] : i \in {1, 2}}
    BY <2>1, Zenon DEF Elements
  <2>3. QED
    BY <2>1, <2>2, Zenon DEF s
<1>4. QED
  BY <1>1, <1>2, <1>3

(* The names of the parameters that presigning adds. *)
LEMMA NamesDiffer ==
    /\ PS!ALGORITHM \in Seq(Byte) /\ PS!CREDENTIAL \in Seq(Byte) /\ PS!DATE \in Seq(Byte)
    /\ PS!EXPIRES \in Seq(Byte) /\ PS!TOKEN \in Seq(Byte) /\ PS!SIGNEDHEADERS \in Seq(Byte)
    /\ PS!CREDENTIAL # PS!ALGORITHM /\ PS!CREDENTIAL # PS!DATE /\ PS!CREDENTIAL # PS!EXPIRES
    /\ PS!CREDENTIAL # PS!TOKEN /\ PS!CREDENTIAL # PS!SIGNEDHEADERS
    /\ PS!DATE # PS!ALGORITHM /\ PS!DATE # PS!EXPIRES /\ PS!DATE # PS!TOKEN /\ PS!DATE # PS!SIGNEDHEADERS
    /\ PS!EXPIRES # PS!ALGORITHM /\ PS!EXPIRES # PS!TOKEN /\ PS!EXPIRES # PS!SIGNEDHEADERS
    /\ PS!TOKEN # PS!ALGORITHM /\ PS!TOKEN # PS!SIGNEDHEADERS
<1>1. /\ PS!ALGORITHM \in Seq(Byte) /\ PS!CREDENTIAL \in Seq(Byte) /\ PS!DATE \in Seq(Byte)
      /\ PS!EXPIRES \in Seq(Byte) /\ PS!TOKEN \in Seq(Byte) /\ PS!SIGNEDHEADERS \in Seq(Byte)
  BY DEF Byte, PS!ALGORITHM, PS!CREDENTIAL, PS!DATE, PS!EXPIRES, PS!TOKEN, PS!SIGNEDHEADERS
<1>2. /\ PS!CREDENTIAL # PS!ALGORITHM /\ PS!CREDENTIAL # PS!DATE /\ PS!CREDENTIAL # PS!EXPIRES
      /\ PS!CREDENTIAL # PS!TOKEN /\ PS!CREDENTIAL # PS!SIGNEDHEADERS
  BY DEF PS!ALGORITHM, PS!CREDENTIAL, PS!DATE, PS!EXPIRES, PS!TOKEN, PS!SIGNEDHEADERS
<1>3. PS!DATE # PS!ALGORITHM /\ PS!DATE # PS!EXPIRES /\ PS!DATE # PS!TOKEN /\ PS!DATE # PS!SIGNEDHEADERS
  BY DEF PS!ALGORITHM, PS!DATE, PS!EXPIRES, PS!TOKEN, PS!SIGNEDHEADERS
<1>4. PS!EXPIRES # PS!ALGORITHM /\ PS!EXPIRES # PS!TOKEN /\ PS!EXPIRES # PS!SIGNEDHEADERS
  BY DEF PS!ALGORITHM, PS!EXPIRES, PS!TOKEN, PS!SIGNEDHEADERS
<1>5. PS!TOKEN # PS!ALGORITHM /\ PS!TOKEN # PS!SIGNEDHEADERS
  BY DEF PS!ALGORITHM, PS!TOKEN, PS!SIGNEDHEADERS
<1>6. QED
  BY <1>1, <1>2, <1>3, <1>4, <1>5, Zenon

(* A name that a call may bring: it is not one of those that are added. *)
Brought(name) ==
    /\ name \in Seq(Byte)
    /\ name # PS!CREDENTIAL /\ name # PS!DATE /\ name # PS!EXPIRES /\ name # PS!TOKEN

LEMMA OneByteIsBrought ==
    ASSUME NEW n \in Byte
    PROVE  Brought(<<n>>)
<1>1. <<n>> \in Seq(Byte) /\ Len(<<n>>) = 1
  BY Strings
<1>2. Len(PS!CREDENTIAL) = 2 /\ Len(PS!DATE) = 2 /\ Len(PS!EXPIRES) = 2 /\ Len(PS!TOKEN) = 3
  BY DEF PS!CREDENTIAL, PS!DATE, PS!EXPIRES, PS!TOKEN
<1> DEFINE m == <<n>>
<1>3. m \in Seq(Byte) /\ Len(m) = 1
  BY <1>1, Zenon
<1> HIDE DEF m
<1>4. Brought(m)
  BY <1>2, <1>3 DEF Brought
<1>5. QED
  BY <1>4, Zenon DEF m

(* The parameters that a call brings are well formed. *)
GoodQuery(query) == query \in Seq(Pairs) /\ \A p \in Elements(query) : Brought(p[1])

LEMMA GoodQueries ==
    /\ GoodQuery(<<>>)
    /\ \A m \in Byte, v \in Seq(Byte) : GoodQuery(<< <<<<m>>, v>> >>)
    /\ \A m, n \in Byte, v, w \in Seq(Byte) : GoodQuery(<< <<<<m>>, v>>, <<<<n>>, w>> >>)
<1>1. GoodQuery(<<>>)
  <2>1. <<>> \in Seq(Pairs) /\ Elements(<<>>) = {}
    BY ElementsOfFew, Zenon
  <2>2. QED
    BY <2>1, Zenon DEF GoodQuery
<1>2. ASSUME NEW m \in Seq(Byte), NEW v \in Seq(Byte) PROVE <<m, v>> \in Pairs /\ <<m, v>>[1] = m
  <2> DEFINE B == Seq(Byte)
  <2>1. m \in B /\ v \in B
    OBVIOUS
  <2> HIDE DEF B
  <2>2. <<m, v>> \in B \X B /\ <<m, v>>[1] = m
    BY <2>1
  <2>3. QED
    BY <2>2, Zenon DEF B, Pairs
<1>3. ASSUME NEW m \in Byte, NEW v \in Seq(Byte) PROVE GoodQuery(<< <<<<m>>, v>> >>)
  <2> DEFINE p == <<<<m>>, v>>
  <2>1. p \in Pairs /\ Brought(p[1])
    BY <1>2, OneByteIsBrought, Zenon DEF Brought
  <2> HIDE DEF p
  <2>2. <<p>> \in Seq(Pairs) /\ Elements(<<p>>) = {p}
    BY <2>1, ElementsOfFew, Zenon
  <2>3. GoodQuery(<<p>>)
    BY <2>1, <2>2, Zenon DEF GoodQuery
  <2>4. QED
    BY <2>3, Zenon DEF p
<1>4. ASSUME NEW m \in Byte, NEW n \in Byte, NEW v \in Seq(Byte), NEW w \in Seq(Byte)
      PROVE  GoodQuery(<< <<<<m>>, v>>, <<<<n>>, w>> >>)
  <2> DEFINE p == <<<<m>>, v>>
             q == <<<<n>>, w>>
  <2>1. p \in Pairs /\ Brought(p[1]) /\ q \in Pairs /\ Brought(q[1])
    BY <1>2, OneByteIsBrought, Zenon DEF Brought
  <2> HIDE DEF p, q
  <2>2. <<p, q>> \in Seq(Pairs) /\ Elements(<<p, q>>) = {p, q}
    <3>1. \A a, b \in Pairs : <<a, b>> \in Seq(Pairs) /\ Elements(<<a, b>>) = {a, b}
      BY ElementsOfFew, Zenon
    <3>2. QED
      BY <2>1, <3>1, Zenon
  <2>3. GoodQuery(<<p, q>>)
    BY <2>1, <2>2, Zenon DEF GoodQuery
  <2>4. QED
    BY <2>3, Zenon DEF p, q
<1>5. QED
  BY <1>1, <1>3, <1>4, Zenon

(* What a call is made of. *)
LEMMA CallFacts ==
    ASSUME NEW k \in PS!Calls
    PROVE  k.key \in Seq(Byte) /\ k.expires \in Nat /\ GoodQuery(k.query)
<1> DEFINE ids == {<< <<<<105>>, id>> >> : id \in UploadIds}
           parts == {<< <<<<112>>, <<55>>>>, <<<<105>>, id>> >> : id \in UploadIds}
           uploads == << <<<<117>>, <<>>>> >>
<1>1. k.key \in PresignKeys /\ k.expires \in PresignLifetimes
      /\ (k.query = <<>> \/ k.query = uploads \/ k.query \in parts \/ k.query \in ids)
  <2> HIDE DEF ids, parts, uploads
  <2>1. PS!Calls =
          [method : {"GET", "PUT", "HEAD", "DELETE"}, key : PresignKeys, query : {<<>>}, expires : PresignLifetimes]
            \cup [method : {"POST"}, key : PresignKeys, query : {uploads}, expires : PresignLifetimes]
            \cup [method : {"PUT"}, key : PresignKeys, expires : PresignLifetimes, query : parts]
            \cup [method : {"DELETE"}, key : PresignKeys, query : ids, expires : PresignLifetimes]
    BY Zenon DEF PS!Calls, ids, parts, uploads
  <2>2. QED
    BY <2>1
<1>2. k.key \in Seq(Byte) /\ k.expires \in Nat
  BY <1>1, PresignConstants, PresignNumbers, Zenon
<1>3. 117 \in Byte /\ 112 \in Byte /\ 105 \in Byte /\ 55 \in Byte
  BY DEF Byte
<1>4. GoodQuery(uploads)
  BY <1>3, GoodQueries, Strings, Zenon
<1>5. \A q \in ids : GoodQuery(q)
  BY <1>3, GoodQueries, PresignConstants, Zenon
<1>6. ASSUME NEW q \in parts PROVE GoodQuery(q)
  <2>1. PICK id \in UploadIds : q = << <<<<112>>, <<55>>>>, <<<<105>>, id>> >>
    BY <1>6, Zenon
  <2>2. id \in Seq(Byte) /\ <<55>> \in Seq(Byte)
    BY <1>3, PresignConstants, Strings, Zenon
  <2>3. GoodQuery(<< <<<<112>>, <<55>>>>, <<<<105>>, id>> >>)
    BY <1>3, <2>2, GoodQueries, Zenon
  <2>4. QED
    BY <2>1, <2>3, Zenon
<1>7. QED
  BY <1>1, <1>2, <1>4, <1>5, <1>6, GoodQueries, Zenon

(* The parameters of a URL, of its call, its client and its moment. *)
UrlParameters(c, k, i, time) ==
    PS!parameters(i, PS!format_timestamp(time), k.query, k.expires \div 2, c.region)

(* The value of the credential parameter. *)
CredentialOf(c, i, time) == PS!credential(i, (time \div 2) \div DaySeconds, c.region)

PairOf(n, v) == <<n, v>>

LEMMA PairOfParts == \A n, v : PairOf(n, v)[1] = n /\ PairOf(n, v)[2] = v
BY DEF PairOf

(* The token of an identity as parameters. *)
TokenParameters(i) == {PairOf(PS!TOKEN, t) : t \in i.token}

(* The other parameters that are added. *)
AddedParameters(c, k, i, time) ==
    {PairOf(PS!ALGORITHM, <<52>>), PairOf(PS!CREDENTIAL, CredentialOf(c, i, time)),
     PairOf(PS!DATE, Number[time \div 2]), PairOf(PS!EXPIRES, Number[k.expires \div 2]),
     PairOf(PS!SIGNEDHEADERS, <<104>>)}

LEMMA MakePair ==
    ASSUME NEW n \in Seq(Byte), NEW v \in Seq(Byte)
    PROVE  PairOf(n, v) \in Pairs
<1> DEFINE B == Seq(Byte)
<1>1. n \in B /\ v \in B
  OBVIOUS
<1> HIDE DEF B
<1>2. <<n, v>> \in B \X B
  BY <1>1
<1>3. QED
  BY <1>2, Zenon DEF B, Pairs, PairOf

(* What is among the parameters. *)
LEMMA ParametersAre ==
    ASSUME NEW c \in PresignClients, NEW k \in PS!Calls, NEW i \in PresignIdentities,
           NEW time \in 0..PresignHorizon, PS!ValidExpiry(k.expires)
    PROVE  /\ UrlParameters(c, k, i, time) \in Seq(Pairs)
           /\ CredentialOf(c, i, time) \in Seq(Byte)
           /\ Elements(UrlParameters(c, k, i, time))
                = Elements(k.query)
                    \cup AddedParameters(c, k, i, time)
                    \cup TokenParameters(i)
<1> DEFINE cred == CredentialOf(c, i, time)
           date == Number[time \div 2]
           life == Number[k.expires \div 2]
           a == PairOf(PS!ALGORITHM, <<52>>)
           b == PairOf(PS!CREDENTIAL, cred)
           d == PairOf(PS!DATE, date)
           e == PairOf(PS!EXPIRES, life)
           h == PairOf(PS!SIGNEDHEADERS, <<104>>)
           mid == <<a, b, d, e, h>>
           tail == IF i.token = {} THEN <<>> ELSE <<PairOf(PS!TOKEN, CHOOSE t \in i.token : TRUE)>>
           all5 == {a, b, d, e, h}
           q == k.query
<1>1. k.expires \in Nat /\ k.expires \div 2 \in 1..MaxPresignExpiry
  BY CallFacts, Zenon DEF PS!ValidExpiry
<1>2. /\ time \div 2 \in 0..(PresignHorizon + MaxPresignExpiry)
      /\ (time \div 2) \div DaySeconds \in 0..(PresignHorizon + MaxPresignExpiry)
      /\ k.expires \div 2 \in 0..(PresignHorizon + MaxPresignExpiry)
  BY <1>1, TimesAreWritten, Zenon
<1>3. date \in Seq(Byte) /\ life \in Seq(Byte) /\ Number[(time \div 2) \div DaySeconds] \in Seq(Byte)
  BY <1>2, NumbersAreRead, Zenon
<1>4. cred \in Seq(Byte)
  <2>1. i.key \in Seq(Byte) /\ c.region \in Seq(Byte) /\ PS!SLASH \in Byte
    BY PresignConstants, PSBytes, KeptBytes, Zenon
  <2>2. QED
    BY <1>3, <2>1, Strings, Zenon DEF PS!credential, CredentialOf
<1>5. <<52>> \in Seq(Byte) /\ <<104>> \in Seq(Byte)
  <2>1. 52 \in Byte /\ 104 \in Byte
    BY DEF Byte
  <2>2. QED
    BY <2>1, Strings, Zenon
<1>6. UrlParameters(c, k, i, time) = q \o mid \o tail
  <2>1. PS!format_timestamp(time).amz_date = time \div 2 /\ PS!format_timestamp(time).date = (time \div 2) \div DaySeconds
    BY DEF PS!format_timestamp
  <2> DEFINE stamp == PS!format_timestamp(time)
             b1 == <<PS!CREDENTIAL, PS!credential(i, stamp.date, c.region)>>
             d1 == <<PS!DATE, Number[stamp.amz_date]>>
  <2>2. stamp.amz_date = time \div 2 /\ stamp.date = (time \div 2) \div DaySeconds
    BY <2>1, Zenon
  <2> HIDE DEF stamp
  <2>3. PS!parameters(i, stamp, q, k.expires \div 2, c.region) = q \o <<a, b1, d1, e, h>> \o tail
    BY Zenon DEF PS!parameters, PairOf
  <2>4. b1 = b /\ d1 = d
    BY <2>2, Zenon DEF CredentialOf, PairOf
  <2> HIDE DEF b1, d1, a, b, d, e, h, tail
  <2>5. PS!parameters(i, stamp, q, k.expires \div 2, c.region) = q \o mid \o tail
    BY <2>3, <2>4, Zenon
  <2>6. QED
    BY <2>5, Zenon DEF UrlParameters, stamp
<1>7. a \in Pairs /\ b \in Pairs /\ d \in Pairs /\ e \in Pairs /\ h \in Pairs
  <2> HIDE DEF cred, date, life
  <2> QED
    BY <1>3, <1>4, <1>5, NamesDiffer, MakePair, Zenon
<1>8. q \in Seq(Pairs)
  BY CallFacts, Zenon DEF GoodQuery
<1>9. tail \in Seq(Pairs) /\ Elements(tail) = TokenParameters(i)
  <2>1. CASE i.token = {}
    <3>1. tail = <<>> /\ TokenParameters(i) = {}
      BY <2>1, Zenon DEF TokenParameters
    <3>2. QED
      BY <3>1, ElementsOfFew, Zenon
  <2>2. CASE i.token # {}
    <3> DEFINE t0 == CHOOSE t \in i.token : TRUE
               p0 == PairOf(PS!TOKEN, t0)
    <3>1. t0 \in i.token
      BY <2>2, Zenon
    <3>3. tail = <<p0>>
      BY <2>2, Zenon
    <3>a. i.token \subseteq Seq(Byte) /\ \A s, t \in i.token : s = t
      BY PresignConstants, Zenon
    <3> HIDE DEF t0
    <3>2. i.token = {t0} /\ t0 \in Seq(Byte)
      BY <3>1, <3>a, Zenon
    <3>4. p0 \in Pairs /\ TokenParameters(i) = {p0}
      BY <3>2, NamesDiffer, MakePair, Zenon DEF TokenParameters
    <3> HIDE DEF p0, tail
    <3>5. QED
      BY <3>3, <3>4, ElementsOfFew, Zenon
  <2>3. QED
    BY <2>1, <2>2
<1> HIDE DEF a, b, d, e, h, q, tail
<1>10. mid \in Seq(Pairs) /\ Elements(mid) = all5
  BY <1>7, ElementsOfFive
<1> HIDE DEF mid, all5
<1>11. q \o mid \in Seq(Pairs) /\ Elements(q \o mid) = Elements(q) \cup all5
  BY <1>8, <1>10, ElementsConcat
<1> DEFINE front == q \o mid
<1>f. front \in Seq(Pairs) /\ tail \in Seq(Pairs)
  BY <1>9, <1>11, Zenon
<1> HIDE DEF front
<1>12. front \o tail \in Seq(Pairs) /\ Elements(front \o tail) = Elements(front) \cup Elements(tail)
  BY <1>f, ElementsConcat
<1>13. /\ UrlParameters(c, k, i, time) \in Seq(Pairs)
       /\ Elements(UrlParameters(c, k, i, time)) = Elements(q) \cup all5 \cup TokenParameters(i)
  BY <1>6, <1>9, <1>11, <1>12, Zenon DEF front
<1>14. all5 = AddedParameters(c, k, i, time)
  BY Zenon DEF all5, a, b, d, e, h, AddedParameters
<1>15. QED
  BY <1>4, <1>13, <1>14, Zenon DEF q

(* The service reads under each name what was written under it. *)
LEMMA ReceivedIs ==
    ASSUME NEW ps \in Seq(Pairs), NEW r, r.url.query = canonical_query(ps), NEW name
    PROVE  PS!Received(r, name) = {p[2] : p \in {p \in Elements(ps) : p[1] = name}}
<1> DEFINE pairs == ServiceParameters(canonical_query(ps))
           W == {p[2] : p \in {p \in Elements(ps) : p[1] = name}}
           R == UNION {pairs[i][2] : i \in {i \in DOMAIN pairs : pairs[i][1] = {name}}}
<1>1. PS!Received(r, name) = R
  <2>1. PS!ServiceParameters(r.url.query) = pairs
    BY PSQuery, Zenon
  <2> HIDE DEF pairs
  <2>2. QED
    BY <2>1, Zenon DEF PS!Received
<1>2. /\ \A i \in DOMAIN pairs : \E p \in Elements(ps) : pairs[i] = <<{p[1]}, {p[2]}>>
      /\ \A p \in Elements(ps) : \E i \in DOMAIN pairs : pairs[i] = <<{p[1]}, {p[2]}>>
  BY QueryIsCanonical, Zenon
<1>3. \A p, q : p = <<{q[1]}, {q[2]}>> => p[1] = {q[1]} /\ p[2] = {q[2]}
  OBVIOUS
<1> HIDE DEF pairs
<1>4. ASSUME NEW v \in R PROVE v \in W
  <2>1. PICK i \in DOMAIN pairs : pairs[i][1] = {name} /\ v \in pairs[i][2]
    BY <1>4, Zenon
  <2>2. PICK p \in Elements(ps) : pairs[i] = <<{p[1]}, {p[2]}>>
    BY <1>2, Zenon
  <2>3. pairs[i][1] = {p[1]} /\ pairs[i][2] = {p[2]}
    BY <1>3, <2>2, Zenon
  <2>4. p[1] = name /\ v = p[2]
    BY <2>1, <2>3, Zenon
  <2>5. QED
    BY <2>4, Zenon
<1>5. ASSUME NEW v \in W PROVE v \in R
  <2>1. PICK p \in Elements(ps) : p[1] = name /\ v = p[2]
    BY <1>5, Zenon
  <2>2. PICK i \in DOMAIN pairs : pairs[i] = <<{p[1]}, {p[2]}>>
    BY <1>2, Zenon
  <2>3. pairs[i][1] = {p[1]} /\ pairs[i][2] = {p[2]}
    BY <1>3, <2>2, Zenon
  <2>5. pairs[i][1] = {name} /\ v \in pairs[i][2]
    BY <2>1, <2>3
  <2>6. QED
    BY <2>5, Zenon
<1>6. QED
  BY <1>1, <1>4, <1>5, Zenon

(* What the service reads in the query of r. *)
Receives(r, c, k, i, time) ==
    /\ PS!Received(r, PS!CREDENTIAL) = {CredentialOf(c, i, time)}
    /\ PS!Received(r, PS!DATE) = {Number[time \div 2]}
    /\ PS!Received(r, PS!EXPIRES) = {Number[k.expires \div 2]}
    /\ PS!Received(r, PS!TOKEN) = i.token

LEMMA UrlReceived ==
    ASSUME NEW c \in PresignClients, NEW k \in PS!Calls, NEW i \in PresignIdentities,
           NEW time \in 0..PresignHorizon, PS!ValidExpiry(k.expires),
           NEW r, r.url.query = canonical_query(UrlParameters(c, k, i, time))
    PROVE  Receives(r, c, k, i, time)
<1> DEFINE ps == UrlParameters(c, k, i, time)
           E == Elements(ps)
           Q == Elements(k.query)
           cred == CredentialOf(c, i, time)
           date == Number[time \div 2]
           life == Number[k.expires \div 2]
           a == PairOf(PS!ALGORITHM, <<52>>)
           b == PairOf(PS!CREDENTIAL, cred)
           d == PairOf(PS!DATE, date)
           e == PairOf(PS!EXPIRES, life)
           h == PairOf(PS!SIGNEDHEADERS, <<104>>)
           W(name) == {p[2] : p \in {p \in E : p[1] = name}}
           added == AddedParameters(c, k, i, time)
<1>1. ps \in Seq(Pairs) /\ E = Q \cup added \cup TokenParameters(i)
  BY ParametersAre, Zenon
<1>2. added = {a, b, d, e, h}
  BY Zenon DEF AddedParameters
<1>3. /\ a[1] = PS!ALGORITHM /\ b[1] = PS!CREDENTIAL /\ b[2] = cred /\ d[1] = PS!DATE /\ d[2] = date
      /\ e[1] = PS!EXPIRES /\ e[2] = life /\ h[1] = PS!SIGNEDHEADERS
  BY PairOfParts, Zenon
<1>4. \A p \in Q : Brought(p[1])
  BY CallFacts, Zenon DEF GoodQuery
<1>5. ASSUME NEW p \in TokenParameters(i) PROVE p[1] = PS!TOKEN /\ p[2] \in i.token
  <2>1. PICK t \in i.token : p = PairOf(PS!TOKEN, t)
    BY <1>5, Zenon DEF TokenParameters
  <2>2. PairOf(PS!TOKEN, t)[1] = PS!TOKEN /\ PairOf(PS!TOKEN, t)[2] = t
    BY PairOfParts, Zenon
  <2>3. QED
    BY <2>1, <2>2, Zenon
<1>6. ASSUME NEW t \in i.token PROVE \E p \in TokenParameters(i) : p[1] = PS!TOKEN /\ p[2] = t
  <2>1. PairOf(PS!TOKEN, t) \in TokenParameters(i)
    BY Zenon DEF TokenParameters
  <2>2. PairOf(PS!TOKEN, t)[1] = PS!TOKEN /\ PairOf(PS!TOKEN, t)[2] = t
    BY PairOfParts, Zenon
  <2>3. QED
    BY <2>1, <2>2, Zenon
<1>7. \A name : PS!Received(r, name) = W(name)
  BY <1>1, ReceivedIs, Zenon
<1> HIDE DEF ps, E, Q, cred, date, life, a, b, d, e, h, added
<1>8. ASSUME NEW p \in E
      PROVE  p \in Q \/ p = a \/ p = b \/ p = d \/ p = e \/ p = h \/ p \in TokenParameters(i)
  BY <1>1, <1>2, <1>8, Zenon
<1>9. b \in E /\ d \in E /\ e \in E /\ \A p \in TokenParameters(i) : p \in E
  BY <1>1, <1>2, Zenon
<1>10. \A p \in E : p[1] = PS!CREDENTIAL => p = b
  BY <1>3, <1>4, <1>5, <1>8, NamesDiffer, Zenon DEF Brought
<1>11. \A p \in E : p[1] = PS!DATE => p = d
  BY <1>3, <1>4, <1>5, <1>8, NamesDiffer, Zenon DEF Brought
<1>12. \A p \in E : p[1] = PS!EXPIRES => p = e
  BY <1>3, <1>4, <1>5, <1>8, NamesDiffer, Zenon DEF Brought
<1>13. \A p \in E : p[1] = PS!TOKEN => p \in TokenParameters(i)
  BY <1>3, <1>4, <1>5, <1>8, NamesDiffer, Zenon DEF Brought
<1>14. W(PS!CREDENTIAL) = {cred}
  BY <1>3, <1>9, <1>10, Zenon
<1>15. W(PS!DATE) = {date}
  BY <1>3, <1>9, <1>11, Zenon
<1>16. W(PS!EXPIRES) = {life}
  BY <1>3, <1>9, <1>12, Zenon
<1>17. W(PS!TOKEN) = i.token
  <2>1. ASSUME NEW v \in W(PS!TOKEN) PROVE v \in i.token
    BY <1>5, <1>13, <2>1, Zenon
  <2>2. ASSUME NEW t \in i.token PROVE t \in W(PS!TOKEN)
    BY <1>6, <1>9, Zenon
  <2>3. QED
    BY <2>1, <2>2, Zenon
<1>18. QED
  BY <1>7, <1>14, <1>15, <1>16, <1>17, Zenon DEF Receives, cred, date, life

(* What sign_presigned makes of a client, a call, an identity, a target and  *)
(* a moment.                                                                 *)
SignedUrl(c, k, i, t, time) ==
    [method |-> k.method,
     url |-> PS!with_query(t, PS!canonical_query(UrlParameters(c, k, i, time))),
     signature |-> [secret |-> i.secret, stamp |-> PS!format_timestamp(time), region |-> c.region,
                    canonical |-> [method |-> k.method,
                                   uri |-> PS!canonical_uri_from_encoded(t.path),
                                   query |-> PS!canonical_query(UrlParameters(c, k, i, time)),
                                   host |-> t.authority, payload |-> "UNSIGNED"]]]

LEMMA SignPresignedIs ==
    ASSUME NEW i, NEW t, NEW time
    PROVE  /\ PS!sign_presigned(i, t, time) \in {{}, {SignedUrl(cfg, call, i, t, time)}}
           /\ PS!sign_presigned(i, t, time) # {}
                => PS!canonical_uri_from_encoded(t.path) # {} /\ PS!ValidExpiry(call.expires)
BY Zenon DEF PS!sign_presigned, SignedUrl, UrlParameters

IsUrl(t) == t = [scheme |-> t.scheme, authority |-> t.authority, path |-> t.path, query |-> t.query]

(* What is in the URL r and in its signature. *)
HasParts(r, c, k, i, t, time) ==
    /\ r.method = k.method /\ r.url.authority = t.authority /\ r.url.path = t.path
    /\ r.url.query = canonical_query(UrlParameters(c, k, i, time))
    /\ r.signature = [secret |-> i.secret, region |-> c.region, canonical |-> r.signature.canonical,
                      stamp |-> [amz_date |-> time \div 2, date |-> (time \div 2) \div DaySeconds]]
    /\ r.signature.canonical.method = k.method
    /\ r.signature.canonical.uri = canonical_uri_from_encoded(t.path)
    /\ r.signature.canonical.query = canonical_query(UrlParameters(c, k, i, time))
    /\ r.signature.canonical.host = t.authority
    /\ r.signature.canonical.payload = "UNSIGNED"

LEMMA SignedUrlParts ==
    ASSUME NEW c, NEW k, NEW i, NEW time, NEW t, IsUrl(t)
    PROVE  HasParts(SignedUrl(c, k, i, t, time), c, k, i, t, time)
<1> DEFINE r == SignedUrl(c, k, i, t, time)
           a == t.authority
           p == t.path
           q == canonical_query(UrlParameters(c, k, i, time))
           stamp == PS!format_timestamp(time)
           u == canonical_uri_from_encoded(p)
           can == [method |-> k.method, uri |-> u, query |-> q, host |-> a, payload |-> "UNSIGNED"]
           link == [t EXCEPT !.query = q]
           sig == [secret |-> i.secret, stamp |-> stamp, region |-> c.region, canonical |-> can]
<1>1. t = [scheme |-> t.scheme, authority |-> a, path |-> p, query |-> t.query]
  BY Zenon DEF IsUrl
<1>2. PS!canonical_query(UrlParameters(c, k, i, time)) = q /\ PS!canonical_uri_from_encoded(p) = u
  BY PSQuery, PSDecode, Zenon
<1>3. PS!with_query(t, q) = link
  BY Zenon DEF PS!with_query
<1>6. r = [method |-> k.method, url |-> link, signature |-> sig]
  BY <1>2, <1>3, Zenon DEF SignedUrl
<1> HIDE DEF q, stamp, u, a, p
<1>4. link.authority = a /\ link.path = p /\ link.query = q
  BY <1>1
<1>5. /\ can.method = k.method /\ can.uri = u /\ can.query = q /\ can.host = a /\ can.payload = "UNSIGNED"
  OBVIOUS
<1> HIDE DEF link, can, r
<1>7. r.method = k.method /\ r.url = link /\ r.signature = sig
  BY <1>6
<1>8. sig.canonical = can
  OBVIOUS
<1>9. stamp = [amz_date |-> time \div 2, date |-> (time \div 2) \div DaySeconds]
  BY Zenon DEF stamp, PS!format_timestamp
<1>10. sig = [secret |-> i.secret, region |-> c.region, canonical |-> can,
              stamp |-> [amz_date |-> time \div 2, date |-> (time \div 2) \div DaySeconds]]
  BY <1>9
<1> HIDE DEF sig
<1>11. r.signature.canonical = can
  BY <1>7, <1>8, Zenon
<1>12. r.url.authority = a /\ r.url.path = p /\ r.url.query = q
  BY <1>4, <1>7, Zenon
<1>13. /\ r.signature.canonical.method = k.method /\ r.signature.canonical.uri = u
       /\ r.signature.canonical.query = q /\ r.signature.canonical.host = a
       /\ r.signature.canonical.payload = "UNSIGNED"
  BY <1>5, <1>11, Zenon
<1>14. r.signature = [secret |-> i.secret, region |-> c.region, canonical |-> r.signature.canonical,
                      stamp |-> [amz_date |-> time \div 2, date |-> (time \div 2) \div DaySeconds]]
  BY <1>7, <1>10, <1>11, Zenon
<1>15. HasParts(r, c, k, i, t, time)
  BY <1>7, <1>12, <1>13, <1>14, Zenon DEF HasParts, q, u, a, p
<1>16. QED
  BY <1>15, Zenon DEF r

(* The path of a URL whose base path was accepted. *)
LEMMA UrlPath ==
    ASSUME NEW c \in PresignClients, NEW k \in PS!Calls,
           NEW t \in PS!object_url(c.endpoint, c.bucket, k.key, c.style),
           PS!canonical_uri_from_encoded(t.path) # {}
    PROVE  /\ IsUrl(t)
           /\ canonical_uri_from_encoded(t.path)
                = {ServiceEncode(bytes, Unreserved \cup {SLASH}) : bytes \in decode_url_field(t.path)}
<1> DEFINE base == c.endpoint.base_path
           hosted == (c.style = "VirtualHosted")
           name == NameOf(c.bucket, k.key, hosted)
           path == PathOf(base, c.bucket, k.key, hosted)
<1>1. /\ c.bucket \in Seq(Byte) /\ base \in Seq(Byte) /\ Rooted(base)
      /\ WellEncoded(base) => Minimal(base)
  BY PresignConstants, Zenon
<1>2. k.key \in Seq(Byte)
  BY CallFacts, Zenon
<1>3. t \in object_url(c.endpoint, c.bucket, k.key, c.style)
  BY PSUrl, Zenon
<1>4. t = [scheme |-> c.endpoint.scheme, authority |-> Authority(c.endpoint, c.bucket, c.style),
           path |-> path, query |-> <<>>]
  <2>1. /\ t = [scheme |-> c.endpoint.scheme, authority |-> Authority(c.endpoint, c.bucket, c.style),
                path |-> PathOf(c.endpoint.base_path, c.bucket, k.key, c.style = "VirtualHosted"), query |-> <<>>]
        /\ validate_bucket_for_path(c.bucket)
    BY <1>1, <1>2, <1>3, ObjectUrlIs, Zenon
  <2>2. QED
    BY <2>1, Zenon
<1>5. name \in Seq(Byte)
  BY <1>1, <1>2, NameType, Zenon
<1>6. path = base \o ServiceEncode(name, PathBytes) \/ (path = Front(base) /\ Len(base) > 1)
  BY Zenon DEF PathOf
<1> HIDE DEF base, name, path
<1>7. /\ path \in Seq(Byte) /\ path # <<>> /\ path[1] = SLASH
      /\ WellEncoded(path) <=> WellEncoded(base)
      /\ WellEncoded(base) /\ Minimal(base) => Minimal(path)
  BY <1>1, <1>5, <1>6, PathFacts, Zenon
<1>8. t.path = path /\ IsUrl(t)
  BY <1>4 DEF IsUrl
<1>9. canonical_uri_from_encoded(path) # {}
  BY <1>8, PSDecode, Zenon
<1>10. WellEncoded(path)
  BY <1>9, Zenon DEF canonical_uri_from_encoded
<1>11. canonical_uri_from_encoded(path)
         = {ServiceEncode(bytes, Unreserved \cup {SLASH}) : bytes \in decode_url_field(path)}
  BY <1>1, <1>7, <1>10, UriIsCanonical, Zenon
<1>12. QED
  BY <1>8, <1>11, Zenon

(* The service accepts the signature of every URL that was signed. *)
LEMMA UrlVerifies ==
    ASSUME cfg \in PresignClients, NEW k \in PS!Calls, NEW i \in PresignIdentities,
           NEW time \in 0..PresignHorizon, PS!ValidExpiry(k.expires),
           NEW t \in PS!object_url(cfg.endpoint, cfg.bucket, k.key, cfg.style),
           PS!canonical_uri_from_encoded(t.path) # {}
    PROVE  PS!ServiceVerifies(SignedUrl(cfg, k, i, t, time))
<1> DEFINE r == SignedUrl(cfg, k, i, t, time)
           ps == UrlParameters(cfg, k, i, time)
           q == canonical_query(ps)
           signed == r.signature.canonical
           amz == Number[time \div 2]
           seen == PS!ServiceParameters(r.url.query)
           back == [j \in DOMAIN seen |-> <<CHOOSE n \in seen[j][1] : TRUE, CHOOSE v \in seen[j][2] : TRUE>>]
           a == t.authority
           p == t.path
<1>1. /\ IsUrl(t)
      /\ canonical_uri_from_encoded(p)
           = {ServiceEncode(bytes, Unreserved \cup {SLASH}) : bytes \in decode_url_field(p)}
  BY UrlPath, Zenon
<1>0. HasParts(r, cfg, k, i, t, time)
  BY <1>1, SignedUrlParts, Zenon
<1>2. /\ r.method = k.method /\ r.url.authority = a /\ r.url.path = p /\ r.url.query = q
      /\ r.signature = [secret |-> i.secret, region |-> cfg.region, canonical |-> signed,
                        stamp |-> [amz_date |-> time \div 2, date |-> (time \div 2) \div DaySeconds]]
      /\ signed.method = k.method /\ signed.uri = canonical_uri_from_encoded(p)
      /\ signed.query = q /\ signed.host = a /\ signed.payload = "UNSIGNED"
  BY <1>0, Zenon DEF HasParts
<1>3. ps \in Seq(Pairs)
  BY ParametersAre, Zenon
<1>4. /\ PS!Received(r, PS!CREDENTIAL) = {CredentialOf(cfg, i, time)}
      /\ PS!Received(r, PS!DATE) = {amz}
      /\ PS!Received(r, PS!TOKEN) = i.token
  <2> HIDE DEF r
  <2>1. r.url.query = canonical_query(UrlParameters(cfg, k, i, time))
    BY <1>2, Zenon
  <2>2. Receives(r, cfg, k, i, time)
    BY <2>1, UrlReceived, Zenon
  <2>3. QED
    BY <2>2, Zenon DEF Receives
<1>5. PS!NumberIn(amz) = time \div 2
  <2>1. k.expires \in Nat /\ k.expires \div 2 \in 1..MaxPresignExpiry
    BY CallFacts, Zenon DEF PS!ValidExpiry
  <2>2. QED
    BY <2>1, TimesAreWritten, NumbersAreRead, Zenon
<1>6. PS!IsCanonicalQuery(signed.query, back)
  <2>1. seen = ServiceParameters(q)
    BY <1>2, PSQuery, Zenon
  <2>2. IsCanonicalQuery(q, ReadBack(ServiceParameters(q)))
    BY <1>3, QueryIsCanonical, Zenon
  <2> HIDE DEF seen, q
  <2>3. ReadBack(seen) = back
    BY Zenon DEF ReadBack
  <2> HIDE DEF back
  <2>4. QED
    BY <1>2, <2>1, <2>2, <2>3, PSQuery, Zenon
<1>7. signed.uri = {PS!ServiceEncode(bytes, PS!Unreserved \cup {PS!SLASH}) : bytes \in PS!decode_url_field(r.url.path)}
  <2>1. {ServiceEncode(bytes, Unreserved \cup {SLASH}) : bytes \in decode_url_field(p)}
          = {PS!ServiceEncode(bytes, PS!Unreserved \cup {PS!SLASH}) : bytes \in PS!decode_url_field(p)}
    BY PSDecode, PSBytes, Zenon
  <2>2. signed.uri = {PS!ServiceEncode(bytes, PS!Unreserved \cup {PS!SLASH}) : bytes \in PS!decode_url_field(p)}
    BY <1>1, <1>2, <2>1, Zenon
  <2>3. QED
    BY <1>2, <2>2, Zenon
<1>8. signed.method = r.method /\ signed.host = r.url.authority /\ signed.payload = "UNSIGNED"
  BY <1>2, Zenon
<1>9. CredentialOf(cfg, i, time) = i.key \o <<PS!SLASH>> \o Number[(time \div 2) \div DaySeconds] \o <<PS!SLASH>> \o cfg.region
  BY Zenon DEF CredentialOf, PS!credential
<1>10. r.signature = [secret |-> i.secret, region |-> cfg.region, canonical |-> signed,
                      stamp |-> [amz_date |-> PS!NumberIn(amz), date |-> PS!NumberIn(amz) \div DaySeconds]]
  BY <1>2, <1>5, Zenon
<1>11. PS!Received(r, PS!CREDENTIAL)
         = {i.key \o <<PS!SLASH>> \o Number[PS!NumberIn(amz) \div DaySeconds] \o <<PS!SLASH>> \o cfg.region}
  BY <1>4, <1>5, <1>9, Zenon
<1>12. amz \in PS!Received(r, PS!DATE)
  BY <1>4, Zenon
<1> HIDE DEF r, amz
<1>13. PS!ServiceVerifies(r)
  BY <1>4, <1>6, <1>7, <1>8, <1>10, <1>11, <1>12, Zenon DEF PS!ServiceVerifies
<1>14. QED
  BY <1>13, Zenon DEF r

(* The service reads the second in which the URL was made, and its lifetime. *)
LEMMA UrlEndIs ==
    ASSUME NEW c \in PresignClients, NEW k \in PS!Calls, NEW i \in PresignIdentities,
           NEW time \in 0..PresignHorizon, PS!ValidExpiry(k.expires),
           NEW t \in PS!object_url(c.endpoint, c.bucket, k.key, c.style),
           PS!canonical_uri_from_encoded(t.path) # {}
    PROVE  PS!UrlEnd(SignedUrl(c, k, i, t, time)) = (time \div 2) + (k.expires \div 2)
<1> DEFINE r == SignedUrl(c, k, i, t, time)
           m == time \div 2
           n == k.expires \div 2
<1>1. IsUrl(t)
  BY UrlPath, Zenon
<1>2. HasParts(r, c, k, i, t, time)
  BY <1>1, SignedUrlParts, Zenon
<1>3. PS!Received(r, PS!DATE) = {Number[m]} /\ PS!Received(r, PS!EXPIRES) = {Number[n]}
  <2> HIDE DEF r
  <2>1. r.url.query = canonical_query(UrlParameters(c, k, i, time))
    BY <1>2, Zenon DEF HasParts
  <2>2. Receives(r, c, k, i, time)
    BY <2>1, UrlReceived, Zenon
  <2>3. QED
    BY <2>2, Zenon DEF Receives
<1>4. PS!NumberIn(Number[m]) = m /\ PS!NumberIn(Number[n]) = n
  <2>1. k.expires \in Nat /\ k.expires \div 2 \in 1..MaxPresignExpiry
    BY CallFacts, Zenon DEF PS!ValidExpiry
  <2>2. QED
    BY <2>1, TimesAreWritten, NumbersAreRead, Zenon
<1>5. \A x : (CHOOSE d \in {x} : TRUE) = x
  BY Zenon
<1> HIDE DEF r, m, n
<1>6. PS!UrlEnd(r) = m + n
  BY <1>3, <1>4, <1>5, Zenon DEF PS!UrlEnd
<1>7. QED
  BY <1>6, Zenon DEF r, m, n

(* Half seconds and seconds. *)
LEMMA HalfSeconds ==
    ASSUME NEW time \in Nat, NEW expires \in Nat, PS!ValidExpiry(expires)
    PROVE  LET end == (time \div 2) + (expires \div 2)
           IN  /\ end \in Nat
               /\ 2 * end <= time + expires /\ 2 * end > time + expires - 2
<1>1. expires % 2 = 0
  BY DEF PS!ValidExpiry
<1>2. QED
  BY <1>1

(* The URL u was signed for the call k of the client c: with what, when, and *)
(* with credentials that outlive it.                                         *)
IssuedFor(u, c, k) ==
    /\ u.at \in 0..PresignHorizon
    /\ PS!ValidExpiry(k.expires)
    /\ \E i \in PresignIdentities : \E t \in PS!object_url(c.endpoint, c.bucket, k.key, c.style) :
          /\ u.identity = i /\ u.request = SignedUrl(c, k, i, t, u.at)
          /\ PS!canonical_uri_from_encoded(t.path) # {}
          /\ \A ends \in i.expires : u.at + k.expires < ends

(* The inductive invariant of a presigned URL. *)
PresignInv ==
    /\ PS!TypeOK
    /\ at # "done" => url = {} /\ failure = "none"
    /\ url = {} => answer = "none"
    /\ \A u \in url : IssuedFor(u, cfg, call) /\ u.at <= clock
    /\ \A u, v \in url : u = v
    /\ PS!UrlsAreNeverForbidden /\ PS!UrlsLiveAsLongAsAsked

(* What the service answers to the holder of a URL. *)
LEMMA UseInv ==
    ASSUME PresignInv, PS!Use
    PROVE  PresignInv'
<1>1. UNCHANGED <<clock, cfg, call, at, url, failure>>
  BY Zenon DEF PS!Use
<1>2. PICK u \in url :
        answer' = IF ~PS!ServiceVerifies(u.request) THEN "forbidden"
                  ELSE IF clock >= 2 * PS!UrlEnd(u.request) THEN "url expired"
                  ELSE IF \E ends \in u.identity.expires : ends <= clock THEN "credentials expired"
                  ELSE "ok"
  BY Zenon DEF PS!Use
<1>3. /\ cfg \in PresignClients /\ call \in PS!Calls /\ clock \in 0..PresignHorizon
      /\ IssuedFor(u, cfg, call) /\ \A v \in url : v = u
  BY Zenon DEF PresignInv, PS!TypeOK
<1>4. u.at \in 0..PresignHorizon /\ PS!ValidExpiry(call.expires)
  BY <1>3, Zenon DEF IssuedFor
<1>5. PICK i \in PresignIdentities :
        \E t \in PS!object_url(cfg.endpoint, cfg.bucket, call.key, cfg.style) :
          /\ u.identity = i /\ u.request = SignedUrl(cfg, call, i, t, u.at)
          /\ PS!canonical_uri_from_encoded(t.path) # {}
          /\ \A ends \in i.expires : u.at + call.expires < ends
  BY <1>3, Zenon DEF IssuedFor
<1>6. PICK t \in PS!object_url(cfg.endpoint, cfg.bucket, call.key, cfg.style) :
          /\ u.identity = i /\ u.request = SignedUrl(cfg, call, i, t, u.at)
          /\ PS!canonical_uri_from_encoded(t.path) # {}
          /\ \A ends \in i.expires : u.at + call.expires < ends
  BY <1>5, Zenon
<1>7. PS!ServiceVerifies(u.request)
  <2>1. PS!ServiceVerifies(SignedUrl(cfg, call, i, t, u.at))
    BY <1>3, <1>4, <1>6, UrlVerifies, Zenon
  <2>2. QED
    BY <1>6, <2>1, Zenon
<1> DEFINE end == (u.at \div 2) + (call.expires \div 2)
<1>8. PS!UrlEnd(u.request) = end
  <2>1. PS!UrlEnd(SignedUrl(cfg, call, i, t, u.at)) = end
    BY <1>3, <1>4, <1>6, UrlEndIs, Zenon
  <2>2. QED
    BY <1>6, <2>1, Zenon
<1>9. u.at \in Nat /\ call.expires \in Nat /\ clock \in Nat
  BY <1>3, <1>4, CallFacts, PresignNumbers
<1>10. end \in Nat /\ 2 * end <= u.at + call.expires /\ 2 * end > u.at + call.expires - 2
  BY <1>4, <1>9, HalfSeconds, Zenon
<1>11. \A ends \in u.identity.expires : ends \in Nat /\ u.at + call.expires < ends
  BY <1>6, PresignConstants, Zenon
<1> HIDE DEF end
<1>12. answer' = IF clock >= 2 * end THEN "url expired"
                 ELSE IF \E ends \in u.identity.expires : ends <= clock THEN "credentials expired"
                 ELSE "ok"
  BY <1>2, <1>7, <1>8, Zenon
<1>13. \/ answer' = "url expired" /\ clock > u.at + call.expires - 2
       \/ answer' = "ok" /\ clock < u.at + call.expires
  <2>1. CASE clock >= 2 * end
    <3>1. answer' = "url expired"
      BY <1>12, <2>1, Zenon
    <3>2. clock > u.at + call.expires - 2
      BY <1>9, <1>10, <2>1
    <3>3. QED
      BY <3>1, <3>2, Zenon
  <2>2. CASE ~(clock >= 2 * end)
    <3>1. \A ends \in u.identity.expires : ~(ends <= clock)
      BY <1>9, <1>10, <1>11, <2>2
    <3>2. answer' = "ok"
      BY <1>12, <2>2, <3>1, Zenon
    <3>3. clock < u.at + call.expires
      BY <1>9, <1>10, <2>2
    <3>4. QED
      BY <3>2, <3>3, Zenon
  <2>3. QED
    BY <2>1, <2>2
<1>14. PS!UrlsAreNeverForbidden'
  BY <1>13 DEF PS!UrlsAreNeverForbidden
<1>15. PS!UrlsLiveAsLongAsAsked'
  <2>1. SUFFICES ASSUME NEW v \in url'
                 PROVE  /\ answer' = "ok" => clock' < v.at + call'.expires
                        /\ answer' = "url expired" => clock' > v.at + call'.expires - 2
    BY Zenon DEF PS!UrlsLiveAsLongAsAsked
  <2>2. v = u
    BY <1>1, <1>3, Zenon
  <2>3. QED
    BY <1>1, <1>13, <2>2
<1>16. answer' \in {"none", "forbidden", "url expired", "credentials expired", "ok"}
  BY <1>13
<1>17. PS!TypeOK'
  BY <1>1, <1>16, Zenon DEF PresignInv, PS!TypeOK
<1>18. (at # "done" => url = {} /\ failure = "none")' /\ (url = {} => answer = "none")' /\ (\A u_1, v \in url : u_1 = v)'
  BY <1>1, <1>2, Zenon DEF PresignInv
<1>19. (\A v \in url : IssuedFor(v, cfg, call) /\ v.at <= clock)'
  BY <1>1, Zenon DEF PresignInv, IssuedFor
<1>20. QED
  BY <1>14, <1>15, <1>17, <1>18, <1>19, Zenon DEF PresignInv

(* A step that issues no URL and that nobody is answered by. *)
LEMMA QuietInv ==
    ASSUME PresignInv, UNCHANGED <<cfg, call, url>>,
           answer' = "none" \/ UNCHANGED <<clock, answer>>,
           clock' \in 0..PresignHorizon, clock <= clock',
           at' \in {"call", "provide", "done"},
           failure' \in {"none", "expired", "outlives", "signing", "provider"},
           at' # "done" => url = {} /\ failure' = "none",
           url # {} => at' = "done" /\ failure' = "none"
    PROVE  PresignInv'
<1>1. PS!TypeOK'
  BY Zenon DEF PresignInv, PS!TypeOK
<1>2. (at # "done" => url = {} /\ failure = "none")' /\ (url = {} => answer = "none")' /\ (\A u, v \in url : u = v)'
  BY Zenon DEF PresignInv
<1>3. ASSUME NEW u \in url' PROVE IssuedFor(u, cfg, call)' /\ u.at <= clock'
  <2>1. IssuedFor(u, cfg, call) /\ u.at <= clock /\ clock \in 0..PresignHorizon
    BY <1>3, Zenon DEF PresignInv, PS!TypeOK
  <2>2. IssuedFor(u, cfg, call)'
    BY <2>1, Zenon DEF IssuedFor
  <2>3. u.at \in 0..PresignHorizon
    BY <2>1, Zenon DEF IssuedFor
  <2>4. u.at <= clock'
    BY <2>1, <2>3, PresignNumbers
  <2>5. QED
    BY <2>2, <2>4, Zenon
<1>4. PS!UrlsAreNeverForbidden' /\ PS!UrlsLiveAsLongAsAsked'
  <2>1. CASE answer' = "none"
    BY <2>1 DEF PS!UrlsAreNeverForbidden, PS!UrlsLiveAsLongAsAsked
  <2>2. CASE UNCHANGED <<clock, answer>>
    BY <2>2, Zenon DEF PresignInv, PS!UrlsAreNeverForbidden, PS!UrlsLiveAsLongAsAsked
  <2>3. QED
    BY <2>1, <2>2, Zenon
<1>5. QED
  BY <1>1, <1>2, <1>3, <1>4, Zenon DEF PresignInv

LEMMA SameClock == clock \in 0..PresignHorizon => clock <= clock
BY PresignNumbers

LEMMA PresignFailInv ==
    ASSUME PresignInv, at = "provide", NEW kind \in {"expired", "outlives", "signing", "provider"}, PS!Fail(kind)
    PROVE  PresignInv'
<1>1. at' = "done" /\ failure' = kind /\ UNCHANGED <<clock, cfg, call, url, answer>>
  BY Zenon DEF PS!Fail
<1>2. url = {} /\ clock \in 0..PresignHorizon
  BY Zenon DEF PresignInv, PS!TypeOK
<1>3. clock' \in 0..PresignHorizon /\ clock <= clock'
  BY <1>1, <1>2, SameClock, Zenon
<1>4. QED
  BY <1>1, <1>2, <1>3, QuietInv, Zenon

(* The URL that is issued. *)
LEMMA ProvideInv ==
    ASSUME PresignInv, NEW i \in PresignIdentities, PS!Provide(i)
    PROVE  PresignInv'
<1>1. at = "provide"
  BY Zenon DEF PS!Provide
<1>2. CASE \E ends \in i.expires : ends <= clock
  BY <1>1, <1>2, PresignFailInv, Zenon DEF PS!Provide
<1>3. CASE PS!OutlivesCredentials(i, clock) /\ ~\E ends \in i.expires : ends <= clock
  BY <1>1, <1>3, PresignFailInv, Zenon DEF PS!Provide
<1>4. CASE ~PS!OutlivesCredentials(i, clock) /\ ~\E ends \in i.expires : ends <= clock
  <2>1. PICK t \in PS!object_url(cfg.endpoint, cfg.bucket, call.key, cfg.style) :
          IF PS!sign_presigned(i, t, clock) = {} THEN PS!Fail("signing")
          ELSE /\ url' = {[request |-> s, at |-> clock, identity |-> i] : s \in PS!sign_presigned(i, t, clock)}
               /\ at' = "done" /\ UNCHANGED <<clock, cfg, call, failure, answer>>
    BY <1>4, Zenon DEF PS!Provide
  <2>2. CASE PS!sign_presigned(i, t, clock) = {}
    BY <1>1, <2>1, <2>2, PresignFailInv, Zenon
  <2>3. CASE PS!sign_presigned(i, t, clock) # {}
    <3> DEFINE s0 == SignedUrl(cfg, call, i, t, clock)
               u0 == [request |-> s0, at |-> clock, identity |-> i]
    <3>1. /\ PS!sign_presigned(i, t, clock) = {s0}
          /\ PS!canonical_uri_from_encoded(t.path) # {} /\ PS!ValidExpiry(call.expires)
      BY <2>3, SignPresignedIs, Zenon
    <3>2. at' = "done" /\ UNCHANGED <<clock, cfg, call, failure, answer>>
      BY <2>1, <2>3, Zenon
    <3> HIDE DEF s0
    <3>3. url' = {u0}
      BY <2>1, <2>3, <3>1, Zenon
    <3>4. u0.request = s0 /\ u0.at = clock /\ u0.identity = i
      OBVIOUS
    <3> HIDE DEF u0
    <3>5. clock \in 0..PresignHorizon /\ call \in PS!Calls /\ url = {} /\ failure = "none"
      BY <1>1, Zenon DEF PresignInv, PS!TypeOK
    <3>6. \A ends \in i.expires : clock + call.expires < ends
      <4>1. \A ends \in i.expires : ~(clock + call.expires >= ends)
        BY <1>4, Zenon DEF PS!OutlivesCredentials
      <4>2. call.expires \in Nat /\ i.expires \subseteq Nat
        BY <3>5, CallFacts, PresignConstants, Zenon
      <4>3. QED
        BY <3>5, <4>1, <4>2, PresignNumbers
    <3>7. IssuedFor(u0, cfg, call)
      BY <3>1, <3>4, <3>5, <3>6, Zenon DEF IssuedFor, s0
    <3>8. IssuedFor(u0, cfg', call')
      BY <3>2, <3>7, Zenon
    <3>9. answer = "none" /\ cfg \in PresignClients
      BY <3>5, Zenon DEF PresignInv, PS!TypeOK
    <3>10. PS!TypeOK'
      BY <3>2, <3>5, <3>9, Zenon DEF PS!TypeOK
    <3>11. PS!UrlsAreNeverForbidden' /\ PS!UrlsLiveAsLongAsAsked'
      <4>1. answer' = "none"
        BY <3>2, <3>9, Zenon
      <4>2. QED
        BY <4>1 DEF PS!UrlsAreNeverForbidden, PS!UrlsLiveAsLongAsAsked
    <3>12. ASSUME NEW v \in url' PROVE IssuedFor(v, cfg', call') /\ v.at <= clock'
      <4>1. v = u0 /\ clock <= clock /\ clock' = clock
        BY <3>2, <3>3, <3>5, <3>12, SameClock, Zenon
      <4>2. QED
        BY <3>4, <3>8, <4>1, Zenon
    <3>13. (at # "done" => url = {} /\ failure = "none")' /\ (url = {} => answer = "none")' /\ (\A u, v \in url : u = v)'
      BY <3>2, <3>3, <3>9, Zenon
    <3>14. QED
      BY <3>10, <3>11, <3>12, <3>13, Zenon DEF PresignInv, IssuedFor
  <2>4. QED
    BY <2>2, <2>3
<1>5. QED
  BY <1>2, <1>3, <1>4, Zenon

LEMMA PresignStepInv ==
    ASSUME PresignInv, PS!Next
    PROVE  PresignInv'
<1>0. /\ clock \in 0..PresignHorizon /\ at \in {"call", "provide", "done"}
      /\ failure \in {"none", "expired", "outlives", "signing", "provider"}
      /\ at # "done" => url = {} /\ failure = "none"
      /\ url # {} => at = "done" /\ failure = "none"
  BY Zenon DEF PresignInv, PS!TypeOK
<1>1. CASE PS!Call
  <2>1. at = "call" /\ at' = "provide" /\ UNCHANGED <<clock, cfg, call, url, failure, answer>>
    BY <1>1, Zenon DEF PS!Call
  <2>2. url = {} /\ failure' = "none"
    BY <1>0, <2>1
  <2>3. clock' \in 0..PresignHorizon /\ clock <= clock' /\ at' \in {"call", "provide", "done"}
    BY <1>0, <2>1, SameClock, Zenon
  <2>4. QED
    BY <2>1, <2>2, <2>3, QuietInv, Zenon
<1>2. CASE PS!ProviderFails
  BY <1>2, PresignFailInv, Zenon DEF PS!ProviderFails
<1>3. CASE PS!Tick
  <2>1. clock < PresignHorizon /\ clock' = clock + 1 /\ answer' = "none" /\ UNCHANGED <<cfg, call, at, url, failure>>
    BY <1>3, Zenon DEF PS!Tick
  <2>2. clock' \in 0..PresignHorizon /\ clock <= clock'
    BY <1>0, <2>1, PresignNumbers
  <2>3. QED
    BY <1>0, <2>1, <2>2, QuietInv, Zenon
<1>4. CASE PS!Use
  BY <1>4, UseInv
<1>5. CASE \E i \in PresignIdentities : PS!Provide(i)
  BY <1>5, ProvideInv, Zenon
<1>6. QED
  BY <1>1, <1>2, <1>3, <1>4, <1>5, Zenon DEF PS!Next

LEMMA PresignInitInv == PS!Init => PresignInv
<1>1. SUFFICES ASSUME PS!Init PROVE PresignInv
  OBVIOUS
<1>2. /\ clock \in 0..1 /\ cfg \in PresignClients /\ call \in PS!Calls
      /\ at = "call" /\ url = {} /\ failure = "none" /\ answer = "none"
  BY <1>1, Zenon DEF PS!Init
<1>3. clock \in 0..PresignHorizon
  <2>1. PresignHorizon \in Nat \ {0}
    BY SigningAssumption, Zenon DEF PS!PresigningAssumption
  <2>2. QED
    BY <1>2, <2>1
<1>4. PS!TypeOK
  BY <1>2, <1>3, Zenon DEF PS!TypeOK
<1>5. PS!UrlsAreNeverForbidden /\ PS!UrlsLiveAsLongAsAsked
  BY <1>2 DEF PS!UrlsAreNeverForbidden, PS!UrlsLiveAsLongAsAsked
<1>6. QED
  BY <1>2, <1>4, <1>5, Zenon DEF PresignInv

LEMMA PresignSceneInv == Scenes => [](scene = "presign" => PresignInv)
<1> DEFINE I == scene = "presign" => PresignInv
<1>1. ScenesInit => I
  BY PresignInitInv DEF ScenesInit
<1>2. I /\ [ScenesNext]_all => I'
  <2>1. SUFFICES ASSUME I, [ScenesNext]_all, scene' = "presign" PROVE PresignInv'
    OBVIOUS
  <2>2. scene = "presign" /\ PresignInv
    BY <2>1 DEF ScenesNext, all
  <2>3. CASE ScenesNext
    BY <2>2, <2>3, PresignStepInv DEF ScenesNext
  <2>4. CASE UNCHANGED all
    <3>1. UNCHANGED <<clock, at, cfg, failure, call, url, answer>>
      BY <2>4 DEF all, both, presign
    <3>2. /\ clock \in 0..PresignHorizon /\ at \in {"call", "provide", "done"}
          /\ failure \in {"none", "expired", "outlives", "signing", "provider"}
          /\ at # "done" => url = {} /\ failure = "none"
          /\ url # {} => at = "done" /\ failure = "none"
      BY <2>2, Zenon DEF PresignInv, PS!TypeOK
    <3>3. clock' \in 0..PresignHorizon /\ clock <= clock'
      BY <3>1, <3>2, SameClock, Zenon
    <3>4. QED
      BY <2>2, <3>1, <3>2, <3>3, QuietInv, Zenon
  <2>5. QED
    BY <2>1, <2>3, <2>4
<1>3. QED
  BY <1>1, <1>2, PTL DEF Scenes

(* For any endpoints, keys, upload ids, identities and lifetimes, and        *)
(* however long the provider takes: a URL that presign returned is never     *)
(* refused for its signature or credentials, ends at most a second before    *)
(* the moment its caller asked for, and not after it.                        *)
THEOREM UrlsHonoured == Scenes => []UrlsAreHonoured
<1>1. (scene = "presign" => PresignInv) => UrlsAreHonoured
  BY DEF PresignInv, UrlsAreHonoured
<1>2. QED
  BY <1>1, PresignSceneInv, PTL
===============================================================================
