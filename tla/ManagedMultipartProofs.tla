------------------------ MODULE ManagedMultipartProofs ------------------------
(***************************************************************************)
(* Proofs about ManagedMultipart for every part count, concurrency and     *)
(* attempt limit.                                                          *)
(***************************************************************************)
EXTENDS ManagedMultipart, FiniteSetTheorems, WellFoundedInduction, TLAPS

-------------------------------------------------------------------------------
(* Lists of part numbers. *)

Ascending(s) == \A i, j \in 1..Len(s) : i < j => s[i] < s[j]

(* Part numbers are positive naturals. *)
LEMMA PartsAreNaturals == Parts \subseteq Nat \ {0}
BY DEF Parts

(* A non-empty set of naturals has a least element. *)
LEMMA LeastNatural ==
    ASSUME NEW T, T \subseteq Nat, T # {}
    PROVE  \E x \in T : \A y \in T : x <= y
<1>1. \E x \in T : \A y \in T : <<y, x>> \notin OpToRel(<, Nat)
  BY NatLessThanWellFounded, WFMin
<1>2. OpToRel(<, Nat) = {ss \in Nat \X Nat : ss[1] < ss[2]}
  BY Zenon DEF OpToRel
<1>3. \E x \in T : \A y \in T : <<y, x>> \notin {ss \in Nat \X Nat : ss[1] < ss[2]}
  BY <1>1, <1>2, Zenon
<1>4. \A x, y \in T : <<y, x>> \notin {ss \in Nat \X Nat : ss[1] < ss[2]} => x <= y
  OBVIOUS
<1>5. QED
  BY <1>3, <1>4, Zenon

(* The binary search finds a place for a part number that is not listed. *)
LEMMA InsertionPointExists ==
    ASSUME NEW s \in Seq(Parts), Ascending(s),
           NEW p \in Parts, p \notin Recorded(s)
    PROVE  /\ InsertionPoint(s, p) \in 0..Len(s)
           /\ \A j \in 1..InsertionPoint(s, p) : s[j] < p
           /\ \A j \in InsertionPoint(s, p) + 1..Len(s) : s[j] > p
<1> DEFINE T == {i \in 0..Len(s) : \A j \in i + 1..Len(s) : s[j] > p}
<1>1. Len(s) \in T /\ T \subseteq Nat
  OBVIOUS
<1>2. PICK i \in T : \A k \in T : i <= k
  BY <1>1, LeastNatural, Zenon
<1>3. ASSUME NEW j \in 1..i PROVE s[j] < p
  <2>1. j - 1 \notin T
    <3>1. i \in Nat /\ j \in Nat /\ j <= i
      BY <1>2
    <3>2. ~(i <= j - 1)
      BY <3>1
    <3>3. QED
      BY <1>2, <3>2, Zenon
  <2>2. PICK k \in j - 1 + 1..Len(s) : ~(s[k] > p)
    BY <2>1, <1>2, <1>3
  <2>3. s[k] # p /\ s[k] \in Parts /\ s[j] \in Parts
    BY <2>2, <1>2, <1>3 DEF Recorded
  <2>4. j = k \/ s[j] < s[k]
    BY <2>2, <1>2, <1>3 DEF Ascending
  <2>5. QED
    BY <2>2, <2>3, <2>4 DEF Parts
<1>4. QED
  BY <1>2, <1>3 DEF InsertionPoint

(* record_part keeps the list ascending and adds exactly the new part. *)
LEMMA RecordPart ==
    ASSUME NEW s \in Seq(Parts), Ascending(s),
           NEW p \in Parts, p \notin Recorded(s)
    PROVE  /\ record_part(s, p) \in Seq(Parts)
           /\ Ascending(record_part(s, p))
           /\ Recorded(record_part(s, p)) = Recorded(s) \cup {p}
<1> DEFINE k == InsertionPoint(s, p)
<1> DEFINE r == [i \in 1..Len(s) + 1 |-> IF i <= k THEN s[i]
                                         ELSE IF i = k + 1 THEN p ELSE s[i - 1]]
<1>1. /\ k \in 0..Len(s)
      /\ \A j \in 1..k : s[j] < p
      /\ \A j \in k + 1..Len(s) : s[j] > p
  BY InsertionPointExists
<1>2. record_part(s, p) = r
  BY DEF record_part
<1> HIDE DEF k
<1>3. r \in Seq(Parts) /\ Len(r) = Len(s) + 1
  BY <1>1
<1>4. Ascending(r)
  <2> SUFFICES ASSUME NEW i \in 1..Len(s) + 1, NEW j \in 1..Len(s) + 1, i < j
               PROVE  r[i] < r[j]
    BY <1>3 DEF Ascending
  <2>1. p \in Nat /\ \A m \in 1..Len(s) : s[m] \in Nat
    <3>1. \A m \in 1..Len(s) : s[m] \in Parts
      OBVIOUS
    <3>2. QED
      BY <3>1, PartsAreNaturals
  <2>2. CASE j <= k
    BY <2>2, <1>1 DEF Ascending
  <2>3. CASE j = k + 1
    BY <2>3, <1>1
  <2>4. CASE j > k + 1 /\ i <= k
    BY <2>4, <1>1 DEF Ascending
  <2>5. CASE j > k + 1 /\ i = k + 1
    BY <2>5, <1>1
  <2>6. CASE j > k + 1 /\ i > k + 1
    BY <2>6, <1>1 DEF Ascending
  <2>7. QED
    BY <2>2, <2>3, <2>4, <2>5, <2>6, <1>1
<1>5. Recorded(r) = Recorded(s) \cup {p}
  <2>1. Recorded(r) \subseteq Recorded(s) \cup {p}
    BY <1>1, <1>3 DEF Recorded
  <2>2. ASSUME NEW i \in 1..Len(s) PROVE s[i] \in Recorded(r)
    <3>1. CASE i <= k
      <4>1. r[i] = s[i] /\ i \in 1..Len(r)
        BY <3>1, <1>1, <1>3
      <4>2. QED
        BY <4>1, <1>3 DEF Recorded
    <3>2. CASE i > k
      <4>1. r[i + 1] = s[i] /\ i + 1 \in 1..Len(r)
        BY <3>2, <1>1, <1>3
      <4>2. QED
        BY <4>1, <1>3 DEF Recorded
    <3>3. QED
      BY <3>1, <3>2, <1>1
  <2>3. p \in Recorded(r)
    <3>1. r[k + 1] = p /\ k + 1 \in 1..Len(r)
      BY <1>1, <1>3
    <3>2. QED
      BY <3>1, <1>3 DEF Recorded
  <2>4. Recorded(s) \subseteq Recorded(r)
    <3> HIDE DEF r
    <3>1. QED
      BY <2>2 DEF Recorded
  <2>5. QED
    BY <2>1, <2>3, <2>4, Zenon
<1>6. QED
  BY <1>2, <1>3, <1>4, <1>5, Zenon

(* An ascending list of all part numbers is 1, 2, ..., PartCount. *)
LEMMA AscendingCover ==
    ASSUME NEW s \in Seq(Parts), Ascending(s), Recorded(s) = Parts
    PROVE  /\ s = [i \in Parts |-> i]
           /\ validate_completed_parts(s)
<1> USE PartCountAssumption
<1>1. \A i \in 1..Len(s) : s[i] \in 1..PartCount
  BY DEF Parts
<1>2. ASSUME NEW i \in 1..Len(s) PROVE s[i] = i
  <2> DEFINE T == {j \in 1..Len(s) : s[j] # j}
  <2> SUFFICES ASSUME T # {} PROVE FALSE
    BY <1>2
  <2>1. PICK m \in T : \A j \in T : m <= j
    BY LeastNatural, T \subseteq Nat, Zenon
  <2>2. \A j \in 1..m - 1 : s[j] = j
    BY <2>1
  <2>3. s[m] > m
    <3>1. CASE m = 1
      BY <3>1, <2>1, <1>1
    <3>2. CASE m > 1
      BY <3>2, <2>1, <2>2, <1>1 DEF Ascending
    <3>3. QED
      BY <3>1, <3>2, <2>1
  <2>4. m \in Parts
    BY <2>1, <2>3, <1>1 DEF Parts
  <2>5. PICK k \in 1..Len(s) : s[k] = m
    BY <2>4 DEF Recorded
  <2>6. QED
    BY <2>1, <2>2, <2>3, <2>5, <1>1 DEF Ascending
<1>3. Len(s) = PartCount
  <2>1. Len(s) <= PartCount
    BY <1>1, <1>2
  <2>2. PartCount \in Recorded(s)
    BY DEF Parts
  <2>3. QED
    BY <2>1, <2>2, <1>2 DEF Recorded
<1>4. s = [i \in Parts |-> i]
  BY <1>2, <1>3 DEF Parts
<1>5. QED
  BY <1>2, <1>3, <1>4 DEF validate_completed_parts, Parts

-------------------------------------------------------------------------------
(* The inductive invariant. *)

(* Parts are pushed in order, each once, and every pushed part is in flight  *)
(* or recorded as long as the scheduler runs.                                *)
SchedulerInv ==
    /\ \A p \in Parts : p < next <=> call[p] # "unstarted"
    /\ pc \in {"prepare", "create"} => next = 1 /\ completed = <<>>
    /\ pc = "upload" =>
          \A p \in Parts : p < next => p \in Pending(call) \/ p \in Recorded(completed)
    /\ Ascending(completed)
    /\ \A p \in Recorded(completed) : call[p] = "settled"

(* Which requests exist in which phase. *)
PhaseInv ==
    /\ outcome = "pending" <=> pc # "done"
    /\ pc \notin {"upload", "quiesce"} => Pending(call) = {}
    /\ call[Complete] # "unstarted" =>
          pc \in {"complete", "abort", "done"} /\ Recorded(completed) = Parts
    /\ call[Abort] # "unstarted" => pc \in {"abort", "done"}
    /\ late[Complete] > 0 => call[Complete] # "unstarted"

(* What the service did about the upload, against what the client knows. *)
ServiceInv ==
    /\ pc \in {"prepare", "create"} => upload = "none"
    /\ upload = "open" =>
          /\ Recorded(completed) \subseteq stored
          /\ \A p \in Parts : call[p] = "accepted" => p \in stored
    /\ upload = "completed" => stored = Parts /\ Recorded(completed) = Parts
    /\ call[Complete] = "accepted" => upload = "completed"
    /\ call[Abort] = "accepted" => upload = "aborted"
    /\ outcome = "ok" => upload = "completed"
    /\ outcome = "failed" => upload \in {"none", "aborted"}

IInv ==
    /\ TypeOK /\ InFlightBound /\ WholeUploadIsCompleted
    /\ SchedulerInv /\ PhaseInv /\ ServiceInv

-------------------------------------------------------------------------------
(* The requests are the parts and three others, all different. *)
LEMMA CallsFacts ==
    /\ Parts \subseteq Calls /\ IsFiniteSet(Parts)
    /\ Create \in Calls /\ Complete \in Calls /\ Abort \in Calls
    /\ Create \notin Parts /\ Complete \notin Parts /\ Abort \notin Parts
    /\ Create # Complete /\ Create # Abort /\ Complete # Abort
    /\ \A c \in Calls \ Parts : c \in {Create, Complete, Abort}
<1>1. IsFiniteSet(Parts)
  BY FS_Interval, PartCountAssumption DEF Parts
<1>2. QED
  BY <1>1, PartCountAssumption DEF Parts, Calls, Create, Complete, Abort

(* Only part numbers are recorded. *)
LEMMA RecordedAreParts ==
    ASSUME NEW s \in Seq(Parts)
    PROVE  Recorded(s) \subseteq Parts
BY DEF Recorded

(* The number of part futures is a natural that can only shrink with their set. *)
LEMMA PendingCardinality ==
    ASSUME NEW c, NEW d, Pending(d) \subseteq Pending(c)
    PROVE  /\ IsFiniteSet(Pending(c)) /\ IsFiniteSet(Pending(d))
           /\ Cardinality(Pending(c)) \in Nat /\ Cardinality(Pending(d)) \in Nat
           /\ Cardinality(Pending(d)) <= Cardinality(Pending(c))
<1>1. Pending(c) \subseteq Parts
  BY DEF Pending
<1>2. IsFiniteSet(Pending(c))
  BY <1>1, CallsFacts, FS_Subset
<1>3. QED
  BY <1>2, FS_Subset, FS_CardinalityType

(* Giving up on requests keeps the type of `late', and only a transmitted    *)
(* request gets a late copy.                                                 *)
LEMMA GiveUpEffect ==
    ASSUME NEW dropped, late \in [Calls -> Nat], GiveUp(dropped)
    PROVE  /\ late' \in [Calls -> Nat]
           /\ \A c \in Calls : late'[c] > 0 => late[c] > 0 \/ call[c] = "sent"
BY DEF GiveUp

(* The while loop pushes the next parts, as many as there is room for. *)
LEMMA ScheduledInterval ==
    ASSUME NEW c, next \in 1..PartCount + 1, Cardinality(Pending(c)) <= Concurrency
    PROVE  /\ IsFiniteSet(Scheduled(c))
           /\ Cardinality(Scheduled(c)) \in Nat
           /\ Cardinality(Scheduled(c)) + Cardinality(Pending(c)) <= Concurrency
           /\ next + Cardinality(Scheduled(c)) \in 1..PartCount + 1
           /\ \A p \in Parts : p < next + Cardinality(Scheduled(c))
                                 <=> p < next \/ p \in Scheduled(c)
           /\ Scheduled(c) = {} /\ Pending(c) = {} => next = PartCount + 1
<1> DEFINE n == Cardinality(Pending(c))
<1> DEFINE k == Concurrency - n
<1> DEFINE m == IF next + k <= PartCount THEN next + k - 1 ELSE PartCount
<1>1. n \in Nat /\ IsFiniteSet(Pending(c)) /\ n <= Concurrency
  BY PendingCardinality
<1>2. Scheduled(c) = {p \in Parts : p >= next /\ p < next + k}
  BY DEF Scheduled
<1>3. Pending(c) = {} => n = 0
  BY FS_EmptySet
<1> HIDE DEF n
<1> USE PartCountAssumption, ConcurrencyAssumption
<1>4. /\ k \in Nat /\ m \in Nat /\ next \in Nat
      /\ m - next + 1 \in 0..k /\ m <= PartCount
  BY <1>1
<1>5. Scheduled(c) = next..m
  BY <1>1, <1>2, <1>4 DEF Parts
<1> HIDE DEF m
<1>6. IsFiniteSet(next..m) /\ Cardinality(next..m) = m - next + 1
  <2>1. next \in Int /\ m \in Int
    BY <1>4
  <2>2. /\ IsFiniteSet(next..m)
        /\ Cardinality(next..m) = IF next > m THEN 0 ELSE m - next + 1
    BY <2>1, FS_Interval, Zenon
  <2>3. QED
    BY <2>1, <2>2, <1>4
<1>7. Scheduled(c) = {} /\ Pending(c) = {} => next = PartCount + 1
  BY <1>1, <1>3, <1>4, <1>5 DEF m
<1>8. n + Cardinality(Scheduled(c)) <= Concurrency
  BY <1>1, <1>4, <1>5, <1>6
<1>9. \A p \in Parts : p < next + Cardinality(Scheduled(c)) <=> p < next \/ p \in Scheduled(c)
  <2>1. next + Cardinality(Scheduled(c)) = m + 1
    BY <1>4, <1>5, <1>6
  <2>2. \A p \in Parts : p < m + 1 <=> p < next \/ p \in next..m
    BY <1>4, PartsAreNaturals
  <2>3. QED
    BY <2>1, <2>2, <1>5
<1>10. /\ IsFiniteSet(Scheduled(c)) /\ Cardinality(Scheduled(c)) \in Nat
       /\ next + Cardinality(Scheduled(c)) \in 1..PartCount + 1
  BY <1>4, <1>5, <1>6
<1>11. Cardinality(Scheduled(c)) + Cardinality(Pending(c)) <= Concurrency
  BY <1>1, <1>8, <1>10 DEF n
<1>12. QED
  BY <1>7, <1>9, <1>10, <1>11

(* One pass of the loop head of upload_parts from requests `c' and recorded  *)
(* parts `s': more parts in flight, or all parts recorded and the completion *)
(* begun.                                                                    *)
LEMMA ScheduleStep ==
    ASSUME NEW c \in [Calls -> CallStates], NEW s \in Seq(Parts),
           next \in 1..PartCount + 1,
           Cardinality(Pending(c)) <= Concurrency,
           \A p \in Parts : p < next <=> c[p] # "unstarted",
           \A p \in Parts : p < next => p \in Pending(c) \/ p \in Recorded(s),
           Ascending(s),
           c[Complete] = "unstarted",
           ScheduleParts(c, s)
    PROVE  /\ next' \in 1..PartCount + 1
           /\ completed' = s
           /\ call' \in [Calls -> CallStates]
           /\ \A p \in Parts : call'[p] = (IF p \in Scheduled(c) THEN "ready" ELSE c[p])
           /\ call'[Create] = c[Create] /\ call'[Abort] = c[Abort]
           /\ \A p \in Parts : p < next' <=> call'[p] # "unstarted"
           /\ Cardinality(Pending(call')) <= Concurrency
           /\ \/ /\ pc' = "upload" /\ call'[Complete] = "unstarted"
                 /\ Pending(call') # {}
                 /\ \A p \in Parts : p < next' => p \in Pending(call') \/ p \in Recorded(s)
              \/ /\ pc' = "complete" /\ call'[Complete] = "ready"
                 /\ Pending(call') = {}
                 /\ Recorded(s) = Parts
<1> DEFINE pushed == Scheduled(c)
<1> DEFINE sched == [q \in Calls |-> IF q \in pushed THEN "ready" ELSE c[q]]
<1> DEFINE begun == IF validate_completed_parts(s) THEN Complete ELSE Abort
<1>1. /\ next' = next + Cardinality(pushed)
      /\ completed' = s
      /\ pc' = IF ~(Pending(sched) = {}) THEN "upload"
               ELSE IF validate_completed_parts(s) THEN "complete" ELSE "abort"
      /\ call' = IF Pending(sched) = {} THEN [sched EXCEPT ![begun] = "ready"] ELSE sched
  BY DEF ScheduleParts
<1>2. /\ IsFiniteSet(pushed) /\ Cardinality(pushed) \in Nat
      /\ Cardinality(pushed) + Cardinality(Pending(c)) <= Concurrency
      /\ next + Cardinality(pushed) \in 1..PartCount + 1
      /\ \A p \in Parts : p < next + Cardinality(pushed) <=> p < next \/ p \in pushed
      /\ pushed = {} /\ Pending(c) = {} => next = PartCount + 1
  BY ScheduledInterval
<1>3. pushed \subseteq Parts
  BY DEF Scheduled
<1> HIDE DEF pushed
<1>4. sched \in [Calls -> CallStates]
  BY DEF CallStates
<1>5. Pending(sched) = Pending(c) \cup pushed
  BY <1>3, CallsFacts DEF Pending
<1>6. Cardinality(Pending(sched)) <= Concurrency
  <2>1. Pending(c) \cap pushed = {}
    <3>1. \A p \in pushed : p \in Parts /\ p >= next
      BY DEF pushed, Scheduled
    <3>2. ASSUME NEW p \in pushed PROVE ~(p < next)
      <4>1. p \in Nat
        BY <3>1, <3>2, PartsAreNaturals
      <4>2. next \in Nat
        BY PartCountAssumption
      <4>3. QED
        BY <3>1, <4>1, <4>2
    <3>3. QED
      BY <3>1, <3>2 DEF Pending
  <2>2. IsFiniteSet(Pending(c)) /\ Cardinality(Pending(c)) \in Nat
    BY PendingCardinality
  <2>3. Cardinality(Pending(c) \cup pushed)
          = Cardinality(Pending(c)) + Cardinality(pushed) - Cardinality(Pending(c) \cap pushed)
    BY <1>2, <2>2, FS_Union, Zenon
  <2>4. Cardinality(Pending(c) \cap pushed) = 0
    BY <2>1, FS_EmptySet, Zenon
  <2>5. Cardinality(Pending(c) \cup pushed) <= Concurrency
    BY <1>2, <2>2, <2>3, <2>4
  <2>6. QED
    BY <1>5, <2>5, Zenon
<1>7. CASE Pending(sched) # {}
  <2>1. pc' = "upload" /\ call' = sched
    BY <1>1, <1>7
  <2>2. \A p \in Parts : call'[p] = (IF p \in pushed THEN "ready" ELSE c[p])
    BY <2>1, CallsFacts
  <2>3. \A p \in Parts : p < next' <=> call'[p] # "unstarted"
    BY <2>2, <1>1, <1>2
  <2>4. \A p \in Parts : p < next' => p \in Pending(call') \/ p \in Recorded(s)
    BY <2>1, <1>1, <1>2, <1>5
  <2>5. /\ call'[Create] = c[Create] /\ call'[Abort] = c[Abort]
        /\ call'[Complete] = "unstarted"
    BY <2>1, <1>3, CallsFacts
  <2>6. QED
    BY <1>1, <1>2, <1>4, <1>6, <1>7, <2>1, <2>2, <2>3, <2>4, <2>5 DEF pushed
<1>8. CASE Pending(sched) = {}
  <2>1. pushed = {} /\ Pending(c) = {} /\ next = PartCount + 1
    BY <1>2, <1>5, <1>8
  <2>2. Parts \subseteq Recorded(s)
    <3>1. \A p \in Parts : p < next
      BY <2>1, PartCountAssumption DEF Parts
    <3>2. QED
      BY <2>1, <3>1
  <2>3. Recorded(s) = Parts
    BY <2>2 DEF Recorded
  <2>4. validate_completed_parts(s)
    BY <2>3, AscendingCover
  <2>5. pc' = "complete" /\ call' = [sched EXCEPT ![Complete] = "ready"]
    BY <1>1, <1>8, <2>4
  <2>6. /\ \A p \in Parts : call'[p] = c[p]
        /\ call'[Create] = c[Create] /\ call'[Abort] = c[Abort]
        /\ call'[Complete] = "ready"
        /\ call' \in [Calls -> CallStates]
    BY <2>1, <2>5, <1>4, CallsFacts DEF CallStates
  <2>7. Pending(call') = Pending(c)
    BY <2>6 DEF Pending
  <2>8. \A p \in Parts : p < next' <=> call'[p] # "unstarted"
    BY <2>6, <1>1, <1>2, <2>1
  <2>9. QED
    BY <1>1, <1>2, <2>1, <2>3, <2>5, <2>6, <2>7, <2>8 DEF pushed
<1>9. QED
  BY <1>7, <1>8

(* Dropping the owner keeps the invariant. *)
LEMMA DropOwnerInv ==
    ASSUME IInv, DropOwner
    PROVE  IInv'
<1> USE CallsFacts DEF IInv
<1>1. TypeOK'
  BY MaxAttemptsAssumption DEF TypeOK, CallStates, Phases, Outcomes, DropOwner, requests, service
<1>2. Pending(call') \subseteq Pending(call)
  BY DEF TypeOK, Pending, PhaseInv, DropOwner, requests, service
<1>3. InFlightBound'
  BY <1>2, PendingCardinality, ConcurrencyAssumption DEF InFlightBound
<1>4. WholeUploadIsCompleted'
  BY DEF TypeOK, WholeUploadIsCompleted, DropOwner, requests, service
<1>5. SchedulerInv'
  BY DEF TypeOK, SchedulerInv, PhaseInv, Pending, DropOwner, requests, service
<1>6. PhaseInv'
  BY <1>2 DEF TypeOK, PhaseInv, DropOwner, requests, service
<1>7. ServiceInv'
  BY DEF TypeOK, ServiceInv, PhaseInv, DropOwner, requests, service
<1>8. QED
  BY <1>1, <1>3, <1>4, <1>5, <1>6, <1>7

(* The transfer deadline keeps the invariant. *)
LEMMA ExpireInv ==
    ASSUME IInv, Expire
    PROVE  IInv'
<1> USE CallsFacts DEF IInv
<1>1. TypeOK'
  BY MaxAttemptsAssumption DEF TypeOK, CallStates, Phases, Outcomes, Expire, requests, service
<1>2. Pending(call') \subseteq Pending(call)
  BY DEF TypeOK, Pending, PhaseInv, Expire, requests, service
<1>3. InFlightBound'
  BY <1>2, PendingCardinality, ConcurrencyAssumption DEF InFlightBound
<1>4. WholeUploadIsCompleted'
  BY DEF TypeOK, WholeUploadIsCompleted, Expire, requests, service
<1>5. SchedulerInv'
  BY DEF TypeOK, SchedulerInv, PhaseInv, Pending, Expire, requests, service
<1>6. PhaseInv'
  BY <1>2 DEF TypeOK, PhaseInv, Expire, requests, service
<1>7. ServiceInv'
  BY DEF TypeOK, ServiceInv, PhaseInv, Expire, requests, service
<1>8. QED
  BY <1>1, <1>3, <1>4, <1>5, <1>6, <1>7

(* The end of the preparation keeps the invariant. *)
LEMMA PrepareOkInv ==
    ASSUME IInv, PrepareOk
    PROVE  IInv'
<1> USE CallsFacts DEF IInv
<1>1. Recorded(completed) \subseteq Parts
  BY RecordedAreParts DEF TypeOK
<1>2. TypeOK'
  BY MaxAttemptsAssumption DEF TypeOK, CallStates, Phases, Outcomes, PrepareOk, service
<1>3. Pending(call') \subseteq Pending(call)
  BY DEF TypeOK, Pending, PhaseInv, PrepareOk, service
<1>4. InFlightBound'
  BY <1>3, PendingCardinality, ConcurrencyAssumption DEF InFlightBound
<1>5. WholeUploadIsCompleted'
  BY DEF TypeOK, WholeUploadIsCompleted, PrepareOk, service
<1>6. SchedulerInv'
  BY <1>1 DEF TypeOK, SchedulerInv, PhaseInv, Pending, PrepareOk, service
<1>7. PhaseInv'
  BY <1>3 DEF TypeOK, PhaseInv, PrepareOk, service
<1>8. ServiceInv'
  BY DEF TypeOK, ServiceInv, PhaseInv, PrepareOk, service
<1>9. QED
  BY <1>2, <1>4, <1>5, <1>6, <1>7, <1>8

(* A failed preparation keeps the invariant. *)
LEMMA PrepareFailsInv ==
    ASSUME IInv, PrepareFails
    PROVE  IInv'
<1> USE CallsFacts DEF IInv
<1>1. TypeOK'
  BY MaxAttemptsAssumption DEF TypeOK, CallStates, Phases, Outcomes, PrepareFails, requests, service
<1>2. Pending(call') \subseteq Pending(call)
  BY DEF TypeOK, Pending, PhaseInv, PrepareFails, requests, service
<1>3. InFlightBound'
  BY <1>2, PendingCardinality, ConcurrencyAssumption DEF InFlightBound
<1>4. WholeUploadIsCompleted'
  BY DEF TypeOK, WholeUploadIsCompleted, PrepareFails, requests, service
<1>5. SchedulerInv'
  BY DEF TypeOK, SchedulerInv, PhaseInv, Pending, PrepareFails, requests, service
<1>6. PhaseInv'
  BY <1>2 DEF TypeOK, PhaseInv, PrepareFails, requests, service
<1>7. ServiceInv'
  BY DEF TypeOK, ServiceInv, PhaseInv, PrepareFails, requests, service
<1>8. QED
  BY <1>1, <1>3, <1>4, <1>5, <1>6, <1>7

(* An attempt keeps the invariant. *)
LEMMA TransmitInv ==
    ASSUME NEW c \in Calls, IInv, Transmit(c)
    PROVE  IInv'
<1> USE CallsFacts DEF IInv
<1>1. TypeOK'
  <2>1. call' \in [Calls -> CallStates]
    BY DEF TypeOK, CallStates, Transmit
  <2>2. attempts' \in [Calls -> 0..MaxAttempts]
    BY MaxAttemptsAssumption DEF TypeOK, Transmit
  <2>3. QED
    BY <2>1, <2>2 DEF TypeOK, Transmit, client, service
<1>2. Pending(call') \subseteq Pending(call)
  BY DEF TypeOK, Pending, PhaseInv, Transmit, Polled, client, service
<1>3. InFlightBound'
  BY <1>2, PendingCardinality, ConcurrencyAssumption DEF InFlightBound
<1>4. WholeUploadIsCompleted'
  BY DEF TypeOK, WholeUploadIsCompleted, Transmit, Polled, client, service
<1>5. SchedulerInv'
  <2>1. UNCHANGED <<pc, next, completed>>
    BY DEF Transmit, client
  <2>2. \A p \in Parts : call'[p] # "unstarted" <=> call[p] # "unstarted"
    BY DEF TypeOK, Transmit
  <2>3. Pending(call) \subseteq Pending(call')
    BY DEF TypeOK, Pending, Transmit
  <2>4. \A p \in Recorded(completed) : call'[p] = call[p]
    BY RecordedAreParts DEF TypeOK, SchedulerInv, Transmit
  <2>5. QED
    BY <2>1, <2>2, <2>3, <2>4 DEF SchedulerInv
<1>6. PhaseInv'
  BY <1>2 DEF TypeOK, PhaseInv, Transmit, Polled, client, service
<1>7. ServiceInv'
  BY DEF TypeOK, ServiceInv, PhaseInv, Transmit, Polled, client, service
<1>8. QED
  BY <1>1, <1>3, <1>4, <1>5, <1>6, <1>7

(* A retried attempt keeps the invariant. *)
LEMMA AttemptFailsInv ==
    ASSUME NEW c \in Calls, IInv, AttemptFails(c)
    PROVE  IInv'
<1> USE CallsFacts DEF IInv
<1>1. /\ late' \in [Calls -> Nat]
      /\ \A q \in Calls : late'[q] > 0 => late[q] > 0 \/ call[q] = "sent"
  BY GiveUpEffect DEF TypeOK, AttemptFails, Active, Polled, DropReply, client
<1>2. orphans' \in Nat
  BY DEF TypeOK, AttemptFails, Active, Polled, DropReply, client
<1>3. TypeOK'
  BY <1>1, <1>2, MaxAttemptsAssumption
     DEF TypeOK, CallStates, Phases, Outcomes, AttemptFails, Active, Polled, DropReply, client
<1>4. Pending(call') \subseteq Pending(call)
  BY DEF TypeOK, Pending, PhaseInv, AttemptFails, Active, Polled, DropReply, client
<1>5. InFlightBound'
  BY <1>4, PendingCardinality, ConcurrencyAssumption DEF InFlightBound
<1>6. WholeUploadIsCompleted'
  BY DEF TypeOK, WholeUploadIsCompleted, AttemptFails, Active, Polled, DropReply, client
<1>7. SchedulerInv'
  BY DEF TypeOK, SchedulerInv, PhaseInv, Pending, AttemptFails, Active, Polled, DropReply, client
<1>8. PhaseInv'
  BY <1>1, <1>2, <1>4 DEF TypeOK, PhaseInv, AttemptFails, Active, Polled, DropReply, client
<1>9. ServiceInv'
  BY DEF TypeOK, ServiceInv, PhaseInv, AttemptFails, Active, Polled, DropReply, client
<1>10. QED
  BY <1>3, <1>5, <1>6, <1>7, <1>8, <1>9

(* A failed creation keeps the invariant. *)
LEMMA CreateFailsInv ==
    ASSUME IInv, CreateFails
    PROVE  IInv'
<1> USE CallsFacts DEF IInv
<1>1. /\ late' \in [Calls -> Nat]
      /\ \A q \in Calls : late'[q] > 0 => late[q] > 0 \/ call[q] = "sent"
  BY GiveUpEffect DEF TypeOK, CreateFails, EndCall, Active, Polled, DropReply
<1>2. orphans' \in Nat
  BY DEF TypeOK, CreateFails, EndCall, Active, Polled, DropReply
<1>3. TypeOK'
  BY <1>1, <1>2, MaxAttemptsAssumption
     DEF TypeOK, CallStates, Phases, Outcomes, CreateFails, EndCall, Active, Polled, DropReply
<1>4. Pending(call') \subseteq Pending(call)
  BY DEF TypeOK, Pending, PhaseInv, CreateFails, EndCall, Active, Polled, DropReply
<1>5. InFlightBound'
  BY <1>4, PendingCardinality, ConcurrencyAssumption DEF InFlightBound
<1>6. WholeUploadIsCompleted'
  BY DEF TypeOK, WholeUploadIsCompleted, CreateFails, EndCall, Active, Polled, DropReply
<1>7. SchedulerInv'
  BY DEF TypeOK, SchedulerInv, PhaseInv, Pending, CreateFails, EndCall, Active, Polled, DropReply
<1>8. PhaseInv'
  BY <1>1, <1>2, <1>4 DEF TypeOK, PhaseInv, CreateFails, EndCall, Active, Polled, DropReply
<1>9. ServiceInv'
  BY DEF TypeOK, ServiceInv, PhaseInv, CreateFails, EndCall, Active, Polled, DropReply
<1>10. QED
  BY <1>3, <1>5, <1>6, <1>7, <1>8, <1>9

(* A failed part keeps the invariant. *)
LEMMA PartFailsInv ==
    ASSUME NEW p \in Parts, IInv, PartFails(p)
    PROVE  IInv'
<1> USE CallsFacts DEF IInv
<1>1. /\ late' \in [Calls -> Nat]
      /\ \A q \in Calls : late'[q] > 0 => late[q] > 0 \/ call[q] = "sent"
  BY GiveUpEffect DEF TypeOK, PartFails, EndCall, Active, Polled, DropReply
<1>2. TypeOK'
  BY <1>1, MaxAttemptsAssumption
     DEF TypeOK, CallStates, Phases, Outcomes, PartFails, EndCall, Active, Polled, DropReply
<1>3. Pending(call') \subseteq Pending(call)
  BY DEF TypeOK, Pending, PhaseInv, PartFails, EndCall, Active, Polled, DropReply
<1>4. InFlightBound'
  BY <1>3, PendingCardinality, ConcurrencyAssumption DEF InFlightBound
<1>5. WholeUploadIsCompleted'
  BY DEF TypeOK, WholeUploadIsCompleted, PartFails, EndCall, Active, Polled, DropReply
<1>6. SchedulerInv'
  <2>1. pc' = "quiesce" /\ UNCHANGED <<next, completed>>
    BY DEF PartFails
  <2>2. \A q \in Parts : call'[q] # "unstarted" <=> call[q] # "unstarted"
    BY DEF TypeOK, PartFails, EndCall, Active
  <2>3. \A q \in Recorded(completed) : call'[q] = call[q]
    BY RecordedAreParts DEF TypeOK, SchedulerInv, PartFails, EndCall, Active
  <2>4. QED
    BY <2>1, <2>2, <2>3 DEF SchedulerInv
<1>7. PhaseInv'
  BY <1>1, <1>3 DEF TypeOK, PhaseInv, PartFails, EndCall, Active, Polled, DropReply
<1>8. ServiceInv'
  BY DEF TypeOK, ServiceInv, PhaseInv, PartFails, EndCall, Active, Polled, DropReply
<1>9. QED
  BY <1>2, <1>4, <1>5, <1>6, <1>7, <1>8

(* The end of scheduling keeps the invariant. *)
LEMMA StopSchedulingInv ==
    ASSUME IInv, StopScheduling
    PROVE  IInv'
<1> USE CallsFacts DEF IInv
<1>1. TypeOK'
  BY MaxAttemptsAssumption
     DEF TypeOK, CallStates, Phases, Outcomes, StopScheduling, requests, service
<1>2. Pending(call') \subseteq Pending(call)
  BY DEF TypeOK, Pending, PhaseInv, StopScheduling, requests, service
<1>3. InFlightBound'
  BY <1>2, PendingCardinality, ConcurrencyAssumption DEF InFlightBound
<1>4. WholeUploadIsCompleted'
  BY DEF TypeOK, WholeUploadIsCompleted, StopScheduling, requests, service
<1>5. SchedulerInv'
  BY DEF TypeOK, SchedulerInv, PhaseInv, Pending, StopScheduling, requests, service
<1>6. PhaseInv'
  BY <1>2 DEF TypeOK, PhaseInv, StopScheduling, requests, service
<1>7. ServiceInv'
  BY DEF TypeOK, ServiceInv, PhaseInv, StopScheduling, requests, service
<1>8. QED
  BY <1>1, <1>3, <1>4, <1>5, <1>6, <1>7

(* A part that settles while quiescing keeps the invariant. *)
LEMMA QuiescePartInv ==
    ASSUME NEW p \in Parts, IInv, QuiescePart(p)
    PROVE  IInv'
<1> USE CallsFacts DEF IInv
<1>1. TypeOK'
  BY MaxAttemptsAssumption DEF TypeOK, CallStates, Phases, Outcomes, QuiescePart, client, service
<1>2. Pending(call') \subseteq Pending(call)
  BY DEF TypeOK, Pending, PhaseInv, QuiescePart, client, service
<1>3. InFlightBound'
  BY <1>2, PendingCardinality, ConcurrencyAssumption DEF InFlightBound
<1>4. WholeUploadIsCompleted'
  BY DEF TypeOK, WholeUploadIsCompleted, QuiescePart, client, service
<1>5. SchedulerInv'
  BY DEF TypeOK, SchedulerInv, PhaseInv, Pending, QuiescePart, client, service
<1>6. PhaseInv'
  BY <1>2 DEF TypeOK, PhaseInv, QuiescePart, client, service
<1>7. ServiceInv'
  BY DEF TypeOK, ServiceInv, PhaseInv, QuiescePart, client, service
<1>8. QED
  BY <1>1, <1>3, <1>4, <1>5, <1>6, <1>7

(* The end of quiescing keeps the invariant. *)
LEMMA QuiesceDoneInv ==
    ASSUME IInv, QuiesceDone
    PROVE  IInv'
<1> USE CallsFacts DEF IInv
<1>1. TypeOK'
  BY MaxAttemptsAssumption DEF TypeOK, CallStates, Phases, Outcomes, QuiesceDone, service
<1>2. Pending(call') \subseteq Pending(call)
  BY DEF TypeOK, Pending, PhaseInv, QuiesceDone, service
<1>3. InFlightBound'
  BY <1>2, PendingCardinality, ConcurrencyAssumption DEF InFlightBound
<1>4. WholeUploadIsCompleted'
  BY DEF TypeOK, WholeUploadIsCompleted, QuiesceDone, service
<1>5. SchedulerInv'
  BY DEF TypeOK, SchedulerInv, PhaseInv, Pending, QuiesceDone, service
<1>6. PhaseInv'
  BY <1>2 DEF TypeOK, PhaseInv, QuiesceDone, service
<1>7. ServiceInv'
  BY DEF TypeOK, ServiceInv, PhaseInv, QuiesceDone, service
<1>8. QED
  BY <1>1, <1>3, <1>4, <1>5, <1>6, <1>7

(* A quiesce timeout keeps the invariant. *)
LEMMA QuiesceTimeoutInv ==
    ASSUME IInv, QuiesceTimeout
    PROVE  IInv'
<1> USE CallsFacts DEF IInv
<1>1. /\ late' \in [Calls -> Nat]
      /\ \A q \in Calls : late'[q] > 0 => late[q] > 0 \/ call[q] = "sent"
  BY GiveUpEffect DEF TypeOK, QuiesceTimeout, service
<1>2. Recorded(completed) \subseteq Parts
  BY RecordedAreParts DEF TypeOK
<1>3. Pending(call') = {}
  BY DEF TypeOK, Pending, QuiesceTimeout
<1>4. TypeOK'
  BY <1>1, <1>3, MaxAttemptsAssumption
     DEF TypeOK, CallStates, Phases, Outcomes, QuiesceTimeout, service
<1>5. Pending(call') \subseteq Pending(call)
  BY DEF TypeOK, Pending, PhaseInv, QuiesceTimeout, service
<1>6. InFlightBound'
  BY <1>5, PendingCardinality, ConcurrencyAssumption DEF InFlightBound
<1>7. WholeUploadIsCompleted'
  BY DEF TypeOK, WholeUploadIsCompleted, QuiesceTimeout, service
<1>8. SchedulerInv'
  BY <1>2 DEF TypeOK, SchedulerInv, PhaseInv, Pending, QuiesceTimeout, service
<1>9. PhaseInv'
  <2>1. call'[Complete] = call[Complete] /\ pc' = "abort"
    BY DEF Pending, QuiesceTimeout
  <2>2. QED
    BY <1>1, <1>3, <2>1 DEF TypeOK, PhaseInv, QuiesceTimeout
<1>10. ServiceInv'
  BY DEF TypeOK, ServiceInv, PhaseInv, QuiesceTimeout, service
<1>11. QED
  BY <1>4, <1>6, <1>7, <1>8, <1>9, <1>10

(* A successful completion keeps the invariant. *)
LEMMA CompleteSucceedsInv ==
    ASSUME IInv, CompleteSucceeds
    PROVE  IInv'
<1> USE CallsFacts DEF IInv
<1>1. TypeOK'
  BY MaxAttemptsAssumption
     DEF TypeOK, CallStates, Phases, Outcomes, CompleteSucceeds, Active, Polled, service
<1>2. Pending(call') \subseteq Pending(call)
  BY DEF TypeOK, Pending, PhaseInv, CompleteSucceeds, Active, Polled, service
<1>3. InFlightBound'
  BY <1>2, PendingCardinality, ConcurrencyAssumption DEF InFlightBound
<1>4. WholeUploadIsCompleted'
  BY DEF TypeOK, WholeUploadIsCompleted, CompleteSucceeds, Active, Polled, service
<1>5. SchedulerInv'
  BY DEF TypeOK, SchedulerInv, PhaseInv, Pending, CompleteSucceeds, Active, Polled, service
<1>6. PhaseInv'
  BY <1>2 DEF TypeOK, PhaseInv, CompleteSucceeds, Active, Polled, service
<1>7. ServiceInv'
  BY DEF TypeOK, ServiceInv, PhaseInv, CompleteSucceeds, Active, Polled, service
<1>8. QED
  BY <1>1, <1>3, <1>4, <1>5, <1>6, <1>7

(* A failed or cancelled completion keeps the invariant. *)
LEMMA CompleteFailsInv ==
    ASSUME IInv, CompleteFails
    PROVE  IInv'
<1> USE CallsFacts DEF IInv
<1>1. /\ late' \in [Calls -> Nat]
      /\ \A q \in Calls : late'[q] > 0 => late[q] > 0 \/ call[q] = "sent"
  BY GiveUpEffect DEF TypeOK, CompleteFails, EndCall, Active, Polled, DropReply
<1>2. TypeOK'
  BY <1>1, MaxAttemptsAssumption
     DEF TypeOK, CallStates, Phases, Outcomes, CompleteFails, EndCall, Active, Polled, DropReply
<1>3. Pending(call') \subseteq Pending(call)
  BY DEF TypeOK, Pending, PhaseInv, CompleteFails, EndCall, Active, Polled, DropReply
<1>4. InFlightBound'
  BY <1>3, PendingCardinality, ConcurrencyAssumption DEF InFlightBound
<1>5. WholeUploadIsCompleted'
  BY DEF TypeOK, WholeUploadIsCompleted, CompleteFails, EndCall, Active, Polled, DropReply
<1>6. SchedulerInv'
  BY DEF TypeOK, SchedulerInv, PhaseInv, Pending, CompleteFails, EndCall, Active, Polled, DropReply
<1>7. PhaseInv'
  BY <1>1, <1>3 DEF TypeOK, PhaseInv, CompleteFails, EndCall, Active, Polled, DropReply
<1>8. ServiceInv'
  BY DEF TypeOK, ServiceInv, PhaseInv, CompleteFails, EndCall, Active, Polled, DropReply
<1>9. QED
  BY <1>2, <1>4, <1>5, <1>6, <1>7, <1>8

(* A confirmed abort keeps the invariant. *)
LEMMA AbortSucceedsInv ==
    ASSUME IInv, AbortSucceeds
    PROVE  IInv'
<1> USE CallsFacts DEF IInv
<1>1. TypeOK'
  BY MaxAttemptsAssumption
     DEF TypeOK, CallStates, Phases, Outcomes, AbortSucceeds, Active, Polled, service
<1>2. Pending(call') \subseteq Pending(call)
  BY DEF TypeOK, Pending, PhaseInv, AbortSucceeds, Active, Polled, service
<1>3. InFlightBound'
  BY <1>2, PendingCardinality, ConcurrencyAssumption DEF InFlightBound
<1>4. WholeUploadIsCompleted'
  BY DEF TypeOK, WholeUploadIsCompleted, AbortSucceeds, Active, Polled, service
<1>5. SchedulerInv'
  BY DEF TypeOK, SchedulerInv, PhaseInv, Pending, AbortSucceeds, Active, Polled, service
<1>6. PhaseInv'
  BY <1>2 DEF TypeOK, PhaseInv, AbortSucceeds, Active, Polled, service
<1>7. ServiceInv'
  BY DEF TypeOK, ServiceInv, PhaseInv, AbortSucceeds, Active, Polled, service
<1>8. QED
  BY <1>1, <1>3, <1>4, <1>5, <1>6, <1>7

(* A failed abort keeps the invariant. *)
LEMMA AbortFailsInv ==
    ASSUME IInv, AbortFails
    PROVE  IInv'
<1> USE CallsFacts DEF IInv
<1>1. /\ late' \in [Calls -> Nat]
      /\ \A q \in Calls : late'[q] > 0 => late[q] > 0 \/ call[q] = "sent"
  BY GiveUpEffect DEF TypeOK, AbortFails, EndCall, Active, Polled, DropReply
<1>2. TypeOK'
  BY <1>1, MaxAttemptsAssumption
     DEF TypeOK, CallStates, Phases, Outcomes, AbortFails, EndCall, Active, Polled, DropReply
<1>3. Pending(call') \subseteq Pending(call)
  BY DEF TypeOK, Pending, PhaseInv, AbortFails, EndCall, Active, Polled, DropReply
<1>4. InFlightBound'
  BY <1>3, PendingCardinality, ConcurrencyAssumption DEF InFlightBound
<1>5. WholeUploadIsCompleted'
  BY DEF TypeOK, WholeUploadIsCompleted, AbortFails, EndCall, Active, Polled, DropReply
<1>6. SchedulerInv'
  BY DEF TypeOK, SchedulerInv, PhaseInv, Pending, AbortFails, EndCall, Active, Polled, DropReply
<1>7. PhaseInv'
  BY <1>1, <1>3 DEF TypeOK, PhaseInv, AbortFails, EndCall, Active, Polled, DropReply
<1>8. ServiceInv'
  BY DEF TypeOK, ServiceInv, PhaseInv, AbortFails, EndCall, Active, Polled, DropReply
<1>9. QED
  BY <1>2, <1>4, <1>5, <1>6, <1>7, <1>8

(* The first pass of the scheduler keeps the invariant. *)
LEMMA CreateSucceedsInv ==
    ASSUME IInv, CreateSucceeds
    PROVE  IInv'
<1> DEFINE c == [call EXCEPT ![Create] = "settled"]
<1> USE CallsFacts DEF IInv
<1>1. /\ pc = "create" /\ upload' = "open"
      /\ ScheduleParts(c, completed)
      /\ UNCHANGED <<cancelled, expired, quiesceFailed, outcome, attempts, late, stored, orphans>>
  BY DEF CreateSucceeds, Active, Polled
<1>2. /\ completed = <<>> /\ next = 1
      /\ Pending(call) = {} /\ upload = "none" /\ outcome = "pending"
      /\ call[Complete] = "unstarted" /\ call[Abort] = "unstarted"
      /\ \A p \in Parts : call[p] = "unstarted"
  <2>1. next = 1
    BY <1>1 DEF SchedulerInv
  <2>2. \A p \in Parts : ~(p < next)
    BY <2>1, PartsAreNaturals
  <2>3. QED
    BY <1>1, <2>1, <2>2 DEF SchedulerInv, PhaseInv, ServiceInv
<1>3. c \in [Calls -> CallStates] /\ \A p \in Parts : c[p] = "unstarted"
  BY <1>2 DEF TypeOK, CallStates
<1>4. Pending(c) = {} /\ Cardinality(Pending(c)) <= Concurrency
  BY <1>3, FS_EmptySet, ConcurrencyAssumption DEF Pending
<1>5. \A p \in Parts : ~(p < next)
  BY <1>2, PartsAreNaturals
<1>6. c[Complete] = "unstarted" /\ c[Abort] = "unstarted"
  BY <1>2 DEF TypeOK
<1>7. /\ completed \in Seq(Parts) /\ Ascending(completed)
      /\ next \in 1..PartCount + 1
      /\ Recorded(completed) = {}
  BY <1>2 DEF TypeOK, SchedulerInv, Recorded
<1> HIDE DEF c
<1>8. /\ next' \in 1..PartCount + 1
      /\ completed' = completed
      /\ call' \in [Calls -> CallStates]
      /\ \A p \in Parts : call'[p] = (IF p \in Scheduled(c) THEN "ready" ELSE c[p])
      /\ call'[Create] = c[Create] /\ call'[Abort] = c[Abort]
      /\ \A p \in Parts : p < next' <=> call'[p] # "unstarted"
      /\ Cardinality(Pending(call')) <= Concurrency
      /\ \/ /\ pc' = "upload" /\ call'[Complete] = "unstarted"
            /\ Pending(call') # {}
            /\ \A p \in Parts : p < next' => p \in Pending(call') \/ p \in Recorded(completed)
         \/ /\ pc' = "complete" /\ call'[Complete] = "ready"
            /\ Pending(call') = {}
            /\ Recorded(completed) = Parts
  BY <1>1, <1>3, <1>4, <1>5, <1>6, <1>7, ScheduleStep
<1>9. pc' = "upload"
  BY <1>7, <1>8, PartCountAssumption DEF Parts
<1>10. TypeOK'
  BY <1>1, <1>8, <1>9 DEF TypeOK, Phases
<1>11. InFlightBound' /\ WholeUploadIsCompleted'
  <2>1. Parts # {}
    BY PartCountAssumption DEF Parts
  <2>2. QED
    BY <1>7, <1>8, <2>1 DEF InFlightBound, WholeUploadIsCompleted
<1>12. SchedulerInv'
  BY <1>7, <1>8, <1>9 DEF SchedulerInv
<1>13. PhaseInv'
  BY <1>1, <1>2, <1>6, <1>8, <1>9 DEF PhaseInv
<1>14. ServiceInv'
  BY <1>1, <1>2, <1>3, <1>6, <1>7, <1>8, <1>9 DEF ServiceInv
<1>15. QED
  BY <1>10, <1>11, <1>12, <1>13, <1>14

(* A finished part, the refill and the start of the completion keep the      *)
(* invariant; the duplicate branch is never taken.                           *)
LEMMA PartSucceedsInv ==
    ASSUME NEW p \in Parts, IInv, PartSucceeds(p)
    PROVE  IInv'
<1> DEFINE c == [call EXCEPT ![p] = "settled"]
<1> DEFINE s == record_part(completed, p)
<1> USE CallsFacts DEF IInv
<1>1. p \notin Recorded(completed)
  BY DEF PartSucceeds, SchedulerInv
<1>2. /\ pc = "upload" /\ call[p] = "accepted"
      /\ ScheduleParts(c, s)
      /\ UNCHANGED <<cancelled, expired, quiesceFailed, outcome, attempts, late, service>>
  BY <1>1 DEF PartSucceeds
<1>3. /\ s \in Seq(Parts) /\ Ascending(s)
      /\ Recorded(s) = Recorded(completed) \cup {p}
  BY <1>1, RecordPart DEF TypeOK, SchedulerInv
<1> HIDE DEF s
<1>4. /\ c \in [Calls -> CallStates]
      /\ c[p] = "settled" /\ \A q \in Calls : q # p => c[q] = call[q]
  BY DEF TypeOK, CallStates
<1>5. call[Complete] = "unstarted" /\ call[Abort] = "unstarted"
  BY <1>2 DEF PhaseInv
<1> HIDE DEF c
<1>6. c[Complete] = "unstarted" /\ c[Abort] = "unstarted"
  BY <1>4, <1>5
<1>7. Pending(c) = Pending(call) \ {p}
  BY <1>4 DEF Pending
<1>8. Cardinality(Pending(c)) <= Concurrency
  BY <1>7, PendingCardinality, ConcurrencyAssumption DEF InFlightBound
<1>9. \A q \in Parts : q < next <=> c[q] # "unstarted"
  BY <1>2, <1>4 DEF SchedulerInv
<1>10. \A q \in Parts : q < next => q \in Pending(c) \/ q \in Recorded(s)
  BY <1>2, <1>3, <1>7 DEF SchedulerInv
<1>11. next \in 1..PartCount + 1
  BY DEF TypeOK
<1>12. /\ next' \in 1..PartCount + 1
       /\ completed' = s
       /\ call' \in [Calls -> CallStates]
       /\ \A q \in Parts : call'[q] = (IF q \in Scheduled(c) THEN "ready" ELSE c[q])
       /\ call'[Create] = c[Create] /\ call'[Abort] = c[Abort]
       /\ \A q \in Parts : q < next' <=> call'[q] # "unstarted"
       /\ Cardinality(Pending(call')) <= Concurrency
       /\ \/ /\ pc' = "upload" /\ call'[Complete] = "unstarted"
             /\ Pending(call') # {}
             /\ \A q \in Parts : q < next' => q \in Pending(call') \/ q \in Recorded(s)
          \/ /\ pc' = "complete" /\ call'[Complete] = "ready"
             /\ Pending(call') = {}
             /\ Recorded(s) = Parts
  BY <1>2, <1>3, <1>4, <1>6, <1>8, <1>9, <1>10, <1>11, ScheduleStep
<1>13. \A q \in Scheduled(c) : q \in Parts /\ ~(q < next)
  <2>1. next \in Nat
    BY <1>11, PartCountAssumption
  <2>2. QED
    BY <2>1, PartsAreNaturals DEF Scheduled
<1>14. \A q \in Recorded(s) : call'[q] = "settled"
  <2>1. \A q \in Recorded(s) : q \in Parts /\ c[q] = "settled"
    BY <1>3, <1>4, RecordedAreParts DEF SchedulerInv
  <2>2. \A q \in Recorded(s) : q \notin Scheduled(c)
    BY <2>1, <1>9, <1>13
  <2>3. QED
    BY <2>1, <2>2, <1>12
<1>15. TypeOK'
  BY <1>2, <1>3, <1>12 DEF TypeOK, Phases, service
<1>16. InFlightBound'
  BY <1>12 DEF InFlightBound
<1>17. WholeUploadIsCompleted'
  <2>1. \A q \in Pending(call') : q \in Parts /\ q \notin Recorded(s)
    BY <1>14 DEF Pending
  <2>2. QED
    BY <2>1, <1>12 DEF WholeUploadIsCompleted
<1>18. SchedulerInv'
  BY <1>3, <1>12, <1>14 DEF SchedulerInv
<1>19. PhaseInv'
  BY <1>2, <1>5, <1>6, <1>12 DEF PhaseInv
<1>20. ServiceInv'
  <2>1. \A q \in Parts : call'[q] = "accepted" => call[q] = "accepted"
    BY <1>4, <1>12
  <2>2. upload # "completed"
    BY <1>1, <1>2 DEF ServiceInv
  <2>3. QED
    BY <1>2, <1>3, <1>6, <1>12, <2>1, <2>2 DEF ServiceInv, service
<1>21. QED
  BY <1>15, <1>16, <1>17, <1>18, <1>19, <1>20

(* What the service does on a request changes only the upload and its parts. *)
LEMMA EffectInv ==
    ASSUME NEW c \in Calls, IInv, Effect(c),
           c = Complete => call[Complete] # "unstarted"
    PROVE  /\ upload' \in {"none", "open", "aborted", "completed"}
           /\ stored' \subseteq Parts /\ orphans' = orphans
           /\ (upload = "none" => upload' = "none")
           /\ (upload = "completed" => upload' = "completed" /\ stored' = stored)
           /\ (upload = "aborted" => upload' = "aborted")
           /\ (upload' = "open" => upload = "open" /\ stored \subseteq stored')
           /\ (upload' = "completed" => stored' = Parts /\ Recorded(completed) = Parts)
           /\ (c \in Parts => c \in stored' /\ upload' \in {"open", "aborted"})
           /\ (c = Complete => upload' = "completed")
           /\ (c = Abort => upload' = "aborted")
<1> USE CallsFacts DEF IInv
<1>1. CASE c \in Parts
  BY <1>1 DEF Effect, TypeOK, ServiceInv
<1>2. CASE c = Complete
  BY <1>2 DEF Effect, TypeOK, PhaseInv, ServiceInv
<1>3. CASE c = Abort
  BY <1>3 DEF Effect, TypeOK, ServiceInv
<1>4. QED
  BY <1>1, <1>2, <1>3 DEF Effect

(* An answered attempt keeps the invariant. *)
LEMMA ServeInv ==
    ASSUME NEW c \in Calls, IInv, Serve(c)
    PROVE  IInv'
<1> USE CallsFacts DEF IInv
<1>1. /\ call[c] = "sent" /\ call' = [call EXCEPT ![c] = "accepted"]
      /\ UNCHANGED <<client, attempts, late>>
      /\ c = Create => UNCHANGED service
      /\ c # Create => Effect(c)
  BY DEF Serve
<1>2. TypeOK'
  BY <1>1, EffectInv DEF TypeOK, CallStates, client, service
<1>3. Pending(call') = Pending(call)
  BY <1>1 DEF Pending, TypeOK
<1>4. InFlightBound' /\ WholeUploadIsCompleted'
  BY <1>1, <1>3 DEF InFlightBound, WholeUploadIsCompleted, TypeOK, client
<1>5. SchedulerInv'
  BY <1>1, <1>3 DEF SchedulerInv, TypeOK, client
<1>6. PhaseInv'
  BY <1>1, <1>3 DEF PhaseInv, TypeOK, client
<1>7. ServiceInv'
  <2>1. CASE c = Create
    BY <2>1, <1>1 DEF ServiceInv, TypeOK, client, service
  <2>2. CASE c # Create
    BY <2>2, <1>1, EffectInv DEF ServiceInv, PhaseInv, TypeOK, client
  <2>3. QED
    BY <2>1, <2>2
<1>8. QED
  BY <1>2, <1>4, <1>5, <1>6, <1>7

(* A late copy, carried out or lost, keeps the invariant. *)
LEMMA LateInv ==
    ASSUME NEW c \in Calls, IInv, ServeLate(c) \/ LoseLate(c)
    PROVE  IInv'
<1> USE CallsFacts DEF IInv
<1>1. /\ late[c] > 0 /\ late' = [late EXCEPT ![c] = @ - 1]
      /\ UNCHANGED <<client, call, attempts>>
      /\ \/ UNCHANGED service
         \/ orphans' = orphans + 1 /\ UNCHANGED <<upload, stored>>
         \/ Effect(c)
  BY DEF ServeLate, LoseLate
<1>2. c = Complete => call[Complete] # "unstarted"
  BY <1>1 DEF PhaseInv
<1>3. late' \in [Calls -> Nat] /\ (late'[Complete] > 0 => late[Complete] > 0)
  BY <1>1 DEF TypeOK
<1>4. TypeOK'
  <2>1. /\ upload' \in {"none", "open", "aborted", "completed"}
        /\ stored' \subseteq Parts /\ orphans' \in Nat
    <3>1. CASE Effect(c)
      BY <3>1, <1>2, EffectInv DEF TypeOK
    <3>2. CASE ~Effect(c)
      BY <3>2, <1>1 DEF TypeOK, service
    <3>3. QED
      BY <3>1, <3>2
  <2>2. QED
    BY <2>1, <1>1, <1>3 DEF TypeOK, client
<1>5. InFlightBound' /\ WholeUploadIsCompleted' /\ SchedulerInv'
  BY <1>1 DEF InFlightBound, WholeUploadIsCompleted, SchedulerInv, client
<1>6. PhaseInv'
  BY <1>1, <1>3 DEF PhaseInv, client
<1>7. ServiceInv'
  BY <1>1, <1>2, EffectInv DEF ServiceInv, client, service
<1>8. QED
  BY <1>4, <1>5, <1>6, <1>7

-------------------------------------------------------------------------------
(* The initial state satisfies the invariant. *)
LEMMA InitInv == Init => IInv
<1> SUFFICES ASSUME Init PROVE IInv
  OBVIOUS
<1> USE CallsFacts
<1>1. TypeOK
  <2>1. /\ call \in [Calls -> CallStates]
        /\ attempts \in [Calls -> 0..MaxAttempts] /\ late \in [Calls -> Nat]
    BY MaxAttemptsAssumption DEF Init, CallStates
  <2>2. next \in 1..PartCount + 1 /\ completed \in Seq(Parts)
    BY PartCountAssumption DEF Init
  <2>3. QED
    BY <2>1, <2>2 DEF Init, TypeOK, Phases, Outcomes
<1>2. Pending(call) = {}
  BY DEF Init, Pending
<1>3. InFlightBound
  <2>1. Cardinality(Pending(call)) = 0
    BY <1>2, FS_EmptySet, Zenon
  <2>2. QED
    BY <2>1, ConcurrencyAssumption DEF InFlightBound
<1>4. Recorded(completed) = {} /\ Ascending(completed)
  BY DEF Init, Recorded, Ascending
<1>5. Parts # {}
  BY PartCountAssumption DEF Parts
<1>6. SchedulerInv
  <2>1. \A p \in Parts : ~(p < next) /\ call[p] = "unstarted"
    BY PartsAreNaturals DEF Init
  <2>2. QED
    BY <1>4, <2>1 DEF Init, SchedulerInv
<1>7. WholeUploadIsCompleted /\ PhaseInv /\ ServiceInv
  BY <1>2, <1>4, <1>5 DEF Init, WholeUploadIsCompleted, PhaseInv, ServiceInv
<1>8. QED
  BY <1>1, <1>3, <1>6, <1>7 DEF IInv

(* Every step keeps the invariant. *)
LEMMA StepInv == IInv /\ [Next]_vars => IInv'
<1> SUFFICES ASSUME IInv, [Next]_vars PROVE IInv'
  OBVIOUS
<1>1. CASE UNCHANGED vars
  BY <1>1 DEF vars, client, requests, service, IInv, TypeOK, InFlightBound,
              WholeUploadIsCompleted, SchedulerInv, PhaseInv, ServiceInv
<1>2. CASE Task
  BY <1>2, CallsFacts, PrepareOkInv, PrepareFailsInv, CreateSucceedsInv, CreateFailsInv,
     PartSucceedsInv, PartFailsInv, QuiescePartInv, StopSchedulingInv, QuiesceDoneInv,
     QuiesceTimeoutInv, CompleteSucceedsInv, CompleteFailsInv, AbortSucceedsInv,
     AbortFailsInv, TransmitInv, AttemptFailsInv
     DEF Task, CompleteCancelled, Request
<1>3. CASE DropOwner \/ Expire
  BY <1>3, DropOwnerInv, ExpireInv
<1>4. CASE Service
  BY <1>4, ServeInv, LateInv DEF Service
<1>5. QED
  BY <1>1, <1>2, <1>3, <1>4 DEF Next

(* The invariant holds in every reachable state. *)
LEMMA Invariance == Spec => []IInv
<1>1. QED
  BY InitInv, StepInv, PTL DEF Spec

(* Every variable of the managed upload keeps its type; in particular no     *)
(* request is attempted more often than the retry policy allows.             *)
THEOREM TypeCorrect == Spec => []TypeOK
<1>1. IInv => TypeOK
  BY DEF IInv
<1>2. QED
  BY <1>1, Invariance, PTL

(* The scheduler never holds more than `concurrency' parts.                  *)
THEOREM InFlightBounded == Spec => []InFlightBound
<1>1. IInv => InFlightBound
  BY DEF IInv
<1>2. QED
  BY <1>1, Invariance, PTL

(* Whatever arrives late, twice or out of order, a completed upload holds    *)
(* all parts, listed as 1, 2, ..., PartCount.                                *)
THEOREM PublishedWhole == Spec => []PublishedObjectIsWhole
<1>1. IInv => PublishedObjectIsWhole
  BY AscendingCover DEF IInv, TypeOK, SchedulerInv, ServiceInv, PublishedObjectIsWhole
<1>2. QED
  BY <1>1, Invariance, PTL

(* When all parts are recorded, the completion is attempted.                 *)
THEOREM WholeIsCompleted == Spec => []WholeUploadIsCompleted
<1>1. IInv => WholeUploadIsCompleted
  BY DEF IInv
<1>2. QED
  BY <1>1, Invariance, PTL

(* No part future survives the start of the completion or of the abort.      *)
THEOREM NoPartOutlives == Spec => []NoPartOutlivesUpload
<1>1. IInv => NoPartOutlivesUpload
  BY DEF IInv, PhaseInv, NoPartOutlivesUpload
<1>2. QED
  BY <1>1, Invariance, PTL

(* The scheduler, the service and the owner together implement the contract  *)
(* of multipart_upload: each of their steps is a step of the contract or     *)
(* leaves its two variables alone.                                           *)
THEOREM Refinement == Spec => ImplementsContract
<1>1. Init => Contract!Init
  BY DEF Init, Contract!Init
<1>2. IInv /\ [Next]_vars => [Contract!Next]_Contract!vars
  <2> SUFFICES ASSUME IInv, [Next]_vars
               PROVE  Contract!Next \/ UNCHANGED <<upload, outcome>>
    BY DEF Contract!vars
  <2> USE CallsFacts
  <2>1. CASE UNCHANGED vars
    BY <2>1 DEF vars, client, service
  <2>2. CASE DropOwner \/ Expire \/ StopScheduling \/ QuiesceDone \/ QuiesceTimeout
             \/ PrepareOk \/ CompleteFails
    BY <2>2 DEF DropOwner, Expire, StopScheduling, QuiesceDone, QuiesceTimeout, PrepareOk,
                CompleteFails, EndCall, service
  <2>3. CASE \E p \in Parts : PartSucceeds(p) \/ PartFails(p) \/ QuiescePart(p)
    BY <2>3 DEF PartSucceeds, PartFails, QuiescePart, EndCall, client, service
  <2>4. CASE \E c \in Calls : Transmit(c) \/ AttemptFails(c)
    BY <2>4 DEF Transmit, AttemptFails, client, service
  <2>5. CASE CreateSucceeds
    <3>1. upload = "none" /\ outcome = "pending" /\ upload' = "open" /\ outcome' = outcome
      BY <2>5 DEF CreateSucceeds, Active, Polled, IInv, ServiceInv, PhaseInv
    <3>2. QED
      BY <3>1 DEF Contract!Next, Contract!Open
  <2>6. CASE PrepareFails \/ CreateFails
    <3>1. upload = "none" /\ outcome = "pending" /\ outcome' = "failed" /\ upload' = upload
      BY <2>6 DEF PrepareFails, CreateFails, EndCall, Active, Polled, service,
                  IInv, ServiceInv, PhaseInv
    <3>2. Contract!Report("failed")
      BY <3>1 DEF Contract!Report
    <3>3. QED
      BY <3>2 DEF Contract!Next
  <2>7. CASE CompleteSucceeds
    <3>1. upload = "completed" /\ outcome = "pending" /\ outcome' = "ok" /\ upload' = upload
      BY <2>7 DEF CompleteSucceeds, Active, Polled, service, IInv, ServiceInv, PhaseInv
    <3>2. Contract!Report("ok")
      BY <3>1 DEF Contract!Report
    <3>3. QED
      BY <3>2 DEF Contract!Next
  <2>8. CASE AbortSucceeds
    <3>1. /\ upload = "aborted" /\ outcome = "pending" /\ upload' = upload
          /\ outcome' \in {"failed", "failed_cleanup"}
      BY <2>8 DEF AbortSucceeds, Active, Polled, service, IInv, ServiceInv, PhaseInv
    <3>2. Contract!Report(outcome')
      BY <3>1 DEF Contract!Report
    <3>3. QED
      BY <3>1, <3>2 DEF Contract!Next
  <2>9. CASE AbortFails
    <3>1. outcome = "pending" /\ outcome' = "failed_cleanup" /\ upload' = upload
      BY <2>9 DEF AbortFails, EndCall, Active, Polled, IInv, PhaseInv
    <3>2. Contract!Report("failed_cleanup")
      BY <3>1 DEF Contract!Report
    <3>3. QED
      BY <3>2 DEF Contract!Next
  <2>10. CASE Service
    <3>1. PICK c \in Calls : Serve(c) \/ ServeLate(c) \/ LoseLate(c)
      BY <2>10 DEF Service
    <3>2. outcome' = outcome
      BY <3>1 DEF Serve, ServeLate, LoseLate, client
    <3>3. UNCHANGED upload \/ Effect(c)
      BY <3>1 DEF Serve, ServeLate, LoseLate, service
    <3>4. \/ upload' = upload
          \/ upload = "open" /\ upload' \in {"completed", "aborted"}
      BY <3>3 DEF Effect
    <3>5. upload = "open" => outcome \in {"pending", "failed_cleanup"}
      BY DEF IInv, TypeOK, Outcomes, ServiceInv
    <3>6. CASE upload' = upload
      BY <3>2, <3>6
    <3>7. CASE upload = "open" /\ upload' \in {"completed", "aborted"}
      <4>1. Contract!Settle(upload')
        BY <3>2, <3>5, <3>7 DEF Contract!Settle
      <4>2. QED
        BY <3>7, <4>1 DEF Contract!Next
    <3>8. QED
      BY <3>4, <3>6, <3>7
  <2>11. QED
    BY <2>1, <2>2, <2>3, <2>4, <2>5, <2>6, <2>7, <2>8, <2>9, <2>10
       DEF Next, Task, Request, CompleteCancelled
<1>3. QED
  BY <1>1, <1>2, Invariance, PTL DEF Spec, ImplementsContract, Contract!Spec
===============================================================================
