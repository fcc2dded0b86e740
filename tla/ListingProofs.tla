------------------------------ MODULE ListingProofs ------------------------------
(***************************************************************************)
(* The safety of the paging loops (Listing) for every number of entries,   *)
(* page size and page bound, and any number of changes by other clients;   *)
(* of the artifact store for any objects, uploads, publications, page and  *)
(* batch size, and any interleaving of its actors; and of the XML layer    *)
(* for any bodies, documents and bounds.                                   *)
(*                                                                         *)
(* While the loop runs, the marker it asks for next is new (LoopInv) and   *)
(* separates what was listed from what was not (CoverInv): entries at or   *)
(* before it that were there all the time are in a page, and no entry      *)
(* behind it is.                                                           *)
(*                                                                         *)
(* Of the artifact store, each actor has an invariant of its own (PubInv,  *)
(* ColInv, UpInv, StaleInv, DownInv) over the bucket (StoreInv), which the *)
(* steps of the others keep because of what they may do to the bucket at   *)
(* all (BlobStep) and to the multipart uploads in it (OwnStep).            *)
(***************************************************************************)
EXTENDS Listings, FiniteSetTheorems, SequenceTheorems, TLAPS

(* The bounds of a listing. *)
LEMMA ListingConstants ==
    /\ LastEntry \in Nat \ {0} /\ EntriesPerPage \in Nat \ {0}
    /\ MaximumPages \in Nat /\ MaxChanges \in Nat
BY ListingsAssumption DEF LS!ListingAssumption

Listed(k) == \E i \in 1..Len(pages) : k \in pages[i].keys

LoopInv ==
    result = "none" =>
        /\ marker = 0 => asked = <<>>
        /\ marker # 0 => marker \in seen
        /\ \A i \in 1..Len(asked) : asked[i] # marker
        /\ \A i \in 1..Len(asked) : asked[i] = 0 \/ asked[i] \in seen
        /\ maximum > 0 => Len(pages) < maximum
        /\ \A i \in 1..Len(pages) : pages[i].truncated

CoverInv ==
    sound /\ result = "none" =>
        /\ start <= LS!Position
        /\ \A i \in 1..Len(pages) : \A k \in pages[i].keys : k <= LS!Position
        /\ \A k \in stable : start < k /\ k <= LS!Position => Listed(k)

IInv ==
    /\ LS!TypeOK /\ LoopInv /\ CoverInv
    /\ LS!NoPageAskedTwice /\ LS!ResultMatchesPages /\ LS!ListingIsExact

LEMMA InitIInv == LS!Init => IInv
<1> SUFFICES ASSUME LS!Init PROVE IInv
  OBVIOUS
<1> USE ListingConstants DEF LS!Markers, LS!Entries
<1>1. Len(pages) = 0 /\ Len(asked) = 0
  BY DEF LS!Init
<1>2. LS!TypeOK
  BY DEF LS!Init, LS!TypeOK
<1>3. LoopInv /\ LS!NoPageAskedTwice /\ LS!ResultMatchesPages
  BY <1>1 DEF LS!Init, LoopInv, LS!NoPageAskedTwice, LS!ResultMatchesPages
<1>4. CoverInv
  BY <1>1 DEF LS!Init, CoverInv, LS!Position
<1>5. LS!ListingIsExact
  BY <1>1 DEF LS!Init, LS!ListingIsExact
<1> QED BY <1>2, <1>3, <1>4, <1>5 DEF IInv

-------------------------------------------------------------------------------
(* A page of either service has the type of a page. *)
LEMMA PagesAreTyped ==
    ASSUME LS!TypeOK
    PROVE  LS!SoundPages \subseteq LS!Pages /\ LS!UnsoundPages \subseteq LS!Pages
<1> USE ListingConstants DEF LS!Markers, LS!Entries
<1>1. LS!Position \in LS!Markers
  BY DEF LS!TypeOK, LS!Position
<1>2. LS!SoundPages \subseteq LS!Pages
  <2> SUFFICES ASSUME NEW page \in LS!SoundPages PROVE page \in LS!Pages
    OBVIOUS
  <2>1. PICK last \in LS!Position..LastEntry :
          page = [keys |-> {k \in store : LS!Position < k /\ k <= last},
                  truncated |-> \E k \in store : k > last,
                  next |-> IF \E k \in store : k > last THEN last ELSE 0]
    BY DEF LS!SoundPages
  <2>2. last \in LS!Markers
    BY <1>1, <2>1
  <2>3. (\E k \in store : k > last) \in BOOLEAN
    OBVIOUS
  <2>4. {k \in store : LS!Position < k /\ k <= last} \in SUBSET LS!Entries
    BY DEF LS!TypeOK
  <2>5. (IF \E k \in store : k > last THEN last ELSE 0) \in LS!Markers
    BY <2>2
  <2> QED BY <2>1, <2>3, <2>4, <2>5 DEF LS!Pages
<1>3. LS!UnsoundPages \subseteq LS!Pages
  BY DEF LS!UnsoundPages, LS!Pages
<1> QED BY <1>2, <1>3

(* What a sound page holds, behind the position p at which it was asked for. *)
LEMMA SoundPage ==
    ASSUME LS!TypeOK, NEW page \in LS!SoundPages
    PROVE  /\ page.keys \subseteq store
           /\ \A k \in page.keys : k > LS!Position
           /\ page.truncated =>
                 /\ page.next > LS!Position
                 /\ \A k \in page.keys : k <= page.next
                 /\ \A k \in store : LS!Position < k /\ k <= page.next => k \in page.keys
           /\ ~page.truncated => \A k \in store : LS!Position < k => k \in page.keys
<1> USE ListingConstants DEF LS!Markers, LS!Entries
<1>1. LS!Position \in LS!Markers
  BY DEF LS!TypeOK, LS!Position
<1>2. PICK last \in LS!Position..LastEntry :
        page = [keys |-> {k \in store : LS!Position < k /\ k <= last},
                truncated |-> \E k \in store : k > last,
                next |-> IF \E k \in store : k > last THEN last ELSE 0]
  BY DEF LS!SoundPages
<1>3. page.truncated => page.next > LS!Position
  BY DEF LS!SoundPages
<1>4. last \in LS!Markers /\ \A k \in store : k \in LS!Entries
  BY <1>1, <1>2 DEF LS!TypeOK
<1> QED BY <1>1, <1>2, <1>3, <1>4

-------------------------------------------------------------------------------
(* Steps that end the loop without a page. *)
LEMMA EndsKeep == ASSUME IInv, LS!RejectBound \/ LS!PageFails PROVE IInv'
<1>1. CASE LS!RejectBound
  <2> USE <1>1 DEF LS!RejectBound, LS!Return, LS!caller, LS!entries
  <2>1. LS!TypeOK' /\ LoopInv' /\ CoverInv'
    BY DEF IInv, LS!TypeOK, LoopInv, CoverInv
  <2>2. LS!NoPageAskedTwice' /\ LS!ResultMatchesPages' /\ LS!ListingIsExact'
    BY DEF IInv, LS!NoPageAskedTwice, LS!ResultMatchesPages, LS!ListingIsExact
  <2> QED BY <2>1, <2>2 DEF IInv
<1>2. CASE LS!PageFails
  <2> USE <1>2 DEF LS!PageFails, LS!Return, LS!caller, LS!entries
  <2>1. LS!TypeOK' /\ LoopInv' /\ CoverInv'
    BY DEF IInv, LS!TypeOK, LoopInv, CoverInv
  <2>2. LS!ResultMatchesPages' /\ LS!ListingIsExact'
    BY DEF IInv, LS!ResultMatchesPages, LS!ListingIsExact
  <2>3. LS!NoPageAskedTwice'
    BY DEF IInv, LS!TypeOK, LoopInv, LS!NoPageAskedTwice
  <2> QED BY <2>1, <2>2, <2>3 DEF IInv
<1> QED BY <1>1, <1>2

(* The control of one round, for a page of any service. *)
LEMMA RoundKeeps ==
    ASSUME IInv, NEW page \in LS!Pages, LS!ReceivePage(page)
    PROVE  LS!TypeOK' /\ LoopInv' /\ LS!NoPageAskedTwice' /\ LS!ResultMatchesPages'
<1> USE ListingConstants DEF LS!Markers, LS!Entries
<1>1. /\ pages \in Seq(LS!Pages) /\ asked \in Seq(LS!Markers)
      /\ pages' = Append(pages, page) /\ asked' = Append(asked, marker)
      /\ result = "none" /\ maximum' = maximum /\ maximum \in Nat /\ maximum > 0
      /\ page.truncated \in BOOLEAN /\ page.next \in LS!Markers
  BY DEF IInv, LS!TypeOK, LS!ReceivePage, LS!caller, LS!Pages
<1>2. /\ Len(pages') = Len(pages) + 1 /\ Len(pages) \in Nat
      /\ pages'[Len(pages) + 1] = page
      /\ \A i \in 1..Len(pages) : pages'[i] = pages[i]
  BY <1>1
<1>3. /\ Len(asked') = Len(asked) + 1 /\ Len(asked) \in Nat
      /\ asked'[Len(asked) + 1] = marker
      /\ \A i \in 1..Len(asked) : asked'[i] = asked[i]
  BY <1>1 DEF IInv, LS!TypeOK
<1>4. \/ ~page.truncated /\ LS!Return("ok")
      \/ page.truncated /\ LS!Return("malformed")
      \/ /\ page.truncated /\ page.next # 0 /\ page.next \notin seen
         /\ marker' = page.next /\ startAfter' = 0 /\ seen' = seen \cup {page.next}
         /\ result' = IF Len(pages) + 1 = maximum THEN "limit" ELSE "none"
  BY DEF LS!ReceivePage, LS!TurnPage, LS!Repeated
<1>5. LS!TypeOK'
  <2>1. pages' \in Seq(LS!Pages) /\ asked' \in Seq(LS!Markers)
    BY <1>1 DEF IInv, LS!TypeOK
  <2>2. /\ startAfter' \in LS!Markers /\ marker' \in LS!Markers /\ seen' \subseteq LS!Entries
        /\ result' \in {"none", "ok", "malformed", "limit", "failed", "configuration"}
    <3>1. CASE page.truncated /\ page.next # 0 /\ marker' = page.next /\ startAfter' = 0
               /\ seen' = seen \cup {page.next} /\ result' \in {"limit", "none"}
      <4>1. page.next \in LS!Entries /\ page.next \in LS!Markers /\ 0 \in LS!Markers
        BY <1>1, <3>1
      <4>2. seen \subseteq LS!Entries
        BY DEF IInv, LS!TypeOK
      <4>3. seen' \subseteq LS!Entries
        BY <3>1, <4>1, <4>2
      <4> QED BY <3>1, <4>1, <4>3
    <3>2. CASE LS!Return("ok") \/ LS!Return("malformed")
      BY <3>2 DEF LS!Return, IInv, LS!TypeOK
    <3> QED BY <1>4, <3>1, <3>2
  <2> QED BY <2>1, <2>2 DEF IInv, LS!TypeOK, LS!ReceivePage, LS!caller, LS!entries
<1>6. LS!NoPageAskedTwice'
  BY <1>1, <1>3 DEF IInv, LoopInv, LS!NoPageAskedTwice
<1>7. Len(pages) < maximum /\ \A i \in 1..Len(pages) : pages[i].truncated
  BY <1>1 DEF IInv, LoopInv
<1>8. LS!ResultMatchesPages'
  <2>1. Len(pages') <= maximum'
    BY <1>1, <1>2, <1>7
  <2>2. \A i \in 1..Len(pages') - 1 : pages'[i].truncated
    BY <1>2, <1>7
  <2>3. pages' # <<>> /\ pages'[Len(pages')] = page
    <3>1. Len(<<>>) = 0
      OBVIOUS
    <3> QED BY <1>2, <3>1
  <2>4. \/ ~page.truncated /\ result' = "ok"
        \/ page.truncated /\ result' = "malformed"
        \/ page.truncated /\ result' = "none"
        \/ page.truncated /\ result' = "limit" /\ Len(pages') = maximum'
    BY <1>1, <1>2, <1>4 DEF LS!Return
  <2> QED BY <2>1, <2>2, <2>3, <2>4 DEF LS!ResultMatchesPages
<1>9. LoopInv'
  <2> SUFFICES ASSUME result' = "none" PROVE LoopInv'
    BY DEF LoopInv
  <2>1. /\ page.truncated /\ page.next # 0 /\ page.next \notin seen
        /\ marker' = page.next /\ seen' = seen \cup {page.next}
        /\ Len(pages) + 1 # maximum
    BY <1>4 DEF LS!Return
  <2>2. \A i \in 1..Len(asked') : asked'[i] # marker' /\ (asked'[i] = 0 \/ asked'[i] \in seen')
    <3> SUFFICES ASSUME NEW i \in 1..Len(asked')
                 PROVE  asked'[i] # marker' /\ (asked'[i] = 0 \/ asked'[i] \in seen')
      OBVIOUS
    <3>1. asked'[i] = 0 \/ asked'[i] \in seen
      <4>1. CASE i = Len(asked) + 1
        BY <1>1, <1>3, <4>1 DEF IInv, LoopInv
      <4>2. CASE i \in 1..Len(asked)
        BY <1>1, <1>3, <4>2 DEF IInv, LoopInv
      <4> QED BY <1>3, <4>1, <4>2
    <3> QED BY <2>1, <3>1
  <2>3. maximum' > 0 => Len(pages') < maximum'
    BY <1>1, <1>2, <1>7, <2>1
  <2>4. \A i \in 1..Len(pages') : pages'[i].truncated
    BY <1>2, <1>7, <2>1
  <2> QED BY <2>1, <2>2, <2>3, <2>4 DEF LoopInv
<1> QED BY <1>5, <1>6, <1>8, <1>9

(* The entries of one round, for a page of a sound service. *)
LEMMA SoundRoundKeeps ==
    ASSUME IInv, sound, NEW page \in LS!SoundPages, LS!ReceivePage(page)
    PROVE  CoverInv' /\ LS!ListingIsExact'
<1> USE ListingConstants DEF LS!Markers, LS!Entries
<1>1. /\ pages \in Seq(LS!Pages) /\ pages' = Append(pages, page)
      /\ result = "none" /\ sound' = sound /\ start' = start
      /\ UNCHANGED <<store, stable, ever>>
      /\ stable \subseteq store /\ store \subseteq ever /\ store \subseteq LS!Entries
      /\ start \in LS!Markers /\ LS!Position \in LS!Markers
  BY DEF IInv, LS!TypeOK, LS!ReceivePage, LS!caller, LS!entries, LS!Position
<1>2. /\ Len(pages') = Len(pages) + 1 /\ Len(pages) \in Nat
      /\ pages'[Len(pages) + 1] = page
      /\ \A i \in 1..Len(pages) : pages'[i] = pages[i]
  BY <1>1, PagesAreTyped DEF IInv
<1>3. /\ start <= LS!Position
      /\ \A i \in 1..Len(pages) : \A k \in pages[i].keys : k <= LS!Position
      /\ \A k \in stable : start < k /\ k <= LS!Position => Listed(k)
  BY <1>1 DEF IInv, CoverInv
<1>4. /\ page.keys \subseteq store
      /\ \A k \in page.keys : k > LS!Position
      /\ page.truncated =>
            /\ page.next > LS!Position
            /\ \A k \in page.keys : k <= page.next
            /\ \A k \in store : LS!Position < k /\ k <= page.next => k \in page.keys
      /\ ~page.truncated => \A k \in store : LS!Position < k => k \in page.keys
  BY SoundPage DEF IInv
<1>5. page.truncated => page.next \in LS!Entries
  BY <1>1, <1>4, PagesAreTyped DEF IInv, LS!Pages
<1>6. \A k : Listed(k) \/ k \in page.keys => Listed(k)'
  BY <1>2 DEF Listed
<1>7. \/ ~page.truncated /\ result' = "ok"
      \/ page.truncated /\ result' = "malformed"
      \/ page.truncated /\ result' \in {"limit", "none"} /\ marker' = page.next
  BY DEF LS!ReceivePage, LS!TurnPage, LS!Return
<1>8. CoverInv'
  <2> SUFFICES ASSUME result' = "none" PROVE CoverInv'
    BY DEF CoverInv
  <2>1. page.truncated /\ marker' = page.next
    BY <1>7
  <2>2. LS!Position' = page.next
    BY <1>5, <2>1 DEF LS!Position
  <2>3. start' <= LS!Position'
    BY <1>1, <1>3, <1>4, <1>5, <2>1, <2>2
  <2>4. \A i \in 1..Len(pages') : \A k \in pages'[i].keys : k <= LS!Position'
    <3> SUFFICES ASSUME NEW i \in 1..Len(pages'), NEW k \in pages'[i].keys
                 PROVE  k <= LS!Position'
      OBVIOUS
    <3>1. CASE i = Len(pages) + 1
      BY <1>2, <1>4, <2>1, <2>2, <3>1
    <3>2. CASE i \in 1..Len(pages)
      <4>1. k \in pages[i].keys /\ k \in LS!Entries
        <5>1. pages[i] \in LS!Pages /\ pages'[i] = pages[i]
          BY <1>1, <1>2, <3>2
        <5> QED BY <5>1 DEF LS!Pages
      <4> QED BY <1>1, <1>3, <1>4, <1>5, <2>1, <2>2, <3>2, <4>1
    <3> QED BY <1>2, <3>1, <3>2
  <2>5. \A k \in stable' : start' < k /\ k <= LS!Position' => Listed(k)'
    <3> SUFFICES ASSUME NEW k \in stable, start < k, k <= page.next PROVE Listed(k)'
      BY <1>1, <2>2
    <3>1. CASE k <= LS!Position
      BY <1>3, <1>6, <3>1
    <3>2. CASE k > LS!Position
      BY <1>1, <1>4, <1>6, <2>1, <3>2
    <3> QED BY <1>1, <3>1, <3>2
  <2> QED BY <2>3, <2>4, <2>5 DEF CoverInv
<1>9. LS!ListingIsExact'
  <2>1. \A i \in 1..Len(pages) : pages[i].keys \cap page.keys = {}
    <3> SUFFICES ASSUME NEW i \in 1..Len(pages), NEW k \in pages[i].keys \cap page.keys
                 PROVE  FALSE
      OBVIOUS
    <3>1. k <= LS!Position /\ k > LS!Position /\ k \in LS!Entries
      BY <1>1, <1>3, <1>4
    <3> QED BY <1>1, <3>1
  <2>2. \A i, j \in 1..Len(pages') : i # j => pages'[i].keys \cap pages'[j].keys = {}
    <3> SUFFICES ASSUME NEW i \in 1..Len(pages'), NEW j \in 1..Len(pages'), i # j
                 PROVE  pages'[i].keys \cap pages'[j].keys = {}
      OBVIOUS
    <3>1. CASE i = Len(pages) + 1
      BY <1>2, <2>1, <3>1
    <3>2. CASE j = Len(pages) + 1
      BY <1>2, <2>1, <3>2
    <3>3. CASE i \in 1..Len(pages) /\ j \in 1..Len(pages)
      BY <1>2, <3>3 DEF IInv, LS!ListingIsExact
    <3> QED BY <1>2, <3>1, <3>2, <3>3
  <2>3. \A i \in 1..Len(pages') : pages'[i].keys \subseteq ever'
    <3> SUFFICES ASSUME NEW i \in 1..Len(pages') PROVE pages'[i].keys \subseteq ever'
      OBVIOUS
    <3>1. CASE i = Len(pages) + 1
      BY <1>1, <1>2, <1>4, <3>1
    <3>2. CASE i \in 1..Len(pages)
      BY <1>1, <1>2, <3>2 DEF IInv, LS!ListingIsExact
    <3> QED BY <1>2, <3>1, <3>2
  <2>4. result' = "ok" => \A k \in stable' : k > start' => Listed(k)'
    <3> SUFFICES ASSUME ~page.truncated, NEW k \in stable, k > start PROVE Listed(k)'
      BY <1>1, <1>7
    <3>1. CASE k <= LS!Position
      BY <1>3, <1>6, <3>1, <1>1
    <3>2. CASE k > LS!Position
      BY <1>1, <1>4, <1>6, <3>2
    <3> QED BY <1>1, <3>1, <3>2
  <2> QED BY <2>2, <2>3, <2>4 DEF LS!ListingIsExact, Listed
<1> QED BY <1>8, <1>9

(* Changes by other clients. *)
LEMMA ChangesKeep ==
    ASSUME IInv, NEW k \in LS!Entries, LS!AddEntry(k) \/ LS!RemoveEntry(k)
    PROVE  IInv'
<1>1. UNCHANGED <<LS!caller, LS!loop>>
  BY DEF LS!AddEntry, LS!RemoveEntry
<1>2. stable' \subseteq stable /\ ever \subseteq ever'
  BY DEF LS!AddEntry, LS!RemoveEntry
<1>3. LS!TypeOK'
  BY <1>1, ListingConstants DEF IInv, LS!TypeOK, LS!AddEntry, LS!RemoveEntry, LS!caller, LS!loop
<1>4. LoopInv' /\ LS!NoPageAskedTwice' /\ LS!ResultMatchesPages'
  BY <1>1 DEF IInv, LoopInv, LS!NoPageAskedTwice, LS!ResultMatchesPages, LS!caller, LS!loop
<1>5. CoverInv'
  BY <1>1, <1>2 DEF IInv, CoverInv, LS!Position, Listed, LS!caller, LS!loop
<1>6. LS!ListingIsExact'
  BY <1>1, <1>2 DEF IInv, LS!ListingIsExact, LS!caller, LS!loop
<1> QED BY <1>3, <1>4, <1>5, <1>6 DEF IInv

(* The invariant is inductive. *)
LEMMA NextIInv == ASSUME IInv, [LS!Next]_LS!vars PROVE IInv'
<1>1. CASE LS!RejectBound \/ LS!PageFails
  BY <1>1, EndsKeep
<1>2. ASSUME sound, NEW page \in LS!SoundPages, LS!ReceivePage(page) PROVE IInv'
  <2>1. page \in LS!Pages
    BY PagesAreTyped DEF IInv
  <2> QED BY <1>2, <2>1, RoundKeeps, SoundRoundKeeps DEF IInv
<1>3. ASSUME ~sound, NEW page \in LS!UnsoundPages, LS!ReceivePage(page) PROVE IInv'
  <2>1. page \in LS!Pages
    BY PagesAreTyped DEF IInv
  <2>2. ~sound'
    BY <1>3 DEF LS!ReceivePage, LS!caller
  <2>3. CoverInv' /\ LS!ListingIsExact'
    BY <2>2 DEF CoverInv, LS!ListingIsExact
  <2> QED BY <1>3, <2>1, <2>3, RoundKeeps DEF IInv
<1>4. ASSUME NEW k \in LS!Entries, LS!AddEntry(k) \/ LS!RemoveEntry(k) PROVE IInv'
  BY <1>4, ChangesKeep
<1>5. CASE UNCHANGED LS!vars
  BY <1>5 DEF LS!vars, LS!caller, LS!loop, LS!entries, IInv, LS!TypeOK, LoopInv, CoverInv, LS!Position,
     Listed, LS!NoPageAskedTwice, LS!ResultMatchesPages, LS!ListingIsExact
<1> QED BY <1>1, <1>2, <1>3, <1>4, <1>5 DEF LS!Next

LEMMA Inductive == LS!Spec => []IInv
BY InitIInv, NextIInv, PTL DEF LS!Spec

(* Every variable of a listing keeps its type; a missing marker never joins  *)
(* the markers that were seen.                                               *)
THEOREM TypeCorrect == LS!Spec => []LS!TypeOK
BY Inductive, PTL DEF IInv

(* The result of a listing is decided by its last page, within the bound.    *)
THEOREM ResultDecided == LS!Spec => []LS!ResultMatchesPages
BY Inductive, PTL DEF IInv

-------------------------------------------------------------------------------
(* The scenes: each component moves alone, under its own next-state relation. *)
LEMMA ScenesListing == Scenes => [](scene = "listing" => IInv)
<1> DEFINE I == scene = "listing" => IInv
<1>1. ScenesInit => I
  BY InitIInv DEF ScenesInit
<1>2. I /\ [ScenesNext]_all => I'
  <2> SUFFICES ASSUME I, [ScenesNext]_all PROVE I'
    OBVIOUS
  <2>1. scene' = scene
    BY DEF ScenesNext, all
  <2>2. scene = "listing" => [LS!Next]_LS!vars
    BY DEF ScenesNext, all, listing, LS!vars, LS!caller, LS!loop, LS!entries
  <2> QED BY <2>1, <2>2, NextIInv
<1> QED BY <1>1, <1>2, PTL DEF Scenes

(* No page is asked for twice, for any service.                              *)
THEOREM AskedOnce == Scenes => []NoPageAskedTwice
<1>1. (scene = "listing" => IInv) => NoPageAskedTwice
  BY DEF IInv, NoPageAskedTwice
<1> QED BY ScenesListing, <1>1, PTL

(* A sound service is listed exactly, under any changes by other clients.    *)
THEOREM Exact == Scenes => []ListingIsExact
<1>1. (scene = "listing" => IInv) => ListingIsExact
  BY DEF IInv, ListingIsExact
<1> QED BY ScenesListing, <1>1, PTL


-------------------------------------------------------------------------------
(* The invariant of the artifact store. *)

(* A key of the store in its parts. *)
KeyOf(tenant, digest, spelling) == Append(blob_prefix(tenant), <<digest, spelling>>)

Tenants == {Mine} \cup {o.tenant : o \in Objects} \cup {u.tenant : u \in Uploads}
Spellings == {"lower", "upper", "other"}
Keys == {KeyOf(t, d, s) : t \in Tenants, d \in Digests, s \in Spellings}

Own == [key |-> blob_key(Mine, Uploaded), id |-> OwnId, initiated |-> {Cutoff + 1}]
AllUploads == InitialUploads \cup {Own}

(* The bucket: what it holds of the start, and what it may hold besides. *)
StoreInv ==
    /\ DOMAIN blobs \subseteq Keys /\ IsFiniteSet(DOMAIN blobs)
    /\ \A k \in DOMAIN blobs : blobs[k] \in Halves
    /\ StoredContentIsAddressed
    /\ \A k \in DOMAIN InitialBlobs : ~Present(k) => k \in Collectable

(* A publication reaches its marker behind its payload, which was verified. *)
PublicationStates == [at : {"idle", "verify", "blob", "manifest", "ok", "failed", "mismatch"},
                      tries : 0..MaxAttempts, created : SUBSET {"blob", "manifest"}]
Payload(p) == blob_key(Mine, Published[p].digest)
PubInv ==
    /\ pub \in [Publishers -> PublicationStates]
    /\ \A p \in Publishers :
          /\ pub[p].at \in {"verify", "blob", "manifest"} => pub[p].tries < MaxAttempts
          /\ pub[p].at \in {"blob", "manifest", "ok"} =>
                Verified(Published[p].digest, Published[p].content)
          /\ pub[p].at \in {"manifest", "ok"} /\ Published[p].digest \in Live => Present(Payload(p))
    /\ manifests \subseteq Digests /\ MarkersHavePayloads

(* The collection: an unreferenced payload of the start that is still there is *)
(* behind the cursor or doomed, and only unreferenced ones are doomed.         *)
Unswept == (DOMAIN InitialBlobs \cap Collectable) \ Restorable
CollectionStates ==
    [at : {"idle", "list", "delete", "ok", "failed"}, cursor : 0..Max(Digests),
     doomed : Seq(Collectable), deleted : Nat, tries : 0..MaxAttempts]
ColInv ==
    /\ col \in CollectionStates
    /\ col.at \in {"list", "delete"} => col.tries < MaxAttempts
    /\ col.at = "list" => col.cursor < Max(Digests)
    /\ col.at \in {"delete", "ok"} => col.cursor = Max(Digests)
    /\ col.at = "ok" => col.doomed = <<>>
    /\ col.at \in {"list", "delete", "ok"} =>
          \A k \in Unswept : Present(k) => Last(k)[1] > col.cursor \/ k \in Range(col.doomed)

(* The file upload: what it completes is the verified copy. *)
UploadStates ==
    [at : {"idle", "exists", "snapshot", "create", "complete", "ok", "failed", "mismatch",
           "Cancelled", "DeadlineExceeded"},
     digest : {Uploaded}, copy : Seq(Digests)]
UpInv ==
    /\ up \in UploadStates
    /\ Len(up.copy) <= 2 /\ file \in Halves
    /\ up.at \in {"create", "complete"} => Len(up.copy) = 2 /\ Verified(Uploaded, up.copy)
    /\ up.at = "complete" => Own \in uploads

(* The stale-upload pass: a stale upload that is still open is in the page, or *)
(* behind its marker and will be listed; those that are neither are counted.   *)
Gone == StaleUploads \ uploads
PassStates ==
    [at : {"idle", "list", "abort", "ok", "failed", "limit"}, page : SUBSET AllUploads,
     truncated : BOOLEAN, marker : Nat \X Nat, pages : 0..MaxPages, aborted : Nat,
     tries : 0..MaxAttempts]
StaleInv ==
    /\ uploads \subseteq AllUploads /\ InitialUploads \ uploads \subseteq StaleUploads
    /\ stale \in PassStates
    /\ \A u \in stale.page : IsStrictPrefix(blob_prefix(Mine), u.key)
    /\ stale.at = "list" => stale.page = {}
    /\ stale.at \in {"list", "abort"} =>
          /\ stale.tries < MaxAttempts
          /\ stale.aborted = Cardinality(Gone \ stale.page)
          /\ \A u \in StaleUploads \cap uploads :
                u \in stale.page \/ (After(u, stale.marker) /\ (stale.at = "list" \/ stale.truncated))
    /\ stale.at = "ok" => StaleUploads \cap uploads = {} /\ stale.aborted = Cardinality(StaleUploads)

(* A download never holds more than one content. *)
DownloadStates ==
    [at : {"idle", "get", "body", "ok", "failed", "mismatch"}, digest : Digests,
     body : Seq(Digests), written : Seq(Digests)]
DownInv ==
    /\ down \in DownloadStates
    /\ down.at = "get" => down.body = <<>> /\ down.written = <<>>
    /\ Len(down.body) + Len(down.written) <= 2
    /\ DownloadsAreVerified

ArtifactInv == StoreInv /\ PubInv /\ ColInv /\ UpInv /\ StaleInv /\ DownInv

-------------------------------------------------------------------------------
(* Keys. *)

LEMMA FourSegments ==
    ASSUME NEW U, NEW a \in U, NEW b \in U, NEW c \in U, NEW d \in U
    PROVE  /\ <<a, b>> \o <<c, d>> \in Seq(U) /\ Len(<<a, b>> \o <<c, d>>) = 4
           /\ (<<a, b>> \o <<c, d>>)[2] = b
<1> DEFINE A == <<a, b>>
           B == <<c, d>>
<1>1. A \in Seq(U) /\ Len(A) = 2 /\ A[2] = b /\ B \in Seq(U) /\ Len(B) = 2
  OBVIOUS
<1> HIDE DEF A, B
<1>2. /\ A \o B \in Seq(U) /\ Len(A \o B) = Len(A) + Len(B)
      /\ \A i \in 1..Len(A) + Len(B) : (A \o B)[i] = IF i <= Len(A) THEN A[i] ELSE B[i - Len(A)]
  BY <1>1, ConcatProperties, Zenon
<1>3. A \o B \in Seq(U) /\ Len(A \o B) = 4 /\ (A \o B)[2] = A[2]
  BY <1>1, <1>2
<1> QED BY <1>1, <1>3, Zenon DEF A, B

(* A path with a segment behind it. *)
LEMMA Segments ==
    ASSUME NEW U, NEW P \in Seq(U), NEW e \in U
    PROVE  /\ \A i \in 1..Len(P) : Append(P, e)[i] = P[i]
           /\ Last(Append(P, e)) = e /\ Len(Append(P, e)) = Len(P) + 1
           /\ SubSeq(Append(P, e), 1, Len(P)) = P /\ SubSeq(P, 1, Len(P)) = P
           /\ Len(SubSeq(Append(P, e), Len(P) + 1, Len(P) + 1)) = 1
           /\ SubSeq(Append(P, e), Len(P) + 1, Len(P) + 1)[1] = e
<1> DEFINE K == Append(P, e)
           n == Len(P)
<1>1. /\ K \in Seq(U) /\ Len(K) = n + 1 /\ K[n + 1] = e /\ n \in Nat
      /\ \A i \in 1..n : K[i] = P[i]
  BY AppendProperties
<1>2. \A i \in 1..n + 1 : K[i] \in U
  BY <1>1
<1>3. P \in Seq(U) /\ Len(P) = n /\ \A i \in 1..n : P[i] \in U
  OBVIOUS
<1>4. Last(K) = e
  BY <1>1 DEF Last
<1> HIDE DEF K, n
<1>5. /\ SubSeq(K, 1, n) \in Seq(U) /\ Len(SubSeq(K, 1, n)) = n
      /\ \A i \in 1..n : SubSeq(K, 1, n)[i] = K[i]
  BY <1>1, <1>2, SubSeqProperties
<1>6. /\ SubSeq(P, 1, n) \in Seq(U) /\ Len(SubSeq(P, 1, n)) = n
      /\ \A i \in 1..n : SubSeq(P, 1, n)[i] = P[i]
  BY <1>1, <1>3, SubSeqProperties
<1>7. Len(SubSeq(K, n + 1, n + 1)) = 1 /\ SubSeq(K, n + 1, n + 1)[1] = K[n + 1]
  <2>1. n + 1 \in Int /\ \A i \in n + 1..n + 1 : K[i] \in U
    BY <1>1, <1>2
  <2> QED BY <1>1, <2>1, SubSeqProperties
<1>8. SubSeq(K, 1, n) = P
  BY <1>1, <1>3, <1>5, SeqEqual
<1>9. SubSeq(P, 1, n) = P
  BY <1>3, <1>6, SeqEqual
<1> QED BY <1>1, <1>4, <1>7, <1>8, <1>9, Zenon DEF K, n

LEMMA PrefixShape ==
    ASSUME NEW t, NEW U, "tenants" \in U, t \in U, "blobs" \in U, "sha256" \in U
    PROVE  blob_prefix(t) \in Seq(U) /\ Len(blob_prefix(t)) = 4 /\ blob_prefix(t)[2] = t
<1>1. blob_prefix(t) = <<"tenants", t>> \o <<"blobs", "sha256">>
  BY DEF blob_prefix, tenant_prefix
<1> DEFINE a == "tenants"
           c == "blobs"
           d == "sha256"
<1>2. a \in U /\ c \in U /\ d \in U /\ blob_prefix(t) = <<a, t>> \o <<c, d>>
  BY <1>1
<1> HIDE DEF a, c, d
<1> QED BY <1>2, FourSegments, SMT

LEMMA KeyParts ==
    ASSUME NEW t, NEW d, NEW s
    PROVE  /\ KeyOf(t, d, s)[2] = t /\ Last(KeyOf(t, d, s)) = <<d, s>>
           /\ Len(KeyOf(t, d, s)) = 5 /\ Len(blob_prefix(t)) = 4 /\ blob_prefix(t)[2] = t
           /\ SubSeq(KeyOf(t, d, s), 1, 4) = blob_prefix(t)
           /\ SubSeq(blob_prefix(t), 1, 4) = blob_prefix(t)
           /\ Len(SubSeq(KeyOf(t, d, s), 5, 5)) = 1 /\ SubSeq(KeyOf(t, d, s), 5, 5)[1] = <<d, s>>
<1> DEFINE K == KeyOf(t, d, s)
           P == blob_prefix(t)
           e == <<d, s>>
           U == {"tenants", t, "blobs", "sha256", e}
<1>1. "tenants" \in U /\ t \in U /\ "blobs" \in U /\ "sha256" \in U /\ e \in U
  BY Zenon
<1>2. K = Append(P, e)
  BY DEF KeyOf
<1> HIDE DEF U
<1>3. P \in Seq(U) /\ Len(P) = 4 /\ P[2] = t
  BY <1>1, PrefixShape, Zenon
<1> HIDE DEF K, P, e
<1>4. /\ \A i \in 1..Len(P) : K[i] = P[i]
      /\ Last(K) = e /\ Len(K) = Len(P) + 1
      /\ SubSeq(K, 1, Len(P)) = P /\ SubSeq(P, 1, Len(P)) = P
      /\ Len(SubSeq(K, Len(P) + 1, Len(P) + 1)) = 1
      /\ SubSeq(K, Len(P) + 1, Len(P) + 1)[1] = e
  <2>1. P \in Seq(U) /\ e \in U
    BY <1>1, <1>3
  <2> QED BY <1>2, <2>1, Segments
<1>5. 2 \in 1..Len(P) /\ Len(P) + 1 = 5
  BY <1>3
<1> QED BY <1>3, <1>4, <1>5, Zenon DEF K, P, e

LEMMA PrefixLength ==
    ASSUME NEW t
    PROVE  Len(blob_prefix(t)) = 4 /\ blob_prefix(t)[2] = t /\ SubSeq(blob_prefix(t), 1, 4) = blob_prefix(t)
BY KeyParts, SMT

LEMMA KeySuffix ==
    ASSUME NEW t, NEW d, NEW s
    PROVE  Len(Suffix(KeyOf(t, d, s))) = 1 /\ Suffix(KeyOf(t, d, s))[1] = <<d, s>>
<1>1. Len(blob_prefix(Mine)) = 4
  BY PrefixLength
<1>2. Len(KeyOf(t, d, s)) = 5
  BY KeyParts
<1>3. Suffix(KeyOf(t, d, s)) = SubSeq(KeyOf(t, d, s), 5, 5)
  BY <1>1, <1>2 DEF Suffix
<1> QED BY <1>3, KeyParts

(* A listing of the prefix of the tenant has its keys and no other. *)
LEMMA KeyUnderPrefix ==
    ASSUME NEW t, NEW d, NEW s
    PROVE  IsStrictPrefix(blob_prefix(Mine), KeyOf(t, d, s)) <=> t = Mine
<1> DEFINE P == blob_prefix(Mine)
           K == KeyOf(t, d, s)
<1>1. Len(P) = 4 /\ SubSeq(P, 1, 4) = P /\ P[2] = Mine
  BY PrefixLength
<1>2. Len(K) = 5 /\ SubSeq(K, 1, 4) = blob_prefix(t) /\ blob_prefix(t)[2] = t
  BY KeyParts
<1>3. P = blob_prefix(t) <=> t = Mine
  BY <1>1, <1>2, Zenon
<1> HIDE DEF P, K
<1>4. P # K
  <2>1. 4 # 5
    OBVIOUS
  <2> QED BY <1>1, <1>2, <2>1, Zenon
<1>5. IsPrefix(P, K) <=> SubSeq(P, 1, 4) = SubSeq(K, 1, 4)
  <2>1. 4 <= 5
    OBVIOUS
  <2> QED BY <1>1, <1>2, <2>1, Zenon DEF IsPrefix
<1>6. IsStrictPrefix(P, K) <=> t = Mine
  BY <1>1, <1>2, <1>3, <1>4, <1>5, Zenon DEF IsStrictPrefix
<1> QED BY <1>6 DEF P, K

LEMMA KeyInjective ==
    ASSUME NEW t, NEW d, NEW s, NEW t1, NEW d1, NEW s1, KeyOf(t, d, s) = KeyOf(t1, d1, s1)
    PROVE  t = t1 /\ d = d1 /\ s = s1
<1>1. t = t1 /\ <<d, s>> = <<d1, s1>>
  BY KeyParts, SMT
<1> QED BY <1>1

LEMMA KeyFacts ==
    /\ \A t, d : blob_key(t, d) = KeyOf(t, d, "lower")
    /\ Collectable = {KeyOf(Mine, d, s) : d \in Digests \ Live, s \in {"lower", "upper"}}
    /\ Collectable \subseteq Keys
<1>1. \A t, d : blob_key(t, d) = KeyOf(t, d, "lower")
  BY DEF blob_key, KeyOf, Canonical
<1>2. Collectable = {KeyOf(Mine, d, s) : d \in Digests \ Live, s \in {"lower", "upper"}}
  BY DEF Collectable, KeyOf
<1>3. Collectable \subseteq Keys
  BY <1>2 DEF Keys, Tenants, Spellings
<1> QED BY <1>1, <1>2, <1>3

(* What the collection dooms is what it may remove. *)
LEMMA DoomedKeys ==
    ASSUME NEW k \in Keys, IsStrictPrefix(blob_prefix(Mine), k)
    PROVE  Unreferenced(k) <=> k \in Collectable
<1>1. PICK t \in Tenants, d \in Digests, s \in Spellings : k = KeyOf(t, d, s)
  BY DEF Keys
<1>2. t = Mine
  BY <1>1, KeyUnderPrefix
<1>3. Len(Suffix(k)) = 1 /\ Suffix(k)[1] = <<d, s>>
  BY <1>1, KeySuffix, Zenon
<1>4. ContentDigest(Suffix(k)) = IF s \in {"lower", "upper"} THEN {d} ELSE {}
  BY <1>3 DEF ContentDigest
<1>5. Unreferenced(k) <=> s \in {"lower", "upper"} /\ d \notin Live
  BY <1>4 DEF Unreferenced
<1>6. k \in Collectable <=> s \in {"lower", "upper"} /\ d \notin Live
  BY <1>1, <1>2, KeyFacts, KeyInjective
<1> QED BY <1>5, <1>6

LEMMA DigestsMax ==
    /\ Max(Digests) \in Digests /\ \A d \in Digests : d \in Nat /\ 0 < d /\ d <= Max(Digests)
    /\ Max(Digests) \in Nat
<1>1. Digests \subseteq Nat \ {0} /\ \E last \in Digests : \A d \in Digests : d <= last
  BY ListingsAssumption DEF ArtifactAssumption
<1>2. Max(Digests) \in Digests /\ \A y \in Digests : Max(Digests) >= y
  <2>1. \E x \in Digests : \A y \in Digests : x >= y
    BY <1>1
  <2> QED BY <2>1, Zenon DEF Max
<1>3. Max(Digests) \in Nat
  BY <1>1, <1>2
<1> HIDE DEF Max
<1>4. \A d \in Digests : d \in Nat /\ 0 < d /\ d <= Max(Digests)
  BY <1>1, <1>2, <1>3
<1> QED BY <1>2, <1>3, <1>4

(* SetToSeq of a finite set is a sequence of exactly its elements. *)
LEMMA SetToSeqRange ==
    ASSUME NEW S, IsFiniteSet(S)
    PROVE  SetToSeq(S) \in Seq(S) /\ Range(SetToSeq(S)) = S
<1> DEFINE n == Cardinality(S)
<1>1. n \in Nat /\ ExistsBijection(1..n, S)
  BY FS_CardinalityType
<1>2. \E f \in [1..n -> S] : IsInjective(f)
  BY <1>1 DEF ExistsBijection, Bijection, Injection
<1>3. SetToSeq(S) \in [1..n -> S] /\ IsInjective(SetToSeq(S))
  BY <1>2, Zenon DEF SetToSeq
<1>4. SetToSeq(S) \in Injection(1..n, S)
  BY <1>3, Zenon DEF Injection
<1>5. Cardinality(1..n) = n
  BY <1>1, FS_Interval
<1>6. SetToSeq(S) \in Surjection(1..n, S)
  BY <1>4, <1>5, FS_Injection
<1>7. \A x \in S : \E i \in 1..n : SetToSeq(S)[i] = x
  BY <1>6 DEF Surjection
<1>8. Range(SetToSeq(S)) = S
  BY <1>3, <1>7 DEF Range
<1>9. SetToSeq(S) \in Seq(S)
  BY <1>1, <1>3, SeqDef
<1> QED BY <1>8, <1>9

-------------------------------------------------------------------------------
(* Multipart uploads and their order. *)

LEMMA UploadConstants ==
    /\ IsFiniteSet(Uploads) /\ OwnId \in Nat /\ Cutoff \in Nat
    /\ Uploaded \in Digests
    /\ \A u \in Uploads : /\ u.digest \in Digests /\ u.id \in Nat /\ u.id # OwnId
                          /\ u.initiated \subseteq Nat
                          /\ \A t \in u.initiated : u.initiated = {t}
    /\ \A u, v \in Uploads : u.id = v.id => u = v
    /\ MaxAttempts \in Nat \ {0} /\ BatchLimit \in Nat \ {0} /\ PageSize \in Nat \ {0} /\ MaxPages \in Nat
BY ListingsAssumption DEF ArtifactAssumption, IsUpload

LEMMA InitialUpload ==
    ASSUME NEW v \in InitialUploads
    PROVE  \E u \in Uploads : /\ v.key = KeyOf(u.tenant, u.digest, "lower") /\ v.id = u.id
                              /\ v.initiated = u.initiated
BY KeyFacts DEF InitialUploads

LEMMA OwnFacts ==
    /\ Own.key = KeyOf(Mine, Uploaded, "lower") /\ Own.id = OwnId /\ Own.initiated = {Cutoff + 1}
    /\ Own \notin InitialUploads /\ ~IsStale(Own) /\ Own \notin StaleUploads
<1>1. Own.key = KeyOf(Mine, Uploaded, "lower") /\ Own.id = OwnId /\ Own.initiated = {Cutoff + 1}
  BY KeyFacts DEF Own
<1> HIDE DEF Own
<1>2. Own \notin InitialUploads
  BY <1>1, InitialUpload, UploadConstants
<1>3. ~IsStale(Own)
  BY <1>1, UploadConstants DEF IsStale
<1> QED BY <1>1, <1>2, <1>3 DEF StaleUploads

LEMMA UploadRank ==
    ASSUME NEW v \in AllUploads
    PROVE  /\ \E t \in Tenants, d \in Digests : v.key = KeyOf(t, d, "lower")
           /\ v.id \in Nat /\ Rank(v)[1] \in Nat /\ Rank(v)[2] = v.id /\ Rank(v) \in Nat \X Nat
<1>1. PICK t \in Tenants, d \in Digests : v.key = KeyOf(t, d, "lower") /\ v.id \in Nat
  <2>1. CASE v \in InitialUploads
    BY <2>1, InitialUpload, UploadConstants DEF Tenants
  <2>2. CASE v = Own
    BY <2>2, OwnFacts, UploadConstants DEF Tenants
  <2> QED BY <2>1, <2>2 DEF AllUploads
<1>2. Last(v.key) = <<d, "lower">>
  BY <1>1, KeyParts
<1>3. Last(v.key)[1] = d /\ d \in Nat
  BY <1>2, DigestsMax
<1> QED BY <1>1, <1>3 DEF Rank

(* The service gives an ID once. *)
LEMMA UploadsDiffer ==
    ASSUME NEW u \in AllUploads, NEW v \in AllUploads, u.id = v.id
    PROVE  u = v
<1>1. CASE u \in InitialUploads /\ v \in InitialUploads
  <2>1. PICK a \in Uploads : u = [key |-> blob_key(a.tenant, a.digest), id |-> a.id, initiated |-> a.initiated]
    BY <1>1 DEF InitialUploads
  <2>2. PICK b \in Uploads : v = [key |-> blob_key(b.tenant, b.digest), id |-> b.id, initiated |-> b.initiated]
    BY <1>1 DEF InitialUploads
  <2>3. a.id = b.id
    BY <2>1, <2>2
  <2>4. a = b
    BY <2>3, UploadConstants
  <2> QED BY <2>1, <2>2, <2>4
<1>2. CASE u = Own /\ v \in InitialUploads
  BY <1>2, OwnFacts, InitialUpload, UploadConstants
<1>3. CASE v = Own /\ u \in InitialUploads
  BY <1>3, OwnFacts, InitialUpload, UploadConstants
<1>4. CASE u = Own /\ v = Own
  BY <1>4
<1> QED BY <1>1, <1>2, <1>3, <1>4 DEF AllUploads

LEMMA BeforeIsTotalOrder ==
    /\ \A u \in AllUploads : ~Before(u, u)
    /\ \A u, v, w \in AllUploads : Before(u, v) /\ Before(v, w) => Before(u, w)
    /\ \A u, v \in AllUploads : u = v \/ Before(u, v) \/ Before(v, u)
<1>1. ASSUME NEW u \in AllUploads, NEW v \in AllUploads
      PROVE  /\ Before(u, v) <=> (\/ Rank(u)[1] < Rank(v)[1]
                                  \/ Rank(u)[1] = Rank(v)[1] /\ u.id < v.id)
             /\ Rank(u)[1] \in Nat /\ Rank(v)[1] \in Nat /\ u.id \in Nat /\ v.id \in Nat
  <2>1. Rank(u)[1] \in Nat /\ Rank(v)[1] \in Nat /\ u.id \in Nat /\ v.id \in Nat
        /\ Rank(u)[2] = u.id /\ Rank(v)[2] = v.id
    BY UploadRank
  <2> QED BY <2>1 DEF Before, After
<1>2. ASSUME NEW u \in AllUploads PROVE ~Before(u, u)
  BY <1>1
<1>3. ASSUME NEW u \in AllUploads, NEW v \in AllUploads, NEW w \in AllUploads,
             Before(u, v), Before(v, w)
      PROVE  Before(u, w)
  BY <1>1, <1>3
<1>4. ASSUME NEW u \in AllUploads, NEW v \in AllUploads PROVE u = v \/ Before(u, v) \/ Before(v, u)
  <2>1. u.id = v.id => u = v
    BY UploadsDiffer
  <2> QED BY <1>1, <2>1
<1> QED BY <1>2, <1>3, <1>4

IsTotalOrder(R, S) ==
    /\ \A u \in S : <<u, u>> \notin R
    /\ \A u, v, w \in S : <<u, v>> \in R /\ <<v, w>> \in R => <<u, w>> \in R
    /\ \A u, v \in S : u = v \/ <<u, v>> \in R \/ <<v, u>> \in R

(* A finite set that is totally ordered has a least element. *)
LEMMA Least ==
    ASSUME NEW S, IsFiniteSet(S), S # {}, NEW R, IsTotalOrder(R, S)
    PROVE  \E m \in S : \A v \in S \ {m} : <<m, v>> \in R
<1> DEFINE Below(m) == {v \in S : <<v, m>> \in R}
           N == {Cardinality(Below(m)) : m \in S}
<1>1. ASSUME NEW m PROVE IsFiniteSet(Below(m)) /\ Cardinality(Below(m)) \in Nat
  <2>1. Below(m) \in SUBSET S
    OBVIOUS
  <2> HIDE DEF Below
  <2>2. IsFiniteSet(Below(m))
    BY <2>1, FS_Subset
  <2> QED BY <2>2, FS_CardinalityType
<1>2. N \subseteq Nat /\ N # {}
  <2> HIDE DEF Below
  <2> QED BY <1>1
<1> HIDE DEF N
<1>3. PICK n \in N : \A k \in N : ~(<<k, n>> \in OpToRel(<, Nat))
  BY <1>2, NatLessThanWellFounded, WFMin, Zenon
<1>4. \A k \in N : ~(k < n)
  BY <1>2, <1>3 DEF OpToRel
<1>5. PICK m \in S : n = Cardinality(Below(m))
  BY DEF N
<1>6. ASSUME NEW v \in S \ {m}, <<m, v>> \notin R PROVE FALSE
  <2>1. <<v, m>> \in R
    BY <1>6 DEF IsTotalOrder
  <2>2. Below(v) \in SUBSET Below(m) /\ v \in Below(m) /\ v \notin Below(v)
    BY <1>6, <2>1 DEF IsTotalOrder
  <2>3. Cardinality(Below(v)) \in N
    BY <1>6 DEF N
  <2> HIDE DEF Below
  <2>4. Cardinality(Below(v)) <= Cardinality(Below(m)) /\ Cardinality(Below(v)) # Cardinality(Below(m))
    BY <1>1, <2>2, FS_Subset
  <2> QED BY <1>1, <1>4, <1>5, <2>3, <2>4
<1> QED BY <1>6

LEMMA UploadsFinite == IsFiniteSet(InitialUploads) /\ IsFiniteSet(AllUploads)
<1> DEFINE f == [u \in Uploads |-> [key |-> blob_key(u.tenant, u.digest), id |-> u.id,
                                    initiated |-> u.initiated]]
<1>1. f \in Surjection(Uploads, InitialUploads)
  BY Zenon DEF Surjection, InitialUploads
<1> HIDE DEF f
<1>2. IsFiniteSet(InitialUploads)
  BY <1>1, UploadConstants, FS_Surjection
<1> QED BY <1>2, FS_AddElement DEF AllUploads

(* A page has a first upload and a final one. *)
LEMMA PageEndsExist ==
    ASSUME NEW page \in SUBSET AllUploads, page # {}
    PROVE  /\ First(page) \in page
           /\ Final(page) \in page /\ \A v \in page \ {Final(page)} : Before(v, Final(page))
<1>1. IsFiniteSet(page)
  BY UploadsFinite, FS_Subset
<1> DEFINE R == {p \in page \X page : Before(p[1], p[2])}
           Q == {p \in page \X page : Before(p[2], p[1])}
<1>2. /\ \A u, v \in page : <<u, v>> \in R <=> Before(u, v)
      /\ \A u, v \in page : <<u, v>> \in Q <=> Before(v, u)
  OBVIOUS
<1> HIDE DEF R, Q
<1>3. IsTotalOrder(R, page)
  BY <1>2, BeforeIsTotalOrder DEF IsTotalOrder
<1>4. IsTotalOrder(Q, page)
  BY <1>2, BeforeIsTotalOrder DEF IsTotalOrder
<1>5. /\ \E m \in page : \A v \in page \ {m} : <<m, v>> \in R
      /\ \E m \in page : \A v \in page \ {m} : <<m, v>> \in Q
  BY <1>1, <1>3, <1>4, Least
<1>6. \E m \in page : \A v \in page \ {m} : Before(m, v)
  BY <1>2, <1>5
<1>7. \E m \in page : \A v \in page \ {m} : Before(v, m)
  BY <1>2, <1>5
<1>8. First(page) \in page
  BY <1>6, Zenon DEF First
<1>9. Final(page) \in page /\ \A v \in page \ {Final(page)} : Before(v, Final(page))
  BY <1>7, Zenon DEF Final
<1> QED BY <1>8, <1>9

(* What a page leaves out comes behind all of it. *)
LEMMA PageIsInitial ==
    ASSUME uploads \subseteq AllUploads, NEW u \in Remaining \ UploadPage, NEW w \in UploadPage
    PROVE  Before(w, u)
<1> DEFINE Earlier(x) == {v \in Remaining : Before(v, x)}
<1>1. Remaining \in SUBSET AllUploads
  BY DEF Remaining
<1>2. UploadPage = {x \in Remaining : Cardinality(Earlier(x)) < PageSize}
  BY DEF UploadPage
<1> HIDE DEF UploadPage, Remaining
<1>3. IsFiniteSet(Remaining)
  BY <1>1, UploadsFinite, FS_Subset
<1>4. ASSUME NEW x PROVE IsFiniteSet(Earlier(x)) /\ Cardinality(Earlier(x)) \in Nat
  <2>1. Earlier(x) \in SUBSET Remaining
    OBVIOUS
  <2> HIDE DEF Earlier
  <2>2. IsFiniteSet(Earlier(x))
    BY <1>3, <2>1, FS_Subset
  <2> QED BY <2>2, FS_CardinalityType
<1>5. u \in AllUploads /\ w \in AllUploads /\ u # w
  BY <1>1, <1>2
<1>6. ASSUME Before(u, w) PROVE FALSE
  <2>1. Earlier(u) \in SUBSET Earlier(w)
    BY <1>1, <1>5, <1>6, BeforeIsTotalOrder
  <2>2. Cardinality(Earlier(w)) < PageSize /\ ~(Cardinality(Earlier(u)) < PageSize)
    BY <1>2
  <2> HIDE DEF Earlier
  <2>3. Cardinality(Earlier(u)) <= Cardinality(Earlier(w))
    BY <1>4, <2>1, FS_Subset
  <2> QED BY <1>4, <2>2, <2>3, UploadConstants
<1> QED BY <1>5, <1>6, BeforeIsTotalOrder

-------------------------------------------------------------------------------
(* The bucket. *)

StoredDigests == {Published[p].digest : p \in Publishers} \cup {Uploaded}

(* A step stores a verified payload under its digest, removes payloads that    *)
(* are not live, or leaves the payloads alone.                                 *)
BlobStep ==
    \/ UNCHANGED blobs
    \/ \E d \in StoredDigests, c \in Halves :
          Verified(d, c) /\ blobs' = Stored(blob_key(Mine, d), c)
    \/ \E gone \in SUBSET Collectable : blobs' = Without(gone)

LEMMA PublishedConstants ==
    /\ StoredDigests \subseteq Digests
    /\ \A p \in Publishers : Published[p].digest \in Digests /\ Published[p].content \in Halves
    /\ Restorable = {KeyOf(Mine, d, "lower") : d \in StoredDigests}
<1>1. \A p \in Publishers : Published[p].digest \in Digests /\ Published[p].content \in Halves
  BY ListingsAssumption DEF ArtifactAssumption, Halves
<1>2. StoredDigests \subseteq Digests
  BY <1>1, UploadConstants DEF StoredDigests
<1>3. Restorable = {KeyOf(Mine, d, "lower") : d \in StoredDigests}
  BY KeyFacts DEF Restorable, StoredDigests
<1> QED BY <1>1, <1>2, <1>3

(* What such a step does to each key. *)
BlobEffect ==
    /\ \A k \in DOMAIN blobs' :
          \/ k \in DOMAIN blobs /\ blobs'[k] = blobs[k]
          \/ \E d \in StoredDigests : /\ k = KeyOf(Mine, d, "lower")
                                      /\ blobs'[k] \in Halves /\ Verified(d, blobs'[k])
    /\ \A k \in DOMAIN blobs : k \in DOMAIN blobs' \/ k \in Collectable
    /\ IsFiniteSet(DOMAIN blobs) => IsFiniteSet(DOMAIN blobs')

LEMMA BlobStepEffect == ASSUME BlobStep PROVE BlobEffect
<1>1. CASE UNCHANGED blobs
  BY <1>1 DEF BlobEffect
<1>2. ASSUME NEW d \in StoredDigests, NEW c \in Halves, Verified(d, c),
             blobs' = Stored(blob_key(Mine, d), c)
      PROVE  BlobEffect
  <2> DEFINE key == KeyOf(Mine, d, "lower")
  <2>1. blobs' = [k \in DOMAIN blobs \cup {key} |-> IF k = key THEN c ELSE blobs[k]]
    BY <1>2, KeyFacts DEF Stored
  <2> HIDE DEF key
  <2>2. DOMAIN blobs' = DOMAIN blobs \cup {key} /\ blobs'[key] = c
        /\ \A k \in DOMAIN blobs : k # key => blobs'[k] = blobs[k]
    BY <2>1
  <2>3. IsFiniteSet(DOMAIN blobs) => IsFiniteSet(DOMAIN blobs')
    BY <2>2, FS_AddElement
  <2> QED BY <1>2, <2>2, <2>3 DEF key, BlobEffect
<1>3. ASSUME NEW gone \in SUBSET Collectable, blobs' = Without(gone)
      PROVE  BlobEffect
  <2>1. DOMAIN blobs' = DOMAIN blobs \ gone /\ \A k \in DOMAIN blobs' : blobs'[k] = blobs[k]
    BY <1>3 DEF Without
  <2>2. IsFiniteSet(DOMAIN blobs) => IsFiniteSet(DOMAIN blobs')
    BY <2>1, FS_Subset
  <2> QED BY <1>3, <2>1, <2>2 DEF BlobEffect
<1> QED BY <1>1, <1>2, <1>3 DEF BlobStep

LEMMA StoreKept == ASSUME StoreInv, BlobStep PROVE StoreInv'
<1>1. BlobEffect
  BY BlobStepEffect
<1>2. \A d \in StoredDigests : KeyOf(Mine, d, "lower") \in Keys
  BY PublishedConstants DEF Keys, Tenants, Spellings
<1>3. DOMAIN blobs' \subseteq Keys /\ IsFiniteSet(DOMAIN blobs')
  BY <1>1, <1>2 DEF StoreInv, BlobEffect
<1>4. \A k \in DOMAIN blobs' : blobs'[k] \in Halves
  BY <1>1 DEF StoreInv, BlobEffect
<1>5. StoredContentIsAddressed'
  <2> SUFFICES ASSUME NEW k \in DOMAIN blobs'
               PROVE  \/ k \in DOMAIN InitialBlobs /\ blobs'[k] = InitialBlobs[k]
                      \/ Verified(Last(k)[1], blobs'[k])
    BY DEF StoredContentIsAddressed
  <2>1. CASE k \in DOMAIN blobs /\ blobs'[k] = blobs[k]
    BY <2>1 DEF StoreInv, StoredContentIsAddressed
  <2>2. ASSUME NEW d \in StoredDigests, k = KeyOf(Mine, d, "lower"), Verified(d, blobs'[k])
        PROVE  Verified(Last(k)[1], blobs'[k])
    <3>1. Last(k) = <<d, "lower">>
      BY <2>2, KeyParts
    <3>2. Last(k)[1] = d
      BY <3>1
    <3> QED BY <2>2, <3>2
  <2> QED BY <1>1, <2>1, <2>2 DEF BlobEffect
<1>6. \A k \in DOMAIN InitialBlobs : ~Present(k)' => k \in Collectable
  BY <1>1 DEF StoreInv, BlobEffect, Present
<1> QED BY <1>3, <1>4, <1>5, <1>6 DEF StoreInv

(* A payload of the live set stays. *)
LEMMA LiveKept ==
    ASSUME BlobStep, NEW d \in Live, Present(blob_key(Mine, d))
    PROVE  blob_key(Mine, d) \in DOMAIN blobs'
<1>1. blob_key(Mine, d) = KeyOf(Mine, d, "lower")
  BY KeyFacts
<1>2. KeyOf(Mine, d, "lower") \notin Collectable
  BY KeyFacts, KeyInjective
<1> QED BY <1>1, <1>2, BlobStepEffect DEF BlobEffect, Present

(* Nothing that can not be stored again comes back. *)
LEMMA UnsweptStaysAway ==
    ASSUME BlobStep, NEW k \in Unswept, k \in DOMAIN blobs'
    PROVE  Present(k)
<1>1. \A d \in StoredDigests : k # KeyOf(Mine, d, "lower")
  BY PublishedConstants DEF Unswept
<1> QED BY <1>1, BlobStepEffect DEF BlobEffect, Present

-------------------------------------------------------------------------------
(* Publications. *)

LEMMA PubKeptByOthers ==
    ASSUME PubInv, BlobStep, UNCHANGED <<pub, manifests>>
    PROVE  PubInv'
<1>1. MarkersHavePayloads'
  BY LiveKept DEF PubInv, MarkersHavePayloads, Present
<1>2. \A p \in Publishers :
         pub[p].at \in {"manifest", "ok"} /\ Published[p].digest \in Live => Payload(p) \in DOMAIN blobs'
  BY LiveKept DEF PubInv, Payload
<1> QED BY <1>1, <1>2 DEF PubInv, Present, Payload

(* The record of one publication is replaced. *)
LEMMA PubReplaced ==
    ASSUME PubInv, NEW p \in Publishers, BlobStep, manifests' \subseteq Digests,
           pub' \in [Publishers -> PublicationStates],
           \A q \in Publishers \ {p} : pub'[q] = pub[q],
           pub'[p].at \in {"verify", "blob", "manifest"} => pub'[p].tries < MaxAttempts,
           pub'[p].at \in {"blob", "manifest", "ok"} =>
              Verified(Published[p].digest, Published[p].content),
           pub'[p].at \in {"manifest", "ok"} /\ Published[p].digest \in Live =>
              blob_key(Mine, Published[p].digest) \in DOMAIN blobs',
           \A d \in manifests' \ manifests :
              d \in Live => blob_key(Mine, d) \in DOMAIN blobs'
    PROVE  PubInv'
<1>1. MarkersHavePayloads'
  BY LiveKept DEF PubInv, MarkersHavePayloads, Present
<1>2. ASSUME NEW q \in Publishers
      PROVE  /\ pub'[q].at \in {"verify", "blob", "manifest"} => pub'[q].tries < MaxAttempts
             /\ pub'[q].at \in {"blob", "manifest", "ok"} =>
                   Verified(Published[q].digest, Published[q].content)
             /\ pub'[q].at \in {"manifest", "ok"} /\ Published[q].digest \in Live =>
                   Payload(q) \in DOMAIN blobs'
  <2>1. CASE q = p
    BY <2>1 DEF Payload
  <2>2. CASE q # p
    BY <2>2, LiveKept DEF PubInv, Payload
  <2> QED BY <2>1, <2>2
<1> QED BY <1>1, <1>2 DEF PubInv, Present, Payload

(* The write of an attempt, which stores the verified payload or the marker    *)
(* behind it.                                                                  *)
LEMMA PutEffect ==
    ASSUME PubInv, NEW p \in Publishers, PutTakesEffect(p)
    PROVE  /\ BlobStep /\ manifests' \subseteq Digests
           /\ pub[p].at = "blob" =>
                 blob_key(Mine, Published[p].digest) \in DOMAIN blobs' /\ UNCHANGED manifests
           /\ pub[p].at = "manifest" =>
                 UNCHANGED blobs /\ manifests' = manifests \cup {Published[p].digest}
           /\ pub[p].at \in {"blob", "manifest"}
           /\ Verified(Published[p].digest, Published[p].content)
           /\ pub[p].at = "manifest" /\ Published[p].digest \in Live =>
                 blob_key(Mine, Published[p].digest) \in DOMAIN blobs'
<1> DEFINE d == Published[p].digest
           c == Published[p].content
<1>1. d \in StoredDigests /\ d \in Digests /\ c \in Halves
  BY PublishedConstants DEF StoredDigests
<1>2. pub[p].at \in {"blob", "manifest"} /\ Verified(d, c)
  BY DEF PutTakesEffect, PubInv
<1> HIDE DEF d, c
<1>3. CASE pub[p].at = "blob"
  <2>1. manifests' = manifests /\ blobs' = IF Present(blob_key(Mine, d)) THEN blobs
                                           ELSE Stored(blob_key(Mine, d), c)
    BY <1>3 DEF PutTakesEffect, d, c
  <2>2. BlobStep /\ blob_key(Mine, d) \in DOMAIN blobs'
    <3>1. CASE Present(blob_key(Mine, d))
      BY <2>1, <3>1 DEF BlobStep, Present
    <3>2. CASE ~Present(blob_key(Mine, d))
      BY <1>1, <1>2, <2>1, <3>2 DEF BlobStep, Stored
    <3> QED BY <3>1, <3>2
  <2> QED BY <1>2, <1>3, <2>1, <2>2 DEF PubInv, d, c
<1>4. CASE pub[p].at = "manifest"
  <2>1. manifests' = manifests \cup {d} /\ blobs' = blobs
    BY <1>4 DEF PutTakesEffect, d
  <2>2. BlobStep /\ manifests' \subseteq Digests
    BY <1>1, <2>1 DEF PubInv, BlobStep
  <2>3. d \in Live => blob_key(Mine, d) \in DOMAIN blobs
    BY <1>4 DEF PubInv, Payload, Present, d
  <2> QED BY <1>2, <1>4, <2>1, <2>2, <2>3 DEF d, c
<1> QED BY <1>2, <1>3, <1>4

LEMMA VerifyKeeps ==
    ASSUME PubInv, NEW p \in Publishers, Verify(p)
    PROVE  PubInv' /\ BlobStep
<1> DEFINE at == IF Verified(Published[p].digest, Published[p].content) THEN "blob" ELSE "mismatch"
<1>1. pub[p].at = "verify" /\ pub' = [pub EXCEPT ![p].at = at] /\ UNCHANGED <<blobs, manifests>>
  BY DEF Verify, AfterPut
<1>2. pub[p] \in PublicationStates /\ pub[p].tries < MaxAttempts
  BY <1>1 DEF PubInv
<1>3. at \in {"blob", "mismatch"} /\ (at = "blob" => Verified(Published[p].digest, Published[p].content))
  OBVIOUS
<1> HIDE DEF at
<1>4. /\ pub' \in [Publishers -> PublicationStates]
      /\ \A q \in Publishers \ {p} : pub'[q] = pub[q]
      /\ pub'[p].at = at /\ pub'[p].tries = pub[p].tries
  BY <1>1, <1>2, <1>3 DEF PubInv, PublicationStates
<1>5. BlobStep /\ manifests' \subseteq Digests /\ manifests' \ manifests = {}
  BY <1>1 DEF BlobStep, PubInv
<1> QED BY <1>2, <1>3, <1>4, <1>5, PubReplaced

LEMMA PutAnsweredKeeps ==
    ASSUME PubInv, NEW p \in Publishers, PutAnswered(p)
    PROVE  PubInv' /\ BlobStep
<1> DEFINE at == AfterPut(pub[p].at)
           made == IF Creates(p) THEN pub[p].created \cup {pub[p].at} ELSE pub[p].created
<1>1. PutTakesEffect(p)
  BY DEF PutAnswered
<1>2. /\ BlobStep /\ manifests' \subseteq Digests
      /\ pub[p].at = "blob" =>
            blob_key(Mine, Published[p].digest) \in DOMAIN blobs' /\ UNCHANGED manifests
      /\ pub[p].at = "manifest" =>
            UNCHANGED blobs /\ manifests' = manifests \cup {Published[p].digest}
      /\ pub[p].at \in {"blob", "manifest"}
      /\ Verified(Published[p].digest, Published[p].content)
      /\ pub[p].at = "manifest" /\ Published[p].digest \in Live =>
            blob_key(Mine, Published[p].digest) \in DOMAIN blobs'
  BY <1>1, PutEffect
<1>3. pub' = [pub EXCEPT ![p].at = at, ![p].tries = 0, ![p].created = made]
  BY DEF PutAnswered
<1>4. (pub[p].at = "blob" /\ at = "manifest") \/ (pub[p].at = "manifest" /\ at = "ok")
  BY <1>2 DEF AfterPut
<1>5. made \in SUBSET {"blob", "manifest"} /\ pub[p] \in PublicationStates
  BY <1>2 DEF PubInv, PublicationStates
<1> HIDE DEF at, made
<1>6. /\ pub' \in [Publishers -> PublicationStates]
      /\ \A q \in Publishers \ {p} : pub'[q] = pub[q]
      /\ pub'[p].at = at /\ pub'[p].tries = 0
  <2> DEFINE r == [pub[p] EXCEPT !.at = at, !.tries = 0, !.created = made]
  <2>1. r \in PublicationStates /\ r.at = at /\ r.tries = 0
    <3>1. 0 \in 0..MaxAttempts /\ at \in {"manifest", "ok"}
      BY <1>4, UploadConstants
    <3> DEFINE T == 0..MaxAttempts
               M == SUBSET {"blob", "manifest"}
               A == {"idle", "verify", "blob", "manifest", "ok", "failed", "mismatch"}
    <3>2. at \in A /\ made \in M /\ 0 \in T /\ pub[p] \in [at : A, tries : T, created : M]
      BY <1>5, <3>1 DEF PublicationStates
    <3> HIDE DEF T, M, A
    <3>3. r \in [at : A, tries : T, created : M] /\ r.at = at /\ r.tries = 0
      BY <3>2
    <3> QED BY <3>3 DEF PublicationStates, T, M, A
  <2>2. pub' = [pub EXCEPT ![p] = r]
    BY <1>3
  <2> HIDE DEF r
  <2> QED BY <2>1, <2>2 DEF PubInv
<1>7. \A d \in manifests' \ manifests : d \in Live => blob_key(Mine, d) \in DOMAIN blobs'
  BY <1>2
<1>8. Published[p].digest \in Live => blob_key(Mine, Published[p].digest) \in DOMAIN blobs'
  BY <1>2
<1> QED BY <1>2, <1>6, <1>7, <1>8, UploadConstants, PubReplaced

LEMMA PutFailsKeeps ==
    ASSUME PubInv, NEW p \in Publishers, PutFails(p)
    PROVE  PubInv' /\ BlobStep
<1> DEFINE at == IF pub[p].tries + 1 < MaxAttempts THEN pub[p].at ELSE "failed"
           n == pub[p].tries + 1
<1>1. pub[p].at \in {"blob", "manifest"} /\ pub[p] \in PublicationStates
      /\ Verified(Published[p].digest, Published[p].content) /\ pub[p].tries < MaxAttempts
  BY DEF PutFails, PubInv
<1>2. pub' = [pub EXCEPT ![p].tries = n, ![p].at = at]
  BY DEF PutFails
<1>3. n \in 0..MaxAttempts /\ (at = "failed" \/ (at = pub[p].at /\ n < MaxAttempts))
  BY <1>1, UploadConstants DEF PublicationStates
<1> HIDE DEF at, n
<1>4. /\ pub' \in [Publishers -> PublicationStates]
      /\ \A q \in Publishers \ {p} : pub'[q] = pub[q]
      /\ pub'[p].at = at /\ pub'[p].tries = n
  BY <1>1, <1>2, <1>3 DEF PubInv, PublicationStates
<1>5. BlobStep /\ manifests' \subseteq Digests
      /\ \A d \in manifests' \ manifests : d \in Live => blob_key(Mine, d) \in DOMAIN blobs'
  <2>1. CASE PutTakesEffect(p)
    BY <1>1, <2>1, PutEffect
  <2>2. CASE UNCHANGED <<blobs, manifests>>
    BY <2>2 DEF BlobStep, PubInv
  <2> QED BY <2>1, <2>2 DEF PutFails
<1>6. pub[p].at = "manifest" /\ Published[p].digest \in Live =>
         blob_key(Mine, Published[p].digest) \in DOMAIN blobs'
  BY <1>5, LiveKept DEF PubInv, Payload
<1> QED BY <1>1, <1>3, <1>4, <1>5, <1>6, PubReplaced

-------------------------------------------------------------------------------
(* The collection. *)

LEMMA ColKeptByOthers ==
    ASSUME ColInv, BlobStep, UNCHANGED col
    PROVE  ColInv'
BY UnsweptStaysAway DEF ColInv, Present

(* The range of a sequence that is extended, and of one that is cut. *)
LEMMA RangeOfConcat ==
    ASSUME NEW S, NEW s \in Seq(S), NEW t \in Seq(S)
    PROVE  s \o t \in Seq(S) /\ \A k : k \in Range(s) \/ k \in Range(t) => k \in Range(s \o t)
<1>1. /\ s \o t \in Seq(S) /\ Len(s \o t) = Len(s) + Len(t)
      /\ \A i \in 1..Len(s) : (s \o t)[i] = s[i]
      /\ \A i \in 1..Len(t) : (s \o t)[i + Len(s)] = t[i]
      /\ Len(s) \in Nat /\ Len(t) \in Nat
  OBVIOUS
<1>2. DOMAIN s = 1..Len(s) /\ DOMAIN t = 1..Len(t) /\ DOMAIN (s \o t) = 1..Len(s) + Len(t)
  BY <1>1
<1>3. ASSUME NEW i \in 1..Len(s) PROVE s[i] \in Range(s \o t)
  BY <1>1, <1>2 DEF Range
<1>4. ASSUME NEW i \in 1..Len(t) PROVE t[i] \in Range(s \o t)
  <2>1. i + Len(s) \in DOMAIN (s \o t)
    BY <1>1, <1>2
  <2> QED BY <1>1, <2>1 DEF Range
<1> QED BY <1>1, <1>2, <1>3, <1>4 DEF Range

LEMMA RangeOfCut ==
    ASSUME NEW S, NEW s \in Seq(S), NEW n \in 0..Len(s)
    PROVE  /\ SubSeq(s, 1, n) \in Seq(S) /\ Len(SubSeq(s, 1, n)) = n
           /\ SubSeq(s, n + 1, Len(s)) \in Seq(S)
           /\ Range(SubSeq(s, 1, n)) \subseteq S
           /\ \A k \in Range(s) : k \in Range(SubSeq(s, 1, n)) \/ k \in Range(SubSeq(s, n + 1, Len(s)))
<1> DEFINE m == Len(s)
           A == SubSeq(s, 1, n)
           B == SubSeq(s, n + 1, m)
<1>1. m \in Nat /\ n \in 0..m /\ DOMAIN s = 1..m /\ \A i \in 1..m : s[i] \in S
  OBVIOUS
<1> HIDE DEF m
<1>2. /\ A \in Seq(S) /\ Len(A) = n
      /\ \A i \in 1..n : A[i] = s[i]
  <2>1. \A i \in 1..n : s[i] \in S
    BY <1>1
  <2>2. n \in Int /\ n - 1 + 1 = n /\ (1 <= n \/ n = 0)
    BY <1>1
  <2> QED BY <2>1, <2>2, SubSeqProperties
<1>3. /\ B \in Seq(S) /\ Len(B) = m - n
      /\ \A i \in 1..m - n : B[i] = s[n + i]
  <2>1. \A i \in n + 1..m : s[i] \in S
    BY <1>1
  <2>2. n + 1 \in Int /\ m \in Int
    BY <1>1
  <2>3. /\ B \in Seq(S) /\ Len(B) = IF n + 1 <= m THEN m - (n + 1) + 1 ELSE 0
        /\ \A i \in 1..m - (n + 1) + 1 : B[i] = s[(n + 1) + i - 1]
    BY <2>1, <2>2, SubSeqProperties
  <2> HIDE DEF B
  <2> QED BY <1>1, <2>3
<1> HIDE DEF A, B
<1>4. DOMAIN A = 1..n /\ DOMAIN B = 1..m - n
  BY <1>1, <1>2, <1>3
<1>5. ASSUME NEW i \in 1..m PROVE s[i] \in Range(A) \/ s[i] \in Range(B)
  <2>1. CASE i <= n
    <3>1. i \in 1..n
      BY <1>1, <2>1
    <3> QED BY <1>2, <1>4, <3>1 DEF Range
  <2>2. CASE i > n
    <3>1. i - n \in 1..m - n /\ n + (i - n) = i
      BY <1>1, <2>2
    <3> QED BY <1>3, <1>4, <3>1 DEF Range
  <2> QED BY <1>1, <2>1, <2>2
<1>6. Range(A) \subseteq S
  BY <1>1, <1>2, <1>4 DEF Range
<1>7. \A k \in Range(s) : k \in Range(A) \/ k \in Range(B)
  BY <1>1, <1>5 DEF Range
<1> QED BY <1>2, <1>3, <1>6, <1>7 DEF A, B, m

LEMMA ListBlobsKeeps ==
    ASSUME StoreInv, ColInv, ListBlobs
    PROVE  ColInv' /\ BlobStep
<1> DEFINE digest == col.cursor + 1
           page == {k \in Under(blob_prefix(Mine)) : Last(k)[1] = digest}
           more == {k \in page : Unreferenced(k)}
           at == IF digest = Max(Digests) THEN "delete" ELSE "list"
           doomed == col.doomed \o SetToSeq(more)
<1>1. /\ col.at = "list" /\ blobs' = blobs
      /\ col' = [col EXCEPT !.cursor = digest, !.doomed = doomed, !.at = at]
  BY DEF ListBlobs
<1>2. /\ col.cursor \in 0..Max(Digests) /\ col.cursor < Max(Digests) /\ col.tries < MaxAttempts
      /\ col.doomed \in Seq(Collectable) /\ Max(Digests) \in Nat
      /\ \A k \in Unswept : Present(k) => Last(k)[1] > col.cursor \/ k \in Range(col.doomed)
  BY <1>1, DigestsMax DEF ColInv, CollectionStates
<1>3. more \in SUBSET DOMAIN blobs /\ more \subseteq Collectable
  <2>1. more \subseteq DOMAIN blobs /\ DOMAIN blobs \subseteq Keys
    BY DEF Under, StoreInv
  <2> QED BY <2>1, DoomedKeys DEF Under
<1>4. \A k \in Unswept : Present(k) /\ Last(k)[1] = digest => k \in more
  <2> SUFFICES ASSUME NEW k \in Unswept, Present(k), Last(k)[1] = digest PROVE k \in more
    OBVIOUS
  <2>1. PICK d, s : k = KeyOf(Mine, d, s)
    BY KeyFacts DEF Unswept
  <2>2. IsStrictPrefix(blob_prefix(Mine), k)
    BY <2>1, KeyUnderPrefix
  <2>3. Unreferenced(k)
    BY <2>2, KeyFacts, DoomedKeys DEF Unswept
  <2> QED BY <2>2, <2>3 DEF Under, Present
<1> HIDE DEF more
<1>5. IsFiniteSet(more)
  BY <1>3, FS_Subset DEF StoreInv
<1>6. SetToSeq(more) \in Seq(more) /\ Range(SetToSeq(more)) = more
  BY <1>5, SetToSeqRange
<1>7. SetToSeq(more) \in Seq(Collectable)
  BY <1>3, <1>6, SeqMonotonic
<1>8. doomed \in Seq(Collectable) /\ \A k : k \in Range(col.doomed) \/ k \in more => k \in Range(doomed)
  BY <1>2, <1>6, <1>7, RangeOfConcat
<1>9. /\ digest \in 0..Max(Digests)
      /\ \/ at = "delete" /\ digest = Max(Digests)
         \/ at = "list" /\ digest < Max(Digests)
  BY <1>2
<1>10. \A k \in Unswept : Present(k) => Last(k)[1] > digest \/ k \in Range(doomed)
  <2> SUFFICES ASSUME NEW k \in Unswept, Present(k), k \notin Range(doomed) PROVE Last(k)[1] > digest
    OBVIOUS
  <2>1. PICK d \in Digests, s \in {"lower", "upper"} : k = KeyOf(Mine, d, s)
    BY KeyFacts DEF Unswept
  <2>2. Last(k) = <<d, s>>
    BY <2>1, KeyParts
  <2>3. Last(k)[1] \in Nat
    BY <2>2, DigestsMax
  <2>4. Last(k)[1] > col.cursor
    BY <1>2, <1>8
  <2>5. Last(k)[1] # digest
    BY <1>4, <1>8
  <2> QED BY <1>2, <2>3, <2>4, <2>5
<1>11. /\ col'.at = at /\ col'.cursor = digest /\ col'.doomed = doomed /\ col'.tries = col.tries
       /\ col' \in CollectionStates
  <2> HIDE DEF digest, doomed, at
  <2> QED BY <1>1, <1>8, <1>9 DEF ColInv, CollectionStates
<1>12. ColInv'
  <2> HIDE DEF digest, doomed, at
  <2> QED BY <1>1, <1>2, <1>9, <1>10, <1>11 DEF ColInv, Present
<1> QED BY <1>1, <1>12 DEF BlobStep

(* The batch is a part of what is doomed. *)
LEMMA BatchFacts ==
    ASSUME ColInv
    PROVE  /\ Range(Batch) \subseteq Collectable
           /\ SubSeq(col.doomed, Len(Batch) + 1, Len(col.doomed)) \in Seq(Collectable)
           /\ Len(Batch) \in Nat
           /\ \A k \in Range(col.doomed) :
                 k \in Range(Batch) \/ k \in Range(SubSeq(col.doomed, Len(Batch) + 1, Len(col.doomed)))
<1> DEFINE s == col.doomed
           n == IF Len(s) < BatchLimit THEN Len(s) ELSE BatchLimit
<1>1. s \in Seq(Collectable)
  BY DEF ColInv, CollectionStates
<1>2. n \in 0..Len(s) /\ n \in Nat
  BY <1>1, UploadConstants
<1>3. Batch = SubSeq(s, 1, n)
  BY DEF Batch
<1> HIDE DEF n, s
<1> QED BY <1>1, <1>2, <1>3, RangeOfCut DEF s

LEMMA BatchKeeps ==
    ASSUME ColInv, BatchAnswered \/ BatchLost
    PROVE  ColInv' /\ BlobStep
<1> DEFINE rest == SubSeq(col.doomed, Len(Batch) + 1, Len(col.doomed))
<1>1. PICK gone \in SUBSET Range(Batch) :
        /\ blobs' = Without(gone)
        /\ \/ /\ gone = Range(Batch)
              /\ col' = [col EXCEPT !.doomed = rest, !.deleted = @ + Len(Batch), !.tries = 0]
           \/ col' = [col EXCEPT !.at = "failed"]
           \/ col' = [col EXCEPT !.tries = @ + 1,
                        !.at = IF col.tries + 1 < MaxAttempts THEN @ ELSE "failed"]
  BY DEF BatchAnswered, BatchLost
<1>2. col.at = "delete"
  BY DEF BatchAnswered, BatchLost
<1>3. /\ Range(Batch) \subseteq Collectable /\ rest \in Seq(Collectable) /\ Len(Batch) \in Nat
      /\ \A k \in Range(col.doomed) : k \in Range(Batch) \/ k \in Range(rest)
  BY BatchFacts
<1> HIDE DEF rest
<1>4. BlobStep
  BY <1>1, <1>3 DEF BlobStep
<1>5. /\ col \in CollectionStates
      /\ col.cursor = Max(Digests) /\ col.tries < MaxAttempts
      /\ \A k \in Unswept : Present(k) => Last(k)[1] > col.cursor \/ k \in Range(col.doomed)
  BY <1>2 DEF ColInv
<1>6. \A k \in Unswept : k \in DOMAIN blobs' => Last(k)[1] > col.cursor \/ k \in Range(col.doomed)
  BY <1>4, <1>5, UnsweptStaysAway
<1>7. CASE gone = Range(Batch)
           /\ col' = [col EXCEPT !.doomed = rest, !.deleted = @ + Len(Batch), !.tries = 0]
  <2>1. /\ col' \in CollectionStates
        /\ col'.at = "delete" /\ col'.cursor = Max(Digests) /\ col'.doomed = rest /\ col'.tries = 0
    <3> DEFINE n == col.deleted + Len(Batch)
    <3>1. n \in Nat /\ 0 \in 0..MaxAttempts
      BY <1>3, <1>5, UploadConstants DEF CollectionStates
    <3>2. col' = [col EXCEPT !.doomed = rest, !.deleted = n, !.tries = 0]
      BY <1>7
    <3> HIDE DEF n
    <3> QED BY <1>2, <1>3, <1>5, <3>1, <3>2 DEF CollectionStates
  <2>2. \A k \in Range(Batch) : k \notin DOMAIN blobs'
    BY <1>1, <1>7 DEF Without
  <2>3. \A k \in Unswept : k \in DOMAIN blobs' => Last(k)[1] > Max(Digests) \/ k \in Range(rest)
    BY <1>3, <1>5, <1>6, <2>2
  <2> QED BY <1>4, <2>1, <2>3, UploadConstants DEF ColInv, Present
<1>8. CASE col' = [col EXCEPT !.at = "failed"]
  <2>1. /\ col' \in CollectionStates
        /\ col'.at = "failed"
    BY <1>5, <1>8 DEF CollectionStates
  <2> QED BY <1>4, <2>1 DEF ColInv
<1>9. CASE col' = [col EXCEPT !.tries = @ + 1,
                     !.at = IF col.tries + 1 < MaxAttempts THEN @ ELSE "failed"]
  <2>1. /\ col' \in CollectionStates
        /\ col'.at = "failed" \/ (col'.at = "delete" /\ col'.tries < MaxAttempts)
        /\ col'.cursor = Max(Digests) /\ col'.doomed = col.doomed
    <3> DEFINE n == col.tries + 1
               at == IF n < MaxAttempts THEN "delete" ELSE "failed"
    <3>1. n \in 0..MaxAttempts /\ (at = "failed" \/ (at = "delete" /\ n < MaxAttempts))
      BY <1>5, UploadConstants DEF CollectionStates
    <3>2. col' = [col EXCEPT !.tries = n, !.at = at]
      BY <1>2, <1>9
    <3> HIDE DEF n, at
    <3> QED BY <1>5, <3>1, <3>2 DEF CollectionStates
  <2> QED BY <1>4, <1>5, <1>6, <2>1 DEF ColInv, Present
<1> QED BY <1>1, <1>7, <1>8, <1>9, <1>4

LEMMA CollectEndsKeeps ==
    ASSUME ColInv, CollectEnds
    PROVE  ColInv' /\ BlobStep
<1>1. /\ col.at = "delete" /\ col.doomed = <<>> /\ blobs' = blobs
      /\ col' = [col EXCEPT !.at = "ok"]
  BY DEF CollectEnds
<1>2. /\ col' \in CollectionStates
      /\ col'.at = "ok" /\ col'.cursor = col.cursor /\ col'.doomed = <<>>
  BY <1>1 DEF ColInv, CollectionStates
<1> QED BY <1>1, <1>2 DEF ColInv, Present, BlobStep

(* What is left when the collection succeeds. *)
LEMMA CollectionExact == ASSUME StoreInv, ColInv PROVE CollectionIsExact
<1> SUFFICES ASSUME NEW k \in DOMAIN InitialBlobs, col.at = "ok", Present(k), k \in Collectable \ Restorable
             PROVE  FALSE
  BY DEF CollectionIsExact, StoreInv
<1>1. k \in Unswept /\ col.doomed = <<>> /\ col.cursor = Max(Digests)
  BY DEF Unswept, ColInv
<1>2. k \notin Range(col.doomed)
  BY <1>1 DEF Range
<1>3. PICK d \in Digests, s \in {"lower", "upper"} : k = KeyOf(Mine, d, s)
  BY KeyFacts
<1>4. Last(k) = <<d, s>>
  BY <1>3, KeyParts
<1>5. Last(k)[1] <= Max(Digests) /\ Last(k)[1] \in Nat /\ Max(Digests) \in Nat
  BY <1>4, DigestsMax
<1>6. Last(k)[1] > Max(Digests)
  BY <1>1, <1>2 DEF ColInv
<1> QED BY <1>5, <1>6

-------------------------------------------------------------------------------
(* The file upload. *)

(* A step leaves the uploads of the start alone. *)
OwnStep == uploads' \in {uploads, uploads \cup {Own}, uploads \ {Own}}

LEMMA UpKeptByOthers ==
    ASSUME UpInv, UNCHANGED <<up, file>>, Own \in uploads => Own \in uploads'
    PROVE  UpInv'
BY DEF UpInv

(* A content is a sequence of two digests. *)
LEMMA PairIsSeq ==
    ASSUME NEW a \in Digests, NEW b \in Digests
    PROVE  <<a, b>> \in Seq(Digests) /\ Len(<<a, b>>) = 2
OBVIOUS

LEMMA HalvesAreSeqs ==
    ASSUME NEW c \in Halves PROVE c \in Seq(Digests) /\ Len(c) = 2
<1>1. PICK a \in Digests, b \in Digests : c = <<a, b>>
  BY DEF Halves
<1> QED BY <1>1, PairIsSeq

LEMMA SeqsOfTwo ==
    ASSUME NEW s \in Seq(Digests), Len(s) = 2 PROVE s \in Halves
<1>1. s[1] \in Digests /\ s[2] \in Digests
  OBVIOUS
<1> DEFINE t == <<s[1], s[2]>>
<1>2. t \in Seq(Digests) /\ Len(t) = 2 /\ t[1] = s[1] /\ t[2] = s[2]
  BY <1>1
<1>3. \A i \in 1..Len(s) : s[i] = t[i]
  <2> SUFFICES ASSUME NEW i \in 1..Len(s) PROVE s[i] = t[i]
    OBVIOUS
  <2> HIDE DEF t
  <2>1. i = 1 \/ i = 2
    OBVIOUS
  <2> QED BY <2>1, <1>2
<1>4. s = t
  <2> HIDE DEF t
  <2> QED BY <1>2, <1>3, SeqEqual, Zenon
<1> QED BY <1>1, <1>4 DEF Halves

LEMMA OwnUploadIsOwn == ASSUME UpInv PROVE OwnUpload = Own
<1>1. up.digest = Uploaded
  BY DEF UpInv, UploadStates
<1> QED BY <1>1 DEF OwnUpload, Own

LEMMA CopyIsContent ==
    ASSUME UpInv, up.at \in {"create", "complete"}
    PROVE  up.copy \in Halves /\ Verified(Uploaded, up.copy)
<1>1. up.copy \in Seq(Digests) /\ Len(up.copy) = 2 /\ Verified(Uploaded, up.copy)
  BY DEF UpInv, UploadStates
<1> QED BY <1>1, SeqsOfTwo, Zenon

LEMMA EditKeeps == ASSUME UpInv, Edit PROVE UpInv' /\ BlobStep /\ OwnStep
<1>1. UNCHANGED <<blobs, uploads, up>> /\ \E d \in Digests : file' = <<d, d>>
  BY DEF Edit
<1>2. file' \in Halves
  BY <1>1 DEF Halves
<1> QED BY <1>1, <1>2 DEF UpInv, BlobStep, OwnStep

LEMMA SnapshotKeeps ==
    ASSUME UpInv, Exists \/ CopyBuffer \/ CheckSnapshot
    PROVE  UpInv' /\ BlobStep /\ OwnStep
<1>1. UNCHANGED <<blobs, uploads, file>>
  BY DEF Exists, CopyBuffer, CheckSnapshot
<1>2. up \in UploadStates /\ Len(up.copy) <= 2 /\ file \in Halves /\ up.digest = Uploaded
      /\ up.copy \in Seq(Digests)
  BY DEF UpInv, UploadStates
<1>3. CASE Exists
  <2>1. PICK at \in {"ok", "snapshot", "failed"} : up' = [up EXCEPT !.at = at]
    BY <1>3 DEF Exists
  <2>2. up' \in UploadStates /\ up'.at = at /\ up'.copy = up.copy
    BY <1>2, <2>1 DEF UploadStates
  <2> QED BY <1>1, <1>2, <2>1, <2>2 DEF UpInv, BlobStep, OwnStep
<1>4. CASE CopyBuffer
  <2> DEFINE n == Len(up.copy) + 1
             copy == Append(up.copy, file[n])
  <2>1. up.at = "snapshot" /\ Len(up.copy) < 2 /\ up' = [up EXCEPT !.copy = copy]
    BY <1>4 DEF CopyBuffer
  <2>2. n = 1 \/ n = 2
    BY <1>2, <2>1
  <2>3. file[n] \in Digests
    BY <1>2, <2>2 DEF Halves
  <2>4. copy \in Seq(Digests) /\ Len(copy) = n
    BY <1>2, <2>3
  <2> HIDE DEF copy, n
  <2>5. up' \in UploadStates /\ up'.at = "snapshot" /\ up'.copy = copy
    BY <1>2, <2>1, <2>4 DEF UploadStates
  <2> QED BY <1>1, <1>2, <2>2, <2>4, <2>5 DEF UpInv, BlobStep, OwnStep
<1>5. CASE CheckSnapshot
  <2> DEFINE at == IF Verified(up.digest, up.copy) THEN "create" ELSE "mismatch"
  <2>1. Len(up.copy) = 2 /\ up' = [up EXCEPT !.at = at]
    BY <1>5 DEF CheckSnapshot
  <2>2. at \in {"create", "mismatch"} /\ (at = "create" => Verified(Uploaded, up.copy))
    BY <1>2
  <2> HIDE DEF at
  <2>3. up' \in UploadStates /\ up'.at = at /\ up'.copy = up.copy
    BY <1>2, <2>1, <2>2 DEF UploadStates
  <2> QED BY <1>1, <1>2, <2>1, <2>2, <2>3 DEF UpInv, BlobStep, OwnStep
<1> QED BY <1>3, <1>4, <1>5

LEMMA TransferKeeps ==
    ASSUME UpInv, CreateUpload \/ CompleteUpload \/ Interrupt
    PROVE  UpInv' /\ BlobStep /\ OwnStep
<1>1. up.at \in {"create", "complete"} /\ UNCHANGED file
  BY DEF CreateUpload, CompleteUpload, Interrupt
<1>2. OwnUpload = Own /\ up.copy \in Halves /\ Verified(Uploaded, up.copy)
  BY <1>1, OwnUploadIsOwn, CopyIsContent
<1>3. OwnUpload.key = blob_key(Mine, Uploaded)
  BY <1>2, OwnFacts, KeyFacts
<1>4. up \in UploadStates /\ Len(up.copy) = 2 /\ file \in Halves
  BY <1>1 DEF UpInv
<1>5. blobs' = Stored(OwnUpload.key, up.copy) => BlobStep
  BY <1>2, <1>3 DEF BlobStep, StoredDigests
<1>6. PICK at \in {"complete", "ok", "failed", "Cancelled", "DeadlineExceeded"} :
         /\ up' = [up EXCEPT !.at = at]
         /\ at = "complete" => Own \in uploads'
         /\ blobs' = blobs \/ blobs' = Stored(OwnUpload.key, up.copy)
         /\ OwnStep
  <2>1. CASE CreateUpload
    BY <1>2, <2>1 DEF CreateUpload, OwnStep
  <2>2. CASE CompleteUpload
    BY <1>2, <2>2 DEF CompleteUpload, OwnStep
  <2>3. CASE Interrupt
    BY <1>2, <2>3 DEF Interrupt, OwnStep
  <2> QED BY <2>1, <2>2, <2>3
<1>7. up' \in UploadStates /\ up'.at = at /\ up'.copy = up.copy
  BY <1>4, <1>6 DEF UploadStates
<1>8. UpInv'
  BY <1>1, <1>2, <1>4, <1>6, <1>7 DEF UpInv
<1>9. BlobStep
  BY <1>5, <1>6 DEF BlobStep
<1> QED BY <1>6, <1>8, <1>9

-------------------------------------------------------------------------------
(* The download and the deletion. *)

LEMMA DownKeeps ==
    ASSUME StoreInv, DownInv, Get \/ ReadChunk \/ CheckDownload
    PROVE  DownInv'
<1>1. /\ down \in DownloadStates /\ down.body \in Seq(Digests) /\ down.written \in Seq(Digests)
      /\ Len(down.body) + Len(down.written) <= 2
      /\ down.at = "get" => down.body = <<>> /\ down.written = <<>>
  BY DEF DownInv, DownloadStates
<1>2. CASE down' = [down EXCEPT !.at = "failed"]
  <2>1. down' \in DownloadStates /\ down'.at = "failed" /\ down'.body = down.body /\ down'.written = down.written
    BY <1>1, <1>2 DEF DownloadStates
  <2> QED BY <1>1, <2>1 DEF DownInv, DownloadsAreVerified
<1>3. ASSUME down.at = "get", NEW key \in DOMAIN blobs,
             down' = [down EXCEPT !.at = "body", !.body = blobs[key]]
      PROVE  DownInv'
  <2> DEFINE content == blobs[key]
  <2>1. content \in Halves
    BY DEF StoreInv
  <2>3. content \in Seq(Digests) /\ Len(content) = 2
    BY <2>1, HalvesAreSeqs, Zenon
  <2> HIDE DEF content
  <2>4. down' = [down EXCEPT !.at = "body", !.body = content]
    BY <1>3 DEF content
  <2>5. down' \in DownloadStates /\ down'.at = "body" /\ down'.body = content /\ down'.written = <<>>
    BY <1>1, <1>3, <2>3, <2>4 DEF DownloadStates
  <2>6. Len(<<>>) = 0
    OBVIOUS
  <2>7. Len(down'.body) + Len(down'.written) <= 2
    <3>1. Len(down'.body) = 2 /\ Len(down'.written) = 0
      BY <2>3, <2>5, <2>6, Zenon
    <3> QED BY <3>1
  <2> QED BY <2>5, <2>7 DEF DownInv, DownloadsAreVerified
<1>4. ASSUME down.at = "body", down.body # <<>>,
             down' = [down EXCEPT !.body = Tail(@), !.written = Append(@, Head(down.body))]
      PROVE  DownInv'
  <2> DEFINE body == Tail(down.body)
             more == Append(down.written, Head(down.body))
  <2>1. body \in Seq(Digests) /\ more \in Seq(Digests) /\ Len(body) = Len(down.body) - 1
        /\ Len(more) = Len(down.written) + 1
    BY <1>1, <1>4
  <2>2. down' = [down EXCEPT !.body = body, !.written = more]
    BY <1>4
  <2> HIDE DEF body, more
  <2>3. down' \in DownloadStates /\ down'.at = "body" /\ down'.body = body /\ down'.written = more
    BY <1>1, <1>4, <2>1, <2>2 DEF DownloadStates
  <2>4. Len(body) + Len(more) <= 2
    <3>1. Len(down.body) \in Nat /\ Len(down.written) \in Nat
      BY <1>1
    <3>2. Len(down.body) + Len(down.written) <= 2
      BY <1>1
    <3> DEFINE m == Len(down.body)
               n == Len(down.written)
    <3>3. m \in Nat /\ n \in Nat /\ m + n <= 2 /\ Len(body) = m - 1 /\ Len(more) = n + 1
      BY <2>1, <3>1, <3>2
    <3> HIDE DEF m, n
    <3> QED BY <3>3
  <2> QED BY <2>3, <2>4 DEF DownInv, DownloadsAreVerified
<1>5. CASE CheckDownload
  <2> DEFINE at == IF Verified(down.digest, down.written) THEN "ok" ELSE "mismatch"
  <2>1. down' = [down EXCEPT !.at = at]
    BY <1>5 DEF CheckDownload
  <2>2. at \in {"ok", "mismatch"} /\ (at = "ok" => hex_sha256(down.written) = {down.digest})
    BY DEF Verified
  <2> HIDE DEF at
  <2>3. /\ down' \in DownloadStates /\ down'.at = at /\ down'.body = down.body
        /\ down'.written = down.written /\ down'.digest = down.digest
    BY <1>1, <2>1, <2>2 DEF DownloadStates
  <2> QED BY <1>1, <2>2, <2>3 DEF DownInv, DownloadsAreVerified
<1>6. CASE Get
  BY <1>2, <1>3, <1>6 DEF Get, Present
<1>7. CASE ReadChunk
  BY <1>2, <1>4, <1>7 DEF ReadChunk
<1> QED BY <1>5, <1>6, <1>7

LEMMA DeleteStep == ASSUME Delete PROVE BlobStep
<1>1. PICK d \in Digests \ Live : blobs' = Without({blob_key(Mine, d)})
  BY DEF Delete
<1>2. {blob_key(Mine, d)} \in SUBSET Collectable
  BY KeyFacts
<1> QED BY <1>1, <1>2 DEF BlobStep

-------------------------------------------------------------------------------
(* The pass over stale uploads. *)

(* Stale uploads are finitely many, stale, and what a listing of the tenant    *)
(* has of the uploads of the start that are stale.                             *)
LEMMA StaleFacts ==
    /\ StaleUploads \subseteq InitialUploads /\ StaleUploads \subseteq AllUploads /\ Own \notin StaleUploads
    /\ \A S : IsFiniteSet(StaleUploads \ S) /\ Cardinality(StaleUploads \ S) \in Nat
    /\ \A u \in StaleUploads : IsStale(u) /\ IsStrictPrefix(blob_prefix(Mine), u.key)
    /\ \A u \in AllUploads : IsStale(u) /\ IsStrictPrefix(blob_prefix(Mine), u.key) => u \in StaleUploads
<1>1. StaleUploads \subseteq InitialUploads /\ StaleUploads \subseteq AllUploads
  BY DEF StaleUploads, AllUploads
<1>2. ASSUME NEW S PROVE IsFiniteSet(StaleUploads \ S) /\ Cardinality(StaleUploads \ S) \in Nat
  <2>1. StaleUploads \ S \in SUBSET InitialUploads
    BY <1>1
  <2>2. IsFiniteSet(StaleUploads \ S)
    BY <2>1, UploadsFinite, FS_Subset
  <2> QED BY <2>2, FS_CardinalityType
<1>3. ASSUME NEW u \in StaleUploads PROVE IsStale(u) /\ IsStrictPrefix(blob_prefix(Mine), u.key)
  <2>1. PICK d \in Digests : u.key = KeyOf(Mine, d, "lower")
    BY KeyFacts DEF StaleUploads
  <2>2. IsStrictPrefix(blob_prefix(Mine), u.key)
    BY <2>1, KeyUnderPrefix, Zenon
  <2>3. IsStale(u)
    BY UploadConstants DEF StaleUploads, IsStale
  <2> QED BY <2>2, <2>3
<1>4. ASSUME NEW u \in AllUploads, IsStale(u), IsStrictPrefix(blob_prefix(Mine), u.key)
      PROVE  u \in StaleUploads
  <2>1. u \in InitialUploads
    BY <1>4, OwnFacts DEF AllUploads
  <2>2. PICK w \in Uploads : u.key = KeyOf(w.tenant, w.digest, "lower") /\ u.initiated = w.initiated
    BY <2>1, InitialUpload
  <2>3. w.tenant = Mine
    BY <1>4, <2>2, KeyUnderPrefix
  <2>4. u.key = blob_key(Mine, w.digest) /\ w.digest \in Digests
    BY <2>2, <2>3, KeyFacts, UploadConstants
  <2>5. PICK t \in u.initiated : t <= Cutoff
    BY <1>4 DEF IsStale
  <2>6. u.initiated = {t} /\ t \in Nat
    BY <2>2, <2>5, UploadConstants
  <2>7. u.initiated # {} /\ u.initiated \subseteq 0..Cutoff
    BY <2>5, <2>6, UploadConstants
  <2> QED BY <2>1, <2>4, <2>7 DEF StaleUploads
<1> QED BY <1>1, <1>2, <1>3, <1>4, OwnFacts

LEMMA StaleKeptByOthers ==
    ASSUME StaleInv, OwnStep, UNCHANGED stale
    PROVE  StaleInv'
<1>1. uploads' \subseteq AllUploads /\ InitialUploads \ uploads' = InitialUploads \ uploads
      /\ StaleUploads \ uploads' = StaleUploads \ uploads
      /\ StaleUploads \cap uploads' = StaleUploads \cap uploads
  BY OwnFacts, StaleFacts DEF OwnStep, StaleInv, AllUploads
<1>2. StaleInv
  OBVIOUS
<1> QED BY <1>1, <1>2, Zenon DEF StaleInv, Gone

LEMMA ListUploadsKeeps ==
    ASSUME StaleInv, ListUploads
    PROVE  StaleInv'
<1> DEFINE page == UploadPage
           more == UploadPage # Remaining
           next == IF UploadPage = {} THEN stale.marker ELSE NextMarker(UploadPage)
<1>1. /\ stale \in PassStates /\ stale.at = "list" /\ stale.page = {} /\ UNCHANGED uploads
      /\ uploads \subseteq AllUploads /\ InitialUploads \ uploads \subseteq StaleUploads
      /\ stale.tries < MaxAttempts /\ stale.aborted = Cardinality(Gone)
      /\ \A u \in StaleUploads \cap uploads : After(u, stale.marker)
  <2>1. stale.at = "list" /\ UNCHANGED uploads
    BY DEF ListUploads
  <2>2. stale.page = {} /\ stale.aborted = Cardinality(Gone \ stale.page)
    BY <2>1 DEF StaleInv
  <2>3. Gone \ {} = Gone
    OBVIOUS
  <2> QED BY <2>1, <2>2, <2>3 DEF StaleInv
<1>2. CASE stale' = [stale EXCEPT !.at = "limit"]
  <2>1. /\ stale' \in PassStates /\ stale'.at = "limit" /\ stale'.page = {}
    BY <1>1, <1>2 DEF PassStates
  <2> QED BY <1>1, <2>1 DEF StaleInv
<1>3. CASE /\ stale.pages # MaxPages
           /\ stale' = [stale EXCEPT !.at = "abort", !.page = page, !.pages = @ + 1,
                          !.truncated = more, !.marker = next]
  <2>1. Remaining \subseteq uploads /\ UploadPage \subseteq Remaining
        /\ \A u \in Remaining : IsStrictPrefix(blob_prefix(Mine), u.key)
    BY DEF Remaining, UploadPage
  <2>2. page \subseteq uploads /\ page \in SUBSET AllUploads
    BY <1>1, <2>1
  <2>3. next \in Nat \X Nat
    <3>1. CASE UploadPage = {}
      BY <1>1, <3>1 DEF PassStates
    <3>2. CASE UploadPage # {}
      <4>1. Final(UploadPage) \in AllUploads
        BY <2>2, <3>2, PageEndsExist
      <4>2. next = Rank(Final(UploadPage))
        BY <3>2 DEF NextMarker
      <4> QED BY <4>1, <4>2, UploadRank
    <3> QED BY <3>1, <3>2
  <2>4. \A u \in StaleUploads \cap uploads : u \in page \/ (After(u, next) /\ more)
    <3> SUFFICES ASSUME NEW u \in StaleUploads \cap uploads, u \notin page
                 PROVE  After(u, next) /\ more
      OBVIOUS
    <3>1. u \in Remaining
      BY <1>1, StaleFacts DEF Remaining
    <3>2. more
      BY <3>1
    <3>3. CASE UploadPage = {}
      BY <1>1, <3>2, <3>3
    <3>4. CASE UploadPage # {}
      <4>1. Final(UploadPage) \in UploadPage
        BY <2>2, <3>4, PageEndsExist
      <4>2. Before(Final(UploadPage), u)
        BY <1>1, <3>1, <4>1, PageIsInitial
      <4>3. next = Rank(Final(UploadPage))
        BY <3>4 DEF NextMarker
      <4> QED BY <3>2, <4>2, <4>3 DEF Before
    <3> QED BY <3>3, <3>4
  <2>5. Gone \ page = Gone
    BY <2>2 DEF Gone
  <2>6. more \in BOOLEAN /\ \A u \in page : IsStrictPrefix(blob_prefix(Mine), u.key)
    BY <2>1
  <2>7. stale.pages + 1 \in 0..MaxPages
    BY <1>1, <1>3, UploadConstants DEF PassStates
  <2> HIDE DEF page, more, next
  <2>8. /\ stale' \in PassStates /\ stale'.at = "abort" /\ stale'.page = page
        /\ stale'.truncated = more /\ stale'.marker = next
        /\ stale'.tries = stale.tries /\ stale'.aborted = stale.aborted
    BY <1>1, <1>3, <2>2, <2>3, <2>6, <2>7 DEF PassStates
  <2>9. Gone' = Gone
    BY <1>1 DEF Gone
  <2>10. stale'.aborted = Cardinality(Gone' \ stale'.page)
    BY <1>1, <2>5, <2>8, <2>9
  <2> HIDE DEF Gone, After
  <2> QED BY <1>1, <2>4, <2>6, <2>8, <2>10 DEF StaleInv
<1> QED BY <1>1, <1>2, <1>3 DEF ListUploads

LEMMA SkipFreshKeeps ==
    ASSUME StaleInv, SkipFresh
    PROVE  StaleInv'
<1> DEFINE u == First(stale.page)
           rest == stale.page \ {u}
<1>1. /\ stale \in PassStates /\ stale.at = "abort" /\ stale.page # {} /\ ~IsStale(u)
      /\ stale' = [stale EXCEPT !.page = rest] /\ UNCHANGED uploads
  BY DEF SkipFresh, StaleInv
<1>2. stale.page \in SUBSET AllUploads
  BY <1>1 DEF PassStates
<1>3. u \notin StaleUploads
  BY <1>1, StaleFacts
<1>4. Gone \ rest = Gone \ stale.page
  BY <1>3 DEF Gone
<1>5. rest \in SUBSET AllUploads /\ \A v \in StaleUploads : v \in stale.page => v \in rest
  BY <1>2, <1>3
<1>6. \A v \in rest : v \in stale.page
  OBVIOUS
<1> HIDE DEF u, rest
<1>7. /\ stale' \in PassStates /\ stale'.at = "abort" /\ stale'.page = rest
      /\ stale'.truncated = stale.truncated /\ stale'.marker = stale.marker
      /\ stale'.tries = stale.tries /\ stale'.aborted = stale.aborted
  BY <1>1, <1>5 DEF PassStates
<1>8. Gone' = Gone
  BY <1>1 DEF Gone
<1>9. stale'.aborted = Cardinality(Gone' \ stale'.page)
  BY <1>1, <1>4, <1>7, <1>8 DEF StaleInv
<1> HIDE DEF Gone, After
<1> QED BY <1>1, <1>5, <1>6, <1>7, <1>9 DEF StaleInv

LEMMA AbortKeeps ==
    ASSUME StaleInv, AbortAnswered \/ AbortLost
    PROVE  StaleInv' /\ (Own \in uploads => Own \in uploads')
<1> DEFINE u == First(stale.page)
           rest == stale.page \ {u}
<1>1. /\ stale \in PassStates /\ stale.at = "abort" /\ stale.page # {} /\ IsStale(u)
      /\ uploads' \in {uploads, uploads \ {u}} /\ uploads \subseteq AllUploads
      /\ InitialUploads \ uploads \subseteq StaleUploads
      /\ stale.tries < MaxAttempts
      /\ stale.aborted = Cardinality(Gone \ stale.page)
      /\ \A v \in StaleUploads \cap uploads :
            v \in stale.page \/ (After(v, stale.marker) /\ stale.truncated)
      /\ \A v \in stale.page : IsStrictPrefix(blob_prefix(Mine), v.key)
  BY DEF AbortAnswered, AbortLost, StaleInv
<1>2. stale.page \in SUBSET AllUploads /\ stale.tries \in Nat /\ stale.aborted \in Nat
  BY <1>1 DEF PassStates
<1>3. u \in stale.page
  BY <1>1, <1>2, PageEndsExist
<1>4. u \in StaleUploads /\ u # Own
  BY <1>1, <1>2, <1>3, StaleFacts
<1>5. /\ uploads' \subseteq AllUploads /\ InitialUploads \ uploads' \subseteq StaleUploads
      /\ Own \in uploads => Own \in uploads'
      /\ StaleUploads \cap uploads' \subseteq StaleUploads \cap uploads
  BY <1>1, <1>4
<1>6. CASE stale' = [stale EXCEPT !.at = "failed"]
  <2>1. stale' \in PassStates /\ stale'.at = "failed" /\ stale'.page = stale.page
    BY <1>1, <1>6 DEF PassStates
  <2> QED BY <1>1, <1>5, <2>1 DEF StaleInv
<1>7. CASE /\ u \in uploads /\ uploads' = uploads \ {u}
           /\ stale' = [stale EXCEPT !.page = rest, !.aborted = @ + 1, !.tries = 0]
  <2>1. rest \in SUBSET AllUploads /\ \A v \in rest : IsStrictPrefix(blob_prefix(Mine), v.key)
    BY <1>1, <1>2
  <2>2. Gone' \ rest = (Gone \ stale.page) \cup {u} /\ u \notin Gone \ stale.page
    BY <1>3, <1>4, <1>7 DEF Gone
  <2>3. IsFiniteSet(Gone \ stale.page)
    <3>1. Gone \ stale.page = StaleUploads \ (uploads \cup stale.page)
      BY DEF Gone
    <3> QED BY <3>1, StaleFacts
  <2>4. Cardinality(Gone' \ rest) = stale.aborted + 1
    <3> DEFINE S == Gone \ stale.page
               T == Gone' \ rest
    <3>1. T = S \cup {u} /\ u \notin S /\ IsFiniteSet(S) /\ stale.aborted = Cardinality(S)
      BY <1>1, <2>2, <2>3
    <3> HIDE DEF S, T
    <3>2. Cardinality(T) = Cardinality(S) + 1
      BY <3>1, FS_AddElement
    <3> QED BY <3>1, <3>2 DEF T
  <2>5. \A v \in StaleUploads \cap uploads' : v \in rest \/ (After(v, stale.marker) /\ stale.truncated)
    BY <1>1, <1>7
  <2> HIDE DEF u, rest
  <2>6. /\ stale' \in PassStates /\ stale'.at = "abort" /\ stale'.page = rest
        /\ stale'.truncated = stale.truncated /\ stale'.marker = stale.marker
        /\ stale'.tries = 0 /\ stale'.aborted = stale.aborted + 1
    <3> DEFINE n == stale.aborted + 1
    <3>1. n \in Nat /\ 0 \in 0..MaxAttempts
      BY <1>2, UploadConstants
    <3>2. stale' = [stale EXCEPT !.page = rest, !.aborted = n, !.tries = 0]
      BY <1>7
    <3> HIDE DEF n
    <3>3. stale \in PassStates /\ stale.at = "abort" /\ rest \in SUBSET AllUploads
      BY <1>1, <2>1
    <3>4. /\ stale' \in PassStates /\ stale'.at = "abort" /\ stale'.page = rest
          /\ stale'.truncated = stale.truncated /\ stale'.marker = stale.marker
          /\ stale'.tries = 0 /\ stale'.aborted = n
      BY <3>1, <3>2, <3>3 DEF PassStates
    <3> QED BY <3>4 DEF n
  <2> HIDE DEF Gone, After
  <2> QED BY <1>5, <2>1, <2>4, <2>5, <2>6, UploadConstants DEF StaleInv
<1>8. CASE AbortLost
  <2> DEFINE at == IF stale.tries + 1 < MaxAttempts THEN "abort" ELSE "failed"
             n == stale.tries + 1
  <2>1. stale' = [stale EXCEPT !.tries = n, !.at = at]
    BY <1>1, <1>8 DEF AbortLost
  <2>2. n \in 0..MaxAttempts /\ at \in {"abort", "failed"} /\ (at = "abort" => n < MaxAttempts)
    BY <1>1, <1>2, UploadConstants
  <2> HIDE DEF n, at
  <2>3. /\ stale' \in PassStates /\ stale'.at = at /\ stale'.page = stale.page
        /\ stale'.truncated = stale.truncated /\ stale'.marker = stale.marker
        /\ stale'.tries = n /\ stale'.aborted = stale.aborted
    BY <1>1, <2>1, <2>2 DEF PassStates
  <2>4. Gone' \ stale.page = Gone \ stale.page
    BY <1>1, <1>3 DEF Gone
  <2>5. stale'.aborted = Cardinality(Gone' \ stale'.page)
    BY <1>1, <2>3, <2>4
  <2>6. \A v \in StaleUploads \cap uploads' : v \in stale.page \/ (After(v, stale.marker) /\ stale.truncated)
    BY <1>1, <1>5
  <2> HIDE DEF u, Gone, After
  <2> QED BY <1>1, <1>5, <2>2, <2>3, <2>5, <2>6 DEF StaleInv
<1> QED BY <1>5, <1>6, <1>7, <1>8 DEF AbortAnswered

LEMMA PageEndsKeeps ==
    ASSUME StaleInv, PageEnds
    PROVE  StaleInv'
<1>1. PICK at \in {"list", "failed", "ok"} :
         /\ stale.at = "abort" /\ stale.page = {} /\ UNCHANGED uploads
         /\ stale' = [stale EXCEPT !.at = at]
         /\ IF stale.truncated THEN at # "ok" ELSE at = "ok"
  BY DEF PageEnds
<1>2. /\ stale \in PassStates /\ stale.tries < MaxAttempts /\ stale.aborted = Cardinality(Gone)
      /\ \A v \in StaleUploads \cap uploads : After(v, stale.marker) /\ stale.truncated
  <2>1. Gone \ {} = Gone
    OBVIOUS
  <2> QED BY <1>1, <2>1 DEF StaleInv
<1>3. /\ stale' \in PassStates /\ stale'.at = at /\ stale'.page = {}
      /\ stale'.truncated = stale.truncated /\ stale'.marker = stale.marker
      /\ stale'.tries = stale.tries /\ stale'.aborted = stale.aborted
  BY <1>1, <1>2 DEF PassStates
<1>4. Gone' \ {} = Gone
  BY <1>1 DEF Gone
<1>5. stale'.aborted = Cardinality(Gone' \ stale'.page)
  BY <1>2, <1>3, <1>4
<1>6. at = "ok" => StaleUploads \cap uploads' = {} /\ stale'.aborted = Cardinality(StaleUploads)
  <2> SUFFICES ASSUME at = "ok"
               PROVE  StaleUploads \cap uploads' = {} /\ stale'.aborted = Cardinality(StaleUploads)
    OBVIOUS
  <2>1. StaleUploads \cap uploads = {}
    BY <1>1, <1>2
  <2>2. Gone = StaleUploads
    BY <2>1 DEF Gone
  <2> QED BY <1>1, <1>2, <1>3, <2>1, <2>2
<1> HIDE DEF Gone, After
<1> QED BY <1>1, <1>2, <1>3, <1>5, <1>6 DEF StaleInv

-------------------------------------------------------------------------------
(* All actors together. *)

LEMMA InitArtifactInv == ASSUME Init PROVE ArtifactInv
<1>1. StoreInv
  <2> DEFINE f == [o \in Objects |-> Append(blob_prefix(o.tenant), <<o.digest, o.spelling>>)]
             K == {Append(blob_prefix(o.tenant), <<o.digest, o.spelling>>) : o \in Objects}
  <2>1. blobs = InitialBlobs /\ DOMAIN InitialBlobs = K
    BY DEF Init, InitialBlobs
  <2>2. IsFiniteSet(Objects) /\ \A o \in Objects : /\ o.digest \in Digests /\ o.spelling \in Spellings
                                                    /\ o.content \in Halves
    BY ListingsAssumption DEF ArtifactAssumption, IsObject, Spellings, Halves
  <2>3. f \in Surjection(Objects, K)
    BY Zenon DEF Surjection
  <2>4. IsFiniteSet(K)
    <3> HIDE DEF f, K
    <3> QED BY <2>2, <2>3, FS_Surjection
  <2>5. K \subseteq Keys
    BY <2>2 DEF Keys, KeyOf, Tenants
  <2>6. ASSUME NEW k \in K PROVE InitialBlobs[k] \in Halves
    <3> DEFINE o == CHOOSE o \in Objects : k = Append(blob_prefix(o.tenant), <<o.digest, o.spelling>>)
    <3>1. o \in Objects
      <4>1. \E q \in Objects : k = Append(blob_prefix(q.tenant), <<q.digest, q.spelling>>)
        OBVIOUS
      <4> QED BY <4>1, Zenon
    <3>2. InitialBlobs[k] = o.content
      BY DEF InitialBlobs
    <3> HIDE DEF o
    <3> QED BY <2>2, <3>1, <3>2
  <2> HIDE DEF f, K
  <2> QED BY <2>1, <2>4, <2>5, <2>6 DEF StoreInv, StoredContentIsAddressed, Present
<1>2. PubInv
  <2>1. MaxAttempts \in Nat \ {0}
    BY UploadConstants
  <2>2. \A p \in Publishers : pub[p].at \in {"verify", "idle"} /\ pub[p].tries = 0
    BY DEF Init
  <2>3. pub \in [Publishers -> PublicationStates]
    BY <2>1 DEF Init, PublicationStates
  <2>4. manifests = {}
    BY DEF Init
  <2> QED BY <2>1, <2>2, <2>3, <2>4 DEF PubInv, MarkersHavePayloads
<1>3. ColInv
  <2> DEFINE at == IF "collect" \in crew THEN "list" ELSE "idle"
             none == <<>>
  <2>1. col = [at |-> at, cursor |-> 0, doomed |-> none, deleted |-> 0, tries |-> 0] /\ blobs = InitialBlobs
    BY DEF Init
  <2>2. at \in {"list", "idle"} /\ none \in Seq(Collectable)
    OBVIOUS
  <2>3. MaxAttempts \in Nat \ {0} /\ Max(Digests) \in Nat /\ 0 < Max(Digests)
    BY UploadConstants, DigestsMax
  <2> HIDE DEF at, none
  <2>4. col \in CollectionStates /\ col.at = at /\ col.tries = 0 /\ col.cursor = 0
    BY <2>1, <2>2, <2>3 DEF CollectionStates
  <2>5. ASSUME NEW k \in Unswept PROVE Last(k)[1] > 0
    <3>1. PICK d \in Digests, s \in {"lower", "upper"} : k = KeyOf(Mine, d, s)
      BY KeyFacts DEF Unswept
    <3>2. Last(k) = <<d, s>>
      BY <3>1, KeyParts
    <3> QED BY <3>2, DigestsMax
  <2> QED BY <2>2, <2>3, <2>4, <2>5 DEF ColInv
<1>4. UpInv
  <2> DEFINE at == IF "upload" \in crew THEN "exists" ELSE "idle"
             none == <<>>
  <2>1. up = [at |-> at, digest |-> Uploaded, copy |-> none] /\ file = <<Uploaded, Uploaded>>
    BY DEF Init
  <2>2. at \in {"exists", "idle"} /\ none \in Seq(Digests) /\ Len(none) = 0
    OBVIOUS
  <2>3. file \in Halves
    BY <2>1, UploadConstants DEF Halves
  <2> HIDE DEF at, none
  <2>4. up \in UploadStates /\ up.at = at /\ up.copy = none
    BY <2>1, <2>2 DEF UploadStates
  <2> QED BY <2>2, <2>3, <2>4 DEF UpInv
<1>5. StaleInv
  <2> DEFINE at == IF "abort" \in crew THEN "list" ELSE "idle"
             zero == <<0, 0>>
  <2>1. /\ stale = [at |-> at, page |-> {}, truncated |-> FALSE, marker |-> zero,
                    pages |-> 0, aborted |-> 0, tries |-> 0]
        /\ uploads = InitialUploads
    BY DEF Init
  <2>2. at \in {"list", "idle"} /\ zero \in Nat \X Nat /\ zero[1] = 0
    OBVIOUS
  <2>3. MaxAttempts \in Nat \ {0} /\ MaxPages \in Nat
    BY UploadConstants
  <2> HIDE DEF at, zero
  <2>4. /\ stale \in PassStates /\ stale.at = at /\ stale.page = {} /\ stale.tries = 0
        /\ stale.aborted = 0 /\ stale.marker = zero
    BY <2>1, <2>2, <2>3 DEF PassStates
  <2>5. uploads \subseteq AllUploads /\ InitialUploads \ uploads = {} /\ Gone \ stale.page = {}
    BY <2>1, StaleFacts DEF AllUploads, Gone
  <2>6. stale.aborted = Cardinality(Gone \ stale.page)
    BY <2>4, <2>5, FS_EmptySet
  <2>7. \A u \in StaleUploads : After(u, stale.marker)
    <3> SUFFICES ASSUME NEW u \in StaleUploads PROVE Rank(u)[1] > 0
      BY <2>2, <2>4 DEF After
    <3>1. PICK d \in Digests : u.key = KeyOf(Mine, d, "lower")
      BY KeyFacts DEF StaleUploads
    <3>2. Last(u.key) = <<d, "lower">>
      BY <3>1, KeyParts
    <3>3. Rank(u)[1] = d
      BY <3>2 DEF Rank
    <3> QED BY <3>3, DigestsMax
  <2> HIDE DEF Gone, After
  <2> QED BY <2>2, <2>3, <2>4, <2>5, <2>6, <2>7 DEF StaleInv
<1>6. DownInv
  <2> DEFINE at == IF "download" \in crew THEN "get" ELSE "idle"
             none == <<>>
  <2>1. PICK d \in Digests : down = [at |-> at, digest |-> d, body |-> none, written |-> none]
    BY DEF Init
  <2>2. at \in {"get", "idle"} /\ none \in Seq(Digests) /\ Len(none) + Len(none) <= 2 /\ none = <<>>
    OBVIOUS
  <2> HIDE DEF at, none
  <2>3. down \in DownloadStates /\ down.at = at /\ down.body = none /\ down.written = none
    BY <2>1, <2>2 DEF DownloadStates
  <2> QED BY <2>2, <2>3 DEF DownInv, DownloadsAreVerified
<1> QED BY <1>1, <1>2, <1>3, <1>4, <1>5, <1>6 DEF ArtifactInv

LEMMA DownKeptByOthers == ASSUME DownInv, UNCHANGED down PROVE DownInv'
BY DEF DownInv, DownloadsAreVerified

LEMMA NextArtifactInv == ASSUME ArtifactInv, [Next]_vars PROVE ArtifactInv'
<1>1. StoreInv /\ PubInv /\ ColInv /\ UpInv /\ StaleInv /\ DownInv
  BY DEF ArtifactInv
<1>2. UNCHANGED uploads => OwnStep
  BY DEF OwnStep
<1>3. UNCHANGED blobs => BlobStep
  BY DEF BlobStep
<1>4. ASSUME BlobStep, OwnStep, Own \in uploads => Own \in uploads',
             UNCHANGED <<stale, up, file>>, PubInv', ColInv', DownInv'
      PROVE  ArtifactInv'
  BY <1>1, <1>4, StoreKept, UpKeptByOthers, StaleKeptByOthers DEF ArtifactInv
<1>5. ASSUME NEW p \in Publishers, Verify(p) \/ PutAnswered(p) \/ PutFails(p)
      PROVE  ArtifactInv'
  <2>1. UNCHANGED <<uploads, file, col, up, stale, down>>
    BY <1>5 DEF Verify, PutAnswered, PutFails
  <2>2. PubInv' /\ BlobStep
    BY <1>1, <1>5, VerifyKeeps, PutAnsweredKeeps, PutFailsKeeps
  <2> QED BY <1>1, <1>2, <1>4, <2>1, <2>2, ColKeptByOthers, DownKeptByOthers
<1>6. CASE ListBlobs \/ BatchAnswered \/ BatchLost \/ CollectEnds
  <2>1. UNCHANGED <<manifests, uploads, file, pub, up, stale, down>>
    BY <1>6 DEF ListBlobs, BatchAnswered, BatchLost, CollectEnds
  <2>2. ColInv' /\ BlobStep
    BY <1>1, <1>6, ListBlobsKeeps, BatchKeeps, CollectEndsKeeps
  <2> QED BY <1>1, <1>2, <1>4, <2>1, <2>2, PubKeptByOthers, DownKeptByOthers
<1>7. CASE Delete
  <2>1. UNCHANGED <<manifests, uploads, file, pub, col, up, stale, down>>
    BY <1>7 DEF Delete
  <2>2. BlobStep
    BY <1>7, DeleteStep
  <2> QED BY <1>1, <1>2, <1>4, <2>1, <2>2, PubKeptByOthers, ColKeptByOthers, DownKeptByOthers
<1>8. CASE Get \/ ReadChunk \/ CheckDownload
  <2>1. UNCHANGED <<blobs, manifests, uploads, file, pub, col, up, stale>>
    BY <1>8 DEF Get, ReadChunk, CheckDownload
  <2>2. DownInv'
    BY <1>1, <1>8, DownKeeps
  <2> QED BY <1>1, <1>2, <1>3, <1>4, <2>1, <2>2, PubKeptByOthers, ColKeptByOthers
<1>9. CASE Edit \/ Exists \/ CopyBuffer \/ CheckSnapshot \/ CreateUpload \/ CompleteUpload \/ Interrupt
  <2>1. UNCHANGED <<manifests, pub, col, stale, down>>
    BY <1>9 DEF Edit, Exists, CopyBuffer, CheckSnapshot, CreateUpload, CompleteUpload, Interrupt
  <2>2. UpInv' /\ BlobStep /\ OwnStep
    BY <1>1, <1>9, EditKeeps, SnapshotKeeps, TransferKeeps
  <2> QED BY <1>1, <2>1, <2>2, StoreKept, PubKeptByOthers, ColKeptByOthers, StaleKeptByOthers,
             DownKeptByOthers DEF ArtifactInv
<1>10. CASE ListUploads \/ SkipFresh \/ AbortAnswered \/ AbortLost \/ PageEnds
  <2>1. UNCHANGED <<blobs, manifests, file, pub, col, up, down>>
    BY <1>10 DEF ListUploads, SkipFresh, AbortAnswered, AbortLost, PageEnds
  <2>2. UNCHANGED uploads \/ AbortAnswered \/ AbortLost
    BY <1>10 DEF ListUploads, SkipFresh, PageEnds
  <2>3. StaleInv' /\ (Own \in uploads => Own \in uploads')
    BY <1>1, <1>10, <2>2, ListUploadsKeeps, SkipFreshKeeps, AbortKeeps, PageEndsKeeps
  <2> QED BY <1>1, <1>3, <2>1, <2>3, StoreKept, PubKeptByOthers, ColKeptByOthers, UpKeptByOthers,
             DownKeptByOthers DEF ArtifactInv
<1>11. CASE UNCHANGED vars
  <2>1. UNCHANGED <<blobs, manifests, uploads, file, pub, col, up, stale, down>>
    BY <1>11 DEF vars
  <2> QED BY <1>1, <1>2, <1>3, <1>4, <2>1, PubKeptByOthers, ColKeptByOthers, DownKeptByOthers
<1> QED BY <1>5, <1>6, <1>7, <1>8, <1>9, <1>10, <1>11 DEF Next

LEMMA ArtifactsKept == Scenes => []ArtifactInv
<1>1. ScenesInit => ArtifactInv
  BY InitArtifactInv DEF ScenesInit
<1>2. ArtifactInv /\ [ScenesNext]_all => ArtifactInv'
  <2>1. [ScenesNext]_all => [Next]_vars
    BY DEF ScenesNext, all
  <2> QED BY <2>1, NextArtifactInv
<1> QED BY <1>1, <1>2, PTL DEF Scenes

(* A visible manifest of the live set has its payload, what is stored under a  *)
(* digest and what a successful download wrote are the bytes of that digest,   *)
(* for any tenant, objects, publishers and interleaving of the actors          *)
(* (publish_manifest_last, snapshot_verified, download_verified).              *)
THEOREM ManifestsKept == Scenes => []ManifestsHavePayloads
<1>1. ArtifactInv => ManifestsHavePayloads
  <2> SUFFICES ASSUME ArtifactInv PROVE ManifestsHavePayloads
    OBVIOUS
  <2>1. StoreInv /\ PubInv /\ ColInv /\ UpInv /\ StaleInv /\ DownInv
    BY DEF ArtifactInv
  <2>2. /\ \A k \in DOMAIN blobs : blobs[k] \in Halves
        /\ manifests \subseteq Digests /\ file \in Halves
        /\ Len(up.copy) <= 2 /\ Len(down.body) + Len(down.written) <= 2
    BY <2>1 DEF StoreInv, PubInv, UpInv, DownInv
  <2>3. \A p \in Publishers : pub[p].tries <= MaxAttempts
    BY <2>1, UploadConstants DEF PubInv, PublicationStates
  <2>4. col.cursor \in 0..Max(Digests) /\ col.tries <= MaxAttempts
    BY <2>1, UploadConstants DEF ColInv, CollectionStates
  <2>5. stale.pages <= MaxPages /\ stale.tries <= MaxAttempts
    BY <2>1, UploadConstants DEF StaleInv, PassStates
  <2>6. TypeOK
    BY <2>2, <2>3, <2>4, <2>5 DEF TypeOK
  <2> QED BY <2>1, <2>6 DEF ManifestsHavePayloads, StoreInv, PubInv, DownInv
<1> QED BY <1>1, ArtifactsKept, PTL

(* A collection removes what is not live of its tenant and nothing else, and   *)
(* all of it when it succeeds; so does the pass over stale uploads, and counts *)
(* each once (collect_unreferenced, abort_stale_multipart), for any page and   *)
(* batch size.                                                                 *)
THEOREM SweepsExact == Scenes => []SweepsAreExact
<1>1. ArtifactInv => SweepsAreExact
  <2> SUFFICES ASSUME ArtifactInv PROVE SweepsAreExact
    OBVIOUS
  <2>1. StoreInv /\ ColInv /\ UpInv /\ StaleInv
    BY DEF ArtifactInv
  <2>2. OwnUpload = Own
    BY <2>1, OwnUploadIsOwn
  <2>3. StalePassIsExact
    BY <2>1, <2>2 DEF StalePassIsExact, StaleInv, UpInv
  <2> QED BY <2>1, <2>3, CollectionExact DEF SweepsAreExact
<1> QED BY <1>1, ArtifactsKept, PTL

-------------------------------------------------------------------------------
(* Documents.  A parser has looked at its body or not; a writer is where its   *)
(* writes end, within the maximum, and stopped before the write that passes it. *)
ParseInv ==
    /\ job \in [kind : {"parse"}, parser : BX!Parsers, body : Bodies]
    /\ outcome \in {"none", BX!Parsed(job.body, job.parser)}
    /\ written = 0 /\ exceeded = FALSE

WriteInv ==
    /\ job \in [kind : {"serialize"}, ends : Documents, done : Nat]
    /\ job.done <= Len(job.ends)
    /\ written = BX!End(job.ends, job.done) /\ written \in 0..Maximum
    /\ outcome \in {"none", "Complete", "Oversized"} /\ exceeded \in BOOLEAN
    /\ exceeded <=> outcome = "Oversized"
    /\ outcome = "Complete" => job.done = Len(job.ends)
    /\ outcome = "Oversized" =>
          job.done < Len(job.ends) /\ BX!End(job.ends, job.done + 1) > Maximum

DocumentInv == ParseInv \/ WriteInv

LEMMA XmlConstants ==
    /\ Maximum \in Nat /\ MaxPart \in Nat
    /\ \A b \in Bodies : b.fields.numbers \in Seq(Nat)
    /\ \A d \in Documents : d \in Seq(Nat) /\ \A i, j \in 1..Len(d) : i <= j => d[i] <= d[j]
BY ListingsAssumption DEF BX!XmlAssumption

LEMMA DocumentEnds ==
    ASSUME NEW d \in Documents, NEW n \in 0..Len(d)
    PROVE  /\ BX!End(d, n) \in Nat /\ Len(d) \in Nat
           /\ BX!End(d, n) <= BX!End(d, Len(d))
BY XmlConstants DEF BX!End

LEMMA InitDocumentInv == ASSUME BX!Init PROVE DocumentInv
<1>1. outcome = "none" /\ written = 0 /\ exceeded = FALSE
  BY DEF BX!Init
<1>2. CASE job \in [kind : {"parse"}, parser : BX!Parsers, body : Bodies]
  BY <1>1, <1>2 DEF ParseInv, DocumentInv
<1>3. CASE job \in [kind : {"serialize"}, ends : Documents, done : {0}]
  <2>1. /\ job \in [kind : {"serialize"}, ends : Documents, done : Nat]
        /\ job.done = 0 /\ job.ends \in Seq(Nat)
    BY <1>3, XmlConstants
  <2>2. BX!End(job.ends, job.done) = 0 /\ 0 <= Len(job.ends)
    BY <2>1 DEF BX!End
  <2>3. exceeded \in BOOLEAN /\ ~exceeded
    BY <1>1, Zenon
  <2>4. outcome = "none" /\ written = 0 /\ 0 \in 0..Maximum
    BY <1>1, XmlConstants
  <2> QED BY <2>1, <2>2, <2>3, <2>4 DEF WriteInv, DocumentInv
<1> QED BY <1>2, <1>3 DEF BX!Init

LEMMA NextDocumentInv == ASSUME DocumentInv, [BX!Next]_BX!vars PROVE DocumentInv'
<1>1. CASE ParseInv /\ BX!Parse
  <2>1. outcome' = BX!Parsed(job.body, job.parser) /\ UNCHANGED <<job, written, exceeded>>
    BY <1>1 DEF BX!Parse
  <2> QED BY <1>1, <2>1 DEF ParseInv, DocumentInv
<1>2. CASE WriteInv /\ BX!write_str
  <2> DEFINE length == BX!NewLength
  <2>1. /\ job \in [kind : {"serialize"}, ends : Documents, done : Nat]
        /\ outcome = "none" /\ job.done < Len(job.ends)
        /\ written = BX!End(job.ends, job.done) /\ exceeded \in BOOLEAN /\ ~exceeded /\ written \in 0..Maximum
    BY <1>2 DEF WriteInv, BX!write_str
  <2>2. job.ends \in Documents /\ job.done \in Nat
    BY <2>1
  <2>3. Len(job.ends) \in Nat
    BY <2>2, XmlConstants
  <2>4. job.done \in 0..Len(job.ends) /\ job.done + 1 \in 0..Len(job.ends)
    BY <2>1, <2>2, <2>3
  <2>5. BX!End(job.ends, job.done) \in Nat /\ BX!End(job.ends, job.done + 1) \in Nat
    BY <2>2, <2>4, DocumentEnds
  <2>6. length = BX!End(job.ends, job.done + 1)
    BY <2>1, <2>5 DEF BX!NewLength
  <2> HIDE DEF length
  <2>7. CASE length > Maximum
    <3>1. exceeded' = TRUE /\ outcome' = "Oversized" /\ UNCHANGED <<job, written>>
      BY <1>2, <2>7 DEF BX!write_str, length
    <3> QED BY <2>1, <2>2, <2>3, <2>6, <2>7, <3>1 DEF WriteInv, DocumentInv
  <2>8. CASE ~(length > Maximum)
    <3> DEFINE done == job.done + 1
    <3>1. written' = length /\ job' = [job EXCEPT !.done = done] /\ UNCHANGED <<outcome, exceeded>>
      BY <1>2, <2>8 DEF BX!write_str, length
    <3>2. done \in Nat /\ done <= Len(job.ends) /\ length = BX!End(job.ends, done)
          /\ length \in 0..Maximum
      BY <2>2, <2>4, <2>5, <2>6, <2>8, XmlConstants
    <3> HIDE DEF done
    <3>3. /\ job' \in [kind : {"serialize"}, ends : Documents, done : Nat]
          /\ job'.done = done /\ job'.ends = job.ends
      BY <2>1, <3>1, <3>2
    <3> QED BY <2>1, <3>1, <3>2, <3>3 DEF WriteInv, DocumentInv
  <2> QED BY <2>7, <2>8
<1>3. CASE WriteInv /\ BX!Serialized
  <2>1. outcome = "none" /\ job.done = Len(job.ends) /\ outcome' = "Complete"
        /\ UNCHANGED <<job, written, exceeded>>
    BY <1>3 DEF BX!Serialized
  <2> QED BY <1>3, <2>1 DEF WriteInv, DocumentInv
<1>4. CASE UNCHANGED BX!vars
  BY <1>4 DEF BX!vars, ParseInv, WriteInv, DocumentInv
<1>5. (ParseInv => job.kind = "parse") /\ (WriteInv => job.kind = "serialize")
  BY DEF ParseInv, WriteInv
<1>6. (BX!Parse => job.kind = "parse") /\ (BX!write_str \/ BX!Serialized => job.kind = "serialize")
  BY DEF BX!Parse, BX!write_str, BX!Serialized
<1> QED BY <1>1, <1>2, <1>3, <1>4, <1>5, <1>6 DEF DocumentInv, BX!Next

(* Numbers that ascend from each to the next ascend from each to all later     *)
(* ones: the first that did not would not follow the one before it.            *)
LEMMA AscendingThroughout ==
    ASSUME NEW s \in Seq(Nat), \A i \in 1..Len(s) - 1 : s[i] < s[i + 1],
           NEW i \in DOMAIN s, NEW j \in DOMAIN s, i < j
    PROVE  s[i] < s[j]
<1> DEFINE Wrong == {k \in DOMAIN s : i < k /\ ~(s[i] < s[k])}
<1>1. DOMAIN s = 1..Len(s) /\ Len(s) \in Nat /\ \A k \in 1..Len(s) : s[k] \in Nat
  OBVIOUS
<1>2. SUFFICES ASSUME Wrong # {} PROVE FALSE
  OBVIOUS
<1>3. Wrong \subseteq Nat
  BY <1>1
<1>4. PICK k \in Wrong : \A n \in Wrong : ~(<<n, k>> \in OpToRel(<, Nat))
  <2> HIDE DEF Wrong
  <2> QED BY <1>2, <1>3, NatLessThanWellFounded, WFMin, Zenon
<1>5. \A n \in Wrong : ~(n < k)
  BY <1>3, <1>4 DEF OpToRel
<1>6. k \in 1..Len(s) /\ i \in 1..Len(s) /\ i < k /\ ~(s[i] < s[k])
  BY <1>1
<1>7. k - 1 \in 1..Len(s) - 1 /\ s[k - 1] < s[(k - 1) + 1] /\ (k - 1) + 1 = k
  BY <1>1, <1>6
<1>8. s[k - 1] < s[k]
  BY <1>7
<1>9. CASE k - 1 = i
  BY <1>6, <1>8, <1>9
<1>10. CASE k - 1 # i
  <2>1. k - 1 \in DOMAIN s /\ i < k - 1 /\ k - 1 \notin Wrong
    BY <1>1, <1>5, <1>6, <1>7, <1>10
  <2>2. s[i] < s[k - 1]
    BY <2>1
  <2>3. s[i] \in Nat /\ s[k - 1] \in Nat /\ s[k] \in Nat
    BY <1>1, <1>6, <2>1
  <2> QED BY <1>6, <1>8, <2>2, <2>3
<1> QED BY <1>9, <1>10

(* What a parser can answer. *)
LEMMA Answers ==
    ASSUME NEW body, NEW parser
    PROVE  /\ BX!Parsed(body, parser) \in {"Oversized", "InvalidXml", "InvalidField", "EmbeddedError", "Complete"}
           /\ BX!Parsed(body, parser) = "EmbeddedError" =>
                 /\ parser \in BX!Embedding /\ BX!expect_root(body, "Error")
           /\ BX!Parsed(body, parser) = "Complete" =>
                 /\ BX!expect_root(body, BX!Root[parser])
                 /\ BX!FieldsAreValid(parser, body.fields)
           /\ /\ parser \in BX!Embedding /\ BX!root_is_error(body) = {TRUE}
              /\ BX!expect_root(body, "Error") /\ BX!parse_bounded(body, "parse_s3_error")
              => BX!Parsed(body, parser) = "EmbeddedError"
<1> DEFINE embedded == parser \in BX!Embedding /\ BX!root_is_error(body) = {TRUE}
           error == BX!expect_root(body, "Error") /\ BX!parse_bounded(body, "parse_s3_error")
           accepted == /\ parser \in BX!Embedding => BX!root_is_error(body) # {}
                       /\ BX!expect_root(body, BX!Root[parser])
                       /\ BX!parse_bounded(body, parser)
                       /\ BX!FieldsAreValid(parser, body.fields)
           r1 == BX!Refusal(body, "parse_s3_error", "Error")
           r2 == BX!Refusal(body, parser, BX!Root[parser])
<1>1. BX!Parsed(body, parser) = IF embedded THEN IF error THEN "EmbeddedError" ELSE r1
                                ELSE IF accepted THEN "Complete" ELSE r2
  BY Zenon DEF BX!Parsed
<1>2. ASSUME NEW p, NEW root PROVE BX!Refusal(body, p, root) \in {"Oversized", "InvalidXml", "InvalidField"}
  BY DEF BX!Refusal
<1>3. r1 \in {"Oversized", "InvalidXml", "InvalidField"} /\ r2 \in {"Oversized", "InvalidXml", "InvalidField"}
  BY <1>2
<1>4. /\ embedded => parser \in BX!Embedding
      /\ error => BX!expect_root(body, "Error")
      /\ accepted => BX!expect_root(body, BX!Root[parser]) /\ BX!FieldsAreValid(parser, body.fields)
      /\ (/\ parser \in BX!Embedding /\ BX!root_is_error(body) = {TRUE}
          /\ BX!expect_root(body, "Error") /\ BX!parse_bounded(body, "parse_s3_error")) => embedded /\ error
  BY Zenon
<1> HIDE DEF embedded, error, accepted, r1, r2
<1> QED BY <1>1, <1>3, <1>4

LEMMA RootFound ==
    ASSUME NEW body, NEW root, BX!expect_root(body, root)
    PROVE  body.root = {root} /\ body.declared = "no"
BY DEF BX!expect_root, BX!FirstRoot, BX!reject_dangerous_declarations

LEMMA ParsedAsMeant ==
    ASSUME ParseInv
    PROVE  /\ BX!TypeOK
           /\ BX!ErrorsAreNeverResults /\ BX!EmbeddedErrorsAreRead /\ BX!DeclarationsAreRefused
           /\ BX!ListedPartsCanBeCompleted
           /\ BX!DocumentsAreWhole
<1> DEFINE body == job.body
           parser == job.parser
           answer == BX!Parsed(body, parser)
<1>1. /\ job.kind = "parse" /\ body \in Bodies /\ parser \in BX!Parsers
      /\ outcome \in {"none", answer} /\ written = 0 /\ exceeded = FALSE
  BY DEF ParseInv
<1>2. /\ answer \in {"Oversized", "InvalidXml", "InvalidField", "EmbeddedError", "Complete"}
      /\ answer = "EmbeddedError" => BX!expect_root(body, "Error")
      /\ answer = "Complete" =>
            BX!expect_root(body, BX!Root[parser]) /\ BX!FieldsAreValid(parser, body.fields)
  BY Answers
<1>3. BX!TypeOK
  <2>1. written \in 0..Maximum
    BY <1>1, XmlConstants
  <2>2. exceeded \in BOOLEAN
    BY <1>1, Zenon
  <2> HIDE DEF answer
  <2> QED BY <1>1, <1>2, <2>1, <2>2 DEF BX!TypeOK
<1>4. BX!ErrorsAreNeverResults /\ BX!DeclarationsAreRefused
  <2>1. /\ answer = "EmbeddedError" => body.root = {"Error"} /\ body.declared = "no"
        /\ answer = "Complete" => body.root = {BX!Root[parser]} /\ body.declared = "no"
    BY <1>2, RootFound
  <2> QED BY <1>1, <2>1 DEF BX!ErrorsAreNeverResults, BX!DeclarationsAreRefused
<1>5. BX!EmbeddedErrorsAreRead
  <2> SUFFICES ASSUME outcome # "none", parser \in BX!Embedding, body.root = {"Error"},
                      body.size <= Maximum, body.utf8, body.wellFormed,
                      body.declared = "no", BX!Range(body.prolog) \subseteq BX!Skipped
               PROVE  answer = "EmbeddedError"
    BY <1>1 DEF BX!EmbeddedErrorsAreRead
  <2>1. BX!FirstRoot(body) = {"Error"}
    BY DEF BX!FirstRoot
  <2>2. BX!root_is_error(body) = {TRUE}
    BY <2>1 DEF BX!root_is_error
  <2>3. BX!expect_root(body, "Error")
    BY <2>1 DEF BX!expect_root, BX!reject_dangerous_declarations
  <2>4. BX!parse_bounded(body, "parse_s3_error")
    BY DEF BX!parse_bounded, BX!reject_dangerous_declarations, BX!Required
  <2> QED BY <2>2, <2>3, <2>4, Answers
<1>6. BX!ListedPartsCanBeCompleted
  <2> DEFINE numbers == body.fields.numbers
  <2> SUFFICES ASSUME parser = "parse_list_parts", outcome = "Complete"
               PROVE  /\ \A i, j \in DOMAIN numbers : i < j => numbers[i] < numbers[j]
                      /\ BX!Range(numbers) \subseteq 1..MaxPart
    BY DEF BX!ListedPartsCanBeCompleted
  <2>1. BX!FieldsAreValid(parser, body.fields)
    BY <1>1, <1>2
  <2>2. BX!PartsAreValid(body.fields)
    BY <2>1 DEF BX!FieldsAreValid
  <2>3. BX!Range(numbers) \subseteq 1..MaxPart /\ \A i \in 1..Len(numbers) - 1 : numbers[i] < numbers[i + 1]
    BY <2>2 DEF BX!PartsAreValid, BX!Ascending
  <2>4. numbers \in Seq(Nat)
    BY <1>1, XmlConstants
  <2> HIDE DEF numbers
  <2> QED BY <2>3, <2>4, AscendingThroughout
<1>7. BX!DocumentsAreWhole
  BY <1>1 DEF BX!DocumentsAreWhole
<1> QED BY <1>3, <1>4, <1>5, <1>6, <1>7

LEMMA WrittenAsMeant ==
    ASSUME WriteInv
    PROVE  /\ BX!TypeOK
           /\ BX!ErrorsAreNeverResults /\ BX!EmbeddedErrorsAreRead /\ BX!DeclarationsAreRefused
           /\ BX!ListedPartsCanBeCompleted
           /\ BX!DocumentsAreWhole
<1>1. job.kind = "serialize" /\ job.ends \in Documents /\ job.done \in Nat
  BY DEF WriteInv
<1>2. BX!TypeOK
  BY DEF WriteInv, BX!TypeOK
<1>3. BX!ErrorsAreNeverResults /\ BX!EmbeddedErrorsAreRead /\ BX!DeclarationsAreRefused
      /\ BX!ListedPartsCanBeCompleted
  BY <1>1 DEF BX!ErrorsAreNeverResults, BX!EmbeddedErrorsAreRead, BX!DeclarationsAreRefused,
              BX!ListedPartsCanBeCompleted
<1>4. outcome = "Oversized" => BX!End(job.ends, Len(job.ends)) > Maximum
  <2> SUFFICES ASSUME outcome = "Oversized" PROVE BX!End(job.ends, Len(job.ends)) > Maximum
    OBVIOUS
  <2>1. job.done < Len(job.ends) /\ BX!End(job.ends, job.done + 1) > Maximum
    BY DEF WriteInv
  <2>2. Len(job.ends) \in Nat
    BY <1>1, XmlConstants
  <2>3. job.done + 1 \in 0..Len(job.ends) /\ Len(job.ends) \in 0..Len(job.ends)
    BY <1>1, <2>1, <2>2
  <2>4. /\ BX!End(job.ends, job.done + 1) \in Nat /\ BX!End(job.ends, Len(job.ends)) \in Nat
        /\ BX!End(job.ends, job.done + 1) <= BX!End(job.ends, Len(job.ends))
    BY <1>1, <2>3, DocumentEnds
  <2> QED BY <2>1, <2>4, XmlConstants
<1>5. BX!DocumentsAreWhole
  BY <1>4 DEF BX!DocumentsAreWhole, WriteInv
<1> QED BY <1>2, <1>3, <1>5

LEMMA ScenesDocuments == Scenes => [](scene = "xml" => DocumentInv)
<1>1. ScenesInit => (scene = "xml" => DocumentInv)
  BY InitDocumentInv DEF ScenesInit
<1>2. (scene = "xml" => DocumentInv) /\ [ScenesNext]_all => (scene = "xml" => DocumentInv)'
  <2>1. [ScenesNext]_all => UNCHANGED scene /\ (scene = "xml" => [BX!Next]_BX!vars)
    BY DEF ScenesNext, all, xml, BX!vars
  <2> QED BY <2>1, NextDocumentInv
<1> QED BY <1>1, <1>2, PTL DEF Scenes

(* An error is never taken for a result and one inside a 200 is read as such, *)
(* declarations are refused, the parts of a listing can be completed, and a    *)
(* document is written whole or not at all, whatever the bodies, the documents *)
(* and the bounds (protocol/xml.rs, protocol/multipart/).                      *)
THEOREM DocumentsRead == Scenes => []DocumentsAreReadAsMeant
<1>1. (scene = "xml" => DocumentInv) => DocumentsAreReadAsMeant
  BY ParsedAsMeant, WrittenAsMeant, Zenon DEF DocumentInv, DocumentsAreReadAsMeant
<1> QED BY <1>1, ScenesDocuments, PTL
===============================================================================
