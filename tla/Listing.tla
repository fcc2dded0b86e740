-------------------------------- MODULE Listing --------------------------------
(***************************************************************************)
(* The loops that page through a listing: list_objects_v2_all              *)
(* (client/object/listing.rs), list_parts_all and                          *)
(* list_multipart_uploads_all (client/multipart/listing.rs).               *)
(*                                                                         *)
(* Entries are numbered in listing order, and a marker is the number of    *)
(* the entry it stands behind: a continuation token, a part number, or a   *)
(* key with its upload ID.  0 is no marker.  Other clients add and remove  *)
(* entries between two pages.  The service is sound, or it answers with    *)
(* any markers.                                                            *)
(***************************************************************************)
EXTENDS Integers, Sequences, FiniteSets

CONSTANTS
    LastEntry,      \* bound: the number of the last entry
    PageSize,       \* max_keys, max_parts or max_uploads
    MaxPages,       \* bound: maximum_pages
    MaxChanges      \* bound: entries added and removed during the listing

(* What the constants have to be. *)
ListingAssumption ==
    /\ LastEntry \in Nat \ {0}
    /\ PageSize \in Nat \ {0}
    /\ MaxPages \in Nat
    /\ MaxChanges \in Nat

VARIABLES
    kind,        \* which of the loops
    sound,       \* the service lists its entries
    maximum,     \* maximum_pages
    start,       \* the entry behind which the caller wants the listing
    startAfter,  \* ListObjectsV2Request::start_after
    marker,      \* continuation_token, part_number_marker or key_marker
    seen,        \* the markers in the HashSet
    pages,       \* the pages that were pushed
    result,      \* what the caller got
    store,       \* service: the entries
    changes,     \* changes other clients made
    asked,       \* history: the markers of the page requests
    stable,      \* history: entries that were there all the time
    ever         \* history: entries that were there at some time

caller == <<kind, sound, maximum, start>>
loop == <<startAfter, marker, seen, pages, result, asked>>
entries == <<store, changes, stable, ever>>
vars == <<caller, loop, entries>>

Kinds == {"objects", "parts", "uploads"}
Entries == 1..LastEntry
Markers == 0..LastEntry
Pages == [keys : SUBSET Entries, truncated : BOOLEAN, next : Markers]

(* The caller begins at a marker, or names an object behind which to begin.  *)
Init ==
    /\ kind \in Kinds /\ sound \in BOOLEAN
    /\ maximum \in 0..MaxPages
    /\ start \in Markers
    /\ \/ marker = start /\ startAfter = 0
       \/ kind = "objects" /\ marker = 0 /\ startAfter = start
    /\ seen = IF marker = 0 THEN {} ELSE {marker}
    /\ pages = <<>> /\ result = "none" /\ asked = <<>>
    /\ store \in SUBSET Entries
    /\ changes = 0 /\ stable = store /\ ever = store

-------------------------------------------------------------------------------
(* Where the page that is asked for begins. *)
Position == IF marker # 0 THEN marker ELSE startAfter

(* External: what a sound service may answer.  It stops before PageSize is   *)
(* exceeded, possibly earlier, and behind the last entry it looked at.       *)
SoundPages ==
    {page \in {[keys |-> {k \in store : Position < k /\ k <= last},
                truncated |-> \E k \in store : k > last,
                next |-> IF \E k \in store : k > last THEN last ELSE 0] :
                  last \in Position..LastEntry} :
        /\ Cardinality(page.keys) <= PageSize
        /\ page.truncated => page.next > Position}

(* External: what any other service may answer; no loop looks at the entries. *)
UnsoundPages == [keys : {{}}, truncated : BOOLEAN, next : Markers]

(* Mutant of Repeated: only the preceding marker is compared. *)
RepeatedLast(next) == next = marker \/ (kind = "parts" /\ marker # 0 /\ next <= marker)

(* seen.insert is false, or the part number does not advance. *)
Repeated(next) == next \in seen \/ (kind = "parts" /\ marker # 0 /\ next <= marker)

Return(how) == result' = how /\ UNCHANGED <<startAfter, marker, seen>>

(* Mutant of TurnPage: the page bound returns what there is. *)
TurnPageShort(page) ==
    IF ~page.truncated THEN Return("ok")
    ELSE IF page.next = 0 \/ Repeated(page.next) THEN Return("malformed")
    ELSE /\ marker' = page.next
         /\ startAfter' = 0
         /\ seen' = seen \cup {page.next}
         /\ result' = IF Len(pages) + 1 = maximum THEN "ok" ELSE "none"

(* The rest of the loop body for the page that was pushed, and the end of    *)
(* the loop after the last permitted page.                                   *)
TurnPage(page) ==
    IF ~page.truncated THEN Return("ok")
    ELSE IF page.next = 0 \/ Repeated(page.next) THEN Return("malformed")
    ELSE /\ marker' = page.next
         /\ startAfter' = 0
         /\ seen' = seen \cup {page.next}
         /\ result' = IF Len(pages) + 1 = maximum THEN "limit" ELSE "none"

(* maximum_pages is zero. *)
RejectBound ==
    /\ result = "none" /\ maximum = 0
    /\ Return("configuration")
    /\ UNCHANGED <<caller, entries, pages, asked>>

(* One round of the loop: the request with its retries, and its page. *)
ReceivePage(page) ==
    /\ result = "none" /\ maximum > 0
    /\ asked' = Append(asked, marker)
    /\ pages' = Append(pages, page)
    /\ TurnPage(page)
    /\ UNCHANGED <<caller, entries>>

(* The request fails, the deadline that all pages share has passed, or the   *)
(* response can not be parsed.                                               *)
PageFails ==
    /\ result = "none" /\ maximum > 0
    /\ asked' = Append(asked, marker)
    /\ Return("failed")
    /\ UNCHANGED <<caller, entries, pages>>

(* External: other clients. *)
AddEntry(k) ==
    /\ k \notin store /\ changes < MaxChanges
    /\ store' = store \cup {k} /\ ever' = ever \cup {k}
    /\ changes' = changes + 1
    /\ UNCHANGED <<caller, loop, stable>>

RemoveEntry(k) ==
    /\ k \in store /\ changes < MaxChanges
    /\ store' = store \ {k} /\ stable' = stable \ {k}
    /\ changes' = changes + 1
    /\ UNCHANGED <<caller, loop, ever>>

Next ==
    \/ RejectBound \/ PageFails
    \/ sound /\ \E page \in SoundPages : ReceivePage(page)
    \/ ~sound /\ \E page \in UnsoundPages : ReceivePage(page)
    \/ \E k \in Entries : AddEntry(k) \/ RemoveEntry(k)

Spec == Init /\ [][Next]_vars
-------------------------------------------------------------------------------
(* Every variable has its type. *)
TypeOK ==
    /\ kind \in Kinds /\ sound \in BOOLEAN
    /\ maximum \in 0..MaxPages
    /\ start \in Markers /\ startAfter \in Markers /\ marker \in Markers
    /\ seen \subseteq Entries
    /\ pages \in Seq(Pages) /\ asked \in Seq(Markers)
    /\ result \in {"none", "ok", "malformed", "limit", "failed", "configuration"}
    /\ store \subseteq Entries /\ stable \subseteq store /\ store \subseteq ever
    /\ ever \subseteq Entries
    /\ changes \in 0..MaxChanges

(* No page is asked for twice, whatever markers the service returns in       *)
(* whatever order: "rejecting missing or repeating page tokens".             *)
NoPageAskedTwice ==
    \A i, j \in 1..Len(asked) : i # j => asked[i] # asked[j]

(* Within maximum_pages, all pages but the last are truncated; the last one  *)
(* decides: a listing that ends there is a success also when it has exactly  *)
(* maximum_pages pages, and no other listing is.                             *)
ResultMatchesPages ==
    /\ Len(pages) <= maximum
    /\ \A i \in 1..Len(pages) - 1 : pages[i].truncated
    /\ result \in {"ok", "malformed", "limit"} =>
          pages # <<>> /\ (result = "ok" <=> ~pages[Len(pages)].truncated)
    /\ result = "limit" => Len(pages) = maximum

(* With a sound service, pages have no entry twice, only entries that were   *)
(* there, and a successful listing has every entry behind the start that was *)
(* there all the time, whatever was added and removed between the pages.     *)
ListingIsExact ==
    sound =>
        /\ \A i, j \in 1..Len(pages) : i # j => pages[i].keys \cap pages[j].keys = {}
        /\ \A i \in 1..Len(pages) : pages[i].keys \subseteq ever
        /\ result = "ok" =>
              \A k \in stable : k > start => \E i \in 1..Len(pages) : k \in pages[i].keys
===============================================================================
