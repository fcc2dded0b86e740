---------------------------- MODULE ArtifactStore ----------------------------
(***************************************************************************)
(* The content-addressed, tenant-isolated artifact store built on the      *)
(* client (src/examples/artifact_store.rs, docs/sandboxd-integration.md):  *)
(* publications, a file upload, the collection of unreferenced blobs, the  *)
(* abort of stale multipart uploads and a verified download run at the     *)
(* same time against one bucket, each an actor with a step per request.    *)
(*                                                                         *)
(* The content of an object is its two halves, so that a copy can be torn; *)
(* SHA-256 of <<d, d>> is d, and no digest of the project is that of a     *)
(* torn content.  Every request may lose its answer, and is then sent      *)
(* again by the client at most MaxAttempts times.                          *)
(***************************************************************************)
EXTENDS Integers, Sequences, FiniteSets, SequencesExt, FiniteSetsExt

CONSTANTS
  Mine,            \* the tenant of the actors: a sequence of path segments
  Digests,         \* content digests, ordered as their texts are
  Publishers,      \* callers of publish_manifest_last
  Published,       \* what each of them publishes
  Uploaded,        \* the digest of the file upload
  Live,            \* the live set of the collection
  Crews,           \* the actors that may run together: publishers, collect, delete,
                   \* download, upload and abort
  Objects,         \* the objects at the start: tenant, digest, spelling and content
  Uploads,         \* the uploads at the start: tenant, digest, id and initiation
  OwnId,           \* the ID that the service gives to the multipart upload of the file
  Cutoff,          \* the cutoff of the stale-upload pass
  MaxAttempts,     \* attempts of the client at one request
  BatchLimit,      \* DELETE_BATCH_LIMIT
  PageSize,        \* uploads in a page of a multipart listing
  MaxPages         \* the page bound of the stale-upload pass

VARIABLES
  crew,       \* the actors that run
  blobs,      \* the payload objects: key -> content
  manifests,  \* the manifests present: the digest of the payload of each
  uploads,    \* the multipart uploads open at the service
  file,       \* the local file of the upload
  pub,        \* the publications
  col,        \* the collection
  up,         \* the file upload
  stale,      \* the stale-upload pass
  down        \* the download

vars == <<crew, blobs, manifests, uploads, file, pub, col, up, stale, down>>

-----------------------------------------------------------------------------
(* What the constants have to be.  Digests are numbered from one, in the order
   of their texts; a publisher has some bytes and names some digest; the service
   gives every upload an ID of its own and the time at which it began. *)
IsObject(o) ==
  /\ o.digest \in Digests /\ o.spelling \in {"lower", "upper", "other"}
  /\ o.content \in Digests \X Digests
IsUpload(u) ==
  /\ u.digest \in Digests /\ u.id \in Nat \ {OwnId}
  /\ u.initiated \subseteq Nat /\ \A t \in u.initiated : u.initiated = {t}

ArtifactAssumption ==
  /\ Digests \subseteq Nat \ {0} /\ \E last \in Digests : \A d \in Digests : d <= last
  /\ Uploaded \in Digests
  /\ \A p \in Publishers : /\ Published[p].digest \in Digests
                            /\ Published[p].content \in Digests \X Digests
  /\ IsFiniteSet(Objects) /\ \A o \in Objects : IsObject(o)
  /\ IsFiniteSet(Uploads) /\ \A u \in Uploads : IsUpload(u)
  /\ \A u, v \in Uploads : u.id = v.id => u = v
  /\ OwnId \in Nat
  /\ Cutoff \in Nat /\ MaxAttempts \in Nat \ {0} /\ BatchLimit \in Nat \ {0}
  /\ PageSize \in Nat \ {0} /\ MaxPages \in Nat

-----------------------------------------------------------------------------
(* Keys and digests. *)

\* The digest of the identifier is one segment, whatever the identifier holds.
tenant_prefix(tenant) == <<"tenants", tenant>>

blob_prefix(tenant) == tenant_prefix(tenant) \o <<"blobs", "sha256">>

\* The last segment of a key is a digest and how it is spelled.
Canonical(digest) == <<digest, "lower">>
blob_key(tenant, digest) == Append(blob_prefix(tenant), Canonical(digest))

InitialBlobs ==
  [k \in {Append(blob_prefix(o.tenant), <<o.digest, o.spelling>>) : o \in Objects} |->
     (CHOOSE o \in Objects : k = Append(blob_prefix(o.tenant), <<o.digest, o.spelling>>)).content]
InitialUploads ==
  {[key |-> blob_key(u.tenant, u.digest), id |-> u.id, initiated |-> u.initiated] : u \in Uploads}

\* ContentDigest::new: hexadecimal digits of either case, in lower case; {} is
\* InvalidDigest.
ContentDigest(suffix) ==
  IF Len(suffix) = 1 /\ suffix[1][2] \in {"lower", "upper"} THEN {suffix[1][1]}
  ELSE {}

Halves == Digests \X Digests
hex_sha256(content) == IF content[1] = content[2] THEN {content[1]} ELSE {}

\* verify_bytes.
Verified(digest, content) == hex_sha256(content) = {digest}

Present(key) == key \in DOMAIN blobs
Stored(key, content) == [k \in DOMAIN blobs \cup {key} |->
                           IF k = key THEN content ELSE blobs[k]]
Without(keys) == [k \in DOMAIN blobs \ keys |-> blobs[k]]

-----------------------------------------------------------------------------
Init ==
  /\ crew \in Crews
  /\ blobs = InitialBlobs
  /\ manifests = {}
  /\ uploads = InitialUploads
  /\ file = <<Uploaded, Uploaded>>
  /\ pub = [p \in Publishers |->
              [at |-> IF p \in crew THEN "verify" ELSE "idle", tries |-> 0, created |-> {}]]
  /\ col = [at |-> IF "collect" \in crew THEN "list" ELSE "idle",
            cursor |-> 0, doomed |-> <<>>, deleted |-> 0, tries |-> 0]
  /\ up = [at |-> IF "upload" \in crew THEN "exists" ELSE "idle",
           digest |-> Uploaded, copy |-> <<>>]
  /\ stale = [at |-> IF "abort" \in crew THEN "list" ELSE "idle",
              page |-> {}, truncated |-> FALSE, marker |-> <<0, 0>>,
              pages |-> 0, aborted |-> 0, tries |-> 0]
  /\ \E d \in Digests :
       down = [at |-> IF "download" \in crew THEN "get" ELSE "idle",
               digest |-> d, body |-> <<>>, written |-> <<>>]

-----------------------------------------------------------------------------
(* publish_manifest_last. *)

\* Mutant of AfterPut: the marker is published before its payload.
AfterPutReversed(at) ==
  CASE at = "verify" -> "manifest" [] at = "manifest" -> "blob" [] OTHER -> "ok"

\* The payload first, its marker last.
AfterPut(at) ==
  CASE at = "verify" -> "blob" [] at = "blob" -> "manifest" [] OTHER -> "ok"

\* verify_bytes of the payload; that of the manifest is alike.
Verify(p) ==
  /\ pub[p].at = "verify"
  /\ pub' = [pub EXCEPT ![p].at =
               IF Verified(Published[p].digest, Published[p].content)
               THEN AfterPut("verify") ELSE "mismatch"]
  /\ UNCHANGED <<blobs, manifests, uploads, file, col, up, stale, down>>

\* The conditional write of an attempt reaches the service: the object is
\* stored when there is none.
PutTakesEffect(p) ==
  /\ pub[p].at \in {"blob", "manifest"}
  /\ IF pub[p].at = "blob"
     THEN /\ blobs' = IF Present(blob_key(Mine, Published[p].digest)) THEN blobs
                      ELSE Stored(blob_key(Mine, Published[p].digest),
                                  Published[p].content)
          /\ UNCHANGED manifests
     ELSE /\ manifests' = manifests \cup {Published[p].digest}
          /\ UNCHANGED blobs

Creates(p) ==
  IF pub[p].at = "blob" THEN ~Present(blob_key(Mine, Published[p].digest))
  ELSE Published[p].digest \notin manifests

\* put_immutable is answered: created, or the precondition failed.
PutAnswered(p) ==
  /\ PutTakesEffect(p)
  /\ pub' = [pub EXCEPT ![p].at = AfterPut(@), ![p].tries = 0,
                        ![p].created = IF Creates(p) THEN @ \cup {pub[p].at} ELSE @]
  /\ UNCHANGED <<uploads, file, col, up, stale, down>>

\* An attempt fails, with or without its effect at the service; the client
\* tries again or returns the error.
PutFails(p) ==
  /\ pub[p].at \in {"blob", "manifest"}
  /\ PutTakesEffect(p) \/ UNCHANGED <<blobs, manifests>>
  /\ pub' = [pub EXCEPT ![p].tries = @ + 1,
               ![p].at = IF pub[p].tries + 1 < MaxAttempts THEN @ ELSE "failed"]
  /\ UNCHANGED <<uploads, file, col, up, stale, down>>

-----------------------------------------------------------------------------
(* collect_unreferenced. *)

\* The keys of the bucket a listing of a prefix has.
Under(prefix) == {k \in DOMAIN blobs : IsStrictPrefix(prefix, k)}
Suffix(key) == SubSeq(key, Len(blob_prefix(Mine)) + 1, Len(key))

Unreferenced(key) == \E d \in ContentDigest(Suffix(key)) : d \notin Live

\* The next page of the listing, of the keys with one digest, in their order.
ListBlobs ==
  /\ col.at = "list"
  /\ LET digest == col.cursor + 1
         page == {k \in Under(blob_prefix(Mine)) : Last(k)[1] = digest}
     IN  col' = [col EXCEPT !.cursor = digest,
                   !.doomed = @ \o SetToSeq({k \in page : Unreferenced(k)}),
                   !.at = IF digest = Max(Digests) THEN "delete" ELSE "list"]
  /\ UNCHANGED <<blobs, manifests, uploads, file, pub, up, stale, down>>

Batch == SubSeq(col.doomed, 1, IF Len(col.doomed) < BatchLimit
                               THEN Len(col.doomed) ELSE BatchLimit)

\* Mutant of BatchAnswered: a batch is deleted whatever its answer says.
BatchAnsweredBlindly ==
  /\ col.at = "delete" /\ col.doomed # <<>>
  /\ \E gone \in SUBSET Range(Batch) : blobs' = Without(gone)
  /\ col' = [col EXCEPT !.doomed = SubSeq(@, Len(Batch) + 1, Len(@)),
               !.deleted = @ + Len(Batch), !.tries = 0]
  /\ UNCHANGED <<manifests, uploads, file, pub, up, stale, down>>

\* A batch is answered: each of its keys is gone, or has an error.
BatchAnswered ==
  /\ col.at = "delete" /\ col.doomed # <<>>
  /\ \E gone \in SUBSET Range(Batch) :
       /\ blobs' = Without(gone)
       /\ col' = IF gone # Range(Batch) THEN [col EXCEPT !.at = "failed"]
                 ELSE [col EXCEPT !.doomed = SubSeq(@, Len(Batch) + 1, Len(@)),
                         !.deleted = @ + Len(Batch), !.tries = 0]
  /\ UNCHANGED <<manifests, uploads, file, pub, up, stale, down>>

\* The answer of a batch is lost; deletion is sent again, or the error returned.
BatchLost ==
  /\ col.at = "delete" /\ col.doomed # <<>>
  /\ \E gone \in SUBSET Range(Batch) : blobs' = Without(gone)
  /\ col' = [col EXCEPT !.tries = @ + 1,
               !.at = IF col.tries + 1 < MaxAttempts THEN @ ELSE "failed"]
  /\ UNCHANGED <<manifests, uploads, file, pub, up, stale, down>>

CollectEnds ==
  /\ col.at = "delete" /\ col.doomed = <<>>
  /\ col' = [col EXCEPT !.at = "ok"]
  /\ UNCHANGED <<blobs, manifests, uploads, file, pub, up, stale, down>>

-----------------------------------------------------------------------------
(* upload_file_until. *)

\* Another process writes to the local file.
Edit ==
  /\ up.at \in {"exists", "snapshot"}
  /\ \E d \in Digests : file' = <<d, d>>
  /\ UNCHANGED <<blobs, manifests, uploads, pub, col, up, stale, down>>

\* Anything but an answer to exists is the caller's error.
Exists ==
  /\ up.at = "exists"
  /\ \E at \in {IF Present(blob_key(Mine, up.digest)) THEN "ok" ELSE "snapshot",
                "failed"} : up' = [up EXCEPT !.at = at]
  /\ UNCHANGED <<blobs, manifests, uploads, file, pub, col, stale, down>>

\* One buffer of snapshot_verified.
CopyBuffer ==
  /\ up.at = "snapshot" /\ Len(up.copy) < 2
  /\ up' = [up EXCEPT !.copy = Append(@, file[Len(@) + 1])]
  /\ UNCHANGED <<blobs, manifests, uploads, file, pub, col, stale, down>>

\* Mutant of CheckSnapshot: the digest is that of the file, not of the copy.
CheckSnapshotOfFile ==
  /\ up.at = "snapshot" /\ Len(up.copy) = 2
  /\ up' = [up EXCEPT !.at = IF Verified(up.digest, file) THEN "create"
                             ELSE "mismatch"]
  /\ UNCHANGED <<blobs, manifests, uploads, file, pub, col, stale, down>>

CheckSnapshot ==
  /\ up.at = "snapshot" /\ Len(up.copy) = 2
  /\ up' = [up EXCEPT !.at = IF Verified(up.digest, up.copy) THEN "create"
                             ELSE "mismatch"]
  /\ UNCHANGED <<blobs, manifests, uploads, file, pub, col, stale, down>>

\* The upload of this actor, initiated after the cutoff.
OwnUpload == [key |-> blob_key(Mine, up.digest), id |-> OwnId, initiated |-> {Cutoff + 1}]

\* The managed upload (ManagedMultipart) creates its upload.
CreateUpload ==
  /\ up.at = "create"
  /\ uploads' = uploads \cup {OwnUpload}
  /\ up' = [up EXCEPT !.at = "complete"]
  /\ UNCHANGED <<blobs, manifests, file, pub, col, stale, down>>

\* It completes, unless somebody aborted the upload.
CompleteUpload ==
  /\ up.at = "complete"
  /\ IF OwnUpload \in uploads
     THEN /\ uploads' = uploads \ {OwnUpload}
          /\ blobs' = Stored(OwnUpload.key, up.copy)
          /\ up' = [up EXCEPT !.at = "ok"]
     ELSE up' = [up EXCEPT !.at = "failed"] /\ UNCHANGED <<uploads, blobs>>
  /\ UNCHANGED <<manifests, file, pub, col, stale, down>>

\* The token is cancelled, the deadline passes or a request fails: the caller
\* returns.  The client-owned task aborts the upload, if that reaches the
\* service; a creation or a completion on its way may still take effect.
Interrupt ==
  /\ up.at \in {"create", "complete"}
  /\ \E at \in {"Cancelled", "DeadlineExceeded", "failed"} :
       up' = [up EXCEPT !.at = at]
  /\ \/ up.at = "create" /\ uploads' = uploads \cup {OwnUpload} /\ UNCHANGED blobs
     \/ uploads' \in {uploads, uploads \ {OwnUpload}} /\ UNCHANGED blobs
     \/ /\ OwnUpload \in uploads
        /\ uploads' = uploads \ {OwnUpload}
        /\ blobs' = Stored(OwnUpload.key, up.copy)
  /\ UNCHANGED <<manifests, file, pub, col, stale, down>>

-----------------------------------------------------------------------------
(* abort_stale_multipart. *)

\* The order of a multipart listing: the key, and the upload under one key.
Rank(upload) == <<Last(upload.key)[1], upload.id>>
After(upload, marker) ==
  \/ Rank(upload)[1] > marker[1]
  \/ Rank(upload)[1] = marker[1] /\ Rank(upload)[2] > marker[2]
Before(u, v) == After(v, Rank(u))

\* A page is the set of its uploads, which are handled in listing order.
First(page) == CHOOSE u \in page : \A v \in page \ {u} : Before(u, v)
Final(page) == CHOOSE u \in page : \A v \in page \ {u} : Before(v, u)

\* Mutant of NextMarker: the marker of the upload under the key is left out.
NextMarkerOfKey(page) == <<Rank(Final(page))[1], 99>>

\* next_key_marker and next_upload_id_marker.
NextMarker(page) == Rank(Final(page))

\* What a listing from the marker has, and the page of it.
Remaining ==
  {u \in uploads : IsStrictPrefix(blob_prefix(Mine), u.key) /\ After(u, stale.marker)}
UploadPage ==
  {u \in Remaining : Cardinality({v \in Remaining : Before(v, u)}) < PageSize}

\* A page of list_multipart_uploads.
ListUploads ==
  /\ stale.at = "list"
  /\ stale' = IF stale.pages = MaxPages THEN [stale EXCEPT !.at = "limit"]
              ELSE [stale EXCEPT !.at = "abort", !.page = UploadPage,
                      !.pages = @ + 1, !.truncated = UploadPage # Remaining,
                      !.marker = IF UploadPage = {} THEN @ ELSE NextMarker(UploadPage)]
  /\ UNCHANGED <<blobs, manifests, uploads, file, pub, col, up, down>>

IsStale(upload) == \E time \in upload.initiated : time <= Cutoff

SkipFresh ==
  /\ stale.at = "abort" /\ stale.page # {} /\ ~IsStale(First(stale.page))
  /\ stale' = [stale EXCEPT !.page = @ \ {First(@)}]
  /\ UNCHANGED <<blobs, manifests, uploads, file, pub, col, up, down>>

\* abort_multipart_upload is answered: an upload that is gone is an error.
AbortAnswered ==
  /\ stale.at = "abort" /\ stale.page # {} /\ IsStale(First(stale.page))
  /\ uploads' = uploads \ {First(stale.page)}
  /\ stale' = IF First(stale.page) \in uploads
              THEN [stale EXCEPT !.page = @ \ {First(@)}, !.aborted = @ + 1, !.tries = 0]
              ELSE [stale EXCEPT !.at = "failed"]
  /\ UNCHANGED <<blobs, manifests, file, pub, col, up, down>>

AbortLost ==
  /\ stale.at = "abort" /\ stale.page # {} /\ IsStale(First(stale.page))
  /\ uploads' \in {uploads, uploads \ {First(stale.page)}}
  /\ stale' = [stale EXCEPT !.tries = @ + 1,
                 !.at = IF stale.tries + 1 < MaxAttempts THEN @ ELSE "failed"]
  /\ UNCHANGED <<blobs, manifests, file, pub, col, up, down>>

\* The last page, or another one, unless a truncated page has no markers.
PageEnds ==
  /\ stale.at = "abort" /\ stale.page = {}
  /\ \E at \in IF stale.truncated THEN {"list", "failed"} ELSE {"ok"} :
       stale' = [stale EXCEPT !.at = at]
  /\ UNCHANGED <<blobs, manifests, uploads, file, pub, col, up, down>>

-----------------------------------------------------------------------------
(* download_verified and delete. *)

\* The object is opened, or the request fails.
Get ==
  /\ down.at = "get"
  /\ LET key == blob_key(Mine, down.digest)
     IN  \/ Present(key) /\ down' = [down EXCEPT !.at = "body", !.body = blobs[key]]
         \/ down' = [down EXCEPT !.at = "failed"]
  /\ UNCHANGED <<blobs, manifests, uploads, file, pub, col, up, stale>>

\* A chunk is written and hashed, or the body fails.
ReadChunk ==
  /\ down.at = "body" /\ down.body # <<>>
  /\ \/ down' = [down EXCEPT !.body = Tail(@), !.written = Append(@, Head(down.body))]
     \/ down' = [down EXCEPT !.at = "failed"]
  /\ UNCHANGED <<blobs, manifests, uploads, file, pub, col, up, stale>>

\* Mutant of CheckDownload: only the length of what was written is looked at.
CheckDownloadLength ==
  /\ down.at = "body" /\ down.body = <<>>
  /\ down' = [down EXCEPT !.at = IF Len(down.written) = 2 THEN "ok" ELSE "mismatch"]
  /\ UNCHANGED <<blobs, manifests, uploads, file, pub, col, up, stale>>

CheckDownload ==
  /\ down.at = "body" /\ down.body = <<>>
  /\ down' = [down EXCEPT !.at = IF Verified(down.digest, down.written) THEN "ok"
                                 ELSE "mismatch"]
  /\ UNCHANGED <<blobs, manifests, uploads, file, pub, col, up, stale>>

\* delete, of a payload the caller no longer holds live.
Delete ==
  /\ "delete" \in crew
  /\ \E d \in Digests \ Live : blobs' = Without({blob_key(Mine, d)})
  /\ UNCHANGED <<manifests, uploads, file, pub, col, up, stale, down>>

Next ==
  /\ UNCHANGED crew
  /\ \/ \E p \in Publishers : Verify(p) \/ PutAnswered(p) \/ PutFails(p)
     \/ ListBlobs \/ BatchAnswered \/ BatchLost \/ CollectEnds
     \/ Edit \/ Exists \/ CopyBuffer \/ CheckSnapshot \/ CreateUpload
     \/ CompleteUpload \/ Interrupt
     \/ ListUploads \/ SkipFresh \/ AbortAnswered \/ AbortLost \/ PageEnds
     \/ Get \/ ReadChunk \/ CheckDownload \/ Delete

Spec == Init /\ [][Next]_vars

-----------------------------------------------------------------------------
(* What is checked. *)

\* The shape of the state: contents are two halves, a downloader has at most
\* one content, and no request is tried more often than the client allows.
TypeOK ==
  /\ \A k \in DOMAIN blobs : blobs[k] \in Halves
  /\ manifests \subseteq Digests /\ file \in Halves
  /\ \A p \in Publishers : pub[p].tries <= MaxAttempts
  /\ col.cursor \in 0 .. Max(Digests) /\ col.tries <= MaxAttempts
  /\ stale.pages <= MaxPages /\ stale.tries <= MaxAttempts
  /\ Len(up.copy) <= 2 /\ Len(down.body) + Len(down.written) <= 2

\* Whatever is stored under a digest while the adapter runs has that digest
\* (verify_bytes, snapshot_verified), also when another process edits the file
\* between two buffers of its copy, and when a publication and an upload of
\* one digest race.
StoredContentIsAddressed ==
  \A k \in DOMAIN blobs :
    \/ k \in DOMAIN InitialBlobs /\ blobs[k] = InitialBlobs[k]
    \/ Verified(Last(k)[1], blobs[k])

\* A visible manifest never precedes its payload and keeps it, as long as the
\* live set names what is being published (publish_manifest_last, "Publishing
\* the manifest last"), whatever answers are lost and whatever is collected or
\* deleted meanwhile.
MarkersHavePayloads ==
  \A d \in manifests \cap Live : Present(blob_key(Mine, d))

\* The payloads a collection or a deletion may remove: those of the tenant
\* whose digest is not live, in either spelling.
Collectable ==
  {Append(blob_prefix(Mine), <<d, spelling>>) :
     d \in Digests \ Live, spelling \in {"lower", "upper"}}

\* The payloads something may store again.
Restorable == {blob_key(Mine, d) :
                 d \in {Published[p].digest : p \in Publishers} \cup {Uploaded}}

\* Nothing live, nothing that is no digest and nothing of another tenant is
\* ever deleted (collect_unreferenced, delete); and a successful collection
\* left none of the unreferenced payloads, with answers lost, batches repeated
\* and some keys of a batch refused.
CollectionIsExact ==
  \A k \in DOMAIN InitialBlobs :
    /\ ~Present(k) => k \in Collectable
    /\ col.at = "ok" /\ Present(k) => k \notin Collectable \ Restorable

\* The uploads of the tenant that the pass is for.
StaleUploads ==
  {u \in InitialUploads : /\ \E d \in Digests : u.key = blob_key(Mine, d)
                          /\ u.initiated # {} /\ u.initiated \subseteq 0 .. Cutoff}

\* The stale-upload pass aborts only uploads of its tenant initiated by the
\* cutoff, so never the one a caller is filling; when it succeeds it aborted
\* every one of them, and counted each once, although what it aborts vanishes
\* from under its page markers (abort_stale_multipart).
StalePassIsExact ==
  /\ InitialUploads \ uploads \subseteq StaleUploads
  /\ up.at = "complete" => OwnUpload \in uploads
  /\ stale.at = "ok" => /\ StaleUploads \cap uploads = {}
                        /\ stale.aborted = Cardinality(StaleUploads)

\* A download that succeeds wrote the content its digest names, also when the
\* stored object is not that content (download_verified).
DownloadsAreVerified ==
  down.at = "ok" => hex_sha256(down.written) = {down.digest}

\* A visible manifest of the live set never precedes its payload and keeps it;
\* what is stored under a digest, and what a successful download wrote, are the
\* bytes of that digest (publish_manifest_last, snapshot_verified,
\* download_verified).
ManifestsHavePayloads ==
  TypeOK /\ MarkersHavePayloads /\ StoredContentIsAddressed /\ DownloadsAreVerified

\* A collection removes payloads of its tenant that are not live and nothing
\* else, and all of them when it succeeds; the pass over stale uploads aborts
\* those of its tenant up to the cutoff and nothing else, and all of them when
\* it succeeds (collect_unreferenced, abort_stale_multipart).
SweepsAreExact == CollectionIsExact /\ StalePassIsExact
=============================================================================
