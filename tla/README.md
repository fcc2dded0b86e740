# s3-wire: specifications, checks and proofs

TLA+ specifications of the parts of the S3 client (`src/`) whose correctness
depends on order, failure, time and concurrency; TLC configurations that check
them on small instances; and TLAPS proofs of their main properties for every
value of the constants. `PROJECT.json` holds the index: components, runs,
mutants, the map from definitions to source lines, findings, hazards, theorems.

Source paths below are relative to `src/src/`; `examples/` and `docs/` stand
beside it.

## 1. The system

The crate is an asynchronous S3 client on tokio and hyper. One `S3Client` is
cloned freely; its clones share a transport, a credentials provider and a retry
quota.

| Component | State it keeps | Operations | What makes it correct |
|---|---|---|---|
| Managed multipart upload (`client/multipart_upload.rs`, `operation/multipart/managed.rs`, `completion.rs`, `client/multipart/operations.rs`) | the owned task, the cancellation channel, part futures, finished parts, the upload ID | prepare, create, schedule parts, quiesce, complete, abort, drop of the owner | a published object is whole; a failed upload is cleaned up or says that it may not be |
| Request execution (`client/request/execute.rs`, `retry.rs`) | attempts, elapsed time, deadline, redirect flag, pending permit | attempt, retry, redirect, stop, drop | one-shot bodies sent once; no retry beyond budget; every request ends |
| Retry policy (`retry/mod.rs`) | none | `permits_retry`, `delay_for` | delays within `max_delay` and `max_elapsed` |
| Retry quota (`client/mod.rs`) | atomic token count, permits | acquire, commit, drop, replenish | tokens conserved among concurrent requests |
| Credentials cache (`credentials/mod.rs`) | one entry behind an async mutex | `provide_credentials`, `invalidate`, drop | current answers, coalesced refreshes |
| Response stream and downloads (`stream/download.rs`, `client/download.rs`) | received length, digest, idle and deadline timers, temporary file | `poll_next`, `write_to`, sync, rename, drop | the destination holds the old or the verified file |
| Listing (`client/object/listing.rs`, `client/multipart/listing.rs`) | pages, seen markers, current marker | one page per round | termination; exact listings |
| Upload bodies (`stream/upload.rs`, `stream/snapshot.rs`) | source, snapshot, signed length and digest, `remaining`, `final_chunk` | prepare, `request_body`, `poll_frame` | only the signed bytes can be accepted |
| Transport (`transport/mod.rs`) | hyper's pool | `send`, `classify_client_error` | errors keep their classification |
| Response handling (`client/request/response.rs`, `error/mod.rs`) | bytes collected, idle deadline | collect within limits, classify | bounded memory; verdicts name their cause; every attempt ends |
| Request observer (`observer.rs`, `client/request/execute.rs`) | none; a callback | one event per step of the attempt loop | events number the attempts and agree with the result |
| Signature V4 (`client/request/signing.rs`, `signing/`) | identity and date of one attempt | build, canonicalize, sign | the service computes the same signature from the bytes it gets |
| Endpoint and addressing (`endpoint/mod.rs`) | base path, host | path and virtual-hosted addresses, redirected authority | one address per object, redirects stay with the service |
| Presigning (`client/presign.rs`, `signing/request/presign.rs`) | one call | presign get, put, head, delete, create, upload part, abort | the URL is honoured for the lifetime asked for |
| Configuration (`config/mod.rs`, `client/mod.rs`) | the builder, the client, its handles | setters, `build`, `S3Client::new`, `for_bucket` | what was accepted never fails later |
| Object operations (`client/object/`, `operation/object.rs`, `types.rs`) | none beyond one call | put, get, head, delete, batch deletion, copy | conditions guard effects; results are what happened |
| Multipart primitives (`client/multipart/`, `operation/multipart/`) | none beyond one call; callers keep IDs and parts | create, upload, copy, list, complete, abort | a completed object is made of the parts that were named |
| Checksums (`operation/checksum.rs`, `client/multipart/headers.rs`) | the running word | calculate, at once or in chunks; validate | the polynomial remainder; one text per digest |
| Protocol XML (`protocol/`) | none | parse within bounds, write within bounds | an error is never a result; documents are whole |
| Artifact store (`examples/artifact_store.rs`) | the bucket's manifests and payloads | publish, check, download, delete, collect, upload, abort stale | manifests have payloads; sweeps are exact |

How they interact. An operation takes a deadline, prepares its body
(`ByteStream::prepare`), and calls `send_signed_inner`. That loop asks the
credentials provider in every attempt, makes a fresh `TransportBody`, hands the
request to the transport, and decides with the policy and the shared quota
whether to go on. A managed upload runs many such requests from a task of its
own, because the caller's future may be dropped at any time. A download wraps
the response body in a `ResponseStream` and copies it to a temporary file. The
artifact store is the repository's reference application: several of these
operations in sequence, by actors that know nothing of each other.

What is hard in it:

- concurrency: requests race on one token count; tasks queue on the cache's
  mutex, which is held across the provider call; parts finish in any order;
- dropped futures: every await is a place where the caller may disappear;
- an unreliable service: a request the client gave up on may still be carried
  out, also after a later abort; replies are lost;
- time: attempt, idle, settle, cleanup and operation timers race with answers;
- storage: writes run in the background, and a machine may stop between the
  sync and the rename.

## 2. Modules

| Module | Models | State and actions |
|---|---|---|
| `UploadContract` | what `multipart_upload` promises | `upload` at the service, `outcome` for the caller |
| `ManagedMultipart` | the owned task, its requests and the service | `pc` is where `run_multipart_upload` stands; `call`, `attempts`, `late` are the requests as the client and the wire see them; `upload`, `stored`, `orphans` are the service |
| `PartSource` | the bytes of a managed upload: snapshot, `part_count`, `read_part` | a file that is edited, its copy, and the parts that futures read in any order |
| `RetryPolicy` | `retry/mod.rs` | operators; jitter is the set of possible delays |
| `RetryQuota` | the token bucket | one operator per atomic update, with ghost totals `owed`, `spent`, `restored` |
| `RequestExecution` | the attempt loop; composes policy and quota for several requests | `pc` per request is prepare, sign, sent, sleep or done |
| `RequestLifecycle` | what an observer may conclude | last event, redirect flag and answer of each request |
| `RequestObservation` | `RequestExecution` with its events | `event`, the last `RequestEvent` of each request |
| `CredentialsCache` | the cache and its FIFO mutex | `ahead` is who is before whom at the mutex; fetches are numbered, `cached` is the entry |
| `WireEncoding`, `Endpoint` | encoders, canonical forms, addresses | operators over sequences of bytes and hosts |
| `SigV4Service` | external: the service's side of SigV4 | operators that share nothing with the client's encoder but the alphabet |
| `SignedRequest` | `signed_request` in the attempt loop, with the redirect; composes the three above | provider, target, region, the request on the wire |
| `ClientConfig` | builder, client and handles | setters in any order, then `build`, `new`, `for_bucket`, a request |
| `Presigning` | `presign` and the later use of the URL | clock in half seconds, the URL, the service's answer |
| `ResponseHandling` | one attempt from the transport to its verdict | frames, three timers, bytes collected |
| `Download` | `download_to_path` | stream, background write, file, directory entry, crash |
| `ObjectHeaders` | typed headers of requests and responses | operators |
| `ObjectOperations` | the object calls of concurrent callers | a versioned store, attempts in flight, replies, results |
| `MultipartSession` | the multipart calls of concurrent callers | uploads at the service, attempts in flight, what callers know |
| `Listing` | the three paging loops | the loop's variables and a store that other clients change |
| `BoundedXml` | the bounded XML layer | one document through one parser; one document being written |
| `ArtifactStore` | the example, one actor per operation, one step per request | payloads, manifests, uploads, the local file, each actor's progress |
| `UploadBody` | bodies and snapshots | content, what was copied, signed, yielded, held and sent |
| `Checksums` | CRCs and base64 digests | bytes consumed, the running word, the text |

`*Proofs` modules hold theorems. `MCManagedMultipart`, `MCRequestExecution` and
`MCCredentialsCache` instantiate one module each. Neighbouring components share
a run: a composition EXTENDS one of them, INSTANCEs the others with variables
and constants of its own, and has a variable `scene` that says which one a
behaviour is about. The others rest. So each component is explored exactly as if
it were alone, and a property of an instanced module (together with its type
invariant) is an implication from its scene. The compositions
leave their constants open, so that theorems about them hold for every value;
the MC module of each only gives values.

| Composition | Values | Scenes |
|---|---|---|
| `Responses` | `MCResponses` | objects (`ObjectOperations`), download (`Download`), attempt (`ResponseHandling`) |
| `Listings` | `MCListings` | artifacts (`ArtifactStore`), listing (`Listing`), xml (`BoundedXml`) |
| `Parts` | `MCParts` | session (`MultipartSession`), parts (`PartSource`), body (`UploadBody`), checksum (`Checksums`) |
| `Signing` | `MCSigning` | cache (`CredentialsCache`), request (`SignedRequest`), presign (`Presigning`), config (`ClientConfig`) |

The actors of `ArtifactStore` that run in one behaviour are its `crew`, chosen at
the start out of the constant `Crews`; the run has two crews, and the theorems
any. A document that `BoundedXml` writes is the sequence of the offsets at which
the writes of the serializer end.

A definition whose comment begins with "Mutant of" is a wrong variant of the
next definition; no specification uses it. It is there so that each property can
be shown to fail when the code is changed in that way. A property with several
conjuncts has a mutant for most of them.

Abstractions. A payload is its length, its bytes out of a small set, or the
question whether it is genuine. A digest stands for the bytes it was computed
from; the CRCs of `Checksums` are calculated, with the real widths and
polynomials, a word being the set of its one bits. Names that are encoded or
sorted (`WireEncoding`) are sequences of bytes; all others are values. A result
that may be an error is a set, empty for the error. Time is a counter or, in
`ManagedMultipart`, the nondeterministic passing of each timer. The attempt
loop is one action per decision in `RequestExecution`; `ManagedMultipart`,
`ObjectOperations`, `MultipartSession` and `ArtifactStore` abstract it to
"transmit, fail and retry, end", whose retries may happen whenever the attempt
limit allows it, which includes all that the policy and the quota permit.

External parts, modelled from how the source uses them: the S3 service, tokio's
`Mutex`, `File` and clock, the file system, `NamedTempFile`, hyper's errors,
quick-xml's reader, SHA-256 and HMAC.

## 3. Runs

| Run | Instance | What it shows |
|---|---|---|
| `mm_safety` | 3 parts, 2 in flight, 2 attempts | published objects are whole and listed in ascending order; a whole upload is completed; no part future outlives the upload; `UploadContract` is implemented |
| `mm_live` | 2 parts, fair task | the task ends; a dropped upload is aborted, completed or reported |
| `re_requests` | 2 requests, 3 attempts, capacity 3, clock to 5 | quota, permits, one-shot bodies, backoff budget, termination; `RequestLifecycle` is implemented |
| `cc_cache` | 3 tasks, 4 calls, 4 fetches; 5 endpoints, 2 attempts; lifetimes of 0 to 3 seconds; 4 setters | current answers, coalesced refreshes, calls end; requests on the wire verify and name their object, each signed afresh; URLs are honoured; handles are sound |
| `dl_download` | object of 2 bytes; a limit of 2 bytes and a peer that sends 3; 2 callers, 2 attempts, 20 requests | old-or-verified destination, no trace of failures, synced success; verdicts name their cause; attempts and downloads end; conditions guard effects; answers are truthful |
| `ls_listing` | 4 entries, pages of 2, 3 pages, 1 change; bodies of 3 and 4 bytes under a bound of 3; 5 payloads, 6 uploads, pages of 1 | no page twice, exact listings; documents are read as meant; manifests have payloads; sweeps are exact |
| `ub_body` | files to 4 bytes, parts of 1 to 3, at most 3; bodies to 3 bytes, 2 attempts; CRCs of up to 5 bytes in chunks of 2; 2 callers, 2 uploads of 2 parts | parts tile the snapshot within the buffer bound; complete bodies are signed; checksums are sound; multipart results are truthful |
| `mm_orphan`, `mm_stray`, `re_context`, `re_elapsed`, `cc_fallback` | small | counterexamples to sentences of the documentation, section 6 |

Why the bounds are enough to meet the hard cases:

- Three parts with two in flight let a part finish before an earlier one, the
  loop refill, and a part fail with one pending and one never scheduled. Two
  attempts give late copies of each request beside their retries.
- A capacity of 3 with costs 2 and 1 makes two requests compete: one retry
  leaves too little for the next transient one and enough for a throttled one.
  `MaxElapsed` lies before the deadline, and the clock passes both. The quota's
  refusal, the elapsed limit, the deadline, a redirect and a drop all come
  between two events of an observer.
- Three tasks are one that refreshes, one that waits and one that invalidates
  or is dropped between them. A lifetime of 2 with a refresh window of 1 has
  a fresh, an early-refresh and an expired time.
- Keys with dots, slashes, spaces and percent signs, queries whose order changes
  when they are encoded and one with a repeated name, header values with inner
  blanks, regional, global, FIPS and custom endpoints with base paths, buckets
  that virtual hosting refuses: all kinds of byte the encoders tell apart occur
  on each side of the signature. Two attempts have a redirect, or a rotation of
  the credentials, between them.
- The clock of `Presigning` ticks in half seconds and its dates are whole ones,
  so that truncation is visible; lifetimes are none, the maximum and beyond it.
- Four setters reach every combination the builder's checks tell apart: endpoint,
  opt-in, style and region or bucket.
- Two bytes in chunks of one or two, with declared lengths 0 to 3 or none, are
  short, exact and long bodies, also past the first write. The limit of
  `ResponseHandling` is met exactly and passed by one byte; its idle timer and
  its deadline can fall into one wait.
- A single-part object beside two versions of a multipart one have checksums of
  both types; two callers put, delete and copy the same key under conditions,
  each with a late attempt that arrives behind its retry.
- The owner of an upload creates, stores and completes while another caller
  stores under the same part number, lists or aborts.
- Four entries in pages of at most two need two or three pages, one more or
  fewer than `maximum_pages`; a repeated marker may be the last or an older one.
- One tenant's identifier spells a path below another's prefix; names in upper
  case, no names, rotted payloads, fresh, stale and undated uploads, two of them
  under one key, and pages of one entry, so that each marker is used after what
  it names was aborted.
- Bodies of up to three bytes in chunks of up to two have chunks before the last
  one, a held chunk of one or two bytes, and content after the held chunk; the
  stream may be one byte longer than the longest declared length.
- Files of up to four bytes in parts of one to three have lengths that are
  multiples, one more and one less, and one part more than `PartNumber::MAX`.
- A CRC is linear: bytes of no, the lowest, the highest, mixed and all bits, at
  lengths around the chunk, reach every table row's shape and the carry from
  chunk to chunk.

Deadlock checking is off throughout: all of these systems are meant to stop
(a finished task, a clock at its bound). Termination is checked as liveness.

## 4. Fairness

- `ManagedMultipart`: weak fairness of the task. Its steps include the timers
  that end every wait (attempt timeout, settle timer, cleanup deadline), so it
  is what tokio guarantees a spawned task; the service owes nothing.
- `RequestExecution`: weak fairness of each request and of the clock. A sent
  request always has the step in which its attempt timeout fires.
- `CredentialsCache`: weak fairness of each task, which includes an answer of
  the wrapped provider. The source awaits the provider without a timeout of its
  own, so `CallsEnd` is conditional on that; `RequestExecution` bounds the wait
  by the operation deadline, which here is `DropCall`.
- `Download`: weak fairness of the task, the blocking threads and the clock;
  none of the body.
- `ResponseHandling`: weak fairness of the reader, which tokio polls when a frame
  or a timer is ready, and of the clock; none of the peer, which may send empty
  frames for ever. `AttemptsEnd` therefore rests on the timers.
- `RequestObservation`: that of `RequestExecution`.

The other modules state no liveness: their calls end when the attempt loop does.

## 5. Proofs

Eight modules hold theorems. Each has an inductive invariant, a lemma per action
or group of actions, and the properties as corollaries. The assumptions are those
on constants, evaluated in the runs:

- what the configuration code enforces (`RetryPolicy::new`, `MultipartOptions`),
  or that a bound is a natural number and a set of objects is finite;
- `OperationsAssumption`: an `Option` has at most one value, the typed range of a
  download is not given a second time as a raw `range` header, and the service
  reads a copy source as it was written (there a source is a value and its
  encoder any injective function; that decoding undoes the real encoder is
  `DecodeEncode` of `WireEncodingProofs`);
- `SigningAssumption`: names, header values and query values are byte strings; the
  base path of an endpoint begins and ends with a slash and, if it is well
  encoded, encodes no byte that needs no encoding and writes escapes in upper
  case (with another one the service, which decodes and encodes again, and the
  client, which keeps escapes, would sign different paths); different numbers have
  different decimal texts; an identity has at most one session token; the empty string is
  not the region of a client;
- `MultipartAssumption`: the range of a part copy has at most one value;
- `ChecksumAssumption`: a body and a supplied checksum are byte strings, and the
  chunks of a cooperative calculation are not empty;
- `ArtifactAssumption`: digests are numbered, one is the last, the service gives
  an upload ID once, and an upload has at most one time of initiation;
- `XmlAssumption`: part numbers are read as numbers, and a write ends where it
  began or later.

The modules:

- `ManagedMultipartProofs`: type correctness, `PublishedObjectIsWhole`,
  `WholeUploadIsCompleted`, `NoPartOutlivesUpload`, `InFlightBound`, and the
  refinement `Spec => ImplementsContract`, for every part count, concurrency and
  attempt limit. `PublishedObjectIsWhole` is not inductive: it needs that parts
  recorded are stored and no abort went out (`ServiceInv`), that pending and
  finished parts are together an initial segment of all parts (`SchedulerInv`),
  and what each phase implies for the calls (`PhaseInv`). The list is shown to be
  ascending by a lemma about `record_part`, and an ascending list of all parts
  to be `<<1, ..., n>>` by `AscendingCover`.
- `RequestExecutionProofs`, for any finite set of requests and any policy: type
  correctness (the unsigned count never wraps), `QuotaConserved`,
  `TakenTokensAreHeldOrSpent`, `FinishedHoldsNoPermit`, `RetriesAreBought`,
  `OneShotSentOnce`, `SleepFitsBudget`. Conservation needs the sum of all permits;
  it is the number of tokens in them, each paired with its holder (`HeldTokens`),
  so that taking or returning tokens adds or removes a finite set. Then
  `ObservationIsPassive` (with its events, the loop does nothing it does not do
  without them), `EventsCountAttempts`, and the refinement
  `OSpec => ImplementsLifecycle`: `EventInv` ties the last event to the place in
  the loop, and `FailAttemptForks` says that a failed attempt sleeps or returns.
- `WireEncodingProofs` holds no result of its own but what `SigningProofs` needs of
  the encoders, for byte strings of every length. `StringsByAppend` is induction
  over byte strings as a first-order fact: a set that holds the empty string and
  is closed under appending a byte holds them all. A loop is a sequence of stages
  (`StagesExist`, `RunExists`), so that what it computes for a longer string
  follows from what it computed before. From these: decoding undoes encoding
  (`DecodeEncode`); the client's canonical path, which only repairs escapes, is the
  service's, which decodes and encodes (`CanonicalIsReencoded`); splitting undoes
  joining (`FieldsOfJoined`); sorting yields the one ordered arrangement
  (`SortFacts`); the canonical query is a fixed point of the service's parsing,
  sorting and encoding (`QueryIsCanonical`), though the client sorts encoded pairs;
  and the loop of `normalize_header_value` squeezes blanks as the service does
  (`NormalizedIsSqueezed`).
- `SigningProofs`, for any number of tasks, any endpoints, buckets, keys, queries,
  headers, regions, identities, setters and horizons. Of `CredentialsCache`: type
  correctness, `AnswersAreCurrent`, `NoRefreshStorm`; the invariant says that the
  queue of the mutex is a strict order (`QueueInv`), that only its head refreshes
  (`RefreshInv`), and bounds every answer by a floor that calls and invalidations
  raise (`FloorInv`, `HistoryInv`). Of `SignedRequest`: `SentRequestsAreAccepted` and
  the action property `AttemptsAreSignedAfresh`. What the service verifies is true
  only because nothing between building and signing changes the target but the
  region in its host, which the redirect rewrites: `TargetInv` keeps path and
  query as they were built and `AuthorityInv` says which host may stand there. Of
  `ClientConfig`: `HandlesAreSound`; all handles of a client differ in the bucket
  only (`HandlesInv`), and `allow_http` is never true unless it was asked for
  (`BuilderInv`). Of `Presigning`: `UrlsAreHonoured`; `IssuedFor` remembers with which
  identity, at which moment and for which target the URL was signed, so that any
  later use of it is decided by the clock alone.
- `ResponseProofs`: of `Download`, type correctness,
  `DestinationIsOldOrVerified`, `FailureLeavesNoTrace` and `SuccessIsPublished`,
  for every size, chunk and timeout. `Accounting` says that file, background
  write and current chunk add up to what was received unless a write failed;
  `PhaseInv` that nothing is pending after the flush. Of `ResponseHandling`,
  `VerdictsAreTruthful` and the action property `BodyFailuresKeepTheirVerdict`,
  for every limit, timeout, status and code: all that was delivered is collected
  but for one ready frame, and the idle timer runs from the last byte
  (`Collecting`), so a verdict names a limit that was passed or a timer that ran
  out.
  Of `ObjectOperations`, `ConditionsGuardEffects` and `AnswersAreTruthful`, for any callers, keys, versions, requests and attempts. Whatever a caller
  stated is an entry that the operation generates, and `insert_headers` drops
  and overwrites none (`EntryHeld`), so the service decides by the caller's own
  conditions. An answer is true of what the service did for the attempt
  (`Truth`), what was done stays in the history of the call, and a call answered
  in its first attempt has nothing else on the way (`RefusalsAreQuiet`), which
  is why a refusal means that nothing changed.
- `MultipartSessionProofs`: `SessionsAreTruthful`, for any callers, uploads,
  parts, contents and attempts, by the same argument with an upload that others
  complete and abort (`AnsweredCallsAreQuiet`).
- `PartsProofs`: of `PartSource`, type correctness, `ReadsNeverFail`,
  `PartsAreUploadable`, `ObjectIsTheSnapshot` and `BufferedBytesAreBounded`, for
  every file, part size, concurrency, part limit and number of edits. The heart
  is arithmetic that Z3 does not find by itself: `CeilBounds` brackets
  `div_ceil`, `PartInside` places every scheduled part inside the source,
  `PositionInPart` gives each byte its part. Buffered bytes inject into
  slots times part size. Of `UploadBody`, type correctness and `BodiesAreSigned`,
  for every content, length, chunk and number of attempts: while a body is sent,
  what the stream yielded is out or held back and the rest of the signed length
  remains (`Sending`). Of `Checksums`, `ChecksumsAreSound`, for bodies and chunks of
  every length. `CrcAt` is the invariant: after n bytes the running word, mirrored
  and put in its place, plus the bytes still to come, is the dividend after 8n
  steps of the long division. `DivideBit` shows this for one bit, `DivideByte` for
  the eight that an entry of the table stands for, `CrcOverChunk` for a chunk,
  by induction over the rounds of a loop (`RoundsExist`, `NumbersByStep`);
  `TablesAreMirrored` compares the three polynomials of the code, bit by bit, with
  the generators of the standards. Of base64, `CharacterIsWritten` reads each
  character back as the six bits it was written from, and the last one has zeros
  where the digest has ended (`ValidIsCanonical`).
- `ListingProofs`: of `Listing`, type correctness, `NoPageAskedTwice`,
  `ResultMatchesPages`, `ListingIsExact`, for every number of entries, pages and
  changes. `LoopInv` ties the asked markers to the seen ones, `CoverInv` says that
  the pages so far hold all stable entries between the start and the position.
  Of `ArtifactStore`, `ManifestsHavePayloads` and `SweepsAreExact`, for any
  objects, uploads, publications, crews, page and batch size. Every step of every
  actor stores a verified payload under its digest, removes payloads that are not
  live, or leaves the bucket alone (`BlobStep`); from this alone the bucket keeps
  `StoreInv`, and each actor's invariant survives the others. A collection
  succeeds with an empty list of doomed keys and a cursor at the last digest, and
  every unreferenced payload of the start that is still there is doomed or behind
  the cursor (`ColInv`). The pass over uploads aborts what it has just listed,
  so that its markers name uploads which are gone: a stale upload that is still
  open is in the page or behind the marker with more pages to come, and those
  that are neither are the ones counted (`StaleInv`); `PageIsInitial` shows that
  a page is an initial part of the listing order, `KeyUnderPrefix` that a listing
  of a prefix has the tenant's keys and no other's. Of `BoundedXml`,
  `DocumentsAreReadAsMeant`, for any bodies, documents and bounds; part numbers
  that ascend from one to the next ascend throughout by the least counterexample
  (`AscendingThroughout`).

Only model-checked: liveness (`TaskEnds`, `DroppedUploadIsCleaned`, `RequestsEnd`,
`CallsEnd`, `DownloadsEnd`, `AttemptsEnd`), which needs fairness and ENABLED and is
out of the prover's reach.

Type correctness, `InFlightBound`, `FinishedHoldsNoPermit`, `ResultMatchesPages`,
`PartsAreUploadable` and `EventsCountAttempts` are theorems and are not repeated
in a run.

## 6. Findings

Each is a run in which TLC finds a behaviour of the code against a sentence of
the repository's own documentation.

1. `mm_orphan`: a creation whose reply is lost (attempt timeout, transport
   error, retry) leaves an open upload that nobody aborts and that no
   `cleanup_failure` reports. `docs/architecture.md` and the comment at
   `client/multipart_upload.rs:151` promise that the upload ID is retained.
2. `mm_stray`: a part future that ends by its attempt timeout counts as settled
   although its request is on the wire; the service may store it after the
   confirmed abort, without a `cleanup_failure` (`README.md:234`).
3. `re_context`: errors raised between two attempts (deadline, signing) report
   zero attempts (`error/mod.rs:327`).
4. `re_elapsed`: `max_elapsed` is checked before the backoff and signing only, so
   an attempt may begin after it (`retry/mod.rs:77`).
5. `cc_fallback`: credentials that expire while a refresh runs are returned when
   it fails, because the time was read before it (`credentials/mod.rs:304-305`);
   the request then fails as "expired credentials", not with the refresh error.

## 7. What a reader should not conclude

- The service of `ManagedMultipart` handles one upload by one client. Other
  clients aborting or completing it are not modelled.
- `Listing` relies on markers that stand for a position in listing order when it
  states exactness; `NoPageAskedTwice` and `ResultMatchesPages` do not.
- `Download` has the length and digest of the response, not the truth: without
  Content-Length and checksum, a truncated body is published, as the code does.
  `DestinationIsOldOrVerified` is about whatever the response declared.
- The rename is not followed by a sync of the directory; after a crash the old
  file may be back, which the property allows and the documentation permits.
- `SentRequestsAreAccepted` is about base paths whose escapes are needed: a base
  path with a needlessly encoded byte (`%2f`, `%61`) is outside the model of the
  service. A base path with a stray percent sign passes `Endpoint::new` and makes
  every signing fail, which `AttemptsAreSignedAfresh` counts as configuration.
- A conditional write, a completion or an abort that loses its reply may be
  retried into its own effect and be reported as refused (412 or 404). The
  properties speak of refusals of the only attempt. For the artifact store this
  means that `blob_created` (`examples/artifact_store.rs:91`, "Whether this call
  created the payload blob.") may be false for the call that created it.
- `collect_unreferenced` takes suffixes in upper case for digests
  (`examples/artifact_store.rs:233`), while `docs/sandboxd-integration.md:58` says
  "Reject suffixes that are not canonical digests."; `SweepsAreExact` follows the
  code.
- `ManifestsHavePayloads` holds when the live set names what is being published;
  `docs/sandboxd-integration.md:63` asks for an age or generation barrier that
  the example leaves to its caller.
- Statuses 304 and 416 have no category of their own and are invalid responses;
  dates in conditions are cut to seconds. Both are modelled as they are.
- An observer's panic is caught by `observe` and is not an action. A request that
  fails between two attempts has no terminal event, which `RequestLifecycle`
  allows.

## 8. Not modelled

- Transport: connection pooling, proxies and TLS belong to hyper and rustls.
- Cryptography: hash functions are out of TLC's reach; digests and signatures
  stand for their inputs.
- XML and base64 text, date formatting, header syntax: libraries' conversions,
  except where a property is about them (percent-encoding, canonical base64,
  truncated dates).
- A stream of a caller that yields empty chunks for ever without yielding to the
  executor (`stream/upload.rs:263`): polls are steps, and a poll that never
  returns is none.
- Other examples, fuzz targets, benchmarks and the performance tool: drivers of
  the public interface without state of their own.

## 9. Plan

Done: the managed upload with its contract and its parts; request execution with
policy, quota and observer; the credentials cache; signing, endpoints,
configuration and presigning; downloads and response handling; object operations
and multipart primitives; listings, XML and the artifact store; upload bodies and
checksums.

Proved: every safety property of the runs, for all values of the constants.

Left: the managed upload composed with `RequestExecution` in place of its abstract
retries, and with other clients that abort or complete the same upload.
