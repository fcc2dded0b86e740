------------------------ MODULE MultipartSessionProofs ------------------------
(***************************************************************************)
(* What a multipart call returns is what happened, for any number of callers *)
(* and uploads, any parts, contents and ranges and any number of attempts.   *)
(*                                                                           *)
(* A result speaks of what the service did during the call, so the argument  *)
(* follows an answer on its way: when the service acts on an attempt, its    *)
(* answer is true of that act (Truth); the act stays in the history of the   *)
(* call; and the caller takes the answer for its call only.  That a refused  *)
(* call changed nothing, and that a create with one attempt opened one       *)
(* upload, needs more: an answered first attempt is the only message of its  *)
(* call, so nothing of that call is still on its way.                        *)
(***************************************************************************)
EXTENDS MultipartSession, FiniteSetTheorems, SequenceTheorems, TLAPS

Status == {"none", "open", "completed", "aborted"}

(* The bytes an upload of a part sends or a copy of one names. *)
PartData(r) ==
    IF r.op = "upload_part" THEN r.data
    ELSE IF r.range = {} THEN SourceData
    ELSE SubSeq(SourceData, Some(r.range)[1] + 1, Some(r.range)[2] + 1)

(* The bytes a completion names. *)
Named(r) == FlattenSeq([i \in DOMAIN r.parts |-> r.parts[i][2][2]])

PartCalls == {"upload_part", "upload_part_copy"}

Operations == PartCalls \cup {"create", "list_parts", "list_uploads", "complete", "abort"}

(* A request that a caller can make. *)
IsRequest(r) ==
    /\ r.op \in Operations
    /\ r.op \in PartCalls => r.part \in Parts
    /\ r.op \notin {"create", "list_uploads"} => r.upload \in 1..MaxUploads
    /\ r.op = "upload_part_copy" => r.range \in Ranges
    /\ r.op = "complete" => \A i \in DOMAIN r.parts : r.parts[i][1] \in Parts

(* A message that such a request can give. *)
IsMessage(message) ==
    /\ message.op \in Operations
    /\ message.op \notin {"create", "list_uploads"} => message.query.uploadId \in 1..MaxUploads
    /\ message.op = "complete" => \A i \in DOMAIN message.body : message.body[i].PartNumber \in Parts

(* What an answer tells about a request for which the service did did. *)
Truth(r, answer, did) ==
    /\ \A what \in did : did = {what}
    /\ answer.status # 200 => did = {}
    /\ r.op = "create" /\ answer.status = 200 =>
          \E u \in 1..MaxUploads : did = {<<"opened", u>>} /\ answer.value \subseteq {0, u}
    /\ r.op \in PartCalls /\ answer.status = 200 /\ (answer.root # "Error" \/ r.op = "upload_part") =>
          did = {<<"stored", r.part, PartData(r)>>} /\ answer.value \subseteq {ETag(PartData(r))}
    /\ r.op = "complete" /\ answer.status = 200 /\ answer.root # "Error" => did = {<<"completed", Named(r)>>}
    /\ r.op = "list_uploads" /\ answer.status = 200 => answer.value \subseteq 1..MaxUploads
    /\ r.op = "list_parts" /\ answer.status = 200 => \A k \in answer.value : k[1] \in Parts

-------------------------------------------------------------------------------
(* The service's side. *)
ServiceTypes ==
    /\ DOMAIN uploads = 1..MaxUploads
    /\ \A u \in 1..MaxUploads :
          /\ uploads[u] = [status |-> uploads[u].status, parts |-> uploads[u].parts]
          /\ uploads[u].status \in Status
          /\ DOMAIN uploads[u].parts = Parts
          /\ \A p \in Parts : \A data \in uploads[u].parts[p] : uploads[u].parts[p] = {data}
    /\ \A data \in object : object = {data}

(* The attempts of the last call of c that may still reach the service. *)
Pending(c) == {m \in flying : m.caller = c /\ m.serial = serial[c]}

(* The callers' side. *)
CallerTypes ==
    /\ serial \in [Callers -> Nat] /\ attempts \in [Callers -> 0..MaxAttempts]
    /\ DOMAIN call = Callers /\ DOMAIN reply = Callers /\ DOMAIN output = Callers /\ DOMAIN log = Callers
    /\ ids \subseteq 1..MaxUploads /\ \A k \in known : k[1] \in Parts
    /\ \A c \in Callers :
          /\ call[c] = {} => reply[c] = {}
          /\ \A r \in call[c] : call[c] = {r} /\ IsRequest(r) /\ attempts[c] > 0 /\ output[c] = {}

(* Every attempt on its way belongs to a call that was made, and one of a    *)
(* call that is not over carries this call.                                  *)
MessagesBelong ==
    \A m \in flying :
        /\ m = [caller |-> m.caller, serial |-> m.serial, n |-> m.n, message |-> m.message]
        /\ m.caller \in Callers /\ m.serial \in Nat /\ m.n \in Nat \ {0}
        /\ IsMessage(m.message)
        /\ m.serial <= serial[m.caller]
        /\ m.serial = serial[m.caller] /\ call[m.caller] # {} =>
              m.n <= attempts[m.caller] /\ m.message = Message(Some(call[m.caller]))

(* The answer that waits for its caller is true of what was done for the     *)
(* call; the answer to a first attempt leaves nothing behind.                *)
RepliesAreTrue ==
    \A c \in Callers :
        /\ \A answer \in reply[c] :
              /\ reply[c] = {answer}
              /\ \E did \in SUBSET log[c] :
                    Truth(Some(call[c]), answer, did) /\ (attempts[c] = 1 => log[c] = did)
        /\ call[c] # {} /\ attempts[c] = 1 => IF reply[c] = {} THEN log[c] = {} ELSE Pending(c) = {}

(* After a call whose only attempt was answered, or that was never sent, no  *)
(* attempt of it is on its way.                                              *)
AnsweredCallsAreQuiet ==
    \A c \in Callers : \A out \in output[c] :
        out.kind = "Configuration" \/ (out.kind # "Transport" /\ out.attempts = 1) => Pending(c) = {}

(* A result is true of what the service did for its call. *)
OutputTrue(out, done) ==
    /\ out.kind = "Ok" /\ out.call.op = "complete" => <<"completed", Named(out.call)>> \in done
    /\ out.kind = "Ok" /\ out.call.op \in PartCalls =>
          /\ out.value = {<<out.call.part, ETag(PartData(out.call))>>}
          /\ <<"stored", out.call.part, PartData(out.call)>> \in done
    /\ out.kind = "Configuration" \/ (out.kind \in {"NotFound", "InvalidResponse"} /\ out.attempts = 1)
          => done = {}
    /\ out.kind = "Ok" /\ out.call.op = "create" =>
          /\ \A u \in out.value : <<"opened", u>> \in done
          /\ out.attempts = 1 => Cardinality(done) = 1

ResultsAreTrue == \A c \in Callers : \A out \in output[c] : OutputTrue(out, log[c])

(* The inductive invariant. *)
IInv ==
    /\ ServiceTypes /\ CallerTypes /\ MessagesBelong /\ RepliesAreTrue /\ AnsweredCallsAreQuiet
    /\ ResultsAreTrue

-------------------------------------------------------------------------------
(* An option that has a value has this value. *)
LEMMA SomeOne == ASSUME NEW x PROVE Some({x}) = x
BY DEF Some

(* The message of a request carries the upload, the part and the body that   *)
(* the request names.                                                        *)
LEMMA MessageFields ==
    ASSUME NEW r, IsRequest(r)
    PROVE  /\ Message(r).op = r.op
           /\ r.op \in PartCalls =>
                 Message(r).query.partNumber = r.part /\ Message(r).query.uploadId = r.upload
           /\ r.op \in {"list_parts", "complete", "abort"} => Message(r).query.uploadId = r.upload
           /\ r.op = "upload_part" => Message(r).body = r.data
           /\ r.op = "complete" => Message(r).body = CompleteDocument(r)
           /\ Message(r).headers = Some(Headers(r))
BY DEF IsRequest, Message, Query, upload_part_query, PartCalls, Operations

LEMMA RequestMessage ==
    ASSUME NEW r, IsRequest(r)
    PROVE  IsMessage(Message(r))
<1>1. Message(r).op \in Operations
  BY MessageFields DEF IsRequest
<1>2. Message(r).op \notin {"create", "list_uploads"} => Message(r).query.uploadId \in 1..MaxUploads
  BY MessageFields DEF IsRequest, PartCalls, Operations
<1>3. ASSUME Message(r).op = "complete"
      PROVE  \A i \in DOMAIN Message(r).body : Message(r).body[i].PartNumber \in Parts
  <2>1. r.op = "complete" /\ Message(r).body = CompleteDocument(r)
    BY <1>3, MessageFields
  <2>2. \A i \in DOMAIN r.parts : r.parts[i][1] \in Parts
    BY <2>1 DEF IsRequest
  <2>3. /\ DOMAIN CompleteDocument(r) = DOMAIN r.parts
        /\ \A i \in DOMAIN r.parts : CompleteDocument(r)[i].PartNumber = r.parts[i][1]
    BY DEF CompleteDocument
  <2> QED
    BY <2>1, <2>2, <2>3
<1> QED
  BY <1>1, <1>2, <1>3 DEF IsMessage

(* Short concatenations. *)
LEMMA Concat1 == ASSUME NEW x PROVE <<x>> \o <<>> = <<x>>
<1>1. <<x>> \in Seq({x}) /\ <<>> \in Seq({x})
  OBVIOUS
<1> QED
  BY <1>1

LEMMA Concat2 == ASSUME NEW x, NEW y PROVE <<x>> \o <<y>> = <<x, y>>
<1> DEFINE s == <<x>> \o <<y>>
           t == <<x, y>>
<1>1. <<x>> \in Seq({x, y}) /\ <<y>> \in Seq({x, y}) /\ t \in Seq({x, y})
  OBVIOUS
<1>2. Len(<<x>>) = 1 /\ Len(<<y>>) = 1 /\ <<x>>[1] = x /\ <<y>>[1] = y
  OBVIOUS
<1>3. s \in Seq({x, y}) /\ Len(s) = 2 /\ s[1] = x /\ s[2] = y
  BY <1>1, <1>2
<1>4. Len(t) = 2 /\ t[1] = x /\ t[2] = y
  OBVIOUS
<1> HIDE DEF s, t
<1>5. s = t
  BY <1>1, <1>3, <1>4, SeqEqual
<1> QED
  BY <1>5 DEF s, t

(* The header maps of one entry and of two. *)
LEMMA OneEntry ==
    ASSUME NEW none, NEW e, DOMAIN none = {}, DOMAIN e = {1}, e[1][1][2] # NotAName, e[1][2] # Unreadable
    PROVE  /\ insert_headers(none, e) = {WithEntries(none, e)}
           /\ \A b : b # e[1][1] => response_header(WithEntries(none, e), b) = {}
<1>1. insert_headers(none, e) = {WithEntries(none, e)}
  BY DEF insert_headers
<1>2. DOMAIN WithEntries(none, e) = {e[1][1]}
  BY DEF WithEntries
<1> QED
  BY <1>1, <1>2 DEF response_header

LEMMA TwoEntries ==
    ASSUME NEW none, NEW e, DOMAIN none = {}, DOMAIN e = {1, 2}, e[1][1] # e[2][1],
           e[1][1][2] # NotAName, e[1][2] # Unreadable, e[2][1][2] # NotAName, e[2][2] # Unreadable
    PROVE  /\ insert_headers(none, e) = {WithEntries(none, e)}
           /\ response_header(WithEntries(none, e), e[2][1]) = {e[2][2]}
<1>1. insert_headers(none, e) = {WithEntries(none, e)}
  BY DEF insert_headers
<1>2. DOMAIN WithEntries(none, e) = {e[1][1], e[2][1]}
  BY DEF WithEntries
<1>3. (CHOOSE i \in DOMAIN e : e[i][1] = e[2][1]) = 2
  OBVIOUS
<1>4. WithEntries(none, e)[e[2][1]] = e[2][2]
  BY <1>2, <1>3 DEF WithEntries
<1> QED
  BY <1>1, <1>2, <1>4 DEF response_header

(* The headers that a copy generates. *)
LEMMA CopyEntries ==
    ASSUME NEW r, r.op = "upload_part_copy"
    PROVE  Entries(r) =
             {<< <<Name("x-amz-copy-source"), <<"source">>>> >>
              \o insert_optional_header(Name("x-amz-copy-source-range"), RangeHeader(r.range))}
<1> DEFINE create == IF \E i \in DOMAIN r.metadata : r.metadata[i][1][1] = "" THEN {}
                     ELSE {insert_user_metadata(r.metadata)}
           upload == IF r.checksum = {<<"malformed">>} THEN {}
                     ELSE {insert_optional_header(Name("x-amz-checksum-sha256"), r.checksum)}
           copy == {<< <<Name("x-amz-copy-source"), <<"source">>>> >>
                    \o insert_optional_header(Name("x-amz-copy-source-range"), RangeHeader(r.range))}
           complete == IF validate_completed_parts(r.parts)
                       THEN {<< <<Name("content-type"), <<"application/xml">>>> >>} ELSE {}
<1>1. Entries(r) = CASE r.op = "create" -> create [] r.op = "upload_part" -> upload
                     [] r.op = "upload_part_copy" -> copy [] r.op = "complete" -> complete
                     [] OTHER -> {<<>>}
  BY Zenon DEF Entries
<1> HIDE DEF create, upload, copy, complete
<1>2. Entries(r) = copy
  BY <1>1
<1> QED
  BY <1>2 DEF copy

(* The range header of a copy is the range the caller named. *)
LEMMA CopyHeaders ==
    ASSUME MultipartAssumption, NEW r, IsRequest(r), r.op = "upload_part_copy"
    PROVE  response_header(Message(r).headers, Name("x-amz-copy-source-range")) = RangeHeader(r.range)
<1> DEFINE source == Name("x-amz-copy-source")
           name == Name("x-amz-copy-source-range")
           text == <<"source">>
           rest == insert_optional_header(name, RangeHeader(r.range))
           entries == << <<source, text>> >> \o rest
           none == [n \in {} |-> <<>>]
<1>1. Headers(r) = insert_headers(none, entries)
  <2>1. Headers(r) = UNION {insert_headers(none, e) : e \in {entries}}
    BY CopyEntries DEF Headers
  <2> HIDE DEF entries, none
  <2> QED
    BY <2>1
<1>2. source # name /\ source[2] # NotAName /\ name[2] # NotAName /\ text # Unreadable
  BY DEF Name, NotAName, Unreadable
<1>3. DOMAIN none = {}
  OBVIOUS
<1> HIDE DEF source, name, text, entries, none
<1>4. CASE r.range = {}
  <2>1. RangeHeader(r.range) = {} /\ rest = <<>>
    BY <1>4 DEF RangeHeader, insert_optional_header
  <2>2. entries = << <<source, text>> >>
    BY <2>1, Concat1 DEF entries
  <2>3. DOMAIN entries = {1} /\ entries[1][1] = source /\ entries[1][2] = text
    BY <2>2
  <2>4. Message(r).headers = WithEntries(none, entries)
    <3>1. insert_headers(none, entries) = {WithEntries(none, entries)}
      BY <1>2, <1>3, <2>3, OneEntry
    <3> QED
      BY <1>1, <3>1, SomeOne, MessageFields
  <2>5. response_header(Message(r).headers, name) = {}
    BY <1>2, <1>3, <2>3, <2>4, OneEntry
  <2> QED
    BY <2>1, <2>5 DEF name
<1>5. CASE r.range # {}
  <2>1. PICK one \in r.range : r.range = {one}
    BY <1>5 DEF MultipartAssumption, IsRequest
  <2> DEFINE value == <<"bytes=", one[1], one[2]>>
  <2>2. RangeHeader(r.range) = {value}
    BY <2>1 DEF RangeHeader
  <2>3. value # Unreadable
    BY DEF Unreadable
  <2> HIDE DEF value
  <2>4. rest = << <<name, value>> >>
    BY <2>2, SomeOne DEF insert_optional_header
  <2>5. entries = << <<source, text>>, <<name, value>> >>
    BY <2>4, Concat2 DEF entries
  <2>6. /\ DOMAIN entries = {1, 2}
        /\ entries[1][1] = source /\ entries[1][2] = text /\ entries[2][1] = name /\ entries[2][2] = value
    BY <2>5
  <2>7. Message(r).headers = WithEntries(none, entries)
    <3>1. insert_headers(none, entries) = {WithEntries(none, entries)}
      BY <1>2, <1>3, <2>3, <2>6, TwoEntries
    <3> QED
      BY <1>1, <3>1, SomeOne, MessageFields
  <2>8. response_header(Message(r).headers, name) = {value}
    BY <1>2, <1>3, <2>3, <2>6, <2>7, TwoEntries
  <2> QED
    BY <2>2, <2>8 DEF name
<1> QED
  BY <1>4, <1>5

(* What the service copies is what the caller named. *)
LEMMA CopiedData ==
    ASSUME MultipartAssumption, NEW r, IsRequest(r), r.op = "upload_part_copy",
           NEW m, m.message = Message(r)
    PROVE  Copied(m) = PartData(r)
<1> DEFINE header == response_header(m.message.headers, Name("x-amz-copy-source-range"))
<1>1. header = RangeHeader(r.range)
  BY CopyHeaders
<1> HIDE DEF header
<1>2. Copied(m) = IF header = {} THEN SourceData
                  ELSE SubSeq(SourceData, Some(header)[2] + 1, Some(header)[3] + 1)
  BY DEF Copied, header
<1>3. CASE r.range = {}
  BY <1>1, <1>2, <1>3 DEF RangeHeader, PartData
<1>4. CASE r.range # {}
  <2>1. PICK one \in r.range : r.range = {one}
    BY <1>4 DEF MultipartAssumption, IsRequest
  <2> DEFINE value == <<"bytes=", one[1], one[2]>>
  <2>2. header = {value}
    BY <1>1, <2>1 DEF RangeHeader
  <2>3. value[2] = one[1] /\ value[3] = one[2]
    OBVIOUS
  <2> HIDE DEF value
  <2>4. Some(header) = value /\ Some(r.range) = one
    BY <2>1, <2>2, SomeOne
  <2> QED
    BY <1>2, <2>1, <2>2, <2>3, <2>4 DEF PartData
<1> QED
  BY <1>3, <1>4

-------------------------------------------------------------------------------
(* A step of the service for m: what it did goes into the history of the     *)
(* call if the call is the caller's last one, and the answer is true of it.  *)
Logged(m, did) ==
    /\ DOMAIN log' = Callers
    /\ \A c \in Callers : log'[c] = IF c = m.caller /\ serial[c] = m.serial THEN log[c] \cup did ELSE log[c]

Effect(m, answer, did) ==
    /\ Deliver(m, answer) /\ Logged(m, did)
    /\ \A r : IsRequest(r) /\ m.message = Message(r) => Truth(r, answer, did)

LEMMA DidLogged ==
    ASSUME DOMAIN log = Callers, NEW m, NEW what, Did(m, what)
    PROVE  Logged(m, {what})
BY DEF Did, Logged

(* A refusal is true of any request. *)
LEMMA RefuseEffect ==
    ASSUME ServiceTypes, DOMAIN log = Callers, NEW m, NEW status \in {400, 404}, Refuse(m, status)
    PROVE  ServiceTypes' /\ \E answer, did : Effect(m, answer, did)
<1> DEFINE answer == Say(status, "Error", {})
<1>1. Deliver(m, answer) /\ UNCHANGED <<uploads, object, log>>
  BY DEF Refuse
<1>2. answer.status = status
  BY DEF Say
<1> HIDE DEF answer
<1>3. Logged(m, {})
  BY <1>1 DEF Logged
<1>4. ASSUME NEW r PROVE Truth(r, answer, {})
  BY <1>2 DEF Truth
<1>5. Effect(m, answer, {})
  BY <1>1, <1>3, <1>4 DEF Effect
<1>6. ServiceTypes'
  BY <1>1 DEF ServiceTypes
<1> QED
  BY <1>5, <1>6

(* An error document behind a 200 is true of any copy or completion. *)
LEMMA EmbeddedEffect ==
    ASSUME ServiceTypes, DOMAIN log = Callers, NEW m, m.message.op \in {"upload_part_copy", "complete"},
           Deliver(m, Say(200, "Error", {})), UNCHANGED <<uploads, object, log>>
    PROVE  ServiceTypes' /\ \E answer, did : Effect(m, answer, did)
<1> DEFINE answer == Say(200, "Error", {})
<1>1. answer.root = "Error"
  BY DEF Say
<1> HIDE DEF answer
<1>2. Logged(m, {})
  BY DEF Logged
<1>3. ASSUME NEW r, IsRequest(r), m.message = Message(r)
      PROVE  Truth(r, answer, {})
  <2>1. r.op \in {"upload_part_copy", "complete"}
    BY <1>3, MessageFields
  <2> QED
    BY <1>1, <2>1 DEF Truth, PartCalls
<1>4. Effect(m, answer, {})
  BY <1>2, <1>3 DEF Effect, answer
<1>5. ServiceTypes'
  BY DEF ServiceTypes
<1> QED
  BY <1>4, <1>5

LEMMA ServeCreateEffect ==
    ASSUME MultipartAssumption, ServiceTypes, DOMAIN log = Callers, NEW m, m.message.op = "create", ServeCreate(m)
    PROVE  ServiceTypes' /\ \E answer, did : Effect(m, answer, did)
<1>0. PICK u \in 1..MaxUploads :
         /\ uploads' = [uploads EXCEPT ![u].status = "open"] /\ Did(m, <<"opened", u>>)
         /\ \E id \in {0, u} : Deliver(m, Say(200, "Result", {id}))
         /\ UNCHANGED object
  BY DEF ServeCreate
<1>1. PICK id \in {0, u} : Deliver(m, Say(200, "Result", {id}))
  BY <1>0
<1> DEFINE answer == Say(200, "Result", {id})
           did == {<<"opened", u>>}
<1>2. answer.status = 200 /\ answer.value = {id}
  BY DEF Say
<1> HIDE DEF answer
<1>3. Logged(m, did)
  BY <1>0, DidLogged
<1>4. ASSUME NEW r, IsRequest(r), m.message = Message(r)
      PROVE  Truth(r, answer, did)
  <2>1. r.op = "create"
    BY <1>4, MessageFields
  <2>2. \E v \in 1..MaxUploads : did = {<<"opened", v>>} /\ answer.value \subseteq {0, v}
    BY <1>2
  <2> QED
    BY <1>2, <2>1, <2>2 DEF Truth, PartCalls
<1>5. Effect(m, answer, did)
  BY <1>1, <1>3, <1>4 DEF Effect, answer
<1>6. ServiceTypes'
  BY <1>0 DEF ServiceTypes, Status
<1> QED
  BY <1>5, <1>6

(* A part that is stored leaves the other parts alone. *)
LEMMA StoredTypes ==
    ASSUME ServiceTypes, NEW m, NEW data, m.message.query.uploadId \in 1..MaxUploads,
           m.message.query.partNumber \in Parts, Stored(m, data)
    PROVE  ServiceTypes'
<1> DEFINE u == m.message.query.uploadId
           p == m.message.query.partNumber
<1>1. uploads' = [uploads EXCEPT ![u].parts[p] = {data}] /\ UNCHANGED object
  BY DEF Stored
<1>2. u \in 1..MaxUploads /\ p \in Parts
  OBVIOUS
<1> HIDE DEF u, p
<1>3. DOMAIN uploads' = 1..MaxUploads
  BY <1>1 DEF ServiceTypes
<1>4. uploads'[u] = [status |-> uploads[u].status, parts |-> [uploads[u].parts EXCEPT ![p] = {data}]]
  <2>1. uploads'[u] = [uploads[u] EXCEPT !.parts[p] = {data}]
    BY <1>1, <1>2 DEF ServiceTypes
  <2>2. uploads[u] = [status |-> uploads[u].status, parts |-> uploads[u].parts]
    BY <1>2 DEF ServiceTypes
  <2> QED
    BY <2>1, <2>2
<1>5. \A v \in 1..MaxUploads : v # u => uploads'[v] = uploads[v]
  BY <1>1 DEF ServiceTypes
<1>6. /\ DOMAIN uploads'[u].parts = Parts
      /\ \A q \in Parts : \A d \in uploads'[u].parts[q] : uploads'[u].parts[q] = {d}
  BY <1>2, <1>4 DEF ServiceTypes
<1>7. \A v \in 1..MaxUploads :
         /\ uploads'[v] = [status |-> uploads'[v].status, parts |-> uploads'[v].parts]
         /\ uploads'[v].status \in Status
         /\ DOMAIN uploads'[v].parts = Parts
         /\ \A q \in Parts : \A d \in uploads'[v].parts[q] : uploads'[v].parts[q] = {d}
  <2> SUFFICES ASSUME NEW v \in 1..MaxUploads
               PROVE  /\ uploads'[v] = [status |-> uploads'[v].status, parts |-> uploads'[v].parts]
                      /\ uploads'[v].status \in Status
                      /\ DOMAIN uploads'[v].parts = Parts
                      /\ \A q \in Parts : \A d \in uploads'[v].parts[q] : uploads'[v].parts[q] = {d}
    OBVIOUS
  <2>1. CASE v = u
    BY <1>2, <1>4, <1>6, <2>1 DEF ServiceTypes
  <2>2. CASE v # u
    BY <1>5, <2>2 DEF ServiceTypes
  <2> QED
    BY <2>1, <2>2
<1> QED
  BY <1>1, <1>3, <1>7 DEF ServiceTypes

(* The answer to a part that was stored. *)
LEMMA StoredEffect ==
    ASSUME ServiceTypes, DOMAIN log = Callers, NEW m, m.message.op \in PartCalls, NEW data, NEW answer,
           m.message.query.uploadId \in 1..MaxUploads, m.message.query.partNumber \in Parts,
           Stored(m, data), Deliver(m, answer), answer.status = 200, answer.value \subseteq {ETag(data)},
           \A r : IsRequest(r) /\ m.message = Message(r) => data = PartData(r)
    PROVE  ServiceTypes' /\ \E a, did : Effect(m, a, did)
<1> DEFINE did == {<<"stored", m.message.query.partNumber, data>>}
<1>1. Logged(m, did)
  BY DidLogged DEF Stored
<1>2. ASSUME NEW r, IsRequest(r), m.message = Message(r)
      PROVE  Truth(r, answer, did)
  <2>1. r.op \in PartCalls /\ m.message.query.partNumber = r.part /\ data = PartData(r)
    BY <1>2, MessageFields
  <2> QED
    BY <2>1 DEF Truth, PartCalls
<1>3. Effect(m, answer, did)
  BY <1>1, <1>2 DEF Effect
<1> QED
  BY <1>3, StoredTypes

LEMMA ServePartEffect ==
    ASSUME ServiceTypes, DOMAIN log = Callers, NEW m, m.message.op = "upload_part", IsMessage(m.message), ServePart(m)
    PROVE  ServiceTypes' /\ \E answer, did : Effect(m, answer, did)
<1>1. CASE \E status \in {400, 404} : Refuse(m, status)
  BY <1>1, RefuseEffect
<1>2. CASE ~\E status \in {400, 404} : Refuse(m, status)
  <2>1. PICK tag \in {{}, {ETag(m.message.body)}} :
           /\ m.message.query.partNumber \in Parts
           /\ Stored(m, m.message.body) /\ Deliver(m, Say(200, "none", tag))
    BY <1>2 DEF ServePart
  <2>2. m.message.query.uploadId \in 1..MaxUploads
    BY DEF IsMessage
  <2>3. Say(200, "none", tag).status = 200 /\ Say(200, "none", tag).value \subseteq {ETag(m.message.body)}
    BY DEF Say
  <2>4. ASSUME NEW r, IsRequest(r), m.message = Message(r)
        PROVE  m.message.body = PartData(r)
    BY <2>4, MessageFields DEF PartData
  <2>5. m.message.op \in PartCalls
    BY DEF PartCalls
  <2> QED
    BY <2>1, <2>2, <2>3, <2>4, <2>5, StoredEffect
<1> QED
  BY <1>1, <1>2

LEMMA ServePartCopyEffect ==
    ASSUME MultipartAssumption, ServiceTypes, DOMAIN log = Callers, NEW m, m.message.op = "upload_part_copy",
           IsMessage(m.message), ServePartCopy(m)
    PROVE  ServiceTypes' /\ \E answer, did : Effect(m, answer, did)
<1>1. CASE \E status \in {400, 404} : Refuse(m, status)
  BY <1>1, RefuseEffect
<1>2. CASE Deliver(m, Say(200, "Error", {})) /\ UNCHANGED <<uploads, object, log>>
  BY <1>2, EmbeddedEffect
<1>3. CASE /\ m.message.query.partNumber \in Parts
           /\ Stored(m, Copied(m)) /\ Deliver(m, Say(200, "Result", {ETag(Copied(m))}))
  <2>1. m.message.query.uploadId \in 1..MaxUploads /\ m.message.op \in PartCalls
    BY DEF IsMessage, PartCalls
  <2>2. /\ Say(200, "Result", {ETag(Copied(m))}).status = 200
        /\ Say(200, "Result", {ETag(Copied(m))}).value \subseteq {ETag(Copied(m))}
    BY DEF Say
  <2>3. ASSUME NEW r, IsRequest(r), m.message = Message(r)
        PROVE  Copied(m) = PartData(r)
    BY <2>3, MessageFields, CopiedData
  <2> QED
    BY <1>3, <2>1, <2>2, <2>3, StoredEffect
<1> QED
  BY <1>1, <1>2, <1>3 DEF ServePartCopy

LEMMA ServeAbortEffect ==
    ASSUME ServiceTypes, DOMAIN log = Callers, NEW m, m.message.op = "abort", IsMessage(m.message), ServeAbort(m)
    PROVE  ServiceTypes' /\ \E answer, did : Effect(m, answer, did)
<1> DEFINE u == m.message.query.uploadId
           did == {<<"aborted", u>>}
<1>1. CASE Refuse(m, 404)
  BY <1>1, RefuseEffect
<1>2. CASE ~Refuse(m, 404)
  <2>1. /\ uploads' = [uploads EXCEPT ![u].status = "aborted"] /\ Did(m, <<"aborted", u>>)
        /\ Deliver(m, Say(200, "none", {})) /\ UNCHANGED object
    BY <1>2 DEF ServeAbort
  <2>2. u \in 1..MaxUploads
    BY DEF IsMessage
  <2> HIDE DEF u
  <2>3. Logged(m, did)
    BY <2>1, DidLogged
  <2>4. ASSUME NEW r, IsRequest(r), m.message = Message(r)
        PROVE  Truth(r, Say(200, "none", {}), did)
    <3>1. r.op = "abort"
      BY <2>4, MessageFields
    <3> QED
      BY <3>1 DEF Truth, PartCalls, Say
  <2>5. Effect(m, Say(200, "none", {}), did)
    BY <2>1, <2>3, <2>4 DEF Effect
  <2>6. ServiceTypes'
    BY <2>1, <2>2 DEF ServiceTypes, Status
  <2> QED
    BY <2>5, <2>6
<1> QED
  BY <1>1, <1>2

LEMMA ServeListEffect ==
    ASSUME ServiceTypes, DOMAIN log = Callers, NEW m, m.message.op \in {"list_parts", "list_uploads"},
           IsMessage(m.message), ServeList(m)
    PROVE  ServiceTypes' /\ \E answer, did : Effect(m, answer, did)
<1>1. UNCHANGED <<uploads, object, log>>
  BY DEF ServeList
<1>2. Logged(m, {}) /\ ServiceTypes'
  BY <1>1 DEF Logged, ServiceTypes
<1>3. \E answer : Effect(m, answer, {})
  <2>1. CASE m.message.op = "list_uploads"
    <3> DEFINE open == {u \in 1..MaxUploads : uploads[u].status = "open"}
               answer == Say(200, "Result", open)
    <3>1. Deliver(m, answer)
      BY <2>1 DEF ServeList
    <3>2. answer.value = open
      BY DEF Say
    <3>3. open \subseteq 1..MaxUploads
      OBVIOUS
    <3> HIDE DEF answer, open
    <3>4. ASSUME NEW r, IsRequest(r), m.message = Message(r)
          PROVE  Truth(r, answer, {})
      <4>1. r.op = "list_uploads"
        BY <2>1, <3>4, MessageFields
      <4> QED
        BY <3>2, <3>3, <4>1 DEF Truth, PartCalls
    <3> QED
      BY <1>2, <3>1, <3>4 DEF Effect
  <2>2. CASE m.message.op = "list_parts" /\ IsOpen(m)
    <3> DEFINE parts == uploads[m.message.query.uploadId].parts
               listed == {<<p, ETag(Some(parts[p]))>> : p \in {q \in Parts : parts[q] # {}}}
               answer == Say(200, "Result", listed)
    <3>1. Deliver(m, answer)
      BY <2>2 DEF ServeList
    <3>2. answer.value = listed
      BY DEF Say
    <3>3. \A k \in listed : k[1] \in Parts
      OBVIOUS
    <3> HIDE DEF answer, listed
    <3>4. ASSUME NEW r, IsRequest(r), m.message = Message(r)
          PROVE  Truth(r, answer, {})
      <4>1. r.op = "list_parts"
        BY <2>2, <3>4, MessageFields
      <4> QED
        BY <3>2, <3>3, <4>1 DEF Truth, PartCalls
    <3> QED
      BY <1>2, <3>1, <3>4 DEF Effect
  <2>3. CASE m.message.op = "list_parts" /\ ~IsOpen(m)
    <3> DEFINE answer == Say(404, "Error", {})
    <3>1. Deliver(m, answer)
      BY <2>3 DEF ServeList
    <3>2. answer.status = 404
      BY DEF Say
    <3> HIDE DEF answer
    <3>3. ASSUME NEW r PROVE Truth(r, answer, {})
      BY <3>2 DEF Truth
    <3> QED
      BY <1>2, <3>1, <3>3 DEF Effect
  <2> QED
    BY <2>1, <2>2, <2>3
<1> QED
  BY <1>2, <1>3

(* What the service puts together is what the completion names. *)
LEMMA CompletedData ==
    ASSUME NEW r, IsRequest(r), r.op = "complete", NEW parts,
           \A p \in Parts : \A data \in parts[p] : parts[p] = {data},
           \A i \in DOMAIN CompleteDocument(r) :
              \E data \in parts[CompleteDocument(r)[i].PartNumber] : ETag(data) = CompleteDocument(r)[i].ETag
    PROVE  FlattenSeq([i \in DOMAIN CompleteDocument(r) |-> Some(parts[CompleteDocument(r)[i].PartNumber])])
             = Named(r)
<1>1. /\ DOMAIN CompleteDocument(r) = DOMAIN r.parts
      /\ \A i \in DOMAIN r.parts : /\ CompleteDocument(r)[i].PartNumber = r.parts[i][1]
                                   /\ CompleteDocument(r)[i].ETag = r.parts[i][2]
  BY DEF CompleteDocument
<1>2. ASSUME NEW i \in DOMAIN r.parts
      PROVE  Some(parts[CompleteDocument(r)[i].PartNumber]) = r.parts[i][2][2]
  <2>1. PICK data \in parts[r.parts[i][1]] : ETag(data) = r.parts[i][2]
    BY <1>1
  <2>2. parts[r.parts[i][1]] = {data}
    BY <2>1 DEF IsRequest
  <2>3. ETag(data)[2] = data
    BY DEF ETag
  <2>4. Some(parts[r.parts[i][1]]) = data
    BY <2>2, SomeOne
  <2> QED
    BY <1>1, <2>1, <2>3, <2>4
<1>3. [i \in DOMAIN CompleteDocument(r) |-> Some(parts[CompleteDocument(r)[i].PartNumber])]
        = [i \in DOMAIN r.parts |-> r.parts[i][2][2]]
  BY <1>1, <1>2
<1> QED
  BY <1>3 DEF Named

LEMMA ServeCompleteEffect ==
    ASSUME ServiceTypes, DOMAIN log = Callers, NEW m, m.message.op = "complete", IsMessage(m.message), ServeComplete(m)
    PROVE  ServiceTypes' /\ \E answer, did : Effect(m, answer, did)
<1> DEFINE u == m.message.query.uploadId
           document == m.message.body
           parts == uploads[u].parts
           data == FlattenSeq([i \in DOMAIN document |-> Some(parts[document[i].PartNumber])])
           did == {<<"completed", data>>}
           valid == /\ \A i \in DOMAIN document :
                          \E d \in parts[document[i].PartNumber] : ETag(d) = document[i].ETag
                    /\ \A i \in 1..(Len(document) - 1) : document[i].PartNumber < document[i + 1].PartNumber
           embedded == Deliver(m, Say(200, "Error", {})) /\ UNCHANGED <<uploads, object, log>>
           finished == /\ uploads' = [uploads EXCEPT ![u].status = "completed"]
                       /\ object' = {data} /\ Did(m, <<"completed", data>>)
                       /\ \E damaged \in BOOLEAN :
                             Deliver(m, Say(200, IF damaged THEN "damaged" ELSE "Result", {}))
<1>1. CASE Refuse(m, 404) \/ Refuse(m, 400)
  BY <1>1, RefuseEffect
<1>2. CASE embedded
  BY <1>2, EmbeddedEffect
<1>3. CASE valid /\ finished
  <2>0. PICK damaged \in BOOLEAN : Deliver(m, Say(200, IF damaged THEN "damaged" ELSE "Result", {}))
    BY <1>3, Zenon
  <2> DEFINE answer == Say(200, IF damaged THEN "damaged" ELSE "Result", {})
  <2>1. Deliver(m, answer) /\ answer.status = 200
    BY <2>0 DEF Say
  <2> HIDE DEF answer
  <2>2. u \in 1..MaxUploads
    BY DEF IsMessage
  <2>3. Logged(m, did)
    BY <1>3, DidLogged
  <2>4. ASSUME NEW r, IsRequest(r), m.message = Message(r)
        PROVE  Truth(r, answer, did)
    <3>1. r.op = "complete" /\ document = CompleteDocument(r)
      BY <2>4, MessageFields
    <3>2. \A p \in Parts : \A d \in parts[p] : parts[p] = {d}
      BY <2>2 DEF ServiceTypes
    <3>3. data = Named(r)
      <4>1. \A i \in DOMAIN document : \E d \in parts[document[i].PartNumber] : ETag(d) = document[i].ETag
        BY <1>3, Zenon
      <4> HIDE DEF document, parts
      <4>2. \A i \in DOMAIN CompleteDocument(r) :
              \E d \in parts[CompleteDocument(r)[i].PartNumber] : ETag(d) = CompleteDocument(r)[i].ETag
        BY <3>1, <4>1, Zenon
      <4>3. FlattenSeq([i \in DOMAIN CompleteDocument(r) |-> Some(parts[CompleteDocument(r)[i].PartNumber])])
              = Named(r)
        BY <2>4, <3>1, <3>2, <4>2, CompletedData, Zenon
      <4>4. QED
        BY <3>1, <4>3, Zenon
    <3> HIDE DEF data
    <3> QED
      BY <2>1, <3>1, <3>3 DEF Truth, PartCalls
  <2>5. Effect(m, answer, did)
    BY <2>1, <2>3, <2>4 DEF Effect
  <2>6. ServiceTypes'
    <3> HIDE DEF data, u
    <3> QED
      BY <1>3, <2>2 DEF ServiceTypes, Status
  <2> QED
    BY <2>5, <2>6
<1>4. IF ~IsOpen(m) THEN Refuse(m, 404) ELSE IF ~valid THEN Refuse(m, 400) ELSE embedded \/ finished
  BY Zenon DEF ServeComplete
<1> HIDE DEF valid, embedded, finished
<1> QED
  BY <1>1, <1>2, <1>3, <1>4

-------------------------------------------------------------------------------
(* The invariant gives the types and the properties. *)
LEMMA Implied ==
    ASSUME MultipartAssumption, IInv
    PROVE  TypeOK /\ SessionsAreTruthful
<1>1. TypeOK
  <2>1. Cardinality(object) <= 1
    <3>1. CASE object = {}
      BY <3>1, FS_EmptySet
    <3>2. CASE object # {}
      <4>1. PICK data : object = {data}
        BY <3>2 DEF IInv, ServiceTypes
      <4> QED
        BY <4>1, FS_Singleton
    <3> QED
      BY <3>1, <3>2
  <2> QED
    BY <2>1 DEF TypeOK, IInv, ServiceTypes, CallerTypes, Status
<1>2. CompletedObjectsAreTheNamedParts
  BY DEF IInv, ResultsAreTrue, OutputTrue, Named, CompletedObjectsAreTheNamedParts
<1>3. PartResultsAreStored
  BY DEF IInv, ResultsAreTrue, OutputTrue, PartCalls, PartData, PartResultsAreStored
<1>4. RefusedCallsChangeNothing
  BY DEF IInv, ResultsAreTrue, OutputTrue, RefusedCallsChangeNothing
<1>5. CreatedUploadsAreOwned
  BY DEF IInv, ResultsAreTrue, OutputTrue, CreatedUploadsAreOwned
<1> QED
  BY <1>1, <1>2, <1>3, <1>4, <1>5 DEF SessionsAreTruthful

LEMMA InitIInv ==
    ASSUME MultipartAssumption, Init
    PROVE  IInv
<1>1. ServiceTypes
  BY DEF Init, ServiceTypes, NoUpload, Status
<1>2. CallerTypes
  BY DEF Init, CallerTypes, MultipartAssumption
<1>3. MessagesBelong /\ RepliesAreTrue /\ AnsweredCallsAreQuiet /\ ResultsAreTrue
  BY DEF Init, MessagesBelong, RepliesAreTrue, AnsweredCallsAreQuiet, ResultsAreTrue
<1> QED
  BY <1>1, <1>2, <1>3 DEF IInv

(* Every step of the service has an answer that is true of what it did. *)
LEMMA ServeEffect ==
    ASSUME MultipartAssumption, IInv, NEW m \in flying, Serve(m)
    PROVE  ServiceTypes' /\ \E answer, did : Effect(m, answer, did)
<1>1. ServiceTypes /\ DOMAIN log = Callers /\ IsMessage(m.message)
  BY DEF IInv, CallerTypes, MessagesBelong
<1>2. m.message.op \in Operations
  BY <1>1 DEF IsMessage
<1>3. CASE m.message.op = "create"
  BY <1>1, <1>3, ServeCreateEffect DEF Serve
<1>4. CASE m.message.op = "upload_part"
  BY <1>1, <1>4, ServePartEffect DEF Serve
<1>5. CASE m.message.op = "upload_part_copy"
  BY <1>1, <1>5, ServePartCopyEffect DEF Serve
<1>6. CASE m.message.op \in {"list_parts", "list_uploads"}
  <2>1. ServeList(m)
    BY <1>6 DEF Serve
  <2> QED
    BY <1>1, <1>6, <2>1, ServeListEffect
<1>7. CASE m.message.op = "complete"
  BY <1>1, <1>7, ServeCompleteEffect DEF Serve
<1>8. CASE m.message.op = "abort"
  BY <1>1, <1>8, ServeAbortEffect DEF Serve
<1> QED
  BY <1>2, <1>3, <1>4, <1>5, <1>6, <1>7, <1>8 DEF Operations, PartCalls

LEMMA ServeStep ==
    ASSUME MultipartAssumption, IInv, NEW m \in flying, Serve(m)
    PROVE  IInv'
<1>1. PICK answer, did : Effect(m, answer, did)
  BY ServeEffect
<1>2. ServiceTypes'
  BY ServeEffect
<1>3. flying' = flying \ {m} /\ UNCHANGED <<serial, call, attempts, output, ids, known>>
  BY DEF Serve
<1>4. DOMAIN log' = Callers /\ DOMAIN reply' = Callers
  BY <1>1 DEF Effect, Logged, Deliver, IInv, CallerTypes
<1>5. m.caller \in Callers
  BY DEF IInv, MessagesBelong
<1> DEFINE late(c) == c # m.caller \/ serial[c] # m.serial
           current(c) == c = m.caller /\ serial[c] = m.serial /\ call[c] # {} /\ attempts[c] = m.n
<1>6. ASSUME NEW c \in Callers
      PROVE  log'[c] = IF late(c) THEN log[c] ELSE log[c] \cup did
  BY <1>1 DEF Effect, Logged
<1>7. ASSUME NEW c \in Callers
      PROVE  reply'[c] = IF current(c) THEN {answer} ELSE reply[c]
  BY <1>1 DEF Effect, Deliver, IInv, CallerTypes
<1>8. ASSUME NEW c \in Callers
      PROVE  Pending(c)' = Pending(c) \ {m} /\ (~late(c) => m \in Pending(c))
  BY <1>3 DEF Pending
<1>9. CallerTypes'
  BY <1>3, <1>4, <1>7 DEF IInv, CallerTypes
<1>10. MessagesBelong'
  BY <1>3 DEF IInv, MessagesBelong
<1>11. AnsweredCallsAreQuiet'
  BY <1>3, <1>8 DEF IInv, AnsweredCallsAreQuiet
<1>12. ResultsAreTrue'
  <2> SUFFICES ASSUME NEW c \in Callers, NEW out \in output[c]
               PROVE  OutputTrue(out, log'[c])
    BY <1>3 DEF ResultsAreTrue
  <2>1. OutputTrue(out, log[c])
    BY DEF IInv, ResultsAreTrue
  <2>2. CASE late(c)
    BY <1>6, <2>1, <2>2
  <2>3. CASE ~late(c)
    <3>1. ~(out.kind = "Configuration" \/ (out.kind # "Transport" /\ out.attempts = 1))
      BY <1>8, <2>3 DEF IInv, AnsweredCallsAreQuiet
    <3>2. log[c] \subseteq log'[c]
      BY <1>6
    <3> QED
      BY <2>1, <3>1, <3>2 DEF OutputTrue
  <2> QED
    BY <2>2, <2>3
<1>13. RepliesAreTrue'
  <2> SUFFICES ASSUME NEW c \in Callers
               PROVE  /\ \A a \in reply'[c] :
                            /\ reply'[c] = {a}
                            /\ \E d \in SUBSET log'[c] :
                                  Truth(Some(call[c]), a, d) /\ (attempts[c] = 1 => log'[c] = d)
                      /\ call[c] # {} /\ attempts[c] = 1 =>
                            IF reply'[c] = {} THEN log'[c] = {} ELSE Pending(c)' = {}
    BY <1>3 DEF RepliesAreTrue
  <2>1. CASE late(c)
    <3>1. log'[c] = log[c] /\ reply'[c] = reply[c] /\ Pending(c)' \subseteq Pending(c)
      BY <1>6, <1>7, <1>8, <2>1
    <3> QED
      BY <3>1 DEF IInv, RepliesAreTrue
  <2>2. CASE ~late(c) /\ call[c] = {}
    BY <1>7, <2>2 DEF IInv, CallerTypes
  <2>3. CASE ~late(c) /\ call[c] # {}
    <3>1. PICK r \in call[c] : call[c] = {r} /\ IsRequest(r) /\ attempts[c] > 0
      BY <2>3 DEF IInv, CallerTypes
    <3>2. Some(call[c]) = r
      BY <3>1, SomeOne
    <3>3. m.message = Message(r) /\ m.n <= attempts[c] /\ m.n \in Nat \ {0}
      BY <2>3, <3>2 DEF IInv, MessagesBelong
    <3>4. Truth(r, answer, did)
      BY <1>1, <3>1, <3>3 DEF Effect
    <3>5. log'[c] = log[c] \cup did
      BY <1>6, <2>3
    <3>6. m \in Pending(c)
      BY <1>8, <2>3
    <3>7. CASE attempts[c] = 1
      <4>1. reply[c] = {} /\ log[c] = {}
        BY <2>3, <3>6, <3>7 DEF IInv, RepliesAreTrue
      <4>2. reply'[c] = {answer} /\ log'[c] = did
        BY <1>7, <2>3, <3>3, <3>5, <3>7, <4>1
      <4>3. \A k \in Pending(c) : k = m
        <5> SUFFICES ASSUME NEW k \in Pending(c) PROVE k = m
          OBVIOUS
        <5>1. k \in flying /\ k.caller = c /\ k.serial = serial[c]
          BY DEF Pending
        <5>2. k.n = 1 /\ m.n = 1 /\ k.message = Message(r)
          BY <2>3, <3>2, <3>3, <3>7, <5>1 DEF IInv, MessagesBelong
        <5>3. /\ k = [caller |-> k.caller, serial |-> k.serial, n |-> k.n, message |-> k.message]
              /\ m = [caller |-> m.caller, serial |-> m.serial, n |-> m.n, message |-> m.message]
          BY <5>1 DEF IInv, MessagesBelong
        <5> QED
          BY <2>3, <3>3, <5>1, <5>2, <5>3
      <4> QED
        BY <1>8, <3>2, <3>4, <4>2, <4>3
    <3>8. CASE attempts[c] # 1
      <4>1. CASE current(c)
        BY <1>7, <3>2, <3>4, <3>5, <3>8, <4>1
      <4>2. CASE ~current(c)
        <5>1. reply'[c] = reply[c] /\ log[c] \subseteq log'[c]
          BY <1>7, <3>5, <4>2
        <5> QED
          BY <3>8, <5>1 DEF IInv, RepliesAreTrue
      <4> QED
        BY <4>1, <4>2
    <3> QED
      BY <3>7, <3>8
  <2> QED
    BY <2>1, <2>2, <2>3
<1> QED
  BY <1>2, <1>9, <1>10, <1>11, <1>12, <1>13 DEF IInv

-------------------------------------------------------------------------------
(* A call begins: it is refused before anything is sent, or its first        *)
(* attempt is the only message of the new call.                              *)
LEMMA BeginStep ==
    ASSUME MultipartAssumption, IInv, NEW c \in Callers, NEW r, IsRequest(r), Begin(c, r)
    PROVE  IInv'
<1> DEFINE first == [caller |-> c, serial |-> serial[c] + 1, n |-> 1, message |-> Message(r)]
           refused == [kind |-> "Configuration", call |-> r, attempts |-> 0]
<1>1. /\ call[c] = {} /\ reply[c] = {} /\ serial[c] \in Nat
      /\ serial' = [serial EXCEPT ![c] = @ + 1] /\ log' = [log EXCEPT ![c] = {}]
      /\ UNCHANGED <<uploads, object, reply, ids, known>>
  BY DEF Begin, IInv, CallerTypes
<1>2. first.caller = c /\ first.serial = serial[c] + 1 /\ first.n = 1 /\ first.message = Message(r)
  OBVIOUS
<1>3. refused.kind = "Configuration"
  OBVIOUS
<1>4. \/ /\ output' = [output EXCEPT ![c] = {refused}] /\ UNCHANGED <<call, attempts, flying>>
      \/ /\ call' = [call EXCEPT ![c] = {r}] /\ attempts' = [attempts EXCEPT ![c] = 1]
         /\ flying' = flying \cup {first} /\ output' = [output EXCEPT ![c] = {}]
  BY DEF Begin
<1>5. first = [caller |-> first.caller, serial |-> first.serial, n |-> first.n, message |-> first.message]
  OBVIOUS
<1> HIDE DEF first, refused
<1>6. ServiceTypes'
  BY <1>1 DEF IInv, ServiceTypes
<1>7. /\ serial'[c] = serial[c] + 1 /\ log'[c] = {}
      /\ \A d \in Callers : d # c => serial'[d] = serial[d] /\ log'[d] = log[d] /\ output'[d] = output[d]
                                     /\ call'[d] = call[d] /\ attempts'[d] = attempts[d]
  BY <1>1, <1>4 DEF IInv, CallerTypes
<1>8. \A k \in flying' : k # first => k \in flying
  BY <1>4
<1>9. \A d \in Callers : d # c => Pending(d)' \subseteq Pending(d)
  BY <1>2, <1>7, <1>8 DEF Pending
<1>10. \A k \in flying : k.caller = c => k.serial \in Nat /\ k.serial <= serial[c]
  BY DEF IInv, MessagesBelong
<1>11. \A k \in Pending(c)' : k = first
  BY <1>1, <1>7, <1>8, <1>10 DEF Pending
<1>12. CASE output' = [output EXCEPT ![c] = {refused}] /\ UNCHANGED <<call, attempts, flying>>
  <2>1. output'[c] = {refused} /\ DOMAIN output' = Callers
    BY <1>12 DEF IInv, CallerTypes
  <2>2. CallerTypes'
    BY <1>1, <1>12, <2>1, <1>7 DEF IInv, CallerTypes
  <2>3. MessagesBelong'
    BY <1>1, <1>7, <1>12 DEF IInv, MessagesBelong, CallerTypes
  <2>4. Pending(c)' = {}
    BY <1>1, <1>7, <1>10, <1>12 DEF Pending
  <2>5. RepliesAreTrue'
    BY <1>1, <1>7, <1>9, <1>12 DEF IInv, RepliesAreTrue
  <2>6. AnsweredCallsAreQuiet'
    BY <1>7, <1>9, <2>1, <2>4 DEF IInv, AnsweredCallsAreQuiet
  <2>7. ResultsAreTrue'
    <3>1. OutputTrue(refused, {})
      BY <1>3 DEF OutputTrue
    <3> QED
      BY <1>7, <2>1, <3>1 DEF IInv, ResultsAreTrue
  <2> QED
    BY <1>6, <2>2, <2>3, <2>5, <2>6, <2>7 DEF IInv
<1>13. CASE /\ call' = [call EXCEPT ![c] = {r}] /\ attempts' = [attempts EXCEPT ![c] = 1]
            /\ flying' = flying \cup {first} /\ output' = [output EXCEPT ![c] = {}]
  <2>1. /\ output'[c] = {} /\ call'[c] = {r} /\ attempts'[c] = 1
        /\ DOMAIN output' = Callers /\ DOMAIN call' = Callers
    BY <1>13 DEF IInv, CallerTypes
  <2>2. CallerTypes'
    <3>1. attempts' \in [Callers -> 0..MaxAttempts] /\ serial' \in [Callers -> Nat]
      BY <1>1, <1>13 DEF IInv, CallerTypes, MultipartAssumption
    <3>2. DOMAIN reply' = Callers /\ DOMAIN log' = Callers /\ ids' \subseteq 1..MaxUploads
          /\ \A k \in known' : k[1] \in Parts
      BY <1>1 DEF IInv, CallerTypes
    <3>3. \A d \in Callers :
             /\ call'[d] = {} => reply'[d] = {}
             /\ \A q \in call'[d] : call'[d] = {q} /\ IsRequest(q) /\ attempts'[d] > 0 /\ output'[d] = {}
      BY <1>1, <1>7, <2>1 DEF IInv, CallerTypes
    <3> QED
      BY <2>1, <3>1, <3>2, <3>3 DEF CallerTypes
  <2>3. MessagesBelong'
    <3> SUFFICES ASSUME NEW k \in flying'
                 PROVE  /\ k = [caller |-> k.caller, serial |-> k.serial, n |-> k.n, message |-> k.message]
                        /\ k.caller \in Callers /\ k.serial \in Nat /\ k.n \in Nat \ {0}
                        /\ IsMessage(k.message)
                        /\ k.serial <= serial'[k.caller]
                        /\ k.serial = serial'[k.caller] /\ call'[k.caller] # {} =>
                              k.n <= attempts'[k.caller] /\ k.message = Message(Some(call'[k.caller]))
      BY DEF MessagesBelong
    <3>1. CASE k = first
      <4>1. k = [caller |-> k.caller, serial |-> k.serial, n |-> k.n, message |-> k.message]
        BY <1>5, <3>1, Zenon
      <4>2. IsMessage(k.message) /\ k.message = Message(Some(call'[k.caller]))
        BY <1>2, <2>1, <3>1, RequestMessage, SomeOne
      <4> QED
        BY <1>1, <1>2, <1>7, <2>1, <3>1, <4>1, <4>2
    <3>2. CASE k # first
      <4>1. k \in flying
        BY <1>8, <3>2
      <4>2. CASE k.caller = c
        BY <1>1, <1>7, <1>10, <4>1, <4>2 DEF IInv, MessagesBelong
      <4>3. CASE k.caller # c
        BY <1>7, <4>1, <4>3 DEF IInv, MessagesBelong
      <4> QED
        BY <4>2, <4>3
    <3> QED
      BY <3>1, <3>2
  <2>4. RepliesAreTrue'
    BY <1>1, <1>7, <1>9 DEF IInv, RepliesAreTrue
  <2>5. AnsweredCallsAreQuiet'
    BY <1>7, <1>9, <2>1 DEF IInv, AnsweredCallsAreQuiet
  <2>6. ResultsAreTrue'
    BY <1>7, <2>1 DEF IInv, ResultsAreTrue
  <2> QED
    BY <1>6, <2>2, <2>3, <2>4, <2>5, <2>6 DEF IInv
<1> QED
  BY <1>4, <1>12, <1>13

-------------------------------------------------------------------------------
(* A call ends with a result that is true of what was done for it.           *)
LEMMA FinishStep ==
    ASSUME MultipartAssumption, IInv, NEW c \in Callers, NEW r, call[c] = {r}, NEW kind, NEW value,
           Finish(c, kind, value), reply' = [reply EXCEPT ![c] = {}],
           UNCHANGED <<uploads, object, serial, log>>,
           ids' \subseteq 1..MaxUploads, \A k \in known' : k[1] \in Parts,
           kind # "Configuration", kind # "Transport" => reply[c] # {},
           OutputTrue([kind |-> kind, call |-> r, attempts |-> attempts[c], value |-> value], log[c])
    PROVE  IInv'
<1> DEFINE out == [kind |-> kind, call |-> r, attempts |-> attempts[c], value |-> value]
<1>1. Some(call[c]) = r
  BY SomeOne
<1>2. /\ output' = [output EXCEPT ![c] = {out}] /\ call' = [call EXCEPT ![c] = {}]
      /\ UNCHANGED <<attempts, flying>>
  BY <1>1 DEF Finish
<1>3. out.kind = kind /\ out.attempts = attempts[c] /\ OutputTrue(out, log[c])
  OBVIOUS
<1> HIDE DEF out
<1>4. /\ output'[c] = {out} /\ call'[c] = {} /\ reply'[c] = {}
      /\ DOMAIN output' = Callers /\ DOMAIN call' = Callers /\ DOMAIN reply' = Callers
      /\ \A d \in Callers : d # c => output'[d] = output[d] /\ call'[d] = call[d] /\ reply'[d] = reply[d]
  BY <1>2 DEF IInv, CallerTypes
<1>5. \A d \in Callers : Pending(d)' = Pending(d)
  BY <1>2 DEF Pending
<1>6. ServiceTypes'
  BY DEF IInv, ServiceTypes
<1>7. CallerTypes'
  BY <1>2, <1>4 DEF IInv, CallerTypes
<1>8. MessagesBelong'
  BY <1>2, <1>4 DEF IInv, MessagesBelong
<1>9. RepliesAreTrue'
  BY <1>2, <1>4, <1>5 DEF IInv, RepliesAreTrue
<1>10. AnsweredCallsAreQuiet'
  <2>1. kind # "Transport" /\ attempts[c] = 1 => Pending(c) = {}
    BY DEF IInv, RepliesAreTrue
  <2> QED
    BY <1>3, <1>4, <1>5, <2>1 DEF IInv, AnsweredCallsAreQuiet
<1>11. ResultsAreTrue'
  BY <1>3, <1>4 DEF IInv, ResultsAreTrue
<1> QED
  BY <1>6, <1>7, <1>8, <1>9, <1>10, <1>11 DEF IInv

(* Another attempt, or the end of the call without a result.                 *)
LEMMA RetryStep ==
    ASSUME MultipartAssumption, IInv, NEW c \in Callers, NEW r, call[c] = {r}, NEW kind,
           Retry(c, kind), reply' = [reply EXCEPT ![c] = {}],
           UNCHANGED <<uploads, object, serial, log, ids, known>>,
           kind \in {"Transport", "Server"}, kind # "Transport" => reply[c] # {}
    PROVE  IInv'
<1> DEFINE next == [caller |-> c, serial |-> serial[c], n |-> attempts[c] + 1, message |-> Message(r)]
<1>1. /\ Some(call[c]) = r /\ IsRequest(r) /\ output[c] = {}
      /\ attempts[c] \in Nat /\ attempts[c] > 0 /\ serial[c] \in Nat
  <2>1. Some(call[c]) = r
    BY SomeOne
  <2>2. IsRequest(r) /\ output[c] = {} /\ attempts[c] > 0
    BY DEF IInv, CallerTypes
  <2>3. attempts[c] \in Nat /\ serial[c] \in Nat
    BY DEF IInv, CallerTypes, MultipartAssumption
  <2> QED
    BY <2>1, <2>2, <2>3
<1>2. CASE attempts[c] < MaxAttempts
  <2>1. attempts' = [attempts EXCEPT ![c] = @ + 1] /\ flying' = flying \cup {next} /\ UNCHANGED <<output, call>>
    BY <1>1, <1>2 DEF Retry
  <2>2. /\ next.caller = c /\ next.serial = serial[c] /\ next.n = attempts[c] + 1 /\ next.message = Message(r)
        /\ next = [caller |-> next.caller, serial |-> next.serial, n |-> next.n, message |-> next.message]
    OBVIOUS
  <2> HIDE DEF next
  <2>3. /\ attempts'[c] = attempts[c] + 1 /\ reply'[c] = {} /\ DOMAIN reply' = Callers
        /\ attempts' \in [Callers -> 0..MaxAttempts]
        /\ \A d \in Callers : d # c => attempts'[d] = attempts[d] /\ reply'[d] = reply[d]
    BY <1>1, <1>2, <2>1 DEF IInv, CallerTypes, MultipartAssumption
  <2>4. \A d \in Callers : d # c => Pending(d)' \subseteq Pending(d)
    BY <2>1, <2>2 DEF Pending
  <2>5. ServiceTypes'
    BY DEF IInv, ServiceTypes
  <2>6. CallerTypes'
    <3>1. \A d \in Callers :
             /\ call'[d] = {} => reply'[d] = {}
             /\ \A q \in call'[d] : call'[d] = {q} /\ IsRequest(q) /\ attempts'[d] > 0 /\ output'[d] = {}
      BY <1>1, <2>1, <2>3 DEF IInv, CallerTypes
    <3> QED
      BY <2>1, <2>3, <3>1 DEF IInv, CallerTypes
  <2>7. MessagesBelong'
    <3> SUFFICES ASSUME NEW k \in flying'
                 PROVE  /\ k = [caller |-> k.caller, serial |-> k.serial, n |-> k.n, message |-> k.message]
                        /\ k.caller \in Callers /\ k.serial \in Nat /\ k.n \in Nat \ {0}
                        /\ IsMessage(k.message)
                        /\ k.serial <= serial[k.caller]
                        /\ k.serial = serial[k.caller] /\ call[k.caller] # {} =>
                              k.n <= attempts'[k.caller] /\ k.message = Message(Some(call[k.caller]))
      BY <2>1 DEF MessagesBelong
    <3>1. CASE k = next
      <4>1. k = [caller |-> k.caller, serial |-> k.serial, n |-> k.n, message |-> k.message]
        BY <2>2, <3>1, Zenon
      <4>2. IsMessage(k.message) /\ k.message = Message(Some(call[k.caller]))
        BY <1>1, <2>2, <3>1, RequestMessage
      <4> QED
        BY <1>1, <2>2, <2>3, <3>1, <4>1, <4>2
    <3>2. CASE k # next
      <4>1. k \in flying
        BY <2>1, <3>2
      <4>2. attempts[k.caller] \in Nat
        BY <4>1 DEF IInv, MessagesBelong, CallerTypes, MultipartAssumption
      <4> QED
        BY <1>1, <2>3, <4>1, <4>2 DEF IInv, MessagesBelong
    <3> QED
      BY <3>1, <3>2
  <2>8. RepliesAreTrue'
    BY <1>1, <2>1, <2>3, <2>4 DEF IInv, RepliesAreTrue
  <2>9. AnsweredCallsAreQuiet'
    BY <1>1, <2>1, <2>4 DEF IInv, AnsweredCallsAreQuiet
  <2>10. ResultsAreTrue'
    BY <2>1 DEF IInv, ResultsAreTrue
  <2> QED
    BY <2>5, <2>6, <2>7, <2>8, <2>9, <2>10 DEF IInv
<1>3. CASE ~(attempts[c] < MaxAttempts)
  <2>1. Finish(c, kind, {})
    BY <1>3 DEF Retry
  <2>2. OutputTrue([kind |-> kind, call |-> r, attempts |-> attempts[c], value |-> {}], log[c])
    BY DEF OutputTrue
  <2>3. ids' \subseteq 1..MaxUploads /\ \A k \in known' : k[1] \in Parts
    BY DEF IInv, CallerTypes
  <2> QED
    BY <2>1, <2>2, <2>3, FinishStep
<1> QED
  BY <1>2, <1>3

(* What a caller makes of an answer that is true is true. *)
LEMMA ReceiveStep ==
    ASSUME MultipartAssumption, IInv, NEW c \in Callers, Receive(c)
    PROVE  IInv'
<1>1. PICK r \in call[c] : call[c] = {r} /\ IsRequest(r)
  BY DEF Receive, IInv, CallerTypes
<1>2. PICK answer \in reply[c] : reply[c] = {answer}
  BY DEF Receive, IInv, RepliesAreTrue
<1>3. Some(call[c]) = r /\ Some(reply[c]) = answer
  BY <1>1, <1>2, SomeOne
<1>4. reply' = [reply EXCEPT ![c] = {}] /\ UNCHANGED <<uploads, object, serial, log>>
  BY DEF Receive
<1>5. PICK did \in SUBSET log[c] : Truth(r, answer, did) /\ (attempts[c] = 1 => log[c] = did)
  BY <1>2, <1>3 DEF IInv, RepliesAreTrue
<1>6. ids \subseteq 1..MaxUploads /\ \A k \in known : k[1] \in Parts
  BY DEF IInv, CallerTypes
<1>7. CASE answer.status # 200
  <2> DEFINE kind == IF answer.status = 404 THEN "NotFound" ELSE "InvalidResponse"
             out == [kind |-> kind, call |-> r, attempts |-> attempts[c], value |-> {}]
  <2>1. Finish(c, kind, {}) /\ UNCHANGED <<ids, known>>
    BY <1>3, <1>7 DEF Receive
  <2>2. out.kind = kind /\ out.attempts = attempts[c] /\ kind \in {"NotFound", "InvalidResponse"}
    OBVIOUS
  <2>3. attempts[c] = 1 => log[c] = {}
    BY <1>5, <1>7 DEF Truth
  <2> HIDE DEF out, kind
  <2>4. OutputTrue(out, log[c])
    BY <2>2, <2>3 DEF OutputTrue
  <2> QED
    BY <1>1, <1>2, <1>4, <1>6, <2>1, <2>2, <2>4, FinishStep DEF out
<1>8. CASE answer.status = 200 /\ embedded_error(r.op, answer.root)
  <2>1. Retry(c, "Server") /\ UNCHANGED <<ids, known>>
    BY <1>3, <1>8 DEF Receive
  <2> QED
    BY <1>1, <1>2, <1>4, <2>1, RetryStep
<1>9. CASE answer.status = 200 /\ ~embedded_error(r.op, answer.root) /\ Output(r, answer) = {}
  <2>1. Finish(c, "Malformed", {}) /\ UNCHANGED <<ids, known>>
    BY <1>3, <1>9 DEF Receive
  <2>2. OutputTrue([kind |-> "Malformed", call |-> r, attempts |-> attempts[c], value |-> {}], log[c])
    BY DEF OutputTrue
  <2> QED
    BY <1>1, <1>2, <1>4, <1>6, <2>1, <2>2, FinishStep
<1>10. CASE answer.status = 200 /\ ~embedded_error(r.op, answer.root) /\ Output(r, answer) # {}
  <2> DEFINE value == Output(r, answer)
             out == [kind |-> "Ok", call |-> r, attempts |-> attempts[c], value |-> value]
  <2>1. Finish(c, "Ok", value) /\ Learn(r, answer)
    BY <1>3, <1>10 DEF Receive
  <2>2. out.kind = "Ok" /\ out.call = r /\ out.attempts = attempts[c] /\ out.value = value
    OBVIOUS
  <2>3. r.op = "create" => \E u \in 1..MaxUploads : did = {<<"opened", u>>} /\ answer.value \subseteq {0, u}
    BY <1>5, <1>10 DEF Truth
  <2>4. r.op = "create" => value = {id \in answer.value : id # 0}
    BY DEF Output, ValidUploadId
  <2>5. r.op \in PartCalls => value = {<<r.part, tag>> : tag \in answer.value}
    BY DEF Output, PartCalls
  <2>6. value # {}
    BY <1>10
  <2> HIDE DEF out, value
  <2>7. OutputTrue(out, log[c])
    <3>1. CASE r.op = "create"
      <4>1. PICK u \in 1..MaxUploads : did = {<<"opened", u>>} /\ answer.value \subseteq {0, u}
        BY <2>3, <3>1
      <4>2. \A id \in value : <<"opened", id>> \in log[c]
        BY <1>5, <2>4, <3>1, <4>1
      <4>3. attempts[c] = 1 => Cardinality(log[c]) = 1
        BY <1>5, <4>1, FS_Singleton
      <4> QED
        BY <2>2, <3>1, <4>2, <4>3 DEF OutputTrue, PartCalls
    <3>2. CASE r.op \in PartCalls
      <4>1. answer.root # "Error" \/ r.op = "upload_part"
        BY <1>10, <3>2 DEF embedded_error, PartCalls
      <4>2. did = {<<"stored", r.part, PartData(r)>>} /\ answer.value \subseteq {ETag(PartData(r))}
        BY <1>5, <1>10, <3>2, <4>1 DEF Truth
      <4>3. value = {<<r.part, ETag(PartData(r))>>}
        BY <2>5, <2>6, <3>2, <4>2
      <4> QED
        BY <1>5, <2>2, <3>2, <4>2, <4>3 DEF OutputTrue, PartCalls
    <3>3. CASE r.op = "complete"
      <4>1. did = {<<"completed", Named(r)>>}
        BY <1>5, <1>10, <3>3 DEF Truth, embedded_error
      <4> QED
        BY <1>5, <2>2, <3>3, <4>1 DEF OutputTrue, PartCalls
    <3>4. CASE r.op \notin {"create", "complete"} \cup PartCalls
      BY <2>2, <3>4 DEF OutputTrue
    <3> QED
      BY <3>1, <3>2, <3>3, <3>4
  <2>8. ids' \subseteq 1..MaxUploads
    <3>1. CASE r.op = "create"
      BY <1>6, <2>1, <2>3, <2>4, <3>1 DEF Learn, value
    <3>2. CASE r.op = "list_uploads"
      BY <1>5, <1>6, <1>10, <2>1, <3>2 DEF Learn, Truth
    <3>3. CASE r.op \notin {"create", "list_uploads"}
      BY <1>6, <2>1, <3>3 DEF Learn
    <3> QED
      BY <3>1, <3>2, <3>3
  <2>9. \A k \in known' : k[1] \in Parts
    <3>1. CASE r.op \in PartCalls
      <4>1. known' = known \cup value
        BY <2>1, <3>1 DEF Learn, PartCalls, value
      <4>2. \A k \in value : k[1] = r.part
        BY <2>5, <3>1
      <4> QED
        BY <1>1, <1>6, <3>1, <4>1, <4>2 DEF IsRequest
    <3>2. CASE r.op = "list_parts"
      BY <1>5, <1>6, <1>10, <2>1, <3>2 DEF Learn, Truth
    <3>3. CASE r.op \notin {"list_parts"} \cup PartCalls
      BY <1>6, <2>1, <3>3 DEF Learn, PartCalls
    <3> QED
      BY <3>1, <3>2, <3>3
  <2> QED
    BY <1>1, <1>2, <1>4, <2>1, <2>7, <2>8, <2>9, FinishStep DEF out
<1> QED
  BY <1>7, <1>8, <1>9, <1>10

LEMMA LoseStep ==
    ASSUME MultipartAssumption, IInv, NEW c \in Callers, Lose(c)
    PROVE  IInv'
<1>1. PICK r \in call[c] : call[c] = {r}
  BY DEF Lose, IInv, CallerTypes
<1> QED
  BY <1>1, RetryStep DEF Lose

(* What callers ask for is a request. *)
LEMMA CallStep ==
    ASSUME MultipartAssumption, IInv, NEW c \in Callers,
           \/ create_multipart_upload(c) \/ upload_part(c) \/ upload_part_copy(c) \/ list_parts(c)
           \/ list_multipart_uploads(c) \/ complete_multipart_upload(c) \/ abort_multipart_upload(c)
    PROVE  IInv'
<1>1. ids \subseteq 1..MaxUploads /\ \A k \in known : k[1] \in Parts
  BY DEF IInv, CallerTypes
<1>2. CASE create_multipart_upload(c)
  <2>1. PICK metadata : Begin(c, [op |-> "create", metadata |-> metadata])
    BY <1>2 DEF create_multipart_upload
  <2>2. IsRequest([op |-> "create", metadata |-> metadata])
    BY DEF IsRequest, Operations, PartCalls
  <2> QED
    BY <2>1, <2>2, BeginStep
<1>3. CASE upload_part(c)
  <2>1. PICK u \in ids, p \in Parts, data \in Contents, sum \in Sums :
           Begin(c, [op |-> "upload_part", upload |-> u, part |-> p, data |-> data, checksum |-> sum])
    BY <1>3 DEF upload_part
  <2>2. IsRequest([op |-> "upload_part", upload |-> u, part |-> p, data |-> data, checksum |-> sum])
    BY <1>1 DEF IsRequest, Operations, PartCalls
  <2> QED
    BY <2>1, <2>2, BeginStep
<1>4. CASE upload_part_copy(c)
  <2>1. PICK u \in ids, p \in Parts, range \in Ranges :
           Begin(c, [op |-> "upload_part_copy", upload |-> u, part |-> p, range |-> range])
    BY <1>4 DEF upload_part_copy
  <2>2. IsRequest([op |-> "upload_part_copy", upload |-> u, part |-> p, range |-> range])
    BY <1>1 DEF IsRequest, Operations, PartCalls
  <2> QED
    BY <2>1, <2>2, BeginStep
<1>5. CASE list_parts(c)
  <2>1. PICK u \in ids : Begin(c, [op |-> "list_parts", upload |-> u])
    BY <1>5 DEF list_parts
  <2>2. IsRequest([op |-> "list_parts", upload |-> u])
    BY <1>1 DEF IsRequest, Operations, PartCalls
  <2> QED
    BY <2>1, <2>2, BeginStep
<1>6. CASE list_multipart_uploads(c)
  <2>1. IsRequest([op |-> "list_uploads"])
    BY DEF IsRequest, Operations, PartCalls
  <2> QED
    BY <1>6, <2>1, BeginStep DEF list_multipart_uploads
<1>7. CASE complete_multipart_upload(c)
  <2>1. PICK u \in ids, parts \in {<<k>> : k \in known} \cup {<<j, k>> : j \in known, k \in known} :
           Begin(c, [op |-> "complete", upload |-> u, parts |-> parts])
    BY <1>7 DEF complete_multipart_upload
  <2>2. \A i \in DOMAIN parts : parts[i][1] \in Parts
    BY <1>1
  <2>3. IsRequest([op |-> "complete", upload |-> u, parts |-> parts])
    BY <1>1, <2>2 DEF IsRequest, Operations, PartCalls
  <2> QED
    BY <2>1, <2>3, BeginStep
<1>8. CASE abort_multipart_upload(c)
  <2>1. PICK u \in ids : Begin(c, [op |-> "abort", upload |-> u])
    BY <1>8 DEF abort_multipart_upload
  <2>2. IsRequest([op |-> "abort", upload |-> u])
    BY <1>1 DEF IsRequest, Operations, PartCalls
  <2> QED
    BY <2>1, <2>2, BeginStep
<1> QED
  BY <1>2, <1>3, <1>4, <1>5, <1>6, <1>7, <1>8

-------------------------------------------------------------------------------
LEMMA NextIInv ==
    ASSUME MultipartAssumption, IInv, [Next]_vars
    PROVE  IInv'
<1>1. CASE UNCHANGED vars
  BY <1>1 DEF vars, IInv, ServiceTypes, CallerTypes, MessagesBelong, RepliesAreTrue,
              AnsweredCallsAreQuiet, ResultsAreTrue, Pending
<1>2. CASE Next
  BY <1>2, CallStep, LoseStep, ReceiveStep, ServeStep DEF Next
<1> QED
  BY <1>1, <1>2

(* The state keeps its types, and what a multipart call returns is what      *)
(* happened: a completed object is made of the named parts, a part result    *)
(* was stored, a refused call changed nothing and a created upload is the    *)
(* call's own (client/multipart/), whatever attempts are late, lost or sent  *)
(* again and whatever other callers do with the same upload.                 *)
THEOREM SessionsTruthful ==
    ASSUME MultipartAssumption
    PROVE  Spec => [](TypeOK /\ SessionsAreTruthful)
<1>1. Init => IInv
  BY InitIInv
<1>2. IInv /\ [Next]_vars => IInv'
  BY NextIInv
<1>3. IInv => TypeOK /\ SessionsAreTruthful
  BY Implied
<1> QED
  BY <1>1, <1>2, <1>3, PTL DEF Spec
===============================================================================
