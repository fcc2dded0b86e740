---------------------------- MODULE MultipartSession ----------------------------
(***************************************************************************)
(* The multipart primitives that callers drive themselves                    *)
(* (client/multipart/, operation/multipart/, protocol/multipart/): create,   *)
(* upload a part, copy a part, list parts and uploads, complete, abort.      *)
(* Several callers work on the uploads of one key, each with a few calls one *)
(* after the other; an attempt that was given up may reach the service       *)
(* behind the calls that followed it.                                        *)
(***************************************************************************)
EXTENDS ObjectHeaders

CONSTANTS
    Callers,
    Script,       \* bound: the operations each caller may choose from, call by call
    MaxUploads,   \* bound: uploads the service opens
    MaxPart,      \* PartNumber::MAX
    Contents,     \* bodies of uploaded parts
    Sums,         \* checksums of upload_part, {} is none
    SourceData,   \* the object that parts are copied from
    Ranges,       \* CopyPartRange values, {} is the whole source
    MaxAttempts   \* max_attempts of the retry policy

(* What the constants have to be. *)
MultipartAssumption ==
    /\ MaxUploads \in Nat /\ MaxPart \in Nat /\ MaxAttempts \in Nat \ {0} /\ DOMAIN Script = Callers
    /\ \A range \in Ranges : \A r \in range : range = {r}

VARIABLES
    uploads,    \* service: the uploads by their number
    object,     \* service: the contents of the key, {} is none
    serial,     \* how many calls each caller made
    call,       \* the call a caller waits for, {} is none
    attempts,   \* its attempts
    flying,     \* attempts that may still reach the service
    reply,      \* the answer to the current attempt
    output,     \* what the last call of each caller returned
    ids,        \* upload IDs the callers know
    known,      \* completed-part descriptors the callers know
    log         \* history: what the service did for each caller's last call

vars == <<uploads, object, serial, call, attempts, flying, reply, output, ids, known, log>>

Parts == 1..MaxPart
ETag(data) == <<"etag", data>>
NoUpload == [status |-> "none", parts |-> [p \in Parts |-> {}]]

Init ==
    /\ uploads = [u \in 1..MaxUploads |-> NoUpload] /\ object = {}
    /\ serial = [c \in Callers |-> 0] /\ call = [c \in Callers |-> {}] /\ attempts = [c \in Callers |-> 0]
    /\ flying = {} /\ reply = [c \in Callers |-> {}] /\ output = [c \in Callers |-> {}]
    /\ ids = {} /\ known = {} /\ log = [c \in Callers |-> {}]

-------------------------------------------------------------------------------
(* CompleteMultipartUploadRequest::new and the windows of                    *)
(* validate_completed_parts                                                  *)
validate_completed_parts(parts) ==
    parts # <<>> /\ \A i \in 1..(Len(parts) - 1) : parts[i][1] < parts[i + 1][1]

(* UploadId::new: not empty, bounded and without control bytes; the service  *)
(* numbers its uploads, and 0 stands for an ID that is none of these.        *)
ValidUploadId(id) == id # 0

(* CopyPartRange::header_value *)
RangeHeader(range) == {<<"bytes=", r[1], r[2]>> : r \in range}

(* The headers each call generates; no sequence of entries is an error.  A   *)
(* checksum that is no digest of its algorithm is refused by                 *)
(* valid_base64_digest.                                                      *)
Entries(r) ==
    CASE r.op = "create" ->
            IF \E i \in DOMAIN r.metadata : r.metadata[i][1][1] = "" THEN {}
            ELSE {insert_user_metadata(r.metadata)}
      [] r.op = "upload_part" ->
            IF r.checksum = {<<"malformed">>} THEN {}
            ELSE {insert_optional_header(Name("x-amz-checksum-sha256"), r.checksum)}
      [] r.op = "upload_part_copy" ->
            {<< <<Name("x-amz-copy-source"), <<"source">>>> >>
             \o insert_optional_header(Name("x-amz-copy-source-range"), RangeHeader(r.range))}
      [] r.op = "complete" ->
            IF validate_completed_parts(r.parts) THEN {<< <<Name("content-type"), <<"application/xml">>>> >>}
            ELSE {}
      [] OTHER -> {<<>>}

Headers(r) == UNION {insert_headers([n \in {} |-> <<>>], entries) : entries \in Entries(r)}

(* Mutant of upload_part_query: part numbers count from zero. *)
upload_part_query_from_zero(part, upload) == [partNumber |-> part - 1, uploadId |-> upload]

upload_part_query(part, upload) == [partNumber |-> part, uploadId |-> upload]

(* create_query, upload_query, list_parts_query and list_query *)
Query(r) ==
    CASE r.op \in {"upload_part", "upload_part_copy"} -> upload_part_query(r.part, r.upload)
      [] r.op \in {"create", "list_uploads"} -> [uploads |-> ""]
      [] OTHER -> [uploadId |-> r.upload]

(* The document of serialize_complete_multipart_upload. *)
CompleteDocument(r) == [i \in DOMAIN r.parts |-> [PartNumber |-> r.parts[i][1], ETag |-> r.parts[i][2]]]

(* What the service gets. *)
Message(r) == [op |-> r.op, query |-> Query(r), headers |-> Some(Headers(r)),
               body |-> CASE r.op = "upload_part" -> r.data
                          [] r.op = "complete" -> CompleteDocument(r)
                          [] OTHER -> <<>>]

-------------------------------------------------------------------------------
Begin(c, r) ==
    /\ serial[c] < Len(Script[c]) /\ r.op \in Script[c][serial[c] + 1] /\ call[c] = {}
    /\ serial' = [serial EXCEPT ![c] = @ + 1]
    /\ IF Headers(r) = {}
       THEN /\ output' = [output EXCEPT ![c] = {[kind |-> "Configuration", call |-> r, attempts |-> 0]}]
            /\ UNCHANGED <<call, attempts, flying>>
       ELSE /\ call' = [call EXCEPT ![c] = {r}] /\ attempts' = [attempts EXCEPT ![c] = 1]
            /\ flying' = flying \cup {[caller |-> c, serial |-> serial[c] + 1, n |-> 1, message |-> Message(r)]}
            /\ output' = [output EXCEPT ![c] = {}]
    /\ log' = [log EXCEPT ![c] = {}]
    /\ UNCHANGED <<uploads, object, reply, ids, known>>

create_multipart_upload(c) ==
    \E metadata \in {<<>>, << <<<<"", "lower">>, <<"v">>>> >>} :
        Begin(c, [op |-> "create", metadata |-> metadata])
upload_part(c) ==
    \E u \in ids, p \in Parts, data \in Contents, sum \in Sums :
        Begin(c, [op |-> "upload_part", upload |-> u, part |-> p, data |-> data, checksum |-> sum])
upload_part_copy(c) ==
    \E u \in ids, p \in Parts, range \in Ranges :
        Begin(c, [op |-> "upload_part_copy", upload |-> u, part |-> p, range |-> range])
list_parts(c) == \E u \in ids : Begin(c, [op |-> "list_parts", upload |-> u])
list_multipart_uploads(c) == Begin(c, [op |-> "list_uploads"])
complete_multipart_upload(c) ==
    \E u \in ids, parts \in {<<k>> : k \in known} \cup {<<j, k>> : j \in known, k \in known} :
        Begin(c, [op |-> "complete", upload |-> u, parts |-> parts])
abort_multipart_upload(c) == \E u \in ids : Begin(c, [op |-> "abort", upload |-> u])

Finish(c, kind, value) ==
    /\ output' = [output EXCEPT ![c] = {[kind |-> kind, call |-> Some(call[c]), attempts |-> attempts[c],
                                         value |-> value]}]
    /\ call' = [call EXCEPT ![c] = {}] /\ UNCHANGED <<attempts, flying>>

(* Mutant of Retry: a retry does not count as an attempt. *)
RetryUncounted(c, kind) ==
    \/ /\ flying' = flying \cup {[caller |-> c, serial |-> serial[c], n |-> attempts[c],
                                  message |-> Message(Some(call[c]))]}
       /\ UNCHANGED <<output, call, attempts>>
    \/ Finish(c, kind, {})

Retry(c, kind) ==
    IF attempts[c] < MaxAttempts
    THEN /\ attempts' = [attempts EXCEPT ![c] = @ + 1]
         /\ flying' = flying \cup {[caller |-> c, serial |-> serial[c], n |-> attempts[c] + 1,
                                    message |-> Message(Some(call[c]))]}
         /\ UNCHANGED <<output, call>>
    ELSE Finish(c, kind, {})

(* No answer comes, or a 5xx of a service that did nothing. *)
Lose(c) ==
    /\ call[c] # {} /\ Retry(c, "Transport") /\ reply' = [reply EXCEPT ![c] = {}]
    /\ UNCHANGED <<uploads, object, serial, ids, known, log>>

-------------------------------------------------------------------------------
(* External: the service. *)
Deliver(m, answer) ==
    IF call[m.caller] # {} /\ serial[m.caller] = m.serial /\ attempts[m.caller] = m.n
    THEN reply' = [reply EXCEPT ![m.caller] = {answer}]
    ELSE UNCHANGED reply

Say(status, root, value) == [status |-> status, root |-> root, value |-> value]
Did(m, what) == log' = IF serial[m.caller] = m.serial THEN [log EXCEPT ![m.caller] = @ \cup {what}] ELSE log
Refuse(m, status) == Deliver(m, Say(status, "Error", {})) /\ UNCHANGED <<uploads, object, log>>

(* External: an ID that no client could use is a rare answer to create. *)
ServeCreate(m) ==
    \E u \in 1..MaxUploads :
        /\ uploads[u].status = "none" /\ \A v \in 1..(u - 1) : uploads[v].status # "none"
        /\ uploads' = [uploads EXCEPT ![u].status = "open"] /\ Did(m, <<"opened", u>>)
        /\ \E id \in {0, u} : Deliver(m, Say(200, "Result", {id}))
        /\ UNCHANGED object

Stored(m, data) ==
    /\ uploads' = [uploads EXCEPT ![m.message.query.uploadId].parts[m.message.query.partNumber] = {data}]
    /\ Did(m, <<"stored", m.message.query.partNumber, data>>) /\ UNCHANGED object

IsOpen(m) == uploads[m.message.query.uploadId].status = "open"

(* External: a part's answer may lack a usable ETag. *)
ServePart(m) ==
    IF ~IsOpen(m) THEN Refuse(m, 404)
    ELSE IF \/ m.message.query.partNumber \notin Parts
            \/ \E sum \in response_header(m.message.headers, Name("x-amz-checksum-sha256")) :
                  sum # sha256_base64(m.message.body)
         THEN Refuse(m, 400)
         ELSE /\ Stored(m, m.message.body)
              /\ \E tag \in {{}, {ETag(m.message.body)}} : Deliver(m, Say(200, "none", tag))

Copied(m) ==
    LET range == response_header(m.message.headers, Name("x-amz-copy-source-range"))
    IN  IF range = {} THEN SourceData ELSE SubSeq(SourceData, Some(range)[2] + 1, Some(range)[3] + 1)

ServePartCopy(m) ==
    IF ~IsOpen(m) THEN Refuse(m, 404)
    ELSE IF m.message.query.partNumber \notin Parts
            \/ \E range \in response_header(m.message.headers, Name("x-amz-copy-source-range")) : range[3] >= Len(SourceData)
         THEN Refuse(m, 400)
         ELSE \/ Deliver(m, Say(200, "Error", {})) /\ UNCHANGED <<uploads, object, log>>
              \/ Stored(m, Copied(m)) /\ Deliver(m, Say(200, "Result", {ETag(Copied(m))}))

ServeList(m) ==
    /\ IF m.message.op = "list_uploads"
       THEN Deliver(m, Say(200, "Result", {u \in 1..MaxUploads : uploads[u].status = "open"}))
       ELSE IF IsOpen(m)
            THEN Deliver(m, Say(200, "Result",
                     {<<p, ETag(Some(uploads[m.message.query.uploadId].parts[p]))>> :
                         p \in {q \in Parts : uploads[m.message.query.uploadId].parts[q] # {}}}))
            ELSE Deliver(m, Say(404, "Error", {}))
    /\ UNCHANGED <<uploads, object, log>>

(* External: every part must be there with the ETag that was named, in       *)
(* order.  The status goes out before the parts are put together.            *)
ServeComplete(m) ==
    LET document == m.message.body
        parts == uploads[m.message.query.uploadId].parts
        valid == /\ \A i \in DOMAIN document : \E data \in parts[document[i].PartNumber] : ETag(data) = document[i].ETag
                 /\ \A i \in 1..(Len(document) - 1) : document[i].PartNumber < document[i + 1].PartNumber
        data == FlattenSeq([i \in DOMAIN document |-> Some(parts[document[i].PartNumber])])
    IN  IF ~IsOpen(m) THEN Refuse(m, 404)
        ELSE IF ~valid THEN Refuse(m, 400)
        ELSE \/ Deliver(m, Say(200, "Error", {})) /\ UNCHANGED <<uploads, object, log>>
             \/ /\ uploads' = [uploads EXCEPT ![m.message.query.uploadId].status = "completed"]
                /\ object' = {data} /\ Did(m, <<"completed", data>>)
                /\ \E damaged \in BOOLEAN : Deliver(m, Say(200, IF damaged THEN "damaged" ELSE "Result", {}))

ServeAbort(m) ==
    IF ~IsOpen(m) THEN Refuse(m, 404)
    ELSE /\ uploads' = [uploads EXCEPT ![m.message.query.uploadId].status = "aborted"]
         /\ Did(m, <<"aborted", m.message.query.uploadId>>)
         /\ Deliver(m, Say(200, "none", {})) /\ UNCHANGED object

Serve(m) ==
    /\ flying' = flying \ {m}
    /\ CASE m.message.op = "create" -> ServeCreate(m)
         [] m.message.op = "upload_part" -> ServePart(m)
         [] m.message.op = "upload_part_copy" -> ServePartCopy(m)
         [] m.message.op \in {"list_parts", "list_uploads"} -> ServeList(m)
         [] m.message.op = "complete" -> ServeComplete(m)
         [] m.message.op = "abort" -> ServeAbort(m)
    /\ UNCHANGED <<serial, call, attempts, output, ids, known>>

-------------------------------------------------------------------------------
(* Mutant of embedded_error: any document behind a 200 is a result. *)
embedded_error_blind(op, root) == FALSE

(* upload_part_copy_embedded_error and complete_multipart_embedded_error *)
embedded_error(op, root) == op \in {"upload_part_copy", "complete"} /\ root = "Error"

(* The rest of each operation behind a success, without an output if a       *)
(* required header or field can not be used: required_header of an ETag,     *)
(* parse_create_multipart_upload, optional_header of the version ID.         *)
Output(r, answer) ==
    CASE r.op = "create" -> {id \in answer.value : ValidUploadId(id)}
      [] r.op \in {"upload_part", "upload_part_copy"} -> {<<r.part, tag>> : tag \in answer.value}
      [] r.op = "complete" -> IF answer.root = "damaged" THEN {} ELSE {<<>>}
      [] OTHER -> {<<>>}

(* What callers keep: upload IDs, UploadPartOutput and                       *)
(* UploadPartCopyOutput::completed_part, ListedPart::completed_part.         *)
Learn(r, answer) ==
    /\ ids' = ids \cup (CASE r.op = "create" -> Output(r, answer) [] r.op = "list_uploads" -> answer.value [] OTHER -> {})
    /\ known' = known \cup (CASE r.op \in {"upload_part", "upload_part_copy"} -> Output(r, answer)
                              [] r.op = "list_parts" -> answer.value [] OTHER -> {})

Receive(c) ==
    /\ call[c] # {} /\ reply[c] # {} /\ reply' = [reply EXCEPT ![c] = {}]
    /\ LET r == Some(call[c])
           answer == Some(reply[c])
       IN  IF answer.status # 200
           THEN Finish(c, IF answer.status = 404 THEN "NotFound" ELSE "InvalidResponse", {}) /\ UNCHANGED <<ids, known>>
           ELSE IF embedded_error(r.op, answer.root)
           THEN Retry(c, "Server") /\ UNCHANGED <<ids, known>>
           ELSE IF Output(r, answer) = {}
           THEN Finish(c, "Malformed", {}) /\ UNCHANGED <<ids, known>>
           ELSE Finish(c, "Ok", Output(r, answer)) /\ Learn(r, answer)
    /\ UNCHANGED <<uploads, object, serial, log>>

Next ==
    \/ \E c \in Callers :
          \/ create_multipart_upload(c) \/ upload_part(c) \/ upload_part_copy(c) \/ list_parts(c)
          \/ list_multipart_uploads(c) \/ complete_multipart_upload(c) \/ abort_multipart_upload(c)
          \/ Lose(c) \/ Receive(c)
    \/ \E m \in flying : Serve(m)

Spec == Init /\ [][Next]_vars

-------------------------------------------------------------------------------
TypeOK ==
    /\ \A u \in 1..MaxUploads :
          /\ uploads[u].status \in {"none", "open", "completed", "aborted"}
          /\ DOMAIN uploads[u].parts = Parts
    /\ Cardinality(object) <= 1 /\ serial \in [Callers -> Nat] /\ attempts \in [Callers -> 0..MaxAttempts]
    /\ ids \subseteq 1..MaxUploads
    /\ \A k \in known : k[1] \in Parts

(* A completion that returns Ok made the object out of the parts its caller  *)
(* named, each with the bytes of the ETag that was named: a part that was    *)
(* replaced meanwhile, by another caller or by a late attempt, fails the     *)
(* completion and never gets into the object.                                *)
CompletedObjectsAreTheNamedParts ==
    \A c \in Callers : \A out \in output[c] :
        out.kind = "Ok" /\ out.call.op = "complete" =>
            <<"completed", FlattenSeq([i \in DOMAIN out.call.parts |-> out.call.parts[i][2][2]])>> \in log[c]

(* The ETag that upload_part or upload_part_copy returns is the one of the   *)
(* bytes that the caller gave, or of the range of the source that it named,  *)
(* and the service stored them under the part number during this call.       *)
PartResultsAreStored ==
    \A c \in Callers : \A out \in output[c] :
        out.kind = "Ok" /\ out.call.op \in {"upload_part", "upload_part_copy"} =>
            LET data == IF out.call.op = "upload_part" THEN out.call.data
                        ELSE IF out.call.range = {} THEN SourceData
                        ELSE SubSeq(SourceData, Some(out.call.range)[1] + 1, Some(out.call.range)[2] + 1)
            IN  /\ out.value = {<<out.call.part, ETag(data)>>}
                /\ <<"stored", out.call.part, data>> \in log[c]

(* A call that was refused changed nothing: it was not sent, or its only     *)
(* attempt was answered with an error of the service.                        *)
RefusedCallsChangeNothing ==
    \A c \in Callers : \A out \in output[c] :
        out.kind = "Configuration" \/ (out.kind \in {"NotFound", "InvalidResponse"} /\ out.attempts = 1)
            => log[c] = {}

(* create returns the ID of an upload that this call opened, and a caller    *)
(* that got an answer to its only attempt left no second one behind.         *)
CreatedUploadsAreOwned ==
    \A c \in Callers : \A out \in output[c] :
        out.kind = "Ok" /\ out.call.op = "create" =>
            /\ \A u \in out.value : <<"opened", u>> \in log[c]
            /\ out.attempts = 1 => Cardinality(log[c]) = 1

(* What a multipart call returns is what happened, though attempts are late, *)
(* lost or sent twice and other callers work on the same upload.             *)
SessionsAreTruthful ==
    /\ CompletedObjectsAreTheNamedParts /\ PartResultsAreStored
    /\ RefusedCallsChangeNothing /\ CreatedUploadsAreOwned
===============================================================================
