---------------------------- MODULE ObjectOperations ----------------------------
(***************************************************************************)
(* put_object, get_object, head_object, delete_object, delete_objects and    *)
(* copy_object (client/object/operations.rs) of concurrent callers, against  *)
(* a versioned bucket.  An attempt that the caller has given up may still    *)
(* reach the service, after the attempt that replaced it.  Signing, timeouts *)
(* and the retry quota are in SignedRequest and RequestExecution, the        *)
(* reading of bodies is in ResponseHandling and Download.                    *)
(***************************************************************************)
EXTENDS ObjectHeaders, FiniteSetsExt

CONSTANTS
    Callers,
    Bucket,          \* the configured bucket
    Keys,            \* object keys, as bytes
    Stores,          \* initial contents of the bucket
    Requests,        \* what callers ask for
    MaxAttempts,     \* max_attempts of the retry policy
    MaxXmlSize,      \* max_xml_response_size
    MaxDeleteObjects \* MAX_DELETE_OBJECTS

VARIABLES
    store,      \* service: the versions of each key
    clock,      \* service: the time of the next write, in ticks
    request,    \* what each caller asked for, {} before it did
    attempts,   \* attempts that each caller began
    flying,     \* attempts that may still reach the service
    reply,      \* the answer to a caller's current attempt
    result,     \* what each call returned
    effects     \* history: what each call did to the bucket

vars == <<store, clock, request, attempts, flying, reply, result, effects>>

Init ==
    /\ store \in Stores /\ clock = 0
    /\ request = [c \in Callers |-> {}] /\ attempts = [c \in Callers |-> 0]
    /\ flying = {} /\ reply = [c \in Callers |-> {}] /\ result = [c \in Callers |-> {}]
    /\ effects = [c \in Callers |-> {}]

-------------------------------------------------------------------------------
(* The headers that each operation generates.                                *)
DeleteDocument(r) == [objects |-> r.objects, quiet |-> r.quiet]

(* serialize_bounded: every element of the document counts. *)
DocumentSize(r) ==
    1 + FoldSet(LAMBDA o, n : n + 1 + Cardinality(o.version) + Cardinality(o.if_match), 0, r.objects)

(* Mutant of CopyEntries: the source's conditions are sent as the            *)
(* destination's.                                                            *)
CopyEntriesBare(r) ==
    << <<Name("x-amz-copy-source"), copy_source_header(r.source)>> >>
    \o insert_conditions(r.conditions, "")
    \o (IF r.directive = {} THEN <<>>
        ELSE insert_user_metadata(Some(r.directive))
             \o << <<Name("x-amz-metadata-directive"), <<"REPLACE">>>> >>)

(* copy_object: {} is CopyMetadataDirective::Copy. *)
CopyEntries(r) ==
    << <<Name("x-amz-copy-source"), copy_source_header(r.source)>> >>
    \o insert_conditions(r.conditions, "x-amz-copy-source-")
    \o (IF r.directive = {} THEN <<>>
        ELSE insert_user_metadata(Some(r.directive))
             \o << <<Name("x-amz-metadata-directive"), <<"REPLACE">>>> >>)

(* What each operation inserts; no sequence of entries is an error. *)
Entries(r) ==
    CASE r.op = "put" -> {insert_optional_header(Name("content-type"), r.content_type)
                          \o insert_conditions(r.conditions, "") \o insert_user_metadata(r.metadata) \o sum :
                             sum \in insert_upload_checksum(r.algorithm, r.data)}
      [] r.op = "get" -> {insert_conditions(r.conditions, "")
                          \o << <<Name("x-amz-checksum-mode"), <<"ENABLED">>>> >>
                          \o insert_optional_header(Name("range"), {to_header_value(b) : b \in r.range})}
      [] r.op = "head" -> {insert_conditions(r.conditions, "")
                           \o << <<Name("x-amz-checksum-mode"), <<"ENABLED">>>> >>}
      [] r.op = "delete" -> {insert_optional_header(Name("if-match"), r.conditions.if_match)}
      [] r.op = "copy" -> {CopyEntries(r)}
      [] r.op = "delete_objects" ->
            IF r.objects = {} \/ Cardinality(r.objects) > MaxDeleteObjects \/ DocumentSize(r) > MaxXmlSize
            THEN {}
            ELSE {<< <<Name("content-type"), <<"application/xml">>>>,
                     <<Name("content-md5"), <<"md5", DeleteDocument(r)>>>> >>}

Headers(r) == UNION {insert_headers(own, entries) : own \in request_headers(r.headers), entries \in Entries(r)}

(* A call whose request can not be built returns at once; the others send    *)
(* their first attempt.                                                      *)
Call(c, r) ==
    /\ request[c] = {} /\ request' = [request EXCEPT ![c] = {r}]
    /\ IF Headers(r) = {}
       THEN /\ result' = [result EXCEPT ![c] = {[kind |-> "Configuration"]}]
            /\ UNCHANGED <<attempts, flying>>
       ELSE /\ attempts' = [attempts EXCEPT ![c] = 1] /\ flying' = flying \cup {<<c, 1>>}
            /\ UNCHANGED result
    /\ UNCHANGED <<store, clock, reply, effects>>

Waiting(c) == attempts[c] > 0 /\ result[c] = {}

Return(c, value) ==
    /\ result' = [result EXCEPT ![c] = {value}]
    /\ UNCHANGED <<attempts, flying>>

(* Mutant of Retry: a repeated attempt is not counted. *)
RetryUncounted(c, category) ==
    /\ IF attempts[c] < MaxAttempts /\ Some(request[c]).replayable /\ <<c, attempts[c]>> \notin flying
       THEN flying' = flying \cup {<<c, attempts[c]>>} /\ UNCHANGED <<result, attempts>>
       ELSE Return(c, [kind |-> category])

(* send_signed_inner after a retryable error. *)
Retry(c, category) ==
    /\ IF attempts[c] < MaxAttempts /\ Some(request[c]).replayable
       THEN /\ attempts' = [attempts EXCEPT ![c] = @ + 1]
            /\ flying' = flying \cup {<<c, attempts[c] + 1>>}
            /\ UNCHANGED result
       ELSE Return(c, [kind |-> category])

(* The attempt ends without an answer, or with a 5xx that the service gave   *)
(* before it did anything.                                                   *)
Lose(c) ==
    /\ Waiting(c)
    /\ Retry(c, "Transport") /\ reply' = [reply EXCEPT ![c] = {}]
    /\ UNCHANGED <<store, clock, request, effects>>

-------------------------------------------------------------------------------
(* External: the service.  A version that was deleted by its name is gone;   *)
(* a marker hides the versions before it.                                    *)
Alive(k) == {i \in DOMAIN store[k] : store[k][i].alive}
Latest(k) == IF Alive(k) = {} \/ store[k][Max(Alive(k))].marker THEN {} ELSE {store[k][Max(Alive(k))]}
Selected(k, version) ==
    IF version = {} THEN Latest(k)
    ELSE {store[k][i] : i \in {v \in version \cap Alive(k) : ~store[k][v].marker}}

AnyTag == <<"*">>
ETag(object) == <<"etag", object.data, object.type>>
Second(instant) == instant \div TicksPerSecond

(* External: the conditional headers with a prefix. *)
Matches(headers, prefix, object) ==
    /\ \A tag \in response_header(headers, <<prefix, "if-match">>) : \E o \in object : tag \in {ETag(o), AnyTag}
    /\ \A date \in response_header(headers, <<prefix, "if-unmodified-since">>) :
          \A o \in object : Second(o.modified) <= date[2]
Changed(headers, prefix, object) ==
    /\ \A tag \in response_header(headers, <<prefix, "if-none-match">>) : \A o \in object : tag \notin {ETag(o), AnyTag}
    /\ \A date \in response_header(headers, <<prefix, "if-modified-since">>) :
          \A o \in object : Second(o.modified) > date[2]

Answer(status, headers, root, body) == [status |-> status, headers |-> headers, root |-> root, body |-> body]
Refusal(status) == Answer(status, [n \in {} |-> <<>>], "Error", <<>>)

Metadata(headers) == {<<n[2], headers[n]>> : n \in {m \in DOMAIN headers : m[1] = "x-amz-meta-"}}
Version(data, type, metadata) ==
    [data |-> data, type |-> type, metadata |-> metadata, modified |-> clock, marker |-> FALSE, alive |-> TRUE]
Effect(key, before, after) == [key |-> key, before |-> before, after |-> after]

(* External: the answer gets to the caller if it still waits for this        *)
(* attempt; one of its headers may be damaged on the way.                    *)
Deliver(c, n, answer) ==
    IF Waiting(c) /\ attempts[c] = n /\ reply[c] = {}
    THEN \/ reply' = [reply EXCEPT ![c] = {answer}]
         \/ /\ answer.status = 200
            /\ \E h \in DOMAIN answer.headers :
                  reply' = [reply EXCEPT ![c] = {[answer EXCEPT !.headers[h] = Unreadable]}]
    ELSE UNCHANGED reply

Refuse(c, n, status) == Deliver(c, n, Refusal(status)) /\ UNCHANGED <<store, clock, effects>>

Write(c, n, key, version, before, answer) ==
    /\ store' = [store EXCEPT ![key] = Append(@, version)] /\ clock' = clock + 1
    /\ effects' = [effects EXCEPT ![c] = @ \cup {Effect(key, before, {version})}]
    /\ Deliver(c, n, answer)

ServePut(c, n, r, h) ==
    IF ~(Matches(h, "", Latest(r.key)) /\ Changed(h, "", Latest(r.key))) THEN Refuse(c, n, 412)
    ELSE LET version == Version(r.data, "FULL_OBJECT", Metadata(h))
         IN  Write(c, n, r.key, version, Latest(r.key),
                   Answer(200, [x \in {Name("etag"), Name("x-amz-request-id")} |->
                                   IF x = Name("etag") THEN ETag(version) ELSE <<"id">>], "none", <<>>))

(* External: the bytes first to last of the object, if the range has any. *)
Span(data, range) ==
    LET first == IF range[2] # {} THEN Some(range[2]) ELSE Max({0, Len(data) - Some(range[3])})
        last == IF range[2] # {} /\ range[3] # {} THEN Min({Some(range[3]), Len(data) - 1}) ELSE Len(data) - 1
    IN  IF first <= last THEN {<<first, last>>} ELSE {}

ReadHeaders(object, body, spans) ==
    LET fixed == {Name("content-length"), Name("etag"), Name("last-modified"),
                  Name("x-amz-checksum-sha256"), Name("x-amz-checksum-type")}
        ranged == IF spans = {} THEN {} ELSE {Name("content-range")}
        meta == {<<"x-amz-meta-", m[1]>> : m \in object.metadata}
    IN  [x \in fixed \cup ranged \cup meta |->
            CASE x = Name("content-length") -> <<Len(body)>>
              [] x = Name("etag") -> ETag(object)
              [] x = Name("last-modified") -> <<"date", Second(object.modified)>>
              [] x = Name("x-amz-checksum-type") -> <<object.type>>
              [] x = Name("x-amz-checksum-sha256") ->
                    IF object.type = "FULL_OBJECT" THEN sha256_base64(object.data)
                    ELSE <<"sha256", <<"composite", object.data>>>>
              [] x = Name("content-range") ->
                    <<"bytes", Some(spans)[1], Some(spans)[2], {Len(object.data)}>>
              [] OTHER -> Some({m[2] : m \in {e \in object.metadata : e[1] = x[2]}})]

ServeRead(c, n, r, h) ==
    IF Selected(r.key, r.version) = {} THEN Refuse(c, n, 404)
    ELSE IF ~Matches(h, "", Selected(r.key, r.version)) THEN Refuse(c, n, 412)
    ELSE IF ~Changed(h, "", Selected(r.key, r.version)) THEN Refuse(c, n, 304)
    ELSE LET object == Some(Selected(r.key, r.version))
             ranged == Name("range") \in DOMAIN h
             spans == IF ranged THEN Span(object.data, h[Name("range")]) ELSE {}
             body == IF spans = {} THEN object.data
                     ELSE SubSeq(object.data, Some(spans)[1] + 1, Some(spans)[2] + 1)
         IN  IF ranged /\ spans = {} THEN Refuse(c, n, 416)
             ELSE /\ Deliver(c, n, Answer(200, ReadHeaders(object, body, spans), "none",
                                          [bytes |-> body, object |-> object.data]))
                  /\ UNCHANGED <<store, clock, effects>>

(* External: a delete by name removes the version, any other adds a marker. *)
Removed(versions, version) ==
    IF version = {} THEN Append(versions, [Version(<<>>, "FULL_OBJECT", {}) EXCEPT !.marker = TRUE])
    ELSE [i \in DOMAIN versions |-> IF i \in version THEN [versions[i] EXCEPT !.alive = FALSE] ELSE versions[i]]

ServeDelete(c, n, r, h) ==
    LET before == Selected(r.key, r.version)
    IN  IF ~Matches(h, "", before) THEN Refuse(c, n, 412)
        ELSE /\ store' = [store EXCEPT ![r.key] = Removed(@, r.version)] /\ clock' = clock + 1
             /\ effects' = [effects EXCEPT ![c] = @ \cup {Effect(r.key, before, {})}]
             /\ Deliver(c, n, Answer(200, [x \in {Name("x-amz-delete-marker")} |->
                                             <<IF r.version = {} THEN "true" ELSE "false">>], "none", <<>>))

(* External: each entry of the document by itself; quiet hides successes. *)
ServeDeleteObjects(c, n, r, h) ==
    LET document == h[Name("content-md5")][2]
        good == {o \in document.objects :
                    \A tag \in o.if_match : \E v \in Selected(o.key, o.version) : tag \in {ETag(v), AnyTag}}
    IN  /\ store' = [k \in Keys |->
                        IF \E o \in good : o.key = k
                        THEN Removed(store[k], UNION {o.version : o \in {g \in good : g.key = k}}) ELSE store[k]]
        /\ clock' = clock + 1
        /\ effects' = [effects EXCEPT ![c] = @ \cup {Effect(o.key, Selected(o.key, o.version), {}) : o \in good}]
        /\ Deliver(c, n, Answer(200, [x \in {Name("x-amz-request-id")} |-> <<"id">>], "Result",
                                [deleted |-> IF document.quiet THEN {} ELSE good,
                                 errors |-> document.objects \ good]))

(* External: the source that the header names. *)
SourceOf(header) ==
    LET query == {i \in DOMAIN header : header[i] = QUERY}
        path == IF query = {} THEN header ELSE SubSeq(header, 1, Min(query) - 1)
        name == Some(decode_url_field(path))
        slash == Min({i \in 2..Len(name) : name[i] = SLASH})
    IN  [bucket |-> SubSeq(name, 2, slash - 1), key |-> SubSeq(name, slash + 1, Len(name)),
         version |-> IF query = {} THEN {}
                     ELSE {v[1] : v \in decode_url_field(SubSeq(header, Min(query) + 1, Len(header)))}]

(* External: the status of a copy goes out before it is done, so that its    *)
(* failure is an Error document behind a 200.                                *)
ServeCopy(c, n, r, h) ==
    LET source == SourceOf(h[Name("x-amz-copy-source")])
        object == IF source.bucket = Bucket /\ source.key \in Keys THEN Selected(source.key, source.version) ELSE {}
        id == [x \in {Name("x-amz-request-id")} |-> <<"id">>]
    IN  IF object = {} THEN Refuse(c, n, 404)
        ELSE IF ~(Matches(h, "x-amz-copy-source-", object) /\ Changed(h, "x-amz-copy-source-", object))
             THEN Refuse(c, n, 412)
        ELSE IF ~(Matches(h, "", Latest(r.key)) /\ Changed(h, "", Latest(r.key))) THEN Refuse(c, n, 412)
        ELSE \/ /\ Deliver(c, n, Answer(200, id, "Error", <<>>))
                /\ UNCHANGED <<store, clock, effects>>
             \/ Write(c, n, r.key,
                      Version(Some(object).data, "FULL_OBJECT",
                              IF Name("x-amz-metadata-directive") \in DOMAIN h THEN Metadata(h) ELSE Some(object).metadata),
                      object, Answer(200, id, "Result", <<>>))

(* External: an attempt reaches the service. *)
Serve(c, n) ==
    /\ <<c, n>> \in flying /\ flying' = flying \ {<<c, n>>}
    /\ LET r == Some(request[c])
           h == Some(Headers(r))
       IN  CASE r.op = "put" -> ServePut(c, n, r, h)
             [] r.op \in {"get", "head"} -> ServeRead(c, n, r, h)
             [] r.op = "delete" -> ServeDelete(c, n, r, h)
             [] r.op = "delete_objects" -> ServeDeleteObjects(c, n, r, h)
             [] r.op = "copy" -> ServeCopy(c, n, r, h)
    /\ UNCHANGED <<request, attempts, result>>

-------------------------------------------------------------------------------
(* What the caller makes of an answer.                                       *)
classify_service_error(status) ==
    CASE status = 404 -> "NotFound" [] status = 412 -> "Precondition" [] OTHER -> "InvalidResponse"

Ok(value) == [kind |-> "Ok", value |-> value]
invalid_response == [kind |-> "InvalidResponse"]

(* Mutant of GetOutput: the checksum of the object is expected of a range. *)
GetOutputAlwaysVerified(headers, body) ==
    {[expected_sha256 |-> sum, expected_length |-> metadata.content_length, content_range |-> range, body |-> body] :
        metadata \in parse_object_metadata(headers), range \in parse_content_range(headers),
        sum \in verified_download_sha256(headers)}

(* get_object: what the ResponseStream is to verify. *)
GetOutput(headers, body) ==
    {[expected_sha256 |-> IF range = {} THEN sum ELSE {}, expected_length |-> metadata.content_length,
      content_range |-> range, body |-> body] :
        metadata \in parse_object_metadata(headers), range \in parse_content_range(headers),
        sum \in verified_download_sha256(headers)}

(* parse_bool_header *)
parse_bool_header(headers, name) ==
    name \in DOMAIN headers => headers[name] \in {<<"true">>, <<"false">>}

(* Mutant of parse_delete_objects: an entry the service refused is left out. *)
parse_delete_objects_lenient(body) == [deleted |-> body.deleted, errors |-> {}]

(* parse_delete_objects of a DeleteResult *)
parse_delete_objects(body) == [deleted |-> body.deleted, errors |-> body.errors]

(* The rest of each operation behind a success. *)
Output(r, answer) ==
    CASE r.op = "get" -> GetOutput(answer.headers, answer.body)
      [] r.op = "head" -> parse_object_metadata(answer.headers)
      [] r.op = "put" -> IF Readable(answer.headers, WriteNames) THEN {<<>>} ELSE {}
      [] r.op = "delete" -> IF /\ Readable(answer.headers, {Name("x-amz-version-id")} \cup RequestIdNames)
                               /\ parse_bool_header(answer.headers, Name("x-amz-delete-marker"))
                            THEN {<<>>} ELSE {}
      [] r.op = "delete_objects" -> IF Readable(answer.headers, RequestIdNames)
                                    THEN {parse_delete_objects(answer.body)} ELSE {}
      [] r.op = "copy" -> IF Readable(answer.headers, WriteNames) THEN {<<>>} ELSE {}

(* Mutant of copy_embedded_error: any document is a result. *)
copy_embedded_error_blind(r, answer) == FALSE

(* copy_embedded_error: a copy is collected before its success is believed. *)
copy_embedded_error(r, answer) == r.op = "copy" /\ answer.root = "Error"

(* Mutant of Receive: the headers are parsed before the status is known. *)
ReceiveEager(c) ==
    /\ Waiting(c) /\ reply[c] # {} /\ reply' = [reply EXCEPT ![c] = {}]
    /\ LET r == Some(request[c])
           answer == Some(reply[c])
       IN  IF r.op = "put" /\ Name("etag") \notin DOMAIN answer.headers THEN Return(c, invalid_response)
           ELSE IF answer.status # 200 THEN Return(c, [kind |-> classify_service_error(answer.status)])
           ELSE IF copy_embedded_error(r, answer) THEN Retry(c, "Server")
           ELSE IF Output(r, answer) = {} THEN Return(c, invalid_response)
           ELSE Return(c, Ok(Some(Output(r, answer))))
    /\ UNCHANGED <<store, clock, request, effects>>

Receive(c) ==
    /\ Waiting(c) /\ reply[c] # {} /\ reply' = [reply EXCEPT ![c] = {}]
    /\ LET r == Some(request[c])
           answer == Some(reply[c])
       IN  IF answer.status # 200 THEN Return(c, [kind |-> classify_service_error(answer.status)])
           ELSE IF copy_embedded_error(r, answer) THEN Retry(c, "Server")
           ELSE IF Output(r, answer) = {} THEN Return(c, invalid_response)
           ELSE Return(c, Ok(Some(Output(r, answer))))
    /\ UNCHANGED <<store, clock, request, effects>>

(* collect_response fails behind the status of a success; only a copy's body *)
(* belongs to the attempt.                                                   *)
BodyFails(c) ==
    /\ Waiting(c) /\ \E answer \in reply[c] : answer.status = 200
    /\ Some(request[c]).op # "get"
    /\ reply' = [reply EXCEPT ![c] = {}]
    /\ IF Some(request[c]).op = "copy" THEN Retry(c, "Transport") ELSE Return(c, [kind |-> "Transport"])
    /\ UNCHANGED <<store, clock, request, effects>>

Next ==
    \E c \in Callers :
        \/ \E r \in Requests : Call(c, r)
        \/ Lose(c) \/ Receive(c) \/ BodyFails(c)
        \/ \E n \in 1..MaxAttempts : Serve(c, n)

Spec == Init /\ [][Next]_vars

-------------------------------------------------------------------------------
(* What the constants have to be.  The bucket has whole versions; a caller   *)
(* fills the fields of the request types, leaves the range of a get to its   *)
(* field, and names a copy source that the service reads as it was meant.    *)
IsOption(option) == \A value \in option : option = {value}
IsList(list) == list \in Seq(Range(list))

VersionFields == {"data", "type", "metadata", "modified", "marker", "alive"}

StoreAssumption(initial) ==
    /\ DOMAIN initial = Keys
    /\ \A k \in Keys :
          /\ IsList(initial[k])
          /\ \A i \in DOMAIN initial[k] :
                /\ DOMAIN initial[k][i] = VersionFields
                /\ initial[k][i].type \in {"FULL_OBJECT", "COMPOSITE"}
                /\ initial[k][i].modified \in Int /\ initial[k][i].modified < 0
                /\ IsList(initial[k][i].data)

RequestAssumption(r) ==
    /\ r.op \in {"put", "get", "head", "delete", "delete_objects", "copy"} /\ r.key \in Keys
    /\ IsOption(r.conditions.if_match) /\ IsOption(r.conditions.if_none_match)
    /\ IsOption(r.conditions.if_modified_since) /\ IsOption(r.conditions.if_unmodified_since)
    /\ r.op = "put" => IsList(r.metadata) /\ IsList(r.data) /\ IsOption(r.content_type)
    /\ r.op \in {"get", "head"} =>
          /\ IsOption(r.version) /\ IsOption(r.range) /\ Name("range") \notin DOMAIN r.headers
          /\ \A range \in r.range : \/ range[1] = "inclusive" /\ range[2] \in Nat /\ range[3] \in Nat
                                    \/ range[1] \in {"from", "suffix"} /\ range[2] \in Nat
    /\ r.op = "delete" =>
          /\ r.conditions.if_none_match = {}
          /\ r.conditions.if_modified_since = {} /\ r.conditions.if_unmodified_since = {}
    /\ r.op = "delete_objects" => \A o \in r.objects : o.key \in Keys
    /\ r.op = "copy" =>
          /\ IsOption(r.directive) /\ (\A metadata \in r.directive : IsList(metadata)) /\ IsOption(r.source.version)
          /\ SourceOf(copy_source_header(r.source)) = r.source

OperationsAssumption ==
    /\ MaxAttempts \in Nat \ {0}
    /\ \A initial \in Stores : StoreAssumption(initial)
    /\ \A r \in Requests : RequestAssumption(r)

-------------------------------------------------------------------------------
TypeOK ==
    /\ \A k \in Keys : \A i \in DOMAIN store[k] :
          store[k][i].type \in {"FULL_OBJECT", "COMPOSITE"} /\ store[k][i].modified < clock
    /\ request \in [Callers -> {{}} \cup {{r} : r \in Requests}]
    /\ attempts \in [Callers -> 0..MaxAttempts] /\ flying \subseteq Callers \X (1..MaxAttempts)
    /\ \A c \in Callers : Cardinality(reply[c]) <= 1 /\ Cardinality(result[c]) <= 1
    /\ \A c \in Callers : attempts[c] = 0 => effects[c] = {} /\ ~\E n \in 1..MaxAttempts : <<c, n>> \in flying

(* What the fields of Conditions say of an object, to the second. *)
Holds(conditions, object) ==
    /\ \A tag \in conditions.if_match : \E o \in object : tag \in {ETag(o), AnyTag}
    /\ \A tag \in conditions.if_none_match : \A o \in object : tag \notin {ETag(o), AnyTag}
    /\ \A t \in conditions.if_modified_since : \A o \in object : Second(o.modified) > Second(t)
    /\ \A t \in conditions.if_unmodified_since : \A o \in object : Second(o.modified) <= Second(t)

(* Nothing is written, copied or deleted while a condition that its caller   *)
(* stated does not hold of the object it was stated of: the key for a write  *)
(* or a delete, the source for a copy.                                       *)
ConditionsGuardEffects ==
    \A c \in Callers : \A r \in request[c] : \A e \in effects[c] :
        IF r.op = "delete_objects"
        THEN \E o \in r.objects : o.key = e.key /\ \A tag \in o.if_match : \E v \in e.before : tag \in {ETag(v), AnyTag}
        ELSE Holds(r.conditions, e.before)

(* A put or a copy that returns Ok has written, during the call: the bytes   *)
(* and the metadata that were asked for, or those of the source that was     *)
(* named.                                                                    *)
SuccessesAreStored ==
    \A c \in Callers : \A r \in request[c] : \A out \in result[c] :
        out.kind = "Ok" /\ r.op \in {"put", "copy"} =>
            \E e \in effects[c] : \E v \in e.after :
                /\ e.key = r.key
                /\ r.op = "put" => /\ v.data = r.data
                                  /\ \A i \in DOMAIN r.metadata : <<r.metadata[i][1][1], r.metadata[i][2]>> \in v.metadata
                /\ r.op = "copy" => \E s \in DOMAIN store[r.source.key] :
                                       v.data = store[r.source.key][s].data /\ (r.source.version # {} => s \in r.source.version)

(* A call that was refused has changed nothing: its request could not be     *)
(* built, or its only attempt was answered with a failed precondition or a   *)
(* missing object.                                                           *)
RefusalsHaveNoEffect ==
    \A c \in Callers : \A out \in result[c] :
        out.kind = "Configuration" \/ (out.kind \in {"Precondition", "NotFound"} /\ attempts[c] = 1)
            => effects[c] = {}

(* An invalid response to a write or a delete is an answer that could not be *)
(* read, never one that refused: the object is there, or it is gone.         *)
InvalidAnswersFollowEffects ==
    \A c \in Callers : \A r \in request[c] : \A out \in result[c] :
        out.kind = "InvalidResponse" /\ r.op \in {"put", "delete"} => effects[c] # {}

(* What a download is compared with are the length and the digest of the     *)
(* bytes that the service sends, for ranges and composite checksums too, so  *)
(* that no sound download is refused.                                        *)
SoundDownloadsAreAccepted ==
    \A c \in Callers : \A r \in request[c] : \A out \in result[c] :
        out.kind = "Ok" /\ r.op = "get" =>
            /\ out.value.expected_length = Len(out.value.body.bytes)
            /\ \A sum \in out.value.expected_sha256 : sum = sha256_base64(out.value.body.bytes)
            /\ r.range = {} => out.value.body.bytes = out.value.body.object

(* The bytes of a ranged get are the ones the ByteRange stands for. *)
RangesAreTheOnesAsked ==
    \A c \in Callers : \A r \in request[c] : \A out \in result[c] :
        out.kind = "Ok" /\ r.op = "get" =>
            \A range \in r.range : LET whole == out.value.body.object IN
                out.value.body.bytes =
                    CASE range[1] = "inclusive" -> SubSeq(whole, range[2] + 1, Min({range[3] + 1, Len(whole)}))
                      [] range[1] = "from" -> SubSeq(whole, range[2] + 1, Len(whole))
                      [] range[1] = "suffix" -> SubSeq(whole, Max({0, Len(whole) - range[2]}) + 1, Len(whole))

(* A delete_objects that returns Ok without per-object errors has deleted    *)
(* every object it names, quiet or not.                                      *)
CleanBatchesDeleteEverything ==
    \A c \in Callers : \A r \in request[c] : \A out \in result[c] :
        out.kind = "Ok" /\ r.op = "delete_objects" =>
            (out.value.errors = {} => \A o \in r.objects : \E e \in effects[c] : e.key = o.key)

(* What a call returns is what happened. *)
AnswersAreTruthful ==
    /\ SuccessesAreStored /\ RefusalsHaveNoEffect /\ InvalidAnswersFollowEffects
    /\ CleanBatchesDeleteEverything
    /\ SoundDownloadsAreAccepted /\ RangesAreTheOnesAsked
===============================================================================
