----------------------------- MODULE ObjectHeaders -----------------------------
(***************************************************************************)
(* What the object operations put into request headers and read from         *)
(* response headers: client/request/headers.rs, client/object/headers/ and   *)
(* the typed values of operation/types.rs.  A header name is its prefix and  *)
(* the rest; a header map is a function from names to values; a value is a   *)
(* tuple, and the empty tuple is one that HTTP does not allow in a request   *)
(* or that is not text in a response.  An Option is a set of at most one     *)
(* element, and so is a Result, of which the empty set is the error.         *)
(***************************************************************************)
EXTENDS WireEncoding

CONSTANT TicksPerSecond  \* the resolution of a clock, finer than an HTTP date

ASSUME TicksAssumption == TicksPerSecond \in Nat \ {0}

Name(name) == <<"", name>>
Unreadable == <<>>
NotAName == "not a name"
Some(option) == CHOOSE value \in option : TRUE

PROTECTED_HEADERS == {Name(n) : n \in {"host", "authorization", "x-amz-date", "x-amz-security-token",
                                       "x-amz-content-sha256", "content-length", "transfer-encoding"}}

(* request_headers: the caller's own headers. *)
request_headers(headers) == IF DOMAIN headers \cap PROTECTED_HEADERS = {} THEN {headers} ELSE {}

(* The map with the entries added; what is there already stays. *)
WithEntries(headers, entries) ==
    [n \in DOMAIN headers \cup {entries[i][1] : i \in DOMAIN entries} |->
        IF n \in DOMAIN headers THEN headers[n]
        ELSE entries[CHOOSE i \in DOMAIN entries : entries[i][1] = n][2]]

(* insert_header and insert_named_header for one entry after the other: each *)
(* name must be free and a header name, each value a header value.           *)
insert_headers(headers, entries) ==
    IF /\ \A i \in DOMAIN entries :
             entries[i][1] \notin DOMAIN headers /\ entries[i][1][2] # NotAName /\ entries[i][2] # Unreadable
       /\ \A i, k \in DOMAIN entries : entries[i][1] = entries[k][1] => i = k
    THEN {WithEntries(headers, entries)}
    ELSE {}

insert_optional_header(name, option) == IF option = {} THEN <<>> ELSE << <<name, Some(option)>> >>

(* format_http_date has whole seconds. *)
format_http_date(instant) == <<"date", instant \div TicksPerSecond>>

insert_conditions(conditions, prefix) ==
    insert_optional_header(<<prefix, "if-match">>, conditions.if_match)
    \o insert_optional_header(<<prefix, "if-none-match">>, conditions.if_none_match)
    \o insert_optional_header(<<prefix, "if-modified-since">>,
                              {format_http_date(t) : t \in conditions.if_modified_since})
    \o insert_optional_header(<<prefix, "if-unmodified-since">>,
                              {format_http_date(t) : t \in conditions.if_unmodified_since})

(* A metadata name is its lower-case form and how it is written; HeaderName  *)
(* folds the case.  The map is the sequence of its entries.                  *)
insert_user_metadata(metadata) ==
    [i \in DOMAIN metadata |-> <<<<"x-amz-meta-", metadata[i][1][1]>>, metadata[i][2]>>]

sha256_base64(data) == <<"sha256", data>>

(* insert_upload_checksum: only SHA-256 is implemented. *)
insert_upload_checksum(algorithm, data) ==
    IF algorithm = {} THEN {<<>>}
    ELSE IF algorithm = {"SHA256"}
         THEN {<< <<Name("x-amz-sdk-checksum-algorithm"), <<"SHA256">>>>,
                  <<Name("x-amz-checksum-sha256"), sha256_base64(data)>> >>}
         ELSE {}

(* copy_source_header: /bucket/key?versionId=..., encoded once; an encoded   *)
(* byte is never a query mark.                                               *)
copy_source_header(source) ==
    <<SLASH>> \o aws_uri_encode(source.bucket, TRUE) \o <<SLASH>> \o aws_uri_encode(source.key, FALSE)
    \o (IF source.version = {} THEN <<>> ELSE <<QUERY>> \o aws_uri_encode(<<Some(source.version)>>, TRUE))

(* Mutant of to_header_value: the end of a range is taken as exclusive. *)
to_header_value_exclusive(range) ==
    CASE range[1] = "inclusive" -> <<"bytes=", {range[2]}, {range[3] - 1}>>
      [] range[1] = "from" -> <<"bytes=", {range[2]}, {}>>
      [] range[1] = "suffix" -> <<"bytes=", {}, {range[2]}>>

(* ByteRange::to_header_value: first-last, first- or -length *)
to_header_value(range) ==
    CASE range[1] = "inclusive" -> <<"bytes=", {range[2]}, {range[3]}>>
      [] range[1] = "from" -> <<"bytes=", {range[2]}, {}>>
      [] range[1] = "suffix" -> <<"bytes=", {}, {range[2]}>>

-------------------------------------------------------------------------------
(* The named headers that are there are text. *)
Readable(headers, names) == \A n \in names \cap DOMAIN headers : headers[n] # Unreadable

response_header(headers, name) == IF name \in DOMAIN headers THEN {headers[name]} ELSE {}

ChecksumNames == {Name("x-amz-checksum-crc32"), Name("x-amz-checksum-crc32c"),
                  Name("x-amz-checksum-crc64nvme"), Name("x-amz-checksum-sha1"),
                  Name("x-amz-checksum-sha256")}
RequestIdNames == {Name("x-amz-request-id"), Name("x-amz-id-2")}
WriteNames == {Name("etag"), Name("x-amz-version-id")} \cup ChecksumNames \cup RequestIdNames
MetadataNames(headers) ==
    WriteNames \cup {Name("content-length"), Name("content-type"), Name("last-modified")}
               \cup {n \in DOMAIN headers : n[1] = "x-amz-meta-"}

(* parse_object_metadata: S3 always sends a content length. *)
parse_object_metadata(headers) ==
    IF Name("content-length") \in DOMAIN headers /\ Readable(headers, MetadataNames(headers))
    THEN {[content_length |-> headers[Name("content-length")][1],
           e_tag |-> response_header(headers, Name("etag")),
           user_metadata |-> {<<n[2], headers[n]>> : n \in {m \in DOMAIN headers : m[1] = "x-amz-meta-"}}]}
    ELSE {}

(* verified_download_sha256: a digest to compare with the body is one of the *)
(* full object, and of the right length.                                     *)
verified_download_sha256(headers) ==
    LET sum == Name("x-amz-checksum-sha256")
        type == Name("x-amz-checksum-type")
    IN  IF ~Readable(headers, {sum, type}) THEN {}
        ELSE IF sum \notin DOMAIN headers THEN {{}}
        ELSE IF type \in DOMAIN headers /\ headers[type] # <<"FULL_OBJECT">> THEN {{}}
        ELSE IF headers[sum][1] = "sha256" THEN {{headers[sum]}} ELSE {}

(* parse_content_range of "bytes start-end/complete"; a missing complete     *)
(* length is an asterisk.                                                    *)
parse_content_range(headers) ==
    LET range == Name("content-range")
    IN  IF range \notin DOMAIN headers THEN {{}}
        ELSE IF /\ headers[range] # Unreadable /\ headers[range][1] = "bytes"
                /\ headers[range][2] <= headers[range][3]
                /\ \A complete \in headers[range][4] : headers[range][3] < complete
             THEN {{Tail(headers[range])}} ELSE {}
===============================================================================
