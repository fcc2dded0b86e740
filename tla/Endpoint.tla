------------------------------- MODULE Endpoint -------------------------------
(***************************************************************************)
(* endpoint/mod.rs and the redirect helpers of client/request/retry.rs:     *)
(* where a request goes.  A host is a record, because the code looks at its *)
(* shape: prefix, region and suffix of an AWS name (prefix "" for any other *)
(* host, region "" for the global name), and the bucket put before it.      *)
(***************************************************************************)
EXTENDS WireEncoding

HYPHEN == 45
DOT    == 46

AddressingStyles == {"Path", "VirtualHosted"}

ServiceNames == {"s3", "s3.dualstack", "s3-fips", "s3-fips.dualstack"}

(* A host as Endpoint::new reads it: no bucket in front of it. *)
Host(prefix, region, suffix, ip) ==
    [bucket |-> <<>>, prefix |-> prefix, region |-> region, suffix |-> suffix, ip |-> ip]

HostShape == [bucket : {<<>>}, prefix : STRING, region : STRING, suffix : STRING, ip : BOOLEAN]

(* An endpoint; no address has the name of a service. *)
EndpointShape ==
    {e \in [scheme : {"https", "http"}, authority : [host : HostShape, port : SUBSET Nat], base_path : Seq(0..255)] :
        e.authority.host.prefix \in ServiceNames => ~e.authority.host.ip}

(* The path of an endpoint begins and ends with a slash. *)
Rooted(path) == path # <<>> /\ path[1] = SLASH /\ Last(path) = SLASH

(* Endpoint::new: the base path always ends with a slash. *)
EndpointNew(input) ==
    IF input.scheme \in {"https", "http"} /\ ~input.userinfo /\ ~input.query
    THEN {[scheme |-> input.scheme,
           authority |-> [host |-> input.host, port |-> input.port],
           base_path |-> IF input.base # <<>> /\ Last(input.base) = SLASH
                         THEN input.base ELSE Append(input.base, SLASH)]}
    ELSE {}

(* Endpoint::for_aws_region_variant *)
for_aws_region_variant(region, prefix, china) ==
    EndpointNew([scheme |-> "https", userinfo |-> FALSE, query |-> FALSE,
                 host |-> Host(prefix, region, IF china THEN "amazonaws.com.cn" ELSE "amazonaws.com", FALSE),
                 port |-> {}, base |-> <<>>])

(* validate_bucket_for_path *)
validate_bucket_for_path(bucket) ==
    /\ Len(bucket) \in 1..255
    /\ \A i \in DOMAIN bucket : bucket[i] \notin {SLASH, 92, 127} /\ bucket[i] >= 32

(* IpAddr::from_str for the only addresses made of bucket characters: four   *)
(* decimal numbers.                                                          *)
DottedQuad(bucket) ==
    LET octets == Fields(bucket, DOT)
    IN  /\ Len(octets) = 4
        /\ \A k \in DOMAIN octets :
              Len(octets[k]) \in 1..3 /\ \A i \in DOMAIN octets[k] : octets[k][i] \in Digits

(* validate_virtual_host_bucket *)
validate_virtual_host_bucket(bucket) ==
    /\ Len(bucket) \in 3..63
    /\ {bucket[1], Last(bucket)} \cap {HYPHEN, DOT} = {}
    /\ \A i \in 1..(Len(bucket) - 1) : ~(bucket[i] = DOT /\ bucket[i + 1] = DOT)
    /\ \A i \in DOMAIN bucket : bucket[i] \in Lower \cup Digits \cup {HYPHEN, DOT}
    /\ ~DottedQuad(bucket)

(* Mutant of Authority: the host of the endpoint is used as it is. *)
AuthorityAsIs(endpoint, bucket, style) == endpoint.authority

(* The bucket goes before the host when it is virtual-hosted. *)
Authority(endpoint, bucket, style) ==
    IF style = "VirtualHosted" THEN [endpoint.authority EXCEPT !.host.bucket = bucket]
    ELSE endpoint.authority

(* Endpoint::object_url; key <<>> is no key. *)
object_url(endpoint, bucket, key, style) ==
    LET hosted == style = "VirtualHosted"
        path == endpoint.base_path \o (IF hosted THEN <<>> ELSE aws_uri_encode(bucket, TRUE))
        full == IF key # <<>>
                THEN path \o (IF hosted \/ Last(path) = SLASH THEN <<>> ELSE <<SLASH>>)
                          \o aws_uri_encode(key, FALSE)
                ELSE IF hosted /\ Len(path) > 1 THEN Front(path) ELSE path
    IN  IF ~validate_bucket_for_path(bucket)
           \/ (hosted /\ (~validate_virtual_host_bucket(bucket) \/ endpoint.authority.host.ip))
        THEN {}
        ELSE {[scheme |-> endpoint.scheme,
               authority |-> Authority(endpoint, bucket, style),
               path |-> full, query |-> <<>>]}

(* EndpointUrl::with_query and with_authority *)
with_query(url, query) == [url EXCEPT !.query = query]
with_authority(url, authority) == [url EXCEPT !.authority = authority]

(* S3Client::redirected_aws_authority: only an https endpoint of a known AWS *)
(* shape is redirected, keeping its variant and partition.  The port goes.   *)
redirected_aws_authority(endpoint, region) ==
    LET host == endpoint.authority.host
    IN  IF /\ endpoint.scheme = "https"
           /\ host.prefix \in ServiceNames
           /\ host.region # "" \/ host.prefix = "s3"
        THEN {[host |-> Host(host.prefix, region, host.suffix, FALSE), port |-> {}]}
        ELSE {}

(* controlled_region_redirect: the region of the x-amz-bucket-region header, *)
(* when the status is one that redirects.  A malformed value is "".          *)
controlled_region_redirect(status, hint) ==
    IF status \in {301, 307, 308, 400} /\ hint # "" THEN {hint} ELSE {}
===============================================================================
