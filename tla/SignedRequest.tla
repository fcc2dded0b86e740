---------------------------- MODULE SignedRequest -----------------------------
(***************************************************************************)
(* signed_request (client/request/signing.rs) in the attempt loop of        *)
(* send_signed_inner: what one operation puts on the wire, attempt after    *)
(* attempt, while credentials rotate and the service redirects it to        *)
(* another region.  The service checks a request from the bytes it gets; a  *)
(* digest or HMAC stands for what it was computed from.                     *)
(***************************************************************************)
EXTENDS Endpoint, SigV4Service

CONSTANTS
    Endpoints,      \* endpoints a configuration may have (results of EndpointNew)
    Buckets,        \* bucket names
    Keys,           \* object keys; <<>> is an operation on the bucket
    Queries,        \* the query parameters of an operation
    HeaderMaps,     \* the headers of an operation and of its caller
    Regions,        \* region names; validate_nonempty_token has accepted them
    Identities,     \* credentials: [key, secret, token, wellformed, expires]
    Statuses,       \* statuses of the service's error responses
    MaxAttempts,    \* max_attempts
    Horizon         \* bound: the clock stops here

(* What the constants have to be: byte strings, and endpoints whose base     *)
(* path is rooted and, if it is an encoded one, minimal.                     *)
SignedRequestAssumption ==
    /\ MaxAttempts \in Nat \ {0} /\ Horizon \in Nat
    /\ Endpoints \subseteq EndpointShape
    /\ \A e \in Endpoints : Rooted(e.base_path) /\ (WellEncoded(e.base_path) => Minimal(e.base_path))
    /\ Buckets \subseteq Seq(Byte) /\ Keys \subseteq Seq(Byte)
    /\ Queries \subseteq Seq(Seq(Byte) \X Seq(Byte))
    /\ \A headers \in HeaderMaps : \A name \in DOMAIN headers : headers[name] \in Seq(Seq(Byte))
    /\ \A i \in Identities : i.wellformed \in BOOLEAN /\ i.expires \in Nat
    /\ "" \notin Regions

VARIABLES
    now,         \* the clock
    cfg,         \* endpoint, bucket, style and region of the client
    op,          \* the operation: key, query, headers, body and its replayability
    provider,    \* what provide_credentials returns now; {} is a failure
    pc,          \* build, sign, sent, done
    target,      \* the EndpointUrl of the next attempt
    region,      \* signing_region
    redirected,  \* region_redirected
    attempts,    \* attempts_completed
    answered,    \* history: when the last attempt was answered
    wire,        \* the request last handed to the transport; {} is none
    failure      \* the error returned to the caller

vars == <<now, cfg, op, provider, pc, target, region, redirected, attempts, answered, wire, failure>>

(* PROTECTED_HEADERS *)
Protected == {"host", "authorization", "x-amz-date", "x-amz-security-token",
              "x-amz-content-sha256", "content-length", "transfer-encoding"}

Init ==
    /\ now = 0
    /\ cfg \in {c \in [endpoint : Endpoints, bucket : Buckets, style : AddressingStyles, region : Regions] :
                   object_url(c.endpoint, c.bucket, <<>>, c.style) # {}}
    /\ op \in [key : Keys, query : Queries, headers : HeaderMaps, body : {{}, {"content"}},
               replayable : BOOLEAN]
    /\ op.body = {} => op.replayable
    /\ provider \in {{i} : i \in Identities}
    /\ pc = "build" /\ target = {} /\ region = cfg.region
    /\ redirected = FALSE /\ attempts = 0 /\ answered = 0
    /\ wire = {} /\ failure = "none"

Fail(kind) ==
    /\ pc' = "done" /\ failure' = kind
    /\ UNCHANGED <<now, cfg, op, provider, target, region, redirected, attempts, answered, wire>>

-------------------------------------------------------------------------------
(* Mutant of Build: the caller's headers are not looked at. *)
BuildAnyHeaders ==
    /\ pc = "build"
    /\ LET urls == object_url(cfg.endpoint, cfg.bucket, op.key, cfg.style)
       IN  IF urls = {} THEN Fail("configuration")
           ELSE /\ \E url \in urls : target' = with_query(url, canonical_query(op.query))
                /\ pc' = "sign"
                /\ UNCHANGED <<now, cfg, op, provider, region, redirected, attempts, answered, wire, failure>>

(* The operation: request_headers, operation_target, with_query. *)
Build ==
    /\ pc = "build"
    /\ LET urls == object_url(cfg.endpoint, cfg.bucket, op.key, cfg.style)
       IN  IF Protected \cap DOMAIN op.headers # {} \/ urls = {}
           THEN Fail("configuration")
           ELSE /\ \E url \in urls : target' = with_query(url, canonical_query(op.query))
                /\ pc' = "sign"
                /\ UNCHANGED <<now, cfg, op, provider, region, redirected, attempts, answered, wire, failure>>

(* Err of validate_common, reject_reserved_headers, canonical_headers and     *)
(* the canonical URI.                                                        *)
SigningRefused(identity, headers) ==
    \/ ~identity.wellformed
    \/ canonical_uri_from_encoded(target.path) = {}
    \/ {"authorization", "x-amz-date", "x-amz-security-token", "host"} \cap DOMAIN headers # {}

(* build_canonical_request.  The headers the client owns are fields of their *)
(* own: host, x-amz-date, x-amz-security-token, x-amz-content-sha256 and     *)
(* content-length; the length is absent when there is no body.               *)
CanonicalRequest(url, identity, date) ==
    [uri |-> canonical_uri_from_encoded(url.path), query |-> canonical_query(op.query),
     host |-> url.authority, date |-> date, token |-> identity.token,
     payload |-> op.body, length |-> op.body, headers |-> canonical_headers(op.headers)]

(* calculate_signature with derive_signing_key. *)
Signature(secret, date, scope, canonical) ==
    [secret |-> secret, date |-> date, region |-> scope, canonical |-> canonical]

(* The request signed_request returns, with the Authorization header; the    *)
(* headers are a fresh copy of the operation's in every attempt.             *)
SignedWire(url, identity, scope) ==
    [url |-> url, host |-> url.authority, date |-> now, token |-> identity.token,
     payload |-> op.body, length |-> op.body, headers |-> op.headers,
     key |-> identity.key, region |-> scope,
     signature |-> Signature(identity.secret, now, scope, CanonicalRequest(url, identity, now))]

(* Mutant of Sign: a retry sends the request that is already signed. *)
SignOnce ==
    /\ pc = "sign"
    /\ \/ provider = {} /\ Fail("provider")
       \/ \E identity \in provider :
             IF identity.expires <= now THEN Fail("expired")
             ELSE IF SigningRefused(identity, op.headers) THEN Fail("signing")
             ELSE /\ wire' = IF wire # {} THEN wire ELSE {SignedWire(target, identity, region)}
                  /\ pc' = "sent" /\ attempts' = attempts + 1
                  /\ UNCHANGED <<now, cfg, op, provider, target, region, redirected, answered, failure>>

(* signed_request fails or a request is handed to the transport. *)
Sign ==
    /\ pc = "sign"
    /\ \/ provider = {} /\ Fail("provider")
       \/ \E identity \in provider :
             IF identity.expires <= now THEN Fail("expired")
             ELSE IF SigningRefused(identity, op.headers) THEN Fail("signing")
             ELSE /\ wire' = {SignedWire(target, identity, region)}
                  /\ pc' = "sent" /\ attempts' = attempts + 1
                  /\ UNCHANGED <<now, cfg, op, provider, target, region, redirected, answered, failure>>

Succeed ==
    /\ pc = "sent" /\ pc' = "done"
    /\ UNCHANGED <<now, cfg, op, provider, target, region, redirected, attempts, answered, wire, failure>>

(* Mutant of RedirectedAuthority: the bucket is not put before the host. *)
RedirectedAuthorityBare(hint) == redirected_aws_authority(cfg.endpoint, hint)

(* The authority of the redirected request. *)
RedirectedAuthority(hint) ==
    {IF cfg.style = "Path" THEN a ELSE [a EXCEPT !.host.bucket = cfg.bucket] :
        a \in redirected_aws_authority(cfg.endpoint, hint)}

(* Mutant of FollowRedirect: the signing region is left as it was. *)
FollowRedirectOldRegion(hint) ==
    /\ \E authority \in RedirectedAuthority(hint) : target' = with_authority(target, authority)
    /\ redirected' = TRUE /\ pc' = "sign" /\ answered' = now
    /\ UNCHANGED <<now, cfg, op, provider, region, attempts, wire, failure>>

FollowRedirect(hint) ==
    /\ \E authority \in RedirectedAuthority(hint) : target' = with_authority(target, authority)
    /\ region' = hint
    /\ redirected' = TRUE /\ pc' = "sign" /\ answered' = now
    /\ UNCHANGED <<now, cfg, op, provider, attempts, wire, failure>>

(* An error response: followed as a region redirect, retried (the policy     *)
(* decides, RequestExecution), or returned.                                  *)
ErrorResponse(status, hint) ==
    /\ pc = "sent"
    /\ IF /\ ~redirected /\ controlled_region_redirect(status, hint) # {}
          /\ RedirectedAuthority(hint) # {}
          /\ op.replayable /\ attempts < MaxAttempts
       THEN FollowRedirect(hint)
       ELSE \/ Fail("service")
            \/ /\ op.replayable /\ attempts < MaxAttempts
               /\ pc' = "sign" /\ answered' = now
               /\ UNCHANGED <<now, cfg, op, provider, target, region, redirected, attempts, wire, failure>>

(* The provider rotates its credentials, or can not be reached. *)
Rotate ==
    /\ pc \in {"sign", "sent"} /\ provider' \in {{}} \cup {{i} : i \in Identities}
    /\ UNCHANGED <<now, cfg, op, pc, target, region, redirected, attempts, answered, wire, failure>>

Tick ==
    /\ now < Horizon /\ pc \in {"sign", "sent"}
    /\ now' = now + 1
    /\ UNCHANGED <<cfg, op, provider, pc, target, region, redirected, attempts, answered, wire, failure>>

Next ==
    \/ Build \/ Sign \/ Succeed \/ Rotate \/ Tick
    \/ \E status \in Statuses, hint \in Regions \cup {""} : ErrorResponse(status, hint)

Spec == Init /\ [][Next]_vars
-------------------------------------------------------------------------------
(* The service computes what it checks from the request it received. *)

(* The service finds the signature it computes itself. *)
ServiceVerifies(request) ==
    LET signed == request.signature.canonical
        secrets == {i.secret : i \in {i \in Identities : i.key = request.key /\ i.token = request.token}}
        parameters == ServiceParameters(request.url.query)
    IN  /\ request.signature.secret \in secrets
        /\ request.signature.date = request.date /\ signed.date = request.date
        /\ request.signature.region = request.region
        /\ signed.uri = {ServiceEncode(bytes, Unreserved \cup {SLASH}) :
                            bytes \in decode_url_field(request.url.path)}
        /\ IsCanonicalQuery(signed.query,
               [i \in DOMAIN parameters |-> <<CHOOSE n \in parameters[i][1] : TRUE,
                                             CHOOSE v \in parameters[i][2] : TRUE>>])
        /\ signed.host = request.host /\ request.host = request.url.authority
        /\ signed.token = request.token
        /\ signed.payload = request.payload /\ signed.length = request.length
        /\ signed.headers = [name \in DOMAIN request.headers |->
                               [i \in DOMAIN request.headers[name] |-> Squeezed(request.headers[name][i])]]

(* The bucket and key that the service reads out of the request. *)
ServiceReads(request) ==
    LET base == cfg.endpoint.base_path
        rest == SubSeq(request.url.path, Len(base) + 1, Len(request.url.path))
        cuts == {i \in DOMAIN rest : rest[i] = SLASH}
        cut == IF cuts = {} THEN Len(rest) + 1 ELSE CHOOSE i \in cuts : \A k \in cuts : i <= k
    IN  IF cfg.style = "VirtualHosted"
        THEN [bucket |-> {request.host.host.bucket}, key |-> decode_url_field(rest)]
        ELSE [bucket |-> decode_url_field(SubSeq(rest, 1, cut - 1)),
              key |-> decode_url_field(SubSeq(rest, cut + 1, Len(rest)))]

-------------------------------------------------------------------------------
TypeOK ==
    /\ now \in 0..Horizon
    /\ pc \in {"build", "sign", "sent", "done"}
    /\ region \in Regions /\ redirected \in BOOLEAN
    /\ attempts \in 0..MaxAttempts /\ answered \in 0..Horizon
    /\ failure \in {"none", "configuration", "provider", "expired", "signing", "service"}

(* Every request that leaves the client is accepted by a service that knows   *)
(* the credentials: encoding, query order, header values, host, date, token   *)
(* and payload are signed as they are sent, in the first attempt, after a     *)
(* rotation of the credentials and after a redirect.                          *)
SentRequestsVerify == \A request \in wire : ServiceVerifies(request)

(* The request names the bucket and the key of the operation, whatever bytes  *)
(* they are made of, also after a redirect.                                   *)
SentRequestsNameTheObject ==
    \A request \in wire :
        ServiceReads(request) = [bucket |-> {cfg.bucket}, key |-> {op.key}]

(* Credentials stay with the configured endpoint.  Another host gets a        *)
(* request only over https, only if it is the host of another region of the   *)
(* same AWS partition and variant, and the request is signed for that region. *)
RedirectsStayContained ==
    \A request \in wire :
        LET home == cfg.endpoint.authority
            host == [request.host.host EXCEPT !.bucket = <<>>]
        IN  \/ host = home.host /\ request.host.port = home.port
            \/ /\ request.url.scheme = "https"
               /\ home.host.prefix \in ServiceNames
               /\ host = [home.host EXCEPT !.region = request.region]

(* "Each attempt is signed again": the date of a request is not before the    *)
(* answer to the previous one, so that waiting between attempts does not      *)
(* make it stale, and it is signed with credentials that had not expired.     *)
SignedAfresh ==
    attempts' # attempts => \A request \in wire' :
        /\ request.date >= answered
        /\ \E i \in Identities : i.key = request.key /\ i.token = request.token /\ i.expires > request.date

(* Signing refuses nothing but a malformed access key or an endpoint whose    *)
(* base path has a stray percent sign (Endpoint::new lets both pass): the     *)
(* other checks of sign_headers can not fail for a request that was built.    *)
RefusedForConfiguration ==
    failure' = "signing" /\ failure = "none" =>
        (\E i \in provider : ~i.wellformed) \/ ~WellEncoded(cfg.endpoint.base_path)
===============================================================================
