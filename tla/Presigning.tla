------------------------------ MODULE Presigning ------------------------------
(***************************************************************************)
(* presign (client/presign.rs) and sign_presigned                            *)
(* (signing/request/presign.rs): a URL that carries its authorization is     *)
(* made at one moment and used by somebody else at another.  The clock ticks *)
(* in half seconds, the dates in the URL are whole seconds, and the provider *)
(* takes its time to answer.  Names are shortened: the order of the bytes    *)
(* that are left is the order of the full names.                             *)
(***************************************************************************)
EXTENDS Endpoint, SigV4Service

CONSTANTS
    Clients,          \* endpoint, bucket, style and region (bytes) of a client
    Keys,             \* object keys
    UploadIds,        \* upload ids, opaque strings the service chose
    Identities,       \* [key, secret, token, expires]; expires {} is never
    Lifetimes,        \* what callers ask for, in half seconds
    MaxPresignExpiry, \* MAX_PRESIGN_EXPIRY, in seconds
    DaySeconds,       \* the length of a day
    Number,           \* how a number is written: a date, a day, a lifetime
    Horizon           \* bound: the clock stops here

(* What the constants have to be: an endpoint's base path is rooted and,     *)
(* if it is an encoded one, minimal; and numbers that differ are written differently.                 *)
PresigningAssumption ==
    /\ MaxPresignExpiry \in Nat \ {0} /\ DaySeconds \in Nat \ {0} /\ Horizon \in Nat \ {0}
    /\ Number \in [0..(Horizon + MaxPresignExpiry) -> Seq(Byte)]
    /\ \A m, n \in DOMAIN Number : Number[m] = Number[n] => m = n
    /\ Keys \subseteq Seq(Byte) /\ UploadIds \subseteq Seq(Byte) /\ Lifetimes \subseteq Nat
    /\ \A i \in Identities :
          /\ i.key \in Seq(Byte) /\ i.token \subseteq Seq(Byte) /\ i.expires \subseteq Nat
          /\ \A s, t \in i.token : s = t
    /\ \A c \in Clients :
          /\ c.bucket \in Seq(Byte) /\ c.region \in Seq(Byte) /\ c.endpoint \in EndpointShape
          /\ Rooted(c.endpoint.base_path)
          /\ WellEncoded(c.endpoint.base_path) => Minimal(c.endpoint.base_path)

VARIABLES
    now,      \* the clock, in half seconds
    cfg,      \* the client
    call,     \* method, key, query and lifetime of the call
    pc,       \* call, provide, done
    issued,   \* the URL with the moment it was made and its identity; {} is none
    failure,  \* the error returned to the caller
    answer    \* what the service said to the holder of the URL

vars == <<now, cfg, call, pc, issued, failure, answer>>

(* presigned_get to presigned_abort_multipart_upload: "uploads",             *)
(* "partNumber" and "uploadId" are u, p and i.                               *)
Calls ==
    [method : {"GET", "PUT", "HEAD", "DELETE"}, key : Keys, query : {<<>>}, expires : Lifetimes]
      \cup [method : {"POST"}, key : Keys, query : {<< <<<<117>>, <<>>>> >>}, expires : Lifetimes]
      \cup [method : {"PUT"}, key : Keys, expires : Lifetimes,
            query : {<< <<<<112>>, <<55>>>>, <<<<105>>, id>> >> : id \in UploadIds}]
      \cup [method : {"DELETE"}, key : Keys, query : {<< <<<<105>>, id>> >> : id \in UploadIds},
            expires : Lifetimes]

Init ==
    /\ now \in 0..1
    /\ cfg \in {c \in Clients : object_url(c.endpoint, c.bucket, <<>>, c.style) # {}}
    /\ call \in Calls
    /\ pc = "call" /\ issued = {} /\ failure = "none" /\ answer = "none"

Fail(kind) ==
    /\ pc' = "done" /\ failure' = kind
    /\ UNCHANGED <<now, cfg, call, issued, answer>>

(* The target is built, then the provider is asked. *)
Call ==
    /\ pc = "call" /\ pc' = "provide"
    /\ UNCHANGED <<now, cfg, call, issued, failure, answer>>

-------------------------------------------------------------------------------
(* X-Amz- Algorithm, Credential, Date, Expires, Security-Token, SignedHeaders *)
ALGORITHM     == <<88, 65>>
CREDENTIAL    == <<88, 67>>
DATE          == <<88, 68>>
EXPIRES       == <<88, 69>>
TOKEN         == <<88, 83, 101>>
SIGNEDHEADERS == <<88, 83, 105>>

(* format_timestamp: the date and time in whole seconds, and the day. *)
format_timestamp(time) == [amz_date |-> time \div 2, date |-> (time \div 2) \div DaySeconds]

(* credential_scope after the access key. *)
credential(identity, date, region) ==
    identity.key \o <<SLASH>> \o Number[date] \o <<SLASH>> \o region

(* Mutant of parameters: the token joins the URL after it was signed. *)
parametersNoToken(identity, stamp, query, expires, region) ==
    query \o << <<ALGORITHM, <<52>>>>, <<CREDENTIAL, credential(identity, stamp.date, region)>>,
                <<DATE, Number[stamp.amz_date]>>, <<EXPIRES, Number[expires]>>,
                <<SIGNEDHEADERS, <<104>>>> >>

(* The parameters that are signed and sent. *)
parameters(identity, stamp, query, expires, region) ==
    query \o << <<ALGORITHM, <<52>>>>, <<CREDENTIAL, credential(identity, stamp.date, region)>>,
                <<DATE, Number[stamp.amz_date]>>, <<EXPIRES, Number[expires]>>,
                <<SIGNEDHEADERS, <<104>>>> >>
          \o (IF identity.token = {} THEN <<>>
              ELSE << <<TOKEN, CHOOSE t \in identity.token : TRUE>> >>)

(* Mutant of ValidExpiry: the fraction of a second is dropped silently. *)
ValidExpiryTruncated(expires) == expires \div 2 \in 1..MaxPresignExpiry

(* The InvalidExpiry check. *)
ValidExpiry(expires) == expires % 2 = 0 /\ expires \div 2 \in 1..MaxPresignExpiry

(* sign_presigned and the format! of presign: the signature comes after the  *)
(* sorted parameters.                                                        *)
sign_presigned(identity, target, time) ==
    LET stamp == format_timestamp(time)
        query == parameters(identity, stamp, call.query, call.expires \div 2, cfg.region)
    IN  IF canonical_uri_from_encoded(target.path) = {} \/ ~ValidExpiry(call.expires) THEN {}
        ELSE {[method |-> call.method,
               url |-> with_query(target, canonical_query(query)),
               signature |-> [secret |-> identity.secret, stamp |-> stamp, region |-> cfg.region,
                              canonical |-> [method |-> call.method,
                                             uri |-> canonical_uri_from_encoded(target.path),
                                             query |-> canonical_query(query),
                                             host |-> target.authority, payload |-> "UNSIGNED"]]]}

(* "presigned URL lifetime must end before the credentials expire" *)
OutlivesCredentials(identity, time) ==
    \E expiry \in identity.expires : time + call.expires >= expiry

(* The provider answers and the rest of presign runs without waiting; the    *)
(* clock is read after the answer.                                           *)
Provide(identity) ==
    /\ pc = "provide"
    /\ IF \E expiry \in identity.expires : expiry <= now THEN Fail("expired")
       ELSE IF OutlivesCredentials(identity, now) THEN Fail("outlives")
       ELSE \E target \in object_url(cfg.endpoint, cfg.bucket, call.key, cfg.style) :
              LET signed == sign_presigned(identity, target, now)
              IN  IF signed = {} THEN Fail("signing")
                  ELSE /\ issued' = {[request |-> s, at |-> now, identity |-> identity] : s \in signed}
                       /\ pc' = "done"
                       /\ UNCHANGED <<now, cfg, call, failure, answer>>

(* provide_credentials returns an error. *)
ProviderFails == pc = "provide" /\ Fail("provider")

Tick ==
    /\ now < Horizon /\ now' = now + 1 /\ answer' = "none"
    /\ UNCHANGED <<cfg, call, pc, issued, failure>>

-------------------------------------------------------------------------------
(* The service: what it reads in the URL's query.  A parameter that is       *)
(* missing has no values, one that is repeated has several.                  *)
Received(request, name) ==
    LET pairs == ServiceParameters(request.url.query)
    IN  UNION {pairs[i][2] : i \in {i \in DOMAIN pairs : pairs[i][1] = {name}}}

(* The number that is written in a field. *)
NumberIn(field) == CHOOSE n \in DOMAIN Number : Number[n] = field

(* It computes the signature from the request and the secret it knows. *)
ServiceVerifies(request) ==
    \E identity \in Identities, amz \in Received(request, DATE) :
        LET pairs == ServiceParameters(request.url.query)
            date == NumberIn(amz)
            signed == request.signature.canonical
        IN  /\ Received(request, CREDENTIAL)
                 = {identity.key \o <<SLASH>> \o Number[date \div DaySeconds] \o <<SLASH>> \o cfg.region}
            /\ Received(request, TOKEN) = identity.token
            /\ request.signature = [secret |-> identity.secret, region |-> cfg.region, canonical |-> signed,
                                    stamp |-> [amz_date |-> date, date |-> date \div DaySeconds]]
            /\ signed.method = request.method /\ signed.host = request.url.authority
            /\ signed.uri = {ServiceEncode(bytes, Unreserved \cup {SLASH}) :
                                bytes \in decode_url_field(request.url.path)}
            /\ IsCanonicalQuery(signed.query,
                   [i \in DOMAIN pairs |-> <<CHOOSE n \in pairs[i][1] : TRUE,
                                             CHOOSE v \in pairs[i][2] : TRUE>>])
            /\ signed.payload = "UNSIGNED"

(* The second in which the URL ends, as the service reads it. *)
UrlEnd(request) ==
    NumberIn(CHOOSE d \in Received(request, DATE) : TRUE)
      + NumberIn(CHOOSE e \in Received(request, EXPIRES) : TRUE)

(* The holder of the URL uses it. *)
Use ==
    /\ answer = "none"
    /\ \E url \in issued :
          answer' = IF ~ServiceVerifies(url.request) THEN "forbidden"
                    ELSE IF now >= 2 * UrlEnd(url.request) THEN "url expired"
                    ELSE IF \E expiry \in url.identity.expires : expiry <= now THEN "credentials expired"
                    ELSE "ok"
    /\ UNCHANGED <<now, cfg, call, pc, issued, failure>>

Next ==
    \/ Call \/ ProviderFails \/ Tick \/ Use
    \/ \E identity \in Identities : Provide(identity)

Spec == Init /\ [][Next]_vars

-------------------------------------------------------------------------------
TypeOK ==
    /\ now \in 0..Horizon
    /\ cfg \in Clients /\ call \in Calls
    /\ pc \in {"call", "provide", "done"}
    /\ issued # {} => pc = "done" /\ failure = "none"
    /\ failure \in {"none", "expired", "outlives", "signing", "provider"}
    /\ answer \in {"none", "forbidden", "url expired", "credentials expired", "ok"}

(* A URL that presign returned is never refused for its signature or for its *)
(* credentials: the scope's day is the day of its date, the session token is *)
(* signed, and the credentials outlive the URL at every moment it is used.   *)
UrlsAreNeverForbidden == answer \notin {"forbidden", "credentials expired"}

(* A URL is honoured for the lifetime its caller asked for, and not longer.  *)
(* Its end is cut to the second in which it was made, so that it may end     *)
(* less than a second early.                                                 *)
UrlsLiveAsLongAsAsked ==
    \A url \in issued :
        /\ answer = "ok" => now < url.at + call.expires
        /\ answer = "url expired" => now > url.at + call.expires - 2
===============================================================================
