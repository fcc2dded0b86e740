----------------------------- MODULE ClientConfig -----------------------------
(***************************************************************************)
(* S3ConfigBuilder, S3Config and S3Client::new (config/mod.rs,              *)
(* client/mod.rs): setters called in any order, build, the client with its  *)
(* transport, and the handles that for_bucket derives from it.  What build  *)
(* has checked must be enough for every later request.                      *)
(***************************************************************************)
EXTENDS Endpoint

CONSTANTS
    Inputs,       \* the parts of endpoint URLs given to Endpoint::new
    Variants,     \* the regional endpoints given to for_aws_region_variant
    Buckets,      \* bucket names, good and bad
    Keys,         \* object keys
    Regions,      \* region names; MalformedRegions are refused
    MalformedRegions,
    Timeouts,     \* durations; 0 and those beyond MaxDuration are refused
    MaxDuration,  \* the longest duration that can be added to an Instant
    MaxSetters,   \* bound: setter calls before build
    MaxHandles    \* bound: for_bucket calls

(* What the constants have to be. *)
ConfigAssumption ==
    /\ Buckets \subseteq Seq(0..255) /\ Keys \subseteq Seq(0..255)
    /\ \A input \in Inputs :
          /\ input.host \in HostShape
          /\ input.base \in Seq(0..255) /\ (input.base # <<>> => input.base[1] = SLASH)
    /\ MaxDuration \in Nat /\ Timeouts \subseteq Nat
    /\ MalformedRegions \subseteq Regions
    /\ MaxSetters \in Nat /\ MaxHandles \in Nat

VARIABLES
    builder,     \* the S3ConfigBuilder
    setters,     \* how many setters were called
    opted,       \* history: allow_http_for_local_testing was called
    handles,     \* the S3Client handles, in the order in which they were made
    sent,        \* the URL of the last request; {} is none
    error        \* the last call returned an error

vars == <<builder, setters, opted, handles, sent, error>>

Phases == {"connect", "attempt", "operation", "idle"}

(* Endpoint::default *)
DefaultEndpoint == CHOOSE e \in EndpointNew(
    [scheme |-> "https", userinfo |-> FALSE, query |-> FALSE,
     host |-> Host("s3", "", "amazonaws.com", FALSE), port |-> {}, base |-> <<>>]) : TRUE

(* S3ConfigBuilder::default; the limits and the user agent are kept as       *)
(* whether they are usable.                                                  *)
Init ==
    /\ builder = [endpoint |-> DefaultEndpoint, region |-> "us-east-1", bucket |-> {},
                  style |-> "Path", allow_http |-> FALSE,
                  timeout |-> [phase \in Phases |-> 1], limits |-> TRUE, user_agent |-> TRUE]
    /\ setters = 0 /\ opted = FALSE
    /\ handles = <<>> /\ sent = {} /\ error = FALSE

Set(values) ==
    /\ handles = <<>> /\ setters < MaxSetters
    /\ setters' = setters + 1 /\ builder' \in values /\ error' = FALSE
    /\ UNCHANGED <<opted, handles, sent>>

(* Endpoint::new or for_aws_region_variant, then the endpoint setter. *)
SetEndpoint(endpoints) ==
    \/ Set({[builder EXCEPT !.endpoint = e] : e \in endpoints})
    \/ /\ handles = <<>> /\ endpoints = {} /\ error' = TRUE
       /\ UNCHANGED <<builder, setters, opted, handles, sent>>

SetTimeout == Set({[builder EXCEPT !.timeout[phase] = t] : phase \in Phases, t \in Timeouts})

SetOther ==
    Set({[builder EXCEPT !.region = r] : r \in Regions}
        \cup {[builder EXCEPT !.bucket = {b}] : b \in Buckets}
        \cup {[builder EXCEPT !.style = s] : s \in AddressingStyles}
        \cup {[builder EXCEPT !.limits = FALSE], [builder EXCEPT !.user_agent = FALSE]})

allow_http_for_local_testing ==
    /\ handles = <<>> /\ setters < MaxSetters
    /\ builder' = [builder EXCEPT !.allow_http = TRUE]
    /\ opted' = TRUE /\ setters' = setters + 1
    /\ UNCHANGED <<handles, sent, error>>

-------------------------------------------------------------------------------
(* Mutant of Buildable: the scheme is not looked at. *)
BuildableAnyScheme(bucket) ==
    /\ builder.region \notin MalformedRegions
    /\ \A phase \in Phases : builder.timeout[phase] \in 1..MaxDuration
    /\ builder.limits /\ builder.user_agent
    /\ object_url(builder.endpoint, bucket, <<>>, builder.style) # {}

(* The checks of build. *)
Buildable(bucket) ==
    /\ builder.endpoint.scheme = "https" \/ builder.allow_http
    /\ builder.region \notin MalformedRegions
    /\ \A phase \in Phases : builder.timeout[phase] \in 1..MaxDuration
    /\ builder.limits /\ builder.user_agent
    /\ object_url(builder.endpoint, bucket, <<>>, builder.style) # {}

(* Transport::new: what S3Client::new gives to the transport. *)
TransportFor(endpoint) == [allow_http |-> endpoint.scheme # "https"]

(* build and S3Client::new: the first handle, with its transport. *)
Build ==
    /\ handles = <<>>
    /\ IF \E bucket \in builder.bucket : Buildable(bucket)
       THEN /\ \E bucket \in builder.bucket :
                  handles' = <<[endpoint |-> builder.endpoint, region |-> builder.region,
                                bucket |-> bucket, style |-> builder.style, timeout |-> builder.timeout,
                                transport |-> TransportFor(builder.endpoint)]>>
            /\ error' = FALSE
       ELSE error' = TRUE /\ UNCHANGED handles
    /\ UNCHANGED <<builder, setters, opted, sent>>

(* Mutant of BucketAllowed: only an empty name is refused. *)
BucketGiven(handle, bucket) == bucket # <<>>

(* for_bucket: an error for a bucket the style does not allow. *)
BucketAllowed(handle, bucket) ==
    bucket # <<>> /\ object_url(handle.endpoint, bucket, <<>>, handle.style) # {}

for_bucket(handle, bucket) ==
    /\ Len(handles) <= MaxHandles
    /\ IF BucketAllowed(handle, bucket)
       THEN handles' = Append(handles, [handle EXCEPT !.bucket = bucket]) /\ error' = FALSE
       ELSE error' = TRUE /\ UNCHANGED handles
    /\ UNCHANGED <<builder, setters, opted, sent>>

(* Transport::send refuses a scheme that was not permitted. *)
TransportRefuses(transport, url) ==
    url.scheme # "https" /\ (~transport.allow_http \/ url.scheme # "http")

(* operation_target and Transport::send of an operation. *)
Send(handle, key) ==
    LET urls == object_url(handle.endpoint, handle.bucket, key, handle.style)
    IN  /\ IF \E url \in urls : ~TransportRefuses(handle.transport, url)
           THEN sent' = urls /\ error' = FALSE
           ELSE error' = TRUE /\ sent' = {}
        /\ UNCHANGED <<builder, setters, opted, handles>>

Next ==
    \/ \E input \in Inputs : SetEndpoint(EndpointNew(input))
    \/ \E v \in Variants : SetEndpoint(for_aws_region_variant(v[1], v[2], v[3]))
    \/ SetTimeout \/ SetOther \/ allow_http_for_local_testing \/ Build
    \/ \E i \in DOMAIN handles :
          \/ \E bucket \in Buckets : for_bucket(handles[i], bucket)
          \/ \E key \in Keys \cup {<<>>} : Send(handles[i], key)

Spec == Init /\ [][Next]_vars
-------------------------------------------------------------------------------
TypeOK ==
    /\ setters \in 0..MaxSetters /\ opted \in BOOLEAN /\ error \in BOOLEAN
    /\ DOMAIN builder = {"endpoint", "region", "bucket", "style", "allow_http", "timeout",
                         "limits", "user_agent"}
    /\ builder.timeout \in [Phases -> Timeouts \cup {1}]
    /\ Len(handles) <= MaxHandles + 1

(* A handle that exists can address every key: what build and for_bucket     *)
(* checked once is never refused later, neither by object_url nor by the     *)
(* transport the handle was given.                                           *)
HandlesNeverRefuseARequest ==
    \A i \in DOMAIN handles, key \in Keys \cup {<<>>} :
        \E url \in object_url(handles[i].endpoint, handles[i].bucket, key, handles[i].style) :
            ~TransportRefuses(handles[i].transport, url)

(* No request goes over plain HTTP unless allow_http_for_local_testing was    *)
(* called before build.                                                      *)
PlainHttpIsOptedIn == \A url \in sent : url.scheme = "https" \/ opted

(* The handles of one client differ in the bucket only, and two handles with  *)
(* different buckets never send to the same URL.                             *)
BucketsStayApart ==
    \A i, j \in DOMAIN handles, key \in Keys :
        handles[i].bucket # handles[j].bucket =>
            /\ [handles[i] EXCEPT !.bucket = <<>>] = [handles[j] EXCEPT !.bucket = <<>>]
            /\ object_url(handles[i].endpoint, handles[i].bucket, key, handles[i].style)
                 \cap object_url(handles[j].endpoint, handles[j].bucket, key, handles[j].style) = {}
===============================================================================
