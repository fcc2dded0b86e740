-------------------------------- MODULE Signing --------------------------------
(***************************************************************************)
(* From credentials and configuration to requests and URLs the service      *)
(* accepts: the credentials cache, the builder and its handles, signed      *)
(* attempts, presigned URLs.  A behaviour is one of the scenes; the         *)
(* components of the others rest.                                           *)
(***************************************************************************)
EXTENDS CredentialsCache, Endpoint, SigV4Service

CONSTANTS
    RequestEndpoints, RequestBuckets, RequestKeys, RequestQueries, RequestHeaders,  \* SignedRequest
    SigningRegions, RequestIdentities, ErrorStatuses, MaxAttempts, RequestHorizon,
    PresignClients, PresignKeys, UploadIds, PresignIdentities, PresignLifetimes,    \* Presigning
    MaxPresignExpiry, DaySeconds, Number, PresignHorizon,
    EndpointInputs, EndpointVariants, ClientBuckets, ClientKeys, ClientRegions,     \* ClientConfig
    MalformedRegions, Timeouts, MaxDuration, MaxSetters, MaxHandles

VARIABLES
    scene,                                                    \* which component moves
    clock, at, cfg, failure,                                  \* SignedRequest and Presigning
    op, provider, target, region, redirected, attempts, answered, wire,  \* SignedRequest
    call, url, answer,                                        \* Presigning
    builder, setters, opted, handles, sent, error             \* ClientConfig

both == <<clock, at, cfg, failure>>
request == <<op, provider, target, region, redirected, attempts, answered, wire>>
presign == <<call, url, answer>>
config == <<builder, setters, opted, handles, sent, error>>
all == <<scene, vars, both, request, presign, config>>

SR == INSTANCE SignedRequest WITH
    now <- clock, pc <- at,
    Endpoints <- RequestEndpoints, Buckets <- RequestBuckets, Keys <- RequestKeys,
    Queries <- RequestQueries, HeaderMaps <- RequestHeaders, Regions <- SigningRegions,
    Identities <- RequestIdentities, Statuses <- ErrorStatuses, Horizon <- RequestHorizon

PS == INSTANCE Presigning WITH
    now <- clock, pc <- at, issued <- url,
    Clients <- PresignClients, Keys <- PresignKeys, Identities <- PresignIdentities,
    Lifetimes <- PresignLifetimes, Horizon <- PresignHorizon

CF == INSTANCE ClientConfig WITH
    Inputs <- EndpointInputs, Variants <- EndpointVariants, Buckets <- ClientBuckets,
    Keys <- ClientKeys, Regions <- ClientRegions

ASSUME SigningAssumption ==
    SR!SignedRequestAssumption /\ PS!PresigningAssumption /\ CF!ConfigAssumption

-------------------------------------------------------------------------------
BothRest == clock = 0 /\ at = 0 /\ cfg = 0 /\ failure = 0
RequestRests ==
    /\ op = 0 /\ provider = 0 /\ target = 0 /\ region = 0
    /\ redirected = 0 /\ attempts = 0 /\ answered = 0 /\ wire = 0
PresignRests == call = 0 /\ url = 0 /\ answer = 0
ConfigRests == builder = 0 /\ setters = 0 /\ opted = 0 /\ handles = 0 /\ sent = 0 /\ error = 0

ScenesInit ==
    /\ Init
    /\ \/ scene = "cache" /\ BothRest /\ RequestRests /\ PresignRests /\ ConfigRests
       \/ scene = "request" /\ SR!Init /\ PresignRests /\ ConfigRests
       \/ scene = "presign" /\ PS!Init /\ RequestRests /\ ConfigRests
       \/ scene = "config" /\ CF!Init /\ BothRest /\ RequestRests /\ PresignRests

ScenesNext ==
    /\ UNCHANGED scene
    /\ \/ scene = "cache" /\ Next /\ UNCHANGED <<both, request, presign, config>>
       \/ scene = "request" /\ SR!Next /\ UNCHANGED <<vars, presign, config>>
       \/ scene = "presign" /\ PS!Next /\ UNCHANGED <<vars, request, config>>
       \/ scene = "config" /\ CF!Next /\ UNCHANGED <<vars, both, request, presign>>

Scenes == ScenesInit /\ [][ScenesNext]_all

(* The fairness of CredentialsCache. *)
FairScenes == Scenes /\ \A c \in Callers : WF_vars(Step(c))

-------------------------------------------------------------------------------
(* Every request on the wire carries the signature that the service computes  *)
(* from the bytes it got, names the bucket and key of the operation, and      *)
(* leaves the configured host for another region of the same service only     *)
(* (signed_request, canonical_request, redirected_aws_authority).             *)
SentRequestsAreAccepted ==
    scene = "request" =>
        /\ SR!TypeOK
        /\ SR!SentRequestsVerify /\ SR!SentRequestsNameTheObject /\ SR!RedirectsStayContained

(* Every attempt is signed with credentials that have not expired and a date  *)
(* that is not before the answer to the previous one, and signing fails for   *)
(* nothing but a malformed access key or base path (signed_request inside the *)
(* loop of send_signed_inner).                                                *)
AttemptsAreSignedAfresh ==
    [][scene = "request" => SR!SignedAfresh /\ SR!RefusedForConfiguration]_<<both, request>>

(* A URL that was issued is never refused for its signature or credentials,   *)
(* is honoured for the lifetime asked for or at most a second less, and for   *)
(* no longer, although clock and credentials move while it is made (presign,  *)
(* sign_presigned).                                                           *)
UrlsAreHonoured ==
    scene = "presign" => PS!TypeOK /\ PS!UrlsAreNeverForbidden /\ PS!UrlsLiveAsLongAsAsked

(* What build and for_bucket have accepted never refuses a request later,     *)
(* speaks plain HTTP only when that was asked for, and gives two buckets two  *)
(* addresses (S3ConfigBuilder::build, S3Config::for_bucket).                  *)
HandlesAreSound ==
    scene = "config" =>
        /\ CF!TypeOK
        /\ CF!HandlesNeverRefuseARequest /\ CF!PlainHttpIsOptedIn /\ CF!BucketsStayApart
===============================================================================
