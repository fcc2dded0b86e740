\* Three tasks on one cache; two attempts of a request; presigned URLs with
\* lifetimes of none, one, one and a half, two and three seconds; a builder with
\* four setters.
SPECIFICATION FairScenes
CONSTANTS
    Callers = {c1, c2, c3}
    MaxCalls = 4
    RefreshBefore = 1
    Lifetimes = {2}
    Horizon = 2
    MaxFetches = 4
    Never = Never
    Lost = Lost
    RequestEndpoints <- SignedEndpoints
    RequestBuckets <- SignedBuckets
    RequestKeys <- SignedKeys
    RequestQueries <- SignedQueries
    RequestHeaders <- SignedHeaders
    SigningRegions = {"east", "west"}
    RequestIdentities <- SignedIdentities
    ErrorStatuses = {301, 500}
    MaxAttempts = 2
    RequestHorizon = 1
    PresignClients <- UrlClients
    PresignKeys <- UrlKeys
    UploadIds <- UrlUploadIds
    PresignIdentities <- UrlIdentities
    PresignLifetimes = {0, 2, 3, 4, 6}
    MaxPresignExpiry = 2
    DaySeconds = 2
    Number <- OneDigit
    PresignHorizon = 8
    EndpointInputs <- BuilderInputs
    EndpointVariants <- BuilderVariants
    ClientBuckets <- BuilderBuckets
    ClientKeys <- BuilderKeys
    ClientRegions = {"us-east-1", "bad region"}
    MalformedRegions = {"bad region"}
    Timeouts = {0, 3}
    MaxDuration = 2
    MaxSetters = 4
    MaxHandles = 1
INVARIANTS
    AnswersAreCurrent
    NoRefreshStorm
    SentRequestsAreAccepted
    UrlsAreHonoured
    HandlesAreSound
PROPERTIES
    CallsEnd
    
CHECK_DEADLOCK FALSE
