\* Files of up to four bytes, bodies of up to three in two attempts, two
\* callers of the multipart primitives.
SPECIFICATION Scenes
CONSTANTS
    Callers <- TwoCallers
    Script <- OwnerAndOther
    MaxUploads = 2
    MaxPart = 2
    MaxAttempts = 2
    Contents <- TwoContents
    Sums <- TwoSums
    SourceData <- CopiedData
    Ranges <- TwoRanges
    TicksPerSecond = 1
    Byte = {0, 1}
    MaxLength = 4
    ReadSize = 2
    PartSizes = {1, 2, 3}
    Concurrencies = {1, 2}
    MaxPartNumber = 3
    MaxEdits = 2
    MaxBody = 3
    MaxChunk = 2
    MaxChanges = 2
    Bodies <- SomeBodies
    ChunkSize = 2
    Tails <- SomeTails
INVARIANTS
    ReadsNeverFail
    ObjectIsTheSnapshot
    BufferedBytesAreBounded
    BodiesAreSigned
    ChecksumsAreSound
    SessionsAreTruthful
CHECK_DEADLOCK FALSE
