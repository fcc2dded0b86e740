\* Sweeps of a bucket, four entries in pages of at most two, and documents.
SPECIFICATION Scenes
CONSTANTS
    Mine <- TenantA
    Digests = {1, 2, 3}
    Publishers <- TwoPublishers
    Published <- Publications
    Uploaded = 1
    Live = {1}
    Crews <- TwoCrews
    Objects <- StoredObjects
    Uploads <- OpenUploads
    OwnId = 9
    Cutoff = 2
    MaxAttempts = 2
    BatchLimit = 2
    PageSize = 1
    MaxPages = 5
    LastEntry = 4
    EntriesPerPage = 2
    MaximumPages = 3
    MaxChanges = 1
    Bodies <- XmlBodies
    Maximum = 3
    MaxPart = 3
    Documents <- SomeDocuments
INVARIANTS
    NoPageAskedTwice
    ListingIsExact
    
    ManifestsHavePayloads
    
CHECK_DEADLOCK FALSE
