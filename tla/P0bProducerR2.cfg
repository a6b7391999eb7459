SPECIFICATION ProducerFairSpec
CONSTANTS
    storm = storm
    flood = flood
    stormToo = stormToo
    Candidate <- TwinCandidate
    Sha <- TwinSha
    SourceOf <- TwinSource
    Fetch <- TwinFetch
    Uri <- TwinUri
    Manifest <- TwinManifest
    NoUri = NoUri
    Nobody = Nobody
    Poller = {p1}
    Drainer = {}
    R2Drainer = {r1}
    ChunkLimit = 1
    DrainLimit = 2
    R2Enabled = TRUE
    Consumed = {}
    MaxFailures = 3
INVARIANTS
    AdvancedIsDurable
    R2VerifiedIsJournaled
PROPERTIES
    R2Replayed
