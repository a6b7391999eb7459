SPECIFICATION ProducerFairSpec
CONSTANTS
    storm = storm
    flood = flood
    stormToo = stormToo
    Candidate <- PairCandidate
    Sha <- PairSha
    SourceOf <- PairSource
    Fetch <- QueueFetch
    Uri <- QueueUri
    Manifest <- QueueManifest
    NoUri = NoUri
    Nobody = Nobody
    Poller = {p1}
    Drainer = {d1}
    R2Drainer = {}
    ChunkLimit = 1
    DrainLimit = 1
    R2Enabled = FALSE
    Consumed = {}
    MaxFailures = 1
PROPERTIES
    OutboxReplayed
