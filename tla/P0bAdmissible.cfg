SPECIFICATION ProducerSpec
CONSTANTS
    storm = storm
    flood = flood
    stormToo = stormToo
    Candidate <- PairCandidate
    Sha <- PairSha
    SourceOf <- PairSource
    Fetch <- PairFetch
    Uri <- PairUri
    Manifest <- PairManifest
    NoUri = NoUri
    Nobody = Nobody
    Poller = {p1}
    Drainer = {d1}
    R2Drainer = {}
    ChunkLimit = 2
    DrainLimit = 2
    R2Enabled = FALSE
    Consumed = {}
    MaxFailures = 2
INVARIANTS
    AdvancedIsAdmissible
