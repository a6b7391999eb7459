SPECIFICATION ProducerSpec
CONSTANTS
    storm = storm
    flood = flood
    stormToo = stormToo
    Candidate <- RaceCandidate
    Sha <- RaceSha
    SourceOf <- RaceSource
    Fetch <- RaceFetch
    Uri <- RaceUri
    Manifest <- RaceManifest
    NoUri = NoUri
    Nobody = Nobody
    Poller = {p1}
    Drainer = {d1}
    R2Drainer = {}
    ChunkLimit = 2
    DrainLimit = 2
    R2Enabled = FALSE
    Consumed <- RaceConsumed
    MaxFailures = 1
INVARIANTS
    ProducerTypeOK
    AdvancedIsDurable
    ArchivedIsCovered
PROPERTIES
    SealedUntilArchived
