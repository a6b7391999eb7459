SPECIFICATION QueueSpec
CONSTANTS
    a = a
    b = b
    a2 = a2
    u1 = u1
    u2 = u2
    Candidate <- MCCandidate
    Sha <- MCSha
    Uri <- MCUri
    Manifest <- MCManifest
    NoUri = NoUri
    Item = {i1, i2}
    NoItem = NoItem
    MaxItemRetries = 2
    Consumer = {k1, k2}
    Nobody = Nobody
    MaxRetries = 3
    SliceSize = 1
    DailyCeiling = 3
    MaxFaults = 3
INVARIANTS
    TypeOK
    CommittedIsComplete
    AckedIsSettled
    ArticleJournalParity
    NoPartialAdmission
    ItemTypeOK
    AckedIsStored
PROPERTIES
    SettledIsFinal
    ImplementsSettlement
    BundlesSettle
    ItemsStaySettled
