SPECIFICATION Spec
CONSTANTS
    plan = plan
    pack = pack
    country = country
    corridor = corridor
    Intent <- MCIntent
    Request <- MCRequest
    Key = {k1, k2}
    Spender = {s1, s2}
    Nothing = Nothing
    Credits <- MCCredits
    ExpiresAt <- MCExpiry
    Cost <- MCCost
    Covered <- MCCovered
    MaxKeys = 1
    MaxNow = 1
    MaxFaults = 1
SYMMETRY MCSymmetry
INVARIANTS
    SpendingTypeOK
    WithinGrant
    OfferedIsAccepted
PROPERTIES
    ChargedIsCurrent
CHECK_DEADLOCK FALSE
