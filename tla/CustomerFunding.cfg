SPECIFICATION FairSpec
CONSTANTS
    Intent = {plan}
    Plan = {plan}
    Capturer = {c1, c2, c3}
    NoIntent = NoIntent
    MaxFaults = 3
INVARIANTS
    TypeOK
    CapturedOnce
PROPERTIES
    ImplementsPrepaidGrants
    RefundRevokes
    CapturedIsFunded
CHECK_DEADLOCK FALSE
