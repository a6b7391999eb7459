SPECIFICATION FairSpec
CONSTANTS
    Payload = {h1, h2}
    Invocation = {i1, i2}
    MaxAudits = 2
    MaxFaults = 3
    Nobody = Nobody
    NoPayload = NoPayload
INVARIANTS
    TypeOK
    AnswerIsBacked
PROPERTY
    DeliveredIsServed
