SPECIFICATION Spec
CONSTANTS
    p1 = p1
    p2 = p2
    p3 = p3
    agent = agent
    Payment <- MCPayment
    Payer <- MCPayer
    Price <- MCPrice
    Invocation = {i1, i2, i3}
    Nobody = Nobody
    Reference = {r1, r2}
    NoReference = NoReference
    MaxAmount = 4
    MaxRequests = 1
    MaxFaults = 0
SYMMETRY Symmetric
CHECK_DEADLOCK FALSE
INVARIANT DailyCeiling
