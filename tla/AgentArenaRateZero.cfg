SPECIFICATION Spec
CONSTANTS
    Market = {m1, m2}
    User = {alice, bob}
    Provider = {lp}
    Juror = {j1, j2}
    JuryThreshold = 2
    Amount = {100}
    Deposit = {100}
    Burn = {95}
    LossBps = {0, 500}
    FeeBps = {300}
    BondFloor = 10
    BondCap = 15
    MaxPool = 300
    MaxMoves = 2
    MaxKept = 5
SYMMETRY Alike
INVARIANTS
    WorstCaseReserved
CHECK_DEADLOCK FALSE
