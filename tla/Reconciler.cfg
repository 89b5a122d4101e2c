SPECIFICATION ReconcilerSpec
CONSTANTS
    Accounts = {a1}
    Resolvers = {r1}
    NoAccount = NoAccount
    EvidenceHashes = {e1}
    ReasonHashes = {d1}
    NoHash = NoHash
    Funds = 2
    Fees = {0}
    InitParams <- TwoConfigurations
    MIN_CHALLENGE_WINDOW = 1
    MAX_CHALLENGE_WINDOW = 1
    MIN_RESOLUTION_WINDOW = 1
    MAX_RESOLUTION_WINDOW = 1
    MAX_TIMESTAMP = 3
    Addresses = {x1, x2}
    NoAddress = NoAddress
    NoRow = NoRow
    LastBlock = 2
    MaxMoves = 1
    MaxBranch = 1
    MaxMishaps = 1
SYMMETRY AddressSymmetry
INVARIANTS
    HealthyIsTruthful
    NoFalseAlarm
