SPECIFICATION Spec

CONSTANTS
    m1 = m1
    m2 = m2
    NoTx = NoTx
    Markets <- OneMarket
    Specified <- OneMarket
    LastTx = 1
    StartBlock = 1
    Confirmations = 1
    ReorgWindow = 1
    MaxBlocksPerPass = 2
    ReorgDepth = 4
    DeepReorgsDuringPass = FALSE
    MaxMined = 6
    MaxReorgs = 1
    MaxCrashes = 1
    MaxLookupErrors = 0

INVARIANTS
    SkipsNothing
