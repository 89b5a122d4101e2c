SPECIFICATION FairSpec

CONSTANTS
    m1 = m1
    m2 = m2
    NoTx = NoTx
    Markets <- OneMarket
    Specified <- OneMarket
    LastTx = 1
    StartBlock = 1
    Confirmations = 1
    ReorgWindow = 1
    MaxBlocksPerPass = 2
    ReorgDepth = 4
    DeepReorgsDuringPass = TRUE
    MaxMined = 5
    MaxReorgs = 2
    MaxCrashes = 0
    MaxLookupErrors = 1

INVARIANTS
    RepairedByPass

PROPERTIES
    CatchesUp
