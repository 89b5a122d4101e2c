SPECIFICATION Spec

CONSTANTS
    m1 = m1
    m2 = m2
    NoTx = NoTx
    Markets <- TwoMarkets
    Specified <- OneMarket
    LastTx = 1
    StartBlock = 1
    Confirmations = 1
    ReorgWindow = 1
    MaxBlocksPerPass = 2
    ReorgDepth = 1
    DeepReorgsDuringPass = FALSE
    MaxMined = 5
    MaxReorgs = 1
    MaxCrashes = 2
    MaxLookupErrors = 0

INVARIANTS
    NothingSkipped
    NothingRetracted
    RowsCoverCheckpoint
