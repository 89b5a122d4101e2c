SPECIFICATION FairSpec
CONSTANTS
    Accounts = {a1, a2}
    Resolvers = {r1}
    NoAccount = NoAccount
    EvidenceHashes = {e1}
    ReasonHashes = {d1}
    NoHash = NoHash
    Funds = 2
    Fees = {0}
    TradingEnds = {1}
    Deadlines = {2}
    ChallengeWindows = {2, 3}
    ResolutionWindows = {2, 3}
    Bonds = {1}
    InitParams <- MCInitParams
    MIN_CHALLENGE_WINDOW = 1
    MAX_CHALLENGE_WINDOW = 2
    MIN_RESOLUTION_WINDOW = 1
    MAX_RESOLUTION_WINDOW = 2
    MAX_TIMESTAMP = 6
INVARIANTS
    LifecycleInv
    FinalOutcomeWasContestable
    PageAgreesWithContract
PROPERTIES
    ResolutionIsIrrevocable
    MarketResolves
    DueIsPaid
    FinalizedSettles
