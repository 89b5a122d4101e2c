SPECIFICATION Spec
CONSTANTS
    Accounts = {a1, a2, a3}
    Resolvers = {r1}
    NoAccount = NoAccount
    EvidenceHashes = {e1}
    ReasonHashes = {d1}
    NoHash = NoHash
    Funds = 2
    Fees = {0, 1}
    TradingEnds = {0, 1}
    Deadlines = {1, 4}
    ChallengeWindows = {0, 1}
    ResolutionWindows = {1}
    Bonds = {0, 1}
    InitParams <- MCInitParams
    MIN_CHALLENGE_WINDOW = 1
    MAX_CHALLENGE_WINDOW = 2
    MIN_RESOLUTION_WINDOW = 1
    MAX_RESOLUTION_WINDOW = 2
    MAX_TIMESTAMP = 4
SYMMETRY AccountSymmetry
INVARIANTS
    TypeOK
    Solvency
    FullyBacked
    DustBelowWinners
    RefundMakesWhole
    ClaimableMatchesStakes
    SettledExactly
    BondFollowsOutcome
PROPERTIES
    EntitlementsFixed
    ImplementsEscrow
