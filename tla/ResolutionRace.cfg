SPECIFICATION ServiceSpec

CONSTANTS
    a1 = a1
    e1 = e1
    e2 = e2
    c1 = c1
    c2 = c2
    d1 = d1
    d2 = d2
    Accounts = {a1}
    Resolvers = {r1}
    Service = r1
    NoAccount = NoAccount
    EvidenceHashes = {e1, e2}
    ReasonHashes = {d1}
    NoHash = NoHash
    Funds = 1
    Fees = {0}
    InitParams <- MCInitParams
    MIN_CHALLENGE_WINDOW = 1
    MAX_CHALLENGE_WINDOW = 2
    MIN_RESOLUTION_WINDOW = 1
    MAX_RESOLUTION_WINDOW = 2
    MAX_TIMESTAMP = 4
    Calls = {c1, c2}
    CanSubmit = TRUE
    OutcomeOf <- MCOutcomeOf
    Forcing = {FALSE}
    DryRuns = {FALSE}
    MaxStarted = 2

CHECK_DEADLOCK FALSE

INVARIANT
    OneProposalPerRound
