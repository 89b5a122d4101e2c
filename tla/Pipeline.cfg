SPECIFICATION Spec
CONSTANTS
    Specs <- MCSpecs
    Plans <- MCPlans
    AllowedPorts <- MCAllowedPorts
    AllowedHosts <- MCAllowedHosts
    BlockedIPv4 <- MCBlockedIPv4
    BlockedIPv6 <- MCBlockedIPv6
    Resolutions <- MCResolutions
    Answers <- MCAnswers
    ModelEvents <- MCModelEvents
    TimeoutMs = 2
    MaxAttempts = 2
    RetryBackoffMs = 1
    MaxRedirects = 1
    TotalBudgetMs = 4
    AdapterGraceMs = 2
    MaxChecks = 4
    MaxSources = 2
    PathLength <- MCPathLength
    ConfidenceFloor = 2
INVARIANTS
    WalkBounded
    FallbackJustified
    PaidAsObserved
    ModelNeverFlips
    ProposalIsGrounded
    RefusalIsExplained
PROPERTY
    Concludes
