SPECIFICATION Spec
CONSTANTS
    Null = Null
    Failed = Failed
    Lower <- MCLower
    Subjects = {"compiler", "markets", "resolutions", "documents", "events", "checkpoints", "chainState", "auth"}
    Wallets = {"w1", "w2"}
    Hashes <- MCHashes
    Addresses <- MCAddresses
    Nonces = {"n1", "n2"}
    EventBatches <- MCEventBatches
    BlockNumbers = {1, 2}
    MarketIdOf <- MCMarketIdOf
    AddressOf <- MCAddressOf
    PageSize = 1
    MaxCalls <- MCMaxCalls
    MaxFaults = 1
    MaxTime = 3
INVARIANTS
    StoresAgree
    WalkSeesEveryMarket
CHECK_DEADLOCK FALSE
