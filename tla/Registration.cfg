SPECIFICATION RegistrationSpec

CONSTANTS
    alice = alice
    bob = bob
    h1 = h1
    h2 = h2
    n1 = n1
    n2 = n2
    v1 = v1
    v2 = v2
    r1 = r1
    r2 = r2
    Wallets = {alice, bob}
    Creators = {anyone}
    RulesHashes = {h1, h2}
    CreatorOf <- MCCreatorOf
    Nonces = {n1, n2}
    Attempts = {v1, v2}
    NonceTtl = 1
    SessionTtl = 1
    MaxTime = 1
    Plans = {p1}
    NoPlan = NoPlan
    Requests = {r1, r2}
    Conversations = {d1}
    NoConversation = NoConversation
    MaxRequests = 2

\* Nobody need ask anything more.
CHECK_DEADLOCK FALSE

SYMMETRY RegistrationSymmetry

INVARIANTS
    RegistryConsistent
    NonceBuysOneSession
    RecordsAreTheirOwners
    PromisesKept
    JoinedIfOpenedAfter
