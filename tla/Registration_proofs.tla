-------------------------- MODULE Registration_proofs --------------------------
(***************************************************************************)
(* The registry's mappings are inverse, a nonce buys one session, and what *)
(* concurrent requests read or write before an await still holds after it: *)
(* for any wallets, hashes, plans and numbers of requests and attempts.    *)
(***************************************************************************)
EXTENDS Registration, SequenceTheorems, TLAPS

-----------------------------------------------------------------------------
(* The registry (MarketFactory). *)

\* The type invariant of the registry is inductive by itself.
LEMMA FactoryTypeInductive ==
    /\ FactoryInit => FactoryTypeOK
    /\ FactoryTypeOK /\ [FactoryNext]_factoryVars => FactoryTypeOK'
PROOF
<1>1. FactoryInit => FactoryTypeOK
    <2>1. ASSUME FactoryInit
          PROVE  marketById \in Seq(Market)
        <3>1. marketById = <<>>
            BY <2>1 DEF FactoryInit
        <3>2. <<>> \in Seq(Market)
            BY EmptySeq
        <3> QED
            BY <3>1, <3>2, Zenon
    <2>2. FactoryInit => marketByRulesHash \in [RulesHashes -> Nat]
        BY DEF FactoryInit, NoMarket
    <2>3. FactoryInit => paused \in BOOLEAN
        BY DEF FactoryInit
    <2> QED
        BY <2>1, <2>2, <2>3 DEF FactoryTypeOK
<1>2. ASSUME FactoryTypeOK, [FactoryNext]_factoryVars
      PROVE  FactoryTypeOK'
    <2>1. ASSUME NEW caller \in Creators, NEW h \in RulesHashes, CreateMarket(caller, h)
          PROVE  FactoryTypeOK'
        <3>1. [rulesHash |-> h, creator |-> caller] \in Market
            BY DEF Market
        <3>2. marketById' \in Seq(Market)
            BY <1>2, <2>1, <3>1 DEF FactoryTypeOK, CreateMarket
        <3>3. marketCount \in Nat
            BY <1>2, LenProperties DEF FactoryTypeOK, marketCount
        <3> QED
            BY <1>2, <2>1, <3>2, <3>3 DEF FactoryTypeOK, CreateMarket
    <2>2. ASSUME NEW to \in BOOLEAN, SetPaused(to)
          PROVE  FactoryTypeOK'
        BY <1>2, <2>2 DEF FactoryTypeOK, SetPaused
    <2>3. CASE UNCHANGED factoryVars
        BY <1>2, <2>3 DEF FactoryTypeOK, factoryVars
    <2> QED
        BY <1>2, <2>1, <2>2, <2>3 DEF FactoryNext
<1> QED
    BY <1>1, <1>2

\* An unused hash names a new market, whose id is its place in the sequence.
LEMMA RegistryInductive ==
    /\ FactoryInit => RegistryConsistent
    /\ FactoryTypeOK /\ RegistryConsistent /\ [FactoryNext]_factoryVars => RegistryConsistent'
PROOF
<1>1. FactoryInit => RegistryConsistent
    BY DEF FactoryInit, RegistryConsistent, NoMarket, marketCount
<1>2. ASSUME FactoryTypeOK, RegistryConsistent, [FactoryNext]_factoryVars
      PROVE  RegistryConsistent'
    <2>1. ASSUME NEW caller \in Creators, NEW h \in RulesHashes, CreateMarket(caller, h)
          PROVE  RegistryConsistent'
        <3> DEFINE new == [rulesHash |-> h, creator |-> caller]
        <3>1. /\ marketById \in Seq(Market) /\ new \in Market
              /\ marketCount \in Nat /\ marketCount = Len(marketById)
            BY <1>2, LenProperties DEF FactoryTypeOK, marketCount, Market
        <3>2. /\ marketById' = Append(marketById, new)
              /\ marketCount' = marketCount + 1
              /\ \A id \in 1 .. marketCount : marketById'[id] = marketById[id]
              /\ marketById'[marketCount + 1] = new
            BY <2>1, <3>1, AppendProperties DEF CreateMarket, marketCount
        <3>3. /\ marketByRulesHash[h] = 0
              /\ marketByRulesHash' = [marketByRulesHash EXCEPT ![h] = marketCount + 1]
              /\ marketByRulesHash \in [RulesHashes -> Nat]
            BY <1>2, <2>1 DEF CreateMarket, Unused, NoMarket, FactoryTypeOK
        <3>4. ASSUME NEW id \in (1 .. marketCount)'
              PROVE  marketByRulesHash'[marketById'[id].rulesHash] = id
            <4>1. CASE id = marketCount + 1
                BY <3>1, <3>2, <3>3, <4>1
            <4>2. CASE id \in 1 .. marketCount
                <5>1. marketById[id] \in Market
                    BY <3>1, <4>2, ElementOfSeq
                <5>2. marketById[id].rulesHash \in RulesHashes
                    BY <5>1 DEF Market
                <5>3. marketByRulesHash[marketById[id].rulesHash] = id
                    BY <1>2, <4>2 DEF RegistryConsistent
                <5>4. marketById[id].rulesHash # h
                    BY <3>1, <3>3, <4>2, <5>3
                <5> QED
                    BY <3>2, <3>3, <4>2, <5>2, <5>3, <5>4
            <4> QED
                BY <3>1, <3>2, <3>4, <4>1, <4>2
        <3>5. ASSUME NEW k \in RulesHashes, marketByRulesHash'[k] # 0
              PROVE  /\ marketByRulesHash'[k] \in (1 .. marketCount)'
                     /\ marketById'[marketByRulesHash'[k]].rulesHash = k
            <4>1. CASE k = h
                BY <3>1, <3>2, <3>3, <4>1
            <4>2. CASE k # h
                <5>1. marketByRulesHash'[k] = marketByRulesHash[k]
                    BY <3>3, <4>2
                <5>2. /\ marketByRulesHash[k] \in 1 .. marketCount
                      /\ marketById[marketByRulesHash[k]].rulesHash = k
                    BY <1>2, <3>5, <5>1 DEF RegistryConsistent, NoMarket
                <5> QED
                    BY <3>1, <3>2, <5>1, <5>2
            <4> QED
                BY <4>1, <4>2
        <3> QED
            BY <3>4, <3>5 DEF RegistryConsistent, NoMarket
    <2>2. ASSUME NEW to \in BOOLEAN, SetPaused(to)
          PROVE  RegistryConsistent'
        BY <1>2, <2>2 DEF RegistryConsistent, SetPaused, marketCount
    <2>3. CASE UNCHANGED factoryVars
        BY <1>2, <2>3 DEF RegistryConsistent, factoryVars, marketCount
    <2> QED
        BY <1>2, <2>1, <2>2, <2>3 DEF FactoryNext
<1> QED
    BY <1>1, <1>2

\* MarketFactory.sol:42: "Enforcing uniqueness here makes that join total instead
\* of ambiguous", for every set of hashes and any number of markets.
THEOREM RegistryIsConsistent == FactorySpec => []RegistryConsistent
PROOF
<1>1. FactoryInit => FactoryTypeOK /\ RegistryConsistent
    BY FactoryTypeInductive, RegistryInductive
<1>2. /\ FactoryTypeOK /\ RegistryConsistent /\ [FactoryNext]_factoryVars
      => (FactoryTypeOK /\ RegistryConsistent)'
    BY FactoryTypeInductive, RegistryInductive
<1> QED
    BY <1>1, <1>2, PTL DEF FactorySpec

-----------------------------------------------------------------------------
(* Signing in (Authentication). *)

\* A nonce is spent before anything is made of it: what an attempt holds and what
\* a session was bought with is spent, and no two of them share a nonce.
Held(v) == attempt[v].at = "create"

SpentOnce ==
    /\ \A v \in Attempts : Held(v) => nonces[attempt[v].nonce] \in Nonce
    /\ \A v \in Attempts : Held(v) => nonces[attempt[v].nonce].consumed
    /\ \A s \in authSessions : nonces[s.nonce] \in Nonce /\ nonces[s.nonce].consumed
    /\ \A v, w \in Attempts :
          Held(v) /\ Held(w) /\ attempt[v].nonce = attempt[w].nonce => v = w
    /\ \A v \in Attempts, s \in authSessions : Held(v) => attempt[v].nonce # s.nonce
    /\ NonceBuysOneSession

LEMMA IssuedIsNonce ==
    ASSUME AuthTypeOK, NEW n \in Nonces, nonces[n].issued
    PROVE  nonces[n] \in Nonce
PROOF
    BY DEF AuthTypeOK, NotIssued

LEMMA HeldTyped ==
    ASSUME AuthTypeOK, NEW v \in Attempts, Held(v)
    PROVE  /\ attempt[v].nonce \in Nonces
           /\ attempt[v].signer \in Wallets
           /\ attempt[v].now \in Nat
PROOF
    BY DEF AuthTypeOK, Held, NoAttempt

\* A challenge is written over a nonce nobody holds or has used.
LEMMA ChallengeStep ==
    ASSUME AuthTypeOK, SpentOnce, NEW n \in Nonces, NEW w \in Wallets, CreateChallenge(n, w)
    PROVE  SpentOnce'
PROOF
<1>1. /\ nonces[n] \notin Nonce
      /\ \A m \in Nonces : m # n => nonces'[m] = nonces[m]
      /\ attempt' = attempt /\ authSessions' = authSessions
    BY DEF CreateChallenge, AuthTypeOK, Nonce
<1>2. ASSUME NEW v \in Attempts, Held(v)
      PROVE  attempt[v].nonce \in Nonces /\ attempt[v].nonce # n
    BY <1>1, <1>2, HeldTyped DEF SpentOnce
<1>3. ASSUME NEW s \in authSessions
      PROVE  s.nonce \in Nonces /\ s.nonce # n
    BY <1>1, <1>3 DEF SpentOnce, AuthTypeOK, AuthSession
<1>4. \A v \in Attempts : Held(v)' <=> Held(v)
    BY <1>1 DEF Held
<1> QED
    BY <1>1, <1>2, <1>3, <1>4 DEF SpentOnce, NonceBuysOneSession

\* A nonce that was not spent is in nobody's hands: whoever consumes it holds it alone.
LEMMA ConsumeStep ==
    ASSUME AuthTypeOK, SpentOnce,
           NEW v \in Attempts, NEW n \in Nonces, NEW w \in Wallets, Consume(v, n, w)
    PROVE  SpentOnce'
PROOF
<1>1. nonces[n] \in Nonce /\ ~nonces[n].consumed
    BY IssuedIsNonce DEF Consume
<1>2. /\ nonces'[n] = [nonces[n] EXCEPT !.consumed = TRUE]
      /\ \A m \in Nonces : m # n => nonces'[m] = nonces[m]
    BY DEF Consume, Spend, AuthTypeOK
<1>3. nonces'[n] \in Nonce /\ nonces'[n].consumed
    BY <1>1, <1>2 DEF Nonce
<1>4. /\ attempt'[v].at = "create" /\ attempt'[v].nonce = n
      /\ \A u \in Attempts : u # v => attempt'[u] = attempt[u]
      /\ authSessions' = authSessions
    BY DEF Consume, AuthTypeOK
<1>5. ASSUME NEW u \in Attempts, Held(u)
      PROVE  attempt[u].nonce \in Nonces /\ attempt[u].nonce # n
    BY <1>1, <1>5, HeldTyped DEF SpentOnce
<1>6. ASSUME NEW s \in authSessions
      PROVE  s.nonce \in Nonces /\ s.nonce # n
    BY <1>1, <1>6 DEF SpentOnce, AuthTypeOK, AuthSession
<1>7. \A u \in Attempts : Held(u)' <=> (u = v \/ Held(u))
    BY <1>4 DEF Held
<1>8. \A u \in Attempts : Held(u)' =>
          nonces'[attempt'[u].nonce] \in Nonce /\ nonces'[attempt'[u].nonce].consumed
    <2>1. ASSUME NEW u \in Attempts, Held(u), u # v
          PROVE  /\ attempt'[u].nonce = attempt[u].nonce
                 /\ nonces'[attempt[u].nonce] = nonces[attempt[u].nonce]
                 /\ nonces[attempt[u].nonce] \in Nonce /\ nonces[attempt[u].nonce].consumed
        BY <1>2, <1>4, <1>5, <2>1 DEF SpentOnce
    <2> QED
        BY <1>3, <1>4, <1>7, <2>1
<1>9. \A s \in authSessions' : nonces'[s.nonce] \in Nonce /\ nonces'[s.nonce].consumed
    BY <1>2, <1>4, <1>6 DEF SpentOnce
<1>10. \A t, u \in Attempts :
          Held(t)' /\ Held(u)' /\ attempt'[t].nonce = attempt'[u].nonce => t = u
    BY <1>4, <1>5, <1>7 DEF SpentOnce
<1>11. \A u \in Attempts, s \in authSessions' : Held(u)' => attempt'[u].nonce # s.nonce
    BY <1>4, <1>6, <1>7 DEF SpentOnce
<1> QED
    BY <1>4, <1>8, <1>9, <1>10, <1>11 DEF SpentOnce, NonceBuysOneSession

\* The nonce passes from the attempt to the session it buys.
LEMMA SessionStep ==
    ASSUME AuthTypeOK, SpentOnce, NEW v \in Attempts, CreateSession(v)
    PROVE  SpentOnce'
PROOF
<1> DEFINE new == [ address |-> nonces[attempt[v].nonce].address,
                    expiresAt |-> attempt[v].now + SessionTtl, revoked |-> FALSE,
                    nonce |-> attempt[v].nonce, signer |-> attempt[v].signer, by |-> v ]
<1>1. authSessions' = authSessions \cup {new} /\ new.nonce = attempt[v].nonce
    BY DEF CreateSession
<1> HIDE DEF new
<1>2. /\ Held(v) /\ nonces' = nonces
      /\ attempt'[v].at = "idle"
      /\ \A u \in Attempts : u # v => attempt'[u] = attempt[u]
    BY DEF CreateSession, Held, AuthTypeOK, NoAttempt
<1>3. \A u \in Attempts : Held(u)' <=> (u # v /\ Held(u))
    BY <1>2 DEF Held
<1>4. \A s \in authSessions : s.nonce # new.nonce
    BY <1>1, <1>2 DEF SpentOnce
<1>5. \A u \in Attempts : u # v /\ Held(u) => attempt[u].nonce # new.nonce
    BY <1>1, <1>2 DEF SpentOnce
<1> QED
    BY <1>1, <1>2, <1>3, <1>4, <1>5 DEF SpentOnce, NonceBuysOneSession

\* Revocation leaves the nonce of a session as it is.
LEMMA RevokeStep ==
    ASSUME AuthTypeOK, SpentOnce, NEW s \in authSessions, Revoke(s)
    PROVE  SpentOnce'
PROOF
<1> DEFINE new == [s EXCEPT !.revoked = TRUE]
<1>1. authSessions' = (authSessions \ {s}) \cup {new} /\ new.nonce = s.nonce
    BY DEF Revoke, AuthTypeOK, AuthSession
<1> HIDE DEF new
<1>2. nonces' = nonces /\ attempt' = attempt
    BY DEF Revoke
<1>3. \A u \in Attempts : Held(u)' <=> Held(u)
    BY <1>2 DEF Held
<1> QED
    BY <1>1, <1>2, <1>3 DEF SpentOnce, NonceBuysOneSession

LEMMA SpentOnceInductive ==
    /\ AuthInit => SpentOnce
    /\ AuthTypeOK /\ SpentOnce /\ [AuthNext]_authVars => SpentOnce'
PROOF
<1>1. AuthInit => SpentOnce
    BY DEF AuthInit, SpentOnce, Held, NoAttempt, NonceBuysOneSession
<1>2. ASSUME AuthTypeOK, SpentOnce, [AuthNext]_authVars
      PROVE  SpentOnce'
    <2>1. CASE Advance
        BY <1>2, <2>1 DEF Advance, SpentOnce, Held, NonceBuysOneSession
    <2>2. ASSUME NEW n \in Nonces, NEW w \in Wallets, CreateChallenge(n, w)
          PROVE  SpentOnce'
        BY <1>2, <2>2, ChallengeStep
    <2>3. ASSUME NEW v \in Attempts, NEW n \in Nonces, NEW w \in Wallets, Consume(v, n, w)
          PROVE  SpentOnce'
        BY <1>2, <2>3, ConsumeStep
    <2>4. ASSUME NEW v \in Attempts, CreateSession(v)
          PROVE  SpentOnce'
        BY <1>2, <2>4, SessionStep
    <2>5. ASSUME NEW v \in Attempts, VerifyFails(v)
          PROVE  SpentOnce'
        <3>1. /\ attempt'[v].at = "idle" /\ nonces' = nonces /\ authSessions' = authSessions
              /\ \A u \in Attempts : u # v => attempt'[u] = attempt[u]
            BY <1>2, <2>5 DEF VerifyFails, AuthTypeOK, NoAttempt
        <3>2. \A u \in Attempts : Held(u)' <=> (u # v /\ Held(u))
            BY <3>1 DEF Held
        <3> QED
            BY <1>2, <3>1, <3>2 DEF SpentOnce, NonceBuysOneSession
    <2>6. ASSUME NEW s \in authSessions, Revoke(s)
          PROVE  SpentOnce'
        BY <1>2, <2>6, RevokeStep
    <2>7. CASE UNCHANGED authVars
        BY <1>2, <2>7 DEF authVars, SpentOnce, Held, NonceBuysOneSession
    <2> QED
        BY <1>2, <2>1, <2>2, <2>3, <2>4, <2>5, <2>6, <2>7 DEF AuthNext
<1> QED
    BY <1>1, <1>2

LEMMA AuthTypeInductive ==
    /\ AuthInit => AuthTypeOK
    /\ AuthTypeOK /\ [AuthNext]_authVars => AuthTypeOK'
PROOF
<1>1. AuthInit => AuthTypeOK
    BY DEF AuthInit, AuthTypeOK
<1>2. ASSUME AuthTypeOK, [AuthNext]_authVars
      PROVE  AuthTypeOK'
    <2>1. CASE Advance
        BY <1>2, <2>1 DEF Advance, AuthTypeOK
    <2>2. ASSUME NEW n \in Nonces, NEW w \in Wallets, CreateChallenge(n, w)
          PROVE  AuthTypeOK'
        <3>1. clock + NonceTtl \in Nat
            BY <1>2, AuthAssumption DEF AuthTypeOK
        <3>2. [issued |-> TRUE, address |-> w, expiresAt |-> clock + NonceTtl, consumed |-> FALSE]
                \in Nonce
            BY <3>1 DEF Nonce
        <3> QED
            BY <1>2, <2>2, <3>2 DEF CreateChallenge, AuthTypeOK
    <2>3. ASSUME NEW v \in Attempts, NEW n \in Nonces, NEW w \in Wallets, Consume(v, n, w)
          PROVE  AuthTypeOK'
        <3>1. [nonces[n] EXCEPT !.consumed = TRUE] \in Nonce
            BY <1>2, <2>3, IssuedIsNonce DEF Consume, Nonce
        <3>2. nonces' = [nonces EXCEPT ![n] = [nonces[n] EXCEPT !.consumed = TRUE]]
            BY <2>3 DEF Consume, Spend
        <3>3. nonces' \in [Nonces -> Nonce \cup {NotIssued}]
            BY <1>2, <3>1, <3>2 DEF AuthTypeOK
        <3> QED
            BY <1>2, <2>3, <3>3 DEF Consume, AuthTypeOK
    <2>4. ASSUME NEW v \in Attempts, CreateSession(v)
          PROVE  AuthTypeOK'
        <3>1. nonces[attempt[v].nonce].address = attempt[v].signer
            BY <2>4 DEF CreateSession, SignedByAddress
        <3>2. /\ attempt[v].nonce \in Nonces /\ attempt[v].signer \in Wallets
              /\ attempt[v].now \in Nat
            BY <1>2, <2>4, HeldTyped DEF CreateSession, Held
        <3>3. attempt[v].now + SessionTtl \in Nat
            BY <3>2, AuthAssumption
        <3>4. [address |-> nonces[attempt[v].nonce].address,
               expiresAt |-> attempt[v].now + SessionTtl, revoked |-> FALSE,
               nonce |-> attempt[v].nonce, signer |-> attempt[v].signer, by |-> v]
                \in AuthSession
            BY <3>1, <3>2, <3>3 DEF AuthSession
        <3>5. authSessions' \subseteq AuthSession
            BY <1>2, <2>4, <3>4 DEF CreateSession, AuthTypeOK
        <3> QED
            BY <1>2, <2>4, <3>5 DEF CreateSession, AuthTypeOK
    <2>5. ASSUME NEW v \in Attempts, VerifyFails(v)
          PROVE  AuthTypeOK'
        BY <1>2, <2>5 DEF VerifyFails, AuthTypeOK
    <2>6. ASSUME NEW s \in authSessions, Revoke(s)
          PROVE  AuthTypeOK'
        <3>1. [s EXCEPT !.revoked = TRUE] \in AuthSession
            BY <1>2 DEF AuthTypeOK, AuthSession
        <3> QED
            BY <1>2, <2>6, <3>1 DEF Revoke, AuthTypeOK
    <2>7. CASE UNCHANGED authVars
        BY <1>2, <2>7 DEF authVars, AuthTypeOK
    <2> QED
        BY <1>2, <2>1, <2>2, <2>3, <2>4, <2>5, <2>6, <2>7 DEF AuthNext
<1> QED
    BY <1>1, <1>2

\* The update that consumes a nonce is atomic in the database, and everything else
\* of a sign-in comes after it: however many requests present a signed challenge
\* at once, one session is made of it.
THEOREM OneSessionPerNonce == AuthSpec => []NonceBuysOneSession
PROOF
<1>1. AuthInit => AuthTypeOK /\ SpentOnce
    BY AuthTypeInductive, SpentOnceInductive
<1>2. AuthTypeOK /\ SpentOnce /\ [AuthNext]_authVars => (AuthTypeOK /\ SpentOnce)'
    BY AuthTypeInductive, SpentOnceInductive
<1>3. SpentOnce => NonceBuysOneSession
    BY DEF SpentOnce
<1> QED
    BY <1>1, <1>2, <1>3, PTL DEF AuthSpec

-----------------------------------------------------------------------------
(* The inductive invariant: what each suspended request relies on is still so. *)

Conversation == [status : {"OPEN", "COMPILED"}, creator : Wallets, speakers : SUBSET Wallets]

Compilation == [saved : {TRUE}, conversation : Conversations \cup {NoConversation}]

Row == [registered : {TRUE}, id : Nat, status : {"PENDING_ONCHAIN", "OPEN"},
        plan : Plans \cup {NoPlan}, creator : Wallets]

Compiling == [at : {"turn", "compiled", "mark"}, wallet : Wallets, conversation : Conversations]

Registering == [at : {"saveSpec", "register", "setPlan"}, wallet : Wallets, hash : RulesHashes,
                plan : Plans \cup {NoPlan}]

RegistrationTypeOK ==
    /\ conversations \in [Conversations -> {NotOpened} \cup Conversation]
    /\ compilations \in [RulesHashes -> {NotSaved} \cup Compilation]
    /\ markets \in [RulesHashes -> {NotRegistered} \cup Row]
    /\ observed \in Nat
    /\ request \in [Requests -> {NoRequest} \cup Compiling \cup Registering]
    /\ accepted \in Nat
    /\ promised \subseteq RulesHashes
    /\ openedAfter \subseteq RulesHashes

SessionsAreSigned == \A s \in authSessions : s.signer = s.address

LedToSpecification(d) ==
    \E h \in RulesHashes : compilations[h].saved /\ compilations[h].conversation = d

\* What a suspended handler checked or wrote before the await holds after it.
CompileGrounded(r) ==
    request[r] \in Compiling =>
        /\ HasSigned(request[r].wallet)
        /\ conversations[request[r].conversation].status # "NONE"
        /\ conversations[request[r].conversation].creator = request[r].wallet
        /\ request[r].at = "mark" => LedToSpecification(request[r].conversation)

RegisterGrounded(r) ==
    request[r] \in Registering =>
        /\ HasSigned(request[r].wallet)
        /\ request[r].at \in {"saveSpec", "register"} => CreatorOf[request[r].hash] = request[r].wallet
        /\ request[r].at = "setPlan" => Registered(request[r].hash) /\ request[r].plan # NoPlan

RequestsAreGrounded == \A r \in Requests : CompileGrounded(r) /\ RegisterGrounded(r)

HistoryIsRegistered ==
    /\ \A h \in promised \cup openedAfter : Registered(h)
    /\ observed <= marketCount

RegistrationInv ==
    /\ RegistrationTypeOK /\ SessionsAreSigned
    /\ RequestsAreGrounded /\ HistoryIsRegistered
    /\ RecordsAreTheirOwners /\ PromisesKept /\ JoinedIfOpenedAfter

-----------------------------------------------------------------------------
(* The steps of the components. *)

\* A step of the whole is a step of the registry and a step of the sign-in.
LEMMA RegistrationStepsAreComponentSteps ==
    ASSUME [RegistrationNext]_registryVars
    PROVE  [FactoryNext]_factoryVars /\ [AuthNext]_authVars
PROOF
<1>1. CASE SignIn
    BY <1>1 DEF SignIn
<1>2. ASSUME NEW r \in Requests, RequestStep(r)
      PROVE  UNCHANGED <<factoryVars, authVars>>
    BY <1>2 DEF RequestStep, Compile, AppendTurns, MarkCompiled, SaveCompiled, Register,
        SetPlanRequest, SaveSpecification, RegisterMarket, SetValidationPlan, Fail
<1>3. ASSUME NEW caller \in Creators, NEW h \in RulesHashes, OpenMarket(caller, h)
      PROVE  FactoryNext /\ UNCHANGED authVars
    BY <1>3 DEF OpenMarket, FactoryNext
<1>4. ASSUME NEW to \in BOOLEAN, Pause(to)
      PROVE  FactoryNext /\ UNCHANGED authVars
    BY <1>4 DEF Pause, FactoryNext
<1>5. CASE Attach
    BY <1>5 DEF Attach
<1>6. ASSUME NEW id \in 1 .. observed, UpdateStatus(id)
      PROVE  UNCHANGED <<factoryVars, authVars>>
    BY <1>6 DEF UpdateStatus
<1>7. CASE UNCHANGED registryVars
    BY <1>7 DEF registryVars
<1> QED
    BY <1>1, <1>2, <1>3, <1>4, <1>5, <1>6, <1>7 DEF RegistrationNext

ComponentInv ==
    /\ FactoryTypeOK /\ RegistryConsistent
    /\ AuthTypeOK /\ SpentOnce

LEMMA ComponentsInductive ==
    /\ RegistrationInit => ComponentInv
    /\ ComponentInv /\ [RegistrationNext]_registryVars => ComponentInv'
PROOF
<1>1. RegistrationInit => ComponentInv
    BY FactoryTypeInductive, RegistryInductive, AuthTypeInductive, SpentOnceInductive
    DEF RegistrationInit, ComponentInv
<1>2. ASSUME ComponentInv, [RegistrationNext]_registryVars
      PROVE  ComponentInv'
    BY <1>2, RegistrationStepsAreComponentSteps,
       FactoryTypeInductive, RegistryInductive, AuthTypeInductive, SpentOnceInductive
    DEF ComponentInv
<1> QED
    BY <1>1, <1>2

-----------------------------------------------------------------------------
(* Types of the tables and of the requests. *)

LEMMA RequestTyped ==
    ASSUME RegistrationTypeOK, NEW r \in Requests
    PROVE  /\ request[r].at \in {"turn", "compiled", "mark"} => request[r] \in Compiling
           /\ request[r].at \in {"saveSpec", "register", "setPlan"} => request[r] \in Registering
           /\ request[r] \in Compiling \cup Registering => request[r].wallet \in Wallets
PROOF
    BY DEF RegistrationTypeOK, Compiling, Registering, NoRequest

LEMMA RegisteredIsRow ==
    ASSUME RegistrationTypeOK, NEW h \in RulesHashes, Registered(h)
    PROVE  markets[h] \in Row
PROOF
    BY DEF RegistrationTypeOK, Registered, NotRegistered

LEMMA OpenedIsConversation ==
    ASSUME RegistrationTypeOK, NEW d \in Conversations, conversations[d].status # "NONE"
    PROVE  conversations[d] \in Conversation
PROOF
    BY DEF RegistrationTypeOK, NotOpened

-----------------------------------------------------------------------------
(* What no step takes back: signatures, conversations, specifications, rows. *)

LEMMA SignaturesKept ==
    ASSUME AuthTypeOK, SessionsAreSigned, [AuthNext]_authVars
    PROVE  /\ \A w \in Wallets : HasSigned(w) => HasSigned(w)'
           /\ SessionsAreSigned'
PROOF
<1>1. CASE authSessions' = authSessions
    BY <1>1 DEF HasSigned, SessionsAreSigned
<1>2. ASSUME NEW v \in Attempts, CreateSession(v)
      PROVE  /\ \A w \in Wallets : HasSigned(w) => HasSigned(w)'
             /\ SessionsAreSigned'
    <2> DEFINE new == [ address |-> nonces[attempt[v].nonce].address,
                        expiresAt |-> attempt[v].now + SessionTtl, revoked |-> FALSE,
                        nonce |-> attempt[v].nonce, signer |-> attempt[v].signer, by |-> v ]
    <2>1. authSessions' = authSessions \cup {new} /\ new.signer = new.address
        BY <1>2 DEF CreateSession, SignedByAddress
    <2> HIDE DEF new
    <2> QED
        BY <2>1 DEF HasSigned, SessionsAreSigned
<1>3. ASSUME NEW s \in authSessions, Revoke(s)
      PROVE  /\ \A w \in Wallets : HasSigned(w) => HasSigned(w)'
             /\ SessionsAreSigned'
    <2> DEFINE new == [s EXCEPT !.revoked = TRUE]
    <2>1. /\ authSessions' = (authSessions \ {s}) \cup {new}
          /\ new.signer = s.signer /\ new.address = s.address
        BY <1>3 DEF Revoke, AuthTypeOK, AuthSession
    <2> HIDE DEF new
    <2>2. SessionsAreSigned'
        BY <2>1 DEF SessionsAreSigned
    <2>3. ASSUME NEW w \in Wallets, NEW t \in authSessions, t.signer = w
          PROVE  HasSigned(w)'
        <3>1. CASE t = s
            BY <2>1, <2>3, <3>1 DEF HasSigned
        <3>2. CASE t # s
            BY <2>1, <2>3, <3>2 DEF HasSigned
        <3> QED
            BY <3>1, <3>2
    <2> QED
        BY <2>2, <2>3 DEF HasSigned
<1> QED
    BY <1>1, <1>2, <1>3 DEF AuthNext, authVars, Advance, CreateChallenge, Consume, VerifyFails

\* Who writes which table.
LEMMA ConversationWriters ==
    ASSUME [RegistrationNext]_registryVars
    PROVE  \/ conversations' = conversations
           \/ \E r \in Requests, w \in Wallets, d \in Conversations : Compile(r, w, d)
           \/ \E r \in Requests : AppendTurns(r)
           \/ \E r \in Requests : MarkCompiled(r)
PROOF
    BY DEF RegistrationNext, RequestStep, SignIn, OpenMarket, Pause, Attach, UpdateStatus, tables,
        registrationVars, registryVars, SaveCompiled, Register, SetPlanRequest, SaveSpecification,
        RegisterMarket, SetValidationPlan, Fail

LEMMA RowWriters ==
    ASSUME [RegistrationNext]_registryVars
    PROVE  \/ markets' = markets
           \/ \E r \in Requests : RegisterMarket(r)
           \/ \E r \in Requests : SetValidationPlan(r)
           \/ Attach
           \/ \E id \in 1 .. observed : UpdateStatus(id)
PROOF
    BY DEF RegistrationNext, RequestStep, SignIn, OpenMarket, Pause, tables, registrationVars,
        registryVars, Compile, AppendTurns, MarkCompiled, SaveCompiled, Register, SetPlanRequest,
        SaveSpecification, Fail

\* A conversation once opened stays its creator's.
LEMMA ConversationsKept ==
    ASSUME RegistrationTypeOK, [RegistrationNext]_registryVars,
           NEW d \in Conversations, conversations[d].status # "NONE"
    PROVE  /\ conversations'[d].status # "NONE"
           /\ conversations'[d].creator = conversations[d].creator
PROOF
<1>0. conversations[d] \in Conversation
    BY OpenedIsConversation
<1>1. CASE conversations' = conversations
    BY <1>1
<1>2. ASSUME NEW r \in Requests, NEW w \in Wallets, NEW e \in Conversations, Compile(r, w, e)
      PROVE  conversations'[d] = conversations[d]
    BY <1>2 DEF Compile, RegistrationTypeOK
<1>3. ASSUME NEW r \in Requests, AppendTurns(r)
      PROVE  /\ conversations'[d].status # "NONE"
             /\ conversations'[d].creator = conversations[d].creator
    BY <1>0, <1>3 DEF AppendTurns, RegistrationTypeOK, Conversation
<1>4. ASSUME NEW r \in Requests, MarkCompiled(r)
      PROVE  /\ conversations'[d].status # "NONE"
             /\ conversations'[d].creator = conversations[d].creator
    BY <1>0, <1>4 DEF MarkCompiled, RegistrationTypeOK, Conversation
<1> QED
    BY <1>1, <1>2, <1>3, <1>4, ConversationWriters

\* A saved specification stays as it is.
LEMMA SpecificationsKept ==
    ASSUME RegistrationTypeOK, [RegistrationNext]_registryVars,
           NEW h \in RulesHashes, compilations[h].saved
    PROVE  compilations'[h] = compilations[h]
PROOF
<1>1. CASE compilations' = compilations
    BY <1>1
<1>2. ASSUME NEW r \in Requests, NEW g \in RulesHashes, SaveCompiled(r, g)
      PROVE  compilations'[h] = compilations[h]
    BY <1>2 DEF SaveCompiled, SaveCompilation, RegistrationTypeOK
<1>3. ASSUME NEW r \in Requests, SaveSpecification(r)
      PROVE  compilations'[h] = compilations[h]
    BY <1>3 DEF SaveSpecification, SaveCompilation, RegistrationTypeOK
<1> QED
    BY <1>1, <1>2, <1>3
    DEF RegistrationNext, RequestStep, SignIn, OpenMarket, Pause, Attach, UpdateStatus, tables,
        registrationVars, registryVars, Compile, AppendTurns, MarkCompiled, Register,
        SetPlanRequest, RegisterMarket, SetValidationPlan, Fail

\* A row stays its creator's, with a plan once it has one.
LEMMA RowsKept ==
    ASSUME RegistrationTypeOK, RequestsAreGrounded, [RegistrationNext]_registryVars,
           NEW h \in RulesHashes, Registered(h)
    PROVE  /\ Registered(h)'
           /\ markets'[h].creator = markets[h].creator
           /\ markets[h].plan # NoPlan => markets'[h].plan # NoPlan
PROOF
<1>0. markets[h] \in Row
    BY RegisteredIsRow
<1> DEFINE Kept == /\ Registered(h)'
                   /\ markets'[h].creator = markets[h].creator
                   /\ markets[h].plan # NoPlan => markets'[h].plan # NoPlan
<1>1. CASE markets' = markets
    BY <1>1 DEF Registered
<1>2. ASSUME NEW r \in Requests, RegisterMarket(r)
      PROVE  Kept
    BY <1>2 DEF RegisterMarket, RegisterRow, RegistrationTypeOK, Registered
<1>3. ASSUME NEW r \in Requests, SetValidationPlan(r)
      PROVE  Kept
    <2>1. request[r] \in Registering /\ request[r].plan # NoPlan
        BY <1>3, RequestTyped DEF SetValidationPlan, RequestsAreGrounded, RegisterGrounded
    <2> QED
        BY <1>0, <1>3, <2>1 DEF SetValidationPlan, StorePlan, RegistrationTypeOK, Registered, Row
<1>4. CASE Attach
    BY <1>0, <1>4 DEF Attach, RegistrationTypeOK, Registered, Row
<1>5. ASSUME NEW id \in 1 .. observed, UpdateStatus(id)
      PROVE  Kept
    BY <1>0, <1>5 DEF UpdateStatus, RegistrationTypeOK, Registered, Row
<1> QED
    BY <1>1, <1>2, <1>3, <1>4, <1>5, RowWriters

-----------------------------------------------------------------------------
(* Requests stay grounded. *)

LEMMA LetInHasSigned ==
    ASSUME SessionsAreSigned, NEW w \in Wallets, Authenticated(w)
    PROVE  HasSigned(w)
PROOF
    BY DEF SessionsAreSigned, Authenticated, Live, HasSigned

\* What the other requests, the chain and the indexer do in between changes none of it.
LEMMA GroundedKept ==
    ASSUME AuthTypeOK, SessionsAreSigned, RegistrationTypeOK, RequestsAreGrounded,
           [RegistrationNext]_registryVars
    PROVE  /\ \A w \in Wallets : HasSigned(w) => HasSigned(w)'
           /\ \A d \in Conversations : LedToSpecification(d) => LedToSpecification(d)'
           /\ \A r \in Requests : request'[r] = request[r] => (CompileGrounded(r) /\ RegisterGrounded(r))'
PROOF
<1>1. \A w \in Wallets : HasSigned(w) => HasSigned(w)'
    BY RegistrationStepsAreComponentSteps, SignaturesKept
<1>2. \A d \in Conversations : LedToSpecification(d) => LedToSpecification(d)'
    BY SpecificationsKept DEF LedToSpecification
<1>3. ASSUME NEW r \in Requests, request'[r] = request[r]
      PROVE  CompileGrounded(r)'
    <2>1. SUFFICES ASSUME request[r] \in Compiling
                   PROVE  CompileGrounded(r)'
        BY <1>3 DEF CompileGrounded, Compiling
    <2>2. request[r].wallet \in Wallets /\ request[r].conversation \in Conversations
        BY <2>1 DEF Compiling
    <2>3. CompileGrounded(r)
        BY DEF RequestsAreGrounded
    <2>4. HasSigned(request[r].wallet)'
        BY <1>1, <1>3, <2>1, <2>2, <2>3 DEF CompileGrounded, HasSigned
    <2>5. request[r].at = "mark" => LedToSpecification(request[r].conversation)'
        BY <1>2, <1>3, <2>1, <2>2, <2>3 DEF CompileGrounded, LedToSpecification
    <2> QED
        BY <1>3, <2>1, <2>2, <2>3, <2>4, <2>5, ConversationsKept DEF CompileGrounded
<1>4. ASSUME NEW r \in Requests, request'[r] = request[r]
      PROVE  RegisterGrounded(r)'
    <2>1. SUFFICES ASSUME request[r] \in Registering
                   PROVE  RegisterGrounded(r)'
        BY <1>4 DEF RegisterGrounded, Registering
    <2>2. request[r].wallet \in Wallets /\ request[r].hash \in RulesHashes
        BY <2>1 DEF Registering
    <2>3. RegisterGrounded(r)
        BY DEF RequestsAreGrounded
    <2>4. HasSigned(request[r].wallet)'
        BY <1>1, <1>4, <2>1, <2>2, <2>3 DEF RegisterGrounded, HasSigned
    <2>5. request[r].at = "setPlan" => Registered(request[r].hash)'
        BY <1>4, <2>1, <2>2, <2>3, RowsKept DEF RegisterGrounded, Registered
    <2> QED
        BY <1>4, <2>1, <2>3, <2>4, <2>5 DEF RegisterGrounded
<1> QED
    BY <1>1, <1>2, <1>3, <1>4

Grounded(r) == CompileGrounded(r) /\ RegisterGrounded(r)

\* A request that asks, or goes on, answers for what it relies on next.
LEMMA CompileSteps ==
    ASSUME AuthTypeOK, SessionsAreSigned, RegistrationTypeOK, RequestsAreGrounded,
           [RegistrationNext]_registryVars,
           NEW r \in Requests,
           \/ \E w \in Wallets, d \in Conversations : Compile(r, w, d)
           \/ AppendTurns(r) \/ MarkCompiled(r)
           \/ \E h \in RulesHashes : SaveCompiled(r, h)
    PROVE  RequestsAreGrounded'
PROOF
<1>0. /\ request \in [Requests -> {NoRequest} \cup Compiling \cup Registering]
      /\ conversations \in [Conversations -> {NotOpened} \cup Conversation]
    BY DEF RegistrationTypeOK
<1>1. ASSUME NEW w \in Wallets, NEW d \in Conversations, Compile(r, w, d)
      PROVE  Grounded(r)'
    <2>1. request'[r] = [at |-> "turn", wallet |-> w, conversation |-> d]
        BY <1>0, <1>1 DEF Compile, Accept
    <2>2. HasSigned(w)'
        BY <1>1, LetInHasSigned, GroundedKept DEF Compile, Accept
    <2>3. conversations'[d].status # "NONE" /\ conversations'[d].creator = w
        BY <1>0, <1>1 DEF Compile, Resumable
    <2> QED
        BY <2>1, <2>2, <2>3 DEF Grounded, CompileGrounded, RegisterGrounded, Registering, HasSigned
<1>2. ASSUME request[r] \in Compiling, NEW place \in {"compiled", "mark"},
             request' = [request EXCEPT ![r].at = place],
             place = "mark" =>
                 \E h \in RulesHashes : /\ compilations'[h].saved
                                        /\ compilations'[h].conversation = request[r].conversation
      PROVE  Grounded(r)'
    <2>1. /\ request'[r].at = place
          /\ request'[r].wallet = request[r].wallet
          /\ request'[r].conversation = request[r].conversation
        BY <1>0, <1>2 DEF Compiling
    <2>2. request[r].wallet \in Wallets /\ request[r].conversation \in Conversations
        BY <1>2 DEF Compiling
    <2>3. CompileGrounded(r)
        BY DEF RequestsAreGrounded
    <2>4. HasSigned(request[r].wallet)'
        BY <1>2, <2>2, <2>3, GroundedKept DEF CompileGrounded, HasSigned
    <2>5. CompileGrounded(r)'
        BY <1>2, <2>1, <2>2, <2>3, <2>4, ConversationsKept
        DEF CompileGrounded, HasSigned, LedToSpecification
    <2> QED
        BY <2>1, <2>5 DEF Grounded, RegisterGrounded, Registering
<1>3. ASSUME AppendTurns(r)
      PROVE  Grounded(r)'
    BY <1>2, <1>3, RequestTyped DEF AppendTurns, Goto
<1>4. ASSUME NEW h \in RulesHashes, SaveCompiled(r, h)
      PROVE  Grounded(r)'
    <2>1. /\ compilations'[h].saved
          /\ compilations'[h].conversation = request[r].conversation
        BY <1>4 DEF SaveCompiled, SaveCompilation, Unheard, RegistrationTypeOK
    <2> QED
        BY <1>2, <1>4, <2>1, RequestTyped DEF SaveCompiled, Goto
<1>5. ASSUME MarkCompiled(r)
      PROVE  Grounded(r)'
    <2>1. request'[r] = NoRequest
        BY <1>0, <1>5 DEF MarkCompiled, Respond
    <2> QED
        BY <2>1 DEF Grounded, CompileGrounded, RegisterGrounded, Compiling, Registering, NoRequest
<1>6. \A q \in Requests : q # r => request'[q] = request[q]
    BY <1>0 DEF Compile, Accept, AppendTurns, MarkCompiled, SaveCompiled, Goto, Respond
<1> QED
    BY <1>1, <1>3, <1>4, <1>5, <1>6, GroundedKept DEF RequestsAreGrounded, Grounded

LEMMA RegisterSteps ==
    ASSUME AuthTypeOK, SessionsAreSigned, RegistrationTypeOK, RequestsAreGrounded,
           [RegistrationNext]_registryVars,
           NEW r \in Requests,
           \/ \E w \in Wallets, h \in RulesHashes, plan \in Plans \cup {NoPlan} :
                 Register(r, w, h, plan) \/ SetPlanRequest(r, w, h, plan)
           \/ SaveSpecification(r) \/ RegisterMarket(r) \/ SetValidationPlan(r) \/ Fail(r)
    PROVE  RequestsAreGrounded'
PROOF
<1>0. /\ request \in [Requests -> {NoRequest} \cup Compiling \cup Registering]
      /\ markets \in [RulesHashes -> {NotRegistered} \cup Row]
    BY DEF RegistrationTypeOK
<1>1. ASSUME NEW w \in Wallets, NEW h \in RulesHashes, NEW plan \in Plans \cup {NoPlan},
             Register(r, w, h, plan)
      PROVE  Grounded(r)'
    <2>1. request'[r] = [at |-> "saveSpec", wallet |-> w, hash |-> h, plan |-> plan]
        BY <1>0, <1>1 DEF Register, Accept
    <2>2. HasSigned(w)' /\ CreatorOf[h] = w
        BY <1>1, LetInHasSigned, GroundedKept DEF Register, Accept
    <2> QED
        BY <2>1, <2>2 DEF Grounded, CompileGrounded, RegisterGrounded, Compiling, HasSigned
<1>2. ASSUME NEW w \in Wallets, NEW h \in RulesHashes, NEW plan \in Plans \cup {NoPlan},
             SetPlanRequest(r, w, h, plan)
      PROVE  Grounded(r)'
    <2>1. request'[r] = [at |-> "setPlan", wallet |-> w, hash |-> h, plan |-> plan]
        BY <1>0, <1>2 DEF SetPlanRequest, Accept
    <2>2. HasSigned(w)' /\ Registered(h)' /\ plan # NoPlan
        BY <1>2, LetInHasSigned, GroundedKept, RowsKept DEF SetPlanRequest, Accept
    <2> QED
        BY <2>1, <2>2 DEF Grounded, CompileGrounded, RegisterGrounded, Compiling, HasSigned, Registered
<1>3. ASSUME request[r] \in Registering, NEW place \in {"register", "setPlan"},
             request' = [request EXCEPT ![r].at = place],
             place = "register" => request[r].at = "saveSpec",
             place = "setPlan" => markets'[request[r].hash].registered /\ request[r].plan # NoPlan
      PROVE  Grounded(r)'
    <2>1. /\ request'[r].at = place
          /\ request'[r].wallet = request[r].wallet
          /\ request'[r].hash = request[r].hash
          /\ request'[r].plan = request[r].plan
        BY <1>0, <1>3 DEF Registering
    <2>2. request[r].wallet \in Wallets /\ request[r].hash \in RulesHashes
        BY <1>3 DEF Registering
    <2>3. RegisterGrounded(r)
        BY DEF RequestsAreGrounded
    <2>4. HasSigned(request[r].wallet)'
        BY <1>3, <2>2, <2>3, GroundedKept DEF RegisterGrounded, HasSigned
    <2>5. RegisterGrounded(r)'
        BY <1>3, <2>1, <2>2, <2>3, <2>4 DEF RegisterGrounded, HasSigned, Registered
    <2> QED
        BY <2>1, <2>5 DEF Grounded, CompileGrounded, Compiling
<1>4. ASSUME request'[r] = NoRequest
      PROVE  Grounded(r)'
    BY <1>4 DEF Grounded, CompileGrounded, RegisterGrounded, Compiling, Registering, NoRequest
<1>5. ASSUME SaveSpecification(r)
      PROVE  Grounded(r)'
    BY <1>3, <1>5, RequestTyped DEF SaveSpecification, Goto
<1>6. ASSUME RegisterMarket(r)
      PROVE  Grounded(r)'
    <2>1. request[r] \in Registering /\ request[r].hash \in RulesHashes
        BY <1>6, RequestTyped DEF RegisterMarket, Registering
    <2>2. markets'[request[r].hash].registered
        BY <1>0, <1>6, <2>1 DEF RegisterMarket, RegisterRow, FreshRow
    <2>3. CASE PlanGiven(r)
        BY <1>3, <1>6, <2>1, <2>2, <2>3 DEF RegisterMarket, Goto, PlanGiven
    <2>4. CASE ~PlanGiven(r)
        BY <1>0, <1>4, <1>6, <2>4 DEF RegisterMarket, Respond
    <2> QED
        BY <2>3, <2>4
<1>7. ASSUME SetValidationPlan(r) \/ Fail(r)
      PROVE  Grounded(r)'
    BY <1>0, <1>4, <1>7 DEF SetValidationPlan, Fail, Respond
<1>8. \A q \in Requests : q # r => request'[q] = request[q]
    BY <1>0 DEF Register, SetPlanRequest, Accept, SaveSpecification, RegisterMarket,
        SetValidationPlan, Fail, Goto, Respond
<1> QED
    BY <1>1, <1>2, <1>5, <1>6, <1>7, <1>8, GroundedKept DEF RequestsAreGrounded, Grounded

LEMMA RequestsStayGrounded ==
    ASSUME AuthTypeOK, SessionsAreSigned, RegistrationTypeOK, RequestsAreGrounded,
           [RegistrationNext]_registryVars
    PROVE  RequestsAreGrounded'
PROOF
<1>1. ASSUME NEW r \in Requests, RequestStep(r)
      PROVE  RequestsAreGrounded'
    BY <1>1, CompileSteps, RegisterSteps DEF RequestStep
<1>2. CASE request' = request
    BY <1>2, GroundedKept DEF RequestsAreGrounded
<1> QED
    BY <1>1, <1>2 DEF RegistrationNext, SignIn, OpenMarket, Pause, Attach, UpdateStatus,
        registrationVars, registryVars

-----------------------------------------------------------------------------
(* The tables keep their types. *)

LEMMA RegistrationTypeInit == RegistrationInit => RegistrationTypeOK
PROOF
    BY DEF RegistrationInit, RegistrationTypeOK

LEMMA RequestsStayTyped ==
    ASSUME RegistrationTypeOK, [RegistrationNext]_registryVars
    PROVE  request' \in [Requests -> {NoRequest} \cup Compiling \cup Registering]
PROOF
<1>0. request \in [Requests -> {NoRequest} \cup Compiling \cup Registering]
    BY DEF RegistrationTypeOK
<1>1. CASE request' = request
    BY <1>0, <1>1
<1>2. ASSUME NEW r \in Requests,
             NEW q \in {NoRequest} \cup Compiling \cup Registering,
             request' = [request EXCEPT ![r] = q]
      PROVE  request' \in [Requests -> {NoRequest} \cup Compiling \cup Registering]
    BY <1>0, <1>2
<1>3. ASSUME NEW r \in Requests, NEW w \in Wallets, NEW d \in Conversations, Compile(r, w, d)
      PROVE  request' \in [Requests -> {NoRequest} \cup Compiling \cup Registering]
    <2>1. [at |-> "turn", wallet |-> w, conversation |-> d] \in Compiling
        BY DEF Compiling
    <2> QED
        BY <1>2, <1>3, <2>1 DEF Compile, Accept
<1>4. ASSUME NEW r \in Requests, NEW w \in Wallets, NEW h \in RulesHashes,
             NEW plan \in Plans \cup {NoPlan},
             Register(r, w, h, plan) \/ SetPlanRequest(r, w, h, plan)
      PROVE  request' \in [Requests -> {NoRequest} \cup Compiling \cup Registering]
    <2>1. /\ [at |-> "saveSpec", wallet |-> w, hash |-> h, plan |-> plan] \in Registering
          /\ [at |-> "setPlan", wallet |-> w, hash |-> h, plan |-> plan] \in Registering
        BY DEF Registering
    <2> QED
        BY <1>2, <1>4, <2>1 DEF Register, SetPlanRequest, Accept
<1>5. ASSUME NEW r \in Requests, request[r] \in Compiling, NEW place \in {"compiled", "mark"},
             Goto(r, place)
      PROVE  request' \in [Requests -> {NoRequest} \cup Compiling \cup Registering]
    <2>1. [request[r] EXCEPT !.at = place] \in Compiling
        BY <1>5 DEF Compiling
    <2> QED
        BY <1>2, <1>5, <2>1 DEF Goto
<1>6. ASSUME NEW r \in Requests, request[r] \in Registering,
             NEW place \in {"register", "setPlan"}, Goto(r, place)
      PROVE  request' \in [Requests -> {NoRequest} \cup Compiling \cup Registering]
    <2>1. [request[r] EXCEPT !.at = place] \in Registering
        BY <1>6 DEF Registering
    <2> QED
        BY <1>2, <1>6, <2>1 DEF Goto
<1>7. ASSUME NEW r \in Requests, Respond(r)
      PROVE  request' \in [Requests -> {NoRequest} \cup Compiling \cup Registering]
    BY <1>2, <1>7 DEF Respond
<1>8. ASSUME NEW r \in Requests, RequestStep(r)
      PROVE  request' \in [Requests -> {NoRequest} \cup Compiling \cup Registering]
    <2>1. CASE AppendTurns(r) \/ \E h \in RulesHashes : SaveCompiled(r, h)
        BY <1>5, <2>1, RequestTyped DEF AppendTurns, SaveCompiled
    <2>2. CASE SaveSpecification(r) \/ RegisterMarket(r)
        BY <1>6, <1>7, <2>2, RequestTyped DEF SaveSpecification, RegisterMarket
    <2>3. CASE MarkCompiled(r) \/ SetValidationPlan(r) \/ Fail(r)
        BY <1>7, <2>3 DEF MarkCompiled, SetValidationPlan, Fail
    <2> QED
        BY <1>3, <1>4, <1>8, <2>1, <2>2, <2>3 DEF RequestStep
<1> QED
    BY <1>1, <1>8 DEF RegistrationNext, SignIn, OpenMarket, Pause, Attach, UpdateStatus,
        registrationVars, registryVars

LEMMA TablesStayTyped ==
    ASSUME RegistrationTypeOK, RequestsAreGrounded, [RegistrationNext]_registryVars
    PROVE  /\ conversations' \in [Conversations -> {NotOpened} \cup Conversation]
           /\ compilations' \in [RulesHashes -> {NotSaved} \cup Compilation]
           /\ markets' \in [RulesHashes -> {NotRegistered} \cup Row]
PROOF
<1> DEFINE Typed == /\ conversations' \in [Conversations -> {NotOpened} \cup Conversation]
                    /\ compilations' \in [RulesHashes -> {NotSaved} \cup Compilation]
                    /\ markets' \in [RulesHashes -> {NotRegistered} \cup Row]
<1>0. /\ conversations \in [Conversations -> {NotOpened} \cup Conversation]
      /\ compilations \in [RulesHashes -> {NotSaved} \cup Compilation]
      /\ markets \in [RulesHashes -> {NotRegistered} \cup Row]
      /\ observed \in Nat
    BY DEF RegistrationTypeOK
<1>1. CASE UNCHANGED tables
    BY <1>0, <1>1 DEF tables
<1>2. ASSUME NEW r \in Requests, NEW w \in Wallets, NEW d \in Conversations, Compile(r, w, d)
      PROVE  Typed
    <2>1. [status |-> "OPEN", creator |-> w, speakers |-> {}] \in Conversation
        BY DEF Conversation
    <2> QED
        BY <1>0, <1>2, <2>1 DEF Compile
<1>3. ASSUME NEW r \in Requests, request[r] \in Compiling
      PROVE  LET d == request[r].conversation IN
             /\ [conversations[d] EXCEPT !.speakers = @ \cup {request[r].wallet}] \in Conversation
             /\ [conversations[d] EXCEPT !.status = "COMPILED"] \in Conversation
    <2>1. /\ request[r].conversation \in Conversations /\ request[r].wallet \in Wallets
          /\ conversations[request[r].conversation].status # "NONE"
        BY <1>3 DEF RequestsAreGrounded, CompileGrounded, Compiling
    <2>2. conversations[request[r].conversation] \in Conversation
        BY <2>1, OpenedIsConversation
    <2> QED
        BY <2>1, <2>2 DEF Conversation
<1>4. ASSUME NEW r \in Requests, AppendTurns(r)
      PROVE  Typed
    <2>1. request[r] \in Compiling
        BY <1>4, RequestTyped DEF AppendTurns
    <2> QED
        BY <1>0, <1>3, <1>4, <2>1 DEF AppendTurns
<1>5. ASSUME NEW r \in Requests, MarkCompiled(r)
      PROVE  Typed
    <2>1. request[r] \in Compiling
        BY <1>5, RequestTyped DEF MarkCompiled
    <2> QED
        BY <1>0, <1>3, <1>5, <2>1 DEF MarkCompiled
<1>6. ASSUME NEW r \in Requests, NEW h \in RulesHashes, SaveCompiled(r, h)
      PROVE  Typed
    <2>1. [saved |-> TRUE, conversation |-> request[r].conversation] \in Compilation
        BY <1>6, RequestTyped DEF SaveCompiled, Compiling, Compilation
    <2> QED
        BY <1>0, <1>6, <2>1 DEF SaveCompiled, SaveCompilation
<1>7. ASSUME NEW r \in Requests, SaveSpecification(r)
      PROVE  Typed
    <2>1. [saved |-> TRUE, conversation |-> NoConversation] \in Compilation
        BY DEF Compilation
    <2> QED
        BY <1>0, <1>7, <2>1 DEF SaveSpecification, SaveCompilation
<1>8. ASSUME NEW r \in Requests, RegisterMarket(r)
      PROVE  Typed
    <2>1. request[r] \in Registering
        BY <1>8, RequestTyped DEF RegisterMarket
    <2>2. FreshRow(r) \in Row
        BY <2>1 DEF Registering, FreshRow, Row, NoMarket
    <2> QED
        BY <1>0, <1>8, <2>2 DEF RegisterMarket, RegisterRow
<1>9. ASSUME NEW r \in Requests, SetValidationPlan(r)
      PROVE  Typed
    <2>1. /\ request[r] \in Registering
          /\ request[r].hash \in RulesHashes /\ request[r].plan \in Plans \cup {NoPlan}
        BY <1>9, RequestTyped DEF SetValidationPlan, Registering
    <2>2. Registered(request[r].hash)
        BY <1>9, <2>1 DEF SetValidationPlan, RequestsAreGrounded, RegisterGrounded
    <2>3. [markets[request[r].hash] EXCEPT !.plan = request[r].plan] \in Row
        BY <2>1, <2>2, RegisteredIsRow DEF Row
    <2> QED
        BY <1>0, <1>9, <2>3 DEF SetValidationPlan, StorePlan
<1>10. ASSUME NEW h, Registered(h), NEW row,
              \/ row = [markets[h] EXCEPT !.id = observed + 1]
              \/ row = [markets[h] EXCEPT !.status = "OPEN"],
              markets' = [markets EXCEPT ![h] = row]
       PROVE  markets' \in [RulesHashes -> {NotRegistered} \cup Row]
    <2>1. CASE h \in RulesHashes
        <3>1. row \in Row
            <4>1. markets[h] \in Row
                BY <1>10, <2>1, RegisteredIsRow
            <4>2. observed + 1 \in Nat
                BY <1>0
            <4>3. [markets[h] EXCEPT !.id = observed + 1] \in Row
                BY <4>1, <4>2 DEF Row
            <4>4. [markets[h] EXCEPT !.status = "OPEN"] \in Row
                BY <4>1 DEF Row
            <4> QED
                BY <1>10, <4>3, <4>4
        <3> QED
            BY <1>0, <1>10, <3>1
    <2>2. CASE h \notin RulesHashes
        BY <1>0, <1>10, <2>2
    <2> QED
        BY <2>1, <2>2
<1>11. CASE Attach
    <2> DEFINE h == marketById[observed + 1].rulesHash
    <2>1. /\ UNCHANGED <<conversations, compilations>>
          /\ markets' = IF Registered(h) THEN [markets EXCEPT ![h].id = observed + 1] ELSE markets
        BY <1>11 DEF Attach
    <2> HIDE DEF h
    <2> QED
        BY <1>0, <1>10, <2>1
<1>12. ASSUME NEW id \in 1 .. observed, UpdateStatus(id)
       PROVE  Typed
    <2> DEFINE h == marketById[id].rulesHash
    <2>1. /\ UNCHANGED <<conversations, compilations>>
          /\ Registered(h) /\ markets' = [markets EXCEPT ![h].status = "OPEN"]
        BY <1>12 DEF UpdateStatus
    <2> HIDE DEF h
    <2> QED
        BY <1>0, <1>10, <2>1
<1> QED
    BY <1>1, <1>2, <1>4, <1>5, <1>6, <1>7, <1>8, <1>9, <1>11, <1>12
    DEF RegistrationNext, RequestStep, SignIn, OpenMarket, Pause, tables, registrationVars,
        registryVars, Register, SetPlanRequest, Fail

LEMMA RegistrationStaysTyped ==
    ASSUME RegistrationTypeOK, RequestsAreGrounded, [RegistrationNext]_registryVars
    PROVE  RegistrationTypeOK'
PROOF
<1>1. observed' \in Nat /\ accepted' \in Nat
    <2>0. observed \in Nat /\ accepted \in Nat /\ observed + 1 \in Nat /\ accepted + 1 \in Nat
        BY DEF RegistrationTypeOK
    <2>1. ASSUME NEW r \in Requests, RequestStep(r)
          PROVE  observed' = observed /\ (accepted' = accepted \/ accepted' = accepted + 1)
        BY <2>1 DEF RequestStep, Compile, Accept, AppendTurns, MarkCompiled, SaveCompiled, Register,
            SetPlanRequest, SaveSpecification, RegisterMarket, SetValidationPlan, Fail
    <2>2. CASE Attach
        BY <2>0, <2>2 DEF Attach
    <2>3. CASE UNCHANGED <<observed, accepted>>
        BY <2>0, <2>3
    <2>4. \/ \E r \in Requests : RequestStep(r)
          \/ Attach
          \/ UNCHANGED <<observed, accepted>>
        BY DEF RegistrationNext, SignIn, OpenMarket, Pause, UpdateStatus, registrationVars,
            registryVars
    <2> QED
        BY <2>0, <2>1, <2>2, <2>3, <2>4
<1>2. promised' \subseteq RulesHashes
    <2>1. ASSUME NEW r \in Requests, SetValidationPlan(r)
          PROVE  promised' \subseteq RulesHashes
        BY <2>1, RequestTyped DEF SetValidationPlan, Registering, RegistrationTypeOK
    <2> QED
        BY <2>1 DEF RegistrationTypeOK, RegistrationNext, RequestStep, SignIn, OpenMarket, Pause,
            Attach, UpdateStatus, history, registrationVars, registryVars, Compile, AppendTurns,
            MarkCompiled, SaveCompiled, Register, SetPlanRequest, SaveSpecification,
            RegisterMarket, Fail
<1>3. openedAfter' \subseteq RulesHashes
    BY DEF RegistrationTypeOK, RegistrationNext, RequestStep, SignIn, OpenMarket, Pause, Attach,
        UpdateStatus, history, registrationVars, registryVars, Compile, AppendTurns, MarkCompiled,
        SaveCompiled, Register, SetPlanRequest, SaveSpecification, RegisterMarket,
        SetValidationPlan, Fail
<1> QED
    BY <1>1, <1>2, <1>3, RequestsStayTyped, TablesStayTyped DEF RegistrationTypeOK

-----------------------------------------------------------------------------
(* The invariants. *)

LEMMA OwnersKept ==
    ASSUME AuthTypeOK, SessionsAreSigned, RegistrationTypeOK, RequestsAreGrounded,
           RecordsAreTheirOwners, [RegistrationNext]_registryVars
    PROVE  RecordsAreTheirOwners'
PROOF
<1>0. /\ conversations \in [Conversations -> {NotOpened} \cup Conversation]
      /\ markets \in [RulesHashes -> {NotRegistered} \cup Row]
    BY DEF RegistrationTypeOK
<1>k. \A w \in Wallets : HasSigned(w) => HasSigned(w)'
    BY GroundedKept
<1>1. ASSUME NEW d \in Conversations, conversations'[d].status # "NONE"
      PROVE  /\ HasSigned(conversations[d].creator)'
             /\ conversations'[d].speakers \subseteq {conversations'[d].creator}
    <2>1. CASE conversations'[d] = conversations[d]
        <3>1. conversations[d].creator \in Wallets
            BY <1>1, <2>1, OpenedIsConversation DEF Conversation
        <3>2. HasSigned(conversations[d].creator)
            BY <1>1, <2>1 DEF RecordsAreTheirOwners
        <3> QED
            BY <1>k, <1>1, <2>1, <3>1, <3>2 DEF RecordsAreTheirOwners, HasSigned
    <2>2. ASSUME NEW r \in Requests, NEW w \in Wallets, NEW e \in Conversations,
                 Compile(r, w, e), conversations'[d] # conversations[d]
          PROVE  /\ conversations'[d].creator = w /\ conversations'[d].speakers = {}
                 /\ HasSigned(w)'
        <3>1. conversations'[d] = [status |-> "OPEN", creator |-> w, speakers |-> {}]
            BY <1>0, <2>2 DEF Compile
        <3>2. HasSigned(w)
            BY <2>2, LetInHasSigned DEF Compile, Accept
        <3> QED
            BY <1>k, <3>1, <3>2
    <2>3. ASSUME NEW r \in Requests, AppendTurns(r) \/ MarkCompiled(r),
                 conversations'[d] # conversations[d]
          PROVE  /\ conversations'[d].creator = conversations[d].creator
                 /\ HasSigned(conversations[d].creator)
                 /\ conversations[d].creator \in Wallets
                 /\ conversations'[d].speakers \subseteq {conversations[d].creator}
        <3>1. request[r] \in Compiling /\ d = request[r].conversation
            BY <1>0, <2>3, RequestTyped DEF AppendTurns, MarkCompiled
        <3>2. conversations[d].status # "NONE" /\ conversations[d].creator = request[r].wallet
            BY <3>1 DEF RequestsAreGrounded, CompileGrounded
        <3>3. conversations[d] \in Conversation
            BY <3>2, OpenedIsConversation
        <3>4. HasSigned(conversations[d].creator) /\ conversations[d].speakers \subseteq {conversations[d].creator}
            BY <3>2 DEF RecordsAreTheirOwners
        <3>5. CASE AppendTurns(r)
            <4>1. conversations'[d] = [conversations[d] EXCEPT !.speakers = @ \cup {request[r].wallet}]
                BY <1>0, <3>1, <3>5 DEF AppendTurns
            <4> QED
                BY <3>2, <3>3, <3>4, <4>1 DEF Conversation
        <3>6. CASE MarkCompiled(r)
            <4>1. conversations'[d] = [conversations[d] EXCEPT !.status = "COMPILED"]
                BY <1>0, <3>1, <3>6 DEF MarkCompiled
            <4> QED
                BY <3>2, <3>3, <3>4, <4>1 DEF Conversation
        <3> QED
            BY <2>3, <3>5, <3>6
    <2>4. CASE conversations'[d] # conversations[d]
        <3> QED
            BY <1>k, <2>2, <2>3, <2>4, ConversationWriters DEF HasSigned
    <2> QED
        BY <2>1, <2>4
<1>2. ASSUME NEW h \in RulesHashes, Registered(h)'
      PROVE  markets'[h].creator = CreatorOf[h] /\ HasSigned(CreatorOf[h])'
    <2>1. CASE Registered(h)
        <3>1. markets[h].creator = CreatorOf[h] /\ HasSigned(CreatorOf[h])
            BY <2>1 DEF RecordsAreTheirOwners
        <3>2. CreatorOf[h] \in Wallets
            BY RegistrationAssumption
        <3> QED
            BY <1>k, <2>1, <3>1, <3>2, RowsKept
    <2>2. CASE ~Registered(h)
        <3>1. PICK r \in Requests : RegisterMarket(r) /\ h = request[r].hash
            <4>1. ASSUME NEW r \in Requests, RegisterMarket(r)
                  PROVE  h = request[r].hash
                BY <1>0, <1>2, <2>2, <4>1 DEF RegisterMarket, RegisterRow, Registered
            <4>2. ASSUME NEW r \in Requests, SetValidationPlan(r)
                  PROVE  FALSE
                <5>1. request[r] \in Registering /\ Registered(request[r].hash)
                    BY <4>2, RequestTyped DEF SetValidationPlan, RequestsAreGrounded, RegisterGrounded
                <5> QED
                    BY <1>0, <1>2, <2>2, <4>2, <5>1 DEF SetValidationPlan, StorePlan, Registered
            <4>3. CASE Attach
                BY <1>0, <1>2, <2>2, <4>3 DEF Attach, Registered
            <4>4. ASSUME NEW id \in 1 .. observed, UpdateStatus(id)
                  PROVE  FALSE
                BY <1>0, <1>2, <2>2, <4>4 DEF UpdateStatus, Registered
            <4>5. CASE markets' = markets
                BY <1>2, <2>2, <4>5 DEF Registered
            <4> QED
                BY <4>1, <4>2, <4>3, <4>4, <4>5, RowWriters
        <3>2. /\ request[r] \in Registering /\ request[r].wallet \in Wallets
              /\ HasSigned(request[r].wallet) /\ CreatorOf[h] = request[r].wallet
            BY <3>1, RequestTyped DEF RegisterMarket, Registering, RequestsAreGrounded, RegisterGrounded
        <3>3. markets'[h] = FreshRow(r)
            BY <1>0, <2>2, <3>1 DEF RegisterMarket, RegisterRow, Registered
        <3>4. markets'[h].creator = request[r].wallet
            BY <3>3 DEF FreshRow
        <3> QED
            BY <1>k, <3>2, <3>4 DEF HasSigned
    <2> QED
        BY <2>1, <2>2
<1> QED
    BY <1>1, <1>2 DEF RecordsAreTheirOwners, HasSigned

LEMMA PromisesStayKept ==
    ASSUME AuthTypeOK, SessionsAreSigned, RegistrationTypeOK, RequestsAreGrounded,
           HistoryIsRegistered, PromisesKept, [RegistrationNext]_registryVars
    PROVE  PromisesKept'
PROOF
<1>0. /\ conversations \in [Conversations -> {NotOpened} \cup Conversation]
      /\ markets \in [RulesHashes -> {NotRegistered} \cup Row]
      /\ promised \subseteq RulesHashes
    BY DEF RegistrationTypeOK
<1>1. ASSUME NEW d \in Conversations, conversations'[d].status = "COMPILED"
      PROVE  LedToSpecification(d)'
    <2>1. CASE conversations[d].status = "COMPILED"
        BY <2>1, GroundedKept DEF PromisesKept, LedToSpecification
    <2>2. CASE conversations[d].status # "COMPILED"
        <3>1. ASSUME NEW r \in Requests, NEW w \in Wallets, NEW e \in Conversations,
                     Compile(r, w, e)
              PROVE  FALSE
            BY <1>0, <1>1, <2>2, <3>1 DEF Compile
        <3>2. ASSUME NEW r \in Requests, AppendTurns(r)
              PROVE  FALSE
            <4>1. /\ request[r] \in Compiling
                  /\ conversations[request[r].conversation] \in Conversation
                BY <3>2, RequestTyped, OpenedIsConversation
                DEF AppendTurns, RequestsAreGrounded, CompileGrounded, Compiling
            <4> QED
                BY <1>0, <1>1, <2>2, <3>2, <4>1 DEF AppendTurns, Conversation
        <3>3. ASSUME NEW r \in Requests, MarkCompiled(r)
              PROVE  LedToSpecification(d)
            <4>1. d = request[r].conversation
                BY <1>0, <1>1, <2>2, <3>3 DEF MarkCompiled
            <4> QED
                BY <3>3, <4>1, RequestTyped DEF MarkCompiled, RequestsAreGrounded, CompileGrounded
        <3>4. \E r \in Requests : MarkCompiled(r)
            BY <1>1, <2>2, <3>1, <3>2, ConversationWriters
        <3>5. LedToSpecification(d)
            BY <3>3, <3>4
        <3> QED
            BY <3>5, GroundedKept
    <2> QED
        BY <2>1, <2>2
<1>2. ASSUME NEW h \in promised'
      PROVE  markets'[h].plan # NoPlan
    <2>1. CASE h \in promised
        <3>1. h \in RulesHashes /\ Registered(h) /\ markets[h].plan # NoPlan
            BY <1>0, <2>1 DEF HistoryIsRegistered, PromisesKept
        <3> QED
            BY <3>1, RowsKept
    <2>2. CASE h \notin promised
        <3>1. PICK r \in Requests : SetValidationPlan(r)
            BY <1>2, <2>2 DEF RegistrationNext, RequestStep, SignIn, OpenMarket, Pause,
                Attach, UpdateStatus, history, registrationVars, registryVars, Compile, AppendTurns,
                MarkCompiled, SaveCompiled, Register, SetPlanRequest, SaveSpecification,
                RegisterMarket, Fail
        <3>2. h = request[r].hash
            BY <1>2, <2>2, <3>1 DEF SetValidationPlan
        <3>3. request[r] \in Registering /\ h \in RulesHashes
            BY <3>1, <3>2, RequestTyped DEF SetValidationPlan, Registering
        <3>4. Registered(h) /\ request[r].plan # NoPlan
            BY <3>1, <3>2, <3>3 DEF SetValidationPlan, RequestsAreGrounded, RegisterGrounded
        <3>5. markets[h] \in Row
            BY <3>3, <3>4, RegisteredIsRow
        <3> QED
            BY <1>0, <3>1, <3>2, <3>3, <3>4, <3>5 DEF SetValidationPlan, StorePlan, Row
    <2> QED
        BY <2>1, <2>2
<1> QED
    BY <1>1, <1>2 DEF PromisesKept, LedToSpecification

\* The registry only grows, by markets for hashes that named none.
LEMMA RegistryGrows ==
    ASSUME FactoryTypeOK, RegistryConsistent, [FactoryNext]_factoryVars
    PROVE  /\ marketCount \in Nat /\ marketCount' \in Nat
           /\ marketCount <= marketCount'
           /\ \A id \in 1 .. marketCount : marketById'[id] = marketById[id]
           /\ \A id \in 1 .. marketCount :
                 marketByRulesHash'[marketById[id].rulesHash] = id
PROOF
<1>1. /\ marketById \in Seq(Market) /\ marketCount = Len(marketById) /\ marketCount \in Nat
    BY LenProperties DEF FactoryTypeOK, marketCount
<1>2. ASSUME NEW caller \in Creators, NEW h \in RulesHashes, CreateMarket(caller, h)
      PROVE  /\ marketCount' = marketCount + 1
             /\ \A id \in 1 .. marketCount : marketById'[id] = marketById[id]
    <2>1. [rulesHash |-> h, creator |-> caller] \in Market
        BY DEF Market
    <2> QED
        BY <1>1, <1>2, <2>1, AppendProperties DEF CreateMarket, marketCount
<1>3. ASSUME UNCHANGED marketById
      PROVE  /\ marketCount' = marketCount
             /\ \A id \in 1 .. marketCount : marketById'[id] = marketById[id]
    BY <1>1, <1>3 DEF marketCount
<1>4. /\ marketCount' \in Nat /\ marketCount <= marketCount'
      /\ \A id \in 1 .. marketCount : marketById'[id] = marketById[id]
    BY <1>1, <1>2, <1>3 DEF FactoryNext, SetPaused, factoryVars
<1>5. RegistryConsistent'
    BY RegistryInductive
<1>6. \A id \in 1 .. marketCount : marketByRulesHash'[marketById[id].rulesHash] = id
    BY <1>1, <1>4, <1>5 DEF RegistryConsistent
<1> QED
    BY <1>1, <1>4, <1>6

LEMMA HistoryStaysRegistered ==
    ASSUME FactoryTypeOK, RegistryConsistent, RegistrationTypeOK, RequestsAreGrounded,
           HistoryIsRegistered, [RegistrationNext]_registryVars
    PROVE  HistoryIsRegistered'
PROOF
<1>0. /\ promised \subseteq RulesHashes /\ openedAfter \subseteq RulesHashes
      /\ observed \in Nat
      /\ marketCount \in Nat /\ marketCount' \in Nat /\ marketCount <= marketCount'
    BY RegistryGrows, RegistrationStepsAreComponentSteps DEF RegistrationTypeOK
<1>1. ASSUME NEW h \in promised'
      PROVE  h \in RulesHashes /\ Registered(h)
    <2>1. ASSUME NEW r \in Requests, SetValidationPlan(r)
          PROVE  request[r].hash \in RulesHashes /\ Registered(request[r].hash)
        BY <2>1, RequestTyped DEF SetValidationPlan, RequestsAreGrounded, RegisterGrounded, Registering
    <2>2. CASE h \in promised
        BY <1>0, <2>2 DEF HistoryIsRegistered
    <2>3. CASE h \notin promised
        <3>1. PICK r \in Requests : SetValidationPlan(r)
            BY <1>1, <2>3 DEF RegistrationNext, RequestStep, SignIn, OpenMarket, Pause,
                Attach, UpdateStatus, history, registrationVars, registryVars, Compile, AppendTurns,
                MarkCompiled, SaveCompiled, Register, SetPlanRequest, SaveSpecification,
                RegisterMarket, Fail
        <3> QED
            BY <1>1, <2>1, <2>3, <3>1 DEF SetValidationPlan
    <2> QED
        BY <2>2, <2>3
<1>2. ASSUME NEW h \in openedAfter'
      PROVE  h \in RulesHashes /\ Registered(h)
    <2>1. CASE h \in openedAfter
        BY <1>0, <2>1 DEF HistoryIsRegistered
    <2>2. CASE h \notin openedAfter
        BY <1>2, <2>2 DEF RegistrationNext, RequestStep, SignIn, OpenMarket, Pause, Attach,
            UpdateStatus, history, registrationVars, registryVars, Compile, AppendTurns,
            MarkCompiled, SaveCompiled, Register, SetPlanRequest, SaveSpecification,
            RegisterMarket, SetValidationPlan, Fail
    <2> QED
        BY <2>1, <2>2
<1>3. observed' <= marketCount'
    <2>1. CASE Attach
        BY <1>0, <2>1 DEF Attach
    <2>2. CASE observed' = observed
        BY <1>0, <2>2 DEF HistoryIsRegistered
    <2> QED
        BY <2>1, <2>2 DEF RegistrationNext, RequestStep, SignIn, OpenMarket, Pause, UpdateStatus,
            registrationVars, registryVars, Compile, AppendTurns, MarkCompiled, SaveCompiled,
            Register, SetPlanRequest, SaveSpecification, RegisterMarket, SetValidationPlan, Fail
<1>4. \A h \in (promised \cup openedAfter)' : Registered(h)'
    BY <1>1, <1>2, RowsKept
<1> QED
    BY <1>3, <1>4 DEF HistoryIsRegistered


\* The indexer joins the row of a hash to the one market the registry has for it.
LEMMA JoinedKept ==
    ASSUME FactoryTypeOK, RegistryConsistent, RegistrationTypeOK, RequestsAreGrounded,
           HistoryIsRegistered, JoinedIfOpenedAfter, [RegistrationNext]_registryVars
    PROVE  JoinedIfOpenedAfter'
PROOF
<1>0. /\ markets \in [RulesHashes -> {NotRegistered} \cup Row]
      /\ openedAfter \subseteq RulesHashes
      /\ observed \in Nat /\ observed <= marketCount
      /\ marketCount \in Nat
      /\ \A id \in 1 .. marketCount : marketById'[id] = marketById[id]
      /\ \A id \in 1 .. marketCount : marketByRulesHash'[marketById[id].rulesHash] = id
      /\ \A id \in 1 .. marketCount : marketByRulesHash[marketById[id].rulesHash] = id
    BY RegistryGrows, RegistrationStepsAreComponentSteps
    DEF RegistrationTypeOK, HistoryIsRegistered, RegistryConsistent
<1>1. ASSUME NEW id \in 1 .. observed, marketById[id].rulesHash \in openedAfter'
      PROVE  marketById[id].rulesHash \in openedAfter
    <2>1. ASSUME NEW caller \in Creators, NEW h \in RulesHashes, OpenMarket(caller, h)
          PROVE  marketById[id].rulesHash # h
        BY <1>0, <2>1 DEF OpenMarket, CreateMarket, Unused, NoMarket
    <2> QED
        BY <1>1, <2>1 DEF RegistrationNext, RequestStep, SignIn, OpenMarket, Pause, Attach,
            UpdateStatus, history, registrationVars, registryVars, Compile, AppendTurns,
            MarkCompiled, SaveCompiled, Register, SetPlanRequest, SaveSpecification,
            RegisterMarket, SetValidationPlan, Fail
<1>2. ASSUME NEW id \in 1 .. observed, marketById[id].rulesHash \in openedAfter
      PROVE  markets'[marketById[id].rulesHash].id = id
    <2> DEFINE h == marketById[id].rulesHash
    <2>1. h \in RulesHashes /\ markets[h] \in Row /\ markets[h].id = id
        BY <1>0, <1>2, RegisteredIsRow DEF HistoryIsRegistered, JoinedIfOpenedAfter
    <2>2. Registered(h)
        BY <2>1 DEF Registered, Row
    <2>3. \A k \in 1 .. marketCount : marketById[k].rulesHash = h => k = id
        BY <1>0, <1>2
    <2> HIDE DEF h
    <2>4. ASSUME markets' = markets
          PROVE  markets'[h].id = id
        BY <2>1, <2>4
    <2>5. ASSUME NEW r \in Requests, RegisterMarket(r)
          PROVE  markets'[h].id = id
        BY <1>0, <2>1, <2>2, <2>5 DEF RegisterMarket, RegisterRow, Registered
    <2>6. ASSUME NEW r \in Requests, SetValidationPlan(r)
          PROVE  markets'[h].id = id
        BY <1>0, <2>1, <2>6 DEF SetValidationPlan, StorePlan, Row
    <2>7. ASSUME Attach
          PROVE  markets'[h].id = id
        <3>1. observed + 1 \in 1 .. marketCount /\ observed + 1 # id
            BY <1>0, <2>7 DEF Attach
        <3>2. marketById[observed + 1].rulesHash # h
            BY <2>3, <3>1
        <3> QED
            BY <1>0, <2>1, <2>7, <3>2 DEF Attach
    <2>8. ASSUME NEW k \in 1 .. observed, UpdateStatus(k)
          PROVE  markets'[h].id = id
        BY <1>0, <2>1, <2>8 DEF UpdateStatus, Row
    <2>9. markets'[h].id = id
        BY <2>4, <2>5, <2>6, <2>7, <2>8, RowWriters
    <2> QED
        BY <2>9 DEF h
<1>3. ASSUME Attach, marketById[observed + 1].rulesHash \in openedAfter
      PROVE  markets'[marketById[observed + 1].rulesHash].id = observed + 1
    <2>1. /\ marketById[observed + 1].rulesHash \in RulesHashes
          /\ Registered(marketById[observed + 1].rulesHash)
        BY <1>0, <1>3 DEF HistoryIsRegistered
    <2>2. markets[marketById[observed + 1].rulesHash] \in Row
        BY <2>1, RegisteredIsRow
    <2> QED
        BY <1>0, <1>3, <2>1, <2>2 DEF Attach, Row
<1>4. ASSUME NEW id \in 1 .. observed', marketById'[id].rulesHash \in openedAfter'
      PROVE  markets'[marketById'[id].rulesHash].id = id /\ marketByRulesHash'[marketById'[id].rulesHash] = id
    <2>1. CASE Attach
        <3>1. /\ id \in 1 .. observed \/ id = observed + 1
              /\ id \in 1 .. marketCount /\ openedAfter' = openedAfter
            BY <1>0, <1>4, <2>1 DEF Attach, history
        <3>2. marketById'[id] = marketById[id] /\ marketByRulesHash'[marketById[id].rulesHash] = id
            BY <1>0, <3>1
        <3> QED
            BY <1>2, <1>3, <1>4, <2>1, <3>1, <3>2
    <2>2. CASE observed' = observed
        <3>1. id \in 1 .. observed /\ id \in 1 .. marketCount
            BY <1>0, <1>4, <2>2
        <3>2. marketById'[id] = marketById[id] /\ marketByRulesHash'[marketById[id].rulesHash] = id
            BY <1>0, <3>1
        <3> QED
            BY <1>1, <1>2, <1>4, <3>1, <3>2
    <2>3. Attach \/ observed' = observed
        BY DEF RegistrationNext, RequestStep, SignIn, OpenMarket, Pause, UpdateStatus,
            registrationVars, registryVars, Compile, AppendTurns, MarkCompiled, SaveCompiled,
            Register, SetPlanRequest, SaveSpecification, RegisterMarket, SetValidationPlan, Fail
    <2> QED
        BY <2>1, <2>2, <2>3
<1> QED
    BY <1>4 DEF JoinedIfOpenedAfter

-----------------------------------------------------------------------------
(* The theorems of the whole. *)

LEMMA RegistrationInvInductive ==
    /\ RegistrationInit => RegistrationInv
    /\ ComponentInv /\ RegistrationInv /\ [RegistrationNext]_registryVars => RegistrationInv'
PROOF
<1>1. ASSUME RegistrationInit
      PROVE  RegistrationInv
    <2>1. SessionsAreSigned
        BY <1>1 DEF RegistrationInit, AuthInit, SessionsAreSigned
    <2>2. RequestsAreGrounded
        BY <1>1 DEF RegistrationInit, RequestsAreGrounded, CompileGrounded, RegisterGrounded,
            Compiling, Registering, NoRequest
    <2>3. HistoryIsRegistered
        BY <1>1, EmptySeq DEF RegistrationInit, FactoryInit, HistoryIsRegistered, marketCount
    <2>4. RecordsAreTheirOwners /\ PromisesKept
        BY <1>1 DEF RegistrationInit, RecordsAreTheirOwners, PromisesKept, NotOpened, NotRegistered,
            Registered
    <2>5. JoinedIfOpenedAfter
        BY <1>1 DEF RegistrationInit, JoinedIfOpenedAfter
    <2> QED
        BY <1>1, <2>1, <2>2, <2>3, <2>4, <2>5, RegistrationTypeInit DEF RegistrationInv
<1>2. ASSUME ComponentInv, RegistrationInv, [RegistrationNext]_registryVars
      PROVE  RegistrationInv'
    <2>1. SessionsAreSigned'
        BY <1>2, SignaturesKept, RegistrationStepsAreComponentSteps
        DEF ComponentInv, RegistrationInv
    <2>2. RegistrationTypeOK' /\ RequestsAreGrounded'
        BY <1>2, RegistrationStaysTyped, RequestsStayGrounded DEF ComponentInv, RegistrationInv
    <2>3. HistoryIsRegistered' /\ JoinedIfOpenedAfter'
        BY <1>2, HistoryStaysRegistered, JoinedKept DEF ComponentInv, RegistrationInv
    <2>4. RecordsAreTheirOwners' /\ PromisesKept'
        BY <1>2, OwnersKept, PromisesStayKept DEF ComponentInv, RegistrationInv
    <2> QED
        BY <2>1, <2>2, <2>3, <2>4 DEF RegistrationInv
<1> QED
    BY <1>1, <1>2

LEMMA RegistrationInvHolds == RegistrationSpec => [](ComponentInv /\ RegistrationInv)
PROOF
    BY ComponentsInductive, RegistrationInvInductive, PTL DEF RegistrationSpec

\* The routes, the chain and the indexer use the registry and the sign-in only
\* through their own operations: what is proved of either holds in the whole.
THEOREM RegistrationUsesComponents == RegistrationSpec => FactorySpec /\ AuthSpec
PROOF
<1>1. RegistrationInit => FactoryInit /\ AuthInit
    BY DEF RegistrationInit
<1>2. [RegistrationNext]_registryVars => [FactoryNext]_factoryVars /\ [AuthNext]_authVars
    BY RegistrationStepsAreComponentSteps
<1> QED
    BY <1>1, <1>2, PTL DEF RegistrationSpec, FactorySpec, AuthSpec

\* server.ts checks an owner before its awaits and writes after them: a conversation
\* holds only its creator's turns, and a registered specification has its creator's
\* signature, whatever other requests do in between.
THEOREM OwnersHold == RegistrationSpec => []RecordsAreTheirOwners
PROOF
<1>1. RegistrationInv => RecordsAreTheirOwners
    BY DEF RegistrationInv
<1> QED
    BY <1>1, RegistrationInvHolds, PTL

\* Idempotent inserts keep what was promised: no request, concurrent or repeated,
\* takes back an accepted plan or the specification a conversation led to.
THEOREM PromisesHold == RegistrationSpec => []PromisesKept
PROOF
<1>1. RegistrationInv => PromisesKept
    BY DEF RegistrationInv
<1> QED
    BY <1>1, RegistrationInvHolds, PTL

\* A market opened after its specification was registered is joined to it for good
\* once the indexer has applied its creation (indexer.ts, attachOnChainIdentity()).
THEOREM JoinHolds == RegistrationSpec => []JoinedIfOpenedAfter
PROOF
<1>1. RegistrationInv => JoinedIfOpenedAfter
    BY DEF RegistrationInv
<1> QED
    BY <1>1, RegistrationInvHolds, PTL

=============================================================================
