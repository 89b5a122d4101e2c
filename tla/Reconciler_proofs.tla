--------------------------- MODULE Reconciler_proofs ---------------------------
(***************************************************************************)
(* What the report of a run says, for any market, any accounts, any branch  *)
(* the chain takes back and whatever has been done to the tables: of a run  *)
(* that nothing disturbed it is a function of tables and contract, and a    *)
(* cached row that agrees in what is compared agrees in what that settles.  *)
(***************************************************************************)
EXTENDS Reconciler, ConditionalMarket_proofs

-----------------------------------------------------------------------------
(* The market, on the chain as it is and where a branch leaves it. *)

\* The market as the chain has it once the branch is dropped.
Trunk == INSTANCE ConditionalMarket WITH
    now <- trunk.now, wallet <- trunk.wallet, held <- trunk.held, config <- trunk.config,
    state <- trunk.state, proposedOutcome <- trunk.proposedOutcome,
    evidenceHash <- trunk.evidenceHash, proposedAt <- trunk.proposedAt,
    proposalRound <- trunk.proposalRound, challenger <- trunk.challenger,
    challengeReasonHash <- trunk.challengeReasonHash,
    challengedOutcome <- trunk.challengedOutcome, challengedAt <- trunk.challengedAt,
    bondOutstanding <- trunk.bondOutstanding, bondRefundable <- trunk.bondRefundable,
    forfeitedBond <- trunk.forfeitedBond, finalOutcome <- trunk.finalOutcome,
    finalizedAt <- trunk.finalizedAt, cancellationReason <- trunk.cancellationReason,
    refundMode <- trunk.refundMode, yesStake <- trunk.yesStake, noStake <- trunk.noStake,
    totalYes <- trunk.totalYes, totalNo <- trunk.totalNo, hasClaimed <- trunk.hasClaimed,
    remainingClaimableStake <- trunk.remainingClaimableStake

\* Every step of the market, and the clock, is one of ConditionalMarket; the creation
\* and a reorganisation are none, and the rest of the environment and the run leave the
\* market alone.
LEMMA StepsAreMarketSteps ==
    ASSUME [ReconcilerNext]_reconcilerVars, ~Open, ~Reorganise
    PROVE  [Next]_vars
PROOF
<1>1. CASE UNCHANGED reconcilerVars
    BY <1>1 DEF reconcilerVars, chainVars, marketVars
<1>2. CASE Run
    BY <1>2 DEF Run, Begin, ListMarkets, FindMarket, ReadMarket, ReadPackage, ReadCached,
        ReadBalance, FindUnknown, Exit, Found, chainVars, marketVars
<1>3. CASE Environment
    <2>1. CASE Register \/ IndexCreation \/ IndexState \/ IndexStatus \/ Damage \/ Branch
        BY <2>1 DEF Register, IndexCreation, IndexState, IndexStatus, Damage, Branch, chainVars,
            marketVars
    <2>2. CASE Tick
        BY <2>2 DEF Next
    <2>3. CASE Propose
        BY <2>3 DEF Propose, Next
    <2>4. CASE OtherMarketStep
        <3>1. 0 \in Fees /\ 1 .. Funds \subseteq 0 .. Funds
            BY ReconcilerAssumption, MarketAssumption DEF ReconcilerAssumption, MarketAssumption
        <3> QED
            BY <2>4, <3>1 DEF OtherMarketStep, Next
    <2> QED
        BY <1>3, <2>1, <2>2, <2>3, <2>4 DEF Environment
<1> QED
    BY <1>1, <1>2, <1>3 DEF ReconcilerNext

\* Stake becomes claimable with the resolution.
NothingClaimableYet == ~Resolved => remainingClaimableStake = 0

LEMMA NextNothingClaimableYet ==
    TypeOK /\ LifecycleInv /\ NothingClaimableYet /\ [Next]_vars => NothingClaimableYet'
PROOF
<1> SUFFICES ASSUME TypeOK, LifecycleInv, NothingClaimableYet, [Next]_vars, ~Resolved'
             PROVE  remainingClaimableStake' = 0
    BY DEF NothingClaimableYet
<1>1. CASE Resolved
    <2>1. UNCHANGED contractVars \/ Resolved'
        BY <1>1, ResolvedSteps, WithdrawalStates
    <2> QED
        BY <1>1, <2>1 DEF contractVars, Resolved
<1>2. CASE ~Resolved
    <2>1. UNCHANGED remainingClaimableStake
        <3>1. CASE Tick \/ Administer \/ Close \/ UNCHANGED vars
            BY <3>1 DEF Tick, Administer, Close, claimVars, vars
        <3>2. ASSUME NEW a \in Accounts, NEW side \in Outcome, NEW amount \in 0 .. Funds,
                     NEW fee \in Fees, Stake(a, side, amount, fee)
              PROVE  UNCHANGED remainingClaimableStake
            BY <3>2 DEF Stake, claimVars
        <3>3. ASSUME NEW r \in Resolvers, NEW outcome \in Outcome,
                     NEW hash \in EvidenceHashes \cup {NoHash}, ProposeResolution(r, outcome, hash)
              PROVE  UNCHANGED remainingClaimableStake
            BY <3>3 DEF ProposeResolution, claimVars
        <3>4. ASSUME NEW a \in Accounts, NEW reason \in ReasonHashes \cup {NoHash},
                     NEW fee \in Fees, Challenge(a, reason, fee)
              PROVE  UNCHANGED remainingClaimableStake
            BY <3>4 DEF Challenge, claimVars
        <3>5. ASSUME Finalize \/ \E reason \in CancellationReason : Cancel(reason)
              PROVE  Resolved'
            BY <3>5 DEF Finalize, Cancel, DoCancel, DecideOutcome, SettleIfExhausted, Resolved
        <3>6. ~(\E a \in Accounts : Claim(a) \/ WithdrawRefund(a) \/ ClaimChallengeBond(a))
            BY <1>2, WithdrawalStates
        <3> QED
            BY <3>1, <3>2, <3>3, <3>4, <3>5, <3>6 DEF Next
    <2> QED
        BY <1>2, <2>1 DEF NothingClaimableYet
<1> QED
    BY <1>1, <1>2

MarketInv == TypeOK /\ LifecycleInv /\ FullyBacked /\ NothingClaimableYet

LEMMA InitMarket == Init => MarketInv
PROOF
    BY InitTypeOK, InitLifecycle, InitFullyBacked DEF MarketInv, Init, NothingClaimableYet

LEMMA NextMarket == MarketInv /\ [Next]_vars => MarketInv'
PROOF
    BY NextTypeOK, NextLifecycle, NextFullyBacked, NextNothingClaimableYet DEF MarketInv

\* Nothing has been proposed or challenged in a market that does not exist.
Pristine == address = NoAddress => state = "OPEN" /\ proposedAt = 0 /\ challengedAt = 0

\* And the same where the branch leaves the chain.
TrunkInv ==
    trunk # NoRow =>
        /\ Trunk!TypeOK /\ Trunk!LifecycleInv /\ Trunk!FullyBacked
        /\ ~Trunk!Resolved => trunk.remainingClaimableStake = 0
        /\ trunk.address = NoAddress =>
              trunk.state = "OPEN" /\ trunk.proposedAt = 0 /\ trunk.challengedAt = 0

ChainInv == MarketInv /\ Pristine /\ TrunkInv

\* A market is created with any parameters initialize() accepts.
LEMMA OpenMarket ==
    ASSUME MarketInv, Pristine, Open
    PROVE  MarketInv'
PROOF
<1>1. /\ address = NoAddress /\ address' \in Addresses
      /\ config' \in Params /\ AcceptsParams(config')
      /\ UNCHANGED << now, factoryVars, tokenVars, state, proposalVars, challengeVars,
                      bondVars, resultVars, stakeVars, claimVars >>
    BY MarketAssumption DEF Open, MarketAssumption
<1>2. state = "OPEN" /\ proposedAt = 0 /\ challengedAt = 0
    BY <1>1 DEF Pristine
<1>3. ~bondOutstanding /\ forfeitedBond = 0 /\ ~Resolved /\ ~refundMode
    BY <1>2, MarketAssumption DEF MarketInv, LifecycleInv, BeforeProposal, ChallengedOnce,
       ResultFollowsState, BondFollowsState, Resolved, TypeOK, MarketAssumption
<1>4. DeadlinesFit'
    BY <1>1, <1>2, MarketAssumption DEF DeadlinesFit, AcceptsParams, FitsTimestamp,
       resolutionDeadline, challengeEndsAt, reviewDeadline, proposalVars, challengeVars,
       MarketAssumption
<1>5. TypeOK'
    BY <1>1, <1>4 DEF MarketInv, TypeOK, AcceptsParams, factoryVars, tokenVars, proposalVars,
       challengeVars, bondVars, resultVars, stakeVars, claimVars
<1>6. LifecycleInv'
    BY <1>1, <1>3 DEF MarketInv, LifecycleInv, BeforeProposal, WhileStanding, ChallengedOnce,
       ResultFollowsState, BondFollowsState, SettlementFollowsState, Resolved, TotalOn,
       proposalVars, challengeVars, bondVars, resultVars, stakeVars, claimVars
<1>7. FullyBacked' /\ NothingClaimableYet'
    BY <1>1, <1>3 DEF MarketInv, FullyBacked, NothingClaimableYet, BondHeld, Resolved, tokenVars,
       bondVars, resultVars, stakeVars, claimVars
<1> QED
    BY <1>5, <1>6, <1>7 DEF MarketInv

\* A branch begins where the chain is.
LEMMA BranchTrunk ==
    ASSUME MarketInv, Pristine, Branch
    PROVE  TrunkInv'
PROOF
<1> USE DEF Branch
<1>1. Trunk!TypeOK'
    BY DEF MarketInv, TypeOK, DeadlinesFit, resolutionDeadline, challengeEndsAt, reviewDeadline,
       Trunk!TypeOK, Trunk!DeadlinesFit, Trunk!resolutionDeadline, Trunk!challengeEndsAt,
       Trunk!reviewDeadline, Trunk!Params, Trunk!State, Trunk!Outcome, Trunk!CancellationReason,
       Trunk!MAX_PROPOSAL_ROUNDS, Params, State, Outcome, CancellationReason, MAX_PROPOSAL_ROUNDS,
       chainVars, marketVars, vars, factoryVars
<1>2. Trunk!LifecycleInv'
    BY DEF MarketInv, LifecycleInv, BeforeProposal, WhileStanding, ChallengedOnce,
       ResultFollowsState, BondFollowsState, SettlementFollowsState, Resolved, TotalOn,
       Trunk!LifecycleInv, Trunk!BeforeProposal, Trunk!WhileStanding, Trunk!ChallengedOnce,
       Trunk!ResultFollowsState, Trunk!BondFollowsState, Trunk!SettlementFollowsState,
       Trunk!Resolved, Trunk!TotalOn, Trunk!MAX_PROPOSAL_ROUNDS, MAX_PROPOSAL_ROUNDS
<1>3. Trunk!FullyBacked' /\ (~Trunk!Resolved => trunk.remainingClaimableStake = 0)'
    BY DEF MarketInv, FullyBacked, NothingClaimableYet, BondHeld, TotalOn, pool, Resolved,
       Trunk!FullyBacked, Trunk!BondHeld, Trunk!TotalOn, Trunk!pool, Trunk!Resolved
<1> QED
    BY <1>1, <1>2, <1>3 DEF TrunkInv, Pristine

\* And a reorganisation leads back to it.
LEMMA ReorganiseMarket ==
    ASSUME TrunkInv, Reorganise, UNCHANGED factoryVars, TypeOK
    PROVE  MarketInv' /\ Pristine'
PROOF
<1> USE DEF Reorganise, TrunkInv
<1>1. TypeOK'
    BY DEF TypeOK, DeadlinesFit, resolutionDeadline, challengeEndsAt, reviewDeadline,
       Trunk!TypeOK, Trunk!DeadlinesFit, Trunk!resolutionDeadline, Trunk!challengeEndsAt,
       Trunk!reviewDeadline, Trunk!Params, Trunk!State, Trunk!Outcome, Trunk!CancellationReason,
       Trunk!MAX_PROPOSAL_ROUNDS, Params, State, Outcome, CancellationReason, MAX_PROPOSAL_ROUNDS,
       factoryVars
<1>2. LifecycleInv'
    BY DEF LifecycleInv, BeforeProposal, WhileStanding, ChallengedOnce,
       ResultFollowsState, BondFollowsState, SettlementFollowsState, Resolved, TotalOn,
       Trunk!LifecycleInv, Trunk!BeforeProposal, Trunk!WhileStanding, Trunk!ChallengedOnce,
       Trunk!ResultFollowsState, Trunk!BondFollowsState, Trunk!SettlementFollowsState,
       Trunk!Resolved, Trunk!TotalOn, Trunk!MAX_PROPOSAL_ROUNDS, MAX_PROPOSAL_ROUNDS
<1>3. FullyBacked' /\ NothingClaimableYet'
    BY DEF FullyBacked, NothingClaimableYet, BondHeld, TotalOn, pool, Resolved,
       Trunk!FullyBacked, Trunk!BondHeld, Trunk!TotalOn, Trunk!pool, Trunk!Resolved
<1> QED
    BY <1>1, <1>2, <1>3 DEF MarketInv, Pristine

LEMMA TrunkStays ==
    ASSUME TrunkInv, TypeOK', UNCHANGED trunk
    PROVE  TrunkInv'
PROOF
<1> USE DEF TrunkInv
<1> SUFFICES ASSUME trunk # NoRow
             PROVE  TrunkInv'
    OBVIOUS
<1>1. Trunk!TypeOK'
    BY DEF TypeOK, Trunk!TypeOK, Trunk!DeadlinesFit, Trunk!resolutionDeadline,
       Trunk!challengeEndsAt, Trunk!reviewDeadline
<1>2. Trunk!LifecycleInv' /\ Trunk!FullyBacked' /\ Trunk!Resolved' = Trunk!Resolved
    BY DEF Trunk!LifecycleInv, Trunk!BeforeProposal, Trunk!WhileStanding, Trunk!ChallengedOnce,
       Trunk!ResultFollowsState, Trunk!BondFollowsState, Trunk!SettlementFollowsState,
       Trunk!FullyBacked, Trunk!BondHeld, Trunk!pool, Trunk!Resolved, Trunk!TotalOn
<1> QED
    BY <1>1, <1>2

\* What a step does to the registry and to the branch.
LEMMA ChainSteps ==
    ASSUME [ReconcilerNext]_reconcilerVars
    PROVE  \/ Open /\ UNCHANGED <<trunk, cached>>
           \/ Branch /\ UNCHANGED cached
           \/ Reorganise /\ UNCHANGED <<factoryVars, cached>>
           \/ IndexState /\ UNCHANGED <<marketVars, address, trunk>>
           \/ /\ UNCHANGED <<address, trunk, cached>>
              /\ address = NoAddress =>
                    UNCHANGED <<state, proposalVars, challengeVars>>
PROOF
<1>1. CASE UNCHANGED reconcilerVars
    BY <1>1 DEF reconcilerVars, chainVars, tableVars, marketVars, vars
<1>2. CASE Run
    BY <1>2 DEF Run, Begin, ListMarkets, FindMarket, ReadMarket, ReadPackage, ReadCached,
        ReadBalance, FindUnknown, Exit, Found, chainVars, tableVars, marketVars, vars
<1>3. CASE Environment
    <2>1. CASE Register \/ IndexCreation \/ IndexStatus \/ Damage \/ IndexState
        BY <2>1 DEF Register, IndexCreation, IndexState, IndexStatus, Damage, chainVars, marketVars,
            vars
    <2>2. CASE Tick /\ UNCHANGED <<address, trunk, branchLength, tableVars, runVars, moves, mishaps>>
        BY <2>2 DEF Tick, tableVars
    <2>3. CASE Propose \/ OtherMarketStep
        BY <2>3 DEF Propose, OtherMarketStep, Mines, tableVars
    <2>4. CASE Open \/ Branch \/ Reorganise
        BY <2>4 DEF Open, Mines, Branch, Reorganise, tableVars
    <2> QED
        BY <1>3, <2>1, <2>2, <2>3, <2>4 DEF Environment
<1> QED
    BY <1>1, <1>2, <1>3 DEF ReconcilerNext

LEMMA NextChain == ChainInv /\ [ReconcilerNext]_reconcilerVars => ChainInv'
PROOF
<1> SUFFICES ASSUME ChainInv, [ReconcilerNext]_reconcilerVars
             PROVE  ChainInv'
    OBVIOUS
<1> USE DEF ChainInv
<1>1. MarketInv'
    <2>1. CASE Open
        BY <2>1, OpenMarket
    <2>2. CASE Reorganise
        BY <2>2, ReorganiseMarket DEF MarketInv, Reorganise
    <2>3. CASE ~Open /\ ~Reorganise
        BY <2>3, StepsAreMarketSteps, NextMarket
    <2> QED
        BY <2>1, <2>2, <2>3
<1>2. Pristine'
    <2>1. CASE Open
        BY <2>1, ReconcilerAssumption DEF Open, Pristine, ReconcilerAssumption
    <2>2. CASE Reorganise
        BY <2>2, ReorganiseMarket DEF MarketInv, Reorganise
    <2>3. CASE UNCHANGED address /\ (address = NoAddress =>
                  UNCHANGED <<state, proposalVars, challengeVars>>)
        BY <2>3 DEF Pristine, proposalVars, challengeVars
    <2>4. CASE Branch \/ IndexState
        BY <2>4 DEF Branch, IndexState, Pristine, chainVars, marketVars, vars, proposalVars,
            challengeVars
    <2> QED
        BY <2>1, <2>2, <2>3, <2>4, ChainSteps
<1>3. TrunkInv'
    <2>1. CASE Branch
        BY <2>1, BranchTrunk
    <2>2. CASE Reorganise
        BY <2>2 DEF Reorganise, TrunkInv
    <2>3. CASE UNCHANGED trunk
        BY <1>1, <2>3, TrunkStays DEF MarketInv
    <2> QED
        BY <2>1, <2>2, <2>3, ChainSteps
<1> QED
    BY <1>1, <1>2, <1>3

-----------------------------------------------------------------------------
(* A cached row: what it says of any chain, and of the chain it was read on. *)

\* Why a market was cancelled is told by what became of it.
ReasonTold(m) ==
    IF m.state # "CANCELLED" THEN "NONE"
    ELSE IF m.finalOutcome = "INVALID" THEN "RESOLVED_INVALID"
    ELSE IF m.proposalRound = 1 /\ m.challenger # NoAccount THEN "NO_REVIEW"
    ELSE "NO_RESOLUTION"

Coherent(m) == m.cancellationReason = ReasonTold(m)

\* The market c was as m says at some time: rounds are only added, there is one
\* challenge, and its bond is paid out once.
IsPast(m, c) ==
    /\ m.challengeBond = c.challengeBond
    /\ m.proposalRound \in 0 .. c.proposalRound
    /\ m.proposalRound = c.proposalRound => m.challengeEndsAt = c.challengeEndsAt
    /\ m.challenger # NoAccount => m.challenger = c.challenger
    /\ m.challenger = c.challenger =>
          /\ m.challengedAt = c.challengedAt
          /\ c.bondOutstanding => m.bondOutstanding

LEMMA PresentIsCoherent ==
    ASSUME TypeOK, LifecycleInv
    PROVE  Coherent(OnChainMarket) /\ IsPast(OnChainMarket, OnChainMarket)
PROOF
<1>1. Coherent(OnChainMarket)
    BY DEF Coherent, ReasonTold, OnChainMarket, TypeOK, LifecycleInv, ChallengedOnce,
       ResultFollowsState, CancellationReason
<1>2. IsPast(OnChainMarket, OnChainMarket)
    BY DEF IsPast, OnChainMarket, TypeOK, MAX_PROPOSAL_ROUNDS
<1> QED
    BY <1>1, <1>2

\* Rounds are only added, and there is one challenge, which takes the one bond.
LEMMA MarketMovesOn ==
    ASSUME TypeOK, LifecycleInv, [Next]_vars
    PROVE  /\ config' = config
           /\ proposalRound' \in {proposalRound, proposalRound + 1}
           /\ proposalRound' = proposalRound => challengeEndsAt' = challengeEndsAt
           /\ challenger # NoAccount => challenger' = challenger
           /\ challenger' = challenger =>
                 challengedAt' = challengedAt /\ (bondOutstanding' => bondOutstanding)
PROOF
<1> DEFINE Kept == UNCHANGED <<config, proposalRound, challengeEndsAt>>
           Quiet == UNCHANGED <<challenger, challengedAt>> /\ (bondOutstanding' => bondOutstanding)
<1>1. CASE UNCHANGED vars \/ Tick \/ Administer \/ Close
    <2>1. Kept /\ Quiet
        BY <1>1 DEF vars, Tick, Administer, Close, challengeEndsAt, proposalVars, challengeVars,
            bondVars
    <2> QED
        BY <2>1
<1>2. ASSUME NEW a \in Accounts, NEW side \in Outcome, NEW amount \in 0 .. Funds, NEW fee \in Fees,
             Stake(a, side, amount, fee)
      PROVE  Kept /\ Quiet
    BY <1>2 DEF Stake, challengeEndsAt, proposalVars, challengeVars, bondVars
<1>3. ASSUME NEW r \in Resolvers, NEW outcome \in Outcome, NEW hash \in EvidenceHashes \cup {NoHash},
             ProposeResolution(r, outcome, hash)
      PROVE  /\ Quiet /\ UNCHANGED config
             /\ proposalRound' = proposalRound + 1 /\ proposalRound' # proposalRound
    BY <1>3 DEF ProposeResolution, challengeVars, bondVars, TypeOK, MAX_PROPOSAL_ROUNDS
<1>4. ASSUME NEW a \in Accounts, NEW reason \in ReasonHashes \cup {NoHash}, NEW fee \in Fees,
             Challenge(a, reason, fee)
      PROVE  Kept /\ challenger = NoAccount /\ challenger' # challenger
    <2>1. state = "RESOLUTION_PROPOSED" /\ proposalRound = 1
        BY <1>4 DEF Challenge, RoundContestable
    <2>2. challenger = NoAccount
        BY <2>1 DEF LifecycleInv, ChallengedOnce, ResultFollowsState
    <2>3. Kept
        BY <1>4, <2>1 DEF Challenge, challengeEndsAt, proposalVars
    <2> QED
        BY <1>4, <2>2, <2>3, MarketAssumption DEF Challenge, MarketAssumption
<1>5. ASSUME Finalize \/ \E reason \in CancellationReason : Cancel(reason)
      PROVE  Kept /\ Quiet
    <2>1. UNCHANGED <<config, proposalVars, challengeVars>>
        BY <1>5 DEF Finalize, Cancel
    <2>2. bondOutstanding' => bondOutstanding
        BY <1>5 DEF Finalize, Cancel, DoCancel, DecideOutcome
    <2> QED
        BY <2>1, <2>2 DEF challengeEndsAt, proposalVars, challengeVars
<1>6. ASSUME NEW a \in Accounts, Claim(a) \/ WithdrawRefund(a) \/ ClaimChallengeBond(a)
      PROVE  Kept /\ Quiet
    <2>1. UNCHANGED <<config, proposalVars, challengeVars, resultVars>>
        BY <1>6, WithdrawalStates
    <2>2. bondOutstanding' => bondOutstanding
        BY <1>6 DEF Claim, WithdrawRefund, ClaimChallengeBond, bondVars
    <2> QED
        BY <2>1, <2>2 DEF challengeEndsAt, proposalVars, challengeVars, resultVars
<1> QED
    BY <1>1, <1>2, <1>3, <1>4, <1>5, <1>6 DEF Next

LEMMA PastStaysPast ==
    ASSUME TypeOK, LifecycleInv, [Next]_vars, NEW m, IsPast(m, OnChainMarket)
    PROVE  IsPast(m, OnChainMarket')
PROOF
<1>1. proposalRound \in Nat /\ m.proposalRound \in 0 .. proposalRound
    BY DEF TypeOK, IsPast, OnChainMarket, MAX_PROPOSAL_ROUNDS
<1>2. m.proposalRound \in 0 .. proposalRound'
    BY <1>1, MarketMovesOn
<1>3. m.proposalRound = proposalRound' => m.challengeEndsAt = challengeEndsAt'
    BY <1>1, MarketMovesOn DEF IsPast, OnChainMarket
<1>4. m.challengeBond = config.challengeBond'
    BY MarketMovesOn DEF IsPast, OnChainMarket
<1>5. /\ m.challenger # NoAccount => m.challenger = challenger'
      /\ m.challenger = challenger' =>
            m.challengedAt = challengedAt' /\ (bondOutstanding' => m.bondOutstanding)
    BY MarketMovesOn DEF IsPast, OnChainMarket
<1> QED
    BY <1>2, <1>3, <1>4, <1>5 DEF IsPast, OnChainMarket

\* What the chain has of the market once the branch is dropped, as far as IsPast goes.
TrunkMarket ==
    [ challengeBond |-> trunk.config.challengeBond, proposalRound |-> trunk.proposalRound,
      challengeEndsAt |-> Trunk!challengeEndsAt, challenger |-> trunk.challenger,
      challengedAt |-> trunk.challengedAt, bondOutstanding |-> trunk.bondOutstanding ]

\* A row read on the chain is of its market's past, whatever branch it is on now.
CachedInv ==
    cached # NoRow =>
        /\ Coherent(cached.market)
        /\ ~cached.onBranch =>
              IF trunk = NoRow
                THEN address # NoAddress /\ IsPast(cached.market, OnChainMarket)
                ELSE trunk.address # NoAddress /\ IsPast(cached.market, TrunkMarket)

LEMMA NextCached ==
    ASSUME ChainInv, CachedInv, [ReconcilerNext]_reconcilerVars
    PROVE  CachedInv'
PROOF
<1> USE DEF ChainInv, MarketInv
<1>1. CASE IndexState /\ UNCHANGED <<marketVars, address, trunk>>
    <2>1. OnChainMarket' = OnChainMarket
        BY <1>1 DEF marketVars, vars, OnChainMarket, pool, challengeEndsAt, proposalVars,
            challengeVars, bondVars, resultVars, stakeVars
    <2>2. /\ cached'.market = OnChainMarket /\ cached'.onBranch = (trunk # NoRow)
          /\ address # NoAddress
        BY <1>1 DEF IndexState
    <2>3. Coherent(cached'.market) /\ IsPast(cached'.market, OnChainMarket')
        BY <2>1, <2>2, PresentIsCoherent
    <2> QED
        BY <1>1, <2>2, <2>3 DEF CachedInv, Coherent, ReasonTold
<1>2. CASE UNCHANGED cached
    <2> SUFFICES ASSUME cached # NoRow
                 PROVE  CachedInv'
        BY <1>2 DEF CachedInv
    <2>1. Coherent(cached'.market)
        BY <1>2 DEF CachedInv
    <2> SUFFICES ASSUME ~cached.onBranch
                 PROVE  IF trunk' = NoRow
                          THEN address' # NoAddress /\ IsPast(cached.market, OnChainMarket')
                          ELSE trunk'.address # NoAddress /\ IsPast(cached.market, TrunkMarket')
        BY <1>2, <2>1 DEF CachedInv, Coherent, ReasonTold
    <2>2. CASE Branch
        <3>1. /\ trunk = NoRow /\ address' = address /\ OnChainMarket' = OnChainMarket
              /\ trunk'.address = address
            BY <2>2 DEF Branch, marketVars, vars, OnChainMarket, pool, challengeEndsAt,
                proposalVars, challengeVars, bondVars, resultVars, stakeVars
        <3>2. /\ TrunkMarket'.challengeBond = OnChainMarket.challengeBond
              /\ TrunkMarket'.proposalRound = OnChainMarket.proposalRound
              /\ TrunkMarket'.challengeEndsAt = OnChainMarket.challengeEndsAt
              /\ TrunkMarket'.challenger = OnChainMarket.challenger
              /\ TrunkMarket'.challengedAt = OnChainMarket.challengedAt
              /\ TrunkMarket'.bondOutstanding = OnChainMarket.bondOutstanding
            BY <2>2 DEF Branch, TrunkMarket, Trunk!challengeEndsAt, OnChainMarket, challengeEndsAt
        <3> QED
            BY <3>1, <3>2 DEF CachedInv, IsPast
    <2>3. CASE Reorganise
        <3>1. trunk # NoRow /\ trunk' = NoRow /\ address' = trunk.address
            BY <2>3 DEF Reorganise
        <3>2. /\ TrunkMarket.challengeBond = OnChainMarket'.challengeBond
              /\ TrunkMarket.proposalRound = OnChainMarket'.proposalRound
              /\ TrunkMarket.challengeEndsAt = OnChainMarket'.challengeEndsAt
              /\ TrunkMarket.challenger = OnChainMarket'.challenger
              /\ TrunkMarket.challengedAt = OnChainMarket'.challengedAt
              /\ TrunkMarket.bondOutstanding = OnChainMarket'.bondOutstanding
            BY <2>3 DEF Reorganise, TrunkMarket, Trunk!challengeEndsAt, OnChainMarket,
                challengeEndsAt
        <3> QED
            BY <3>1, <3>2 DEF CachedInv, IsPast
    <2>4. CASE UNCHANGED trunk /\ trunk # NoRow
        <3>1. TrunkMarket' = TrunkMarket
            BY <2>4 DEF TrunkMarket, Trunk!challengeEndsAt
        <3> QED
            BY <2>4, <3>1 DEF CachedInv
    <2>5. CASE UNCHANGED trunk /\ trunk = NoRow /\ ~Reorganise
        <3>1. address # NoAddress /\ IsPast(cached.market, OnChainMarket)
            BY <2>5 DEF CachedInv
        <3>2. ~Open /\ address' = address
            BY <2>5, <3>1, ChainSteps DEF Open, Branch
        <3>3. IsPast(cached.market, OnChainMarket')
            BY <2>5, <3>1, <3>2, StepsAreMarketSteps, PastStaysPast
        <3> QED
            BY <2>5, <3>1, <3>2, <3>3
    <2> QED
        BY <2>2, <2>3, <2>4, <2>5, ChainSteps DEF IndexState, chainVars
<1> QED
    BY <1>1, <1>2, ChainSteps


-----------------------------------------------------------------------------
(* The tables. *)

TablesInv ==
    /\ packages \in [EvidenceHashes -> {"none", "held", "altered", "foreign"}]
    /\ Registered =>
          row = [status |-> row.status, address |-> row.address, intact |-> row.intact]
    /\ Registered /\ ~statusDue => row.status \in {"PENDING_ONCHAIN", cached.market.state}

LEMMA NextTables ==
    ASSUME TablesInv, [ReconcilerNext]_reconcilerVars
    PROVE  TablesInv'
PROOF
<1> USE DEF TablesInv, Registered
<1>1. CASE UNCHANGED reconcilerVars
    BY <1>1 DEF reconcilerVars, tableVars
<1>2. CASE Run
    BY <1>2 DEF Run, Begin, ListMarkets, FindMarket, ReadMarket, ReadPackage, ReadCached,
        ReadBalance, FindUnknown, Exit, Found, tableVars
<1>3. CASE Register
    BY <1>3 DEF Register
<1>4. CASE Open \/ OtherMarketStep \/ Branch \/ Reorganise
        \/ (Tick /\ UNCHANGED <<address, trunk, branchLength, tableVars, runVars, moves, mishaps>>)
    BY <1>4 DEF Open, OtherMarketStep, Branch, Reorganise, tableVars
<1>5. CASE IndexCreation
    BY <1>5 DEF IndexCreation
<1>6. CASE IndexState \/ IndexStatus
    BY <1>6 DEF IndexState, IndexStatus
<1>7. CASE Propose
    BY <1>7 DEF Propose
<1>8. CASE Damage
    BY <1>8 DEF Damage
<1> QED
    BY <1>1, <1>2, <1>3, <1>4, <1>5, <1>6, <1>7, <1>8 DEF ReconcilerNext, Environment

-----------------------------------------------------------------------------
(* The balance, read last, is never too small for the contract read first. *)

\* A product that covers a product: whoever holds a share of the pool holds something.
LEMMA CoveredShare ==
    ASSUME NEW r \in Nat, NEW p \in Nat \ {0}, NEW d \in Int, NEW t \in Nat \ {0}, r * p <= d * t
    PROVE  d >= 0 /\ (r > 0 => d > 0)
PROOF
<1>1. r * p \in Nat /\ (r > 0 => r * p > 0)
    OBVIOUS
<1>2. d < 0 => d * t < 0
    OBVIOUS
<1>3. d = 0 => d * t = 0
    OBVIOUS
<1>4. d * t \in Int
    OBVIOUS
<1> QED
    BY <1>1, <1>2, <1>3, <1>4

\* What readMarket() returned, if nothing has changed since.
Reading == [ market |-> OnChainMarket, address |-> address,
             remainingClaimableStake |-> remainingClaimableStake ]

LEMMA BalanceSuffices ==
    ASSUME TypeOK, LifecycleInv, FullyBacked, NothingClaimableYet, onChain = Reading
    PROVE  ~Underfunded
PROOF
<1> DEFINE bond == IF bondOutstanding THEN config.challengeBond ELSE 0
<1>1. /\ onChain.market.refundMode = refundMode
      /\ onChain.remainingClaimableStake = remainingClaimableStake
      /\ Owed = bond + (IF refundMode THEN remainingClaimableStake ELSE 0)
    BY DEF Reading, OnChainMarket, Owed
<1>2. /\ held \in Nat /\ remainingClaimableStake \in Nat /\ totalYes \in Nat /\ totalNo \in Nat
      /\ bond \in Nat /\ bond = BondHeld
    BY DEF TypeOK, Params, BondHeld
<1> HIDE DEF bond
<1>3. CASE refundMode
    BY <1>1, <1>2, <1>3 DEF FullyBacked, Underfunded
<1>4. CASE ~refundMode /\ ~Resolved
    <2>1. held = totalYes + totalNo + bond /\ remainingClaimableStake = 0
        BY <1>2, <1>4 DEF FullyBacked, NothingClaimableYet
    <2> QED
        BY <1>1, <1>2, <1>4, <2>1 DEF Underfunded
<1>5. CASE ~refundMode /\ Resolved
    <2>1. /\ TotalOn(finalOutcome) \in Nat \ {0}
          /\ pool \in Nat \ {0}
        BY <1>5, ResolvedMarket
    <2>2. remainingClaimableStake * pool <= (held - bond) * TotalOn(finalOutcome)
        BY <1>2, <1>5 DEF FullyBacked
    <2>3. held - bond >= 0 /\ (remainingClaimableStake > 0 => held - bond > 0)
        BY <1>2, <2>1, <2>2, CoveredShare
    <2> QED
        BY <1>1, <1>2, <1>5, <2>3 DEF Underfunded
<1> QED
    BY <1>3, <1>4, <1>5


-----------------------------------------------------------------------------
(* The report as a function of tables and contract.                          *)

\* findMarketByRulesHash() finds the market where the tables have it, or have not yet.
Reached == address # NoAddress /\ row.address \in {address, NoAddress}

AddressReport ==
    IF address = NoAddress
      THEN IF row.status = "PENDING_ONCHAIN" THEN {} ELSE {"market-absent-on-chain"}
    ELSE IF row.address \notin {address, NoAddress} THEN {"market-address-mismatch"}
    ELSE IF row.address = NoAddress THEN {"market-address-not-indexed"} ELSE {}

SpecificationReport == IF row.intact THEN {} ELSE {"rules-hash-not-reproducible"}

PackageReport == IF evidenceHash = NoHash THEN {} ELSE PackageFindings(evidenceHash)

CacheReport ==
    IF ~CachedAt(address) THEN {"chain-state-missing"}
    ELSE IF StaleFields(OnChainMarket, cached.market) = {} THEN {} ELSE {"chain-state-stale"}

Report ==
    AddressReport \cup
      (IF Reached THEN SpecificationReport \cup PackageReport \cup CacheReport ELSE {})

\* How far a run that nothing disturbs has come with it.
Progress ==
    /\ pc \in {"idle", "list"} => findings = {}
    /\ pc = "find" => Registered /\ listed = row /\ findings = {}
    /\ pc = "read" =>
          Registered /\ Reached /\ listed = row /\ onChain = address /\ findings = AddressReport
    /\ pc = "package" =>
          /\ Registered /\ Reached /\ onChain = Reading /\ evidenceHash # NoHash
          /\ findings = AddressReport \cup SpecificationReport
    /\ pc = "cached" =>
          /\ Registered /\ Reached /\ onChain = Reading
          /\ findings = AddressReport \cup SpecificationReport \cup PackageReport
    /\ pc = "balance" => Registered /\ Reached /\ onChain = Reading /\ findings = Report
    /\ pc = "unknown" => findings = IF Registered THEN Report ELSE {}
    /\ pc = "done" =>
          IF Registered THEN findings = Report ELSE findings \subseteq {"unknown-specification"}

RunInv ==
    /\ pc \in {"idle", "list", "find", "read", "package", "cached", "balance", "unknown", "done"}
    /\ moves \in Nat
    /\ pc = "idle" => findings = {}
    /\ pc # "idle" => trunk = NoRow
    /\ moves = 0 => Progress

\* What the report depends on.  The clock is not part of it.
inView == << config, state, proposalVars, challengeVars, bondVars, resultVars, stakeVars,
             claimVars, address, tableVars >>

\* The report is the same while what it depends on is.
LEMMA ReportUnchanged ==
    ASSUME UNCHANGED inView
    PROVE  /\ Reached' = Reached /\ Registered' = Registered /\ Reading' = Reading
           /\ AddressReport' = AddressReport
           /\ SpecificationReport' = SpecificationReport
           /\ PackageReport' = PackageReport
           /\ CacheReport' = CacheReport
           /\ Report' = Report
           /\ UNCHANGED <<row, address, evidenceHash>>
PROOF
<1>1. /\ UNCHANGED <<config, state, address, row, packages, cached, remainingClaimableStake>>
      /\ UNCHANGED <<totalYes, totalNo, forfeitedBond, proposedOutcome, evidenceHash, proposedAt>>
      /\ UNCHANGED <<finalOutcome, cancellationReason, proposalRound, refundMode, challenger,
                     challengedAt, bondOutstanding>>
    BY DEF inView, proposalVars, challengeVars, bondVars, resultVars, stakeVars, claimVars, tableVars
<1>2. OnChainMarket' = OnChainMarket
    BY <1>1 DEF OnChainMarket, pool, challengeEndsAt
<1>3. Reading' = Reading
    BY <1>1, <1>2 DEF Reading
<1>4. Reached' = Reached /\ Registered' = Registered
    BY <1>1 DEF Reached, Registered
<1>5. AddressReport' = AddressReport /\ SpecificationReport' = SpecificationReport
    BY <1>1 DEF AddressReport, SpecificationReport
<1>6. PackageReport' = PackageReport
    BY <1>1 DEF PackageReport, PackageFindings
<1>7. CacheReport' = CacheReport
    BY <1>1, <1>2 DEF CacheReport, CachedAt, StaleFields
<1>8. Report' = Report
    BY <1>4, <1>5, <1>6, <1>7 DEF Report
<1> QED
    BY <1>1, <1>3, <1>4, <1>5, <1>6, <1>7, <1>8

\* Each read adds what it finds: the step that ends a stage reaches the next one's report.
LEMMA RunProgress ==
    ASSUME MarketInv, RunInv, Run
    PROVE  RunInv'
PROOF
<1>1. CASE Begin
    BY <1>1 DEF Begin, RunInv, Progress, Idle, Goto, chainVars
<1>2. CASE Exit
    BY <1>2 DEF Exit, RunInv, Progress, Goto
<1>3. CASE ~Begin /\ ~Exit
    <2>1. UNCHANGED <<inView, trunk, moves>>
        BY <1>3 DEF Run, ListMarkets, FindMarket, ReadMarket, ReadPackage, ReadCached, ReadBalance,
            FindUnknown, Found, inView, chainVars, marketVars, vars
    <2>2. /\ pc' \in {"find", "read", "package", "cached", "balance", "unknown", "done"}
          /\ moves' \in Nat /\ trunk' = NoRow
        BY <1>3, <2>1 DEF Run, ListMarkets, FindMarket, ReadMarket, ReadPackage, ReadCached, ReadBalance,
            FindUnknown, Goto, RunInv
    <2> SUFFICES ASSUME Progress
                 PROVE  Progress'
        BY <2>1, <2>2 DEF RunInv
    <2>3. /\ Reached' = Reached /\ Registered' = Registered /\ Reading' = Reading
          /\ AddressReport' = AddressReport
          /\ SpecificationReport' = SpecificationReport
          /\ PackageReport' = PackageReport
          /\ CacheReport' = CacheReport
          /\ Report' = Report
          /\ UNCHANGED <<row, address, evidenceHash>>
        BY <2>1, ReportUnchanged
    <2>4. CASE ListMarkets
        BY <2>3, <2>4 DEF ListMarkets, Goto, Found, Progress, Registered
    <2>5. CASE FindMarket
        BY <2>3, <2>5 DEF FindMarket, Goto, Found, Progress, Registered, Reached, AddressReport, Report
    <2>6. CASE ReadMarket
        <3>1. onChain' = Reading
            BY <2>6 DEF ReadMarket, Progress, Reading
        <3>2. findings' = AddressReport \cup SpecificationReport
            BY <2>6 DEF ReadMarket, Progress, Found, SpecificationReport
        <3>3. evidenceHash = NoHash => PackageReport = {}
            BY DEF PackageReport
        <3>4. pc' = IF evidenceHash = NoHash THEN "cached" ELSE "package"
            BY <2>6 DEF ReadMarket, Goto
        <3>5. Registered /\ Reached
            BY <2>6 DEF ReadMarket, Progress
        <3> QED
            BY <2>3, <3>1, <3>2, <3>3, <3>4, <3>5 DEF Progress
    <2>7. CASE ReadPackage
        <3>1. /\ pc = "package" /\ pc' = "cached" /\ onChain' = onChain
              /\ findings' = findings \cup PackageFindings(onChain.market.evidenceHash)
            BY <2>7 DEF ReadPackage, Goto, Found
        <3>2. /\ Registered /\ Reached /\ onChain = Reading /\ evidenceHash # NoHash
              /\ findings = AddressReport \cup SpecificationReport
            BY <3>1 DEF Progress
        <3>3. PackageFindings(onChain.market.evidenceHash) = PackageReport
            BY <3>2 DEF Reading, OnChainMarket, PackageReport
        <3> QED
            BY <2>3, <3>1, <3>2, <3>3 DEF Progress
    <2>8. CASE ReadCached
        BY <2>3, <2>8 DEF ReadCached, Goto, Found, Progress, CacheReport, Report, Reading
    <2>9. CASE ReadBalance
        <3>1. ~Underfunded
            BY <2>9, BalanceSuffices DEF ReadBalance, Progress, MarketInv
        <3> QED
            BY <2>3, <2>9, <3>1 DEF ReadBalance, Goto, Found, Progress
    <2>10. CASE FindUnknown
        BY <2>3, <2>10 DEF FindUnknown, Goto, Found, Progress
    <2> QED
        BY <1>3, <2>4, <2>5, <2>6, <2>7, <2>8, <2>9, <2>10 DEF Run
<1> QED
    BY <1>1, <1>2, <1>3

LEMMA NextRun == MarketInv /\ RunInv /\ [ReconcilerNext]_reconcilerVars => RunInv'
PROOF
<1> SUFFICES ASSUME MarketInv, RunInv, [ReconcilerNext]_reconcilerVars
             PROVE  RunInv'
    OBVIOUS
<1>1. CASE Run
    BY <1>1, RunProgress
<1>2. CASE Environment /\ Disturbs
    <2>1. UNCHANGED runVars
        BY <1>2 DEF Environment
    <2>2. moves' \in Nat /\ (moves' = 0 => pc = "idle")
        BY <1>2 DEF Disturbs, Idle, RunInv
    <2>3. pc # "idle" => trunk' = NoRow
        <3>1. trunk' = trunk \/ Branch \/ Reorganise
            BY ChainSteps DEF Open, IndexState
        <3> QED
            BY <3>1 DEF RunInv, Branch, Idle, Reorganise
    <2> QED
        BY <2>1, <2>2, <2>3 DEF runVars, RunInv, Progress
<1>3. CASE \/ UNCHANGED reconcilerVars
           \/ /\ Tick
              /\ UNCHANGED <<address, trunk, branchLength, tableVars, runVars, moves, mishaps>>
    <2>1. UNCHANGED <<inView, trunk, runVars, moves>>
        BY <1>3 DEF reconcilerVars, chainVars, marketVars, vars, Tick, inView
    <2>2. /\ Reached' = Reached /\ Registered' = Registered /\ Reading' = Reading
          /\ AddressReport' = AddressReport
          /\ SpecificationReport' = SpecificationReport
          /\ PackageReport' = PackageReport
          /\ Report' = Report
          /\ UNCHANGED <<row, address, evidenceHash>>
        BY <2>1, ReportUnchanged
    <2> QED
        BY <2>1, <2>2 DEF runVars, RunInv, Progress
<1> QED
    BY <1>1, <1>2, <1>3 DEF ReconcilerNext, Environment

-----------------------------------------------------------------------------
(* What a report says. *)

ReconcilerInv == ChainInv /\ CachedInv /\ TablesInv /\ RunInv

LEMMA ReconcilerAlways == ReconcilerSpec => []ReconcilerInv
PROOF
<1>1. ReconcilerInit => ReconcilerInv
    <2> SUFFICES ASSUME ReconcilerInit
                 PROVE  ReconcilerInv
        OBVIOUS
    <2>1. MarketInv
        BY InitMarket DEF ReconcilerInit
    <2>2. Pristine
        BY DEF ReconcilerInit, Init, Pristine
    <2>3. TrunkInv /\ CachedInv /\ TablesInv /\ RunInv
        BY DEF ReconcilerInit, TrunkInv, CachedInv, TablesInv, Registered, RunInv, Progress
    <2> QED
        BY <2>1, <2>2, <2>3 DEF ReconcilerInv, ChainInv
<1>2. ReconcilerInv /\ [ReconcilerNext]_reconcilerVars => ReconcilerInv'
    BY NextChain, NextCached, NextTables, NextRun DEF ReconcilerInv, ChainInv
<1> QED
    BY <1>1, <1>2, PTL DEF ReconcilerSpec

\* Nothing a stage reports is a warning.
LEMMA HealthyReportIsEmpty ==
    ASSUME TypeOK, TablesInv, \A kind \in Report : Severity(kind) = "warning"
    PROVE  Report = {}
PROOF
<1>1. evidenceHash # NoHash =>
         packages[evidenceHash] \in {"none", "held", "altered", "foreign"}
    BY DEF TypeOK, TablesInv
<1>2. "unknown-specification" \notin Report
    BY <1>1 DEF Report, AddressReport, SpecificationReport, PackageReport, PackageFindings,
       CacheReport
<1>3. \A kind : Severity(kind) = "warning" => kind = "unknown-specification"
    BY DEF Severity
<1> QED
    BY <1>2, <1>3

\* A past moment that agrees with the present in what is compared agrees in what the
\* round, the challenger and the state settle.
LEMMA ComparedSettles ==
    ASSUME TypeOK, LifecycleInv, AgreesIn(Compared), Coherent(cached.market)
    PROVE  /\ AgreesIn({"cancellationReason"})
           /\ IsPast(cached.market, OnChainMarket) =>
                 /\ AgreesIn({"challengeBond", "challengeEndsAt", "challengedAt"})
                 /\ bondOutstanding => cached.market.bondOutstanding
PROOF
<1>1. \A f \in Compared : cached.market[f] = OnChainMarket[f]
    BY DEF AgreesIn
<1>2. /\ cached.market.state = OnChainMarket.state
      /\ cached.market.finalOutcome = OnChainMarket.finalOutcome
      /\ cached.market.proposalRound = OnChainMarket.proposalRound
      /\ cached.market.challenger = OnChainMarket.challenger
    BY <1>1 DEF Compared
<1>3. Coherent(OnChainMarket)
    BY PresentIsCoherent
<1>4. cached.market.cancellationReason = OnChainMarket.cancellationReason
    BY <1>2, <1>3 DEF Coherent, ReasonTold
<1>5. ASSUME IsPast(cached.market, OnChainMarket)
      PROVE  /\ AgreesIn({"challengeBond", "challengeEndsAt", "challengedAt"})
             /\ bondOutstanding => cached.market.bondOutstanding
    BY <1>2, <1>5 DEF IsPast, AgreesIn, OnChainMarket
<1> QED
    BY <1>4, <1>5 DEF AgreesIn

\* A run that nothing disturbed and that reports the listed market healthy vouches for
\* what it compared and what that settles: the row names the market's own address, its
\* specification still has its hash, the package is the one the contract points to, and
\* the cached row agrees with the contract in all that is compared and in the reason of
\* a cancellation; if it was not read on a branch the chain has dropped, in the bond
\* and the two instants of the challenge as well (reconcile.ts, reconcileMarket()).
THEOREM HealthyReportsAreTruthful == ReconcilerSpec => []HealthyIsTruthful
PROOF
<1>1. ASSUME ReconcilerInv, pc = "done", Undisturbed, Registered, healthy
      PROVE  RestTruthful /\ (address # NoAddress => CacheTruthful)
    <2>0. TypeOK /\ LifecycleInv
        BY <1>1 DEF ReconcilerInv, ChainInv, MarketInv
    <2>1. findings = Report
        BY <1>1 DEF ReconcilerInv, RunInv, Progress, Undisturbed
    <2>2. Report = {}
        BY <1>1, <2>0, <2>1, HealthyReportIsEmpty DEF healthy, ReconcilerInv
    <2>3. CASE address = NoAddress
        BY <2>2, <2>3 DEF Report, AddressReport, RestTruthful
    <2>4. CASE address # NoAddress
        <3>1. Reached /\ row.address = address
            BY <2>2, <2>4 DEF Report, AddressReport, Reached
        <3>2. SpecificationReport = {} /\ PackageReport = {} /\ CacheReport = {}
            BY <2>2, <3>1 DEF Report
        <3>3. row.intact
            BY <3>2 DEF SpecificationReport
        <3>4. evidenceHash # NoHash => packages[evidenceHash] = "held"
            BY <1>1, <2>0, <3>2 DEF PackageReport, PackageFindings, ReconcilerInv, TablesInv, TypeOK
        <3>5. CachedAt(address) /\ AgreesIn(Compared)
            BY <3>2 DEF CacheReport, StaleFields, AgreesIn
        <3>6. /\ Coherent(cached.market)
              /\ ~cached.onBranch => IsPast(cached.market, OnChainMarket)
            BY <1>1, <3>5 DEF CachedAt, ReconcilerInv, CachedInv, RunInv
        <3>7. /\ AgreesIn(Compared \cup {"cancellationReason"})
              /\ ~cached.onBranch =>
                    /\ AgreesIn({"challengeBond", "challengeEndsAt", "challengedAt"})
                    /\ bondOutstanding => cached.market.bondOutstanding
            BY <2>0, <3>5, <3>6, ComparedSettles DEF AgreesIn
        <3>8. statusDue \/ row.status \in {"PENDING_ONCHAIN", state}
            BY <1>1, <3>5 DEF ReconcilerInv, TablesInv, AgreesIn, Compared, OnChainMarket
        <3> QED
            BY <2>4, <3>1, <3>3, <3>4, <3>5, <3>7, <3>8 DEF RestTruthful, CacheTruthful
    <2> QED
        BY <2>3, <2>4
<1>2. ReconcilerInv => HealthyIsTruthful
    BY <1>1 DEF HealthyIsTruthful
<1> QED
    BY <1>2, ReconcilerAlways, PTL

\* A run that nothing disturbed raises no alarm without a cause: on tables that show
\* what is so it reports every market healthy, and it calls none underfunded, whatever
\* has been withdrawn, settled or refunded (reconcile.ts, readTokenBalance).
THEOREM NoAlarmIsFalse == ReconcilerSpec => []NoFalseAlarm
PROOF
<1>1. ASSUME ReconcilerInv, pc = "done", Undisturbed
      PROVE  "market-underfunded" \notin findings
    <2>1. IF Registered THEN findings = Report ELSE findings \subseteq {"unknown-specification"}
        BY <1>1 DEF ReconcilerInv, RunInv, Progress, Undisturbed
    <2>2. evidenceHash # NoHash =>
             packages[evidenceHash] \in {"none", "held", "altered", "foreign"}
        BY <1>1 DEF ReconcilerInv, ChainInv, MarketInv, TypeOK, TablesInv
    <2>3. "market-underfunded" \notin Report
        BY <2>2 DEF Report, AddressReport, SpecificationReport, PackageReport, PackageFindings,
            CacheReport
    <2> QED
        BY <2>1, <2>3
<1>2. ASSUME ReconcilerInv, pc = "done", Undisturbed, Registered, RestTruthful,
             address # NoAddress => AgreesIn(Compared)
      PROVE  healthy
    <2>1. findings = Report
        BY <1>1, <1>2 DEF ReconcilerInv, RunInv, Progress, Undisturbed
    <2>2. CASE address = NoAddress
        BY <1>2, <2>1, <2>2 DEF RestTruthful, Report, AddressReport, Reached, healthy
    <2>3. CASE address # NoAddress
        <3>1. /\ row.intact /\ row.address = address /\ CachedAt(address)
              /\ evidenceHash # NoHash => packages[evidenceHash] = "held"
            BY <1>2, <2>3 DEF RestTruthful
        <3>2. StaleFields(OnChainMarket, cached.market) = {}
            BY <1>2, <2>3 DEF StaleFields, AgreesIn
        <3>3. AddressReport = {}
            BY <2>3, <3>1 DEF AddressReport
        <3>4. SpecificationReport = {} /\ PackageReport = {} /\ CacheReport = {}
            BY <3>1, <3>2 DEF SpecificationReport, PackageReport, PackageFindings, CacheReport
        <3> QED
            BY <2>1, <3>3, <3>4 DEF Report, healthy
    <2> QED
        BY <2>2, <2>3
<1>3. ReconcilerInv => NoFalseAlarm
    BY <1>1, <1>2 DEF NoFalseAlarm
<1> QED
    BY <1>3, ReconcilerAlways, PTL

=============================================================================
