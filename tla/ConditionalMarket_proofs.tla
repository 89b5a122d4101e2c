----------------------- MODULE ConditionalMarket_proofs -----------------------
(***************************************************************************)
(* Theorems about ConditionalMarket, for every set of accounts, every      *)
(* amount and every configuration initialize() accepts: its lifecycle,     *)
(* its money (what it holds, what it owes, what rounding leaves), and that *)
(* it implements an escrow.                                                *)
(***************************************************************************)
EXTENDS MarketImplementsEscrow, FiniteSums_proofs, TLAPS


-----------------------------------------------------------------------------
(* Type correctness. *)

\* A step that leaves the configuration and both instants alone moves no deadline.
LEMMA DeadlinesStillFit ==
  ASSUME TypeOK, UNCHANGED <<config, proposedAt, challengedAt>>
  PROVE  DeadlinesFit'
  BY DEF TypeOK, DeadlinesFit, resolutionDeadline, challengeEndsAt, reviewDeadline

LEMMA InitTypeOK == Init => TypeOK
<1> SUFFICES ASSUME Init PROVE TypeOK
  OBVIOUS
<1>1. /\ config \in Params
      /\ config.tradingEndsAt > 0
      /\ config.challengeWindow \in MIN_CHALLENGE_WINDOW .. MAX_CHALLENGE_WINDOW
      /\ config.resolutionWindow \in MIN_RESOLUTION_WINDOW .. MAX_RESOLUTION_WINDOW
      /\ config.conditionDeadline >= config.tradingEndsAt
      /\ DeadlinesFit
  BY MarketAssumption DEF MarketAssumption, Init, AcceptsParams, FitsTimestamp, DeadlinesFit,
     resolutionDeadline, challengeEndsAt, reviewDeadline
<1>2. /\ wallet \in [Accounts -> Nat]
      /\ yesStake \in [Accounts -> Nat]
      /\ noStake \in [Accounts -> Nat]
      /\ hasClaimed \in [Accounts -> BOOLEAN]
  BY MarketAssumption DEF MarketAssumption, Init
<1>3. now \in 0 .. MAX_TIMESTAMP /\ proposers \in SUBSET Resolvers
  BY MarketAssumption DEF MarketAssumption, Init
<1>4. /\ proposedAt \in 0 .. now /\ challengedAt \in 0 .. now
      /\ finalizedAt \in 0 .. now /\ proposalRound \in 0 .. MAX_PROPOSAL_ROUNDS
      /\ held \in Nat /\ forfeitedBond \in Nat /\ totalYes \in Nat
      /\ totalNo \in Nat /\ remainingClaimableStake \in Nat
  BY DEF Init, MAX_PROPOSAL_ROUNDS
<1>5. /\ state \in State /\ proposedOutcome \in Outcome
      /\ challengedOutcome \in Outcome /\ finalOutcome \in Outcome
      /\ cancellationReason \in CancellationReason
      /\ paused \in BOOLEAN /\ refundMode \in BOOLEAN
      /\ bondOutstanding \in BOOLEAN /\ bondRefundable \in BOOLEAN
  BY DEF Init, State, Outcome, CancellationReason
<1>6. /\ evidenceHash \in EvidenceHashes \cup {NoHash}
      /\ challenger \in Accounts \cup {NoAccount}
      /\ challengeReasonHash \in ReasonHashes \cup {NoHash}
  BY DEF Init
<1>7. QED
  BY <1>1, <1>2, <1>3, <1>4, <1>5, <1>6 DEF TypeOK

LEMMA TickTypeOK == TypeOK /\ Tick => TypeOK'
  BY MarketAssumption, DeadlinesStillFit
  DEF MarketAssumption, TypeOK, Tick, factoryVars, tokenVars, proposalVars,
      challengeVars, bondVars, resultVars, stakeVars, claimVars

LEMMA StakeTypeOK ==
  ASSUME TypeOK, NEW a \in Accounts, NEW side \in Outcome,
         NEW amount \in 0 .. Funds, NEW fee \in Fees,
         Stake(a, side, amount, fee)
  PROVE  TypeOK'
  BY MarketAssumption, DeadlinesStillFit
  DEF MarketAssumption, TypeOK, Stake, TransferIn, ReceivedInFull, factoryVars,
      proposalVars, challengeVars, bondVars, resultVars, claimVars

LEMMA ProposeTypeOK ==
  ASSUME TypeOK, NEW r \in Resolvers, NEW outcome \in Outcome,
         NEW hash \in EvidenceHashes \cup {NoHash},
         ProposeResolution(r, outcome, hash)
  PROVE  TypeOK'
<1>1. DeadlinesFit'
  BY DEF TypeOK, ProposeResolution, FitsTimestamp, DeadlinesFit, resolutionDeadline,
         challengeEndsAt, reviewDeadline, challengeVars
<1>2. QED
  BY <1>1, MarketAssumption
  DEF MarketAssumption, TypeOK, ProposeResolution, State, MAX_PROPOSAL_ROUNDS,
      factoryVars, tokenVars, challengeVars, bondVars, resultVars, stakeVars, claimVars

LEMMA ChallengeTypeOK ==
  ASSUME TypeOK, NEW a \in Accounts, NEW reason \in ReasonHashes \cup {NoHash},
         NEW fee \in Fees, Challenge(a, reason, fee)
  PROVE  TypeOK'
<1>1. config.challengeBond \in Nat
  BY DEF TypeOK, Params
<1>2. /\ wallet' \in [Accounts -> Nat] /\ held' \in Nat
      /\ bondOutstanding' \in BOOLEAN
  <2>1. CASE config.challengeBond > 0
    <3>1. /\ bondOutstanding'
          /\ TransferIn(a, config.challengeBond, fee)
      BY <2>1 DEF Challenge
    <3>2. fee \in Nat /\ held \in Nat /\ wallet \in [Accounts -> Nat]
      BY MarketAssumption DEF MarketAssumption, TypeOK
    <3>3. QED
      BY <1>1, <3>1, <3>2 DEF TransferIn, ReceivedInFull
  <2>2. CASE ~(config.challengeBond > 0)
    BY <2>2 DEF TypeOK, Challenge, tokenVars
  <2>3. QED
    BY <2>1, <2>2
<1>3. /\ challenger' \in Accounts \cup {NoAccount}
      /\ challengeReasonHash' \in ReasonHashes \cup {NoHash}
      /\ challengedOutcome' \in Outcome /\ challengedAt' \in 0 .. now
      /\ state' \in State
  BY DEF TypeOK, Challenge, State
<1>4. DeadlinesFit'
  BY DEF TypeOK, Challenge, FitsTimestamp, DeadlinesFit, resolutionDeadline, challengeEndsAt,
         reviewDeadline, proposalVars
<1>5. QED
  BY <1>2, <1>3, <1>4
  DEF TypeOK, Challenge, factoryVars, proposalVars, resultVars, stakeVars, claimVars

LEMMA SettleIfExhaustedType ==
  ASSUME NEW s \in State, NEW remaining, NEW bond
  PROVE  SettleIfExhausted(s, remaining, bond) \in State
  BY DEF SettleIfExhausted, State

LEMMA DoCancelTypeOK ==
  ASSUME TypeOK, NEW reason \in CancellationReason, DoCancel(reason)
  PROVE  /\ state' \in State /\ cancellationReason' \in CancellationReason
         /\ refundMode' \in BOOLEAN /\ remainingClaimableStake' \in Nat
         /\ bondOutstanding' \in BOOLEAN /\ bondRefundable' \in BOOLEAN
         /\ forfeitedBond' \in Nat
  BY DEF TypeOK, DoCancel, State

LEMMA DecideOutcomeTypeOK ==
  ASSUME TypeOK, NEW outcome \in {"YES", "NO"}, DecideOutcome(outcome)
  PROVE  /\ state' \in State /\ cancellationReason' \in CancellationReason
         /\ refundMode' \in BOOLEAN /\ remainingClaimableStake' \in Nat
         /\ bondOutstanding' \in BOOLEAN /\ bondRefundable' \in BOOLEAN
         /\ forfeitedBond' \in Nat
<1>1. ClaimableStake(outcome) \in Nat
  BY DEF TypeOK, ClaimableStake, TotalOn
<1>2. QED
  BY <1>1 DEF TypeOK, DecideOutcome, BondReturns, TotalOn, SettleIfExhausted, State,
              Params

LEMMA FinalizeTypeOK == TypeOK /\ WhileStanding /\ Finalize => TypeOK'
<1> SUFFICES ASSUME TypeOK, WhileStanding, Finalize PROVE TypeOK'
  OBVIOUS
<1>1. proposedOutcome \in {"YES", "NO", "INVALID"}
  BY DEF TypeOK, WhileStanding, Finalize, Outcome
<1>2. /\ state' \in State /\ cancellationReason' \in CancellationReason
      /\ refundMode' \in BOOLEAN /\ remainingClaimableStake' \in Nat
      /\ bondOutstanding' \in BOOLEAN /\ bondRefundable' \in BOOLEAN
      /\ forfeitedBond' \in Nat
  <2>1. CASE proposedOutcome = "INVALID"
    BY <2>1, DoCancelTypeOK DEF Finalize, CancellationReason
  <2>2. CASE proposedOutcome \in {"YES", "NO"}
    BY <2>2, DecideOutcomeTypeOK DEF Finalize
  <2>3. QED
    BY <1>1, <2>1, <2>2
<1>3. QED
  BY <1>2, DeadlinesStillFit DEF TypeOK, Finalize, factoryVars, tokenVars, proposalVars, challengeVars,
              stakeVars

LEMMA CancelTypeOK ==
  ASSUME TypeOK, NEW reason \in CancellationReason, Cancel(reason)
  PROVE  TypeOK'
<1>1. /\ state' \in State /\ cancellationReason' \in CancellationReason
      /\ refundMode' \in BOOLEAN /\ remainingClaimableStake' \in Nat
      /\ bondOutstanding' \in BOOLEAN /\ bondRefundable' \in BOOLEAN
      /\ forfeitedBond' \in Nat
  BY DoCancelTypeOK DEF Cancel
<1>2. QED
  BY <1>1, DeadlinesStillFit DEF TypeOK, Cancel, factoryVars, tokenVars, proposalVars, challengeVars,
              stakeVars

LEMMA FloorDivision ==
  ASSUME NEW n \in Nat, NEW d \in Nat \ {0}
  PROVE  /\ n \div d \in Nat
         /\ (n \div d) * d <= n
  OBVIOUS

\* Nobody's payout is computed from an empty side.
LEMMA PayoutType ==
  ASSUME TypeOK, ResultFollowsState, ~refundMode, state \in {"FINALIZED", "SETTLED"},
         NEW a \in Accounts
  PROVE  /\ Payout(a) \in Nat
         /\ TotalOn(finalOutcome) \in Nat \ {0}
         /\ Payout(a) * TotalOn(finalOutcome) <= StakeOn(finalOutcome, a) * pool
<1>1. TotalOn(finalOutcome) \in Nat \ {0}
  BY DEF TypeOK, ResultFollowsState, TotalOn, Resolved
<1>2. /\ StakeOn(finalOutcome, a) \in Nat
      /\ pool \in Nat
  BY DEF TypeOK, StakeOn, pool
<1>3. StakeOn(finalOutcome, a) * pool \in Nat
  BY <1>2
<1>4. QED
  BY <1>1, <1>3, FloorDivision DEF Payout

LEMMA PayStakeTypeOK ==
  ASSUME TypeOK, NEW a \in Accounts, NEW stake \in Nat, NEW amount \in Nat,
         PayStake(a, stake, amount)
  PROVE  /\ hasClaimed' \in [Accounts -> BOOLEAN]
         /\ remainingClaimableStake' \in Nat
         /\ state' \in State
         /\ held' \in Nat
         /\ wallet' \in [Accounts -> Nat]
<1>1. hasClaimed' \in [Accounts -> BOOLEAN]
  BY DEF TypeOK, PayStake
<1>2. remainingClaimableStake' \in Nat
  BY DEF TypeOK, PayStake
<1>3. state' \in State
  BY DEF TypeOK, PayStake, SettleIfExhausted, State
<1>4. held' \in Nat /\ wallet' \in [Accounts -> Nat]
  BY DEF TypeOK, PayStake, TransferOut
<1>5. QED
  BY <1>1, <1>2, <1>3, <1>4

LEMMA ClaimTypeOK ==
  ASSUME TypeOK, ResultFollowsState, NEW a \in Accounts, Claim(a)
  PROVE  TypeOK'
<1>1. Payout(a) \in Nat /\ StakeOn(finalOutcome, a) \in Nat
  BY PayoutType DEF Claim, TypeOK, StakeOn
<1>2. /\ hasClaimed' \in [Accounts -> BOOLEAN] /\ remainingClaimableStake' \in Nat
      /\ state' \in State /\ held' \in Nat /\ wallet' \in [Accounts -> Nat]
  BY <1>1, PayStakeTypeOK DEF Claim
<1>3. QED
  BY <1>2, DeadlinesStillFit DEF TypeOK, Claim, factoryVars, proposalVars, challengeVars, bondVars,
              resultVars, stakeVars

LEMMA WithdrawRefundTypeOK ==
  ASSUME TypeOK, NEW a \in Accounts, WithdrawRefund(a)
  PROVE  TypeOK'
<1>1. StakeOf(a) \in Nat
  BY DEF TypeOK, StakeOf
<1>2. /\ hasClaimed' \in [Accounts -> BOOLEAN] /\ remainingClaimableStake' \in Nat
      /\ state' \in State /\ held' \in Nat /\ wallet' \in [Accounts -> Nat]
  BY <1>1, PayStakeTypeOK DEF WithdrawRefund
<1>3. QED
  BY <1>2, DeadlinesStillFit DEF TypeOK, WithdrawRefund, factoryVars, proposalVars, challengeVars,
              bondVars, resultVars, stakeVars

LEMMA ClaimChallengeBondTypeOK ==
  ASSUME TypeOK, NEW a \in Accounts, ClaimChallengeBond(a)
  PROVE  TypeOK'
<1>1. held' \in Nat /\ wallet' \in [Accounts -> Nat]
  BY DEF TypeOK, ClaimChallengeBond, TransferOut, Params
<1>2. state' \in State
  BY DEF TypeOK, ClaimChallengeBond, SettleIfExhausted, State
<1>3. QED
  BY <1>1, <1>2, DeadlinesStillFit DEF TypeOK, ClaimChallengeBond, factoryVars, proposalVars,
                    challengeVars, resultVars, stakeVars, claimVars

LEMMA NextTypeOK == TypeOK /\ LifecycleInv /\ [Next]_vars => TypeOK'
<1> SUFFICES ASSUME TypeOK, LifecycleInv, [Next]_vars PROVE TypeOK'
  OBVIOUS
<1> USE DEF LifecycleInv
<1>1. CASE Tick
  BY <1>1, TickTypeOK
<1>2. CASE Administer
  BY <1>2, DeadlinesStillFit DEF TypeOK, Administer, tokenVars, proposalVars, challengeVars, bondVars,
              resultVars, stakeVars, claimVars
<1>3. ASSUME NEW a \in Accounts, NEW side \in Outcome, NEW amount \in 0 .. Funds,
             NEW fee \in Fees, Stake(a, side, amount, fee)
      PROVE  TypeOK'
  BY <1>3, StakeTypeOK
<1>4. CASE Close
  BY <1>4, DeadlinesStillFit DEF TypeOK, Close, State, factoryVars, tokenVars, proposalVars,
              challengeVars, bondVars, resultVars, stakeVars, claimVars
<1>5. ASSUME NEW r \in Resolvers, NEW outcome \in Outcome,
             NEW hash \in EvidenceHashes \cup {NoHash},
             ProposeResolution(r, outcome, hash)
      PROVE  TypeOK'
  BY <1>5, ProposeTypeOK
<1>6. ASSUME NEW a \in Accounts, NEW reason \in ReasonHashes \cup {NoHash},
             NEW fee \in Fees, Challenge(a, reason, fee)
      PROVE  TypeOK'
  BY <1>6, ChallengeTypeOK
<1>7. CASE Finalize
  BY <1>7, FinalizeTypeOK
<1>8. ASSUME NEW reason \in CancellationReason, Cancel(reason)
      PROVE  TypeOK'
  BY <1>8, CancelTypeOK
<1>9. ASSUME NEW a \in Accounts, Claim(a)
      PROVE  TypeOK'
  BY <1>9, ClaimTypeOK
<1>10. ASSUME NEW a \in Accounts, WithdrawRefund(a)
       PROVE  TypeOK'
  BY <1>10, WithdrawRefundTypeOK
<1>11. ASSUME NEW a \in Accounts, ClaimChallengeBond(a)
       PROVE  TypeOK'
  BY <1>11, ClaimChallengeBondTypeOK
<1>12. CASE UNCHANGED vars
  BY <1>12, DeadlinesStillFit DEF TypeOK, vars, factoryVars, tokenVars, proposalVars, challengeVars,
               bondVars, resultVars, stakeVars, claimVars
<1>13. QED
  BY <1>1, <1>2, <1>3, <1>4, <1>5, <1>6, <1>7, <1>8, <1>9, <1>10, <1>11, <1>12
  DEF Next

-----------------------------------------------------------------------------
(* The lifecycle invariant: one lemma per action that moves the lifecycle. *)

lifecycleVars == << config, state, proposalVars, challengeVars, bondVars, resultVars,
                    totalYes, totalNo, remainingClaimableStake >>

LEMMA InitLifecycle == Init => LifecycleInv
<1> SUFFICES ASSUME Init PROVE LifecycleInv
  OBVIOUS
<1> USE DEF Init, Resolved
<1>1. BeforeProposal /\ WhileStanding
  BY DEF BeforeProposal, WhileStanding
<1>2. ChallengedOnce /\ ResultFollowsState
  BY DEF ChallengedOnce, ResultFollowsState
<1>3. BondFollowsState /\ SettlementFollowsState
  BY DEF BondFollowsState, SettlementFollowsState
<1>4. QED
  BY <1>1, <1>2, <1>3 DEF LifecycleInv

LEMMA UnchangedLifecycle ==
  LifecycleInv /\ UNCHANGED lifecycleVars => LifecycleInv'
  BY DEF LifecycleInv, lifecycleVars, proposalVars, challengeVars, bondVars, resultVars,
         BeforeProposal, WhileStanding, ChallengedOnce, ResultFollowsState,
         BondFollowsState, SettlementFollowsState, Resolved, TotalOn

\* Staking and closing happen before anything the invariant speaks of.
LEMMA TradingLifecycle ==
  ASSUME LifecycleInv,
         state = "OPEN" /\ state' \in {"OPEN", "CLOSED"},
         UNCHANGED << config, proposalVars, challengeVars, bondVars, resultVars,
                      remainingClaimableStake >>
  PROVE  LifecycleInv'
  BY DEF LifecycleInv, proposalVars, challengeVars, bondVars, resultVars,
         BeforeProposal, WhileStanding, ChallengedOnce, ResultFollowsState,
         BondFollowsState, SettlementFollowsState, Resolved

LEMMA ProposeLifecycle ==
  ASSUME TypeOK, LifecycleInv, NEW r \in Resolvers, NEW outcome \in Outcome,
         NEW hash \in EvidenceHashes \cup {NoHash},
         ProposeResolution(r, outcome, hash)
  PROVE  LifecycleInv'
<1>1. state \in {"OPEN", "CLOSED", "CHALLENGED"}
  BY DEF ProposeResolution, Proposable, ClosedIfDue
<1>2. /\ state' = "RESOLUTION_PROPOSED"
      /\ proposalRound' = proposalRound + 1
      /\ proposedOutcome' # "UNSET" /\ evidenceHash' # NoHash
      /\ UNCHANGED << config, challengeVars, bondVars, resultVars >>
  BY DEF ProposeResolution
<1>3. BeforeProposal' /\ WhileStanding'
  <2>1. proposalRound \in {0, 1}
    BY <1>1 DEF LifecycleInv, BeforeProposal, ChallengedOnce
  <2>2. QED
    BY <2>1, <1>2 DEF BeforeProposal, WhileStanding, MAX_PROPOSAL_ROUNDS
<1>4. ChallengedOnce'
  BY <1>1, <1>2 DEF LifecycleInv, BeforeProposal, ChallengedOnce, ResultFollowsState,
     challengeVars, resultVars
<1>5. ResultFollowsState' /\ BondFollowsState' /\ SettlementFollowsState'
  BY <1>1, <1>2 DEF LifecycleInv, ResultFollowsState, BondFollowsState,
     SettlementFollowsState, Resolved, challengeVars, bondVars, resultVars
<1>6. QED
  BY <1>3, <1>4, <1>5 DEF LifecycleInv

LEMMA ChallengeLifecycle ==
  ASSUME TypeOK, LifecycleInv, NEW a \in Accounts,
         NEW reason \in ReasonHashes \cup {NoHash}, NEW fee \in Fees,
         Challenge(a, reason, fee)
  PROVE  LifecycleInv'
<1>1. /\ state = "RESOLUTION_PROPOSED" /\ state' = "CHALLENGED"
      /\ proposalRound = 1
      /\ challenger' = a /\ a # NoAccount
      /\ challengeReasonHash' # NoHash
      /\ challengedOutcome' = proposedOutcome
      /\ UNCHANGED << config, proposalVars, bondRefundable, forfeitedBond, resultVars >>
  BY MarketAssumption DEF MarketAssumption, Challenge, RoundContestable
<1>2. BeforeProposal' /\ WhileStanding'
  BY <1>1 DEF LifecycleInv, BeforeProposal, WhileStanding, proposalVars
<1>3. ChallengedOnce'
  BY <1>1 DEF LifecycleInv, WhileStanding, ChallengedOnce, ResultFollowsState,
     proposalVars, resultVars
<1>4. ResultFollowsState' /\ SettlementFollowsState'
  BY <1>1 DEF LifecycleInv, ResultFollowsState, SettlementFollowsState, Resolved,
     proposalVars, resultVars
<1>5. BondFollowsState'
  <2>1. bondOutstanding' => config.challengeBond > 0 \/ bondOutstanding
    BY DEF Challenge
  <2>2. QED
    BY <1>1, <2>1 DEF LifecycleInv, BondFollowsState, ResultFollowsState, Resolved
<1>6. QED
  BY <1>2, <1>3, <1>4, <1>5 DEF LifecycleInv

\* A cancellation, whichever of the three triggers caused it.
LEMMA CancelledLifecycle ==
  ASSUME TypeOK, LifecycleInv, NEW reason \in CancellationReason \ {"NONE"},
         DoCancel(reason),
         UNCHANGED << config, proposalVars, challengeVars >>,
         ~Resolved,
         \/ /\ reason = "RESOLVED_INVALID" /\ state = "RESOLUTION_PROPOSED"
            /\ proposedOutcome = "INVALID" /\ finalOutcome' = "INVALID"
         \/ /\ reason = "NO_RESOLUTION" /\ state \in {"OPEN", "CLOSED"}
            /\ finalOutcome' = finalOutcome
         \/ /\ reason = "NO_REVIEW" /\ state = "CHALLENGED"
            /\ finalOutcome' = finalOutcome
  PROVE  LifecycleInv'
<1>1. /\ state' = "CANCELLED" /\ cancellationReason' = reason /\ refundMode'
      /\ bondRefundable' = (bondOutstanding \/ bondRefundable)
      /\ UNCHANGED <<bondOutstanding, forfeitedBond>>
  BY DEF DoCancel
<1>2. BeforeProposal' /\ WhileStanding' /\ SettlementFollowsState'
  BY <1>1 DEF BeforeProposal, WhileStanding, SettlementFollowsState
<1>3. ChallengedOnce'
  BY <1>1 DEF LifecycleInv, ChallengedOnce, ResultFollowsState, CancellationReason,
     proposalVars, challengeVars
<1>4. ResultFollowsState'
  BY <1>1 DEF LifecycleInv, ResultFollowsState, WhileStanding, Resolved, TypeOK,
     MAX_PROPOSAL_ROUNDS, proposalVars
<1>5. BondFollowsState'
  BY <1>1 DEF LifecycleInv, BondFollowsState, ResultFollowsState, Resolved, TypeOK,
     challengeVars
<1>6. QED
  BY <1>2, <1>3, <1>4, <1>5 DEF LifecycleInv

LEMMA DecidedLifecycle ==
  ASSUME TypeOK, LifecycleInv, state = "RESOLUTION_PROPOSED",
         proposedOutcome \in {"YES", "NO"}, DecideOutcome(proposedOutcome),
         finalOutcome' = proposedOutcome,
         UNCHANGED << config, proposalVars, challengeVars, stakeVars >>
  PROVE  LifecycleInv'
<1> DEFINE refund == TotalOn(proposedOutcome) = 0
<1>1. /\ refundMode' = refund
      /\ remainingClaimableStake' \in Nat
      /\ bondRefundable' = IF bondOutstanding
                             THEN BondReturns(proposedOutcome, refund)
                             ELSE bondRefundable
      /\ forfeitedBond' = IF bondOutstanding /\ ~BondReturns(proposedOutcome, refund)
                            THEN config.challengeBond ELSE forfeitedBond
      /\ bondOutstanding'
            = (bondOutstanding /\ BondReturns(proposedOutcome, refund))
      /\ state' = SettleIfExhausted("FINALIZED", remainingClaimableStake',
                                    bondOutstanding')
      /\ UNCHANGED cancellationReason
  <2>1. BondReturns(proposedOutcome, refund) \in BOOLEAN
    BY DEF BondReturns
  <2>2. bondOutstanding \in BOOLEAN
    BY DEF TypeOK
  <2>3. remainingClaimableStake' \in Nat
    BY DecideOutcomeTypeOK
  <2>4. QED
    BY <2>1, <2>2, <2>3 DEF DecideOutcome
<1>2. state' \in {"FINALIZED", "SETTLED"}
  BY <1>1 DEF SettleIfExhausted
<1>3. BeforeProposal' /\ WhileStanding'
  BY <1>2 DEF LifecycleInv, BeforeProposal, WhileStanding, proposalVars
<1>4. ChallengedOnce'
  BY <1>1, <1>2 DEF LifecycleInv, ChallengedOnce, ResultFollowsState, proposalVars,
     challengeVars
<1>5. ResultFollowsState'
  BY <1>1, <1>2 DEF LifecycleInv, ResultFollowsState, Resolved, TotalOn, proposalVars,
     stakeVars
<1>6. BondFollowsState'
  <2>1. forfeitedBond = 0 /\ ~bondRefundable
    BY DEF LifecycleInv, ResultFollowsState, Resolved
  <2>2. bondOutstanding => challenger \in Accounts /\ config.challengeBond > 0
    BY DEF LifecycleInv, BondFollowsState
  <2>3. CASE bondOutstanding /\ ~BondReturns(proposedOutcome, refund)
    <3>1. forfeitedBond' = config.challengeBond /\ ~bondOutstanding'
      BY <1>1, <2>3
    <3>2. ~refundMode' /\ finalOutcome' = challengedOutcome
      BY <1>1, <2>3 DEF BondReturns
    <3>3. challenger # NoAccount
      BY <2>2, <2>3, MarketAssumption DEF MarketAssumption
    <3>4. QED
      BY <3>1, <3>2, <3>3 DEF BondFollowsState, challengeVars
  <2>4. CASE ~bondOutstanding \/ BondReturns(proposedOutcome, refund)
    <3>1. forfeitedBond' = 0
      BY <1>1, <2>1, <2>4
    <3>2. bondOutstanding' => bondOutstanding /\ bondRefundable'
      BY <1>1, <2>4 DEF TypeOK
    <3>3. QED
      BY <2>2, <3>1, <3>2 DEF BondFollowsState, challengeVars
  <2>5. QED
    BY <2>3, <2>4
<1>7. SettlementFollowsState'
  BY <1>1 DEF SettlementFollowsState, SettleIfExhausted
<1>8. QED
  BY <1>3, <1>4, <1>5, <1>6, <1>7 DEF LifecycleInv

LEMMA FinalizeLifecycle ==
  ASSUME TypeOK, LifecycleInv, Finalize
  PROVE  LifecycleInv'
<1>1. proposedOutcome \in {"YES", "NO", "INVALID"}
  BY DEF TypeOK, LifecycleInv, WhileStanding, Finalize, Outcome
<1>2. /\ state = "RESOLUTION_PROPOSED" /\ ~Resolved
      /\ finalOutcome' = proposedOutcome
      /\ UNCHANGED << config, proposalVars, challengeVars, stakeVars >>
  BY DEF Finalize, Resolved
<1>3. CASE proposedOutcome = "INVALID"
  <2>1. DoCancel("RESOLVED_INVALID")
    BY <1>3 DEF Finalize
  <2>2. QED
    BY <1>2, <1>3, <2>1, CancelledLifecycle DEF CancellationReason
<1>4. CASE proposedOutcome \in {"YES", "NO"}
  <2>1. DecideOutcome(proposedOutcome)
    BY <1>4 DEF Finalize
  <2>2. QED
    BY <1>2, <1>4, <2>1, DecidedLifecycle
<1>5. QED
  BY <1>1, <1>3, <1>4

LEMMA CancelLifecycle ==
  ASSUME TypeOK, LifecycleInv, NEW reason \in CancellationReason, Cancel(reason)
  PROVE  LifecycleInv'
<1>1. \/ reason = "NO_RESOLUTION" /\ state \in {"OPEN", "CLOSED"}
      \/ reason = "NO_REVIEW" /\ state = "CHALLENGED"
  BY DEF Cancel, TimedOut, ClosedIfDue
<1>2. /\ DoCancel(reason) /\ finalOutcome' = finalOutcome
      /\ UNCHANGED << config, proposalVars, challengeVars >>
  BY DEF Cancel
<1>3. ~Resolved
  BY <1>1 DEF Resolved
<1>4. QED
  BY <1>1, <1>2, <1>3, CancelledLifecycle

\* A withdrawal moves the lifecycle only from FINALIZED to SETTLED.
LEMMA WithdrawalLifecycle ==
  ASSUME TypeOK, LifecycleInv, Resolved,
         remainingClaimableStake' \in Nat, bondOutstanding' \in BOOLEAN,
         remainingClaimableStake' <= remainingClaimableStake,
         bondOutstanding' => bondOutstanding,
         state' = SettleIfExhausted(state, remainingClaimableStake', bondOutstanding'),
         UNCHANGED << config, proposalVars, challengeVars, bondRefundable,
                      forfeitedBond, resultVars, stakeVars >>
  PROVE  LifecycleInv'
<1>1. /\ state' = state \/ (state = "FINALIZED" /\ state' = "SETTLED")
      /\ Resolved'
  BY DEF SettleIfExhausted, Resolved
<1>2. BeforeProposal' /\ WhileStanding' /\ ChallengedOnce'
  BY <1>1 DEF LifecycleInv, BeforeProposal, WhileStanding, ChallengedOnce, Resolved,
     proposalVars, challengeVars, resultVars
<1>3. ResultFollowsState'
  BY <1>1 DEF LifecycleInv, ResultFollowsState, TotalOn, proposalVars, resultVars,
     stakeVars
<1>4. BondFollowsState'
  BY <1>1 DEF LifecycleInv, BondFollowsState, challengeVars, resultVars
<1>5. SettlementFollowsState'
  BY <1>1 DEF LifecycleInv, SettlementFollowsState, SettleIfExhausted, TypeOK
<1>6. QED
  BY <1>2, <1>3, <1>4, <1>5 DEF LifecycleInv

LEMMA PayStakeLifecycle ==
  ASSUME TypeOK, LifecycleInv, Resolved, NEW a \in Accounts,
         NEW stake \in Nat, NEW amount \in Nat, PayStake(a, stake, amount),
         UNCHANGED << config, proposalVars, challengeVars, bondVars, resultVars,
                      stakeVars >>
  PROVE  LifecycleInv'
<1>1. /\ remainingClaimableStake' \in Nat
      /\ remainingClaimableStake' <= remainingClaimableStake
      /\ state' = SettleIfExhausted(state, remainingClaimableStake', bondOutstanding)
  BY DEF TypeOK, PayStake
<1>2. UNCHANGED <<bondOutstanding, bondRefundable, forfeitedBond>>
  BY DEF bondVars
<1>3. QED
  BY <1>1, <1>2, WithdrawalLifecycle DEF TypeOK

LEMMA NextLifecycle == TypeOK /\ LifecycleInv /\ [Next]_vars => LifecycleInv'
<1> SUFFICES ASSUME TypeOK, LifecycleInv, [Next]_vars PROVE LifecycleInv'
  OBVIOUS
<1>1. CASE Tick \/ Administer \/ UNCHANGED vars
  BY <1>1, UnchangedLifecycle
  DEF Tick, Administer, vars, lifecycleVars, stakeVars, claimVars
<1>2. ASSUME NEW a \in Accounts, NEW side \in Outcome, NEW amount \in 0 .. Funds,
             NEW fee \in Fees, Stake(a, side, amount, fee)
      PROVE  LifecycleInv'
  BY <1>2, TradingLifecycle DEF Stake, claimVars
<1>3. CASE Close
  BY <1>3, TradingLifecycle DEF Close, claimVars
<1>4. ASSUME NEW r \in Resolvers, NEW outcome \in Outcome,
             NEW hash \in EvidenceHashes \cup {NoHash},
             ProposeResolution(r, outcome, hash)
      PROVE  LifecycleInv'
  BY <1>4, ProposeLifecycle
<1>5. ASSUME NEW a \in Accounts, NEW reason \in ReasonHashes \cup {NoHash},
             NEW fee \in Fees, Challenge(a, reason, fee)
      PROVE  LifecycleInv'
  BY <1>5, ChallengeLifecycle
<1>6. CASE Finalize
  BY <1>6, FinalizeLifecycle
<1>7. ASSUME NEW reason \in CancellationReason, Cancel(reason)
      PROVE  LifecycleInv'
  BY <1>7, CancelLifecycle
<1>8. ASSUME NEW a \in Accounts, Claim(a)
      PROVE  LifecycleInv'
  <2>1. Payout(a) \in Nat /\ StakeOn(finalOutcome, a) \in Nat
    BY <1>8, PayoutType DEF Claim, TypeOK, StakeOn, LifecycleInv
  <2>2. QED
    BY <1>8, <2>1, PayStakeLifecycle DEF Claim, Resolved
<1>9. ASSUME NEW a \in Accounts, WithdrawRefund(a)
      PROVE  LifecycleInv'
  <2>1. StakeOf(a) \in Nat
    BY DEF TypeOK, StakeOf
  <2>2. QED
    BY <1>9, <2>1, PayStakeLifecycle DEF WithdrawRefund, Withdrawable
<1>10. ASSUME NEW a \in Accounts, ClaimChallengeBond(a)
       PROVE  LifecycleInv'
  <2>1. /\ Resolved /\ bondOutstanding' = FALSE
        /\ UNCHANGED remainingClaimableStake
        /\ state' = SettleIfExhausted(state, remainingClaimableStake, FALSE)
        /\ UNCHANGED << config, proposalVars, challengeVars, bondRefundable,
                        forfeitedBond, resultVars, stakeVars >>
    BY <1>10 DEF ClaimChallengeBond, claimVars
  <2>2. /\ remainingClaimableStake' \in Nat
        /\ remainingClaimableStake' <= remainingClaimableStake
    BY <2>1 DEF TypeOK
  <2>3. /\ bondOutstanding' \in BOOLEAN
        /\ bondOutstanding' => bondOutstanding
    BY <2>1
  <2>4. state' = SettleIfExhausted(state, remainingClaimableStake', bondOutstanding')
    BY <2>1 DEF SettleIfExhausted
  <2>5. QED
    BY <2>1, <2>2, <2>3, <2>4, WithdrawalLifecycle
<1>11. QED
  BY <1>1, <1>2, <1>3, <1>4, <1>5, <1>6, <1>7, <1>8, <1>9, <1>10 DEF Next

-----------------------------------------------------------------------------
(* The theorems. *)

\* Every reachable state is well typed and the lifecycle invariant holds in it:
\* one resolution, at most one challenge and one replacement, and no bond that
\* is neither forfeited nor refundable once the market is resolved.
THEOREM LifecycleSafe == Spec => []TypeOK /\ []LifecycleInv
<1>1. Init => TypeOK /\ LifecycleInv
  BY InitTypeOK, InitLifecycle
<1>2. TypeOK /\ LifecycleInv /\ [Next]_vars => (TypeOK /\ LifecycleInv)'
  BY NextTypeOK, NextLifecycle
<1>3. QED
  BY <1>1, <1>2, PTL DEF Spec

\* The type invariant on its own, for the runs that check it.
THEOREM TypeCorrect == Spec => []TypeOK
  BY LifecycleSafe, PTL

-----------------------------------------------------------------------------
(* After the resolution only the clock, the administrator and withdrawals    *)
(* move anything.                                                            *)

contractVars == << tokenVars, config, state, proposalVars, challengeVars, bondVars,
                 resultVars, stakeVars, claimVars >>

LEMMA ResolvedSteps ==
  ASSUME Resolved, [Next]_vars
  PROVE  \/ UNCHANGED contractVars
         \/ \E a \in Accounts : Claim(a) \/ WithdrawRefund(a) \/ ClaimChallengeBond(a)
<1>1. CASE Tick \/ Administer \/ UNCHANGED vars
  BY <1>1 DEF Tick, Administer, vars, contractVars
<1>2. ASSUME NEW a \in Accounts, NEW side \in Outcome, NEW amount \in 0 .. Funds,
             NEW fee \in Fees, Stake(a, side, amount, fee)
      PROVE  FALSE
  BY <1>2 DEF Stake, Resolved
<1>3. CASE Close \/ Finalize
  BY <1>3 DEF Close, Finalize, Resolved
<1>4. ASSUME NEW r \in Resolvers, NEW outcome \in Outcome,
             NEW hash \in EvidenceHashes \cup {NoHash},
             ProposeResolution(r, outcome, hash)
      PROVE  FALSE
  BY <1>4 DEF ProposeResolution, Proposable, ClosedIfDue, Resolved
<1>5. ASSUME NEW a \in Accounts, NEW reason \in ReasonHashes \cup {NoHash},
             NEW fee \in Fees, Challenge(a, reason, fee)
      PROVE  FALSE
  BY <1>5 DEF Challenge, Resolved
<1>6. ASSUME NEW reason \in CancellationReason, Cancel(reason)
      PROVE  FALSE
  BY <1>6 DEF Cancel, TimedOut, ClosedIfDue, Resolved
<1>7. QED
  BY <1>1, <1>2, <1>3, <1>4, <1>5, <1>6 DEF Next

LEMMA WithdrawalStates ==
  ASSUME NEW a \in Accounts, Claim(a) \/ WithdrawRefund(a) \/ ClaimChallengeBond(a)
  PROVE  /\ Resolved /\ Resolved'
         /\ state' = state \/ (state = "FINALIZED" /\ state' = "SETTLED")
         /\ UNCHANGED << config, proposalVars, challengeVars, bondRefundable,
                         forfeitedBond, resultVars, stakeVars >>
<1>1. CASE Claim(a)
  BY <1>1 DEF Claim, PayStake, SettleIfExhausted, Resolved, bondVars
<1>2. CASE WithdrawRefund(a)
  BY <1>2 DEF WithdrawRefund, PayStake, SettleIfExhausted, Withdrawable, Resolved,
              bondVars
<1>3. CASE ClaimChallengeBond(a)
  BY <1>3 DEF ClaimChallengeBond, SettleIfExhausted, Resolved
<1>4. QED
  BY <1>1, <1>2, <1>3

\* A resolution is never revised: outcome, evidence, stakes, pool and refund
\* mode stay what finalize() or cancel() made them.
THEOREM ResolutionFinal == Spec => ResolutionIsIrrevocable
<1>1. [Next]_vars =>
        [ Resolved =>
            /\ Resolved'
            /\ state = "CANCELLED" <=> state' = "CANCELLED"
            /\ state = "SETTLED" => state' = "SETTLED"
            /\ UNCHANGED << proposalVars, challengeVars, resultVars, stakeVars,
                            forfeitedBond >> ]_vars
  <2> SUFFICES ASSUME [Next]_vars, Resolved
               PROVE  /\ Resolved'
                      /\ state = "CANCELLED" <=> state' = "CANCELLED"
                      /\ state = "SETTLED" => state' = "SETTLED"
                      /\ UNCHANGED << proposalVars, challengeVars, resultVars,
                                      stakeVars, forfeitedBond >>
    OBVIOUS
  <2>1. CASE UNCHANGED contractVars
    BY <2>1 DEF contractVars, bondVars, Resolved
  <2>2. ASSUME NEW a \in Accounts,
               Claim(a) \/ WithdrawRefund(a) \/ ClaimChallengeBond(a)
        PROVE  /\ Resolved'
               /\ state = "CANCELLED" <=> state' = "CANCELLED"
               /\ state = "SETTLED" => state' = "SETTLED"
               /\ UNCHANGED << proposalVars, challengeVars, resultVars, stakeVars,
                               forfeitedBond >>
    BY <2>2, WithdrawalStates
  <2>3. QED
    BY <2>1, <2>2, ResolvedSteps
<1>2. QED
  BY <1>1, PTL DEF Spec, ResolutionIsIrrevocable

LEMMA DueUnchanged ==
  ASSUME Resolved, Resolved', NEW b \in Accounts,
         hasClaimed'[b] = hasClaimed[b],
         bondOutstanding' = bondOutstanding \/ b # challenger,
         UNCHANGED << config, challengeVars, bondRefundable, forfeitedBond, resultVars,
                      stakeVars >>
  PROVE  Due(b)' = Due(b)
<1>1. StakeDue(b)' = StakeDue(b)
  BY DEF StakeDue, StakeOf, StakeOn, Payout, TotalOn, pool, resultVars, stakeVars
<1>2. BondDue(b)' = BondDue(b)
  BY DEF BondDue, challengeVars
<1>3. QED
  BY <1>1, <1>2 DEF Due

LEMMA DueType ==
  ASSUME TypeOK, LifecycleInv, NEW a \in Accounts
  PROVE  StakeDue(a) \in Nat /\ BondDue(a) \in Nat
<1>1. BondDue(a) \in Nat
  <2>1. config.challengeBond \in Nat
    BY DEF TypeOK, Params
  <2>2. QED
    BY <2>1 DEF BondDue
<1>2. StakeOf(a) \in Nat
  BY DEF StakeOf, TypeOK
<1>3. CASE ~Resolved \/ hasClaimed[a] \/ refundMode
  BY <1>1, <1>2, <1>3 DEF StakeDue
<1>4. CASE Resolved /\ ~hasClaimed[a] /\ ~refundMode
  <2>1. state \in {"FINALIZED", "SETTLED"}
    BY <1>4 DEF LifecycleInv, ResultFollowsState, Resolved
  <2>2. Payout(a) \in Nat
    BY <1>4, <2>1, PayoutType DEF LifecycleInv
  <2>3. QED
    BY <1>1, <1>4, <2>2 DEF StakeDue
<1>5. QED
  BY <1>3, <1>4

\* A withdrawal moves tokens only from its own due to its own wallet.
LEMMA WithdrawalKeepsEntitlements ==
  ASSUME TypeOK, LifecycleInv, NEW a \in Accounts, NEW b \in Accounts,
         Claim(a) \/ WithdrawRefund(a) \/ ClaimChallengeBond(a)
  PROVE  wallet'[b] + Due(b)' = wallet[b] + Due(b)
<1>1. /\ Resolved /\ Resolved'
      /\ UNCHANGED << config, challengeVars, bondRefundable, forfeitedBond, resultVars,
                      stakeVars >>
  BY WithdrawalStates
<1>2. /\ wallet[a] \in Nat /\ wallet[b] \in Nat
      /\ hasClaimed \in [Accounts -> BOOLEAN]
      /\ wallet \in [Accounts -> Nat]
  BY DEF TypeOK
<1>3. StakeDue(a) \in Nat /\ BondDue(a) \in Nat /\ StakeDue(b) \in Nat /\ BondDue(b) \in Nat
  BY DueType
<1>4. CASE Claim(a)
  <2>1. /\ wallet' = [wallet EXCEPT ![a] = @ + Payout(a)]
        /\ hasClaimed' = [hasClaimed EXCEPT ![a] = TRUE]
        /\ UNCHANGED bondOutstanding
        /\ StakeDue(a) = Payout(a)
    BY <1>1, <1>4 DEF Claim, PayStake, TransferOut, bondVars, StakeDue
  <2>2. CASE b = a
    <3>1. StakeDue(a)' = 0
      BY <1>2, <2>1 DEF StakeDue
    <3>2. BondDue(a)' = BondDue(a)
      BY <1>1, <2>1 DEF BondDue, challengeVars
    <3>3. wallet'[a] = wallet[a] + StakeDue(a)
      BY <1>2, <2>1
    <3>4. QED
      BY <1>2, <1>3, <2>2, <3>1, <3>2, <3>3 DEF Due
  <2>3. CASE b # a
    <3>1. Due(b)' = Due(b)
      BY <1>1, <1>2, <2>1, <2>3, DueUnchanged
    <3>2. wallet'[b] = wallet[b]
      BY <1>2, <2>1, <2>3
    <3>3. QED
      BY <3>1, <3>2
  <2>4. QED
    BY <2>2, <2>3
<1>5. CASE WithdrawRefund(a)
  <2>1. /\ wallet' = [wallet EXCEPT ![a] = @ + StakeOf(a)]
        /\ hasClaimed' = [hasClaimed EXCEPT ![a] = TRUE]
        /\ UNCHANGED bondOutstanding
        /\ StakeDue(a) = StakeOf(a)
    BY <1>1, <1>5 DEF WithdrawRefund, PayStake, TransferOut, bondVars, StakeDue
  <2>2. CASE b = a
    <3>1. StakeDue(a)' = 0
      BY <1>2, <2>1 DEF StakeDue
    <3>2. BondDue(a)' = BondDue(a)
      BY <1>1, <2>1 DEF BondDue, challengeVars
    <3>3. wallet'[a] = wallet[a] + StakeDue(a)
      BY <1>2, <2>1
    <3>4. QED
      BY <1>2, <1>3, <2>2, <3>1, <3>2, <3>3 DEF Due
  <2>3. CASE b # a
    <3>1. Due(b)' = Due(b)
      BY <1>1, <1>2, <2>1, <2>3, DueUnchanged
    <3>2. wallet'[b] = wallet[b]
      BY <1>2, <2>1, <2>3
    <3>3. QED
      BY <3>1, <3>2
  <2>4. QED
    BY <2>2, <2>3
<1>6. CASE ClaimChallengeBond(a)
  <2>1. /\ wallet' = [wallet EXCEPT ![a] = @ + config.challengeBond]
        /\ UNCHANGED hasClaimed
        /\ bondOutstanding' = FALSE
        /\ a = challenger
        /\ BondDue(a) = config.challengeBond
    BY <1>6 DEF ClaimChallengeBond, TransferOut, claimVars, BondDue
  <2>2. CASE b = a
    <3>1. BondDue(a)' = 0
      BY <2>1 DEF BondDue
    <3>2. StakeDue(a)' = StakeDue(a)
      BY <1>1, <2>1
      DEF StakeDue, StakeOf, StakeOn, Payout, TotalOn, pool, resultVars, stakeVars
    <3>3. wallet'[a] = wallet[a] + BondDue(a)
      BY <1>2, <2>1
    <3>4. QED
      BY <1>2, <1>3, <2>2, <3>1, <3>2, <3>3 DEF Due
  <2>3. CASE b # a
    <3>1. Due(b)' = Due(b)
      BY <1>1, <2>1, <2>3, DueUnchanged
    <3>2. wallet'[b] = wallet[b]
      BY <1>2, <2>1, <2>3
    <3>3. QED
      BY <3>1, <3>2
  <2>4. QED
    BY <2>2, <2>3
<1>7. QED
  BY <1>4, <1>5, <1>6

\* Once resolved, what an account holds plus what it is due never changes, for
\* any number of accounts and any amounts: nobody is paid twice, and nobody's
\* withdrawal costs anybody else.
THEOREM EntitlementsAreFixed == Spec => EntitlementsFixed
<1>1. TypeOK /\ LifecycleInv /\ [Next]_vars =>
        [ Resolved =>
            \A a \in Accounts : wallet'[a] + Due(a)' = wallet[a] + Due(a) ]_vars
  <2> SUFFICES ASSUME TypeOK, LifecycleInv, [Next]_vars, Resolved,
                      NEW b \in Accounts
               PROVE  wallet'[b] + Due(b)' = wallet[b] + Due(b)
    OBVIOUS
  <2>1. CASE UNCHANGED contractVars
    <3>1. Due(b)' = Due(b)
      BY <2>1, DueUnchanged DEF contractVars, bondVars, claimVars, Resolved
    <3>2. QED
      BY <2>1, <3>1 DEF contractVars, tokenVars
  <2>2. ASSUME NEW a \in Accounts,
               Claim(a) \/ WithdrawRefund(a) \/ ClaimChallengeBond(a)
        PROVE  wallet'[b] + Due(b)' = wallet[b] + Due(b)
    BY <2>2, WithdrawalKeepsEntitlements
  <2>3. QED
    BY <2>1, <2>2, ResolvedSteps
<1>2. QED
  BY <1>1, LifecycleSafe, PTL DEF Spec, EntitlementsFixed

-----------------------------------------------------------------------------
(* A final outcome was contestable for a whole challenge window. *)

\* The strengthening: what is already fixed about a proposal while it stands.
ProposalWasDue ==
    /\ ContestedInTime
    /\ proposalRound > 0 => proposedAt >= config.conditionDeadline
    /\ proposalRound = 2 => challengedAt <= proposedAt

LEMMA NextProposalWasDue ==
  TypeOK /\ LifecycleInv /\ ProposalWasDue /\ [Next]_vars => ProposalWasDue'
<1> SUFFICES ASSUME TypeOK, LifecycleInv, ProposalWasDue, [Next]_vars
             PROVE  ProposalWasDue'
  OBVIOUS
<1> USE DEF ContestedInTime
<1>1. ASSUME UNCHANGED << config, proposalVars, challenger, challengedAt >>
      PROVE  ProposalWasDue'
  BY <1>1 DEF ProposalWasDue, proposalVars, challengeEndsAt
<1>2. ASSUME NEW r \in Resolvers, NEW outcome \in Outcome,
             NEW hash \in EvidenceHashes \cup {NoHash},
             ProposeResolution(r, outcome, hash)
      PROVE  ProposalWasDue'
  <2>1. proposalRound = 0 => challenger = NoAccount
    BY <1>2 DEF ProposeResolution, Proposable, ClosedIfDue, LifecycleInv, ChallengedOnce,
           ResultFollowsState
  <2>2. QED
    BY <1>2, <2>1 DEF ProposeResolution, ProposalWasDue, TypeOK, challengeVars
<1>3. ASSUME NEW a \in Accounts, NEW reason \in ReasonHashes \cup {NoHash},
             NEW fee \in Fees, Challenge(a, reason, fee)
      PROVE  ProposalWasDue'
  BY <1>3 DEF Challenge, RoundContestable, WindowOpen, ProposalWasDue, TypeOK, proposalVars,
          challengeEndsAt
<1>4. CASE Tick \/ Administer \/ Close \/ Finalize \/ UNCHANGED vars
  BY <1>1, <1>4 DEF Tick, Administer, Close, Finalize, vars, challengeVars
<1>5. ASSUME NEW a \in Accounts, NEW side \in Outcome, NEW amount \in 0 .. Funds,
             NEW fee \in Fees, Stake(a, side, amount, fee)
      PROVE  ProposalWasDue'
  BY <1>1, <1>5 DEF Stake, challengeVars
<1>6. ASSUME NEW reason \in CancellationReason, Cancel(reason)
      PROVE  ProposalWasDue'
  BY <1>1, <1>6 DEF Cancel, challengeVars
<1>7. ASSUME NEW a \in Accounts, Claim(a) \/ WithdrawRefund(a) \/ ClaimChallengeBond(a)
      PROVE  ProposalWasDue'
  BY <1>1, <1>7, WithdrawalStates DEF challengeVars
<1>8. QED
  BY <1>2, <1>3, <1>4, <1>5, <1>6, <1>7 DEF Next

LEMMA FinalizeWasContestable ==
  ASSUME TypeOK, LifecycleInv, ProposalWasDue, Finalize
  PROVE  FinalOutcomeWasContestable'
<1>1. /\ state = "RESOLUTION_PROPOSED" /\ cancellationReason # "NO_REVIEW"
      /\ proposalRound \in 1 .. 2
      /\ proposalRound = 2 <=> challenger # NoAccount
  BY DEF Finalize, LifecycleInv, WhileStanding, ChallengedOnce, ResultFollowsState,
         MAX_PROPOSAL_ROUNDS
<1>2. /\ finalOutcome' = proposedOutcome /\ finalizedAt' = now
      /\ now >= challengeEndsAt
      /\ UNCHANGED << config, proposalVars, challengeVars >>
  BY DEF Finalize, WindowOver
<1>3. /\ now \in Nat /\ proposedAt \in Nat \ {0} /\ config.challengeWindow \in Nat
  BY <1>1 DEF TypeOK, Params, ProposalWasDue
<1>4. now - proposedAt >= config.challengeWindow
  BY <1>2, <1>3 DEF challengeEndsAt
<1>5. QED
  BY <1>1, <1>2, <1>4
  DEF FinalOutcomeWasContestable, ProposalWasDue, ContestedInTime, challengeEndsAt,
      proposalVars, challengeVars

\* For every clock, window and deadline: a final outcome was proposed after the
\* condition's deadline, stood for a whole challenge window, and was either
\* never challenged or is the only replacement of the proposal that was, before
\* that one's window had ended.
THEOREM FinalAfterItsWindow == Spec => []FinalOutcomeWasContestable
<1> DEFINE IInv == ProposalWasDue /\ FinalOutcomeWasContestable
<1>1. Init => IInv
  BY DEF Init, ProposalWasDue, ContestedInTime, FinalOutcomeWasContestable
<1>2. TypeOK /\ LifecycleInv /\ IInv /\ [Next]_vars => IInv'
  <2> SUFFICES ASSUME TypeOK, LifecycleInv, IInv, [Next]_vars, ContestedInTime'
               PROVE  FinalOutcomeWasContestable'
    BY NextProposalWasDue DEF ProposalWasDue
  <2>1. CASE Finalize
    BY <2>1, FinalizeWasContestable
  <2>2. ASSUME ~Resolved, UNCHANGED finalOutcome
        PROVE  FinalOutcomeWasContestable'
    BY <2>2 DEF FinalOutcomeWasContestable, LifecycleInv, ResultFollowsState
  <2>3. ASSUME UNCHANGED << config, proposalVars, challengeVars, resultVars >>
        PROVE  FinalOutcomeWasContestable'
    BY <2>3 DEF FinalOutcomeWasContestable, proposalVars, challengeVars, resultVars
  <2>4. CASE Tick \/ Administer \/ Close \/ UNCHANGED vars
    BY <2>3, <2>4 DEF Tick, Administer, Close, vars
  <2>5. ASSUME NEW a \in Accounts, NEW side \in Outcome, NEW amount \in 0 .. Funds,
               NEW fee \in Fees, Stake(a, side, amount, fee)
        PROVE  FinalOutcomeWasContestable'
    BY <2>3, <2>5 DEF Stake
  <2>6. ASSUME NEW r \in Resolvers, NEW outcome \in Outcome,
               NEW hash \in EvidenceHashes \cup {NoHash},
               ProposeResolution(r, outcome, hash)
        PROVE  FinalOutcomeWasContestable'
    BY <2>2, <2>6
    DEF ProposeResolution, Proposable, ClosedIfDue, Resolved, resultVars
  <2>7. ASSUME NEW a \in Accounts, NEW reason \in ReasonHashes \cup {NoHash},
               NEW fee \in Fees, Challenge(a, reason, fee)
        PROVE  FinalOutcomeWasContestable'
    BY <2>2, <2>7 DEF Challenge, Resolved, resultVars
  <2>8. ASSUME NEW reason \in CancellationReason, Cancel(reason)
        PROVE  FinalOutcomeWasContestable'
    BY <2>2, <2>8 DEF Cancel, TimedOut, ClosedIfDue, Resolved
  <2>9. ASSUME NEW a \in Accounts,
               Claim(a) \/ WithdrawRefund(a) \/ ClaimChallengeBond(a)
        PROVE  FinalOutcomeWasContestable'
    BY <2>3, <2>9, WithdrawalStates
  <2>10. QED
    BY <2>1, <2>4, <2>5, <2>6, <2>7, <2>8, <2>9 DEF Next
<1>3. QED
  BY <1>1, <1>2, LifecycleSafe, PTL DEF Spec

-----------------------------------------------------------------------------
(* The challenge bond is either forfeited to the winners or owed back. *)

\* The strengthening: a bond, once taken, stays with the market until then.
BondWasTaken ==
    ~Resolved /\ challenger # NoAccount /\ config.challengeBond > 0 => bondOutstanding

LEMMA NextBondWasTaken ==
  TypeOK /\ LifecycleInv /\ BondWasTaken /\ [Next]_vars => BondWasTaken'
<1> SUFFICES ASSUME TypeOK, LifecycleInv, BondWasTaken, [Next]_vars
             PROVE  BondWasTaken'
  OBVIOUS
<1>1. ASSUME UNCHANGED << config, challenger, bondOutstanding >>, Resolved => Resolved'
      PROVE  BondWasTaken'
  BY <1>1 DEF BondWasTaken
<1>2. ASSUME Resolved' PROVE BondWasTaken'
  BY <1>2 DEF BondWasTaken
<1>3. CASE Tick \/ Administer \/ Close \/ UNCHANGED vars
  BY <1>1, <1>3
  DEF Tick, Administer, Close, vars, challengeVars, bondVars, Resolved
<1>4. ASSUME NEW a \in Accounts, NEW side \in Outcome, NEW amount \in 0 .. Funds,
             NEW fee \in Fees, Stake(a, side, amount, fee)
      PROVE  BondWasTaken'
  BY <1>1, <1>4 DEF Stake, challengeVars, bondVars, Resolved
<1>5. ASSUME NEW r \in Resolvers, NEW outcome \in Outcome,
             NEW hash \in EvidenceHashes \cup {NoHash},
             ProposeResolution(r, outcome, hash)
      PROVE  BondWasTaken'
  BY <1>1, <1>5
  DEF ProposeResolution, Proposable, ClosedIfDue, challengeVars, bondVars, Resolved
<1>6. ASSUME NEW a \in Accounts, NEW reason \in ReasonHashes \cup {NoHash},
             NEW fee \in Fees, Challenge(a, reason, fee)
      PROVE  BondWasTaken'
  BY <1>6 DEF Challenge, BondWasTaken
<1>7. CASE Finalize
  BY <1>2, <1>7 DEF Finalize, DoCancel, DecideOutcome, SettleIfExhausted, Resolved
<1>8. ASSUME NEW reason \in CancellationReason, Cancel(reason)
      PROVE  BondWasTaken'
  BY <1>2, <1>8 DEF Cancel, DoCancel, Resolved
<1>9. ASSUME NEW a \in Accounts, Claim(a) \/ WithdrawRefund(a) \/ ClaimChallengeBond(a)
      PROVE  BondWasTaken'
  BY <1>2, <1>9, WithdrawalStates
<1>10. QED
  BY <1>3, <1>4, <1>5, <1>6, <1>7, <1>8, <1>9 DEF Next

\* Where the bond goes, as finalize() and cancel() decide it.
BondForfeitedIfConfirmed ==
    Resolved /\ challenger # NoAccount =>
        forfeitedBond = IF finalOutcome = challengedOutcome /\ ~refundMode
                          THEN config.challengeBond ELSE 0

LEMMA DecidedBond ==
  ASSUME TypeOK, LifecycleInv, BondWasTaken, state = "RESOLUTION_PROPOSED",
         DecideOutcome(proposedOutcome), finalOutcome' = proposedOutcome,
         UNCHANGED << config, challengeVars >>
  PROVE  BondForfeitedIfConfirmed'
<1>1. /\ ~Resolved /\ forfeitedBond = 0 /\ config.challengeBond \in Nat
      /\ bondOutstanding \in BOOLEAN
  BY DEF Resolved, LifecycleInv, ResultFollowsState, TypeOK, Params
<1> DEFINE refund == TotalOn(proposedOutcome) = 0
<1>2. /\ refundMode' = refund
      /\ forfeitedBond' = IF bondOutstanding /\ ~BondReturns(proposedOutcome, refund)
                            THEN config.challengeBond ELSE forfeitedBond
  BY DEF DecideOutcome
<1>3. SUFFICES ASSUME challenger # NoAccount
               PROVE  forfeitedBond' = IF proposedOutcome = challengedOutcome /\ ~refund
                                         THEN config.challengeBond ELSE 0
  BY <1>2 DEF BondForfeitedIfConfirmed, challengeVars
<1>4. CASE bondOutstanding
  BY <1>1, <1>2, <1>4 DEF BondReturns
<1>5. CASE ~bondOutstanding
  <2>1. config.challengeBond = 0
    BY <1>1, <1>3, <1>5 DEF BondWasTaken
  <2>2. QED
    BY <1>1, <1>2, <1>5, <2>1
<1>6. QED
  BY <1>1, <1>4, <1>5

LEMMA NextBondForfeited ==
  TypeOK /\ LifecycleInv /\ LifecycleInv' /\ BondWasTaken /\ BondForfeitedIfConfirmed
    /\ [Next]_vars => BondForfeitedIfConfirmed'
<1> SUFFICES ASSUME TypeOK, LifecycleInv, LifecycleInv', BondWasTaken,
                    BondForfeitedIfConfirmed, [Next]_vars
             PROVE  BondForfeitedIfConfirmed'
  OBVIOUS
<1>1. CASE Resolved
  <2>1. UNCHANGED << config, challengeVars, resultVars, forfeitedBond >>
    BY <1>1, ResolvedSteps, WithdrawalStates DEF contractVars, bondVars
  <2>2. QED
    BY <1>1, <2>1 DEF BondForfeitedIfConfirmed, challengeVars, resultVars
<1>2. CASE state' = "CANCELLED"
  BY <1>2 DEF BondForfeitedIfConfirmed, LifecycleInv, ResultFollowsState
<1>3. CASE ~Resolved /\ state' # "CANCELLED" /\ Resolved'
  <2>1. Finalize
    BY <1>3
    DEF Next, vars, Tick, Administer, Stake, Close, ProposeResolution, Challenge, Cancel,
        DoCancel, Claim, WithdrawRefund, Withdrawable, ClaimChallengeBond, Resolved
  <2>2. DecideOutcome(proposedOutcome) /\ state = "RESOLUTION_PROPOSED"
        /\ finalOutcome' = proposedOutcome /\ UNCHANGED << config, challengeVars >>
    BY <1>3, <2>1 DEF Finalize, DoCancel
  <2>3. QED
    BY <2>2, DecidedBond
<1>4. CASE ~Resolved'
  BY <1>4 DEF BondForfeitedIfConfirmed
<1>5. QED
  BY <1>1, <1>2, <1>3, <1>4

\* For any bond and any challenged outcome: the challenger loses the bond
\* exactly when the replacement confirms that outcome and somebody wins, and
\* otherwise may collect it until it has been collected.
THEOREM BondIsDecided == Spec => []BondFollowsOutcome
<1> DEFINE IInv == BondWasTaken /\ BondForfeitedIfConfirmed
<1>1. Init => IInv
  BY DEF Init, BondWasTaken, BondForfeitedIfConfirmed, Resolved
<1>2. TypeOK /\ LifecycleInv /\ IInv /\ [Next]_vars => IInv'
  BY NextBondWasTaken, NextBondForfeited, NextLifecycle
<1>3. LifecycleInv /\ IInv => BondFollowsOutcome
  BY DEF LifecycleInv, BondFollowsState, BondForfeitedIfConfirmed, BondFollowsOutcome,
         BondDue
<1>4. QED
  BY <1>1, <1>2, <1>3, LifecycleSafe, PTL DEF Spec

-----------------------------------------------------------------------------
(* A refund makes everybody whole. *)

BondPostedBy(a) ==
    IF a = challenger /\ bondOutstanding THEN config.challengeBond ELSE 0

\* The strengthening: until the resolution, every token an account came with is
\* in its wallet, in its stakes or in its bond, and nothing was paid out.
NothingPaidOut ==
    ~Resolved =>
        \A a \in Accounts :
            /\ ~hasClaimed[a]
            /\ wallet[a] + StakeOf(a) + BondPostedBy(a) = Funds

LEMMA AccountTypes ==
  ASSUME TypeOK, NEW a \in Accounts
  PROVE  /\ wallet[a] \in Nat /\ yesStake[a] \in Nat /\ noStake[a] \in Nat
         /\ StakeOf(a) \in Nat /\ BondPostedBy(a) \in Nat
         /\ config.challengeBond \in Nat
  BY DEF TypeOK, StakeOf, BondPostedBy, Params

LEMMA StakeNothingPaidOut ==
  ASSUME TypeOK, NothingPaidOut,
         NEW a \in Accounts, NEW side \in Outcome, NEW amount \in 0 .. Funds,
         NEW fee \in Fees, Stake(a, side, amount, fee), NEW b \in Accounts
  PROVE  /\ ~hasClaimed'[b]
         /\ wallet'[b] + StakeOf(b)' + BondPostedBy(b)' = Funds
<1>1. /\ ~Resolved /\ amount \in Nat
      /\ wallet' = [wallet EXCEPT ![a] = @ - amount]
      /\ UNCHANGED << config, challenger, bondOutstanding, hasClaimed >>
      /\ wallet[a] >= amount
  BY MarketAssumption
  DEF MarketAssumption, Stake, TransferIn, Resolved, challengeVars, bondVars, claimVars
<1>2. /\ wallet \in [Accounts -> Nat] /\ yesStake \in [Accounts -> Nat]
      /\ noStake \in [Accounts -> Nat]
  BY DEF TypeOK
<1>3. BondPostedBy(b)' = BondPostedBy(b) /\ ~hasClaimed'[b]
  BY <1>1 DEF BondPostedBy, NothingPaidOut
<1>4. wallet'[b] + StakeOf(b)' = wallet[b] + StakeOf(b)
  <2>1. CASE b # a
    BY <1>1, <1>2, <2>1 DEF Stake, StakeOf
  <2>2. CASE b = a
    <3>1. wallet'[a] = wallet[a] - amount
      BY <1>1, <1>2
    <3>2. StakeOf(a)' = StakeOf(a) + amount
      BY <1>1, <1>2 DEF Stake, StakeOf
    <3>3. QED
      BY <1>1, <2>2, <3>1, <3>2, AccountTypes
  <2>3. QED
    BY <2>1, <2>2
<1>5. QED
  BY <1>1, <1>3, <1>4 DEF NothingPaidOut

LEMMA ChallengeNothingPaidOut ==
  ASSUME TypeOK, LifecycleInv, NothingPaidOut, NEW a \in Accounts,
         NEW reason \in ReasonHashes \cup {NoHash}, NEW fee \in Fees,
         Challenge(a, reason, fee), NEW b \in Accounts
  PROVE  /\ ~hasClaimed'[b]
         /\ wallet'[b] + StakeOf(b)' + BondPostedBy(b)' = Funds
<1>1. /\ ~Resolved /\ challenger = NoAccount /\ challenger' = a
      /\ UNCHANGED << config, stakeVars, hasClaimed >>
  BY DEF Challenge, Resolved, RoundContestable, claimVars, LifecycleInv, ChallengedOnce,
         ResultFollowsState
<1>2. ~bondOutstanding
  BY <1>1, MarketAssumption DEF MarketAssumption, LifecycleInv, BondFollowsState
<1>3. /\ BondPostedBy(b) = 0 /\ StakeOf(b)' = StakeOf(b) /\ ~hasClaimed'[b]
      /\ wallet[b] + StakeOf(b) + BondPostedBy(b) = Funds
  BY <1>1, <1>2 DEF BondPostedBy, StakeOf, stakeVars, NothingPaidOut
<1>4. wallet'[b] + BondPostedBy(b)' = wallet[b]
  <2>1. wallet \in [Accounts -> Nat] /\ config.challengeBond \in Nat
    BY DEF TypeOK, Params
  <2>2. CASE config.challengeBond > 0 /\ b = a
    <3>1. /\ wallet' = [wallet EXCEPT ![a] = @ - config.challengeBond]
          /\ bondOutstanding'
      BY <2>2 DEF Challenge, TransferIn
    <3>2. wallet'[b] = wallet[b] - config.challengeBond
      BY <2>1, <2>2, <3>1
    <3>3. BondPostedBy(b)' = config.challengeBond
      BY <1>1, <2>2, <3>1 DEF BondPostedBy
    <3>4. QED
      BY <2>1, <3>2, <3>3, AccountTypes
  <2>3. CASE config.challengeBond > 0 /\ b # a
    BY <1>1, <2>1, <2>3 DEF Challenge, TransferIn, BondPostedBy
  <2>4. CASE ~(config.challengeBond > 0)
    BY <1>2, <2>1, <2>4, AccountTypes DEF Challenge, BondPostedBy, tokenVars
  <2>5. QED
    BY <2>2, <2>3, <2>4
<1>5. wallet'[b] \in Nat /\ BondPostedBy(b)' \in Nat
  BY <1>1, ChallengeTypeOK, AccountTypes DEF TypeOK, BondPostedBy
<1>6. QED
  BY <1>3, <1>4, <1>5, AccountTypes

LEMMA NextNothingPaidOut ==
  TypeOK /\ LifecycleInv /\ NothingPaidOut /\ [Next]_vars => NothingPaidOut'
<1> SUFFICES ASSUME TypeOK, LifecycleInv, NothingPaidOut, [Next]_vars, ~Resolved',
                    NEW b \in Accounts
             PROVE  /\ ~hasClaimed'[b]
                    /\ wallet'[b] + StakeOf(b)' + BondPostedBy(b)' = Funds
  BY DEF NothingPaidOut
<1>1. ASSUME ~Resolved,
             UNCHANGED << tokenVars, config, challenger, bondOutstanding, stakeVars,
                          hasClaimed >>
      PROVE  /\ ~hasClaimed'[b]
             /\ wallet'[b] + StakeOf(b)' + BondPostedBy(b)' = Funds
  BY <1>1 DEF NothingPaidOut, StakeOf, BondPostedBy, tokenVars, stakeVars
<1>2. CASE Tick \/ Administer \/ Close \/ UNCHANGED vars
  BY <1>1, <1>2
  DEF Tick, Administer, Close, vars, challengeVars, bondVars, claimVars, Resolved
<1>3. ASSUME NEW a \in Accounts, NEW side \in Outcome, NEW amount \in 0 .. Funds,
             NEW fee \in Fees, Stake(a, side, amount, fee)
      PROVE  /\ ~hasClaimed'[b]
             /\ wallet'[b] + StakeOf(b)' + BondPostedBy(b)' = Funds
  BY <1>3, StakeNothingPaidOut
<1>4. ASSUME NEW r \in Resolvers, NEW outcome \in Outcome,
             NEW hash \in EvidenceHashes \cup {NoHash},
             ProposeResolution(r, outcome, hash)
      PROVE  /\ ~hasClaimed'[b]
             /\ wallet'[b] + StakeOf(b)' + BondPostedBy(b)' = Funds
  <2>1. ~Resolved
    BY <1>4 DEF ProposeResolution, Proposable, ClosedIfDue, Resolved
  <2>2. QED
    BY <1>1, <1>4, <2>1 DEF ProposeResolution, challengeVars, bondVars, claimVars
<1>5. ASSUME NEW a \in Accounts, NEW reason \in ReasonHashes \cup {NoHash},
             NEW fee \in Fees, Challenge(a, reason, fee)
      PROVE  /\ ~hasClaimed'[b]
             /\ wallet'[b] + StakeOf(b)' + BondPostedBy(b)' = Funds
  BY <1>5, ChallengeNothingPaidOut
<1>6. ASSUME Finalize \/ \E reason \in CancellationReason : Cancel(reason)
      PROVE  FALSE
  BY <1>6
  DEF Finalize, Cancel, DoCancel, DecideOutcome, SettleIfExhausted, Resolved
<1>7. ASSUME NEW a \in Accounts, Claim(a) \/ WithdrawRefund(a) \/ ClaimChallengeBond(a)
      PROVE  FALSE
  BY <1>7, WithdrawalStates
<1>8. QED
  BY <1>2, <1>3, <1>4, <1>5, <1>6, <1>7 DEF Next

\* The step into refund mode owes every account what it put in.
LEMMA IntoRefundMode ==
  ASSUME TypeOK, LifecycleInv, LifecycleInv', NothingPaidOut, ~Resolved, Resolved',
         refundMode', NEW a \in Accounts,
         UNCHANGED << config, tokenVars, stakeVars, challenger, hasClaimed,
                      bondOutstanding >>
  PROVE  wallet'[a] + Due(a)' = Funds
<1>1. /\ ~hasClaimed[a] /\ wallet[a] + StakeOf(a) + BondPostedBy(a) = Funds
  BY DEF NothingPaidOut
<1>2. StakeDue(a)' = StakeOf(a)
  BY <1>1 DEF StakeDue, StakeOf, stakeVars
<1>3. BondDue(a)' = BondPostedBy(a)
  BY DEF BondDue, BondPostedBy, LifecycleInv, BondFollowsState
<1>4. wallet'[a] = wallet[a]
  BY DEF tokenVars
<1>5. QED
  BY <1>1, <1>2, <1>3, <1>4, AccountTypes DEF Due

LEMMA NextRefundMakesWhole ==
  TypeOK /\ LifecycleInv /\ LifecycleInv' /\ NothingPaidOut /\ RefundMakesWhole
    /\ [Next]_vars => RefundMakesWhole'
<1> SUFFICES ASSUME TypeOK, LifecycleInv, LifecycleInv', NothingPaidOut,
                    RefundMakesWhole, [Next]_vars, refundMode', NEW b \in Accounts
             PROVE  wallet'[b] + Due(b)' = Funds
  BY DEF RefundMakesWhole
<1>1. Resolved'
  BY DEF LifecycleInv, ResultFollowsState
<1>2. CASE Resolved
  <2>1. refundMode
    BY <1>2, ResolvedSteps, WithdrawalStates DEF contractVars, resultVars
  <2>2. wallet'[b] + Due(b)' = wallet[b] + Due(b)
    <3>1. CASE UNCHANGED contractVars
      <4>1. Due(b)' = Due(b)
        BY <1>1, <1>2, <3>1, DueUnchanged DEF contractVars, bondVars, claimVars
      <4>2. QED
        BY <3>1, <4>1 DEF contractVars, tokenVars
    <3>2. QED
      BY <1>2, <3>1, ResolvedSteps, WithdrawalKeepsEntitlements
  <2>3. QED
    BY <2>1, <2>2 DEF RefundMakesWhole
<1>3. CASE ~Resolved
  <2>1. Finalize \/ \E reason \in CancellationReason : Cancel(reason)
    BY <1>1, <1>3
    DEF Next, vars, Tick, Administer, Stake, Close, ProposeResolution, Challenge,
        Claim, WithdrawRefund, Withdrawable, ClaimChallengeBond, Resolved
  <2>2. UNCHANGED << config, tokenVars, stakeVars, challenger, hasClaimed >>
    BY <2>1 DEF Finalize, Cancel, challengeVars
  <2>3. bondOutstanding' = bondOutstanding
    <3>1. bondOutstanding \in BOOLEAN
      BY DEF TypeOK
    <3>2. ASSUME DecideOutcome(proposedOutcome) PROVE bondOutstanding' = bondOutstanding
      <4>1. TotalOn(proposedOutcome) = 0
        BY <3>2 DEF DecideOutcome
      <4>2. bondOutstanding' = (bondOutstanding /\ ~(bondOutstanding /\ ~TRUE))
        BY <3>2, <4>1 DEF DecideOutcome, BondReturns
      <4>3. QED
        BY <3>1, <4>2
    <3>3. QED
      BY <2>1, <3>2 DEF Finalize, Cancel, DoCancel
  <2>4. QED
    BY <1>1, <1>3, <2>2, <2>3, IntoRefundMode
<1>4. QED
  BY <1>2, <1>3

\* For any accounts, stakes and bond: a market that refunds - cancelled, or
\* finalized with nobody on the winning side - leaves everybody with exactly
\* the tokens they came with, withdrawn already or still due.
THEOREM RefundsAreWhole == Spec => []RefundMakesWhole
<1> DEFINE IInv == NothingPaidOut /\ RefundMakesWhole
<1>1. Init => IInv
  <2> SUFFICES ASSUME Init PROVE IInv
    OBVIOUS
  <2>1. ~refundMode
    BY DEF Init
  <2>2. ASSUME NEW a \in Accounts
        PROVE  ~hasClaimed[a] /\ wallet[a] + StakeOf(a) + BondPostedBy(a) = Funds
    BY MarketAssumption DEF MarketAssumption, Init, StakeOf, BondPostedBy
  <2>3. QED
    BY <2>1, <2>2 DEF NothingPaidOut, RefundMakesWhole
<1>2. TypeOK /\ LifecycleInv /\ IInv /\ [Next]_vars => IInv'
  BY NextNothingPaidOut, NextRefundMakesWhole, NextLifecycle
<1>3. QED
  BY <1>1, <1>2, LifecycleSafe, PTL DEF Spec

-----------------------------------------------------------------------------
(* The market always holds what its own totals say it owes. *)

LEMMA Distribute ==
  ASSUME NEW x \in Int, NEW y \in Int, NEW z \in Int
  PROVE  /\ (x - y) * z = x * z - y * z
         /\ x * z = z * x
  OBVIOUS

LEMMA SumOfThree ==
  ASSUME NEW x \in Nat, NEW y \in Nat, NEW z \in Nat
  PROVE  x + y + z \in Nat
  OBVIOUS

LEMMA InitFullyBacked == Init => FullyBacked
  BY DEF Init, FullyBacked, Resolved, BondHeld

LEMMA StakeFullyBacked ==
  ASSUME TypeOK, LifecycleInv, FullyBacked,
         NEW a \in Accounts, NEW side \in Outcome, NEW amount \in 0 .. Funds,
         NEW fee \in Fees, Stake(a, side, amount, fee)
  PROVE  FullyBacked'
<1>1. fee \in Nat /\ amount \in Nat /\ held \in Nat /\ totalYes \in Nat /\ totalNo \in Nat
  BY MarketAssumption DEF MarketAssumption, TypeOK
<1>2. held' = held + amount
  BY <1>1 DEF Stake, TransferIn, ReceivedInFull
<1>3. totalYes' + totalNo' = totalYes + totalNo + amount
  BY <1>1 DEF Stake
<1>4. ~Resolved /\ ~Resolved' /\ BondHeld' = BondHeld /\ ~refundMode'
  BY DEF Stake, Resolved, BondHeld, bondVars, resultVars, LifecycleInv,
         ResultFollowsState
<1>5. BondHeld \in Nat
  BY DEF BondHeld, TypeOK, Params
<1>6. QED
  BY <1>1, <1>2, <1>3, <1>4, <1>5 DEF FullyBacked

LEMMA ChallengeFullyBacked ==
  ASSUME TypeOK, LifecycleInv, FullyBacked,
         NEW a \in Accounts, NEW reason \in ReasonHashes \cup {NoHash},
         NEW fee \in Fees, Challenge(a, reason, fee)
  PROVE  FullyBacked'
<1>1. /\ ~Resolved /\ ~Resolved' /\ ~refundMode' /\ UNCHANGED <<totalYes, totalNo, config>>
  BY DEF Challenge, Resolved, resultVars, stakeVars, LifecycleInv, ResultFollowsState
<1>2. ~bondOutstanding
  <2>1. challenger = NoAccount
    BY <1>1 DEF Challenge, RoundContestable, LifecycleInv, ChallengedOnce,
                ResultFollowsState
  <2>2. QED
    BY <2>1, MarketAssumption DEF MarketAssumption, LifecycleInv, BondFollowsState
<1>3. /\ config.challengeBond \in Nat /\ fee \in Nat /\ held \in Nat
      /\ totalYes \in Nat /\ totalNo \in Nat
  BY MarketAssumption DEF MarketAssumption, TypeOK, Params
<1>4. held = totalYes + totalNo
  BY <1>1, <1>2, <1>3 DEF FullyBacked, BondHeld
<1>5. CASE config.challengeBond > 0
  <2>1. bondOutstanding' /\ held' = held + config.challengeBond
    BY <1>3, <1>5 DEF Challenge, TransferIn, ReceivedInFull
  <2>2. QED
    BY <1>1, <1>3, <1>4, <2>1 DEF FullyBacked, BondHeld
<1>6. CASE ~(config.challengeBond > 0)
  <2>1. ~bondOutstanding' /\ held' = held
    BY <1>2, <1>6 DEF Challenge, tokenVars
  <2>2. QED
    BY <1>1, <1>3, <1>4, <2>1 DEF FullyBacked, BondHeld
<1>7. QED
  BY <1>5, <1>6

LEMMA CancelledFullyBacked ==
  ASSUME TypeOK, FullyBacked, ~Resolved, NEW reason, DoCancel(reason),
         UNCHANGED << config, tokenVars, stakeVars >>
  PROVE  FullyBacked'
<1>1. /\ Resolved' /\ refundMode' /\ BondHeld' = BondHeld /\ held' = held
      /\ remainingClaimableStake' = totalYes + totalNo
  BY DEF DoCancel, Resolved, BondHeld, tokenVars
<1>2. held = totalYes + totalNo + BondHeld
  BY DEF FullyBacked
<1>3. QED
  BY <1>1, <1>2 DEF FullyBacked

\* Once the outcome is decided and somebody won, the market holds the pool and
\* the bond it still owes, whether the bond was forfeited or not.
LEMMA DecidedPool ==
  ASSUME TypeOK, LifecycleInv, FullyBacked,
         state = "RESOLUTION_PROPOSED", DecideOutcome(proposedOutcome),
         TotalOn(proposedOutcome) # 0, UNCHANGED << config, tokenVars, stakeVars >>
  PROVE  held' - BondHeld' = pool'
<1> DEFINE returned == BondReturns(proposedOutcome, TotalOn(proposedOutcome) = 0)
<1>1. /\ held = totalYes + totalNo + BondHeld /\ forfeitedBond = 0
      /\ held' = held /\ totalYes' = totalYes /\ totalNo' = totalNo
      /\ config' = config
  BY DEF FullyBacked, Resolved, LifecycleInv, ResultFollowsState, tokenVars, stakeVars
<1>2. /\ totalYes \in Nat /\ totalNo \in Nat /\ config.challengeBond \in Nat
      /\ BondHeld \in Nat /\ held \in Nat /\ bondOutstanding \in BOOLEAN
  BY DEF TypeOK, Params, BondHeld
<1>3. /\ bondOutstanding' = (bondOutstanding /\ returned)
      /\ forfeitedBond' =
           IF bondOutstanding /\ ~returned THEN config.challengeBond ELSE forfeitedBond
  BY <1>2 DEF DecideOutcome, BondReturns
<1>4. CASE bondOutstanding /\ ~returned
  <2>1. /\ forfeitedBond' = config.challengeBond
        /\ BondHeld = config.challengeBond
        /\ BondHeld' = 0
    BY <1>2, <1>3, <1>4 DEF BondHeld
  <2>2. QED
    BY <1>1, <1>2, <2>1 DEF pool
<1>5. CASE ~bondOutstanding \/ returned
  <2>1. bondOutstanding' = bondOutstanding /\ forfeitedBond' = 0
    BY <1>1, <1>2, <1>3, <1>5
  <2>2. QED
    BY <1>1, <1>2, <2>1 DEF BondHeld, pool
<1>6. QED
  BY <1>4, <1>5

LEMMA DecidedFullyBacked ==
  ASSUME TypeOK, LifecycleInv, FullyBacked, LifecycleInv', TypeOK',
         state = "RESOLUTION_PROPOSED",
         proposedOutcome \in {"YES", "NO"}, DecideOutcome(proposedOutcome),
         finalOutcome' = proposedOutcome,
         UNCHANGED << config, tokenVars, stakeVars >>
  PROVE  FullyBacked'
<1> DEFINE outcome == proposedOutcome
<1>1. /\ held = totalYes + totalNo + BondHeld /\ forfeitedBond = 0
      /\ held' = held /\ totalYes' = totalYes /\ totalNo' = totalNo
      /\ TotalOn(finalOutcome)' = TotalOn(outcome)
  BY DEF FullyBacked, Resolved, LifecycleInv, ResultFollowsState, TotalOn, tokenVars,
         stakeVars
<1>2. /\ totalYes \in Nat /\ totalNo \in Nat /\ config.challengeBond \in Nat
      /\ TotalOn(outcome) \in Nat /\ BondHeld \in Nat /\ held \in Nat
      /\ bondOutstanding \in BOOLEAN
  BY DEF TypeOK, Params, TotalOn, BondHeld
<1>3. /\ refundMode' = (TotalOn(outcome) = 0)
      /\ remainingClaimableStake' = ClaimableStake(outcome)
      /\ bondOutstanding'
           = (bondOutstanding /\ BondReturns(outcome, TotalOn(outcome) = 0))
      /\ forfeitedBond' =
           IF bondOutstanding /\ ~BondReturns(outcome, TotalOn(outcome) = 0)
             THEN config.challengeBond ELSE forfeitedBond
  BY <1>2 DEF DecideOutcome, BondReturns
<1>4. Resolved'
  BY DEF DecideOutcome, SettleIfExhausted, Resolved
<1>5. CASE TotalOn(outcome) = 0
  <2>1. bondOutstanding' = bondOutstanding
    BY <1>2, <1>3, <1>5 DEF BondReturns
  <2>2. BondHeld' = BondHeld
    BY <2>1 DEF BondHeld
  <2>3. remainingClaimableStake' = totalYes + totalNo
    BY <1>3, <1>5 DEF ClaimableStake
  <2>4. QED
    BY <1>1, <1>3, <1>4, <1>5, <2>2, <2>3 DEF FullyBacked
<1>6. CASE TotalOn(outcome) # 0
  <2>1. held' - BondHeld' = pool'
    BY <1>6, DecidedPool
  <2>2. remainingClaimableStake' = TotalOn(outcome) /\ ~refundMode'
    BY <1>3, <1>6 DEF ClaimableStake
  <2>3. pool' \in Nat
    <3>1. forfeitedBond' \in Nat
      BY DEF TypeOK
    <3>2. totalYes' \in Nat /\ totalNo' \in Nat
      BY <1>1, <1>2
    <3>3. pool' = totalYes' + totalNo' + forfeitedBond'
      BY DEF pool
    <3>4. totalYes' + totalNo' + forfeitedBond' \in Nat
      BY <3>1, <3>2, SumOfThree
    <3>5. QED
      BY <3>3, <3>4
  <2>4. TotalOn(outcome) * pool' = pool' * TotalOn(outcome)
    BY <1>2, <2>3, Distribute
  <2>5. remainingClaimableStake' * pool' <= (held' - BondHeld') * TotalOn(finalOutcome)'
    BY <1>1, <1>2, <2>1, <2>2, <2>3, <2>4
  <2>6. QED
    BY <1>4, <2>2, <2>5 DEF FullyBacked
<1>7. QED
  BY <1>5, <1>6

\* A payout never takes more than the claimed stake's share of the pool.
LEMMA ClaimFullyBacked ==
  ASSUME TypeOK, LifecycleInv, FullyBacked, NEW a \in Accounts, Claim(a)
  PROVE  FullyBacked'
<1> DEFINE stake == StakeOn(finalOutcome, a)
           winning == TotalOn(finalOutcome)
<1>1. /\ ~refundMode /\ state \in {"FINALIZED", "SETTLED"} /\ Resolved
      /\ PayStake(a, stake, Payout(a))
      /\ UNCHANGED << config, bondVars, resultVars, stakeVars >>
  BY DEF Claim, Resolved
<1>2. /\ Payout(a) \in Nat /\ winning \in Nat
      /\ Payout(a) * winning <= stake * pool
  BY <1>1, PayoutType DEF LifecycleInv
<1>3. /\ stake \in Nat /\ pool \in Nat /\ held \in Nat /\ BondHeld \in Nat
      /\ remainingClaimableStake \in Nat
  BY DEF TypeOK, StakeOn, pool, BondHeld, Params
<1>4. /\ remainingClaimableStake' = remainingClaimableStake - stake
      /\ held' = held - Payout(a)
  BY <1>1 DEF PayStake, TransferOut
<1>5. /\ pool' = pool /\ BondHeld' = BondHeld /\ TotalOn(finalOutcome)' = winning
      /\ ~refundMode' /\ Resolved'
  BY <1>1, WithdrawalStates
  DEF pool, BondHeld, TotalOn, bondVars, resultVars, stakeVars
<1>6. remainingClaimableStake * pool <= (held - BondHeld) * winning
  BY <1>1 DEF FullyBacked
<1>7. (remainingClaimableStake - stake) * pool
        = remainingClaimableStake * pool - stake * pool
  BY <1>3, Distribute
<1>8. ((held - BondHeld) - Payout(a)) * winning
        = (held - BondHeld) * winning - Payout(a) * winning
  BY <1>2, <1>3, Distribute
<1>9. /\ remainingClaimableStake * pool \in Int /\ stake * pool \in Int
      /\ (held - BondHeld) * winning \in Int /\ Payout(a) * winning \in Int
  BY <1>2, <1>3
<1>10. (remainingClaimableStake - stake) * pool
         <= ((held - BondHeld) - Payout(a)) * winning
  BY <1>2, <1>6, <1>7, <1>8, <1>9
<1>11. (held - BondHeld) - Payout(a) = held' - BondHeld'
  BY <1>2, <1>3, <1>4, <1>5
<1>12. remainingClaimableStake' * pool' <= (held' - BondHeld') * TotalOn(finalOutcome)'
  BY <1>4, <1>5, <1>10, <1>11
<1>13. QED
  BY <1>5, <1>12 DEF FullyBacked

LEMMA WithdrawRefundFullyBacked ==
  ASSUME TypeOK, FullyBacked, NEW a \in Accounts, WithdrawRefund(a)
  PROVE  FullyBacked'
<1>1. /\ refundMode /\ Resolved /\ PayStake(a, StakeOf(a), StakeOf(a))
      /\ UNCHANGED << config, bondVars, resultVars, stakeVars >>
  BY DEF WithdrawRefund, Withdrawable
<1>2. StakeOf(a) \in Nat /\ held \in Nat /\ remainingClaimableStake \in Nat
      /\ BondHeld \in Nat
  BY DEF StakeOf, TypeOK, BondHeld, Params
<1>3. /\ remainingClaimableStake' = remainingClaimableStake - StakeOf(a)
      /\ held' = held - StakeOf(a)
      /\ BondHeld' = BondHeld
  BY <1>1 DEF PayStake, TransferOut, BondHeld, bondVars
<1>4. Resolved' /\ refundMode'
  BY <1>1, WithdrawalStates DEF resultVars
<1>5. QED
  BY <1>1, <1>2, <1>3, <1>4 DEF FullyBacked

LEMMA ClaimChallengeBondFullyBacked ==
  ASSUME TypeOK, FullyBacked, NEW a \in Accounts, ClaimChallengeBond(a)
  PROVE  FullyBacked'
<1>1. /\ Resolved /\ Resolved'
      /\ UNCHANGED << config, forfeitedBond, resultVars, stakeVars >>
  BY WithdrawalStates
<1>2. config.challengeBond \in Nat /\ held \in Nat
  BY DEF TypeOK, Params
<1>3. /\ held' = held - config.challengeBond
      /\ BondHeld = config.challengeBond /\ BondHeld' = 0
      /\ UNCHANGED remainingClaimableStake
  BY DEF ClaimChallengeBond, TransferOut, BondHeld, claimVars
<1>4. held' - BondHeld' = held - BondHeld
  BY <1>2, <1>3
<1>5. pool' = pool /\ TotalOn(finalOutcome)' = TotalOn(finalOutcome)
      /\ refundMode' = refundMode
  BY <1>1 DEF pool, TotalOn, resultVars, stakeVars
<1>6. CASE refundMode
  <2>1. remainingClaimableStake \in Nat
    BY DEF TypeOK
  <2>2. QED
    BY <1>1, <1>2, <1>3, <1>4, <1>5, <1>6, <2>1 DEF FullyBacked
<1>7. CASE ~refundMode
  BY <1>1, <1>3, <1>4, <1>5, <1>7 DEF FullyBacked
<1>8. QED
  BY <1>6, <1>7

LEMMA NextFullyBacked ==
  TypeOK /\ LifecycleInv /\ FullyBacked /\ [Next]_vars => FullyBacked'
<1> SUFFICES ASSUME TypeOK, LifecycleInv, FullyBacked, [Next]_vars PROVE FullyBacked'
  OBVIOUS
<1>1. ASSUME UNCHANGED << tokenVars, config, bondVars, resultVars, stakeVars, claimVars >>,
             Resolved' = Resolved
      PROVE  FullyBacked'
  BY <1>1 DEF FullyBacked, BondHeld, TotalOn, pool, tokenVars, bondVars, resultVars,
              stakeVars, claimVars
<1>2. CASE Tick \/ Administer \/ Close \/ UNCHANGED vars
  BY <1>1, <1>2 DEF Tick, Administer, Close, vars, Resolved
<1>3. ASSUME NEW a \in Accounts, NEW side \in Outcome, NEW amount \in 0 .. Funds,
             NEW fee \in Fees, Stake(a, side, amount, fee)
      PROVE  FullyBacked'
  BY <1>3, StakeFullyBacked
<1>4. ASSUME NEW r \in Resolvers, NEW outcome \in Outcome,
             NEW hash \in EvidenceHashes \cup {NoHash},
             ProposeResolution(r, outcome, hash)
      PROVE  FullyBacked'
  <2>1. Resolved' = Resolved
    BY <1>4 DEF ProposeResolution, Proposable, ClosedIfDue, Resolved
  <2>2. QED
    BY <1>1, <1>4, <2>1 DEF ProposeResolution
<1>5. ASSUME NEW a \in Accounts, NEW reason \in ReasonHashes \cup {NoHash},
             NEW fee \in Fees, Challenge(a, reason, fee)
      PROVE  FullyBacked'
  BY <1>5, ChallengeFullyBacked
<1>6. CASE Finalize
  <2>1. /\ state = "RESOLUTION_PROPOSED" /\ ~Resolved
        /\ finalOutcome' = proposedOutcome
        /\ UNCHANGED << config, tokenVars, stakeVars >>
    BY <1>6 DEF Finalize, Resolved
  <2>2. CASE proposedOutcome = "INVALID"
    BY <1>6, <2>1, <2>2, CancelledFullyBacked DEF Finalize
  <2>3. CASE proposedOutcome \in {"YES", "NO"}
    <3>1. DecideOutcome(proposedOutcome)
      BY <1>6, <2>3 DEF Finalize
    <3>2. TypeOK' /\ LifecycleInv'
      BY NextTypeOK, NextLifecycle
    <3>3. QED
      BY <2>1, <2>3, <3>1, <3>2, DecidedFullyBacked
  <2>4. proposedOutcome \in {"YES", "NO", "INVALID"}
    BY <2>1 DEF TypeOK, LifecycleInv, WhileStanding, Outcome
  <2>5. QED
    BY <2>2, <2>3, <2>4
<1>7. ASSUME NEW reason \in CancellationReason, Cancel(reason)
      PROVE  FullyBacked'
  <2>1. ~Resolved
    BY <1>7 DEF Cancel, TimedOut, ClosedIfDue, Resolved
  <2>2. QED
    BY <1>7, <2>1, CancelledFullyBacked DEF Cancel
<1>8. ASSUME NEW a \in Accounts, Claim(a) PROVE FullyBacked'
  BY <1>8, ClaimFullyBacked
<1>9. ASSUME NEW a \in Accounts, WithdrawRefund(a) PROVE FullyBacked'
  BY <1>9, WithdrawRefundFullyBacked
<1>10. ASSUME NEW a \in Accounts, ClaimChallengeBond(a) PROVE FullyBacked'
  BY <1>10, ClaimChallengeBondFullyBacked
<1>11. QED
  BY <1>2, <1>3, <1>4, <1>5, <1>6, <1>7, <1>8, <1>9, <1>10 DEF Next

\* For any number of accounts, any stakes, bond and rounding, and with tokens
\* that may take a fee: the market holds the stakes and the bond until it is
\* resolved, exactly what it still owes in refund mode, and at least the share
\* of the pool the winners' unclaimed stake stands for.
THEOREM MarketFullyBacked == Spec => []FullyBacked
<1>1. Init => FullyBacked
  BY InitFullyBacked
<1>2. TypeOK /\ LifecycleInv /\ FullyBacked /\ [Next]_vars => FullyBacked'
  BY NextFullyBacked
<1>3. QED
  BY <1>1, <1>2, LifecycleSafe, PTL DEF Spec

-----------------------------------------------------------------------------
(* The totals the contract keeps are the sums over the accounts that it     *)
(* never computes.                                                           *)

TotalsAreSums ==
    /\ totalYes = SumFunction(yesStake)
    /\ totalNo = SumFunction(noStake)

LEMMA StakeFunctions ==
  ASSUME TypeOK
  PROVE  /\ IsFiniteSet(Accounts)
         /\ yesStake \in [Accounts -> Int] /\ noStake \in [Accounts -> Int]
         /\ \A a \in Accounts : yesStake[a] \in Nat /\ noStake[a] \in Nat
  BY MarketAssumption DEF MarketAssumption, TypeOK

\* One side's total after one account has added to it.
LEMMA AddedToSide ==
  ASSUME NEW stakes, NEW added, NEW a \in Accounts, NEW amount \in Nat,
         DifferAt(Accounts, stakes, added, a), added[a] = stakes[a] + amount
  PROVE  SumFunction(added) = SumFunction(stakes) + amount
<1>1. IsFiniteSet(Accounts)
  BY MarketAssumption DEF MarketAssumption
<1>2. /\ SumFunction(added) = SumFunction(stakes) + (added[a] - stakes[a])
      /\ SumFunction(stakes) \in Int
  BY <1>1, SumChangedAt
<1>3. stakes[a] \in Int
  BY DEF DifferAt, IntFunctions
<1>4. QED
  BY <1>2, <1>3

LEMMA InitTotalsAreSums == Init => TotalsAreSums
<1> SUFFICES ASSUME Init PROVE TotalsAreSums
  OBVIOUS
<1> DEFINE zero == [a \in Accounts |-> 0]
<1>1. yesStake = zero /\ noStake = zero /\ totalYes = 0 /\ totalNo = 0
  BY DEF Init
<1>2. zero \in [Accounts -> Int] /\ (\A a \in Accounts : zero[a] = 0) /\ IsFiniteSet(Accounts)
  BY MarketAssumption DEF MarketAssumption
<1> HIDE DEF zero
<1>3. SumFunction(zero) = 0
  BY <1>2, SumOfZeros
<1>4. QED
  BY <1>1, <1>3 DEF TotalsAreSums

LEMMA StakesMoveByStaking ==
  ASSUME [Next]_vars
  PROVE  \/ UNCHANGED stakeVars
         \/ /\ state = "OPEN"
            /\ \E a \in Accounts, side \in Outcome, amount \in 0 .. Funds, fee \in Fees :
                  Stake(a, side, amount, fee)
  BY DEF Next, vars, Tick, Administer, Close, ProposeResolution, Challenge, Finalize,
         Cancel, Claim, WithdrawRefund, ClaimChallengeBond, Stake

LEMMA NextTotalsAreSums == TypeOK /\ TotalsAreSums /\ [Next]_vars => TotalsAreSums'
<1> SUFFICES ASSUME TypeOK, TotalsAreSums, [Next]_vars PROVE TotalsAreSums'
  OBVIOUS
<1>1. CASE UNCHANGED stakeVars
  BY <1>1 DEF TotalsAreSums, stakeVars
<1>2. ASSUME NEW a \in Accounts, NEW side \in Outcome, NEW amount \in 0 .. Funds,
             NEW fee \in Fees, Stake(a, side, amount, fee)
      PROVE  TotalsAreSums'
  <2>1. /\ amount \in Nat /\ yesStake \in [Accounts -> Nat] /\ noStake \in [Accounts -> Nat]
        /\ totalYes = SumFunction(yesStake) /\ totalNo = SumFunction(noStake)
    BY MarketAssumption DEF MarketAssumption, TypeOK, TotalsAreSums
  <2>2. CASE side = "YES"
    <3>1. /\ yesStake' = [yesStake EXCEPT ![a] = @ + amount]
          /\ totalYes' = totalYes + amount /\ UNCHANGED <<noStake, totalNo>>
      BY <1>2, <2>2 DEF Stake
    <3>2. /\ DifferAt(Accounts, yesStake, yesStake', a)
          /\ yesStake'[a] = yesStake[a] + amount
      BY <2>1, <3>1 DEF DifferAt, IntFunctions
    <3>3. SumFunction(yesStake') = SumFunction(yesStake) + amount
      BY <2>1, <3>2, AddedToSide
    <3>4. QED
      BY <2>1, <3>1, <3>3 DEF TotalsAreSums
  <2>3. CASE side # "YES"
    <3>1. /\ noStake' = [noStake EXCEPT ![a] = @ + amount]
          /\ totalNo' = totalNo + amount /\ UNCHANGED <<yesStake, totalYes>>
      BY <1>2, <2>3 DEF Stake
    <3>2. /\ DifferAt(Accounts, noStake, noStake', a)
          /\ noStake'[a] = noStake[a] + amount
      BY <2>1, <3>1 DEF DifferAt, IntFunctions
    <3>3. SumFunction(noStake') = SumFunction(noStake) + amount
      BY <2>1, <3>2, AddedToSide
    <3>4. QED
      BY <2>1, <3>1, <3>3 DEF TotalsAreSums
  <2>4. QED
    BY <2>2, <2>3
<1>3. QED
  BY <1>1, <1>2, StakesMoveByStaking

-----------------------------------------------------------------------------
(* remainingClaimableStake is the stake of the accounts still to be paid.   *)

claimable == [a \in Accounts |-> ClaimableStakeOf(a)]

\* Nobody has withdrawn before the resolution; afterwards, outside refund mode,
\* only winners have; and the counter is the sum it stands for.
ClaimsAreCounted ==
    /\ ~Resolved => \A a \in Accounts : ~hasClaimed[a]
    /\ Resolved /\ ~refundMode =>
          \A a \in Accounts : hasClaimed[a] => StakeOn(finalOutcome, a) > 0
    /\ ClaimableMatchesStakes

LEMMA ClaimableType ==
  ASSUME TypeOK
  PROVE  /\ claimable \in [Accounts -> Nat] /\ claimable \in [Accounts -> Int]
         /\ \A a \in Accounts : claimable[a] = ClaimableStakeOf(a)
<1>1. \A a \in Accounts : ClaimableStakeOf(a) \in Nat
  BY DEF TypeOK, ClaimableStakeOf, StakeOf, StakeOn
<1>2. QED
  BY <1>1 DEF claimable

LEMMA StakesSum ==
  ASSUME TypeOK, TotalsAreSums
  PROVE  SumFunction([a \in Accounts |-> StakeOf(a)]) = totalYes + totalNo
<1> DEFINE both == [a \in Accounts |-> StakeOf(a)]
<1>1. AddUp(Accounts, yesStake, noStake, both)
  BY StakeFunctions DEF StakeOf, AddUp, IntFunctions
<1> HIDE DEF both
<1>2. SumFunction(both) = SumFunction(yesStake) + SumFunction(noStake)
  BY <1>1, StakeFunctions, SumOfSums
<1>3. QED
  BY <1>2 DEF TotalsAreSums, both

LEMMA SideSum ==
  ASSUME TypeOK, TotalsAreSums, NEW outcome \in Outcome
  PROVE  SumFunction([a \in Accounts |-> StakeOn(outcome, a)]) = TotalOn(outcome)
<1>1. [a \in Accounts |-> StakeOn(outcome, a)]
        = IF outcome = "YES" THEN yesStake ELSE noStake
  BY StakeFunctions DEF StakeOn
<1>2. QED
  BY <1>1 DEF TotalOn, TotalsAreSums

LEMMA ResolvingSteps ==
  ASSUME [Next]_vars, ~Resolved, Resolved'
  PROVE  Finalize \/ \E reason \in CancellationReason : Cancel(reason)
<1>1. ASSUME state' = state \/ state' \in {"CLOSED", "RESOLUTION_PROPOSED", "CHALLENGED"}
      PROVE  FALSE
  BY <1>1 DEF Resolved
<1>2. ~(Tick \/ Administer \/ Close \/ UNCHANGED vars)
  BY <1>1 DEF Tick, Administer, Close, vars
<1>3. \A a \in Accounts, side \in Outcome, amount \in 0 .. Funds, fee \in Fees :
         ~Stake(a, side, amount, fee)
  BY <1>1 DEF Stake
<1>4. \A r \in Resolvers, outcome \in Outcome, hash \in EvidenceHashes \cup {NoHash} :
         ~ProposeResolution(r, outcome, hash)
  BY <1>1 DEF ProposeResolution
<1>5. \A a \in Accounts, reason \in ReasonHashes \cup {NoHash}, fee \in Fees :
         ~Challenge(a, reason, fee)
  BY <1>1 DEF Challenge
<1>6. \A a \in Accounts : ~(Claim(a) \/ WithdrawRefund(a) \/ ClaimChallengeBond(a))
  BY WithdrawalStates
<1>7. QED
  BY <1>2, <1>3, <1>4, <1>5, <1>6 DEF Next

\* A step that resolves the market moves no money, and counts as claimable what
\* the way it was resolved makes claimable.
LEMMA ResolvingStep ==
  ASSUME TypeOK, LifecycleInv, [Next]_vars, ~Resolved, Resolved'
  PROVE  /\ UNCHANGED << config, tokenVars, stakeVars, hasClaimed, challengeVars >>
         /\ refundMode' => remainingClaimableStake' = totalYes + totalNo
         /\ ~refundMode' =>
               /\ finalOutcome' \in {"YES", "NO"}
               /\ TotalOn(finalOutcome') # 0
               /\ remainingClaimableStake' = TotalOn(finalOutcome')
<1>1. CASE Finalize
  <2>1. proposedOutcome \in {"YES", "NO", "INVALID"}
    BY <1>1 DEF TypeOK, LifecycleInv, WhileStanding, Finalize, Outcome
  <2>2. CASE proposedOutcome = "INVALID"
    BY <1>1, <2>2 DEF Finalize, DoCancel
  <2>3. CASE proposedOutcome \in {"YES", "NO"}
    <3>1. DecideOutcome(proposedOutcome) /\ finalOutcome' = proposedOutcome
      BY <1>1, <2>3 DEF Finalize
    <3>2. /\ refundMode' = (TotalOn(proposedOutcome) = 0)
          /\ remainingClaimableStake' = ClaimableStake(proposedOutcome)
      BY <3>1 DEF DecideOutcome
    <3>3. UNCHANGED << config, tokenVars, stakeVars, hasClaimed, challengeVars >>
      BY <1>1 DEF Finalize
    <3>4. QED
      BY <2>3, <3>1, <3>2, <3>3 DEF ClaimableStake
  <2>4. QED
    BY <2>1, <2>2, <2>3
<1>2. ASSUME NEW reason \in CancellationReason, Cancel(reason) PROVE
         /\ UNCHANGED << config, tokenVars, stakeVars, hasClaimed, challengeVars >>
         /\ refundMode' /\ remainingClaimableStake' = totalYes + totalNo
  BY <1>2 DEF Cancel, DoCancel
<1>3. Finalize \/ \E reason \in CancellationReason : Cancel(reason)
  BY ResolvingSteps
<1>4. QED
  BY <1>1, <1>2, <1>3

LEMMA ClaimsFollowResolution ==
  ASSUME [Next]_vars, ~Resolved
  PROVE  UNCHANGED hasClaimed
<1>1. \A a \in Accounts : ~(Claim(a) \/ WithdrawRefund(a) \/ ClaimChallengeBond(a))
  BY WithdrawalStates
<1>2. QED
  BY <1>1 DEF Next, vars, Tick, Administer, Close, ProposeResolution, Challenge, Finalize,
              Cancel, Stake, claimVars

LEMMA ResolvedClaimsCounted ==
  ASSUME TypeOK, LifecycleInv, TotalsAreSums, ClaimsAreCounted, [Next]_vars,
         ~Resolved, Resolved'
  PROVE  ClaimsAreCounted'
<1>1. \A a \in Accounts : ~hasClaimed'[a]
  BY ResolvingStep DEF ClaimsAreCounted
<1>2. UNCHANGED stakeVars
  BY ResolvingStep
<1>3. CASE refundMode'
  <2>1. [a \in Accounts |-> ClaimableStakeOf(a)]' = [a \in Accounts |-> StakeOf(a)]
    BY <1>1, <1>2, <1>3 DEF ClaimableStakeOf, StakeOf, stakeVars
  <2>2. remainingClaimableStake' = totalYes + totalNo
    BY <1>3, ResolvingStep
  <2>3. ClaimableMatchesStakes'
    BY <2>1, <2>2, StakesSum DEF ClaimableMatchesStakes
  <2>4. QED
    BY <1>3, <2>3 DEF ClaimsAreCounted
<1>4. CASE ~refundMode'
  <2>1. /\ finalOutcome' \in Outcome
        /\ remainingClaimableStake' = TotalOn(finalOutcome')
    BY <1>4, ResolvingStep DEF Outcome
  <2>2. [a \in Accounts |-> ClaimableStakeOf(a)]'
          = [a \in Accounts |-> StakeOn(finalOutcome', a)]
    BY <1>1, <1>2, <1>4 DEF ClaimableStakeOf, StakeOn, stakeVars
  <2>3. SumFunction([a \in Accounts |-> StakeOn(finalOutcome', a)]) = TotalOn(finalOutcome')
    BY <2>1, SideSum
  <2>4. ClaimableMatchesStakes'
    BY <2>1, <2>2, <2>3 DEF ClaimableMatchesStakes
  <2>5. QED
    BY <1>1, <2>4 DEF ClaimsAreCounted
<1>5. QED
  BY <1>3, <1>4

\* A withdrawal takes exactly the claimed stake out of the counter.
LEMMA PaidClaimsCounted ==
  ASSUME TypeOK, TypeOK', ClaimsAreCounted, Resolved, NEW a \in Accounts,
         Claim(a) \/ WithdrawRefund(a)
  PROVE  ClaimsAreCounted'
<1>1. /\ Resolved' /\ ~hasClaimed[a]
      /\ hasClaimed' = [hasClaimed EXCEPT ![a] = TRUE]
      /\ UNCHANGED << resultVars, stakeVars >>
      /\ remainingClaimableStake' = remainingClaimableStake - ClaimableStakeOf(a)
      /\ ~refundMode => StakeOn(finalOutcome, a) > 0
  <2>1. CASE Claim(a)
    BY <2>1, WithdrawalStates DEF Claim, PayStake, ClaimableStakeOf
  <2>2. CASE WithdrawRefund(a)
    BY <2>2, WithdrawalStates DEF WithdrawRefund, PayStake, ClaimableStakeOf
  <2>3. QED
    BY <2>1, <2>2
<1>2. \A b \in Accounts : StakeOf(b)' = StakeOf(b)
                         /\ StakeOn(finalOutcome, b)' = StakeOn(finalOutcome, b)
  BY <1>1 DEF StakeOf, StakeOn, stakeVars, resultVars
<1>3. hasClaimed \in [Accounts -> BOOLEAN]
  BY DEF TypeOK
<1>4. /\ ClaimableStakeOf(a)' = 0
      /\ \A b \in Accounts : b # a => ClaimableStakeOf(b)' = ClaimableStakeOf(b)
  BY <1>1, <1>2, <1>3 DEF ClaimableStakeOf, resultVars
<1>5. DifferAt(Accounts, claimable, claimable', a) /\ claimable'[a] = 0
  <2>1. claimable \in [Accounts -> Int] /\ \A b \in Accounts : claimable[b] = ClaimableStakeOf(b)
    BY ClaimableType
  <2>2. claimable' \in [Accounts -> Int]
    <3>1. \A b \in Accounts : ClaimableStakeOf(b)' \in Int
      BY <1>4, <2>1
    <3>2. QED
      BY <3>1 DEF claimable
  <2>3. \A b \in Accounts : claimable'[b] = ClaimableStakeOf(b)'
    BY DEF claimable
  <2>4. QED
    BY <1>4, <2>1, <2>2, <2>3 DEF DifferAt, IntFunctions
<1>6. IsFiniteSet(Accounts)
  BY StakeFunctions
<1>7. SumFunction(claimable') = SumFunction(claimable) + (claimable'[a] - claimable[a])
  BY <1>5, <1>6, SumChangedAt
<1>8. claimable[a] = ClaimableStakeOf(a) /\ claimable[a] \in Int
  BY ClaimableType
<1>9. remainingClaimableStake = SumFunction(claimable)
  BY DEF ClaimsAreCounted, ClaimableMatchesStakes, claimable
<1>10. SumFunction(claimable) \in Int
  BY <1>9 DEF TypeOK
<1>11. remainingClaimableStake' = SumFunction(claimable')
  BY <1>1, <1>5, <1>7, <1>8, <1>9, <1>10
<1>12. ClaimableMatchesStakes'
  BY <1>11 DEF ClaimableMatchesStakes, claimable
<1>13. ~refundMode' => \A b \in Accounts : hasClaimed'[b] => StakeOn(finalOutcome, b)' > 0
  BY <1>1, <1>2, <1>3 DEF ClaimsAreCounted, resultVars
<1>14. QED
  BY <1>1, <1>12, <1>13 DEF ClaimsAreCounted

LEMMA NextClaimsAreCounted ==
  TypeOK /\ LifecycleInv /\ TotalsAreSums /\ ClaimsAreCounted /\ [Next]_vars
    => ClaimsAreCounted'
<1> SUFFICES ASSUME TypeOK, LifecycleInv, TotalsAreSums, ClaimsAreCounted, [Next]_vars
             PROVE  ClaimsAreCounted'
  OBVIOUS
<1>0. TypeOK'
  BY NextTypeOK
<1>1. ASSUME Resolved, Resolved',
             UNCHANGED << hasClaimed, remainingClaimableStake, resultVars, stakeVars >>
      PROVE  ClaimsAreCounted'
  <2>1. \A b \in Accounts : /\ ClaimableStakeOf(b)' = ClaimableStakeOf(b)
                            /\ StakeOn(finalOutcome, b)' = StakeOn(finalOutcome, b)
    BY <1>1 DEF ClaimableStakeOf, StakeOf, StakeOn, resultVars, stakeVars
  <2>2. [a \in Accounts |-> ClaimableStakeOf(a)]' = [a \in Accounts |-> ClaimableStakeOf(a)]
    BY <2>1
  <2>3. QED
    BY <1>1, <2>1, <2>2 DEF ClaimsAreCounted, ClaimableMatchesStakes, resultVars
<1>2. CASE Resolved
  <2>1. CASE UNCHANGED contractVars
    BY <1>1, <1>2, <2>1 DEF contractVars, claimVars, Resolved
  <2>2. ASSUME NEW a \in Accounts, Claim(a) \/ WithdrawRefund(a) PROVE ClaimsAreCounted'
    BY <1>0, <1>2, <2>2, PaidClaimsCounted
  <2>3. ASSUME NEW a \in Accounts, ClaimChallengeBond(a) PROVE ClaimsAreCounted'
    <3>1. UNCHANGED << hasClaimed, remainingClaimableStake, resultVars, stakeVars >>
      BY <2>3 DEF ClaimChallengeBond, claimVars
    <3>2. Resolved'
      BY <2>3, WithdrawalStates
    <3>3. QED
      BY <1>1, <1>2, <3>1, <3>2
  <2>4. QED
    BY <1>2, <2>1, <2>2, <2>3, ResolvedSteps
<1>3. CASE ~Resolved /\ Resolved'
  BY <1>3, ResolvedClaimsCounted
<1>4. CASE ~Resolved /\ ~Resolved'
  BY <1>4, ClaimsFollowResolution DEF ClaimsAreCounted, ClaimableMatchesStakes
<1>5. QED
  BY <1>2, <1>3, <1>4

\* The counter of claimable stake is the sum of the stakes still to be paid, for
\* every set of accounts and every order of withdrawals: the contract's checked
\* subtraction from it cannot revert a claim.
THEOREM ClaimableIsExact == Spec => []ClaimableMatchesStakes
<1> DEFINE IInv == TotalsAreSums /\ ClaimsAreCounted
<1>1. Init => IInv
  BY InitTotalsAreSums DEF Init, ClaimsAreCounted, ClaimableMatchesStakes, Resolved
<1>2. TypeOK /\ LifecycleInv /\ IInv /\ [Next]_vars => IInv'
  BY NextTotalsAreSums, NextClaimsAreCounted
<1>3. IInv => ClaimableMatchesStakes
  BY DEF ClaimsAreCounted
<1>4. QED
  BY <1>1, <1>2, <1>3, LifecycleSafe, PTL DEF Spec

-----------------------------------------------------------------------------
(* Solvency: what the accounts are due, summed, never exceeds what is held. *)

LEMMA ResolvedMarket ==
  ASSUME TypeOK, LifecycleInv, Resolved, ~refundMode
  PROVE  /\ state \in {"FINALIZED", "SETTLED"}
         /\ finalOutcome \in {"YES", "NO"}
         /\ TotalOn(finalOutcome) \in Nat \ {0}
         /\ pool \in Nat /\ TotalOn(finalOutcome) <= pool
<1>1. state \in {"FINALIZED", "SETTLED"}
  BY DEF Resolved, LifecycleInv, ResultFollowsState
<1>2. finalOutcome \in {"YES", "NO"} /\ TotalOn(finalOutcome) # 0
  BY <1>1 DEF LifecycleInv, ResultFollowsState
<1>3. totalYes \in Nat /\ totalNo \in Nat /\ forfeitedBond \in Nat
  BY DEF TypeOK
<1>4. QED
  BY <1>1, <1>2, <1>3 DEF TotalOn, pool

\* What is owed splits into stakes and the one bond.
LEMMA DueSplits ==
  ASSUME TypeOK, LifecycleInv, Resolved
  PROVE  /\ SumFunction([a \in Accounts |-> Due(a)])
              = SumFunction([a \in Accounts |-> StakeDue(a)]) + BondHeld
         /\ [a \in Accounts |-> StakeDue(a)] \in [Accounts -> Nat]
         /\ SumFunction([a \in Accounts |-> StakeDue(a)]) \in Nat
         /\ BondHeld \in Nat
<1> DEFINE due == [a \in Accounts |-> Due(a)]
           stakes == [a \in Accounts |-> StakeDue(a)]
           bonds == [a \in Accounts |-> BondDue(a)]
<1>1. IsFiniteSet(Accounts)
  BY StakeFunctions
<1>2. AddUp(Accounts, stakes, bonds, due) /\ stakes \in [Accounts -> Nat]
  <2>1. \A a \in Accounts : StakeDue(a) \in Nat /\ BondDue(a) \in Nat
    BY DueType
  <2>2. QED
    BY <2>1 DEF AddUp, IntFunctions, Due
<1>3. config.challengeBond \in Nat /\ BondHeld \in Nat
  BY DEF TypeOK, Params, BondHeld
<1>4. SumFunction(bonds) = BondHeld
  <2>1. CASE bondOutstanding
    <3>1. challenger \in Accounts /\ bondRefundable
      BY <2>1 DEF LifecycleInv, BondFollowsState
    <3>2. OnlyAt(Accounts, bonds, challenger) /\ bonds[challenger] = config.challengeBond
      BY <1>3, <2>1, <3>1 DEF OnlyAt, BondDue
    <3>3. BondHeld = config.challengeBond
      BY <2>1 DEF BondHeld
    <3> HIDE DEF bonds
    <3>4. QED
      BY <1>1, <3>2, <3>3, SumOfOne
  <2>2. CASE ~bondOutstanding
    <3>1. bonds \in [Accounts -> Int] /\ \A a \in Accounts : bonds[a] = 0
      BY <2>2 DEF BondDue
    <3> HIDE DEF bonds
    <3>2. SumFunction(bonds) = 0
      BY <1>1, <3>1, SumOfZeros
    <3>3. QED
      BY <2>2, <3>2 DEF BondHeld
  <2>3. QED
    BY <2>1, <2>2
<1> HIDE DEF due, stakes, bonds
<1>5. SumFunction(due) = SumFunction(stakes) + SumFunction(bonds)
  BY <1>1, <1>2, SumOfSums
<1>6. SumFunction(stakes) \in Nat
  BY <1>1, <1>2, SumNat
<1>7. QED
  BY <1>2, <1>3, <1>4, <1>5, <1>6 DEF due, stakes

\* In refund mode an account is due the stake it has not withdrawn.
LEMMA RefundsDue ==
  ASSUME TypeOK, Resolved, refundMode, NEW a \in Accounts
  PROVE  StakeDue(a) = ClaimableStakeOf(a)
  BY DEF StakeDue, ClaimableStakeOf

LEMMA FloorRemainder ==
  ASSUME NEW n \in Nat, NEW d \in Nat \ {0}, d <= n
  PROVE  /\ n \div d \in Nat
         /\ (n \div d) * d <= n
         /\ n - (n \div d) * d <= d - 1
         /\ n \div d > 0
  OBVIOUS

\* A winner is due their stake's share of the pool, rounded down: less than one
\* unit of the divisor is lost, and only by winners who have not claimed yet.
LEMMA SharesDue ==
  ASSUME TypeOK, LifecycleInv, Resolved, ~refundMode, NEW a \in Accounts
  PROVE  /\ StakeDue(a) \in Nat /\ ClaimableStakeOf(a) \in Nat
         /\ StakeDue(a) * TotalOn(finalOutcome) <= ClaimableStakeOf(a) * pool
         /\ ClaimableStakeOf(a) * pool - StakeDue(a) * TotalOn(finalOutcome)
              <= IF ~hasClaimed[a] /\ StakeOn(finalOutcome, a) > 0
                   THEN TotalOn(finalOutcome) - 1 ELSE 0
         /\ ClaimableStakeOf(a) > 0 => StakeDue(a) > 0
<1> DEFINE W == TotalOn(finalOutcome)
           s == StakeOn(finalOutcome, a)
<1>1. /\ W \in Nat \ {0} /\ pool \in Nat /\ W <= pool /\ s \in Nat
      /\ hasClaimed[a] \in BOOLEAN
  BY ResolvedMarket DEF TypeOK, StakeOn
<1>2. CASE hasClaimed[a] \/ s = 0
  <2>1. StakeDue(a) = 0 /\ ClaimableStakeOf(a) = 0
    BY <1>1, <1>2 DEF StakeDue, ClaimableStakeOf
  <2>2. StakeDue(a) * W = 0 /\ ClaimableStakeOf(a) * pool = 0
    BY <1>1, <2>1
  <2>3. ~(~hasClaimed[a] /\ s > 0)
    BY <1>2
  <2>4. QED
    BY <2>1, <2>2, <2>3
<1>3. CASE ~hasClaimed[a] /\ s > 0
  <2>1. StakeDue(a) = (s * pool) \div W /\ ClaimableStakeOf(a) = s
    BY <1>3 DEF StakeDue, ClaimableStakeOf, Payout
  <2>2. s * pool \in Nat /\ W <= s * pool
    BY <1>1, <1>3
  <2>3. /\ (s * pool) \div W \in Nat
        /\ ((s * pool) \div W) * W <= s * pool
        /\ s * pool - ((s * pool) \div W) * W <= W - 1
        /\ (s * pool) \div W > 0
    BY <1>1, <2>2, FloorRemainder
  <2>4. QED
    BY <1>1, <1>3, <2>1, <2>3
<1>4. QED
  BY <1>1, <1>2, <1>3

LEMMA MonotoneProduct ==
  ASSUME NEW x \in Int, NEW y \in Int, NEW d \in Nat \ {0}, x * d <= y * d
  PROVE  x <= y
  OBVIOUS

LEMMA BackedIsSolvent ==
  ASSUME TypeOK, LifecycleInv, FullyBacked, TotalsAreSums, ClaimsAreCounted
  PROVE  Solvency
<1> DEFINE stakes == [a \in Accounts |-> StakeDue(a)]
           scaled == [a \in Accounts |-> StakeDue(a) * TotalOn(finalOutcome)]
           shares == [a \in Accounts |-> ClaimableStakeOf(a) * pool]
<1>0. /\ IsFiniteSet(Accounts) /\ claimable \in [Accounts -> Int]
      /\ \A a \in Accounts : claimable[a] = ClaimableStakeOf(a)
      /\ held \in Nat /\ remainingClaimableStake \in Nat
  BY StakeFunctions, ClaimableType DEF TypeOK
<1>1. CASE ~Resolved
  BY <1>1, StakesSum DEF Solvency, FullyBacked
<1>2. CASE Resolved /\ refundMode
  <2>1. stakes = claimable
    BY <1>2, RefundsDue DEF claimable
  <2>2. SumFunction(stakes) = remainingClaimableStake
    BY <1>2, <2>1 DEF ClaimsAreCounted, ClaimableMatchesStakes, claimable
  <2>3. held = remainingClaimableStake + BondHeld /\ BondHeld \in Nat
    BY <1>2, DueSplits DEF FullyBacked
  <2>4. QED
    BY <1>0, <1>2, <2>2, <2>3, DueSplits DEF Solvency
<1>3. CASE Resolved /\ ~refundMode
  <2>1. /\ TotalOn(finalOutcome) \in Nat \ {0} /\ pool \in Nat
        /\ SumFunction(stakes) \in Nat /\ BondHeld \in Nat
        /\ stakes \in [Accounts -> Nat]
    BY <1>3, ResolvedMarket, DueSplits
  <2>2. ScaledBy(Accounts, stakes, TotalOn(finalOutcome), scaled)
    BY <2>1 DEF ScaledBy, IntFunctions
  <2>3. ScaledBy(Accounts, claimable, pool, shares)
    BY <1>0, <2>1 DEF ScaledBy, IntFunctions
  <2>4. NowhereAbove(Accounts, scaled, shares)
    <3>1. \A a \in Accounts : scaled[a] <= shares[a]
      BY <1>3, SharesDue
    <3>2. QED
      BY <2>2, <2>3, <3>1 DEF NowhereAbove, ScaledBy, IntFunctions
  <2> HIDE DEF stakes, scaled, shares
  <2>5. SumFunction(scaled) = SumFunction(stakes) * TotalOn(finalOutcome)
    BY <1>0, <2>2, SumScaled
  <2>6. SumFunction(shares) = SumFunction(claimable) * pool
    BY <1>0, <2>3, SumScaled
  <2>7. SumFunction(scaled) <= SumFunction(shares)
    BY <1>0, <2>4, SumMonotone
  <2>8. SumFunction(claimable) = remainingClaimableStake
    BY <1>3 DEF ClaimsAreCounted, ClaimableMatchesStakes, claimable
  <2>9. remainingClaimableStake * pool <= (held - BondHeld) * TotalOn(finalOutcome)
    BY <1>3 DEF FullyBacked
  <2>10. SumFunction(stakes) * TotalOn(finalOutcome)
           <= (held - BondHeld) * TotalOn(finalOutcome)
    <3>1. /\ SumFunction(stakes) * TotalOn(finalOutcome) \in Int
          /\ remainingClaimableStake * pool \in Int
          /\ (held - BondHeld) * TotalOn(finalOutcome) \in Int
      BY <1>0, <2>1
    <3>2. QED
      BY <2>5, <2>6, <2>7, <2>8, <2>9, <3>1
  <2>11. SumFunction(stakes) <= held - BondHeld
    BY <1>0, <2>1, <2>10, MonotoneProduct
  <2>12. SumFunction(stakes) + BondHeld <= held
    BY <1>0, <2>1, <2>11
  <2>13. QED
    BY <1>3, <2>12, DueSplits DEF Solvency, stakes
<1>4. QED
  BY <1>1, <1>2, <1>3

\* For any number of accounts, any stakes, rounding and order of withdrawals: the
\* market holds every token that was put in until it is resolved, and from then
\* on at least what all accounts together may still withdraw.
THEOREM MarketSolvent == Spec => []Solvency
<1> DEFINE IInv == FullyBacked /\ TotalsAreSums /\ ClaimsAreCounted
<1>1. Init => IInv
  BY InitFullyBacked, InitTotalsAreSums
  DEF Init, ClaimsAreCounted, ClaimableMatchesStakes, Resolved
<1>2. TypeOK /\ LifecycleInv /\ IInv /\ [Next]_vars => IInv'
  BY NextFullyBacked, NextTotalsAreSums, NextClaimsAreCounted
<1>3. TypeOK /\ LifecycleInv /\ IInv => Solvency
  BY BackedIsSolvent
<1>4. QED
  BY <1>1, <1>2, <1>3, LifecycleSafe, PTL DEF Spec

-----------------------------------------------------------------------------
(* SETTLED: nobody has anything left. *)

LEMMA ClaimableIsDue ==
  ASSUME TypeOK, LifecycleInv, Resolved, NEW a \in Accounts
  PROVE  ClaimableStakeOf(a) > 0 <=> StakeDue(a) > 0
<1>1. CASE refundMode
  BY <1>1, RefundsDue
<1>2. CASE ~refundMode
  <2>1. /\ StakeDue(a) \in Nat /\ ClaimableStakeOf(a) \in Nat
        /\ ClaimableStakeOf(a) > 0 => StakeDue(a) > 0
    BY <1>2, SharesDue
  <2>2. StakeDue(a) > 0 => StakeOn(finalOutcome, a) > 0 /\ ~hasClaimed[a]
    BY <1>2 DEF StakeDue
  <2>3. QED
    BY <1>2, <2>1, <2>2 DEF ClaimableStakeOf
<1>3. QED
  BY <1>1, <1>2

LEMMA CountedIsSettled ==
  ASSUME TypeOK, LifecycleInv, ClaimsAreCounted
  PROVE  SettledExactly
<1> SUFFICES ASSUME state \in {"FINALIZED", "SETTLED"}
             PROVE  state = "SETTLED" <=> \A a \in Accounts : Due(a) = 0
  BY DEF SettledExactly
<1>1. Resolved /\ IsFiniteSet(Accounts)
  BY StakeFunctions DEF Resolved
<1>2. /\ remainingClaimableStake = SumFunction(claimable)
      /\ claimable \in [Accounts -> Nat]
      /\ \A a \in Accounts : claimable[a] = ClaimableStakeOf(a)
  BY <1>1, ClaimableType DEF ClaimsAreCounted, ClaimableMatchesStakes, claimable
<1>3. remainingClaimableStake = 0 <=> \A a \in Accounts : ClaimableStakeOf(a) = 0
  BY <1>1, <1>2, SumNat
<1>4. \A a \in Accounts : /\ StakeDue(a) \in Nat /\ BondDue(a) \in Nat
                          /\ ClaimableStakeOf(a) \in Nat
                          /\ ClaimableStakeOf(a) > 0 <=> StakeDue(a) > 0
  <2>1. \A a \in Accounts : ClaimableStakeOf(a) \in Nat
    BY <1>2
  <2>2. QED
    BY <1>1, <2>1, DueType, ClaimableIsDue
<1>5. bondOutstanding <=> \E a \in Accounts : BondDue(a) > 0
  BY <1>1 DEF LifecycleInv, BondFollowsState, BondDue
<1>6. (\A a \in Accounts : Due(a) = 0) <=> remainingClaimableStake = 0 /\ ~bondOutstanding
  BY <1>3, <1>4, <1>5 DEF Due
<1>7. remainingClaimableStake \in Nat
  BY DEF TypeOK
<1>8. QED
  BY <1>6, <1>7 DEF LifecycleInv, SettlementFollowsState

\* SETTLED is exactly the state in which no account has anything to withdraw:
\* reached by the last withdrawal, whichever it is, and never before.
THEOREM SettlementIsExact == Spec => []SettledExactly
<1> DEFINE IInv == TotalsAreSums /\ ClaimsAreCounted
<1>1. Init => IInv
  BY InitTotalsAreSums DEF Init, ClaimsAreCounted, ClaimableMatchesStakes, Resolved
<1>2. TypeOK /\ LifecycleInv /\ IInv /\ [Next]_vars => IInv'
  BY NextTotalsAreSums, NextClaimsAreCounted
<1>3. TypeOK /\ LifecycleInv /\ IInv => SettledExactly
  BY CountedIsSettled
<1>4. QED
  BY <1>1, <1>2, <1>3, LifecycleSafe, PTL DEF Spec

-----------------------------------------------------------------------------
(* Rounding.  What the market holds beyond the winners' shares is at most    *)
(* the remainder of the divisions made so far.                               *)

claimants == {a \in Accounts : hasClaimed[a]}

RoundingIsCounted ==
    Resolved /\ ~refundMode =>
        (held - BondHeld) * TotalOn(finalOutcome) - remainingClaimableStake * pool
          <= Cardinality(claimants) * (TotalOn(finalOutcome) - 1)

LEMMA ClaimantsFinite ==
  IsFiniteSet(claimants) /\ Cardinality(claimants) \in Nat
<1>1. claimants \in SUBSET Accounts /\ IsFiniteSet(Accounts)
  BY MarketAssumption DEF MarketAssumption, claimants
<1>2. QED
  BY <1>1, FS_Subset, FS_CardinalityType

LEMMA DecidedRounding ==
  ASSUME TypeOK, LifecycleInv, LifecycleInv', TypeOK', FullyBacked, ClaimsAreCounted,
         [Next]_vars, ~Resolved, Resolved', ~refundMode'
  PROVE  RoundingIsCounted'
<1>1. /\ finalOutcome' \in {"YES", "NO"}
      /\ TotalOn(finalOutcome') # 0
      /\ remainingClaimableStake' = TotalOn(finalOutcome')
      /\ UNCHANGED << config, tokenVars, stakeVars, hasClaimed >>
  BY ResolvingStep
<1>2. Finalize /\ DecideOutcome(proposedOutcome) /\ finalOutcome' = proposedOutcome
  <2>1. \A reason \in CancellationReason : ~Cancel(reason)
    BY DEF Cancel, DoCancel
  <2>2. Finalize
    BY <2>1, ResolvingSteps
  <2>3. QED
    BY <2>2 DEF Finalize, DoCancel
<1>3. held' - BondHeld' = pool'
  BY <1>1, <1>2, DecidedPool DEF Finalize
<1>4. TotalOn(finalOutcome)' = TotalOn(finalOutcome')
  BY <1>1 DEF TotalOn, stakeVars
<1>5. pool' \in Nat /\ TotalOn(finalOutcome)' \in Nat /\ TotalOn(finalOutcome)' # 0
  <2>1. totalYes' \in Nat /\ totalNo' \in Nat /\ forfeitedBond' \in Nat
    BY DEF TypeOK
  <2>2. pool' \in Nat
    BY <2>1, SumOfThree DEF pool
  <2>3. TotalOn(finalOutcome)' \in Nat /\ TotalOn(finalOutcome)' # 0
    BY <1>1, <1>4, <2>1 DEF TotalOn
  <2>4. QED
    BY <2>2, <2>3
<1>6. claimants' = {}
  BY <1>1 DEF claimants, ClaimsAreCounted
<1>7. Cardinality(claimants') = 0
  BY <1>6, FS_EmptySet
<1>8. pool' * TotalOn(finalOutcome)' - TotalOn(finalOutcome)' * pool' = 0
  BY <1>5
<1>9. QED
  BY <1>1, <1>3, <1>4, <1>5, <1>7, <1>8 DEF RoundingIsCounted

LEMMA ClaimRounding ==
  ASSUME TypeOK, TypeOK', LifecycleInv, RoundingIsCounted, NEW a \in Accounts, Claim(a)
  PROVE  RoundingIsCounted'
<1> DEFINE W == TotalOn(finalOutcome)
           s == StakeOn(finalOutcome, a)
           h == held - BondHeld
           r == remainingClaimableStake
           c == Cardinality(claimants)
<1>1. /\ Resolved /\ Resolved' /\ ~refundMode /\ ~refundMode' /\ ~hasClaimed[a] /\ s > 0
      /\ hasClaimed' = [hasClaimed EXCEPT ![a] = TRUE]
      /\ remainingClaimableStake' = r - s
      /\ held' = held - Payout(a)
      /\ UNCHANGED << config, bondVars, resultVars, stakeVars >>
  BY WithdrawalStates DEF Claim, PayStake, TransferOut, resultVars
<1>2. /\ W \in Nat \ {0} /\ pool \in Nat
      /\ StakeDue(a) * W <= ClaimableStakeOf(a) * pool
      /\ ClaimableStakeOf(a) * pool - StakeDue(a) * W <= W - 1
      /\ StakeDue(a) \in Nat /\ ClaimableStakeOf(a) \in Nat
  BY <1>1, ResolvedMarket, SharesDue
<1>3. StakeDue(a) = Payout(a) /\ ClaimableStakeOf(a) = s
  BY <1>1 DEF StakeDue, ClaimableStakeOf
<1>4. /\ pool' = pool /\ BondHeld' = BondHeld /\ TotalOn(finalOutcome)' = W
  BY <1>1 DEF pool, BondHeld, TotalOn, bondVars, resultVars, stakeVars
<1>5. claimants' = claimants \cup {a} /\ a \notin claimants
  BY <1>1 DEF claimants, TypeOK
<1>6. Cardinality(claimants') = c + 1 /\ c \in Nat
  BY <1>5, ClaimantsFinite, FS_AddElement
<1>7. h \in Int /\ r \in Int /\ held' - BondHeld' = h - Payout(a)
  <2>1. held \in Nat /\ BondHeld \in Nat /\ r \in Nat
    BY DEF TypeOK, BondHeld, Params
  <2>2. QED
    BY <1>1, <1>2, <1>3, <1>4, <2>1
<1>8. h * W - r * pool <= c * (W - 1)
  BY <1>1 DEF RoundingIsCounted
<1>9. /\ (h - Payout(a)) * W = h * W - Payout(a) * W
      /\ (r - s) * pool = r * pool - s * pool
      /\ (c + 1) * (W - 1) = c * (W - 1) + (W - 1)
  <2>1. Payout(a) \in Int /\ s \in Int /\ W \in Int /\ pool \in Int
    BY <1>2, <1>3
  <2>2. (h - Payout(a)) * W = h * W - Payout(a) * W /\ (r - s) * pool = r * pool - s * pool
    BY <1>7, <2>1, Distribute
  <2>3. (c + 1) * (W - 1) = c * (W - 1) + (W - 1)
    BY <1>6, <2>1
  <2>4. QED
    BY <2>2, <2>3
<1>10. (h - Payout(a)) * W - (r - s) * pool <= (c + 1) * (W - 1)
  <2>1. /\ h * W \in Int /\ Payout(a) * W \in Int /\ r * pool \in Int /\ s * pool \in Int
        /\ c * (W - 1) \in Int /\ W \in Int
    BY <1>2, <1>3, <1>6, <1>7
  <2>2. s * pool - Payout(a) * W <= W - 1
    BY <1>2, <1>3
  <2> HIDE DEF h, r, c, W, s
  <2>3. QED
    BY <1>8, <1>9, <2>1, <2>2
<1>11. QED
  BY <1>1, <1>4, <1>6, <1>7, <1>10 DEF RoundingIsCounted

LEMMA NextRoundingIsCounted ==
  TypeOK /\ LifecycleInv /\ FullyBacked /\ ClaimsAreCounted /\ RoundingIsCounted
    /\ [Next]_vars => RoundingIsCounted'
<1> SUFFICES ASSUME TypeOK, LifecycleInv, FullyBacked, ClaimsAreCounted,
                    RoundingIsCounted, [Next]_vars, Resolved', ~refundMode'
             PROVE  RoundingIsCounted'
  BY DEF RoundingIsCounted
<1>0. TypeOK' /\ LifecycleInv'
  BY NextTypeOK, NextLifecycle
<1>1. CASE ~Resolved
  BY <1>0, <1>1, DecidedRounding
<1>2. CASE Resolved
  <2>1. CASE UNCHANGED contractVars
    BY <1>2, <2>1 DEF RoundingIsCounted, contractVars, tokenVars, bondVars, resultVars,
                      stakeVars, claimVars, BondHeld, TotalOn, pool, claimants
  <2>2. ASSUME NEW a \in Accounts, Claim(a) PROVE RoundingIsCounted'
    BY <1>0, <2>2, ClaimRounding
  <2>3. ASSUME NEW a \in Accounts, WithdrawRefund(a) PROVE FALSE
    BY <2>3 DEF WithdrawRefund, resultVars
  <2>4. ASSUME NEW a \in Accounts, ClaimChallengeBond(a) PROVE RoundingIsCounted'
    <3>1. /\ held' = held - config.challengeBond
          /\ BondHeld = config.challengeBond /\ BondHeld' = 0
          /\ UNCHANGED << remainingClaimableStake, hasClaimed >>
      BY <2>4 DEF ClaimChallengeBond, TransferOut, BondHeld, claimVars
    <3>2. config.challengeBond \in Nat /\ held \in Nat
      BY DEF TypeOK, Params
    <3>3. held' - BondHeld' = held - BondHeld
      BY <3>1, <3>2
    <3>4. UNCHANGED << forfeitedBond, resultVars, stakeVars >>
      BY <2>4, WithdrawalStates
    <3>5. /\ pool' = pool /\ TotalOn(finalOutcome)' = TotalOn(finalOutcome)
          /\ claimants' = claimants /\ ~refundMode
      BY <3>1, <3>4 DEF pool, TotalOn, claimants, resultVars, stakeVars
    <3>6. QED
      BY <1>2, <3>1, <3>3, <3>5 DEF RoundingIsCounted
  <2>5. QED
    BY <1>2, <2>1, <2>2, <2>3, <2>4, ResolvedSteps
<1>3. QED
  BY <1>1, <1>2

winners == {a \in Accounts : StakeOn(finalOutcome, a) > 0}

LEMMA WinnersAreCounted ==
  ASSUME TypeOK, LifecycleInv, TotalsAreSums, ClaimsAreCounted, Resolved, ~refundMode
  PROVE  /\ Cardinality(winners) \in Nat \ {0}
         /\ Cardinality(winners \ claimants) \in Nat
         /\ Cardinality(winners) = Cardinality(claimants) + Cardinality(winners \ claimants)
<1> DEFINE side == [a \in Accounts |-> StakeOn(finalOutcome, a)]
<1>1. IsFiniteSet(Accounts) /\ IsFiniteSet(winners) /\ Cardinality(winners) \in Nat
  <2>1. winners \in SUBSET Accounts
    BY DEF winners
  <2>2. QED
    BY <2>1, StakeFunctions, FS_Subset, FS_CardinalityType
<1>2. claimants \subseteq winners
  BY DEF claimants, winners, ClaimsAreCounted
<1>3. winners # {}
  <2>1. side \in [Accounts -> Nat]
    BY DEF TypeOK, StakeOn
  <2>2. finalOutcome \in Outcome
    BY ResolvedMarket DEF Outcome
  <2>3. SumFunction(side) = TotalOn(finalOutcome)
    BY <2>2, SideSum
  <2> HIDE DEF side
  <2>4. ~(\A a \in Accounts : side[a] = 0)
    BY <1>1, <2>1, <2>3, SumNat, ResolvedMarket
  <2>5. PICK a \in Accounts : side[a] # 0
    BY <2>4
  <2>6. StakeOn(finalOutcome, a) # 0 /\ StakeOn(finalOutcome, a) \in Nat
    BY <2>1, <2>5 DEF side
  <2>7. QED
    BY <2>6 DEF winners
<1>4. Cardinality(winners \ claimants) = Cardinality(winners) - Cardinality(winners \cap claimants)
  BY <1>1, ClaimantsFinite, FS_Difference
<1>5. winners \cap claimants = claimants
  BY <1>2
<1>6. Cardinality(winners) # 0
  BY <1>1, <1>3, FS_EmptySet
<1>7. Cardinality(winners \ claimants) \in Nat
  BY <1>1, FS_Difference, FS_CardinalityType
<1>8. Cardinality(winners \ claimants) = Cardinality(winners) - Cardinality(claimants)
  BY <1>4, <1>5
<1>9. QED
  BY <1>1, <1>6, <1>7, <1>8, ClaimantsFinite

\* What the winners still to be paid lose to rounding, all together.
LEMMA SharesAreCovered ==
  ASSUME TypeOK, LifecycleInv, TotalsAreSums, ClaimsAreCounted, Resolved, ~refundMode
  PROVE  remainingClaimableStake * pool
           <= SumFunction([a \in Accounts |-> StakeDue(a)]) * TotalOn(finalOutcome)
                + Cardinality(winners \ claimants) * (TotalOn(finalOutcome) - 1)
<1> DEFINE W == TotalOn(finalOutcome)
           stakes == [a \in Accounts |-> StakeDue(a)]
           open == [a \in Accounts |-> IF a \in winners \ claimants THEN 1 ELSE 0]
           scaled == [a \in Accounts |-> StakeDue(a) * W]
           loss == [a \in Accounts |-> open[a] * (W - 1)]
           shares == [a \in Accounts |-> ClaimableStakeOf(a) * pool]
           most == [a \in Accounts |-> scaled[a] + loss[a]]
<1>0. /\ IsFiniteSet(Accounts) /\ claimable \in [Accounts -> Int]
      /\ \A a \in Accounts : claimable[a] = ClaimableStakeOf(a)
      /\ W \in Nat \ {0} /\ W \in Int /\ W - 1 \in Int /\ pool \in Nat /\ pool \in Int
      /\ stakes \in [Accounts -> Int]
      /\ open \in [Accounts -> Int]
  BY StakeFunctions, ClaimableType, ResolvedMarket, DueSplits
<1>1. ScaledBy(Accounts, stakes, W, scaled)
  BY <1>0 DEF ScaledBy, IntFunctions
<1>2. Indicates(Accounts, winners \ claimants, open)
  BY <1>0 DEF Indicates, winners
<1>3. ScaledBy(Accounts, open, W - 1, loss)
  BY <1>0 DEF ScaledBy, IntFunctions
<1>4. AddUp(Accounts, scaled, loss, most)
  BY <1>1, <1>3 DEF AddUp, ScaledBy, IntFunctions
<1>5. ScaledBy(Accounts, claimable, pool, shares)
  BY <1>0 DEF ScaledBy, IntFunctions
<1>6. NowhereAbove(Accounts, shares, most)
  <2>1. ASSUME NEW a \in Accounts PROVE shares[a] <= most[a]
    <3>1. /\ ClaimableStakeOf(a) * pool - StakeDue(a) * W
               <= IF ~hasClaimed[a] /\ StakeOn(finalOutcome, a) > 0 THEN W - 1 ELSE 0
          /\ StakeDue(a) \in Nat /\ ClaimableStakeOf(a) \in Nat
      BY SharesDue
    <3>2. a \in winners \ claimants <=> ~hasClaimed[a] /\ StakeOn(finalOutcome, a) > 0
      BY DEF winners, claimants
    <3>3. open[a] * (W - 1) = IF a \in winners \ claimants THEN W - 1 ELSE 0
      BY <1>0
    <3>4. /\ shares[a] = ClaimableStakeOf(a) * pool
          /\ most[a] = StakeDue(a) * W + open[a] * (W - 1)
      OBVIOUS
    <3>5. /\ ClaimableStakeOf(a) * pool \in Int /\ StakeDue(a) * W \in Int
      BY <1>0, <3>1
    <3> HIDE DEF shares, most, open, W
    <3>6. QED
      BY <1>0, <3>1, <3>2, <3>3, <3>4, <3>5
  <2>2. QED
    BY <1>4, <1>5, <2>1 DEF NowhereAbove, AddUp, ScaledBy, IntFunctions
<1> HIDE DEF stakes, open, scaled, loss, shares, most, W
<1>7. /\ SumFunction(scaled) = SumFunction(stakes) * W
      /\ SumFunction(loss) = SumFunction(open) * (W - 1)
      /\ SumFunction(shares) = SumFunction(claimable) * pool
  BY <1>0, <1>1, <1>3, <1>5, SumScaled
<1>8. SumFunction(open) = Cardinality(winners \ claimants)
  BY <1>0, <1>2, SumCounts
<1>9. SumFunction(most) = SumFunction(scaled) + SumFunction(loss)
  BY <1>0, <1>4, SumOfSums
<1>10. SumFunction(shares) <= SumFunction(most)
  BY <1>0, <1>6, SumMonotone
<1>11. SumFunction(claimable) = remainingClaimableStake
  BY DEF ClaimsAreCounted, ClaimableMatchesStakes, claimable
<1>12. remainingClaimableStake * pool
         <= SumFunction(stakes) * W + Cardinality(winners \ claimants) * (W - 1)
  BY <1>7, <1>8, <1>9, <1>10, <1>11
<1>13. QED
  BY <1>12 DEF stakes, W

\* c remainders behind, m ahead: what is held (h) stays within n of what is due (d).
WithinRemainders(h, d, r, W, n, m, c) ==
    /\ h \in Int /\ d \in Int /\ r \in Int /\ W \in Nat \ {0}
    /\ n \in Nat \ {0} /\ m \in Nat /\ c \in Nat /\ n = c + m
    /\ h * W - r <= c * (W - 1)
    /\ r <= d * W + m * (W - 1)

LEMMA RoundingBound ==
  ASSUME NEW h, NEW d, NEW r, NEW W, NEW n, NEW m, NEW c,
         WithinRemainders(h, d, r, W, n, m, c)
  PROVE  h - d < n
<1> USE DEF WithinRemainders
<1>1. /\ (h - d) * W = h * W - d * W
      /\ n * (W - 1) = c * (W - 1) + m * (W - 1)
      /\ n * (W - 1) = n * W - n
  OBVIOUS
<1>2. (h - d) * W <= n * W - n
  <2>1. h * W \in Int /\ d * W \in Int /\ c * (W - 1) \in Int /\ m * (W - 1) \in Int
    OBVIOUS
  <2>2. QED
    BY <1>1, <2>1
<1>3. ASSUME n <= h - d PROVE FALSE
  <2>1. n * W <= (h - d) * W
    BY <1>3
  <2>2. n * W \in Int /\ (h - d) * W \in Int
    OBVIOUS
  <2>3. QED
    BY <1>2, <2>1, <2>2
<1>4. QED
  BY <1>3

LEMMA RoundingIsDust ==
  ASSUME TypeOK, LifecycleInv, TotalsAreSums, ClaimsAreCounted, RoundingIsCounted
  PROVE  DustBelowWinners
<1> SUFFICES ASSUME Resolved, ~refundMode
             PROVE  held - SumFunction([a \in Accounts |-> Due(a)]) < Cardinality(winners)
  BY DEF DustBelowWinners, winners
<1> DEFINE W == TotalOn(finalOutcome)
           D == SumFunction([a \in Accounts |-> StakeDue(a)])
<1>1. /\ W \in Nat \ {0} /\ pool \in Nat /\ D \in Nat /\ BondHeld \in Nat
      /\ held \in Nat /\ remainingClaimableStake \in Nat
      /\ SumFunction([a \in Accounts |-> Due(a)]) = D + BondHeld
  BY ResolvedMarket, DueSplits DEF TypeOK
<1>2. /\ Cardinality(winners) \in Nat \ {0} /\ Cardinality(claimants) \in Nat
      /\ Cardinality(winners \ claimants) \in Nat
      /\ Cardinality(winners) = Cardinality(claimants) + Cardinality(winners \ claimants)
  BY WinnersAreCounted, ClaimantsFinite
<1>3. (held - BondHeld) * W - remainingClaimableStake * pool <= Cardinality(claimants) * (W - 1)
  BY DEF RoundingIsCounted
<1>4. remainingClaimableStake * pool <= D * W + Cardinality(winners \ claimants) * (W - 1)
  BY SharesAreCovered
<1> HIDE DEF W, D
<1>5. held - BondHeld \in Int /\ remainingClaimableStake * pool \in Int
  BY <1>1
<1>6. WithinRemainders(held - BondHeld, D, remainingClaimableStake * pool, W,
         Cardinality(winners), Cardinality(winners \ claimants), Cardinality(claimants))
  BY <1>1, <1>2, <1>3, <1>4, <1>5 DEF WithinRemainders
<1>7. (held - BondHeld) - D < Cardinality(winners)
  BY <1>6, RoundingBound
<1>8. QED
  BY <1>1, <1>2, <1>7

\* Rounding down costs less than one base unit per winner, however many there
\* are and in whatever order they claim: nothing else is left behind.
THEOREM DustIsBounded == Spec => []DustBelowWinners
<1> DEFINE IInv == FullyBacked /\ TotalsAreSums /\ ClaimsAreCounted /\ RoundingIsCounted
<1>1. Init => IInv
  BY InitFullyBacked, InitTotalsAreSums
  DEF Init, ClaimsAreCounted, ClaimableMatchesStakes, RoundingIsCounted, Resolved
<1>2. TypeOK /\ LifecycleInv /\ IInv /\ [Next]_vars => IInv'
  BY NextFullyBacked, NextTotalsAreSums, NextClaimsAreCounted, NextRoundingIsCounted
<1>3. TypeOK /\ LifecycleInv /\ IInv => DustBelowWinners
  BY RoundingIsDust
<1>4. QED
  BY <1>1, <1>2, <1>3, LifecycleSafe, PTL DEF Spec

-----------------------------------------------------------------------------
(* A market implements Escrow: every step is a deposit, the decision, a      *)
(* withdrawal, or nothing Escrow sees.                                       *)

EscrowView == << Resolved, [a \in Accounts |-> StakeOf(a) + BondPosted(a)],
                 [a \in Accounts |-> Due(a)], held >>

LEMMA NothingDueBefore ==
  ASSUME ~Resolved, NEW a \in Accounts
  PROVE  Due(a) = 0
  BY DEF Due, StakeDue, BondDue

LEMMA PostedType ==
  ASSUME TypeOK, NEW a \in Accounts
  PROVE  /\ StakeOf(a) \in Nat /\ BondPosted(a) \in Nat
         /\ yesStake[a] \in Nat /\ noStake[a] \in Nat
  BY DEF TypeOK, Params, StakeOf, BondPosted

LEMMA InitIsEscrowInit == Init => E!Init
<1> SUFFICES ASSUME Init PROVE E!Init
  OBVIOUS
<1>1. ~Resolved /\ held = 0
  BY DEF Init, Resolved
<1>2. \A a \in Accounts : StakeOf(a) + BondPosted(a) = 0
  BY MarketAssumption DEF MarketAssumption, Init, StakeOf, BondPosted
<1>3. \A a \in Accounts : Due(a) = 0
  BY <1>1, NothingDueBefore
<1>4. QED
  BY <1>1, <1>2, <1>3 DEF E!Init

\* Nothing that moves the deposits, the dues or the pot has happened.
LEMMA UnseenStep ==
  ASSUME Resolved' = Resolved,
         UNCHANGED << tokenVars, config, challenger, bondVars, resultVars, stakeVars,
                      hasClaimed >>
  PROVE  UNCHANGED EscrowView
<1>1. \A a \in Accounts : /\ StakeOf(a)' = StakeOf(a)
                          /\ BondPosted(a)' = BondPosted(a)
  BY DEF StakeOf, BondPosted, stakeVars
<1>2. \A a \in Accounts : StakeDue(a)' = StakeDue(a) /\ BondDue(a)' = BondDue(a)
  BY DEF StakeDue, BondDue, StakeOf, StakeOn, Payout, TotalOn, pool, bondVars, resultVars,
         stakeVars
<1>3. held' = held
  BY DEF tokenVars
<1>4. QED
  BY <1>1, <1>2, <1>3 DEF EscrowView, Due

LEMMA StakeIsDeposit ==
  ASSUME TypeOK, TypeOK', NEW a \in Accounts, NEW side \in Outcome,
         NEW amount \in 0 .. Funds, NEW fee \in Fees, Stake(a, side, amount, fee)
  PROVE  E!Deposit(a)
<1>1. /\ ~Resolved /\ ~Resolved' /\ amount > 0 /\ amount \in Nat
      /\ UNCHANGED << config, challenger >>
  BY MarketAssumption DEF MarketAssumption, Stake, Resolved, challengeVars
<1>2. held' = held + amount
  <2>1. fee \in Nat /\ held \in Nat
    BY MarketAssumption DEF MarketAssumption, TypeOK
  <2>2. QED
    BY <1>1, <2>1 DEF Stake, TransferIn, ReceivedInFull
<1>3. ASSUME NEW b \in Accounts
      PROVE  /\ StakeOf(b)' = IF b = a THEN StakeOf(b) + amount ELSE StakeOf(b)
             /\ BondPosted(b)' = BondPosted(b)
             /\ StakeOf(b) \in Nat /\ BondPosted(b) \in Nat
  <2>1. /\ StakeOf(b) \in Nat /\ BondPosted(b) \in Nat
        /\ yesStake[b] \in Nat /\ noStake[b] \in Nat
    BY PostedType
  <2>2. yesStake \in [Accounts -> Nat] /\ noStake \in [Accounts -> Nat]
    BY DEF TypeOK
  <2>3. \/ yesStake' = [yesStake EXCEPT ![a] = @ + amount] /\ noStake' = noStake
        \/ noStake' = [noStake EXCEPT ![a] = @ + amount] /\ yesStake' = yesStake
    BY DEF Stake
  <2>4. StakeOf(b)' = IF b = a THEN StakeOf(b) + amount ELSE StakeOf(b)
    BY <1>1, <2>1, <2>2, <2>3 DEF StakeOf
  <2>5. QED
    BY <1>1, <2>1, <2>4 DEF BondPosted
<1>4. \A b \in Accounts : Due(b) = 0 /\ Due(b)' = 0
  BY <1>1 DEF Due, StakeDue, BondDue
<1>5. [b \in Accounts |-> StakeOf(b) + BondPosted(b)]' \in [Accounts -> Nat]
  BY <1>1, <1>3
<1>6. [b \in Accounts |-> Due(b)]' = [b \in Accounts |-> Due(b)]
  BY <1>4
<1> DEFINE deposits == [b \in Accounts |-> StakeOf(b) + BondPosted(b)]
<1>7. /\ deposits'[a] = deposits[a] + amount /\ deposits[a] \in Nat
      /\ \A b \in Accounts \ {a} : deposits'[b] = deposits[b]
  BY <1>1, <1>3
<1>8. held' = held + (deposits'[a] - deposits[a]) /\ deposits'[a] > deposits[a]
  <2> HIDE DEF deposits
  <2>1. QED
    BY <1>1, <1>2, <1>7
<1>9. QED
  BY <1>1, <1>5, <1>6, <1>7, <1>8 DEF E!Deposit, Resolved

LEMMA ChallengeIsDeposit ==
  ASSUME TypeOK, TypeOK', LifecycleInv, NEW a \in Accounts,
         NEW reason \in ReasonHashes \cup {NoHash}, NEW fee \in Fees,
         Challenge(a, reason, fee)
  PROVE  E!Deposit(a) \/ UNCHANGED EscrowView
<1>1. /\ ~Resolved /\ ~Resolved' /\ challenger' = a /\ config' = config
      /\ UNCHANGED stakeVars
  BY DEF Challenge, Resolved
<1>2. challenger = NoAccount /\ NoAccount \notin Accounts
  BY MarketAssumption DEF MarketAssumption, Challenge, RoundContestable, LifecycleInv,
         ChallengedOnce, ResultFollowsState
<1>3. /\ config.challengeBond \in Nat /\ fee \in Nat /\ held \in Nat
  BY MarketAssumption DEF MarketAssumption, TypeOK, Params
<1>4. ASSUME NEW b \in Accounts
      PROVE  /\ StakeOf(b)' = StakeOf(b) /\ StakeOf(b) \in Nat
             /\ BondPosted(b) = 0
             /\ BondPosted(b)' = IF b = a THEN config.challengeBond ELSE 0
             /\ Due(b) = 0 /\ Due(b)' = 0
  <2>1. StakeOf(b) \in Nat
    BY PostedType
  <2>2. QED
    BY <1>1, <1>2, <2>1 DEF StakeOf, BondPosted, stakeVars, Due, StakeDue, BondDue
<1>5. [b \in Accounts |-> Due(b)]' = [b \in Accounts |-> Due(b)]
  BY <1>4
<1>6. CASE config.challengeBond > 0
  <2>1. held' = held + config.challengeBond
    BY <1>3, <1>6 DEF Challenge, TransferIn, ReceivedInFull
  <2>2. [b \in Accounts |-> StakeOf(b) + BondPosted(b)]' \in [Accounts -> Nat]
    BY <1>3, <1>4
  <2> DEFINE deposits == [b \in Accounts |-> StakeOf(b) + BondPosted(b)]
  <2>3. /\ deposits'[a] = deposits[a] + config.challengeBond /\ deposits[a] \in Nat
        /\ \A b \in Accounts \ {a} : deposits'[b] = deposits[b]
    BY <1>3, <1>4
  <2>4. held' = held + (deposits'[a] - deposits[a]) /\ deposits'[a] > deposits[a]
    <3> HIDE DEF deposits
    <3>1. QED
      BY <1>3, <1>6, <2>1, <2>3
  <2>5. E!Deposit(a)
    BY <1>1, <1>5, <2>2, <2>3, <2>4 DEF E!Deposit, Resolved
  <2>6. QED
    BY <2>5
<1>7. CASE ~(config.challengeBond > 0)
  <2>1. held' = held
    BY <1>7 DEF Challenge, tokenVars
  <2>2. \A b \in Accounts : BondPosted(b)' = 0
    BY <1>3, <1>4, <1>7
  <2>3. [b \in Accounts |-> StakeOf(b) + BondPosted(b)]'
          = [b \in Accounts |-> StakeOf(b) + BondPosted(b)]
    BY <1>4, <2>2
  <2>4. QED
    BY <1>1, <1>5, <2>1, <2>3 DEF EscrowView, Resolved
<1>8. QED
  BY <1>6, <1>7

\* Escrow sums as the market does.
LEMMA EscrowSums == \A f : E!SumFunction(f) = SumFunction(f)
  BY DEF E!SumFunction, E!SumFunctionOnSet, E!FoldFunctionOnSet, E!MapThenFoldSet,
         SumFunction, SumFunctionOnSet, FoldFunctionOnSet, MapThenFoldSet

\* The decision divides no more than is held, among depositors: Solvency.
LEMMA ResolvingIsDecide ==
  ASSUME TypeOK, TypeOK', LifecycleInv, LifecycleInv', Solvency', [Next]_vars,
         \A b \in Accounts : Due(b)' \in Nat, ~Resolved, Resolved'
  PROVE  E!Decide
<1>1. UNCHANGED << config, tokenVars, stakeVars, challenger >>
  BY ResolvingStep DEF challengeVars
<1>2. held' = held
  BY <1>1 DEF tokenVars
<1>3. ASSUME NEW b \in Accounts
      PROVE  /\ StakeOf(b)' = StakeOf(b) /\ BondPosted(b)' = BondPosted(b)
             /\ Due(b)' > 0 => StakeOf(b) + BondPosted(b) > 0
  <2>1. /\ StakeOf(b) \in Nat /\ BondPosted(b) \in Nat
        /\ yesStake[b] \in Nat /\ noStake[b] \in Nat
    BY PostedType
  <2>2. StakeOf(b)' = StakeOf(b) /\ BondPosted(b)' = BondPosted(b)
    BY <1>1 DEF StakeOf, BondPosted, stakeVars
  <2>3. ASSUME StakeOf(b) = 0, BondPosted(b) = 0 PROVE Due(b)' = 0
    <3>1. yesStake[b] = 0 /\ noStake[b] = 0
      BY <2>1, <2>3 DEF StakeOf
    <3>2. StakeDue(b)' = 0
      BY <1>1, <2>2, <2>3, <3>1 DEF StakeDue, StakeOn, stakeVars
    <3>3. BondDue(b)' = 0
      BY <2>2, <2>3 DEF BondDue, BondPosted
    <3>4. QED
      BY <3>2, <3>3 DEF Due
  <2>4. QED
    BY <2>1, <2>2, <2>3
<1>4. [b \in Accounts |-> Due(b)]' \in [Accounts -> Nat]
  OBVIOUS
<1>5. SumFunction([b \in Accounts |-> Due(b)]') <= held
  BY <1>2 DEF Solvency
<1>6. [b \in Accounts |-> StakeOf(b) + BondPosted(b)]'
        = [b \in Accounts |-> StakeOf(b) + BondPosted(b)]
  BY <1>3
<1> DEFINE deposits == [b \in Accounts |-> StakeOf(b) + BondPosted(b)]
           due == [b \in Accounts |-> Due(b)]
<1>7. \A b \in Accounts : due'[b] > 0 => deposits[b] > 0
  BY <1>3
<1>8. Resolved' = TRUE
  BY DEF Resolved
<1>9. /\ ~Resolved /\ Resolved' = TRUE
      /\ due' \in [Accounts -> Nat]
      /\ \A a \in Accounts : due'[a] > 0 => deposits[a] > 0
      /\ SumFunction(due') <= held
      /\ deposits' = deposits /\ held' = held
  BY <1>2, <1>4, <1>5, <1>6, <1>7, <1>8
<1>10. QED
  BY <1>9, EscrowSums DEF E!Decide

\* A withdrawal lowers the due of the account that makes it, by what it is paid.
LEMMA WithdrawalIsWithdraw ==
  ASSUME TypeOK, TypeOK', LifecycleInv, \A b \in Accounts : Due(b)' \in Nat,
         NEW a \in Accounts, Claim(a) \/ WithdrawRefund(a) \/ ClaimChallengeBond(a)
  PROVE  E!Withdraw(a)
<1>1. /\ Resolved /\ Resolved'
      /\ UNCHANGED << config, challengeVars, bondRefundable, forfeitedBond, resultVars,
                      stakeVars >>
  BY WithdrawalStates
<1>2. \A b \in Accounts : wallet'[b] + Due(b)' = wallet[b] + Due(b)
  BY WithdrawalKeepsEntitlements
<1>3. PICK n \in Nat : /\ n > 0 /\ held' = held - n
                       /\ wallet' = [wallet EXCEPT ![a] = @ + n]
  <2>1. CASE Claim(a)
    <3>1. /\ StakeDue(a) = Payout(a) /\ StakeDue(a) \in Nat
          /\ ClaimableStakeOf(a) > 0
      BY <1>1, <2>1, DueType DEF Claim, StakeDue, ClaimableStakeOf
    <3>2. StakeDue(a) > 0
      BY <1>1, <3>1, ClaimableIsDue
    <3>3. QED
      BY <2>1, <3>1, <3>2 DEF Claim, PayStake, TransferOut
  <2>2. CASE WithdrawRefund(a)
    <3>1. StakeOf(a) \in Nat /\ StakeOf(a) > 0
      BY <2>2, PostedType DEF WithdrawRefund
    <3>2. QED
      BY <2>2, <3>1 DEF WithdrawRefund, PayStake, TransferOut
  <2>3. CASE ClaimChallengeBond(a)
    <3>1. config.challengeBond \in Nat /\ config.challengeBond > 0
      BY <2>3 DEF ClaimChallengeBond, LifecycleInv, BondFollowsState, TypeOK, Params
    <3>2. QED
      BY <2>3, <3>1 DEF ClaimChallengeBond, TransferOut
  <2>4. QED
    BY <2>1, <2>2, <2>3
<1>4. wallet \in [Accounts -> Nat] /\ held \in Nat
  BY DEF TypeOK
<1>5. ASSUME NEW b \in Accounts
      PROVE  /\ Due(b) \in Nat /\ Due(b)' \in Nat
             /\ Due(b)' = IF b = a THEN Due(b) - n ELSE Due(b)
  <2>1. StakeDue(b) \in Nat /\ BondDue(b) \in Nat
    BY DueType
  <2>2. Due(b) \in Nat /\ Due(b)' \in Nat
    BY <2>1 DEF Due
  <2>3. wallet'[b] = IF b = a THEN wallet[b] + n ELSE wallet[b]
    BY <1>3, <1>4
  <2>4. wallet[b] \in Nat /\ wallet'[b] + Due(b)' = wallet[b] + Due(b)
    BY <1>2, <1>4
  <2>5. QED
    BY <2>2, <2>3, <2>4
<1>6. [b \in Accounts |-> Due(b)]' \in [Accounts -> Nat]
  BY <1>5
<1>7. /\ [b \in Accounts |-> StakeOf(b) + BondPosted(b)]'
           = [b \in Accounts |-> StakeOf(b) + BondPosted(b)]
  BY <1>1 DEF StakeOf, BondPosted, challengeVars, stakeVars
<1>8. held' = held - ([b \in Accounts |-> Due(b)][a] - [b \in Accounts |-> Due(b)]'[a])
  BY <1>3, <1>4, <1>5
<1>9. QED
  BY <1>1, <1>3, <1>5, <1>6, <1>7, <1>8 DEF E!Withdraw

LEMMA NextIsEscrowNext ==
  TypeOK /\ LifecycleInv /\ TypeOK' /\ LifecycleInv' /\ Solvency'
    /\ (\A b \in Accounts : Due(b)' \in Nat) /\ [Next]_vars => [E!Next]_EscrowView
<1> SUFFICES ASSUME TypeOK, LifecycleInv, TypeOK', LifecycleInv', Solvency',
                    \A b \in Accounts : Due(b)' \in Nat, [Next]_vars
             PROVE  E!Next \/ UNCHANGED EscrowView
  OBVIOUS
<1>1. CASE Tick \/ Administer \/ Close \/ UNCHANGED vars
  BY <1>1, UnseenStep DEF Tick, Administer, Close, vars, challengeVars, claimVars, Resolved
<1>2. ASSUME NEW a \in Accounts, NEW side \in Outcome, NEW amount \in 0 .. Funds,
             NEW fee \in Fees, Stake(a, side, amount, fee)
      PROVE  E!Next
  BY <1>2, StakeIsDeposit DEF E!Next
<1>3. ASSUME NEW r \in Resolvers, NEW outcome \in Outcome,
             NEW hash \in EvidenceHashes \cup {NoHash},
             ProposeResolution(r, outcome, hash)
      PROVE  UNCHANGED EscrowView
  <2>1. Resolved' = Resolved
    BY <1>3 DEF ProposeResolution, Proposable, ClosedIfDue, Resolved
  <2>2. QED
    BY <1>3, <2>1, UnseenStep DEF ProposeResolution, challengeVars, claimVars
<1>4. ASSUME NEW a \in Accounts, NEW reason \in ReasonHashes \cup {NoHash},
             NEW fee \in Fees, Challenge(a, reason, fee)
      PROVE  E!Next \/ UNCHANGED EscrowView
  BY <1>4, ChallengeIsDeposit DEF E!Next
<1>5. CASE Finalize \/ \E reason \in CancellationReason : Cancel(reason)
  <2>1. ~Resolved /\ Resolved'
    BY <1>5 DEF Finalize, Cancel, TimedOut, ClosedIfDue, DoCancel, DecideOutcome,
                SettleIfExhausted, Resolved
  <2>2. QED
    BY <2>1, ResolvingIsDecide DEF E!Next
<1>6. ASSUME NEW a \in Accounts, Claim(a) \/ WithdrawRefund(a) \/ ClaimChallengeBond(a)
      PROVE  E!Next
  BY <1>6, WithdrawalIsWithdraw DEF E!Next
<1>7. QED
  BY <1>1, <1>2, <1>3, <1>4, <1>5, <1>6 DEF Next

\* ConditionalMarket implements Escrow: it decides the division of its money
\* once, to no more than it holds and among its depositors only, and from then
\* on an account can take down its own due and nothing else.
THEOREM MarketIsEscrow == Spec => ImplementsEscrow
<1> DEFINE DueOK == \A b \in Accounts : Due(b) \in Nat
<1>1. Init => E!Init
  BY InitIsEscrowInit
<1>2. TypeOK /\ LifecycleInv => DueOK
  BY DueType DEF Due
<1>3. TypeOK /\ LifecycleInv /\ TypeOK' /\ LifecycleInv' /\ Solvency' /\ DueOK'
        /\ [Next]_vars => [E!Next]_EscrowView
  BY NextIsEscrowNext
<1>4. [E!Next]_EscrowView => [E!Next]_(E!escrowVars)
  BY DEF EscrowView, E!escrowVars
<1>5. QED
  BY <1>1, <1>2, <1>3, <1>4, LifecycleSafe, MarketSolvent, PTL
  DEF Spec, ImplementsEscrow, E!Spec

================================================================================
