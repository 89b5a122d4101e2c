--------------------------- MODULE ConditionalMarket ---------------------------
(***************************************************************************)
(* One market: the contract that custodies the stakes and the challenge    *)
(* bond of one condition (packages/contracts/contracts/ConditionalMarket). *)
(*                                                                         *)
(* Every external function is one atomic action.  They are nonReentrant,   *)
(* and a revert undoes everything, so a call either takes its whole effect *)
(* or none.  close() carries no reentrancy guard and needs none: it calls  *)
(* nothing.                                                                *)
(*                                                                         *)
(* The factory appears through the two things a market reads from it, the  *)
(* pause switch and the proposer role; an administrator may flip both at   *)
(* any time and for good.  The settlement token appears through the        *)
(* balances transfers move and through the fee a transfer may keep back.   *)
(***************************************************************************)
EXTENDS Integers, FiniteSets, Functions

CONSTANTS
    Accounts,               \* wallets that may stake, challenge and withdraw
    Resolvers,              \* wallets the administrator may give PROPOSER_ROLE
    NoAccount,              \* address(0)
    EvidenceHashes,         \* evidence package commitments
    ReasonHashes,           \* challenge document commitments
    NoHash,                 \* bytes32(0)
    Funds,                  \* tokens every account starts with
    Fees,                   \* what a transfer to the market may keep back
    InitParams,             \* the parameters initialize() may be called with
    MIN_CHALLENGE_WINDOW,
    MAX_CHALLENGE_WINDOW,
    MIN_RESOLUTION_WINDOW,
    MAX_RESOLUTION_WINDOW,
    MAX_TIMESTAMP           \* type(uint64).max, and where the clock stops

Params == [ tradingEndsAt : Nat, conditionDeadline : Nat, challengeWindow : Nat,
            resolutionWindow : Nat, challengeBond : Nat ]

ASSUME MarketAssumption ==
    /\ IsFiniteSet(Accounts)
    /\ NoAccount \notin Accounts
    /\ NoHash \notin EvidenceHashes \cup ReasonHashes
    /\ Funds \in Nat
    /\ Fees \subseteq Nat
    /\ InitParams \subseteq Params
    /\ MIN_CHALLENGE_WINDOW \in Nat \ {0}
    /\ MAX_CHALLENGE_WINDOW \in Nat
    /\ MIN_RESOLUTION_WINDOW \in Nat \ {0}
    /\ MAX_RESOLUTION_WINDOW \in Nat
    /\ MAX_TIMESTAMP \in Nat

VARIABLES
    now,                                    \* block.timestamp
    paused, proposers,                      \* read from the factory
    wallet, held,                           \* token balances: accounts, market
    config,                                 \* what initialize() fixed
    state,
    proposedOutcome, evidenceHash, proposedAt, proposalRound,
    challenger, challengeReasonHash, challengedOutcome, challengedAt,
    bondOutstanding, bondRefundable, forfeitedBond,
    finalOutcome, finalizedAt, cancellationReason, refundMode,
    yesStake, noStake, totalYes, totalNo,
    hasClaimed, remainingClaimableStake

factoryVars   == <<paused, proposers>>
tokenVars     == <<wallet, held>>
proposalVars  == <<proposedOutcome, evidenceHash, proposedAt, proposalRound>>
challengeVars == <<challenger, challengeReasonHash, challengedOutcome, challengedAt>>
bondVars      == <<bondOutstanding, bondRefundable, forfeitedBond>>
resultVars    == <<finalOutcome, finalizedAt, cancellationReason, refundMode>>
stakeVars     == <<yesStake, noStake, totalYes, totalNo>>
claimVars     == <<hasClaimed, remainingClaimableStake>>

vars == << now, factoryVars, tokenVars, config, state, proposalVars, challengeVars,
           bondVars, resultVars, stakeVars, claimVars >>

MAX_PROPOSAL_ROUNDS == 2

State == { "OPEN", "CLOSED", "RESOLUTION_PROPOSED", "CHALLENGED",
           "FINALIZED", "SETTLED", "CANCELLED" }
Outcome == {"UNSET", "YES", "NO", "INVALID"}
CancellationReason == {"NONE", "NO_RESOLUTION", "NO_REVIEW", "RESOLVED_INVALID"}

-----------------------------------------------------------------------------
(* Deadlines and money, as the contract's views compute them. *)

challengeEndsAt == IF proposedAt = 0 THEN 0 ELSE proposedAt + config.challengeWindow
resolutionDeadline == config.conditionDeadline + config.resolutionWindow
reviewDeadline == IF challengedAt = 0 THEN 0 ELSE challengedAt + config.resolutionWindow

UncheckedSum(t) == TRUE     \* mutant: a sum of timestamps may overflow

\* A sum of timestamps that does not fit in uint64 reverts the call.
FitsTimestamp(t) == t <= MAX_TIMESTAMP

poolWithoutBond == totalYes + totalNo   \* mutant: a forfeited bond is lost

pool == totalYes + totalNo + forfeitedBond

StakeOn(outcome, a) == IF outcome = "YES" THEN yesStake[a] ELSE noStake[a]
TotalOn(outcome)    == IF outcome = "YES" THEN totalYes ELSE totalNo
StakeOf(a)          == yesStake[a] + noStake[a]

Payout(a) == (StakeOn(finalOutcome, a) * pool) \div TotalOn(finalOutcome)

Resolved == state \in {"FINALIZED", "SETTLED", "CANCELLED"}

-----------------------------------------------------------------------------
(* initialize(): the factory calls it in the transaction that deploys. *)

AcceptsParams(p) ==
    /\ p.tradingEndsAt > 0
    /\ p.conditionDeadline >= p.tradingEndsAt
    /\ p.challengeWindow \in MIN_CHALLENGE_WINDOW .. MAX_CHALLENGE_WINDOW
    /\ p.resolutionWindow \in MIN_RESOLUTION_WINDOW .. MAX_RESOLUTION_WINDOW
    /\ FitsTimestamp(p.conditionDeadline + p.resolutionWindow)
    /\ FitsTimestamp(p.tradingEndsAt + p.challengeWindow)

Init ==
    /\ now = 0
    /\ config \in {p \in InitParams : AcceptsParams(p)}
    /\ state = "OPEN"
    /\ paused = FALSE
    /\ proposers \in SUBSET Resolvers
    /\ wallet = [a \in Accounts |-> Funds]
    /\ held = 0
    /\ proposedOutcome = "UNSET" /\ evidenceHash = NoHash
    /\ proposedAt = 0 /\ proposalRound = 0
    /\ challenger = NoAccount /\ challengeReasonHash = NoHash
    /\ challengedOutcome = "UNSET" /\ challengedAt = 0
    /\ bondOutstanding = FALSE /\ bondRefundable = FALSE /\ forfeitedBond = 0
    /\ finalOutcome = "UNSET" /\ finalizedAt = 0
    /\ cancellationReason = "NONE" /\ refundMode = FALSE
    /\ yesStake = [a \in Accounts |-> 0] /\ noStake = [a \in Accounts |-> 0]
    /\ totalYes = 0 /\ totalNo = 0
    /\ hasClaimed = [a \in Accounts |-> FALSE]
    /\ remainingClaimableStake = 0

-----------------------------------------------------------------------------
(* The token.  A transfer reverts when the sender's balance is too small. *)

AnyDelta(amount, fee) ==    \* mutant: the balance delta is not compared
    fee <= amount

ReceivedInFull(amount, fee) ==
    (held + amount - fee) - held = amount

TransferIn(a, amount, fee) ==
    /\ wallet[a] >= amount
    /\ ReceivedInFull(amount, fee)
    /\ wallet' = [wallet EXCEPT ![a] = @ - amount]
    /\ held' = held + amount - fee

TransferOut(a, amount) ==
    /\ held >= amount
    /\ held' = held - amount
    /\ wallet' = [wallet EXCEPT ![a] = @ + amount]

-----------------------------------------------------------------------------
(* OPEN: staking, and the end of trading. *)

Stake(a, side, amount, fee) ==
    /\ state = "OPEN"
    /\ now < config.tradingEndsAt
    /\ ~paused
    /\ side \in {"YES", "NO"}
    /\ amount > 0
    /\ TransferIn(a, amount, fee)
    /\ IF side = "YES"
         THEN /\ yesStake' = [yesStake EXCEPT ![a] = @ + amount]
              /\ totalYes' = totalYes + amount
              /\ UNCHANGED <<noStake, totalNo>>
         ELSE /\ noStake' = [noStake EXCEPT ![a] = @ + amount]
              /\ totalNo' = totalNo + amount
              /\ UNCHANGED <<yesStake, totalYes>>
    /\ UNCHANGED << now, factoryVars, config, state, proposalVars, challengeVars,
                    bondVars, resultVars, claimVars >>

Close ==
    /\ state = "OPEN"
    /\ now >= config.tradingEndsAt
    /\ state' = "CLOSED"
    /\ UNCHANGED << now, factoryVars, tokenVars, config, proposalVars, challengeVars,
                    bondVars, resultVars, stakeVars, claimVars >>

\* _closeIfDue(): proposeResolution() and cancel() begin with it.
ClosedIfDue ==
    IF state = "OPEN" /\ now >= config.tradingEndsAt THEN "CLOSED" ELSE state

-----------------------------------------------------------------------------
(* Proposals and the one challenge. *)

ProposableAfterFinality ==  \* mutant: a finalized outcome may be re-proposed
    ClosedIfDue \in {"CLOSED", "CHALLENGED", "FINALIZED"}

Proposable == ClosedIfDue \in {"CLOSED", "CHALLENGED"}

ProposeResolution(r, outcome, hash) ==
    /\ r \in proposers
    /\ Proposable
    /\ now >= config.conditionDeadline
    /\ outcome # "UNSET"
    /\ hash # NoHash
    /\ proposalRound < MAX_PROPOSAL_ROUNDS
    /\ FitsTimestamp(now + config.challengeWindow)
    /\ proposalRound' = proposalRound + 1
    /\ proposedOutcome' = outcome
    /\ evidenceHash' = hash
    /\ proposedAt' = now
    /\ state' = "RESOLUTION_PROPOSED"
    /\ UNCHANGED << now, factoryVars, tokenVars, config, challengeVars, bondVars,
                    resultVars, stakeVars, claimVars >>

AnyRoundContestable ==      \* mutant: the replacement may be challenged too
    proposalRound >= 1

RoundContestable == proposalRound = 1

WindowNeverCloses == TRUE   \* mutant: a challenge may come late

WindowOpen == now < challengeEndsAt

Challenge(a, reason, fee) ==
    /\ state = "RESOLUTION_PROPOSED"
    /\ WindowOpen
    /\ RoundContestable
    /\ reason # NoHash
    /\ yesStake[a] > 0 \/ noStake[a] > 0
    /\ FitsTimestamp(now + config.resolutionWindow)
    /\ challenger' = a
    /\ challengeReasonHash' = reason
    /\ challengedOutcome' = proposedOutcome
    /\ challengedAt' = now
    /\ state' = "CHALLENGED"
    /\ IF config.challengeBond > 0
         THEN /\ bondOutstanding' = TRUE
              /\ TransferIn(a, config.challengeBond, fee)
         ELSE UNCHANGED <<bondOutstanding, tokenVars>>
    /\ UNCHANGED << now, factoryVars, config, proposalVars, bondRefundable,
                    forfeitedBond, resultVars, stakeVars, claimVars >>

-----------------------------------------------------------------------------
(* Settlement and cancellation. *)

SettleWithBondOwed(s, remaining, bond) ==   \* mutant: ignores the bond
    IF s = "FINALIZED" /\ remaining = 0 THEN "SETTLED" ELSE s

\* _settleIfExhausted(), on the values the calling function leaves behind.
SettleIfExhausted(s, remaining, bond) ==
    IF s = "FINALIZED" /\ remaining = 0 /\ ~bond THEN "SETTLED" ELSE s

RefundStakesOnly(reason) == \* mutant: _cancel() forgets the bond
    /\ state' = "CANCELLED"
    /\ cancellationReason' = reason
    /\ refundMode' = TRUE
    /\ remainingClaimableStake' = totalYes + totalNo
    /\ UNCHANGED <<bondOutstanding, bondRefundable, forfeitedBond>>

\* _cancel(reason)
DoCancel(reason) ==
    /\ state' = "CANCELLED"
    /\ cancellationReason' = reason
    /\ refundMode' = TRUE
    /\ remainingClaimableStake' = totalYes + totalNo
    /\ bondRefundable' = (bondOutstanding \/ bondRefundable)
    /\ UNCHANGED <<bondOutstanding, forfeitedBond>>

BondIgnoresRefundMode(outcome, refund) ==   \* mutant: strands the bond
    outcome # challengedOutcome

BondReturns(outcome, refund) == outcome # challengedOutcome \/ refund

EverythingClaimable(outcome) ==             \* mutant: counts the losers' stake
    totalYes + totalNo

ClaimableStake(outcome) ==
    IF TotalOn(outcome) = 0 THEN totalYes + totalNo ELSE TotalOn(outcome)

DecideOutcome(outcome) ==
    LET refund   == TotalOn(outcome) = 0
        returned == BondReturns(outcome, refund)
        forfeit  == bondOutstanding /\ ~returned
    IN  /\ refundMode' = refund
        /\ remainingClaimableStake' = ClaimableStake(outcome)
        /\ bondRefundable' = IF bondOutstanding THEN returned ELSE bondRefundable
        /\ forfeitedBond' = IF forfeit THEN config.challengeBond ELSE forfeitedBond
        /\ bondOutstanding' = (bondOutstanding /\ ~forfeit)
        /\ state' = SettleIfExhausted("FINALIZED", remainingClaimableStake',
                                      bondOutstanding')
        /\ UNCHANGED cancellationReason

WindowOver == now >= challengeEndsAt

Finalize ==
    /\ state = "RESOLUTION_PROPOSED"
    /\ WindowOver
    /\ finalOutcome' = proposedOutcome
    /\ finalizedAt' = now
    /\ IF proposedOutcome = "INVALID"
         THEN DoCancel("RESOLVED_INVALID")
         ELSE DecideOutcome(proposedOutcome)
    /\ UNCHANGED << now, factoryVars, tokenVars, config, proposalVars, challengeVars,
                    stakeVars, hasClaimed >>

NoReviewTimeout(reason) ==  \* mutant: a challenged market never times out
    /\ reason = "NO_RESOLUTION"
    /\ ClosedIfDue \in {"OPEN", "CLOSED"}
    /\ now >= resolutionDeadline

TimedOut(reason) ==
    \/ /\ reason = "NO_RESOLUTION"
       /\ ClosedIfDue \in {"OPEN", "CLOSED"}
       /\ now >= resolutionDeadline
    \/ /\ reason = "NO_REVIEW"
       /\ state = "CHALLENGED"
       /\ now >= reviewDeadline

Cancel(reason) ==
    /\ TimedOut(reason)
    /\ DoCancel(reason)
    /\ UNCHANGED << now, factoryVars, tokenVars, config, proposalVars, challengeVars,
                    finalOutcome, finalizedAt, stakeVars, hasClaimed >>

-----------------------------------------------------------------------------
(* Withdrawals.  Subtractions are checked: an underflow reverts. *)

PayStake(a, stake, amount) ==
    /\ hasClaimed' = [hasClaimed EXCEPT ![a] = TRUE]
    /\ remainingClaimableStake >= stake
    /\ remainingClaimableStake' = remainingClaimableStake - stake
    /\ state' = SettleIfExhausted(state, remainingClaimableStake', bondOutstanding)
    /\ TransferOut(a, amount)

Claim(a) ==
    /\ ~refundMode
    /\ state \in {"FINALIZED", "SETTLED"}
    /\ ~hasClaimed[a]
    /\ StakeOn(finalOutcome, a) > 0
    /\ PayStake(a, StakeOn(finalOutcome, a), Payout(a))
    /\ UNCHANGED << now, factoryVars, config, proposalVars, challengeVars, bondVars,
                    resultVars, stakeVars >>

RefundsOnlyAfterFinality ==     \* mutant: forgets the cancelled markets
    state \in {"FINALIZED", "SETTLED"}

Withdrawable == Resolved

WithdrawRefund(a) ==
    /\ refundMode
    /\ Withdrawable
    /\ ~hasClaimed[a]
    /\ StakeOf(a) > 0
    /\ PayStake(a, StakeOf(a), StakeOf(a))
    /\ UNCHANGED << now, factoryVars, config, proposalVars, challengeVars, bondVars,
                    resultVars, stakeVars >>

BondStaysOutstanding(a) ==      \* mutant: the bond may be collected again
    /\ a = challenger
    /\ Resolved
    /\ bondOutstanding
    /\ bondRefundable
    /\ TransferOut(a, config.challengeBond)
    /\ UNCHANGED << now, factoryVars, config, state, proposalVars, challengeVars,
                    bondVars, resultVars, stakeVars, claimVars >>

ClaimChallengeBond(a) ==
    /\ a = challenger
    /\ Resolved
    /\ bondOutstanding
    /\ bondRefundable
    /\ bondOutstanding' = FALSE
    /\ state' = SettleIfExhausted(state, remainingClaimableStake, FALSE)
    /\ TransferOut(a, config.challengeBond)
    /\ UNCHANGED << now, factoryVars, config, proposalVars, challengeVars,
                    bondRefundable, forfeitedBond, resultVars, stakeVars, claimVars >>

-----------------------------------------------------------------------------
(* The environment: the clock and the factory's administrator. *)

Tick ==
    /\ now < MAX_TIMESTAMP
    /\ now' = now + 1
    /\ UNCHANGED << factoryVars, tokenVars, config, state, proposalVars,
                    challengeVars, bondVars, resultVars, stakeVars, claimVars >>

Administer ==
    /\ \/ paused' = ~paused /\ UNCHANGED proposers
       \/ proposers' \in SUBSET Resolvers /\ UNCHANGED paused
    /\ UNCHANGED << now, tokenVars, config, state, proposalVars, challengeVars,
                    bondVars, resultVars, stakeVars, claimVars >>

Next ==
    \/ Tick
    \/ Administer
    \/ \E a \in Accounts, side \in Outcome, amount \in 0 .. Funds, fee \in Fees :
          Stake(a, side, amount, fee)
    \/ Close
    \/ \E r \in Resolvers, outcome \in Outcome, hash \in EvidenceHashes \cup {NoHash} :
          ProposeResolution(r, outcome, hash)
    \/ \E a \in Accounts, reason \in ReasonHashes \cup {NoHash}, fee \in Fees :
          Challenge(a, reason, fee)
    \/ Finalize
    \/ \E reason \in CancellationReason : Cancel(reason)
    \/ \E a \in Accounts : Claim(a) \/ WithdrawRefund(a) \/ ClaimChallengeBond(a)

\* Time passes, somebody makes the permissionless calls, and whoever is owed
\* money keeps asking for it.  Nothing is assumed of resolver or administrator.
Fairness ==
    /\ WF_vars(Tick)
    /\ WF_vars(Finalize)
    /\ WF_vars(\E reason \in CancellationReason : Cancel(reason))
    /\ \A a \in Accounts :
          /\ WF_vars(Claim(a))
          /\ WF_vars(WithdrawRefund(a))
          /\ WF_vars(ClaimChallengeBond(a))

Spec == Init /\ [][Next]_vars
FairSpec == Spec /\ Fairness

-----------------------------------------------------------------------------
(* What an account may still withdraw: previewClaim() plus the refunds. *)

StakeDue(a) ==
    IF ~Resolved \/ hasClaimed[a] THEN 0
    ELSE IF refundMode THEN StakeOf(a)
    ELSE IF StakeOn(finalOutcome, a) > 0 THEN Payout(a) ELSE 0

BondDue(a) ==
    IF a = challenger /\ Resolved /\ bondOutstanding /\ bondRefundable
      THEN config.challengeBond ELSE 0

Due(a) == StakeDue(a) + BondDue(a)

\* The stake that entitles an account to a withdrawal it has not made yet.
ClaimableStakeOf(a) ==
    IF hasClaimed[a] THEN 0
    ELSE IF refundMode THEN StakeOf(a) ELSE StakeOn(finalOutcome, a)

BondHeld == IF bondOutstanding THEN config.challengeBond ELSE 0

-----------------------------------------------------------------------------
(* Type invariant.  The configuration satisfies the protocol limits, no     *)
(* recorded instant lies in the future, and no deadline, configured or      *)
(* computed from a recorded instant, exceeds uint64.                        *)

DeadlinesFit ==
    /\ resolutionDeadline <= MAX_TIMESTAMP
    /\ challengeEndsAt <= MAX_TIMESTAMP
    /\ reviewDeadline <= MAX_TIMESTAMP

TypeOK ==
    /\ now \in 0 .. MAX_TIMESTAMP
    /\ paused \in BOOLEAN
    /\ proposers \in SUBSET Resolvers
    /\ wallet \in [Accounts -> Nat]
    /\ held \in Nat
    /\ config \in Params
    /\ config.tradingEndsAt > 0
    /\ config.challengeWindow \in MIN_CHALLENGE_WINDOW .. MAX_CHALLENGE_WINDOW
    /\ config.resolutionWindow \in MIN_RESOLUTION_WINDOW .. MAX_RESOLUTION_WINDOW
    /\ config.conditionDeadline >= config.tradingEndsAt
    /\ DeadlinesFit
    /\ state \in State
    /\ proposedOutcome \in Outcome
    /\ evidenceHash \in EvidenceHashes \cup {NoHash}
    /\ proposedAt \in 0 .. now
    /\ proposalRound \in 0 .. MAX_PROPOSAL_ROUNDS
    /\ challenger \in Accounts \cup {NoAccount}
    /\ challengeReasonHash \in ReasonHashes \cup {NoHash}
    /\ challengedOutcome \in Outcome
    /\ challengedAt \in 0 .. now
    /\ bondOutstanding \in BOOLEAN
    /\ bondRefundable \in BOOLEAN
    /\ forfeitedBond \in Nat
    /\ finalOutcome \in Outcome
    /\ finalizedAt \in 0 .. now
    /\ cancellationReason \in CancellationReason
    /\ refundMode \in BOOLEAN
    /\ yesStake \in [Accounts -> Nat]
    /\ noStake \in [Accounts -> Nat]
    /\ totalYes \in Nat
    /\ totalNo \in Nat
    /\ hasClaimed \in [Accounts -> BOOLEAN]
    /\ remainingClaimableStake \in Nat

-----------------------------------------------------------------------------
(* The lifecycle, state by state: what each state says of the proposal, the *)
(* challenge and the result.  Inductive together with TypeOK.               *)

BeforeProposal ==
    state \in {"OPEN", "CLOSED"} =>
        /\ proposalRound = 0 /\ proposedOutcome = "UNSET" /\ evidenceHash = NoHash

WhileStanding ==
    state \in {"RESOLUTION_PROPOSED", "CHALLENGED", "FINALIZED", "SETTLED"} =>
        /\ proposalRound \in 1 .. MAX_PROPOSAL_ROUNDS
        /\ proposedOutcome # "UNSET" /\ evidenceHash # NoHash

ChallengedOnce ==
    /\ state = "CHALLENGED" => proposalRound = 1 /\ challenger # NoAccount
    /\ state # "CHALLENGED" /\ cancellationReason # "NO_REVIEW" =>
          (proposalRound = 2 <=> challenger # NoAccount)
    /\ cancellationReason = "NO_REVIEW" => proposalRound = 1 /\ challenger # NoAccount
    /\ challenger # NoAccount <=> challengedOutcome # "UNSET"
    /\ challenger # NoAccount <=> challengeReasonHash # NoHash

ResultFollowsState ==
    /\ ~Resolved =>
          /\ finalOutcome = "UNSET" /\ finalizedAt = 0
          /\ ~refundMode /\ ~bondRefundable /\ forfeitedBond = 0
    /\ cancellationReason # "NONE" <=> state = "CANCELLED"
    /\ state \in {"FINALIZED", "SETTLED"} =>
          /\ finalOutcome = proposedOutcome /\ finalOutcome \in {"YES", "NO"}
          /\ refundMode <=> TotalOn(finalOutcome) = 0
    /\ state = "CANCELLED" =>
          /\ refundMode /\ forfeitedBond = 0
          /\ finalOutcome = IF cancellationReason = "RESOLVED_INVALID"
                              THEN "INVALID" ELSE "UNSET"
          /\ finalOutcome = "INVALID" => proposedOutcome = "INVALID" /\ proposalRound > 0

BondFollowsState ==
    /\ bondOutstanding => challenger \in Accounts /\ config.challengeBond > 0
    /\ Resolved /\ bondOutstanding => bondRefundable
    /\ forfeitedBond > 0 =>
          /\ ~bondOutstanding /\ ~refundMode
          /\ forfeitedBond = config.challengeBond
          /\ challenger # NoAccount /\ finalOutcome = challengedOutcome

SettlementFollowsState ==
    /\ state = "SETTLED" => remainingClaimableStake = 0 /\ ~bondOutstanding
    /\ state = "FINALIZED" => remainingClaimableStake > 0 \/ bondOutstanding

\* The lifecycle is one path with one detour: a market is resolved at most
\* once, by a proposal nobody contested or by its only replacement.
LifecycleInv ==
    /\ BeforeProposal
    /\ WhileStanding
    /\ ChallengedOnce
    /\ ResultFollowsState
    /\ BondFollowsState
    /\ SettlementFollowsState

-----------------------------------------------------------------------------
(* Safety. *)

\* Whatever the accounts may still withdraw is there, and before a resolution
\* every token that was put in is (stake, challenge, and every payout path).
Solvency ==
    IF Resolved
      THEN SumFunction([a \in Accounts |-> Due(a)]) <= held
      ELSE SumFunction([a \in Accounts |-> StakeOf(a)]) + BondHeld = held

\* The same said with the market's own totals: before a resolution it holds
\* the stakes and the bond, in refund mode exactly what it still owes, and for
\* the winners at least the share of the pool their unclaimed stake stands for.
FullyBacked ==
    /\ ~Resolved => held = totalYes + totalNo + BondHeld
    /\ refundMode => held = remainingClaimableStake + BondHeld
    /\ Resolved /\ ~refundMode =>
          remainingClaimableStake * pool <= (held - BondHeld) * TotalOn(finalOutcome)

\* Flooring loses less than one base unit per winner, and nothing else is left
\* behind: what outlives the withdrawals is rounding (claim).
DustBelowWinners ==
    Resolved /\ ~refundMode =>
        held - SumFunction([a \in Accounts |-> Due(a)])
          < Cardinality({a \in Accounts : StakeOn(finalOutcome, a) > 0})

\* In refund mode everybody ends with exactly the tokens they came with, the
\* challenger's bond included (withdrawRefund, claimChallengeBond).
RefundMakesWhole ==
    refundMode => \A a \in Accounts : wallet[a] + Due(a) = Funds

\* remainingClaimableStake is the sum over the accounts that it stands for, so
\* its checked subtraction never reverts a claim (_settleIfExhausted).
ClaimableMatchesStakes ==
    Resolved =>
        remainingClaimableStake = SumFunction([a \in Accounts |-> ClaimableStakeOf(a)])

\* SETTLED says precisely that nobody has anything left to withdraw.
SettledExactly ==
    state \in {"FINALIZED", "SETTLED"} =>
        (state = "SETTLED" <=> \A a \in Accounts : Due(a) = 0)

\* The bond follows the published rule: forfeited exactly when the replacement
\* confirms the challenged outcome and somebody won, owed back otherwise.
BondFollowsOutcome ==
    Resolved /\ challenger # NoAccount =>
        /\ forfeitedBond =
              IF finalOutcome = challengedOutcome /\ ~refundMode
                THEN config.challengeBond ELSE 0
        /\ \/ forfeitedBond > 0
           \/ BondDue(challenger) = config.challengeBond
           \/ ~bondOutstanding

\* While a contested proposal is on record: the challenge fell into its window.
ContestedInTime ==
    proposalRound = 1 /\ challenger # NoAccount =>
        proposedAt <= challengedAt /\ challengedAt < challengeEndsAt

\* A final outcome stood for a whole challenge window; it was never contested,
\* or it replaces the one that was, and none is contested after its window.
FinalOutcomeWasContestable ==
    /\ ContestedInTime
    /\ finalOutcome # "UNSET" =>
          /\ finalOutcome = proposedOutcome
          /\ finalizedAt - proposedAt >= config.challengeWindow
          /\ proposedAt >= config.conditionDeadline
          /\ \/ proposalRound = 1 /\ challenger = NoAccount
             \/ proposalRound = 2 /\ challenger # NoAccount /\ challengedAt <= proposedAt

-----------------------------------------------------------------------------
(* What no step may do. *)

\* A resolution is never revised: not the outcome, its evidence, the stakes,
\* the pool nor the way the money goes.
ResolutionIsIrrevocable ==
    [][ Resolved =>
          /\ Resolved'
          /\ state = "CANCELLED" <=> state' = "CANCELLED"
          /\ state = "SETTLED" => state' = "SETTLED"
          /\ UNCHANGED << proposalVars, challengeVars, resultVars, stakeVars,
                           forfeitedBond >> ]_vars

\* After the resolution what an account holds plus what it may withdraw is
\* fixed: nobody is paid twice, and nobody's withdrawal costs another.
EntitlementsFixed ==
    [][ Resolved =>
          \A a \in Accounts : wallet'[a] + Due(a)' = wallet[a] + Due(a) ]_vars

-----------------------------------------------------------------------------
(* Liveness under FairSpec: no resolver and no administrator is assumed. *)

\* Every market is resolved, however absent the resolver is.
MarketResolves == <>Resolved

\* Whoever is owed money is paid, whatever the administrator pauses or revokes.
DueIsPaid == \A a \in Accounts : Due(a) > 0 ~> Resolved /\ Due(a) = 0

\* A finalized market settles: no stake and no bond stays claimable forever.
FinalizedSettles == state = "FINALIZED" ~> state = "SETTLED"

=============================================================================
