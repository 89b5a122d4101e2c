------------------------------ MODULE MarketPage ------------------------------
(***************************************************************************)
(* What the market page (apps/web/public/market.mjs) and the two API reads *)
(* behind it show of a market, as a function of the contract's state.      *)
(*                                                                         *)
(* The page is loaded when the indexer has caught up and the server's      *)
(* clock agrees with the chain's, so that the cached chain row is the      *)
(* contract (MCIndexer checks when it is).  A button is an action of       *)
(* ConditionalMarket that the user's own wallet sends; the page itself     *)
(* keeps no state that outlives a load.                                    *)
(***************************************************************************)
EXTENDS ConditionalMarket

-----------------------------------------------------------------------------
(* The server's reading of the contract: readProposalView(). *)

\* There is nothing to show, null, before the first proposal.
ProposalViewGiven == proposalRound # 0

Standing == state = "RESOLUTION_PROPOSED"

WindowOpenInAnyRound == Standing /\ now < challengeEndsAt   \* mutant: round 2 too

challengeWindowOpen ==
    /\ Standing
    /\ proposalRound = 1
    /\ now < challengeEndsAt

finalizable == Standing /\ now >= challengeEndsAt

proposalsExhausted == proposalRound >= 2
secondProposalRequired == state = "CHALLENGED"

-----------------------------------------------------------------------------
(* GET /api/positions: what an account is told it holds. *)

previewClaim(a) ==
    IF state \in {"FINALIZED", "SETTLED"} /\ ~refundMode /\ ~hasClaimed[a]
      THEN Payout(a) ELSE 0

\* The three views, read in one call.
readPosition(a) ==
    [ yes |-> yesStake[a], no |-> noStake[a], hasClaimed |-> hasClaimed[a],
      previewClaim |-> previewClaim(a) ]

Listed(a) == readPosition(a).yes # 0 \/ readPosition(a).no # 0

-----------------------------------------------------------------------------
(* The panels.  document is whether the argument of a challenge is on file; *)
(* it can only be once the contract has the challenge.                      *)

Documents == IF challenger = NoAccount THEN {FALSE} ELSE BOOLEAN

StakePanelShown == state = "OPEN"

SettlePanelShown == state \in {"FINALIZED", "SETTLED", "CANCELLED"}

ChallengeFormShown(document) ==
    ProposalViewGiven /\ challengeWindowOpen /\ ~document

ResolutionButtons == {"resolve", "dry-run", "finalize", "refresh"}

Buttons(document) ==
    ResolutionButtons
        \cup (IF StakePanelShown THEN {"approve", "stake"} ELSE {})
        \cup (IF SettlePanelShown THEN {"claim", "refund", "claim-bond"} ELSE {})
        \cup (IF ChallengeFormShown(document) THEN {"file-challenge"} ELSE {})

\* The contract call the wallet sends for a button (or, for finalize, the
\* server's signer), made by account a.
Sends(button, a) ==
    CASE button = "stake" -> \E side \in {"YES", "NO"}, n \in 1 .. Funds : Stake(a, side, n, 0)
      [] button = "file-challenge" -> \E reason \in ReasonHashes : Challenge(a, reason, 0)
      [] button = "finalize" -> Finalize
      [] button = "claim" -> Claim(a)
      [] button = "refund" -> WithdrawRefund(a)
      [] button = "claim-bond" -> ClaimChallengeBond(a)

ContractButtons == {"stake", "file-challenge", "finalize", "claim", "refund", "claim-bond"}

\* What the challenge panel says of a challenge whose argument is on file.
SecondProposal == IF secondProposalRequired THEN "required" ELSE "made"

\* Who can pay for a challenge and has a stake to defend.
CanContest(a) ==
    /\ Listed(a)
    /\ wallet[a] >= config.challengeBond
    /\ FitsTimestamp(now + config.resolutionWindow)

-----------------------------------------------------------------------------

\* The page hides no call the contract would take: a stake, a challenge, a
\* finalization or a withdrawal somebody is entitled to has its button (load).
NothingTakenIsHidden ==
    \A a \in Accounts, document \in Documents, button \in ContractButtons :
        ENABLED Sends(button, a) => button \in Buttons(document)

\* What it says can be done now is what the contract does: the form is an
\* invitation the contract honours, and neither "finalizable"
\* nor "the replacement proposal is final" is said early or late.
OffersAreHonoured ==
    /\ finalizable <=> ENABLED Finalize
    /\ \A a \in Accounts, document \in Documents :
          /\ ChallengeFormShown(document) /\ CanContest(a) =>
                ENABLED Sends("file-challenge", a)
          /\ proposalsExhausted => ~ENABLED Sends("file-challenge", a)

\* Nobody with money waiting is left out of the positions, or told an amount
\* claim() would not pay (/api/positions).
PositionsComplete ==
    \A a \in Accounts :
        /\ Due(a) > 0 => Listed(a)
        /\ readPosition(a).previewClaim > 0 <=> ENABLED Claim(a)

\* Two implementations of one set of rules, the page's with the server's views
\* and the contract's, agree in every state a market can be in, whatever way it
\* was resolved or cancelled.
PageAgreesWithContract ==
    /\ NothingTakenIsHidden
    /\ OffersAreHonoured
    /\ PositionsComplete

\* "made; it is final": when the panel says the second proposal was made, it was
\* (market.mjs, the Second proposal row).
SaidMadeWasMade ==
    \A document \in Documents :
        document /\ ProposalViewGiven /\ SecondProposal = "made" => proposalRound = 2

=============================================================================
