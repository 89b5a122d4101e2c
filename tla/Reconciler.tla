------------------------------- MODULE Reconciler -------------------------------
(***************************************************************************)
(* The reconciler (apps/backend/src/reconcile/reconcile.ts): a command     *)
(* that reads the tables and the contract of every listed market and       *)
(* reports where they differ.  One market is modelled, with the contract's *)
(* own actions; the passes of the loop over the list are independent.      *)
(*                                                                         *)
(* Each awaited read is an action, so that the contract, the indexer, the  *)
(* API and the resolver may move between any two.  What the tables hold is *)
(* not trusted: the cached row is the contract's state at any earlier      *)
(* moment or on a branch the chain has dropped, since the indexer reads at *)
(* the unconfirmed head; the status was written after it or not at all;    *)
(* the package may be missing, altered or about another agreement, the     *)
(* specification altered and the address one the factory has dropped.      *)
(***************************************************************************)
EXTENDS ConditionalMarket

CONSTANTS
    Addresses,      \* where the factory may put the market
    NoAddress,      \* null
    NoRow,          \* null
    LastBlock,      \* bound: where the clock stops
    MaxMoves,       \* bound: changes of contract and tables during a run
    MaxBranch,      \* bound: transactions on a branch that is dropped
    MaxMishaps      \* bound: branches, and tables altered behind everybody's back;
                    \* after so many no run is disturbed

ASSUME ReconcilerAssumption ==
    /\ NoAddress \notin Addresses
    /\ 0 \in Fees
    /\ {LastBlock, MaxMoves, MaxBranch, MaxMishaps} \subseteq Nat

VARIABLES
    address,        \* marketByRulesHash(), the factory's registry
    row,            \* markets: NoRow, or its status, address and specification
    packages,       \* evidence_packages, by evidence hash
    cached,         \* market_chain_state: one row for a rules hash, or NoRow
    statusDue,      \* refreshChainState() has cached the row and not set the status
    trunk,          \* the chain where a branch that will be dropped leaves it, or NoRow
    branchLength,   \* transactions on that branch
    pc, listed, cachedStates, onChain, findings,    \* the run; what it needs no more is
                                                    \* set back to NoRow
    moves,          \* history: what changed since the run began
    mishaps

marketVars == vars
tableVars  == <<row, packages, cached, statusDue>>
chainVars  == <<marketVars, address, trunk, branchLength>>
runVars    == <<pc, listed, cachedStates, onChain, findings>>
reconcilerVars == <<chainVars, tableVars, runVars, moves, mishaps>>

\* Two warnings that depend on nothing modelled here are left out: a proposal
\* without a local record and a lagging indexer.
Severity(kind) ==
    IF kind = "unknown-specification"
      THEN "warning"
    ELSE IF kind \in {"market-absent-on-chain", "market-address-not-indexed",
                      "evidence-package-missing", "chain-state-missing"}
      THEN "missing" ELSE "mismatch"

-----------------------------------------------------------------------------
(* The contract, read in one call: what the cache keeps and the API shows. *)

OnChainMarket ==
    [ state |-> state, totalYes |-> totalYes, totalNo |-> totalNo, pool |-> pool,
      challengeBond |-> config.challengeBond,
      proposedOutcome |-> proposedOutcome, finalOutcome |-> finalOutcome,
      cancellationReason |-> cancellationReason, proposalRound |-> proposalRound,
      refundMode |-> refundMode, challengeEndsAt |-> challengeEndsAt,
      evidenceHash |-> evidenceHash, challenger |-> challenger,
      challengedAt |-> challengedAt, bondOutstanding |-> bondOutstanding ]

ComparedWithoutState ==     \* mutant: the state is not compared
    { "totalYes", "totalNo", "pool", "finalOutcome", "proposedOutcome",
      "proposalRound", "refundMode", "evidenceHash", "challenger" }

\* The comparisons of the cached row with the contract.
Compared ==
    { "state", "totalYes", "totalNo", "pool", "finalOutcome", "proposedOutcome",
      "proposalRound", "refundMode", "evidenceHash", "challenger" }

\* chainState.findByAddress() finds a row.
CachedAt(x) == IF cached = NoRow THEN FALSE ELSE cached.address = x

-----------------------------------------------------------------------------
(* The environment. *)

Idle == pc = "idle"

\* Whatever happens during a run is counted.  The report is written at once.
Disturbs ==
    /\ pc # "done"
    /\ Idle \/ (moves < MaxMoves /\ mishaps < MaxMishaps)
    /\ moves' = IF Idle THEN 0 ELSE moves + 1

Registered == row # NoRow

\* POST /api/markets
Register ==
    /\ row = NoRow
    /\ row' = [status |-> "PENDING_ONCHAIN", address |-> NoAddress, intact |-> TRUE]
    /\ UNCHANGED <<chainVars, packages, cached, statusDue>>

\* A transaction on a branch that is dropped counts towards its length.
Mines ==
    /\ IF trunk = NoRow THEN UNCHANGED branchLength
       ELSE branchLength < MaxBranch /\ branchLength' = branchLength + 1
    /\ UNCHANGED trunk

\* createMarket(), at time 0, with whatever parameters initialize() accepts.
Open ==
    /\ address = NoAddress /\ now = 0
    /\ address' \in Addresses
    /\ config' \in {p \in InitParams : AcceptsParams(p)}
    /\ Mines
    /\ UNCHANGED << now, factoryVars, tokenVars, state, proposalVars, challengeVars,
                    bondVars, resultVars, stakeVars, claimVars, tableVars >>

\* The indexer takes in MarketCreated, the first time or again.
IndexCreation ==
    /\ address # NoAddress /\ Registered
    /\ row' = [row EXCEPT !.address = address]
    /\ UNCHANGED <<chainVars, packages, cached, statusDue>>

\* refreshChainState(), its first write: the contract as it is now at the head, and as
\* history whether that is on a branch that is dropped.  While the row of a dropped
\* address holds the rules hash, the table refuses another.
IndexState ==
    /\ address # NoAddress
    /\ cached = NoRow \/ CachedAt(address)
    /\ cached' = [address |-> address, market |-> OnChainMarket, onBranch |-> trunk # NoRow]
    /\ statusDue' = TRUE
    /\ UNCHANGED <<chainVars, row, packages>>

\* Its second write, which a crash or an error may keep it from: the status, of the row
\* there is by then.
IndexStatus ==
    /\ statusDue
    /\ statusDue' = FALSE
    /\ row' = IF Registered THEN [row EXCEPT !.status = cached.market.state] ELSE row
    /\ UNCHANGED <<chainVars, packages, cached>>

\* The resolver stores its package before it proposes; another holder of the
\* proposer role does not.
Propose ==
    /\ address # NoAddress
    /\ \E r \in Resolvers, outcome \in Outcome, hash \in EvidenceHashes :
          /\ ProposeResolution(r, outcome, hash)
          /\ packages' \in {packages, [packages EXCEPT ![hash] = IF @ = "none" THEN "held" ELSE @]}
    /\ Mines
    /\ UNCHANGED <<address, row, cached, statusDue>>

OtherMarketStep ==
    /\ address # NoAddress
    /\ \/ \E a \in Accounts, side \in Outcome, amount \in 1 .. Funds : Stake(a, side, amount, 0)
       \/ Close
       \/ \E a \in Accounts, reason \in ReasonHashes : Challenge(a, reason, 0)
       \/ Finalize
       \/ \E reason \in CancellationReason : Cancel(reason)
       \/ \E a \in Accounts : Claim(a) \/ WithdrawRefund(a) \/ ClaimChallengeBond(a)
    /\ Mines
    /\ UNCHANGED <<address, tableVars>>

Mishap ==
    /\ mishaps < MaxMishaps
    /\ mishaps' = mishaps + 1

\* Somebody alters the specification, or a stored package.
Damage ==
    /\ Mishap
    /\ \/ /\ Registered /\ row' = [row EXCEPT !.intact = FALSE] /\ UNCHANGED packages
       \/ /\ \E hash \in EvidenceHashes, damage \in {"none", "altered", "foreign"} :
                packages[hash] = "held" /\ packages' = [packages EXCEPT ![hash] = damage]
          /\ UNCHANGED row
    /\ UNCHANGED <<chainVars, cached, statusDue>>

\* What follows is on a branch that the chain will drop.  A run on such a branch is a
\* run on a chain, and one that sees it dropped is disturbed: neither is modelled.
Branch ==
    /\ Idle /\ trunk = NoRow
    /\ Mishap
    /\ trunk' =
          [ address |-> address, now |-> now, wallet |-> wallet, held |-> held,
            config |-> config, state |-> state,
            proposedOutcome |-> proposedOutcome, evidenceHash |-> evidenceHash,
            proposedAt |-> proposedAt, proposalRound |-> proposalRound,
            challenger |-> challenger, challengeReasonHash |-> challengeReasonHash,
            challengedOutcome |-> challengedOutcome, challengedAt |-> challengedAt,
            bondOutstanding |-> bondOutstanding, bondRefundable |-> bondRefundable,
            forfeitedBond |-> forfeitedBond, finalOutcome |-> finalOutcome,
            finalizedAt |-> finalizedAt, cancellationReason |-> cancellationReason,
            refundMode |-> refundMode, yesStake |-> yesStake, noStake |-> noStake,
            totalYes |-> totalYes, totalNo |-> totalNo, hasClaimed |-> hasClaimed,
            remainingClaimableStake |-> remainingClaimableStake ]
    /\ UNCHANGED <<marketVars, address, branchLength, tableVars>>

\* The chain drops the branch.  What was written to the tables meanwhile stays.
Reorganise ==
    /\ trunk # NoRow
    /\ trunk' = NoRow /\ branchLength' = 0
    /\ address' = trunk.address /\ now' = trunk.now
    /\ wallet' = trunk.wallet /\ held' = trunk.held
    /\ config' = trunk.config /\ state' = trunk.state
    /\ proposedOutcome' = trunk.proposedOutcome /\ evidenceHash' = trunk.evidenceHash
    /\ proposedAt' = trunk.proposedAt /\ proposalRound' = trunk.proposalRound
    /\ challenger' = trunk.challenger /\ challengeReasonHash' = trunk.challengeReasonHash
    /\ challengedOutcome' = trunk.challengedOutcome /\ challengedAt' = trunk.challengedAt
    /\ bondOutstanding' = trunk.bondOutstanding /\ bondRefundable' = trunk.bondRefundable
    /\ forfeitedBond' = trunk.forfeitedBond
    /\ finalOutcome' = trunk.finalOutcome /\ finalizedAt' = trunk.finalizedAt
    /\ cancellationReason' = trunk.cancellationReason /\ refundMode' = trunk.refundMode
    /\ yesStake' = trunk.yesStake /\ noStake' = trunk.noStake
    /\ totalYes' = trunk.totalYes /\ totalNo' = trunk.totalNo
    /\ hasClaimed' = trunk.hasClaimed
    /\ remainingClaimableStake' = trunk.remainingClaimableStake
    /\ UNCHANGED <<factoryVars, tableVars>>

Environment ==
    \/ /\ Disturbs
       /\ \/ /\ \/ Register \/ Open \/ IndexCreation \/ IndexState \/ IndexStatus
                \/ Propose \/ OtherMarketStep \/ Reorganise
             /\ UNCHANGED mishaps
          \/ Damage
          \/ Branch
       /\ UNCHANGED runVars
    \/ /\ pc # "done"
       /\ now < LastBlock /\ Tick
       /\ UNCHANGED <<address, trunk, branchLength, tableVars, runVars, moves, mishaps>>

-----------------------------------------------------------------------------
(* The run. *)

Goto(label) == pc' = label

\* What a step of the run finds, beyond what it leaves alone.
Found(kinds) ==
    /\ findings' = findings \cup kinds
    /\ UNCHANGED <<chainVars, tableVars, moves, mishaps>>

\* chainState.list().  The events table admits no duplicate identity.
Begin ==
    /\ Idle /\ trunk = NoRow
    /\ Goto("list")
    /\ cachedStates' = (cached # NoRow)
    /\ UNCHANGED <<chainVars, tableVars, listed, onChain, findings, moves, mishaps>>

ListMarkets ==
    /\ pc = "list"
    /\ listed' = row
    /\ Goto(IF row = NoRow THEN "unknown" ELSE "find")
    /\ Found({})
    /\ UNCHANGED <<cachedStates, onChain>>

\* findMarketByRulesHash().  The address is kept where readMarket() will look.
FindMarket ==
    /\ pc = "find"
    /\ \/ /\ address = NoAddress
          /\ Goto("unknown") /\ listed' = NoRow
          /\ UNCHANGED onChain
          /\ Found(IF listed.status = "PENDING_ONCHAIN" THEN {} ELSE {"market-absent-on-chain"})
       \/ /\ address # NoAddress
          /\ listed.address \notin {address, NoAddress}
          /\ Goto("unknown") /\ listed' = NoRow
          /\ Found({"market-address-mismatch"})
          /\ UNCHANGED onChain
       \/ /\ address # NoAddress
          /\ listed.address \in {address, NoAddress}
          /\ Goto("read") /\ UNCHANGED listed
          /\ onChain' = address
          /\ Found(IF listed.address = NoAddress THEN {"market-address-not-indexed"} ELSE {})
    /\ UNCHANGED cachedStates

ReadMarket ==
    /\ pc = "read"
    /\ onChain' = [ market |-> OnChainMarket, address |-> onChain,
                    remainingClaimableStake |-> remainingClaimableStake ]
    /\ Goto(IF evidenceHash = NoHash THEN "cached" ELSE "package")
    /\ Found(IF listed.intact THEN {} ELSE {"rules-hash-not-reproducible"})
    /\ listed' = NoRow
    /\ UNCHANGED cachedStates

PackageFindings(hash) ==
    CASE packages[hash] = "none"    -> {"evidence-package-missing"}
      [] packages[hash] = "altered" -> {"evidence-hash-not-reproducible"}
      [] packages[hash] = "foreign" -> {"evidence-bound-to-other-rules"}
      [] packages[hash] = "held"    -> {}

ReadPackage ==
    /\ pc = "package"
    /\ Goto("cached")
    /\ Found(PackageFindings(onChain.market.evidenceHash))
    /\ UNCHANGED <<listed, cachedStates, onChain>>

StaleFields(a, b) == {f \in Compared : a[f] # b[f]}

ReadCached ==
    /\ pc = "cached"
    /\ \/ /\ ~CachedAt(onChain.address)
          /\ Goto("unknown")
          /\ Found({"chain-state-missing"})
          /\ onChain' = NoRow
       \/ /\ CachedAt(onChain.address)
          /\ Goto("balance")
          /\ Found(IF StaleFields(onChain.market, cached.market) = {}
                     THEN {} ELSE {"chain-state-stale"})
          /\ UNCHANGED onChain
    /\ UNCHANGED <<listed, cachedStates>>

OwesWholePool ==            \* mutant: the pool does not shrink as winners claim
    onChain.market.pool
        + (IF onChain.market.bondOutstanding THEN onChain.market.challengeBond ELSE 0)

Owed ==
    (IF onChain.market.bondOutstanding THEN onChain.market.challengeBond ELSE 0)
        + (IF onChain.market.refundMode THEN onChain.remainingClaimableStake ELSE 0)

Underfunded ==
    \/ held < Owed
    \/ /\ ~onChain.market.refundMode
       /\ onChain.remainingClaimableStake > 0
       /\ held = 0

ReadBalance ==
    /\ pc = "balance"
    /\ Goto("unknown")
    /\ Found(IF Underfunded THEN {"market-underfunded"} ELSE {})
    /\ onChain' = NoRow
    /\ UNCHANGED <<listed, cachedStates>>

\* The rows read at the start whose specification nobody has registered.
FindUnknown ==
    /\ pc = "unknown"
    /\ Goto("done")
    /\ Found(IF cachedStates /\ ~Registered THEN {"unknown-specification"} ELSE {})
    /\ UNCHANGED <<listed, cachedStates, onChain>>

\* The command prints its report and ends.
Exit ==
    /\ pc = "done"
    /\ Goto("idle")
    /\ listed' = NoRow /\ cachedStates' = FALSE /\ onChain' = NoRow /\ findings' = {}
    /\ moves' = 0
    /\ UNCHANGED <<chainVars, tableVars, mishaps>>

Run ==
    \/ Begin \/ ListMarkets \/ FindMarket \/ ReadMarket \/ ReadPackage
    \/ ReadCached \/ ReadBalance \/ FindUnknown \/ Exit

healthy == \A kind \in findings : Severity(kind) = "warning"

ReconcilerInit ==
    /\ Init /\ proposers = Resolvers
    /\ address = NoAddress
    /\ row = NoRow
    /\ packages = [hash \in EvidenceHashes |-> "none"]
    /\ cached = NoRow /\ statusDue = FALSE
    /\ trunk = NoRow /\ branchLength = 0
    /\ pc = "idle" /\ listed = NoRow /\ cachedStates = FALSE /\ onChain = NoRow
    /\ findings = {}
    /\ moves = 0 /\ mishaps = 0

ReconcilerNext == Environment \/ Run

ReconcilerSpec == ReconcilerInit /\ [][ReconcilerNext]_reconcilerVars

-----------------------------------------------------------------------------

Undisturbed == moves = 0

AgreesIn(fields) == \A f \in fields : cached.market[f] = OnChainMarket[f]

\* Registry, row, specification and package are as the API says.  Of a market the
\* factory does not have, only that nothing says it was opened.
RestTruthful ==
    IF address = NoAddress
      THEN row.status = "PENDING_ONCHAIN"
      ELSE /\ row.intact
           /\ row.address = address
           /\ CachedAt(address)
           /\ evidenceHash # NoHash => packages[evidenceHash] = "held"

\* What is compared settles the reason of a cancellation, on whatever branch the row
\* was read; unless that was dropped, it settles the bond and the two instants as well,
\* and that a bond which is shown as paid out has been.  The status is the market's if
\* the row's refresh has come to writing it, and a market was registered before.
CacheTruthful ==
    /\ AgreesIn(Compared \cup {"cancellationReason"})
    /\ ~cached.onBranch =>
          /\ AgreesIn({"challengeBond", "challengeEndsAt", "challengedAt"})
          /\ bondOutstanding => cached.market.bondOutstanding
    /\ statusDue \/ row.status \in {"PENDING_ONCHAIN", state}

\* A healthy report of a run nothing disturbed vouches for what the API shows, columns
\* the reconciler never compares included, as far as what it does compare settles
\* them, whichever moment of the market's past the row is from (comparisons).
HealthyIsTruthful ==
    pc = "done" /\ Undisturbed /\ Registered /\ healthy =>
        RestTruthful /\ (address # NoAddress => CacheTruthful)

\* And it raises no alarm without a cause: on tables that show what is so every
\* reachable market, half withdrawn or settled, is reported healthy, and a market is
\* called underfunded only if it moved between the reads (readTokenBalance).
NoFalseAlarm ==
    pc = "done" /\ Undisturbed =>
        /\ Registered /\ RestTruthful /\ (address # NoAddress => AgreesIn(Compared)) => healthy
        /\ "market-underfunded" \notin findings

=============================================================================
