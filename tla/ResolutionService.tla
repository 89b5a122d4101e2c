--------------------------- MODULE ResolutionService ---------------------------
(***************************************************************************)
(* The service that resolves one registered market                         *)
(* (apps/backend/src/resolution/service.ts), beside the contract it        *)
(* proposes to, the transactions between them and the tables it keeps.     *)
(*                                                                         *)
(* A request to the API is a call.  Calls run concurrently and suspend at  *)
(* every await, so each action is what a call does between two awaits; at  *)
(* any of them the process may die or the awaited call may throw.  A       *)
(* transaction that was sent is mined later, in any order, or never.       *)
(*                                                                         *)
(* A request the service declines (not on the chain, another rules hash,   *)
(* not proposable) changes nothing, so it is no step.  The engine's answer *)
(* is an input: a package, committed to by its hash, or a refusal.         *)
(***************************************************************************)
EXTENDS ConditionalMarket, Sequences

CONSTANTS
    Calls,          \* requests the backend works on at the same time
    Service,        \* the wallet of the resolver key, the only proposer
    CanSubmit,      \* is a resolver key configured?
    OutcomeOf,      \* the outcome an evidence package proposes
    Forcing, DryRuns,       \* the values of the options a request may come with
    MaxStarted      \* bound: requests accepted

ASSUME ServiceAssumption ==
    /\ Resolvers = {Service}
    /\ CanSubmit \in BOOLEAN
    /\ OutcomeOf \in [EvidenceHashes -> {"YES", "NO", "INVALID"}]
    /\ Forcing \subseteq BOOLEAN /\ DryRuns \subseteq BOOLEAN
    /\ MaxStarted \in Nat

VARIABLES
    call,           \* per call: where it is suspended, and its locals
    rows,           \* the resolutions table
    evidence,       \* the evidence table: hashes of the packages stored
    documents,      \* the challenge documents stored
    txs,            \* the transactions sent, each with its fate
    started,
    committed       \* history: the proposals the contract accepted, in order

serviceVars == <<call, rows, evidence, documents, txs, started, committed>>

allVars == <<vars, serviceVars>>

SubmissionState == {"NOT_SUBMITTED", "SUBMITTED", "CONFIRMED", "FAILED"}

NoTransaction == 0

Row == [ status : {"PROPOSED", "NO_PROPOSAL"}, evidenceHash : EvidenceHashes \cup {NoHash},
         round : Nat, submissionState : SubmissionState, tx : Nat, finalized : BOOLEAN ]

Tx == [ function : {"proposeResolution", "finalize"},
        evidenceHash : EvidenceHashes \cup {NoHash},
        fate : {"pending", "succeeded", "reverted"} ]

NoCall == [ at |-> "idle", round |-> 0, force |-> FALSE, dryRun |-> FALSE, row |-> 0, tx |-> 0 ]

ServiceInit ==
    /\ Init
    /\ call = [c \in Calls |-> NoCall]
    /\ rows = <<>> /\ evidence = {} /\ documents = {}
    /\ txs = <<>> /\ started = 0 /\ committed = <<>>

Goto(c, place) == call' = [call EXCEPT ![c].at = place]

Return(c) == call' = [call EXCEPT ![c] = NoCall]

-----------------------------------------------------------------------------
(* resolveMarket() *)

PROPOSABLE_STATES == {"OPEN", "CLOSED", "CHALLENGED"}

\* The guards it repeats, on the state readMarket() returned.
MarketProposable ==
    /\ state \in PROPOSABLE_STATES
    /\ ~(state = "OPEN" /\ now < config.tradingEndsAt)
    /\ now >= config.conditionDeadline
    /\ proposalRound < MAX_PROPOSAL_ROUNDS

ResolveMarket(c, force, dryRun) ==
    /\ call[c].at = "idle"
    /\ started < MaxStarted
    /\ MarketProposable
    /\ started' = started + 1
    /\ call' = [call EXCEPT ![c] =
                  [NoCall EXCEPT !.at = "findStanding", !.round = proposalRound + 1,
                                 !.force = force, !.dryRun = dryRun]]
    /\ UNCHANGED <<vars, rows, evidence, documents, txs, committed>>

\* findProposedByRound(): the latest proposal recorded for a round, if any.
Proposed(round) ==
    {i \in DOMAIN rows : rows[i].status = "PROPOSED" /\ rows[i].round = round}

Latest(indices) == CHOOSE i \in indices : \A j \in indices : j <= i

\* The proposal that already stands for a call's round and is returned instead.
Standing(c) ==
    {i \in Proposed(call[c].round) :
        i = Latest(Proposed(call[c].round)) /\ rows[i].submissionState # "FAILED"}

FindStanding(c) ==
    /\ call[c].at = "findStanding"
    /\ IF ~call[c].force /\ Standing(c) # {} THEN Return(c) ELSE Goto(c, "persist")
    /\ UNCHANGED <<vars, rows, evidence, documents, txs, started, committed>>

NewRow(c, status, hash) ==
    [ status |-> status, evidenceHash |-> hash, round |-> call[c].round,
      submissionState |-> "NOT_SUBMITTED", tx |-> NoTransaction, finalized |-> FALSE ]

\* Evidence was retrieved, checked and judged: the attempt is recorded.
PersistProposal(c, hash) ==
    /\ call[c].at = "persist"
    /\ rows' = Append(rows, NewRow(c, "PROPOSED", hash))
    /\ call' = [call EXCEPT ![c].at = "saveEvidence", ![c].row = Len(rows) + 1]
    /\ UNCHANGED <<vars, evidence, documents, txs, started, committed>>

\* No validation plan, or no proposal from the engine: the reason is recorded.
PersistRefusal(c) ==
    /\ call[c].at = "persist"
    /\ rows' = Append(rows, NewRow(c, "NO_PROPOSAL", NoHash))
    /\ Return(c)
    /\ UNCHANGED <<vars, evidence, documents, txs, started, committed>>

EvidenceUnsaved(c) ==       \* mutant: submits a package it has not stored
    /\ call[c].at = "saveEvidence"
    /\ IF call[c].dryRun \/ ~CanSubmit THEN Return(c) ELSE Goto(c, "send")
    /\ UNCHANGED <<vars, rows, evidence, documents, txs, started, committed>>

SaveEvidence(c) ==
    /\ call[c].at = "saveEvidence"
    /\ evidence' = evidence \cup {rows[call[c].row].evidenceHash}
    /\ IF call[c].dryRun \/ ~CanSubmit THEN Return(c) ELSE Goto(c, "send")
    /\ UNCHANGED <<vars, rows, documents, txs, started, committed>>

-----------------------------------------------------------------------------
(* submit() *)

NewTx(function, hash) == [function |-> function, evidenceHash |-> hash, fate |-> "pending"]

SendProposal(c) ==
    /\ call[c].at = "send"
    /\ txs' = Append(txs, NewTx("proposeResolution", rows[call[c].row].evidenceHash))
    /\ call' = [call EXCEPT ![c].at = "markSubmitted", ![c].tx = Len(txs) + 1]
    /\ UNCHANGED <<vars, rows, evidence, documents, started, committed>>

MarkSubmitted(c) ==
    /\ call[c].at = "markSubmitted"
    /\ rows' = [rows EXCEPT ![call[c].row].submissionState = "SUBMITTED",
                            ![call[c].row].tx = call[c].tx]
    /\ Goto(c, "wait")
    /\ UNCHANGED <<vars, evidence, documents, txs, started, committed>>

TimeoutIsFailure(fate) ==   \* mutant: gives a transaction up when the wait times out
    CASE fate = "succeeded" -> {"CONFIRMED", "SUBMITTED"}
      [] fate = "reverted"  -> {"FAILED"}
      [] fate = "pending"   -> {"FAILED"}

\* waitForTransaction() may time out on a transaction that is pending, or not
\* deep enough yet.
Receipts(fate) ==
    CASE fate = "succeeded" -> {"CONFIRMED", "SUBMITTED"}
      [] fate = "reverted"  -> {"FAILED"}
      [] fate = "pending"   -> {"SUBMITTED"}

MarkReceipt(c, receipt) ==
    /\ call[c].at = "wait"
    /\ receipt \in Receipts(txs[call[c].tx].fate)
    /\ rows' = [rows EXCEPT ![call[c].row].submissionState = receipt]
    /\ Return(c)
    /\ UNCHANGED <<vars, evidence, documents, txs, started, committed>>

-----------------------------------------------------------------------------
(* finalizeMarket() and recordChallenge() *)

FinalizeMarket(c) ==
    /\ call[c].at = "idle"
    /\ started < MaxStarted
    /\ state = "RESOLUTION_PROPOSED"
    /\ now >= challengeEndsAt
    /\ CanSubmit
    /\ started' = started + 1
    /\ txs' = Append(txs, NewTx("finalize", NoHash))
    /\ call' = [call EXCEPT ![c] = [NoCall EXCEPT !.at = "waitFinal", !.tx = Len(txs) + 1]]
    /\ UNCHANGED <<vars, rows, evidence, documents, committed>>

\* markFinalized() stamps every row of the market that has no stamp yet.
MarkFinalized(c, receipt) ==
    /\ call[c].at = "waitFinal"
    /\ receipt \in Receipts(txs[call[c].tx].fate)
    /\ rows' = IF receipt = "FAILED" THEN rows
               ELSE [i \in DOMAIN rows |-> [rows[i] EXCEPT !.finalized = TRUE]]
    /\ Return(c)
    /\ UNCHANGED <<vars, evidence, documents, txs, started, committed>>

CommittedText(reason) == reason = challengeReasonHash

\* One document per round; filing it again changes nothing.  What it read of the
\* challenge cannot change before the document is saved.
RecordChallenge(a, reason) ==
    /\ state = "CHALLENGED"
    /\ a = challenger
    /\ CommittedText(reason)
    /\ ~\E d \in documents : d.round = proposalRound
    /\ documents' = documents \cup
          {[round |-> proposalRound, challenger |-> challenger, reason |-> reason]}
    /\ UNCHANGED <<vars, call, rows, evidence, txs, started, committed>>

-----------------------------------------------------------------------------
(* The environment: failures, the chain, and everybody else. *)

\* The process dies, or what the call waits for throws.
Abort(c) ==
    /\ call[c].at # "idle"
    /\ Return(c)
    /\ UNCHANGED <<vars, rows, evidence, documents, txs, started, committed>>

Fate(t, fate) == txs' = [txs EXCEPT ![t].fate = fate]

Pending(t, function) == txs[t].fate = "pending" /\ txs[t].function = function

MineProposal(t) ==
    /\ Pending(t, "proposeResolution")
    /\ ProposeResolution(Service, OutcomeOf[txs[t].evidenceHash], txs[t].evidenceHash)
    /\ Fate(t, "succeeded")
    /\ committed' = Append(committed, t)
    /\ UNCHANGED <<call, rows, evidence, documents, started>>

MineFinalize(t) ==
    /\ Pending(t, "finalize")
    /\ Finalize
    /\ Fate(t, "succeeded")
    /\ UNCHANGED <<call, rows, evidence, documents, started, committed>>

Acceptable ==
    /\ MarketProposable
    /\ Service \in proposers
    /\ FitsTimestamp(now + config.challengeWindow)

Revert(t) ==
    /\ \/ Pending(t, "proposeResolution") /\ ~Acceptable
       \/ Pending(t, "finalize") /\ ~(state = "RESOLUTION_PROPOSED" /\ WindowOver)
    /\ Fate(t, "reverted")
    /\ UNCHANGED <<vars, call, rows, evidence, documents, started, committed>>

\* What others do to the market.  The service notices neither withdrawals nor
\* the pause switch; a revoked role shows in its reverted proposals.
OthersStep ==
    /\ \/ Tick \/ Close \/ Finalize
       \/ \E a \in Accounts, side \in {"YES", "NO"}, amount \in 1 .. Funds, fee \in Fees :
             Stake(a, side, amount, fee)
       \/ \E a \in Accounts, reason \in ReasonHashes, fee \in Fees : Challenge(a, reason, fee)
       \/ \E reason \in CancellationReason : Cancel(reason)
    /\ UNCHANGED serviceVars

-----------------------------------------------------------------------------
(* The routes: any signed-in wallet may have a market resolved, anybody may *)
(* have it finalized, and a challenge is filed in the name of the wallet    *)
(* that is signed in.                                                       *)

ResolveRoute ==
    \E c \in Calls, force \in Forcing, dryRun \in DryRuns : ResolveMarket(c, force, dryRun)

FinalizeRoute == \E c \in Calls : FinalizeMarket(c)

ChallengeRoute ==
    \E owner \in Accounts, reason \in ReasonHashes : RecordChallenge(owner, reason)

CallStep(c) ==
    \/ FindStanding(c) \/ PersistRefusal(c) \/ SaveEvidence(c) \/ SendProposal(c)
    \/ MarkSubmitted(c)
    \/ \E hash \in EvidenceHashes : PersistProposal(c, hash)
    \/ \E receipt \in SubmissionState : MarkReceipt(c, receipt) \/ MarkFinalized(c, receipt)

ServiceNext ==
    \/ ResolveRoute \/ FinalizeRoute \/ ChallengeRoute
    \/ \E c \in Calls : CallStep(c) \/ Abort(c)
    \/ \E t \in DOMAIN txs : MineProposal(t) \/ MineFinalize(t) \/ Revert(t)
    \/ OthersStep

ServiceSpec == ServiceInit /\ [][ServiceNext]_allVars

-----------------------------------------------------------------------------
(* Properties. *)

\* The package behind a commitment on the chain is in the evidence table,
\* wherever calls were interrupted: it is stored before it is proposed.
EvidencePublished == evidenceHash # NoHash => evidenceHash \in evidence

\* What a row says of its transaction is true for good: confirmed means that the
\* contract took this very package, failed that it never will.
SubmissionTruthful ==
    /\ rows \in Seq(Row) /\ txs \in Seq(Tx)
    /\ \A i \in DOMAIN rows :
          LET row == rows[i] IN
          /\ row.tx # NoTransaction => txs[row.tx].evidenceHash = row.evidenceHash
          /\ row.submissionState = "CONFIRMED" => row.tx \in Range(committed)
          /\ row.submissionState = "FAILED" => txs[row.tx].fate = "reverted"

\* "Idempotent per market and round": without force, one proposal per round.
OneProposalPerRound ==
    \A i, j \in DOMAIN rows :
        /\ i # j /\ rows[i].status = "PROPOSED" /\ rows[j].status = "PROPOSED"
        /\ "FAILED" \notin {rows[i].submissionState, rows[j].submissionState}
        => rows[i].round # rows[j].round

=============================================================================
