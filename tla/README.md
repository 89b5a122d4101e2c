# Verification of Covenant

Covenant is a prediction market with an optimistic oracle. A user describes a condition; a language model
compiles it into a specification whose hash is its *rules hash*; the creator's own wallet opens a market for
that hash; wallets stake on YES or NO; after the deadline a backend retrieves evidence, decides an outcome and
proposes it on the chain with a commitment to the evidence; anybody may contest it once for a bond; the outcome
becomes final after its window, and the pool is paid out pro rata.

The project models the contracts, the indexer that follows them, the pipeline that turns sources into a
resolution, the service that submits it, sign-in and registration, the two implementations of the repositories,
the reconciler and what the market page offers. TLC checks the models on small instances; TLAPS proves, for all
parameters, the safety properties of the contracts, of sign-in and registration, of the indexer, of the resolution
service, of the resolution engine, of the repositories and of the reconciler, and that a market implements an
abstract escrow. The page and all liveness are only model-checked.

- [The system](#the-system): components, state, interactions, what makes each correct
- [The modules](#the-modules) and their correspondence to the code
- [The runs](#the-runs): what each asks, its bounds, why they are enough
- [Fairness](#fairness)
- [Where the code and its documentation differ](#where-the-code-and-its-documentation-differ)
- [The proofs](#the-proofs)
- [Only model-checked](#only-model-checked) and [not modelled](#not-modelled)
- [Plan](#plan)

## The system

| component | state | operations | talks to |
|---|---|---|---|
| **ConditionalMarket** contract (`packages/contracts`) | lifecycle state, proposal and round, challenge, bond, stakes per account and side, what was claimed, token balance | `initialize`, `stake`, `close`, `proposeResolution`, `challenge`, `finalize`, `cancel`, `claim`, `withdrawRefund`, `claimChallengeBond` | reads pause switch and proposer role of the factory; moves an ERC-20 token |
| **MarketFactory** contract | `marketById`, `marketByRulesHash`, `marketCount`, roles, pause | `createMarket`, `pause`, `unpause`, `listMarkets`, roles | clones and initializes markets |
| **Indexer** (`indexer/`) | checkpoint, recent block hashes, events, one cached row per market | `runOnce`: detect a reorganisation, choose a range, fetch, persist, apply, record hashes, save | reads the chain; writes the tables; joins markets to specifications on the rules hash |
| **Resolution service** (`resolution/service.ts`) | resolutions, evidence packages, challenge documents | `resolveMarket`, `finalizeMarket`, `recordChallenge` | reads the market, runs retrieval and engine, sends transactions and waits for receipts |
| **Evidence retrieval** (`evidence/`) | none beyond a walk: attempts, timers, budget | read the approved sources in precedence: name lookup, address policy, redirects, size and time limits, back-offs, fallbacks | name service, HTTPS |
| **Deterministic validation** (`validation/`) | none | what each check of a plan makes of what was read, and the verdict | called by the service before the engine |
| **Resolution engine** (`resolution/engine.ts` and beside it) | none beyond a call | verdict and a model's reading to a proposal with its package, or to a refusal | language model |
| **Authentication** (`auth/`) | nonces, sessions | `createChallenge`, `verify`, `authenticate`, `revoke` | called by every writing route |
| **Compilation and registration** (`compiler/`, `api/server.ts`) | conversations, compilations, rows of markets | compile, register, set a validation plan | language model; the indexer fills in the row's on-chain identity |
| **Repositories** (`repositories/`) | the tables of all of the above | every method in two implementations: PostgreSQL behind `guard()`, and memory for the tests | a serverless database that drops connections |
| **Reconciler** (`reconcile/`) | none | compares tables with the chain, reports drift | reads both |
| **Web client** (`apps/web`) | a session token | the market page: panels and buttons by contract state | API; the user's wallet |
| **Chain client and writer, HTTP API, configuration, scripts** | | reads, transactions, receipts; routing and wiring | RPC node |

### What is hard, and what makes it right

*ConditionalMarket.* Nobody coordinates its callers. Calls arrive in any order around deadlines that two parties
both want; a challenge, an empty winning side and a bond can meet in one finalization; integer division and a
checked subtraction sit on the path of every withdrawal; administrator and resolver may disappear. It is right when
it always holds what it owes, whatever the order of withdrawals; when an outcome is final only after it could be
contested for a whole window; when a resolution is never revised; and when every market ends and pays without
anybody's permission.

*MarketFactory.* Right when its two mappings are inverse: the indexer's join on the rules hash rests on it.

*Indexer.* The chain moves and reorganises while a pass awaits, and the process may die between any two writes,
which share no transaction. It is right when the checkpoint never passes an event that is not stored, when nothing
stored was retracted, when cached rows are no older than the checkpoint, when a reorganisation is repaired by the
next pass, and when it catches up.

*Resolution service.* Several requests work on one market at once, each suspended for seconds between reading the
market and proposing to it; a transaction is mined late, after another, or never; the process dies between
recording, storing, sending and noting. It is right when the evidence behind an on-chain commitment was stored
first, and when a row never says of its transaction what is not so.

*Retrieval.* Four clocks overlap: the adapter's deadline across hops, the retriever's backstop behind it, the
back-off between attempts and the budget of the walk. It is right when a walk ends within its budget whatever
the sources do, and when a fallback is read only after everything before it has failed on record.

*Validation and engine.* A plan may encode the failure condition; values differ in scale and sign; a model may
contradict the checks, cite what nobody read or claim an edge case. Right when a payout is what the approved
value makes of the plan, when the model can withhold a proposal and never turn it over, when what is published is
grounded in what was read, and when a package that passed every gate is refused only for its rules, its plan, a
value too long to be put on record or a claim of the model: not for how the engine dated, cited and assembled it.

*Authentication.* Right when a signed challenge buys one session however many requests present it at once.

*Compilation and registration.* Requests of several wallets interleave with each other, with the market being
opened and with the indexer. Right when records belong to who signed, when an accepted plan is never lost to an
idempotent insert, and when a market registered before it was opened is joined to it for good.

*Repositories.* The suite runs on one implementation and production on another, behind a wrapper that runs a
statement again without knowing whether it was committed. Right when the two give the same answers and rows.

*Reconciler.* Its reads are apart in time from each other and from the tables' last refresh, which was of the
unconfirmed head. Right when a healthy report vouches for what the API shows, as far as what it compares can settle
it, and when it raises no alarm without a cause.

*Market page.* It re-implements the contract's guards. Right when it hides no call the contract would take, and
promises none it would refuse.

`PROJECT.json` lists the hazards one by one, each at its line and with the properties that watch it.

## The modules

```
MCConditionalMarket ---> MarketPage ---> ConditionalMarket
MCConditionalMarket ---> MarketImplementsEscrow ---> ConditionalMarket, Escrow
MCResolutionService ---> ResolutionService ---> ConditionalMarket
MCReconciler ---> Reconciler ---> ConditionalMarket
MCPipeline ---> ResolutionEngine ---> Retrieval, Validation
MCStores ---> Stores ---> DrizzleStore, MemoryStore
MCIndexer ---> Indexer
MCRegistration ---> Registration ---> MarketFactory, Authentication
```

**`ConditionalMarket`** — one market. Every external function is one action: transactions are atomic, the functions
that move tokens are `nonReentrant`, and a revert undoes everything, so a call has its whole effect or none.
Variables carry the contract's names; `config` is what `initialize` fixed, `held` and `wallet` the token balances.
The internals `_closeIfDue`, `_cancel` and `_settleIfExhausted` are operators called from the
actions that call them. A transfer to the market may keep back a fee (`Fees`), since the contract compares
balances before and after. `Tick` is `block.timestamp`; `Administer` flips the pause switch and the proposer role
at any time, for good or not. Amounts are unbounded naturals; timestamps are bounded by `MAX_TIMESTAMP`
(`type(uint64).max`), and sums that exceed it revert, as checked arithmetic does.

**`Escrow`** — the abstract promise: deposits are collected, at one instant it is decided what everybody is due,
no more than is there and to depositors only, and from then on an account can only take down its own due. Rounds,
time and outcome are gone. **`MarketImplementsEscrow`** maps a market to it: a posted bond counts as a deposit of
the challenger, `decided` is `Resolved`, `due` is what the views promise.

**`Indexer`** — a pass is a sequence of awaited calls, one action each (`Start`, `Compare`, `DropEvents`,
`DropBlocks`, `Rewind`, `ChooseRange`, `ReadFactory`, `ReadMarkets`, `Persist`, `Attach`, `Refresh`,
`RecordBlock`, `Save`, `Prune`). The chain is a sequence of blocks with at most one relevant transaction each;
`Mine` and `Reorg` happen between any two steps, `Abandon` is a crash or a call that throws: the tables stay, what
the pass held in memory is lost. A failed hash lookup answers "no such block", as `getBlockHash` does.

**`ResolutionService`** — requests (`Calls`) beside one market, extending `ConditionalMarket`: an action is what a
request does between two awaits, with the routes' own conditions in front of the first. Transactions (`txs`) are sent,
and later mined in any order, reverted or left pending; `MineProposal` and `MineFinalize` are the contract's own
actions. `Abort` ends a request at any await. Accounts stake, challenge, finalize and cancel beside it. The engine's
answer is an input here: a package or a refusal. `CanSubmit`, `Forcing` and `DryRuns` are the resolver key and the
options of a request.

**`Retrieval`** — the walk over the approved sources and the adapter's call in flight: `Begin` and `Retry` make an
attempt, `Skip` and `Refuse` none, `Resolved` and `Answered` are the lookup and the answer at each hop. `Expired` is
whichever timer is due, the backstop included; timers are served by a clock (`now`) that advances only while something
is outstanding and never past a timer that is due. URLs, hosts, addresses and answers are records that keep what the
policy and the parser look at: scheme, port, userinfo, labels, address family, status, type, encoding, and the value
at each pointer.

**`Validation`** — pure operators: which plans the schema accepts, how a check selects its source and value, the
five validators over exact decimals, instants, booleans and words, and the verdict. Text is a record whose sort says
which of the code's parsers accept it, and whose length is what the schemas bound.

**`ResolutionEngine`** — extends both: one resolution from the first attempt to a proposal or a refusal
(`Walk`, `Examine`, `ModelFails`, `ModelAnswers`). `Weighed` is the sequence of gates of `resolve()`; `Violations`
the semantic check of the model's reading; `PackageIsValid` the schema of the version 2 evidence package,
including its binding to the rules and its limits: a claim's statement (1000 characters) and value (500), what a
check observed and expected (500 each), the number of checks. The schema's other limits cannot be exceeded: a source's
name (120), a locator (500) and the reasoning (4000) are bounded by the specification's and the output's own schemas,
and the explanation of a disagreement (1000) is never written, since one source at most is read. The code matches a
claimed value with a source without regard to case; so does the model (`fold`), and so must its property
`ProposalIsGrounded`.

**`DrizzleStore`**, **`MemoryStore`** — one operator per repository method, from the tables before to the tables after
and the answer. A PostgreSQL table is a set, so an order that ties may be any, and its unique indexes may refuse a
row; a memory table is a sequence in order of insertion. **`Stores`** runs them side by side: every call goes to both,
and `Guard` lets the connection fail before or after the commit of any attempt. A second actor reads the market list
page by page while markets are registered.

**`Reconciler`** — every awaited read of a run is an action (`Begin`, `ListMarkets`, `FindMarket`, `ReadMarket`,
`ReadPackage`, `ReadCached`, `ReadBalance`, `FindUnknown`, `Exit`), with the contract, the registry, the indexer, the
API and the resolver moving in between. The tables are not trusted: package and specification may be missing, altered
or foreign, and the cached row may be of any earlier moment, or of none the chain remembers. The indexer reads
at the unconfirmed head, so `Branch` lets whatever follows happen on a branch and `Reorganise` takes the contract and
the registry back to where it left (`trunk`), while what was written to the tables stays. `IndexState` and `IndexStatus`
are the two awaited writes of `refreshChainState()`; the second may never come.

**`MarketPage`** — no state of its own: the page, `readProposalView()` and `/api/positions` as a function of the
contract, and the contract call behind each button, compared with that call's guard. It assumes that the indexer
has caught up and that the server's clock is the chain's.

**`MarketFactory`** — the registry; a clone's address is its id. **`Authentication`** — nonces and sessions;
concurrent attempts are suspended at the update that consumes the nonce and at the insert of the session. A
signature is the wallet whose key made it. **`Registration`** composes the two with the compile, register and
validation-plan routes (one action between two awaits), opening on the chain, and the indexer's join (`Attach`,
`UpdateStatus`); reorganisations are `Indexer`'s subject and are left out there, as is every on-chain status but
the first.

`MC...` modules only give constants finite values and declare symmetry.

## The runs

Every property has a mutant in the modules (marked `mutant:`): a plausible bug of the code, such as a dropped
guard, an off-by-one or a missing reset, under which the run finds the property violated. `PROJECT.json` lists them.

**`MarketAccounting`** — money. Three symmetric accounts with two tokens each, a token that may keep one back,
windows and limits of zero and one tick (zero is refused), with and without a bond. Checks the type invariant, which
bounds the deadlines a call computes from its sums as well (`DeadlinesFit`: no sum of instants in use exceeds a uint64),
`Solvency` (whatever is due is held), `FullyBacked` (the same in the market's own totals), `DustBelowWinners`
(rounding leaves less than a unit per winner), `RefundMakesWhole`, `ClaimableMatchesStakes` (the subtraction on the
path of every withdrawal cannot underflow), `SettledExactly`, `BondFollowsOutcome`, the action property
`EntitlementsFixed`, and that the market implements the escrow. Three accounts are needed: two winners who do not
share evenly, and a loser, one of them the challenger; with two tokens each, shares such as 2 of 3 leave dust, and
stakes on both sides, a winner without opponents, a side without stakes and a market without any all occur.

**`MarketTiming`** — time. Two accounts, windows of two ticks (three is refused), seven instants: a proposal can be
early, in time, in the last second; a challenge before, at and after the end of its window; a review late; every
call that is due may be omitted for ever unless somebody benefits from it. Checks `LifecycleInv`,
`FinalOutcomeWasContestable` (a final outcome stood for its whole window; one that replaced another was proposed
after a challenge made inside the window of the first), `ResolutionIsIrrevocable` and, under fairness,
`MarketResolves`, `DueIsPaid` and `FinalizedSettles`. Two accounts give one on each side; longer windows add instants at which nothing new is enabled.
In each of these states, round two, the last second of a window and every kind of cancellation included,
`PageAgreesWithContract` compares the page with the contract: no accepted stake, challenge, finalization or
withdrawal lacks its button, the challenge form and "finalizable" are shown neither early nor late, and the
positions leave nobody out who is due anything.

**`IndexerRestarts`** — passes abandoned at any two points and one reorganisation of unconfirmed blocks, two markets
of which one was never registered. `NothingSkipped`, `NothingRetracted`, `RowsCoverCheckpoint`. Five blocks and
two per pass make at least two passes with a range limit between them; two crashes allow a crash while recovering
from one.

**`IndexerReorgs`** — reorganisations of any depth, twice, deeper than the recorded window included, also during a
pass, and one failed hash lookup. `RepairedByPass`: when a pass ends and nothing moved while it ran, the events stored
are exactly the chain's. `CatchesUp`: once the chain stops, the last confirmed block is reached and kept.
Two reorganisations allow one to hit the repair of the other.

**`Resolution`** — two concurrent requests with every option, one staker, two packages of the same outcome, a market
with a challenge and a replacement round. `EvidencePublished`, `SubmissionTruthful`. Two requests are the least that
race, and two in sequence the least that see each other's rows; two packages and two texts tell the committed one
from the other's. The bond is zero, since `MarketAccounting` covers it.

**`Registration`** — two wallets with a specification each, two nonces, two attempts at once, one conversation, two
requests at once. `RegistryConsistent`, `NonceBuysOneSession`, `RecordsAreTheirOwners`, `PromisesKept` (what a
request answered, a compiled result, a stored plan, survives every later request), `JoinedIfOpenedAfter`. Two
requests are what races: compile against register, register against register with and without a plan; the second
wallet is the one whose records must stay its own.

**`Pipeline`** — one resolution, five specifications (two JSON sources; a manual attestation and a page before a
JSON source; a source whose address the policy or the package schema refuses; rules that are not the committed
ones), six plans (each validator, both encodings, a plan about the second source, a check whose name meets a
derived one, one that accepts more than one sentence of a package holds), eighteen answers (among them values too long
for a claim's value, for its sentence, and for what a check observed), three lookups, and a model that replies in
fourteen ways, is cut off, declines, times out or is throttled. `WalkBounded` and `FallbackJustified` are about the
walk; `PaidAsObserved`, stated by cross-multiplication instead of the code's scaling, `ModelNeverFlips`,
`ProposalIsGrounded` and `RefusalIsExplained` about the result; `Concludes` that there is one. `RefusalIsExplained`
lists every cause for which a package that passed every gate may still be refused: an approved URL that may not be published,
names and number of the plan's checks, a categorical check or a selected value that does not fit on record, a claim of
the model that cites a source twice. Each of them occurs in the run. Two attempts with a back-off, one redirect and
a budget of four ticks against a deadline of two let the budget end before, during and after an attempt, and the
second attempt begin just inside it; values at scales 0, 1 and 2, above, at and below the threshold and negative
separate every comparison. The walk is checked for two and three sources; the theorems below cover any number.

**`Stores`** — every method, three or four calls of one group of tables (tables of different groups are joined by
references only, which start out satisfied), three hashes, addresses in two spellings, batches of logs with duplicates
inside and across calls, one connection failure with up to three repetitions. `StoresAgree`: what memory answers
PostgreSQL may answer, and the rows are the same; the methods for which running a statement twice is not the same as
once say so at their call, and the rest are compared after repetitions too. `WalkSeesEveryMarket`: a client that
follows the cursors of the list is shown every market there was when it began, once. Three markets with a page of one
give two boundaries; two that share an instant of creation are the case a keyset could lose, and are excluded by a
named premise (`DistinctInstants`).

**`Reconciler`** — a market through its whole life with one account, two parameter sets, two possible addresses (a
creation may be dropped and mined again elsewhere), a cached row of any earlier moment. One thing goes wrong: a
document is damaged, or the chain drops a branch of one transaction, any one of the market's life; and one change may
happen during the run. `HealthyIsTruthful`: if nothing moved during the run, a healthy report vouches

- for the registry, the specification and the package;
- for the compared fields of the cached row and, on whatever branch it was read, for the reason of a cancellation;
- unless the row was read on a branch that was dropped, for its bond, the end of its challenge window and the instant
  of the challenge, and for a bond that is shown as paid out;
- for the status, which is the market's or PENDING_ONCHAIN, unless the write of it that follows the row's is still due.

It does not vouch for a bond shown as outstanding, for the bond and the instants of a row from a dropped branch
(a proposal that is mined again a moment later has another window), nor for a status left behind: the API shows these and
the reconciler does not compare them, as [below](#where-the-code-and-its-documentation-differ). `NoFalseAlarm`:
truthful tables are healthy, also for markets half withdrawn or settled, and nothing is called underfunded unless it moved
between the reads. One account suffices because the checks sum nothing; markets are read independently of each other.
Two instants after the opening are enough for a proposal to be mined again at another one; that a challenge is mined
again at another instant needs one more, and is covered by the theorem alone.

The remaining three runs expect a violation; see below.

Deadlock is checked for the market, the indexer, a resolution and the reconciler, which always have a next step or
have ended; it is off where everything waits for requests, which nobody need make (`Resolution`, `ResolutionRace`,
`Registration`, `Stores`).

## Fairness

*ConditionalMarket* (`FairSpec`): time passes, and the calls that anybody may make are eventually made by somebody
who benefits: `finalize`, `cancel` and each account's own withdrawals. `ConditionalMarket.sol:27-29` rests on these
calls being permissionless. Nothing is assumed of `stake`, `challenge`, `close`, the resolver or the administrator:
they may act at the worst moment or never, pause for good or revoke the only resolver. Weak fairness is enough,
since each of these calls stays enabled until made or until the market is resolved another way.

*Indexer* (`FairSpec`): `run()` polls for ever and each awaited call returns or throws, so weak fairness of the steps
of a pass. Nothing is assumed of the chain; it stops because blocks and reorganisations are bounded, which is the
premise "once the chain stops". Crashes are bounded likewise: infinitely many of them would defeat any indexer.

*ResolutionEngine* (`Spec`): timers are served, computation goes on, and a call to the model returns or throws (the
client has its own timeout). Nothing makes a source answer: the walk ends by its timers alone. The two conditions
on the engine are written as the stage they reach; that they are possible whenever demanded is what the deadlock
check of the run shows.

Requests (`ServiceSpec`, `RegistrationSpec`), repository calls and the reconciler have no fairness: their properties
are safety properties, and a process may die for good.

## Where the code and its documentation differ

Three are runs that expect a violation of one statement made in the repository.

| run | said | done |
|---|---|---|
| `IndexerCrashInRewind` (`SkipsNothing`) | "the only failure mode is redoing work, never skipping it" (`indexer.ts:16-19`) | Recorded blocks are deleted (345) before the checkpoint is rewound (346). After a crash between the two nothing disagrees any more and the replaced blocks are skipped for good. |
| `ResolutionRace` (`OneProposalPerRound`) | "Idempotent per market and round" (`packages/shared/src/types/api.ts:158`) | Lookup (315) and insert (411) are separated by retrieval and a model call, and nothing makes the pair unique: two requests both record and send a proposal. The contract accepts one. |
| `PageSecondProposal` (`SaidMadeWasMade`) | "made; it is final", of the second proposal (`market.mjs:417`) | Chosen whenever the market is not `CHALLENGED` (415): a market cancelled because no second proposal came is described as having one. |

Others follow from the models in the same way and have no run of their own:

- *Indexer.* A mismatch means "the indexer deletes the events it wrote above" (`indexer.ts:25-31`); but events are
  stored (215) before the hashes of their blocks are fetched (217, 521), and when blocks are replaced in between the new
  hashes stand beside the old events and nothing ever mismatches. "Never reads past `latest - confirmations`" (21-23),
  but `readMarket` (469) reads the head, so a cached row may show a transaction that is then retracted. A failed hash
  lookup leaves a gap in the recorded blocks (522). `lastProcessedBlockHash` (`schema.ts:289`) is written and never
  compared. "Chain state rows are rebuilt ... they need no rewind of their own" (353-354), but nothing deletes a row,
  and `rulesHash` and `chainMarketId` are unique (`schema.ts:422-423`): if a creation is mined again at another address,
  the row left behind makes the upsert fail in every later pass. The model fixes addresses, so no run shows it.
- *Registration.* On-chain identity is null "until ... the indexer observes `MarketCreated`" (`types.ts:107`), but the
  join (`indexer.ts:436`) happens once: a specification registered after it, or in flight during it, is never joined,
  though its status is still promoted.
- *Resolution service.* A standing proposal is returned because its outcome "is already committed on-chain"
  (`service.ts:310`), but only FAILED rows are excluded (319): one left unsent by a dry run, a missing key or a crash
  is returned to every later request that is not forced. A `finalize` whose wait timed out is recorded as finalized (625).
- *Validation.* "Every approved source at or after that position is read" and "naming a later position is how a plan
  deliberately skips a source" (`validation/engine.ts:207-217`), but retrieval stops at the first usable source
  (`retriever.ts:264-267`): no two sources are ever compared, and a check about a later one has nothing to read
  whenever an earlier one answers.
- *Reconciler.* "Walked from the factory's own registry" (`reconcile.ts:67-69`), but it iterates over the rows of the
  database (98-101); a market unknown to it appears only if the indexer cached it. "It never writes" (13), but
  `loadOrCreate` (351) creates the factory's checkpoint at block 0 when there is none, and an indexer started later
  begins there and not at its configured block. "no findings — the indexed view matches the chain." (392) is printed
  although three kinds of column that the API shows may differ. Whether a bond is still outstanding (`server.ts:1034`) is
  not compared, so a row from before a bond was claimed is healthy. Neither are `challengeEndsAt`, `challengedAt` and the
  bond's amount, so a row read at the head on a branch that was then dropped is healthy when the same proposal was mined
  again at another instant. `markets.status` (`server.ts:989`) is not read beyond telling whether it is PENDING_ONCHAIN:
  it stays behind when the indexer stops between the row (`indexer.ts:471`) and the status (503), or when the market is
  registered after both. A row that names a dropped address while it is PENDING_ONCHAIN and the factory has no market
  is healthy as well.
- *Resolution engine.* The engine can make a package that its own schema refuses: a selected value of any length becomes a claim's value and statement (`claims.ts:145-153`), and
  up to 32 accepted values of up to 500 characters are joined into what a check expected (`validators.ts:413`), against
  limits of 500 and 1000 characters in `evidence-package-v2.ts`. Such a resolution goes to review after the model was
  paid; a plan of the second kind is accepted when it is stored, and no proposal can ever come of it.
- *Market page.* `previewClaim` is zero in a refund, so `/api/positions` shows nothing claimable to somebody who is
  owed a refund. There is no button for `cancel` or `close`. The approval of a token transfer is offered only in the stake
  panel, which is gone when a challenge is possible. A receipt that is not mined in time counts as none, after which
  the text of the challenge is refused and the form is hidden.
- *Repositories.* `compilations.save` overwrites in memory and keeps the first in PostgreSQL; pages are found by offset in
  memory and by key in PostgreSQL; the latest resolution, a conflicting challenge and a limit of fifty are
  treated differently; memory has no references, no uniqueness beyond its keys and no lower-casing. `guard()` repeats inserts
  without a key (a second row), counts a rewind twice, and answers an error or null to a nonce or session it did store or
  consume. The models state each of these at the method; the run compares what remains. Expired nonces are never
  pruned, since nothing calls `deleteExpired`.

## The proofs

The proofs take the constants' assumptions and nothing else: any finite set of accounts, any resolvers and hashes, any
parameters `initialize` accepts, any fees, any number of tokens, wallets, requests, attempts, transactions and sources,
any windows and limits. The assumptions (`MarketAssumption`, `AuthAssumption`, `RegistrationAssumption`,
`IndexerAssumption`, `ServiceAssumption`, `LimitsAssumption`, `SourcesAssumption`, `TextsAssumption`,
`ListsAssumption`, `ReconcilerAssumption`, `StoresAssumption`) say that numbers are natural, that limits the
configuration requires to be positive are, that lists are lists, that a token need not keep a fee, that a text which
reads as a decimal has a scale, a sign and at most 64 digits, that texts have lengths and the spellings of a boolean
are short, that the service's key is the market's resolver, and that the
registry gives each hash an id and an address of its own. Three theorems about the indexer have a further hypothesis,
named below.

**`FiniteSums_proofs`** — facts the others share. The library's induction takes an operator as a parameter, which no
prover here instantiates; stated with a set it needs none: a set of subsets of a finite `S` that holds the empty one
and every extension of a member by an element holds `S` (`SetInduction`), and the same over the naturals
(`NatSetInduction`). From it, for the community modules' `SumFunction`: a sum changes by what changes at one argument
(`SumChangedAt`), sums add up, are monotone and scale; a finite set of integers has a least and a greatest element.

**`ConditionalMarket_proofs`.** `TypeCorrect` and `LifecycleSafe` prove `[](TypeOK /\ LifecycleInv)`; the two are
inductive only together. `TypeOK` needs the lifecycle because `finalize` copies the proposed outcome, which is an
outcome to pay by only while a proposal stands, and `Payout` divides by a total that is positive only outside refund
mode. That the computed deadlines are timestamps is part of it: `initialize` accepts only parameters whose first deadline
is, and the two that are later computed from the clock revert otherwise. `LifecycleInv` is the conjunction of six named parts, state by state: before a proposal there is none; while one
stands it has a round and evidence; a challenge belongs to round one and a replacement to a challenge; result, bond
and settlement fields agree with the state. One lemma per action preserves them. `ResolutionFinal` and
`EntitlementsAreFixed` then prove the two action properties: each step from a resolved state is a withdrawal or leaves
the market alone, and a withdrawal moves from `Due` to `wallet` exactly what it removes. `FinalAfterItsWindow`
strengthens by `ProposalWasDue` (a proposal was made after the deadline, a challenge inside the window of the proposal it
contests, a replacement after the challenge),
`BondIsDecided` by `BondWasTaken` and `BondForfeitedIfConfirmed`, and `RefundsAreWhole` by `NothingPaidOut`: until a
resolution every account's wallet and stakes, and the bond for the challenger, add up to what it came with.

*The money.* `MarketFullyBacked`: before a resolution the market holds the stakes and the
bond; in refund mode what it still owes; for winners at least the share of the pool that their unclaimed stake
stands for. The last is what makes flooring harmless: a claim takes `stake * pool \div total`, at most its share, so
the inequality `remaining * pool <= (held - bond) * total` survives it (`FloorDivision`, `Distribute`). The market
itself never sums over its accounts; three invariants tie its counters to the sums. `TotalsAreSums`: each side's total
is the sum of its stakes. `ClaimsAreCounted`: only winners have claimed, and what is claimable is the sum of
the winning stakes not withdrawn. `RoundingIsCounted`: what is held beyond the winners' shares is at most
`total - 1` for each that has claimed, the most that one division can leave. `ClaimableIsExact` (the checked
subtraction of `claim` never reverts), `MarketSolvent`, `SettlementIsExact` and `DustIsBounded` follow in this order.

`MarketIsEscrow` is the refinement, `Spec => ImplementsEscrow`: a stake and a posted bond are deposits (a fee leaves
both sides by the same amount), whatever resolves the market is `Decide`, which is where solvency is needed,
withdrawals are `Withdraw`, and the rest leaves the escrow as it is.

**`Registration_proofs`.** `RegistryIsConsistent`: an unused hash gets a new id, its place in the sequence; ids of
others are smaller. `OneSessionPerNonce` strengthens by `SpentOnce`: whatever an attempt holds between its two
awaits, and whatever a session was bought with, is a spent nonce, and no two of them share one; with consuming and
verifying reversed its first conjunct is lost. `RegistrationUsesComponents`: the routes beside chain and indexer are
a behaviour of both, so the two hold there. The routes' own invariant is `RegistrationInv`; its core is
`RequestsAreGrounded`: what a handler checked or wrote before an await (whose session it is, who created the
conversation, that the row exists) still holds when it goes on, whatever other requests did in between. From it
`OwnersHold`, `PromisesHold` and `JoinHolds`; the last also needs that the indexer applies creations in order and that the
registry only grows.

**`Indexer_proofs`.** Both arguments share `Shape` (types; a pass knows what it is doing) and differ in what they
assume. `NoEventSkipped`, `NoEventRetracted` and `RowsAreCovered` are proved under `ConfirmationsSuffice`:
reorganisations stay above the confirmed blocks and lookups do not fail. This is what `IndexerRestarts` checks them
under; without it `NothingSkipped` is false (run `IndexerCrashInRewind`). `ConfirmedInv` then says that nothing
recorded ever disagrees with the chain, so that no pass rewinds, and that at every await the batch is the logs of its
range, is stored before the checkpoint moves, and has refreshed every row it names. Passes may be abandoned anywhere.
`PassesRepair` has no hypothesis, since the property itself excludes a pass that met one of three faults (`blind`: a
crash, a failed lookup, a reorganisation of confirmed blocks during a pass). `Trustworthy` says that a recorded hash
which is still the chain's vouches for all events below it (`HashesVouch`), that the newest recorded block is the
checkpoint's (`CheckpointRecorded`), and what is stored at each step of a rewind (`StoredIsChains`).

**`ResolutionService_proofs`.** `ServiceUsesMarket` proves that a behaviour of the service is one of the market it
works on (`ServiceSpec => Spec`), so that every theorem above holds there. `ServiceInv` is inductive: no two requests
work on one row (`RowsAreOwned`); the package of whatever is about to be sent, was sent or was accepted is stored
(`PackagesAreStored`), which is where the order "store, then send" enters; a request waits for the transaction of its
own row (`CallsSentTheirRow`); a proposal that succeeded is one the contract accepted (`AcceptedIsRecorded`); and a
row's word about its transaction is the transaction's fate, which is final (`RowsAreTrue`). `EvidenceIsPublished` and
`SubmissionsAreTruthful` follow, for any number of concurrent requests.

**`ResolutionEngine_proofs`.** `NeverFlips`: a lemma on `DecideOutcome` (whatever the model says, it settles what the
checks establish or an approved edge case that refunds) carried through the gates to the result. `WalkIsBounded` and
`FallbackIsJustified` rest on `WalkInv`: with a call in flight the adapter's own timer is due by its deadline and the
retriever's backstop after it, because the grace is at least two ticks; an attempt begins inside the budget or after
a back-off of one that did, and so many back-offs fit in `Overrun`; and whatever the walk has stepped past either
failed on record or was skipped for want of budget or need (`FailedBefore`).

`EngineInv` adds `RecordsKept` (a record is of the past, and that of a source that was read holds an answer's body and
what its selector makes of it) and `Stages` (the plan was accepted; a model is asked once the walk is over). One
consequence carries what follows: at most one source is used (`OneIsUsed`), so what the checks observe, what claims
cite and what two readings could disagree about is all of the same record. `PaidAsIsObserved` then has three parts:
the verdict looks at the checks of the plan and no others (`VerdictIsOfThePlan`); a check passes exactly if the
criterion holds of the text (`CheckHolds`); and lifting two decimals to one scale compares them as
cross-multiplication does (`CompareDecimalIsExact`), by the laws of powers of ten, which come from the recursive
function by showing that it is the one table that satisfies its equation (`PowersExist`, `PowersAgree`).
`ProposalsAreGrounded` follows each kind of claim through the lists it is put in: the engine's own claims by
construction, the model's because of the violations that were not found. `RefusalsAreExplained` takes the conditions
of the schema one by one. Records are dated before the resolution is, derived checks cite what was tried, a check is
undecided exactly when it observed nothing, and ids of derived checks are distinct, so none of these refuses a package.
As for lengths, decimals and booleans are short, instants are recorded in their normal form (`RecordedIsText`), the
sentences of the numeric and temporal checks and of the derived ones stay below the limit, and the model's claims fit by
the schema of its output; what is left are categorical checks and claims that report a selected value.

**`Reconciler_proofs`.** `HealthyReportsAreTruthful` and `NoAlarmIsFalse` rest on `ReconcilerAlways`, whose invariant
has four parts. `ChainInv`: the market is sound at the head, and so is the one a dropped branch would give back
(`TrunkInv`, the market's own invariants over `Trunk`, an instance of `ConditionalMarket` at the remembered
state); a market that was not opened is untouched (`Pristine`). `CachedInv`: a cached row may be of any earlier moment or
of a branch, but not of any imaginable one. Read at the head, it shows a market that was sound (`Coherent`), and unless
its branch was dropped, it is in the past of the present one: its round is no later, a cancellation in it stands, it has seen
at most the one challenge there is (`IsPast`, kept by every market step: `PastStaysPast`). `TablesInv`: what the
row says of the status. `RunInv`: a run that nothing disturbed reports a function of tables and contract
(`Report`), and at each await what it has found so far is a part of it (`Progress`). This is why agreement in the
fields that are compared settles others that are not (`ComparedSettles`), and the reverse why a row of now raises no alarm.
The money check reads the claimable stake as owed in full; that it never exceeds a sound market's balance
(`BalanceSuffices`) is `FullyBacked`, with `NothingClaimableYet` before the resolution.

**`Stores_proofs`.** `WalkSeesAll`: the cursor splits the list (`SeenDownTo`). What the client has seen is not older than
the cursor, and of the markets it is owed every one that is not older has been seen; a page is the first rows of an
enumeration of the rest, newest first (`PagesAreCut`). Whatever happens between two pages is `Onward`: no market is lost
or dated anew, and a new one is dated now, so it is not older than the cursor. That a repeated statement is `Onward`
too rests on each write of a market giving the same tables and answer when it is run again (`Settles`).

`StoresStayInAgreement` proves `StoresAgree` for any batches of events, blocks, addresses and page sizes and any number
of faults. `AgreeIInv`: each table in memory is a sequence that enumerates the rows PostgreSQL has (`Enumerates`), and
both are sound table by table (`Sound`): generated ids lie below the next one, rows stand in the order of their dates,
an upsert has left one row with its key, no two events share an identity, and the latest round comes last. That is what makes
"the first row found", "the last inserted" or "a stable sort by date" in memory one of the rows that `LIMIT 1` or `ORDER BY`
may return (`FoundIsTheRow`, `LastIsLatest`, `StablySorted`). There is one lemma per method: a read answers what PostgreSQL
may answer; a write leaves sound tables and, unless its call says otherwise, the same ones when it is run again. Insertions,
updates, deletions and upserts share what they leave (`InsertWrites`, `UpdateWrites`, `DropWrites`, `RowPut`); the one that differs
in kind is `events.append`, a loop in memory and one statement in PostgreSQL (`OneByOneStores`). Pages need one part more: a cursor
and an offset stand at one place of the list (`InStep`), as long as nothing was registered since and no two markets share an
instant, the two conditions under which the run compares pages; that a cursor is a date of the past comes from
`WalkIInv`. The limit of fifty on the list of resolutions is the one number in `StoresAssumption` that bounds a behaviour
(`MaxCalls["resolutions"]`): beyond it memory, which has no limit, answers more.

## Only model-checked

Every invariant the passing runs check is also a theorem, but for one:

- Liveness (`MarketResolves`, `DueIsPaid`, `FinalizedSettles`, `CatchesUp`, `Concludes`) and
  `PageAgreesWithContract`, which speaks of `ENABLED`: both out of the prover's reach.

## Not modelled

- *Configuration, start-up and tools* (`config.ts`, `composition.ts`, `index.ts`, `tools/`), *deployment scripts and test
  tokens*: they read settings, wire the parts together once or are run by hand; nothing in them outlives a call
  or meets another actor.
- *The compiler's prompt, its parsing and assembly of a specification; the engine's prompt; the request to the model*:
  text. What a model may answer is an input of `ResolutionEngine` and `Registration`.
- *Canonical form, hashing, ABI and JSON encoding, SQL text*: pure data, out of a model checker's reach. A hash is a value
  that equals itself only. Parsing a decimal or an instant is the sort of the text.
- *The fake adapter, the fake provider and the `failing()` repositories*: doubles of the tests.
- *Rendering of pages, the create form, the list, the browser's session, the report's layout.*
- *Two warnings of the reconciler* (a proposal without a local record, a lagging indexer), and the checkpoint it may create;
  a run on a branch that is dropped afterwards, which is a run on a chain.
- *Reorganisations under the resolution service*: a mined transaction stays mined there. *Gas, fees and nonces of
  transactions*, and the replacement of one by another.

## Plan

1. *Reorganisations under the service*: a receipt taken back after its row was marked confirmed.
2. *The reconciler's remaining warnings*: `proposal-without-local-record` looks only at the latest row of a market, so a
   later refusal should raise a false alarm and a dry run hide a foreign proposal.
3. *Addresses in the indexer*: a creation mined again at another address, against the unique indexes of its tables.

## Running

`tlc -config <run>.cfg <module>` with the module `PROJECT.json` names for the run; `tlapm <module>_proofs.tla`. The
longest runs, `Reconciler` and `Registration`, take about two minutes each on two workers; the longest proof,
`Stores_proofs`, about a quarter of an hour.
