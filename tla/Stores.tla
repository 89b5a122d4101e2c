------------------------------- MODULE Stores -------------------------------
(***************************************************************************)
(* The two implementations of the repositories side by side.  Production   *)
(* runs on PostgreSQL (DrizzleStore), behind guard(): a statement that     *)
(* fails with a connection error is run again, whether or not the database *)
(* had committed it.  The test suite runs on the in-memory implementation  *)
(* (MemoryStore), which never fails and never repeats.  Every call is made *)
(* on both, with the inputs the backend's callers give.                    *)
(*                                                                         *)
(* One group of tables, the subject, is exercised in a behaviour: no       *)
(* method reads the tables of another, the references to a registered      *)
(* market apart.                                                           *)
(***************************************************************************)
EXTENDS Integers, Sequences, FiniteSets

CONSTANTS Null, Failed, Lower,
          Subjects,        \* the groups of tables
          Wallets, Hashes, Addresses, Nonces, EventBatches, BlockNumbers,
          MarketIdOf,      \* the market id and the address the registry gave to a hash
          AddressOf,
          PageSize,
          MaxCalls,        \* bound: the calls of a behaviour, for each subject
          MaxFaults,       \* bound: calls that meet a connection failure
          MaxTime          \* bound: the clock

\* What the registry gives out: a market id and an address of its own for each
\* hash, the address in any of its spellings.  A behaviour records no more
\* resolutions than the fifty PostgreSQL lists.
StoresAssumption ==
  /\ Null \notin Nat
  /\ PageSize \in Nat \ {0}
  /\ \A s \in Subjects : MaxCalls[s] \in Nat
  /\ "resolutions" \in Subjects => MaxCalls["resolutions"] <= 50
  /\ \A h, g \in Hashes : MarketIdOf[h] # Null /\ (MarketIdOf[h] = MarketIdOf[g] => h = g)
  /\ \A h, g \in Hashes : \A a \in AddressOf[h], b \in AddressOf[g] :
       Lower[a] # Null /\ (Lower[a] = Lower[b] <=> h = g)
  /\ BlockNumbers \subseteq Nat
  /\ \A batch \in EventBatches :
       /\ DOMAIN batch = 1..Len(batch) /\ Len(batch) \in Nat
       /\ \A i \in DOMAIN batch : batch[i].blockNumber \in Nat /\ batch[i].logIndex \in Nat
ASSUME StoresAssumption

D == INSTANCE DrizzleStore
M == INSTANCE MemoryStore

VARIABLES subject, db, mem, now, calls, faults,
          comparable,      \* no call has made the tables of the two differ
          last,            \* the last call: the answers PostgreSQL may give and the one memory gave
          walk             \* a client reading the list of markets page by page

vars == <<subject, db, mem, now, calls, faults, comparable, last, walk>>

NoAnswer == [may |-> {Null}, is |-> Null, compared |-> FALSE]
NoWalk == [phase |-> "none", cursor |-> Null, offset |-> Null, seen |-> <<>>, owed |-> {}, openedAt |-> 0]
\* What a resolution, a document or a challenge refers to was registered before.
Seed == [rulesHash |-> "registered", creator |-> "creator", chainMarketId |-> Null, contractAddress |-> Null,
         validationPlan |-> Null, status |-> "OPEN", createdAt |-> 0, updatedAt |-> 0]

Init ==
  /\ subject \in Subjects
  /\ IF subject \in {"resolutions", "documents"}
     THEN db = [D!Empty EXCEPT !.markets = {Seed}] /\ mem = [M!Empty EXCEPT !.markets = <<Seed>>]
     ELSE db = D!Empty /\ mem = M!Empty
  /\ now = 1 /\ calls = 0 /\ faults = 0
  /\ comparable = TRUE /\ last = NoAnswer /\ walk = NoWalk

----------------------------------------------------------------------------
(* guard() *)

\* Methods differ in what running their statement once more does: the "same";
\* nothing more to the tables, but the answer is an "otherAnswer"; or it has
\* an "otherEffect", such as a second row.

\* guard() runs a statement again after a connection failure, once for each delay
\* in RETRY_DELAYS_MS, and cannot know whether it had been committed: how often it
\* may have been before an attempt is answered, and when none is.
Retries == 3
LostBeforeAnswer == 1..Retries
LostAltogether == 0..(Retries + 1)

\* What the statement gives each time it is committed.
Runs(Run(_)) ==
  LET first == Run(db)
      second == Run(first.db)
      third == Run(second.db)
  IN  <<first, second, third, Run(third.db)>>

\* The statement had been committed `lost' times, each without an answer, when
\* an attempt was answered.
Answered(repeat, runs, reference, lost) ==
  LET final == runs[lost + 1]
      same == lost = 0 \/ repeat = "same"
  IN  /\ db' = final.db
      /\ mem' = reference.db
      /\ comparable' = (comparable /\ (lost = 0 \/ repeat # "otherEffect"))
      /\ last' = [may |-> final.answers, is |-> reference.answer, compared |-> same /\ comparable']

\* Every attempt failed, `lost' of them after the commit: a RepositoryError.
Unanswered(repeat, runs, reference, lost) ==
  /\ db' = IF lost = 0 THEN db ELSE runs[lost].db
  /\ mem' = IF lost = 0 THEN mem ELSE reference.db
  /\ comparable' = (comparable /\ (lost < 2 \/ repeat # "otherEffect"))
  /\ last' = NoAnswer

Attempts(repeat, runs, reference) ==
  /\ calls < MaxCalls[subject] /\ comparable
  /\ calls' = calls + 1
  /\ UNCHANGED <<subject, now, walk>>
  /\ \/ Answered(repeat, runs, reference, 0) /\ UNCHANGED faults
     \/ /\ faults < MaxFaults /\ faults' = faults + 1
        /\ \/ \E lost \in LostBeforeAnswer : Answered(repeat, runs, reference, lost)
           \/ \E lost \in LostAltogether : Unanswered(repeat, runs, reference, lost)

Guard(repeat, Run(_), reference) == Attempts(repeat, Runs(Run), reference)

\* A read: however often it is repeated, it reads the same tables and leaves them.
Read(given, reference) == Guard("same", LAMBDA t : given, reference)

----------------------------------------------------------------------------
(* The calls of the compiler *)

Sessions == {s.id : s \in db.sessions}
TouchWallet == \E w \in Wallets :
  Guard("same", LAMBDA t : D!WalletsTouch(t, w, now), M!WalletsTouch(mem, w, now))
CreateSession == \E w \in Wallets :
  Guard("otherEffect", LAMBDA t : D!SessionsCreate(t, w, now), M!SessionsCreate(mem, w, now))
FindSession == \E id \in Sessions \cup {0} :
  Read(D!SessionsFindById(db, id), M!SessionsFindById(mem, id))
ListTurns == \E id \in Sessions :
  Read(D!SessionsListTurns(db, id), M!SessionsListTurns(mem, id))
AppendTurn == \E id \in Sessions \cup {0}, role \in {"user", "assistant"} :
  Guard("otherEffect", LAMBDA t : D!SessionsAppendTurn(t, id, role, now), M!SessionsAppendTurn(mem, id, role, now))
MarkCompiled == \E id \in Sessions :
  Guard("same", LAMBDA t : D!SessionsMarkCompiled(t, id, now), M!SessionsMarkCompiled(mem, id, now))
\* Of two compilations with one hash PostgreSQL keeps the first and memory the
\* second: only the first is compared.
SaveCompilation == \E h \in Hashes, id \in Sessions :
  /\ \A c \in db.compilations : c.rulesHash # h
  /\ Guard("same", LAMBDA t : D!CompilationsSave(t, h, id, now), M!CompilationsSave(mem, h, id, now))
FindCompilation == \E h \in Hashes :
  Read(D!CompilationsFind(db, h), M!CompilationsFind(mem, h))

CompilerCalls == subject = "compiler" /\
  ( \/ TouchWallet \/ CreateSession \/ FindSession \/ ListTurns \/ AppendTurn \/ MarkCompiled
    \/ SaveCompilation \/ FindCompilation )

----------------------------------------------------------------------------
(* The calls on markets *)

RegisterMarket == \E h \in Hashes, w \in Wallets :
  Guard("same", LAMBDA t : D!MarketsRegister(t, h, w, now), M!MarketsRegister(mem, h, w, now))
FindMarket == \E h \in Hashes :
  \/ Read(D!MarketsFindByRulesHash(db, h), M!MarketsFindByRulesHash(mem, h))
  \/ Read(D!MarketsFindByChainMarketId(db, MarketIdOf[h]), M!MarketsFindByChainMarketId(mem, MarketIdOf[h]))
\* The route has read the identity from the registry.
AttachMarket == \E h \in Hashes : \E a \in AddressOf[h] :
  Guard("same", LAMBDA t : D!MarketsAttach(t, h, MarketIdOf[h], a, now), M!MarketsAttach(mem, h, MarketIdOf[h], a, now))
UpdateStatus == \E h \in Hashes, s \in {"OPEN", "CLOSED"} :
  Guard("same", LAMBDA t : D!MarketsUpdateStatus(t, h, s, now), M!MarketsUpdateStatus(mem, h, s, now))
SetPlan == \E h \in Hashes :
  Guard("same", LAMBDA t : D!MarketsSetValidationPlan(t, h, "plan", now), M!MarketsSetValidationPlan(mem, h, "plan", now))
ListAddresses ==
  Read(D!MarketsListOnChainAddresses(db), M!MarketsListOnChainAddresses(mem))

\* GET /api/markets: the first page, of all markets or of those of a status.
\* Cursors are opaque to the client; only their presence is compared.
Shown(page) == [markets |-> page.markets, more |-> page.nextCursor # Null]
ListFirstPage == \E s \in {Null, "OPEN"} :
  Read([db |-> db, answers |-> {Shown(p) : p \in D!MarketsList(db, s, Null, PageSize).answers}],
       [db |-> mem, answer |-> Shown(M!MarketsList(mem, s, Null, PageSize).answer)])

DistinctInstants == \A m, n \in db.markets : m.createdAt = n.createdAt => m = n
RulesHashes(markets) == [i \in DOMAIN markets |-> markets[i].rulesHash]
OpenWalk ==
  /\ walk.phase = "none" /\ calls < MaxCalls[subject]
  /\ walk' = [NoWalk EXCEPT !.phase = "open", !.owed = {m.rulesHash : m \in db.markets}, !.openedAt = calls]
  /\ UNCHANGED <<subject, db, mem, now, calls, faults, comparable, last>>
\* No call came between the pages.
Quiet == calls = walk.openedAt
\* The next page.  Memory's cursor is an offset, which a registration between
\* two pages shifts, and two markets created in one millisecond share a keyset
\* cursor: the pages are compared when neither happened.
NextPage ==
  /\ walk.phase = "open" /\ comparable
  /\ \E page \in D!MarketsList(db, Null, walk.cursor, PageSize).answers :
       LET other == M!MarketsList(mem, Null, walk.offset, PageSize).answer
       IN  /\ last' = [may |-> {Shown(page)}, is |-> Shown(other), compared |-> Quiet /\ DistinctInstants]
           /\ walk' = [walk EXCEPT !.cursor = page.nextCursor, !.offset = other.nextCursor,
                                   !.seen = @ \o RulesHashes(page.markets),
                                   !.phase = IF page.nextCursor = Null THEN "over" ELSE "open"]
  /\ UNCHANGED <<subject, db, mem, now, calls, faults, comparable>>

MarketCalls == subject = "markets" /\
  ( \/ RegisterMarket \/ FindMarket \/ AttachMarket \/ UpdateStatus \/ SetPlan \/ ListAddresses
    \/ ListFirstPage \/ OpenWalk \/ NextPage )

----------------------------------------------------------------------------
(* The calls of the resolution service *)

h0 == Seed.rulesHash
Rounds == {r.round : r \in db.resolutions}
Recorded == {r.id : r \in db.resolutions}
\* The round is read from the market just before, and never falls.
RecordResolution == \E s \in {"PROPOSED", "NEEDS_REVIEW"}, round \in 1..2 :
  /\ \A r \in Rounds : r <= round
  /\ Guard("otherEffect", LAMBDA t : D!ResolutionsRecord(t, h0, s, round, now), M!ResolutionsRecord(mem, h0, s, round, now))
MarkSubmission == \E id \in Recorded, s \in {<<"SUBMITTED", "tx", Null>>, <<"CONFIRMED", Null, now>>} :
  Guard("same", LAMBDA t : D!ResolutionsMarkSubmission(t, id, s[1], s[2], s[3]),
                M!ResolutionsMarkSubmission(mem, id, s[1], s[2], s[3]))
MarkFinalized ==
  Guard("otherAnswer", LAMBDA t : D!ResolutionsMarkFinalized(t, h0, now), M!ResolutionsMarkFinalized(mem, h0, now))
ReadResolutions ==
  \/ Read(D!ResolutionsFindLatest(db, h0), M!ResolutionsFindLatest(mem, h0))
  \/ Read(D!ResolutionsList(db, h0), M!ResolutionsList(mem, h0))
  \/ \E round \in 1..2 : Read(D!ResolutionsFindProposedByRound(db, h0, round),
                              M!ResolutionsFindProposedByRound(mem, h0, round))
ResolutionCalls == subject = "resolutions" /\
  (RecordResolution \/ MarkSubmission \/ MarkFinalized \/ ReadResolutions)

SaveEvidence == \E e \in {"e1", "e2"} :
  Guard("same", LAMBDA t : D!EvidenceSave(t, h0, e, now), M!EvidenceSave(mem, h0, e, now))
ReadEvidence ==
  \/ Read(D!EvidenceFindByRulesHash(db, h0), M!EvidenceFindByRulesHash(mem, h0))
  \/ \E e \in {"e1", "e2"} : Read(D!EvidenceFindByHash(db, e), M!EvidenceFindByHash(mem, e))
\* The contract accepts a challenge in the first round only.
SaveChallenge == \E reason \in {"r1", "r2"} :
  Guard("same", LAMBDA t : D!ChallengesSave(t, h0, reason, 1, now), M!ChallengesSave(mem, h0, reason, 1, now))
FindChallenge == Read(D!ChallengesFind(db, h0), M!ChallengesFind(mem, h0))
DocumentCalls == subject = "documents" /\ (SaveEvidence \/ ReadEvidence \/ SaveChallenge \/ FindChallenge)

----------------------------------------------------------------------------
(* The calls of the indexer and of the reconciler *)

AppendEvents == \E batch \in EventBatches :
  Guard("otherAnswer", LAMBDA t : D!EventsAppend(t, batch, now), M!EventsAppend(mem, batch, now))
DeleteEvents == \E n \in BlockNumbers :
  Guard("otherAnswer", LAMBDA t : D!EventsDeleteFromBlock(t, n), M!EventsDeleteFromBlock(mem, n))
ReadEvents ==
  \/ Read(D!EventsListByMarket(db, 1), M!EventsListByMarket(mem, 1))
  \/ \E h \in Hashes : Read(D!EventsListByRulesHash(db, h), M!EventsListByRulesHash(mem, h))
  \/ Read(D!EventsCount(db), M!EventsCount(mem))
  \/ Read(D!EventsFindDuplicates(db), M!EventsFindDuplicates(mem))
EventCalls == subject = "events" /\ (AppendEvents \/ DeleteEvents \/ ReadEvents)

LoadCheckpoint == \E start \in {0, 1} :
  Guard("same", LAMBDA t : D!CheckpointsLoadOrCreate(t, start, now), M!CheckpointsLoadOrCreate(mem, start, now))
SaveCheckpoint == \E n \in BlockNumbers, hash \in {Null, "a"} :
  Guard("same", LAMBDA t : D!CheckpointsSave(t, n, hash, now), M!CheckpointsSave(mem, n, hash, now))
Rewind == \E n \in BlockNumbers :
  Guard("otherEffect", LAMBDA t : D!CheckpointsRewind(t, n, now), M!CheckpointsRewind(mem, n, now))
RecordBlock == \E n \in BlockNumbers, hash \in {"a", "b"} :
  Guard("same", LAMBDA t : D!BlocksRecord(t, n, hash), M!BlocksRecord(mem, n, hash))
RecentBlocks == \E n \in BlockNumbers :
  Read(D!BlocksRecent(db, n), M!BlocksRecent(mem, n))
DeleteBlocks == \E n \in BlockNumbers :
  \/ Guard("otherAnswer", LAMBDA t : D!BlocksDeleteFrom(t, n), M!BlocksDeleteFrom(mem, n))
  \/ Guard("otherAnswer", LAMBDA t : D!BlocksPruneBelow(t, n), M!BlocksPruneBelow(mem, n))
CheckpointCalls == subject = "checkpoints" /\
  (LoadCheckpoint \/ SaveCheckpoint \/ Rewind \/ RecordBlock \/ RecentBlocks \/ DeleteBlocks)

UpsertChainState == \E h \in Hashes, s \in {"Open", "Closed"} : \E a \in AddressOf[h] :
  Guard("same", LAMBDA t : D!ChainStateUpsert(t, a, MarketIdOf[h], h, s, now),
                M!ChainStateUpsert(mem, a, MarketIdOf[h], h, s, now))
DeleteChainState == \E a \in Addresses :
  Guard("same", LAMBDA t : D!ChainStateDelete(t, a), M!ChainStateDelete(mem, a))
ReadChainState ==
  \/ \E a \in Addresses : Read(D!ChainStateFindByAddress(db, a), M!ChainStateFindByAddress(mem, a))
  \/ \E h \in Hashes : Read(D!ChainStateFindByRulesHash(db, h), M!ChainStateFindByRulesHash(mem, h))
  \/ Read(D!ChainStateList(db), M!ChainStateList(mem))
ChainStateCalls == subject = "chainState" /\ (UpsertChainState \/ DeleteChainState \/ ReadChainState)

----------------------------------------------------------------------------
(* The calls of authentication *)

\* Nonces and session tokens are random and never drawn twice.
IssueNonce == \E n \in Nonces, w \in Wallets :
  /\ \A r \in db.nonces : r.nonce # n
  /\ Guard("otherAnswer", LAMBDA t : D!NoncesIssue(t, n, w, now, now + 1), M!NoncesIssue(mem, n, w, now, now + 1))
ConsumeNonce == \E n \in Nonces :
  Guard("otherAnswer", LAMBDA t : D!NoncesConsume(t, n, now), M!NoncesConsume(mem, n, now))
PruneNonces ==
  Guard("otherAnswer", LAMBDA t : D!NoncesDeleteExpired(t, now), M!NoncesDeleteExpired(mem, now))
CreateAuthSession == \E n \in Nonces, w \in Wallets :
  /\ \A s \in db.authSessions : s.tokenHash # n
  /\ Guard("otherAnswer", LAMBDA t : D!AuthSessionsCreate(t, n, w, now, now + 1), M!AuthSessionsCreate(mem, n, w, now, now + 1))
FindAuthSession == \E n \in Nonces :
  Read(D!AuthSessionsFindByTokenHash(db, n), M!AuthSessionsFindByTokenHash(mem, n))
RevokeAuthSession == \E id \in {s.id : s \in db.authSessions} :
  Guard("same", LAMBDA t : D!AuthSessionsRevoke(t, id, now), M!AuthSessionsRevoke(mem, id, now))
AuthCalls == subject = "auth" /\
  (IssueNonce \/ ConsumeNonce \/ PruneNonces \/ CreateAuthSession \/ FindAuthSession \/ RevokeAuthSession)

----------------------------------------------------------------------------

Tick ==
  /\ now < MaxTime /\ now' = now + 1
  /\ UNCHANGED <<subject, db, mem, calls, faults, comparable, last, walk>>

Next ==
  \/ CompilerCalls \/ MarketCalls \/ ResolutionCalls \/ DocumentCalls \/ EventCalls
  \/ CheckpointCalls \/ ChainStateCalls \/ AuthCalls \/ Tick

Spec == Init /\ [][Next]_vars

\* The interface the test suite is written against (test/repositories.test.ts):
\* what the in-memory repositories answer, PostgreSQL may answer too, and the
\* tables hold the same rows; a statement that guard() repeated changes this
\* only for the methods that say so.
StoresAgree ==
  /\ last.compared => last.is \in last.may
  /\ comparable => \A t \in DOMAIN mem \ {"nextId"} :
       /\ Cardinality(db[t]) = Len(mem[t])
       /\ \A i \in DOMAIN mem[t] : mem[t][i] \in db[t]

\* Keyset pagination, "so a page boundary stays stable while rows are being
\* inserted": a client that follows the cursors to the end has been shown every
\* market there was when it began, once, whatever is registered meanwhile; of
\* markets created at distinct instants.
WalkSeesEveryMarket ==
  DistinctInstants =>
    /\ walk.phase = "over" => \A h \in walk.owed : \E i \in DOMAIN walk.seen : walk.seen[i] = h
    /\ \A i, j \in DOMAIN walk.seen : walk.seen[i] = walk.seen[j] => i = j
=============================================================================
