---------------------------- MODULE DrizzleStore ----------------------------
(***************************************************************************)
(* The PostgreSQL repositories (repositories/drizzle.ts over               *)
(* db/schema.ts): one operator per method, from the tables before the call *)
(* to [db, answers], the tables after it and the set of answers the        *)
(* statement may give.  A table is a SET of rows: PostgreSQL keeps no      *)
(* insertion order, so an ORDER BY whose column ties, and a SELECT without *)
(* one, may answer in any of several orders.  A violated key or reference  *)
(* answers Failed and changes nothing.                                     *)
(*                                                                         *)
(* One chain is configured, so chainId is left out of every key.  Hashes   *)
(* and wallets arrive in lower case from the request schemas; contract     *)
(* addresses arrive as the chain client spells them.  Columns that are     *)
(* carried through unread are left out.                                    *)
(***************************************************************************)
EXTENDS Integers, Sequences, FiniteSets, SequencesExt, FiniteSetsExt

CONSTANTS Null,      \* no row, or an empty column
          Failed,    \* a RepositoryError
          Lower      \* how an address is spelled in lower case

Empty == [wallets |-> {}, sessions |-> {}, turns |-> {}, compilations |-> {}, markets |-> {},
          resolutions |-> {}, evidence |-> {}, challenges |-> {}, events |-> {}, checkpoints |-> {},
          blocks |-> {}, chainState |-> {}, nonces |-> {}, authSessions |-> {}, nextId |-> 1]

Gives(db, answer) == [db |-> db, answers |-> {answer}]
MayGive(db, answers) == [db |-> db, answers |-> answers]
\* SELECT ... WHERE key LIMIT 1 on a unique column.
TheRow(rows) == IF rows = {} THEN {Null} ELSE rows
\* ORDER BY ... LIMIT 1, and the listing in full.
FirstBy(rows, Before(_, _)) ==
  IF rows = {} THEN {Null} ELSE {r \in rows : \A q \in rows : ~Before(q, r)}
OrderedBy(rows, Before(_, _)) ==
  {s \in SetToSeqs(rows) : \A i, j \in DOMAIN s : i < j => ~Before(s[j], s[i])}
InAnyOrder(rows) == SetToSeqs(rows)
Newest(a, b) == a.createdAt > b.createdAt
Oldest(a, b) == a.createdAt < b.createdAt
\* INSERT ... RETURNING of a row, with or without a surrogate id.
Insert(db, table, row) == Gives([db EXCEPT ![table] = @ \cup {row}], row)
InsertWithId(db, table, row) ==
  Gives([db EXCEPT ![table] = @ \cup {row}, !.nextId = @ + 1], row)
\* UPDATE ... SET ... WHERE ... RETURNING: the rows written.
Replace(db, table, old, new) == [db EXCEPT ![table] = (@ \ old) \cup new]
UpdateOne(db, table, old, Set(_)) ==
  LET new == {Set(r) : r \in old} IN MayGive(Replace(db, table, old, new), TheRow(new))
\* DELETE ... RETURNING: how many.
DeleteWhere(db, table, rows) == Gives(Replace(db, table, rows, {}), Cardinality(rows))

----------------------------------------------------------------------------
(* wallets, compiler_sessions, compiler_turns, compilations *)

WalletsTouch(db, address, at) ==
  LET same == {w \in db.wallets : w.address = address}
  IN  IF same = {} THEN Insert(db, "wallets", [address |-> address, firstSeenAt |-> at])
      ELSE MayGive(db, same)

SessionsCreate(db, creator, at) ==
  InsertWithId(db, "sessions", [id |-> db.nextId, creator |-> creator, status |-> "OPEN", createdAt |-> at, updatedAt |-> at])
SessionsFindById(db, id) == MayGive(db, TheRow({s \in db.sessions : s.id = id}))
SessionsListTurns(db, id) == MayGive(db, OrderedBy({t \in db.turns : t.sessionId = id}, Oldest))
SessionsAppendTurn(db, id, role, at) ==
  IF \E s \in db.sessions : s.id = id
  THEN InsertWithId(db, "turns", [id |-> db.nextId, sessionId |-> id, role |-> role, createdAt |-> at])
  ELSE Gives(db, Failed)
SessionsMarkCompiled(db, id, at) ==
  LET Set(s) == [s EXCEPT !.status = "COMPILED", !.updatedAt = at]
  IN  Gives(UpdateOne(db, "sessions", {s \in db.sessions : s.id = id}, Set).db, Null)

CompilationsFind(db, hash) == MayGive(db, TheRow({c \in db.compilations : c.rulesHash = hash}))
CompilationsSave(db, hash, session, at) ==
  IF \E c \in db.compilations : c.rulesHash = hash THEN CompilationsFind(db, hash)
  ELSE Insert(db, "compilations", [rulesHash |-> hash, sessionId |-> session, createdAt |-> at])

----------------------------------------------------------------------------
(* markets *)

MarketsFindByRulesHash(db, hash) == MayGive(db, TheRow({m \in db.markets : m.rulesHash = hash}))
MarketsFindByChainMarketId(db, id) == MayGive(db, TheRow({m \in db.markets : m.chainMarketId = id}))
MarketsRegister(db, hash, creator, at) ==
  IF \E m \in db.markets : m.rulesHash = hash THEN MarketsFindByRulesHash(db, hash)
  ELSE Insert(db, "markets",
              [rulesHash |-> hash, creator |-> creator, chainMarketId |-> Null, contractAddress |-> Null,
               validationPlan |-> Null, status |-> "PENDING_ONCHAIN", createdAt |-> at, updatedAt |-> at])
MarketsUpdate(db, hash, Set(_)) == UpdateOne(db, "markets", {m \in db.markets : m.rulesHash = hash}, Set)
MarketsAttach(db, hash, id, address, at) ==
  LET Set(m) == [m EXCEPT !.chainMarketId = id, !.contractAddress = Lower[address], !.updatedAt = at]
  IN  IF \E m \in db.markets : m.chainMarketId = id /\ m.rulesHash # hash
      THEN Gives(db, Failed)
      ELSE MarketsUpdate(db, hash, Set)
MarketsUpdateStatus(db, hash, status, at) ==
  LET Set(m) == [m EXCEPT !.status = status, !.updatedAt = at] IN MarketsUpdate(db, hash, Set)
MarketsSetValidationPlan(db, hash, plan, at) ==
  LET Set(m) == [m EXCEPT !.validationPlan = plan, !.updatedAt = at] IN MarketsUpdate(db, hash, Set)
MarketsListOnChainAddresses(db) ==
  MayGive(db, InAnyOrder({m.contractAddress : m \in db.markets} \ {Null}))
\* Mutant of MarketsList: the cursor's own row is part of the next page.
MarketsListFromCursor(db, status, cursor, limit) ==
  LET rows == {m \in db.markets : cursor = Null \/ m.createdAt <= cursor}
      Page(s) == LET shown == SubSeq(s, 1, IF Len(s) > limit THEN limit ELSE Len(s))
                 IN  [markets |-> shown,
                      nextCursor |-> IF Len(s) > limit THEN Last(shown).createdAt ELSE Null]
  IN  MayGive(db, {Page(s) : s \in OrderedBy(rows, Newest)})

\* One row more than the page tells whether there is a next one; the cursor is
\* the creation time of the last row shown.
MarketsList(db, status, cursor, limit) ==
  LET rows == {m \in db.markets : /\ status = Null \/ m.status = status
                                  /\ cursor = Null \/ m.createdAt < cursor}
      Page(s) == LET shown == SubSeq(s, 1, IF Len(s) > limit THEN limit ELSE Len(s))
                 IN  [markets |-> shown,
                      nextCursor |-> IF Len(s) > limit THEN Last(shown).createdAt ELSE Null]
  IN  MayGive(db, {Page(s) : s \in OrderedBy(rows, Newest)})

----------------------------------------------------------------------------
(* resolutions, evidence, challenges: each row refers to a registered market *)

Refers(db, hash) == \E m \in db.markets : m.rulesHash = hash
ResolutionsOf(db, hash) == {r \in db.resolutions : r.rulesHash = hash}
LaterRound(a, b) == a.round > b.round \/ (a.round = b.round /\ a.createdAt > b.createdAt)
ResolutionsFindLatest(db, hash) == MayGive(db, FirstBy(ResolutionsOf(db, hash), LaterRound))
ResolutionsList(db, hash) ==
  MayGive(db, {SubSeq(s, 1, IF Len(s) > 50 THEN 50 ELSE Len(s)) : s \in OrderedBy(ResolutionsOf(db, hash), Newest)})
ResolutionsFindProposedByRound(db, hash, round) ==
  MayGive(db, FirstBy({r \in ResolutionsOf(db, hash) : r.round = round /\ r.status = "PROPOSED"}, Newest))
\* A row as it is inserted: the table's own defaults in what the call leaves out.
ResolutionRow(id, hash, status, round, at) ==
  [id |-> id, rulesHash |-> hash, status |-> status, round |-> round, submissionState |-> "NOT_SUBMITTED",
   proposalTxHash |-> Null, proposedAt |-> Null, finalizedAt |-> Null, createdAt |-> at]
ResolutionsRecord(db, hash, status, round, at) ==
  IF Refers(db, hash) THEN InsertWithId(db, "resolutions", ResolutionRow(db.nextId, hash, status, round, at))
  ELSE Gives(db, Failed)
\* Only fields with a value are written.
Given(new, old) == IF new = Null THEN old ELSE new
ResolutionsMarkSubmission(db, id, state, tx, at) ==
  LET Set(r) == [r EXCEPT !.submissionState = state, !.proposalTxHash = Given(tx, @), !.proposedAt = Given(at, @)]
  IN  UpdateOne(db, "resolutions", {r \in db.resolutions : r.id = id}, Set)
ResolutionsMarkFinalized(db, hash, at) ==
  LET open == {r \in ResolutionsOf(db, hash) : r.finalizedAt = Null}
  IN  Gives(Replace(db, "resolutions", open, {[r EXCEPT !.finalizedAt = at] : r \in open}), Cardinality(open))

EvidenceFindByRulesHash(db, hash) == MayGive(db, FirstBy({e \in db.evidence : e.rulesHash = hash}, Newest))
\* No unique constraint and no ORDER BY: any row with the hash.
EvidenceFindByHash(db, evidenceHash) == MayGive(db, TheRow({e \in db.evidence : e.evidenceHash = evidenceHash}))
EvidenceRow(id, hash, evidenceHash, at) ==
  [id |-> id, rulesHash |-> hash, evidenceHash |-> evidenceHash, createdAt |-> at]
EvidenceSave(db, hash, evidenceHash, at) ==
  IF \E e \in db.evidence : e.evidenceHash = evidenceHash THEN EvidenceFindByHash(db, evidenceHash)
  ELSE IF ~Refers(db, hash) THEN Gives(db, Failed)
  ELSE InsertWithId(db, "evidence", EvidenceRow(db.nextId, hash, evidenceHash, at))

HigherRound(a, b) == a.round > b.round
ChallengesFind(db, hash) == MayGive(db, FirstBy({c \in db.challenges : c.rulesHash = hash}, HigherRound))
\* The unique index: one document per market and round.
OfRound(db, hash, round) == {c \in db.challenges : c.rulesHash = hash /\ c.round = round}
ChallengesSave(db, hash, reason, round, at) ==
  IF ~Refers(db, hash) THEN Gives(db, Failed)
  ELSE IF OfRound(db, hash, round) # {} THEN ChallengesFind(db, hash)
  ELSE InsertWithId(db, "challenges", [id |-> db.nextId, rulesHash |-> hash, reason |-> reason, round |-> round, createdAt |-> at])

----------------------------------------------------------------------------
(* market_events, indexer_checkpoints, indexer_blocks, market_chain_state *)

Identity(e) == <<e.transactionHash, e.logIndex>>
Earlier(a, b) == a.blockNumber < b.blockNumber \/ (a.blockNumber = b.blockNumber /\ a.logIndex < b.logIndex)
Stored(e, at) ==
  [transactionHash |-> e.transactionHash, logIndex |-> e.logIndex, blockNumber |-> e.blockNumber,
   chainMarketId |-> e.chainMarketId, rulesHash |-> e.rulesHash, indexedAt |-> at]
\* One multi-row INSERT ... ON CONFLICT DO NOTHING: of the rows with one
\* identity, in the table or in the batch, the first stays.
EventsAppend(db, batch, at) ==
  LET known == {Identity(e) : e \in db.events}
      kept == {i \in DOMAIN batch : /\ Identity(batch[i]) \notin known
                                    /\ \A j \in 1..(i - 1) : Identity(batch[j]) # Identity(batch[i])}
      rows == {Stored(batch[i], at) : i \in kept}
  IN  Gives([db EXCEPT !.events = @ \cup rows], Cardinality(rows))
EventsListByMarket(db, id) == MayGive(db, OrderedBy({e \in db.events : e.chainMarketId = id}, Earlier))
EventsListByRulesHash(db, hash) == MayGive(db, OrderedBy({e \in db.events : e.rulesHash = hash}, Earlier))
EventsDeleteFromBlock(db, from) == DeleteWhere(db, "events", {e \in db.events : e.blockNumber >= from})
EventsCount(db) == Gives(db, Cardinality(db.events))
EventsFindDuplicates(db) ==
  MayGive(db, InAnyOrder({Identity(e) : e \in {e \in db.events : \E f \in db.events : e # f /\ Identity(e) = Identity(f)}}))

CheckpointRow(start, at) ==
  [startBlock |-> start, lastProcessedBlock |-> IF start > 0 THEN start - 1 ELSE 0,
   lastProcessedBlockHash |-> Null, rewindCount |-> 0, updatedAt |-> at]
CheckpointsLoadOrCreate(db, start, at) ==
  IF db.checkpoints # {} THEN MayGive(db, db.checkpoints)
  ELSE Insert(db, "checkpoints", CheckpointRow(start, at))
CheckpointsSave(db, block, hash, at) ==
  LET Set(c) == [c EXCEPT !.lastProcessedBlock = block, !.lastProcessedBlockHash = hash, !.updatedAt = at]
  IN  Gives(UpdateOne(db, "checkpoints", db.checkpoints, Set).db, Null)
CheckpointsRewind(db, to, at) ==
  LET Set(c) == [c EXCEPT !.lastProcessedBlock = to, !.lastProcessedBlockHash = Null,
                          !.rewindCount = @ + 1, !.updatedAt = at]
  IN  IF db.checkpoints = {} THEN Gives(db, Failed) ELSE UpdateOne(db, "checkpoints", db.checkpoints, Set)
\* The primary key of indexer_blocks is the height.
BlockAt(db, number) == {b \in db.blocks : b.blockNumber = number}
\* Mutant of BlocksRecord: onConflictDoNothing keeps the hash a reorganisation replaced.
BlocksRecordOnce(db, number, hash) ==
  IF BlockAt(db, number) # {} THEN Gives(db, Null)
  ELSE Gives([db EXCEPT !.blocks = @ \cup {[blockNumber |-> number, blockHash |-> hash]}], Null)
BlocksRecord(db, number, hash) ==
  Gives(Replace(db, "blocks", BlockAt(db, number), {[blockNumber |-> number, blockHash |-> hash]}), Null)
Higher(a, b) == a.blockNumber > b.blockNumber
BlocksRecent(db, from) == MayGive(db, OrderedBy({b \in db.blocks : b.blockNumber >= from}, Higher))
BlocksDeleteFrom(db, from) == DeleteWhere(db, "blocks", {b \in db.blocks : b.blockNumber >= from})
BlocksPruneBelow(db, below) == DeleteWhere(db, "blocks", {b \in db.blocks : b.blockNumber < below})

ChainStateAt(db, address) == {s \in db.chainState : s.contractAddress = Lower[address]}
ChainStateRow(address, id, hash, state, at) ==
  [contractAddress |-> Lower[address], chainMarketId |-> id, rulesHash |-> hash,
   state |-> state, updatedAt |-> at]
\* The upsert is by address; two unique indexes refuse another address's row for
\* the same market.
ChainStateUpsert(db, address, id, hash, state, at) ==
  LET row == ChainStateRow(address, id, hash, state, at)
      others == db.chainState \ ChainStateAt(db, address)
  IN  IF \E s \in others : s.rulesHash = hash \/ s.chainMarketId = id
      THEN Gives(db, Failed)
      ELSE Gives(Replace(db, "chainState", ChainStateAt(db, address), {row}), row)
ChainStateFindByAddress(db, address) == MayGive(db, TheRow(ChainStateAt(db, address)))
ChainStateFindByRulesHash(db, hash) == MayGive(db, TheRow({s \in db.chainState : s.rulesHash = hash}))
ChainStateList(db) == MayGive(db, InAnyOrder(db.chainState))
ChainStateDelete(db, address) == Gives(Replace(db, "chainState", ChainStateAt(db, address), {}), Null)

----------------------------------------------------------------------------
(* auth_nonces, auth_sessions *)

NoncesIssue(db, nonce, address, at, expires) ==
  IF \E n \in db.nonces : n.nonce = nonce THEN Gives(db, Failed)
  ELSE Insert(db, "nonces", [nonce |-> nonce, address |-> address, issuedAt |-> at,
                             expiresAt |-> expires, consumedAt |-> Null])
\* One conditional UPDATE ... RETURNING.
NoncesConsume(db, nonce, at) ==
  LET Set(n) == [n EXCEPT !.consumedAt = at]
  IN  UpdateOne(db, "nonces", {n \in db.nonces : n.nonce = nonce /\ n.consumedAt = Null /\ n.expiresAt > at}, Set)
NoncesDeleteExpired(db, before) == DeleteWhere(db, "nonces", {n \in db.nonces : n.expiresAt <= before})

AuthSessionsCreate(db, token, address, at, expires) ==
  IF \E s \in db.authSessions : s.tokenHash = token THEN Gives(db, Failed)
  ELSE InsertWithId(db, "authSessions", [id |-> db.nextId, tokenHash |-> token, address |-> address, createdAt |-> at,
                                         expiresAt |-> expires, revokedAt |-> Null])
AuthSessionsFindByTokenHash(db, token) == MayGive(db, TheRow({s \in db.authSessions : s.tokenHash = token}))
AuthSessionsRevoke(db, id, at) ==
  LET Set(s) == [s EXCEPT !.revokedAt = at]
  IN  Gives(UpdateOne(db, "authSessions", {s \in db.authSessions : s.id = id}, Set).db, Null)
=============================================================================
