----------------------------- MODULE MemoryStore -----------------------------
(***************************************************************************)
(* The in-memory repositories (repositories/memory.ts) the test suite runs *)
(* on: one operator per method, from the tables before the call to         *)
(* [db, answer].  A table is a SEQUENCE of rows in order of insertion, the *)
(* order of both a JavaScript array and the values of a Map.  The names    *)
(* and the abstractions are DrizzleStore's.                                *)
(***************************************************************************)
EXTENDS Integers, Sequences, FiniteSets, SequencesExt, FiniteSetsExt

CONSTANTS Null, Failed, Lower

Empty == [wallets |-> <<>>, sessions |-> <<>>, turns |-> <<>>, compilations |-> <<>>, markets |-> <<>>,
          resolutions |-> <<>>, evidence |-> <<>>, challenges |-> <<>>, events |-> <<>>, checkpoints |-> <<>>,
          blocks |-> <<>>, chainState |-> <<>>, nonces |-> <<>>, authSessions |-> <<>>, nextId |-> 1]

Gives(db, answer) == [db |-> db, answer |-> answer]
Where(rows, Is(_)) == {i \in DOMAIN rows : Is(rows[i])}
Finds(rows, Is(_)) == Where(rows, Is) # {}
FirstOf(rows, Is(_)) == IF Finds(rows, Is) THEN rows[Min(Where(rows, Is))] ELSE Null
LastOf(rows, Is(_)) == IF Finds(rows, Is) THEN rows[Max(Where(rows, Is))] ELSE Null
\* Map.set: a key already there keeps its place.
Put(db, table, Is(_), row) ==
  [db EXCEPT ![table] = IF Finds(@, Is) THEN ReplaceAt(@, Min(Where(@, Is)), row) ELSE Append(@, row)]
Push(db, table, row) == Gives([db EXCEPT ![table] = Append(@, row)], row)
PushWithId(db, table, row) == Gives([db EXCEPT ![table] = Append(@, row), !.nextId = @ + 1], row)
\* Read a row, change it, write it back: Null when there is none.
Change(db, table, Is(_), Set(_)) ==
  LET row == Set(FirstOf(db[table], Is))
  IN  IF Finds(db[table], Is) THEN Gives(Put(db, table, Is, row), row) ELSE Gives(db, Null)

\* The rows at the indexes `ahead' is about, each in the place that the number of
\* those ahead of it says: Array.prototype.filter, and the stable sort().
Arranged(rows, ahead) ==
  [k \in 1..Cardinality(DOMAIN ahead) |->
     rows[CHOOSE i \in DOMAIN ahead : Cardinality(ahead[i]) = k - 1]]
Filtered(rows, Is(_)) ==
  Arranged(rows, [i \in Where(rows, Is) |-> {j \in Where(rows, Is) : j < i}])
Sorted(rows, Before(_, _)) ==
  Arranged(rows, [i \in DOMAIN rows |-> {j \in DOMAIN rows : \/ Before(rows[j], rows[i])
                                                             \/ ~Before(rows[i], rows[j]) /\ j < i}])
Drop(db, table, Is(_)) ==
  LET kept == Filtered(db[table], LAMBDA r : ~Is(r))
  IN  Gives([db EXCEPT ![table] = kept], Len(db[table]) - Len(kept))

----------------------------------------------------------------------------
(* wallets, sessions, compilations *)

WalletsTouch(db, address, at) ==
  LET Is(w) == w.address = address
  IN  IF Finds(db.wallets, Is) THEN Gives(db, FirstOf(db.wallets, Is))
      ELSE Push(db, "wallets", [address |-> address, firstSeenAt |-> at])

SessionsCreate(db, creator, at) ==
  PushWithId(db, "sessions", [id |-> db.nextId, creator |-> creator, status |-> "OPEN", createdAt |-> at, updatedAt |-> at])
SessionsFindById(db, id) == Gives(db, FirstOf(db.sessions, LAMBDA s : s.id = id))
SessionsListTurns(db, id) == Gives(db, Filtered(db.turns, LAMBDA t : t.sessionId = id))
SessionsAppendTurn(db, id, role, at) ==
  IF ~Finds(db.sessions, LAMBDA s : s.id = id) THEN Gives(db, Failed)
  ELSE PushWithId(db, "turns", [id |-> db.nextId, sessionId |-> id, role |-> role, createdAt |-> at])
SessionsMarkCompiled(db, id, at) ==
  Gives(Change(db, "sessions", LAMBDA s : s.id = id,
               LAMBDA s : [s EXCEPT !.status = "COMPILED", !.updatedAt = at]).db, Null)

CompilationsFind(db, hash) == Gives(db, FirstOf(db.compilations, LAMBDA c : c.rulesHash = hash))
CompilationsSave(db, hash, session, at) ==
  LET row == [rulesHash |-> hash, sessionId |-> session, createdAt |-> at]
  IN  Gives(Put(db, "compilations", LAMBDA c : c.rulesHash = hash, row), row)

----------------------------------------------------------------------------
(* markets *)

MarketsFindByRulesHash(db, hash) == Gives(db, FirstOf(db.markets, LAMBDA m : m.rulesHash = hash))
MarketsFindByChainMarketId(db, id) == Gives(db, FirstOf(db.markets, LAMBDA m : m.chainMarketId = id))
MarketsRegister(db, hash, creator, at) ==
  IF Finds(db.markets, LAMBDA m : m.rulesHash = hash) THEN MarketsFindByRulesHash(db, hash)
  ELSE Push(db, "markets",
            [rulesHash |-> hash, creator |-> creator, chainMarketId |-> Null, contractAddress |-> Null,
             validationPlan |-> Null, status |-> "PENDING_ONCHAIN", createdAt |-> at, updatedAt |-> at])
MarketsUpdate(db, hash, Set(_)) == Change(db, "markets", LAMBDA m : m.rulesHash = hash, Set)
MarketsAttach(db, hash, id, address, at) ==
  MarketsUpdate(db, hash, LAMBDA m : [m EXCEPT !.chainMarketId = id, !.contractAddress = Lower[address],
                                               !.updatedAt = at])
MarketsUpdateStatus(db, hash, status, at) ==
  MarketsUpdate(db, hash, LAMBDA m : [m EXCEPT !.status = status, !.updatedAt = at])
MarketsSetValidationPlan(db, hash, plan, at) ==
  MarketsUpdate(db, hash, LAMBDA m : [m EXCEPT !.validationPlan = plan, !.updatedAt = at])
MarketsListOnChainAddresses(db) ==
  LET attached == Filtered(db.markets, LAMBDA m : m.contractAddress # Null)
  IN  Gives(db, [i \in DOMAIN attached |-> attached[i].contractAddress])
\* The cursor is an offset into the listing.
MarketsList(db, status, cursor, limit) ==
  LET newest == Sorted(db.markets, LAMBDA a, b : a.createdAt > b.createdAt)
      all == Filtered(newest, LAMBDA m : status = Null \/ m.status = status)
      offset == IF cursor = Null THEN 0 ELSE cursor
      page == SubSeq(all, offset + 1, IF offset + limit > Len(all) THEN Len(all) ELSE offset + limit)
  IN  Gives(db, [markets |-> page,
                 nextCursor |-> IF offset + Len(page) < Len(all) THEN offset + Len(page) ELSE Null])

----------------------------------------------------------------------------
(* resolutions, evidence, challenges *)

ResolutionsOf(db, hash) == Filtered(db.resolutions, LAMBDA r : r.rulesHash = hash)
ResolutionsFindLatest(db, hash) == Gives(db, LastOf(db.resolutions, LAMBDA r : r.rulesHash = hash))
ResolutionsList(db, hash) == Gives(db, Reverse(ResolutionsOf(db, hash)))
ResolutionsFindProposedByRound(db, hash, round) ==
  Gives(db, LastOf(db.resolutions, LAMBDA r : r.rulesHash = hash /\ r.round = round /\ r.status = "PROPOSED"))
ResolutionsRecord(db, hash, status, round, at) ==
  PushWithId(db, "resolutions",
    [id |-> db.nextId, rulesHash |-> hash, status |-> status, round |-> round, submissionState |-> "NOT_SUBMITTED",
     proposalTxHash |-> Null, proposedAt |-> Null, finalizedAt |-> Null, createdAt |-> at])
Given(new, old) == IF new = Null THEN old ELSE new
ResolutionsMarkSubmission(db, id, state, tx, at) ==
  Change(db, "resolutions", LAMBDA r : r.id = id,
         LAMBDA r : [r EXCEPT !.submissionState = state, !.proposalTxHash = Given(tx, @),
                              !.proposedAt = Given(at, @)])
ResolutionsMarkFinalized(db, hash, at) ==
  LET open(r) == r.rulesHash = hash /\ r.finalizedAt = Null
      stamped == [i \in DOMAIN db.resolutions |->
                    IF open(db.resolutions[i]) THEN [db.resolutions[i] EXCEPT !.finalizedAt = at]
                                               ELSE db.resolutions[i]]
  IN  Gives([db EXCEPT !.resolutions = stamped], Cardinality(Where(db.resolutions, open)))

EvidenceFindByRulesHash(db, hash) == Gives(db, LastOf(db.evidence, LAMBDA e : e.rulesHash = hash))
EvidenceFindByHash(db, evidenceHash) == Gives(db, FirstOf(db.evidence, LAMBDA e : e.evidenceHash = evidenceHash))
EvidenceSave(db, hash, evidenceHash, at) ==
  IF Finds(db.evidence, LAMBDA e : e.evidenceHash = evidenceHash) THEN EvidenceFindByHash(db, evidenceHash)
  ELSE PushWithId(db, "evidence", [id |-> db.nextId, rulesHash |-> hash, evidenceHash |-> evidenceHash, createdAt |-> at])

ChallengesFind(db, hash) == Gives(db, LastOf(db.challenges, LAMBDA c : c.rulesHash = hash))
ChallengesSave(db, hash, reason, round, at) ==
  LET Is(c) == c.rulesHash = hash /\ c.round = round
  IN  IF Finds(db.challenges, Is) THEN Gives(db, FirstOf(db.challenges, Is))
      ELSE PushWithId(db, "challenges", [id |-> db.nextId, rulesHash |-> hash, reason |-> reason, round |-> round, createdAt |-> at])

----------------------------------------------------------------------------
(* events, checkpoints and recent blocks, chain state *)

Identity(e) == <<e.transactionHash, e.logIndex>>
Has(rows, e) == \E i \in DOMAIN rows : Identity(rows[i]) = Identity(e)
Stored(e, at) ==
  [transactionHash |-> e.transactionHash, logIndex |-> e.logIndex, blockNumber |-> e.blockNumber,
   chainMarketId |-> e.chainMarketId, rulesHash |-> e.rulesHash, indexedAt |-> at]
EventsAppend(db, batch, at) ==
  LET rows[n \in 0..Len(batch)] ==
        IF n = 0 THEN db.events
        ELSE IF Has(rows[n - 1], batch[n]) THEN rows[n - 1]
        ELSE Append(rows[n - 1], Stored(batch[n], at))
  IN  Gives([db EXCEPT !.events = rows[Len(batch)]], Len(rows[Len(batch)]) - Len(db.events))
EventsSorted(db) ==
  Sorted(db.events, LAMBDA a, b : \/ a.blockNumber < b.blockNumber
                                  \/ a.blockNumber = b.blockNumber /\ a.logIndex < b.logIndex)
EventsListByMarket(db, id) == Gives(db, Filtered(EventsSorted(db), LAMBDA e : e.chainMarketId = id))
EventsListByRulesHash(db, hash) == Gives(db, Filtered(EventsSorted(db), LAMBDA e : e.rulesHash = hash))
EventsDeleteFromBlock(db, from) == Drop(db, "events", LAMBDA e : e.blockNumber >= from)
EventsCount(db) == Gives(db, Len(db.events))
EventsFindDuplicates(db) == Gives(db, <<>>)

CheckpointsLoadOrCreate(db, start, at) ==
  IF db.checkpoints # <<>> THEN Gives(db, Head(db.checkpoints))
  ELSE Push(db, "checkpoints",
            [startBlock |-> start, lastProcessedBlock |-> IF start > 0 THEN start - 1 ELSE 0,
             lastProcessedBlockHash |-> Null, rewindCount |-> 0, updatedAt |-> at])
CheckpointsSave(db, block, hash, at) ==
  Gives(Change(db, "checkpoints", LAMBDA c : TRUE,
               LAMBDA c : [c EXCEPT !.lastProcessedBlock = block, !.lastProcessedBlockHash = hash,
                                    !.updatedAt = at]).db, Null)
CheckpointsRewind(db, to, at) ==
  IF db.checkpoints = <<>> THEN Gives(db, Failed)
  ELSE Change(db, "checkpoints", LAMBDA c : TRUE,
              LAMBDA c : [c EXCEPT !.lastProcessedBlock = to, !.lastProcessedBlockHash = Null,
                                   !.rewindCount = @ + 1, !.updatedAt = at])
BlocksRecord(db, number, hash) ==
  Gives(Put(db, "blocks", LAMBDA b : b.blockNumber = number, [blockNumber |-> number, blockHash |-> hash]), Null)
BlocksRecent(db, from) ==
  Gives(db, Sorted(Filtered(db.blocks, LAMBDA b : b.blockNumber >= from),
                   LAMBDA a, b : a.blockNumber > b.blockNumber))
BlocksDeleteFrom(db, from) == Drop(db, "blocks", LAMBDA b : b.blockNumber >= from)
BlocksPruneBelow(db, below) == Drop(db, "blocks", LAMBDA b : b.blockNumber < below)

ChainStateUpsert(db, address, id, hash, state, at) ==
  LET row == [contractAddress |-> Lower[address], chainMarketId |-> id, rulesHash |-> hash,
              state |-> state, updatedAt |-> at]
  IN  Gives(Put(db, "chainState", LAMBDA s : s.contractAddress = Lower[address], row), row)
ChainStateFindByAddress(db, address) ==
  Gives(db, FirstOf(db.chainState, LAMBDA s : s.contractAddress = Lower[address]))
ChainStateFindByRulesHash(db, hash) == Gives(db, FirstOf(db.chainState, LAMBDA s : s.rulesHash = hash))
ChainStateList(db) == Gives(db, db.chainState)
ChainStateDelete(db, address) ==
  Gives(Drop(db, "chainState", LAMBDA s : s.contractAddress = Lower[address]).db, Null)

----------------------------------------------------------------------------
(* sign-in nonces and sessions *)

NoncesIssue(db, nonce, address, at, expires) ==
  LET row == [nonce |-> nonce, address |-> address, issuedAt |-> at, expiresAt |-> expires, consumedAt |-> Null]
  IN  Gives(Put(db, "nonces", LAMBDA n : n.nonce = nonce, row), row)
NoncesConsume(db, nonce, at) ==
  LET Is(n) == n.nonce = nonce
      found == FirstOf(db.nonces, Is)
      spent == [found EXCEPT !.consumedAt = at]
  IN  IF ~Finds(db.nonces, Is) THEN Gives(db, Null)
      ELSE IF found.consumedAt # Null THEN Gives(db, Null)
      ELSE IF found.expiresAt <= at THEN Gives(db, Null)
      ELSE Gives(Put(db, "nonces", Is, spent), spent)
NoncesDeleteExpired(db, before) == Drop(db, "nonces", LAMBDA n : n.expiresAt <= before)

AuthSessionsCreate(db, token, address, at, expires) ==
  PushWithId(db, "authSessions", [id |-> db.nextId, tokenHash |-> token, address |-> address, createdAt |-> at,
                                  expiresAt |-> expires, revokedAt |-> Null])
AuthSessionsFindByTokenHash(db, token) == Gives(db, FirstOf(db.authSessions, LAMBDA s : s.tokenHash = token))
AuthSessionsRevoke(db, id, at) ==
  Gives(Change(db, "authSessions", LAMBDA s : s.id = id, LAMBDA s : [s EXCEPT !.revokedAt = at]).db, Null)
=============================================================================
