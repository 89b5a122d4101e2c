------------------------------- MODULE Indexer -------------------------------
(***************************************************************************)
(* The market event indexer (apps/backend/src/indexer/indexer.ts) and the  *)
(* four tables it keeps: its checkpoint, the hashes of recent blocks, the  *)
(* events, and one cached row of contract state per market.                *)
(*                                                                         *)
(* A pass is a sequence of awaited calls; each is an action here, so that  *)
(* the chain may grow or reorganise, and the process may die, between any  *)
(* two.  What a pass holds in memory is lost when it dies or when a call   *)
(* throws; the tables are not.  An RPC error while a block's hash is looked *)
(* up reads as "no such block" (chain/client.ts, getBlockHash).            *)
(*                                                                         *)
(* The chain is the environment: a sequence of blocks, each with at most   *)
(* one transaction that concerns a market.  A reorganisation drops blocks  *)
(* and others, perhaps with the same transactions, are mined instead.      *)
(***************************************************************************)
EXTENDS Integers, Sequences, FiniteSetsExt, Functions

CONSTANTS
    Markets,            \* addresses of markets
    Specified,          \* those whose specification was registered off-chain
    LastTx,             \* a market has a creation, 0, and transactions 1 .. LastTx
    NoTx,               \* a block without a market's transaction
    StartBlock, Confirmations, ReorgWindow, MaxBlocksPerPass,
    ReorgDepth,         \* a block this far below the highest head is settled
    DeepReorgsDuringPass,   \* may a confirmed block be replaced during a pass?
    MaxMined,           \* bound: blocks ever mined
    MaxReorgs,          \* bound: reorganisations
    MaxCrashes,         \* bound: passes abandoned at an arbitrary point
    MaxLookupErrors     \* bound: block hashes the node failed to return

ASSUME IndexerAssumption ==
    /\ Specified \subseteq Markets
    /\ LastTx \in Nat
    /\ StartBlock \in Nat \ {0}
    /\ Confirmations \in Nat
    /\ ReorgWindow \in Nat
    /\ MaxBlocksPerPass \in Nat \ {0}
    /\ ReorgDepth \in Nat
    /\ DeepReorgsDuringPass \in BOOLEAN
    /\ {MaxMined, MaxReorgs, MaxCrashes, MaxLookupErrors} \subseteq Nat

VARIABLES
    chain, peak, mined, reorgs,         \* the chain, and its highest head
    checkpoint, blocks, events, rows, attached,     \* the tables
    pc, cursor, walk, diverged, toBlock, batch, pending, height,    \* the pass
    crashes, lookupErrors,
    undisturbed,    \* history: no reorganisation or failure since the last pass began
    blind           \* history: something went wrong that a pass does not look for

chainVars == <<chain, peak, mined, reorgs>>
logVars   == <<checkpoint, blocks, events>>
cacheVars == <<rows, attached>>
passVars  == <<cursor, walk, diverged, toBlock, batch, pending, height>>
envVars   == <<chainVars, crashes, lookupErrors, undisturbed, blind>>

vars == <<envVars, logVars, cacheVars, pc, passVars>>

\* The identity of an event is its transaction; its row says at which height and
\* in which block it was seen.
Txs == [market : Markets, nth : 0 .. LastTx]

-----------------------------------------------------------------------------
(* What the chain answers. *)

NoHash == 0     \* null

HashAt(h) == IF h \in 1 .. Len(chain) THEN chain[h].hash ELSE NoHash

SafeHeadAtTip == Len(chain)     \* mutant: no confirmation lag

SafeHead == IF Len(chain) > Confirmations THEN Len(chain) - Confirmations ELSE 0

TxsOnChain == {chain[h].tx : h \in 1 .. Len(chain)} \ {NoTx}

\* readMarket(): the state a market's transactions have led to at the head.
ContractState(m) == {t \in TxsOnChain : t.market = m}

Exists(m) == ContractState(m) # {}

LogsIn(lo, hi) ==
    { [tx |-> chain[h].tx, height |-> h, hash |-> chain[h].hash] :
        h \in {k \in lo .. hi : k <= Len(chain) /\ chain[k].tx # NoTx} }

FactoryLogs(lo, hi) == {e \in LogsIn(lo, hi) : e.tx.nth = 0}

MarketLogs(addresses, lo, hi) ==
    {e \in LogsIn(lo, hi) : e.tx.nth > 0 /\ e.tx.market \in addresses}

-----------------------------------------------------------------------------
(* The environment: the factory is deployed in block StartBlock. *)

Minable(t) ==
    \/ t = NoTx
    \/ /\ Len(chain) + 1 >= StartBlock
       /\ t \in Txs \ TxsOnChain
       /\ t.nth = 0 \/ Exists(t.market)

Mine(t) ==
    /\ mined < MaxMined
    /\ Minable(t)
    /\ chain' = Append(chain, [hash |-> mined + 1, tx |-> t])
    /\ mined' = mined + 1
    /\ peak' = Max({peak, Len(chain')})
    /\ UNCHANGED <<reorgs, crashes, lookupErrors, undisturbed, blind, logVars, cacheVars,
                    pc, passVars>>

Reorg(h) ==
    /\ reorgs < MaxReorgs
    /\ h < Len(chain)
    /\ h + ReorgDepth >= peak
    /\ pc = "idle" \/ DeepReorgsDuringPass \/ h + Confirmations >= peak
    /\ chain' = SubSeq(chain, 1, h)
    /\ reorgs' = reorgs + 1
    /\ undisturbed' = FALSE
    /\ blind' = (blind \/ (pc # "idle" /\ h + Confirmations < peak))
    /\ UNCHANGED <<peak, mined, crashes, lookupErrors, logVars, cacheVars, pc, passVars>>

-----------------------------------------------------------------------------
(* A pass.  Between passes its variables hold the values of Idle. *)

Idle ==
    /\ pc' = "idle" /\ cursor' = 0 /\ walk' = {} /\ diverged' = FALSE /\ toBlock' = 0
    /\ batch' = {} /\ pending' = {} /\ height' = 0

Init ==
    /\ chain = <<>> /\ peak = 0 /\ mined = 0 /\ reorgs = 0
    /\ checkpoint = StartBlock - 1
    /\ blocks = <<>>
    /\ events = {}
    /\ rows = [m \in Markets |-> {}]
    /\ attached = {}
    /\ pc = "idle" /\ cursor = 0 /\ walk = {} /\ diverged = FALSE /\ toBlock = 0
    /\ batch = {} /\ pending = {} /\ height = 0
    /\ crashes = 0 /\ lookupErrors = 0
    /\ undisturbed = FALSE /\ blind = FALSE

WindowStart == IF checkpoint > ReorgWindow THEN checkpoint - ReorgWindow ELSE 0

Recorded ==
    IF checkpoint < StartBlock THEN {} ELSE {h \in DOMAIN blocks : h >= WindowStart}

Start ==
    /\ pc = "idle"
    /\ undisturbed' = TRUE
    /\ cursor' = checkpoint
    /\ walk' = Recorded
    /\ pc' = IF Recorded = {} THEN "range" ELSE "compare"
    /\ UNCHANGED <<chainVars, crashes, lookupErrors, blind, logVars, cacheVars, diverged, toBlock,
                    batch, pending, height>>

\* A lookup answers what the chain says, or, after an RPC error, nothing.
Looked(h, answer) ==
    \/ answer = HashAt(h) /\ UNCHANGED lookupErrors
    \/ /\ lookupErrors < MaxLookupErrors
       /\ answer = NoHash
       /\ lookupErrors' = lookupErrors + 1

RewindToDiverged(h, agreed) == IF agreed THEN h + 1 ELSE h      \* mutant: keeps a replaced block

RewindTo(h, agreed) == IF agreed THEN h ELSE StartBlock - 1

\* walk holds the heights still to compare, newest first; the first that agrees ends it.
Compare(answer) ==
    LET newest == Max(walk)
        agreed == answer = blocks[newest]
    IN  /\ pc = "compare"
        /\ Looked(newest, answer)
        /\ diverged' = (diverged \/ ~agreed)
        /\ walk' = IF agreed THEN {} ELSE walk \ {newest}
        /\ IF walk' # {} THEN UNCHANGED <<pc, cursor>>
           ELSE IF diverged' THEN pc' = "dropEvents" /\ cursor' = RewindTo(newest, agreed)
           ELSE pc' = "range" /\ UNCHANGED cursor
        /\ UNCHANGED <<chainVars, crashes, undisturbed, blind, logVars, cacheVars, toBlock, batch,
                        pending, height>>

DropEvents ==
    /\ pc = "dropEvents"
    /\ events' = {e \in events : e.height <= cursor}
    /\ pc' = "dropBlocks"
    /\ UNCHANGED <<envVars, checkpoint, blocks, cacheVars, passVars>>

DropBlocks ==
    /\ pc = "dropBlocks"
    /\ blocks' = Restrict(blocks, {h \in DOMAIN blocks : h <= cursor})
    /\ pc' = "rewind"
    /\ UNCHANGED <<envVars, checkpoint, events, cacheVars, passVars>>

Rewind ==
    /\ pc = "rewind"
    /\ checkpoint' = cursor
    /\ pc' = "range"
    /\ UNCHANGED <<envVars, blocks, events, cacheVars, passVars>>

IdleBefore(from, safeHead) == from >= safeHead      \* mutant: stops one block early

NothingToRead(from, safeHead) == from > safeHead

ChooseRange ==
    /\ pc = "range"
    /\ IF NothingToRead(cursor + 1, SafeHead) THEN Idle
       ELSE /\ toBlock' = Min({cursor + MaxBlocksPerPass, SafeHead})
            /\ pc' = "readFactory"
            /\ UNCHANGED <<cursor, walk, diverged, batch, pending, height>>
    /\ UNCHANGED <<envVars, logVars, cacheVars>>

ReadFactory ==
    /\ pc = "readFactory"
    /\ batch' = FactoryLogs(cursor + 1, toBlock)
    /\ pc' = "readMarkets"
    /\ UNCHANGED <<envVars, logVars, cacheVars, cursor, walk, diverged, toBlock, pending,
                    height>>

RegisteredOnly(created) == attached \cup created       \* mutant: forgets what it observed

WatchSet(created) == attached \cup {m \in Markets : rows[m] # {}} \cup created

ReadMarkets ==
    /\ pc = "readMarkets"
    /\ batch' = batch \cup MarketLogs(WatchSet({e.tx.market : e \in batch}), cursor + 1, toBlock)
    /\ pc' = "persist"
    /\ UNCHANGED <<envVars, logVars, cacheVars, cursor, walk, diverged, toBlock, pending,
                    height>>

Created == {e.tx.market : e \in {b \in batch : b.tx.nth = 0}}

ToAttach == Created \cap Specified

TouchedByCreation == Created            \* mutant: refreshes only new markets

Touched == {e.tx.market : e \in batch}

\* persistEvents(): a row whose identity is stored already is left as it is.
Persist ==
    /\ pc = "persist"
    /\ events' = events \cup {e \in batch : e.tx \notin {f.tx : f \in events}}
    /\ pending' = ToAttach
    /\ pc' = "attach"
    /\ UNCHANGED <<envVars, checkpoint, blocks, cacheVars, cursor, walk, diverged, toBlock,
                    batch, height>>

\* attachOnChainIdentity(), for one market created in this batch, then the next.
Attach(m) ==
    /\ pc = "attach"
    /\ m \in pending
    /\ attached' = attached \cup {m}
    /\ pending' = pending \ {m}
    /\ UNCHANGED <<envVars, logVars, rows, pc, cursor, walk, diverged, toBlock, batch, height>>

AttachDone ==
    /\ pc = "attach"
    /\ pending = {}
    /\ pending' = Touched
    /\ pc' = "refresh"
    /\ UNCHANGED <<envVars, logVars, cacheVars, cursor, walk, diverged, toBlock, batch, height>>

\* refreshChainState(): the contract is read at the head.
Refresh(m) ==
    /\ pc = "refresh"
    /\ m \in pending
    /\ Exists(m)
    /\ rows' = [rows EXCEPT ![m] = ContractState(m)]
    /\ pending' = pending \ {m}
    /\ UNCHANGED <<envVars, logVars, attached, pc, cursor, walk, diverged, toBlock, batch,
                    height>>

RecordFrom == Max({toBlock - ReorgWindow, cursor + 1})

RefreshDone ==
    /\ pc = "refresh"
    /\ pending = {}
    /\ height' = RecordFrom
    /\ pc' = "record"
    /\ UNCHANGED <<envVars, logVars, cacheVars, cursor, walk, diverged, toBlock, batch, pending>>

\* recordBlockWindow(): a height whose hash the node does not return is skipped.
RecordBlock(answer) ==
    /\ pc = "record"
    /\ Looked(height, answer)
    /\ blocks' = IF answer = NoHash THEN blocks
                 ELSE [h \in DOMAIN blocks \cup {height} |->
                         IF h = height THEN answer ELSE blocks[h]]
    /\ height' = height + 1
    /\ pc' = IF height = toBlock THEN "save" ELSE "record"
    /\ blind' = (blind \/ answer # HashAt(height))
    /\ UNCHANGED <<chainVars, crashes, undisturbed, checkpoint, events, cacheVars, cursor, walk,
                    diverged, toBlock, batch, pending>>

Save ==
    /\ pc = "save"
    /\ checkpoint' = toBlock
    /\ pc' = "prune"
    /\ UNCHANGED <<envVars, blocks, events, cacheVars, passVars>>

PruneBelow == IF toBlock > 4 * ReorgWindow THEN toBlock - 4 * ReorgWindow ELSE 0

Prune ==
    /\ pc = "prune"
    /\ blocks' = Restrict(blocks, {h \in DOMAIN blocks : h >= PruneBelow})
    /\ Idle
    /\ UNCHANGED <<envVars, checkpoint, events, cacheVars>>

\* run(): the process dies, or a call throws; the next pass starts over.
Abandon ==
    /\ pc # "idle"
    /\ crashes < MaxCrashes
    /\ crashes' = crashes + 1
    /\ undisturbed' = FALSE /\ blind' = TRUE
    /\ Idle
    /\ UNCHANGED <<chainVars, lookupErrors, logVars, cacheVars>>

\* readMarket() throws when the market is not on the chain any more.
RefreshFails(m) ==
    /\ pc = "refresh"
    /\ m \in pending
    /\ ~Exists(m)
    /\ undisturbed' = FALSE /\ blind' = TRUE
    /\ Idle
    /\ UNCHANGED <<chainVars, crashes, lookupErrors, logVars, cacheVars>>

PassStep ==
    \/ Start \/ DropEvents \/ DropBlocks \/ Rewind \/ ChooseRange \/ ReadFactory \/ ReadMarkets
    \/ Persist \/ AttachDone \/ RefreshDone \/ Save \/ Prune
    \/ \E answer \in NoHash .. MaxMined : Compare(answer) \/ RecordBlock(answer)
    \/ \E m \in Markets : Attach(m) \/ Refresh(m) \/ RefreshFails(m)

Next ==
    \/ PassStep
    \/ Abandon
    \/ \E t \in Txs \cup {NoTx} : Mine(t)
    \/ \E h \in 0 .. MaxMined : Reorg(h)

Spec == Init /\ [][Next]_vars

\* run() polls for ever, and every call it awaits returns or throws.
FairSpec == Spec /\ WF_vars(PassStep)

-----------------------------------------------------------------------------
(* Properties. *)

EventsUpTo(h) == LogsIn(1, h)

\* The checkpoint is saved after the writes it covers, whatever pass was
\* abandoned where: no event of a block at or below it is missing.
NothingSkipped == EventsUpTo(checkpoint) \subseteq events

\* The confirmation lag: a stored event is on the chain, in the block and at the
\* height it was stored with, although a pass runs while the chain moves.
NothingRetracted == events \subseteq EventsUpTo(Len(chain))

\* The cached row of a market reflects every transaction of it that the
\* checkpoint has passed, also when the pass that read it was abandoned later.
RowsCoverCheckpoint ==
    \A e \in EventsUpTo(checkpoint) : e.tx \in rows[e.tx.market]

\* A pass repairs what a reorganisation of any depth did before it began: when
\* it ends, the events stored are those of the chain up to the checkpoint.  Three
\* faults are beyond it, and set blind: confirmed blocks replaced during a pass,
\* a pass abandoned halfway, and a block's hash not recorded.
RepairedByPass ==
    pc = "idle" /\ undisturbed /\ ~blind => events = EventsUpTo(checkpoint)

\* However the chain moved and whatever failed, once it stops the indexer reaches
\* the last confirmed block and stays there.
CatchesUp == <>[](checkpoint >= SafeHead /\ pc \in {"idle", "compare", "range"})

\* "The only failure mode is redoing work, never skipping it", wherever the
\* indexer crashed: after a whole pass, no event up to the checkpoint is missing.
SkipsNothing ==
    pc = "idle" /\ undisturbed =>
        {e.tx : e \in EventsUpTo(checkpoint)} \subseteq {e.tx : e \in events}

=============================================================================
