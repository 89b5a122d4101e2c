---------------------------- MODULE Indexer_proofs ----------------------------
(***************************************************************************)
(* What the indexer's tables hold, for any markets, windows and bounds:    *)
(* nothing is skipped and nothing stored has to be taken back while the    *)
(* confirmed part of the chain stays; and whatever was replaced before a   *)
(* pass is repaired by it.                                                 *)
(***************************************************************************)
EXTENDS Indexer, FiniteSums_proofs, SequenceTheorems

-----------------------------------------------------------------------------
(* What always holds of the chain, the tables and a pass. *)

Block == [hash : Nat, tx : Txs \cup {NoTx}]

Event == [tx : Txs, height : Nat, hash : Nat]

\* A confirmed block.
Settled(h) == h + Confirmations <= peak

\* Hashes are never used twice, a transaction is mined once, and a market's
\* first one is its creation.
ChainOK ==
    /\ chain \in Seq(Block) /\ mined \in Nat /\ peak \in Nat
    /\ Len(chain) <= peak
    /\ \A h \in 1 .. Len(chain) : chain[h].hash \in 1 .. mined
    /\ \A h \in 1 .. Len(chain) : chain[h].tx # NoTx => h >= StartBlock
    /\ \A h, k \in 1 .. Len(chain) : chain[h].tx # NoTx /\ chain[h].tx = chain[k].tx => h = k
    /\ \A h \in 1 .. Len(chain) :
          chain[h].tx # NoTx /\ chain[h].tx.nth > 0 =>
              \E k \in 1 .. Len(chain) :
                  /\ k < h /\ chain[k].tx # NoTx
                  /\ chain[k].tx.nth = 0 /\ chain[k].tx.market = chain[h].tx.market

TablesOK ==
    /\ checkpoint \in Nat /\ checkpoint + 1 >= StartBlock
    /\ DOMAIN blocks \subseteq Nat
    /\ \A h \in DOMAIN blocks : h >= StartBlock /\ Settled(h) /\ blocks[h] \in 1 .. mined
    /\ events \subseteq Event
    /\ rows \in [Markets -> SUBSET Txs]
    /\ attached \subseteq Markets

Storing == {"attach", "refresh", "record", "save"}

Reading == {"readFactory", "readMarkets", "persist"}

Rewinding == {"dropEvents", "dropBlocks", "rewind"}

PassOK ==
    /\ pc \in {"idle", "compare", "range", "prune"} \cup Storing \cup Reading \cup Rewinding
    /\ cursor \in Nat /\ toBlock \in Nat /\ height \in Nat
    /\ walk \subseteq DOMAIN blocks /\ batch \subseteq Event /\ pending \subseteq Markets
    /\ diverged \in BOOLEAN /\ blind \in BOOLEAN /\ undisturbed \in BOOLEAN
    /\ pc = "compare" <=> walk # {}
    /\ pc # "idle" => cursor + 1 >= StartBlock
    /\ pc \in {"compare", "range"} \cup Reading \cup Storing => cursor = checkpoint
    /\ pc \in {"prune"} \cup Reading \cup Storing => cursor < toBlock /\ Settled(toBlock)
    /\ pc = "record" => height \in cursor + 1 .. toBlock

-----------------------------------------------------------------------------
(* While no confirmed block is replaced and no lookup fails. *)

\* What a pass has read, stored and refreshed of its range, at every await.
BatchIsRange ==
    /\ pc = "readMarkets" => batch = FactoryLogs(cursor + 1, toBlock)
    /\ pc \in {"persist"} \cup Storing => batch = LogsIn(cursor + 1, toBlock)

BatchIsStored == pc \in Storing => batch \subseteq events

BatchIsRefreshed ==
    pc \in {"refresh", "record", "save"} =>
        \A e \in batch : \/ e.tx \in rows[e.tx.market]
                         \/ pc = "refresh" /\ e.tx.market \in pending

\* Nothing recorded ever disagrees with the chain, so that no pass rewinds.
NeverRewinds ==
    /\ peak <= Len(chain) + ReorgDepth
    /\ lookupErrors = 0
    /\ \A h \in DOMAIN blocks : blocks[h] = chain[h].hash
    /\ pc \notin Rewinding /\ diverged = FALSE
    /\ checkpoint < StartBlock \/ Settled(checkpoint)
    /\ \A e \in events : Settled(e.height)
    /\ pc = "prune" => checkpoint = toBlock

ConfirmedInv ==
    /\ NeverRewinds /\ BatchIsRange /\ BatchIsStored /\ BatchIsRefreshed
    /\ NothingSkipped /\ NothingRetracted /\ RowsCoverCheckpoint

-----------------------------------------------------------------------------
(* Whatever is replaced between passes. *)

\* What is on the chain up to here stays there for the pass.
Firm(h) == h < StartBlock \/ (h <= Len(chain) /\ Settled(h))

StoredUpTo(h) == {e \in events : e.height <= h}

\* A recorded hash that is still the chain's vouches for the events below it.
HashesVouch ==
    \A h \in DOMAIN blocks :
        blocks[h] = HashAt(h) /\ (pc = "dropBlocks" => h <= cursor) =>
            StoredUpTo(h) = EventsUpTo(h)

StoredIsChains ==
    /\ \A e \in events : e.height >= StartBlock
    /\ pc = "dropEvents" => Firm(cursor) /\ StoredUpTo(cursor) = EventsUpTo(cursor)
    /\ pc \in {"dropBlocks", "rewind", "range"} \cup Reading =>
          Firm(cursor) /\ events = EventsUpTo(cursor)
    /\ pc \in {"prune"} \cup Reading \cup Storing => Firm(toBlock)
    /\ pc \in {"prune"} \cup Storing => events = EventsUpTo(toBlock)
    /\ pc = "prune" => checkpoint = toBlock
    /\ pc = "idle" /\ undisturbed => Firm(checkpoint) /\ events = EventsUpTo(checkpoint)

\* The newest recorded block is that of the checkpoint.
NewestRecorded(h) ==
    /\ h >= StartBlock => h \in DOMAIN blocks
    /\ \A k \in DOMAIN blocks : k <= h

CheckpointRecorded ==
    /\ pc \in {"idle", "compare"} =>
          NewestRecorded(checkpoint) /\ \A e \in events : e.height <= checkpoint
    /\ pc = "compare" /\ ~diverged => checkpoint \in walk
    /\ pc \in Rewinding => cursor <= checkpoint
    /\ pc \in {"dropEvents", "dropBlocks"} /\ cursor >= StartBlock => cursor \in DOMAIN blocks
    /\ pc \in {"rewind", "range"} \cup Reading => NewestRecorded(cursor)
    /\ pc \in {"attach", "refresh", "record"} => \A k \in DOMAIN blocks : k <= toBlock
    /\ pc \in {"save", "prune"} => NewestRecorded(toBlock)

\* A market with a stored event is watched.
StoredIsWatched ==
    /\ \A e \in events : e.height <= checkpoint => rows[e.tx.market] # {}
    /\ pc \in {"refresh", "record", "save"} =>
          \A e \in batch : \/ rows[e.tx.market] # {}
                           \/ pc = "refresh" /\ e.tx.market \in pending

Trustworthy ==
    /\ HashesVouch /\ StoredIsChains /\ CheckpointRecorded
    /\ BatchIsRange /\ StoredIsWatched

RepairInv == ~blind => Trustworthy

-----------------------------------------------------------------------------
(* Extrema. *)

LEMMA MaxOfTwo ==
    ASSUME NEW a \in Int, NEW b \in Int
    PROVE  /\ Max({a, b}) \in {a, b}
           /\ a <= Max({a, b}) /\ b <= Max({a, b})
PROOF
<1>1. \E m \in {a, b} : \A y \in {a, b} : m >= y
    <2>1. CASE a >= b
        BY <2>1
    <2>2. CASE b >= a
        BY <2>2
    <2> QED
        BY <2>1, <2>2
<1>2. Max({a, b}) \in {a, b} /\ \A y \in {a, b} : Max({a, b}) >= y
    BY <1>1 DEF Max
<1> QED
    BY <1>2

LEMMA MinOfTwo ==
    ASSUME NEW a \in Int, NEW b \in Int
    PROVE  /\ Min({a, b}) \in {a, b}
           /\ Min({a, b}) <= a /\ Min({a, b}) <= b
PROOF
<1>1. \E m \in {a, b} : \A y \in {a, b} : m <= y
    <2>1. CASE a <= b
        BY <2>1
    <2>2. CASE b <= a
        BY <2>2
    <2> QED
        BY <2>1, <2>2
<1>2. Min({a, b}) \in {a, b} /\ \A y \in {a, b} : Min({a, b}) <= y
    BY <1>1 DEF Min
<1> QED
    BY <1>2

LEMMA MaxOfBounded ==
    ASSUME NEW S \in SUBSET Nat, S # {}, NEW n \in Nat, \A x \in S : x <= n
    PROVE  Max(S) \in S /\ \A x \in S : x <= Max(S)
PROOF
<1>1. S \subseteq 0 .. n
    OBVIOUS
<1>2. IsFiniteSet(0 .. n)
    BY FS_Interval
<1>3. IsFiniteSet(S)
    BY <1>1, <1>2, FS_Subset
<1>4. S \in SUBSET Int
    OBVIOUS
<1>5. \E m \in S : \A k \in S : k <= m
    BY <1>3, <1>4, FiniteExtremes
<1>6. \E m \in S : \A k \in S : m >= k
    BY <1>4, <1>5
<1>7. Max(S) \in S /\ \A k \in S : Max(S) >= k
    BY <1>6 DEF Max
<1> QED
    BY <1>4, <1>7

-----------------------------------------------------------------------------
(* The events of a range of blocks. *)

EventAt(h) == [tx |-> chain[h].tx, height |-> h, hash |-> chain[h].hash]

LEMMA ChainTyped ==
    ASSUME ChainOK
    PROVE  /\ Len(chain) \in Nat
           /\ \A h \in 1 .. Len(chain) : chain[h] \in Block
           /\ \A h \in 1 .. Len(chain) : chain[h].tx \in Txs \cup {NoTx}
PROOF
<1>1. chain \in Seq(Block)
    BY DEF ChainOK
<1>2. Len(chain) \in Nat /\ \A h \in 1 .. Len(chain) : chain[h] \in Block
    BY <1>1, LenProperties, ElementOfSeq
<1> QED
    BY <1>2 DEF Block

LEMMA LogsAreEvents ==
    ASSUME ChainOK, NEW lo \in Nat \ {0}, NEW hi \in Nat, NEW e \in LogsIn(lo, hi)
    PROVE  /\ e \in Event /\ e.tx \in Txs
           /\ e.height \in lo .. hi
           /\ e.height \in 1 .. Len(chain)
           /\ e.height >= StartBlock
           /\ chain[e.height].tx = e.tx /\ chain[e.height].tx # NoTx
           /\ e = EventAt(e.height)
PROOF
<1>1. PICK h \in lo .. hi : /\ h <= Len(chain) /\ chain[h].tx # NoTx
                            /\ e = [tx |-> chain[h].tx, height |-> h, hash |-> chain[h].hash]
    BY DEF LogsIn
<1>2. h \in 1 .. Len(chain)
    BY <1>1, ChainTyped
<1>3. chain[h].tx \in Txs /\ chain[h].hash \in Nat
    BY <1>1, <1>2, ChainTyped DEF Block
<1>4. chain[h].tx # NoTx => h >= StartBlock
    BY <1>2 DEF ChainOK
<1>5. e.tx = chain[h].tx /\ e.height = h /\ e \in Event
    BY <1>1, <1>3 DEF Event
<1> QED
    BY <1>1, <1>2, <1>3, <1>4, <1>5 DEF EventAt

LEMMA LogsHold ==
    ASSUME NEW lo, NEW hi, NEW h \in lo .. hi, h <= Len(chain), chain[h].tx # NoTx
    PROVE  EventAt(h) \in LogsIn(lo, hi)
PROOF
    BY DEF LogsIn, EventAt

\* A transaction is mined once: it is one event.
LEMMA OneEventPerTx ==
    ASSUME ChainOK, NEW m \in Nat, NEW n \in Nat,
           NEW e \in LogsIn(1, m), NEW f \in LogsIn(1, n), e.tx = f.tx
    PROVE  e = f
PROOF
<1>1. /\ e.height \in 1 .. Len(chain) /\ f.height \in 1 .. Len(chain)
      /\ chain[e.height].tx = e.tx /\ chain[f.height].tx = f.tx /\ chain[e.height].tx # NoTx
      /\ e = EventAt(e.height) /\ f = EventAt(f.height)
    BY LogsAreEvents
<1>2. e.height = f.height
    BY <1>1 DEF ChainOK
<1> QED
    BY <1>1, <1>2

LEMMA LogsSplit ==
    ASSUME ChainOK, NEW c \in Nat, NEW d \in Nat, c <= d
    PROVE  /\ LogsIn(1, d) = LogsIn(1, c) \cup LogsIn(c + 1, d)
           /\ LogsIn(1, c) = {e \in LogsIn(1, d) : e.height <= c}
PROOF
<1>1. ASSUME NEW e \in LogsIn(1, d), e.height <= c
      PROVE  e \in LogsIn(1, c)
    <2>1. /\ e.height \in 1 .. c /\ e.height <= Len(chain)
          /\ chain[e.height].tx # NoTx /\ e = EventAt(e.height)
        BY <1>1, LogsAreEvents
    <2> QED
        BY <2>1, LogsHold
<1>2. ASSUME NEW e \in LogsIn(1, d), ~(e.height <= c)
      PROVE  e \in LogsIn(c + 1, d)
    <2>1. /\ e.height \in c + 1 .. d /\ e.height <= Len(chain)
          /\ chain[e.height].tx # NoTx /\ e = EventAt(e.height)
        BY <1>2, LogsAreEvents
    <2> QED
        BY <2>1, LogsHold
<1>3. ASSUME NEW e \in LogsIn(1, c)
      PROVE  e \in LogsIn(1, d) /\ e.height <= c
    <2>1. /\ e.height \in 1 .. c /\ e.height \in 1 .. d /\ e.height <= Len(chain)
          /\ chain[e.height].tx # NoTx /\ e = EventAt(e.height)
        BY <1>3, LogsAreEvents
    <2> QED
        BY <2>1, LogsHold
<1>4. ASSUME NEW e \in LogsIn(c + 1, d)
      PROVE  e \in LogsIn(1, d)
    <2>1. /\ e.height \in 1 .. d /\ e.height <= Len(chain)
          /\ chain[e.height].tx # NoTx /\ e = EventAt(e.height)
        BY <1>4, LogsAreEvents
    <2> QED
        BY <2>1, LogsHold
<1> QED
    BY <1>1, <1>2, <1>3, <1>4

\* Nothing happens to a market before the factory is deployed.
LEMMA NoLogsBeforeStart ==
    ASSUME ChainOK, NEW hi \in Nat, hi < StartBlock
    PROVE  LogsIn(1, hi) = {}
PROOF
<1>1. ASSUME NEW e \in LogsIn(1, hi)
      PROVE  FALSE
    <2>1. e.height \in 1 .. hi /\ e.height >= StartBlock
        BY LogsAreEvents
    <2> QED
        BY <2>1, IndexerAssumption
<1> QED
    BY <1>1

\* The watch set, the markets already known and those created in the range,
\* covers every transaction of the range.
LEMMA WatchedLogsAreAll ==
    ASSUME ChainOK, NEW lo \in Nat \ {0}, NEW hi \in Nat, NEW addresses,
           \A e \in FactoryLogs(lo, hi) : e.tx.market \in addresses,
           \A e \in LogsIn(1, lo - 1) : e.tx.market \in addresses
    PROVE  FactoryLogs(lo, hi) \cup MarketLogs(addresses, lo, hi) = LogsIn(lo, hi)
PROOF
<1>1. ASSUME NEW e \in LogsIn(lo, hi), e.tx.nth # 0
      PROVE  e.tx.nth > 0 /\ e.tx.market \in addresses
    <2>1. /\ e.tx \in Txs /\ e.height \in 1 .. Len(chain) /\ e.height \in lo .. hi
          /\ chain[e.height].tx = e.tx /\ chain[e.height].tx # NoTx
        BY LogsAreEvents
    <2>2. e.tx.nth > 0
        BY <1>1, <2>1, IndexerAssumption DEF Txs
    <2>3. PICK k \in 1 .. Len(chain) : /\ k < e.height /\ chain[k].tx # NoTx
                                       /\ chain[k].tx.nth = 0
                                       /\ chain[k].tx.market = e.tx.market
        <3>1. chain[e.height].tx # NoTx /\ chain[e.height].tx.nth > 0
            BY <2>1, <2>2
        <3>2. \E k \in 1 .. Len(chain) : /\ k < e.height /\ chain[k].tx # NoTx
                                        /\ chain[k].tx.nth = 0
                                        /\ chain[k].tx.market = chain[e.height].tx.market
            BY <2>1, <3>1 DEF ChainOK
        <3> QED
            BY <2>1, <3>2
    <2>4. EventAt(k).tx.nth = 0 /\ EventAt(k).tx.market = e.tx.market
        BY <2>3 DEF EventAt
    <2>5. CASE k >= lo
        <3>1. EventAt(k) \in LogsIn(lo, hi)
            BY <2>1, <2>3, <2>5, LogsHold
        <3> QED
            BY <2>2, <2>4, <3>1 DEF FactoryLogs
    <2>6. CASE k < lo
        <3>1. EventAt(k) \in LogsIn(1, lo - 1)
            BY <2>3, <2>6, LogsHold
        <3> QED
            BY <2>2, <2>4, <3>1
    <2> QED
        BY <2>1, <2>3, <2>5, <2>6
<1> QED
    BY <1>1 DEF FactoryLogs, MarketLogs

-----------------------------------------------------------------------------
(* The chain grows at its end, and is cut and grows again. *)

\* Up to n the chain is the same before and after a step.
SameUpTo(n) ==
    /\ n <= Len(chain) /\ n <= Len(chain')
    /\ \A h \in 1 .. n : chain'[h] = chain[h]

LEMMA LogsStay ==
    ASSUME ChainOK, ChainOK', NEW n \in Nat, n < StartBlock \/ SameUpTo(n)
    PROVE  /\ LogsIn(1, n)' = LogsIn(1, n)
           /\ \A lo \in Nat \ {0} : LogsIn(lo, n)' = LogsIn(lo, n)
           /\ \A lo \in Nat \ {0} : FactoryLogs(lo, n)' = FactoryLogs(lo, n)
PROOF
<1>1. ASSUME NEW lo \in Nat \ {0}
      PROVE  LogsIn(lo, n)' = LogsIn(lo, n)
    <2> DEFINE Here  == {k \in lo .. n : k <= Len(chain) /\ chain[k].tx # NoTx}
               There == {k \in lo .. n : k <= Len(chain') /\ chain'[k].tx # NoTx}
    <2>1. CASE n < StartBlock
        <3>1. \A k \in lo .. n : k \in Nat \ {0} /\ k < StartBlock
            BY <2>1, IndexerAssumption
        <3>2. Here = {}
            <4>1. \A k \in 1 .. Len(chain) : chain[k].tx # NoTx => k >= StartBlock
                BY DEF ChainOK
            <4>2. ASSUME NEW k \in lo .. n, k <= Len(chain), chain[k].tx # NoTx
                  PROVE  FALSE
                <5>1. k \in 1 .. Len(chain) /\ k < StartBlock
                    BY <3>1, <4>2, ChainTyped
                <5> QED
                    BY <4>1, <4>2, <5>1, IndexerAssumption
            <4> QED
                BY <4>2
        <3>3. There = {}
            <4>1. /\ chain' \in Seq(Block)'
                  /\ \A k \in 1 .. Len(chain') : chain'[k].tx # NoTx => k >= StartBlock
                BY DEF ChainOK
            <4>2. Len(chain') \in Nat
                BY <4>1, LenProperties
            <4> QED
                BY <3>1, <4>1, <4>2, IndexerAssumption
        <3> QED
            BY <3>2, <3>3 DEF LogsIn
    <2>2. CASE SameUpTo(n)
        <3>1. \A k \in lo .. n : /\ k <= Len(chain) /\ k <= Len(chain')
                                 /\ chain'[k] = chain[k]
            BY <2>2, ChainTyped DEF SameUpTo
        <3>2. Here = There
            BY <3>1
        <3>3. \A k \in Here : [tx |-> chain'[k].tx, height |-> k, hash |-> chain'[k].hash]
                              = [tx |-> chain[k].tx, height |-> k, hash |-> chain[k].hash]
            BY <3>1
        <3> QED
            BY <3>2, <3>3 DEF LogsIn
    <2> QED
        BY <2>1, <2>2
<1>2. ASSUME NEW lo \in Nat \ {0}
      PROVE  FactoryLogs(lo, n)' = FactoryLogs(lo, n)
    BY <1>1 DEF FactoryLogs
<1> QED
    BY <1>1, <1>2

\* Membership of the transactions on the chain.
LEMMA OnChain ==
    ASSUME ChainOK, NEW t, t \in TxsOnChain
    PROVE  \E h \in 1 .. Len(chain) : chain[h].tx = t /\ t # NoTx
PROOF
    BY DEF TxsOnChain

LEMMA ExistsMeansCreated ==
    ASSUME ChainOK, NEW m \in Markets, Exists(m)
    PROVE  \E k \in 1 .. Len(chain) : /\ chain[k].tx # NoTx
                                      /\ chain[k].tx.nth = 0 /\ chain[k].tx.market = m
PROOF
<1>1. PICK h \in 1 .. Len(chain) : chain[h].tx # NoTx /\ chain[h].tx.market = m
    BY OnChain DEF Exists, ContractState
<1>2. chain[h].tx \in Txs
    BY <1>1, ChainTyped
<1>3. chain[h].tx.nth = 0 \/ chain[h].tx.nth > 0
    BY <1>2, IndexerAssumption DEF Txs
<1> QED
    BY <1>1, <1>3 DEF ChainOK

LEMMA MineStep ==
    ASSUME ChainOK, NEW t \in Txs \cup {NoTx}, Mine(t)
    PROVE  /\ ChainOK'
           /\ Len(chain') = Len(chain) + 1
           /\ \A h \in 1 .. Len(chain) : chain'[h] = chain[h]
           /\ chain'[Len(chain) + 1].hash = mined + 1
           /\ mined' = mined + 1 /\ peak <= peak'
PROOF
<1> DEFINE n == Len(chain)
           new == [hash |-> mined + 1, tx |-> t]
<1>1. n \in Nat /\ mined \in Nat /\ peak \in Nat /\ n <= peak /\ chain \in Seq(Block)
    BY ChainTyped DEF ChainOK
<1>2. new \in Block
    BY <1>1 DEF Block
<1>3. /\ chain' = Append(chain, new) /\ mined' = mined + 1
      /\ peak' = Max({peak, Len(chain')})
    BY DEF Mine
<1>4. /\ chain' \in Seq(Block) /\ Len(chain') = n + 1
      /\ \A h \in 1 .. n : chain'[h] = chain[h]
      /\ chain'[n + 1] = new
    BY <1>1, <1>2, <1>3, AppendProperties
<1>5. peak' \in Nat /\ peak <= peak' /\ Len(chain') <= peak'
    <2>1. peak' = Max({peak, n + 1}) /\ peak \in Int /\ n + 1 \in Int
        BY <1>1, <1>3, <1>4
    <2>2. /\ Max({peak, n + 1}) \in {peak, n + 1}
          /\ peak <= Max({peak, n + 1}) /\ n + 1 <= Max({peak, n + 1})
        BY <2>1, MaxOfTwo
    <2> QED
        BY <1>1, <1>4, <2>1, <2>2
<1>6. \A h \in 1 .. Len(chain') : h = n + 1 \/ h \in 1 .. n
    BY <1>1, <1>4
<1>7. new.hash = mined + 1 /\ new.tx = t
    OBVIOUS
<1>8. t # NoTx => n + 1 >= StartBlock /\ t \in Txs \ TxsOnChain /\ (t.nth = 0 \/ Exists(t.market))
    BY DEF Mine, Minable
<1> HIDE DEF new
<1>9. \A h \in 1 .. n : chain[h].tx # NoTx => chain[h].tx \in TxsOnChain
    BY DEF TxsOnChain
<1> HIDE DEF n
<1>10. \A h \in 1 .. n : chain[h].hash \in 1 .. mined /\ (chain[h].tx # NoTx => h >= StartBlock)
    BY DEF ChainOK, n
<1>11. \A h \in 1 .. Len(chain') : chain'[h].hash \in 1 .. mined'
    BY <1>1, <1>3, <1>4, <1>6, <1>7, <1>10
<1>12. \A h \in 1 .. Len(chain') : chain'[h].tx # NoTx => h >= StartBlock
    BY <1>4, <1>6, <1>7, <1>8, <1>10
<1>13. \A h, k \in 1 .. Len(chain') : chain'[h].tx # NoTx /\ chain'[h].tx = chain'[k].tx => h = k
    <2>1. \A h, k \in 1 .. n : chain[h].tx # NoTx /\ chain[h].tx = chain[k].tx => h = k
        BY DEF ChainOK, n
    <2>2. \A h \in 1 .. n : chain[h].tx # NoTx => chain[h].tx # t
        BY <1>8, <1>9
    <2> QED
        BY <1>4, <1>6, <1>7, <2>1, <2>2
<1>14. ASSUME NEW h \in 1 .. Len(chain'), chain'[h].tx # NoTx, chain'[h].tx.nth > 0
       PROVE  \E k \in 1 .. Len(chain') :
                  /\ k < h /\ chain'[k].tx # NoTx
                  /\ chain'[k].tx.nth = 0 /\ chain'[k].tx.market = chain'[h].tx.market
    <2>1. CASE h \in 1 .. n
        <3>1. chain'[h] = chain[h]
            BY <1>4, <2>1
        <3>2. PICK k \in 1 .. n : /\ k < h /\ chain[k].tx # NoTx
                                  /\ chain[k].tx.nth = 0 /\ chain[k].tx.market = chain[h].tx.market
            BY <1>14, <2>1, <3>1 DEF ChainOK, n
        <3> QED
            BY <1>1, <1>4, <3>1, <3>2
    <2>2. CASE h = n + 1
        <3>1. t # NoTx /\ t.nth > 0 /\ chain'[h].tx = t
            BY <1>4, <1>7, <1>14, <2>2
        <3>2. t \in Txs /\ t.market \in Markets /\ Exists(t.market)
            BY <1>8, <3>1 DEF Txs
        <3>3. PICK k \in 1 .. n : /\ chain[k].tx # NoTx
                                  /\ chain[k].tx.nth = 0 /\ chain[k].tx.market = t.market
            BY <3>2, ExistsMeansCreated DEF n
        <3> QED
            BY <1>1, <1>4, <2>2, <3>1, <3>3
    <2> QED
        BY <1>6, <2>1, <2>2
<1>15. ChainOK'
    BY <1>1, <1>3, <1>4, <1>5, <1>11, <1>12, <1>13, <1>14 DEF ChainOK, Block
<1> QED
    BY <1>3, <1>4, <1>5, <1>7, <1>15 DEF n

LEMMA ReorgStep ==
    ASSUME ChainOK, NEW n \in 0 .. MaxMined, Reorg(n)
    PROVE  /\ ChainOK'
           /\ Len(chain') = n /\ n < Len(chain)
           /\ \A h \in 1 .. n : chain'[h] = chain[h]
           /\ mined' = mined /\ peak' = peak
PROOF
<1>1. Len(chain) \in Nat /\ n \in Nat /\ \A h \in 1 .. Len(chain) : chain[h] \in Block
    BY ChainTyped, IndexerAssumption
<1>2. /\ chain' = SubSeq(chain, 1, n) /\ n < Len(chain)
      /\ mined' = mined /\ peak' = peak
    BY DEF Reorg
<1>3. \A h \in 1 .. n : chain[h] \in Block
    BY <1>1, <1>2
<1>4. /\ SubSeq(chain, 1, n) \in Seq(Block)
      /\ Len(SubSeq(chain, 1, n)) = IF 1 <= n THEN n - 1 + 1 ELSE 0
      /\ \A h \in 1 .. n - 1 + 1 : SubSeq(chain, 1, n)[h] = chain[1 + h - 1]
    BY <1>1, <1>3, SubSeqProperties
<1>5. chain' \in Seq(Block) /\ Len(chain') = n /\ \A h \in 1 .. n : chain'[h] = chain[h]
    BY <1>1, <1>2, <1>4
<1>6. \A h \in 1 .. n : h \in 1 .. Len(chain)
    BY <1>1, <1>2
<1>7. ASSUME NEW h \in 1 .. n, chain'[h].tx # NoTx, chain'[h].tx.nth > 0
      PROVE  \E k \in 1 .. n :
                 /\ k < h /\ chain'[k].tx # NoTx
                 /\ chain'[k].tx.nth = 0 /\ chain'[k].tx.market = chain'[h].tx.market
    <2>1. chain'[h] = chain[h] /\ h \in 1 .. Len(chain)
        BY <1>5, <1>6
    <2>2. PICK k \in 1 .. Len(chain) : /\ k < h /\ chain[k].tx # NoTx
                                       /\ chain[k].tx.nth = 0
                                       /\ chain[k].tx.market = chain[h].tx.market
        BY <1>7, <2>1 DEF ChainOK
    <2>3. k \in 1 .. n
        BY <1>1, <2>2
    <2> QED
        BY <1>5, <2>1, <2>2, <2>3
<1>8. \A h \in 1 .. n : chain'[h].hash \in 1 .. mined /\ (chain'[h].tx # NoTx => h >= StartBlock)
    BY <1>5, <1>6 DEF ChainOK
<1>9. \A h, k \in 1 .. n : chain'[h].tx # NoTx /\ chain'[h].tx = chain'[k].tx => h = k
    BY <1>5, <1>6 DEF ChainOK
<1>10. mined \in Nat /\ peak \in Nat /\ n <= peak
    BY <1>1, <1>2 DEF ChainOK
<1>11. ChainOK'
    BY <1>2, <1>5, <1>7, <1>8, <1>9, <1>10 DEF ChainOK, Block
<1> QED
    BY <1>2, <1>5, <1>11

-----------------------------------------------------------------------------
(* The chain, the tables and a pass keep their shape. *)

LEMMA ChainStays ==
    ASSUME ChainOK, [Next]_vars
    PROVE  ChainOK'
PROOF
<1>1. CASE UNCHANGED chainVars
    BY <1>1 DEF ChainOK, chainVars, Block, Txs
<1>2. ASSUME PassStep \/ Abandon
      PROVE  UNCHANGED chainVars
    BY <1>2 DEF PassStep, Abandon, envVars, Start, DropEvents, DropBlocks, Rewind, ChooseRange,
        ReadFactory, ReadMarkets, Persist, AttachDone, RefreshDone, Save, Prune, Compare,
        RecordBlock, Attach, Refresh, RefreshFails
<1>3. CASE UNCHANGED vars
    BY <1>1, <1>3 DEF vars, envVars
<1> QED
    BY <1>1, <1>2, <1>3, MineStep, ReorgStep DEF Next

\* Recorded and chosen heights are between the factory's block and the safe head.
LEMMA RangeChosen ==
    ASSUME ChainOK, PassOK, pc = "range", ~NothingToRead(cursor + 1, SafeHead)
    PROVE  LET to == Min({cursor + MaxBlocksPerPass, SafeHead}) IN
           to \in Nat /\ cursor < to /\ Settled(to) /\ to <= Len(chain)
PROOF
<1>1. /\ Len(chain) \in Nat /\ cursor \in Nat /\ peak \in Nat /\ Len(chain) <= peak
      /\ Confirmations \in Nat /\ MaxBlocksPerPass \in Nat /\ MaxBlocksPerPass >= 1
    BY ChainTyped, IndexerAssumption DEF ChainOK, PassOK
<1>2. SafeHead \in Nat /\ cursor + 1 <= SafeHead
    BY <1>1 DEF NothingToRead, SafeHead
<1>3. SafeHead + Confirmations = Len(chain)
    BY <1>1, <1>2 DEF SafeHead
<1>4. cursor + MaxBlocksPerPass \in Int /\ SafeHead \in Int
    BY <1>1, <1>2
<1>5. /\ Min({cursor + MaxBlocksPerPass, SafeHead}) \in {cursor + MaxBlocksPerPass, SafeHead}
      /\ Min({cursor + MaxBlocksPerPass, SafeHead}) <= SafeHead
    BY <1>4, MinOfTwo
<1> DEFINE to == Min({cursor + MaxBlocksPerPass, SafeHead})
<1>6. to \in {cursor + MaxBlocksPerPass, SafeHead} /\ to <= SafeHead
    BY <1>5
<1> HIDE DEF to
<1>7. to \in Nat /\ cursor < to /\ to <= Len(chain) /\ to + Confirmations <= peak
    BY <1>1, <1>2, <1>3, <1>6
<1> QED
    BY <1>7 DEF to, Settled

LEMMA RecordFromIsInRange ==
    ASSUME PassOK, pc = "refresh"
    PROVE  RecordFrom \in cursor + 1 .. toBlock /\ RecordFrom \in Nat
PROOF
<1>1. /\ cursor \in Nat /\ toBlock \in Nat /\ cursor < toBlock /\ ReorgWindow \in Nat
    BY IndexerAssumption DEF PassOK, Storing
<1>2. toBlock - ReorgWindow \in Int /\ cursor + 1 \in Int
    BY <1>1
<1>3. /\ RecordFrom \in {toBlock - ReorgWindow, cursor + 1}
      /\ cursor + 1 <= RecordFrom
    BY <1>2, MaxOfTwo DEF RecordFrom
<1> QED
    BY <1>1, <1>3

LEMMA WalkTyped ==
    ASSUME ChainOK, TablesOK, PassOK, pc = "compare"
    PROVE  /\ Max(walk) \in walk /\ Max(walk) \in DOMAIN blocks
           /\ Max(walk) \in Nat /\ Max(walk) >= StartBlock /\ Settled(Max(walk))
           /\ \A h \in walk : h <= Max(walk)
PROOF
<1>1. /\ walk # {} /\ walk \subseteq DOMAIN blocks /\ DOMAIN blocks \subseteq Nat
      /\ peak \in Nat /\ Confirmations \in Nat
    BY IndexerAssumption DEF ChainOK, TablesOK, PassOK
<1>2. \A h \in walk : h <= peak
    <2>1. ASSUME NEW h \in walk
          PROVE  h <= peak
        <3>1. h \in Nat /\ h + Confirmations <= peak
            BY <1>1 DEF TablesOK, Settled
        <3> QED
            BY <1>1, <3>1
    <2> QED
        BY <2>1
<1>3. walk \in SUBSET Nat
    BY <1>1
<1>4. Max(walk) \in walk /\ \A h \in walk : h <= Max(walk)
    BY <1>1, <1>2, <1>3, MaxOfBounded
<1> QED
    BY <1>1, <1>4 DEF TablesOK

Shape == ChainOK /\ TablesOK /\ PassOK

LEMMA ShapeInit == Init => Shape
PROOF
<1>1. ASSUME Init
      PROVE  ChainOK
    BY <1>1, EmptySeq DEF Init, ChainOK
<1>2. ASSUME Init
      PROVE  TablesOK /\ PassOK
    <2>1. StartBlock - 1 \in Nat /\ (StartBlock - 1) + 1 >= StartBlock
        BY IndexerAssumption
    <2>2. checkpoint = StartBlock - 1 /\ events = {} /\ attached = {} /\ rows = [m \in Markets |-> {}]
        BY <1>2 DEF Init
    <2>3. blocks = <<>>
        BY <1>2 DEF Init
    <2>4. DOMAIN blocks = {}
        BY <2>3
    <2>5. TablesOK
        BY <2>1, <2>2, <2>4 DEF TablesOK
    <2>6. PassOK
        BY <1>2 DEF Init, PassOK, Storing, Reading, Rewinding
    <2> QED
        BY <2>5, <2>6
<1> QED
    BY <1>1, <1>2 DEF Shape

LEMMA EnvironmentKeepsShape ==
    ASSUME ChainOK, TablesOK, PassOK,
           \/ \E t \in Txs \cup {NoTx} : Mine(t)
           \/ \E n \in 0 .. MaxMined : Reorg(n)
    PROVE  TablesOK' /\ PassOK'
PROOF
<1>1. /\ peak \in Nat /\ mined \in Nat /\ peak' \in Nat /\ peak <= peak' /\ mined <= mined'
      /\ mined' \in Nat /\ Confirmations \in Nat
    BY MineStep, ReorgStep, IndexerAssumption DEF ChainOK
<1>2. /\ UNCHANGED <<logVars, cacheVars, pc, passVars>>
      /\ undisturbed' \in {undisturbed, FALSE}
      /\ blind' \in BOOLEAN
    BY DEF Mine, Reorg, PassOK
<1>3. \A h \in Nat : Settled(h) => Settled(h)'
    BY <1>1 DEF Settled
<1>4. TablesOK'
    <2>1. /\ checkpoint' = checkpoint /\ blocks' = blocks /\ events' = events
          /\ rows' = rows /\ attached' = attached
        BY <1>2 DEF logVars, cacheVars
    <2>2. \A h \in DOMAIN blocks : h >= StartBlock /\ Settled(h)' /\ blocks[h] \in 1 .. mined'
        BY <1>1, <1>3 DEF TablesOK
    <2> QED
        BY <2>1, <2>2 DEF TablesOK, Event, Txs
<1>5. PassOK'
    BY <1>2, <1>3 DEF PassOK, passVars, logVars, Storing, Reading, Rewinding, Event, Txs
<1> QED
    BY <1>4, <1>5

\* The pass ends, or is abandoned.
LEMMA IdleKeepsShape ==
    ASSUME ChainOK, TablesOK, PassOK,
           \/ Abandon \/ Prune
           \/ \E m \in Markets : RefreshFails(m)
           \/ ChooseRange /\ NothingToRead(cursor + 1, SafeHead)
    PROVE  TablesOK' /\ PassOK'
PROOF
<1>1. Idle /\ UNCHANGED <<chainVars, events, checkpoint, cacheVars>>
      /\ blind' \in BOOLEAN /\ undisturbed' \in BOOLEAN
    BY DEF Abandon, Prune, RefreshFails, ChooseRange, logVars, envVars, PassOK
<1>2. /\ DOMAIN blocks' \subseteq DOMAIN blocks
      /\ \A h \in DOMAIN blocks' : blocks'[h] = blocks[h]
    BY DEF Abandon, Prune, RefreshFails, ChooseRange, logVars, Restrict
<1>3. TablesOK'
    BY <1>1, <1>2 DEF TablesOK, chainVars, cacheVars, Settled, Event, Txs
<1>4. PassOK'
    BY <1>1 DEF PassOK, Idle, Storing, Reading, Rewinding
<1> QED
    BY <1>3, <1>4

LEMMA WalkKeepsShape ==
    ASSUME ChainOK, TablesOK, PassOK,
           \/ Start \/ DropEvents \/ DropBlocks \/ Rewind
           \/ \E answer \in NoHash .. MaxMined : Compare(answer)
    PROVE  TablesOK' /\ PassOK'
PROOF
<1>0. StartBlock \in Nat /\ StartBlock >= 1
    BY IndexerAssumption
<1>1. CASE Start
    <2>1. Recorded \subseteq DOMAIN blocks
        BY DEF Recorded
    <2>2. TablesOK'
        BY <1>1 DEF Start, TablesOK, chainVars, logVars, cacheVars, Settled, Event, Txs
    <2>3. PassOK'
        BY <1>1, <2>1 DEF Start, PassOK, TablesOK, chainVars, logVars, Storing, Reading, Rewinding,
            Event, Txs
    <2> QED
        BY <2>2, <2>3
<1>2. CASE DropEvents
    <2>1. TablesOK'
        BY <1>2 DEF DropEvents, TablesOK, envVars, chainVars, cacheVars, Settled, Event, Txs
    <2>2. PassOK'
        BY <1>2 DEF DropEvents, PassOK, envVars, chainVars, passVars, Storing, Reading, Rewinding,
            Event, Txs
    <2> QED
        BY <2>1, <2>2
<1>3. CASE DropBlocks
    <2>1. TablesOK'
        BY <1>3 DEF DropBlocks, TablesOK, envVars, chainVars, cacheVars, Settled, Event, Txs, Restrict
    <2>2. PassOK'
        BY <1>3 DEF DropBlocks, PassOK, envVars, chainVars, passVars, Storing, Reading, Rewinding,
            Event, Txs, Restrict
    <2> QED
        BY <2>1, <2>2
<1>4. CASE Rewind
    <2>1. TablesOK'
        BY <1>4 DEF Rewind, TablesOK, PassOK, envVars, chainVars, cacheVars, Settled, Event, Txs
    <2>2. PassOK'
        BY <1>4 DEF Rewind, PassOK, envVars, chainVars, passVars, Storing, Reading, Rewinding,
            Event, Txs
    <2> QED
        BY <2>1, <2>2
<1>5. ASSUME NEW answer \in NoHash .. MaxMined, Compare(answer)
      PROVE  TablesOK' /\ PassOK'
    <2>1. /\ Max(walk) \in walk /\ Max(walk) \in Nat /\ Max(walk) >= StartBlock
          /\ walk # {} /\ walk \subseteq DOMAIN blocks /\ cursor = checkpoint
        BY <1>5, WalkTyped DEF Compare, PassOK
    <2>2. TablesOK'
        BY <1>5 DEF Compare, TablesOK, chainVars, logVars, cacheVars, Settled, Event, Txs
    <2>3. /\ UNCHANGED <<chainVars, undisturbed, blind, logVars, toBlock, batch, pending, height>>
          /\ walk' \subseteq walk
          /\ diverged' \in BOOLEAN
          /\ \/ walk' # {} /\ pc' = "compare" /\ cursor' = cursor
             \/ walk' = {} /\ pc' = "range" /\ cursor' = cursor
             \/ walk' = {} /\ pc' = "dropEvents" /\ cursor' \in {Max(walk), StartBlock - 1}
        BY <1>5 DEF Compare, RewindTo, PassOK
    <2>4. cursor' \in Nat /\ cursor' + 1 >= StartBlock
        BY <1>0, <2>1, <2>3 DEF TablesOK
    <2>5. walk' \subseteq DOMAIN blocks'
        BY <2>1, <2>3 DEF logVars
    <2>6. PassOK'
        BY <2>1, <2>3, <2>4, <2>5 DEF PassOK, logVars, Storing, Reading, Rewinding, Event, Txs
    <2> QED
        BY <2>2, <2>6
<1> QED
    BY <1>1, <1>2, <1>3, <1>4, <1>5

LEMMA ReadingKeepsShape ==
    ASSUME ChainOK, TablesOK, PassOK,
           \/ ChooseRange /\ ~NothingToRead(cursor + 1, SafeHead)
           \/ ReadFactory \/ ReadMarkets \/ Persist
    PROVE  TablesOK' /\ PassOK'
PROOF
<1>0. pc \in Reading => cursor + 1 \in Nat \ {0} /\ toBlock \in Nat
    BY DEF PassOK
<1>1. CASE ChooseRange /\ ~NothingToRead(cursor + 1, SafeHead)
    <2>1. /\ toBlock' \in Nat /\ cursor < toBlock' /\ Settled(toBlock')
          /\ pc = "range" /\ pc' = "readFactory"
          /\ UNCHANGED <<cursor, walk, diverged, batch, pending, height, envVars, logVars, cacheVars>>
        BY <1>1, RangeChosen DEF ChooseRange
    <2>2. TablesOK'
        BY <2>1 DEF TablesOK, envVars, chainVars, logVars, cacheVars, Settled, Event, Txs
    <2>3. PassOK'
        BY <2>1 DEF PassOK, envVars, chainVars, logVars, Storing, Reading, Rewinding, Settled, Event, Txs
    <2> QED
        BY <2>2, <2>3
<1>2. CASE ReadFactory
    <2>1. FactoryLogs(cursor + 1, toBlock) \subseteq Event
        BY <1>0, <1>2, LogsAreEvents DEF ReadFactory, FactoryLogs, Reading
    <2>2. TablesOK'
        BY <1>2 DEF ReadFactory, TablesOK, envVars, chainVars, logVars, cacheVars, Settled, Event, Txs
    <2>3. batch' \subseteq Event
        BY <1>2, <2>1 DEF ReadFactory
    <2>4. PassOK'
        BY <1>2, <2>3 DEF ReadFactory, PassOK, envVars, chainVars, logVars, Storing, Reading,
            Rewinding, Settled, Event, Txs
    <2> QED
        BY <2>2, <2>4
<1>3. CASE ReadMarkets
    <2>1. \A addresses : MarketLogs(addresses, cursor + 1, toBlock) \subseteq Event
        BY <1>0, <1>3, LogsAreEvents DEF ReadMarkets, MarketLogs, Reading
    <2>2. batch' \subseteq Event
        BY <1>3, <2>1 DEF ReadMarkets, PassOK
    <2>3. TablesOK'
        BY <1>3 DEF ReadMarkets, TablesOK, envVars, chainVars, logVars, cacheVars, Settled, Event, Txs
    <2>4. PassOK'
        BY <1>3, <2>2 DEF ReadMarkets, PassOK, envVars, chainVars, logVars, Storing, Reading,
            Rewinding, Settled, Event, Txs
    <2> QED
        BY <2>3, <2>4
<1>4. CASE Persist
    <2>1. events' \subseteq Event
        BY <1>4 DEF Persist, TablesOK, PassOK
    <2>2. pending' \subseteq Markets
        BY <1>4, IndexerAssumption DEF Persist, ToAttach
    <2>3. TablesOK'
        BY <1>4, <2>1 DEF Persist, TablesOK, envVars, chainVars, cacheVars, Settled, Event, Txs
    <2>4. PassOK'
        BY <1>4, <2>2 DEF Persist, PassOK, envVars, chainVars, Storing, Reading,
            Rewinding, Settled, Event, Txs
    <2> QED
        BY <2>3, <2>4
<1> QED
    BY <1>1, <1>2, <1>3, <1>4

LEMMA StoringKeepsShape ==
    ASSUME ChainOK, TablesOK, PassOK,
           \/ \E m \in Markets : Attach(m) \/ Refresh(m)
           \/ AttachDone \/ RefreshDone \/ Save
           \/ \E answer \in NoHash .. MaxMined : RecordBlock(answer)
    PROVE  TablesOK' /\ PassOK'
PROOF
<1>1. ASSUME NEW m \in Markets, Attach(m)
      PROVE  TablesOK' /\ PassOK'
    <2>1. TablesOK'
        BY <1>1 DEF Attach, TablesOK, envVars, chainVars, logVars, Settled, Event, Txs
    <2>2. PassOK'
        BY <1>1 DEF Attach, PassOK, envVars, chainVars, logVars, Storing, Reading, Rewinding,
            Settled, Event, Txs
    <2> QED
        BY <2>1, <2>2
<1>2. CASE AttachDone
    <2>1. Touched \subseteq Markets
        BY DEF Touched, PassOK, Event, Txs
    <2>2. TablesOK'
        BY <1>2 DEF AttachDone, TablesOK, envVars, chainVars, logVars, cacheVars, Settled, Event, Txs
    <2>3. PassOK'
        BY <1>2, <2>1 DEF AttachDone, PassOK, envVars, chainVars, logVars, Storing, Reading,
            Rewinding, Settled, Event, Txs
    <2> QED
        BY <2>2, <2>3
<1>3. ASSUME NEW m \in Markets, Refresh(m)
      PROVE  TablesOK' /\ PassOK'
    <2>1. ContractState(m) \subseteq Txs
        <3>1. TxsOnChain \subseteq Txs
            BY OnChain, ChainTyped
        <3> QED
            BY <3>1 DEF ContractState
    <2>2. rows' \in [Markets -> SUBSET Txs]
        BY <1>3, <2>1 DEF Refresh, TablesOK
    <2>3. TablesOK'
        BY <1>3, <2>2 DEF Refresh, TablesOK, envVars, chainVars, logVars, Settled, Event, Txs
    <2>4. PassOK'
        BY <1>3 DEF Refresh, PassOK, envVars, chainVars, logVars, Storing, Reading, Rewinding,
            Settled, Event, Txs
    <2> QED
        BY <2>3, <2>4
<1>4. CASE RefreshDone
    <2>1. height' \in cursor + 1 .. toBlock /\ height' \in Nat
        BY <1>4, RecordFromIsInRange DEF RefreshDone
    <2>2. TablesOK'
        BY <1>4 DEF RefreshDone, TablesOK, envVars, chainVars, logVars, cacheVars, Settled, Event, Txs
    <2>3. PassOK'
        BY <1>4, <2>1 DEF RefreshDone, PassOK, envVars, chainVars, logVars, Storing, Reading,
            Rewinding, Settled, Event, Txs
    <2> QED
        BY <2>2, <2>3
<1>5. CASE Save
    <2>1. toBlock \in Nat /\ toBlock + 1 >= StartBlock
        BY <1>5, IndexerAssumption DEF Save, PassOK, TablesOK, Storing
    <2>2. TablesOK'
        BY <1>5, <2>1 DEF Save, TablesOK, envVars, chainVars, cacheVars, Settled, Event, Txs
    <2>3. PassOK'
        BY <1>5 DEF Save, PassOK, envVars, chainVars, passVars, Storing, Reading, Rewinding,
            Settled, Event, Txs
    <2> QED
        BY <2>2, <2>3
<1>6. ASSUME NEW answer \in NoHash .. MaxMined, RecordBlock(answer)
      PROVE  TablesOK' /\ PassOK'
    <2>1. /\ height \in Nat /\ cursor \in Nat /\ toBlock \in Nat /\ cursor = checkpoint
          /\ height \in cursor + 1 .. toBlock /\ Settled(toBlock) /\ cursor + 1 >= StartBlock
          /\ peak \in Nat /\ Confirmations \in Nat /\ StartBlock \in Nat
        BY <1>6, IndexerAssumption DEF RecordBlock, PassOK, ChainOK, Storing
    <2>2. height >= StartBlock /\ Settled(height)
        BY <2>1 DEF Settled
    <2>3. answer = NoHash \/ answer \in 1 .. mined
        BY <1>6, <2>1, ChainTyped DEF RecordBlock, Looked, HashAt, ChainOK
    <2>4. /\ DOMAIN blocks' \subseteq DOMAIN blocks \cup {height}
          /\ DOMAIN blocks \subseteq DOMAIN blocks'
          /\ \A h \in DOMAIN blocks' : blocks'[h] = blocks[h] \/ (h = height /\ blocks'[h] = answer)
          /\ \A h \in DOMAIN blocks' : h # height => h \in DOMAIN blocks /\ blocks'[h] = blocks[h]
          /\ answer = NoHash => blocks' = blocks
          /\ answer # NoHash => \A h \in DOMAIN blocks' : h = height => blocks'[h] = answer
        BY <1>6 DEF RecordBlock
    <2>5. /\ UNCHANGED <<chainVars, undisturbed, checkpoint, events, cacheVars, cursor, walk,
                         diverged, toBlock, batch, pending>>
          /\ blind' \in BOOLEAN
          /\ height' = height + 1
          /\ pc = "record" /\ pc' = (IF height = toBlock THEN "save" ELSE "record")
        BY <1>6 DEF RecordBlock, PassOK
    <2>6. DOMAIN blocks' \subseteq Nat
        BY <2>1, <2>4 DEF TablesOK
    <2>7. ASSUME NEW h \in DOMAIN blocks'
          PROVE  h >= StartBlock /\ Settled(h) /\ blocks'[h] \in 1 .. mined
        <3>1. CASE h = height
            <4>1. CASE answer = NoHash
                BY <2>4, <2>7, <4>1 DEF TablesOK
            <4>2. CASE answer # NoHash
                BY <2>2, <2>3, <2>4, <2>7, <3>1, <4>2
            <4> QED
                BY <4>1, <4>2
        <3>2. CASE h # height
            BY <2>4, <2>7, <3>2 DEF TablesOK
        <3> QED
            BY <3>1, <3>2
    <2>8. TablesOK'
        BY <2>5, <2>6, <2>7 DEF TablesOK, chainVars, cacheVars, Settled, Event, Txs
    <2>9. height' \in Nat /\ (height # toBlock => height' \in cursor + 1 .. toBlock)
        BY <2>1, <2>5
    <2>10. PassOK'
        BY <2>4, <2>5, <2>9 DEF PassOK, chainVars, Storing, Reading, Rewinding, Settled, Event, Txs
    <2> QED
        BY <2>8, <2>10
<1> QED
    BY <1>1, <1>2, <1>3, <1>4, <1>5, <1>6

LEMMA ShapeInductive ==
    ASSUME Shape, [Next]_vars
    PROVE  Shape'
PROOF
<1>1. ChainOK'
    BY ChainStays DEF Shape
<1>2. CASE UNCHANGED vars
    <2>1. TablesOK'
        BY <1>2 DEF Shape, vars, envVars, chainVars, logVars, cacheVars, TablesOK, Settled, Event, Txs
    <2>2. PassOK'
        BY <1>2 DEF Shape, vars, envVars, chainVars, logVars, passVars, PassOK, Settled, Event, Txs,
            Storing, Reading, Rewinding
    <2> QED
        BY <1>1, <2>1, <2>2 DEF Shape
<1>3. CASE Next
    <2>1. TablesOK' /\ PassOK'
        BY <1>3, EnvironmentKeepsShape, IdleKeepsShape, WalkKeepsShape, ReadingKeepsShape,
           StoringKeepsShape DEF Shape, Next, PassStep
    <2> QED
        BY <1>1, <2>1 DEF Shape
<1> QED
    BY <1>2, <1>3

-----------------------------------------------------------------------------
(* The confirmed part of the chain stays, and the node answers: no step of a *)
(* pass, and no crash, makes the tables say less or more than the chain.     *)

ConfirmationsSuffice == ReorgDepth <= Confirmations /\ MaxLookupErrors = 0

LEMMA ConfirmedInit == Init => ConfirmedInv
PROOF
<1>1. ASSUME Init
      PROVE  ConfirmedInv
    <2>0. StartBlock - 1 \in Nat /\ StartBlock - 1 < StartBlock /\ StartBlock \in Nat /\ ReorgDepth \in Nat
        BY IndexerAssumption
    <2>1. ChainOK
        BY <1>1, ShapeInit DEF Shape
    <2>2. EventsUpTo(checkpoint) = {}
        BY <1>1, <2>0, <2>1, NoLogsBeforeStart DEF EventsUpTo, Init
    <2>3. chain = <<>> /\ blocks = <<>> /\ peak = 0 /\ lookupErrors = 0 /\ events = {}
          /\ pc = "idle" /\ diverged = FALSE /\ checkpoint < StartBlock
        BY <1>1, <2>0 DEF Init
    <2>4. Len(chain) = 0 /\ DOMAIN blocks = {}
        BY <2>3
    <2>5. NeverRewinds
        BY <2>0, <2>3, <2>4 DEF NeverRewinds, Rewinding
    <2> QED
        BY <2>2, <2>3, <2>5 DEF ConfirmedInv, BatchIsRange, BatchIsStored, BatchIsRefreshed, Storing,
            NothingSkipped, NothingRetracted, RowsCoverCheckpoint
<1> QED
    BY <1>1

LEMMA SettledIsOnChain ==
    ASSUME ConfirmationsSuffice, ChainOK, NeverRewinds, NEW c \in Nat, Settled(c)
    PROVE  c <= Len(chain)
PROOF
    BY ChainTyped, IndexerAssumption DEF ConfirmationsSuffice, NeverRewinds, Settled, ChainOK

LEMMA SettledPartStays ==
    ASSUME ConfirmationsSuffice, ChainOK, NeverRewinds,
           \/ \E t \in Txs \cup {NoTx} : Mine(t)
           \/ \E n \in 0 .. MaxMined : Reorg(n)
    PROVE  /\ ChainOK'
           /\ \A c \in Nat : Settled(c) => SameUpTo(c) /\ Settled(c)'
           /\ peak' <= Len(chain') + ReorgDepth
PROOF
<1>0. /\ Len(chain) \in Nat /\ peak \in Nat /\ ReorgDepth \in Nat /\ Confirmations \in Nat
      /\ peak <= Len(chain) + ReorgDepth /\ Len(chain) <= peak
      /\ ReorgDepth <= Confirmations
    BY ChainTyped, IndexerAssumption DEF ChainOK, ConfirmationsSuffice, NeverRewinds
<1>1. ASSUME NEW t \in Txs \cup {NoTx}, Mine(t)
      PROVE  /\ ChainOK'
             /\ \A c \in Nat : Settled(c) => SameUpTo(c) /\ Settled(c)'
             /\ peak' <= Len(chain') + ReorgDepth
    <2>1. /\ ChainOK' /\ Len(chain') = Len(chain) + 1 /\ peak <= peak' /\ peak' \in Nat
          /\ \A h \in 1 .. Len(chain) : chain'[h] = chain[h]
        BY <1>1, MineStep DEF ChainOK
    <2>2. peak' \in {peak, Len(chain) + 1}
        <3>1. peak' = Max({peak, Len(chain) + 1}) /\ peak \in Int /\ Len(chain) + 1 \in Int
            BY <1>0, <1>1, <2>1 DEF Mine
        <3>2. Max({peak, Len(chain) + 1}) \in {peak, Len(chain) + 1}
            BY <3>1, MaxOfTwo
        <3> QED
            BY <3>1, <3>2
    <2>3. peak' <= Len(chain') + ReorgDepth
        BY <1>0, <2>1, <2>2
    <2>4. \A c \in Nat : c + Confirmations <= peak => c <= Len(chain) /\ c <= Len(chain')
        BY <1>0, <2>1
    <2> QED
        BY <1>0, <2>1, <2>3, <2>4 DEF Settled, SameUpTo
<1>2. ASSUME NEW n \in 0 .. MaxMined, Reorg(n)
      PROVE  /\ ChainOK'
             /\ \A c \in Nat : Settled(c) => SameUpTo(c) /\ Settled(c)'
             /\ peak' <= Len(chain') + ReorgDepth
    <2>1. /\ ChainOK' /\ Len(chain') = n /\ n < Len(chain) /\ peak' = peak /\ n \in Nat
          /\ \A h \in 1 .. n : chain'[h] = chain[h]
        BY <1>2, ReorgStep, IndexerAssumption
    <2>2. n + ReorgDepth >= peak
        BY <1>2 DEF Reorg
    <2>3. \A c \in Nat : c + Confirmations <= peak => c <= n
        BY <1>0, <2>1, <2>2
    <2> QED
        BY <1>0, <2>1, <2>2, <2>3 DEF Settled, SameUpTo
<1> QED
    BY <1>1, <1>2

LEMMA EnvironmentKeepsConfirmed ==
    ASSUME ConfirmationsSuffice, Shape, ConfirmedInv,
           \/ \E t \in Txs \cup {NoTx} : Mine(t)
           \/ \E n \in 0 .. MaxMined : Reorg(n)
    PROVE  ConfirmedInv'
PROOF
<1>0. ChainOK /\ TablesOK /\ PassOK /\ NeverRewinds
    BY DEF Shape, ConfirmedInv
<1>1. /\ ChainOK'
      /\ \A c \in Nat : Settled(c) => SameUpTo(c) /\ Settled(c)'
      /\ peak' <= Len(chain') + ReorgDepth
    BY <1>0, SettledPartStays
<1>2. /\ checkpoint' = checkpoint /\ blocks' = blocks /\ events' = events /\ rows' = rows
      /\ pc' = pc /\ cursor' = cursor /\ toBlock' = toBlock /\ batch' = batch
      /\ pending' = pending /\ diverged' = diverged /\ lookupErrors' = lookupErrors
    BY DEF Mine, Reorg, logVars, cacheVars, passVars
<1>3. NeverRewinds'
    <2>1. ASSUME NEW h \in DOMAIN blocks
          PROVE  blocks[h] = chain'[h].hash
        <3>1. h \in Nat /\ h >= 1 /\ Settled(h)
            BY <1>0, IndexerAssumption DEF TablesOK
        <3>2. h \in 1 .. h /\ SameUpTo(h)
            BY <1>1, <3>1
        <3>3. chain'[h] = chain[h]
            BY <3>2 DEF SameUpTo
        <3> QED
            BY <1>0, <3>3 DEF NeverRewinds
    <2>2. checkpoint < StartBlock \/ Settled(checkpoint)'
        BY <1>0, <1>1, <1>2 DEF NeverRewinds, TablesOK, Settled
    <2>3. \A e \in events : e.height \in Nat /\ (e.height + Confirmations <= peak')
        BY <1>0, <1>1 DEF NeverRewinds, TablesOK, Event, Settled
    <2> QED
        BY <1>0, <1>1, <1>2, <2>1, <2>2, <2>3 DEF NeverRewinds, Settled
<1>4. EventsUpTo(checkpoint)' = EventsUpTo(checkpoint)
    <2>1. checkpoint \in Nat /\ (checkpoint < StartBlock \/ SameUpTo(checkpoint))
        BY <1>0, <1>1 DEF NeverRewinds, TablesOK
    <2>2. LogsIn(1, checkpoint)' = LogsIn(1, checkpoint)
        BY <1>0, <1>1, <1>2, <2>1, LogsStay DEF LogsIn
    <2> QED
        BY <2>2 DEF EventsUpTo
<1>5. NothingSkipped' /\ RowsCoverCheckpoint'
    BY <1>2, <1>4 DEF ConfirmedInv, NothingSkipped, RowsCoverCheckpoint
<1>6. NothingRetracted'
    <2>1. ASSUME NEW e \in events
          PROVE  e \in LogsIn(1, Len(chain))'
        <3>1. e \in LogsIn(1, Len(chain)) /\ Settled(e.height)
            BY <1>0 DEF ConfirmedInv, NothingRetracted, EventsUpTo, NeverRewinds
        <3>2. /\ e.height \in 1 .. Len(chain) /\ chain[e.height].tx # NoTx
              /\ e = EventAt(e.height) /\ e.height \in Nat
            BY <1>0, <3>1, ChainTyped, LogsAreEvents
        <3>3. SameUpTo(e.height)
            BY <1>1, <3>1, <3>2
        <3>4. chain'[e.height] = chain[e.height] /\ e.height \in 1 .. Len(chain')
            BY <3>2, <3>3 DEF SameUpTo
        <3> QED
            BY <3>2, <3>4 DEF EventAt, LogsIn
    <2> QED
        BY <1>2, <2>1 DEF NothingRetracted, EventsUpTo, LogsIn
<1>7. BatchIsRange'
    <2>1. ASSUME pc \in {"readMarkets", "persist"} \cup Storing
          PROVE  /\ LogsIn(cursor + 1, toBlock)' = LogsIn(cursor + 1, toBlock)
                 /\ FactoryLogs(cursor + 1, toBlock)' = FactoryLogs(cursor + 1, toBlock)
        <3>1. toBlock \in Nat /\ cursor + 1 \in Nat \ {0} /\ SameUpTo(toBlock)
            BY <1>0, <1>1, <2>1 DEF PassOK, Reading
        <3>2. /\ \A lo \in Nat \ {0} : LogsIn(lo, toBlock)' = LogsIn(lo, toBlock)
              /\ \A lo \in Nat \ {0} : FactoryLogs(lo, toBlock)' = FactoryLogs(lo, toBlock)
            BY <1>0, <1>1, <1>2, <3>1, LogsStay DEF LogsIn, FactoryLogs
        <3> QED
            BY <1>2, <3>1, <3>2 DEF LogsIn, FactoryLogs
    <2> QED
        BY <1>2, <2>1 DEF ConfirmedInv, BatchIsRange
<1>8. BatchIsStored' /\ BatchIsRefreshed'
    BY <1>2 DEF ConfirmedInv, BatchIsStored, BatchIsRefreshed
<1> QED
    BY <1>3, <1>5, <1>6, <1>7, <1>8 DEF ConfirmedInv

\* Steps of the indexer leave the chain alone, and with it the events it holds.
LEMMA LogsUnchanged ==
    ASSUME UNCHANGED chainVars
    PROVE  /\ \A lo, hi : LogsIn(lo, hi)' = LogsIn(lo, hi)
           /\ \A lo, hi : FactoryLogs(lo, hi)' = FactoryLogs(lo, hi)
           /\ \A h : EventsUpTo(h)' = EventsUpTo(h)
           /\ \A h : Settled(h)' <=> Settled(h)
PROOF
    BY DEF chainVars, LogsIn, FactoryLogs, EventsUpTo, Settled

LEMMA WalkKeepsConfirmed ==
    ASSUME ConfirmationsSuffice, Shape, ConfirmedInv,
           \/ Start \/ DropEvents \/ DropBlocks \/ Rewind \/ ChooseRange \/ Prune \/ Abandon
           \/ \E m \in Markets : RefreshFails(m)
           \/ \E answer \in NoHash .. MaxMined : Compare(answer)
    PROVE  ConfirmedInv'
PROOF
<1>0. ChainOK /\ TablesOK /\ PassOK /\ NeverRewinds
    BY DEF Shape, ConfirmedInv
<1>1. ~(DropEvents \/ DropBlocks \/ Rewind)
    BY <1>0 DEF DropEvents, DropBlocks, Rewind, NeverRewinds, Rewinding
<1>2. ASSUME NEW answer \in NoHash .. MaxMined, Compare(answer)
      PROVE  /\ diverged' = FALSE /\ pc' = "range" /\ lookupErrors' = lookupErrors
             /\ UNCHANGED <<chainVars, logVars, cacheVars>>
    <2>1. /\ Max(walk) \in DOMAIN blocks /\ Max(walk) \in Nat /\ Max(walk) >= 1
          /\ Settled(Max(walk))
        BY <1>0, <1>2, WalkTyped, IndexerAssumption DEF Compare
    <2>2. Max(walk) \in 1 .. Len(chain)
        BY <1>0, <2>1, SettledIsOnChain, ChainTyped
    <2>3. answer = HashAt(Max(walk)) /\ lookupErrors' = lookupErrors
        BY <1>0, <1>2 DEF Compare, Looked, NeverRewinds, ConfirmationsSuffice
    <2>4. answer = blocks[Max(walk)]
        BY <1>0, <2>1, <2>2, <2>3 DEF HashAt, NeverRewinds
    <2> QED
        BY <1>0, <1>2, <2>3, <2>4 DEF Compare, NeverRewinds
<1>3. /\ UNCHANGED <<chainVars, events, checkpoint, cacheVars>>
      /\ lookupErrors' = lookupErrors /\ diverged' = FALSE
      /\ pc' \in {"idle", "compare", "range", "readFactory"}
    BY <1>0, <1>1, <1>2
    DEF Start, ChooseRange, Prune, Abandon, RefreshFails, Idle, logVars, envVars, NeverRewinds
<1>4. DOMAIN blocks' \subseteq DOMAIN blocks /\ \A h \in DOMAIN blocks' : blocks'[h] = blocks[h]
    BY <1>1, <1>2 DEF Start, ChooseRange, Prune, Abandon, RefreshFails, logVars, Restrict
<1>5. NeverRewinds'
    <2>1. \A h : Settled(h)' <=> Settled(h)
        BY <1>3, LogsUnchanged
    <2>2. Settled(checkpoint)' <=> Settled(checkpoint)
        BY <1>3 DEF Settled, chainVars
    <2>3. \A e \in events : Settled(e.height)'
        BY <1>0, <1>3 DEF Settled, chainVars, NeverRewinds
    <2>4. \A h \in DOMAIN blocks' : blocks'[h] = chain'[h].hash
        BY <1>0, <1>3, <1>4 DEF NeverRewinds, chainVars
    <2> QED
        BY <1>0, <1>3, <2>2, <2>3, <2>4 DEF NeverRewinds, chainVars, Rewinding, Settled
<1>6. EventsUpTo(checkpoint)' = EventsUpTo(checkpoint) /\ EventsUpTo(Len(chain))' = EventsUpTo(Len(chain))
    BY <1>3 DEF EventsUpTo, LogsIn, chainVars
<1>7. NothingSkipped' /\ NothingRetracted' /\ RowsCoverCheckpoint'
    BY <1>3, <1>6 DEF ConfirmedInv, NothingSkipped, NothingRetracted, RowsCoverCheckpoint, cacheVars
<1>8. BatchIsRange' /\ BatchIsStored' /\ BatchIsRefreshed'
    BY <1>3 DEF BatchIsRange, BatchIsStored, BatchIsRefreshed, Storing
<1> QED
    BY <1>5, <1>7, <1>8 DEF ConfirmedInv

\* What the steps below leave alone.
LEMMA StoringKeepsNeverRewinds ==
    ASSUME NeverRewinds, UNCHANGED <<chainVars, checkpoint, blocks, lookupErrors, diverged>>,
           pc' \notin Rewinding \cup {"prune"}, \A e \in events' : Settled(e.height)
    PROVE  NeverRewinds'
PROOF
<1>1. \A e \in events' : Settled(e.height)'
    BY DEF chainVars, Settled
<1>2. Settled(checkpoint)' <=> Settled(checkpoint)
    BY DEF chainVars, Settled
<1> QED
    BY <1>1, <1>2 DEF NeverRewinds, chainVars, Settled, Rewinding

LEMMA ReadingKeepsConfirmed ==
    ASSUME ConfirmationsSuffice, Shape, ConfirmedInv, ReadFactory \/ ReadMarkets \/ Persist
    PROVE  ConfirmedInv'
PROOF
<1>0. ChainOK /\ TablesOK /\ PassOK /\ NeverRewinds
    BY DEF Shape, ConfirmedInv
<1>1. /\ cursor \in Nat /\ toBlock \in Nat /\ cursor + 1 \in Nat \ {0} /\ cursor = checkpoint
      /\ cursor < toBlock /\ Settled(toBlock)
    BY <1>0 DEF PassOK, ReadFactory, ReadMarkets, Persist, Reading
<1>2. UNCHANGED <<chainVars, checkpoint, blocks, lookupErrors, diverged, cursor, toBlock, rows>>
      /\ pc' \in {"readMarkets", "persist", "attach"}
    BY DEF ReadFactory, ReadMarkets, Persist, envVars, logVars, cacheVars
<1>3. /\ \A e \in events' : Settled(e.height)
      /\ events \subseteq events' /\ events' \subseteq EventsUpTo(Len(chain))
      /\ pc' = "attach" => batch' = batch /\ batch \subseteq events'
    <2>1. CASE ReadFactory \/ ReadMarkets
        BY <1>0, <2>1 DEF ReadFactory, ReadMarkets, logVars, NeverRewinds, ConfirmedInv, NothingRetracted
    <2>2. CASE Persist
        <3>1. batch = LogsIn(cursor + 1, toBlock) /\ events \subseteq LogsIn(1, Len(chain))
            BY <2>2 DEF Persist, ConfirmedInv, BatchIsRange, NothingRetracted, EventsUpTo
        <3>2. toBlock <= Len(chain) /\ Len(chain) \in Nat
            BY <1>0, <1>1, SettledIsOnChain, ChainTyped
        <3>3. batch \subseteq LogsIn(1, Len(chain))
            <4>1. LogsIn(1, toBlock) \subseteq LogsIn(1, Len(chain))
                BY <1>0, <1>1, <3>2, LogsSplit
            <4>2. batch \subseteq LogsIn(1, toBlock)
                BY <1>0, <1>1, <3>1, LogsSplit
            <4> QED
                BY <4>1, <4>2
        <3>4. \A e \in batch : Settled(e.height)
            <4>1. ASSUME NEW e \in batch
                  PROVE  Settled(e.height)
                <5>1. e.height \in cursor + 1 .. toBlock
                    BY <1>0, <1>1, <3>1, LogsAreEvents
                <5> QED
                    BY <1>0, <1>1, <5>1, IndexerAssumption DEF Settled, ChainOK
            <4> QED
                BY <4>1
        <3>5. ASSUME NEW e \in batch, NEW f \in events, e.tx = f.tx
              PROVE  e = f
            BY <1>0, <3>1, <3>2, <3>3, <3>5, OneEventPerTx
        <3>6. events' = events \cup batch
            <4>1. \A e \in batch : e.tx \in {f.tx : f \in events} => e \in events
                BY <3>5
            <4> QED
                BY <2>2, <4>1 DEF Persist
        <3> QED
            BY <1>0, <2>2, <3>1, <3>3, <3>4, <3>6 DEF Persist, NeverRewinds, EventsUpTo
    <2> QED
        BY <2>1, <2>2
<1>4. NeverRewinds'
    BY <1>0, <1>2, <1>3, StoringKeepsNeverRewinds DEF Rewinding
<1>5. EventsUpTo(checkpoint)' = EventsUpTo(checkpoint) /\ EventsUpTo(Len(chain))' = EventsUpTo(Len(chain))
    BY <1>2 DEF EventsUpTo, LogsIn, chainVars
<1>6. NothingSkipped' /\ NothingRetracted' /\ RowsCoverCheckpoint'
    BY <1>2, <1>3, <1>5 DEF ConfirmedInv, NothingSkipped, NothingRetracted, RowsCoverCheckpoint
<1>7. BatchIsStored' /\ BatchIsRefreshed'
    BY <1>2, <1>3 DEF BatchIsStored, BatchIsRefreshed, Storing
<1>8. BatchIsRange'
    <2>0. /\ LogsIn(cursor + 1, toBlock)' = LogsIn(cursor + 1, toBlock)
          /\ FactoryLogs(cursor + 1, toBlock)' = FactoryLogs(cursor + 1, toBlock)
        BY <1>2 DEF LogsIn, FactoryLogs, chainVars
    <2>1. CASE ReadFactory
        BY <2>0, <2>1 DEF ReadFactory, BatchIsRange, Storing
    <2>2. CASE ReadMarkets
        <3> DEFINE watched == WatchSet({e.tx.market : e \in batch})
        <3>1. batch = FactoryLogs(cursor + 1, toBlock)
            BY <2>2 DEF ReadMarkets, ConfirmedInv, BatchIsRange
        <3>2. \A e \in FactoryLogs(cursor + 1, toBlock) : e.tx.market \in watched
            BY <3>1 DEF WatchSet
        <3>3. \A e \in LogsIn(1, cursor + 1 - 1) : e.tx.market \in watched
            <4>1. ASSUME NEW e \in LogsIn(1, cursor)
                  PROVE  e.tx.market \in watched
                <5>1. e.tx \in Txs /\ e.tx \in rows[e.tx.market]
                    BY <1>0, <1>1, LogsAreEvents DEF ConfirmedInv, RowsCoverCheckpoint, EventsUpTo
                <5> QED
                    BY <5>1 DEF WatchSet, Txs
            <4> QED
                BY <1>1, <4>1
        <3>4. batch' = FactoryLogs(cursor + 1, toBlock) \cup MarketLogs(watched, cursor + 1, toBlock)
            BY <2>2, <3>1 DEF ReadMarkets
        <3> HIDE DEF watched
        <3>5. batch' = LogsIn(cursor + 1, toBlock)
            BY <1>0, <1>1, <3>2, <3>3, <3>4, WatchedLogsAreAll
        <3> QED
            BY <2>0, <2>2, <3>5 DEF ReadMarkets, BatchIsRange
    <2>3. CASE Persist
        BY <2>0, <2>3 DEF Persist, BatchIsRange, ConfirmedInv
    <2> QED
        BY <2>1, <2>2, <2>3
<1> QED
    BY <1>4, <1>6, <1>7, <1>8 DEF ConfirmedInv

\* The contract, read at the head, knows every transaction the chain holds.
LEMMA HeadKnowsAll ==
    ASSUME ChainOK, NEW e \in LogsIn(1, Len(chain))
    PROVE  e.tx \in ContractState(e.tx.market)
PROOF
<1>1. /\ e.height \in 1 .. Len(chain) /\ chain[e.height].tx = e.tx /\ chain[e.height].tx # NoTx
    BY ChainTyped, LogsAreEvents
<1>2. e.tx \in TxsOnChain
    BY <1>1 DEF TxsOnChain
<1> QED
    BY <1>2 DEF ContractState

LEMMA CachingKeepsConfirmed ==
    ASSUME ConfirmationsSuffice, Shape, ConfirmedInv,
           \/ AttachDone \/ RefreshDone
           \/ \E m \in Markets : Attach(m) \/ Refresh(m)
    PROVE  ConfirmedInv'
PROOF
<1>0. ChainOK /\ TablesOK /\ PassOK /\ NeverRewinds
    BY DEF Shape, ConfirmedInv
<1>1. /\ UNCHANGED <<chainVars, checkpoint, blocks, events, lookupErrors, diverged, cursor, toBlock, batch>>
      /\ pc \in {"attach", "refresh"} /\ pc' \in {"attach", "refresh", "record"}
    BY DEF AttachDone, RefreshDone, Attach, Refresh, envVars, logVars, cacheVars
<1>2. NeverRewinds'
    <2>1. \A e \in events' : Settled(e.height)
        BY <1>0, <1>1 DEF NeverRewinds
    <2> QED
        BY <1>0, <1>1, <2>1, StoringKeepsNeverRewinds DEF Rewinding
<1>3. EventsUpTo(checkpoint)' = EventsUpTo(checkpoint) /\ EventsUpTo(Len(chain))' = EventsUpTo(Len(chain))
      /\ LogsIn(cursor + 1, toBlock)' = LogsIn(cursor + 1, toBlock)
    BY <1>1 DEF EventsUpTo, LogsIn, chainVars
<1>4. NothingSkipped' /\ NothingRetracted'
    BY <1>1, <1>3 DEF ConfirmedInv, NothingSkipped, NothingRetracted
<1>5. BatchIsStored' /\ BatchIsRange'
    BY <1>1, <1>3 DEF ConfirmedInv, BatchIsStored, BatchIsRange, Storing
<1>6. /\ EventsUpTo(checkpoint) \subseteq LogsIn(1, Len(chain))
      /\ batch \subseteq LogsIn(1, Len(chain))
      /\ batch \subseteq Event /\ EventsUpTo(checkpoint) \subseteq Event
    <2>1. EventsUpTo(checkpoint) \subseteq events /\ events \subseteq LogsIn(1, Len(chain))
          /\ batch \subseteq events /\ events \subseteq Event
        BY <1>0, <1>1 DEF ConfirmedInv, NothingSkipped, NothingRetracted, EventsUpTo, BatchIsStored,
            Storing, TablesOK
    <2> QED
        BY <2>1
<1>7. /\ \A e \in EventsUpTo(checkpoint) : e.tx \in rows[e.tx.market]
      /\ pc = "refresh" => \A e \in batch : e.tx \in rows[e.tx.market] \/ e.tx.market \in pending
    BY DEF ConfirmedInv, RowsCoverCheckpoint, BatchIsRefreshed
<1>8. RowsCoverCheckpoint' /\ BatchIsRefreshed'
    <2>1. ASSUME NEW m \in Markets, Attach(m)
          PROVE  RowsCoverCheckpoint' /\ BatchIsRefreshed'
        BY <1>3, <1>7, <2>1 DEF Attach, RowsCoverCheckpoint, BatchIsRefreshed
    <2>2. CASE AttachDone
        BY <1>3, <1>7, <2>2 DEF AttachDone, cacheVars, Touched, RowsCoverCheckpoint, BatchIsRefreshed
    <2>3. CASE RefreshDone
        BY <1>3, <1>7, <2>3 DEF RefreshDone, cacheVars, RowsCoverCheckpoint, BatchIsRefreshed
    <2>4. ASSUME NEW m \in Markets, Refresh(m)
          PROVE  RowsCoverCheckpoint' /\ BatchIsRefreshed'
        <3>1. /\ rows' = [rows EXCEPT ![m] = ContractState(m)] /\ rows \in [Markets -> SUBSET Txs]
              /\ pending' = pending \ {m} /\ pc = "refresh" /\ pc' = "refresh"
            BY <1>0, <2>4 DEF Refresh, TablesOK
        <3>2. ASSUME NEW e \in LogsIn(1, Len(chain)), e.tx \in rows[e.tx.market] \/ e.tx.market = m
              PROVE  e.tx \in rows'[e.tx.market]
            <4>1. e.tx \in Txs /\ e.tx.market \in Markets
                BY <1>0, ChainTyped, LogsAreEvents DEF Txs
            <4>2. e.tx \in ContractState(e.tx.market)
                BY <1>0, HeadKnowsAll
            <4> QED
                BY <3>1, <3>2, <4>1, <4>2
        <3>3. RowsCoverCheckpoint'
            BY <1>3, <1>6, <1>7, <3>2 DEF RowsCoverCheckpoint
        <3>4. ASSUME NEW e \in batch
              PROVE  e.tx \in rows'[e.tx.market] \/ e.tx.market \in pending'
            BY <1>6, <1>7, <3>1, <3>2
        <3> QED
            BY <1>1, <3>1, <3>3, <3>4 DEF BatchIsRefreshed
    <2> QED
        BY <2>1, <2>2, <2>3, <2>4
<1> QED
    BY <1>2, <1>4, <1>5, <1>8 DEF ConfirmedInv

LEMMA RecordingKeepsConfirmed ==
    ASSUME ConfirmationsSuffice, Shape, ConfirmedInv,
           NEW answer \in NoHash .. MaxMined, RecordBlock(answer)
    PROVE  ConfirmedInv'
PROOF
<1>0. ChainOK /\ TablesOK /\ PassOK /\ NeverRewinds
    BY DEF Shape, ConfirmedInv
<1>1. /\ pc = "record" /\ pc' \in {"record", "save"}
      /\ UNCHANGED <<chainVars, checkpoint, events, rows, diverged, cursor, toBlock, batch, pending>>
      /\ answer = HashAt(height) /\ lookupErrors' = lookupErrors
      /\ height \in cursor + 1 .. toBlock /\ Settled(toBlock) /\ toBlock \in Nat /\ cursor \in Nat
    <2>1. MaxLookupErrors = 0 /\ lookupErrors = 0
        BY <1>0 DEF ConfirmationsSuffice, NeverRewinds
    <2>2. pc = "record" /\ Looked(height, answer)
        BY DEF RecordBlock
    <2>3. answer = HashAt(height) /\ lookupErrors' = lookupErrors
        BY <2>1, <2>2 DEF Looked
    <2> QED
        BY <1>0, <2>2, <2>3 DEF RecordBlock, cacheVars, PassOK, Storing
<1>2. height \in 1 .. Len(chain) /\ answer = chain[height].hash
    <2>1. toBlock <= Len(chain) /\ Len(chain) \in Nat
        BY <1>0, <1>1, SettledIsOnChain, ChainTyped
    <2>2. height \in 1 .. Len(chain)
        BY <1>1, <2>1
    <2> QED
        BY <1>1, <2>2 DEF HashAt
<1>3. \A h \in DOMAIN blocks' : blocks'[h] = chain[h].hash
    BY <1>0, <1>2 DEF RecordBlock, NeverRewinds
<1>4. NeverRewinds'
    <2>1. /\ \A h \in DOMAIN blocks' : blocks'[h] = chain'[h].hash
          /\ \A e \in events' : Settled(e.height)'
          /\ Settled(checkpoint)' <=> Settled(checkpoint)
        BY <1>0, <1>1, <1>3 DEF NeverRewinds, chainVars, Settled
    <2> QED
        BY <1>0, <1>1, <2>1 DEF NeverRewinds, chainVars, Rewinding
<1>5. EventsUpTo(checkpoint)' = EventsUpTo(checkpoint) /\ EventsUpTo(Len(chain))' = EventsUpTo(Len(chain))
      /\ LogsIn(cursor + 1, toBlock)' = LogsIn(cursor + 1, toBlock)
    BY <1>1 DEF EventsUpTo, LogsIn, chainVars
<1>6. NothingSkipped' /\ NothingRetracted' /\ RowsCoverCheckpoint'
    BY <1>1, <1>5 DEF ConfirmedInv, NothingSkipped, NothingRetracted, RowsCoverCheckpoint
<1>7. BatchIsStored' /\ BatchIsRange' /\ BatchIsRefreshed'
    BY <1>1, <1>5 DEF ConfirmedInv, BatchIsStored, BatchIsRange, BatchIsRefreshed, Storing
<1> QED
    BY <1>4, <1>6, <1>7 DEF ConfirmedInv

\* The checkpoint moves over a range only when all of it is stored and cached.
LEMMA SavingKeepsConfirmed ==
    ASSUME ConfirmationsSuffice, Shape, ConfirmedInv, Save
    PROVE  ConfirmedInv'
PROOF
<1>0. ChainOK /\ TablesOK /\ PassOK /\ NeverRewinds
    BY DEF Shape, ConfirmedInv
<1>1. /\ pc = "save" /\ pc' = "prune" /\ checkpoint' = toBlock
      /\ UNCHANGED <<chainVars, blocks, events, rows, lookupErrors, diverged, cursor, toBlock, batch>>
      /\ cursor = checkpoint /\ cursor < toBlock /\ Settled(toBlock)
      /\ cursor \in Nat /\ toBlock \in Nat
    BY <1>0 DEF Save, PassOK, Storing, envVars, cacheVars, passVars
<1>2. LogsIn(1, toBlock) = EventsUpTo(checkpoint) \cup batch
    <2>1. batch = LogsIn(cursor + 1, toBlock)
        BY <1>1 DEF ConfirmedInv, BatchIsRange, Storing
    <2>2. LogsIn(1, toBlock) = LogsIn(1, cursor) \cup LogsIn(cursor + 1, toBlock)
        BY <1>0, <1>1, LogsSplit
    <2> QED
        BY <1>1, <2>1, <2>2 DEF EventsUpTo
<1>3. EventsUpTo(checkpoint)' = LogsIn(1, toBlock) /\ EventsUpTo(Len(chain))' = EventsUpTo(Len(chain))
    BY <1>1 DEF EventsUpTo, LogsIn, chainVars
<1>4. NothingSkipped' /\ NothingRetracted'
    BY <1>1, <1>2, <1>3 DEF ConfirmedInv, NothingSkipped, NothingRetracted, BatchIsStored, Storing
<1>5. RowsCoverCheckpoint'
    <2>1. \A e \in EventsUpTo(checkpoint) \cup batch : e.tx \in rows[e.tx.market]
        BY <1>1 DEF ConfirmedInv, RowsCoverCheckpoint, BatchIsRefreshed
    <2> QED
        BY <1>1, <1>2, <1>3, <2>1 DEF RowsCoverCheckpoint
<1>6. NeverRewinds'
    BY <1>0, <1>1 DEF NeverRewinds, chainVars, Settled, Rewinding
<1>7. BatchIsStored' /\ BatchIsRange' /\ BatchIsRefreshed'
    BY <1>1 DEF BatchIsStored, BatchIsRange, BatchIsRefreshed, Storing
<1> QED
    BY <1>4, <1>5, <1>6, <1>7 DEF ConfirmedInv

LEMMA ConfirmedInductive ==
    ASSUME ConfirmationsSuffice, Shape, ConfirmedInv, [Next]_vars
    PROVE  ConfirmedInv'
PROOF
<1>1. CASE UNCHANGED vars
    <2>1. /\ UNCHANGED <<chainVars, checkpoint, blocks, events, rows, lookupErrors, diverged, cursor,
                          toBlock, batch, pending, pc>>
        BY <1>1 DEF vars, envVars, logVars, cacheVars, passVars
    <2>2. EventsUpTo(checkpoint)' = EventsUpTo(checkpoint) /\ EventsUpTo(Len(chain))' = EventsUpTo(Len(chain))
          /\ LogsIn(cursor + 1, toBlock)' = LogsIn(cursor + 1, toBlock)
          /\ FactoryLogs(cursor + 1, toBlock)' = FactoryLogs(cursor + 1, toBlock)
        BY <2>1 DEF EventsUpTo, LogsIn, FactoryLogs, chainVars
    <2>3. NeverRewinds'
        BY <2>1 DEF ConfirmedInv, NeverRewinds, chainVars, Settled, Rewinding
    <2>4. BatchIsRange' /\ BatchIsStored' /\ BatchIsRefreshed'
        BY <2>1, <2>2 DEF ConfirmedInv, BatchIsRange, BatchIsStored, BatchIsRefreshed, Storing
    <2>5. NothingSkipped' /\ NothingRetracted' /\ RowsCoverCheckpoint'
        BY <2>1, <2>2 DEF ConfirmedInv, NothingSkipped, NothingRetracted, RowsCoverCheckpoint
    <2> QED
        BY <2>3, <2>4, <2>5 DEF ConfirmedInv
<1>2. CASE Next
    BY <1>2, EnvironmentKeepsConfirmed, WalkKeepsConfirmed, ReadingKeepsConfirmed,
       CachingKeepsConfirmed, RecordingKeepsConfirmed, SavingKeepsConfirmed DEF Next, PassStep
<1> QED
    BY <1>1, <1>2

LEMMA ConfirmedAlways == ASSUME ConfirmationsSuffice PROVE Spec => [](Shape /\ ConfirmedInv)
PROOF
<1>1. Init => Shape /\ ConfirmedInv
    BY ShapeInit, ConfirmedInit
<1>2. Shape /\ ConfirmedInv /\ [Next]_vars => (Shape /\ ConfirmedInv)'
    BY ShapeInductive, ConfirmedInductive
<1> QED
    BY <1>1, <1>2, PTL DEF Spec

\* No event of a block the checkpoint has passed is ever missing, wherever a pass
\* stopped, when no confirmed block is replaced and the node answers.
THEOREM NoEventSkipped == ASSUME ConfirmationsSuffice PROVE Spec => []NothingSkipped
PROOF
<1>1. Shape /\ ConfirmedInv => NothingSkipped
    BY DEF ConfirmedInv
<1> QED
    BY <1>1, ConfirmedAlways, PTL

\* Nor is an event stored that the chain does not hold in that block.
THEOREM NoEventRetracted == ASSUME ConfirmationsSuffice PROVE Spec => []NothingRetracted
PROOF
<1>1. Shape /\ ConfirmedInv => NothingRetracted
    BY DEF ConfirmedInv
<1> QED
    BY <1>1, ConfirmedAlways, PTL

\* A market's cached row knows every transaction the checkpoint has passed.
THEOREM RowsAreCovered == ASSUME ConfirmationsSuffice PROVE Spec => []RowsCoverCheckpoint
PROOF
<1>1. Shape /\ ConfirmedInv => RowsCoverCheckpoint
    BY DEF ConfirmedInv
<1> QED
    BY <1>1, ConfirmedAlways, PTL

-----------------------------------------------------------------------------
(* Whatever is replaced before a pass: what the pass reads stays, and a hash *)
(* recorded long ago is the chain's only if all below it is.                 *)

\* As LogsStay, of a block that a pass relies on.
LEMMA FirmLogsStay ==
    ASSUME ChainOK, ChainOK', NEW n \in Nat, n < StartBlock \/ SameUpTo(n)
    PROVE  /\ EventsUpTo(n)' = EventsUpTo(n)
           /\ \A lo \in Nat \ {0} : LogsIn(lo, n)' = LogsIn(lo, n)
           /\ \A lo \in Nat \ {0} : FactoryLogs(lo, n)' = FactoryLogs(lo, n)
PROOF
    BY LogsStay DEF EventsUpTo

LEMMA FirmStays ==
    ASSUME ChainOK,
           \/ \E t \in Txs \cup {NoTx} : Mine(t)
           \/ \E n \in 0 .. MaxMined : Reorg(n),
           ~blind', pc # "idle" \/ undisturbed'
    PROVE  \A c \in Nat : Firm(c) => Firm(c)' /\ (c < StartBlock \/ SameUpTo(c))
PROOF
<1>0. /\ Len(chain) \in Nat /\ peak \in Nat /\ Confirmations \in Nat
    BY ChainTyped, IndexerAssumption DEF ChainOK
<1>1. ASSUME NEW t \in Txs \cup {NoTx}, Mine(t), NEW c \in Nat, Firm(c)
      PROVE  Firm(c)' /\ (c < StartBlock \/ SameUpTo(c))
    <2>1. /\ Len(chain') = Len(chain) + 1 /\ peak <= peak' /\ ChainOK'
          /\ \A h \in 1 .. Len(chain) : chain'[h] = chain[h]
        BY <1>1, MineStep
    <2>2. peak' \in Nat
        BY <2>1 DEF ChainOK
    <2> QED
        BY <1>0, <1>1, <2>1, <2>2 DEF Firm, Settled, SameUpTo
<1>2. ASSUME NEW n \in 0 .. MaxMined, Reorg(n), NEW c \in Nat, Firm(c)
      PROVE  Firm(c)' /\ (c < StartBlock \/ SameUpTo(c))
    <2>1. /\ Len(chain') = n /\ n < Len(chain) /\ peak' = peak
          /\ \A h \in 1 .. n : chain'[h] = chain[h]
        BY <1>2, ReorgStep
    <2>2. n + Confirmations >= peak /\ n \in Nat
        <3>1. ~undisturbed' /\ (blind' <=> blind \/ (pc # "idle" /\ n + Confirmations < peak))
            BY <1>2, Zenon DEF Reorg
        <3>2. n \in Nat /\ ~(n + Confirmations < peak)
            BY <3>1, IndexerAssumption
        <3> QED
            BY <1>0, <3>2
    <2> QED
        BY <1>0, <1>2, <2>1, <2>2 DEF Firm, Settled, SameUpTo
<1> QED
    BY <1>1, <1>2

\* A new block's hash was recorded nowhere: a recorded hash that the chain has
\* after the step, it had before, and everything below it too.
LEMMA OldHashesStay ==
    ASSUME ChainOK, TablesOK,
           \/ \E t \in Txs \cup {NoTx} : Mine(t)
           \/ \E n \in 0 .. MaxMined : Reorg(n),
           NEW h \in DOMAIN blocks, blocks[h] = HashAt(h)'
    PROVE  h \in Nat /\ blocks[h] = HashAt(h) /\ SameUpTo(h)
PROOF
<1>0. /\ Len(chain) \in Nat /\ mined \in Nat /\ h \in Nat /\ h >= 1
      /\ blocks[h] \in 1 .. mined
    BY ChainTyped, IndexerAssumption DEF ChainOK, TablesOK
<1>1. h \in 1 .. Len(chain') /\ chain'[h].hash = blocks[h]
    BY <1>0 DEF HashAt, NoHash
<1>2. ASSUME NEW t \in Txs \cup {NoTx}, Mine(t)
      PROVE  blocks[h] = HashAt(h) /\ SameUpTo(h)
    <2>1. /\ Len(chain') = Len(chain) + 1
          /\ \A k \in 1 .. Len(chain) : chain'[k] = chain[k]
          /\ chain'[Len(chain) + 1].hash = mined + 1
        BY <1>2, MineStep
    <2>2. h \in 1 .. Len(chain)
        <3>1. h # Len(chain) + 1
            BY <1>0, <1>1, <2>1
        <3> QED
            BY <1>0, <1>1, <2>1, <3>1
    <2>3. SameUpTo(h)
        BY <1>0, <2>1, <2>2 DEF SameUpTo
    <2> QED
        BY <1>1, <2>1, <2>2, <2>3 DEF HashAt
<1>3. ASSUME NEW n \in 0 .. MaxMined, Reorg(n)
      PROVE  blocks[h] = HashAt(h) /\ SameUpTo(h)
    <2>1. /\ Len(chain') = n /\ n < Len(chain) /\ n \in Nat
          /\ \A k \in 1 .. n : chain'[k] = chain[k]
        BY <1>3, ReorgStep, IndexerAssumption
    <2>2. h \in 1 .. n /\ h \in 1 .. Len(chain)
        BY <1>0, <1>1, <2>1
    <2>3. SameUpTo(h)
        BY <1>0, <2>1, <2>2 DEF SameUpTo
    <2> QED
        BY <1>1, <2>1, <2>2, <2>3 DEF HashAt
<1> QED
    BY <1>0, <1>2, <1>3

LEMMA EnvironmentKeepsRepair ==
    ASSUME Shape, RepairInv,
           \/ \E t \in Txs \cup {NoTx} : Mine(t)
           \/ \E n \in 0 .. MaxMined : Reorg(n)
    PROVE  RepairInv'
PROOF
<1> SUFFICES ASSUME ~blind'
             PROVE  Trustworthy'
    BY DEF RepairInv
<1>0. ChainOK /\ TablesOK /\ PassOK /\ ChainOK'
    BY MineStep, ReorgStep DEF Shape
<1>1. /\ checkpoint' = checkpoint /\ blocks' = blocks /\ events' = events /\ rows' = rows
      /\ pc' = pc /\ cursor' = cursor /\ walk' = walk /\ toBlock' = toBlock /\ batch' = batch
      /\ pending' = pending /\ diverged' = diverged
      /\ undisturbed' => undisturbed
      /\ ~blind
    <2>1. UNCHANGED <<logVars, cacheVars, pc, passVars>>
        BY DEF Mine, Reorg
    <2>2. (undisturbed' => undisturbed) /\ ~blind
        <3>1. ASSUME NEW t \in Txs \cup {NoTx}, Mine(t)
              PROVE  undisturbed' = undisturbed /\ blind' = blind
            BY <3>1 DEF Mine
        <3>2. ASSUME NEW n \in 0 .. MaxMined, Reorg(n)
              PROVE  ~undisturbed' /\ ~blind
            BY <3>2, Zenon DEF Reorg
        <3> QED
            BY <3>1, <3>2
    <2> QED
        BY <2>1, <2>2 DEF logVars, cacheVars, passVars
<1>2. Trustworthy
    BY <1>1 DEF RepairInv
<1>3. pc # "idle" \/ undisturbed' =>
          \A c \in Nat : Firm(c) => /\ Firm(c)' /\ EventsUpTo(c)' = EventsUpTo(c)
                                    /\ \A lo \in Nat \ {0} : LogsIn(lo, c)' = LogsIn(lo, c)
                                    /\ \A lo \in Nat \ {0} : FactoryLogs(lo, c)' = FactoryLogs(lo, c)
    BY <1>0, FirmStays, FirmLogsStay
<1>4. /\ cursor \in Nat /\ toBlock \in Nat /\ checkpoint \in Nat /\ cursor + 1 \in Nat \ {0}
    BY <1>0 DEF PassOK, TablesOK
<1>5. HashesVouch'
    <2>1. ASSUME NEW h \in DOMAIN blocks, blocks[h] = HashAt(h)', pc = "dropBlocks" => h <= cursor
          PROVE  StoredUpTo(h) = EventsUpTo(h)'
        <3>1. h \in Nat /\ blocks[h] = HashAt(h) /\ SameUpTo(h)
            BY <1>0, <2>1, OldHashesStay
        <3>2. EventsUpTo(h)' = EventsUpTo(h)
            BY <1>0, <3>1, FirmLogsStay
        <3> QED
            BY <1>2, <2>1, <3>1, <3>2 DEF Trustworthy, HashesVouch
    <2> QED
        BY <1>1, <2>1 DEF HashesVouch, StoredUpTo
<1>6. StoredIsChains'
    <2> USE DEF Trustworthy, StoredIsChains, Rewinding, Reading, Storing
    <2>1. \A e \in events' : e.height >= StartBlock
        BY <1>1, <1>2
    <2>2. pc' = "dropEvents" => Firm(cursor)' /\ (StoredUpTo(cursor) = EventsUpTo(cursor))'
        BY <1>1, <1>2, <1>3, <1>4 DEF StoredUpTo
    <2>3. pc' \in {"dropBlocks", "rewind", "range"} \cup Reading =>
              Firm(cursor)' /\ (events = EventsUpTo(cursor))'
        BY <1>1, <1>2, <1>3, <1>4
    <2>4. pc' \in {"prune"} \cup Reading \cup Storing => Firm(toBlock)'
        BY <1>1, <1>2, <1>3, <1>4
    <2>5. pc' \in {"prune"} \cup Storing => (events = EventsUpTo(toBlock))'
        BY <1>1, <1>2, <1>3, <1>4
    <2>6. pc' = "idle" /\ undisturbed' => Firm(checkpoint)' /\ (events = EventsUpTo(checkpoint))'
        BY <1>1, <1>2, <1>3, <1>4
    <2>7. pc' = "prune" => checkpoint' = toBlock'
        BY <1>1, <1>2
    <2> QED
        BY <2>1, <2>2, <2>3, <2>4, <2>5, <2>6, <2>7
<1>7. CheckpointRecorded' /\ StoredIsWatched'
    BY <1>1, <1>2 DEF Trustworthy, CheckpointRecorded, StoredIsWatched, NewestRecorded
<1>8. BatchIsRange'
    BY <1>1, <1>2, <1>3, <1>4 DEF Trustworthy, StoredIsChains, BatchIsRange, Reading, Storing
<1> QED
    BY <1>5, <1>6, <1>7, <1>8 DEF Trustworthy

\* Of a range read whole: what is stored, cut at a height, is the chain's.
LEMMA StoredCut ==
    ASSUME ChainOK, NEW c \in Nat, NEW h \in Nat, h <= c, events = EventsUpTo(c)
    PROVE  StoredUpTo(h) = EventsUpTo(h)
PROOF
    BY LogsSplit DEF StoredUpTo, EventsUpTo

LEMMA EventsUpToAreLow ==
    ASSUME ChainOK, NEW c \in Nat
    PROVE  \A e \in EventsUpTo(c) : e.height <= c /\ e.height \in Nat /\ e.height >= StartBlock
PROOF
    BY LogsAreEvents DEF EventsUpTo

\* Before any block of the factory there is nothing to store.
LEMMA NothingBeforeStart ==
    ASSUME ChainOK, TablesOK, NEW c \in Nat, c < StartBlock, \A e \in events : e.height >= StartBlock
    PROVE  StoredUpTo(c) = {} /\ EventsUpTo(c) = {}
PROOF
<1>1. \A e \in events : e.height \in Nat
    BY DEF TablesOK, Event
<1> QED
    BY <1>1, NoLogsBeforeStart, IndexerAssumption DEF StoredUpTo, EventsUpTo

LEMMA StartKeepsRepair ==
    ASSUME Shape, Trustworthy, Start
    PROVE  Trustworthy'
PROOF
<1>0. ChainOK /\ TablesOK /\ PassOK
    BY DEF Shape
<1>1. /\ pc = "idle" /\ cursor' = checkpoint /\ walk' = Recorded
      /\ pc' = IF Recorded = {} THEN "range" ELSE "compare"
      /\ UNCHANGED <<chainVars, checkpoint, blocks, events, rows, batch, pending, toBlock>>
    BY DEF Start, logVars, cacheVars
<1>2. /\ NewestRecorded(checkpoint)
      /\ \A e \in events : e.height <= checkpoint /\ e.height >= StartBlock
      /\ checkpoint \in Nat
    BY <1>0, <1>1 DEF Trustworthy, CheckpointRecorded, StoredIsChains, TablesOK
<1>3. \A c : EventsUpTo(c)' = EventsUpTo(c)
    BY <1>1, LogsUnchanged
<1>4. HashesVouch'
    BY <1>1, <1>3 DEF Trustworthy, HashesVouch, HashAt, StoredUpTo, chainVars
<1>5. BatchIsRange' /\ StoredIsWatched'
    BY <1>1 DEF Trustworthy, BatchIsRange, StoredIsWatched, Storing
<1>6. checkpoint >= StartBlock => checkpoint \in Recorded
    BY <1>2, IndexerAssumption DEF Recorded, WindowStart, NewestRecorded
<1>7. CheckpointRecorded'
    <2>1. pc' = "compare" => checkpoint \in Recorded
        BY <1>1, <1>2, <1>6, IndexerAssumption DEF Recorded
    <2> QED
        BY <1>1, <1>2, <2>1 DEF CheckpointRecorded, NewestRecorded, Rewinding, Reading
<1>8. StoredIsChains'
    <2>1. pc' = "range" => checkpoint < StartBlock
        BY <1>1, <1>2, <1>6, IndexerAssumption
    <2>2. pc' = "range" => Firm(cursor)' /\ events' = EventsUpTo(cursor)'
        <3>1. ASSUME pc' = "range"
              PROVE  events = EventsUpTo(checkpoint)
            <4>1. StoredUpTo(checkpoint) = {} /\ EventsUpTo(checkpoint) = {}
                BY <1>0, <1>2, <2>1, <3>1, NothingBeforeStart
            <4>2. events = StoredUpTo(checkpoint)
                BY <1>2 DEF StoredUpTo
            <4> QED
                BY <4>1, <4>2
        <3>2. EventsUpTo(cursor)' = EventsUpTo(checkpoint)
            BY <1>1, <1>3 DEF EventsUpTo, LogsIn, chainVars
        <3> QED
            BY <1>1, <2>1, <3>1, <3>2 DEF Firm
    <2> QED
        BY <1>1, <1>2, <2>2 DEF StoredIsChains, Storing, Reading
<1> QED
    BY <1>4, <1>5, <1>7, <1>8 DEF Trustworthy

LEMMA CompareKeepsRepair ==
    ASSUME Shape, Trustworthy, NEW answer \in NoHash .. MaxMined, Compare(answer)
    PROVE  Trustworthy'
PROOF
<1> DEFINE h == Max(walk)
           agreed == answer = blocks[h]
<1>0. ChainOK /\ TablesOK /\ PassOK
    BY DEF Shape
<1>1. /\ pc = "compare" /\ Looked(h, answer)
      /\ diverged' = (diverged \/ ~agreed)
      /\ walk' = IF agreed THEN {} ELSE walk \ {h}
      /\ IF walk' # {} THEN UNCHANGED <<pc, cursor>>
         ELSE IF diverged' THEN pc' = "dropEvents" /\ cursor' = RewindTo(h, agreed)
         ELSE pc' = "range" /\ UNCHANGED cursor
      /\ UNCHANGED <<chainVars, checkpoint, blocks, events, rows, batch, pending, toBlock>>
    BY DEF Compare, logVars, cacheVars
<1>2. /\ h \in walk /\ h \in DOMAIN blocks /\ h \in Nat /\ h >= StartBlock /\ Settled(h)
      /\ \A k \in walk : k <= h
      /\ blocks[h] >= 1 /\ cursor = checkpoint /\ checkpoint \in Nat /\ checkpoint + 1 >= StartBlock
      /\ diverged \in BOOLEAN /\ walk \subseteq DOMAIN blocks
    BY <1>0, <1>1, WalkTyped DEF TablesOK, PassOK, ChainOK
<1> HIDE DEF h
<1>3. /\ NewestRecorded(checkpoint)
      /\ \A e \in events : e.height <= checkpoint /\ e.height >= StartBlock
      /\ ~diverged => checkpoint \in walk
      /\ h <= checkpoint
    BY <1>1, <1>2 DEF Trustworthy, CheckpointRecorded, StoredIsChains, NewestRecorded
<1>4. agreed => Firm(h) /\ StoredUpTo(h) = EventsUpTo(h)
    <2>1. ASSUME agreed
          PROVE  blocks[h] = HashAt(h) /\ h <= Len(chain)
        <3>1. blocks[h] = HashAt(h)
            BY <1>1, <1>2, <2>1 DEF Looked, NoHash
        <3>2. h \in 1 .. Len(chain)
            BY <1>2, <3>1 DEF HashAt, NoHash
        <3> QED
            BY <1>0, <1>2, <3>1, <3>2, ChainTyped
    <2> QED
        BY <1>1, <1>2, <2>1 DEF Firm, Trustworthy, HashesVouch
<1>5. \A c : EventsUpTo(c)' = EventsUpTo(c)
    BY <1>1, LogsUnchanged
<1>6. pc' \in {"compare", "dropEvents", "range"}
    BY <1>1
<1>7. HashesVouch'
    BY <1>1, <1>5, <1>6 DEF Trustworthy, HashesVouch, HashAt, StoredUpTo, chainVars
<1>8. BatchIsRange' /\ StoredIsWatched'
    BY <1>1, <1>6 DEF Trustworthy, BatchIsRange, StoredIsWatched, Storing
<1>9. pc' = "compare" => diverged' /\ cursor' = checkpoint
    BY <1>1, <1>2
<1>10. pc' = "range" => agreed /\ h = checkpoint /\ cursor' = checkpoint /\ events = StoredUpTo(checkpoint)
    <2>1. ASSUME pc' = "range"
          PROVE  ~diverged /\ agreed /\ cursor' = checkpoint
        BY <1>1, <1>2, <2>1
    <2>2. ASSUME pc' = "range"
          PROVE  h = checkpoint
        BY <1>2, <1>3, <2>1, <2>2
    <2>3. events = StoredUpTo(checkpoint)
        BY <1>3 DEF StoredUpTo
    <2> QED
        BY <2>1, <2>2, <2>3
<1>11. pc' = "dropEvents" =>
           /\ cursor' \in Nat /\ cursor' <= checkpoint
           /\ Firm(cursor') /\ StoredUpTo(cursor') = EventsUpTo(cursor')
           /\ cursor' >= StartBlock => cursor' \in DOMAIN blocks
    <2>1. CASE agreed
        <3>1. pc' = "dropEvents" => cursor' = h
            BY <1>1, <2>1 DEF RewindTo
        <3> QED
            BY <1>2, <1>3, <1>4, <2>1, <3>1
    <2>2. CASE ~agreed
        <3>1. pc' = "dropEvents" => cursor' = StartBlock - 1
            BY <1>1, <2>2 DEF RewindTo
        <3>2. StartBlock - 1 \in Nat /\ StartBlock - 1 < StartBlock /\ ~(StartBlock - 1 >= StartBlock)
            BY IndexerAssumption
        <3>3. StoredUpTo(StartBlock - 1) = {} /\ EventsUpTo(StartBlock - 1) = {}
            BY <1>0, <1>3, <3>2, NothingBeforeStart
        <3>4. StartBlock - 1 <= checkpoint
            BY <1>2, IndexerAssumption
        <3> QED
            BY <3>1, <3>2, <3>3, <3>4 DEF Firm
    <2> QED
        BY <2>1, <2>2
<1>12. CheckpointRecorded'
    BY <1>1, <1>3, <1>6, <1>9, <1>10, <1>11 DEF CheckpointRecorded, NewestRecorded, Rewinding, Reading
<1>13. StoredIsChains'
    <2>1. EventsUpTo(cursor)' = EventsUpTo(cursor') /\ StoredUpTo(cursor)' = StoredUpTo(cursor')
          /\ (Firm(cursor)' <=> Firm(cursor'))
        BY <1>1 DEF EventsUpTo, LogsIn, StoredUpTo, Firm, Settled, chainVars
    <2>2. pc' = "range" => Firm(cursor)' /\ events' = EventsUpTo(cursor)'
        BY <1>1, <1>4, <1>10, <2>1
    <2> QED
        BY <1>1, <1>3, <1>6, <1>11, <2>1, <2>2 DEF StoredIsChains, Storing, Reading
<1> QED
    BY <1>7, <1>8, <1>12, <1>13 DEF Trustworthy

\* Back to where the recorded hashes and the chain agree, table by table.
LEMMA RewindingKeepsRepair ==
    ASSUME Shape, Trustworthy, DropEvents \/ DropBlocks \/ Rewind
    PROVE  Trustworthy'
PROOF
<1>0. ChainOK /\ TablesOK /\ PassOK /\ ChainOK'
    BY ChainStays DEF Shape, Next, PassStep
<1>1. /\ UNCHANGED <<chainVars, rows, batch, pending, cursor, toBlock, diverged>>
      /\ cursor \in Nat /\ checkpoint \in Nat /\ cursor <= checkpoint
      /\ \A e \in events : e.height \in Nat
      /\ DOMAIN blocks \subseteq Nat
    BY <1>0 DEF DropEvents, DropBlocks, Rewind, envVars, cacheVars, passVars, PassOK, TablesOK,
        Trustworthy, CheckpointRecorded, Rewinding, Event
<1>2. /\ \A c : EventsUpTo(c)' = EventsUpTo(c)
      /\ EventsUpTo(cursor)' = EventsUpTo(cursor)
      /\ Firm(cursor)' <=> Firm(cursor)
    BY <1>1 DEF EventsUpTo, LogsIn, Firm, Settled, chainVars
<1>3. CASE DropEvents
    <2>1. /\ pc = "dropEvents" /\ pc' = "dropBlocks" /\ events' = StoredUpTo(cursor)
          /\ UNCHANGED <<checkpoint, blocks>>
          /\ Firm(cursor) /\ StoredUpTo(cursor) = EventsUpTo(cursor)
        BY <1>3 DEF DropEvents, StoredUpTo, Trustworthy, StoredIsChains
    <2>2. HashesVouch'
        <3>1. ASSUME NEW k \in DOMAIN blocks, blocks[k] = HashAt(k), k <= cursor
              PROVE  StoredUpTo(k)' = EventsUpTo(k)
            <4>1. StoredUpTo(k) = EventsUpTo(k)
                BY <2>1, <3>1 DEF Trustworthy, HashesVouch
            <4>2. StoredUpTo(k)' = StoredUpTo(k)
                BY <1>1, <2>1, <3>1 DEF StoredUpTo
            <4> QED
                BY <4>1, <4>2
        <3> QED
            BY <1>1, <1>2, <2>1, <3>1 DEF HashesVouch, HashAt, chainVars
    <2>3. StoredIsChains'
        BY <1>2, <2>1 DEF Trustworthy, StoredIsChains, Storing, Reading, StoredUpTo
    <2>4. CheckpointRecorded'
        BY <1>1, <2>1 DEF Trustworthy, CheckpointRecorded, Rewinding, Reading
    <2>5. BatchIsRange' /\ StoredIsWatched'
        BY <1>1, <2>1 DEF Trustworthy, BatchIsRange, StoredIsWatched, Storing, StoredUpTo
    <2> QED
        BY <2>2, <2>3, <2>4, <2>5 DEF Trustworthy
<1>4. CASE DropBlocks
    <2>1. /\ pc = "dropBlocks" /\ pc' = "rewind" /\ UNCHANGED <<checkpoint, events>>
          /\ DOMAIN blocks' = {k \in DOMAIN blocks : k <= cursor}
          /\ \A k \in DOMAIN blocks' : blocks'[k] = blocks[k]
          /\ Firm(cursor) /\ events = EventsUpTo(cursor)
        BY <1>4 DEF DropBlocks, Restrict, Trustworthy, StoredIsChains
    <2>2. HashesVouch'
        BY <1>1, <1>2, <2>1 DEF Trustworthy, HashesVouch, HashAt, StoredUpTo, chainVars
    <2>3. StoredIsChains'
        BY <1>2, <2>1 DEF Trustworthy, StoredIsChains, Storing, Reading
    <2>4. CheckpointRecorded'
        BY <1>1, <2>1 DEF Trustworthy, CheckpointRecorded, NewestRecorded, Rewinding, Reading
    <2>5. BatchIsRange' /\ StoredIsWatched'
        BY <1>1, <2>1 DEF Trustworthy, BatchIsRange, StoredIsWatched, Storing
    <2> QED
        BY <2>2, <2>3, <2>4, <2>5 DEF Trustworthy
<1>5. CASE Rewind
    <2>1. /\ pc = "rewind" /\ pc' = "range" /\ checkpoint' = cursor /\ UNCHANGED <<blocks, events>>
          /\ Firm(cursor) /\ events = EventsUpTo(cursor) /\ NewestRecorded(cursor)
        BY <1>5 DEF Rewind, Trustworthy, StoredIsChains, CheckpointRecorded, Reading
    <2>2. HashesVouch'
        BY <1>1, <1>2, <2>1 DEF Trustworthy, HashesVouch, HashAt, StoredUpTo, chainVars
    <2>3. StoredIsChains'
        BY <1>2, <2>1 DEF Trustworthy, StoredIsChains, Storing, Reading
    <2>4. CheckpointRecorded'
        BY <1>1, <2>1 DEF CheckpointRecorded, NewestRecorded, Rewinding, Reading
    <2>5. BatchIsRange' /\ StoredIsWatched'
        <3>1. \A e \in events : e.height <= cursor => e.height <= checkpoint
            BY <1>1
        <3> QED
            BY <1>1, <2>1, <3>1 DEF Trustworthy, BatchIsRange, StoredIsWatched, Storing
    <2> QED
        BY <2>2, <2>3, <2>4, <2>5 DEF Trustworthy
<1> QED
    BY <1>3, <1>4, <1>5

LEMMA ChoosingKeepsRepair ==
    ASSUME Shape, Trustworthy, ChooseRange
    PROVE  Trustworthy'
PROOF
<1>0. ChainOK /\ TablesOK /\ PassOK
    BY DEF Shape
<1>1. /\ pc = "range" /\ cursor = checkpoint /\ cursor \in Nat /\ cursor + 1 >= StartBlock
      /\ UNCHANGED <<chainVars, checkpoint, blocks, events, rows>>
      /\ Firm(cursor) /\ events = EventsUpTo(cursor) /\ NewestRecorded(cursor)
    BY <1>0 DEF ChooseRange, envVars, logVars, cacheVars, PassOK, Trustworthy, StoredIsChains,
        CheckpointRecorded, Reading
<1>2. \A c : EventsUpTo(c)' = EventsUpTo(c)
    BY <1>1, LogsUnchanged
<1>3. \A e \in events : e.height <= checkpoint /\ e.height >= StartBlock
    BY <1>0, <1>1, EventsUpToAreLow
<1>4. CASE NothingToRead(cursor + 1, SafeHead)
    <2>1. Idle
        BY <1>1, <1>4 DEF ChooseRange
    <2>2. HashesVouch'
        BY <1>1, <1>2, <2>1 DEF Trustworthy, HashesVouch, HashAt, StoredUpTo, chainVars, Idle
    <2>3. StoredIsChains'
        <3>1. EventsUpTo(checkpoint)' = EventsUpTo(cursor) /\ (Firm(checkpoint)' <=> Firm(cursor))
            BY <1>1 DEF EventsUpTo, LogsIn, Firm, Settled, chainVars
        <3> QED
            BY <1>1, <1>3, <2>1, <3>1 DEF StoredIsChains, Idle, Storing, Reading
    <2>4. CheckpointRecorded'
        BY <1>1, <1>3, <2>1 DEF CheckpointRecorded, NewestRecorded, Idle, Rewinding, Reading
    <2>5. BatchIsRange' /\ StoredIsWatched'
        BY <1>1, <2>1 DEF Trustworthy, BatchIsRange, StoredIsWatched, Idle, Storing
    <2> QED
        BY <2>2, <2>3, <2>4, <2>5 DEF Trustworthy
<1>5. CASE ~NothingToRead(cursor + 1, SafeHead)
    <2>1. /\ pc' = "readFactory" /\ UNCHANGED <<cursor, batch, pending>>
          /\ toBlock' \in Nat /\ Settled(toBlock') /\ toBlock' <= Len(chain)
        <3>1. toBlock' = Min({cursor + MaxBlocksPerPass, SafeHead})
              /\ pc' = "readFactory" /\ UNCHANGED <<cursor, batch, pending>>
            BY <1>5 DEF ChooseRange
        <3> QED
            BY <1>0, <1>1, <1>5, <3>1, RangeChosen
    <2>2. HashesVouch'
        BY <1>1, <1>2, <2>1 DEF Trustworthy, HashesVouch, HashAt, StoredUpTo, chainVars
    <2>3. StoredIsChains'
        <3>1. EventsUpTo(cursor)' = EventsUpTo(cursor) /\ (Firm(cursor)' <=> Firm(cursor))
            BY <1>1, <2>1 DEF EventsUpTo, LogsIn, Firm, Settled, chainVars
        <3>2. Firm(toBlock)'
            BY <1>1, <2>1 DEF Firm, Settled, chainVars
        <3> QED
            BY <1>1, <1>3, <2>1, <3>1, <3>2 DEF StoredIsChains, Storing, Reading
    <2>4. CheckpointRecorded'
        BY <1>1, <2>1 DEF CheckpointRecorded, NewestRecorded, Rewinding, Reading
    <2>5. BatchIsRange' /\ StoredIsWatched'
        BY <1>1, <2>1 DEF Trustworthy, BatchIsRange, StoredIsWatched, Storing
    <2> QED
        BY <2>2, <2>3, <2>4, <2>5 DEF Trustworthy
<1> QED
    BY <1>4, <1>5

LEMMA ReadingKeepsRepair ==
    ASSUME Shape, Trustworthy, ReadFactory \/ ReadMarkets
    PROVE  Trustworthy'
PROOF
<1>0. ChainOK /\ TablesOK /\ PassOK
    BY DEF Shape
<1>1. /\ pc \in {"readFactory", "readMarkets"} /\ pc' \in {"readMarkets", "persist"}
      /\ UNCHANGED <<chainVars, checkpoint, blocks, events, rows, cursor, toBlock, pending>>
      /\ cursor \in Nat /\ toBlock \in Nat /\ cursor + 1 \in Nat \ {0} /\ cursor = checkpoint
      /\ Firm(cursor) /\ events = EventsUpTo(cursor) /\ Firm(toBlock) /\ NewestRecorded(cursor)
      /\ \A e \in events : e.height >= StartBlock
    BY <1>0 DEF ReadFactory, ReadMarkets, envVars, logVars, cacheVars, PassOK, Trustworthy,
        StoredIsChains, CheckpointRecorded, Reading
<1>2. /\ \A c : EventsUpTo(c)' = EventsUpTo(c)
      /\ EventsUpTo(cursor)' = EventsUpTo(cursor)
      /\ (Firm(cursor)' <=> Firm(cursor)) /\ (Firm(toBlock)' <=> Firm(toBlock))
      /\ LogsIn(cursor + 1, toBlock)' = LogsIn(cursor + 1, toBlock)
      /\ FactoryLogs(cursor + 1, toBlock)' = FactoryLogs(cursor + 1, toBlock)
    BY <1>1 DEF EventsUpTo, LogsIn, FactoryLogs, Firm, Settled, chainVars
<1>3. HashesVouch'
    BY <1>1, <1>2 DEF Trustworthy, HashesVouch, HashAt, StoredUpTo, chainVars
<1>4. StoredIsChains'
    BY <1>1, <1>2 DEF StoredIsChains, Storing, Reading
<1>5. CheckpointRecorded' /\ StoredIsWatched'
    BY <1>1 DEF Trustworthy, CheckpointRecorded, NewestRecorded, StoredIsWatched, Rewinding, Reading
<1>6. BatchIsRange'
    <2>1. CASE ReadFactory
        BY <1>2, <2>1 DEF ReadFactory, BatchIsRange, Storing
    <2>2. CASE ReadMarkets
        <3> DEFINE watched == WatchSet({e.tx.market : e \in batch})
        <3>1. batch = FactoryLogs(cursor + 1, toBlock)
            BY <2>2 DEF ReadMarkets, Trustworthy, BatchIsRange
        <3>2. \A e \in FactoryLogs(cursor + 1, toBlock) : e.tx.market \in watched
            BY <3>1 DEF WatchSet
        <3>3. \A e \in LogsIn(1, cursor + 1 - 1) : e.tx.market \in watched
            <4>1. ASSUME NEW e \in LogsIn(1, cursor)
                  PROVE  e.tx.market \in watched
                <5>1. e.tx \in Txs /\ e \in events /\ e.height <= checkpoint
                    BY <1>0, <1>1, LogsAreEvents, EventsUpToAreLow DEF EventsUpTo
                <5>2. rows[e.tx.market] # {}
                    BY <5>1 DEF Trustworthy, StoredIsWatched
                <5> QED
                    BY <5>1, <5>2 DEF WatchSet, Txs
            <4> QED
                BY <1>1, <4>1
        <3>4. batch' = FactoryLogs(cursor + 1, toBlock) \cup MarketLogs(watched, cursor + 1, toBlock)
            BY <2>2, <3>1 DEF ReadMarkets
        <3> HIDE DEF watched
        <3>5. batch' = LogsIn(cursor + 1, toBlock)
            BY <1>0, <1>1, <3>2, <3>3, <3>4, WatchedLogsAreAll
        <3> QED
            BY <1>2, <2>2, <3>5 DEF ReadMarkets, BatchIsRange
    <2> QED
        BY <2>1, <2>2
<1> QED
    BY <1>3, <1>4, <1>5, <1>6 DEF Trustworthy

LEMMA PersistKeepsRepair ==
    ASSUME Shape, Trustworthy, Persist
    PROVE  Trustworthy'
PROOF
<1>0. ChainOK /\ TablesOK /\ PassOK
    BY DEF Shape
<1>1. /\ pc = "persist" /\ pc' = "attach"
      /\ UNCHANGED <<chainVars, checkpoint, blocks, rows, cursor, toBlock, batch>>
      /\ cursor \in Nat /\ toBlock \in Nat /\ cursor + 1 \in Nat \ {0} /\ cursor = checkpoint
      /\ cursor < toBlock /\ events = EventsUpTo(cursor) /\ Firm(toBlock) /\ NewestRecorded(cursor)
      /\ batch = LogsIn(cursor + 1, toBlock)
      /\ \A k \in DOMAIN blocks : k \in Nat /\ k <= cursor
    BY <1>0 DEF Persist, envVars, cacheVars, PassOK, TablesOK, Trustworthy, StoredIsChains,
        CheckpointRecorded, NewestRecorded, BatchIsRange, Reading
<1>2. LogsIn(1, toBlock) = events \cup batch
    BY <1>0, <1>1, LogsSplit DEF EventsUpTo
<1>3. events' = events \cup batch
    <2>1. ASSUME NEW e \in batch, NEW f \in events, e.tx = f.tx
          PROVE  e = f
        <3>1. e \in LogsIn(1, toBlock) /\ f \in LogsIn(1, toBlock)
            BY <1>2, <2>1
        <3> QED
            BY <1>0, <1>1, <2>1, <3>1, OneEventPerTx
    <2>2. \A e \in batch : e.tx \in {f.tx : f \in events} => e \in events
        BY <2>1
    <2> QED
        BY <2>2 DEF Persist
<1>4. \A e \in batch : e.height >= cursor + 1 /\ e.height >= StartBlock /\ e.height \in Nat
    BY <1>0, <1>1, LogsAreEvents
<1>5. HashesVouch'
    <2>1. ASSUME NEW k \in DOMAIN blocks
          PROVE  StoredUpTo(k)' = StoredUpTo(k)
        <3>1. \A e \in batch : ~(e.height <= k)
            BY <1>1, <1>4, <2>1
        <3> QED
            BY <1>3, <3>1 DEF StoredUpTo
    <2>2. \A c : EventsUpTo(c)' = EventsUpTo(c)
        BY <1>1, LogsUnchanged
    <2> QED
        BY <1>1, <2>1, <2>2 DEF Trustworthy, HashesVouch, HashAt, chainVars
<1>6. EventsUpTo(toBlock)' = LogsIn(1, toBlock) /\ (Firm(toBlock)' <=> Firm(toBlock))
      /\ LogsIn(cursor + 1, toBlock)' = LogsIn(cursor + 1, toBlock)
    BY <1>1 DEF EventsUpTo, LogsIn, Firm, Settled, chainVars
<1>7. StoredIsChains'
    <2>1. \A e \in events' : e.height >= StartBlock
        BY <1>3, <1>4 DEF Trustworthy, StoredIsChains
    <2> QED
        BY <1>1, <1>2, <1>3, <1>6, <2>1 DEF StoredIsChains, Storing, Reading
<1>8. CheckpointRecorded'
    <2>1. \A k \in DOMAIN blocks : k <= toBlock
        BY <1>1
    <2> QED
        BY <1>1, <2>1 DEF CheckpointRecorded, Rewinding, Reading
<1>9. BatchIsRange'
    BY <1>1, <1>6 DEF BatchIsRange
<1>10. StoredIsWatched'
    <2>1. \A e \in batch : ~(e.height <= checkpoint)
        BY <1>1, <1>4
    <2> QED
        BY <1>1, <1>3, <2>1 DEF Trustworthy, StoredIsWatched
<1> QED
    BY <1>5, <1>7, <1>8, <1>9, <1>10 DEF Trustworthy

LEMMA CachingKeepsRepair ==
    ASSUME Shape, Trustworthy,
           \/ AttachDone \/ RefreshDone
           \/ \E m \in Markets : Attach(m) \/ Refresh(m)
    PROVE  Trustworthy'
PROOF
<1>0. ChainOK /\ TablesOK /\ PassOK
    BY DEF Shape
<1>1. /\ UNCHANGED <<chainVars, checkpoint, blocks, events, cursor, toBlock, batch>>
      /\ pc \in {"attach", "refresh"} /\ pc' \in {"attach", "refresh", "record"}
      /\ rows \in [Markets -> SUBSET Txs]
    BY <1>0 DEF AttachDone, RefreshDone, Attach, Refresh, envVars, logVars, cacheVars, TablesOK
<1>2. /\ \A c : EventsUpTo(c)' = EventsUpTo(c)
      /\ EventsUpTo(toBlock)' = EventsUpTo(toBlock) /\ (Firm(toBlock)' <=> Firm(toBlock))
      /\ LogsIn(cursor + 1, toBlock)' = LogsIn(cursor + 1, toBlock)
    BY <1>1 DEF EventsUpTo, LogsIn, Firm, Settled, chainVars
<1>3. HashesVouch'
    BY <1>1, <1>2 DEF Trustworthy, HashesVouch, HashAt, StoredUpTo, chainVars
<1>4. StoredIsChains'
    BY <1>1, <1>2 DEF Trustworthy, StoredIsChains, Storing, Reading
<1>5. CheckpointRecorded' /\ BatchIsRange'
    BY <1>1, <1>2 DEF Trustworthy, CheckpointRecorded, BatchIsRange, Storing, Rewinding, Reading
<1>6. StoredIsWatched'
    <2>1. \A m \in Markets : rows[m] # {} => rows'[m] # {}
        <3>1. ASSUME NEW m \in Markets, Refresh(m)
              PROVE  rows' = [rows EXCEPT ![m] = ContractState(m)] /\ ContractState(m) # {}
            BY <3>1 DEF Refresh, Exists
        <3> QED
            BY <1>1, <3>1 DEF AttachDone, RefreshDone, Attach, cacheVars
    <2>2. /\ \A e \in events : e.tx.market \in Markets
          /\ \A e \in batch : e.tx.market \in Markets
        BY <1>0 DEF TablesOK, PassOK, Event, Txs
    <2>3. ASSUME pc' \in {"refresh", "record"}, NEW e \in batch
          PROVE  rows'[e.tx.market] # {} \/ (pc' = "refresh" /\ e.tx.market \in pending')
        <3>1. CASE AttachDone
            BY <2>3, <3>1 DEF AttachDone, Touched
        <3>2. CASE RefreshDone
            BY <2>1, <2>2, <2>3, <3>2 DEF RefreshDone, Trustworthy, StoredIsWatched
        <3>3. ASSUME NEW m \in Markets, Attach(m)
              PROVE  FALSE
            BY <2>3, <3>3 DEF Attach
        <3>4. ASSUME NEW m \in Markets, Refresh(m)
              PROVE  rows'[e.tx.market] # {} \/ (pc' = "refresh" /\ e.tx.market \in pending')
            <4>1. /\ rows' = [rows EXCEPT ![m] = ContractState(m)] /\ ContractState(m) # {}
                  /\ pending' = pending \ {m} /\ pc = "refresh" /\ pc' = "refresh"
                BY <3>4 DEF Refresh, Exists
            <4>2. rows[e.tx.market] # {} \/ e.tx.market \in pending
                BY <2>3, <4>1 DEF Trustworthy, StoredIsWatched
            <4> QED
                BY <1>1, <2>1, <2>2, <2>3, <4>1, <4>2
        <3> QED
            BY <3>1, <3>2, <3>3, <3>4
    <2> QED
        BY <1>1, <2>1, <2>2, <2>3 DEF Trustworthy, StoredIsWatched
<1> QED
    BY <1>3, <1>4, <1>5, <1>6 DEF Trustworthy

LEMMA RecordingKeepsRepair ==
    ASSUME Shape, Trustworthy, NEW answer \in NoHash .. MaxMined, RecordBlock(answer), ~blind'
    PROVE  Trustworthy'
PROOF
<1>0. ChainOK /\ TablesOK /\ PassOK
    BY DEF Shape
<1>1. /\ pc = "record" /\ pc' = IF height = toBlock THEN "save" ELSE "record"
      /\ UNCHANGED <<chainVars, checkpoint, events, rows, cursor, toBlock, batch, pending>>
      /\ height \in cursor + 1 .. toBlock /\ toBlock \in Nat /\ cursor \in Nat
      /\ cursor + 1 >= StartBlock
      /\ Firm(toBlock) /\ events = EventsUpTo(toBlock)
      /\ \A k \in DOMAIN blocks : k <= toBlock
    BY <1>0 DEF RecordBlock, cacheVars, PassOK, Storing, Trustworthy, StoredIsChains, CheckpointRecorded
<1>2. answer = HashAt(height)
    BY Zenon DEF RecordBlock
<1>3. height \in 1 .. Len(chain) /\ height \in Nat
    BY <1>0, <1>1, ChainTyped, IndexerAssumption DEF Firm
<1>4. answer # NoHash
    BY <1>0, <1>2, <1>3 DEF HashAt, NoHash, ChainOK
<1>5. /\ DOMAIN blocks' = DOMAIN blocks \cup {height}
      /\ \A k \in DOMAIN blocks' : blocks'[k] = IF k = height THEN HashAt(height) ELSE blocks[k]
    BY <1>2, <1>4 DEF RecordBlock
<1>6. /\ \A c : EventsUpTo(c)' = EventsUpTo(c)
      /\ EventsUpTo(toBlock)' = EventsUpTo(toBlock) /\ (Firm(toBlock)' <=> Firm(toBlock))
      /\ LogsIn(cursor + 1, toBlock)' = LogsIn(cursor + 1, toBlock)
    BY <1>1 DEF EventsUpTo, LogsIn, Firm, Settled, chainVars
<1>7. StoredUpTo(height) = EventsUpTo(height)
    BY <1>0, <1>1, <1>3, StoredCut
<1>8. HashesVouch'
    BY <1>1, <1>5, <1>6, <1>7 DEF Trustworthy, HashesVouch, HashAt, StoredUpTo, chainVars
<1>9. StoredIsChains'
    BY <1>1, <1>6 DEF Trustworthy, StoredIsChains, Storing, Reading
<1>10. CheckpointRecorded'
    <2>1. \A k \in DOMAIN blocks' : k <= toBlock
        BY <1>1, <1>5
    <2>2. pc' = "save" => toBlock \in DOMAIN blocks'
        BY <1>1, <1>5
    <2> QED
        BY <1>1, <2>1, <2>2 DEF CheckpointRecorded, NewestRecorded, Rewinding, Reading
<1>11. BatchIsRange' /\ StoredIsWatched'
    BY <1>1, <1>6 DEF Trustworthy, BatchIsRange, StoredIsWatched, Storing
<1> QED
    BY <1>8, <1>9, <1>10, <1>11 DEF Trustworthy

LEMMA SavingKeepsRepair ==
    ASSUME Shape, Trustworthy, Save \/ Prune
    PROVE  Trustworthy'
PROOF
<1>0. ChainOK /\ TablesOK /\ PassOK
    BY DEF Shape
<1>1. /\ UNCHANGED <<chainVars, events, rows>> /\ checkpoint' = toBlock
      /\ toBlock \in Nat /\ cursor \in Nat /\ cursor < toBlock
      /\ Firm(toBlock) /\ events = EventsUpTo(toBlock) /\ NewestRecorded(toBlock)
      /\ \A e \in events : e.height <= toBlock /\ e.height >= StartBlock /\ e.height \in Nat
    <2>1. /\ UNCHANGED <<chainVars, events, rows>> /\ checkpoint' = toBlock
          /\ toBlock \in Nat /\ cursor \in Nat /\ cursor < toBlock
          /\ Firm(toBlock) /\ events = EventsUpTo(toBlock) /\ NewestRecorded(toBlock)
        BY <1>0 DEF Save, Prune, envVars, cacheVars, PassOK, Storing, Trustworthy, StoredIsChains,
            CheckpointRecorded
    <2> QED
        BY <1>0, <2>1, EventsUpToAreLow
<1>2. /\ \A c : EventsUpTo(c)' = EventsUpTo(c)
      /\ EventsUpTo(checkpoint)' = EventsUpTo(toBlock) /\ (Firm(checkpoint)' <=> Firm(toBlock))
    BY <1>1 DEF EventsUpTo, LogsIn, Firm, Settled, chainVars
<1>3. CASE Save
    <2>1. /\ pc = "save" /\ pc' = "prune" /\ cursor = checkpoint
          /\ UNCHANGED <<blocks, cursor, toBlock, batch, pending>>
          /\ batch = LogsIn(cursor + 1, toBlock)
        BY <1>0, <1>3 DEF Save, passVars, PassOK, Storing, Trustworthy, BatchIsRange
    <2>2. HashesVouch'
        BY <1>1, <1>2, <2>1 DEF Trustworthy, HashesVouch, HashAt, StoredUpTo, chainVars
    <2>3. StoredIsChains'
        BY <1>1, <1>2, <2>1 DEF StoredIsChains, Storing, Reading
    <2>4. CheckpointRecorded'
        BY <1>1, <2>1 DEF CheckpointRecorded, NewestRecorded, Rewinding, Reading
    <2>5. BatchIsRange'
        BY <2>1 DEF BatchIsRange, Storing
    <2>6. StoredIsWatched'
        <3>1. ASSUME NEW e \in events
              PROVE  rows[e.tx.market] # {}
            <4>1. e.height <= checkpoint \/ e \in batch
                <5>1. events = LogsIn(1, cursor) \cup batch
                    BY <1>0, <1>1, <2>1, LogsSplit DEF EventsUpTo
                <5>2. LogsIn(1, cursor) = {f \in LogsIn(1, toBlock) : f.height <= cursor}
                    BY <1>0, <1>1, LogsSplit
                <5> QED
                    BY <2>1, <3>1, <5>1, <5>2
            <4> QED
                BY <2>1, <3>1, <4>1 DEF Trustworthy, StoredIsWatched
        <3> QED
            BY <1>1, <2>1, <3>1 DEF StoredIsWatched
    <2> QED
        BY <2>2, <2>3, <2>4, <2>5, <2>6 DEF Trustworthy
<1>4. CASE Prune
    <2>1. /\ Idle /\ pc = "prune" /\ checkpoint = toBlock
          /\ DOMAIN blocks' = {k \in DOMAIN blocks : k >= PruneBelow}
          /\ \A k \in DOMAIN blocks' : blocks'[k] = blocks[k]
        BY <1>4 DEF Prune, Restrict, Trustworthy, StoredIsChains
    <2>2. HashesVouch'
        BY <1>1, <1>2, <2>1 DEF Trustworthy, HashesVouch, HashAt, StoredUpTo, chainVars, Idle
    <2>3. StoredIsChains'
        BY <1>1, <1>2, <2>1 DEF StoredIsChains, Idle, Storing, Reading
    <2>4. CheckpointRecorded'
        <3>1. toBlock >= PruneBelow
            BY <1>1, IndexerAssumption DEF PruneBelow
        <3> QED
            BY <1>1, <2>1, <3>1 DEF CheckpointRecorded, NewestRecorded, Idle, Rewinding, Reading
    <2>5. BatchIsRange' /\ StoredIsWatched'
        BY <1>1, <2>1 DEF Trustworthy, BatchIsRange, StoredIsWatched, Idle, Storing
    <2> QED
        BY <2>2, <2>3, <2>4, <2>5 DEF Trustworthy
<1> QED
    BY <1>3, <1>4

LEMMA RepairInit == Init => RepairInv
PROOF
<1> SUFFICES ASSUME Init
             PROVE  Trustworthy
    BY DEF RepairInv
<1>1. /\ pc = "idle" /\ undisturbed = FALSE /\ events = {} /\ DOMAIN blocks = {}
      /\ checkpoint = StartBlock - 1
    BY DEF Init
<1>2. ~(checkpoint >= StartBlock)
    BY <1>1, IndexerAssumption
<1> QED
    BY <1>1, <1>2 DEF Trustworthy, HashesVouch, StoredIsChains, CheckpointRecorded, NewestRecorded,
        BatchIsRange, StoredIsWatched, Storing, Reading, Rewinding

\* A pass that something went wrong with unseen is blind; every other step of a
\* pass is one of the above.
LEMMA PassKeepsRepair ==
    ASSUME Shape, RepairInv, PassStep \/ Abandon
    PROVE  RepairInv'
PROOF
<1> SUFFICES ASSUME ~blind'
             PROVE  Trustworthy'
    BY DEF RepairInv
<1>1. ~Abandon /\ \A m \in Markets : ~RefreshFails(m)
    BY DEF Abandon, RefreshFails
<1>2. ASSUME NEW answer \in NoHash .. MaxMined, RecordBlock(answer)
      PROVE  ~blind
    BY <1>2, Zenon DEF RecordBlock
<1>3. ~blind
    <2>1. ASSUME \/ Start \/ DropEvents \/ DropBlocks \/ Rewind \/ ChooseRange
                 \/ ReadFactory \/ ReadMarkets \/ Persist \/ AttachDone \/ RefreshDone \/ Save \/ Prune
                 \/ \E answer \in NoHash .. MaxMined : Compare(answer)
                 \/ \E m \in Markets : Attach(m) \/ Refresh(m)
          PROVE  blind' = blind
        BY <2>1 DEF Start, DropEvents, DropBlocks, Rewind, ChooseRange, ReadFactory, ReadMarkets,
            Persist, AttachDone, RefreshDone, Save, Prune, Compare, Attach, Refresh, envVars
    <2> QED
        BY <1>1, <1>2, <2>1 DEF PassStep
<1>4. Trustworthy
    BY <1>3 DEF RepairInv
<1> QED
    BY <1>1, <1>4, StartKeepsRepair, CompareKeepsRepair, RewindingKeepsRepair, ChoosingKeepsRepair,
       ReadingKeepsRepair, PersistKeepsRepair, CachingKeepsRepair, RecordingKeepsRepair,
       SavingKeepsRepair DEF PassStep

LEMMA RepairInductive ==
    ASSUME Shape, RepairInv, [Next]_vars
    PROVE  RepairInv'
PROOF
<1>1. CASE UNCHANGED vars
    <2>1. /\ UNCHANGED <<chainVars, checkpoint, blocks, events, rows, cursor, walk, diverged, toBlock,
                          batch, pending, pc, undisturbed, blind>>
        BY <1>1 DEF vars, envVars, logVars, cacheVars, passVars
    <2>2. /\ HashesVouch' <=> HashesVouch
          /\ StoredIsChains' <=> StoredIsChains
        BY <2>1 DEF HashesVouch, StoredIsChains, HashAt, StoredUpTo, EventsUpTo, LogsIn, Firm, Settled,
            chainVars
    <2>3. /\ CheckpointRecorded' <=> CheckpointRecorded
          /\ StoredIsWatched' <=> StoredIsWatched
        BY <2>1 DEF CheckpointRecorded, NewestRecorded, StoredIsWatched
    <2>4. BatchIsRange' <=> BatchIsRange
        BY <2>1 DEF BatchIsRange, LogsIn, FactoryLogs, chainVars
    <2> QED
        BY <2>1, <2>2, <2>3, <2>4 DEF RepairInv, Trustworthy
<1>2. CASE Next
    BY <1>2, EnvironmentKeepsRepair, PassKeepsRepair DEF Next
<1> QED
    BY <1>1, <1>2

\* A pass repairs what any reorganisation did before it began: when it ends the
\* events stored are the chain's, unless something went wrong that no pass looks for.
THEOREM PassesRepair == Spec => []RepairedByPass
PROOF
<1>1. Init => Shape /\ RepairInv
    BY ShapeInit, RepairInit
<1>2. Shape /\ RepairInv /\ [Next]_vars => (Shape /\ RepairInv)'
    BY ShapeInductive, RepairInductive
<1>3. RepairInv => RepairedByPass
    BY DEF RepairInv, Trustworthy, StoredIsChains, RepairedByPass
<1> QED
    BY <1>1, <1>2, <1>3, PTL DEF Spec

=============================================================================
