----------------------------- MODULE Stores_proofs -----------------------------
(***************************************************************************)
(* That the two implementations of the repositories agree, and that a walk *)
(* through the list of markets sees every market: for any wallets, hashes, *)
(* blocks and events, any number of faults, and any page size.             *)
(***************************************************************************)
EXTENDS Stores, FiniteSums_proofs, SequenceTheorems, TLAPS

-----------------------------------------------------------------------------
(* A table in memory is a sequence that enumerates the rows of the other. *)

LEMMA FunctionIsSeq ==
    ASSUME NEW n \in Nat, NEW S, NEW s \in [1 .. n -> S]
    PROVE  s \in Seq(S) /\ Len(s) = n /\ DOMAIN s = 1 .. n
PROOF
    OBVIOUS

\* The two modules and this one count in the same way.
LEMMA OneCardinality ==
    ASSUME NEW S
    PROVE  D!Cardinality(S) = Cardinality(S) /\ M!Cardinality(S) = Cardinality(S)
PROOF
    BY DEF D!Cardinality, M!Cardinality, Cardinality

Enumerates(s, S) ==
    /\ s \in Seq(S)
    /\ \A r \in S : \E i \in DOMAIN s : s[i] = r
    /\ \A i, j \in DOMAIN s : s[i] = s[j] => i = j

LEMMA EnumerationIsWhole ==
    ASSUME NEW s, NEW S, Enumerates(s, S)
    PROVE  /\ Len(s) \in Nat
           /\ DOMAIN s = 1 .. Len(s)
           /\ s \in [1 .. Len(s) -> S]
           /\ IsFiniteSet(S)
           /\ Cardinality(S) = Len(s)
           /\ s \in D!SetToSeqs(S)
PROOF
<1>1. Len(s) \in Nat /\ DOMAIN s = 1 .. Len(s) /\ s \in [1 .. Len(s) -> S]
    BY LenProperties DEF Enumerates
<1>2. s \in Bijection(1 .. Len(s), S)
    BY <1>1 DEF Enumerates, Bijection, Injection, Surjection, IsInjective
<1>3. IsFiniteSet(1 .. Len(s)) /\ Cardinality(1 .. Len(s)) = Len(s)
    BY <1>1, FS_Interval
<1>4. IsFiniteSet(S) /\ Cardinality(S) = Len(s)
    BY <1>2, <1>3, FS_Bijection DEF ExistsBijection
<1>5. \A i, j \in 1 .. Len(s) : i # j => s[i] # s[j]
    BY <1>1 DEF Enumerates
<1>6. s \in D!SetToSeqs(S)
    BY <1>1, <1>4, <1>5, OneCardinality DEF D!SetToSeqs
<1> QED
    BY <1>1, <1>4, <1>6

LEMMA NothingToEnumerate == Enumerates(<<>>, {})
PROOF
    BY EmptySeq DEF Enumerates

LEMMA EnumerateOneMore ==
    ASSUME NEW s, NEW S, Enumerates(s, S), NEW row, row \notin S
    PROVE  /\ Enumerates(Append(s, row), S \cup {row})
           /\ Len(Append(s, row)) = Len(s) + 1
           /\ Append(s, row)[Len(s) + 1] = row
           /\ \A i \in DOMAIN s : Append(s, row)[i] = s[i]
PROOF
<1>1. Len(s) \in Nat /\ DOMAIN s = 1 .. Len(s) /\ s \in [1 .. Len(s) -> S]
    BY EnumerationIsWhole
<1>2. s \in Seq(S \cup {row})
    BY SeqMonotonic DEF Enumerates
<1> DEFINE t == Append(s, row)
<1>3. t \in Seq(S \cup {row}) /\ Len(t) = Len(s) + 1 /\ t[Len(s) + 1] = row /\ \A i \in DOMAIN s : t[i] = s[i]
    BY <1>1, <1>2
<1>4. DOMAIN t = 1 .. (Len(s) + 1)
    BY <1>3, LenProperties
<1> HIDE DEF t
<1>5. \A r \in S \cup {row} : \E i \in DOMAIN t : t[i] = r
    BY <1>1, <1>3, <1>4 DEF Enumerates
<1>6. \A i, j \in DOMAIN t : t[i] = t[j] => i = j
  <2> SUFFICES ASSUME NEW i \in DOMAIN t, NEW j \in DOMAIN t, t[i] = t[j] PROVE i = j
    OBVIOUS
  <2>1. (i \in DOMAIN s \/ i = Len(s) + 1) /\ (j \in DOMAIN s \/ j = Len(s) + 1)
    BY <1>1, <1>4
  <2>2. \A k \in DOMAIN s : t[k] \in S /\ t[k] # row
    BY <1>1, <1>3
  <2> QED
    BY <2>1, <2>2, <1>3 DEF Enumerates
<1> QED
    BY <1>3, <1>5, <1>6 DEF Enumerates, t

LEMMA EnumerateReplaced ==
    ASSUME NEW s, NEW S, Enumerates(s, S), NEW i \in DOMAIN s, NEW row, row \notin S \ {s[i]}
    PROVE  /\ Enumerates([s EXCEPT ![i] = row], (S \ {s[i]}) \cup {row})
           /\ Len([s EXCEPT ![i] = row]) = Len(s)
           /\ DOMAIN [s EXCEPT ![i] = row] = DOMAIN s
PROOF
<1>1. Len(s) \in Nat /\ DOMAIN s = 1 .. Len(s) /\ s \in [1 .. Len(s) -> S]
    BY EnumerationIsWhole
<1> DEFINE t == [s EXCEPT ![i] = row]
           T == (S \ {s[i]}) \cup {row}
<1>2. \A j \in DOMAIN s : j # i => t[j] = s[j] /\ s[j] \in S \ {s[i]}
    BY <1>1 DEF Enumerates
<1>3. t[i] = row /\ DOMAIN t = 1 .. Len(s)
    BY <1>1
<1>4. t \in [1 .. Len(s) -> T]
    BY <1>1, <1>2, <1>3
<1>5. t \in Seq(T) /\ Len(t) = Len(s)
  <2> HIDE DEF t, T
  <2> QED
    BY <1>4, <1>1, FunctionIsSeq
<1>6. \A r \in T : \E j \in DOMAIN t : t[j] = r
    BY <1>1, <1>2, <1>3 DEF Enumerates
<1>7. \A j, k \in DOMAIN t : t[j] = t[k] => j = k
  <2> SUFFICES ASSUME NEW j \in DOMAIN t, NEW k \in DOMAIN t, t[j] = t[k] PROVE j = k
    OBVIOUS
  <2> HIDE DEF t, T
  <2>1. CASE j = i /\ k # i
    BY <2>1, <1>1, <1>2, <1>3
  <2>2. CASE k = i /\ j # i
    BY <2>2, <1>1, <1>2, <1>3
  <2>3. CASE k # i /\ j # i
    BY <2>3, <1>1, <1>2, <1>3 DEF Enumerates
  <2> QED
    BY <2>1, <2>2, <2>3
<1> QED
    BY <1>1, <1>3, <1>5, <1>6, <1>7 DEF Enumerates

-----------------------------------------------------------------------------
(* Rows by rank: filter() and sort(). *)

\* `ahead' orders the indexes it is about.
Orders(ahead, I) ==
    /\ ahead \in [I -> SUBSET I]
    /\ \A i \in I : i \notin ahead[i]
    /\ \A i, j \in I : i = j \/ i \in ahead[j] \/ j \in ahead[i]
    /\ \A i, j, k \in I : i \in ahead[j] /\ j \in ahead[k] => i \in ahead[k]

Placed(ahead) ==
    [k \in 1 .. Cardinality(DOMAIN ahead) |->
        CHOOSE i \in DOMAIN ahead : Cardinality(ahead[i]) = k - 1]

LEMMA EveryRankIsTaken ==
    ASSUME NEW I, IsFiniteSet(I), NEW ahead, Orders(ahead, I)
    PROVE  /\ \A i \in I : Cardinality(ahead[i]) \in 0 .. (Cardinality(I) - 1)
           /\ \A i, j \in I : i \in ahead[j] <=> Cardinality(ahead[i]) < Cardinality(ahead[j])
           /\ \A r \in 0 .. (Cardinality(I) - 1) : \E i \in I : Cardinality(ahead[i]) = r
PROOF
<1> DEFINE n == Cardinality(I)
           rank == [i \in I |-> Cardinality(ahead[i])]
<1>1. n \in Nat
    BY FS_CardinalityType
<1>2. \A i \in I : IsFiniteSet(ahead[i]) /\ rank[i] \in Nat
    BY FS_Subset, FS_CardinalityType DEF Orders
<1>3. ASSUME NEW i \in I PROVE rank[i] < n
  <2>1. ahead[i] \in SUBSET I /\ ahead[i] # I
    BY DEF Orders
  <2>2. rank[i] <= n /\ rank[i] # n
    BY <2>1, FS_Subset
  <2> QED
    BY <1>1, <1>2, <2>2
<1>4. ASSUME NEW i \in I, NEW j \in I, i \in ahead[j] PROVE rank[i] < rank[j]
  <2>1. ahead[i] \in SUBSET ahead[j] /\ ahead[i] # ahead[j]
    BY <1>4 DEF Orders
  <2>2. rank[i] <= rank[j] /\ rank[i] # rank[j]
    BY <2>1, <1>2, FS_Subset
  <2> QED
    BY <1>2, <2>2
<1>5. ASSUME NEW i \in I, NEW j \in I, rank[i] < rank[j] PROVE i \in ahead[j]
    BY <1>2, <1>4, <1>5 DEF Orders
<1>6. rank \in [I -> 0 .. (n - 1)]
    BY <1>1, <1>2, <1>3
<1>7. IsInjective(rank)
    BY <1>2, <1>4 DEF Orders, IsInjective
<1>8. IsFiniteSet(0 .. (n - 1)) /\ Cardinality(0 .. (n - 1)) = n
    BY <1>1, FS_Interval
<1>9. rank \in Surjection(I, 0 .. (n - 1))
    BY <1>6, <1>7, <1>8, FS_Injection DEF Injection
<1>10. \A r \in 0 .. (n - 1) : \E i \in I : rank[i] = r
    BY <1>9 DEF Surjection
<1> QED
    BY <1>2, <1>4, <1>5, <1>6, <1>10

LEMMA PlacesAreFilled ==
    ASSUME NEW I, IsFiniteSet(I), NEW ahead, Orders(ahead, I)
    PROVE  /\ Cardinality(I) \in Nat
           /\ Placed(ahead) \in [1 .. Cardinality(I) -> I]
           /\ \A k, l \in 1 .. Cardinality(I) : k < l => Placed(ahead)[k] \in ahead[Placed(ahead)[l]]
           /\ \A k, l \in 1 .. Cardinality(I) : Placed(ahead)[k] = Placed(ahead)[l] => k = l
           /\ \A i \in I : \E k \in 1 .. Cardinality(I) : Placed(ahead)[k] = i
PROOF
<1> DEFINE n == Cardinality(I)
           p == Placed(ahead)
<1>1. n \in Nat /\ DOMAIN ahead = I
    BY FS_CardinalityType DEF Orders
<1>2. ASSUME NEW k \in 1 .. n PROVE p[k] \in I /\ Cardinality(ahead[p[k]]) = k - 1
  <2>1. k - 1 \in 0 .. (n - 1)
    BY <1>1
  <2>2. \E i \in I : Cardinality(ahead[i]) = k - 1
    BY <2>1, EveryRankIsTaken
  <2> QED
    BY <1>1, <2>2 DEF Placed
<1>3. p \in [1 .. n -> I]
    BY <1>1, <1>2 DEF Placed
<1> HIDE DEF p
<1>4. \A k, l \in 1 .. n : k < l => p[k] \in ahead[p[l]]
    BY <1>1, <1>2, EveryRankIsTaken
<1>5. \A k, l \in 1 .. n : p[k] = p[l] => k = l
    BY <1>1, <1>2
<1>6. ASSUME NEW i \in I PROVE \E k \in 1 .. n : p[k] = i
  <2> DEFINE r == Cardinality(ahead[i])
  <2>1. r \in 0 .. (n - 1)
    BY EveryRankIsTaken
  <2>2. r + 1 \in 1 .. n /\ (r + 1) - 1 = r
    BY <1>1, <2>1
  <2>3. p[r + 1] \in I /\ Cardinality(ahead[p[r + 1]]) = r
    BY <1>2, <2>2
  <2>4. p[r + 1] = i
    BY <2>3, <2>1, EveryRankIsTaken DEF Orders
  <2> QED
    BY <2>2, <2>4
<1> QED
    BY <1>1, <1>3, <1>4, <1>5, <1>6 DEF p

\* What is arranged is rows at indexes, each once, in the order.
LEMMA ArrangedByPlace ==
    ASSUME NEW s, NEW S, Enumerates(s, S), NEW ahead, NEW I \in SUBSET DOMAIN s, Orders(ahead, I)
    PROVE  /\ IsFiniteSet(I)
           /\ Enumerates(M!Arranged(s, ahead), {s[i] : i \in I})
           /\ Len(M!Arranged(s, ahead)) = Cardinality(I)
           /\ \A k \in DOMAIN M!Arranged(s, ahead) :
                 Placed(ahead)[k] \in I /\ M!Arranged(s, ahead)[k] = s[Placed(ahead)[k]]
           /\ \A k, l \in DOMAIN M!Arranged(s, ahead) :
                 k < l => Placed(ahead)[k] \in ahead[Placed(ahead)[l]]
           /\ \A i \in I : \E k \in DOMAIN M!Arranged(s, ahead) : Placed(ahead)[k] = i
PROOF
<1> DEFINE p == Placed(ahead)
           a == M!Arranged(s, ahead)
           n == Cardinality(I)
           T == {s[i] : i \in I}
<1>1. DOMAIN s = 1 .. Len(s) /\ Len(s) \in Nat
    BY EnumerationIsWhole
<1>2. IsFiniteSet(I)
  <2>1. IsFiniteSet(1 .. Len(s))
    BY <1>1, FS_Interval
  <2> QED
    BY <1>1, <2>1, FS_Subset
<1>3. DOMAIN ahead = I
    BY DEF Orders
<1>4. a = [k \in 1 .. n |-> s[p[k]]]
  <2>1. a = [k \in 1 .. n |-> s[CHOOSE i \in I : Cardinality(ahead[i]) = k - 1]]
    BY <1>3 DEF M!Arranged, M!Cardinality, Cardinality
  <2>2. p = [k \in 1 .. n |-> CHOOSE i \in I : Cardinality(ahead[i]) = k - 1]
    BY <1>3 DEF Placed
  <2> HIDE DEF p, a, n
  <2> QED
    BY <2>1, <2>2
<1>5. /\ n \in Nat
      /\ p \in [1 .. n -> I]
      /\ \A k, l \in 1 .. n : k < l => p[k] \in ahead[p[l]]
      /\ \A k, l \in 1 .. n : p[k] = p[l] => k = l
      /\ \A i \in I : \E k \in 1 .. n : p[k] = i
    BY <1>2, PlacesAreFilled
<1> HIDE DEF p, a, n
<1>6. a \in [1 .. n -> T]
    BY <1>4, <1>5
<1>7. a \in Seq(T) /\ Len(a) = n /\ DOMAIN a = 1 .. n
  <2> HIDE DEF T
  <2> QED
    BY <1>5, <1>6, FunctionIsSeq
<1>8. ASSUME NEW i \in I PROVE \E k \in DOMAIN a : a[k] = s[i]
  <2>1. PICK k \in 1 .. n : p[k] = i
    BY <1>5
  <2> QED
    BY <2>1, <1>4, <1>7
<1>9. \A k, l \in DOMAIN a : a[k] = a[l] => k = l
  <2> TAKE k \in DOMAIN a, l \in DOMAIN a
  <2>1. p[k] \in DOMAIN s /\ p[l] \in DOMAIN s /\ a[k] = s[p[k]] /\ a[l] = s[p[l]]
    BY <1>4, <1>5, <1>7
  <2>2. \A i, j \in DOMAIN s : s[i] = s[j] => i = j
    BY DEF Enumerates
  <2>3. a[k] = a[l] => p[k] = p[l]
    BY <2>1, <2>2
  <2> QED
    BY <2>3, <1>5, <1>7
<1>10. Enumerates(a, T)
    BY <1>7, <1>8, <1>9 DEF Enumerates
<1> QED
    BY <1>2, <1>4, <1>5, <1>7, <1>10 DEF a, p, n

LEMMA ExtremeIndexes ==
    ASSUME NEW n \in Nat, NEW hits \in SUBSET (1 .. n), hits # {}
    PROVE  /\ M!Min(hits) \in hits /\ \A i \in hits : M!Min(hits) <= i
           /\ M!Max(hits) \in hits /\ \A i \in hits : i <= M!Max(hits)
PROOF
<1>1. IsFiniteSet(hits) /\ hits \in SUBSET Int
  <2>1. IsFiniteSet(1 .. n) /\ hits \in SUBSET Int
    BY FS_Interval
  <2> QED
    BY <2>1, FS_Subset
<1>2. /\ \E i \in hits : \A j \in hits : i <= j
      /\ \E i \in hits : \A j \in hits : j <= i
    BY <1>1, FiniteExtremes
<1> QED
    BY <1>1, <1>2 DEF M!Min, M!Max

NaturalOrder(hits) == [i \in hits |-> {j \in hits : j < i}]

\* Of a filter: the rows it lets pass, in the order they were in.
LEMMA FilterKeepsOrder ==
    ASSUME NEW s, NEW S, Enumerates(s, S), NEW hits \in SUBSET DOMAIN s,
           NEW a, a = M!Arranged(s, NaturalOrder(hits))
    PROVE  /\ IsFiniteSet(hits)
           /\ Enumerates(a, {s[i] : i \in hits})
           /\ Len(a) = Cardinality(hits)
           /\ \A k \in DOMAIN a : \E i \in hits : a[k] = s[i]
           /\ \A k, l \in DOMAIN a : k < l => \E i, j \in hits : i < j /\ a[k] = s[i] /\ a[l] = s[j]
PROOF
<1> DEFINE ahead == NaturalOrder(hits)
<1>1. DOMAIN s = 1 .. Len(s) /\ Len(s) \in Nat
    BY EnumerationIsWhole
<1>2. Orders(ahead, hits)
    BY <1>1 DEF Orders, NaturalOrder
<1>3. \A i, j \in hits : i \in ahead[j] => i < j
    BY DEF NaturalOrder
<1> HIDE DEF ahead
<1>4. /\ IsFiniteSet(hits)
      /\ Enumerates(a, {s[i] : i \in hits})
      /\ Len(a) = Cardinality(hits)
      /\ \A k \in DOMAIN a : Placed(ahead)[k] \in hits /\ a[k] = s[Placed(ahead)[k]]
      /\ \A k, l \in DOMAIN a : k < l => Placed(ahead)[k] \in ahead[Placed(ahead)[l]]
  <2>1. a = M!Arranged(s, ahead)
    BY DEF ahead
  <2> QED
    BY <1>2, <2>1, ArrangedByPlace
<1> QED
    BY <1>3, <1>4

\* A row looked up by what only one row has.
IndexesOf(s, rows) == {i \in DOMAIN s : s[i] \in rows}

LEMMA TheOnlyRow ==
    ASSUME NEW s, NEW S, Enumerates(s, S), NEW old \in SUBSET S, \A r, q \in old : r = q
    PROVE  LET hits == IndexesOf(s, old)
           IN  \/ hits = {} /\ old = {}
               \/ /\ M!Min(hits) \in DOMAIN s
                  /\ hits = {M!Min(hits)}
                  /\ old = {s[M!Min(hits)]}
PROOF
<1> DEFINE hits == IndexesOf(s, old)
<1>1. DOMAIN s = 1 .. Len(s) /\ Len(s) \in Nat
    BY EnumerationIsWhole
<1>2. hits \in SUBSET (1 .. Len(s)) /\ \A i \in hits : s[i] \in old
    BY <1>1 DEF IndexesOf
<1>3. \A r \in old : \E i \in hits : s[i] = r
    BY DEF Enumerates, IndexesOf
<1> HIDE DEF hits
<1>4. CASE hits = {}
    BY <1>3, <1>4 DEF hits
<1>5. CASE hits # {}
  <2>1. M!Min(hits) \in hits
    BY <1>1, <1>2, <1>5, ExtremeIndexes
  <2>2. \A i, j \in DOMAIN s : s[i] = s[j] => i = j
    BY DEF Enumerates
  <2> DEFINE k == M!Min(hits)
  <2>3. k \in hits
    BY <2>1
  <2> HIDE DEF k
  <2>4. k \in DOMAIN s /\ s[k] \in old
    BY <1>1, <1>2, <2>3
  <2>5. ASSUME NEW i \in hits PROVE i = k
    <3>1. i \in DOMAIN s /\ s[i] \in old
      BY <1>1, <1>2
    <3>2. s[i] = s[k]
      BY <2>4, <3>1
    <3> QED
      BY <2>2, <2>4, <3>1, <3>2
  <2>6. hits = {k}
    BY <2>3, <2>5
  <2>7. old = {s[k]}
    BY <2>4
  <2> QED
    BY <2>4, <2>6, <2>7 DEF hits, k
<1> QED
    BY <1>4, <1>5

-----------------------------------------------------------------------------
(* What holds of the tables, as long as no call has made them differ. *)

Tables == {"wallets", "sessions", "turns", "compilations", "markets", "resolutions", "evidence",
           "challenges", "events", "checkpoints", "blocks", "chainState", "nonces", "authSessions"}

HasColumns(r, columns) == r = [c \in columns |-> r[c]]

\* Ids are drawn in turn.
Numbered(S, next) ==
    /\ \A r \in S : r.id \in Nat /\ r.id < next
    /\ \A r, q \in S : r.id = q.id => r = q

\* Rows are inserted in the order they are dated.
Dated(s, at) ==
    /\ \A i \in DOMAIN s : s[i].createdAt \in 0 .. at
    /\ \A i, j \in DOMAIN s : i < j => s[i].createdAt <= s[j].createdAt

SessionColumns == {"id", "creator", "status", "createdAt", "updatedAt"}
SessionsSound(S, next) == Numbered(S, next) /\ \A r \in S : HasColumns(r, SessionColumns)

MarketColumns == {"rulesHash", "creator", "chainMarketId", "contractAddress", "validationPlan",
                  "status", "createdAt", "updatedAt"}
\* A market is dated, and attached, if at all, to what the registry gave its hash.
MarketsSound(S, at) ==
    /\ \A m, n \in S : m.rulesHash = n.rulesHash => m = n
    /\ \A m \in S :
          /\ HasColumns(m, MarketColumns)
          /\ m.createdAt \in 0 .. at
          /\ \/ m.chainMarketId = Null /\ m.contractAddress = Null
             \/ /\ m.rulesHash \in Hashes
                /\ m.chainMarketId = MarketIdOf[m.rulesHash]
                /\ \E a \in AddressOf[m.rulesHash] : m.contractAddress = Lower[a]

ResolutionColumns == {"id", "rulesHash", "status", "round", "submissionState", "proposalTxHash",
                      "proposedAt", "finalizedAt", "createdAt"}
ResolutionsSound(s, S, next, at) ==
    /\ Numbered(S, next)
    /\ Dated(s, at)
    /\ Len(s) < next
    /\ \A r \in S : HasColumns(r, ResolutionColumns) /\ r.round \in Nat
    /\ \A i, j \in DOMAIN s : i < j => s[i].round <= s[j].round

\* Challenges are of the first round of the one market.
ChallengesSound(S, next) ==
    /\ Numbered(S, next)
    /\ \A c \in S : c.rulesHash = h0 /\ c.round = 1

EventsSound(S) ==
    /\ \A e \in S : e.blockNumber \in Nat /\ e.logIndex \in Nat
    /\ \A e, f \in S : D!Identity(e) = D!Identity(f) => e = f

CheckpointColumns == {"startBlock", "lastProcessedBlock", "lastProcessedBlockHash", "rewindCount", "updatedAt"}
CheckpointsSound(S) ==
    /\ \A c, d \in S : c = d
    /\ \A c \in S : HasColumns(c, CheckpointColumns)

BlocksSound(S) ==
    /\ \A b \in S : b.blockNumber \in Nat
    /\ \A b, c \in S : b.blockNumber = c.blockNumber => b = c

ChainStateSound(S) ==
    /\ \A r, q \in S : r.contractAddress = q.contractAddress => r = q
    /\ \A r \in S : /\ r.rulesHash \in Hashes
                    /\ r.chainMarketId = MarketIdOf[r.rulesHash]
                    /\ \E a \in AddressOf[r.rulesHash] : r.contractAddress = Lower[a]

NonceColumns == {"nonce", "address", "issuedAt", "expiresAt", "consumedAt"}
NoncesSound(S) ==
    /\ \A n, o \in S : n.nonce = o.nonce => n = o
    /\ \A n \in S : HasColumns(n, NonceColumns) /\ n.expiresAt \in Nat

AuthSessionColumns == {"id", "tokenHash", "address", "createdAt", "expiresAt", "revokedAt"}
AuthSessionsSound(S, next) == Numbered(S, next) /\ \A r \in S : HasColumns(r, AuthSessionColumns)

TableSound(t, s, S, next, at) ==
    /\ Enumerates(s, S)
    /\ t = "sessions" => SessionsSound(S, next)
    /\ t = "turns" => Numbered(S, next) /\ Dated(s, at)
    /\ t = "markets" => MarketsSound(S, at)
    /\ t = "resolutions" => ResolutionsSound(s, S, next, at)
    /\ t = "evidence" => Numbered(S, next) /\ Dated(s, at)
    /\ t = "challenges" => ChallengesSound(S, next)
    /\ t = "events" => EventsSound(S)
    /\ t = "checkpoints" => CheckpointsSound(S)
    /\ t = "blocks" => BlocksSound(S)
    /\ t = "chainState" => ChainStateSound(S)
    /\ t = "nonces" => NoncesSound(S)
    /\ t = "authSessions" => AuthSessionsSound(S, next)

Sound(d, m, at) ==
    /\ DOMAIN d = Tables \cup {"nextId"} /\ DOMAIN m = Tables \cup {"nextId"}
    /\ d.nextId \in Nat /\ m.nextId = d.nextId
    /\ \A t \in Tables : TableSound(t, m[t], d[t], d.nextId, at)

\* Time passes, and ids are drawn for other tables.
LEMMA LaterIsSound ==
    ASSUME NEW t, NEW s, NEW S, NEW next \in Nat, NEW at \in Nat, TableSound(t, s, S, next, at),
           NEW next2 \in {next, next + 1}, NEW at2 \in {at, at + 1}
    PROVE  TableSound(t, s, S, next2, at2)
PROOF
<1>1. Numbered(S, next) => Numbered(S, next2)
    BY DEF Numbered
<1>2. Dated(s, at) => Dated(s, at2)
    BY DEF Dated
<1>3. MarketsSound(S, at) => MarketsSound(S, at2)
    BY DEF MarketsSound
<1>4. ResolutionsSound(s, S, next, at) => ResolutionsSound(s, S, next2, at2)
  <2>1. Enumerates(s, S) /\ Len(s) \in Nat
    BY EnumerationIsWhole DEF TableSound
  <2> QED
    BY <1>1, <1>2, <2>1 DEF ResolutionsSound
<1> QED
    BY <1>1, <1>2, <1>3, <1>4 DEF TableSound, SessionsSound, ChallengesSound, AuthSessionsSound

\* A call that changes one table, and may draw an id.
OneTable(t, d, m, d2, m2) ==
    /\ DOMAIN d2 = Tables \cup {"nextId"} /\ DOMAIN m2 = Tables \cup {"nextId"}
    /\ d2.nextId \in {d.nextId, d.nextId + 1} /\ m2.nextId = d2.nextId
    /\ \A u \in Tables : u # t => d2[u] = d[u] /\ m2[u] = m[u]

LEMMA OneTableIsEnough ==
    ASSUME NEW d, NEW m, NEW at \in Nat, Sound(d, m, at), NEW t \in Tables, NEW d2, NEW m2,
           OneTable(t, d, m, d2, m2), TableSound(t, m2[t], d2[t], d2.nextId, at)
    PROVE  Sound(d2, m2, at)
PROOF
<1>1. d.nextId \in Nat /\ d2.nextId \in Nat
    BY DEF Sound, OneTable
<1>2. ASSUME NEW u \in Tables, u # t PROVE TableSound(u, m2[u], d2[u], d2.nextId, at)
  <2>1. TableSound(u, m[u], d[u], d.nextId, at)
    BY DEF Sound
  <2> QED
    BY <1>1, <1>2, <2>1, LaterIsSound DEF OneTable
<1> QED
    BY <1>1, <1>2 DEF Sound, OneTable

-----------------------------------------------------------------------------
(* Insertions, updates and deletions. *)

OnlyRowsAt(m, t, hits) == [m EXCEPT ![t] = M!Arranged(m[t], NaturalOrder(hits))]

\* What a call comes to: nothing, or both stores have taken it, once; or, when
\* one more run has another effect, they differ.
Effect(repeat, once, reference) ==
    /\ calls < MaxCalls[subject] /\ comparable
    /\ calls' = calls + 1
    /\ subject' = subject /\ now' = now /\ walk' = walk
    /\ \/ db' = db /\ mem' = mem /\ comparable' = TRUE /\ last' = NoAnswer
       \/ /\ db' = once.db /\ mem' = reference.db /\ comparable' = TRUE
          /\ last'.compared => last'.may = once.answers /\ last'.is = reference.answer
       \/ repeat = "otherEffect" /\ comparable' = FALSE /\ last'.compared = FALSE

LEMMA EffectOfAttempts ==
    ASSUME NEW repeat, NEW runs, NEW reference, Attempts(repeat, runs, reference),
           comparable = TRUE,
           repeat = "otherEffect" \/ (runs[2].db = runs[1].db /\ runs[3].db = runs[1].db /\ runs[4].db = runs[1].db),
           repeat = "same" => runs[2] = runs[1] /\ runs[3] = runs[1] /\ runs[4] = runs[1]
    PROVE  Effect(repeat, runs[1], reference)
PROOF
<1> DEFINE Common == /\ calls < MaxCalls[subject] /\ comparable
                     /\ calls' = calls + 1
                     /\ subject' = subject /\ now' = now /\ walk' = walk
           Alternatives == \/ db' = db /\ mem' = mem /\ comparable' = TRUE /\ last' = NoAnswer
                           \/ /\ db' = runs[1].db /\ mem' = reference.db /\ comparable' = TRUE
                              /\ last'.compared => last'.may = runs[1].answers /\ last'.is = reference.answer
                           \/ repeat = "otherEffect" /\ comparable' = FALSE /\ last'.compared = FALSE
<1>1. Common
    BY DEF Attempts
<1>2. ASSUME NEW lost \in 0 .. 3, Answered(repeat, runs, reference, lost)
      PROVE  Alternatives
  <2>1. lost = 0 \/ lost = 1 \/ lost = 2 \/ lost = 3
    OBVIOUS
  <2>2. /\ db' = runs[lost + 1].db
        /\ mem' = reference.db
        /\ comparable' = (lost = 0 \/ repeat # "otherEffect")
        /\ last'.may = runs[lost + 1].answers
        /\ last'.is = reference.answer
        /\ last'.compared = ((lost = 0 \/ repeat = "same") /\ comparable')
    BY <1>2 DEF Answered
  <2>3. lost = 0 \/ repeat # "otherEffect" => db' = runs[1].db
    BY <2>1, <2>2
  <2>4. lost = 0 \/ repeat = "same" => last'.may = runs[1].answers
    BY <2>1, <2>2
  <2> QED
    BY <2>2, <2>3, <2>4
<1>3. ASSUME NEW lost \in LostAltogether, Unanswered(repeat, runs, reference, lost)
      PROVE  Alternatives
  <2>1. lost = 0 \/ lost = 1 \/ lost = 2 \/ lost = 3 \/ lost = 4
    BY DEF LostAltogether, Retries
  <2>2. /\ db' = IF lost = 0 THEN db ELSE runs[lost].db
        /\ mem' = IF lost = 0 THEN mem ELSE reference.db
        /\ comparable' = (lost < 2 \/ repeat # "otherEffect")
        /\ last' = NoAnswer
    BY <1>3 DEF Unanswered
  <2>3. last'.compared = FALSE
    BY <2>2 DEF NoAnswer
  <2>4. ASSUME lost = 0 PROVE Alternatives
    <3>1. db' = db /\ mem' = mem
      BY <2>2, <2>4
    <3>2. lost < 2
      BY <2>4
    <3>3. comparable' = TRUE
      BY <2>2, <3>2
    <3> QED
      BY <2>2, <3>1, <3>3
  <2>5. lost # 0 => mem' = reference.db
    BY <2>2
  <2>6. lost # 0 /\ (lost < 2 \/ repeat # "otherEffect") => db' = runs[1].db
    BY <2>1, <2>2
  <2> QED
    BY <2>2, <2>3, <2>4, <2>5, <2>6
<1>4. Alternatives
  <2> HIDE DEF Alternatives
  <2>1. LostBeforeAnswer \subseteq 0 .. 3 /\ 0 \in 0 .. 3
    BY DEF LostBeforeAnswer, Retries
  <2> QED
    BY <1>2, <1>3, <2>1 DEF Attempts
<1> QED
    BY <1>1, <1>4 DEF Effect

-----------------------------------------------------------------------------
(* What the calls on markets do to the table of markets. *)

IsTables(d) == d = [t \in Tables \cup {"nextId"} |-> d[t]]

MarketsHeld(S, at) == IsFiniteSet(S) /\ MarketsSound(S, at)

SameMarket(m, n) == m.rulesHash = n.rulesHash /\ m.createdAt = n.createdAt

\* No market is lost or dated anew, and a new one is dated now.
Onward(S, S2, at) ==
    /\ MarketsHeld(S2, at)
    /\ \A m \in S : \E n \in S2 : SameMarket(m, n)
    /\ \A n \in S2 : (\E m \in S : SameMarket(m, n))
                     \/ (n.createdAt = at /\ \A m \in S : m.rulesHash # n.rulesHash)

LEMMA OnwardIsReflexive ==
    ASSUME NEW S, NEW at, MarketsHeld(S, at)
    PROVE  Onward(S, S, at)
PROOF
    BY DEF Onward, SameMarket

MarketRow(m, at) ==
    /\ HasColumns(m, MarketColumns)
    /\ m.createdAt \in 0 .. at
    /\ \/ m.chainMarketId = Null /\ m.contractAddress = Null
       \/ /\ m.rulesHash \in Hashes
          /\ m.chainMarketId = MarketIdOf[m.rulesHash]
          /\ \E a \in AddressOf[m.rulesHash] : m.contractAddress = Lower[a]

WithHash(S, h) == {m \in S : m.rulesHash = h}

LEMMA MarketInserted ==
    ASSUME NEW S, NEW at, MarketsHeld(S, at), NEW row, MarketRow(row, at), row.createdAt = at,
           WithHash(S, row.rulesHash) = {}
    PROVE  Onward(S, S \cup {row}, at) /\ WithHash(S \cup {row}, row.rulesHash) = {row}
PROOF
<1>1. IsFiniteSet(S \cup {row})
    BY FS_AddElement DEF MarketsHeld
<1>2. \A m \in S : m.rulesHash # row.rulesHash
    BY DEF WithHash
<1>3. MarketsSound(S \cup {row}, at)
    BY <1>2 DEF MarketsHeld, MarketsSound, MarketRow
<1>4. WithHash(S \cup {row}, row.rulesHash) = {row}
    BY <1>2 DEF WithHash
<1> QED
    BY <1>1, <1>2, <1>3, <1>4 DEF Onward, MarketsHeld, SameMarket

LEMMA MarketRewritten ==
    ASSUME NEW S, NEW at, MarketsHeld(S, at), NEW m \in S, NEW row, MarketRow(row, at), SameMarket(m, row),
           NEW T, T = (S \ {m}) \cup {row}
    PROVE  /\ WithHash(S, m.rulesHash) = {m}
           /\ Onward(S, T, at)
           /\ WithHash(T, m.rulesHash) = {row}
PROOF
<1>1. IsFiniteSet(T)
  <2>1. IsFiniteSet(S \ {m})
    BY FS_RemoveElement DEF MarketsHeld
  <2> QED
    BY <2>1, FS_AddElement
<1>2. \A n \in S : n.rulesHash = m.rulesHash => n = m
    BY DEF MarketsHeld, MarketsSound
<1>3. \A n \in S \ {m} : n.rulesHash # row.rulesHash
    BY <1>2 DEF SameMarket
<1>4. MarketsSound(T, at)
  <2>1. \A n, o \in T : n.rulesHash = o.rulesHash => n = o
    BY <1>3 DEF MarketsHeld, MarketsSound
  <2>2. \A n \in T : MarketRow(n, at)
    BY DEF MarketsHeld, MarketsSound, MarketRow
  <2> QED
    BY <2>1, <2>2 DEF MarketsSound, MarketRow
<1>5. WithHash(S, m.rulesHash) = {m}
    BY <1>2 DEF WithHash
<1>6. WithHash(T, m.rulesHash) = {row}
    BY <1>3 DEF WithHash, SameMarket
<1>7. /\ \A n \in S : \E o \in T : SameMarket(n, o)
      /\ \A o \in T : \E n \in S : SameMarket(n, o)
    BY DEF SameMarket
<1> QED
    BY <1>1, <1>4, <1>5, <1>6, <1>7 DEF Onward, MarketsHeld

\* A call that is repeated finds the tables, and answers, as the first time.
MarketsOf(d) == d.markets
After(x) == x.db
Settles(d, x, again, at) ==
    /\ IsTables(After(x))
    /\ again = x
    /\ Onward(MarketsOf(d), MarketsOf(After(x)), at)

LEMMA RegisterSettles ==
    ASSUME NEW d, IsTables(d), NEW at \in Nat, MarketsHeld(MarketsOf(d), at), NEW h, NEW w
    PROVE  LET x == D!MarketsRegister(d, h, w, at)
           IN  Settles(d, x, D!MarketsRegister(x.db, h, w, at), at)
PROOF
<1> DEFINE x == D!MarketsRegister(d, h, w, at)
           row == [rulesHash |-> h, creator |-> w, chainMarketId |-> Null, contractAddress |-> Null,
                   validationPlan |-> Null, status |-> "PENDING_ONCHAIN", createdAt |-> at, updatedAt |-> at]
<1>1. \A e : (\E m \in e.markets : m.rulesHash = h) <=> WithHash(e.markets, h) # {}
    BY DEF WithHash
<1>2. \A e : WithHash(e.markets, h) # {} =>
               D!MarketsRegister(e, h, w, at) = [db |-> e, answers |-> WithHash(e.markets, h)]
    BY DEF WithHash, D!MarketsRegister, D!MarketsFindByRulesHash, D!MayGive, D!TheRow
<1>3. CASE WithHash(d.markets, h) # {}
  <2>1. x = [db |-> d, answers |-> WithHash(d.markets, h)]
    BY <1>2, <1>3
  <2> QED
    BY <2>1, OnwardIsReflexive DEF Settles, After, MarketsOf
<1>4. CASE WithHash(d.markets, h) = {}
  <2> DEFINE e == [d EXCEPT !.markets = @ \cup {row}]
  <2>1. x = [db |-> e, answers |-> {row}]
    BY <1>1, <1>4 DEF D!MarketsRegister, D!Insert, D!Gives
  <2>2. e.markets = d.markets \cup {row} /\ IsTables(e)
    BY DEF IsTables, Tables
  <2>3. MarketRow(row, at) /\ row.rulesHash = h /\ row.createdAt = at
    BY DEF MarketRow, MarketColumns, HasColumns
  <2> HIDE DEF e, row, x
  <2>4. Onward(d.markets, e.markets, at) /\ WithHash(e.markets, h) = {row}
    BY <1>4, <2>2, <2>3, MarketInserted DEF MarketsOf
  <2>5. D!MarketsRegister(e, h, w, at) = [db |-> e, answers |-> {row}]
    BY <1>2, <2>4
  <2>6. After(x) = e /\ D!MarketsRegister(After(x), h, w, at) = x
    BY <2>1, <2>5 DEF After
  <2> DEFINE again == D!MarketsRegister(After(x), h, w, at)
  <2>7. again = x
    BY <2>6
  <2>8. MarketsOf(After(x)) = e.markets /\ IsTables(After(x)) /\ MarketsOf(d) = d.markets
    BY <2>2, <2>6 DEF MarketsOf
  <2> HIDE DEF again
  <2>9. Settles(d, x, again, at)
    BY <2>4, <2>7, <2>8 DEF Settles
  <2> QED
    BY <2>9 DEF x, again, After
<1> QED
    BY <1>3, <1>4

\* UPDATE markets SET ... WHERE rulesHash = h, of the one row there is.
Rewriting(d, m, n) == [db |-> D!Replace(d, "markets", {m}, {n}), answers |-> {n}]
OnlyWithHash(S, h, m) == WithHash(S, h) = {m}
NoneWithHash(S, h) == WithHash(S, h) = {}

LEMMA OneWithHash ==
    ASSUME NEW S, NEW at, MarketsHeld(S, at), NEW h
    PROVE  NoneWithHash(S, h) \/ \E m : m.rulesHash = h /\ OnlyWithHash(S, h, m) /\ MarketRow(m, at)
PROOF
    BY DEF MarketsHeld, MarketsSound, MarketRow, WithHash, OnlyWithHash, NoneWithHash

LEMMA RewritingSettles ==
    ASSUME NEW d, IsTables(d), NEW at \in Nat, MarketsHeld(MarketsOf(d), at), NEW h,
           NEW m, OnlyWithHash(MarketsOf(d), h, m), NEW n, MarketRow(n, at), SameMarket(m, n),
           NEW x, x = Rewriting(d, m, n)
    PROVE  /\ OnlyWithHash(MarketsOf(After(x)), h, n)
           /\ Settles(d, x, Rewriting(After(x), n, n), at)
PROOF
<1> DEFINE e == x.db
<1>1. m \in d.markets /\ m.rulesHash = h
    BY DEF WithHash, OnlyWithHash, MarketsOf
<1>2. e = [d EXCEPT !["markets"] = (@ \ {m}) \cup {n}] /\ x = [db |-> e, answers |-> {n}]
    BY DEF Rewriting, D!Replace
<1>3. e.markets = (d.markets \ {m}) \cup {n} /\ IsTables(e)
    BY <1>2 DEF IsTables, Tables
<1> HIDE DEF e
<1>4. /\ Onward(d.markets, e.markets, at)
      /\ WithHash(e.markets, m.rulesHash) = {n}
  <2> DEFINE before == d.markets
             after == e.markets
  <2>1. MarketsHeld(before, at) /\ m \in before /\ after = (before \ {m}) \cup {n}
    BY <1>1, <1>3 DEF MarketsOf
  <2> HIDE DEF before, after
  <2>2. Onward(before, after, at) /\ WithHash(after, m.rulesHash) = {n}
    BY <2>1, MarketRewritten
  <2> QED
    BY <2>2 DEF before, after
<1>5. D!Replace(e, "markets", {n}, {n}) = e
    BY <1>3 DEF D!Replace, IsTables, Tables
<1>6. Rewriting(e, n, n) = x
    BY <1>2, <1>5 DEF Rewriting
<1> QED
    BY <1>1, <1>3, <1>4, <1>6 DEF Settles, e, OnlyWithHash, MarketsOf, After

LEMMA NothingSettles ==
    ASSUME NEW d, IsTables(d), NEW at, MarketsHeld(MarketsOf(d), at), NEW x, After(x) = d
    PROVE  Settles(d, x, x, at)
PROOF
    BY OnwardIsReflexive DEF Settles

LEMMA StatusSettles ==
    ASSUME NEW d, IsTables(d), NEW at \in Nat, MarketsHeld(MarketsOf(d), at), NEW h, NEW s
    PROVE  LET x == D!MarketsUpdateStatus(d, h, s, at)
           IN  Settles(d, x, D!MarketsUpdateStatus(x.db, h, s, at), at)
PROOF
<1> DEFINE X(e) == D!MarketsUpdateStatus(e, h, s, at)
           New(m) == [m EXCEPT !.status = s, !.updatedAt = at]
<1>1. ASSUME NEW e, NEW m, OnlyWithHash(MarketsOf(e), h, m)
      PROVE  X(e) = Rewriting(e, m, New(m))
  <2>1. {New(r) : r \in {m}} = {New(m)}
    OBVIOUS
  <2> QED
    BY <1>1, <2>1, Zenon
       DEF D!MarketsUpdateStatus, D!MarketsUpdate, D!UpdateOne, D!MayGive, D!TheRow, WithHash, OnlyWithHash,
          MarketsOf, Rewriting
<1>2. CASE NoneWithHash(MarketsOf(d), h)
  <2>1. X(d).db = d
    BY <1>2 DEF D!MarketsUpdateStatus, D!MarketsUpdate, D!UpdateOne, D!MayGive, D!TheRow, WithHash,
       D!Replace, IsTables, Tables,
                NoneWithHash, MarketsOf
  <2>2. X(X(d).db) = X(d) /\ After(X(d)) = d
    BY <2>1 DEF After
  <2> HIDE DEF X
  <2>3. Settles(d, X(d), X(X(d).db), at)
    BY <2>2, NothingSettles
  <2> QED
    BY <2>3 DEF X
<1>3. ASSUME NEW m, m.rulesHash = h, OnlyWithHash(MarketsOf(d), h, m), MarketRow(m, at), NEW n, n = New(m)
      PROVE  Settles(d, X(d), X(X(d).db), at)
  <2>1. /\ n.rulesHash = m.rulesHash /\ n.createdAt = m.createdAt
        /\ n.chainMarketId = m.chainMarketId /\ n.contractAddress = m.contractAddress
        /\ HasColumns(n, MarketColumns)
        /\ New(n) = n
    BY <1>3 DEF MarketRow, MarketColumns, HasColumns
  <2>2. X(d) = Rewriting(d, m, n)
    BY <1>1, <1>3
  <2> HIDE DEF X, New
  <2>3. MarketRow(n, at) /\ SameMarket(m, n)
    BY <1>3, <2>1 DEF MarketRow, SameMarket
  <2>4. OnlyWithHash(MarketsOf(After(X(d))), h, n) /\ Settles(d, X(d), Rewriting(After(X(d)), n, n), at)
    BY <1>3, <2>2, <2>3, RewritingSettles
  <2>5. X(After(X(d))) = Rewriting(After(X(d)), n, n)
    BY <1>1, <2>1, <2>4
  <2> QED
    BY <2>4, <2>5 DEF After
<1> QED
    BY <1>2, <1>3, OneWithHash

LEMMA PlanSettles ==
    ASSUME NEW d, IsTables(d), NEW at \in Nat, MarketsHeld(MarketsOf(d), at), NEW h, NEW plan
    PROVE  LET x == D!MarketsSetValidationPlan(d, h, plan, at)
           IN  Settles(d, x, D!MarketsSetValidationPlan(x.db, h, plan, at), at)
PROOF
<1> DEFINE X(e) == D!MarketsSetValidationPlan(e, h, plan, at)
           New(m) == [m EXCEPT !.validationPlan = plan, !.updatedAt = at]
<1>1. ASSUME NEW e, NEW m, OnlyWithHash(MarketsOf(e), h, m)
      PROVE  X(e) = Rewriting(e, m, New(m))
  <2>1. {New(r) : r \in {m}} = {New(m)}
    OBVIOUS
  <2> QED
    BY <1>1, <2>1, Zenon
       DEF D!MarketsSetValidationPlan, D!MarketsUpdate, D!UpdateOne, D!MayGive, D!TheRow, WithHash,
          OnlyWithHash, MarketsOf, Rewriting
<1>2. CASE NoneWithHash(MarketsOf(d), h)
  <2>1. X(d).db = d
    BY <1>2 DEF D!MarketsSetValidationPlan, D!MarketsUpdate, D!UpdateOne, D!MayGive, D!TheRow, WithHash,
       D!Replace, IsTables, Tables,
                NoneWithHash, MarketsOf
  <2>2. X(X(d).db) = X(d) /\ After(X(d)) = d
    BY <2>1 DEF After
  <2> HIDE DEF X
  <2>3. Settles(d, X(d), X(X(d).db), at)
    BY <2>2, NothingSettles
  <2> QED
    BY <2>3 DEF X
<1>3. ASSUME NEW m, m.rulesHash = h, OnlyWithHash(MarketsOf(d), h, m), MarketRow(m, at), NEW n, n = New(m)
      PROVE  Settles(d, X(d), X(X(d).db), at)
  <2>1. /\ n.rulesHash = m.rulesHash /\ n.createdAt = m.createdAt
        /\ n.chainMarketId = m.chainMarketId /\ n.contractAddress = m.contractAddress
        /\ HasColumns(n, MarketColumns)
        /\ New(n) = n
    BY <1>3 DEF MarketRow, MarketColumns, HasColumns
  <2>2. X(d) = Rewriting(d, m, n)
    BY <1>1, <1>3
  <2> HIDE DEF X, New
  <2>3. MarketRow(n, at) /\ SameMarket(m, n)
    BY <1>3, <2>1 DEF MarketRow, SameMarket
  <2>4. OnlyWithHash(MarketsOf(After(X(d))), h, n) /\ Settles(d, X(d), Rewriting(After(X(d)), n, n), at)
    BY <1>3, <2>2, <2>3, RewritingSettles
  <2>5. X(After(X(d))) = Rewriting(After(X(d)), n, n)
    BY <1>1, <2>1, <2>4
  <2> QED
    BY <2>4, <2>5 DEF After
<1> QED
    BY <1>2, <1>3, OneWithHash

Identifies(h, id, a) == h \in Hashes /\ id = MarketIdOf[h] /\ a \in AddressOf[h]

LEMMA AttachSettles ==
    ASSUME NEW d, IsTables(d), NEW at \in Nat, MarketsHeld(MarketsOf(d), at), NEW h, NEW id, NEW a, Identifies(h, id, a)
    PROVE  LET x == D!MarketsAttach(d, h, id, a, at)
           IN  Settles(d, x, D!MarketsAttach(x.db, h, id, a, at), at)
PROOF
<1> DEFINE X(e) == D!MarketsAttach(e, h, id, a, at)
           New(m) == [m EXCEPT !.chainMarketId = id, !.contractAddress = Lower[a], !.updatedAt = at]
<1>1. ASSUME NEW e, MarketsHeld(MarketsOf(e), at), NEW m, OnlyWithHash(MarketsOf(e), h, m)
      PROVE  X(e) = Rewriting(e, m, New(m))
  <2>1. {New(r) : r \in {m}} = {New(m)}
    OBVIOUS
  <2>2. ~ \E r \in e.markets : r.chainMarketId = id /\ r.rulesHash # h
    BY <1>1, StoresAssumption DEF StoresAssumption, MarketsHeld, MarketsSound, Identifies, MarketsOf
  <2> QED
    BY <1>1, <2>1, <2>2, Zenon
       DEF D!MarketsAttach, D!MarketsUpdate, D!UpdateOne, D!MayGive, D!TheRow, WithHash, OnlyWithHash,
          MarketsOf, Rewriting
<1>2. CASE NoneWithHash(MarketsOf(d), h)
  <2>1. X(d).db = d
    <3>1. ~ \E r \in d.markets : r.chainMarketId = id /\ r.rulesHash # h
      BY StoresAssumption DEF StoresAssumption, MarketsHeld, MarketsSound, Identifies, MarketsOf
    <3> QED
      BY <1>2, <3>1
         DEF D!MarketsAttach, D!MarketsUpdate, D!UpdateOne, D!MayGive, D!TheRow, WithHash, D!Replace,
            IsTables, Tables,
                  NoneWithHash, MarketsOf
  <2>2. X(X(d).db) = X(d) /\ After(X(d)) = d
    BY <2>1 DEF After
  <2> HIDE DEF X
  <2>3. Settles(d, X(d), X(X(d).db), at)
    BY <2>2, NothingSettles
  <2> QED
    BY <2>3 DEF X
<1>3. ASSUME NEW m, m.rulesHash = h, OnlyWithHash(MarketsOf(d), h, m), MarketRow(m, at), NEW n, n = New(m)
      PROVE  Settles(d, X(d), X(X(d).db), at)
  <2>1. /\ n.rulesHash = m.rulesHash /\ n.createdAt = m.createdAt
        /\ n.chainMarketId = id /\ n.contractAddress = Lower[a]
        /\ HasColumns(n, MarketColumns)
        /\ New(n) = n
    BY <1>3 DEF MarketRow, MarketColumns, HasColumns
  <2>2. X(d) = Rewriting(d, m, n)
    BY <1>1, <1>3
  <2> HIDE DEF X, New
  <2>3. MarketRow(n, at) /\ SameMarket(m, n)
    BY <1>3, <2>1 DEF MarketRow, SameMarket, Identifies
  <2>4. OnlyWithHash(MarketsOf(After(X(d))), h, n) /\ Settles(d, X(d), Rewriting(After(X(d)), n, n), at)
    BY <1>3, <2>2, <2>3, RewritingSettles
  <2>5. X(After(X(d))) = Rewriting(After(X(d)), n, n)
    <3>1. MarketsHeld(MarketsOf(After(X(d))), at)
      BY <2>4 DEF Settles, Onward
    <3> QED
      BY <1>1, <2>1, <2>4, <3>1
  <2> QED
    BY <2>4, <2>5 DEF After
<1> QED
    BY <1>2, <1>3, OneWithHash

-----------------------------------------------------------------------------
(* A walk through the list. *)

\* What PostgreSQL may answer when it is asked for all of a set in an order.
LEMMA ListingIsEnumeration ==
    ASSUME NEW S, IsFiniteSet(S), NEW s \in D!SetToSeqs(S)
    PROVE  Enumerates(s, S)
PROOF
<1> DEFINE n == Cardinality(S)
<1>1. n \in Nat
    BY FS_CardinalityType
<1>2. s \in [1 .. n -> S] /\ \A i, j \in 1 .. n : i # j => s[i] # s[j]
    BY OneCardinality DEF D!SetToSeqs
<1>3. s \in Seq(S) /\ DOMAIN s = 1 .. n
  <2> HIDE DEF n
  <2> QED
    BY <1>1, <1>2, FunctionIsSeq
<1>4. IsFiniteSet(1 .. n) /\ Cardinality(1 .. n) = n
    BY <1>1, FS_Interval
<1>5. s \in Injection(1 .. n, S)
    BY <1>2 DEF Injection, IsInjective
<1>6. s \in Surjection(1 .. n, S)
  <2> HIDE DEF n
  <2>1. n = Cardinality(S)
    BY DEF n
  <2> QED
    BY <1>1, <1>4, <1>5, <2>1, FS_Injection
<1>7. \A r \in S : \E i \in DOMAIN s : s[i] = r
    BY <1>3, <1>6 DEF Surjection
<1> QED
    BY <1>2, <1>3, <1>7 DEF Enumerates

OlderThan(S, cursor) == {m \in S : cursor = Null \/ m.createdAt < cursor}

NewestFirst(s) == \A i, j \in DOMAIN s : i < j => s[j].createdAt <= s[i].createdAt

\* The page shows the first k of the markets older than the cursor, and the next
\* cursor is the date of the last of them.
PageOf(page, S, cursor, s, k) ==
    /\ Enumerates(s, OlderThan(S, cursor))
    /\ NewestFirst(s)
    /\ k \in 0 .. Len(s)
    /\ RulesHashes(page.markets) = [i \in 1 .. k |-> s[i].rulesHash]
    /\ \/ k = Len(s) /\ k <= PageSize /\ page.nextCursor = Null
       \/ k = PageSize /\ k > 0 /\ k < Len(s) /\ page.nextCursor = s[k].createdAt

LEMMA PagesAreCut ==
    ASSUME NEW d, NEW at \in Nat, MarketsHeld(d.markets, at), NEW cursor,
           NEW page \in D!MarketsList(d, Null, cursor, PageSize).answers
    PROVE  \E s, k : PageOf(page, d.markets, cursor, s, k)
PROOF
<1> DEFINE rows == {m \in d.markets : (Null = Null \/ m.status = Null) /\ (cursor = Null \/ m.createdAt < cursor)}
           S == d.markets
           Shows(s) == SubSeq(s, 1, IF Len(s) > PageSize THEN PageSize ELSE Len(s))
           Page(s) == [markets |-> Shows(s),
                       nextCursor |-> IF Len(s) > PageSize THEN D!Last(Shows(s)).createdAt ELSE Null]
<1>1. rows = OlderThan(S, cursor)
    BY DEF OlderThan
<1>2. PICK s \in D!OrderedBy(rows, D!Newest) : page = Page(s)
    BY DEF D!MarketsList, D!MayGive
<1>3. s \in D!SetToSeqs(rows) /\ \A i, j \in DOMAIN s : i < j => ~(s[j].createdAt > s[i].createdAt)
    BY <1>2, Zenon DEF D!OrderedBy, D!Newest
<1>4. IsFiniteSet(rows)
    BY FS_Subset DEF MarketsHeld
<1>5. Enumerates(s, OlderThan(S, cursor))
    BY <1>1, <1>3, <1>4, ListingIsEnumeration
<1>6. Len(s) \in Nat /\ DOMAIN s = 1 .. Len(s) /\ s \in Seq(OlderThan(S, cursor))
    BY <1>5, EnumerationIsWhole DEF Enumerates
<1>7. \A i \in DOMAIN s : s[i] \in S /\ s[i].createdAt \in Nat
    BY <1>5, <1>6, EnumerationIsWhole DEF OlderThan, MarketsHeld, MarketsSound
<1>8. NewestFirst(s)
    BY <1>3, <1>7 DEF NewestFirst
<1> DEFINE k == IF Len(s) > PageSize THEN PageSize ELSE Len(s)
<1>9. PageSize \in Nat /\ PageSize > 0
    BY StoresAssumption DEF StoresAssumption
<1>10. k \in 0 .. Len(s) /\ k \in Nat
    BY <1>6, <1>9
<1> HIDE DEF rows, S
<1>11. page.markets = SubSeq(s, 1, k)
    BY <1>2
<1>12. DOMAIN SubSeq(s, 1, k) = 1 .. k /\ Len(SubSeq(s, 1, k)) = k /\ \A i \in 1 .. k : SubSeq(s, 1, k)[i] = s[i]
  <2> HIDE DEF k
  <2> QED
    BY <1>6, <1>10
<1>13. RulesHashes(page.markets) = [i \in 1 .. k |-> s[i].rulesHash]
  <2> HIDE DEF k
  <2> QED
    BY <1>11, <1>12 DEF RulesHashes
<1>14. CASE Len(s) > PageSize
  <2>1. page.nextCursor = D!Last(SubSeq(s, 1, k)).createdAt /\ k > 0
    BY <1>2, <1>9, <1>14
  <2>3. k = PageSize /\ k < Len(s)
    BY <1>14
  <2> HIDE DEF k
  <2>2. D!Last(SubSeq(s, 1, k)) = s[k]
    BY <1>10, <1>12, <2>1 DEF D!Last
  <2> QED
    BY <1>5, <1>8, <1>10, <1>13, <2>1, <2>2, <2>3 DEF PageOf, S
<1>15. CASE ~(Len(s) > PageSize)
  <2>1. page.nextCursor = Null /\ k = Len(s) /\ k <= PageSize
    BY <1>2, <1>6, <1>9, <1>15
  <2> HIDE DEF k
  <2> QED
    BY <1>5, <1>8, <1>10, <1>13, <2>1 DEF PageOf, S
<1> QED
    BY <1>14, <1>15

HashesOf(S) == {m.rulesHash : m \in S}
Saw(seen, h) == \E i \in DOMAIN seen : seen[i] = h
AtDistinctInstants(S) == \A m, n \in S : m.createdAt = n.createdAt => m = n

\* What a walk has seen is what is not older than its cursor.
SeenDownTo(S, w) ==
    \A m \in S :
      /\ Saw(w.seen, m.rulesHash) => w.cursor # Null /\ m.createdAt >= w.cursor
      /\ m.rulesHash \in w.owed /\ w.cursor # Null /\ m.createdAt >= w.cursor => Saw(w.seen, m.rulesHash)

WalkColumns == {"phase", "cursor", "offset", "seen", "owed", "openedAt"}

WalkSound(S, w, at) ==
    /\ HasColumns(w, WalkColumns)
    /\ w.phase \in {"none", "open", "over"}
    /\ w.seen \in Seq(HashesOf(S))
    /\ w.cursor = Null \/ w.cursor \in 0 .. at
    /\ w.owed \subseteq HashesOf(S)
    /\ w.phase = "none" => w.seen = <<>>
    /\ AtDistinctInstants(S) =>
         /\ \A i, j \in DOMAIN w.seen : w.seen[i] = w.seen[j] => i = j
         /\ w.phase = "open" => SeenDownTo(S, w)
         /\ w.phase = "over" => \A h \in w.owed : Saw(w.seen, h)

LEMMA OnwardKeeps ==
    ASSUME NEW S, NEW at \in Nat, MarketsHeld(S, at), NEW S2, Onward(S, S2, at)
    PROVE  /\ HashesOf(S) \subseteq HashesOf(S2)
           /\ AtDistinctInstants(S2) => AtDistinctInstants(S)
PROOF
<1>1. HashesOf(S) \subseteq HashesOf(S2)
    BY DEF Onward, SameMarket, HashesOf
<1>2. ASSUME AtDistinctInstants(S2), NEW m \in S, NEW n \in S, m.createdAt = n.createdAt
      PROVE  m = n
  <2>1. PICK m2 \in S2 : SameMarket(m, m2)
    BY DEF Onward
  <2>2. PICK n2 \in S2 : SameMarket(n, n2)
    BY DEF Onward
  <2>3. m2 = n2
    BY <1>2, <2>1, <2>2 DEF AtDistinctInstants, SameMarket
  <2>4. m.rulesHash = n.rulesHash
    BY <2>1, <2>2, <2>3 DEF SameMarket
  <2> QED
    BY <2>4 DEF MarketsHeld, MarketsSound
<1> QED
    BY <1>1, <1>2 DEF AtDistinctInstants

\* Whatever is registered or changed between two pages.
LEMMA WalkAfterCall ==
    ASSUME NEW S, NEW at \in Nat, MarketsHeld(S, at), NEW S2, Onward(S, S2, at),
           NEW w, WalkSound(S, w, at)
    PROVE  WalkSound(S2, w, at)
PROOF
<1>1. HashesOf(S) \subseteq HashesOf(S2) /\ (AtDistinctInstants(S2) => AtDistinctInstants(S))
    BY OnwardKeeps
<1>2. w.seen \in Seq(HashesOf(S2))
  <2> DEFINE A == HashesOf(S)
             B == HashesOf(S2)
             seen == w.seen
  <2>1. seen \in Seq(A) /\ A \subseteq B
    BY <1>1 DEF WalkSound
  <2> HIDE DEF A, B, seen
  <2>2. seen \in Seq(B)
    BY <2>1, SeqMonotonic
  <2> QED
    BY <2>2 DEF B, seen
<1>3. ASSUME AtDistinctInstants(S2), w.phase = "open" PROVE SeenDownTo(S2, w)
  <2> SUFFICES ASSUME NEW n \in S2
               PROVE  /\ Saw(w.seen, n.rulesHash) => w.cursor # Null /\ n.createdAt >= w.cursor
                      /\ n.rulesHash \in w.owed /\ w.cursor # Null /\ n.createdAt >= w.cursor => Saw(w.seen, n.rulesHash)
    BY DEF SeenDownTo
  <2>1. SeenDownTo(S, w)
    BY <1>1, <1>3 DEF WalkSound
  <2>2. CASE \E m \in S : SameMarket(m, n)
    BY <2>1, <2>2 DEF SeenDownTo, SameMarket
  <2>3. CASE n.createdAt = at /\ \A m \in S : m.rulesHash # n.rulesHash
    <3>1. n.rulesHash \notin HashesOf(S)
      BY <2>3 DEF HashesOf
    <3>2. n.rulesHash \notin w.owed
      BY <3>1 DEF WalkSound
    <3>3. ~Saw(w.seen, n.rulesHash)
      <4>1. \A i \in DOMAIN w.seen : w.seen[i] \in HashesOf(S)
        <5> DEFINE A == HashesOf(S)
                   seen == w.seen
        <5>1. seen \in Seq(A)
          BY DEF WalkSound
        <5> HIDE DEF A, seen
        <5>2. \A i \in DOMAIN seen : seen[i] \in A
          BY <5>1
        <5> QED
          BY <5>2 DEF A, seen
      <4> QED
        BY <3>1, <4>1 DEF Saw
    <3> QED
      BY <3>2, <3>3
  <2> QED
    BY <2>2, <2>3 DEF Onward
<1> QED
    BY <1>1, <1>2, <1>3 DEF WalkSound

LEMMA WalkLater ==
    ASSUME NEW S, NEW at \in Nat, MarketsHeld(S, at), NEW w, WalkSound(S, w, at)
    PROVE  MarketsHeld(S, at + 1) /\ WalkSound(S, w, at + 1)
PROOF
<1>1. \A x \in 0 .. at : x \in 0 .. (at + 1)
    OBVIOUS
<1>2. MarketsSound(S, at + 1)
    BY <1>1 DEF MarketsHeld, MarketsSound
<1> QED
    BY <1>1, <1>2 DEF MarketsHeld, WalkSound

LEMMA WalkOpened ==
    ASSUME NEW S, NEW at \in Nat, NEW w, HasColumns(w, WalkColumns),
           w.phase = "open", w.cursor = Null, w.seen = <<>>, w.owed = HashesOf(S)
    PROVE  WalkSound(S, w, at)
PROOF
<1>1. w.seen \in Seq(HashesOf(S)) /\ DOMAIN w.seen = {}
    BY EmptySeq
<1> QED
    BY <1>1 DEF WalkSound, SeenDownTo, Saw

\* The next page: the markets older than the cursor down to the new one.
LEMMA WalkAfterPage ==
    ASSUME NEW S, NEW at \in Nat, MarketsHeld(S, at),
           NEW w, WalkSound(S, w, at), w.phase = "open",
           NEW page, NEW s, NEW k, PageOf(page, S, w.cursor, s, k),
           NEW v, HasColumns(v, WalkColumns),
           v.cursor = page.nextCursor, v.owed = w.owed,
           v.seen = w.seen \o RulesHashes(page.markets),
           v.phase = IF page.nextCursor = Null THEN "over" ELSE "open"
    PROVE  WalkSound(S, v, at)
PROOF
<1> DEFINE A == HashesOf(S)
           old == w.seen
           new == RulesHashes(page.markets)
           cursor == w.cursor
<1>1. Null \notin Nat
    BY StoresAssumption DEF StoresAssumption
<1>2. /\ Len(s) \in Nat /\ DOMAIN s = 1 .. Len(s)
      /\ \A i \in DOMAIN s : s[i] \in S /\ (cursor = Null \/ s[i].createdAt < cursor)
      /\ \A m \in S : cursor = Null \/ m.createdAt < cursor => \E i \in DOMAIN s : s[i] = m
      /\ \A i, j \in DOMAIN s : s[i] = s[j] => i = j
  <2>1. Enumerates(s, OlderThan(S, cursor))
    BY DEF PageOf
  <2> QED
    BY <2>1, EnumerationIsWhole DEF Enumerates, OlderThan
<1>3. \A m, n \in S : m.rulesHash = n.rulesHash => m = n
    BY DEF MarketsHeld, MarketsSound
<1>4. \A m \in S : m.createdAt \in 0 .. at
    BY DEF MarketsHeld, MarketsSound
<1>5. cursor = Null \/ cursor \in 0 .. at
    BY DEF WalkSound
<1>6. /\ k \in 0 .. Len(s) /\ new = [i \in 1 .. k |-> s[i].rulesHash]
      /\ k \in Nat /\ \A i \in 1 .. k : i \in DOMAIN s /\ s[i] \in S
  <2>1. k \in 0 .. Len(s) /\ new = [i \in 1 .. k |-> s[i].rulesHash]
    BY DEF PageOf
  <2>2. k \in Nat /\ \A i \in 1 .. k : i \in DOMAIN s
    BY <1>2, <2>1
  <2> QED
    BY <1>2, <2>1, <2>2
<1>7. old \in Seq(A)
    BY DEF WalkSound
<1>8. \A i \in 1 .. k : s[i].rulesHash \in A
  <2>1. \A m \in S : m.rulesHash \in A
    BY DEF HashesOf
  <2> HIDE DEF A
  <2> QED
    BY <1>6, <2>1
<1>9. new \in Seq(A) /\ Len(new) = k /\ \A i \in 1 .. k : new[i] = s[i].rulesHash
  <2> HIDE DEF A, new
  <2>1. k \in Nat
    BY <1>2, <1>6
  <2>2. new \in [1 .. k -> A]
    BY <1>6, <1>8
  <2> QED
    BY <1>6, <2>1, <2>2, FunctionIsSeq
<1> DEFINE both == old \o new
<1>10. /\ both \in Seq(A) /\ Len(old) \in Nat
       /\ DOMAIN old = 1 .. Len(old) /\ DOMAIN new = 1 .. k
       /\ DOMAIN both = 1 .. (Len(old) + k)
       /\ \A i \in 1 .. Len(old) : both[i] = old[i]
       /\ \A i \in 1 .. k : both[Len(old) + i] = new[i]
  <2> HIDE DEF A, old, new
  <2>1. k \in Nat
    BY <1>6
  <2>2. /\ Len(old) \in Nat /\ DOMAIN old = 1 .. Len(old)
        /\ DOMAIN new = 1 .. k
    BY <1>7, <1>9, LenProperties
  <2>3. both \in Seq(A) /\ Len(both) = Len(old) + k
    BY <1>7, <1>9, ConcatProperties
  <2>4. DOMAIN both = 1 .. (Len(old) + k)
    BY <2>3, LenProperties
  <2>5. \A i \in 1 .. Len(old) : both[i] = old[i]
    BY <1>7, <1>9, <2>1, <2>2, ConcatProperties
  <2>6. \A i \in 1 .. k : both[Len(old) + i] = new[i]
    BY <1>7, <1>9, <2>1, <2>2
  <2> QED
    BY <2>2, <2>3, <2>4, <2>5, <2>6
<1> HIDE DEF A, old, new, both
<1>11. v.seen = both
    BY DEF both, old, new
<1>12. \A i \in DOMAIN both : i \in DOMAIN old \/ \E j \in 1 .. k : i = Len(old) + j
  <2> SUFFICES ASSUME NEW i \in DOMAIN both, i \notin DOMAIN old
               PROVE  \E j \in 1 .. k : i = Len(old) + j
    OBVIOUS
  <2>1. i - Len(old) \in 1 .. k
    BY <1>2, <1>6, <1>10
  <2> QED
    BY <1>10, <2>1
<1>13. \A h : Saw(both, h) <=> Saw(old, h) \/ \E j \in 1 .. k : s[j].rulesHash = h
  <2>1. ASSUME NEW h, Saw(both, h) PROVE Saw(old, h) \/ \E j \in 1 .. k : s[j].rulesHash = h
    <3>1. PICK i \in DOMAIN both : both[i] = h
      BY <2>1 DEF Saw
    <3>2. CASE i \in DOMAIN old
      BY <1>10, <3>1, <3>2 DEF Saw
    <3>3. CASE \E j \in 1 .. k : i = Len(old) + j
      BY <1>9, <1>10, <3>1, <3>3
    <3> QED
      BY <1>12, <3>2, <3>3
  <2>2. ASSUME NEW h, Saw(old, h) PROVE Saw(both, h)
    BY <1>2, <1>6, <1>10, <2>2 DEF Saw
  <2>3. ASSUME NEW j \in 1 .. k PROVE Saw(both, s[j].rulesHash)
    <3>1. Len(old) + j \in DOMAIN both
      BY <1>2, <1>6, <1>10
    <3> QED
      BY <1>9, <1>10, <3>1 DEF Saw
  <2> QED
    BY <2>1, <2>2, <2>3
<1>14. /\ (page.nextCursor = Null /\ k = Len(s)) \/ (k > 0 /\ page.nextCursor = s[k].createdAt)
       /\ \A i, j \in DOMAIN s : i < j => s[j].createdAt <= s[i].createdAt
    BY DEF PageOf, NewestFirst
<1>15. (page.nextCursor = Null \/ page.nextCursor \in 0 .. at) /\ (k > 0 => k \in DOMAIN s /\ s[k] \in S)
  <2>1. k > 0 => k \in 1 .. k
    BY <1>6
  <2>2. k > 0 => k \in DOMAIN s /\ s[k] \in S
    BY <1>6, <2>1
  <2> QED
    BY <1>4, <1>14, <2>2
<1>16. ASSUME AtDistinctInstants(S)
       PROVE  /\ \A i, j \in DOMAIN both : both[i] = both[j] => i = j
              /\ v.phase = "open" => SeenDownTo(S, v)
              /\ v.phase = "over" => \A h \in v.owed : Saw(both, h)
  <2>1. /\ \A i, j \in DOMAIN old : old[i] = old[j] => i = j
        /\ SeenDownTo(S, w)
    BY <1>16 DEF WalkSound, old
  <2>2. ASSUME NEW m \in S, Saw(old, m.rulesHash) PROVE cursor # Null /\ m.createdAt >= cursor
    BY <2>1, <2>2 DEF SeenDownTo, old
  <2>3. ASSUME NEW m \in S, m.rulesHash \in w.owed, ~Saw(old, m.rulesHash)
        PROVE  \E i \in DOMAIN s : s[i] = m
    BY <1>2, <1>4, <1>5, <2>1, <2>3 DEF SeenDownTo, old
  <2>4. \A i \in DOMAIN old, j \in 1 .. k : old[i] # s[j].rulesHash
    <3> SUFFICES ASSUME NEW i \in DOMAIN old, NEW j \in 1 .. k, old[i] = s[j].rulesHash PROVE FALSE
      OBVIOUS
    <3>1. j \in DOMAIN s /\ s[j] \in S
      BY <1>2, <1>6
    <3>2. Saw(old, s[j].rulesHash)
      BY DEF Saw
    <3> QED
      BY <1>2, <1>4, <1>5, <2>2, <3>1, <3>2
  <2>5. \A i, j \in 1 .. k : s[i].rulesHash = s[j].rulesHash => i = j
    BY <1>2, <1>3, <1>6
  <2>6. \A i, j \in DOMAIN both : both[i] = both[j] => i = j
    <3> SUFFICES ASSUME NEW i \in DOMAIN both, NEW j \in DOMAIN both, both[i] = both[j] PROVE i = j
      OBVIOUS
    <3>1. CASE i \in DOMAIN old /\ j \in DOMAIN old
      BY <1>10, <2>1, <3>1
    <3>2. CASE i \in DOMAIN old /\ j \notin DOMAIN old
      <4>1. PICK b \in 1 .. k : j = Len(old) + b
        BY <1>12, <3>2
      <4>2. both[i] = old[i] /\ both[j] = s[b].rulesHash
        BY <1>9, <1>10, <3>2, <4>1
      <4> QED
        BY <2>4, <3>2, <4>2
    <3>3. CASE i \notin DOMAIN old /\ j \in DOMAIN old
      <4>1. PICK a \in 1 .. k : i = Len(old) + a
        BY <1>12, <3>3
      <4>2. both[j] = old[j] /\ both[i] = s[a].rulesHash
        BY <1>9, <1>10, <3>3, <4>1
      <4> QED
        BY <2>4, <3>3, <4>2
    <3>4. CASE i \notin DOMAIN old /\ j \notin DOMAIN old
      <4>1. PICK a \in 1 .. k : i = Len(old) + a
        BY <1>12, <3>4
      <4>2. PICK b \in 1 .. k : j = Len(old) + b
        BY <1>12, <3>4
      <4>3. both[i] = s[a].rulesHash /\ both[j] = s[b].rulesHash
        BY <1>9, <1>10, <4>1, <4>2
      <4>4. a = b
        BY <2>5, <4>3
      <4> QED
        BY <4>1, <4>2, <4>4
    <3> QED
      BY <3>1, <3>2, <3>3, <3>4
  <2>7. ASSUME v.phase = "open", NEW m \in S
        PROVE  /\ Saw(both, m.rulesHash) => v.cursor # Null /\ m.createdAt >= v.cursor
               /\ m.rulesHash \in v.owed /\ m.createdAt >= v.cursor => Saw(both, m.rulesHash)
    <3>1. page.nextCursor # Null
      BY <2>7
    <3>2. k > 0 /\ v.cursor = s[k].createdAt /\ v.cursor # Null /\ v.cursor \in Nat /\ k \in DOMAIN s /\ s[k] \in S
      <4>1. k > 0 /\ v.cursor = s[k].createdAt /\ v.cursor # Null
        BY <1>14, <3>1
      <4>2. v.cursor \in 0 .. at
        BY <1>15, <3>1
      <4> QED
        BY <1>15, <4>1, <4>2
    <3>3. ASSUME Saw(old, m.rulesHash) PROVE m.createdAt >= v.cursor
      BY <1>2, <1>4, <1>5, <2>2, <3>2, <3>3
    <3>4. ASSUME NEW j \in 1 .. k, s[j].rulesHash = m.rulesHash PROVE m.createdAt >= v.cursor
      <4>1. j \in DOMAIN s /\ s[j] = m
        BY <1>2, <1>3, <1>6, <3>4
      <4>2. j = k \/ j < k
        BY <1>2, <1>6
      <4> QED
        BY <1>4, <1>14, <3>2, <4>1, <4>2
    <3>5. ASSUME m.rulesHash \in v.owed, m.createdAt >= v.cursor, ~Saw(old, m.rulesHash)
          PROVE  \E j \in 1 .. k : s[j].rulesHash = m.rulesHash
      <4>1. PICK i \in DOMAIN s : s[i] = m
        BY <2>3, <3>5
      <4>2. ASSUME k < i PROVE FALSE
        <5>1. m.createdAt <= s[k].createdAt
          BY <1>14, <3>2, <4>1, <4>2
        <5>2. m.createdAt = s[k].createdAt
          BY <1>4, <3>2, <3>5, <5>1
        <5>3. m = s[k]
          BY <1>16, <3>2, <5>2 DEF AtDistinctInstants
        <5> QED
          BY <1>2, <1>6, <3>2, <4>1, <4>2, <5>3
      <4>3. i \in 1 .. k
        BY <1>2, <1>6, <4>2
      <4> QED
        BY <4>1, <4>3
    <3> QED
      BY <1>13, <3>2, <3>3, <3>4, <3>5
  <2>8. ASSUME v.phase = "over", NEW h \in v.owed PROVE Saw(both, h)
    <3>1. k = Len(s)
      <4>1. page.nextCursor = Null
        BY <2>8
      <4>2. k > 0 => s[k].createdAt \in Nat
        BY <1>4, <1>15
      <4> QED
        BY <1>1, <1>14, <4>1, <4>2
    <3>2. PICK m \in S : m.rulesHash = h
      BY <2>8 DEF WalkSound, HashesOf
    <3>3. CASE Saw(old, h)
      BY <1>13, <3>3
    <3>4. CASE ~Saw(old, h)
      <4>1. PICK i \in DOMAIN s : s[i] = m
        BY <2>3, <2>8, <3>2, <3>4
      <4> QED
        BY <1>2, <1>13, <3>1, <3>2, <4>1
    <3> QED
      BY <3>3, <3>4
  <2> QED
    BY <1>11, <2>6, <2>7, <2>8 DEF SeenDownTo
<1>17. v.owed \subseteq HashesOf(S) /\ v.phase \in {"open", "over"} /\ v.seen \in Seq(HashesOf(S))
    BY <1>10, <1>11 DEF WalkSound, A
<1> QED
    BY <1>11, <1>15, <1>16, <1>17 DEF WalkSound

\* No call but those on markets touches the walk, and they keep what it has seen
\* in step with the table.
WalkIInv ==
    /\ now \in Nat
    /\ subject # "markets" => walk.phase = "none" /\ walk.seen = <<>>
    /\ subject = "markets" =>
         /\ comparable \in BOOLEAN
         /\ IsTables(db)
         /\ MarketsHeld(MarketsOf(db), now)
         /\ WalkSound(MarketsOf(db), walk, now)

LEMMA WalkInit == Init => WalkIInv
PROOF
<1> SUFFICES ASSUME Init PROVE WalkIInv
    OBVIOUS
<1>1. now = 1 /\ comparable = TRUE /\ walk = NoWalk
    BY DEF Init
<1>2. walk.phase = "none" /\ walk.seen = <<>> /\ walk.cursor = Null /\ walk.owed = {} /\ HasColumns(walk, WalkColumns)
    BY <1>1 DEF NoWalk, HasColumns, WalkColumns
<1>3. ASSUME subject = "markets"
      PROVE  IsTables(db) /\ MarketsHeld(MarketsOf(db), now) /\ WalkSound(MarketsOf(db), walk, now)
  <2>1. db = D!Empty
    BY <1>3 DEF Init
  <2>2. MarketsOf(db) = {} /\ IsTables(db)
    BY <2>1 DEF D!Empty, MarketsOf, IsTables, Tables
  <2>3. MarketsHeld({}, now)
    BY FS_EmptySet DEF MarketsHeld, MarketsSound
  <2>4. <<>> \in Seq(HashesOf({})) /\ DOMAIN <<>> = {}
    BY EmptySeq
  <2>5. WalkSound({}, walk, now)
    BY <1>2, <2>4 DEF WalkSound, SeenDownTo, Saw
  <2> QED
    BY <2>2, <2>3, <2>5
<1> QED
    BY <1>1, <1>2, <1>3 DEF WalkIInv

\* A statement on the markets that may be repeated, and a read.
LEMMA WalkAfterStatement ==
    ASSUME WalkIInv, subject = "markets", NEW runs, NEW reference, Attempts("same", runs, reference),
           Settles(db, runs[1], runs[2], now), runs[3] = runs[1], runs[4] = runs[1]
    PROVE  WalkIInv'
PROOF
<1>1. comparable = TRUE
    BY DEF WalkIInv, Attempts
<1>2. runs[2] = runs[1]
    BY DEF Settles
<1>3. Effect("same", runs[1], reference)
    BY <1>1, <1>2, EffectOfAttempts
<1>4. subject' = subject /\ now' = now /\ walk' = walk /\ comparable' = TRUE /\ (db' = db \/ db' = After(runs[1]))
    BY <1>3 DEF Effect, After
<1>5. CASE db' = db
    BY <1>4, <1>5 DEF WalkIInv
<1>6. CASE db' = After(runs[1])
  <2>1. IsTables(db') /\ Onward(MarketsOf(db), MarketsOf(db'), now)
    BY <1>6 DEF Settles
  <2>2. MarketsHeld(MarketsOf(db'), now)
    BY <2>1 DEF Onward
  <2>3. WalkSound(MarketsOf(db'), walk, now)
    BY <2>1, WalkAfterCall DEF WalkIInv
  <2> QED
    BY <1>4, <2>1, <2>2, <2>3 DEF WalkIInv, MarketsOf
<1> QED
    BY <1>4, <1>5, <1>6

LEMMA WalkAfterRead ==
    ASSUME WalkIInv, subject = "markets", NEW given, given.db = db, NEW reference, Read(given, reference)
    PROVE  WalkIInv'
PROOF
<1>1. Attempts("same", <<given, given, given, given>>, reference)
    BY DEF Read, Guard, Runs
<1>2. Settles(db, given, given, now)
    BY NothingSettles DEF WalkIInv, After
<1> HIDE DEF Read
<1> QED
    BY <1>1, <1>2, WalkAfterStatement

\* The runs of each statement.
RegisterRuns(h, w) == LET Run(d) == D!MarketsRegister(d, h, w, now) IN Runs(Run)
AttachRuns(h, id, a) == LET Run(d) == D!MarketsAttach(d, h, id, a, now) IN Runs(Run)
StatusRuns(h, s) == LET Run(d) == D!MarketsUpdateStatus(d, h, s, now) IN Runs(Run)
PlanRuns(h) == LET Run(d) == D!MarketsSetValidationPlan(d, h, "plan", now) IN Runs(Run)

\* A statement on the markets that settles has the same four runs.
LEMMA WalkAfterSettled ==
    ASSUME WalkIInv, subject = "markets", NEW runs, NEW reference, Attempts("same", runs, reference),
           NEW x1, NEW x2, NEW x3, NEW x4, runs = <<x1, x2, x3, x4>>, Settles(db, x1, x2, now),
           x2 = x1 => x3 = x2, x3 = x2 => x4 = x3
    PROVE  WalkIInv'
PROOF
<1>1. x2 = x1 /\ x3 = x1 /\ x4 = x1
    BY DEF Settles
<1>2. runs[1] = x1 /\ runs[2] = x2 /\ runs[3] = x3 /\ runs[4] = x4
    OBVIOUS
<1>3. Settles(db, runs[1], runs[2], now) /\ runs[3] = runs[1] /\ runs[4] = runs[1]
    BY <1>1, <1>2
<1> QED
    BY <1>3, WalkAfterStatement

LEMMA WalkAfterMarketCalls ==
    ASSUME WalkIInv, MarketCalls PROVE WalkIInv'
PROOF
<1>1. subject = "markets" /\ now \in Nat /\ IsTables(db) /\ MarketsHeld(MarketsOf(db), now)
    BY DEF WalkIInv, MarketCalls
<1>2. CASE RegisterMarket
  <2>1. PICK h \in Hashes, w \in Wallets :
          Attempts("same", RegisterRuns(h, w), M!MarketsRegister(mem, h, w, now))
    BY <1>2 DEF RegisterMarket, Guard, RegisterRuns, Runs
  <2> DEFINE X(e) == D!MarketsRegister(e, h, w, now)
  <2>2. Settles(db, X(db), X(X(db).db), now)
    BY <1>1, RegisterSettles
  <2>3. RegisterRuns(h, w) = <<X(db), X(X(db).db), X(X(X(db).db).db), X(X(X(X(db).db).db).db)>>
    BY DEF RegisterRuns, Runs
  <2> HIDE DEF X
  <2> QED
    BY <1>1, <2>1, <2>2, <2>3, WalkAfterSettled
<1>3. CASE FindMarket
  <2>1. PICK h \in Hashes :
          \/ Read(D!MarketsFindByRulesHash(db, h), M!MarketsFindByRulesHash(mem, h))
          \/ Read(D!MarketsFindByChainMarketId(db, MarketIdOf[h]), M!MarketsFindByChainMarketId(mem, MarketIdOf[h]))
    BY <1>3 DEF FindMarket
  <2>2. D!MarketsFindByRulesHash(db, h).db = db /\ D!MarketsFindByChainMarketId(db, MarketIdOf[h]).db = db
    BY DEF D!MarketsFindByRulesHash, D!MarketsFindByChainMarketId, D!MayGive
  <2> QED
    BY <1>1, <2>1, <2>2, WalkAfterRead
<1>4. CASE AttachMarket
  <2>1. PICK h \in Hashes : \E a \in AddressOf[h] :
          Attempts("same", AttachRuns(h, MarketIdOf[h], a), M!MarketsAttach(mem, h, MarketIdOf[h], a, now))
    BY <1>4 DEF AttachMarket, Guard, AttachRuns, Runs
  <2>6. PICK a \in AddressOf[h] :
          Attempts("same", AttachRuns(h, MarketIdOf[h], a), M!MarketsAttach(mem, h, MarketIdOf[h], a, now))
    BY <2>1
  <2> DEFINE id == MarketIdOf[h]
             X(e) == D!MarketsAttach(e, h, id, a, now)
  <2>2. Identifies(h, id, a)
    BY DEF Identifies
  <2>3. AttachRuns(h, id, a) = <<X(db), X(X(db).db), X(X(X(db).db).db), X(X(X(X(db).db).db).db)>>
    BY DEF AttachRuns, Runs
  <2> HIDE DEF id
  <2>4. Settles(db, X(db), X(X(db).db), now)
    BY <1>1, <2>2, AttachSettles
  <2> HIDE DEF X
  <2>5. Attempts("same", AttachRuns(h, id, a), M!MarketsAttach(mem, h, id, a, now))
    BY <2>6 DEF id
  <2> QED
    BY <1>1, <2>3, <2>4, <2>5, WalkAfterSettled
<1>5. CASE UpdateStatus
  <2>1. PICK h \in Hashes, s \in {"OPEN", "CLOSED"} :
          Attempts("same", StatusRuns(h, s), M!MarketsUpdateStatus(mem, h, s, now))
    BY <1>5 DEF UpdateStatus, Guard, StatusRuns, Runs
  <2> DEFINE X(e) == D!MarketsUpdateStatus(e, h, s, now)
  <2>2. Settles(db, X(db), X(X(db).db), now)
    BY <1>1, StatusSettles
  <2>3. StatusRuns(h, s) = <<X(db), X(X(db).db), X(X(X(db).db).db), X(X(X(X(db).db).db).db)>>
    BY DEF StatusRuns, Runs
  <2> HIDE DEF X
  <2> QED
    BY <1>1, <2>1, <2>2, <2>3, WalkAfterSettled
<1>6. CASE SetPlan
  <2>1. PICK h \in Hashes :
          Attempts("same", PlanRuns(h), M!MarketsSetValidationPlan(mem, h, "plan", now))
    BY <1>6 DEF SetPlan, Guard, PlanRuns, Runs
  <2> DEFINE X(e) == D!MarketsSetValidationPlan(e, h, "plan", now)
  <2>2. Settles(db, X(db), X(X(db).db), now)
    BY <1>1, PlanSettles
  <2>3. PlanRuns(h) = <<X(db), X(X(db).db), X(X(X(db).db).db), X(X(X(X(db).db).db).db)>>
    BY DEF PlanRuns, Runs
  <2> HIDE DEF X
  <2> QED
    BY <1>1, <2>1, <2>2, <2>3, WalkAfterSettled
<1>7. CASE ListAddresses
  <2>1. D!MarketsListOnChainAddresses(db).db = db
    BY DEF D!MarketsListOnChainAddresses, D!MayGive
  <2> QED
    BY <1>1, <1>7, <2>1, WalkAfterRead DEF ListAddresses
<1>8. CASE ListFirstPage
  <2>1. PICK s \in {Null, "OPEN"} :
          Read([db |-> db, answers |-> {Shown(p) : p \in D!MarketsList(db, s, Null, PageSize).answers}],
               [db |-> mem, answer |-> Shown(M!MarketsList(mem, s, Null, PageSize).answer)])
    BY <1>8 DEF ListFirstPage
  <2> DEFINE given == [db |-> db, answers |-> {Shown(p) : p \in D!MarketsList(db, s, Null, PageSize).answers}]
  <2>2. given.db = db
    OBVIOUS
  <2> HIDE DEF given
  <2> QED
    BY <1>1, <2>1, <2>2, WalkAfterRead DEF given
<1>9. CASE OpenWalk
  <2>1. UNCHANGED <<subject, db, now, comparable>> /\ HasColumns(walk', WalkColumns)
        /\ walk'.phase = "open" /\ walk'.cursor = Null /\ walk'.seen = <<>> /\ walk'.owed = HashesOf(MarketsOf(db))
    BY <1>9 DEF OpenWalk, NoWalk, HasColumns, WalkColumns, HashesOf, MarketsOf
  <2> DEFINE w == walk'
             markets == MarketsOf(db)
  <2> HIDE DEF w, markets
  <2>2. WalkSound(markets, w, now)
    BY <1>1, <2>1, WalkOpened DEF w, markets
  <2> QED
    BY <1>1, <2>1, <2>2 DEF WalkIInv, w, markets, MarketsOf
<1>10. CASE NextPage
  <2>1. PICK page \in D!MarketsList(db, Null, walk.cursor, PageSize).answers :
          walk' = [walk EXCEPT !.cursor = page.nextCursor,
                               !.offset = M!MarketsList(mem, Null, walk.offset, PageSize).answer.nextCursor,
                               !.seen = @ \o RulesHashes(page.markets),
                               !.phase = IF page.nextCursor = Null THEN "over" ELSE "open"]
    BY <1>10 DEF NextPage
  <2>2. UNCHANGED <<subject, db, now, comparable>> /\ walk.phase = "open"
    BY <1>10 DEF NextPage
  <2>3. WalkSound(MarketsOf(db), walk, now) /\ HasColumns(walk, WalkColumns)
    BY <1>1 DEF WalkIInv, WalkSound
  <2> DEFINE v == walk'
             w == walk
             markets == MarketsOf(db)
             offset == M!MarketsList(mem, Null, walk.offset, PageSize).answer.nextCursor
             hashes == RulesHashes(page.markets)
             next == page.nextCursor
  <2>4. /\ HasColumns(v, WalkColumns) /\ v.cursor = page.nextCursor /\ v.owed = w.owed
        /\ v.seen = w.seen \o RulesHashes(page.markets)
        /\ v.phase = IF page.nextCursor = Null THEN "over" ELSE "open"
    <3>1. v = [w EXCEPT !.cursor = next, !.offset = offset, !.seen = @ \o hashes, !.phase = IF next = Null THEN "over" ELSE "open"]
      BY <2>1
    <3>2. HasColumns(w, WalkColumns)
      BY <2>3
    <3> HIDE DEF v, w, offset, hashes, next
    <3>3. /\ HasColumns(v, WalkColumns) /\ v.cursor = next /\ v.owed = w.owed
          /\ v.seen = w.seen \o hashes
          /\ v.phase = IF next = Null THEN "over" ELSE "open"
      BY <3>1, <3>2 DEF HasColumns, WalkColumns
    <3> QED
      BY <3>3 DEF next, hashes
  <2>5. PICK s, k : PageOf(page, markets, walk.cursor, s, k)
    BY <1>1, PagesAreCut DEF MarketsOf
  <2> HIDE DEF v, markets, w
  <2>6. WalkSound(markets, v, now)
    BY <1>1, <2>2, <2>3, <2>4, <2>5, WalkAfterPage DEF w, markets
  <2> QED
    BY <1>1, <2>2, <2>6 DEF WalkIInv, v, markets, MarketsOf
<1> QED
    BY <1>2, <1>3, <1>4, <1>5, <1>6, <1>7, <1>8, <1>9, <1>10 DEF MarketCalls

LEMMA WalkAfterOtherCalls ==
    ASSUME WalkIInv,
           CompilerCalls \/ ResolutionCalls \/ DocumentCalls \/ EventCalls
           \/ CheckpointCalls \/ ChainStateCalls \/ AuthCalls
    PROVE  WalkIInv'
PROOF
<1>1. CompilerCalls => subject = "compiler" /\ UNCHANGED <<subject, now, walk>>
    BY DEF CompilerCalls, TouchWallet, CreateSession, FindSession, ListTurns, AppendTurn, MarkCompiled,
           SaveCompilation, FindCompilation, Read, Guard, Attempts
<1>2. ResolutionCalls => subject = "resolutions" /\ UNCHANGED <<subject, now, walk>>
    BY DEF ResolutionCalls, RecordResolution, MarkSubmission, MarkFinalized, ReadResolutions, Read, Guard,
       Attempts
<1>3. DocumentCalls => subject = "documents" /\ UNCHANGED <<subject, now, walk>>
    BY DEF DocumentCalls, SaveEvidence, ReadEvidence, SaveChallenge, FindChallenge, Read, Guard, Attempts
<1>4. EventCalls => subject = "events" /\ UNCHANGED <<subject, now, walk>>
    BY DEF EventCalls, AppendEvents, DeleteEvents, ReadEvents, Read, Guard, Attempts
<1>5. CheckpointCalls => subject = "checkpoints" /\ UNCHANGED <<subject, now, walk>>
    BY DEF CheckpointCalls, LoadCheckpoint, SaveCheckpoint, Rewind, RecordBlock, RecentBlocks, DeleteBlocks,
       Read, Guard, Attempts
<1>6. ChainStateCalls => subject = "chainState" /\ UNCHANGED <<subject, now, walk>>
    BY DEF ChainStateCalls, UpsertChainState, DeleteChainState, ReadChainState, Read, Guard, Attempts
<1>7. AuthCalls => subject = "auth" /\ UNCHANGED <<subject, now, walk>>
    BY DEF AuthCalls, IssueNonce, ConsumeNonce, PruneNonces, CreateAuthSession, FindAuthSession,
       RevokeAuthSession,
           Read, Guard, Attempts
<1>8. subject # "markets" /\ UNCHANGED <<subject, now, walk>>
    BY <1>1, <1>2, <1>3, <1>4, <1>5, <1>6, <1>7
<1> QED
    BY <1>8 DEF WalkIInv

LEMMA WalkNext == WalkIInv /\ [Next]_vars => WalkIInv'
PROOF
<1> SUFFICES ASSUME WalkIInv, [Next]_vars PROVE WalkIInv'
    OBVIOUS
<1>1. CASE Tick
  <2>1. UNCHANGED <<subject, db, comparable, walk>> /\ now' = now + 1
    BY <1>1 DEF Tick
  <2>2. now \in Nat /\ now + 1 \in Nat
    BY DEF WalkIInv
  <2>3. subject = "markets" => MarketsHeld(MarketsOf(db), now + 1) /\ WalkSound(MarketsOf(db), walk, now + 1)
    BY <2>2, WalkLater DEF WalkIInv
  <2> QED
    BY <2>1, <2>2, <2>3 DEF WalkIInv, MarketsOf
<1>2. CASE UNCHANGED vars
    BY <1>2 DEF WalkIInv, vars, MarketsOf
<1> QED
    BY <1>1, <1>2, WalkAfterMarketCalls, WalkAfterOtherCalls DEF Next

\* Keyset pagination, for any number of markets and any page size.
THEOREM WalkSeesAll == Spec => []WalkSeesEveryMarket
PROOF
<1>1. WalkIInv => WalkSeesEveryMarket
  <2> SUFFICES ASSUME WalkIInv, DistinctInstants
               PROVE  /\ walk.phase = "over" => \A h \in walk.owed : \E i \in DOMAIN walk.seen : walk.seen[i] = h
                      /\ \A i, j \in DOMAIN walk.seen : walk.seen[i] = walk.seen[j] => i = j
    BY DEF WalkSeesEveryMarket
  <2>1. CASE subject # "markets"
    <3>1. walk.phase = "none" /\ walk.seen = <<>>
      BY <2>1 DEF WalkIInv
    <3>2. DOMAIN walk.seen = {}
      BY <3>1, EmptySeq
    <3> QED
      BY <3>1, <3>2
  <2>2. CASE subject = "markets"
    <3>1. AtDistinctInstants(MarketsOf(db))
      BY DEF DistinctInstants, AtDistinctInstants, MarketsOf
    <3> QED
      BY <2>2, <3>1 DEF WalkIInv, WalkSound, Saw
  <2> QED
    BY <2>1, <2>2
<1> QED
    BY <1>1, WalkInit, WalkNext, PTL DEF Spec

-----------------------------------------------------------------------------
(* That the two stores agree: a call on sound tables leaves sound tables, and *)
(* memory's answer is one that PostgreSQL may give.                           *)

\* As long as the list has not changed since the walk began, both cursors stand
\* at the same place.
InStep ==
    IF walk.cursor = Null THEN walk.offset = Null
    ELSE walk.offset = Cardinality({m \in MarketsOf(db) : m.createdAt >= walk.cursor})

ResolutionsIn(m) == m.resolutions

\* The rows are the same and sound, what was last compared agreed, and the two listings that a
\* client goes through stand at one place.
AgreeIInv ==
    /\ subject \in Subjects /\ now \in Nat /\ calls \in Nat /\ comparable \in BOOLEAN
    /\ last.compared => last.is \in last.may
    /\ walk.openedAt \in Nat /\ walk.openedAt <= calls
    /\ comparable =>
         /\ Sound(db, mem, now)
         /\ subject = "resolutions" => Len(ResolutionsIn(mem)) <= calls
         /\ subject \in {"resolutions", "documents"} => D!Refers(db, h0)
    /\ comparable /\ walk.phase = "open" /\ Quiet /\ AtDistinctInstants(MarketsOf(db)) => InStep

\* What a call leaves, whichever store it is made on.
Agree(x, y, at) == Sound(After(x), After(y), at) /\ y.answer \in x.answers

\* A call whose first run agrees keeps the two in agreement, however often it was repeated.
LEMMA CallAgrees ==
    ASSUME AgreeIInv, NEW repeat, NEW runs, NEW reference, Attempts(repeat, runs, reference),
           Agree(runs[1], reference, now),
           subject = "resolutions" => Len(ResolutionsIn(After(reference))) <= calls + 1,
           subject \in {"resolutions", "documents"} => MarketsOf(After(runs[1])) = MarketsOf(db),
           repeat = "otherEffect" \/ (runs[2].db = runs[1].db /\ runs[3].db = runs[1].db /\ runs[4].db = runs[1].db),
           repeat = "same" => runs[2] = runs[1] /\ runs[3] = runs[1] /\ runs[4] = runs[1]
    PROVE  AgreeIInv'
PROOF
<1>1. comparable = TRUE
    BY DEF AgreeIInv, Attempts
<1>2. Effect(repeat, runs[1], reference)
    BY <1>1, EffectOfAttempts
<1>3. /\ calls' = calls + 1 /\ subject' = subject /\ now' = now /\ walk' = walk
      /\ \/ db' = db /\ mem' = mem /\ comparable' = TRUE /\ last' = NoAnswer
         \/ /\ db' = After(runs[1]) /\ mem' = After(reference) /\ comparable' = TRUE
            /\ last'.compared => last'.may = runs[1].answers /\ last'.is = reference.answer
         \/ comparable' = FALSE /\ last'.compared = FALSE
    BY <1>2 DEF Effect, After
<1>4. calls \in Nat /\ calls' \in Nat /\ walk.openedAt \in Nat /\ walk.openedAt <= calls' /\ ~Quiet'
    BY <1>3 DEF AgreeIInv, Quiet
<1>5. Sound(db, mem, now) /\ (subject = "resolutions" => Len(ResolutionsIn(mem)) <= calls)
      /\ (subject \in {"resolutions", "documents"} => D!Refers(db, h0))
    BY <1>1 DEF AgreeIInv
<1> DEFINE Rest == /\ last'.compared => last'.is \in last'.may
                   /\ comparable' \in BOOLEAN
                   /\ comparable' =>
                        /\ Sound(db', mem', now)
                        /\ subject = "resolutions" => Len(ResolutionsIn(mem')) <= calls + 1
                        /\ subject \in {"resolutions", "documents"} => D!Refers(db', h0)
<1>6. ASSUME db' = db /\ mem' = mem /\ comparable' = TRUE /\ last' = NoAnswer PROVE Rest
  <2>1. last'.compared = FALSE
    BY <1>6 DEF NoAnswer
  <2>2. subject = "resolutions" => Len(ResolutionsIn(mem)) <= calls + 1
    <3>1. ASSUME subject = "resolutions" PROVE Len(ResolutionsIn(mem)) \in Nat
      <4> DEFINE s == ResolutionsIn(mem)
                 S == db["resolutions"]
      <4>1. Enumerates(s, S)
        BY <1>5 DEF Sound, TableSound, Tables, ResolutionsIn
      <4> HIDE DEF s, S
      <4>2. Len(s) \in Nat
        BY <4>1, EnumerationIsWhole
      <4> QED
        BY <4>2 DEF s
    <3> QED
      BY <1>4, <1>5, <3>1
  <2> QED
    BY <1>5, <1>6, <2>1, <2>2
<1>7. ASSUME /\ db' = After(runs[1]) /\ mem' = After(reference) /\ comparable' = TRUE
             /\ last'.compared => last'.may = runs[1].answers /\ last'.is = reference.answer
      PROVE  Rest
  <2>1. Sound(db', mem', now) /\ (last'.compared => last'.is \in last'.may)
    BY <1>7 DEF Agree
  <2>2. subject \in {"resolutions", "documents"} => D!Refers(db', h0)
    BY <1>5, <1>7 DEF D!Refers, MarketsOf
  <2> QED
    BY <1>7, <2>1, <2>2
<1>8. ASSUME comparable' = FALSE /\ last'.compared = FALSE PROVE Rest
    BY <1>8
<1>9. Rest
    BY <1>3, <1>6, <1>7, <1>8
<1>10. subject \in Subjects /\ now \in Nat
    BY DEF AgreeIInv
<1> QED
    BY <1>3, <1>4, <1>9, <1>10 DEF AgreeIInv, ResolutionsIn, D!Refers

\* A read leaves the tables, so that its answer is all there is to compare.
LEMMA ReadAgrees ==
    ASSUME AgreeIInv, NEW given, NEW reference, Read(given, reference),
           given.db = db, reference.db = mem, Sound(db, mem, now) => reference.answer \in given.answers
    PROVE  AgreeIInv'
PROOF
<1>1. Attempts("same", <<given, given, given, given>>, reference)
    BY DEF Read, Guard, Runs
<1>2. comparable = TRUE /\ Sound(db, mem, now)
    BY <1>1 DEF AgreeIInv, Attempts
<1>3. Agree(given, reference, now)
    BY <1>2 DEF Agree, After
<1>4. subject = "resolutions" => Len(ResolutionsIn(mem)) <= calls + 1
  <2>1. Enumerates(mem["resolutions"], db["resolutions"])
    BY <1>2 DEF Sound, TableSound, Tables
  <2>2. Len(mem["resolutions"]) \in Nat
    BY <2>1, EnumerationIsWhole
  <2>3. subject = "resolutions" => Len(mem["resolutions"]) <= calls
    BY <1>2 DEF AgreeIInv, ResolutionsIn
  <2> QED
    BY <2>2, <2>3 DEF ResolutionsIn, AgreeIInv
<1> HIDE DEF Read
<1>5. After(reference) = mem /\ After(given) = db
    BY DEF After
<1> QED
    BY <1>1, <1>3, <1>4, <1>5, CallAgrees

-----------------------------------------------------------------------------
(* Looking a row up. *)

FirstAt(s, hits) == IF hits # {} THEN s[M!Min(hits)] ELSE Null
LastAt(s, hits) == IF hits # {} THEN s[M!Max(hits)] ELSE Null

\* A row is found in the one table exactly when it is found in the other,
LEMMA Found ==
    ASSUME NEW s, NEW S, Enumerates(s, S), NEW rows \in SUBSET S
    PROVE  LET hits == IndexesOf(s, rows)
           IN  /\ hits \in SUBSET DOMAIN s
               /\ hits = {} <=> rows = {}
               /\ hits # {} => /\ M!Min(hits) \in hits /\ M!Max(hits) \in hits
                               /\ \A i \in hits : M!Min(hits) <= i /\ i <= M!Max(hits)
               /\ \A i \in hits : s[i] \in rows
               /\ \A r \in rows : \E i \in hits : s[i] = r
PROOF
<1> DEFINE hits == IndexesOf(s, rows)
<1>1. Len(s) \in Nat /\ DOMAIN s = 1 .. Len(s)
    BY EnumerationIsWhole
<1>2. hits \in SUBSET DOMAIN s /\ (\A i \in hits : s[i] \in rows) /\ \A r \in rows : \E i \in hits : s[i] = r
    BY DEF IndexesOf, Enumerates
<1> HIDE DEF hits
<1>3. hits # {} => /\ M!Min(hits) \in hits /\ M!Max(hits) \in hits
                   /\ \A i \in hits : M!Min(hits) <= i /\ i <= M!Max(hits)
    BY <1>1, <1>2, ExtremeIndexes
<1>4. hits = {} <=> rows = {}
    BY <1>2
<1> QED
    BY <1>2, <1>3, <1>4 DEF hits

\* and what memory finds first is a row that PostgreSQL may give.
LEMMA FoundIsTheRow ==
    ASSUME NEW s, NEW S, Enumerates(s, S), NEW rows \in SUBSET S
    PROVE  /\ FirstAt(s, IndexesOf(s, rows)) \in D!TheRow(rows)
           /\ LastAt(s, IndexesOf(s, rows)) \in D!TheRow(rows)
PROOF
<1> DEFINE hits == IndexesOf(s, rows)
<1>1. /\ hits = {} <=> rows = {}
      /\ hits # {} => s[M!Min(hits)] \in rows /\ s[M!Max(hits)] \in rows
    BY Found
<1> HIDE DEF hits
<1> QED
    BY <1>1 DEF FirstAt, LastAt, D!TheRow, hits

\* SELECT by a column, and the first row of a scan.
LEMMA LookupsAgree ==
    ASSUME NEW d, NEW m, NEW at, Sound(d, m, at), NEW key
    PROVE  /\ M!SessionsFindById(m, key).answer \in D!SessionsFindById(d, key).answers
           /\ M!CompilationsFind(m, key).answer \in D!CompilationsFind(d, key).answers
           /\ M!MarketsFindByRulesHash(m, key).answer \in D!MarketsFindByRulesHash(d, key).answers
           /\ M!MarketsFindByChainMarketId(m, key).answer \in D!MarketsFindByChainMarketId(d, key).answers
           /\ M!EvidenceFindByHash(m, key).answer \in D!EvidenceFindByHash(d, key).answers
           /\ M!ChainStateFindByAddress(m, key).answer \in D!ChainStateFindByAddress(d, key).answers
           /\ M!ChainStateFindByRulesHash(m, key).answer \in D!ChainStateFindByRulesHash(d, key).answers
           /\ M!AuthSessionsFindByTokenHash(m, key).answer \in D!AuthSessionsFindByTokenHash(d, key).answers
PROOF
<1>1. M!SessionsFindById(m, key).answer \in D!SessionsFindById(d, key).answers
  <2> DEFINE rows == {r \in d.sessions : r.id = key}
  <2>1. Enumerates(m.sessions, d.sessions)
    BY DEF Sound, TableSound, Tables
  <2>2. {i \in DOMAIN m.sessions : m.sessions[i].id = key} = IndexesOf(m.sessions, rows)
    BY <2>1, EnumerationIsWhole DEF IndexesOf
  <2>3. FirstAt(m.sessions, IndexesOf(m.sessions, rows)) \in D!TheRow(rows)
    BY <2>1, FoundIsTheRow
  <2> QED
    BY <2>2, <2>3
       DEF M!SessionsFindById, M!FirstOf, M!Finds, M!Where, M!Gives, FirstAt, D!SessionsFindById, D!MayGive
<1>2. M!CompilationsFind(m, key).answer \in D!CompilationsFind(d, key).answers
  <2> DEFINE rows == {r \in d.compilations : r.rulesHash = key}
  <2>1. Enumerates(m.compilations, d.compilations)
    BY DEF Sound, TableSound, Tables
  <2>2. {i \in DOMAIN m.compilations : m.compilations[i].rulesHash = key} = IndexesOf(m.compilations, rows)
    BY <2>1, EnumerationIsWhole DEF IndexesOf
  <2>3. FirstAt(m.compilations, IndexesOf(m.compilations, rows)) \in D!TheRow(rows)
    BY <2>1, FoundIsTheRow
  <2> QED
    BY <2>2, <2>3
       DEF M!CompilationsFind, M!FirstOf, M!Finds, M!Where, M!Gives, FirstAt, D!CompilationsFind, D!MayGive
<1>3. M!MarketsFindByRulesHash(m, key).answer \in D!MarketsFindByRulesHash(d, key).answers
  <2> DEFINE rows == {r \in d.markets : r.rulesHash = key}
  <2>1. Enumerates(m.markets, d.markets)
    BY DEF Sound, TableSound, Tables
  <2>2. {i \in DOMAIN m.markets : m.markets[i].rulesHash = key} = IndexesOf(m.markets, rows)
    BY <2>1, EnumerationIsWhole DEF IndexesOf
  <2>3. FirstAt(m.markets, IndexesOf(m.markets, rows)) \in D!TheRow(rows)
    BY <2>1, FoundIsTheRow
  <2> QED
    BY <2>2, <2>3
       DEF M!MarketsFindByRulesHash, M!FirstOf, M!Finds, M!Where, M!Gives, FirstAt, D!MarketsFindByRulesHash,
          D!MayGive
<1>4. M!MarketsFindByChainMarketId(m, key).answer \in D!MarketsFindByChainMarketId(d, key).answers
  <2> DEFINE rows == {r \in d.markets : r.chainMarketId = key}
  <2>1. Enumerates(m.markets, d.markets)
    BY DEF Sound, TableSound, Tables
  <2>2. {i \in DOMAIN m.markets : m.markets[i].chainMarketId = key} = IndexesOf(m.markets, rows)
    BY <2>1, EnumerationIsWhole DEF IndexesOf
  <2>3. FirstAt(m.markets, IndexesOf(m.markets, rows)) \in D!TheRow(rows)
    BY <2>1, FoundIsTheRow
  <2> QED
    BY <2>2, <2>3
       DEF M!MarketsFindByChainMarketId, M!FirstOf, M!Finds, M!Where, M!Gives, FirstAt,
          D!MarketsFindByChainMarketId, D!MayGive
<1>5. M!EvidenceFindByHash(m, key).answer \in D!EvidenceFindByHash(d, key).answers
  <2> DEFINE rows == {r \in d.evidence : r.evidenceHash = key}
  <2>1. Enumerates(m.evidence, d.evidence)
    BY DEF Sound, TableSound, Tables
  <2>2. {i \in DOMAIN m.evidence : m.evidence[i].evidenceHash = key} = IndexesOf(m.evidence, rows)
    BY <2>1, EnumerationIsWhole DEF IndexesOf
  <2>3. FirstAt(m.evidence, IndexesOf(m.evidence, rows)) \in D!TheRow(rows)
    BY <2>1, FoundIsTheRow
  <2> QED
    BY <2>2, <2>3
       DEF M!EvidenceFindByHash, M!FirstOf, M!Finds, M!Where, M!Gives, FirstAt, D!EvidenceFindByHash, D!MayGive
<1>6. M!ChainStateFindByAddress(m, key).answer \in D!ChainStateFindByAddress(d, key).answers
  <2> DEFINE rows == {r \in d.chainState : r.contractAddress = Lower[key]}
  <2>1. Enumerates(m.chainState, d.chainState)
    BY DEF Sound, TableSound, Tables
  <2>2. {i \in DOMAIN m.chainState : m.chainState[i].contractAddress = Lower[key]} = IndexesOf(m.chainState, rows)
    BY <2>1, EnumerationIsWhole DEF IndexesOf
  <2>3. FirstAt(m.chainState, IndexesOf(m.chainState, rows)) \in D!TheRow(rows)
    BY <2>1, FoundIsTheRow
  <2> QED
    BY <2>2, <2>3
       DEF M!ChainStateFindByAddress, M!FirstOf, M!Finds, M!Where, M!Gives, FirstAt,
          D!ChainStateFindByAddress, D!MayGive, D!ChainStateAt
<1>7. M!ChainStateFindByRulesHash(m, key).answer \in D!ChainStateFindByRulesHash(d, key).answers
  <2> DEFINE rows == {r \in d.chainState : r.rulesHash = key}
  <2>1. Enumerates(m.chainState, d.chainState)
    BY DEF Sound, TableSound, Tables
  <2>2. {i \in DOMAIN m.chainState : m.chainState[i].rulesHash = key} = IndexesOf(m.chainState, rows)
    BY <2>1, EnumerationIsWhole DEF IndexesOf
  <2>3. FirstAt(m.chainState, IndexesOf(m.chainState, rows)) \in D!TheRow(rows)
    BY <2>1, FoundIsTheRow
  <2> QED
    BY <2>2, <2>3
       DEF M!ChainStateFindByRulesHash, M!FirstOf, M!Finds, M!Where, M!Gives, FirstAt,
          D!ChainStateFindByRulesHash, D!MayGive
<1>8. M!AuthSessionsFindByTokenHash(m, key).answer \in D!AuthSessionsFindByTokenHash(d, key).answers
  <2> DEFINE rows == {r \in d.authSessions : r.tokenHash = key}
  <2>1. Enumerates(m.authSessions, d.authSessions)
    BY DEF Sound, TableSound, Tables
  <2>2. {i \in DOMAIN m.authSessions : m.authSessions[i].tokenHash = key} = IndexesOf(m.authSessions, rows)
    BY <2>1, EnumerationIsWhole DEF IndexesOf
  <2>3. FirstAt(m.authSessions, IndexesOf(m.authSessions, rows)) \in D!TheRow(rows)
    BY <2>1, FoundIsTheRow
  <2> QED
    BY <2>2, <2>3
       DEF M!AuthSessionsFindByTokenHash, M!FirstOf, M!Finds, M!Where, M!Gives, FirstAt,
          D!AuthSessionsFindByTokenHash, D!MayGive
<1> QED
    BY <1>1, <1>2, <1>3, <1>4, <1>5, <1>6, <1>7, <1>8

\* The last row inserted is one that ORDER BY ... DESC LIMIT 1 may give.
LEMMA LastIsLatest ==
    ASSUME NEW s, NEW S, Enumerates(s, S), NEW rows \in SUBSET S, NEW x, x = LastAt(s, IndexesOf(s, rows))
    PROVE  \/ rows = {} /\ x = Null
           \/ x \in rows /\ \A q \in rows : \E i, j \in DOMAIN s : i <= j /\ s[i] = q /\ s[j] = x
PROOF
<1> DEFINE hits == IndexesOf(s, rows)
           top == M!Max(hits)
<1>1. /\ hits \in SUBSET DOMAIN s /\ (hits = {} <=> rows = {})
      /\ hits # {} => top \in hits /\ \A i \in hits : i <= top
      /\ \A i \in hits : s[i] \in rows
      /\ \A r \in rows : \E i \in hits : s[i] = r
    BY Found
<1>2. x = IF hits # {} THEN s[top] ELSE Null
    BY DEF LastAt
<1> HIDE DEF hits, top
<1> QED
    BY <1>1, <1>2

\* Of two rows, the one inserted later is not dated earlier.
LEMMA DatedInOrder ==
    ASSUME NEW s, NEW S, Enumerates(s, S), NEW at, Dated(s, at), NEW i \in DOMAIN s, NEW j \in DOMAIN s, i <= j
    PROVE  s[i].createdAt \in Nat /\ s[j].createdAt \in Nat /\ s[i].createdAt <= s[j].createdAt
PROOF
<1>1. DOMAIN s = 1 .. Len(s) /\ Len(s) \in Nat
    BY EnumerationIsWhole
<1>2. s[i].createdAt \in Nat /\ s[j].createdAt \in Nat /\ (i = j \/ i < j)
    BY <1>1 DEF Dated
<1> QED
    BY <1>2 DEF Dated

\* ORDER BY ... DESC LIMIT 1, and the last row of a scan: rows are inserted in order.
LEMMA LatestResolutionAgrees ==
    ASSUME NEW d, NEW m, NEW at, Sound(d, m, at), NEW h
    PROVE  M!ResolutionsFindLatest(m, h).answer \in D!ResolutionsFindLatest(d, h).answers
PROOF
<1> DEFINE s == m.resolutions
           rows == {r \in d.resolutions : r.rulesHash = h}
           x == LastAt(s, IndexesOf(s, rows))
<1>1. Enumerates(s, d.resolutions) /\ ResolutionsSound(s, d.resolutions, d.nextId, at)
    BY DEF Sound, TableSound, Tables
<1>2. {i \in DOMAIN s : s[i].rulesHash = h} = IndexesOf(s, rows)
    BY <1>1, EnumerationIsWhole DEF IndexesOf
<1>3. \/ rows = {} /\ x = Null
      \/ x \in rows /\ \A q \in rows : \E i, j \in DOMAIN s : i <= j /\ s[i] = q /\ s[j] = x
  <2>1. rows \in SUBSET d.resolutions
    OBVIOUS
  <2> HIDE DEF rows
  <2> QED
    BY <1>1, <2>1, LastIsLatest
<1>4. ASSUME NEW i \in DOMAIN s, NEW j \in DOMAIN s, i <= j PROVE ~D!LaterRound(s[i], s[j])
  <2>1. s[i].createdAt \in Nat /\ s[j].createdAt \in Nat /\ s[i].createdAt <= s[j].createdAt
    BY <1>1, <1>4, DatedInOrder DEF ResolutionsSound
  <2>2. s[i].round \in Nat /\ s[j].round \in Nat
    BY <1>1, EnumerationIsWhole DEF ResolutionsSound
  <2>3. i = j \/ i < j
    BY <1>1, <1>4, EnumerationIsWhole
  <2>4. s[i].round <= s[j].round
    BY <1>1, <2>2, <2>3 DEF ResolutionsSound
  <2> HIDE DEF s
  <2> QED
    BY <2>1, <2>2, <2>4 DEF D!LaterRound
<1>5. x \in IF rows = {} THEN {Null} ELSE {r \in rows : \A q \in rows : ~D!LaterRound(q, r)}
  <2> HIDE DEF x, rows, s
  <2> QED
    BY <1>3, <1>4
<1> QED
    BY <1>2, <1>5 DEF M!ResolutionsFindLatest, M!LastOf, M!Finds, M!Where, M!Gives, LastAt,
                      D!ResolutionsFindLatest, D!ResolutionsOf, D!MayGive, D!FirstBy

\* resolutions.findProposedByRound(): the latest proposal of a round.
LEMMA LatestProposalAgrees ==
    ASSUME NEW d, NEW m, NEW at, Sound(d, m, at), NEW h, NEW round
    PROVE  M!ResolutionsFindProposedByRound(m, h, round).answer \in D!ResolutionsFindProposedByRound(d, h, round).answers
PROOF
<1> DEFINE s == m.resolutions
           rows == {r \in d.resolutions : r.rulesHash = h /\ r.round = round /\ r.status = "PROPOSED"}
           x == LastAt(s, IndexesOf(s, rows))
<1>1. Enumerates(s, d.resolutions) /\ Dated(s, at)
    BY DEF Sound, TableSound, Tables, ResolutionsSound
<1>2. {i \in DOMAIN s : s[i].rulesHash = h /\ s[i].round = round /\ s[i].status = "PROPOSED"} = IndexesOf(s, rows)
    BY <1>1, EnumerationIsWhole DEF IndexesOf
<1>3. \/ rows = {} /\ x = Null
      \/ x \in rows /\ \A q \in rows : \E i, j \in DOMAIN s : i <= j /\ s[i] = q /\ s[j] = x
  <2>1. rows \in SUBSET d.resolutions
    OBVIOUS
  <2> HIDE DEF rows
  <2> QED
    BY <1>1, <2>1, LastIsLatest
<1>4. ASSUME NEW i \in DOMAIN s, NEW j \in DOMAIN s, i <= j PROVE ~D!Newest(s[i], s[j])
    BY <1>1, <1>4, DatedInOrder DEF D!Newest
<1>5. x \in IF rows = {} THEN {Null} ELSE {r \in rows : \A q \in rows : ~D!Newest(q, r)}
  <2> HIDE DEF x, rows, s
  <2> QED
    BY <1>3, <1>4
<1>6. rows = {r \in D!ResolutionsOf(d, h) : r.round = round /\ r.status = "PROPOSED"}
    BY DEF D!ResolutionsOf
<1> QED
    BY <1>2, <1>5, <1>6 DEF M!ResolutionsFindProposedByRound, M!LastOf, M!Finds, M!Where, M!Gives, LastAt,
                      D!ResolutionsFindProposedByRound, D!MayGive, D!FirstBy

\* evidence.findByRulesHash(): the latest evidence of a market.
LEMMA LatestEvidenceAgrees ==
    ASSUME NEW d, NEW m, NEW at, Sound(d, m, at), NEW h
    PROVE  M!EvidenceFindByRulesHash(m, h).answer \in D!EvidenceFindByRulesHash(d, h).answers
PROOF
<1> DEFINE s == m.evidence
           rows == {r \in d.evidence : r.rulesHash = h}
           x == LastAt(s, IndexesOf(s, rows))
<1>1. Enumerates(s, d.evidence) /\ Dated(s, at)
    BY DEF Sound, TableSound, Tables
<1>2. {i \in DOMAIN s : s[i].rulesHash = h} = IndexesOf(s, rows)
    BY <1>1, EnumerationIsWhole DEF IndexesOf
<1>3. \/ rows = {} /\ x = Null
      \/ x \in rows /\ \A q \in rows : \E i, j \in DOMAIN s : i <= j /\ s[i] = q /\ s[j] = x
  <2>1. rows \in SUBSET d.evidence
    OBVIOUS
  <2> HIDE DEF rows
  <2> QED
    BY <1>1, <2>1, LastIsLatest
<1>4. ASSUME NEW i \in DOMAIN s, NEW j \in DOMAIN s, i <= j PROVE ~D!Newest(s[i], s[j])
    BY <1>1, <1>4, DatedInOrder DEF D!Newest
<1>5. x \in IF rows = {} THEN {Null} ELSE {r \in rows : \A q \in rows : ~D!Newest(q, r)}
  <2> HIDE DEF x, rows, s
  <2> QED
    BY <1>3, <1>4
<1> QED
    BY <1>2, <1>5 DEF M!EvidenceFindByRulesHash, M!LastOf, M!Finds, M!Where, M!Gives, LastAt,
                      D!EvidenceFindByRulesHash, D!MayGive, D!FirstBy

\* All challenges are of one round.
LEMMA ChallengeAgrees ==
    ASSUME NEW d, NEW m, NEW at, Sound(d, m, at), NEW h
    PROVE  M!ChallengesFind(m, h).answer \in D!ChallengesFind(d, h).answers
PROOF
<1> DEFINE s == m.challenges
           rows == {r \in d.challenges : r.rulesHash = h}
           x == LastAt(s, IndexesOf(s, rows))
<1>1. Enumerates(s, d.challenges) /\ ChallengesSound(d.challenges, d.nextId)
    BY DEF Sound, TableSound, Tables
<1>2. {i \in DOMAIN s : s[i].rulesHash = h} = IndexesOf(s, rows)
    BY <1>1, EnumerationIsWhole DEF IndexesOf
<1>3. x \in D!TheRow(rows)
    BY <1>1, FoundIsTheRow
<1>4. \A q, r \in rows : ~D!HigherRound(q, r)
    BY <1>1 DEF ChallengesSound, D!HigherRound
<1>5. x \in IF rows = {} THEN {Null} ELSE {r \in rows : \A q \in rows : ~D!HigherRound(q, r)}
  <2> HIDE DEF x, rows, s
  <2> QED
    BY <1>3, <1>4 DEF D!TheRow
<1> QED
    BY <1>2, <1>5 DEF M!ChallengesFind, M!LastOf, M!Finds, M!Where, M!Gives, LastAt,
                      D!ChallengesFind, D!MayGive, D!FirstBy

-----------------------------------------------------------------------------
(* Listings. *)

\* PostgreSQL may list rows in any order that respects ORDER BY.
LEMMA ListedInOrder ==
    ASSUME NEW f, NEW rows, Enumerates(f, rows)
    PROVE  /\ f \in D!SetToSeqs(rows)
           /\ Len(f) \in Nat /\ DOMAIN f = 1 .. Len(f)
           /\ \A k \in DOMAIN f : f[k] \in rows
PROOF
    BY EnumerationIsWhole

WeakOrder(less, I) ==
    /\ less \in [I -> SUBSET I]
    /\ \A i \in I : i \notin less[i]
    /\ \A i, j, k \in I : i \in less[j] /\ j \in less[k] => i \in less[k]
    /\ \A i, j, k \in I : i \in less[k] => i \in less[j] \/ j \in less[k]

StableOrder(less, I) == [i \in I |-> {j \in I : j \in less[i] \/ (i \notin less[j] /\ j < i)}]

\* A stable sort puts the rows in a strict order.
LEMMA StableIsOrder ==
    ASSUME NEW n \in Nat, NEW less, WeakOrder(less, 1 .. n)
    PROVE  Orders(StableOrder(less, 1 .. n), 1 .. n)
PROOF
<1> DEFINE I == 1 .. n
           ahead == StableOrder(less, I)
<1>1. \A i, j \in I : i \in ahead[j] <=> i \in less[j] \/ (j \notin less[i] /\ i < j)
    BY DEF StableOrder
<1>2. ahead \in [I -> SUBSET I]
    BY DEF StableOrder
<1>3. \A i \in I : i \in Nat
    OBVIOUS
<1> HIDE DEF I, ahead
<1>4. /\ \A i \in I : i \notin less[i]
      /\ \A i, j, k \in I : i \in less[j] /\ j \in less[k] => i \in less[k]
      /\ \A i, j, k \in I : i \in less[k] => i \in less[j] \/ j \in less[k]
    BY DEF WeakOrder, I
<1>5. \A i \in I : i \notin ahead[i]
    BY <1>1, <1>3, <1>4
<1>6. \A i, j \in I : i = j \/ i \in ahead[j] \/ j \in ahead[i]
    BY <1>1, <1>3
<1>7. ASSUME NEW i \in I, NEW j \in I, NEW k \in I, i \in ahead[j], j \in ahead[k] PROVE i \in ahead[k]
  <2>1. i < j /\ j < k => i < k
    BY <1>3
  <2> QED
    BY <1>1, <1>4, <1>7, <2>1
<1> QED
    BY <1>2, <1>5, <1>6, <1>7 DEF Orders, I, ahead

\* The sorted sequence has the same rows, in the order that was asked for.
LEMMA StablySorted ==
    ASSUME NEW s, NEW S, Enumerates(s, S), NEW less, WeakOrder(less, DOMAIN s),
           NEW a, a = M!Arranged(s, StableOrder(less, DOMAIN s))
    PROVE  /\ Enumerates(a, S)
           /\ \A k, l \in DOMAIN a : k < l => \E i, j \in DOMAIN s : a[k] = s[i] /\ a[l] = s[j] /\ j \notin less[i]
PROOF
<1> DEFINE I == DOMAIN s
           ahead == StableOrder(less, I)
<1>1. Len(s) \in Nat /\ I = 1 .. Len(s)
    BY EnumerationIsWhole
<1>2. Orders(ahead, I)
    BY <1>1, StableIsOrder
<1>3. {s[i] : i \in I} = S
    BY DEF Enumerates
<1>4. \A i, j \in I : i \in ahead[j] => j \notin less[i]
  <2>1. \A i, j \in I : i \in ahead[j] <=> i \in less[j] \/ (j \notin less[i] /\ i < j)
    BY DEF StableOrder
  <2> HIDE DEF ahead
  <2> QED
    BY <2>1 DEF WeakOrder
<1> HIDE DEF ahead
<1>5. /\ Enumerates(a, S)
      /\ \A k \in DOMAIN a : Placed(ahead)[k] \in I /\ a[k] = s[Placed(ahead)[k]]
      /\ \A k, l \in DOMAIN a : k < l => Placed(ahead)[k] \in ahead[Placed(ahead)[l]]
    BY <1>2, <1>3, ArrangedByPlace DEF ahead
<1> QED
    BY <1>4, <1>5

\* sessions.listTurns(): by date, and memory in the order of insertion.
LEMMA ListTurnsAgrees ==
    ASSUME NEW d, NEW m, NEW at, Sound(d, m, at), NEW id
    PROVE  M!SessionsListTurns(m, id).answer \in D!SessionsListTurns(d, id).answers
PROOF
<1> DEFINE s == m.turns
           S == d.turns
           hits == {i \in DOMAIN s : s[i].sessionId = id}
           rows == {t \in S : t.sessionId = id}
           f == M!Arranged(s, NaturalOrder(hits))
<1>1. Enumerates(s, S) /\ Dated(s, at)
    BY DEF Sound, TableSound, Tables
<1>2. {s[i] : i \in hits} = rows /\ hits \in SUBSET DOMAIN s
    BY <1>1, EnumerationIsWhole DEF Enumerates
<1>3. M!SessionsListTurns(m, id).answer = f
    BY DEF M!SessionsListTurns, M!Filtered, M!Where, M!Gives, NaturalOrder
<1> HIDE DEF hits, f, s, S
<1>4. /\ Enumerates(f, rows)
      /\ \A k, l \in DOMAIN f : k < l => \E i, j \in hits : i < j /\ f[k] = s[i] /\ f[l] = s[j]
    BY <1>1, <1>2, FilterKeepsOrder DEF f
<1>5. \A k, l \in DOMAIN f : k < l => ~D!Oldest(f[l], f[k])
  <2>1. ASSUME NEW i \in hits, NEW j \in hits, i < j PROVE ~D!Oldest(s[j], s[i])
    <3>1. i \in DOMAIN s /\ j \in DOMAIN s /\ i <= j
      BY <1>1, <1>2, <2>1, EnumerationIsWhole
    <3> QED
      BY <1>1, <3>1, DatedInOrder DEF D!Oldest
  <2> QED
    BY <1>4, <2>1
<1>6. f \in D!OrderedBy(rows, D!Oldest)
    BY <1>4, <1>5, ListedInOrder DEF D!OrderedBy
<1> QED
    BY <1>3, <1>6 DEF D!SessionsListTurns, D!MayGive, S

\* A reversed sequence has the same rows.
LEMMA Reversed ==
    ASSUME NEW u, NEW U, Enumerates(u, U), NEW v, v = M!Reverse(u)
    PROVE  /\ Enumerates(v, U) /\ Len(v) = Len(u)
           /\ \A k, l \in DOMAIN v : k < l => \E i, j \in DOMAIN u : i < j /\ v[k] = u[j] /\ v[l] = u[i]
PROOF
<1> DEFINE n == Len(u)
<1>1. n \in Nat /\ DOMAIN u = 1 .. n /\ u \in [1 .. n -> U]
    BY EnumerationIsWhole
<1>2. v = [i \in 1 .. n |-> u[(n - i) + 1]]
    BY DEF M!Reverse
<1> HIDE DEF n
<1>3. \A i \in 1 .. n : (n - i) + 1 \in 1 .. n /\ (n - ((n - i) + 1)) + 1 = i
    BY <1>1
<1>4. v \in [1 .. n -> U]
    BY <1>1, <1>2, <1>3
<1>5. v \in Seq(U) /\ Len(v) = n /\ DOMAIN v = 1 .. n
    BY <1>1, <1>4, FunctionIsSeq
<1>6. \A i \in 1 .. n : v[i] = u[(n - i) + 1]
    BY <1>2
<1>7. \A x \in U : \E i \in DOMAIN v : v[i] = x
  <2> SUFFICES ASSUME NEW x \in U PROVE \E i \in DOMAIN v : v[i] = x
    OBVIOUS
  <2>1. PICK i \in 1 .. n : u[i] = x
    BY <1>1 DEF Enumerates
  <2>2. v[(n - i) + 1] = x
    BY <1>3, <1>6, <2>1
  <2> QED
    BY <1>3, <1>5, <2>2
<1>8. \A i, j \in DOMAIN v : v[i] = v[j] => i = j
  <2> SUFFICES ASSUME NEW i \in 1 .. n, NEW j \in 1 .. n, v[i] = v[j] PROVE i = j
    BY <1>5
  <2>1. (n - i) + 1 = (n - j) + 1
    BY <1>1, <1>3, <1>6 DEF Enumerates
  <2> QED
    BY <1>3, <2>1
<1>9. ASSUME NEW k \in 1 .. n, NEW l \in 1 .. n, k < l
      PROVE  \E i, j \in DOMAIN u : i < j /\ v[k] = u[j] /\ v[l] = u[i]
  <2>1. (n - l) + 1 < (n - k) + 1
    BY <1>1, <1>9
  <2> QED
    BY <1>1, <1>3, <1>6, <2>1
<1> QED
    BY <1>5, <1>7, <1>8, <1>9 DEF Enumerates, n

\* Of rows no more than the limit, the first fifty are all.
LEMMA NoMoreIndexes ==
    ASSUME NEW u, NEW U, Enumerates(u, U), NEW few \in SUBSET DOMAIN u
    PROVE  Cardinality(few) <= Len(u)
PROOF
<1> DEFINE n == Len(u)
<1>1. n \in Nat /\ DOMAIN u = 1 .. n
    BY EnumerationIsWhole
<1> HIDE DEF n
<1>2. IsFiniteSet(1 .. n) /\ Cardinality(1 .. n) = n
    BY <1>1, FS_Interval
<1>3. Cardinality(few) <= Cardinality(1 .. n)
    BY <1>1, <1>2, FS_Subset
<1> QED
    BY <1>2, <1>3 DEF n

\* No more than the fifty that are listed.
LEMMA ListResolutionsAgrees ==
    ASSUME NEW d, NEW m, NEW at, Sound(d, m, at), NEW h, Len(ResolutionsIn(m)) <= 50
    PROVE  M!ResolutionsList(m, h).answer \in D!ResolutionsList(d, h).answers
PROOF
<1> DEFINE s == m.resolutions
           S == d.resolutions
           hits == {i \in DOMAIN s : s[i].rulesHash = h}
           rows == {t \in S : t.rulesHash = h}
           f == M!Arranged(s, NaturalOrder(hits))
           r == M!Reverse(f)
<1>1. Enumerates(s, S) /\ Dated(s, at)
    BY DEF Sound, TableSound, Tables, ResolutionsSound
<1>2. {s[i] : i \in hits} = rows /\ hits \in SUBSET DOMAIN s
    BY <1>1, EnumerationIsWhole DEF Enumerates
<1>3. M!ResolutionsList(m, h).answer = r
    BY DEF M!ResolutionsList, M!ResolutionsOf, M!Filtered, M!Where, M!Gives, NaturalOrder
<1>4. Len(s) <= 50
    BY DEF ResolutionsIn
<1> HIDE DEF hits, f, r, s, S
<1>5. /\ Enumerates(f, rows) /\ Len(f) = Cardinality(hits)
      /\ \A k, l \in DOMAIN f : k < l => \E i, j \in hits : i < j /\ f[k] = s[i] /\ f[l] = s[j]
    BY <1>1, <1>2, FilterKeepsOrder DEF f
<1>6. \A k, l \in DOMAIN f : k < l => ~D!Newest(f[k], f[l])
  <2>1. ASSUME NEW i \in hits, NEW j \in hits, i < j PROVE ~D!Newest(s[i], s[j])
    <3>1. i \in DOMAIN s /\ j \in DOMAIN s /\ i <= j
      BY <1>1, <1>2, <2>1, EnumerationIsWhole
    <3> QED
      BY <1>1, <3>1, DatedInOrder DEF D!Newest
  <2> QED
    BY <1>5, <2>1
<1>7. /\ Enumerates(r, rows) /\ Len(r) = Len(f)
      /\ \A k, l \in DOMAIN r : k < l => \E i, j \in DOMAIN f : i < j /\ r[k] = f[j] /\ r[l] = f[i]
  <2>1. r = M!Reverse(f) /\ Enumerates(f, rows)
    BY <1>5 DEF r
  <2> HIDE DEF rows
  <2> QED
    BY <2>1, Reversed
<1>8. \A k, l \in DOMAIN r : k < l => ~D!Newest(r[l], r[k])
    BY <1>6, <1>7
<1>9. r \in D!OrderedBy(rows, D!Newest)
    BY <1>7, <1>8, ListedInOrder DEF D!OrderedBy
<1>10. Len(r) \in Nat /\ Len(r) <= 50
  <2>1. Len(s) \in Nat /\ DOMAIN s = 1 .. Len(s)
    BY <1>1, EnumerationIsWhole
  <2>3. Cardinality(hits) <= Len(s)
    BY <1>1, <1>2, NoMoreIndexes
  <2>4. Len(r) \in Nat
    BY <1>7, ListedInOrder
  <2> QED
    BY <1>4, <1>5, <1>7, <2>1, <2>3, <2>4
<1>11. SubSeq(r, 1, IF Len(r) > 50 THEN 50 ELSE Len(r)) = r
  <2>1. SubSeq(r, 1, Len(r)) = r
    <3>1. r \in Seq(rows) /\ DOMAIN r = 1 .. Len(r)
      BY <1>7, EnumerationIsWhole DEF Enumerates
    <3> QED
      BY <1>10, <3>1
  <2> QED
    BY <1>10, <2>1
<1>12. D!ResolutionsOf(d, h) = rows
    BY DEF D!ResolutionsOf, S
<1>13. r \in {SubSeq(q, 1, IF Len(q) > 50 THEN 50 ELSE Len(q)) : q \in D!OrderedBy(rows, D!Newest)}
    BY <1>9, <1>11
<1> QED
    BY <1>3, <1>12, <1>13 DEF D!ResolutionsList, D!MayGive

\* By block and log index is a strict order of the events.
LEMMA EventsInOrder ==
    ASSUME NEW d, NEW m, NEW at, Sound(d, m, at), NEW a, a = M!EventsSorted(m)
    PROVE  Enumerates(a, d.events) /\ \A k, l \in DOMAIN a : k < l => ~D!Earlier(a[l], a[k])
PROOF
<1> DEFINE s == m.events
           S == d.events
           I == DOMAIN s
           less == [i \in I |-> {j \in I : D!Earlier(s[j], s[i])}]
<1>1. Enumerates(s, S) /\ EventsSound(S)
    BY DEF Sound, TableSound, Tables
<1>2. a = M!Arranged(s, StableOrder(less, I))
  <2>1. \A i \in I : {j \in I : j \in less[i] \/ (i \notin less[j] /\ j < i)}
                     = {j \in I : D!Earlier(s[j], s[i]) \/ (~D!Earlier(s[i], s[j]) /\ j < i)}
    OBVIOUS
  <2>2. StableOrder(less, I) = [i \in I |-> {j \in I : D!Earlier(s[j], s[i]) \/ (~D!Earlier(s[i], s[j]) /\ j < i)}]
    BY <2>1 DEF StableOrder
  <2> QED
    BY <2>2 DEF M!EventsSorted, M!Sorted, D!Earlier
<1> HIDE DEF s, S
<1>3. \A i \in I : s[i].blockNumber \in Nat /\ s[i].logIndex \in Nat
    BY <1>1, EnumerationIsWhole DEF EventsSound
<1>4. WeakOrder(less, I)
  <2>1. \A i \in I : ~D!Earlier(s[i], s[i])
    BY <1>3 DEF D!Earlier
  <2>2. \A i, j, k \in I : D!Earlier(s[i], s[j]) /\ D!Earlier(s[j], s[k]) => D!Earlier(s[i], s[k])
    BY <1>3 DEF D!Earlier
  <2>3. \A i, j, k \in I : D!Earlier(s[i], s[k]) => D!Earlier(s[i], s[j]) \/ D!Earlier(s[j], s[k])
    BY <1>3 DEF D!Earlier
  <2> QED
    BY <2>1, <2>2, <2>3 DEF WeakOrder
<1>5. \A i, j \in I : j \notin less[i] => ~D!Earlier(s[j], s[i])
    OBVIOUS
<1> HIDE DEF less
<1>6. /\ Enumerates(a, S)
      /\ \A k, l \in DOMAIN a : k < l => \E i, j \in I : a[k] = s[i] /\ a[l] = s[j] /\ j \notin less[i]
    BY <1>1, <1>2, <1>4, StablySorted
<1>7. \A k, l \in DOMAIN a : k < l => ~D!Earlier(a[l], a[k])
    BY <1>5, <1>6
<1> QED
    BY <1>6, <1>7 DEF S

\* events.listByMarket() and listByRulesHash(): the events of a market, in order.
LEMMA ListEventsAgrees ==
    ASSUME NEW d, NEW m, NEW at, Sound(d, m, at), NEW key
    PROVE  /\ M!EventsListByMarket(m, key).answer \in D!EventsListByMarket(d, key).answers
           /\ M!EventsListByRulesHash(m, key).answer \in D!EventsListByRulesHash(d, key).answers
PROOF
<1> DEFINE a == M!EventsSorted(m)
           S == d.events
<1>1. Enumerates(a, S) /\ \A k, l \in DOMAIN a : k < l => ~D!Earlier(a[l], a[k])
    BY EventsInOrder
<1>2. ASSUME NEW rows \in SUBSET S, NEW hits, hits = IndexesOf(a, rows)
      PROVE  M!Arranged(a, NaturalOrder(hits)) \in D!OrderedBy(rows, D!Earlier)
  <2> DEFINE f == M!Arranged(a, NaturalOrder(hits))
  <2> HIDE DEF a, S
  <2>1. {a[i] : i \in hits} = rows /\ hits \in SUBSET DOMAIN a
    BY <1>1, <1>2 DEF Enumerates, IndexesOf
  <2>2. /\ Enumerates(f, rows)
        /\ \A k, l \in DOMAIN f : k < l => \E i, j \in hits : i < j /\ f[k] = a[i] /\ f[l] = a[j]
    BY <1>1, <2>1, FilterKeepsOrder
  <2> HIDE DEF f
  <2>3. \A k, l \in DOMAIN f : k < l => ~D!Earlier(f[l], f[k])
    BY <1>1, <2>1, <2>2
  <2> QED
    BY <2>2, <2>3, ListedInOrder DEF D!OrderedBy, f
<1>3. M!EventsListByMarket(m, key).answer \in D!EventsListByMarket(d, key).answers
  <2> DEFINE rows == {e \in d.events : e.chainMarketId = key}
             hits == {i \in DOMAIN a : a[i].chainMarketId = key}
  <2>1. hits = IndexesOf(a, rows)
    BY <1>1, EnumerationIsWhole DEF IndexesOf
  <2>2. M!EventsListByMarket(m, key).answer = M!Arranged(a, NaturalOrder(hits))
    BY DEF M!EventsListByMarket, M!Filtered, M!Where, M!Gives, NaturalOrder
  <2> HIDE DEF a, hits
  <2> QED
    BY <1>2, <2>1, <2>2 DEF D!EventsListByMarket, D!MayGive
<1>4. M!EventsListByRulesHash(m, key).answer \in D!EventsListByRulesHash(d, key).answers
  <2> DEFINE rows == {e \in d.events : e.rulesHash = key}
             hits == {i \in DOMAIN a : a[i].rulesHash = key}
  <2>1. hits = IndexesOf(a, rows)
    BY <1>1, EnumerationIsWhole DEF IndexesOf
  <2>2. M!EventsListByRulesHash(m, key).answer = M!Arranged(a, NaturalOrder(hits))
    BY DEF M!EventsListByRulesHash, M!Filtered, M!Where, M!Gives, NaturalOrder
  <2> HIDE DEF a, hits
  <2> QED
    BY <1>2, <2>1, <2>2 DEF D!EventsListByRulesHash, D!MayGive
<1> QED
    BY <1>3, <1>4

\* checkpoints.recentBlocks(): the blocks from a height on, the highest first.
LEMMA RecentBlocksAgree ==
    ASSUME NEW d, NEW m, NEW at, Sound(d, m, at), NEW from
    PROVE  M!BlocksRecent(m, from).answer \in D!BlocksRecent(d, from).answers
PROOF
<1> DEFINE s == m.blocks
           S == d.blocks
           rows == {b \in S : b.blockNumber >= from}
           hits == {i \in DOMAIN s : s[i].blockNumber >= from}
           f == M!Arranged(s, NaturalOrder(hits))
           I == DOMAIN f
           less == [i \in I |-> {j \in I : D!Higher(f[j], f[i])}]
           a == M!Arranged(f, StableOrder(less, I))
<1>1. Enumerates(s, S) /\ \A b \in S : b.blockNumber \in Nat
  <2>1. TableSound("blocks", s, S, d.nextId, at)
    BY DEF Sound, Tables
  <2> HIDE DEF s, S
  <2> QED
    BY <2>1 DEF TableSound, BlocksSound
<1>2. M!BlocksRecent(m, from).answer = a
  <2>1. \A i \in I : {j \in I : j \in less[i] \/ (i \notin less[j] /\ j < i)}
                     = {j \in I : D!Higher(f[j], f[i]) \/ (~D!Higher(f[i], f[j]) /\ j < i)}
    OBVIOUS
  <2>2. StableOrder(less, I) = [i \in I |-> {j \in I : D!Higher(f[j], f[i]) \/ (~D!Higher(f[i], f[j]) /\ j < i)}]
    BY <2>1 DEF StableOrder
  <2> QED
    BY <2>2 DEF M!BlocksRecent, M!Gives, M!Sorted, M!Filtered, M!Where, NaturalOrder, D!Higher
<1>3. {s[i] : i \in hits} = rows /\ hits \in SUBSET DOMAIN s
    BY <1>1, EnumerationIsWhole DEF Enumerates
<1>4. D!BlocksRecent(d, from).answers = D!OrderedBy(rows, D!Higher)
    BY DEF D!BlocksRecent, D!MayGive
<1>5. \A b \in rows : b.blockNumber \in Nat
    BY <1>1
<1> HIDE DEF hits, s, S
<1>6. Enumerates(f, rows)
  <2> HIDE DEF f
  <2> QED
    BY <1>1, <1>3, FilterKeepsOrder DEF f
<1> HIDE DEF f, rows
<1>7. \A i \in I : f[i].blockNumber \in Nat
    BY <1>5, <1>6, EnumerationIsWhole
<1>8. WeakOrder(less, I)
  <2>1. \A i \in I : ~D!Higher(f[i], f[i])
    BY <1>7 DEF D!Higher
  <2>2. \A i, j, k \in I : D!Higher(f[i], f[j]) /\ D!Higher(f[j], f[k]) => D!Higher(f[i], f[k])
    BY <1>7 DEF D!Higher
  <2>3. \A i, j, k \in I : D!Higher(f[i], f[k]) => D!Higher(f[i], f[j]) \/ D!Higher(f[j], f[k])
    BY <1>7 DEF D!Higher
  <2> QED
    BY <2>1, <2>2, <2>3 DEF WeakOrder
<1>9. \A i, j \in I : j \notin less[i] => ~D!Higher(f[j], f[i])
    OBVIOUS
<1> HIDE DEF less, a
<1>10. /\ Enumerates(a, rows)
       /\ \A k, l \in DOMAIN a : k < l => \E i, j \in I : a[k] = f[i] /\ a[l] = f[j] /\ j \notin less[i]
    BY <1>6, <1>8, StablySorted DEF a
<1>11. \A k, l \in DOMAIN a : k < l => ~D!Higher(a[l], a[k])
    BY <1>9, <1>10
<1> QED
    BY <1>2, <1>4, <1>10, <1>11, ListedInOrder DEF D!OrderedBy

\* chainState.list(): in any order.
LEMMA ListChainStateAgrees ==
    ASSUME NEW d, NEW m, NEW at, Sound(d, m, at)
    PROVE  M!ChainStateList(m).answer \in D!ChainStateList(d).answers
PROOF
<1> DEFINE s == m.chainState
           S == d.chainState
<1>1. Enumerates(s, S)
    BY DEF Sound, TableSound, Tables
<1> HIDE DEF s, S
<1>2. s \in D!SetToSeqs(S)
    BY <1>1, EnumerationIsWhole
<1> QED
    BY <1>2 DEF s, S, M!ChainStateList, M!Gives, D!ChainStateList, D!MayGive, D!InAnyOrder

\* events.countByChain(): both count the same rows.
LEMMA CountEventsAgrees ==
    ASSUME NEW d, NEW m, NEW at, Sound(d, m, at)
    PROVE  M!EventsCount(m).answer \in D!EventsCount(d).answers
PROOF
<1> DEFINE s == m.events
           S == d.events
<1>1. Enumerates(s, S)
    BY DEF Sound, TableSound, Tables
<1> HIDE DEF s, S
<1>2. Len(s) = Cardinality(S)
    BY <1>1, EnumerationIsWhole
<1>3. M!EventsCount(m).answer = Len(s) /\ D!EventsCount(d).answers = {Cardinality(S)}
    BY OneCardinality DEF s, S, M!EventsCount, M!Gives, D!EventsCount, D!Gives
<1> QED
    BY <1>2, <1>3

\* events.findDuplicateIdentities(): no two events have one identity, in either.
LEMMA FindDuplicatesAgrees ==
    ASSUME NEW d, NEW m, NEW at, Sound(d, m, at)
    PROVE  M!EventsFindDuplicates(m).answer \in D!EventsFindDuplicates(d).answers
PROOF
<1> DEFINE again == {e \in d.events : \E f \in d.events : e # f /\ D!Identity(e) = D!Identity(f)}
<1>1. EventsSound(d.events)
    BY DEF Sound, TableSound, Tables
<1>2. again = {}
    BY <1>1 DEF EventsSound
<1> HIDE DEF again
<1>3. {D!Identity(e) : e \in again} = {}
    BY <1>2
<1>4. <<>> \in D!SetToSeqs({})
    BY NothingToEnumerate, EnumerationIsWhole
<1>5. D!EventsFindDuplicates(d).answers = D!SetToSeqs({D!Identity(e) : e \in again})
    BY DEF again, D!EventsFindDuplicates, D!MayGive, D!InAnyOrder
<1>6. M!EventsFindDuplicates(m).answer = <<>>
    BY DEF M!EventsFindDuplicates, M!Gives
<1> QED
    BY <1>3, <1>4, <1>5, <1>6

\* An address belongs to one market.
LEMMA ListAddressesAgrees ==
    ASSUME NEW d, NEW m, NEW at, Sound(d, m, at)
    PROVE  M!MarketsListOnChainAddresses(m).answer \in D!MarketsListOnChainAddresses(d).answers
PROOF
<1> DEFINE s == m.markets
           S == d.markets
           rows == {r \in S : r.contractAddress # Null}
           hits == {i \in DOMAIN s : s[i].contractAddress # Null}
           f == M!Arranged(s, NaturalOrder(hits))
           a == [i \in DOMAIN f |-> f[i].contractAddress]
           A == {r.contractAddress : r \in S} \ {Null}
<1>1. Enumerates(s, S) /\ MarketsSound(S, at)
    BY DEF Sound, TableSound, Tables
<1>2. M!MarketsListOnChainAddresses(m).answer = a
    BY DEF M!MarketsListOnChainAddresses, M!Gives, M!Filtered, M!Where, NaturalOrder
<1>3. {s[i] : i \in hits} = rows /\ hits \in SUBSET DOMAIN s
    BY <1>1, EnumerationIsWhole DEF Enumerates
<1>4. D!MarketsListOnChainAddresses(d).answers = D!SetToSeqs(A)
    BY DEF D!MarketsListOnChainAddresses, D!MayGive, D!InAnyOrder
<1>5. \A r, q \in rows : r.contractAddress = q.contractAddress => r = q
  <2> SUFFICES ASSUME NEW r \in rows, NEW q \in rows, r.contractAddress = q.contractAddress PROVE r = q
    OBVIOUS
  <2>1. /\ r.rulesHash \in Hashes /\ q.rulesHash \in Hashes
        /\ \E b \in AddressOf[r.rulesHash] : r.contractAddress = Lower[b]
        /\ \E b \in AddressOf[q.rulesHash] : q.contractAddress = Lower[b]
    BY <1>1 DEF MarketsSound
  <2>2. r.rulesHash = q.rulesHash
    <3>1. \A h, g \in Hashes : \A b \in AddressOf[h], c \in AddressOf[g] : Lower[b] = Lower[c] => h = g
      BY StoresAssumption DEF StoresAssumption
    <3> DEFINE h == r.rulesHash
               g == q.rulesHash
    <3>2. PICK b \in AddressOf[h] : r.contractAddress = Lower[b]
      BY <2>1
    <3>3. PICK c \in AddressOf[g] : q.contractAddress = Lower[c]
      BY <2>1
    <3>4. Lower[b] = Lower[c] /\ h \in Hashes /\ g \in Hashes
      BY <2>1, <3>2, <3>3
    <3> HIDE DEF h, g
    <3>5. h = g
      BY <3>1, <3>2, <3>3, <3>4
    <3> QED
      BY <3>5 DEF h, g
  <2> QED
    BY <1>1, <2>2 DEF MarketsSound
<1>6. A = {r.contractAddress : r \in rows}
    OBVIOUS
<1> HIDE DEF hits, s, S
<1>7. Enumerates(f, rows)
  <2> HIDE DEF f
  <2> QED
    BY <1>1, <1>3, FilterKeepsOrder DEF f
<1> HIDE DEF f, rows, A
<1>8. Len(f) \in Nat /\ DOMAIN f = 1 .. Len(f) /\ \A i \in DOMAIN f : f[i] \in rows
    BY <1>7, EnumerationIsWhole
<1>9. a \in [1 .. Len(f) -> A]
    BY <1>6, <1>8
<1>10. \A i, j \in DOMAIN a : a[i] = a[j] => i = j
    BY <1>5, <1>7, <1>8 DEF Enumerates
<1>11. \A x \in A : \E i \in DOMAIN a : a[i] = x
    BY <1>6, <1>7 DEF Enumerates
<1> HIDE DEF a
<1>12. a \in Seq(A)
    BY <1>8, <1>9, FunctionIsSeq
<1>13. Enumerates(a, A)
    BY <1>10, <1>11, <1>12 DEF Enumerates
<1>14. a \in D!SetToSeqs(A)
  <2> HIDE DEF A
  <2> QED
    BY <1>13, EnumerationIsWhole
<1> QED
    BY <1>2, <1>4, <1>14

Newer(s) == [i \in DOMAIN s |-> {j \in DOMAIN s : s[j].createdAt > s[i].createdAt}]
InListing(m) == M!Arranged(m.markets, StableOrder(Newer(m.markets), DOMAIN m.markets))
OfStatus(S, status) == {r \in S : status = Null \/ r.status = status}
\* The listing that memory's cursors are offsets into.
Listing(m, status) ==
    M!Arranged(InListing(m),
               NaturalOrder({i \in DOMAIN InListing(m) : status = Null \/ InListing(m)[i].status = status}))
OffsetPage(all, offset) ==
    LET page == SubSeq(all, offset + 1, IF offset + PageSize > Len(all) THEN Len(all) ELSE offset + PageSize)
    IN  [markets |-> page, nextCursor |-> IF offset + Len(page) < Len(all) THEN offset + Len(page) ELSE Null]
KeysetPage(s) ==
    LET shown == SubSeq(s, 1, IF Len(s) > PageSize THEN PageSize ELSE Len(s))
    IN  [markets |-> shown, nextCursor |-> IF Len(s) > PageSize THEN D!Last(shown).createdAt ELSE Null]

\* A page of memory is cut from the listing at an offset,
LEMMA OffsetPages ==
    ASSUME NEW m, NEW status, NEW cursor
    PROVE  M!MarketsList(m, status, cursor, PageSize).answer
             = OffsetPage(Listing(m, status), IF cursor = Null THEN 0 ELSE cursor)
PROOF
<1> DEFINE s == m.markets
           I == DOMAIN s
           less == Newer(s)
<1>1. \A i \in I : {j \in I : j \in less[i] \/ (i \notin less[j] /\ j < i)}
                   = {j \in I : s[j].createdAt > s[i].createdAt \/ (~(s[i].createdAt > s[j].createdAt) /\ j < i)}
    BY DEF Newer
<1>2. StableOrder(less, I)
        = [i \in I |-> {j \in I : s[j].createdAt > s[i].createdAt \/ (~(s[i].createdAt > s[j].createdAt) /\ j < i)}]
    BY <1>1 DEF StableOrder
<1>3. InListing(m) = M!Sorted(m.markets, LAMBDA a, b : a.createdAt > b.createdAt)
    BY <1>2 DEF InListing, M!Sorted
<1> QED
    BY <1>3 DEF M!MarketsList, M!Gives, M!Filtered, M!Where, NaturalOrder, Listing, OffsetPage

\* and one of PostgreSQL from the rows older than the cursor.
LEMMA KeysetPages ==
    ASSUME NEW d, NEW status, NEW cursor
    PROVE  D!MarketsList(d, status, cursor, PageSize).answers
             = {KeysetPage(s) : s \in D!OrderedBy({r \in d.markets : (status = Null \/ r.status = status)
                                                                     /\ (cursor = Null \/ r.createdAt < cursor)}, D!Newest)}
PROOF
    BY DEF D!MarketsList, D!MayGive, KeysetPage

\* The listing of memory has the markets of a status, the newest first.
LEMMA ListingIsNewestFirst ==
    ASSUME NEW d, NEW m, NEW at, Sound(d, m, at), NEW status, NEW all, all = Listing(m, status)
    PROVE  Enumerates(all, OfStatus(d.markets, status)) /\ NewestFirst(all)
PROOF
<1> DEFINE s == m.markets
           S == d.markets
           less == Newer(s)
           a == InListing(m)
           hits == {i \in DOMAIN a : status = Null \/ a[i].status = status}
           rows == OfStatus(S, status)
<1>1. Enumerates(s, S) /\ MarketsSound(S, at)
    BY DEF Sound, TableSound, Tables
<1>2. \A r \in S : r.createdAt \in Nat
    BY <1>1 DEF MarketsSound
<1>3. a = M!Arranged(s, StableOrder(less, DOMAIN s)) /\ all = M!Arranged(a, NaturalOrder(hits))
    BY DEF InListing, Listing
<1> HIDE DEF s, S, a
<1>4. \A i \in DOMAIN s : s[i].createdAt \in Nat
    BY <1>1, <1>2, EnumerationIsWhole
<1>5. WeakOrder(less, DOMAIN s)
    BY <1>4 DEF WeakOrder, Newer
<1>6. \A i, j \in DOMAIN s : j \notin less[i] => s[j].createdAt <= s[i].createdAt
    BY <1>4 DEF Newer
<1> HIDE DEF less
<1>7. /\ Enumerates(a, S)
      /\ \A k, l \in DOMAIN a : k < l => \E i, j \in DOMAIN s : a[k] = s[i] /\ a[l] = s[j] /\ j \notin less[i]
    BY <1>1, <1>3, <1>5, StablySorted
<1>8. \A k, l \in DOMAIN a : k < l => a[l].createdAt <= a[k].createdAt
    BY <1>6, <1>7
<1>9. {a[i] : i \in hits} = rows /\ hits \in SUBSET DOMAIN a
  <2>1. \A i \in DOMAIN a : a[i] \in S
    BY <1>7, EnumerationIsWhole
  <2> QED
    BY <1>7, <2>1 DEF Enumerates, OfStatus
<1> HIDE DEF hits, rows
<1>10. /\ Enumerates(all, rows)
       /\ \A k, l \in DOMAIN all : k < l => \E i, j \in hits : i < j /\ all[k] = a[i] /\ all[l] = a[j]
  <2> DEFINE R == {a[i] : i \in hits}
  <2>1. Enumerates(a, S) /\ hits \in SUBSET DOMAIN a /\ all = M!Arranged(a, NaturalOrder(hits))
    BY <1>3, <1>7, <1>9
  <2>2. /\ Enumerates(all, R)
        /\ \A k, l \in DOMAIN all : k < l => \E i, j \in hits : i < j /\ all[k] = a[i] /\ all[l] = a[j]
    BY <2>1, FilterKeepsOrder
  <2>3. R = rows
    BY <1>9
  <2> QED
    BY <2>2, <2>3
<1>11. NewestFirst(all)
    BY <1>8, <1>9, <1>10 DEF NewestFirst
<1> QED
    BY <1>10, <1>11 DEF rows, S

\* What is left of a listing.
Rest(all, offset) == SubSeq(all, offset + 1, Len(all))

\* The same page is shown when the offset stands where the cursor stands.
LEMMA RestOfListing ==
    ASSUME NEW all, NEW S, Enumerates(all, S), NEW offset \in 0 .. Len(all), NEW rest, rest = Rest(all, offset),
           \A r \in S : r.createdAt \in Nat
    PROVE  /\ rest \in Seq(S) /\ Len(rest) = Len(all) - offset /\ DOMAIN rest = 1 .. (Len(all) - offset)
           /\ \A i \in 1 .. (Len(all) - offset) : offset + i \in DOMAIN all /\ rest[i] = all[offset + i]
           /\ Shown(OffsetPage(all, offset)) = Shown(KeysetPage(rest))
PROOF
<1>1. Len(all) \in Nat /\ DOMAIN all = 1 .. Len(all) /\ all \in Seq(S) /\ offset \in Nat /\ offset <= Len(all)
    BY EnumerationIsWhole DEF Enumerates
<1> DEFINE L == Len(all)
           n == L - offset
<1>0. L \in Nat /\ offset <= L /\ n \in Nat
  <2>1. L \in Nat /\ offset <= L
    BY <1>1
  <2> HIDE DEF L
  <2> QED
    BY <1>1, <2>1
<1> HIDE DEF L
<1>2. n \in Nat /\ rest \in Seq(S) /\ Len(rest) = n /\ DOMAIN rest = 1 .. n /\ \A i \in 1 .. n : rest[i] = all[offset + i]
  <2>1. offset + 1 \in Int /\ L \in Int /\ \A i \in (offset + 1) .. L : all[i] \in S
    <3>1. \A i \in 1 .. L : all[i] \in S
      BY <1>1, EnumerationIsWhole DEF L
    <3> QED
      BY <1>0, <1>1, <3>1
  <2>2. /\ rest \in Seq(S)
        /\ Len(rest) = IF offset + 1 <= L THEN L - (offset + 1) + 1 ELSE 0
        /\ \A i \in 1 .. (L - (offset + 1) + 1) : rest[i] = all[(offset + 1) + i - 1]
    BY <2>1, SubSeqProperties DEF Rest, L
  <2>3. Len(rest) = n /\ n \in Nat
    BY <1>0, <1>1, <2>2
  <2>4. DOMAIN rest = 1 .. n
    BY <2>2, <2>3, LenProperties
  <2>5. ASSUME NEW i \in 1 .. n PROVE rest[i] = all[offset + i]
    <3>1. i \in 1 .. (L - (offset + 1) + 1) /\ (offset + 1) + i - 1 = offset + i
      BY <1>0, <1>1
    <3> QED
      BY <2>2, <3>1
  <2> QED
    BY <2>2, <2>3, <2>4, <2>5
<1>3. \A i \in 1 .. n : offset + i \in DOMAIN all
  <2>1. DOMAIN all = 1 .. L
    BY <1>1 DEF L
  <2> QED
    BY <1>0, <1>1, <2>1
<1>4. PageSize \in Nat /\ PageSize > 0
    BY StoresAssumption DEF StoresAssumption
<1> DEFINE k == IF n > PageSize THEN PageSize ELSE n
           l == IF offset + PageSize > L THEN L ELSE offset + PageSize
           page == SubSeq(all, offset + 1, l)
           shown == SubSeq(rest, 1, k)
<1>5. k \in Nat /\ k <= n /\ l \in Nat /\ l = offset + k /\ l <= L
  <2>1. CASE n > PageSize
    BY <1>0, <1>1, <1>4, <2>1
  <2>2. CASE n <= PageSize
    BY <1>0, <1>1, <1>4, <2>2
  <2> QED
    BY <1>0, <1>1, <1>4, <2>1, <2>2
<1> HIDE DEF k, l
<1>6. page \in Seq(S) /\ Len(page) = k /\ \A i \in 1 .. k : page[i] = all[offset + i]
  <2>1. /\ page \in Seq(S)
        /\ Len(page) = IF offset + 1 <= l THEN l - (offset + 1) + 1 ELSE 0
        /\ \A i \in 1 .. (l - (offset + 1) + 1) : page[i] = all[(offset + 1) + i - 1]
    <3>1. offset + 1 \in Int /\ l \in Int /\ \A i \in (offset + 1) .. l : all[i] \in S
      <4>1. \A i \in 1 .. L : all[i] \in S
        BY <1>1, EnumerationIsWhole DEF L
      <4> QED
        BY <1>0, <1>1, <1>5, <4>1
    <3> QED
      BY <3>1, SubSeqProperties
  <2> HIDE DEF page
  <2>2. (IF offset + 1 <= l THEN l - (offset + 1) + 1 ELSE 0) = k
    BY <1>0, <1>1, <1>5
  <2>3. ASSUME NEW i \in 1 .. k PROVE page[i] = all[offset + i]
    <3>1. i \in 1 .. (l - (offset + 1) + 1) /\ (offset + 1) + i - 1 = offset + i
      BY <1>0, <1>1, <1>5
    <3> QED
      BY <2>1, <3>1
  <2> QED
    BY <2>1, <2>2, <2>3
<1>7. shown \in Seq(S) /\ Len(shown) = k /\ \A i \in 1 .. k : shown[i] = rest[i]
  <2>1. /\ shown \in Seq(S)
        /\ Len(shown) = IF 1 <= k THEN k - 1 + 1 ELSE 0
        /\ \A i \in 1 .. (k - 1 + 1) : shown[i] = rest[1 + i - 1]
    <3>1. 1 \in Int /\ k \in Int /\ \A i \in 1 .. k : rest[i] \in S
      BY <1>2, <1>5
    <3> QED
      BY <3>1, SubSeqProperties
  <2> HIDE DEF shown
  <2> QED
    BY <1>5, <2>1
<1>8. page = shown
  <2> HIDE DEF page, shown
  <2>1. \A i \in 1 .. k : i \in 1 .. n
    BY <1>2, <1>5
  <2>2. \A i \in 1 .. Len(page) : page[i] = shown[i]
    BY <1>2, <1>6, <1>7, <2>1
  <2> QED
    BY <1>6, <1>7, <2>2, SeqEqual
<1>9. (offset + Len(page) < L) <=> n > PageSize
    BY <1>0, <1>1, <1>4, <1>6 DEF k
<1>10. OffsetPage(all, offset) = [markets |-> page,
                                 nextCursor |-> IF offset + Len(page) < L THEN offset + Len(page) ELSE Null]
    BY DEF OffsetPage, l, L
<1>11. KeysetPage(rest) = [markets |-> shown, nextCursor |-> IF n > PageSize THEN D!Last(shown).createdAt ELSE Null]
    BY <1>2 DEF KeysetPage, k
<1>12. ASSUME n > PageSize PROVE D!Last(shown).createdAt \in Nat
  <2>0. k = PageSize /\ k \in 1 .. n
    BY <1>0, <1>4, <1>12 DEF k
  <2>1. k = PageSize /\ k \in 1 .. n /\ D!Last(shown) = shown[k]
    BY <1>7, <2>0, Zenon DEF D!Last
  <2>2. shown[k] = rest[k] /\ rest[k] \in S
    BY <1>2, <1>4, <1>7, <2>1
  <2> HIDE DEF k, shown
  <2> QED
    BY <2>1, <2>2
<1>13. (IF offset + Len(page) < L THEN offset + Len(page) ELSE Null) # Null <=> n > PageSize
    BY <1>0, <1>1, <1>5, <1>6, <1>9, StoresAssumption DEF StoresAssumption
<1>14. (IF n > PageSize THEN D!Last(shown).createdAt ELSE Null) # Null <=> n > PageSize
    BY <1>12, StoresAssumption DEF StoresAssumption
<1> HIDE DEF page, shown, n
<1>15. Shown(OffsetPage(all, offset)) = Shown(KeysetPage(rest))
    BY <1>8, <1>10, <1>11, <1>13, <1>14 DEF Shown
<1> QED
    BY <1>2, <1>3, <1>15 DEF n, L

\* The rows at or above a date in a listing, newest first, are its first ones.
LEMMA InitialSegment ==
    ASSUME NEW n \in Nat, NEW K \in SUBSET (1 .. n), \A i \in K, j \in 1 .. n : j < i => j \in K
    PROVE  Cardinality(K) \in 0 .. n /\ K = 1 .. Cardinality(K)
PROOF
<1>1. CASE K = {}
    BY <1>1, FS_EmptySet
<1>2. CASE K # {}
  <2> DEFINE x == M!Max(K)
  <2>1. x \in K /\ \A i \in K : i <= x
    BY <1>2, ExtremeIndexes
  <2> HIDE DEF x
  <2>2. x \in 1 .. n
    BY <2>1
  <2>3. K = 1 .. x
    <3>1. \A i \in K : i \in 1 .. x
      BY <2>1, <2>2
    <3>2. ASSUME NEW j \in 1 .. x PROVE j \in K
      <4>1. j \in 1 .. n /\ (j = x \/ j < x)
        BY <2>2
      <4> QED
        BY <2>1, <4>1
    <3> QED
      BY <3>1, <3>2
  <2>4. Cardinality(1 .. x) = x
    BY <2>2, FS_Interval
  <2> QED
    BY <2>2, <2>3, <2>4
<1> QED
    BY <1>1, <1>2

AtOrAbove(S, date) == {r \in S : r.createdAt >= date}
IndexesAbove(s, date) == {i \in DOMAIN s : s[i].createdAt >= date}

\* The rows at or above a date are the first of the listing, as many as there are of them.
LEMMA HowManyAbove ==
    ASSUME NEW s, NEW S, Enumerates(s, S), NewestFirst(s), \A r \in S : r.createdAt \in Nat, NEW date \in Nat
    PROVE  /\ Cardinality(AtOrAbove(S, date)) \in 0 .. Len(s)
           /\ IndexesAbove(s, date) = 1 .. Cardinality(AtOrAbove(S, date))
PROOF
<1> DEFINE K == IndexesAbove(s, date)
           A == AtOrAbove(S, date)
           p == Cardinality(K)
<1>1. Len(s) \in Nat /\ DOMAIN s = 1 .. Len(s) /\ \A i \in DOMAIN s : s[i] \in S /\ s[i].createdAt \in Nat
    BY EnumerationIsWhole
<1>2. K \in SUBSET (1 .. Len(s)) /\ \A i \in K, j \in 1 .. Len(s) : j < i => j \in K
  <2>1. \A i, j \in DOMAIN s : j < i => s[i].createdAt <= s[j].createdAt
    BY DEF NewestFirst
  <2> QED
    BY <1>1, <2>1 DEF IndexesAbove
<1>3. p \in 0 .. Len(s) /\ K = 1 .. p
  <2> HIDE DEF K
  <2> QED
    BY <1>1, <1>2, InitialSegment
<1>4. A = {s[i] : i \in K}
    BY <1>1 DEF AtOrAbove, IndexesAbove, Enumerates
<1> DEFINE u == [i \in 1 .. p |-> s[i]]
<1>5. u \in [1 .. p -> A] /\ \A i, j \in 1 .. p : u[i] = u[j] => i = j
  <2>1. \A i \in 1 .. p : i \in DOMAIN s /\ i \in K
    BY <1>1, <1>2, <1>3
  <2> HIDE DEF p, K, A
  <2> QED
    BY <1>4, <2>1 DEF Enumerates
<1>6. \A r \in A : \E i \in 1 .. p : u[i] = r
  <2> HIDE DEF p, K, A
  <2> QED
    BY <1>3, <1>4
<1> HIDE DEF p, K, A, u
<1>7. u \in Seq(A) /\ Len(u) = p /\ DOMAIN u = 1 .. p
    BY <1>3, <1>5, FunctionIsSeq
<1>8. Enumerates(u, A)
    BY <1>5, <1>6, <1>7 DEF Enumerates
<1>9. Cardinality(A) = p
    BY <1>7, <1>8, EnumerationIsWhole
<1> QED
    BY <1>3, <1>9 DEF K, A

\* The offset that stands where a keyset cursor stands.
OffsetAt(S, cursor) == IF cursor = Null THEN 0 ELSE Cardinality(AtOrAbove(S, cursor))

\* What follows the offset of a date are the rows older than it.
LEMMA RestIsOlder ==
    ASSUME NEW all, NEW S, Enumerates(all, S), NewestFirst(all), \A r \in S : r.createdAt \in Nat,
           NEW cursor, cursor = Null \/ cursor \in Nat, NEW rest, rest = Rest(all, OffsetAt(S, cursor))
    PROVE  /\ OffsetAt(S, cursor) \in 0 .. Len(all)
           /\ Enumerates(rest, OlderThan(S, cursor))
           /\ NewestFirst(rest)
PROOF
<1> DEFINE o == OffsetAt(S, cursor)
           T == OlderThan(S, cursor)
           n == Len(all) - o
<1>1. Len(all) \in Nat /\ DOMAIN all = 1 .. Len(all) /\ \A i \in DOMAIN all : all[i] \in S /\ all[i].createdAt \in Nat
    BY EnumerationIsWhole
<1>2. Null \notin Nat
    BY StoresAssumption DEF StoresAssumption
<1>3. o \in 0 .. Len(all) /\ \A i \in DOMAIN all : i > o <=> all[i] \in T
  <2>1. CASE cursor = Null
    BY <1>1, <2>1 DEF OffsetAt, OlderThan
  <2>2. CASE cursor \in Nat
    <3>1. o = Cardinality(AtOrAbove(S, cursor))
      BY <1>2, <2>2 DEF OffsetAt
    <3> HIDE DEF o, T
    <3>2. o \in 0 .. Len(all) /\ IndexesAbove(all, cursor) = 1 .. o
      BY <2>2, <3>1, HowManyAbove
    <3>3. \A i \in DOMAIN all : i <= o <=> all[i].createdAt >= cursor
      BY <1>1, <3>2 DEF IndexesAbove
    <3>4. \A i \in DOMAIN all : all[i] \in T <=> all[i].createdAt < cursor
      BY <1>1, <1>2, <2>2 DEF T, OlderThan
    <3> QED
      BY <1>1, <2>2, <3>2, <3>3, <3>4
  <2> QED
    BY <2>1, <2>2
<1>4. T \subseteq S
    BY DEF OlderThan
<1> HIDE DEF o, T
<1>5. /\ rest \in Seq(S) /\ Len(rest) = n /\ DOMAIN rest = 1 .. n
      /\ \A i \in 1 .. n : o + i \in DOMAIN all /\ rest[i] = all[o + i]
    BY <1>3, RestOfListing DEF o
<1>6. n \in Nat /\ o \in Nat /\ \A i \in 1 .. n : o + i > o
    BY <1>1, <1>3
<1>7. \A i \in 1 .. n : rest[i] \in T
    BY <1>3, <1>5, <1>6
<1>8. rest \in Seq(T)
  <2>1. rest \in [1 .. n -> S]
    BY <1>5, EnumerationIsWhole DEF n
  <2>2. rest \in [1 .. n -> T]
    BY <1>7, <2>1
  <2> HIDE DEF n
  <2> QED
    BY <1>6, <2>2, FunctionIsSeq
<1>9. \A r \in T : \E i \in DOMAIN rest : rest[i] = r
  <2> SUFFICES ASSUME NEW r \in T PROVE \E i \in DOMAIN rest : rest[i] = r
    OBVIOUS
  <2>1. PICK j \in DOMAIN all : all[j] = r
    BY <1>4 DEF Enumerates
  <2>2. j > o
    BY <1>3, <2>1
  <2>3. j - o \in 1 .. n /\ o + (j - o) = j
    BY <1>1, <1>3, <2>2
  <2> QED
    BY <1>5, <2>1, <2>3
<1>10. \A i, j \in 1 .. n : rest[i] = rest[j] => i = j
  <2> SUFFICES ASSUME NEW i \in 1 .. n, NEW j \in 1 .. n, rest[i] = rest[j] PROVE i = j
    OBVIOUS
  <2>1. o + i = o + j
    BY <1>5 DEF Enumerates
  <2> QED
    BY <1>6, <2>1
<1>11. NewestFirst(rest)
  <2> SUFFICES ASSUME NEW i \in 1 .. n, NEW j \in 1 .. n, i < j PROVE rest[j].createdAt <= rest[i].createdAt
    BY <1>5 DEF NewestFirst
  <2>1. o + i < o + j
    BY <1>6
  <2> QED
    BY <1>5, <2>1 DEF NewestFirst
<1> QED
    BY <1>3, <1>5, <1>8, <1>9, <1>10, <1>11 DEF Enumerates, o, T

\* markets.list() without a cursor.
LEMMA FirstPageAgrees ==
    ASSUME NEW d, NEW m, NEW at, Sound(d, m, at), NEW status
    PROVE  Shown(M!MarketsList(m, status, Null, PageSize).answer)
             \in {Shown(p) : p \in D!MarketsList(d, status, Null, PageSize).answers}
PROOF
<1> DEFINE all == Listing(m, status)
           S == OfStatus(d.markets, status)
           rest == Rest(all, 0)
<1>1. Enumerates(all, S) /\ NewestFirst(all)
    BY ListingIsNewestFirst
<1>2. MarketsSound(d.markets, at)
    BY DEF Sound, TableSound, Tables
<1>3. \A r \in S : r.createdAt \in Nat
    BY <1>2 DEF MarketsSound, OfStatus
<1>4. M!MarketsList(m, status, Null, PageSize).answer = OffsetPage(all, 0)
    BY OffsetPages
<1>5. S = {r \in d.markets : (status = Null \/ r.status = status) /\ (Null = Null \/ r.createdAt < Null)}
    BY DEF OfStatus
<1>6. D!MarketsList(d, status, Null, PageSize).answers = {KeysetPage(s) : s \in D!OrderedBy(S, D!Newest)}
    BY <1>5, KeysetPages
<1> HIDE DEF all, S, rest
<1>7. OffsetAt(S, Null) = 0 /\ OlderThan(S, Null) = S
    BY DEF OffsetAt, OlderThan
<1>8. 0 \in 0 .. Len(all) /\ Enumerates(rest, S) /\ NewestFirst(rest)
    BY <1>1, <1>3, <1>7, RestIsOlder DEF rest
<1>9. Shown(OffsetPage(all, 0)) = Shown(KeysetPage(rest))
    BY <1>1, <1>3, <1>8, RestOfListing DEF rest
<1>10. rest \in D!OrderedBy(S, D!Newest)
  <2>1. \A i \in DOMAIN rest : rest[i].createdAt \in Nat
    BY <1>3, <1>8, EnumerationIsWhole
  <2>2. \A i, j \in DOMAIN rest : i < j => ~D!Newest(rest[j], rest[i])
    BY <1>8, <2>1 DEF NewestFirst, D!Newest
  <2> QED
    BY <1>8, <2>2, EnumerationIsWhole DEF D!OrderedBy
<1> QED
    BY <1>4, <1>6, <1>9, <1>10

\* markets.list() with cursors that are in step.
LEMMA NextPageAgrees ==
    ASSUME NEW d, NEW m, NEW at, Sound(d, m, at), NEW cursor, cursor = Null \/ cursor \in Nat,
           NEW offset, IF cursor = Null THEN offset = Null ELSE offset = OffsetAt(d.markets, cursor)
    PROVE  Shown(M!MarketsList(m, Null, offset, PageSize).answer)
             \in {Shown(p) : p \in D!MarketsList(d, Null, cursor, PageSize).answers}
PROOF
<1> DEFINE all == Listing(m, Null)
           S == OfStatus(d.markets, Null)
           o == OffsetAt(S, cursor)
           rest == Rest(all, o)
           rows == OlderThan(S, cursor)
<1>1. Enumerates(all, S) /\ NewestFirst(all)
    BY ListingIsNewestFirst
<1>2. MarketsSound(d.markets, at)
    BY DEF Sound, TableSound, Tables
<1>3. S = d.markets
    BY DEF OfStatus
<1>4. \A r \in S : r.createdAt \in Nat
    BY <1>2, <1>3 DEF MarketsSound
<1>5. rows = {r \in d.markets : (Null = Null \/ r.status = Null) /\ (cursor = Null \/ r.createdAt < cursor)}
    BY <1>3 DEF OlderThan
<1>6. D!MarketsList(d, Null, cursor, PageSize).answers = {KeysetPage(s) : s \in D!OrderedBy(rows, D!Newest)}
    BY <1>5, KeysetPages
<1> HIDE DEF all, rest, o, rows
<1>7. o \in 0 .. Len(all) /\ Enumerates(rest, rows) /\ NewestFirst(rest)
  <2> HIDE DEF S
  <2> QED
    BY <1>1, <1>4, RestIsOlder DEF rest, rows, o
<1>8. M!MarketsList(m, Null, offset, PageSize).answer = OffsetPage(all, o)
  <2>1. o = IF offset = Null THEN 0 ELSE offset
    <3>1. Null \notin Nat
      BY StoresAssumption DEF StoresAssumption
    <3>2. IF cursor = Null THEN o = 0 ELSE o = offset
      BY <1>3 DEF o, OffsetAt
    <3>3. o \in Nat
      BY <1>7
    <3> QED
      BY <3>1, <3>2, <3>3
  <2> QED
    BY <2>1, OffsetPages DEF all
<1>9. Shown(OffsetPage(all, o)) = Shown(KeysetPage(rest))
  <2> HIDE DEF S
  <2> QED
    BY <1>1, <1>4, <1>7, RestOfListing DEF rest
<1> HIDE DEF S
<1>10. rest \in D!OrderedBy(rows, D!Newest)
  <2>1. \A i \in DOMAIN rest : rest[i] \in rows
    BY <1>7, EnumerationIsWhole
  <2>2. \A r \in rows : r.createdAt \in Nat
    BY <1>4 DEF rows, OlderThan
  <2>3. \A i, j \in DOMAIN rest : i < j => ~D!Newest(rest[j], rest[i])
    BY <1>7, <2>1, <2>2 DEF NewestFirst, D!Newest
  <2> QED
    BY <1>7, <2>3, EnumerationIsWhole DEF D!OrderedBy
<1> QED
    BY <1>6, <1>8, <1>9, <1>10

\* Of markets created at distinct instants, both cursors move to the same place.
LEMMA CursorsStayInStep ==
    ASSUME NEW d, NEW m, NEW at \in Nat, Sound(d, m, at), AtDistinctInstants(d.markets),
           NEW cursor, cursor = Null \/ cursor \in Nat,
           NEW offset, IF cursor = Null THEN offset = Null ELSE offset = OffsetAt(d.markets, cursor),
           NEW page, NEW s, NEW k, PageOf(page, d.markets, cursor, s, k),
           page.nextCursor # Null
    PROVE  M!MarketsList(m, Null, offset, PageSize).answer.nextCursor = OffsetAt(d.markets, page.nextCursor)
PROOF
<1> DEFINE S == d.markets
           T == OlderThan(S, cursor)
           o == OffsetAt(S, cursor)
           all == Listing(m, Null)
           c == page.nextCursor
<1>1. Enumerates(all, S) /\ NewestFirst(all)
  <2>1. S = OfStatus(S, Null)
    BY DEF OfStatus
  <2> QED
    BY <2>1, ListingIsNewestFirst
<1>2. MarketsSound(S, at)
    BY DEF Sound, TableSound, Tables
<1>3. \A r \in S : r.createdAt \in Nat
    BY <1>2 DEF MarketsSound
<1>4. Null \notin Nat
    BY StoresAssumption DEF StoresAssumption
<1>5. Enumerates(s, T) /\ NewestFirst(s) /\ k = PageSize /\ k > 0 /\ k < Len(s) /\ k \in 0 .. Len(s) /\ c = s[k].createdAt
    BY DEF PageOf
<1>6. AtDistinctInstants(S)
    OBVIOUS
<1>7. IF cursor = Null THEN offset = Null ELSE offset = o
    OBVIOUS
<1> HIDE DEF S, T, o, all, c
<1>8. Len(s) \in Nat /\ DOMAIN s = 1 .. Len(s) /\ (\A i \in DOMAIN s : s[i] \in T) /\ k \in DOMAIN s /\ k \in Nat
    BY <1>5, EnumerationIsWhole
<1>9. T \subseteq S /\ \A r \in T : r.createdAt \in Nat
    BY <1>3 DEF T, OlderThan
<1>10. c \in Nat
    BY <1>5, <1>8, <1>9
<1>11. o \in 0 .. Len(all) /\ Enumerates(Rest(all, o), T)
    BY <1>1, <1>3, RestIsOlder DEF o, T
<1>12. Len(s) = Len(all) - o
  <2>1. Len(Rest(all, o)) = Len(all) - o
    BY <1>1, <1>3, <1>11, RestOfListing
  <2>2. Len(s) = Cardinality(T) /\ Len(Rest(all, o)) = Cardinality(T)
    BY <1>5, <1>11, EnumerationIsWhole
  <2> QED
    BY <2>1, <2>2
<1>13. Cardinality(AtOrAbove(T, c)) = k
  <2> DEFINE p == Cardinality(AtOrAbove(T, c))
  <2>1. p \in 0 .. Len(s) /\ IndexesAbove(s, c) = 1 .. p
    BY <1>5, <1>9, <1>10, HowManyAbove
  <2> HIDE DEF p
  <2>2. k \in IndexesAbove(s, c)
    BY <1>5, <1>8, <1>10 DEF IndexesAbove
  <2>3. ASSUME NEW i \in DOMAIN s, i > k PROVE i \notin IndexesAbove(s, c)
    <3>1. s[i].createdAt <= c /\ s[i].createdAt \in Nat
      BY <1>5, <1>8, <1>9, <2>3 DEF NewestFirst
    <3>2. s[i] # s[k] /\ s[i] \in S /\ s[k] \in S
      BY <1>5, <1>8, <1>9, <2>3 DEF Enumerates
    <3>3. s[i].createdAt # c
      BY <1>5, <1>6, <3>2 DEF AtDistinctInstants
    <3> QED
      BY <1>10, <3>1, <3>3 DEF IndexesAbove
  <2>4. k \in 1 .. p
    BY <2>1, <2>2
  <2>5. p \in DOMAIN s /\ p \in IndexesAbove(s, c)
    BY <1>8, <2>1, <2>4
  <2>6. ~(p > k)
    BY <2>3, <2>5
  <2> QED
    BY <1>8, <2>1, <2>4, <2>6 DEF p
<1>14. OffsetAt(S, c) = o + k
  <2>1. OffsetAt(S, c) = Cardinality(AtOrAbove(S, c))
    BY <1>4, <1>10 DEF OffsetAt
  <2>2. CASE cursor = Null
    <3>1. T = S /\ o = 0
      BY <2>2 DEF T, o, OlderThan, OffsetAt
    <3> QED
      BY <1>8, <1>13, <2>1, <3>1
  <2>3. CASE cursor \in Nat
    <3> DEFINE A == AtOrAbove(S, cursor)
               B == AtOrAbove(T, c)
    <3>1. o = Cardinality(A)
      BY <1>4, <2>3 DEF o, OffsetAt
    <3>2. c < cursor
      BY <1>4, <1>5, <1>8, <2>3 DEF T, OlderThan
    <3>3. \A r \in S : r \in T <=> r.createdAt < cursor
      BY <1>4, <2>3 DEF T, OlderThan
    <3>4. AtOrAbove(S, c) = A \cup B /\ A \cap B = {}
      BY <1>3, <1>9, <1>10, <2>3, <3>2, <3>3 DEF AtOrAbove
    <3>5. IsFiniteSet(S) /\ A \subseteq S /\ B \subseteq S
      BY <1>1, <1>9, EnumerationIsWhole DEF AtOrAbove
    <3> HIDE DEF A, B
    <3>6. IsFiniteSet(A) /\ IsFiniteSet(B)
      BY <3>5, FS_Subset
    <3>7. Cardinality(A \cup B) = Cardinality(A) + Cardinality(B) - Cardinality(A \cap B)
      BY <3>6, FS_Union
    <3>8. Cardinality({}) = 0 /\ Cardinality(A) \in Nat /\ Cardinality(B) \in Nat
      BY <3>6, FS_EmptySet, FS_CardinalityType
    <3>9. Cardinality(B) = k
      BY <1>13 DEF B
    <3>10. Cardinality(A \cup B) = o + k
      BY <3>1, <3>4, <3>7, <3>8, <3>9
    <3> QED
      BY <2>1, <3>4, <3>10
  <2> QED
    BY <2>2, <2>3
<1>15. M!MarketsList(m, Null, offset, PageSize).answer = OffsetPage(all, o)
  <2>1. o = IF offset = Null THEN 0 ELSE offset
    <3>1. cursor = Null => o = 0
      BY DEF o, OffsetAt
    <3>2. o \in Nat
      BY <1>11
    <3> QED
      BY <1>4, <1>7, <3>1, <3>2
  <2> QED
    BY <2>1, OffsetPages DEF all
<1>16. OffsetPage(all, o).nextCursor = o + k
  <2> DEFINE L == Len(all)
             q == o + k
  <2>1. L \in Nat /\ o \in Nat
    BY <1>1, <1>11, EnumerationIsWhole
  <2>2. Len(s) = L - o
    BY <1>12
  <2>3. OffsetPage(all, o).nextCursor
          = IF o + Len(SubSeq(all, o + 1, IF o + PageSize > L THEN L ELSE o + PageSize)) < L
            THEN o + Len(SubSeq(all, o + 1, IF o + PageSize > L THEN L ELSE o + PageSize)) ELSE Null
    BY DEF OffsetPage
  <2>4. \A i \in 1 .. L : all[i] \in S
    BY <1>1, EnumerationIsWhole
  <2> HIDE DEF L
  <2>5. (IF o + PageSize > L THEN L ELSE o + PageSize) = q /\ q < L /\ q \in Nat
    BY <1>5, <1>8, <2>1, <2>2
  <2> HIDE DEF q
  <2>6. Len(SubSeq(all, o + 1, q)) = k
    <3>1. o + 1 \in Int /\ q \in Int /\ \A i \in (o + 1) .. q : all[i] \in S
      BY <2>1, <2>4, <2>5
    <3>2. Len(SubSeq(all, o + 1, q)) = IF o + 1 <= q THEN q - (o + 1) + 1 ELSE 0
      BY <3>1, SubSeqProperties
    <3> QED
      BY <1>5, <1>8, <2>1, <3>2 DEF q
  <2>7. o + k < L
    BY <2>5 DEF q
  <2> QED
    BY <2>3, <2>5, <2>6, <2>7
<1> QED
    BY <1>14, <1>15, <1>16 DEF S, c

-----------------------------------------------------------------------------
(* The calls that write, by what they do to the one table they write. *)

\* A row is inserted, with or without an id of its own.
Inserts(d, m, t, row, next, x, y) ==
    \/ x = D!Insert(d, t, row) /\ y = M!Push(m, t, row) /\ next = d.nextId
    \/ x = D!InsertWithId(d, t, row) /\ y = M!PushWithId(m, t, row) /\ next = d.nextId + 1

\* What an insertion leaves, and what it answers.
LEMMA InsertWrites ==
    ASSUME NEW d, NEW m, NEW at, Sound(d, m, at), NEW t \in Tables, NEW row, NEW next, NEW x, NEW y,
           Inserts(d, m, t, row, next, x, y)
    PROVE  /\ OneTable(t, d, m, After(x), After(y))
           /\ After(x).nextId = next
           /\ After(x)[t] = d[t] \cup {row} /\ After(y)[t] = Append(m[t], row)
           /\ x.answers = {row} /\ y.answer = row
PROOF
<1>1. t # "nextId"
    BY DEF Tables
<1>2. DOMAIN d = Tables \cup {"nextId"} /\ DOMAIN m = Tables \cup {"nextId"} /\ m.nextId = d.nextId
    BY DEF Sound
<1>3. CASE x = D!Insert(d, t, row) /\ y = M!Push(m, t, row) /\ next = d.nextId
    BY <1>1, <1>2, <1>3 DEF OneTable, After, D!Insert, D!Gives, M!Push, M!Gives
<1>4. CASE x = D!InsertWithId(d, t, row) /\ y = M!PushWithId(m, t, row) /\ next = d.nextId + 1
  <2> DEFINE e == [d EXCEPT ![t] = @ \cup {row}, !.nextId = @ + 1]
             n == [m EXCEPT ![t] = Append(@, row), !.nextId = @ + 1]
  <2>1. After(x) = e /\ After(y) = n /\ x.answers = {row} /\ y.answer = row
    BY <1>4 DEF After, D!InsertWithId, D!Gives, M!PushWithId, M!Gives
  <2>2. DOMAIN e = DOMAIN d /\ e.nextId = d.nextId + 1 /\ e[t] = d[t] \cup {row}
        /\ \A u \in Tables : u # t => e[u] = d[u]
    BY <1>1, <1>2 DEF Tables
  <2>3. DOMAIN n = DOMAIN m /\ n.nextId = d.nextId + 1 /\ n[t] = Append(m[t], row)
        /\ \A u \in Tables : u # t => n[u] = m[u]
    BY <1>1, <1>2 DEF Tables
  <2> HIDE DEF e, n
  <2> QED
    BY <1>2, <1>4, <2>1, <2>2, <2>3 DEF OneTable
<1> QED
    BY <1>3, <1>4 DEF Inserts

\* An insertion agrees when the table it leaves is sound.
LEMMA InsertAgrees ==
    ASSUME NEW d, NEW m, NEW at \in Nat, Sound(d, m, at), NEW t \in Tables, NEW row, NEW next, NEW x, NEW y,
           Inserts(d, m, t, row, next, x, y),
           TableSound(t, Append(m[t], row), d[t] \cup {row}, next, at)
    PROVE  Agree(x, y, at)
PROOF
<1>1. /\ OneTable(t, d, m, After(x), After(y))
      /\ After(x).nextId = next
      /\ After(x)[t] = d[t] \cup {row} /\ After(y)[t] = Append(m[t], row)
      /\ x.answers = {row} /\ y.answer = row
    BY InsertWrites
<1> DEFINE e == After(x)
           n == After(y)
<1>2. TableSound(t, n[t], e[t], e.nextId, at)
    BY <1>1
<1>3. OneTable(t, d, m, e, n)
    BY <1>1
<1> HIDE DEF e, n
<1>4. Sound(e, n, at)
    BY <1>2, <1>3, OneTableIsEnough
<1> QED
    BY <1>1, <1>4 DEF Agree, e, n

\* The next id, and the latest date.
LEMMA NumberedOneMore ==
    ASSUME NEW S, NEW next \in Nat, Numbered(S, next), NEW row, row.id = next
    PROVE  row \notin S /\ Numbered(S \cup {row}, next + 1)
PROOF
    BY DEF Numbered

\* A row inserted now is dated no earlier than those before it.
LEMMA DatedOneMore ==
    ASSUME NEW s, NEW S, Enumerates(s, S), NEW at \in Nat, Dated(s, at), NEW row, row.createdAt = at, row \notin S
    PROVE  Dated(Append(s, row), at)
PROOF
<1> DEFINE u == Append(s, row)
           n == Len(s)
<1>1. n \in Nat /\ DOMAIN s = 1 .. n
    BY EnumerationIsWhole
<1>2. Enumerates(u, S \cup {row}) /\ Len(u) = n + 1 /\ u[n + 1] = row /\ \A i \in DOMAIN s : u[i] = s[i]
    BY EnumerateOneMore
<1> HIDE DEF u, n
<1>3. DOMAIN u = 1 .. (n + 1)
    BY <1>2, EnumerationIsWhole
<1>4. \A i \in 1 .. (n + 1) : (i \in 1 .. n /\ u[i] = s[i]) \/ (i = n + 1 /\ u[i] = row)
    BY <1>1, <1>2
<1>5. \A i \in 1 .. (n + 1) : u[i].createdAt \in 0 .. at
    BY <1>1, <1>4 DEF Dated
<1>6. ASSUME NEW i \in 1 .. (n + 1), NEW j \in 1 .. (n + 1), i < j PROVE u[i].createdAt <= u[j].createdAt
  <2>1. CASE j = n + 1
    BY <1>1, <1>4, <1>5, <1>6, <2>1
  <2>2. CASE j \in 1 .. n
    <3>1. i \in DOMAIN s /\ j \in DOMAIN s /\ u[i] = s[i] /\ u[j] = s[j]
      BY <1>1, <1>4, <1>6, <2>2
    <3> QED
      BY <1>6, <3>1 DEF Dated
  <2> QED
    BY <1>1, <1>6, <2>1, <2>2
<1> QED
    BY <1>3, <1>5, <1>6 DEF Dated, u

\* A statement that is run again on the tables it left changes nothing.
LEMMA ReplaceSettles ==
    ASSUME NEW d, NEW t, NEW old, NEW new, NEW e, e = D!Replace(d, t, old, new), t \in DOMAIN d,
           NEW old2, NEW new2, (e[t] \ old2) \cup new2 = e[t]
    PROVE  D!Replace(e, t, old2, new2) = e
PROOF
<1>1. e = [u \in DOMAIN d |-> IF u = t THEN (d[t] \ old) \cup new ELSE d[u]]
    BY DEF D!Replace
<1> DEFINE f == [e EXCEPT ![t] = (@ \ old2) \cup new2]
<1>2. f = [u \in DOMAIN e |-> IF u = t THEN (e[t] \ old2) \cup new2 ELSE e[u]]
    OBVIOUS
<1>3. f = e
  <2> HIDE DEF f
  <2>1. DOMAIN f = DOMAIN d /\ DOMAIN e = DOMAIN d /\ \A u \in DOMAIN d : f[u] = e[u]
    BY <1>1, <1>2
  <2> QED
    BY <1>1, <1>2, <2>1
<1> QED
    BY <1>3 DEF D!Replace

\* wallets.touch().
LEMMA TouchAgrees ==
    ASSUME NEW d, NEW m, NEW at \in Nat, Sound(d, m, at), NEW w,
           NEW x, x = D!WalletsTouch(d, w, at), NEW y, y = M!WalletsTouch(m, w, at)
    PROVE  Agree(x, y, at) /\ D!WalletsTouch(After(x), w, at) = x
PROOF
<1> DEFINE s == m.wallets
           S == d.wallets
           rows == {r \in S : r.address = w}
           hits == {i \in DOMAIN s : s[i].address = w}
           row == [address |-> w, firstSeenAt |-> at]
<1>1. Enumerates(s, S)
    BY DEF Sound, TableSound, Tables
<1>2. hits = IndexesOf(s, rows)
    BY <1>1, EnumerationIsWhole DEF IndexesOf
<1>3. x = IF rows = {} THEN D!Insert(d, "wallets", row) ELSE [db |-> d, answers |-> rows]
    BY DEF D!WalletsTouch, D!MayGive
<1>4. y = IF hits # {} THEN [db |-> m, answer |-> s[M!Min(hits)]] ELSE M!Push(m, "wallets", row)
    BY DEF M!WalletsTouch, M!Finds, M!Where, M!FirstOf, M!Gives
<1>5. rows \in SUBSET S
    OBVIOUS
<1> DEFINE Left(e) == {r \in e.wallets : r.address = w}
<1>6. \A e : Left(e) # {} => D!WalletsTouch(e, w, at) = [db |-> e, answers |-> Left(e)]
    BY DEF D!WalletsTouch, D!MayGive
<1>7. Left(d) = rows
    OBVIOUS
<1>8. row.address = w
    OBVIOUS
<1>9. \A e : e.wallets = S \cup {row} /\ rows = {} => Left(e) = {row}
    OBVIOUS
<1> HIDE DEF s, S, rows, hits, row, Left
<1>10. CASE rows # {}
  <2>1. hits # {} /\ FirstAt(s, hits) \in D!TheRow(rows)
    BY <1>1, <1>2, <1>5, <1>10, Found, FoundIsTheRow
  <2>2. y.answer \in x.answers /\ After(x) = d /\ After(y) = m
    BY <1>3, <1>4, <1>10, <2>1 DEF After, FirstAt, D!TheRow
  <2> QED
    BY <1>3, <1>6, <1>7, <1>10, <2>2 DEF Agree
<1>11. CASE rows = {}
  <2>1. hits = {}
    BY <1>1, <1>2, <1>5, <1>11, Found
  <2>2. Inserts(d, m, "wallets", row, d.nextId, x, y) /\ "wallets" \in Tables
    BY <1>3, <1>4, <1>11, <2>1 DEF Inserts, Tables
  <2>3. row \notin S
    BY <1>8, <1>11 DEF rows
  <2>4. Enumerates(Append(s, row), S \cup {row})
    BY <1>1, <2>3, EnumerateOneMore
  <2>5. TableSound("wallets", Append(m["wallets"], row), d["wallets"] \cup {row}, d.nextId, at)
    BY <2>4 DEF TableSound, s, S
  <2>6. Agree(x, y, at)
    BY <2>2, <2>5, InsertAgrees
  <2>7. After(x)["wallets"] = d["wallets"] \cup {row} /\ x.answers = {row}
    BY <2>2, InsertWrites
  <2>8. Left(After(x)) = {row}
    BY <1>9, <1>11, <2>7 DEF S
  <2>9. x = [db |-> After(x), answers |-> {row}]
    BY <1>3, <1>11 DEF After, D!Insert, D!Gives
  <2> QED
    BY <1>6, <2>6, <2>8, <2>9
<1> QED
    BY <1>10, <1>11

\* sessions.create().
LEMMA CreateSessionAgrees ==
    ASSUME NEW d, NEW m, NEW at \in Nat, Sound(d, m, at), NEW w
    PROVE  Agree(D!SessionsCreate(d, w, at), M!SessionsCreate(m, w, at), at)
PROOF
<1> DEFINE s == m.sessions
           S == d.sessions
           next == d.nextId
           row == [id |-> next, creator |-> w, status |-> "OPEN", createdAt |-> at, updatedAt |-> at]
           x == D!SessionsCreate(d, w, at)
           y == M!SessionsCreate(m, w, at)
<1>1. next \in Nat /\ m.nextId = next /\ Enumerates(s, S) /\ SessionsSound(S, next)
    BY DEF Sound, TableSound, Tables
<1>2. row.id = next /\ HasColumns(row, SessionColumns)
    BY DEF HasColumns, SessionColumns
<1>3. x = D!InsertWithId(d, "sessions", row) /\ y = M!PushWithId(m, "sessions", row)
    BY <1>1 DEF D!SessionsCreate, M!SessionsCreate
<1> HIDE DEF x, y, row
<1>4. Inserts(d, m, "sessions", row, next + 1, x, y) /\ "sessions" \in Tables
    BY <1>3 DEF Inserts, Tables
<1> HIDE DEF s, S, next
<1>5. row \notin S /\ Numbered(S \cup {row}, next + 1)
    BY <1>1, <1>2, NumberedOneMore DEF SessionsSound
<1>6. SessionsSound(S \cup {row}, next + 1) /\ Enumerates(Append(s, row), S \cup {row})
    BY <1>1, <1>2, <1>5, EnumerateOneMore DEF SessionsSound
<1>7. TableSound("sessions", Append(m["sessions"], row), d["sessions"] \cup {row}, next + 1, at)
    BY <1>6 DEF TableSound, s, S
<1>8. Agree(x, y, at)
    BY <1>4, <1>7, InsertAgrees
<1> QED
    BY <1>8 DEF x, y

\* UPDATE ... SET of the row with a key, if there is one.
Updates(d, m, t, old, row, x, y) ==
    LET hits == IndexesOf(m[t], old)
    IN  /\ old \in SUBSET d[t] /\ \A r, q \in old : r = q
        /\ old # {} => row \notin d[t] \ old
        /\ After(x) = D!Replace(d, t, old, IF old = {} THEN {} ELSE {row})
        /\ After(y) = IF hits # {} THEN [m EXCEPT ![t] = M!ReplaceAt(@, M!Min(hits), row)] ELSE m

Updated(d, m, t, old, row, e, n) ==
    /\ OneTable(t, d, m, e, n) /\ e.nextId = d.nextId
    /\ Enumerates(n[t], e[t])
    /\ \/ old = {} /\ e[t] = d[t] /\ n = m
       \/ old # {} /\ e[t] = (d[t] \ old) \cup {row} /\ \E i \in DOMAIN m[t] : old = {m[t][i]} /\ n[t] = [m[t] EXCEPT ![i] = row]

\* What the update of the row with a key leaves, and what it answers.
LEMMA UpdateWrites ==
    ASSUME NEW d, NEW m, NEW at, Sound(d, m, at), NEW t \in Tables, NEW old, NEW row, NEW x, NEW y,
           Updates(d, m, t, old, row, x, y)
    PROVE  Updated(d, m, t, old, row, After(x), After(y))
PROOF
<1> DEFINE e == After(x)
           n == After(y)
           hits == IndexesOf(m[t], old)
           i == M!Min(hits)
<1>1. old \in SUBSET d[t] /\ (\A r, q \in old : r = q) /\ (old # {} => row \notin d[t] \ old)
    BY DEF Updates
<1>2. e = D!Replace(d, t, old, IF old = {} THEN {} ELSE {row})
    BY DEF Updates
<1>3. n = IF hits # {} THEN [m EXCEPT ![t] = M!ReplaceAt(@, i, row)] ELSE m
    BY DEF Updates
<1>4. Enumerates(m[t], d[t])
    BY DEF Sound, TableSound
<1>5. hits = {} <=> old = {}
    BY <1>1, <1>4, Found
<1>6. t # "nextId" /\ DOMAIN d = Tables \cup {"nextId"} /\ DOMAIN m = Tables \cup {"nextId"} /\ m.nextId = d.nextId
    BY DEF Sound, Tables
<1> HIDE DEF e, n
<1>7. CASE old = {}
  <2>1. n = m /\ e = D!Replace(d, t, {}, {})
    BY <1>2, <1>3, <1>5, <1>7
  <2>2. DOMAIN e = DOMAIN d /\ e.nextId = d.nextId /\ e[t] = d[t] /\ \A u \in Tables : u # t => e[u] = d[u]
    BY <1>6, <2>1 DEF D!Replace, Tables
  <2>3. OneTable(t, d, m, e, n)
    BY <1>6, <2>1, <2>2 DEF OneTable
  <2> QED
    BY <1>4, <1>7, <2>1, <2>2, <2>3 DEF Updated, e, n
<1>8. CASE old # {}
  <2> DEFINE s == m[t]
             S == d[t]
             u == n[t]
             U == e[t]
  <2>1. U = (S \ old) \cup {row} /\ u = [s EXCEPT ![i] = row]
    BY <1>2, <1>3, <1>5, <1>6, <1>8 DEF D!Replace, M!ReplaceAt
  <2>2. OneTable(t, d, m, e, n) /\ e.nextId = d.nextId
    BY <1>2, <1>3, <1>5, <1>6, <1>8 DEF OneTable, D!Replace
  <2>3. Enumerates(s, S) /\ old \in SUBSET S /\ row \notin S \ old /\ hits = IndexesOf(s, old)
    BY <1>1, <1>4, <1>8
  <2> HIDE DEF s, S, u, U, i, hits
  <2>4. i \in DOMAIN s /\ hits = {i} /\ old = {s[i]}
    BY <1>1, <1>5, <1>8, <2>3, TheOnlyRow DEF i
  <2>5. Enumerates([s EXCEPT ![i] = row], (S \ {s[i]}) \cup {row})
    BY <2>3, <2>4, EnumerateReplaced
  <2>6. Enumerates(u, U)
    BY <2>1, <2>4, <2>5
  <2> QED
    <3>1. e[t] = (d[t] \ old) \cup {row} /\ i \in DOMAIN m[t] /\ old = {m[t][i]} /\ n[t] = [m[t] EXCEPT ![i] = row]
      BY <2>1, <2>4 DEF s, S, u, U
    <3>2. Enumerates(n[t], e[t])
      BY <2>6 DEF u, U
    <3>3. Updated(d, m, t, old, row, e, n)
      BY <1>8, <2>2, <3>1, <3>2 DEF Updated
    <3> QED
      BY <3>3 DEF e, n
<1> QED
    BY <1>7, <1>8

\* sessions.appendTurn().
LEMMA AppendTurnAgrees ==
    ASSUME NEW d, NEW m, NEW at \in Nat, Sound(d, m, at), NEW key, NEW role
    PROVE  Agree(D!SessionsAppendTurn(d, key, role, at), M!SessionsAppendTurn(m, key, role, at), at)
PROOF
<1> DEFINE rows == {r \in d.sessions : r.id = key}
           hits == {i \in DOMAIN m.sessions : m.sessions[i].id = key}
           s == m.turns
           S == d.turns
           next == d.nextId
           row == [id |-> next, sessionId |-> key, role |-> role, createdAt |-> at]
           x == D!SessionsAppendTurn(d, key, role, at)
           y == M!SessionsAppendTurn(m, key, role, at)
<1>1. next \in Nat /\ m.nextId = next /\ Enumerates(s, S) /\ Numbered(S, next) /\ Dated(s, at)
    BY DEF Sound, TableSound, Tables
<1>2. hits = {} <=> rows = {}
  <2>1. Enumerates(m.sessions, d.sessions)
    BY DEF Sound, TableSound, Tables
  <2>2. hits = IndexesOf(m.sessions, rows)
    BY <2>1, EnumerationIsWhole DEF IndexesOf
  <2>3. rows \in SUBSET d.sessions
    OBVIOUS
  <2> HIDE DEF hits, rows
  <2> QED
    BY <2>1, <2>2, <2>3, Found
<1>3. x = IF rows # {} THEN D!InsertWithId(d, "turns", row) ELSE D!Gives(d, Failed)
    BY DEF D!SessionsAppendTurn
<1>4. y = IF hits # {} THEN M!PushWithId(m, "turns", row) ELSE M!Gives(m, Failed)
    BY <1>1 DEF M!SessionsAppendTurn, M!Finds, M!Where
<1>5. row.id = next /\ row.createdAt = at
    OBVIOUS
<1> HIDE DEF x, y, row, rows, hits
<1>6. CASE rows = {}
  <2>1. After(x) = d /\ After(y) = m /\ y.answer \in x.answers
    BY <1>2, <1>3, <1>4, <1>6 DEF After, D!Gives, M!Gives
  <2> QED
    BY <2>1 DEF Agree, x, y
<1>7. CASE rows # {}
  <2>1. Inserts(d, m, "turns", row, next + 1, x, y) /\ "turns" \in Tables
    BY <1>2, <1>3, <1>4, <1>7 DEF Inserts, Tables
  <2> HIDE DEF s, S, next
  <2>2. row \notin S /\ Numbered(S \cup {row}, next + 1)
    BY <1>1, <1>5, NumberedOneMore
  <2>3. Dated(Append(s, row), at) /\ Enumerates(Append(s, row), S \cup {row})
    BY <1>1, <1>5, <2>2, DatedOneMore, EnumerateOneMore
  <2>4. TableSound("turns", Append(m["turns"], row), d["turns"] \cup {row}, next + 1, at)
    BY <2>2, <2>3 DEF TableSound, s, S
  <2>5. Agree(x, y, at)
    BY <2>1, <2>4, InsertAgrees
  <2> QED
    BY <2>5 DEF x, y
<1> QED
    BY <1>6, <1>7

\* sessions.markCompiled().
LEMMA MarkCompiledAgrees ==
    ASSUME NEW d, NEW m, NEW at \in Nat, Sound(d, m, at), NEW key,
           NEW x, x = D!SessionsMarkCompiled(d, key, at), NEW y, y = M!SessionsMarkCompiled(m, key, at)
    PROVE  Agree(x, y, at) /\ D!SessionsMarkCompiled(After(x), key, at) = x
PROOF
<1> DEFINE s == m.sessions
           S == d.sessions
           next == d.nextId
           OfKey(T) == {r \in T : r.id = key}
           Set(r) == [r EXCEPT !.status = "COMPILED", !.updatedAt = at]
           old == OfKey(S)
           hits == {i \in DOMAIN s : s[i].id = key}
           row == Set(s[M!Min(hits)])
<1>1. next \in Nat /\ Enumerates(s, S) /\ SessionsSound(S, next)
    BY DEF Sound, TableSound, Tables
<1>2. hits = IndexesOf(s, old) /\ old \in SUBSET S /\ \A r, q \in old : r = q
    BY <1>1, EnumerationIsWhole DEF IndexesOf, SessionsSound, Numbered
<1>3. \A g : D!SessionsMarkCompiled(g, key, at)
               = [db |-> D!Replace(g, "sessions", OfKey(g.sessions), {Set(r) : r \in OfKey(g.sessions)}), answers |-> {Null}]
    BY DEF D!SessionsMarkCompiled, D!UpdateOne, D!MayGive, D!Gives
<1>4. y = [db |-> IF hits # {} THEN [m EXCEPT !["sessions"] = M!ReplaceAt(@, M!Min(hits), row)] ELSE m, answer |-> Null]
    BY DEF M!SessionsMarkCompiled, M!Change, M!Put, M!Gives, M!Finds, M!Where, M!FirstOf
<1>5. \A r \in S : HasColumns(r, SessionColumns) /\ r.id \in Nat /\ r.id < next
    BY <1>1 DEF SessionsSound, Numbered
<1>6. \A r : HasColumns(r, SessionColumns) => HasColumns(Set(r), SessionColumns) /\ Set(r).id = r.id /\ Set(Set(r)) = Set(r)
    BY DEF HasColumns, SessionColumns
<1>7. DOMAIN d = Tables \cup {"nextId"}
    BY DEF Sound
<1> HIDE DEF s, S, old, hits, Set, row
<1>8. old = {} \/ (hits # {} /\ M!Min(hits) \in DOMAIN s /\ old = {s[M!Min(hits)]} /\ s[M!Min(hits)] \in S)
    BY <1>1, <1>2, TheOnlyRow
<1>9. {Set(r) : r \in old} = IF old = {} THEN {} ELSE {row}
    BY <1>8 DEF row
<1>10. old # {} => HasColumns(row, SessionColumns) /\ row.id = key /\ key \in Nat /\ key < next /\ Set(row) = row
    BY <1>5, <1>6, <1>8 DEF row, old
<1>11. After(x) = D!Replace(d, "sessions", old, IF old = {} THEN {} ELSE {row})
    BY <1>3, <1>9 DEF After, old, S
<1>12. old # {} => row \notin S \ old
    BY <1>10 DEF old
<1>13. Updates(d, m, "sessions", old, row, x, y)
    BY <1>2, <1>4, <1>11, <1>12 DEF Updates, After, S, s
<1> DEFINE e == After(x)
           n == After(y)
<1>14. "sessions" \in Tables
    BY DEF Tables
<1>15. /\ OneTable("sessions", d, m, e, n) /\ e.nextId = next
       /\ Enumerates(n["sessions"], e["sessions"])
       /\ \/ old = {} /\ e["sessions"] = S
          \/ old # {} /\ e["sessions"] = (S \ old) \cup {row}
  <2>1. Updated(d, m, "sessions", old, row, After(x), After(y))
    <3> HIDE DEF e, n
    <3> QED
      BY <1>13, <1>14, UpdateWrites
  <2> HIDE DEF e, n
  <2>2. Updated(d, m, "sessions", old, row, e, n)
    BY <2>1 DEF e, n
  <2> QED
    BY <2>2 DEF S, Updated
<1> HIDE DEF e, n
<1>16. SessionsSound(e["sessions"], next)
  <2>1. CASE old = {}
    BY <1>1, <1>15, <2>1
  <2>2. CASE old # {}
    <3> DEFINE T == (S \ old) \cup {row}
    <3>1. \A r \in T : r.id \in Nat /\ r.id < next /\ HasColumns(r, SessionColumns)
      BY <1>5, <1>10, <2>2
    <3>2. \A r \in S \ old : r.id # key
      BY DEF old
    <3>3. \A r, q \in T : r.id = q.id => r = q
      BY <1>1, <1>10, <2>2, <3>2 DEF SessionsSound, Numbered
    <3> QED
      BY <1>15, <2>2, <3>1, <3>3 DEF SessionsSound, Numbered
  <2> QED
    BY <2>1, <2>2
<1>17. TableSound("sessions", n["sessions"], e["sessions"], e.nextId, at)
    BY <1>15, <1>16 DEF TableSound
<1>18. Sound(e, n, at)
    BY <1>14, <1>15, <1>17, OneTableIsEnough
<1>19. Agree(x, y, at)
  <2>1. x.answers = {Null} /\ y.answer = Null
    BY DEF D!SessionsMarkCompiled, D!Gives, M!SessionsMarkCompiled, M!Gives
  <2> QED
    BY <1>18, <2>1 DEF Agree, e, n
<1>20. OfKey(e["sessions"]) = IF old = {} THEN {} ELSE {row}
    BY <1>10, <1>15 DEF old
<1>21. {Set(r) : r \in OfKey(e["sessions"])} = IF old = {} THEN {} ELSE {row}
    BY <1>10, <1>20
<1> HIDE DEF OfKey
<1>22. D!Replace(e, "sessions", OfKey(e["sessions"]), {Set(r) : r \in OfKey(e["sessions"])}) = e
  <2> DEFINE new == IF old = {} THEN {} ELSE {row}
  <2>1. e = D!Replace(d, "sessions", old, new) /\ "sessions" \in DOMAIN d
    BY <1>7, <1>11, <1>14 DEF e
  <2>2. (e["sessions"] \ new) \cup new = e["sessions"]
    BY <1>15
  <2> HIDE DEF new
  <2>3. D!Replace(e, "sessions", new, new) = e
    BY <2>1, <2>2, ReplaceSettles
  <2> QED
    BY <1>20, <1>21, <2>3 DEF new
<1>23. x = [db |-> e, answers |-> {Null}]
  <2> DEFINE R == D!Replace(d, "sessions", OfKey(d.sessions), {Set(r) : r \in OfKey(d.sessions)})
  <2>1. x = [db |-> R, answers |-> {Null}]
    BY <1>3
  <2> HIDE DEF R
  <2> QED
    BY <2>1 DEF e, After
<1> QED
    BY <1>3, <1>19, <1>22, <1>23 DEF e

\* markets.updateStatus().
LEMMA StatusAgrees ==
    ASSUME NEW d, NEW m, NEW at \in Nat, Sound(d, m, at), NEW h, NEW status,
           NEW x, x = D!MarketsUpdateStatus(d, h, status, at), NEW y, y = M!MarketsUpdateStatus(m, h, status, at)
    PROVE  Agree(x, y, at)
PROOF
<1> DEFINE s == m["markets"]
           S == d["markets"]
           next == d.nextId
           OfKey(T) == {r \in T : r.rulesHash = h}
           Set(r) == [r EXCEPT !.status = status, !.updatedAt = at]
           old == OfKey(S)
           hits == {i \in DOMAIN s : s[i].rulesHash = h}
           row == Set(s[M!Min(hits)])
           new == {Set(r) : r \in old}
<1>1. next \in Nat /\ Enumerates(s, S) /\ MarketsSound(S, at)
    BY DEF Sound, TableSound, Tables
<1>2. hits = IndexesOf(s, old) /\ old \in SUBSET S /\ \A r, q \in old : r = q
    BY <1>1, EnumerationIsWhole DEF IndexesOf, MarketsSound
<1>30. x = [db |-> D!Replace(d, "markets", OfKey(d["markets"]), {Set(r) : r \in OfKey(d["markets"])}), answers |-> D!TheRow({Set(r) : r \in OfKey(d["markets"])})]
    BY DEF D!MarketsUpdateStatus, D!MarketsUpdate, D!UpdateOne, D!MayGive, D!Gives
<1>31. x = [db |-> D!Replace(d, "markets", old, new), answers |-> D!TheRow(new)]
    BY <1>30
<1>4. y = [db |-> IF hits # {} THEN [m EXCEPT !["markets"] = M!ReplaceAt(@, M!Min(hits), row)] ELSE m,
            answer |-> IF hits # {} THEN row ELSE Null]
    BY DEF M!MarketsUpdateStatus, M!MarketsUpdate, M!Change, M!Put, M!Gives, M!Finds, M!Where, M!FirstOf
<1>5. \A r \in S : HasColumns(r, MarketColumns)
    BY <1>1 DEF MarketsSound
<1>6. \A r : HasColumns(r, MarketColumns) => HasColumns(Set(r), MarketColumns) /\ Set(r).rulesHash = r.rulesHash
                                              /\ Set(r).createdAt = r.createdAt
                                              /\ Set(r).chainMarketId = r.chainMarketId /\ Set(r).contractAddress = r.contractAddress
    BY DEF HasColumns, MarketColumns
<1>7. DOMAIN d = Tables \cup {"nextId"}
    BY DEF Sound
<1> HIDE DEF s, S, old, hits, Set, row, new
<1>8. (old = {} /\ hits = {}) \/ (hits # {} /\ M!Min(hits) \in DOMAIN s /\ old = {s[M!Min(hits)]} /\ s[M!Min(hits)] \in S)
    BY <1>1, <1>2, TheOnlyRow
<1>9. new = IF old = {} THEN {} ELSE {row}
    BY <1>8 DEF row, new
<1>10. old # {} => \E r \in old : /\ HasColumns(row, MarketColumns) /\ row.rulesHash = h /\ r.rulesHash = h
                                 /\ row.createdAt = r.createdAt
                                 /\ row.chainMarketId = r.chainMarketId /\ row.contractAddress = r.contractAddress
    BY <1>5, <1>6, <1>8 DEF row, old
<1>11. After(x) = D!Replace(d, "markets", old, IF old = {} THEN {} ELSE {row})
    BY <1>31, <1>9 DEF After
<1>12. old # {} => row \notin S \ old
    BY <1>10 DEF old
<1>13. Updates(d, m, "markets", old, row, x, y)
    BY <1>2, <1>4, <1>11, <1>12 DEF Updates, After, S, s
<1> DEFINE e == After(x)
           n == After(y)
<1>14. "markets" \in Tables
    BY DEF Tables
<1> HIDE DEF e, n
<1>15. /\ OneTable("markets", d, m, e, n) /\ e.nextId = next
       /\ Enumerates(n["markets"], e["markets"])
       /\ \/ old = {} /\ e["markets"] = S /\ n = m
          \/ /\ old # {} /\ e["markets"] = (S \ old) \cup {row}
             /\ \E i \in DOMAIN s : old = {s[i]} /\ n["markets"] = [s EXCEPT ![i] = row]
  <2>1. Updated(d, m, "markets", old, row, After(x), After(y))
    BY <1>13, <1>14, UpdateWrites
  <2>2. Updated(d, m, "markets", old, row, e, n)
    BY <2>1 DEF e, n
  <2> QED
    BY <2>2 DEF S, s, Updated
<1>16. MarketsSound(e["markets"], at)
  <2>1. CASE old = {}
    BY <1>1, <1>15, <2>1
  <2>2. CASE old # {}
    <3> DEFINE T == (S \ old) \cup {row}
    <3>1. PICK r \in old : /\ HasColumns(row, MarketColumns) /\ row.rulesHash = h /\ r.rulesHash = h
                           /\ row.createdAt = r.createdAt
                           /\ row.chainMarketId = r.chainMarketId /\ row.contractAddress = r.contractAddress
      BY <1>10, <2>2
    <3>2. r \in S
      BY <1>2
    <3>3. \A q \in S \ old : q.rulesHash # h
      BY DEF old
    <3>4. \A p, q \in T : p.rulesHash = q.rulesHash => p = q
      BY <1>1, <3>1, <3>3 DEF MarketsSound
    <3>5. MarketRow(row, at)
      BY <1>1, <3>1, <3>2 DEF MarketsSound, MarketRow
    <3>6. \A q \in T : MarketRow(q, at)
      BY <1>1, <3>5 DEF MarketsSound, MarketRow
    <3> QED
      BY <1>15, <2>2, <3>4, <3>6 DEF MarketsSound, MarketRow
  <2> QED
    BY <2>1, <2>2
<1>17. TableSound("markets", n["markets"], e["markets"], e.nextId, at)
    BY <1>15, <1>16 DEF TableSound
<1>18. Sound(e, n, at)
    BY <1>14, <1>15, <1>17, OneTableIsEnough
<1>19. Agree(x, y, at)
  <2>1. y.answer \in x.answers
    <3>1. x.answers = D!TheRow(IF old = {} THEN {} ELSE {row})
      BY <1>31, <1>9
    <3>2. y.answer = IF hits # {} THEN row ELSE Null
      BY <1>4
    <3> QED
      BY <1>8, <3>1, <3>2 DEF D!TheRow
  <2> QED
    BY <1>18, <2>1 DEF Agree, e, n
<1> QED
    BY <1>19

\* markets.setValidationPlan().
LEMMA PlanAgrees ==
    ASSUME NEW d, NEW m, NEW at \in Nat, Sound(d, m, at), NEW h, NEW plan,
           NEW x, x = D!MarketsSetValidationPlan(d, h, plan, at), NEW y, y = M!MarketsSetValidationPlan(m, h, plan, at)
    PROVE  Agree(x, y, at)
PROOF
<1> DEFINE s == m["markets"]
           S == d["markets"]
           next == d.nextId
           OfKey(T) == {r \in T : r.rulesHash = h}
           Set(r) == [r EXCEPT !.validationPlan = plan, !.updatedAt = at]
           old == OfKey(S)
           hits == {i \in DOMAIN s : s[i].rulesHash = h}
           row == Set(s[M!Min(hits)])
           new == {Set(r) : r \in old}
<1>1. next \in Nat /\ Enumerates(s, S) /\ MarketsSound(S, at)
    BY DEF Sound, TableSound, Tables
<1>2. hits = IndexesOf(s, old) /\ old \in SUBSET S /\ \A r, q \in old : r = q
    BY <1>1, EnumerationIsWhole DEF IndexesOf, MarketsSound
<1>30. x = [db |-> D!Replace(d, "markets", OfKey(d["markets"]), {Set(r) : r \in OfKey(d["markets"])}), answers |-> D!TheRow({Set(r) : r \in OfKey(d["markets"])})]
    BY DEF D!MarketsSetValidationPlan, D!MarketsUpdate, D!UpdateOne, D!MayGive, D!Gives
<1>31. x = [db |-> D!Replace(d, "markets", old, new), answers |-> D!TheRow(new)]
    BY <1>30
<1>4. y = [db |-> IF hits # {} THEN [m EXCEPT !["markets"] = M!ReplaceAt(@, M!Min(hits), row)] ELSE m,
            answer |-> IF hits # {} THEN row ELSE Null]
    BY DEF M!MarketsSetValidationPlan, M!MarketsUpdate, M!Change, M!Put, M!Gives, M!Finds, M!Where, M!FirstOf
<1>5. \A r \in S : HasColumns(r, MarketColumns)
    BY <1>1 DEF MarketsSound
<1>6. \A r : HasColumns(r, MarketColumns) => HasColumns(Set(r), MarketColumns) /\ Set(r).rulesHash = r.rulesHash
                                              /\ Set(r).createdAt = r.createdAt
                                              /\ Set(r).chainMarketId = r.chainMarketId /\ Set(r).contractAddress = r.contractAddress
    BY DEF HasColumns, MarketColumns
<1>7. DOMAIN d = Tables \cup {"nextId"}
    BY DEF Sound
<1> HIDE DEF s, S, old, hits, Set, row, new
<1>8. (old = {} /\ hits = {}) \/ (hits # {} /\ M!Min(hits) \in DOMAIN s /\ old = {s[M!Min(hits)]} /\ s[M!Min(hits)] \in S)
    BY <1>1, <1>2, TheOnlyRow
<1>9. new = IF old = {} THEN {} ELSE {row}
    BY <1>8 DEF row, new
<1>10. old # {} => \E r \in old : /\ HasColumns(row, MarketColumns) /\ row.rulesHash = h /\ r.rulesHash = h
                                 /\ row.createdAt = r.createdAt
                                 /\ row.chainMarketId = r.chainMarketId /\ row.contractAddress = r.contractAddress
    BY <1>5, <1>6, <1>8 DEF row, old
<1>11. After(x) = D!Replace(d, "markets", old, IF old = {} THEN {} ELSE {row})
    BY <1>31, <1>9 DEF After
<1>12. old # {} => row \notin S \ old
    BY <1>10 DEF old
<1>13. Updates(d, m, "markets", old, row, x, y)
    BY <1>2, <1>4, <1>11, <1>12 DEF Updates, After, S, s
<1> DEFINE e == After(x)
           n == After(y)
<1>14. "markets" \in Tables
    BY DEF Tables
<1> HIDE DEF e, n
<1>15. /\ OneTable("markets", d, m, e, n) /\ e.nextId = next
       /\ Enumerates(n["markets"], e["markets"])
       /\ \/ old = {} /\ e["markets"] = S /\ n = m
          \/ /\ old # {} /\ e["markets"] = (S \ old) \cup {row}
             /\ \E i \in DOMAIN s : old = {s[i]} /\ n["markets"] = [s EXCEPT ![i] = row]
  <2>1. Updated(d, m, "markets", old, row, After(x), After(y))
    BY <1>13, <1>14, UpdateWrites
  <2>2. Updated(d, m, "markets", old, row, e, n)
    BY <2>1 DEF e, n
  <2> QED
    BY <2>2 DEF S, s, Updated
<1>16. MarketsSound(e["markets"], at)
  <2>1. CASE old = {}
    BY <1>1, <1>15, <2>1
  <2>2. CASE old # {}
    <3> DEFINE T == (S \ old) \cup {row}
    <3>1. PICK r \in old : /\ HasColumns(row, MarketColumns) /\ row.rulesHash = h /\ r.rulesHash = h
                           /\ row.createdAt = r.createdAt
                           /\ row.chainMarketId = r.chainMarketId /\ row.contractAddress = r.contractAddress
      BY <1>10, <2>2
    <3>2. r \in S
      BY <1>2
    <3>3. \A q \in S \ old : q.rulesHash # h
      BY DEF old
    <3>4. \A p, q \in T : p.rulesHash = q.rulesHash => p = q
      BY <1>1, <3>1, <3>3 DEF MarketsSound
    <3>5. MarketRow(row, at)
      BY <1>1, <3>1, <3>2 DEF MarketsSound, MarketRow
    <3>6. \A q \in T : MarketRow(q, at)
      BY <1>1, <3>5 DEF MarketsSound, MarketRow
    <3> QED
      BY <1>15, <2>2, <3>4, <3>6 DEF MarketsSound, MarketRow
  <2> QED
    BY <2>1, <2>2
<1>17. TableSound("markets", n["markets"], e["markets"], e.nextId, at)
    BY <1>15, <1>16 DEF TableSound
<1>18. Sound(e, n, at)
    BY <1>14, <1>15, <1>17, OneTableIsEnough
<1>19. Agree(x, y, at)
  <2>1. y.answer \in x.answers
    <3>1. x.answers = D!TheRow(IF old = {} THEN {} ELSE {row})
      BY <1>31, <1>9
    <3>2. y.answer = IF hits # {} THEN row ELSE Null
      BY <1>4
    <3> QED
      BY <1>8, <3>1, <3>2 DEF D!TheRow
  <2> QED
    BY <1>18, <2>1 DEF Agree, e, n
<1> QED
    BY <1>19

\* markets.attachOnChainIdentity(), with the identity the registry gave.
LEMMA AttachAgrees ==
    ASSUME NEW d, NEW m, NEW at \in Nat, Sound(d, m, at), NEW h, NEW id, NEW a, Identifies(h, id, a),
           NEW x, x = D!MarketsAttach(d, h, id, a, at), NEW y, y = M!MarketsAttach(m, h, id, a, at)
    PROVE  Agree(x, y, at)
PROOF
<1> DEFINE s == m["markets"]
           S == d["markets"]
           next == d.nextId
           OfKey(T) == {r \in T : r.rulesHash = h}
           Set(r) == [r EXCEPT !.chainMarketId = id, !.contractAddress = Lower[a], !.updatedAt = at]
           old == OfKey(S)
           hits == {i \in DOMAIN s : s[i].rulesHash = h}
           row == Set(s[M!Min(hits)])
           new == {Set(r) : r \in old}
<1>1. next \in Nat /\ Enumerates(s, S) /\ MarketsSound(S, at)
    BY DEF Sound, TableSound, Tables
<1>2. hits = IndexesOf(s, old) /\ old \in SUBSET S /\ \A r, q \in old : r = q
    BY <1>1, EnumerationIsWhole DEF IndexesOf, MarketsSound
<1>30. x = [db |-> D!Replace(d, "markets", OfKey(d["markets"]), {Set(r) : r \in OfKey(d["markets"])}), answers |-> D!TheRow({Set(r) : r \in OfKey(d["markets"])})]
  <2>1. ~\E r \in S : r.chainMarketId = id /\ r.rulesHash # h
    <3> SUFFICES ASSUME NEW r \in S, r.chainMarketId = id, r.rulesHash # h PROVE FALSE
      OBVIOUS
    <3>1. h \in Hashes /\ id = MarketIdOf[h] /\ MarketIdOf[h] # Null
      BY StoresAssumption DEF Identifies, StoresAssumption
    <3>2. r.rulesHash \in Hashes /\ MarketIdOf[r.rulesHash] = MarketIdOf[h]
      BY <1>1, <3>1 DEF MarketsSound
    <3> DEFINE g == r.rulesHash
    <3>3. g \in Hashes /\ MarketIdOf[g] = MarketIdOf[h]
      BY <3>2
    <3> HIDE DEF g
    <3>4. g = h
      BY <3>1, <3>3, StoresAssumption DEF StoresAssumption
    <3> QED
      BY <3>4 DEF g
  <2> QED
    BY <2>1 DEF D!MarketsAttach, D!MarketsUpdate, D!UpdateOne, D!MayGive, D!Gives
<1>31. x = [db |-> D!Replace(d, "markets", old, new), answers |-> D!TheRow(new)]
    BY <1>30
<1>4. y = [db |-> IF hits # {} THEN [m EXCEPT !["markets"] = M!ReplaceAt(@, M!Min(hits), row)] ELSE m,
            answer |-> IF hits # {} THEN row ELSE Null]
    BY DEF M!MarketsAttach, M!MarketsUpdate, M!Change, M!Put, M!Gives, M!Finds, M!Where, M!FirstOf
<1>5. \A r \in S : HasColumns(r, MarketColumns)
    BY <1>1 DEF MarketsSound
<1>6. \A r : HasColumns(r, MarketColumns) => HasColumns(Set(r), MarketColumns) /\ Set(r).rulesHash = r.rulesHash
                                              /\ Set(r).createdAt = r.createdAt
                                              /\ Set(r).chainMarketId = MarketIdOf[h] /\ Set(r).contractAddress = Lower[a]
    BY DEF HasColumns, MarketColumns, Identifies
<1>7. DOMAIN d = Tables \cup {"nextId"}
    BY DEF Sound
<1> HIDE DEF s, S, old, hits, Set, row, new
<1>8. (old = {} /\ hits = {}) \/ (hits # {} /\ M!Min(hits) \in DOMAIN s /\ old = {s[M!Min(hits)]} /\ s[M!Min(hits)] \in S)
    BY <1>1, <1>2, TheOnlyRow
<1>9. new = IF old = {} THEN {} ELSE {row}
    BY <1>8 DEF row, new
<1>10. old # {} => \E r \in old : /\ HasColumns(row, MarketColumns) /\ row.rulesHash = h /\ r.rulesHash = h
                                 /\ row.createdAt = r.createdAt
                                 /\ row.chainMarketId = MarketIdOf[h] /\ row.contractAddress = Lower[a]
    BY <1>5, <1>6, <1>8 DEF row, old
<1>11. After(x) = D!Replace(d, "markets", old, IF old = {} THEN {} ELSE {row})
    BY <1>31, <1>9 DEF After
<1>12. old # {} => row \notin S \ old
    BY <1>10 DEF old
<1>13. Updates(d, m, "markets", old, row, x, y)
    BY <1>2, <1>4, <1>11, <1>12 DEF Updates, After, S, s
<1> DEFINE e == After(x)
           n == After(y)
<1>14. "markets" \in Tables
    BY DEF Tables
<1> HIDE DEF e, n
<1>15. /\ OneTable("markets", d, m, e, n) /\ e.nextId = next
       /\ Enumerates(n["markets"], e["markets"])
       /\ \/ old = {} /\ e["markets"] = S /\ n = m
          \/ /\ old # {} /\ e["markets"] = (S \ old) \cup {row}
             /\ \E i \in DOMAIN s : old = {s[i]} /\ n["markets"] = [s EXCEPT ![i] = row]
  <2>1. Updated(d, m, "markets", old, row, After(x), After(y))
    BY <1>13, <1>14, UpdateWrites
  <2>2. Updated(d, m, "markets", old, row, e, n)
    BY <2>1 DEF e, n
  <2> QED
    BY <2>2 DEF S, s, Updated
<1>16. MarketsSound(e["markets"], at)
  <2>1. CASE old = {}
    BY <1>1, <1>15, <2>1
  <2>2. CASE old # {}
    <3> DEFINE T == (S \ old) \cup {row}
    <3>1. PICK r \in old : /\ HasColumns(row, MarketColumns) /\ row.rulesHash = h /\ r.rulesHash = h
                           /\ row.createdAt = r.createdAt
                           /\ row.chainMarketId = MarketIdOf[h] /\ row.contractAddress = Lower[a]
      BY <1>10, <2>2
    <3>2. r \in S
      BY <1>2
    <3>3. \A q \in S \ old : q.rulesHash # h
      BY DEF old
    <3>4. \A p, q \in T : p.rulesHash = q.rulesHash => p = q
      BY <1>1, <3>1, <3>3 DEF MarketsSound
    <3>5. MarketRow(row, at)
      BY <1>1, <3>1, <3>2 DEF MarketsSound, MarketRow, Identifies
    <3>6. \A q \in T : MarketRow(q, at)
      BY <1>1, <3>5 DEF MarketsSound, MarketRow
    <3> QED
      BY <1>15, <2>2, <3>4, <3>6 DEF MarketsSound, MarketRow
  <2> QED
    BY <2>1, <2>2
<1>17. TableSound("markets", n["markets"], e["markets"], e.nextId, at)
    BY <1>15, <1>16 DEF TableSound
<1>18. Sound(e, n, at)
    BY <1>14, <1>15, <1>17, OneTableIsEnough
<1>19. Agree(x, y, at)
  <2>1. y.answer \in x.answers
    <3>1. x.answers = D!TheRow(IF old = {} THEN {} ELSE {row})
      BY <1>31, <1>9
    <3>2. y.answer = IF hits # {} THEN row ELSE Null
      BY <1>4
    <3> QED
      BY <1>8, <3>1, <3>2 DEF D!TheRow
  <2> QED
    BY <1>18, <2>1 DEF Agree, e, n
<1> QED
    BY <1>19

\* resolutions.markSubmission(): columns that are not given keep their value.
LEMMA SubmissionAgrees ==
    ASSUME NEW d, NEW m, NEW at \in Nat, Sound(d, m, at), NEW key, NEW state, NEW tx, NEW stamp,
           NEW x, x = D!ResolutionsMarkSubmission(d, key, state, tx, stamp), NEW y, y = M!ResolutionsMarkSubmission(m, key, state, tx, stamp)
    PROVE  Agree(x, y, at) /\ D!ResolutionsMarkSubmission(After(x), key, state, tx, stamp) = x /\ Len(ResolutionsIn(After(y))) = Len(ResolutionsIn(m))
PROOF
<1> DEFINE s == m["resolutions"]
           S == d["resolutions"]
           next == d.nextId
           OfKey(T) == {r \in T : r.id = key}
           Set(r) == [r EXCEPT !.submissionState = state, !.proposalTxHash = D!Given(tx, @), !.proposedAt = D!Given(stamp, @)]
           old == OfKey(S)
           hits == {i \in DOMAIN s : s[i].id = key}
           row == Set(s[M!Min(hits)])
           new == {Set(r) : r \in old}
<1>1. next \in Nat /\ Enumerates(s, S) /\ ResolutionsSound(s, S, next, at)
    BY DEF Sound, TableSound, Tables
<1>2. hits = IndexesOf(s, old) /\ old \in SUBSET S /\ \A r, q \in old : r = q
    BY <1>1, EnumerationIsWhole DEF IndexesOf, ResolutionsSound, Numbered
<1>3. \A g : D!ResolutionsMarkSubmission(g, key, state, tx, stamp)
               = [db |-> D!Replace(g, "resolutions", OfKey(g["resolutions"]), {Set(r) : r \in OfKey(g["resolutions"])}), answers |-> D!TheRow({Set(r) : r \in OfKey(g["resolutions"])})]
    BY DEF D!ResolutionsMarkSubmission, D!Given, D!UpdateOne, D!MayGive, D!Gives
<1>30. x = [db |-> D!Replace(d, "resolutions", OfKey(d["resolutions"]), {Set(r) : r \in OfKey(d["resolutions"])}), answers |-> D!TheRow({Set(r) : r \in OfKey(d["resolutions"])})]
    BY <1>3
<1>31. x = [db |-> D!Replace(d, "resolutions", old, new), answers |-> D!TheRow(new)]
  <2> HIDE DEF Set
  <2> QED
    BY <1>30
<1>4. y = [db |-> IF hits # {} THEN [m EXCEPT !["resolutions"] = M!ReplaceAt(@, M!Min(hits), row)] ELSE m,
            answer |-> IF hits # {} THEN row ELSE Null]
    BY DEF M!ResolutionsMarkSubmission, M!Given, D!Given, M!Change, M!Put, M!Gives, M!Finds, M!Where, M!FirstOf
<1>5. \A r \in S : HasColumns(r, ResolutionColumns)
    BY <1>1 DEF ResolutionsSound
<1>6. \A r : HasColumns(r, ResolutionColumns) => /\ HasColumns(Set(r), ResolutionColumns) /\ Set(Set(r)) = Set(r)
                                                 /\ Set(r).id = r.id /\ Set(r).round = r.round /\ Set(r).createdAt = r.createdAt
  <2> DEFINE Column(r, c) == CASE c = "submissionState" -> state
                               [] c = "proposalTxHash" -> D!Given(tx, r[c])
                               [] c = "proposedAt" -> D!Given(stamp, r[c])
                               [] OTHER -> r[c]
             Row(r) == [c \in ResolutionColumns |-> Column(r, c)]
  <2>1. ASSUME NEW r, HasColumns(r, ResolutionColumns) PROVE Set(r) = Row(r)
    <3>1. r = [c \in ResolutionColumns |-> r[c]]
      BY <2>1 DEF HasColumns
    <3>2. DOMAIN Set(r) = ResolutionColumns /\ Set(r) = [c \in ResolutionColumns |-> Set(r)[c]]
      BY <3>1
    <3>3. \A c \in ResolutionColumns : Set(r)[c] = Column(r, c)
      BY <3>1 DEF ResolutionColumns
    <3> QED
      BY <3>2, <3>3
  <2> HIDE DEF Set
  <2>2. \A r : DOMAIN Row(r) = ResolutionColumns /\ \A c \in ResolutionColumns : Row(r)[c] = Column(r, c)
    OBVIOUS
  <2>3. \A r : HasColumns(Row(r), ResolutionColumns)
    BY <2>2 DEF HasColumns
  <2>4. ASSUME NEW r PROVE Row(Row(r)) = Row(r)
    <3>1. \A c \in ResolutionColumns : Column(Row(r), c) = Column(r, c)
      BY DEF D!Given
    <3> QED
      BY <3>1
  <2>5. \A r : Row(r).id = r.id /\ Row(r).round = r.round /\ Row(r).createdAt = r.createdAt
    BY <2>2 DEF ResolutionColumns
  <2> HIDE DEF Row
  <2> QED
    BY <2>1, <2>3, <2>4, <2>5
<1>7. DOMAIN d = Tables \cup {"nextId"}
    BY DEF Sound
<1> HIDE DEF s, S, old, hits, Set, row, new
<1>8. (old = {} /\ hits = {}) \/ (hits # {} /\ M!Min(hits) \in DOMAIN s /\ old = {s[M!Min(hits)]} /\ s[M!Min(hits)] \in S)
    BY <1>1, <1>2, TheOnlyRow
<1>9. new = IF old = {} THEN {} ELSE {row}
    BY <1>8 DEF row, new
<1>10. old # {} => \E r \in old : /\ HasColumns(row, ResolutionColumns) /\ Set(row) = row
                                 /\ row.id = key /\ r.id = key /\ row.round = r.round /\ row.createdAt = r.createdAt
    BY <1>5, <1>6, <1>8 DEF row, old
<1>11. After(x) = D!Replace(d, "resolutions", old, IF old = {} THEN {} ELSE {row})
    BY <1>31, <1>9 DEF After
<1>12. old # {} => row \notin S \ old
    BY <1>10 DEF old
<1>13. Updates(d, m, "resolutions", old, row, x, y)
    BY <1>2, <1>4, <1>11, <1>12 DEF Updates, After, S, s
<1> DEFINE e == After(x)
           n == After(y)
<1>14. "resolutions" \in Tables
    BY DEF Tables
<1> HIDE DEF e, n
<1>15. /\ OneTable("resolutions", d, m, e, n) /\ e.nextId = next
       /\ Enumerates(n["resolutions"], e["resolutions"])
       /\ \/ old = {} /\ e["resolutions"] = S /\ n = m
          \/ /\ old # {} /\ e["resolutions"] = (S \ old) \cup {row}
             /\ \E i \in DOMAIN s : old = {s[i]} /\ n["resolutions"] = [s EXCEPT ![i] = row]
  <2>1. Updated(d, m, "resolutions", old, row, After(x), After(y))
    BY <1>13, <1>14, UpdateWrites
  <2>2. Updated(d, m, "resolutions", old, row, e, n)
    BY <2>1 DEF e, n
  <2> QED
    BY <2>2 DEF S, s, Updated
<1>16. ResolutionsSound(n["resolutions"], e["resolutions"], next, at) /\ Len(n["resolutions"]) = Len(s)
  <2>1. CASE old = {}
    BY <1>1, <1>15, <2>1 DEF s
  <2>2. CASE old # {}
    <3> DEFINE T == (S \ old) \cup {row}
               u == n["resolutions"]
    <3>1. PICK i \in DOMAIN s : old = {s[i]} /\ u = [s EXCEPT ![i] = row]
      BY <1>15, <2>2
    <3>2. /\ HasColumns(row, ResolutionColumns)
          /\ row.id = key /\ s[i].id = key /\ row.round = s[i].round /\ row.createdAt = s[i].createdAt
      BY <1>10, <2>2, <3>1
    <3>3. DOMAIN s = 1 .. Len(s) /\ Len(s) \in Nat /\ s[i] \in S
      BY <1>1, EnumerationIsWhole
    <3>4. DOMAIN u = DOMAIN s /\ \A j \in DOMAIN s : u[j].round = s[j].round /\ u[j].createdAt = s[j].createdAt
      BY <3>1, <3>2
    <3>5. Enumerates(u, e["resolutions"]) /\ e["resolutions"] = T
      BY <1>15, <2>2
    <3> HIDE DEF u
    <3>6. Len(u) = Len(s)
      <4>1. Len(u) \in Nat /\ DOMAIN u = 1 .. Len(u)
        BY <3>5, EnumerationIsWhole
      <4> QED
        BY <3>3, <3>4, <4>1
    <3>7. Dated(u, at) /\ \A j, k \in DOMAIN u : j < k => u[j].round <= u[k].round
      BY <1>1, <3>4 DEF ResolutionsSound, Dated
    <3>8. row.id \in Nat /\ row.id < next /\ row.round \in Nat
      BY <1>1, <3>2, <3>3 DEF ResolutionsSound, Numbered
    <3>9. \A r \in S \ old : r.id # key
      BY DEF old
    <3>10. Numbered(T, next)
      BY <1>1, <3>2, <3>8, <3>9 DEF ResolutionsSound, Numbered
    <3>11. \A r \in T : HasColumns(r, ResolutionColumns) /\ r.round \in Nat
      BY <1>1, <3>2, <3>8 DEF ResolutionsSound
    <3>12. Len(u) < next
      BY <1>1, <3>6 DEF ResolutionsSound
    <3> QED
      BY <3>5, <3>6, <3>7, <3>10, <3>11, <3>12 DEF ResolutionsSound, u
  <2> QED
    BY <2>1, <2>2
<1>17. TableSound("resolutions", n["resolutions"], e["resolutions"], e.nextId, at)
    BY <1>15, <1>16 DEF TableSound
<1>18. Sound(e, n, at)
    BY <1>14, <1>15, <1>17, OneTableIsEnough
<1>19. Agree(x, y, at)
  <2>1. y.answer \in x.answers
    <3>1. x.answers = D!TheRow(IF old = {} THEN {} ELSE {row})
      BY <1>31, <1>9
    <3>2. y.answer = IF hits # {} THEN row ELSE Null
      BY <1>4
    <3> QED
      BY <1>8, <3>1, <3>2 DEF D!TheRow
  <2> QED
    BY <1>18, <2>1 DEF Agree, e, n
<1>20. OfKey(e["resolutions"]) = IF old = {} THEN {} ELSE {row}
    BY <1>10, <1>15 DEF old
<1>21. {Set(r) : r \in OfKey(e["resolutions"])} = IF old = {} THEN {} ELSE {row}
    BY <1>10, <1>20
<1> HIDE DEF OfKey
<1>22. D!Replace(e, "resolutions", OfKey(e["resolutions"]), {Set(r) : r \in OfKey(e["resolutions"])}) = e
  <2>1. e = D!Replace(d, "resolutions", old, new) /\ "resolutions" \in DOMAIN d
    BY <1>7, <1>31, <1>14 DEF e, After
  <2>2. (e["resolutions"] \ new) \cup new = e["resolutions"]
    BY <1>9, <1>15
  <2>3. D!Replace(e, "resolutions", new, new) = e
    BY <2>1, <2>2, ReplaceSettles
  <2> QED
    BY <1>9, <1>20, <1>21, <2>3
<1>23. x = [db |-> e, answers |-> D!TheRow({Set(r) : r \in OfKey(e["resolutions"])})]
  <2>1. x = [db |-> e, answers |-> D!TheRow(new)]
    BY <1>31 DEF e, After
  <2> QED
    BY <1>9, <1>21, <2>1
<1> QED
    BY <1>3, <1>16, <1>19, <1>22, <1>23 DEF e, n, s, ResolutionsIn

\* checkpoints.save().
LEMMA CheckpointAgrees ==
    ASSUME NEW d, NEW m, NEW at \in Nat, Sound(d, m, at), NEW block, NEW hash,
           NEW x, x = D!CheckpointsSave(d, block, hash, at), NEW y, y = M!CheckpointsSave(m, block, hash, at)
    PROVE  Agree(x, y, at) /\ D!CheckpointsSave(After(x), block, hash, at) = x
PROOF
<1> DEFINE s == m["checkpoints"]
           S == d["checkpoints"]
           next == d.nextId
           OfKey(T) == {r \in T : TRUE}
           Set(r) == [r EXCEPT !.lastProcessedBlock = block, !.lastProcessedBlockHash = hash, !.updatedAt = at]
           old == OfKey(S)
           hits == {i \in DOMAIN s : TRUE}
           row == Set(s[M!Min(hits)])
           new == {Set(r) : r \in old}
<1>1. next \in Nat /\ Enumerates(s, S) /\ CheckpointsSound(S)
    BY DEF Sound, TableSound, Tables
<1>2. hits = IndexesOf(s, old) /\ old \in SUBSET S /\ \A r, q \in old : r = q
    BY <1>1, EnumerationIsWhole DEF IndexesOf, CheckpointsSound
<1>3. \A g : D!CheckpointsSave(g, block, hash, at)
               = [db |-> D!Replace(g, "checkpoints", OfKey(g["checkpoints"]), {Set(r) : r \in OfKey(g["checkpoints"])}), answers |-> {Null}]
    BY DEF D!CheckpointsSave, D!UpdateOne, D!MayGive, D!Gives
<1>30. x = [db |-> D!Replace(d, "checkpoints", OfKey(d["checkpoints"]), {Set(r) : r \in OfKey(d["checkpoints"])}), answers |-> {Null}]
    BY <1>3
<1>31. x = [db |-> D!Replace(d, "checkpoints", old, new), answers |-> {Null}]
    BY <1>30
<1>4. y = [db |-> IF hits # {} THEN [m EXCEPT !["checkpoints"] = M!ReplaceAt(@, M!Min(hits), row)] ELSE m,
            answer |-> Null]
    BY DEF M!CheckpointsSave, M!Change, M!Put, M!Gives, M!Finds, M!Where, M!FirstOf
<1>5. \A r \in S : HasColumns(r, CheckpointColumns)
    BY <1>1 DEF CheckpointsSound
<1>6. \A r : HasColumns(r, CheckpointColumns) => HasColumns(Set(r), CheckpointColumns) /\ Set(Set(r)) = Set(r)
    BY DEF HasColumns, CheckpointColumns
<1>7. DOMAIN d = Tables \cup {"nextId"}
    BY DEF Sound
<1> HIDE DEF s, S, old, hits, Set, row, new
<1>8. (old = {} /\ hits = {}) \/ (hits # {} /\ M!Min(hits) \in DOMAIN s /\ old = {s[M!Min(hits)]} /\ s[M!Min(hits)] \in S)
    BY <1>1, <1>2, TheOnlyRow
<1>9. new = IF old = {} THEN {} ELSE {row}
    BY <1>8 DEF row, new
<1>10. old # {} => HasColumns(row, CheckpointColumns) /\ Set(row) = row
    BY <1>5, <1>6, <1>8 DEF row, old
<1>11. After(x) = D!Replace(d, "checkpoints", old, IF old = {} THEN {} ELSE {row})
    BY <1>31, <1>9 DEF After
<1>12. old # {} => row \notin S \ old
    BY <1>10 DEF old
<1>13. Updates(d, m, "checkpoints", old, row, x, y)
    BY <1>2, <1>4, <1>11, <1>12 DEF Updates, After, S, s
<1> DEFINE e == After(x)
           n == After(y)
<1>14. "checkpoints" \in Tables
    BY DEF Tables
<1> HIDE DEF e, n
<1>15. /\ OneTable("checkpoints", d, m, e, n) /\ e.nextId = next
       /\ Enumerates(n["checkpoints"], e["checkpoints"])
       /\ \/ old = {} /\ e["checkpoints"] = S /\ n = m
          \/ /\ old # {} /\ e["checkpoints"] = (S \ old) \cup {row}
             /\ \E i \in DOMAIN s : old = {s[i]} /\ n["checkpoints"] = [s EXCEPT ![i] = row]
  <2>1. Updated(d, m, "checkpoints", old, row, After(x), After(y))
    BY <1>13, <1>14, UpdateWrites
  <2>2. Updated(d, m, "checkpoints", old, row, e, n)
    BY <2>1 DEF e, n
  <2> QED
    BY <2>2 DEF S, s, Updated
<1>16. CheckpointsSound(e["checkpoints"])
  <2>1. CASE old = {}
    BY <1>1, <1>15, <2>1
  <2>2. CASE old # {}
    <3>1. S \ old = {}
      BY DEF old
    <3>2. e["checkpoints"] = {row}
      BY <1>15, <2>2, <3>1
    <3> QED
      BY <1>10, <2>2, <3>2 DEF CheckpointsSound
  <2> QED
    BY <2>1, <2>2
<1>17. TableSound("checkpoints", n["checkpoints"], e["checkpoints"], e.nextId, at)
    BY <1>15, <1>16 DEF TableSound
<1>18. Sound(e, n, at)
    BY <1>14, <1>15, <1>17, OneTableIsEnough
<1>19. Agree(x, y, at)
  <2>1. y.answer \in x.answers
    BY DEF D!CheckpointsSave, D!Gives, M!CheckpointsSave, M!Gives
  <2> QED
    BY <1>18, <2>1 DEF Agree, e, n
<1>20. OfKey(e["checkpoints"]) = IF old = {} THEN {} ELSE {row}
    BY <1>10, <1>15 DEF old
<1>21. {Set(r) : r \in OfKey(e["checkpoints"])} = IF old = {} THEN {} ELSE {row}
    BY <1>10, <1>20
<1> HIDE DEF OfKey
<1>22. D!Replace(e, "checkpoints", OfKey(e["checkpoints"]), {Set(r) : r \in OfKey(e["checkpoints"])}) = e
  <2>1. e = D!Replace(d, "checkpoints", old, new) /\ "checkpoints" \in DOMAIN d
    BY <1>7, <1>31, <1>14 DEF e, After
  <2>2. (e["checkpoints"] \ new) \cup new = e["checkpoints"]
    BY <1>9, <1>15
  <2>3. D!Replace(e, "checkpoints", new, new) = e
    BY <2>1, <2>2, ReplaceSettles
  <2> QED
    BY <1>9, <1>20, <1>21, <2>3
<1>23. x = [db |-> e, answers |-> {Null}]
  <2>1. x = [db |-> e, answers |-> {Null}]
    BY <1>31 DEF e, After
  <2> QED
    BY <1>9, <1>21, <2>1
<1> QED
    BY <1>3, <1>19, <1>22, <1>23 DEF e

\* authSessions.revoke(): a revoked session keeps its first date.
LEMMA AuthRevokeAgrees ==
    ASSUME NEW d, NEW m, NEW at \in Nat, Sound(d, m, at), NEW key,
           NEW x, x = D!AuthSessionsRevoke(d, key, at), NEW y, y = M!AuthSessionsRevoke(m, key, at)
    PROVE  Agree(x, y, at) /\ D!AuthSessionsRevoke(After(x), key, at) = x
PROOF
<1> DEFINE s == m["authSessions"]
           S == d["authSessions"]
           next == d.nextId
           OfKey(T) == {r \in T : r.id = key}
           Set(r) == [r EXCEPT !.revokedAt = at]
           old == OfKey(S)
           hits == {i \in DOMAIN s : s[i].id = key}
           row == Set(s[M!Min(hits)])
           new == {Set(r) : r \in old}
<1>1. next \in Nat /\ Enumerates(s, S) /\ AuthSessionsSound(S, next)
    BY DEF Sound, TableSound, Tables
<1>2. hits = IndexesOf(s, old) /\ old \in SUBSET S /\ \A r, q \in old : r = q
    BY <1>1, EnumerationIsWhole DEF IndexesOf, AuthSessionsSound, Numbered
<1>3. \A g : D!AuthSessionsRevoke(g, key, at)
               = [db |-> D!Replace(g, "authSessions", OfKey(g["authSessions"]), {Set(r) : r \in OfKey(g["authSessions"])}), answers |-> {Null}]
    BY DEF D!AuthSessionsRevoke, D!UpdateOne, D!MayGive, D!Gives
<1>30. x = [db |-> D!Replace(d, "authSessions", OfKey(d["authSessions"]), {Set(r) : r \in OfKey(d["authSessions"])}), answers |-> {Null}]
    BY <1>3
<1>31. x = [db |-> D!Replace(d, "authSessions", old, new), answers |-> {Null}]
    BY <1>30
<1>4. y = [db |-> IF hits # {} THEN [m EXCEPT !["authSessions"] = M!ReplaceAt(@, M!Min(hits), row)] ELSE m,
            answer |-> Null]
    BY DEF M!AuthSessionsRevoke, M!Change, M!Put, M!Gives, M!Finds, M!Where, M!FirstOf
<1>5. \A r \in S : HasColumns(r, AuthSessionColumns) /\ r.id \in Nat /\ r.id < next
    BY <1>1 DEF AuthSessionsSound, Numbered
<1>6. \A r : HasColumns(r, AuthSessionColumns) => HasColumns(Set(r), AuthSessionColumns) /\ Set(r).id = r.id /\ Set(Set(r)) = Set(r)
    BY DEF HasColumns, AuthSessionColumns
<1>7. DOMAIN d = Tables \cup {"nextId"}
    BY DEF Sound
<1> HIDE DEF s, S, old, hits, Set, row, new
<1>8. (old = {} /\ hits = {}) \/ (hits # {} /\ M!Min(hits) \in DOMAIN s /\ old = {s[M!Min(hits)]} /\ s[M!Min(hits)] \in S)
    BY <1>1, <1>2, TheOnlyRow
<1>9. new = IF old = {} THEN {} ELSE {row}
    BY <1>8 DEF row, new
<1>10. old # {} => HasColumns(row, AuthSessionColumns) /\ row.id = key /\ key \in Nat /\ key < next /\ Set(row) = row
    BY <1>5, <1>6, <1>8 DEF row, old
<1>11. After(x) = D!Replace(d, "authSessions", old, IF old = {} THEN {} ELSE {row})
    BY <1>31, <1>9 DEF After
<1>12. old # {} => row \notin S \ old
    BY <1>10 DEF old
<1>13. Updates(d, m, "authSessions", old, row, x, y)
    BY <1>2, <1>4, <1>11, <1>12 DEF Updates, After, S, s
<1> DEFINE e == After(x)
           n == After(y)
<1>14. "authSessions" \in Tables
    BY DEF Tables
<1> HIDE DEF e, n
<1>15. /\ OneTable("authSessions", d, m, e, n) /\ e.nextId = next
       /\ Enumerates(n["authSessions"], e["authSessions"])
       /\ \/ old = {} /\ e["authSessions"] = S /\ n = m
          \/ /\ old # {} /\ e["authSessions"] = (S \ old) \cup {row}
             /\ \E i \in DOMAIN s : old = {s[i]} /\ n["authSessions"] = [s EXCEPT ![i] = row]
  <2>1. Updated(d, m, "authSessions", old, row, After(x), After(y))
    BY <1>13, <1>14, UpdateWrites
  <2>2. Updated(d, m, "authSessions", old, row, e, n)
    BY <2>1 DEF e, n
  <2> QED
    BY <2>2 DEF S, s, Updated
<1>16. AuthSessionsSound(e["authSessions"], next)
  <2>1. CASE old = {}
    BY <1>1, <1>15, <2>1
  <2>2. CASE old # {}
    <3> DEFINE T == (S \ old) \cup {row}
    <3>1. \A r \in T : r.id \in Nat /\ r.id < next /\ HasColumns(r, AuthSessionColumns)
      BY <1>5, <1>10, <2>2
    <3>2. \A r \in S \ old : r.id # key
      BY DEF old
    <3>3. \A r, q \in T : r.id = q.id => r = q
      BY <1>1, <1>10, <2>2, <3>2 DEF AuthSessionsSound, Numbered
    <3> QED
      BY <1>15, <2>2, <3>1, <3>3 DEF AuthSessionsSound, Numbered
  <2> QED
    BY <2>1, <2>2
<1>17. TableSound("authSessions", n["authSessions"], e["authSessions"], e.nextId, at)
    BY <1>15, <1>16 DEF TableSound
<1>18. Sound(e, n, at)
    BY <1>14, <1>15, <1>17, OneTableIsEnough
<1>19. Agree(x, y, at)
  <2>1. y.answer \in x.answers
    BY DEF D!AuthSessionsRevoke, D!Gives, M!AuthSessionsRevoke, M!Gives
  <2> QED
    BY <1>18, <2>1 DEF Agree, e, n
<1>20. OfKey(e["authSessions"]) = IF old = {} THEN {} ELSE {row}
    BY <1>10, <1>15 DEF old
<1>21. {Set(r) : r \in OfKey(e["authSessions"])} = IF old = {} THEN {} ELSE {row}
    BY <1>10, <1>20
<1> HIDE DEF OfKey
<1>22. D!Replace(e, "authSessions", OfKey(e["authSessions"]), {Set(r) : r \in OfKey(e["authSessions"])}) = e
  <2>1. e = D!Replace(d, "authSessions", old, new) /\ "authSessions" \in DOMAIN d
    BY <1>7, <1>31, <1>14 DEF e, After
  <2>2. (e["authSessions"] \ new) \cup new = e["authSessions"]
    BY <1>9, <1>15
  <2>3. D!Replace(e, "authSessions", new, new) = e
    BY <2>1, <2>2, ReplaceSettles
  <2> QED
    BY <1>9, <1>20, <1>21, <2>3
<1>23. x = [db |-> e, answers |-> {Null}]
  <2>1. x = [db |-> e, answers |-> {Null}]
    BY <1>31 DEF e, After
  <2> QED
    BY <1>9, <1>21, <2>1
<1> QED
    BY <1>3, <1>19, <1>22, <1>23 DEF e

\* markets.register(): a registered market is returned as it is.
LEMMA RegisterAgrees ==
    ASSUME NEW d, NEW m, NEW at \in Nat, Sound(d, m, at), NEW h, NEW w,
           NEW x, x = D!MarketsRegister(d, h, w, at), NEW y, y = M!MarketsRegister(m, h, w, at)
    PROVE  Agree(x, y, at)
PROOF
<1> DEFINE s == m.markets
           S == d.markets
           rows == {r \in S : r.rulesHash = h}
           hits == {i \in DOMAIN s : s[i].rulesHash = h}
           row == [rulesHash |-> h, creator |-> w, chainMarketId |-> Null, contractAddress |-> Null,
                   validationPlan |-> Null, status |-> "PENDING_ONCHAIN", createdAt |-> at, updatedAt |-> at]
<1>1. Enumerates(s, S) /\ MarketsSound(S, at)
    BY DEF Sound, TableSound, Tables
<1>2. hits = IndexesOf(s, rows)
    BY <1>1, EnumerationIsWhole DEF IndexesOf
<1>3. x = IF rows = {} THEN D!Insert(d, "markets", row) ELSE [db |-> d, answers |-> D!TheRow(rows)]
    BY DEF D!MarketsRegister, D!MarketsFindByRulesHash, D!MayGive
<1>4. y = IF hits # {} THEN [db |-> m, answer |-> s[M!Min(hits)]] ELSE M!Push(m, "markets", row)
    BY DEF M!MarketsRegister, M!MarketsFindByRulesHash, M!Finds, M!Where, M!FirstOf, M!Gives
<1>5. rows \in SUBSET S
    OBVIOUS
<1>8. row.rulesHash = h /\ MarketRow(row, at)
    BY DEF MarketRow, HasColumns, MarketColumns
<1> HIDE DEF s, S, rows, hits, row
<1>10. CASE rows # {}
  <2>1. hits # {} /\ FirstAt(s, hits) \in D!TheRow(rows)
    BY <1>1, <1>2, <1>5, <1>10, Found, FoundIsTheRow
  <2>2. y.answer \in x.answers /\ After(x) = d /\ After(y) = m
    BY <1>3, <1>4, <1>10, <2>1 DEF After, FirstAt
  <2> QED
    BY <2>2 DEF Agree
<1>11. CASE rows = {}
  <2>1. hits = {}
    BY <1>1, <1>2, <1>5, <1>11, Found
  <2>2. Inserts(d, m, "markets", row, d.nextId, x, y) /\ "markets" \in Tables
    BY <1>3, <1>4, <1>11, <2>1 DEF Inserts, Tables
  <2>3. row \notin S /\ \A r \in S : r.rulesHash # h
    BY <1>8, <1>11 DEF rows
  <2>4. Enumerates(Append(s, row), S \cup {row})
    BY <1>1, <2>3, EnumerateOneMore
  <2>5. MarketsSound(S \cup {row}, at)
    <3> DEFINE T == S \cup {row}
    <3>1. \A p, q \in T : p.rulesHash = q.rulesHash => p = q
      BY <1>1, <1>8, <2>3 DEF MarketsSound
    <3>2. \A p \in T : MarketRow(p, at)
      BY <1>1, <1>8 DEF MarketsSound, MarketRow
    <3> HIDE DEF T
    <3> QED
      BY <3>1, <3>2 DEF MarketsSound, MarketRow, T
  <2>6. TableSound("markets", Append(m["markets"], row), d["markets"] \cup {row}, d.nextId, at)
    BY <2>4, <2>5 DEF TableSound, s, S
  <2> QED
    BY <2>2, <2>6, InsertAgrees
<1> QED
    BY <1>10, <1>11

\* compilations.save(), for a hash that was not compiled before.
LEMMA SaveCompilationAgrees ==
    ASSUME NEW d, NEW m, NEW at \in Nat, Sound(d, m, at), NEW h, NEW key,
           \A c \in d.compilations : c.rulesHash # h,
           NEW x, x = D!CompilationsSave(d, h, key, at), NEW y, y = M!CompilationsSave(m, h, key, at)
    PROVE  Agree(x, y, at) /\ D!CompilationsSave(After(x), h, key, at) = x
PROOF
<1> DEFINE s == m.compilations
           S == d.compilations
           rows == {r \in S : r.rulesHash = h}
           hits == {i \in DOMAIN s : s[i].rulesHash = h}
           row == [rulesHash |-> h, sessionId |-> key, createdAt |-> at]
<1>1. Enumerates(s, S)
    BY DEF Sound, TableSound, Tables
<1>2. hits = IndexesOf(s, rows)
    BY <1>1, EnumerationIsWhole DEF IndexesOf
<1>3. rows = {}
    OBVIOUS
<1>4. x = D!Insert(d, "compilations", row)
    BY DEF D!CompilationsSave
<1>5. y = [db |-> [m EXCEPT !["compilations"] = IF hits # {} THEN M!ReplaceAt(@, M!Min(hits), row) ELSE Append(@, row)],
           answer |-> row]
    BY DEF M!CompilationsSave, M!Put, M!Finds, M!Where, M!Gives
<1> DEFINE Left(e) == {r \in e.compilations : r.rulesHash = h}
<1>6. \A e : Left(e) # {} => D!CompilationsSave(e, h, key, at) = [db |-> e, answers |-> Left(e)]
    BY DEF D!CompilationsSave, D!CompilationsFind, D!TheRow, D!MayGive
<1>7. row.rulesHash = h
    OBVIOUS
<1>9. \A e : e.compilations = S \cup {row} => Left(e) = {row}
    OBVIOUS
<1> HIDE DEF s, S, rows, hits, row, Left
<1>10. hits = {}
    BY <1>1, <1>2, <1>3, Found
<1>11. y = M!Push(m, "compilations", row)
    BY <1>5, <1>10 DEF M!Push, M!Gives
<1>12. Inserts(d, m, "compilations", row, d.nextId, x, y) /\ "compilations" \in Tables
    BY <1>4, <1>11 DEF Inserts, Tables
<1>13. row \notin S
    BY <1>3, <1>7 DEF rows
<1>14. Enumerates(Append(s, row), S \cup {row})
    BY <1>1, <1>13, EnumerateOneMore
<1>15. TableSound("compilations", Append(m["compilations"], row), d["compilations"] \cup {row}, d.nextId, at)
    BY <1>14 DEF TableSound, s, S
<1>16. Agree(x, y, at)
    BY <1>12, <1>15, InsertAgrees
<1>17. After(x)["compilations"] = d["compilations"] \cup {row} /\ x.answers = {row}
    BY <1>12, InsertWrites
<1>18. Left(After(x)) = {row}
    BY <1>9, <1>17 DEF S
<1>19. x = [db |-> After(x), answers |-> {row}]
    BY <1>4 DEF After, D!Insert, D!Gives
<1> QED
    BY <1>6, <1>16, <1>18, <1>19

\* Rounds never fall.
LEMMA RecordAgrees ==
    ASSUME NEW d, NEW m, NEW at \in Nat, Sound(d, m, at), NEW h, NEW status, NEW round \in Nat,
           D!Refers(d, h), \A r \in d.resolutions : r.round <= round,
           NEW x, x = D!ResolutionsRecord(d, h, status, round, at),
           NEW y, y = M!ResolutionsRecord(m, h, status, round, at)
    PROVE  Agree(x, y, at) /\ Len(ResolutionsIn(After(y))) = Len(ResolutionsIn(m)) + 1
           /\ MarketsOf(After(x)) = MarketsOf(d)
PROOF
<1> DEFINE s == m.resolutions
           S == d.resolutions
           next == d.nextId
           row == [id |-> next, rulesHash |-> h, status |-> status, round |-> round, submissionState |-> "NOT_SUBMITTED",
                   proposalTxHash |-> Null, proposedAt |-> Null, finalizedAt |-> Null, createdAt |-> at]
           u == Append(s, row)
           U == S \cup {row}
<1>1. next \in Nat /\ m.nextId = next /\ Enumerates(s, S) /\ ResolutionsSound(s, S, next, at)
    BY DEF Sound, TableSound, Tables
<1>2. x = D!InsertWithId(d, "resolutions", row) /\ y = M!PushWithId(m, "resolutions", row)
    BY <1>1 DEF D!ResolutionsRecord, D!ResolutionRow, M!ResolutionsRecord
<1>3. row.id = next /\ row.createdAt = at /\ row.round = round /\ HasColumns(row, ResolutionColumns)
    BY DEF HasColumns, ResolutionColumns
<1>4. \A r \in S : r.round <= round
    OBVIOUS
<1> HIDE DEF row
<1>5. Inserts(d, m, "resolutions", row, next + 1, x, y) /\ "resolutions" \in Tables
    BY <1>2 DEF Inserts, Tables
<1> HIDE DEF s, S, next, u, U
<1>6. row \notin S /\ Numbered(U, next + 1)
    BY <1>1, <1>3, NumberedOneMore DEF ResolutionsSound, U
<1>7. Enumerates(u, U) /\ Len(u) = Len(s) + 1 /\ u[Len(s) + 1] = row /\ \A i \in DOMAIN s : u[i] = s[i]
  <2>1. Enumerates(s, S) /\ row \notin S
    BY <1>1, <1>6
  <2>2. /\ Enumerates(Append(s, row), S \cup {row}) /\ Len(Append(s, row)) = Len(s) + 1
        /\ Append(s, row)[Len(s) + 1] = row
        /\ \A i \in DOMAIN s : Append(s, row)[i] = s[i]
    BY <2>1, EnumerateOneMore
  <2> QED
    BY <2>2 DEF u, U
<1>8. Dated(u, at)
    BY <1>1, <1>3, <1>6, DatedOneMore DEF ResolutionsSound, u
<1>9. Len(s) \in Nat /\ DOMAIN s = 1 .. Len(s) /\ DOMAIN u = 1 .. Len(u) /\ \A i \in DOMAIN s : s[i] \in S
  <2>1. Len(s) \in Nat /\ DOMAIN s = 1 .. Len(s) /\ DOMAIN u = 1 .. Len(u)
    BY <1>1, <1>7, EnumerationIsWhole
  <2> QED
    BY <1>1, <2>1, EnumerationIsWhole
<1>10. \A i, j \in DOMAIN u : i < j => u[i].round <= u[j].round
  <2> SUFFICES ASSUME NEW i \in DOMAIN u, NEW j \in DOMAIN u, i < j PROVE u[i].round <= u[j].round
    OBVIOUS
  <2>1. i \in DOMAIN s /\ u[i] = s[i] /\ s[i] \in S
    BY <1>7, <1>9
  <2>2. CASE j \in DOMAIN s
    BY <1>1, <1>7, <2>1, <2>2 DEF ResolutionsSound
  <2>3. CASE j = Len(s) + 1
    BY <1>3, <1>4, <1>7, <2>1, <2>3
  <2> QED
    BY <1>7, <1>9, <2>2, <2>3
<1>11. \A r \in U : HasColumns(r, ResolutionColumns) /\ r.round \in Nat
    BY <1>1, <1>3 DEF ResolutionsSound, U
<1>12. Len(u) < next + 1
    BY <1>1, <1>7, <1>9 DEF ResolutionsSound
<1>13. ResolutionsSound(u, U, next + 1, at)
    BY <1>6, <1>8, <1>10, <1>11, <1>12 DEF ResolutionsSound
<1>14. TableSound("resolutions", Append(m["resolutions"], row), d["resolutions"] \cup {row}, next + 1, at)
    BY <1>7, <1>13 DEF TableSound, s, S, u, U
<1>15. Agree(x, y, at)
    BY <1>5, <1>14, InsertAgrees
<1>16. OneTable("resolutions", d, m, After(x), After(y)) /\ After(y)["resolutions"] = Append(m["resolutions"], row)
    BY <1>5, InsertWrites
<1>17. "markets" \in Tables /\ "markets" # "resolutions"
    BY DEF Tables
<1>18. MarketsOf(After(x)) = MarketsOf(d)
  <2>1. After(x)["markets"] = d["markets"]
    BY <1>16, <1>17 DEF OneTable
  <2> QED
    BY <2>1 DEF MarketsOf
<1> QED
    BY <1>7, <1>15, <1>16, <1>18 DEF ResolutionsIn, s, u

\* evidence.save().
LEMMA SaveEvidenceAgrees ==
    ASSUME NEW d, NEW m, NEW at \in Nat, Sound(d, m, at), NEW h, NEW hash, D!Refers(d, h),
           NEW x, x = D!EvidenceSave(d, h, hash, at), NEW y, y = M!EvidenceSave(m, h, hash, at)
    PROVE  Agree(x, y, at) /\ D!EvidenceSave(After(x), h, hash, at) = x /\ MarketsOf(After(x)) = MarketsOf(d)
PROOF
<1> DEFINE s == m.evidence
           S == d.evidence
           next == d.nextId
           rows == {r \in S : r.evidenceHash = hash}
           hits == {i \in DOMAIN s : s[i].evidenceHash = hash}
           row == [id |-> next, rulesHash |-> h, evidenceHash |-> hash, createdAt |-> at]
<1>1. Enumerates(s, S) /\ next \in Nat /\ m.nextId = next /\ Numbered(S, next) /\ Dated(s, at)
    BY DEF Sound, TableSound, Tables
<1>2. hits = IndexesOf(s, rows)
    BY <1>1, EnumerationIsWhole DEF IndexesOf
<1>3. x = IF rows = {} THEN D!InsertWithId(d, "evidence", row) ELSE [db |-> d, answers |-> rows]
    BY DEF D!EvidenceSave, D!EvidenceFindByHash, D!EvidenceRow, D!TheRow, D!MayGive
<1>4. y = IF hits # {} THEN [db |-> m, answer |-> s[M!Min(hits)]] ELSE M!PushWithId(m, "evidence", row)
    BY <1>1 DEF M!EvidenceSave, M!EvidenceFindByHash, M!Finds, M!Where, M!FirstOf, M!Gives
<1>5. rows \in SUBSET S
    OBVIOUS
<1> DEFINE Left(e) == {r \in e.evidence : r.evidenceHash = hash}
<1>6. \A e : Left(e) # {} => D!EvidenceSave(e, h, hash, at) = [db |-> e, answers |-> Left(e)]
    BY DEF D!EvidenceSave, D!EvidenceFindByHash, D!TheRow, D!MayGive
<1>7. Left(d) = rows
    OBVIOUS
<1>8. row.evidenceHash = hash /\ row.id = next /\ row.createdAt = at
    OBVIOUS
<1>9. \A e : e.evidence = S \cup {row} /\ rows = {} => Left(e) = {row}
    OBVIOUS
<1> HIDE DEF s, S, rows, hits, row, Left, next
<1>10. CASE rows # {}
  <2>1. hits # {} /\ FirstAt(s, hits) \in D!TheRow(rows)
    <3>1. hits # {} /\ hits \in SUBSET DOMAIN s /\ \A i \in hits : s[i] \in rows
      BY <1>1, <1>2, <1>5, <1>10, Found DEF IndexesOf
    <3>2. DOMAIN s = 1 .. Len(s) /\ Len(s) \in Nat
      BY <1>1, EnumerationIsWhole
    <3>3. M!Min(hits) \in hits
      BY <3>1, <3>2, ExtremeIndexes
    <3> QED
      BY <1>10, <3>1, <3>3 DEF FirstAt, D!TheRow
  <2>2. y.answer \in x.answers /\ After(x) = d /\ After(y) = m
    BY <1>3, <1>4, <1>10, <2>1 DEF After, FirstAt, D!TheRow
  <2> QED
    BY <1>3, <1>6, <1>7, <1>10, <2>2 DEF Agree
<1>11. CASE rows = {}
  <2>1. hits = {}
    BY <1>1, <1>2, <1>5, <1>11, Found
  <2>2. Inserts(d, m, "evidence", row, next + 1, x, y) /\ "evidence" \in Tables
    BY <1>3, <1>4, <1>11, <2>1 DEF Inserts, Tables, next
  <2>3. row \notin S /\ Numbered(S \cup {row}, next + 1)
    BY <1>1, <1>8, NumberedOneMore
  <2>4. Enumerates(Append(s, row), S \cup {row}) /\ Dated(Append(s, row), at)
    BY <1>1, <1>8, <2>3, EnumerateOneMore, DatedOneMore
  <2>5. TableSound("evidence", Append(m["evidence"], row), d["evidence"] \cup {row}, next + 1, at)
    BY <2>3, <2>4 DEF TableSound, s, S
  <2>6. Agree(x, y, at)
    BY <2>2, <2>5, InsertAgrees
  <2>7. OneTable("evidence", d, m, After(x), After(y)) /\ After(x)["evidence"] = d["evidence"] \cup {row} /\ x.answers = {row}
    BY <2>2, InsertWrites
  <2>8. Left(After(x)) = {row}
    BY <1>9, <1>11, <2>7 DEF S
  <2>9. x = [db |-> After(x), answers |-> {row}]
    <3> DEFINE R == [d EXCEPT !["evidence"] = @ \cup {row}, !.nextId = @ + 1]
    <3>1. x = [db |-> R, answers |-> {row}]
      BY <1>3, <1>11 DEF D!InsertWithId, D!Gives
    <3> HIDE DEF R
    <3> QED
      BY <3>1 DEF After
  <2>10. MarketsOf(After(x)) = MarketsOf(d)
    <3>1. After(x)["markets"] = d["markets"]
      BY <2>7 DEF OneTable, Tables
    <3> QED
      BY <3>1 DEF MarketsOf
  <2> QED
    BY <1>6, <2>6, <2>8, <2>9, <2>10
<1> QED
    BY <1>10, <1>11

\* What is left of a table is sound.
StillSound(d, t, old, at) == \A u : Enumerates(u, d[t] \ old) => TableSound(t, u, d[t] \ old, d.nextId, at)

\* DELETE of some rows.
Drops(d, m, t, old, e, n) ==
    /\ old \in SUBSET d[t]
    /\ e = D!Replace(d, t, old, {})
    /\ n = OnlyRowsAt(m, t, IndexesOf(m[t], d[t] \ old))
Dropped(d, m, t, old, e, n) ==
    /\ OneTable(t, d, m, e, n) /\ e.nextId = d.nextId
    /\ e[t] = d[t] \ old
    /\ Enumerates(n[t], e[t])
    /\ Len(m[t]) - Len(n[t]) = Cardinality(old)

\* What a deletion leaves in each table, and how many rows it says it took.
LEMMA RowsDropped ==
    ASSUME NEW d, NEW m, NEW at, Sound(d, m, at), NEW t \in Tables, NEW old, NEW d2, NEW m2,
           Drops(d, m, t, old, d2, m2)
    PROVE  Dropped(d, m, t, old, d2, m2)
PROOF
<1> DEFINE hits == IndexesOf(m[t], d[t] \ old)
<1>0. old \in SUBSET d[t] /\ d2 = D!Replace(d, t, old, {}) /\ m2 = OnlyRowsAt(m, t, IndexesOf(m[t], d[t] \ old))
    BY DEF Drops
<1>1. Enumerates(m[t], d[t])
    BY DEF Sound, TableSound
<1>2. t # "nextId"
    BY DEF Tables
<1>3. d2[t] = d[t] \ old /\ m2[t] = M!Arranged(m[t], NaturalOrder(hits))
    BY <1>0 DEF Sound, D!Replace, OnlyRowsAt
<1>4. OneTable(t, d, m, d2, m2) /\ d2.nextId = d.nextId
    BY <1>0, <1>2 DEF Sound, OneTable, Tables, D!Replace, OnlyRowsAt
<1>5. {m[t][i] : i \in hits} = d[t] \ old /\ hits \in SUBSET DOMAIN m[t]
    BY <1>1 DEF Enumerates, IndexesOf
<1> HIDE DEF hits
<1>6. Enumerates(m2[t], d2[t])
    BY <1>1, <1>3, <1>5, FilterKeepsOrder
<1>7. /\ IsFiniteSet(d[t]) /\ Cardinality(d[t]) = Len(m[t])
      /\ Cardinality(d2[t]) = Len(m2[t]) /\ Len(m2[t]) \in Nat /\ Len(m[t]) \in Nat
    BY <1>1, <1>6, EnumerationIsWhole
<1>8. Cardinality(d[t] \ old) = Cardinality(d[t]) - Cardinality(old) /\ Cardinality(old) \in Nat
  <2>1. IsFiniteSet(old) /\ d[t] \cap old = old
    BY <1>0, <1>7, FS_Subset
  <2>2. Cardinality(old) \in Nat
    BY <2>1, FS_CardinalityType
  <2>3. Cardinality(d[t] \ old) = Cardinality(d[t]) - Cardinality(d[t] \cap old)
    BY <1>7, FS_Difference
  <2> QED
    BY <2>1, <2>2, <2>3
<1>9. Len(m[t]) - Len(m2[t]) = Cardinality(old)
  <2> DEFINE x == Len(m2[t])
             y == Len(m[t])
             z == Cardinality(old)
  <2>1. Cardinality(d2[t]) = Cardinality(d[t]) - Cardinality(old)
    BY <1>3, <1>8
  <2>2. x = y - z
    BY <1>7, <2>1, Zenon
  <2>3. x \in Nat /\ y \in Nat /\ z \in Nat
    BY <1>7, <1>8
  <2> HIDE DEF x, y, z
  <2>4. y - x = z
    BY <2>2, <2>3
  <2> QED
    BY <2>4 DEF x, y, z
<1> QED
    BY <1>3, <1>4, <1>6, <1>9 DEF Dropped

\* Once more, there is nothing left to delete.
LEMMA DropWrites ==
    ASSUME NEW d, NEW m, NEW at \in Nat, Sound(d, m, at), NEW t \in Tables, NEW old, NEW e, NEW n,
           Drops(d, m, t, old, e, n),
           StillSound(d, t, old, at)
    PROVE  Sound(e, n, at) /\ Dropped(d, m, t, old, e, n) /\ D!Replace(e, t, {}, {}) = e
PROOF
<1>0. Dropped(d, m, t, old, e, n)
    BY RowsDropped
<1>1. OneTable(t, d, m, e, n) /\ e.nextId = d.nextId /\ e[t] = d[t] \ old /\ Enumerates(n[t], e[t])
    BY <1>0 DEF Dropped
<1>2. TableSound(t, n[t], e[t], e.nextId, at)
    BY <1>1 DEF StillSound
<1>3. Sound(e, n, at)
    BY <1>1, <1>2, OneTableIsEnough
<1>4. D!Replace(e, t, {}, {}) = e
  <2>1. t \in DOMAIN d /\ e = D!Replace(d, t, old, {})
    BY DEF Sound, Drops
  <2>2. (e[t] \ {}) \cup {} = e[t]
    OBVIOUS
  <2> QED
    BY <2>1, <2>2, ReplaceSettles
<1> QED
    BY <1>0, <1>3, <1>4

\* events.deleteFromBlock(), and again.
LEMMA DeleteEventsAgrees ==
    ASSUME NEW d, NEW m, NEW at \in Nat, Sound(d, m, at), NEW from,
           NEW x, x = D!EventsDeleteFromBlock(d, from), NEW y, y = M!EventsDeleteFromBlock(m, from)
    PROVE  Agree(x, y, at) /\ D!EventsDeleteFromBlock(After(x), from).db = After(x)
PROOF
<1> DEFINE s == m["events"]
           S == d["events"]
           Those(T) == {r \in T : r.blockNumber >= from}
           old == Those(S)
           hits == {i \in DOMAIN s : ~(s[i].blockNumber >= from)}
           e == After(x)
           n == After(y)
<1>1. Enumerates(s, S) /\ EventsSound(S) /\ "events" \in Tables
    BY DEF Sound, TableSound, Tables
<1>2. hits = IndexesOf(s, S \ old)
    BY <1>1, EnumerationIsWhole DEF IndexesOf
<1>3. \A g : D!EventsDeleteFromBlock(g, from) = [db |-> D!Replace(g, "events", Those(g["events"]), {}), answers |-> {Cardinality(Those(g["events"]))}]
    BY OneCardinality DEF D!EventsDeleteFromBlock, D!DeleteWhere, D!Gives
<1>4. n = OnlyRowsAt(m, "events", hits) /\ y.answer = Len(s) - Len(M!Arranged(s, NaturalOrder(hits)))
    BY DEF M!EventsDeleteFromBlock, M!Drop, M!Gives, M!Filtered, M!Where, NaturalOrder, OnlyRowsAt, After
<1>5. old \in SUBSET S /\ EventsSound(S \ old)
    BY <1>1 DEF EventsSound
<1>6. \A T : Those(T \ Those(T)) = {}
    OBVIOUS
<1>7. "events" \in DOMAIN m
    BY <1>1 DEF Sound
<1>8. e = D!Replace(d, "events", old, {}) /\ x.answers = {Cardinality(old)}
  <2>1. x = [db |-> D!Replace(d, "events", old, {}), answers |-> {Cardinality(old)}]
    BY <1>3
  <2> HIDE DEF old
  <2> QED
    BY <2>1 DEF After
<1> HIDE DEF hits, old, e, n, Those
<1>9. n["events"] = M!Arranged(s, NaturalOrder(hits))
    BY <1>4, <1>7 DEF OnlyRowsAt
<1>10. StillSound(d, "events", old, at)
    BY <1>5 DEF TableSound, StillSound
<1>11. /\ Sound(e, n, at) /\ OneTable("events", d, m, e, n)
       /\ e["events"] = S \ old
       /\ Len(s) - Len(n["events"]) = Cardinality(old)
       /\ D!Replace(e, "events", {}, {}) = e
  <2>1. Drops(d, m, "events", old, e, n)
    BY <1>2, <1>4, <1>5, <1>8 DEF Drops
  <2>2. Sound(e, n, at) /\ Dropped(d, m, "events", old, e, n) /\ D!Replace(e, "events", {}, {}) = e
    BY <1>1, <1>10, <2>1, DropWrites
  <2> QED
    BY <2>2 DEF Dropped
<1>12. y.answer \in x.answers
    BY <1>4, <1>8, <1>9, <1>11
<1>13. Those(e["events"]) = {}
    BY <1>6, <1>11 DEF old
<1>14. D!EventsDeleteFromBlock(e, from).db = e
  <2>1. D!EventsDeleteFromBlock(e, from) = [db |-> D!Replace(e, "events", Those(e["events"]), {}), answers |-> {Cardinality(Those(e["events"]))}]
    BY <1>3
  <2>2. D!Replace(e, "events", Those(e["events"]), {}) = e
    BY <1>11, <1>13
  <2> QED
    BY <2>1, <2>2
<1> QED
    BY <1>11, <1>12, <1>14 DEF Agree, e, n

\* checkpoints.deleteBlocksFrom(), and again.
LEMMA DeleteBlocksAgrees ==
    ASSUME NEW d, NEW m, NEW at \in Nat, Sound(d, m, at), NEW from,
           NEW x, x = D!BlocksDeleteFrom(d, from), NEW y, y = M!BlocksDeleteFrom(m, from)
    PROVE  Agree(x, y, at) /\ D!BlocksDeleteFrom(After(x), from).db = After(x)
PROOF
<1> DEFINE s == m["blocks"]
           S == d["blocks"]
           Those(T) == {r \in T : r.blockNumber >= from}
           old == Those(S)
           hits == {i \in DOMAIN s : ~(s[i].blockNumber >= from)}
           e == After(x)
           n == After(y)
<1>1. Enumerates(s, S) /\ BlocksSound(S) /\ "blocks" \in Tables
    BY DEF Sound, TableSound, Tables
<1>2. hits = IndexesOf(s, S \ old)
    BY <1>1, EnumerationIsWhole DEF IndexesOf
<1>3. \A g : D!BlocksDeleteFrom(g, from) = [db |-> D!Replace(g, "blocks", Those(g["blocks"]), {}), answers |-> {Cardinality(Those(g["blocks"]))}]
    BY OneCardinality DEF D!BlocksDeleteFrom, D!DeleteWhere, D!Gives
<1>4. n = OnlyRowsAt(m, "blocks", hits) /\ y.answer = Len(s) - Len(M!Arranged(s, NaturalOrder(hits)))
    BY DEF M!BlocksDeleteFrom, M!Drop, M!Gives, M!Filtered, M!Where, NaturalOrder, OnlyRowsAt, After
<1>5. old \in SUBSET S /\ BlocksSound(S \ old)
    BY <1>1 DEF BlocksSound
<1>6. \A T : Those(T \ Those(T)) = {}
    OBVIOUS
<1>7. "blocks" \in DOMAIN m
    BY <1>1 DEF Sound
<1>8. e = D!Replace(d, "blocks", old, {}) /\ x.answers = {Cardinality(old)}
  <2>1. x = [db |-> D!Replace(d, "blocks", old, {}), answers |-> {Cardinality(old)}]
    BY <1>3
  <2> HIDE DEF old
  <2> QED
    BY <2>1 DEF After
<1> HIDE DEF hits, old, e, n, Those
<1>9. n["blocks"] = M!Arranged(s, NaturalOrder(hits))
    BY <1>4, <1>7 DEF OnlyRowsAt
<1>10. StillSound(d, "blocks", old, at)
    BY <1>5 DEF TableSound, StillSound
<1>11. /\ Sound(e, n, at) /\ OneTable("blocks", d, m, e, n)
       /\ e["blocks"] = S \ old
       /\ Len(s) - Len(n["blocks"]) = Cardinality(old)
       /\ D!Replace(e, "blocks", {}, {}) = e
  <2>1. Drops(d, m, "blocks", old, e, n)
    BY <1>2, <1>4, <1>5, <1>8 DEF Drops
  <2>2. Sound(e, n, at) /\ Dropped(d, m, "blocks", old, e, n) /\ D!Replace(e, "blocks", {}, {}) = e
    BY <1>1, <1>10, <2>1, DropWrites
  <2> QED
    BY <2>2 DEF Dropped
<1>12. y.answer \in x.answers
    BY <1>4, <1>8, <1>9, <1>11
<1>13. Those(e["blocks"]) = {}
    BY <1>6, <1>11 DEF old
<1>14. D!BlocksDeleteFrom(e, from).db = e
  <2>1. D!BlocksDeleteFrom(e, from) = [db |-> D!Replace(e, "blocks", Those(e["blocks"]), {}), answers |-> {Cardinality(Those(e["blocks"]))}]
    BY <1>3
  <2>2. D!Replace(e, "blocks", Those(e["blocks"]), {}) = e
    BY <1>11, <1>13
  <2> QED
    BY <2>1, <2>2
<1> QED
    BY <1>11, <1>12, <1>14 DEF Agree, e, n

\* checkpoints.pruneBlocksBelow(), and again.
LEMMA PruneBlocksAgrees ==
    ASSUME NEW d, NEW m, NEW at \in Nat, Sound(d, m, at), NEW below,
           NEW x, x = D!BlocksPruneBelow(d, below), NEW y, y = M!BlocksPruneBelow(m, below)
    PROVE  Agree(x, y, at) /\ D!BlocksPruneBelow(After(x), below).db = After(x)
PROOF
<1> DEFINE s == m["blocks"]
           S == d["blocks"]
           Those(T) == {r \in T : r.blockNumber < below}
           old == Those(S)
           hits == {i \in DOMAIN s : ~(s[i].blockNumber < below)}
           e == After(x)
           n == After(y)
<1>1. Enumerates(s, S) /\ BlocksSound(S) /\ "blocks" \in Tables
    BY DEF Sound, TableSound, Tables
<1>2. hits = IndexesOf(s, S \ old)
    BY <1>1, EnumerationIsWhole DEF IndexesOf
<1>3. \A g : D!BlocksPruneBelow(g, below) = [db |-> D!Replace(g, "blocks", Those(g["blocks"]), {}), answers |-> {Cardinality(Those(g["blocks"]))}]
    BY OneCardinality DEF D!BlocksPruneBelow, D!DeleteWhere, D!Gives
<1>4. n = OnlyRowsAt(m, "blocks", hits) /\ y.answer = Len(s) - Len(M!Arranged(s, NaturalOrder(hits)))
    BY DEF M!BlocksPruneBelow, M!Drop, M!Gives, M!Filtered, M!Where, NaturalOrder, OnlyRowsAt, After
<1>5. old \in SUBSET S /\ BlocksSound(S \ old)
    BY <1>1 DEF BlocksSound
<1>6. \A T : Those(T \ Those(T)) = {}
    OBVIOUS
<1>7. "blocks" \in DOMAIN m
    BY <1>1 DEF Sound
<1>8. e = D!Replace(d, "blocks", old, {}) /\ x.answers = {Cardinality(old)}
  <2>1. x = [db |-> D!Replace(d, "blocks", old, {}), answers |-> {Cardinality(old)}]
    BY <1>3
  <2> HIDE DEF old
  <2> QED
    BY <2>1 DEF After
<1> HIDE DEF hits, old, e, n, Those
<1>9. n["blocks"] = M!Arranged(s, NaturalOrder(hits))
    BY <1>4, <1>7 DEF OnlyRowsAt
<1>10. StillSound(d, "blocks", old, at)
    BY <1>5 DEF TableSound, StillSound
<1>11. /\ Sound(e, n, at) /\ OneTable("blocks", d, m, e, n)
       /\ e["blocks"] = S \ old
       /\ Len(s) - Len(n["blocks"]) = Cardinality(old)
       /\ D!Replace(e, "blocks", {}, {}) = e
  <2>1. Drops(d, m, "blocks", old, e, n)
    BY <1>2, <1>4, <1>5, <1>8 DEF Drops
  <2>2. Sound(e, n, at) /\ Dropped(d, m, "blocks", old, e, n) /\ D!Replace(e, "blocks", {}, {}) = e
    BY <1>1, <1>10, <2>1, DropWrites
  <2> QED
    BY <2>2 DEF Dropped
<1>12. y.answer \in x.answers
    BY <1>4, <1>8, <1>9, <1>11
<1>13. Those(e["blocks"]) = {}
    BY <1>6, <1>11 DEF old
<1>14. D!BlocksPruneBelow(e, below).db = e
  <2>1. D!BlocksPruneBelow(e, below) = [db |-> D!Replace(e, "blocks", Those(e["blocks"]), {}), answers |-> {Cardinality(Those(e["blocks"]))}]
    BY <1>3
  <2>2. D!Replace(e, "blocks", Those(e["blocks"]), {}) = e
    BY <1>11, <1>13
  <2> QED
    BY <2>1, <2>2
<1> QED
    BY <1>11, <1>12, <1>14 DEF Agree, e, n

\* authNonces.deleteExpired(), and again.
LEMMA PruneNoncesAgrees ==
    ASSUME NEW d, NEW m, NEW at \in Nat, Sound(d, m, at), NEW before,
           NEW x, x = D!NoncesDeleteExpired(d, before), NEW y, y = M!NoncesDeleteExpired(m, before)
    PROVE  Agree(x, y, at) /\ D!NoncesDeleteExpired(After(x), before).db = After(x)
PROOF
<1> DEFINE s == m["nonces"]
           S == d["nonces"]
           Those(T) == {r \in T : r.expiresAt <= before}
           old == Those(S)
           hits == {i \in DOMAIN s : ~(s[i].expiresAt <= before)}
           e == After(x)
           n == After(y)
<1>1. Enumerates(s, S) /\ NoncesSound(S) /\ "nonces" \in Tables
    BY DEF Sound, TableSound, Tables
<1>2. hits = IndexesOf(s, S \ old)
    BY <1>1, EnumerationIsWhole DEF IndexesOf
<1>3. \A g : D!NoncesDeleteExpired(g, before) = [db |-> D!Replace(g, "nonces", Those(g["nonces"]), {}), answers |-> {Cardinality(Those(g["nonces"]))}]
    BY OneCardinality DEF D!NoncesDeleteExpired, D!DeleteWhere, D!Gives
<1>4. n = OnlyRowsAt(m, "nonces", hits) /\ y.answer = Len(s) - Len(M!Arranged(s, NaturalOrder(hits)))
    BY DEF M!NoncesDeleteExpired, M!Drop, M!Gives, M!Filtered, M!Where, NaturalOrder, OnlyRowsAt, After
<1>5. old \in SUBSET S /\ NoncesSound(S \ old)
    BY <1>1 DEF NoncesSound
<1>6. \A T : Those(T \ Those(T)) = {}
    OBVIOUS
<1>7. "nonces" \in DOMAIN m
    BY <1>1 DEF Sound
<1>8. e = D!Replace(d, "nonces", old, {}) /\ x.answers = {Cardinality(old)}
  <2>1. x = [db |-> D!Replace(d, "nonces", old, {}), answers |-> {Cardinality(old)}]
    BY <1>3
  <2> HIDE DEF old
  <2> QED
    BY <2>1 DEF After
<1> HIDE DEF hits, old, e, n, Those
<1>9. n["nonces"] = M!Arranged(s, NaturalOrder(hits))
    BY <1>4, <1>7 DEF OnlyRowsAt
<1>10. StillSound(d, "nonces", old, at)
    BY <1>5 DEF TableSound, StillSound
<1>11. /\ Sound(e, n, at) /\ OneTable("nonces", d, m, e, n)
       /\ e["nonces"] = S \ old
       /\ Len(s) - Len(n["nonces"]) = Cardinality(old)
       /\ D!Replace(e, "nonces", {}, {}) = e
  <2>1. Drops(d, m, "nonces", old, e, n)
    BY <1>2, <1>4, <1>5, <1>8 DEF Drops
  <2>2. Sound(e, n, at) /\ Dropped(d, m, "nonces", old, e, n) /\ D!Replace(e, "nonces", {}, {}) = e
    BY <1>1, <1>10, <2>1, DropWrites
  <2> QED
    BY <2>2 DEF Dropped
<1>12. y.answer \in x.answers
    BY <1>4, <1>8, <1>9, <1>11
<1>13. Those(e["nonces"]) = {}
    BY <1>6, <1>11 DEF old
<1>14. D!NoncesDeleteExpired(e, before).db = e
  <2>1. D!NoncesDeleteExpired(e, before) = [db |-> D!Replace(e, "nonces", Those(e["nonces"]), {}), answers |-> {Cardinality(Those(e["nonces"]))}]
    BY <1>3
  <2>2. D!Replace(e, "nonces", Those(e["nonces"]), {}) = e
    BY <1>11, <1>13
  <2> QED
    BY <2>1, <2>2
<1> QED
    BY <1>11, <1>12, <1>14 DEF Agree, e, n

\* chainState.deleteByAddress(), and again.
LEMMA DeleteChainStateAgrees ==
    ASSUME NEW d, NEW m, NEW at \in Nat, Sound(d, m, at), NEW a,
           NEW x, x = D!ChainStateDelete(d, a), NEW y, y = M!ChainStateDelete(m, a)
    PROVE  Agree(x, y, at) /\ D!ChainStateDelete(After(x), a) = x
PROOF
<1> DEFINE s == m["chainState"]
           S == d["chainState"]
           Those(T) == {r \in T : r.contractAddress = Lower[a]}
           old == Those(S)
           hits == {i \in DOMAIN s : ~(s[i].contractAddress = Lower[a])}
           e == After(x)
           n == After(y)
<1>1. Enumerates(s, S) /\ ChainStateSound(S) /\ "chainState" \in Tables
    BY DEF Sound, TableSound, Tables
<1>2. hits = IndexesOf(s, S \ old)
    BY <1>1, EnumerationIsWhole DEF IndexesOf
<1>3. \A g : D!ChainStateDelete(g, a) = [db |-> D!Replace(g, "chainState", Those(g["chainState"]), {}), answers |-> {Null}]
    BY DEF D!ChainStateDelete, D!ChainStateAt, D!Gives
<1>4. n = OnlyRowsAt(m, "chainState", hits) /\ y.answer = Null
    BY DEF M!ChainStateDelete, M!Drop, M!Gives, M!Filtered, M!Where, NaturalOrder, OnlyRowsAt, After
<1>5. old \in SUBSET S /\ ChainStateSound(S \ old)
    BY <1>1 DEF ChainStateSound
<1>6. \A T : Those(T \ Those(T)) = {}
    OBVIOUS
<1>7. "chainState" \in DOMAIN m
    BY <1>1 DEF Sound
<1>8. e = D!Replace(d, "chainState", old, {}) /\ x.answers = {Null}
  <2>1. x = [db |-> D!Replace(d, "chainState", old, {}), answers |-> {Null}]
    BY <1>3
  <2> HIDE DEF old
  <2> QED
    BY <2>1 DEF After
<1> HIDE DEF hits, old, e, n, Those
<1>9. n["chainState"] = M!Arranged(s, NaturalOrder(hits))
    BY <1>4, <1>7 DEF OnlyRowsAt
<1>10. StillSound(d, "chainState", old, at)
    BY <1>5 DEF TableSound, StillSound
<1>11. /\ Sound(e, n, at) /\ OneTable("chainState", d, m, e, n)
       /\ e["chainState"] = S \ old
       /\ Len(s) - Len(n["chainState"]) = Cardinality(old)
       /\ D!Replace(e, "chainState", {}, {}) = e
  <2>1. Drops(d, m, "chainState", old, e, n)
    BY <1>2, <1>4, <1>5, <1>8 DEF Drops
  <2>2. Sound(e, n, at) /\ Dropped(d, m, "chainState", old, e, n) /\ D!Replace(e, "chainState", {}, {}) = e
    BY <1>1, <1>10, <2>1, DropWrites
  <2> QED
    BY <2>2 DEF Dropped
<1>12. y.answer \in x.answers
    BY <1>4, <1>8, <1>9, <1>11
<1>13. Those(e["chainState"]) = {}
    BY <1>6, <1>11 DEF old
<1>14. D!ChainStateDelete(e, a) = [db |-> e, answers |-> {Null}]
    BY <1>3, <1>11, <1>13
<1>15. x = [db |-> e, answers |-> {Null}]
  <2> DEFINE R == D!Replace(d, "chainState", Those(d["chainState"]), {})
  <2>1. x = [db |-> R, answers |-> {Null}]
    BY <1>3
  <2> HIDE DEF R
  <2> QED
    BY <2>1 DEF e, After
<1> QED
    BY <1>11, <1>12, <1>14, <1>15 DEF Agree, e, n

\* A row with a key is set, where there was one or was none.
Puts(d, m, t, old, row, e, n) ==
    LET hits == IndexesOf(m[t], old)
    IN  /\ old \in SUBSET d[t] /\ (\A r, q \in old : r = q) /\ row \notin d[t] \ old
        /\ e = D!Replace(d, t, old, {row})
        /\ n = [m EXCEPT ![t] = IF hits # {} THEN M!ReplaceAt(@, M!Min(hits), row) ELSE Append(@, row)]
WasPut(d, m, t, old, row, e, n) ==
    /\ OneTable(t, d, m, e, n) /\ e.nextId = d.nextId
    /\ e[t] = (d[t] \ old) \cup {row}
    /\ Enumerates(n[t], e[t])
SoundWith(d, t, old, row, at) ==
    \A u : Enumerates(u, (d[t] \ old) \cup {row}) => TableSound(t, u, (d[t] \ old) \cup {row}, d.nextId, at)

\* An upsert by a key leaves one row with it in either table.
LEMMA RowPut ==
    ASSUME NEW d, NEW m, NEW at, Sound(d, m, at), NEW t \in Tables, NEW old, NEW row, NEW d2, NEW m2,
           Puts(d, m, t, old, row, d2, m2)
    PROVE  WasPut(d, m, t, old, row, d2, m2)
PROOF
<1> DEFINE hits == IndexesOf(m[t], old)
<1>0. /\ old \in SUBSET d[t] /\ (\A r, q \in old : r = q) /\ row \notin d[t] \ old
      /\ d2 = D!Replace(d, t, old, {row})
      /\ m2 = [m EXCEPT ![t] = IF hits # {} THEN M!ReplaceAt(@, M!Min(hits), row) ELSE Append(@, row)]
    BY DEF Puts
<1> DEFINE s == m[t]
           S == d[t]
           u == m2[t]
           U == d2[t]
           i == M!Min(hits)
<1>1. t # "nextId"
    BY DEF Tables
<1>2. DOMAIN d = Tables \cup {"nextId"} /\ DOMAIN m = Tables \cup {"nextId"} /\ m.nextId = d.nextId
    BY DEF Sound
<1>3. OneTable(t, d, m, d2, m2) /\ d2.nextId = d.nextId
    BY <1>0, <1>1, <1>2 DEF OneTable, D!Replace
<1>4. U = (S \ old) \cup {row} /\ u = IF hits # {} THEN [s EXCEPT ![i] = row] ELSE Append(s, row)
    BY <1>0, <1>1, <1>2 DEF D!Replace, M!ReplaceAt
<1>5. Enumerates(s, S) /\ old \in SUBSET S /\ row \notin S \ old /\ hits = IndexesOf(s, old)
    BY <1>0 DEF Sound, TableSound
<1> HIDE DEF s, S, u, U, i, hits
<1>6. \/ hits = {} /\ old = {}
      \/ i \in DOMAIN s /\ hits = {i} /\ old = {s[i]}
    BY <1>0, <1>5, TheOnlyRow DEF i
<1>7. CASE hits = {} /\ old = {}
  <2>1. u = Append(s, row) /\ U = S \cup {row} /\ row \notin S
    BY <1>4, <1>5, <1>7
  <2>2. Enumerates(Append(s, row), S \cup {row})
    BY <1>5, <2>1, EnumerateOneMore
  <2>3. Enumerates(u, U)
    BY <2>1, <2>2
  <2> QED
    BY <1>3, <1>4, <2>3 DEF s, S, u, U, WasPut
<1>8. CASE i \in DOMAIN s /\ hits = {i} /\ old = {s[i]}
  <2>1. u = [s EXCEPT ![i] = row] /\ U = (S \ {s[i]}) \cup {row} /\ row \notin S \ {s[i]}
    BY <1>4, <1>5, <1>8
  <2>2. Enumerates([s EXCEPT ![i] = row], (S \ {s[i]}) \cup {row})
    BY <1>5, <1>8, <2>1, EnumerateReplaced
  <2>3. Enumerates(u, U)
    BY <2>1, <2>2
  <2> QED
    BY <1>3, <1>4, <2>3 DEF s, S, u, U, WasPut
<1> QED
    BY <1>6, <1>7, <1>8

\* An upsert that is run again changes nothing.
LEMMA PutSettles ==
    ASSUME NEW d, NEW m, NEW at \in Nat, Sound(d, m, at), NEW t \in Tables, NEW old, NEW row, NEW e, NEW n,
           Puts(d, m, t, old, row, e, n), SoundWith(d, t, old, row, at)
    PROVE  Sound(e, n, at) /\ WasPut(d, m, t, old, row, e, n) /\ D!Replace(e, t, {row}, {row}) = e
PROOF
<1>0. WasPut(d, m, t, old, row, e, n)
    BY RowPut
<1>1. OneTable(t, d, m, e, n) /\ e.nextId = d.nextId /\ e[t] = (d[t] \ old) \cup {row} /\ Enumerates(n[t], e[t])
    BY <1>0 DEF WasPut
<1>2. TableSound(t, n[t], e[t], e.nextId, at)
    BY <1>1 DEF SoundWith
<1>3. Sound(e, n, at)
    BY <1>1, <1>2, OneTableIsEnough
<1>4. D!Replace(e, t, {row}, {row}) = e
  <2> DEFINE new == {row}
  <2>1. t \in DOMAIN d /\ e = D!Replace(d, t, old, new)
    BY DEF Sound, Puts
  <2>2. (e[t] \ new) \cup new = e[t]
    BY <1>1
  <2> HIDE DEF new
  <2>3. D!Replace(e, t, new, new) = e
    BY <2>1, <2>2, ReplaceSettles
  <2> QED
    BY <2>3 DEF new
<1> QED
    BY <1>0, <1>3, <1>4

\* checkpoints.recordBlock().
LEMMA RecordBlockAgrees ==
    ASSUME NEW d, NEW m, NEW at \in Nat, Sound(d, m, at), NEW number \in Nat, NEW hash,
           NEW x, x = D!BlocksRecord(d, number, hash), NEW y, y = M!BlocksRecord(m, number, hash)
    PROVE  Agree(x, y, at) /\ D!BlocksRecord(After(x), number, hash) = x
PROOF
<1> DEFINE s == m["blocks"]
           S == d["blocks"]
           OfKey(T) == {r \in T : r.blockNumber = number}
           old == OfKey(S)
           hits == {i \in DOMAIN s : s[i].blockNumber = number}
           row == [blockNumber |-> number, blockHash |-> hash]
           e == After(x)
           n == After(y)
<1>1. Enumerates(s, S) /\ BlocksSound(S) /\ "blocks" \in Tables
    BY DEF Sound, TableSound, Tables
<1>2. hits = IndexesOf(s, old) /\ old \in SUBSET S /\ \A r, q \in old : r = q
    BY <1>1, EnumerationIsWhole DEF IndexesOf, BlocksSound
<1>3. \A g : D!BlocksRecord(g, number, hash) = [db |-> D!Replace(g, "blocks", OfKey(g["blocks"]), {row}), answers |-> {Null}]
    BY DEF D!BlocksRecord, D!BlockAt, D!Gives
<1>4. n = [m EXCEPT !["blocks"] = IF hits # {} THEN M!ReplaceAt(@, M!Min(hits), row) ELSE Append(@, row)] /\ y.answer = Null
    BY DEF M!BlocksRecord, M!Put, M!Gives, M!Finds, M!Where, After
<1>5. row.blockNumber = number
    OBVIOUS
<1>6. \A r \in S \ old : r.blockNumber # number
    OBVIOUS
<1> HIDE DEF row
<1>7. BlocksSound((S \ old) \cup {row}) /\ row \notin S \ old
    BY <1>1, <1>5, <1>6 DEF BlocksSound
<1>8. OfKey((S \ old) \cup {row}) = {row}
    BY <1>5, <1>6
<1>9. x = [db |-> D!Replace(d, "blocks", old, {row}), answers |-> {Null}]
    BY <1>3
<1> HIDE DEF hits, old, OfKey
<1>10. e = D!Replace(d, "blocks", old, {row}) /\ x = [db |-> e, answers |-> {Null}]
    BY <1>9 DEF After
<1> HIDE DEF e, n
<1>11. SoundWith(d, "blocks", old, row, at)
    BY <1>7 DEF TableSound, SoundWith
<1>12. Puts(d, m, "blocks", old, row, e, n)
    BY <1>2, <1>4, <1>7, <1>10 DEF Puts
<1>13. Sound(e, n, at) /\ WasPut(d, m, "blocks", old, row, e, n) /\ D!Replace(e, "blocks", {row}, {row}) = e
    BY <1>1, <1>11, <1>12, PutSettles
<1>14. OfKey(e["blocks"]) = {row}
    BY <1>8, <1>13 DEF WasPut
<1>15. D!BlocksRecord(e, number, hash) = x
    BY <1>3, <1>10, <1>13, <1>14
<1> QED
    BY <1>4, <1>10, <1>13, <1>15 DEF Agree, e, n

\* No other address has a market of this hash or of this id.
LEMMA UpsertChainStateAgrees ==
    ASSUME NEW d, NEW m, NEW at \in Nat, Sound(d, m, at), NEW h, NEW id, NEW a, Identifies(h, id, a), NEW state,
           NEW x, x = D!ChainStateUpsert(d, a, id, h, state, at),
           NEW y, y = M!ChainStateUpsert(m, a, id, h, state, at)
    PROVE  Agree(x, y, at) /\ D!ChainStateUpsert(After(x), a, id, h, state, at) = x
PROOF
<1> DEFINE s == m["chainState"]
           S == d["chainState"]
           OfKey(T) == {r \in T : r.contractAddress = Lower[a]}
           Clash(T) == \E r \in T \ OfKey(T) : r.rulesHash = h \/ r.chainMarketId = id
           old == OfKey(S)
           hits == {i \in DOMAIN s : s[i].contractAddress = Lower[a]}
           row == [contractAddress |-> Lower[a], chainMarketId |-> id, rulesHash |-> h, state |-> state, updatedAt |-> at]
           T == (S \ old) \cup {row}
           e == After(x)
           n == After(y)
<1>1. Enumerates(s, S) /\ ChainStateSound(S) /\ "chainState" \in Tables
    BY DEF Sound, TableSound, Tables
<1>2. hits = IndexesOf(s, old) /\ old \in SUBSET S /\ \A r, q \in old : r = q
    BY <1>1, EnumerationIsWhole DEF IndexesOf, ChainStateSound
<1>3. \A g : ~Clash(g["chainState"])
        => D!ChainStateUpsert(g, a, id, h, state, at)
             = [db |-> D!Replace(g, "chainState", OfKey(g["chainState"]), {row}), answers |-> {row}]
    BY DEF D!ChainStateUpsert, D!ChainStateAt, D!ChainStateRow, D!Gives
<1>4. n = [m EXCEPT !["chainState"] = IF hits # {} THEN M!ReplaceAt(@, M!Min(hits), row) ELSE Append(@, row)] /\ y.answer = row
    BY DEF M!ChainStateUpsert, M!Put, M!Gives, M!Finds, M!Where, After
<1>5. row.contractAddress = Lower[a] /\ row.rulesHash = h /\ row.chainMarketId = id
    OBVIOUS
<1>6. \A r \in S \ old : r.contractAddress # Lower[a]
    OBVIOUS
<1>7. h \in Hashes /\ id = MarketIdOf[h] /\ a \in AddressOf[h]
    BY DEF Identifies
<1> HIDE DEF row, n, e
<1>8. \A r \in S : r.rulesHash = h \/ r.chainMarketId = id => r.contractAddress = Lower[a]
  <2> SUFFICES ASSUME NEW r \in S, r.rulesHash = h \/ r.chainMarketId = id PROVE r.contractAddress = Lower[a]
    OBVIOUS
  <2> DEFINE g == r.rulesHash
  <2>1. g \in Hashes /\ r.chainMarketId = MarketIdOf[g] /\ \E b \in AddressOf[g] : r.contractAddress = Lower[b]
    BY <1>1 DEF ChainStateSound
  <2>2. g = h \/ MarketIdOf[g] = MarketIdOf[h]
    BY <1>7, <2>1
  <2> HIDE DEF g
  <2>3. g = h
    BY <1>7, <2>1, <2>2, StoresAssumption DEF StoresAssumption
  <2>4. PICK b \in AddressOf[h] : r.contractAddress = Lower[b]
    BY <2>1, <2>3
  <2>5. Lower[b] = Lower[a]
    BY <1>7, StoresAssumption DEF StoresAssumption
  <2> QED
    BY <2>4, <2>5
<1>9. ~Clash(S)
    BY <1>8
<1>10. OfKey(T) = {row}
    BY <1>5, <1>6
<1>11. T \ {row} = S \ old
    BY <1>5, <1>6
<1>12. ~Clash(T)
    BY <1>8, <1>6, <1>10, <1>11
<1>13. ChainStateSound(T)
  <2>1. \A r, q \in T : r.contractAddress = q.contractAddress => r = q
    BY <1>1, <1>5, <1>6 DEF ChainStateSound
  <2>2. \A r \in T : r.rulesHash \in Hashes /\ r.chainMarketId = MarketIdOf[r.rulesHash]
    BY <1>1, <1>5, <1>7 DEF ChainStateSound
  <2>3. \A r \in T : \E b \in AddressOf[r.rulesHash] : r.contractAddress = Lower[b]
    BY <1>1, <1>5, <1>7 DEF ChainStateSound
  <2> QED
    BY <2>1, <2>2, <2>3 DEF ChainStateSound
<1>14. row \notin S \ old
    BY <1>5, <1>6
<1>15. x = [db |-> D!Replace(d, "chainState", old, {row}), answers |-> {row}]
    BY <1>3, <1>9
<1> HIDE DEF hits, old, OfKey, Clash
<1>16. e = D!Replace(d, "chainState", old, {row}) /\ x = [db |-> e, answers |-> {row}]
    BY <1>15 DEF After, e
<1>17. SoundWith(d, "chainState", old, row, at)
    BY <1>13 DEF TableSound, SoundWith
<1>18. Puts(d, m, "chainState", old, row, e, n)
    BY <1>2, <1>4, <1>14, <1>16 DEF Puts
<1>19. Sound(e, n, at) /\ WasPut(d, m, "chainState", old, row, e, n) /\ D!Replace(e, "chainState", {row}, {row}) = e
    BY <1>1, <1>17, <1>18, PutSettles
<1>20. e["chainState"] = T
    BY <1>19 DEF WasPut
<1>21. OfKey(e["chainState"]) = {row} /\ ~Clash(e["chainState"])
    BY <1>10, <1>12, <1>20
<1>22. D!ChainStateUpsert(e, a, id, h, state, at) = x
    BY <1>3, <1>16, <1>19, <1>21
<1> QED
    BY <1>4, <1>16, <1>19, <1>22 DEF Agree, e, n

\* There is one market and one round: a challenge is looked for among all of them.
LEMMA SaveChallengeAgrees ==
    ASSUME NEW d, NEW m, NEW at \in Nat, Sound(d, m, at), D!Refers(d, h0), NEW reason,
           NEW x, x = D!ChallengesSave(d, h0, reason, 1, at), NEW y, y = M!ChallengesSave(m, h0, reason, 1, at)
    PROVE  Agree(x, y, at) /\ D!ChallengesSave(After(x), h0, reason, 1, at) = x /\ MarketsOf(After(x)) = MarketsOf(d)
PROOF
<1> DEFINE s == m.challenges
           S == d.challenges
           next == d.nextId
           hits == {i \in DOMAIN s : s[i].rulesHash = h0 /\ s[i].round = 1}
           row == [id |-> next, rulesHash |-> h0, reason |-> reason, round |-> 1, createdAt |-> at]
           Only(T) == \A c \in T : c.rulesHash = h0 /\ c.round = 1
           ThoseOf(e) == e.challenges
<1>1. Enumerates(s, S) /\ next \in Nat /\ m.nextId = next /\ ChallengesSound(S, next)
    BY DEF Sound, TableSound, Tables
<1>2. hits = IndexesOf(s, S)
    BY <1>1, EnumerationIsWhole DEF IndexesOf, ChallengesSound
<1>3. \A e : D!Refers(e, h0) /\ Only(ThoseOf(e)) /\ ThoseOf(e) # {}
          => D!ChallengesSave(e, h0, reason, 1, at) = [db |-> e, answers |-> ThoseOf(e)]
  <2> SUFFICES ASSUME NEW e, D!Refers(e, h0), Only(ThoseOf(e)), ThoseOf(e) # {}
               PROVE  D!ChallengesSave(e, h0, reason, 1, at) = [db |-> e, answers |-> ThoseOf(e)]
    OBVIOUS
  <2> DEFINE T == ThoseOf(e)
  <2>1. D!OfRound(e, h0, 1) = T /\ {c \in e.challenges : c.rulesHash = h0} = T
    BY DEF D!OfRound
  <2>2. {r \in T : \A q \in T : ~D!HigherRound(q, r)} = T
    BY DEF D!HigherRound
  <2>3. D!ChallengesSave(e, h0, reason, 1, at) = D!ChallengesFind(e, h0)
    BY <2>1 DEF D!ChallengesSave
  <2>4. D!ChallengesFind(e, h0) = D!MayGive(e, IF T = {} THEN {Null} ELSE {r \in T : \A q \in T : ~D!HigherRound(q, r)})
    BY <2>1 DEF D!ChallengesFind, D!FirstBy
  <2> QED
    BY <2>2, <2>3, <2>4 DEF D!MayGive
<1>4. \A e : D!Refers(e, h0) /\ ThoseOf(e) = {}
          => D!ChallengesSave(e, h0, reason, 1, at)
               = D!InsertWithId(e, "challenges", [id |-> e.nextId, rulesHash |-> h0, reason |-> reason, round |-> 1, createdAt |-> at])
    BY DEF D!ChallengesSave, D!OfRound
<1>5. y = IF hits # {} THEN [db |-> m, answer |-> s[M!Min(hits)]] ELSE M!PushWithId(m, "challenges", row)
    BY <1>1 DEF M!ChallengesSave, M!Finds, M!Where, M!FirstOf, M!Gives
<1>6. row.id = next /\ row.rulesHash = h0 /\ row.round = 1
    OBVIOUS
<1>7. Only(S) /\ ThoseOf(d) = S
    BY <1>1 DEF ChallengesSound
<1>8. S = {} => x = D!InsertWithId(d, "challenges", row)
    BY <1>4
<1>9. S # {} => x = [db |-> d, answers |-> S]
    BY <1>3, <1>7
<1>10. \A e : e["challenges"] = {row} => Only(ThoseOf(e)) /\ ThoseOf(e) = {row}
    BY <1>6
<1> HIDE DEF s, S, hits, row, next, Only, ThoseOf
<1>11. CASE S # {}
  <2>1. hits # {} /\ s[M!Min(hits)] \in S
    BY <1>1, <1>2, <1>11, Found
  <2>2. y.answer \in x.answers /\ After(x) = d /\ After(y) = m
    BY <1>5, <1>9, <1>11, <2>1 DEF After
  <2> QED
    BY <1>3, <1>7, <1>9, <1>11, <2>2 DEF Agree
<1>12. CASE S = {}
  <2>1. hits = {}
    BY <1>1, <1>2, <1>12, Found
  <2>2. Inserts(d, m, "challenges", row, next + 1, x, y) /\ "challenges" \in Tables
    BY <1>5, <1>8, <1>12, <2>1 DEF Inserts, Tables, next
  <2>3. row \notin S /\ Numbered(S \cup {row}, next + 1)
    BY <1>1, <1>6, NumberedOneMore DEF ChallengesSound
  <2>4. Enumerates(Append(s, row), S \cup {row})
    BY <1>1, <2>3, EnumerateOneMore
  <2>5. ChallengesSound(S \cup {row}, next + 1)
    BY <1>1, <1>6, <2>3 DEF ChallengesSound
  <2>6. TableSound("challenges", Append(m["challenges"], row), d["challenges"] \cup {row}, next + 1, at)
    BY <2>4, <2>5 DEF TableSound, s, S
  <2>7. Agree(x, y, at)
    BY <2>2, <2>6, InsertAgrees
  <2>8. OneTable("challenges", d, m, After(x), After(y)) /\ After(x)["challenges"] = d["challenges"] \cup {row} /\ x.answers = {row}
    BY <2>2, InsertWrites
  <2>9. After(x)["challenges"] = {row}
    BY <1>12, <2>8 DEF S
  <2>10. x = [db |-> After(x), answers |-> {row}]
    <3> DEFINE R == [d EXCEPT !["challenges"] = @ \cup {row}, !.nextId = @ + 1]
    <3>1. x = [db |-> R, answers |-> {row}]
      BY <1>8, <1>12 DEF D!InsertWithId, D!Gives
    <3> HIDE DEF R
    <3> QED
      BY <3>1 DEF After
  <2>11. MarketsOf(After(x)) = MarketsOf(d)
    <3>1. After(x)["markets"] = d["markets"]
      BY <2>8 DEF OneTable, Tables
    <3> QED
      BY <3>1 DEF MarketsOf
  <2>12. D!Refers(After(x), h0)
    BY <2>11 DEF D!Refers, MarketsOf
  <2>13. D!ChallengesSave(After(x), h0, reason, 1, at) = [db |-> After(x), answers |-> {row}]
    BY <1>3, <1>10, <2>9, <2>12
  <2> QED
    BY <2>7, <2>10, <2>11, <2>13
<1> QED
    BY <1>11, <1>12

\* checkpoints.loadOrCreate().
LEMMA LoadCheckpointAgrees ==
    ASSUME NEW d, NEW m, NEW at \in Nat, Sound(d, m, at), NEW start,
           NEW x, x = D!CheckpointsLoadOrCreate(d, start, at), NEW y, y = M!CheckpointsLoadOrCreate(m, start, at)
    PROVE  Agree(x, y, at) /\ D!CheckpointsLoadOrCreate(After(x), start, at) = x
PROOF
<1> DEFINE s == m.checkpoints
           S == d.checkpoints
           row == [startBlock |-> start, lastProcessedBlock |-> IF start > 0 THEN start - 1 ELSE 0,
                   lastProcessedBlockHash |-> Null, rewindCount |-> 0, updatedAt |-> at]
<1>1. Enumerates(s, S) /\ CheckpointsSound(S)
    BY DEF Sound, TableSound, Tables
<1>2. x = IF S = {} THEN D!Insert(d, "checkpoints", row) ELSE [db |-> d, answers |-> S]
    BY DEF D!CheckpointsLoadOrCreate, D!CheckpointRow, D!MayGive
<1>3. y = IF s # <<>> THEN [db |-> m, answer |-> Head(s)] ELSE M!Push(m, "checkpoints", row)
    BY DEF M!CheckpointsLoadOrCreate, M!Gives
<1>4. \A e : e["checkpoints"] # {} => D!CheckpointsLoadOrCreate(e, start, at) = [db |-> e, answers |-> e["checkpoints"]]
    BY DEF D!CheckpointsLoadOrCreate, D!MayGive
<1>5. HasColumns(row, CheckpointColumns)
    BY DEF HasColumns, CheckpointColumns
<1>6. S = d["checkpoints"]
    OBVIOUS
<1> HIDE DEF s, S, row
<1>7. s \in Seq(S) /\ Len(s) \in Nat /\ DOMAIN s = 1 .. Len(s) /\ (\A r \in S : \E i \in DOMAIN s : s[i] = r) /\ \A i \in DOMAIN s : s[i] \in S
    BY <1>1, EnumerationIsWhole DEF Enumerates
<1>8. CASE S # {}
  <2>1. s # <<>>
    BY <1>7, <1>8
  <2>2. Head(s) \in S
    BY <1>7, <2>1
  <2>3. y.answer \in x.answers /\ After(x) = d /\ After(y) = m
    BY <1>2, <1>3, <1>8, <2>1, <2>2 DEF After
  <2> QED
    BY <1>2, <1>4, <1>6, <1>8, <2>3 DEF Agree
<1>9. CASE S = {}
  <2>1. s = <<>>
    BY <1>7, <1>9
  <2>2. Inserts(d, m, "checkpoints", row, d.nextId, x, y) /\ "checkpoints" \in Tables
    BY <1>2, <1>3, <1>9, <2>1 DEF Inserts, Tables
  <2>3. Enumerates(Append(s, row), S \cup {row})
    BY <1>1, <1>9, EnumerateOneMore
  <2>4. CheckpointsSound(S \cup {row})
    BY <1>5, <1>9 DEF CheckpointsSound
  <2>5. TableSound("checkpoints", Append(m["checkpoints"], row), d["checkpoints"] \cup {row}, d.nextId, at)
    BY <2>3, <2>4 DEF TableSound, s, S
  <2>6. Agree(x, y, at)
    BY <2>2, <2>5, InsertAgrees
  <2>7. After(x)["checkpoints"] = d["checkpoints"] \cup {row} /\ x.answers = {row}
    BY <2>2, InsertWrites
  <2>8. After(x)["checkpoints"] = {row}
    BY <1>6, <1>9, <2>7
  <2>9. x = [db |-> After(x), answers |-> {row}]
    <3> DEFINE R == [d EXCEPT !["checkpoints"] = @ \cup {row}]
    <3>1. x = [db |-> R, answers |-> {row}]
      BY <1>2, <1>9 DEF D!Insert, D!Gives
    <3> HIDE DEF R
    <3> QED
      BY <3>1 DEF After
  <2>10. D!CheckpointsLoadOrCreate(After(x), start, at) = [db |-> After(x), answers |-> {row}]
    BY <1>4, <2>8
  <2> QED
    BY <2>6, <2>9, <2>10
<1> QED
    BY <1>8, <1>9

HasCheckpoint(d, m) == d.checkpoints # {} /\ m.checkpoints # <<>>

\* A rewind of the one checkpoint there is.
LEMMA RewindOfCheckpoint ==
    ASSUME NEW d, NEW m, NEW at \in Nat, Sound(d, m, at), NEW to, HasCheckpoint(d, m),
           NEW x, x = D!CheckpointsRewind(d, to, at), NEW y, y = M!CheckpointsRewind(m, to, at)
    PROVE  Agree(x, y, at)
PROOF
<1> DEFINE s == m["checkpoints"]
           S == d["checkpoints"]
           next == d.nextId
           OfKey(T) == {r \in T : TRUE}
           Set(r) == [r EXCEPT !.lastProcessedBlock = to, !.lastProcessedBlockHash = Null, !.rewindCount = @ + 1, !.updatedAt = at]
           old == OfKey(S)
           hits == {i \in DOMAIN s : TRUE}
           row == Set(s[M!Min(hits)])
           new == {Set(r) : r \in old}
<1>1. next \in Nat /\ Enumerates(s, S) /\ CheckpointsSound(S)
    BY DEF Sound, TableSound, Tables
<1>2. hits = IndexesOf(s, old) /\ old \in SUBSET S /\ \A r, q \in old : r = q
    BY <1>1, EnumerationIsWhole DEF IndexesOf, CheckpointsSound
<1>30. x = [db |-> D!Replace(d, "checkpoints", OfKey(d["checkpoints"]), {Set(r) : r \in OfKey(d["checkpoints"])}), answers |-> D!TheRow({Set(r) : r \in OfKey(d["checkpoints"])})]
    BY DEF D!CheckpointsRewind, HasCheckpoint, D!UpdateOne, D!MayGive, D!Gives
<1>31. x = [db |-> D!Replace(d, "checkpoints", old, new), answers |-> D!TheRow(new)]
    BY <1>30
<1>4. y = [db |-> IF hits # {} THEN [m EXCEPT !["checkpoints"] = M!ReplaceAt(@, M!Min(hits), row)] ELSE m,
            answer |-> IF hits # {} THEN row ELSE Null]
    BY DEF M!CheckpointsRewind, HasCheckpoint, M!Change, M!Put, M!Gives, M!Finds, M!Where, M!FirstOf
<1>5. \A r \in S : HasColumns(r, CheckpointColumns)
    BY <1>1 DEF CheckpointsSound
<1>6. \A r : HasColumns(r, CheckpointColumns) => HasColumns(Set(r), CheckpointColumns)
    BY DEF HasColumns, CheckpointColumns
<1>7. DOMAIN d = Tables \cup {"nextId"}
    BY DEF Sound
<1> HIDE DEF s, S, old, hits, Set, row, new
<1>8. (old = {} /\ hits = {}) \/ (hits # {} /\ M!Min(hits) \in DOMAIN s /\ old = {s[M!Min(hits)]} /\ s[M!Min(hits)] \in S)
    BY <1>1, <1>2, TheOnlyRow
<1>9. new = IF old = {} THEN {} ELSE {row}
    BY <1>8 DEF row, new
<1>10. old # {} => HasColumns(row, CheckpointColumns)
    BY <1>5, <1>6, <1>8 DEF row, old
<1>11. After(x) = D!Replace(d, "checkpoints", old, IF old = {} THEN {} ELSE {row})
    BY <1>31, <1>9 DEF After
<1>12. old # {} => row \notin S \ old
    BY <1>10 DEF old
<1>13. Updates(d, m, "checkpoints", old, row, x, y)
    BY <1>2, <1>4, <1>11, <1>12 DEF Updates, After, S, s
<1> DEFINE e == After(x)
           n == After(y)
<1>14. "checkpoints" \in Tables
    BY DEF Tables
<1> HIDE DEF e, n
<1>15. /\ OneTable("checkpoints", d, m, e, n) /\ e.nextId = next
       /\ Enumerates(n["checkpoints"], e["checkpoints"])
       /\ \/ old = {} /\ e["checkpoints"] = S /\ n = m
          \/ /\ old # {} /\ e["checkpoints"] = (S \ old) \cup {row}
             /\ \E i \in DOMAIN s : old = {s[i]} /\ n["checkpoints"] = [s EXCEPT ![i] = row]
  <2>1. Updated(d, m, "checkpoints", old, row, After(x), After(y))
    BY <1>13, <1>14, UpdateWrites
  <2>2. Updated(d, m, "checkpoints", old, row, e, n)
    BY <2>1 DEF e, n
  <2> QED
    BY <2>2 DEF S, s, Updated
<1>16. CheckpointsSound(e["checkpoints"])
  <2>1. CASE old = {}
    BY <1>1, <1>15, <2>1
  <2>2. CASE old # {}
    <3>1. S \ old = {}
      BY DEF old
    <3>2. e["checkpoints"] = {row}
      BY <1>15, <2>2, <3>1
    <3> QED
      BY <1>10, <2>2, <3>2 DEF CheckpointsSound
  <2> QED
    BY <2>1, <2>2
<1>17. TableSound("checkpoints", n["checkpoints"], e["checkpoints"], e.nextId, at)
    BY <1>15, <1>16 DEF TableSound
<1>18. Sound(e, n, at)
    BY <1>14, <1>15, <1>17, OneTableIsEnough
<1>19. Agree(x, y, at)
  <2>1. y.answer \in x.answers
    <3>1. x.answers = D!TheRow(IF old = {} THEN {} ELSE {row})
      BY <1>31, <1>9
    <3>2. y.answer = IF hits # {} THEN row ELSE Null
      BY <1>4
    <3> QED
      BY <1>8, <3>1, <3>2 DEF D!TheRow
  <2> QED
    BY <1>18, <2>1 DEF Agree, e, n
<1> QED
    BY <1>19

\* checkpoints.rewind(), run once: it counts the rewinds.
LEMMA RewindAgrees ==
    ASSUME NEW d, NEW m, NEW at \in Nat, Sound(d, m, at), NEW to,
           NEW x, x = D!CheckpointsRewind(d, to, at), NEW y, y = M!CheckpointsRewind(m, to, at)
    PROVE  Agree(x, y, at)
PROOF
<1> DEFINE s == m.checkpoints
           S == d.checkpoints
<1>1. Enumerates(s, S)
    BY DEF Sound, TableSound, Tables
<1>2. S = {} <=> s = <<>>
  <2> HIDE DEF s, S
  <2>1. s \in Seq(S) /\ Len(s) \in Nat /\ DOMAIN s = 1 .. Len(s) /\ (\A r \in S : \E i \in DOMAIN s : s[i] = r) /\ \A i \in DOMAIN s : s[i] \in S
    BY <1>1, EnumerationIsWhole DEF Enumerates
  <2> QED
    BY <2>1
<1>3. CASE S = {}
  <2>1. After(x) = d /\ After(y) = m /\ y.answer \in x.answers
    BY <1>2, <1>3 DEF D!CheckpointsRewind, M!CheckpointsRewind, D!Gives, M!Gives, After
  <2> QED
    BY <2>1 DEF Agree
<1>4. CASE S # {}
  <2>1. HasCheckpoint(d, m)
    BY <1>2, <1>4 DEF HasCheckpoint
  <2> QED
    BY <2>1, RewindOfCheckpoint
<1> QED
    BY <1>3, <1>4

\* authNonces.issue(): a second run finds the nonce and leaves it.
LEMMA IssueNonceAgrees ==
    ASSUME NEW d, NEW m, NEW at \in Nat, Sound(d, m, at), NEW nonce, NEW w, NEW expires \in Nat,
           \A r \in d.nonces : r.nonce # nonce,
           NEW x, x = D!NoncesIssue(d, nonce, w, at, expires), NEW y, y = M!NoncesIssue(m, nonce, w, at, expires)
    PROVE  Agree(x, y, at) /\ D!NoncesIssue(After(x), nonce, w, at, expires).db = After(x)
PROOF
<1> DEFINE s == m.nonces
           S == d.nonces
           rows == {r \in S : r.nonce = nonce}
           hits == {i \in DOMAIN s : s[i].nonce = nonce}
           row == [nonce |-> nonce, address |-> w, issuedAt |-> at, expiresAt |-> expires, consumedAt |-> Null]
<1>1. Enumerates(s, S) /\ NoncesSound(S)
    BY DEF Sound, TableSound, Tables
<1>2. hits = IndexesOf(s, rows)
    BY <1>1, EnumerationIsWhole DEF IndexesOf
<1>3. rows = {} /\ \A r \in S : r.nonce # nonce
    OBVIOUS
<1>4. x = D!Insert(d, "nonces", row)
    BY DEF D!NoncesIssue
<1>5. y = [db |-> [m EXCEPT !["nonces"] = IF hits # {} THEN M!ReplaceAt(@, M!Min(hits), row) ELSE Append(@, row)],
           answer |-> row]
    BY DEF M!NoncesIssue, M!Put, M!Finds, M!Where, M!Gives
<1>6. \A e : (\E r \in e["nonces"] : r.nonce = nonce) => D!NoncesIssue(e, nonce, w, at, expires) = [db |-> e, answers |-> {Failed}]
    BY DEF D!NoncesIssue, D!Gives
<1>7. row.nonce = nonce /\ HasColumns(row, NonceColumns) /\ row.expiresAt = expires
    BY DEF HasColumns, NonceColumns
<1> HIDE DEF s, S, rows, hits, row
<1>10. hits = {}
    BY <1>1, <1>2, <1>3, Found
<1>11. y = M!Push(m, "nonces", row)
    BY <1>5, <1>10 DEF M!Push, M!Gives
<1>12. Inserts(d, m, "nonces", row, d.nextId, x, y) /\ "nonces" \in Tables
    BY <1>4, <1>11 DEF Inserts, Tables
<1>13. row \notin S
    BY <1>3, <1>7
<1>14. Enumerates(Append(s, row), S \cup {row})
    BY <1>1, <1>13, EnumerateOneMore
<1>15. NoncesSound(S \cup {row})
    BY <1>1, <1>3, <1>7 DEF NoncesSound
<1>16. TableSound("nonces", Append(m["nonces"], row), d["nonces"] \cup {row}, d.nextId, at)
    BY <1>14, <1>15 DEF TableSound, s, S
<1>17. Agree(x, y, at)
    BY <1>12, <1>16, InsertAgrees
<1>18. After(x)["nonces"] = d["nonces"] \cup {row}
    BY <1>12, InsertWrites
<1>19. \E r \in After(x)["nonces"] : r.nonce = nonce
    BY <1>7, <1>18
<1> QED
    BY <1>6, <1>17, <1>19

\* authSessions.create(): a second run finds the token and leaves it.
LEMMA CreateAuthSessionAgrees ==
    ASSUME NEW d, NEW m, NEW at \in Nat, Sound(d, m, at), NEW token, NEW w, NEW expires,
           \A r \in d.authSessions : r.tokenHash # token,
           NEW x, x = D!AuthSessionsCreate(d, token, w, at, expires),
           NEW y, y = M!AuthSessionsCreate(m, token, w, at, expires)
    PROVE  Agree(x, y, at) /\ D!AuthSessionsCreate(After(x), token, w, at, expires).db = After(x)
PROOF
<1> DEFINE s == m.authSessions
           S == d.authSessions
           next == d.nextId
           row == [id |-> next, tokenHash |-> token, address |-> w, createdAt |-> at, expiresAt |-> expires, revokedAt |-> Null]
<1>1. next \in Nat /\ m.nextId = next /\ Enumerates(s, S) /\ AuthSessionsSound(S, next)
    BY DEF Sound, TableSound, Tables
<1>2. row.id = next /\ row.tokenHash = token /\ HasColumns(row, AuthSessionColumns)
    BY DEF HasColumns, AuthSessionColumns
<1>3. x = D!InsertWithId(d, "authSessions", row) /\ y = M!PushWithId(m, "authSessions", row)
    BY <1>1 DEF D!AuthSessionsCreate, M!AuthSessionsCreate
<1>4. \A e : (\E r \in e["authSessions"] : r.tokenHash = token)
         => D!AuthSessionsCreate(e, token, w, at, expires) = [db |-> e, answers |-> {Failed}]
    BY DEF D!AuthSessionsCreate, D!Gives
<1> HIDE DEF row
<1>5. Inserts(d, m, "authSessions", row, next + 1, x, y) /\ "authSessions" \in Tables
    BY <1>3 DEF Inserts, Tables
<1> HIDE DEF s, S, next
<1>6. row \notin S /\ Numbered(S \cup {row}, next + 1)
    BY <1>1, <1>2, NumberedOneMore DEF AuthSessionsSound
<1>7. AuthSessionsSound(S \cup {row}, next + 1) /\ Enumerates(Append(s, row), S \cup {row})
    BY <1>1, <1>2, <1>6, EnumerateOneMore DEF AuthSessionsSound
<1>8. TableSound("authSessions", Append(m["authSessions"], row), d["authSessions"] \cup {row}, next + 1, at)
    BY <1>7 DEF TableSound, s, S
<1>9. Agree(x, y, at)
    BY <1>5, <1>8, InsertAgrees
<1>10. After(x)["authSessions"] = d["authSessions"] \cup {row}
    BY <1>5, InsertWrites
<1>11. \E r \in After(x)["authSessions"] : r.tokenHash = token
    BY <1>2, <1>10
<1> QED
    BY <1>4, <1>9, <1>11

\* A conditional update here, a look and a write there.
LEMMA ConsumeNonceAgrees ==
    ASSUME NEW d, NEW m, NEW at \in Nat, Sound(d, m, at), NEW nonce,
           NEW x, x = D!NoncesConsume(d, nonce, at), NEW y, y = M!NoncesConsume(m, nonce, at)
    PROVE  Agree(x, y, at) /\ D!NoncesConsume(After(x), nonce, at).db = After(x)
PROOF
<1> DEFINE s == m["nonces"]
           S == d["nonces"]
           OfKey(T) == {r \in T : r.nonce = nonce}
           Good(r) == r.consumedAt = Null /\ r.expiresAt > at
           Spendable(T) == {r \in T : r.nonce = nonce /\ r.consumedAt = Null /\ r.expiresAt > at}
           Set(r) == [r EXCEPT !.consumedAt = at]
           rows == OfKey(S)
           old == Spendable(S)
           hits == {i \in DOMAIN s : s[i].nonce = nonce}
           found == s[M!Min(hits)]
           row == Set(found)
           new == {Set(r) : r \in old}
<1>1. Enumerates(s, S) /\ NoncesSound(S) /\ "nonces" \in Tables
    BY DEF Sound, TableSound, Tables
<1>2. hits = IndexesOf(s, rows) /\ rows \in SUBSET S /\ (\A r, q \in rows : r = q) /\ old \in SUBSET rows
    BY <1>1, EnumerationIsWhole DEF IndexesOf, NoncesSound
<1>3. \A g : D!NoncesConsume(g, nonce, at)
               = [db |-> D!Replace(g, "nonces", Spendable(g["nonces"]), {Set(r) : r \in Spendable(g["nonces"])}),
                  answers |-> D!TheRow({Set(r) : r \in Spendable(g["nonces"])})]
    BY DEF D!NoncesConsume, D!UpdateOne, D!MayGive
<1>4. x = [db |-> D!Replace(d, "nonces", old, new), answers |-> D!TheRow(new)]
    BY <1>3
<1>5. y = IF hits = {} \/ found.consumedAt # Null \/ found.expiresAt <= at
          THEN [db |-> m, answer |-> Null]
          ELSE [db |-> [m EXCEPT !["nonces"] = M!ReplaceAt(@, M!Min(hits), row)], answer |-> row]
    BY DEF M!NoncesConsume, M!Put, M!Finds, M!Where, M!FirstOf, M!Gives
<1>6. \A r \in S : HasColumns(r, NonceColumns) /\ r.expiresAt \in Nat
    BY <1>1 DEF NoncesSound
<1>7. \A r : HasColumns(r, NonceColumns) => /\ HasColumns(Set(r), NonceColumns) /\ Set(r).nonce = r.nonce
                                            /\ Set(r).expiresAt = r.expiresAt /\ Set(r).consumedAt = at
    BY DEF HasColumns, NonceColumns
<1>8. at # Null
    BY StoresAssumption DEF StoresAssumption
<1>9. \A r \in rows : r.nonce = nonce
    OBVIOUS
<1>10. \A r \in rows : r \in old <=> Good(r)
    BY <1>2
<1>11. \A r : r.consumedAt = at => ~Good(r)
    BY <1>8
<1>12. \A T : Spendable(T) = {r \in OfKey(T) : Good(r)}
    OBVIOUS
<1>13. \A r \in S \ rows : r.nonce # nonce
    OBVIOUS
<1>14. \A r \in S : Good(r) <=> ~(r.consumedAt # Null \/ r.expiresAt <= at)
    BY <1>6
<1> HIDE DEF s, S, old, hits, Set, row, new, rows, found, Good, Spendable, OfKey
<1>15. (rows = {} /\ hits = {}) \/ (hits # {} /\ M!Min(hits) \in DOMAIN s /\ rows = {found} /\ found \in S)
    BY <1>1, <1>2, TheOnlyRow DEF found
<1>16. \/ old = {} /\ y = [db |-> m, answer |-> Null] /\ new = {}
       \/ /\ old = rows /\ rows = {found} /\ hits # {} /\ new = {row} /\ found \in S
          /\ y = [db |-> [m EXCEPT !["nonces"] = M!ReplaceAt(@, M!Min(hits), row)], answer |-> row]
  <2>1. CASE rows = {} /\ hits = {}
    BY <1>2, <1>5, <2>1 DEF new
  <2>2. CASE hits # {} /\ rows = {found} /\ found \in S /\ Good(found)
    <3>1. old = rows
      BY <1>2, <1>10, <2>2
    <3>2. new = {row}
      BY <2>2, <3>1 DEF new, row
    <3> QED
      BY <1>5, <1>14, <2>2, <3>1, <3>2
  <2>3. CASE hits # {} /\ rows = {found} /\ found \in S /\ ~Good(found)
    <3>1. old = {}
      BY <1>2, <1>10, <2>3
    <3>2. new = {}
      BY <3>1 DEF new
    <3> QED
      BY <1>5, <1>14, <2>3, <3>1, <3>2
  <2> QED
    BY <1>15, <2>1, <2>2, <2>3
<1> DEFINE e == After(x)
           n == After(y)
<1>17. e = D!Replace(d, "nonces", old, new) /\ x = [db |-> e, answers |-> D!TheRow(new)]
    BY <1>4 DEF After
<1> HIDE DEF e, n
<1>18. CASE old = {} /\ y = [db |-> m, answer |-> Null] /\ new = {}
  <2>1. n = m /\ y.answer \in x.answers
    BY <1>4, <1>18 DEF n, After, D!TheRow
  <2>2. IndexesOf(s, old) = {}
    BY <1>18 DEF IndexesOf
  <2>3. e = D!Replace(d, "nonces", old, IF old = {} THEN {} ELSE {row})
    BY <1>17, <1>18
  <2>4. Updates(d, m, "nonces", old, row, x, y)
    BY <1>18, <2>1, <2>2, <2>3 DEF Updates, e, n, s, S
  <2>5. Updated(d, m, "nonces", old, row, e, n)
    <3>1. Updated(d, m, "nonces", old, row, After(x), After(y))
      BY <1>1, <2>4, UpdateWrites
    <3> QED
      BY <3>1 DEF e, n
  <2>6. OneTable("nonces", d, m, e, n) /\ Enumerates(n["nonces"], e["nonces"]) /\ e["nonces"] = S
    BY <1>18, <2>5 DEF Updated, S
  <2>7. TableSound("nonces", n["nonces"], e["nonces"], e.nextId, at)
    BY <1>1, <2>6 DEF TableSound
  <2>8. Sound(e, n, at)
    BY <1>1, <2>6, <2>7, OneTableIsEnough
  <2>9. Spendable(e["nonces"]) = {}
    BY <1>18, <2>6 DEF old
  <2>10. D!NoncesConsume(e, nonce, at).db = e
    <3>1. {Set(r) : r \in Spendable(e["nonces"])} = {}
      BY <2>9
    <3>2. D!NoncesConsume(e, nonce, at) = [db |-> D!Replace(e, "nonces", {}, {}), answers |-> D!TheRow({})]
      BY <1>3, <2>9, <3>1
    <3>3. D!Replace(e, "nonces", {}, {}) = e
      <4>1. "nonces" \in DOMAIN d /\ e = D!Replace(d, "nonces", old, new)
        BY <1>1, <1>17 DEF Sound
      <4>2. (e["nonces"] \ {}) \cup {} = e["nonces"]
        OBVIOUS
      <4> QED
        BY <4>1, <4>2, ReplaceSettles
    <3> QED
      BY <3>2, <3>3
  <2> QED
    BY <2>1, <2>8, <2>10 DEF Agree, e, n
<1>19. CASE /\ old = rows /\ rows = {found} /\ hits # {} /\ new = {row} /\ found \in S
            /\ y = [db |-> [m EXCEPT !["nonces"] = M!ReplaceAt(@, M!Min(hits), row)], answer |-> row]
  <2>1. HasColumns(row, NonceColumns) /\ row.nonce = nonce /\ row.expiresAt \in Nat /\ row.consumedAt = at
    BY <1>6, <1>7, <1>9, <1>19 DEF row
  <2>2. row \notin S \ old /\ old \in SUBSET S /\ old # {} /\ (\A r, q \in old : r = q)
    BY <1>2, <1>13, <1>19, <2>1
  <2>3. Updates(d, m, "nonces", old, row, x, y)
    <3>1. e = D!Replace(d, "nonces", old, IF old = {} THEN {} ELSE {row})
      BY <1>17, <1>19
    <3>2. n = [m EXCEPT !["nonces"] = M!ReplaceAt(@, M!Min(IndexesOf(s, old)), row)]
      <4>1. After(y) = [m EXCEPT !["nonces"] = M!ReplaceAt(@, M!Min(hits), row)]
        BY <1>19 DEF After
      <4>2. hits = IndexesOf(s, old)
        BY <1>2, <1>19, Zenon
      <4> QED
        BY <4>1, <4>2, Zenon DEF n
    <3>3. IndexesOf(s, old) # {}
      BY <1>2, <1>19
    <3> QED
      BY <2>2, <3>1, <3>2, <3>3 DEF Updates, e, n, s, S
  <2>4. Updated(d, m, "nonces", old, row, e, n)
    <3>1. Updated(d, m, "nonces", old, row, After(x), After(y))
      BY <1>1, <2>3, UpdateWrites
    <3> QED
      BY <3>1 DEF e, n
  <2>5. OneTable("nonces", d, m, e, n) /\ Enumerates(n["nonces"], e["nonces"]) /\ e["nonces"] = (S \ old) \cup {row}
    BY <2>2, <2>4 DEF Updated, S
  <2>6. NoncesSound((S \ old) \cup {row})
    <3>1. \A r \in S \ old : r.nonce # nonce
      BY <1>13, <1>19
    <3> QED
      BY <1>1, <2>1, <3>1 DEF NoncesSound
  <2>7. TableSound("nonces", n["nonces"], e["nonces"], e.nextId, at)
    BY <2>5, <2>6 DEF TableSound
  <2>8. Sound(e, n, at)
    BY <1>1, <2>5, <2>7, OneTableIsEnough
  <2>9. y.answer \in x.answers
    BY <1>4, <1>19 DEF D!TheRow
  <2>10. Spendable(e["nonces"]) = {}
    <3>1. \A r \in e["nonces"] : r.nonce = nonce => ~Good(r)
      BY <1>11, <1>13, <1>19, <2>1, <2>5
    <3> QED
      BY <1>12, <3>1 DEF OfKey
  <2>11. D!NoncesConsume(e, nonce, at).db = e
    <3>1. {Set(r) : r \in Spendable(e["nonces"])} = {}
      BY <2>10
    <3>2. D!NoncesConsume(e, nonce, at) = [db |-> D!Replace(e, "nonces", {}, {}), answers |-> D!TheRow({})]
      BY <1>3, <2>10, <3>1
    <3>3. D!Replace(e, "nonces", {}, {}) = e
      <4>1. "nonces" \in DOMAIN d /\ e = D!Replace(d, "nonces", old, new)
        BY <1>1, <1>17 DEF Sound
      <4>2. (e["nonces"] \ {}) \cup {} = e["nonces"]
        OBVIOUS
      <4> QED
        BY <4>1, <4>2, ReplaceSettles
    <3> QED
      BY <3>2, <3>3
  <2> QED
    BY <2>8, <2>9, <2>11 DEF Agree, e, n
<1> QED
    BY <1>16, <1>18, <1>19

\* The number of hits is the number of rows hit.
LEMMA HitsAreRows ==
    ASSUME NEW s, NEW S, Enumerates(s, S), NEW rows \in SUBSET S
    PROVE  Cardinality(IndexesOf(s, rows)) = Cardinality(rows)
PROOF
<1> DEFINE hits == IndexesOf(s, rows)
           f == M!Arranged(s, NaturalOrder(hits))
<1>1. hits \in SUBSET DOMAIN s
    BY DEF IndexesOf
<1>2. {s[i] : i \in hits} = rows
    BY DEF IndexesOf, Enumerates
<1> HIDE DEF hits, f
<1>3. Enumerates(f, {s[i] : i \in hits}) /\ Len(f) = Cardinality(hits)
    BY <1>1, FilterKeepsOrder DEF f
<1>4. Enumerates(f, rows)
    BY <1>2, <1>3
<1>5. Cardinality(rows) = Len(f)
    BY <1>4, EnumerationIsWhole
<1> QED
    BY <1>3, <1>5 DEF hits

\* resolutions.markFinalized(): all that are open, and none a second time.
LEMMA FinalizeAgrees ==
    ASSUME NEW d, NEW m, NEW at \in Nat, Sound(d, m, at), NEW h,
           NEW x, x = D!ResolutionsMarkFinalized(d, h, at), NEW y, y = M!ResolutionsMarkFinalized(m, h, at)
    PROVE  /\ Agree(x, y, at) /\ D!ResolutionsMarkFinalized(After(x), h, at).db = After(x)
           /\ Len(ResolutionsIn(After(y))) = Len(ResolutionsIn(m)) /\ MarketsOf(After(x)) = MarketsOf(d)
PROOF
<1> DEFINE s == m["resolutions"]
           S == d["resolutions"]
           next == d.nextId
           Open(r) == r.rulesHash = h /\ r.finalizedAt = Null
           Set(r) == [r EXCEPT !.finalizedAt = at]
           OpenIn(T) == {r \in T : Open(r)}
           old == OpenIn(S)
           new == {Set(r) : r \in old}
           T == (S \ old) \cup new
           hits == {i \in DOMAIN s : Open(s[i])}
           u == [i \in DOMAIN s |-> IF Open(s[i]) THEN Set(s[i]) ELSE s[i]]
           e == After(x)
           n == After(y)
<1>1. Enumerates(s, S) /\ ResolutionsSound(s, S, next, at) /\ next \in Nat /\ "resolutions" \in Tables
    BY DEF Sound, TableSound, Tables
<1>2. DOMAIN s = 1 .. Len(s) /\ Len(s) \in Nat /\ \A i \in DOMAIN s : s[i] \in S
    BY <1>1, EnumerationIsWhole
<1>3. at # Null
    BY StoresAssumption DEF StoresAssumption
<1>4. \A r : HasColumns(r, ResolutionColumns)
         => /\ HasColumns(Set(r), ResolutionColumns) /\ ~Open(Set(r))
            /\ Set(r).id = r.id /\ Set(r).round = r.round /\ Set(r).createdAt = r.createdAt
    BY <1>3 DEF HasColumns, ResolutionColumns
<1>5. \A r \in S : HasColumns(r, ResolutionColumns)
    BY <1>1 DEF ResolutionsSound
<1>6. \A i \in DOMAIN s : /\ u[i].id = s[i].id /\ u[i].round = s[i].round /\ u[i].createdAt = s[i].createdAt
                          /\ HasColumns(u[i], ResolutionColumns)
    BY <1>2, <1>4, <1>5
<1>7. \A i \in DOMAIN s : u[i] \in T
    BY <1>2
<1>8. \A r \in T : \E i \in DOMAIN s : u[i] = r
  <2> SUFFICES ASSUME NEW r \in T PROVE \E i \in DOMAIN s : u[i] = r
    OBVIOUS
  <2>1. \A q \in S : \E i \in DOMAIN s : s[i] = q
    BY <1>1 DEF Enumerates
  <2>2. CASE r \in S \ old
    BY <2>1, <2>2
  <2>3. CASE r \in new
    <3>1. PICK q \in old : r = Set(q)
      BY <2>3
    <3>2. q \in S /\ Open(q)
      OBVIOUS
    <3>3. PICK i \in DOMAIN s : s[i] = q
      BY <2>1, <3>2
    <3> QED
      BY <3>1, <3>2, <3>3
  <2> QED
    BY <2>2, <2>3
<1>9. \A r \in T : /\ HasColumns(r, ResolutionColumns) /\ r.round \in Nat /\ r.id \in Nat /\ r.id < next
                   /\ ~Open(r)
  <2> SUFFICES ASSUME NEW r \in T
               PROVE  /\ HasColumns(r, ResolutionColumns) /\ r.round \in Nat /\ r.id \in Nat /\ r.id < next
                      /\ ~Open(r)
    OBVIOUS
  <2>1. \A q \in S : HasColumns(q, ResolutionColumns) /\ q.round \in Nat /\ q.id \in Nat /\ q.id < next
    BY <1>1 DEF ResolutionsSound, Numbered
  <2>2. CASE r \in S \ old
    BY <2>1, <2>2
  <2>3. CASE r \in new
    <3>1. PICK q \in old : r = Set(q)
      BY <2>3
    <3>2. q \in S
      OBVIOUS
    <3> HIDE DEF Set, Open
    <3> QED
      BY <1>4, <2>1, <3>1, <3>2
  <2> QED
    BY <2>2, <2>3
<1>10. DOMAIN u = DOMAIN s
    OBVIOUS
<1>11. hits = IndexesOf(s, old) /\ old \in SUBSET S
    BY <1>2 DEF IndexesOf
<1>12. OpenIn(T) = {}
    BY <1>9
<1>13. \A g : D!ResolutionsMarkFinalized(g, h, at)
              = [db |-> D!Replace(g, "resolutions", OpenIn(g["resolutions"]), {Set(r) : r \in OpenIn(g["resolutions"])}),
                 answers |-> {Cardinality(OpenIn(g["resolutions"]))}]
  <2> SUFFICES ASSUME NEW g
               PROVE  D!ResolutionsMarkFinalized(g, h, at)
                        = [db |-> D!Replace(g, "resolutions", OpenIn(g["resolutions"]), {Set(r) : r \in OpenIn(g["resolutions"])}),
                           answers |-> {Cardinality(OpenIn(g["resolutions"]))}]
    OBVIOUS
  <2> DEFINE some == {r \in D!ResolutionsOf(g, h) : r.finalizedAt = Null}
  <2>1. some = OpenIn(g["resolutions"])
    BY DEF D!ResolutionsOf
  <2>2. D!ResolutionsMarkFinalized(g, h, at)
          = [db |-> D!Replace(g, "resolutions", some, {Set(r) : r \in some}), answers |-> {D!Cardinality(some)}]
    BY DEF D!ResolutionsMarkFinalized, D!Gives
  <2> QED
    BY <2>1, <2>2, OneCardinality
<1>14. x = [db |-> D!Replace(d, "resolutions", old, new), answers |-> {Cardinality(old)}]
    BY <1>13
<1>15. y = [db |-> [m EXCEPT !["resolutions"] = u], answer |-> Cardinality(hits)]
  <2>1. y = [db |-> [m EXCEPT !["resolutions"] = u], answer |-> M!Cardinality(hits)]
    BY DEF M!ResolutionsMarkFinalized, M!Gives, M!Where
  <2> QED
    BY <2>1, OneCardinality
<1> HIDE DEF s, S, next, Open, Set, OpenIn, old, new, T, hits, u
<1>16. e = D!Replace(d, "resolutions", old, new) /\ x.answers = {Cardinality(old)}
    BY <1>14 DEF After
<1>17. n = [m EXCEPT !["resolutions"] = u] /\ y.answer = Cardinality(hits)
    BY <1>15 DEF After
<1> HIDE DEF e, n
<1>18. Enumerates(u, T) /\ Len(u) = Len(s)
  <2>1. u \in [1 .. Len(s) -> T]
    <3>1. u = [i \in DOMAIN s |-> u[i]]
      BY DEF u
    <3> QED
      BY <1>2, <1>7, <3>1
  <2>2. u \in Seq(T) /\ Len(u) = Len(s)
    BY <1>2, <2>1, FunctionIsSeq
  <2>3. ASSUME NEW i \in DOMAIN s, NEW j \in DOMAIN s, u[i] = u[j] PROVE i = j
    <3>1. s[i].id = s[j].id
      BY <1>6, <2>3
    <3>2. s[i] = s[j]
      BY <1>1, <1>2, <3>1 DEF ResolutionsSound, Numbered
    <3> QED
      BY <1>1, <3>2 DEF Enumerates
  <2> QED
    BY <1>8, <1>10, <2>2, <2>3 DEF Enumerates
<1>19. ResolutionsSound(u, T, next, at)
  <2>1. Dated(u, at) /\ \A i, j \in DOMAIN u : i < j => u[i].round <= u[j].round
    BY <1>1, <1>6, <1>10 DEF ResolutionsSound, Dated
  <2>2. Numbered(T, next)
    <3>1. ASSUME NEW r \in T, NEW q \in T, r.id = q.id PROVE r = q
      <4>1. PICK i \in DOMAIN s : u[i] = r
        BY <1>8
      <4>2. PICK j \in DOMAIN s : u[j] = q
        BY <1>8
      <4>3. s[i].id = s[j].id
        BY <1>6, <3>1, <4>1, <4>2
      <4>4. s[i] = s[j]
        BY <1>1, <1>2, <4>3 DEF ResolutionsSound, Numbered
      <4>5. i = j
        BY <1>1, <4>4 DEF Enumerates
      <4> QED
        BY <4>1, <4>2, <4>5
    <3> QED
      BY <1>9, <3>1 DEF Numbered
  <2>3. Len(u) < next
    BY <1>1, <1>18 DEF ResolutionsSound
  <2> QED
    BY <1>9, <2>1, <2>2, <2>3 DEF ResolutionsSound
<1>20. DOMAIN d = Tables \cup {"nextId"} /\ DOMAIN m = Tables \cup {"nextId"} /\ m.nextId = d.nextId
    BY DEF Sound
<1>21. OneTable("resolutions", d, m, e, n) /\ e.nextId = next
    BY <1>16, <1>17, <1>20 DEF OneTable, D!Replace, Tables, next
<1>22. e["resolutions"] = T /\ n["resolutions"] = u
    BY <1>1, <1>16, <1>17, <1>20 DEF D!Replace, T, S
<1>23. TableSound("resolutions", n["resolutions"], e["resolutions"], e.nextId, at)
    BY <1>18, <1>19, <1>21, <1>22 DEF TableSound
<1>24. Sound(e, n, at)
    BY <1>1, <1>21, <1>23, OneTableIsEnough
<1>25. y.answer \in x.answers
  <2>1. Cardinality(IndexesOf(s, old)) = Cardinality(old)
    BY <1>1, <1>11, HitsAreRows
  <2>2. Cardinality(hits) = Cardinality(old)
    BY <1>11, <2>1, Zenon
  <2> QED
    BY <1>16, <1>17, <2>2
<1>26. D!ResolutionsMarkFinalized(e, h, at).db = e
  <2>1. OpenIn(e["resolutions"]) = {}
    BY <1>12, <1>22
  <2>2. {Set(r) : r \in OpenIn(e["resolutions"])} = {}
    BY <2>1
  <2>3. D!ResolutionsMarkFinalized(e, h, at) = [db |-> D!Replace(e, "resolutions", {}, {}), answers |-> {Cardinality({})}]
    BY <1>13, <2>1, <2>2
  <2>4. D!Replace(e, "resolutions", {}, {}) = e
    <3>1. "resolutions" \in DOMAIN d
      BY <1>1, <1>20
    <3>2. (e["resolutions"] \ {}) \cup {} = e["resolutions"]
      OBVIOUS
    <3> QED
      BY <1>16, <3>1, <3>2, ReplaceSettles
  <2> QED
    BY <2>3, <2>4
<1>27. MarketsOf(e) = MarketsOf(d)
  <2>1. e["markets"] = d["markets"]
    BY <1>21 DEF OneTable, Tables
  <2> QED
    BY <2>1 DEF MarketsOf
<1> QED
    BY <1>18, <1>22, <1>24, <1>25, <1>26, <1>27 DEF Agree, e, n, s, ResolutionsIn

-----------------------------------------------------------------------------
(* A batch of events is stored in one statement, and one event at a time. *)

\* Rows added again are there already.
LEMMA UnionSettles ==
    ASSUME NEW d, NEW t, t \in DOMAIN d, NEW T, NEW e, e = [d EXCEPT ![t] = @ \cup T],
           NEW T2, e[t] \cup T2 = e[t]
    PROVE  [e EXCEPT ![t] = @ \cup T2] = e
PROOF
<1>1. e = [u \in DOMAIN d |-> IF u = t THEN d[t] \cup T ELSE d[u]]
    OBVIOUS
<1> DEFINE f == [e EXCEPT ![t] = @ \cup T2]
<1>2. f = [u \in DOMAIN e |-> IF u = t THEN e[t] \cup T2 ELSE e[u]]
    OBVIOUS
<1> HIDE DEF f
<1>3. DOMAIN f = DOMAIN d /\ DOMAIN e = DOMAIN d /\ \A u \in DOMAIN d : f[u] = e[u]
    BY <1>1, <1>2
<1>4. f = e
    BY <1>1, <1>2, <1>3
<1> QED
    BY <1>4 DEF f

\* The rows after the n-th event of the batch, from those after the one before.
WithEvent(batch, at, rows, n) == IF M!Has(rows, batch[n]) THEN rows ELSE Append(rows, M!Stored(batch[n], at))
OneByOne(f, s, batch, at, k) == f = [n \in 0 .. k |-> IF n = 0 THEN s ELSE WithEvent(batch, at, f[n - 1], n)]

\* The sequence of the tables after each event of a batch.
LEMMA OneByOneExists ==
    ASSUME NEW s, NEW batch, NEW at, NEW L \in Nat
    PROVE  \E f : OneByOne(f, s, batch, at, L)
PROOF
<1> DEFINE C == {k \in Nat : \E f : OneByOne(f, s, batch, at, k)}
<1>1. 0 \in C
  <2> DEFINE f == [n \in 0 .. 0 |-> s]
             g == [n \in 0 .. 0 |-> IF n = 0 THEN s ELSE WithEvent(batch, at, f[n - 1], n)]
  <2>1. f = g
    OBVIOUS
  <2>2. OneByOne(f, s, batch, at, 0)
    BY <2>1 DEF OneByOne
  <2> HIDE DEF f
  <2> QED
    BY <2>2
<1>2. ASSUME NEW k \in Nat, k \in C PROVE k + 1 \in C
  <2>1. PICK f : OneByOne(f, s, batch, at, k)
    BY <1>2
  <2>2. f = [n \in 0 .. k |-> IF n = 0 THEN s ELSE WithEvent(batch, at, f[n - 1], n)]
    BY <2>1 DEF OneByOne
  <2> DEFINE next == WithEvent(batch, at, f[k], k + 1)
             g == [n \in 0 .. (k + 1) |-> IF n = k + 1 THEN next ELSE f[n]]
             Of(n) == IF n = 0 THEN s ELSE WithEvent(batch, at, g[n - 1], n)
  <2>3. g[k] = f[k] /\ g[k + 1] = next /\ \A n \in 0 .. k : g[n] = f[n]
    OBVIOUS
  <2> HIDE DEF g, next
  <2>4. \A n \in 0 .. k : g[n] = Of(n)
    <3> SUFFICES ASSUME NEW n \in 0 .. k PROVE g[n] = Of(n)
      OBVIOUS
    <3>1. CASE n = 0
      BY <2>2, <2>3, <3>1
    <3>2. CASE n # 0
      <4>1. n - 1 \in 0 .. k /\ f[n] = WithEvent(batch, at, f[n - 1], n)
        BY <2>2, <3>2
      <4> QED
        BY <2>3, <3>2, <4>1
    <3> QED
      BY <3>1, <3>2
  <2>5. g[k + 1] = Of(k + 1)
    <3>1. k + 1 # 0 /\ (k + 1) - 1 = k
      OBVIOUS
    <3>2. Of(k + 1) = WithEvent(batch, at, g[k], k + 1)
      BY <3>1
    <3> QED
      BY <2>3, <3>2 DEF next
  <2>6. \A n \in 0 .. (k + 1) : n \in 0 .. k \/ n = k + 1
    OBVIOUS
  <2>7. \A n \in 0 .. (k + 1) : g[n] = Of(n)
    <3> HIDE DEF Of
    <3> QED
      BY <2>4, <2>5, <2>6
  <2>8. g = [n \in 0 .. (k + 1) |-> Of(n)]
    <3>1. g = [n \in 0 .. (k + 1) |-> g[n]]
      BY DEF g
    <3> HIDE DEF Of
    <3> QED
      BY <2>7, <3>1
  <2>9. OneByOne(g, s, batch, at, k + 1)
    BY <2>8 DEF OneByOne
  <2> QED
    BY <2>9
<1>3. \A n \in Nat : n \in C => n + 1 \in C
    BY <1>2
<1> HIDE DEF C
<1>4. Nat \subseteq C
    BY <1>1, <1>3, NatSetInduction
<1> QED
    BY <1>4 DEF C

\* The events of a batch that are stored: the first of each identity, if it was not there.
FirstOfKind(S, batch) ==
    {i \in DOMAIN batch : /\ \A r \in S : D!Identity(r) # D!Identity(batch[i])
                          /\ \A j \in 1 .. (i - 1) : D!Identity(batch[j]) # D!Identity(batch[i])}
StoredUpTo(S, batch, at, n) == S \cup {D!Stored(batch[i], at) : i \in {j \in FirstOfKind(S, batch) : j <= n}}
Knows(R, e) == \E r \in R : D!Identity(r) = D!Identity(e)
KnowsUpTo(R, batch, k) == \A j \in 1 .. k : Knows(R, batch[j])
OneMore(Q, R, e, at) == Q = IF Knows(R, e) THEN R ELSE R \cup {D!Stored(e, at)}

\* Both modules identify, and store, an event in the same way.
LEMMA OneIdentity ==
    ASSUME NEW e, NEW at
    PROVE  M!Identity(e) = D!Identity(e) /\ M!Stored(e, at) = D!Stored(e, at)
           /\ D!Identity(D!Stored(e, at)) = D!Identity(e)
PROOF
    BY DEF M!Identity, D!Identity, M!Stored, D!Stored

\* Both find the same events there already.
LEMMA HasIsKnows ==
    ASSUME NEW s, NEW S, Enumerates(s, S), NEW e
    PROVE  M!Has(s, e) <=> Knows(S, e)
PROOF
<1>1. \A i \in DOMAIN s : s[i] \in S
    BY EnumerationIsWhole
<1>2. \A r \in S : \E i \in DOMAIN s : s[i] = r
    BY DEF Enumerates
<1>3. M!Has(s, e) <=> \E i \in DOMAIN s : D!Identity(s[i]) = D!Identity(e)
    BY OneIdentity DEF M!Has
<1> QED
    BY <1>1, <1>2, <1>3 DEF Knows

\* One more event of the batch is stored unless it is known.
LEMMA OneMoreEvent ==
    ASSUME NEW S, NEW batch, NEW L \in Nat, DOMAIN batch = 1 .. L, NEW at, NEW k \in Nat, k < L,
           KnowsUpTo(StoredUpTo(S, batch, at, k), batch, k)
    PROVE  OneMore(StoredUpTo(S, batch, at, k + 1), StoredUpTo(S, batch, at, k), batch[k + 1], at)
PROOF
<1> DEFINE F == FirstOfKind(S, batch)
           R == StoredUpTo(S, batch, at, k)
           Q == StoredUpTo(S, batch, at, k + 1)
           e == batch[k + 1]
           St(i) == D!Stored(batch[i], at)
           K == {j \in F : j <= k}
           N == {j \in F : j <= k + 1}
           row == D!Stored(e, at)
<1>1. F \in SUBSET (1 .. L) /\ k + 1 \in 1 .. L
    BY DEF FirstOfKind
<1>2. R = S \cup {St(i) : i \in K} /\ Q = S \cup {St(i) : i \in N}
    BY DEF StoredUpTo
<1>3. k + 1 \in F <=> /\ \A r \in S : D!Identity(r) # D!Identity(e)
                     /\ \A j \in 1 .. k : D!Identity(batch[j]) # D!Identity(e)
    BY <1>1 DEF FirstOfKind
<1>4. \A i : D!Identity(St(i)) = D!Identity(batch[i])
    BY OneIdentity
<1> HIDE DEF F
<1>5. (k + 1 \in F => N = K \cup {k + 1}) /\ (k + 1 \notin F => N = K)
  <2>1. \A j \in F : j <= k + 1 <=> (j <= k \/ j = k + 1)
    BY <1>1
  <2>2. \A j : j \in N <=> j \in F /\ (j <= k \/ j = k + 1)
    BY <2>1
  <2>3. \A j : j \in K <=> j \in F /\ j <= k
    OBVIOUS
  <2> HIDE DEF N, K
  <2>4. ASSUME k + 1 \in F PROVE N = K \cup {k + 1}
    BY <2>2, <2>3, <2>4
  <2>5. ASSUME k + 1 \notin F PROVE N = K
    BY <2>2, <2>3, <2>5
  <2> QED
    BY <2>4, <2>5
<1>6. \A j \in K : j \in 1 .. k
    BY <1>1
<1>7. St(k + 1) = row
    OBVIOUS
<1>8. \A j \in 1 .. k : Knows(R, batch[j])
    BY DEF KnowsUpTo
<1> HIDE DEF K, N, R, Q, St, row, e
<1>9. k + 1 \in F <=> ~Knows(R, e)
  <2>1. ASSUME k + 1 \in F, NEW r \in R PROVE D!Identity(r) # D!Identity(e)
    <3>1. CASE r \in S
      BY <1>3, <2>1, <3>1
    <3>2. CASE \E i \in K : r = St(i)
      BY <1>3, <1>4, <1>6, <2>1, <3>2
    <3> QED
      BY <1>2, <3>1, <3>2
  <2>2. ASSUME ~Knows(R, e) PROVE k + 1 \in F
    <3>1. \A r \in S : D!Identity(r) # D!Identity(e)
      BY <1>2, <2>2 DEF Knows
    <3>2. \A j \in 1 .. k : D!Identity(batch[j]) # D!Identity(e)
      BY <1>8, <2>2 DEF Knows
    <3> QED
      BY <1>3, <3>1, <3>2
  <2> QED
    BY <2>1, <2>2 DEF Knows
<1>10. CASE k + 1 \in F
  <2>1. {St(i) : i \in N} = {St(i) : i \in K} \cup {row}
    BY <1>5, <1>7, <1>10
  <2>2. Q = R \cup {row}
    BY <1>2, <2>1
  <2> QED
    BY <1>9, <1>10, <2>2 DEF OneMore, Q, R, row, e
<1>11. CASE k + 1 \notin F
  <2>1. N = K
    BY <1>5, <1>11
  <2>2. Q = R
    BY <1>2, <2>1
  <2> QED
    BY <1>9, <1>11, <2>2 DEF OneMore, Q, R, row, e
<1> QED
    BY <1>10, <1>11

\* One at a time, the same events are stored as at once.
LEMMA OneByOneStores ==
    ASSUME NEW s, NEW S, Enumerates(s, S), NEW batch, NEW L \in Nat, DOMAIN batch = 1 .. L, NEW at,
           NEW f, OneByOne(f, s, batch, at, L)
    PROVE  /\ Enumerates(f[L], StoredUpTo(S, batch, at, L))
           /\ KnowsUpTo(StoredUpTo(S, batch, at, L), batch, L)
PROOF
<1> DEFINE R(k) == StoredUpTo(S, batch, at, k)
           Good(k) == Enumerates(f[k], R(k)) /\ \A j \in 1 .. k : Knows(R(k), batch[j])
           C == {k \in Nat : k <= L => Good(k)}
<1>1. f[0] = s /\ \A n \in 1 .. L : f[n] = WithEvent(batch, at, f[n - 1], n)
    BY DEF OneByOne
<1>2. R(0) = S
  <2>1. {j \in FirstOfKind(S, batch) : j <= 0} = {}
    BY DEF FirstOfKind
  <2> QED
    BY <2>1 DEF StoredUpTo
<1> HIDE DEF R
<1>3. 0 \in C
    BY <1>1, <1>2
<1>4. ASSUME NEW k \in Nat, k \in C PROVE k + 1 \in C
  <2> SUFFICES ASSUME k + 1 <= L PROVE Good(k + 1)
    OBVIOUS
  <2> DEFINE e == batch[k + 1]
             row == D!Stored(e, at)
             r0 == f[k]
             r1 == f[k + 1]
             R0 == R(k)
             R1 == R(k + 1)
  <2>1. Enumerates(r0, R0) /\ \A j \in 1 .. k : Knows(R0, batch[j])
    BY <1>4
  <2>2. r1 = IF M!Has(r0, e) THEN r0 ELSE Append(r0, row)
    <3>1. k + 1 \in 1 .. L /\ (k + 1) - 1 = k
      OBVIOUS
    <3>2. r1 = WithEvent(batch, at, r0, k + 1)
      BY <1>1, <3>1
    <3> QED
      BY <3>2, OneIdentity DEF WithEvent
  <2>3. R1 = IF Knows(R0, e) THEN R0 ELSE R0 \cup {row}
    <3>1. k < L /\ KnowsUpTo(StoredUpTo(S, batch, at, k), batch, k)
      BY <2>1 DEF R, KnowsUpTo
    <3> HIDE DEF R, Good, C, e, row, r0, r1, R0, R1
    <3>2. OneMore(StoredUpTo(S, batch, at, k + 1), StoredUpTo(S, batch, at, k), batch[k + 1], at)
      BY <3>1, OneMoreEvent
    <3> QED
      BY <3>2 DEF OneMore, R, e, row, R0, R1
  <2>4. D!Identity(row) = D!Identity(e)
    BY OneIdentity
  <2>5. \A j \in 1 .. (k + 1) : j \in 1 .. k \/ j = k + 1
    OBVIOUS
  <2> HIDE DEF row, r0, r1, R0, R1
  <2>6. M!Has(r0, e) <=> Knows(R0, e)
    BY <2>1, HasIsKnows
  <2>7. Enumerates(r1, R1)
    <3>1. CASE Knows(R0, e)
      BY <2>1, <2>2, <2>3, <2>6, <3>1
    <3>2. CASE ~Knows(R0, e)
      <4>1. row \notin R0
        BY <2>4, <3>2 DEF Knows
      <4>2. Enumerates(Append(r0, row), R0 \cup {row})
        BY <2>1, <4>1, EnumerateOneMore
      <4> QED
        BY <2>2, <2>3, <2>6, <3>2, <4>2
    <3> QED
      BY <3>1, <3>2
  <2>8. Knows(R1, e)
    BY <2>3, <2>4 DEF Knows
  <2>9. \A j \in 1 .. k : Knows(R1, batch[j])
    BY <2>1, <2>3 DEF Knows
  <2> QED
    BY <2>5, <2>7, <2>8, <2>9 DEF r1, R1
<1>5. \A n \in Nat : n \in C => n + 1 \in C
    BY <1>4
<1> HIDE DEF C
<1>6. Nat \subseteq C
    BY <1>3, <1>5, NatSetInduction
<1>7. Good(L)
    BY <1>6 DEF C
<1> QED
    BY <1>7 DEF R, KnowsUpTo

AddedOneByOne(f, m, batch, at, y) ==
    /\ OneByOne(f, m.events, batch, at, Len(batch))
    /\ y = [db |-> [m EXCEPT !.events = f[Len(batch)]], answer |-> Len(f[Len(batch)]) - Len(m.events)]

\* events.append() of memory,
LEMMA BatchOneByOne ==
    ASSUME NEW m, NEW batch, NEW at, Len(batch) \in Nat, NEW y, y = M!EventsAppend(m, batch, at)
    PROVE  \E f : AddedOneByOne(f, m, batch, at, y)
PROOF
<1> DEFINE F == CHOOSE f : OneByOne(f, m.events, batch, at, Len(batch))
<1>1. OneByOne(F, m.events, batch, at, Len(batch))
  <2>1. \E f : OneByOne(f, m.events, batch, at, Len(batch))
    BY OneByOneExists
  <2> QED
    BY <2>1
<1>2. y = [db |-> [m EXCEPT !.events = F[Len(batch)]], answer |-> Len(F[Len(batch)]) - Len(m.events)]
    BY DEF M!EventsAppend, M!Gives, OneByOne, WithEvent
<1> HIDE DEF F
<1> QED
    BY <1>1, <1>2 DEF AddedOneByOne

NewEvents(S, batch, at) == {D!Stored(batch[i], at) : i \in FirstOfKind(S, batch)}
WithEvents(d, T) == [db |-> [d EXCEPT !.events = @ \cup T], answers |-> {Cardinality(T)}]

\* and of PostgreSQL.
LEMMA BatchAtOnce ==
    ASSUME NEW d, NEW batch, NEW at
    PROVE  D!EventsAppend(d, batch, at) = WithEvents(d, NewEvents(d.events, batch, at))
PROOF
<1> DEFINE kept == {i \in DOMAIN batch : /\ D!Identity(batch[i]) \notin {D!Identity(r) : r \in d.events}
                                         /\ \A j \in 1 .. (i - 1) : D!Identity(batch[j]) # D!Identity(batch[i])}
<1>1. kept = FirstOfKind(d.events, batch)
    BY DEF FirstOfKind
<1>2. D!EventsAppend(d, batch, at)
        = [db |-> [d EXCEPT !.events = @ \cup {D!Stored(batch[i], at) : i \in kept}],
           answers |-> {D!Cardinality({D!Stored(batch[i], at) : i \in kept})}]
    BY DEF D!EventsAppend, D!Gives
<1> HIDE DEF kept
<1> QED
    BY <1>1, <1>2, OneCardinality DEF WithEvents, NewEvents

\* Whatever of the batch was there before, both stores keep the first event of each identity.
LEMMA AppendEventsAgrees ==
    ASSUME StoresAssumption, NEW d, NEW m, NEW at \in Nat, Sound(d, m, at), NEW batch \in EventBatches,
           NEW x, x = D!EventsAppend(d, batch, at), NEW y, y = M!EventsAppend(m, batch, at)
    PROVE  Agree(x, y, at) /\ D!EventsAppend(After(x), batch, at).db = After(x)
PROOF
<1> DEFINE s == m.events
           S == d.events
           L == Len(batch)
           T == NewEvents(S, batch, at)
           e == [d EXCEPT !.events = @ \cup T]
<1>1. /\ DOMAIN batch = 1 .. L /\ L \in Nat
      /\ \A i \in DOMAIN batch : batch[i].blockNumber \in Nat /\ batch[i].logIndex \in Nat
    BY DEF StoresAssumption
<1>2. Enumerates(s, S) /\ EventsSound(S) /\ DOMAIN d = Tables \cup {"nextId"} /\ DOMAIN m = Tables \cup {"nextId"}
      /\ m.nextId = d.nextId /\ "events" \in Tables
    BY DEF Sound, TableSound, Tables
<1>3. x = WithEvents(d, T)
    BY BatchAtOnce
<1>4. PICK f : AddedOneByOne(f, m, batch, at, y)
    BY <1>1, BatchOneByOne
<1>5. OneByOne(f, s, batch, at, L) /\ y = [db |-> [m EXCEPT !.events = f[L]], answer |-> Len(f[L]) - Len(s)]
    BY <1>4 DEF AddedOneByOne
<1>6. StoredUpTo(S, batch, at, L) = S \cup T
  <2>1. {j \in FirstOfKind(S, batch) : j <= L} = FirstOfKind(S, batch)
    BY <1>1 DEF FirstOfKind
  <2> QED
    BY <2>1 DEF StoredUpTo, NewEvents
<1>7. After(x) = e /\ x.answers = {Cardinality(T)}
    BY <1>3 DEF WithEvents, After
<1>8. \A r \in T : \E i \in DOMAIN batch : r = D!Stored(batch[i], at) /\ i \in FirstOfKind(S, batch)
    BY DEF FirstOfKind, NewEvents
<1>9. \A r \in T : r.blockNumber \in Nat /\ r.logIndex \in Nat
    BY <1>1, <1>8 DEF D!Stored
<1>10. \A r \in T : \A q \in S : D!Identity(q) # D!Identity(r)
  <2> SUFFICES ASSUME NEW r \in T PROVE \A q \in S : D!Identity(q) # D!Identity(r)
    OBVIOUS
  <2>1. PICK i \in DOMAIN batch : r = D!Stored(batch[i], at) /\ i \in FirstOfKind(S, batch)
    BY <1>8
  <2>2. D!Identity(r) = D!Identity(batch[i])
    BY <2>1, OneIdentity
  <2> QED
    BY <2>1, <2>2 DEF FirstOfKind
<1>11. \A r, q \in T : D!Identity(q) = D!Identity(r) => q = r
  <2> SUFFICES ASSUME NEW r \in T, NEW q \in T, D!Identity(q) = D!Identity(r) PROVE q = r
    OBVIOUS
  <2>1. PICK i \in DOMAIN batch : r = D!Stored(batch[i], at) /\ i \in FirstOfKind(S, batch)
    BY <1>8
  <2>2. PICK j \in DOMAIN batch : q = D!Stored(batch[j], at) /\ j \in FirstOfKind(S, batch)
    BY <1>8
  <2>3. D!Identity(batch[i]) = D!Identity(batch[j])
    BY <2>1, <2>2, OneIdentity
  <2>4. ~(i < j) /\ ~(j < i)
    <3>1. (i < j => i \in 1 .. (j - 1)) /\ (j < i => j \in 1 .. (i - 1))
      BY <1>1
    <3> QED
      BY <2>1, <2>2, <2>3, <3>1 DEF FirstOfKind
  <2> QED
    BY <1>1, <2>1, <2>2, <2>4
<1> HIDE DEF s, S, T, L, e
<1>12. Enumerates(f[L], S \cup T) /\ KnowsUpTo(S \cup T, batch, L)
  <2>1. L \in Nat /\ DOMAIN batch = 1 .. L
    BY <1>1
  <2>2. Enumerates(f[L], StoredUpTo(S, batch, at, L)) /\ KnowsUpTo(StoredUpTo(S, batch, at, L), batch, L)
    BY <1>2, <1>5, <2>1, OneByOneStores
  <2> QED
    BY <1>6, <2>2
<1>13. Len(f[L]) - Len(s) = Cardinality(T)
  <2> DEFINE U == S \cup T
             long == f[L]
  <2>1. S \cap T = {}
    BY <1>10
  <2>2. IsFiniteSet(S) /\ Cardinality(S) = Len(s) /\ Len(s) \in Nat
    BY <1>2, EnumerationIsWhole
  <2>3. IsFiniteSet(U) /\ Cardinality(U) = Len(long)
    <3> HIDE DEF U, long
    <3>1. Enumerates(long, U)
      BY <1>12 DEF U, long
    <3> QED
      BY <3>1, EnumerationIsWhole
  <2>4. IsFiniteSet(T)
    BY <2>3, FS_Subset
  <2>5. Cardinality(U) = Cardinality(S) + Cardinality(T) /\ Cardinality(T) \in Nat
    <3>1. Cardinality(S \cup T) = Cardinality(S) + Cardinality(T) - Cardinality(S \cap T)
      BY <2>2, <2>4, FS_Union
    <3>2. Cardinality({}) = 0 /\ Cardinality(S) \in Nat /\ Cardinality(T) \in Nat
      BY <2>2, <2>4, FS_EmptySet, FS_CardinalityType
    <3>3. Cardinality(S \cap T) = 0
      BY <2>1, <3>2
    <3>4. Cardinality(U) = Cardinality(S) + Cardinality(T) - Cardinality(S \cap T)
      BY <3>1
    <3> HIDE DEF U
    <3> QED
      BY <3>2, <3>3, <3>4
  <2> QED
    BY <2>2, <2>3, <2>5
<1>14. y.answer \in x.answers
    BY <1>5, <1>7, <1>13
<1>15. EventsSound(S \cup T)
    BY <1>2, <1>9, <1>10, <1>11 DEF EventsSound
<1> DEFINE n == After(y)
<1>16. OneTable("events", d, m, e, n) /\ n.events = f[L] /\ e.events = S \cup T /\ e.nextId = d.nextId
    BY <1>2, <1>5 DEF OneTable, After, e, Tables, S
<1>17. TableSound("events", n["events"], e["events"], e.nextId, at)
    BY <1>12, <1>15, <1>16 DEF TableSound
<1>18. Sound(e, n, at)
  <2> HIDE DEF n
  <2> QED
    BY <1>2, <1>16, <1>17, OneTableIsEnough
<1>19. NewEvents(e.events, batch, at) = {}
  <2>1. \A i \in DOMAIN batch : Knows(e.events, batch[i])
    BY <1>1, <1>12, <1>16 DEF KnowsUpTo, L
  <2>2. FirstOfKind(e.events, batch) = {}
    BY <2>1 DEF FirstOfKind, Knows
  <2> QED
    BY <2>2 DEF NewEvents
<1>20. [e EXCEPT !["events"] = @ \cup {}] = e
  <2>1. e = [d EXCEPT !["events"] = @ \cup T] /\ "events" \in DOMAIN d
    BY <1>2 DEF e
  <2> QED
    BY <2>1, UnionSettles
<1>21. D!EventsAppend(e, batch, at).db = e
  <2>1. D!EventsAppend(e, batch, at) = WithEvents(e, {})
    BY <1>19, BatchAtOnce
  <2> QED
    BY <1>20, <2>1 DEF WithEvents
<1> QED
    BY <1>7, <1>14, <1>18, <1>21 DEF Agree

-----------------------------------------------------------------------------
(* That every call keeps the two in agreement. *)

\* What the other subjects need not say.
Keeps(x, y) ==
    /\ subject = "resolutions" => Len(ResolutionsIn(After(y))) <= calls + 1
    /\ subject \in {"resolutions", "documents"} => MarketsOf(After(x)) = MarketsOf(db)

\* A statement that leaves the same tables when it is run again, and one that does not.
LEMMA SettledAgrees ==
    ASSUME AgreeIInv, NEW repeat, NEW runs, NEW reference, Attempts(repeat, runs, reference),
           NEW x1, NEW x2, NEW x3, NEW x4, runs = <<x1, x2, x3, x4>>,
           Agree(x1, reference, now), Keeps(x1, reference),
           x2.db = x1.db, repeat = "same" => x2 = x1,
           x2.db = x1.db => x3 = x2, x3.db = x2.db => x4 = x3
    PROVE  AgreeIInv'
PROOF
<1>1. runs[1] = x1 /\ runs[2] = x2 /\ runs[3] = x3 /\ runs[4] = x4
    OBVIOUS
<1>2. x3 = x2 /\ x4 = x2
    OBVIOUS
<1>3. runs[2].db = runs[1].db /\ runs[3].db = runs[1].db /\ runs[4].db = runs[1].db
    BY <1>1, <1>2
<1>4. repeat = "same" => runs[2] = runs[1] /\ runs[3] = runs[1] /\ runs[4] = runs[1]
    BY <1>1, <1>2
<1>5. Agree(runs[1], reference, now) /\ Keeps(runs[1], reference)
    BY <1>1
<1> QED
    BY <1>3, <1>4, <1>5, CallAgrees DEF Keeps

\* A statement that has another effect when it is run again agrees when it is run once.
LEMMA OnceAgrees ==
    ASSUME AgreeIInv, NEW runs, NEW reference, Attempts("otherEffect", runs, reference),
           NEW x1, NEW x2, NEW x3, NEW x4, runs = <<x1, x2, x3, x4>>,
           Agree(x1, reference, now), Keeps(x1, reference)
    PROVE  AgreeIInv'
PROOF
<1>1. runs[1] = x1
    OBVIOUS
<1>2. Agree(runs[1], reference, now) /\ Keeps(runs[1], reference)
    BY <1>1
<1> QED
    BY <1>2, CallAgrees DEF Keeps

\* The tables a call is made on are sound.
LEMMA TablesOfCall ==
    ASSUME AgreeIInv, NEW repeat, NEW runs, NEW reference, Attempts(repeat, runs, reference)
    PROVE  now \in Nat /\ Sound(db, mem, now)
           /\ (subject = "resolutions" => /\ Len(ResolutionsIn(mem)) \in Nat /\ Len(ResolutionsIn(mem)) <= calls
                                           /\ calls \in Nat)
           /\ (subject \in {"resolutions", "documents"} => D!Refers(db, h0))
PROOF
<1>1. Sound(db, mem, now)
    BY DEF AgreeIInv, Attempts
<1>2. Enumerates(ResolutionsIn(mem), db["resolutions"])
    BY <1>1 DEF Sound, TableSound, Tables, ResolutionsIn
<1>3. Len(ResolutionsIn(mem)) \in Nat
    BY <1>2, EnumerationIsWhole
<1> QED
    BY <1>1, <1>3 DEF AgreeIInv, Attempts

TouchRuns(w) == LET Run(d) == D!WalletsTouch(d, w, now) IN Runs(Run)
CreateSessionRuns(w) == LET Run(d) == D!SessionsCreate(d, w, now) IN Runs(Run)
AppendTurnRuns(id, role) == LET Run(d) == D!SessionsAppendTurn(d, id, role, now) IN Runs(Run)
MarkCompiledRuns(id) == LET Run(d) == D!SessionsMarkCompiled(d, id, now) IN Runs(Run)
SaveCompilationRuns(h, id) == LET Run(d) == D!CompilationsSave(d, h, id, now) IN Runs(Run)

\* The calls of the compiler,
LEMMA AgreeAfterCompilerCalls ==
    ASSUME AgreeIInv, CompilerCalls
    PROVE  AgreeIInv'
PROOF
<1>1. \A x, y : Keeps(x, y)
    BY DEF CompilerCalls, Keeps
<1>2. CASE TouchWallet
  <2>1. PICK w \in Wallets :
          Attempts("same", TouchRuns(w), M!WalletsTouch(mem, w, now))
    BY <1>2 DEF TouchWallet, Guard, TouchRuns, Runs
  <2>2. now \in Nat /\ Sound(db, mem, now)
    BY <2>1, TablesOfCall
  <2> DEFINE X(e) == D!WalletsTouch(e, w, now)
             y == M!WalletsTouch(mem, w, now)
  <2>3. Agree(X(db), y, now) /\ X(X(db).db) = X(db)
    BY <2>1, <2>2, TouchAgrees DEF After
  <2>4. TouchRuns(w) = <<X(db), X(X(db).db), X(X(X(db).db).db), X(X(X(X(db).db).db).db)>>
    BY DEF TouchRuns, Runs
  <2>5. Attempts("same", TouchRuns(w), y)
    BY <2>1
  <2> HIDE DEF X, y
  <2> QED
    BY <1>1, <2>3, <2>4, <2>5, SettledAgrees
<1>3. CASE CreateSession
  <2>1. PICK w \in Wallets :
          Attempts("otherEffect", CreateSessionRuns(w), M!SessionsCreate(mem, w, now))
    BY <1>3 DEF CreateSession, Guard, CreateSessionRuns, Runs
  <2>2. now \in Nat /\ Sound(db, mem, now)
    BY <2>1, TablesOfCall
  <2> DEFINE X(e) == D!SessionsCreate(e, w, now)
             y == M!SessionsCreate(mem, w, now)
  <2>3. Agree(X(db), y, now)
    BY <2>1, <2>2, CreateSessionAgrees DEF After
  <2>4. CreateSessionRuns(w) = <<X(db), X(X(db).db), X(X(X(db).db).db), X(X(X(X(db).db).db).db)>>
    BY DEF CreateSessionRuns, Runs
  <2>5. Attempts("otherEffect", CreateSessionRuns(w), y)
    BY <2>1
  <2> HIDE DEF X, y
  <2> QED
    BY <1>1, <2>3, <2>4, <2>5, OnceAgrees
<1>4. CASE FindSession
  <2>1. PICK id \in Sessions \cup {0} :
          Read(D!SessionsFindById(db, id), M!SessionsFindById(mem, id))
    BY <1>4 DEF FindSession
  <2>2. D!SessionsFindById(db, id).db = db /\ M!SessionsFindById(mem, id).db = mem
    BY DEF D!SessionsFindById, M!SessionsFindById, D!MayGive, M!Gives
  <2>3. Sound(db, mem, now) => M!SessionsFindById(mem, id).answer \in D!SessionsFindById(db, id).answers
    BY LookupsAgree
  <2> QED
    BY <2>1, <2>2, <2>3, ReadAgrees
<1>5. CASE ListTurns
  <2>1. PICK id \in Sessions :
          Read(D!SessionsListTurns(db, id), M!SessionsListTurns(mem, id))
    BY <1>5 DEF ListTurns
  <2>2. D!SessionsListTurns(db, id).db = db /\ M!SessionsListTurns(mem, id).db = mem
    BY DEF D!SessionsListTurns, M!SessionsListTurns, D!MayGive, M!Gives
  <2>3. Sound(db, mem, now) => M!SessionsListTurns(mem, id).answer \in D!SessionsListTurns(db, id).answers
    BY ListTurnsAgrees
  <2> QED
    BY <2>1, <2>2, <2>3, ReadAgrees
<1>6. CASE AppendTurn
  <2>1. PICK id \in Sessions \cup {0} :
          \E role \in {"user", "assistant"} : Attempts("otherEffect", AppendTurnRuns(id, role), M!SessionsAppendTurn(mem, id, role, now))
    BY <1>6 DEF AppendTurn, Guard, AppendTurnRuns, Runs
  <2>2. PICK role \in {"user", "assistant"} :
          Attempts("otherEffect", AppendTurnRuns(id, role), M!SessionsAppendTurn(mem, id, role, now))
    BY <2>1
  <2>3. now \in Nat /\ Sound(db, mem, now)
    BY <2>2, TablesOfCall
  <2> DEFINE X(e) == D!SessionsAppendTurn(e, id, role, now)
             y == M!SessionsAppendTurn(mem, id, role, now)
  <2>4. Agree(X(db), y, now)
    BY <2>2, <2>3, AppendTurnAgrees DEF After
  <2>5. AppendTurnRuns(id, role) = <<X(db), X(X(db).db), X(X(X(db).db).db), X(X(X(X(db).db).db).db)>>
    BY DEF AppendTurnRuns, Runs
  <2>6. Attempts("otherEffect", AppendTurnRuns(id, role), y)
    BY <2>2
  <2> HIDE DEF X, y
  <2> QED
    BY <1>1, <2>4, <2>5, <2>6, OnceAgrees
<1>7. CASE MarkCompiled
  <2>1. PICK id \in Sessions :
          Attempts("same", MarkCompiledRuns(id), M!SessionsMarkCompiled(mem, id, now))
    BY <1>7 DEF MarkCompiled, Guard, MarkCompiledRuns, Runs
  <2>2. now \in Nat /\ Sound(db, mem, now)
    BY <2>1, TablesOfCall
  <2> DEFINE X(e) == D!SessionsMarkCompiled(e, id, now)
             y == M!SessionsMarkCompiled(mem, id, now)
  <2>3. Agree(X(db), y, now) /\ X(X(db).db) = X(db)
    BY <2>1, <2>2, MarkCompiledAgrees DEF After
  <2>4. MarkCompiledRuns(id) = <<X(db), X(X(db).db), X(X(X(db).db).db), X(X(X(X(db).db).db).db)>>
    BY DEF MarkCompiledRuns, Runs
  <2>5. Attempts("same", MarkCompiledRuns(id), y)
    BY <2>1
  <2> HIDE DEF X, y
  <2> QED
    BY <1>1, <2>3, <2>4, <2>5, SettledAgrees
<1>8. CASE SaveCompilation
  <2>1. PICK h \in Hashes :
          \E id \in Sessions : (\A c \in db.compilations : c.rulesHash # h) /\ Attempts("same", SaveCompilationRuns(h, id), M!CompilationsSave(mem, h, id, now))
    BY <1>8 DEF SaveCompilation, Guard, SaveCompilationRuns, Runs
  <2>2. PICK id \in Sessions :
          (\A c \in db.compilations : c.rulesHash # h) /\ Attempts("same", SaveCompilationRuns(h, id), M!CompilationsSave(mem, h, id, now))
    BY <2>1
  <2>3. now \in Nat /\ Sound(db, mem, now)
    BY <2>2, TablesOfCall
  <2> DEFINE X(e) == D!CompilationsSave(e, h, id, now)
             y == M!CompilationsSave(mem, h, id, now)
  <2>4. Agree(X(db), y, now) /\ X(X(db).db) = X(db)
    BY <2>2, <2>3, SaveCompilationAgrees DEF After
  <2>5. SaveCompilationRuns(h, id) = <<X(db), X(X(db).db), X(X(X(db).db).db), X(X(X(X(db).db).db).db)>>
    BY DEF SaveCompilationRuns, Runs
  <2>6. Attempts("same", SaveCompilationRuns(h, id), y)
    BY <2>2
  <2> HIDE DEF X, y
  <2> QED
    BY <1>1, <2>4, <2>5, <2>6, SettledAgrees
<1>9. CASE FindCompilation
  <2>1. PICK h \in Hashes :
          Read(D!CompilationsFind(db, h), M!CompilationsFind(mem, h))
    BY <1>9 DEF FindCompilation
  <2>2. D!CompilationsFind(db, h).db = db /\ M!CompilationsFind(mem, h).db = mem
    BY DEF D!CompilationsFind, M!CompilationsFind, D!MayGive, M!Gives
  <2>3. Sound(db, mem, now) => M!CompilationsFind(mem, h).answer \in D!CompilationsFind(db, h).answers
    BY LookupsAgree
  <2> QED
    BY <2>1, <2>2, <2>3, ReadAgrees
<1> QED
    BY <1>2, <1>3, <1>4, <1>5, <1>6, <1>7, <1>8, <1>9 DEF CompilerCalls

AppendEventsRuns(batch) == LET Run(d) == D!EventsAppend(d, batch, now) IN Runs(Run)
DeleteEventsRuns(n) == LET Run(d) == D!EventsDeleteFromBlock(d, n) IN Runs(Run)

\* those of the indexer on events,
LEMMA AgreeAfterEventCalls ==
    ASSUME AgreeIInv, EventCalls
    PROVE  AgreeIInv'
PROOF
<1>1. \A x, y : Keeps(x, y)
    BY DEF EventCalls, Keeps
<1>2. CASE AppendEvents
  <2>1. PICK batch \in EventBatches :
          Attempts("otherAnswer", AppendEventsRuns(batch), M!EventsAppend(mem, batch, now))
    BY <1>2 DEF AppendEvents, Guard, AppendEventsRuns, Runs
  <2>2. now \in Nat /\ Sound(db, mem, now)
    BY <2>1, TablesOfCall
  <2> DEFINE X(e) == D!EventsAppend(e, batch, now)
             y == M!EventsAppend(mem, batch, now)
  <2>3. Agree(X(db), y, now) /\ X(X(db).db).db = X(db).db
    BY <2>1, <2>2, AppendEventsAgrees, StoresAssumption DEF After
  <2>4. AppendEventsRuns(batch) = <<X(db), X(X(db).db), X(X(X(db).db).db), X(X(X(X(db).db).db).db)>>
    BY DEF AppendEventsRuns, Runs
  <2>5. Attempts("otherAnswer", AppendEventsRuns(batch), y)
    BY <2>1
  <2> HIDE DEF X, y
  <2> QED
    BY <1>1, <2>3, <2>4, <2>5, SettledAgrees
<1>3. CASE DeleteEvents
  <2>1. PICK n \in BlockNumbers :
          Attempts("otherAnswer", DeleteEventsRuns(n), M!EventsDeleteFromBlock(mem, n))
    BY <1>3 DEF DeleteEvents, Guard, DeleteEventsRuns, Runs
  <2>2. now \in Nat /\ Sound(db, mem, now)
    BY <2>1, TablesOfCall
  <2> DEFINE X(e) == D!EventsDeleteFromBlock(e, n)
             y == M!EventsDeleteFromBlock(mem, n)
  <2>3. Agree(X(db), y, now) /\ X(X(db).db).db = X(db).db
    BY <2>1, <2>2, DeleteEventsAgrees DEF After
  <2>4. DeleteEventsRuns(n) = <<X(db), X(X(db).db), X(X(X(db).db).db), X(X(X(X(db).db).db).db)>>
    BY DEF DeleteEventsRuns, Runs
  <2>5. Attempts("otherAnswer", DeleteEventsRuns(n), y)
    BY <2>1
  <2> HIDE DEF X, y
  <2> QED
    BY <1>1, <2>3, <2>4, <2>5, SettledAgrees
<1>4. CASE ReadEvents
  <2>1. ASSUME Read(D!EventsListByMarket(db, 1), M!EventsListByMarket(mem, 1)) PROVE AgreeIInv'
    <3>1. D!EventsListByMarket(db, 1).db = db /\ M!EventsListByMarket(mem, 1).db = mem
      BY DEF D!EventsListByMarket, D!MayGive, M!EventsListByMarket, M!Gives
    <3>2. Sound(db, mem, now) => M!EventsListByMarket(mem, 1).answer \in D!EventsListByMarket(db, 1).answers
      BY ListEventsAgrees
    <3> QED
      BY <2>1, <3>1, <3>2, ReadAgrees
  <2>2. ASSUME NEW h \in Hashes, Read(D!EventsListByRulesHash(db, h), M!EventsListByRulesHash(mem, h))
        PROVE AgreeIInv'
    <3>1. D!EventsListByRulesHash(db, h).db = db /\ M!EventsListByRulesHash(mem, h).db = mem
      BY DEF D!EventsListByRulesHash, D!MayGive, M!EventsListByRulesHash, M!Gives
    <3>2. Sound(db, mem, now) => M!EventsListByRulesHash(mem, h).answer \in D!EventsListByRulesHash(db, h).answers
      BY ListEventsAgrees
    <3> QED
      BY <2>2, <3>1, <3>2, ReadAgrees
  <2>3. ASSUME Read(D!EventsCount(db), M!EventsCount(mem)) PROVE AgreeIInv'
    <3>1. D!EventsCount(db).db = db /\ M!EventsCount(mem).db = mem
      BY DEF D!EventsCount, D!Gives, M!EventsCount, M!Gives
    <3>2. Sound(db, mem, now) => M!EventsCount(mem).answer \in D!EventsCount(db).answers
      BY CountEventsAgrees
    <3> QED
      BY <2>3, <3>1, <3>2, ReadAgrees
  <2>4. ASSUME Read(D!EventsFindDuplicates(db), M!EventsFindDuplicates(mem)) PROVE AgreeIInv'
    <3>1. D!EventsFindDuplicates(db).db = db /\ M!EventsFindDuplicates(mem).db = mem
      BY DEF D!EventsFindDuplicates, D!MayGive, M!EventsFindDuplicates, M!Gives
    <3>2. Sound(db, mem, now) => M!EventsFindDuplicates(mem).answer \in D!EventsFindDuplicates(db).answers
      BY FindDuplicatesAgrees
    <3> QED
      BY <2>4, <3>1, <3>2, ReadAgrees
  <2> QED
    BY <1>4, <2>1, <2>2, <2>3, <2>4 DEF ReadEvents
<1> QED
    BY <1>2, <1>3, <1>4 DEF EventCalls

LoadCheckpointRuns(start) == LET Run(d) == D!CheckpointsLoadOrCreate(d, start, now) IN Runs(Run)
SaveCheckpointRuns(n, hash) == LET Run(d) == D!CheckpointsSave(d, n, hash, now) IN Runs(Run)
RewindRuns(n) == LET Run(d) == D!CheckpointsRewind(d, n, now) IN Runs(Run)
RecordBlockRuns(n, hash) == LET Run(d) == D!BlocksRecord(d, n, hash) IN Runs(Run)
DeleteBlocksRuns(n) == LET Run(d) == D!BlocksDeleteFrom(d, n) IN Runs(Run)
PruneBlocksRuns(n) == LET Run(d) == D!BlocksPruneBelow(d, n) IN Runs(Run)

\* on checkpoints and recent blocks,
LEMMA AgreeAfterCheckpointCalls ==
    ASSUME AgreeIInv, CheckpointCalls
    PROVE  AgreeIInv'
PROOF
<1>1. \A x, y : Keeps(x, y)
    BY DEF CheckpointCalls, Keeps
<1>2. CASE LoadCheckpoint
  <2>1. PICK start \in {0, 1} :
          Attempts("same", LoadCheckpointRuns(start), M!CheckpointsLoadOrCreate(mem, start, now))
    BY <1>2 DEF LoadCheckpoint, Guard, LoadCheckpointRuns, Runs
  <2>2. now \in Nat /\ Sound(db, mem, now)
    BY <2>1, TablesOfCall
  <2> DEFINE X(e) == D!CheckpointsLoadOrCreate(e, start, now)
             y == M!CheckpointsLoadOrCreate(mem, start, now)
  <2>3. Agree(X(db), y, now) /\ X(X(db).db) = X(db)
    BY <2>1, <2>2, LoadCheckpointAgrees DEF After
  <2>4. LoadCheckpointRuns(start) = <<X(db), X(X(db).db), X(X(X(db).db).db), X(X(X(X(db).db).db).db)>>
    BY DEF LoadCheckpointRuns, Runs
  <2>5. Attempts("same", LoadCheckpointRuns(start), y)
    BY <2>1
  <2> HIDE DEF X, y
  <2> QED
    BY <1>1, <2>3, <2>4, <2>5, SettledAgrees
<1>3. CASE SaveCheckpoint
  <2>1. PICK n \in BlockNumbers :
          \E hash \in {Null, "a"} : Attempts("same", SaveCheckpointRuns(n, hash), M!CheckpointsSave(mem, n, hash, now))
    BY <1>3 DEF SaveCheckpoint, Guard, SaveCheckpointRuns, Runs
  <2>2. PICK hash \in {Null, "a"} :
          Attempts("same", SaveCheckpointRuns(n, hash), M!CheckpointsSave(mem, n, hash, now))
    BY <2>1
  <2>3. now \in Nat /\ Sound(db, mem, now)
    BY <2>2, TablesOfCall
  <2> DEFINE X(e) == D!CheckpointsSave(e, n, hash, now)
             y == M!CheckpointsSave(mem, n, hash, now)
  <2>4. Agree(X(db), y, now) /\ X(X(db).db) = X(db)
    BY <2>2, <2>3, CheckpointAgrees DEF After
  <2>5. SaveCheckpointRuns(n, hash) = <<X(db), X(X(db).db), X(X(X(db).db).db), X(X(X(X(db).db).db).db)>>
    BY DEF SaveCheckpointRuns, Runs
  <2>6. Attempts("same", SaveCheckpointRuns(n, hash), y)
    BY <2>2
  <2> HIDE DEF X, y
  <2> QED
    BY <1>1, <2>4, <2>5, <2>6, SettledAgrees
<1>4. CASE Rewind
  <2>1. PICK n \in BlockNumbers :
          Attempts("otherEffect", RewindRuns(n), M!CheckpointsRewind(mem, n, now))
    BY <1>4 DEF Rewind, Guard, RewindRuns, Runs
  <2>2. now \in Nat /\ Sound(db, mem, now)
    BY <2>1, TablesOfCall
  <2> DEFINE X(e) == D!CheckpointsRewind(e, n, now)
             y == M!CheckpointsRewind(mem, n, now)
  <2>3. Agree(X(db), y, now)
    BY <2>1, <2>2, RewindAgrees DEF After
  <2>4. RewindRuns(n) = <<X(db), X(X(db).db), X(X(X(db).db).db), X(X(X(X(db).db).db).db)>>
    BY DEF RewindRuns, Runs
  <2>5. Attempts("otherEffect", RewindRuns(n), y)
    BY <2>1
  <2> HIDE DEF X, y
  <2> QED
    BY <1>1, <2>3, <2>4, <2>5, OnceAgrees
<1>5. CASE RecordBlock
  <2>1. PICK n \in BlockNumbers :
          \E hash \in {"a", "b"} : Attempts("same", RecordBlockRuns(n, hash), M!BlocksRecord(mem, n, hash))
    BY <1>5 DEF RecordBlock, Guard, RecordBlockRuns, Runs
  <2>2. PICK hash \in {"a", "b"} :
          Attempts("same", RecordBlockRuns(n, hash), M!BlocksRecord(mem, n, hash))
    BY <2>1
  <2>3. now \in Nat /\ Sound(db, mem, now)
    BY <2>2, TablesOfCall
  <2>4. n \in Nat
    BY StoresAssumption DEF StoresAssumption
  <2> DEFINE X(e) == D!BlocksRecord(e, n, hash)
             y == M!BlocksRecord(mem, n, hash)
  <2>5. Agree(X(db), y, now) /\ X(X(db).db) = X(db)
    BY <2>2, <2>3, <2>4, RecordBlockAgrees DEF After
  <2>6. RecordBlockRuns(n, hash) = <<X(db), X(X(db).db), X(X(X(db).db).db), X(X(X(X(db).db).db).db)>>
    BY DEF RecordBlockRuns, Runs
  <2>7. Attempts("same", RecordBlockRuns(n, hash), y)
    BY <2>2
  <2> HIDE DEF X, y
  <2> QED
    BY <1>1, <2>5, <2>6, <2>7, SettledAgrees
<1>6. CASE RecentBlocks
  <2>1. PICK n \in BlockNumbers :
          Read(D!BlocksRecent(db, n), M!BlocksRecent(mem, n))
    BY <1>6 DEF RecentBlocks
  <2>2. D!BlocksRecent(db, n).db = db /\ M!BlocksRecent(mem, n).db = mem
    BY DEF D!BlocksRecent, M!BlocksRecent, D!MayGive, M!Gives
  <2>3. Sound(db, mem, now) => M!BlocksRecent(mem, n).answer \in D!BlocksRecent(db, n).answers
    BY RecentBlocksAgree
  <2> QED
    BY <2>1, <2>2, <2>3, ReadAgrees
<1>7. CASE DeleteBlocks
  <2>1. ASSUME NEW n \in BlockNumbers, Attempts("otherAnswer", DeleteBlocksRuns(n), M!BlocksDeleteFrom(mem, n))
        PROVE AgreeIInv'
    <3>2. now \in Nat /\ Sound(db, mem, now)
      BY <2>1, TablesOfCall
    <3> DEFINE X(e) == D!BlocksDeleteFrom(e, n)
               y == M!BlocksDeleteFrom(mem, n)
    <3>3. Agree(X(db), y, now) /\ X(X(db).db).db = X(db).db
      BY <2>1, <3>2, DeleteBlocksAgrees DEF After
    <3>4. DeleteBlocksRuns(n) = <<X(db), X(X(db).db), X(X(X(db).db).db), X(X(X(X(db).db).db).db)>>
      BY DEF DeleteBlocksRuns, Runs
    <3>5. Attempts("otherAnswer", DeleteBlocksRuns(n), y)
      BY <2>1
    <3> HIDE DEF X, y
    <3> QED
      BY <1>1, <3>3, <3>4, <3>5, SettledAgrees
  <2>2. ASSUME NEW n \in BlockNumbers, Attempts("otherAnswer", PruneBlocksRuns(n), M!BlocksPruneBelow(mem, n))
        PROVE AgreeIInv'
    <3>2. now \in Nat /\ Sound(db, mem, now)
      BY <2>2, TablesOfCall
    <3> DEFINE X(e) == D!BlocksPruneBelow(e, n)
               y == M!BlocksPruneBelow(mem, n)
    <3>3. Agree(X(db), y, now) /\ X(X(db).db).db = X(db).db
      BY <2>2, <3>2, PruneBlocksAgrees DEF After
    <3>4. PruneBlocksRuns(n) = <<X(db), X(X(db).db), X(X(X(db).db).db), X(X(X(X(db).db).db).db)>>
      BY DEF PruneBlocksRuns, Runs
    <3>5. Attempts("otherAnswer", PruneBlocksRuns(n), y)
      BY <2>2
    <3> HIDE DEF X, y
    <3> QED
      BY <1>1, <3>3, <3>4, <3>5, SettledAgrees
  <2>3. \E n \in BlockNumbers :
          \/ Attempts("otherAnswer", DeleteBlocksRuns(n), M!BlocksDeleteFrom(mem, n))
          \/ Attempts("otherAnswer", PruneBlocksRuns(n), M!BlocksPruneBelow(mem, n))
    BY <1>7 DEF DeleteBlocks, Guard, DeleteBlocksRuns, PruneBlocksRuns, Runs
  <2> QED
    BY <2>1, <2>2, <2>3
<1> QED
    BY <1>2, <1>3, <1>4, <1>5, <1>6, <1>7 DEF CheckpointCalls

UpsertRuns(a, h, s) == LET Run(d) == D!ChainStateUpsert(d, a, MarketIdOf[h], h, s, now) IN Runs(Run)
DeleteChainStateRuns(a) == LET Run(d) == D!ChainStateDelete(d, a) IN Runs(Run)

\* those of the indexer and of the reconciler on the state of the chain,
LEMMA AgreeAfterChainStateCalls ==
    ASSUME AgreeIInv, ChainStateCalls
    PROVE  AgreeIInv'
PROOF
<1>1. \A x, y : Keeps(x, y)
    BY DEF ChainStateCalls, Keeps
<1>2. CASE UpsertChainState
  <2>1. PICK h \in Hashes :
          \E s \in {"Open", "Closed"} : \E a \in AddressOf[h] : Attempts("same", UpsertRuns(a, h, s), M!ChainStateUpsert(mem, a, MarketIdOf[h], h, s, now))
    BY <1>2 DEF UpsertChainState, Guard, UpsertRuns, Runs
  <2>2. PICK s \in {"Open", "Closed"} :
          \E a \in AddressOf[h] : Attempts("same", UpsertRuns(a, h, s), M!ChainStateUpsert(mem, a, MarketIdOf[h], h, s, now))
    BY <2>1
  <2>3. PICK a \in AddressOf[h] :
          Attempts("same", UpsertRuns(a, h, s), M!ChainStateUpsert(mem, a, MarketIdOf[h], h, s, now))
    BY <2>2
  <2>4. now \in Nat /\ Sound(db, mem, now)
    BY <2>3, TablesOfCall
  <2>5. Identifies(h, MarketIdOf[h], a)
    BY DEF Identifies
  <2> DEFINE X(e) == D!ChainStateUpsert(e, a, MarketIdOf[h], h, s, now)
             y == M!ChainStateUpsert(mem, a, MarketIdOf[h], h, s, now)
  <2>6. Agree(X(db), y, now) /\ X(X(db).db) = X(db)
    BY <2>3, <2>4, <2>5, UpsertChainStateAgrees DEF After
  <2>7. UpsertRuns(a, h, s) = <<X(db), X(X(db).db), X(X(X(db).db).db), X(X(X(X(db).db).db).db)>>
    BY DEF UpsertRuns, Runs
  <2>8. Attempts("same", UpsertRuns(a, h, s), y)
    BY <2>3
  <2> HIDE DEF X, y
  <2> QED
    BY <1>1, <2>6, <2>7, <2>8, SettledAgrees
<1>3. CASE DeleteChainState
  <2>1. PICK a \in Addresses :
          Attempts("same", DeleteChainStateRuns(a), M!ChainStateDelete(mem, a))
    BY <1>3 DEF DeleteChainState, Guard, DeleteChainStateRuns, Runs
  <2>2. now \in Nat /\ Sound(db, mem, now)
    BY <2>1, TablesOfCall
  <2> DEFINE X(e) == D!ChainStateDelete(e, a)
             y == M!ChainStateDelete(mem, a)
  <2>3. Agree(X(db), y, now) /\ X(X(db).db) = X(db)
    BY <2>1, <2>2, DeleteChainStateAgrees DEF After
  <2>4. DeleteChainStateRuns(a) = <<X(db), X(X(db).db), X(X(X(db).db).db), X(X(X(X(db).db).db).db)>>
    BY DEF DeleteChainStateRuns, Runs
  <2>5. Attempts("same", DeleteChainStateRuns(a), y)
    BY <2>1
  <2> HIDE DEF X, y
  <2> QED
    BY <1>1, <2>3, <2>4, <2>5, SettledAgrees
<1>4. CASE ReadChainState
  <2>1. ASSUME NEW a \in Addresses, Read(D!ChainStateFindByAddress(db, a), M!ChainStateFindByAddress(mem, a))
        PROVE AgreeIInv'
    <3>1. D!ChainStateFindByAddress(db, a).db = db /\ M!ChainStateFindByAddress(mem, a).db = mem
      BY DEF D!ChainStateFindByAddress, D!MayGive, M!ChainStateFindByAddress, M!Gives
    <3>2. Sound(db, mem, now) => M!ChainStateFindByAddress(mem, a).answer \in D!ChainStateFindByAddress(db, a).answers
      BY LookupsAgree
    <3> QED
      BY <2>1, <3>1, <3>2, ReadAgrees
  <2>2. ASSUME NEW h \in Hashes, Read(D!ChainStateFindByRulesHash(db, h), M!ChainStateFindByRulesHash(mem, h))
        PROVE AgreeIInv'
    <3>1. D!ChainStateFindByRulesHash(db, h).db = db /\ M!ChainStateFindByRulesHash(mem, h).db = mem
      BY DEF D!ChainStateFindByRulesHash, D!MayGive, M!ChainStateFindByRulesHash, M!Gives
    <3>2. Sound(db, mem, now) => M!ChainStateFindByRulesHash(mem, h).answer \in D!ChainStateFindByRulesHash(db, h).answers
      BY LookupsAgree
    <3> QED
      BY <2>2, <3>1, <3>2, ReadAgrees
  <2>3. ASSUME Read(D!ChainStateList(db), M!ChainStateList(mem)) PROVE AgreeIInv'
    <3>1. D!ChainStateList(db).db = db /\ M!ChainStateList(mem).db = mem
      BY DEF D!ChainStateList, D!MayGive, M!ChainStateList, M!Gives
    <3>2. Sound(db, mem, now) => M!ChainStateList(mem).answer \in D!ChainStateList(db).answers
      BY ListChainStateAgrees
    <3> QED
      BY <2>3, <3>1, <3>2, ReadAgrees
  <2> QED
    BY <1>4, <2>1, <2>2, <2>3 DEF ReadChainState
<1> QED
    BY <1>2, <1>3, <1>4 DEF ChainStateCalls

IssueNonceRuns(n, w) == LET Run(d) == D!NoncesIssue(d, n, w, now, now + 1) IN Runs(Run)
ConsumeNonceRuns(n) == LET Run(d) == D!NoncesConsume(d, n, now) IN Runs(Run)
PruneNoncesRuns == LET Run(d) == D!NoncesDeleteExpired(d, now) IN Runs(Run)
CreateAuthSessionRuns(n, w) == LET Run(d) == D!AuthSessionsCreate(d, n, w, now, now + 1) IN Runs(Run)
RevokeRuns(id) == LET Run(d) == D!AuthSessionsRevoke(d, id, now) IN Runs(Run)

\* those of authentication,
LEMMA AgreeAfterAuthCalls ==
    ASSUME AgreeIInv, AuthCalls
    PROVE  AgreeIInv'
PROOF
<1>1. \A x, y : Keeps(x, y)
    BY DEF AuthCalls, Keeps
<1>2. CASE IssueNonce
  <2>1. PICK n \in Nonces :
          \E w \in Wallets : (\A r \in db.nonces : r.nonce # n) /\ Attempts("otherAnswer", IssueNonceRuns(n, w), M!NoncesIssue(mem, n, w, now, now + 1))
    BY <1>2 DEF IssueNonce, Guard, IssueNonceRuns, Runs
  <2>2. PICK w \in Wallets :
          (\A r \in db.nonces : r.nonce # n) /\ Attempts("otherAnswer", IssueNonceRuns(n, w), M!NoncesIssue(mem, n, w, now, now + 1))
    BY <2>1
  <2>3. now \in Nat /\ Sound(db, mem, now)
    BY <2>2, TablesOfCall
  <2> DEFINE X(e) == D!NoncesIssue(e, n, w, now, now + 1)
             y == M!NoncesIssue(mem, n, w, now, now + 1)
  <2>4. Agree(X(db), y, now) /\ X(X(db).db).db = X(db).db
    BY <2>2, <2>3, IssueNonceAgrees DEF After
  <2>5. IssueNonceRuns(n, w) = <<X(db), X(X(db).db), X(X(X(db).db).db), X(X(X(X(db).db).db).db)>>
    BY DEF IssueNonceRuns, Runs
  <2>6. Attempts("otherAnswer", IssueNonceRuns(n, w), y)
    BY <2>2
  <2> HIDE DEF X, y
  <2> QED
    BY <1>1, <2>4, <2>5, <2>6, SettledAgrees
<1>3. CASE ConsumeNonce
  <2>1. PICK n \in Nonces :
          Attempts("otherAnswer", ConsumeNonceRuns(n), M!NoncesConsume(mem, n, now))
    BY <1>3 DEF ConsumeNonce, Guard, ConsumeNonceRuns, Runs
  <2>2. now \in Nat /\ Sound(db, mem, now)
    BY <2>1, TablesOfCall
  <2> DEFINE X(e) == D!NoncesConsume(e, n, now)
             y == M!NoncesConsume(mem, n, now)
  <2>3. Agree(X(db), y, now) /\ X(X(db).db).db = X(db).db
    BY <2>1, <2>2, ConsumeNonceAgrees DEF After
  <2>4. ConsumeNonceRuns(n) = <<X(db), X(X(db).db), X(X(X(db).db).db), X(X(X(X(db).db).db).db)>>
    BY DEF ConsumeNonceRuns, Runs
  <2>5. Attempts("otherAnswer", ConsumeNonceRuns(n), y)
    BY <2>1
  <2> HIDE DEF X, y
  <2> QED
    BY <1>1, <2>3, <2>4, <2>5, SettledAgrees
<1>4. CASE PruneNonces
  <2>1. Attempts("otherAnswer", PruneNoncesRuns, M!NoncesDeleteExpired(mem, now))
    BY <1>4 DEF PruneNonces, Guard, PruneNoncesRuns, Runs
  <2>2. now \in Nat /\ Sound(db, mem, now)
    BY <2>1, TablesOfCall
  <2> DEFINE X(e) == D!NoncesDeleteExpired(e, now)
             y == M!NoncesDeleteExpired(mem, now)
  <2>3. Agree(X(db), y, now) /\ X(X(db).db).db = X(db).db
    BY <2>1, <2>2, PruneNoncesAgrees DEF After
  <2>4. PruneNoncesRuns = <<X(db), X(X(db).db), X(X(X(db).db).db), X(X(X(X(db).db).db).db)>>
    BY DEF PruneNoncesRuns, Runs
  <2>5. Attempts("otherAnswer", PruneNoncesRuns, y)
    BY <2>1
  <2> HIDE DEF X, y
  <2> QED
    BY <1>1, <2>3, <2>4, <2>5, SettledAgrees
<1>5. CASE CreateAuthSession
  <2>1. PICK n \in Nonces :
          \E w \in Wallets : (\A s \in db.authSessions : s.tokenHash # n) /\ Attempts("otherAnswer", CreateAuthSessionRuns(n, w), M!AuthSessionsCreate(mem, n, w, now, now + 1))
    BY <1>5 DEF CreateAuthSession, Guard, CreateAuthSessionRuns, Runs
  <2>2. PICK w \in Wallets :
          (\A s \in db.authSessions : s.tokenHash # n) /\ Attempts("otherAnswer", CreateAuthSessionRuns(n, w), M!AuthSessionsCreate(mem, n, w, now, now + 1))
    BY <2>1
  <2>3. now \in Nat /\ Sound(db, mem, now)
    BY <2>2, TablesOfCall
  <2> DEFINE X(e) == D!AuthSessionsCreate(e, n, w, now, now + 1)
             y == M!AuthSessionsCreate(mem, n, w, now, now + 1)
  <2>4. Agree(X(db), y, now) /\ X(X(db).db).db = X(db).db
    BY <2>2, <2>3, CreateAuthSessionAgrees DEF After
  <2>5. CreateAuthSessionRuns(n, w) = <<X(db), X(X(db).db), X(X(X(db).db).db), X(X(X(X(db).db).db).db)>>
    BY DEF CreateAuthSessionRuns, Runs
  <2>6. Attempts("otherAnswer", CreateAuthSessionRuns(n, w), y)
    BY <2>2
  <2> HIDE DEF X, y
  <2> QED
    BY <1>1, <2>4, <2>5, <2>6, SettledAgrees
<1>6. CASE FindAuthSession
  <2>1. PICK n \in Nonces :
          Read(D!AuthSessionsFindByTokenHash(db, n), M!AuthSessionsFindByTokenHash(mem, n))
    BY <1>6 DEF FindAuthSession
  <2>2. D!AuthSessionsFindByTokenHash(db, n).db = db /\ M!AuthSessionsFindByTokenHash(mem, n).db = mem
    BY DEF D!AuthSessionsFindByTokenHash, M!AuthSessionsFindByTokenHash, D!MayGive, M!Gives
  <2>3. Sound(db, mem, now) => M!AuthSessionsFindByTokenHash(mem, n).answer \in D!AuthSessionsFindByTokenHash(db, n).answers
    BY LookupsAgree
  <2> QED
    BY <2>1, <2>2, <2>3, ReadAgrees
<1>7. CASE RevokeAuthSession
  <2>1. PICK id \in {s.id : s \in db.authSessions} :
          Attempts("same", RevokeRuns(id), M!AuthSessionsRevoke(mem, id, now))
    BY <1>7 DEF RevokeAuthSession, Guard, RevokeRuns, Runs
  <2>2. now \in Nat /\ Sound(db, mem, now)
    BY <2>1, TablesOfCall
  <2> DEFINE X(e) == D!AuthSessionsRevoke(e, id, now)
             y == M!AuthSessionsRevoke(mem, id, now)
  <2>3. Agree(X(db), y, now) /\ X(X(db).db) = X(db)
    BY <2>1, <2>2, AuthRevokeAgrees DEF After
  <2>4. RevokeRuns(id) = <<X(db), X(X(db).db), X(X(X(db).db).db), X(X(X(X(db).db).db).db)>>
    BY DEF RevokeRuns, Runs
  <2>5. Attempts("same", RevokeRuns(id), y)
    BY <2>1
  <2> HIDE DEF X, y
  <2> QED
    BY <1>1, <2>3, <2>4, <2>5, SettledAgrees
<1> QED
    BY <1>2, <1>3, <1>4, <1>5, <1>6, <1>7 DEF AuthCalls

SaveEvidenceRuns(e) == LET Run(d) == D!EvidenceSave(d, h0, e, now) IN Runs(Run)
SaveChallengeRuns(reason) == LET Run(d) == D!ChallengesSave(d, h0, reason, 1, now) IN Runs(Run)

\* those of the resolution service on evidence and challenges,
LEMMA AgreeAfterDocumentCalls ==
    ASSUME AgreeIInv, DocumentCalls
    PROVE  AgreeIInv'
PROOF
<1>1. subject = "documents"
    BY DEF DocumentCalls
<1>2. CASE SaveEvidence
  <2>1. PICK e \in {"e1", "e2"} :
          Attempts("same", SaveEvidenceRuns(e), M!EvidenceSave(mem, h0, e, now))
    BY <1>2 DEF SaveEvidence, Guard, SaveEvidenceRuns, Runs
  <2>2. now \in Nat /\ Sound(db, mem, now) /\ D!Refers(db, h0)
    BY <2>1, <1>1, TablesOfCall
  <2> DEFINE X(d) == D!EvidenceSave(d, h0, e, now)
             y == M!EvidenceSave(mem, h0, e, now)
  <2>3. Agree(X(db), y, now) /\ X(X(db).db) = X(db)
        /\ MarketsOf(After(X(db))) = MarketsOf(db)
    BY <2>1, <2>2, SaveEvidenceAgrees DEF After
  <2>4. SaveEvidenceRuns(e) = <<X(db), X(X(db).db), X(X(X(db).db).db), X(X(X(X(db).db).db).db)>>
    BY DEF SaveEvidenceRuns, Runs
  <2>5. Attempts("same", SaveEvidenceRuns(e), y)
    BY <2>1
  <2>6. Keeps(X(db), y)
    <3> HIDE DEF X, y
    <3> QED
      BY <1>1, <2>2, <2>3, TablesOfCall, <2>5 DEF Keeps
  <2> HIDE DEF X, y
  <2> QED
    BY <2>6, <2>3, <2>4, <2>5, SettledAgrees
<1>3. CASE ReadEvidence
  <2>1. ASSUME Read(D!EvidenceFindByRulesHash(db, h0), M!EvidenceFindByRulesHash(mem, h0)) PROVE AgreeIInv'
    <3>1. D!EvidenceFindByRulesHash(db, h0).db = db /\ M!EvidenceFindByRulesHash(mem, h0).db = mem
      BY DEF D!EvidenceFindByRulesHash, D!MayGive, M!EvidenceFindByRulesHash, M!Gives
    <3>2. Sound(db, mem, now) => M!EvidenceFindByRulesHash(mem, h0).answer \in D!EvidenceFindByRulesHash(db, h0).answers
      BY LatestEvidenceAgrees
    <3> QED
      BY <2>1, <3>1, <3>2, ReadAgrees
  <2>2. ASSUME NEW e \in {"e1", "e2"}, Read(D!EvidenceFindByHash(db, e), M!EvidenceFindByHash(mem, e))
        PROVE AgreeIInv'
    <3>1. D!EvidenceFindByHash(db, e).db = db /\ M!EvidenceFindByHash(mem, e).db = mem
      BY DEF D!EvidenceFindByHash, D!MayGive, M!EvidenceFindByHash, M!Gives
    <3>2. Sound(db, mem, now) => M!EvidenceFindByHash(mem, e).answer \in D!EvidenceFindByHash(db, e).answers
      BY LookupsAgree
    <3> QED
      BY <2>2, <3>1, <3>2, ReadAgrees
  <2> QED
    BY <1>3, <2>1, <2>2 DEF ReadEvidence
<1>4. CASE SaveChallenge
  <2>1. PICK reason \in {"r1", "r2"} :
          Attempts("same", SaveChallengeRuns(reason), M!ChallengesSave(mem, h0, reason, 1, now))
    BY <1>4 DEF SaveChallenge, Guard, SaveChallengeRuns, Runs
  <2>2. now \in Nat /\ Sound(db, mem, now) /\ D!Refers(db, h0)
    BY <2>1, <1>1, TablesOfCall
  <2> DEFINE X(e) == D!ChallengesSave(e, h0, reason, 1, now)
             y == M!ChallengesSave(mem, h0, reason, 1, now)
  <2>3. Agree(X(db), y, now) /\ X(X(db).db) = X(db)
        /\ MarketsOf(After(X(db))) = MarketsOf(db)
    BY <2>1, <2>2, SaveChallengeAgrees DEF After
  <2>4. SaveChallengeRuns(reason) = <<X(db), X(X(db).db), X(X(X(db).db).db), X(X(X(X(db).db).db).db)>>
    BY DEF SaveChallengeRuns, Runs
  <2>5. Attempts("same", SaveChallengeRuns(reason), y)
    BY <2>1
  <2>6. Keeps(X(db), y)
    <3> HIDE DEF X, y
    <3> QED
      BY <1>1, <2>2, <2>3, TablesOfCall, <2>5 DEF Keeps
  <2> HIDE DEF X, y
  <2> QED
    BY <2>6, <2>3, <2>4, <2>5, SettledAgrees
<1>5. CASE FindChallenge
  <2>1. Read(D!ChallengesFind(db, h0), M!ChallengesFind(mem, h0))
    BY <1>5 DEF FindChallenge
  <2>2. D!ChallengesFind(db, h0).db = db /\ M!ChallengesFind(mem, h0).db = mem
    BY DEF D!ChallengesFind, M!ChallengesFind, D!MayGive, M!Gives
  <2>3. Sound(db, mem, now) => M!ChallengesFind(mem, h0).answer \in D!ChallengesFind(db, h0).answers
    BY ChallengeAgrees
  <2> QED
    BY <2>1, <2>2, <2>3, ReadAgrees
<1> QED
    BY <1>2, <1>3, <1>4, <1>5 DEF DocumentCalls

\* and on resolutions: a submission does not change the markets;
LEMMA SubmissionFrame ==
    ASSUME NEW d, NEW m, NEW at, Sound(d, m, at), NEW key, NEW state, NEW tx, NEW stamp
    PROVE  MarketsOf(D!ResolutionsMarkSubmission(d, key, state, tx, stamp).db) = MarketsOf(d)
PROOF
<1> DEFINE old == {r \in d.resolutions : r.id = key}
           New(r) == [r EXCEPT !.submissionState = state, !.proposalTxHash = D!Given(tx, @), !.proposedAt = D!Given(stamp, @)]
           new == {New(r) : r \in old}
<1>1. D!ResolutionsMarkSubmission(d, key, state, tx, stamp).db = D!Replace(d, "resolutions", old, new)
    BY DEF D!ResolutionsMarkSubmission, D!UpdateOne, D!MayGive
<1>2. "markets" \in DOMAIN d
    BY DEF Sound, Tables
<1> HIDE DEF old, new
<1> QED
    BY <1>1, <1>2 DEF D!Replace, MarketsOf

RecordRuns(s, round) == LET Run(d) == D!ResolutionsRecord(d, h0, s, round, now) IN Runs(Run)
SubmissionRuns(id, s) == LET Run(d) == D!ResolutionsMarkSubmission(d, id, s[1], s[2], s[3]) IN Runs(Run)
FinalizeRuns == LET Run(d) == D!ResolutionsMarkFinalized(d, h0, now) IN Runs(Run)

\* the calls on resolutions.
LEMMA AgreeAfterResolutionCalls ==
    ASSUME AgreeIInv, ResolutionCalls
    PROVE  AgreeIInv'
PROOF
<1>1. subject = "resolutions"
    BY DEF ResolutionCalls
<1>2. CASE RecordResolution
  <2>1. PICK s \in {"PROPOSED", "NEEDS_REVIEW"} :
          \E round \in 1 .. 2 : (\A r \in Rounds : r <= round) /\ Attempts("otherEffect", RecordRuns(s, round), M!ResolutionsRecord(mem, h0, s, round, now))
    BY <1>2 DEF RecordResolution, Guard, RecordRuns, Runs
  <2>2. PICK round \in 1 .. 2 :
          (\A r \in Rounds : r <= round) /\ Attempts("otherEffect", RecordRuns(s, round), M!ResolutionsRecord(mem, h0, s, round, now))
    BY <2>1
  <2>3. now \in Nat /\ Sound(db, mem, now) /\ D!Refers(db, h0) /\ calls \in Nat
        /\ Len(ResolutionsIn(mem)) \in Nat /\ Len(ResolutionsIn(mem)) <= calls
    BY <2>2, <1>1, TablesOfCall
  <2>4. round \in Nat /\ \A r \in db.resolutions : r.round <= round
    BY <2>2 DEF Rounds
  <2> DEFINE X(e) == D!ResolutionsRecord(e, h0, s, round, now)
             y == M!ResolutionsRecord(mem, h0, s, round, now)
  <2>5. Agree(X(db), y, now)
        /\ Len(ResolutionsIn(After(y))) = Len(ResolutionsIn(mem)) + 1 /\ MarketsOf(After(X(db))) = MarketsOf(db)
    BY <2>2, <2>3, <2>4, RecordAgrees DEF After
  <2>6. RecordRuns(s, round) = <<X(db), X(X(db).db), X(X(X(db).db).db), X(X(X(X(db).db).db).db)>>
    BY DEF RecordRuns, Runs
  <2>7. Attempts("otherEffect", RecordRuns(s, round), y)
    BY <2>2
  <2>8. Keeps(X(db), y)
    <3> HIDE DEF X, y
    <3> QED
      BY <1>1, <2>3, <2>5, TablesOfCall, <2>7 DEF Keeps
  <2> HIDE DEF X, y
  <2> QED
    BY <2>8, <2>5, <2>6, <2>7, OnceAgrees
<1>3. CASE MarkSubmission
  <2>1. PICK id \in Recorded :
          \E s \in {<<"SUBMITTED", "tx", Null>>, <<"CONFIRMED", Null, now>>} : Attempts("same", SubmissionRuns(id, s), M!ResolutionsMarkSubmission(mem, id, s[1], s[2], s[3]))
    BY <1>3 DEF MarkSubmission, Guard, SubmissionRuns, Runs
  <2>2. PICK s \in {<<"SUBMITTED", "tx", Null>>, <<"CONFIRMED", Null, now>>} :
          Attempts("same", SubmissionRuns(id, s), M!ResolutionsMarkSubmission(mem, id, s[1], s[2], s[3]))
    BY <2>1
  <2>3. now \in Nat /\ Sound(db, mem, now) /\ calls \in Nat
        /\ Len(ResolutionsIn(mem)) \in Nat /\ Len(ResolutionsIn(mem)) <= calls
    BY <2>2, <1>1, TablesOfCall
  <2>4. MarketsOf(D!ResolutionsMarkSubmission(db, id, s[1], s[2], s[3]).db) = MarketsOf(db)
    BY <2>3, SubmissionFrame
  <2> DEFINE X(e) == D!ResolutionsMarkSubmission(e, id, s[1], s[2], s[3])
             y == M!ResolutionsMarkSubmission(mem, id, s[1], s[2], s[3])
  <2>5. Agree(X(db), y, now) /\ X(X(db).db) = X(db)
        /\ Len(ResolutionsIn(After(y))) = Len(ResolutionsIn(mem)) /\ MarketsOf(After(X(db))) = MarketsOf(db)
    BY <2>2, <2>3, <2>4, SubmissionAgrees DEF After
  <2>6. SubmissionRuns(id, s) = <<X(db), X(X(db).db), X(X(X(db).db).db), X(X(X(X(db).db).db).db)>>
    BY DEF SubmissionRuns, Runs
  <2>7. Attempts("same", SubmissionRuns(id, s), y)
    BY <2>2
  <2>8. Keeps(X(db), y)
    <3> HIDE DEF X, y
    <3> QED
      BY <1>1, <2>3, <2>5, TablesOfCall, <2>7 DEF Keeps
  <2> HIDE DEF X, y
  <2> QED
    BY <2>8, <2>5, <2>6, <2>7, SettledAgrees
<1>4. CASE MarkFinalized
  <2>1. Attempts("otherAnswer", FinalizeRuns, M!ResolutionsMarkFinalized(mem, h0, now))
    BY <1>4 DEF MarkFinalized, Guard, FinalizeRuns, Runs
  <2>2. now \in Nat /\ Sound(db, mem, now) /\ calls \in Nat
        /\ Len(ResolutionsIn(mem)) \in Nat /\ Len(ResolutionsIn(mem)) <= calls
    BY <2>1, <1>1, TablesOfCall
  <2> DEFINE X(e) == D!ResolutionsMarkFinalized(e, h0, now)
             y == M!ResolutionsMarkFinalized(mem, h0, now)
  <2>3. Agree(X(db), y, now) /\ X(X(db).db).db = X(db).db
        /\ Len(ResolutionsIn(After(y))) = Len(ResolutionsIn(mem)) /\ MarketsOf(After(X(db))) = MarketsOf(db)
    BY <2>1, <2>2, FinalizeAgrees DEF After
  <2>4. FinalizeRuns = <<X(db), X(X(db).db), X(X(X(db).db).db), X(X(X(X(db).db).db).db)>>
    BY DEF FinalizeRuns, Runs
  <2>5. Attempts("otherAnswer", FinalizeRuns, y)
    BY <2>1
  <2>6. Keeps(X(db), y)
    <3> HIDE DEF X, y
    <3> QED
      BY <1>1, <2>2, <2>3, TablesOfCall, <2>5 DEF Keeps
  <2> HIDE DEF X, y
  <2> QED
    BY <2>6, <2>3, <2>4, <2>5, SettledAgrees
<1>5. CASE ReadResolutions
  <2>1. ASSUME Read(D!ResolutionsFindLatest(db, h0), M!ResolutionsFindLatest(mem, h0)) PROVE AgreeIInv'
    <3>1. D!ResolutionsFindLatest(db, h0).db = db /\ M!ResolutionsFindLatest(mem, h0).db = mem
      BY DEF D!ResolutionsFindLatest, D!MayGive, M!ResolutionsFindLatest, M!Gives
    <3>2. Sound(db, mem, now) => M!ResolutionsFindLatest(mem, h0).answer \in D!ResolutionsFindLatest(db, h0).answers
      BY LatestResolutionAgrees
    <3> QED
      BY <2>1, <3>1, <3>2, ReadAgrees
  <2>2. ASSUME Read(D!ResolutionsList(db, h0), M!ResolutionsList(mem, h0)) PROVE AgreeIInv'
    <3>1. D!ResolutionsList(db, h0).db = db /\ M!ResolutionsList(mem, h0).db = mem
      BY DEF D!ResolutionsList, D!MayGive, M!ResolutionsList, M!Gives
    <3>2. Attempts("same", <<D!ResolutionsList(db, h0), D!ResolutionsList(db, h0), D!ResolutionsList(db, h0), D!ResolutionsList(db, h0)>>, M!ResolutionsList(mem, h0))
      BY <2>2 DEF Read, Guard, Runs
    <3>3. calls < MaxCalls["resolutions"] /\ "resolutions" \in Subjects
      BY <1>1, <3>2 DEF Attempts, AgreeIInv
    <3>4. Len(ResolutionsIn(mem)) <= 50
      BY <1>1, <3>2, <3>3, TablesOfCall, StoresAssumption DEF StoresAssumption
    <3>5. Sound(db, mem, now) => M!ResolutionsList(mem, h0).answer \in D!ResolutionsList(db, h0).answers
      BY <3>4, ListResolutionsAgrees
    <3> QED
      BY <2>2, <3>1, <3>5, ReadAgrees
  <2>3. ASSUME NEW round \in 1 .. 2, Read(D!ResolutionsFindProposedByRound(db, h0, round), M!ResolutionsFindProposedByRound(mem, h0, round))
        PROVE AgreeIInv'
    <3>1. D!ResolutionsFindProposedByRound(db, h0, round).db = db /\ M!ResolutionsFindProposedByRound(mem, h0, round).db = mem
      BY DEF D!ResolutionsFindProposedByRound, D!MayGive, M!ResolutionsFindProposedByRound, M!Gives
    <3>2. Sound(db, mem, now) => M!ResolutionsFindProposedByRound(mem, h0, round).answer \in D!ResolutionsFindProposedByRound(db, h0, round).answers
      BY LatestProposalAgrees
    <3> QED
      BY <2>3, <3>1, <3>2, ReadAgrees
  <2> QED
    BY <1>5, <2>1, <2>2, <2>3 DEF ReadResolutions
<1> QED
    BY <1>2, <1>3, <1>4, <1>5 DEF ResolutionCalls

\* Where a row stands in the listing of rows dated at distinct instants.
LEMMA KthFromTheTop ==
    ASSUME NEW s, NEW S, Enumerates(s, S), NewestFirst(s), \A r \in S : r.createdAt \in Nat,
           AtDistinctInstants(S), NEW k \in DOMAIN s
    PROVE  Cardinality(AtOrAbove(S, s[k].createdAt)) = k
PROOF
<1> DEFINE c == s[k].createdAt
           p == Cardinality(AtOrAbove(S, c))
<1>1. Len(s) \in Nat /\ DOMAIN s = 1 .. Len(s) /\ k \in Nat /\ \A i \in DOMAIN s : s[i] \in S /\ s[i].createdAt \in Nat
    BY EnumerationIsWhole
<1>2. c \in Nat
    BY <1>1
<1>3. p \in 0 .. Len(s) /\ IndexesAbove(s, c) = 1 .. p
  <2> HIDE DEF c
  <2> QED
    BY <1>2, HowManyAbove
<1>4. k \in IndexesAbove(s, c)
    BY <1>1 DEF IndexesAbove
<1>5. ASSUME NEW i \in DOMAIN s, i > k PROVE i \notin IndexesAbove(s, c)
  <2>1. s[i].createdAt <= c /\ s[i].createdAt \in Nat
    BY <1>1, <1>5 DEF NewestFirst
  <2>2. s[i] # s[k] /\ s[i] \in S /\ s[k] \in S
    BY <1>1, <1>5 DEF Enumerates
  <2>3. s[i].createdAt # c
    BY <2>2 DEF AtDistinctInstants
  <2> QED
    BY <1>2, <2>1, <2>3 DEF IndexesAbove
<1> HIDE DEF p, c
<1>6. k \in 1 .. p
    BY <1>3, <1>4
<1>7. p \in DOMAIN s /\ p \in IndexesAbove(s, c)
    BY <1>1, <1>3, <1>6
<1>8. ~(p > k)
    BY <1>5, <1>7
<1> QED
    BY <1>1, <1>3, <1>6, <1>8 DEF p, c

\* There is one listing of rows dated at distinct instants, and so one next page.
LEMMA OneListing ==
    ASSUME NEW S, \A r \in S : r.createdAt \in Nat, AtDistinctInstants(S),
           NEW s, Enumerates(s, S), NewestFirst(s), NEW t, Enumerates(t, S), NewestFirst(t)
    PROVE  s = t
PROOF
<1>1. Len(s) = Cardinality(S) /\ Len(t) = Cardinality(S) /\ Len(s) \in Nat
      /\ DOMAIN s = 1 .. Len(s) /\ DOMAIN t = 1 .. Len(t) /\ \A i \in DOMAIN s : s[i] \in S
    BY EnumerationIsWhole
<1>2. ASSUME NEW i \in 1 .. Len(s) PROVE s[i] = t[i]
  <2>1. PICK j \in DOMAIN t : t[j] = s[i]
    BY <1>1 DEF Enumerates
  <2>2. Cardinality(AtOrAbove(S, s[i].createdAt)) = i
    BY <1>1, KthFromTheTop
  <2>3. Cardinality(AtOrAbove(S, t[j].createdAt)) = j
    BY KthFromTheTop
  <2>4. i = j
    BY <2>1, <2>2, <2>3
  <2> QED
    BY <2>1, <2>4
<1>3. s \in Seq(S) /\ t \in Seq(S)
    BY DEF Enumerates
<1> QED
    BY <1>1, <1>2, <1>3, SeqEqual

\* At distinct instants there is one next page.
LEMMA OnePage ==
    ASSUME NEW d, NEW at \in Nat, MarketsHeld(d.markets, at), AtDistinctInstants(d.markets), NEW cursor,
           NEW page \in D!MarketsList(d, Null, cursor, PageSize).answers,
           NEW other \in D!MarketsList(d, Null, cursor, PageSize).answers
    PROVE  page = other
PROOF
<1> DEFINE rows == {r \in d.markets : (Null = Null \/ r.status = Null) /\ (cursor = Null \/ r.createdAt < cursor)}
<1>1. D!MarketsList(d, Null, cursor, PageSize).answers = {KeysetPage(s) : s \in D!OrderedBy(rows, D!Newest)}
    BY KeysetPages
<1>2. IsFiniteSet(rows) /\ AtDistinctInstants(rows) /\ \A r \in rows : r.createdAt \in Nat
    BY FS_Subset DEF MarketsHeld, MarketsSound, AtDistinctInstants
<1> HIDE DEF rows
<1>3. ASSUME NEW s \in D!OrderedBy(rows, D!Newest) PROVE Enumerates(s, rows) /\ NewestFirst(s)
  <2>1. s \in D!SetToSeqs(rows) /\ \A i, j \in DOMAIN s : i < j => ~(s[j].createdAt > s[i].createdAt)
    BY <1>3, Zenon DEF D!OrderedBy, D!Newest
  <2>2. Enumerates(s, rows)
    BY <1>2, <2>1, ListingIsEnumeration
  <2>3. \A i \in DOMAIN s : s[i].createdAt \in Nat
    BY <1>2, <2>2, EnumerationIsWhole
  <2> QED
    BY <2>1, <2>2, <2>3 DEF NewestFirst
<1>4. PICK s \in D!OrderedBy(rows, D!Newest) : page = KeysetPage(s)
    BY <1>1
<1>5. PICK t \in D!OrderedBy(rows, D!Newest) : other = KeysetPage(t)
    BY <1>1
<1>6. s = t
    BY <1>2, <1>3, OneListing
<1> QED
    BY <1>4, <1>5, <1>6

\* The calls on markets, and the walk through their list.
LEMMA AgreeAfterMarketCalls ==
    ASSUME AgreeIInv, WalkIInv, MarketCalls
    PROVE  AgreeIInv'
PROOF
<1>1. \A x, y : Keeps(x, y)
    BY DEF MarketCalls, Keeps
<1>20. subject = "markets" /\ now \in Nat /\ IsTables(db) /\ MarketsHeld(MarketsOf(db), now)
    BY DEF WalkIInv, MarketCalls
<1>2. CASE RegisterMarket
  <2>1. PICK h \in Hashes :
          \E w \in Wallets : Attempts("same", RegisterRuns(h, w), M!MarketsRegister(mem, h, w, now))
    BY <1>2 DEF RegisterMarket, Guard, RegisterRuns, Runs
  <2>2. PICK w \in Wallets :
          Attempts("same", RegisterRuns(h, w), M!MarketsRegister(mem, h, w, now))
    BY <2>1
  <2>3. now \in Nat /\ Sound(db, mem, now)
    BY <2>2, TablesOfCall
  <2> DEFINE X(e) == D!MarketsRegister(e, h, w, now)
             y == M!MarketsRegister(mem, h, w, now)
  <2>4. Agree(X(db), y, now)
    BY <2>2, <2>3, RegisterAgrees DEF After
  <2>5a. Settles(db, X(db), X(X(db).db), now)
    BY <1>20, RegisterSettles
  <2>5b. X(X(db).db) = X(db)
    BY <2>5a DEF Settles
  <2>5. RegisterRuns(h, w) = <<X(db), X(X(db).db), X(X(X(db).db).db), X(X(X(X(db).db).db).db)>>
    BY DEF RegisterRuns, Runs
  <2>6. Attempts("same", RegisterRuns(h, w), y)
    BY <2>2
  <2> HIDE DEF X, y
  <2> QED
    BY <1>1, <2>4, <2>5, <2>6, <2>5b, SettledAgrees
<1>3. CASE FindMarket
  <2>1. ASSUME NEW h \in Hashes, Read(D!MarketsFindByRulesHash(db, h), M!MarketsFindByRulesHash(mem, h))
        PROVE AgreeIInv'
    <3>1. D!MarketsFindByRulesHash(db, h).db = db /\ M!MarketsFindByRulesHash(mem, h).db = mem
      BY DEF D!MarketsFindByRulesHash, D!MayGive, M!MarketsFindByRulesHash, M!Gives
    <3>2. Sound(db, mem, now) => M!MarketsFindByRulesHash(mem, h).answer \in D!MarketsFindByRulesHash(db, h).answers
      BY LookupsAgree
    <3> QED
      BY <2>1, <3>1, <3>2, ReadAgrees
  <2>2. ASSUME NEW h \in Hashes, Read(D!MarketsFindByChainMarketId(db, MarketIdOf[h]), M!MarketsFindByChainMarketId(mem, MarketIdOf[h]))
        PROVE AgreeIInv'
    <3>1. D!MarketsFindByChainMarketId(db, MarketIdOf[h]).db = db /\ M!MarketsFindByChainMarketId(mem, MarketIdOf[h]).db = mem
      BY DEF D!MarketsFindByChainMarketId, D!MayGive, M!MarketsFindByChainMarketId, M!Gives
    <3>2. Sound(db, mem, now) => M!MarketsFindByChainMarketId(mem, MarketIdOf[h]).answer \in D!MarketsFindByChainMarketId(db, MarketIdOf[h]).answers
      BY LookupsAgree
    <3> QED
      BY <2>2, <3>1, <3>2, ReadAgrees
  <2> QED
    BY <1>3, <2>1, <2>2 DEF FindMarket
<1>4. CASE AttachMarket
  <2>1. PICK h \in Hashes :
          \E a \in AddressOf[h] : Attempts("same", AttachRuns(h, MarketIdOf[h], a), M!MarketsAttach(mem, h, MarketIdOf[h], a, now))
    BY <1>4 DEF AttachMarket, Guard, AttachRuns, Runs
  <2>2. PICK a \in AddressOf[h] :
          Attempts("same", AttachRuns(h, MarketIdOf[h], a), M!MarketsAttach(mem, h, MarketIdOf[h], a, now))
    BY <2>1
  <2>3. now \in Nat /\ Sound(db, mem, now)
    BY <2>2, TablesOfCall
  <2>4. Identifies(h, MarketIdOf[h], a)
    BY DEF Identifies
  <2> DEFINE X(e) == D!MarketsAttach(e, h, MarketIdOf[h], a, now)
             y == M!MarketsAttach(mem, h, MarketIdOf[h], a, now)
  <2>5. Agree(X(db), y, now)
    BY <2>2, <2>3, <2>4, AttachAgrees DEF After
  <2>5a. Settles(db, X(db), X(X(db).db), now)
    BY <1>20, <2>4, AttachSettles
  <2>5b. X(X(db).db) = X(db)
    BY <2>5a DEF Settles
  <2>6. AttachRuns(h, MarketIdOf[h], a) = <<X(db), X(X(db).db), X(X(X(db).db).db), X(X(X(X(db).db).db).db)>>
    BY DEF AttachRuns, Runs
  <2>7. Attempts("same", AttachRuns(h, MarketIdOf[h], a), y)
    BY <2>2
  <2> HIDE DEF X, y
  <2> QED
    BY <1>1, <2>5, <2>6, <2>7, <2>5b, SettledAgrees
<1>5. CASE UpdateStatus
  <2>1. PICK h \in Hashes :
          \E s \in {"OPEN", "CLOSED"} : Attempts("same", StatusRuns(h, s), M!MarketsUpdateStatus(mem, h, s, now))
    BY <1>5 DEF UpdateStatus, Guard, StatusRuns, Runs
  <2>2. PICK s \in {"OPEN", "CLOSED"} :
          Attempts("same", StatusRuns(h, s), M!MarketsUpdateStatus(mem, h, s, now))
    BY <2>1
  <2>3. now \in Nat /\ Sound(db, mem, now)
    BY <2>2, TablesOfCall
  <2> DEFINE X(e) == D!MarketsUpdateStatus(e, h, s, now)
             y == M!MarketsUpdateStatus(mem, h, s, now)
  <2>4. Agree(X(db), y, now)
    BY <2>2, <2>3, StatusAgrees DEF After
  <2>5a. Settles(db, X(db), X(X(db).db), now)
    BY <1>20, StatusSettles
  <2>5b. X(X(db).db) = X(db)
    BY <2>5a DEF Settles
  <2>5. StatusRuns(h, s) = <<X(db), X(X(db).db), X(X(X(db).db).db), X(X(X(X(db).db).db).db)>>
    BY DEF StatusRuns, Runs
  <2>6. Attempts("same", StatusRuns(h, s), y)
    BY <2>2
  <2> HIDE DEF X, y
  <2> QED
    BY <1>1, <2>4, <2>5, <2>6, <2>5b, SettledAgrees
<1>6. CASE SetPlan
  <2>1. PICK h \in Hashes :
          Attempts("same", PlanRuns(h), M!MarketsSetValidationPlan(mem, h, "plan", now))
    BY <1>6 DEF SetPlan, Guard, PlanRuns, Runs
  <2>2. now \in Nat /\ Sound(db, mem, now)
    BY <2>1, TablesOfCall
  <2> DEFINE X(e) == D!MarketsSetValidationPlan(e, h, "plan", now)
             y == M!MarketsSetValidationPlan(mem, h, "plan", now)
  <2>3. Agree(X(db), y, now)
    BY <2>1, <2>2, PlanAgrees DEF After
  <2>5a. Settles(db, X(db), X(X(db).db), now)
    BY <1>20, PlanSettles
  <2>5b. X(X(db).db) = X(db)
    BY <2>5a DEF Settles
  <2>4. PlanRuns(h) = <<X(db), X(X(db).db), X(X(X(db).db).db), X(X(X(X(db).db).db).db)>>
    BY DEF PlanRuns, Runs
  <2>5. Attempts("same", PlanRuns(h), y)
    BY <2>1
  <2> HIDE DEF X, y
  <2> QED
    BY <1>1, <2>3, <2>4, <2>5, <2>5b, SettledAgrees
<1>7. CASE ListAddresses
  <2>1. Read(D!MarketsListOnChainAddresses(db), M!MarketsListOnChainAddresses(mem))
    BY <1>7 DEF ListAddresses
  <2>2. D!MarketsListOnChainAddresses(db).db = db /\ M!MarketsListOnChainAddresses(mem).db = mem
    BY DEF D!MarketsListOnChainAddresses, M!MarketsListOnChainAddresses, D!MayGive, M!Gives
  <2>3. Sound(db, mem, now) => M!MarketsListOnChainAddresses(mem).answer \in D!MarketsListOnChainAddresses(db).answers
    BY ListAddressesAgrees
  <2> QED
    BY <2>1, <2>2, <2>3, ReadAgrees
<1>8. CASE ListFirstPage
  <2>1. PICK s \in {Null, "OPEN"} :
          Read([db |-> db, answers |-> {Shown(p) : p \in D!MarketsList(db, s, Null, PageSize).answers}],
               [db |-> mem, answer |-> Shown(M!MarketsList(mem, s, Null, PageSize).answer)])
    BY <1>8 DEF ListFirstPage
  <2> DEFINE given == [db |-> db, answers |-> {Shown(p) : p \in D!MarketsList(db, s, Null, PageSize).answers}]
             y == [db |-> mem, answer |-> Shown(M!MarketsList(mem, s, Null, PageSize).answer)]
  <2>2. Sound(db, mem, now) => y.answer \in given.answers
    BY FirstPageAgrees
  <2>3. Read(given, y) /\ given.db = db /\ y.db = mem
    BY <2>1
  <2> HIDE DEF given, y
  <2> QED
    BY <2>2, <2>3, ReadAgrees
<1>9. CASE OpenWalk
  <2>1. /\ UNCHANGED <<subject, db, mem, now, calls, comparable, last>>
        /\ walk'.cursor = Null /\ walk'.offset = Null /\ walk'.openedAt = calls
    BY <1>9 DEF OpenWalk, NoWalk
  <2> QED
    BY <2>1 DEF AgreeIInv, InStep, ResolutionsIn, MarketsOf, D!Refers
<1>10. CASE NextPage
  <2> DEFINE Other == M!MarketsList(mem, Null, walk.offset, PageSize).answer
  <2>1. PICK page \in D!MarketsList(db, Null, walk.cursor, PageSize).answers :
          /\ last' = [may |-> {Shown(page)}, is |-> Shown(Other), compared |-> Quiet /\ DistinctInstants]
          /\ walk' = [walk EXCEPT !.cursor = page.nextCursor, !.offset = Other.nextCursor,
                                  !.seen = @ \o RulesHashes(page.markets),
                                  !.phase = IF page.nextCursor = Null THEN "over" ELSE "open"]
    BY <1>10 DEF NextPage
  <2>2. /\ UNCHANGED <<subject, db, mem, now, calls, comparable>> /\ walk.phase = "open" /\ comparable
        /\ now \in Nat /\ Sound(db, mem, now)
    BY <1>10 DEF NextPage, AgreeIInv
  <2>3. HasColumns(walk, WalkColumns) /\ (walk.cursor = Null \/ walk.cursor \in Nat)
    BY <1>20 DEF WalkIInv, WalkSound
  <2> DEFINE w == walk
             v == walk'
             other == Other
             next == page.nextCursor
             hashes == RulesHashes(page.markets)
  <2>4. v.cursor = next /\ v.offset = other.nextCursor /\ v.openedAt = w.openedAt
        /\ v.phase = IF next = Null THEN "over" ELSE "open"
    <3>1. v = [w EXCEPT !.cursor = next, !.offset = other.nextCursor, !.seen = @ \o hashes,
                        !.phase = IF next = Null THEN "over" ELSE "open"]
      BY <2>1
    <3>2. HasColumns(w, WalkColumns)
      BY <2>3
    <3> HIDE DEF v, w, other, next, hashes
    <3> QED
      BY <3>1, <3>2 DEF HasColumns, WalkColumns
  <2>5. last'.may = {Shown(page)} /\ last'.is = Shown(other) /\ (last'.compared => Quiet /\ AtDistinctInstants(MarketsOf(db)))
    BY <2>1 DEF DistinctInstants, AtDistinctInstants, MarketsOf
  <2>6. ASSUME Quiet, AtDistinctInstants(MarketsOf(db))
        PROVE  Shown(other) = Shown(page) /\ (next # Null => other.nextCursor = OffsetAt(MarketsOf(db), next))
    <3>1. IF walk.cursor = Null THEN walk.offset = Null ELSE walk.offset = OffsetAt(db.markets, walk.cursor)
      BY <2>2, <2>6 DEF AgreeIInv, InStep, OffsetAt, AtOrAbove, MarketsOf
    <3>2. Shown(other) \in {Shown(p) : p \in D!MarketsList(db, Null, walk.cursor, PageSize).answers}
      BY <2>2, <2>3, <3>1, NextPageAgrees
    <3>3. PICK p \in D!MarketsList(db, Null, walk.cursor, PageSize).answers : Shown(other) = Shown(p)
      BY <3>2
    <3>4. MarketsHeld(db.markets, now) /\ AtDistinctInstants(db.markets)
      BY <1>20, <2>6 DEF MarketsOf
    <3>5. p = page
      BY <2>2, <3>4, OnePage
    <3>6. PICK s, k : PageOf(page, db.markets, walk.cursor, s, k)
      BY <2>2, <3>4, PagesAreCut
    <3>7. page.nextCursor # Null => Other.nextCursor = OffsetAt(db.markets, page.nextCursor)
      <4> HIDE DEF Other, other, next
      <4>1. ASSUME page.nextCursor # Null PROVE Other.nextCursor = OffsetAt(db.markets, page.nextCursor)
        BY <2>2, <2>3, <3>1, <3>4, <3>6, <4>1, CursorsStayInStep DEF Other
      <4> QED
        BY <4>1
    <3> QED
      BY <3>3, <3>5, <3>7 DEF MarketsOf
  <2>7. last'.compared => last'.is \in last'.may
    BY <2>5, <2>6
  <2>8. v.phase = "open" /\ Quiet /\ AtDistinctInstants(MarketsOf(db)) =>
          v.cursor # Null /\ v.offset = OffsetAt(MarketsOf(db), v.cursor)
    BY <2>4, <2>6
  <2>9. MarketsOf(db)' = MarketsOf(db) /\ Quiet' = Quiet /\ D!Refers(db, h0)' = D!Refers(db, h0)
    BY <2>2, <2>4 DEF MarketsOf, Quiet, D!Refers
  <2>10. comparable' /\ walk'.phase = "open" /\ Quiet' /\ AtDistinctInstants(MarketsOf(db))' => InStep'
    BY <2>2, <2>8, <2>9 DEF InStep, OffsetAt, AtOrAbove, MarketsOf, AtDistinctInstants
  <2> HIDE DEF v, w, other, next, hashes, Other
  <2> QED
    BY <2>2, <2>4, <2>7, <2>9, <2>10 DEF AgreeIInv, ResolutionsIn, v, w, D!Refers
<1> QED
    BY <1>2, <1>3, <1>4, <1>5, <1>6, <1>7, <1>8, <1>9, <1>10 DEF MarketCalls

\* The invariant holds of the empty tables, and of the one market that is registered before.
LEMMA AgreeInit == Init => AgreeIInv
PROOF
<1> SUFFICES ASSUME Init PROVE AgreeIInv
    OBVIOUS
<1> DEFINE d == db
           m == mem
<1>1. subject \in Subjects /\ now = 1 /\ calls = 0 /\ comparable = TRUE
      /\ last.compared = FALSE /\ walk.openedAt = 0 /\ walk.phase = "none"
    BY DEF Init, NoAnswer, NoWalk
<1>2. DOMAIN d = Tables \cup {"nextId"} /\ DOMAIN m = Tables \cup {"nextId"} /\ d.nextId = 1 /\ m.nextId = 1
      /\ \A t \in Tables : t # "markets" => d[t] = {} /\ m[t] = <<>>
    BY DEF Init, D!Empty, M!Empty, Tables
<1>3. IF subject \in {"resolutions", "documents"} THEN d["markets"] = {Seed} /\ m["markets"] = <<Seed>>
      ELSE d["markets"] = {} /\ m["markets"] = <<>>
    BY DEF Init, D!Empty, M!Empty
<1>4. \A t \in Tables : TableSound(t, <<>>, {}, 1, 1)
  <2>1. Enumerates(<<>>, {}) /\ Len(<<>>) = 0 /\ DOMAIN <<>> = {}
    BY NothingToEnumerate
  <2> QED
    BY <2>1 DEF TableSound, SessionsSound, Numbered, Dated, MarketsSound, ResolutionsSound, ChallengesSound,
                EventsSound, CheckpointsSound, BlocksSound, ChainStateSound, NoncesSound, AuthSessionsSound
<1>5. TableSound("markets", <<Seed>>, {Seed}, 1, 1)
  <2>1. Enumerates(<<Seed>>, {Seed})
    <3>1. Enumerates(Append(<<>>, Seed), {} \cup {Seed})
      BY NothingToEnumerate, EnumerateOneMore
    <3>2. Append(<<>>, Seed) = <<Seed>>
      OBVIOUS
    <3> QED
      BY <3>1, <3>2
  <2>2. HasColumns(Seed, MarketColumns) /\ Seed.createdAt = 0 /\ Seed.chainMarketId = Null /\ Seed.contractAddress = Null
    BY DEF Seed, HasColumns, MarketColumns
  <2>3. MarketsSound({Seed}, 1)
    BY <2>2 DEF MarketsSound
  <2> QED
    BY <2>1, <2>3 DEF TableSound
<1> HIDE DEF d, m
<1>6. \A t \in Tables : TableSound(t, m[t], d[t], 1, 1)
  <2> SUFFICES ASSUME NEW t \in Tables PROVE TableSound(t, m[t], d[t], 1, 1)
    OBVIOUS
  <2>1. CASE t # "markets"
    BY <1>2, <1>4, <2>1
  <2>2. CASE t = "markets"
    BY <1>3, <1>4, <1>5, <2>2 DEF Tables
  <2> QED
    BY <2>1, <2>2
<1>7. Sound(d, m, 1)
    BY <1>2, <1>6 DEF Sound
<1>8. subject = "resolutions" => Len(ResolutionsIn(mem)) <= calls
  <2>1. ResolutionsIn(mem) = <<>>
    BY <1>2 DEF ResolutionsIn, m, Tables
  <2> QED
    BY <1>1, <2>1
<1>9. subject \in {"resolutions", "documents"} => D!Refers(db, h0)
    BY <1>3 DEF D!Refers, h0, d
<1> QED
    BY <1>1, <1>7, <1>8, <1>9 DEF AgreeIInv, d, m

\* Every call, and the clock, keeps it.
LEMMA AgreeNext == AgreeIInv /\ WalkIInv /\ [Next]_vars => AgreeIInv'
PROOF
<1> SUFFICES ASSUME AgreeIInv, WalkIInv, [Next]_vars PROVE AgreeIInv'
    OBVIOUS
<1>1. CASE Tick
  <2>1. UNCHANGED <<subject, db, mem, calls, comparable, last, walk>> /\ now' = now + 1 /\ now \in Nat
    BY <1>1 DEF Tick, AgreeIInv
  <2>2. ASSUME Sound(db, mem, now) PROVE Sound(db, mem, now + 1)
    <3>1. db.nextId \in Nat
      BY <2>2 DEF Sound
    <3>2. ASSUME NEW t \in Tables PROVE TableSound(t, mem[t], db[t], db.nextId, now + 1)
      <4>1. TableSound(t, mem[t], db[t], db.nextId, now)
        BY <2>2 DEF Sound
      <4> QED
        BY <2>1, <3>1, <4>1, LaterIsSound
    <3> QED
      BY <2>2, <3>2 DEF Sound
  <2> QED
    BY <2>1, <2>2 DEF AgreeIInv, InStep, ResolutionsIn, MarketsOf, D!Refers, Quiet, AtDistinctInstants
<1>2. CASE UNCHANGED vars
    BY <1>2 DEF AgreeIInv, vars, InStep, ResolutionsIn, MarketsOf, D!Refers, Quiet, AtDistinctInstants
<1> QED
    BY <1>1, <1>2, AgreeAfterCompilerCalls, AgreeAfterMarketCalls, AgreeAfterResolutionCalls,
       AgreeAfterDocumentCalls,
       AgreeAfterEventCalls, AgreeAfterCheckpointCalls, AgreeAfterChainStateCalls, AgreeAfterAuthCalls DEF Next

\* Whatever the repositories are asked and however often guard() repeats a statement, the
\* in-memory tables answer what the tables in PostgreSQL may answer, and hold the same rows.
THEOREM StoresStayInAgreement == Spec => []StoresAgree
PROOF
<1>1. AgreeIInv => StoresAgree
  <2> SUFFICES ASSUME AgreeIInv PROVE StoresAgree
    OBVIOUS
  <2>1. last.compared => last.is \in last.may
    BY DEF AgreeIInv
  <2>2. ASSUME comparable, NEW t \in DOMAIN mem \ {"nextId"}
        PROVE  Cardinality(db[t]) = Len(mem[t]) /\ \A i \in DOMAIN mem[t] : mem[t][i] \in db[t]
    <3>1. DOMAIN mem = Tables \cup {"nextId"}
      BY <2>2 DEF AgreeIInv, Sound
    <3>2. t \in Tables
      BY <2>2, <3>1
    <3>3. Enumerates(mem[t], db[t])
      BY <2>2, <3>2 DEF AgreeIInv, Sound, TableSound
    <3> QED
      BY <3>3, EnumerationIsWhole
  <2> QED
    BY <2>1, <2>2 DEF StoresAgree
<1>2. Init => AgreeIInv /\ WalkIInv
    BY AgreeInit, WalkInit
<1>3. AgreeIInv /\ WalkIInv /\ [Next]_vars => (AgreeIInv /\ WalkIInv)'
    BY AgreeNext, WalkNext
<1> QED
    BY <1>1, <1>2, <1>3, PTL DEF Spec
================================================================================
