--------------------------- MODULE FiniteSums_proofs ---------------------------
(***************************************************************************)
(* Facts about finite sets and about SumFunction, for the proofs about     *)
(* money and about recorded events.  Induction is stated with sets: a set  *)
(* of subsets that holds the empty one and every extension of its members  *)
(* holds the whole, whatever property the set was made of.                 *)
(***************************************************************************)
EXTENDS Integers, FiniteSets, Functions, FiniteSetTheorems, TLAPS

-----------------------------------------------------------------------------
(* Induction over finite sets, and over the natural numbers. *)

\* Among subsets of a finite set one is minimal.
LEMMA MinimalSubset ==
  ASSUME NEW S, IsFiniteSet(S), NEW C \in SUBSET (SUBSET S), C # {}
  PROVE  \E T \in C : \A U \in C : U \subseteq T => U = T
<1>1. IsWellFoundedOn(StrictSubsetOrdering(S), SUBSET S)
  BY FS_StrictSubsetOrderingWellFounded, FS_FiniteSubsetsOfFinite
<1>2. PICK T \in C : \A U \in C : ~(<<U, T>> \in StrictSubsetOrdering(S))
  BY <1>1, WFMin
<1>3. QED
  BY <1>2 DEF StrictSubsetOrdering

LEMMA SetInduction ==
  ASSUME NEW S, IsFiniteSet(S), NEW C, {} \in C,
         \A T \in SUBSET S, x \in S : T \in C => T \cup {x} \in C
  PROVE  S \in C
<1> DEFINE D == {T \in SUBSET S : T \notin C}
<1>1. SUFFICES ASSUME S \notin C PROVE FALSE
  OBVIOUS
<1>2. D # {} /\ D \in SUBSET (SUBSET S)
  BY <1>1
<1> HIDE DEF D
<1>3. PICK T \in D : \A U \in D : U \subseteq T => U = T
  BY <1>2, MinimalSubset
<1> USE DEF D
<1>4. PICK x \in T : TRUE
  BY <1>3
<1>5. T \ {x} \in C
  BY <1>3, <1>4
<1>6. T = (T \ {x}) \cup {x}
  BY <1>4
<1>7. QED
  BY <1>3, <1>4, <1>5, <1>6

\* A finite set of integers has a least and a greatest member.
LEMMA FiniteExtremes ==
  ASSUME NEW S \in SUBSET Int, IsFiniteSet(S), S # {}
  PROVE  /\ \E m \in S : \A k \in S : m <= k
         /\ \E m \in S : \A k \in S : k <= m
<1> DEFINE C == {T \in SUBSET S : T # {} =>
                    /\ \E m \in T : \A k \in T : m <= k
                    /\ \E m \in T : \A k \in T : k <= m}
<1>1. {} \in C
  OBVIOUS
<1>2. ASSUME NEW T \in SUBSET S, NEW x \in S, T \in C PROVE T \cup {x} \in C
  <2>1. CASE T = {}
    <3>1. T \cup {x} = {x} /\ x \in Int
      BY <2>1
    <3>2. \A k \in {x} : x <= k /\ k <= x
      BY <3>1
    <3>3. QED
      BY <3>1, <3>2
  <2>2. CASE T # {}
    <3>1. PICK lo \in T : \A k \in T : lo <= k
      BY <1>2, <2>2
    <3>2. PICK hi \in T : \A k \in T : k <= hi
      BY <1>2, <2>2
    <3>3. \E m \in T \cup {x} : \A k \in T \cup {x} : m <= k
      <4>1. CASE x <= lo
        BY <3>1, <4>1
      <4>2. CASE lo <= x
        BY <3>1, <4>2
      <4>3. QED
        BY <4>1, <4>2
    <3>4. \E m \in T \cup {x} : \A k \in T \cup {x} : k <= m
      <4>1. CASE hi <= x
        BY <3>2, <4>1
      <4>2. CASE x <= hi
        BY <3>2, <4>2
      <4>3. QED
        BY <4>1, <4>2
    <3>5. QED
      BY <3>3, <3>4
  <2>3. QED
    BY <2>1, <2>2
<1> HIDE DEF C
<1>3. S \in C
  BY <1>1, <1>2, SetInduction
<1>4. QED
  BY <1>3 DEF C

LEMMA NatSetInduction ==
  ASSUME NEW C, 0 \in C, \A n \in Nat : n \in C => n + 1 \in C
  PROVE  Nat \subseteq C
<1>1. SUFFICES ASSUME NEW n \in Nat, n \notin C PROVE FALSE
  OBVIOUS
<1> DEFINE D == {m \in 0 .. n : m \notin C}
<1>2. IsFiniteSet(D) /\ D # {} /\ D \in SUBSET Int
  <2>1. IsFiniteSet(0 .. n)
    BY FS_Interval
  <2>2. QED
    BY <1>1, <2>1, FS_Subset
<1>3. PICK m \in D : \A k \in D : m <= k
  BY <1>2, FiniteExtremes
<1>4. m # 0 /\ m - 1 \in 0 .. n /\ ~(m <= m - 1)
  BY <1>3
<1>5. m - 1 \in C
  BY <1>3, <1>4
<1>6. (m - 1) + 1 \in C
  BY <1>4, <1>5
<1>7. QED
  BY <1>3, <1>6

-----------------------------------------------------------------------------
(* Partial sums: the sums of a function over the subsets of its domain.     *)

Pick(s) == CHOOSE x \in s : TRUE

PartialSums(f, S, G) ==
    G = [s \in S |-> IF s = {} THEN 0 ELSE f[Pick(s)] + G[s \ {Pick(s)}]]

LEMMA PartialSumsExist ==
  ASSUME NEW S, IsFiniteSet(S), NEW f
  PROVE  \E G : PartialSums(f, SUBSET S, G)
<1> DEFINE Upto(n) == {s \in SUBSET S : Cardinality(s) <= n}
           C == {n \in Nat : \E G : PartialSums(f, Upto(n), G)}
<1>0. \A s \in SUBSET S : /\ IsFiniteSet(s)
                          /\ Cardinality(s) \in Nat /\ Cardinality(s) <= Cardinality(S)
  BY FS_Subset, FS_CardinalityType
<1>1. 0 \in C
  <2>1. Upto(0) = {{}}
    BY <1>0, FS_EmptySet
  <2>2. PartialSums(f, {{}}, [s \in {{}} |-> 0])
    BY DEF PartialSums
  <2>3. QED
    BY <2>1, <2>2
<1>2. ASSUME NEW n \in Nat, n \in C PROVE n + 1 \in C
  <2>1. PICK G : PartialSums(f, Upto(n), G)
    BY <1>2
  <2> DEFINE H == [s \in Upto(n + 1) |->
                     IF s = {} THEN 0 ELSE f[Pick(s)] + G[s \ {Pick(s)}]]
  <2>2. ASSUME NEW t \in Upto(n) PROVE t \in Upto(n + 1) /\ H[t] = G[t]
    <3>1. t \in Upto(n + 1)
      BY <1>0
    <3>2. H[t] = IF t = {} THEN 0 ELSE f[Pick(t)] + G[t \ {Pick(t)}]
      BY <3>1
    <3>3. G[t] = IF t = {} THEN 0 ELSE f[Pick(t)] + G[t \ {Pick(t)}]
      BY <2>1 DEF PartialSums
    <3>4. QED
      BY <3>1, <3>2, <3>3
  <2>3. ASSUME NEW s \in Upto(n + 1), s # {} PROVE H[s \ {Pick(s)}] = G[s \ {Pick(s)}]
    <3>1. Pick(s) \in s
      BY <2>3 DEF Pick
    <3>2. s \ {Pick(s)} \in Upto(n)
      BY <1>0, <3>1, FS_RemoveElement
    <3>3. QED
      BY <2>2, <3>2
  <2>4. PartialSums(f, Upto(n + 1), H)
    BY <2>3 DEF PartialSums
  <2> HIDE DEF H, Upto
  <2>5. QED
    BY <1>2, <2>4
<1> HIDE DEF C
<1>3. Nat \subseteq C
  BY <1>1, <1>2, NatSetInduction
<1>4. Cardinality(S) \in Nat
  BY FS_CardinalityType
<1>5. \E G : PartialSums(f, Upto(Cardinality(S)), G)
  BY <1>3, <1>4 DEF C
<1>6. Upto(Cardinality(S)) = SUBSET S
  BY <1>0
<1>7. QED
  BY <1>5, <1>6

\* Whatever element is taken out of a set, its partial sum is that element's
\* value and the partial sum of the rest.
Splits(f, S, G) ==
    /\ G \in [SUBSET S -> Int]
    /\ G[{}] = 0
    /\ \A T \in SUBSET S : \A x \in T : G[T] = f[x] + G[T \ {x}]

LEMMA PartialSumsSplit ==
  ASSUME NEW S, IsFiniteSet(S), NEW f \in [S -> Int],
         NEW G, PartialSums(f, SUBSET S, G)
  PROVE  Splits(f, S, G)
<1>0. /\ DOMAIN G = SUBSET S
      /\ \A s \in SUBSET S : G[s] = IF s = {} THEN 0 ELSE f[Pick(s)] + G[s \ {Pick(s)}]
      /\ G = [s \in SUBSET S |-> G[s]]
  BY DEF PartialSums
<1>1. G[{}] = 0
  BY <1>0
<1>2. ASSUME NEW s \in SUBSET S, s # {}
      PROVE  /\ Pick(s) \in s /\ s \ {Pick(s)} \in SUBSET S
             /\ G[s] = f[Pick(s)] + G[s \ {Pick(s)}] /\ f[Pick(s)] \in Int
  BY <1>0, <1>2 DEF Pick
<1>3. \A s \in SUBSET S : G[s] \in Int
  <2> DEFINE D == {s \in SUBSET S : G[s] \notin Int}
  <2>1. SUFFICES ASSUME D # {} PROVE FALSE
    OBVIOUS
  <2> HIDE DEF D
  <2>2. D \in SUBSET (SUBSET S)
    BY DEF D
  <2>3. PICK T \in D : \A U \in D : U \subseteq T => U = T
    BY <2>1, <2>2, MinimalSubset
  <2>4. T # {} /\ T \in SUBSET S
    <3>1. T \in SUBSET S /\ G[T] \notin Int
      BY <2>2, <2>3 DEF D
    <3>2. ASSUME T = {} PROVE FALSE
      <4>1. G[T] = 0
        BY <1>1, <3>2
      <4>2. QED
        BY <3>1, <4>1
    <3>3. QED
      BY <3>1, <3>2
  <2>5. Pick(T) \in T /\ G[T] = f[Pick(T)] + G[T \ {Pick(T)}] /\ f[Pick(T)] \in Int
    BY <1>2, <2>4
  <2>6. T \ {Pick(T)} \in SUBSET S /\ T \ {Pick(T)} \subseteq T /\ T \ {Pick(T)} # T
    BY <2>4, <2>5
  <2>7. G[T \ {Pick(T)}] \in Int
    BY <2>3, <2>6 DEF D
  <2>8. QED
    BY <2>3, <2>5, <2>7 DEF D
<1>4. G \in [SUBSET S -> Int]
  BY <1>0, <1>3
<1>5. \A T \in SUBSET S : \A x \in T : G[T] = f[x] + G[T \ {x}]
  <2> DEFINE D == {T \in SUBSET S : \E x \in T : G[T] # f[x] + G[T \ {x}]}
  <2>1. SUFFICES ASSUME D # {} PROVE FALSE
    BY DEF D
  <2> HIDE DEF D
  <2>2. D \in SUBSET (SUBSET S)
    BY DEF D
  <2>3. PICK T \in D : \A U \in D : U \subseteq T => U = T
    BY <2>1, <2>2, MinimalSubset
  <2>4. PICK x \in T : G[T] # f[x] + G[T \ {x}]
    BY <2>3 DEF D
  <2> DEFINE c == Pick(T)
  <2>5. T # {} /\ T \in SUBSET S
    BY <2>2, <2>3, <2>4
  <2>6. c \in T /\ G[T] = f[c] + G[T \ {c}] /\ f[c] \in Int /\ f[x] \in Int
    BY <1>2, <2>5
  <2> HIDE DEF c
  <2>7. c # x
    BY <2>4, <2>6
  <2>8. /\ T \ {c} \in SUBSET S /\ T \ {c} \subseteq T /\ T \ {c} # T
        /\ T \ {x} \in SUBSET S /\ T \ {x} \subseteq T /\ T \ {x} # T
        /\ (T \ {c}) \ {x} \in SUBSET S /\ (T \ {x}) \ {c} = (T \ {c}) \ {x}
        /\ x \in T \ {c} /\ c \in T \ {x}
    BY <2>5, <2>6, <2>7
  <2>9. /\ G[T \ {c}] = f[x] + G[(T \ {c}) \ {x}]
        /\ G[T \ {x}] = f[c] + G[(T \ {x}) \ {c}]
    BY <2>3, <2>8 DEF D
  <2>10. G[(T \ {c}) \ {x}] \in Int
    BY <1>3, <2>8
  <2>11. G[T] = f[c] + (f[x] + G[(T \ {c}) \ {x}])
    BY <2>6, <2>9
  <2>12. G[T \ {x}] = f[c] + G[(T \ {c}) \ {x}]
    BY <2>8, <2>9
  <2>13. QED
    BY <2>4, <2>6, <2>10, <2>11, <2>12
<1>6. QED
  BY <1>1, <1>4, <1>5 DEF Splits

\* SumFunction as its partial sums: what every other fact is proved from.
LEMMA SumAsPartialSums ==
  ASSUME NEW S, IsFiniteSet(S), NEW f \in [S -> Int]
  PROVE  \E G : Splits(f, S, G) /\ SumFunction(f) = G[S]
<1> DEFINE G == CHOOSE G : PartialSums(f, SUBSET S, G)
<1>1. PartialSums(f, SUBSET S, G)
  BY PartialSumsExist
<1>2. SumFunction(f) = G[S]
  BY DEF SumFunction, SumFunctionOnSet, FoldFunctionOnSet, MapThenFoldSet,
         PartialSums, Pick
<1> HIDE DEF G
<1>3. QED
  BY <1>1, <1>2, PartialSumsSplit

-----------------------------------------------------------------------------
(* What the sums are used for. *)

\* The same read upwards, as an induction over subsets uses it.
Adds(f, S, G) ==
    /\ G[{}] = 0
    /\ \A T \in SUBSET S : \A x \in S \ T :
          G[T \cup {x}] = f[x] + G[T] /\ G[T] \in Int /\ f[x] \in Int

LEMMA SumByAdding ==
  ASSUME NEW S, IsFiniteSet(S), NEW f \in [S -> Int]
  PROVE  \E G : Adds(f, S, G) /\ SumFunction(f) = G[S] /\ G[S] \in Int
<1>1. PICK G : Splits(f, S, G) /\ SumFunction(f) = G[S]
  BY SumAsPartialSums
<1>2. G[S] \in Int
  BY <1>1 DEF Splits
<1>3. ASSUME NEW T \in SUBSET S, NEW x \in S \ T
      PROVE  G[T \cup {x}] = f[x] + G[T] /\ G[T] \in Int /\ f[x] \in Int
  <2>1. T \cup {x} \in SUBSET S /\ x \in T \cup {x} /\ (T \cup {x}) \ {x} = T
    OBVIOUS
  <2>2. QED
    BY <1>1, <2>1 DEF Splits
<1>4. Adds(f, S, G)
  BY <1>1, <1>3 DEF Splits, Adds
<1>5. QED
  BY <1>1, <1>2, <1>4

IntFunctions(S, f, g) == f \in [S -> Int] /\ g \in [S -> Int]

\* Term by term, h is the sum of f and g.
AddUp(S, f, g, h) ==
    IntFunctions(S, f, g) /\ h \in [S -> Int] /\ \A x \in S : h[x] = f[x] + g[x]

NowhereAbove(S, f, g) == IntFunctions(S, f, g) /\ \A x \in S : f[x] <= g[x]

ScaledBy(S, f, k, g) ==
    IntFunctions(S, f, g) /\ k \in Int /\ \A x \in S : g[x] = f[x] * k

Indicates(S, W, f) ==
    f \in [S -> Int] /\ W \subseteq S /\ \A x \in S : f[x] = IF x \in W THEN 1 ELSE 0

OnlyAt(S, f, a) ==
    f \in [S -> Int] /\ a \in S /\ \A x \in S : x # a => f[x] = 0

DifferAt(S, f, g, a) ==
    IntFunctions(S, f, g) /\ a \in S /\ \A x \in S : x # a => g[x] = f[x]

LEMMA SumOfSums ==
  ASSUME NEW S, IsFiniteSet(S), NEW f, NEW g, NEW h, AddUp(S, f, g, h)
  PROVE  SumFunction(h) = SumFunction(f) + SumFunction(g)
<1>0. /\ f \in [S -> Int] /\ g \in [S -> Int] /\ h \in [S -> Int]
      /\ \A x \in S : h[x] = f[x] + g[x]
  BY DEF AddUp, IntFunctions
<1>1. PICK F : Adds(f, S, F) /\ SumFunction(f) = F[S] /\ F[S] \in Int
  BY <1>0, SumByAdding
<1>2. PICK G : Adds(g, S, G) /\ SumFunction(g) = G[S] /\ G[S] \in Int
  BY <1>0, SumByAdding
<1>3. PICK H : Adds(h, S, H) /\ SumFunction(h) = H[S] /\ H[S] \in Int
  BY <1>0, SumByAdding
<1> DEFINE C == {T \in SUBSET S : H[T] = F[T] + G[T]}
<1>4. {} \in C
  BY <1>1, <1>2, <1>3 DEF Adds
<1>5. ASSUME NEW T \in SUBSET S, NEW x \in S, T \in C PROVE T \cup {x} \in C
  <2>1. CASE x \in T
    <3>1. T \cup {x} = T
      BY <2>1
    <3>2. QED
      BY <1>5, <3>1
  <2>2. CASE x \notin T
    <3>0. x \in S \ T
      BY <2>2
    <3>1. /\ F[T \cup {x}] = f[x] + F[T] /\ F[T] \in Int /\ f[x] \in Int
          /\ G[T \cup {x}] = g[x] + G[T] /\ G[T] \in Int /\ g[x] \in Int
          /\ H[T \cup {x}] = h[x] + H[T] /\ H[T] \in Int /\ h[x] \in Int
      <4>1. F[T \cup {x}] = f[x] + F[T] /\ F[T] \in Int /\ f[x] \in Int
        BY <1>1, <3>0 DEF Adds
      <4>2. G[T \cup {x}] = g[x] + G[T] /\ G[T] \in Int /\ g[x] \in Int
        BY <1>2, <3>0 DEF Adds
      <4>3. H[T \cup {x}] = h[x] + H[T] /\ H[T] \in Int /\ h[x] \in Int
        BY <1>3, <3>0 DEF Adds
      <4>4. QED
        BY <4>1, <4>2, <4>3
    <3>2. H[T] = F[T] + G[T] /\ h[x] = f[x] + g[x]
      BY <1>0, <1>5
    <3>3. T \cup {x} \in SUBSET S
      OBVIOUS
    <3>4. H[T \cup {x}] = F[T \cup {x}] + G[T \cup {x}]
      BY <3>1, <3>2
    <3>5. QED
      BY <3>3, <3>4
  <2>3. QED
    BY <2>1, <2>2
<1> HIDE DEF C
<1>6. S \in C
  BY <1>4, <1>5, SetInduction
<1>7. QED
  BY <1>1, <1>2, <1>3, <1>6 DEF C

LEMMA SumMonotone ==
  ASSUME NEW S, IsFiniteSet(S), NEW f, NEW g, NowhereAbove(S, f, g)
  PROVE  SumFunction(f) <= SumFunction(g)
<1>0. /\ f \in [S -> Int] /\ g \in [S -> Int] /\ \A x \in S : f[x] <= g[x]
  BY DEF NowhereAbove, IntFunctions
<1>1. PICK F : Adds(f, S, F) /\ SumFunction(f) = F[S] /\ F[S] \in Int
  BY <1>0, SumByAdding
<1>2. PICK G : Adds(g, S, G) /\ SumFunction(g) = G[S] /\ G[S] \in Int
  BY <1>0, SumByAdding
<1> DEFINE C == {T \in SUBSET S : F[T] <= G[T]}
<1>4. {} \in C
  BY <1>0, <1>1, <1>2 DEF Adds
<1>5. ASSUME NEW T \in SUBSET S, NEW x \in S, T \in C PROVE T \cup {x} \in C
  <2>1. CASE x \in T
    <3>1. T \cup {x} = T
      BY <2>1
    <3>2. QED
      BY <1>5, <3>1
  <2>2. CASE x \notin T
    <3>0. x \in S \ T
      BY <2>2
    <3>1. /\ F[T \cup {x}] = f[x] + F[T] /\ F[T] \in Int /\ f[x] \in Int
          /\ G[T \cup {x}] = g[x] + G[T] /\ G[T] \in Int /\ g[x] \in Int
      <4>1. F[T \cup {x}] = f[x] + F[T] /\ F[T] \in Int /\ f[x] \in Int
        BY <1>1, <3>0 DEF Adds
      <4>2. G[T \cup {x}] = g[x] + G[T] /\ G[T] \in Int /\ g[x] \in Int
        BY <1>2, <3>0 DEF Adds
      <4>3. QED
        BY <4>1, <4>2
    <3>2. F[T] <= G[T] /\ f[x] <= g[x]
      BY <1>0, <1>5
    <3>3. T \cup {x} \in SUBSET S
      OBVIOUS
    <3>4. F[T \cup {x}] <= G[T \cup {x}]
      BY <3>1, <3>2
    <3>5. QED
      BY <3>3, <3>4
  <2>3. QED
    BY <2>1, <2>2
<1> HIDE DEF C
<1>6. S \in C
  BY <1>4, <1>5, SetInduction
<1>7. QED
  BY <1>1, <1>2, <1>6 DEF C

LEMMA SumScaled ==
  ASSUME NEW S, IsFiniteSet(S), NEW f, NEW g, NEW k, ScaledBy(S, f, k, g)
  PROVE  SumFunction(g) = SumFunction(f) * k
<1>0. /\ f \in [S -> Int] /\ g \in [S -> Int] /\ k \in Int
      /\ \A x \in S : g[x] = f[x] * k
  BY DEF ScaledBy, IntFunctions
<1>1. PICK F : Adds(f, S, F) /\ SumFunction(f) = F[S] /\ F[S] \in Int
  BY <1>0, SumByAdding
<1>2. PICK G : Adds(g, S, G) /\ SumFunction(g) = G[S] /\ G[S] \in Int
  BY <1>0, SumByAdding
<1> DEFINE C == {T \in SUBSET S : G[T] = F[T] * k}
<1>4. {} \in C
  BY <1>0, <1>1, <1>2 DEF Adds
<1>5. ASSUME NEW T \in SUBSET S, NEW x \in S, T \in C PROVE T \cup {x} \in C
  <2>1. CASE x \in T
    <3>1. T \cup {x} = T
      BY <2>1
    <3>2. QED
      BY <1>5, <3>1
  <2>2. CASE x \notin T
    <3>0. x \in S \ T
      BY <2>2
    <3>1. /\ F[T \cup {x}] = f[x] + F[T] /\ F[T] \in Int /\ f[x] \in Int
          /\ G[T \cup {x}] = g[x] + G[T] /\ G[T] \in Int /\ g[x] \in Int
      <4>1. F[T \cup {x}] = f[x] + F[T] /\ F[T] \in Int /\ f[x] \in Int
        BY <1>1, <3>0 DEF Adds
      <4>2. G[T \cup {x}] = g[x] + G[T] /\ G[T] \in Int /\ g[x] \in Int
        BY <1>2, <3>0 DEF Adds
      <4>3. QED
        BY <4>1, <4>2
    <3>2. G[T] = F[T] * k /\ g[x] = f[x] * k
      BY <1>0, <1>5
    <3>3. T \cup {x} \in SUBSET S
      OBVIOUS
    <3>4. (f[x] + F[T]) * k = f[x] * k + F[T] * k
      BY <1>0, <3>1
    <3>5. G[T \cup {x}] = F[T \cup {x}] * k
      BY <3>1, <3>2, <3>4
    <3>6. QED
      BY <3>3, <3>5
  <2>3. QED
    BY <2>1, <2>2
<1> HIDE DEF C
<1>6. S \in C
  BY <1>4, <1>5, SetInduction
<1>7. QED
  BY <1>1, <1>2, <1>6 DEF C

\* Summing an indicator counts.
LEMMA SumCounts ==
  ASSUME NEW S, IsFiniteSet(S), NEW W, NEW f, Indicates(S, W, f)
  PROVE  SumFunction(f) = Cardinality(W)
<1>0. /\ f \in [S -> Int] /\ W \in SUBSET S
      /\ \A x \in S : f[x] = IF x \in W THEN 1 ELSE 0
  BY DEF Indicates
<1>1. PICK F : Adds(f, S, F) /\ SumFunction(f) = F[S] /\ F[S] \in Int
  BY <1>0, SumByAdding
<1> DEFINE C == {T \in SUBSET S : F[T] = Cardinality(T \cap W)}
<1>2. {} \in C
  <2>1. {} \cap W = {}
    OBVIOUS
  <2>2. QED
    BY <1>1, <2>1, FS_EmptySet DEF Adds
<1>3. ASSUME NEW T \in SUBSET S, NEW x \in S, T \in C PROVE T \cup {x} \in C
  <2>1. CASE x \in T
    <3>1. T \cup {x} = T
      BY <2>1
    <3>2. QED
      BY <1>3, <3>1
  <2>2. CASE x \notin T
    <3>1. F[T \cup {x}] = f[x] + F[T] /\ F[T] \in Int /\ f[x] \in Int
      BY <1>1, <2>2 DEF Adds
    <3>2. IsFiniteSet(T \cap W) /\ x \notin T \cap W
      BY <1>0, <2>2, FS_Subset
    <3>3. T \cup {x} \in SUBSET S
      OBVIOUS
    <3>4. F[T \cup {x}] = Cardinality((T \cup {x}) \cap W)
      <4>1. CASE x \in W
        <5>1. (T \cup {x}) \cap W = (T \cap W) \cup {x}
          BY <4>1
        <5>2. Cardinality((T \cap W) \cup {x}) = Cardinality(T \cap W) + 1
          BY <3>2, FS_AddElement
        <5>3. f[x] = 1 /\ F[T] = Cardinality(T \cap W)
          BY <1>0, <1>3, <4>1
        <5>4. Cardinality((T \cup {x}) \cap W) = Cardinality(T \cap W) + 1
          BY <5>1, <5>2
        <5>5. QED
          BY <3>1, <5>3, <5>4
      <4>2. CASE x \notin W
        <5>1. (T \cup {x}) \cap W = T \cap W
          BY <4>2
        <5>2. f[x] = 0 /\ F[T] = Cardinality(T \cap W)
          BY <1>0, <1>3, <4>2
        <5>3. QED
          BY <3>1, <5>1, <5>2
      <4>3. QED
        BY <4>1, <4>2
    <3>5. QED
      BY <3>3, <3>4
  <2>3. QED
    BY <2>1, <2>2
<1> HIDE DEF C
<1>4. S \in C
  BY <1>2, <1>3, SetInduction
<1>5. S \cap W = W
  BY <1>0
<1>6. QED
  BY <1>1, <1>4, <1>5 DEF C

LEMMA SumInt ==
  ASSUME NEW S, IsFiniteSet(S), NEW f \in [S -> Int]
  PROVE  SumFunction(f) \in Int
<1>1. PICK F : Adds(f, S, F) /\ SumFunction(f) = F[S] /\ F[S] \in Int
  BY SumByAdding
<1>2. QED
  BY <1>1 DEF Adds

LEMMA SumOfZeros ==
  ASSUME NEW S, IsFiniteSet(S), NEW f \in [S -> Int], \A x \in S : f[x] = 0
  PROVE  SumFunction(f) = 0
<1>1. Indicates(S, {}, f)
  BY DEF Indicates
<1>2. QED
  BY <1>1, SumCounts, FS_EmptySet

\* A sum in which only one term is not zero.
LEMMA SumOfOne ==
  ASSUME NEW S, IsFiniteSet(S), NEW f, NEW a, OnlyAt(S, f, a)
  PROVE  SumFunction(f) = f[a]
<1>0. f \in [S -> Int] /\ a \in S /\ \A x \in S : x # a => f[x] = 0
  BY DEF OnlyAt
<1> DEFINE e == [x \in S |-> IF x \in {a} THEN 1 ELSE 0]
<1>1. Indicates(S, {a}, e)
  BY <1>0 DEF Indicates
<1>2. ScaledBy(S, e, f[a], f)
  BY <1>0 DEF ScaledBy, IntFunctions
<1> HIDE DEF e
<1>3. SumFunction(e) = 1
  BY <1>1, SumCounts, FS_Singleton
<1>4. SumFunction(f) = SumFunction(e) * f[a]
  BY <1>2, SumScaled
<1>5. f[a] \in Int
  BY <1>0
<1>6. QED
  BY <1>3, <1>4, <1>5

\* Two functions that differ at one place at most.
LEMMA SumChangedAt ==
  ASSUME NEW S, IsFiniteSet(S), NEW f, NEW g, NEW a, DifferAt(S, f, g, a)
  PROVE  /\ SumFunction(g) = SumFunction(f) + (g[a] - f[a])
         /\ SumFunction(f) \in Int
<1>0. /\ f \in [S -> Int] /\ g \in [S -> Int] /\ a \in S
      /\ \A x \in S : x # a => g[x] = f[x]
  BY DEF DifferAt, IntFunctions
<1> DEFINE d == [x \in S |-> IF x = a THEN g[a] - f[a] ELSE 0]
<1>1. OnlyAt(S, d, a) /\ d[a] = g[a] - f[a]
  BY <1>0 DEF OnlyAt
<1>2. AddUp(S, f, d, g)
  BY <1>0 DEF AddUp, IntFunctions
<1> HIDE DEF d
<1>3. SumFunction(d) = d[a]
  BY <1>1, SumOfOne
<1>4. SumFunction(g) = SumFunction(f) + SumFunction(d)
  BY <1>2, SumOfSums
<1>5. SumFunction(f) \in Int
  BY <1>0, SumInt
<1>6. QED
  BY <1>1, <1>3, <1>4, <1>5

LEMMA SumNat ==
  ASSUME NEW S, IsFiniteSet(S), NEW f \in [S -> Nat]
  PROVE  /\ SumFunction(f) \in Nat
         /\ \A x \in S : f[x] <= SumFunction(f)
         /\ SumFunction(f) = 0 <=> \A x \in S : f[x] = 0
<1> DEFINE z == [x \in S |-> 0]
           only(a) == [x \in S |-> IF x = a THEN f[a] ELSE 0]
<1>1. f \in [S -> Int] /\ SumFunction(f) \in Int
  BY SumInt
<1>2. SumFunction(z) = 0
  <2>1. z \in [S -> Int] /\ \A x \in S : z[x] = 0
    OBVIOUS
  <2> HIDE DEF z
  <2>2. QED
    BY <2>1, SumOfZeros
<1>3. SumFunction(z) <= SumFunction(f)
  <2>1. NowhereAbove(S, z, f)
    BY <1>1 DEF NowhereAbove, IntFunctions
  <2>2. QED
    BY <2>1, SumMonotone
<1>4. ASSUME NEW a \in S PROVE f[a] <= SumFunction(f)
  <2>1. OnlyAt(S, only(a), a) /\ only(a)[a] = f[a]
    BY DEF OnlyAt
  <2>2. NowhereAbove(S, only(a), f)
    BY DEF NowhereAbove, IntFunctions
  <2> HIDE DEF only
  <2>3. SumFunction(only(a)) = f[a]
    BY <2>1, SumOfOne
  <2>4. SumFunction(only(a)) <= SumFunction(f)
    BY <2>2, SumMonotone
  <2>5. QED
    BY <2>3, <2>4
<1>5. SumFunction(f) = 0 => \A x \in S : f[x] = 0
  BY <1>4
<1>6. (\A x \in S : f[x] = 0) => SumFunction(f) = 0
  BY <1>1, SumOfZeros
<1>7. QED
  BY <1>1, <1>2, <1>3, <1>4, <1>5, <1>6
================================================================================
