--------------------------- MODULE BufferPool_proof ---------------------------
(***************************************************************************)
(* The pools of BufferPool.tla keep the ledger's two balances equal to the *)
(* bytes they hold, and stay under the caps of their caches, for any       *)
(* number of pools, any bucket lengths and any caps.                       *)
(*                                                                         *)
(* The balances are sums over all pools.  A step moves one pool, and the   *)
(* ledger by what that pool gained or lost (Moves, MoveKeeps); what is     *)
(* left is a statement about each pool alone (PoolInv).  The first part of *)
(* the module is about the sums.                                           *)
(***************************************************************************)
EXTENDS BufferPool, FiniteSetTheorems, WellFoundedInduction, TLAPS

(* Sums over a finite set.                                                 *)

\* What holds of 0 and of every successor holds of every number.
LEMMA NatSetInduction ==
  ASSUME NEW G, 0 \in G, \A n \in Nat : n \in G => n + 1 \in G
  PROVE  Nat \subseteq G
<1> DEFINE Bad == {n \in Nat : n \notin G}
<1>1. SUFFICES ASSUME Bad # {} PROVE FALSE
  OBVIOUS
<1>2. PICK m \in Bad : \A n \in Bad : <<n, m>> \notin OpToRel(<, Nat)
  <2>1. Bad \subseteq Nat
    OBVIOUS
  <2> HIDE DEF Bad
  <2> QED BY <1>1, <2>1, NatLessThanWellFounded, WFMin
<1>3. m \in Nat /\ m # 0 /\ m - 1 \in Nat /\ m - 1 < m
  OBVIOUS
<1>4. m - 1 \notin Bad
  BY <1>2, <1>3 DEF OpToRel
<1>5. (m - 1) + 1 = m
  BY <1>3
<1> QED BY <1>3, <1>4, <1>5

Pick(s) == CHOOSE x \in s : TRUE

LEMMA PickIsIn == ASSUME NEW s, s # {} PROVE Pick(s) \in s
BY DEF Pick

\* g is the sum of f over every set in D, element by element.
Adds(g, f, D) == g = [s \in D |-> IF s = {} THEN 0 ELSE f[Pick(s)] + g[s \ {Pick(s)}]]

LEMMA AddsExists ==
  ASSUME NEW S, IsFiniteSet(S), NEW f
  PROVE  \E g : Adds(g, f, SUBSET S)
<1> DEFINE upto(n) == {s \in SUBSET S : Cardinality(s) <= n}
           G == {n \in Nat : \E g : Adds(g, f, upto(n))}
<1>1. \A s \in SUBSET S : /\ IsFiniteSet(s) /\ Cardinality(s) \in Nat /\ Cardinality(s) <= Cardinality(S)
                          /\ s # {} => /\ Pick(s) \in s
                                       /\ Cardinality(s \ {Pick(s)}) = Cardinality(s) - 1
  BY PickIsIn, FS_Subset, FS_CardinalityType, FS_RemoveElement
<1>2. Cardinality(S) \in Nat /\ upto(Cardinality(S)) = SUBSET S
  BY <1>1, FS_CardinalityType
<1>3. 0 \in G
  <2>1. Adds([s \in upto(0) |-> 0], f, upto(0))
    BY <1>1, FS_EmptySet DEF Adds
  <2> QED BY <2>1
<1>4. ASSUME NEW n \in Nat, n \in G PROVE n + 1 \in G
  <2>1. PICK g : Adds(g, f, upto(n))
    BY <1>4
  <2> DEFINE h == [s \in upto(n + 1) |-> IF s = {} THEN 0 ELSE f[Pick(s)] + g[s \ {Pick(s)}]]
  <2>2. \A s \in upto(n) : s \in upto(n + 1) /\ h[s] = g[s]
    <3>1. SUFFICES ASSUME NEW s \in upto(n) PROVE s \in upto(n + 1) /\ h[s] = g[s]
      OBVIOUS
    <3>2. s \in upto(n + 1)
      <4>1. s \in SUBSET S /\ Cardinality(s) <= n
        OBVIOUS
      <4>2. Cardinality(s) \in Nat
        BY <1>1, <4>1
      <4> QED BY <4>1, <4>2
    <3>3. h[s] = IF s = {} THEN 0 ELSE f[Pick(s)] + g[s \ {Pick(s)}]
      BY <3>2
    <3>4. g[s] = IF s = {} THEN 0 ELSE f[Pick(s)] + g[s \ {Pick(s)}]
      <4> HIDE DEF upto, h
      <4> QED BY <2>1, <3>1 DEF Adds
    <3> QED BY <3>2, <3>3, <3>4
  <2>3. \A s \in upto(n + 1) : s # {} => s \ {Pick(s)} \in upto(n)
    BY <1>1
  <2>4. Adds(h, f, upto(n + 1))
    <3> HIDE DEF upto
    <3> QED BY <2>2, <2>3 DEF Adds
  <2>5. n + 1 \in Nat
    OBVIOUS
  <2> HIDE DEF h, upto
  <2> QED BY <2>4, <2>5
<1>5. Cardinality(S) \in G
  <2> HIDE DEF G
  <2> QED BY <1>2, <1>3, <1>4, NatSetInduction
<1>6. \E g : Adds(g, f, SUBSET S)
  BY <1>2, <1>5
<1> QED BY <1>6

LEMMA SumAdds ==
  ASSUME NEW S, IsFiniteSet(S), NEW f
  PROVE  \E g : Adds(g, f, SUBSET S) /\ SumFunctionOnSet(f, S) = g[S]
<1> DEFINE it == CHOOSE g : Adds(g, f, SUBSET S)
<1>1. SumFunctionOnSet(f, S) = it[S]
  BY DEF SumFunctionOnSet, FoldFunctionOnSet, MapThenFoldSet, Adds, Pick
<1>2. Adds(it, f, SUBSET S)
  BY AddsExists
<1> QED BY <1>1, <1>2

\* SumFunctionOnSet does what its recursion says, on any part of its indices.
LEMMA SumUnfolds ==
  ASSUME NEW S, IsFiniteSet(S), NEW f
  PROVE  /\ SumFunctionOnSet(f, {}) = 0
         /\ S # {} => \E x \in S : SumFunctionOnSet(f, S) = f[x] + SumFunctionOnSet(f, S \ {x})
<1>1. \A T : IsFiniteSet(T) => \E g : Adds(g, f, SUBSET T) /\ SumFunctionOnSet(f, T) = g[T]
  BY SumAdds
<1>2. SumFunctionOnSet(f, {}) = 0
  <2>1. PICK g : Adds(g, f, SUBSET {}) /\ SumFunctionOnSet(f, {}) = g[{}]
    BY <1>1, FS_EmptySet DEF Adds
  <2> QED BY <2>1 DEF Adds
<1>3. ASSUME S # {} PROVE SumFunctionOnSet(f, S) = f[Pick(S)] + SumFunctionOnSet(f, S \ {Pick(S)})
  <2> DEFINE T == S \ {Pick(S)}
  <2>1. PICK g : Adds(g, f, SUBSET S) /\ SumFunctionOnSet(f, S) = g[S]
    BY <1>1
  <2>2. PICK h : Adds(h, f, SUBSET T) /\ SumFunctionOnSet(f, T) = h[T]
    BY <1>1, FS_RemoveElement
  <2> DEFINE G == {n \in Nat : \A s \in SUBSET T : Cardinality(s) = n => g[s] = h[s]}
  <2>3. \A s \in SUBSET T : /\ s \in SUBSET S /\ Cardinality(s) \in Nat
                            /\ s # {} => /\ s \ {Pick(s)} \in SUBSET T
                                         /\ Cardinality(s \ {Pick(s)}) = Cardinality(s) - 1
    BY PickIsIn, FS_Subset, FS_CardinalityType, FS_RemoveElement
  <2>4. \A s \in SUBSET T : /\ g[s] = IF s = {} THEN 0 ELSE f[Pick(s)] + g[s \ {Pick(s)}]
                            /\ h[s] = IF s = {} THEN 0 ELSE f[Pick(s)] + h[s \ {Pick(s)}]
    <3> HIDE DEF T
    <3> QED BY <2>1, <2>2, <2>3 DEF Adds
  <2>5. 0 \in G
    <3>1. \A s \in SUBSET T : Cardinality(s) = 0 => s = {}
      BY FS_EmptySet, FS_Subset, FS_RemoveElement
    <3> HIDE DEF T
    <3> QED BY <2>4, <3>1
  <2>6. ASSUME NEW n \in Nat, n \in G PROVE n + 1 \in G
    <3>1. ASSUME NEW s \in SUBSET T, Cardinality(s) = n + 1 PROVE g[s] = h[s]
      <4>1. CASE s = {}
        BY <2>4, <4>1
      <4>2. CASE s # {}
        <5>1. s \ {Pick(s)} \in SUBSET T /\ Cardinality(s \ {Pick(s)}) = n
          <6> HIDE DEF T
          <6> QED BY <2>3, <3>1, <4>2
        <5>2. g[s \ {Pick(s)}] = h[s \ {Pick(s)}]
          BY <2>6, <5>1
        <5> HIDE DEF T
        <5> QED BY <2>4, <5>2
      <4> QED BY <4>1, <4>2
    <3> QED BY <3>1
  <2>7. Nat \subseteq G
    <3> HIDE DEF G
    <3> QED BY <2>5, <2>6, NatSetInduction
  <2>8. g[T] = h[T]
    <3>1. Cardinality(T) \in G
      <4>1. Cardinality(T) \in Nat
        BY <2>3
      <4> QED BY <4>1, <2>7
    <3> QED BY <3>1
  <2>9. g[S] = f[Pick(S)] + g[T]
    <3> QED BY <2>1, <1>3 DEF Adds
  <2> QED BY <2>1, <2>2, <2>8, <2>9
<1>4. S # {} => Pick(S) \in S
  BY PickIsIn
<1> QED BY <1>2, <1>3, <1>4

\* What holds of the empty set and of a set all of whose parts with one element
\* less have it, holds of every finite set.
LEMMA SubsetInduction ==
  ASSUME NEW S, IsFiniteSet(S), NEW G, {} \in G,
         \A T \in SUBSET S : T # {} /\ (\A x \in T : T \ {x} \in G) => T \in G
  PROVE  SUBSET S \subseteq G
<1> DEFINE N == {n \in Nat : \A T \in SUBSET S : Cardinality(T) = n => T \in G}
<1>1. \A T \in SUBSET S : /\ IsFiniteSet(T) /\ Cardinality(T) \in Nat
                          /\ Cardinality(T) = 0 => T = {}
                          /\ \A x \in T : Cardinality(T \ {x}) = Cardinality(T) - 1
  BY FS_Subset, FS_CardinalityType, FS_EmptySet, FS_RemoveElement
<1>2. 0 \in N
  BY <1>1
<1>3. ASSUME NEW n \in Nat, n \in N PROVE n + 1 \in N
  <2>1. ASSUME NEW T \in SUBSET S, Cardinality(T) = n + 1 PROVE T \in G
    <3>1. T # {}
      <4>1. Cardinality({}) = 0 /\ n + 1 # 0
        BY FS_EmptySet
      <4> QED BY <2>1, <4>1
    <3>2. ASSUME NEW x \in T PROVE T \ {x} \in G
      <4>1. T \ {x} \in SUBSET S /\ Cardinality(T \ {x}) = n
        BY <1>1, <2>1
      <4> QED BY <1>3, <4>1
    <3> QED BY <3>1, <3>2
  <2> QED BY <2>1
<1>4. Nat \subseteq N
  <2> HIDE DEF N
  <2> QED BY <1>2, <1>3, NatSetInduction
<1> QED BY <1>1, <1>4

LEMMA SumIsInt ==
  ASSUME NEW S, IsFiniteSet(S), NEW f, \A x \in S : f[x] \in Int
  PROVE  \A T \in SUBSET S : SumFunctionOnSet(f, T) \in Int
<1> DEFINE G == {T \in SUBSET S : SumFunctionOnSet(f, T) \in Int}
<1>1. {} \in G
  BY SumUnfolds
<1>2. ASSUME NEW T \in SUBSET S, T # {}, \A x \in T : T \ {x} \in G PROVE T \in G
  <2>1. IsFiniteSet(T)
    BY FS_Subset
  <2>2. PICK x \in T : SumFunctionOnSet(f, T) = f[x] + SumFunctionOnSet(f, T \ {x})
    BY <1>2, <2>1, SumUnfolds
  <2> QED BY <1>2, <2>2
<1>3. SUBSET S \subseteq G
  <2> HIDE DEF G
  <2> QED BY <1>1, <1>2, SubsetInduction
<1> QED BY <1>3

\* Any element may be taken out of a sum.
LEMMA SumStep ==
  ASSUME NEW S, IsFiniteSet(S), NEW f, \A x \in S : f[x] \in Int, NEW x \in S
  PROVE  SumFunctionOnSet(f, S) = f[x] + SumFunctionOnSet(f, S \ {x})
<1> DEFINE Sum(T) == SumFunctionOnSet(f, T)
           G == {T \in SUBSET S : \A y \in T : Sum(T) = f[y] + Sum(T \ {y})}
<1>1. {} \in G
  OBVIOUS
<1>2. ASSUME NEW T \in SUBSET S, T # {}, \A y \in T : T \ {y} \in G PROVE T \in G
  <2>0. IsFiniteSet(T)
    BY FS_Subset
  <2>1. PICK z \in T : Sum(T) = f[z] + Sum(T \ {z})
    BY <1>2, <2>0, SumUnfolds
  <2>2. ASSUME NEW y \in T, y # z PROVE Sum(T) = f[y] + Sum(T \ {y})
    <3>1. Sum(T \ {z}) = f[y] + Sum((T \ {z}) \ {y}) /\ Sum(T \ {y}) = f[z] + Sum((T \ {y}) \ {z})
      BY <1>2, <2>2
    <3>2. (T \ {z}) \ {y} = (T \ {y}) \ {z} /\ (T \ {z}) \ {y} \in SUBSET S
      OBVIOUS
    <3>3. f[y] \in Int /\ f[z] \in Int /\ Sum((T \ {z}) \ {y}) \in Int
      BY <3>2, SumIsInt
    <3>4. Sum(T) = f[z] + (f[y] + Sum((T \ {z}) \ {y}))
      BY <2>1, <3>1
    <3>5. Sum(T \ {y}) = f[z] + Sum((T \ {z}) \ {y})
      BY <3>1, <3>2
    <3> HIDE DEF Sum
    <3> QED BY <3>3, <3>4, <3>5
  <2> QED BY <2>1, <2>2
<1>3. SUBSET S \subseteq G
  <2> HIDE DEF G
  <2> QED BY <1>1, <1>2, SubsetInduction
<1> QED BY <1>3

\* A sum depends on the terms alone.
LEMMA SumSame ==
  ASSUME NEW S, IsFiniteSet(S), NEW f, NEW g, \A x \in S : f[x] \in Int /\ g[x] = f[x]
  PROVE  SumFunctionOnSet(g, S) = SumFunctionOnSet(f, S)
<1> DEFINE G == {T \in SUBSET S : SumFunctionOnSet(g, T) = SumFunctionOnSet(f, T)}
<1>1. {} \in G
  BY SumUnfolds
<1>2. ASSUME NEW T \in SUBSET S, T # {}, \A x \in T : T \ {x} \in G PROVE T \in G
  <2>1. PICK x \in T : TRUE
    BY <1>2
  <2>2. IsFiniteSet(T) /\ \A y \in T : f[y] \in Int /\ g[y] \in Int
    BY FS_Subset
  <2>3. /\ SumFunctionOnSet(f, T) = f[x] + SumFunctionOnSet(f, T \ {x})
        /\ SumFunctionOnSet(g, T) = g[x] + SumFunctionOnSet(g, T \ {x})
    BY <2>2, SumStep
  <2>4. g[x] = f[x] /\ SumFunctionOnSet(g, T \ {x}) = SumFunctionOnSet(f, T \ {x})
    BY <1>2
  <2> QED BY <2>3, <2>4
<1>3. SUBSET S \subseteq G
  <2> HIDE DEF G
  <2> QED BY <1>1, <1>2, SubsetInduction
<1> QED BY <1>3

\* Functions over one finite set that differ at one place differ so in their sums.
LEMMA SumChange ==
  ASSUME NEW S, IsFiniteSet(S), NEW f \in [S -> Int], NEW g \in [S -> Int], NEW x \in S,
         \A y \in S \ {x} : g[y] = f[y]
  PROVE  /\ SumFunction(f) \in Int /\ SumFunction(g) \in Int
         /\ SumFunction(g) - SumFunction(f) = g[x] - f[x]
<1>1. IsFiniteSet(S \ {x})
  BY FS_RemoveElement
<1>2. SumFunctionOnSet(g, S \ {x}) = SumFunctionOnSet(f, S \ {x})
  BY <1>1, SumSame
<1>3. SumFunctionOnSet(f, S \ {x}) \in Int /\ f[x] \in Int /\ g[x] \in Int
  BY SumIsInt
<1>4. /\ SumFunctionOnSet(f, S) = f[x] + SumFunctionOnSet(f, S \ {x})
      /\ SumFunctionOnSet(g, S) = g[x] + SumFunctionOnSet(g, S \ {x})
  BY SumStep
<1>5. SumFunction(f) = SumFunctionOnSet(f, S) /\ SumFunction(g) = SumFunctionOnSet(g, S)
  BY DEF SumFunction
<1> QED BY <1>2, <1>3, <1>4, <1>5

\* A sum of naturals bounds its terms, and is zero only if they all are.
LEMMA SumIsNat ==
  ASSUME NEW S, IsFiniteSet(S), NEW f \in [S -> Nat]
  PROVE  /\ SumFunction(f) \in Nat
         /\ \A x \in S : f[x] <= SumFunction(f)
         /\ (\A x \in S : f[x] = 0) => SumFunction(f) = 0
<1> DEFINE G == {T \in SUBSET S : /\ SumFunctionOnSet(f, T) \in Nat
                                  /\ \A x \in T : f[x] <= SumFunctionOnSet(f, T)
                                  /\ (\A x \in T : f[x] = 0) => SumFunctionOnSet(f, T) = 0}
<1>1. {} \in G
  BY SumUnfolds
<1>2. ASSUME NEW T \in SUBSET S, T # {}, \A x \in T : T \ {x} \in G PROVE T \in G
  <2> DEFINE all == SumFunctionOnSet(f, T)
  <2>1. \A x \in T : /\ f[x] \in Nat /\ SumFunctionOnSet(f, T \ {x}) \in Nat
                     /\ all = f[x] + SumFunctionOnSet(f, T \ {x})
    <3>1. IsFiniteSet(T) /\ \A x \in T : f[x] \in Int /\ f[x] \in Nat
      BY FS_Subset
    <3>2. \A x \in T : all = f[x] + SumFunctionOnSet(f, T \ {x})
      BY <3>1, SumStep
    <3> QED BY <1>2, <3>1, <3>2
  <2>2. all \in Nat /\ \A x \in T : f[x] <= all
    <3>1. ASSUME NEW x \in T PROVE all \in Nat /\ f[x] <= all
      <4> DEFINE rest == SumFunctionOnSet(f, T \ {x})
      <4>1. f[x] \in Nat /\ rest \in Nat /\ all = f[x] + rest
        BY <2>1
      <4> HIDE DEF all, rest
      <4> QED BY <4>1
    <3> QED BY <1>2, <3>1
  <2>3. ASSUME \A x \in T : f[x] = 0 PROVE all = 0
    <3>1. PICK x \in T : SumFunctionOnSet(f, T \ {x}) = 0
      BY <1>2, <2>3
    <3> QED BY <2>1, <2>3, <3>1
  <2> QED BY <2>2, <2>3
<1>3. SUBSET S \subseteq G
  <2> HIDE DEF G
  <2> QED BY <1>1, <1>2, SubsetInduction
<1> QED BY <1>3 DEF SumFunction

-----------------------------------------------------------------------------
(* The bytes of a pool's buffers.                                          *)

LEMMA Scaled ==
  ASSUME NEW n \in Nat, NEW k \in Nat
  PROVE  /\ n * k \in Nat /\ n * 0 = 0
         /\ n * (k + 1) = n * k + n
         /\ k > 0 => n <= n * k /\ n * (k - 1) = n * k - n
<1>1. n * k \in Nat /\ n * 0 = 0 /\ n * (k + 1) = n * k + n
  OBVIOUS
<1>2. ASSUME k > 0 PROVE n <= n * k /\ n * (k - 1) = n * k - n
  <2>1. k - 1 \in Nat /\ n * k = n * (k - 1) + n
    BY <1>2
  <2>2. n * (k - 1) \in Nat
    BY <2>1
  <2> QED BY <2>1, <2>2
<1> QED BY <1>1, <1>2

LEMMA BytesFacts ==
  ASSUME NEW count \in [Sizes -> Nat]
  PROVE  /\ Bytes(count) \in Nat
         /\ \A n \in Sizes : count[n] > 0 => n <= Bytes(count)
         /\ (\A n \in Sizes : count[n] = 0) => Bytes(count) = 0
<1> DEFINE f == [n \in Sizes |-> n * count[n]]
<1>1. \A n \in Sizes : n \in Nat /\ count[n] \in Nat
  BY ConstantsAssumption
<1>2. f \in [Sizes -> Nat] /\ IsFiniteSet(Sizes)
  BY <1>1, Scaled, ConstantsAssumption
<1>3. /\ SumFunction(f) \in Nat /\ \A n \in Sizes : f[n] <= SumFunction(f)
      /\ (\A n \in Sizes : f[n] = 0) => SumFunction(f) = 0
  <2> HIDE DEF f
  <2> QED BY <1>2, SumIsNat
<1>4. Bytes(count) = SumFunction(f)
  BY DEF Bytes
<1>5. ASSUME NEW n \in Sizes, count[n] > 0 PROVE n <= Bytes(count)
  <2>1. n <= f[n] /\ f[n] \in Nat
    BY <1>1, <1>5, Scaled
  <2> QED BY <1>1, <1>3, <1>4, <2>1
<1>6. ASSUME \A n \in Sizes : count[n] = 0 PROVE Bytes(count) = 0
  <2>1. \A n \in Sizes : f[n] = 0
    BY <1>1, <1>6, Scaled
  <2> QED BY <1>3, <1>4, <2>1
<1> QED BY <1>3, <1>4, <1>5, <1>6

\* One buffer more or less is its length more or less.
LEMMA BytesChange ==
  ASSUME NEW count \in [Sizes -> Nat], NEW n \in Sizes, NEW k \in Nat
  PROVE  Bytes([count EXCEPT ![n] = k]) = Bytes(count) + n * k - n * count[n]
<1> DEFINE new == [count EXCEPT ![n] = k]
           f == [m \in Sizes |-> m * count[m]]
           g == [m \in Sizes |-> m * new[m]]
<1>1. \A m \in Sizes : m \in Nat /\ count[m] \in Nat /\ new[m] \in Nat
  BY ConstantsAssumption
<1>2. /\ f \in [Sizes -> Int] /\ g \in [Sizes -> Int] /\ \A m \in Sizes \ {n} : g[m] = f[m]
      /\ IsFiniteSet(Sizes)
  BY <1>1, ConstantsAssumption
<1>3. SumFunction(f) \in Int /\ SumFunction(g) \in Int /\ SumFunction(g) - SumFunction(f) = g[n] - f[n]
  <2> HIDE DEF f, g
  <2> QED BY <1>2, SumChange
<1>4. Bytes(count) = SumFunction(f) /\ Bytes(new) = SumFunction(g)
  BY DEF Bytes
<1>5. f[n] = n * count[n] /\ g[n] = n * k
  OBVIOUS
<1>6. n * count[n] \in Int /\ n * k \in Int
  BY <1>1
<1> HIDE DEF f, g, new
<1>7. Bytes(new) = Bytes(count) + n * k - n * count[n]
  BY <1>3, <1>4, <1>5, <1>6
<1> QED BY <1>7 DEF new

Counts == [Pools -> [Sizes -> Nat]]

LEMMA PlusMoves ==
  ASSUME NEW f \in Counts, NEW p \in Pools, NEW n \in Sizes
  PROVE  /\ Plus(f, p, n) \in Counts
         /\ Bytes(Plus(f, p, n)[p]) = Bytes(f[p]) + n
         /\ \A q \in Pools \ {p} : Plus(f, p, n)[q] = f[q]
<1>1. f[p] \in [Sizes -> Nat] /\ f[p][n] \in Nat /\ n \in Nat
  BY ConstantsAssumption DEF Counts
<1>2. Plus(f, p, n)[p] = [f[p] EXCEPT ![n] = f[p][n] + 1]
  BY DEF Plus, Counts
<1>3. Bytes(f[p]) \in Nat /\ n * f[p][n] \in Nat
  BY <1>1, BytesFacts, Scaled
<1>4. Bytes(Plus(f, p, n)[p]) = Bytes(f[p]) + n * (f[p][n] + 1) - n * f[p][n]
  BY <1>1, <1>2, BytesChange
<1>5. n * (f[p][n] + 1) = n * f[p][n] + n
  BY <1>1, Scaled
<1>6. Plus(f, p, n) \in Counts /\ \A q \in Pools \ {p} : Plus(f, p, n)[q] = f[q]
  BY <1>1 DEF Plus, Counts
<1> QED BY <1>1, <1>3, <1>4, <1>5, <1>6

LEMMA MinusMoves ==
  ASSUME NEW f \in Counts, NEW p \in Pools, NEW n \in Sizes, f[p][n] > 0
  PROVE  /\ Minus(f, p, n) \in Counts
         /\ n <= Bytes(f[p]) /\ Bytes(Minus(f, p, n)[p]) = Bytes(f[p]) - n
         /\ \A q \in Pools \ {p} : Minus(f, p, n)[q] = f[q]
<1>1. f[p] \in [Sizes -> Nat] /\ f[p][n] \in Nat /\ f[p][n] - 1 \in Nat /\ n \in Nat
  BY ConstantsAssumption DEF Counts
<1>2. Minus(f, p, n)[p] = [f[p] EXCEPT ![n] = f[p][n] - 1]
  BY DEF Minus, Counts
<1>3. Bytes(f[p]) \in Nat /\ n * f[p][n] \in Nat /\ n <= Bytes(f[p])
  BY <1>1, BytesFacts, Scaled
<1>4. Bytes(Minus(f, p, n)[p]) = Bytes(f[p]) + n * (f[p][n] - 1) - n * f[p][n]
  BY <1>1, <1>2, BytesChange
<1>5. n * (f[p][n] - 1) = n * f[p][n] - n
  BY <1>1, Scaled
<1>6. Minus(f, p, n) \in Counts /\ \A q \in Pools \ {p} : Minus(f, p, n)[q] = f[q]
  BY <1>1 DEF Minus, Counts
<1> QED BY <1>1, <1>3, <1>4, <1>5, <1>6

\* A finite set of numbers has a largest one.
LEMMA LargestExists ==
  ASSUME NEW M, IsFiniteSet(M), M \subseteq Nat, M # {}
  PROVE  Max(M) \in M
<1> DEFINE G == {T \in SUBSET M : T # {} => \E x \in T : \A y \in T : x >= y}
<1>1. {} \in G
  OBVIOUS
<1>2. ASSUME NEW T \in SUBSET M, T # {}, \A x \in T : T \ {x} \in G PROVE T \in G
  <2>1. PICK z \in T : TRUE
    BY <1>2
  <2>2. \A y \in T : y \in Nat
    OBVIOUS
  <2>3. CASE T \ {z} = {}
    BY <2>1, <2>2, <2>3
  <2>4. CASE T \ {z} # {}
    <3>1. PICK x \in T \ {z} : \A y \in T \ {z} : x >= y
      BY <1>2, <2>4
    <3>2. x >= z \/ z >= x
      BY <2>2
    <3> QED BY <2>2, <3>1, <3>2
  <2> QED BY <2>3, <2>4
<1>3. SUBSET M \subseteq G
  <2> HIDE DEF G
  <2> QED BY <1>1, <1>2, SubsetInduction
<1>4. \E x \in M : \A y \in M : x >= y
  BY <1>3
<1> QED BY <1>4 DEF Max

-----------------------------------------------------------------------------
(* The invariant.                                                          *)

\* What one pool's counters and place say of its buffers.  A transfer works on a
\* buffer; a buffer on its way into the cache has its place there; a pool that
\* tries again has nothing parked; one that is dropped still counts what waits.
PoolInv(p) ==
  /\ pc[p] \in {"hit", "charge", "retry", "create", "park"} => key[p] \in Sizes
  /\ pc[p] \in {"idle", "shrink"} => key[p] = 0
  /\ Open(p) => /\ liveBytes[p] = Bytes(handed[p]) + Bytes(waiting[p])
                /\ pc[p] # "trim" => cachedBytes[p] = Bytes(freelist[p])
  /\ pc[p] # "shrink" => cachedBytes[p] <= maxCache[p]
  /\ pc[p] = "shrink" => cachedBytes[p] > maxCache[p]
  /\ pc[p] = "park" => cachedBytes[p] + key[p] <= maxCache[p]
  /\ pc[p] = "retry" => Cached(p) = {}
  /\ pc[p] = "closing" => Bytes(waiting[p]) <= liveBytes[p]

IInv == TypeOK /\ LedgerBalanced /\ \A p \in Pools : PoolInv(p)

\* TypeOK without the ledger.
PoolTypes ==
  /\ freelist \in Counts /\ handed \in Counts /\ waiting \in Counts
  /\ cachedBytes \in [Pools -> Nat] /\ liveBytes \in [Pools -> Nat]
  /\ maxCache \in [Pools -> Caches]
  /\ pc \in [Pools -> PcStates] /\ key \in [Pools -> Sizes \cup {0}]

OnlyMoves(p) ==
  \A q \in Pools \ {p} :
    /\ freelist'[q] = freelist[q] /\ handed'[q] = handed[q] /\ waiting'[q] = waiting[q]
    /\ cachedBytes'[q] = cachedBytes[q] /\ liveBytes'[q] = liveBytes[q]
    /\ maxCache'[q] = maxCache[q] /\ pc'[q] = pc[q] /\ key'[q] = key[q]

\* A step of pool p: the ledger follows the bytes of p, which are in order.
Moves(p) ==
  /\ PoolTypes' /\ OnlyMoves(p) /\ PoolInv(p)'
  /\ ledger' \in [{"Live", "Cached"} -> Int]
  /\ ledger'.Live = ledger.Live + Owed(p)' - Owed(p)
  /\ ledger'.Cached = ledger.Cached + Bytes(freelist'[p]) - Bytes(freelist[p])

LEMMA SizesAreNat == \A n \in Sizes : n \in Nat /\ n # 0 /\ n > 0
BY ConstantsAssumption

LEMMA OwedFacts ==
  PoolTypes => \A p \in Pools : Owed(p) \in Nat /\ Bytes(freelist[p]) \in Nat
<1> SUFFICES ASSUME PoolTypes, NEW p \in Pools PROVE Owed(p) \in Nat /\ Bytes(freelist[p]) \in Nat
  OBVIOUS
<1>1. /\ handed[p] \in [Sizes -> Nat] /\ waiting[p] \in [Sizes -> Nat]
      /\ freelist[p] \in [Sizes -> Nat]
  BY DEF PoolTypes, Counts
<1>2. key[p] \in Nat
  <2>1. key[p] \in Sizes \cup {0}
    BY DEF PoolTypes
  <2> QED BY <2>1, SizesAreNat
<1> QED BY <1>1, <1>2, BytesFacts DEF Owed

LEMMA OwedFactsAfter ==
  (PoolTypes => \A p \in Pools : Owed(p) \in Nat /\ Bytes(freelist[p]) \in Nat)'
BY OwedFacts, PTL

\* What one pool does right keeps the whole right.
LEMMA MoveKeeps ==
  ASSUME IInv, NEW p \in Pools, Moves(p)
  PROVE  IInv'
<1> DEFINE owed == [q \in Pools |-> Owed(q)]
           parked == [q \in Pools |-> Bytes(freelist[q])]
<1>1. PoolTypes /\ PoolTypes' /\ OnlyMoves(p) /\ PoolInv(p)'
  BY DEF IInv, TypeOK, PoolTypes, Counts, Moves
<1>2. ASSUME NEW q \in Pools \ {p} PROVE Owed(q)' = Owed(q) /\ parked'[q] = parked[q] /\ PoolInv(q)'
  <2>1. PoolInv(q)
    BY DEF IInv
  <2> QED BY <1>1, <2>1 DEF OnlyMoves, Owed, PoolInv, Open, Cached
<1>3. \A q \in Pools : Owed(q) \in Nat /\ Bytes(freelist[q]) \in Nat
  BY <1>1, OwedFacts
<1>4. \A q \in Pools : Owed(q)' \in Nat /\ Bytes(freelist'[q]) \in Nat
  BY <1>1, OwedFactsAfter
<1>5. /\ IsFiniteSet(Pools)
      /\ owed \in [Pools -> Nat] /\ owed' \in [Pools -> Nat]
      /\ parked \in [Pools -> Nat] /\ parked' \in [Pools -> Nat]
      /\ \A q \in Pools \ {p} : owed'[q] = owed[q] /\ parked'[q] = parked[q]
      /\ owed'[p] = Owed(p)' /\ owed[p] = Owed(p)
      /\ parked'[p] = Bytes(freelist'[p]) /\ parked[p] = Bytes(freelist[p])
  BY <1>2, <1>3, <1>4, ConstantsAssumption
<1>6. /\ SumFunction(owed) \in Nat /\ SumFunction(owed') \in Nat
      /\ SumFunction(parked) \in Nat /\ SumFunction(parked') \in Nat
      /\ SumFunction(owed') - SumFunction(owed) = owed'[p] - owed[p]
      /\ SumFunction(parked') - SumFunction(parked) = parked'[p] - parked[p]
  <2> HIDE DEF owed, parked
  <2>1. /\ owed \in [Pools -> Int] /\ owed' \in [Pools -> Int]
        /\ parked \in [Pools -> Int] /\ parked' \in [Pools -> Int]
    BY <1>5
  <2>2. /\ SumFunction(owed') - SumFunction(owed) = owed'[p] - owed[p]
        /\ SumFunction(parked') - SumFunction(parked) = parked'[p] - parked[p]
    BY <1>5, <2>1, SumChange
  <2> QED BY <1>5, <2>2, SumIsNat
<1>7. ledger.Live = SumFunction(owed) /\ ledger.Cached = SumFunction(parked)
  BY DEF IInv, LedgerBalanced
<1>8. ledger'.Live = SumFunction(owed') /\ ledger'.Cached = SumFunction(parked')
  <2>1. /\ ledger'.Live = ledger.Live + owed'[p] - owed[p]
        /\ ledger'.Cached = ledger.Cached + parked'[p] - parked[p]
    BY <1>5 DEF Moves
  <2>2. owed'[p] \in Nat /\ owed[p] \in Nat /\ parked'[p] \in Nat /\ parked[p] \in Nat
    BY <1>5
  <2> HIDE DEF owed, parked
  <2> QED BY <1>6, <1>7, <2>1, <2>2
<1>9. \A q \in Pools : PoolInv(q)'
  BY <1>1, <1>2
<1>10. LedgerBalanced'
  BY <1>8, <1>9 DEF LedgerBalanced, PoolInv
<1>11. TypeOK'
  <2>1. ledger' \in [{"Live", "Cached"} -> Nat]
    BY <1>6, <1>8 DEF Moves
  <2> QED BY <1>1, <2>1 DEF TypeOK, PoolTypes, Counts
<1> QED BY <1>9, <1>10, <1>11 DEF IInv

LEMMA PoolFacts ==
  ASSUME IInv, NEW p \in Pools
  PROVE  /\ PoolTypes /\ PoolInv(p)
         /\ key[p] \in Nat /\ cachedBytes[p] \in Nat /\ liveBytes[p] \in Nat /\ maxCache[p] \in Nat
         /\ Bytes(freelist[p]) \in Nat /\ Bytes(handed[p]) \in Nat /\ Bytes(waiting[p]) \in Nat
         /\ ledger \in [{"Live", "Cached"} -> Nat] /\ ledger.Live \in Nat /\ ledger.Cached \in Nat
<1>1. PoolTypes /\ PoolInv(p) /\ ledger \in [{"Live", "Cached"} -> Nat]
  BY DEF IInv, TypeOK, PoolTypes, Counts
<1>2. /\ freelist[p] \in [Sizes -> Nat] /\ handed[p] \in [Sizes -> Nat]
      /\ waiting[p] \in [Sizes -> Nat]
  BY <1>1 DEF PoolTypes, Counts
<1>3. key[p] \in Sizes \cup {0} /\ cachedBytes[p] \in Nat /\ liveBytes[p] \in Nat /\ maxCache[p] \in Caches
  BY <1>1 DEF PoolTypes
<1>4. maxCache[p] \in Nat
  BY <1>3, ConstantsAssumption
<1> QED BY <1>1, <1>2, <1>3, <1>4, BytesFacts, SizesAreNat

\* A charge or a release of n bytes.
LEMMA LedgerCalls ==
  ASSUME ledger \in [{"Live", "Cached"} -> Nat], NEW class \in {"Live", "Cached"}, NEW n \in Nat
  PROVE  /\ Charge(class, n) => /\ ledger' \in [{"Live", "Cached"} -> Int]
                                /\ ledger'[class] = ledger[class] + n
                                /\ \A c \in {"Live", "Cached"} \ {class} : ledger'[c] = ledger[c]
         /\ Release(class, n) => /\ ledger' \in [{"Live", "Cached"} -> Int]
                                 /\ ledger'[class] = ledger[class] - n
                                 /\ \A c \in {"Live", "Cached"} \ {class} : ledger'[c] = ledger[c]
BY DEF Charge, Release

LEMMA AllocMoves ==
  ASSUME IInv, NEW p \in Pools, NEW n \in Sizes, Alloc(p, n)
  PROVE  Moves(p)
<1> USE PoolFacts DEF PoolTypes, Alloc
<1>1. n \in Nat
  BY SizesAreNat
<1>2. CASE n \in Cached(p)
  <2>1. freelist[p][n] > 0 /\ freelist' = Minus(freelist, p, n) /\ Release("Cached", n)
    BY <1>2 DEF Cached
  <2>2. /\ freelist' \in Counts /\ Bytes(freelist'[p]) = Bytes(freelist[p]) - n
        /\ \A q \in Pools \ {p} : freelist'[q] = freelist[q]
        /\ n <= Bytes(freelist[p])
    BY <2>1, MinusMoves
  <2>3. cachedBytes[p] = Bytes(freelist[p]) /\ cachedBytes' = [cachedBytes EXCEPT ![p] = @ - n]
    BY <1>2 DEF PoolInv, Open
  <2>4. PoolTypes' /\ OnlyMoves(p)
    BY <1>1, <1>2, <2>2, <2>3 DEF OnlyMoves, PcStates
  <2>5. PoolInv(p)'
    BY <1>1, <1>2, <2>2, <2>3 DEF PoolInv, Open
  <2>6. /\ ledger' \in [{"Live", "Cached"} -> Int] /\ ledger'.Live = ledger.Live
        /\ ledger'.Cached = ledger.Cached - n
    BY <1>1, <2>1, LedgerCalls
  <2>7. Owed(p)' = Owed(p) /\ Owed(p) \in Nat
    BY <1>2, OwedFacts DEF Owed
  <2> QED BY <1>1, <2>2, <2>4, <2>5, <2>6, <2>7 DEF Moves
<1>3. CASE n \notin Cached(p)
  <2>1. PoolTypes' /\ OnlyMoves(p)
    BY <1>3 DEF OnlyMoves, PcStates
  <2>2. PoolInv(p)'
    BY <1>3 DEF PoolInv, Open
  <2>3. Owed(p)' = Owed(p) /\ Owed(p) \in Nat /\ ledger' = ledger
    BY <1>3, OwedFacts DEF Owed
  <2>4. ledger' \in [{"Live", "Cached"} -> Int] /\ freelist' = freelist
    BY <1>3, <2>3
  <2> QED BY <2>1, <2>2, <2>3, <2>4 DEF Moves
<1> QED BY <1>2, <1>3

\* A buffer is handed out: what was charged for it is owed for it.
LEMMA HandOutMoves ==
  ASSUME IInv, NEW p \in Pools, HandOut(p), pc[p] \in {"hit", "create"},
         pc[p] = "hit" => Charge("Live", key[p]), pc[p] = "create" => UNCHANGED ledger
  PROVE  Moves(p)
<1> USE PoolFacts DEF PoolTypes, HandOut, Goto
<1>1. key[p] \in Sizes
  BY DEF PoolInv
<1>2. /\ handed' \in Counts /\ Bytes(handed'[p]) = Bytes(handed[p]) + key[p]
      /\ \A q \in Pools \ {p} : handed'[q] = handed[q]
  BY <1>1, PlusMoves
<1>3. PoolTypes' /\ OnlyMoves(p)
  BY <1>2 DEF OnlyMoves, PcStates
<1>4. PoolInv(p)'
  BY <1>2 DEF PoolInv, Open
<1>5. /\ ledger' \in [{"Live", "Cached"} -> Int]
      /\ ledger'.Live = ledger.Live + (IF pc[p] = "hit" THEN key[p] ELSE 0)
      /\ ledger'.Cached = ledger.Cached
  BY LedgerCalls
<1>6. Owed(p)' = Bytes(handed[p]) + key[p] + Bytes(waiting[p])
  BY <1>2 DEF Owed
<1>7. Owed(p) = Bytes(handed[p]) + Bytes(waiting[p]) + (IF pc[p] = "create" THEN key[p] ELSE 0)
  BY DEF Owed
<1> QED BY <1>3, <1>4, <1>5, <1>6, <1>7 DEF Moves

\* The pool goes on elsewhere, with the same buffers and counters.
LEMMA GotoMoves ==
  ASSUME IInv, NEW p \in Pools, NEW place \in PcStates, Goto(p, place),
         UNCHANGED <<counters, buffers>>,
         ledger' \in [{"Live", "Cached"} -> Int], ledger'.Cached = ledger.Cached,
         ledger'.Live = ledger.Live + (IF place = "create" THEN key[p] ELSE 0)
                                    - (IF pc[p] = "create" THEN key[p] ELSE 0),
         PoolInv(p)'
  PROVE  Moves(p)
<1> USE PoolFacts DEF PoolTypes, Goto, counters, buffers
<1>1. PoolTypes' /\ OnlyMoves(p)
  BY DEF OnlyMoves
<1>2. Owed(p)' = Bytes(handed[p]) + Bytes(waiting[p]) + (IF place = "create" THEN key[p] ELSE 0)
  BY DEF Owed
<1>3. Owed(p) = Bytes(handed[p]) + Bytes(waiting[p]) + (IF pc[p] = "create" THEN key[p] ELSE 0)
  BY DEF Owed
<1>4. Bytes(freelist'[p]) = Bytes(freelist[p])
  OBVIOUS
<1> QED BY <1>1, <1>2, <1>3, <1>4 DEF Moves

LEMMA CachedToLiveMoves ==
  ASSUME IInv, NEW p \in Pools, CachedToLive(p)
  PROVE  Moves(p)
<1>1. CASE Room(key[p])
  BY <1>1, HandOutMoves DEF CachedToLive
<1>2. CASE ~Room(key[p])
  <2> USE PoolFacts DEF PoolTypes, CachedToLive
  <2>1. PoolInv(p)'
    BY <1>2 DEF PoolInv, Open, Cached, Goto, counters, buffers
  <2>2. Goto(p, "charge") /\ ledger' = ledger /\ "charge" \in PcStates
    BY <1>2 DEF PcStates
  <2> QED BY <1>2, <2>1, <2>2, GotoMoves
<1> QED BY <1>1, <1>2

LEMMA ChargeFreshMoves ==
  ASSUME IInv, NEW p \in Pools, ChargeFresh(p)
  PROVE  Moves(p)
<1> USE PoolFacts DEF PoolTypes, ChargeFresh
<1>1. CASE Room(key[p])
  <2>1. PoolInv(p)'
    BY <1>1 DEF PoolInv, Open, Cached, Goto, counters, buffers
  <2>2. /\ ledger' \in [{"Live", "Cached"} -> Int] /\ ledger'.Cached = ledger.Cached
        /\ ledger'.Live = ledger.Live + key[p]
    BY <1>1, LedgerCalls
  <2>3. Goto(p, "create") /\ "create" \in PcStates /\ pc[p] # "create"
    BY <1>1 DEF PcStates
  <2> QED BY <2>1, <2>2, <2>3, GotoMoves
<1>2. CASE ~Room(key[p])
  <2>1. PoolInv(p)'
    BY <1>2 DEF PoolInv, Open, Cached, Goto, counters, buffers
  <2>2. \E place \in {"trim", "idle"} : Goto(p, place)
    BY <1>2
  <2>3. ledger' = ledger /\ {"trim", "idle"} \subseteq PcStates \ {"create"} /\ pc[p] # "create"
    BY <1>2 DEF PcStates
  <2> QED BY <2>1, <2>2, <2>3, GotoMoves
<1> QED BY <1>1, <1>2

LEMMA CreateFailsMoves ==
  ASSUME IInv, NEW p \in Pools, CreateFails(p)
  PROVE  Moves(p)
<1> USE PoolFacts DEF PoolTypes, CreateFails
<1>1. PoolInv(p)'
  BY DEF PoolInv, Open, Cached, Goto, counters, buffers
<1>2. /\ ledger' \in [{"Live", "Cached"} -> Int] /\ ledger'.Cached = ledger.Cached
      /\ ledger'.Live = ledger.Live - key[p]
  BY LedgerCalls
<1>3. Goto(p, "idle") /\ "idle" \in PcStates
  BY DEF PcStates
<1> QED BY <1>1, <1>2, <1>3, GotoMoves

LEMMA TrimMoves ==
  ASSUME IInv, NEW p \in Pools, Trim(p) \/ DropRuntime(p)
  PROVE  Moves(p)
<1> USE PoolFacts DEF PoolTypes, Trim, DropRuntime
<1>1. PoolInv(p)'
  BY DEF PoolInv, Open, Cached, Goto, counters, buffers
<1>2. \E place \in {"trim", "closing", "leaked"} : Goto(p, place)
  OBVIOUS
<1>3. /\ ledger' = ledger /\ UNCHANGED <<counters, buffers>>
      /\ {"trim", "closing", "leaked"} \subseteq PcStates \ {"create"} /\ pc[p] # "create"
  BY DEF PcStates
<1> QED BY <1>1, <1>2, <1>3, GotoMoves

LEMMA TrimOneMoves ==
  ASSUME IInv, NEW p \in Pools, TrimOne(p)
  PROVE  Moves(p)
<1> USE PoolFacts DEF PoolTypes
<1>1. PICK n \in Cached(p) : freelist' = Minus(freelist, p, n) /\ Release("Cached", n)
  BY DEF TrimOne
<1>2. n \in Sizes /\ freelist[p][n] > 0 /\ n \in Nat
  BY SizesAreNat DEF Cached
<1>3. /\ freelist' \in Counts /\ Bytes(freelist'[p]) = Bytes(freelist[p]) - n
      /\ \A q \in Pools \ {p} : freelist'[q] = freelist[q]
  BY <1>1, <1>2, MinusMoves
<1>4. /\ ledger' \in [{"Live", "Cached"} -> Int] /\ ledger'.Live = ledger.Live
      /\ ledger'.Cached = ledger.Cached - n
  BY <1>1, <1>2, LedgerCalls
<1>5. CASE freelist'[p] = [m \in Sizes |-> 0]
  <2>1. Bytes(freelist'[p]) = 0 /\ Cached(p)' = {}
    <3>1. \A m \in Sizes : freelist'[p][m] = 0
      BY <1>5
    <3> QED BY <1>3, <3>1, BytesFacts DEF Counts, Cached
  <2>2. /\ pc' = [pc EXCEPT ![p] = IF key[p] = 0 THEN "idle" ELSE "retry"]
        /\ key'[p] = key[p] /\ key' \in [Pools -> Sizes \cup {0}]
        /\ \A q \in Pools \ {p} : key'[q] = key[q]
        /\ cachedBytes' = [cachedBytes EXCEPT ![p] = 0]
        /\ UNCHANGED <<maxCache, liveBytes, handed, waiting>> /\ pc[p] = "trim"
    BY <1>5 DEF TrimOne, Goto
  <2>3. PoolTypes' /\ OnlyMoves(p)
    BY <1>3, <2>2 DEF OnlyMoves, PcStates
  <2>4. PoolInv(p)'
    BY <1>3, <2>1, <2>2 DEF PoolInv, Open
  <2>5. Owed(p)' = Owed(p) /\ Owed(p) \in Nat
    BY <2>2, OwedFacts DEF Owed
  <2> QED BY <1>2, <1>3, <1>4, <2>3, <2>4, <2>5 DEF Moves
<1>6. CASE freelist'[p] # [m \in Sizes |-> 0]
  <2>1. UNCHANGED <<cachedBytes, pc, key, maxCache, liveBytes, handed, waiting>> /\ pc[p] = "trim"
    BY <1>6 DEF TrimOne
  <2>2. PoolTypes' /\ OnlyMoves(p)
    BY <1>3, <2>1 DEF OnlyMoves
  <2>3. PoolInv(p)'
    BY <2>1 DEF PoolInv, Open
  <2>4. Owed(p)' = Owed(p) /\ Owed(p) \in Nat
    BY <2>1, OwedFacts DEF Owed
  <2> QED BY <1>2, <1>3, <1>4, <2>2, <2>3, <2>4 DEF Moves
<1> QED BY <1>5, <1>6

LEMMA DropHandleMoves ==
  ASSUME IInv, NEW p \in Pools, NEW n \in Sizes, DropHandle(p, n)
  PROVE  Moves(p)
<1> USE PoolFacts DEF PoolTypes, DropHandle, counters
<1>1. n \in Nat
  BY SizesAreNat
<1>2. /\ handed' \in Counts /\ Bytes(handed'[p]) = Bytes(handed[p]) - n
      /\ \A q \in Pools \ {p} : handed'[q] = handed[q]
  BY MinusMoves
<1>3. CASE ~Open(p)
  <2>1. UNCHANGED waiting /\ Release("Live", n)
    BY <1>3 DEF Open
  <2>2. PoolTypes' /\ OnlyMoves(p)
    BY <1>2, <2>1 DEF OnlyMoves
  <2>3. PoolInv(p)'
    BY <1>3, <2>1 DEF PoolInv, Open, Cached
  <2>4. /\ ledger' \in [{"Live", "Cached"} -> Int] /\ ledger'.Live = ledger.Live - n
        /\ ledger'.Cached = ledger.Cached
    BY <1>1, <2>1, LedgerCalls
  <2>5. Owed(p)' = Owed(p) - n
    BY <1>1, <1>2, <2>1 DEF Owed
  <2>6. Owed(p) \in Nat
    BY OwedFacts
  <2> QED BY <1>1, <2>2, <2>3, <2>4, <2>5, <2>6 DEF Moves
<1>4. CASE Open(p)
  <2>1. waiting' = Plus(waiting, p, n) /\ UNCHANGED ledger
    BY <1>4 DEF Open
  <2>2. /\ waiting' \in Counts /\ Bytes(waiting'[p]) = Bytes(waiting[p]) + n
        /\ \A q \in Pools \ {p} : waiting'[q] = waiting[q]
    BY <2>1, PlusMoves
  <2>3. PoolTypes' /\ OnlyMoves(p)
    BY <1>2, <2>2 DEF OnlyMoves
  <2>4. PoolInv(p)'
    BY <1>1, <1>2, <1>4, <2>2 DEF PoolInv, Open, Cached
  <2>5. Owed(p)' = Owed(p) /\ Owed(p) \in Nat
    BY <1>1, <1>2, <2>2, OwedFacts DEF Owed
  <2>6. ledger' \in [{"Live", "Cached"} -> Int]
    BY <2>1
  <2> QED BY <2>1, <2>3, <2>4, <2>5, <2>6 DEF Moves
<1> QED BY <1>3, <1>4

LEMMA RetireMoves ==
  ASSUME IInv, NEW p \in Pools, NEW n \in Sizes, pc[p] \in {"idle", "closing"},
         waiting[p][n] > 0, Retire(p, n)
  PROVE  Moves(p)
<1> USE PoolFacts DEF PoolTypes, Retire
<1>1. n \in Nat
  BY SizesAreNat
<1>2. /\ waiting' \in Counts /\ Bytes(waiting'[p]) = Bytes(waiting[p]) - n
      /\ \A q \in Pools \ {p} : waiting'[q] = waiting[q]
      /\ n <= Bytes(waiting[p])
  BY MinusMoves
<1>3. Bytes(waiting[p]) <= liveBytes[p]
  BY DEF PoolInv, Open
<1>4. PoolTypes' /\ OnlyMoves(p)
  BY <1>1, <1>2, <1>3 DEF OnlyMoves
<1>5. PoolInv(p)'
  BY <1>1, <1>2, <1>3 DEF PoolInv, Open, Cached
<1>6. /\ ledger' \in [{"Live", "Cached"} -> Int] /\ ledger'.Live = ledger.Live - n
      /\ ledger'.Cached = ledger.Cached
  BY <1>1, LedgerCalls
<1>7. Owed(p)' = Owed(p) - n /\ Owed(p) \in Nat
  BY <1>1, <1>2, OwedFacts DEF Owed
<1> QED BY <1>1, <1>4, <1>5, <1>6, <1>7 DEF Moves

\* The buffer on its way into the cache fits: in what is left of the cap, or in the
\* place of a larger one.
LEMMA RecycleMoves ==
  ASSUME IInv, NEW p \in Pools, NEW n \in Sizes, Recycle(p, n)
  PROVE  Moves(p)
<1> USE PoolFacts DEF PoolTypes
<1>1. pc[p] = "idle" /\ waiting[p][n] > 0 /\ n \in Nat /\ n > 0
  BY SizesAreNat DEF Recycle
<1>2. CASE ~Fits(p, n)
  BY <1>1, <1>2, RetireMoves DEF Recycle
<1>3. CASE Fits(p, n)
  <2> DEFINE evicted == IF n <= Left(p) THEN 0 ELSE Max(LargerCached(p, n))
  <2>1. /\ freelist' = IF evicted = 0 THEN freelist ELSE Minus(freelist, p, evicted)
        /\ cachedBytes' = [cachedBytes EXCEPT ![p] = @ - evicted]
        /\ ledger' = [Live |-> ledger.Live - n, Cached |-> ledger.Cached - evicted]
        /\ waiting' = Minus(waiting, p, n)
        /\ liveBytes' = [liveBytes EXCEPT ![p] = @ - n]
        /\ pc' = [pc EXCEPT ![p] = "park"] /\ key' = [key EXCEPT ![p] = n]
        /\ UNCHANGED <<maxCache, handed>>
    BY <1>3 DEF Recycle
  <2>2. /\ evicted = 0 => n <= Left(p)
        /\ evicted # 0 => evicted \in Sizes /\ freelist[p][evicted] > 0 /\ evicted > n
        /\ evicted \in Nat
    <3>1. CASE n <= Left(p)
      BY <3>1
    <3>2. CASE ~(n <= Left(p))
      <4>1. LargerCached(p, n) # {} /\ LargerCached(p, n) \in SUBSET Sizes
        BY <1>3, <3>2 DEF Fits, LargerCached, Cached
      <4>2. Max(LargerCached(p, n)) \in LargerCached(p, n)
        <5>1. IsFiniteSet(LargerCached(p, n)) /\ LargerCached(p, n) \subseteq Nat
          BY <4>1, FS_Subset, SizesAreNat, ConstantsAssumption
        <5> QED BY <4>1, <5>1, LargestExists
      <4>3. evicted = Max(LargerCached(p, n))
        BY <3>2
      <4>4. evicted \in LargerCached(p, n)
        BY <4>2, <4>3
      <4> HIDE DEF evicted
      <4> QED BY <4>4, SizesAreNat DEF LargerCached, Cached
    <3> QED BY <3>1, <3>2
  <2> HIDE DEF evicted
  <2>3. /\ freelist' \in Counts /\ Bytes(freelist'[p]) = Bytes(freelist[p]) - evicted
        /\ \A q \in Pools \ {p} : freelist'[q] = freelist[q]
        /\ evicted <= Bytes(freelist[p])
    <3>1. CASE evicted = 0
      BY <2>1, <3>1
    <3>2. CASE evicted # 0
      BY <2>1, <2>2, <3>2, MinusMoves
    <3> QED BY <3>1, <3>2
  <2>4. /\ waiting' \in Counts /\ Bytes(waiting'[p]) = Bytes(waiting[p]) - n
        /\ \A q \in Pools \ {p} : waiting'[q] = waiting[q]
        /\ n <= Bytes(waiting[p])
    BY <1>1, <2>1, MinusMoves
  <2>5. /\ cachedBytes[p] = Bytes(freelist[p]) /\ cachedBytes[p] <= maxCache[p]
        /\ liveBytes[p] = Bytes(handed[p]) + Bytes(waiting[p])
    BY <1>1 DEF PoolInv, Open
  <2>6. cachedBytes[p] - evicted + n <= maxCache[p]
    BY <1>1, <2>2, <2>5 DEF Left
  <2>7. PoolTypes' /\ OnlyMoves(p)
    BY <1>1, <2>1, <2>2, <2>3, <2>4, <2>5 DEF OnlyMoves, PcStates
  <2>8. PoolInv(p)'
    BY <1>1, <2>1, <2>2, <2>3, <2>4, <2>5, <2>6 DEF PoolInv, Open
  <2>9. /\ ledger' \in [{"Live", "Cached"} -> Int] /\ ledger'.Live = ledger.Live - n
        /\ ledger'.Cached = ledger.Cached - evicted
    BY <1>1, <2>1, <2>2
  <2>10. Owed(p)' = Owed(p) - n /\ Owed(p) \in Nat
    BY <1>1, <2>1, <2>4, OwedFacts DEF Owed
  <2> QED BY <1>1, <2>2, <2>3, <2>7, <2>8, <2>9, <2>10 DEF Moves
<1> QED BY <1>2, <1>3

LEMMA ParkMoves ==
  ASSUME IInv, NEW p \in Pools, Park(p)
  PROVE  Moves(p)
<1> USE PoolFacts DEF PoolTypes
<1>1. /\ pc[p] = "park" /\ key[p] \in Sizes /\ pc' = [pc EXCEPT ![p] = "idle"]
      /\ key' = [key EXCEPT ![p] = 0] /\ UNCHANGED <<maxCache, liveBytes, handed, waiting>>
      /\ cachedBytes[p] = Bytes(freelist[p]) /\ cachedBytes[p] + key[p] <= maxCache[p]
      /\ liveBytes[p] = Bytes(handed[p]) + Bytes(waiting[p])
  BY DEF Park, Goto, PoolInv, Open
<1>2. Owed(p)' = Owed(p) /\ Owed(p) \in Nat
  BY <1>1, OwedFacts DEF Owed
<1>3. CASE Room(key[p])
  <2>1. /\ Charge("Cached", key[p]) /\ cachedBytes' = [cachedBytes EXCEPT ![p] = @ + key[p]]
        /\ freelist' = Plus(freelist, p, key[p])
    BY <1>3 DEF Park
  <2>2. /\ freelist' \in Counts /\ Bytes(freelist'[p]) = Bytes(freelist[p]) + key[p]
        /\ \A q \in Pools \ {p} : freelist'[q] = freelist[q]
    BY <1>1, <2>1, PlusMoves
  <2>3. PoolTypes' /\ OnlyMoves(p)
    BY <1>1, <2>1, <2>2 DEF OnlyMoves, PcStates
  <2>4. PoolInv(p)'
    BY <1>1, <2>1, <2>2 DEF PoolInv, Open
  <2>5. /\ ledger' \in [{"Live", "Cached"} -> Int] /\ ledger'.Live = ledger.Live
        /\ ledger'.Cached = ledger.Cached + key[p]
    BY <2>1, LedgerCalls
  <2> QED BY <1>2, <2>2, <2>3, <2>4, <2>5 DEF Moves
<1>4. CASE ~Room(key[p])
  <2>1. UNCHANGED <<ledger, cachedBytes, freelist>>
    BY <1>4 DEF Park
  <2>2. PoolTypes' /\ OnlyMoves(p)
    BY <1>1, <2>1 DEF OnlyMoves, PcStates
  <2>3. PoolInv(p)'
    BY <1>1, <2>1 DEF PoolInv, Open
  <2>4. ledger' \in [{"Live", "Cached"} -> Int]
    BY <2>1
  <2> QED BY <1>2, <2>1, <2>2, <2>3, <2>4 DEF Moves
<1> QED BY <1>3, <1>4

LEMMA SetMaxCacheBytesMoves ==
  ASSUME IInv, NEW p \in Pools, NEW bytes \in Caches, SetMaxCacheBytes(p, bytes)
  PROVE  Moves(p)
<1> USE PoolFacts DEF PoolTypes
<1>1. bytes \in Nat
  BY ConstantsAssumption
<1>2. /\ pc[p] = "idle" /\ key[p] = 0
      /\ pc' = [pc EXCEPT ![p] = IF cachedBytes[p] > bytes THEN "shrink" ELSE "idle"]
      /\ key'[p] = 0 /\ key' \in [Pools -> Sizes \cup {0}] /\ \A q \in Pools \ {p} : key'[q] = key[q]
      /\ maxCache' = [maxCache EXCEPT ![p] = bytes]
      /\ UNCHANGED <<ledger, cachedBytes, liveBytes, freelist, handed, waiting>>
  BY DEF SetMaxCacheBytes, Goto, PoolInv, buffers
<1>3. PoolTypes' /\ OnlyMoves(p)
  BY <1>2 DEF OnlyMoves, PcStates
<1>4. PoolInv(p)'
  BY <1>1, <1>2 DEF PoolInv, Open
<1>5. Owed(p)' = Owed(p) /\ Owed(p) \in Nat
  BY <1>2, OwedFacts DEF Owed
<1>6. ledger' \in [{"Live", "Cached"} -> Int] /\ ledger' = ledger /\ freelist' = freelist
  BY <1>2
<1> QED BY <1>3, <1>4, <1>5, <1>6 DEF Moves

\* A pool above its cap has something to give up.
LEMMA ShrinkMoves ==
  ASSUME IInv, NEW p \in Pools, Shrink(p)
  PROVE  Moves(p)
<1> USE PoolFacts DEF PoolTypes
<1> DEFINE n == Max(Cached(p))
<1>1. /\ pc[p] = "shrink" /\ key[p] = 0 /\ cachedBytes[p] > maxCache[p]
      /\ cachedBytes[p] = Bytes(freelist[p])
      /\ liveBytes[p] = Bytes(handed[p]) + Bytes(waiting[p])
  BY DEF Shrink, PoolInv, Open
<1>2. n \in Sizes /\ freelist[p][n] > 0 /\ n \in Nat
  <2>1. freelist[p] \in [Sizes -> Nat]
    BY DEF Counts
  <2>2. \E m \in Sizes : freelist[p][m] # 0
    BY <1>1, <2>1, BytesFacts
  <2>3. Cached(p) # {} /\ Cached(p) \in SUBSET Sizes
    BY <2>1, <2>2 DEF Cached
  <2>4. n \in Cached(p)
    <3>1. IsFiniteSet(Cached(p)) /\ Cached(p) \subseteq Nat
      BY <2>3, FS_Subset, SizesAreNat, ConstantsAssumption
    <3> QED BY <2>3, <3>1, LargestExists
  <2> HIDE DEF n
  <2> QED BY <2>4, SizesAreNat DEF Cached
<1>3. /\ freelist' = Minus(freelist, p, n) /\ cachedBytes' = [cachedBytes EXCEPT ![p] = @ - n]
      /\ Release("Cached", n) /\ UNCHANGED <<maxCache, liveBytes, handed, waiting>>
      /\ pc' = [pc EXCEPT ![p] = IF cachedBytes'[p] > maxCache[p] THEN "shrink" ELSE "idle"]
      /\ key'[p] = 0 /\ key' \in [Pools -> Sizes \cup {0}] /\ \A q \in Pools \ {p} : key'[q] = key[q]
  BY <1>1 DEF Shrink, Goto
<1> HIDE DEF n
<1>4. /\ freelist' \in Counts /\ Bytes(freelist'[p]) = Bytes(freelist[p]) - n
      /\ \A q \in Pools \ {p} : freelist'[q] = freelist[q]
      /\ n <= Bytes(freelist[p])
  BY <1>2, <1>3, MinusMoves
<1>5. PoolTypes' /\ OnlyMoves(p)
  BY <1>1, <1>2, <1>3, <1>4 DEF OnlyMoves, PcStates
<1>6. PoolInv(p)'
  BY <1>1, <1>2, <1>3, <1>4 DEF PoolInv, Open
<1>7. /\ ledger' \in [{"Live", "Cached"} -> Int] /\ ledger'.Live = ledger.Live
      /\ ledger'.Cached = ledger.Cached - n
  BY <1>2, <1>3, LedgerCalls
<1>8. Owed(p)' = Owed(p) /\ Owed(p) \in Nat
  BY <1>1, <1>3, OwedFacts DEF Owed
<1> QED BY <1>2, <1>4, <1>5, <1>6, <1>7, <1>8 DEF Moves

LEMMA CloseCachedMoves ==
  ASSUME IInv, NEW p \in Pools, CloseCached(p)
  PROVE  Moves(p)
<1> USE PoolFacts DEF PoolTypes
<1>1. /\ freelist' = [freelist EXCEPT ![p] = [n \in Sizes |-> 0]]
      /\ cachedBytes' = [cachedBytes EXCEPT ![p] = 0]
      /\ pc[p] = "closing" /\ pc' = [pc EXCEPT ![p] = "gone"] /\ key' = key
      /\ Release("Cached", Bytes(freelist[p]))
      /\ UNCHANGED <<maxCache, liveBytes, handed, waiting>>
  BY DEF CloseCached, Goto
<1>2. /\ freelist' \in Counts /\ Bytes(freelist'[p]) = 0
      /\ \A q \in Pools \ {p} : freelist'[q] = freelist[q]
  <2>1. freelist'[p] = [n \in Sizes |-> 0] /\ freelist' \in Counts
    BY <1>1 DEF Counts
  <2>2. [n \in Sizes |-> 0] \in [Sizes -> Nat] /\ \A n \in Sizes : [m \in Sizes |-> 0][n] = 0
    OBVIOUS
  <2> QED BY <1>1, <2>1, <2>2, BytesFacts DEF Counts
<1>3. PoolTypes' /\ OnlyMoves(p)
  BY <1>1, <1>2 DEF OnlyMoves, PcStates
<1>4. PoolInv(p)'
  BY <1>1, <1>2 DEF PoolInv, Open
<1>5. /\ ledger' \in [{"Live", "Cached"} -> Int] /\ ledger'.Live = ledger.Live
      /\ ledger'.Cached = ledger.Cached - Bytes(freelist[p])
  BY <1>1, LedgerCalls
<1>6. Owed(p)' = Owed(p) /\ Owed(p) \in Nat
  BY <1>1, OwedFacts DEF Owed
<1> QED BY <1>2, <1>3, <1>4, <1>5, <1>6 DEF Moves

LEMMA StepMoves ==
  ASSUME IInv, NEW p \in Pools, PoolStep(p)
  PROVE  Moves(p)
<1>1. ASSUME NEW n \in Sizes, RetireHot(p, n) \/ CloseWaiting(p, n) PROVE Moves(p)
  BY <1>1, RetireMoves DEF RetireHot, CloseWaiting
<1>2. CASE Create(p)
  BY <1>2, HandOutMoves DEF Create
<1> QED BY <1>1, <1>2, AllocMoves, DropHandleMoves, RecycleMoves, CachedToLiveMoves,
        ChargeFreshMoves, CreateFailsMoves, TrimMoves, TrimOneMoves, ParkMoves,
        SetMaxCacheBytesMoves, ShrinkMoves, CloseCachedMoves DEF PoolStep

LEMMA InitInvariant == Init => IInv
<1> SUFFICES ASSUME Init PROVE IInv
  OBVIOUS
<1> DEFINE none == [n \in Sizes |-> 0]
<1>1. none \in [Sizes -> Nat] /\ \A n \in Sizes : none[n] = 0
  OBVIOUS
<1>2. Bytes(none) = 0
  BY <1>1, BytesFacts
<1>3. /\ ledger = [Live |-> 0, Cached |-> 0]
      /\ freelist = [p \in Pools |-> none] /\ handed = freelist /\ waiting = freelist
      /\ cachedBytes = [p \in Pools |-> 0] /\ liveBytes = cachedBytes
      /\ pc = [p \in Pools |-> "idle"] /\ key = [p \in Pools |-> 0]
  BY DEF Init
<1>4. maxCache \in [Pools -> Caches]
  <2>1. Max(Caches) \in Caches
    BY LargestExists, ConstantsAssumption
  <2> QED BY <2>1 DEF Init
<1> HIDE DEF none
<1>5. PoolTypes
  BY <1>1, <1>3, <1>4 DEF PoolTypes, Counts, PcStates
<1>6. TypeOK
  BY <1>3, <1>5 DEF TypeOK, PoolTypes, Counts
<1>7. ASSUME NEW p \in Pools PROVE PoolInv(p) /\ Owed(p) = 0 /\ Bytes(freelist[p]) = 0
  <2>1. maxCache[p] \in Nat
    BY <1>4, ConstantsAssumption
  <2> QED BY <1>2, <1>3, <2>1 DEF PoolInv, Open, Owed
<1>8. /\ SumFunction([p \in Pools |-> Owed(p)]) = 0
      /\ SumFunction([p \in Pools |-> Bytes(freelist[p])]) = 0
  BY <1>7, SumIsNat, ConstantsAssumption
<1>9. LedgerBalanced
  BY <1>3, <1>7, <1>8 DEF LedgerBalanced, PoolInv
<1> QED BY <1>6, <1>7, <1>9 DEF IInv

\* The balances follow what every pool holds, one pool at a time, and each pool
\* counts its own buffers wherever its thread is in a transfer.
THEOREM Inductive == Spec => []IInv
<1>1. IInv /\ [Next]_vars => IInv'
  <2> SUFFICES ASSUME IInv, [Next]_vars PROVE IInv'
    OBVIOUS
  <2>1. CASE Next
    BY <2>1, StepMoves, MoveKeeps DEF Next
  <2>2. CASE UNCHANGED vars
    BY <2>2 DEF vars, counters, buffers, IInv, TypeOK, LedgerBalanced, PoolInv, Owed, Open, Cached
  <2> QED BY <2>1, <2>2
<1> QED BY <1>1, InitInvariant, PTL DEF Spec

\* Every counter and balance stays a natural number, for any number of pools, any bucket
\* lengths and any caps: no release in the code takes more than was charged.
THEOREM TypeCorrect == Spec => []TypeOK
<1>1. IInv => TypeOK
  BY DEF IInv
<1> QED BY <1>1, Inductive, PTL

\* The ledger holds exactly the charges of the buffers that exist, whatever the pools
\* take from each other between the two halves of a transfer, and when they are gone.
THEOREM LedgerCorrect == Spec => []LedgerBalanced
<1>1. IInv => LedgerBalanced
  BY DEF IInv
<1> QED BY <1>1, Inductive, PTL

\* The free list is under its cap, also after a smaller buffer took the place of a
\* larger one.
THEOREM CacheCorrect == Spec => []CacheWithinCap
<1>1. IInv => CacheWithinCap
  BY DEF IInv, PoolInv, CacheWithinCap
<1> QED BY <1>1, Inductive, PTL

\* An allocation the ledger refused twice found nothing parked the second time, though
\* other pools may have taken what the trim gave up.
THEOREM RefusalCorrect == Spec => RefusedWithNothingCached
<1> DEFINE Refused == \A p \in Pools :
             pc[p] \in {"charge", "retry"} /\ pc'[p] = "idle" => Cached(p) = {}
<1>1. ASSUME IInv, [Next]_vars PROVE Refused
  <2>1. SUFFICES ASSUME NEW p \in Pools, pc[p] \in {"charge", "retry"}, pc'[p] = "idle"
                 PROVE  Cached(p) = {}
    OBVIOUS
  <2>2. PICK q \in Pools : PoolStep(q)
    BY <1>1, <2>1 DEF Next, vars
  <2>3. q = p
    <3>1. q # p => pc'[p] = pc[p]
      BY <1>1, <2>2, StepMoves DEF Moves, OnlyMoves
    <3> QED BY <2>1, <3>1
  <2>4. ChargeFresh(p)
    BY <2>1, <2>2, <2>3 DEF PoolStep, Alloc, DropHandle, RetireHot, Recycle, CloseWaiting,
       CachedToLive, Create, CreateFails, Trim, TrimOne, Park, SetMaxCacheBytes, Shrink,
       DropRuntime, CloseCached
  <2>5. ~Room(key[p]) /\ (pc[p] = "charge" => Cached(p) = {})
    <3>1. pc \in [Pools -> PcStates]
      BY <1>1 DEF IInv, TypeOK
    <3> QED BY <2>1, <2>4, <3>1 DEF ChargeFresh, Goto
  <2>6. pc[p] = "retry" => Cached(p) = {}
    BY <1>1 DEF IInv, PoolInv
  <2> QED BY <2>1, <2>5, <2>6
<1> QED BY <1>1, Inductive, PTL DEF Spec, RefusedWithNothingCached
=============================================================================
