---------------------------- MODULE ParBatch_proof ----------------------------
(***************************************************************************)
(* The batch of ParBatch.tla is answered as a loop over its texts would,   *)
(* for any texts, any cut of them, any number of threads and any order of  *)
(* their steps.                                                            *)
(*                                                                         *)
(* First what plan computes: chunks that cut the batch in order, none      *)
(* empty (PlanCuts).  Then the invariant, which speaks of each chunk       *)
(* alone: what it passed was encoded, and it stops short of its end only   *)
(* at a failure of its own or behind a smaller one (ChunkInv).             *)
(***************************************************************************)
EXTENDS ParBatch, FiniteSetTheorems, SequenceTheorems, WellFoundedInduction, TLAPS

(* Induction, and the least element.                                       *)

LEMMA LeastExists ==
  ASSUME NEW S, S \subseteq Nat, S # {}
  PROVE  Min(S) \in S /\ \A y \in S : Min(S) <= y
<1>1. PICK m \in S : \A y \in S : <<y, m>> \notin OpToRel(<, Nat)
  BY NatLessThanWellFounded, WFMin
<1>2. \A y \in S : m <= y
  <2>1. ASSUME NEW y \in S, y < m PROVE FALSE
    <3>1. y \in Nat /\ m \in Nat
      OBVIOUS
    <3>2. <<y, m>> \in OpToRel(<, Nat)
      BY <2>1, <3>1 DEF OpToRel
    <3> QED BY <1>1, <3>2
  <2> QED BY <2>1
<1>3. \E x \in S : \A y \in S : x <= y
  BY <1>2
<1> QED BY <1>3 DEF Min

\* What holds of 0 and of every successor holds of every number.
LEMMA NatSetInduction ==
  ASSUME NEW G, 0 \in G, \A n \in Nat : n \in G => n + 1 \in G
  PROVE  Nat \subseteq G
<1> DEFINE Bad == {n \in Nat : n \notin G}
<1>1. SUFFICES ASSUME Bad # {} PROVE FALSE
  OBVIOUS
<1>2. PICK m \in Bad : \A n \in Bad : m <= n
  <2>1. Bad \subseteq Nat
    OBVIOUS
  <2> HIDE DEF Bad
  <2> QED BY <1>1, <2>1, LeastExists
<1>3. m \in Nat /\ m # 0 /\ m - 1 \in Nat /\ ~(m <= m - 1)
  OBVIOUS
<1>4. m - 1 \in G /\ (m - 1) + 1 = m
  BY <1>2, <1>3
<1> QED BY <1>3, <1>4

-----------------------------------------------------------------------------
(* Sums of lengths.                                                        *)

Pick(s) == CHOOSE x \in s : TRUE

\* g is the sum of f over every set in D, element by element.
Adds(g, f, D) == g = [s \in D |-> IF s = {} THEN 0 ELSE f[Pick(s)] + g[s \ {Pick(s)}]]

LEMMA AddsExists ==
  ASSUME NEW S, IsFiniteSet(S), NEW f
  PROVE  \E g : Adds(g, f, SUBSET S)
<1> DEFINE upto(n) == {s \in SUBSET S : Cardinality(s) <= n}
           G == {n \in Nat : \E g : Adds(g, f, upto(n))}
<1>1. \A s \in SUBSET S : /\ IsFiniteSet(s) /\ Cardinality(s) \in Nat /\ Cardinality(s) <= Cardinality(S)
                          /\ s # {} => Cardinality(s \ {Pick(s)}) = Cardinality(s) - 1
  BY FS_Subset, FS_CardinalityType, FS_RemoveElement DEF Pick
<1>2. Cardinality(S) \in Nat /\ upto(Cardinality(S)) = SUBSET S
  BY <1>1, FS_CardinalityType
<1>3. 0 \in G
  <2>1. Adds([s \in upto(0) |-> 0], f, upto(0))
    BY <1>1, FS_EmptySet DEF Adds
  <2> QED BY <2>1
<1>4. ASSUME NEW n \in Nat, n \in G PROVE n + 1 \in G
  <2>1. PICK g : Adds(g, f, upto(n))
    BY <1>4
  <2> DEFINE h == [s \in upto(n + 1) |-> IF s = {} THEN 0 ELSE f[Pick(s)] + g[s \ {Pick(s)}]]
  <2>2. \A s \in upto(n) : s \in upto(n + 1)
    <3>1. SUFFICES ASSUME NEW s \in upto(n) PROVE s \in upto(n + 1)
      OBVIOUS
    <3>2. s \in SUBSET S /\ Cardinality(s) <= n
      OBVIOUS
    <3>3. Cardinality(s) \in Nat
      BY <1>1, <3>2
    <3> QED BY <3>2, <3>3
  <2>3. \A s \in upto(n + 1) : s # {} => s \ {Pick(s)} \in upto(n)
    <3>1. SUFFICES ASSUME NEW s \in upto(n + 1), s # {} PROVE s \ {Pick(s)} \in upto(n)
      OBVIOUS
    <3>2. s \in SUBSET S /\ Cardinality(s) <= n + 1
      OBVIOUS
    <3>3. Cardinality(s \ {Pick(s)}) = Cardinality(s) - 1 /\ Cardinality(s) \in Nat
      BY <1>1, <3>1, <3>2
    <3>4. s \ {Pick(s)} \in SUBSET S /\ Cardinality(s \ {Pick(s)}) <= n
      BY <3>2, <3>3
    <3> QED BY <3>4
  <2>4. Adds(h, f, upto(n + 1))
    <3> HIDE DEF upto
    <3>1. \A s \in upto(n) : h[s] = g[s]
      BY <2>1, <2>2 DEF Adds
    <3> QED BY <2>3, <2>2, <3>1 DEF Adds
  <2> HIDE DEF h, upto
  <2> QED BY <2>4
<1>5. Cardinality(S) \in G
  <2> HIDE DEF G
  <2> QED BY <1>2, <1>3, <1>4, NatSetInduction
<1> QED BY <1>2, <1>5

LEMMA SumIsNat ==
  ASSUME NEW S, IsFiniteSet(S), NEW f, \A x \in S : f[x] \in Nat
  PROVE  SumFunctionOnSet(f, S) \in Nat
<1> DEFINE g == CHOOSE it : Adds(it, f, SUBSET S)
           N == {n \in Nat : \A s \in SUBSET S : Cardinality(s) = n => g[s] \in Nat}
<1>1. SumFunctionOnSet(f, S) = g[S]
  BY DEF SumFunctionOnSet, FoldFunctionOnSet, MapThenFoldSet, Adds, Pick
<1>2. Adds(g, f, SUBSET S)
  BY AddsExists
<1> HIDE DEF g
<1>3. \A s \in SUBSET S : g[s] = IF s = {} THEN 0 ELSE f[Pick(s)] + g[s \ {Pick(s)}]
  BY <1>2 DEF Adds
<1>4. \A s \in SUBSET S : /\ Cardinality(s) \in Nat
                          /\ Cardinality(s) = 0 => s = {}
                          /\ s # {} => /\ f[Pick(s)] \in Nat /\ s \ {Pick(s)} \in SUBSET S
                                       /\ Cardinality(s \ {Pick(s)}) = Cardinality(s) - 1
  BY FS_Subset, FS_CardinalityType, FS_EmptySet, FS_RemoveElement DEF Pick
<1>5. 0 \in N
  <2>1. g[{}] = 0
    BY <1>3
  <2> QED BY <1>4, <2>1
<1>6. ASSUME NEW n \in Nat, n \in N PROVE n + 1 \in N
  <2>1. ASSUME NEW s \in SUBSET S, Cardinality(s) = n + 1 PROVE g[s] \in Nat
    <3>1. CASE s = {}
      BY <1>3, <3>1
    <3>2. CASE s # {}
      <4>1. s \ {Pick(s)} \in SUBSET S /\ Cardinality(s \ {Pick(s)}) = n
        BY <1>4, <2>1, <3>2
      <4>2. g[s \ {Pick(s)}] \in Nat
        BY <1>6, <4>1
      <4>3. g[s] = f[Pick(s)] + g[s \ {Pick(s)}] /\ f[Pick(s)] \in Nat
        BY <1>3, <1>4, <3>2
      <4> QED BY <4>2, <4>3
    <3> QED BY <3>1, <3>2
  <2> QED BY <2>1
<1>7. Nat \subseteq N
  <2> HIDE DEF N
  <2> QED BY <1>5, <1>6, NatSetInduction
<1>8. g[S] \in Nat
  <2>1. S \in SUBSET S /\ Cardinality(S) \in N
    BY <1>4, <1>7
  <2> QED BY <2>1
<1> QED BY <1>1, <1>8

-----------------------------------------------------------------------------
(* What plan computes.                                                     *)

LEMMA BytesIsNat ==
  ASSUME NEW n \in Nat, NEW lens \in [0 .. (n - 1) -> Nat], NEW i \in 0 .. n, NEW j \in 0 .. n
  PROVE  Bytes(lens, i, j) \in Nat
<1>1. IsFiniteSet(i .. (j - 1)) /\ \A k \in i .. (j - 1) : lens[k] \in Nat
  <2>1. i \in Int /\ j - 1 \in Int /\ i .. (j - 1) \subseteq 0 .. (n - 1)
    OBVIOUS
  <2> QED BY <2>1, FS_Interval
<1> QED BY <1>1, SumIsNat DEF Bytes

LEMMA CountFits ==
  ASSUME NEW n \in Nat, NEW lens \in [0 .. (n - 1) -> Nat], NEW threads \in Nat
  PROVE  /\ ChunkCount(lens, n, threads) \in Nat \ {0}
         /\ ChunkCount(lens, n, threads) > 1 => ChunkCount(lens, n, threads) <= n
<1> DEFINE total == Bytes(lens, 0, n)
           all == {threads, MaxThreads, n, total \div MinChunkBytes}
           least == Min(all)
<1>1. total \in Nat /\ MaxThreads \in Nat /\ MinChunkBytes \in Nat \ {0}
  BY BytesIsNat, ConstantsAssumption
<1>2. total \div MinChunkBytes \in Nat
  <2> HIDE DEF total
  <2> QED BY <1>1
<1>3. least \in Nat /\ least <= n
  <2>1. all \subseteq Nat /\ all # {} /\ n \in all
    BY <1>1, <1>2
  <2>2. least \in all /\ \A y \in all : least <= y
    <3> HIDE DEF all
    <3> QED BY <2>1, LeastExists
  <2> HIDE DEF all, least
  <2> QED BY <2>1, <2>2
<1>4. ChunkCount(lens, n, threads) = Max({1, least})
  BY DEF ChunkCount
<1> HIDE DEF least
<1>5. \E x \in {1, least} : \A y \in {1, least} : x >= y
  BY <1>3
<1>6. Max({1, least}) \in {1, least} /\ Max({1, least}) >= 1
  BY <1>3, <1>5 DEF Max
<1> QED BY <1>3, <1>4, <1>6

\* A chunk takes at least a text and leaves one for each chunk to come.
LEMMA ChunkEndFits ==
  ASSUME NEW n \in Nat, NEW lens, NEW start \in 0 .. n, NEW left \in Nat \ {0}, start <= n - left
  PROVE  /\ ChunkEnd(lens, n, start, left) \in (start + 1) .. n
         /\ ChunkEnd(lens, n, start, left) <= n - (left - 1)
         /\ left = 1 => ChunkEnd(lens, n, start, left) = n
<1>1. CASE left = 1
  BY <1>1 DEF ChunkEnd
<1>2. CASE left # 1
  <2> DEFINE full(e) == e > start /\ left * Bytes(lens, start, e) >= Bytes(lens, start, n)
             ends == {e \in start .. n : e >= LastEnd(n, left) \/ full(e)}
  <2>1. ChunkEnd(lens, n, start, left) = Min(ends)
    BY <1>2 DEF ChunkEnd
  <2>2. /\ LastEnd(n, left) = n - (left - 1) /\ LastEnd(n, left) \in start .. n
        /\ LastEnd(n, left) > start
    BY <1>2 DEF LastEnd
  <2>3. LastEnd(n, left) \in ends /\ ends \subseteq Nat /\ \A e \in ends : e \in (start + 1) .. n
    BY <2>2
  <2>4. Min(ends) \in ends /\ Min(ends) <= LastEnd(n, left)
    <3> HIDE DEF ends
    <3> QED BY <2>3, LeastExists
  <2> HIDE DEF ends
  <2> QED BY <1>2, <2>1, <2>2, <2>3, <2>4
<1> QED BY <1>1, <1>2

\* b is the recursion of plan, for the first m chunks of count.
IsCut(b, lens, n, count, m) ==
  b = [k \in 0 .. m |-> IF k = 0 THEN 0 ELSE ChunkEnd(lens, n, b[k - 1], count - k + 1)]

LEMMA CutExists ==
  ASSUME NEW lens, NEW n, NEW count
  PROVE  \A m \in Nat : \E b : IsCut(b, lens, n, count, m)
<1> DEFINE G == {m \in Nat : \E b : IsCut(b, lens, n, count, m)}
<1>1. 0 \in G
  <2>1. IsCut([k \in 0 .. 0 |-> 0], lens, n, count, 0)
    BY DEF IsCut
  <2> QED BY <2>1
<1>2. ASSUME NEW m \in Nat, m \in G PROVE m + 1 \in G
  <2>1. PICK b : IsCut(b, lens, n, count, m)
    BY <1>2
  <2> DEFINE c == [k \in 0 .. (m + 1) |-> IF k = 0 THEN 0 ELSE ChunkEnd(lens, n, b[k - 1], count - k + 1)]
  <2>2. \A k \in 0 .. m : c[k] = b[k]
    BY <2>1 DEF IsCut
  <2>3. \A k \in 1 .. (m + 1) : c[k - 1] = b[k - 1]
    BY <2>2
  <2>4. IsCut(c, lens, n, count, m + 1)
    <3>1. \A k \in 0 .. (m + 1) : k # 0 => k \in 1 .. (m + 1)
      OBVIOUS
    <3>2. c = [k \in 0 .. (m + 1) |->
                 IF k = 0 THEN 0 ELSE ChunkEnd(lens, n, c[k - 1], count - k + 1)]
      BY <2>3, <3>1
    <3> HIDE DEF c
    <3> QED BY <3>2 DEF IsCut
  <2> HIDE DEF c
  <2> QED BY <2>4
<1>3. Nat \subseteq G
  <2> HIDE DEF G
  <2> QED BY <1>1, <1>2, NatSetInduction
<1> QED BY <1>3

\* b cuts n texts into c chunks, in order, with no empty one.
Cuts(b, n, c) ==
  /\ b \in [0 .. c -> 0 .. n] /\ b[0] = 0 /\ b[c] = n
  /\ c > 1 => \A k \in 1 .. c : b[k - 1] < b[k]

LEMMA PlanCuts ==
  ASSUME NEW n \in Nat, NEW lens \in [0 .. (n - 1) -> Nat], NEW threads \in Nat
  PROVE  \E c \in Nat \ {0} : Cuts(Plan(lens, n, threads), n, c)
<1> DEFINE count == ChunkCount(lens, n, threads)
           b == Plan(lens, n, threads)
<1>1. count \in Nat \ {0} /\ (count > 1 => count <= n)
  BY CountFits
<1>2. b = CHOOSE cut : IsCut(cut, lens, n, count, count)
  BY DEF Plan, IsCut
<1>3. IsCut(b, lens, n, count, count)
  BY <1>1, <1>2, CutExists
<1> HIDE DEF b, count
<1>4. b[0] = 0 /\ \A k \in 1 .. count : b[k] = ChunkEnd(lens, n, b[k - 1], count - k + 1)
  BY <1>1, <1>3 DEF IsCut
<1>5. CASE count = 1
  <2>1. b[1] = n
    BY <1>4, <1>5 DEF ChunkEnd
  <2>2. Cuts(b, n, 1)
    BY <1>3, <1>4, <1>5, <2>1 DEF Cuts, IsCut
  <2> QED BY <2>2 DEF b
<1>6. CASE count > 1
  <2> DEFINE G == {k \in Nat : k <= count => b[k] \in 0 .. n /\ b[k] <= n - (count - k)}
  <2>1. \A k \in 1 .. count : b[k - 1] \in 0 .. n /\ b[k - 1] <= n - (count - (k - 1)) =>
          /\ b[k] \in (b[k - 1] + 1) .. n /\ b[k] <= n - (count - k)
          /\ k = count => b[k] = n
    <3>1. SUFFICES ASSUME NEW k \in 1 .. count, b[k - 1] \in 0 .. n, b[k - 1] <= n - (count - (k - 1))
                   PROVE  /\ b[k] \in (b[k - 1] + 1) .. n /\ b[k] <= n - (count - k)
                          /\ k = count => b[k] = n
      OBVIOUS
    <3> DEFINE left == count - k + 1
    <3>2. left \in Nat \ {0} /\ b[k - 1] <= n - left /\ left - 1 = count - k /\ (k = count => left = 1)
      BY <1>1, <3>1
    <3>3. b[k] = ChunkEnd(lens, n, b[k - 1], left)
      BY <1>4
    <3> HIDE DEF left
    <3> QED BY <3>1, <3>2, <3>3, ChunkEndFits
  <2>2. 0 \in G
    BY <1>1, <1>4, <1>6
  <2>3. ASSUME NEW k \in Nat, k \in G PROVE k + 1 \in G
    <3>1. SUFFICES ASSUME k + 1 <= count PROVE b[k + 1] \in 0 .. n /\ b[k + 1] <= n - (count - (k + 1))
      OBVIOUS
    <3>2. b[k] \in 0 .. n /\ b[k] <= n - (count - k) /\ k + 1 \in 1 .. count /\ (k + 1) - 1 = k
      BY <1>1, <2>3, <3>1
    <3> QED BY <1>1, <2>1, <3>2
  <2>4. Nat \subseteq G
    <3> HIDE DEF G
    <3> QED BY <2>2, <2>3, NatSetInduction
  <2>5. \A k \in 0 .. count : b[k] \in 0 .. n /\ b[k] <= n - (count - k)
    BY <1>1, <2>4
  <2>6. \A k \in 1 .. count : b[k - 1] < b[k] /\ (k = count => b[k] = n)
    <3>1. SUFFICES ASSUME NEW k \in 1 .. count PROVE b[k - 1] < b[k] /\ (k = count => b[k] = n)
      OBVIOUS
    <3>2. k - 1 \in 0 .. count
      BY <1>1
    <3>3. b[k - 1] \in 0 .. n /\ b[k - 1] <= n - (count - (k - 1))
      BY <2>5, <3>2
    <3> QED BY <2>1, <3>3
  <2>7. DOMAIN b = 0 .. count /\ b = [k \in 0 .. count |-> b[k]]
    BY <1>3 DEF IsCut
  <2>8. Cuts(b, n, count)
    <3>1. b \in [0 .. count -> 0 .. n]
      BY <2>5, <2>7
    <3>2. b[count] = n
      BY <1>1, <2>6
    <3> QED BY <1>4, <2>6, <3>1, <3>2 DEF Cuts
  <2> QED BY <1>1, <2>8 DEF b
<1> QED BY <1>1, <1>5, <1>6

-----------------------------------------------------------------------------
(* The invariant.                                                          *)

\* The batch has n texts in c chunks.
Shape(n, c) ==
  /\ n \in 0 .. MaxTexts /\ c \in Nat \ {0}
  /\ outcome \in [0 .. (n - 1) -> Outcomes] /\ Cuts(bound, n, c)

Behind(k) == \E j \in Chunks : chunk[j] = "failed" /\ at[j] < at[k]

\* What a chunk passed was encoded; it ended at its end, at a failure or a panic of
\* its own, or behind a failure.
ChunkInv(k) ==
  /\ at[k] \in bound[k - 1] .. bound[k]
  /\ \A i \in bound[k - 1] .. (at[k] - 1) : outcome[i] = "ok"
  /\ chunk[k] \in {"encode", "failed", "panicked"} => at[k] < bound[k]
  /\ chunk[k] = "failed" => outcome[at[k]] = "error"
  /\ chunk[k] = "panicked" => outcome[at[k]] = "panic"
  /\ chunk[k] = "done" => at[k] = bound[k] \/ Behind(k)

\* first_failure never held but texts that failed.
FailureInv ==
  \A v \in firstFailure : v = None \/ \E j \in Chunks : chunk[j] = "failed" /\ at[j] = v

\* The chunks are started in order, the caller's own last.
StartInv ==
  /\ Chunks = {Only} => starting = Only
  /\ starting # 0 => chunk[Only] = "new"
  /\ starting \notin {0, Only} => \A k \in Chunks : k >= starting => chunk[k] = "new"

\* Nothing runs once there is an answer.
AnswerInv ==
  /\ answer # Nothing /\ Chunks # {Only} => \A k \in Chunks : chunk[k] \in Ended
  /\ AnswersSerially /\ NoPartialBatch

IInv ==
  /\ TypeOK /\ at \in [Chunks -> Nat] /\ \E n, c : Shape(n, c)
  /\ \A k \in Chunks : ChunkInv(k)
  /\ FailureInv /\ StartInv /\ AnswerInv

LEMMA ShapeFacts ==
  ASSUME NEW n, NEW c, Shape(n, c)
  PROVE  /\ Texts = 0 .. (n - 1) /\ Chunks = 1 .. c
         /\ Cardinality(Texts) = n /\ Cardinality(Chunks) = c
         /\ Chunks = {Only} <=> c = 1
         /\ None \notin Texts /\ n <= None /\ None \in Nat
         /\ n \in Nat /\ c \in Nat \ {0} /\ Texts \subseteq Nat
<1>1. n \in Nat /\ c \in Nat /\ n <= MaxTexts /\ MaxTexts \in Nat /\ c > 0
  BY ConstantsAssumption DEF Shape
<1>2. Texts = 0 .. (n - 1) /\ Chunks = 1 .. c
  BY <1>1 DEF Shape, Cuts, Texts, Chunks
<1>3. Cardinality(0 .. (n - 1)) = n /\ Cardinality(1 .. c) = c
  <2>1. /\ 0 - 1 <= n - 1 => Cardinality(0 .. (n - 1)) = (n - 1) - 0 + 1
    BY <1>1, FS_Interval
  <2>2. Cardinality(1 .. c) = c - 1 + 1
    BY <1>1, FS_Interval
  <2> QED BY <1>1, <2>1, <2>2
<1>4. Chunks = {Only} <=> c = 1
  BY <1>1, <1>2 DEF Only
<1> QED BY <1>1, <1>2, <1>3, <1>4 DEF None

\* Every text is in some chunk.
LEMMA ChunksCover ==
  ASSUME NEW n, NEW c, Shape(n, c), NEW i \in 0 .. (n - 1)
  PROVE  \E k \in 1 .. c : bound[k - 1] <= i /\ i < bound[k]
<1> DEFINE G == {m \in Nat : m <= c /\ i < bound[m] => \E k \in 1 .. c : bound[k - 1] <= i /\ i < bound[k]}
<1>1. n \in Nat /\ c \in Nat \ {0} /\ bound \in [0 .. c -> 0 .. n] /\ bound[0] = 0 /\ bound[c] = n
  BY ConstantsAssumption DEF Shape, Cuts
<1>2. 0 \in G
  BY <1>1
<1>3. ASSUME NEW m \in Nat, m \in G PROVE m + 1 \in G
  <2>1. SUFFICES ASSUME m + 1 <= c, i < bound[m + 1] PROVE \E k \in 1 .. c : bound[k - 1] <= i /\ i < bound[k]
    OBVIOUS
  <2>2. m + 1 \in 1 .. c /\ (m + 1) - 1 = m /\ bound[m] \in 0 .. n /\ m <= c
    BY <1>1, <2>1
  <2>3. CASE i < bound[m]
    BY <1>3, <2>2, <2>3
  <2>4. CASE bound[m] <= i
    BY <2>1, <2>2, <2>4
  <2> QED BY <1>1, <2>2, <2>3, <2>4
<1>4. Nat \subseteq G
  <2> HIDE DEF G
  <2> QED BY <1>2, <1>3, NatSetInduction
<1> QED BY <1>1, <1>4

-----------------------------------------------------------------------------
(* The answer.                                                             *)

LEMMA SerialRows ==
  ASSUME NEW n, NEW c, Shape(n, c), \A i \in Texts : outcome[i] = "ok"
  PROVE  SerialAnswer = Rows(Interval(0, n))
BY ShapeFacts DEF SerialAnswer

LEMMA SerialError ==
  ASSUME NEW n, NEW c, Shape(n, c), NEW f \in Texts, outcome[f] = "error",
         \A i \in Texts : i < f => outcome[i] = "ok"
  PROVE  SerialAnswer = Error(f)
<1> DEFINE bad == {i \in Texts : outcome[i] # "ok"}
<1>1. f \in bad /\ bad \subseteq Nat /\ f \in Nat /\ \A i \in bad : f <= i
  <2>1. Texts \subseteq Nat
    BY ShapeFacts
  <2>2. ASSUME NEW i \in bad PROVE f <= i
    <3>1. i \in Texts /\ outcome[i] # "ok" /\ i \in Nat /\ f \in Nat
      BY <2>1
    <3>2. ~(i < f)
      BY <3>1
    <3> QED BY <3>1, <3>2
  <2>3. f \in bad /\ bad \subseteq Nat
    BY <2>1
  <2> HIDE DEF bad
  <2> QED BY <2>2, <2>3
<1>2. Min(bad) \in bad /\ \A i \in bad : Min(bad) <= i
  <2> HIDE DEF bad
  <2> QED BY <1>1, LeastExists
<1>3. Min(bad) = f
  <2> DEFINE m == Min(bad)
  <2>1. m \in Nat /\ m <= f /\ f <= m
    BY <1>1, <1>2
  <2> HIDE DEF m
  <2>2. m = f
    BY <1>1, <2>1
  <2> QED BY <2>2 DEF m
<1>4. bad # {} /\ SerialAnswer = IF outcome[Min(bad)] = "error" THEN Error(Min(bad)) ELSE Panic
  BY <1>1 DEF SerialAnswer
<1> HIDE DEF bad
<1> QED BY <1>3, <1>4

LEMMA IntervalIsSeq ==
  ASSUME NEW i \in Nat, NEW j \in Nat, i <= j
  PROVE  Interval(i, j) \in Seq(Nat) /\ Len(Interval(i, j)) = j - i
<1>1. j - i \in Nat /\ \A k \in 1 .. (j - i) : i + k - 1 \in Nat
  OBVIOUS
<1> QED BY <1>1 DEF Interval

LEMMA IntervalsJoin ==
  ASSUME NEW i \in Nat, NEW j \in Nat, i <= j
  PROVE  Interval(0, i) \o Interval(i, j) = Interval(0, j)
<1> DEFINE s == Interval(0, i)
           t == Interval(i, j)
           u == Interval(0, j)
<1>1. /\ s \in Seq(Nat) /\ Len(s) = i /\ t \in Seq(Nat) /\ Len(t) = j - i
      /\ u \in Seq(Nat) /\ Len(u) = j
  <2>1. i - 0 = i /\ j - 0 = j /\ 0 <= i /\ 0 <= j
    OBVIOUS
  <2> QED BY <2>1, IntervalIsSeq
<1>2. /\ \A k \in 1 .. i : s[k] = k - 1
      /\ \A k \in 1 .. (j - i) : t[k] = i + k - 1
      /\ \A k \in 1 .. j : u[k] = k - 1
  BY DEF Interval
<1> HIDE DEF s, t, u
<1>3. s \o t \in Seq(Nat) /\ Len(s \o t) = j
  <2>1. s \o t \in Seq(Nat) /\ Len(s \o t) = Len(s) + Len(t)
    BY <1>1, ConcatProperties
  <2> QED BY <1>1, <2>1
<1>4. \A k \in 1 .. j : (s \o t)[k] = k - 1
  <2>1. \A k \in 1 .. (Len(s) + Len(t)) :
          (s \o t)[k] = IF k <= Len(s) THEN s[k] ELSE t[k - Len(s)]
    BY <1>1, ConcatProperties
  <2>2. ASSUME NEW k \in 1 .. j PROVE (s \o t)[k] = k - 1
    <3>1. CASE k <= i
      BY <1>1, <1>2, <2>1, <3>1
    <3>2. CASE ~(k <= i)
      <4>1. k - i \in 1 .. (j - i) /\ k \in 1 .. (Len(s) + Len(t))
        BY <1>1, <3>2
      <4>2. (s \o t)[k] = t[k - i]
        BY <1>1, <2>1, <3>2, <4>1
      <4>3. t[k - i] = i + (k - i) - 1
        BY <1>2, <4>1
      <4> QED BY <4>2, <4>3
    <3> QED BY <3>1, <3>2
  <2> QED BY <2>2
<1>5. s \o t = u
  <2>1. Len(s \o t) = Len(u) /\ \A k \in 1 .. Len(s \o t) : (s \o t)[k] = u[k]
    BY <1>1, <1>2, <1>3, <1>4
  <2> QED BY <1>1, <1>3, <2>1, SeqEqual
<1> QED BY <1>5 DEF s, t, u

JoinStep(g, ks, i) ==
  IF i = 0 THEN <<>>
  ELSE IF i \in ks THEN g[i - 1] \o Interval(bound[i - 1], at[i])
  ELSE g[i - 1]

\* g is the recursion of Joined, for the first m chunks.
IsJoin(g, ks, m) == g = [i \in 0 .. m |-> JoinStep(g, ks, i)]

LEMMA JoinExists ==
  ASSUME NEW ks
  PROVE  \A m \in Nat : \E g : IsJoin(g, ks, m)
<1> DEFINE G == {m \in Nat : \E g : IsJoin(g, ks, m)}
<1>1. 0 \in G
  <2>1. JoinStep([i \in 0 .. 0 |-> <<>>], ks, 0) = <<>>
    BY DEF JoinStep
  <2>2. IsJoin([i \in 0 .. 0 |-> <<>>], ks, 0)
    BY <2>1 DEF IsJoin, JoinStep
  <2> QED BY <2>2
<1>2. ASSUME NEW m \in Nat, m \in G PROVE m + 1 \in G
  <2>1. PICK g : IsJoin(g, ks, m)
    BY <1>2
  <2> DEFINE h == [i \in 0 .. (m + 1) |-> JoinStep(g, ks, i)]
  <2>2. \A i \in 0 .. m : h[i] = g[i]
    BY <2>1 DEF IsJoin
  <2>3. \A i \in 0 .. (m + 1) : i = 0 \/ h[i - 1] = g[i - 1]
    BY <2>2
  <2> HIDE DEF h
  <2>4. \A i \in 0 .. (m + 1) : JoinStep(h, ks, i) = JoinStep(g, ks, i)
    BY <2>3 DEF JoinStep
  <2>5. IsJoin(h, ks, m + 1)
    BY <2>4 DEF IsJoin, h
  <2> QED BY <2>5
<1>3. Nat \subseteq G
  <2> HIDE DEF G
  <2> QED BY <1>1, <1>2, NatSetInduction
<1> QED BY <1>3

\* Chunks that are all at their ends are joined to the whole batch.
LEMMA JoinedWhole ==
  ASSUME NEW n, NEW c, Shape(n, c), \A k \in Chunks : at[k] = bound[k]
  PROVE  Joined(Chunks) = Interval(0, n)
<1> DEFINE g == CHOOSE join : IsJoin(join, Chunks, c)
<1>1. /\ n \in Nat /\ c \in Nat \ {0} /\ Chunks = 1 .. c /\ Cardinality(Chunks) = c
      /\ bound \in [0 .. c -> 0 .. n] /\ bound[0] = 0 /\ bound[c] = n
      /\ \A k \in 1 .. c : bound[k - 1] <= bound[k]
  <2>1. Chunks = 1 .. c /\ Cardinality(Chunks) = c
    BY ShapeFacts
  <2>2. /\ n \in Nat /\ c \in Nat \ {0} /\ bound \in [0 .. c -> 0 .. n]
        /\ bound[0] = 0 /\ bound[c] = n
    BY ConstantsAssumption DEF Shape, Cuts
  <2>3. ASSUME NEW k \in 1 .. c PROVE bound[k - 1] <= bound[k]
    <3>1. k - 1 \in 0 .. c /\ k \in 0 .. c
      BY <2>2
    <3>2. bound[k - 1] \in 0 .. n /\ bound[k] \in 0 .. n
      BY <2>2, <3>1
    <3>3. CASE c = 1
      BY <2>2, <3>2, <3>3
    <3>4. CASE c > 1
      BY <3>2, <3>4 DEF Shape, Cuts
    <3> QED BY <2>2, <3>3, <3>4
  <2> QED BY <2>1, <2>2, <2>3
<1>2. Joined(Chunks) = g[c]
  BY <1>1 DEF Joined, IsJoin, JoinStep
<1>3. IsJoin(g, Chunks, c)
  BY <1>1, JoinExists
<1> HIDE DEF g
<1>4. g[0] = <<>> /\ \A i \in 1 .. c : g[i] = g[i - 1] \o Interval(bound[i - 1], bound[i])
  <2>1. \A i \in 0 .. c : g[i] = JoinStep(g, Chunks, i)
    BY <1>3 DEF IsJoin
  <2>2. g[0] = <<>>
    BY <1>1, <2>1 DEF JoinStep
  <2>3. ASSUME NEW i \in 1 .. c PROVE g[i] = g[i - 1] \o Interval(bound[i - 1], bound[i])
    <3>1. i \in 0 .. c /\ i # 0 /\ i \in Chunks /\ at[i] = bound[i]
      BY <1>1
    <3> QED BY <2>1, <3>1 DEF JoinStep
  <2> QED BY <2>2, <2>3
<1> DEFINE G == {m \in Nat : m <= c => g[m] = Interval(0, bound[m])}
<1>5. 0 \in G
  BY <1>1, <1>4 DEF Interval
<1>6. ASSUME NEW m \in Nat, m \in G PROVE m + 1 \in G
  <2>1. SUFFICES ASSUME m + 1 <= c PROVE g[m + 1] = Interval(0, bound[m + 1])
    OBVIOUS
  <2>2. m + 1 \in 1 .. c /\ (m + 1) - 1 = m /\ g[m] = Interval(0, bound[m])
    BY <1>1, <1>6, <2>1
  <2>3. bound[m] \in Nat /\ bound[m + 1] \in Nat /\ bound[m] <= bound[m + 1]
    BY <1>1, <2>2
  <2>4. g[m + 1] = Interval(0, bound[m]) \o Interval(bound[m], bound[m + 1])
    BY <1>4, <2>2
  <2> QED BY <2>3, <2>4, IntervalsJoin
<1>7. Nat \subseteq G
  <2> HIDE DEF G
  <2> QED BY <1>5, <1>6, NatSetInduction
<1>8. g[c] = Interval(0, n)
  BY <1>1, <1>7
<1> QED BY <1>2, <1>8

\* Where a chunk is, in numbers.
LEMMA ChunkPlace ==
  ASSUME NEW n, NEW c, Shape(n, c), NEW k \in Chunks, ChunkInv(k)
  PROVE  /\ bound[k - 1] \in 0 .. n /\ bound[k] \in 0 .. n /\ at[k] \in 0 .. n
         /\ bound[k - 1] <= at[k] /\ at[k] <= bound[k]
         /\ at[k] < bound[k] => at[k] \in Texts
<1>1. /\ n \in Nat /\ c \in Nat /\ k \in 1 .. c /\ Texts = 0 .. (n - 1)
      /\ bound \in [0 .. c -> 0 .. n]
  BY ShapeFacts DEF Shape, Cuts
<1>2. k - 1 \in 0 .. c /\ k \in 0 .. c
  BY <1>1
<1>3. bound[k - 1] \in 0 .. n /\ bound[k] \in 0 .. n
  BY <1>1, <1>2
<1>4. at[k] \in bound[k - 1] .. bound[k]
  BY DEF ChunkInv
<1> QED BY <1>1, <1>3, <1>4

\* What every chunk did, taken together, is what the loop does.
LEMMA TogetherSerial ==
  ASSUME NEW n, NEW c, Shape(n, c),
         \A k \in Chunks : ChunkInv(k) /\ chunk[k] \in {"done", "failed"}
  PROVE  /\ Failures # {} => SerialAnswer = Error(Min(Failures))
         /\ Failures = {} => /\ SerialAnswer = Rows(Interval(0, n))
                             /\ Joined({k \in Chunks : chunk[k] = "done"}) = Interval(0, n)
<1>1. /\ Texts = 0 .. (n - 1) /\ Chunks = 1 .. c /\ n \in Nat /\ c \in Nat
  BY ShapeFacts
<1>2. ASSUME NEW i \in Texts
      PROVE  \E k \in Chunks : /\ bound[k - 1] <= i /\ i < bound[k]
                               /\ i < at[k] => outcome[i] = "ok"
  <2>1. PICK k \in Chunks : bound[k - 1] <= i /\ i < bound[k]
    BY <1>1, ChunksCover
  <2>2. i < at[k] => outcome[i] = "ok"
    <3>1. ASSUME i < at[k] PROVE i \in bound[k - 1] .. (at[k] - 1)
      BY <1>1, <2>1, <3>1, ChunkPlace
    <3> QED BY <3>1 DEF ChunkInv
  <2> QED BY <2>1, <2>2
<1>3. ASSUME Failures # {} PROVE SerialAnswer = Error(Min(Failures))
  <2> DEFINE f == Min(Failures)
  <2>1. Failures \subseteq Nat
    BY <1>1, ChunkPlace DEF Failures
  <2>2. f \in Failures /\ \A x \in Failures : f <= x
    BY <1>3, <2>1, LeastExists
  <2>3. f \in Nat
    BY <2>1, <2>2
  <2> HIDE DEF f
  <2>4. PICK j \in Chunks : chunk[j] = "failed" /\ at[j] = f
    BY <2>2 DEF Failures
  <2>5. f \in Texts /\ outcome[f] = "error"
    BY <2>4, ChunkPlace DEF ChunkInv
  <2>6. ASSUME NEW i \in Texts, i < f PROVE outcome[i] = "ok"
    <3>1. PICK k \in Chunks : bound[k - 1] <= i /\ i < bound[k] /\ (i < at[k] => outcome[i] = "ok")
      BY <1>2
    <3>2. i < at[k]
      <4>1. SUFFICES ASSUME at[k] <= i PROVE FALSE
        BY <1>1, ChunkPlace
      <4>2. at[k] < bound[k] /\ at[k] \in Nat /\ i \in Nat
        BY <1>1, <3>1, <4>1, ChunkPlace
      <4>3. CASE chunk[k] = "failed"
        <5>1. at[k] \in Failures
          BY <4>3 DEF Failures
        <5> QED BY <2>2, <2>3, <2>6, <4>1, <4>2, <5>1
      <4>4. CASE chunk[k] = "done"
        <5>1. PICK m \in Chunks : chunk[m] = "failed" /\ at[m] < at[k]
          BY <4>2, <4>4 DEF ChunkInv, Behind
        <5>2. at[m] \in Failures /\ at[m] \in Nat
          BY <1>1, <5>1, ChunkPlace DEF Failures
        <5> QED BY <2>2, <2>3, <2>6, <4>1, <4>2, <5>1, <5>2
      <4> QED BY <4>3, <4>4
    <3> QED BY <3>1, <3>2
  <2>7. SerialAnswer = Error(f)
    BY <2>5, <2>6, SerialError
  <2> QED BY <2>7 DEF f
<1>4. ASSUME Failures = {}
      PROVE  /\ SerialAnswer = Rows(Interval(0, n))
             /\ Joined({k \in Chunks : chunk[k] = "done"}) = Interval(0, n)
  <2>1. \A k \in Chunks : chunk[k] = "done" /\ at[k] = bound[k]
    BY <1>4 DEF Failures, ChunkInv, Behind
  <2>2. {k \in Chunks : chunk[k] = "done"} = Chunks
    BY <2>1
  <2>3. \A i \in Texts : outcome[i] = "ok"
    BY <1>2, <2>1
  <2> QED BY <2>1, <2>2, <2>3, SerialRows, JoinedWhole
<1> QED BY <1>3, <1>4

LEMMA SerialStays == outcome' = outcome => SerialAnswer' = SerialAnswer
BY DEF SerialAnswer, Texts

\* Threads are joined when all ended.
LEMMA JoinStepKeeps ==
  ASSUME IInv, Join
  PROVE  IInv'
<1>1. PICK n, c : Shape(n, c)
  BY DEF IInv
<1>2. /\ UNCHANGED <<outcome, bound, firstFailure, starting, at, chunk>>
      /\ \A k \in Chunks : ChunkInv(k) /\ chunk[k] \in Ended
      /\ SerialAnswer' = SerialAnswer /\ Texts' = Texts /\ Chunks' = Chunks
  BY SerialStays DEF IInv, Join, Texts, Chunks
<1> DEFINE out == Joined({k \in Chunks : chunk[k] = "done"})
           dead == \E k \in Chunks : chunk[k] \in {"panicked", "unstarted"}
<1>3. answer' = IF dead THEN Panic
                ELSE IF Failures # {} THEN Error(Min(Failures))
                ELSE IF Len(out) # Cardinality(Texts) THEN Short ELSE Rows(out)
  BY DEF Join
<1>4. AnswersSerially' /\ NoPartialBatch'
  <2>1. CASE dead
    <3>1. answer' = Panic /\ answer'.kind = "panic"
      BY <1>3, <2>1 DEF Panic
    <3>2. (\E i \in Texts : outcome[i] = "panic") \/ \E k \in Chunks : chunk[k] = "unstarted"
      BY <1>1, <1>2, <2>1, ChunkPlace DEF ChunkInv
    <3> QED BY <1>2, <3>1, <3>2 DEF AnswersSerially, NoPartialBatch
  <2>2. CASE ~dead
    <3>1. \A k \in Chunks : ChunkInv(k) /\ chunk[k] \in {"done", "failed"}
      BY <1>2, <2>2 DEF Ended
    <3>2. CASE Failures # {}
      <4>1. answer' = Error(Min(Failures)) /\ answer' = SerialAnswer
        BY <1>1, <1>3, <2>2, <3>1, <3>2, TogetherSerial
      <4>2. answer'.kind = "error"
        BY <4>1 DEF Error
      <4> QED BY <1>2, <4>1, <4>2 DEF AnswersSerially, NoPartialBatch
    <3>3. CASE Failures = {}
      <4>1. SerialAnswer = Rows(Interval(0, n)) /\ out = Interval(0, n)
        BY <1>1, <3>1, <3>3, TogetherSerial
      <4>2. Len(out) = Cardinality(Texts)
        <5>1. n \in Nat /\ Cardinality(Texts) = n
          BY <1>1, ShapeFacts
        <5>2. Len(Interval(0, n)) = n - 0
          BY <5>1, IntervalIsSeq
        <5> HIDE DEF out
        <5> QED BY <4>1, <5>1, <5>2
      <4>3. answer' = SerialAnswer
        <5> HIDE DEF out, dead
        <5> QED BY <1>3, <2>2, <3>3, <4>1, <4>2
      <4>4. answer'.kind = "rows"
        BY <4>1, <4>3 DEF Rows
      <4> QED BY <1>2, <4>3, <4>4 DEF AnswersSerially, NoPartialBatch
    <3> QED BY <3>2, <3>3
  <2> QED BY <2>1, <2>2
<1>5. AnswerInv'
  BY <1>2, <1>4 DEF AnswerInv
<1>6. (TypeOK /\ at \in [Chunks -> Nat] /\ (\A k \in Chunks : ChunkInv(k)) /\ FailureInv /\ StartInv)'
  BY <1>2 DEF IInv, TypeOK, ChunkInv, Behind, FailureInv, StartInv, Texts, Chunks
<1>7. Shape(n, c)'
  BY <1>1, <1>2 DEF Shape
<1> QED BY <1>5, <1>6, <1>7 DEF IInv

LEMMA SerialKeeps ==
  ASSUME IInv, Serial
  PROVE  IInv'
<1>1. PICK n, c : Shape(n, c)
  BY DEF IInv
<1>2. /\ UNCHANGED <<outcome, bound, firstFailure, starting, at, chunk>>
      /\ Chunks = {Only} /\ answer' = SerialAnswer /\ SerialAnswer' = SerialAnswer
  BY SerialStays DEF Serial
<1>3. SerialAnswer.kind # "short"
  BY DEF SerialAnswer, Rows, Error, Panic
<1>4. AnswerInv'
  BY <1>2, <1>3 DEF AnswerInv, AnswersSerially, NoPartialBatch, Chunks
<1>5. (TypeOK /\ at \in [Chunks -> Nat] /\ (\A k \in Chunks : ChunkInv(k)) /\ FailureInv /\ StartInv)'
  BY <1>2 DEF IInv, TypeOK, ChunkInv, Behind, FailureInv, StartInv, Texts, Chunks
<1>6. Shape(n, c)'
  BY <1>1, <1>2 DEF Shape
<1> QED BY <1>4, <1>5, <1>6 DEF IInv
-----------------------------------------------------------------------------
(* The chunks.                                                             *)

Unended == {"new", "check", "encode"}

\* Until there is an answer, one chunk moves and what failed stays failed.
LEMMA ChunkStepKeeps ==
  ASSUME IInv, answer = Nothing, UNCHANGED <<outcome, bound, answer>>,
         NEW k \in Chunks, chunk[k] \notin Ended,
         NEW how \in Unended \cup Ended, chunk' = [chunk EXCEPT ![k] = how],
         NEW where \in Nat, at' = [at EXCEPT ![k] = where],
         starting' \in Chunks \cup {0}, firstFailure' \subseteq Texts \cup {None},
         ChunkInv(k)', FailureInv', StartInv'
  PROVE  IInv'
<1>1. PICK n, c : Shape(n, c)
  BY DEF IInv
<1>2. Texts' = Texts /\ Chunks' = Chunks
  BY DEF Texts, Chunks
<1>3. /\ chunk \in [Chunks -> Unended \cup Ended] /\ at \in [Chunks -> Nat]
      /\ \A j \in Chunks : ChunkInv(j)
  BY DEF IInv, TypeOK, Unended
<1>4. /\ chunk' \in [Chunks -> Unended \cup Ended] /\ at' \in [Chunks -> Nat]
      /\ \A j \in Chunks : j # k => chunk'[j] = chunk[j] /\ at'[j] = at[j]
  BY <1>3
<1>5. ASSUME NEW j \in Chunks PROVE ChunkInv(j)'
  <2>1. SUFFICES ASSUME j # k PROVE ChunkInv(j)'
    OBVIOUS
  <2>2. ChunkInv(j) /\ chunk'[j] = chunk[j] /\ at'[j] = at[j] /\ bound' = bound /\ outcome' = outcome
    BY <1>3, <1>4, <2>1
  <2>3. Behind(j) => Behind(j)'
    <3>1. ASSUME NEW m \in Chunks, chunk[m] = "failed", at[m] < at[j]
          PROVE  m \in Chunks' /\ chunk'[m] = "failed" /\ at'[m] < at'[j]
      BY <1>2, <1>4, <2>2, <3>1 DEF Ended
    <3> QED BY <3>1 DEF Behind
  <2> QED BY <2>2, <2>3 DEF ChunkInv
<1>6. \A j \in Chunks : at'[j] \in bound[j - 1] .. bound[j]
  BY <1>5 DEF ChunkInv
<1>7. TypeOK'
  BY <1>2, <1>4, <1>6 DEF IInv, TypeOK, Unended
<1>8. Shape(n, c)'
  BY <1>1 DEF Shape
<1>9. AnswerInv'
  BY DEF AnswerInv, AnswersSerially, NoPartialBatch
<1> QED BY <1>2, <1>4, <1>5, <1>7, <1>8, <1>9 DEF IInv

\* A chunk that checks or encodes is one of several, not answered yet, and started.
LEMMA Running ==
  ASSUME IInv, NEW k \in Chunks, chunk[k] \in {"check", "encode"}
  PROVE  /\ answer = Nothing /\ chunk[k] \notin Ended /\ k \in Nat /\ starting \in Nat
         /\ starting \notin {0, Only} => k < starting
         /\ starting # 0 => k # Only
<1>1. PICK n, c : Shape(n, c)
  BY DEF IInv
<1>2. Chunks = 1 .. c /\ c \in Nat
  BY <1>1, ShapeFacts
<1>3. k \in Nat /\ starting \in Nat /\ StartInv /\ AnswerInv
  BY <1>2 DEF IInv, TypeOK
<1>4. chunk[k] \notin Ended /\ chunk[k] # "new"
  BY DEF Ended
<1> QED BY <1>2, <1>3, <1>4 DEF StartInv, AnswerInv, Only

\* Chunks that run are not those still to start.
LEMMA RunningStarts ==
  ASSUME IInv, NEW k \in Chunks, chunk[k] \in {"check", "encode"}, UNCHANGED <<bound, starting>>,
         NEW how, chunk' = [chunk EXCEPT ![k] = how]
  PROVE  StartInv'
<1>1. /\ k \in Nat /\ starting \in Nat
      /\ starting \notin {0, Only} => k < starting
      /\ starting # 0 => k # Only
  BY Running
<1>2. Chunks' = Chunks /\ \A j \in Chunks : j # k => chunk'[j] = chunk[j]
  BY DEF IInv, TypeOK, Chunks
<1>3. StartInv
  BY DEF IInv
<1>4. starting # 0 => chunk'[Only] = "new"
  <2>1. SUFFICES ASSUME starting # 0 PROVE chunk'[Only] = "new"
    OBVIOUS
  <2>2. chunk[Only] = "new" /\ k # Only
    BY <1>1, <1>3, <2>1 DEF StartInv
  <2> QED BY <2>2 DEF IInv, TypeOK
<1>5. ASSUME starting \notin {0, Only}, NEW j \in Chunks, j >= starting PROVE chunk'[j] = "new"
  <2>1. chunk[j] = "new" /\ j # k
    BY <1>1, <1>3, <1>5 DEF StartInv
  <2> QED BY <1>2, <2>1
<1> QED BY <1>2, <1>3, <1>4, <1>5 DEF StartInv

\* What failed still vouches for the values of first_failure.
LEMMA FailuresStay ==
  ASSUME IInv, NEW k \in Chunks, chunk[k] \notin Ended, UNCHANGED bound,
         NEW how, chunk' = [chunk EXCEPT ![k] = how],
         NEW where, at' = [at EXCEPT ![k] = where]
  PROVE  \A v \in firstFailure :
           v = None \/ \E j \in Chunks' : chunk'[j] = "failed" /\ at'[j] = v
<1>1. Chunks' = Chunks /\ FailureInv
  BY DEF IInv, Chunks
<1>2. \A j \in Chunks : chunk[j] = "failed" => chunk'[j] = "failed" /\ at'[j] = at[j]
  BY DEF IInv, TypeOK, Ended
<1> QED BY <1>1, <1>2 DEF FailureInv

LEMMA StartChunkKeeps ==
  ASSUME IInv, StartChunk
  PROVE  IInv'
<1>1. PICK n, c : Shape(n, c)
  BY DEF IInv
<1>2. /\ Chunks = 1 .. c /\ c \in Nat /\ c > 1
  BY <1>1, ShapeFacts DEF StartChunk
<1>3. PICK how \in {"check"} \cup (IF starting = 1 THEN {} ELSE {"unstarted"}) :
        chunk' = [chunk EXCEPT ![starting] = how]
  BY DEF StartChunk
<1>4. /\ answer = Nothing /\ starting # 0 /\ starting' = NextChunk(starting)
      /\ UNCHANGED <<outcome, bound, firstFailure, at, answer>>
  BY DEF StartChunk
<1>5. starting \in Chunks /\ chunk \in [Chunks -> Unended \cup Ended] /\ at \in [Chunks -> Nat] /\ StartInv
  BY <1>4 DEF IInv, TypeOK, Unended
<1>6. chunk[starting] = "new" /\ how \in {"check", "unstarted"}
  BY <1>2, <1>3, <1>4, <1>5 DEF StartInv, Only
<1>7. /\ starting' \in Chunks \cup {0} /\ Chunks' = Chunks
      /\ \A j \in Chunks : j # starting => chunk'[j] = chunk[j]
  BY <1>2, <1>3, <1>4, <1>5 DEF NextChunk, Chunks
<1>8. at' = [at EXCEPT ![starting] = at[starting]]
  BY <1>4, <1>5
<1>9. ChunkInv(starting) /\ chunk'[starting] = how
  BY <1>3, <1>5 DEF IInv
<1>10. \A k \in {starting} : ChunkInv(k)'
  BY <1>4, <1>6, <1>9 DEF ChunkInv
<1>11. FailureInv'
  <2>1. chunk[starting] \notin Ended
    BY <1>6 DEF Ended
  <2> QED BY <1>3, <1>4, <1>5, <1>8, <2>1, FailuresStay DEF FailureInv
<1>12. StartInv'
  <2>1. Chunks # {Only}
    BY DEF StartChunk
  <2>2. starting' # 0 => chunk'[Only] = "new"
    BY <1>2, <1>4, <1>5, <1>7 DEF StartInv, NextChunk, Only
  <2>3. ASSUME starting' \notin {0, Only}, NEW k \in Chunks, k >= starting' PROVE chunk'[k] = "new"
    <3>1. starting # Only /\ starting' = starting + 1 /\ starting \in Nat /\ k \in Nat
      BY <1>2, <1>4, <1>5, <2>3 DEF NextChunk, Only
    <3>2. k >= starting /\ k # starting
      BY <2>3, <3>1
    <3> QED BY <1>4, <1>5, <1>7, <3>1, <3>2 DEF StartInv
  <2> QED BY <1>7, <2>1, <2>2, <2>3 DEF StartInv
<1>13. ASSUME NEW k, k = starting PROVE IInv'
  <2>1. /\ chunk' = [chunk EXCEPT ![k] = how] /\ at' = [at EXCEPT ![k] = at[k]] /\ at[k] \in Nat
        /\ k \in Chunks /\ chunk[k] \notin Ended /\ how \in Unended \cup Ended /\ ChunkInv(k)'
    BY <1>3, <1>5, <1>6, <1>8, <1>10, <1>13 DEF Ended, Unended
  <2>2. firstFailure' \subseteq Texts \cup {None}
    BY <1>4 DEF IInv, TypeOK
  <2> QED BY <1>4, <1>7, <1>11, <1>12, <2>1, <2>2, ChunkStepKeeps
<1> QED BY <1>13

\* A chunk that stops early heard of a failure before its text, and that failure's
\* chunk is there.
LEMMA CheckFailureKeeps ==
  ASSUME IInv, NEW k \in Chunks, CheckFailure(k)
  PROVE  IInv'
<1>1. PICK n, c : Shape(n, c)
  BY DEF IInv
<1>2. /\ chunk[k] = "check" /\ answer = Nothing /\ chunk[k] \notin Ended
      /\ UNCHANGED <<outcome, bound, firstFailure, starting, at, answer>>
  BY Running DEF CheckFailure
<1>3. PICK how \in {"done", "encode"} :
        /\ chunk' = [chunk EXCEPT ![k] = how]
        /\ how = "encode" => at[k] # bound[k]
        /\ how = "done" => at[k] = bound[k] \/ \E failed \in firstFailure : Overtaken(at[k], failed)
  <2>1. CASE at[k] = bound[k]
    BY <2>1 DEF CheckFailure
  <2>2. CASE at[k] # bound[k]
    <3>1. PICK failed \in firstFailure :
            chunk' = [chunk EXCEPT ![k] = IF Overtaken(at[k], failed) THEN "done" ELSE "encode"]
      BY <2>2 DEF CheckFailure
    <3>2. CASE Overtaken(at[k], failed)
      BY <3>1, <3>2
    <3>3. CASE ~Overtaken(at[k], failed)
      BY <2>2, <3>1, <3>3
    <3> QED BY <3>2, <3>3
  <2> QED BY <2>1, <2>2
<1>4. chunk \in [Chunks -> Unended \cup Ended] /\ at \in [Chunks -> Nat] /\ ChunkInv(k) /\ FailureInv
  BY DEF IInv, TypeOK, Unended
<1>5. at' = [at EXCEPT ![k] = at[k]] /\ Chunks' = Chunks
  BY <1>2, <1>4 DEF Chunks
<1>6. /\ at[k] \in 0 .. n /\ bound[k] \in 0 .. n /\ at[k] <= bound[k] /\ n <= None
      /\ n \in Nat /\ None \in Nat
  BY <1>1, <1>4, ChunkPlace, ShapeFacts
<1>7. at[k] # bound[k] /\ how = "done" => Behind(k)'
  <2>1. SUFFICES ASSUME at[k] # bound[k], how = "done" PROVE Behind(k)'
    OBVIOUS
  <2>2. PICK failed \in firstFailure : at[k] > failed
    BY <1>3, <2>1 DEF Overtaken
  <2>3. failed # None
    BY <1>6, <2>2
  <2>4. PICK j \in Chunks' : chunk'[j] = "failed" /\ at'[j] = failed
    BY <1>2, <1>3, <1>5, <2>3, FailuresStay
  <2>5. at'[j] < at'[k]
    <3>1. at'[k] = at[k] /\ failed \in Nat
      <4>1. firstFailure \subseteq Texts \cup {None} /\ Texts \subseteq Nat
        BY <1>1, ShapeFacts DEF IInv, TypeOK
      <4> QED BY <1>2, <1>6, <4>1
    <3> QED BY <1>6, <2>2, <2>4, <3>1
  <2> QED BY <2>4, <2>5 DEF Behind
<1>8. ChunkInv(k)'
  <2>1. chunk'[k] = how /\ at'[k] = at[k]
    BY <1>2, <1>3, <1>4
  <2> QED BY <1>2, <1>3, <1>4, <1>6, <1>7, <2>1 DEF ChunkInv
<1>9. FailureInv'
  BY <1>2, <1>3, <1>5, FailuresStay DEF FailureInv
<1>10. StartInv'
  BY <1>2, <1>3, RunningStarts
<1>11. /\ starting' \in Chunks \cup {0} /\ firstFailure' \subseteq Texts \cup {None}
       /\ how \in Unended \cup Ended
  BY <1>2 DEF IInv, TypeOK, Unended, Ended
<1>12. at[k] \in Nat
  BY <1>4
<1> QED BY <1>2, <1>3, <1>5, <1>8, <1>9, <1>10, <1>11, <1>12, ChunkStepKeeps

\* A text that fails leaves its chunk at it; one that does not lets it pass.
LEMMA EncodeKeeps ==
  ASSUME IInv, NEW k \in Chunks, Encode(k)
  PROVE  IInv'
<1>1. PICK n, c : Shape(n, c)
  BY DEF IInv
<1> DEFINE i == at[k]
           how == CASE outcome[i] = "ok" -> "check" [] outcome[i] = "error" -> "failed"
                    [] OTHER -> "panicked"
           where == IF outcome[i] = "ok" THEN i + 1 ELSE i
<1>2. /\ chunk[k] = "encode" /\ answer = Nothing /\ chunk[k] \notin Ended
      /\ UNCHANGED <<outcome, bound, starting, answer>>
      /\ at' = [at EXCEPT ![k] = where] /\ chunk' = [chunk EXCEPT ![k] = how]
      /\ firstFailure' = IF outcome[i] = "error"
                         THEN firstFailure \cup {Min(firstFailure \cup {i})} ELSE firstFailure
  BY Running DEF Encode
<1>3. /\ chunk \in [Chunks -> Unended \cup Ended] /\ at \in [Chunks -> Nat]
      /\ ChunkInv(k) /\ Chunks' = Chunks
  BY <1>2 DEF IInv, TypeOK, Unended, Chunks
<1>4. /\ i \in Nat /\ i \in Texts /\ i < bound[k] /\ bound[k] \in Nat /\ bound[k - 1] \in Nat
      /\ bound[k - 1] <= i
  <2>1. i < bound[k]
    BY <1>2, <1>3 DEF ChunkInv
  <2> QED BY <1>1, <1>3, <2>1, ChunkPlace
<1>5. outcome[i] \in {"ok", "error", "panic"}
  BY <1>1, <1>4, ShapeFacts, ConstantsAssumption DEF Shape
<1>6. firstFailure \subseteq Texts \cup {None} /\ Texts \cup {None} \subseteq Nat
  BY <1>1, ShapeFacts DEF IInv, TypeOK
<1>7. Min(firstFailure \cup {i}) \in firstFailure \cup {i}
  <2>1. firstFailure \cup {i} \subseteq Nat
    BY <1>4, <1>6
  <2> HIDE DEF i
  <2> QED BY <2>1, LeastExists
<1> HIDE DEF i
<1>8. chunk'[k] = how /\ at'[k] = where /\ where \in Nat /\ how \in Unended \cup Ended
  BY <1>2, <1>3, <1>4 DEF Unended, Ended
<1>9. ChunkInv(k)'
  <2>1. at'[k] \in bound[k - 1] .. bound[k]
    BY <1>4, <1>8
  <2>2. \A j \in bound[k - 1] .. (at'[k] - 1) : outcome[j] = "ok"
    <3>1. \A j \in bound[k - 1] .. (i - 1) : outcome[j] = "ok"
      BY <1>3 DEF ChunkInv, i
    <3>2. CASE outcome[i] = "ok"
      <4>1. \A j \in bound[k - 1] .. (at'[k] - 1) : j = i \/ j \in bound[k - 1] .. (i - 1)
        BY <1>4, <1>8, <3>2
      <4> QED BY <3>1, <3>2, <4>1
    <3>3. CASE outcome[i] # "ok"
      BY <1>8, <3>1, <3>3
    <3> QED BY <3>2, <3>3
  <2>3. /\ chunk'[k] \in {"encode", "failed", "panicked"} => at'[k] < bound[k]
        /\ chunk'[k] = "failed" => outcome[at'[k]] = "error"
        /\ chunk'[k] = "panicked" => outcome[at'[k]] = "panic"
        /\ chunk'[k] # "done"
    BY <1>4, <1>5, <1>8
  <2> QED BY <1>2, <2>1, <2>2, <2>3 DEF ChunkInv
<1>10. FailureInv'
  <2>1. \A v \in firstFailure :
          v = None \/ \E j \in Chunks' : chunk'[j] = "failed" /\ at'[j] = v
    <3> HIDE DEF how, where
    <3> QED BY <1>2, FailuresStay
  <2>2. outcome[i] = "error" => chunk'[k] = "failed" /\ at'[k] = i
    BY <1>8
  <2>3. ASSUME NEW v \in firstFailure'
        PROVE  v = None \/ \E j \in Chunks' : chunk'[j] = "failed" /\ at'[j] = v
    <3> HIDE DEF how, where
    <3>1. CASE v \in firstFailure
      BY <2>1, <3>1
    <3>2. CASE v \notin firstFailure
      <4>1. outcome[i] = "error" /\ v = i
        BY <1>2, <1>7, <3>2
      <4> QED BY <1>3, <2>2, <4>1
    <3> QED BY <3>1, <3>2
  <2> QED BY <2>3 DEF FailureInv
<1>11. StartInv'
  <2> HIDE DEF how, where
  <2> QED BY <1>2, RunningStarts
<1>12. starting' \in Chunks \cup {0} /\ firstFailure' \subseteq Texts \cup {None}
  BY <1>2, <1>4, <1>6, <1>7 DEF IInv, TypeOK
<1> HIDE DEF how, where
<1> QED BY <1>2, <1>8, <1>9, <1>10, <1>11, <1>12, ChunkStepKeeps

-----------------------------------------------------------------------------
(* The specification.                                                      *)

LEMMA InitInvariant == Init => IInv
<1>1. SUFFICES ASSUME Init PROVE IInv
  OBVIOUS
<1>2. PICK n \in 0 .. MaxTexts, threads \in Asked :
        /\ outcome \in [0 .. (n - 1) -> Outcomes]
        /\ \E lens \in [0 .. (n - 1) -> Lengths] : bound = Plan(lens, n, threads)
        /\ firstFailure = {None} /\ starting = (IF 2 \in Chunks THEN 2 ELSE 1)
        /\ at = [k \in Chunks |-> bound[k - 1]] /\ chunk = [k \in Chunks |-> "new"]
        /\ answer = Nothing
  BY <1>1 DEF Init
<1>3. PICK c \in Nat \ {0} : Cuts(bound, n, c)
  <2>1. n \in Nat /\ threads \in Nat
    BY ConstantsAssumption
  <2>2. PICK lens \in [0 .. (n - 1) -> Nat] : bound = Plan(lens, n, threads)
    BY <1>2, ConstantsAssumption
  <2> QED BY <2>1, <2>2, PlanCuts
<1>4. Shape(n, c)
  BY <1>2, <1>3 DEF Shape
<1>5. /\ firstFailure = {None} /\ starting = (IF 2 \in Chunks THEN 2 ELSE 1)
      /\ at = [k \in Chunks |-> bound[k - 1]] /\ chunk = [k \in Chunks |-> "new"]
      /\ answer = Nothing
  BY <1>2
<1>6. /\ Texts = 0 .. (n - 1) /\ Chunks = 1 .. c /\ Cardinality(Texts) = n
      /\ Cardinality(Chunks) = c /\ (Chunks = {Only} <=> c = 1) /\ n \in Nat /\ c \in Nat \ {0}
  BY <1>4, ShapeFacts
<1>7. \A k \in Chunks : /\ bound[k - 1] \in 0 .. n /\ bound[k] \in 0 .. n
                        /\ bound[k - 1] <= bound[k]
  <2>1. SUFFICES ASSUME NEW k \in 1 .. c
                 PROVE  /\ bound[k - 1] \in 0 .. n /\ bound[k] \in 0 .. n
                        /\ bound[k - 1] <= bound[k]
    BY <1>6
  <2>2. k - 1 \in 0 .. c /\ k \in 0 .. c
    BY <1>6
  <2>3. bound[k - 1] \in 0 .. n /\ bound[k] \in 0 .. n
    BY <1>3, <2>2 DEF Cuts
  <2>4. CASE c = 1
    BY <1>3, <2>3, <2>4 DEF Cuts
  <2>5. CASE c > 1
    BY <1>3, <2>3, <2>5 DEF Cuts
  <2> QED BY <1>6, <2>3, <2>4, <2>5
<1>8. at \in [Chunks -> Nat] /\ \A k \in Chunks : at[k] = bound[k - 1]
  BY <1>5, <1>7
<1>9. \A k \in Chunks : ChunkInv(k)
  <2>1. ASSUME NEW k \in Chunks PROVE ChunkInv(k)
    <3>1. chunk[k] = "new" /\ at[k] = bound[k - 1]
      BY <1>5, <1>8
    <3>2. at[k] \in bound[k - 1] .. bound[k]
      BY <1>6, <1>7, <3>1
    <3>3. bound[k - 1] .. (at[k] - 1) = {}
      BY <1>6, <1>7, <3>1
    <3> QED BY <3>1, <3>2, <3>3 DEF ChunkInv
  <2> QED BY <2>1
<1>10. FailureInv
  BY <1>5 DEF FailureInv
<1>11. StartInv
  BY <1>5, <1>6 DEF StartInv, Only
<1>12. AnswerInv
  BY <1>5 DEF AnswerInv, AnswersSerially, NoPartialBatch
<1>13. TypeOK
  <2>1. outcome \in [Texts -> Outcomes] /\ firstFailure \subseteq Texts \cup {None}
    BY <1>2, <1>5, <1>6
  <2>2. starting \in Chunks \cup {0}
    BY <1>5, <1>6
  <2>3. \A k \in Chunks : at[k] \in bound[k - 1] .. bound[k]
    BY <1>9 DEF ChunkInv
  <2>4. chunk \in [Chunks -> {"new", "check", "encode"} \cup Ended]
    BY <1>5
  <2>5. /\ bound[0] = 0 /\ bound[Cardinality(Chunks)] = Cardinality(Texts)
        /\ Cardinality(Chunks) > 1 => \A k \in Chunks : bound[k - 1] < bound[k]
    BY <1>3, <1>6 DEF Cuts
  <2> QED BY <2>1, <2>2, <2>3, <2>4, <2>5 DEF TypeOK
<1> QED BY <1>4, <1>8, <1>9, <1>10, <1>11, <1>12, <1>13 DEF IInv

LEMMA NextInvariant == IInv /\ [Next]_vars => IInv'
<1>1. SUFFICES ASSUME IInv, [Next]_vars PROVE IInv'
  OBVIOUS
<1>2. CASE UNCHANGED vars
  <2>1. /\ UNCHANGED <<outcome, bound, firstFailure, starting, at, chunk, answer>>
        /\ SerialAnswer' = SerialAnswer
    BY <1>2, SerialStays DEF vars
  <2>2. PICK n, c : Shape(n, c)
    BY <1>1 DEF IInv
  <2>3. Shape(n, c)'
    BY <2>1, <2>2 DEF Shape
  <2>4. AnswerInv'
    BY <1>1, <2>1 DEF IInv, AnswerInv, AnswersSerially, NoPartialBatch, Texts, Chunks
  <2>5. (TypeOK /\ at \in [Chunks -> Nat] /\ (\A k \in Chunks : ChunkInv(k)) /\ FailureInv /\ StartInv)'
    BY <1>1, <2>1 DEF IInv, TypeOK, ChunkInv, Behind, FailureInv, StartInv, Texts, Chunks
  <2> QED BY <2>3, <2>4, <2>5 DEF IInv
<1>3. CASE StartChunk
  BY <1>1, <1>3, StartChunkKeeps
<1>4. CASE Join
  BY <1>1, <1>4, JoinStepKeeps
<1>5. CASE Serial
  BY <1>1, <1>5, SerialKeeps
<1>6. ASSUME NEW k \in Chunks, CheckFailure(k) \/ Encode(k) PROVE IInv'
  BY <1>1, <1>6, CheckFailureKeeps, EncodeKeeps
<1> QED BY <1>1, <1>2, <1>3, <1>4, <1>5, <1>6 DEF Next

\* Every chunk is where its texts' outcomes and the failures before them let it be
\* (ChunkInv), first_failure only ever held texts that failed, and the chunks are
\* started in order with the calling thread's own last (par_batch.rs).
THEOREM Inductive == Spec => []IInv
BY InitInvariant, NextInvariant, PTL DEF Spec

\* Every run keeps the types; in particular plan cuts the batch in order, every
\* text in one chunk and no chunk empty beside another, whatever the texts' lengths
\* and the number of threads asked for.
THEOREM TypeCorrect == Spec => []TypeOK
<1>1. IInv => TypeOK
  BY DEF IInv
<1> QED BY Inductive, <1>1, PTL

\* map_ordered answers as a loop over the texts would, whatever the order of the
\* threads and however late they hear of each other's failures.
THEOREM SerialCorrect == Spec => []AnswersSerially
<1>1. IInv => AnswersSerially
  BY DEF IInv, AnswerInv
<1> QED BY Inductive, <1>1, PTL

\* Rows are answered for the whole batch in order or not at all, panics and threads
\* that do not start included, and the rows are never short.
THEOREM WholeCorrect == Spec => []NoPartialBatch
<1>1. IInv => NoPartialBatch
  BY DEF IInv, AnswerInv
<1> QED BY Inductive, <1>1, PTL
=============================================================================
