-------------------------- MODULE Qwen35Session_proof --------------------------
(***************************************************************************)
(* The sessions of Qwen35Session.tla compute what one forward computes,    *)
(* for any layers, prompts, weights and calls.                             *)
(*                                                                         *)
(* First what the layers compute: a run is its halves one by one           *)
(* (RunStep), and a row depends on the rows before it alone (Causal).      *)
(* Then the carry: what a layer keeps of the tokens so far is a function   *)
(* of them (CarryIs), which a prefill establishes (PrefillKeeps) and each  *)
(* half of a token keeps (TokenHalfKeeps).  Then the invariant: what the   *)
(* sessions hold between calls (StagedInv, DecodeInv), and what the call   *)
(* in progress has made of them so far (CallInv).                          *)
(***************************************************************************)
EXTENDS Qwen35Session, SequenceTheorems, WellFoundedInduction, TLAPS

\* What holds of 0 and of every successor holds of every number.
LEMMA NatSetInduction ==
  ASSUME NEW G, 0 \in G, \A n \in Nat : n \in G => n + 1 \in G
  PROVE  Nat \subseteq G
<1> DEFINE Bad == {n \in Nat : n \notin G}
<1>1. SUFFICES ASSUME Bad # {} PROVE FALSE
  OBVIOUS
<1>2. PICK m \in Bad : \A n \in Bad : <<n, m>> \notin OpToRel(<, Nat)
  BY <1>1, NatLessThanWellFounded, WFMin
<1>3. m \in Nat /\ m # 0 /\ m - 1 \in Nat /\ m - 1 < m /\ (m - 1) + 1 = m
  OBVIOUS
<1>4. m - 1 \notin Bad
  BY <1>2, <1>3 DEF OpToRel
<1> QED BY <1>3, <1>4

-----------------------------------------------------------------------------
(* Sequences of anything.                                                  *)

\* s is a sequence of length n.
IsSeq(s, n) == n \in Nat /\ DOMAIN s = 1 .. n /\ s = [i \in 1 .. n |-> s[i]]

\* s and t begin alike.
Agree(s, t, n) == \A i \in 1 .. n : s[i] = t[i]

\* s with e after it is t.
Grown(t, s, n, e) == IsSeq(s, n) /\ IsSeq(t, n + 1) /\ Agree(s, t, n) /\ t[n + 1] = e

LEMMA SeqOfItsValues ==
  ASSUME NEW n, NEW s, IsSeq(s, n)
  PROVE  s \in Seq({s[i] : i \in 1 .. n}) /\ Len(s) = n
<1>1. s \in [1 .. n -> {s[i] : i \in 1 .. n}] /\ n \in Nat
  BY DEF IsSeq
<1> QED BY <1>1

LEMMA SeqOfValuesIn ==
  ASSUME NEW n, NEW s, IsSeq(s, n), NEW S, {s[i] : i \in 1 .. n} \subseteq S
  PROVE  s \in Seq(S) /\ Len(s) = n
<1>1. s \in [1 .. n -> S] /\ n \in Nat
  BY DEF IsSeq
<1> QED BY <1>1

LEMMA SeqIs ==
  ASSUME NEW S, NEW s \in Seq(S)
  PROVE  IsSeq(s, Len(s))
BY DEF IsSeq

LEMMA SeqSame ==
  ASSUME NEW n, NEW s, NEW t, IsSeq(s, n), IsSeq(t, n), \A i \in 1 .. n : s[i] = t[i]
  PROVE  s = t
BY DEF IsSeq

LEMMA EmptyIs == IsSeq(<<>>, 0) /\ \A e : IsSeq(<<e>>, 1) /\ <<e>>[1] = e
BY DEF IsSeq

LEMMA AppendIs ==
  ASSUME NEW n, NEW s, IsSeq(s, n), NEW e
  PROVE  Grown(Append(s, e), s, n, e)
<1> DEFINE S == {s[i] : i \in 1 .. n} \cup {e}
<1>1. s \in Seq(S) /\ e \in S /\ Len(s) = n /\ n \in Nat
  BY SeqOfValuesIn DEF IsSeq
<1> HIDE DEF S
<1>2. Append(s, e) \in Seq(S) /\ Len(Append(s, e)) = n + 1
  BY <1>1
<1>3. /\ \A i \in 1 .. n : s[i] = Append(s, e)[i]
      /\ Append(s, e)[n + 1] = e
  BY <1>1
<1> QED BY <1>2, <1>3, SeqIs DEF Grown, Agree

\* u is s followed by t.
Followed(u, s, n, t, m) ==
  /\ IsSeq(u, n + m)
  /\ \A i \in 1 .. n : u[i] = s[i]
  /\ \A i \in 1 .. m : u[n + i] = t[i]

LEMMA ConcatIs ==
  ASSUME NEW n, NEW s, IsSeq(s, n), NEW m, NEW t, IsSeq(t, m)
  PROVE  Followed(s \o t, s, n, t, m)
<1> DEFINE S == {s[i] : i \in 1 .. n} \cup {t[i] : i \in 1 .. m}
<1>1. s \in Seq(S) /\ t \in Seq(S) /\ Len(s) = n /\ n \in Nat /\ Len(t) = m /\ m \in Nat
  BY SeqOfValuesIn DEF IsSeq
<1> HIDE DEF S
<1>2. s \o t \in Seq(S) /\ Len(s \o t) = n + m
  BY <1>1
<1>3. IsSeq(s \o t, n + m)
  BY <1>2, SeqIs
<1>4. \A i \in 1 .. (n + m) : (s \o t)[i] = IF i <= n THEN s[i] ELSE t[i - n]
  BY <1>1
<1>5. ASSUME NEW i \in 1 .. m PROVE (s \o t)[n + i] = t[i]
  <2>1. n + i \in 1 .. (n + m) /\ ~(n + i <= n) /\ (n + i) - n = i
    BY <1>1
  <2> QED BY <1>4, <2>1
<1>6. \A i \in 1 .. n : i \in 1 .. (n + m) /\ i <= n
  BY <1>1
<1> QED BY <1>3, <1>4, <1>5, <1>6 DEF Followed

\* u is s from a, m long.
Taken(u, s, a, m) == IsSeq(u, m) /\ \A i \in 1 .. m : u[i] = s[a + i - 1]

LEMMA SubSeqIs ==
  ASSUME NEW n, NEW s, IsSeq(s, n), NEW a \in 1 .. (n + 1), NEW b \in (a - 1) .. n
  PROVE  Taken(SubSeq(s, a, b), s, a, b - a + 1)
<1> DEFINE S == {s[i] : i \in 1 .. n}
<1>1. s \in Seq(S) /\ Len(s) = n /\ n \in Nat
  BY SeqOfItsValues DEF IsSeq
<1> HIDE DEF S
<1>2. a \in Nat /\ b \in Nat /\ 1 <= a /\ b <= n /\ b - a + 1 \in Nat
  BY <1>1
<1>3. SubSeq(s, a, b) \in Seq(S) /\ Len(SubSeq(s, a, b)) = b - a + 1
  <2>1. CASE a <= b
    BY <1>1, <1>2, <2>1, SubSeqProperties
  <2>2. CASE ~(a <= b)
    <3>1. b = a - 1
      BY <1>2, <2>2
    <3> QED BY <1>1, <1>2, <3>1, SubSeqProperties
  <2> QED BY <2>1, <2>2
<1>4. \A i \in 1 .. (b - a + 1) : SubSeq(s, a, b)[i] = s[a + i - 1]
  BY <1>1, <1>2, SubSeqProperties
<1> QED BY <1>3, <1>4, SeqIs DEF Taken

-----------------------------------------------------------------------------
(* A run of halves.                                                        *)

\* g is the recursion of Run, up to half `to'.
IsRun(g, w, rows, from, to) ==
  g = [h \in from .. to |-> IF h = from THEN rows ELSE Half(w, g[h - 1], h)]

LEMMA RunExists ==
  ASSUME NEW w, NEW rows, NEW from \in Nat
  PROVE  \A m \in Nat : \E g : IsRun(g, w, rows, from, from + m)
<1> DEFINE G == {m \in Nat : \E g : IsRun(g, w, rows, from, from + m)}
<1>1. 0 \in G
  <2>1. IsRun([h \in from .. (from + 0) |-> rows], w, rows, from, from + 0)
    BY DEF IsRun
  <2> QED BY <2>1
<1>2. ASSUME NEW m \in Nat, m \in G PROVE m + 1 \in G
  <2>1. PICK g : IsRun(g, w, rows, from, from + m)
    BY <1>2
  <2> DEFINE k == [h \in from .. (from + (m + 1)) |->
                     IF h = from THEN rows ELSE Half(w, g[h - 1], h)]
  <2>2. \A h \in from .. (from + m) : k[h] = g[h]
    BY <2>1 DEF IsRun
  <2>3. \A h \in from .. (from + (m + 1)) : h = from \/ k[h - 1] = g[h - 1]
    <3>1. \A h \in from .. (from + (m + 1)) : h = from \/ h - 1 \in from .. (from + m)
      OBVIOUS
    <3> HIDE DEF k
    <3> QED BY <2>2, <3>1
  <2>4. k = [h \in from .. (from + (m + 1)) |->
               IF h = from THEN rows ELSE Half(w, k[h - 1], h)]
    BY <2>3
  <2> HIDE DEF k
  <2>5. IsRun(k, w, rows, from, from + (m + 1))
    BY <2>4 DEF IsRun
  <2> QED BY <2>5
<1>3. Nat \subseteq G
  <2> HIDE DEF G
  <2> QED BY <1>1, <1>2, NatSetInduction
<1> QED BY <1>3

LEMMA RunUnique ==
  ASSUME NEW w, NEW rows, NEW from \in Nat, NEW to \in Nat, NEW to2 \in Nat, to <= to2,
         NEW g, IsRun(g, w, rows, from, to), NEW k, IsRun(k, w, rows, from, to2)
  PROVE  \A h \in from .. to : g[h] = k[h]
<1> DEFINE G == {m \in Nat : from + m <= to => g[from + m] = k[from + m]}
<1>1. 0 \in G
  BY DEF IsRun
<1>2. ASSUME NEW m \in Nat, m \in G PROVE m + 1 \in G
  <2>1. SUFFICES ASSUME from + (m + 1) <= to PROVE g[from + (m + 1)] = k[from + (m + 1)]
    OBVIOUS
  <2> DEFINE h == from + (m + 1)
  <2>2. h \in from .. to /\ h \in from .. to2 /\ h # from /\ h - 1 = from + m /\ from + m <= to
    BY <2>1
  <2>3. g[from + m] = k[from + m]
    BY <1>2, <2>2
  <2> HIDE DEF h
  <2>4. g[h] = Half(w, g[h - 1], h) /\ k[h] = Half(w, k[h - 1], h)
    BY <2>2 DEF IsRun
  <2> QED BY <2>2, <2>3, <2>4 DEF h
<1>3. Nat \subseteq G
  <2> HIDE DEF G
  <2> QED BY <1>1, <1>2, NatSetInduction
<1>4. ASSUME NEW h \in from .. to PROVE g[h] = k[h]
  <2>1. h - from \in Nat /\ from + (h - from) = h /\ h <= to
    OBVIOUS
  <2> QED BY <1>3, <2>1
<1> QED BY <1>4

LEMMA RunIs ==
  ASSUME NEW w, NEW rows, NEW from \in Nat, NEW to \in Nat, from <= to
  PROVE  \E g : IsRun(g, w, rows, from, to) /\ Run(w, rows, from, to) = g[to]
<1> DEFINE g == CHOOSE after : IsRun(after, w, rows, from, to)
<1>1. Run(w, rows, from, to) = g[to]
  BY DEF Run, IsRun
<1>2. IsRun(g, w, rows, from, to)
  <2>1. to - from \in Nat /\ from + (to - from) = to
    OBVIOUS
  <2> QED BY <2>1, RunExists
<1> HIDE DEF g
<1> QED BY <1>1, <1>2

LEMMA RunStart ==
  ASSUME NEW w, NEW rows, NEW from \in Nat
  PROVE  Run(w, rows, from, from) = rows
<1>1. PICK g : IsRun(g, w, rows, from, from) /\ Run(w, rows, from, from) = g[from]
  BY RunIs
<1> QED BY <1>1 DEF IsRun

\* One half more.
LEMMA RunStep ==
  ASSUME NEW w, NEW rows, NEW from \in Nat, NEW h \in Nat, h >= from
  PROVE  Run(w, rows, from, h + 1) = Half(w, Run(w, rows, from, h), h + 1)
<1>1. PICK g : IsRun(g, w, rows, from, h) /\ Run(w, rows, from, h) = g[h]
  BY RunIs
<1>2. PICK k : IsRun(k, w, rows, from, h + 1) /\ Run(w, rows, from, h + 1) = k[h + 1]
  <2>1. h + 1 \in Nat /\ from <= h + 1
    OBVIOUS
  <2> QED BY <2>1, RunIs
<1>3. g[h] = k[h]
  <2>1. h \in from .. h /\ h + 1 \in Nat /\ h <= h + 1
    OBVIOUS
  <2> QED BY <1>1, <1>2, <2>1, RunUnique
<1>4. k[h + 1] = Half(w, k[(h + 1) - 1], h + 1)
  <2>1. h + 1 \in from .. (h + 1) /\ h + 1 # from
    OBVIOUS
  <2> QED BY <1>2, <2>1 DEF IsRun
<1>5. (h + 1) - 1 = h
  OBVIOUS
<1> QED BY <1>1, <1>2, <1>3, <1>4, <1>5

-----------------------------------------------------------------------------
(* What a layer sees.                                                      *)

LEMMA EntriesAre ==
  ASSUME NEW n, NEW rows, IsSeq(rows, n), NEW w, NEW l
  PROVE  /\ IsSeq(Entries(w, l, rows), n)
         /\ \A p \in 1 .. n : Entries(w, l, rows)[p] = Entry(w, l, rows[p])
<1>1. DOMAIN rows = 1 .. n /\ n \in Nat
  BY DEF IsSeq
<1>2. Entries(w, l, rows) = [p \in 1 .. n |-> Entry(w, l, rows[p])]
  BY <1>1 DEF Entries
<1> QED BY <1>1, <1>2 DEF IsSeq

LEMMA ZerosAre == IsSeq(Zeros, ConvTail)
BY SessionAssumption DEF Zeros, IsSeq

\* The conv's inputs at position p end with the layer's own.
LEMMA ConvInputs ==
  ASSUME NEW n, NEW e, IsSeq(e, n)
  PROVE  Followed(Zeros \o e, Zeros, ConvTail, e, n)
BY ZerosAre, ConcatIs

\* u has the window of each input of e.
Windowed(u, e, n) ==
  /\ IsSeq(u, n)
  /\ \A p \in 1 .. n : /\ u[p] = SubSeq(Zeros \o e, p, p + ConvTail)
                       /\ Taken(u[p], Zeros \o e, p, ConvTail + 1)

LEMMA WindowsAre ==
  ASSUME NEW n, NEW e, IsSeq(e, n)
  PROVE  Windowed(Windows(e), e, n)
<1>1. DOMAIN e = 1 .. n /\ n \in Nat /\ ConvTail \in Nat
  BY SessionAssumption DEF IsSeq
<1>2. Windows(e) = [p \in 1 .. n |-> SubSeq(Zeros \o e, p, p + ConvTail)]
  BY <1>1 DEF Windows
<1>3. ASSUME NEW p \in 1 .. n
      PROVE  Taken(SubSeq(Zeros \o e, p, p + ConvTail), Zeros \o e, p, ConvTail + 1)
  <2>1. /\ p \in 1 .. ((ConvTail + n) + 1) /\ p + ConvTail \in (p - 1) .. (ConvTail + n)
        /\ (p + ConvTail) - p + 1 = ConvTail + 1
    BY <1>1
  <2>2. IsSeq(Zeros \o e, ConvTail + n)
    BY ConvInputs DEF Followed
  <2> DEFINE z == Zeros \o e
             m == ConvTail + n
             b == p + ConvTail
  <2> HIDE DEF z, m, b
  <2>3. Taken(SubSeq(z, p, b), z, p, b - p + 1)
    BY <2>1, <2>2, SubSeqIs DEF z, m, b
  <2> QED BY <2>1, <2>3 DEF z, b
<1>4. IsSeq(Windows(e), n)
  BY <1>1, <1>2 DEF IsSeq
<1> QED BY <1>2, <1>3, <1>4 DEF Windowed

LEMMA WindowsCausal ==
  ASSUME NEW n, NEW e, IsSeq(e, n), NEW m, NEW f, IsSeq(f, m), n <= m, Agree(e, f, n)
  PROVE  Agree(Windows(e), Windows(f), n)
<1>1. n \in Nat /\ m \in Nat /\ ConvTail \in Nat
  BY SessionAssumption DEF IsSeq
<1>2. /\ Followed(Zeros \o e, Zeros, ConvTail, e, n) /\ Windowed(Windows(e), e, n)
      /\ Followed(Zeros \o f, Zeros, ConvTail, f, m) /\ Windowed(Windows(f), f, m)
  BY ConvInputs, WindowsAre
<1>3. ASSUME NEW j \in 1 .. (ConvTail + n) PROVE (Zeros \o e)[j] = (Zeros \o f)[j]
  <2>1. CASE j <= ConvTail
    <3>1. j \in 1 .. ConvTail
      BY <1>1, <2>1
    <3> QED BY <1>2, <3>1 DEF Followed
  <2>2. CASE ~(j <= ConvTail)
    <3>1. j - ConvTail \in 1 .. n /\ j - ConvTail \in 1 .. m /\ ConvTail + (j - ConvTail) = j
      BY <1>1, <2>2
    <3> DEFINE i == j - ConvTail
    <3> HIDE DEF i
    <3>2. (Zeros \o e)[ConvTail + i] = e[i] /\ (Zeros \o f)[ConvTail + i] = f[i]
      BY <1>2, <3>1 DEF Followed, i
    <3> QED BY <3>1, <3>2 DEF Agree, i
  <2> QED BY <2>1, <2>2
<1>4. ASSUME NEW p \in 1 .. n PROVE Windows(e)[p] = Windows(f)[p]
  <2>1. p \in 1 .. m
    BY <1>1
  <2>2. /\ Taken(Windows(e)[p], Zeros \o e, p, ConvTail + 1)
        /\ Taken(Windows(f)[p], Zeros \o f, p, ConvTail + 1)
    BY <1>2, <2>1 DEF Windowed
  <2>3. ASSUME NEW i \in 1 .. (ConvTail + 1) PROVE Windows(e)[p][i] = Windows(f)[p][i]
    <3>1. p + i - 1 \in 1 .. (ConvTail + n)
      BY <1>1
    <3>2. /\ Windows(e)[p][i] = (Zeros \o e)[p + i - 1]
          /\ Windows(f)[p][i] = (Zeros \o f)[p + i - 1]
      BY <2>2 DEF Taken
    <3> QED BY <1>3, <3>1, <3>2
  <2> QED BY <2>2, <2>3, SeqSame DEF Taken
<1> QED BY <1>4 DEF Agree

LEMMA SeenIs ==
  ASSUME NEW n, NEW rows, IsSeq(rows, n), NEW w, NEW l
  PROVE  IsSeq(Seen(w, l, rows), n)
BY EntriesAre, WindowsAre DEF Seen, Windowed

LEMMA SeenCausal ==
  ASSUME NEW n, NEW rows, IsSeq(rows, n), NEW m, NEW more, IsSeq(more, m), n <= m,
         Agree(rows, more, n), NEW w, NEW l
  PROVE  Agree(Seen(w, l, rows), Seen(w, l, more), n)
<1>1. n \in Nat /\ m \in Nat
  BY DEF IsSeq
<1>2. Agree(Entries(w, l, rows), Entries(w, l, more), n)
  <2>1. \A p \in 1 .. n : p \in 1 .. m
    BY <1>1
  <2> QED BY <2>1, EntriesAre DEF Agree
<1>3. IsSeq(Entries(w, l, rows), n) /\ IsSeq(Entries(w, l, more), m)
  BY EntriesAre
<1>4. Agree(Windows(Entries(w, l, rows)), Windows(Entries(w, l, more)), n)
  BY <1>2, <1>3, WindowsCausal
<1> QED BY <1>2, <1>4 DEF Seen

-----------------------------------------------------------------------------
(* A half of a layer.                                                      *)

\* What half h adds to row p.
Added(w, rows, h, p) ==
  IF h % 2 = 1 THEN Mixed(w, LayerOf(h), SubSeq(Seen(w, LayerOf(h), rows), 1, p))
  ELSE Mlp(w, LayerOf(h), rows[p])

LEMMA HalfIs ==
  ASSUME NEW n, NEW rows, IsSeq(rows, n), NEW w, NEW h
  PROVE  /\ IsSeq(Half(w, rows, h), n)
         /\ \A p \in 1 .. n : Half(w, rows, h)[p] = Append(rows[p], Added(w, rows, h, p))
<1>1. DOMAIN rows = 1 .. n /\ n \in Nat
  BY DEF IsSeq
<1>2. Half(w, rows, h) = [p \in 1 .. n |-> Append(rows[p], Added(w, rows, h, p))]
  BY <1>1 DEF Half, Added
<1> QED BY <1>1, <1>2 DEF IsSeq

\* What a half adds to a row depends on the rows up to it alone.
LEMMA Causal ==
  ASSUME NEW n, NEW rows, IsSeq(rows, n), NEW m, NEW more, IsSeq(more, m), n <= m,
         Agree(rows, more, n), NEW w, NEW h
  PROVE  Agree(Half(w, rows, h), Half(w, more, h), n)
<1>1. n \in Nat /\ m \in Nat /\ \A p \in 1 .. n : p \in 1 .. m
  BY DEF IsSeq
<1>2. ASSUME NEW p \in 1 .. n PROVE Half(w, rows, h)[p] = Half(w, more, h)[p]
  <2> DEFINE l == LayerOf(h)
             s == Seen(w, l, rows)
             t == Seen(w, l, more)
  <2>1. IsSeq(s, n) /\ IsSeq(t, m) /\ Agree(s, t, n)
    BY SeenIs, SeenCausal
  <2> HIDE DEF s, t
  <2>2. SubSeq(s, 1, p) = SubSeq(t, 1, p)
    <3>1. /\ 1 \in 1 .. (n + 1) /\ 1 \in 1 .. (m + 1) /\ p \in (1 - 1) .. n /\ p \in (1 - 1) .. m
          /\ p - 1 + 1 = p
      BY <1>1
    <3>2. Taken(SubSeq(s, 1, p), s, 1, p - 1 + 1) /\ Taken(SubSeq(t, 1, p), t, 1, p - 1 + 1)
      BY <2>1, <3>1, SubSeqIs
    <3>3. ASSUME NEW i \in 1 .. p PROVE SubSeq(s, 1, p)[i] = SubSeq(t, 1, p)[i]
      <4>1. 1 + i - 1 \in 1 .. n
        BY <1>1
      <4> QED BY <2>1, <3>1, <3>2, <4>1 DEF Taken, Agree
    <3> QED BY <3>1, <3>2, <3>3, SeqSame DEF Taken
  <2>3. rows[p] = more[p]
    BY DEF Agree
  <2>4. Added(w, rows, h, p) = Added(w, more, h, p)
    BY <2>2, <2>3 DEF Added, s, t
  <2>5. /\ Half(w, rows, h)[p] = Append(rows[p], Added(w, rows, h, p))
        /\ Half(w, more, h)[p] = Append(more[p], Added(w, more, h, p))
    BY <1>1, HalfIs
  <2> QED BY <2>3, <2>4, <2>5
<1> QED BY <1>2 DEF Agree

\* n rows, each of m contributions.
Block(rows, n, m) == IsSeq(rows, n) /\ \A p \in 1 .. n : IsSeq(rows[p], m)

LEMMA RunBlock ==
  ASSUME NEW n, NEW rows, Block(rows, n, 1), NEW w
  PROVE  \A h \in Nat : Block(Run(w, rows, 0, h), n, h + 1)
<1> DEFINE G == {h \in Nat : Block(Run(w, rows, 0, h), n, h + 1)}
<1>1. 0 \in G
  <2>1. Run(w, rows, 0, 0) = rows /\ 0 + 1 = 1
    BY RunStart
  <2> QED BY <2>1
<1>2. ASSUME NEW h \in Nat, h \in G PROVE h + 1 \in G
  <2> DEFINE r == Run(w, rows, 0, h)
  <2>1. Block(r, n, h + 1) /\ h >= 0 /\ h + 1 \in Nat
    BY <1>2
  <2> HIDE DEF r
  <2>2. Run(w, rows, 0, h + 1) = Half(w, r, h + 1)
    BY <2>1, RunStep DEF r
  <2>3. ASSUME NEW p \in 1 .. n PROVE IsSeq(Half(w, r, h + 1)[p], (h + 1) + 1)
    <3>1. Half(w, r, h + 1)[p] = Append(r[p], Added(w, r, h + 1, p)) /\ IsSeq(r[p], h + 1)
      BY <2>1, HalfIs DEF Block
    <3>2. IsSeq(Append(r[p], Added(w, r, h + 1, p)), (h + 1) + 1)
      BY <3>1, AppendIs DEF Grown
    <3> QED BY <3>1, <3>2
  <2>4. IsSeq(Half(w, r, h + 1), n)
    BY <2>1, HalfIs DEF Block
  <2> QED BY <2>1, <2>2, <2>3, <2>4 DEF Block
<1>3. Nat \subseteq G
  <2> HIDE DEF G
  <2> QED BY <1>1, <1>2, NatSetInduction
<1> QED BY <1>3

LEMMA RunCausal ==
  ASSUME NEW n, NEW rows, Block(rows, n, 1), NEW m, NEW more, Block(more, m, 1), n <= m,
         Agree(rows, more, n), NEW w
  PROVE  \A h \in Nat : Agree(Run(w, rows, 0, h), Run(w, more, 0, h), n)
<1> DEFINE G == {h \in Nat : Agree(Run(w, rows, 0, h), Run(w, more, 0, h), n)}
<1>1. 0 \in G
  BY RunStart
<1>2. ASSUME NEW h \in Nat, h \in G PROVE h + 1 \in G
  <2> DEFINE r == Run(w, rows, 0, h)
             s == Run(w, more, 0, h)
  <2>1. Agree(r, s, n) /\ h >= 0 /\ h + 1 \in Nat
    BY <1>2
  <2>2. IsSeq(r, n) /\ IsSeq(s, m)
    BY RunBlock DEF Block
  <2> HIDE DEF r, s
  <2>3. Run(w, rows, 0, h + 1) = Half(w, r, h + 1)
    BY <2>1, RunStep DEF r
  <2>4. Run(w, more, 0, h + 1) = Half(w, s, h + 1)
    BY <2>1, RunStep DEF s
  <2>5. Agree(Half(w, r, h + 1), Half(w, s, h + 1), n)
    BY <2>1, <2>2, Causal
  <2> QED BY <2>1, <2>3, <2>4, <2>5
<1>3. Nat \subseteq G
  <2> HIDE DEF G
  <2> QED BY <1>1, <1>2, NatSetInduction
<1> QED BY <1>3

-----------------------------------------------------------------------------
(* The convolution's state, one token further.                             *)

LEMMA LastInputsAre ==
  ASSUME NEW k \in Nat, NEW z, IsSeq(z, ConvTail + k)
  PROVE  Taken(LastInputs(z), z, k + 1, ConvTail)
<1> DEFINE C == ConvTail
<1>1. C \in Nat \ {0} /\ Len(z) = C + k
  BY SeqOfItsValues, SessionAssumption
<1>2. LastInputs(z) = SubSeq(z, (C + k) - C + 1, C + k)
  BY <1>1 DEF LastInputs
<1> HIDE DEF C
<1>3. /\ (C + k) - C + 1 = k + 1 /\ k + 1 \in 1 .. ((C + k) + 1) /\ C + k \in ((k + 1) - 1) .. (C + k)
      /\ (C + k) - (k + 1) + 1 = C
  BY <1>1
<1> DEFINE a == k + 1
           b == C + k
<1> HIDE DEF a, b
<1>4. Taken(SubSeq(z, a, b), z, a, b - a + 1)
  BY <1>3, SubSeqIs DEF a, b, C
<1> QED BY <1>2, <1>3, <1>4 DEF a, b, C

LEMMA ConvInputsGrow ==
  ASSUME NEW n \in Nat, NEW e, NEW f, NEW x, Grown(f, e, n, x)
  PROVE  Grown(Zeros \o f, Zeros \o e, ConvTail + n, x)
<1>1. ConvTail \in Nat /\ n + 1 \in Nat
  BY SessionAssumption
<1>2. Followed(Zeros \o e, Zeros, ConvTail, e, n) /\ Followed(Zeros \o f, Zeros, ConvTail, f, n + 1)
  BY ConvInputs DEF Grown
<1>3. ASSUME NEW j \in 1 .. (ConvTail + n) PROVE (Zeros \o e)[j] = (Zeros \o f)[j]
  <2>1. CASE j <= ConvTail
    <3>1. j \in 1 .. ConvTail
      BY <1>1, <2>1
    <3> QED BY <1>2, <3>1 DEF Followed
  <2>2. CASE ~(j <= ConvTail)
    <3> DEFINE i == j - ConvTail
    <3>1. i \in 1 .. n /\ i \in 1 .. (n + 1) /\ ConvTail + i = j
      BY <1>1, <2>2
    <3> HIDE DEF i
    <3>2. (Zeros \o e)[ConvTail + i] = e[i] /\ (Zeros \o f)[ConvTail + i] = f[i]
      BY <1>2, <3>1 DEF Followed
    <3> QED BY <3>1, <3>2 DEF Grown, Agree
  <2> QED BY <2>1, <2>2
<1>4. (Zeros \o f)[ConvTail + (n + 1)] = x
  <2>1. n + 1 \in 1 .. (n + 1)
    OBVIOUS
  <2> QED BY <1>2, <2>1 DEF Followed, Grown
<1>5. ConvTail + (n + 1) = ConvTail + n + 1
  BY <1>1
<1>6. IsSeq(Zeros \o e, ConvTail + n) /\ IsSeq(Zeros \o f, ConvTail + (n + 1))
  BY <1>2 DEF Followed
<1> QED BY <1>3, <1>4, <1>5, <1>6 DEF Grown, Agree

LEMMA ConvStep ==
  ASSUME NEW n \in Nat, NEW e, NEW f, NEW x, Grown(f, e, n, x)
  PROVE  LET window == LastInputs(Zeros \o e) \o <<x>> IN
         /\ LastInputs(window) = LastInputs(Zeros \o f)
         /\ Append(Windows(e), window) = Windows(f)
<1> DEFINE C == ConvTail
           z == Zeros \o e
           v == Zeros \o f
           tail == LastInputs(z)
           window == tail \o <<x>>
<1>1. C \in Nat \ {0} /\ n + 1 \in Nat
  BY SessionAssumption
<1>2. IsSeq(z, C + n) /\ IsSeq(v, C + (n + 1))
  BY ConvInputs DEF Grown, Followed
<1>3. (\A j \in 1 .. (C + n) : z[j] = v[j]) /\ v[C + n + 1] = x
  <2>1. Grown(v, z, C + n, x)
    BY ConvInputsGrow
  <2> HIDE DEF z, v, C
  <2> QED BY <2>1 DEF Grown, Agree
<1>4. Taken(tail, z, n + 1, C) /\ Taken(LastInputs(v), v, (n + 1) + 1, C)
  <2>1. Taken(tail, z, n + 1, C)
    BY <1>2, LastInputsAre
  <2>2. Taken(LastInputs(v), v, (n + 1) + 1, C)
    BY <1>1, <1>2, LastInputsAre
  <2> QED BY <2>1, <2>2
<1>5. Followed(window, tail, C, <<x>>, 1)
  BY <1>4, EmptyIs, ConcatIs DEF Taken
<1>6. Windowed(Windows(e), e, n) /\ Windowed(Windows(f), f, n + 1) /\ Agree(Windows(e), Windows(f), n)
  <2>1. n <= n + 1
    OBVIOUS
  <2> QED BY <1>1, <2>1, WindowsAre, WindowsCausal DEF Grown
<1>7. <<x>>[1] = x /\ 1 \in 1 .. 1
  OBVIOUS
<1> HIDE DEF C, z, v, tail, window
<1>8. ASSUME NEW i \in 1 .. (C + 1) PROVE window[i] = v[n + i]
  <2>1. CASE i = C + 1
    <3>1. window[C + 1] = <<x>>[1]
      BY <1>5, <1>7 DEF Followed
    <3>2. n + i = C + n + 1
      BY <1>1, <2>1
    <3> QED BY <1>3, <1>7, <2>1, <3>1, <3>2
  <2>2. CASE i # C + 1
    <3>1. i \in 1 .. C /\ n + i \in 1 .. (C + n) /\ (n + 1) + i - 1 = n + i
      BY <1>1, <2>2
    <3>2. window[i] = tail[i] /\ tail[i] = z[(n + 1) + i - 1]
      BY <1>4, <1>5, <3>1 DEF Followed, Taken
    <3> QED BY <1>3, <3>1, <3>2
  <2> QED BY <2>1, <2>2
<1>9. IsSeq(window, C + 1)
  BY <1>5 DEF Followed
<1>10. LastInputs(window) = LastInputs(v)
  <2>1. Taken(LastInputs(window), window, 1 + 1, C)
    BY <1>9, LastInputsAre DEF C
  <2>2. ASSUME NEW i \in 1 .. C PROVE LastInputs(window)[i] = LastInputs(v)[i]
    <3>1. /\ (1 + 1) + i - 1 = i + 1 /\ i + 1 \in 1 .. (C + 1)
          /\ ((n + 1) + 1) + i - 1 = n + (i + 1)
      BY <1>1
    <3>2. LastInputs(window)[i] = window[i + 1]
      BY <2>1, <3>1 DEF Taken
    <3>3. LastInputs(v)[i] = v[n + (i + 1)]
      BY <1>4, <3>1 DEF Taken
    <3> QED BY <1>8, <3>1, <3>2, <3>3
  <2> QED BY <1>4, <2>1, <2>2, SeqSame DEF Taken
<1>11. Windows(f)[n + 1] = window
  <2>1. n + 1 \in 1 .. (n + 1)
    OBVIOUS
  <2>2. Taken(Windows(f)[n + 1], v, n + 1, C + 1)
    BY <1>6, <2>1 DEF Windowed, v, C
  <2>3. ASSUME NEW i \in 1 .. (C + 1) PROVE Windows(f)[n + 1][i] = window[i]
    <3>1. (n + 1) + i - 1 = n + i
      BY <1>1
    <3> QED BY <1>8, <2>2, <3>1 DEF Taken
  <2> QED BY <1>9, <2>2, <2>3, SeqSame DEF Taken
<1>12. Append(Windows(e), window) = Windows(f)
  <2> DEFINE s == Append(Windows(e), window)
  <2>1. IsSeq(s, n + 1) /\ (\A i \in 1 .. n : s[i] = Windows(e)[i]) /\ s[n + 1] = window
    <3>1. Grown(s, Windows(e), n, window)
      BY <1>6, AppendIs DEF Windowed
    <3> HIDE DEF s
    <3> QED BY <3>1 DEF Grown, Agree
  <2> HIDE DEF s
  <2>2. ASSUME NEW i \in 1 .. (n + 1) PROVE s[i] = Windows(f)[i]
    <3>1. CASE i = n + 1
      BY <1>11, <2>1, <3>1
    <3>2. CASE i # n + 1
      <4>1. i \in 1 .. n
        BY <3>2
      <4> QED BY <1>6, <2>1, <4>1 DEF Agree
    <3> QED BY <3>1, <3>2
  <2>3. s = Windows(f)
    BY <1>6, <2>1, <2>2, SeqSame DEF Windowed
  <2> QED BY <2>3 DEF s
<1> QED BY <1>10, <1>12 DEF window, tail, z, v

-----------------------------------------------------------------------------
(* What the layers keep.                                                   *)

\* The block of half h, and what layer l takes in of it.
At(w, ids, h) == Run(w, Rows(w, ids), 0, h)
Inputs(w, l, ids) == Entries(w, l, At(w, ids, 2 * l - 2))

\* Layer l keeps c after tokens ids, the last slot of them one at a time.
GdnIs(c, w, l, ids, slot) ==
  /\ c = [conv |-> c.conv, state |-> c.state]
  /\ c.conv = [side \in 0 .. 1 |-> c.conv[side]]
  /\ c.conv[slot % 2] = LastInputs(Zeros \o Inputs(w, l, ids))
  /\ c.state = Windows(Inputs(w, l, ids))

Written(c, slot) == [i \in 1 .. slot |-> c.suffix[i - 1]]

AttentionIs(c, w, l, ids, slot, n, max) ==
  /\ c = [prefix |-> c.prefix, suffix |-> c.suffix]
  /\ c.suffix = [s \in 0 .. max - 1 |-> c.suffix[s]]
  /\ \A s \in 0 .. max - 1 : c.suffix[s] # Unwritten <=> s < slot
  /\ IsSeq(c.prefix, n - slot)
  /\ Followed(Inputs(w, l, ids), c.prefix, n - slot, Written(c, slot), slot)

CarryIs(c, w, l, ids, slot, n, max) ==
  IF Layers[l] = "gdn" THEN GdnIs(c, w, l, ids, slot)
  ELSE AttentionIs(c, w, l, ids, slot, n, max)

\* No layer runs under this version.
Versions == Int \ {Relaxed - 1}

LEMMA DepthIsNat == Depth \in Nat
BY SessionAssumption DEF Depth

LEMMA RowsAre ==
  ASSUME NEW n, NEW ids, IsSeq(ids, n), NEW w
  PROVE  Block(Rows(w, ids), n, 1) /\ \A p \in 1 .. n : Rows(w, ids)[p] = <<Embed(w, ids[p])>>
<1>1. DOMAIN ids = 1 .. n /\ n \in Nat
  BY DEF IsSeq
<1>2. Rows(w, ids) = [p \in 1 .. n |-> <<Embed(w, ids[p])>>]
  BY <1>1 DEF Rows
<1>3. IsSeq(Rows(w, ids), n)
  BY <1>1, <1>2 DEF IsSeq
<1>4. \A p \in 1 .. n : IsSeq(<<Embed(w, ids[p])>>, 1)
  BY EmptyIs
<1> QED BY <1>2, <1>3, <1>4 DEF Block

LEMMA AtIs ==
  ASSUME NEW n, NEW ids, IsSeq(ids, n), NEW w, NEW h \in Nat
  PROVE  Block(At(w, ids, h), n, h + 1)
BY RowsAre, RunBlock DEF At

LEMMA InputsAre ==
  ASSUME NEW n, NEW ids, IsSeq(ids, n), NEW w, NEW l \in Nat \ {0}
  PROVE  /\ IsSeq(Inputs(w, l, ids), n)
         /\ \A p \in 1 .. n : Inputs(w, l, ids)[p] = Entry(w, l, At(w, ids, 2 * l - 2)[p])
<1>1. 2 * l - 2 \in Nat
  OBVIOUS
<1>2. IsSeq(At(w, ids, 2 * l - 2), n)
  BY <1>1, AtIs DEF Block
<1> QED BY <1>2, EntriesAre DEF Inputs

\* One token more is one input more.
LEMMA InputsGrow ==
  ASSUME NEW n, NEW ids, NEW more, NEW id, Grown(more, ids, n, id), NEW w, NEW l \in Nat \ {0}
  PROVE  Grown(Inputs(w, l, more), Inputs(w, l, ids), n, Entry(w, l, At(w, more, 2 * l - 2)[n + 1]))
<1>1. IsSeq(ids, n) /\ IsSeq(more, n + 1) /\ Agree(ids, more, n) /\ n \in Nat /\ n + 1 \in Nat
  BY DEF Grown, IsSeq
<1>2. Block(Rows(w, ids), n, 1) /\ Block(Rows(w, more), n + 1, 1)
  BY <1>1, RowsAre
<1>3. \A p \in 1 .. n : p \in 1 .. (n + 1)
  BY <1>1
<1>4. Agree(Rows(w, ids), Rows(w, more), n)
  BY <1>1, <1>3, RowsAre DEF Agree
<1> DEFINE h == 2 * l - 2
<1>5. h \in Nat /\ n <= n + 1
  BY <1>1
<1> HIDE DEF h
<1>6. Agree(At(w, ids, h), At(w, more, h), n)
  BY <1>2, <1>4, <1>5, RunCausal DEF At
<1>7. IsSeq(Inputs(w, l, ids), n) /\ IsSeq(Inputs(w, l, more), n + 1)
  BY <1>1, InputsAre
<1>8. /\ \A p \in 1 .. n : Inputs(w, l, ids)[p] = Entry(w, l, At(w, ids, h)[p])
      /\ \A p \in 1 .. (n + 1) : Inputs(w, l, more)[p] = Entry(w, l, At(w, more, h)[p])
  BY <1>1, InputsAre DEF h
<1>9. Agree(Inputs(w, l, ids), Inputs(w, l, more), n)
  BY <1>3, <1>6, <1>8 DEF Agree
<1>10. n + 1 \in 1 .. (n + 1)
  BY <1>1
<1> QED BY <1>7, <1>8, <1>9, <1>10 DEF Grown, h

\* What a prefill leaves.
LEMMA PrefillKeeps ==
  ASSUME NEW n, NEW ids, IsSeq(ids, n), NEW w, NEW l \in Nat \ {0}, NEW max \in Nat
  PROVE  CarryIs(Kept(w, l, Rows(w, ids), max), w, l, ids, 0, n, max)
<1> DEFINE e == Inputs(w, l, ids)
           c == Kept(w, l, Rows(w, ids), max)
<1>1. IsSeq(e, n) /\ n \in Nat
  BY InputsAre DEF IsSeq
<1>2. CASE Layers[l] = "gdn"
  <2>1. c = [conv |-> [side \in 0 .. 1 |-> IF side = 0 THEN LastInputs(Zeros \o e) ELSE Unwritten],
             state |-> Windows(e)]
    BY <1>2 DEF Kept, Inputs, At
  <2> HIDE DEF c, e
  <2>2. 0 % 2 = 0 /\ 0 \in 0 .. 1
    OBVIOUS
  <2>3. GdnIs(c, w, l, ids, 0)
    BY <2>1, <2>2 DEF GdnIs, e
  <2> QED BY <1>2, <2>3 DEF CarryIs, c
<1>3. CASE Layers[l] # "gdn"
  <2>1. c = [prefix |-> e, suffix |-> [s \in 0 .. max - 1 |-> Unwritten]]
    BY <1>3 DEF Kept, Inputs, At
  <2> HIDE DEF c, e
  <2>2. n - 0 = n /\ n + 0 = n
    BY <1>1
  <2>3. Followed(e, c.prefix, n, Written(c, 0), 0)
    BY <1>1, <2>1, <2>2 DEF Followed
  <2>4. AttentionIs(c, w, l, ids, 0, n, max)
    <3>1. \A s \in 0 .. max - 1 : c.suffix[s] = Unwritten /\ ~(s < 0)
      BY <2>1
    <3> QED BY <1>1, <2>1, <2>2, <2>3, <3>1 DEF AttentionIs, e
  <2> QED BY <1>3, <2>4 DEF CarryIs, c
<1> QED BY <1>2, <1>3

\* A delta net's step.
LEMMA GdnKeeps ==
  ASSUME NEW n \in Nat, NEW ids, NEW more, NEW id, Grown(more, ids, n, id), NEW w,
         NEW l \in Nat \ {0}, NEW slot \in Nat, NEW t, GdnIs(t.carry[l], w, l, ids, slot),
         t.resid = At(w, more, 2 * l - 2)[n + 1]
  PROVE  /\ GdnIs(Gdn(w, l, t, slot), w, l, more, slot + 1)
         /\ Gdn(w, l, t, slot).state = Windows(Inputs(w, l, more))
<1> DEFINE c == t.carry[l]
           side == slot % 2
           e == Inputs(w, l, ids)
           f == Inputs(w, l, more)
           x == Entry(w, l, t.resid)
           window == c.conv[side] \o <<x>>
           g == Gdn(w, l, t, slot)
<1>1. side \in 0 .. 1 /\ 1 - side \in 0 .. 1 /\ (slot + 1) % 2 = 1 - side
  OBVIOUS
<1>2. Grown(f, e, n, x)
  BY InputsGrow
<1>3. g = [c EXCEPT !.conv[1 - side] = LastInputs(window), !.state = Append(@, window)]
  BY DEF Gdn
<1>4. /\ c = [conv |-> c.conv, state |-> c.state] /\ c.conv = [s \in 0 .. 1 |-> c.conv[s]]
      /\ c.conv[side] = LastInputs(Zeros \o e) /\ c.state = Windows(e)
  BY DEF GdnIs
<1> HIDE DEF c, side, e, f, x, g
<1>5. LastInputs(window) = LastInputs(Zeros \o f) /\ Append(c.state, window) = Windows(f)
  <2> DEFINE u == LastInputs(Zeros \o e) \o <<x>>
  <2>1. LastInputs(u) = LastInputs(Zeros \o f) /\ Append(Windows(e), u) = Windows(f)
    BY <1>2, ConvStep
  <2>2. window = u
    BY <1>4
  <2> HIDE DEF u, window
  <2> QED BY <1>4, <2>1, <2>2
<1> HIDE DEF window
<1>6. g = [conv |-> [c.conv EXCEPT ![1 - side] = LastInputs(Zeros \o f)], state |-> Windows(f)]
  BY <1>3, <1>4, <1>5
<1>7. /\ g = [conv |-> g.conv, state |-> g.state] /\ g.conv = [s \in 0 .. 1 |-> g.conv[s]]
      /\ g.conv[1 - side] = LastInputs(Zeros \o f) /\ g.state = Windows(f)
  BY <1>1, <1>4, <1>6
<1> QED BY <1>1, <1>7 DEF GdnIs, f, g

\* An attention's step.
LEMMA AttentionKeeps ==
  ASSUME NEW n \in Nat, NEW ids, NEW more, NEW id, Grown(more, ids, n, id), NEW w,
         NEW l \in Nat \ {0}, w[l] \in Versions, NEW max \in Nat, NEW slot \in 0 .. (max - 1),
         NEW t, AttentionIs(t.carry[l], w, l, ids, slot, n, max), slot <= n,
         t.resid = At(w, more, 2 * l - 2)[n + 1]
  PROVE  /\ AttentionIs(Attention(w, l, t, slot), w, l, more, slot + 1, n + 1, max)
         /\ AttendsTo(Attention(w, l, t, slot), slot) = Inputs(w, l, more)
<1> DEFINE c == t.carry[l]
           e == Inputs(w, l, ids)
           f == Inputs(w, l, more)
           x == Entry(w, l, t.resid)
           g == Attention(w, l, t, slot)
           m == n - slot
<1>1. /\ slot \in Nat /\ m \in Nat /\ n + 1 \in Nat /\ slot + 1 \in Nat /\ (n + 1) - (slot + 1) = m
      /\ m + slot = n /\ m + (slot + 1) = n + 1
  OBVIOUS
<1>2. Grown(f, e, n, x)
  BY InputsGrow
<1>3. g = [c EXCEPT !.suffix[slot] = x]
  BY DEF Attention
<1>4. /\ c = [prefix |-> c.prefix, suffix |-> c.suffix]
      /\ c.suffix = [s \in 0 .. max - 1 |-> c.suffix[s]]
      /\ \A s \in 0 .. max - 1 : c.suffix[s] # Unwritten <=> s < slot
      /\ IsSeq(c.prefix, m) /\ Followed(e, c.prefix, m, Written(c, slot), slot)
  BY DEF AttentionIs
<1>5. x # Unwritten
  <2>1. x.w \in Versions /\ Unwritten.w = Relaxed - 1
    BY DEF x, Entry, Unwritten
  <2> QED BY <2>1 DEF Versions
<1> HIDE DEF c, e, f, x, g, m
<1>6. /\ g = [prefix |-> c.prefix, suffix |-> g.suffix] /\ g.prefix = c.prefix
      /\ g.suffix = [s \in 0 .. max - 1 |-> g.suffix[s]]
      /\ g.suffix[slot] = x /\ \A s \in 0 .. max - 1 : s # slot => g.suffix[s] = c.suffix[s]
  BY <1>3, <1>4
<1>7. \A s \in 0 .. max - 1 : g.suffix[s] # Unwritten <=> s < slot + 1
  <2>1. SUFFICES ASSUME NEW s \in 0 .. max - 1 PROVE g.suffix[s] # Unwritten <=> s < slot + 1
    OBVIOUS
  <2>2. CASE s = slot
    <3>1. s < slot + 1
      BY <1>1, <2>2
    <3>2. g.suffix[s] = x
      BY <1>6, <2>2
    <3> QED BY <1>5, <3>1, <3>2
  <2>3. CASE s # slot
    <3>1. s < slot <=> s < slot + 1
      BY <1>1, <2>3
    <3> QED BY <1>4, <1>6, <2>3, <3>1
  <2> QED BY <2>2, <2>3
<1>8. IsSeq(Written(g, slot + 1), slot + 1) /\ \A i \in 1 .. (slot + 1) : Written(g, slot + 1)[i] = g.suffix[i - 1]
  BY <1>1 DEF Written, IsSeq
<1>9. Followed(f, c.prefix, m, Written(g, slot + 1), slot + 1)
  <2>1. IsSeq(f, m + (slot + 1))
    BY <1>1, <1>2 DEF Grown
  <2>2. ASSUME NEW i \in 1 .. m PROVE f[i] = c.prefix[i]
    <3>1. i \in 1 .. n
      BY <1>1
    <3>2. f[i] = e[i]
      BY <1>2, <3>1 DEF Grown, Agree
    <3> QED BY <1>4, <3>2 DEF Followed
  <2>3. ASSUME NEW i \in 1 .. (slot + 1) PROVE f[m + i] = Written(g, slot + 1)[i]
    <3>1. CASE i = slot + 1
      <4>1. m + i = n + 1 /\ i - 1 = slot
        BY <1>1, <3>1
      <4> QED BY <1>2, <1>6, <1>8, <4>1 DEF Grown
    <3>2. CASE i # slot + 1
      <4>1. i \in 1 .. slot /\ m + i \in 1 .. n /\ i - 1 \in 0 .. max - 1 /\ i - 1 # slot
        BY <1>1, <3>2
      <4>2. f[m + i] = e[m + i]
        BY <1>2, <4>1 DEF Grown, Agree
      <4>3. e[m + i] = Written(c, slot)[i]
        BY <1>4, <4>1 DEF Followed
      <4>4. Written(c, slot)[i] = c.suffix[i - 1]
        BY <4>1 DEF Written
      <4> QED BY <1>6, <1>8, <4>1, <4>2, <4>3, <4>4
    <3> QED BY <3>1, <3>2
  <2> QED BY <2>1, <2>2, <2>3 DEF Followed
<1>10. AttentionIs(g, w, l, more, slot + 1, n + 1, max)
  BY <1>1, <1>4, <1>6, <1>7, <1>9 DEF AttentionIs, f
<1>11. AttendsTo(g, slot) = f
  <2> DEFINE p == c.prefix
             v == Written(g, slot + 1)
             s == p \o v
  <2>1. AttendsTo(g, slot) = s
    BY <1>6 DEF AttendsTo, Written
  <2>2. Followed(s, p, m, v, slot + 1)
    BY <1>4, <1>8, ConcatIs
  <2> HIDE DEF p, v, s
  <2>3. ASSUME NEW i \in 1 .. (n + 1) PROVE s[i] = f[i]
    <3>1. CASE i <= m
      <4>1. i \in 1 .. m
        BY <1>1, <3>1
      <4> QED BY <1>9, <2>2, <4>1 DEF Followed, p, v
    <3>2. CASE ~(i <= m)
      <4> DEFINE j == i - m
      <4>1. j \in 1 .. (slot + 1) /\ m + j = i
        BY <1>1, <3>2
      <4> HIDE DEF j
      <4>2. s[m + j] = v[j] /\ f[m + j] = v[j]
        BY <1>9, <2>2, <4>1 DEF Followed, p, v
      <4> QED BY <4>1, <4>2
    <3> QED BY <3>1, <3>2
  <2>4. IsSeq(s, n + 1) /\ IsSeq(f, n + 1)
    BY <1>1, <1>2, <2>2 DEF Followed, Grown
  <2> QED BY <2>1, <2>3, <2>4, SeqSame
<1> QED BY <1>10, <1>11 DEF f, g

-----------------------------------------------------------------------------
(* One token.                                                              *)

\* The decode session d is where a prefill of ids and its steps left it.
SessionIs(d, w, ids, n) ==
  /\ IsSeq(ids, n) /\ w \in [0 .. Depth -> Versions]
  /\ d.max_new \in Nat /\ d.decoded \in 0 .. d.max_new /\ d.decoded <= n
  /\ d.carry = [l \in 1 .. Depth |-> d.carry[l]]
  /\ \A l \in 1 .. Depth : CarryIs(d.carry[l], w, l, ids, d.decoded, n, d.max_new)

\* After h halves of the token that makes ids more: the residual and the deferred add
\* are the row of a run, and the layers that ran keep their state for more.
TokenIs(t, w, more, d, n, h) ==
  /\ t = [resid |-> t.resid, pending |-> t.pending, carry |-> t.carry]
  /\ t.resid \o t.pending = At(w, more, h)[n + 1]
  /\ t.carry = [l \in 1 .. Depth |-> t.carry[l]]
  /\ \A l \in 1 .. Depth :
       IF 2 * l - 1 <= h THEN CarryIs(t.carry[l], w, l, more, d.decoded + 1, n + 1, d.max_new)
       ELSE t.carry[l] = d.carry[l]

LEMMA LayerHalves ==
  ASSUME NEW h \in 1 .. Halves
  PROVE  /\ LayerOf(h) \in 1 .. Depth
         /\ h % 2 = 1 => h = 2 * LayerOf(h) - 1
         /\ h % 2 # 1 => h = 2 * LayerOf(h)
BY DepthIsNat DEF LayerOf, Halves

LEMMA OneMore ==
  ASSUME NEW m, NEW x, IsSeq(x, m), NEW e
  PROVE  x \o <<>> = x /\ x \o <<e>> = Append(x, e) /\ Append(x, e) \o <<>> = Append(x, e)
<1> DEFINE S == {x[i] : i \in 1 .. m} \cup {e}
<1>1. x \in Seq(S) /\ e \in S
  BY SeqOfValuesIn
<1> HIDE DEF S
<1> QED BY <1>1

LEMMA WholeSubSeq ==
  ASSUME NEW m, NEW s, IsSeq(s, m)
  PROVE  SubSeq(s, 1, m) = s
<1>1. s \in Seq({s[i] : i \in 1 .. m}) /\ Len(s) = m
  BY SeqOfItsValues
<1> DEFINE S == {s[i] : i \in 1 .. m}
<1> HIDE DEF S
<1>2. s \in Seq(S)
  BY <1>1 DEF S
<1> QED BY <1>1, <1>2

\* What the last row of a block gets from half h.
LEMMA LastRow ==
  ASSUME NEW n \in Nat, NEW more, IsSeq(more, n + 1), NEW w, NEW h \in Nat \ {0}
  PROVE  /\ IsSeq(At(w, more, h - 1)[n + 1], h)
         /\ At(w, more, h)[n + 1] =
              Append(At(w, more, h - 1)[n + 1],
                     IF h % 2 = 1 THEN Mixed(w, LayerOf(h), Seen(w, LayerOf(h), At(w, more, h - 1)))
                     ELSE Mlp(w, LayerOf(h), At(w, more, h - 1)[n + 1]))
<1> DEFINE g == h - 1
           r == At(w, more, g)
           s == Seen(w, LayerOf(h), r)
<1>1. g \in Nat /\ g + 1 = h /\ g >= 0 /\ n + 1 \in 1 .. (n + 1)
  OBVIOUS
<1>2. Block(r, n + 1, h)
  <2> HIDE DEF g
  <2> QED BY <1>1, AtIs
<1>3. At(w, more, h) = Half(w, r, h)
  <2> HIDE DEF g
  <2>1. Run(w, Rows(w, more), 0, g + 1) = Half(w, Run(w, Rows(w, more), 0, g), g + 1)
    BY <1>1, RunStep
  <2> QED BY <1>1, <2>1 DEF At
<1> HIDE DEF r
<1>4. Half(w, r, h)[n + 1] = Append(r[n + 1], Added(w, r, h, n + 1))
  BY <1>1, <1>2, HalfIs DEF Block
<1>5. SubSeq(s, 1, n + 1) = s
  BY <1>2, SeenIs, WholeSubSeq DEF Block
<1> HIDE DEF s
<1>6. Added(w, r, h, n + 1) = IF h % 2 = 1 THEN Mixed(w, LayerOf(h), s) ELSE Mlp(w, LayerOf(h), r[n + 1])
  BY <1>5 DEF Added, s
<1> QED BY <1>1, <1>2, <1>3, <1>4, <1>6 DEF Block, r, s

LEMMA TokenHalfKeeps ==
  ASSUME NEW n \in Nat, NEW ids, NEW more, NEW id, Grown(more, ids, n, id), NEW w,
         NEW d, SessionIs(d, w, ids, n), d.decoded < d.max_new,
         NEW h \in 1 .. Halves, NEW t0, TokenIs(t0, w, more, d, n, h - 1), NEW fused
  PROVE  TokenIs(TokenHalf(w, t0, h, d.decoded, fused), w, more, d, n, h)
<1> DEFINE l == LayerOf(h)
           slot == d.decoded
           max == d.max_new
           x == At(w, more, h - 1)[n + 1]
           t == NormResid(t0)
           c == IF Layers[l] = "gdn" THEN Gdn(w, l, t, slot) ELSE Attention(w, l, t, slot)
           seen == IF Layers[l] = "gdn" THEN c.state ELSE AttendsTo(c, slot)
           u == IF h % 2 = 1 THEN [t EXCEPT !.carry[l] = c] ELSE t
           add == IF h % 2 = 1 THEN Mixed(w, l, seen) ELSE Mlp(w, l, t.resid)
           v == TokenHalf(w, t0, h, slot, fused)
<1>1. /\ l \in 1 .. Depth /\ l \in Nat \ {0} /\ h \in Nat \ {0} /\ h - 1 \in Nat
      /\ h % 2 = 1 => h = 2 * l - 1 /\ h - 1 = 2 * l - 2
      /\ h % 2 # 1 => h = 2 * l
  BY LayerHalves, DepthIsNat
<1>2. /\ IsSeq(ids, n) /\ IsSeq(more, n + 1) /\ slot \in 0 .. (max - 1) /\ max \in Nat
      /\ slot <= n /\ slot \in Nat /\ w[l] \in Versions
  BY <1>1 DEF Grown, SessionIs
<1>3. /\ t0 = [resid |-> t0.resid, pending |-> t0.pending, carry |-> t0.carry]
      /\ t0.resid \o t0.pending = x
      /\ t0.carry = [k \in 1 .. Depth |-> t0.carry[k]]
      /\ \A k \in 1 .. Depth :
           IF 2 * k - 1 <= h - 1 THEN CarryIs(t0.carry[k], w, k, more, slot + 1, n + 1, max)
           ELSE t0.carry[k] = d.carry[k]
  BY DEF TokenIs
<1>4. IsSeq(x, h) /\ At(w, more, h)[n + 1] =
        Append(x, IF h % 2 = 1 THEN Mixed(w, l, Seen(w, l, At(w, more, h - 1))) ELSE Mlp(w, l, x))
  <2>1. h \in Nat \ {0} /\ IsSeq(more, n + 1)
    BY <1>1, <1>2
  <2>2. IsSeq(x, h)
    BY <2>1, LastRow
  <2>3. At(w, more, h)[n + 1] =
          Append(x, IF h % 2 = 1 THEN Mixed(w, l, Seen(w, l, At(w, more, h - 1))) ELSE Mlp(w, l, x))
    BY <2>1, LastRow
  <2> QED BY <2>2, <2>3
<1> HIDE DEF x, l, slot, max
<1>5. /\ t = [resid |-> x, pending |-> <<>>, carry |-> t0.carry]
      /\ t.resid = x /\ t.pending = <<>> /\ t.carry = t0.carry
  <2> DEFINE r == t0.resid
             p == t0.pending
             k == t0.carry
  <2>1. t0 = [resid |-> r, pending |-> p, carry |-> k] /\ r \o p = x
    BY <1>3
  <2>2. t = [t0 EXCEPT !.resid = r \o p, !.pending = <<>>]
    BY DEF NormResid
  <2>3. t = [t0 EXCEPT !.resid = x, !.pending = <<>>]
    BY <2>1, <2>2
  <2> HIDE DEF r, p, t, k
  <2>4. t = [resid |-> x, pending |-> <<>>, carry |-> k]
    BY <2>1, <2>3
  <2> QED BY <2>4 DEF k
<1> HIDE DEF t
<1>6. ASSUME h % 2 = 1
      PROVE  /\ CarryIs(c, w, l, more, slot + 1, n + 1, max)
             /\ seen = Seen(w, l, At(w, more, h - 1))
  <2>1. CarryIs(t.carry[l], w, l, ids, slot, n, max)
    <3>1. ~(2 * l - 1 <= h - 1)
      BY <1>1, <1>6
    <3> QED BY <1>1, <1>3, <1>5, <3>1 DEF SessionIs, slot, max
  <2>2. t.resid = At(w, more, 2 * l - 2)[n + 1]
    BY <1>1, <1>5, <1>6 DEF x
  <2>3. Inputs(w, l, more) = Entries(w, l, At(w, more, h - 1))
    BY <1>1, <1>6 DEF Inputs
  <2>4. CASE Layers[l] = "gdn"
    <3>1. GdnIs(t.carry[l], w, l, ids, slot)
      BY <2>1, <2>4 DEF CarryIs
    <3>2. /\ GdnIs(Gdn(w, l, t, slot), w, l, more, slot + 1)
          /\ Gdn(w, l, t, slot).state = Windows(Inputs(w, l, more))
      <4>1. l \in Nat \ {0} /\ slot \in Nat
        BY <1>1, <1>2
      <4>2. GdnIs(Gdn(w, l, t, slot), w, l, more, slot + 1)
        BY <4>1, <2>2, <3>1, GdnKeeps
      <4>3. Gdn(w, l, t, slot).state = Windows(Inputs(w, l, more))
        BY <4>1, <2>2, <3>1, GdnKeeps
      <4> QED BY <4>2, <4>3
    <3> QED BY <2>3, <2>4, <3>2 DEF CarryIs, Seen
  <2>5. CASE Layers[l] # "gdn"
    <3>1. AttentionIs(t.carry[l], w, l, ids, slot, n, max)
      BY <2>1, <2>5 DEF CarryIs
    <3>2. /\ AttentionIs(Attention(w, l, t, slot), w, l, more, slot + 1, n + 1, max)
          /\ AttendsTo(Attention(w, l, t, slot), slot) = Inputs(w, l, more)
      BY <1>1, <1>2, <2>2, <3>1, AttentionKeeps
    <3> QED BY <2>3, <2>5, <3>2 DEF CarryIs, Seen
  <2> QED BY <2>4, <2>5
<1>7. add = IF h % 2 = 1 THEN Mixed(w, l, Seen(w, l, At(w, more, h - 1))) ELSE Mlp(w, l, x)
  BY <1>5, <1>6
<1>8. v = ProjectResidual(u, add, fused)
  BY DEF TokenHalf, l, t
<1> HIDE DEF c, seen, add, v
<1>9. /\ u = [resid |-> x, pending |-> <<>>, carry |-> u.carry]
      /\ u.carry = IF h % 2 = 1 THEN [t0.carry EXCEPT ![l] = c] ELSE t0.carry
  BY <1>5
<1> HIDE DEF u
<1>10. /\ v = [resid |-> v.resid, pending |-> v.pending, carry |-> v.carry]
       /\ v.carry = u.carry /\ v.resid \o v.pending = Append(x, add)
  <2>1. x \o <<add>> = Append(x, add) /\ Append(x, add) \o <<>> = Append(x, add)
    BY <1>4, OneMore
  <2>2. CASE fused
    <3>1. v = [resid |-> x, pending |-> <<add>>, carry |-> u.carry]
      BY <1>8, <1>9, <2>2 DEF ProjectResidual
    <3> QED BY <2>1, <3>1
  <2>3. CASE ~fused
    <3>1. v = [resid |-> Append(x, add), pending |-> <<>>, carry |-> u.carry]
      <4> DEFINE k == u.carry
      <4>1. u = [resid |-> x, pending |-> <<>>, carry |-> k]
        BY <1>9
      <4>2. v = [u EXCEPT !.resid = Append(@, add)]
        BY <1>8, <2>3 DEF ProjectResidual
      <4> HIDE DEF k
      <4>3. v = [resid |-> Append(x, add), pending |-> <<>>, carry |-> k]
        BY <4>1, <4>2
      <4> QED BY <4>3 DEF k
    <3> QED BY <2>1, <3>1
  <2> QED BY <2>2, <2>3
<1>11. v.carry = [k \in 1 .. Depth |-> v.carry[k]]
  BY <1>3, <1>9, <1>10
<1>12. ASSUME NEW k \in 1 .. Depth
       PROVE  IF 2 * k - 1 <= h THEN CarryIs(v.carry[k], w, k, more, slot + 1, n + 1, max)
              ELSE v.carry[k] = d.carry[k]
  <2>1. k \in Nat /\ l \in Nat
    BY <1>1, DepthIsNat
  <2>2. CASE h % 2 = 1 /\ k = l
    <3>1. v.carry[k] = c /\ 2 * k - 1 <= h
      BY <1>1, <1>3, <1>9, <1>10, <2>2
    <3> QED BY <1>6, <2>2, <3>1
  <2>3. CASE ~(h % 2 = 1 /\ k = l)
    <3>1. v.carry[k] = t0.carry[k]
      BY <1>3, <1>9, <1>10, <2>3
    <3>2. 2 * k - 1 <= h <=> 2 * k - 1 <= h - 1
      BY <1>1, <2>1, <2>3
    <3> QED BY <1>3, <3>1, <3>2
  <2> QED BY <2>2, <2>3
<1> QED BY <1>4, <1>7, <1>10, <1>11, <1>12 DEF TokenIs, v, slot, max

\* The embedding of the token is its row before any layer.
LEMMA TokenBegins ==
  ASSUME NEW n \in Nat, NEW ids, NEW more, NEW id, Grown(more, ids, n, id), NEW w,
         NEW d, SessionIs(d, w, ids, n), NEW t,
         t = [resid |-> <<Embed(w, id)>>, pending |-> <<>>, carry |-> d.carry]
  PROVE  TokenIs(t, w, more, d, n, 0)
<1>1. <<Embed(w, id)>> \o <<>> = <<Embed(w, id)>>
  BY EmptyIs, OneMore
<1>2. At(w, more, 0)[n + 1] = <<Embed(w, id)>>
  <2>1. At(w, more, 0) = Rows(w, more)
    BY RunStart DEF At
  <2>2. n + 1 \in 1 .. (n + 1) /\ IsSeq(more, n + 1) /\ more[n + 1] = id
    BY DEF Grown
  <2>3. Rows(w, more)[n + 1] = <<Embed(w, more[n + 1])>>
    BY <2>2, RowsAre
  <2> QED BY <2>1, <2>2, <2>3
<1>3. \A l \in 1 .. Depth : ~(2 * l - 1 <= 0)
  BY DepthIsNat
<1>4. d.carry = [l \in 1 .. Depth |-> d.carry[l]]
  BY DEF SessionIs
<1> QED BY <1>1, <1>2, <1>3, <1>4 DEF TokenIs

\* The token's row is that of a whole forward, and the session is where a prefill of all
\* the tokens would have left it.
LEMMA TokenEnds ==
  ASSUME NEW ids \in Seq(Tokens), NEW id \in Tokens, NEW w, NEW d,
         SessionIs(d, w, ids, Len(ids)), d.decoded < d.max_new,
         NEW t, TokenIs(t, w, Append(ids, id), d, Len(ids), Halves),
         NEW d2, d2.carry = t.carry, d2.decoded = d.decoded + 1, d2.max_new = d.max_new
  PROVE  /\ SessionIs(d2, w, Append(ids, id), Len(ids) + 1)
         /\ TokenRow(w, t) = Forward(Append(ids, id), w, Depth)
<1> DEFINE n == Len(ids)
           more == Append(ids, id)
<1>1. n \in Nat /\ IsSeq(ids, n) /\ Len(more) = n + 1
  BY SeqIs
<1>2. Grown(more, ids, n, id)
  BY <1>1, AppendIs
<1> HIDE DEF n, more
<1>3. TokenIs(t, w, more, d, n, Halves)
  BY DEF n, more
<1>4. \A l \in 1 .. Depth : 2 * l - 1 <= Halves
  BY DepthIsNat DEF Halves
<1>5. \A l \in 1 .. Depth : CarryIs(t.carry[l], w, l, more, d.decoded + 1, n + 1, d.max_new)
  BY <1>3, <1>4 DEF TokenIs
<1>6. /\ w \in [0 .. Depth -> Versions] /\ d.max_new \in Nat
      /\ d.decoded \in 0 .. d.max_new /\ d.decoded <= n
  BY DEF SessionIs, n
<1>7. SessionIs(d2, w, more, n + 1)
  <2>1. IsSeq(more, n + 1)
    BY <1>2 DEF Grown
  <2>2. d.decoded + 1 \in 0 .. d.max_new /\ d.decoded + 1 <= n + 1
    BY <1>1, <1>6
  <2>3. t.carry = [l \in 1 .. Depth |-> t.carry[l]]
    BY <1>3 DEF TokenIs
  <2> QED BY <1>5, <1>6, <2>1, <2>2, <2>3 DEF SessionIs
<1>8. TokenRow(w, t) = Forward(more, w, Depth)
  <2>1. NormResid(t).resid = t.resid \o t.pending
    <3> DEFINE r == t.resid
               p == t.pending
               k == t.carry
               q == r \o p
    <3>1. t = [resid |-> r, pending |-> p, carry |-> k]
      BY <1>3 DEF TokenIs
    <3>2. NormResid(t) = [t EXCEPT !.resid = q, !.pending = <<>>]
      BY DEF NormResid
    <3> HIDE DEF r, p, k, q
    <3>3. NormResid(t).resid = q
      BY <3>1, <3>2
    <3> QED BY <3>3 DEF q, r, p
  <2>2. t.resid \o t.pending = At(w, more, Halves)[n + 1]
    BY <1>3 DEF TokenIs
  <2>3. Forward(more, w, Depth) = LmHead(w, At(w, more, Halves)[n + 1])
    BY <1>1 DEF Forward, At, Halves, more
  <2> QED BY <2>1, <2>2, <2>3 DEF TokenRow
<1> QED BY <1>7, <1>8 DEF n, more

\* A prefill starts a session.
LEMMA PrefillIs ==
  ASSUME NEW ids \in Seq(Tokens), NEW w \in [0 .. Depth -> Versions], NEW d, NEW max \in Nat,
         d.max_new = max, d.decoded = 0,
         d.carry = [l \in 1 .. Depth |-> Kept(w, l, Rows(w, ids), max)]
  PROVE  SessionIs(d, w, ids, Len(ids))
<1>1. Len(ids) \in Nat /\ IsSeq(ids, Len(ids)) /\ 0 \in 0 .. max /\ 0 <= Len(ids)
  BY SeqIs
<1>2. ASSUME NEW l \in 1 .. Depth PROVE CarryIs(d.carry[l], w, l, ids, 0, Len(ids), max)
  <2>1. l \in Nat \ {0}
    BY DepthIsNat
  <2>2. CarryIs(Kept(w, l, Rows(w, ids), max), w, l, ids, 0, Len(ids), max)
    BY <1>1, <2>1, PrefillKeeps
  <2> QED BY <2>2
<1> QED BY <1>1, <1>2 DEF SessionIs

-----------------------------------------------------------------------------
(* The invariant.                                                          *)

ModelInv ==
  /\ generation \in 0 .. MaxWrites /\ weights \in [0 .. Depth -> 0 .. generation]
  /\ relaxed \in BOOLEAN

\* A staged prefill that may go on holds what one run to its layer holds.
StagedInv ==
  staged # NoSession =>
    /\ staged = [ids |-> staged.ids, rows |-> staged.rows, next |-> staged.next,
                 since |-> staged.since, broken |-> staged.broken, moved |-> staged.moved]
    /\ staged.ids \in Prompts /\ DOMAIN staged.rows = DOMAIN staged.ids
    /\ staged.next \in 0 .. Depth /\ staged.since \in 0 .. generation
    /\ Usable(staged) /\ ~staged.moved =>
         staged.rows = Run(weights, Rows(weights, staged.ids), 0, 2 * staged.next)

\* A decode session keeps the state of its tokens, under the weights it began with.
DecodeInv ==
  decode # NoSession =>
    /\ decode = [ids |-> decode.ids, max_new |-> decode.max_new, decoded |-> decode.decoded,
                 broken |-> decode.broken, since |-> decode.since, fused |-> decode.fused,
                 carry |-> decode.carry]
    /\ decode.ids \in Seq(Tokens) /\ decode.max_new \in Nat
    /\ decode.decoded \in 0 .. decode.max_new /\ decode.since \in 0 .. generation
    /\ ~decode.broken => \E w : /\ SessionIs(decode, w, decode.ids, Len(decode.ids))
                                /\ decode.since = generation => w = weights

OneSession == staged = NoSession \/ decode = NoSession

Calls == {"step", "advance_to", "write_parameters", "write_parameter_host"}

\* A call in progress has answered nothing, and until it begins has moved nothing.
CallFrame ==
  at # NoCall =>
    /\ at = [op |-> at.op, arg |-> at.arg, begun |-> at.begun, half |-> at.half,
             resid |-> at.resid, pending |-> at.pending, was |-> at.was]
    /\ at.op \in Calls /\ at.begun \in BOOLEAN
    /\ out = [call |-> at.op, result |-> "running", row |-> None]
    /\ ~at.begun => Sessions = at.was

\* A step that has begun holds what a run over all the tokens holds after as many halves.
StepInv ==
  Running("step") =>
    /\ decode # NoSession /\ ~relaxed /\ decode.since = generation
    /\ at.arg \in Tokens /\ at.half \in 0 .. Halves /\ decode.decoded < decode.max_new
    /\ ~at.begun => ~decode.broken /\ at.half = 0 /\ at.pending = <<>>
    /\ at.begun =>
         /\ decode.broken = TRUE
         /\ \E d : /\ SessionIs(d, weights, decode.ids, Len(decode.ids))
                   /\ d.decoded = decode.decoded /\ d.max_new = decode.max_new
                   /\ TokenIs(InToken, weights, Append(decode.ids, at.arg), d,
                              Len(decode.ids), at.half)

\* An advance holds what one run of as many halves holds.
AdvanceInv ==
  Running("advance_to") =>
    /\ staged # NoSession /\ ~relaxed /\ staged.since = generation /\ staged.broken = TRUE
    /\ at.begun /\ at.arg \in staged.next .. Depth
    /\ at.half \in 2 * staged.next .. 2 * at.arg
    /\ ~staged.moved => staged.rows = Run(weights, Rows(weights, staged.ids), 0, at.half)

\* A write that has begun has ended every session.
WriteInv ==
  Writing =>
    /\ at.half \in 0 .. Depth + 1
    /\ at.begun => ~Usable(staged) /\ ~Usable(decode)
    /\ ~at.begun => generation < MaxWrites /\ at.half = 0

CallInv == CallFrame /\ StepInv /\ AdvanceInv /\ WriteInv

IInv == ModelInv /\ StagedInv /\ DecodeInv /\ OneSession /\ CallInv /\ StagedIsForward

\* One entry per token in each layer's state, and one suffix entry per step.
LEMMA KeptPerToken ==
  ASSUME NEW d, NEW w, NEW n, NEW ids, SessionIs(d, w, ids, n), NEW l \in 1 .. Depth
  PROVE  IF Layers[l] = "gdn" THEN Len(d.carry[l].state) = n
         ELSE \A s \in 0 .. d.max_new - 1 : d.carry[l].suffix[s] # Unwritten <=> s < d.decoded
<1>1. l \in Nat \ {0} /\ IsSeq(ids, n) /\ CarryIs(d.carry[l], w, l, ids, d.decoded, n, d.max_new)
  BY DepthIsNat DEF SessionIs
<1>2. CASE Layers[l] = "gdn"
  <2>1. IsSeq(Inputs(w, l, ids), n)
    BY <1>1, InputsAre
  <2>2. IsSeq(Windows(Inputs(w, l, ids)), n)
    BY <2>1, WindowsAre DEF Windowed
  <2>3. d.carry[l].state = Windows(Inputs(w, l, ids))
    BY <1>1, <1>2 DEF CarryIs, GdnIs
  <2> QED BY <1>2, <2>2, <2>3, SeqOfItsValues
<1>3. CASE Layers[l] # "gdn"
  BY <1>1, <1>3 DEF CarryIs, AttentionIs
<1> QED BY <1>2, <1>3

LEMMA InvariantTypes == IInv => TypeOK
<1>1. SUFFICES ASSUME IInv PROVE TypeOK
  OBVIOUS
<1>2. ASSUME decode # NoSession, ~decode.broken, NEW l \in 1 .. Depth
      PROVE  IF Layers[l] = "gdn" THEN Len(decode.carry[l].state) = Len(decode.ids)
             ELSE \A s \in 0 .. decode.max_new - 1 :
                    decode.carry[l].suffix[s] # Unwritten <=> s < decode.decoded
  <2>1. PICK w : SessionIs(decode, w, decode.ids, Len(decode.ids))
    BY <1>1, <1>2 DEF IInv, DecodeInv
  <2> QED BY <2>1, KeptPerToken
<1>3. /\ generation \in 0 .. MaxWrites /\ weights \in [0 .. Depth -> 0 .. generation]
      /\ relaxed \in BOOLEAN
  BY <1>1 DEF IInv, ModelInv
<1>4. staged # NoSession =>
        /\ staged.ids \in Prompts /\ DOMAIN staged.rows = DOMAIN staged.ids
        /\ staged.next \in 0 .. Depth /\ staged.since \in 0 .. generation
  BY <1>1 DEF IInv, StagedInv
<1>5. decode # NoSession =>
        /\ decode.ids \in Seq(Tokens) /\ decode.decoded \in 0 .. decode.max_new
        /\ decode.since \in 0 .. generation
  BY <1>1 DEF IInv, DecodeInv
<1>6. at # NoCall => at.half \in 0 .. Halves + 1
  <2>1. SUFFICES ASSUME at # NoCall PROVE at.half \in 0 .. Halves + 1
    OBVIOUS
  <2>2. at.op \in Calls /\ StepInv /\ AdvanceInv /\ WriteInv
    BY <1>1, <2>1 DEF IInv, CallInv, CallFrame
  <2>3. CASE at.op = "step"
    BY <2>1, <2>2, <2>3, DepthIsNat DEF StepInv, Running, Halves
  <2>4. CASE at.op = "advance_to"
    <3>1. /\ staged.next \in 0 .. Depth /\ at.arg \in staged.next .. Depth
          /\ at.half \in 2 * staged.next .. 2 * at.arg
      BY <1>4, <2>1, <2>2, <2>4 DEF AdvanceInv, Running
    <3> QED BY <3>1, DepthIsNat DEF Halves
  <2>5. CASE at.op \in {"write_parameters", "write_parameter_host"}
    <3>1. at.half \in 0 .. Depth + 1
      BY <2>1, <2>2, <2>5 DEF WriteInv, Writing, Running
    <3> QED BY <3>1, DepthIsNat DEF Halves
  <2> QED BY <2>2, <2>3, <2>4, <2>5 DEF Calls
<1> QED BY <1>2, <1>3, <1>4, <1>5, <1>6 DEF TypeOK

-----------------------------------------------------------------------------
(* What a call leaves alone keeps what is known of it.                     *)

LEMMA UsableIsSession ==
  ASSUME NEW s, Usable(s)
  PROVE  s # NoSession
BY DEF Usable, NoSession

LEMMA EffectiveIsWeights ==
  ASSUME ModelInv, ~relaxed
  PROVE  Effective = weights /\ weights \in [0 .. Depth -> Versions]
<1>1. weights \in [0 .. Depth -> 0 .. generation] /\ generation \in Nat
  BY SessionAssumption DEF ModelInv
<1>2. 0 .. generation \subseteq Versions
  BY <1>1 DEF Versions, Relaxed
<1> QED BY <1>1, <1>2 DEF Effective

\* How the weights may move: a new generation, and then their values while no session may be used.
WriteCounts ==
  \/ UNCHANGED <<weights, generation>>
  \/ generation' = generation + 1
  \/ UNCHANGED generation /\ ~Usable(staged) /\ ~Usable(decode)

LEMMA StagedRests ==
  ASSUME ModelInv, StagedInv, UNCHANGED staged, WriteCounts
  PROVE  StagedInv' /\ (generation' = generation + 1 => ~Usable(staged)')
<1>1. generation \in Nat
  BY SessionAssumption DEF ModelInv
<1>2. CASE UNCHANGED <<weights, generation>>
  <2>1. Usable(staged)' <=> Usable(staged)
    BY <1>2 DEF Usable
  <2>2. StagedInv'
    BY <1>2, <2>1 DEF StagedInv, NoSession
  <2>3. generation' # generation + 1
    BY <1>1, <1>2
  <2> QED BY <2>2, <2>3
<1>3. CASE generation' = generation + 1
  <2>1. ~Usable(staged)'
    <3>1. CASE staged = NoSession
      BY <3>1 DEF NoSession, Usable
    <3>2. CASE staged # NoSession
      <4>1. staged.since \in 0 .. generation
        BY <3>2 DEF StagedInv
      <4> QED BY <1>1, <1>3, <4>1 DEF Usable
    <3> QED BY <3>1, <3>2
  <2>2. staged # NoSession => staged.since \in 0 .. generation'
    BY <1>1, <1>3 DEF StagedInv
  <2> QED BY <2>1, <2>2 DEF StagedInv, NoSession
<1>4. CASE UNCHANGED generation /\ ~Usable(staged) /\ ~Usable(decode)
  <2>1. ~Usable(staged)' /\ generation' # generation + 1
    BY <1>1, <1>4 DEF Usable
  <2> QED BY <1>4, <2>1 DEF StagedInv, NoSession
<1> QED BY <1>2, <1>3, <1>4 DEF WriteCounts

LEMMA DecodeRests ==
  ASSUME ModelInv, DecodeInv, UNCHANGED decode, WriteCounts
  PROVE  DecodeInv' /\ (generation' = generation + 1 => ~Usable(decode)')
<1>1. generation \in Nat
  BY SessionAssumption DEF ModelInv
<1>2. CASE UNCHANGED <<weights, generation>>
  <2>1. DecodeInv'
    BY <1>2 DEF DecodeInv, NoSession
  <2>2. generation' # generation + 1
    BY <1>1, <1>2
  <2> QED BY <2>1, <2>2
<1>3. CASE generation' = generation + 1
  <2>1. decode # NoSession => decode.since \in 0 .. generation' /\ decode.since # generation'
    BY <1>1, <1>3 DEF DecodeInv
  <2>2. ~Usable(decode)'
    <3>1. CASE decode = NoSession
      BY <3>1 DEF NoSession, Usable
    <3>2. CASE decode # NoSession
      BY <2>1, <3>2 DEF Usable
    <3> QED BY <3>1, <3>2
  <2> QED BY <2>1, <2>2 DEF DecodeInv, NoSession
<1>4. CASE UNCHANGED generation /\ ~Usable(staged) /\ ~Usable(decode)
  <2>1. decode # NoSession /\ ~decode.broken => decode.since # generation'
    BY <1>4 DEF Usable
  <2>2. generation' # generation + 1
    BY <1>1, <1>4
  <2> QED BY <1>4, <2>1, <2>2 DEF DecodeInv, NoSession
<1> QED BY <1>2, <1>3, <1>4 DEF WriteCounts

\* A call that answers no logits has nothing to answer for there.
LEMMA NoLogits == out'.call # "logits" \/ out'.result # "row" => StagedIsForward'
BY DEF StagedIsForward

-----------------------------------------------------------------------------
(* The call in progress.                                                   *)

LEMMA CallOver == at' = NoCall => CallInv' /\ \A call : ~Running(call)'
BY DEF CallInv, CallFrame, StepInv, AdvanceInv, WriteInv, Writing, Running, NoCall

LEMMA NoneRuns == at = NoCall => \A call : ~Running(call)
BY DEF Running

\* The fields of the next call in progress.
NextCallIs(op, arg, begun, half, resid, pending, was) ==
  /\ at' # NoCall
  /\ at'.op = op /\ at'.arg = arg /\ at'.begun = begun /\ at'.half = half
  /\ at'.resid = resid /\ at'.pending = pending /\ at'.was = was
  /\ at' = [op |-> at'.op, arg |-> at'.arg, begun |-> at'.begun, half |-> at'.half,
            resid |-> at'.resid, pending |-> at'.pending, was |-> at'.was]

LEMMA NextCall ==
  ASSUME NEW op, NEW arg, NEW begun, NEW half, NEW resid, NEW pending, NEW was,
         at' = [op |-> op, arg |-> arg, begun |-> begun, half |-> half,
                resid |-> resid, pending |-> pending, was |-> was]
  PROVE  NextCallIs(op, arg, begun, half, resid, pending, was)
<1>1. at' # NoCall
  <2>1. "op" \in DOMAIN at' /\ "op" \notin DOMAIN NoCall
    BY DEF NoCall
  <2> QED BY <2>1
<1> QED BY <1>1 DEF NextCallIs

LEMMA EntersCall ==
  ASSUME NEW call, NEW arg, NEW begun, NEW half, Enters(call, arg, begun, half)
  PROVE  /\ NextCallIs(call, arg, begun, half, <<>>, <<>>, Sessions)
         /\ out' = [call |-> call, result |-> "running", row |-> None]
<1> DEFINE none == <<>>
           was == Sessions
<1>1. /\ at' = [op |-> call, arg |-> arg, begun |-> begun, half |-> half,
                resid |-> none, pending |-> none, was |-> was]
      /\ out' = [call |-> call, result |-> "running", row |-> None]
  BY DEF Enters
<1> HIDE DEF none, was
<1>2. NextCallIs(call, arg, begun, half, none, none, was)
  BY <1>1, NextCall
<1> QED BY <1>1, <1>2 DEF none, was

\* The fields of the call in progress.
CallIs(op, arg, begun, half, resid, pending, was) ==
  at = [op |-> op, arg |-> arg, begun |-> begun, half |-> half,
        resid |-> resid, pending |-> pending, was |-> was]

LEMMA CallFields ==
  ASSUME CallFrame, at # NoCall
  PROVE  CallIs(at.op, at.arg, at.begun, at.half, at.resid, at.pending, at.was)
BY DEF CallFrame, CallIs

\* The call goes on: what it is, what it was called with and what it found stay.
GoesOn(begun, half, resid, pending) ==
  NextCallIs(at.op, at.arg, begun, half, resid, pending, at.was)

LEMMA CallBegins ==
  ASSUME CallFrame, at # NoCall, NEW resid,
         at' = [at EXCEPT !.begun = TRUE, !.resid = resid] \/ (at' = [at EXCEPT !.begun = TRUE] /\ resid = at.resid)
  PROVE  GoesOn(TRUE, at.half, resid, at.pending)
<1> DEFINE op == at.op
           arg == at.arg
           begun == at.begun
           half == at.half
           old == at.resid
           pending == at.pending
           was == at.was
           now == TRUE
<1>1. at = [op |-> op, arg |-> arg, begun |-> begun, half |-> half,
            resid |-> old, pending |-> pending, was |-> was]
  BY CallFields DEF CallIs
<1>2. at' = [at EXCEPT !.begun = now, !.resid = resid] \/ (at' = [at EXCEPT !.begun = now] /\ resid = old)
  OBVIOUS
<1> HIDE DEF op, arg, begun, half, old, pending, was, now
<1>3. at' = [op |-> op, arg |-> arg, begun |-> now, half |-> half,
             resid |-> resid, pending |-> pending, was |-> was]
  BY <1>1, <1>2
<1>4. NextCallIs(op, arg, now, half, resid, pending, was)
  BY <1>3, NextCall
<1> QED BY <1>4 DEF GoesOn, op, arg, half, pending, was, now

LEMMA CallMoves ==
  ASSUME CallFrame, at # NoCall, NEW half, NEW resid, NEW pending,
         \/ at' = [at EXCEPT !.half = half, !.resid = resid, !.pending = pending]
         \/ at' = [at EXCEPT !.half = half] /\ resid = at.resid /\ pending = at.pending
  PROVE  GoesOn(at.begun, half, resid, pending)
<1> DEFINE op == at.op
           arg == at.arg
           begun == at.begun
           old == at.half
           oldresid == at.resid
           oldpending == at.pending
           was == at.was
<1>1. at = [op |-> op, arg |-> arg, begun |-> begun, half |-> old,
            resid |-> oldresid, pending |-> oldpending, was |-> was]
  BY CallFields DEF CallIs
<1>2. \/ at' = [at EXCEPT !.half = half, !.resid = resid, !.pending = pending]
      \/ at' = [at EXCEPT !.half = half] /\ resid = oldresid /\ pending = oldpending
  OBVIOUS
<1> HIDE DEF op, arg, begun, old, oldresid, oldpending, was
<1>3. at' = [op |-> op, arg |-> arg, begun |-> begun, half |-> half,
             resid |-> resid, pending |-> pending, was |-> was]
  BY <1>1, <1>2
<1>4. NextCallIs(op, arg, begun, half, resid, pending, was)
  BY <1>3, NextCall
<1> QED BY <1>4 DEF GoesOn, op, arg, begun, was

-----------------------------------------------------------------------------
(* The staged prefill.                                                     *)

NextStagedIs(ids, rows, next, since, broken, moved) ==
  /\ staged' # NoSession
  /\ staged'.ids = ids /\ staged'.rows = rows /\ staged'.next = next
  /\ staged'.since = since /\ staged'.broken = broken /\ staged'.moved = moved

LEMMA NextStaged ==
  ASSUME NEW ids \in Prompts, NEW rows, NEW next \in 0 .. Depth, NEW since \in 0 .. generation',
         NEW broken, NEW moved,
         staged' = [ids |-> ids, rows |-> rows, next |-> next, since |-> since,
                    broken |-> broken, moved |-> moved],
         DOMAIN rows = DOMAIN ids,
         ~broken /\ ~moved => rows = Run(weights', Rows(weights', ids), 0, 2 * next)
  PROVE  StagedInv' /\ NextStagedIs(ids, rows, next, since, broken, moved)
<1>1. staged' # NoSession
  <2>1. "ids" \in DOMAIN staged' /\ "ids" \notin DOMAIN NoSession
    BY DEF NoSession
  <2> QED BY <2>1
<1>2. NextStagedIs(ids, rows, next, since, broken, moved)
  BY <1>1 DEF NextStagedIs
<1>3. StagedInv'
  BY DEF StagedInv, Usable
<1> QED BY <1>2, <1>3

\* The fields of a staged prefill.
StagedAre(ids, rows, next, since, broken, moved) ==
  /\ ids \in Prompts /\ next \in 0 .. Depth /\ since \in 0 .. generation
  /\ staged = [ids |-> ids, rows |-> rows, next |-> next, since |-> since,
               broken |-> broken, moved |-> moved]
  /\ DOMAIN rows = DOMAIN ids
  /\ since = generation /\ ~broken /\ ~moved =>
       rows = Run(weights, Rows(weights, ids), 0, 2 * next)

LEMMA StagedFields ==
  ASSUME StagedInv, staged # NoSession
  PROVE  StagedAre(staged.ids, staged.rows, staged.next, staged.since, staged.broken, staged.moved)
BY DEF StagedInv, StagedAre, Usable

LEMMA BeginKeeps ==
  ASSUME ModelInv, StagedInv, NEW ids \in Prompts, ~relaxed, UNCHANGED <<weights, generation>>,
         staged' = [ids |-> ids, rows |-> Rows(weights, ids), next |-> 0, since |-> generation,
                    broken |-> FALSE, moved |-> FALSE]
  PROVE  StagedInv'
<1>1. 0 \in 0 .. Depth /\ generation \in 0 .. generation' /\ 2 * 0 = 0
  BY DepthIsNat, SessionAssumption DEF ModelInv
<1>2. DOMAIN Rows(weights, ids) = DOMAIN ids
  BY DEF Rows
<1>3. Rows(weights, ids) = Run(weights', Rows(weights', ids), 0, 2 * 0)
  BY <1>1, RunStart
<1> DEFINE rows == Rows(weights, ids)
           broken == FALSE
           moved == FALSE
<1>4. staged' = [ids |-> ids, rows |-> rows, next |-> 0, since |-> generation,
                 broken |-> broken, moved |-> moved]
  OBVIOUS
<1>5. DOMAIN rows = DOMAIN ids /\ rows = Run(weights', Rows(weights', ids), 0, 2 * 0)
  BY <1>2, <1>3
<1> HIDE DEF rows, broken, moved
<1> QED BY <1>1, <1>4, <1>5, NextStaged

\* What an advance in progress must hold.
LEMMA AdvanceStands ==
  ASSUME NEW layer, NEW half, NEW resid, NEW pending, NEW was,
         NextCallIs("advance_to", layer, TRUE, half, resid, pending, was),
         out' = [call |-> "advance_to", result |-> "running", row |-> None],
         NEW ids, NEW rows, NEW next, NEW moved,
         NextStagedIs(ids, rows, next, generation', TRUE, moved), ~relaxed',
         layer \in next .. Depth, half \in 2 * next .. 2 * layer,
         ~moved => rows = Run(weights', Rows(weights', ids), 0, half)
  PROVE  CallInv'
<1>1. Running("advance_to")' /\ ~Running("step")' /\ ~Writing'
  BY DEF NextCallIs, Running, Writing, NoCall
<1>2. CallFrame'
  BY DEF NextCallIs, CallFrame, Calls, NoCall
<1>3. AdvanceInv'
  BY <1>1 DEF AdvanceInv, NextCallIs, NextStagedIs, NoSession
<1> QED BY <1>1, <1>2, <1>3 DEF CallInv, StepInv, WriteInv

LEMMA AdvanceBegins ==
  ASSUME ModelInv, StagedInv, NEW layer, CanAdvance(layer), layer > staged.next,
         staged' = [staged EXCEPT !.broken = TRUE],
         Enters("advance_to", layer, TRUE, 2 * staged.next),
         UNCHANGED <<weights, generation, relaxed>>
  PROVE  StagedInv' /\ CallInv' /\ staged # NoSession
<1> DEFINE ids == staged.ids
           rows == staged.rows
           next == staged.next
           since == staged.since
           broken == staged.broken
           moved == staged.moved
           broke == TRUE
           half == 2 * staged.next
<1>1. staged # NoSession /\ ~broken /\ since = generation /\ ~relaxed /\ layer \in next .. Depth
  BY UsableIsSession DEF CanAdvance, Usable
<1>2. StagedAre(ids, rows, next, since, broken, moved)
  BY <1>1, StagedFields
<1>3. staged' = [staged EXCEPT !.broken = broke] /\ half = 2 * next /\ broke
  OBVIOUS
<1>4. /\ NextCallIs("advance_to", layer, TRUE, half, <<>>, <<>>, Sessions)
      /\ out' = [call |-> "advance_to", result |-> "running", row |-> None]
  BY EntersCall
<1>5. broke = TRUE
  OBVIOUS
<1> HIDE DEF ids, rows, next, since, broken, moved, broke, half
<1>6. staged' = [ids |-> ids, rows |-> rows, next |-> next, since |-> since,
                 broken |-> broke, moved |-> moved]
  BY <1>2, <1>3 DEF StagedAre
<1>7. StagedInv' /\ NextStagedIs(ids, rows, next, since, broke, moved)
  BY <1>2, <1>3, <1>6, NextStaged DEF StagedAre
<1>8. half \in 2 * next .. 2 * layer
  BY <1>1, <1>2, <1>3, DepthIsNat DEF StagedAre
<1>9. ~moved => rows = Run(weights', Rows(weights', ids), 0, half)
  BY <1>1, <1>2, <1>3 DEF StagedAre
<1>10. NextStagedIs(ids, rows, next, generation', TRUE, moved) /\ ~relaxed'
  BY <1>1, <1>5, <1>7
<1>11. CallInv'
  BY <1>1, <1>4, <1>8, <1>9, <1>10, AdvanceStands
<1> QED BY <1>1, <1>7, <1>11

LEMMA AdvanceHalfKeeps ==
  ASSUME ModelInv, StagedInv, CallInv, AdvanceHalf
  PROVE  StagedInv' /\ CallInv'
<1> DEFINE ids == staged.ids
           rows == staged.rows
           next == staged.next
           since == staged.since
           broken == staged.broken
           moved == staged.moved
           layer == at.arg
           half == at.half
           r == Half(weights, staged.rows, at.half + 1)
           more == at.half + 1
<1>1. /\ Running("advance_to") /\ at # NoCall /\ at.op = "advance_to" /\ half < 2 * layer
      /\ UNCHANGED <<weights, generation, relaxed, decode, out>>
  BY DEF AdvanceHalf, Running
<1>2. /\ staged # NoSession /\ ~relaxed /\ since = generation /\ broken = TRUE /\ at.begun = TRUE
      /\ layer \in next .. Depth /\ half \in 2 * next .. 2 * layer
      /\ ~moved => rows = Run(weights, Rows(weights, ids), 0, half)
  BY <1>1 DEF CallInv, AdvanceInv, CallFrame
<1>3. StagedAre(ids, rows, next, since, broken, moved)
  BY <1>2, StagedFields
<1>4. Effective = weights
  BY <1>2, EffectiveIsWeights
<1>5. staged' = [staged EXCEPT !.rows = r] /\ at' = [at EXCEPT !.half = more]
  BY <1>4 DEF AdvanceHalf
<1>6. NextCallIs("advance_to", layer, TRUE, more, at.resid, at.pending, at.was)
  <2>1. GoesOn(at.begun, more, at.resid, at.pending)
    <3> HIDE DEF more
    <3> QED BY <1>1, <1>5, CallMoves DEF CallInv
  <2> QED BY <1>1, <1>2, <2>1 DEF GoesOn
<1>7. out' = [call |-> "advance_to", result |-> "running", row |-> None]
  BY <1>1 DEF CallInv, CallFrame
<1>8. r = Half(weights, rows, half + 1) /\ more = half + 1
  OBVIOUS
<1> HIDE DEF ids, rows, next, since, broken, moved, layer, half, r, more
<1>9. staged' = [ids |-> ids, rows |-> r, next |-> next, since |-> since,
                 broken |-> broken, moved |-> moved]
  BY <1>3, <1>5 DEF StagedAre
<1>10. DOMAIN r = DOMAIN ids /\ since \in 0 .. generation'
  BY <1>1, <1>3, <1>8 DEF StagedAre, Half
<1>11. StagedInv' /\ NextStagedIs(ids, r, next, since, broken, moved)
  BY <1>2, <1>3, <1>9, <1>10, NextStaged DEF StagedAre
<1>12. next \in Nat /\ half \in Nat /\ more \in 2 * next .. 2 * layer
  BY <1>1, <1>2, <1>3, <1>8, DepthIsNat DEF StagedAre
<1>13. ~moved => r = Run(weights', Rows(weights', ids), 0, more)
  <2>1. Run(weights, Rows(weights, ids), 0, half + 1)
          = Half(weights, Run(weights, Rows(weights, ids), 0, half), half + 1)
    <3>1. half >= 0 /\ 0 \in Nat
      BY <1>12
    <3> QED BY <1>12, <3>1, RunStep
  <2> QED BY <1>1, <1>2, <1>8, <2>1
<1>14. NextStagedIs(ids, r, next, generation', TRUE, moved) /\ ~relaxed'
  BY <1>1, <1>2, <1>11 DEF NextStagedIs
<1> QED BY <1>1, <1>2, <1>6, <1>7, <1>11, <1>12, <1>13, <1>14, AdvanceStands

LEMMA AdvanceReturnsKeeps ==
  ASSUME ModelInv, StagedInv, CallInv, AdvanceReturns
  PROVE  StagedInv'
<1> DEFINE ids == staged.ids
           rows == staged.rows
           next == staged.next
           since == staged.since
           broken == staged.broken
           moved == staged.moved
           layer == at.arg
           half == at.half
           mended == FALSE
<1>1. /\ Running("advance_to") /\ half = 2 * layer /\ UNCHANGED <<weights, generation>>
      /\ staged' = [staged EXCEPT !.next = layer, !.broken = mended]
  BY DEF AdvanceReturns
<1>2. /\ staged # NoSession /\ since = generation /\ layer \in next .. Depth
      /\ ~moved => rows = Run(weights, Rows(weights, ids), 0, half)
  BY <1>1 DEF CallInv, AdvanceInv
<1>3. StagedAre(ids, rows, next, since, broken, moved)
  BY <1>2, StagedFields
<1> HIDE DEF ids, rows, next, since, broken, moved, layer, half, mended
<1>4. staged' = [ids |-> ids, rows |-> rows, next |-> layer, since |-> since,
                 broken |-> mended, moved |-> moved]
  BY <1>1, <1>3 DEF StagedAre
<1>5. layer \in 0 .. Depth /\ since \in 0 .. generation'
  BY <1>1, <1>2, <1>3, DepthIsNat DEF StagedAre
<1>6. ~moved => rows = Run(weights', Rows(weights', ids), 0, 2 * layer)
  BY <1>1, <1>2
<1> QED BY <1>3, <1>4, <1>5, <1>6, NextStaged DEF StagedAre

LEMMA EncodePartKeeps ==
  ASSUME ModelInv, StagedInv, NEW h, EncodePart(h)
  PROVE  StagedInv' /\ staged # NoSession
<1> DEFINE ids == staged.ids
           rows == staged.rows
           next == staged.next
           since == staged.since
           broken == staged.broken
           moved == staged.moved
           move == TRUE
<1>1. Usable(staged) /\ UNCHANGED <<weights, generation>> /\ staged # NoSession
  BY UsableIsSession DEF EncodePart
<1>2. PICK r : staged' = [staged EXCEPT !.rows = r, !.moved = move] /\ DOMAIN r = DOMAIN rows
  BY DEF EncodePart, Half
<1>3. StagedAre(ids, rows, next, since, broken, moved)
  BY <1>1, StagedFields
<1>4. move
  OBVIOUS
<1> HIDE DEF ids, rows, next, since, broken, moved, move
<1>5. staged' = [ids |-> ids, rows |-> r, next |-> next, since |-> since,
                 broken |-> broken, moved |-> move]
  BY <1>2, <1>3 DEF StagedAre
<1>6. DOMAIN r = DOMAIN ids /\ since \in 0 .. generation'
  BY <1>1, <1>2, <1>3 DEF StagedAre
<1> QED BY <1>1, <1>3, <1>4, <1>5, <1>6, NextStaged DEF StagedAre

LEMMA LogitsAnswer ==
  ASSUME ModelInv, StagedInv, Logits, out'.result = "row"
  PROVE  StagedIsForward'
<1>1. /\ Usable(staged) /\ Effective = weights /\ UNCHANGED <<weights, staged>>
      /\ out' = [call |-> "logits", result |-> "row",
                 row |-> LmHead(weights, staged.rows[Len(staged.ids)])]
  BY EffectiveIsWeights DEF Logits, Answers, Fails, Returns, Ends
<1>2. ~staged.moved => staged.rows = Run(weights, Rows(weights, staged.ids), 0, 2 * staged.next)
  BY <1>1, UsableIsSession DEF StagedInv
<1> QED BY <1>1, <1>2 DEF StagedIsForward, Forward

-----------------------------------------------------------------------------
(* The decode session.                                                     *)

NextDecodeIs(ids, max, decoded, broken, since, fused, carry) ==
  /\ decode' # NoSession
  /\ decode'.ids = ids /\ decode'.max_new = max /\ decode'.decoded = decoded
  /\ decode'.broken = broken /\ decode'.since = since /\ decode'.fused = fused
  /\ decode'.carry = carry

LEMMA NextDecode ==
  ASSUME NEW ids \in Seq(Tokens), NEW max \in Nat, NEW decoded \in 0 .. max, NEW broken,
         NEW since \in 0 .. generation', NEW fused, NEW carry,
         decode' = [ids |-> ids, max_new |-> max, decoded |-> decoded, broken |-> broken,
                    since |-> since, fused |-> fused, carry |-> carry],
         ~broken => \E w : /\ SessionIs(decode', w, ids, Len(ids))
                           /\ since = generation' => w = weights'
  PROVE  DecodeInv' /\ NextDecodeIs(ids, max, decoded, broken, since, fused, carry)
<1>1. decode' # NoSession
  <2>1. "ids" \in DOMAIN decode' /\ "ids" \notin DOMAIN NoSession
    BY DEF NoSession
  <2> QED BY <2>1
<1>2. NextDecodeIs(ids, max, decoded, broken, since, fused, carry)
  BY <1>1 DEF NextDecodeIs
<1>3. DecodeInv'
  BY <1>1 DEF DecodeInv
<1> QED BY <1>2, <1>3

\* The fields of a decode session.
DecodeIs(ids, max, decoded, broken, since, fused, carry) ==
  /\ ids \in Seq(Tokens) /\ max \in Nat /\ decoded \in 0 .. max /\ since \in 0 .. generation
  /\ decode = [ids |-> ids, max_new |-> max, decoded |-> decoded, broken |-> broken,
               since |-> since, fused |-> fused, carry |-> carry]
  /\ ~broken => \E w : SessionIs(decode, w, ids, Len(ids)) /\ (since = generation => w = weights)

LEMMA DecodeFields ==
  ASSUME DecodeInv, decode # NoSession
  PROVE  DecodeIs(decode.ids, decode.max_new, decode.decoded, decode.broken, decode.since,
                  decode.fused, decode.carry)
BY DEF DecodeInv, DecodeIs

\* What a session of a layer's carry says of one with the same carry and counts.
LEMMA SessionCopied ==
  ASSUME NEW d, NEW d2, NEW w, NEW ids, NEW n, SessionIs(d, w, ids, n),
         d2.carry = d.carry, d2.max_new = d.max_new, d2.decoded = d.decoded
  PROVE  SessionIs(d2, w, ids, n)
BY DEF SessionIs

\* A prefill answers with the row of a whole forward and starts a session.
LEMMA PrefillAnswers ==
  ASSUME ModelInv, NEW ids \in Prompts, NEW max \in MaxNews, Prefill(ids, max), ~Fails("prefill")
  PROVE  /\ DecodeInv' /\ decode' # NoSession /\ Usable(decode)' /\ at' = NoCall
         /\ decode'.ids = ids /\ decode'.max_new - decode'.decoded = max
         /\ out' = [call |-> "prefill", result |-> "row", row |-> Forward(ids, weights, Depth)]
         /\ UNCHANGED <<weights, generation, relaxed, staged>> /\ staged = NoSession
<1>1. ~relaxed
  BY DEF Prefill
<1>2. Effective = weights /\ weights \in [0 .. Depth -> Versions]
  BY <1>1, EffectiveIsWeights
<1> DEFINE broken == FALSE
           since == generation
           decoded == 0
           carry == [l \in 1 .. Depth |-> Kept(weights, l, Rows(weights, ids), max)]
<1>3. /\ UNCHANGED <<weights, generation, relaxed, staged>> /\ staged = NoSession /\ at' = NoCall
      /\ out' = [call |-> "prefill", result |-> "row", row |-> Forward(ids, weights, Depth)]
  BY <1>2 DEF Prefill, Answers, Ends, Forward, Halves
<1>4. PICK fused \in BOOLEAN :
        decode' = [ids |-> ids, max_new |-> max, decoded |-> 0, broken |-> FALSE,
                   since |-> generation, fused |-> fused, carry |-> carry]
  BY <1>2 DEF Prefill
<1>5. /\ ids \in Seq(Tokens) /\ max \in Nat /\ 0 \in 0 .. max /\ generation \in 0 .. generation'
      /\ generation \in Nat
  BY <1>3, SessionAssumption DEF ModelInv
<1>6. SessionIs(decode', weights, ids, Len(ids))
  <2>1. decode'.max_new = max /\ decode'.decoded = 0 /\ decode'.carry = carry
    BY <1>4
  <2> QED BY <1>2, <1>5, <2>1, PrefillIs
<1>7. DecodeInv' /\ decode' # NoSession
  <2>1. decode' = [ids |-> ids, max_new |-> max, decoded |-> decoded, broken |-> broken,
                   since |-> since, fused |-> fused, carry |-> carry]
    BY <1>4
  <2>2. ~broken => \E w : /\ SessionIs(decode', w, ids, Len(ids))
                          /\ since = generation' => w = weights'
    BY <1>3, <1>6
  <2>3. decoded \in 0 .. max /\ since \in 0 .. generation'
    BY <1>5
  <2> HIDE DEF broken, since, decoded, carry
  <2>4. DecodeInv' /\ NextDecodeIs(ids, max, decoded, broken, since, fused, carry)
    BY <1>5, <2>1, <2>2, <2>3, NextDecode
  <2> QED BY <2>4 DEF NextDecodeIs
<1>8. /\ Usable(decode)' /\ decode'.ids = ids /\ decode'.max_new - decode'.decoded = max
  <2>1. /\ decode'.broken = FALSE /\ decode'.since = generation /\ decode'.ids = ids
        /\ decode'.max_new = max /\ decode'.decoded = 0
    BY <1>4
  <2> QED BY <1>3, <1>5, <2>1 DEF Usable
<1> QED BY <1>3, <1>7, <1>8

\* A step goes in.
LEMMA StepEnters ==
  ASSUME ModelInv, DecodeInv, NEW id \in Tokens, CanStep, Enters("step", id, FALSE, 0),
         UNCHANGED <<weights, generation, relaxed, staged, decode>>
  PROVE  CallInv' /\ decode # NoSession /\ ~(Running("step") /\ at.begun)'
<1>1. /\ NextCallIs("step", id, FALSE, 0, <<>>, <<>>, Sessions)
      /\ out' = [call |-> "step", result |-> "running", row |-> None]
  BY EntersCall
<1>2. /\ ~relaxed /\ decode # NoSession /\ ~decode.broken
      /\ decode.since = generation /\ decode.decoded < decode.max_new
  BY UsableIsSession DEF CanStep, Usable
<1>3. Running("step")' /\ ~Running("advance_to")' /\ ~Writing'
  BY <1>1 DEF NextCallIs, Running, Writing, NoCall
<1>4. CallFrame'
  BY <1>1 DEF NextCallIs, CallFrame, Calls, NoCall, Sessions
<1>5. 0 \in 0 .. Halves
  BY DepthIsNat DEF Halves
<1>6. at'.arg = id /\ at'.half = 0 /\ at'.begun = FALSE /\ at'.pending = <<>>
  BY <1>1 DEF NextCallIs
<1>7. StepInv'
  BY <1>2, <1>5, <1>6 DEF StepInv, NoSession
<1>8. AdvanceInv' /\ WriteInv'
  BY <1>3 DEF AdvanceInv, WriteInv
<1> QED BY <1>2, <1>4, <1>6, <1>7, <1>8 DEF CallInv

\* What a step in progress that has begun must hold.
LEMMA StepStands ==
  ASSUME NEW id \in Tokens, NEW half \in 0 .. Halves, NEW resid, NEW pending, NEW was,
         NextCallIs("step", id, TRUE, half, resid, pending, was),
         out' = [call |-> "step", result |-> "running", row |-> None],
         NEW ids, NEW max, NEW decoded, NEW fused, NEW carry,
         NextDecodeIs(ids, max, decoded, TRUE, generation', fused, carry), ~relaxed',
         decoded < max,
         NEW d, SessionIs(d, weights', ids, Len(ids)), d.decoded = decoded, d.max_new = max,
         TokenIs([resid |-> resid, pending |-> pending, carry |-> carry], weights',
                 Append(ids, id), d, Len(ids), half)
  PROVE  CallInv' /\ (Running("step") /\ at.begun)'
<1>1. Running("step")' /\ ~Running("advance_to")' /\ ~Writing' /\ at'.begun = TRUE
  BY DEF NextCallIs, Running, Writing, NoCall
<1>2. CallFrame'
  BY DEF NextCallIs, CallFrame, Calls, NoCall
<1>3. InToken' = [resid |-> resid, pending |-> pending, carry |-> carry]
  BY DEF InToken, NextCallIs, NextDecodeIs
<1>4. /\ decode' # NoSession /\ decode'.since = generation' /\ decode'.broken = TRUE
      /\ decode'.ids = ids /\ decode'.decoded = decoded /\ decode'.max_new = max
      /\ at'.arg = id /\ at'.half = half
  BY DEF NextDecodeIs, NextCallIs
<1>5. \E e : /\ SessionIs(e, weights', decode'.ids, Len(decode'.ids))
             /\ e.decoded = decode'.decoded /\ e.max_new = decode'.max_new
             /\ TokenIs(InToken', weights', Append(decode'.ids, at'.arg), e,
                        Len(decode'.ids), at'.half)
  BY <1>3, <1>4
<1>6. StepInv'
  BY <1>1, <1>4, <1>5 DEF StepInv, NoSession
<1> QED BY <1>1, <1>2, <1>6 DEF CallInv, AdvanceInv, WriteInv

LEMMA StepBeginsKeeps ==
  ASSUME ModelInv, DecodeInv, CallInv, StepBegins
  PROVE  /\ DecodeInv' /\ CallInv' /\ decode # NoSession /\ decode' # NoSession
         /\ Usable(decode) /\ (Running("step") /\ at.begun)'
         /\ decode'.ids = decode.ids /\ decode'.max_new = decode.max_new
         /\ decode'.decoded = decode.decoded
<1> DEFINE ids == decode.ids
           max == decode.max_new
           decoded == decode.decoded
           broken == decode.broken
           since == decode.since
           fused == decode.fused
           carry == decode.carry
           id == at.arg
           broke == TRUE
           resid == <<Embed(weights, at.arg)>>
           none == <<>>
<1>1. /\ Running("step") /\ at # NoCall /\ at.op = "step" /\ ~at.begun
      /\ UNCHANGED <<weights, generation, relaxed, staged, out>>
  BY DEF StepBegins, Running
<1>2. /\ decode # NoSession /\ ~relaxed /\ since = generation /\ id \in Tokens
      /\ decoded < max /\ ~broken /\ at.half = 0 /\ at.pending = none
  BY <1>1 DEF CallInv, StepInv
<1>3. DecodeIs(ids, max, decoded, broken, since, fused, carry)
  BY <1>2, DecodeFields
<1>4. Effective = weights
  BY <1>2, EffectiveIsWeights
<1>5. at' = [at EXCEPT !.begun = TRUE, !.resid = resid] /\ decode' = [decode EXCEPT !.broken = broke]
  BY <1>4 DEF StepBegins
<1>6. NextCallIs("step", id, TRUE, 0, resid, none, at.was)
  <2>1. GoesOn(TRUE, at.half, resid, at.pending)
    <3> HIDE DEF resid
    <3> QED BY <1>1, <1>5, CallBegins DEF CallInv
  <2> QED BY <1>1, <1>2, <2>1 DEF GoesOn
<1>7. out' = [call |-> "step", result |-> "running", row |-> None]
  BY <1>1 DEF CallInv, CallFrame
<1>8. SessionIs(decode, weights, ids, Len(ids)) /\ decode.carry = carry
  BY <1>2, <1>3 DEF DecodeIs
<1>9. resid = <<Embed(weights, id)>> /\ broke = TRUE /\ decode.decoded = decoded /\ decode.max_new = max
  OBVIOUS
<1>10. Usable(decode)
  BY <1>2 DEF Usable
<1> HIDE DEF ids, max, decoded, broken, since, fused, carry, id, broke, resid, none
<1>11. decode' = [ids |-> ids, max_new |-> max, decoded |-> decoded, broken |-> broke,
                  since |-> since, fused |-> fused, carry |-> carry]
  BY <1>3, <1>5 DEF DecodeIs
<1>12. DecodeInv' /\ NextDecodeIs(ids, max, decoded, broke, since, fused, carry)
  BY <1>1, <1>3, <1>9, <1>11, NextDecode DEF DecodeIs
<1>13. TokenIs([resid |-> resid, pending |-> none, carry |-> carry], weights, Append(ids, id),
               decode, Len(ids), 0)
  <2>1. Len(ids) \in Nat /\ Grown(Append(ids, id), ids, Len(ids), id)
    BY <1>3, SeqIs, AppendIs DEF DecodeIs
  <2> DEFINE t == [resid |-> resid, pending |-> none, carry |-> carry]
  <2>2. t = [resid |-> <<Embed(weights, id)>>, pending |-> <<>>, carry |-> decode.carry]
    BY <1>8, <1>9 DEF none
  <2> HIDE DEF t
  <2>3. TokenIs(t, weights, Append(ids, id), decode, Len(ids), 0)
    BY <1>8, <2>1, <2>2, TokenBegins
  <2> QED BY <2>3 DEF t
<1>14. NextDecodeIs(ids, max, decoded, TRUE, generation', fused, carry) /\ ~relaxed'
  BY <1>1, <1>2, <1>9, <1>12
<1>15. 0 \in 0 .. Halves
  BY DepthIsNat DEF Halves
<1>16. CallInv' /\ (Running("step") /\ at.begun)'
  BY <1>1, <1>2, <1>6, <1>7, <1>8, <1>9, <1>13, <1>14, <1>15, StepStands
<1> QED BY <1>2, <1>10, <1>12, <1>16 DEF NextDecodeIs, ids, max, decoded

LEMMA StepHalfKeeps ==
  ASSUME ModelInv, DecodeInv, CallInv, StepHalf
  PROVE  /\ DecodeInv' /\ CallInv' /\ decode # NoSession /\ decode' # NoSession
         /\ Running("step") /\ at.begun /\ (Running("step") /\ at.begun)'
         /\ decode'.ids = decode.ids /\ decode'.max_new = decode.max_new
         /\ decode'.decoded = decode.decoded
<1> DEFINE ids == decode.ids
           max == decode.max_new
           decoded == decode.decoded
           broken == decode.broken
           since == decode.since
           fused == decode.fused
           id == at.arg
           half == at.half
           more == at.half + 1
           t == TokenHalf(weights, InToken, at.half + 1, decode.decoded, decode.fused)
           resid == t.resid
           pending == t.pending
           carry == t.carry
           n == Len(decode.ids)
<1>1. /\ Running("step") /\ at # NoCall /\ at.op = "step" /\ at.begun /\ half < Halves
      /\ UNCHANGED <<weights, generation, relaxed, staged, out>>
  BY DEF StepHalf, Running
<1>2. /\ decode # NoSession /\ ~relaxed /\ since = generation /\ id \in Tokens
      /\ decoded < max /\ broken = TRUE /\ half \in 0 .. Halves /\ at.begun = TRUE
  BY <1>1 DEF CallInv, StepInv, CallFrame
<1>3. PICK d : /\ SessionIs(d, weights, ids, n) /\ d.decoded = decoded /\ d.max_new = max
               /\ TokenIs(InToken, weights, Append(ids, id), d, n, half)
  BY <1>1 DEF CallInv, StepInv
<1>4. DecodeIs(ids, max, decoded, broken, since, fused, decode.carry)
  BY <1>2, DecodeFields
<1>5. Effective = weights
  BY <1>2, EffectiveIsWeights
<1>6. /\ at' = [at EXCEPT !.half = more, !.resid = resid, !.pending = pending]
      /\ decode' = [decode EXCEPT !.carry = carry]
  BY <1>5 DEF StepHalf
<1>7. NextCallIs("step", id, TRUE, more, resid, pending, at.was)
  <2>1. GoesOn(at.begun, more, resid, pending)
    <3> HIDE DEF more, resid, pending
    <3> QED BY <1>1, <1>6, CallMoves DEF CallInv
  <2> QED BY <1>1, <1>2, <2>1 DEF GoesOn
<1>8. out' = [call |-> "step", result |-> "running", row |-> None]
  BY <1>1 DEF CallInv, CallFrame
<1>9. /\ more = half + 1 /\ n = Len(ids)
      /\ t = TokenHalf(weights, InToken, half + 1, decoded, fused)
  OBVIOUS
<1>10. decode.ids = ids /\ decode.max_new = max /\ decode.decoded = decoded
  OBVIOUS
<1> HIDE DEF ids, max, decoded, broken, since, fused, id, half, more, n, t
<1>11. TokenIs(t, weights, Append(ids, id), d, n, more)
  <2>1. n \in Nat /\ Grown(Append(ids, id), ids, n, id)
    BY <1>4, <1>9, SeqIs, AppendIs DEF DecodeIs
  <2>2. more \in 1 .. Halves /\ more - 1 = half
    BY <1>1, <1>2, <1>9, DepthIsNat DEF Halves
  <2>3. TokenIs(TokenHalf(weights, InToken, more, d.decoded, fused), weights, Append(ids, id), d, n, more)
    BY <1>2, <1>3, <2>1, <2>2, TokenHalfKeeps
  <2> QED BY <1>3, <1>9, <2>3
<1>12. t = [resid |-> resid, pending |-> pending, carry |-> carry]
  BY <1>11 DEF TokenIs
<1> HIDE DEF resid, pending, carry
<1>13. decode' = [ids |-> ids, max_new |-> max, decoded |-> decoded, broken |-> broken,
                  since |-> since, fused |-> fused, carry |-> carry]
  BY <1>4, <1>6 DEF DecodeIs
<1>14. DecodeInv' /\ NextDecodeIs(ids, max, decoded, broken, since, fused, carry)
  BY <1>1, <1>2, <1>4, <1>13, NextDecode DEF DecodeIs
<1>15. NextDecodeIs(ids, max, decoded, TRUE, generation', fused, carry) /\ ~relaxed'
  BY <1>1, <1>2, <1>14
<1>16. more \in 0 .. Halves
  BY <1>1, <1>2, <1>9, DepthIsNat DEF Halves
<1>17. CallInv' /\ (Running("step") /\ at.begun)'
  BY <1>1, <1>2, <1>3, <1>7, <1>8, <1>9, <1>11, <1>12, <1>15, <1>16, StepStands
<1> QED BY <1>1, <1>2, <1>10, <1>14, <1>17 DEF NextDecodeIs

\* A step returns the row of a whole forward, and the session goes on.
LEMMA StepReturnsKeeps ==
  ASSUME ModelInv, DecodeInv, CallInv, StepReturns
  PROVE  /\ DecodeInv' /\ decode' # NoSession /\ decode # NoSession /\ Usable(decode)'
         /\ Running("step") /\ at.begun /\ at' = NoCall /\ at.arg \in Tokens
         /\ decode.max_new - decode.decoded \in Nat \ {0}
         /\ decode'.ids = Append(decode.ids, at.arg)
         /\ decode'.max_new - decode'.decoded = decode.max_new - decode.decoded - 1
         /\ out' = [call |-> "step", result |-> "row", row |-> Forward(decode'.ids, weights, Depth)]
         /\ UNCHANGED <<weights, generation, relaxed, staged>>
<1> DEFINE ids == decode.ids
           max == decode.max_new
           old == decode.decoded
           broken == decode.broken
           since == decode.since
           fused == decode.fused
           carry == decode.carry
           id == at.arg
           next == Append(decode.ids, at.arg)
           decoded == decode.decoded + 1
           mended == FALSE
<1>1. /\ Running("step") /\ at.begun /\ at.half = Halves
      /\ UNCHANGED <<weights, generation, relaxed, staged>> /\ at' = NoCall
  BY DEF StepReturns, Answers, Ends
<1>2. /\ decode # NoSession /\ ~relaxed /\ since = generation /\ id \in Tokens /\ old < max
  BY <1>1 DEF CallInv, StepInv
<1>3. PICK d : /\ SessionIs(d, weights, ids, Len(ids)) /\ d.decoded = old /\ d.max_new = max
               /\ TokenIs(InToken, weights, next, d, Len(ids), Halves)
  BY <1>1 DEF CallInv, StepInv
<1>4. DecodeIs(ids, max, old, broken, since, fused, carry)
  BY <1>2, DecodeFields
<1>5. Effective = weights
  BY <1>2, EffectiveIsWeights
<1>6. /\ decode' = [decode EXCEPT !.ids = next, !.decoded = decoded, !.broken = mended]
      /\ out' = [call |-> "step", result |-> "row", row |-> TokenRow(weights, InToken)]
  BY <1>5 DEF StepReturns, Answers, Ends
<1>7. InToken.carry = carry /\ decode.ids = ids /\ decode.max_new = max /\ decode.decoded = old
  BY DEF InToken
<1>8. next = Append(ids, id) /\ decoded = old + 1 /\ mended = FALSE
  OBVIOUS
<1> HIDE DEF ids, max, old, broken, since, fused, carry, id, next, decoded, mended
<1>9. decode' = [ids |-> next, max_new |-> max, decoded |-> decoded, broken |-> mended,
                 since |-> since, fused |-> fused, carry |-> carry]
  BY <1>4, <1>6 DEF DecodeIs
<1>10. /\ SessionIs(decode', weights, next, Len(ids) + 1)
       /\ TokenRow(weights, InToken) = Forward(next, weights, Depth)
  <2>1. /\ decode'.carry = InToken.carry /\ decode'.decoded = d.decoded + 1
        /\ decode'.max_new = d.max_new /\ d.decoded < d.max_new /\ ids \in Seq(Tokens)
    BY <1>2, <1>3, <1>4, <1>7, <1>8, <1>9 DEF DecodeIs
  <2> QED BY <1>2, <1>3, <1>8, <2>1, TokenEnds
<1>11. next \in Seq(Tokens) /\ Len(next) = Len(ids) + 1 /\ decoded \in 0 .. max
       /\ since \in 0 .. generation' /\ max \in Nat
  BY <1>1, <1>2, <1>4, <1>8 DEF DecodeIs
<1>12. DecodeInv' /\ NextDecodeIs(next, max, decoded, mended, since, fused, carry)
  <2>1. \E w : SessionIs(decode', w, next, Len(next)) /\ (since = generation' => w = weights')
    BY <1>1, <1>10, <1>11
  <2> QED BY <1>9, <1>11, <2>1, NextDecode
<1>13. Usable(decode)'
  BY <1>1, <1>2, <1>8, <1>12 DEF Usable, NextDecodeIs
<1>14. /\ decode.max_new - decode.decoded \in Nat \ {0}
       /\ decode'.max_new - decode'.decoded = decode.max_new - decode.decoded - 1
  <2>1. /\ decode'.max_new = max /\ decode'.decoded = old + 1
        /\ old \in Nat /\ max \in Nat
    BY <1>4, <1>8, <1>12 DEF NextDecodeIs, DecodeIs
  <2> QED BY <1>2, <1>7, <2>1
<1>15. decode' # NoSession /\ decode'.ids = Append(decode.ids, at.arg) /\ decode'.ids = next
  BY <1>7, <1>8, <1>12 DEF NextDecodeIs, id
<1> QED BY <1>1, <1>2, <1>6, <1>10, <1>12, <1>13, <1>14, <1>15 DEF id

LEMMA SetFusionKeeps ==
  ASSUME ModelInv, DecodeInv, SetFusion
  PROVE  /\ DecodeInv' /\ decode' # NoSession /\ decode # NoSession
         /\ Usable(decode)' <=> Usable(decode)
         /\ decode'.ids = decode.ids /\ decode'.max_new = decode.max_new
         /\ decode'.decoded = decode.decoded
<1> DEFINE ids == decode.ids
           max == decode.max_new
           decoded == decode.decoded
           broken == decode.broken
           since == decode.since
           fused == decode.fused
           carry == decode.carry
           f == ~decode.fused
<1>1. decode # NoSession /\ UNCHANGED <<weights, generation>> /\ decode' = [decode EXCEPT !.fused = f]
  BY DEF SetFusion
<1>2. DecodeIs(ids, max, decoded, broken, since, fused, carry)
  BY <1>1, DecodeFields
<1>3. decode.ids = ids /\ decode.max_new = max /\ decode.decoded = decoded
  OBVIOUS
<1> HIDE DEF ids, max, decoded, broken, since, fused, carry, f
<1>4. decode' = [ids |-> ids, max_new |-> max, decoded |-> decoded, broken |-> broken,
                 since |-> since, fused |-> f, carry |-> carry]
  BY <1>1, <1>2 DEF DecodeIs
<1>5. ASSUME ~broken
      PROVE \E w : /\ SessionIs(decode', w, ids, Len(ids))
                   /\ since = generation' => w = weights'
  <2>1. PICK w : SessionIs(decode, w, ids, Len(ids)) /\ (since = generation => w = weights)
    BY <1>2, <1>5 DEF DecodeIs
  <2>2. /\ decode'.max_new = decode.max_new /\ decode'.decoded = decode.decoded
        /\ decode'.carry = decode.carry
    BY <1>2, <1>4 DEF DecodeIs
  <2>3. SessionIs(decode', w, ids, Len(ids))
    BY <2>1, <2>2, SessionCopied
  <2> QED BY <1>1, <2>1, <2>3
<1>6. DecodeInv' /\ NextDecodeIs(ids, max, decoded, broken, since, f, carry)
  BY <1>1, <1>2, <1>4, <1>5, NextDecode DEF DecodeIs
<1>7. Usable(decode)' <=> Usable(decode)
  <2>1. decode'.broken = decode.broken /\ decode'.since = decode.since
    BY <1>2, <1>4 DEF DecodeIs
  <2> QED BY <1>1, <2>1 DEF Usable
<1> QED BY <1>1, <1>3, <1>6, <1>7 DEF NextDecodeIs

-----------------------------------------------------------------------------
(* Writes.                                                                 *)

\* A write goes in.
LEMMA WriteEnters ==
  ASSUME NEW call \in {"write_parameters", "write_parameter_host"}, NEW p, Write(call, p)
  PROVE  CallInv' /\ ~(Running("step") /\ at.begun)'
<1>1. /\ NextCallIs(call, p, FALSE, 0, <<>>, <<>>, Sessions)
      /\ out' = [call |-> call, result |-> "running", row |-> None]
      /\ generation < MaxWrites /\ UNCHANGED <<weights, generation, relaxed, staged, decode>>
  BY EntersCall DEF Write
<1>2. Writing' /\ ~Running("advance_to")' /\ ~Running("step")'
  BY <1>1 DEF NextCallIs, Running, Writing, NoCall
<1>3. CallFrame'
  BY <1>1 DEF NextCallIs, CallFrame, Calls, NoCall, Sessions
<1>4. at'.half = 0 /\ at'.begun = FALSE /\ 0 \in 0 .. Depth + 1
  BY <1>1, DepthIsNat DEF NextCallIs
<1> QED BY <1>1, <1>2, <1>3, <1>4 DEF CallInv, StepInv, AdvanceInv, WriteInv

\* What a write in progress that has begun must hold.
LEMMA WriteStands ==
  ASSUME NEW op \in {"write_parameters", "write_parameter_host"}, NEW arg, NEW half \in 0 .. Depth + 1,
         NEW resid, NEW pending, NEW was, NextCallIs(op, arg, TRUE, half, resid, pending, was),
         out' = [call |-> op, result |-> "running", row |-> None],
         ~Usable(staged)', ~Usable(decode)'
  PROVE  CallInv' /\ ~(Running("step") /\ at.begun)'
<1>1. Writing' /\ ~Running("advance_to")' /\ ~Running("step")'
  BY DEF NextCallIs, Running, Writing, NoCall
<1>2. CallFrame'
  BY DEF NextCallIs, CallFrame, Calls, NoCall
<1>3. at'.half = half /\ at'.begun = TRUE
  BY DEF NextCallIs
<1> QED BY <1>1, <1>2, <1>3 DEF CallInv, StepInv, AdvanceInv, WriteInv

LEMMA WriteBeginsKeeps ==
  ASSUME ModelInv, StagedInv, DecodeInv, CallInv, WriteBegins
  PROVE  /\ ModelInv' /\ StagedInv' /\ DecodeInv' /\ CallInv'
         /\ ~Usable(decode)' /\ ~(Running("step") /\ at.begun)'
<1> DEFINE resid == at.resid
           pending == at.pending
<1>1. /\ Writing /\ ~at.begun /\ at # NoCall /\ generation' = generation + 1
      /\ at' = [at EXCEPT !.begun = TRUE] /\ UNCHANGED <<weights, relaxed, staged, decode, out>>
  BY DEF WriteBegins, Writing, Running
<1>2. generation < MaxWrites /\ at.half = 0
  BY <1>1 DEF CallInv, WriteInv
<1>3. ModelInv'
  BY <1>1, <1>2, SessionAssumption DEF ModelInv
<1>4. StagedInv' /\ DecodeInv' /\ ~Usable(staged)' /\ ~Usable(decode)'
  BY <1>1, StagedRests, DecodeRests DEF WriteCounts
<1>5. GoesOn(TRUE, at.half, resid, pending)
  BY <1>1, CallBegins DEF CallInv
<1>6. /\ at.op \in {"write_parameters", "write_parameter_host"}
      /\ out' = [call |-> at.op, result |-> "running", row |-> None]
  BY <1>1 DEF CallInv, CallFrame, Writing, Running
<1>7. 0 \in 0 .. Depth + 1
  BY DepthIsNat
<1>8. NextCallIs(at.op, at.arg, TRUE, 0, resid, pending, at.was)
  BY <1>2, <1>5 DEF GoesOn
<1>9. CallInv' /\ ~(Running("step") /\ at.begun)'
  <2> HIDE DEF resid, pending
  <2> QED BY <1>4, <1>6, <1>7, <1>8, WriteStands
<1> QED BY <1>3, <1>4, <1>9

LEMMA CopyKeeps ==
  ASSUME ModelInv, StagedInv, DecodeInv, CallInv, CopyParameter
  PROVE  /\ ModelInv' /\ StagedInv' /\ DecodeInv' /\ CallInv'
         /\ ~Usable(decode)' /\ ~(Running("step") /\ at.begun)'
<1> DEFINE resid == at.resid
           pending == at.pending
           more == at.half + 1
<1>1. /\ Running("write_parameters") /\ Writing /\ at.begun /\ at # NoCall /\ at.half <= Depth
      /\ weights' = [weights EXCEPT ![at.half] = generation]
      /\ at' = [at EXCEPT !.half = more] /\ UNCHANGED <<generation, relaxed, staged, decode, out>>
  BY DEF CopyParameter, Writing, Running
<1>2. ~Usable(staged) /\ ~Usable(decode) /\ at.half \in 0 .. Depth + 1 /\ at.begun = TRUE
  BY <1>1 DEF CallInv, WriteInv, CallFrame
<1>3. ModelInv'
  <2>1. generation \in Nat /\ weights \in [0 .. Depth -> 0 .. generation]
    BY SessionAssumption DEF ModelInv
  <2>2. generation' = generation /\ generation \in 0 .. generation
    BY <1>1, <2>1
  <2> DEFINE p == at.half
  <2>3. weights' = [weights EXCEPT ![p] = generation]
    BY <1>1
  <2> HIDE DEF p
  <2>4. weights' \in [0 .. Depth -> 0 .. generation']
    BY <2>1, <2>2, <2>3
  <2> QED BY <1>1, <2>4 DEF ModelInv
<1>4. StagedInv' /\ DecodeInv'
  BY <1>1, <1>2, StagedRests, DecodeRests DEF WriteCounts
<1>5. ~Usable(staged)' /\ ~Usable(decode)'
  BY <1>1, <1>2 DEF Usable
<1>6. GoesOn(at.begun, more, resid, pending)
  <2> HIDE DEF more
  <2> QED BY <1>1, CallMoves DEF CallInv
<1>7. at.op = "write_parameters" /\ out' = [call |-> at.op, result |-> "running", row |-> None]
  BY <1>1 DEF CallInv, CallFrame, Running
<1>8. more \in 0 .. Depth + 1
  BY <1>1, <1>2, DepthIsNat
<1>9. NextCallIs(at.op, at.arg, TRUE, more, resid, pending, at.was)
  BY <1>2, <1>6 DEF GoesOn
<1>10. CallInv' /\ ~(Running("step") /\ at.begun)'
  <2> HIDE DEF resid, pending, more
  <2> QED BY <1>5, <1>7, <1>8, <1>9, WriteStands
<1> QED BY <1>3, <1>4, <1>5, <1>10

LEMMA WriteReturnsKeeps ==
  ASSUME ModelInv, StagedInv, DecodeInv, CallInv, WriteReturns
  PROVE  /\ ModelInv' /\ StagedInv' /\ DecodeInv' /\ at' = NoCall /\ UNCHANGED <<staged, decode>>
         /\ ~Usable(decode)' /\ out'.call = at.op /\ out'.row = None /\ out'.result = "done"
<1>1. /\ Writing /\ at.begun /\ at # NoCall /\ at' = NoCall
      /\ out' = [call |-> at.op, result |-> "done", row |-> None]
      /\ UNCHANGED <<generation, relaxed, staged, decode>>
  <2>1. CASE Running("write_parameters") /\ at.half = Depth + 1
    <3>1. at.begun
      BY <2>1, DepthIsNat DEF CallInv, WriteInv, Writing
    <3> QED BY <2>1, <3>1 DEF WriteReturns, Writing, Running, Returns, Ends
  <2>2. CASE Running("write_parameter_host") /\ at.begun
    BY <2>2 DEF WriteReturns, Writing, Running, Returns, Ends
  <2> QED BY <2>1, <2>2 DEF WriteReturns
<1>2. ~Usable(staged) /\ ~Usable(decode)
  BY <1>1 DEF CallInv, WriteInv
<1>3. ModelInv'
  <2>1. generation \in Nat /\ weights \in [0 .. Depth -> 0 .. generation]
    BY SessionAssumption DEF ModelInv
  <2>2. weights' \in [0 .. Depth -> 0 .. generation']
    BY <1>1, <2>1 DEF WriteReturns
  <2> QED BY <1>1, <2>2 DEF ModelInv
<1>4. StagedInv' /\ DecodeInv'
  BY <1>1, <1>2, StagedRests, DecodeRests DEF WriteCounts
<1>5. ~Usable(decode)'
  BY <1>1, <1>2 DEF Usable
<1> QED BY <1>1, <1>3, <1>4, <1>5

\* A call that has begun when it fails leaves no session that may be used.
LEMMA BegunFails ==
  ASSUME IInv, CallFails, at.begun
  PROVE  ~Usable(staged)' /\ ~Usable(decode)'
<1>1. at # NoCall /\ UNCHANGED <<generation, staged, decode>> /\ at.op \in Calls
  BY DEF CallFails, Fails, IInv, CallInv, CallFrame
<1>2. OneSession /\ StepInv /\ AdvanceInv /\ WriteInv
  BY DEF IInv, CallInv
<1>3. ~Usable(staged) /\ ~Usable(decode)
  <2>1. CASE at.op = "step"
    <3>1. decode # NoSession /\ decode.broken = TRUE
      BY <1>1, <1>2, <2>1 DEF StepInv, Running
    <3> QED BY <1>2, <3>1 DEF Usable, OneSession, NoSession
  <2>2. CASE at.op = "advance_to"
    <3>1. staged # NoSession /\ staged.broken = TRUE
      BY <1>1, <1>2, <2>2 DEF AdvanceInv, Running
    <3> QED BY <1>2, <3>1 DEF Usable, OneSession, NoSession
  <2>3. CASE at.op \in {"write_parameters", "write_parameter_host"}
    BY <1>1, <1>2, <2>3 DEF WriteInv, Writing, Running
  <2> QED BY <1>1, <2>1, <2>2, <2>3 DEF Calls
<1> QED BY <1>1, <1>3 DEF Usable

-----------------------------------------------------------------------------
(* Each step is a step of the promise.                                     *)

LEMMA AliveIsBoolean == Alive \in BOOLEAN /\ Alive' \in BOOLEAN
BY DEF Alive, Usable

LEMMA AliveAtRest == (at = NoCall => Alive = Usable(decode)) /\ (at' = NoCall => Alive' = Usable(decode)')
<1>1. (at = NoCall => (Alive <=> Usable(decode))) /\ (at' = NoCall => (Alive' <=> Usable(decode)'))
  BY DEF Alive, Running
<1>2. Usable(decode) \in BOOLEAN /\ Usable(decode)' \in BOOLEAN
  BY DEF Usable
<1> QED BY <1>1, <1>2, AliveIsBoolean

LEMMA PromiseStarts == Init => Promise!Init
BY DEF Init, Promise!Init, Alive, Usable, NoSession, Running

\* What the abstract session is told: no row, or its own.
NoRowAnswered == out'.call \notin {"prefill", "step"} \/ out'.row = None
RowAnswered(row) == out'.call \in {"prefill", "step"} /\ out'.row = row

\* The session's tokens and counts stay.
SessionRests ==
  \/ UNCHANGED decode
  \/ /\ decode # NoSession /\ decode' # NoSession /\ decode'.ids = decode.ids
     /\ decode'.max_new = decode.max_new /\ decode'.decoded = decode.decoded

LEMMA OthersPromised ==
  ASSUME UNCHANGED weights, SessionRests, UNCHANGED Alive, NoRowAnswered
  PROVE  Promise!Next
<1>1. NoSession' = NoSession
  BY DEF NoSession
<1>2. Promise!Other
  BY <1>1 DEF Promise!Other, NoRowAnswered, SessionRests
<1> QED BY <1>2 DEF Promise!Next

LEMMA EndsPromised ==
  ASSUME SessionRests, ~Alive', NoRowAnswered
  PROVE  Promise!Next
<1>1. NoSession' = NoSession /\ Alive' = FALSE
  BY AliveIsBoolean DEF NoSession
<1>2. Promise!End
  BY <1>1 DEF Promise!End, NoRowAnswered, SessionRests
<1> QED BY <1>2 DEF Promise!Next

LEMMA PrefillPromised ==
  ASSUME UNCHANGED weights, decode' # NoSession, decode'.ids \in Seq(Tokens),
         decode'.max_new - decode'.decoded \in Nat, Alive',
         RowAnswered(Forward(decode'.ids, weights, Depth))
  PROVE  Promise!Next
<1>1. NoSession' = NoSession /\ Alive' = TRUE
  BY AliveIsBoolean DEF NoSession
<1>2. Promise!Prefill
  BY <1>1 DEF Promise!Prefill, RowAnswered, WholeForward
<1> QED BY <1>2 DEF Promise!Next

LEMMA StepPromised ==
  ASSUME UNCHANGED weights, decode # NoSession, decode' # NoSession, NEW id \in Tokens,
         decode'.ids = Append(decode.ids, id), Alive, Alive',
         decode.max_new - decode.decoded \in Nat \ {0},
         decode'.max_new - decode'.decoded = decode.max_new - decode.decoded - 1,
         RowAnswered(Forward(decode'.ids, weights, Depth))
  PROVE  Promise!Next
<1>1. NoSession' = NoSession /\ Alive' = TRUE /\ Alive = TRUE
  BY AliveIsBoolean DEF NoSession
<1>2. Promise!Step
  BY <1>1 DEF Promise!Step, RowAnswered, WholeForward
<1> QED BY <1>2 DEF Promise!Next


-----------------------------------------------------------------------------
(* The invariant, action by action.                                        *)

LEMMA InitInvariant == Init => IInv
<1>1. SUFFICES ASSUME Init PROVE IInv
  OBVIOUS
<1>2. ModelInv
  <2>1. 0 \in 0 .. MaxWrites /\ 0 \in 0 .. 0
    BY SessionAssumption
  <2>2. generation = 0 /\ relaxed = FALSE /\ weights = [p \in 0 .. Depth |-> 0]
    BY <1>1 DEF Init
  <2> QED BY <2>1, <2>2 DEF ModelInv
<1>3. StagedInv /\ DecodeInv /\ OneSession
  BY <1>1 DEF Init, StagedInv, DecodeInv, OneSession
<1>4. CallInv
  BY <1>1 DEF Init, CallInv, CallFrame, StepInv, AdvanceInv, WriteInv, Writing, Running
<1>5. StagedIsForward
  BY <1>1 DEF Init, StagedIsForward
<1> QED BY <1>2, <1>3, <1>4, <1>5 DEF IInv

\* A step of the decode session is being taken.
Stepping == Running("step") /\ at.begun

\* A step that leaves the decode session alone.
LEMMA StagedMoves ==
  ASSUME IInv, StagedInv', CallInv', StagedIsForward', NoRowAnswered, ~Stepping, ~Stepping',
         UNCHANGED <<weights, generation, relaxed, decode>>,
         UNCHANGED staged \/ decode = NoSession
  PROVE  IInv' /\ Promise!Next
<1>1. ModelInv' /\ DecodeInv' /\ OneSession'
  BY DecodeRests DEF IInv, ModelInv, WriteCounts, OneSession, NoSession
<1>2. UNCHANGED Alive
  <2>1. Alive' <=> Alive
    BY DEF Usable, Alive, Stepping
  <2> QED BY <2>1, AliveIsBoolean
<1> QED BY <1>1, <1>2, OthersPromised DEF IInv, SessionRests

\* A step that leaves the staged prefill alone.
LEMMA DecodeMoves ==
  ASSUME IInv, DecodeInv', CallInv', out'.call # "logits",
         UNCHANGED <<weights, generation, relaxed, staged>>,
         UNCHANGED decode \/ staged = NoSession
  PROVE  IInv'
<1>1. ModelInv' /\ StagedInv' /\ OneSession'
  BY StagedRests DEF IInv, ModelInv, WriteCounts, OneSession, NoSession
<1> QED BY <1>1, NoLogits DEF IInv

\* A call that fails leaves the sessions to what they were.
LEMMA FailsKeeps ==
  ASSUME IInv, NEW call, Fails(call), at = NoCall \/ CallFails
  PROVE  IInv' /\ Promise!Next
<1>1. /\ UNCHANGED <<weights, generation, relaxed, staged, decode>> /\ at' = NoCall
      /\ StagedIsForward' /\ NoRowAnswered
  BY NoLogits DEF Fails, Returns, Ends, NoRowAnswered
<1>2. StagedInv' /\ DecodeInv' /\ ModelInv' /\ OneSession'
  BY <1>1, StagedRests, DecodeRests DEF IInv, ModelInv, WriteCounts, OneSession, NoSession
<1>3. CallInv' /\ ~Stepping'
  BY <1>1, CallOver DEF Stepping
<1>4. CASE ~Stepping
  BY <1>1, <1>2, <1>3, <1>4, StagedMoves
<1>5. CASE Stepping
  <2>1. CallFails /\ at.begun
    BY <1>5 DEF Stepping, Running
  <2>2. ~Alive'
    BY <1>1, <2>1, BegunFails, AliveAtRest
  <2>3. Promise!Next
    BY <1>1, <2>2, EndsPromised DEF SessionRests
  <2> QED BY <1>1, <1>2, <1>3, <2>3 DEF IInv
<1> QED BY <1>4, <1>5

LEMMA StutterKeeps ==
  ASSUME IInv, UNCHANGED vars
  PROVE  IInv' /\ UNCHANGED Promise!vars
<1>1. ModelInv' /\ StagedInv' /\ DecodeInv' /\ OneSession'
  BY StagedRests, DecodeRests DEF IInv, vars, ModelInv, WriteCounts, OneSession, NoSession
<1>2. StagedIsForward'
  BY DEF IInv, vars, StagedIsForward
<1>3. CallInv'
  <2>1. CallFrame'
    BY DEF IInv, vars, CallInv, CallFrame, NoCall, Calls, Sessions
  <2>2. StepInv'
    BY DEF IInv, vars, CallInv, StepInv, Running, NoCall, NoSession, InToken
  <2>3. AdvanceInv'
    BY DEF IInv, vars, CallInv, AdvanceInv, Running, NoCall, NoSession
  <2>4. WriteInv'
    BY DEF IInv, vars, CallInv, WriteInv, Writing, Running, NoCall, Usable
  <2> QED BY <2>1, <2>2, <2>3, <2>4 DEF CallInv
<1>4. UNCHANGED Promise!vars
  BY DEF Promise!vars, vars, Alive, Usable, Running, NoSession, NoCall
<1> QED BY <1>1, <1>2, <1>3, <1>4 DEF IInv

\* A call made between calls.
LEMMA CallKeeps ==
  ASSUME IInv, at = NoCall, Call
  PROVE  IInv' /\ Promise!Next
<1>0. ModelInv /\ StagedInv /\ DecodeInv /\ OneSession /\ ~Stepping
  BY NoneRuns DEF IInv, Stepping
<1>1. ASSUME NEW ids \in Prompts, Begin(ids) PROVE IInv' /\ Promise!Next
  <2>1. CASE Fails("begin")
    BY <2>1, FailsKeeps
  <2>2. CASE ~Fails("begin")
    <3>1. /\ ~relaxed /\ Returns("begin", "done") /\ decode = NoSession
          /\ UNCHANGED <<weights, generation, relaxed, decode>>
          /\ staged' = [ids |-> ids, rows |-> Rows(weights, ids), next |-> 0,
                        since |-> generation, broken |-> FALSE, moved |-> FALSE]
      BY <1>1, <2>2 DEF Begin
    <3>2. StagedInv'
      BY <1>0, <3>1, BeginKeeps
    <3>3. StagedIsForward' /\ NoRowAnswered /\ CallInv' /\ ~Stepping'
      BY <3>1, NoLogits, CallOver DEF Returns, Ends, NoRowAnswered, Stepping
    <3> QED BY <1>0, <3>1, <3>2, <3>3, StagedMoves
  <2> QED BY <2>1, <2>2
<1>2. ASSUME NEW ids \in Prompts, NEW n \in MaxNews, Prefill(ids, n)
      PROVE  IInv' /\ Promise!Next
  <2>1. CASE Fails("prefill")
    BY <2>1, FailsKeeps
  <2>2. CASE ~Fails("prefill")
    <3>1. /\ DecodeInv' /\ decode' # NoSession /\ Usable(decode)' /\ at' = NoCall
          /\ decode'.ids = ids /\ decode'.max_new - decode'.decoded = n
          /\ out' = [call |-> "prefill", result |-> "row", row |-> Forward(ids, weights, Depth)]
          /\ UNCHANGED <<weights, generation, relaxed, staged>> /\ staged = NoSession
      BY <1>0, <1>2, <2>2, PrefillAnswers
    <3>2. CallInv' /\ Alive'
      BY <3>1, CallOver, AliveAtRest
    <3>3. IInv'
      BY <3>1, <3>2, DecodeMoves
    <3>4. ids \in Seq(Tokens) /\ n \in Nat
      BY SessionAssumption
    <3>5. RowAnswered(Forward(decode'.ids, weights, Depth))
      BY <3>1 DEF RowAnswered
    <3> QED BY <3>1, <3>2, <3>3, <3>4, <3>5, PrefillPromised
  <2> QED BY <2>1, <2>2
<1>3. ASSUME NEW layer \in 0 .. Depth, Advance(layer) PROVE IInv' /\ Promise!Next
  <2>1. CASE Fails("advance_to")
    BY <2>1, FailsKeeps
  <2>2. CASE CanAdvance(layer) /\ layer = staged.next /\ ~Fails("advance_to")
    <3>1. /\ UNCHANGED <<weights, generation, relaxed, staged, decode>>
          /\ Returns("advance_to", "done")
      <4>1. ~(layer > staged.next)
        BY <2>2, DepthIsNat
      <4> QED BY <1>3, <2>2, <4>1 DEF Advance
    <3>2. StagedIsForward' /\ NoRowAnswered /\ CallInv' /\ ~Stepping'
      BY <3>1, NoLogits, CallOver DEF Returns, Ends, NoRowAnswered, Stepping
    <3>3. StagedInv'
      BY <1>0, <3>1, StagedRests DEF WriteCounts
    <3> QED BY <1>0, <3>1, <3>2, <3>3, StagedMoves
  <2>3. CASE ~(CanAdvance(layer) /\ layer = staged.next) /\ ~Fails("advance_to")
    <3>1. /\ CanAdvance(layer) /\ layer > staged.next
          /\ staged' = [staged EXCEPT !.broken = TRUE]
          /\ Enters("advance_to", layer, TRUE, 2 * staged.next)
          /\ UNCHANGED <<weights, generation, relaxed, decode>>
      BY <1>3, <2>3 DEF Advance
    <3>2. StagedInv' /\ CallInv' /\ staged # NoSession
      BY <1>0, <3>1, AdvanceBegins
    <3>3. /\ NextCallIs("advance_to", layer, TRUE, 2 * staged.next, <<>>, <<>>, Sessions)
          /\ out' = [call |-> "advance_to", result |-> "running", row |-> None]
      BY <3>1, EntersCall
    <3>4. StagedIsForward' /\ NoRowAnswered /\ ~Stepping'
      BY <3>3, NoLogits DEF NextCallIs, NoRowAnswered, Stepping, Running
    <3> QED BY <1>0, <3>1, <3>2, <3>4, StagedMoves DEF OneSession
  <2> QED BY <2>1, <2>2, <2>3
<1>4. ASSUME NEW h \in 1 .. Halves, EncodePart(h) PROVE IInv' /\ Promise!Next
  <2>1. StagedInv' /\ decode = NoSession
    BY <1>0, <1>4, EncodePartKeeps DEF OneSession
  <2>2. /\ UNCHANGED <<weights, generation, relaxed, decode>> /\ at' = NoCall
        /\ out'.call = "encode_part"
    BY <1>4 DEF EncodePart, Returns, Ends
  <2>3. StagedIsForward' /\ NoRowAnswered /\ CallInv' /\ ~Stepping'
    BY <2>2, NoLogits, CallOver DEF NoRowAnswered, Stepping
  <2> QED BY <1>0, <2>1, <2>2, <2>3, StagedMoves
<1>5. ASSUME Logits PROVE IInv' /\ Promise!Next
  <2>1. CASE Fails("logits")
    BY <2>1, FailsKeeps
  <2>2. CASE ~Fails("logits")
    <3>1. /\ UNCHANGED <<weights, generation, relaxed, staged, decode>> /\ at' = NoCall
          /\ out'.result = "row" /\ NoRowAnswered
      BY <1>5, <2>2 DEF Logits, Answers, Ends, NoRowAnswered
    <3>2. StagedIsForward' /\ StagedInv'
      BY <1>0, <1>5, <3>1, LogitsAnswer, StagedRests DEF WriteCounts
    <3>3. CallInv' /\ ~Stepping'
      BY <3>1, CallOver DEF Stepping
    <3> QED BY <1>0, <3>1, <3>2, <3>3, StagedMoves
  <2> QED BY <2>1, <2>2
<1>6. ASSUME SetFusion PROVE IInv' /\ Promise!Next
  <2>1. /\ UNCHANGED <<weights, generation, relaxed, staged>> /\ at' = NoCall
        /\ out'.call # "logits" /\ NoRowAnswered /\ decode # NoSession
    BY <1>6 DEF SetFusion, Returns, Ends, NoRowAnswered
  <2>2. /\ DecodeInv' /\ decode' # NoSession
        /\ Usable(decode)' <=> Usable(decode)
        /\ decode'.ids = decode.ids /\ decode'.max_new = decode.max_new
        /\ decode'.decoded = decode.decoded
    BY <1>0, <1>6, SetFusionKeeps
  <2>3. CallInv' /\ UNCHANGED Alive
    <3>1. Alive' <=> Alive
      BY <2>1, <2>2, AliveAtRest
    <3> QED BY <2>1, <3>1, CallOver, AliveIsBoolean
  <2>4. IInv'
    BY <1>0, <2>1, <2>2, <2>3, DecodeMoves DEF OneSession
  <2> QED BY <2>1, <2>2, <2>3, <2>4, OthersPromised DEF SessionRests
<1>7. ASSUME NEW id \in Tokens, Step(id) PROVE IInv' /\ Promise!Next
  <2>1. CASE Fails("step")
    BY <2>1, FailsKeeps
  <2>2. CASE ~Fails("step")
    <3>1. /\ CanStep /\ Enters("step", id, FALSE, 0)
          /\ UNCHANGED <<weights, generation, relaxed, staged, decode>>
      BY <1>7, <2>2 DEF Step
    <3>2. CallInv' /\ ~Stepping'
      BY <1>0, <3>1, StepEnters DEF Stepping
    <3>3. StagedIsForward' /\ NoRowAnswered
      BY <3>1, NoLogits DEF Enters, NoRowAnswered
    <3>4. StagedInv'
      BY <1>0, <3>1, StagedRests DEF WriteCounts
    <3> QED BY <1>0, <3>1, <3>2, <3>3, <3>4, StagedMoves
  <2> QED BY <2>1, <2>2
<1>8. ASSUME NEW call \in {"write_parameters", "write_parameter_host"}, NEW p, Write(call, p)
      PROVE  IInv' /\ Promise!Next
  <2>1. CallInv' /\ ~Stepping'
    BY <1>8, WriteEnters DEF Stepping
  <2>2. UNCHANGED <<weights, generation, relaxed, staged, decode>>
    BY <1>8 DEF Write
  <2>3. StagedIsForward' /\ NoRowAnswered
    BY <1>8, NoLogits DEF Write, Enters, NoRowAnswered
  <2>4. StagedInv'
    BY <1>0, <2>2, StagedRests DEF WriteCounts
  <2> QED BY <1>0, <2>1, <2>2, <2>3, <2>4, StagedMoves
<1>9. ASSUME SetRelaxed PROVE IInv' /\ Promise!Next
  <2>1. /\ UNCHANGED <<weights, generation, staged, decode>> /\ relaxed' = ~relaxed
        /\ out'.call # "logits" /\ NoRowAnswered /\ at' = NoCall
    BY <1>9 DEF SetRelaxed, Returns, Ends, NoRowAnswered
  <2>2. ModelInv' /\ StagedInv' /\ DecodeInv' /\ OneSession'
    BY <1>0, <2>1, StagedRests, DecodeRests DEF ModelInv, WriteCounts, OneSession, NoSession
  <2>3. CallInv' /\ UNCHANGED Alive
    <3>1. Usable(decode)' <=> Usable(decode)
      BY <2>1 DEF Usable
    <3>2. Alive' <=> Alive
      BY <2>1, <3>1, AliveAtRest
    <3> QED BY <2>1, <3>2, CallOver, AliveIsBoolean
  <2> QED BY <2>1, <2>2, <2>3, NoLogits, OthersPromised DEF IInv, SessionRests
<1> QED BY <1>1, <1>2, <1>3, <1>4, <1>5, <1>6, <1>7, <1>8, <1>9 DEF Call

\* A step of the call in progress.
LEMMA RunningKeeps ==
  ASSUME IInv, \/ AdvanceHalf \/ AdvanceReturns \/ StepBegins \/ StepHalf \/ StepReturns
               \/ WriteBegins \/ CopyParameter \/ WriteReturns \/ CallFails
  PROVE  IInv' /\ Promise!Next
<1>0. ModelInv /\ StagedInv /\ DecodeInv /\ OneSession /\ CallInv /\ CallFrame
  BY DEF IInv, CallInv
<1>1. CASE AdvanceHalf
  <2>1. /\ UNCHANGED <<weights, generation, relaxed, decode, out>> /\ Running("advance_to")
        /\ at'.op = at.op
    <3>1. at = [op |-> at.op, arg |-> at.arg, begun |-> at.begun, half |-> at.half,
                resid |-> at.resid, pending |-> at.pending, was |-> at.was]
      BY <1>0, <1>1 DEF AdvanceHalf, Running, CallFrame
    <3> QED BY <1>1, <3>1 DEF AdvanceHalf
  <2>2. StagedInv' /\ CallInv'
    BY <1>0, <1>1, AdvanceHalfKeeps
  <2>3. decode = NoSession /\ out'.call = "advance_to"
    BY <1>0, <2>1 DEF CallInv, AdvanceInv, OneSession, CallFrame, Running
  <2>4. StagedIsForward' /\ NoRowAnswered
    BY <2>3, NoLogits DEF NoRowAnswered
  <2>5. ~Stepping /\ ~Stepping'
    BY <2>1 DEF Stepping, Running
  <2> QED BY <2>1, <2>2, <2>3, <2>4, <2>5, StagedMoves
<1>2. CASE AdvanceReturns
  <2>1. /\ UNCHANGED <<weights, generation, relaxed, decode>> /\ Running("advance_to")
        /\ at' = NoCall /\ out'.call = "advance_to"
    BY <1>2 DEF AdvanceReturns, Returns, Ends
  <2>2. StagedInv' /\ CallInv'
    BY <1>0, <1>2, <2>1, AdvanceReturnsKeeps, CallOver
  <2>3. decode = NoSession
    BY <1>0, <2>1 DEF CallInv, AdvanceInv, OneSession
  <2>4. StagedIsForward' /\ NoRowAnswered
    BY <2>1, NoLogits DEF NoRowAnswered
  <2>5. ~Stepping /\ ~Stepping'
    BY <2>1, CallOver DEF Stepping, Running
  <2> QED BY <2>1, <2>2, <2>3, <2>4, <2>5, StagedMoves
<1>3. CASE StepBegins
  <2>1. /\ UNCHANGED <<weights, generation, relaxed, staged, out>> /\ Running("step")
    BY <1>3 DEF StepBegins
  <2>2. out'.call = "step" /\ NoRowAnswered
    BY <1>0, <2>1 DEF CallFrame, Running, NoRowAnswered
  <2>3. /\ DecodeInv' /\ CallInv' /\ decode # NoSession /\ decode' # NoSession
        /\ Usable(decode) /\ (Running("step") /\ at.begun)'
        /\ decode'.ids = decode.ids /\ decode'.max_new = decode.max_new
        /\ decode'.decoded = decode.decoded
    BY <1>0, <1>3, StepBeginsKeeps
  <2>4. UNCHANGED Alive
    <3>1. Alive /\ Alive'
      BY <2>3 DEF Alive
    <3> QED BY <3>1, AliveIsBoolean
  <2>5. IInv'
    BY <1>0, <2>1, <2>2, <2>3, DecodeMoves DEF OneSession
  <2> QED BY <2>1, <2>2, <2>3, <2>4, <2>5, OthersPromised DEF SessionRests
<1>4. CASE StepHalf
  <2>1. UNCHANGED <<weights, generation, relaxed, staged, out>>
    BY <1>4 DEF StepHalf
  <2>2. /\ DecodeInv' /\ CallInv' /\ decode # NoSession /\ decode' # NoSession
        /\ Running("step") /\ at.begun /\ (Running("step") /\ at.begun)'
        /\ decode'.ids = decode.ids /\ decode'.max_new = decode.max_new
        /\ decode'.decoded = decode.decoded
    BY <1>0, <1>4, StepHalfKeeps
  <2>3. out'.call = "step" /\ NoRowAnswered
    BY <1>0, <2>1, <2>2 DEF CallFrame, Running, NoRowAnswered
  <2>4. UNCHANGED Alive
    <3>1. Alive /\ Alive'
      BY <2>2 DEF Alive
    <3> QED BY <3>1, AliveIsBoolean
  <2>5. IInv'
    BY <1>0, <2>1, <2>2, <2>3, DecodeMoves DEF OneSession
  <2> QED BY <2>1, <2>2, <2>3, <2>4, <2>5, OthersPromised DEF SessionRests
<1>5. CASE StepReturns
  <2>1. /\ DecodeInv' /\ decode' # NoSession /\ decode # NoSession /\ Usable(decode)'
        /\ Running("step") /\ at.begun /\ at' = NoCall /\ at.arg \in Tokens
        /\ decode.max_new - decode.decoded \in Nat \ {0}
        /\ decode'.ids = Append(decode.ids, at.arg)
        /\ decode'.max_new - decode'.decoded = decode.max_new - decode.decoded - 1
        /\ out' = [call |-> "step", result |-> "row", row |-> Forward(decode'.ids, weights, Depth)]
        /\ UNCHANGED <<weights, generation, relaxed, staged>>
    BY <1>0, <1>5, StepReturnsKeeps
  <2>2. CallInv' /\ Alive /\ Alive'
    BY <2>1, CallOver, AliveAtRest DEF Alive
  <2>3. IInv'
    BY <1>0, <2>1, <2>2, DecodeMoves DEF OneSession
  <2>4. RowAnswered(Forward(decode'.ids, weights, Depth))
    BY <2>1 DEF RowAnswered
  <2> QED BY <2>1, <2>2, <2>3, <2>4, StepPromised
<1>6. CASE WriteBegins \/ CopyParameter
  <2>1. /\ ModelInv' /\ StagedInv' /\ DecodeInv' /\ CallInv'
        /\ ~Usable(decode)' /\ ~(Running("step") /\ at.begun)'
    BY <1>0, <1>6, WriteBeginsKeeps, CopyKeeps
  <2>2. UNCHANGED <<staged, decode, out>> /\ Writing
    BY <1>6 DEF WriteBegins, CopyParameter, Writing
  <2>3. out'.call \in {"write_parameters", "write_parameter_host"}
    BY <1>0, <2>2 DEF CallFrame, Writing, Running
  <2>4. StagedIsForward' /\ NoRowAnswered /\ OneSession'
    BY <1>0, <2>2, <2>3, NoLogits DEF NoRowAnswered, OneSession, NoSession
  <2>5. ~Alive'
    BY <2>1 DEF Alive
  <2> QED BY <2>1, <2>2, <2>4, <2>5, EndsPromised DEF IInv, SessionRests
<1>7. CASE WriteReturns
  <2>1. /\ ModelInv' /\ StagedInv' /\ DecodeInv' /\ at' = NoCall /\ UNCHANGED <<staged, decode>>
        /\ ~Usable(decode)' /\ out'.call = at.op /\ out'.row = None /\ out'.result = "done"
    BY <1>0, <1>7, WriteReturnsKeeps
  <2>2. CallInv' /\ ~Alive'
    BY <2>1, CallOver, AliveAtRest
  <2>3. StagedIsForward' /\ NoRowAnswered /\ OneSession'
    BY <1>0, <2>1, NoLogits DEF NoRowAnswered, OneSession, NoSession
  <2> QED BY <2>1, <2>2, <2>3, EndsPromised DEF IInv, SessionRests
<1>8. CASE CallFails
  BY <1>8, FailsKeeps DEF CallFails
<1> QED BY <1>1, <1>2, <1>3, <1>4, <1>5, <1>6, <1>7, <1>8

LEMMA NextKeeps ==
  ASSUME IInv, Next
  PROVE  IInv' /\ Promise!Next
BY CallKeeps, RunningKeeps DEF Next

\* The invariant of the sessions: what either session holds is what a run over
\* its tokens holds, while it may be used and in the middle of a call.
THEOREM Inductive == Spec => []IInv
<1>1. IInv /\ [Next]_vars => IInv'
  BY NextKeeps, StutterKeeps
<1> QED BY <1>1, InitInvariant, PTL DEF Spec

\* Every variable has its type, and a usable decode session has kept exactly
\* one recurrent input per token and one suffix entry per decoded token
\* (qwen35_model.rs, Decode).
THEOREM TypeCorrect == Spec => []TypeOK
BY Inductive, InvariantTypes, PTL

\* The row a staged prefill answers, however it was advanced, and whatever was
\* written, failed or switched between its calls, is the row of one forward
\* under the weights as they stand (qwen35_model.rs, Staged).
THEOREM StagedCorrect == Spec => []StagedIsForward
<1>1. IInv => StagedIsForward
  BY DEF IInv
<1> QED BY <1>1, Inductive, PTL

\* A call that fails once it has begun to move something leaves no session of
\* before that can be used; one that fails earlier, past whichever of its
\* checks and allocations, leaves every session and the weights as it found
\* them (Decode::step, advance_to, write_parameters, write_parameter_host).
THEOREM FailuresSettled == Spec => FailuresAreSettled
<1>1. ASSUME IInv, Next, at # NoCall, at' = NoCall, out'.result = "failed"
      PROVE  IF at.begun THEN ~Usable(staged)' /\ ~Usable(decode)' ELSE Sessions' = at.was
  <2>1. CallFrame /\ at.begun \in BOOLEAN
    BY <1>1 DEF IInv, CallInv, CallFrame
  <2>2. CallFails
    <3>1. at' # NoCall \/ out'.result # "failed" \/ CallFails
      <4>1. CASE AdvanceReturns \/ WriteReturns
        BY <4>1 DEF AdvanceReturns, WriteReturns, Returns, Ends
      <4>2. CASE StepReturns
        BY <4>2 DEF StepReturns, Answers, Ends
      <4>3. CASE AdvanceHalf \/ StepBegins \/ StepHalf \/ WriteBegins \/ CopyParameter
        <5>1. UNCHANGED out
          BY <4>3 DEF AdvanceHalf, StepBegins, StepHalf, WriteBegins, CopyParameter
        <5>2. out.result = "running"
          BY <1>1, <2>1 DEF CallFrame
        <5> QED BY <5>1, <5>2
      <4> QED BY <1>1, <4>1, <4>2, <4>3 DEF Next
    <3> QED BY <1>1, <3>1
  <2>3. CASE at.begun
    BY <1>1, <2>2, <2>3, BegunFails
  <2>4. CASE ~at.begun
    <3>1. Sessions = at.was
      BY <1>1, <2>1, <2>4 DEF CallFrame
    <3>2. Sessions' = Sessions
      BY <2>2 DEF CallFails, Fails, Sessions
    <3> QED BY <2>4, <3>1, <3>2
  <2> QED BY <2>3, <2>4
<1>2. IInv /\ [Next]_vars =>
        [at # NoCall /\ at' = NoCall /\ out'.result = "failed" =>
           IF at.begun THEN ~Usable(staged)' /\ ~Usable(decode)' ELSE Sessions' = at.was]_vars
  BY <1>1 DEF vars
<1> QED BY <1>2, Inductive, PTL DEF Spec, FailuresAreSettled

\* The decode session is the abstract one of DecodePromise.tla: every step on
\* the kept state answers the row a whole forward over its tokens gives, and
\* a failure or a write ends it for good (Decode::step).
THEOREM ImplementsPromise == Spec => KeepsPromise
<1>1. IInv /\ [Next]_vars => [Promise!Next]_(Promise!vars)
  BY NextKeeps, StutterKeeps
<1> QED BY <1>1, PromiseStarts, Inductive, PTL DEF Spec, KeepsPromise, Promise!Spec
================================================================================
