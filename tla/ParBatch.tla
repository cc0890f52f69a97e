------------------------------ MODULE ParBatch ------------------------------
(***************************************************************************)
(* par_batch::map_ordered: a batch of texts is cut into contiguous chunks, *)
(* the first runs on the calling thread and each other one on a thread of  *)
(* its own, and the results are joined in chunk order.  Chunks tell each   *)
(* other of failures through one relaxed atomic, so that a chunk past the  *)
(* first failure can stop.                                                 *)
(***************************************************************************)
EXTENDS Integers, FiniteSets, FiniteSetsExt, Functions, Sequences

CONSTANTS
  MaxTexts,      \* bound: texts in a batch
  Lengths,       \* bytes a text may have
  Asked,         \* thread counts a caller may ask for
  MaxThreads,    \* MAX_THREADS
  MinChunkBytes, \* MIN_CHUNK_BYTES
  Outcomes       \* what encoding a text may do: "ok", "error", "panic"

ASSUME ConstantsAssumption ==
  /\ MaxTexts \in Nat /\ Lengths \subseteq Nat /\ Asked \subseteq Nat
  /\ MaxThreads \in Nat \ {0} /\ MinChunkBytes \in Nat \ {0}
  /\ Outcomes \subseteq {"ok", "error", "panic"}

VARIABLES
  outcome,       \* what encoding each text does
  bound,         \* chunk k holds the texts bound[k - 1] .. bound[k] - 1
  firstFailure,  \* the values first_failure has had, the smallest its own
  starting,      \* the chunk the calling thread starts next
  at,            \* the text each chunk is at
  chunk,         \* where each chunk is, and how it ended
  answer         \* what map_ordered returned

vars == <<outcome, bound, firstFailure, starting, at, chunk, answer>>

-----------------------------------------------------------------------------
(* plan                                                                    *)

Bytes(lens, i, j) == SumFunctionOnSet(lens, i .. (j - 1))

ChunkCount(lens, n, threads) ==
  Max({1, Min({threads, MaxThreads, n, Bytes(lens, 0, n) \div MinChunkBytes})})

\* Faulty variant of LastEnd: no text is left for the chunks still to come.
LastEndOfAll(n, left) == n

\* The furthest a chunk may reach when left chunks, itself included, are to be
\* filled: each one after it gets a text.
LastEnd(n, left) == n - (left - 1)

\* A chunk is closed once it holds its share of the bytes that are left.
ChunkEnd(lens, n, start, left) ==
  IF left = 1 THEN n
  ELSE LET rest == Bytes(lens, start, n)
           full(e) == e > start /\ left * Bytes(lens, start, e) >= rest
       IN  Min({e \in start .. n : e >= LastEnd(n, left) \/ full(e)})

Plan(lens, n, threads) ==
  LET count == ChunkCount(lens, n, threads)
      cut[k \in 0 .. count] ==
        IF k = 0 THEN 0 ELSE ChunkEnd(lens, n, cut[k - 1], count - k + 1)
  IN  cut

Texts == DOMAIN outcome
Chunks == DOMAIN bound \ {0}
Only == 1

-----------------------------------------------------------------------------
(* The chunks.                                                             *)

Nothing == [kind |-> "none", of |-> <<>>]
Rows(texts) == [kind |-> "rows", of |-> texts]
Error(i) == [kind |-> "error", of |-> <<i>>]
Panic == [kind |-> "panic", of |-> <<>>]
Short == [kind |-> "short", of |-> <<>>]

None == MaxTexts                 \* usize::MAX

NextChunk(k) == IF k = 1 THEN 0 ELSE IF k + 1 \in Chunks THEN k + 1 ELSE 1

\* The calling thread starts the others in order, then its own.  A thread that
\* cannot be started leaves its chunk undone.
StartChunk ==
  /\ answer = Nothing /\ Chunks # {Only} /\ starting # 0
  /\ \E how \in {"check"} \cup (IF starting = 1 THEN {} ELSE {"unstarted"}) :
       chunk' = [chunk EXCEPT ![starting] = how]
  /\ starting' = NextChunk(starting)
  /\ UNCHANGED <<outcome, bound, firstFailure, at, answer>>

\* Faulty variant of Overtaken: any failure stops every chunk.
OvertakenByAny(i, failed) == failed # None
Overtaken(i, failed) == i > failed

\* The head of the loop.  A relaxed load returns some value the atomic has had.
CheckFailure(k) ==
  /\ chunk[k] = "check"
  /\ IF at[k] = bound[k] THEN chunk' = [chunk EXCEPT ![k] = "done"]
     ELSE \E failed \in firstFailure :
            chunk' = [chunk EXCEPT ![k] =
                        IF Overtaken(at[k], failed) THEN "done" ELSE "encode"]
  /\ UNCHANGED <<outcome, bound, firstFailure, starting, at, answer>>

\* f runs on one text; a failure is published by fetch_min, a panic is not.
Encode(k) ==
  /\ chunk[k] = "encode"
  /\ LET how == outcome[at[k]] IN
     /\ at' = [at EXCEPT ![k] = IF how = "ok" THEN @ + 1 ELSE @]
     /\ chunk' = [chunk EXCEPT ![k] = CASE how = "ok" -> "check"
                                        [] how = "error" -> "failed"
                                        [] OTHER -> "panicked"]
     /\ firstFailure' = IF how = "error"
                        THEN firstFailure \cup {Min(firstFailure \cup {at[k]})}
                        ELSE firstFailure
  /\ UNCHANGED <<outcome, bound, starting, answer>>

-----------------------------------------------------------------------------
(* The answer.                                                             *)

Ended == {"done", "failed", "panicked", "unstarted"}

Interval(i, j) == [k \in 1 .. (j - i) |-> i + k - 1]

\* The results of the first m chunks in join order, one after another.
Joined(ks) ==
  LET join[m \in 0 .. Cardinality(Chunks)] ==
        IF m = 0 THEN <<>>
        ELSE IF m \in ks THEN join[m - 1] \o Interval(bound[m - 1], at[m])
        ELSE join[m - 1]
  IN  join[Cardinality(Chunks)]

\* Faulty variant of Failures: only the threads' failures are looked at.
FailuresOfThreads == {at[k] : k \in {c \in Chunks \ {1} : chunk[c] = "failed"}}
Failures == {at[k] : k \in {c \in Chunks : chunk[c] = "failed"}}

\* Every thread is joined: a dead one decides, then the first failing text.
Join ==
  /\ answer = Nothing /\ Chunks # {Only}
  /\ starting = 0 /\ \A k \in Chunks : chunk[k] \in Ended
  /\ LET out == Joined({k \in Chunks : chunk[k] = "done"}) IN
     answer' = IF \E k \in Chunks : chunk[k] \in {"panicked", "unstarted"} THEN Panic
               ELSE IF Failures # {} THEN Error(Min(Failures))
               ELSE IF Len(out) # Cardinality(Texts) THEN Short ELSE Rows(out)
  /\ UNCHANGED <<outcome, bound, firstFailure, starting, at, chunk>>

\* What a loop over the texts returns.
SerialAnswer ==
  LET bad == {i \in Texts : outcome[i] # "ok"} IN
  IF bad = {} THEN Rows(Interval(0, Cardinality(Texts)))
  ELSE IF outcome[Min(bad)] = "error" THEN Error(Min(bad)) ELSE Panic

\* One chunk: the calling thread loops, and starts no thread.  A panic of f
\* unwinds through the caller.
Serial ==
  /\ answer = Nothing /\ Chunks = {Only}
  /\ answer' = SerialAnswer
  /\ UNCHANGED <<outcome, bound, firstFailure, starting, at, chunk>>

-----------------------------------------------------------------------------
Init ==
  \E n \in 0 .. MaxTexts, threads \in Asked :
    /\ outcome \in [0 .. (n - 1) -> Outcomes]
    /\ \E lens \in [0 .. (n - 1) -> Lengths] : bound = Plan(lens, n, threads)
    /\ firstFailure = {None}
    /\ starting = IF 2 \in Chunks THEN 2 ELSE 1
    /\ at = [k \in Chunks |-> bound[k - 1]]
    /\ chunk = [k \in Chunks |-> "new"]
    /\ answer = Nothing

Next ==
  \/ StartChunk \/ Join \/ Serial
  \/ \E k \in Chunks : CheckFailure(k) \/ Encode(k)

Spec == Init /\ [][Next]_vars

-----------------------------------------------------------------------------
(* Properties.                                                             *)

TypeOK ==
  /\ outcome \in [Texts -> Outcomes] /\ firstFailure \subseteq Texts \cup {None}
  /\ starting \in Chunks \cup {0}
  /\ \A k \in Chunks : at[k] \in bound[k - 1] .. bound[k]
  /\ chunk \in [Chunks -> {"new", "check", "encode"} \cup Ended]
  \* the chunks cut the batch: every text is in one chunk, in order, and only a
  \* batch in one piece has an empty chunk
  /\ bound[0] = 0 /\ bound[Cardinality(Chunks)] = Cardinality(Texts)
  /\ Cardinality(Chunks) > 1 => \A k \in Chunks : bound[k - 1] < bound[k]

\* Whatever the threads' order, and however late they hear of each other's
\* failures, the answer is the one a loop over the texts gives: the rows in
\* order, or the error of the first failing text.  (With no panic, and every
\* thread started: otherwise the batch fails with the panic.)
AnswersSerially ==
  answer # Nothing
    /\ (\A i \in Texts : outcome[i] # "panic")
    /\ (\A k \in Chunks : chunk[k] # "unstarted")
  => answer = SerialAnswer

\* A batch is answered with rows only if every text was encoded, and the rows
\* are those of the texts in order, also when threads panic or do not start; and
\* a chunk stops early only beside one that reports a failure, so the rows are
\* never short (debug_assert_eq!(out.len(), texts.len()), par_batch.rs:159).
NoPartialBatch ==
  answer # Nothing =>
    /\ answer.kind = "rows" => answer = SerialAnswer
    /\ answer.kind # "short"
=============================================================================
