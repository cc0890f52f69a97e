----------------------------- MODULE BufferPool -----------------------------
(***************************************************************************)
(* The buffer pools of several runtimes that charge one byte ledger.       *)
(* A pool parks buffers the GPU is done with, up to its own cap, and tells *)
(* the ledger of every byte it holds: Live for buffers handed out or       *)
(* waiting for the GPU, Cached for parked ones.  A move between the two    *)
(* balances is a release and then a charge that may be refused, because    *)
(* another pool took the room in between.                                  *)
(*                                                                         *)
(* A step ends at a ledger call another pool may answer differently to.    *)
(* Each pool is driven by the one thread of its runtime (pc); handles are  *)
(* dropped by any thread.                                                  *)
(***************************************************************************)
EXTENDS Integers, FiniteSets, FiniteSetsExt, Functions

CONSTANTS
  Pools,         \* one for each runtime
  Sizes,         \* bucket lengths, in bytes
  Cap,           \* the ledger's cap over both balances
  Caches,        \* max_cache_bytes values, the initial one among them
  MaxBuffers     \* bound: buffers one pool has at a time

ASSUME ConstantsAssumption ==
  /\ IsFiniteSet(Pools)
  /\ Sizes \subseteq Nat \ {0} /\ IsFiniteSet(Sizes)
  /\ Cap \in Nat /\ MaxBuffers \in Nat
  /\ Caches \subseteq Nat /\ Caches # {} /\ IsFiniteSet(Caches)

VARIABLES
  ledger,        \* the host's ledger: the Live and Cached balances
  freelist,      \* parked buffers of each length
  cachedBytes, maxCache, liveBytes,
  handed,        \* buffers of each length some handle keeps
  waiting,       \* buffers whose last handle dropped, waiting for the GPU
  pc, key        \* the pool's thread, and the length it works on (0: none)

counters == <<cachedBytes, maxCache, liveBytes>>
buffers == <<freelist, handed, waiting>>
vars == <<ledger, counters, buffers, pc, key>>

PcStates == {"idle", "hit", "charge", "trim", "retry", "create", "park",
             "shrink", "closing", "gone", "leaked"}

\* The bytes of a count of buffers by length.
Bytes(count) == SumFunction([n \in Sizes |-> n * count[n]])

Held(p) == SumFunction([n \in Sizes |-> freelist[p][n] + handed[p][n] + waiting[p][n]])

Cached(p) == {n \in Sizes : freelist[p][n] > 0}

Plus(f, p, n) == [f EXCEPT ![p][n] = @ + 1]
Minus(f, p, n) == [f EXCEPT ![p][n] = @ - 1]

-----------------------------------------------------------------------------
(* The ledger (the host's): it refuses what would pass its cap.            *)

Room(n) == ledger.Live + ledger.Cached + n <= Cap
Charge(class, n) == ledger' = [ledger EXCEPT ![class] = @ + n]
Release(class, n) == ledger' = [ledger EXCEPT ![class] = @ - n]

Goto(p, place) ==
  /\ pc' = [pc EXCEPT ![p] = place]
  /\ key' = IF place = "idle" THEN [key EXCEPT ![p] = 0] ELSE key

-----------------------------------------------------------------------------
(* BufferPool::alloc                                                       *)

\* A free-list hit gives up its Cached charge, the first half of
\* PoolLedger::transfer; a miss asks the ledger for a fresh buffer.
Alloc(p, n) ==
  /\ pc[p] = "idle" /\ Held(p) < MaxBuffers
  /\ key' = [key EXCEPT ![p] = n]
  /\ IF n \in Cached(p)
     THEN /\ freelist' = Minus(freelist, p, n)
          /\ cachedBytes' = [cachedBytes EXCEPT ![p] = @ - n]
          /\ Release("Cached", n)
          /\ pc' = [pc EXCEPT ![p] = "hit"]
     ELSE /\ pc' = [pc EXCEPT ![p] = "charge"]
          /\ UNCHANGED <<ledger, freelist, cachedBytes>>
  /\ UNCHANGED <<maxCache, liveBytes, handed, waiting>>

\* Hand out a buffer whose Live charge is made.
HandOut(p) ==
  /\ liveBytes' = [liveBytes EXCEPT ![p] = @ + key[p]]
  /\ handed' = Plus(handed, p, key[p])
  /\ Goto(p, "idle")
  /\ UNCHANGED <<freelist, waiting, cachedBytes, maxCache>>

\* Faulty variant of CachedToLive: the Cached charge is released once more when
\* the Live one is refused.
CachedToLiveReleasesTwice(p) ==
  /\ pc[p] = "hit"
  /\ IF Room(key[p]) THEN Charge("Live", key[p]) /\ HandOut(p)
     ELSE Release("Cached", key[p]) /\ Goto(p, "charge") /\ UNCHANGED <<counters, buffers>>

\* cached_to_live: without room the parked buffer is destroyed and the
\* allocation goes on as a fresh one.
CachedToLive(p) ==
  /\ pc[p] = "hit"
  /\ IF Room(key[p]) THEN Charge("Live", key[p]) /\ HandOut(p)
     ELSE Goto(p, "charge") /\ UNCHANGED <<ledger, counters, buffers>>

\* Faulty variant of ChargeFresh: the first refusal stands.
ChargeFreshUntrimmed(p) ==
  /\ pc[p] \in {"charge", "retry"}
  /\ IF Room(key[p]) THEN Charge("Live", key[p]) /\ Goto(p, "create")
                     ELSE Goto(p, "idle") /\ UNCHANGED ledger
  /\ UNCHANGED <<counters, buffers>>

\* charge_fresh: try, trim the whole free list, try once more, refuse.  With
\* nothing to trim the first refusal stands.
ChargeFresh(p) ==
  /\ pc[p] \in {"charge", "retry"}
  /\ IF Room(key[p]) THEN Charge("Live", key[p]) /\ Goto(p, "create")
     ELSE /\ IF pc[p] = "charge" /\ Cached(p) # {} THEN Goto(p, "trim")
             ELSE Goto(p, "idle")
          /\ UNCHANGED ledger
  /\ UNCHANGED <<counters, buffers>>

\* Faulty variant of CreateFails: the charge stays.
CreateFailsKeepsCharge(p) ==
  /\ pc[p] = "create"
  /\ Goto(p, "idle")
  /\ UNCHANGED <<ledger, counters, buffers>>

\* newBufferWithLength, which may fail: the charge is given back.
Create(p) == pc[p] = "create" /\ HandOut(p) /\ UNCHANGED ledger

CreateFails(p) ==
  /\ pc[p] = "create"
  /\ Release("Live", key[p])
  /\ Goto(p, "idle")
  /\ UNCHANGED <<counters, buffers>>

\* trim_free_list, on its own or in charge_fresh: cached_bytes is cleared when
\* the last buffer is destroyed.
Trim(p) ==
  /\ pc[p] = "idle" /\ Cached(p) # {}
  /\ Goto(p, "trim")
  /\ UNCHANGED <<ledger, counters, buffers>>

TrimOne(p) ==
  /\ pc[p] = "trim"
  /\ \E n \in Cached(p) : freelist' = Minus(freelist, p, n) /\ Release("Cached", n)
  /\ IF freelist'[p] = [n \in Sizes |-> 0]
     THEN /\ cachedBytes' = [cachedBytes EXCEPT ![p] = 0]
          /\ Goto(p, IF key[p] = 0 THEN "idle" ELSE "retry")
     ELSE UNCHANGED <<cachedBytes, pc, key>>
  /\ UNCHANGED <<maxCache, liveBytes, handed, waiting>>

-----------------------------------------------------------------------------
(* Buffers come back.                                                      *)

\* PooledBuffer::drop.  With its runtime gone it gives back its charge.
DropHandle(p, n) ==
  /\ handed[p][n] > 0
  /\ handed' = Minus(handed, p, n)
  /\ IF pc[p] \in {"closing", "gone", "leaked"}
     THEN Release("Live", n) /\ UNCHANGED waiting
     ELSE waiting' = Plus(waiting, p, n) /\ UNCHANGED ledger
  /\ UNCHANGED <<counters, freelist, pc, key>>

\* retire: a Hot buffer, or one that does not fit the cache, is destroyed.
Retire(p, n) ==
  /\ waiting' = Minus(waiting, p, n)
  /\ liveBytes' = [liveBytes EXCEPT ![p] = @ - n]
  /\ Release("Live", n)
  /\ UNCHANGED <<cachedBytes, maxCache, freelist, handed, pc, key>>

\* Faulty variant of Left: what is already cached is not counted.
WholeCap(p) == maxCache[p]

\* How much of the cap is left, saturating.
Left(p) == IF maxCache[p] < cachedBytes[p] THEN 0 ELSE maxCache[p] - cachedBytes[p]

LargerCached(p, n) == {m \in Cached(p) : m > n}

Fits(p, n) == n <= maxCache[p] /\ (n <= Left(p) \/ LargerCached(p, n) # {})

RetireHot(p, n) == pc[p] = "idle" /\ waiting[p][n] > 0 /\ Retire(p, n)

\* recycle, once the GPU is done: a buffer that does not fit in what is left
\* of the cap takes the place of the largest larger one.  Its Live charge is
\* given up, the first half of the transfer.
Recycle(p, n) ==
  /\ pc[p] = "idle" /\ waiting[p][n] > 0
  /\ IF ~Fits(p, n) THEN Retire(p, n)
     ELSE LET evicted == IF n <= Left(p) THEN 0 ELSE Max(LargerCached(p, n))  \* 0: none
          IN  /\ freelist' = IF evicted = 0 THEN freelist ELSE Minus(freelist, p, evicted)
              /\ cachedBytes' = [cachedBytes EXCEPT ![p] = @ - evicted]
              /\ ledger' = [Live |-> ledger.Live - n, Cached |-> ledger.Cached - evicted]
              /\ waiting' = Minus(waiting, p, n)
              /\ liveBytes' = [liveBytes EXCEPT ![p] = @ - n]
              /\ pc' = [pc EXCEPT ![p] = "park"]
              /\ key' = [key EXCEPT ![p] = n]
              /\ UNCHANGED <<maxCache, handed>>

\* The second half: parked, or destroyed when the room is gone.
Park(p) ==
  /\ pc[p] = "park"
  /\ IF Room(key[p])
     THEN /\ Charge("Cached", key[p])
          /\ cachedBytes' = [cachedBytes EXCEPT ![p] = @ + key[p]]
          /\ freelist' = Plus(freelist, p, key[p])
     ELSE UNCHANGED <<ledger, cachedBytes, freelist>>
  /\ Goto(p, "idle")
  /\ UNCHANGED <<maxCache, liveBytes, handed, waiting>>

-----------------------------------------------------------------------------
(* The cap changes; the runtime goes.                                      *)

SetMaxCacheBytes(p, bytes) ==
  /\ pc[p] = "idle" /\ bytes # maxCache[p]
  /\ maxCache' = [maxCache EXCEPT ![p] = bytes]
  /\ Goto(p, IF cachedBytes[p] > bytes THEN "shrink" ELSE "idle")
  /\ UNCHANGED <<ledger, cachedBytes, liveBytes, buffers>>

\* The largest buffers go first, until the rest fits.
Shrink(p) ==
  /\ pc[p] = "shrink"
  /\ LET n == Max(Cached(p))
     IN  /\ freelist' = Minus(freelist, p, n)
         /\ cachedBytes' = [cachedBytes EXCEPT ![p] = @ - n]
         /\ Release("Cached", n)
  /\ Goto(p, IF cachedBytes'[p] > maxCache[p] THEN "shrink" ELSE "idle")
  /\ UNCHANGED <<maxCache, liveBytes, handed, waiting>>

\* The last owner of the runtime lets go: the GPU is done, or the wait for it
\* gave up and what it may still use is leaked with its charges.
DropRuntime(p) ==
  /\ pc[p] = "idle"
  /\ Goto(p, "closing") \/ Goto(p, "leaked")
  /\ UNCHANGED <<ledger, counters, buffers>>

\* release_pool_ledger: the waiting buffers first, then the free list.
CloseWaiting(p, n) ==
  /\ pc[p] = "closing" /\ waiting[p][n] > 0
  /\ Retire(p, n)

CloseCached(p) ==
  /\ pc[p] = "closing" /\ \A n \in Sizes : waiting[p][n] = 0
  /\ Release("Cached", Bytes(freelist[p]))
  /\ freelist' = [freelist EXCEPT ![p] = [n \in Sizes |-> 0]]
  /\ cachedBytes' = [cachedBytes EXCEPT ![p] = 0]
  /\ Goto(p, "gone")
  /\ UNCHANGED <<maxCache, liveBytes, handed, waiting>>

-----------------------------------------------------------------------------
Init ==
  /\ ledger = [Live |-> 0, Cached |-> 0]
  /\ freelist = [p \in Pools |-> [n \in Sizes |-> 0]]
  /\ handed = freelist /\ waiting = freelist
  /\ cachedBytes = [p \in Pools |-> 0] /\ liveBytes = cachedBytes
  /\ maxCache \in [Pools -> {Max(Caches)}]
  /\ pc = [p \in Pools |-> "idle"] /\ key = [p \in Pools |-> 0]

PoolStep(p) ==
  \/ \E n \in Sizes :
       \/ Alloc(p, n) \/ DropHandle(p, n) \/ RetireHot(p, n) \/ Recycle(p, n)
       \/ CloseWaiting(p, n)
  \/ CachedToLive(p) \/ ChargeFresh(p) \/ Create(p) \/ CreateFails(p)
  \/ Trim(p) \/ TrimOne(p) \/ Park(p)
  \/ \E bytes \in Caches : SetMaxCacheBytes(p, bytes)
  \/ Shrink(p) \/ DropRuntime(p) \/ CloseCached(p)

Next == \E p \in Pools : PoolStep(p)

Spec == Init /\ [][Next]_vars

-----------------------------------------------------------------------------
(* Properties.                                                             *)

TypeOK ==
  /\ ledger \in [{"Live", "Cached"} -> Nat]
  /\ freelist \in [Pools -> [Sizes -> Nat]]
  /\ handed \in [Pools -> [Sizes -> Nat]]
  /\ waiting \in [Pools -> [Sizes -> Nat]]
  /\ cachedBytes \in [Pools -> Nat] /\ liveBytes \in [Pools -> Nat]
  /\ maxCache \in [Pools -> Caches]
  /\ pc \in [Pools -> PcStates] /\ key \in [Pools -> Sizes \cup {0}]

\* The bytes of a pool's buffers that are not parked.
Owed(p) ==
  Bytes(handed[p]) + Bytes(waiting[p]) + (IF pc[p] = "create" THEN key[p] ELSE 0)

Open(p) == pc[p] \notin {"closing", "gone", "leaked"}

\* The ledger holds a Live charge for exactly the buffers that are handed out,
\* waiting or being created, and a Cached one for exactly those parked,
\* whatever the other pools took between the halves of a transfer, and after a
\* runtime is gone.  A charge lost is memory the host believes it still spends.
\* The pool's own counters say the same, so set_pool_ledger's emptiness test and
\* pool_resident can be trusted; the saturating subtractions never bite.
LedgerBalanced ==
  /\ ledger.Live = SumFunction([p \in Pools |-> Owed(p)])
  /\ ledger.Cached = SumFunction([p \in Pools |-> Bytes(freelist[p])])
  /\ \A p \in Pools : Open(p) =>
       /\ liveBytes[p] = Bytes(handed[p]) + Bytes(waiting[p])
       /\ pc[p] # "trim" => cachedBytes[p] = Bytes(freelist[p])

\* The free list stays under the pool's cap, though a buffer that does not fit
\* in what is left of it may still be parked in place of a larger one.
CacheWithinCap ==
  \A p \in Pools : pc[p] # "shrink" => cachedBytes[p] <= maxCache[p]

\* An allocation is refused by the ledger only when the pool has given up its
\* whole free list.
RefusedWithNothingCached ==
  [][\A p \in Pools :
       pc[p] \in {"charge", "retry"} /\ pc'[p] = "idle" => Cached(p) = {}]_vars
=============================================================================
