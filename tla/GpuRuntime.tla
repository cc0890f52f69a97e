----------------------------- MODULE GpuRuntime -----------------------------
(***************************************************************************)
(* One GpuRuntime: command buffers recorded on one of two allocator slots, *)
(* commits that draw increasing values and return before the GPU is done,  *)
(* a bump arena for the constants the commands read, and buffers whose     *)
(* last owner lets go while commands still use them.                       *)
(*                                                                         *)
(* The runtime is !Send: one thread makes its calls, one at a time (pc is  *)
(* where that thread is).  Around it the GPU finishes commits and reports  *)
(* faults, waits run out of budget, and other threads drop the last handle *)
(* of a shared buffer, also while the destructor waits or after it.        *)
(***************************************************************************)
EXTENDS Integers, FiniteSets

CONSTANTS
  Buffers,       \* what a command binds: pooled buffers of any kind, and
  External,      \* those the caller made and wraps
  Handles,       \* PooledBuffers: one of a pooled buffer, any of an external one
  of,            \* the buffer of a handle
  MaxValue,      \* bound: no dispatch starts at or above this event value
  Gap,           \* bound: values another runtime may draw between two commits
  ArenaSize,     \* METAL4_CONST_ARENA_BYTES, in units of constants
  Reserve,       \* METAL4_CONST_ARENA_RESERVE
  MaxScope,      \* bound: the constants one binder scope writes
  TimeoutLimit,  \* CONSECUTIVE_EVENT_WAIT_TIMEOUTS
  Timeouts       \* whether a wait may run out of its budget

ASSUME ConstantsAssumption ==
  /\ External \subseteq Buffers /\ of \in [Handles -> Buffers]
  /\ \A g, h \in Handles : of[g] = of[h] /\ of[g] \notin External => g = h
  /\ \A b \in Buffers \ External : \E h \in Handles : of[h] = b
  /\ MaxValue \in Nat /\ Gap \in Nat
  /\ ArenaSize \in Nat /\ Reserve \in Nat /\ MaxScope \in Nat
  /\ TimeoutLimit \in Nat \ {0}
  /\ Timeouts \in BOOLEAN

VARIABLES
  poisoned, streak,      \* the poison latch and the timeout streak
  eventValue,            \* event_value: the last commit value published
  signaled,              \* the private lifetime event
  queue,                 \* commits the GPU has not finished
  batch,                 \* active_m4: "none", "closed" or "open" (cb_open)
  slot,                  \* alloc_idx of the batch
  inFlight,              \* AllocatorSlot::in_flight, 0 when free
  cursor,                \* const_cursor
  openBufs, openConsts,  \* what the command buffer being recorded uses
  where,                 \* each handle's stage of life
  after,                 \* the release point of a dropped handle
  resident, committed,   \* the residency set, and its last committed contents
  mapped,                \* a host mapping holds the access lease
  pc, call,              \* the calling thread: place, and call it is in
  dropThread             \* the thread that runs GpuRuntime::drop

health == <<poisoned, streak>>
gpu == <<eventValue, signaled, queue>>
recording == <<batch, slot, inFlight, cursor, openBufs, openConsts>>
memory == <<where, after, resident, committed>>
thread == <<mapped, pc, call, dropThread>>
vars == <<health, gpu, recording, memory, thread>>

Slots == {1, 2}
Arena == 0 .. (ArenaSize - 1)
Stages == {"free", "live", "leaving", "deferred", "dropped"}
Calls == {"none", "queued", "waited", "sync", "map"}
Waits == {"slotWait", "rewindWait", "waitAll", "waitNext", "dropWait"}
Destroyed == {"dropWait", "fields", "gone", "leaked"}
PcStates == Waits \cup Destroyed \cup {"idle", "scope", "rewind", "begin", "encode",
                                      "mid", "commit", "orphan"}

Commits == [value : Nat, slot : Slots, bufs : SUBSET Buffers, consts : SUBSET Arena]

MaxInFlight == IF inFlight[1] < inFlight[2] THEN inFlight[2] ELSE inFlight[1]

\* Both slots busy: the one with the smaller value, the first on a tie.
EarlierSlot == IF inFlight[1] <= inFlight[2] THEN 1 ELSE 2

-----------------------------------------------------------------------------
(* Pieces of a call.  Each writes the variables it names.                  *)

\* Faulty variant of CanEnter: the host mapping's lease is not looked at.
CanEnterMapped == pc = "idle" /\ ~poisoned

\* acquire_access: refused on a poisoned runtime or under a host mapping.
CanEnter == pc = "idle" /\ ~poisoned /\ ~mapped

\* Faulty variant of ReleasePoint: the last commit's value, not the next one's.
LastCommit == eventValue

\* release_point: the value of the next commit, or one no later than it.
ReleasePoint == eventValue + 1

\* take_completed
Completed(value) == {h \in Handles : where[h] = "deferred" /\ after[h] <= value}

Deferred == {h \in Handles : where[h] = "deferred"}

\* Faulty variant of Unwrapped: one wrap's release takes its buffer with it.
UnwrappedAtOnce(S) == {of[h] : h \in S}

\* external_wraps counts the handles of a buffer; a pooled one has its only one.
\* The buffers S holds the last handles of.
Unwrapped(S) == {b \in Buffers : /\ \E h \in S : of[h] = b
                                 /\ \A h \in Handles \ S : of[h] = b => where[h] = "free"}

\* drain_cold_recycles: what it took leaves residency (committed at once) and
\* goes to the free list, is destroyed, or is the caller's alone.  Writes where,
\* resident, committed from the residency state rset, cset its caller left.
Drain(S, rset, cset) ==
  /\ where' = [h \in Handles |-> IF h \in S THEN "free" ELSE where[h]]
  /\ resident' = rset \ Unwrapped(S)
  /\ committed' = IF S = {} THEN cset ELSE rset \ Unwrapped(S)
  /\ after' = [h \in Handles |-> IF h \in S THEN 0 ELSE after[h]]

DrainTo(value) == Drain(Completed(value), resident, committed)
DrainAll == Drain(Deferred, resident, committed)

\* commit_m4 up to the allocator mark: residency is committed, the command
\* buffer goes to the GPU with the next value of the (shared) commit clock.
Submit ==
  /\ \E v \in (eventValue + 1) .. (eventValue + 1 + Gap) :
       /\ eventValue' = v
       /\ queue' = queue \cup {[value |-> v, slot |-> slot, bufs |-> openBufs,
                                consts |-> openConsts]}
       /\ inFlight' = [inFlight EXCEPT ![slot] = v]
  /\ batch' = "closed"
  /\ openBufs' = {} /\ openConsts' = {}
  /\ UNCHANGED <<signaled, slot, cursor>>

\* commit_m4(false) on an open command buffer.
SubmitOnly == Submit /\ Drain(Completed(signaled), resident, resident)

\* reset_all_allocators
ResetSlots == inFlight' = [i \in Slots |-> 0]

\* Faulty variant of CatchUp: the arena is not rewound.
CatchUpKeepsCursor ==
  /\ ResetSlots
  /\ batch' = "none"
  /\ DrainAll
  /\ UNCHANGED <<slot, cursor, openBufs, openConsts>>

\* The end of a waiting commit: the arena rewinds, the batch is cleared, and
\* every deferred release is due.
CatchUp ==
  /\ ResetSlots
  /\ cursor' = 0
  /\ batch' = "none"
  /\ DrainAll
  /\ UNCHANGED <<slot, openBufs, openConsts>>

\* The thread goes on, or leaves its call.
Goto(place) ==
  /\ pc' = place
  /\ call' = IF place = "idle" THEN "none" ELSE call
  /\ UNCHANGED <<mapped, dropThread>>

\* The thread leaves a waiting commit that succeeded.
Return ==
  IF pc \in {"rewind", "rewindWait"} THEN Goto("begin")
  ELSE /\ pc' = "idle" /\ call' = "none"
       /\ mapped' = (call = "map")
       /\ UNCHANGED dropThread

\* HostFence::wait starts: refused when poisoned.
StartWait(w) == Goto(IF poisoned THEN "idle" ELSE w)

-----------------------------------------------------------------------------
(* Calls of the runtime thread.                                            *)

\* with_binder: the scope is queued, or committed and waited for.
Dispatch(c) ==
  /\ CanEnter /\ eventValue < MaxValue
  /\ pc' = "scope" /\ call' = c
  /\ UNCHANGED <<health, gpu, recording, memory, mapped, dropThread>>

\* commit(true), also under set_async_encode(false) and serialized dispatch.
Synchronize ==
  /\ CanEnter
  /\ pc' = "commit" /\ call' = "sync"
  /\ UNCHANGED <<health, gpu, recording, memory, mapped, dropThread>>

\* host_access: the mapping is granted when its waiting commit succeeds.
MapHost ==
  /\ CanEnter
  /\ pc' = "commit" /\ call' = "map"
  /\ UNCHANGED <<health, gpu, recording, memory, mapped, dropThread>>

Unmap ==
  /\ mapped
  /\ mapped' = FALSE
  /\ UNCHANGED <<health, gpu, recording, memory, pc, call, dropThread>>

\* commit(false), or the mid-commit of a queued scope.
CommitNoWait ==
  /\ CanEnter \/ pc = "mid"
  /\ batch = "open"
  /\ SubmitOnly
  /\ Goto("idle")
  /\ UNCHANGED health

\* reclaim_const_arena_if_low
ArenaLow == cursor + Reserve > ArenaSize

CheckArena ==
  /\ pc = "scope"
  /\ IF ArenaLow THEN Goto("rewind") ELSE Goto("begin")
  /\ IF ArenaLow /\ batch = "open"
     THEN SubmitOnly
     ELSE UNCHANGED <<gpu, recording, memory>>
  /\ UNCHANGED health

\* The last check of a waiting commit: a fault the feedback reported fails it.
Succeed == IF poisoned THEN Goto("idle") ELSE Return

\* commit_m4(true) with no open command buffer, before it may block.  A closed
\* batch has a commit in flight (BatchTracksWork), so wait_all_allocators waits.
CommitClosed(w) ==
  /\ batch # "open"
  /\ IF batch = "none" THEN DrainAll /\ Succeed /\ UNCHANGED recording
     ELSE StartWait(w) /\ UNCHANGED <<recording, memory>>
  /\ UNCHANGED <<health, gpu>>

Rewind == pc = "rewind" /\ CommitClosed("rewindWait")

CommitWait ==
  /\ pc = "commit"
  /\ \/ CommitClosed("waitAll")
     \/ /\ batch = "open"
        /\ Submit
        /\ committed' = resident
        /\ StartWait("waitNext")
        /\ UNCHANGED <<health, where, after, resident>>

\* ensure_m4_cb_open on a free allocator, or with the command buffer open.
FreeSlots == {i \in Slots : inFlight[i] = 0}

OpenOnFree ==
  /\ pc = "begin"
  /\ batch = "open" \/ FreeSlots # {}
  /\ IF batch = "open" THEN UNCHANGED <<batch, slot>>
     ELSE batch' = "open" /\ slot' = IF 1 \in FreeSlots THEN 1 ELSE 2
  /\ Goto("encode")
  /\ UNCHANGED <<health, gpu, inFlight, cursor, openBufs, openConsts, memory>>

AwaitSlot ==
  /\ pc = "begin" /\ batch # "open" /\ FreeSlots = {}
  /\ StartWait("slotWait")
  /\ UNCHANGED <<health, gpu, recording, memory>>

\* The binder refuses constants that end past the arena.  Faulty variant: it
\* looks at where they start.
ArenaStarts(n) == cursor < ArenaSize
ArenaHolds(n) == cursor + n <= ArenaSize

\* The closure binds live buffers and writes its constants at the cursor.
Encode(bufs, n) ==
  /\ pc = "encode"
  /\ \A b \in bufs : \E h \in Handles : of[h] = b /\ where[h] = "live"
  /\ ArenaHolds(n)
  /\ openBufs' = openBufs \cup bufs
  /\ openConsts' = openConsts \cup (cursor .. (cursor + n - 1))
  /\ cursor' = cursor + n
  /\ IF call = "waited" THEN Goto("commit") ELSE Goto("idle") \/ Goto("mid")
  /\ UNCHANGED <<health, gpu, batch, slot, inFlight, memory>>

\* The closure fails, panics or exhausts the arena: poison, abort_open_batch.
AbortBatch ==
  /\ batch' = IF batch = "open" THEN "none" ELSE batch
  /\ openBufs' = {} /\ openConsts' = {}
  /\ UNCHANGED <<slot, inFlight, cursor>>

EncodeFails ==
  /\ pc = "encode"
  /\ poisoned' = TRUE
  /\ AbortBatch
  /\ Goto("idle")
  /\ UNCHANGED <<streak, gpu, memory>>

\* alloc_buffer_kind, between calls or inside a closure: recycle_if_idle, then
\* a pooled or fresh buffer enters the residency set.
IdleGpu == batch # "open" /\ signaled >= eventValue

Alloc(h) ==
  /\ pc \in {"idle", "encode"} /\ ~poisoned
  /\ of[h] \notin External
  /\ LET taken == IF IdleGpu THEN Deferred ELSE {}
         kept == resident \ Unwrapped(taken)
     IN  /\ where[h] = "free" \/ h \in taken
         /\ where' = [g \in Handles |->
                        IF g = h THEN "live"
                        ELSE IF g \in taken THEN "free" ELSE where[g]]
         /\ resident' = kept \cup {of[h]}
         /\ committed' = IF taken = {} THEN committed ELSE kept
         /\ after' = [g \in Handles |-> IF g \in taken THEN 0 ELSE after[g]]
  /\ UNCHANGED <<health, gpu, recording, thread>>

\* Tensor::from_mtl_buffer, which asks neither the latch nor the lease: the
\* first wrap of a caller's buffer makes it resident.
Wrap(h) ==
  /\ pc \in {"idle", "encode"}
  /\ of[h] \in External /\ where[h] = "free"
  /\ where' = [where EXCEPT ![h] = "live"]
  /\ resident' = IF \A g \in Handles : of[g] = of[h] => where[g] = "free"
                 THEN resident \cup {of[h]} ELSE resident
  /\ UNCHANGED <<health, gpu, recording, after, committed, thread>>

\* The runtime thread drops the last clone of a handle.
DropBuffer(h) ==
  /\ pc \in {"idle", "encode"}
  /\ where[h] = "live"
  /\ where' = [where EXCEPT ![h] = "deferred"]
  /\ after' = [after EXCEPT ![h] = ReleasePoint]
  /\ UNCHANGED <<health, gpu, recording, resident, committed, thread>>

\* reclaim(timeline_value)
ReclaimTo(value) ==
  /\ pc = "idle" /\ ~poisoned
  /\ DrainTo(IF value < signaled THEN value ELSE signaled)
  /\ UNCHANGED <<health, gpu, recording, thread>>

-----------------------------------------------------------------------------
(* Waits.                                                                  *)

Target == CASE pc = "slotWait" -> inFlight[EarlierSlot]
            [] pc = "waitNext" -> eventValue
            [] OTHER -> MaxInFlight

\* Faulty variant of Reached: one value too late.
ReachedLate == signaled > Target
Reached == signaled >= Target

\* wait_all_allocators, then the rest of commit_m4(true); a fault the feedback
\* reported ends the call before the arena is rewound.
AllReached ==
  /\ pc \in {"rewindWait", "waitAll"} /\ Reached
  /\ streak' = 0
  /\ IF poisoned
     THEN ResetSlots /\ Goto("idle")
          /\ UNCHANGED <<batch, slot, cursor, openBufs, openConsts, memory>>
     ELSE CatchUp /\ Return
  /\ UNCHANGED <<poisoned, gpu>>

\* A waiting commit's own value: caught up first, the fault reported after.
NextReached ==
  /\ pc = "waitNext" /\ Reached
  /\ streak' = 0
  /\ CatchUp
  /\ Succeed
  /\ UNCHANGED <<poisoned, gpu>>

\* Faulty variant of SlotsAfter: a wait for one slot frees both.
AllSlotsFree(value) == [i \in Slots |-> 0]
SlotsAfter(value) == [i \in Slots |-> IF inFlight[i] <= value THEN 0 ELSE inFlight[i]]

\* Every slot at or below the value waited for is reset, what it released is
\* drained, and the command buffer begins on the slot waited for.
SlotReached ==
  /\ pc = "slotWait" /\ Reached
  /\ streak' = 0
  /\ inFlight' = SlotsAfter(Target)
  /\ DrainTo(Target)
  /\ batch' = "open" /\ slot' = EarlierSlot
  /\ Goto("encode")
  /\ UNCHANGED <<poisoned, gpu, cursor, openBufs, openConsts>>

\* The budget runs out: an error the caller may retry, the third one poisons.
WaitTimeout ==
  /\ Timeouts
  /\ pc \in Waits \ {"dropWait"} /\ ~Reached
  /\ streak' = streak + 1
  /\ poisoned' = (poisoned \/ streak' >= TimeoutLimit)
  /\ Goto("idle")
  /\ UNCHANGED <<gpu, recording, memory>>

-----------------------------------------------------------------------------
(* The last owner of the runtime lets go.  Another thread inside            *)
(* PooledBuffer::drop holds it too.                                         *)

Leaving == {h \in Handles : where[h] = "leaving"}

\* GpuRuntime::drop up to its wait.
Destroy(who) ==
  /\ AbortBatch
  /\ pc' = IF MaxInFlight = 0 THEN "fields" ELSE "dropWait"
  /\ dropThread' = who
  /\ UNCHANGED <<mapped, call>>

ReleaseRuntime ==
  /\ pc = "idle" /\ ~mapped
  /\ IF Leaving = {} THEN Destroy("owner")
     ELSE Goto("orphan") /\ UNCHANGED recording
  /\ UNCHANGED <<health, gpu, memory>>

DropReached ==
  /\ pc = "dropWait" /\ Reached
  /\ ResetSlots
  /\ Goto("fields")
  /\ UNCHANGED <<health, gpu, batch, slot, cursor, openBufs, openConsts, memory>>

\* The runtime's fields go: the residency set, the free list and the queues with
\* what they alone hold.
FreeFields ==
  /\ pc = "fields"
  /\ where' = [h \in Handles |-> IF where[h] = "live" THEN "live" ELSE "free"]
  /\ after' = [h \in Handles |-> 0]
  /\ resident' = {} /\ committed' = {}
  /\ Goto("gone")
  /\ UNCHANGED <<health, gpu, recording>>

\* leak_in_flight_anchors: nothing the residency set or a queue holds is freed.
DropTimeout ==
  /\ Timeouts
  /\ pc = "dropWait" /\ ~Reached
  /\ Goto("leaked")
  /\ UNCHANGED <<health, gpu, recording, memory>>

-----------------------------------------------------------------------------
(* Other threads, and the GPU.                                             *)

\* PooledBuffer::drop on another thread (the last SharedBuf clone; a wrap stays
\* on its thread): the runtime is upgraded and the release point read, then the
\* queue is pushed.
RemoteDrop(h) ==
  /\ pc \notin Destroyed
  /\ of[h] \notin External /\ where[h] = "live"
  /\ where' = [where EXCEPT ![h] = "leaving"]
  /\ after' = [after EXCEPT ![h] = ReleasePoint]
  /\ UNCHANGED <<health, gpu, recording, resident, committed, thread>>

RemotePush(h) ==
  /\ where[h] = "leaving"
  /\ where' = [where EXCEPT ![h] = "deferred"]
  /\ IF pc = "orphan" /\ Leaving = {h} THEN Destroy("other")
     ELSE UNCHANGED <<recording, thread>>
  /\ UNCHANGED <<health, gpu, after, resident, committed>>

\* PooledBuffer::drop once the last owner of the runtime let go: the upgrade
\* fails, and the handle goes at once, past the queues.  Until the runtime's fields
\* go the residency set alone holds its memory.  A wrap goes on its own thread,
\* which may be the one inside the destructor.
OrphanDrop(h) ==
  /\ pc \in Destroyed /\ where[h] = "live"
  /\ of[h] \in External => pc \in {"gone", "leaked"} \/ dropThread = "other"
  /\ where' = [where EXCEPT ![h] = IF pc = "gone" THEN "free" ELSE "dropped"]
  /\ UNCHANGED <<health, gpu, recording, after, resident, committed, thread>>

GpuFinish(c) ==
  /\ c \in queue
  /\ \A d \in queue : c.value <= d.value
  /\ signaled' = c.value
  /\ queue' = queue \ {c}
  /\ UNCHANGED <<health, eventValue, recording, memory, thread>>

GpuFault ==
  /\ eventValue > 0 /\ ~poisoned
  /\ poisoned' = TRUE
  /\ UNCHANGED <<streak, gpu, recording, memory, thread>>

-----------------------------------------------------------------------------
Init ==
  /\ poisoned = FALSE /\ streak = 0
  /\ eventValue = 0 /\ signaled = 0 /\ queue = {}
  /\ batch = "none" /\ slot = 1 /\ inFlight = [i \in Slots |-> 0]
  /\ cursor = 0 /\ openBufs = {} /\ openConsts = {}
  /\ where = [h \in Handles |-> "free"] /\ after = [h \in Handles |-> 0]
  /\ resident = {} /\ committed = {}
  /\ mapped = FALSE /\ pc = "idle" /\ call = "none" /\ dropThread = "none"

\* Steps inside a call that has begun.
CallStep ==
  \/ CheckArena \/ Rewind \/ CommitWait \/ OpenOnFree \/ AwaitSlot
  \/ \E bufs \in SUBSET Buffers, n \in 0 .. MaxScope : Encode(bufs, n)
  \/ pc = "mid" /\ CommitNoWait
  \/ AllReached \/ NextReached \/ SlotReached \/ WaitTimeout
  \/ DropReached \/ FreeFields \/ DropTimeout

CallerStep ==
  \/ \E c \in {"queued", "waited"} : Dispatch(c)
  \/ Synchronize \/ MapHost \/ Unmap
  \/ CanEnter /\ CommitNoWait
  \/ EncodeFails
  \/ \E h \in Handles : Alloc(h) \/ Wrap(h) \/ DropBuffer(h)
  \/ \E value \in 0 .. signaled : ReclaimTo(value)
  \/ ReleaseRuntime

OtherStep ==
  \/ \E h \in Handles : RemoteDrop(h) \/ RemotePush(h) \/ OrphanDrop(h)
  \/ \E c \in queue : GpuFinish(c)
  \/ GpuFault

Next == CallStep \/ CallerStep \/ OtherStep

Spec == Init /\ [][Next]_vars

\* A call that has begun runs on, another thread's drop completes, and the
\* GPU finishes what was committed.  The caller owes nothing.
Fairness ==
  /\ WF_vars(CallStep)
  /\ WF_vars(\E h \in Handles : RemotePush(h))
  /\ WF_vars(\E c \in queue : GpuFinish(c))

FairSpec == Spec /\ Fairness

-----------------------------------------------------------------------------
(* Properties.                                                             *)

TypeOK ==
  /\ poisoned \in BOOLEAN /\ streak \in Nat
  /\ eventValue \in Nat /\ signaled \in Nat /\ queue \in SUBSET Commits
  /\ batch \in {"none", "closed", "open"} /\ slot \in Slots
  /\ inFlight \in [Slots -> Nat] /\ cursor \in 0 .. ArenaSize
  /\ openBufs \in SUBSET Buffers /\ openConsts \in SUBSET Arena
  /\ where \in [Handles -> Stages] /\ after \in [Handles -> Nat]
  /\ resident \in SUBSET Buffers /\ committed \in SUBSET Buffers
  /\ mapped \in BOOLEAN /\ pc \in PcStates /\ call \in Calls
  /\ dropThread \in {"none", "owner", "other"}

InUse == openBufs \cup UNION {c.bufs : c \in queue}

\* What a command buffer records into is its own until it finished.  No two
\* unfinished ones read the same place of the constant arena, so a rewound cursor
\* never writes under a running command; and an allocator, marked with the commit
\* that runs on it, is reset for the next one only after that commit.
RecordingExclusive ==
  /\ \A c, d \in queue : c # d => c.consts \cap d.consts = {}
  /\ \A c \in queue : c.consts \cap openConsts = {}
  /\ \A c \in queue : inFlight[c.slot] = c.value
  /\ batch = "open" => inFlight[slot] = 0

\* A command buffer executes with every buffer it binds in the committed
\* residency set, until it finishes: a wrap that is dropped takes nothing from
\* the other wraps of the buffer, nor from the commands that used it.
ResidentWhileRunning == \A c \in queue : c.bufs \subseteq committed

\* While a host mapping is live the GPU has nothing to do and nothing queued.
MappingExcludesGpu == mapped => queue = {} /\ batch # "open"

\* With no batch every commit has finished and the arena is rewound, so a
\* waiting commit may release everything without waiting (the path that
\* drains u64::MAX at once); with a closed one something is in flight to wait
\* for.  A runtime that aborted its batch, poisoned or in its destructor, makes
\* no such promise: its destructor looks at the slots, and frees the runtime's
\* objects only when nothing is running.
BatchTracksWork ==
  /\ ~poisoned /\ dropThread = "none" =>
       /\ batch = "none" => queue = {} /\ cursor = 0
       /\ batch = "closed" => MaxInFlight # 0
  /\ pc \in {"fields", "gone"} => queue = {}

\* A call that has begun returns when no budget runs out.
CallsReturn == (pc \notin {"idle", "orphan"}) ~> (pc \in {"idle", "orphan", "gone"})

\* The memory of a pooled buffer outlives every command that uses it.
Stage(b) == where[CHOOSE h \in Handles : of[h] = b]

Lifetime == INSTANCE BufferLifetime WITH
  Buffers <- Buffers \ External,
  owner <- [b \in Buffers \ External |->
              CASE Stage(b) = "free" -> "free"
                [] Stage(b) = "live" -> "owned"
                [] OTHER -> "released"],
  users <- InUse \ External

LifetimeSpec == Lifetime!Spec
=============================================================================
