---------------------------- MODULE GpuRuntime_proof ----------------------------
(***************************************************************************)
(* The runtime of GpuRuntime.tla keeps command buffers, allocator slots,   *)
(* arena space, residency and memory apart for any number of buffers and   *)
(* wraps, any clock and its gaps, any arena and any budget.                *)
(*                                                                         *)
(* What is done at once when nothing is in flight rests on two facts that  *)
(* the properties do not say: every unfinished commit has its slot marked  *)
(* with its value (SlotInv), and a call that is on its way knows whether   *)
(* anything may be in flight from the batch alone, even if a fault poisons *)
(* the runtime under it (BatchInv).  What is done while commands run rests *)
(* on AnchorInv: each buffer in use has a handle that is live, or whose    *)
(* release point no event before the end of the command reaches, or one    *)
(* dropped behind the destructor's back, after which residency holds it.   *)
(***************************************************************************)
EXTENDS GpuRuntime, TLAPS

\* The event lies below every unfinished commit, and no two share a value.
GpuInv ==
  /\ signaled <= eventValue
  /\ \A c \in queue : signaled < c.value /\ c.value <= eventValue
  /\ \A c, d \in queue : c.value = d.value => c = d

\* Where the thread is says what the batch is.
PlaceInv ==
  /\ pc \in {"encode", "mid"} => batch = "open"
  /\ pc \in {"rewind", "slotWait"} \cup Destroyed => batch # "open"
  /\ pc \in {"rewindWait", "waitAll", "waitNext"} => batch = "closed"
  /\ batch # "open" => openBufs = {} /\ openConsts = {}
  /\ mapped => pc = "idle"

\* A slot is marked with the commit that runs on it.
SlotInv ==
  /\ \A c \in queue : inFlight[c.slot] = c.value
  /\ batch = "open" => inFlight[slot] = 0

\* Constants in use lie below the cursor, each in one place.
ArenaInv ==
  /\ openConsts \subseteq 0 .. (cursor - 1)
  /\ \A c \in queue : c.consts \subseteq 0 .. (cursor - 1)
  /\ \A c \in queue : c.consts \cap openConsts = {}
  /\ \A c, d \in queue : c # d => c.consts \cap d.consts = {}

InCall == {"scope", "rewind", "begin", "encode", "mid", "commit",
           "slotWait", "rewindWait", "waitAll", "waitNext"}

\* The batch says what is in flight, to a call that has begun and to the next.
BatchInv ==
  /\ (~poisoned \/ pc \in InCall) /\ dropThread = "none" =>
       /\ batch = "none" => queue = {} /\ cursor = 0
       /\ batch = "closed" => MaxInFlight # 0
  /\ pc \in Destroyed <=> dropThread # "none"
  /\ pc \in {"fields", "gone"} => queue = {}
  /\ mapped => queue = {} /\ batch # "open"

\* Handle h, or after it the residency set, holds its buffer until the event
\* passes value.
Anchors(h, value) ==
  \/ where[h] \in {"live", "dropped"}
  \/ where[h] \in {"leaving", "deferred"} /\ after[h] > value

\* A buffer in use has a handle that stays until its commands are done: one that
\* is live, or whose release point lies above everything before the commit, or one
\* that left its memory to the residency set.
AnchorInv ==
  /\ \A b \in openBufs : \E h \in Handles : of[h] = b /\ Anchors(h, eventValue)
  /\ \A c \in queue : \A b \in c.bufs : \E h \in Handles :
       /\ of[h] = b /\ Anchors(h, signaled)
       /\ \A d \in queue : d.value < c.value => Anchors(h, d.value)
  /\ pc # "gone" => \A h \in Handles : where[h] # "free" => of[h] \in resident
  /\ \A c \in queue : c.bufs \subseteq committed

IInv == TypeOK /\ GpuInv /\ PlaceInv /\ SlotInv /\ ArenaInv /\ BatchInv /\ AnchorInv

-----------------------------------------------------------------------------
(* The steps that a proof about all of Next has one case for.              *)

LEMMA TypeStep == ASSUME TypeOK, [Next]_vars PROVE TypeOK'
<1> USE ConstantsAssumption
    DEF TypeOK, Slots, Arena, Stages, Calls, Waits, Destroyed, PcStates, Commits
<1> USE DEF health, gpu, recording, memory, thread
<1>1. ASSUME NEW S \in SUBSET Handles, NEW rset \in SUBSET Buffers, NEW cset \in SUBSET Buffers,
             Drain(S, rset, cset)
      PROVE  where' \in [Handles -> Stages] /\ after' \in [Handles -> Nat]
             /\ resident' \in SUBSET Buffers /\ committed' \in SUBSET Buffers
  BY <1>1 DEF Drain
<1>2. \A v : Completed(v) \in SUBSET Handles
  BY DEF Completed
<1>3. Deferred \in SUBSET Handles
  BY DEF Deferred
<1>4. ASSUME Submit
      PROVE  /\ eventValue' \in Nat /\ signaled' \in Nat /\ queue' \in SUBSET Commits
             /\ batch' \in {"none", "closed", "open"} /\ slot' \in Slots
             /\ inFlight' \in [Slots -> Nat] /\ cursor' \in 0 .. ArenaSize
             /\ openBufs' \in SUBSET Buffers /\ openConsts' \in SUBSET Arena
  <2>1. PICK v \in (eventValue + 1) .. (eventValue + 1 + Gap) :
          /\ eventValue' = v
          /\ queue' = queue \cup {[value |-> v, slot |-> slot, bufs |-> openBufs,
                                   consts |-> openConsts]}
          /\ inFlight' = [inFlight EXCEPT ![slot] = v]
    BY <1>4 DEF Submit
  <2>2. v \in Nat
    OBVIOUS
  <2>3. [value |-> v, slot |-> slot, bufs |-> openBufs, consts |-> openConsts] \in Commits
    BY <2>2
  <2>4. queue' \in SUBSET Commits
    BY <2>1, <2>3
  <2> QED BY <1>4, <2>1, <2>2, <2>4 DEF Submit
<1>5. ASSUME DrainAll \/ \E v : DrainTo(v)
      PROVE  where' \in [Handles -> Stages] /\ after' \in [Handles -> Nat]
             /\ resident' \in SUBSET Buffers /\ committed' \in SUBSET Buffers
  BY <1>1, <1>2, <1>3, <1>5 DEF DrainAll, DrainTo
<1>6. ASSUME SubmitOnly, UNCHANGED health, NEW p \in PcStates, Goto(p)
      PROVE  TypeOK'
  <2>1. Submit /\ where' \in [Handles -> Stages] /\ after' \in [Handles -> Nat]
             /\ resident' \in SUBSET Buffers /\ committed' \in SUBSET Buffers
    BY <1>1, <1>2, <1>6 DEF SubmitOnly
  <2>2. /\ poisoned' \in BOOLEAN /\ streak' \in Nat /\ mapped' \in BOOLEAN
        /\ pc' \in PcStates /\ call' \in Calls /\ dropThread' \in {"none", "owner", "other"}
    BY <1>6 DEF Goto
  <2> QED BY <2>1, <2>2, <1>4
<1>r. ASSUME Return \/ Succeed
      PROVE  /\ mapped' \in BOOLEAN /\ pc' \in PcStates /\ call' \in Calls
             /\ dropThread' \in {"none", "owner", "other"}
  <2>1. (call = "map") \in BOOLEAN
    OBVIOUS
  <2>2. ASSUME NEW p \in PcStates, Goto(p)
        PROVE  /\ mapped' \in BOOLEAN /\ pc' \in PcStates /\ call' \in Calls
               /\ dropThread' \in {"none", "owner", "other"}
    BY <2>2 DEF Goto
  <2>3. CASE Return
    BY <2>1, <2>2, <2>3 DEF Return
  <2>4. CASE Succeed
    BY <2>2, <2>3, <2>4 DEF Succeed
  <2> QED BY <1>r, <2>3, <2>4
<1>7. CASE CallStep
  <2>1. CASE CheckArena
    <3>1. CASE ArenaLow /\ batch = "open"
      BY <2>1, <3>1, <1>6 DEF CheckArena
    <3>2. CASE ~(ArenaLow /\ batch = "open")
      BY <2>1, <3>2 DEF CheckArena, Goto
    <3> QED BY <3>1, <3>2
  <2>2. CASE Rewind
    <3>1. CASE batch = "none"
      BY <2>2, <3>1, <1>5 DEF Rewind, CommitClosed, Succeed, Return, Goto
    <3>2. CASE batch # "none"
      BY <2>2, <3>2 DEF Rewind, CommitClosed, StartWait, Goto
    <3> QED BY <3>1, <3>2
  <2>3. CASE CommitWait
    BY <2>3, <1>5, <1>4 DEF CommitWait, CommitClosed, Succeed, Return, StartWait, Goto
  <2>4. CASE OpenOnFree \/ AwaitSlot
    <3>1. CASE OpenOnFree
      BY <2>4, <3>1 DEF OpenOnFree, Goto
    <3>2. CASE AwaitSlot
      BY <2>4, <3>2 DEF AwaitSlot, StartWait, Goto
    <3> QED BY <2>4, <3>1, <3>2
  <2>5. ASSUME NEW bufs \in SUBSET Buffers, NEW n \in 0 .. MaxScope, Encode(bufs, n)
        PROVE  TypeOK'
    BY <2>5 DEF Encode, ArenaHolds, Goto
  <2>6. CASE CommitNoWait
    <3>1. "idle" \in PcStates
      OBVIOUS
    <3> QED BY <2>6, <1>6, <3>1 DEF CommitNoWait
  <2>7. CASE AllReached
    <3>1. CASE poisoned
      <4>1. /\ inFlight' = [i \in Slots |-> 0] /\ Goto("idle") /\ streak' = 0
            /\ UNCHANGED <<poisoned, gpu, batch, slot, cursor, openBufs, openConsts, memory>>
        BY <2>7, <3>1 DEF AllReached, ResetSlots
      <4> QED BY <4>1 DEF Goto
    <3>2. CASE ~poisoned
      <4>1. CatchUp /\ Return /\ streak' = 0 /\ UNCHANGED <<poisoned, gpu>>
        BY <2>7, <3>2 DEF AllReached
      <4> QED BY <4>1, <1>5, <1>r DEF CatchUp, ResetSlots
    <3> QED BY <3>1, <3>2
  <2>8. CASE NextReached
    BY <2>8, <1>5, <1>r DEF NextReached, ResetSlots, CatchUp
  <2>9. CASE SlotReached
    BY <2>9, <1>5 DEF SlotReached, SlotsAfter, EarlierSlot, Goto
  <2>10. CASE WaitTimeout \/ DropReached \/ FreeFields \/ DropTimeout
    <3>1. CASE WaitTimeout
      <4>1. poisoned' \in BOOLEAN
        BY <3>1, Zenon DEF WaitTimeout
      <4> QED BY <3>1, <4>1 DEF WaitTimeout, Goto
    <3>2. CASE DropReached
      BY <3>2 DEF DropReached, ResetSlots, Goto
    <3>3. CASE DropTimeout
      BY <3>3 DEF DropTimeout, Goto
    <3>4. CASE FreeFields
      BY <3>4 DEF FreeFields, Goto
    <3> QED BY <2>10, <3>1, <3>2, <3>3, <3>4
  <2> QED BY <1>7, <2>1, <2>2, <2>3, <2>4, <2>5, <2>6, <2>7, <2>8, <2>9, <2>10 DEF CallStep
<1>8. CASE CallerStep
  <2>1. CASE \E c \in {"queued", "waited"} : Dispatch(c)
    BY <2>1 DEF Dispatch
  <2>2. CASE Synchronize \/ MapHost \/ Unmap
    <3>1. CASE Synchronize \/ MapHost
      BY <3>1 DEF Synchronize, MapHost
    <3>2. CASE Unmap
      BY <3>2 DEF Unmap
    <3> QED BY <2>2, <3>1, <3>2
  <2>3. CASE CommitNoWait
    <3>1. "idle" \in PcStates
      OBVIOUS
    <3> QED BY <2>3, <1>6, <3>1 DEF CommitNoWait
  <2>4. CASE EncodeFails
    BY <2>4 DEF EncodeFails, AbortBatch, Goto
  <2>5. ASSUME NEW h \in Handles, Alloc(h) PROVE TypeOK'
    BY <2>5 DEF Alloc
  <2>6. ASSUME NEW h \in Handles, Wrap(h) PROVE TypeOK'
    BY <2>6 DEF Wrap
  <2>7. ASSUME NEW h \in Handles, DropBuffer(h) PROVE TypeOK'
    BY <2>7 DEF DropBuffer, ReleasePoint
  <2>8. CASE \E value \in 0 .. signaled : ReclaimTo(value)
    BY <2>8, <1>5 DEF ReclaimTo
  <2>9. CASE ReleaseRuntime
    BY <2>9 DEF ReleaseRuntime, Destroy, AbortBatch, Goto
  <2> QED BY <1>8, <2>1, <2>2, <2>3, <2>4, <2>5, <2>6, <2>7, <2>8, <2>9 DEF CallerStep
<1>9. CASE OtherStep
  <2>1. ASSUME NEW h \in Handles, RemoteDrop(h) \/ RemotePush(h) \/ OrphanDrop(h) PROVE TypeOK'
    <3>1. CASE RemoteDrop(h)
      BY <3>1 DEF RemoteDrop, ReleasePoint
    <3>2. CASE RemotePush(h)
      <4>1. where' \in [Handles -> Stages] /\ UNCHANGED <<health, gpu, after, resident, committed>>
        BY <3>2 DEF RemotePush
      <4>2. CASE Destroy("other")
        BY <4>1, <4>2 DEF Destroy, AbortBatch
      <4>3. CASE UNCHANGED <<recording, thread>>
        BY <4>1, <4>3
      <4> QED BY <3>2, <4>2, <4>3 DEF RemotePush
    <3>3. CASE OrphanDrop(h)
      BY <3>3 DEF OrphanDrop
    <3> QED BY <2>1, <3>1, <3>2, <3>3
  <2>2. ASSUME NEW c \in queue, GpuFinish(c) PROVE TypeOK'
    BY <2>2 DEF GpuFinish
  <2>3. CASE GpuFault
    BY <2>3 DEF GpuFault
  <2> QED BY <1>9, <2>1, <2>2, <2>3 DEF OtherStep
<1>10. CASE UNCHANGED vars
  BY <1>10 DEF vars
<1> QED BY <1>7, <1>8, <1>9, <1>10 DEF Next

-----------------------------------------------------------------------------
(* Waits.                                                                  *)

\* A wait for everything, or for the newest commit, that got its value leaves
\* nothing in flight: a commit not finished has its slot marked.
LEMMA NothingInFlight ==
  ASSUME IInv, pc \in {"rewindWait", "waitAll", "waitNext", "dropWait"}, Reached
  PROVE  queue = {}
<1> USE DEF IInv, TypeOK, Commits, Slots
<1>1. SUFFICES ASSUME NEW c \in queue PROVE FALSE
  OBVIOUS
<1>2. signaled < c.value /\ c.value <= eventValue /\ c.value = inFlight[c.slot]
  BY DEF GpuInv, SlotInv
<1>3. c.slot \in {1, 2} /\ inFlight[1] \in Nat /\ inFlight[2] \in Nat /\ c.value \in Nat
  OBVIOUS
<1>4. inFlight[c.slot] <= MaxInFlight /\ MaxInFlight \in Nat
  BY <1>3 DEF MaxInFlight
<1>5. signaled >= eventValue \/ signaled >= MaxInFlight
  BY DEF Reached, Target
<1> QED BY <1>2, <1>3, <1>4, <1>5

\* A wait for a slot is one for the slot with the smaller mark.
LEMMA EarlierReached ==
  ASSUME IInv, pc = "slotWait", Reached
  PROVE  /\ EarlierSlot \in Slots /\ Target = inFlight[EarlierSlot]
         /\ Target \in Nat /\ Target <= signaled
<1> QED BY DEF IInv, TypeOK, Slots, Reached, Target, EarlierSlot

-----------------------------------------------------------------------------
(* The GPU.                                                                *)

\* Only a commit, and the end of one, move the clock, the event and the queue.
LEMMA GpuMoves ==
  ASSUME [Next]_vars
  PROVE  UNCHANGED gpu \/ Submit \/ \E c \in queue : GpuFinish(c)
<1>1. CASE CallStep
  BY <1>1 DEF CallStep, CheckArena, Rewind, CommitWait, CommitClosed, OpenOnFree, AwaitSlot,
     Encode, CommitNoWait, SubmitOnly, AllReached, NextReached, SlotReached, WaitTimeout,
     DropReached, FreeFields, DropTimeout
<1>2. CASE CallerStep
  BY <1>2 DEF CallerStep, Dispatch, Synchronize, MapHost, Unmap, CommitNoWait, SubmitOnly,
     EncodeFails, Alloc, Wrap, DropBuffer, ReclaimTo, ReleaseRuntime
<1>3. CASE OtherStep
  BY <1>3 DEF OtherStep, RemoteDrop, RemotePush, OrphanDrop, GpuFault
<1>4. CASE UNCHANGED vars
  BY <1>4 DEF vars
<1> QED BY <1>1, <1>2, <1>3, <1>4 DEF Next

LEMMA GpuStep == ASSUME IInv, [Next]_vars PROVE GpuInv'
<1> USE ConstantsAssumption DEF IInv, TypeOK, Commits, GpuInv
<1>1. CASE UNCHANGED gpu
  BY <1>1 DEF gpu
<1>2. CASE Submit
  <2>1. PICK v \in (eventValue + 1) .. (eventValue + 1 + Gap) :
          /\ eventValue' = v
          /\ queue' = queue \cup {[value |-> v, slot |-> slot, bufs |-> openBufs,
                                   consts |-> openConsts]}
    BY <1>2 DEF Submit
  <2>2. v \in Nat /\ v > eventValue /\ signaled' = signaled
    BY <1>2, <2>1 DEF Submit
  <2>3. \A c \in queue : c.value \in Nat /\ c.value < v /\ signaled < c.value
    BY <2>2
  <2>4. \A c \in queue' : c.value \in Nat /\ signaled < c.value /\ c.value <= v
    BY <2>1, <2>2, <2>3
  <2>5. \A c, d \in queue' : c.value = d.value => c = d
    BY <2>1, <2>2, <2>3
  <2> QED BY <2>1, <2>2, <2>4, <2>5
<1>3. ASSUME NEW c \in queue, GpuFinish(c) PROVE GpuInv'
  <2>1. /\ \A d \in queue : c.value <= d.value
        /\ signaled' = c.value /\ queue' = queue \ {c} /\ eventValue' = eventValue
    BY <1>3 DEF GpuFinish
  <2>2. \A d \in queue' : c.value < d.value /\ d.value <= eventValue
    BY <2>1
  <2> QED BY <2>1, <2>2
<1> QED BY GpuMoves, <1>1, <1>2, <1>3

-----------------------------------------------------------------------------
(* Where the thread is.                                                    *)

LEMMA PlaceStep == ASSUME IInv, [Next]_vars PROVE PlaceInv'
<1> USE DEF IInv, PlaceInv, Destroyed, health, gpu, recording, memory, thread
<1>1. CASE CallStep
  <2>1. CASE CheckArena
    BY <2>1 DEF CheckArena, SubmitOnly, Submit, Goto
  <2>2. CASE Rewind
    BY <2>2 DEF Rewind, CommitClosed, Succeed, Return, StartWait, Goto, TypeOK
  <2>3. CASE CommitWait
    <3>1. CASE CommitClosed("waitAll")
      BY <2>3, <3>1 DEF CommitWait, CommitClosed, Succeed, Return, StartWait, Goto, TypeOK
    <3>2. CASE Submit /\ StartWait("waitNext")
      BY <2>3, <3>2 DEF CommitWait, Submit, StartWait, Goto
    <3> QED BY <2>3, <3>1, <3>2 DEF CommitWait
  <2>4. CASE OpenOnFree
    BY <2>4 DEF OpenOnFree, Goto
  <2>5. CASE AwaitSlot
    BY <2>5 DEF AwaitSlot, StartWait, Goto
  <2>6. ASSUME NEW bufs \in SUBSET Buffers, NEW n \in 0 .. MaxScope, Encode(bufs, n)
        PROVE  PlaceInv'
    BY <2>6 DEF Encode, Goto
  <2>7. CASE CommitNoWait /\ pc = "mid"
    BY <2>7 DEF CommitNoWait, SubmitOnly, Submit, Goto
  <2>8. CASE AllReached
    BY <2>8 DEF AllReached, CatchUp, Return, Goto
  <2>9. CASE NextReached
    BY <2>9 DEF NextReached, CatchUp, Succeed, Return, Goto
  <2>10. CASE SlotReached
    BY <2>10 DEF SlotReached, Goto
  <2>11. CASE WaitTimeout \/ DropReached \/ FreeFields \/ DropTimeout
    BY <2>11 DEF WaitTimeout, DropReached, FreeFields, DropTimeout, Goto
  <2> QED BY <1>1, <2>1, <2>2, <2>3, <2>4, <2>5, <2>6, <2>7, <2>8, <2>9, <2>10, <2>11 DEF CallStep
<1>2. CASE CallerStep
  <2>1. CASE \E c \in {"queued", "waited"} : Dispatch(c)
    BY <2>1 DEF Dispatch, CanEnter
  <2>2. CASE Synchronize \/ MapHost \/ Unmap
    BY <2>2 DEF Synchronize, MapHost, Unmap, CanEnter
  <2>3. CASE CanEnter /\ CommitNoWait
    BY <2>3 DEF CanEnter, CommitNoWait, SubmitOnly, Submit, Goto
  <2>4. CASE EncodeFails
    BY <2>4 DEF EncodeFails, AbortBatch, Goto
  <2>5. CASE \E h \in Handles : Alloc(h) \/ Wrap(h) \/ DropBuffer(h)
    BY <2>5 DEF Alloc, Wrap, DropBuffer
  <2>6. CASE \E value \in 0 .. signaled : ReclaimTo(value)
    BY <2>6 DEF ReclaimTo
  <2>7. CASE ReleaseRuntime
    BY <2>7 DEF ReleaseRuntime, Destroy, AbortBatch, Goto
  <2> QED BY <1>2, <2>1, <2>2, <2>3, <2>4, <2>5, <2>6, <2>7 DEF CallerStep
<1>3. CASE OtherStep
  BY <1>3 DEF OtherStep, RemoteDrop, RemotePush, OrphanDrop, Destroy, AbortBatch, GpuFinish, GpuFault
<1>4. CASE UNCHANGED vars
  BY <1>4 DEF vars
<1> QED BY <1>1, <1>2, <1>3, <1>4 DEF Next

-----------------------------------------------------------------------------
(* What the command buffers record into.                                   *)

\* What each step does to the recording: no other one touches it.
LEMMA RecordingMoves ==
  ASSUME IInv, [Next]_vars
  PROVE  \/ UNCHANGED <<gpu, recording>>
         \/ batch = "open" /\ Submit
         \/ UNCHANGED recording /\ \E c \in queue : GpuFinish(c)
         \/ OpenOnFree
         \/ \E bufs \in SUBSET Buffers, n \in 0 .. MaxScope : Encode(bufs, n)
         \/ AbortBatch /\ UNCHANGED gpu
         \/ /\ queue = {} /\ ResetSlots /\ cursor' \in {0, cursor}
            /\ batch # "open" /\ batch' # "open" /\ UNCHANGED <<gpu, slot, openBufs, openConsts>>
         \/ SlotReached
<1> USE DEF gpu, recording
<1>1. CASE CallStep
  <2>1. CASE AllReached \/ NextReached
    BY <2>1, NothingInFlight DEF IInv, PlaceInv, AllReached, NextReached, CatchUp
  <2>2. CASE DropReached
    BY <2>2, NothingInFlight DEF IInv, BatchInv, PlaceInv, Destroyed, DropReached
  <2>3. CASE CheckArena \/ CommitNoWait
    BY <2>3 DEF CheckArena, CommitNoWait, SubmitOnly
  <2>4. CASE Rewind \/ CommitWait
    BY <2>4 DEF Rewind, CommitWait, CommitClosed
  <2>5. CASE AwaitSlot \/ WaitTimeout \/ FreeFields \/ DropTimeout
    BY <2>5 DEF AwaitSlot, WaitTimeout, FreeFields, DropTimeout
  <2> QED BY <1>1, <2>1, <2>2, <2>3, <2>4, <2>5 DEF CallStep
<1>2. CASE CallerStep
  BY <1>2 DEF CallerStep, Dispatch, Synchronize, MapHost, Unmap, CommitNoWait, SubmitOnly,
     EncodeFails, Alloc, Wrap, DropBuffer, ReclaimTo, ReleaseRuntime, Destroy
<1>3. CASE OtherStep
  BY <1>3 DEF OtherStep, RemoteDrop, RemotePush, OrphanDrop, Destroy, GpuFinish, GpuFault
<1>4. CASE UNCHANGED vars
  BY <1>4 DEF vars
<1> QED BY <1>1, <1>2, <1>3, <1>4 DEF Next

LEMMA SlotStep == ASSUME IInv, [Next]_vars PROVE SlotInv'
<1> USE ConstantsAssumption DEF IInv, TypeOK, Commits, SlotInv, gpu, recording
<1>1. CASE UNCHANGED <<gpu, recording>>
  BY <1>1
<1>2. CASE batch = "open" /\ Submit
  <2>1. PICK v \in (eventValue + 1) .. (eventValue + 1 + Gap) :
          /\ queue' = queue \cup {[value |-> v, slot |-> slot, bufs |-> openBufs,
                                   consts |-> openConsts]}
          /\ inFlight' = [inFlight EXCEPT ![slot] = v]
    BY <1>2 DEF Submit
  <2>2. \A c \in queue : c.slot # slot
    BY <1>2 DEF GpuInv
  <2> QED BY <1>2, <2>1, <2>2 DEF Submit
<1>3. CASE UNCHANGED recording /\ \E c \in queue : GpuFinish(c)
  BY <1>3 DEF GpuFinish
<1>4. CASE OpenOnFree
  BY <1>4 DEF OpenOnFree, FreeSlots, Slots, Goto
<1>5. CASE \E bufs \in SUBSET Buffers, n \in 0 .. MaxScope : Encode(bufs, n)
  BY <1>5 DEF Encode
<1>6. CASE AbortBatch /\ UNCHANGED gpu
  BY <1>6 DEF AbortBatch
<1>7. CASE /\ queue = {} /\ ResetSlots /\ cursor' \in {0, cursor}
           /\ batch # "open" /\ batch' # "open" /\ UNCHANGED <<gpu, slot, openBufs, openConsts>>
  BY <1>7
<1>8. CASE SlotReached
  <2>1. /\ EarlierSlot \in Slots /\ Target = inFlight[EarlierSlot] /\ Target <= signaled
        /\ Target \in Nat
    BY <1>8, EarlierReached DEF SlotReached
  <2>2. /\ inFlight' = [i \in Slots |-> IF inFlight[i] <= Target THEN 0 ELSE inFlight[i]]
        /\ slot' = EarlierSlot /\ UNCHANGED queue
    BY <1>8 DEF SlotReached, SlotsAfter
  <2>3. \A c \in queue : inFlight'[c.slot] = c.value
    BY <2>1, <2>2 DEF GpuInv
  <2> QED BY <2>1, <2>2, <2>3
<1> QED BY RecordingMoves, <1>1, <1>2, <1>3, <1>4, <1>5, <1>6, <1>7, <1>8

LEMMA ArenaStep == ASSUME IInv, [Next]_vars PROVE ArenaInv'
<1> USE ConstantsAssumption DEF IInv, TypeOK, Commits, ArenaInv, Arena, gpu, recording
<1>1. CASE UNCHANGED <<gpu, recording>>
  BY <1>1
<1>2. CASE batch = "open" /\ Submit
  <2>1. PICK v \in (eventValue + 1) .. (eventValue + 1 + Gap) :
          queue' = queue \cup {[value |-> v, slot |-> slot, bufs |-> openBufs,
                                consts |-> openConsts]}
    BY <1>2 DEF Submit
  <2>2. openConsts' = {} /\ cursor' = cursor
    BY <1>2 DEF Submit
  <2>3. \A c \in queue' : c \in queue \/ c.consts = openConsts
    BY <2>1
  <2>4. ASSUME NEW c \in queue', NEW d \in queue', c # d PROVE c.consts \cap d.consts = {}
    <3>1. CASE c \in queue /\ d \in queue
      BY <2>4, <3>1
    <3>2. CASE c \in queue /\ d \notin queue
      BY <2>3, <3>2
    <3>3. CASE c \notin queue /\ d \in queue
      BY <2>3, <3>3
    <3> QED BY <2>1, <2>4, <3>1, <3>2, <3>3
  <2>5. \A c \in queue' : c.consts \subseteq 0 .. (cursor - 1)
    BY <2>3
  <2> QED BY <2>2, <2>4, <2>5
<1>3. CASE UNCHANGED recording /\ \E c \in queue : GpuFinish(c)
  BY <1>3 DEF GpuFinish
<1>4. CASE OpenOnFree
  BY <1>4 DEF OpenOnFree
<1>5. ASSUME NEW bufs \in SUBSET Buffers, NEW n \in 0 .. MaxScope, Encode(bufs, n)
      PROVE  ArenaInv'
  <2>1. /\ openConsts' = openConsts \cup (cursor .. (cursor + n - 1))
        /\ cursor' = cursor + n /\ queue' = queue
    BY <1>5 DEF Encode
  <2>2. \A c \in queue : c.consts \cap (cursor .. (cursor + n - 1)) = {}
    OBVIOUS
  <2> QED BY <2>1, <2>2
<1>6. CASE AbortBatch /\ UNCHANGED gpu
  BY <1>6 DEF AbortBatch
<1>7. CASE /\ queue = {} /\ ResetSlots /\ cursor' \in {0, cursor}
           /\ batch # "open" /\ batch' # "open" /\ UNCHANGED <<gpu, slot, openBufs, openConsts>>
  BY <1>7 DEF PlaceInv
<1>8. CASE SlotReached
  BY <1>8 DEF SlotReached
<1> QED BY RecordingMoves, <1>1, <1>2, <1>3, <1>4, <1>5, <1>6, <1>7, <1>8

-----------------------------------------------------------------------------
(* What the batch says is in flight.                                       *)

LEMMA BatchStep == ASSUME IInv, [Next]_vars PROVE BatchInv'
<1> USE DEF IInv, BatchInv, InCall, Destroyed, health, gpu, recording, memory, thread
<1>m. \A v \in Nat : v > 0 /\ inFlight' = [inFlight EXCEPT ![slot] = v] => MaxInFlight' # 0
  BY DEF TypeOK, Slots, MaxInFlight
<1>s. ASSUME Submit PROVE MaxInFlight' # 0 /\ batch' = "closed"
  <2>1. PICK v \in (eventValue + 1) .. (eventValue + 1 + Gap) :
          inFlight' = [inFlight EXCEPT ![slot] = v]
    BY <1>s DEF Submit
  <2>2. v \in Nat /\ v > 0
    BY ConstantsAssumption DEF TypeOK
  <2> QED BY <1>s, <1>m, <2>1, <2>2 DEF Submit
<1>e. ASSUME MaxInFlight = 0 PROVE queue = {}
  <2>1. SUFFICES ASSUME NEW c \in queue PROVE FALSE
    OBVIOUS
  <2>2. c.slot \in {1, 2} /\ inFlight[1] \in Nat /\ inFlight[2] \in Nat /\ inFlight[c.slot] > 0
    BY DEF SlotInv, GpuInv, TypeOK, Commits, Slots
  <2> QED BY <1>e, <2>2 DEF MaxInFlight
<1>u. UNCHANGED inFlight => MaxInFlight' = MaxInFlight
  BY DEF MaxInFlight
<1>1. CASE CallStep
  <2>1. CASE CheckArena
    BY <2>1, <1>s, <1>u DEF CheckArena, SubmitOnly, Goto, PlaceInv
  <2>2. CASE Rewind
    BY <2>2, <1>u DEF Rewind, CommitClosed, Succeed, Return, StartWait, Goto, PlaceInv
  <2>3. CASE CommitWait
    <3>1. CASE CommitClosed("waitAll")
      BY <2>3, <3>1, <1>u DEF CommitWait, CommitClosed, Succeed, Return, StartWait, Goto, PlaceInv
    <3>2. CASE Submit /\ StartWait("waitNext")
      BY <2>3, <3>2, <1>s DEF CommitWait, StartWait, Goto, PlaceInv
    <3> QED BY <2>3, <3>1, <3>2 DEF CommitWait
  <2>4. CASE OpenOnFree
    BY <2>4, <1>u DEF OpenOnFree, Goto, PlaceInv
  <2>5. CASE AwaitSlot
    BY <2>5, <1>u DEF AwaitSlot, StartWait, Goto, PlaceInv
  <2>6. ASSUME NEW bufs \in SUBSET Buffers, NEW n \in 0 .. MaxScope, Encode(bufs, n)
        PROVE  BatchInv'
    BY <2>6, <1>u DEF Encode, Goto, PlaceInv
  <2>7. CASE CommitNoWait /\ pc = "mid"
    BY <2>7, <1>s DEF CommitNoWait, SubmitOnly, Goto, PlaceInv
  <2>8. CASE AllReached
    BY <2>8, NothingInFlight DEF AllReached, CatchUp, Return, Goto, PlaceInv
  <2>9. CASE NextReached
    BY <2>9, NothingInFlight DEF NextReached, CatchUp, Succeed, Return, Goto, PlaceInv
  <2>10. CASE SlotReached
    BY <2>10 DEF SlotReached, Goto, PlaceInv
  <2>11. CASE WaitTimeout \/ FreeFields \/ DropTimeout
    <3>1. CASE WaitTimeout
      <4>1. poisoned => poisoned'
        BY <3>1, Zenon DEF WaitTimeout
      <4> QED BY <3>1, <4>1, <1>u DEF WaitTimeout, Waits, Goto, PlaceInv
    <3>2. CASE DropTimeout
      BY <3>2, <1>u DEF DropTimeout, Goto, PlaceInv
    <3>3. CASE FreeFields
      BY <3>3, <1>u DEF FreeFields, Goto, PlaceInv
    <3> QED BY <2>11, <3>1, <3>2, <3>3
  <2>12. CASE DropReached
    BY <2>12, NothingInFlight DEF DropReached, Goto, PlaceInv
  <2> QED BY <1>1, <2>1, <2>2, <2>3, <2>4, <2>5, <2>6, <2>7, <2>8, <2>9, <2>10, <2>11, <2>12 DEF CallStep
<1>2. CASE CallerStep
  <2>1. CASE \E c \in {"queued", "waited"} : Dispatch(c)
    BY <2>1, <1>u DEF Dispatch, CanEnter
  <2>2. CASE Synchronize \/ MapHost \/ Unmap
    BY <2>2, <1>u DEF Synchronize, MapHost, Unmap, CanEnter
  <2>3. CASE CanEnter /\ CommitNoWait
    BY <2>3, <1>s DEF CanEnter, CommitNoWait, SubmitOnly, Goto
  <2>4. CASE EncodeFails
    BY <2>4, <1>u DEF EncodeFails, AbortBatch, Goto, PlaceInv
  <2>5. CASE \E h \in Handles : Alloc(h) \/ Wrap(h) \/ DropBuffer(h)
    BY <2>5, <1>u DEF Alloc, Wrap, DropBuffer
  <2>6. CASE \E value \in 0 .. signaled : ReclaimTo(value)
    BY <2>6, <1>u DEF ReclaimTo
  <2>7. CASE ReleaseRuntime
    BY <2>7, <1>u, <1>e DEF ReleaseRuntime, Destroy, AbortBatch, Goto
  <2> QED BY <1>2, <2>1, <2>2, <2>3, <2>4, <2>5, <2>6, <2>7 DEF CallerStep
<1>3. CASE OtherStep
  <2>1. ASSUME NEW h \in Handles, RemoteDrop(h) \/ OrphanDrop(h) PROVE BatchInv'
    BY <2>1, <1>u DEF RemoteDrop, OrphanDrop
  <2>2. ASSUME NEW h \in Handles, RemotePush(h) PROVE BatchInv'
    <3>1. CASE Destroy("other")
      BY <2>2, <3>1, <1>u, <1>e DEF RemotePush, Destroy, AbortBatch, PlaceInv
    <3>2. CASE UNCHANGED <<recording, thread>>
      BY <2>2, <3>2, <1>u DEF RemotePush
    <3> QED BY <2>2, <3>1, <3>2 DEF RemotePush
  <2>3. ASSUME NEW c \in queue, GpuFinish(c) PROVE BatchInv'
    BY <2>3, <1>u DEF GpuFinish
  <2>4. CASE GpuFault
    BY <2>4, <1>u DEF GpuFault
  <2> QED BY <1>3, <2>1, <2>2, <2>3, <2>4 DEF OtherStep
<1>4. CASE UNCHANGED vars
  BY <1>4, <1>u DEF vars
<1> QED BY <1>1, <1>2, <1>3, <1>4 DEF Next

-----------------------------------------------------------------------------
(* What holds the buffers in use.                                          *)

\* No value a command in use waits for loses its handle in this step.
Kept == \A h \in Handles, value \in signaled .. eventValue :
          Anchors(h, value) => Anchors(h, value)'

\* What each step does to the memory, and to what may use it.
LEMMA MemoryMoves ==
  ASSUME IInv, [Next]_vars
  PROVE  \/ openBufs' \subseteq openBufs /\ UNCHANGED <<gpu, memory>>
         \/ \E bufs \in SUBSET Buffers, n \in 0 .. MaxScope : Encode(bufs, n)
         \/ \E c \in queue : GpuFinish(c)
         \/ Submit /\ \/ Drain(Completed(signaled), resident, resident)
                      \/ committed' = resident /\ UNCHANGED <<where, after, resident>>
         \/ /\ UNCHANGED <<gpu, openBufs>>
            /\ \E value \in 0 .. signaled : DrainTo(value)
         \/ /\ queue = {} /\ openBufs = {} /\ DrainAll
            /\ UNCHANGED <<gpu, openBufs>>
         \/ \E h \in Handles : Alloc(h) \/ Wrap(h) \/ DropBuffer(h) \/ RemoteDrop(h)
         \/ \E h \in Handles : RemotePush(h) \/ OrphanDrop(h)
         \/ FreeFields
<1> USE DEF gpu, recording, memory
<1>1. CASE CallStep
  <2>1. CASE AllReached \/ NextReached
    BY <2>1, NothingInFlight DEF IInv, PlaceInv, AllReached, NextReached, CatchUp
  <2>2. CASE SlotReached
    <3>1. Target \in 0 .. signaled
      BY <2>2, EarlierReached DEF SlotReached, IInv, TypeOK
    <3> QED BY <2>2, <3>1 DEF SlotReached
  <2>3. CASE CheckArena \/ CommitNoWait
    BY <2>3 DEF CheckArena, CommitNoWait, SubmitOnly
  <2>4. CASE Rewind
    <3>1. batch = "none" => queue = {} /\ openBufs = {}
      BY <2>4 DEF Rewind, IInv, BatchInv, PlaceInv, InCall, Destroyed
    <3> QED BY <2>4, <3>1 DEF Rewind, CommitClosed
  <2>5. CASE CommitWait
    <3>1. batch = "none" => queue = {} /\ openBufs = {}
      BY <2>5 DEF CommitWait, IInv, BatchInv, PlaceInv, InCall, Destroyed
    <3> QED BY <2>5, <3>1 DEF CommitWait, CommitClosed
  <2>6. CASE OpenOnFree \/ AwaitSlot \/ WaitTimeout \/ DropReached \/ DropTimeout
    BY <2>6 DEF OpenOnFree, AwaitSlot, WaitTimeout, DropReached, DropTimeout
  <2> QED BY <1>1, <2>1, <2>2, <2>3, <2>4, <2>5, <2>6 DEF CallStep
<1>2. CASE CallerStep
  <2>1. CASE \E value \in 0 .. signaled : ReclaimTo(value)
    BY <2>1 DEF ReclaimTo, IInv, TypeOK
  <2>2. CASE CommitNoWait \/ EncodeFails \/ ReleaseRuntime
    BY <2>2 DEF CommitNoWait, SubmitOnly, EncodeFails, ReleaseRuntime, Destroy, AbortBatch
  <2> QED BY <1>2, <2>1, <2>2 DEF CallerStep, Dispatch, Synchronize, MapHost, Unmap
<1>3. CASE OtherStep
  BY <1>3 DEF OtherStep, GpuFault
<1>4. CASE UNCHANGED vars
  BY <1>4 DEF vars
<1> QED BY <1>1, <1>2, <1>3, <1>4 DEF Next

\* A handle still held is not the last one of its buffer to go.
LEMMA HeldIsWrapped ==
  ASSUME IInv, pc # "gone", NEW S \in SUBSET Handles, NEW h \in Handles \ S, where[h] # "free"
  PROVE  of[h] \in resident \ Unwrapped(S)
<1> QED BY DEF IInv, AnchorInv, Unwrapped

\* A release the event reached is no anchor of a command in use.
LEMMA ReleasedIsDone ==
  ASSUME IInv, NEW value \in Int, value <= signaled,
         NEW rset, NEW cset, Drain(Completed(value), rset, cset)
  PROVE  /\ Kept
         /\ \A h \in Handles, v \in signaled .. eventValue : Anchors(h, v) => h \notin Completed(value)
         /\ \A h \in Handles : where'[h] # "free" => where[h] # "free" /\ h \notin Completed(value)
<1> QED BY DEF IInv, TypeOK, Drain, Kept, Anchors, Completed

\* What keeps the anchors, with the same commits, keeps what they are for.
LEMMA AnchorsKept ==
  ASSUME IInv, Kept, UNCHANGED gpu, openBufs' \subseteq openBufs
  PROVE  /\ \A b \in openBufs' : \E h \in Handles : of[h] = b /\ Anchors(h, eventValue)'
         /\ \A c \in queue' : \A b \in c.bufs : \E h \in Handles :
              /\ of[h] = b /\ Anchors(h, signaled)'
              /\ \A d \in queue' : d.value < c.value => Anchors(h, d.value)'
<1> USE DEF IInv, TypeOK, GpuInv, AnchorInv, gpu, Kept
<1>1. eventValue \in signaled .. eventValue /\ signaled \in signaled .. eventValue
  OBVIOUS
<1>2. \A d \in queue : d.value \in signaled .. eventValue
  BY DEF Commits
<1>3. ASSUME NEW b \in openBufs' PROVE \E h \in Handles : of[h] = b /\ Anchors(h, eventValue)'
  <2>1. PICK h \in Handles : of[h] = b /\ Anchors(h, eventValue)
    BY <1>3
  <2> QED BY <1>1, <2>1 DEF Anchors
<1>4. ASSUME NEW c \in queue', NEW b \in c.bufs
      PROVE  \E h \in Handles : /\ of[h] = b /\ Anchors(h, signaled)'
                                /\ \A d \in queue' : d.value < c.value => Anchors(h, d.value)'
  <2>1. PICK h \in Handles : /\ of[h] = b /\ Anchors(h, signaled)
                             /\ \A d \in queue : d.value < c.value => Anchors(h, d.value)
    BY <1>4
  <2> QED BY <1>1, <1>2, <2>1 DEF Anchors
<1> QED BY <1>3, <1>4

\* The buffers of a new commit become those of the commits in use.
LEMMA AnchorsSubmitted ==
  ASSUME IInv, Kept, Submit
  PROVE  /\ \A b \in openBufs' : \E h \in Handles : of[h] = b /\ Anchors(h, eventValue)'
         /\ \A c \in queue' : \A b \in c.bufs : \E h \in Handles :
              /\ of[h] = b /\ Anchors(h, signaled)'
              /\ \A d \in queue' : d.value < c.value => Anchors(h, d.value)'
<1> USE DEF IInv, TypeOK, GpuInv, AnchorInv, Kept, Commits
<1>1. PICK v \in (eventValue + 1) .. (eventValue + 1 + Gap) :
        /\ eventValue' = v
        /\ queue' = queue \cup {[value |-> v, slot |-> slot, bufs |-> openBufs,
                                 consts |-> openConsts]}
  BY DEF Submit
<1> DEFINE new == [value |-> v, slot |-> slot, bufs |-> openBufs, consts |-> openConsts]
<1>2. v \in Nat /\ v > eventValue /\ signaled' = signaled /\ openBufs' = {}
  BY <1>1, ConstantsAssumption DEF Submit
<1>3. new.value = v /\ new.bufs = openBufs
  OBVIOUS
<1>4. \A d \in queue : d.value \in signaled .. eventValue /\ signaled < d.value /\ d.value < v
  BY <1>2
<1>5. ASSUME NEW c \in queue, NEW b \in c.bufs
      PROVE  \E h \in Handles : /\ of[h] = b /\ Anchors(h, signaled)'
                                /\ \A d \in queue' : d.value < c.value => Anchors(h, d.value)'
  <2>1. PICK h \in Handles : /\ of[h] = b /\ Anchors(h, signaled)
                             /\ \A d \in queue : d.value < c.value => Anchors(h, d.value)
    BY <1>5
  <2>2. \A d \in queue' : d.value < c.value => d \in queue
    BY <1>1, <1>3, <1>4
  <2> QED BY <1>2, <1>4, <2>1, <2>2 DEF Anchors
<1>6. ASSUME NEW b \in openBufs
      PROVE  \E h \in Handles : /\ of[h] = b /\ Anchors(h, signaled)'
                                /\ \A d \in queue' : d.value < v => Anchors(h, d.value)'
  <2>1. PICK h \in Handles : of[h] = b /\ Anchors(h, eventValue)
    BY <1>6
  <2>2. \A x \in signaled .. eventValue : Anchors(h, x)
    BY <2>1 DEF Anchors
  <2>3. \A d \in queue' : d.value < v => d.value \in signaled .. eventValue
    BY <1>1, <1>3, <1>4
  <2> QED BY <1>2, <2>1, <2>2, <2>3 DEF Anchors
<1> QED BY <1>1, <1>2, <1>3, <1>5, <1>6

\* A runtime whose fields are gone does nothing more.
LEMMA GoneStays == ASSUME IInv, [Next]_vars, pc = "gone" PROVE pc' = "gone"
<1> USE DEF Waits, CanEnter, thread
<1>1. CASE CallStep
  BY <1>1 DEF CallStep, CheckArena, Rewind, CommitWait, OpenOnFree, AwaitSlot, Encode, AllReached,
     NextReached, SlotReached, WaitTimeout, DropReached, FreeFields, DropTimeout
<1>2. CASE CallerStep
  BY <1>2 DEF CallerStep, Dispatch, Synchronize, MapHost, Unmap, CommitNoWait, EncodeFails, Alloc,
     Wrap, DropBuffer, ReclaimTo, ReleaseRuntime
<1>3. CASE OtherStep
  BY <1>3 DEF OtherStep, RemoteDrop, RemotePush, OrphanDrop, GpuFinish, GpuFault
<1>4. CASE UNCHANGED vars
  BY <1>4 DEF vars
<1> QED BY <1>1, <1>2, <1>3, <1>4 DEF Next

LEMMA AnchorStep == ASSUME IInv, [Next]_vars PROVE AnchorInv'
<1> USE DEF AnchorInv, gpu, memory
<1>g. CASE pc' = "gone"
  <2>1. queue' = {} /\ openBufs' = {}
    BY <1>g, BatchStep, PlaceStep DEF BatchInv, PlaceInv, Destroyed
  <2> QED BY <1>g, <2>1
<1> SUFFICES ASSUME pc' # "gone" PROVE AnchorInv'
  BY <1>g
<1>p. pc # "gone"
  BY GoneStays
<1> DEFINE Held == \A h \in Handles : where[h] # "free" => of[h] \in resident
<1>h. IInv => Held /\ \A c \in queue : c.bufs \subseteq committed
  BY <1>p DEF IInv
<1>t. TypeOK
  BY DEF IInv
<1>a. \A c \in queue : \A b \in c.bufs :
        \E h \in Handles : of[h] = b /\ Anchors(h, signaled) /\ where[h] # "free"
  BY DEF IInv, Anchors
<1>o. \A b \in openBufs : \E h \in Handles : of[h] = b /\ Anchors(h, eventValue) /\ where[h] # "free"
  BY DEF IInv, Anchors
<1>v. signaled \in signaled .. eventValue /\ eventValue \in signaled .. eventValue
  BY DEF IInv, TypeOK, GpuInv
<1>1. CASE openBufs' \subseteq openBufs /\ UNCHANGED <<gpu, memory>>
  <2>1. Kept
    BY <1>1 DEF Kept, Anchors
  <2> QED BY <1>1, <1>h, <2>1, AnchorsKept
<1>2. ASSUME NEW bufs \in SUBSET Buffers, NEW n \in 0 .. MaxScope, Encode(bufs, n)
      PROVE  AnchorInv'
  <2>1. openBufs' = openBufs \cup bufs /\ UNCHANGED <<gpu, memory>>
    BY <1>2 DEF Encode
  <2>2. \A b \in bufs : \E h \in Handles : of[h] = b /\ Anchors(h, eventValue)
    BY <1>2 DEF Encode, Anchors
  <2> QED BY <2>1, <2>2, <1>h DEF IInv, Anchors
<1>3. ASSUME NEW c \in queue, GpuFinish(c) PROVE AnchorInv'
  <2>1. /\ signaled' = c.value /\ queue' = queue \ {c}
        /\ \A d \in queue' : d.value > c.value /\ d \in queue
        /\ UNCHANGED <<eventValue, openBufs, memory>>
    BY <1>3, <1>t DEF GpuFinish, IInv, GpuInv, TypeOK, Commits, recording
  <2> QED BY <2>1, <1>h DEF IInv, Anchors
<1>4. CASE Submit /\ Drain(Completed(signaled), resident, resident)
  <2>1. /\ Kept
        /\ \A h \in Handles : Anchors(h, signaled) => h \notin Completed(signaled)
        /\ \A h \in Handles : Anchors(h, eventValue) => h \notin Completed(signaled)
        /\ \A h \in Handles : where'[h] # "free" => where[h] # "free" /\ h \notin Completed(signaled)
    BY <1>4, <1>t, <1>v, ReleasedIsDone DEF TypeOK
  <2>2. Completed(signaled) \in SUBSET Handles
    BY DEF Completed
  <2>3. \A h \in Handles : where[h] # "free" /\ h \notin Completed(signaled)
          => of[h] \in resident \ Unwrapped(Completed(signaled))
    BY <1>p, <2>2, HeldIsWrapped
  <2>4. /\ resident' = resident \ Unwrapped(Completed(signaled))
        /\ committed' = resident \/ committed' = resident'
        /\ resident' \subseteq resident
    BY <1>4 DEF Drain
  <2>5. \A h \in Handles : where'[h] # "free" => of[h] \in resident'
    BY <2>1, <2>3, <2>4
  <2>6. \A c \in queue' : c \in queue \/ c.bufs = openBufs
    BY <1>4 DEF Submit
  <2>7. \A c \in queue' : c.bufs \subseteq resident'
    BY <2>1, <2>3, <2>4, <2>6, <1>a, <1>o
  <2> QED BY <1>4, <2>1, <2>4, <2>5, <2>7, AnchorsSubmitted
<1>5. CASE Submit /\ committed' = resident /\ UNCHANGED <<where, after, resident>>
  <2>1. Kept
    BY <1>5 DEF Kept, Anchors
  <2>2. \A c \in queue' : c \in queue \/ c.bufs = openBufs
    BY <1>5 DEF Submit
  <2>3. \A c \in queue' : c.bufs \subseteq resident
    BY <2>2, <1>a, <1>o, <1>h
  <2> QED BY <1>5, <1>h, <2>1, <2>3, AnchorsSubmitted
<1>6. ASSUME UNCHANGED <<gpu, openBufs>>, NEW value \in 0 .. signaled, DrainTo(value)
      PROVE  AnchorInv'
  <2>1. /\ Kept
        /\ \A h \in Handles : Anchors(h, signaled) => h \notin Completed(value)
        /\ \A h \in Handles : where'[h] # "free" => where[h] # "free" /\ h \notin Completed(value)
    BY <1>6, <1>t, <1>v, ReleasedIsDone DEF TypeOK, DrainTo
  <2>2. Completed(value) \in SUBSET Handles
    BY DEF Completed
  <2>3. \A h \in Handles : where[h] # "free" /\ h \notin Completed(value)
          => of[h] \in resident \ Unwrapped(Completed(value))
    BY <1>p, <2>2, HeldIsWrapped
  <2>4. /\ resident' = resident \ Unwrapped(Completed(value))
        /\ committed' = committed \/ committed' = resident'
    BY <1>6 DEF Drain, DrainTo
  <2>5. \A h \in Handles : where'[h] # "free" => of[h] \in resident'
    BY <2>1, <2>3, <2>4
  <2>6. \A c \in queue' : c.bufs \subseteq resident'
    BY <1>6, <2>1, <2>3, <2>4, <1>a
  <2> QED BY <1>6, <1>h, <2>1, <2>4, <2>5, <2>6, AnchorsKept
<1>7. CASE queue = {} /\ openBufs = {} /\ DrainAll /\ UNCHANGED <<gpu, openBufs>>
  <2>1. \A h \in Handles : where'[h] # "free" => where[h] # "free" /\ h \notin Deferred
    BY <1>7, <1>t DEF DrainAll, Drain, TypeOK
  <2>2. Deferred \in SUBSET Handles /\ resident' = resident \ Unwrapped(Deferred)
    BY <1>7 DEF DrainAll, Drain, Deferred
  <2>3. \A h \in Handles : where'[h] # "free" => of[h] \in resident'
    BY <1>p, <2>1, <2>2, HeldIsWrapped
  <2> QED BY <1>7, <2>3
<1>8. ASSUME NEW h \in Handles, Alloc(h) PROVE AnchorInv'
  <2>1. UNCHANGED <<gpu, openBufs>>
    BY <1>8 DEF Alloc, recording
  <2>2. CASE IdleGpu
    <3>1. queue = {} /\ openBufs = {}
      BY <2>2, <1>t DEF IdleGpu, IInv, GpuInv, PlaceInv, TypeOK, Commits
    <3>2. /\ where' = [g \in Handles |-> IF g = h THEN "live"
                                         ELSE IF g \in Deferred THEN "free" ELSE where[g]]
          /\ resident' = (resident \ Unwrapped(Deferred)) \cup {of[h]}
      BY <1>8, <2>2 DEF Alloc
    <3>3. Deferred \in SUBSET Handles
      BY DEF Deferred
    <3>4. ASSUME NEW g \in Handles, where'[g] # "free", g # h
          PROVE  where[g] # "free" /\ g \notin Deferred
      <4>1. where'[g] = IF g \in Deferred THEN "free" ELSE where[g]
        BY <3>2, <3>4
      <4> QED BY <4>1, <3>4
    <3>5. \A g \in Handles : where'[g] # "free" => of[g] \in resident'
      BY <1>p, <3>2, <3>3, <3>4, HeldIsWrapped
    <3> QED BY <2>1, <3>1, <3>5
  <2>3. CASE ~IdleGpu
    <3>1. Unwrapped({}) = {}
      BY DEF Unwrapped
    <3>2. /\ where[h] = "free"
          /\ where' = [g \in Handles |-> IF g = h THEN "live" ELSE where[g]]
          /\ resident' = resident \cup {of[h]}
          /\ committed' = committed
          /\ after' = [g \in Handles |-> after[g]]
      BY <1>8, <2>3, <3>1 DEF Alloc
    <3>3. Kept
      BY <3>2 DEF Kept, Anchors
    <3> QED BY <2>1, <3>2, <3>3, <1>h, AnchorsKept
  <2> QED BY <2>2, <2>3
<1>9. ASSUME NEW h \in Handles, Wrap(h) PROVE AnchorInv'
  <2>1. /\ where[h] = "free" /\ where' = [where EXCEPT ![h] = "live"]
        /\ UNCHANGED <<gpu, openBufs, after, committed>>
    BY <1>9 DEF Wrap, recording
  <2>2. Kept
    BY <2>1, <1>t DEF Kept, Anchors, TypeOK
  <2>3. resident \subseteq resident' /\ of[h] \in resident'
    BY <1>9, <1>h DEF Wrap
  <2>4. \A g \in Handles : where'[g] # "free" => of[g] \in resident'
    BY <2>1, <2>3, <1>h, <1>t DEF TypeOK
  <2> QED BY <2>1, <2>2, <2>4, <1>h, AnchorsKept
<1>10. ASSUME NEW h \in Handles, DropBuffer(h) \/ RemoteDrop(h) PROVE AnchorInv'
  <2>1. /\ where[h] = "live" /\ where' \in {[where EXCEPT ![h] = "deferred"], [where EXCEPT ![h] = "leaving"]}
        /\ after' = [after EXCEPT ![h] = eventValue + 1]
        /\ UNCHANGED <<gpu, openBufs, resident, committed>>
    BY <1>10 DEF DropBuffer, RemoteDrop, ReleasePoint, recording
  <2>2. \A g \in Handles : /\ where'[g] # "free" => where[g] # "free"
                           /\ g # h => where'[g] = where[g] /\ after'[g] = after[g]
                           /\ g = h => where'[g] \in {"leaving", "deferred"} /\ after'[g] = eventValue + 1
    BY <2>1, <1>t DEF TypeOK
  <2>3. Kept
    BY <2>2, <1>t DEF Kept, Anchors, TypeOK
  <2> QED BY <2>1, <2>2, <2>3, <1>h, AnchorsKept
<1>11. ASSUME NEW h \in Handles, RemotePush(h) PROVE AnchorInv'
  <2>1. /\ where[h] = "leaving" /\ where' = [where EXCEPT ![h] = "deferred"]
        /\ UNCHANGED <<gpu, after, resident, committed>> /\ openBufs' \subseteq openBufs
    BY <1>11 DEF RemotePush, Destroy, AbortBatch, recording
  <2>2. Kept
    BY <2>1, <1>t DEF Kept, Anchors, TypeOK
  <2>3. \A g \in Handles : where'[g] # "free" => where[g] # "free"
    BY <2>1, <1>t DEF TypeOK
  <2> QED BY <2>1, <2>2, <2>3, <1>h, AnchorsKept
<1>12. ASSUME NEW h \in Handles, OrphanDrop(h) PROVE AnchorInv'
  <2>1. /\ where[h] = "live" /\ where' = [where EXCEPT ![h] = "dropped"]
        /\ UNCHANGED <<gpu, after, resident, committed, openBufs>>
    BY <1>12, <1>p DEF OrphanDrop, recording
  <2>2. Kept
    BY <2>1, <1>t DEF Kept, Anchors, TypeOK
  <2>3. \A g \in Handles : where'[g] # "free" => where[g] # "free"
    BY <2>1, <1>t DEF TypeOK
  <2> QED BY <2>1, <2>2, <2>3, <1>h, AnchorsKept
<1>13. CASE FreeFields
  BY <1>13 DEF FreeFields, Goto
<1> QED BY MemoryMoves, <1>1, <1>2, <1>3, <1>4, <1>5, <1>6, <1>7, <1>8, <1>9, <1>10, <1>11, <1>12, <1>13

-----------------------------------------------------------------------------
(* The invariant, and what follows from it.                                *)

LEMMA InitInvariant == Init => IInv
<1> SUFFICES ASSUME Init PROVE IInv
  OBVIOUS
<1> USE ConstantsAssumption DEF Init
<1>1. TypeOK
  <2>1. /\ inFlight \in [Slots -> Nat] /\ cursor \in 0 .. ArenaSize /\ slot \in Slots
        /\ where \in [Handles -> Stages] /\ after \in [Handles -> Nat]
    BY DEF Slots, Stages
  <2>2. pc \in PcStates /\ call \in Calls
    BY DEF PcStates, Calls
  <2> QED BY <2>1, <2>2 DEF TypeOK
<1>2. GpuInv /\ PlaceInv /\ SlotInv /\ ArenaInv
  BY DEF GpuInv, PlaceInv, SlotInv, ArenaInv
<1>3. BatchInv
  BY DEF BatchInv, InCall, Destroyed
<1>4. AnchorInv
  BY DEF AnchorInv
<1> QED BY <1>1, <1>2, <1>3, <1>4 DEF IInv

\* What the GPU, the pool, the slots, the arena, the batch and the anchors say of
\* each other holds throughout: every step preserves all of it together.
THEOREM Inductive == Spec => []IInv
<1>1. IInv /\ [Next]_vars => IInv'
  <2> SUFFICES ASSUME IInv, [Next]_vars PROVE IInv'
    OBVIOUS
  <2>1. TypeOK'
    BY TypeStep DEF IInv
  <2> QED BY <2>1, GpuStep, PlaceStep, SlotStep, ArenaStep, BatchStep, AnchorStep DEF IInv
<1> QED BY <1>1, InitInvariant, PTL DEF Spec

\* Every variable of the runtime has its type: in particular no slot, cursor or
\* event value leaves its range, however calls, faults and drops interleave.
THEOREM TypeCorrect == Spec => []TypeOK
<1>1. IInv => TypeOK
  BY DEF IInv
<1> QED BY <1>1, Inductive, PTL

\* What a command buffer records into is its own until it finished.
THEOREM RecordingCorrect == Spec => []RecordingExclusive
<1>1. IInv => RecordingExclusive
  BY DEF IInv, SlotInv, ArenaInv, RecordingExclusive
<1> QED BY <1>1, Inductive, PTL

\* A command executes with every buffer it binds resident, until it finishes.
THEOREM ResidencyCorrect == Spec => []ResidentWhileRunning
<1>1. IInv => ResidentWhileRunning
  BY DEF IInv, AnchorInv, ResidentWhileRunning
<1> QED BY <1>1, Inductive, PTL

\* While a host mapping is live the GPU has nothing to do and nothing queued.
THEOREM MappingCorrect == Spec => []MappingExcludesGpu
<1>1. IInv => MappingExcludesGpu
  BY DEF IInv, BatchInv, MappingExcludesGpu
<1> QED BY <1>1, Inductive, PTL

\* The batch alone tells a waiting commit whether anything is in flight, and the
\* destructor frees the runtime's objects only when nothing is.
THEOREM BatchCorrect == Spec => []BatchTracksWork
<1>1. IInv => BatchTracksWork
  BY DEF IInv, BatchInv, BatchTracksWork
<1> QED BY <1>1, Inductive, PTL


------------------------------------------------------------------------------
(***************************************************************************)
(* The runtime of GpuRuntime.tla implements the contract on memory that    *)
(* BufferLifetime.tla states, for any number of pooled buffers, of buffers *)
(* of the caller's and of wraps of those: memory that commands use is      *)
(* neither reused nor destroyed before they finish.                        *)
(*                                                                         *)
(* A pooled buffer has one handle.  AnchorInv says that the handle of one  *)
(* in use is live, or is released at a value the event has not reached, so *)
(* no drain takes it: what a drain takes is the contract's Reclaimable.    *)
(***************************************************************************)

Pooled == Buffers \ External

HandleOf(b) == CHOOSE h \in Handles : of[h] = b

\* The contract's variables, as the mapping of GpuRuntime.tla defines them.
Owner == [b \in Pooled |->
            CASE Stage(b) = "free" -> "free"
              [] Stage(b) = "live" -> "owned"
              [] OTHER -> "released"]

Users == InUse \ External

\* The only handle of a pooled buffer is the one its stage is read from.
LEMMA HandleIsOne ==
  ASSUME NEW h \in Handles, of[h] \in Pooled
  PROVE  HandleOf(of[h]) = h
<1>1. \E g \in Handles : of[g] = of[h]
  OBVIOUS
<1>2. HandleOf(of[h]) \in Handles /\ of[HandleOf(of[h])] = of[h]
  BY <1>1 DEF HandleOf
<1> QED BY <1>2, ConstantsAssumption DEF Pooled

LEMMA PooledHasHandle ==
  ASSUME NEW b \in Pooled
  PROVE  HandleOf(b) \in Handles /\ of[HandleOf(b)] = b
<1> QED BY ConstantsAssumption DEF Pooled, HandleOf

\* The owner of a pooled buffer is read from its handle alone.
LEMMA OwnerOf ==
  ASSUME NEW b \in Pooled
  PROVE  /\ Owner[b] = CASE where[HandleOf(b)] = "free" -> "free"
                         [] where[HandleOf(b)] = "live" -> "owned"
                         [] OTHER -> "released"
         /\ Owner'[b] = CASE where'[HandleOf(b)] = "free" -> "free"
                          [] where'[HandleOf(b)] = "live" -> "owned"
                          [] OTHER -> "released"
<1> QED BY DEF Owner, Stage, HandleOf

LEMMA OwnerFrame ==
  ASSUME \A b \in Pooled : Owner'[b] = Owner[b]
  PROVE  Owner' = Owner
<1> QED BY DEF Owner

\* A pooled buffer in use has not been given back, nor can a drain take it.
LEMMA UserIsHeld ==
  ASSUME IInv, NEW b \in Users
  PROVE  b \in Pooled /\ Anchors(HandleOf(b), signaled)
<1> USE DEF IInv, TypeOK, Commits, Users, InUse, Pooled
<1>1. \E h \in Handles : of[h] = b /\ Anchors(h, signaled)
  <2>1. CASE b \in openBufs
    <3>1. PICK h \in Handles : of[h] = b /\ Anchors(h, eventValue)
      BY <2>1 DEF AnchorInv
    <3>2. signaled <= eventValue
      BY DEF GpuInv
    <3> QED BY <3>1, <3>2 DEF Anchors
  <2>2. CASE \E c \in queue : b \in c.bufs
    BY <2>2 DEF AnchorInv
  <2> QED BY <2>1, <2>2
<1> QED BY <1>1, HandleIsOne

-----------------------------------------------------------------------------
(* The steps of the contract.                                              *)

\* Steps that change no owner, and only end uses.
LEMMA FinishStep ==
  ASSUME Owner' = Owner, Users' \subseteq Users
  PROVE  Lifetime!Next
<1> QED BY DEF Lifetime!Next, Lifetime!Finish, Owner, Users, Pooled

\* A drain whose handles have no pooled buffer in use.
LEMMA DrainReclaims ==
  ASSUME IInv, NEW S \in SUBSET Deferred, NEW rset, NEW cset, Drain(S, rset, cset),
         \A h \in S : of[h] \notin Users, Users' = Users
  PROVE  Lifetime!Next
<1> DEFINE T == {b \in Pooled : HandleOf(b) \in S}
<1>1. \A b \in T : Owner[b] = "released" /\ b \notin Users
  BY PooledHasHandle, OwnerOf DEF Deferred
<1>2. \A b \in Pooled : Owner'[b] = IF b \in T THEN "free" ELSE Owner[b]
  <2>1. \A h \in Handles : where'[h] = IF h \in S THEN "free" ELSE where[h]
    BY DEF Drain
  <2> QED BY <2>1, PooledHasHandle, OwnerOf
<1>3. T \subseteq {b \in Pooled : Owner[b] = "released" /\ b \notin Users}
  BY <1>1
<1>4. Owner' = [b \in Pooled |-> IF b \in T THEN "free" ELSE Owner[b]]
  BY <1>2 DEF Owner
<1>5. Lifetime!Reclaim
  BY <1>3, <1>4 DEF Lifetime!Reclaim, Lifetime!Reclaimable, Lifetime!Reclaimed, Owner, Users, Pooled
<1> QED BY <1>5 DEF Lifetime!Next

LEMMA AllocRefines ==
  ASSUME IInv, NEW h \in Handles, Alloc(h)
  PROVE  Lifetime!Next
<1> USE DEF IInv, TypeOK
<1> DEFINE taken == IF IdleGpu THEN Deferred ELSE {}
           T == {b \in Pooled : HandleOf(b) \in taken}
           freed == [b \in Pooled |-> IF b \in T THEN "free" ELSE Owner[b]]
<1>1. /\ of[h] \in Pooled
      /\ where[h] = "free" \/ h \in taken
      /\ where' = [g \in Handles |-> IF g = h THEN "live"
                                     ELSE IF g \in taken THEN "free" ELSE where[g]]
      /\ UNCHANGED <<gpu, recording>>
  <2>1. of[h] \in Pooled /\ UNCHANGED <<gpu, recording>>
    BY ConstantsAssumption DEF Alloc, Pooled
  <2>2. CASE IdleGpu
    BY <2>1, <2>2 DEF Alloc
  <2>3. CASE ~IdleGpu
    BY <2>1, <2>3 DEF Alloc
  <2> QED BY <2>2, <2>3
<1>2. Users' = Users /\ (IdleGpu => Users = {})
  <2>1. IdleGpu => queue = {} /\ openBufs = {}
    BY DEF IdleGpu, GpuInv, PlaceInv, Commits
  <2> QED BY <1>1, <2>1 DEF Users, InUse, gpu, recording
<1>3. \A b \in T : Owner[b] = "released" /\ b \notin Users
  BY <1>2, PooledHasHandle, OwnerOf DEF Deferred
<1>4. HandleOf(of[h]) = h
  BY <1>1, HandleIsOne
<1>5. freed[of[h]] = "free"
  BY <1>1, <1>4, OwnerOf
<1>6. Owner' = [freed EXCEPT ![of[h]] = "owned"]
  <2>1. ASSUME NEW b \in Pooled
        PROVE  Owner'[b] = IF b = of[h] THEN "owned" ELSE freed[b]
    <3>1. HandleOf(b) \in Handles /\ of[HandleOf(b)] = b /\ (HandleOf(b) = h <=> b = of[h])
      BY <1>4, PooledHasHandle
    <3>2. where'[HandleOf(b)] = IF HandleOf(b) = h THEN "live"
                                ELSE IF HandleOf(b) \in taken THEN "free" ELSE where[HandleOf(b)]
      BY <1>1, <3>1
    <3> QED BY <3>1, <3>2, OwnerOf
  <2> QED BY <2>1 DEF Owner
<1>7. T \in SUBSET {b \in Pooled : Owner[b] = "released" /\ b \notin Users}
  BY <1>3
<1>8. Lifetime!Allocate(of[h])
  BY <1>2, <1>5, <1>6, <1>7
     DEF Lifetime!Allocate, Lifetime!Reclaimable, Lifetime!Reclaimed, Owner, Users, Pooled
<1> QED BY <1>1, <1>8 DEF Lifetime!Next, Pooled

LEMMA DropRefines ==
  ASSUME IInv, NEW h \in Handles, DropBuffer(h) \/ RemoteDrop(h)
  PROVE  Lifetime!Next
<1> USE DEF IInv, TypeOK
<1>1. /\ where[h] = "live" /\ Users' = Users
      /\ \A g \in Handles : where'[g] = IF g = h THEN where'[h] ELSE where[g]
      /\ where'[h] \in {"leaving", "deferred"}
  BY DEF DropBuffer, RemoteDrop, gpu, recording, Users, InUse
<1>2. CASE of[h] \in Pooled
  <2>1. HandleOf(of[h]) = h
    BY <1>2, HandleIsOne
  <2>2. Owner[of[h]] = "owned"
    BY <1>1, <1>2, <2>1, OwnerOf
  <2>3. \A b \in Pooled : Owner'[b] = IF b = of[h] THEN "released" ELSE Owner[b]
    BY <1>1, <1>2, <2>1, PooledHasHandle, OwnerOf
  <2>4. Owner' = [Owner EXCEPT ![of[h]] = "released"]
    BY <2>3 DEF Owner
  <2>5. Lifetime!Release(of[h])
    BY <1>1, <2>2, <2>4 DEF Lifetime!Release, Owner, Users, Pooled
  <2> QED BY <1>2, <2>5 DEF Lifetime!Next, Pooled
<1>3. CASE of[h] \notin Pooled
  <2>1. \A b \in Pooled : HandleOf(b) # h
    BY <1>3, PooledHasHandle
  <2>2. Owner' = Owner
    BY <1>1, <2>1, PooledHasHandle, OwnerOf, OwnerFrame
  <2> QED BY <1>1, <2>2, FinishStep
<1> QED BY <1>2, <1>3

\* Past the queues a buffer is released while the residency set holds it, and
\* destroyed when no command can use it any more.
LEMMA OrphanRefines ==
  ASSUME IInv, NEW h \in Handles, OrphanDrop(h)
  PROVE  Lifetime!Next
<1> USE DEF IInv, TypeOK
<1>1. /\ where[h] = "live" /\ Users' = Users
      /\ \A g \in Handles : where'[g] = IF g = h THEN where'[h] ELSE where[g]
      /\ where'[h] = IF pc = "gone" THEN "free" ELSE "dropped"
  BY DEF OrphanDrop, gpu, recording, Users, InUse
<1>2. pc = "gone" => Users = {}
  BY DEF BatchInv, PlaceInv, Destroyed, Users, InUse
<1>3. CASE of[h] \in Pooled
  <2>1. HandleOf(of[h]) = h
    BY <1>3, HandleIsOne
  <2>2. Owner[of[h]] = "owned"
    BY <1>1, <1>3, <2>1, OwnerOf
  <2>3. \A b \in Pooled : Owner'[b] = IF b # of[h] THEN Owner[b]
                                      ELSE IF pc = "gone" THEN "free" ELSE "released"
    BY <1>1, <1>3, <2>1, PooledHasHandle, OwnerOf
  <2>4. Owner' = [Owner EXCEPT ![of[h]] = IF pc = "gone" THEN "free" ELSE "released"]
    BY <2>3 DEF Owner
  <2>5. Lifetime!Release(of[h])
    BY <1>1, <1>2, <2>2, <2>4 DEF Lifetime!Release, Owner, Users, Pooled
  <2> QED BY <1>3, <2>5 DEF Lifetime!Next, Pooled
<1>4. CASE of[h] \notin Pooled
  <2>1. \A b \in Pooled : HandleOf(b) # h
    BY <1>4, PooledHasHandle
  <2>2. Owner' = Owner
    BY <1>1, <2>1, PooledHasHandle, OwnerOf, OwnerFrame
  <2> QED BY <1>1, <2>2, FinishStep
<1> QED BY <1>3, <1>4

\* A command buffer uses only what has an owner when its closure binds it.
LEMMA EncodeRefines ==
  ASSUME IInv, NEW bufs \in SUBSET Buffers, NEW n \in 0 .. MaxScope, Encode(bufs, n)
  PROVE  Lifetime!Next
<1>1. \A b \in bufs \ External : Owner[b] = "owned"
  <2> SUFFICES ASSUME NEW b \in bufs \ External PROVE Owner[b] = "owned"
    OBVIOUS
  <2>1. PICK h \in Handles : of[h] = b /\ where[h] = "live"
    BY DEF Encode
  <2>2. b \in Pooled /\ HandleOf(b) = h
    BY <2>1, HandleIsOne DEF Pooled
  <2> QED BY <2>1, <2>2, OwnerOf
<1>2. Owner' = Owner /\ Users' = Users \cup (bufs \ External)
  BY DEF Encode, gpu, memory, Owner, Stage, Users, InUse
<1>3. Lifetime!Use(bufs \ External)
  BY <1>1, <1>2 DEF Lifetime!Use, Owner, Users, Pooled
<1> QED BY <1>3 DEF Lifetime!Next

LEMMA StepRefines ==
  ASSUME IInv, [Next]_vars
  PROVE  Lifetime!Next
<1> USE DEF gpu, memory
<1>s. Users \subseteq Pooled
  BY UserIsHeld
<1>1. CASE openBufs' \subseteq openBufs /\ UNCHANGED <<gpu, memory>>
  BY <1>1, FinishStep DEF Owner, Stage, Users, InUse
<1>2. ASSUME NEW c \in queue, GpuFinish(c) PROVE Lifetime!Next
  BY <1>2, FinishStep DEF GpuFinish, recording, Owner, Stage, Users, InUse
<1>3. CASE Submit /\ \/ Drain(Completed(signaled), resident, resident)
                     \/ committed' = resident /\ UNCHANGED <<where, after, resident>>
  <2>1. PICK e : e.bufs = openBufs /\ queue' = queue \cup {e} /\ openBufs' = {}
    BY <1>3 DEF Submit
  <2>2. Users' = Users
    BY <2>1 DEF Users, InUse
  <2>3. CASE committed' = resident /\ UNCHANGED <<where, after, resident>>
    BY <2>2, <2>3, FinishStep DEF Owner, Stage
  <2>4. CASE Drain(Completed(signaled), resident, resident)
    <3>1. \A h \in Completed(signaled) : of[h] \notin Users
      BY UserIsHeld, HandleIsOne DEF Completed, Anchors, IInv, TypeOK
    <3> QED BY <2>2, <2>4, <3>1, DrainReclaims DEF Completed, Deferred
  <2> QED BY <1>3, <2>3, <2>4
<1>4. ASSUME UNCHANGED <<gpu, openBufs>>, NEW value \in 0 .. signaled, DrainTo(value)
      PROVE  Lifetime!Next
  <2>1. \A h \in Completed(value) : of[h] \notin Users
    BY UserIsHeld, HandleIsOne DEF Completed, Anchors, IInv, TypeOK
  <2> QED BY <1>4, <2>1, DrainReclaims DEF DrainTo, Completed, Deferred, Users, InUse
<1>5. CASE queue = {} /\ openBufs = {} /\ DrainAll /\ UNCHANGED <<gpu, openBufs>>
  BY <1>5, DrainReclaims DEF DrainAll, Users, InUse
<1>6. ASSUME NEW h \in Handles, Wrap(h) PROVE Lifetime!Next
  <2>1. \A b \in Pooled : HandleOf(b) # h
    BY <1>6, PooledHasHandle DEF Wrap, Pooled
  <2>2. \A g \in Handles \ {h} : where'[g] = where[g]
    BY <1>6 DEF Wrap, IInv, TypeOK
  <2>3. Owner' = Owner
    BY <2>1, <2>2, PooledHasHandle, OwnerOf, OwnerFrame
  <2> QED BY <1>6, <2>3, FinishStep DEF Wrap, recording, Users, InUse
<1>7. ASSUME NEW h \in Handles, RemotePush(h) PROVE Lifetime!Next
  <2>1. /\ where[h] = "leaving" /\ where' = [where EXCEPT ![h] = "deferred"]
        /\ UNCHANGED gpu /\ openBufs' \subseteq openBufs
    BY <1>7 DEF RemotePush, Destroy, AbortBatch, recording
  <2>2. \A g \in Handles : where'[g] = IF g = h THEN "deferred" ELSE where[g]
    BY <2>1 DEF IInv, TypeOK
  <2>3. Owner' = Owner
    BY <2>1, <2>2, PooledHasHandle, OwnerOf, OwnerFrame
  <2> QED BY <2>1, <2>3, FinishStep DEF Users, InUse
<1>8. CASE FreeFields
  <2>1. Users = {} /\ Users' = {}
    <3>1. queue = {} /\ openBufs = {} /\ UNCHANGED <<queue, openBufs>>
      BY <1>8 DEF FreeFields, IInv, BatchInv, PlaceInv, Destroyed, recording
    <3> QED BY <3>1 DEF Users, InUse
  <2> DEFINE T == {b \in Pooled : Owner[b] = "released"}
  <2>2. \A h \in Handles : where'[h] = IF where[h] = "live" THEN "live" ELSE "free"
    BY <1>8 DEF FreeFields
  <2>3. Owner' = [b \in Pooled |-> IF b \in T THEN "free" ELSE Owner[b]]
    <3>1. \A b \in Pooled : Owner'[b] = IF b \in T THEN "free" ELSE Owner[b]
      BY <2>2, PooledHasHandle, OwnerOf
    <3> QED BY <3>1 DEF Owner
  <2>4. Lifetime!Reclaim
    BY <2>1, <2>3 DEF Lifetime!Reclaim, Lifetime!Reclaimable, Lifetime!Reclaimed, Owner, Users, Pooled
  <2> QED BY <2>4 DEF Lifetime!Next
<1> QED BY MemoryMoves, EncodeRefines, AllocRefines, DropRefines, OrphanRefines,
           <1>1, <1>2, <1>3, <1>4, <1>5, <1>6, <1>7, <1>8

\* The runtime keeps the contract on memory: whatever calls, commits, faults,
\* timeouts and drops of other threads interleave, a pooled buffer that a command
\* uses is neither handed out again nor destroyed before the command finished.
THEOREM ImplementsLifetime == Spec => LifetimeSpec
<1>1. Init => Lifetime!Init
  <2> SUFFICES ASSUME Init PROVE Lifetime!Init
    OBVIOUS
  <2>1. \A b \in Pooled : Stage(b) = "free"
    BY PooledHasHandle DEF Init, Stage, HandleOf
  <2> QED BY <2>1 DEF Init, Lifetime!Init, InUse, Pooled
<1>2. IInv /\ [Next]_vars => [Lifetime!Next]_(Lifetime!vars)
  BY StepRefines
<1> QED BY <1>1, <1>2, Inductive, PTL DEF Spec, LifetimeSpec, Lifetime!Spec
==============================================================================
