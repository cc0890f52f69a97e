------------------------- MODULE SharedBuffer_proof -------------------------
(***************************************************************************)
(* The fence protocol of SharedBuffer.tla keeps host threads and the GPU   *)
(* apart for any number of threads, any commit clock and any budget, as    *)
(* long as every GPU bind goes through bind_shared_ro / bind_shared_rw.    *)
(*                                                                         *)
(* HostGpuExclusion speaks of the moment a lease is held and is not        *)
(* inductive: it holds because the stamp a call loaded already lies above  *)
(* everything that could run, which in turn rests on how the stamps, the   *)
(* lease word and the event move.  Those are the four parts of IInv.       *)
(***************************************************************************)
EXTENDS SharedBuffer, FiniteSetTheorems, TLAPS

Owners(m) == {t \in Threads : pc[t] \in Owning /\ mode[t] = m}

\* The lease word counts the owners of a slot.
LeaseInv ==
  \/ lease = -1 /\ Owners("Read") = {} /\ Cardinality(Owners("Write")) = 1
  \/ lease = Cardinality(Owners("Read")) /\ Owners("Write") = {}

\* Commits follow each other on the event; those unfinished lie above it.
TimelineInv ==
  /\ signaled <= submitted
  /\ \A c \in queue : /\ signaled <= c.after
                      /\ c.after < c.value
                      /\ c.value <= submitted
  /\ \A c, d \in queue : c # d => c.value <= d.after \/ d.value <= c.after
  /\ enc \in {"drawn", "stored"} =>
       /\ cbuf.roles = bound
       /\ signaled <= cbuf.after
       /\ cbuf.after < cbuf.value
       /\ \A c \in queue : c.value <= cbuf.after
  /\ enc = "drawn" => cbuf.after = submitted
  /\ enc = "stored" => cbuf.value = submitted
  /\ enc \in {"none", "closed", "sync"} => bound = {}

\* The event value below the commit that carries the bound commands.
Floor == IF enc = "stored" THEN cbuf.after ELSE submitted

\* Every unfinished command in one of the roles R lies above stamp s.
Covers(s, R) ==
  /\ \A r \in R : r \in bound => s > Floor
  /\ \A c \in queue : \A r \in R : r \in c.roles => s > c.after

StampInv ==
  /\ Covers(lastUse, Modes)
  /\ Covers(lastWrite, {"Write"})
  /\ enc \in {"useStamped", "writeStamped"} => lastUse > submitted
  /\ enc = "writeStamped" /\ role = "Write" => lastWrite > submitted

Conflicts(m) == IF m = "Read" THEN {"Write"} ELSE Modes

\* pc values at which the stamp has been loaded and may lead to a lease.
Loaded == {"loaded", "probe", "verify", "gate", "enter", "blocked", "held"}

ThreadInv ==
  \A t \in Threads :
    /\ pc[t] \in Loaded => Covers(stamp[t], Conflicts(mode[t]))
    /\ pc[t] = "verify" => seen[t] <= signaled
    /\ pc[t] = "held" => stamp[t] <= signaled

IInv == TypeOK /\ LeaseInv /\ TimelineInv /\ StampInv /\ ThreadInv

-----------------------------------------------------------------------------
(* Frames: who writes which words.                                         *)

\* A host thread changes neither the stamps nor the encoder's and the GPU's
\* side of the timeline.
LEMMA ThreadFrame ==
  ASSUME NEW t \in Threads, ThreadStep(t)
  PROVE  /\ UNCHANGED <<lastUse, lastWrite, submitted, signaled>>
         /\ UNCHANGED <<enc, role, bound, cbuf, queue>>
  BY DEF ThreadStep, CallStep, Ask, TakeSlot, Busy, LoadStamp, WaitStamp,
         ReadSignaled, CheckSignaled, CheckSubmitted, EnterWait, WaitReached,
         WaitTimeout, Drop, fence, encoder

\* The encoder and the GPU leave the lease word and the calls alone.
LEMMA OtherFrame ==
  ASSUME EncoderStep \/ GpuStep
  PROVE  UNCHANGED <<lease, pc, mode, stamp, seen, err>>
  BY DEF EncoderStep, GpuStep, DispatchOther, StampUse, BindAdopted, StampWrite,
         CheckLease, ScopeFails, AbortScope, Commit, PublishValue,
         EnqueueSignal, Synchronize, SyncReached, SyncTimeout, Finish, GpuFault,
         fence, encoder, locals

-----------------------------------------------------------------------------
(* Type correctness.                                                       *)

LEMMA TypeStep ==
  ASSUME TypeOK, [Next]_vars
  PROVE  TypeOK'
<1> USE ConstantsAssumption DEF TypeOK
<1>1. CASE EncoderStep
  <2>1. UNCHANGED <<lease, pc, mode, stamp, seen, err>>
    BY <1>1, OtherFrame
  <2>2. CASE DispatchOther \/ ScopeFails \/ Synchronize
    BY <2>1, <2>2 DEF DispatchOther, ScopeFails, Synchronize, fence, EncStates
  <2>3. CASE \E r \in Modes : StampUse(r)
    BY <2>1, <2>3 DEF StampUse, fence, EncStates, Larger, PendingCommitValue
  <2>4. CASE \E r \in Modes : BindAdopted(r)
    BY <2>1, <2>4 DEF BindAdopted, fence, EncStates
  <2>5. CASE StampWrite
    BY <2>1, <2>5 DEF StampWrite, fence, EncStates, Larger, PendingCommitValue
  <2>6. CASE CheckLease
    BY <2>1, <2>6 DEF CheckLease, fence, EncStates
  <2>7. CASE AbortScope
    BY <2>1, <2>7 DEF AbortScope, EncStates
  <2>8. CASE Commit
    BY <2>1, <2>8 DEF Commit, fence, EncStates, Commits
  <2>9. CASE PublishValue
    BY <2>1, <2>9 DEF PublishValue, EncStates, Commits
  <2>10. CASE \E wait \in BOOLEAN : EnqueueSignal(wait)
    BY <2>1, <2>10 DEF EnqueueSignal, fence, EncStates, Commits, NoCommit
  <2>11. CASE SyncReached
    BY <2>1, <2>11 DEF SyncReached, EncStates
  <2>12. CASE SyncTimeout
    BY <2>1, <2>12 DEF SyncTimeout, SpendBudget, EncStates
  <2> QED
    BY <1>1, <2>2, <2>3, <2>4, <2>5, <2>6, <2>7, <2>8, <2>9, <2>10, <2>11, <2>12
       DEF EncoderStep
<1>2. CASE GpuStep
  <2>1. UNCHANGED <<lease, pc, mode, stamp, seen, err>>
    BY <1>2, OtherFrame
  <2> QED
    BY <1>2, <2>1 DEF GpuStep, Finish, GpuFault, encoder, Commits
<1>3. ASSUME NEW t \in Threads, ThreadStep(t)
      PROVE  TypeOK'
  <2>1. /\ UNCHANGED <<lastUse, lastWrite, submitted, signaled>>
        /\ UNCHANGED <<enc, role, bound, cbuf, queue>>
    BY <1>3, ThreadFrame
  <2> USE DEF Goto, Fail, fence, PcStates, Errors
  <2>2. CASE \E m \in Modes : Ask(t, m)
    BY <2>1, <2>2 DEF Ask
  <2>3. CASE TakeSlot(t) \/ Busy(t)
    BY <2>1, <2>3 DEF TakeSlot, Busy
  <2>4. CASE LoadStamp(t)
    BY <2>1, <2>4 DEF LoadStamp, StampFor
  <2>5. CASE WaitStamp(t) \/ ReadSignaled(t)
    BY <2>1, <2>5 DEF WaitStamp, ReadSignaled
  <2>6. CASE CheckSignaled(t)
    BY <2>1, <2>6 DEF CheckSignaled, Violation
  <2>7. CASE CheckSubmitted(t) \/ EnterWait(t)
    BY <2>1, <2>7 DEF CheckSubmitted, EnterWait
  <2>8. CASE WaitReached(t)
    BY <2>1, <2>8 DEF WaitReached, Violation
  <2>9. CASE WaitTimeout(t)
    BY <2>1, <2>9 DEF WaitTimeout, SpendBudget
  <2>10. CASE Drop(t)
    BY <2>1, <2>10 DEF Drop
  <2> QED
    BY <1>3, <2>2, <2>3, <2>4, <2>5, <2>6, <2>7, <2>8, <2>9, <2>10
       DEF ThreadStep, CallStep
<1>4. CASE UNCHANGED vars
  BY <1>4 DEF vars, fence, encoder, locals
<1> QED
  BY <1>1, <1>2, <1>3, <1>4 DEF Next

LEMMA TypeInit == Init => TypeOK
<1>1. NoCommit \in Commits
  BY DEF NoCommit, Commits
<1>2. /\ "none" \in EncStates /\ "idle" \in PcStates /\ "None" \in Errors
      /\ "Read" \in Modes /\ {} \in SUBSET Modes
  BY DEF EncStates, PcStates, Errors, Modes
<1>3. 0 \in Int /\ 0 \in Nat /\ FALSE \in BOOLEAN
  OBVIOUS
<1> QED
  BY <1>1, <1>2, <1>3 DEF Init, TypeOK

\* Every word of the protocol keeps its type, whatever the interleaving.
THEOREM TypeCorrect == Spec => []TypeOK
<1>1. Init => TypeOK
  BY TypeInit
<1>2. TypeOK /\ [Next]_vars => TypeOK'
  BY TypeStep
<1> QED
  BY <1>1, <1>2, PTL DEF Spec

-----------------------------------------------------------------------------
(* The lease word.                                                         *)

LEMMA OwnersFinite ==
  ASSUME NEW m
  PROVE  /\ IsFiniteSet(Owners(m))
         /\ Cardinality(Owners(m)) \in Nat
         /\ Cardinality(Owners(m)) = 0 <=> Owners(m) = {}
<1>1. Owners(m) \subseteq Threads
  BY DEF Owners
<1>2. IsFiniteSet(Owners(m))
  BY <1>1, ConstantsAssumption, FS_Subset
<1> QED
  BY <1>2, FS_CardinalityType, FS_EmptySet

\* What the lease word lets a bind or a lease conclude.
LEMMA LeaseWord ==
  ASSUME TypeOK, LeaseInv, NEW t \in Threads, pc[t] \in Owning
  PROVE  /\ mode[t] = "Read" => lease > 0
         /\ mode[t] = "Write" => lease = -1
<1>1. t \in Owners(mode[t])
  BY DEF Owners
<1>2. mode[t] \in {"Read", "Write"}
  BY DEF TypeOK, Modes
<1> QED
  BY <1>1, <1>2, OwnersFinite DEF LeaseInv

LEMMA LeaseStep ==
  ASSUME TypeOK, LeaseInv, [Next]_vars
  PROVE  LeaseInv'
<1>1. ASSUME UNCHANGED <<lease, pc, mode>>
      PROVE  LeaseInv'
  BY <1>1 DEF LeaseInv, Owners
<1>2. CASE EncoderStep \/ GpuStep
  BY <1>1, <1>2, OtherFrame
<1>3. ASSUME NEW t \in Threads, ThreadStep(t)
      PROVE  LeaseInv'
  <2>1. ASSUME UNCHANGED <<lease, mode>>, pc[t] \in Owning, pc'[t] \in Owning,
               \A u \in Threads \ {t} : pc'[u] = pc[u]
        PROVE  LeaseInv'
    <3>1. \A m : Owners(m)' = Owners(m)
      BY <2>1 DEF Owners
    <3> QED
      BY <2>1, <3>1 DEF LeaseInv
  <2>2. ASSUME UNCHANGED lease, pc[t] \notin Owning, pc'[t] \notin Owning,
               \A u \in Threads \ {t} : pc'[u] = pc[u] /\ mode'[u] = mode[u]
        PROVE  LeaseInv'
    <3>1. \A m : Owners(m)' = Owners(m)
      BY <2>2 DEF Owners
    <3> QED
      BY <2>2, <3>1 DEF LeaseInv
  <2>3. CASE (\E m \in Modes : Ask(t, m)) \/ Busy(t)
    BY <2>2, <2>3 DEF Ask, Busy, Goto, TypeOK, Owning, PcStates
  <2>4. CASE \/ LoadStamp(t) \/ WaitStamp(t) \/ ReadSignaled(t)
             \/ CheckSignaled(t) \/ CheckSubmitted(t) \/ EnterWait(t)
             \/ WaitReached(t) \/ WaitTimeout(t)
    <3>1. UNCHANGED <<lease, mode>>
      BY <2>4 DEF LoadStamp, WaitStamp, ReadSignaled, CheckSignaled,
                  CheckSubmitted, EnterWait, WaitReached, WaitTimeout
    <3>2. /\ pc[t] \in Owning
          /\ \E where \in Owning : pc' = [pc EXCEPT ![t] = where]
      BY <2>4 DEF LoadStamp, WaitStamp, ReadSignaled, CheckSignaled,
                  CheckSubmitted, EnterWait, WaitReached, WaitTimeout, Goto,
                  Fail, Owning, PcStates
    <3>3. pc'[t] \in Owning /\ \A u \in Threads \ {t} : pc'[u] = pc[u]
      BY <3>2 DEF TypeOK
    <3> QED
      BY <2>1, <3>1, <3>2, <3>3
  <2>5. CASE TakeSlot(t)
    <3>1. /\ mode' = mode /\ pc[t] \notin Owning /\ pc'[t] \in Owning
          /\ \A u \in Threads \ {t} : pc'[u] = pc[u]
      BY <2>5 DEF TakeSlot, Goto, TypeOK, Owning, PcStates
    <3>2. \A m : Owners(m)' = IF m = mode[t] THEN Owners(m) \cup {t} ELSE Owners(m)
      BY <3>1 DEF Owners
    <3>3. t \notin Owners(mode[t])
      BY <3>1 DEF Owners
    <3>4. CASE mode[t] = "Read"
      <4>1. lease = Cardinality(Owners("Read")) /\ Owners("Write") = {}
        BY <2>5, <3>4 DEF TakeSlot, CanTakeSlot, LeaseInv
      <4>2. Cardinality(Owners("Read") \cup {t}) = Cardinality(Owners("Read")) + 1
        BY <3>3, <3>4, OwnersFinite, FS_AddElement
      <4>3. lease' = lease + 1
        BY <2>5, <3>4 DEF TakeSlot
      <4> QED
        BY <3>2, <3>4, <4>1, <4>2, <4>3 DEF LeaseInv
    <3>5. CASE mode[t] = "Write"
      <4>1. lease = 0 /\ lease' = -1
        BY <2>5, <3>5 DEF TakeSlot, CanTakeSlot
      <4>2. Owners("Read") = {} /\ Owners("Write") = {}
        BY <4>1, OwnersFinite DEF LeaseInv
      <4>3. Owners("Write")' = {t} /\ Owners("Read")' = {}
        BY <3>2, <3>5, <4>2
      <4> QED
        BY <4>1, <4>3, FS_Singleton DEF LeaseInv
    <3> QED
      BY <3>4, <3>5 DEF TypeOK, Modes
  <2>6. CASE Drop(t)
    <3>1. /\ mode' = mode /\ pc[t] \in Owning /\ pc'[t] \notin Owning
          /\ \A u \in Threads \ {t} : pc'[u] = pc[u]
      BY <2>6 DEF Drop, Goto, TypeOK, Owning, PcStates
    <3>2. \A m : Owners(m)' = IF m = mode[t] THEN Owners(m) \ {t} ELSE Owners(m)
      BY <3>1 DEF Owners
    <3>3. t \in Owners(mode[t])
      BY <3>1 DEF Owners
    <3>4. CASE mode[t] = "Read"
      <4>1. lease = Cardinality(Owners("Read")) /\ Owners("Write") = {}
        BY <3>3, <3>4 DEF LeaseInv
      <4>2. Cardinality(Owners("Read") \ {t}) = Cardinality(Owners("Read")) - 1
        BY <3>3, <3>4, OwnersFinite, FS_RemoveElement
      <4>3. lease' = lease - 1
        BY <2>6, <3>4 DEF Drop
      <4> QED
        BY <3>2, <3>4, <4>1, <4>2, <4>3 DEF LeaseInv
    <3>5. CASE mode[t] = "Write"
      <4>1. Owners("Read") = {} /\ Cardinality(Owners("Write")) = 1
        BY <3>3, <3>5 DEF LeaseInv
      <4>2. \E u : Owners("Write") = {u}
        BY <4>1, OwnersFinite, FS_Singleton
      <4>3. Owners("Write") \ {t} = {}
        BY <3>3, <3>5, <4>2
      <4>4. Owners("Write")' = {} /\ Owners("Read")' = {}
        BY <3>2, <3>5, <4>1, <4>3
      <4>5. lease' = 0
        BY <2>6, <3>5 DEF Drop
      <4> QED
        BY <4>4, <4>5, FS_EmptySet DEF LeaseInv
    <3> QED
      BY <3>4, <3>5 DEF TypeOK, Modes
  <2> QED
    BY <1>3, <2>3, <2>4, <2>5, <2>6 DEF ThreadStep, CallStep
<1>4. CASE UNCHANGED vars
  BY <1>1, <1>4 DEF vars, locals
<1> QED
  BY <1>2, <1>3, <1>4 DEF Next

-----------------------------------------------------------------------------
(* The timeline: commits, the event, and the queue.                        *)

LEMMA TimelineStep ==
  ASSUME TypeOK, TimelineInv, [Next]_vars
  PROVE  TimelineInv'
<1>1. ASSUME UNCHANGED <<submitted, signaled, bound, cbuf, queue>>,
             enc' = enc
      PROVE  TimelineInv'
  BY <1>1 DEF TimelineInv
<1>2. ASSUME UNCHANGED <<submitted, signaled, cbuf, queue>>,
             enc' \in {"open", "useStamped", "writeStamped", "refused"}
      PROVE  TimelineInv'
  BY <1>2 DEF TimelineInv
<1>3. ASSUME UNCHANGED <<submitted, signaled, cbuf, queue>>,
             enc' \in {"none", "closed", "sync"}, bound' = {}
      PROVE  TimelineInv'
  BY <1>3 DEF TimelineInv
<1>4. CASE EncoderStep
  <2>1. CASE \/ DispatchOther \/ ScopeFails \/ StampWrite \/ CheckLease
             \/ \E r \in Modes : StampUse(r) \/ BindAdopted(r)
    BY <1>2, <2>1 DEF DispatchOther, ScopeFails, StampWrite, CheckLease,
                      StampUse, BindAdopted, fence
  <2>2. CASE AbortScope
    BY <1>3, <2>2 DEF AbortScope
  <2>3. CASE Synchronize \/ SyncReached \/ SyncTimeout
    <3>1. bound = {}
      BY <2>3 DEF Synchronize, SyncReached, SyncTimeout, TimelineInv
    <3> QED
      BY <1>3, <2>3, <3>1 DEF Synchronize, SyncReached, SyncTimeout, fence
  <2>4. CASE Commit
    <3>1. PICK v \in (submitted + 1) .. MaxValue :
            cbuf' = [after |-> submitted, value |-> v, roles |-> bound]
      BY <2>4 DEF Commit
    <3>2. /\ enc' = "drawn"
          /\ UNCHANGED <<submitted, signaled, bound, queue>>
      BY <2>4 DEF Commit, fence
    <3> QED
      BY <3>1, <3>2, ConstantsAssumption DEF TimelineInv, TypeOK
  <2>5. CASE PublishValue
    <3>1. /\ enc = "drawn" /\ enc' = "stored" /\ submitted' = cbuf.value
          /\ UNCHANGED <<signaled, bound, cbuf, queue>>
      BY <2>5 DEF PublishValue
    <3>2. /\ cbuf.after \in Nat /\ cbuf.value \in Nat
          /\ \A c \in queue : c.value \in Nat /\ c.after \in Nat
      BY DEF TypeOK, Commits
    <3> QED
      BY <3>1, <3>2 DEF TimelineInv, TypeOK
  <2>6. CASE \E wait \in BOOLEAN : EnqueueSignal(wait)
    <3>1. /\ enc = "stored" /\ enc' \in {"sync", "closed"} /\ bound' = {}
          /\ queue' = queue \cup {cbuf}
          /\ UNCHANGED <<submitted, signaled>>
      BY <2>6 DEF EnqueueSignal, fence
    <3> QED
      BY <3>1 DEF TimelineInv, TypeOK
  <2> QED
    BY <1>4, <2>1, <2>2, <2>3, <2>4, <2>5, <2>6 DEF EncoderStep
<1>5. CASE GpuStep
  <2>1. CASE GpuFault
    BY <1>1, <2>1 DEF GpuFault, encoder
  <2>2. ASSUME NEW c \in queue, Finish(c)
        PROVE  TimelineInv'
    <3>1. /\ \A d \in queue : c.value <= d.value
          /\ signaled' = c.value /\ queue' = queue \ {c}
          /\ UNCHANGED <<submitted, enc, bound, cbuf>>
      BY <2>2 DEF Finish
    <3>2. \A d \in queue : d.value \in Nat /\ d.after \in Nat
      BY DEF TypeOK, Commits
    <3>3. \A d \in queue \ {c} : c.value <= d.after
      BY <3>1, <3>2 DEF TimelineInv
    <3> QED
      BY <3>1, <3>2, <3>3 DEF TimelineInv, TypeOK
  <2> QED
    BY <1>5, <2>1, <2>2 DEF GpuStep
<1>6. ASSUME NEW t \in Threads, ThreadStep(t)
      PROVE  TimelineInv'
  BY <1>1, <1>6, ThreadFrame
<1>7. CASE UNCHANGED vars
  BY <1>1, <1>7 DEF vars, fence, encoder
<1> QED
  BY <1>4, <1>5, <1>6, <1>7 DEF Next

-----------------------------------------------------------------------------
(* Stamps.  A value that lies above every unfinished command keeps lying   *)
(* above them, unless a bind that ignores it is encoded.                   *)

LEMMA CoversStep ==
  ASSUME TypeOK, TimelineInv, ~AdoptedBinds, EncoderStep \/ GpuStep
  PROVE  \A s \in Nat, R \in SUBSET Modes :
           /\ Covers(s, R)
           /\ CheckLease /\ GpuAccess(lease, role) /\ role \in R => s > submitted
           => Covers(s, R)'
<1> SUFFICES ASSUME NEW s \in Nat, NEW R \in SUBSET Modes, Covers(s, R),
                    CheckLease /\ GpuAccess(lease, role) /\ role \in R
                      => s > submitted
             PROVE  Covers(s, R)'
  OBVIOUS
<1>1. ASSUME UNCHANGED submitted, bound' \subseteq bound, queue' \subseteq queue,
             enc # "stored", enc' # "stored"
      PROVE  Covers(s, R)'
  BY <1>1 DEF Covers, Floor
<1>2. CASE EncoderStep
  <2>1. CASE DispatchOther \/ ScopeFails \/ StampWrite \/ AbortScope
    BY <1>1, <2>1 DEF DispatchOther, ScopeFails, StampWrite, AbortScope, fence,
                      Recording
  <2>2. CASE \E r \in Modes : StampUse(r) \/ BindAdopted(r)
    BY <1>1, <2>2 DEF StampUse, BindAdopted, fence, Recording
  <2>3. CASE Synchronize \/ SyncReached \/ SyncTimeout
    BY <1>1, <2>3 DEF Synchronize, SyncReached, SyncTimeout, fence
  <2>4. CASE CheckLease
    <3>1. /\ enc = "writeStamped" /\ UNCHANGED <<submitted, queue>>
          /\ enc' \in {"open", "refused"}
          /\ bound' \subseteq bound \cup {role}
          /\ role \in bound' => role \in bound \/ GpuAccess(lease, role)
      BY <2>4 DEF CheckLease, fence
    <3> QED
      BY <2>4, <3>1 DEF Covers, Floor
  <2>5. CASE Commit
    BY <1>1, <2>5 DEF Commit, fence
  <2>6. CASE PublishValue
    <3>1. /\ enc = "drawn" /\ enc' = "stored"
          /\ UNCHANGED <<bound, cbuf, queue>> /\ cbuf.after = submitted
      BY <2>6 DEF PublishValue, TimelineInv
    <3> QED
      BY <3>1 DEF Covers, Floor
  <2>7. CASE \E wait \in BOOLEAN : EnqueueSignal(wait)
    <3>1. /\ enc = "stored" /\ cbuf.roles = bound
          /\ bound' = {} /\ queue' = queue \cup {cbuf}
      BY <2>7 DEF EnqueueSignal, TimelineInv
    <3> QED
      BY <3>1 DEF Covers, Floor
  <2> QED
    BY <1>2, <2>1, <2>2, <2>3, <2>4, <2>5, <2>6, <2>7 DEF EncoderStep
<1>3. CASE GpuStep
  <2>1. /\ UNCHANGED <<submitted, enc, bound, cbuf>>
        /\ queue' \subseteq queue
    BY <1>3 DEF GpuStep, Finish, GpuFault, encoder
  <2> QED
    BY <2>1 DEF Covers, Floor
<1> QED
  BY <1>2, <1>3

LEMMA StampStep ==
  ASSUME TypeOK, TimelineInv, StampInv, ~AdoptedBinds, [Next]_vars
  PROVE  StampInv'
<1>1. CASE EncoderStep \/ GpuStep
  <2>1. /\ lastUse \in Nat /\ lastWrite \in Nat /\ submitted \in Nat
        /\ {"Write"} \in SUBSET Modes /\ Modes \in SUBSET Modes
    BY DEF TypeOK, Modes
  <2>2. /\ lastUse' \in Nat /\ lastUse' >= lastUse
        /\ lastWrite' \in Nat /\ lastWrite' >= lastWrite
    BY <1>1, <2>1 DEF EncoderStep, GpuStep, DispatchOther, StampUse, BindAdopted,
         StampWrite, CheckLease, ScopeFails, AbortScope, Commit, PublishValue,
         EnqueueSignal, Synchronize, SyncReached, SyncTimeout, Finish, GpuFault,
         Larger, PendingCommitValue, encoder
  <2>3. \A s \in Nat, R \in SUBSET Modes :
           /\ Covers(s, R)
           /\ CheckLease /\ GpuAccess(lease, role) /\ role \in R => s > submitted
           => Covers(s, R)'
    BY <1>1, CoversStep
  <2>4. \A r \in Modes : r \in bound' => lastUse > Floor'
    <3>1. CheckLease => lastUse > submitted
      BY DEF CheckLease, StampInv
    <3> QED
      BY <2>1, <2>3, <3>1 DEF StampInv, Covers
  <2>5. \A c \in queue' : \A r \in Modes : r \in c.roles => lastUse > c.after
    <3>1. CheckLease => lastUse > submitted
      BY DEF CheckLease, StampInv
    <3> QED
      BY <2>1, <2>3, <3>1 DEF StampInv, Covers
  <2>6. CheckLease /\ role = "Write" => lastWrite > submitted
    BY DEF CheckLease, StampInv
  <2>7. /\ "Write" \in bound' => lastWrite > Floor'
        /\ \A c \in queue' : "Write" \in c.roles => lastWrite > c.after
    BY <2>1, <2>3, <2>6 DEF StampInv, Covers
  <2>8. /\ TypeOK' /\ TimelineInv'
    BY TypeStep, TimelineStep
  <2>9. Floor' \in Nat /\ \A c \in queue' : c.after \in Nat
    BY <2>8 DEF TypeOK, Commits, Floor
  <2>10. Covers(lastUse, Modes)' /\ Covers(lastWrite, {"Write"})'
    BY <2>1, <2>2, <2>4, <2>5, <2>7, <2>9 DEF Covers
  <2>11. /\ enc' \in {"useStamped", "writeStamped"} => lastUse' > submitted'
         /\ enc' = "writeStamped" /\ role' = "Write" => lastWrite' > submitted'
    BY <1>1, <2>1 DEF StampInv, EncoderStep, GpuStep, DispatchOther, StampUse,
         BindAdopted, StampWrite, CheckLease, ScopeFails, AbortScope, Commit,
         PublishValue, EnqueueSignal, Synchronize, SyncReached, SyncTimeout,
         Finish, GpuFault, Larger, PendingCommitValue, encoder, fence
  <2> QED
    BY <2>10, <2>11 DEF StampInv
<1>2. ASSUME UNCHANGED <<lastUse, lastWrite, submitted, enc, role, bound, cbuf, queue>>
      PROVE  StampInv'
  BY <1>2 DEF StampInv, Covers, Floor
<1>3. ASSUME NEW t \in Threads, ThreadStep(t)
      PROVE  StampInv'
  BY <1>2, <1>3, ThreadFrame
<1>4. CASE UNCHANGED vars
  BY <1>2, <1>4 DEF vars, fence, encoder
<1> QED
  BY <1>1, <1>3, <1>4 DEF Next

-----------------------------------------------------------------------------
(* Calls.                                                                  *)

\* Against the encoder and the GPU: no bind a call's lease word would refuse
\* is encoded, and the event only rises.
LEMMA CallsHoldAgainstGpu ==
  ASSUME TypeOK, LeaseInv, TimelineInv, ThreadInv, ~AdoptedBinds,
         EncoderStep \/ GpuStep
  PROVE  ThreadInv'
<1>1. UNCHANGED <<lease, pc, mode, stamp, seen, err>>
  BY OtherFrame
<1>2. signaled' \in Nat /\ signaled \in Nat /\ signaled' >= signaled
  <2>1. CASE EncoderStep
    BY <2>1 DEF TypeOK, EncoderStep, DispatchOther, StampUse, BindAdopted,
         StampWrite, CheckLease, ScopeFails, AbortScope, Commit, PublishValue,
         EnqueueSignal, Synchronize, SyncReached, SyncTimeout, fence
  <2>2. CASE GpuStep
    <3>1. \A c \in queue : c.after \in Nat /\ c.value \in Nat
      BY DEF TypeOK, Commits
    <3> QED
      BY <2>2, <3>1 DEF TypeOK, TimelineInv, GpuStep, Finish, GpuFault
  <2> QED
    BY <2>1, <2>2
<1>3. ASSUME NEW t \in Threads, pc[t] \in Loaded
      PROVE  Covers(stamp[t], Conflicts(mode[t]))'
  <2>1. /\ stamp[t] \in Nat /\ mode[t] \in {"Read", "Write"}
        /\ Conflicts(mode[t]) \in SUBSET Modes
    BY DEF TypeOK, Conflicts, Modes
  <2>2. Covers(stamp[t], Conflicts(mode[t]))
    BY <1>3 DEF ThreadInv
  <2>3. pc[t] \in Owning
    BY <1>3 DEF Loaded, Owning, PcStates
  <2>4. GpuAccess(lease, role) => role \notin Conflicts(mode[t])
    BY <2>1, <2>3, LeaseWord DEF GpuAccess, Conflicts, TypeOK, Modes
  <2>5. \A s \in Nat, R \in SUBSET Modes :
           /\ Covers(s, R)
           /\ CheckLease /\ GpuAccess(lease, role) /\ role \in R => s > submitted
           => Covers(s, R)'
    BY CoversStep
  <2> DEFINE s == stamp[t]
             R == Conflicts(mode[t])
  <2>6. s' = s /\ R' = R
    BY <1>1
  <2> QED
    BY <2>1, <2>2, <2>4, <2>5, <2>6 DEF Covers
<1> QED
  BY <1>1, <1>2, <1>3 DEF ThreadInv, TypeOK

\* Against itself and the other calls.
LEMMA CallsHoldAgainstThreads ==
  ASSUME TypeOK, TimelineInv, StampInv, ThreadInv, NEW t \in Threads, ThreadStep(t)
  PROVE  ThreadInv'
<1>1. /\ UNCHANGED <<lastUse, lastWrite, submitted, signaled>>
      /\ UNCHANGED <<enc, role, bound, cbuf, queue>>
  BY ThreadFrame
<1>2. /\ pc' = [pc EXCEPT ![t] = pc'[t]]
      /\ mode' = [mode EXCEPT ![t] = mode'[t]]
      /\ stamp' = [stamp EXCEPT ![t] = stamp'[t]]
      /\ seen' = [seen EXCEPT ![t] = seen'[t]]
  BY DEF TypeOK, ThreadStep, CallStep, Ask, TakeSlot, Busy, LoadStamp, WaitStamp,
         ReadSignaled, CheckSignaled, CheckSubmitted, EnterWait, WaitReached,
         WaitTimeout, Drop, Goto, Fail
<1>3. ASSUME NEW u \in Threads, u # t
      PROVE  /\ pc'[u] \in Loaded => Covers(stamp[u], Conflicts(mode[u]))'
             /\ pc'[u] = "verify" => seen'[u] <= signaled'
             /\ pc'[u] = "held" => stamp'[u] <= signaled'
  BY <1>1, <1>2, <1>3 DEF ThreadInv, TypeOK, Covers, Floor, Conflicts
<1>4. /\ pc'[t] \in Loaded => Covers(stamp[t], Conflicts(mode[t]))'
      /\ pc'[t] = "verify" => seen'[t] <= signaled'
      /\ pc'[t] = "held" => stamp'[t] <= signaled'
  <2> USE DEF TypeOK, Goto, Fail
  <2>1. CASE (\E m \in Modes : Ask(t, m)) \/ TakeSlot(t) \/ Busy(t) \/ Drop(t)
    BY <2>1 DEF Ask, TakeSlot, Busy, Drop, Loaded
  <2>2. CASE LoadStamp(t)
    <3>1. /\ pc'[t] = "loaded" /\ mode' = mode /\ stamp'[t] = StampFor(mode[t])
      BY <2>2 DEF LoadStamp
    <3>2. Covers(StampFor(mode[t]), Conflicts(mode[t]))
      BY DEF StampInv, StampFor, Conflicts, Modes
    <3> QED
      BY <1>1, <3>1, <3>2 DEF Covers, Floor
  <2>3. ASSUME UNCHANGED <<mode, stamp>>, pc[t] \in Loaded
        PROVE  Covers(stamp[t], Conflicts(mode[t]))'
    BY <1>1, <2>3 DEF ThreadInv, Covers, Floor
  <2>4. CASE WaitStamp(t)
    BY <1>1, <2>3, <2>4 DEF WaitStamp, Loaded
  <2>5. CASE ReadSignaled(t)
    BY <1>1, <2>3, <2>5 DEF ReadSignaled, Loaded
  <2>6. CASE CheckSignaled(t)
    BY <1>1, <2>3, <2>6 DEF CheckSignaled, Loaded, ThreadInv
  <2>7. CASE CheckSubmitted(t) \/ EnterWait(t) \/ WaitTimeout(t)
    BY <1>1, <2>3, <2>7 DEF CheckSubmitted, EnterWait, WaitTimeout, Loaded
  <2>8. CASE WaitReached(t)
    BY <1>1, <2>3, <2>8 DEF WaitReached, Loaded
  <2> QED
    BY <2>1, <2>2, <2>4, <2>5, <2>6, <2>7, <2>8 DEF ThreadStep, CallStep
<1> QED
  BY <1>3, <1>4 DEF ThreadInv

-----------------------------------------------------------------------------
(* The inductive invariant and what follows from it.                       *)

LEMMA InitIInv == Init => IInv
<1> SUFFICES ASSUME Init PROVE IInv
  OBVIOUS
<1>1. TypeOK
  BY TypeInit
<1>2. LeaseInv
  <2>1. Owners("Read") = {} /\ Owners("Write") = {} /\ lease = 0
    BY DEF Init, Owners, Owning
  <2> QED
    BY <2>1, FS_EmptySet DEF LeaseInv
<1>3. TimelineInv
  BY DEF Init, TimelineInv
<1>4. StampInv /\ ThreadInv
  BY DEF Init, StampInv, ThreadInv, Covers, Loaded
<1> QED
  BY <1>1, <1>2, <1>3, <1>4 DEF IInv

LEMMA InductiveStep ==
  ASSUME ~AdoptedBinds, IInv, [Next]_vars
  PROVE  IInv'
<1> USE DEF IInv
<1>1. TypeOK' /\ LeaseInv' /\ TimelineInv' /\ StampInv'
  BY TypeStep, LeaseStep, TimelineStep, StampStep
<1>2. ThreadInv'
  <2>1. CASE EncoderStep \/ GpuStep
    BY <2>1, CallsHoldAgainstGpu
  <2>2. ASSUME NEW t \in Threads, ThreadStep(t)
        PROVE  ThreadInv'
    BY <2>2, CallsHoldAgainstThreads
  <2>3. CASE UNCHANGED vars
    BY <2>3 DEF vars, fence, encoder, locals, ThreadInv, Covers, Floor
  <2> QED
    BY <2>1, <2>2, <2>3 DEF Next
<1> QED
  BY <1>1, <1>2

\* If every GPU bind goes through bind_shared, the invariant always holds.
THEOREM Inductive == ASSUME ~AdoptedBinds PROVE Spec => []IInv
<1>1. Init => IInv
  BY InitIInv
<1>2. IInv /\ [Next]_vars => IInv'
  BY InductiveStep
<1> QED
  BY <1>1, <1>2, PTL DEF Spec

\* The lease word counts the slots its owners have yet to give back.
THEOREM LeaseWordCorrect == ASSUME ~AdoptedBinds PROVE Spec => []LeaseWordCounts
<1>1. IInv => LeaseWordCounts
  BY DEF IInv, LeaseInv, LeaseWordCounts, Owners
<1> QED
  BY <1>1, Inductive, PTL

LEMMA ExclusionFromIInv == IInv => HostGpuExclusion
<1> SUFFICES ASSUME IInv PROVE HostGpuExclusion
  OBVIOUS
<1>1. ASSUME NEW t \in Threads, pc[t] = "held", NEW r \in Conflicts(mode[t])
      PROVE  r \notin GpuWork
  <2>1. /\ Covers(stamp[t], Conflicts(mode[t])) /\ stamp[t] <= signaled
        /\ stamp[t] \in Nat /\ signaled \in Nat /\ submitted \in Nat
        /\ cbuf.after \in Nat /\ \A c \in queue : c.after \in Nat
    BY <1>1 DEF IInv, ThreadInv, Loaded, TypeOK, Commits
  <2>2. signaled <= Floor /\ \A c \in queue : signaled <= c.after
    BY <2>1 DEF IInv, TimelineInv, Floor
  <2>3. r \notin bound /\ \A c \in queue : r \notin c.roles
    BY <1>1, <2>1, <2>2 DEF Covers, Floor
  <2> QED
    BY <2>3 DEF GpuWork
<1>2. GpuWork \subseteq Modes
  BY DEF IInv, TypeOK, Commits, GpuWork
<1>3. ASSUME NEW t \in Threads, Holds(t, "Read")
      PROVE  "Write" \notin GpuWork
  BY <1>1, <1>3 DEF Holds, Conflicts
<1>4. ASSUME NEW t \in Threads, Holds(t, "Write")
      PROVE  GpuWork = {}
  BY <1>1, <1>2, <1>4 DEF Holds, Conflicts
<1> QED
  BY <1>3, <1>4 DEF HostGpuExclusion

\* No thread is ever given bytes the GPU may still use in a conflicting way.
THEOREM ExclusionCorrect == ASSUME ~AdoptedBinds PROVE Spec => []HostGpuExclusion
<1> QED
  BY ExclusionFromIInv, Inductive, PTL

\* The check on the lifetime event never takes the queue's own signals for
\* foreign ones: reading the event before event_value is the right order.
THEOREM HonestEventCorrect == ASSUME ~AdoptedBinds PROVE Spec => []HonestEventPasses
<1>1. IInv => HonestEventPasses
  BY DEF IInv, ThreadInv, TimelineInv, TypeOK, HonestEventPasses, Violation
<1> QED
  BY <1>1, Inductive, PTL

------------------------------------------------------------------------------
(***************************************************************************)
(* The fence protocol of SharedBuffer.tla implements the reader-writer     *)
(* lock of HostGpuLock.tla.  A lease is granted at the step that reaches   *)
(* "held", where IInv says that no conflicting command is left; a bind is  *)
(* encoded at its check of the lease word, where LeaseInv says that no     *)
(* conflicting lease is held; every other step is a stutter of the lock,   *)
(* or lets GPU work go.                                                    *)
(***************************************************************************)

Held == [t \in Threads |-> IF pc[t] = "held" THEN mode[t] ELSE "None"]

\* Two owners of slots are both readers.
LEMMA OwnersCompatible ==
  ASSUME TypeOK, LeaseInv,
         NEW t \in Threads, NEW u \in Threads, t # u,
         pc[t] \in Owning, pc[u] \in Owning
  PROVE  mode[t] = "Read" /\ mode[u] = "Read"
<1>1. mode[t] \in {"Read", "Write"} /\ mode[u] \in {"Read", "Write"}
  BY DEF TypeOK, Modes
<1>2. t \in Owners(mode[t]) /\ u \in Owners(mode[u])
  BY DEF Owners
<1>3. CASE lease = -1 /\ Owners("Read") = {} /\ Cardinality(Owners("Write")) = 1
  <2>1. \E w : Owners("Write") = {w}
    BY <1>3, OwnersFinite, FS_Singleton
  <2> QED
    BY <1>1, <1>2, <1>3, <2>1
<1>4. CASE Owners("Write") = {}
  BY <1>1, <1>2, <1>4
<1> QED
  BY <1>3, <1>4 DEF LeaseInv

\* A bind that passes the lease check conflicts with no lease held.
LEMMA BindCompatible ==
  ASSUME TypeOK, LeaseInv, GpuAccess(lease, role), NEW u \in Threads, Held[u] # "None"
  PROVE  Lock!Compatible(Held[u], role)
<1>1. /\ pc[u] = "held" /\ Held[u] = mode[u]
      /\ mode[u] \in {"Read", "Write"} /\ role \in {"Read", "Write"}
  BY DEF Held, TypeOK, Modes
<1>2. /\ mode[u] = "Read" => lease > 0
      /\ mode[u] = "Write" => lease = -1
  BY <1>1, LeaseWord DEF Owning, PcStates
<1> QED
  BY <1>1, <1>2 DEF Lock!Compatible, GpuAccess, TypeOK

\* A lease that is about to be granted conflicts with nothing.
LEMMA GrantCompatible ==
  ASSUME IInv, IInv', GpuWork' = GpuWork, NEW t \in Threads, NEW m, mode[t] = m,
         pc[t] \in Owning \ {"held"}, pc' = [pc EXCEPT ![t] = "held"], mode' = mode
  PROVE  Lock!Grant(t, m)
<1>1. TypeOK /\ LeaseInv /\ mode[t] \in {"Read", "Write"}
  BY DEF IInv, TypeOK, Modes
<1>2. ASSUME NEW u \in Threads, Held[u] # "None"
      PROVE  Lock!Compatible(Held[u], m)
  <2>1. pc[u] = "held" /\ Held[u] = mode[u] /\ u # t
    BY <1>2 DEF Held
  <2>2. mode[t] = "Read" /\ mode[u] = "Read"
    BY <1>1, <2>1, OwnersCompatible DEF Owning, PcStates
  <2> QED
    BY <2>1, <2>2 DEF Lock!Compatible
<1>3. ASSUME NEW r \in GpuWork
      PROVE  Lock!Compatible(r, m)
  <2>1. pc'[t] = "held" /\ mode'[t] = mode[t]
    BY <1>1 DEF TypeOK
  <2>2. /\ Holds(t, "Read")' => "Write" \notin GpuWork'
        /\ Holds(t, "Write")' => GpuWork' = {}
    <3>1. HostGpuExclusion'
      BY ExclusionFromIInv, PTL
    <3> QED
      BY <3>1 DEF HostGpuExclusion
  <2>3. mode[t] = "Read" /\ r # "Write"
    BY <1>1, <1>3, <2>1, <2>2 DEF Holds
  <2>4. GpuWork \subseteq Modes
    BY <1>1 DEF TypeOK, Commits, GpuWork
  <2> QED
    BY <1>3, <2>3, <2>4 DEF Lock!Compatible, Modes
<1>4. Held[t] = "None" /\ Held' = [Held EXCEPT ![t] = m]
  BY <1>1 DEF Held, TypeOK
<1> QED
  BY <1>2, <1>3, <1>4 DEF Lock!Grant, Held

-----------------------------------------------------------------------------

\* Steps that change neither the leases held nor the GPU's work, but to drop some.
LEMMA RetireStep ==
  ASSUME Held' = Held, GpuWork' \subseteq GpuWork
  PROVE  Lock!Next
BY DEF Lock!Next, Lock!Retire, Held

LEMMA EncoderRefines ==
  ASSUME IInv, ~AdoptedBinds, EncoderStep
  PROVE  Lock!Next
<1> USE DEF IInv
<1>1. Held' = Held
  BY OtherFrame DEF Held
<1>2. ASSUME bound' \subseteq bound, queue' = queue
      PROVE  Lock!Next
  <2>1. GpuWork' \subseteq GpuWork
    BY <1>2 DEF GpuWork
  <2> QED
    BY <1>1, <2>1, RetireStep
<1>3. CASE \/ DispatchOther \/ StampWrite \/ ScopeFails \/ AbortScope
           \/ Commit \/ PublishValue
           \/ Synchronize \/ SyncReached \/ SyncTimeout
           \/ \E r \in Modes : StampUse(r) \/ BindAdopted(r)
  BY <1>2, <1>3 DEF DispatchOther, StampWrite, ScopeFails, AbortScope, Commit,
       PublishValue, Synchronize, SyncReached, SyncTimeout, StampUse, BindAdopted
<1>4. CASE CheckLease
  <2>1. CASE GpuAccess(lease, role)
    <3>1. bound' = bound \cup {role} /\ queue' = queue
      BY <1>4, <2>1 DEF CheckLease
    <3>2. GpuWork' = GpuWork \cup {role}
      BY <3>1 DEF GpuWork
    <3>3. \A u \in Threads : Held[u] # "None" => Lock!Compatible(Held[u], role)
      BY <2>1, BindCompatible
    <3>4. Lock!Encode(role)
      BY <1>1, <3>2, <3>3 DEF Lock!Encode, Held
    <3> QED
      BY <3>4 DEF Lock!Next, Lock!Roles, TypeOK, Modes
  <2>2. CASE ~GpuAccess(lease, role)
    BY <1>2, <1>4, <2>2 DEF CheckLease
  <2> QED
    BY <2>1, <2>2
<1>5. CASE \E wait \in BOOLEAN : EnqueueSignal(wait)
  <2>1. cbuf.roles = bound /\ bound' = {} /\ queue' = queue \cup {cbuf}
    BY <1>5 DEF EnqueueSignal, TimelineInv
  <2>2. GpuWork' \subseteq GpuWork
    BY <2>1 DEF GpuWork
  <2> QED
    BY <1>1, <2>2, RetireStep
<1> QED
  BY <1>3, <1>4, <1>5 DEF EncoderStep

LEMMA GpuRefines ==
  ASSUME GpuStep
  PROVE  Lock!Next
<1>1. Held' = Held
  BY OtherFrame DEF Held
<1>2. bound' = bound /\ queue' \subseteq queue
  BY DEF GpuStep, Finish, GpuFault, encoder
<1>3. GpuWork' \subseteq GpuWork
  BY <1>2 DEF GpuWork
<1> QED
  BY <1>1, <1>3, RetireStep

LEMMA ThreadRefines ==
  ASSUME IInv, IInv', NEW t \in Threads, ThreadStep(t)
  PROVE  Lock!Next
<1>1. TypeOK
  BY DEF IInv
<1>2. GpuWork' = GpuWork
  BY ThreadFrame DEF GpuWork
<1>3. ASSUME pc[t] \in Owning \ {"held"}, pc' = [pc EXCEPT ![t] = "held"], mode' = mode
      PROVE  Lock!Next
  <2>1. PICK m \in Lock!Roles : mode[t] = m
    BY <1>1 DEF Lock!Roles, TypeOK, Modes
  <2>2. Lock!Grant(t, m)
    BY <1>2, <1>3, <2>1, GrantCompatible
  <2> QED
    BY <2>2 DEF Lock!Next
<1>4. ASSUME pc[t] # "held", pc'[t] # "held",
             \A u \in Threads \ {t} : pc'[u] = pc[u] /\ mode'[u] = mode[u]
      PROVE  Lock!Next
  <2>1. Held' = Held
    BY <1>4 DEF Held
  <2> QED
    BY <1>2, <2>1, RetireStep
<1>5. CASE (\E m \in Modes : Ask(t, m)) \/ TakeSlot(t) \/ Busy(t) \/ LoadStamp(t)
           \/ ReadSignaled(t) \/ CheckSubmitted(t) \/ EnterWait(t) \/ WaitTimeout(t)
  <2>1. pc[t] # "held" /\ \E where \in PcStates \ {"held"} : pc' = [pc EXCEPT ![t] = where]
    BY <1>5 DEF Ask, TakeSlot, Busy, LoadStamp, ReadSignaled, CheckSubmitted,
         EnterWait, WaitTimeout, Goto, Fail, PcStates
  <2>2. mode' = mode \/ \E m \in Modes : mode' = [mode EXCEPT ![t] = m]
    BY <1>5 DEF Ask, TakeSlot, Busy, LoadStamp, ReadSignaled, CheckSubmitted,
         EnterWait, WaitTimeout
  <2>3. pc'[t] # "held" /\ \A u \in Threads \ {t} : pc'[u] = pc[u]
    BY <1>1, <2>1 DEF TypeOK
  <2>4. \A u \in Threads \ {t} : mode'[u] = mode[u]
    BY <1>1, <2>2 DEF TypeOK
  <2> QED
    BY <1>4, <2>1, <2>3, <2>4
<1>6. CASE WaitStamp(t) \/ CheckSignaled(t) \/ WaitReached(t)
  <2>1. pc[t] \in Owning \ {"held"} /\ mode' = mode
    BY <1>6 DEF WaitStamp, CheckSignaled, WaitReached, Owning, PcStates
  <2>2. \/ pc' = [pc EXCEPT ![t] = "held"]
        \/ \E where \in PcStates \ {"held"} : pc' = [pc EXCEPT ![t] = where]
    BY <1>6 DEF WaitStamp, CheckSignaled, WaitReached, Goto, Fail, PcStates
  <2> QED
    BY <1>1, <1>3, <1>4, <2>1, <2>2 DEF TypeOK
<1>7. CASE Drop(t)
  <2>1. pc' = [pc EXCEPT ![t] = "idle"] /\ mode' = mode /\ pc[t] \in {"held", "failed"}
    BY <1>7 DEF Drop, Goto
  <2>2. CASE pc[t] = "held"
    <3>1. Held[t] = mode[t] /\ mode[t] # "None"
      BY <1>1, <2>2 DEF Held, TypeOK, Modes
    <3>2. Held' = [Held EXCEPT ![t] = "None"]
      BY <1>1, <2>1 DEF Held, TypeOK
    <3> QED
      BY <1>2, <3>1, <3>2 DEF Lock!Next, Lock!Return, Held
  <2>3. CASE pc[t] = "failed"
    BY <1>1, <1>4, <2>1, <2>3 DEF TypeOK
  <2> QED
    BY <2>1, <2>2, <2>3
<1> QED
  BY <1>5, <1>6, <1>7 DEF ThreadStep, CallStep

\* A shared buffer is a reader-writer lock between the host threads and the GPU, if
\* every GPU bind goes through bind_shared.
THEOREM ImplementsLock == ASSUME ~AdoptedBinds PROVE Spec => LockSpec
<1>1. Init => Lock!Init
  BY DEF Init, Lock!Init, GpuWork
<1>2. IInv /\ IInv' /\ [Next]_vars => [Lock!Next]_(Lock!vars)
  <2> SUFFICES ASSUME IInv, IInv', [Next]_vars PROVE [Lock!Next]_(Lock!vars)
    OBVIOUS
  <2>1. CASE UNCHANGED vars
    BY <2>1 DEF vars, encoder, locals, Lock!vars, GpuWork
  <2>2. CASE Next
    BY <2>2, EncoderRefines, GpuRefines, ThreadRefines DEF Next
  <2> QED
    BY <2>1, <2>2
<1> QED
  BY <1>1, <1>2, Inductive, PTL DEF Spec, LockSpec, Lock!Spec

------------------------------------------------------------------------------
(***************************************************************************)
(* Waits of the fence protocol in SharedBuffer.tla: a call that blocks     *)
(* waits for a value some commit brings, and a flush leaves no stamp above *)
(* what was submitted.  Both follow from where the last published value    *)
(* is: on the event, on the queue, or about to be enqueued.  Neither needs *)
(* the binds to go through bind_shared.                                    *)
(***************************************************************************)

\* The last published value is on its way to the event; a call that passed its
\* check waits for no later one.
BackedInv ==
  /\ \/ signaled >= submitted
     \/ \E c \in queue : c.value >= submitted
     \/ enc = "stored"
  /\ \A t \in Threads : pc[t] \in {"enter", "blocked"} => stamp[t] <= submitted

\* A stamp is at most one above what was submitted, and not above it once the
\* commit of the command buffer that carries it is published.
StampsInv ==
  /\ lastUse <= submitted + 1
  /\ enc \in {"none", "closed", "sync", "stored"} /\ ~poisoned => lastUse <= submitted

WaitInv == TypeOK /\ TimelineInv /\ BackedInv /\ StampsInv

LEMMA WaitInit == Init => WaitInv
<1> SUFFICES ASSUME Init PROVE WaitInv
  OBVIOUS
<1>1. TypeOK
  BY TypeInit
<1>2. TimelineInv /\ BackedInv /\ StampsInv
  BY DEF Init, TimelineInv, BackedInv, StampsInv
<1> QED
  BY <1>1, <1>2 DEF WaitInv

\* The latch is never reset.
LEMMA PoisonStays ==
  ASSUME TypeOK, [Next]_vars
  PROVE  poisoned => poisoned'
BY DEF TypeOK, Next, vars, fence, EncoderStep, GpuStep, ThreadStep, CallStep, DispatchOther,
   StampUse, BindAdopted, StampWrite, CheckLease, ScopeFails, AbortScope, Commit, PublishValue,
   EnqueueSignal, Synchronize, SyncReached, SyncTimeout, SpendBudget, Finish, GpuFault,
   Ask, TakeSlot, Busy, LoadStamp, WaitStamp, ReadSignaled, CheckSignaled, CheckSubmitted,
   EnterWait, WaitReached, WaitTimeout, Drop

LEMMA EncoderBacks ==
  ASSUME WaitInv, EncoderStep
  PROVE  BackedInv' /\ StampsInv'
<1> USE DEF WaitInv
<1>1. UNCHANGED <<pc, stamp>>
  BY OtherFrame
<1>2. /\ submitted \in Nat /\ signaled \in Nat /\ lastUse \in Nat
      /\ cbuf.value \in Nat /\ cbuf.after \in Nat
      /\ \A t \in Threads : stamp[t] \in Nat
  BY DEF TypeOK, Commits
<1>3. poisoned => poisoned'
  BY PoisonStays DEF Next
<1>4. ASSUME UNCHANGED <<lastUse, submitted, signaled, queue>>, enc # "stored",
             \/ enc' \notin {"none", "closed", "sync", "stored"}
             \/ enc \in {"none", "closed", "sync"}
             \/ poisoned'
      PROVE  BackedInv' /\ StampsInv'
  BY <1>1, <1>3, <1>4 DEF BackedInv, StampsInv
<1>5. CASE DispatchOther \/ StampWrite \/ CheckLease \/ ScopeFails \/ Commit
           \/ \E r \in Modes : BindAdopted(r)
  BY <1>4, <1>5 DEF DispatchOther, StampWrite, CheckLease, ScopeFails, Commit, BindAdopted,
       Recording, fence
<1>6. CASE AbortScope \/ Synchronize \/ SyncReached \/ SyncTimeout
  BY <1>4, <1>6 DEF AbortScope, Synchronize, SyncReached, SyncTimeout, fence
<1>7. CASE \E r \in Modes : StampUse(r)
  <2>1. /\ lastUse' = Larger(lastUse, submitted + 1)
        /\ enc' = "useStamped" /\ enc # "stored"
        /\ UNCHANGED <<submitted, signaled, queue>>
    BY <1>7 DEF StampUse, PendingCommitValue, Recording, fence
  <2> QED
    BY <1>1, <1>2, <2>1 DEF BackedInv, StampsInv, Larger
<1>8. CASE PublishValue
  <2>1. /\ submitted' = cbuf.value /\ enc' = "stored" /\ submitted < cbuf.value
        /\ UNCHANGED <<lastUse, signaled, queue>>
    BY <1>8 DEF PublishValue, TimelineInv
  <2> QED
    BY <1>1, <1>2, <2>1 DEF BackedInv, StampsInv
<1>9. CASE \E wait \in BOOLEAN : EnqueueSignal(wait)
  <2>1. /\ enc = "stored" /\ enc' \in {"sync", "closed"} /\ cbuf.value = submitted
        /\ queue' = queue \cup {cbuf}
        /\ UNCHANGED <<lastUse, submitted, signaled>>
    BY <1>9 DEF EnqueueSignal, TimelineInv, fence
  <2>2. \E c \in queue' : c.value >= submitted'
    BY <1>2, <2>1
  <2> QED
    BY <1>1, <1>2, <1>3, <2>1, <2>2 DEF BackedInv, StampsInv
<1> QED
  BY <1>5, <1>6, <1>7, <1>8, <1>9 DEF EncoderStep

LEMMA GpuBacks ==
  ASSUME WaitInv, GpuStep
  PROVE  BackedInv' /\ StampsInv'
<1> USE DEF WaitInv
<1>1. UNCHANGED <<pc, stamp>>
  BY OtherFrame
<1>2. poisoned => poisoned'
  BY PoisonStays DEF Next
<1>3. UNCHANGED <<lastUse, submitted, enc>>
  BY DEF GpuStep, Finish, GpuFault, encoder
<1>4. StampsInv'
  BY <1>2, <1>3 DEF StampsInv
<1>5. BackedInv'
  <2>1. CASE GpuFault
    BY <1>1, <1>3, <2>1 DEF GpuFault, BackedInv, encoder
  <2>2. ASSUME NEW c \in queue, Finish(c)
        PROVE  BackedInv'
    <3>1. signaled' = c.value /\ queue' = queue \ {c}
      BY <2>2 DEF Finish
    <3>2. signaled <= c.value /\ c.value \in Nat /\ signaled \in Nat /\ submitted \in Nat
      BY DEF TimelineInv, TypeOK, Commits
    <3> QED
      BY <1>1, <1>3, <3>1, <3>2 DEF BackedInv
  <2> QED
    BY <2>1, <2>2 DEF GpuStep
<1> QED
  BY <1>4, <1>5

LEMMA ThreadBacks ==
  ASSUME WaitInv, NEW t \in Threads, ThreadStep(t)
  PROVE  BackedInv' /\ StampsInv'
<1> USE DEF WaitInv
<1>1. /\ UNCHANGED <<lastUse, submitted, signaled>>
      /\ UNCHANGED <<enc, queue>>
  BY ThreadFrame
<1>2. poisoned => poisoned'
  BY PoisonStays DEF Next
<1>3. ASSUME NEW u \in Threads, pc'[u] \in {"enter", "blocked"}
      PROVE  stamp'[u] <= submitted
  <2> USE DEF TypeOK, Goto, Fail
  <2>1. CASE u # t
    <3>1. pc'[u] = pc[u] /\ stamp'[u] = stamp[u]
      BY <2>1 DEF ThreadStep, CallStep, Ask, TakeSlot, Busy, LoadStamp, WaitStamp, ReadSignaled,
           CheckSignaled, CheckSubmitted, EnterWait, WaitReached, WaitTimeout, Drop
    <3> QED
      BY <1>3, <3>1 DEF BackedInv
  <2>2. CASE u = t
    <3>1. stamp' = stamp /\ (CheckSubmitted(t) \/ EnterWait(t))
      BY <1>3, <2>2 DEF ThreadStep, CallStep, Ask, TakeSlot, Busy, LoadStamp, WaitStamp,
           ReadSignaled, CheckSignaled, CheckSubmitted, EnterWait, WaitReached, WaitTimeout, Drop
    <3> QED
      BY <1>3, <2>2, <3>1 DEF CheckSubmitted, EnterWait, BackedInv
  <2> QED
    BY <2>1, <2>2
<1> QED
  BY <1>1, <1>2, <1>3 DEF BackedInv, StampsInv

LEMMA WaitStep ==
  ASSUME WaitInv, [Next]_vars
  PROVE  WaitInv'
<1>1. TypeOK' /\ TimelineInv'
  BY TypeStep, TimelineStep DEF WaitInv
<1>2. BackedInv' /\ StampsInv'
  <2>1. CASE UNCHANGED vars
    BY <2>1 DEF vars, fence, encoder, locals, WaitInv, BackedInv, StampsInv
  <2> QED
    BY <2>1, EncoderBacks, GpuBacks, ThreadBacks DEF Next
<1> QED
  BY <1>1, <1>2 DEF WaitInv

LEMMA WaitInductive == Spec => []WaitInv
<1>1. Init => WaitInv
  BY WaitInit
<1>2. WaitInv /\ [Next]_vars => WaitInv'
  BY WaitStep
<1> QED
  BY <1>1, <1>2, PTL DEF Spec

\* A blocked thread never spends its budget on a command that is still being
\* recorded: the value it waits for was published, and its signal is under way.
THEOREM WaitsBacked == Spec => []WaitsAreBacked
<1>1. WaitInv => WaitsAreBacked
  <2> SUFFICES ASSUME WaitInv, NEW t \in Threads, pc[t] \in {"enter", "blocked"}
               PROVE  \/ signaled >= stamp[t]
                      \/ \E c \in queue : c.value >= stamp[t]
                      \/ enc = "stored" /\ cbuf.value >= stamp[t]
    BY DEF WaitsAreBacked
  <2>1. /\ stamp[t] <= submitted /\ stamp[t] \in Nat /\ submitted \in Nat /\ signaled \in Nat
        /\ \A c \in queue : c.value \in Nat
        /\ enc = "stored" => cbuf.value = submitted
    BY DEF WaitInv, BackedInv, TypeOK, Commits, TimelineInv
  <2>2. \/ signaled >= submitted
        \/ \E c \in queue : c.value >= submitted
        \/ enc = "stored"
    BY DEF WaitInv, BackedInv
  <2> QED
    BY <2>1, <2>2
<1> QED
  BY <1>1, WaitInductive, PTL

\* After a flush, a retry finds no stamp that nothing will bring.
THEOREM FlushSettles == Spec => []FlushSettlesStamps
<1>1. WaitInv => FlushSettlesStamps
  BY DEF WaitInv, StampsInv, FlushSettlesStamps
<1> QED
  BY <1>1, WaitInductive, PTL
==============================================================================
