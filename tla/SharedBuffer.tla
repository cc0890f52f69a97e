---------------------------- MODULE SharedBuffer ----------------------------
(***************************************************************************)
(* The fence protocol of one SharedBuf: host threads take read and write   *)
(* leases on bytes that the GPU also uses, with no lock held across the    *)
(* two sides.  Each side leaves a mark before it looks at the other's:     *)
(* a GPU bind raises the buffer's stamps and then reads the lease word, a  *)
(* host lease takes its slot in the lease word and then reads the stamp.   *)
(*                                                                         *)
(* One step is one atomic access to a word another thread also accesses,   *)
(* so every interleaving of the host threads, the encoding thread and the  *)
(* GPU is explored.  The encoding thread is the only one that binds and    *)
(* commits (GpuRuntime is !Send).                                          *)
(***************************************************************************)
EXTENDS Integers, FiniteSets

CONSTANTS
  Threads,       \* host threads that take leases
  MaxValue,      \* bound: the commit clock stops here
  LeaseMax,      \* i32::MAX, the most read leases the lease word can count
  TimeoutLimit,  \* CONSECUTIVE_EVENT_WAIT_TIMEOUTS
  Timeouts,      \* whether a wait may run out of its budget
  AdoptedBinds   \* whether the caller also binds to_gpu_buffer()'s handle

ASSUME ConstantsAssumption ==
  /\ IsFiniteSet(Threads)
  /\ MaxValue \in Nat
  /\ LeaseMax \in Nat \ {0}
  /\ TimeoutLimit \in Nat \ {0}
  /\ Timeouts \in BOOLEAN
  /\ AdoptedBinds \in BOOLEAN

VARIABLES
  lease,         \* the lease word: 0 free, n > 0 readers, -1 one writer
  lastUse,       \* stamp: highest commit value of a command using the buffer
  lastWrite,     \* stamp: highest commit value of a command writing it
  submitted,     \* event_value: the last commit value published
  signaled,      \* the private lifetime event
  streak,        \* consecutive wait budgets that ran out
  poisoned,      \* the poison latch
  enc,           \* where the encoding thread is
  role,          \* the role of the bind in progress
  bound,         \* roles this buffer has in the command buffer being recorded
  cbuf,          \* the commit whose value is drawn and not yet signalled
  queue,         \* commits the queue will signal, not finished yet
  pc,            \* where each host thread is in read() or write()
  mode,          \* what it asked for
  stamp,         \* the stamp it loaded
  seen,          \* the event value it loaded
  err            \* why its call is failing

fence == <<submitted, signaled, streak, poisoned>>
encoder == <<enc, role, bound, cbuf, queue>>
locals == <<pc, mode, stamp, seen, err>>
vars == <<lease, lastUse, lastWrite, fence, encoder, locals>>

Modes == {"Read", "Write"}

\* A commit: the event value before it, its own, and its use of the buffer.
Commits == [after : Nat, value : Nat, roles : SUBSET Modes]
NoCommit == [after |-> 0, value |-> 0, roles |-> {}]

\* encoder: "none" is batch == None, "closed" a batch with no open command
\* buffer, "open" one being recorded; the rest is inside a bind or a commit.
EncStates == {"none", "closed", "open", "useStamped", "writeStamped",
              "refused", "drawn", "stored", "sync"}

\* host thread: "failed" and "held" still own the slot in the lease word.
PcStates == {"idle", "asked", "slot", "loaded", "probe", "verify", "gate",
             "enter", "blocked", "failed", "held"}
Owning == PcStates \ {"idle", "asked"}

Errors == {"None", "NotSubmitted", "PoisonText", "ViolationText", "TimeoutText",
           "DeviceLostText"}

Larger(a, b) == IF a < b THEN b ELSE a

-----------------------------------------------------------------------------
(* The encoding thread.                                                    *)

\* GpuRuntime::pending_commit_value inside a binder scope: a command buffer
\* is open, so the next commit carries the command.
PendingCommitValue == submitted + 1

\* Faulty variant of GpuAccess: a write bind is let in beside readers.
GpuAccessBesideReaders(l, r) == l >= 0

\* SharedBuf::gpu_access
GpuAccess(l, r) == IF r = "Read" THEN l >= 0 ELSE l = 0

\* lifetime_event_violation
Violation(value) == value > submitted

Recording == enc \in {"none", "closed", "open"} /\ ~poisoned

\* A dispatch that does not touch this buffer opens a command buffer.
DispatchOther ==
  /\ Recording /\ enc # "open" /\ submitted < MaxValue
  /\ enc' = "open"
  /\ UNCHANGED <<lease, lastUse, lastWrite, fence, role, bound, cbuf, queue, locals>>

\* bind_shared up to the first stamp of stamp_gpu.
StampUse(r) ==
  /\ Recording /\ submitted < MaxValue
  /\ lastUse' = Larger(lastUse, PendingCommitValue)
  /\ role' = r
  /\ enc' = "useStamped"
  /\ UNCHANGED <<lease, lastWrite, fence, bound, cbuf, queue, locals>>

\* The second stamp, for a write bind only.
StampWrite ==
  /\ enc = "useStamped"
  /\ lastWrite' = IF role = "Write" THEN Larger(lastWrite, PendingCommitValue)
                                    ELSE lastWrite
  /\ enc' = "writeStamped"
  /\ UNCHANGED <<lease, lastUse, fence, role, bound, cbuf, queue, locals>>

\* The lease check that ends stamp_gpu: the bind is encoded or refused.
CheckLease ==
  /\ enc = "writeStamped"
  /\ IF GpuAccess(lease, role)
     THEN bound' = bound \cup {role} /\ enc' = "open"
     ELSE bound' = bound /\ enc' = "refused"
  /\ UNCHANGED <<lease, lastUse, lastWrite, fence, role, cbuf, queue, locals>>

\* A scope that fails for another reason: a bind of this buffer during an ICB
\* capture or through another runtime, or a closure error.
ScopeFails ==
  /\ Recording
  /\ enc' = "refused"
  /\ UNCHANGED <<lease, lastUse, lastWrite, fence, role, bound, cbuf, queue, locals>>

\* Faulty variant of AbortScope: the batch is aborted, the runtime not poisoned.
AbortScopeUnpoisoned ==
  /\ enc = "refused"
  /\ bound' = {}
  /\ enc' = "none"
  /\ UNCHANGED <<lease, lastUse, lastWrite, fence, role, cbuf, queue, locals>>

\* encode_into_batch_m4_inner's error path: poison, then abort_open_batch.
AbortScope ==
  /\ enc = "refused"
  /\ poisoned' = TRUE
  /\ bound' = {}
  /\ enc' = "none"
  /\ UNCHANGED <<lease, lastUse, lastWrite, submitted, signaled, streak, role,
                 cbuf, queue, locals>>

\* The caller binds the handle to_gpu_buffer returned: bind_owned stamps
\* nothing and reads no lease.
BindAdopted(r) ==
  /\ AdoptedBinds
  /\ Recording /\ submitted < MaxValue
  /\ bound' = bound \cup {r}
  /\ enc' = "open"
  /\ UNCHANGED <<lease, lastUse, lastWrite, fence, role, cbuf, queue, locals>>

\* Faulty variant of Commit: the queue may signal before event_value is stored.
CommitSignalsFirst ==
  /\ enc = "open" /\ ~poisoned
  /\ \E v \in (submitted + 1) .. MaxValue :
       /\ cbuf' = [after |-> submitted, value |-> v, roles |-> bound]
       /\ queue' = queue \cup {cbuf'}
  /\ enc' = "drawn"
  /\ UNCHANGED <<lease, lastUse, lastWrite, fence, role, bound, locals>>

\* commit_m4 as far as Shared::issue: the command buffer is on the queue, its
\* commands may run, and its value is drawn.  Runtimes that share the commit
\* clock leave gaps between one runtime's values.
Commit ==
  /\ enc = "open" /\ ~poisoned
  /\ \E v \in (submitted + 1) .. MaxValue :
       cbuf' = [after |-> submitted, value |-> v, roles |-> bound]
  /\ enc' = "drawn"
  /\ UNCHANGED <<lease, lastUse, lastWrite, fence, role, bound, queue, locals>>

\* event_value is stored before the queue is told to signal.
PublishValue ==
  /\ enc = "drawn"
  /\ submitted' = cbuf.value
  /\ enc' = "stored"
  /\ UNCHANGED <<lease, lastUse, lastWrite, signaled, streak, poisoned, role,
                 bound, cbuf, queue, locals>>

\* The queue takes the signal.  A waiting commit goes on into HostFence::wait,
\* which a poisoned runtime refuses.
EnqueueSignal(wait) ==
  /\ enc = "stored"
  /\ queue' = queue \cup {cbuf}
  /\ bound' = {}
  /\ cbuf' = NoCommit
  /\ enc' = IF wait /\ ~poisoned THEN "sync" ELSE "closed"
  /\ UNCHANGED <<lease, lastUse, lastWrite, fence, role, locals>>

\* A waiting commit that finds no open command buffer: wait_all_allocators.
Synchronize ==
  /\ enc = "closed" /\ ~poisoned
  /\ enc' = "sync"
  /\ UNCHANGED <<lease, lastUse, lastWrite, fence, role, bound, cbuf, queue, locals>>

\* The batch is cleared, unless the wait for a closed one ends in a fault the
\* feedback reported.
SyncReached ==
  /\ enc = "sync" /\ signaled >= submitted
  /\ streak' = 0
  /\ poisoned' = (poisoned \/ Violation(signaled))
  /\ enc' = "none" \/ (poisoned' /\ enc' = "closed")
  /\ UNCHANGED <<lease, lastUse, lastWrite, submitted, signaled, role, bound,
                 cbuf, queue, locals>>

\* The budget ran out: a retryable error, or the third in a row poisons.
SpendBudget ==
  /\ streak' = streak + 1
  /\ poisoned' = (poisoned \/ streak' >= TimeoutLimit)

SyncTimeout ==
  /\ Timeouts
  /\ enc = "sync" /\ signaled < submitted
  /\ SpendBudget
  /\ enc' = "closed"
  /\ UNCHANGED <<lease, lastUse, lastWrite, submitted, signaled, role, bound,
                 cbuf, queue, locals>>

-----------------------------------------------------------------------------
(* The GPU queue: commits finish in order, each signalling its value.      *)

Finish(c) ==
  /\ c \in queue
  /\ \A d \in queue : c.value <= d.value
  /\ signaled' = c.value
  /\ queue' = queue \ {c}
  /\ UNCHANGED <<lease, lastUse, lastWrite, submitted, streak, poisoned, enc,
                 role, bound, cbuf, locals>>

\* The feedback of a committed command buffer reports a fault.
GpuFault ==
  /\ ~poisoned
  /\ submitted > 0 \/ enc \in {"drawn", "stored"}
  /\ poisoned' = TRUE
  /\ UNCHANGED <<lease, lastUse, lastWrite, submitted, signaled, streak, encoder,
                 locals>>

-----------------------------------------------------------------------------
(* A host thread in read(), write(), acquire_read() or acquire_write().    *)

Goto(t, where) == pc' = [pc EXCEPT ![t] = where]

\* HostFence::ensure_not_poisoned at the head of the call.
Ask(t, m) ==
  /\ pc[t] = "idle" /\ ~poisoned
  /\ mode' = [mode EXCEPT ![t] = m]
  /\ Goto(t, "asked")
  /\ UNCHANGED <<lease, lastUse, lastWrite, fence, encoder, stamp, seen, err>>

\* Faulty variant of CanTakeSlot: a writer looks only for another writer.
CanTakeSlotBesideReaders(m) == lease >= 0 /\ lease < LeaseMax

\* The compare-exchange on the lease word, where it may be refused as Busy.
CanTakeSlot(m) == IF m = "Read" THEN lease >= 0 /\ lease < LeaseMax ELSE lease = 0

TakeSlot(t) ==
  /\ pc[t] = "asked" /\ CanTakeSlot(mode[t])
  /\ lease' = IF mode[t] = "Read" THEN lease + 1 ELSE -1
  /\ Goto(t, "slot")
  /\ UNCHANGED <<lastUse, lastWrite, fence, encoder, mode, stamp, seen, err>>

Busy(t) ==
  /\ pc[t] = "asked" /\ ~CanTakeSlot(mode[t])
  /\ Goto(t, "idle")
  /\ UNCHANGED <<lease, lastUse, lastWrite, fence, encoder, mode, stamp, seen, err>>

\* Faulty variants of StampFor: a write overlooks the GPU's readers; a wait is
\* for the commit before the one that matters.
StampOfWriters(m) == lastWrite
StampBefore(m) == (IF m = "Read" THEN lastWrite ELSE lastUse) - 1

\* A read waits for the last writer, a write for the last user.
StampFor(m) == IF m = "Read" THEN lastWrite ELSE lastUse

LoadStamp(t) ==
  /\ pc[t] = "slot"
  /\ stamp' = [stamp EXCEPT ![t] = StampFor(mode[t])]
  /\ Goto(t, "loaded")
  /\ UNCHANGED <<lease, lastUse, lastWrite, fence, encoder, mode, seen, err>>

Fail(t, why) ==
  /\ err' = [err EXCEPT ![t] = why]
  /\ Goto(t, "failed")

\* HostFence::wait_stamp: poison first, then "no GPU use".
WaitStamp(t) ==
  /\ pc[t] = "loaded"
  /\ IF poisoned THEN Fail(t, "PoisonText")
     ELSE Goto(t, IF stamp[t] = 0 THEN "held" ELSE "probe") /\ UNCHANGED err
  /\ UNCHANGED <<lease, lastUse, lastWrite, fence, encoder, mode, stamp, seen>>

\* HostFence::checked_value reads the event, then what was submitted.
ReadSignaled(t) ==
  /\ pc[t] = "probe"
  /\ seen' = [seen EXCEPT ![t] = signaled]
  /\ Goto(t, "verify")
  /\ UNCHANGED <<lease, lastUse, lastWrite, fence, encoder, mode, stamp, err>>

CheckSignaled(t) ==
  /\ pc[t] = "verify"
  /\ poisoned' = (poisoned \/ Violation(seen[t]))
  /\ IF Violation(seen[t]) THEN Fail(t, "ViolationText")
     ELSE Goto(t, IF seen[t] >= stamp[t] THEN "held" ELSE "gate") /\ UNCHANGED err
  /\ UNCHANGED <<lease, lastUse, lastWrite, submitted, signaled, streak, encoder,
                 mode, stamp, seen>>

\* Faulty variant of CheckSubmitted: the wait is entered whatever was submitted.
WaitAnyway(t) ==
  /\ pc[t] = "gate"
  /\ Goto(t, "enter")
  /\ UNCHANGED <<lease, lastUse, lastWrite, fence, encoder, mode, stamp, seen, err>>

\* A stamp no commit has been made for is not waited on.
CheckSubmitted(t) ==
  /\ pc[t] = "gate"
  /\ IF stamp[t] > submitted THEN Fail(t, "NotSubmitted")
     ELSE Goto(t, "enter") /\ UNCHANGED err
  /\ UNCHANGED <<lease, lastUse, lastWrite, fence, encoder, mode, stamp, seen>>

\* HostFence::wait
EnterWait(t) ==
  /\ pc[t] = "enter"
  /\ IF poisoned THEN Fail(t, "PoisonText") ELSE Goto(t, "blocked") /\ UNCHANGED err
  /\ UNCHANGED <<lease, lastUse, lastWrite, fence, encoder, mode, stamp, seen>>

WaitReached(t) ==
  /\ pc[t] = "blocked" /\ signaled >= stamp[t]
  /\ streak' = 0
  /\ poisoned' = (poisoned \/ Violation(signaled))
  /\ IF Violation(signaled) THEN Fail(t, "ViolationText")
     ELSE Goto(t, "held") /\ UNCHANGED err
  /\ UNCHANGED <<lease, lastUse, lastWrite, submitted, signaled, encoder, mode,
                 stamp, seen>>

WaitTimeout(t) ==
  /\ Timeouts
  /\ pc[t] = "blocked" /\ signaled < stamp[t]
  /\ SpendBudget
  /\ Fail(t, IF streak' >= TimeoutLimit THEN "DeviceLostText" ELSE "TimeoutText")
  /\ UNCHANGED <<lease, lastUse, lastWrite, submitted, signaled, encoder, mode,
                 stamp, seen>>

\* Drop of the lease guard, after the caller is done or on an error path.
\* A reader counts itself out, a writer stores 0.
Drop(t) ==
  /\ pc[t] \in {"held", "failed"}
  /\ lease' = IF mode[t] = "Read" THEN lease - 1 ELSE 0
  /\ Goto(t, "idle")
  /\ stamp' = [stamp EXCEPT ![t] = 0]
  /\ seen' = [seen EXCEPT ![t] = 0]
  /\ err' = [err EXCEPT ![t] = "None"]
  /\ UNCHANGED <<lastUse, lastWrite, fence, encoder, mode>>

-----------------------------------------------------------------------------
Init ==
  /\ lease = 0 /\ lastUse = 0 /\ lastWrite = 0
  /\ submitted = 0 /\ signaled = 0 /\ streak = 0 /\ poisoned = FALSE
  /\ enc = "none" /\ role = "Read" /\ bound = {} /\ cbuf = NoCommit /\ queue = {}
  /\ pc = [t \in Threads |-> "idle"]
  /\ mode = [t \in Threads |-> "Read"]
  /\ stamp = [t \in Threads |-> 0]
  /\ seen = [t \in Threads |-> 0]
  /\ err = [t \in Threads |-> "None"]

EncoderStep ==
  \/ DispatchOther
  \/ \E r \in Modes : StampUse(r) \/ BindAdopted(r)
  \/ StampWrite \/ CheckLease \/ ScopeFails \/ AbortScope
  \/ Commit \/ PublishValue
  \/ \E wait \in BOOLEAN : EnqueueSignal(wait)
  \/ Synchronize \/ SyncReached \/ SyncTimeout

GpuStep == (\E c \in queue : Finish(c)) \/ GpuFault

\* The steps of a call from the lease word to its answer.
CallStep(t) ==
  \/ TakeSlot(t) \/ Busy(t) \/ LoadStamp(t) \/ WaitStamp(t) \/ ReadSignaled(t)
  \/ CheckSignaled(t) \/ CheckSubmitted(t) \/ EnterWait(t) \/ WaitReached(t)
  \/ WaitTimeout(t)

ThreadStep(t) == (\E m \in Modes : Ask(t, m)) \/ CallStep(t) \/ Drop(t)

Next == EncoderStep \/ GpuStep \/ (\E t \in Threads : ThreadStep(t))

Spec == Init /\ [][Next]_vars

\* Fairness the code justifies: a thread inside a call runs on, a commit that
\* reached the queue is signalled, and the GPU finishes what it was given.
\* Nothing says the caller ever commits, nor that a lease is ever dropped.
Fairness ==
  /\ \A t \in Threads : WF_vars(CallStep(t))
  /\ WF_vars(PublishValue \/ \E wait \in BOOLEAN : EnqueueSignal(wait))
  /\ WF_vars(\E c \in queue : Finish(c))

FairSpec == Spec /\ Fairness

-----------------------------------------------------------------------------
(* Properties.                                                             *)

TypeOK ==
  /\ lease \in Int /\ lastUse \in Nat /\ lastWrite \in Nat
  /\ submitted \in Nat /\ signaled \in Nat /\ streak \in Nat
  /\ poisoned \in BOOLEAN
  /\ enc \in EncStates /\ role \in Modes /\ bound \in SUBSET Modes
  /\ cbuf \in Commits /\ queue \in SUBSET Commits
  /\ pc \in [Threads -> PcStates] /\ mode \in [Threads -> Modes]
  /\ stamp \in [Threads -> Nat] /\ seen \in [Threads -> Nat]
  /\ err \in [Threads -> Errors]

\* The roles of every command the GPU may run now or after the next commit.
GpuWork == bound \cup UNION {c.roles : c \in queue}

Holds(t, m) == pc[t] = "held" /\ mode[t] = m

\* While a thread holds a read lease no command that writes the buffer is
\* encoded, queued or running; while one holds the write lease, none that uses
\* it at all.  (The purpose of the stamps, the lease word and their order.)
HostGpuExclusion ==
  \A t \in Threads :
    /\ Holds(t, "Read") => "Write" \notin GpuWork
    /\ Holds(t, "Write") => GpuWork = {}

\* The lease word counts exactly the calls that took a slot and have not given
\* it back, failed calls included: one leak and the buffer is Busy for good,
\* one release too many and a writer is let in beside a reader.
LeaseWordCounts ==
  LET owners(m) == {t \in Threads : pc[t] \in Owning /\ mode[t] = m} IN
  \/ lease = -1 /\ owners("Read") = {} /\ Cardinality(owners("Write")) = 1
  \/ lease = Cardinality(owners("Read")) /\ owners("Write") = {}

\* A thread blocked on the event is waiting for a value that some commit
\* already published will bring: it never spends its budget on a command that
\* is still in an open command buffer.
WaitsAreBacked ==
  \A t \in Threads : pc[t] \in {"enter", "blocked"} =>
    \/ signaled >= stamp[t]
    \/ \E c \in queue : c.value >= stamp[t]
    \/ enc = "stored" /\ cbuf.value >= stamp[t]

\* The honesty check on the lifetime event never accuses the queue: the event
\* value a thread read is at most what it then reads as submitted, whatever
\* commits in between.
HonestEventPasses ==
  \A t \in Threads : pc[t] = "verify" => ~Violation(seen[t])

\* "Flush with commit(false) and retry" is enough: once no command buffer is
\* open, no stamp lies above what was submitted, unless the runtime died with
\* a scope in the air.
FlushSettlesStamps ==
  enc \in {"none", "closed", "sync"} /\ ~poisoned => lastUse <= submitted

\* A thread that waits on the event is given its lease, when no budget runs out.
BlockedIsGranted ==
  \A t \in Threads : (pc[t] = "blocked") ~> (pc[t] = "held")

\* The buffer is a reader-writer lock between the host threads and the GPU.
Lock == INSTANCE HostGpuLock WITH
  held <- [t \in Threads |-> IF pc[t] = "held" THEN mode[t] ELSE "None"],
  work <- GpuWork

LockSpec == Lock!Spec
=============================================================================
