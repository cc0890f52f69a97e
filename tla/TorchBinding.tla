---------------------------- MODULE TorchBinding ----------------------------
(***************************************************************************)
(* The torch binding (python/tessl_torch) on the C ABI, on one thread: the *)
(* thread's runtime, the models bound to it, and what it closes when a     *)
(* call panics or poisons the runtime. Between a call's return and its     *)
(* exception, and between calls, the GPU goes on or reports a fault, and   *)
(* another thread's garbage collector may finalize a model.                *)
(* A storage of torch's that tessl work uses must stay; torch recycles one *)
(* as soon as the exception has left the frames that hold it.              *)
(***************************************************************************)
EXTENDS CApi

CONSTANT None

ASSUME NoneAssumption ==
  /\ None \notin Runtimes \cup Models
  /\ None \notin [on : Runtimes, by : Models \cup {None}, status : Statuses]

VARIABLES
  local,    \* _local.rt, None without one
  call,     \* the call that returned and has not been looked at, None
  raised    \* what the last call raised, and the runtime it ran on

vars == <<apiVars, local, call, raised>>

Errors == {"none", "TesslError", "TesslPanic", "TesslPoisoned"}
Nothing == [error |-> "none", on |-> None]

TypeOK ==
  /\ ApiTypeOK /\ local \in Runtimes \cup {None}
  /\ call \in {None} \cup [on : Runtimes, by : Models \cup {None}, status : Statuses]
  /\ raised \in [error : Errors, on : Runtimes \cup {None}]
  \* only a destructor whose wait ran out leaves work behind it
  /\ \A r \in Runtimes : running[r] # {} => Alive(r) \/ r \in ranOut

Init ==
  /\ ApiInit
  /\ local = None /\ call = None /\ raised = Nothing

LocalIsOpen == local # None /\ handle[local] = "live"

\* _runtime(): a fresh one if the thread has none or its own is closed.
\* Turning on async encode may fail, which closes it.
NewRuntime(r) ==
  /\ call = None /\ ~LocalIsOpen /\ handle[r] = "none"
  /\ \/ handle' = [handle EXCEPT ![r] = "live"] /\ local' = r /\ raised' = Nothing
     \/ /\ handle' = [handle EXCEPT ![r] = "freed"]
        /\ raised' = [error |-> "TesslError", on |-> r]
        /\ UNCHANGED local
  /\ UNCHANGED <<model, bound, latched, committed, running, ranOut, call>>

Returned(r, m, status) ==
  /\ call' = [on |-> r, by |-> m, status |-> status]
  /\ raised' = Nothing
  /\ UNCHANGED <<handle, local>>

\* A call on the thread's runtime: the cross-entropy, over torch's storages.
RuntimeCall(used, status) ==
  /\ call = None /\ LocalIsOpen
  /\ Guarded(local, used, status)
  /\ Returned(local, None, status)
  /\ UNCHANGED <<model, bound>>

\* The model's handle is written only when the call ended well.
Load(m, status) ==
  /\ call = None /\ LocalIsOpen /\ model[m] = "none"
  /\ Guarded(local, {}, status)
  /\ Returned(local, None, status)
  /\ IF status = "ok" THEN /\ model' = [model EXCEPT ![m] = "live"]
                           /\ bound' = [bound EXCEPT ![m] = local]
                      ELSE UNCHANGED <<model, bound>>

\* A call on a model runs on the GpuRuntime it holds, whatever became of the
\* handle it was loaded with.
ModelCall(m, used, status) ==
  /\ call = None /\ model[m] = "live"
  /\ Guarded(bound[m], used, status)
  /\ Returned(bound[m], m, status)
  /\ UNCHANGED <<model, bound>>

-----------------------------------------------------------------------------
(* _runtime_status, Qwen35._check and EmbedGemma2._check.                  *)

Raises(status, error) ==
  /\ call # None /\ call.status = status
  /\ raised' = [error |-> error, on |-> IF error = "none" THEN None ELSE call.on]
  /\ call' = None

Succeeds ==
  /\ Raises("ok", "none")
  /\ UNCHANGED <<apiVars, local>>

\* A panic closes the model that made the call, and the runtime.
Panics ==
  /\ Raises("panic", "TesslPanic")
  /\ Free(call.on, {call.on}, {call.by} \cap Models)
  /\ UNCHANGED local

\* is_poisoned() is asked of an open runtime only.
FoundPoisoned == handle[call.on] = "live" /\ call.on \in latched

\* Faulty variant of Poisons: the models keep the runtime they hold.
PoisonsRuntimeOnly ==
  /\ Raises("err", "TesslPoisoned") /\ FoundPoisoned
  /\ Free(call.on, {call.on}, {})
  /\ local' = IF local = call.on THEN None ELSE local

\* _close_poisoned: the models bound to the runtime, then the runtime.
Poisons ==
  /\ Raises("err", "TesslPoisoned") /\ FoundPoisoned
  /\ Free(call.on, {call.on}, ModelsOf(call.on))
  /\ local' = IF local = call.on THEN None ELSE local

Refuses ==
  /\ Raises("err", "TesslError") /\ ~FoundPoisoned
  /\ UNCHANGED <<apiVars, local>>

Close(m) ==
  /\ call = None /\ model[m] = "live"
  /\ Free(bound[m], {}, {m})
  /\ UNCHANGED <<local, call, raised>>

\* A finalizer on another thread, of a model that no call holds.
FinalizedElsewhere(m) ==
  /\ call # None => call.by # m
  /\ LeakModel(m)
  /\ UNCHANGED <<local, call, raised>>

Next ==
  \/ \E r \in Runtimes : NewRuntime(r)
  \/ \E status \in Statuses :
       \/ \E m \in Models : Load(m, status)
       \/ \E used \in SUBSET Storages :
            \/ RuntimeCall(used, status)
            \/ \E m \in Models : ModelCall(m, used, status)
  \/ Succeeds \/ Panics \/ Poisons \/ Refuses
  \/ \E m \in Models : Close(m) \/ FinalizedElsewhere(m)
  \/ \E r \in Runtimes, s \in Storages :
       GpuDone(r, s) /\ UNCHANGED <<local, call, raised>>
  \/ \E r \in Runtimes : GpuFault(r) /\ UNCHANGED <<local, call, raised>>

Spec == Init /\ [][Next]_vars

-----------------------------------------------------------------------------
(* Properties.                                                             *)

\* What the binding says of an exception: the queue is idle, "on failure as
\* well as success", and "a buffer torch recycles after an exception is never
\* still in use" (__init__.py:24-27), but for a wait that ran out of budget.
RaisedIsIdle ==
  raised.error # "none" /\ raised.on \notin ranOut => running[raised.on] = {}

\* What the code keeps of that, for every exception. Work that goes on behind
\* one, no wait having run out, is on a runtime that is poisoned and closed,
\* and that a model handle still holds, so that its destructor has not waited:
\* after TesslPoisoned, which closes the models too (_close_poisoned), one that
\* another thread's finalizer leaked. A runtime the thread may call again, or
\* a healthy one, has been waited for.
UnsettledIsHeld ==
  raised.error # "none" /\ raised.on \notin ranOut /\ running[raised.on] # {} =>
    /\ raised.on \in latched /\ handle[raised.on] = "freed"
    /\ \E m \in ModelsOf(raised.on) :
         IF raised.error = "TesslPoisoned" THEN model[m] = "leaked" ELSE Owned(model[m])

=============================================================================
