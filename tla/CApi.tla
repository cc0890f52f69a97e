-------------------------------- MODULE CApi --------------------------------
(***************************************************************************)
(* The C ABI (src/capi.rs, src/capi_embedgemma2.rs), as its caller meets   *)
(* it: runtime and model handles on their thread, each holding its GpuRun- *)
(* time alive; every call wrapped by guarded(), which waits for the work   *)
(* the call submitted unless the runtime is poisoned; the frees. A fault   *)
(* of the GPU may poison a runtime at any time, between its calls too.     *)
(* What a call computes is left out: it submits work on some of the        *)
(* caller's storages and ends well, in an error or in a panic.             *)
(***************************************************************************)
EXTENDS FiniteSets

CONSTANTS Runtimes, Models, Storages

VARIABLES
  handle,    \* each runtime handle: "none", "live", "freed" or "leaked"
  model,     \* each model handle: the same
  bound,     \* the runtime a model holds an Arc of
  latched,   \* the poisoned runtimes
  committed, \* the runtimes that have committed work, whose feedback may report a fault
  running,   \* the caller's storages each runtime's unfinished work uses
  ranOut     \* runtimes one of whose waits ran out of its budget

apiVars == <<handle, model, bound, latched, committed, running, ranOut>>

HandleStates == {"none", "live", "freed", "leaked"}
Statuses == {"ok", "err", "panic"}

ApiTypeOK ==
  /\ handle \in [Runtimes -> HandleStates] /\ model \in [Models -> HandleStates]
  /\ bound \in [Models -> Runtimes]
  /\ latched \subseteq committed /\ committed \subseteq Runtimes /\ ranOut \subseteq Runtimes
  /\ running \in [Runtimes -> SUBSET Storages]

\* A GpuRuntime lives while a handle of it or of one of its models does, a
\* leaked one too.
Owned(h) == h \in {"live", "leaked"}
ModelsOf(r) == {m \in Models : bound[m] = r}
Alive(r) == Owned(handle[r]) \/ \E m \in ModelsOf(r) : Owned(model[m])

ApiInit ==
  /\ handle = [r \in Runtimes |-> "none"] /\ model = [m \in Models |-> "none"]
  /\ bound \in {[m \in Models |-> r] : r \in Runtimes}
  /\ latched = {} /\ committed = {} /\ running = [r \in Runtimes |-> {}] /\ ranOut = {}

-----------------------------------------------------------------------------
(* guarded(): the body ran on runtime r, submitted work on `used' unless r *)
(* was poisoned, and ended; then the wait.                                 *)

\* The wait succeeds: nothing is left. A body that failed stays failed.
WaitEnds(r) ==
  /\ r \notin latched
  /\ running' = [running EXCEPT ![r] = {}]
  /\ UNCHANGED <<latched, ranOut>>

\* The wait ends, and the feedback it looks at reports a fault.
WaitFindsFault(r) ==
  /\ r \notin latched
  /\ running' = [running EXCEPT ![r] = {}]
  /\ latched' = latched \cup {r}
  /\ UNCHANGED ranOut

\* The wait, of the success path or of the error path, runs out of budget; the
\* third in a row poisons.
WaitRunsOut(r, used) ==
  /\ r \notin latched
  /\ \E left \in SUBSET (running[r] \cup used) \ {{}} :
       running' = [running EXCEPT ![r] = left]
  /\ ranOut' = ranOut \cup {r}
  /\ latched' \in {latched, latched \cup {r}}

\* The body poisoned the runtime, or found it poisoned: no wait.
NoWait(r, used) ==
  /\ LET sent == IF r \in latched THEN {} ELSE used
     IN \E left \in SUBSET (running[r] \cup sent) :
          running' = [running EXCEPT ![r] = left]
  /\ latched' = latched \cup {r}
  /\ UNCHANGED ranOut

Guarded(r, used, status) ==
  /\ \/ WaitEnds(r)
     \/ status # "ok" /\ (WaitFindsFault(r) \/ WaitRunsOut(r, used) \/ NoWait(r, used))
  /\ committed' = committed \cup {r}

-----------------------------------------------------------------------------
(* Handles.                                                                *)

\* Faulty variant of FinalWait: a poisoned runtime is not waited for, as in guarded().
FinalWaitUnlessPoisoned(r) ==
  \/ r \in latched /\ UNCHANGED <<running, ranOut>>
  \/ running' = [running EXCEPT ![r] = {}] /\ UNCHANGED ranOut

\* The destructor waits for the work, poisoned or not. A wait that runs out
\* leaves the work running and its objects leaked.
FinalWait(r) ==
  \/ running' = [running EXCEPT ![r] = {}] /\ UNCHANGED ranOut
  \/ /\ running[r] # {} /\ ranOut' = ranOut \cup {r}
     /\ UNCHANGED running

\* What drops the last Arc of a GpuRuntime runs its destructor: `h' and `ms'
\* are the handles as the frees leave them.
Dropped(r, h, ms) ==
  LET alive == Owned(h[r]) \/ \E m \in ModelsOf(r) : Owned(ms[m])
  IN IF Alive(r) /\ ~alive THEN FinalWait(r) ELSE UNCHANGED <<running, ranOut>>

Freed(hs, S) == [x \in DOMAIN hs |-> IF x \in S /\ hs[x] = "live" THEN "freed" ELSE hs[x]]

\* Frees on the owner's thread, of r's handle or not, and of models bound to r.
Free(r, hs, ms) ==
  /\ handle' = Freed(handle, hs) /\ model' = Freed(model, ms)
  /\ Dropped(r, handle', model')
  /\ UNCHANGED <<bound, latched, committed>>

\* A free on another thread is refused, and the wrapper lets go: leaked.
LeakModel(m) ==
  /\ model[m] = "live"
  /\ model' = [model EXCEPT ![m] = "leaked"]
  /\ UNCHANGED <<handle, bound, latched, committed, running, ranOut>>

\* External: the GPU finishes with a storage.
GpuDone(r, s) ==
  /\ s \in running[r]
  /\ running' = [running EXCEPT ![r] = @ \ {s}]
  /\ UNCHANGED <<handle, model, bound, latched, committed, ranOut>>

\* External: the feedback of a commit reports a fault from a callback, however
\* long after the call that made the commit returned.
GpuFault(r) ==
  /\ r \in committed \ latched /\ Alive(r)
  /\ latched' = latched \cup {r}
  /\ UNCHANGED <<handle, model, bound, committed, running, ranOut>>

=============================================================================
