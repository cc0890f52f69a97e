---------------------------- MODULE HazardBinder ----------------------------
(***************************************************************************)
(* Binder scopes on the shared command buffer (dispatch.rs, and            *)
(* encode_into_batch_m4 of runtime.rs): who puts a barrier between two     *)
(* dispatches.  A scope either follows every dispatch with a barrier, or,  *)
(* in hazard mode, leaves it to the next dispatch to put one first; what a *)
(* scope leaves pending crosses to the next through the open batch.        *)
(* A runtime belongs to one thread, so scopes come one after another.      *)
(***************************************************************************)
EXTENDS Integers, FiniteSets, Sequences

CONSTANTS
  Indices,        \* slots of the argument table
  Bufs,           \* owned buffers
  Imms,           \* constants, copied into the arena
  Raws,           \* resources bound without an owner
  MaxDispatches   \* bound: dispatches encoded live

None == "none"
Values == Bufs \cup Imms \cup Raws

ASSUME ValuesAssumption ==
  /\ None \notin Values
  /\ Bufs \cap Imms = {} /\ Bufs \cap Raws = {} /\ Imms \cap Raws = {}
  /\ MaxDispatches \in Nat

VARIABLES
  scope,     \* the binder of the open scope
  batch,     \* the open command buffer, and the hazard it carries
  table,     \* the runtime's argument table, which outlives every scope
  poisoned,
  bare,      \* history: nothing orders the last dispatch before the next one
  faults,    \* history: what went wrong on the GPU's side
  left       \* bound: dispatches still to encode

binderVars == <<scope, batch, table, poisoned, bare, faults, left>>

NoScope == [open |-> FALSE, skip |-> FALSE, pending |-> FALSE, bound |-> FALSE]
Closed == [open |-> FALSE, pending |-> FALSE]

BinderTypeOK ==
  /\ scope \in [open : BOOLEAN, skip : BOOLEAN,
                pending : BOOLEAN, bound : BOOLEAN]
  /\ batch \in [open : BOOLEAN, pending : BOOLEAN]
  /\ table \in [Indices -> Values \cup {None}]
  /\ poisoned \in BOOLEAN /\ bare \in BOOLEAN
  /\ faults \subseteq {"unordered", "binds", "step"}
  /\ left \in 0 .. MaxDispatches

BinderInit ==
  /\ scope = NoScope /\ batch = Closed
  /\ table = [i \in Indices |-> None]
  /\ poisoned = FALSE /\ bare = FALSE
  /\ faults = {} /\ left = MaxDispatches

-----------------------------------------------------------------------------

\* A scope takes what the last one left pending, or what a capture carried.  A
\* new encoder starts with a barrier against everything on the queue.
Enter(skip, carried) ==
  /\ ~scope.open /\ ~poisoned
  /\ scope' = [open |-> TRUE, skip |-> skip,
               pending |-> (batch.open /\ batch.pending) \/ carried, bound |-> FALSE]
  /\ batch' = [open |-> TRUE, pending |-> FALSE]
  /\ bare' = (bare /\ batch.open)
  /\ UNCHANGED <<table, poisoned, faults, left>>

\* set_pipeline and a bind of every argument, as the launchers do.
Launch(args) ==
  /\ scope.open /\ left > 0
  /\ scope' = [scope EXCEPT !.bound = TRUE]
  /\ table' = args
  /\ UNCHANGED <<batch, poisoned, bare, faults, left>>

\* Under the same pipeline, one argument is bound again.
Rebind(i, v) ==
  /\ scope.open /\ scope.bound /\ left > 0
  /\ table' = [table EXCEPT ![i] = v]
  /\ UNCHANGED <<scope, batch, poisoned, bare, faults, left>>

\* The dispatch overtakes the one before it if no barrier is emitted first.
Unordered == bare /\ ~scope.pending

\* Faulty variant of PendingAfter: a scope that ends on a dispatch forgets it.
NeverPending == FALSE
PendingAfter == scope.skip

EncodeDispatch(found) ==
  /\ scope' = [scope EXCEPT !.pending = PendingAfter]
  /\ bare' = scope.skip
  /\ faults' = faults \cup found
  /\ UNCHANGED <<batch, poisoned>>

Dispatch ==
  /\ scope.open /\ scope.bound /\ left > 0
  /\ EncodeDispatch(IF Unordered THEN {"unordered"} ELSE {})
  /\ left' = left - 1
  /\ UNCHANGED table

Barrier ==
  /\ scope.open
  /\ scope' = [scope EXCEPT !.pending = FALSE]
  /\ bare' = FALSE
  /\ UNCHANGED <<batch, table, poisoned, faults, left>>

\* A scope ends, and its command buffer with it if the encode is synchronous or
\* reaches a mid-commit.
Leave ==
  /\ scope.open
  /\ scope' = NoScope
  /\ \/ batch' = [batch EXCEPT !.pending = scope.pending]
     \/ batch' = Closed
  /\ UNCHANGED <<table, poisoned, bare, faults, left>>

\* A binder error or a failed commit: the batch is dropped, the runtime poisoned.
Fail ==
  /\ scope.open
  /\ scope' = NoScope /\ batch' = Closed
  /\ poisoned' = TRUE
  /\ UNCHANGED <<table, bare, faults, left>>

Synchronize ==
  /\ ~scope.open /\ batch.open
  /\ batch' = Closed
  /\ UNCHANGED <<scope, table, poisoned, bare, faults, left>>
=============================================================================
