--------------------------- MODULE BufferLifetime ---------------------------
(***************************************************************************)
(* What a runtime promises about the memory of its buffers, with no        *)
(* command buffers, values or queues: memory has an owner, GPU commands    *)
(* are encoded only against memory that has one, and memory whose owner    *)
(* let go is reused or destroyed only when no command uses it any more.    *)
(* GpuRuntime.tla is the code's way to keep this promise.                  *)
(***************************************************************************)
CONSTANT Buffers

VARIABLES
  owner,     \* "free", "owned", or "released" and not yet reclaimed
  users      \* buffers some encoded, unfinished GPU command uses

vars == <<owner, users>>

TypeOK ==
  /\ owner \in [Buffers -> {"free", "owned", "released"}]
  /\ users \in SUBSET Buffers

Init ==
  /\ owner = [b \in Buffers |-> "free"]
  /\ users = {}

\* Memory that may be given away: released, and out of the GPU's reach.
Reclaimable == {b \in Buffers : owner[b] = "released" /\ b \notin users}

Reclaimed(S) == [b \in Buffers |-> IF b \in S THEN "free" ELSE owner[b]]

\* An allocation may reclaim first.
Allocate(b) ==
  /\ \E S \in SUBSET Reclaimable :
       /\ Reclaimed(S)[b] = "free"
       /\ owner' = [Reclaimed(S) EXCEPT ![b] = "owned"]
  /\ UNCHANGED users

\* What no command uses may be destroyed with its last owner.
Release(b) ==
  /\ owner[b] = "owned"
  /\ \/ owner' = [owner EXCEPT ![b] = "released"]
     \/ b \notin users /\ owner' = [owner EXCEPT ![b] = "free"]
  /\ UNCHANGED users

Reclaim ==
  /\ \E S \in SUBSET Reclaimable : owner' = Reclaimed(S)
  /\ UNCHANGED users

Use(S) ==
  /\ \A b \in S : owner[b] = "owned"
  /\ users' = users \cup S
  /\ UNCHANGED owner

Finish ==
  /\ users' \in SUBSET users
  /\ UNCHANGED owner

Next ==
  \/ \E b \in Buffers : Allocate(b) \/ Release(b)
  \/ Reclaim
  \/ \E S \in SUBSET Buffers : Use(S)
  \/ Finish

Spec == Init /\ [][Next]_vars
=============================================================================
