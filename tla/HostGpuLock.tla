----------------------------- MODULE HostGpuLock -----------------------------
(***************************************************************************)
(* What a shared buffer promises its users, with no stamps, events or      *)
(* waits: a reader-writer lock between host threads and the GPU.  A host   *)
(* thread holds the bytes for reading or for writing; the GPU has          *)
(* outstanding commands that read or write them.  Nobody may write beside  *)
(* somebody else, on either side.  SharedBuffer.tla is the code's way to   *)
(* keep this promise.                                                      *)
(***************************************************************************)
CONSTANT Threads                 \* host threads that take leases

VARIABLES
  held,                          \* the lease each thread holds: "None", "Read", "Write"
  work                           \* roles of the GPU commands encoded and not finished

vars == <<held, work>>

Roles == {"Read", "Write"}

\* Two users of the bytes may overlap only when both read.
Compatible(a, b) == a = "Read" /\ b = "Read"

TypeOK ==
  /\ held \in [Threads -> Roles \cup {"None"}]
  /\ work \in SUBSET Roles

Init ==
  /\ held = [t \in Threads |-> "None"]
  /\ work = {}

\* A host thread is given the bytes.
Grant(t, m) ==
  /\ held[t] = "None"
  /\ \A u \in Threads : held[u] # "None" => Compatible(held[u], m)
  /\ \A r \in work : Compatible(r, m)
  /\ held' = [held EXCEPT ![t] = m]
  /\ UNCHANGED work

\* A host thread gives them back.
Return(t) ==
  /\ held[t] # "None"
  /\ held' = [held EXCEPT ![t] = "None"]
  /\ UNCHANGED work

\* A command that uses the bytes in role r goes onto the GPU's tape.
Encode(r) ==
  /\ \A u \in Threads : held[u] # "None" => Compatible(held[u], r)
  /\ work' = work \cup {r}
  /\ UNCHANGED held

\* Commands finish on the GPU, or are discarded before they were committed.
Retire ==
  /\ work' \in SUBSET work
  /\ UNCHANGED held

Next ==
  \/ \E t \in Threads, m \in Roles : Grant(t, m)
  \/ \E t \in Threads : Return(t)
  \/ \E r \in Roles : Encode(r)
  \/ Retire

Spec == Init /\ [][Next]_vars
=============================================================================
