----------------------------- MODULE EmbedModel -----------------------------
(***************************************************************************)
(* The Go Model (go/embedgemma2/model.go) and the engine behind it         *)
(* (go/engine): callers queue for the one worker thread of a gusset        *)
(* handle, the worker runs one job at a time against the model its thread  *)
(* hosts, and a caller whose context ends leaves without its job.          *)
(* The handle, external, is modelled by what the package relies on: one    *)
(* permit, a wait for it that the context ends, a job begun runs to its    *)
(* end, a Rust panic replaces the worker.                                  *)
(***************************************************************************)
EXTENDS Integers, FiniteSets

CONSTANTS
  Requests,   \* goroutines with a deadline
  Main,       \* the goroutine that opened the model; its context never ends
  Default,    \* the engine's limit after a load
  MaxLen      \* bound: tokens in a sequence

ASSUME CallersAssumption == Main \notin Requests /\ IsFiniteSet(Requests)
ASSUME LimitsAssumption == MaxLen \in Nat /\ Default \in 1 .. MaxLen

VARIABLES
  phase,    \* where each caller is in roundTrip
  asks,     \* the operation and the argument each caller sends
  reply,    \* what each caller got
  job,      \* what the worker runs, None if it is idle
  slot,     \* the worker's model; "lost" when the worker was replaced
  limit,    \* the engine's max_tokens
  cached,   \* Model.maxTokens
  closed,   \* Model.closed
  dead,     \* Model.dead
  handle    \* whether gusset's handle is open

modelVars == <<phase, asks, reply, job, slot, limit, cached, closed, dead, handle>>

Callers == Requests \cup {Main}
Ops == {"load", "limit", "tokenize", "embed", "free"}
Replies == {"none", "ok", "error", "panic", "poisoned", "nomodel", "closed",
            "unusable", "ended"}
NoCall == [op |-> "tokenize", arg |-> 0]
None == [by |-> Main, op |-> "none", arg |-> 0]

ModelTypeOK ==
  /\ phase \in [Callers -> {"out", "called", "running", "done", "back"}]
  /\ asks \in [Callers -> [op : Ops, arg : 0 .. MaxLen]]
  /\ reply \in [Callers -> Replies]
  /\ job \in {None} \cup [by : Callers, op : Ops, arg : 0 .. MaxLen]
  /\ slot \in {"none", "ok", "dead", "lost"}
  /\ limit \in 0 .. MaxLen /\ cached \in 0 .. MaxLen
  /\ closed \in BOOLEAN /\ dead \in BOOLEAN /\ handle \in {"open", "closed"}
  /\ \A c \in Callers : phase[c] = "running" => job # None /\ job.by = c

ModelInit ==
  /\ phase = [c \in Callers |-> "out"]
  /\ asks = [c \in Callers |-> NoCall]
  /\ reply = [c \in Callers |-> "none"]
  /\ job = None /\ slot = "none"
  /\ limit = 0 /\ cached = 0
  /\ closed = FALSE /\ dead = FALSE /\ handle = "open"

-----------------------------------------------------------------------------
(* A call, seen from Go.                                                   *)

Send(c, op, arg) ==
  /\ phase[c] = "out"
  /\ asks' = [asks EXCEPT ![c] = [op |-> op, arg |-> arg]]

\* roundTrip looks at no flag.
RoundTrip(c, op, arg) ==
  /\ Send(c, op, arg)
  /\ phase' = [phase EXCEPT ![c] = "called"]
  /\ UNCHANGED <<reply, job, slot, limit, cached, dead, handle>>

\* Model.call refuses a closed or a dead model.
Call(c, op, arg) ==
  /\ Send(c, op, arg)
  /\ phase' = [phase EXCEPT ![c] = IF closed \/ dead THEN "back" ELSE "called"]
  /\ reply' = [reply EXCEPT ![c] = IF closed THEN "closed"
                                   ELSE IF dead THEN "unusable" ELSE @]
  /\ UNCHANGED <<job, slot, limit, cached, closed, dead, handle>>

\* Faulty variant of Leave: a caller whose job has begun waits for it.
LeaveQueue(c) ==
  /\ c \in Requests /\ phase[c] = "called"
  /\ phase' = [phase EXCEPT ![c] = "back"]
  /\ reply' = [reply EXCEPT ![c] = "ended"]
  /\ UNCHANGED <<asks, job, slot, limit, cached, closed, dead, handle>>

\* A caller's context ends while it waits for the worker, or for its job.
Leave(c) ==
  /\ c \in Requests /\ phase[c] \in {"called", "running", "done"}
  /\ phase' = [phase EXCEPT ![c] = "back"]
  /\ reply' = [reply EXCEPT ![c] = "ended"]
  /\ UNCHANGED <<asks, job, slot, limit, cached, closed, dead, handle>>

HandleClosed(c) ==
  /\ phase[c] = "called" /\ handle = "closed"
  /\ phase' = [phase EXCEPT ![c] = "back"]
  /\ reply' = [reply EXCEPT ![c] = "closed"]
  /\ UNCHANGED <<asks, job, slot, limit, cached, closed, dead, handle>>

\* The permit is the worker's: it comes back when the job ends.
Take(c) ==
  /\ phase[c] = "called" /\ handle = "open" /\ job = None
  /\ phase' = [phase EXCEPT ![c] = "running"]
  /\ job' = [by |-> c, op |-> asks[c].op, arg |-> asks[c].arg]
  /\ UNCHANGED <<asks, reply, slot, limit, cached, closed, dead, handle>>

\* A reply is parsed: some of them say that the model is gone for good.
MarksDead(r) == r \in {"panic", "poisoned", "nomodel"}

Receive(c) ==
  /\ phase[c] = "done"
  /\ phase' = [phase EXCEPT ![c] = "back"]
  /\ dead' = (dead \/ MarksDead(reply[c]))
  /\ UNCHANGED <<asks, reply, job, slot, limit, cached, closed, handle>>

-----------------------------------------------------------------------------
(* The job, on the worker's thread.  An effect is a reply, the model left  *)
(* in the thread's slot, and the engine's limit.                           *)

Effect(r, s, n) == [reply |-> r, slot |-> s, limit |-> n]
Unchanged(r) == Effect(r, slot, limit)

Load == IF slot \in {"ok", "dead"} THEN {Unchanged("nomodel")}
        ELSE {Effect("ok", "ok", Default), Unchanged("error")}

\* The slot is taken before the release, which may fail.
Free == IF slot \in {"ok", "dead"} THEN {Effect("ok", "none", limit), Effect("error", "none", limit)}
        ELSE {Unchanged("nomodel")}

\* Faulty variant of ModelFails: a poisoned runtime keeps its model.
ModelFailsAlive == {Unchanged("error"), Effect("panic", "dead", limit), Unchanged("poisoned")}

\* A failure is looked at: a panic and a poisoned runtime end the model.
ModelFails == {Unchanged("error"), Effect("panic", "dead", limit), Effect("poisoned", "dead", limit)}

ModelOp == IF slot # "ok" THEN {Unchanged("nomodel")}
           ELSE ModelFails
                \cup {e \in {Effect("ok", "ok", IF job.op = "limit" THEN job.arg ELSE limit)} :
                         job.op = "embed" => job.arg <= limit}

\* A job whose context ended in the queue is refused before it does anything;
\* a panic that reaches gusset replaces the worker, and its model with it.
Effects ==
  (CASE job.op = "load" -> Load [] job.op = "free" -> Free [] OTHER -> ModelOp)
  \cup {e \in {Unchanged("ended")} : job.by \in Requests}
  \cup {Effect("panic", IF slot = "none" THEN "none" ELSE "lost", limit)}

Execute ==
  /\ job # None
  /\ job' = None
  /\ \E e \in Effects :
       /\ slot' = e.slot /\ limit' = e.limit
       /\ IF phase[job.by] = "running"
          THEN /\ phase' = [phase EXCEPT ![job.by] = "done"]
               /\ reply' = [reply EXCEPT ![job.by] = e.reply]
          ELSE UNCHANGED <<phase, reply>>
  /\ UNCHANGED <<asks, cached, closed, dead, handle>>

WorkerStep == Execute \/ \E c \in Callers : Take(c)
CallerStep(c) == Leave(c) \/ HandleClosed(c) \/ Receive(c)
=============================================================================
