--------------------------- MODULE EmbedServer_proof ----------------------------
(***************************************************************************)
(* The server's slots and its idea of the model are right, for any number  *)
(* of requests, any limits and any lengths of their inputs.                *)
(*                                                                         *)
(* The model is touched by one job at a time, but a job may belong to a    *)
(* caller long gone.  So the invariant follows the jobs, not the callers:  *)
(* who sent the one that runs, what main waits for (AsksInv), and what     *)
(* main's place says of the model (ModelInv).                              *)
(***************************************************************************)
EXTENDS EmbedServer, FiniteSetTheorems, TLAPS

Starting == {"load", "limit", "warm"}

\* Requests come after the start, and have a call out only in their two stages.
PlacesInv ==
  /\ at[Main] \in Starting => \A r \in Requests : at[r] = "idle"
  /\ \A r \in Requests : phase[r] # "out" => at[r] \in {"tokenize", "encode"}
  /\ phase[Main] # "out" => at[Main] \in Starting \cup {"freeing"}
  /\ \A c \in Callers : phase[c] \in {"out", "called", "running"}
       => reply[c] = "none" \/ (c = Main /\ at[Main] \in {"drain", "exited"})
  /\ at[Main] = "freeing" => closed
  /\ handle = "closed" => closed /\ at[Main] \in {"drain", "exited"}

RequestAsks(op, arg) == op = "tokenize" \/ (op = "embed" /\ arg <= cached)

MainAsks(op, arg) ==
  \/ op = "load" /\ at[Main] = "load"
  \/ op = "limit" /\ arg = MaxTokens /\ at[Main] = "limit"
  \/ op = "embed" /\ arg = 1 /\ at[Main] = "warm"
  \/ op = "free" /\ at[Main] = "freeing"

\* What may be asked of the worker, and by whom.
AsksInv ==
  /\ \A r \in Requests : /\ phase[r] = "called" => RequestAsks(asks[r].op, asks[r].arg)
                         /\ at[r] = "encode" => len[r] <= cached
  /\ phase[Main] = "called" => MainAsks(asks[Main].op, asks[Main].arg)
  /\ job # None =>
       IF job.by = Main THEN phase[Main] = "running" /\ MainAsks(job.op, job.arg)
       ELSE at[job.by] # "idle" /\ RequestAsks(job.op, job.arg)

\* What the flags and the replies say of the worker's model.
FlagsInv ==
  /\ dead => slot # "ok"
  /\ down => slot # "ok" \/ closed
  /\ \A c \in Callers : /\ MarksDead(reply[c]) => slot # "ok"
                        /\ reply[c] = "closed" => closed
                        /\ reply[c] = "unusable" => dead
  /\ slot = "ok" => limit >= 1

\* What main's place says of it while it starts, and the limit it cached since.
StartInv ==
  /\ at[Main] = "load" =>
       /\ ~down
       /\ phase[Main] \in {"out", "called", "running"} => ~dead /\ slot = "none"
       /\ phase[Main] \in {"done", "back"} =>
            IF reply[Main] = "ok" THEN slot = "ok" /\ limit = Default ELSE slot = "none"
  /\ at[Main] = "limit" /\ reply[Main] = "ok" /\ slot = "ok" => limit = MaxTokens
  /\ (at[Main] \in {"warm", "serve"} \/ \E r \in Requests : at[r] # "idle") /\ slot = "ok"
       => cached <= limit

\* And while it ends.
EndInv ==
  /\ at[Main] = "freeing" /\ phase[Main] \in {"done", "back"} => slot \in {"none", "lost"}
  /\ at[Main] \in {"drain", "exited"} => slot \in {"none", "lost"}

ModelInv == FlagsInv /\ StartInv /\ EndInv

IInv == TypeOK /\ SlotsBalanced /\ PlacesInv /\ AsksInv /\ ModelInv

-----------------------------------------------------------------------------
(* Counting requests.                                                      *)

In(K) == {r \in Requests : at[r] \in K}

LEMMA InIsFinite ==
  ASSUME NEW K
  PROVE  IsFiniteSet(In(K)) /\ Cardinality(In(K)) \in Nat
         /\ Cardinality(In(K)) <= Cardinality(Requests)
<1> QED BY FS_Subset, FS_CardinalityType, CallersAssumption DEF In

\* A request that goes from one place to another leaves and joins what it must.
LEMMA MoveCounts ==
  ASSUME TypeOK, NEW r \in Requests, NEW to, Go(r, to), NEW K
  PROVE  Cardinality(In(K)') =
           IF at[r] \in K THEN (IF to \in K THEN Cardinality(In(K)) ELSE Cardinality(In(K)) - 1)
           ELSE (IF to \in K THEN Cardinality(In(K)) + 1 ELSE Cardinality(In(K)))
<1>1. \A q \in Requests : at'[q] = IF q = r THEN to ELSE at[q]
  BY DEF Go, Callers, TypeOK
<1>2. IsFiniteSet(In(K)) /\ Cardinality(In(K)) \in Nat
  BY InIsFinite
<1>3. CASE at[r] \in K <=> to \in K
  <2>1. In(K)' = In(K)
    BY <1>1, <1>3 DEF In
  <2> QED BY <1>3, <2>1
<1>4. CASE at[r] \in K /\ to \notin K
  <2>1. In(K)' = In(K) \ {r} /\ r \in In(K)
    BY <1>1, <1>4 DEF In
  <2> QED BY <1>2, <1>4, <2>1, FS_RemoveElement
<1>5. CASE at[r] \notin K /\ to \in K
  <2>1. In(K)' = In(K) \cup {r} /\ r \notin In(K)
    BY <1>1, <1>5 DEF In
  <2> QED BY <1>2, <1>5, <2>1, FS_AddElement
<1> QED BY <1>3, <1>4, <1>5

LEMMA Balance ==
  SlotsBalanced <=> /\ work = Cardinality(In(Holding)) /\ waiting = Cardinality(In(Counted))
                    /\ Cardinality(In({"wait"})) <= MaxQueue
<1>1. {r \in Requests : at[r] = "wait"} = In({"wait"})
  BY DEF In
<1> QED BY <1>1 DEF SlotsBalanced, In

\* Main is no request, and a step that moves none keeps the counts.
LEMMA BalanceFrame ==
  ASSUME SlotsBalanced, UNCHANGED <<work, waiting>>, \A r \in Requests : at'[r] = at[r]
  PROVE  SlotsBalanced'
<1>1. /\ {r \in Requests : at[r] \in Holding}' = {r \in Requests : at[r] \in Holding}
      /\ {r \in Requests : at[r] \in Counted}' = {r \in Requests : at[r] \in Counted}
      /\ {r \in Requests : at[r] = "wait"}' = {r \in Requests : at[r] = "wait"}
  OBVIOUS
<1> QED BY <1>1 DEF SlotsBalanced

LEMMA BalanceStep == ASSUME TypeOK, SlotsBalanced, [Next]_vars PROVE SlotsBalanced'
<1> USE DEF Counted, Holding
<1>b. /\ work = Cardinality(In(Holding)) /\ waiting = Cardinality(In(Counted))
      /\ Cardinality(In({"wait"})) <= MaxQueue
      /\ Cardinality(In(Holding)) \in Nat /\ Cardinality(In(Counted)) \in Nat
      /\ Cardinality(In({"wait"})) \in Nat /\ MaxQueue \in Nat
  BY Balance, InIsFinite, ServerAssumption
<1>w. /\ Cardinality(In({"wait"})') <= Cardinality(In(Counted)')
      /\ Cardinality(In({"wait"})') \in Nat
  <2>1. In({"wait"})' \subseteq In(Counted)' /\ In(Counted)' \subseteq Requests
    BY DEF In
  <2>2. IsFiniteSet(In(Counted)')
    BY <2>1, FS_Subset, CallersAssumption
  <2> QED BY <2>1, <2>2, FS_Subset, FS_CardinalityType
<1>p. ASSUME work' = Cardinality(In(Holding)'), waiting' = Cardinality(In(Counted)'),
             Cardinality(In({"wait"})') <= MaxQueue
      PROVE  SlotsBalanced'
  <2>1. {r \in Requests : at[r] = "wait"}' = In({"wait"})'
    BY DEF In
  <2> QED BY <1>p, <2>1 DEF SlotsBalanced, In
<1>1. ASSUME NEW r \in Requests, Arrive(r) PROVE SlotsBalanced'
  <2>1. PICK to \in {"answered", "admit"} : Go(r, to) /\ at[r] = "idle" /\ UNCHANGED <<work, waiting>>
    BY <1>1 DEF Arrive, Answer
  <2> QED BY <2>1, <1>b, <1>p, MoveCounts
<1>2. ASSUME NEW r \in Requests, TryWork(r) PROVE SlotsBalanced'
  <2>1. CASE work < MaxConcurrent
    BY <1>2, <2>1, <1>b, <1>p, MoveCounts DEF TryWork
  <2>2. CASE ~(work < MaxConcurrent)
    BY <1>2, <2>2, <1>b, <1>p, MoveCounts DEF TryWork
  <2> QED BY <2>1, <2>2
<1>3. ASSUME NEW r \in Requests, CountWaiter(r) PROVE SlotsBalanced'
  <2>1. PICK to \in {"refuse", "wait"} : to = IF waiting' > MaxQueue THEN "refuse" ELSE "wait"
    OBVIOUS
  <2>2. Go(r, to) /\ at[r] = "count" /\ waiting' = waiting + 1 /\ work' = work
    BY <1>3, <2>1 DEF CountWaiter, Go
  <2>3. work' = Cardinality(In(Holding)') /\ waiting' = Cardinality(In(Counted)')
    BY <2>2, <1>b, MoveCounts
  <2>4. Cardinality(In({"wait"})') <= MaxQueue
    <3>1. CASE to = "wait"
      <4>1. waiting' <= MaxQueue /\ waiting' \in Nat
        BY <2>1, <2>2, <3>1, <1>b
      <4> QED BY <2>3, <4>1, <1>b, <1>w
    <3>2. CASE to = "refuse"
      BY <2>2, <3>2, <1>b, MoveCounts
    <3> QED BY <3>1, <3>2
  <2> QED BY <2>3, <2>4, <1>p
<1>4. ASSUME NEW r \in Requests, GetWork(r) \/ GiveUp(r) PROVE SlotsBalanced'
  <2>1. CASE GetWork(r)
    BY <2>1, <1>b, <1>p, MoveCounts DEF GetWork
  <2>2. CASE GiveUp(r)
    BY <2>2, <1>b, <1>p, MoveCounts DEF GiveUp
  <2> QED BY <1>4, <2>1, <2>2
<1>5. ASSUME NEW r \in Requests, Uncount(r) PROVE SlotsBalanced'
  <2>1. CASE at[r] = "got"
    BY <1>5, <2>1, <1>b, <1>p, MoveCounts DEF Uncount
  <2>2. CASE at[r] # "got"
    BY <1>5, <2>2, <1>b, <1>p, MoveCounts DEF Uncount, Answer
  <2> QED BY <2>1, <2>2
<1>6. ASSUME NEW r \in Requests, Tokenized(r) PROVE SlotsBalanced'
  <2>1. \/ Go(r, "answered") /\ work' = work - 1
        \/ Go(r, "encode") /\ work' = work
    BY <1>6 DEF Tokenized, Answer
  <2>2. at[r] = "tokenize" /\ waiting' = waiting
    BY <1>6 DEF Tokenized
  <2> QED BY <2>1, <2>2, <1>b, <1>p, MoveCounts
<1>7. ASSUME NEW r \in Requests, Answered(r) \/ Failed(r) PROVE SlotsBalanced'
  <2>1. Go(r, "answered") /\ work' = work - 1 /\ at[r] \in {"tokenize", "encode"} /\ waiting' = waiting
    BY <1>7 DEF Answered, Failed, Answer
  <2> QED BY <2>1, <1>b, <1>p, MoveCounts
<1>8. ASSUME NEW r \in Requests, CallModel(r) PROVE SlotsBalanced'
  BY <1>8, BalanceFrame DEF CallModel, serverVars
<1>9. CASE MainStep \/ Stop \/ ServeFails
  <2>1. \A r \in Requests : r # Main
    BY CallersAssumption
  <2> QED BY <1>9, <2>1, BalanceFrame DEF MainStep, StartCall, Started, ShutdownEnds, Close, Freed,
          Exit, Stop, ServeFails, serverVars, modelVars, Go, TypeOK, Callers
<1>10. CASE UNCHANGED serverVars
  BY <1>10, BalanceFrame DEF serverVars
<1>11. CASE UNCHANGED vars
  BY <1>11, BalanceFrame DEF vars
<1> QED BY <1>1, <1>2, <1>3, <1>4, <1>5, <1>6, <1>7, <1>8, <1>9, <1>10, <1>11
        DEF Next, Handler, InModel

-----------------------------------------------------------------------------
(* Types.                                                                  *)

LEMMA TypeStep == ASSUME TypeOK, SlotsBalanced', [Next]_vars PROVE TypeOK'
<1> USE CallersAssumption, LimitsAssumption, ServerAssumption
    DEF TypeOK, ModelTypeOK, Callers, Ops, Replies, MainAt, Counted, Holding
<1>n. NoCall \in [op : Ops, arg : 0 .. MaxLen] /\ Main \in Callers
  BY DEF NoCall
<1>w. waiting' \in 0 .. Cardinality(Requests)
  <2>1. {r \in Requests : at[r] \in Counted}' \in SUBSET Requests
    OBVIOUS
  <2>2. waiting' <= Cardinality(Requests) /\ waiting' \in Nat
    BY <2>1, FS_Subset, FS_CardinalityType DEF SlotsBalanced
  <2>3. Cardinality(Requests) \in Nat
    BY FS_CardinalityType
  <2> QED BY <2>2, <2>3
<1>k. work' \in Nat
  <2>1. {r \in Requests : at[r] \in Holding}' \in SUBSET Requests
    OBVIOUS
  <2> QED BY <2>1, FS_Subset, FS_CardinalityType DEF SlotsBalanced
<1>1. ASSUME NEW r \in Requests, Arrive(r) \/ TryWork(r) \/ CountWaiter(r) \/ GetWork(r)
             \/ GiveUp(r) \/ Uncount(r)
      PROVE  TypeOK'
  <2>1. UNCHANGED <<modelVars, down, fatal, told>> /\ work' <= MaxConcurrent
    BY <1>1 DEF Arrive, TryWork, CountWaiter, GetWork, GiveUp, Uncount
  <2>2. \E to \in Counted \cup Holding \cup {"admit", "count", "answered"} : Go(r, to)
    BY <1>1 DEF Arrive, TryWork, CountWaiter, GetWork, GiveUp, Uncount, Answer
  <2>3. len' = len \/ len' = [len EXCEPT ![r] = 0]
    BY <1>1 DEF Arrive, TryWork, CountWaiter, GetWork, GiveUp, Uncount, Answer
  <2>4. ModelTypeOK'
    BY <2>1 DEF modelVars
  <2> QED BY <2>1, <2>2, <2>3, <2>4, <1>w, <1>k DEF Go
<1>c. ASSUME NEW c \in Callers, NEW op \in Ops, NEW arg \in 0 .. MaxLen,
             RoundTrip(c, op, arg) \/ Call(c, op, arg), UNCHANGED cached, closed' \in BOOLEAN
      PROVE  ModelTypeOK'
  <2>1. asks' = [asks EXCEPT ![c] = [op |-> op, arg |-> arg]] /\ phase[c] = "out"
    BY <1>c DEF RoundTrip, Call, Send
  <2>2. \E to \in {"back", "called"} : phase' = [phase EXCEPT ![c] = to]
    BY <1>c DEF RoundTrip, Call
  <2>3. \E to \in {"closed", "unusable", reply[c]} : reply' = [reply EXCEPT ![c] = to]
    BY <1>c DEF RoundTrip, Call
  <2>4. UNCHANGED <<job, slot, limit, dead, handle>>
    BY <1>c DEF RoundTrip, Call
  <2>5. phase' \in [Callers -> {"out", "called", "running", "done", "back"}]
    BY <2>2
  <2>6. \A x \in Callers : phase'[x] = "running" => job' # None /\ job'.by = x
    BY <2>2, <2>4
  <2>7. asks' \in [Callers -> [op : Ops, arg : 0 .. MaxLen]]
    BY <2>1
  <2>8. reply' \in [Callers -> Replies]
    BY <2>3
  <2> QED BY <1>c, <2>4, <2>5, <2>6, <2>7, <2>8
<1>b. ASSUME NEW c \in Callers, Back(c), cached' \in 0 .. MaxLen PROVE ModelTypeOK'
  <2>1. /\ phase' = [phase EXCEPT ![c] = "out"]
        /\ asks' = [asks EXCEPT ![c] = NoCall]
        /\ reply' = [reply EXCEPT ![c] = "none"]
        /\ UNCHANGED <<job, slot, limit, closed, dead, handle>>
    BY <1>b DEF Back
  <2>2. \A x \in Callers : phase'[x] = "running" => job' # None /\ job'.by = x
    BY <2>1
  <2>3. asks' \in [Callers -> [op : Ops, arg : 0 .. MaxLen]]
    BY <2>1, <1>n
  <2> QED BY <1>b, <2>1, <2>2, <2>3
<1>2. ASSUME NEW r \in Requests, CallModel(r) PROVE TypeOK'
  <2>1. len[r] \in 0 .. MaxLen
    OBVIOUS
  <2>2. PICK op \in {"embed", "tokenize"} : Call(r, op, len[r])
    BY <1>2 DEF CallModel
  <2>3. PICK arg \in 0 .. MaxLen : Call(r, op, arg)
    BY <2>1, <2>2 DEF Call, Send
  <2>4. cached' = cached /\ closed' = closed /\ UNCHANGED serverVars
    BY <1>2, <2>3 DEF CallModel, Call
  <2>5. ModelTypeOK'
    BY <2>3, <2>4, <1>c
  <2> QED BY <2>4, <2>5 DEF serverVars
<1>3. ASSUME NEW r \in Requests, Tokenized(r) \/ Answered(r) \/ Failed(r) PROVE TypeOK'
  <2>1. Back(r) /\ cached' = cached
    BY <1>3 DEF Tokenized, Answered, Failed
  <2>2. ModelTypeOK'
    BY <2>1, <1>b
  <2>3. \E to \in {"answered", "encode"} : Go(r, to)
    BY <1>3 DEF Tokenized, Answered, Failed, Answer
  <2>4. \E n \in 0 .. MaxLen : len' = [len EXCEPT ![r] = n]
    BY <1>3 DEF Tokenized, Answered, Failed, Answer, Fitted
  <2>5. work' <= MaxConcurrent /\ UNCHANGED waiting
    BY <1>3 DEF Tokenized, Answered, Failed, Answer
  <2>6. down' \in BOOLEAN /\ told' \in BOOLEAN /\ fatal' \in 0 .. 1
    <3>1. CASE Failed(r)
      <4>1. fatal' = fatal \/ (fatal < 1 /\ fatal' = fatal + 1)
        BY <3>1 DEF Failed
      <4>2. down' = TRUE /\ told' = TRUE
        BY <3>1 DEF Failed
      <4> QED BY <4>1, <4>2
    <3>2. CASE Tokenized(r) \/ Answered(r)
      BY <3>2 DEF Tokenized, Answered
    <3> QED BY <1>3, <3>1, <3>2
  <2> QED BY <2>2, <2>3, <2>4, <2>5, <2>6, <1>w, <1>k DEF Go
<1>4. CASE MainStep \/ Stop \/ ServeFails
  <2>1. /\ \E to \in MainAt : at' = [at EXCEPT ![Main] = to] \/ at' = at
        /\ fatal' \in 0 .. 1 /\ UNCHANGED <<len, work, waiting, down, told>>
    BY <1>4 DEF MainStep, Stop, ServeFails, StartCall, Started, ShutdownEnds, Close, Freed, Exit,
       Go, serverVars
  <2>2. ModelTypeOK'
    <3>1. CASE StartCall
      <4>1. RoundTrip(Main, "load", 0) \/ Call(Main, "limit", MaxTokens) \/ Call(Main, "embed", 1)
        BY <3>1 DEF StartCall
      <4>2. closed' = closed
        BY <3>1 DEF StartCall
      <4>3. cached' = cached
        BY <4>1 DEF RoundTrip, Call
      <4> QED BY <4>1, <4>2, <4>3, <1>n, <1>c
    <3>2. CASE Started
      BY <3>2, <1>n, <1>b DEF Started, Cached
    <3>3. CASE Close
      <4>1. cached' = cached /\ closed' \in BOOLEAN /\ RoundTrip(Main, "free", 0)
        BY <3>3 DEF Close, RoundTrip
      <4> QED BY <4>1, <1>n, <1>c
    <3>4. CASE Freed
      BY <3>4 DEF Freed
    <3>5. CASE UNCHANGED modelVars
      BY <3>5 DEF modelVars
    <3> QED BY <1>4, <3>1, <3>2, <3>3, <3>4, <3>5 DEF MainStep, Stop, ServeFails, ShutdownEnds, Exit
  <2> QED BY <2>1, <2>2, <1>n
<1>5. ASSUME NEW c \in Callers, CallerStep(c), UNCHANGED serverVars PROVE TypeOK'
  <2>1. \E to \in {"back"} : phase' = [phase EXCEPT ![c] = to]
    BY <1>5 DEF CallerStep, Leave, HandleClosed, Receive
  <2>2. \E to \in {"ended", "closed", reply[c]} : reply' = [reply EXCEPT ![c] = to]
    BY <1>5 DEF CallerStep, Leave, HandleClosed, Receive
  <2>3. UNCHANGED <<asks, job, slot, limit, cached, closed, handle>>
    BY <1>5 DEF CallerStep, Leave, HandleClosed, Receive
  <2>4. dead' \in BOOLEAN
    BY <1>5 DEF CallerStep, Leave, HandleClosed, Receive, MarksDead
  <2>5. \A x \in Callers : phase'[x] = "running" => job' # None /\ job'.by = x
    BY <2>1, <2>3
  <2>6. phase' \in [Callers -> {"out", "called", "running", "done", "back"}]
    BY <2>1
  <2>7. reply' \in [Callers -> Replies]
    BY <2>2
  <2> QED BY <1>5, <2>3, <2>4, <2>5, <2>6, <2>7 DEF serverVars
<1>6. ASSUME NEW c \in Callers, Take(c), UNCHANGED serverVars PROVE TypeOK'
  <2>1. /\ phase' = [phase EXCEPT ![c] = "running"] /\ job = None
        /\ job' = [by |-> c, op |-> asks[c].op, arg |-> asks[c].arg]
        /\ UNCHANGED <<asks, reply, slot, limit, cached, closed, dead, handle>>
    BY <1>6 DEF Take
  <2>2. job' \in [by : Callers, op : Ops, arg : 0 .. MaxLen] /\ job' # None
    BY <2>1 DEF None
  <2>3. \A x \in Callers : phase'[x] = "running" => job'.by = x
    BY <2>1
  <2> QED BY <1>6, <2>1, <2>2, <2>3 DEF serverVars
<1>7. ASSUME Execute, UNCHANGED serverVars PROVE TypeOK'
  <2>1. PICK e \in Effects : /\ slot' = e.slot /\ limit' = e.limit /\ job' = None /\ job # None
                             /\ UNCHANGED <<asks, cached, closed, dead, handle>>
                             /\ \/ /\ phase[job.by] = "running"
                                   /\ phase' = [phase EXCEPT ![job.by] = "done"]
                                   /\ reply' = [reply EXCEPT ![job.by] = e.reply]
                                \/ phase[job.by] # "running" /\ UNCHANGED <<phase, reply>>
    BY <1>7 DEF Execute
  <2>2. e.slot \in {"none", "ok", "dead", "lost"} /\ e.limit \in 0 .. MaxLen /\ e.reply \in Replies
    BY <2>1 DEF Effects, Effect, Unchanged, Load, Free, ModelOp, ModelFails
  <2>3. \A x \in Callers : phase'[x] # "running"
    BY <2>1
  <2> QED BY <1>7, <2>1, <2>2, <2>3 DEF serverVars
<1>8. CASE UNCHANGED vars
  BY <1>8 DEF vars
<1> QED BY <1>1, <1>2, <1>3, <1>4, <1>5, <1>6, <1>7, <1>8 DEF Next, Handler, InModel

-----------------------------------------------------------------------------
(* Where main and the requests are.                                        *)

LEMMA PlacesStep == ASSUME TypeOK, PlacesInv, [Next]_vars PROVE PlacesInv'
<1> USE CallersAssumption DEF TypeOK, ModelTypeOK, PlacesInv, Callers, Starting
<1>1. ASSUME NEW r \in Requests, Arrive(r) \/ TryWork(r) \/ CountWaiter(r) \/ GetWork(r)
             \/ GiveUp(r) \/ Uncount(r)
      PROVE  PlacesInv'
  <2>1. UNCHANGED modelVars /\ phase[r] = "out" /\ at[Main] \notin Starting
    BY <1>1 DEF Arrive, TryWork, CountWaiter, GetWork, GiveUp, Uncount, MainAt
  <2>2. \A c \in Callers : c # r => at'[c] = at[c]
    BY <1>1 DEF Arrive, TryWork, CountWaiter, GetWork, GiveUp, Uncount, Answer, Go
  <2> QED BY <2>1, <2>2 DEF modelVars
<1>2. ASSUME NEW r \in Requests, CallModel(r) PROVE PlacesInv'
  <2>1. /\ at[r] \in {"tokenize", "encode"} /\ UNCHANGED <<closed, handle, at>>
        /\ \E to \in {"back", "called"} :
             /\ phase' = [phase EXCEPT ![r] = to]
             /\ to = "called" => reply' = [reply EXCEPT ![r] = reply[r]]
        /\ \A c \in Callers : c # r => reply'[c] = reply[c]
        /\ phase[r] = "out"
    BY <1>2 DEF CallModel, Call, Send, serverVars
  <2> QED BY <2>1
<1>3. ASSUME NEW r \in Requests, Tokenized(r) \/ Answered(r) \/ Failed(r) PROVE PlacesInv'
  <2>1. /\ phase' = [phase EXCEPT ![r] = "out"] /\ reply' = [reply EXCEPT ![r] = "none"]
        /\ UNCHANGED <<closed, handle>> /\ at[r] \in {"tokenize", "encode"}
    BY <1>3 DEF Tokenized, Answered, Failed, Back
  <2>2. \A c \in Callers : c # r => at'[c] = at[c]
    BY <1>3 DEF Tokenized, Answered, Failed, Answer, Go
  <2>3. at[Main] \notin Starting
    BY <2>1
  <2> QED BY <2>1, <2>2, <2>3
<1>4. CASE StartCall
  <2>1. /\ at[Main] \in Starting /\ UNCHANGED <<closed, handle, at>> /\ phase[Main] = "out"
        /\ \E to \in {"back", "called"} :
             /\ phase' = [phase EXCEPT ![Main] = to]
             /\ to = "called" => reply' = [reply EXCEPT ![Main] = reply[Main]]
        /\ \A c \in Callers : c # Main => reply'[c] = reply[c]
    <3>1. RoundTrip(Main, "load", 0) \/ Call(Main, "limit", MaxTokens) \/ Call(Main, "embed", 1)
      BY <1>4 DEF StartCall
    <3>2. at[Main] \in Starting /\ UNCHANGED <<closed, at>>
      BY <1>4 DEF StartCall, serverVars
    <3> QED BY <3>1, <3>2 DEF RoundTrip, Call, Send
  <2> QED BY <2>1
<1>5. CASE Started
  <2>1. /\ phase' = [phase EXCEPT ![Main] = "out"] /\ reply' = [reply EXCEPT ![Main] = "none"]
        /\ UNCHANGED <<closed, handle>> /\ at[Main] \in Starting
        /\ at'[Main] # "freeing" /\ \A r \in Requests : at'[r] = at[r]
    BY <1>5 DEF Started, Back, Go
  <2>2. handle # "closed"
    BY <2>1
  <2> QED BY <2>1, <2>2
<1>6. CASE Close
  <2>1. /\ phase' = [phase EXCEPT ![Main] = "called"] /\ UNCHANGED <<reply, handle>>
        /\ at[Main] = "close" /\ at' = [at EXCEPT ![Main] = "freeing"]
        /\ phase[Main] = "out" /\ closed' = TRUE
    BY <1>6 DEF Close, RoundTrip, Send, Go
  <2> QED BY <2>1
<1>7. CASE Freed
  <2>1. /\ phase' = [phase EXCEPT ![Main] = "out"] /\ UNCHANGED <<reply, closed>>
        /\ at[Main] = "freeing" /\ at' = [at EXCEPT ![Main] = "drain"]
        /\ handle' = "closed"
    BY <1>7 DEF Freed, Go
  <2> QED BY <2>1
<1>8. CASE ShutdownEnds \/ Exit \/ Stop \/ ServeFails
  <2>1. UNCHANGED modelVars
    BY <1>8 DEF ShutdownEnds, Exit, Stop, ServeFails
  <2>2. /\ \A r \in Requests : at'[r] = at[r] /\ r # Main
        /\ \/ at[Main] \in {"serve", "shutdown"} /\ at'[Main] \in {"shutdown", "close"}
           \/ at[Main] = "drain" /\ at'[Main] = "exited"
    BY <1>8 DEF ShutdownEnds, Exit, Stop, ServeFails, Go
  <2> QED BY <2>1, <2>2 DEF modelVars
<1>9. ASSUME NEW c \in Callers, CallerStep(c), UNCHANGED serverVars PROVE PlacesInv'
  <2>1. /\ phase' = [phase EXCEPT ![c] = "back"] /\ UNCHANGED <<closed, handle, at>>
        /\ phase[c] # "out" /\ \A x \in Callers : x # c => reply'[x] = reply[x]
    BY <1>9 DEF CallerStep, Leave, HandleClosed, Receive, serverVars
  <2> QED BY <2>1
<1>10. ASSUME NEW c \in Callers, Take(c), UNCHANGED serverVars PROVE PlacesInv'
  BY <1>10 DEF Take, serverVars
<1>11. ASSUME Execute, UNCHANGED serverVars PROVE PlacesInv'
  <2>1. /\ UNCHANGED <<closed, handle, at>>
        /\ \/ phase[job.by] = "running" /\ phase' = [phase EXCEPT ![job.by] = "done"]
              /\ \A x \in Callers : x # job.by => reply'[x] = reply[x]
           \/ UNCHANGED <<phase, reply>>
    BY <1>11 DEF Execute, serverVars
  <2>2. job.by \in Callers
    BY <1>11 DEF Execute
  <2> QED BY <2>1, <2>2
<1>12. CASE UNCHANGED vars
  BY <1>12 DEF vars
<1> QED BY <1>1, <1>2, <1>3, <1>4, <1>5, <1>6, <1>7, <1>8, <1>9, <1>10, <1>11, <1>12
        DEF Next, Handler, MainStep, InModel

-----------------------------------------------------------------------------
(* Who may ask what.                                                       *)

LEMMA AsksStep == ASSUME TypeOK, PlacesInv, AsksInv, [Next]_vars PROVE AsksInv'
<1> USE CallersAssumption
    DEF TypeOK, ModelTypeOK, PlacesInv, AsksInv, RequestAsks, MainAsks, Callers, Starting
<1>1. ASSUME NEW r \in Requests, Arrive(r) \/ TryWork(r) \/ CountWaiter(r) \/ GetWork(r)
             \/ GiveUp(r) \/ Uncount(r)
      PROVE  AsksInv'
  <2>1. /\ UNCHANGED modelVars
        /\ \A c \in Callers : c # r => at'[c] = at[c]
        /\ at'[r] \notin {"idle", "encode"}
        /\ \A q \in Requests : q # r => len'[q] = len[q]
    BY <1>1 DEF Arrive, TryWork, CountWaiter, GetWork, GiveUp, Uncount, Answer, Go
  <2> QED BY <2>1 DEF modelVars
<1>2. ASSUME NEW r \in Requests, CallModel(r) PROVE AsksInv'
  <2>1. UNCHANGED <<job, cached, at, len>> /\ phase[r] = "out"
    BY <1>2 DEF CallModel, Call, Send, serverVars
  <2>2. \A c \in Callers : c # r => phase'[c] = phase[c] /\ asks'[c] = asks[c]
    BY <1>2 DEF CallModel, Call, Send
  <2>3. asks'[r] = [op |-> IF at[r] = "encode" THEN "embed" ELSE "tokenize", arg |-> len[r]]
    BY <1>2 DEF CallModel, Call, Send
  <2> QED BY <2>1, <2>2, <2>3
<1>3. ASSUME NEW r \in Requests, Tokenized(r) \/ Answered(r) \/ Failed(r) PROVE AsksInv'
  <2>1. /\ UNCHANGED <<job, cached>>
        /\ \A c \in Callers : c # r => phase'[c] = phase[c] /\ asks'[c] = asks[c] /\ at'[c] = at[c]
        /\ phase'[r] = "out" /\ at'[r] # "idle"
        /\ \A q \in Requests : q # r => len'[q] = len[q]
    BY <1>3 DEF Tokenized, Answered, Failed, Back, Answer, Go
  <2>2. at'[r] = "encode" => len'[r] <= cached
    <3>1. CASE Tokenized(r)
      BY <3>1, <2>1 DEF Tokenized, Answer, Go, Fitted
    <3>2. CASE Answered(r) \/ Failed(r)
      BY <3>2 DEF Answered, Failed, Answer, Go
    <3> QED BY <1>3, <3>1, <3>2
  <2> QED BY <2>1, <2>2
<1>4. CASE StartCall
  <2>1. /\ UNCHANGED <<job, cached, at, len>> /\ phase[Main] = "out"
        /\ \A r \in Requests : phase'[r] = phase[r] /\ asks'[r] = asks[r]
        /\ MainAsks(asks'[Main].op, asks'[Main].arg)
    BY <1>4 DEF StartCall, RoundTrip, Call, Send, serverVars
  <2> QED BY <2>1
<1>5. CASE Started
  <2>1. /\ UNCHANGED <<job, len>> /\ phase[Main] = "back" /\ phase'[Main] = "out"
        /\ at[Main] \in Starting
        /\ \A r \in Requests : phase'[r] = phase[r] /\ at'[r] = at[r]
    BY <1>5 DEF Started, Back, Go
  <2>2. job = None
    BY <2>1
  <2>3. \A r \in Requests : at[r] = "idle" /\ phase[r] = "out"
    BY <2>1
  <2> QED BY <2>1, <2>2, <2>3
<1>6. CASE Close
  <2>1. /\ UNCHANGED <<job, cached, len>> /\ phase[Main] = "out" /\ at'[Main] = "freeing"
        /\ asks'[Main].op = "free"
        /\ \A r \in Requests : phase'[r] = phase[r] /\ asks'[r] = asks[r] /\ at'[r] = at[r]
    BY <1>6 DEF Close, RoundTrip, Send, Go
  <2> QED BY <2>1
<1>7. CASE Freed
  <2>1. /\ UNCHANGED <<job, cached, len, asks>> /\ phase[Main] = "back" /\ phase'[Main] = "out"
        /\ \A r \in Requests : phase'[r] = phase[r] /\ at'[r] = at[r]
    BY <1>7 DEF Freed, Go
  <2> QED BY <2>1
<1>8. CASE ShutdownEnds \/ Exit \/ Stop \/ ServeFails
  <2>1. /\ UNCHANGED modelVars /\ len' = len
        /\ at[Main] \in {"serve", "shutdown", "drain"}
        /\ \A r \in Requests : at'[r] = at[r]
    BY <1>8 DEF ShutdownEnds, Exit, Stop, ServeFails, Go
  <2>2. phase[Main] = "out"
    BY <2>1
  <2> QED BY <2>1, <2>2 DEF modelVars
<1>9. ASSUME NEW c \in Callers, CallerStep(c), UNCHANGED serverVars PROVE AsksInv'
  <2>1. /\ phase' = [phase EXCEPT ![c] = "back"] /\ UNCHANGED <<job, asks, cached, at, len>>
        /\ c = Main => phase[c] # "running"
    BY <1>9 DEF CallerStep, Leave, HandleClosed, Receive, serverVars
  <2> QED BY <2>1
<1>10. ASSUME NEW c \in Callers, Take(c), UNCHANGED serverVars PROVE AsksInv'
  <2>1. /\ phase[c] = "called" /\ phase' = [phase EXCEPT ![c] = "running"]
        /\ job' = [by |-> c, op |-> asks[c].op, arg |-> asks[c].arg]
        /\ UNCHANGED <<asks, cached, at, len>>
    BY <1>10 DEF Take, serverVars
  <2> QED BY <2>1
<1>11. ASSUME Execute, UNCHANGED serverVars PROVE AsksInv'
  <2>1. /\ job' = None /\ UNCHANGED <<asks, cached, at, len>>
        /\ \A c \in Callers : phase'[c] = "called" => phase[c] = "called"
    BY <1>11 DEF Execute, serverVars
  <2> QED BY <2>1
<1>12. CASE UNCHANGED vars
  BY <1>12 DEF vars
<1> QED BY <1>1, <1>2, <1>3, <1>4, <1>5, <1>6, <1>7, <1>8, <1>9, <1>10, <1>11, <1>12
        DEF Next, Handler, MainStep, InModel

-----------------------------------------------------------------------------
(* The model, the flags and main's place.                                  *)

\* What a job may do, by the place of the one who asked for it.
LEMMA JobEffects ==
  ASSUME TypeOK, PlacesInv, AsksInv, ModelInv, Execute
  PROVE  /\ job.by \in Callers
         /\ UNCHANGED <<cached, closed, dead, handle>>
         /\ \A c \in Callers : c # job.by => reply'[c] = reply[c] /\ phase'[c] = phase[c]
         /\ \/ reply'[job.by] = reply[job.by] /\ phase'[job.by] = phase[job.by]
               /\ phase[job.by] # "running"
            \/ /\ phase[job.by] = "running" /\ phase'[job.by] = "done"
               /\ reply'[job.by] \notin {"closed", "unusable"}
               /\ MarksDead(reply'[job.by]) => slot' # "ok"
         /\ \/ /\ at[Main] = "load" /\ job.by = Main /\ phase[Main] = "running"
               /\ \/ slot' = "ok" /\ limit' = Default /\ reply'[Main] = "ok"
                  \/ slot' = "none" /\ limit' = limit /\ reply'[Main] # "ok"
            \/ at[Main] = "freeing" /\ job.by = Main /\ slot' \in {"none", "lost"} /\ limit' = limit
            \/ /\ at[Main] = "limit" /\ job.by = Main
               /\ slot' = "ok" =>
                    slot = "ok" /\ (limit' = MaxTokens \/ (limit' = limit /\ reply'[Main] # "ok"))
               /\ slot \in {"none", "lost"} => slot' \in {"none", "lost"}
            \/ /\ at[Main] # "load" /\ (at[Main] \in {"limit", "freeing"} => job.by # Main)
               /\ limit' = limit
               /\ slot' = "ok" => slot = "ok"
               /\ slot \in {"none", "lost"} => slot' \in {"none", "lost"}
<1> USE CallersAssumption
<1>1. job # None /\ job.by \in Callers
  BY DEF Execute, TypeOK, ModelTypeOK, Callers
<1>2. PICK e \in Effects :
        /\ slot' = e.slot /\ limit' = e.limit
        /\ UNCHANGED <<cached, closed, dead, handle>>
        /\ IF phase[job.by] = "running"
           THEN /\ phase' = [phase EXCEPT ![job.by] = "done"]
                /\ reply' = [reply EXCEPT ![job.by] = e.reply]
           ELSE UNCHANGED <<phase, reply>>
  BY DEF Execute
<1>3. /\ \A c \in Callers : c # job.by => reply'[c] = reply[c] /\ phase'[c] = phase[c]
      /\ \/ reply'[job.by] = reply[job.by] /\ phase'[job.by] = phase[job.by]
            /\ phase[job.by] # "running"
         \/ phase[job.by] = "running" /\ phase'[job.by] = "done" /\ reply'[job.by] = e.reply
  BY <1>1, <1>2 DEF TypeOK, ModelTypeOK
<1>4. /\ e.reply \notin {"closed", "unusable"}
      /\ job.op # "load" \/ slot = "none" => (MarksDead(e.reply) => e.slot # "ok")
  BY DEF Effects, Effect, Unchanged, Load, Free, ModelOp, ModelFails, MarksDead
<1>5. CASE job.by = Main
  <2>1. phase[Main] = "running" /\ MainAsks(job.op, job.arg) /\ reply'[Main] = e.reply
    BY <1>1, <1>3, <1>5 DEF AsksInv
  <2>2. CASE job.op = "load"
    <3>1. at[Main] = "load" /\ slot = "none"
      BY <2>1, <2>2 DEF MainAsks, ModelInv, StartInv
    <3>2. e \in {Effect("ok", "ok", Default), Effect("error", "none", limit), Effect("panic", "none", limit)}
      BY <1>5, <2>2, <3>1 DEF Effects, Unchanged, Effect, Load
    <3> QED BY <1>1, <1>2, <1>3, <1>4, <1>5, <2>1, <3>1, <3>2 DEF Effect
  <2>3. CASE job.op = "free"
    <3>1. at[Main] = "freeing"
      BY <2>1, <2>3 DEF MainAsks
    <3>2. e.slot \in {"none", "lost"} /\ e.limit = limit
      BY <1>5, <2>3 DEF Effects, Unchanged, Effect, Free, TypeOK, ModelTypeOK
    <3> QED BY <1>1, <1>2, <1>3, <1>4, <1>5, <3>1, <3>2
  <2>4. CASE job.op = "limit"
    <3>1. at[Main] = "limit" /\ job.arg = MaxTokens
      BY <2>1, <2>4 DEF MainAsks
    <3>2. /\ e.slot = "ok" => slot = "ok" /\ (e.limit = MaxTokens \/ (e.limit = limit /\ e.reply # "ok"))
          /\ slot \in {"none", "lost"} => e.slot \in {"none", "lost"}
      BY <2>4, <3>1 DEF Effects, Unchanged, Effect, ModelOp, ModelFails
    <3> QED BY <1>1, <1>2, <1>3, <1>4, <1>5, <2>1, <2>4, <3>1, <3>2
  <2>5. CASE job.op = "embed"
    <3>1. at[Main] = "warm"
      BY <2>1, <2>5 DEF MainAsks
    <3>2. /\ e.limit = limit /\ (e.slot = "ok" => slot = "ok")
          /\ slot \in {"none", "lost"} => e.slot \in {"none", "lost"}
      BY <2>5 DEF Effects, Unchanged, Effect, ModelOp, ModelFails
    <3> QED BY <1>1, <1>2, <1>3, <1>4, <1>5, <2>5, <3>1, <3>2
  <2> QED BY <2>1, <2>2, <2>3, <2>4, <2>5 DEF MainAsks
<1>6. CASE job.by # Main
  <2>1. job.by \in Requests /\ at[job.by] # "idle" /\ job.op \in {"tokenize", "embed"}
    BY <1>1, <1>6 DEF AsksInv, RequestAsks, Callers
  <2>2. at[Main] \notin Starting
    BY <2>1 DEF PlacesInv
  <2>3. /\ e.limit = limit /\ (e.slot = "ok" => slot = "ok")
        /\ slot \in {"none", "lost"} => e.slot \in {"none", "lost"}
    BY <2>1 DEF Effects, Unchanged, Effect, ModelOp, ModelFails
  <2> QED BY <1>1, <1>2, <1>3, <1>4, <1>6, <2>1, <2>2, <2>3 DEF Starting
<1> QED BY <1>5, <1>6

LEMMA ModelStep == ASSUME TypeOK, PlacesInv, AsksInv, ModelInv, [Next]_vars PROVE ModelInv'
<1> USE CallersAssumption, LimitsAssumption, ServerAssumption
    DEF TypeOK, ModelTypeOK, PlacesInv, ModelInv, FlagsInv, StartInv, EndInv, Callers, Starting, MarksDead
<1>1. ASSUME NEW r \in Requests, Arrive(r) \/ TryWork(r) \/ CountWaiter(r) \/ GetWork(r)
             \/ GiveUp(r) \/ Uncount(r)
      PROVE  ModelInv'
  <2>1. /\ UNCHANGED modelVars /\ down' = down
        /\ at[Main] = "serve" \/ at[r] # "idle"
        /\ \A c \in Callers : c # r => at'[c] = at[c]
    BY <1>1 DEF Arrive, TryWork, CountWaiter, GetWork, GiveUp, Uncount, Answer, Go
  <2> QED BY <2>1 DEF modelVars
<1>2. ASSUME NEW r \in Requests, CallModel(r) PROVE ModelInv'
  <2>1. /\ UNCHANGED <<slot, limit, cached, closed, dead, down, at>>
        /\ \A c \in Callers : c # r => phase'[c] = phase[c] /\ reply'[c] = reply[c]
        /\ \/ reply'[r] = reply[r]
           \/ reply'[r] = "closed" /\ closed
           \/ reply'[r] = "unusable" /\ dead
    BY <1>2 DEF CallModel, Call, serverVars
  <2> QED BY <2>1
<1>3. ASSUME NEW r \in Requests, Tokenized(r) \/ Answered(r) \/ Failed(r) PROVE ModelInv'
  <2>1. /\ UNCHANGED <<slot, limit, cached, closed, dead>>
        /\ \A c \in Callers : c # r => phase'[c] = phase[c] /\ reply'[c] = reply[c] /\ at'[c] = at[c]
        /\ reply'[r] = "none" /\ at[r] \in {"tokenize", "encode"}
    BY <1>3 DEF Tokenized, Answered, Failed, Back, Answer, Go
  <2>2. down' => down \/ slot # "ok" \/ closed
    BY <1>3 DEF Tokenized, Answered, Failed, Fatal
  <2>3. at[Main] \notin Starting
    BY <2>1
  <2> QED BY <2>1, <2>2, <2>3
<1>4. CASE StartCall
  <2>1. /\ UNCHANGED <<slot, limit, cached, closed, dead, down, at>> /\ phase[Main] = "out"
        /\ \A r \in Requests : phase'[r] = phase[r] /\ reply'[r] = reply[r]
        /\ at[Main] = "load" => phase'[Main] = "called" /\ reply'[Main] = reply[Main]
        /\ \/ reply'[Main] = reply[Main]
           \/ reply'[Main] = "closed" /\ closed
           \/ reply'[Main] = "unusable" /\ dead
        /\ at[Main] \in Starting
    BY <1>4 DEF StartCall, RoundTrip, Call, Send, serverVars
  <2> QED BY <2>1
<1>5. CASE Started
  <2>1. /\ UNCHANGED <<slot, limit, closed, dead, down>> /\ phase[Main] = "back"
        /\ cached' = Cached
        /\ \A r \in Requests : phase'[r] = phase[r] /\ reply'[r] = reply[r] /\ at'[r] = at[r]
        /\ reply'[Main] = "none" /\ at[Main] \in Starting
    BY <1>5 DEF Started, Back, Go, serverVars
  <2>2. \A r \in Requests : at'[r] = "idle"
    BY <2>1
  <2>3. CASE at[Main] = "load"
    <3>1. at'[Main] = IF reply[Main] = "ok" THEN "limit" ELSE "drain"
      BY <1>5, <2>3 DEF Started, Go
    <3> QED BY <2>1, <2>2, <2>3, <3>1
  <2>4. CASE at[Main] = "limit"
    <3>1. at'[Main] = IF reply[Main] = "ok" THEN "warm" ELSE "close"
      BY <1>5, <2>4 DEF Started, Go
    <3>2. reply[Main] = "ok" => cached' = MaxTokens
      BY <2>1, <2>4 DEF Cached
    <3> QED BY <2>1, <2>2, <2>4, <3>1, <3>2
  <2>5. CASE at[Main] = "warm"
    <3>1. at'[Main] = IF reply[Main] = "ok" THEN "serve" ELSE "close"
      BY <1>5, <2>5 DEF Started, Go
    <3>2. cached' = cached
      BY <2>1, <2>5 DEF Cached
    <3> QED BY <2>1, <2>2, <2>5, <3>1, <3>2
  <2> QED BY <2>1, <2>3, <2>4, <2>5
<1>6. CASE Close
  <2>1. /\ UNCHANGED <<reply, slot, limit, cached, dead, down>> /\ closed'
        /\ at'[Main] = "freeing" /\ phase'[Main] = "called"
        /\ \A r \in Requests : at'[r] = at[r]
    BY <1>6 DEF Close, RoundTrip, Send, Go
  <2> QED BY <2>1
<1>7. CASE Freed
  <2>1. /\ UNCHANGED <<reply, slot, limit, cached, closed, dead, down>>
        /\ at[Main] = "freeing" /\ phase[Main] = "back" /\ at'[Main] = "drain"
        /\ \A r \in Requests : at'[r] = at[r]
    BY <1>7 DEF Freed, Go
  <2> QED BY <2>1
<1>8. CASE ShutdownEnds \/ Exit \/ Stop \/ ServeFails
  <2>1. /\ UNCHANGED modelVars /\ down' = down
        /\ \/ at'[Main] \in {"shutdown", "close"}
           \/ at[Main] = "drain" /\ at'[Main] = "exited"
        /\ \A r \in Requests : at'[r] = at[r]
    BY <1>8 DEF ShutdownEnds, Exit, Stop, ServeFails, Go
  <2> QED BY <2>1 DEF modelVars
<1>9. ASSUME NEW c \in Callers, CallerStep(c), UNCHANGED serverVars PROVE ModelInv'
  <2>1. /\ UNCHANGED <<slot, limit, cached, closed, at, down>>
        /\ phase[c] # "out" /\ phase'[c] = "back"
        /\ \A x \in Callers : x # c => phase'[x] = phase[x] /\ reply'[x] = reply[x]
        /\ \/ c \in Requests /\ reply'[c] = "ended" /\ dead' = dead
           \/ reply'[c] = "closed" /\ handle = "closed" /\ dead' = dead
           \/ phase[c] = "done" /\ reply'[c] = reply[c] /\ dead' = (dead \/ MarksDead(reply[c]))
    BY <1>9 DEF CallerStep, Leave, HandleClosed, Receive, serverVars
  <2>2. dead' => slot # "ok"
    BY <2>1
  <2>3. at[Main] = "load" => c = Main /\ phase[c] = "done" /\ reply'[c] = reply[c]
    BY <2>1
  <2>4. dead => dead'
    BY <2>1
  <2>5. FlagsInv'
    BY <2>1, <2>2, <2>4
  <2>6. StartInv'
    BY <2>1, <2>3
  <2>7. EndInv'
    BY <2>1
  <2> QED BY <2>5, <2>6, <2>7
<1>10. ASSUME NEW c \in Callers, Take(c), UNCHANGED serverVars PROVE ModelInv'
  <2>1. /\ phase[c] = "called" /\ phase' = [phase EXCEPT ![c] = "running"]
        /\ UNCHANGED <<reply, slot, limit, cached, closed, dead, at, down>>
    BY <1>10 DEF Take, serverVars
  <2> QED BY <2>1
<1>11. ASSUME Execute, UNCHANGED serverVars PROVE ModelInv'
  <2> DEFINE by == job.by
  <2>1. UNCHANGED <<at, down>>
    BY <1>11 DEF serverVars
  <2>2. by \in Callers /\ UNCHANGED <<cached, closed, dead>>
    BY <1>11, JobEffects
  <2>3. /\ \A c \in Callers : c # by => reply'[c] = reply[c] /\ phase'[c] = phase[c]
        /\ \/ reply'[by] = reply[by] /\ phase'[by] = phase[by] /\ phase[by] # "running"
           \/ /\ phase[by] = "running" /\ phase'[by] = "done"
              /\ reply'[by] \notin {"closed", "unusable"}
              /\ MarksDead(reply'[by]) => slot' # "ok"
    BY <1>11, JobEffects
  <2>4. \/ /\ at[Main] = "load" /\ by = Main /\ phase[Main] = "running"
           /\ \/ slot' = "ok" /\ limit' = Default /\ reply'[Main] = "ok"
              \/ slot' = "none" /\ limit' = limit /\ reply'[Main] # "ok"
        \/ at[Main] = "freeing" /\ by = Main /\ slot' \in {"none", "lost"} /\ limit' = limit
        \/ /\ at[Main] = "limit" /\ by = Main
           /\ slot' = "ok" =>
                slot = "ok" /\ (limit' = MaxTokens \/ (limit' = limit /\ reply'[Main] # "ok"))
           /\ slot \in {"none", "lost"} => slot' \in {"none", "lost"}
        \/ /\ at[Main] # "load" /\ (at[Main] \in {"limit", "freeing"} => by # Main)
           /\ limit' = limit
           /\ slot' = "ok" => slot = "ok"
           /\ slot \in {"none", "lost"} => slot' \in {"none", "lost"}
    BY <1>11, JobEffects
  <2> HIDE DEF by
  <2>5. at[Main] = "load" => ~dead /\ ~down /\ \A r \in Requests : reply[r] = "none"
    BY <2>4
  <2>6. FlagsInv'
    BY <2>1, <2>2, <2>3, <2>4, <2>5
  <2>7. StartInv'
    BY <2>1, <2>2, <2>3, <2>4
  <2>8. EndInv'
    BY <2>1, <2>2, <2>3, <2>4
  <2> QED BY <2>6, <2>7, <2>8
<1>12. CASE UNCHANGED vars
  BY <1>12 DEF vars
<1> QED BY <1>1, <1>2, <1>3, <1>4, <1>5, <1>6, <1>7, <1>8, <1>9, <1>10, <1>11, <1>12
        DEF Next, Handler, MainStep, InModel

-----------------------------------------------------------------------------
(* The invariant and what it gives.                                        *)

LEMMA InitInvariant == Init => IInv
<1> SUFFICES ASSUME Init PROVE IInv
  OBVIOUS
<1> USE CallersAssumption, LimitsAssumption, ServerAssumption DEF Init, ModelInit, Callers
<1>1. /\ work = 0 /\ waiting = 0
      /\ {r \in Requests : at[r] \in Holding} = {} /\ {r \in Requests : at[r] \in Counted} = {}
      /\ {r \in Requests : at[r] = "wait"} = {}
  BY DEF Holding, Counted
<1>2. SlotsBalanced
  BY <1>1, FS_EmptySet DEF SlotsBalanced
<1>3. TypeOK
  <2>1. Cardinality(Requests) \in Nat
    BY FS_CardinalityType
  <2>2. NoCall \in [op : Ops, arg : 0 .. MaxLen]
    BY DEF NoCall, Ops
  <2>3. ModelTypeOK
    <3>1. /\ phase \in [Callers -> {"out", "called", "running", "done", "back"}]
          /\ \A c \in Callers : phase[c] # "running"
      OBVIOUS
    <3>2. asks \in [Callers -> [op : Ops, arg : 0 .. MaxLen]]
      BY <2>2
    <3>3. reply \in [Callers -> Replies]
      BY DEF Replies
    <3>4. closed \in BOOLEAN /\ dead \in BOOLEAN
      OBVIOUS
    <3>5. job = None /\ slot = "none" /\ limit \in 0 .. MaxLen /\ cached \in 0 .. MaxLen /\ handle = "open"
      OBVIOUS
    <3> HIDE DEF Init, ModelInit, Callers
    <3> QED BY <3>1, <3>2, <3>3, <3>4, <3>5 DEF ModelTypeOK
  <2>4. \A c \in Callers : at[c] = IF c = Main THEN "load" ELSE "idle"
    OBVIOUS
  <2>5. /\ at \in [Callers -> MainAt \cup Counted \cup Holding \cup {"idle", "admit", "count", "answered"}]
        /\ at[Main] \in MainAt /\ \A r \in Requests : at[r] \notin MainAt
    BY <2>4 DEF MainAt
  <2>6. len \in [Requests -> 0 .. MaxLen] /\ work \in 0 .. MaxConcurrent /\ waiting \in 0 .. Cardinality(Requests)
    BY <2>1
  <2>7. down \in BOOLEAN /\ told \in BOOLEAN
    OBVIOUS
  <2>8. fatal \in 0 .. 1
    OBVIOUS
  <2> HIDE DEF Init, ModelInit, Callers
  <2> QED BY <2>3, <2>5, <2>6, <2>7, <2>8 DEF TypeOK
<1>4. PlacesInv /\ AsksInv
  BY DEF PlacesInv, AsksInv, Starting
<1>5. ModelInv
  BY DEF ModelInv, FlagsInv, StartInv, EndInv, MarksDead
<1> QED BY <1>2, <1>3, <1>4, <1>5 DEF IInv

\* What main, the requests, the worker and the flags agree on holds throughout:
\* the parts of the invariant are preserved together, since who may still ask
\* for what decides which reply a job can end with.
THEOREM Inductive == Spec => []IInv
<1>1. Init => IInv
  BY InitInvariant
<1>2. IInv /\ [Next]_vars => IInv'
  BY BalanceStep, TypeStep, PlacesStep, AsksStep, ModelStep DEF IInv
<1> QED BY <1>1, <1>2, PTL DEF Spec

\* Every variable of the server and of the model has its type (EmbedModel's
\* and EmbedServer's VARIABLES).
THEOREM TypeCorrect == Spec => []TypeOK
<1>1. IInv => TypeOK
  BY DEF IInv
<1> QED BY <1>1, Inductive, PTL

\* For any number of requests and slots: acquire and its release give back
\* every slot and every place in the queue (server.go:356).
THEOREM SlotsCorrect == Spec => []SlotsBalanced
<1>1. IInv => SlotsBalanced
  BY DEF IInv
<1> QED BY <1>1, Inductive, PTL

\* A model marked dead answers nothing any more: the flags that model.go:365 and
\* server.go:391 raise are never raised over a model that works.
THEOREM DeadCorrect == Spec => []DeadIsFinal
<1>1. IInv => DeadIsFinal
  BY DEF IInv, ModelInv, FlagsInv, DeadIsFinal
<1> QED BY <1>1, Inductive, PTL

\* Ids that fit let through by the cached limit never exceed the engine's, even
\* when the job outlives the request that sent it (server.go:333).
THEOREM FittedCorrect == Spec => []FittedIdsFit
<1>1. IInv => FittedIdsFit
  <2> SUFFICES ASSUME IInv, job.op = "embed", slot = "ok" PROVE job.arg <= limit
    BY DEF FittedIdsFit
  <2> USE DEF IInv, TypeOK, ModelTypeOK, AsksInv, ModelInv, FlagsInv, StartInv
  <2>1. job # None /\ job.by \in Callers /\ job.arg \in 0 .. MaxLen
    BY DEF None
  <2>2. CASE job.by = Main
    BY <2>1, <2>2, LimitsAssumption DEF MainAsks
  <2>3. CASE job.by # Main
    <3>1. job.by \in Requests /\ at[job.by] # "idle" /\ job.arg <= cached
      BY <2>1, <2>3 DEF RequestAsks, Callers
    <3>2. cached <= limit
      BY <3>1
    <3> QED BY <2>1, <3>1, <3>2, LimitsAssumption
  <2> QED BY <2>2, <2>3
<1> QED BY <1>1, Inductive, PTL

\* Close frees the model whatever state it is in and whoever still calls
\* (model.go:207), and no later job brings one back.
THEOREM ClosedCorrect == Spec => []ClosedIsFreed
<1>1. IInv => ClosedIsFreed
  BY DEF IInv, ModelInv, EndInv, ClosedIsFreed
<1> QED BY <1>1, Inductive, PTL
=============================================================================
