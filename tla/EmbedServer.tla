---------------------------- MODULE EmbedServer -----------------------------
(***************************************************************************)
(* tessl-embed (go/cmd/tessl-embed): main loads one Model, serves requests *)
(* on it and, on a signal, a fatal error or a broken listener, shuts the   *)
(* server down and closes the Model under whatever handlers remain.  A     *)
(* request takes one of MaxConcurrent working slots, or waits for one      *)
(* behind at most MaxQueue others, and calls the Model twice.              *)
(***************************************************************************)
EXTENDS EmbedModel

CONSTANTS
  MaxConcurrent,  \* limits.MaxConcurrent
  MaxQueue,       \* limits.MaxQueue
  MaxTokens       \* the -max-tokens flag

ASSUME ServerAssumption == MaxConcurrent \in Nat \ {0} /\ MaxQueue \in Nat /\ MaxTokens \in 1 .. MaxLen

VARIABLES
  at,       \* where main and each request are
  len,      \* the longest sequence each request sends
  work,     \* slots taken
  waiting,  \* server.waiting
  down,     \* server.dead
  fatal,    \* errors waiting in main's channel
  told      \* server.fatalOnce is used

serverVars == <<at, len, work, waiting, down, fatal, told>>
vars == <<phase, asks, reply, job, slot, limit, cached, closed, dead, handle,
          at, len, work, waiting, down, fatal, told>>

Counted == {"refuse", "wait", "got", "gaveup"}
Holding == {"got", "tokenize", "encode"}
MainAt == {"load", "limit", "warm", "serve", "shutdown", "close", "freeing", "drain", "exited"}

TypeOK ==
  /\ ModelTypeOK
  /\ at \in [Callers -> MainAt \cup Counted \cup Holding \cup {"idle", "admit", "count", "answered"}]
  /\ at[Main] \in MainAt /\ \A r \in Requests : at[r] \notin MainAt
  /\ len \in [Requests -> 0 .. MaxLen]
  /\ work \in 0 .. MaxConcurrent
  /\ waiting \in 0 .. Cardinality(Requests)
  /\ down \in BOOLEAN /\ fatal \in 0 .. 1 /\ told \in BOOLEAN

Init ==
  /\ ModelInit
  /\ at = [c \in Callers |-> IF c = Main THEN "load" ELSE "idle"]
  /\ len = [r \in Requests |-> 0]
  /\ work = 0 /\ waiting = 0
  /\ down = FALSE /\ fatal = 0 /\ told = FALSE

Go(c, to) == at' = [at EXCEPT ![c] = to]

-----------------------------------------------------------------------------
(* embed, before the model.                                                *)

\* What a request is answered is left out: rows, or a refusal with a status.
Answer(r) ==
  /\ Go(r, "answered")
  /\ len' = [len EXCEPT ![r] = 0]

\* The dead flag is looked at once, before the body is read; a bad body, name
\* or input is refused.
Arrive(r) ==
  /\ at[Main] = "serve" /\ at[r] = "idle"
  /\ \/ Answer(r)
     \/ ~down /\ Go(r, "admit") /\ UNCHANGED len
  /\ UNCHANGED <<modelVars, work, waiting, down, fatal, told>>

TryWork(r) ==
  /\ at[r] = "admit"
  /\ IF work < MaxConcurrent THEN Go(r, "tokenize") /\ work' = work + 1
     ELSE Go(r, "count") /\ UNCHANGED work
  /\ UNCHANGED <<modelVars, len, waiting, down, fatal, told>>

\* Faulty variant of CountWaiter: the count is read before it is raised.
CountWaiterAfter(r) ==
  /\ at[r] = "count"
  /\ waiting' = waiting + 1
  /\ Go(r, IF waiting > MaxQueue THEN "refuse" ELSE "wait")
  /\ UNCHANGED <<modelVars, len, work, down, fatal, told>>

CountWaiter(r) ==
  /\ at[r] = "count"
  /\ waiting' = waiting + 1
  /\ Go(r, IF waiting' > MaxQueue THEN "refuse" ELSE "wait")
  /\ UNCHANGED <<modelVars, len, work, down, fatal, told>>

\* Faulty variant of GetWork: one slot more than there are.
GetWorkOver(r) ==
  /\ at[r] = "wait" /\ work <= MaxConcurrent
  /\ work' = work + 1
  /\ Go(r, "got")
  /\ UNCHANGED <<modelVars, len, waiting, down, fatal, told>>

GetWork(r) ==
  /\ at[r] = "wait" /\ work < MaxConcurrent
  /\ work' = work + 1
  /\ Go(r, "got")
  /\ UNCHANGED <<modelVars, len, waiting, down, fatal, told>>

GiveUp(r) ==
  /\ at[r] = "wait"
  /\ Go(r, "gaveup")
  /\ UNCHANGED <<modelVars, len, work, waiting, down, fatal, told>>

\* A waiter is counted until acquire returns, whichever way it does.
Uncount(r) ==
  /\ at[r] \in {"refuse", "got", "gaveup"}
  /\ waiting' = waiting - 1
  /\ IF at[r] = "got" THEN Go(r, "tokenize") /\ UNCHANGED len ELSE Answer(r)
  /\ UNCHANGED <<modelVars, work, down, fatal, told>>

-----------------------------------------------------------------------------
(* embed, on the model.                                                    *)

CallModel(r) ==
  /\ at[r] \in {"tokenize", "encode"}
  /\ Call(r, IF at[r] = "encode" THEN "embed" ELSE "tokenize", len[r])
  /\ UNCHANGED <<closed, serverVars>>

Back(c) ==
  /\ phase[c] = "back"
  /\ phase' = [phase EXCEPT ![c] = "out"]
  /\ asks' = [asks EXCEPT ![c] = NoCall]
  /\ reply' = [reply EXCEPT ![c] = "none"]
  /\ UNCHANGED <<job, slot, limit, closed, dead, handle>>

\* fit: a sequence past the cached limit is cut to it, or refused.
Fitted(n, truncate) == IF n <= cached \/ ~truncate THEN n ELSE cached

Tokenized(r) ==
  /\ at[r] = "tokenize" /\ reply[r] = "ok" /\ Back(r)
  /\ \E n \in 1 .. MaxLen, truncate \in BOOLEAN :
       IF Fitted(n, truncate) > cached
       THEN Answer(r) /\ work' = work - 1
       ELSE /\ Go(r, "encode") /\ len' = [len EXCEPT ![r] = Fitted(n, truncate)]
            /\ UNCHANGED work
  /\ UNCHANGED <<cached, waiting, down, fatal, told>>

\* Faulty variant of Fatal: a worker without a model passes for a refusal.
FatalButNoModel(answer) == answer \in {"panic", "poisoned", "closed", "unusable"}
Fatal(answer) == answer \in {"panic", "poisoned", "nomodel", "closed", "unusable"}

\* The rows, or the answer to an error that leaves the model alone.
Answered(r) ==
  /\ at[r] \in {"tokenize", "encode"} /\ Back(r)
  /\ IF reply[r] = "ok" THEN at[r] = "encode" ELSE ~Fatal(reply[r])
  /\ Answer(r)
  /\ work' = work - 1
  /\ UNCHANGED <<cached, waiting, down, fatal, told>>

\* modelError, for an error that does not: the first one sends to main, in a
\* channel of capacity 1, still holding its slot.
Failed(r) ==
  /\ at[r] \in {"tokenize", "encode"} /\ Fatal(reply[r]) /\ Back(r)
  /\ down' = TRUE
  /\ told' = TRUE
  /\ \/ told /\ UNCHANGED fatal
     \/ ~told /\ fatal < 1 /\ fatal' = fatal + 1
  /\ Answer(r)
  /\ work' = work - 1
  /\ UNCHANGED <<cached, waiting>>

-----------------------------------------------------------------------------
(* main.                                                                   *)

\* "warm" stands for the three calls that end the start (Prompts, Tokenize, the
\* warm-up embed).  Bound: the flag asks for a limit that is not the default.
StartCall ==
  /\ \/ at[Main] = "load" /\ RoundTrip(Main, "load", 0)
     \/ at[Main] = "limit" /\ Call(Main, "limit", MaxTokens)
     \/ at[Main] = "warm" /\ Call(Main, "embed", 1)
  /\ UNCHANGED <<closed, serverVars>>

\* Faulty variant of Cached: the limit sent is never stored.
CachedAtLoad == IF at[Main] = "load" /\ reply[Main] = "ok" THEN Default ELSE cached

\* What main caches of a reply: the engine's limit, or its own once taken.
Cached == CASE at[Main] = "load" /\ reply[Main] = "ok" -> Default
            [] at[Main] = "limit" /\ reply[Main] = "ok" -> MaxTokens
            [] OTHER -> cached

\* A failed load closes the handle; a failure after it closes the model.
Started ==
  /\ at[Main] \in {"load", "limit", "warm"} /\ Back(Main)
  /\ cached' = Cached
  /\ Go(Main, IF reply[Main] = "ok"
              THEN CASE at[Main] = "load" -> "limit" [] at[Main] = "limit" -> "warm" [] OTHER -> "serve"
              ELSE IF at[Main] = "load" THEN "drain" ELSE "close")
  /\ UNCHANGED <<len, work, waiting, down, fatal, told>>

\* A signal or a fatal error: the server shuts down first.
Stop ==
  /\ at[Main] = "serve"
  /\ \/ UNCHANGED fatal
     \/ fatal = 1 /\ fatal' = 0
  /\ Go(Main, "shutdown")
  /\ UNCHANGED <<modelVars, len, work, waiting, down, told>>

\* Serve fails: main returns at once.
ServeFails ==
  /\ at[Main] = "serve"
  /\ Go(Main, "close")
  /\ UNCHANGED <<modelVars, len, work, waiting, down, fatal, told>>

\* Shutdown ends when the handlers have, or after its 15 seconds.
ShutdownEnds ==
  /\ at[Main] = "shutdown"
  /\ Go(Main, "close")
  /\ UNCHANGED <<modelVars, len, work, waiting, down, fatal, told>>

\* Faulty variant of Close: the free is sent as a call, which a closed model
\* refuses.
CloseByCall ==
  /\ at[Main] = "close"
  /\ closed' = TRUE
  /\ Go(Main, "freeing")
  /\ Send(Main, "free", 0)
  /\ phase' = [phase EXCEPT ![Main] = "back"]
  /\ reply' = [reply EXCEPT ![Main] = "closed"]
  /\ UNCHANGED <<job, slot, limit, cached, dead, handle>>
  /\ UNCHANGED <<len, work, waiting, down, fatal, told>>

\* Close: the free queues behind the calls in flight.
Close ==
  /\ at[Main] = "close"
  /\ closed' = TRUE
  /\ RoundTrip(Main, "free", 0)
  /\ Go(Main, "freeing")
  /\ UNCHANGED <<len, work, waiting, down, fatal, told>>

Freed ==
  /\ at[Main] = "freeing" /\ phase[Main] = "back"
  /\ phase' = [phase EXCEPT ![Main] = "out"]
  /\ handle' = "closed"
  /\ Go(Main, "drain")
  /\ UNCHANGED <<asks, reply, job, slot, limit, cached, closed, dead>>
  /\ UNCHANGED <<len, work, waiting, down, fatal, told>>

\* The handle waits for a job begun, 30 seconds at most; main returns.
Exit ==
  /\ at[Main] = "drain"
  /\ Go(Main, "exited")
  /\ UNCHANGED <<modelVars, len, work, waiting, down, fatal, told>>

-----------------------------------------------------------------------------

Handler(r) == TryWork(r) \/ CountWaiter(r) \/ GetWork(r) \/ GiveUp(r) \/ Uncount(r)
              \/ CallModel(r) \/ Tokenized(r) \/ Answered(r) \/ Failed(r)
MainStep == StartCall \/ Started \/ ShutdownEnds \/ Close \/ Freed \/ Exit
InModel(step) == step /\ UNCHANGED serverVars
Running == at[Main] # "exited"

Next ==
  /\ Running
  /\ \/ \E r \in Requests : Arrive(r) \/ Handler(r)
     \/ MainStep \/ Stop \/ ServeFails
     \/ \E c \in Callers : InModel(CallerStep(c) \/ Take(c))
     \/ InModel(Execute)

Spec == Init /\ [][Next]_vars

\* Goroutines run, and a context's deadline passes: GiveUp and Leave stay
\* enabled until they, or the step they race with, are taken.  Nothing is
\* assumed of the worker: a job may run for ever.
GoFairness ==
  /\ \A r \in Requests : WF_vars(Running /\ Handler(r))
  /\ \A c \in Callers : WF_vars(Running /\ InModel(CallerStep(c)))
  /\ WF_vars(Running /\ MainStep) /\ WF_vars(Running /\ fatal = 1 /\ Stop)
  /\ WF_vars(Running /\ InModel(Take(Main)))

LiveSpec == Spec /\ GoFairness

-----------------------------------------------------------------------------
(* What should hold.                                                       *)

\* acquire and its release (server.go:356): every slot taken is held by one
\* request, every request counted as waiting is in acquire, and no more than
\* MaxQueue of them wait.
SlotsBalanced ==
  /\ work = Cardinality({r \in Requests : at[r] \in Holding})
  /\ waiting = Cardinality({r \in Requests : at[r] \in Counted})
  /\ Cardinality({r \in Requests : at[r] = "wait"}) <= MaxQueue

\* A model that the Go side holds for unusable (model.go:365, server.go:391) is:
\* its worker can answer nothing more, or it was closed.
DeadIsFinal ==
  /\ dead => slot # "ok"
  /\ down => slot # "ok" \/ closed

\* fit cuts by the limit the package caches (server.go:333): no ids it let
\* through reach a live engine whose own limit is lower.
FittedIdsFit ==
  (job.op = "embed" /\ slot = "ok") => job.arg <= limit

\* Close (model.go:207) frees the model on the worker, whatever the state the
\* model is in and whoever is still calling; nothing brings it back.
ClosedIsFreed == at[Main] \in {"drain", "exited"} => slot \in {"none", "lost"}

\* Every request that comes in is answered, even if the worker never ends the
\* job it runs, or the process exits.
RequestsAnswered ==
  \A r \in Requests : (at[r] # "idle") ~> (at[r] = "answered" \/ ~Running)

\* tessl-embed exits rather than answer 500 for ever (server.go:73) once a reply
\* has said that the model is gone, if the worker ends the jobs it begins.
FatalExits == WF_vars(Running /\ InModel(Execute)) => (dead ~> ~Running)
=============================================================================
