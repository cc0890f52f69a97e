------------------------------ MODULE CbReplay ------------------------------
(***************************************************************************)
(* cb_replay.rs: the ledger of two slots, A and B, that a decode session   *)
(* keeps beside its tape.  A step is encoded live and leaves its slot      *)
(* Ready; the next one may replay the tape on a Ready slot instead, which  *)
(* is InFlight from then on.                                               *)
(***************************************************************************)
EXTENDS DecodeTape

CONSTANTS
  Args,        \* bound: what a launch binds
  Rebinds,     \* bound: what a bind under the same pipeline changes
  MaxReplays   \* bound: replays tried

ASSUME LedgerAssumption ==
  /\ Args \subseteq [Indices -> Values] /\ Args # {}
  /\ Rebinds \subseteq Indices \X Values
  /\ MaxReplays \in Nat

VARIABLES
  slotPhase,  \* CbReplaySlot.phase of A and B
  active,     \* the slot the next live step is marked on
  claimed,    \* the slot try_replay_icb has claimed, while it runs
  replays,    \* icb_replays
  failures,   \* icb_execute_failures
  submitted,  \* history: slots whose claim has commands behind it
  tries       \* bound: replays still to try

ledgerVars == <<slotPhase, active, claimed, replays, failures, submitted, tries>>
vars == <<scope, batch, table, poisoned, bare, faults, left,
          capture, tape, seen, sticky, exec, nop, guards, cleared,
          slotPhase, active, claimed, replays, failures, submitted, tries>>

Slots == {"A", "B"}
Peer(s) == IF s = "A" THEN "B" ELSE "A"

TypeOK ==
  /\ BinderTypeOK /\ TapeTypeOK
  /\ slotPhase \in [Slots -> {"idle", "recording", "ready", "inflight"}]
  /\ active \in Slots /\ claimed \in Slots \cup {None}
  /\ replays \in 0 .. MaxReplays /\ failures \in 0 .. MaxReplays
  /\ submitted \subseteq Slots
  /\ tries \in 0 .. MaxReplays

Init ==
  /\ BinderInit /\ TapeInit
  /\ slotPhase = [s \in Slots |-> "idle"]
  /\ active = "A" /\ claimed = None
  /\ replays = 0 /\ failures = 0
  /\ submitted = {} /\ tries = MaxReplays

\* Bound: the ledger is kept once the tape is attached.
Free == claimed = None /\ tape # <<>>
UnchangedButLedger == UNCHANGED <<binderVars, tapeVars>>

-----------------------------------------------------------------------------
(* The slots.                                                              *)

BeginRecord(s) ==
  /\ Free /\ slotPhase[s] \in {"idle", "ready"}
  /\ slotPhase' = [slotPhase EXCEPT ![s] = "recording"]
  /\ active' = s
  /\ UnchangedButLedger
  /\ UNCHANGED <<claimed, replays, failures, submitted, tries>>

FinishRecord(s) ==
  /\ Free /\ slotPhase[s] = "recording"
  /\ slotPhase' = [slotPhase EXCEPT ![s] = "ready"]
  /\ UnchangedButLedger
  /\ UNCHANGED <<active, claimed, replays, failures, submitted, tries>>

\* Faulty variant of Markable: a slot in flight is left to its completion.
MarkableAtRest == {"idle", "ready", "recording"}
Markable == {"idle", "ready", "recording", "inflight"}

\* mark_live_step, mark_replay_step: whatever its slot was in, a step leaves it
\* Ready and turns to the peer.
MarkStep ==
  /\ Free
  /\ IF slotPhase[active] \in Markable
     THEN /\ slotPhase' = [slotPhase EXCEPT ![active] = "ready"]
          /\ active' = Peer(active)
          /\ submitted' = submitted \ {active}
          /\ UNCHANGED faults
     ELSE /\ faults' = faults \cup {"step"}
          /\ UNCHANGED <<slotPhase, active, submitted>>
  /\ UNCHANGED <<scope, batch, table, poisoned, bare, left, tapeVars>>
  /\ UNCHANGED <<claimed, replays, failures, tries>>

\* on_gpu_complete: a slot still recording keeps its recording.
GpuComplete(s) ==
  /\ Free /\ slotPhase[s] # "recording"
  /\ slotPhase' = [slotPhase EXCEPT ![s] = "idle"]
  /\ submitted' = submitted \ {s}
  /\ UnchangedButLedger
  /\ UNCHANGED <<active, claimed, replays, failures, tries>>

-----------------------------------------------------------------------------
(* try_replay_ready_icb.                                                   *)

\* Bound: a replay is not itself captured, nor run from inside a scope.
FirstReady(s) == slotPhase[s] = "ready" /\ (s = "B" => slotPhase["A"] # "ready")
Replaying(s) == Free /\ tries > 0 /\ FirstReady(s) /\ tape # <<>> /\ ~capture.live /\ ~scope.open

\* A replay that encodes nothing gives its slot back; it fails if the runtime
\* is poisoned.
ReplayNop(s) ==
  /\ Replaying(s) /\ nop
  /\ tries' = tries - 1
  /\ failures' = IF poisoned THEN failures + 1 ELSE failures
  /\ UnchangedButLedger
  /\ UNCHANGED <<slotPhase, active, claimed, replays, submitted>>

ReplayStart(s) ==
  /\ Replaying(s) /\ ~nop
  /\ tries' = tries - 1
  /\ slotPhase' = [slotPhase EXCEPT ![s] = "inflight"]
  /\ claimed' = s
  /\ \E triage, prebuilt \in BOOLEAN :
       exec' = [next |-> 1, triage |-> triage, prebuilt |-> prebuilt]
  /\ UNCHANGED <<binderVars, capture, tape, seen, sticky, nop, guards, cleared>>
  /\ UNCHANGED <<active, replays, failures, submitted>>

ExecDone ==
  /\ Executing /\ exec.next > Len(tape) /\ ~scope.open
  /\ exec' = Idle /\ claimed' = None
  /\ replays' = replays + 1
  /\ submitted' = submitted \cup {claimed}
  /\ UNCHANGED <<binderVars, capture, tape, seen, sticky, nop, guards, cleared>>
  /\ UNCHANGED <<slotPhase, active, failures, tries>>

\* Faulty variant of RollBack: the failure is counted by execute and by its caller.
RollBackTwice ==
  /\ exec' = Idle /\ sticky' = Empty /\ claimed' = None
  /\ slotPhase' = [slotPhase EXCEPT ![claimed] = "ready"]
  /\ failures' = failures + 2
  /\ UNCHANGED <<capture, tape, seen, nop, guards, cleared>>
  /\ UNCHANGED <<active, replays, submitted, tries>>

RollBack ==
  /\ exec' = Idle /\ sticky' = Empty /\ claimed' = None
  /\ slotPhase' = [slotPhase EXCEPT ![claimed] = "ready"]
  /\ failures' = failures + 1
  /\ UNCHANGED <<capture, tape, seen, nop, guards, cleared>>
  /\ UNCHANGED <<active, replays, submitted, tries>>

\* Outside its scopes: the tape is refused (ICB execution of a mixed tape), the
\* runtime is mapped or poisoned, the commit of a scope or a triage probe fails.
ExecRefused ==
  /\ Executing /\ ~scope.open
  /\ RollBack
  /\ UNCHANGED binderVars

ExecFails ==
  /\ Executing
  /\ Fail
  /\ RollBack

-----------------------------------------------------------------------------

\* Bound: a scope that is not captured binds the same arguments every time.
Plain == CHOOSE args \in Args : TRUE

LiveScope ==
  \/ \E skip \in BOOLEAN : EnterScope(skip)
  \/ \E args \in IF capture.live THEN Args ELSE {Plain} : LaunchScope(args)
  \/ \E bind \in Rebinds : capture.live /\ RebindScope(bind[1], bind[2])
  \/ DispatchScope \/ BarrierScope \/ LeaveScope \/ FailScope

Capture == BeginCapture \/ EndCapture \/ TakeCapture \/ \E marked \in BOOLEAN : BuildTape(marked)
Exec == ExecEnter \/ ExecCommand \/ ExecLeave

Next ==
  \/ /\ \/ LiveScope
        \/ Synchronize /\ UNCHANGED tapeVars
        \/ (Capture \/ EnterGuard \/ DropGuard \/ ClearNop) /\ UNCHANGED binderVars
        \/ Exec
     /\ UNCHANGED ledgerVars
  \/ \E s \in Slots : \/ BeginRecord(s) \/ FinishRecord(s) \/ GpuComplete(s)
                      \/ ReplayNop(s) \/ ReplayStart(s)
  \/ MarkStep \/ ExecDone \/ ExecRefused \/ ExecFails

Spec == Init /\ [][Next]_vars

-----------------------------------------------------------------------------
(* What should hold.                                                       *)

\* No dispatch is encoded beside the one before it, whichever scopes, modes and
\* command buffers the two are in, unless the tape it comes from says that it
\* may (dispatch.rs:501, runtime.rs:2588, decode_icb.rs:1131).
NeighboursOrdered == "unordered" \notin faults

\* A replayed command runs on the arguments its dispatch had live, through
\* shared prebuilt tables and through addresses that are not set again.
ReplayedArguments == "binds" \notin faults

\* This thread encodes nothing exactly while one of its guards lives, unless
\* the switch was cleared under them (decode_icb.rs:1204, 1222).
NopUnderGuard ==
  /\ nop => guards # <<>>
  /\ guards # <<>> /\ ~cleared => nop

\* The ledger says what happened (cb_replay.rs:286, 370): a slot in flight has
\* a submission behind it, and a step is never turned away by the state an
\* earlier one left.
LedgerHonest ==
  /\ \A s \in Slots : slotPhase[s] = "inflight" => s = claimed \/ s \in submitted
  /\ "step" \notin faults
=============================================================================
