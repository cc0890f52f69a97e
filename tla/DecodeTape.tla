----------------------------- MODULE DecodeTape -----------------------------
(***************************************************************************)
(* decode_icb.rs: the runtime's thread records its dispatches on a tape,   *)
(* and replays the tape later.  Replay skips the barriers the tape does    *)
(* not ask for, and binds only what the tape holds, through prebuilt       *)
(* argument tables or by setting the addresses that changed.  The thread   *)
(* may also skip encoding altogether.                                      *)
(***************************************************************************)
EXTENDS HazardBinder

CONSTANTS
  MaxCommands, \* bound: commands on a tape
  MaxGuards,   \* bound: nested BinderEncodeNopGuards
  Built        \* bound: what a command of a tape built by hand binds

ASSUME TapeAssumption ==
  /\ MaxCommands \in Nat \ {0, 1} /\ MaxGuards \in Nat
  /\ Built \subseteq [Indices -> Bufs]

VARIABLES
  capture,   \* the capture in progress
  tape,      \* the commands of the attached DecodeIcb
  seen,      \* history: for each command, the arguments its dispatch had and
             \* whether it may run beside the one before it
  sticky,    \* StickyArgTable of the scope
  exec,      \* the execute in progress: the next command, and how it runs
  nop,       \* BINDER_ENCODE_NOP
  guards,    \* what each live guard will restore, the innermost last
  cleared    \* history: the switch was cleared under the guards that live

tapeVars == <<capture, tape, seen, sticky, exec, nop, guards, cleared>>

Empty == [i \in Indices |-> None]
NoCapture == [live |-> FALSE, commands |-> <<>>, binds |-> Empty, carried |-> FALSE]
Idle == [next |-> 0, triage |-> FALSE, prebuilt |-> FALSE]
Command == [binds : [Indices -> Values \cup {None}], barrier : BOOLEAN]
Seen == [args : [Indices -> Values \cup {None}], beside : BOOLEAN]

TapeTypeOK ==
  /\ capture \in [live : BOOLEAN, commands : Seq(Command),
                  binds : [Indices -> Values \cup {None}], carried : BOOLEAN]
  /\ tape \in Seq(Command) /\ seen \in Seq(Seen)
  /\ Len(capture.commands) <= MaxCommands /\ Len(tape) <= MaxCommands
  /\ sticky \in [Indices -> Values \cup {None}]
  /\ exec \in [next : 0 .. MaxCommands + 1, triage : BOOLEAN, prebuilt : BOOLEAN]
  /\ nop \in BOOLEAN /\ cleared \in BOOLEAN /\ guards \in Seq(BOOLEAN) /\ Len(guards) <= MaxGuards

TapeInit ==
  /\ capture = NoCapture /\ tape = <<>> /\ seen = <<>>
  /\ sticky = Empty /\ exec = Idle
  /\ nop = FALSE /\ guards = <<>> /\ cleared = FALSE

Executing == exec # Idle

-----------------------------------------------------------------------------
(* Capture.                                                                *)

Mark(commands) == IF commands = <<>> THEN <<>>
                  ELSE [commands EXCEPT ![Len(commands)].barrier = TRUE]

\* begin_decode_icb_capture: a second begin keeps the first tape.
BeginCapture ==
  /\ ~capture.live /\ tape = <<>> /\ ~scope.open
  /\ capture' = [NoCapture EXCEPT !.live = TRUE]
  /\ seen' = <<>>
  /\ UNCHANGED <<tape, sticky, exec, nop, guards, cleared>>

EndCapture ==
  /\ capture.live /\ ~scope.open
  /\ capture' = NoCapture /\ seen' = <<>>
  /\ UNCHANGED <<tape, sticky, exec, nop, guards, cleared>>

\* take_decode_icb_capture and from_commands; an empty tape is refused.
TakeCapture ==
  /\ capture.live /\ ~scope.open
  /\ capture' = NoCapture
  /\ tape' = capture.commands
  /\ UNCHANGED <<seen, sticky, exec, nop, guards, cleared>>

\* from_commands on commands the caller built: he knows which edges need no
\* barrier.
BuildTape(marked) ==
  /\ ~capture.live /\ tape = <<>>
  /\ \E args \in [1 .. 2 -> Built] :
       /\ tape' = [k \in 1 .. 2 |-> [binds |-> args[k], barrier |-> k = 1 /\ marked]]
       /\ seen' = [k \in 1 .. 2 |-> [args |-> args[k], beside |-> k = 2 /\ ~marked]]
  /\ UNCHANGED <<capture, sticky, exec, nop, guards, cleared>>

UnchangedButCapture == UNCHANGED <<tape, sticky, exec, nop, guards, cleared>>

\* The scope's closure runs unless this thread encodes nothing.  Bound: it has
\* something to dispatch.
EnterScope(skip) ==
  /\ ~nop /\ ~Executing
  /\ left > 0 /\ Enter(skip, capture.live /\ capture.carried)
  /\ capture' = IF capture.live THEN [capture EXCEPT !.carried = FALSE] ELSE capture
  /\ UNCHANGED seen /\ UnchangedButCapture

Recordable(args) == [i \in Indices |-> IF args[i] \in Raws THEN None ELSE args[i]]

LaunchScope(args) ==
  /\ ~Executing
  /\ Launch(args)
  /\ capture' = IF capture.live
                THEN [capture EXCEPT !.binds = Recordable(args)]
                ELSE capture
  /\ UNCHANGED seen /\ UnchangedButCapture

RebindScope(i, v) ==
  /\ ~Executing
  /\ Rebind(i, v)
  /\ capture' = IF capture.live
                THEN [capture EXCEPT !.binds[i] = IF v \in Raws THEN @ ELSE v]
                ELSE capture
  /\ UNCHANGED seen /\ UnchangedButCapture

\* The barrier of a dispatch, before it or after it, marks the last command.
DispatchScope ==
  /\ ~Executing /\ Len(capture.commands) < MaxCommands
  /\ Dispatch
  /\ IF capture.live
     THEN /\ capture' = [capture EXCEPT
                 !.commands = Append(IF scope.pending THEN Mark(@) ELSE @,
                                [binds |-> capture.binds, barrier |-> ~scope.skip])]
          /\ seen' = Append(seen, [args |-> table, beside |-> FALSE])
     ELSE UNCHANGED <<capture, seen>>
  /\ UnchangedButCapture

BarrierScope ==
  /\ ~Executing
  /\ Barrier
  /\ capture' = IF capture.live THEN [capture EXCEPT !.commands = Mark(@)] ELSE capture
  /\ UNCHANGED seen /\ UnchangedButCapture

LeaveScope ==
  /\ ~Executing
  /\ Leave
  /\ capture' = IF capture.live THEN [capture EXCEPT !.carried = scope.pending] ELSE capture
  /\ UNCHANGED seen /\ UnchangedButCapture

FailScope ==
  /\ ~Executing
  /\ Fail
  /\ UNCHANGED tapeVars

-----------------------------------------------------------------------------
(* The switch that skips encoding.                                         *)

EnterGuard ==
  /\ Len(guards) < MaxGuards /\ ~scope.open /\ ~Executing
  /\ guards' = Append(guards, nop)
  /\ nop' = TRUE
  /\ UNCHANGED <<capture, tape, seen, sticky, exec, cleared>>

\* Faulty variant of Restored: a dropped guard switches encoding on again.
RestoredOn == FALSE
Restored == guards[Len(guards)]

DropGuard ==
  /\ guards # <<>> /\ ~scope.open /\ ~Executing
  /\ nop' = Restored
  /\ guards' = SubSeq(guards, 1, Len(guards) - 1)
  /\ cleared' = (cleared /\ Len(guards) > 1)
  /\ UNCHANGED <<capture, tape, seen, sticky, exec>>

\* clear_binder_encode_nop only disarms.  Bound: under a guard.
ClearNop ==
  /\ guards # <<>> /\ ~scope.open /\ ~Executing
  /\ nop' = FALSE /\ cleared' = TRUE
  /\ UNCHANGED <<capture, tape, seen, sticky, exec, guards>>

-----------------------------------------------------------------------------
(* Replay.                                                                 *)

\* What the prebuilt tables are shared by.
\* Faulty variant of Fingerprint: the indices are left out.
ValuesOnly(k) == {tape[k].binds[i] : i \in Indices} \cap Bufs
Fingerprint(k) == {<<i, tape[k].binds[i]>> : i \in {j \in Indices : tape[k].binds[j] \in Bufs}}

\* The table a command adopts holds the buffers of the first command with its
\* fingerprint, and the constants of this one.
Adopted(k) ==
  LET first == CHOOSE j \in 1 .. k : /\ Fingerprint(j) = Fingerprint(k)
                                     /\ \A h \in 1 .. j - 1 : Fingerprint(h) # Fingerprint(k)
  IN  [i \in Indices |-> IF tape[k].binds[i] \in Imms THEN tape[k].binds[i]
                         ELSE IF tape[first].binds[i] \in Bufs THEN tape[first].binds[i] ELSE None]

StickyAfter(binds) == [i \in Indices |-> IF binds[i] = None THEN sticky[i] ELSE binds[i]]

\* Without prebuilt tables only the addresses that changed are set; a constant
\* has a new one every time.
Set(binds) == [i \in Indices |-> IF binds[i] = None \/ (binds[i] \in Bufs /\ sticky[i] = binds[i])
                                 THEN table[i] ELSE binds[i]]

Arguments(k) == IF exec.prebuilt THEN Adopted(k) ELSE Set(tape[k].binds)

\* execute opens one scope for the tape, or in triage one for each command; in
\* every one the automatic barriers are off.
ExecEnter ==
  /\ Executing /\ exec.next <= Len(tape) /\ ~nop
  /\ Enter(TRUE, FALSE)
  /\ UNCHANGED tapeVars

\* What can be wrong with command k, dispatched with its arguments.
Wrong(k) ==
  {f \in {"unordered"} : Unordered /\ ~seen[k].beside}
  \cup {f \in {"binds"} : \E i \in Indices : /\ seen[k].args[i] \notin Raws
                                             /\ Arguments(k)[i] # seen[k].args[i]}

Forgone(k) == ~tape[k].barrier /\ k < Len(tape)

\* One command: its arguments, its dispatch, then its barrier, or none.
ExecCommand ==
  LET k == exec.next IN
  /\ Executing /\ scope.open /\ k <= Len(tape)
  /\ ~(exec.triage /\ scope.bound)
  /\ faults' = faults \cup Wrong(k)
  /\ sticky' = IF exec.prebuilt THEN sticky ELSE StickyAfter(tape[k].binds)
  /\ table' = IF exec.prebuilt THEN table ELSE Arguments(k)
  /\ scope' = [scope EXCEPT !.bound = TRUE,
                            !.pending = ~tape[k].barrier /\ ~(Forgone(k) /\ ~exec.triage)]
  /\ bare' = ~tape[k].barrier
  /\ exec' = [exec EXCEPT !.next = k + 1]
  /\ UNCHANGED <<batch, poisoned, left, capture, tape, seen, nop, guards, cleared>>

ExecLeave ==
  /\ Executing /\ scope.bound
  /\ exec.triage \/ exec.next > Len(tape)
  /\ Leave
  /\ sticky' = Empty
  /\ UNCHANGED <<capture, tape, seen, exec, nop, guards, cleared>>
=============================================================================
