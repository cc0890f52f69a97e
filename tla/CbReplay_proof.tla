--------------------------- MODULE CbReplay_proof ---------------------------
(***************************************************************************)
(* Replay is right for every tape, table of arguments and bound: nothing   *)
(* runs beside what it depends on, every command has the arguments its     *)
(* dispatch had, the ledger and the switch say what happened.              *)
(***************************************************************************)
EXTENDS CbReplay, SequenceTheorems, WellFoundedInduction, TLAPS

\* A claim is an execute, which has a tape and no capture beside it.
ClaimInv ==
  /\ Executing <=> claimed # None
  /\ Executing => tape # <<>> /\ exec.next \in 1 .. Len(tape) + 1
  /\ capture.live => tape = <<>>
  /\ replays + failures + tries + (IF claimed = None THEN 0 ELSE 1) <= MaxReplays

\* The outermost guard found the switch off, the ones within it found it on.
GuardInv ==
  /\ nop \/ cleared => guards # <<>>
  /\ guards # <<>> /\ ~cleared => nop
  /\ \A k \in 1 .. Len(guards) : IF k = 1 THEN ~guards[k] ELSE cleared \/ guards[k]

\* The barrier that the last captured command does without is still to come.
LastOwed ==
  \/ capture.commands = <<>> \/ capture.commands[Len(capture.commands)].barrier \/ poisoned
  \/ IF scope.open THEN scope.pending ELSE capture.carried

\* A command of a tape asks for a barrier after it unless the next may run
\* beside it, or there is no next.
TapeInv ==
  /\ capture.live =>
       /\ Len(seen) = Len(capture.commands)
       /\ \A k \in 1 .. Len(capture.commands) - 1 : capture.commands[k].barrier
       /\ LastOwed
  /\ tape # <<>> =>
       /\ Len(seen) = Len(tape)
       /\ \A k \in 1 .. Len(tape) - 1 : tape[k].barrier \/ seen[k + 1].beside

\* A dispatch that nothing orders before the next one leaves word of it: with
\* the scope, with the batch, or on the tape that is being replayed.
OrderInv ==
  /\ scope.open => ~poisoned
  /\ ~scope.open /\ batch.open /\ bare => batch.pending
  /\ scope.open /\ bare =>
       \/ scope.pending
       \/ /\ Executing /\ ~exec.triage /\ exec.next \in 2 .. Len(tape)
          /\ ~tape[exec.next - 1].barrier
  /\ "unordered" \notin faults

\* A command on a tape has the arguments its dispatch had.
Recorded(commands) ==
  \A k \in 1 .. Len(commands), i \in Indices :
     seen[k].args[i] \in Raws \/ (seen[k].args[i] # None /\ commands[k].binds[i] = seen[k].args[i])

\* What the tape, the sticky table and the capture say is in the argument table.
ArgsInv ==
  /\ capture.live => Recorded(capture.commands)
  /\ tape # <<>> => Recorded(tape)
  /\ capture.live /\ scope.open /\ scope.bound =>
       \A i \in Indices : table[i] \in Raws \/ (table[i] # None /\ capture.binds[i] = table[i])
  /\ sticky # Empty => Executing /\ scope.open
  /\ \A i \in Indices : sticky[i] # None => table[i] = sticky[i]
  /\ "binds" \notin faults

IInv == TypeOK /\ ClaimInv /\ GuardInv /\ TapeInv /\ OrderInv /\ ArgsInv /\ LedgerHonest

-----------------------------------------------------------------------------
(* Commands.                                                               *)

LEMMA FunctionIsSeq ==
  ASSUME NEW S, NEW n \in Nat, NEW f \in [1 .. n -> S]
  PROVE  f \in Seq(S) /\ Len(f) = n
<1>1. \A k \in 1 .. n : f[k] \in S
  OBVIOUS
<1>2. [k \in 1 .. n |-> f[k]] \in Seq(S) /\ Len([k \in 1 .. n |-> f[k]]) = n
  BY <1>1
<1>3. f = [k \in 1 .. n |-> f[k]]
  OBVIOUS
<1> QED BY <1>2, <1>3

LEMMA MarkFacts ==
  ASSUME NEW commands \in Seq(Command)
  PROVE  /\ Mark(commands) \in Seq(Command) /\ Len(Mark(commands)) = Len(commands)
         /\ \A k \in 1 .. Len(commands) :
              /\ Mark(commands)[k].binds = commands[k].binds
              /\ Mark(commands)[k].barrier <=> k = Len(commands) \/ commands[k].barrier
<1>1. CASE commands = <<>>
  BY <1>1 DEF Mark
<1>2. CASE commands # <<>>
  <2> DEFINE n == Len(commands)
             last == [commands[n] EXCEPT !.barrier = TRUE]
  <2>1. n \in 1 .. Len(commands) /\ \A k \in 1 .. n : commands[k] \in Command
    BY <1>2, EmptySeq, ElementOfSeq, LenProperties
  <2>2. last \in Command /\ last.binds = commands[n].binds /\ last.barrier = TRUE
    BY <2>1 DEF Command
  <2>3. Mark(commands) = [commands EXCEPT ![n] = last]
    BY <1>2 DEF Mark
  <2> HIDE DEF n, last
  <2>4. /\ Mark(commands) \in Seq(Command) /\ Len(Mark(commands)) = Len(commands)
        /\ \A k \in 1 .. Len(commands) : Mark(commands)[k] = IF k = n THEN last ELSE commands[k]
    BY <2>1, <2>2, <2>3, ExceptSeq
  <2>5. ASSUME NEW k \in 1 .. Len(commands)
        PROVE  /\ Mark(commands)[k].binds = commands[k].binds
               /\ Mark(commands)[k].barrier <=> k = n \/ commands[k].barrier
    <3>1. CASE k = n
      BY <2>2, <2>4, <3>1
    <3>2. CASE k # n
      <4>1. commands[k].barrier \in BOOLEAN
        BY <2>1 DEF Command, n
      <4> QED BY <2>4, <3>2, <4>1
    <3> QED BY <3>1, <3>2
  <2> QED BY <2>4, <2>5 DEF n
<1> QED BY <1>1, <1>2

-----------------------------------------------------------------------------
(* Types.                                                                  *)

LEMMA BinderTypes ==
  ASSUME BinderTypeOK,
         \/ \E skip, carried \in BOOLEAN : Enter(skip, carried)
         \/ \E args \in [Indices -> Values] : Launch(args)
         \/ \E i \in Indices, v \in Values : Rebind(i, v)
         \/ Dispatch \/ Barrier \/ Leave \/ Fail \/ Synchronize \/ UNCHANGED binderVars
  PROVE  BinderTypeOK'
<1> USE ValuesAssumption DEF BinderTypeOK
<1>1. ASSUME NEW skip \in BOOLEAN, NEW carried \in BOOLEAN, Enter(skip, carried) PROVE BinderTypeOK'
  BY <1>1 DEF Enter
<1>2. ASSUME NEW args \in [Indices -> Values], Launch(args) PROVE BinderTypeOK'
  BY <1>2 DEF Launch
<1>3. ASSUME NEW i \in Indices, NEW v \in Values, Rebind(i, v) PROVE BinderTypeOK'
  BY <1>3 DEF Rebind
<1>4. CASE Dispatch
  BY <1>4 DEF Dispatch, EncodeDispatch, PendingAfter
<1>5. CASE Barrier
  BY <1>5 DEF Barrier
<1>6. CASE Leave
  <2>1. /\ scope' = NoScope /\ UNCHANGED <<table, poisoned, bare, faults, left>>
        /\ batch' = [batch EXCEPT !.pending = scope.pending] \/ batch' = Closed
    BY <1>6 DEF Leave
  <2>2. NoScope \in [open : BOOLEAN, skip : BOOLEAN, pending : BOOLEAN, bound : BOOLEAN]
    BY DEF NoScope
  <2>3. Closed \in [open : BOOLEAN, pending : BOOLEAN]
    BY DEF Closed
  <2> QED BY <2>1, <2>2, <2>3
<1>7. CASE Fail
  BY <1>7 DEF Fail, NoScope, Closed
<1>8. CASE Synchronize
  BY <1>8 DEF Synchronize, Closed
<1>9. CASE UNCHANGED binderVars
  BY <1>9 DEF binderVars
<1> QED BY <1>1, <1>2, <1>3, <1>4, <1>5, <1>6, <1>7, <1>8, <1>9

\* The fields of a capture change one at a time.
LEMMA CaptureTypes ==
  ASSUME TapeTypeOK, UNCHANGED <<tape, sticky, exec, nop, guards, cleared>>,
         seen' \in Seq(Seen), capture' \in
           [live : BOOLEAN, commands : Seq(Command),
            binds : [Indices -> Values \cup {None}], carried : BOOLEAN],
         Len(capture'.commands) <= MaxCommands
  PROVE  TapeTypeOK'
BY DEF TapeTypeOK

LEMMA LiveTypes == ASSUME TypeOK, LiveScope PROVE BinderTypeOK' /\ TapeTypeOK'
<1> USE ValuesAssumption, TapeAssumption, LedgerAssumption DEF TypeOK
<1> DEFINE T == [Indices -> Values \cup {None}]
<1>0. /\ capture \in [live : BOOLEAN, commands : Seq(Command), binds : T, carried : BOOLEAN]
      /\ seen \in Seq(Seen) /\ Len(capture.commands) <= MaxCommands
      /\ scope.pending \in BOOLEAN /\ scope.skip \in BOOLEAN /\ table \in T
  BY DEF TapeTypeOK, BinderTypeOK
<1>m. /\ Mark(capture.commands) \in Seq(Command)
      /\ Len(Mark(capture.commands)) = Len(capture.commands)
  BY <1>0, MarkFacts
<1>1. ASSUME NEW skip \in BOOLEAN, EnterScope(skip) PROVE BinderTypeOK' /\ TapeTypeOK'
  <2>1. PICK carried \in BOOLEAN : Enter(skip, carried)
    BY <1>0, <1>1 DEF EnterScope
  <2>2. capture' = capture \/ capture' = [capture EXCEPT !.carried = FALSE]
    BY <1>1 DEF EnterScope
  <2>3. TapeTypeOK'
    BY <1>0, <1>1, <2>2, CaptureTypes DEF EnterScope, UnchangedButCapture
  <2> QED BY <2>1, <2>3, BinderTypes
<1>2. ASSUME NEW args \in IF capture.live THEN Args ELSE {Plain}, LaunchScope(args)
      PROVE  BinderTypeOK' /\ TapeTypeOK'
  <2>1. args \in [Indices -> Values]
    <3>1. Plain \in Args
      <4>1. Args # {}
        OBVIOUS
      <4> QED BY <4>1 DEF Plain
    <3> QED BY <3>1
  <2>2. Recordable(args) \in T
    BY <2>1 DEF Recordable
  <2>3. capture' = capture \/ capture' = [capture EXCEPT !.binds = Recordable(args)]
    BY <1>2 DEF LaunchScope
  <2>4. TapeTypeOK'
    BY <1>0, <1>2, <2>2, <2>3, CaptureTypes DEF LaunchScope, UnchangedButCapture
  <2> QED BY <1>2, <2>1, <2>4, BinderTypes DEF LaunchScope
<1>3. ASSUME NEW bind \in Rebinds, RebindScope(bind[1], bind[2])
      PROVE  BinderTypeOK' /\ TapeTypeOK'
  <2>1. PICK i \in Indices, v \in Values : i = bind[1] /\ v = bind[2]
    OBVIOUS
  <2>2. RebindScope(i, v)
    BY <1>3, <2>1
  <2>3. \E b \in T : capture' = [capture EXCEPT !.binds = b]
    <3>1. CASE capture.live
      <4> DEFINE b == [capture.binds EXCEPT ![i] = IF v \in Raws THEN @ ELSE v]
      <4>1. b \in T /\ capture' = [capture EXCEPT !.binds = b]
        BY <1>0, <2>2, <3>1 DEF RebindScope
      <4> QED BY <4>1
    <3>2. CASE ~capture.live
      <4>1. capture' = [capture EXCEPT !.binds = capture.binds]
        BY <1>0, <2>2, <3>2 DEF RebindScope
      <4> QED BY <1>0, <4>1
    <3> QED BY <3>1, <3>2
  <2>4. TapeTypeOK'
    BY <1>0, <2>2, <2>3, CaptureTypes DEF RebindScope, UnchangedButCapture
  <2> QED BY <2>2, <2>4, BinderTypes DEF RebindScope
<1>4. CASE DispatchScope
  <2> DEFINE new == [binds |-> capture.binds, barrier |-> ~scope.skip]
             c == IF scope.pending THEN Mark(capture.commands) ELSE capture.commands
  <2>1. new \in Command /\ c \in Seq(Command) /\ Len(c) = Len(capture.commands)
    BY <1>0, <1>m DEF Command
  <2>2. Append(c, new) \in Seq(Command) /\ Len(Append(c, new)) = Len(capture.commands) + 1
    BY <2>1, AppendProperties
  <2>3. [args |-> table, beside |-> FALSE] \in Seen
    BY <1>0 DEF Seen
  <2>4. seen' \in Seq(Seen)
    <3>1. seen' = seen \/ seen' = Append(seen, [args |-> table, beside |-> FALSE])
      BY <1>4 DEF DispatchScope
    <3>2. Append(seen, [args |-> table, beside |-> FALSE]) \in Seq(Seen)
      BY <1>0, <2>3, AppendProperties
    <3> QED BY <1>0, <3>1, <3>2
  <2>5. capture' = capture \/ capture' = [capture EXCEPT !.commands = Append(c, new)]
    BY <1>4 DEF DispatchScope
  <2>6. Len(capture.commands) < MaxCommands /\ Len(capture.commands) \in Nat
    BY <1>0, <1>4, LenProperties DEF DispatchScope
  <2> HIDE DEF c, new
  <2>7. /\ capture' \in [live : BOOLEAN, commands : Seq(Command), binds : T, carried : BOOLEAN]
        /\ Len(capture'.commands) <= MaxCommands
    <3>1. CASE capture' = capture
      BY <1>0, <3>1
    <3>2. CASE capture' = [capture EXCEPT !.commands = Append(c, new)]
      <4>1. capture'.commands = Append(c, new) /\ capture' \in
              [live : BOOLEAN, commands : Seq(Command), binds : T, carried : BOOLEAN]
        BY <1>0, <2>2, <3>2
      <4> QED BY <2>2, <2>6, <4>1
    <3> QED BY <2>5, <3>1, <3>2
  <2>8. TapeTypeOK'
    BY <1>4, <2>4, <2>7, CaptureTypes DEF DispatchScope, UnchangedButCapture
  <2> QED BY <1>4, <2>8, BinderTypes DEF DispatchScope
<1>5. CASE BarrierScope
  <2>1. capture' = capture \/ capture' = [capture EXCEPT !.commands = Mark(capture.commands)]
    BY <1>5 DEF BarrierScope
  <2>2. TapeTypeOK'
    BY <1>0, <1>m, <1>5, <2>1, CaptureTypes DEF BarrierScope, UnchangedButCapture
  <2> QED BY <1>5, <2>2, BinderTypes DEF BarrierScope
<1>6. CASE LeaveScope
  <2>1. capture' = capture \/ capture' = [capture EXCEPT !.carried = scope.pending]
    BY <1>6 DEF LeaveScope
  <2>2. TapeTypeOK'
    BY <1>0, <1>6, <2>1, CaptureTypes DEF LeaveScope, UnchangedButCapture
  <2> QED BY <1>6, <2>2, BinderTypes DEF LeaveScope
<1>7. CASE FailScope
  <2>1. TapeTypeOK'
    BY <1>7 DEF FailScope, tapeVars, TapeTypeOK
  <2> QED BY <1>7, <2>1, BinderTypes DEF FailScope
<1> QED BY <1>1, <1>2, <1>3, <1>4, <1>5, <1>6, <1>7 DEF LiveScope

\* The tape, the switch and the execute, between the scopes.
LEMMA TapeTypes ==
  ASSUME TypeOK, ClaimInv,
         \/ BeginCapture \/ EndCapture \/ TakeCapture \/ \E marked \in BOOLEAN : BuildTape(marked)
         \/ EnterGuard \/ DropGuard \/ ClearNop
  PROVE  TapeTypeOK'
<1> USE TapeAssumption DEF TypeOK, TapeTypeOK
<1>e. <<>> \in Seq(Seen) /\ <<>> \in Seq(Command) /\ Len(<<>>) = 0
  BY EmptySeq
<1>n. NoCapture \in [live : BOOLEAN, commands : Seq(Command),
                     binds : [Indices -> Values \cup {None}], carried : BOOLEAN]
  <2>1. Empty \in [Indices -> Values \cup {None}]
    BY DEF Empty
  <2> QED BY <1>e, <2>1 DEF NoCapture
<1>1. CASE BeginCapture
  <2>1. /\ capture' \in [live : BOOLEAN, commands : Seq(Command),
                         binds : [Indices -> Values \cup {None}], carried : BOOLEAN]
        /\ capture'.commands = <<>>
    BY <1>1, <1>n DEF BeginCapture, NoCapture
  <2> QED BY <1>1, <1>e, <2>1 DEF BeginCapture
<1>2. CASE EndCapture
  <2>1. NoCapture.commands = <<>>
    BY DEF NoCapture
  <2> QED BY <1>2, <1>e, <1>n, <2>1 DEF EndCapture
<1>3. CASE TakeCapture
  <2>1. NoCapture.commands = <<>>
    BY DEF NoCapture
  <2>2. tape' \in Seq(Command) /\ Len(tape') <= MaxCommands
    BY <1>3 DEF TakeCapture
  <2> QED BY <1>3, <1>e, <1>n, <2>1, <2>2 DEF TakeCapture
<1>4. ASSUME NEW marked \in BOOLEAN, BuildTape(marked) PROVE TapeTypeOK'
  <2>1. PICK args \in [1 .. 2 -> Built] :
          /\ tape' = [k \in 1 .. 2 |-> [binds |-> args[k], barrier |-> k = 1 /\ marked]]
          /\ seen' = [k \in 1 .. 2 |-> [args |-> args[k], beside |-> k = 2 /\ ~marked]]
    BY <1>4 DEF BuildTape
  <2>2. \A k \in 1 .. 2 : args[k] \in [Indices -> Values \cup {None}]
    BY DEF Values
  <2>3. tape' \in [1 .. 2 -> Command] /\ seen' \in [1 .. 2 -> Seen]
    BY <2>1, <2>2 DEF Command, Seen
  <2>4. tape' \in Seq(Command) /\ seen' \in Seq(Seen) /\ Len(tape') = 2
    <3> HIDE DEF TypeOK, TapeTypeOK
    <3>1. tape' \in Seq(Command) /\ Len(tape') = 2
      BY <2>3, FunctionIsSeq
    <3>2. seen' \in Seq(Seen)
      BY <2>3, FunctionIsSeq
    <3> QED BY <3>1, <3>2
  <2>5. UNCHANGED <<capture, sticky, exec, nop, guards, cleared>>
    BY <1>4 DEF BuildTape
  <2>6. Len(tape') <= MaxCommands
    BY <2>4
  <2> QED BY <2>4, <2>5, <2>6
<1>5. CASE EnterGuard
  <2>1. Append(guards, nop) \in Seq(BOOLEAN) /\ Len(Append(guards, nop)) = Len(guards) + 1
    BY AppendProperties
  <2>2. Len(guards) < MaxGuards /\ Len(guards) \in Nat
    BY <1>5, LenProperties DEF EnterGuard
  <2> QED BY <1>5, <2>1, <2>2 DEF EnterGuard
<1>6. CASE DropGuard
  <2>1. Len(guards) \in Nat \ {0} /\ \A i \in 1 .. Len(guards) : guards[i] \in BOOLEAN
    BY <1>6, EmptySeq, ElementOfSeq DEF DropGuard
  <2>2. /\ SubSeq(guards, 1, Len(guards) - 1) \in Seq(BOOLEAN)
        /\ Len(SubSeq(guards, 1, Len(guards) - 1)) = Len(guards) - 1
    <3>1. Len(guards) - 1 \in Int /\ \A i \in 1 .. Len(guards) - 1 : guards[i] \in BOOLEAN
      BY <2>1
    <3> HIDE DEF TypeOK, TapeTypeOK
    <3>2. Len(guards) - 1 >= 1 \/ Len(guards) - 1 = 0
      BY <2>1
    <3> QED BY <3>1, <3>2, SubSeqProperties
  <2> QED BY <1>6, <2>1, <2>2 DEF DropGuard, Restored
<1>7. CASE ClearNop
  BY <1>7 DEF ClearNop
<1> QED BY <1>1, <1>2, <1>3, <1>4, <1>5, <1>6, <1>7

LEMMA ExecTypes ==
  ASSUME TypeOK, ClaimInv, Exec
  PROVE  BinderTypeOK' /\ TapeTypeOK'
<1> USE ValuesAssumption, TapeAssumption DEF TypeOK
<1> DEFINE T == [Indices -> Values \cup {None}]
<1>e. Empty \in T
  BY DEF Empty
<1>1. CASE ExecEnter
  BY <1>1, BinderTypes DEF ExecEnter, tapeVars, TapeTypeOK
<1>2. CASE ExecCommand
  <2> DEFINE k == exec.next
  <2>1. k \in 1 .. Len(tape) /\ tape[k] \in Command /\ Len(tape) <= MaxCommands /\ Len(tape) \in Nat
    BY <1>2, ElementOfSeq, LenProperties DEF ExecCommand, TapeTypeOK, ClaimInv
  <2>2. tape[k].binds \in T /\ tape[k].barrier \in BOOLEAN
    BY <2>1 DEF Command
  <2>3. sticky' \in T
    <3>1. sticky' = sticky \/ sticky' = StickyAfter(tape[k].binds)
      BY <1>2 DEF ExecCommand
    <3>2. StickyAfter(tape[k].binds) \in T
      BY <2>2 DEF StickyAfter, TapeTypeOK
    <3> QED BY <3>1, <3>2 DEF TapeTypeOK
  <2>4. table' \in T
    <3>1. table' = table \/ table' = Set(tape[k].binds)
      BY <1>2 DEF ExecCommand, Arguments
    <3>2. Set(tape[k].binds) \in T
      BY <2>2 DEF Set, BinderTypeOK
    <3> QED BY <3>1, <3>2 DEF BinderTypeOK
  <2>5. faults' \subseteq {"unordered", "binds", "step"}
    BY <1>2 DEF ExecCommand, Wrong, BinderTypeOK
  <2>6. PICK p \in BOOLEAN : scope' = [scope EXCEPT !.bound = TRUE, !.pending = p]
    BY <1>2 DEF ExecCommand
  <2>7. exec' \in [next : 0 .. MaxCommands + 1, triage : BOOLEAN, prebuilt : BOOLEAN]
    <3>1. exec' = [exec EXCEPT !.next = k + 1] /\ k + 1 \in 0 .. MaxCommands + 1
      BY <1>2, <2>1 DEF ExecCommand
    <3>2. exec \in [next : 0 .. MaxCommands + 1, triage : BOOLEAN, prebuilt : BOOLEAN]
      BY DEF TapeTypeOK
    <3> HIDE DEF k
    <3> QED BY <3>1, <3>2
  <2>8. bare' \in BOOLEAN
    BY <1>2, <2>2 DEF ExecCommand
  <2>9. UNCHANGED <<batch, poisoned, left, capture, tape, seen, nop, guards, cleared>>
    BY <1>2 DEF ExecCommand
  <2>10. BinderTypeOK'
    BY <2>4, <2>5, <2>6, <2>8, <2>9 DEF BinderTypeOK
  <2> QED BY <2>3, <2>7, <2>9, <2>10 DEF TapeTypeOK
<1>3. CASE ExecLeave
  BY <1>3, <1>e, BinderTypes DEF ExecLeave, TapeTypeOK
<1> QED BY <1>1, <1>2, <1>3 DEF Exec

LedgerTypeOK ==
  /\ slotPhase \in [Slots -> {"idle", "recording", "ready", "inflight"}]
  /\ active \in Slots /\ claimed \in Slots \cup {None}
  /\ replays \in 0 .. MaxReplays /\ failures \in 0 .. MaxReplays
  /\ submitted \subseteq Slots /\ tries \in 0 .. MaxReplays

LEMMA TypeStep == ASSUME TypeOK, ClaimInv, [Next]_vars PROVE TypeOK'
<1>0. TypeOK <=> BinderTypeOK /\ TapeTypeOK /\ LedgerTypeOK
  BY DEF TypeOK, LedgerTypeOK
<1>p. TypeOK' <=> BinderTypeOK' /\ TapeTypeOK' /\ LedgerTypeOK'
  BY DEF TypeOK, LedgerTypeOK
<1>b. ASSUME UNCHANGED binderVars PROVE BinderTypeOK'
  BY <1>0, <1>b DEF binderVars, BinderTypeOK
<1>t. ASSUME UNCHANGED tapeVars PROVE TapeTypeOK'
  BY <1>0, <1>t DEF tapeVars, TapeTypeOK
<1>l. ASSUME UNCHANGED ledgerVars PROVE LedgerTypeOK'
  BY <1>0, <1>l DEF ledgerVars, LedgerTypeOK
<1>1. CASE LiveScope /\ UNCHANGED ledgerVars
  BY <1>1, <1>l, <1>p, LiveTypes
<1>2. CASE Synchronize /\ UNCHANGED <<tapeVars, ledgerVars>>
  BY <1>2, <1>0, <1>l, <1>t, <1>p, BinderTypes
<1>3. CASE (Capture \/ EnterGuard \/ DropGuard \/ ClearNop) /\ UNCHANGED <<binderVars, ledgerVars>>
  BY <1>3, <1>l, <1>b, <1>p, TapeTypes DEF Capture
<1>4. CASE Exec /\ UNCHANGED ledgerVars
  BY <1>4, <1>l, <1>p, ExecTypes
<1> USE LedgerAssumption DEF LedgerTypeOK, ClaimInv, Slots
<1>5. ASSUME NEW s \in Slots, BeginRecord(s) \/ FinishRecord(s) \/ GpuComplete(s) PROVE TypeOK'
  <2>1. UNCHANGED <<binderVars, tapeVars>>
    BY <1>5 DEF BeginRecord, FinishRecord, GpuComplete, UnchangedButLedger
  <2>2. LedgerTypeOK'
    BY <1>0, <1>5 DEF BeginRecord, FinishRecord, GpuComplete
  <2> QED BY <1>b, <1>t, <1>p, <2>1, <2>2
<1>6. CASE MarkStep
  <2>1. /\ LedgerTypeOK' /\ UNCHANGED tapeVars
        /\ UNCHANGED <<scope, batch, table, poisoned, bare, left>>
        /\ faults' = faults \/ faults' = faults \cup {"step"}
    BY <1>0, <1>6 DEF MarkStep, Peer
  <2>2. BinderTypeOK'
    BY <1>0, <2>1 DEF BinderTypeOK
  <2> QED BY <1>t, <1>p, <2>1, <2>2
<1>7. ASSUME NEW s \in Slots, ReplayNop(s) PROVE TypeOK'
  <2>1. UNCHANGED <<binderVars, tapeVars>>
    BY <1>7 DEF ReplayNop, UnchangedButLedger
  <2>2. LedgerTypeOK'
    BY <1>0, <1>7 DEF ReplayNop, Replaying, Free
  <2> QED BY <1>b, <1>t, <1>p, <2>1, <2>2
<1>8. ASSUME NEW s \in Slots, ReplayStart(s) PROVE TypeOK'
  <2>1. UNCHANGED <<binderVars, capture, tape, seen, sticky, nop, guards, cleared>>
    BY <1>8 DEF ReplayStart
  <2>2. LedgerTypeOK'
    BY <1>0, <1>8 DEF ReplayStart, Replaying, Free
  <2>3. PICK triage, prebuilt \in BOOLEAN :
          exec' = [next |-> 1, triage |-> triage, prebuilt |-> prebuilt]
    BY <1>8 DEF ReplayStart
  <2>4. TapeTypeOK'
    BY <1>0, <2>1, <2>3, TapeAssumption DEF TapeTypeOK
  <2> QED BY <1>b, <1>p, <2>1, <2>2, <2>4
<1>9. CASE ExecDone
  <2>1. /\ UNCHANGED <<binderVars, capture, tape, seen, sticky, nop, guards, cleared>>
        /\ exec' = Idle
    BY <1>9 DEF ExecDone
  <2>2. LedgerTypeOK'
    BY <1>0, <1>9 DEF ExecDone
  <2>3. TapeTypeOK'
    BY <1>0, <2>1, TapeAssumption DEF TapeTypeOK, Idle
  <2> QED BY <1>b, <1>p, <2>1, <2>2, <2>3
<1>10. CASE ExecRefused \/ ExecFails
  <2>1. /\ UNCHANGED <<capture, tape, seen, nop, guards, cleared>>
        /\ exec' = Idle /\ sticky' = Empty
    BY <1>10 DEF ExecRefused, ExecFails, RollBack
  <2>2. LedgerTypeOK'
    BY <1>0, <1>10 DEF ExecRefused, ExecFails, RollBack
  <2>3. TapeTypeOK'
    BY <1>0, <2>1, TapeAssumption DEF TapeTypeOK, Idle, Empty
  <2>4. BinderTypeOK'
    BY <1>0, <1>10, BinderTypes DEF ExecRefused, ExecFails
  <2> QED BY <1>p, <2>2, <2>3, <2>4
<1>11. CASE UNCHANGED vars
  <2>1. UNCHANGED <<binderVars, tapeVars, ledgerVars>>
    BY <1>11 DEF vars, binderVars, tapeVars, ledgerVars
  <2> QED BY <2>1, <1>b, <1>t, <1>l, <1>p
<1> QED BY <1>1, <1>2, <1>3, <1>4, <1>5, <1>6, <1>7, <1>8, <1>9, <1>10, <1>11 DEF Next

-----------------------------------------------------------------------------
(* The claim, the switch and the ledger.                                   *)

LEMMA LiveFrame ==
  ASSUME TypeOK, LiveScope
  PROVE  /\ UNCHANGED <<tape, sticky, exec, nop, guards, cleared>>
         /\ capture'.live = capture.live /\ ~Executing
         /\ "step" \in faults' => "step" \in faults
<1> USE DEF TypeOK, TapeTypeOK
<1>1. ASSUME NEW skip \in BOOLEAN, EnterScope(skip)
      PROVE  /\ UNCHANGED <<tape, sticky, exec, nop, guards, cleared, faults>>
             /\ capture'.live = capture.live /\ ~Executing
  BY <1>1 DEF EnterScope, Enter, UnchangedButCapture
<1>2. ASSUME NEW args, LaunchScope(args)
      PROVE  /\ UNCHANGED <<tape, sticky, exec, nop, guards, cleared, faults>>
             /\ capture'.live = capture.live /\ ~Executing
  BY <1>2 DEF LaunchScope, Launch, UnchangedButCapture
<1>3. ASSUME NEW bind \in Rebinds, RebindScope(bind[1], bind[2])
      PROVE  /\ UNCHANGED <<tape, sticky, exec, nop, guards, cleared, faults>>
             /\ capture'.live = capture.live /\ ~Executing
  BY <1>3 DEF RebindScope, Rebind, UnchangedButCapture
<1>4. CASE DispatchScope
  BY <1>4 DEF DispatchScope, Dispatch, EncodeDispatch, UnchangedButCapture
<1>5. CASE BarrierScope
  BY <1>5 DEF BarrierScope, Barrier, UnchangedButCapture
<1>6. CASE LeaveScope
  BY <1>6 DEF LeaveScope, Leave, UnchangedButCapture
<1>7. CASE FailScope
  BY <1>7 DEF FailScope, Fail, tapeVars
<1> QED BY <1>1, <1>2, <1>3, <1>4, <1>5, <1>6, <1>7 DEF LiveScope

LEMMA ClaimStep == ASSUME TypeOK, ClaimInv, [Next]_vars PROVE ClaimInv'
<1> USE DEF ClaimInv, Executing
<1>t. /\ Len(tape) \in Nat /\ replays \in Nat /\ failures \in Nat /\ tries \in Nat /\ MaxReplays \in Nat
      /\ claimed \in {"A", "B", None} /\ exec.next \in Nat
  BY LenProperties, LedgerAssumption, TapeAssumption DEF TypeOK, TapeTypeOK, Slots
<1>1. CASE LiveScope /\ UNCHANGED ledgerVars
  BY <1>1, LiveFrame DEF ledgerVars
<1>2. CASE Synchronize /\ UNCHANGED <<tapeVars, ledgerVars>>
  BY <1>2 DEF tapeVars, ledgerVars
<1>3. CASE (Capture \/ EnterGuard \/ DropGuard \/ ClearNop) /\ UNCHANGED <<binderVars, ledgerVars>>
  <2>1. UNCHANGED <<exec, claimed, replays, failures, tries>>
    BY <1>3 DEF Capture, BeginCapture, EndCapture, TakeCapture, BuildTape, EnterGuard, DropGuard,
               ClearNop, ledgerVars
  <2>2. Executing => tape' = tape
    BY <1>3 DEF Capture, BeginCapture, EndCapture, TakeCapture, BuildTape, EnterGuard, DropGuard,
               ClearNop
  <2>3. capture'.live => tape' = <<>>
    BY <1>3 DEF Capture, BeginCapture, EndCapture, TakeCapture, BuildTape, EnterGuard, DropGuard,
               ClearNop, NoCapture
  <2> QED BY <2>1, <2>2, <2>3
<1>4. CASE Exec /\ UNCHANGED ledgerVars
  <2>1. CASE ExecEnter \/ ExecLeave
    BY <1>4, <2>1 DEF ExecEnter, ExecLeave, tapeVars, ledgerVars
  <2>2. CASE ExecCommand
    <3>1. /\ exec.next <= Len(tape) /\ exec'.next = exec.next + 1
          /\ UNCHANGED <<capture, tape>> /\ Executing
      BY <2>2 DEF ExecCommand, TypeOK, TapeTypeOK
    <3>2. exec'.next \in 1 .. Len(tape) + 1
      BY <1>t, <3>1
    <3>3. Executing'
      BY <3>2 DEF Idle
    <3> QED BY <1>4, <3>1, <3>2, <3>3 DEF ledgerVars
  <2> QED BY <1>4, <2>1, <2>2 DEF Exec
<1>5. CASE MarkStep \/ \E s \in Slots : BeginRecord(s) \/ FinishRecord(s) \/ GpuComplete(s)
  BY <1>5 DEF BeginRecord, FinishRecord, GpuComplete, MarkStep, UnchangedButLedger, tapeVars
<1>6. ASSUME NEW s \in Slots, ReplayNop(s) PROVE ClaimInv'
  <2>1. /\ UNCHANGED tapeVars /\ claimed' = claimed /\ replays' = replays /\ tries' = tries - 1
        /\ claimed = None /\ (failures' = failures \/ failures' = failures + 1)
    BY <1>6 DEF ReplayNop, Replaying, Free, UnchangedButLedger
  <2> QED BY <1>t, <2>1 DEF tapeVars
<1>7. ASSUME NEW s \in Slots, ReplayStart(s) PROVE ClaimInv'
  <2>1. /\ UNCHANGED <<capture, tape, replays, failures>> /\ claimed = None /\ claimed' = s
        /\ tries' = tries - 1 /\ tape # <<>>
    BY <1>7 DEF ReplayStart, Replaying, Free
  <2>2. exec'.next = 1
    BY <1>7 DEF ReplayStart
  <2>3. Executing' /\ exec'.next \in 1 .. Len(tape) + 1
    BY <1>t, <2>2 DEF Idle
  <2>4. s # None
    BY DEF Slots, None
  <2> QED BY <1>t, <2>1, <2>3, <2>4
<1>8. CASE ExecDone \/ ExecRefused \/ ExecFails
  <2>1. /\ UNCHANGED <<capture, tape, tries>> /\ exec' = Idle /\ claimed' = None /\ claimed # None
        /\ \/ replays' = replays + 1 /\ failures' = failures
           \/ replays' = replays /\ failures' = failures + 1
    BY <1>8 DEF ExecDone, ExecRefused, ExecFails, RollBack
  <2> QED BY <1>t, <2>1
<1>9. CASE UNCHANGED vars
  BY <1>9 DEF vars
<1> QED BY <1>1, <1>2, <1>3, <1>4, <1>5, <1>6, <1>7, <1>8, <1>9 DEF Next

LEMMA GuardStep == ASSUME TypeOK, GuardInv, [Next]_vars PROVE GuardInv'
<1> USE DEF GuardInv
<1>t. /\ guards \in Seq(BOOLEAN) /\ Len(guards) \in Nat /\ nop \in BOOLEAN /\ cleared \in BOOLEAN
      /\ (guards = <<>> <=> Len(guards) = 0)
  BY LenProperties, EmptySeq DEF TypeOK, TapeTypeOK
<1>1. CASE EnterGuard
  <2>1. guards' = Append(guards, nop) /\ nop' = TRUE /\ cleared' = cleared
    BY <1>1 DEF EnterGuard
  <2>2. /\ guards' # <<>> /\ Len(guards') = Len(guards) + 1
        /\ \A k \in 1 .. Len(guards) : guards'[k] = guards[k]
        /\ guards'[Len(guards) + 1] = nop
    BY <1>t, <2>1, AppendProperties
  <2> QED BY <1>t, <2>1, <2>2
<1>2. CASE DropGuard
  <2>1. /\ guards # <<>> /\ guards' = SubSeq(guards, 1, Len(guards) - 1)
        /\ nop' = guards[Len(guards)] /\ cleared' = (cleared /\ Len(guards) > 1)
    BY <1>2 DEF DropGuard, Restored
  <2>2. Len(guards) - 1 \in Nat /\ \A k \in 1 .. Len(guards) : guards[k] \in BOOLEAN
    BY <1>t, <2>1, ElementOfSeq
  <2>3. /\ guards' \in Seq(BOOLEAN) /\ Len(guards') = Len(guards) - 1
        /\ \A k \in 1 .. Len(guards) - 1 : guards'[k] = guards[k]
    <3> HIDE DEF GuardInv
    <3>1. Len(guards) - 1 >= 1 \/ Len(guards) - 1 = 0
      BY <2>2
    <3>2. ASSUME NEW k \in 1 .. Len(guards) - 1 PROVE guards[k] \in BOOLEAN
      <4>1. k \in 1 .. Len(guards)
        BY <2>2
      <4> QED BY <2>2, <4>1
    <3> QED BY <2>1, <2>2, <3>1, <3>2, SubSeqProperties
  <2>4. guards' = <<>> <=> Len(guards) = 1
    BY <2>2, <2>3, EmptySeq
  <2>5. CASE Len(guards) = 1
    BY <2>1, <2>2, <2>3, <2>4, <2>5
  <2>6. CASE Len(guards) > 1
    <3>1. cleared' = cleared /\ guards' # <<>>
      BY <1>t, <2>1, <2>4, <2>6
    <3>2. ~cleared => guards[Len(guards)]
      BY <2>2, <2>6
    <3> QED BY <1>t, <2>1, <2>2, <2>3, <3>1, <3>2
  <2> QED BY <1>t, <2>1, <2>2, <2>5, <2>6
<1>3. CASE ClearNop
  BY <1>3, <1>t DEF ClearNop
<1>4. CASE UNCHANGED <<nop, guards, cleared>>
  BY <1>4
<1>5. CASE Capture \/ Exec \/ MarkStep \/ ExecDone \/ ExecRefused \/ ExecFails \/ UNCHANGED tapeVars
  BY <1>4, <1>5 DEF Capture, BeginCapture, EndCapture, TakeCapture, BuildTape, Exec, ExecEnter,
     ExecCommand, ExecLeave, MarkStep, ExecDone, ExecRefused, ExecFails, RollBack, tapeVars
<1>6. ASSUME NEW s \in Slots, \/ BeginRecord(s) \/ FinishRecord(s) \/ GpuComplete(s)
                              \/ ReplayNop(s) \/ ReplayStart(s)
      PROVE  GuardInv'
  BY <1>4, <1>6 DEF BeginRecord, FinishRecord, GpuComplete, ReplayNop, ReplayStart,
     UnchangedButLedger, tapeVars
<1>7. CASE LiveScope
  BY <1>4, <1>7, LiveFrame
<1>8. CASE UNCHANGED vars
  BY <1>4, <1>8 DEF vars
<1> QED BY <1>1, <1>2, <1>3, <1>5, <1>6, <1>7, <1>8 DEF Next

LEMMA LedgerStep == ASSUME TypeOK, ClaimInv, LedgerHonest, [Next]_vars PROVE LedgerHonest'
<1> USE DEF LedgerHonest
<1>t. LedgerTypeOK /\ \A s \in Slots : s # None
  BY DEF TypeOK, LedgerTypeOK, Slots, None
<1>1. CASE LiveScope /\ UNCHANGED ledgerVars
  BY <1>1, LiveFrame DEF ledgerVars
<1>2. CASE Synchronize /\ UNCHANGED <<tapeVars, ledgerVars>>
  BY <1>2 DEF Synchronize, ledgerVars
<1>3. CASE UNCHANGED <<binderVars, ledgerVars>>
  BY <1>3 DEF binderVars, ledgerVars
<1>4. CASE Exec /\ UNCHANGED ledgerVars
  <2>1. "step" \notin faults'
    BY <1>4 DEF Exec, ExecEnter, Enter, ExecLeave, Leave, ExecCommand, Wrong
  <2> QED BY <1>4, <2>1 DEF ledgerVars
<1>5. ASSUME NEW s \in Slots, BeginRecord(s) \/ FinishRecord(s) \/ GpuComplete(s) \/ ReplayNop(s)
      PROVE  LedgerHonest'
  BY <1>t, <1>5 DEF BeginRecord, FinishRecord, GpuComplete, ReplayNop, UnchangedButLedger, binderVars,
     LedgerTypeOK
<1>6. CASE MarkStep
  <2>1. slotPhase[active] \in Markable
    BY <1>t DEF LedgerTypeOK, Markable
  <2> QED BY <1>t, <1>6, <2>1 DEF MarkStep, LedgerTypeOK
<1>7. ASSUME NEW s \in Slots, ReplayStart(s) PROVE LedgerHonest'
  BY <1>t, <1>7 DEF ReplayStart, Replaying, Free, binderVars, LedgerTypeOK
<1>8. CASE ExecDone
  BY <1>t, <1>8 DEF ExecDone, binderVars, LedgerTypeOK
<1>9. CASE ExecRefused \/ ExecFails
  <2>1. /\ slotPhase' = [slotPhase EXCEPT ![claimed] = "ready"] /\ submitted' = submitted
        /\ faults' = faults
    BY <1>9 DEF ExecRefused, ExecFails, Fail, RollBack, binderVars
  <2> QED BY <1>t, <2>1 DEF LedgerTypeOK
<1>10. CASE UNCHANGED vars
  BY <1>10 DEF vars
<1> QED BY <1>1, <1>2, <1>3, <1>4, <1>5, <1>6, <1>7, <1>8, <1>9, <1>10 DEF Next

-----------------------------------------------------------------------------
(* The barriers of a tape.                                                 *)

Types ==
  /\ scope \in [open : BOOLEAN, skip : BOOLEAN, pending : BOOLEAN, bound : BOOLEAN]
  /\ batch \in [open : BOOLEAN, pending : BOOLEAN]
  /\ bare \in BOOLEAN /\ poisoned \in BOOLEAN
  /\ capture \in [live : BOOLEAN, commands : Seq(Command),
                  binds : [Indices -> Values \cup {None}], carried : BOOLEAN]
  /\ tape \in Seq(Command) /\ seen \in Seq(Seen)
  /\ Len(tape) \in Nat /\ Len(seen) \in Nat /\ Len(capture.commands) \in Nat
  /\ (tape = <<>> <=> Len(tape) = 0) /\ (capture.commands = <<>> <=> Len(capture.commands) = 0)
  /\ exec \in [next : Nat, triage : BOOLEAN, prebuilt : BOOLEAN]

LEMMA TypesHold == TypeOK => Types
BY TapeAssumption, LenProperties, EmptySeq DEF TypeOK, TapeTypeOK, BinderTypeOK, Types

\* Every step outside scopes, captures and execute leaves them all alone.
LEMMA LedgerFrame ==
  ASSUME \/ MarkStep \/ UNCHANGED vars
         \/ \E s \in Slots : BeginRecord(s) \/ FinishRecord(s) \/ GpuComplete(s) \/ ReplayNop(s)
         \/ (EnterGuard \/ DropGuard \/ ClearNop) /\ UNCHANGED <<binderVars, ledgerVars>>
  PROVE  /\ UNCHANGED <<scope, batch, table, poisoned, bare, capture, tape, seen, sticky, exec>>
         /\ faults' \in {faults, faults \cup {"step"}}
BY DEF MarkStep, BeginRecord, FinishRecord, GpuComplete, ReplayNop, UnchangedButLedger, EnterGuard,
   DropGuard, ClearNop, binderVars, tapeVars, vars

LEMMA TapeStep == ASSUME TypeOK, ClaimInv, TapeInv, OrderInv, [Next]_vars PROVE TapeInv'
<1>t. Types
  BY TypesHold
<1>a. ASSUME ~capture'.live, UNCHANGED <<tape, seen>> PROVE TapeInv'
  BY <1>a DEF TapeInv
<1>b. ASSUME UNCHANGED <<tape, seen, capture>>,
             capture.live => scope' = scope /\ poisoned' = poisoned
      PROVE  TapeInv'
  BY <1>b DEF TapeInv, LastOwed
<1>c. ASSUME capture.live, tape' = tape, Len(seen') = Len(capture'.commands),
             \A k \in 1 .. Len(capture'.commands) - 1 : capture'.commands[k].barrier, LastOwed'
      PROVE  TapeInv'
  BY <1>c DEF TapeInv, ClaimInv
<1>d. ASSUME capture.live, UNCHANGED <<tape, seen>>, capture'.commands = capture.commands, LastOwed'
      PROVE  TapeInv'
  BY <1>c, <1>d DEF TapeInv
<1>o. capture.live => LastOwed
  BY DEF TapeInv
<1>1. ASSUME NEW skip \in BOOLEAN, EnterScope(skip) PROVE TapeInv'
  <2>1. CASE capture.live
    <3>1. /\ ~scope.open /\ scope'.open /\ poisoned' = poisoned
          /\ capture.carried => scope'.pending
          /\ capture'.commands = capture.commands
      BY <1>1, <1>t, <2>1 DEF EnterScope, Enter, Types
    <3>2. LastOwed'
      BY <1>o, <2>1, <3>1 DEF LastOwed
    <3> QED BY <1>1, <1>d, <2>1, <3>1, <3>2 DEF EnterScope, UnchangedButCapture
  <2>2. CASE ~capture.live
    BY <1>1, <1>b, <2>2 DEF EnterScope, UnchangedButCapture
  <2> QED BY <2>1, <2>2
<1>2. ASSUME \/ \E args \in IF capture.live THEN Args ELSE {Plain} : LaunchScope(args)
             \/ \E bind \in Rebinds : RebindScope(bind[1], bind[2])
      PROVE  TapeInv'
  <2>1. /\ UNCHANGED <<tape, seen, poisoned>> /\ scope.open /\ scope'.open
        /\ scope'.pending = scope.pending /\ capture'.commands = capture.commands
        /\ capture'.live = capture.live
    BY <1>2, <1>t DEF LaunchScope, RebindScope, Launch, Rebind, UnchangedButCapture, Types
  <2>2. CASE capture.live
    BY <1>d, <1>o, <2>1, <2>2 DEF LastOwed
  <2>3. CASE ~capture.live
    BY <1>a, <2>1, <2>3
  <2> QED BY <2>2, <2>3
<1>3. CASE DispatchScope
  <2>1. CASE capture.live
    <3> DEFINE new == [binds |-> capture.binds, barrier |-> ~scope.skip]
               c == IF scope.pending THEN Mark(capture.commands) ELSE capture.commands
               n == Len(capture.commands)
    <3>1. /\ capture' = [capture EXCEPT !.commands = Append(c, new)]
          /\ seen' = Append(seen, [args |-> table, beside |-> FALSE])
          /\ scope' = [scope EXCEPT !.pending = scope.skip] /\ scope.open
          /\ UNCHANGED <<tape, poisoned>>
      BY <1>3, <2>1 DEF DispatchScope, Dispatch, EncodeDispatch, PendingAfter, UnchangedButCapture
    <3>2. new \in Command /\ c \in Seq(Command) /\ Len(c) = n /\ n \in Nat
      BY <1>t, MarkFacts DEF Command, Types
    <3>3. \A k \in 1 .. n : c[k].barrier
      <4>1. ~poisoned
        BY <3>1 DEF OrderInv
      <4>2. \A k \in 1 .. n - 1 : capture.commands[k].barrier
        BY <2>1 DEF TapeInv
      <4>3. n = 0 \/ capture.commands[n].barrier \/ scope.pending
        BY <1>o, <1>t, <2>1, <3>1, <4>1 DEF LastOwed, Types
      <4>4. CASE scope.pending
        BY <1>t, <3>2, <4>2, <4>4, MarkFacts DEF Types
      <4>5. CASE ~scope.pending
        BY <3>2, <4>2, <4>3, <4>5
      <4> QED BY <4>4, <4>5
    <3>4. /\ Len(Append(c, new)) = n + 1 /\ Append(c, new)[n + 1] = new
          /\ \A k \in 1 .. n : Append(c, new)[k] = c[k]
      BY <3>2, AppendProperties
    <3>5. Len(seen') = n + 1
      <4>1. [args |-> table, beside |-> FALSE] \in Seen
        BY DEF Seen, TypeOK, BinderTypeOK
      <4> QED BY <1>t, <2>1, <3>1, <4>1, AppendProperties DEF Types, TapeInv
    <3>6. capture'.commands = Append(c, new)
      BY <1>t, <3>1 DEF Types
    <3>7. LastOwed'
      <4>1. new.barrier = ~scope.skip /\ scope'.pending = scope.skip /\ scope'.open
        BY <1>t, <3>1 DEF Types
      <4>2. capture'.commands[Len(capture'.commands)].barrier = ~scope.skip
        BY <3>4, <3>6, <4>1
      <4>3. scope.skip \in BOOLEAN
        BY <1>t DEF Types
      <4> HIDE DEF c, new, n
      <4> QED BY <4>1, <4>2, <4>3 DEF LastOwed
    <3>8. /\ Len(capture'.commands) = n + 1
          /\ \A k \in 1 .. Len(capture'.commands) - 1 : capture'.commands[k].barrier
      <4> HIDE DEF c, new, n
      <4> QED BY <3>2, <3>3, <3>4, <3>6
    <3> HIDE DEF c, new, n
    <3> QED BY <1>c, <2>1, <3>1, <3>5, <3>7, <3>8
  <2>2. CASE ~capture.live
    BY <1>3, <1>b, <2>2 DEF DispatchScope, UnchangedButCapture
  <2> QED BY <2>1, <2>2
<1>4. CASE BarrierScope
  <2>1. CASE capture.live
    <3>1. /\ capture' = [capture EXCEPT !.commands = Mark(capture.commands)]
          /\ UNCHANGED <<tape, seen>>
      BY <1>4, <2>1 DEF BarrierScope, UnchangedButCapture
    <3>2. capture'.commands = Mark(capture.commands)
      BY <1>t, <3>1 DEF Types
    <3>3. /\ Len(capture'.commands) = Len(capture.commands)
          /\ \A k \in 1 .. Len(capture.commands) :
               capture'.commands[k].barrier <=> k = Len(capture.commands) \/ capture.commands[k].barrier
      <4>1. capture.commands \in Seq(Command)
        BY <1>t DEF Types
      <4> QED BY <3>2, <4>1, MarkFacts
    <3>4. LastOwed'
      <4>1. CASE Len(capture.commands) = 0
        BY <1>t, <3>2, <4>1, EmptySeq DEF LastOwed, Types, Mark
      <4>2. CASE Len(capture.commands) # 0
        <5>1. capture'.commands[Len(capture'.commands)].barrier
          BY <1>t, <3>3, <4>2 DEF Types
        <5> QED BY <5>1 DEF LastOwed
      <4> QED BY <4>1, <4>2
    <3>5. \A k \in 1 .. Len(capture'.commands) - 1 : capture'.commands[k].barrier
      <4>1. Len(capture.commands) \in Nat
        BY <1>t DEF Types
      <4>2. \A k \in 1 .. Len(capture.commands) - 1 : capture.commands[k].barrier
        BY <2>1 DEF TapeInv
      <4> QED BY <3>3, <4>1, <4>2
    <3>6. Len(seen') = Len(capture'.commands)
      BY <2>1, <3>1, <3>3 DEF TapeInv
    <3> QED BY <1>c, <2>1, <3>1, <3>4, <3>5, <3>6
  <2>2. CASE ~capture.live
    BY <1>4, <1>b, <2>2 DEF BarrierScope, UnchangedButCapture
  <2> QED BY <2>1, <2>2
<1>5. CASE LeaveScope
  <2>1. CASE capture.live
    <3>1. /\ scope.open /\ ~scope'.open /\ poisoned' = poisoned
          /\ capture'.carried = scope.pending /\ capture'.commands = capture.commands
      BY <1>5, <1>t, <2>1 DEF LeaveScope, Leave, NoScope, Types
    <3>2. LastOwed'
      BY <1>o, <2>1, <3>1 DEF LastOwed
    <3> QED BY <1>5, <1>d, <2>1, <3>1, <3>2 DEF LeaveScope, UnchangedButCapture
  <2>2. CASE ~capture.live
    BY <1>5, <1>b, <2>2 DEF LeaveScope, UnchangedButCapture
  <2> QED BY <2>1, <2>2
<1>6. CASE FailScope
  <2>1. poisoned' /\ UNCHANGED <<tape, seen, capture>>
    BY <1>6 DEF FailScope, Fail, tapeVars
  <2> QED BY <1>a, <1>d, <2>1 DEF LastOwed
<1>7. CASE Synchronize /\ UNCHANGED tapeVars
  BY <1>7, <1>b DEF Synchronize, tapeVars
<1>8. CASE BeginCapture /\ UNCHANGED binderVars
  <2>1. /\ capture'.commands = <<>> /\ tape' = <<>> /\ seen' = <<>>
    BY <1>8 DEF BeginCapture, NoCapture
  <2> QED BY <2>1, EmptySeq DEF TapeInv, LastOwed
<1>9. CASE EndCapture
  BY <1>9 DEF EndCapture, NoCapture, TapeInv, ClaimInv
<1>10. CASE TakeCapture
  <2>1. /\ ~capture'.live /\ tape' = capture.commands /\ seen' = seen /\ capture.live
    BY <1>10 DEF TakeCapture, NoCapture
  <2> QED BY <2>1 DEF TapeInv
<1>11. ASSUME NEW marked \in BOOLEAN, BuildTape(marked) PROVE TapeInv'
  <2>1. PICK args \in [1 .. 2 -> Built] :
          /\ tape' = [k \in 1 .. 2 |-> [binds |-> args[k], barrier |-> k = 1 /\ marked]]
          /\ seen' = [k \in 1 .. 2 |-> [args |-> args[k], beside |-> k = 2 /\ ~marked]]
    BY <1>11 DEF BuildTape
  <2>2. Len(tape') = 2 /\ Len(seen') = 2
    BY <2>1
  <2>3. tape'[1].barrier \/ seen'[2].beside
    <3>1. tape'[1].barrier <=> marked
      BY <2>1
    <3>2. ~marked => seen'[2].beside
      <4>1. (2 = 2 /\ ~marked) <=> ~marked
        OBVIOUS
      <4> DEFINE b == 2 = 2 /\ ~marked
      <4>2. seen'[2].beside = b
        BY <2>1
      <4> QED BY <4>1, <4>2
    <3> QED BY <3>1, <3>2
  <2>4. ~capture'.live
    BY <1>11 DEF BuildTape
  <2> QED BY <2>2, <2>3, <2>4 DEF TapeInv
<1>12. CASE Exec \/ ExecDone \/ ExecRefused \/ ExecFails
  <2>1. UNCHANGED <<tape, seen, capture>> /\ Executing
    BY <1>12 DEF Exec, ExecEnter, ExecCommand, ExecLeave, ExecDone, ExecRefused, ExecFails, RollBack,
       tapeVars
  <2> QED BY <1>b, <2>1 DEF ClaimInv
<1>13. ASSUME NEW s \in Slots, ReplayStart(s) PROVE TapeInv'
  BY <1>13, <1>b DEF ReplayStart, binderVars
<1>14. ASSUME UNCHANGED <<scope, poisoned, capture, tape, seen>> PROVE TapeInv'
  BY <1>14, <1>b
<1> QED BY <1>1, <1>2, <1>3, <1>4, <1>5, <1>6, <1>7, <1>8, <1>9, <1>10, <1>11, <1>12, <1>13, <1>14,
           LedgerFrame DEF Next, LiveScope, Capture

-----------------------------------------------------------------------------
(* The order of two dispatches.                                            *)

LEMMA EnterOrder ==
  ASSUME Types, OrderInv, NEW skip \in BOOLEAN, NEW carried \in BOOLEAN, Enter(skip, carried)
  PROVE  OrderInv'
<1>1. /\ ~poisoned' /\ scope'.open /\ faults' = faults
      /\ scope'.pending = ((batch.open /\ batch.pending) \/ carried)
      /\ bare' = (bare /\ batch.open) /\ ~scope.open
  BY DEF Enter
<1>2. bare' => scope'.pending
  BY <1>1 DEF OrderInv
<1> QED BY <1>1, <1>2 DEF OrderInv

LEMMA LeaveOrder ==
  ASSUME Types, OrderInv, Leave, bare => scope.pending
  PROVE  OrderInv'
<1>1. /\ ~scope'.open /\ bare' = bare /\ faults' = faults
      /\ batch' = [batch EXCEPT !.pending = scope.pending] \/ batch' = Closed
  BY DEF Leave, NoScope
<1>2. batch'.open => batch'.pending = scope.pending
  BY <1>1 DEF Closed, Types
<1> QED BY <1>1, <1>2 DEF OrderInv

LEMMA FailOrder == ASSUME OrderInv, Fail PROVE OrderInv'
BY DEF OrderInv, Fail, NoScope, Closed

LEMMA OrderStep == ASSUME TypeOK, ClaimInv, TapeInv, OrderInv, [Next]_vars PROVE OrderInv'
<1>t. Types
  BY TypesHold
<1>l. ASSUME ~Executing, scope.open, bare PROVE scope.pending
  BY <1>l DEF OrderInv
<1>a. ASSUME ~scope.open, UNCHANGED <<scope, batch, poisoned, bare, faults>> PROVE OrderInv'
  BY <1>a DEF OrderInv
<1>b. ASSUME ~Executing, UNCHANGED <<scope, batch, poisoned, bare, faults>> PROVE OrderInv'
  BY <1>b, <1>l DEF OrderInv
<1>1. ASSUME NEW skip \in BOOLEAN, EnterScope(skip) PROVE OrderInv'
  <2>1. PICK carried \in BOOLEAN : Enter(skip, carried)
    BY <1>1, <1>t DEF EnterScope, Types
  <2> QED BY <1>t, <2>1, EnterOrder
<1>2. ASSUME \/ \E args \in IF capture.live THEN Args ELSE {Plain} : LaunchScope(args)
             \/ \E bind \in Rebinds : RebindScope(bind[1], bind[2])
      PROVE  OrderInv'
  <2>1. /\ UNCHANGED <<poisoned, bare, batch, faults>> /\ scope.open /\ scope'.open
        /\ scope'.pending = scope.pending /\ ~Executing
    BY <1>2, <1>t DEF LaunchScope, RebindScope, Launch, Rebind, Types
  <2> QED BY <1>l, <2>1 DEF OrderInv
<1>3. CASE DispatchScope
  <2>1. /\ scope' = [scope EXCEPT !.pending = scope.skip] /\ bare' = scope.skip
        /\ poisoned' = poisoned /\ scope.open /\ ~Executing
        /\ faults' = faults \cup IF Unordered THEN {"unordered"} ELSE {}
    BY <1>3 DEF DispatchScope, Dispatch, EncodeDispatch, PendingAfter
  <2>2. ~Unordered
    BY <1>l, <2>1 DEF Unordered
  <2>3. scope'.open /\ scope'.pending = scope.skip
    BY <1>t, <2>1 DEF Types
  <2> QED BY <2>1, <2>2, <2>3 DEF OrderInv
<1>4. CASE BarrierScope
  <2>1. scope.open /\ bare' = FALSE /\ UNCHANGED <<poisoned, faults>>
    BY <1>4 DEF BarrierScope, Barrier
  <2> QED BY <2>1 DEF OrderInv
<1>5. CASE LeaveScope
  <2>1. Leave /\ (bare => scope.pending)
    BY <1>5, <1>l DEF LeaveScope, Leave
  <2> QED BY <1>t, <2>1, LeaveOrder
<1>6. CASE FailScope \/ ExecFails
  BY <1>6, FailOrder DEF FailScope, ExecFails
<1>7. CASE Synchronize
  BY <1>7 DEF Synchronize, Closed, OrderInv
<1>8. CASE Capture /\ UNCHANGED <<binderVars, ledgerVars>>
  <2>1. ~Executing /\ UNCHANGED <<scope, batch, poisoned, bare, faults>>
    BY <1>8 DEF Capture, BeginCapture, EndCapture, TakeCapture, BuildTape, ClaimInv, binderVars
  <2> QED BY <1>b, <2>1
<1>9. CASE ExecEnter
  <2>1. Enter(TRUE, FALSE)
    BY <1>9 DEF ExecEnter
  <2> QED BY <1>t, <2>1, EnterOrder
<1>10. CASE ExecCommand
  <2> DEFINE k == exec.next
  <2>1. k \in 1 .. Len(tape) /\ Len(tape) \in Nat /\ tape # <<>> /\ tape[k] \in Command /\ Executing
    BY <1>10, <1>t, ElementOfSeq DEF ExecCommand, ClaimInv, Types
  <2>2. /\ scope' = [scope EXCEPT !.bound = TRUE,
                       !.pending = ~tape[k].barrier /\ ~(Forgone(k) /\ ~exec.triage)]
        /\ scope.open /\ bare' = ~tape[k].barrier /\ exec' = [exec EXCEPT !.next = k + 1]
        /\ faults' = faults \cup Wrong(k) /\ UNCHANGED <<poisoned, tape>>
    BY <1>10 DEF ExecCommand
  <2>3. Unordered => seen[k].beside
    <3>1. ASSUME Unordered PROVE k \in 2 .. Len(tape) /\ ~tape[k - 1].barrier
      BY <2>2, <3>1 DEF OrderInv, Unordered
    <3>2. ASSUME Unordered PROVE seen[k].beside
      <4>1. k - 1 \in 1 .. Len(tape) - 1 /\ (k - 1) + 1 = k
        BY <2>1, <3>1, <3>2
      <4>2. tape[k - 1].barrier \/ seen[(k - 1) + 1].beside
        BY <2>1, <4>1 DEF TapeInv
      <4> QED BY <3>1, <3>2, <4>1, <4>2
    <3> QED BY <3>2
  <2>4. "unordered" \notin faults'
    BY <2>2, <2>3 DEF Wrong, OrderInv
  <2>5. /\ scope'.open /\ exec'.next = k + 1 /\ exec'.triage = exec.triage
        /\ scope'.pending = (~tape[k].barrier /\ ~(Forgone(k) /\ ~exec.triage))
    BY <1>t, <2>2 DEF Types
  <2>6. ASSUME bare', ~scope'.pending
        PROVE  Executing' /\ ~exec'.triage /\ exec'.next \in 2 .. Len(tape') /\ ~tape'[exec'.next - 1].barrier
    <3>1. ~tape[k].barrier /\ Forgone(k) /\ ~exec.triage
      BY <2>2, <2>5, <2>6
    <3>2. k < Len(tape)
      BY <3>1 DEF Forgone
    <3>3. exec'.next \in 2 .. Len(tape) /\ exec'.next - 1 = k
      BY <2>1, <2>5, <3>2
    <3>4. Executing'
      BY <2>1, <2>5 DEF Executing, Idle
    <3> QED BY <2>2, <2>5, <3>1, <3>3, <3>4
  <2>7. ~poisoned'
    BY <2>2 DEF OrderInv
  <2> HIDE DEF k
  <2> QED BY <2>4, <2>5, <2>6, <2>7 DEF OrderInv
<1>11. CASE ExecLeave
  <2>1. Leave /\ (exec.triage \/ exec.next > Len(tape))
    BY <1>11 DEF ExecLeave
  <2>2. bare => scope.pending
    BY <1>t, <2>1 DEF OrderInv, Leave, Types
  <2> QED BY <1>t, <2>1, <2>2, LeaveOrder
<1>12. ASSUME ExecDone \/ ExecRefused \/ \E s \in Slots : ReplayStart(s) PROVE OrderInv'
  BY <1>12, <1>a DEF ExecDone, ExecRefused, ReplayStart, Replaying, binderVars
<1>13. ASSUME UNCHANGED <<scope, batch, poisoned, bare, exec, tape>>,
              faults' \in {faults, faults \cup {"step"}}
       PROVE  OrderInv'
  BY <1>13 DEF OrderInv, Executing
<1> QED BY <1>1, <1>2, <1>3, <1>4, <1>5, <1>6, <1>7, <1>8, <1>9, <1>10, <1>11, <1>12, <1>13,
           LedgerFrame DEF Next, LiveScope, Exec

-----------------------------------------------------------------------------
(* The arguments of a replayed command.                                    *)

LEMMA FirstExists ==
  ASSUME NEW k \in Nat \ {0}
  PROVE  \E j \in 1 .. k : /\ Fingerprint(j) = Fingerprint(k)
                           /\ \A h \in 1 .. j - 1 : Fingerprint(h) # Fingerprint(k)
<1> DEFINE Same == {j \in 1 .. k : Fingerprint(j) = Fingerprint(k)}
<1>1. Same \subseteq Nat /\ Same # {}
  <2>1. k \in Same
    OBVIOUS
  <2> QED BY <2>1
<1>2. PICK j \in Same : \A h \in Same : <<h, j>> \notin OpToRel(<, Nat)
  BY <1>1, NatLessThanWellFounded, WFMin
<1>3. \A h \in Same : ~(h < j)
  BY <1>1, <1>2 DEF OpToRel
<1>4. j \in 1 .. k /\ Fingerprint(j) = Fingerprint(k)
  OBVIOUS
<1>5. ASSUME NEW h \in 1 .. j - 1 PROVE Fingerprint(h) # Fingerprint(k)
  <2>1. h \in 1 .. k /\ h < j
    BY <1>4
  <2> QED BY <1>3, <2>1
<1> HIDE DEF Same
<1> QED BY <1>4, <1>5

LEMMA ReplayedRight ==
  ASSUME Types, Recorded(tape), TypeOK, \A i \in Indices : sticky[i] # None => table[i] = sticky[i],
         NEW k \in 1 .. Len(tape), NEW i \in Indices, seen[k].args[i] \notin Raws
  PROVE  Arguments(k)[i] = seen[k].args[i] /\ tape[k].binds[i] = seen[k].args[i]
<1> USE ValuesAssumption
<1>1. tape[k].binds \in [Indices -> Values \cup {None}]
  <2>1. tape \in Seq(Command)
    BY DEF Types
  <2>2. tape[k] \in Command
    BY <2>1, ElementOfSeq
  <2> QED BY <2>2 DEF Command
<1>2. tape[k].binds[i] = seen[k].args[i] /\ tape[k].binds[i] # None
  BY DEF Recorded
<1>3. tape[k].binds[i] \in Bufs \cup Imms
  BY <1>1, <1>2 DEF Values
<1>4. Adopted(k)[i] = tape[k].binds[i]
  <2>1. k \in Nat \ {0}
    BY DEF Types
  <2> DEFINE first == CHOOSE j \in 1 .. k : /\ Fingerprint(j) = Fingerprint(k)
                                            /\ \A h \in 1 .. j - 1 : Fingerprint(h) # Fingerprint(k)
  <2>2. first \in 1 .. k /\ Fingerprint(first) = Fingerprint(k)
    BY <2>1, FirstExists
  <2>3. Adopted(k)[i] =
          IF tape[k].binds[i] \in Imms THEN tape[k].binds[i]
          ELSE IF tape[first].binds[i] \in Bufs THEN tape[first].binds[i] ELSE None
    BY DEF Adopted
  <2> HIDE DEF first
  <2>4. CASE tape[k].binds[i] \in Bufs
    <3>1. <<i, tape[k].binds[i]>> \in Fingerprint(first)
      BY <2>2, <2>4 DEF Fingerprint
    <3>2. tape[first].binds[i] = tape[k].binds[i]
      BY <3>1 DEF Fingerprint
    <3> QED BY <2>3, <2>4, <3>2
  <2> QED BY <1>3, <2>3, <2>4
<1>5. Set(tape[k].binds)[i] = tape[k].binds[i]
  BY <1>2 DEF Set
<1> QED BY <1>2, <1>4, <1>5 DEF Arguments

LEMMA ArgsStep == ASSUME TypeOK, ClaimInv, TapeInv, ArgsInv, [Next]_vars PROVE ArgsInv'
<1> USE ValuesAssumption
<1>t. Types
  BY TypesHold
<1>y. table \in [Indices -> Values \cup {None}]
  BY DEF TypeOK, BinderTypeOK
<1>e. ASSUME ~Executing \/ ~scope.open PROVE sticky = Empty
  BY <1>e DEF ArgsInv
<1>z. ASSUME sticky' = Empty PROVE (sticky # Empty => Executing /\ scope.open)'
                                   /\ \A i \in Indices : sticky'[i] # None => table'[i] = sticky'[i]
  BY <1>z DEF Empty
\* A scope that is not executing, capturing or not.
<1>s. ASSUME ~Executing, sticky' = sticky, tape' = tape, "binds" \notin faults',
             capture.live => Recorded(capture.commands)',
             capture.live /\ scope'.open /\ scope'.bound =>
               \A i \in Indices : table'[i] \in Raws \/ (table'[i] # None /\ capture'.binds[i] = table'[i]),
             capture'.live = capture.live, ~capture.live => seen' = seen
      PROVE  ArgsInv'
  <2>1. sticky' = Empty
    BY <1>s, <1>e
  <2>2. (tape # <<>> => Recorded(tape))'
    BY <1>s DEF ArgsInv, ClaimInv, Recorded
  <2> QED BY <1>s, <1>z, <2>1, <2>2 DEF ArgsInv
<1>1. ASSUME NEW skip \in BOOLEAN, EnterScope(skip) PROVE ArgsInv'
  <2>1. /\ ~Executing /\ UNCHANGED <<sticky, tape, seen, faults>> /\ ~scope'.bound
        /\ capture'.commands = capture.commands /\ capture'.live = capture.live
    BY <1>1, <1>t DEF EnterScope, Enter, UnchangedButCapture, Types
  <2> QED BY <1>s, <2>1 DEF ArgsInv, Recorded
<1>2. ASSUME NEW args \in [Indices -> Values], LaunchScope(args) PROVE ArgsInv'
  <2>1. /\ ~Executing /\ UNCHANGED <<sticky, tape, seen, faults>> /\ table' = args
        /\ capture'.commands = capture.commands /\ capture'.live = capture.live
        /\ capture.live => capture'.binds = Recordable(args)
    BY <1>2, <1>t DEF LaunchScope, Launch, UnchangedButCapture, Types
  <2>2. \A i \in Indices : args[i] # None /\ Recordable(args)[i] = IF args[i] \in Raws THEN None ELSE args[i]
    BY DEF Recordable
  <2> QED BY <1>s, <2>1, <2>2 DEF ArgsInv, Recorded
<1>3. ASSUME NEW j \in Indices, NEW v \in Values, RebindScope(j, v) PROVE ArgsInv'
  <2>1. /\ ~Executing /\ UNCHANGED <<sticky, tape, seen, faults>>
        /\ table' = [table EXCEPT ![j] = v] /\ scope' = scope /\ scope.open /\ scope.bound
        /\ capture'.commands = capture.commands /\ capture'.live = capture.live
    BY <1>3, <1>t DEF RebindScope, Rebind, UnchangedButCapture, Types
  <2>2. capture.live => capture'.binds = [capture.binds EXCEPT ![j] = IF v \in Raws THEN @ ELSE v]
    BY <1>3, <1>t DEF RebindScope, Types
  <2>3. capture.live => \A i \in Indices : table'[i] \in Raws
                                           \/ (table'[i] # None /\ capture'.binds[i] = table'[i])
    <3>1. SUFFICES ASSUME capture.live, NEW i \in Indices
                   PROVE  table'[i] \in Raws \/ (table'[i] # None /\ capture'.binds[i] = table'[i])
      OBVIOUS
    <3>2. capture.binds \in [Indices -> Values \cup {None}]
      BY <1>t DEF Types
    <3>3. CASE i = j
      BY <1>y, <2>1, <2>2, <3>1, <3>2, <3>3
    <3>4. CASE i # j
      BY <1>y, <2>1, <2>2, <3>1, <3>2, <3>4 DEF ArgsInv
    <3> QED BY <3>3, <3>4
  <2> QED BY <1>s, <2>1, <2>3 DEF ArgsInv, Recorded
<1>4. CASE DispatchScope
  <2>1. /\ ~Executing /\ UNCHANGED <<sticky, tape, table>> /\ "binds" \notin faults'
        /\ scope.open /\ scope.bound
    BY <1>4 DEF DispatchScope, Dispatch, EncodeDispatch, UnchangedButCapture, ArgsInv
  <2>2. CASE capture.live
    <3> DEFINE new == [binds |-> capture.binds, barrier |-> ~scope.skip]
               c == IF scope.pending THEN Mark(capture.commands) ELSE capture.commands
               n == Len(capture.commands)
               one == [args |-> table, beside |-> FALSE]
    <3>1. capture' = [capture EXCEPT !.commands = Append(c, new)] /\ seen' = Append(seen, one)
      BY <1>4, <2>2 DEF DispatchScope
    <3>2. /\ capture'.commands = Append(c, new) /\ capture'.live = capture.live
          /\ capture'.binds = capture.binds
      BY <1>t, <3>1 DEF Types
    <3>3. /\ new \in Command /\ c \in Seq(Command) /\ Len(c) = n /\ n \in Nat
          /\ \A k \in 1 .. n : c[k].binds = capture.commands[k].binds
      BY <1>t, MarkFacts DEF Command, Types
    <3>4. one \in Seen /\ Len(seen) = n /\ seen \in Seq(Seen)
      BY <1>t, <1>y, <2>2 DEF Seen, TapeInv, Types
    <3>5. /\ Len(Append(c, new)) = n + 1 /\ Append(c, new)[n + 1] = new
          /\ \A k \in 1 .. n : Append(c, new)[k] = c[k] /\ Append(seen, one)[k] = seen[k]
          /\ Append(seen, one)[n + 1] = one
      BY <3>3, <3>4, AppendProperties
    <3>6. \A i \in Indices : table[i] \in Raws \/ (table[i] # None /\ new.binds[i] = table[i])
      BY <2>1, <2>2 DEF ArgsInv
    <3>7. one.args = table
      OBVIOUS
    <3> HIDE DEF c, new, n, one
    <3>8. ASSUME NEW k \in 1 .. n + 1, NEW i \in Indices
          PROVE  Append(seen, one)[k].args[i] \in Raws
                 \/ (Append(seen, one)[k].args[i] # None
                     /\ Append(c, new)[k].binds[i] = Append(seen, one)[k].args[i])
      <4>1. CASE k = n + 1
        BY <3>5, <3>6, <3>7, <4>1
      <4>2. CASE k # n + 1
        <5>1. k \in 1 .. n
          BY <3>3, <4>2
        <5>2. seen[k].args[i] \in Raws \/ (seen[k].args[i] # None
                                           /\ capture.commands[k].binds[i] = seen[k].args[i])
          BY <2>2, <5>1 DEF ArgsInv, Recorded, n
        <5> QED BY <3>3, <3>5, <5>1, <5>2
      <4> QED BY <4>1, <4>2
    <3>9. Recorded(capture.commands)'
      <4>1. /\ capture'.commands = Append(c, new) /\ seen' = Append(seen, one)
            /\ Len(Append(c, new)) = n + 1
        BY <3>1, <3>2, <3>5
      <4> QED BY <3>8, <4>1 DEF Recorded
    <3>10. \A i \in Indices : table'[i] \in Raws \/ (table'[i] # None /\ capture'.binds[i] = table'[i])
      BY <2>1, <2>2, <3>2 DEF ArgsInv
    <3> QED BY <1>s, <2>1, <2>2, <3>2, <3>9, <3>10
  <2>3. CASE ~capture.live
    BY <1>4, <1>s, <2>1, <2>3 DEF DispatchScope
  <2> QED BY <2>2, <2>3
<1>5. CASE BarrierScope
  <2>1. /\ ~Executing /\ UNCHANGED <<sticky, tape, seen, table, faults>>
        /\ scope' = [scope EXCEPT !.pending = FALSE]
    BY <1>5 DEF BarrierScope, Barrier, UnchangedButCapture
  <2>2. scope'.open = scope.open /\ scope'.bound = scope.bound
    BY <1>t, <2>1 DEF Types
  <2>3. CASE capture.live
    <3>1. capture' = [capture EXCEPT !.commands = Mark(capture.commands)]
      BY <1>5, <2>3 DEF BarrierScope
    <3>2. /\ capture'.commands = Mark(capture.commands) /\ capture'.live = capture.live
          /\ capture'.binds = capture.binds
      BY <1>t, <3>1 DEF Types
    <3>3. capture.commands \in Seq(Command)
      BY <1>t DEF Types
    <3>4. /\ Len(capture'.commands) = Len(capture.commands)
          /\ \A k \in 1 .. Len(capture.commands) :
               capture'.commands[k].binds = capture.commands[k].binds
      BY <3>2, <3>3, MarkFacts
    <3>5. Recorded(capture.commands)'
      BY <2>1, <2>3, <3>4 DEF ArgsInv, Recorded
    <3> QED BY <1>s, <2>1, <2>2, <2>3, <3>2, <3>5 DEF ArgsInv
  <2>4. CASE ~capture.live
    BY <1>5, <1>s, <2>1, <2>4 DEF BarrierScope, ArgsInv
  <2> QED BY <2>3, <2>4
<1>6. CASE LeaveScope \/ FailScope
  <2>1. /\ ~Executing /\ UNCHANGED <<sticky, tape, seen, table, faults>> /\ ~scope'.open
        /\ capture'.commands = capture.commands /\ capture'.live = capture.live
    BY <1>6, <1>t DEF LeaveScope, FailScope, Leave, Fail, NoScope, UnchangedButCapture, tapeVars, Types
  <2> QED BY <1>s, <2>1 DEF ArgsInv, Recorded
<1>7. CASE Synchronize /\ UNCHANGED tapeVars
  BY <1>7 DEF Synchronize, tapeVars, ArgsInv, Recorded, Executing
<1>8. CASE BeginCapture /\ UNCHANGED binderVars
  <2>1. /\ capture'.commands = <<>> /\ tape' = <<>> /\ sticky' = sticky /\ ~scope'.open
        /\ faults' = faults /\ ~Executing
    BY <1>8 DEF BeginCapture, NoCapture, binderVars, ClaimInv
  <2>2. Recorded(<<>>)'
    BY EmptySeq DEF Recorded
  <2> QED BY <1>e, <1>z, <2>1, <2>2 DEF ArgsInv
<1>9. CASE (EndCapture \/ TakeCapture) /\ UNCHANGED binderVars
  <2>1. /\ ~capture'.live /\ sticky' = sticky /\ faults' = faults /\ ~Executing
        /\ tape' = <<>> \/ (tape' = capture.commands /\ seen' = seen /\ capture.live)
    BY <1>9 DEF EndCapture, TakeCapture, NoCapture, binderVars, ClaimInv
  <2> QED BY <1>e, <1>z, <2>1 DEF ArgsInv, Recorded
<1>10. ASSUME NEW marked \in BOOLEAN, BuildTape(marked), UNCHANGED binderVars PROVE ArgsInv'
  <2>1. PICK args \in [1 .. 2 -> Built] :
          /\ tape' = [k \in 1 .. 2 |-> [binds |-> args[k], barrier |-> k = 1 /\ marked]]
          /\ seen' = [k \in 1 .. 2 |-> [args |-> args[k], beside |-> k = 2 /\ ~marked]]
    BY <1>10 DEF BuildTape
  <2>2. Len(tape') = 2 /\ \A k \in 1 .. 2 : tape'[k].binds = args[k] /\ seen'[k].args = args[k]
    BY <2>1
  <2>3. \A k \in 1 .. 2, i \in Indices : args[k][i] # None
    BY TapeAssumption DEF Values
  <2>4. Recorded(tape)'
    BY <2>2, <2>3 DEF Recorded
  <2>5. ~capture'.live /\ sticky' = sticky /\ faults' = faults /\ ~Executing
    BY <1>10 DEF BuildTape, binderVars, ClaimInv
  <2> QED BY <1>e, <1>z, <2>4, <2>5 DEF ArgsInv
<1>11. CASE ExecEnter
  <2>1. UNCHANGED <<capture, tape, seen, sticky, exec, table, faults>> /\ ~scope.open /\ ~scope'.bound
    BY <1>11 DEF ExecEnter, Enter, tapeVars
  <2> QED BY <1>e, <1>z, <2>1 DEF ArgsInv, Recorded
<1>12. CASE ExecCommand
  <2> DEFINE k == exec.next
  <2>1. k \in 1 .. Len(tape) /\ tape # <<>> /\ Executing /\ ~capture.live
    BY <1>12, <1>t DEF ExecCommand, ClaimInv, Types
  <2>2. /\ scope.open /\ scope'.open /\ faults' = faults \cup Wrong(k)
        /\ UNCHANGED <<capture, tape, seen>> /\ exec' = [exec EXCEPT !.next = k + 1]
        /\ sticky' = IF exec.prebuilt THEN sticky ELSE StickyAfter(tape[k].binds)
        /\ table' = IF exec.prebuilt THEN table ELSE Arguments(k)
    BY <1>12, <1>t DEF ExecCommand, Types
  <2>3. Executing'
    <3>1. exec'.next = k + 1 /\ k + 1 # 0
      BY <1>t, <2>1, <2>2 DEF Types
    <3> QED BY <3>1 DEF Executing, Idle
  <2>4. "binds" \notin faults'
    BY <1>t, <2>1, <2>2, ReplayedRight DEF ArgsInv, Wrong
  <2>5. \A i \in Indices : sticky'[i] # None => table'[i] = sticky'[i]
    <3>1. CASE exec.prebuilt
      BY <2>2, <3>1 DEF ArgsInv
    <3>2. CASE ~exec.prebuilt
      <4>1. sticky' = StickyAfter(tape[k].binds) /\ table' = Set(tape[k].binds)
        BY <2>2, <3>2 DEF Arguments
      <4> HIDE DEF k
      <4> QED BY <4>1 DEF StickyAfter, Set, ArgsInv
    <3> QED BY <3>1, <3>2
  <2>6. Recorded(tape)'
    BY <2>1, <2>2 DEF ArgsInv, Recorded
  <2> HIDE DEF k
  <2> QED BY <2>1, <2>2, <2>3, <2>4, <2>5, <2>6 DEF ArgsInv
<1>13. CASE ExecLeave \/ ExecRefused \/ ExecFails
  <2>1. UNCHANGED <<capture, tape, seen, faults>> /\ sticky' = Empty /\ Executing
    BY <1>13 DEF ExecLeave, Leave, ExecRefused, ExecFails, Fail, RollBack, binderVars
  <2>2. ~capture.live
    BY <2>1 DEF ClaimInv
  <2> QED BY <1>z, <2>1, <2>2 DEF ArgsInv, Recorded
<1>14. ASSUME ExecDone \/ \E s \in Slots : ReplayStart(s) PROVE ArgsInv'
  <2>1. UNCHANGED <<scope, table, capture, tape, seen, faults, sticky>> /\ ~scope.open
    BY <1>14 DEF ExecDone, ReplayStart, Replaying, binderVars
  <2> QED BY <1>e, <1>z, <2>1 DEF ArgsInv, Recorded
<1>15. ASSUME UNCHANGED <<scope, table, capture, tape, seen, sticky, exec>>,
              faults' \in {faults, faults \cup {"step"}}
       PROVE  ArgsInv'
  BY <1>15 DEF ArgsInv, Executing, Recorded
<1>16. ASSUME NEW args \in IF capture.live THEN Args ELSE {Plain} PROVE args \in [Indices -> Values]
  <2>1. Plain \in Args
    <3>1. Args # {}
      BY LedgerAssumption
    <3> QED BY <3>1 DEF Plain
  <2> QED BY <2>1, LedgerAssumption
<1>17. ASSUME NEW bind \in Rebinds, RebindScope(bind[1], bind[2]) PROVE ArgsInv'
  BY <1>3, <1>17, LedgerAssumption
<1> QED BY <1>1, <1>2, <1>4, <1>5, <1>6, <1>7, <1>8, <1>9, <1>10, <1>11, <1>12, <1>13, <1>14, <1>15,
           <1>16, <1>17, LedgerFrame DEF Next, LiveScope, Exec, Capture

-----------------------------------------------------------------------------
(* The invariant and what it gives.                                        *)

LEMMA InitInvariant == Init => IInv
<1> SUFFICES ASSUME Init PROVE IInv
  OBVIOUS
<1> USE DEF Init, BinderInit, TapeInit
<1>1. <<>> \in Seq(Command) /\ <<>> \in Seq(Seen) /\ <<>> \in Seq(BOOLEAN) /\ Len(<<>>) = 0
  BY EmptySeq
<1>2. Empty \in [Indices -> Values \cup {None}] /\ \A i \in Indices : Empty[i] = None
  BY DEF Empty
<1>3. BinderTypeOK
  <2>1. NoScope \in [open : BOOLEAN, skip : BOOLEAN, pending : BOOLEAN, bound : BOOLEAN]
    BY DEF NoScope
  <2>2. Closed \in [open : BOOLEAN, pending : BOOLEAN]
    BY DEF Closed
  <2>3. poisoned \in BOOLEAN /\ bare \in BOOLEAN
    OBVIOUS
  <2>4. left \in 0 .. MaxDispatches /\ faults = {}
    BY ValuesAssumption
  <2>5. table \in [Indices -> Values \cup {None}]
    OBVIOUS
  <2> QED BY <2>1, <2>2, <2>3, <2>4, <2>5 DEF BinderTypeOK
<1>4. TapeTypeOK
  <2>1. NoCapture \in [live : BOOLEAN, commands : Seq(Command),
                       binds : [Indices -> Values \cup {None}], carried : BOOLEAN]
        /\ NoCapture.commands = <<>>
    BY <1>1, <1>2 DEF NoCapture
  <2>2. Idle \in [next : 0 .. MaxCommands + 1, triage : BOOLEAN, prebuilt : BOOLEAN]
    BY TapeAssumption DEF Idle
  <2>3. nop \in BOOLEAN /\ cleared \in BOOLEAN
    OBVIOUS
  <2>4. MaxCommands \in Nat /\ MaxGuards \in Nat
    BY TapeAssumption
  <2> QED BY <1>1, <1>2, <2>1, <2>2, <2>3, <2>4 DEF TapeTypeOK
<1>5. LedgerTypeOK
  BY LedgerAssumption DEF LedgerTypeOK, Slots
<1>6. ClaimInv
  BY LedgerAssumption DEF ClaimInv, Executing, NoCapture
<1>7. GuardInv /\ TapeInv
  BY <1>1 DEF GuardInv, TapeInv, NoCapture
<1>8. OrderInv /\ ArgsInv /\ LedgerHonest
  BY <1>1, <1>2 DEF OrderInv, ArgsInv, LedgerHonest, NoScope, Closed, NoCapture
<1>9. TypeOK
  BY <1>3, <1>4, <1>5 DEF TypeOK, LedgerTypeOK
<1> QED BY <1>6, <1>7, <1>8, <1>9 DEF IInv

\* A tape keeps what its capture saw, and the ledger, the switch and the batch
\* keep what their last users left: preserved together, for the order of two
\* dispatches depends on the tape, and the tape on what the scopes left pending.
THEOREM Inductive == Spec => []IInv
<1>1. IInv /\ [Next]_vars => IInv'
  BY TypeStep, ClaimStep, GuardStep, TapeStep, OrderStep, ArgsStep, LedgerStep DEF IInv
<1> QED BY InitInvariant, <1>1, PTL DEF Spec

\* Every variable of the binder, the tape and the ledger has its type.
THEOREM TypeCorrect == Spec => []TypeOK
<1>1. IInv => TypeOK
  BY DEF IInv
<1> QED BY <1>1, Inductive, PTL

\* No dispatch is encoded beside the one before it, live or replayed, unless the
\* tape it comes from says that it may (dispatch.rs:501, runtime.rs:2588,
\* decode_icb.rs:1131), for any scopes, captures, tapes and failures.
THEOREM OrderCorrect == Spec => []NeighboursOrdered
<1>1. IInv => NeighboursOrdered
  BY DEF IInv, OrderInv, NeighboursOrdered
<1> QED BY <1>1, Inductive, PTL

\* A replayed command runs on the arguments its dispatch had live, however its
\* tables are shared and whichever addresses are left as they were.
THEOREM ArgumentsCorrect == Spec => []ReplayedArguments
<1>1. IInv => ReplayedArguments
  BY DEF IInv, ArgsInv, ReplayedArguments
<1> QED BY <1>1, Inductive, PTL

\* Nested guards give the thread's switch back to what it was, to any depth
\* (decode_icb.rs:1204, 1222).
THEOREM NopCorrect == Spec => []NopUnderGuard
<1>1. IInv => NopUnderGuard
  BY DEF IInv, GuardInv, NopUnderGuard
<1> QED BY <1>1, Inductive, PTL

\* A slot in flight has a submission behind it, or a replay under way, and no
\* step is turned away (cb_replay.rs:286, 370).
THEOREM LedgerCorrect == Spec => []LedgerHonest
<1>1. IInv => LedgerHonest
  BY DEF IInv
<1> QED BY <1>1, Inductive, PTL
=============================================================================
