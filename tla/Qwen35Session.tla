--------------------------- MODULE Qwen35Session ----------------------------
(***************************************************************************)
(* Sessions of a Qwen35Model (qwen35_model.rs, qwen35_params.rs): a staged *)
(* prefill stopped between layers, a decode session that continues each    *)
(* layer's kept state one token at a time, writes to the weights, the      *)
(* relaxed-GEMM switch. A model lives on its thread: one call at a time,   *)
(* and one that moves state before it can fail is taken step by step.      *)
(* A number is abstracted to what made it: a row of the residual stream is *)
(* the sequence of its contributions, each with the inputs its layer's     *)
(* state held and the version of the weights it was computed with.         *)
(***************************************************************************)
EXTENDS Integers, Sequences

CONSTANTS
  Tokens, Prompts,
  Layers,      \* each layer's mixer, "gdn" or "attn"
  ConvTail,    \* inputs the conv state keeps: conv_kernel - 1
  MaxNews,     \* bound: the max_new a session is prefilled with
  MaxWrites,   \* bound: writes to the weights
  None         \* no row

ASSUME SessionAssumption ==
  /\ Prompts \subseteq Seq(Tokens) \ {<<>>}
  /\ Layers \in Seq({"gdn", "attn"})
  /\ ConvTail \in Nat \ {0} /\ MaxWrites \in Nat /\ MaxNews \subseteq Nat \ {0}

VARIABLES
  weights,     \* the version of each parameter: 0 the embedding, l layer l
  generation,  \* param_generation
  relaxed,     \* the runtime runs relaxed f32 GEMMs
  staged,      \* the caller's Staged, NoSession without one
  decode,      \* the caller's Decode, NoSession without one
  at,          \* where the call in progress stands, NoCall between calls
  out          \* the last call: its result and the row it returned

vars == <<weights, generation, relaxed, staged, decode, at, out>>

Depth == Len(Layers)
Halves == 2 * Depth      \* each layer: norm and mixer, norm and mlp
Relaxed == -1            \* the version a relaxed GEMM computes with
Unwritten == [x |-> <<>>, w |-> Relaxed - 1]   \* an input no layer had

-----------------------------------------------------------------------------
(* The layers, as a prefill runs them over every row. `w' gives each       *)
(* parameter's version.                                                    *)

Effective == [p \in 0 .. Depth |-> IF relaxed THEN Relaxed ELSE weights[p]]

LayerOf(h) == (h + 1) \div 2
Entry(w, l, x) == [x |-> x, w |-> w[l]]
Entries(w, l, rows) == [p \in DOMAIN rows |-> Entry(w, l, rows[p])]
Zeros == [i \in 1 .. ConvTail |-> [x |-> <<>>, w |-> 0]]
LastInputs(s) == SubSeq(s, Len(s) - ConvTail + 1, Len(s))

\* The conv's window at each position, which the recurrent rule takes in.
Windows(entries) ==
  [p \in DOMAIN entries |-> SubSeq(Zeros \o entries, p, p + ConvTail)]

Seen(w, l, rows) ==
  IF Layers[l] = "gdn" THEN Windows(Entries(w, l, rows)) ELSE Entries(w, l, rows)
Mixed(w, l, seen) == [layer |-> l, w |-> w[l], seen |-> seen]
Mlp(w, l, x) == [layer |-> l, w |-> w[l], at |-> Len(x)]
Embed(w, id) == [layer |-> 0, w |-> w[0], id |-> id]

Half(w, rows, h) ==
  LET l == LayerOf(h)
      seen == Seen(w, l, rows)
  IN [p \in DOMAIN rows |->
        Append(rows[p], IF h % 2 = 1 THEN Mixed(w, l, SubSeq(seen, 1, p))
                                     ELSE Mlp(w, l, rows[p]))]

\* Halves from + 1 .. to of a prefill that has run `from'.
Run(w, rows, from, to) ==
  LET after[h \in from .. to] ==
        IF h = from THEN rows ELSE Half(w, after[h - 1], h)
  IN after[to]

Rows(w, ids) == [p \in DOMAIN ids |-> <<Embed(w, ids[p])>>]
LmHead(w, x) == [x |-> x, w |-> w[0]]

\* The last row of a forward over ids that ran `layer' layers, all of them
\* under the one set of weights w.
Forward(ids, w, layer) == LmHead(w, Run(w, Rows(w, ids), 0, 2 * layer)[Len(ids)])

-----------------------------------------------------------------------------
(* One token on the state the layers keep.                                 *)

\* What a prefill leaves in layer l: the conv's inputs in side 0.
Kept(w, l, rows, maxNew) ==
  LET entries == Entries(w, l, Run(w, rows, 0, 2 * l - 2))
  IN IF Layers[l] = "gdn"
     THEN [conv |-> [side \in 0 .. 1 |->
                       IF side = 0 THEN LastInputs(Zeros \o entries) ELSE Unwritten],
           state |-> Windows(entries)]
     ELSE [prefix |-> entries, suffix |-> [s \in 0 .. maxNew - 1 |-> Unwritten]]

\* norm_resid takes the add the last projection deferred.
NormResid(t) == [t EXCEPT !.resid = @ \o t.pending, !.pending = <<>>]

ProjectResidual(t, add, fused) ==
  IF fused THEN [t EXCEPT !.pending = <<add>>]
           ELSE [t EXCEPT !.resid = Append(@, add)]

\* Faulty variant of Gdn: every step reads the side the prefill left and writes the other.
GdnOneSide(w, l, t, slot) ==
  LET window == t.carry[l].conv[0] \o <<Entry(w, l, t.resid)>>
  IN [t.carry[l] EXCEPT !.conv[1] = LastInputs(window), !.state = Append(@, window)]

Gdn(w, l, t, slot) ==
  LET side == slot % 2
      window == t.carry[l].conv[side] \o <<Entry(w, l, t.resid)>>
  IN [t.carry[l] EXCEPT !.conv[1 - side] = LastInputs(window),
                        !.state = Append(@, window)]

Attention(w, l, t, slot) ==
  [t.carry[l] EXCEPT !.suffix[slot] = Entry(w, l, t.resid)]

AttendsTo(c, slot) == c.prefix \o [i \in 1 .. slot + 1 |-> c.suffix[i - 1]]

\* Half a layer for one token: its residual, the deferred add, the carry.
TokenHalf(w, t0, h, slot, fused) ==
  LET l == LayerOf(h)
      t == NormResid(t0)
      c == IF Layers[l] = "gdn" THEN Gdn(w, l, t, slot) ELSE Attention(w, l, t, slot)
      seen == IF Layers[l] = "gdn" THEN c.state ELSE AttendsTo(c, slot)
  IN IF h % 2 = 1
     THEN ProjectResidual([t EXCEPT !.carry[l] = c], Mixed(w, l, seen), fused)
     ELSE ProjectResidual(t, Mlp(w, l, t.resid), fused)

TokenRow(w, t) == LmHead(w, NormResid(t).resid)

-----------------------------------------------------------------------------
(* Calls.                                                                  *)

NoCall == [begun |-> FALSE]
Sessions == <<weights, generation, staged, decode>>

\* A call goes in: its argument, whether it has begun to move state, how far
\* it is (half layers, or copies), one token's activations. `was' is a
\* history variable, what the call found.
Enters(call, arg, begun, half) ==
  /\ at' = [op |-> call, arg |-> arg, begun |-> begun, half |-> half,
            resid |-> <<>>, pending |-> <<>>, was |-> Sessions]
  /\ out' = [call |-> call, result |-> "running", row |-> None]

Running(call) == at # NoCall /\ at.op = call

Ends(call, result, row) ==
  /\ out' = [call |-> call, result |-> result, row |-> row]
  /\ at' = NoCall
Returns(call, result) == Ends(call, result, None)
Answers(call, row) == Ends(call, "row", row)

\* A call that returns its error and has moved nothing the caller holds.
Fails(call) ==
  /\ Returns(call, "failed")
  /\ UNCHANGED <<weights, generation, relaxed, staged, decode>>

\* What the caller has without a session: nothing a call may be made on.
NoSession == [broken |-> TRUE]

Init ==
  /\ weights = [p \in 0 .. Depth |-> 0] /\ generation = 0 /\ relaxed = FALSE
  /\ staged = NoSession /\ decode = NoSession /\ at = NoCall
  /\ out = [call |-> "none", result |-> "done", row |-> None]

\* check_generation, after the session's own latch.
Usable(s) == ~s.broken /\ s.since = generation

\* `?' on any launch, wait or read of the call in progress. Of a host write
\* only the mapping can fail.
CallFails ==
  /\ at # NoCall /\ ~(Running("write_parameter_host") /\ at.begun)
  /\ Fails(at.op)

-----------------------------------------------------------------------------
(* The staged prefill.                                                     *)

\* begin: an error leaves no session behind.
Begin(ids) ==
  \/ Fails("begin")
  \/ /\ ~relaxed
     /\ decode = NoSession     \* bound: one kind of session
     /\ staged' = [ids |-> ids, rows |-> Rows(weights, ids), next |-> 0, since |-> generation,
                   broken |-> FALSE, moved |-> FALSE]
     /\ Returns("begin", "done")
     /\ UNCHANGED <<weights, generation, relaxed, decode>>

\* Faulty variant of CanAdvance: the switch is looked at by begin only.
CanAdvanceRelaxed(layer) == Usable(staged) /\ layer \in staged.next .. Depth

CanAdvance(layer) ==
  /\ Usable(staged) /\ ~relaxed
  /\ layer \in staged.next .. Depth

\* advance_to, up to its first layer: from there on a failure leaves the
\* residual past `next'.
Advance(layer) ==
  \/ staged # NoSession /\ ~CanAdvance(layer) /\ Fails("advance_to")
  \/ /\ CanAdvance(layer) /\ layer = staged.next
     /\ Returns("advance_to", "done")
     /\ UNCHANGED <<weights, generation, relaxed, staged, decode>>
  \/ /\ CanAdvance(layer) /\ layer > staged.next
     /\ staged' = [staged EXCEPT !.broken = TRUE]
     /\ Enters("advance_to", layer, TRUE, 2 * staged.next)
     /\ UNCHANGED <<weights, generation, relaxed, decode>>

AdvanceHalf ==
  /\ Running("advance_to") /\ at.half < 2 * at.arg
  /\ staged' = [staged EXCEPT !.rows = Half(Effective, @, at.half + 1)]
  /\ at' = [at EXCEPT !.half = @ + 1]
  /\ UNCHANGED <<weights, generation, relaxed, decode, out>>

AdvanceReturns ==
  /\ Running("advance_to") /\ at.half = 2 * at.arg
  /\ staged' = [staged EXCEPT !.next = at.arg, !.broken = FALSE]
  /\ Returns("advance_to", "done")
  /\ UNCHANGED <<weights, generation, relaxed, decode>>

\* encode_part moves the residual and does not advance; no latch is set when
\* it fails, before or after it moved the residual.
EncodePart(h) ==
  /\ Usable(staged) /\ ~relaxed
  /\ ~staged.moved     \* bound: once per session
  /\ \E moves \in BOOLEAN, result \in {"done", "failed"} :
       /\ moves \/ result = "failed"
       /\ staged' = [staged EXCEPT !.rows = IF moves THEN Half(Effective, @, h) ELSE @,
                                   !.moved = TRUE]
       /\ Returns("encode_part", result)
  /\ UNCHANGED <<weights, generation, relaxed, decode>>

\* logits reads the residual and writes none of the session.
Logits ==
  \/ staged # NoSession /\ Fails("logits")
  \/ /\ Usable(staged) /\ ~relaxed
     /\ Answers("logits", LmHead(Effective, staged.rows[Len(staged.ids)]))
     /\ UNCHANGED <<weights, generation, relaxed, staged, decode>>

-----------------------------------------------------------------------------
(* The decode session.                                                     *)

\* prefill: an error leaves no session behind.
Prefill(ids, maxNew) ==
  \/ Fails("prefill")
  \/ /\ ~relaxed
     /\ staged = NoSession     \* bound: one kind of session
     /\ \E fused \in BOOLEAN :
          decode' = [ids |-> ids, max_new |-> maxNew, decoded |-> 0, broken |-> FALSE,
                     since |-> generation, fused |-> fused,
                     carry |-> [l \in 1 .. Depth |-> Kept(Effective, l, Rows(weights, ids), maxNew)]]
     /\ Answers("prefill",
                LmHead(Effective, Run(Effective, Rows(weights, ids), 0, Halves)[Len(ids)]))
     /\ UNCHANGED <<weights, generation, relaxed, staged>>

SetFusion ==
  /\ decode # NoSession
  /\ decode' = [decode EXCEPT !.fused = ~@]
  /\ Returns("set_fusion", "done")
  /\ UNCHANGED <<weights, generation, relaxed, staged>>

CanStep ==
  /\ Usable(decode) /\ ~relaxed
  /\ decode.decoded < decode.max_new

\* Faulty variant of Step: the session is latched before the allocations.
StepLatched(id) ==
  \/ decode # NoSession /\ ~CanStep /\ Fails("step")
  \/ /\ CanStep
     /\ Enters("step", id, FALSE, 0)
     /\ decode' = [decode EXCEPT !.broken = TRUE]
     /\ UNCHANGED <<weights, generation, relaxed, staged>>

\* step, up to its checks.
Step(id) ==
  \/ decode # NoSession /\ ~CanStep /\ Fails("step")
  \/ /\ CanStep
     /\ Enters("step", id, FALSE, 0)
     /\ UNCHANGED <<weights, generation, relaxed, staged, decode>>

\* The scalars are allocated and the embedding is launched; then the latch.
StepBegins ==
  /\ Running("step") /\ ~at.begun
  /\ at' = [at EXCEPT !.begun = TRUE, !.resid = <<Embed(Effective, at.arg)>>]
  /\ decode' = [decode EXCEPT !.broken = TRUE]
  /\ UNCHANGED <<weights, generation, relaxed, staged, out>>

\* The activations of the step in progress, and the state it continues.
InToken == [resid |-> at.resid, pending |-> at.pending, carry |-> decode.carry]

StepHalf ==
  /\ Running("step") /\ at.begun /\ at.half < Halves
  /\ LET t == TokenHalf(Effective, InToken, at.half + 1, decode.decoded, decode.fused)
     IN /\ at' = [at EXCEPT !.half = @ + 1, !.resid = t.resid, !.pending = t.pending]
        /\ decode' = [decode EXCEPT !.carry = t.carry]
  /\ UNCHANGED <<weights, generation, relaxed, staged, out>>

\* Faulty variant of StepReturns: the token is not counted.
StepReturnsUncounted ==
  /\ Running("step") /\ at.begun /\ at.half = Halves
  /\ decode' = [decode EXCEPT !.ids = Append(@, at.arg), !.broken = FALSE]
  /\ Answers("step", TokenRow(Effective, InToken))
  /\ UNCHANGED <<weights, generation, relaxed, staged>>

\* The wait and the read are behind it: the row, the count, the latch.
StepReturns ==
  /\ Running("step") /\ at.begun /\ at.half = Halves
  /\ decode' = [decode EXCEPT !.ids = Append(@, at.arg), !.decoded = @ + 1,
                              !.broken = FALSE]
  /\ Answers("step", TokenRow(Effective, InToken))
  /\ UNCHANGED <<weights, generation, relaxed, staged>>

-----------------------------------------------------------------------------
(* Writes to the weights.                                                  *)

Write(call, p) ==
  /\ generation < MaxWrites     \* bound
  /\ Enters(call, p, FALSE, 0)
  /\ UNCHANGED <<weights, generation, relaxed, staged, decode>>

Writing == Running("write_parameters") \/ Running("write_parameter_host")

\* Every tensor is checked, or the mapping is held: the generation, before a
\* byte lands.
WriteBegins ==
  /\ Writing /\ ~at.begun
  /\ generation' = generation + 1
  /\ at' = [at EXCEPT !.begun = TRUE]
  /\ UNCHANGED <<weights, relaxed, staged, decode, out>>

\* write_parameters copies one parameter after the other and waits.
CopyParameter ==
  /\ Running("write_parameters") /\ at.begun /\ at.half <= Depth
  /\ weights' = [weights EXCEPT ![at.half] = generation]
  /\ at' = [at EXCEPT !.half = @ + 1]
  /\ UNCHANGED <<generation, relaxed, staged, decode, out>>

WriteReturns ==
  /\ \/ Running("write_parameters") /\ at.half = Depth + 1 /\ UNCHANGED weights
     \/ /\ Running("write_parameter_host") /\ at.begun
        /\ weights' = [weights EXCEPT ![at.arg] = generation]
  /\ Returns(at.op, "done")
  /\ UNCHANGED <<generation, relaxed, staged, decode>>

\* External: the runtime's switch, thrown by any caller between the calls.
SetRelaxed ==
  /\ relaxed' = ~relaxed
  /\ Returns("set_relaxed", "done")
  /\ UNCHANGED <<weights, generation, staged, decode>>

Call ==
  \/ \E ids \in Prompts : Begin(ids) \/ \E n \in MaxNews : Prefill(ids, n)
  \/ \E layer \in 0 .. Depth : Advance(layer)
  \/ \E h \in 1 .. Halves : EncodePart(h)
  \/ Logits
  \/ SetFusion
  \/ \E id \in Tokens : Step(id)
  \/ Write("write_parameters", 0)
  \/ \E p \in 0 .. Depth : Write("write_parameter_host", p)
  \/ SetRelaxed

Next ==
  \/ at = NoCall /\ Call
  \/ AdvanceHalf \/ AdvanceReturns
  \/ StepBegins \/ StepHalf \/ StepReturns
  \/ WriteBegins \/ CopyParameter \/ WriteReturns
  \/ CallFails

Spec == Init /\ [][Next]_vars

-----------------------------------------------------------------------------
(* Properties.                                                             *)

\* Every variable has its type; a session that is usable has kept exactly
\* one recurrent input per token and one suffix entry per decoded token.
TypeOK ==
  /\ generation \in 0 .. MaxWrites /\ weights \in [0 .. Depth -> 0 .. generation]
  /\ relaxed \in BOOLEAN
  /\ staged # NoSession =>
       /\ staged.ids \in Prompts /\ DOMAIN staged.rows = DOMAIN staged.ids
       /\ staged.next \in 0 .. Depth /\ staged.since \in 0 .. generation
  /\ decode # NoSession =>
       /\ decode.ids \in Seq(Tokens) /\ decode.decoded \in 0 .. decode.max_new
       /\ decode.since \in 0 .. generation
       /\ ~decode.broken => \A l \in 1 .. Depth :
            IF Layers[l] = "gdn" THEN Len(decode.carry[l].state) = Len(decode.ids)
            ELSE \A s \in 0 .. decode.max_new - 1 :
                   decode.carry[l].suffix[s] # Unwritten <=> s < decode.decoded
  /\ at # NoCall => at.half \in 0 .. Halves + 1

\* A staged prefill advanced in steps, with writes, failures and the relaxed
\* switch between them, answers what one forward to that layer answers under
\* the weights as they stand (Staged: "computes exactly what one forward
\* computes"), unless parts were encoded outside the order.
StagedIsForward ==
  out.call = "logits" /\ out.result = "row" /\ ~staged.moved =>
    out.row = Forward(staged.ids, weights, staged.next)

\* A call that returns an error either had begun to move what a session or
\* the weights hold, and then no session of before may be used again, or it
\* leaves every session and the weights as it found them, and can be tried
\* again (Decode::step, advance_to, write_parameters, write_parameter_host).
FailuresAreSettled ==
  [][at # NoCall /\ at' = NoCall /\ out'.result = "failed" =>
       IF at.begun THEN ~Usable(staged)' /\ ~Usable(decode)' ELSE Sessions' = at.was]_vars

\* The decode session is the abstract one: a step on the kept state, with
\* the conv's two sides, the suffix cache and the deferred add, answers the
\* row of a whole forward over the tokens, and a failure or a write ends it
\* for good (Decode::step).
WholeForward(ids, w) == Forward(ids, w, Depth)
Alive == Usable(decode) \/ (Running("step") /\ at.begun)   \* a step in progress may yet return
Promise == INSTANCE DecodePromise WITH
  NoRow <- None, Row <- WholeForward,
  tokens <- IF decode = NoSession THEN <<>> ELSE decode.ids,
  left <- IF decode = NoSession THEN 0 ELSE decode.max_new - decode.decoded,
  alive <- Alive,
  answer <- IF out.call \in {"prefill", "step"} THEN out.row ELSE None
KeepsPromise == Promise!Spec

=============================================================================
