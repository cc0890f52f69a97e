--------------------------- MODULE DecodePromise ----------------------------
(***************************************************************************)
(* What a decode session promises its caller (qwen35_model.rs, Decode): a  *)
(* session is a sequence of tokens, each step appends one and answers with *)
(* the row a whole forward over the sequence gives; a step that fails part *)
(* way, or a write to the weights, ends the session for good; any other    *)
(* call leaves it as it was.                                               *)
(***************************************************************************)
EXTENDS Integers, Sequences

CONSTANTS
  Tokens,        \* token ids
  NoRow,         \* what a call that returns no row answers
  Row(_, _)      \* the last row of a forward of tokens under weights

VARIABLES tokens, left, alive, weights, answer

vars == <<tokens, left, alive, weights, answer>>

Init ==
  /\ tokens = <<>> /\ left = 0 /\ alive = FALSE /\ answer = NoRow

Prefill ==
  /\ tokens' \in Seq(Tokens) /\ left' \in Nat
  /\ alive' = TRUE
  /\ answer' = Row(tokens', weights)
  /\ UNCHANGED weights

Step ==
  /\ alive /\ left > 0
  /\ \E id \in Tokens : tokens' = Append(tokens, id)
  /\ left' = left - 1
  /\ answer' = Row(tokens', weights)
  /\ UNCHANGED <<alive, weights>>

\* The session ends, by a failure or a write; only then may weights move.
End ==
  /\ alive' = FALSE /\ answer' = NoRow
  /\ UNCHANGED <<tokens, left>>

Other ==
  /\ answer' = NoRow
  /\ UNCHANGED <<tokens, left, alive, weights>>

Next == Prefill \/ Step \/ End \/ Other

Spec == Init /\ [][Next]_vars

=============================================================================
