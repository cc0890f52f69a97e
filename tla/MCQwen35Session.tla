-------------------------- MODULE MCQwen35Session ---------------------------
(* Qwen35Session for TLC: two layers, a gated delta net under attention.   *)
EXTENDS Qwen35Session, TLC

CONSTANTS a, b

MCLayers == <<"gdn", "attn">>
MCPrompts == {<<a>>, <<a, b>>}
MCMaxNews == {2}

=============================================================================
