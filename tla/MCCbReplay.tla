----------------------------- MODULE MCCbReplay -----------------------------
(* CbReplay for TLC.                                                       *)
EXTENDS CbReplay, TLC

Arg(v0, v1) == (0 :> v0 @@ 1 :> v1)
MCArgs == {Arg("a", "b"), Arg("b", "z")}
MCRebinds == {<<0, "x">>}
MCBuilt == {Arg("a", "b")}

=============================================================================
