--------------------------- MODULE MCTorchBinding ---------------------------
(* TorchBinding for TLC.                                                   *)
EXTENDS TorchBinding, TLC

CONSTANTS rt1, rt2, m1, m2, s1, s2

=============================================================================
