---------------------------- MODULE MCGpuRuntime ----------------------------
(* Small instances of GpuRuntime for TLC. *)
EXTENDS GpuRuntime, TLC

CONSTANTS b, e, h, w1, w2

MCOf == (h :> b @@ w1 :> e @@ w2 :> e)
MCOfLive == (h :> b)

\* Wraps are interchangeable.
WrapSymmetry == Permutations({w1, w2})
=============================================================================
