---------------------------- MODULE MCBufferPool ----------------------------
(* Small instances of BufferPool for TLC. *)
EXTENDS BufferPool, TLC

\* Pools are interchangeable.
PoolSymmetry == Permutations(Pools)
=============================================================================
