--------------------------- MODULE MCSharedBuffer ---------------------------
(* Small instances of SharedBuffer for TLC. *)
EXTENDS SharedBuffer, TLC

\* Host threads are interchangeable.
ThreadSymmetry == Permutations(Threads)
=============================================================================
