------------------------------- MODULE MCCache -------------------------------
(* Cache for TLC: more keys than the capacity, two threads. *)
EXTENDS Cache, TLC

Symmetry == Permutations(Key) \cup Permutations(Thread)
=============================================================================
