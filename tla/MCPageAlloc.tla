---------------------------- MODULE MCPageAlloc ----------------------------
(* PageAlloc for TLC: CPUs that share pages through a few uses. *)
EXTENDS PageAlloc, TLC

Symmetry == Permutations(Thread) \cup Permutations(Frames) \cup Permutations(Use)
=============================================================================
