----------------------------- MODULE MCCowMem -----------------------------
(***************************************************************************)
(* CowMem on a small machine.  Frames, and the processes other than init,  *)
(* are interchangeable: their permutations are a symmetry of every         *)
(* invariant and of the abstract specifications.                           *)
(***************************************************************************)
EXTENDS CowMem, TLC

Symmetry == Permutations(Frames) \cup Permutations(Proc \ {initproc})
=============================================================================
