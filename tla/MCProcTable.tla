---------------------------- MODULE MCProcTable ----------------------------
(* ProcTable on a small machine.  CPUs are interchangeable, slots are not. *)
EXTENDS ProcTable, TLC

Symmetry == Permutations(CPU)
=============================================================================
