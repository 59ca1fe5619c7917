------------------------------- MODULE MCPipe -------------------------------
(* Pipe for TLC: bytes are interchangeable.                                *)
EXTENDS Pipe

Symmetry == Permutations(Byte)
=============================================================================
