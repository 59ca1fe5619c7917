--------------------------- MODULE MCBufferCache ---------------------------
(* BufferCache for TLC: processes, blocks and data are interchangeable.    *)
EXTENDS BufferCache, TLC

Symmetry == Permutations(Proc) \cup Permutations(Block) \cup Permutations(Data)
=============================================================================
