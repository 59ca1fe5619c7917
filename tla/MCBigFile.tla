----------------------------- MODULE MCBigFile -----------------------------
(* BigFile for TLC: processes, files and data are interchangeable.         *)
EXTENDS BigFile, TLC

Symmetry == Permutations(Proc) \cup Permutations(File) \cup Permutations(Data)
=============================================================================
