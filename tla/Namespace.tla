----------------------------- MODULE Namespace -----------------------------
(***************************************************************************)
(* What the file system promises about names (A4, fs.c and sysfile.c):     *)
(* a directory maps names to inodes, an inode may have several names, and  *)
(* it lives as long as it has one or a process holds it.                   *)
(***************************************************************************)
EXTENDS Naturals

CONSTANTS Proc, Name, Inum

VARIABLES
    live,     \* allocated inodes
    names,    \* the entries of every directory, 0 where there is none
    held      \* inodes that a process has open or as its current directory

vars == <<live, names, held>>

NoNames == [n \in Name |-> 0]
Named(i) == \E d \in live, n \in Name : names[d][n] = i
Held(i) == \E p \in Proc : i \in held[p]

Init ==
    /\ live \subseteq Inum
    /\ names \in [Inum -> [Name -> live \cup {0}]]
    /\ held \in [Proc -> SUBSET live]

Alloc(i) ==
    /\ i \notin live /\ names[i] = NoNames
    /\ live' = live \cup {i}
    /\ UNCHANGED <<names, held>>

Enter(d, n, i) ==
    /\ d \in live /\ i \in live
    /\ names[d][n] = 0
    /\ names' = [names EXCEPT ![d][n] = i]
    /\ UNCHANGED <<live, held>>

Remove(d, n) ==
    /\ names[d][n] # 0
    /\ names' = [names EXCEPT ![d][n] = 0]
    /\ UNCHANGED <<live, held>>

Free(i) ==
    /\ i \in live /\ ~Named(i) /\ ~Held(i)
    /\ live' = live \ {i}
    /\ names' = [names EXCEPT ![i] = NoNames]
    /\ UNCHANGED held

Hold(p) ==
    /\ \E S \in SUBSET live : held' = [held EXCEPT ![p] = S]
    /\ UNCHANGED <<live, names>>

Next ==
    \/ \E i \in Inum : Alloc(i) \/ Free(i)
    \/ \E d \in Inum, n \in Name : Remove(d, n) \/ \E i \in Inum : Enter(d, n, i)
    \/ \E p \in Proc : Hold(p)

Spec == Init /\ [][Next]_vars
=============================================================================
