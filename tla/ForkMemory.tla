---------------------------- MODULE ForkMemory ----------------------------
(***************************************************************************)
(* What fork, sbrk, exit and a store promise to user programs: every       *)
(* process has a memory of its own.  fork gives the child a copy of the    *)
(* parent's memory; from then on a write of one process is seen by that    *)
(* process only.  Pages, reference counts and page faults do not exist at  *)
(* this level.                                                             *)
(***************************************************************************)
EXTENDS Integers

CONSTANTS
    Proc,        \* slots of the process table
    initproc,    \* the first process, which never exits
    MaxPages,    \* largest size of a process, in pages
    Data,        \* what a page may hold
    Zero         \* the content of a page that sbrk has just added

VARIABLES
    live,        \* the processes
    size,        \* size[p]: pages of p
    mem          \* mem[p][v]: what p reads at page v

vars == <<live, size, mem>>

VA == 0 .. MaxPages - 1

Blank == [v \in VA |-> Zero]     \* the pages at and above size[p] read as Zero

TypeOK ==
    /\ live \subseteq Proc
    /\ size \in [Proc -> 0 .. MaxPages]
    /\ mem \in [Proc -> [VA -> Data]]

Init ==
    /\ live = {initproc}
    /\ size = [p \in Proc |-> IF p = initproc THEN 1 ELSE 0]
    /\ mem = [p \in Proc |-> Blank]

Write(p, v, d) ==
    /\ p \in live
    /\ v < size[p]
    /\ mem' = [mem EXCEPT ![p][v] = d]
    /\ UNCHANGED <<live, size>>

Fork(p, c) ==
    /\ p \in live
    /\ c \notin live
    /\ live' = live \cup {c}
    /\ size' = [size EXCEPT ![c] = size[p]]
    /\ mem' = [mem EXCEPT ![c] = mem[p]]

\* sbrk(n), n > 0: the new pages read as Zero.
Grow(p, n) ==
    /\ p \in live
    /\ n > size[p]
    /\ size' = [size EXCEPT ![p] = n]
    /\ UNCHANGED <<live, mem>>

\* sbrk(n), n < 0: the pages given up are gone.
Shrink(p, n) ==
    /\ p \in live
    /\ n < size[p]
    /\ size' = [size EXCEPT ![p] = n]
    /\ mem' = [mem EXCEPT ![p] = [v \in VA |-> IF v < n THEN mem[p][v] ELSE Zero]]
    /\ UNCHANGED live

Exit(p) ==
    /\ p \in live
    /\ p # initproc
    /\ live' = live \ {p}
    /\ size' = [size EXCEPT ![p] = 0]
    /\ mem' = [mem EXCEPT ![p] = Blank]

Next ==
    \E p \in Proc :
        \/ \E v \in VA, d \in Data : Write(p, v, d)
        \/ \E c \in Proc : Fork(p, c)
        \/ \E n \in 0 .. MaxPages : Grow(p, n) \/ Shrink(p, n)
        \/ Exit(p)

Spec == Init /\ [][Next]_vars
=============================================================================
