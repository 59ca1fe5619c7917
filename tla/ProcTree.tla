------------------------------ MODULE ProcTree ------------------------------
(***************************************************************************)
(* What fork, exit and wait (kernel/proc.c) promise to programs: a family  *)
(* tree.  A process that exits stays a zombie until its parent, or init if *)
(* the parent has exited, has waited for it; it is waited for once.        *)
(***************************************************************************)
CONSTANTS
    Proc,
    initproc,
    Nobody

VARIABLES
    live,       \* processes that may run
    zombies,    \* processes that have exited and are not waited for
    parent      \* parent of the live processes and zombies

vars == <<live, zombies, parent>>

Init ==
    /\ live = {initproc}
    /\ zombies = {}
    /\ parent = [p \in Proc |-> Nobody]

Fork(p, q) ==
    /\ p \in live
    /\ q \notin live \cup zombies
    /\ live' = live \cup {q}
    /\ parent' = [parent EXCEPT ![q] = p]
    /\ UNCHANGED zombies

\* The children of p, zombies too, become children of init.
Exit(p) ==
    /\ p \in live \ {initproc}
    /\ live' = live \ {p}
    /\ zombies' = zombies \cup {p}
    /\ parent' = [q \in Proc |-> IF parent[q] = p THEN initproc ELSE parent[q]]

Wait(p, q) ==
    /\ p \in live
    /\ q \in zombies
    /\ parent[q] = p
    /\ zombies' = zombies \ {q}
    /\ parent' = [parent EXCEPT ![q] = Nobody]
    /\ UNCHANGED live

Next ==
    \E p \in Proc : Exit(p) \/ \E q \in Proc : Fork(p, q) \/ Wait(p, q)

Spec == Init /\ [][Next]_vars
=============================================================================
