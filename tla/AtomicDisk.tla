----------------------------- MODULE AtomicDisk -----------------------------
(***************************************************************************)
(* What the log (kernel/log.c) promises to the file system: the blocks an  *)
(* operation writes between begin_op and end_op reach the disk together or *)
(* not at all.  current is what the operations see, durable what a crash   *)
(* leaves.  Operations may overlap, and then they share their fate.        *)
(***************************************************************************)
CONSTANTS
    Proc,       \* processes that make file system calls
    Block,      \* blocks of the file system
    Data        \* contents of a block

VARIABLES
    current,    \* current[b]: what bread(b) returns
    durable,    \* durable[b]: what bread(b) returns after a crash
    active      \* processes between begin_op and end_op

vars == <<current, durable, active>>

Init ==
    /\ durable \in [Block -> Data]
    /\ current = durable
    /\ active = {}

Begin(p) ==
    /\ p \notin active
    /\ active' = active \cup {p}
    /\ UNCHANGED <<current, durable>>

Write(p, b, d) ==
    /\ p \in active
    /\ current' = [current EXCEPT ![b] = d]
    /\ UNCHANGED <<durable, active>>

End(p) ==
    /\ p \in active
    /\ active' = active \ {p}
    /\ UNCHANGED <<current, durable>>

\* No operation is half done when its writes become durable.
Commit ==
    /\ active = {}
    /\ durable' = current
    /\ UNCHANGED <<current, active>>

Crash ==
    /\ current' = durable
    /\ active' = {}
    /\ UNCHANGED durable

Next ==
    \/ \E p \in Proc :
         \/ Begin(p) \/ End(p)
         \/ \E b \in Block, d \in Data : Write(p, b, d)
    \/ Commit
    \/ Crash

Spec == Init /\ [][Next]_vars
=============================================================================
