----------------------------- MODULE BlockStore -----------------------------
(***************************************************************************)
(* What the buffer cache promises (bio.c): one process at a time uses a    *)
(* block, and it sees what the last one left there.                        *)
(***************************************************************************)
CONSTANTS Proc, Block, Data, None

VARIABLES
    value,     \* contents of the blocks
    user       \* the process between bread and brelse of a block, or None

Init ==
    /\ value \in [Block -> Data]
    /\ user = [b \in Block |-> None]

Acquire(p, b) ==
    /\ user[b] = None
    /\ user' = [user EXCEPT ![b] = p]
    /\ UNCHANGED value

Write(p, b) ==
    /\ user[b] = p
    /\ \E d \in Data : value' = [value EXCEPT ![b] = d]
    /\ UNCHANGED user

Release(p, b) ==
    /\ user[b] = p
    /\ user' = [user EXCEPT ![b] = None]
    /\ UNCHANGED value

Next == \E p \in Proc, b \in Block : Acquire(p, b) \/ Write(p, b) \/ Release(p, b)

vars == <<value, user>>

Spec == Init /\ [][Next]_vars
=============================================================================
