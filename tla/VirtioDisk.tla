----------------------------- MODULE VirtioDisk -----------------------------
(***************************************************************************)
(* The disk driver (virtio_disk.c) and the device behind it.               *)
(*                                                                         *)
(* A step of the driver is one critical section of vdisk_lock, up to a     *)
(* sleep; the device carries out the requests it was given in any order.   *)
(* The rings avail and used are modelled as the set and the sequence of    *)
(* the entries that the other side has not taken; their indices only say   *)
(* which these are.  Interrupt acknowledgement and memory barriers are     *)
(* left out: the handler may run whenever used has an entry.               *)
(***************************************************************************)
EXTENDS Integers, Sequences, FiniteSets, FiniteSetsExt

CONSTANTS
    Proc,
    Block,
    Data,
    Buf,        \* the NBUF buffers
    NUM,        \* descriptors
    None        \* no process, no buffer, no block

ASSUME DiskAssumption ==
    /\ NUM \in Nat /\ NUM >= 3
    /\ None \notin Proc \cup Buf \cup Block
    /\ IsFiniteSet(Proc) /\ IsFiniteSet(Buf)

Desc == 1 .. NUM

VARIABLES
    medium,     \* contents of the disk
    free,       \* disk.free: the descriptors that are free
    info,       \* disk.info[i].b
    avail,      \* heads of the chains given to the device
    used,       \* heads of the chains the device has finished
    buf,        \* block, valid, disk, refcnt and data of every buffer
    pc,         \* where a process is, in the driver or in its caller
    mine,       \* the buffer the process works on
    write,      \* the argument write of virtio_disk_rw
    idx         \* the chain the process has, as a set; its head is the least

driverVars == <<medium, free, info, avail, used, idx>>

DriverPcs == {"rw", "rw_sleep", "io_sleep", "io"}

DriverInit ==
    /\ medium \in {[blk \in Block |-> d] : d \in Data}
    /\ free = Desc
    /\ info = [i \in Desc |-> None]
    /\ avail = {}
    /\ used = <<>>
    /\ idx = [p \in Proc |-> {}]

DriverTypeOK ==
    /\ medium \in [Block -> Data]
    /\ free \subseteq Desc /\ avail \subseteq Desc
    /\ info \in [Desc -> Buf \cup {None}]
    /\ used \in Seq(Desc)
    /\ idx \in [Proc -> SUBSET Desc]

Goto(p, l) == pc' = [pc EXCEPT ![p] = l]

\* wakeup(&disk.free[0]) by p, which goes on at l
WakeupFree(p, l) ==
    pc' = [q \in Proc |-> IF q = p THEN l ELSE IF pc[q] = "rw_sleep" THEN "rw" ELSE pc[q]]

\* alloc3_desc takes the first three that are free; if there are fewer it
\* puts them back, and free_desc wakes whoever waits.
Rw(p) ==
    /\ pc[p] = "rw"
    /\ IF Cardinality(free) >= 3
       THEN LET chain == CHOOSE c \in kSubset(3, free) : \A i \in c, j \in free \ c : i < j
                head == Min(chain)
            IN  /\ free' = free \ chain
                /\ idx' = [idx EXCEPT ![p] = chain]
                /\ info' = [info EXCEPT ![head] = mine[p]]
                /\ avail' = avail \cup {head}
                /\ buf' = [buf EXCEPT ![mine[p]].disk = TRUE]
                /\ Goto(p, "io_sleep")
       ELSE /\ IF free = {} THEN Goto(p, "rw_sleep") ELSE WakeupFree(p, "rw_sleep")
            /\ UNCHANGED <<free, idx, info, avail, buf>>
    /\ UNCHANGED <<medium, used, mine, write>>

\* The device reads the descriptors of a chain, moves the data, and returns
\* the chain.  The descriptors name the buffer of the process that has them.
Device(i) ==
    /\ i \in avail
    /\ \E p \in Proc :
         /\ i \in idx[p]
         /\ LET b == mine[p] IN
            IF write[p]
            THEN medium' = [medium EXCEPT ![buf[b].block] = buf[b].data] /\ UNCHANGED buf
            ELSE buf' = [buf EXCEPT ![b].data = medium[buf[b].block]] /\ UNCHANGED medium
    /\ avail' = avail \ {i}
    /\ used' = Append(used, i)
    /\ UNCHANGED <<free, info, pc, mine, write, idx>>

\* mutant of Finished: the handler looks at the newest entry only
FinishedLast == {info[used[Len(used)]]}
Finished == {info[used[k]] : k \in DOMAIN used}

\* virtio_disk_intr: all of the used ring
Intr ==
    /\ used # <<>>
    /\ buf' = [b \in Buf |-> IF b \in Finished THEN [buf[b] EXCEPT !.disk = FALSE] ELSE buf[b]]
    /\ used' = <<>>
    /\ pc' = [p \in Proc |-> IF pc[p] = "io_sleep" /\ mine[p] \in Finished THEN "io" ELSE pc[p]]
    /\ UNCHANGED <<medium, free, info, avail, mine, write, idx>>

\* while(b->disk == 1) sleep; then free_chain, whose every free_desc wakes
\* the processes that wait for descriptors.
\* mutant of RwDone: one descriptor of the chain stays behind
RwDoneShort(p, l) ==
    /\ pc[p] = "io" /\ ~buf[mine[p]].disk
    /\ free' = free \cup (idx[p] \ {Max(idx[p])})
    /\ info' = [info EXCEPT ![Min(idx[p])] = None]
    /\ idx' = [idx EXCEPT ![p] = {}]
    /\ WakeupFree(p, l)
RwDone(p, l) ==
    /\ pc[p] = "io" /\ ~buf[mine[p]].disk
    /\ free' = free \cup idx[p]
    /\ info' = [info EXCEPT ![Min(idx[p])] = None]
    /\ idx' = [idx EXCEPT ![p] = {}]
    /\ WakeupFree(p, l)
=============================================================================
