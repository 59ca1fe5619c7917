---------------------------- MODULE BufferCache ----------------------------
(***************************************************************************)
(* The buffer cache (bio.c) on the disk driver, for processes that read a  *)
(* block, change it as log_write does (the buffer is pinned until the      *)
(* commit installs it) or install it as install_trans does.                *)
(*                                                                         *)
(* A step is one critical section of bcache.lock or of the driver, or the  *)
(* acquisition or release of a buffer's sleep lock.  A process uses one    *)
(* buffer at a time.                                                       *)
(***************************************************************************)
EXTENDS VirtioDisk, SequencesExt

CONSTANTS
    MaxPinned,  \* bound: buffers that a transaction pins
    MaxCalls    \* bound: calls of bget

ASSUME CacheAssumption == MaxCalls \in Nat

VARIABLES
    lru,        \* the list of bcache, most recently used first
    lock,       \* the process that has the buffer's sleep lock
    op,         \* what the process wants of the block
    pinned,     \* buffers that the log has pinned
    calls,      \* calls of bget so far
    panic

cacheVars == <<lru, lock, op, pinned, calls, panic>>
vars == <<driverVars, buf, pc, mine, write, cacheVars>>

Init ==
    /\ DriverInit
    /\ \E d \in Data :
         buf = [b \in Buf |-> [block |-> None, valid |-> FALSE, disk |-> FALSE, refcnt |-> 0, data |-> d]]
    /\ pc = [p \in Proc |-> "idle"]
    /\ mine = [p \in Proc |-> None]
    /\ write = [p \in Proc |-> FALSE]
    /\ lru = SetToSeq(Buf)
    /\ lock = [b \in Buf |-> None]
    /\ op = [p \in Proc |-> "read"]
    /\ pinned = {}
    /\ calls = 0
    /\ panic = FALSE

TypeOK ==
    /\ DriverTypeOK
    /\ buf \in [Buf -> [block : Block \cup {None}, valid : BOOLEAN, disk : BOOLEAN,
                        refcnt : 0 .. Cardinality(Proc) + 1, data : Data]]
    /\ pc \in [Proc -> {"idle", "lock", "have", "release"} \cup DriverPcs]
    /\ mine \in [Proc -> Buf \cup {None}]
    /\ write \in [Proc -> BOOLEAN]
    /\ op \in [Proc -> {"read", "change", "install", "unpin"}]
    /\ lru \in Seq(Buf) /\ Len(lru) = Cardinality(Buf) /\ ToSet(lru) = Buf
    /\ lock \in [Buf -> Proc \cup {None}]
    /\ pinned \subseteq Buf /\ calls \in 0 .. MaxCalls /\ panic \in BOOLEAN

Holding(blk) == {b \in Buf : buf[b].block = blk}
\* mutant of Recyclable: a buffer that is not locked may go
RecyclableUnlocked(b) == lock[b] = None
Recyclable(b) == buf[b].refcnt = 0

\* bget, up to acquiresleep.  Only the process that commits installs, and
\* only a block with a pinned buffer.
Bget(p, blk, o) ==
    /\ pc[p] = "idle" /\ ~panic
    /\ calls < MaxCalls
    /\ calls' = calls + 1
    /\ o = "install" => /\ \E b \in pinned : buf[b].block = blk
                        /\ \A q \in Proc : op[q] \notin {"install", "unpin"}
    /\ o = "change" => \/ \E b \in pinned : buf[b].block = blk
                       \/ Cardinality(pinned) + Cardinality({q \in Proc : op[q] = "change"}) < MaxPinned
    /\ op' = [op EXCEPT ![p] = o]
    /\ LET unused == {i \in DOMAIN lru : Recyclable(lru[i])}
           new == lru[Max(unused)]
       IN  IF Holding(blk) # {}
           THEN \E b \in Holding(blk) :
                  /\ buf' = [buf EXCEPT ![b].refcnt = @ + 1]
                  /\ mine' = [mine EXCEPT ![p] = b]
                  /\ Goto(p, "lock")
                  /\ UNCHANGED panic
           ELSE IF unused = {} THEN panic' = TRUE /\ UNCHANGED <<buf, mine, pc>>
           ELSE /\ buf' = [buf EXCEPT ![new] = [@ EXCEPT !.block = blk, !.valid = FALSE, !.refcnt = 1]]
                /\ mine' = [mine EXCEPT ![p] = new]
                /\ Goto(p, "lock")
                /\ UNCHANGED panic
    /\ UNCHANGED <<driverVars, write, lru, lock, pinned>>

\* acquiresleep; bread reads the block if the buffer is not valid.
Bread(p) ==
    /\ pc[p] = "lock"
    /\ lock[mine[p]] = None
    /\ lock' = [lock EXCEPT ![mine[p]] = p]
    /\ Goto(p, IF buf[mine[p]].valid THEN "have" ELSE "rw")
    /\ UNCHANGED <<driverVars, buf, mine, write, lru, op, pinned, calls, panic>>

\* the end of virtio_disk_rw, and b->valid = 1 of bread
Transferred(p) ==
    /\ RwDone(p, "have")
    /\ buf' = [buf EXCEPT ![mine[p]].valid = TRUE]
    /\ UNCHANGED <<medium, avail, used, mine, write, cacheVars>>

\* log_write: change the data and pin the buffer, once a transaction
Change(p) ==
    /\ pc[p] = "have" /\ op[p] = "change"
    /\ \E d \in Data :
         buf' = [buf EXCEPT ![mine[p]].data = d,
                            ![mine[p]].refcnt = IF mine[p] \in pinned THEN @ ELSE @ + 1]
    /\ pinned' = pinned \cup {mine[p]}
    /\ op' = [op EXCEPT ![p] = "read"]
    /\ UNCHANGED <<driverVars, pc, mine, write, lru, lock, calls, panic>>

\* install_trans: bwrite, then bunpin
Bwrite(p) ==
    /\ pc[p] = "have" /\ op[p] = "install"
    /\ write' = [write EXCEPT ![p] = TRUE]
    /\ op' = [op EXCEPT ![p] = "unpin"]
    /\ Goto(p, "rw")
    /\ UNCHANGED <<driverVars, buf, mine, lru, lock, pinned, calls, panic>>

Bunpin(p) ==
    /\ pc[p] = "have" /\ op[p] = "unpin"
    /\ buf' = [buf EXCEPT ![mine[p]].refcnt = @ - 1]
    /\ pinned' = pinned \ {mine[p]}
    /\ op' = [op EXCEPT ![p] = "read"]
    /\ UNCHANGED <<driverVars, pc, mine, write, lru, lock, calls, panic>>

\* The list s with b in front
ToFront(s, b) ==
    [i \in DOMAIN s |-> IF i = 1 THEN b
                       ELSE IF \E j \in DOMAIN s : j >= i /\ s[j] = b THEN s[i - 1] ELSE s[i]]

\* brelse: releasesleep, then the count and the list
Brelse(p) ==
    /\ pc[p] = "have" /\ op[p] = "read"
    /\ lock' = [lock EXCEPT ![mine[p]] = None]
    /\ Goto(p, "release")
    /\ UNCHANGED <<driverVars, buf, mine, write, lru, op, pinned, calls, panic>>

BrelseCount(p) ==
    /\ pc[p] = "release"
    /\ buf' = [buf EXCEPT ![mine[p]].refcnt = @ - 1]
    /\ lru' = IF buf[mine[p]].refcnt = 1 THEN ToFront(lru, mine[p]) ELSE lru
    /\ mine' = [mine EXCEPT ![p] = None]
    /\ write' = [write EXCEPT ![p] = FALSE]
    /\ Goto(p, "idle")
    /\ UNCHANGED <<driverVars, lock, op, pinned, calls, panic>>
-----------------------------------------------------------------------------
Driver(p) == Rw(p) /\ UNCHANGED cacheVars
DeviceStep == (Intr \/ \E i \in Desc : Device(i)) /\ UNCHANGED cacheVars
Release(p) == Change(p) \/ Bwrite(p) \/ Bunpin(p) \/ Brelse(p) \/ BrelseCount(p)

\* The kernel halts in panic("bget: no buffers"), or the bound is reached.
Halt ==
    /\ panic \/ (calls = MaxCalls /\ \A p \in Proc : pc[p] = "idle")
    /\ UNCHANGED vars

Next ==
    \/ \E p \in Proc :
         \/ \E blk \in Block, o \in {"read", "change", "install"} : Bget(p, blk, o)
         \/ Bread(p) \/ Driver(p) \/ Transferred(p) \/ Release(p)
    \/ DeviceStep
    \/ Halt

Spec == Init /\ [][Next]_vars

-----------------------------------------------------------------------------
(* Properties *)

\* Every variable has its type; a descriptor is free or in the chain of one
\* request; a request given to the device finds its own buffer, and that
\* buffer stays with its process until the interrupt: alloc3_desc that fails
\* half way, several completions in one interrupt and processes that wait for
\* descriptors included.
RequestsExact ==
    /\ TypeOK
    /\ \A p \in Proc : idx[p] \cap free = {} /\ \A q \in Proc \ {p} : idx[p] \cap idx[q] = {}
    /\ Cardinality(free) + 3 * Cardinality({p \in Proc : idx[p] # {}}) = NUM
    /\ \A i \in avail \cup ToSet(used) : \E p \in Proc :
         /\ idx[p] # {} /\ i = Min(idx[p]) /\ info[i] = mine[p]
         /\ lock[mine[p]] = p /\ buf[mine[p]].disk /\ pc[p] = "io_sleep"

UserOf(blk) == {p \in Proc : mine[p] # None /\ buf[mine[p]].block = blk /\ lock[mine[p]] = p
                    /\ (pc[p] = "have" \/ write[p])}
ValueOf(blk) == LET cached == {b \in Holding(blk) : buf[b].valid}
                IN  IF cached = {} THEN medium[blk] ELSE buf[CHOOSE b \in cached : TRUE].data
Promise == INSTANCE BlockStore WITH
    value <- [blk \in Block |-> ValueOf(blk)],
    user  <- [blk \in Block |-> IF UserOf(blk) = {} THEN None ELSE CHOOSE p \in UserOf(blk) : TRUE]

\* Two processes never use a block at once, nor two buffers of it; what one
\* changes the next one sees, though buffers are recycled, read and written
\* in between.
ImplementsBlockStore == Promise!Spec

\* Nobody sleeps in the driver in vain: who waits for descriptors can count on
\* a process that will free some, who waits for its request on the device or
\* on the interrupt.
DriverWakes ==
    /\ (\E p \in Proc : pc[p] = "rw_sleep") => \E q \in Proc : idx[q] # {} \/ pc[q] = "rw"
    /\ \A p \in Proc : pc[p] = "io_sleep" => Min(idx[p]) \in avail \cup ToSet(used)

-----------------------------------------------------------------------------
(* The inductive invariant behind the three *)

Installs(p) == op[p] \in {"install", "unpin"}
InDriver(p) == pc[p] \in DriverPcs
Requests(p) == pc[p] \in {"io_sleep", "io"}
Users(b) == {p \in Proc : mine[p] = b}

\* A process has a buffer from bget to brelse, and locks it in between.  The
\* count of a buffer is exact, and a block has one buffer.
ProcUse(p) ==
    /\ pc[p] = "idle" <=> mine[p] = None
    /\ pc[p] # "idle" => /\ buf[mine[p]].block # None
                         /\ lock[mine[p]] = p <=> pc[p] = "have" \/ InDriver(p)
    /\ pc[p] \in {"idle", "lock"} => ~write[p]
    /\ pc[p] = "release" => op[p] = "read"
    /\ Installs(p) => pc[p] # "idle" /\ mine[p] \in pinned /\ \A q \in Proc : Installs(q) => p = q
    /\ op[p] = "unpin" => write[p]
    /\ op[p] = "install" \/ (InDriver(p) /\ op[p] = "change") => ~write[p]
    /\ InDriver(p) => buf[mine[p]].valid = write[p] /\ (write[p] => op[p] = "unpin")
    /\ pc[p] = "have" => buf[mine[p]].valid

BufUse(b) ==
    /\ lock[b] # None => mine[lock[b]] = b
    /\ buf[b].refcnt = Cardinality(Users(b)) + (IF b \in pinned THEN 1 ELSE 0)
    /\ b \in pinned => buf[b].valid /\ buf[b].block # None
    /\ buf[b].valid => buf[b].block # None
    /\ \A c \in Buf : buf[b].block = buf[c].block /\ buf[b].block # None => b = c

UseInv == (\A p \in Proc : ProcUse(p)) /\ \A b \in Buf : BufUse(b)

\* The processes with a request own a chain, known to the device by its head.
ChainInv ==
    /\ \A p \in Proc :
         /\ idx[p] # {} <=> Requests(p)
         /\ Requests(p) => /\ Cardinality(idx[p]) = 3 /\ info[Min(idx[p])] = mine[p]
                           /\ buf[mine[p]].disk <=> pc[p] = "io_sleep"
    /\ \A i, j \in DOMAIN used : used[i] = used[j] => i = j
    /\ avail \cap ToSet(used) = {}

\* A valid buffer and the disk differ only while the buffer is pinned; a
\* request that the device has carried out has made them equal.
Clean(b) == buf[b].data = medium[buf[b].block]
DataInv ==
    /\ \A b \in Buf : buf[b].valid /\ b \notin pinned => Clean(b)
    /\ \A p \in Proc :
         /\ Requests(p) /\ Min(idx[p]) \notin avail => Clean(mine[p])
         /\ pc[p] = "have" /\ op[p] = "unpin" => Clean(mine[p])

Inv == RequestsExact /\ DriverWakes /\ UseInv /\ ChainInv /\ DataInv
=============================================================================
