-------------------------------- MODULE Log --------------------------------
(***************************************************************************)
(* The redo log of the file system (kernel/log.c, the same file in all     *)
(* four kernels) on top of the buffer cache (kernel/bio.c) and a disk that *)
(* writes one block at a time and may lose power between two writes.       *)
(*                                                                         *)
(* A step is one critical section of log.lock or one block write.  The     *)
(* buffer of a block is locked from its change to log_write, so the two    *)
(* are one step.  An operation that ends last commits: write_log,          *)
(* write_head, install_trans, write_head.  After a crash the first process *)
(* to run calls initlog before any other exists.                           *)
(***************************************************************************)
EXTENDS Integers, Sequences, FiniteSets

CONSTANTS
    Proc,           \* processes that make file system calls
    Block,          \* blocks of the file system
    Data,           \* contents of a block
    None,           \* the block has no buffer
    MAXOPBLOCKS,    \* what begin_op reserves for an operation
    LOGSIZE,        \* length of the arrays in struct logheader
    LogBlocks,      \* log.size: sb->nlog, which mkfs sets to LOGSIZE
    OpBlocks,       \* how many blocks an operation writes at most
    Nested          \* processes whose operations call begin_op once more:
                    \* sys_open and sys_chdir call readlink (A4)

ASSUME LogAssumption ==
    /\ None \notin Data
    /\ MAXOPBLOCKS \in Nat /\ LOGSIZE \in Nat /\ LogBlocks \in Nat /\ OpBlocks \in Nat
    /\ Nested \subseteq Proc
    /\ IsFiniteSet(Proc)

\* param.h has MAXOPBLOCKS 10 and LOGSIZE MAXOPBLOCKS*3, and mkfs.c has nlog = LOGSIZE.
\* filewrite is the operation that writes most; it splits a large write, and
\* its parts can log as many blocks as begin_op reserves.
ASSUME SpaceAssumption ==
    /\ OpBlocks <= MAXOPBLOCKS
    /\ MAXOPBLOCKS < LOGSIZE
    /\ LogBlocks = LOGSIZE

VARIABLES
    \* the disk
    disk,           \* home locations
    logged,         \* log blocks
    head,           \* header block: the block numbers of the log blocks
    \* memory
    buf,            \* contents of the cached buffers
    pin,            \* refcnt that bpin has added to the buffer
    lh,             \* log.lh
    outstanding,    \* log.outstanding
    committing,     \* log.committing
    \* the processes
    pc,
    depth,          \* begin_op calls without their end_op
    written,        \* blocks the operation has written
    tail,           \* loop variable of write_log and install_trans
    boot            \* where initlog is

diskVars == <<disk, logged, head>>
logVars  == <<lh, outstanding, committing>>
procVars == <<pc, depth, written>>
vars == <<diskVars, buf, pin, logVars, procVars, tail, boot>>

CommitPcs == {"commit", "write_log", "write_head", "install", "clear", "committed"}
Slots == 1 .. LOGSIZE
InLog(s) == {s[i] : i \in DOMAIN s}

\* bread
View(b) == IF buf[b] = None THEN disk[b] ELSE buf[b]

TypeOK ==
    /\ disk \in [Block -> Data]
    /\ logged \in [Slots -> Data]
    /\ head \in Seq(Block) /\ Len(head) <= LOGSIZE
    /\ buf \in [Block -> Data \cup {None}]
    /\ pin \in [Block -> 0 .. 1]
    /\ lh \in Seq(Block) /\ Len(lh) <= LOGSIZE
    /\ outstanding \in 0 .. 2 * Cardinality(Proc)
    /\ committing \in BOOLEAN
    /\ pc \in [Proc -> {"idle", "begin", "sleep", "op", "panic"} \cup CommitPcs]
    /\ depth \in [Proc -> 0 .. 2]
    /\ written \in [Proc -> SUBSET Block]
    /\ tail \in 0 .. LOGSIZE
    /\ boot \in {"read_head", "install", "clear", "up"}

\* The memory at power on
PowerOn ==
    [buf |-> [b \in Block |-> None], pin |-> [b \in Block |-> 0],
     pc |-> [p \in Proc |-> "idle"], depth |-> [p \in Proc |-> 0],
     written |-> [p \in Proc |-> {}]]

\* mkfs has left an empty log.
Init ==
    /\ disk \in {[b \in Block |-> d] : d \in Data}
    /\ logged \in {[i \in Slots |-> d] : d \in Data}
    /\ head = <<>>
    /\ buf = PowerOn.buf
    /\ pin = PowerOn.pin
    /\ lh = <<>>
    /\ outstanding = 0
    /\ committing = FALSE
    /\ pc = PowerOn.pc
    /\ depth = PowerOn.depth
    /\ written = PowerOn.written
    /\ tail = 0
    /\ boot = "read_head"

Goto(p, l) == pc' = [pc EXCEPT ![p] = l]

\* acquire(&log.lock): a process that has panicked keeps the lock.
LockIsFree == \A p \in Proc : pc[p] # "panic"

\* wakeup(&log), and p goes on at l
WakeupAndGoto(p, l) ==
    pc' = [q \in Proc |-> IF q = p THEN l ELSE IF pc[q] = "sleep" THEN "begin" ELSE pc[q]]

-----------------------------------------------------------------------------
(* begin_op *)

Call(p) ==
    /\ boot = "up"
    /\ \/ pc[p] = "idle"
       \/ pc[p] = "op" /\ p \in Nested /\ depth[p] = 1
    /\ Goto(p, "begin")
    /\ UNCHANGED <<diskVars, buf, pin, logVars, depth, written, tail, boot>>

\* mutant of MayBegin: the new operation is not counted
MayBeginForOthers == ~committing /\ Len(lh) + outstanding * MAXOPBLOCKS <= LOGSIZE
MayBegin == ~committing /\ Len(lh) + (outstanding + 1) * MAXOPBLOCKS <= LOGSIZE

Begin(p) ==
    /\ pc[p] = "begin"
    /\ LockIsFree
    /\ MayBegin
    /\ outstanding' = outstanding + 1
    /\ depth' = [depth EXCEPT ![p] = @ + 1]
    /\ Goto(p, "op")
    /\ UNCHANGED <<diskVars, buf, pin, lh, committing, written, tail, boot>>

\* sleep(&log, &log.lock)
BeginSleep(p) ==
    /\ pc[p] = "begin"
    /\ LockIsFree
    /\ ~MayBegin
    /\ Goto(p, "sleep")
    /\ UNCHANGED <<diskVars, buf, pin, logVars, depth, written, tail, boot>>

-----------------------------------------------------------------------------
(* bread, a change of the data, log_write, brelse *)

LogFull == Len(lh) >= LOGSIZE \/ Len(lh) >= LogBlocks - 1

\* mutant of LogWrite: bpin is missing
LogWriteUnpinned(p, b, d) ==
    /\ pc[p] = "op"
    /\ LockIsFree
    /\ b \in written[p] \/ Cardinality(written[p]) < OpBlocks
    /\ ~LogFull
    /\ buf' = [buf EXCEPT ![b] = d]
    /\ written' = [written EXCEPT ![p] = @ \cup {b}]
    /\ lh' = IF b \in InLog(lh) THEN lh ELSE Append(lh, b)
    /\ UNCHANGED <<diskVars, pin, outstanding, committing, pc, depth, tail, boot>>

LogWrite(p, b, d) ==
    /\ pc[p] = "op"
    /\ LockIsFree
    /\ b \in written[p] \/ Cardinality(written[p]) < OpBlocks
    /\ \/ /\ LogFull
          /\ Goto(p, "panic")
          /\ UNCHANGED <<buf, pin, lh, written>>
       \/ /\ ~LogFull
          /\ buf' = [buf EXCEPT ![b] = d]
          /\ written' = [written EXCEPT ![p] = @ \cup {b}]
          /\ \/ b \in InLog(lh) /\ UNCHANGED <<pin, lh>>
             \/ /\ b \notin InLog(lh)
                /\ pin' = [pin EXCEPT ![b] = @ + 1]
                /\ lh' = Append(lh, b)
          /\ UNCHANGED pc
    /\ UNCHANGED <<diskVars, outstanding, committing, depth, tail, boot>>

\* bget: the buffer of b is needed for another block.
Recycle(b) ==
    /\ buf[b] # None
    /\ pin[b] = 0
    /\ buf' = [buf EXCEPT ![b] = None]
    /\ UNCHANGED <<diskVars, pin, logVars, procVars, tail, boot>>

-----------------------------------------------------------------------------
(* end_op *)

EndOp(p) ==
    /\ pc[p] = "op"
    /\ LockIsFree
    /\ outstanding' = outstanding - 1
    /\ depth' = [depth EXCEPT ![p] = @ - 1]
    /\ written' = [written EXCEPT ![p] = IF depth[p] = 1 THEN {} ELSE @]
    /\ \/ committing /\ Goto(p, "panic") /\ UNCHANGED committing
       \/ /\ ~committing
          /\ outstanding = 1
          /\ committing' = TRUE
          /\ Goto(p, "commit")
       \/ /\ ~committing
          /\ outstanding > 1
          /\ WakeupAndGoto(p, IF depth[p] = 1 THEN "idle" ELSE "op")
          /\ UNCHANGED committing
    /\ UNCHANGED <<diskVars, buf, pin, lh, tail, boot>>

(* commit *)

Commit(p) ==
    /\ pc[p] = "commit"
    /\ Goto(p, IF Len(lh) > 0 THEN "write_log" ELSE "committed")
    /\ tail' = 0
    /\ UNCHANGED <<diskVars, buf, pin, logVars, depth, written, boot>>

\* bwrite of one log block
WriteLog(p) ==
    /\ pc[p] = "write_log"
    /\ \/ /\ tail < Len(lh)
          /\ logged' = [logged EXCEPT ![tail + 1] = View(lh[tail + 1])]
          /\ tail' = tail + 1
          /\ UNCHANGED pc
       \/ /\ tail = Len(lh)
          /\ Goto(p, "write_head")
          /\ UNCHANGED <<logged, tail>>
    /\ UNCHANGED <<disk, head, buf, pin, logVars, depth, written, boot>>

\* The real commit
WriteHead(p) ==
    /\ pc[p] = "write_head"
    /\ head' = lh
    /\ tail' = 0
    /\ Goto(p, "install")
    /\ UNCHANGED <<disk, logged, buf, pin, logVars, depth, written, boot>>

\* The body of install_trans: bwrite of the block at its home
InstallBlock ==
    /\ tail < Len(lh)
    /\ disk' = [disk EXCEPT ![lh[tail + 1]] = logged[tail + 1]]
    /\ buf' = [buf EXCEPT ![lh[tail + 1]] = logged[tail + 1]]
    /\ tail' = tail + 1
    /\ UNCHANGED <<logged, head, lh, outstanding, committing>>

\* install_trans(0), and log.lh.n = 0 after the last block
Install(p) ==
    /\ pc[p] = "install"
    /\ \/ /\ InstallBlock
          /\ pin' = [pin EXCEPT ![lh[tail + 1]] = @ - 1]
          /\ UNCHANGED pc
       \/ /\ tail = Len(lh)
          /\ lh' = <<>>
          /\ tail' = 0
          /\ Goto(p, "clear")
          /\ UNCHANGED <<diskVars, buf, pin, outstanding, committing>>
    /\ UNCHANGED <<depth, written, boot>>

\* write_head erases the transaction.
Clear(p) ==
    /\ pc[p] = "clear"
    /\ head' = lh
    /\ Goto(p, "committed")
    /\ UNCHANGED <<disk, logged, buf, pin, logVars, depth, written, tail, boot>>

\* mutant of Committed: no wakeup
CommittedSilently(p) ==
    /\ pc[p] = "committed"
    /\ LockIsFree
    /\ committing' = FALSE
    /\ Goto(p, "idle")
    /\ UNCHANGED <<diskVars, buf, pin, lh, outstanding, depth, written, tail, boot>>

\* The end of end_op
Committed(p) ==
    /\ pc[p] = "committed"
    /\ LockIsFree
    /\ committing' = FALSE
    /\ WakeupAndGoto(p, "idle")
    /\ UNCHANGED <<diskVars, buf, pin, lh, outstanding, depth, written, tail, boot>>

CommitStep(p) ==
    Commit(p) \/ WriteLog(p) \/ WriteHead(p) \/ Install(p) \/ Clear(p) \/ Committed(p)

-----------------------------------------------------------------------------
(* Power failure, and initlog: read_head, install_trans(1), write_head *)

Crash ==
    /\ buf' = PowerOn.buf
    /\ pin' = PowerOn.pin
    /\ lh' = <<>>
    /\ outstanding' = 0
    /\ committing' = FALSE
    /\ pc' = PowerOn.pc
    /\ depth' = PowerOn.depth
    /\ written' = PowerOn.written
    /\ tail' = 0
    /\ boot' = "read_head"
    /\ UNCHANGED diskVars

ReadHead ==
    /\ boot = "read_head"
    /\ lh' = head
    /\ boot' = "install"
    /\ UNCHANGED <<diskVars, buf, pin, outstanding, committing, procVars, tail>>

RecoverInstall ==
    /\ boot = "install"
    /\ \/ InstallBlock /\ UNCHANGED boot
       \/ /\ tail = Len(lh)
          /\ lh' = <<>>
          /\ tail' = 0
          /\ boot' = "clear"
          /\ UNCHANGED <<diskVars, buf, outstanding, committing>>
    /\ UNCHANGED <<pin, procVars>>

RecoverClear ==
    /\ boot = "clear"
    /\ head' = lh
    /\ boot' = "up"
    /\ UNCHANGED <<disk, logged, buf, pin, logVars, procVars, tail>>

InitLog == ReadHead \/ RecoverInstall \/ RecoverClear

-----------------------------------------------------------------------------
Next ==
    \/ \E p \in Proc :
         \/ Call(p) \/ Begin(p) \/ BeginSleep(p)
         \/ \E b \in Block, d \in Data : LogWrite(p, b, d)
         \/ EndOp(p) \/ CommitStep(p)
    \/ \E b \in Block : Recycle(b)
    \/ Crash
    \/ InitLog

Spec == Init /\ [][Next]_vars

\* Every operation ends, the disk answers, and a process that is runnable
\* runs.  Nobody has to make another call.
Fairness ==
    /\ WF_vars(InitLog)
    /\ \A p \in Proc : WF_vars(Begin(p) \/ BeginSleep(p)) /\ WF_vars(EndOp(p)) /\ WF_vars(CommitStep(p))

FairSpec == Spec /\ Fairness

-----------------------------------------------------------------------------
(* Properties *)

\* What a crash leaves: recovery will install what the header lists.
AfterRecovery ==
    [b \in Block |-> IF b \in InLog(head)
                     THEN logged[CHOOSE i \in DOMAIN head : head[i] = b] ELSE disk[b]]

Promise == INSTANCE AtomicDisk WITH
    current <- IF boot = "up" THEN [b \in Block |-> View(b)] ELSE AfterRecovery,
    durable <- AfterRecovery,
    active  <- {p \in Proc : depth[p] > 0}

\* Operations are atomic across crashes at every write of the commit and of
\* the recovery, and while they run every operation sees the last writes,
\* whatever buffers are recycled.
ImplementsAtomicDisk == Promise!Spec

\* The blocks that the running operations have not written yet
Unwritten == {c \in Proc \X (1 .. OpBlocks) : depth[c[1]] > 0 /\ c[2] > Cardinality(written[c[1]])}

\* Every variable has its type, and the space that begin_op reserves against
\* LOGSIZE is enough up to the one block that log_write does not use, log.size - 1:
\* "too big a transaction" comes only when operations log every block that they
\* have reserved, and for the last of these blocks, never during a commit.
\* end_op never panics with "log.committing".
OnlyLastBlockPanics ==
    /\ TypeOK
    /\ \A p \in Proc : pc[p] = "panic" =>
         /\ OpBlocks = MAXOPBLOCKS
         /\ Len(lh) = LOGSIZE - 1 /\ Cardinality(Unwritten) <= 1
         /\ depth[p] > 0 /\ ~committing

\* A process that opens a symbolic link waits for log space inside its own
\* operation: the commit that would make room needs the end_op of that process.
SleepsInOperation == \E p \in Proc : pc[p] = "sleep" /\ depth[p] > 0

\* A process that sleeps in begin_op is woken, by an end_op that leaves other
\* operations outstanding or by the commit of the last.  The exceptions are a
\* begin_op inside an operation, which can block everybody, and a panic.
SleepersWake ==
    \A p \in Proc : pc[p] = "sleep" ~> pc[p] # "sleep" \/ SleepsInOperation \/ ~LockIsFree

-----------------------------------------------------------------------------
(* The inductive invariant behind the refinement and OnlyLastBlockPanics *)

Committing(p) == pc[p] \in CommitPcs

\* outstanding counts the begin_ops without an end_op.  Nobody is inside an
\* operation during a commit, and one process commits.
OpsInv ==
    /\ outstanding = Cardinality({p \in Proc : depth[p] > 0}) + Cardinality({p \in Proc : depth[p] = 2})
    /\ committing => outstanding = 0
    /\ \A p \in Proc :
         /\ Committing(p) => committing /\ \A q \in Proc : Committing(q) => p = q
         /\ pc[p] = "op" <=> depth[p] > 0 /\ pc[p] \notin {"begin", "sleep", "panic"}
         /\ pc[p] \in {"begin", "sleep"} => depth[p] < 2
         /\ depth[p] = 0 => written[p] = {}
    /\ boot # "up" => outstanding = 0 /\ ~committing /\ \A p \in Proc : pc[p] = "idle"

\* A transaction lists a block once.  Its buffers are pinned until they are
\* installed, and a buffer that is not pinned may be thrown away.
CacheInv ==
    /\ \A i, j \in DOMAIN lh : lh[i] = lh[j] => i = j
    /\ \A i, j \in DOMAIN head : head[i] = head[j] => i = j
    /\ \A b \in Block :
         /\ buf[b] # None /\ pin[b] = 0 => buf[b] = disk[b]
         /\ pin[b] = 1 => buf[b] # None
         /\ boot # "up" => pin[b] = 0
         /\ boot = "up" =>
              (pin[b] = 1 <=> \E i \in DOMAIN lh :
                                lh[i] = b /\ ((\E p \in Proc : pc[p] = "install") => i > tail))

\* How far the log blocks and the home locations are.
Copied(n) == \A i \in 1 .. n : logged[i] = View(lh[i])
Installed(s, n) == \A i \in 1 .. n : disk[s[i]] = logged[i]

CommitInv ==
    /\ \A p \in Proc :
         /\ pc[p] = "write_log" => tail <= Len(lh) /\ Copied(tail)
         /\ pc[p] = "write_head" => Copied(Len(lh))
         /\ pc[p] = "install" => /\ head = lh /\ tail <= Len(lh)
                                /\ Copied(Len(lh)) /\ Installed(lh, tail)
         /\ pc[p] = "clear" => lh = <<>> /\ Installed(head, Len(head))
         /\ pc[p] = "committed" => lh = <<>>
    /\ boot = "up" /\ (\A p \in Proc : pc[p] \notin {"install", "clear"}) => head = <<>>
    /\ boot = "read_head" => lh = <<>> /\ tail = 0
    /\ boot = "install" => lh = head /\ tail <= Len(lh) /\ Installed(lh, tail)
    /\ boot = "clear" => lh = <<>> /\ Installed(head, Len(head))

RedoInv == TypeOK /\ OpsInv /\ CacheInv /\ CommitInv

\* Room for the blocks that the running operations have not written yet:
\* all of LOGSIZE, or less when operations leave some of their reservation.
SpaceInv ==
    /\ outstanding > 0 =>
         Len(lh) + Cardinality(Unwritten) <= IF OpBlocks = MAXOPBLOCKS THEN LOGSIZE ELSE LOGSIZE - 2
    /\ outstanding = 0 /\ ~committing /\ boot = "up" => lh = <<>>
    /\ Len(lh) < LOGSIZE /\ Len(head) < LOGSIZE
    /\ \A p \in Proc : /\ pc[p] = "panic" => /\ OpBlocks = MAXOPBLOCKS
                                             /\ Len(lh) >= LOGSIZE - 1 /\ depth[p] > 0
                       /\ IsFiniteSet(written[p]) /\ Cardinality(written[p]) <= OpBlocks
                       /\ written[p] \subseteq InLog(lh)

Inv == RedoInv /\ SpaceInv
=============================================================================
