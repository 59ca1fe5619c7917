# Specifications of the OS_Gal_Gal kernels

The repository holds four kernels, each a modified xv6 for RISC-V. They share
most of their files; what differs is what each assignment added:

| tree | adds | state it adds |
|------|------|---------------|
| Assignment1 (A1) | SJF and FCFS scheduling, `pause_system`, `kill_system`, statistics | tick counts per process, `pauseTicks` |
| Assignment2 (A2) | linked lists of processes per state and per CPU, load balancing, stealing | `next`, `next_lock` per process, list heads, `cpu_capacity_counter` |
| Assignment3 (A3) | copy-on-write fork | `references[]` per page, `PTE_COW` |
| Assignment4 (A4) | files with a double-indirect block, symbolic links | `addrs[NDIRECT+1]`, `T_SYMLINK` |

Paths below are relative to the `kernel` directory of the tree named. A file
that is the same in several trees is modelled once.

Contents: [inventory](#inventory) - [modules](#modules) -
[runs and bounds](#runs-and-bounds) - [disagreements](#disagreements) -
[proofs](#proofs) - [plan](#plan) - [not modelled](#not-modelled)

## Inventory

State, operations, what makes it hard, and what "correct" means for each part.

**Page allocator (A3 kalloc.c).** State: the free list, `references[]`.
Operations: `kalloc` and the pushing part of `kfree` under `kmem.lock`;
`reference_add` and `reference_remove` are compare-and-swap loops without it.
Called by vm.c, trap.c and proc.c on all CPUs. Hard: two sharers of a page give
it up or copy it at once; between the last `reference_remove` and the push the
page belongs to nobody. Correct: a count is the number of places that keep the
page's address; a page in use is not free, none is freed twice, none is lost.

**Copy-on-write memory (A3 vm.c, trap.c, proc.c).** State: page tables with
`PTE_W` and `PTE_COW`, `p->sz`. Operations: page fault and `copyout` (both call
`cow_handle`), `uvmcopy` in fork, `uvmalloc`, `uvmdealloc` and `uvmunmap` in
sbrk, exit and wait. Hard: parent and child fault together; memory runs out in
the middle of fork, of sbrk or of a fault; `kfree` comes before `*pte = 0`.
Correct: programs cannot tell copy-on-write from a copy at fork; every error
path gives back exactly what was taken; a writable page is mapped once.

**Process lists (A2 proc.c).** State: `next` and `next_lock` of every process
and list head, counters per CPU. Operations: `add`, `remove`,
`remove_first_in_line`, `validate`. They walk without locks, lock two
neighbours and validate. Hard: every access of one CPU between any two of
another; an interrupt that adds between two reads of a walk on its own CPU. Correct:
a process is on the list of its state, once.

**List scheduler (A2 proc.c).** Operations: `scheduler` with stealing, `yield`,
`sleep`, `wakeup`, `kill`, `fork`, `exit`, `wait`, `set_cpu`,
`find_min_index`. Each moves a process between lists by hand. Hard: two CPUs
take the same process; counters follow the lists late; interrupts call `wakeup`
wherever no lock is held, in the middle of the scheduler's walk too. Correct: no process runs on two CPUs, lists agree with
states and counters with lists.

**Process life cycle (A3/A4 proc.c, sleeplock.c).** State: the process table,
`p->lock`, `wait_lock`, sleeplocks. Operations: `scheduler`, `sched`, `yield`,
`sleep`, `wakeup`, `fork`, `exit`, `reparent`, `wait`, `kill`, `acquiresleep`,
`releasesleep`. Hard: a wakeup between a test and the sleep; the stack of a
process that has given up its state but not yet its CPU; parents and children
that exit together. Correct: no lost wakeup, one CPU per stack, no orphan, every
zombie waited for once, no deadlock.

**Redo log (log.c).** State: `log` in memory, the header and log blocks on
disk, pinned buffers. Operations: `begin_op`, `log_write`, `end_op`, `commit`,
`initlog`. Hard: power fails between any two block writes, again during
recovery; operations overlap and compete for space. Correct: an operation is on
disk whole or not at all; reads see the last writes; nobody waits for ever.

**Buffer cache (bio.c).** State: buffers, reference counts, sleeplocks, LRU
list. Operations: `bread`, `bwrite`, `brelse`, `bpin`, `bunpin`. Hard: two
processes miss the same block; a buffer is recycled while somebody waits for its
lock. Correct: one buffer and one user per block; what one process writes the
next one reads, through eviction and reading back.

**Disk driver (virtio_disk.c).** State: descriptors, the rings shared with the
device, the buffer of each request. Operations: `virtio_disk_rw` (sleeps for
descriptors, then for completion), `virtio_disk_intr`. Called by bio.c and by
the interrupt. Hard: `alloc3_desc` fails half way; the device answers out of
order and several times per interrupt. Correct: a completion finds its buffer,
descriptors come back, nobody sleeps for what has happened.

**Inodes, directories, symbolic links (A4 fs.c, file.c, sysfile.c).** State:
the inode table, inodes and directories on disk, `p->cwd`. Operations: `iget`,
`iput`, `ilock`, `namex`, `create`, and the path calls open, mkdir, symlink,
link, unlink, chdir, readlink. Hard: a call takes and gives up many locks, so
that others change the tree in its middle; the last `iput` against `iget`; error
paths that undo; a path that changes from link to target. Correct: references
and link counts are exact; an inode with a name or a user is never freed.

**Contents of large files (A4 fs.c, file.c).** State: the block bitmap, direct,
indirect and double-indirect blocks. Operations: `balloc`, `bfree`, `bmap`,
`itrunc`, `readi`, `writei`, the loop of `filewrite`. Hard: a write of any
offset and size in several transactions, each within MAXOPBLOCKS; copyin that
fails in the middle. Correct: a block has one owner; a file reads as written; an
operation fits its reservation; blocks come back when the file goes.

**File table and pipes (A4 file.c, sysfile.c, pipe.c).** State: `ftable`,
`p->ofile`, the ring buffer and its two flags. Operations: pipe, dup, close,
fork, exit, read, write, kill. Hard: a table that is full in the middle of
pipe; the last close against a sleeping reader or writer; counters that wrap.
Correct: counts are exact, bytes come once and in order, end of file after the
last writer, no lost wakeup.

**Schedulers of A1 (A1 proc.c).** `defScheduler`, `sjfScheduler`,
`fcfsScheduler`, `pause_system`, `kill_system`, on one CPU (`CPUS := 1`). Hard:
an interrupt between the scan and the choice; pauses that begin and end in the
middle of a scan. Correct: only RUNNABLE processes run, never during a pause,
the right one first, and nobody is forgotten.

**Console (console.c, uart.c).** Two ring buffers between the interrupt
handler, readers and writers. Not modelled.

**Traps, boot, system call table, exec, mkfs, user programs.** Sequential or
register-level code; see [not modelled](#not-modelled).

How they interact: system calls of a process enter trap.c and call the parts
above; all sleeping goes through `sleep`/`wakeup` of proc.c; memory of all parts
comes from kalloc.c; all file writes go through `log_write`. Devices enter
through `devintr` and call `wakeup`.

## Modules

| module | models | uses |
|--------|--------|------|
| `PageAlloc` | A3 kalloc.c for callers that keep its contract | |
| `PageAlloc_proof` | its theorems | `PageAlloc` |
| `ForkMemory` | abstract: each process has a private memory | |
| `CowMem` | A3 kalloc.c, vm.c, cow_handle, growproc, fork, exit, wait | implements `PageAlloc` and `ForkMemory` |
| `CowMem_proof` | its theorems: consistent page tables, no panic, both refinements | `CowMem`, the theorems of `PageAlloc_proof` |
| `ProcLists` | A2 `add`, `remove`, `remove_first_in_line`, `validate` | |
| `ListScheduler` | A2 `scheduler` and all callers of the lists | extends `ProcLists` |
| `ListScheduler_proof` | its theorems | `ListScheduler` |
| `ProcTree` | abstract: the family tree of fork, exit, wait | |
| `ProcTable` | A3/A4 proc.c and sleeplock.c | implements `ProcTree` |
| `ProcTable_proof` | its theorems | `ProcTable` |
| `AtomicDisk` | abstract: operations reach the disk together or not at all | |
| `Log` | log.c, with pinning and recycling of bio.c | implements `AtomicDisk` |
| `Log_proof` | its theorems | `Log` |
| `BlockStore` | abstract: blocks with one user at a time | |
| `VirtioDisk` | virtio_disk.c and the device | |
| `BufferCache` | bio.c and its callers in log.c | extends `VirtioDisk`, implements `BlockStore` |
| `BufferCache_proof` | its theorems, those about the driver included | `BufferCache` |
| `Namespace` | abstract: names, live inodes and who holds them | |
| `FileTree` | A4 inode table, namex, path calls, readlink | implements `Namespace` |
| `FileTree_inv` | its inductive invariants `RefInv` and `TreeInv`, and what they are made of | extends `FileTree` |
| `FileTree_proof` | its theorems | `FileTree_inv` |
| `FileContents` | abstract: a file is a sequence with positions in it | |
| `BigFile` | A4 balloc, bmap, itrunc, readi, writei, filewrite | implements `FileContents` |
| `ByteQueue` | abstract: a bounded queue with open ends | |
| `FileTable` | A4 ftable, descriptors, fileclose, sys_pipe | |
| `Pipe` | A4 pipe.c | extends `FileTable`, implements `ByteQueue` |
| `Pipe_proof` | its theorems, those about the file table included | `Pipe` |
| `PausableSched` | A1 schedulers, pause_system, kill_system | |
| `MC...` | symmetry sets and inputs for TLC | the module in their name |

**Common conventions.** `pc[x]` says where process or CPU `x` is in the kernel
code; its values are named after functions and places in them. A step is one
critical section of a spinlock, or one access to shared memory where the code
takes no lock. Locals of a function that has returned are reset, so that they do
not multiply states. Operators named in a comment as a *mutant* of another are
deliberately wrong variants of it: they serve to show that a property can fail,
and are used nowhere else.

**PageAlloc.** A *use* is a place that keeps a page's address: a page-table
entry or a local variable. `owner[u]` is the thread that may work on use `u`.
`AddCall`, `AddRead`, `AddCas` are `reference_add`; `FreeCall`, `RemoveRead`,
`RemoveCas`, `ZeroCount`, `Push` are `kfree`; `Kalloc` is `kalloc`. `Move` is
the caller's copying of an address, `HandOver` a page table that goes from one
process to another. `Init` allows any division of the pages, so that the
theorems hold from any consistent state.

**CowMem.** `frame[p][v]` and `flags[p][v]` are a leaf page-table entry.
Values of `pc`: `cow_*` is cow_handle, `kf_*` kfree, `unmap*` uvmunmap, `grow_*`
uvmalloc, `copy` and `ref_*` uvmcopy with reference_add. A page holds one value,
enough to see whether a store of one process shows in another. The variables
`tgt`, `va`, `end`, `newsz`, `pa`, `npa`, `ref` are the C locals; `ret` and
`after` are return addresses. `mappages` may fail at any call, because
page-table pages are not tracked; `kalloc` fails when no frame is free.

**ProcLists, ListScheduler.** Nodes are the processes 0 .. NPROC-1 and the list
heads; `Nil` is -1, and a use of `proc[-1]` as a node leads to the value `"ub"`
of `pc` and ends the CPU's behaviour. `acquire` of a lock one holds leads to
`"panic"`. `rm_*`, `add_*`, `rf_*` are the three list functions, a step for each
read of `next`. `Moves` is a table of the eight calls that move a process: the
state they test, the lists, the new state. `CallStart` acquires and tests,
`CallAddIt`, `CallCount`, `CallDone` are what follows `remove`. A device's interrupt
may call wakeup wherever its CPU holds no lock (`IntrOn`): at the top of the scheduler
loop and in user code as a call of its own, whose accesses interleave with those of the
other CPUs, between any other two steps as the one step `Interrupt`, since the handler
runs to its end before its own CPU goes on. That is exact on one CPU; on several, the
handler's accesses do not interleave with those of others while this CPU walks.
`MinCpus` is the set of answers that `find_min_index` may give while the counters change
under it: with one CPU the exact one, with several any of them.

**ProcTable.** `running[c]` is `c->proc`. The CPU that runs `p` acquires and
releases locks for it. `Scheduler` takes `p->lock` and does not release it:
`SwtchBack` or `Woken` does on the other side of `swtch`, and `Sched` is the
way back, as in the code. `wait` (one step per child, wait_lock held),
`wakeup` (one step per slot) and `exit` (`ExitLock`, `Reparent`, `WakeParent`,
`Zombie`) can be interleaved with everything that does not need their locks.

**Log.** `disk`, `logged` and `head` survive `Crash`, everything else is reset
by it. `WriteLog`, `WriteHead`, `Install`, `Clear` write one block each.
`Recycle` is bget taking an unpinned buffer. `Nested` names processes whose
operation contains a second begin_op, which is what `readlink` in sys_open and
sys_chdir of A4 does. `MayBegin` is the condition under which begin_op goes on.
log_write and end_op panic with `log.lock` held, so that after a panic nobody gets
past `LockIsFree`; only a power failure follows.

**VirtioDisk, BufferCache.** A step is a critical section of `vdisk_lock` or
`bcache.lock`, up to a sleep, or an acquisition or release of a sleeplock.
`avail` and `used` hold the entries of the rings that the other side has not
taken yet. `Device(i)` carries out any request in `avail`: this is the external
part. `op[p]` says what a caller does with its block: read it, change it as
log_write does (pinned until the commit), or install it. In the refinement a
block's value is that of its valid buffer, else that of the disk.

**FileTree.** A step is what a process does from one acquisition of a lock to
the next. `pc[p]` is the place in its call, `ret[p]` the place that namei
returns to. Most places begin with an `iput` or an `ilock`: `put[p]` and `want[p]`
are the slots that these are about, `stage[p]` says how far `iput` is, and only
then does the process go on at `pc[p]`. `cur`, `ip` and `dp` are the C locals of
these names, null (0) where they are dead. A directory is a function from names to
inode numbers. `leaked` counts the references that readlink and chdir lose,
`lost` names the inodes whose names went with a removed directory; no guard reads
either. File data, devices and "." are left out, and the log makes each call atomic
on disk, so `dinode` is what `bread` returns. Paths may go up by "..". Behaviours end,
with a message of the model in `panic`, at two places from where the code goes on
with a file system that is no tree any more: where a ".." names an inode that has been
freed, is being freed or is being made (`Stale`), and where sys_symlink writes into a
directory (`Overwrites`): see [disagreements](#disagreements).

**BigFile.** `Balloc`, `Entry` and `Bmap` are functions of the disk that return
an address and the disk afterwards. `disk.wrote[p]` collects the blocks that
`log_write` has seen in the operation of `p`. A block number is one unit of
data, so that `NINDIRECT = BSIZE`.

**FileTable, Pipe.** A reference to a file is kept in a *place* of a process: a
descriptor or one of the locals `rf` and `wf` (`rf` is also the `f` of
sys_close). `ToClose(p)` are the places whose files `p` is about to give to
fileclose, its locals or, in exit, every descriptor; a step (`CloseFile`) is one
critical section of fileclose and clears the place. `closed[p]` is the end of a
pipe that `p` is about to give to pipeclose. pipewrite is a step per byte, since `killed` is read
before each without a lock that protects it.

**PausableSched.** A step of the scheduler looks at one slot or starts a
process. Interrupts (`Clock`, `Wakeup`) come between any two steps of a process, and of
the scheduler while `intr` says that they are on there: swtch passes `intena` on, so
the scheduler's first `release` leaves them as the process that gave up the CPU had
them, off after a timer interrupt. `policy` is the SCHEDFLAG of the build;
`started` and `waiting` are kept where that policy uses them. Assigning `pauseTicks`
and the yield after it are two steps, and kill_system's test of a pid, its second read
and each look of kill are steps of their own. Whatever sleeps may be woken at any time, and a running
process may reap any zombie: channels and parents are in `ProcTable`.

## Runs and bounds

| run | instance | what it shows |
|-----|----------|---------------|
| `alloc_counts` | 3 threads, 2 frames, 4 uses | the inductive invariant of the proof; three threads are the least where one cas fails because of a second while a third frees |
| `cow_sharing` | init + 2 children, 1 page each, 2 frames | a page shared by three, one copy possible, the next allocation fails |
| `cow_pages` | init + 1 child, 2 pages each, 3 frames | fork and sbrk that fail half way, at each of their pages |
| `lists_serial` | 1 CPU, 4 processes, 12 calls | lists, states and counters agree, wherever an interrupt calls wakeup between two steps of the scheduler or of fork; the one place where a walk uses `proc[-1]` |
| `lists_race` | 2 CPUs, 3 processes, 4 calls of all kinds, stealing | no process runs twice, whatever the races do to the lists; the inductive invariant of the proof |
| `proc_table` | 3 CPUs, 3 slots, no bound on steps | stacks, wakeups, sleeplock, family tree, absence of deadlock; the inductive invariant of the proof |
| `log_redo` | 2 processes, one nests, 3 blocks, log of 3 reservations, operations that log all they reserve | atomicity over crashes at each write and during recovery; the log overflows only by its last block; sleepers are woken |
| `block_io` | 3 processes, 4 blocks, 3 buffers, descriptors for 2 requests, 5 uses | a block has one buffer and one user, requests keep their buffers, sleepers are woken |
| `file_tree` | 2 processes, which are symmetric, 3 of 20 calls, 4 inodes, table of 3, 4 initial trees | references, link counts, no inode freed in use, which panics can occur |
| `big_file` | 2 processes, 2 files, 1 direct block, blocks of 3 units, 4 calls of 1 or 17 units | owners of blocks, size of operations, contents |
| `file_pipe` | 2 processes, 3 files, 3 descriptors each, pipe of 2 bytes, counters modulo 4, 5 calls | counts, end of file, order of bytes, wakeups |
| `paused_sched` | 3 slots, 3 policies, pauses of -1 and 1 second of 2 ticks, clock up to 2 | whom a scheduler starts, and that it forgets nobody |

Bounds: the sizes above; `MaxPages` (pages per process); `MaxCalls` of several
modules, how many kernel calls begin in a behaviour (in `ListScheduler` and
`PausableSched` the scheduler's own steps are not counted); `OpBlocks`, blocks
per operation in `Log`; `MaxPinned` in `BufferCache`, buffers of a transaction;
`MaxBytes` per call and `Width` of the counters in `Pipe`; `Sizes`, `Blocks`
and `Taken` in `BigFile`; `MaxTicks`, `MaxPid` and `Width` in `PausableSched`.
`CowMem`, `ProcTable` and `Log` run for ever. The bounds are enough because
every hazard needs at most two or three actors on one page, one pair of list
neighbours, one inode or one transaction: two sharers and a third that fails to
allocate; a parent, a child and a grandchild; a transaction in commit and one
that waits; two requests in flight and a third that waits for descriptors. In
`block_io` five uses are what it takes to change a block, install it and evict
its buffer. In `file_tree` a table of three slots fills up; only link(2) with a stale ".." as the
last name needs a fourth and is met by the proof alone. In `big_file` 17 units reach from an empty file past the
double-indirect block's first table, over three operations. The clock of
`paused_sched` stops at 2, so pauses are finitely many: `NobodyIsForgotten` says
what holds once no more pauses are asked for.

In `log_redo` LOGSIZE is three times MAXOPBLOCKS, as in param.h, and an operation
may log all of MAXOPBLOCKS. So the boundary is reached: `begin_op` reserves
against `LOGSIZE`, `log_write` panics at `log.size - 1` (A4 log.c:220), and mkfs
sets `log.size` to `LOGSIZE`. Three operations that log ten distinct blocks each
need slot 30 of 29. `OnlyLastBlockPanics` says that this is all that can go
wrong: the panic comes for the last of the blocks that running operations have
reserved, and not when they leave one of them. `filewrite` can reach ten blocks:
`OpFitsLog` shows that it stays within ten, double-indirect blocks included, as
long as the free blocks an operation takes lie under two bitmap blocks: four data
blocks, three tables, the inode, two bitmap blocks. FSSIZE of A4 gives seventeen
bitmap blocks, so on a disk that is fragmented across more of them an operation
can exceed its reservation.

`CHECK_DEADLOCK FALSE`: in `cow_*` because init's exit is the panic
"init exiting", after which nothing need move; in `lists_*`, `big_file` and
`file_pipe` because behaviours end when their calls are used up (and because
`"panic"` and `"ub"` end a CPU's behaviour). The other runs check deadlock; in
`proc_table` that is the claim that all CPUs and processes never wait for one
another, in `file_tree` and `block_io` that calls end unless the kernel has
panicked, since `Stop` and `Halt` are enabled only then.

**Fairness** is used in `log_redo` and `paused_sched`. `Log!Fairness` has weak
fairness of recovery, of the test in begin_op, of end_op and of the committing
steps, for each process. The code justifies it: `scheduler` scans all processes
in turn, so what is runnable runs; the disk interrupt wakes the writer; a file
system call has no endless loop between begin_op and end_op. Nothing is assumed
of calls: nobody need ever begin an operation or crash. No strong fairness is
used, so `SleepersWake` promises a wakeup and not that the woken process gets
its reservation: others may take the space first, for ever.
`PausableSched!Spec` has weak fairness of the scheduler, which is a loop that
nothing blocks on one CPU, and of the timer interrupt, which the hardware
repeats; where the scheduler has interrupts off `Clock` is disabled, and nothing is
assumed of it. What a process does (sleep, exit, fork) is never assumed to happen.

## Disagreements

Where the code does something else than its comments or its author say. The
properties above name these cases as exceptions, or the instances leave the
calls out; no run claims the opposite.

Lists of A2:

* `freeproc` (proc.c:333) removes the process from the zombie list. When fork
  or allocproc gives up a process it is not there; the search passes the end of
  the list and uses `proc[-1]`. The comment of `allocproc` promises a return
  of 0. (`lists_serial` leaves out the call `"failed"`; with it TLC violates
  `UbAtEmptyLine`.)
* `set_cpu` (proc.c:900) removes the process from the running list and then calls
  yield, which removes it from there again: the search passes the end of the list
  and uses `proc[-1]`. (`lists_serial` leaves out the call `"set_cpu"`; with it TLC
  violates `UbAtEmptyLine`.)
* `remove` starts its loop again after a failed `validate` (proc.c:97) with
  both node locks held, and then acquires one again: panic("acquire"). With two
  CPUs, 3 processes and `Calls = {"sleep", "fork"}` TLC violates `NoPanic`.
* `add` stores `pred->next = item` before `item->next = -1` (proc.c:113).
  Another CPU that walks the list in between goes on into the list the item
  comes from, and `validate` says yes there.
* `remove_first_in_line` (proc.c:138) reads `pred->next` twice and takes
  `proc[-1]` for a process when an add comes between the reads. One CPU is enough: its
  interrupts are on there (proc.c:650), and the handler of a device may call wakeup.
  `UbAtEmptyLine` says that with one CPU this is the only use of `proc[-1]`;
  `lists_serial` gets there.

File system of A4:

* `begin_op` lets operations reserve `LOGSIZE` blocks, log_write panics at
  `log.size - 1` (log.c:133, 220), and its comment says that begin_op waits when
  an operation might exhaust the log: operations that log all they reserved
  panic at the last block, the exception in `OnlyLastBlockPanics`.
* `readlink` calls begin_op inside the operation of sys_open or sys_chdir
  (sysfile.c:324). If another process fills the log in between, both sleep and
  only the sleepers could wake them: the exception `SleepsInOperation` of
  `SleepersWake`.
* `readlink` and sys_chdir never put the inodes they have looked up
  (file.c:220), so that the inode table fills up; `leaked` counts them in
  `RefsExact`. readlink never returns 1: when it reaches something that is not a
  link it returns -1. sys_open locks the link's own inode and so opens that.
* sys_open and sys_chdir read `ip->type` without the lock (sysfile.c:322), and
  see the type of whatever the slot held before. sys_chdir through a link that
  leads nowhere ends in panic("ilock").
* Nothing keeps the parent of a directory that has been removed while a process is in it:
  once the parent is removed too, ".." leads to a free inode, and namex to
  panic("ilock: no type"), or to whatever inode has that number since. The
  instance gets there, and `FileTree` ends there ("stale ..").
* symlink over an existing file or directory writes the length of the path and the path
  into it (sysfile.c:261, 540). In a directory these replace entries, "." first, so that
  names vanish or lead to inodes that are not theirs, and the next dirlookup that passes a
  size which is no multiple of an entry ends in panic("dirlookup read"). The instance
  gets there, and `FileTree` ends there ("symlink over a directory"):
  nothing is claimed of names and counts after it.
* A file created in a directory that another process has just removed keeps
  nlink 1 for ever: `lost` in `FileTree`.
* itrunc does not free what is behind `addrs[NDIRECT+1]` (fs.c:454). A file
  that is deleted loses these blocks (`lost` in `BigFile`), one that is truncated
  keeps them.
* A writer killed in the middle of pipewrite returns without the wakeup of the
  readers (pipe.c:84): `cut` in `NoLostWakeup`. A byte whose copyout fails is
  lost, and a read of no bytes for that reason looks like end of file.

Schedulers and processes:

* `sjfScheduler` (A1 proc.c:531) measures runs in ticks, but every tick ends a
  run, so on one CPU `(5 * mean + 5 * 1) / 10` stays 0 for all and the policy is
  "the last RUNNABLE slot": `ChoiceIsRight` states it so. For the same reason
  `fcfsScheduler` is preemptive.
* `defScheduler` steps back by `sizeof(&p)` processes, not by one slot, when a
  pause is on at the end of the table (A1 proc.c:468). If the pause ends before
  the loop variable is back in the table it reads memory below `proc[]`: the
  state `Stray`.
* `fcfsScheduler` starts init whatever its state when it has found nobody
  (A1 proc.c:563).
* `pause_system` with a negative argument soon after boot compares a wrapped sum
  with the unsigned `ticks`: the pause has no end (`PausedForever`).
* A timer interrupt between the assignment of `pauseTicks` and the yield of
  pause_system (A1 proc.c:773) ends all progress under the DEFAULT policy: the
  handler's yield leaves interrupts off, and the loop of a pause in `defScheduler`
  never comes to `intr_on` (proc.c:465), so `ticks` stands still
  (`PausedWithoutClock`; without this exception TLC violates `NobodyIsForgotten`).
* `kill(0)` marks the first unused slot, so that its next process dies at birth
  (A1 proc.c:735, A3 proc.c:585); `kill_system` does that for every unused slot.
* `wait` tests `p->killed` and then sleeps: a kill in between leaves the victim
  asleep until a child exits (A3 proc.c:420).

`lists_race` shows what survives all this: the test of `p->state` under
`p->lock` in `scheduler` still keeps a process from running on two CPUs, up to
the first use of `proc[-1]`.

## Proofs

Eight components are proved about with TLAPS, for every number of CPUs,
processes, pages, blocks, buffers, files and uses. Each has an inductive
invariant (`Inv`; `PageTableInv` of `CowMem`, `RefInv` and `TreeInv` of `FileTree`), checked with TLC on the instance of
its run before it was proved, one lemma per action
(or group of actions) that it is preserved, and theorems that follow from it.

**PageAlloc_proof.** Assumption `PageAllocAssumption`: `Use` is finite, `None`
is neither a frame nor a use. The invariants `RefCountExact`, `FreeIsUnused`
and `NoPageLost` are not inductive alone: a cas step must know that the use it
is about to add or to drop is its own and still keeps the page. That is
`CallsOK`; `Inv` is its conjunction with the invariants and `TypeOK`. The
counting rests on two lemmas about cardinalities: a use that starts to keep a
page makes the set of its uses larger by one (`GainUse`), a use that stops makes
it smaller by one (`LoseUse`). Theorems: `Invariance`, `TypeCorrect`,
`CountsAreExact`, `NoUseAfterFree`, `NoLeak`.

**CowMem_proof.** Assumption `CowMemAssumption`: processes and frames are
finite, there is a frame and a page, `Zero` can be stored, `Junk` cannot, and
`None` is none of the values it is compared with. `PageTableInv` says which
entries are mapped at every place in the code (`PagesPresent`), which locals
mean what (`LocalsOK`), and that the table of a child is in the hands of one
process (`Lifecycle`). A step changes the table of the process itself or of the
one child in its hands, never both, and the lemmas use that: what holds of every
other process is not looked at again. `NoPanicReached`: uvmunmap never finds a
page missing, uvmcopy neither, and copyout stores through writable entries. The
proof needed a fact that no run had asked for, that the frame cow_handle gives
to kfree is one (`"cow_free"` in `LocalsOK`).

In the same module, `PageAllocRefinement`: fork, faults, sbrk, exit and wait
keep the contract of kalloc.c at every step. A use of `PageAlloc` is a page-table
entry or the local of a process; an entry does not count while uvmcopy is adding
its reference or uvmunmap is dropping it (`Uncounted`). `KernelPages` carries the
theorems of `PageAlloc_proof` over, through an instance of that module: in the
whole kernel counts are exact, a free page is mapped nowhere, and no page is lost
on any error path.

`WritableFramesArePrivate`: a page with `PTE_W` is mapped
once. A frame fresh from kalloc is nobody else's (`NewFrames`) because of
`FreeIsUnused` above; cow_handle may set `PTE_W` on the page it has because a
count of one is exact. `ForkIsolation`: the programs see what `ForkMemory`
promises, private memories that fork copies at once. What is visible of a page
table in the middle of a call is in `MemoryInv`: between the steps of growproc
(`Resizing`), of uvmcopy, which has made the child's table equal to
the parent's up to `va` (`Copied`), of uvmalloc's zeroing (`Zeroed`), and of cow_handle's
copying (`Filled`).

**ProcTable_proof.** Assumption `ProcTableAssumption`: there is a slot, and
`NoCpu` is no CPU. `Inv` consists of the types, `SwtchInv` (between sleep's
acquire and its swtch the CPU holds `p->lock`, the child of a fork in progress is
USED and has one parent), `LocksHeld` (who is between acquire and release of
`wait_lock` or of a sleeplock's spinlock holds it), `WaitInv` and `LkInv` (a
sleeper whose event has happened has a waker on the way that has not passed its
slot yet), `SlotInv` and `SleepLockExclusive`. Theorems: `TypeCorrect`,
`OneCpuPerStack`, `SleepLockIsExclusive`, `WakeupsAreNotLost`, `TreeRefinement`
(fork, exit and wait are atomic on the family tree).

**ListScheduler_proof.** `Inv` does not say that the lists are lists: they need
not be, as the disagreements above show. It says that the list code uses no
missing node where it does not look (`WalkInv`), that a call holds the lock of
the process it is about from the test of `p->state` to the release, and that
nobody else changes that state in between (`CallInv`, `LockInv`). From that,
`OneCpuPerProcess` follows for any number of CPUs and any stealing, and whatever
order the list accesses happen in.

With one CPU the lists are lists, and for any number of processes the four
properties of `lists_serial` are theorems under `OneCpu`: `NCPU = 1` and the calls
of that run, without set_cpu and the freeproc of a failed fork. These hypotheses
are needed: with two CPUs the code violates `NoPanic`, and with those calls
`UbAtEmptyLine`, as said [above](#disagreements). With one CPU the steps of a walk of
`remove` and `add` have nothing between them, since p->lock is held and interrupts are
off; between the reads of `remove_first_in_line` an interrupt may add a process.
The invariant `SerialInv` gives every process an age, the time of its last add: a
process is added at the front, so the successor of a node is the youngest process of
the list that is older than the node (`Linked`). That says all there is to say about
reachability without recursion over `next`: the older processes of a list are
those still ahead of a walk, so `remove` cannot pass the process it looks
for (`RemoveWalk`), `validate` meets the pair (`NodeInv`), and what
`remove_first_in_line` has read of a process stays true when an interrupt adds another
at the front, while the successor of the head may be a younger one than it has read, or
there was none (`FirstWalk`). An interrupt finds no lock held and the CPU in one of seven
places (`InterruptAt`), and moves its process from the middle of one list to the front of
another (`ToFront`). The ages are bound by an existential quantifier; the last
step of `add` and the interrupt choose new ones (`Youngest`). `Loose` and `At` say for every place of
a call which list the process is on when its state and the list differ. To that
come the arguments of the calls (`ArgInv`), which locks are held at which place
(`NodesFree`, `ProcsFree`) and that the load lacks the process between `add` and
increment_cpu (`CountInv`). Between calls the members of a list are the least set
closed under `next` that `OnList` defines (`OnListIs`): the youngest member that a closed
set lacked would have a predecessor in it. Theorems: `SerialInvariance`, `SerialNoPanic`,
`SerialUb`, `SerialLists`, `SerialCounts`.

**Log_proof.** Assumption `LogAssumption` fixes types. `RedoInv` relates the log
blocks, the header, the home locations and the pinned buffers at every step of a
commit and of a recovery (`CommitInv`), and says that `outstanding` counts the
operations (`OpsInv`) and that a buffer that may be recycled is on disk
(`CacheInv`). `AtomicDiskRefinement` follows: whatever the crashes, an operation
reaches the disk with the whole of its transaction or not at all, and reads see
the last write. `PanicsOnlyWhenFull` needs `SpaceAssumption` as well: an operation
logs at most MAXOPBLOCKS blocks, and LogBlocks = LOGSIZE > MAXOPBLOCKS, as
mkfs and param.h have it. `SpaceInv` counts the blocks that running operations
have yet to write (`Unwritten`) and finds room for them in LOGSIZE, and below
LOGSIZE - 1 when operations log fewer than they reserve; then there is no panic
at all, and else only one of `Unwritten` is left when it comes.

**BufferCache_proof.** Assumptions: there are descriptors for a request
(`NUM >= 3`), processes and buffers are finite, `None` is none of them. `Inv`
adds to `RequestsExact` and `DriverWakes` that reference counts are exact and
a block has one buffer (`UseInv`), that a process with a request owns three
descriptors whose head the device knows (`ChainInv`), and that only pinned
buffers and those of running requests differ from the disk (`DataInv`). The
proof that nobody waits for descriptors in vain counts them: NUM of them are free
or in chains of three, so that if none can be had somebody has a chain.
Theorems: `RequestsFindTheirBuffers`, `NobodySleepsInVain` and
`BlockStoreRefinement`.

**Pipe_proof.** Assumptions: processes are finite and `None` is none of the values
it is compared with (`FileAssumption`); `PIPESIZE` divides the range of the
counters and is smaller (`PipeAssumption`: in the code 512 and 2^32). `Inv` adds
to `FilesExact` which file each place may keep and when (`PlaceInv`: a file that
pipealloc has not made an end yet has one reference, its local), that an end of a
pipe is one file or in the hands of one process that closes it (`EndInv`), that
who reads or writes has a descriptor for it and who is between two bytes of
pipewrite holds `pi->lock` (`CallInv`), and that who sleeps waits for an end that
is open (`SleepInv`). Two arguments carry the proof. A count is the size of one
set of places (`References`), so that a step which moves a reference from one
place to another leaves it as it is, one that adds or drops a place changes it
by one, and fork adds as many as the parent's descriptors. The contents are a function of
counters that wrap: a byte written goes to the end of the sequence and bytes read
come from its beginning because `PIPESIZE` divides `Width`; with a range that it
does not divide, the first wrap would mix up the bytes. Theorems: `FilesAreExact`,
`SleepersCanBeWoken` and `ByteQueueRefinement`.

**FileTree_proof.** Assumption `TreeAssumption`: processes and names are finite,
the tables have an entry, and the trees and calls have the types the code reads.
`RefInv` says for every place of every call which pointers are in use (`PtrInv`),
which sleep locks the process holds (`LockInv`), that these are locks of different
inodes (`Distinct`), that a locked inode is valid, and that the counts are exact.
The count of a slot is the size of one set of pointers, so a step that passes a
reference from one pointer to another leaves it alone; one lemma per kind of step
(a pointer is passed on, put, forgotten, duplicated by iget or idup) reduces what is
to be shown of an action to what it does to the pointers of its own process
(`Local`). Theorems: `ReferencesAreExact`, and `LastRefIsUnlocked`, which is the comment in iput about
the acquiresleep that does not block. They hold for any paths and calls.

`TreeInv` says what lies on disk. It is inductive together with `RefInv`:
a pointer leads to an inode that is in use, except that of an iput which is
freeing it (`LiveInv`); an inode has one slot and that is as on disk once it is
valid (`SlotInv`); a free inode has neither links nor entries (`FreeInv`); what
iput is about to free has no other reference (`TruncInv`), and what create has
allocated has no link yet and is known to nobody else (`FreshInv`); the entry
that create, link or unlink is going to change is still as they found it,
since the directory is locked from there on (`EntryInv`); and nobody links to a
directory (`LinkInv`). An inode with a name has a link, by `LinksExact`, so that
iput cannot free it; that is why what namex finds by a name is alive, and why
`LinksExact`, `PanicsAreKnown` and the refinement must be proved together. What it finds by
".." is alive because the walk would have ended at one that is stale: that these theorems speak
of behaviours up to there, and up to a symlink over a directory, is their limit. A count of links is a sum over the entries, so that
the change of one entry changes it by one for the inode that it names or named, and by one
for the directory when that inode is a directory (`EnterLinks`, `RemoveLinks`).
Theorems: `LinksAreExact`, `OnlyKnownPanics` and `NamespaceRefinement`.

Only model-checked: `BigFile` and the schedulers of A1. `BlocksOwnedOnce` adds up the
entries of the tables (`NamedTwice`), which takes an induction over a set; a proof
would first have to say without sums that no two entries name one block, and one of
`OpFitsLog` rests on that. Out of the prover's reach: liveness under fairness and ENABLED (`SleepersWake`, `NobodyIsForgotten`), and
absence of deadlock. No module uses a RECURSIVE operator.

## Plan

In order of what matters for the kernels:

1. done: `PageAlloc`, `CowMem`, `ProcLists`, `ListScheduler`, `Log`, `ProcTable`.
2. done: `BigFile`, `FileTree`, `PausableSched`, `VirtioDisk` and
   `BufferCache`, `FileTable` and `Pipe`, with the abstract specifications they
   implement.
3. Proofs, done: the modules above except `BigFile` and `PausableSched`.
4. Proofs, left: the ownership of blocks in `BigFile` and the choice of the
   schedulers in `PausableSched`.
5. `Console`: the two ring buffers. consoleintr echoes without
   `uart_tx_lock`, so on several CPUs an echo can race `uartstart`.

Runs are kept to a dozen, one for each distinct question.

## Not modelled

exec, copyin, argument fetching, ELF loading and string functions work on one
process's private data. Page-table pages are abstracted to "mappages may fail".
Trap entry, boot and context switch in assembly set registers that no model
tells apart; interrupts appear as steps of CPUs. mkfs and the user programs are
not part of the kernel; mkfs's choice of the log size is a constant of `Log`.
Sleep on ticks is a third channel like the two of `ProcTable`. ramdisk.c is not
built. The console is left for later: its hazards are one lock and one sleeping
reader, of a kind that `Pipe` and `VirtioDisk` show. sys_exec and sys_readlink call
readlink outside an operation; the inode references they lose are those of
`FileTree`'s readlink. A timer interrupt that takes the CPU from a process in fork,
between its two holds of the child's lock (A2 proc.c:494), or in set_cpu, which holds no
lock (proc.c:900), is not a step of `ListScheduler`: other processes' calls come before
or after it. In fork nobody else looks at the child meanwhile; set_cpu is in `lists_race`
only.
