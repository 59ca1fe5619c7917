----------------------------- MODULE ProcTable -----------------------------
(***************************************************************************)
(* The process table of A3 and A4 (kernel/proc.c, the same file in both):  *)
(* scheduler, sleep and wakeup, fork, exit, wait and kill on several CPUs, *)
(* with p->lock and wait_lock, and as a second channel to sleep on a       *)
(* sleeplock (kernel/sleeplock.c), which a system call locks and unlocks.  *)
(*                                                                         *)
(* A process executes the kernel code at pc[p] on the CPU c with           *)
(* running[c] = p; that CPU holds the spinlocks p has acquired.  A step is *)
(* a section under one p->lock, or what the code does between two          *)
(* acquires.  After a change of p->state the lock stays held until swtch   *)
(* is done, and is released on the other side of the switch.               *)
(*                                                                         *)
(* Left out: files and memory of a process, exit status, timer interrupts  *)
(* in kernel code (a step of another CPU shows the same interleavings).    *)
(***************************************************************************)
EXTENDS Integers, FiniteSets

CONSTANTS
    CPU,
    NPROC,       \* the slots of proc[] are 0 .. NPROC - 1
    NoCpu        \* nobody holds the lock

ASSUME ProcTableAssumption ==
    /\ NPROC \in Nat \ {0}
    /\ NoCpu \notin CPU

Proc == 0 .. NPROC - 1
initproc == 0
Nobody == -1                   \* a null pointer
SleepLock == NPROC             \* the address of the sleeplock, a channel

VARIABLES
    state, parent, chan, killed,
    lock,        \* p->lock: the CPU that holds it
    wait_lock,   \* the CPU that holds it
    lk,          \* the spinlock inside the sleeplock
    locked,      \* the process that has locked the sleeplock
    running,     \* c->proc
    pc,
    np,          \* the local np of fork
    i,           \* the index of the loops over proc[]
    kids,        \* havekids
    arg,         \* the channel sleep or wakeup is called with
    ret          \* where wakeup, or yield, returns to

tableVars == <<state, parent, chan, killed>>
lockVars  == <<lock, wait_lock, lk, locked>>
localVars == <<np, i, kids, arg, ret>>
vars == <<tableVars, lockVars, running, pc, localVars>>

WaitPcs  == {"wait_lock", "wait_scan"}
LockPcs  == {"lk_lock", "lk_test", "holds"}
SleepPcs == {"sleep", "sleep_release", "sleep_state", "asleep"}
ExitPcs  == {"exit", "reparent", "zombie"}
Pcs == {"none", "forkret", "user", "return", "yielded", "fork_parent",
        "fork_run", "wakeup", "unlocked"}
         \cup WaitPcs \cup LockPcs \cup SleepPcs \cup ExitPcs

TypeOK ==
    /\ state \in [Proc -> {"UNUSED", "USED", "SLEEPING", "RUNNABLE", "RUNNING", "ZOMBIE"}]
    /\ parent \in [Proc -> Proc \cup {Nobody}]
    /\ chan \in [Proc -> Proc \cup {Nobody, SleepLock}]
    /\ killed \in [Proc -> BOOLEAN]
    /\ lock \in [Proc -> CPU \cup {NoCpu}]
    /\ wait_lock \in CPU \cup {NoCpu}
    /\ lk \in CPU \cup {NoCpu}
    /\ locked \in Proc \cup {Nobody}
    /\ running \in [CPU -> Proc \cup {Nobody}]
    /\ pc \in [Proc -> Pcs]
    /\ np \in [Proc -> Proc \cup {Nobody}]
    /\ i \in [Proc -> 0 .. NPROC]
    /\ kids \in [Proc -> BOOLEAN]
    /\ arg \in [Proc -> Proc \cup {Nobody, SleepLock}]
    /\ ret \in [Proc -> {"none", "reparent", "zombie", "unlocked", "user", "holds"}]

\* userinit
Init ==
    /\ state = [p \in Proc |-> IF p = initproc THEN "RUNNABLE" ELSE "UNUSED"]
    /\ parent = [p \in Proc |-> Nobody]
    /\ chan = [p \in Proc |-> Nobody]
    /\ killed = [p \in Proc |-> FALSE]
    /\ lock = [p \in Proc |-> NoCpu]
    /\ wait_lock = NoCpu
    /\ lk = NoCpu
    /\ locked = Nobody
    /\ running = [c \in CPU |-> Nobody]
    /\ pc = [p \in Proc |-> IF p = initproc THEN "forkret" ELSE "none"]
    /\ np = [p \in Proc |-> Nobody]
    /\ i = [p \in Proc |-> 0]
    /\ kids = [p \in Proc |-> FALSE]
    /\ arg = [p \in Proc |-> Nobody]
    /\ ret = [p \in Proc |-> "none"]

Goto(p, l) == pc' = [pc EXCEPT ![p] = l]

\* c executes the code of p at l.
At(c, p, l) == running[c] = p /\ state[p] = "RUNNING" /\ pc[p] = l

Acquire(c, p) == lock[p] = NoCpu /\ lock' = [lock EXCEPT ![p] = c]
Release(p) == lock' = [lock EXCEPT ![p] = NoCpu]

-----------------------------------------------------------------------------
(* scheduler and sched *)

SchedulerBlind(c, p) ==             \* mutant of Scheduler: p->lock is ignored
    /\ running[c] = Nobody
    /\ state[p] = "RUNNABLE"
    /\ lock' = [lock EXCEPT ![p] = c]
    /\ state' = [state EXCEPT ![p] = "RUNNING"]
    /\ running' = [running EXCEPT ![c] = p]
    /\ UNCHANGED <<parent, chan, killed, wait_lock, lk, locked, pc, localVars>>

Scheduler(c, p) ==
    /\ running[c] = Nobody
    /\ state[p] = "RUNNABLE"
    /\ Acquire(c, p)
    /\ state' = [state EXCEPT ![p] = "RUNNING"]
    /\ running' = [running EXCEPT ![c] = p]
    /\ UNCHANGED <<parent, chan, killed, wait_lock, lk, locked, pc, localVars>>

\* sched, after p has changed its state: swtch, then scheduler releases the lock.
Sched(c, p) ==
    /\ running[c] = p
    /\ state[p] # "RUNNING"
    /\ running' = [running EXCEPT ![c] = Nobody]
    /\ Release(p)
    /\ UNCHANGED <<tableVars, wait_lock, lk, locked, pc, localVars>>

\* The other side of swtch: forkret, and the end of yield
SwtchBack(c, p) ==
    /\ \/ At(c, p, "forkret") /\ Goto(p, "user")
       \/ At(c, p, "yielded") /\ Goto(p, ret[p])
    /\ Release(p)
    /\ ret' = [ret EXCEPT ![p] = "none"]
    /\ UNCHANGED <<tableVars, wait_lock, lk, locked, running, np, i, kids, arg>>

\* A timer interrupt in user code, or in kernel code that holds no spinlock
Yield(c, p, l) ==
    /\ At(c, p, l)
    /\ l = "user" => ~killed[p]
    /\ Acquire(c, p)
    /\ state' = [state EXCEPT ![p] = "RUNNABLE"]
    /\ ret' = [ret EXCEPT ![p] = l]
    /\ Goto(p, "yielded")
    /\ UNCHANGED <<parent, chan, killed, wait_lock, lk, locked, running, np, i, kids, arg>>

\* usertrap after a system call
Return(c, p) ==
    /\ At(c, p, "return")
    /\ Goto(p, IF killed[p] THEN "exit" ELSE "user")
    /\ UNCHANGED <<tableVars, lockVars, running, localVars>>

\* p makes a system call; usertrap has seen that it is not killed.
Calls(c, p) == At(c, p, "user") /\ ~killed[p]

-----------------------------------------------------------------------------
(* sleep(arg, lk) and wakeup(arg) *)

CallSleep(p, ch) ==
    /\ arg' = [arg EXCEPT ![p] = ch]
    /\ Goto(p, "sleep")

SleepUnlocked(c, p) ==              \* mutant of Sleep: acquire(&p->lock) is missing
    /\ At(c, p, "sleep")
    /\ Goto(p, "sleep_release")
    /\ UNCHANGED <<tableVars, lockVars, running, localVars>>

Sleep(c, p) ==
    /\ At(c, p, "sleep")
    /\ Acquire(c, p)
    /\ Goto(p, "sleep_release")
    /\ UNCHANGED <<tableVars, wait_lock, lk, locked, running, localVars>>

\* release(lk): wait sleeps on p with wait_lock.
SleepRelease(c, p) ==
    /\ At(c, p, "sleep_release")
    /\ \/ arg[p] = p /\ wait_lock' = NoCpu /\ UNCHANGED lk
       \/ arg[p] = SleepLock /\ lk' = NoCpu /\ UNCHANGED wait_lock
    /\ Goto(p, "sleep_state")
    /\ UNCHANGED <<tableVars, lock, locked, running, localVars>>

SleepState(c, p) ==
    /\ At(c, p, "sleep_state")
    /\ chan' = [chan EXCEPT ![p] = arg[p]]
    /\ state' = [state EXCEPT ![p] = "SLEEPING"]
    /\ Goto(p, "asleep")
    /\ UNCHANGED <<parent, killed, lockVars, running, localVars>>

\* Back from sched; then sleep acquires lk again.
Woken(c, p) ==
    /\ At(c, p, "asleep")
    /\ chan' = [chan EXCEPT ![p] = Nobody]
    /\ Release(p)
    /\ Goto(p, IF arg[p] = p THEN "wait_lock" ELSE "lk_lock")
    /\ UNCHANGED <<state, parent, killed, wait_lock, lk, locked, running, localVars>>

CallWakeup(p, ch, r) ==
    /\ arg' = [arg EXCEPT ![p] = ch]
    /\ ret' = [ret EXCEPT ![p] = r]
    /\ i' = [i EXCEPT ![p] = 0]
    /\ Goto(p, "wakeup")

\* q is the first slot of S from i[p] on.
IsNext(p, q, S) == q \in S /\ q >= i[p] /\ \A s \in S : s < i[p] \/ q <= s

\* The loop over S has ended.
IsPast(p, S) == \A s \in S : s < i[p]

WakeupNextSkips(c, p) ==            \* mutant of WakeupNext: p += 2
    /\ At(c, p, "wakeup")
    /\ \E q \in Proc :
          /\ IsNext(p, q, Proc \ {p})
          /\ lock[q] = NoCpu
          /\ state' = [state EXCEPT ![q] =
                IF @ = "SLEEPING" /\ chan[q] = arg[p] THEN "RUNNABLE" ELSE @]
          /\ i' = [i EXCEPT ![p] = q + 2]
    /\ UNCHANGED <<parent, chan, killed, lockVars, running, pc, np, kids, arg, ret>>

\* One round of wakeup's loop, for a process other than its caller
WakeupNext(c, p) ==
    /\ At(c, p, "wakeup")
    /\ \E q \in Proc :
          /\ IsNext(p, q, Proc \ {p})
          /\ lock[q] = NoCpu
          /\ state' = [state EXCEPT ![q] =
                IF @ = "SLEEPING" /\ chan[q] = arg[p] THEN "RUNNABLE" ELSE @]
          /\ i' = [i EXCEPT ![p] = q + 1]
    /\ UNCHANGED <<parent, chan, killed, lockVars, running, pc, np, kids, arg, ret>>

WakeupEnd(c, p) ==
    /\ At(c, p, "wakeup")
    /\ IsPast(p, Proc \ {p})
    /\ Goto(p, ret[p])
    /\ i' = [i EXCEPT ![p] = 0]
    /\ arg' = [arg EXCEPT ![p] = Nobody]
    /\ ret' = [ret EXCEPT ![p] = "none"]
    /\ UNCHANGED <<tableVars, lockVars, running, np, kids>>

-----------------------------------------------------------------------------
(* acquiresleep and releasesleep *)

LkLock(c, p) ==
    /\ Calls(c, p) \/ At(c, p, "lk_lock")
    /\ lk = NoCpu
    /\ lk' = c
    /\ Goto(p, "lk_test")
    /\ UNCHANGED <<tableVars, lock, wait_lock, locked, running, localVars>>

LkTestOnce(c, p) ==                 \* mutant of LkTest: if for while
    /\ At(c, p, "lk_test")
    /\ \/ /\ locked # Nobody /\ arg[p] = Nobody
          /\ CallSleep(p, SleepLock)
          /\ UNCHANGED <<lk, locked>>
       \/ /\ locked = Nobody \/ arg[p] # Nobody
          /\ locked' = p
          /\ lk' = NoCpu
          /\ arg' = [arg EXCEPT ![p] = Nobody]
          /\ Goto(p, "holds")
    /\ UNCHANGED <<tableVars, lock, wait_lock, running, np, i, kids, ret>>

\* while (lk->locked) sleep(lk, &lk->lk)
LkTest(c, p) ==
    /\ At(c, p, "lk_test")
    /\ \/ /\ locked # Nobody
          /\ CallSleep(p, SleepLock)
          /\ UNCHANGED <<lk, locked>>
       \/ /\ locked = Nobody
          /\ locked' = p
          /\ lk' = NoCpu
          /\ arg' = [arg EXCEPT ![p] = Nobody]
          /\ Goto(p, "holds")
    /\ UNCHANGED <<tableVars, lock, wait_lock, running, np, i, kids, ret>>

\* releasesleep up to its wakeup
Unlock(c, p) ==
    /\ At(c, p, "holds")
    /\ lk = NoCpu
    /\ lk' = c
    /\ locked' = Nobody
    /\ CallWakeup(p, SleepLock, "unlocked")
    /\ UNCHANGED <<tableVars, lock, wait_lock, running, np, kids>>

Unlocked(c, p) ==
    /\ At(c, p, "unlocked")
    /\ lk' = NoCpu
    /\ Goto(p, "return")
    /\ UNCHANGED <<tableVars, lock, wait_lock, locked, running, localVars>>

-----------------------------------------------------------------------------
(* fork *)

\* allocproc; np->lock is held until the memory is copied, or until
\* freeproc when there is no memory.  The slot keeps its value of killed.
Fork(c, p, q) ==
    /\ Calls(c, p)
    /\ lock[q] = NoCpu
    /\ state[q] = "UNUSED"
    /\ \/ /\ state' = [state EXCEPT ![q] = "USED"]
          /\ np' = [np EXCEPT ![p] = q]
          /\ Goto(p, "fork_parent")
          /\ UNCHANGED killed
       \/ /\ killed' = [killed EXCEPT ![q] = FALSE]
          /\ Goto(p, "return")
          /\ UNCHANGED <<state, np>>
    /\ UNCHANGED <<parent, chan, lockVars, running, i, kids, arg, ret>>

\* np->parent = p under wait_lock
ForkParent(c, p) ==
    /\ At(c, p, "fork_parent")
    /\ wait_lock = NoCpu
    /\ parent' = [parent EXCEPT ![np[p]] = p]
    /\ Goto(p, "fork_run")
    /\ UNCHANGED <<state, chan, killed, lockVars, running, localVars>>

ForkRun(c, p) ==
    /\ At(c, p, "fork_run")
    /\ lock[np[p]] = NoCpu
    /\ state' = [state EXCEPT ![np[p]] = "RUNNABLE"]
    /\ pc' = [pc EXCEPT ![p] = "return", ![np[p]] = "forkret"]
    /\ np' = [np EXCEPT ![p] = Nobody]
    /\ UNCHANGED <<parent, chan, killed, lockVars, running, i, kids, arg, ret>>

-----------------------------------------------------------------------------
(* exit *)

\* acquire(&wait_lock), after a call of exit or a trap of a killed process
ExitLock(c, p) ==
    /\ p # initproc
    /\ At(c, p, "user") \/ At(c, p, "exit")
    /\ wait_lock = NoCpu
    /\ wait_lock' = c
    /\ Goto(p, "reparent")
    /\ UNCHANGED <<tableVars, lock, lk, locked, running, localVars>>

ChildrenRunning(p) ==               \* mutant of Children: zombies are left
    {q \in Proc : parent[q] = p /\ state[q] # "ZOMBIE"}
Children(p) == {q \in Proc : parent[q] = p}

\* One child goes to init, and init is woken.
Reparent(c, p) ==
    /\ At(c, p, "reparent")
    /\ \E q \in Children(p) : parent' = [parent EXCEPT ![q] = initproc]
    /\ CallWakeup(p, initproc, "reparent")
    /\ UNCHANGED <<state, chan, killed, lockVars, running, np, kids>>

\* wakeup(p->parent)
WakeParent(c, p) ==
    /\ At(c, p, "reparent")
    /\ Children(p) = {}
    /\ CallWakeup(p, parent[p], "zombie")
    /\ UNCHANGED <<tableVars, lockVars, running, np, kids>>

\* acquire(&p->lock); state = ZOMBIE; release(&wait_lock); then sched
Zombie(c, p) ==
    /\ At(c, p, "zombie")
    /\ Acquire(c, p)
    /\ state' = [state EXCEPT ![p] = "ZOMBIE"]
    /\ wait_lock' = NoCpu
    /\ Goto(p, "none")
    /\ UNCHANGED <<parent, chan, killed, lk, locked, running, localVars>>

-----------------------------------------------------------------------------
(* wait *)

\* acquire(&wait_lock), at the call and after sleep
WaitLock(c, p) ==
    /\ Calls(c, p) \/ At(c, p, "wait_lock")
    /\ wait_lock = NoCpu
    /\ wait_lock' = c
    /\ i' = [i EXCEPT ![p] = 0]
    /\ kids' = [kids EXCEPT ![p] = FALSE]
    /\ arg' = [arg EXCEPT ![p] = Nobody]
    /\ Goto(p, "wait_scan")
    /\ UNCHANGED <<tableVars, lock, lk, locked, running, np, ret>>

\* wait returns and releases wait_lock.
WaitReturn(p) ==
    /\ wait_lock' = NoCpu
    /\ i' = [i EXCEPT ![p] = 0]
    /\ kids' = [kids EXCEPT ![p] = FALSE]
    /\ Goto(p, "return")

\* The next child is not a zombie.
WaitNext(c, p) ==
    /\ At(c, p, "wait_scan")
    /\ \E q \in Proc :
          /\ IsNext(p, q, Children(p))
          /\ lock[q] = NoCpu
          /\ state[q] # "ZOMBIE"
          /\ i' = [i EXCEPT ![p] = q + 1]
    /\ kids' = [kids EXCEPT ![p] = TRUE]
    /\ UNCHANGED <<tableVars, lockVars, running, pc, np, arg, ret>>

\* freeproc of a zombie, unless copyout of its status fails
Reap(c, p) ==
    /\ At(c, p, "wait_scan")
    /\ \E q \in Proc :
          /\ IsNext(p, q, Children(p))
          /\ lock[q] = NoCpu
          /\ state[q] = "ZOMBIE"
          /\ \/ /\ state' = [state EXCEPT ![q] = "UNUSED"]
                /\ parent' = [parent EXCEPT ![q] = Nobody]
                /\ chan' = [chan EXCEPT ![q] = Nobody]
                /\ killed' = [killed EXCEPT ![q] = FALSE]
             \/ UNCHANGED tableVars
    /\ WaitReturn(p)
    /\ UNCHANGED <<lock, lk, locked, running, np, arg, ret>>

\* !havekids || p->killed; else sleep(p, &wait_lock)
WaitCheck(c, p) ==
    /\ At(c, p, "wait_scan")
    /\ IsPast(p, Children(p))
    /\ \/ /\ ~kids[p] \/ killed[p]
          /\ WaitReturn(p)
          /\ UNCHANGED arg
       \/ /\ kids[p] /\ ~killed[p]
          /\ CallSleep(p, p)
          /\ UNCHANGED <<wait_lock, i, kids>>
    /\ UNCHANGED <<tableVars, lock, lk, locked, running, np, ret>>

-----------------------------------------------------------------------------
(* kill *)

\* The pid of q is found.  An unused slot has pid 0, which a program may
\* pass as well.  init, whose exit is a panic, is not killed here.
Kill(c, p, q) ==
    /\ Calls(c, p)
    /\ q # initproc
    /\ lock[q] = NoCpu
    /\ killed' = [killed EXCEPT ![q] = TRUE]
    /\ state' = [state EXCEPT ![q] = IF @ = "SLEEPING" THEN "RUNNABLE" ELSE @]
    /\ Goto(p, "return")
    /\ UNCHANGED <<parent, chan, lockVars, running, localVars>>

-----------------------------------------------------------------------------
Next ==
    \E c \in CPU, p \in Proc :
        \/ Scheduler(c, p) \/ Sched(c, p) \/ SwtchBack(c, p) \/ Return(c, p)
        \/ Yield(c, p, "user") \/ Yield(c, p, "holds")
        \/ Sleep(c, p) \/ SleepRelease(c, p) \/ SleepState(c, p) \/ Woken(c, p)
        \/ WakeupNext(c, p) \/ WakeupEnd(c, p)
        \/ LkLock(c, p) \/ LkTest(c, p) \/ Unlock(c, p) \/ Unlocked(c, p)
        \/ ForkParent(c, p) \/ ForkRun(c, p)
        \/ ExitLock(c, p) \/ Reparent(c, p) \/ WakeParent(c, p) \/ Zombie(c, p)
        \/ WaitLock(c, p) \/ WaitNext(c, p) \/ Reap(c, p) \/ WaitCheck(c, p)
        \/ \E q \in Proc : Fork(c, p, q) \/ Kill(c, p, q)

Spec == Init /\ [][Next]_vars

-----------------------------------------------------------------------------
(* Properties *)

\* A kernel stack is used by one CPU at a time, and by none once it may be
\* given to another process: until swtch is done p->lock keeps schedulers
\* and the wait of the parent away.
StackOnOneCpu ==
    \A c \in CPU : running[c] # Nobody =>
        /\ state[running[c]] \notin {"UNUSED", "USED"}
        /\ state[running[c]] = "RUNNING" \/ lock[running[c]] = c
        /\ \A d \in CPU \ {c} : running[d] # running[c]

\* The inductive invariant behind StackOnOneCpu: from sleep's acquire to its
\* swtch the CPU holds p->lock, and the child of a fork in progress is the
\* business of its parent alone.
SwtchInv ==
    /\ StackOnOneCpu
    /\ \A c \in CPU, p \in Proc :
          running[c] = p /\ pc[p] \in {"sleep_release", "sleep_state"} => lock[p] = c
    /\ \A p \in Proc : pc[p] \in {"fork_parent", "fork_run"} =>
          /\ np[p] \in Proc /\ state[np[p]] = "USED"
          /\ \A q \in Proc \ {p} :
                pc[q] \in {"fork_parent", "fork_run"} => np[q] # np[p]

\* Between the release of lk in sleep and the change of state, too
Sleeps(p, ch) ==
    \/ pc[p] = "sleep_state" /\ arg[p] = ch
    \/ state[p] = "SLEEPING" /\ chan[p] = ch

\* Nobody sleeps for what has happened already: who waits for a child has
\* children, none of them a zombie, and a sleeplock that processes wait for
\* is locked, unless its waker is still at work with the lock of the channel.
NoLostWakeup ==
    \A p \in Proc :
        /\ Sleeps(p, p) /\ wait_lock = NoCpu =>
              /\ Children(p) # {}
              /\ \A q \in Children(p) : state[q] # "ZOMBIE"
        /\ Sleeps(p, SleepLock) /\ lk = NoCpu => locked # Nobody

\* The places of the code between acquire and release of wait_lock, and of lk
HoldsWaitLock(p) ==
    \/ pc[p] \in {"wait_scan", "reparent", "zombie"}
    \/ pc[p] \in {"sleep", "sleep_release"} /\ arg[p] = p
    \/ pc[p] = "wakeup" /\ ret[p] \in {"reparent", "zombie"}

HoldsLk(p) ==
    \/ pc[p] \in {"lk_test", "unlocked"}
    \/ pc[p] \in {"sleep", "sleep_release"} /\ arg[p] = SleepLock
    \/ pc[p] = "wakeup" /\ ret[p] = "unlocked"

\* The lock l is held by a CPU that runs p.
HeldFor(l, p) == l \in CPU /\ running[l] = p /\ state[p] = "RUNNING"

\* Who is at such a place holds the lock, so that there is one of them, and
\* until the change of state in sleep p->lock is held as well.
LocksHeld ==
    \A p \in Proc :
        /\ HoldsWaitLock(p) => HeldFor(wait_lock, p)
        /\ HoldsLk(p) => HeldFor(lk, p)
        /\ pc[p] \in {"sleep_release", "sleep_state"} => HeldFor(lock[p], p)

\* r is in wakeup(ch), on its way to ret, and has slot p before it.
WillWake(r, ch, back, p) ==
    pc[r] = "wakeup" /\ ret[r] = back /\ arg[r] = ch /\ i[r] <= p

\* p looks for zombies among its children, p has found none and is about to
\* sleep, p is marked as a sleeper.
ScanInv(p) ==
    pc[p] = "wait_scan" =>
        /\ kids[p] => Children(p) # {}
        /\ \A q \in Children(p) : q < i[p] => state[q] # "ZOMBIE"

NoZombieInv(p) ==
    pc[p] \in {"sleep", "sleep_release"} /\ arg[p] = p =>
        /\ Children(p) # {}
        /\ \A q \in Children(p) : state[q] # "ZOMBIE"

SleeperInv(p) ==
    Sleeps(p, p) =>
        /\ Children(p) # {}
        /\ \A q \in Children(p) :
              /\ pc[q] # "zombie"
              /\ pc[q] = "wakeup" /\ ret[q] = "zombie" => WillWake(q, p, "zombie", p)
              /\ state[q] = "ZOMBIE" => \E r \in Proc : WillWake(r, p, "reparent", p)

\* wait_lock covers the scan for zombies up to the moment p is marked as a
\* sleeper, and the wakeup of the parent up to the moment q is a zombie.
WaitInv == \A p \in Proc : ScanInv(p) /\ NoZombieInv(p) /\ SleeperInv(p)

\* lk covers the test of locked up to the moment p is marked as a sleeper.
LkInv ==
    \A p \in Proc :
        /\ pc[p] \in {"sleep", "sleep_release"} /\ arg[p] = SleepLock => locked # Nobody
        /\ Sleeps(p, SleepLock) /\ locked = Nobody =>
              \E r \in Proc : WillWake(r, SleepLock, "unlocked", p)

\* One process at a time is between acquiresleep and releasesleep, although
\* releasesleep wakes all that wait and kill wakes them too.
SleepLockExclusive ==
    \A p \in Proc : pc[p] = "holds" \/ ret[p] = "holds" => locked = p

-----------------------------------------------------------------------------
(* The family tree: exit takes effect with wait_lock. *)

Exiting(p) ==
    \/ pc[p] \in {"reparent", "zombie"}
    \/ pc[p] = "wakeup" /\ ret[p] \in {"reparent", "zombie"}

Live ==
    {p \in Proc : /\ ~Exiting(p)
                  /\ \/ state[p] \in {"SLEEPING", "RUNNABLE", "RUNNING"}
                     \/ state[p] = "USED" /\ parent[p] # Nobody}

Zombies == {p \in Proc : Exiting(p) \/ state[p] = "ZOMBIE"}

TreeParent ==
    [q \in Proc |-> IF parent[q] # Nobody /\ Exiting(parent[q]) THEN initproc ELSE parent[q]]

Tree == INSTANCE ProcTree WITH live <- Live, zombies <- Zombies, parent <- TreeParent

\* What the slots of the table keep between the steps of fork, exit and wait
SlotInv ==
    \A p \in Proc :
        /\ state[p] \in {"UNUSED", "USED", "ZOMBIE"} => pc[p] = "none"
        /\ state[p] = "UNUSED" => parent[p] = Nobody
        /\ pc[p] = "yielded" => ret[p] \in {"user", "holds"}
        /\ pc[p] = "wakeup" => ret[p] \in {"reparent", "zombie", "unlocked"}
        /\ pc[p] = "fork_parent" => parent[np[p]] = Nobody
        /\ pc[p] = "fork_run" => parent[np[p]] # Nobody
        /\ Exiting(p) => p # initproc
        /\ pc[p] = "zombie" \/ (pc[p] = "wakeup" /\ ret[p] = "zombie") => Children(p) = {}

\* fork, exit and wait of different CPUs behave as single steps on the tree
\* of processes: no child is lost or waited for twice, no orphan is left.
ImplementsProcTree == Tree!Spec

\* The inductive invariant behind these properties and the refinement
Inv == TypeOK /\ SwtchInv /\ LocksHeld /\ WaitInv /\ LkInv /\ SlotInv /\ SleepLockExclusive
=============================================================================
