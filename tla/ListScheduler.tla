--------------------------- MODULE ListScheduler ---------------------------
(***************************************************************************)
(* Scheduling of Assignment 2 (kernel/proc.c): the scheduler of every CPU  *)
(* and the kernel calls that move a process from the list of one state to  *)
(* the list of another.  A CPU is in its scheduler or executes kernel code *)
(* of the process running[c]; user code between system calls has no step.  *)
(* Where a CPU holds no lock interrupts are on, and the handler of a       *)
(* device may call wakeup: on every CPU, whatever BLNCFLAG is.             *)
(*                                                                         *)
(* All of the calls have the shape: acquire p->lock, check the state,      *)
(* remove(p, from), if it returned 1 add(p, to, cpu) and increment_cpu,    *)
(* set the state, then switch to the scheduler or release the lock.  Moves *)
(* says which calls there are.  p->lock is held from the check on, so the  *)
(* check is made where the lock is acquired; the processes a scan of       *)
(* proc[] passes by have no step.                                          *)
(***************************************************************************)
EXTENDS ProcLists

CONSTANTS
    Balance,     \* BLNCFLAG = ON: find_min_index and stealing
    Calls,       \* the calls the programs and devices make
    MaxCalls     \* bound: how many calls are made in a behaviour

ASSUME ListSchedulerAssumption == Balance \in BOOLEAN /\ MaxCalls \in Nat

VARIABLES
    state,       \* p->state
    lock,        \* p->lock
    cpuOf,       \* p->cpu
    running,     \* c->proc
    wait_lock,   \* the CPU that holds it
    call,        \* the call CPU c is in
    target,      \* the process the call is about
    calls        \* how many calls have been made

procVars == <<state, lock, cpuOf, running, wait_lock>>
vars == <<listVars, argVars, walkVars, pc, result, procVars, call, target, calls>>

\* own: the process does it to itself and then switches to the scheduler.
\* waits: it holds wait_lock.
Moves ==
    LET M(own, waits, was, from, to, is) ==
          [own |-> own, waits |-> waits, was |-> was, from |-> from, to |-> to, is |-> is]
    IN  [yield  |-> M(TRUE,  FALSE, "RUNNING",  Running,  Runnable, "RUNNABLE"),
         sleep  |-> M(TRUE,  FALSE, "RUNNING",  Running,  Sleeping, "SLEEPING"),
         exit   |-> M(TRUE,  TRUE,  "RUNNING",  Running,  Zombie,   "ZOMBIE"),
         wakeup |-> M(FALSE, FALSE, "SLEEPING", Sleeping, Runnable, "RUNNABLE"),
         kill   |-> M(FALSE, FALSE, "SLEEPING", Sleeping, Runnable, "RUNNABLE"),
         fork   |-> M(FALSE, FALSE, "USED",     Unused,   Runnable, "RUNNABLE"),
         \* freeproc, from wait and from a fork that has failed
         wait   |-> M(FALSE, TRUE,  "ZOMBIE",   Zombie,   Unused,   "UNUSED"),
         failed |-> M(FALSE, FALSE, "USED",     Zombie,   Unused,   "UNUSED")]

NoCall == "none"
SchedulerCalls == {"scheduler", "steal"}
ListOf == [UNUSED |-> Unused, USED |-> Unused, RUNNABLE |-> Runnable,
           RUNNING |-> Running, SLEEPING |-> Sleeping, ZOMBIE |-> Zombie]

Pcs == ListPcs \cup {"sched", "lock", "run", "fork", "yield", "moved"}

TypeOK ==
    /\ ListTypeOK
    /\ pc \in [CPU -> Pcs]
    /\ state \in [Proc -> DOMAIN ListOf]
    /\ lock \in [Proc -> CPU \cup {NoCpu}]
    /\ cpuOf \in [Proc -> CPU \cup {Nil}]
    /\ running \in [CPU -> Proc \cup {Nil}]
    /\ wait_lock \in CPU \cup {NoCpu}
    /\ call \in [CPU -> DOMAIN Moves \cup SchedulerCalls \cup {NoCall, "set_cpu"}]
    /\ target \in [CPU -> Proc \cup {Nil}]
    /\ calls \in 0 .. MaxCalls

\* procinit has put every process on the unused list, userinit has made
\* process 0 runnable on CPU 0.
Init ==
    /\ next = [n \in Node |->
                 IF n = Head(Runnable, 0) THEN 0
                 ELSE IF n = Head(Unused, 0) /\ NPROC > 1 THEN NPROC - 1
                 ELSE IF n \in 2 .. NPROC - 1 THEN n - 1 ELSE Nil]
    /\ next_lock = [n \in Node |-> NoCpu]
    /\ count = [c \in CPU |-> IF c = 0 THEN 1 ELSE 0]
    /\ pc = [c \in CPU |-> "sched"]
    /\ item = [c \in CPU |-> Nil]
    /\ list = [c \in CPU |-> 0]
    /\ cpuNum = [c \in CPU |-> 0]
    /\ pred = [c \in CPU |-> Nil]
    /\ curr = [c \in CPU |-> Nil]
    /\ node = [c \in CPU |-> Nil]
    /\ result = [c \in CPU |-> 0]
    /\ state = [p \in Proc |-> IF p = 0 THEN "RUNNABLE" ELSE "UNUSED"]
    /\ lock = [p \in Proc |-> NoCpu]
    /\ cpuOf = [p \in Proc |-> 0]
    /\ running = [c \in CPU |-> Nil]
    /\ wait_lock = NoCpu
    /\ call = [c \in CPU |-> NoCall]
    /\ target = [c \in CPU |-> Nil]
    /\ calls = 0

\* acquire(&p->lock), then l
AcquireProc(c, p, l) ==
    \/ /\ lock[p] = NoCpu
       /\ lock' = [lock EXCEPT ![p] = c]
       /\ Goto(c, l)
    \/ /\ lock[p] = c
       /\ Goto(c, "panic")
       /\ UNCHANGED lock

\* What find_min_index may answer.  It reads the counters one after the other, and
\* each twice, while other CPUs change them, so that any of several CPUs may seem to
\* have the smallest.  The counts are compared as uint64, a negative one is never the
\* smallest: there is no CPU, -1, if all are negative, the last one still at the end.
MinCpus ==
    {c \in CPU : NCPU > 1 \/ count[c] >= 0} \cup {x \in {Nil} : count[NCPU - 1] < 0}

\* The processes a walk from h meets: the least set with the successor of h
\* and that of each of its own
OnList(h) ==
    LET Closed(S) == \A n \in S \cup {h} : next[n] \in S \cup {Nil}
    IN  {p \in Proc : \A S \in SUBSET Proc : Closed(S) => p \in S}

\* The call is over: its locals are dead.
EndCall(c, l) ==
    /\ call' = [call EXCEPT ![c] = NoCall]
    /\ target' = [target EXCEPT ![c] = Nil]
    /\ result' = [result EXCEPT ![c] = 0]
    /\ Call(c, Nil, 0, 0, l)

-----------------------------------------------------------------------------
(* scheduler() *)

\* The top of the loop: remove_first_in_line of its own list
SchedStart(c) ==
    /\ pc[c] = "sched"
    /\ CallRemoveFirst(c, c)
    /\ call' = [call EXCEPT ![c] = "scheduler"]
    /\ UNCHANGED <<listVars, result, procVars, target, calls>>

\* Nothing there: with balancing try the CPUs 0 .. max_cpu_index - 1.
SchedEmpty(c) ==
    /\ pc[c] = "took_first"
    /\ result[c] = Nil
    /\ LET victim == IF call[c] = "scheduler" THEN 0 ELSE cpuNum[c] + 1
       IN IF Balance /\ victim < NCPU - 1
          THEN /\ CallRemoveFirst(c, victim)
               /\ call' = [call EXCEPT ![c] = "steal"]
               /\ UNCHANGED <<result, target>>
          ELSE EndCall(c, "sched")
    /\ UNCHANGED <<listVars, procVars, calls>>

SchedLock(c) ==
    /\ pc[c] = "took_first"
    /\ result[c] # Nil
    /\ AcquireProc(c, result[c], "lock")
    /\ target' = [target EXCEPT ![c] = result[c]]
    /\ UNCHANGED <<listVars, argVars, walkVars, result, state, cpuOf, running, wait_lock, call, calls>>

\* mutant of SchedCheck: no check of p->state
SchedCheckBlind(c) ==
    /\ pc[c] = "lock"
    /\ CallAdd(c, target[c], Running, c)
    /\ cpuOf' = [cpuOf EXCEPT ![target[c]] = cpuNum[c]]
    /\ UNCHANGED <<listVars, state, lock, running, wait_lock, call, target, result, calls>>

\* If p is not RUNNABLE the loop goes on and p->lock stays held.
SchedCheck(c) ==
    /\ pc[c] = "lock"
    /\ IF state[target[c]] = "RUNNABLE"
       THEN /\ CallAdd(c, target[c], Running, c)
            /\ cpuOf' = [cpuOf EXCEPT ![target[c]] = cpuNum[c]]
            /\ UNCHANGED <<call, target, result>>
       ELSE EndCall(c, "sched") /\ UNCHANGED cpuOf
    /\ UNCHANGED <<listVars, state, lock, running, wait_lock, calls>>

\* RUNNING, c->proc = p, swtch; the process releases its lock.
SchedRun(c) ==
    /\ pc[c] = "added"
    /\ call[c] \in SchedulerCalls
    /\ state' = [state EXCEPT ![target[c]] = "RUNNING"]
    /\ running' = [running EXCEPT ![c] = target[c]]
    /\ lock' = [lock EXCEPT ![target[c]] = NoCpu]
    /\ EndCall(c, "run")
    /\ UNCHANGED <<listVars, cpuOf, wait_lock, calls>>

-----------------------------------------------------------------------------
(* yield, sleep, exit; wakeup and kill, wait *)

\* Who calls what.  init, process 0, never exits, and at the top of the scheduler
\* loop a device calls wakeup.
MayCall(c, k, p) ==
    /\ k \in Calls
    /\ \/ pc[c] = "run" /\ (Moves[k].own <=> p = running[c])
       \/ pc[c] = "sched" /\ k = "wakeup"
    /\ k = "exit" => p # 0

\* wakeup looks for a CPU before it removes p from the sleeping list; without
\* balancing that is the CPU which p ran on.
WakeupCpus(p) == IF Balance THEN MinCpus ELSE {cpuOf[p]}

CallStart(c, k, p) ==
    /\ MayCall(c, k, p)
    /\ state[p] = Moves[k].was /\ k \notin {"fork", "failed"}
    /\ IF Moves[k].waits THEN wait_lock = NoCpu /\ wait_lock' = c ELSE UNCHANGED wait_lock
    /\ \/ /\ lock[p] = NoCpu
          /\ lock' = [lock EXCEPT ![p] = c]
          /\ CallRemove(c, p, Moves[k].from)
       \/ /\ lock[p] = c
          /\ Goto(c, "panic")
          /\ UNCHANGED <<lock, argVars, walkVars>>
    /\ \E cpu \in IF k = "wakeup" THEN WakeupCpus(p) ELSE {cpuOf[p]} : cpuOf' = [cpuOf EXCEPT ![p] = cpu]
    /\ call' = [call EXCEPT ![c] = k]
    /\ target' = [target EXCEPT ![c] = p]
    /\ UNCHANGED <<listVars, result, state, running>>

(* wakeup by a device, between two steps of the scheduler, of fork or of set_cpu *)

\* Who holds a lock has interrupts off.
IntrOn(c) ==
    /\ wait_lock # c
    /\ \A p \in Proc : lock[p] # c
    /\ \A n \in Node : next_lock[n] # c

\* Interrupts are off in the handler, so that nothing else runs on c before it has
\* moved p from the sleeping list, where p follows q, to the front of a runnable list.
\* It is one step, while the other CPUs hold no lock of a node.  At the top of the
\* scheduler loop and in a process that is in no call of Moves, CallStart begins
\* wakeup, and its steps interleave with those of the other CPUs.
Interrupt(c, p) ==
    /\ pc[c] \notin {"sched", "run", "panic", "ub"} /\ IntrOn(c)
    /\ "wakeup" \in Calls
    /\ state[p] = "SLEEPING" /\ lock[p] = NoCpu
    /\ \A n \in Node : next_lock[n] = NoCpu
    /\ \E cpu \in WakeupCpus(p), q \in OnList(Head(Sleeping, c)) \cup {Head(Sleeping, c)} :
         /\ next[q] = p
         /\ IF cpu = Nil
            THEN Goto(c, "ub") /\ UNCHANGED <<next, count, cpuOf, state>>
            ELSE /\ next' = [next EXCEPT ![q] = next[p], ![p] = next[Head(Runnable, cpu)],
                                         ![Head(Runnable, cpu)] = p]
                 /\ count' = [count EXCEPT ![cpu] = @ + 1]
                 /\ cpuOf' = [cpuOf EXCEPT ![p] = cpu]
                 /\ state' = [state EXCEPT ![p] = "RUNNABLE"]
                 /\ UNCHANGED pc
    /\ UNCHANGED <<next_lock, argVars, walkVars, result, lock, running, wait_lock, call, target>>

(* fork *)

\* allocproc.  When kalloc or uvmcopy fails, freeproc follows and p->lock
\* is held until then.
Alloc(c, p) ==
    /\ pc[c] = "run"
    /\ "fork" \in Calls
    /\ lock[p] = NoCpu
    /\ state[p] = "UNUSED"
    /\ state' = [state EXCEPT ![p] = "USED"]
    /\ target' = [target EXCEPT ![c] = p]
    /\ \/ /\ Goto(c, "fork")
          /\ call' = [call EXCEPT ![c] = "fork"]
          /\ UNCHANGED <<lock, argVars, walkVars>>
       \/ /\ "failed" \in Calls
          /\ lock' = [lock EXCEPT ![p] = c]
          /\ call' = [call EXCEPT ![c] = "failed"]
          /\ CallRemove(c, p, Zombie)
    /\ UNCHANGED <<listVars, result, cpuOf, running, wait_lock>>

\* The child has its parent: find a CPU for it, then make it runnable.
Fork(c) ==
    /\ pc[c] = "fork"
    /\ lock[target[c]] = NoCpu
    /\ lock' = [lock EXCEPT ![target[c]] = c]
    /\ \E cpu \in IF Balance THEN MinCpus ELSE {c} : Call(c, target[c], Unused, cpu, "rm_start")
    /\ UNCHANGED <<listVars, result, state, cpuOf, running, wait_lock, call, target, calls>>

(* set_cpu *)

\* No lock is held until it calls yield.
SetCpu(c, cpu) ==
    /\ pc[c] = "run"
    /\ "set_cpu" \in Calls
    /\ Call(c, running[c], Running, cpu, "rm_start")
    /\ call' = [call EXCEPT ![c] = "set_cpu"]
    /\ target' = [target EXCEPT ![c] = running[c]]
    /\ UNCHANGED <<listVars, result, procVars>>

SetCpuYield(c) ==
    /\ pc[c] = "yield"
    /\ lock[target[c]] = NoCpu
    /\ lock' = [lock EXCEPT ![target[c]] = c]
    /\ call' = [call EXCEPT ![c] = "yield"]
    /\ CallRemove(c, target[c], Running)
    /\ UNCHANGED <<listVars, result, state, cpuOf, running, wait_lock, target, calls>>

-----------------------------------------------------------------------------
(* What follows remove and add *)

\* The runnable list the process goes to
CpuFor(c) == CASE call[c] = "wakeup" -> cpuOf[target[c]]
               [] call[c] \in {"fork", "set_cpu"} -> cpuNum[c]
               [] OTHER -> c

\* mutant of ToList: exit puts the process on the unused list
ToListExitUnused(c) ==
    IF call[c] = "set_cpu" THEN Runnable
    ELSE IF call[c] = "exit" THEN Unused ELSE Moves[call[c]].to

ToList(c) == IF call[c] = "set_cpu" THEN Runnable ELSE Moves[call[c]].to

\* if(remove(..) == 1) add(..).  cpu_capacity_counter[-1] follows when
\* find_min_index has found no CPU.
CallAddIt(c) ==
    /\ pc[c] = "removed"
    /\ IF result[c] = 1
       THEN /\ IF CpuFor(c) = Nil THEN Goto(c, "ub") /\ UNCHANGED <<argVars, walkVars>>
               ELSE CallAdd(c, target[c], ToList(c), CpuFor(c))
            /\ UNCHANGED <<result, call, target>>
       ELSE IF call[c] = "set_cpu" THEN EndCall(c, "run")
       ELSE Goto(c, "moved") /\ UNCHANGED <<argVars, walkVars, result, call, target>>
    /\ UNCHANGED <<listVars, procVars, calls>>

\* mutant of CallCount: kill, as set_cpu does, forgets increment_cpu
CallCountNotKill(c) ==
    /\ pc[c] = "added"
    /\ call[c] \notin SchedulerCalls
    /\ count' = [count EXCEPT ![cpuNum[c]] =
                   IF list[c] = Runnable /\ call[c] # "kill" THEN @ + 1 ELSE @]
    /\ Goto(c, "moved")
    /\ UNCHANGED <<next, next_lock, argVars, walkVars, result, procVars, call, target, calls>>

\* increment_cpu; set_cpu has none, and sets p->cpu
CallCount(c) ==
    /\ pc[c] = "added"
    /\ call[c] \notin SchedulerCalls
    /\ IF call[c] = "set_cpu"
       THEN /\ cpuOf' = [cpuOf EXCEPT ![target[c]] = cpuNum[c]]
            /\ Goto(c, "yield")
            /\ UNCHANGED count
       ELSE /\ count' = [count EXCEPT ![cpuNum[c]] = IF list[c] = Runnable THEN @ + 1 ELSE @]
            /\ Goto(c, "moved")
            /\ UNCHANGED cpuOf
    /\ UNCHANGED <<next, next_lock, argVars, walkVars, result,
                   state, lock, running, wait_lock, call, target, calls>>

\* p->state = ..; then sched() and the scheduler's release, or release
CallDone(c) ==
    /\ pc[c] = "moved"
    /\ LET p == target[c]
           m == Moves[call[c]]
       IN /\ state' = [state EXCEPT ![p] = m.is]
          /\ lock' = [lock EXCEPT ![p] = NoCpu]
          /\ running' = IF m.own THEN [running EXCEPT ![c] = Nil] ELSE running
          /\ cpuOf' = [cpuOf EXCEPT ![p] = IF m.is = "UNUSED" THEN 0 ELSE @]
          /\ wait_lock' = IF m.waits THEN NoCpu ELSE wait_lock
          /\ EndCall(c, IF running'[c] = Nil THEN "sched" ELSE "run")
    /\ UNCHANGED <<listVars, calls>>

-----------------------------------------------------------------------------
\* The steps that begin a call are counted.
Begin(c) ==
    /\ calls < MaxCalls
    /\ \/ \E k \in DOMAIN Moves, p \in Proc : CallStart(c, k, p)
       \/ \E p \in Proc : Alloc(c, p) \/ Interrupt(c, p)
       \/ \E cpu \in CPU : SetCpu(c, cpu)
    /\ calls' = calls + 1

Next ==
    \E c \in CPU :
        \/ ListStep(c) /\ UNCHANGED <<procVars, call, target, calls>>
        \/ SchedStart(c) \/ SchedEmpty(c) \/ SchedLock(c) \/ SchedCheck(c) \/ SchedRun(c)
        \/ Begin(c) \/ Fork(c) \/ SetCpuYield(c)
        \/ CallAddIt(c) \/ CallCount(c) \/ CallDone(c)

Spec == Init /\ [][Next]_vars

-----------------------------------------------------------------------------
(* Properties *)

\* No kernel call acquires a lock its CPU holds already, which acquire
\* answers with panic("acquire") (spinlock.c 27-29).
NoPanic == \A c \in CPU : pc[c] # "panic"

\* No kernel call has used proc[-1] or cpu_capacity_counter[-1], the end of a
\* list or the answer "no CPU", as if it were a process or a CPU.
NoUb == \A c \in CPU : pc[c] # "ub"

\* The one place where a kernel call does so: remove_first_in_line has read that the
\* line is empty, and is about to use that as curr, since an interrupt has put a
\* process there before the test for an empty line reads it again.  Everywhere else
\* remove finds its process, validate its pair and find_min_index a CPU.
UbAtEmptyLine ==
    \A c \in CPU : pc[c] = "ub" =>
        /\ call[c] \in SchedulerCalls
        /\ pred[c] = Head(Runnable, cpuNum[c]) /\ next[pred[c]] # Nil /\ curr[c] = Nil

Quiet == \A c \in CPU : pc[c] \in {"sched", "run", "fork", "yield"}

\* Every variable has its type, and between calls every process is on the
\* list of its state and on no other: what remove and add of the many callers
\* (yield, sleep, exit, wakeup, kill, fork, freeproc, the scheduler) add up to.
ListsMatchStates ==
    /\ TypeOK
    /\ Quiet => \A p \in Proc :
         /\ \E c \in CPU : p \in OnList(Head(ListOf[state[p]], c))
         /\ Cardinality({h \in Heads : p \in OnList(h)}) = 1
        /\ Cardinality({n \in Node : next[n] = p}) = 1

\* Between calls the load that find_min_index and cpu_process_count read is
\* the length of the CPU's runnable list: every add is counted by
\* increment_cpu and every removal by decrement_cpu.
CountsMatchLists ==
    Quiet => \A c \in CPU : count[c] = Cardinality(OnList(Head(Runnable, c)))

\* Whatever has become of the lists, no two CPUs run the same process and
\* a process that runs is RUNNING: the check of p->state under p->lock in
\* scheduler() catches the process that two CPUs took from a list.
RunsOnOneCpu ==
    NoUb => /\ \A c, d \in CPU : c # d /\ running[c] # Nil => running[c] # running[d]
            /\ \A c \in CPU : running[c] # Nil => state[running[c]] = "RUNNING"

(* What the proof of RunsOnOneCpu adds to it *)

\* The list code uses no end of a list as a node at the places where it
\* does not look: pred, curr and node are nodes, item is a process.
WalkInv ==
    \A c \in CPU :
        /\ pc[c] \in (RemovePcs \cup AddPcs \cup FirstPcs) \ {"rm_start", "add_lock_head", "rf_start"} =>
              pred[c] # Nil
        /\ pc[c] \in {"rm_validate", "rm_validate_next", "rm_unlink",
                      "add_validate", "add_link", "add_link_end",
                      "rf_validate", "rf_validate_next", "rf_unlink", "rf_release"} =>
              curr[c] # Nil
        /\ pc[c] \in {"rm_validate_next", "rf_validate_next"} => node[c] # Nil
        /\ pc[c] \in AddPcs => item[c] # Nil
        /\ pc[c] = "took_first" => result[c] \in Proc \cup {Nil}

\* The places of a call between acquire of p->lock and its release
Holding(c) ==
    \/ call[c] \in DOMAIN Moves /\ pc[c] \in RemovePcs \cup AddPcs \cup {"removed", "added", "moved"}
    \/ call[c] \in SchedulerCalls /\ pc[c] \in AddPcs \cup {"lock", "added"}

Forks(c) == call[c] \in {"fork", "failed"} /\ pc[c] # "panic"

\* The state that the call found, and that nobody may change before it does
Found(c) == IF call[c] \in SchedulerCalls THEN "RUNNABLE" ELSE Moves[call[c]].was

\* Which places belong to which call, and whose process it is about.
CallInv ==
    \A c \in CPU :
        /\ pc[c] \in {"sched", "run"} <=> call[c] = NoCall
        /\ pc[c] = "sched" \/ call[c] \in SchedulerCalls => running[c] = Nil
        /\ pc[c] = "run" => running[c] # Nil
        /\ pc[c] \in FirstPcs \cup {"took_first", "lock"} => call[c] \in SchedulerCalls
        /\ pc[c] \in RemovePcs \cup {"removed"} => call[c] \notin SchedulerCalls
        /\ pc[c] = "fork" => call[c] = "fork"
        /\ pc[c] = "yield" => call[c] = "set_cpu"
        /\ pc[c] = "moved" => call[c] \in DOMAIN Moves
        /\ call[c] \notin SchedulerCalls \cup {NoCall} => target[c] # Nil
        /\ pc[c] # "panic" /\ (call[c] = "set_cpu" \/ (call[c] \in DOMAIN Moves /\ Moves[call[c]].own)) =>
              target[c] = running[c]

\* From the check of p->state on, the call holds p->lock and p->state is
\* what it was.  A child is USED from allocproc on, and fork's alone.
LockInv ==
    \A c \in CPU :
        /\ Holding(c) => target[c] # Nil /\ lock[target[c]] = c
        /\ Holding(c) /\ pc[c] # "lock" => state[target[c]] = Found(c)
        /\ Forks(c) => state[target[c]] = "USED"
        /\ \A d \in CPU : c # d /\ Forks(c) /\ Forks(d) => target[c] # target[d]

\* No two CPUs run one process.
RunInv ==
    \A c \in CPU :
        running[c] # Nil =>
            /\ state[running[c]] = "RUNNING"
            /\ \A d \in CPU : c # d => running[c] # running[d]

\* The inductive invariant behind RunsOnOneCpu
Inv == TypeOK /\ WalkInv /\ CallInv /\ LockInv /\ RunInv
=============================================================================
