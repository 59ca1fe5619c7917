--------------------------- MODULE ProcTable_proof ---------------------------
(***************************************************************************)
(* Proofs about ProcTable for every number of CPUs and slots: the types,   *)
(* that a kernel stack is used by one CPU at a time, sleep and wakeup, the *)
(* sleeplock, and the family tree of fork, exit and wait.                  *)
(***************************************************************************)
EXTENDS ProcTable, TLAPS

-----------------------------------------------------------------------------
(* Types *)

\* The variables have their types at power on (userinit).
LEMMA InitType == Init => TypeOK
  BY ProcTableAssumption, SMTT(30) DEF Init, TypeOK, Proc, Nobody, SleepLock, initproc, Pcs, WaitPcs, LockPcs, SleepPcs, ExitPcs

\* The end of wait keeps the types of what it changes.
LEMMA WaitReturnType ==
  ASSUME TypeOK, NEW p \in Proc, WaitReturn(p)
  PROVE  /\ wait_lock' \in CPU \cup {NoCpu}
         /\ i' \in [Proc -> 0 .. NPROC]
         /\ kids' \in [Proc -> BOOLEAN]
         /\ pc' \in [Proc -> Pcs]
  BY ProcTableAssumption DEF TypeOK, WaitReturn, Goto, Pcs

\* The call of sleep keeps the types of what it changes, and so does
\* the call of wakeup.
LEMMA CallSleepType ==
  ASSUME TypeOK, NEW p \in Proc, NEW ch \in Proc \cup {Nobody, SleepLock},
         CallSleep(p, ch)
  PROVE  /\ arg' \in [Proc -> Proc \cup {Nobody, SleepLock}]
         /\ pc' \in [Proc -> Pcs]
  BY DEF TypeOK, CallSleep, Goto, Pcs, SleepPcs

LEMMA CallWakeupType ==
  ASSUME TypeOK, NEW p \in Proc, NEW ch \in Proc \cup {Nobody, SleepLock},
         NEW r \in {"reparent", "zombie", "unlocked"}, CallWakeup(p, ch, r)
  PROVE  /\ arg' \in [Proc -> Proc \cup {Nobody, SleepLock}]
         /\ ret' \in [Proc -> {"none", "reparent", "zombie", "unlocked", "user", "holds"}]
         /\ i' \in [Proc -> 0 .. NPROC]
         /\ pc' \in [Proc -> Pcs]
  BY ProcTableAssumption DEF TypeOK, CallWakeup, Goto, Pcs

USE DEF Goto, At, Acquire, Release, Calls,
        tableVars, lockVars, localVars

\* Every step keeps the types.
LEMMA NextType == TypeOK /\ [Next]_vars => TypeOK'
<1> SUFFICES ASSUME TypeOK, [Next]_vars PROVE TypeOK'
  OBVIOUS
<1> USE ProcTableAssumption DEF TypeOK
<1>1. CASE UNCHANGED vars
  BY <1>1 DEF vars
<1>2. ASSUME NEW c \in CPU, NEW p \in Proc,
             \/ Scheduler(c, p) \/ Sched(c, p) \/ SwtchBack(c, p) \/ Return(c, p)
             \/ Yield(c, p, "user") \/ Yield(c, p, "holds")
      PROVE TypeOK'
  BY <1>2 DEF Scheduler, Sched, SwtchBack, Return, Yield, Pcs, WaitPcs, LockPcs, SleepPcs, ExitPcs
<1>3. ASSUME NEW c \in CPU, NEW p \in Proc,
             \/ Sleep(c, p) \/ SleepRelease(c, p) \/ SleepState(c, p) \/ Woken(c, p)
      PROVE TypeOK'
  BY <1>3 DEF Sleep, SleepRelease, SleepState, Woken, Pcs, WaitPcs, LockPcs, SleepPcs, ExitPcs
<1>4. ASSUME NEW c \in CPU, NEW p \in Proc, WakeupNext(c, p) \/ WakeupEnd(c, p)
      PROVE TypeOK'
  <2>1. CASE WakeupNext(c, p)
    <3>1. PICK q \in Proc :
            /\ state' = [state EXCEPT ![q] =
                  IF @ = "SLEEPING" /\ chan[q] = arg[p] THEN "RUNNABLE" ELSE @]
            /\ i' = [i EXCEPT ![p] = q + 1]
      BY <2>1 DEF WakeupNext
    <3> QED
      BY <2>1, <3>1 DEF WakeupNext, Proc
  <2>2. CASE WakeupEnd(c, p)
    <3>1. ret[p] \in Pcs
      BY DEF Pcs, WaitPcs, LockPcs, SleepPcs, ExitPcs
    <3> QED
      BY <2>2, <3>1 DEF WakeupEnd
  <2> QED
    BY <1>4, <2>1, <2>2
<1>5. ASSUME NEW c \in CPU, NEW p \in Proc,
             LkLock(c, p) \/ LkTest(c, p) \/ Unlock(c, p) \/ Unlocked(c, p)
      PROVE TypeOK'
  <2>1. CASE LkLock(c, p) \/ Unlocked(c, p)
    BY <2>1 DEF LkLock, Unlocked, Pcs, WaitPcs, LockPcs, SleepPcs, ExitPcs
  <2>2. CASE LkTest(c, p)
    BY <2>2, CallSleepType DEF LkTest, Pcs, WaitPcs, LockPcs, SleepPcs, ExitPcs
  <2>3. CASE Unlock(c, p)
    BY <2>3, CallWakeupType DEF Unlock
  <2> QED
    BY <1>5, <2>1, <2>2, <2>3
<1>6. ASSUME NEW c \in CPU, NEW p \in Proc, ForkParent(c, p) \/ ForkRun(c, p)
      PROVE TypeOK'
  BY <1>6 DEF ForkParent, ForkRun, Pcs, WaitPcs, LockPcs, SleepPcs, ExitPcs
<1>7. ASSUME NEW c \in CPU, NEW p \in Proc,
             ExitLock(c, p) \/ Reparent(c, p) \/ WakeParent(c, p) \/ Zombie(c, p)
      PROVE TypeOK'
  <2>1. CASE ExitLock(c, p) \/ Zombie(c, p)
    BY <2>1 DEF ExitLock, Zombie, Pcs, WaitPcs, LockPcs, SleepPcs, ExitPcs
  <2>2. CASE Reparent(c, p)
    <3>1. PICK q \in Proc : parent' = [parent EXCEPT ![q] = initproc]
      BY <2>2 DEF Reparent, Children
    <3>2. initproc \in Proc
      BY DEF Proc, initproc
    <3> QED
      BY <2>2, <3>1, <3>2, CallWakeupType DEF Reparent
  <2>3. CASE WakeParent(c, p)
    <3>1. parent[p] \in Proc \cup {Nobody, SleepLock}
      OBVIOUS
    <3> QED
      BY <2>3, <3>1, CallWakeupType DEF WakeParent
  <2> QED
    BY <1>7, <2>1, <2>2, <2>3
<1>8. ASSUME NEW c \in CPU, NEW p \in Proc, WaitLock(c, p) \/ WaitCheck(c, p)
      PROVE TypeOK'
  <2>1. CASE WaitLock(c, p)
    BY <2>1 DEF WaitLock, Pcs, WaitPcs, LockPcs, SleepPcs, ExitPcs
  <2>2. CASE WaitCheck(c, p)
    <3>1. CASE WaitReturn(p) /\ UNCHANGED arg
      BY <2>2, <3>1, WaitReturnType DEF WaitCheck
    <3>2. CASE CallSleep(p, p) /\ UNCHANGED <<wait_lock, i, kids>>
      BY <2>2, <3>2, CallSleepType DEF WaitCheck
    <3> QED
      BY <2>2, <3>1, <3>2 DEF WaitCheck
  <2> QED
    BY <1>8, <2>1, <2>2
<1>9. ASSUME NEW c \in CPU, NEW p \in Proc, WaitNext(c, p) PROVE TypeOK'
  BY <1>9 DEF WaitNext, Proc
<1>10. ASSUME NEW c \in CPU, NEW p \in Proc, Reap(c, p) PROVE TypeOK'
  <2>1. PICK q \in Proc :
          \/ /\ state' = [state EXCEPT ![q] = "UNUSED"]
             /\ parent' = [parent EXCEPT ![q] = Nobody]
             /\ chan' = [chan EXCEPT ![q] = Nobody]
             /\ killed' = [killed EXCEPT ![q] = FALSE]
          \/ UNCHANGED tableVars
    BY <1>10 DEF Reap
  <2> QED
    BY <1>10, <2>1, WaitReturnType DEF Reap
<1>11. ASSUME NEW c \in CPU, NEW p \in Proc, NEW q \in Proc, Fork(c, p, q) \/ Kill(c, p, q)
       PROVE TypeOK'
  <2>1. CASE Fork(c, p, q)
    <3>1. pc' \in [Proc -> Pcs]
      BY <2>1 DEF Fork, Pcs
    <3>2. state' \in [Proc -> {"UNUSED", "USED", "SLEEPING", "RUNNABLE", "RUNNING", "ZOMBIE"}]
      BY <2>1 DEF Fork
    <3>3. killed' = killed \/ killed' = [killed EXCEPT ![q] = FALSE]
      BY <2>1 DEF Fork
    <3>4. np' = np \/ np' = [np EXCEPT ![p] = q]
      BY <2>1 DEF Fork
    <3>5. killed' \in [Proc -> BOOLEAN]
      BY <3>3
    <3>6. np' \in [Proc -> Proc \cup {Nobody}]
      BY <3>4
    <3>7. UNCHANGED <<parent, chan, lockVars, running, i, kids, arg, ret>>
      BY <2>1 DEF Fork
    <3> QED
      BY <3>1, <3>2, <3>5, <3>6, <3>7
  <2>2. CASE Kill(c, p, q)
    BY <2>2 DEF Kill, Pcs
  <2> QED
    BY <1>11, <2>1, <2>2
<1> QED
  BY <1>1, <1>2, <1>3, <1>4, <1>5, <1>6, <1>7, <1>8, <1>9, <1>10, <1>11 DEF Next

\* Every variable of the process table keeps its type.
THEOREM TypeCorrect == Spec => []TypeOK
  BY InitType, NextType, PTL DEF Spec

-----------------------------------------------------------------------------
(* One CPU per kernel stack *)

Critical == {"sleep_release", "sleep_state", "fork_parent", "fork_run"}

\* Nothing runs yet.
LEMMA InitSwtch == Init => SwtchInv
  BY DEF Init, SwtchInv, StackOnOneCpu, Proc, Nobody

\* Steps that touch no p->state, p->lock, c->proc or np and stay away from
\* the middle of sleep and fork.
LEMMA LocalStep ==
  ASSUME TypeOK, SwtchInv, NEW p \in Proc, NEW l \in Pcs \ Critical,
         UNCHANGED pc \/ Goto(p, l), UNCHANGED <<running, state, lock, np>>
  PROVE  SwtchInv'
  BY DEF TypeOK, SwtchInv, StackOnOneCpu, Goto, Critical

\* scheduler
LEMMA SchedulerStep ==
  ASSUME TypeOK, SwtchInv, NEW c \in CPU, NEW p \in Proc, Scheduler(c, p)
  PROVE  SwtchInv'
<1> USE ProcTableAssumption DEF TypeOK, SwtchInv, StackOnOneCpu, Scheduler, Acquire
<1>1. StackOnOneCpu'
  OBVIOUS
<1>2. ASSUME NEW d \in CPU, NEW q \in Proc, running'[d] = q,
             pc'[q] \in {"sleep_release", "sleep_state"}
      PROVE lock'[q] = d
  BY <1>2
<1>3. ASSUME NEW q \in Proc, pc'[q] \in {"fork_parent", "fork_run"}
      PROVE  /\ np'[q] \in Proc /\ state'[np'[q]] = "USED"
             /\ \A r \in Proc \ {q} :
                   pc'[r] \in {"fork_parent", "fork_run"} => np'[r] # np'[q]
  BY <1>3
<1> QED
  BY <1>1, <1>2, <1>3

\* sched and swtch: the scheduler releases the lock of p.
LEMMA SchedStep ==
  ASSUME TypeOK, SwtchInv, NEW c \in CPU, NEW p \in Proc, Sched(c, p)
  PROVE  SwtchInv'
  BY ProcTableAssumption DEF TypeOK, SwtchInv, StackOnOneCpu, Sched, Release, tableVars, localVars, Proc, Nobody

\* forkret, the end of yield and the end of sleep: p releases its lock.
LEMMA ReleaseStep ==
  ASSUME TypeOK, SwtchInv, NEW c \in CPU, NEW p \in Proc, NEW l \in Pcs \ Critical,
         running[c] = p, state[p] = "RUNNING", Release(p), Goto(p, l),
         UNCHANGED <<running, state, np>>
  PROVE  SwtchInv'
  BY ProcTableAssumption DEF TypeOK, SwtchInv, StackOnOneCpu, Release, Goto, Critical, Proc, Nobody

\* yield, exit and sleep: p acquires its lock and may give up its state.
LEMMA AcquireStep ==
  ASSUME TypeOK, SwtchInv, NEW c \in CPU, NEW p \in Proc,
         NEW l \in (Pcs \ Critical) \cup {"sleep_release"},
         running[c] = p, state[p] = "RUNNING", Acquire(c, p), Goto(p, l),
         \/ UNCHANGED state
         \/ \E s \in {"RUNNABLE", "ZOMBIE"} : state' = [state EXCEPT ![p] = s],
         UNCHANGED <<running, np>>
  PROVE  SwtchInv'
  BY ProcTableAssumption DEF TypeOK, SwtchInv, StackOnOneCpu, Acquire, Goto, Critical, Proc, Nobody

\* sleep between its acquire and its swtch
LEMMA SleepStep ==
  ASSUME TypeOK, SwtchInv, NEW c \in CPU, NEW p \in Proc,
         SleepRelease(c, p) \/ SleepState(c, p)
  PROVE  SwtchInv'
<1> USE DEF TypeOK, SwtchInv, StackOnOneCpu, At, Goto, Proc, Nobody
<1>1. CASE SleepRelease(c, p)
  BY <1>1 DEF SleepRelease
<1>2. CASE SleepState(c, p)
  <2>1. running[c] = p /\ lock[p] = c /\ state[p] = "RUNNING" /\ pc[p] = "sleep_state"
    BY <1>2 DEF SleepState
  <2>2. /\ state' = [state EXCEPT ![p] = "SLEEPING"]
        /\ pc' = [pc EXCEPT ![p] = "asleep"]
        /\ UNCHANGED <<lock, running, np>>
    BY <1>2 DEF SleepState
  <2> QED
    BY <2>1, <2>2
<1> QED
  BY <1>1, <1>2

\* wakeup, kill and wait change the state of a process whose lock is free,
\* so that no CPU is still on its stack.
LEMMA OtherStep ==
  ASSUME TypeOK, SwtchInv, NEW p \in Proc, NEW q \in Proc, NEW l \in Pcs \ Critical,
         lock[q] = NoCpu,
         \/ UNCHANGED state
         \/ state[q] = "SLEEPING" /\ state' = [state EXCEPT ![q] = "RUNNABLE"]
         \/ state[q] = "ZOMBIE" /\ state' = [state EXCEPT ![q] = "UNUSED"],
         UNCHANGED pc \/ Goto(p, l), UNCHANGED <<running, lock, np>>
  PROVE  SwtchInv'
  BY ProcTableAssumption, SMTT(30) DEF TypeOK, SwtchInv, StackOnOneCpu, Goto, Critical, Proc, Nobody

\* allocproc: an unused slot has no CPU and is nobody's child in the making.
LEMMA ForkStep ==
  ASSUME TypeOK, SwtchInv, NEW c \in CPU, NEW p \in Proc, NEW q \in Proc, Fork(c, p, q)
  PROVE  SwtchInv'
<1>1. /\ running[c] = p /\ state[p] = "RUNNING" /\ pc[p] = "user"
      /\ state[q] = "UNUSED" /\ UNCHANGED <<running, lock>>
  BY DEF Fork, Calls, At, lockVars
<1>2. CASE /\ state' = [state EXCEPT ![q] = "USED"]
           /\ np' = [np EXCEPT ![p] = q]
           /\ pc' = [pc EXCEPT ![p] = "fork_parent"]
  BY <1>1, <1>2 DEF TypeOK, SwtchInv, StackOnOneCpu, Proc, Nobody
<1>3. CASE pc' = [pc EXCEPT ![p] = "return"] /\ UNCHANGED <<state, np>>
  BY <1>1, <1>3 DEF TypeOK, SwtchInv, StackOnOneCpu
<1> QED
  BY <1>2, <1>3 DEF Fork, Goto

\* The child gets its parent, then it may run.
LEMMA ForkEndStep ==
  ASSUME TypeOK, SwtchInv, NEW c \in CPU, NEW p \in Proc,
         ForkParent(c, p) \/ ForkRun(c, p)
  PROVE  SwtchInv'
<1>1. CASE ForkParent(c, p)
  BY <1>1 DEF TypeOK, SwtchInv, StackOnOneCpu, ForkParent, At, Goto
<1>2. CASE ForkRun(c, p)
  <2>1. /\ running[c] = p /\ state[p] = "RUNNING" /\ pc[p] = "fork_run"
        /\ state' = [state EXCEPT ![np[p]] = "RUNNABLE"]
        /\ pc' = [pc EXCEPT ![p] = "return", ![np[p]] = "forkret"]
        /\ np' = [np EXCEPT ![p] = Nobody]
        /\ UNCHANGED <<running, lock>>
    BY <1>2 DEF ForkRun, At, lockVars
  <2>2. np[p] \in Proc /\ state[np[p]] = "USED" /\ np[p] # p
    BY <2>1 DEF SwtchInv
  <2>3. \A d \in CPU : running[d] # np[p]
    BY <2>2 DEF SwtchInv, StackOnOneCpu, Proc, Nobody
  <2> QED
    BY <2>1, <2>2, <2>3 DEF TypeOK, SwtchInv, StackOnOneCpu, Proc, Nobody
<1> QED
  BY <1>1, <1>2

\* The invariant is inductive.
LEMMA NextSwtch == TypeOK /\ SwtchInv /\ [Next]_vars => SwtchInv'
<1> SUFFICES ASSUME TypeOK, SwtchInv, [Next]_vars PROVE SwtchInv'
  OBVIOUS
<1> USE DEF Pcs, Critical
<1>1. CASE UNCHANGED vars
  BY <1>1 DEF vars, SwtchInv, StackOnOneCpu, tableVars, lockVars, localVars
<1>2. ASSUME NEW c \in CPU, NEW p \in Proc, Scheduler(c, p) \/ Sched(c, p)
      PROVE SwtchInv'
  BY <1>2, SchedulerStep, SchedStep
<1>3. ASSUME NEW c \in CPU, NEW p \in Proc, SwtchBack(c, p) \/ Woken(c, p)
      PROVE SwtchInv'
  <2>1. CASE At(c, p, "forkret") /\ SwtchBack(c, p)
    BY <2>1, ReleaseStep DEF SwtchBack, At, tableVars
  <2>2. CASE At(c, p, "yielded") /\ SwtchBack(c, p)
    <3>1. ret[p] \in Pcs \ Critical
      BY DEF TypeOK, WaitPcs, LockPcs, SleepPcs, ExitPcs
    <3>2. At(c, p, "yielded") /\ Release(p) /\ Goto(p, ret[p]) /\ UNCHANGED <<running, state, np>>
      BY <2>2 DEF SwtchBack, At, tableVars
    <3> QED
      BY <3>1, <3>2, ReleaseStep DEF At
  <2>3. CASE Woken(c, p)
    <3>1. \E l \in {"wait_lock", "lk_lock"} : Goto(p, l)
      BY <2>3 DEF Woken
    <3> QED
      BY <2>3, <3>1, ReleaseStep DEF Woken, At, localVars, WaitPcs, LockPcs
  <2> QED
    BY <1>3, <2>1, <2>2, <2>3 DEF SwtchBack
<1>4. ASSUME NEW c \in CPU, NEW p \in Proc, Yield(c, p, "user") \/ Yield(c, p, "holds")
      PROVE SwtchInv'
  BY <1>4, AcquireStep DEF Yield, At
<1>5. ASSUME NEW c \in CPU, NEW p \in Proc, Sleep(c, p) \/ Zombie(c, p)
      PROVE SwtchInv'
  BY <1>5, AcquireStep DEF Sleep, Zombie, At, tableVars, localVars
<1>6. ASSUME NEW c \in CPU, NEW p \in Proc, SleepRelease(c, p) \/ SleepState(c, p)
      PROVE SwtchInv'
  BY <1>6, SleepStep
<1>7. ASSUME NEW c \in CPU, NEW p \in Proc, ForkParent(c, p) \/ ForkRun(c, p)
      PROVE SwtchInv'
  BY <1>7, ForkEndStep
<1>8. ASSUME NEW c \in CPU, NEW p \in Proc, NEW q \in Proc, Fork(c, p, q)
      PROVE SwtchInv'
  BY <1>8, ForkStep
<1>9. ASSUME NEW c \in CPU, NEW p \in Proc, NEW q \in Proc, Kill(c, p, q)
      PROVE SwtchInv'
  <2>1. CASE state[q] = "SLEEPING"
    BY <1>9, <2>1, OtherStep DEF Kill, lockVars, localVars
  <2>2. CASE state[q] # "SLEEPING"
    <3>1. UNCHANGED state
      BY <1>9, <2>2 DEF Kill, TypeOK
    <3> QED
      BY <1>9, <3>1, OtherStep DEF Kill, lockVars, localVars
  <2> QED
    BY <2>1, <2>2
<1>10. ASSUME NEW c \in CPU, NEW p \in Proc, WakeupNext(c, p) PROVE SwtchInv'
  <2>1. PICK q \in Proc :
          /\ lock[q] = NoCpu
          /\ state' = [state EXCEPT ![q] =
                IF @ = "SLEEPING" /\ chan[q] = arg[p] THEN "RUNNABLE" ELSE @]
    BY <1>10 DEF WakeupNext
  <2>2. UNCHANGED state \/ (state[q] = "SLEEPING" /\ state' = [state EXCEPT ![q] = "RUNNABLE"])
    BY <2>1 DEF TypeOK
  <2>3. UNCHANGED <<running, lock, np, pc>>
    BY <1>10 DEF WakeupNext, lockVars
  <2>4. "user" \in Pcs \ Critical
    OBVIOUS
  <2> QED
    BY <2>1, <2>2, <2>3, <2>4, OtherStep
<1>11. ASSUME NEW c \in CPU, NEW p \in Proc, Reap(c, p) PROVE SwtchInv'
  <2>1. PICK q \in Proc :
          /\ lock[q] = NoCpu
          /\ state[q] = "ZOMBIE"
          /\ state' = [state EXCEPT ![q] = "UNUSED"] \/ UNCHANGED state
    BY <1>11 DEF Reap, tableVars
  <2>2. Goto(p, "return") /\ UNCHANGED <<running, lock, np>>
    BY <1>11 DEF Reap, WaitReturn
  <2> QED
    BY <2>1, <2>2, OtherStep
<1>12. ASSUME NEW c \in CPU, NEW p \in Proc,
              \/ Return(c, p) \/ WakeupEnd(c, p) \/ LkLock(c, p) \/ LkTest(c, p)
              \/ Unlock(c, p) \/ Unlocked(c, p) \/ ExitLock(c, p) \/ Reparent(c, p)
              \/ WakeParent(c, p) \/ WaitLock(c, p) \/ WaitNext(c, p) \/ WaitCheck(c, p)
       PROVE SwtchInv'
  <2>1. UNCHANGED <<running, state, lock, np>>
    BY <1>12 DEF Return, WakeupEnd, LkLock, LkTest, Unlock, Unlocked, ExitLock, Reparent,
       WakeParent, WaitLock, WaitNext, WaitCheck, tableVars, lockVars, localVars
  <2>2. UNCHANGED pc \/ \E l \in Pcs \ Critical : Goto(p, l)
    <3>1. ret[p] \in Pcs \ Critical
      BY DEF TypeOK, WaitPcs, LockPcs, SleepPcs, ExitPcs
    <3> USE DEF WaitPcs, LockPcs, SleepPcs, ExitPcs
    <3>2. CASE Return(c, p) \/ WakeupEnd(c, p)
      <4>1. CASE Return(c, p)
        BY <4>1 DEF Return
      <4>2. CASE WakeupEnd(c, p)
        BY <4>2, <3>1 DEF WakeupEnd
      <4> QED
        BY <3>2, <4>1, <4>2
    <3>3. CASE LkLock(c, p) \/ LkTest(c, p) \/ Unlock(c, p) \/ Unlocked(c, p)
      BY <3>3 DEF LkLock, LkTest, Unlock, Unlocked, CallSleep, CallWakeup
    <3>4. CASE ExitLock(c, p) \/ Reparent(c, p) \/ WakeParent(c, p)
      BY <3>4 DEF ExitLock, Reparent, WakeParent, CallWakeup
    <3>5. CASE WaitLock(c, p) \/ WaitNext(c, p) \/ WaitCheck(c, p)
      BY <3>5 DEF WaitLock, WaitNext, WaitCheck, WaitReturn, CallSleep
    <3> QED
      BY <1>12, <3>2, <3>3, <3>4, <3>5
  <2> QED
    BY <2>1, <2>2, LocalStep
<1> QED
  BY <1>1, <1>2, <1>3, <1>4, <1>5, <1>6, <1>7, <1>8, <1>9, <1>10, <1>11, <1>12 DEF Next

\* No kernel stack is used by two CPUs, or by one CPU after freeproc: the
\* hand-over of p->lock through swtch is enough, on any number of CPUs.
THEOREM OneCpuPerStack == Spec => []StackOnOneCpu
<1>1. Init => TypeOK /\ SwtchInv
  BY InitType, InitSwtch
<1>2. TypeOK /\ SwtchInv /\ [Next]_vars => TypeOK' /\ SwtchInv'
  BY NextType, NextSwtch
<1>3. SwtchInv => StackOnOneCpu
  BY DEF SwtchInv
<1> QED
  BY <1>1, <1>2, <1>3, PTL DEF Spec

-----------------------------------------------------------------------------
(* Sleep and wakeup, the locks, and the family tree *)

USE DEF Goto, At, Acquire, Release, Calls, tableVars, lockVars, localVars

\* A process that comes back from swtch in forkret or yield goes on in user
\* code or with the sleeplock.
BackTo(c, p, l) ==
  /\ running[c] = p /\ state[p] = "RUNNING" /\ pc[p] \in {"forkret", "yielded"}
  /\ l = "holds" => ret[p] = "holds"
  /\ Goto(p, l)
  /\ Release(p)
  /\ ret' = [ret EXCEPT ![p] = "none"]
  /\ UNCHANGED <<tableVars, wait_lock, lk, locked, running, np, i, kids, arg>>

LEMMA BackStep ==
  ASSUME Inv, NEW c \in CPU, NEW p \in Proc, SwtchBack(c, p)
  PROVE  \E l \in {"user", "holds"} : BackTo(c, p, l)
  BY DEF Inv, SwtchBack, SlotInv, BackTo

\* wakeup returns to releasesleep or exit.
WakeupReturns(c, p, l) ==
  /\ running[c] = p /\ state[p] = "RUNNING" /\ pc[p] = "wakeup" /\ ret[p] = l
  /\ IsPast(p, Proc \ {p})
  /\ Goto(p, l)
  /\ i' = [i EXCEPT ![p] = 0]
  /\ arg' = [arg EXCEPT ![p] = Nobody]
  /\ ret' = [ret EXCEPT ![p] = "none"]
  /\ UNCHANGED <<tableVars, lockVars, running, np, kids>>

LEMMA WakeupEndStep ==
  ASSUME Inv, NEW c \in CPU, NEW p \in Proc, WakeupEnd(c, p)
  PROVE  \E l \in {"reparent", "zombie", "unlocked"} : WakeupReturns(c, p, l)
  BY DEF Inv, WakeupEnd, SlotInv, WakeupReturns

\* Every process in wakeup, and every child of x on its way to a wakeup, goes
\* on as before.
WakersStay(x) ==
  /\ \A r \in Proc : pc[r] = "wakeup" =>
        pc'[r] = "wakeup" /\ ret'[r] = ret[r] /\ arg'[r] = arg[r] /\ i'[r] = i[r]
  /\ \A y \in Children(x) :
        /\ pc'[y] = "zombie" => pc[y] = "zombie"
        /\ pc'[y] = "wakeup" => pc[y] = "wakeup"

\* A sleeper that such a step leaves asleep stays covered.
LEMMA SleeperStays ==
  ASSUME NEW x \in Proc, SleeperInv(x), Sleeps(x, x)' => Sleeps(x, x),
         Children(x)' = Children(x), WakersStay(x),
         \A y \in Children(x) : state'[y] = "ZOMBIE" => state[y] = "ZOMBIE"
  PROVE  SleeperInv(x)'
<1> SUFFICES ASSUME Sleeps(x, x)', NEW y \in Children(x)
             PROVE  /\ Children(x) # {}
                    /\ pc'[y] # "zombie"
                    /\ pc'[y] = "wakeup" /\ ret'[y] = "zombie" => WillWake(y, x, "zombie", x)'
                    /\ state'[y] = "ZOMBIE" => \E r \in Proc : WillWake(r, x, "reparent", x)'
  BY DEF SleeperInv
<1> QED
  BY DEF SleeperInv, WakersStay, WillWake, Children

\* The locks of wait, exit and the sleeplock stay with the CPU that runs their holder.
LEMMA NextLocks == Inv /\ [Next]_vars => LocksHeld'
<1> SUFFICES ASSUME Inv, [Next]_vars PROVE LocksHeld'
  OBVIOUS
<1> USE ProcTableAssumption
<1>1. ASSUME NEW c \in CPU, NEW p \in Proc, SwtchBack(c, p) PROVE LocksHeld'
  <2>1. PICK l \in {"user", "holds"} : BackTo(c, p, l)
    BY <1>1, BackStep
  <2> USE DEF BackTo, Inv, TypeOK, LocksHeld, HoldsWaitLock, HoldsLk, HeldFor
  <2> QED
    BY <2>1
<1>2. ASSUME NEW c \in CPU, NEW p \in Proc, WakeupEnd(c, p) PROVE LocksHeld'
  <2>1. PICK l \in {"reparent", "zombie", "unlocked"} : WakeupReturns(c, p, l)
    BY <1>2, WakeupEndStep
  <2> USE DEF WakeupReturns, Inv, TypeOK, LocksHeld, HoldsWaitLock, HoldsLk, HeldFor
  <2> QED
    BY <2>1
<1> USE DEF Inv, TypeOK, LocksHeld, HoldsWaitLock, HoldsLk, HeldFor
<1>3. CASE UNCHANGED vars
  BY <1>3 DEF vars
<1>4. ASSUME NEW c \in CPU, NEW p \in Proc, Scheduler(c, p) PROVE LocksHeld'
  BY <1>4 DEF Scheduler, Proc, Nobody
<1>5. ASSUME NEW c \in CPU, NEW p \in Proc, Sched(c, p) PROVE LocksHeld'
  BY <1>5 DEF Sched
<1>6. ASSUME NEW c \in CPU, NEW p \in Proc, Return(c, p) PROVE LocksHeld'
  BY <1>6 DEF Return
<1>7. ASSUME NEW c \in CPU, NEW p \in Proc, Yield(c, p, "user") PROVE LocksHeld'
  BY <1>7 DEF Yield
<1>8. ASSUME NEW c \in CPU, NEW p \in Proc, Yield(c, p, "holds") PROVE LocksHeld'
  BY <1>8 DEF Yield
<1>9. ASSUME NEW c \in CPU, NEW p \in Proc, Sleep(c, p) PROVE LocksHeld'
  BY <1>9 DEF Sleep
<1>10. ASSUME NEW c \in CPU, NEW p \in Proc, SleepRelease(c, p) PROVE LocksHeld'
  BY <1>10 DEF SleepRelease
<1>11. ASSUME NEW c \in CPU, NEW p \in Proc, SleepState(c, p) PROVE LocksHeld'
  BY <1>11 DEF SleepState
<1>12. ASSUME NEW c \in CPU, NEW p \in Proc, Woken(c, p) PROVE LocksHeld'
  BY <1>12 DEF Woken
<1>13. ASSUME NEW c \in CPU, NEW p \in Proc, WakeupNext(c, p) PROVE LocksHeld'
  BY <1>13 DEF WakeupNext, IsNext
<1>14. ASSUME NEW c \in CPU, NEW p \in Proc, LkLock(c, p) PROVE LocksHeld'
  BY <1>14 DEF LkLock
<1>15. ASSUME NEW c \in CPU, NEW p \in Proc, LkTest(c, p) PROVE LocksHeld'
  BY <1>15 DEF LkTest, CallSleep, Proc, SleepLock
<1>16. ASSUME NEW c \in CPU, NEW p \in Proc, Unlock(c, p) PROVE LocksHeld'
  BY <1>16 DEF Unlock, CallWakeup
<1>17. ASSUME NEW c \in CPU, NEW p \in Proc, Unlocked(c, p) PROVE LocksHeld'
  BY <1>17 DEF Unlocked
<1>18. ASSUME NEW c \in CPU, NEW p \in Proc, ForkParent(c, p) PROVE LocksHeld'
  BY <1>18 DEF ForkParent
<1>19. ASSUME NEW c \in CPU, NEW p \in Proc, ForkRun(c, p) PROVE LocksHeld'
  BY <1>19 DEF ForkRun
<1>20. ASSUME NEW c \in CPU, NEW p \in Proc, ExitLock(c, p) PROVE LocksHeld'
  BY <1>20 DEF ExitLock
<1>21. ASSUME NEW c \in CPU, NEW p \in Proc, Reparent(c, p) PROVE LocksHeld'
  BY <1>21 DEF Reparent, CallWakeup
<1>22. ASSUME NEW c \in CPU, NEW p \in Proc, WakeParent(c, p) PROVE LocksHeld'
  BY <1>22 DEF WakeParent, CallWakeup
<1>23. ASSUME NEW c \in CPU, NEW p \in Proc, Zombie(c, p) PROVE LocksHeld'
  BY <1>23 DEF Zombie
<1>24. ASSUME NEW c \in CPU, NEW p \in Proc, WaitLock(c, p) PROVE LocksHeld'
  BY <1>24 DEF WaitLock
<1>25. ASSUME NEW c \in CPU, NEW p \in Proc, WaitNext(c, p) PROVE LocksHeld'
  BY <1>25 DEF WaitNext, IsNext
<1>26. ASSUME NEW c \in CPU, NEW p \in Proc, Reap(c, p) PROVE LocksHeld'
  BY <1>26 DEF Reap, WaitReturn
<1>27. ASSUME NEW c \in CPU, NEW p \in Proc, WaitCheck(c, p) PROVE LocksHeld'
  BY <1>27 DEF WaitCheck, WaitReturn, CallSleep, Proc, SleepLock
<1>28. ASSUME NEW c \in CPU, NEW p \in Proc, NEW q \in Proc, Fork(c, p, q) PROVE LocksHeld'
  BY <1>28 DEF Fork
<1>29. ASSUME NEW c \in CPU, NEW p \in Proc, NEW q \in Proc, Kill(c, p, q) PROVE LocksHeld'
  BY <1>29 DEF Kill
<1> HIDE DEF Inv, TypeOK, LocksHeld, HoldsWaitLock, HoldsLk, HeldFor
<1> QED
  BY <1>1, <1>2, <1>3, <1>4, <1>5, <1>6, <1>7, <1>8, <1>9, <1>10, <1>11, <1>12, <1>13,
      <1>14, <1>15, <1>16, <1>17, <1>18, <1>19, <1>20, <1>21, <1>22, <1>23, <1>24,
      <1>25, <1>26, <1>27, <1>28, <1>29 DEF Next

\* The sleeplock is given up before it is taken.
LEMMA NextExclusive == Inv /\ [Next]_vars => SleepLockExclusive'
<1> SUFFICES ASSUME Inv, [Next]_vars PROVE SleepLockExclusive'
  OBVIOUS
<1> USE ProcTableAssumption
<1>1. ASSUME NEW c \in CPU, NEW p \in Proc, SwtchBack(c, p) PROVE SleepLockExclusive'
  <2>1. PICK l \in {"user", "holds"} : BackTo(c, p, l)
    BY <1>1, BackStep
  <2> USE DEF BackTo, Inv, TypeOK, SleepLockExclusive
  <2> QED
    BY <2>1
<1>2. ASSUME NEW c \in CPU, NEW p \in Proc, WakeupEnd(c, p) PROVE SleepLockExclusive'
  <2>1. PICK l \in {"reparent", "zombie", "unlocked"} : WakeupReturns(c, p, l)
    BY <1>2, WakeupEndStep
  <2> USE DEF WakeupReturns, Inv, TypeOK, SleepLockExclusive
  <2> QED
    BY <2>1
<1> USE DEF Inv, TypeOK, SleepLockExclusive
<1>3. CASE UNCHANGED vars
  BY <1>3 DEF vars
<1>4. ASSUME NEW c \in CPU, NEW p \in Proc, Scheduler(c, p) PROVE SleepLockExclusive'
  BY <1>4 DEF Scheduler
<1>5. ASSUME NEW c \in CPU, NEW p \in Proc, Sched(c, p) PROVE SleepLockExclusive'
  BY <1>5 DEF Sched
<1>6. ASSUME NEW c \in CPU, NEW p \in Proc, Return(c, p) PROVE SleepLockExclusive'
  BY <1>6 DEF Return
<1>7. ASSUME NEW c \in CPU, NEW p \in Proc, Yield(c, p, "user") PROVE SleepLockExclusive'
  BY <1>7 DEF Yield
<1>8. ASSUME NEW c \in CPU, NEW p \in Proc, Yield(c, p, "holds") PROVE SleepLockExclusive'
  BY <1>8 DEF Yield
<1>9. ASSUME NEW c \in CPU, NEW p \in Proc, Sleep(c, p) PROVE SleepLockExclusive'
  BY <1>9 DEF Sleep
<1>10. ASSUME NEW c \in CPU, NEW p \in Proc, SleepRelease(c, p) PROVE SleepLockExclusive'
  BY <1>10 DEF SleepRelease
<1>11. ASSUME NEW c \in CPU, NEW p \in Proc, SleepState(c, p) PROVE SleepLockExclusive'
  BY <1>11 DEF SleepState
<1>12. ASSUME NEW c \in CPU, NEW p \in Proc, Woken(c, p) PROVE SleepLockExclusive'
  BY <1>12 DEF Woken
<1>13. ASSUME NEW c \in CPU, NEW p \in Proc, WakeupNext(c, p) PROVE SleepLockExclusive'
  BY <1>13 DEF WakeupNext, IsNext
<1>14. ASSUME NEW c \in CPU, NEW p \in Proc, LkLock(c, p) PROVE SleepLockExclusive'
  BY <1>14 DEF LkLock
<1>15. ASSUME NEW c \in CPU, NEW p \in Proc, LkTest(c, p) PROVE SleepLockExclusive'
  BY <1>15 DEF LkTest, CallSleep, Proc, Nobody
<1>16. ASSUME NEW c \in CPU, NEW p \in Proc, Unlock(c, p) PROVE SleepLockExclusive'
  BY <1>16 DEF Unlock, CallWakeup
<1>17. ASSUME NEW c \in CPU, NEW p \in Proc, Unlocked(c, p) PROVE SleepLockExclusive'
  BY <1>17 DEF Unlocked
<1>18. ASSUME NEW c \in CPU, NEW p \in Proc, ForkParent(c, p) PROVE SleepLockExclusive'
  BY <1>18 DEF ForkParent
<1>19. ASSUME NEW c \in CPU, NEW p \in Proc, ForkRun(c, p) PROVE SleepLockExclusive'
  BY <1>19 DEF ForkRun
<1>20. ASSUME NEW c \in CPU, NEW p \in Proc, ExitLock(c, p) PROVE SleepLockExclusive'
  BY <1>20 DEF ExitLock
<1>21. ASSUME NEW c \in CPU, NEW p \in Proc, Reparent(c, p) PROVE SleepLockExclusive'
  BY <1>21 DEF Reparent, CallWakeup
<1>22. ASSUME NEW c \in CPU, NEW p \in Proc, WakeParent(c, p) PROVE SleepLockExclusive'
  BY <1>22 DEF WakeParent, CallWakeup
<1>23. ASSUME NEW c \in CPU, NEW p \in Proc, Zombie(c, p) PROVE SleepLockExclusive'
  BY <1>23 DEF Zombie
<1>24. ASSUME NEW c \in CPU, NEW p \in Proc, WaitLock(c, p) PROVE SleepLockExclusive'
  BY <1>24 DEF WaitLock
<1>25. ASSUME NEW c \in CPU, NEW p \in Proc, WaitNext(c, p) PROVE SleepLockExclusive'
  BY <1>25 DEF WaitNext, IsNext
<1>26. ASSUME NEW c \in CPU, NEW p \in Proc, Reap(c, p) PROVE SleepLockExclusive'
  BY <1>26 DEF Reap, WaitReturn
<1>27. ASSUME NEW c \in CPU, NEW p \in Proc, WaitCheck(c, p) PROVE SleepLockExclusive'
  BY <1>27 DEF WaitCheck, WaitReturn, CallSleep
<1>28. ASSUME NEW c \in CPU, NEW p \in Proc, NEW q \in Proc, Fork(c, p, q) PROVE SleepLockExclusive'
  BY <1>28 DEF Fork
<1>29. ASSUME NEW c \in CPU, NEW p \in Proc, NEW q \in Proc, Kill(c, p, q) PROVE SleepLockExclusive'
  BY <1>29 DEF Kill
<1> HIDE DEF Inv, TypeOK, SleepLockExclusive
<1> QED
  BY <1>1, <1>2, <1>3, <1>4, <1>5, <1>6, <1>7, <1>8, <1>9, <1>10, <1>11, <1>12, <1>13,
      <1>14, <1>15, <1>16, <1>17, <1>18, <1>19, <1>20, <1>21, <1>22, <1>23, <1>24,
      <1>25, <1>26, <1>27, <1>28, <1>29 DEF Next

\* Slots keep what fork, exit and wait rely on.
LEMMA NextSlot == Inv /\ [Next]_vars => SlotInv'
<1> SUFFICES ASSUME Inv, [Next]_vars PROVE SlotInv'
  OBVIOUS
<1> USE ProcTableAssumption
<1>1. ASSUME NEW c \in CPU, NEW p \in Proc, SwtchBack(c, p) PROVE SlotInv'
  <2>1. PICK l \in {"user", "holds"} : BackTo(c, p, l)
    BY <1>1, BackStep
  <2> USE DEF BackTo, Inv, TypeOK, SlotInv, LocksHeld, HoldsWaitLock, HoldsLk, HeldFor,
       SwtchInv, Children, Exiting, Proc, Nobody, initproc
  <2> QED
    BY <2>1
<1>2. ASSUME NEW c \in CPU, NEW p \in Proc, WakeupEnd(c, p) PROVE SlotInv'
  <2>1. PICK l \in {"reparent", "zombie", "unlocked"} : WakeupReturns(c, p, l)
    BY <1>2, WakeupEndStep
  <2> USE DEF WakeupReturns, Inv, TypeOK, SlotInv, LocksHeld, HoldsWaitLock, HoldsLk,
       HeldFor, SwtchInv, Children, Exiting, Proc, Nobody, initproc
  <2> QED
    BY <2>1
<1>3. ASSUME NEW c \in CPU, NEW p \in Proc, ForkRun(c, p) PROVE SlotInv'
  <2>1. /\ running[c] = p /\ state[p] = "RUNNING" /\ pc[p] = "fork_run"
        /\ state' = [state EXCEPT ![np[p]] = "RUNNABLE"]
        /\ pc' = [pc EXCEPT ![p] = "return", ![np[p]] = "forkret"]
        /\ np' = [np EXCEPT ![p] = Nobody]
        /\ UNCHANGED <<parent, chan, locked, i, kids, arg, ret>>
    BY <1>3 DEF ForkRun
  <2>2. np[p] \in Proc /\ state[np[p]] = "USED" /\ np[p] # p
    BY <2>1 DEF Inv, SwtchInv
  <2> QED
    BY <2>1, <2>2, SMTT(30) DEF Inv, TypeOK, SlotInv, LocksHeld, HoldsWaitLock, HoldsLk, HeldFor,
         SwtchInv, Children, Exiting, Proc, Nobody, initproc
<1>4. ASSUME NEW c \in CPU, NEW p \in Proc, Reap(c, p) PROVE SlotInv'
  <2>1. /\ running[c] = p /\ state[p] = "RUNNING" /\ pc[p] = "wait_scan"
        /\ i' = [i EXCEPT ![p] = 0]
        /\ kids' = [kids EXCEPT ![p] = FALSE]
        /\ pc' = [pc EXCEPT ![p] = "return"]
        /\ UNCHANGED <<arg, ret, running, np>>
    BY <1>4 DEF Reap, WaitReturn
  <2>2. PICK q \in Proc :
          /\ q \in Children(p) /\ state[q] = "ZOMBIE"
          /\ \/ /\ state' = [state EXCEPT ![q] = "UNUSED"]
                /\ parent' = [parent EXCEPT ![q] = Nobody]
                /\ chan' = [chan EXCEPT ![q] = Nobody]
             \/ UNCHANGED <<state, parent, chan>>
    BY <1>4 DEF Reap, IsNext
  <2> QED
    BY <2>1, <2>2, SMTT(30) DEF Inv, TypeOK, SlotInv, LocksHeld, HoldsWaitLock, HoldsLk, HeldFor,
         SwtchInv, Children, Exiting, Proc, Nobody, initproc
<1>5. ASSUME NEW c \in CPU, NEW p \in Proc, WaitCheck(c, p) PROVE SlotInv'
  <2>1. /\ running[c] = p /\ state[p] = "RUNNING" /\ pc[p] = "wait_scan"
        /\ IsPast(p, Children(p))
        /\ UNCHANGED <<state, parent, chan, locked, running, np, ret>>
    BY <1>5 DEF WaitCheck
  <2>2. CASE kids[p] /\ CallSleep(p, p) /\ UNCHANGED <<i, kids>>
    BY <2>1, <2>2 DEF CallSleep, IsPast, Inv, TypeOK, SlotInv, LocksHeld, HoldsWaitLock,
         HoldsLk, HeldFor, SwtchInv, Children, Exiting, Proc, Nobody, initproc
  <2>3. CASE WaitReturn(p) /\ UNCHANGED arg
    BY <2>1, <2>3 DEF WaitReturn, Inv, TypeOK, SlotInv, LocksHeld, HoldsWaitLock,
         HoldsLk, HeldFor, SwtchInv, Children, Exiting, Proc, Nobody, initproc
  <2> QED
    BY <1>5, <2>2, <2>3 DEF WaitCheck
<1>6. ASSUME NEW c \in CPU, NEW p \in Proc, NEW q \in Proc, Fork(c, p, q) PROVE SlotInv'
  <2>1. /\ state[p] = "RUNNING" /\ pc[p] = "user" /\ state[q] = "UNUSED"
        /\ UNCHANGED <<parent, arg, ret>>
        /\ \/ /\ state' = [state EXCEPT ![q] = "USED"]
              /\ np' = [np EXCEPT ![p] = q]
              /\ pc' = [pc EXCEPT ![p] = "fork_parent"]
           \/ pc' = [pc EXCEPT ![p] = "return"] /\ UNCHANGED <<state, np>>
    BY <1>6 DEF Fork
  <2> QED
    BY <2>1 DEF Inv, TypeOK, SlotInv, Children, Exiting
<1> USE DEF Inv, TypeOK, SlotInv, LocksHeld, HoldsWaitLock, HoldsLk, HeldFor, SwtchInv,
    Children, Exiting, Proc, Nobody, initproc
<1>7. CASE UNCHANGED vars
  BY <1>7 DEF vars
<1>8. ASSUME NEW c \in CPU, NEW p \in Proc, Scheduler(c, p) PROVE SlotInv'
  BY <1>8 DEF Scheduler
<1>9. ASSUME NEW c \in CPU, NEW p \in Proc, Sched(c, p) PROVE SlotInv'
  BY <1>9 DEF Sched
<1>10. ASSUME NEW c \in CPU, NEW p \in Proc, Return(c, p) PROVE SlotInv'
  BY <1>10 DEF Return
<1>11. ASSUME NEW c \in CPU, NEW p \in Proc, Yield(c, p, "user") PROVE SlotInv'
  BY <1>11 DEF Yield
<1>12. ASSUME NEW c \in CPU, NEW p \in Proc, Yield(c, p, "holds") PROVE SlotInv'
  BY <1>12 DEF Yield
<1>13. ASSUME NEW c \in CPU, NEW p \in Proc, Sleep(c, p) PROVE SlotInv'
  BY <1>13 DEF Sleep
<1>14. ASSUME NEW c \in CPU, NEW p \in Proc, SleepRelease(c, p) PROVE SlotInv'
  BY <1>14 DEF SleepRelease
<1>15. ASSUME NEW c \in CPU, NEW p \in Proc, SleepState(c, p) PROVE SlotInv'
  BY <1>15 DEF SleepState
<1>16. ASSUME NEW c \in CPU, NEW p \in Proc, Woken(c, p) PROVE SlotInv'
  BY <1>16 DEF Woken
<1>17. ASSUME NEW c \in CPU, NEW p \in Proc, WakeupNext(c, p) PROVE SlotInv'
  BY <1>17 DEF WakeupNext, IsNext
<1>18. ASSUME NEW c \in CPU, NEW p \in Proc, LkLock(c, p) PROVE SlotInv'
  BY <1>18 DEF LkLock
<1>19. ASSUME NEW c \in CPU, NEW p \in Proc, LkTest(c, p) PROVE SlotInv'
  BY <1>19, SMTT(30) DEF LkTest, CallSleep
<1>20. ASSUME NEW c \in CPU, NEW p \in Proc, Unlock(c, p) PROVE SlotInv'
  BY <1>20 DEF Unlock, CallWakeup
<1>21. ASSUME NEW c \in CPU, NEW p \in Proc, Unlocked(c, p) PROVE SlotInv'
  BY <1>21 DEF Unlocked
<1>22. ASSUME NEW c \in CPU, NEW p \in Proc, ForkParent(c, p) PROVE SlotInv'
  BY <1>22 DEF ForkParent
<1>23. ASSUME NEW c \in CPU, NEW p \in Proc, ExitLock(c, p) PROVE SlotInv'
  BY <1>23 DEF ExitLock
<1>24. ASSUME NEW c \in CPU, NEW p \in Proc, Reparent(c, p) PROVE SlotInv'
  BY <1>24 DEF Reparent, CallWakeup
<1>25. ASSUME NEW c \in CPU, NEW p \in Proc, WakeParent(c, p) PROVE SlotInv'
  BY <1>25 DEF WakeParent, CallWakeup
<1>26. ASSUME NEW c \in CPU, NEW p \in Proc, Zombie(c, p) PROVE SlotInv'
  BY <1>26 DEF Zombie
<1>27. ASSUME NEW c \in CPU, NEW p \in Proc, WaitLock(c, p) PROVE SlotInv'
  BY <1>27 DEF WaitLock
<1>28. ASSUME NEW c \in CPU, NEW p \in Proc, WaitNext(c, p) PROVE SlotInv'
  BY <1>28 DEF WaitNext, IsNext
<1>29. ASSUME NEW c \in CPU, NEW p \in Proc, NEW q \in Proc, Kill(c, p, q) PROVE SlotInv'
  BY <1>29 DEF Kill
<1> HIDE DEF Inv, TypeOK, SlotInv, LocksHeld, HoldsWaitLock, HoldsLk, HeldFor, SwtchInv,
    Children, Exiting, Proc, Nobody, initproc
<1> QED
  BY <1>1, <1>2, <1>3, <1>4, <1>5, <1>6, <1>7, <1>8, <1>9, <1>10, <1>11, <1>12, <1>13,
      <1>14, <1>15, <1>16, <1>17, <1>18, <1>19, <1>20, <1>21, <1>22, <1>23, <1>24,
      <1>25, <1>26, <1>27, <1>28, <1>29 DEF Next

\* A sleeper on the sleeplock has a holder, or a waker before it.
LEMMA NextLk == Inv /\ [Next]_vars => LkInv'
<1> SUFFICES ASSUME Inv, [Next]_vars PROVE LkInv'
  OBVIOUS
<1> USE ProcTableAssumption
<1>1. ASSUME NEW c \in CPU, NEW p \in Proc, SwtchBack(c, p) PROVE LkInv'
  <2>1. PICK l \in {"user", "holds"} : BackTo(c, p, l)
    BY <1>1, BackStep
  <2> USE DEF BackTo, Inv, TypeOK, LkInv, LocksHeld, HoldsWaitLock, HoldsLk, HeldFor,
       Sleeps, WillWake, Proc, Nobody, SleepLock
  <2> QED
    BY <2>1
<1>2. ASSUME NEW c \in CPU, NEW p \in Proc, WakeupEnd(c, p) PROVE LkInv'
  <2>1. PICK l \in {"reparent", "zombie", "unlocked"} : WakeupReturns(c, p, l)
    BY <1>2, WakeupEndStep
  <2> USE DEF WakeupReturns, Inv, TypeOK, LkInv, LocksHeld, HoldsWaitLock, HoldsLk,
       HeldFor, Sleeps, WillWake, Proc, Nobody, SleepLock
  <2> QED
    BY <2>1 DEF IsPast
<1>3. ASSUME NEW c \in CPU, NEW p \in Proc, ForkRun(c, p) PROVE LkInv'
  <2>1. /\ running[c] = p /\ state[p] = "RUNNING" /\ pc[p] = "fork_run"
        /\ state' = [state EXCEPT ![np[p]] = "RUNNABLE"]
        /\ pc' = [pc EXCEPT ![p] = "return", ![np[p]] = "forkret"]
        /\ np' = [np EXCEPT ![p] = Nobody]
        /\ UNCHANGED <<parent, chan, locked, i, kids, arg, ret>>
    BY <1>3 DEF ForkRun
  <2>2. np[p] \in Proc /\ state[np[p]] = "USED" /\ np[p] # p /\ pc[np[p]] = "none"
    BY <2>1 DEF Inv, SwtchInv, SlotInv
  <2> QED
    BY <2>1, <2>2 DEF Inv, TypeOK, LkInv, Sleeps, WillWake, Proc, Nobody, SleepLock
<1>4. ASSUME NEW c \in CPU, NEW p \in Proc, WaitCheck(c, p) PROVE LkInv'
  <2>1. /\ running[c] = p /\ state[p] = "RUNNING" /\ pc[p] = "wait_scan"
        /\ IsPast(p, Children(p))
        /\ UNCHANGED <<state, parent, chan, locked, running, np, ret>>
    BY <1>4 DEF WaitCheck
  <2>2. CASE kids[p] /\ CallSleep(p, p) /\ UNCHANGED <<i, kids>>
    BY <2>1, <2>2 DEF CallSleep, IsPast, Inv, TypeOK, LkInv, LocksHeld, HoldsWaitLock,
         HoldsLk, HeldFor, Sleeps, WillWake, Proc, Nobody, SleepLock
  <2>3. CASE WaitReturn(p) /\ UNCHANGED arg
    BY <2>1, <2>3 DEF WaitReturn, Inv, TypeOK, LkInv, LocksHeld, HoldsWaitLock, HoldsLk,
         HeldFor, Sleeps, WillWake, Proc, Nobody, SleepLock
  <2> QED
    BY <1>4, <2>2, <2>3 DEF WaitCheck
<1> USE DEF Inv, TypeOK, LkInv, LocksHeld, HoldsWaitLock, HoldsLk, HeldFor, Sleeps,
    WillWake, Proc, Nobody, SleepLock
<1>5. CASE UNCHANGED vars
  BY <1>5 DEF vars
<1>6. ASSUME NEW c \in CPU, NEW p \in Proc, Scheduler(c, p) PROVE LkInv'
  BY <1>6 DEF Scheduler
<1>7. ASSUME NEW c \in CPU, NEW p \in Proc, Sched(c, p) PROVE LkInv'
  BY <1>7 DEF Sched
<1>8. ASSUME NEW c \in CPU, NEW p \in Proc, Return(c, p) PROVE LkInv'
  BY <1>8 DEF Return
<1>9. ASSUME NEW c \in CPU, NEW p \in Proc, Yield(c, p, "user") PROVE LkInv'
  BY <1>9 DEF Yield
<1>10. ASSUME NEW c \in CPU, NEW p \in Proc, Yield(c, p, "holds") PROVE LkInv'
  BY <1>10 DEF Yield
<1>11. ASSUME NEW c \in CPU, NEW p \in Proc, Sleep(c, p) PROVE LkInv'
  BY <1>11 DEF Sleep
<1>12. ASSUME NEW c \in CPU, NEW p \in Proc, SleepRelease(c, p) PROVE LkInv'
  BY <1>12 DEF SleepRelease
<1>13. ASSUME NEW c \in CPU, NEW p \in Proc, SleepState(c, p) PROVE LkInv'
  BY <1>13 DEF SleepState
<1>14. ASSUME NEW c \in CPU, NEW p \in Proc, Woken(c, p) PROVE LkInv'
  BY <1>14 DEF Woken
<1>15. ASSUME NEW c \in CPU, NEW p \in Proc, WakeupNext(c, p) PROVE LkInv'
  BY <1>15 DEF WakeupNext, IsNext
<1>16. ASSUME NEW c \in CPU, NEW p \in Proc, LkLock(c, p) PROVE LkInv'
  BY <1>16 DEF LkLock
<1>17. ASSUME NEW c \in CPU, NEW p \in Proc, LkTest(c, p) PROVE LkInv'
  BY <1>17 DEF LkTest, CallSleep
<1>18. ASSUME NEW c \in CPU, NEW p \in Proc, Unlock(c, p) PROVE LkInv'
  BY <1>18 DEF Unlock, CallWakeup
<1>19. ASSUME NEW c \in CPU, NEW p \in Proc, Unlocked(c, p) PROVE LkInv'
  BY <1>19 DEF Unlocked
<1>20. ASSUME NEW c \in CPU, NEW p \in Proc, ForkParent(c, p) PROVE LkInv'
  BY <1>20 DEF ForkParent
<1>21. ASSUME NEW c \in CPU, NEW p \in Proc, ExitLock(c, p) PROVE LkInv'
  BY <1>21 DEF ExitLock
<1>22. ASSUME NEW c \in CPU, NEW p \in Proc, Reparent(c, p) PROVE LkInv'
  BY <1>22 DEF Reparent, CallWakeup
<1>23. ASSUME NEW c \in CPU, NEW p \in Proc, WakeParent(c, p) PROVE LkInv'
  BY <1>23 DEF WakeParent, CallWakeup
<1>24. ASSUME NEW c \in CPU, NEW p \in Proc, Zombie(c, p) PROVE LkInv'
  BY <1>24 DEF Zombie
<1>25. ASSUME NEW c \in CPU, NEW p \in Proc, WaitLock(c, p) PROVE LkInv'
  BY <1>25 DEF WaitLock
<1>26. ASSUME NEW c \in CPU, NEW p \in Proc, WaitNext(c, p) PROVE LkInv'
  BY <1>26 DEF WaitNext, IsNext
<1>27. ASSUME NEW c \in CPU, NEW p \in Proc, Reap(c, p) PROVE LkInv'
  BY <1>27, SMTT(30) DEF Reap, WaitReturn
<1>28. ASSUME NEW c \in CPU, NEW p \in Proc, NEW q \in Proc, Fork(c, p, q) PROVE LkInv'
  BY <1>28, SMTT(30) DEF Fork
<1>29. ASSUME NEW c \in CPU, NEW p \in Proc, NEW q \in Proc, Kill(c, p, q) PROVE LkInv'
  BY <1>29 DEF Kill
<1> HIDE DEF Inv, TypeOK, LkInv, LocksHeld, HoldsWaitLock, HoldsLk, HeldFor, Sleeps,
    WillWake, Proc, Nobody, SleepLock
<1> QED
  BY <1>1, <1>2, <1>3, <1>4, <1>5, <1>6, <1>7, <1>8, <1>9, <1>10, <1>11, <1>12, <1>13,
      <1>14, <1>15, <1>16, <1>17, <1>18, <1>19, <1>20, <1>21, <1>22, <1>23, <1>24,
      <1>25, <1>26, <1>27, <1>28, <1>29 DEF Next

\* A sleeper in wait has children, and a waker before it if one is a zombie.
LEMMA NextWait == Inv /\ [Next]_vars => WaitInv'
<1> SUFFICES ASSUME Inv, [Next]_vars PROVE WaitInv'
  OBVIOUS
<1> USE ProcTableAssumption
<1>1. ASSUME NEW c \in CPU, NEW p \in Proc, SwtchBack(c, p) PROVE WaitInv'
  <2>1. PICK l \in {"user", "holds"} : BackTo(c, p, l)
    BY <1>1, BackStep
  <2> USE DEF BackTo, Inv, TypeOK, WaitInv, ScanInv, NoZombieInv, SleeperInv, LocksHeld,
       HoldsWaitLock, HeldFor, SlotInv, SwtchInv, Exiting, Sleeps, WillWake, Children,
       Proc, Nobody, SleepLock, initproc
  <2> QED
    BY <2>1
<1>2. ASSUME NEW c \in CPU, NEW p \in Proc, WakeupEnd(c, p) PROVE WaitInv'
  <2>1. PICK l \in {"reparent", "zombie", "unlocked"} : WakeupReturns(c, p, l)
    BY <1>2, WakeupEndStep
  <2> USE DEF WakeupReturns, Inv, TypeOK, WaitInv, ScanInv, NoZombieInv, SleeperInv,
       LocksHeld, HoldsWaitLock, HeldFor, SlotInv, SwtchInv, Exiting, Sleeps, WillWake,
       Children, Proc, Nobody, SleepLock, initproc
  <2> QED
    BY <2>1 DEF IsPast
<1>3. ASSUME NEW c \in CPU, NEW p \in Proc, LkTest(c, p) PROVE WaitInv'
  <2>1. /\ state[p] = "RUNNING" /\ pc[p] = "lk_test"
        /\ UNCHANGED <<state, parent, chan, i, kids, ret, wait_lock, running>>
    BY <1>3 DEF LkTest
  <2>2. CASE CallSleep(p, SleepLock)
    BY <2>1, <2>2 DEF CallSleep, Inv, TypeOK, WaitInv, ScanInv, NoZombieInv, SleeperInv,
         LocksHeld, HoldsWaitLock, HeldFor, SlotInv, SwtchInv, Exiting, Sleeps,
         WillWake, Children, Proc, Nobody, SleepLock, initproc
  <2>3. CASE arg' = [arg EXCEPT ![p] = Nobody] /\ Goto(p, "holds")
    BY <2>1, <2>3 DEF Inv, TypeOK, WaitInv, ScanInv, NoZombieInv, SleeperInv, LocksHeld,
         HoldsWaitLock, HeldFor, SlotInv, SwtchInv, Exiting, Sleeps, WillWake, Children,
         Proc, Nobody, SleepLock, initproc
  <2> QED
    BY <1>3, <2>2, <2>3 DEF LkTest
<1>4. ASSUME NEW c \in CPU, NEW p \in Proc, ForkRun(c, p) PROVE WaitInv'
  <2>1. /\ running[c] = p /\ state[p] = "RUNNING" /\ pc[p] = "fork_run"
        /\ state' = [state EXCEPT ![np[p]] = "RUNNABLE"]
        /\ pc' = [pc EXCEPT ![p] = "return", ![np[p]] = "forkret"]
        /\ np' = [np EXCEPT ![p] = Nobody]
        /\ UNCHANGED <<parent, chan, locked, i, kids, arg, ret>>
    BY <1>4 DEF ForkRun
  <2>2. np[p] \in Proc /\ state[np[p]] = "USED" /\ np[p] # p /\ pc[np[p]] = "none"
    BY <2>1 DEF Inv, SwtchInv, SlotInv
  <2> SUFFICES ASSUME NEW x \in Proc
               PROVE  ScanInv(x)' /\ NoZombieInv(x)' /\ SleeperInv(x)'
    BY DEF WaitInv
  <2> USE DEF Inv, TypeOK, Proc, Nobody
  <2>3. CASE x = p
    <3>1. ScanInv(x)' /\ NoZombieInv(x)'
      BY <2>1, <2>2, <2>3 DEF ScanInv, NoZombieInv, WaitInv
    <3>2. SleeperInv(x)'
      BY <2>1, <2>2, <2>3 DEF SleeperInv, Sleeps
    <3> QED
      BY <3>1, <3>2
  <2>4. CASE x # p
    <3>1. Children(x)' = Children(x) /\ Children(x) \subseteq Proc
      BY <2>1, <2>2, <2>4 DEF Children
    <3>5. \A y \in Children(x) : state'[y] = "ZOMBIE" => state[y] = "ZOMBIE"
      BY <2>1, <2>2, <2>4 DEF Children
    <3>2. ScanInv(x)' /\ NoZombieInv(x)'
      BY <2>1, <2>2, <2>4, <3>1, <3>5 DEF ScanInv, NoZombieInv, WaitInv
    <3>3. Sleeps(x, x)' => Sleeps(x, x)
      BY <2>1, <2>2, <2>4 DEF Sleeps
    <3>4. WakersStay(x)
      BY <2>1, <2>2, <2>4 DEF WakersStay, Children
    <3> QED
      BY <3>1, <3>2, <3>3, <3>4, <3>5, SleeperStays DEF WaitInv
  <2> QED
    BY <2>3, <2>4
<1>5. ASSUME NEW c \in CPU, NEW p \in Proc, WaitNext(c, p) PROVE WaitInv'
  <2>1. PICK q \in Proc :
          /\ IsNext(p, q, Children(p))
          /\ state[q] # "ZOMBIE"
          /\ i' = [i EXCEPT ![p] = q + 1]
    BY <1>5 DEF WaitNext
  <2>2. /\ state[p] = "RUNNING" /\ pc[p] = "wait_scan"
        /\ kids' = [kids EXCEPT ![p] = TRUE]
        /\ UNCHANGED <<state, parent, chan, arg, ret, pc, running, wait_lock>>
    BY <1>5 DEF WaitNext
  <2> SUFFICES ASSUME NEW x \in Proc
               PROVE  ScanInv(x)' /\ NoZombieInv(x)' /\ SleeperInv(x)'
    BY DEF WaitInv
  <2> USE DEF Inv, TypeOK, Proc, Nobody
  <2>3. CASE x = p
    <3>1. ScanInv(x)' /\ NoZombieInv(x)'
      <4>1. Children(p)' = Children(p)
        BY <2>2 DEF Children
      <4>2. \A y \in Children(p) : y < q + 1 => y < i[p] \/ y = q
        BY <2>1 DEF IsNext, Children
      <4> QED
        BY <2>1, <2>2, <2>3, <4>1, <4>2, ZenonT(40) DEF ScanInv, NoZombieInv, WaitInv, IsNext
    <3>2. SleeperInv(x)'
      BY <2>1, <2>2, <2>3 DEF SleeperInv, Sleeps
    <3> QED
      BY <3>1, <3>2
  <2>4. CASE x # p
    <3>1. Children(x)' = Children(x) /\ Children(x) \subseteq Proc
      BY <2>1, <2>2, <2>4 DEF Children
    <3>5. \A y \in Children(x) : state'[y] = "ZOMBIE" => state[y] = "ZOMBIE"
      BY <2>1, <2>2, <2>4 DEF Children
    <3>2. ScanInv(x)' /\ NoZombieInv(x)'
      BY <2>1, <2>2, <2>4, <3>1, <3>5 DEF ScanInv, NoZombieInv, WaitInv
    <3>3. Sleeps(x, x)' => Sleeps(x, x)
      BY <2>1, <2>2, <2>4 DEF Sleeps
    <3>4. WakersStay(x)
      BY <2>1, <2>2, <2>4 DEF WakersStay, Children
    <3> QED
      BY <3>1, <3>2, <3>3, <3>4, <3>5, SleeperStays DEF WaitInv
  <2> QED
    BY <2>3, <2>4
<1>6. ASSUME NEW c \in CPU, NEW p \in Proc, Reap(c, p) PROVE WaitInv'
  <2>1. /\ running[c] = p /\ state[p] = "RUNNING" /\ pc[p] = "wait_scan"
        /\ i' = [i EXCEPT ![p] = 0]
        /\ kids' = [kids EXCEPT ![p] = FALSE]
        /\ pc' = [pc EXCEPT ![p] = "return"]
        /\ UNCHANGED <<arg, ret, running, np>>
    BY <1>6 DEF Reap, WaitReturn
  <2>2. PICK q \in Proc :
          /\ q \in Children(p) /\ state[q] = "ZOMBIE"
          /\ \/ /\ state' = [state EXCEPT ![q] = "UNUSED"]
                /\ parent' = [parent EXCEPT ![q] = Nobody]
                /\ chan' = [chan EXCEPT ![q] = Nobody]
             \/ UNCHANGED <<state, parent, chan>>
    BY <1>6 DEF Reap, IsNext
  <2> SUFFICES ASSUME NEW x \in Proc
               PROVE  ScanInv(x)' /\ NoZombieInv(x)' /\ SleeperInv(x)'
    BY DEF WaitInv
  <2> USE DEF Inv, TypeOK, Proc, Nobody
  <2>3. CASE x = p
    <3>1. ScanInv(x)' /\ NoZombieInv(x)'
      BY <2>1, <2>2, <2>3 DEF ScanInv, NoZombieInv, WaitInv
    <3>2. SleeperInv(x)'
      BY <2>1, <2>2, <2>3 DEF SleeperInv, Sleeps
    <3> QED
      BY <3>1, <3>2
  <2>4. CASE x # p
    <3>1. Children(x)' = Children(x) /\ Children(x) \subseteq Proc
      BY <2>1, <2>2, <2>4 DEF Children
    <3>5. \A y \in Children(x) : state'[y] = "ZOMBIE" => state[y] = "ZOMBIE"
      BY <2>1, <2>2, <2>4 DEF Children
    <3>2. ScanInv(x)' /\ NoZombieInv(x)'
      BY <2>1, <2>2, <2>4, <3>1, <3>5 DEF ScanInv, NoZombieInv, WaitInv
    <3>3. Sleeps(x, x)' => Sleeps(x, x)
      BY <2>1, <2>2, <2>4 DEF Sleeps
    <3>4. WakersStay(x)
      BY <2>1, <2>2, <2>4 DEF WakersStay, Children
    <3> QED
      BY <3>1, <3>2, <3>3, <3>4, <3>5, SleeperStays DEF WaitInv
  <2> QED
    BY <2>3, <2>4
<1>7. ASSUME NEW c \in CPU, NEW p \in Proc, WaitCheck(c, p) PROVE WaitInv'
  <2>1. /\ running[c] = p /\ state[p] = "RUNNING" /\ pc[p] = "wait_scan"
        /\ IsPast(p, Children(p))
        /\ UNCHANGED <<state, parent, chan, locked, running, np, ret>>
    BY <1>7 DEF WaitCheck
  <2>2. CASE kids[p] /\ CallSleep(p, p) /\ UNCHANGED <<i, kids>>
    BY <2>1, <2>2 DEF CallSleep, IsPast, Inv, TypeOK, WaitInv, ScanInv, NoZombieInv,
         SleeperInv, LocksHeld, HoldsWaitLock, HeldFor, SlotInv, SwtchInv, Exiting,
         Sleeps, WillWake, Children, Proc, Nobody, SleepLock, initproc
  <2>3. CASE WaitReturn(p) /\ UNCHANGED arg
    BY <2>1, <2>3 DEF WaitReturn, Inv, TypeOK, WaitInv, ScanInv, NoZombieInv,
         SleeperInv, LocksHeld, HoldsWaitLock, HeldFor, SlotInv, SwtchInv, Exiting,
         Sleeps, WillWake, Children, Proc, Nobody, SleepLock, initproc
  <2> QED
    BY <1>7, <2>2, <2>3 DEF WaitCheck
<1>8. ASSUME NEW c \in CPU, NEW p \in Proc, NEW q \in Proc, Fork(c, p, q) PROVE WaitInv'
  <2>1. /\ state[p] = "RUNNING" /\ pc[p] = "user" /\ state[q] = "UNUSED"
        /\ UNCHANGED <<parent, chan, i, kids, arg, ret, wait_lock>>
        /\ state' = state \/ state' = [state EXCEPT ![q] = "USED"]
    BY <1>8 DEF Fork
  <2>2. PICK l \in {"fork_parent", "return"} : pc' = [pc EXCEPT ![p] = l]
    BY <1>8 DEF Fork
  <2> SUFFICES ASSUME NEW x \in Proc
               PROVE  ScanInv(x)' /\ NoZombieInv(x)' /\ SleeperInv(x)'
    BY DEF WaitInv
  <2> USE DEF Inv, TypeOK, Proc, Nobody
  <2>3. CASE x = p
    <3>1. ScanInv(x)' /\ NoZombieInv(x)'
      BY <2>1, <2>2, <2>3 DEF ScanInv, NoZombieInv, WaitInv
    <3>2. SleeperInv(x)'
      BY <2>1, <2>2, <2>3 DEF SleeperInv, Sleeps
    <3> QED
      BY <3>1, <3>2
  <2>4. CASE x # p
    <3>1. Children(x)' = Children(x) /\ Children(x) \subseteq Proc
      BY <2>1, <2>2, <2>4 DEF Children
    <3>5. \A y \in Children(x) : state'[y] = "ZOMBIE" => state[y] = "ZOMBIE"
      BY <2>1, <2>2, <2>4 DEF Children
    <3>2. ScanInv(x)' /\ NoZombieInv(x)'
      BY <2>1, <2>2, <2>4, <3>1, <3>5 DEF ScanInv, NoZombieInv, WaitInv
    <3>3. Sleeps(x, x)' => Sleeps(x, x)
      BY <2>1, <2>2, <2>4 DEF Sleeps
    <3>4. WakersStay(x)
      BY <2>1, <2>2, <2>4 DEF WakersStay, Children
    <3> QED
      BY <3>1, <3>2, <3>3, <3>4, <3>5, SleeperStays DEF WaitInv
  <2> QED
    BY <2>3, <2>4
<1>19. ASSUME NEW c \in CPU, NEW p \in Proc, WakeupNext(c, p) PROVE WaitInv'
  <2>1. PICK q \in Proc :
          /\ IsNext(p, q, Proc \ {p})
          /\ state' = [state EXCEPT ![q] =
                IF @ = "SLEEPING" /\ chan[q] = arg[p] THEN "RUNNABLE" ELSE @]
          /\ i' = [i EXCEPT ![p] = q + 1]
          /\ lock[q] = NoCpu
    BY <1>19 DEF WakeupNext
  <2>2. /\ pc[p] = "wakeup" /\ state[p] = "RUNNING" /\ TypeOK /\ WaitInv
        /\ UNCHANGED <<parent, chan, pc, kids, arg, ret>>
    BY <1>19 DEF WakeupNext, Inv
  <2>3. /\ \A x \in Proc : x # q => state'[x] = state[x]
        /\ state'[q] = IF state[q] = "SLEEPING" /\ chan[q] = arg[p] THEN "RUNNABLE"
                       ELSE state[q]
        /\ i'[p] = q + 1 /\ \A r \in Proc : r # p => i'[r] = i[r]
        /\ q # p /\ q \in Int /\ \A x \in Proc : x \in Int /\ i[x] \in Int
    BY <2>1, <2>2 DEF TypeOK, IsNext, Proc
  <2>4. \A x \in Proc : state'[x] = "ZOMBIE" <=> state[x] = "ZOMBIE"
    BY <2>3
  <2>5. ASSUME NEW x \in Proc PROVE ScanInv(x)' /\ NoZombieInv(x)' /\ SleeperInv(x)'
    <3>1. Children(x)' = Children(x) /\ Children(x) \subseteq Proc
      BY <2>2 DEF Children
    <3>2. ScanInv(x)'
      <4>1. pc[x] = "wait_scan" => x # p /\ i'[x] = i[x]
        BY <2>2, <2>3
      <4>2. ScanInv(x)
        BY <2>2 DEF WaitInv
      <4> QED
        BY <2>2, <2>4, <3>1, <4>1, <4>2 DEF ScanInv
    <3>3. NoZombieInv(x)'
      BY <2>2, <2>4, <3>1 DEF NoZombieInv, WaitInv
    <3>4. SleeperInv(x)'
      <4>1. CASE ~Sleeps(x, x)'
        BY <4>1 DEF SleeperInv
      <4>2. CASE Sleeps(x, x)'
        <5>1. Sleeps(x, x) /\ x # p
          BY <2>2, <2>3, <4>2 DEF Sleeps
        <5>2. ASSUME arg[p] = x, i[p] <= x PROVE q + 1 <= x
          <6>1. q <= x
            BY <2>1, <2>3, <5>1, <5>2 DEF IsNext
          <6>2. CASE q = x
            <7>1. pc[x] = "sleep_state"
              BY <2>2, <2>3, <4>2, <5>2, <6>2 DEF Sleeps
            <7> QED
              BY <2>1, <6>2, <7>1 DEF Inv, LocksHeld, HeldFor
          <6> QED
            BY <2>3, <6>1, <6>2
        <5>3. ASSUME NEW r \in Proc, NEW b, WillWake(r, x, b, x)
              PROVE  WillWake(r, x, b, x)'
          BY <2>2, <2>3, <5>2, <5>3 DEF WillWake
        <5>4. SleeperInv(x)
          BY <2>2 DEF WaitInv
        <5> QED
          BY <2>2, <2>4, <3>1, <5>1, <5>3, <5>4 DEF SleeperInv
      <4> QED
        BY <4>1, <4>2
    <3> QED
      BY <3>2, <3>3, <3>4
  <2> QED
    BY <2>5 DEF WaitInv
<1> USE DEF Inv, TypeOK, WaitInv, ScanInv, NoZombieInv, SleeperInv, LocksHeld,
    HoldsWaitLock, HeldFor, SlotInv, SwtchInv, Exiting, Sleeps, WillWake, Children,
    Proc, Nobody, SleepLock, initproc
<1>9. CASE UNCHANGED vars
  BY <1>9 DEF vars
<1>10. ASSUME NEW c \in CPU, NEW p \in Proc, Scheduler(c, p) PROVE WaitInv'
  BY <1>10 DEF Scheduler
<1>11. ASSUME NEW c \in CPU, NEW p \in Proc, Sched(c, p) PROVE WaitInv'
  BY <1>11 DEF Sched
<1>12. ASSUME NEW c \in CPU, NEW p \in Proc, Return(c, p) PROVE WaitInv'
  BY <1>12 DEF Return
<1>13. ASSUME NEW c \in CPU, NEW p \in Proc, Yield(c, p, "user") PROVE WaitInv'
  BY <1>13 DEF Yield
<1>14. ASSUME NEW c \in CPU, NEW p \in Proc, Yield(c, p, "holds") PROVE WaitInv'
  BY <1>14 DEF Yield
<1>15. ASSUME NEW c \in CPU, NEW p \in Proc, Sleep(c, p) PROVE WaitInv'
  BY <1>15 DEF Sleep
<1>16. ASSUME NEW c \in CPU, NEW p \in Proc, SleepRelease(c, p) PROVE WaitInv'
  BY <1>16 DEF SleepRelease
<1>17. ASSUME NEW c \in CPU, NEW p \in Proc, SleepState(c, p) PROVE WaitInv'
  BY <1>17 DEF SleepState
<1>18. ASSUME NEW c \in CPU, NEW p \in Proc, Woken(c, p) PROVE WaitInv'
  BY <1>18 DEF Woken
<1>20. ASSUME NEW c \in CPU, NEW p \in Proc, LkLock(c, p) PROVE WaitInv'
  BY <1>20 DEF LkLock
<1>21. ASSUME NEW c \in CPU, NEW p \in Proc, Unlock(c, p) PROVE WaitInv'
  BY <1>21 DEF Unlock, CallWakeup
<1>22. ASSUME NEW c \in CPU, NEW p \in Proc, Unlocked(c, p) PROVE WaitInv'
  BY <1>22 DEF Unlocked
<1>23. ASSUME NEW c \in CPU, NEW p \in Proc, ForkParent(c, p) PROVE WaitInv'
  BY <1>23 DEF ForkParent
<1>24. ASSUME NEW c \in CPU, NEW p \in Proc, ExitLock(c, p) PROVE WaitInv'
  BY <1>24 DEF ExitLock
<1>25. ASSUME NEW c \in CPU, NEW p \in Proc, Reparent(c, p) PROVE WaitInv'
  BY <1>25 DEF Reparent, CallWakeup
<1>26. ASSUME NEW c \in CPU, NEW p \in Proc, WakeParent(c, p) PROVE WaitInv'
  BY <1>26 DEF WakeParent, CallWakeup
<1>27. ASSUME NEW c \in CPU, NEW p \in Proc, Zombie(c, p) PROVE WaitInv'
  BY <1>27 DEF Zombie
<1>28. ASSUME NEW c \in CPU, NEW p \in Proc, WaitLock(c, p) PROVE WaitInv'
  BY <1>28 DEF WaitLock
<1>29. ASSUME NEW c \in CPU, NEW p \in Proc, NEW q \in Proc, Kill(c, p, q) PROVE WaitInv'
  BY <1>29 DEF Kill
<1> HIDE DEF Inv, TypeOK, WaitInv, ScanInv, NoZombieInv, SleeperInv, LocksHeld,
    HoldsWaitLock, HeldFor, SlotInv, SwtchInv, Exiting, Sleeps, WillWake, Children,
    Proc, Nobody, SleepLock, initproc
<1> QED
  BY <1>1, <1>2, <1>3, <1>4, <1>5, <1>6, <1>7, <1>8, <1>9, <1>10, <1>11, <1>12, <1>13,
      <1>14, <1>15, <1>16, <1>17, <1>18, <1>19, <1>20, <1>21, <1>22, <1>23, <1>24,
      <1>25, <1>26, <1>27, <1>28, <1>29 DEF Next

\* At power on nobody waits, holds a lock or has a parent.
LEMMA InitInv == Init => Inv
<1> SUFFICES ASSUME Init PROVE Inv
  OBVIOUS
<1>1. TypeOK /\ SwtchInv
  BY InitType, InitSwtch
<1>2. LocksHeld /\ LkInv /\ SleepLockExclusive
  BY DEF Init, LocksHeld, HoldsWaitLock, HoldsLk, LkInv, Sleeps, SleepLockExclusive
<1>3. WaitInv
  BY DEF Init, WaitInv, ScanInv, NoZombieInv, SleeperInv, Sleeps
<1>4. SlotInv
  BY DEF Init, SlotInv, Exiting
<1> QED
  BY <1>1, <1>2, <1>3, <1>4 DEF Inv

\* The invariant is inductive.
LEMMA NextInv == Inv /\ [Next]_vars => Inv'
<1>1. Inv => TypeOK /\ SwtchInv
  BY DEF Inv
<1> QED
  BY <1>1, NextType, NextSwtch, NextLocks, NextWait, NextLk, NextSlot, NextExclusive DEF
       Inv

\* It holds in every reachable state.
THEOREM Invariance == Spec => []Inv
  BY InitInv, NextInv, PTL DEF Spec

\* Between acquiresleep and releasesleep there is one process, whatever
\* wakeup and kill do to those that wait.
THEOREM SleepLockIsExclusive == Spec => []SleepLockExclusive
<1>1. Inv => SleepLockExclusive
  BY DEF Inv
<1> QED
  BY <1>1, Invariance, PTL

\* Nobody sleeps in wait or acquiresleep for what has happened already.  A
\* sleeper with a zombie child, or without a holder of the sleeplock, has its
\* waker in the middle of wakeup, which holds the lock of the channel.
THEOREM WakeupsAreNotLost == Spec => []NoLostWakeup
<1>1. ASSUME Inv PROVE NoLostWakeup
  <2> SUFFICES ASSUME NEW p \in Proc
               PROVE  /\ Sleeps(p, p) /\ wait_lock = NoCpu =>
                            /\ Children(p) # {}
                            /\ \A q \in Children(p) : state[q] # "ZOMBIE"
                      /\ Sleeps(p, SleepLock) /\ lk = NoCpu => locked # Nobody
    BY DEF NoLostWakeup
  <2>1. ASSUME NEW r \in Proc, WillWake(r, p, "reparent", p) PROVE wait_lock # NoCpu
    BY <1>1, <2>1, ProcTableAssumption
       DEF Inv, LocksHeld, HoldsWaitLock, HeldFor, WillWake
  <2>2. ASSUME NEW r \in Proc, WillWake(r, SleepLock, "unlocked", p) PROVE lk # NoCpu
    BY <1>1, <2>2, ProcTableAssumption DEF Inv, LocksHeld, HoldsLk, HeldFor, WillWake
  <2>3. SleeperInv(p)
    BY <1>1 DEF Inv, WaitInv
  <2> QED
    BY <1>1, <2>1, <2>2, <2>3 DEF Inv, SleeperInv, LkInv
<1> QED
  BY <1>1, Invariance, PTL

-----------------------------------------------------------------------------
(* fork, exit and wait implement the family tree *)

\* A step of the tree, or none
TreeOrStutter == Tree!Next \/ UNCHANGED <<Live, Zombies, TreeParent>>

\* ForkParent is fork of the tree, ExitLock exit, and Reap with freeproc wait;
\* the other steps leave the tree as it is.
LEMMA TreeStep == Inv /\ [Next]_vars => TreeOrStutter
<1> SUFFICES ASSUME Inv, [Next]_vars PROVE TreeOrStutter
  OBVIOUS
<1> USE ProcTableAssumption
<1>1. ASSUME NEW c \in CPU, NEW p \in Proc, SwtchBack(c, p) PROVE TreeOrStutter
  <2>1. PICK l \in {"user", "holds"} : BackTo(c, p, l)
    BY <1>1, BackStep
  <2> USE DEF BackTo, Inv, TreeOrStutter, TypeOK, SlotInv, Exiting, Live, Zombies,
       TreeParent, Proc, Nobody, initproc
  <2> QED
    BY <2>1
<1>2. ASSUME NEW c \in CPU, NEW p \in Proc, WakeupEnd(c, p) PROVE TreeOrStutter
  <2>1. PICK l \in {"reparent", "zombie", "unlocked"} : WakeupReturns(c, p, l)
    BY <1>2, WakeupEndStep
  <2> USE DEF WakeupReturns, Inv, TreeOrStutter, TypeOK, SlotInv, Exiting, Live,
       Zombies, TreeParent, Proc, Nobody, initproc
  <2> QED
    BY <2>1
<1>3. ASSUME NEW c \in CPU, NEW p \in Proc, ForkParent(c, p) PROVE TreeOrStutter
  <2> USE DEF Inv, TypeOK, TreeOrStutter
  <2>1. /\ state[p] = "RUNNING" /\ pc[p] = "fork_parent"
        /\ parent' = [parent EXCEPT ![np[p]] = p]
        /\ pc' = [pc EXCEPT ![p] = "fork_run"]
        /\ UNCHANGED <<state, ret>>
    BY <1>3 DEF ForkParent
  <2>2. /\ np[p] \in Proc /\ state[np[p]] = "USED"
        /\ parent[np[p]] = Nobody /\ pc[np[p]] = "none"
    BY <2>1 DEF SwtchInv, SlotInv
  <2>3. \A q \in Proc : Exiting(q)' = Exiting(q)
    BY <2>1 DEF Exiting
  <2>4. p \in Live /\ np[p] \notin Live \cup Zombies
    BY <2>1, <2>2 DEF Live, Zombies, Exiting
  <2>5. Live' = Live \cup {np[p]} /\ UNCHANGED Zombies
    BY <2>1, <2>2, <2>3 DEF Live, Zombies, Exiting, Proc, Nobody
  <2>6. TreeParent' = [TreeParent EXCEPT ![np[p]] = p]
    BY <2>1, <2>2, <2>3, ZenonT(40) DEF TreeParent, Exiting
  <2> QED
    BY <2>2, <2>4, <2>5, <2>6 DEF Tree!Next, Tree!Fork
<1>4. ASSUME NEW c \in CPU, NEW p \in Proc, ForkRun(c, p) PROVE TreeOrStutter
  <2>1. /\ running[c] = p /\ state[p] = "RUNNING" /\ pc[p] = "fork_run"
        /\ state' = [state EXCEPT ![np[p]] = "RUNNABLE"]
        /\ pc' = [pc EXCEPT ![p] = "return", ![np[p]] = "forkret"]
        /\ np' = [np EXCEPT ![p] = Nobody]
        /\ UNCHANGED <<parent, chan, locked, i, kids, arg, ret>>
    BY <1>4 DEF ForkRun
  <2>2. np[p] \in Proc /\ state[np[p]] = "USED" /\ np[p] # p /\ pc[np[p]] = "none"
    BY <2>1 DEF Inv, SwtchInv, SlotInv
  <2>3. parent[np[p]] # Nobody
    BY <2>1 DEF Inv, SlotInv
  <2> USE DEF Inv, TypeOK, TreeOrStutter
  <2>4. \A q \in Proc : Exiting(q)' = Exiting(q)
    BY <2>1, <2>2 DEF Exiting
  <2>5. UNCHANGED Live /\ UNCHANGED Zombies
    BY <2>1, <2>2, <2>3, <2>4 DEF Live, Zombies, Exiting
  <2>6. UNCHANGED TreeParent
    BY <2>1, <2>4 DEF TreeParent
  <2> QED
    BY <2>5, <2>6
<1>5. ASSUME NEW c \in CPU, NEW p \in Proc, ExitLock(c, p) PROVE TreeOrStutter
  <2> USE DEF Inv, TypeOK, TreeOrStutter
  <2>1. /\ p # initproc /\ state[p] = "RUNNING" /\ ~Exiting(p)
        /\ pc' = [pc EXCEPT ![p] = "reparent"]
        /\ UNCHANGED <<state, parent, ret>>
    BY <1>5 DEF ExitLock, Exiting
  <2>2. \A q \in Proc : Exiting(q)' <=> Exiting(q) \/ q = p
    BY <2>1 DEF Exiting
  <2>3. p \in Live \ {initproc}
    BY <2>1 DEF Live
  <2>4. Live' = Live \ {p} /\ Zombies' = Zombies \cup {p}
    BY <2>1, <2>2 DEF Live, Zombies
  <2>5. TreeParent' = [q \in Proc |-> IF TreeParent[q] = p THEN initproc ELSE TreeParent[q]]
    BY <2>1, <2>2 DEF TreeParent, Proc, Nobody
  <2> QED
    BY <2>3, <2>4, <2>5 DEF Tree!Next, Tree!Exit
<1>6. ASSUME NEW c \in CPU, NEW p \in Proc, Reparent(c, p) PROVE TreeOrStutter
  <2> USE DEF Inv, TypeOK, TreeOrStutter
  <2>1. PICK q \in Children(p) : parent' = [parent EXCEPT ![q] = initproc]
    BY <1>6 DEF Reparent
  <2>2. /\ pc[p] = "reparent"
        /\ pc' = [pc EXCEPT ![p] = "wakeup"]
        /\ ret' = [ret EXCEPT ![p] = "reparent"]
        /\ UNCHANGED state
    BY <1>6 DEF Reparent, CallWakeup
  <2>3. \A x \in Proc : Exiting(x)' = Exiting(x)
    BY <2>2 DEF Exiting
  <2>4. q \in Proc /\ parent[q] = p /\ Exiting(p) /\ ~Exiting(initproc)
    BY <2>1, <2>2 DEF Children, Exiting, SlotInv, Proc, initproc
  <2>5. UNCHANGED Live /\ UNCHANGED Zombies
    BY <2>1, <2>2, <2>3, <2>4 DEF Live, Zombies, Proc, Nobody, initproc
  <2>6. UNCHANGED TreeParent
    BY <2>1, <2>3, <2>4 DEF TreeParent, Proc, Nobody, initproc
  <2> QED
    BY <2>5, <2>6
<1>7. ASSUME NEW c \in CPU, NEW p \in Proc, Zombie(c, p) PROVE TreeOrStutter
  <2> USE DEF Inv, TypeOK, TreeOrStutter
  <2>1. /\ state[p] = "RUNNING" /\ pc[p] = "zombie"
        /\ state' = [state EXCEPT ![p] = "ZOMBIE"]
        /\ pc' = [pc EXCEPT ![p] = "none"]
        /\ UNCHANGED <<parent, ret>>
    BY <1>7 DEF Zombie
  <2>2. \A q \in Proc : parent[q] # p
    BY <2>1 DEF SlotInv, Children
  <2>3. \A q \in Proc \ {p} : Exiting(q)' = Exiting(q)
    BY <2>1 DEF Exiting
  <2>4. UNCHANGED Live /\ UNCHANGED Zombies
    BY <2>1, <2>3 DEF Live, Zombies, Exiting
  <2>5. UNCHANGED TreeParent
    BY <2>1, <2>2, <2>3 DEF TreeParent
  <2> QED
    BY <2>4, <2>5
<1>8. ASSUME NEW c \in CPU, NEW p \in Proc, Reap(c, p) PROVE TreeOrStutter
  <2> USE DEF Inv, TypeOK, TreeOrStutter
  <2>1. /\ running[c] = p /\ state[p] = "RUNNING" /\ pc[p] = "wait_scan"
        /\ i' = [i EXCEPT ![p] = 0]
        /\ kids' = [kids EXCEPT ![p] = FALSE]
        /\ pc' = [pc EXCEPT ![p] = "return"]
        /\ UNCHANGED <<arg, ret, running, np>>
    BY <1>8 DEF Reap, WaitReturn
  <2>2. PICK q \in Proc :
          /\ q \in Children(p) /\ state[q] = "ZOMBIE"
          /\ \/ /\ state' = [state EXCEPT ![q] = "UNUSED"]
                /\ parent' = [parent EXCEPT ![q] = Nobody]
                /\ chan' = [chan EXCEPT ![q] = Nobody]
             \/ UNCHANGED <<state, parent, chan>>
    BY <1>8 DEF Reap, IsNext
  <2>3. \A x \in Proc : Exiting(x)' = Exiting(x)
    BY <2>1 DEF Exiting
  <2>4. CASE UNCHANGED <<state, parent, chan>>
    BY <2>3, <2>4 DEF Live, Zombies, TreeParent
  <2>5. CASE /\ state' = [state EXCEPT ![q] = "UNUSED"]
             /\ parent' = [parent EXCEPT ![q] = Nobody]
    <3>1. /\ q # p /\ parent[q] = p /\ p # Nobody /\ ~Exiting(p) /\ ~Exiting(q)
      BY <2>1, <2>2 DEF SlotInv, Exiting, Children, Proc, Nobody
    <3>2. p \in Live /\ q \in Zombies /\ TreeParent[q] = p
      BY <2>1, <2>2, <3>1 DEF Live, Zombies, TreeParent
    <3>3. UNCHANGED Live /\ Zombies' = Zombies \ {q}
      BY <2>2, <2>3, <2>5, <3>1 DEF Live, Zombies
    <3>4. TreeParent' = [TreeParent EXCEPT ![q] = Nobody]
      BY <2>3, <2>5 DEF TreeParent
    <3> QED
      BY <3>2, <3>3, <3>4 DEF Tree!Next, Tree!Wait
  <2> QED
    BY <2>2, <2>4, <2>5
<1> USE DEF Inv, TreeOrStutter, TypeOK, SlotInv, Exiting, Live, Zombies, TreeParent,
    Proc, Nobody, initproc
<1>9. CASE UNCHANGED vars
  BY <1>9 DEF vars
<1>10. ASSUME NEW c \in CPU, NEW p \in Proc, Scheduler(c, p) PROVE TreeOrStutter
  BY <1>10 DEF Scheduler
<1>11. ASSUME NEW c \in CPU, NEW p \in Proc, Sched(c, p) PROVE TreeOrStutter
  BY <1>11 DEF Sched
<1>12. ASSUME NEW c \in CPU, NEW p \in Proc, Return(c, p) PROVE TreeOrStutter
  BY <1>12 DEF Return
<1>13. ASSUME NEW c \in CPU, NEW p \in Proc, Yield(c, p, "user") PROVE TreeOrStutter
  BY <1>13 DEF Yield
<1>14. ASSUME NEW c \in CPU, NEW p \in Proc, Yield(c, p, "holds") PROVE TreeOrStutter
  BY <1>14 DEF Yield
<1>15. ASSUME NEW c \in CPU, NEW p \in Proc, Sleep(c, p) PROVE TreeOrStutter
  BY <1>15 DEF Sleep
<1>16. ASSUME NEW c \in CPU, NEW p \in Proc, SleepRelease(c, p) PROVE TreeOrStutter
  BY <1>16 DEF SleepRelease
<1>17. ASSUME NEW c \in CPU, NEW p \in Proc, SleepState(c, p) PROVE TreeOrStutter
  BY <1>17 DEF SleepState
<1>18. ASSUME NEW c \in CPU, NEW p \in Proc, Woken(c, p) PROVE TreeOrStutter
  BY <1>18 DEF Woken
<1>19. ASSUME NEW c \in CPU, NEW p \in Proc, WakeupNext(c, p) PROVE TreeOrStutter
  BY <1>19 DEF WakeupNext, IsNext
<1>20. ASSUME NEW c \in CPU, NEW p \in Proc, LkLock(c, p) PROVE TreeOrStutter
  BY <1>20 DEF LkLock
<1>21. ASSUME NEW c \in CPU, NEW p \in Proc, LkTest(c, p) PROVE TreeOrStutter
  BY <1>21, SMTT(30) DEF LkTest, CallSleep
<1>22. ASSUME NEW c \in CPU, NEW p \in Proc, Unlock(c, p) PROVE TreeOrStutter
  BY <1>22 DEF Unlock, CallWakeup
<1>23. ASSUME NEW c \in CPU, NEW p \in Proc, Unlocked(c, p) PROVE TreeOrStutter
  BY <1>23 DEF Unlocked
<1>24. ASSUME NEW c \in CPU, NEW p \in Proc, WakeParent(c, p) PROVE TreeOrStutter
  BY <1>24 DEF WakeParent, CallWakeup
<1>25. ASSUME NEW c \in CPU, NEW p \in Proc, WaitLock(c, p) PROVE TreeOrStutter
  BY <1>25 DEF WaitLock
<1>26. ASSUME NEW c \in CPU, NEW p \in Proc, WaitNext(c, p) PROVE TreeOrStutter
  BY <1>26 DEF WaitNext, IsNext
<1>27. ASSUME NEW c \in CPU, NEW p \in Proc, WaitCheck(c, p) PROVE TreeOrStutter
  BY <1>27 DEF WaitCheck, WaitReturn, CallSleep
<1>28. ASSUME NEW c \in CPU, NEW p \in Proc, NEW q \in Proc, Fork(c, p, q) PROVE TreeOrStutter
  BY <1>28, SMTT(30) DEF Fork
<1>29. ASSUME NEW c \in CPU, NEW p \in Proc, NEW q \in Proc, Kill(c, p, q) PROVE TreeOrStutter
  BY <1>29 DEF Kill
<1> HIDE DEF Inv, TreeOrStutter, TypeOK, SlotInv, Exiting, Live, Zombies, TreeParent,
    Proc, Nobody, initproc
<1> QED
  BY <1>1, <1>2, <1>3, <1>4, <1>5, <1>6, <1>7, <1>8, <1>9, <1>10, <1>11, <1>12, <1>13,
      <1>14, <1>15, <1>16, <1>17, <1>18, <1>19, <1>20, <1>21, <1>22, <1>23, <1>24,
      <1>25, <1>26, <1>27, <1>28, <1>29 DEF Next

\* fork, exit and wait of any number of CPUs, with their many steps under
\* wait_lock and p->lock, are single steps on the family tree: each zombie is
\* waited for once, by its parent or by init, and every orphan gets a parent.
THEOREM TreeRefinement == Spec => ImplementsProcTree
<1>1. Init => Tree!Init
  BY ProcTableAssumption
     DEF Init, Tree!Init, Live, Zombies, TreeParent, Exiting, Proc, Nobody, initproc
<1>2. Inv /\ [Next]_vars => [Tree!Next]_(Tree!vars)
  BY TreeStep DEF TreeOrStutter, Tree!vars
<1> QED
  BY <1>1, <1>2, Invariance, PTL DEF Spec, ImplementsProcTree, Tree!Spec
=============================================================================
