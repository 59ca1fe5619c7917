--------------------------- MODULE PausableSched ---------------------------
(***************************************************************************)
(* The three schedulers of Assignment 1 (defScheduler, sjfScheduler and    *)
(* fcfsScheduler of proc.c), pause_system and kill_system, on the one CPU  *)
(* of its Makefile.                                                        *)
(*                                                                         *)
(* A step of a scheduler looks at one slot or starts a process.  Between   *)
(* them, if interrupts are on, an interrupt ticks or wakes a process.      *)
(* Sleep channels, parents and the statistics are left out: whatever       *)
(* sleeps may be woken, and a process that runs may reap any zombie.       *)
(***************************************************************************)
EXTENDS Integers, FiniteSetsExt

CONSTANTS
    NPROC,
    HZ,         \* ticks of a second, 10 in the code
    Seconds,    \* arguments of pause_system
    Width,      \* bound: ticks is counted modulo Width, in the code 2^32
    MaxTicks,   \* bound: the clock stops, but timer interrupts go on
    MaxPid,     \* bound: pids handed out
    Nobody

ASSUME SchedAssumption == NPROC \in Nat \ {0} /\ MaxTicks < Width /\ HZ \in Nat

Slot == 0 .. NPROC - 1
init == 0       \* initproc, in the first slot
rate == 5
Stray == NPROC + 1  \* the loop variable, once it pointed outside proc[]

VARIABLES
    policy,     \* SCHEDFLAG of the Makefile
    state, mean, last,  \* p->state, p->mean_ticks (SJF), p->last_runnable_time (FCFS)
    pid, nextpid,
    killed,
    ticks, pauseTicks,
    running,    \* c->proc
    at,         \* the scheduler's loop variable p
    min,        \* min_proc or min_lrt_proc
    mintime,    \* min_lrt_time
    started,    \* startingTicks (SJF)
    intr,       \* interrupts are on in the scheduler; it matters when nobody runs
    pausing,    \* who is between the assignment of pauseTicks and yield
    killing,    \* loop variables and argument of kill_system and its kill
    waiting     \* history (SJF, FCFS): who was RUNNABLE when the scan began

schedVars == <<at, min, mintime, waiting>>
procVars == <<state, mean, last, pid, nextpid, killed>>
callVars == <<pausing, killing>>
vars == <<policy, procVars, ticks, pauseTicks, running, schedVars, started, intr, callVars>>

\* Where kill_system is: it tests the pid of a slot, reads it again for kill,
\* and kill looks for it.
KillAt(slot) == [slot |-> slot, step |-> "test", pid |-> 0, look |-> 0]

Init ==
    /\ policy \in {"DEFAULT", "SJF", "FCFS"}
    /\ state = [p \in Slot |-> IF p = init THEN "RUNNABLE" ELSE "UNUSED"]
    /\ mean = [p \in Slot |-> 0] /\ last = [p \in Slot |-> 0]
    /\ pid = [p \in Slot |-> IF p = init THEN 1 ELSE 0] /\ nextpid = 2
    /\ killed = {}
    /\ ticks = 0 /\ pauseTicks = 0
    /\ running = Nobody
    /\ at = 0 /\ min = 0 /\ mintime = -1
    /\ started = 0
    /\ intr = TRUE
    /\ pausing = {}
    /\ killing = [p \in Slot |-> KillAt(NPROC)]
    /\ waiting = IF policy = "DEFAULT" THEN {} ELSE {init}

Runnable == {p \in Slot : state[p] = "RUNNABLE"}

-----------------------------------------------------------------------------
(* The schedulers *)

\* mutant of Paused: a pause of the wrong sign
PausedBackwards == ticks > pauseTicks
Paused == ticks < pauseTicks

\* the start of the outer loop, with the states st
NewRound(st) ==
    /\ at' = 0 /\ min' = 0 /\ mintime' = -1
    /\ waiting' = {p \in Slot : st[p] = "RUNNABLE"}

Start(p) ==
    /\ state' = [state EXCEPT ![p] = "RUNNING"]
    /\ running' = p
    /\ started' = IF policy = "SJF" THEN ticks ELSE 0
    /\ intr' = TRUE

Scan ==
    /\ at' = at + 1
    /\ UNCHANGED <<state, running, started, intr, waiting>>

\* In defScheduler the loop variable of a pause goes back by sizeof(&p), that
\* is 8 slots: to addresses below the array.  intr_on is at the top of the
\* outer loop, which a pause does not reach.
DefStep ==
    /\ policy = "DEFAULT" /\ at # Stray
    /\ UNCHANGED <<min, mintime, waiting>>
    /\ \/ /\ at < NPROC /\ Paused
          /\ at' = IF at = NPROC - 1 THEN -7 ELSE at + 1
          /\ UNCHANGED <<state, running, started, intr>>
       \/ /\ at < 0 /\ ~Paused
          /\ at' = Stray
          /\ UNCHANGED <<state, running, started, intr>>
       \/ /\ at \in Slot /\ ~Paused
          /\ IF state[at] = "RUNNABLE" THEN Start(at) /\ UNCHANGED at ELSE Scan
       \/ /\ at = NPROC
          /\ at' = 0 /\ intr' = TRUE
          /\ UNCHANGED <<state, running, started>>

\* mutant of Shorter: the state is not looked at
ShorterAny(p) == mean[p] <= mean[min]
Shorter(p) == state[p] = "RUNNABLE" /\ mean[p] <= mean[min]

SjfStep ==
    /\ policy = "SJF"
    /\ \/ /\ at \in Slot
          /\ Scan
          /\ min' = IF Shorter(at) THEN at ELSE min
          /\ UNCHANGED mintime
       \/ /\ at = NPROC /\ Paused               \* goto sjfAlgo
          /\ at' = 0 /\ waiting' = Runnable
          /\ UNCHANGED <<state, running, started, intr, min, mintime>>
       \/ /\ at = NPROC /\ ~Paused
          /\ IF state[min] = "RUNNABLE" THEN Start(min) /\ UNCHANGED schedVars
             ELSE NewRound(state) /\ UNCHANGED <<state, running, started, intr>>

Earlier(p) == state[p] = "RUNNABLE" /\ (mintime = -1 \/ last[p] <= mintime)

FcfsStep ==
    /\ policy = "FCFS"
    /\ \/ /\ at \in Slot
          /\ Scan
          /\ min' = IF Earlier(at) THEN at ELSE min
          /\ mintime' = IF Earlier(at) THEN last[at] ELSE mintime
       \/ /\ at = NPROC /\ Paused               \* goto fcfsAlgo
          /\ at' = 0 /\ waiting' = Runnable
          /\ UNCHANGED <<state, running, started, intr, min, mintime>>
       \/ /\ at = NPROC /\ ~Paused
          /\ Start(min) /\ UNCHANGED schedVars  \* whatever its state

Schedule ==
    /\ running = Nobody
    /\ DefStep \/ SjfStep \/ FcfsStep
    /\ UNCHANGED <<policy, mean, last, pid, nextpid, killed, ticks, pauseTicks, callVars>>

\* p gives up the CPU in state s, at time now, and the scheduler goes on.  Its
\* first release restores the interrupts that the acquire of p found.
Sched(p, s, now, on) ==
    /\ state' = [state EXCEPT ![p] = s]
    /\ last' = IF policy = "FCFS" /\ s = "RUNNABLE" THEN [last EXCEPT ![p] = now] ELSE last
    /\ running' = Nobody
    /\ mean' = IF policy = "SJF"
               THEN [mean EXCEPT ![p] = ((10 - rate) * @ + (now - started) * rate) \div 10] ELSE mean
    /\ IF policy = "DEFAULT" THEN at' = at + 1 /\ intr' = on /\ UNCHANGED <<min, mintime, waiting>>
       ELSE NewRound([state EXCEPT ![p] = s]) /\ intr' = TRUE

-----------------------------------------------------------------------------
(* Interrupts *)

Now == IF ticks = MaxTicks THEN ticks ELSE ticks + 1
Interrupts == running # Nobody \/ intr

\* clockintr, and yield of the process that runs, from the handler
Clock ==
    /\ Interrupts
    /\ ticks' = Now
    /\ IF running = Nobody
       THEN UNCHANGED <<state, mean, last, running, schedVars, intr>>
       ELSE Sched(running, "RUNNABLE", Now, FALSE)
    /\ UNCHANGED <<policy, pid, nextpid, killed, pauseTicks, started, callVars>>

Rouse(p) ==
    /\ state' = [state EXCEPT ![p] = "RUNNABLE"]
    /\ last' = IF policy = "FCFS" THEN [last EXCEPT ![p] = ticks] ELSE last

\* wakeup, by an interrupt or by the process that runs
Wakeup(p) ==
    /\ Interrupts
    /\ state[p] = "SLEEPING"
    /\ Rouse(p)
    /\ UNCHANGED <<policy, mean, pid, nextpid, killed, ticks, pauseTicks, running, schedVars, started, intr, callVars>>

-----------------------------------------------------------------------------
(* What the process that runs does *)

Calls(p) == running = p /\ p \notin pausing /\ killing[p].slot = NPROC

\* exit, and what it sleeps for, comes with interrupts off when usertrap finds
\* p killed after an interrupt.
Leaves(p, s) ==
    /\ Calls(p)
    /\ \E on \in {TRUE, p \notin killed} : Sched(p, s, ticks, on)
    /\ UNCHANGED <<policy, pid, nextpid, killed, ticks, pauseTicks, started, callVars>>

Sleep(p) == Leaves(p, "SLEEPING")
Exit(p) == p # init /\ Leaves(p, "ZOMBIE")

Unused == {q \in Slot : state[q] = "UNUSED"}

\* allocproc leaves killed as it is.
Fork(p) ==
    /\ Calls(p) /\ p \notin killed
    /\ Unused # {} /\ nextpid <= MaxPid
    /\ LET c == Min(Unused) IN
       /\ Rouse(c)
       /\ mean' = [mean EXCEPT ![c] = 0]
       /\ pid' = [pid EXCEPT ![c] = nextpid]
    /\ nextpid' = nextpid + 1
    /\ UNCHANGED <<policy, killed, ticks, pauseTicks, running, schedVars, started, intr, callVars>>

\* wait: freeproc
Reap(p, z) ==
    /\ Calls(p)
    /\ state[z] = "ZOMBIE"
    /\ state' = [state EXCEPT ![z] = "UNUSED"]
    /\ pid' = [pid EXCEPT ![z] = 0]
    /\ killed' = killed \ {z}
    /\ UNCHANGED <<policy, mean, last, nextpid, ticks, pauseTicks, running, schedVars, started, intr, callVars>>

\* The sum is compared with ticks, which is unsigned.  The timer may
\* interrupt before the yield.
PauseSystem(p) ==
    /\ Calls(p) /\ p \notin killed
    /\ \E s \in Seconds :
         /\ ticks + s * HZ <= MaxTicks
         /\ pauseTicks' = (ticks + s * HZ) % Width
    /\ pausing' = pausing \cup {p}
    /\ UNCHANGED <<policy, procVars, ticks, running, schedVars, started, intr, killing>>

PauseYield(p) ==
    /\ running = p /\ p \in pausing
    /\ pausing' = pausing \ {p}
    /\ Sched(p, "RUNNABLE", ticks, TRUE)
    /\ UNCHANGED <<policy, pid, nextpid, killed, ticks, pauseTicks, started, killing>>

KillSystem(p) ==
    /\ Calls(p) /\ p \notin killed
    /\ killing' = [killing EXCEPT ![p] = KillAt(0)]
    /\ UNCHANGED <<policy, procVars, ticks, pauseTicks, running, schedVars, started, intr, pausing>>

Spared == {1, 2}    \* the pids of init and the shell

\* One look at a slot under its lock, or the read without it
KillStep(p) ==
    /\ running = p /\ killing[p].slot < NPROC
    /\ LET k == killing[p]
           next == KillAt(k.slot + 1)
           found == pid[k.look] = k.pid
       IN  \/ /\ k.step = "test"
              /\ killing' = [killing EXCEPT ![p] =
                               IF pid[k.slot] \in Spared THEN next ELSE [k EXCEPT !.step = "read"]]
              /\ UNCHANGED <<state, last, killed>>
           \/ /\ k.step = "read"
              /\ killing' = [killing EXCEPT ![p] = [k EXCEPT !.step = "look", !.pid = pid[k.slot]]]
              /\ UNCHANGED <<state, last, killed>>
           \/ /\ k.step = "look"
              /\ killing' = [killing EXCEPT ![p] =
                               IF found \/ k.look = NPROC - 1 THEN next ELSE [k EXCEPT !.look = @ + 1]]
              /\ killed' = IF found THEN killed \cup {k.look} ELSE killed
              /\ IF found /\ state[k.look] = "SLEEPING" THEN Rouse(k.look) ELSE UNCHANGED <<state, last>>
    /\ UNCHANGED <<policy, mean, pid, nextpid, ticks, pauseTicks, running, schedVars, started, intr, pausing>>

-----------------------------------------------------------------------------
Next ==
    \/ Schedule
    \/ Clock
    \/ \E p \in Slot :
         \/ Wakeup(p) \/ Sleep(p) \/ Exit(p) \/ Fork(p) \/ PauseSystem(p)
         \/ PauseYield(p) \/ KillSystem(p) \/ KillStep(p) \/ \E z \in Slot : Reap(p, z)

\* The scheduler never stops, and the timer interrupts again and again while
\* interrupts are on.
Spec == Init /\ [][Next]_vars /\ WF_vars(Schedule) /\ WF_vars(Clock)

-----------------------------------------------------------------------------
(* Properties *)

\* A process is started when no pause is on, from the state RUNNABLE, and
\* rightly before all those that were RUNNABLE when the scan began:
\* fcfsScheduler starts the one that has waited longest, and sjfScheduler the
\* one in the last slot, since on one CPU no run lasts longer than a tick and
\* every mean stays 0.  Only fcfsScheduler starts something else: init, asleep,
\* if it has found nobody.
ChoiceIsRight ==
    [][running = Nobody /\ running' # Nobody =>
         LET p == running' IN
         /\ ticks >= pauseTicks
         /\ policy = "SJF" => \A q \in waiting : q <= p /\ mean[q] = 0
         /\ policy = "FCFS" => \A q \in waiting : last[p] <= last[q]
         /\ \/ state[p] = "RUNNABLE"
            \/ policy = "FCFS" /\ p = init /\ state[p] = "SLEEPING" /\ waiting = {}]_vars

\* pause_system with a negative argument soon after boot, whose sum wraps
PausedForever == pauseTicks > MaxTicks

\* The timer came between the assignment of pauseTicks and yield: the loop of
\* the pause in defScheduler runs with interrupts off, and time stands still.
PausedWithoutClock == policy = "DEFAULT" /\ running = Nobody /\ Paused /\ ~intr

\* Once no more pauses are asked for, a process that is RUNNABLE gets the CPU
\* from defScheduler in its turn; under the other policies at least somebody
\* gets it.  The exceptions: the pause never ends, because its sum wraps or
\* because defScheduler waits for it with interrupts off, or it ended while
\* defScheduler looked below proc[].
NobodyIsForgotten ==
    \A p \in Slot :
        state[p] = "RUNNABLE" ~>
            \/ running = p \/ PausedForever \/ PausedWithoutClock \/ at = Stray
            \/ policy # "DEFAULT" /\ running # Nobody
=============================================================================
