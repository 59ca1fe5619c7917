------------------------ MODULE ListScheduler_proof ------------------------
(***************************************************************************)
(* Proofs about ListScheduler.  For every number of CPUs and processes,    *)
(* with or without balancing: the list code uses no end of a list as a     *)
(* node where it does not look, and whatever races do to the lists, no     *)
(* process runs on two CPUs.                                               *)
(*                                                                         *)
(* For one CPU, any number of processes and the calls that keep the rules  *)
(* of the lists (OneCpu), wherever an interrupt comes between their steps: *)
(* between calls every process is on the list of its state and on no       *)
(* other, the load is the length of the runnable list, no call waits for   *)
(* itself and a walk falls off the end of a list at one place only.        *)
(***************************************************************************)
EXTENDS ListScheduler, FiniteSetTheorems, WellFoundedInduction, TLAPS

USE DEF Goto, Reads, listVars, argVars, walkVars, procVars

-----------------------------------------------------------------------------
(* Nodes, lists and the table of the calls *)

\* The head of each list is a node.
LEMMA HeadIsNode ==
  ASSUME NEW i \in ListIndex, NEW cpu \in CPU \cup {Nil}
  PROVE  Head(i, cpu) \in Node /\ Head(i, cpu) # Nil
<1>1. Head(i, cpu) \in Heads
  <2>1. CASE cpu \in CPU
    BY <2>1 DEF Heads
  <2>2. CASE cpu = Nil
    <3>1. 0 \in CPU /\ Zombie \in ListIndex
      BY ProcListsAssumption DEF CPU, ListIndex, Zombie
    <3>2. Head(i, cpu) = IF i = Runnable THEN Head(Zombie, 0) ELSE Head(i, 0)
      BY <2>2, ProcListsAssumption DEF Head, ListIndex, Nil, Runnable, Zombie
    <3> QED
      BY <3>1, <3>2 DEF Heads
  <2> QED
    BY <2>1, <2>2
<1>2. Head(i, cpu) # Nil
  BY ProcListsAssumption DEF Head, ListIndex, CPU, Nil, Runnable
<1> QED
  BY <1>1, <1>2 DEF Node

\* Nil is no process and NoCpu no CPU, and the numbers that stand for "no list" and "no CPU"
\* in the locals of a CPU outside of the list code are a list and a CPU.
LEMMA Indices ==
  /\ Nil \notin Proc /\ 0 \in Proc /\ Proc \subseteq Node
  /\ 0 \in CPU /\ 0 \in ListIndex /\ NoCpu \notin CPU
  /\ {Running, Unused, Runnable, Sleeping, Zombie} \subseteq ListIndex
  /\ DOMAIN ListOf = {"UNUSED", "USED", "RUNNABLE", "RUNNING", "SLEEPING", "ZOMBIE"}
  BY ProcListsAssumption DEF ListOf, Nil, Proc, CPU, ListIndex, Node, Running, Unused,
       Runnable, Sleeping, Zombie

\* What the calls have in common: only a process's own call finds it RUNNING,
\* only fork's find a child USED, and none leaves a process RUNNING or USED.
LEMMA MovesTable ==
  /\ DOMAIN Moves = {"yield", "sleep", "exit", "wakeup", "kill", "fork", "wait", "failed"}
  /\ \A k \in DOMAIN Moves :
       /\ Moves[k].own \in BOOLEAN
       /\ Moves[k].was \in DOMAIN ListOf /\ Moves[k].is \in DOMAIN ListOf
       /\ Moves[k].from \in ListIndex /\ Moves[k].to \in ListIndex
       /\ Moves[k].own <=> Moves[k].was = "RUNNING"
       /\ k \in {"fork", "failed"} <=> Moves[k].was = "USED"
       /\ Moves[k].was # "UNUSED"
       /\ Moves[k].is \notin {"RUNNING", "USED"}
  /\ Moves["yield"].own /\ Moves["yield"].was = "RUNNING"
  /\ ~Moves["fork"].own /\ ~Moves["failed"].own /\ ~Moves["wakeup"].own
  /\ Moves["fork"].was = "USED" /\ Moves["failed"].was = "USED"
<1>1. DOMAIN Moves = {"yield", "sleep", "exit", "wakeup", "kill", "fork", "wait", "failed"}
  BY DEF Moves
<1>2. \A k \in DOMAIN Moves :
        /\ Moves[k].was \in DOMAIN ListOf /\ Moves[k].is \in DOMAIN ListOf
        /\ Moves[k].from \in ListIndex /\ Moves[k].to \in ListIndex
  BY Indices DEF Moves, ListOf
<1>3. \A k \in DOMAIN Moves :
       /\ Moves[k].own \in BOOLEAN
       /\ Moves[k].own <=> Moves[k].was = "RUNNING"
  <2>1. ASSUME NEW k \in {"yield", "sleep", "exit"}
        PROVE  Moves[k].own = TRUE /\ Moves[k].was = "RUNNING"
    BY DEF Moves
  <2>2. ASSUME NEW k \in {"wakeup", "kill", "fork", "wait", "failed"}
        PROVE  Moves[k].own = FALSE /\ Moves[k].was # "RUNNING"
    BY DEF Moves
  <2> QED
    BY <1>1, <2>1, <2>2
<1>4. \A k \in DOMAIN Moves :
       /\ k \in {"fork", "failed"} <=> Moves[k].was = "USED"
       /\ Moves[k].was # "UNUSED"
       /\ Moves[k].is \notin {"RUNNING", "USED"}
  BY DEF Moves
<1>5. /\ Moves["yield"].own /\ Moves["yield"].was = "RUNNING"
      /\ ~Moves["fork"].own /\ ~Moves["failed"].own /\ ~Moves["wakeup"].own
      /\ Moves["fork"].was = "USED" /\ Moves["failed"].was = "USED"
  BY DEF Moves
<1> QED
  BY <1>1, <1>2, <1>3, <1>4, <1>5

\* find_min_index answers a CPU or -1.
LEMMA MinCpuType == MinCpus \subseteq CPU \cup {Nil}
  BY DEF MinCpus

-----------------------------------------------------------------------------
(* Types *)

\* What an interrupt changes of what the calls rely on: a sleeping process becomes
\* runnable, or there was no CPU for it.
LEMMA InterruptFacts ==
  ASSUME TypeOK, NEW c \in CPU, NEW p \in Proc, Interrupt(c, p)
  PROVE  /\ UNCHANGED <<next_lock, argVars, walkVars, result, lock, running, wait_lock, call, target>>
         /\ next' \in [Node -> Proc \cup {Nil}] /\ count' \in [CPU -> Int]
         /\ cpuOf' \in [Proc -> CPU \cup {Nil}]
         /\ state[p] = "SLEEPING" /\ lock[p] = NoCpu /\ pc[c] \notin {"sched", "run", "panic", "ub"}
         /\ \/ pc' = pc /\ state' = [state EXCEPT ![p] = "RUNNABLE"]
            \/ pc' = [pc EXCEPT ![c] = "ub"] /\ state' = state
<1>1. PICK cpu \in WakeupCpus(p), q \in Node \cup OnList(Head(Sleeping, c)) :
        /\ next[q] = p
        /\ IF cpu = Nil
           THEN Goto(c, "ub") /\ UNCHANGED <<next, count, cpuOf, state>>
           ELSE /\ next' = [next EXCEPT ![q] = next[p], ![p] = next[Head(Runnable, cpu)],
                                        ![Head(Runnable, cpu)] = p]
                /\ count' = [count EXCEPT ![cpu] = @ + 1]
                /\ cpuOf' = [cpuOf EXCEPT ![p] = cpu]
                /\ state' = [state EXCEPT ![p] = "RUNNABLE"]
                /\ UNCHANGED pc
  BY HeadIsNode, Indices DEF Interrupt
<1>2. /\ UNCHANGED <<next_lock, argVars, walkVars, result, lock, running, wait_lock, call, target>>
      /\ state[p] = "SLEEPING" /\ lock[p] = NoCpu /\ pc[c] \notin {"sched", "run", "panic", "ub"}
  BY DEF Interrupt
<1>3. cpu \in CPU \cup {Nil}
  BY <1>1, MinCpuType DEF WakeupCpus, TypeOK
<1>4. CASE cpu = Nil
  BY <1>1, <1>2, <1>4 DEF TypeOK, ListTypeOK
<1>5. CASE cpu # Nil
  <2>1. next[p] \in Proc \cup {Nil} /\ next[Head(Runnable, cpu)] \in Proc \cup {Nil}
    BY <1>3, HeadIsNode, Indices DEF TypeOK, ListTypeOK
  <2>2. next' \in [Node -> Proc \cup {Nil}]
    BY <1>1, <1>5, <2>1 DEF TypeOK, ListTypeOK
  <2>3. count' \in [CPU -> Int]
    BY <1>1, <1>5 DEF TypeOK, ListTypeOK
  <2>4. cpuOf' \in [Proc -> CPU \cup {Nil}]
    BY <1>1, <1>3, <1>5 DEF TypeOK
  <2> QED
    BY <1>1, <1>2, <1>5, <2>2, <2>3, <2>4
<1> QED
  BY <1>4, <1>5

\* A step of the list code keeps the types and the nodes it relies on.
LEMMA ListType ==
  ASSUME ListTypeOK, WalkInv, NEW c \in CPU, ListStep(c), pc \in [CPU -> Pcs]
  PROVE  /\ ListTypeOK'
         /\ WalkInv'
         /\ pc' \in [CPU -> Pcs]
<1> USE Indices
<1> DEFINE IInv == ListTypeOK /\ WalkInv
<1>0. HeadOf(c) \in Node /\ HeadOf(c) # Nil
  BY HeadIsNode DEF HeadOf, ListTypeOK

<1>1. ASSUME RmStart(c) PROVE ListTypeOK' /\ WalkInv' /\ pc' \in [CPU -> Pcs]
  <2>1. ListTypeOK'
    BY <1>0, <1>1, SMT DEF ListTypeOK, WalkInv, RmStart, Step, FirstPcs, AddPcs, RemovePcs
  <2>2. pc' \in [CPU -> Pcs]
    BY <1>0, <1>1, SMT DEF RmStart, Step, Pcs, ListPcs, FirstPcs, AddPcs, RemovePcs
  <2>3. WalkInv'
    BY <1>0, <1>1, SMT DEF ListTypeOK, WalkInv, RmStart, Step, FirstPcs, AddPcs, RemovePcs
  <2> QED
    BY <2>1, <2>2, <2>3
<1>2. ASSUME RmTest(c) PROVE ListTypeOK' /\ WalkInv' /\ pc' \in [CPU -> Pcs]
  <2>1. ListTypeOK'
    BY <1>0, <1>2, SMT DEF ListTypeOK, WalkInv, RmTest, FirstPcs, AddPcs, RemovePcs
  <2>2. pc' \in [CPU -> Pcs]
    BY <1>0, <1>2, SMT DEF RmTest, Pcs, ListPcs, FirstPcs, AddPcs, RemovePcs
  <2>3. WalkInv'
    BY <1>0, <1>2, SMT DEF ListTypeOK, WalkInv, RmTest, FirstPcs, AddPcs, RemovePcs
  <2> QED
    BY <2>1, <2>2, <2>3
<1>3. ASSUME RmMatch(c) PROVE ListTypeOK' /\ WalkInv' /\ pc' \in [CPU -> Pcs]
  <2>1. ListTypeOK'
    BY <1>0, <1>3, SMT DEF ListTypeOK, WalkInv, RmMatch, FirstPcs, AddPcs, RemovePcs
  <2>2. pc' \in [CPU -> Pcs]
    BY <1>0, <1>3, SMT DEF RmMatch, Pcs, ListPcs, FirstPcs, AddPcs, RemovePcs
  <2>3. WalkInv'
    BY <1>0, <1>3, SMT DEF ListTypeOK, WalkInv, RmMatch, FirstPcs, AddPcs, RemovePcs
  <2> QED
    BY <2>1, <2>2, <2>3
<1>4. ASSUME RmStep(c) PROVE ListTypeOK' /\ WalkInv' /\ pc' \in [CPU -> Pcs]
  <2>1. ListTypeOK'
    BY <1>0, <1>4, SMT DEF ListTypeOK, WalkInv, RmStep, Step, FirstPcs, AddPcs, RemovePcs
  <2>2. pc' \in [CPU -> Pcs]
    BY <1>0, <1>4, SMT DEF RmStep, Step, Pcs, ListPcs, FirstPcs, AddPcs, RemovePcs
  <2>3. WalkInv'
    BY <1>0, <1>4, SMT DEF ListTypeOK, WalkInv, RmStep, Step, FirstPcs, AddPcs, RemovePcs
  <2> QED
    BY <2>1, <2>2, <2>3
<1>5. ASSUME RmLockPred(c) PROVE ListTypeOK' /\ WalkInv' /\ pc' \in [CPU -> Pcs]
  <2>1. ListTypeOK'
    BY <1>0, <1>5, SMT DEF ListTypeOK, WalkInv, RmLockPred, LockPred, AcquireNext,
         FirstPcs, AddPcs, RemovePcs
  <2>2. pc' \in [CPU -> Pcs]
    BY <1>0, <1>5, SMT DEF RmLockPred, LockPred, AcquireNext, Pcs, ListPcs, FirstPcs,
         AddPcs, RemovePcs
  <2>3. WalkInv'
    BY <1>0, <1>5, SMT DEF ListTypeOK, WalkInv, RmLockPred, LockPred, AcquireNext,
         FirstPcs, AddPcs, RemovePcs
  <2> QED
    BY <2>1, <2>2, <2>3
<1>6. ASSUME RmLockCurr(c) PROVE ListTypeOK' /\ WalkInv' /\ pc' \in [CPU -> Pcs]
  <2>1. ListTypeOK'
    BY <1>0, <1>6, SMT DEF ListTypeOK, WalkInv, RmLockCurr, LockCurr, AcquireNext,
         FirstPcs, AddPcs, RemovePcs
  <2>2. pc' \in [CPU -> Pcs]
    BY <1>0, <1>6, SMT DEF RmLockCurr, LockCurr, AcquireNext, Pcs, ListPcs, FirstPcs,
         AddPcs, RemovePcs
  <2>3. WalkInv'
    BY <1>0, <1>6, SMT DEF ListTypeOK, WalkInv, RmLockCurr, LockCurr, AcquireNext,
         FirstPcs, AddPcs, RemovePcs
  <2> QED
    BY <2>1, <2>2, <2>3
<1>7. ASSUME RmValidate(c) PROVE ListTypeOK' /\ WalkInv' /\ pc' \in [CPU -> Pcs]
  <2>1. ListTypeOK'
    BY <1>0, <1>7, SMT DEF ListTypeOK, WalkInv, RmValidate, Validate, FirstPcs, AddPcs,
         RemovePcs
  <2>2. pc' \in [CPU -> Pcs]
    BY <1>0, <1>7, SMT DEF RmValidate, Validate, Pcs, ListPcs, FirstPcs, AddPcs, RemovePcs
  <2>3. WalkInv'
    BY <1>0, <1>7, SMT DEF ListTypeOK, WalkInv, RmValidate, Validate, FirstPcs, AddPcs,
         RemovePcs
  <2> QED
    BY <2>1, <2>2, <2>3
<1>8. ASSUME RmValidateNext(c) PROVE ListTypeOK' /\ WalkInv' /\ pc' \in [CPU -> Pcs]
  <2>1. ListTypeOK'
    BY <1>0, <1>8, SMT DEF ListTypeOK, WalkInv, RmValidateNext, ValidateNext, FirstPcs,
         AddPcs, RemovePcs
  <2>2. pc' \in [CPU -> Pcs]
    BY <1>0, <1>8, SMT DEF RmValidateNext, ValidateNext, Pcs, ListPcs, FirstPcs, AddPcs,
         RemovePcs
  <2>3. WalkInv'
    BY <1>0, <1>8, SMT DEF ListTypeOK, WalkInv, RmValidateNext, ValidateNext, FirstPcs,
         AddPcs, RemovePcs
  <2> QED
    BY <2>1, <2>2, <2>3
<1>9. ASSUME RmUnlink(c) PROVE ListTypeOK' /\ WalkInv' /\ pc' \in [CPU -> Pcs]
  <2>1. ListTypeOK'
    BY <1>0, <1>9, SMT DEF ListTypeOK, WalkInv, RmUnlink, Return, ReleaseNext, FirstPcs,
         AddPcs, RemovePcs
  <2>2. pc' \in [CPU -> Pcs]
    BY <1>0, <1>9, SMT DEF RmUnlink, Return, ReleaseNext, Pcs, ListPcs, FirstPcs,
         AddPcs, RemovePcs
  <2>3. WalkInv'
    BY <1>0, <1>9, SMT DEF ListTypeOK, WalkInv, RmUnlink, Return, ReleaseNext, FirstPcs,
         AddPcs, RemovePcs
  <2> QED
    BY <2>1, <2>2, <2>3
<1>10. ASSUME AddLockHead(c) PROVE ListTypeOK' /\ WalkInv' /\ pc' \in [CPU -> Pcs]
  <2>1. ListTypeOK'
    BY <1>0, <1>10, SMT DEF ListTypeOK, WalkInv, AddLockHead, AcquireNext, FirstPcs,
         AddPcs, RemovePcs
  <2>2. pc' \in [CPU -> Pcs]
    BY <1>0, <1>10, SMT DEF AddLockHead, AcquireNext, Pcs, ListPcs, FirstPcs, AddPcs,
         RemovePcs
  <2>3. WalkInv'
    BY <1>0, <1>10, SMT DEF ListTypeOK, WalkInv, AddLockHead, AcquireNext, FirstPcs,
         AddPcs, RemovePcs
  <2> QED
    BY <2>1, <2>2, <2>3
<1>11. ASSUME AddTest(c) PROVE ListTypeOK' /\ WalkInv' /\ pc' \in [CPU -> Pcs]
  <2>1. ListTypeOK'
    BY <1>0, <1>11, SMT DEF ListTypeOK, WalkInv, AddTest, FirstPcs, AddPcs, RemovePcs
  <2>2. pc' \in [CPU -> Pcs]
    BY <1>0, <1>11, SMT DEF AddTest, Pcs, ListPcs, FirstPcs, AddPcs, RemovePcs
  <2>3. WalkInv'
    BY <1>0, <1>11, SMT DEF ListTypeOK, WalkInv, AddTest, FirstPcs, AddPcs, RemovePcs
  <2> QED
    BY <2>1, <2>2, <2>3
<1>12. ASSUME AddFirst(c) PROVE ListTypeOK' /\ WalkInv' /\ pc' \in [CPU -> Pcs]
  <2>1. ListTypeOK'
    BY <1>0, <1>12, SMT DEF ListTypeOK, WalkInv, AddFirst, FirstPcs, AddPcs, RemovePcs
  <2>2. pc' \in [CPU -> Pcs]
    BY <1>0, <1>12, SMT DEF AddFirst, Pcs, ListPcs, FirstPcs, AddPcs, RemovePcs
  <2>3. WalkInv'
    BY <1>0, <1>12, SMT DEF ListTypeOK, WalkInv, AddFirst, FirstPcs, AddPcs, RemovePcs
  <2> QED
    BY <2>1, <2>2, <2>3
<1>13. ASSUME AddFirstEnd(c) PROVE ListTypeOK' /\ WalkInv' /\ pc' \in [CPU -> Pcs]
  <2>1. ListTypeOK'
    BY <1>0, <1>13, SMT DEF ListTypeOK, WalkInv, AddFirstEnd, Return, ReleaseNext,
         FirstPcs, AddPcs, RemovePcs
  <2>2. pc' \in [CPU -> Pcs]
    BY <1>0, <1>13, SMT DEF AddFirstEnd, Return, ReleaseNext, Pcs, ListPcs, FirstPcs,
         AddPcs, RemovePcs
  <2>3. WalkInv'
    BY <1>0, <1>13, SMT DEF ListTypeOK, WalkInv, AddFirstEnd, Return, ReleaseNext,
         FirstPcs, AddPcs, RemovePcs
  <2> QED
    BY <2>1, <2>2, <2>3
<1>14. ASSUME AddLockCurr(c) PROVE ListTypeOK' /\ WalkInv' /\ pc' \in [CPU -> Pcs]
  <2>1. ListTypeOK'
    BY <1>0, <1>14, SMT DEF ListTypeOK, WalkInv, AddLockCurr, LockCurr, AcquireNext,
         FirstPcs, AddPcs, RemovePcs
  <2>2. pc' \in [CPU -> Pcs]
    BY <1>0, <1>14, SMT DEF AddLockCurr, LockCurr, AcquireNext, Pcs, ListPcs, FirstPcs,
         AddPcs, RemovePcs
  <2>3. WalkInv'
    BY <1>0, <1>14, SMT DEF ListTypeOK, WalkInv, AddLockCurr, LockCurr, AcquireNext,
         FirstPcs, AddPcs, RemovePcs
  <2> QED
    BY <2>1, <2>2, <2>3
<1>15. ASSUME AddValidate(c) PROVE ListTypeOK' /\ WalkInv' /\ pc' \in [CPU -> Pcs]
  <2>1. ListTypeOK'
    BY <1>0, <1>15, SMT DEF ListTypeOK, WalkInv, AddValidate, ReleaseNext, FirstPcs,
         AddPcs, RemovePcs
  <2>2. pc' \in [CPU -> Pcs]
    BY <1>0, <1>15, SMT DEF AddValidate, ReleaseNext, Pcs, ListPcs, FirstPcs, AddPcs,
         RemovePcs
  <2>3. WalkInv'
    BY <1>0, <1>15, SMT DEF ListTypeOK, WalkInv, AddValidate, ReleaseNext, FirstPcs,
         AddPcs, RemovePcs
  <2> QED
    BY <2>1, <2>2, <2>3
<1>16. ASSUME AddLink(c) PROVE ListTypeOK' /\ WalkInv' /\ pc' \in [CPU -> Pcs]
  <2>1. ListTypeOK'
    BY <1>0, <1>16, SMT DEF ListTypeOK, WalkInv, AddLink, FirstPcs, AddPcs, RemovePcs
  <2>2. pc' \in [CPU -> Pcs]
    BY <1>0, <1>16, SMT DEF AddLink, Pcs, ListPcs, FirstPcs, AddPcs, RemovePcs
  <2>3. WalkInv'
    BY <1>0, <1>16, SMT DEF ListTypeOK, WalkInv, AddLink, FirstPcs, AddPcs, RemovePcs
  <2> QED
    BY <2>1, <2>2, <2>3
<1>17. ASSUME AddLinkEnd(c) PROVE ListTypeOK' /\ WalkInv' /\ pc' \in [CPU -> Pcs]
  <2>1. ListTypeOK'
    BY <1>0, <1>17, SMT DEF ListTypeOK, WalkInv, AddLinkEnd, Return, ReleaseNext,
         FirstPcs, AddPcs, RemovePcs
  <2>2. pc' \in [CPU -> Pcs]
    BY <1>0, <1>17, SMT DEF AddLinkEnd, Return, ReleaseNext, Pcs, ListPcs, FirstPcs,
         AddPcs, RemovePcs
  <2>3. WalkInv'
    BY <1>0, <1>17, SMT DEF ListTypeOK, WalkInv, AddLinkEnd, Return, ReleaseNext,
         FirstPcs, AddPcs, RemovePcs
  <2> QED
    BY <2>1, <2>2, <2>3
<1>18. ASSUME RfStart(c) PROVE ListTypeOK' /\ WalkInv' /\ pc' \in [CPU -> Pcs]
  <2>1. ListTypeOK'
    BY <1>0, <1>18, SMT DEF ListTypeOK, WalkInv, RfStart, Step, FirstPcs, AddPcs,
         RemovePcs
  <2>2. pc' \in [CPU -> Pcs]
    BY <1>0, <1>18, SMT DEF RfStart, Step, Pcs, ListPcs, FirstPcs, AddPcs, RemovePcs
  <2>3. WalkInv'
    BY <1>0, <1>18, SMT DEF ListTypeOK, WalkInv, RfStart, Step, FirstPcs, AddPcs,
         RemovePcs
  <2> QED
    BY <2>1, <2>2, <2>3
<1>19. ASSUME RfEmpty(c) PROVE ListTypeOK' /\ WalkInv' /\ pc' \in [CPU -> Pcs]
  <2>1. ListTypeOK'
    BY <1>0, <1>19, SMT DEF ListTypeOK, WalkInv, RfEmpty, Return, FirstPcs, AddPcs,
         RemovePcs
  <2>2. pc' \in [CPU -> Pcs]
    BY <1>0, <1>19, SMT DEF RfEmpty, Return, Pcs, ListPcs, FirstPcs, AddPcs, RemovePcs
  <2>3. WalkInv'
    BY <1>0, <1>19, SMT DEF ListTypeOK, WalkInv, RfEmpty, Return, FirstPcs, AddPcs,
         RemovePcs
  <2> QED
    BY <2>1, <2>2, <2>3
<1>20. ASSUME RfTest(c) PROVE ListTypeOK' /\ WalkInv' /\ pc' \in [CPU -> Pcs]
  <2>1. ListTypeOK'
    BY <1>0, <1>20, SMT DEF ListTypeOK, WalkInv, RfTest, FirstPcs, AddPcs, RemovePcs
  <2>2. pc' \in [CPU -> Pcs]
    BY <1>0, <1>20, SMT DEF RfTest, Pcs, ListPcs, FirstPcs, AddPcs, RemovePcs
  <2>3. WalkInv'
    BY <1>0, <1>20, SMT DEF ListTypeOK, WalkInv, RfTest, FirstPcs, AddPcs, RemovePcs
  <2> QED
    BY <2>1, <2>2, <2>3
<1>21. ASSUME RfStep(c) PROVE ListTypeOK' /\ WalkInv' /\ pc' \in [CPU -> Pcs]
  <2>1. ListTypeOK'
    BY <1>0, <1>21, SMT DEF ListTypeOK, WalkInv, RfStep, Step, FirstPcs, AddPcs, RemovePcs
  <2>2. pc' \in [CPU -> Pcs]
    BY <1>0, <1>21, SMT DEF RfStep, Step, Pcs, ListPcs, FirstPcs, AddPcs, RemovePcs
  <2>3. WalkInv'
    BY <1>0, <1>21, SMT DEF ListTypeOK, WalkInv, RfStep, Step, FirstPcs, AddPcs, RemovePcs
  <2> QED
    BY <2>1, <2>2, <2>3
<1>22. ASSUME RfLockPred(c) PROVE ListTypeOK' /\ WalkInv' /\ pc' \in [CPU -> Pcs]
  <2>1. ListTypeOK'
    BY <1>0, <1>22, SMT DEF ListTypeOK, WalkInv, RfLockPred, LockPred, AcquireNext,
         FirstPcs, AddPcs, RemovePcs
  <2>2. pc' \in [CPU -> Pcs]
    BY <1>0, <1>22, SMT DEF RfLockPred, LockPred, AcquireNext, Pcs, ListPcs, FirstPcs,
         AddPcs, RemovePcs
  <2>3. WalkInv'
    BY <1>0, <1>22, SMT DEF ListTypeOK, WalkInv, RfLockPred, LockPred, AcquireNext,
         FirstPcs, AddPcs, RemovePcs
  <2> QED
    BY <2>1, <2>2, <2>3
<1>23. ASSUME RfLockCurr(c) PROVE ListTypeOK' /\ WalkInv' /\ pc' \in [CPU -> Pcs]
  <2>1. ListTypeOK'
    BY <1>0, <1>23, SMT DEF ListTypeOK, WalkInv, RfLockCurr, LockCurr, AcquireNext,
         FirstPcs, AddPcs, RemovePcs
  <2>2. pc' \in [CPU -> Pcs]
    BY <1>0, <1>23, SMT DEF RfLockCurr, LockCurr, AcquireNext, Pcs, ListPcs, FirstPcs,
         AddPcs, RemovePcs
  <2>3. WalkInv'
    BY <1>0, <1>23, SMT DEF ListTypeOK, WalkInv, RfLockCurr, LockCurr, AcquireNext,
         FirstPcs, AddPcs, RemovePcs
  <2> QED
    BY <2>1, <2>2, <2>3
<1>24. ASSUME RfValidate(c) PROVE ListTypeOK' /\ WalkInv' /\ pc' \in [CPU -> Pcs]
  <2>1. ListTypeOK'
    BY <1>0, <1>24, SMT DEF ListTypeOK, WalkInv, RfValidate, Validate, FirstPcs, AddPcs,
         RemovePcs
  <2>2. pc' \in [CPU -> Pcs]
    BY <1>0, <1>24, SMT DEF RfValidate, Validate, Pcs, ListPcs, FirstPcs, AddPcs,
         RemovePcs
  <2>3. WalkInv'
    BY <1>0, <1>24, SMT DEF ListTypeOK, WalkInv, RfValidate, Validate, FirstPcs, AddPcs,
         RemovePcs
  <2> QED
    BY <2>1, <2>2, <2>3
<1>25. ASSUME RfValidateNext(c) PROVE ListTypeOK' /\ WalkInv' /\ pc' \in [CPU -> Pcs]
  <2>1. ListTypeOK'
    BY <1>0, <1>25, SMT DEF ListTypeOK, WalkInv, RfValidateNext, ValidateNext, FirstPcs,
         AddPcs, RemovePcs
  <2>2. pc' \in [CPU -> Pcs]
    BY <1>0, <1>25, SMT DEF RfValidateNext, ValidateNext, Pcs, ListPcs, FirstPcs,
         AddPcs, RemovePcs
  <2>3. WalkInv'
    BY <1>0, <1>25, SMT DEF ListTypeOK, WalkInv, RfValidateNext, ValidateNext, FirstPcs,
         AddPcs, RemovePcs
  <2> QED
    BY <2>1, <2>2, <2>3
<1>26. ASSUME RfUnlink(c) PROVE ListTypeOK' /\ WalkInv' /\ pc' \in [CPU -> Pcs]
  <2>1. ListTypeOK'
    <3>1. count' \in [CPU -> Int]
      <4>1. \A d \in CPU : (IF d = cpuNum[c] THEN count[cpuNum[c]] - 1 ELSE count[d]) \in Int
        BY DEF ListTypeOK
      <4> QED
        BY <1>26, <4>1 DEF RfUnlink, ListTypeOK
    <3> QED
      BY <1>0, <1>26, <3>1, SMT DEF ListTypeOK, WalkInv, RfUnlink, Return, ReleaseNext,
           FirstPcs, AddPcs, RemovePcs
  <2>2. pc' \in [CPU -> Pcs]
    BY <1>0, <1>26, SMT DEF RfUnlink, Return, ReleaseNext, Pcs, ListPcs, FirstPcs,
         AddPcs, RemovePcs
  <2>3. WalkInv'
    BY <1>0, <1>26, SMT DEF ListTypeOK, WalkInv, RfUnlink, Return, ReleaseNext,
         FirstPcs, AddPcs, RemovePcs
  <2> QED
    BY <2>1, <2>2, <2>3
<1>27. ASSUME RfRelease(c) PROVE ListTypeOK' /\ WalkInv' /\ pc' \in [CPU -> Pcs]
  <2>1. ListTypeOK'
    BY <1>0, <1>27, SMT DEF ListTypeOK, WalkInv, RfRelease, ReleaseNext, FirstPcs,
         AddPcs, RemovePcs
  <2>2. pc' \in [CPU -> Pcs]
    BY <1>0, <1>27, SMT DEF RfRelease, ReleaseNext, Pcs, ListPcs, FirstPcs, AddPcs,
         RemovePcs
  <2>3. WalkInv'
    BY <1>0, <1>27, SMT DEF ListTypeOK, WalkInv, RfRelease, ReleaseNext, FirstPcs,
         AddPcs, RemovePcs
  <2> QED
    BY <2>1, <2>2, <2>3
<1> QED
  BY <1>1, <1>2, <1>3, <1>4, <1>5, <1>6, <1>7, <1>8, <1>9, <1>10, <1>11, <1>12, <1>13,
      <1>14, <1>15, <1>16, <1>17, <1>18, <1>19, <1>20, <1>21, <1>22, <1>23, <1>24,
      <1>25, <1>26, <1>27 DEF ListStep

\* The next CPU to steal from
LEMMA NextVictim == ASSUME NEW v \in CPU \cup {Nil}, v + 1 < NCPU - 1 PROVE v + 1 \in CPU
  BY ProcListsAssumption DEF CPU, Nil

\* The end of a call keeps the types of what it changes.
LEMMA EndCallType ==
  ASSUME TypeOK, NEW c \in CPU, NEW l \in {"sched", "run"}, EndCall(c, l), UNCHANGED listVars
  PROVE  /\ ListTypeOK'
         /\ pc' \in [CPU -> Pcs]
         /\ call' \in [CPU -> DOMAIN Moves \cup SchedulerCalls \cup {NoCall, "set_cpu"}]
         /\ target' \in [CPU -> Proc \cup {Nil}]
<1> USE Indices
<1>1. ListTypeOK'
  BY SMT DEF EndCall, Call, TypeOK, ListTypeOK
<1>2. pc' \in [CPU -> Pcs]
  BY SMT DEF EndCall, Call, TypeOK, Pcs
<1>3. /\ call' \in [CPU -> DOMAIN Moves \cup SchedulerCalls \cup {NoCall, "set_cpu"}]
      /\ target' \in [CPU -> Proc \cup {Nil}]
  BY SMT DEF EndCall, TypeOK
<1> QED
  BY <1>1, <1>2, <1>3

\* Who holds p->lock works on a process, and so does a call between its
\* acquires of p->lock.
LEMMA TargetType ==
  ASSUME TypeOK, CallInv, LockInv, NEW c \in CPU
  PROVE  /\ pc[c] \in {"lock", "fork", "yield", "removed", "moved"} => target[c] \in Proc
         /\ pc[c] = "added" => target[c] \in Proc
         /\ pc[c] = "run" => running[c] \in Proc
         /\ pc[c] \in {"yield", "fork", "removed", "moved"} => call[c] \in DOMAIN Moves \cup {"set_cpu"}
         /\ pc[c] = "added" /\ call[c] \notin SchedulerCalls => call[c] \in DOMAIN Moves \cup {"set_cpu"}
  BY Indices, MovesTable DEF TypeOK, CallInv, LockInv, Holding, SchedulerCalls, NoCall,
       RemovePcs, AddPcs


\* Every step keeps the types and the nodes of the walks.
LEMMA NextType == TypeOK /\ WalkInv /\ CallInv /\ LockInv /\ [Next]_vars => TypeOK' /\ WalkInv'
<1> SUFFICES ASSUME TypeOK /\ WalkInv /\ CallInv /\ LockInv, [Next]_vars PROVE TypeOK' /\ WalkInv'
  OBVIOUS
<1> USE Indices, MovesTable
<1> USE ProcListsAssumption, ListSchedulerAssumption
<1>1. CASE UNCHANGED vars
  BY <1>1 DEF vars, TypeOK, ListTypeOK, WalkInv
<1>2. ASSUME NEW c \in CPU, ListStep(c), UNCHANGED <<procVars, call, target, calls>>
      PROVE  TypeOK' /\ WalkInv'
  <2>1. ListTypeOK' /\ WalkInv' /\ pc' \in [CPU -> Pcs]
    BY <1>2, ListType DEF TypeOK
  <2> QED
    BY <1>2, <2>1 DEF TypeOK
<1>3. ASSUME NEW c \in CPU, SchedStart(c)
      PROVE  TypeOK' /\ WalkInv'
  <2>1. TypeOK'
    BY <1>3, SMT DEF SchedStart, CallRemoveFirst, Call, TypeOK, ListTypeOK, Pcs,
         ListPcs, SchedulerCalls, NoCall, RemovePcs, AddPcs, FirstPcs
  <2>2. WalkInv'
    BY <1>3, SMT DEF SchedStart, CallRemoveFirst, Call, TypeOK, ListTypeOK, WalkInv,
         RemovePcs, AddPcs, FirstPcs
  <2> QED
    BY <2>1, <2>2
<1>4. ASSUME NEW c \in CPU, SchedEmpty(c)
      PROVE  TypeOK' /\ WalkInv'
  <2>1. cpuNum[c] + 1 < NCPU - 1 => cpuNum[c] + 1 \in CPU
    BY NextVictim DEF TypeOK, ListTypeOK
  <2>2. \/ EndCall(c, "sched")
        \/ \E v \in CPU : /\ CallRemoveFirst(c, v)
                          /\ call' = [call EXCEPT ![c] = "steal"]
                          /\ UNCHANGED <<result, target>>
    BY <1>4, <2>1 DEF SchedEmpty
  <2>3. UNCHANGED <<listVars, procVars, calls>>
    BY <1>4 DEF SchedEmpty
  <2>4. CASE EndCall(c, "sched")
    <3>1. TypeOK'
      BY <2>3, <2>4, SMT DEF EndCall, Call, TypeOK, ListTypeOK, Pcs, ListPcs,
           SchedulerCalls, NoCall, RemovePcs, AddPcs, FirstPcs
    <3>2. WalkInv'
      BY <2>3, <2>4, SMT DEF EndCall, Call, TypeOK, ListTypeOK, WalkInv, RemovePcs,
           AddPcs, FirstPcs
    <3> QED
      BY <3>1, <3>2
  <2>5. ASSUME NEW v \in CPU, CallRemoveFirst(c, v), call' = [call EXCEPT ![c] = "steal"],
               UNCHANGED <<result, target>>
        PROVE  TypeOK' /\ WalkInv'
    <3>1. TypeOK'
      BY <2>3, <2>5, SMT DEF CallRemoveFirst, Call, TypeOK, ListTypeOK, Pcs, ListPcs,
           SchedulerCalls, NoCall, RemovePcs, AddPcs, FirstPcs
    <3>2. WalkInv'
      BY <2>3, <2>5, SMT DEF CallRemoveFirst, Call, TypeOK, ListTypeOK, WalkInv,
           RemovePcs, AddPcs, FirstPcs
    <3> QED
      BY <3>1, <3>2
  <2> QED
    BY <2>2, <2>4, <2>5
<1>5. ASSUME NEW c \in CPU, SchedLock(c)
      PROVE  TypeOK' /\ WalkInv'
  <2>1. result[c] \in Proc
    BY <1>5 DEF SchedLock, WalkInv
  <2>8. TypeOK'
    BY <1>5, <2>1, SMT DEF SchedLock, AcquireProc, TypeOK, ListTypeOK, Pcs, ListPcs,
         SchedulerCalls, NoCall, RemovePcs, AddPcs, FirstPcs
  <2>9. WalkInv'
    BY <1>5, <2>1, SMT DEF SchedLock, AcquireProc, TypeOK, ListTypeOK, WalkInv,
         RemovePcs, AddPcs, FirstPcs
  <2> QED
    BY <2>8, <2>9
<1>6. ASSUME NEW c \in CPU, SchedCheck(c)
      PROVE  TypeOK' /\ WalkInv'
  <2>1. target[c] \in Proc
    BY <1>6, TargetType DEF SchedCheck
  <2>2. CASE state[target[c]] = "RUNNABLE"
    <3>1. TypeOK'
      BY <1>6, <2>1, <2>2, SMT DEF SchedCheck, CallAdd, Call, TypeOK, ListTypeOK, Pcs,
           ListPcs, SchedulerCalls, NoCall, RemovePcs, AddPcs, FirstPcs
    <3>2. WalkInv'
      BY <1>6, <2>1, <2>2, SMT DEF SchedCheck, CallAdd, Call, TypeOK, ListTypeOK,
           WalkInv, RemovePcs, AddPcs, FirstPcs
    <3> QED
      BY <3>1, <3>2
  <2>3. CASE state[target[c]] # "RUNNABLE"
    <3>0. EndCall(c, "sched") /\ UNCHANGED <<listVars, state, lock, cpuOf, running, wait_lock, calls>>
      BY <1>6, <2>3 DEF SchedCheck
    <3>1. TypeOK'
      BY <3>0, EndCallType DEF TypeOK
    <3>2. WalkInv'
      BY <1>6, <2>1, <2>3, SMT DEF SchedCheck, EndCall, Call, TypeOK, ListTypeOK,
           WalkInv, RemovePcs, AddPcs, FirstPcs
    <3> QED
      BY <3>1, <3>2
  <2> QED
    BY <2>2, <2>3
<1>7. ASSUME NEW c \in CPU, SchedRun(c)
      PROVE  TypeOK' /\ WalkInv'
  <2>1. TypeOK'
    BY <1>7, TargetType, SMT DEF SchedRun, EndCall, Call, TypeOK, ListTypeOK, Pcs,
         ListPcs, SchedulerCalls, NoCall, RemovePcs, AddPcs, FirstPcs
  <2>2. WalkInv'
    BY <1>7, TargetType, SMT DEF SchedRun, EndCall, Call, TypeOK, ListTypeOK, WalkInv,
         RemovePcs, AddPcs, FirstPcs
  <2> QED
    BY <2>1, <2>2
<1>8. ASSUME NEW c \in CPU, NEW k \in DOMAIN Moves, NEW p \in Proc, CallStart(c, k, p), calls < MaxCalls, calls' = calls + 1
      PROVE  TypeOK' /\ WalkInv'
  <2>1. Moves[k].from \in ListIndex
    OBVIOUS
  <2>6. PICK cpu \in CPU \cup {Nil} : cpuOf' = [cpuOf EXCEPT ![p] = cpu]
    <3>1. cpuOf[p] \in CPU \cup {Nil}
      BY DEF TypeOK
    <3>2. WakeupCpus(p) \subseteq CPU \cup {Nil}
      BY <3>1, MinCpuType DEF WakeupCpus
    <3>3. PICK cpu \in IF k = "wakeup" THEN WakeupCpus(p) ELSE {cpuOf[p]} : cpuOf' = [cpuOf EXCEPT ![p] = cpu]
      BY <1>8 DEF CallStart
    <3> QED
      BY <3>1, <3>2, <3>3
  <2>2. ListTypeOK' /\ pc' \in [CPU -> Pcs] /\ lock' \in [Proc -> CPU \cup {NoCpu}]
    <3>1. UNCHANGED <<listVars, result>>
      BY <1>8 DEF CallStart
    <3>2. CASE lock' = [lock EXCEPT ![p] = c] /\ CallRemove(c, p, Moves[k].from)
      BY <2>1, <3>1, <3>2, SMT DEF CallRemove, Call, TypeOK, ListTypeOK, Pcs, ListPcs,
           SchedulerCalls, NoCall, RemovePcs, AddPcs, FirstPcs
    <3>3. CASE Goto(c, "panic") /\ UNCHANGED <<lock, argVars, walkVars>>
      BY <3>1, <3>3, SMT DEF TypeOK, ListTypeOK, Pcs, ListPcs, SchedulerCalls, NoCall,
           RemovePcs, AddPcs, FirstPcs
    <3> QED
      BY <1>8, <3>2, <3>3 DEF CallStart
  <2>3. /\ cpuOf' \in [Proc -> CPU \cup {Nil}]
        /\ wait_lock' \in CPU \cup {NoCpu}
        /\ call' \in [CPU -> DOMAIN Moves \cup SchedulerCalls \cup {NoCall, "set_cpu"}]
        /\ target' \in [CPU -> Proc \cup {Nil}]
    BY <1>8, <2>6, SMT DEF CallStart, TypeOK
  <2>4. TypeOK'
    BY <1>8, <2>2, <2>3, SMT DEF CallStart, TypeOK
  <2>5. WalkInv'
    BY <1>8, <2>1, SMT DEF CallStart, CallRemove, Call, TypeOK, ListTypeOK, WalkInv,
         RemovePcs, AddPcs, FirstPcs
  <2> QED
    BY <2>4, <2>5
<1>9. ASSUME NEW c \in CPU, NEW p \in Proc, Alloc(c, p), calls < MaxCalls, calls' = calls + 1
      PROVE  TypeOK' /\ WalkInv'
  <2>1. TypeOK'
    BY <1>9, SMT DEF Alloc, CallRemove, Call, TypeOK, ListTypeOK, Pcs, ListPcs,
         SchedulerCalls, NoCall, RemovePcs, AddPcs, FirstPcs
  <2>2. WalkInv'
    BY <1>9, SMT DEF Alloc, CallRemove, Call, TypeOK, ListTypeOK, WalkInv, RemovePcs,
         AddPcs, FirstPcs
  <2> QED
    BY <2>1, <2>2
<1>10. ASSUME NEW c \in CPU, NEW cpu \in CPU, SetCpu(c, cpu), calls < MaxCalls, calls' = calls + 1
      PROVE  TypeOK' /\ WalkInv'
  <2>1. TypeOK'
    BY <1>10, SMT DEF SetCpu, Call, TypeOK, ListTypeOK, Pcs, ListPcs, SchedulerCalls,
         NoCall, RemovePcs, AddPcs, FirstPcs
  <2>2. WalkInv'
    BY <1>10, SMT DEF SetCpu, Call, TypeOK, ListTypeOK, WalkInv, RemovePcs, AddPcs,
         FirstPcs
  <2> QED
    BY <2>1, <2>2
<1>11. ASSUME NEW c \in CPU, Fork(c)
      PROVE  TypeOK' /\ WalkInv'
  <2>3. PICK cpu \in CPU \cup {Nil} : Call(c, target[c], Unused, cpu, "rm_start")
    BY <1>11, MinCpuType DEF Fork
  <2>1. TypeOK'
    BY <1>11, <2>3, TargetType, SMT DEF Fork, Call, TypeOK, ListTypeOK, Pcs,
         ListPcs, SchedulerCalls, NoCall, RemovePcs, AddPcs, FirstPcs
  <2>2. WalkInv'
    BY <1>11, <2>3, TargetType, SMT DEF Fork, Call, TypeOK, ListTypeOK, WalkInv,
         RemovePcs, AddPcs, FirstPcs
  <2> QED
    BY <2>1, <2>2
<1>12. ASSUME NEW c \in CPU, SetCpuYield(c)
      PROVE  TypeOK' /\ WalkInv'
  <2>1. TypeOK'
    BY <1>12, TargetType, SMT DEF SetCpuYield, CallRemove, Call, TypeOK, ListTypeOK,
         Pcs, ListPcs, SchedulerCalls, NoCall, RemovePcs, AddPcs, FirstPcs
  <2>2. WalkInv'
    BY <1>12, TargetType, SMT DEF SetCpuYield, CallRemove, Call, TypeOK, ListTypeOK,
         WalkInv, RemovePcs, AddPcs, FirstPcs
  <2> QED
    BY <2>1, <2>2
<1>13. ASSUME NEW c \in CPU, CallAddIt(c)
      PROVE  TypeOK' /\ WalkInv'
  <2>1. target[c] \in Proc /\ call[c] \in DOMAIN Moves \cup {"set_cpu"}
    BY <1>13, TargetType DEF CallAddIt
  <2>2. CpuFor(c) \in CPU \cup {Nil}
    BY <2>1 DEF CpuFor, TypeOK, ListTypeOK
  <2>3. ToList(c) \in ListIndex
    BY <2>1 DEF ToList
  <2>4. CASE result[c] = 1
    <3>1. TypeOK'
      <4>1. CASE CpuFor(c) = Nil
        BY <1>13, <2>4, <4>1, SMT DEF CallAddIt, TypeOK, ListTypeOK, Pcs, ListPcs
      <4>2. CASE CpuFor(c) # Nil
        <5>1. CallAdd(c, target[c], ToList(c), CpuFor(c)) /\ UNCHANGED <<listVars, procVars, calls, result, call, target>>
          BY <1>13, <2>4, <4>2 DEF CallAddIt
        <5>2. ListTypeOK'
          BY <2>1, <2>2, <2>3, <5>1, SMT DEF CallAdd, Call, TypeOK, ListTypeOK
        <5>3. pc' \in [CPU -> Pcs]
          BY <5>1, SMT DEF CallAdd, Call, TypeOK, Pcs, ListPcs, AddPcs
        <5> QED
          BY <5>1, <5>2, <5>3 DEF TypeOK
      <4> QED
        BY <4>1, <4>2
    <3>2. WalkInv'
      BY <1>13, <2>1, <2>2, <2>3, <2>4, SMT DEF CallAddIt, CallAdd, Call, TypeOK,
           ListTypeOK, WalkInv, RemovePcs, AddPcs, FirstPcs
    <3> QED
      BY <3>1, <3>2
  <2>5. CASE result[c] # 1
    <3>1. TypeOK'
      <4>1. CASE call[c] = "set_cpu"
        <5>1. EndCall(c, "run") /\ UNCHANGED <<listVars, procVars, calls>>
          BY <1>13, <2>5, <4>1 DEF CallAddIt
        <5> QED
          BY <5>1, EndCallType DEF TypeOK
      <4>2. CASE call[c] # "set_cpu"
        BY <1>13, <2>1, <2>5, <4>2, SMT DEF CallAddIt, TypeOK, ListTypeOK, Pcs, ListPcs,
             SchedulerCalls, NoCall, RemovePcs, AddPcs, FirstPcs
      <4> QED
        BY <4>1, <4>2
    <3>2. WalkInv'
      BY <1>13, <2>1, <2>5, SMT DEF CallAddIt, EndCall, Call, TypeOK, ListTypeOK,
           WalkInv, RemovePcs, AddPcs, FirstPcs
    <3> QED
      BY <3>1, <3>2
  <2> QED
    BY <2>4, <2>5
<1>14. ASSUME NEW c \in CPU, CallCount(c)
      PROVE  TypeOK' /\ WalkInv'
  <2>1. TypeOK'
    BY <1>14, SMT DEF CallCount, TypeOK, ListTypeOK, Pcs, ListPcs, SchedulerCalls,
         NoCall, RemovePcs, AddPcs, FirstPcs
  <2>2. WalkInv'
    BY <1>14, SMT DEF CallCount, TypeOK, ListTypeOK, WalkInv, RemovePcs, AddPcs, FirstPcs
  <2> QED
    BY <2>1, <2>2
<1>15. ASSUME NEW c \in CPU, CallDone(c)
      PROVE  TypeOK' /\ WalkInv'
  <2>1. target[c] \in Proc /\ call[c] \in DOMAIN Moves
    BY <1>15, TargetType DEF CallDone, CallInv
  <2>8. TypeOK'
    BY <1>15, <2>1, SMT DEF CallDone, EndCall, Call, TypeOK, ListTypeOK, Pcs, ListPcs,
         SchedulerCalls, NoCall, RemovePcs, AddPcs, FirstPcs
  <2>9. WalkInv'
    BY <1>15, <2>1, SMT DEF CallDone, EndCall, Call, TypeOK, ListTypeOK, WalkInv,
         RemovePcs, AddPcs, FirstPcs
  <2> QED
    BY <2>8, <2>9
<1>16. ASSUME NEW c \in CPU, NEW p \in Proc, Interrupt(c, p), calls < MaxCalls, calls' = calls + 1
      PROVE  TypeOK' /\ WalkInv'
  <2>1. ListTypeOK' /\ WalkInv'
    BY <1>16, InterruptFacts, SMT DEF TypeOK, ListTypeOK, WalkInv, RemovePcs, AddPcs, FirstPcs
  <2>2. pc' \in [CPU -> Pcs] /\ state' \in [Proc -> DOMAIN ListOf]
    BY <1>16, InterruptFacts, SMT DEF TypeOK, Pcs, ListPcs
  <2> QED
    BY <1>16, <2>1, <2>2, InterruptFacts DEF TypeOK
<1> QED
  BY <1>1, <1>2, <1>3, <1>4, <1>5, <1>6, <1>7, <1>8, <1>9, <1>10, <1>11, <1>12, <1>13,
      <1>14, <1>15, <1>16 DEF Next, Begin

-----------------------------------------------------------------------------
(* Calls and locks *)

\* A list operation stays what it is until it returns, panics or uses
\* proc[-1], and moves no other CPU.
LEMMA ListFlow ==
  ASSUME pc \in [CPU -> Pcs], NEW c \in CPU, ListStep(c)
  PROVE  /\ pc' = [pc EXCEPT ![c] = pc'[c]]
         /\ pc[c] \in RemovePcs \cup AddPcs \cup FirstPcs
         /\ pc[c] \in RemovePcs => pc'[c] \in RemovePcs \cup {"removed", "panic", "ub"}
         /\ pc[c] \in AddPcs => pc'[c] \in AddPcs \cup {"added", "panic", "ub"}
         /\ pc[c] \in FirstPcs => pc'[c] \in FirstPcs \cup {"took_first", "panic", "ub"}
<1> DEFINE P == /\ pc' = [pc EXCEPT ![c] = pc'[c]]
                /\ pc[c] \in RemovePcs \cup AddPcs \cup FirstPcs
                /\ pc[c] \in RemovePcs => pc'[c] \in RemovePcs \cup {"removed", "panic", "ub"}
                /\ pc[c] \in AddPcs => pc'[c] \in AddPcs \cup {"added", "panic", "ub"}
                /\ pc[c] \in FirstPcs => pc'[c] \in FirstPcs \cup {"took_first", "panic", "ub"}
<1>1. ASSUME RmStart(c) \/ RmTest(c) \/ RmMatch(c) PROVE P
  BY <1>1, SMT DEF RmStart, Step, RmTest, RmMatch, RemovePcs, AddPcs, FirstPcs
<1>2. ASSUME RmStep(c) \/ RmLockPred(c) \/ RmLockCurr(c) PROVE P
  BY <1>2, SMT DEF RmStep, Step, RmLockPred, LockPred, AcquireNext, RmLockCurr,
       LockCurr, RemovePcs, AddPcs, FirstPcs
<1>3. ASSUME RmValidate(c) \/ RmValidateNext(c) \/ RmUnlink(c) PROVE P
  BY <1>3, SMT DEF RmValidate, Validate, RmValidateNext, ValidateNext, RmUnlink, Return,
       ReleaseNext, RemovePcs, AddPcs, FirstPcs
<1>4. ASSUME AddLockHead(c) \/ AddTest(c) \/ AddFirst(c) PROVE P
  BY <1>4, SMT DEF AddLockHead, AcquireNext, AddTest, AddFirst, RemovePcs, AddPcs,
       FirstPcs
<1>5. ASSUME AddFirstEnd(c) \/ AddLockCurr(c) \/ AddValidate(c) PROVE P
  BY <1>5, SMT DEF AddFirstEnd, Return, ReleaseNext, AddLockCurr, LockCurr, AcquireNext,
       AddValidate, RemovePcs, AddPcs, FirstPcs
<1>6. ASSUME AddLink(c) \/ AddLinkEnd(c) \/ RfStart(c) PROVE P
  BY <1>6, SMT DEF AddLink, AddLinkEnd, Return, ReleaseNext, RfStart, Step, RemovePcs,
       AddPcs, FirstPcs
<1>7. ASSUME RfEmpty(c) \/ RfTest(c) \/ RfStep(c) PROVE P
  BY <1>7, SMT DEF RfEmpty, Return, RfTest, RfStep, Step, RemovePcs, AddPcs, FirstPcs
<1>8. ASSUME RfLockPred(c) \/ RfLockCurr(c) \/ RfValidate(c) PROVE P
  BY <1>8, SMT DEF RfLockPred, LockPred, AcquireNext, RfLockCurr, LockCurr, RfValidate,
       Validate, RemovePcs, AddPcs, FirstPcs
<1>9. ASSUME RfValidateNext(c) \/ RfUnlink(c) \/ RfRelease(c) PROVE P
  BY <1>9, SMT DEF RfValidateNext, ValidateNext, RfUnlink, Return, ReleaseNext,
       RfRelease, RemovePcs, AddPcs, FirstPcs
<1> QED
  BY <1>1, <1>2, <1>3, <1>4, <1>5, <1>6, <1>7, <1>8, <1>9 DEF ListStep

\* A call is where it may be, and about whom it began with.
LEMMA NextCall == Inv /\ [Next]_vars => CallInv'
<1> SUFFICES ASSUME Inv, [Next]_vars PROVE CallInv'
  OBVIOUS
<1> USE Indices, MovesTable
<1>1. CASE UNCHANGED vars
  BY <1>1 DEF vars, Inv, TypeOK, CallInv, SchedulerCalls, NoCall, RemovePcs, AddPcs,
       FirstPcs
<1>2. ASSUME NEW c \in CPU, ListStep(c), UNCHANGED <<procVars, call, target, calls>>
      PROVE  CallInv'
  <2>1. pc \in [CPU -> Pcs]
    BY DEF Inv, TypeOK
  <2>2. UNCHANGED <<state, lock, running, call, target>>
    BY <1>2
  <2> HIDE DEF ListStep
  <2> QED
    BY <1>2, <2>1, <2>2, ListFlow, SMT DEF Inv, TypeOK, CallInv, SchedulerCalls, NoCall,
         RemovePcs, AddPcs, FirstPcs
<1>3. ASSUME NEW c \in CPU, SchedStart(c)
      PROVE  CallInv'
  BY <1>3, SMT DEF SchedStart, CallRemoveFirst, Call, Inv, TypeOK, CallInv,
       SchedulerCalls, NoCall, RemovePcs, AddPcs, FirstPcs
<1>4. ASSUME NEW c \in CPU, SchedEmpty(c)
      PROVE  CallInv'
  BY <1>4, SMT DEF SchedEmpty, CallRemoveFirst, EndCall, Call, Inv, TypeOK, CallInv,
       SchedulerCalls, NoCall, RemovePcs, AddPcs, FirstPcs
<1>5. ASSUME NEW c \in CPU, SchedLock(c)
      PROVE  CallInv'
  BY <1>5, SMT DEF SchedLock, AcquireProc, Inv, TypeOK, CallInv, SchedulerCalls, NoCall,
       RemovePcs, AddPcs, FirstPcs
<1>6. ASSUME NEW c \in CPU, SchedCheck(c)
      PROVE  CallInv'
  BY <1>6, SMT DEF SchedCheck, CallAdd, EndCall, Call, Inv, TypeOK, CallInv,
       SchedulerCalls, NoCall, RemovePcs, AddPcs, FirstPcs
<1>7. ASSUME NEW c \in CPU, SchedRun(c)
      PROVE  CallInv'
  BY <1>7, SMT DEF SchedRun, EndCall, Call, LockInv, Holding, Inv, TypeOK, CallInv,
       SchedulerCalls, NoCall, RemovePcs, AddPcs, FirstPcs
<1>8. ASSUME NEW c \in CPU, NEW k \in DOMAIN Moves, NEW p \in Proc, CallStart(c, k, p)
      PROVE  CallInv'
  BY <1>8, SMT DEF CallStart, MayCall, CallRemove, Call, Inv, TypeOK, CallInv,
       SchedulerCalls, NoCall, RemovePcs, AddPcs, FirstPcs
<1>9. ASSUME NEW c \in CPU, NEW p \in Proc, Alloc(c, p)
      PROVE  CallInv'
  BY <1>9, SMT DEF Alloc, CallRemove, Call, Inv, TypeOK, CallInv, SchedulerCalls,
       NoCall, RemovePcs, AddPcs, FirstPcs
<1>10. ASSUME NEW c \in CPU, NEW cpu \in CPU, SetCpu(c, cpu)
      PROVE  CallInv'
  BY <1>10, SMT DEF SetCpu, Call, Inv, TypeOK, CallInv, SchedulerCalls, NoCall,
       RemovePcs, AddPcs, FirstPcs
<1>11. ASSUME NEW c \in CPU, Fork(c)
      PROVE  CallInv'
  BY <1>11, SMT DEF Fork, Call, Inv, TypeOK, CallInv, SchedulerCalls,
       NoCall, RemovePcs, AddPcs, FirstPcs
<1>12. ASSUME NEW c \in CPU, SetCpuYield(c)
      PROVE  CallInv'
  BY <1>12, SMT DEF SetCpuYield, CallRemove, Call, Inv, TypeOK, CallInv, SchedulerCalls,
       NoCall, RemovePcs, AddPcs, FirstPcs
<1>13. ASSUME NEW c \in CPU, CallAddIt(c)
      PROVE  CallInv'
  BY <1>13, SMT DEF CallAddIt, CallAdd, EndCall, Call, Inv, TypeOK, CallInv,
       SchedulerCalls, NoCall, RemovePcs, AddPcs, FirstPcs
<1>14. ASSUME NEW c \in CPU, CallCount(c)
      PROVE  CallInv'
  BY <1>14, SMT DEF CallCount, Inv, TypeOK, CallInv, SchedulerCalls, NoCall, RemovePcs,
       AddPcs, FirstPcs
<1>15. ASSUME NEW c \in CPU, CallDone(c)
      PROVE  CallInv'
  BY <1>15, SMT DEF CallDone, EndCall, Call, Inv, TypeOK, CallInv, SchedulerCalls,
       NoCall, RemovePcs, AddPcs, FirstPcs
<1>16. ASSUME NEW c \in CPU, NEW p \in Proc, Interrupt(c, p)
      PROVE  CallInv'
  <2>1. TypeOK
    BY DEF Inv
  <2> QED
    BY <1>16, <2>1, InterruptFacts, SMT DEF Inv, TypeOK, CallInv, SchedulerCalls, NoCall,
         RemovePcs, AddPcs, FirstPcs
<1> QED
  BY <1>1, <1>2, <1>3, <1>4, <1>5, <1>6, <1>7, <1>8, <1>9, <1>10, <1>11, <1>12, <1>13,
      <1>14, <1>15, <1>16 DEF Next, Begin

\* The lock p->lock protects the state a call has found.
LEMMA NextLock == Inv /\ [Next]_vars => LockInv'
<1> SUFFICES ASSUME Inv, [Next]_vars PROVE LockInv'
  OBVIOUS
<1> USE Indices, MovesTable
<1>1. CASE UNCHANGED vars
  BY <1>1 DEF vars, Inv, TypeOK, CallInv, SchedulerCalls, NoCall, RemovePcs, AddPcs,
       FirstPcs, LockInv, Holding, Forks, Found
<1>2. ASSUME NEW c \in CPU, ListStep(c), UNCHANGED <<procVars, call, target, calls>>
      PROVE  LockInv'
  <2>1. pc \in [CPU -> Pcs]
    BY DEF Inv, TypeOK
  <2>2. UNCHANGED <<state, lock, running, call, target>>
    BY <1>2
  <2> HIDE DEF ListStep
  <2> QED
    BY <1>2, <2>1, <2>2, ListFlow, SMT DEF Inv, TypeOK, CallInv, SchedulerCalls, NoCall,
         RemovePcs, AddPcs, FirstPcs, LockInv, Holding, Forks, Found
<1>3. ASSUME NEW c \in CPU, SchedStart(c)
      PROVE  LockInv'
  BY <1>3, SMT DEF SchedStart, CallRemoveFirst, Call, Inv, TypeOK, CallInv,
       SchedulerCalls, NoCall, RemovePcs, AddPcs, FirstPcs, LockInv, Holding, Forks,
       Found
<1>4. ASSUME NEW c \in CPU, SchedEmpty(c)
      PROVE  LockInv'
  BY <1>4, SMT DEF SchedEmpty, CallRemoveFirst, EndCall, Call, Inv, TypeOK, CallInv,
       SchedulerCalls, NoCall, RemovePcs, AddPcs, FirstPcs, LockInv, Holding, Forks,
       Found
<1>5. ASSUME NEW c \in CPU, SchedLock(c)
      PROVE  LockInv'
  <2> SUFFICES ASSUME NEW e \in CPU
        PROVE  /\ Holding(e)' => target[e]' # Nil /\ lock[target[e]]' = e
               /\ Holding(e)' /\ pc[e]' # "lock" => state[target[e]]' = Found(e)'
               /\ Forks(e)' => state[target[e]]' = "USED"
               /\ \A d \in CPU : e # d /\ Forks(e)' /\ Forks(d)' => target[e]' # target[d]'
    BY DEF LockInv
  <2>1. Holding(e)' => target[e]' # Nil /\ lock[target[e]]' = e
    <3>1. CASE e = c
      BY <1>5, <3>1, SMT DEF SchedLock, AcquireProc, LockInv, Inv, TypeOK, CallInv,
           SchedulerCalls, NoCall, RemovePcs, AddPcs, FirstPcs, Holding, WalkInv
    <3>2. CASE e # c
      BY <1>5, <3>2, SMT DEF SchedLock, AcquireProc, LockInv, Inv, TypeOK, CallInv,
           SchedulerCalls, NoCall, RemovePcs, AddPcs, FirstPcs, Holding, WalkInv
    <3> QED
      BY <3>1, <3>2
  <2>2. Holding(e)' /\ pc[e]' # "lock" => state[target[e]]' = Found(e)'
    <3>1. CASE e = c
      BY <1>5, <3>1, SMT DEF SchedLock, AcquireProc, LockInv, Inv, TypeOK, CallInv,
           SchedulerCalls, NoCall, RemovePcs, AddPcs, FirstPcs, Holding, Found, Forks,
           RunInv
    <3>2. CASE e # c
      BY <1>5, <3>2, SMT DEF SchedLock, AcquireProc, LockInv, Inv, TypeOK, CallInv,
           SchedulerCalls, NoCall, RemovePcs, AddPcs, FirstPcs, Holding, Found, Forks,
           RunInv
    <3> QED
      BY <3>1, <3>2
  <2>3. Forks(e)' => state[target[e]]' = "USED"
    <3>1. CASE e = c
      BY <1>5, <3>1, SMT DEF SchedLock, AcquireProc, LockInv, Inv, TypeOK, CallInv,
           SchedulerCalls, NoCall, RemovePcs, AddPcs, FirstPcs, Forks, Holding, Found
    <3>2. CASE e # c
      BY <1>5, <3>2, SMT DEF SchedLock, AcquireProc, LockInv, Inv, TypeOK, CallInv,
           SchedulerCalls, NoCall, RemovePcs, AddPcs, FirstPcs, Forks, Holding, Found
    <3> QED
      BY <3>1, <3>2
  <2>4. \A d \in CPU : e # d /\ Forks(e)' /\ Forks(d)' => target[e]' # target[d]'
    <3>1. CASE e = c
      BY <1>5, <3>1, SMT DEF SchedLock, AcquireProc, LockInv, Inv, TypeOK, CallInv,
           SchedulerCalls, NoCall, RemovePcs, AddPcs, FirstPcs, Forks, Holding, Found
    <3>2. CASE e # c
      BY <1>5, <3>2, SMT DEF SchedLock, AcquireProc, LockInv, Inv, TypeOK, CallInv,
           SchedulerCalls, NoCall, RemovePcs, AddPcs, FirstPcs, Forks, Holding, Found
    <3> QED
      BY <3>1, <3>2
  <2> QED
    BY <2>1, <2>2, <2>3, <2>4
<1>6. ASSUME NEW c \in CPU, SchedCheck(c)
      PROVE  LockInv'
  BY <1>6, SMT DEF SchedCheck, CallAdd, EndCall, Call, Inv, TypeOK, CallInv,
       SchedulerCalls, NoCall, RemovePcs, AddPcs, FirstPcs, LockInv, Holding, Forks,
       Found
<1>7. ASSUME NEW c \in CPU, SchedRun(c)
      PROVE  LockInv'
  BY <1>7, SMT DEF SchedRun, EndCall, Call, Inv, TypeOK, CallInv, SchedulerCalls,
       NoCall, RemovePcs, AddPcs, FirstPcs, LockInv, Holding, Forks, Found
<1>8. ASSUME NEW c \in CPU, NEW k \in DOMAIN Moves, NEW p \in Proc, CallStart(c, k, p)
      PROVE  LockInv'
  <2> SUFFICES ASSUME NEW e \in CPU
        PROVE  /\ Holding(e)' => target[e]' # Nil /\ lock[target[e]]' = e
               /\ Holding(e)' /\ pc[e]' # "lock" => state[target[e]]' = Found(e)'
               /\ Forks(e)' => state[target[e]]' = "USED"
               /\ \A d \in CPU : e # d /\ Forks(e)' /\ Forks(d)' => target[e]' # target[d]'
    BY DEF LockInv
  <2>1. Holding(e)' => target[e]' # Nil /\ lock[target[e]]' = e
    <3>1. CASE e = c
      BY <1>8, <3>1, SMT DEF CallStart, MayCall, CallRemove, Call, LockInv, Inv, TypeOK,
           CallInv, SchedulerCalls, NoCall, RemovePcs, AddPcs, FirstPcs, Holding,
           WalkInv
    <3>2. CASE e # c
      BY <1>8, <3>2, SMT DEF CallStart, MayCall, CallRemove, Call, LockInv, Inv, TypeOK,
           CallInv, SchedulerCalls, NoCall, RemovePcs, AddPcs, FirstPcs, Holding,
           WalkInv
    <3> QED
      BY <3>1, <3>2
  <2>2. Holding(e)' /\ pc[e]' # "lock" => state[target[e]]' = Found(e)'
    <3>1. CASE e = c
      BY <1>8, <3>1, SMT DEF CallStart, MayCall, CallRemove, Call, LockInv, Inv, TypeOK,
           CallInv, SchedulerCalls, NoCall, RemovePcs, AddPcs, FirstPcs, Holding, Found,
           Forks, RunInv
    <3>2. CASE e # c
      BY <1>8, <3>2, SMT DEF CallStart, MayCall, CallRemove, Call, LockInv, Inv, TypeOK,
           CallInv, SchedulerCalls, NoCall, RemovePcs, AddPcs, FirstPcs, Holding, Found,
           Forks, RunInv
    <3> QED
      BY <3>1, <3>2
  <2>3. Forks(e)' => state[target[e]]' = "USED"
    <3>1. CASE e = c
      BY <1>8, <3>1, SMT DEF CallStart, MayCall, CallRemove, Call, LockInv, Inv, TypeOK,
           CallInv, SchedulerCalls, NoCall, RemovePcs, AddPcs, FirstPcs, Forks, Holding,
           Found
    <3>2. CASE e # c
      BY <1>8, <3>2, SMT DEF CallStart, MayCall, CallRemove, Call, LockInv, Inv, TypeOK,
           CallInv, SchedulerCalls, NoCall, RemovePcs, AddPcs, FirstPcs, Forks, Holding,
           Found
    <3> QED
      BY <3>1, <3>2
  <2>4. \A d \in CPU : e # d /\ Forks(e)' /\ Forks(d)' => target[e]' # target[d]'
    <3>1. CASE e = c
      BY <1>8, <3>1, SMT DEF CallStart, MayCall, CallRemove, Call, LockInv, Inv, TypeOK,
           CallInv, SchedulerCalls, NoCall, RemovePcs, AddPcs, FirstPcs, Forks, Holding,
           Found
    <3>2. CASE e # c
      BY <1>8, <3>2, SMT DEF CallStart, MayCall, CallRemove, Call, LockInv, Inv, TypeOK,
           CallInv, SchedulerCalls, NoCall, RemovePcs, AddPcs, FirstPcs, Forks, Holding,
           Found
    <3> QED
      BY <3>1, <3>2
  <2> QED
    BY <2>1, <2>2, <2>3, <2>4
<1>9. ASSUME NEW c \in CPU, NEW p \in Proc, Alloc(c, p)
      PROVE  LockInv'
  <2> SUFFICES ASSUME NEW e \in CPU
        PROVE  /\ Holding(e)' => target[e]' # Nil /\ lock[target[e]]' = e
               /\ Holding(e)' /\ pc[e]' # "lock" => state[target[e]]' = Found(e)'
               /\ Forks(e)' => state[target[e]]' = "USED"
               /\ \A d \in CPU : e # d /\ Forks(e)' /\ Forks(d)' => target[e]' # target[d]'
    BY DEF LockInv
  <2>1. Holding(e)' => target[e]' # Nil /\ lock[target[e]]' = e
    <3>1. CASE e = c
      BY <1>9, <3>1, SMT DEF Alloc, CallRemove, Call, LockInv, Inv, TypeOK, CallInv,
           SchedulerCalls, NoCall, RemovePcs, AddPcs, FirstPcs, Holding, WalkInv
    <3>2. CASE e # c
      BY <1>9, <3>2, SMT DEF Alloc, CallRemove, Call, LockInv, Inv, TypeOK, CallInv,
           SchedulerCalls, NoCall, RemovePcs, AddPcs, FirstPcs, Holding, WalkInv
    <3> QED
      BY <3>1, <3>2
  <2>2. Holding(e)' /\ pc[e]' # "lock" => state[target[e]]' = Found(e)'
    <3>1. CASE e = c
      BY <1>9, <3>1, SMT DEF Alloc, CallRemove, Call, LockInv, Inv, TypeOK, CallInv,
           SchedulerCalls, NoCall, RemovePcs, AddPcs, FirstPcs, Holding, Found, Forks,
           RunInv
    <3>2. CASE e # c
      BY <1>9, <3>2, SMT DEF Alloc, CallRemove, Call, LockInv, Inv, TypeOK, CallInv,
           SchedulerCalls, NoCall, RemovePcs, AddPcs, FirstPcs, Holding, Found, Forks,
           RunInv
    <3> QED
      BY <3>1, <3>2
  <2>3. Forks(e)' => state[target[e]]' = "USED"
    <3>1. CASE e = c
      BY <1>9, <3>1, SMT DEF Alloc, CallRemove, Call, LockInv, Inv, TypeOK, CallInv,
           SchedulerCalls, NoCall, RemovePcs, AddPcs, FirstPcs, Forks, Holding, Found
    <3>2. CASE e # c
      BY <1>9, <3>2, SMT DEF Alloc, CallRemove, Call, LockInv, Inv, TypeOK, CallInv,
           SchedulerCalls, NoCall, RemovePcs, AddPcs, FirstPcs, Forks, Holding, Found
    <3> QED
      BY <3>1, <3>2
  <2>4. \A d \in CPU : e # d /\ Forks(e)' /\ Forks(d)' => target[e]' # target[d]'
    <3>1. CASE e = c
      BY <1>9, <3>1, SMT DEF Alloc, CallRemove, Call, LockInv, Inv, TypeOK, CallInv,
           SchedulerCalls, NoCall, RemovePcs, AddPcs, FirstPcs, Forks, Holding, Found
    <3>2. CASE e # c
      BY <1>9, <3>2, SMT DEF Alloc, CallRemove, Call, LockInv, Inv, TypeOK, CallInv,
           SchedulerCalls, NoCall, RemovePcs, AddPcs, FirstPcs, Forks, Holding, Found
    <3> QED
      BY <3>1, <3>2
  <2> QED
    BY <2>1, <2>2, <2>3, <2>4
<1>10. ASSUME NEW c \in CPU, NEW cpu \in CPU, SetCpu(c, cpu)
      PROVE  LockInv'
  BY <1>10, SMT DEF SetCpu, Call, Inv, TypeOK, CallInv, SchedulerCalls, NoCall,
       RemovePcs, AddPcs, FirstPcs, LockInv, Holding, Forks, Found
<1>11. ASSUME NEW c \in CPU, Fork(c)
      PROVE  LockInv'
  <2> SUFFICES ASSUME NEW e \in CPU
        PROVE  /\ Holding(e)' => target[e]' # Nil /\ lock[target[e]]' = e
               /\ Holding(e)' /\ pc[e]' # "lock" => state[target[e]]' = Found(e)'
               /\ Forks(e)' => state[target[e]]' = "USED"
               /\ \A d \in CPU : e # d /\ Forks(e)' /\ Forks(d)' => target[e]' # target[d]'
    BY DEF LockInv
  <2>1. Holding(e)' => target[e]' # Nil /\ lock[target[e]]' = e
    <3>1. CASE e = c
      BY <1>11, <3>1, SMT DEF Fork, Call, LockInv, Inv, TypeOK, CallInv,
           SchedulerCalls, NoCall, RemovePcs, AddPcs, FirstPcs, Holding, WalkInv
    <3>2. CASE e # c
      BY <1>11, <3>2, SMT DEF Fork, Call, LockInv, Inv, TypeOK, CallInv,
           SchedulerCalls, NoCall, RemovePcs, AddPcs, FirstPcs, Holding, WalkInv
    <3> QED
      BY <3>1, <3>2
  <2>2. Holding(e)' /\ pc[e]' # "lock" => state[target[e]]' = Found(e)'
    <3>1. CASE e = c
      BY <1>11, <3>1, SMT DEF Fork, Call, LockInv, Inv, TypeOK, CallInv,
           SchedulerCalls, NoCall, RemovePcs, AddPcs, FirstPcs, Holding, Found, Forks,
           RunInv
    <3>2. CASE e # c
      BY <1>11, <3>2, SMT DEF Fork, Call, LockInv, Inv, TypeOK, CallInv,
           SchedulerCalls, NoCall, RemovePcs, AddPcs, FirstPcs, Holding, Found, Forks,
           RunInv
    <3> QED
      BY <3>1, <3>2
  <2>3. Forks(e)' => state[target[e]]' = "USED"
    <3>1. CASE e = c
      BY <1>11, <3>1, SMT DEF Fork, Call, LockInv, Inv, TypeOK, CallInv,
           SchedulerCalls, NoCall, RemovePcs, AddPcs, FirstPcs, Forks, Holding, Found
    <3>2. CASE e # c
      BY <1>11, <3>2, SMT DEF Fork, Call, LockInv, Inv, TypeOK, CallInv,
           SchedulerCalls, NoCall, RemovePcs, AddPcs, FirstPcs, Forks, Holding, Found
    <3> QED
      BY <3>1, <3>2
  <2>4. \A d \in CPU : e # d /\ Forks(e)' /\ Forks(d)' => target[e]' # target[d]'
    <3>1. CASE e = c
      BY <1>11, <3>1, SMT DEF Fork, Call, LockInv, Inv, TypeOK, CallInv,
           SchedulerCalls, NoCall, RemovePcs, AddPcs, FirstPcs, Forks, Holding, Found
    <3>2. CASE e # c
      BY <1>11, <3>2, SMT DEF Fork, Call, LockInv, Inv, TypeOK, CallInv,
           SchedulerCalls, NoCall, RemovePcs, AddPcs, FirstPcs, Forks, Holding, Found
    <3> QED
      BY <3>1, <3>2
  <2> QED
    BY <2>1, <2>2, <2>3, <2>4
<1>12. ASSUME NEW c \in CPU, SetCpuYield(c)
      PROVE  LockInv'
  <2> SUFFICES ASSUME NEW e \in CPU
        PROVE  /\ Holding(e)' => target[e]' # Nil /\ lock[target[e]]' = e
               /\ Holding(e)' /\ pc[e]' # "lock" => state[target[e]]' = Found(e)'
               /\ Forks(e)' => state[target[e]]' = "USED"
               /\ \A d \in CPU : e # d /\ Forks(e)' /\ Forks(d)' => target[e]' # target[d]'
    BY DEF LockInv
  <2>1. Holding(e)' => target[e]' # Nil /\ lock[target[e]]' = e
    <3>1. CASE e = c
      BY <1>12, <3>1, SMT DEF SetCpuYield, CallRemove, Call, LockInv, Inv, TypeOK,
           CallInv, SchedulerCalls, NoCall, RemovePcs, AddPcs, FirstPcs, Holding,
           WalkInv
    <3>2. CASE e # c
      BY <1>12, <3>2, SMT DEF SetCpuYield, CallRemove, Call, LockInv, Inv, TypeOK,
           CallInv, SchedulerCalls, NoCall, RemovePcs, AddPcs, FirstPcs, Holding,
           WalkInv
    <3> QED
      BY <3>1, <3>2
  <2>2. Holding(e)' /\ pc[e]' # "lock" => state[target[e]]' = Found(e)'
    <3>1. CASE e = c
      BY <1>12, <3>1, SMT DEF SetCpuYield, CallRemove, Call, LockInv, Inv, TypeOK,
           CallInv, SchedulerCalls, NoCall, RemovePcs, AddPcs, FirstPcs, Holding, Found,
           Forks, RunInv
    <3>2. CASE e # c
      BY <1>12, <3>2, SMT DEF SetCpuYield, CallRemove, Call, LockInv, Inv, TypeOK,
           CallInv, SchedulerCalls, NoCall, RemovePcs, AddPcs, FirstPcs, Holding, Found,
           Forks, RunInv
    <3> QED
      BY <3>1, <3>2
  <2>3. Forks(e)' => state[target[e]]' = "USED"
    <3>1. CASE e = c
      BY <1>12, <3>1, SMT DEF SetCpuYield, CallRemove, Call, LockInv, Inv, TypeOK,
           CallInv, SchedulerCalls, NoCall, RemovePcs, AddPcs, FirstPcs, Forks, Holding,
           Found
    <3>2. CASE e # c
      BY <1>12, <3>2, SMT DEF SetCpuYield, CallRemove, Call, LockInv, Inv, TypeOK,
           CallInv, SchedulerCalls, NoCall, RemovePcs, AddPcs, FirstPcs, Forks, Holding,
           Found
    <3> QED
      BY <3>1, <3>2
  <2>4. \A d \in CPU : e # d /\ Forks(e)' /\ Forks(d)' => target[e]' # target[d]'
    <3>1. CASE e = c
      BY <1>12, <3>1, SMT DEF SetCpuYield, CallRemove, Call, LockInv, Inv, TypeOK,
           CallInv, SchedulerCalls, NoCall, RemovePcs, AddPcs, FirstPcs, Forks, Holding,
           Found
    <3>2. CASE e # c
      BY <1>12, <3>2, SMT DEF SetCpuYield, CallRemove, Call, LockInv, Inv, TypeOK,
           CallInv, SchedulerCalls, NoCall, RemovePcs, AddPcs, FirstPcs, Forks, Holding,
           Found
    <3> QED
      BY <3>1, <3>2
  <2> QED
    BY <2>1, <2>2, <2>3, <2>4
<1>13. ASSUME NEW c \in CPU, CallAddIt(c)
      PROVE  LockInv'
  BY <1>13, SMT DEF CallAddIt, CallAdd, EndCall, Call, Inv, TypeOK, CallInv,
       SchedulerCalls, NoCall, RemovePcs, AddPcs, FirstPcs, LockInv, Holding, Forks,
       Found
<1>14. ASSUME NEW c \in CPU, CallCount(c)
      PROVE  LockInv'
  BY <1>14, SMT DEF CallCount, Inv, TypeOK, CallInv, SchedulerCalls, NoCall, RemovePcs,
       AddPcs, FirstPcs, LockInv, Holding, Forks, Found
<1>15. ASSUME NEW c \in CPU, CallDone(c)
      PROVE  LockInv'
  BY <1>15, SMT DEF CallDone, EndCall, Call, Inv, TypeOK, CallInv, SchedulerCalls,
       NoCall, RemovePcs, AddPcs, FirstPcs, LockInv, Holding, Forks, Found
<1>16. ASSUME NEW c \in CPU, NEW p \in Proc, Interrupt(c, p)
      PROVE  LockInv'
  <2>1. TypeOK
    BY DEF Inv
  <2> SUFFICES ASSUME NEW e \in CPU
        PROVE  /\ Holding(e)' => target[e]' # Nil /\ lock[target[e]]' = e
               /\ Holding(e)' /\ pc[e]' # "lock" => state[target[e]]' = Found(e)'
               /\ Forks(e)' => state[target[e]]' = "USED"
               /\ \A d \in CPU : e # d /\ Forks(e)' /\ Forks(d)' => target[e]' # target[d]'
    BY DEF LockInv
  <2>2. /\ \A d \in CPU : pc'[d] = pc[d] \/ pc'[d] = "ub"
        /\ UNCHANGED <<lock, call, target>>
    BY <1>16, <2>1, InterruptFacts, SMT DEF TypeOK
  <2>3. \A d \in CPU : Holding(d)' => Holding(d)
    BY <2>2, SMT DEF Holding, RemovePcs, AddPcs
  <2>4. \A d \in CPU : Forks(d)' => Forks(d)
    BY <1>16, <2>1, <2>2, InterruptFacts, SMT DEF Forks, TypeOK
  <2>5. \A r \in Proc : state'[r] = state[r] \/ (r = p /\ state[r] = "SLEEPING" /\ lock[r] = NoCpu)
    BY <1>16, <2>1, InterruptFacts, SMT DEF TypeOK
  <2>6. target[e] \in Proc \cup {Nil}
    BY <2>1 DEF TypeOK
  <2>7. Holding(e)' => target[e]' # Nil /\ lock[target[e]]' = e
    BY <2>2, <2>3 DEF Inv, LockInv
  <2>8. Holding(e)' /\ pc[e]' # "lock" => state[target[e]]' = Found(e)'
    <3>1. ASSUME Holding(e)', pc'[e] # "lock" PROVE pc[e] # "lock" /\ Found(e)' = Found(e)
      BY <2>2, <3>1 DEF Holding, Found, RemovePcs, AddPcs
    <3> QED
      BY <2>2, <2>3, <2>5, <2>6, <3>1 DEF Inv, LockInv
  <2>9. Forks(e)' => state[target[e]]' = "USED"
    <3>1. Forks(e) => target[e] # Nil
      BY DEF Forks, Inv, CallInv, SchedulerCalls, NoCall
    <3> QED
      BY <2>2, <2>4, <2>5, <2>6, <3>1 DEF Inv, LockInv
  <2>10. \A d \in CPU : e # d /\ Forks(e)' /\ Forks(d)' => target[e]' # target[d]'
    BY <2>2, <2>4 DEF Inv, LockInv
  <2> QED
    BY <2>7, <2>8, <2>9, <2>10
<1> QED
  BY <1>1, <1>2, <1>3, <1>4, <1>5, <1>6, <1>7, <1>8, <1>9, <1>10, <1>11, <1>12, <1>13,
      <1>14, <1>15, <1>16 DEF Next, Begin

\* No step makes two CPUs run one process.
LEMMA NextRun == Inv /\ [Next]_vars => RunInv'
<1> SUFFICES ASSUME Inv, [Next]_vars PROVE RunInv'
  OBVIOUS
<1> USE Indices, MovesTable
<1>1. CASE UNCHANGED vars
  BY <1>1 DEF vars, Inv, TypeOK, CallInv, SchedulerCalls, NoCall, RemovePcs, AddPcs,
       FirstPcs, RunInv, LockInv, Holding, Forks, Found
<1>2. ASSUME NEW c \in CPU, ListStep(c), UNCHANGED <<procVars, call, target, calls>>
      PROVE  RunInv'
  BY <1>2 DEF Inv, RunInv
<1>3. ASSUME NEW c \in CPU, SchedStart(c)
      PROVE  RunInv'
  BY <1>3, SMT DEF SchedStart, CallRemoveFirst, Call, Inv, TypeOK, CallInv,
       SchedulerCalls, NoCall, RemovePcs, AddPcs, FirstPcs, RunInv, LockInv, Holding,
       Forks, Found
<1>4. ASSUME NEW c \in CPU, SchedEmpty(c)
      PROVE  RunInv'
  BY <1>4, SMT DEF SchedEmpty, CallRemoveFirst, EndCall, Call, Inv, TypeOK, CallInv,
       SchedulerCalls, NoCall, RemovePcs, AddPcs, FirstPcs, RunInv, LockInv, Holding,
       Forks, Found
<1>5. ASSUME NEW c \in CPU, SchedLock(c)
      PROVE  RunInv'
  BY <1>5, SMT DEF SchedLock, AcquireProc, Inv, TypeOK, CallInv, SchedulerCalls, NoCall,
       RemovePcs, AddPcs, FirstPcs, RunInv, LockInv, Holding, Forks, Found
<1>6. ASSUME NEW c \in CPU, SchedCheck(c)
      PROVE  RunInv'
  BY <1>6, SMT DEF SchedCheck, CallAdd, EndCall, Call, Inv, TypeOK, CallInv,
       SchedulerCalls, NoCall, RemovePcs, AddPcs, FirstPcs, RunInv, LockInv, Holding,
       Forks, Found
<1>7. ASSUME NEW c \in CPU, SchedRun(c)
      PROVE  RunInv'
  BY <1>7, SMT DEF SchedRun, EndCall, Call, Inv, TypeOK, CallInv, SchedulerCalls,
       NoCall, RemovePcs, AddPcs, FirstPcs, RunInv, LockInv, Holding, Forks, Found
<1>8. ASSUME NEW c \in CPU, NEW k \in DOMAIN Moves, NEW p \in Proc, CallStart(c, k, p)
      PROVE  RunInv'
  BY <1>8, SMT DEF CallStart, MayCall, CallRemove, Call, Inv, TypeOK, CallInv,
       SchedulerCalls, NoCall, RemovePcs, AddPcs, FirstPcs, RunInv, LockInv, Holding,
       Forks, Found
<1>9. ASSUME NEW c \in CPU, NEW p \in Proc, Alloc(c, p)
      PROVE  RunInv'
  BY <1>9, SMT DEF Alloc, CallRemove, Call, Inv, TypeOK, CallInv, SchedulerCalls,
       NoCall, RemovePcs, AddPcs, FirstPcs, RunInv, LockInv, Holding, Forks, Found
<1>10. ASSUME NEW c \in CPU, NEW cpu \in CPU, SetCpu(c, cpu)
      PROVE  RunInv'
  BY <1>10, SMT DEF SetCpu, Call, Inv, TypeOK, CallInv, SchedulerCalls, NoCall,
       RemovePcs, AddPcs, FirstPcs, RunInv, LockInv, Holding, Forks, Found
<1>11. ASSUME NEW c \in CPU, Fork(c)
      PROVE  RunInv'
  BY <1>11, SMT DEF Fork, Call, Inv, TypeOK, CallInv, SchedulerCalls,
       NoCall, RemovePcs, AddPcs, FirstPcs, RunInv, LockInv, Holding, Forks, Found
<1>12. ASSUME NEW c \in CPU, SetCpuYield(c)
      PROVE  RunInv'
  BY <1>12, SMT DEF SetCpuYield, CallRemove, Call, Inv, TypeOK, CallInv, SchedulerCalls,
       NoCall, RemovePcs, AddPcs, FirstPcs, RunInv, LockInv, Holding, Forks, Found
<1>13. ASSUME NEW c \in CPU, CallAddIt(c)
      PROVE  RunInv'
  BY <1>13, SMT DEF CallAddIt, CallAdd, EndCall, Call, Inv, TypeOK, CallInv,
       SchedulerCalls, NoCall, RemovePcs, AddPcs, FirstPcs, RunInv, LockInv, Holding,
       Forks, Found
<1>14. ASSUME NEW c \in CPU, CallCount(c)
      PROVE  RunInv'
  BY <1>14, SMT DEF CallCount, Inv, TypeOK, CallInv, SchedulerCalls, NoCall, RemovePcs,
       AddPcs, FirstPcs, RunInv, LockInv, Holding, Forks, Found
<1>15. ASSUME NEW c \in CPU, CallDone(c)
      PROVE  RunInv'
  BY <1>15, SMT DEF CallDone, EndCall, Call, Inv, TypeOK, CallInv, SchedulerCalls,
       NoCall, RemovePcs, AddPcs, FirstPcs, RunInv, LockInv, Holding, Forks, Found
<1>16. ASSUME NEW c \in CPU, NEW p \in Proc, Interrupt(c, p)
      PROVE  RunInv'
  <2>1. TypeOK
    BY DEF Inv
  <2> QED
    BY <1>16, <2>1, InterruptFacts, SMT DEF Inv, TypeOK, RunInv
<1> QED
  BY <1>1, <1>2, <1>3, <1>4, <1>5, <1>6, <1>7, <1>8, <1>9, <1>10, <1>11, <1>12, <1>13,
      <1>14, <1>15, <1>16 DEF Next, Begin

-----------------------------------------------------------------------------
(* Theorems *)

\* The lists are consistent and nobody holds a lock at boot.
LEMMA InitInv == Init => Inv
<1> SUFFICES ASSUME Init PROVE Inv
  OBVIOUS
<1> USE Indices
<1>1. ListTypeOK
  <2>1. next \in [Node -> Proc \cup {Nil}]
    BY ProcListsAssumption DEF Init, Proc
  <2> QED
    BY <2>1, SMT DEF Init, ListTypeOK
<1>2. TypeOK
  BY <1>1, ListSchedulerAssumption, SMT DEF Init, TypeOK, Pcs, ListPcs, NoCall
<1>3. WalkInv
  BY DEF Init, WalkInv, RemovePcs, AddPcs, FirstPcs
<1>4. CallInv
  BY MovesTable DEF Init, CallInv, SchedulerCalls, NoCall, RemovePcs, FirstPcs
<1>5. LockInv
  BY MovesTable DEF Init, LockInv, Holding, Forks, SchedulerCalls, NoCall
<1>6. RunInv
  BY DEF Init, RunInv
<1> QED
  BY <1>2, <1>3, <1>4, <1>5, <1>6 DEF Inv

\* The invariant of the scheduler: the types, the nodes of the walks, the
\* places of the calls, p->lock and the states it protects, and who runs,
\* whatever the races of the list code do to the lists.
THEOREM Invariance == Spec => []Inv
<1>1. Inv /\ [Next]_vars => Inv'
  BY NextType, NextCall, NextLock, NextRun DEF Inv
<1> QED
  BY InitInv, <1>1, PTL DEF Spec

\* No two CPUs run the same process and a process that runs is RUNNING, for
\* any number of CPUs and processes: scheduler() checks p->state under p->lock.
THEOREM OneCpuPerProcess == Spec => []RunsOnOneCpu
<1>1. Inv => RunsOnOneCpu
  BY DEF Inv, RunInv, RunsOnOneCpu
<1> QED
  BY Invariance, <1>1, PTL

-----------------------------------------------------------------------------
(* One CPU: the lists in order *)

\* One CPU, and the calls of lists_serial
OneCpu == NCPU = 1 /\ Calls \subseteq {"yield", "sleep", "exit", "wakeup", "kill", "fork", "wait"}

\* p has been taken from a list and put on none yet.
Loose(p) ==
    \/ pc[0] \in AddPcs \cup {"removed", "lock"} /\ p = target[0]
    \/ pc[0] = "took_first" /\ p = result[0]

\* The list of p: that of its state, until a call has put it on another.
At(p) == IF p = target[0] /\ pc[0] \in {"added", "moved"} THEN list[0] ELSE ListOf[state[p]]
On(p, i) == p \in Proc /\ ~Loose(p) /\ At(p) = i
Members(i) == {p \in Proc : On(p, i)}

\* Processes are added at the front, so that a list runs from young to old, where the
\* age of a process is the time of its last add.  The successor of a node is the
\* youngest of the list that is older than the node.
Behind(n, x, age) == n \in Proc => age[x] < age[n]
Follows(n, q, i, age) ==
    /\ q = Nil => \A x \in Proc : On(x, i) => ~Behind(n, x, age)
    /\ q # Nil => /\ On(q, i) /\ Behind(n, q, age)
                  /\ \A x \in Proc : On(x, i) /\ Behind(n, x, age) => (x = q \/ age[x] < age[q])
In(n, i) == n = Head(i, 0) \/ On(n, i)
\* add to an empty list stores to the head first, and to the item after that.
NextOf(n) == IF pc[0] = "add_first_end" /\ n = pred[0] THEN Nil ELSE next[n]
Linked(age) == \A i \in ListIndex, n \in Node : In(n, i) => Follows(n, NextOf(n), i, age)

\* Where the walks are
NodeInv(age) ==
    /\ In(node[0], list[0])
    /\ node[0] # pred[0] => On(pred[0], list[0]) /\ Behind(node[0], pred[0], age)
RemoveWalk(age) ==
    /\ pc[0] \in RemovePcs => On(item[0], list[0])
    /\ pc[0] \in RemovePcs \ {"rm_start"} =>
         In(pred[0], list[0]) /\ curr[0] = next[pred[0]] /\ Behind(pred[0], item[0], age)
    /\ pc[0] = "rm_step" => curr[0] # item[0]
    /\ pc[0] \in {"rm_lock_pred", "rm_lock_curr", "rm_validate", "rm_validate_next", "rm_unlink"} => curr[0] = item[0]
    /\ pc[0] \in {"rm_validate", "rm_validate_next"} => NodeInv(age)
    /\ pc[0] = "rm_validate_next" => node[0] # pred[0]
\* An interrupt adds at the front of the line: of a process the successor is what was read,
\* of the head it may be one that is younger, or there was none.
FirstWalk(age) ==
    /\ pc[0] \in FirstPcs \cup {"ub"} => list[0] = Runnable
    /\ pc[0] \in (FirstPcs \ {"rf_start"}) \cup {"ub"} =>
         /\ In(pred[0], list[0])
         /\ pred[0] \in Proc => curr[0] = next[pred[0]]
         /\ curr[0] # Nil => On(curr[0], list[0]) /\ Behind(pred[0], curr[0], age)
    /\ pc[0] \in {"rf_empty", "ub"} \/ (pc[0] = "rf_test" /\ curr[0] = Nil) => pred[0] = HeadOf(0)
    /\ pc[0] = "ub" \/ (pc[0] = "rf_test" /\ curr[0] = Nil) => next[pred[0]] # Nil
    /\ pc[0] \in FirstPcs \ {"rf_start", "rf_empty", "rf_test"} => curr[0] # Nil
    /\ pc[0] = "ub" => curr[0] = Nil
    /\ pc[0] = "rf_step" => next[curr[0]] # Nil
    /\ pc[0] = "rf_unlink" => curr[0] = next[pred[0]]
    /\ pc[0] \in {"rf_validate", "rf_validate_next"} => NodeInv(age)
    /\ pc[0] = "rf_validate_next" => node[0] # pred[0]
AddWalk ==
    /\ pc[0] \in AddPcs \ {"add_lock_head"} => pred[0] = HeadOf(0)
    /\ pc[0] \in {"add_first", "add_first_end"} => \A x \in Proc : ~On(x, list[0])
    /\ pc[0] = "add_first_end" => next[pred[0]] = item[0]
    /\ pc[0] \in {"add_lock_curr", "add_validate", "add_link", "add_link_end"} => curr[0] = next[pred[0]] /\ curr[0] # Nil
    /\ pc[0] = "add_link_end" => next[item[0]] = next[pred[0]]
Ordered(age) ==
    /\ age \in [Proc -> Nat]
    /\ \A p, q \in Proc : p # q => age[p] # age[q]
    /\ Linked(age) /\ RemoveWalk(age) /\ FirstWalk(age) /\ AddWalk

\* The arguments and results of the list code
Dest == IF call[0] \in SchedulerCalls THEN Running ELSE Moves[call[0]].to
ArgInv ==
    /\ pc[0] \notin {"panic", "yield"} /\ cpuNum[0] = 0
    /\ pc[0] = "ub" => call[0] \in SchedulerCalls
    /\ call[0] \in {"yield", "sleep", "exit", "wakeup", "kill", "fork", "wait", "scheduler", NoCall}
    /\ \A p \in Proc : cpuOf[p] = 0
    /\ pc[0] \in RemovePcs => item[0] = target[0] /\ list[0] = Moves[call[0]].from
    /\ pc[0] \in AddPcs => item[0] = target[0]
    /\ pc[0] \in AddPcs \cup {"added", "moved"} => target[0] # Nil /\ list[0] = Dest
    /\ pc[0] = "removed" => result[0] = 1
    /\ pc[0] = "took_first" => result[0] = Nil \/ state[result[0]] = "RUNNABLE"
    /\ pc[0] = "lock" => state[target[0]] = "RUNNABLE"

Held ==
    IF pc[0] \in {"rm_lock_curr", "rf_lock_curr", "add_test", "add_first", "add_first_end", "add_lock_curr"} THEN {pred[0]}
    ELSE IF pc[0] \in {"rm_validate", "rm_validate_next", "rm_unlink", "rf_validate", "rf_validate_next", "rf_unlink",
                       "rf_release", "add_validate", "add_link", "add_link_end"} THEN {pred[0], curr[0]}
    ELSE {}
\* No lock is held longer than it has to be.
NodesFree == \A n \in Node : next_lock[n] = IF n \in Held THEN 0 ELSE NoCpu
ProcsFree == \A p \in Proc : lock[p] = NoCpu \/ (Holding(0) /\ p = target[0])

\* increment_cpu comes after add.
Uncounted == IF pc[0] = "added" /\ list[0] = Runnable THEN 1 ELSE 0
CountInv == count[0] + Uncounted = Cardinality(Members(Runnable))

Orderly(age) == ArgInv /\ NodesFree /\ ProcsFree /\ CountInv /\ Ordered(age)
Serial(age) == Inv /\ Orderly(age)
SerialInv == \E age \in [Proc -> Nat] : Serial(age)
-----------------------------------------------------------------------------
(* One CPU: nodes, places and lists *)

WalkPcs == RemovePcs \cup FirstPcs

LEMMA OneCpuFacts ==
  ASSUME OneCpu
  PROVE  /\ CPU = {0} /\ 0 \in CPU /\ NoCpu # 0
         /\ Heads = {Head(i, 0) : i \in ListIndex}
  BY ProcListsAssumption DEF OneCpu, CPU, Heads

\* Every list has a head of its own, which is no process.
LEMMA HeadFacts ==
  /\ \A i \in ListIndex : Head(i, 0) \notin Proc /\ Head(i, 0) # Nil
  /\ \A i, j \in ListIndex : Head(i, 0) = Head(j, 0) => i = j
  BY ProcListsAssumption DEF Head, ListIndex, Proc, Nil, Runnable

LEMMA NodeFacts ==
  ASSUME OneCpu
  PROVE  /\ \A n \in Node : n \in Proc \/ \E i \in ListIndex : n = Head(i, 0)
         /\ \A i \in ListIndex : Head(i, 0) \in Node
         /\ Proc \subseteq Node /\ Nil \notin Node
<1>1. 0 \in CPU
  BY OneCpuFacts
<1> QED
  BY <1>1, OneCpuFacts, HeadFacts, Indices DEF Node

\* What the calls of OneCpu do: from the list of the state they find to that of the state they leave.
SerialCalls == {"yield", "sleep", "exit", "wakeup", "kill", "fork", "wait"}
LEMMA SerialMoves ==
  \A k \in SerialCalls :
    /\ k \in DOMAIN Moves /\ ListOf[Moves[k].was] = Moves[k].from /\ ListOf[Moves[k].is] = Moves[k].to
    /\ Moves[k].from # Runnable /\ Moves[k].from \in ListIndex /\ Moves[k].to \in ListIndex
<1>1. SerialCalls \subseteq DOMAIN Moves
  BY MovesTable DEF SerialCalls
<1>2. ASSUME NEW k \in SerialCalls
      PROVE  ListOf[Moves[k].was] = Moves[k].from /\ ListOf[Moves[k].is] = Moves[k].to /\ Moves[k].from # Runnable
  BY <1>2 DEF SerialCalls, Moves, ListOf, Running, Unused, Runnable, Sleeping, Zombie
<1> QED
  BY <1>1, <1>2, MovesTable

LEMMA ListFacts ==
  /\ \A s \in DOMAIN ListOf : ListOf[s] \in ListIndex
  /\ ListOf["RUNNABLE"] = Runnable /\ ListOf["RUNNING"] = Running
  /\ ListOf["UNUSED"] = Unused /\ ListOf["USED"] = Unused
  /\ Runnable \in ListIndex /\ Running \in ListIndex /\ Running # Runnable
  BY DEF ListOf, ListIndex, Running, Unused, Runnable, Sleeping, Zombie

LEMMA PcFacts ==
  /\ RemovePcs \cap FirstPcs = {} /\ RemovePcs \cap AddPcs = {} /\ FirstPcs \cap AddPcs = {}
  /\ {"removed", "added", "took_first", "panic", "ub", "sched", "lock", "run", "fork", "yield", "moved"}
       \cap (RemovePcs \cup AddPcs \cup FirstPcs) = {}
  BY DEF RemovePcs, FirstPcs, AddPcs

\* What the invariant says, at one place
LEMMA SerialFacts ==
  ASSUME OneCpu, NEW age, Serial(age)
  PROVE  /\ TypeOK /\ WalkInv /\ CallInv /\ LockInv /\ RunInv /\ ArgInv /\ NodesFree /\ ProcsFree /\ CountInv
         /\ age \in [Proc -> Nat] /\ \A p, q \in Proc : p # q => age[p] # age[q]
         /\ Linked(age) /\ RemoveWalk(age) /\ FirstWalk(age) /\ AddWalk
  BY DEF Serial, Orderly, Inv, Ordered

\* Lists and links are as before if their members and links are.
LEMMA SameLinks ==
  ASSUME NEW age, Linked(age), \A p, i : On(p, i)' <=> On(p, i),
         \A i \in ListIndex, n \in Node : In(n, i) => NextOf(n)' = NextOf(n)
  PROVE  Linked(age)'
<1>1. \A n, q, i : Follows(n, q, i, age)' <=> Follows(n, q, i, age)
  BY DEF Follows, Behind
<1>2. \A n, i : In(n, i)' <=> In(n, i)
  BY DEF In
<1> QED
  BY <1>1, <1>2 DEF Linked

LEMMA SameCount ==
  ASSUME CountInv, \A p, i : On(p, i)' <=> On(p, i), count'[0] = count[0], Uncounted' = Uncounted
  PROVE  CountInv'
<1>1. Members(Runnable)' = Members(Runnable)
  BY DEF Members
<1> QED
  BY <1>1 DEF CountInv

\* The successor of a node, but for the middle of add
LEMMA NextIs ==
  ASSUME NEW age, Linked(age), pc[0] # "add_first_end", NEW i \in ListIndex, NEW n \in Node, In(n, i)
  PROVE  Follows(n, next[n], i, age)
  BY DEF Linked, NextOf

\* A step of remove or remove_first_in_line that changes no list.
LEMMA WalkStep ==
  ASSUME OneCpu, NEW age, Serial(age), pc[0] \in WalkPcs, pc'[0] \in WalkPcs \cup {"ub"},
         pc[0] \in RemovePcs <=> pc'[0] \in RemovePcs,
         UNCHANGED <<next, count, item, list, cpuNum, result, state, lock, cpuOf, call, target>>
  PROVE  /\ \A p, i : On(p, i)' <=> On(p, i)
         /\ \A n, i : In(n, i)' <=> In(n, i)
         /\ Linked(age)' /\ AddWalk' /\ ArgInv' /\ ProcsFree' /\ CountInv'
<1>0. /\ pc[0] \notin AddPcs \cup {"removed", "added", "took_first", "panic", "ub", "sched", "lock", "run", "fork", "yield", "moved"}
      /\ pc'[0] \notin AddPcs \cup {"removed", "added", "took_first", "panic", "sched", "lock", "run", "fork", "yield", "moved"}
      /\ pc[0] \notin RemovePcs => call[0] \in SchedulerCalls
  BY PcFacts, OneCpuFacts, SerialFacts DEF WalkPcs, CallInv
<1>1. \A p, i : On(p, i)' <=> On(p, i)
  <2>1. \A p : Loose(p)' <=> Loose(p)
    BY <1>0 DEF Loose
  <2>2. \A p : At(p)' = At(p)
    BY <1>0 DEF At
  <2> QED
    BY <2>1, <2>2 DEF On
<1>2. \A n, i : In(n, i)' <=> In(n, i)
  BY <1>1 DEF In
<1>3. Linked(age)'
  <2>1. pc[0] # "add_first_end" /\ pc'[0] # "add_first_end"
    BY <1>0 DEF AddPcs
  <2>2. \A n : NextOf(n)' = NextOf(n)
    BY <2>1 DEF NextOf
  <2> QED
    BY <1>1, <2>2, SameLinks, SerialFacts
<1>4. AddWalk'
  BY <1>0 DEF AddWalk, AddPcs
<1>5. ArgInv'
  <2>1. pc'[0] = "ub" => call'[0] \in SchedulerCalls
    BY <1>0, PcFacts
  <2>2. ArgInv
    BY SerialFacts
  <2>3. /\ pc'[0] \notin {"panic", "yield"} /\ cpuNum'[0] = 0 /\ \A p \in Proc : cpuOf'[p] = 0
        /\ call'[0] \in {"yield", "sleep", "exit", "wakeup", "kill", "fork", "wait", "scheduler", NoCall}
        /\ pc'[0] \in RemovePcs => item'[0] = target'[0] /\ list'[0] = Moves[call'[0]].from
    BY <1>0, <2>2 DEF ArgInv
  <2> QED
    BY <1>0, <2>1, <2>3 DEF ArgInv
<1>6. ProcsFree'
  <2>1. Holding(0)' <=> Holding(0)
    BY <1>0, PcFacts DEF Holding, WalkPcs
  <2> QED
    BY <2>1, SerialFacts DEF ProcsFree
<1>7. CountInv'
  BY <1>0, <1>1, SameCount, SerialFacts DEF Uncounted
<1> QED
  BY <1>1, <1>2, <1>3, <1>4, <1>5, <1>6, <1>7

LEMMA WalkEnd ==
  ASSUME OneCpu, NEW age, Serial(age), pc[0] \in WalkPcs, pc'[0] \in WalkPcs \cup {"ub"},
         pc[0] \in RemovePcs <=> pc'[0] \in RemovePcs,
         UNCHANGED <<next, count, item, list, cpuNum, result, state, lock, cpuOf, call, target>>,
         NodesFree', RemoveWalk(age)', FirstWalk(age)'
  PROVE  Orderly(age)'
<1>1. Linked(age)' /\ AddWalk' /\ ArgInv' /\ ProcsFree' /\ CountInv'
  BY WalkStep
<1> QED
  BY <1>1, SerialFacts DEF Orderly, Ordered

\* A walk reads no node that is locked, and locks none.
LEMMA SameHeld ==
  ASSUME OneCpu, NEW age, Serial(age), UNCHANGED next_lock, Held' = Held
  PROVE  NodesFree'
  BY SerialFacts DEF NodesFree

-----------------------------------------------------------------------------
(* One CPU: steps of remove *)

LEMMA StepIs ==
  ASSUME OneCpu, TypeOK, NEW n, n # Nil, NEW l, Step(0, n, l)
  PROVE  pc'[0] = l /\ pred'[0] = n /\ curr'[0] = next[n] /\ node'[0] = node[0]
  BY OneCpuFacts DEF Step, TypeOK, ListTypeOK

LEMMA GotoIs ==
  ASSUME OneCpu, TypeOK, NEW l, pc' = [pc EXCEPT ![0] = l]
  PROVE  pc'[0] = l
  BY OneCpuFacts DEF TypeOK

\* What remove knows while it walks: it has not passed the item, which is still ahead.
LEMMA RemoveFacts ==
  ASSUME OneCpu, NEW age, Serial(age), pc[0] \in RemovePcs
  PROVE  /\ On(item[0], list[0]) /\ item[0] \in Proc /\ list[0] \in ListIndex
         /\ HeadOf(0) \in Node /\ HeadOf(0) # Nil /\ HeadOf(0) \notin Proc /\ In(HeadOf(0), list[0])
         /\ pc[0] # "rm_start" => /\ In(pred[0], list[0]) /\ pred[0] \in Node /\ pred[0] # Nil
                                  /\ curr[0] = next[pred[0]] /\ Behind(pred[0], item[0], age)
                                  /\ Follows(pred[0], curr[0], list[0], age)
                                  /\ curr[0] # Nil /\ On(curr[0], list[0]) /\ Behind(pred[0], curr[0], age)
                                  /\ curr[0] = item[0] \/ age[item[0]] < age[curr[0]]
<1>1. On(item[0], list[0]) /\ item[0] \in Proc /\ list[0] \in ListIndex
  BY OneCpuFacts, SerialFacts DEF RemoveWalk, On, TypeOK, ListTypeOK
<1>2. HeadOf(0) \in Node /\ HeadOf(0) # Nil /\ HeadOf(0) \notin Proc /\ In(HeadOf(0), list[0])
  <2>1. cpuNum[0] = 0
    BY SerialFacts DEF ArgInv
  <2> QED
    BY <1>1, <2>1, HeadFacts, NodeFacts DEF HeadOf, In
<1>3. CASE pc[0] # "rm_start"
  <2>1. In(pred[0], list[0]) /\ curr[0] = next[pred[0]] /\ Behind(pred[0], item[0], age)
    BY <1>3, SerialFacts DEF RemoveWalk
  <2>2. pred[0] \in Node /\ pred[0] # Nil
    BY <1>1, <2>1, NodeFacts, HeadFacts DEF In, On
  <2>3. pc[0] # "add_first_end"
    BY PcFacts DEF AddPcs
  <2>4. Follows(pred[0], curr[0], list[0], age)
    BY <1>1, <2>1, <2>2, <2>3, NextIs, SerialFacts
  <2> QED
    BY <1>1, <1>2, <2>1, <2>2, <2>4 DEF Follows
<1> QED
  BY <1>1, <1>2, <1>3

LEMMA RmStartSerial ==
  ASSUME OneCpu, NEW age, Serial(age), RmStart(0), UNCHANGED <<procVars, call, target>>
  PROVE  Orderly(age)'
<1>1. pc[0] = "rm_start" /\ UNCHANGED <<next, next_lock, count, item, list, cpuNum, result, state, lock, cpuOf, call, target>>
  BY DEF RmStart
<1>2. pc[0] \in RemovePcs
  BY <1>1 DEF RemovePcs
<1>3. pc'[0] = "rm_test" /\ pred'[0] = HeadOf(0) /\ curr'[0] = next[HeadOf(0)]
  BY <1>2, RemoveFacts, StepIs, SerialFacts DEF RmStart
<1>4. pc[0] \in WalkPcs /\ pc'[0] \in WalkPcs \cup {"ub"} /\ (pc[0] \in RemovePcs <=> pc'[0] \in RemovePcs)
  BY <1>1, <1>3 DEF WalkPcs, RemovePcs
<1>5. (\A p, i : On(p, i)' <=> On(p, i)) /\ (\A n, i : In(n, i)' <=> In(n, i))
  BY <1>1, <1>4, WalkStep
<1>6. RemoveWalk(age)'
  BY <1>1, <1>2, <1>3, <1>5, RemoveFacts DEF RemoveWalk, Behind
<1>7. FirstWalk(age)'
  BY <1>3 DEF FirstWalk, FirstPcs
<1>8. NodesFree'
  BY <1>1, <1>3, SameHeld DEF Held
<1> QED
  BY <1>1, <1>4, <1>6, <1>7, <1>8, WalkEnd

LEMMA RmTestSerial ==
  ASSUME OneCpu, NEW age, Serial(age), RmTest(0), UNCHANGED <<procVars, call, target>>
  PROVE  Orderly(age)'
<1>1. pc[0] = "rm_test" /\ UNCHANGED <<next, next_lock, count, item, list, cpuNum, result, state, lock, cpuOf, call, target>>
      /\ UNCHANGED <<pred, curr, node>>
  BY DEF RmTest
<1>2. pc[0] \in RemovePcs /\ pc[0] # "rm_start"
  BY <1>1 DEF RemovePcs
<1>3. pc'[0] = "rm_match"
  BY <1>2, RemoveFacts, GotoIs, SerialFacts DEF RmTest
<1>4. pc[0] \in WalkPcs /\ pc'[0] \in WalkPcs \cup {"ub"} /\ (pc[0] \in RemovePcs <=> pc'[0] \in RemovePcs)
  BY <1>1, <1>3 DEF WalkPcs, RemovePcs
<1>5. (\A p, i : On(p, i)' <=> On(p, i)) /\ (\A n, i : In(n, i)' <=> In(n, i))
  BY <1>1, <1>4, WalkStep
<1>6. RemoveWalk(age)'
  BY <1>1, <1>2, <1>3, <1>5, RemoveFacts DEF RemoveWalk, Behind
<1>7. FirstWalk(age)'
  BY <1>3 DEF FirstWalk, FirstPcs
<1>8. NodesFree'
  BY <1>1, <1>3, SameHeld DEF Held
<1> QED
  BY <1>1, <1>4, <1>6, <1>7, <1>8, WalkEnd

LEMMA RmMatchSerial ==
  ASSUME OneCpu, NEW age, Serial(age), RmMatch(0), UNCHANGED <<procVars, call, target>>
  PROVE  Orderly(age)'
<1>1. pc[0] = "rm_match" /\ UNCHANGED <<next, next_lock, count, item, list, cpuNum, result, state, lock, cpuOf, call, target>>
      /\ UNCHANGED <<pred, curr, node>>
  BY DEF RmMatch
<1>2. pc[0] \in RemovePcs /\ pc[0] # "rm_start"
  BY <1>1 DEF RemovePcs
<1>3. IF curr[0] = item[0] THEN pc'[0] = "rm_lock_pred" ELSE pc'[0] = "rm_step"
  BY <1>2, RemoveFacts, GotoIs, SerialFacts DEF RmMatch
<1>4. pc[0] \in WalkPcs /\ pc'[0] \in WalkPcs \cup {"ub"} /\ (pc[0] \in RemovePcs <=> pc'[0] \in RemovePcs)
  BY <1>1, <1>3 DEF WalkPcs, RemovePcs
<1>5. (\A p, i : On(p, i)' <=> On(p, i)) /\ (\A n, i : In(n, i)' <=> In(n, i))
  BY <1>1, <1>4, WalkStep
<1>6. RemoveWalk(age)'
  BY <1>1, <1>2, <1>3, <1>5, RemoveFacts DEF RemoveWalk, Behind
<1>7. FirstWalk(age)'
  BY <1>3 DEF FirstWalk, FirstPcs
<1>8. NodesFree'
  BY <1>1, <1>3, SameHeld DEF Held
<1> QED
  BY <1>1, <1>4, <1>6, <1>7, <1>8, WalkEnd

LEMMA RmStepSerial ==
  ASSUME OneCpu, NEW age, Serial(age), RmStep(0), UNCHANGED <<procVars, call, target>>
  PROVE  Orderly(age)'
<1>1. pc[0] = "rm_step" /\ UNCHANGED <<next, next_lock, count, item, list, cpuNum, result, state, lock, cpuOf, call, target>>
  BY DEF RmStep
<1>2. pc[0] \in RemovePcs /\ pc[0] # "rm_start"
  BY <1>1 DEF RemovePcs
<1>3. pc'[0] = "rm_test" /\ pred'[0] = curr[0] /\ curr'[0] = next[curr[0]]
  BY <1>2, RemoveFacts, StepIs, SerialFacts DEF RmStep
<1>4. pc[0] \in WalkPcs /\ pc'[0] \in WalkPcs \cup {"ub"} /\ (pc[0] \in RemovePcs <=> pc'[0] \in RemovePcs)
  BY <1>1, <1>3 DEF WalkPcs, RemovePcs
<1>5. (\A p, i : On(p, i)' <=> On(p, i)) /\ (\A n, i : In(n, i)' <=> In(n, i))
  BY <1>1, <1>4, WalkStep
<1>6. RemoveWalk(age)'
  <2>1. curr[0] # item[0]
    BY <1>1, SerialFacts DEF RemoveWalk
  <2> QED
    BY <1>1, <1>2, <1>3, <1>5, <2>1, RemoveFacts DEF RemoveWalk, Behind, In
<1>7. FirstWalk(age)'
  BY <1>3 DEF FirstWalk, FirstPcs
<1>8. NodesFree'
  BY <1>1, <1>3, SameHeld DEF Held
<1> QED
  BY <1>1, <1>4, <1>6, <1>7, <1>8, WalkEnd

-----------------------------------------------------------------------------
(* One CPU: locking the two nodes, and validate *)

\* No lock but those of Held is taken, so that acquire succeeds.
LEMMA AcquireIs ==
  ASSUME OneCpu, NEW age, Serial(age), NEW n \in Node, n \notin Held, NEW l, AcquireNext(0, n, l)
  PROVE  pc'[0] = l /\ next_lock' = [next_lock EXCEPT ![n] = 0]
<1>1. next_lock[n] # 0 /\ n # Nil
  BY OneCpuFacts, NodeFacts, SerialFacts DEF NodesFree
<1> QED
  BY <1>1, GotoIs, SerialFacts DEF AcquireNext

LEMMA MoreHeld ==
  ASSUME OneCpu, NEW age, Serial(age), NEW n, next_lock' = [next_lock EXCEPT ![n] = 0], Held' = Held \cup {n}
  PROVE  NodesFree'
  BY SerialFacts DEF NodesFree, TypeOK, ListTypeOK

LEMMA NoneHeld ==
  ASSUME OneCpu, NEW age, Serial(age), NEW S, ReleaseNext(S), Held \subseteq S, Held' = {}
  PROVE  NodesFree'
  BY SerialFacts DEF NodesFree, ReleaseNext

\* Successors are on the list, and a node has one predecessor.
LEMMA Successor ==
  ASSUME OneCpu, NEW age, Serial(age), pc[0] # "add_first_end", NEW i \in ListIndex, NEW n, In(n, i)
  PROVE  n \in Node /\ n # Nil /\ Follows(n, next[n], i, age)
         /\ (next[n] # Nil => next[n] \in Proc /\ next[n] # n)
<1>1. n \in Node /\ n # Nil
  BY NodeFacts, HeadFacts DEF In, On
<1>2. Follows(n, next[n], i, age)
  BY <1>1, NextIs, SerialFacts
<1>3. ASSUME next[n] # Nil PROVE next[n] \in Proc /\ next[n] # n
  <2>1. next[n] \in Proc /\ Behind(n, next[n], age)
    BY <1>2, <1>3 DEF Follows, On
  <2> QED
    BY <2>1, SerialFacts DEF Behind
<1> QED
  BY <1>1, <1>2, <1>3

\* Validate finds the first node it looks for, and that it has a successor.
LEMMA ValidateFacts ==
  ASSUME OneCpu, NEW age, Serial(age), pc[0] \in WalkPcs, list[0] \in ListIndex,
         In(pred[0], list[0]), On(curr[0], list[0]), Behind(pred[0], curr[0], age), NodeInv(age)
  PROVE  /\ node[0] # Nil /\ next[node[0]] # Nil
         /\ node[0] # pred[0] => /\ In(next[node[0]], list[0])
                                 /\ next[node[0]] # pred[0] => /\ On(pred[0], list[0])
                                                               /\ Behind(next[node[0]], pred[0], age)
<1>1. pc[0] # "add_first_end"
  BY PcFacts DEF WalkPcs, AddPcs
<1>2. node[0] # Nil /\ Follows(node[0], next[node[0]], list[0], age)
  BY <1>1, Successor DEF NodeInv
<1>3. CASE node[0] = pred[0]
  <2>1. curr[0] \in Proc
    BY DEF On
  <2> QED
    BY <1>2, <1>3, <2>1 DEF Follows
<1>4. CASE node[0] # pred[0]
  <2>1. On(pred[0], list[0]) /\ Behind(node[0], pred[0], age) /\ pred[0] \in Proc
    BY <1>4 DEF NodeInv, On
  <2>2. next[node[0]] # Nil
    BY <1>2, <2>1 DEF Follows
  <2>3. On(next[node[0]], list[0]) /\ (pred[0] = next[node[0]] \/ age[pred[0]] < age[next[node[0]]])
    BY <1>2, <2>1, <2>2 DEF Follows
  <2> QED
    BY <1>2, <2>1, <2>2, <2>3 DEF In, Behind
<1> QED
  BY <1>3, <1>4

LEMMA RmLockPredSerial ==
  ASSUME OneCpu, NEW age, Serial(age), RmLockPred(0), UNCHANGED <<procVars, call, target>>
  PROVE  Orderly(age)'
<1>1. pc[0] = "rm_lock_pred" /\ UNCHANGED <<next, count, item, list, cpuNum, result, state, lock, cpuOf, call, target>>
      /\ UNCHANGED <<pred, curr, node>>
  BY DEF RmLockPred, LockPred
<1>2. pc[0] \in RemovePcs /\ pc[0] # "rm_start" /\ Held = {}
  BY <1>1 DEF RemovePcs, Held
<1>3. pc'[0] = "rm_lock_curr" /\ next_lock' = [next_lock EXCEPT ![pred[0]] = 0]
  <2>1. pred[0] \in Node /\ AcquireNext(0, pred[0], "rm_lock_curr")
    BY <1>2, RemoveFacts DEF RmLockPred, LockPred
  <2> QED
    BY <1>2, <2>1, AcquireIs
<1>4. pc[0] \in WalkPcs /\ pc'[0] \in WalkPcs \cup {"ub"} /\ (pc[0] \in RemovePcs <=> pc'[0] \in RemovePcs)
  BY <1>1, <1>3 DEF WalkPcs, RemovePcs
<1>5. (\A p, i : On(p, i)' <=> On(p, i)) /\ (\A n, i : In(n, i)' <=> In(n, i))
  BY <1>1, <1>4, WalkStep
<1>6. RemoveWalk(age)'
  <2>1. curr[0] = item[0]
    BY <1>1, SerialFacts DEF RemoveWalk
  <2> QED
    BY <1>1, <1>2, <1>3, <1>5, <2>1, RemoveFacts DEF RemoveWalk, Behind
<1>7. FirstWalk(age)'
  BY <1>3 DEF FirstWalk, FirstPcs
<1>8. NodesFree'
  <2>1. Held' = Held \cup {pred[0]}
    BY <1>1, <1>2, <1>3 DEF Held
  <2> QED
    BY <1>3, <2>1, MoreHeld
<1> QED
  BY <1>1, <1>4, <1>6, <1>7, <1>8, WalkEnd

LEMMA RmLockCurrSerial ==
  ASSUME OneCpu, NEW age, Serial(age), RmLockCurr(0), UNCHANGED <<procVars, call, target>>
  PROVE  Orderly(age)'
<1>1. pc[0] = "rm_lock_curr" /\ UNCHANGED <<next, count, item, list, cpuNum, result, state, lock, cpuOf, call, target>>
      /\ UNCHANGED <<pred, curr>>
  BY DEF RmLockCurr, LockCurr
<1>2. pc[0] \in RemovePcs /\ pc[0] # "rm_start" /\ Held = {pred[0]}
  BY <1>1 DEF RemovePcs, Held
<1>3. curr[0] \in Node /\ curr[0] \notin Held
  <2>1. pc[0] # "add_first_end"
    BY <1>1
  <2>2. curr[0] # pred[0]
    BY <1>2, <2>1, RemoveFacts, Successor
  <2> QED
    BY <1>2, <2>2, RemoveFacts, NodeFacts DEF On
<1>4. pc'[0] = "rm_validate" /\ next_lock' = [next_lock EXCEPT ![curr[0]] = 0] /\ node'[0] = HeadOf(0)
  <2>1. AcquireNext(0, curr[0], "rm_validate") /\ node' = [node EXCEPT ![0] = HeadOf(0)]
    BY DEF RmLockCurr, LockCurr
  <2> QED
    BY <1>3, <2>1, AcquireIs, OneCpuFacts, SerialFacts DEF TypeOK, ListTypeOK
<1>5. pc[0] \in WalkPcs /\ pc'[0] \in WalkPcs \cup {"ub"} /\ (pc[0] \in RemovePcs <=> pc'[0] \in RemovePcs)
  BY <1>1, <1>4 DEF WalkPcs, RemovePcs
<1>6. (\A p, i : On(p, i)' <=> On(p, i)) /\ (\A n, i : In(n, i)' <=> In(n, i))
  BY <1>1, <1>5, WalkStep
<1>7. NodeInv(age)'
  <2>1. pred[0] # HeadOf(0) => On(pred[0], list[0])
    <3>1. cpuNum[0] = 0
      BY SerialFacts DEF ArgInv
    <3> QED
      BY <1>2, <3>1, RemoveFacts DEF In, HeadOf
  <2> QED
    BY <1>1, <1>2, <1>4, <1>6, <2>1, RemoveFacts DEF NodeInv, Behind
<1>8. RemoveWalk(age)'
  <2>1. curr[0] = item[0]
    BY <1>1, SerialFacts DEF RemoveWalk
  <2> QED
    BY <1>1, <1>2, <1>4, <1>6, <1>7, <2>1, RemoveFacts DEF RemoveWalk, Behind
<1>9. FirstWalk(age)'
  BY <1>4 DEF FirstWalk, FirstPcs
<1>10. NodesFree'
  <2>1. Held' = Held \cup {curr[0]}
    BY <1>1, <1>2, <1>4 DEF Held
  <2> QED
    BY <1>4, <2>1, MoreHeld
<1> QED
  BY <1>1, <1>5, <1>8, <1>9, <1>10, WalkEnd

LEMMA RmValidateSerial ==
  ASSUME OneCpu, NEW age, Serial(age), RmValidate(0), UNCHANGED <<procVars, call, target>>
  PROVE  Orderly(age)'
<1>1. pc[0] = "rm_validate" /\ UNCHANGED <<next, next_lock, count, item, list, cpuNum, result, state, lock, cpuOf, call, target>>
      /\ UNCHANGED <<pred, curr, node>>
  BY DEF RmValidate, Validate
<1>2. pc[0] \in RemovePcs /\ pc[0] # "rm_start" /\ pc[0] \in WalkPcs
  BY <1>1 DEF RemovePcs, WalkPcs
<1>3. curr[0] = item[0] /\ NodeInv(age)
  BY <1>1, SerialFacts DEF RemoveWalk
<1>4. IF node[0] = pred[0] THEN pc'[0] = "rm_unlink" ELSE pc'[0] = "rm_validate_next"
  <2>1. node[0] # Nil /\ next[node[0]] # Nil
    BY <1>2, <1>3, RemoveFacts, ValidateFacts
  <2> QED
    BY <1>2, <2>1, RemoveFacts, GotoIs, SerialFacts DEF RmValidate, Validate
<1>5. pc[0] \in WalkPcs /\ pc'[0] \in WalkPcs \cup {"ub"} /\ (pc[0] \in RemovePcs <=> pc'[0] \in RemovePcs)
  BY <1>1, <1>4 DEF WalkPcs, RemovePcs
<1>6. (\A p, i : On(p, i)' <=> On(p, i)) /\ (\A n, i : In(n, i)' <=> In(n, i))
  BY <1>1, <1>5, WalkStep
<1>7. RemoveWalk(age)'
  <2>1. NodeInv(age)'
    BY <1>1, <1>3, <1>6 DEF NodeInv, Behind
  <2> QED
    BY <1>1, <1>2, <1>3, <1>4, <1>6, <2>1, RemoveFacts DEF RemoveWalk, Behind
<1>8. FirstWalk(age)'
  BY <1>4 DEF FirstWalk, FirstPcs
<1>9. NodesFree'
  BY <1>1, <1>4, SameHeld DEF Held
<1> QED
  BY <1>1, <1>5, <1>7, <1>8, <1>9, WalkEnd

LEMMA RmValidateNextSerial ==
  ASSUME OneCpu, NEW age, Serial(age), RmValidateNext(0), UNCHANGED <<procVars, call, target>>
  PROVE  Orderly(age)'
<1>1. pc[0] = "rm_validate_next" /\ UNCHANGED <<next, next_lock, count, item, list, cpuNum, result, state, lock, cpuOf, call, target>>
      /\ UNCHANGED <<pred, curr>>
  BY DEF RmValidateNext, ValidateNext
<1>2. pc[0] \in RemovePcs /\ pc[0] # "rm_start" /\ pc[0] \in WalkPcs
  BY <1>1 DEF RemovePcs, WalkPcs
<1>3. curr[0] = item[0] /\ NodeInv(age) /\ node[0] # pred[0]
  BY <1>1, SerialFacts DEF RemoveWalk
<1>4. pc'[0] = "rm_validate" /\ node'[0] = next[node[0]]
  BY OneCpuFacts, GotoIs, SerialFacts DEF RmValidateNext, ValidateNext, TypeOK, ListTypeOK
<1>5. pc[0] \in WalkPcs /\ pc'[0] \in WalkPcs \cup {"ub"} /\ (pc[0] \in RemovePcs <=> pc'[0] \in RemovePcs)
  BY <1>1, <1>4 DEF WalkPcs, RemovePcs
<1>6. (\A p, i : On(p, i)' <=> On(p, i)) /\ (\A n, i : In(n, i)' <=> In(n, i))
  BY <1>1, <1>5, WalkStep
<1>7. RemoveWalk(age)'
  <2>1. /\ In(next[node[0]], list[0])
        /\ next[node[0]] # pred[0] => On(pred[0], list[0]) /\ Behind(next[node[0]], pred[0], age)
    BY <1>2, <1>3, RemoveFacts, ValidateFacts
  <2>2. NodeInv(age)'
    BY <1>1, <1>4, <1>6, <2>1 DEF NodeInv, Behind
  <2> QED
    BY <1>1, <1>2, <1>3, <1>4, <1>6, <2>2, RemoveFacts DEF RemoveWalk, Behind
<1>8. FirstWalk(age)'
  BY <1>4 DEF FirstWalk, FirstPcs
<1>9. NodesFree'
  BY <1>1, <1>4, SameHeld DEF Held
<1> QED
  BY <1>1, <1>5, <1>7, <1>8, <1>9, WalkEnd

-----------------------------------------------------------------------------
(* One CPU: unlinking *)

LEMMA UniquePred ==
  ASSUME OneCpu, NEW age, Serial(age), pc[0] # "add_first_end", NEW i \in ListIndex, NEW m, NEW n,
         In(m, i), In(n, i), next[m] = next[n], next[m] # Nil
  PROVE  m = n
<1> SUFFICES ASSUME m # n PROVE FALSE
  OBVIOUS
<1>1. Follows(m, next[m], i, age) /\ Follows(n, next[n], i, age)
  BY Successor
<1>2. CASE m = Head(i, 0)
  <2>1. m \notin Proc /\ On(n, i) /\ n \in Proc
    BY <1>2, HeadFacts DEF In, On
  <2>2. Behind(m, n, age) /\ Behind(n, next[n], age) /\ next[n] \in Proc
    BY <1>1, <2>1 DEF Behind, Follows, On
  <2>3. n = next[m] \/ age[n] < age[next[m]]
    BY <1>1, <2>1, <2>2 DEF Follows
  <2> QED
    BY <2>1, <2>2, <2>3, SerialFacts DEF Behind
<1>3. CASE n = Head(i, 0)
  <2>1. n \notin Proc /\ On(m, i) /\ m \in Proc
    BY <1>3, HeadFacts DEF In, On
  <2>2. Behind(n, m, age) /\ Behind(m, next[m], age) /\ next[m] \in Proc
    BY <1>1, <2>1 DEF Behind, Follows, On
  <2>3. m = next[n] \/ age[m] < age[next[n]]
    BY <1>1, <2>1, <2>2 DEF Follows
  <2> QED
    BY <2>1, <2>2, <2>3, SerialFacts DEF Behind
<1>4. CASE On(m, i) /\ On(n, i)
  <2>1. m \in Proc /\ n \in Proc /\ next[m] \in Proc /\ Behind(m, next[m], age) /\ Behind(n, next[m], age)
    BY <1>1, <1>4 DEF Follows, On
  <2>2. age[m] \in Nat /\ age[n] \in Nat /\ age[next[m]] \in Nat /\ age[m] # age[n]
        /\ age[next[m]] < age[m] /\ age[next[m]] < age[n]
    BY <2>1, SerialFacts DEF Behind
  <2>3. CASE age[n] < age[m]
    <3>1. n = next[m] \/ age[n] < age[next[m]]
      BY <1>1, <1>4, <2>1, <2>3 DEF Follows, Behind
    <3> QED
      BY <2>2, <3>1
  <2>4. CASE age[m] < age[n]
    <3>1. m = next[n] \/ age[m] < age[next[n]]
      BY <1>1, <1>4, <2>1, <2>4 DEF Follows, Behind
    <3> QED
      BY <2>2, <3>1
  <2> QED
    BY <2>2, <2>3, <2>4
<1> QED
  BY <1>2, <1>3, <1>4 DEF In

LEMMA Unlinked ==
  ASSUME OneCpu, NEW age, Serial(age), pc[0] # "add_first_end", pc'[0] # "add_first_end",
         NEW i \in ListIndex, NEW n, In(n, i), NEW k \in Proc, next[n] = k,
         \A p, j : On(p, j)' <=> On(p, j) /\ p # k,
         next' = [next EXCEPT ![n] = next[k]]
  PROVE  Linked(age)'
<1>0. Follows(n, k, i, age) /\ On(k, i) /\ k # Nil /\ n \in Node /\ n # k
  BY Successor, Indices DEF Follows
<1> SUFFICES ASSUME NEW j \in ListIndex, NEW m \in Node, In(m, j)' PROVE Follows(m, next[m], j, age)'
  BY DEF Linked, NextOf
<1>1. In(m, j) /\ m # k
  BY <1>0, HeadFacts DEF In
<1>2. \A x, y : Behind(x, y, age)' <=> Behind(x, y, age)
  BY DEF Behind
<1>3. Follows(m, next[m], j, age)
  BY <1>1, Successor
<1>4. next \in [Node -> Proc \cup {Nil}]
  BY SerialFacts DEF TypeOK, ListTypeOK
<1>5. CASE m = n /\ j = i
  <2>1. next'[m] = next[k]
    BY <1>0, <1>4, <1>5
  <2>2. Follows(k, next[k], i, age)
    BY <1>0, Successor DEF In
  <2>3. ASSUME NEW x \in Proc, On(x, i), x # k, Behind(n, x, age) PROVE Behind(k, x, age)
    BY <1>0, <2>3 DEF Follows, Behind
  <2>4. CASE next[k] = Nil
    BY <1>2, <1>5, <2>1, <2>2, <2>3, <2>4 DEF Follows
  <2>5. CASE next[k] # Nil
    <3>1. On(next[k], i) /\ Behind(k, next[k], age) /\ next[k] \in Proc /\ next[k] # k
      BY <1>0, <2>2, <2>5, SerialFacts DEF Follows, Behind, On
    <3>2. Behind(n, next[k], age)
      BY <1>0, <3>1, SerialFacts DEF Behind, Follows
    <3> QED
      BY <1>2, <1>5, <2>1, <2>2, <2>3, <2>5, <3>1, <3>2 DEF Follows
  <2> QED
    BY <2>4, <2>5
<1>6. CASE ~(m = n /\ j = i)
  <2>1. m # n
    <3> SUFFICES ASSUME m = n PROVE j = i
      BY <1>6
    <3> QED
      BY <1>1, HeadFacts DEF In, On
  <2>2. next'[m] = next[m]
    BY <1>4, <2>1
  <2>3. next[m] # k
    <3>1. CASE j = i
      BY <1>0, <1>1, <2>1, <3>1, UniquePred
    <3>2. CASE j # i
      <4>1. next[m] # Nil => On(next[m], j)
        BY <1>3 DEF Follows
      <4> QED
        BY <1>0, <3>2, <4>1 DEF On
    <3> QED
      BY <3>1, <3>2
  <2> QED
    BY <1>2, <1>3, <2>2, <2>3 DEF Follows
<1> QED
  BY <1>5, <1>6

LEMMA RmUnlinkSerial ==
  ASSUME OneCpu, NEW age, Serial(age), RmUnlink(0), UNCHANGED <<procVars, call, target>>
  PROVE  Orderly(age)'
<1>1. pc[0] = "rm_unlink" /\ UNCHANGED <<count, item, list, cpuNum, state, lock, cpuOf, call, target>>
  BY DEF RmUnlink, Return
<1>2. pc[0] \in RemovePcs /\ pc[0] # "rm_start"
  BY <1>1 DEF RemovePcs
<1>3. curr[0] = item[0] /\ item[0] = target[0] /\ list[0] = Moves[call[0]].from /\ call[0] \in SerialCalls
  <2>1. curr[0] = item[0] /\ item[0] = target[0] /\ list[0] = Moves[call[0]].from
    BY <1>1, <1>2, SerialFacts DEF RemoveWalk, ArgInv
  <2>2. call[0] \notin SchedulerCalls /\ call[0] # NoCall
    BY <1>1, <1>2, OneCpuFacts, SerialFacts DEF CallInv
  <2> QED
    BY <2>1, <2>2, SerialFacts DEF ArgInv, SerialCalls, SchedulerCalls
<1>4. /\ next' = [next EXCEPT ![pred[0]] = next[curr[0]]] /\ ReleaseNext({pred[0], curr[0]})
      /\ pc'[0] = "removed" /\ result'[0] = 1
  BY <1>1, <1>3, OneCpuFacts, SerialFacts DEF RmUnlink, Return, TypeOK, ListTypeOK
<1>5. \A p, i : On(p, i)' <=> On(p, i) /\ p # curr[0]
  <2>1. \A p : Loose(p)' <=> p = curr[0]
    BY <1>1, <1>3, <1>4 DEF Loose
  <2>2. \A p : ~Loose(p) /\ At(p)' = At(p)
    BY <1>1, <1>4, PcFacts DEF Loose, At, AddPcs
  <2> QED
    BY <2>1, <2>2 DEF On
<1>6. Linked(age)'
  <2>1. pc[0] # "add_first_end" /\ pc'[0] # "add_first_end"
    BY <1>1, <1>4
  <2>2. In(pred[0], list[0]) /\ curr[0] \in Proc /\ next[pred[0]] = curr[0] /\ list[0] \in ListIndex
    BY <1>2, RemoveFacts DEF On
  <2> QED
    BY <1>4, <1>5, <2>1, <2>2, Unlinked
<1>7. RemoveWalk(age)' /\ FirstWalk(age)' /\ AddWalk'
  BY <1>4 DEF RemoveWalk, FirstWalk, AddWalk, RemovePcs, FirstPcs, AddPcs
<1>8. ArgInv'
  BY <1>1, <1>4, SerialFacts DEF ArgInv, RemovePcs, AddPcs
<1>9. NodesFree'
  <2>1. Held \subseteq {pred[0], curr[0]}
    BY <1>1 DEF Held
  <2>2. Held' = {}
    BY <1>4 DEF Held
  <2> QED
    BY <1>4, <2>1, <2>2, NoneHeld
<1>10. ProcsFree'
  <2>1. Holding(0)'
    BY <1>1, <1>3, <1>4, SerialMoves DEF Holding
  <2> QED
    BY <1>1, <2>1, SerialFacts DEF ProcsFree
<1>11. CountInv'
  <2>1. \A p \in Proc : On(p, Runnable)' <=> On(p, Runnable)
    <3>1. ~On(curr[0], Runnable)
      BY <1>2, <1>3, RemoveFacts, SerialMoves DEF On
    <3> QED
      BY <1>5, <3>1
  <2>2. Members(Runnable)' = Members(Runnable)
    BY <2>1 DEF Members
  <2> QED
    BY <1>1, <1>4, <2>2, SerialFacts DEF CountInv, Uncounted
<1> QED
  BY <1>6, <1>7, <1>8, <1>9, <1>10, <1>11, SerialFacts DEF Orderly, Ordered

-----------------------------------------------------------------------------
(* One CPU: steps of remove_first_in_line *)

LEMMA FirstFacts ==
  ASSUME OneCpu, NEW age, Serial(age), pc[0] \in FirstPcs
  PROVE  /\ list[0] = Runnable /\ list[0] \in ListIndex /\ pc[0] \in WalkPcs /\ pc[0] # "add_first_end"
         /\ HeadOf(0) \in Node /\ HeadOf(0) # Nil /\ HeadOf(0) \notin Proc /\ In(HeadOf(0), list[0])
         /\ HeadOf(0) = Head(list[0], 0)
         /\ pc[0] # "rf_start" => /\ In(pred[0], list[0]) /\ pred[0] \in Node /\ pred[0] # Nil
                                  /\ pred[0] \in Proc => curr[0] = next[pred[0]]
                                  /\ curr[0] # Nil => /\ On(curr[0], list[0]) /\ Behind(pred[0], curr[0], age)
                                                      /\ curr[0] \in Proc /\ curr[0] # pred[0]
         /\ pc[0] \notin {"rf_start", "rf_empty", "rf_test"} => curr[0] # Nil
<1>1. list[0] = Runnable /\ list[0] \in ListIndex
  BY ListFacts, SerialFacts DEF FirstWalk
<1>2. /\ HeadOf(0) = Head(list[0], 0) /\ HeadOf(0) \in Node /\ HeadOf(0) # Nil /\ HeadOf(0) \notin Proc
      /\ In(HeadOf(0), list[0])
  <2>1. cpuNum[0] = 0
    BY SerialFacts DEF ArgInv
  <2> QED
    BY <1>1, <2>1, HeadFacts, NodeFacts DEF HeadOf, In
<1>3. pc[0] \in WalkPcs /\ pc[0] # "add_first_end"
  BY PcFacts DEF AddPcs, WalkPcs
<1>4. CASE pc[0] # "rf_start"
  <2>1. /\ In(pred[0], list[0]) /\ (pred[0] \in Proc => curr[0] = next[pred[0]])
        /\ curr[0] # Nil => On(curr[0], list[0]) /\ Behind(pred[0], curr[0], age)
        /\ pc[0] \notin {"rf_empty", "rf_test"} => curr[0] # Nil
    BY <1>4, SerialFacts DEF FirstWalk
  <2>2. pred[0] \in Node /\ pred[0] # Nil
    BY <1>1, <1>3, <2>1, Successor
  <2>3. curr[0] # Nil => curr[0] \in Proc /\ curr[0] # pred[0]
    BY <2>1, SerialFacts DEF On, Behind
  <2> QED
    BY <1>1, <1>2, <1>3, <2>1, <2>2, <2>3
<1> QED
  BY <1>1, <1>2, <1>3, <1>4

LEMMA RfStartSerial ==
  ASSUME OneCpu, NEW age, Serial(age), RfStart(0), UNCHANGED <<procVars, call, target>>
  PROVE  Orderly(age)'
<1>1. pc[0] = "rf_start" /\ UNCHANGED <<next, next_lock, count, item, list, cpuNum, result, state, lock, cpuOf, call, target>>
  BY DEF RfStart
<1>2. pc[0] \in FirstPcs
  BY <1>1 DEF FirstPcs
<1>3. pc'[0] = "rf_empty" /\ pred'[0] = HeadOf(0) /\ curr'[0] = next[HeadOf(0)]
  BY <1>2, FirstFacts, StepIs, SerialFacts DEF RfStart
<1>4. pc[0] \in WalkPcs /\ pc'[0] \in WalkPcs \cup {"ub"} /\ (pc[0] \in RemovePcs <=> pc'[0] \in RemovePcs)
  BY <1>1, <1>3 DEF WalkPcs, FirstPcs, RemovePcs
<1>5. (\A p, i : On(p, i)' <=> On(p, i)) /\ (\A n, i : In(n, i)' <=> In(n, i))
  BY <1>1, <1>4, WalkStep
<1>6. FirstWalk(age)'
  <2>1. Follows(HeadOf(0), next[HeadOf(0)], list[0], age)
    BY <1>2, FirstFacts, Successor
  <2>2. /\ curr'[0] # Nil => On(curr[0], list[0])' /\ Behind(pred[0], curr[0], age)'
        /\ In(pred[0], list[0])' /\ pred'[0] \notin Proc
    BY <1>1, <1>2, <1>3, <1>5, <2>1, FirstFacts DEF Follows, Behind
  <2> QED
    BY <1>1, <1>2, <1>3, <2>2, FirstFacts DEF FirstWalk, HeadOf, Behind
<1>7. RemoveWalk(age)'
  BY <1>3 DEF RemoveWalk, RemovePcs
<1>8. NodesFree'
  BY <1>1, <1>3, SameHeld DEF Held
<1> QED
  BY <1>1, <1>4, <1>6, <1>7, <1>8, WalkEnd

LEMMA RfTestSerial ==
  ASSUME OneCpu, NEW age, Serial(age), RfTest(0), UNCHANGED <<procVars, call, target>>
  PROVE  Orderly(age)'
<1>1. pc[0] = "rf_test" /\ UNCHANGED <<next, next_lock, count, item, list, cpuNum, result, state, lock, cpuOf, call, target>>
      /\ UNCHANGED <<pred, curr, node>>
  BY DEF RfTest
<1>2. pc[0] \in FirstPcs
  BY <1>1 DEF FirstPcs
<1>3. pc'[0] = IF curr[0] = Nil THEN "ub" ELSE IF next[curr[0]] = Nil THEN "rf_lock_pred" ELSE "rf_step"
  BY <1>1, <1>2, FirstFacts, GotoIs, SerialFacts DEF RfTest
<1>4. pc[0] \in WalkPcs /\ pc'[0] \in WalkPcs \cup {"ub"} /\ (pc[0] \in RemovePcs <=> pc'[0] \in RemovePcs)
  BY <1>1, <1>3 DEF WalkPcs, FirstPcs, RemovePcs
<1>5. (\A p, i : On(p, i)' <=> On(p, i)) /\ (\A n, i : In(n, i)' <=> In(n, i))
  BY <1>1, <1>4, WalkStep
<1>6. FirstWalk(age)'
  <2>0. /\ In(pred[0], list[0])' /\ HeadOf(0)' = HeadOf(0) /\ pc'[0] # "rf_start" /\ list'[0] = Runnable
        /\ pred'[0] \in Proc => curr'[0] = next'[pred'[0]]
        /\ curr'[0] # Nil => On(curr[0], list[0])' /\ Behind(pred[0], curr[0], age)'
    BY <1>1, <1>2, <1>3, <1>5, FirstFacts DEF HeadOf, Behind
  <2>1. CASE curr[0] = Nil
    <3>1. pred[0] = HeadOf(0) /\ next[pred[0]] # Nil
      BY <1>1, <2>1, SerialFacts DEF FirstWalk
    <3>2. pc'[0] = "ub" /\ "ub" \notin FirstPcs
      BY <1>3, <2>1, PcFacts
    <3> QED
      BY <1>1, <2>0, <2>1, <3>1, <3>2 DEF FirstWalk
  <2>2. CASE curr[0] # Nil
    <3>1. pc'[0] \in {"rf_lock_pred", "rf_step"} /\ (pc'[0] = "rf_step" => next'[curr'[0]] # Nil)
      BY <1>1, <1>3, <2>2
    <3> QED
      BY <1>1, <2>0, <2>2, <3>1 DEF FirstWalk
  <2> QED
    BY <2>1, <2>2
<1>7. RemoveWalk(age)'
  BY <1>3 DEF RemoveWalk, RemovePcs
<1>8. NodesFree'
  BY <1>1, <1>3, SameHeld DEF Held
<1> QED
  BY <1>1, <1>4, <1>6, <1>7, <1>8, WalkEnd

LEMMA RfStepSerial ==
  ASSUME OneCpu, NEW age, Serial(age), RfStep(0), UNCHANGED <<procVars, call, target>>
  PROVE  Orderly(age)'
<1>1. pc[0] = "rf_step" /\ UNCHANGED <<next, next_lock, count, item, list, cpuNum, result, state, lock, cpuOf, call, target>>
  BY DEF RfStep
<1>2. pc[0] \in FirstPcs
  BY <1>1 DEF FirstPcs
<1>3. pc'[0] = "rf_test" /\ pred'[0] = curr[0] /\ curr'[0] = next[curr[0]] /\ next[curr[0]] # Nil
  BY <1>1, <1>2, FirstFacts, StepIs, SerialFacts DEF RfStep, FirstWalk
<1>4. pc[0] \in WalkPcs /\ pc'[0] \in WalkPcs \cup {"ub"} /\ (pc[0] \in RemovePcs <=> pc'[0] \in RemovePcs)
  BY <1>1, <1>3 DEF WalkPcs, FirstPcs, RemovePcs
<1>5. (\A p, i : On(p, i)' <=> On(p, i)) /\ (\A n, i : In(n, i)' <=> In(n, i))
  BY <1>1, <1>4, WalkStep
<1>6. FirstWalk(age)'
  <2>1. On(curr[0], list[0]) /\ Follows(curr[0], next[curr[0]], list[0], age)
    BY <1>1, <1>2, FirstFacts, Successor DEF In
  <2>2. On(next[curr[0]], list[0]) /\ Behind(curr[0], next[curr[0]], age)
    BY <1>3, <2>1 DEF Follows
  <2>3. In(pred[0], list[0])' /\ On(curr[0], list[0])' /\ Behind(pred[0], curr[0], age)'
    BY <1>1, <1>3, <1>5, <2>1, <2>2 DEF In, Behind
  <2> QED
    BY <1>1, <1>2, <1>3, <2>3, FirstFacts DEF FirstWalk, Behind
<1>7. RemoveWalk(age)'
  BY <1>3 DEF RemoveWalk, RemovePcs
<1>8. NodesFree'
  BY <1>1, <1>3, SameHeld DEF Held
<1> QED
  BY <1>1, <1>4, <1>6, <1>7, <1>8, WalkEnd

LEMMA RfLockPredSerial ==
  ASSUME OneCpu, NEW age, Serial(age), RfLockPred(0), UNCHANGED <<procVars, call, target>>
  PROVE  Orderly(age)'
<1>1. pc[0] = "rf_lock_pred" /\ UNCHANGED <<next, count, item, list, cpuNum, result, state, lock, cpuOf, call, target>>
      /\ UNCHANGED <<pred, curr, node>>
  BY DEF RfLockPred, LockPred
<1>2. pc[0] \in FirstPcs
  BY <1>1 DEF FirstPcs
<1>3. pc'[0] = "rf_lock_curr" /\ next_lock' = [next_lock EXCEPT ![pred[0]] = 0]
  <2>1. pred[0] \in Node /\ pred[0] \notin Held /\ AcquireNext(0, pred[0], "rf_lock_curr")
    BY <1>1, <1>2, FirstFacts DEF RfLockPred, LockPred, Held
  <2> QED
    BY <2>1, AcquireIs
<1>4. pc[0] \in WalkPcs /\ pc'[0] \in WalkPcs \cup {"ub"} /\ (pc[0] \in RemovePcs <=> pc'[0] \in RemovePcs)
  BY <1>1, <1>3 DEF WalkPcs, FirstPcs, RemovePcs
<1>5. (\A p, i : On(p, i)' <=> On(p, i)) /\ (\A n, i : In(n, i)' <=> In(n, i))
  BY <1>1, <1>4, WalkStep
<1>6. FirstWalk(age)'
  BY <1>1, <1>2, <1>3, <1>5, FirstFacts DEF FirstWalk, Behind
<1>7. RemoveWalk(age)'
  BY <1>3 DEF RemoveWalk, RemovePcs
<1>8. NodesFree'
  <2>1. Held' = Held \cup {pred[0]}
    BY <1>1, <1>3 DEF Held
  <2> QED
    BY <1>3, <2>1, MoreHeld
<1> QED
  BY <1>1, <1>4, <1>6, <1>7, <1>8, WalkEnd

LEMMA RfLockCurrSerial ==
  ASSUME OneCpu, NEW age, Serial(age), RfLockCurr(0), UNCHANGED <<procVars, call, target>>
  PROVE  Orderly(age)'
<1>1. pc[0] = "rf_lock_curr" /\ UNCHANGED <<next, count, item, list, cpuNum, result, state, lock, cpuOf, call, target>>
      /\ UNCHANGED <<pred, curr>>
  BY DEF RfLockCurr, LockCurr
<1>2. pc[0] \in FirstPcs
  BY <1>1 DEF FirstPcs
<1>3. pc'[0] = "rf_validate" /\ next_lock' = [next_lock EXCEPT ![curr[0]] = 0] /\ node'[0] = HeadOf(0)
  <2>1. curr[0] \in Node /\ curr[0] \notin Held
    BY <1>1, <1>2, FirstFacts, NodeFacts DEF Held
  <2>2. AcquireNext(0, curr[0], "rf_validate") /\ node' = [node EXCEPT ![0] = HeadOf(0)]
    BY DEF RfLockCurr, LockCurr
  <2> QED
    BY <2>1, <2>2, AcquireIs, OneCpuFacts, SerialFacts DEF TypeOK, ListTypeOK
<1>4. pc[0] \in WalkPcs /\ pc'[0] \in WalkPcs \cup {"ub"} /\ (pc[0] \in RemovePcs <=> pc'[0] \in RemovePcs)
  BY <1>1, <1>3 DEF WalkPcs, FirstPcs, RemovePcs
<1>5. (\A p, i : On(p, i)' <=> On(p, i)) /\ (\A n, i : In(n, i)' <=> In(n, i))
  BY <1>1, <1>4, WalkStep
<1>6. FirstWalk(age)'
  <2>1. NodeInv(age)'
    BY <1>1, <1>2, <1>3, <1>5, FirstFacts DEF NodeInv, Behind, In
  <2> QED
    BY <1>1, <1>2, <1>3, <1>5, <2>1, FirstFacts DEF FirstWalk, Behind
<1>7. RemoveWalk(age)'
  BY <1>3 DEF RemoveWalk, RemovePcs
<1>8. NodesFree'
  <2>1. Held' = Held \cup {curr[0]}
    BY <1>1, <1>3 DEF Held
  <2> QED
    BY <1>3, <2>1, MoreHeld
<1> QED
  BY <1>1, <1>4, <1>6, <1>7, <1>8, WalkEnd

LEMMA RfValidateSerial ==
  ASSUME OneCpu, NEW age, Serial(age), RfValidate(0), UNCHANGED <<procVars, call, target>>
  PROVE  Orderly(age)'
<1>1. pc[0] = "rf_validate" /\ UNCHANGED <<next, next_lock, count, item, list, cpuNum, result, state, lock, cpuOf, call, target>>
      /\ UNCHANGED <<pred, curr, node>>
  BY DEF RfValidate, Validate
<1>2. pc[0] \in FirstPcs
  BY <1>1 DEF FirstPcs
<1>0. NodeInv(age)
  BY <1>1, SerialFacts DEF FirstWalk
<1>3. pc'[0] = IF node[0] # pred[0] THEN "rf_validate_next"
                ELSE IF next[pred[0]] = curr[0] THEN "rf_unlink" ELSE "rf_release"
  <2>1. node[0] # Nil /\ next[node[0]] # Nil
    BY <1>0, <1>1, <1>2, FirstFacts, ValidateFacts
  <2> QED
    BY <1>1, <1>2, <2>1, FirstFacts, GotoIs, SerialFacts DEF RfValidate, Validate
<1>4. pc[0] \in WalkPcs /\ pc'[0] \in WalkPcs \cup {"ub"} /\ (pc[0] \in RemovePcs <=> pc'[0] \in RemovePcs)
  BY <1>1, <1>3 DEF WalkPcs, FirstPcs, RemovePcs
<1>5. (\A p, i : On(p, i)' <=> On(p, i)) /\ (\A n, i : In(n, i)' <=> In(n, i))
  BY <1>1, <1>4, WalkStep
<1>6. FirstWalk(age)'
  <2>1. NodeInv(age)'
    BY <1>0, <1>1, <1>5 DEF NodeInv, Behind
  <2> QED
    BY <1>1, <1>2, <1>3, <1>5, <2>1, FirstFacts DEF FirstWalk, Behind
<1>7. RemoveWalk(age)'
  BY <1>3 DEF RemoveWalk, RemovePcs
<1>8. NodesFree'
  BY <1>1, <1>3, SameHeld DEF Held
<1> QED
  BY <1>1, <1>4, <1>6, <1>7, <1>8, WalkEnd

LEMMA RfValidateNextSerial ==
  ASSUME OneCpu, NEW age, Serial(age), RfValidateNext(0), UNCHANGED <<procVars, call, target>>
  PROVE  Orderly(age)'
<1>1. pc[0] = "rf_validate_next" /\ UNCHANGED <<next, next_lock, count, item, list, cpuNum, result, state, lock, cpuOf, call, target>>
      /\ UNCHANGED <<pred, curr>>
  BY DEF RfValidateNext, ValidateNext
<1>2. pc[0] \in FirstPcs
  BY <1>1 DEF FirstPcs
<1>0. NodeInv(age) /\ node[0] # pred[0]
  BY <1>1, SerialFacts DEF FirstWalk
<1>3. pc'[0] = "rf_validate" /\ node'[0] = next[node[0]]
  BY OneCpuFacts, GotoIs, SerialFacts DEF RfValidateNext, ValidateNext, TypeOK, ListTypeOK
<1>4. pc[0] \in WalkPcs /\ pc'[0] \in WalkPcs \cup {"ub"} /\ (pc[0] \in RemovePcs <=> pc'[0] \in RemovePcs)
  BY <1>1, <1>3 DEF WalkPcs, FirstPcs, RemovePcs
<1>5. (\A p, i : On(p, i)' <=> On(p, i)) /\ (\A n, i : In(n, i)' <=> In(n, i))
  BY <1>1, <1>4, WalkStep
<1>6. FirstWalk(age)'
  <2>1. /\ In(next[node[0]], list[0])
        /\ next[node[0]] # pred[0] => On(pred[0], list[0]) /\ Behind(next[node[0]], pred[0], age)
    BY <1>0, <1>1, <1>2, FirstFacts, ValidateFacts
  <2>2. NodeInv(age)'
    BY <1>1, <1>3, <1>5, <2>1 DEF NodeInv, Behind
  <2> QED
    BY <1>1, <1>2, <1>3, <1>5, <2>2, FirstFacts DEF FirstWalk, Behind
<1>7. RemoveWalk(age)'
  BY <1>3 DEF RemoveWalk, RemovePcs
<1>8. NodesFree'
  BY <1>1, <1>3, SameHeld DEF Held
<1> QED
  BY <1>1, <1>4, <1>6, <1>7, <1>8, WalkEnd

LEMMA RfEmptySerial ==
  ASSUME OneCpu, NEW age, Serial(age), RfEmpty(0), UNCHANGED <<procVars, call, target>>
  PROVE  Orderly(age)'
<1>1. pc[0] = "rf_empty" /\ UNCHANGED <<next, next_lock, count, item, list, cpuNum, state, lock, cpuOf, call, target>>
  BY DEF RfEmpty, Return
<1>2. pc[0] \in FirstPcs
  BY <1>1 DEF FirstPcs
<1>a. CASE next[pred[0]] # Nil
  <2>1. pc'[0] = "rf_test" /\ UNCHANGED <<pred, curr, node, result>>
    BY <1>a, GotoIs, SerialFacts DEF RfEmpty
  <2>2. pc[0] \in WalkPcs /\ pc'[0] \in WalkPcs \cup {"ub"} /\ (pc[0] \in RemovePcs <=> pc'[0] \in RemovePcs)
    BY <1>1, <2>1 DEF WalkPcs, FirstPcs, RemovePcs
  <2>3. (\A p, i : On(p, i)' <=> On(p, i)) /\ (\A n, i : In(n, i)' <=> In(n, i))
    BY <1>1, <2>1, <2>2, WalkStep
  <2>4. FirstWalk(age)'
    <3>1. pred[0] = HeadOf(0)
      BY <1>1, SerialFacts DEF FirstWalk
    <3> QED
      BY <1>1, <1>2, <1>a, <2>1, <2>3, <3>1, FirstFacts DEF FirstWalk, HeadOf, Behind
  <2>5. RemoveWalk(age)'
    BY <2>1 DEF RemoveWalk, RemovePcs
  <2>6. NodesFree'
    BY <1>1, <2>1, SameHeld DEF Held
  <2> QED
    BY <1>1, <2>1, <2>2, <2>4, <2>5, <2>6, WalkEnd
<1>b. CASE next[pred[0]] = Nil
  <2>1. pc'[0] = "took_first" /\ result'[0] = Nil
    BY <1>b, OneCpuFacts, SerialFacts DEF RfEmpty, Return, TypeOK, ListTypeOK
  <2>2. \A p, i : On(p, i)' <=> On(p, i)
    <3>1. \A p \in Proc : ~Loose(p) /\ ~Loose(p)'
      BY <1>1, <2>1, Indices DEF Loose, AddPcs
    <3>2. \A p : At(p)' = At(p)
      BY <1>1, <2>1 DEF At
    <3> QED
      BY <3>1, <3>2 DEF On
  <2>3. Linked(age)'
    <3>1. \A n : NextOf(n)' = NextOf(n)
      BY <1>1, <2>1 DEF NextOf
    <3> QED
      BY <2>2, <3>1, SameLinks, SerialFacts
  <2>4. RemoveWalk(age)' /\ FirstWalk(age)' /\ AddWalk'
    BY <2>1 DEF RemoveWalk, FirstWalk, AddWalk, RemovePcs, FirstPcs, AddPcs
  <2>5. ArgInv'
    BY <1>1, <2>1, SerialFacts DEF ArgInv, RemovePcs, AddPcs
  <2>6. NodesFree'
    BY <1>1, <2>1, SameHeld DEF Held
  <2>7. ProcsFree'
    <3>1. ~Holding(0)
      BY <1>1 DEF Holding, RemovePcs, AddPcs
    <3> QED
      BY <1>1, <3>1, SerialFacts DEF ProcsFree
  <2>8. CountInv'
    BY <1>1, <2>1, <2>2, SameCount, SerialFacts DEF Uncounted
  <2> QED
    BY <2>3, <2>4, <2>5, <2>6, <2>7, <2>8, SerialFacts DEF Orderly, Ordered
<1> QED
  BY <1>a, <1>b

LEMMA RfUnlinkSerial ==
  ASSUME OneCpu, NEW age, Serial(age), RfUnlink(0), UNCHANGED <<procVars, call, target>>
  PROVE  Orderly(age)'
<1>1. pc[0] = "rf_unlink" /\ UNCHANGED <<item, list, cpuNum, state, lock, cpuOf, call, target>>
  BY DEF RfUnlink, Return
<1>2. pc[0] \in FirstPcs
  BY <1>1 DEF FirstPcs
<1>3. /\ next' = [next EXCEPT ![pred[0]] = next[curr[0]]] /\ ReleaseNext({pred[0], curr[0]})
      /\ pc'[0] = "took_first" /\ result'[0] = curr[0] /\ count'[0] = count[0] - 1
  <2>1. cpuNum[0] = 0 /\ pc \in [CPU -> Pcs] /\ count \in [CPU -> Int] /\ result \in [CPU -> Proc \cup {Nil, 1}]
    BY SerialFacts DEF ArgInv, TypeOK, ListTypeOK
  <2> QED
    BY <2>1, OneCpuFacts DEF RfUnlink, Return, Goto
<1>4. In(pred[0], Runnable) /\ curr[0] \in Proc /\ next[pred[0]] = curr[0] /\ On(curr[0], Runnable) /\ Runnable \in ListIndex
  <2>1. next[pred[0]] = curr[0]
    BY <1>1, SerialFacts DEF FirstWalk
  <2>2. curr[0] # Nil
    BY <1>1, <1>2, FirstFacts
  <2> QED
    BY <1>1, <1>2, <2>1, <2>2, FirstFacts
<1>5. \A p, i : On(p, i)' <=> On(p, i) /\ p # curr[0]
  <2>1. \A p : (Loose(p)' <=> p = curr[0]) /\ ~Loose(p)
    BY <1>1, <1>3 DEF Loose, AddPcs
  <2>2. \A p : At(p)' = At(p)
    BY <1>1, <1>3 DEF At
  <2> QED
    BY <2>1, <2>2 DEF On
<1>6. Linked(age)'
  <2>1. pc[0] # "add_first_end" /\ pc'[0] # "add_first_end"
    BY <1>1, <1>3
  <2> QED
    BY <1>3, <1>4, <1>5, <2>1, Unlinked
<1>7. RemoveWalk(age)' /\ FirstWalk(age)' /\ AddWalk'
  BY <1>3 DEF RemoveWalk, FirstWalk, AddWalk, RemovePcs, FirstPcs, AddPcs
<1>8. ArgInv'
  <2>1. state[curr[0]] = "RUNNABLE"
    <3>1. ListOf[state[curr[0]]] = Runnable
      BY <1>1, <1>4 DEF On, At
    <3>2. state[curr[0]] \in {"UNUSED", "USED", "RUNNABLE", "RUNNING", "SLEEPING", "ZOMBIE"}
      BY <1>4, Indices, SerialFacts DEF TypeOK
    <3> QED
      BY <3>1, <3>2 DEF ListOf, Running, Unused, Runnable, Sleeping, Zombie
  <2> QED
    BY <1>1, <1>3, <2>1, SerialFacts DEF ArgInv, RemovePcs, AddPcs
<1>9. NodesFree'
  <2>1. Held \subseteq {pred[0], curr[0]}
    BY <1>1 DEF Held
  <2>2. Held' = {}
    BY <1>3 DEF Held
  <2> QED
    BY <1>3, <2>1, <2>2, NoneHeld
<1>10. ProcsFree'
  <2>1. ~Holding(0)
    BY <1>1 DEF Holding, RemovePcs, AddPcs
  <2> QED
    BY <1>1, <2>1, SerialFacts DEF ProcsFree
<1>11. CountInv'
  <2>1. Members(Runnable)' = Members(Runnable) \ {curr[0]}
    BY <1>5 DEF Members
  <2>2. IsFiniteSet(Members(Runnable)) /\ curr[0] \in Members(Runnable)
    <3>1. IsFiniteSet(Proc)
      BY ProcListsAssumption, FS_Interval DEF Proc
    <3> QED
      BY <1>4, <3>1, FS_Subset DEF Members
  <2>3. Cardinality(Members(Runnable)') = Cardinality(Members(Runnable)) - 1
    BY <2>1, <2>2, FS_RemoveElement
  <2>4. Uncounted = 0 /\ Uncounted' = 0 /\ count[0] \in Int
    BY <1>1, <1>3, OneCpuFacts, SerialFacts DEF Uncounted, TypeOK, ListTypeOK
  <2>5. count[0] + 0 = Cardinality(Members(Runnable))
    BY <2>4, SerialFacts DEF CountInv
  <2> QED
    BY <1>3, <2>3, <2>4, <2>5 DEF CountInv
<1> QED
  BY <1>6, <1>7, <1>8, <1>9, <1>10, <1>11, SerialFacts DEF Orderly, Ordered

LEMMA RfReleaseSerial ==
  ASSUME OneCpu, NEW age, Serial(age), RfRelease(0), UNCHANGED <<procVars, call, target>>
  PROVE  Orderly(age)'
<1>1. pc[0] = "rf_release" /\ UNCHANGED <<next, count, item, list, cpuNum, result, state, lock, cpuOf, call, target>>
  BY DEF RfRelease
<1>2. pc[0] \in FirstPcs
  BY <1>1 DEF FirstPcs
<1>3. pc'[0] = "rf_start" /\ ReleaseNext({pred[0], curr[0]})
  BY GotoIs, SerialFacts DEF RfRelease
<1>4. pc[0] \in WalkPcs /\ pc'[0] \in WalkPcs \cup {"ub"} /\ (pc[0] \in RemovePcs <=> pc'[0] \in RemovePcs)
  BY <1>1, <1>3 DEF WalkPcs, FirstPcs, RemovePcs
<1>5. FirstWalk(age)'
  BY <1>1, <1>2, <1>3, FirstFacts DEF FirstWalk
<1>6. RemoveWalk(age)'
  BY <1>3 DEF RemoveWalk, RemovePcs
<1>7. NodesFree'
  <2>1. Held \subseteq {pred[0], curr[0]} /\ Held' = {}
    BY <1>1, <1>3 DEF Held
  <2> QED
    BY <1>3, <2>1, NoneHeld
<1> QED
  BY <1>1, <1>4, <1>5, <1>6, <1>7, WalkEnd

-----------------------------------------------------------------------------
(* One CPU: steps of add *)

LEMMA AddFacts ==
  ASSUME OneCpu, NEW age, Serial(age), pc[0] \in AddPcs
  PROVE  /\ item[0] = target[0] /\ item[0] \in Proc /\ list[0] \in ListIndex /\ Holding(0)
         /\ HeadOf(0) \in Node /\ HeadOf(0) # Nil /\ HeadOf(0) \notin Proc /\ HeadOf(0) = Head(list[0], 0)
         /\ In(HeadOf(0), list[0])
         /\ \A p : Loose(p) <=> p = item[0]
         /\ pc[0] # "add_lock_head" => pred[0] = HeadOf(0)
         /\ pc[0] \in {"add_lock_curr", "add_validate", "add_link", "add_link_end"} =>
              /\ curr[0] = next[HeadOf(0)] /\ curr[0] # Nil /\ On(curr[0], list[0])
              /\ curr[0] \in Proc /\ curr[0] # item[0]
<1>1. item[0] = target[0] /\ item[0] \in Proc /\ list[0] \in ListIndex
  BY OneCpuFacts, SerialFacts DEF ArgInv, TypeOK, ListTypeOK
<1>2. /\ HeadOf(0) \in Node /\ HeadOf(0) # Nil /\ HeadOf(0) \notin Proc /\ HeadOf(0) = Head(list[0], 0)
      /\ In(HeadOf(0), list[0])
  <2>1. cpuNum[0] = 0
    BY SerialFacts DEF ArgInv
  <2> QED
    BY <1>1, <2>1, HeadFacts, NodeFacts DEF HeadOf, In
<1>3. \A p : Loose(p) <=> p = item[0]
  BY <1>1, PcFacts DEF Loose
<1>4. Holding(0)
  <2>1. call[0] # NoCall
    <3>1. pc[0] \notin {"sched", "run"}
      BY PcFacts
    <3> QED
      BY <3>1, OneCpuFacts, SerialFacts DEF CallInv
  <2>2. call[0] \in SerialCalls \cup {"scheduler"}
    BY <2>1, SerialFacts DEF ArgInv, SerialCalls
  <2> QED
    BY <2>2, SerialMoves DEF Holding, SchedulerCalls
<1>5. pc[0] # "add_lock_head" => pred[0] = HeadOf(0)
  BY SerialFacts DEF AddWalk
<1>6. ASSUME pc[0] \in {"add_lock_curr", "add_validate", "add_link", "add_link_end"}
      PROVE  /\ curr[0] = next[HeadOf(0)] /\ curr[0] # Nil /\ On(curr[0], list[0])
             /\ curr[0] \in Proc /\ curr[0] # item[0]
  <2>1. curr[0] = next[HeadOf(0)] /\ curr[0] # Nil
    BY <1>5, <1>6, SerialFacts DEF AddWalk
  <2>2. pc[0] # "add_first_end"
    BY <1>6
  <2>3. Follows(HeadOf(0), curr[0], list[0], age)
    BY <1>1, <1>2, <2>1, <2>2, Successor
  <2> QED
    BY <1>3, <2>1, <2>3 DEF Follows, On
<1> QED
  BY <1>1, <1>2, <1>3, <1>4, <1>5, <1>6

\* A step of add before the last one changes no list.
LEMMA AddStep ==
  ASSUME OneCpu, NEW age, Serial(age), pc[0] \in AddPcs, pc'[0] \in AddPcs,
         UNCHANGED <<count, item, list, cpuNum, result, state, lock, cpuOf, call, target>>,
         \A i \in ListIndex, n \in Node : In(n, i) => NextOf(n)' = NextOf(n),
         NodesFree', AddWalk'
  PROVE  Orderly(age)'
<1>1. /\ pc[0] \notin {"removed", "added", "moved", "took_first"}
      /\ pc'[0] \notin RemovePcs \cup FirstPcs \cup {"removed", "added", "moved", "took_first", "panic", "ub", "yield", "lock", "rf_release"}
  BY PcFacts DEF FirstPcs
<1>2. \A p, i : On(p, i)' <=> On(p, i)
  <2>1. \A p : Loose(p)' <=> Loose(p)
    BY <1>1 DEF Loose
  <2>2. \A p : At(p)' = At(p)
    BY <1>1 DEF At
  <2> QED
    BY <2>1, <2>2 DEF On
<1>3. Linked(age)'
  BY <1>2, SameLinks, SerialFacts
<1>4. RemoveWalk(age)' /\ FirstWalk(age)'
  BY <1>1 DEF RemoveWalk, FirstWalk, RemovePcs, FirstPcs
<1>5. ArgInv'
  BY <1>1, SerialFacts DEF ArgInv, Dest
<1>6. ProcsFree'
  <2>1. Holding(0)'
    BY AddFacts, PcFacts DEF Holding
  <2> QED
    BY <2>1, SerialFacts DEF ProcsFree
<1>7. CountInv'
  BY <1>1, <1>2, SameCount, SerialFacts DEF Uncounted
<1> QED
  BY <1>3, <1>4, <1>5, <1>6, <1>7, SerialFacts DEF Orderly, Ordered

LEMMA AddLockHeadSerial ==
  ASSUME OneCpu, NEW age, Serial(age), AddLockHead(0), UNCHANGED <<procVars, call, target>>
  PROVE  Orderly(age)'
<1>1. pc[0] = "add_lock_head" /\ UNCHANGED <<next, count, item, list, cpuNum, result, state, lock, cpuOf, call, target>>
  BY DEF AddLockHead
<1>2. pc[0] \in AddPcs /\ Held = {}
  BY <1>1 DEF AddPcs, Held
<1>3. /\ pc'[0] = "add_test" /\ next_lock' = [next_lock EXCEPT ![HeadOf(0)] = 0] /\ pred'[0] = HeadOf(0)
      /\ HeadOf(0)' = HeadOf(0)
  <2>1. AcquireNext(0, HeadOf(0), "add_test") /\ pred' = [pred EXCEPT ![0] = HeadOf(0)]
    BY DEF AddLockHead
  <2> QED
    BY <1>1, <1>2, <2>1, AddFacts, AcquireIs, OneCpuFacts, SerialFacts DEF TypeOK, ListTypeOK, HeadOf
<1>4. pc'[0] \in AddPcs
  BY <1>3 DEF AddPcs
<1>5. \A n : NextOf(n)' = NextOf(n)
  BY <1>1, <1>3 DEF NextOf
<1>6. AddWalk'
  BY <1>3 DEF AddWalk
<1>7. NodesFree'
  <2>1. Held' = Held \cup {HeadOf(0)}
    BY <1>2, <1>3 DEF Held
  <2> QED
    BY <1>3, <2>1, MoreHeld
<1> QED
  BY <1>1, <1>2, <1>4, <1>5, <1>6, <1>7, AddStep

LEMMA AddTestSerial ==
  ASSUME OneCpu, NEW age, Serial(age), AddTest(0), UNCHANGED <<procVars, call, target>>
  PROVE  Orderly(age)'
<1>1. pc[0] = "add_test" /\ UNCHANGED <<next, next_lock, count, item, list, cpuNum, result, state, lock, cpuOf, call, target>>
      /\ UNCHANGED pred
  BY DEF AddTest
<1>2. pc[0] \in AddPcs
  BY <1>1 DEF AddPcs
<1>3. /\ curr'[0] = next[pred[0]] /\ HeadOf(0)' = HeadOf(0)
      /\ IF next[pred[0]] = Nil THEN pc'[0] = "add_first" ELSE pc'[0] = "add_lock_curr"
  BY <1>1, OneCpuFacts, GotoIs, SerialFacts DEF AddTest, TypeOK, ListTypeOK, HeadOf
<1>4. pc'[0] \in AddPcs
  BY <1>3 DEF AddPcs
<1>5. \A n : NextOf(n)' = NextOf(n)
  BY <1>1, <1>3 DEF NextOf
<1>6. AddWalk'
  <2>1. CASE next[pred[0]] # Nil
    BY <1>1, <1>2, <1>3, <2>1, AddFacts DEF AddWalk
  <2>2. CASE next[pred[0]] = Nil
    <3>1. \A x \in Proc : ~On(x, list[0])
      <4>1. pc[0] # "add_first_end" /\ pred[0] = HeadOf(0)
        BY <1>1, <1>2, AddFacts
      <4>2. Follows(HeadOf(0), Nil, list[0], age)
        BY <1>2, <2>2, <4>1, AddFacts, Successor
      <4> QED
        BY <1>2, <4>2, AddFacts DEF Follows, Behind
    <3>2. \A x \in Proc : ~On(x, list[0])'
      BY <1>1, <1>2, <1>3, <2>2, <3>1, PcFacts DEF On, Loose, At, AddPcs
    <3> QED
      BY <1>1, <1>2, <1>3, <2>2, <3>2, AddFacts DEF AddWalk
  <2> QED
    BY <2>1, <2>2
<1>7. NodesFree'
  BY <1>1, <1>3, SameHeld DEF Held
<1> QED
  BY <1>1, <1>2, <1>4, <1>5, <1>6, <1>7, AddStep

LEMMA AddFirstSerial ==
  ASSUME OneCpu, NEW age, Serial(age), AddFirst(0), UNCHANGED <<procVars, call, target>>
  PROVE  Orderly(age)'
<1>1. pc[0] = "add_first" /\ UNCHANGED <<next_lock, count, item, list, cpuNum, result, state, lock, cpuOf, call, target>>
      /\ UNCHANGED <<pred, curr, node>>
  BY DEF AddFirst
<1>2. pc[0] \in AddPcs /\ pred[0] = HeadOf(0)
  BY <1>1, AddFacts DEF AddPcs
<1>3. pc'[0] = "add_first_end" /\ next' = [next EXCEPT ![HeadOf(0)] = item[0]] /\ HeadOf(0)' = HeadOf(0)
  BY <1>1, <1>2, GotoIs, SerialFacts DEF AddFirst, HeadOf
<1>4. pc'[0] \in AddPcs
  BY <1>3 DEF AddPcs
<1>5. \A x \in Proc : ~On(x, list[0])
  BY <1>1, SerialFacts DEF AddWalk
<1>6. \A n \in Node : NextOf(n)' = NextOf(n)
  <2>1. next[HeadOf(0)] = Nil
    <3>1. pc[0] # "add_first_end"
      BY <1>1
    <3> QED
      BY <1>2, <1>5, <3>1, AddFacts, Successor DEF Follows, On
  <2>2. \A n \in Node : n # HeadOf(0) => next'[n] = next[n]
    BY <1>3, SerialFacts DEF TypeOK, ListTypeOK
  <2> QED
    BY <1>1, <1>2, <1>3, <2>1, <2>2 DEF NextOf
<1>7. AddWalk'
  <2>1. \A x \in Proc : ~On(x, list[0])'
    BY <1>1, <1>2, <1>3, <1>5, PcFacts DEF On, Loose, At, AddPcs
  <2>2. next'[HeadOf(0)] = item[0]
    BY <1>2, <1>3, AddFacts, SerialFacts DEF TypeOK, ListTypeOK
  <2> QED
    BY <1>1, <1>2, <1>3, <2>1, <2>2 DEF AddWalk
<1>8. NodesFree'
  BY <1>1, <1>3, SameHeld DEF Held
<1> QED
  BY <1>1, <1>2, <1>4, <1>6, <1>7, <1>8, AddStep

LEMMA AddLockCurrSerial ==
  ASSUME OneCpu, NEW age, Serial(age), AddLockCurr(0), UNCHANGED <<procVars, call, target>>
  PROVE  Orderly(age)'
<1>1. pc[0] = "add_lock_curr" /\ UNCHANGED <<next, count, item, list, cpuNum, result, state, lock, cpuOf, call, target>>
      /\ UNCHANGED <<pred, curr>>
  BY DEF AddLockCurr, LockCurr
<1>2. pc[0] \in AddPcs /\ pred[0] = HeadOf(0) /\ Held = {HeadOf(0)}
  BY <1>1, AddFacts DEF AddPcs, Held
<1>3. curr[0] = next[HeadOf(0)] /\ curr[0] # Nil /\ curr[0] \in Node /\ curr[0] \notin Held
  BY <1>1, <1>2, AddFacts, NodeFacts
<1>4. pc'[0] = "add_validate" /\ next_lock' = [next_lock EXCEPT ![curr[0]] = 0] /\ HeadOf(0)' = HeadOf(0)
  <2>1. AcquireNext(0, curr[0], "add_validate")
    BY DEF AddLockCurr, LockCurr
  <2> QED
    BY <1>1, <1>3, <2>1, AcquireIs DEF HeadOf
<1>5. pc'[0] \in AddPcs
  BY <1>4 DEF AddPcs
<1>6. \A n : NextOf(n)' = NextOf(n)
  BY <1>1, <1>4 DEF NextOf
<1>7. AddWalk'
  BY <1>1, <1>2, <1>3, <1>4 DEF AddWalk
<1>8. NodesFree'
  <2>1. Held' = Held \cup {curr[0]}
    BY <1>1, <1>2, <1>4 DEF Held
  <2> QED
    BY <1>4, <2>1, MoreHeld
<1> QED
  BY <1>1, <1>2, <1>5, <1>6, <1>7, <1>8, AddStep

LEMMA AddValidateSerial ==
  ASSUME OneCpu, NEW age, Serial(age), AddValidate(0), UNCHANGED <<procVars, call, target>>
  PROVE  Orderly(age)'
<1>1. pc[0] = "add_validate" /\ UNCHANGED <<next, count, item, list, cpuNum, result, state, lock, cpuOf, call, target>>
      /\ UNCHANGED <<pred, curr, node>>
  BY DEF AddValidate
<1>2. pc[0] \in AddPcs /\ pred[0] = HeadOf(0)
  BY <1>1, AddFacts DEF AddPcs
<1>3. curr[0] = next[HeadOf(0)] /\ curr[0] # Nil
  BY <1>1, <1>2, AddFacts
<1>4. pc'[0] = "add_link" /\ UNCHANGED next_lock /\ HeadOf(0)' = HeadOf(0)
  BY <1>1, <1>2, <1>3, GotoIs, SerialFacts DEF AddValidate, HeadOf
<1>5. pc'[0] \in AddPcs
  BY <1>4 DEF AddPcs
<1>6. \A n : NextOf(n)' = NextOf(n)
  BY <1>1, <1>4 DEF NextOf
<1>7. AddWalk'
  BY <1>1, <1>2, <1>3, <1>4 DEF AddWalk
<1>8. NodesFree'
  BY <1>1, <1>4, SameHeld DEF Held
<1> QED
  BY <1>1, <1>2, <1>5, <1>6, <1>7, <1>8, AddStep

LEMMA AddLinkSerial ==
  ASSUME OneCpu, NEW age, Serial(age), AddLink(0), UNCHANGED <<procVars, call, target>>
  PROVE  Orderly(age)'
<1>1. pc[0] = "add_link" /\ UNCHANGED <<next_lock, count, item, list, cpuNum, result, state, lock, cpuOf, call, target>>
      /\ UNCHANGED <<pred, curr, node>>
  BY DEF AddLink
<1>2. pc[0] \in AddPcs /\ pred[0] = HeadOf(0)
  BY <1>1, AddFacts DEF AddPcs
<1>3. pc'[0] = "add_link_end" /\ next' = [next EXCEPT ![item[0]] = next[HeadOf(0)]] /\ HeadOf(0)' = HeadOf(0)
  BY <1>1, <1>2, GotoIs, SerialFacts DEF AddLink, HeadOf
<1>4. pc'[0] \in AddPcs
  BY <1>3 DEF AddPcs
<1>5. /\ \A n \in Node : n # item[0] => next'[n] = next[n]
      /\ next'[item[0]] = next[HeadOf(0)] /\ next'[HeadOf(0)] = next[HeadOf(0)]
  <2>1. next \in [Node -> Proc \cup {Nil}]
    BY SerialFacts DEF TypeOK, ListTypeOK
  <2> QED
    BY <1>2, <1>3, <2>1, AddFacts, NodeFacts
<1>6. \A i \in ListIndex, n \in Node : In(n, i) => NextOf(n)' = NextOf(n)
  <2>1. \A n, i : In(n, i) /\ i \in ListIndex => n # item[0]
    BY <1>2, AddFacts, HeadFacts DEF In, On
  <2> QED
    BY <1>1, <1>3, <1>5, <2>1 DEF NextOf
<1>7. AddWalk'
  BY <1>1, <1>2, <1>3, <1>5, AddFacts DEF AddWalk
<1>8. NodesFree'
  BY <1>1, <1>3, SameHeld DEF Held
<1> QED
  BY <1>1, <1>2, <1>4, <1>6, <1>7, <1>8, AddStep

-----------------------------------------------------------------------------
(* One CPU: the last step of add *)

Lt == {ss \in Nat \X Nat : ss[1] < ss[2]}

LEMMA LtWellFounded == IsWellFoundedOn(Lt, Nat)
  BY NatLessThanWellFounded DEF OpToRel, Lt

LEMMA LeastIn ==
  ASSUME NEW S \in SUBSET Nat, S # {}
  PROVE  \E x \in S : \A y \in S : x <= y
<1>1. PICK x \in S : \A y \in S : ~(<<y, x>> \in Lt)
  BY LtWellFounded, WFMin
<1>2. \A y \in S : <<y, x>> \in Lt <=> y < x
  BY DEF Lt
<1>3. x \in Nat /\ \A y \in S : y \in Nat /\ ~(y < x)
  BY <1>1, <1>2
<1> QED
  BY <1>3

\* There is an age beyond all others.
LEMMA Older ==
  ASSUME NEW age \in [Proc -> Nat]
  PROVE  \E b \in Nat : \A p \in Proc : age[p] < b
<1> DEFINE Bounded(k) == \E b \in Nat : \A p \in Proc : p < k => age[p] < b
           Bad == {k \in Nat : k <= NPROC /\ ~Bounded(k)}
<1>1. Bad = {}
  <2> SUFFICES ASSUME Bad # {} PROVE FALSE
    OBVIOUS
  <2>1. PICK k \in Bad : \A j \in Bad : k <= j
    BY LeastIn
  <2>2. Bounded(0)
    <3>1. \A p \in Proc : ~(p < 0)
      BY ProcListsAssumption DEF Proc
    <3> QED
      BY <3>1
  <2>3. k \in Nat \ {0} /\ k - 1 \in Nat /\ k - 1 \in Proc /\ k - 1 <= NPROC /\ ~(k <= k - 1)
    BY <2>1, <2>2, ProcListsAssumption DEF Proc
  <2>4. Bounded(k - 1)
    BY <2>1, <2>3
  <2>5. PICK b \in Nat : \A p \in Proc : p < k - 1 => age[p] < b
    BY <2>4
  <2> DEFINE d == IF age[k - 1] < b THEN b ELSE age[k - 1] + 1
  <2>6. d \in Nat /\ b <= d /\ age[k - 1] < d
    BY <2>3
  <2>7. \A p \in Proc : p < k => p < k - 1 \/ p = k - 1
    BY <2>3 DEF Proc
  <2>8. \A p \in Proc : p < k => age[p] < d
    BY <2>5, <2>6, <2>7
  <2> QED
    BY <2>1, <2>6, <2>8
<1>2. Bounded(NPROC)
  BY <1>1, ProcListsAssumption
<1>3. \A p \in Proc : p < NPROC
  BY ProcListsAssumption DEF Proc
<1> QED
  BY <1>2, <1>3

\* Ages where x is the youngest process
Youngest(x, age, young) ==
    /\ young \in [Proc -> Nat]
    /\ \A p \in Proc : p # x => young[p] = age[p] /\ age[p] < young[x]

\* The item becomes the youngest of its list.
LEMMA Front ==
  ASSUME OneCpu, NEW age, Serial(age), pc[0] \in {"add_first_end", "add_link_end"}, pc'[0] = "added",
         UNCHANGED <<item, list, cpuNum, state, target>>,
         NEW young, Youngest(item[0], age, young),
         next'[HeadOf(0)] = item[0], next'[item[0]] = NextOf(HeadOf(0)),
         \A n \in Node : n # HeadOf(0) /\ n # item[0] => next'[n] = next[n]
  PROVE  /\ \A p, q \in Proc : p # q => young[p] # young[q]
         /\ Linked(young)'
         /\ \A p, i : On(p, i)' <=> On(p, i) \/ (p = item[0] /\ i = list[0])
<1>q. PICK q0 : q0 = NextOf(HeadOf(0))
  OBVIOUS
<1>0. pc[0] \in AddPcs
  BY DEF AddPcs
<1>1. /\ item[0] = target[0] /\ item[0] \in Proc /\ list[0] \in ListIndex
      /\ HeadOf(0) \in Node /\ HeadOf(0) # Nil /\ HeadOf(0) \notin Proc /\ HeadOf(0) = Head(list[0], 0)
      /\ In(HeadOf(0), list[0])
      /\ \A p : Loose(p) <=> p = item[0]
  BY <1>0, AddFacts
<1>b. PICK b \in Nat : b = young[item[0]]
  BY <1>1 DEF Youngest
<1>2. /\ young \in [Proc -> Nat] /\ young[item[0]] = b
      /\ \A p \in Proc : p # item[0] => young[p] = age[p] /\ age[p] < b
  BY <1>b DEF Youngest
<1>3. ASSUME NEW p \in Proc, NEW q \in Proc, p # q PROVE young[p] # young[q]
  <2>1. age[p] \in Nat /\ age[q] \in Nat /\ age[p] # age[q]
    BY <1>3, SerialFacts
  <2> QED
    BY <1>2, <1>3, <2>1
<1>4. \A p, i : On(p, i)' <=> On(p, i) \/ (p = item[0] /\ i = list[0])
  <2>1. \A p : ~Loose(p)'
    BY DEF Loose, AddPcs
  <2>2. \A p : At(p)' = IF p = item[0] THEN list[0] ELSE At(p)
    BY <1>1 DEF At
  <2> QED
    BY <1>1, <2>1, <2>2 DEF On
<1>5. \A i : ~On(item[0], i)
  BY <1>1 DEF On
<1>6. \A m : NextOf(m)' = next'[m]
  BY DEF NextOf
<1>7. Follows(HeadOf(0), q0, list[0], age) /\ next'[item[0]] = q0
  BY <1>1, <1>q, SerialFacts DEF Linked
<1>8. ASSUME NEW m \in Node, NEW j \in ListIndex, In(m, j)' PROVE Follows(m, next[m], j, young)'
  <2>1. CASE m = HeadOf(0)
    <3>1. j = list[0]
      BY <1>1, <1>4, <1>8, <2>1, HeadFacts DEF In, On
    <3>2. \A x \in Proc : x = item[0] \/ young[x] < young[item[0]]
      BY <1>2
    <3> QED
      BY <1>1, <1>4, <2>1, <3>1, <3>2, Indices DEF Follows, Behind
  <2>2. CASE m = item[0]
    <3>1. j = list[0]
      BY <1>1, <1>4, <1>5, <1>8, <2>2, HeadFacts DEF In, On
    <3>2. \A x \in Proc : On(x, j)' /\ Behind(m, x, young) => On(x, j) /\ x # item[0] /\ Behind(HeadOf(0), x, age)
      BY <1>1, <1>2, <1>4, <2>2 DEF Behind
    <3>3. CASE q0 = Nil
      BY <1>7, <2>2, <3>1, <3>2, <3>3 DEF Follows, Behind
    <3>4. CASE q0 # Nil
      <4>1. On(q0, j) /\ q0 # item[0] /\ q0 \in Proc /\ On(q0, j)' /\ Behind(item[0], q0, young)
        BY <1>2, <1>4, <1>5, <1>7, <3>1, <3>4, SerialFacts DEF Follows, On, Behind
      <4>2. ASSUME NEW x \in Proc, On(x, j)', Behind(m, x, young) PROVE x = q0 \/ young[x] < young[q0]
        BY <1>2, <1>7, <3>1, <3>2, <3>4, <4>1, <4>2 DEF Follows
      <4>3. next'[m] = q0 /\ m = item[0]
        BY <1>7, <2>2
      <4>4. Behind(m, q0, young)' /\ \A x \in Proc : Behind(m, x, young)' <=> Behind(m, x, young)
        BY <4>1, <4>3 DEF Behind
      <4> QED
        BY <3>4, <4>1, <4>2, <4>3, <4>4 DEF Follows
    <3> QED
      BY <3>3, <3>4
  <2>3. CASE m # HeadOf(0) /\ m # item[0]
    <3>1. In(m, j) /\ (m \notin Proc => j # list[0])
      BY <1>1, <1>4, <1>8, <2>3 DEF In, On
    <3>2. next'[m] = next[m] /\ NextOf(m) = next[m]
      <4>1. pc[0] = "add_first_end" => pred[0] = HeadOf(0)
        BY <1>0, AddFacts
      <4> QED
        BY <2>3, <4>1 DEF NextOf
    <3>3. Follows(m, next[m], j, age)
      BY <3>1, <3>2, SerialFacts DEF Linked
    <3>4. \A x \in Proc : On(x, j)' /\ Behind(m, x, young) => On(x, j) /\ x # item[0] /\ Behind(m, x, age)
      <4>1. m \in Proc => young[m] = age[m] /\ age[m] < b /\ age[m] \in Nat
        BY <1>2, <2>3, SerialFacts
      <4>2. \A x \in Proc : On(x, j)' /\ Behind(m, x, young) => x # item[0]
        BY <1>2, <1>4, <1>5, <3>1, <4>1 DEF Behind
      <4> QED
        BY <1>2, <1>4, <4>1, <4>2 DEF Behind
    <3>5. CASE next[m] = Nil
      BY <3>2, <3>3, <3>4, <3>5 DEF Follows, Behind
    <3>6. CASE next[m] # Nil
      <4>1. On(next[m], j) /\ next[m] # item[0] /\ next[m] \in Proc /\ On(next[m], j)' /\ Behind(m, next[m], young)
        <5>1. On(next[m], j) /\ next[m] # item[0] /\ next[m] \in Proc /\ Behind(m, next[m], age)
          BY <1>5, <3>3, <3>6 DEF Follows, On
        <5> QED
          BY <1>2, <1>4, <2>3, <5>1 DEF Behind
      <4>2. ASSUME NEW x \in Proc, On(x, j)', Behind(m, x, young) PROVE x = next[m] \/ young[x] < young[next[m]]
        BY <1>2, <3>3, <3>4, <3>6, <4>1, <4>2 DEF Follows
      <4>3. Behind(m, next[m], young)' /\ \A x \in Proc : Behind(m, x, young)' <=> Behind(m, x, young)
        BY <3>2, <4>1 DEF Behind
      <4> QED
        BY <3>2, <3>6, <4>1, <4>2, <4>3 DEF Follows
    <3> QED
      BY <3>5, <3>6
  <2> QED
    BY <2>1, <2>2, <2>3
<1>9. Linked(young)'
  BY <1>6, <1>8 DEF Linked
<1> QED
  BY <1>2, <1>3, <1>4, <1>9

LEMMA ProcsFinite == IsFiniteSet(Proc) /\ \A i : IsFiniteSet(Members(i))
<1>1. IsFiniteSet(Proc)
  BY ProcListsAssumption, FS_Interval DEF Proc
<1> QED
  BY <1>1, FS_Subset DEF Members

LEMMA AddEnd ==
  ASSUME OneCpu, NEW age, Serial(age), pc[0] \in {"add_first_end", "add_link_end"}, pc'[0] = "added",
         UNCHANGED <<count, item, list, cpuNum, state, lock, cpuOf, call, target>>,
         NEW S, ReleaseNext(S), Held \subseteq S,
         next'[HeadOf(0)] = item[0], next'[item[0]] = NextOf(HeadOf(0)),
         \A n \in Node : n # HeadOf(0) /\ n # item[0] => next'[n] = next[n]
  PROVE  \E young \in [Proc -> Nat] : Orderly(young)'
<1>1. pc[0] \in AddPcs
  BY DEF AddPcs
<1>2. PICK b \in Nat : \A p \in Proc : age[p] < b
  BY Older, SerialFacts
<1>3. PICK young \in [Proc -> Nat] : Youngest(item[0], age, young)
  <2>1. [age EXCEPT ![item[0]] = b] \in [Proc -> Nat] /\ Youngest(item[0], age, [age EXCEPT ![item[0]] = b])
    BY <1>1, <1>2, AddFacts, SerialFacts DEF Youngest
  <2> QED
    BY <2>1
<1>4. /\ \A p, q \in Proc : p # q => young[p] # young[q]
      /\ Linked(young)'
      /\ \A p, i : On(p, i)' <=> On(p, i) \/ (p = item[0] /\ i = list[0])
  <2>1. UNCHANGED <<item, list, cpuNum, state, target>>
    OBVIOUS
  <2> QED
    BY <1>3, <2>1, Front
<1>5. RemoveWalk(young)' /\ FirstWalk(young)' /\ AddWalk'
  BY DEF RemoveWalk, FirstWalk, AddWalk, RemovePcs, FirstPcs, AddPcs
<1>6. ArgInv'
  BY <1>1, SerialFacts DEF ArgInv, RemovePcs, AddPcs, Dest
<1>7. ProcsFree'
  <2>1. Holding(0)'
    BY <1>1, AddFacts, PcFacts DEF Holding
  <2> QED
    BY <2>1, SerialFacts DEF ProcsFree
<1>8. CountInv'
  <2>1. Uncounted = 0 /\ count[0] \in Int /\ count'[0] = count[0] /\ count[0] = Cardinality(Members(Runnable))
    <3>1. Uncounted = 0 /\ count[0] \in Int
      BY OneCpuFacts, SerialFacts DEF Uncounted, TypeOK, ListTypeOK
    <3> QED
      BY <3>1, SerialFacts DEF CountInv
  <2>2. item[0] \notin Members(Runnable) /\ item[0] \in Proc
    BY <1>1, AddFacts DEF Members, On
  <2>3. CASE list[0] = Runnable
    <3>1. Members(Runnable)' = Members(Runnable) \cup {item[0]}
      BY <1>4, <2>2, <2>3 DEF Members
    <3>2. Cardinality(Members(Runnable)') = Cardinality(Members(Runnable)) + 1
      BY <2>2, <3>1, ProcsFinite, FS_AddElement
    <3>3. Uncounted' = 1
      BY <2>3 DEF Uncounted
    <3> QED
      BY <2>1, <3>2, <3>3 DEF CountInv
  <2>4. CASE list[0] # Runnable
    <3>1. Members(Runnable)' = Members(Runnable)
      BY <1>4, <2>4 DEF Members
    <3>2. Uncounted' = 0
      BY <2>4 DEF Uncounted
    <3> QED
      BY <2>1, <3>1, <3>2 DEF CountInv
  <2> QED
    BY <2>3, <2>4
<1>9. NodesFree'
  <2>1. Held' = {}
    BY DEF Held
  <2>2. \A n \in Node : n \notin Held => next_lock[n] = NoCpu
    BY SerialFacts DEF NodesFree
  <2> QED
    BY <2>1, <2>2 DEF NodesFree, ReleaseNext
<1> QED
  BY <1>3, <1>4, <1>5, <1>6, <1>7, <1>8, <1>9 DEF Orderly, Ordered

LEMMA AddFirstEndSerial ==
  ASSUME OneCpu, NEW age, Serial(age), AddFirstEnd(0), UNCHANGED <<procVars, call, target>>
  PROVE  \E young \in [Proc -> Nat] : Orderly(young)'
<1>1. pc[0] = "add_first_end" /\ UNCHANGED <<count, item, list, cpuNum, state, lock, cpuOf, call, target>>
  BY DEF AddFirstEnd, Return
<1>2. pc[0] \in AddPcs /\ pred[0] = HeadOf(0) /\ Held = {pred[0]} /\ NextOf(HeadOf(0)) = Nil
  BY <1>1, AddFacts DEF AddPcs, Held, NextOf
<1>3. pc'[0] = "added" /\ next' = [next EXCEPT ![item[0]] = Nil] /\ ReleaseNext({pred[0]})
  BY GotoIs, SerialFacts DEF AddFirstEnd, Return
<1>4. /\ next'[item[0]] = Nil
      /\ \A n \in Node : n # item[0] => next'[n] = next[n]
  <2>1. next \in [Node -> Proc \cup {Nil}]
    BY SerialFacts DEF TypeOK, ListTypeOK
  <2> QED
    BY <1>2, <1>3, <2>1, AddFacts, NodeFacts
<1>5. next'[HeadOf(0)] = item[0]
  <2>1. next[HeadOf(0)] = item[0]
    BY <1>1, <1>2, SerialFacts DEF AddWalk
  <2> QED
    BY <1>2, <1>4, <2>1, AddFacts
<1> QED
  BY <1>1, <1>2, <1>3, <1>4, <1>5, AddEnd

LEMMA AddLinkEndSerial ==
  ASSUME OneCpu, NEW age, Serial(age), AddLinkEnd(0), UNCHANGED <<procVars, call, target>>
  PROVE  \E young \in [Proc -> Nat] : Orderly(young)'
<1>1. pc[0] = "add_link_end" /\ UNCHANGED <<count, item, list, cpuNum, state, lock, cpuOf, call, target>>
  BY DEF AddLinkEnd, Return
<1>2. pc[0] \in AddPcs /\ pred[0] = HeadOf(0) /\ Held \subseteq {pred[0], curr[0]} /\ NextOf(HeadOf(0)) = next[HeadOf(0)]
  BY <1>1, AddFacts DEF AddPcs, Held, NextOf
<1>3. pc'[0] = "added" /\ next' = [next EXCEPT ![HeadOf(0)] = item[0]] /\ ReleaseNext({pred[0], curr[0]})
  BY <1>2, GotoIs, SerialFacts DEF AddLinkEnd, Return
<1>4. /\ next'[HeadOf(0)] = item[0]
      /\ \A n \in Node : n # HeadOf(0) => next'[n] = next[n]
  <2>1. next \in [Node -> Proc \cup {Nil}]
    BY SerialFacts DEF TypeOK, ListTypeOK
  <2> QED
    BY <1>2, <1>3, <2>1, AddFacts
<1>5. next'[item[0]] = next[HeadOf(0)]
  <2>1. next[item[0]] = next[HeadOf(0)]
    BY <1>1, <1>2, SerialFacts DEF AddWalk
  <2> QED
    BY <1>2, <1>4, <2>1, AddFacts, NodeFacts
<1> QED
  BY <1>1, <1>2, <1>3, <1>4, <1>5, AddEnd

\* Every step of the list code
LEMMA ListStepSerial ==
  ASSUME OneCpu, NEW age, Serial(age), ListStep(0), UNCHANGED <<procVars, call, target>>
  PROVE  \E young \in [Proc -> Nat] : Orderly(young)'
<1>0. age \in [Proc -> Nat]
  BY SerialFacts
<1>1. CASE RmStart(0) \/ RmTest(0) \/ RmMatch(0) \/ RmStep(0) \/ RmLockPred(0) \/ RmLockCurr(0)
           \/ RmValidate(0) \/ RmValidateNext(0) \/ RmUnlink(0)
  BY <1>0, <1>1, RmStartSerial, RmTestSerial, RmMatchSerial, RmStepSerial, RmLockPredSerial, RmLockCurrSerial,
     RmValidateSerial, RmValidateNextSerial, RmUnlinkSerial
<1>2. CASE AddLockHead(0) \/ AddTest(0) \/ AddFirst(0) \/ AddFirstEnd(0)
           \/ AddLockCurr(0) \/ AddValidate(0) \/ AddLink(0) \/ AddLinkEnd(0)
  BY <1>0, <1>2, AddLockHeadSerial, AddTestSerial, AddFirstSerial, AddFirstEndSerial, AddLockCurrSerial,
     AddValidateSerial, AddLinkSerial, AddLinkEndSerial
<1>3. CASE RfStart(0) \/ RfEmpty(0) \/ RfTest(0) \/ RfStep(0) \/ RfLockPred(0) \/ RfLockCurr(0)
           \/ RfValidate(0) \/ RfValidateNext(0) \/ RfUnlink(0) \/ RfRelease(0)
  BY <1>0, <1>3, RfStartSerial, RfEmptySerial, RfTestSerial, RfStepSerial, RfLockPredSerial, RfLockCurrSerial,
     RfValidateSerial, RfValidateNextSerial, RfUnlinkSerial, RfReleaseSerial
<1> QED
  BY <1>0, <1>1, <1>2, <1>3 DEF ListStep

-----------------------------------------------------------------------------
(* One CPU: the scheduler and the calls *)

\* The places between a call of the list code and the next
CallPcs == {"sched", "took_first", "lock", "added", "run", "fork", "removed", "moved"}
NextPcs == {"sched", "run", "fork", "lock", "moved", "rm_start", "add_lock_head", "rf_start"}

LEMMA CallPcFacts ==
  /\ CallPcs \cap (RemovePcs \cup AddPcs \cup FirstPcs) = {}
  /\ NextPcs \cap RemovePcs = {"rm_start"} /\ NextPcs \cap AddPcs = {"add_lock_head"}
  /\ NextPcs \cap FirstPcs = {"rf_start"}
  BY DEF CallPcs, NextPcs, RemovePcs, AddPcs, FirstPcs

\* What is between two calls of the list code changes no link.
LEMMA CallStep ==
  ASSUME OneCpu, NEW age, Serial(age), pc[0] \in CallPcs, pc'[0] \in NextPcs,
         UNCHANGED <<next, next_lock>>, \A p, i : On(p, i)' <=> On(p, i),
         pc'[0] = "rm_start" => On(item[0], list[0])', pc'[0] = "rf_start" => list'[0] = Runnable,
         ArgInv', ProcsFree', CountInv'
  PROVE  Orderly(age)'
<1>1. Linked(age)'
  <2>1. \A n : NextOf(n)' = NextOf(n)
    BY DEF NextOf, CallPcs, NextPcs
  <2> QED
    BY <2>1, SameLinks, SerialFacts
<1>2. RemoveWalk(age)'
  BY CallPcFacts DEF RemoveWalk, NextPcs
<1>3. FirstWalk(age)'
  BY CallPcFacts DEF FirstWalk, NextPcs
<1>4. AddWalk'
  BY CallPcFacts DEF AddWalk, NextPcs
<1>5. NodesFree'
  <2>1. Held = {} /\ Held' = {}
    BY DEF Held, CallPcs, NextPcs
  <2> QED
    BY <2>1, SerialFacts DEF NodesFree
<1> QED
  BY <1>1, <1>2, <1>3, <1>4, <1>5, SerialFacts DEF Orderly, Ordered

\* Outside of the calls that hold one, no process is locked.
LEMMA LocksFree ==
  ASSUME OneCpu, NEW age, Serial(age), pc[0] \in {"sched", "run", "fork", "took_first"}
  PROVE  ~Holding(0) /\ \A p \in Proc : lock[p] = NoCpu
<1>1. ~Holding(0)
  BY PcFacts DEF Holding
<1> QED
  BY <1>1, SerialFacts DEF ProcsFree

\* The call is one of OneCpu, its process is given and held.
LEMMA CallFacts ==
  ASSUME OneCpu, NEW age, Serial(age), pc[0] \in {"removed", "added", "moved"}
  PROVE  /\ Holding(0) /\ target[0] \in Proc
         /\ \A p \in Proc : p # target[0] => lock[p] = NoCpu
         /\ call[0] \notin SchedulerCalls => call[0] \in SerialCalls
         /\ call[0] \in SchedulerCalls => pc[0] = "added" /\ call[0] = "scheduler"
<1>1. call[0] # NoCall
  BY OneCpuFacts, SerialFacts DEF CallInv
<1>2. call[0] \in SerialCalls \cup {"scheduler"}
  BY <1>1, SerialFacts DEF ArgInv, SerialCalls
<1>3. call[0] \notin SchedulerCalls => call[0] \in SerialCalls
  BY <1>2 DEF SchedulerCalls
<1>4. call[0] \in SchedulerCalls => pc[0] = "added" /\ call[0] = "scheduler"
  <2>1. "scheduler" \notin DOMAIN Moves
    BY MovesTable
  <2> QED
    BY <1>2, <2>1, OneCpuFacts, SerialFacts DEF CallInv, SchedulerCalls, SerialCalls
<1>5. Holding(0)
  BY <1>3, <1>4, SerialMoves DEF Holding
<1> QED
  BY <1>3, <1>4, <1>5, OneCpuFacts, SerialFacts DEF LockInv, TypeOK, ProcsFree

\* The one CPU is the answer of find_min_index, and the CPU that everybody ran on.
LEMMA MinCpuIs ==
  ASSUME OneCpu, NEW age, Serial(age), pc[0] # "added"
  PROVE  MinCpus = {0} /\ \A p \in Proc : WakeupCpus(p) = {0}
<1>1. count[0] \in Nat
  <2>1. Cardinality(Members(Runnable)) \in Nat
    BY ProcsFinite, FS_CardinalityType
  <2>2. Uncounted = 0 /\ count[0] \in Int
    BY OneCpuFacts, SerialFacts DEF Uncounted, TypeOK, ListTypeOK
  <2>3. count[0] + Uncounted = Cardinality(Members(Runnable))
    BY SerialFacts DEF CountInv
  <2> QED
    BY <2>1, <2>2, <2>3
<1>2. {c \in CPU : NCPU > 1 \/ count[c] >= 0} = {0} /\ {x \in {Nil} : count[NCPU - 1] < 0} = {}
  BY <1>1, OneCpuFacts DEF OneCpu
<1>3. MinCpus = {0}
  BY <1>2 DEF MinCpus
<1> QED
  BY <1>3, SerialFacts DEF WakeupCpus, ArgInv

\* Who holds no lock is between two calls, or in remove_first_in_line before it locks a node. So an
\* interrupt finds a process that is on the sleeping list, and a CPU for it.
LEMMA InterruptAt ==
  ASSUME OneCpu, NEW age, Serial(age), NEW p \in Proc, Interrupt(0, p)
  PROVE  /\ pc[0] \in {"rf_start", "rf_empty", "rf_test", "rf_step", "rf_lock_pred", "took_first", "fork"}
         /\ On(p, Sleeping) /\ ~Holding(0)
         /\ UNCHANGED <<pc, next_lock, argVars, walkVars, result, lock, running, wait_lock, call, target>>
         /\ cpuOf' = [cpuOf EXCEPT ![p] = 0] /\ state' = [state EXCEPT ![p] = "RUNNABLE"]
         /\ count' = [count EXCEPT ![0] = @ + 1]
         /\ \E q \in Node : /\ In(q, Sleeping) /\ next[q] = p
                            /\ next' = [next EXCEPT ![q] = next[p], ![p] = next[Head(Runnable, 0)],
                                                    ![Head(Runnable, 0)] = p]
<1>0. /\ IntrOn(0) /\ state[p] = "SLEEPING" /\ \A n \in Node : next_lock[n] = NoCpu
      /\ pc[0] \notin {"sched", "run", "panic", "ub"}
      /\ UNCHANGED <<next_lock, argVars, walkVars, result, lock, running, wait_lock, call, target>>
  BY DEF Interrupt
<1>1. ~Holding(0)
  BY <1>0, OneCpuFacts, SerialFacts DEF IntrOn, LockInv, TypeOK
<1>2. pc[0] \notin AddPcs \cup {"removed", "added", "moved"}
  BY <1>1, AddFacts, CallFacts
<1>3. pc[0] \notin RemovePcs
  <2> SUFFICES ASSUME pc[0] \in RemovePcs PROVE FALSE
    OBVIOUS
  <2>1. call[0] \notin SchedulerCalls \cup {NoCall}
    BY <1>0, OneCpuFacts, SerialFacts DEF CallInv
  <2>2. call[0] \in SerialCalls
    BY <2>1, SerialFacts DEF ArgInv, SerialCalls, SchedulerCalls
  <2> QED
    BY <1>1, <2>2, SerialMoves DEF Holding
<1>4. pc[0] # "lock" /\ pc[0] # "yield"
  BY <1>1, OneCpuFacts, SerialFacts DEF Holding, CallInv, ArgInv
<1>5. pc[0] \notin {"rf_lock_curr", "rf_validate", "rf_validate_next", "rf_unlink", "rf_release"}
  <2> SUFFICES ASSUME pc[0] \in {"rf_lock_curr", "rf_validate", "rf_validate_next", "rf_unlink", "rf_release"}
               PROVE  FALSE
    OBVIOUS
  <2>1. pred[0] \in Held
    BY DEF Held
  <2>2. pc[0] \in FirstPcs /\ pc[0] # "rf_start"
    BY DEF FirstPcs
  <2>3. pred[0] \in Node
    BY <2>2, FirstFacts
  <2> QED
    BY <1>0, <2>1, <2>3, OneCpuFacts, SerialFacts DEF NodesFree
<1>6. pc[0] \in {"rf_start", "rf_empty", "rf_test", "rf_step", "rf_lock_pred", "took_first", "fork"}
  <2>1. pc[0] \in Pcs
    BY OneCpuFacts, SerialFacts DEF TypeOK
  <2> QED
    BY <1>0, <1>2, <1>3, <1>4, <1>5, <2>1 DEF Pcs, ListPcs, FirstPcs
<1>7. ~Loose(p) /\ On(p, Sleeping)
  <2>1. pc[0] = "took_first" => p # result[0]
    BY <1>0, Indices, SerialFacts DEF ArgInv
  <2>2. ~Loose(p)
    BY <1>6, <2>1 DEF Loose, AddPcs
  <2>3. At(p) = Sleeping
    BY <1>0, <1>6 DEF At, ListOf
  <2> QED
    BY <2>2, <2>3 DEF On
<1>8. PICK cpu \in WakeupCpus(p), q \in OnList(Head(Sleeping, 0)) \cup {Head(Sleeping, 0)} :
        /\ next[q] = p
        /\ IF cpu = Nil
           THEN Goto(0, "ub") /\ UNCHANGED <<next, count, cpuOf, state>>
           ELSE /\ next' = [next EXCEPT ![q] = next[p], ![p] = next[Head(Runnable, cpu)],
                                        ![Head(Runnable, cpu)] = p]
                /\ count' = [count EXCEPT ![cpu] = @ + 1]
                /\ cpuOf' = [cpuOf EXCEPT ![p] = cpu]
                /\ state' = [state EXCEPT ![p] = "RUNNABLE"]
                /\ UNCHANGED pc
  BY DEF Interrupt
<1>9. cpu = 0 /\ cpu # Nil
  BY <1>6, <1>8, MinCpuIs, Indices DEF Nil
<1>10. q \in Node /\ In(q, Sleeping)
  <2>1. Members(Sleeping) \in SUBSET Proc /\ Sleeping \in ListIndex /\ pc[0] # "add_first_end"
    BY <1>6, Indices DEF Members
  <2>2. \A n \in Members(Sleeping) \cup {Head(Sleeping, 0)} : next[n] \in Members(Sleeping) \cup {Nil}
    <3> SUFFICES ASSUME NEW n \in Members(Sleeping) \cup {Head(Sleeping, 0)}, next[n] # Nil
                 PROVE  next[n] \in Members(Sleeping)
      OBVIOUS
    <3>1. In(n, Sleeping)
      BY DEF In, Members
    <3> QED
      BY <2>1, <3>1, Successor DEF Follows, Members, On
  <2>3. q \in OnList(Head(Sleeping, 0)) => q \in Members(Sleeping)
    BY <2>1, <2>2 DEF OnList
  <2> QED
    BY <2>1, <2>3, HeadFacts, NodeFacts DEF In, Members
<1> QED
  BY <1>0, <1>1, <1>6, <1>7, <1>8, <1>9, <1>10

\* A process moves from the middle of the sleeping list to the front of the runnable one.
LEMMA ToFront ==
  ASSUME OneCpu, NEW age, Serial(age), pc[0] # "add_first_end", pc'[0] # "add_first_end",
         NEW p \in Proc,
         NEW q, In(q, Sleeping), next[q] = p,
         next'[Head(Runnable, 0)] = p, next'[p] = next[Head(Runnable, 0)], next'[q] = next[p],
         \A n \in Node : n # Head(Runnable, 0) /\ n # p /\ n # q => next'[n] = next[n],
         \A x, j : On(x, j)' <=> (On(x, j) /\ x # p) \/ (x = p /\ j = Runnable),
         NEW young, Youngest(p, age, young)
  PROVE  /\ \A x, y \in Proc : x # y => young[x] # young[y]
         /\ Linked(young)'
<1>l. Sleeping \in ListIndex /\ Runnable \in ListIndex /\ Sleeping # Runnable
  BY Indices DEF Sleeping, Runnable
<1> USE <1>l
<1> DEFINE h == Head(Runnable, 0)
<1>0. /\ Follows(q, p, Sleeping, age) /\ On(p, Sleeping) /\ p # Nil /\ q \in Node /\ q # p
      /\ h \in Node /\ h \notin Proc /\ h # Nil /\ In(h, Runnable) /\ h # q
  <2>1. Follows(q, p, Sleeping, age) /\ q \in Node /\ q # p /\ p # Nil
    BY Successor, Indices
  <2>2. h \in Node /\ h \notin Proc /\ h # Nil /\ In(h, Runnable)
    BY HeadFacts, NodeFacts DEF In
  <2>3. h # q
    BY <2>2, HeadFacts DEF In, On
  <2> QED
    BY <2>1, <2>2, <2>3 DEF Follows
<1>b. PICK b \in Nat : b = young[p]
  BY DEF Youngest
<1>1. /\ young \in [Proc -> Nat] /\ young[p] = b
      /\ \A x \in Proc : x # p => young[x] = age[x] /\ age[x] < b
  BY <1>b DEF Youngest
<1>2. ASSUME NEW x \in Proc, NEW y \in Proc, x # y PROVE young[x] # young[y]
  <2>1. age[x] \in Nat /\ age[y] \in Nat /\ age[x] # age[y]
    BY <1>2, SerialFacts
  <2> QED
    BY <1>1, <1>2, <2>1
<1>3. /\ next'[h] = p /\ next'[p] = next[h] /\ next'[q] = next[p]
      /\ \A n \in Node : n # h /\ n # p /\ n # q => next'[n] = next[n]
  OBVIOUS
<1>4. \A x, y : Behind(x, y, young)' <=> Behind(x, y, young)
  BY DEF Behind
<1> HIDE DEF h
<1>5. ASSUME NEW m \in Node, NEW j \in ListIndex, In(m, j)' PROVE Follows(m, next[m], j, young)'
  <2>1. CASE m = h
    <3>1. j = Runnable
      BY <1>0, <1>5, <2>1, HeadFacts DEF In, On, h
    <3>2. On(p, j)' /\ Behind(m, p, young)
      BY <1>0, <2>1, <3>1 DEF Behind
    <3>3. \A x \in Proc : x = p \/ young[x] < young[p]
      BY <1>1
    <3> QED
      BY <1>0, <1>3, <1>4, <2>1, <3>2, <3>3 DEF Follows
  <2>2. CASE m = p
    <3>1. j = Runnable
      BY <1>5, <2>2, HeadFacts DEF In
    <3>2. PICK r : r = next[h] /\ Follows(h, r, Runnable, age)
      BY <1>0, Successor
    <3>3. \A x \in Proc : On(x, j)' /\ Behind(p, x, young) => On(x, Runnable) /\ x # p /\ Behind(h, x, age)
      BY <1>0, <1>1, <3>1 DEF Behind
    <3>4. CASE r = Nil
      BY <1>3, <2>2, <3>2, <3>3, <3>4 DEF Follows, Behind
    <3>5. CASE r # Nil
      <4>0. On(r, Runnable) /\ r \in Proc /\ r # p
        BY <1>0, <3>2, <3>5 DEF Follows, On
      <4>1. On(r, j)'
        BY <3>1, <4>0
      <4>2. Behind(p, r, young)
        BY <1>1, <4>0 DEF Behind
      <4>3. ASSUME NEW x \in Proc, On(x, j)', Behind(p, x, young) PROVE x = r \/ young[x] < young[r]
        BY <1>1, <3>2, <3>3, <3>5, <4>0, <4>3 DEF Follows
      <4> QED
        BY <1>3, <1>4, <2>2, <3>2, <3>5, <4>1, <4>2, <4>3 DEF Follows
    <3> QED
      BY <3>4, <3>5
  <2>3. CASE m = q
    <3>1. j = Sleeping
      BY <1>0, <1>5, <2>3, HeadFacts DEF In, On
    <3>2. \A x : On(x, j)' <=> On(x, Sleeping) /\ x # p
      BY <3>1
    <3>3. Follows(p, next[p], Sleeping, age)
      BY <1>0, Successor DEF In
    <3>4. \A x \in Proc : x # p => (Behind(q, x, young) <=> Behind(q, x, age))
      BY <1>0, <1>1 DEF Behind
    <3>5. ASSUME NEW x \in Proc, On(x, Sleeping), x # p, Behind(q, x, age) PROVE Behind(p, x, age)
      BY <1>0, <3>5 DEF Follows, Behind
    <3>6. CASE next[p] = Nil
      BY <1>3, <1>4, <2>3, <3>2, <3>3, <3>4, <3>5, <3>6 DEF Follows
    <3>7. CASE next[p] # Nil
      <4>1. On(next[p], Sleeping) /\ Behind(p, next[p], age) /\ next[p] \in Proc /\ next[p] # p
        BY <1>0, <3>3, <3>7, SerialFacts DEF Follows, Behind, On
      <4>2. Behind(q, next[p], age)
        BY <1>0, <4>1, SerialFacts DEF Behind, Follows
      <4>3. ASSUME NEW x \in Proc, On(x, j)', Behind(q, x, young) PROVE x = next[p] \/ young[x] < young[next[p]]
        BY <1>1, <3>2, <3>3, <3>4, <3>5, <3>7, <4>1, <4>3 DEF Follows
      <4> QED
        BY <1>3, <1>4, <2>3, <3>2, <3>4, <3>7, <4>1, <4>2, <4>3 DEF Follows
    <3> QED
      BY <3>6, <3>7
  <2>4. CASE m # h /\ m # p /\ m # q
    <3>1. In(m, j) /\ (m \notin Proc => j # Runnable)
      BY <1>5, <2>4 DEF In, On, h
    <3>2. next'[m] = next[m] /\ Follows(m, next[m], j, age)
      BY <1>3, <2>4, <3>1, Successor
    <3>3. next[m] # p
      <4>1. CASE j = Sleeping
        BY <1>0, <2>4, <3>1, <4>1, UniquePred
      <4>2. CASE j # Sleeping
        <5>1. next[m] # Nil => On(next[m], j)
          BY <3>2 DEF Follows
        <5> QED
          BY <1>0, <4>2, <5>1 DEF On
      <4> QED
        BY <4>1, <4>2
    <3>4. \A x \in Proc : On(x, j)' /\ Behind(m, x, young) => On(x, j) /\ x # p /\ Behind(m, x, age)
      <4>1. m \in Proc => young[m] = age[m] /\ age[m] < b /\ age[m] \in Nat
        BY <1>1, <2>4, SerialFacts
      <4>2. \A x \in Proc : On(x, j)' /\ Behind(m, x, young) => x # p
        BY <1>1, <3>1, <4>1 DEF Behind
      <4> QED
        BY <1>1, <4>1, <4>2 DEF Behind
    <3>5. CASE next[m] = Nil
      BY <3>2, <3>4, <3>5 DEF Follows, Behind
    <3>6. CASE next[m] # Nil
      <4>1. On(next[m], j) /\ next[m] \in Proc /\ Behind(m, next[m], age)
        BY <3>2, <3>6 DEF Follows, On
      <4>2. On(next[m], j)' /\ Behind(m, next[m], young)
        BY <1>1, <2>4, <3>2, <3>3, <4>1 DEF Behind
      <4>3. ASSUME NEW x \in Proc, On(x, j)', Behind(m, x, young) PROVE x = next[m] \/ young[x] < young[next[m]]
        BY <1>1, <3>2, <3>3, <3>4, <3>6, <4>1, <4>3 DEF Follows
      <4> QED
        BY <1>4, <3>2, <3>6, <4>2, <4>3 DEF Follows
    <3> QED
      BY <3>5, <3>6
  <2> QED
    BY <2>1, <2>2, <2>3, <2>4
<1>6. Linked(young)'
  BY <1>5 DEF Linked, NextOf
<1> QED
  BY <1>2, <1>6

\* The handler of an interrupt moves a process to the front of the line that remove_first_in_line
\* is looking at: what that has read stays true of every node but the head.
LEMMA InterruptSerial ==
  ASSUME OneCpu, NEW age, Serial(age), NEW p \in Proc, Interrupt(0, p)
  PROVE  \E young \in [Proc -> Nat] : Orderly(young)'
<1>1. /\ pc[0] \in {"rf_start", "rf_empty", "rf_test", "rf_step", "rf_lock_pred", "took_first", "fork"}
      /\ On(p, Sleeping)
      /\ UNCHANGED <<pc, next_lock, item, list, cpuNum, pred, curr, node, result, lock, call, target>>
      /\ cpuOf' = [cpuOf EXCEPT ![p] = 0] /\ state' = [state EXCEPT ![p] = "RUNNABLE"]
      /\ count' = [count EXCEPT ![0] = @ + 1]
  BY InterruptAt DEF argVars, walkVars
<1>2. PICK q \in Node : /\ In(q, Sleeping) /\ next[q] = p
                        /\ next' = [next EXCEPT ![q] = next[p], ![p] = next[Head(Runnable, 0)],
                                                ![Head(Runnable, 0)] = p]
  BY InterruptAt
<1>3. /\ \A x \in Proc : state'[x] = IF x = p THEN "RUNNABLE" ELSE state[x]
      /\ \A x \in Proc : cpuOf'[x] = 0
      /\ count'[0] = count[0] + 1 /\ count[0] \in Int
  BY <1>1, OneCpuFacts, SerialFacts DEF TypeOK, ListTypeOK, ArgInv
<1>4. /\ pc[0] \notin RemovePcs \cup AddPcs \cup {"removed", "added", "moved", "lock", "panic", "yield", "ub"}
      /\ pc[0] # "add_first_end" /\ Held = {} /\ Uncounted = 0
  BY <1>1 DEF RemovePcs, AddPcs, Held, Uncounted
<1>5. \A x, j : On(x, j)' <=> (On(x, j) /\ x # p) \/ (x = p /\ j = Runnable)
  <2>1. \A x \in Proc : (Loose(x)' <=> Loose(x)) /\ At(x) = ListOf[state[x]]
                        /\ At(x)' = IF x = p THEN Runnable ELSE At(x)
    BY <1>1, <1>3, <1>4, ListFacts DEF Loose, At
  <2> QED
    BY <1>1, <2>1 DEF On
<1>6. Sleeping \in ListIndex /\ Runnable \in ListIndex /\ Sleeping # Runnable
  BY Indices DEF Sleeping, Runnable
<1>7. PICK b \in Nat : \A x \in Proc : age[x] < b
  BY Older, SerialFacts
<1>8. PICK young \in [Proc -> Nat] : Youngest(p, age, young)
  <2>1. [age EXCEPT ![p] = b] \in [Proc -> Nat] /\ Youngest(p, age, [age EXCEPT ![p] = b])
    BY <1>7, SerialFacts DEF Youngest
  <2> QED
    BY <2>1
<1>9. /\ \A x, y \in Proc : x # y => young[x] # young[y]
      /\ Linked(young)'
  <2>1. pc'[0] # "add_first_end" /\ In(q, Sleeping) /\ next[q] = p
    BY <1>1, <1>2, <1>4
  <2>2. /\ next'[Head(Runnable, 0)] = p /\ next'[p] = next[Head(Runnable, 0)] /\ next'[q] = next[p]
        /\ \A n \in Node : n # Head(Runnable, 0) /\ n # p /\ n # q => next'[n] = next[n]
    <3>1. next \in [Node -> Proc \cup {Nil}] /\ p \in Node /\ Head(Runnable, 0) \in Node
      BY <1>6, Indices, NodeFacts, SerialFacts DEF TypeOK, ListTypeOK
    <3>2. p # Head(Runnable, 0) /\ q # Head(Runnable, 0)
      BY <1>2, <1>6, HeadFacts DEF In, On
    <3>3. q # p
      BY <1>4, <1>6, <2>1, Indices, Successor
    <3> QED
      BY <1>2, <3>1, <3>2, <3>3
  <2> QED
    BY <1>4, <1>5, <1>6, <1>8, <2>1, <2>2, ToFront
<1>10. FirstWalk(young)'
  <2>1. CASE pc[0] \notin FirstPcs
    BY <1>1, <1>4, <2>1 DEF FirstWalk, FirstPcs
  <2>2. CASE pc[0] = "rf_start"
    BY <1>1, <2>2, FirstFacts DEF FirstWalk, FirstPcs
  <2>3. CASE pc[0] \in {"rf_empty", "rf_test", "rf_step", "rf_lock_pred"}
    <3>0. pc[0] \in FirstPcs /\ pc[0] # "rf_start"
      BY <2>3 DEF FirstPcs
    <3>1. /\ list[0] = Runnable /\ In(pred[0], Runnable) /\ pred[0] \in Node
          /\ pred[0] \in Proc => curr[0] = next[pred[0]]
          /\ curr[0] # Nil => /\ On(curr[0], Runnable) /\ Behind(pred[0], curr[0], age)
                              /\ curr[0] \in Proc
          /\ HeadOf(0)' = HeadOf(0) /\ HeadOf(0) = Head(Runnable, 0)
      BY <1>1, <3>0, FirstFacts DEF HeadOf
    <3>2. \A n \in Proc : On(n, Runnable) => n # p /\ next'[n] = next[n]
      <4>1. \A n \in Proc : On(n, Runnable) => n # p /\ n # q /\ n # Head(Runnable, 0)
        BY <1>1, <1>2, <1>6, HeadFacts DEF In, On
      <4>2. next \in [Node -> Proc \cup {Nil}]
        BY SerialFacts DEF TypeOK, ListTypeOK
      <4> QED
        BY <1>2, <4>1, <4>2, Indices
    <3>3. next'[Head(Runnable, 0)] = p /\ p # Nil
      <4>1. next \in [Node -> Proc \cup {Nil}] /\ Head(Runnable, 0) \in Node
        BY <1>6, NodeFacts, SerialFacts DEF TypeOK, ListTypeOK
      <4> QED
        BY <1>2, <4>1, Indices
    <3>4. pred[0] \in Proc => On(pred[0], Runnable) /\ pred[0] # p
      BY <1>6, <3>1, <3>2, HeadFacts DEF In
    <3>5. In(pred[0], list[0])' /\ (pred'[0] \in Proc => curr'[0] = next'[pred'[0]])
      BY <1>1, <1>5, <3>1, <3>2, <3>4 DEF In
    <3>6. curr[0] # Nil => On(curr[0], list[0])' /\ Behind(pred[0], curr[0], young)'
      BY <1>1, <1>5, <1>8, <3>1, <3>2, <3>4 DEF Youngest, Behind
    <3>7. /\ pc[0] = "rf_empty" \/ (pc[0] = "rf_test" /\ curr[0] = Nil) => pred[0] = HeadOf(0)
          /\ pc[0] \notin {"rf_empty", "rf_test"} => curr[0] # Nil
          /\ pc[0] = "rf_step" => next[curr[0]] # Nil
      BY <3>0, SerialFacts DEF FirstWalk
    <3>8. pc[0] = "rf_test" /\ curr[0] = Nil => next'[pred[0]] # Nil
      BY <3>1, <3>3, <3>7
    <3>9. pc[0] = "rf_step" => next'[curr[0]] # Nil
      BY <2>3, <3>1, <3>2, <3>7
    <3> QED
      BY <1>1, <2>3, <3>1, <3>5, <3>6, <3>7, <3>8, <3>9 DEF FirstWalk
  <2> QED
    BY <1>1, <2>1, <2>2, <2>3 DEF FirstPcs
<1>11. RemoveWalk(young)' /\ AddWalk'
  BY <1>1, <1>4 DEF RemoveWalk, AddWalk, RemovePcs, AddPcs
<1>12. ArgInv'
  <2>1. pc[0] = "took_first" => result[0] = Nil \/ state'[result[0]] = "RUNNABLE"
    BY <1>3, OneCpuFacts, SerialFacts DEF ArgInv, WalkInv
  <2>2. /\ cpuNum[0] = 0
        /\ call[0] \in {"yield", "sleep", "exit", "wakeup", "kill", "fork", "wait", "scheduler", NoCall}
    BY SerialFacts DEF ArgInv
  <2> QED
    BY <1>1, <1>3, <1>4, <2>1, <2>2 DEF ArgInv
<1>13. NodesFree'
  BY <1>1, <1>4, SameHeld DEF Held
<1>14. ProcsFree'
  <2>1. Holding(0)' <=> Holding(0)
    BY <1>1 DEF Holding
  <2> QED
    BY <1>1, <2>1, SerialFacts DEF ProcsFree
<1>15. CountInv'
  <2>1. Members(Runnable)' = Members(Runnable) \cup {p}
    BY <1>5 DEF Members
  <2>2. p \notin Members(Runnable)
    BY <1>1, <1>6 DEF Members, On
  <2>3. Cardinality(Members(Runnable)') = Cardinality(Members(Runnable)) + 1
    BY <2>1, <2>2, ProcsFinite, FS_AddElement
  <2>4. Uncounted' = 0
    BY <1>1, <1>4 DEF Uncounted
  <2>5. count[0] = Cardinality(Members(Runnable))
    BY <1>3, <1>4, SerialFacts DEF CountInv
  <2> QED
    BY <1>3, <2>3, <2>4, <2>5 DEF CountInv
<1> QED
  BY <1>8, <1>9, <1>10, <1>11, <1>12, <1>13, <1>14, <1>15 DEF Orderly, Ordered

LEMMA SchedStartSerial ==
  ASSUME OneCpu, NEW age, Serial(age), SchedStart(0)
  PROVE  Orderly(age)'
<1>1. /\ pc[0] = "sched" /\ UNCHANGED <<next, next_lock, count, result, state, lock, cpuOf, target>>
      /\ pc'[0] = "rf_start" /\ list'[0] = Runnable /\ call'[0] = "scheduler" /\ cpuNum'[0] = 0
  BY OneCpuFacts, SerialFacts DEF SchedStart, CallRemoveFirst, Call, TypeOK, ListTypeOK
<1>2. pc[0] \in CallPcs /\ pc'[0] \in NextPcs
  BY <1>1 DEF CallPcs, NextPcs
<1>3. \A p, i : On(p, i)' <=> On(p, i)
  <2>1. \A p : ~Loose(p) /\ ~Loose(p)' /\ At(p)' = At(p)
    BY <1>1 DEF Loose, At, AddPcs
  <2> QED
    BY <2>1 DEF On
<1>4. ArgInv'
  BY <1>1, SerialFacts DEF ArgInv, RemovePcs, AddPcs
<1>5. ProcsFree'
  BY <1>1, LocksFree DEF ProcsFree
<1>6. CountInv'
  BY <1>1, <1>3, SameCount, SerialFacts DEF Uncounted
<1> QED
  BY <1>1, <1>2, <1>3, <1>4, <1>5, <1>6, CallStep

LEMMA SchedEmptySerial ==
  ASSUME OneCpu, NEW age, Serial(age), SchedEmpty(0)
  PROVE  Orderly(age)'
<1>1. /\ pc[0] = "took_first" /\ result[0] = Nil /\ UNCHANGED <<next, next_lock, count, state, lock, cpuOf>>
  BY DEF SchedEmpty
<1>2. pc'[0] = "sched" /\ call'[0] = NoCall /\ cpuNum'[0] = 0
  <2>1. cpuNum[0] = 0
    BY SerialFacts DEF ArgInv
  <2>2. EndCall(0, "sched")
    BY <2>1 DEF SchedEmpty, OneCpu
  <2> QED
    BY <2>2, OneCpuFacts, SerialFacts DEF EndCall, Call, TypeOK, ListTypeOK
<1>3. pc[0] \in CallPcs /\ pc'[0] \in NextPcs
  BY <1>1, <1>2 DEF CallPcs, NextPcs
<1>4. \A p, i : On(p, i)' <=> On(p, i)
  <2>1. \A p \in Proc : ~Loose(p) /\ ~Loose(p)' /\ At(p)' = At(p)
    BY <1>1, <1>2, Indices DEF Loose, At, AddPcs
  <2> QED
    BY <2>1 DEF On
<1>5. ArgInv'
  BY <1>1, <1>2, SerialFacts DEF ArgInv, RemovePcs, AddPcs, NoCall
<1>6. ProcsFree'
  BY <1>1, LocksFree DEF ProcsFree
<1>7. CountInv'
  BY <1>1, <1>2, <1>4, SameCount, SerialFacts DEF Uncounted
<1> QED
  BY <1>1, <1>2, <1>3, <1>4, <1>5, <1>6, <1>7, CallStep

LEMMA SchedLockSerial ==
  ASSUME OneCpu, NEW age, Serial(age), SchedLock(0)
  PROVE  Orderly(age)'
<1>1. pc[0] = "took_first" /\ result[0] # Nil /\ UNCHANGED <<next, next_lock, count, item, list, cpuNum, result, state, cpuOf, call>>
  BY DEF SchedLock
<1>2. result[0] \in Proc /\ state[result[0]] = "RUNNABLE" /\ call[0] \in SchedulerCalls
  BY <1>1, OneCpuFacts, SerialFacts DEF WalkInv, ArgInv, CallInv
<1>3. pc'[0] = "lock" /\ lock' = [lock EXCEPT ![result[0]] = 0] /\ target'[0] = result[0]
  <2>1. lock[result[0]] # 0
    BY <1>1, <1>2, LocksFree, OneCpuFacts
  <2> QED
    BY <2>1, OneCpuFacts, SerialFacts DEF SchedLock, AcquireProc, TypeOK
<1>4. pc[0] \in CallPcs /\ pc'[0] \in NextPcs
  BY <1>1, <1>3 DEF CallPcs, NextPcs
<1>5. \A p, i : On(p, i)' <=> On(p, i)
  <2>1. \A p : (Loose(p)' <=> Loose(p)) /\ At(p)' = At(p)
    BY <1>1, <1>3 DEF Loose, At, AddPcs
  <2> QED
    BY <2>1 DEF On
<1>6. ArgInv'
  BY <1>1, <1>2, <1>3, SerialFacts DEF ArgInv, RemovePcs, AddPcs
<1>7. ProcsFree'
  <2>1. Holding(0)'
    BY <1>1, <1>2, <1>3 DEF Holding
  <2>2. \A p \in Proc : p # result[0] => lock'[p] = NoCpu
    BY <1>1, <1>3, LocksFree, SerialFacts DEF TypeOK
  <2> QED
    BY <1>3, <2>1, <2>2 DEF ProcsFree
<1>8. CountInv'
  BY <1>1, <1>3, <1>5, SameCount, SerialFacts DEF Uncounted
<1> QED
  BY <1>1, <1>3, <1>4, <1>5, <1>6, <1>7, <1>8, CallStep

LEMMA SchedCheckSerial ==
  ASSUME OneCpu, NEW age, Serial(age), SchedCheck(0)
  PROVE  Orderly(age)'
<1>1. pc[0] = "lock" /\ UNCHANGED <<next, next_lock, count, state, lock>> /\ state[target[0]] = "RUNNABLE"
  BY SerialFacts DEF SchedCheck, ArgInv
<1>2. call[0] \in SchedulerCalls /\ Holding(0) /\ target[0] \in Proc /\ cpuNum[0] = 0
  <2>1. call[0] \in SchedulerCalls
    BY <1>1, OneCpuFacts, SerialFacts DEF CallInv
  <2>2. Holding(0)
    BY <1>1, <2>1 DEF Holding
  <2> QED
    BY <2>1, <2>2, OneCpuFacts, SerialFacts DEF LockInv, TypeOK, ArgInv
<1>3. /\ pc'[0] = "add_lock_head" /\ item'[0] = target[0] /\ list'[0] = Running /\ cpuNum'[0] = 0 /\ UNCHANGED <<call, target, result>>
      /\ cpuOf' = [cpuOf EXCEPT ![target[0]] = 0]
  BY <1>1, <1>2, OneCpuFacts, SerialFacts DEF SchedCheck, CallAdd, Call, TypeOK, ListTypeOK
<1>4. pc[0] \in CallPcs /\ pc'[0] \in NextPcs
  BY <1>1, <1>3 DEF CallPcs, NextPcs
<1>5. \A p, i : On(p, i)' <=> On(p, i)
  <2>1. \A p : (Loose(p)' <=> Loose(p)) /\ At(p)' = At(p)
    BY <1>1, <1>3 DEF Loose, At, AddPcs
  <2> QED
    BY <2>1 DEF On
<1>6. ArgInv'
  <2>1. \A p \in Proc : cpuOf'[p] = 0
    BY <1>2, <1>3, SerialFacts DEF ArgInv, TypeOK
  <2>2. target[0] # Nil /\ Dest' = Running
    BY <1>2, <1>3, Indices DEF Dest
  <2> QED
    BY <1>1, <1>2, <1>3, <2>1, <2>2, SerialFacts DEF ArgInv, RemovePcs
<1>7. ProcsFree'
  <2>1. Holding(0)'
    BY <1>2, <1>3 DEF Holding, AddPcs
  <2> QED
    BY <1>1, <1>3, <2>1, SerialFacts DEF ProcsFree
<1>8. CountInv'
  BY <1>1, <1>3, <1>5, SameCount, SerialFacts DEF Uncounted
<1> QED
  BY <1>1, <1>3, <1>4, <1>5, <1>6, <1>7, <1>8, CallStep

LEMMA SchedRunSerial ==
  ASSUME OneCpu, NEW age, Serial(age), SchedRun(0)
  PROVE  Orderly(age)'
<1>1. /\ pc[0] = "added" /\ call[0] \in SchedulerCalls /\ UNCHANGED <<next, next_lock, count, cpuOf>>
      /\ state' = [state EXCEPT ![target[0]] = "RUNNING"] /\ lock' = [lock EXCEPT ![target[0]] = NoCpu]
  BY DEF SchedRun
<1>2. pc'[0] = "run" /\ call'[0] = NoCall /\ target'[0] = Nil /\ cpuNum'[0] = 0
  BY OneCpuFacts, SerialFacts DEF SchedRun, EndCall, Call, TypeOK, ListTypeOK
<1>3. target[0] \in Proc /\ list[0] = Running /\ \A p \in Proc : p # target[0] => lock[p] = NoCpu
  BY <1>1, CallFacts, SerialFacts DEF ArgInv, Dest
<1>4. pc[0] \in CallPcs /\ pc'[0] \in NextPcs
  BY <1>1, <1>2 DEF CallPcs, NextPcs
<1>5. \A p, i : On(p, i)' <=> On(p, i)
  <2>1. \A p \in Proc : ~Loose(p) /\ ~Loose(p)' /\ At(p)' = At(p)
    <3>1. \A p : ~Loose(p) /\ ~Loose(p)'
      BY <1>1, <1>2 DEF Loose, AddPcs
    <3>2. \A p \in Proc : p # target[0] => state'[p] = state[p]
      BY <1>1, SerialFacts DEF TypeOK
    <3>3. state'[target[0]] = "RUNNING"
      BY <1>1, <1>3, SerialFacts DEF TypeOK
    <3> QED
      BY <1>1, <1>2, <1>3, <3>1, <3>2, <3>3, Indices, ListFacts DEF At
  <2> QED
    BY <2>1 DEF On
<1>6. ArgInv'
  BY <1>1, <1>2, SerialFacts DEF ArgInv, RemovePcs, AddPcs, NoCall
<1>7. ProcsFree'
  <2>1. \A p \in Proc : lock'[p] = NoCpu
    BY <1>1, <1>3, SerialFacts DEF TypeOK
  <2> QED
    BY <2>1 DEF ProcsFree
<1>8. CountInv'
  <2>1. Uncounted = 0 /\ Uncounted' = 0
    BY <1>2, <1>3, ListFacts DEF Uncounted
  <2> QED
    BY <1>1, <1>5, <2>1, SameCount, SerialFacts
<1> QED
  BY <1>1, <1>2, <1>4, <1>5, <1>6, <1>7, <1>8, CallStep

LEMMA CallStartSerial ==
  ASSUME OneCpu, NEW age, Serial(age), NEW k \in DOMAIN Moves, NEW p \in Proc, CallStart(0, k, p)
  PROVE  Orderly(age)'
<1>1. /\ pc[0] \in {"sched", "run"} /\ state[p] = Moves[k].was /\ k \in SerialCalls
      /\ UNCHANGED <<next, next_lock, count, result, state>>
  BY DEF CallStart, MayCall, OneCpu, SerialCalls
<1>2. /\ pc'[0] = "rm_start" /\ item'[0] = p /\ list'[0] = Moves[k].from /\ call'[0] = k /\ target'[0] = p
      /\ lock' = [lock EXCEPT ![p] = 0] /\ cpuNum'[0] = 0
  <2>1. lock[p] # 0
    BY <1>1, LocksFree, OneCpuFacts
  <2>2. lock' = [lock EXCEPT ![p] = 0] /\ CallRemove(0, p, Moves[k].from)
    BY <2>1 DEF CallStart
  <2>3. call' = [call EXCEPT ![0] = k] /\ target' = [target EXCEPT ![0] = p]
    BY DEF CallStart
  <2> QED
    BY <2>2, <2>3, OneCpuFacts, SerialFacts DEF CallRemove, Call, TypeOK, ListTypeOK
<1>3. \A q \in Proc : cpuOf'[q] = 0
  <2>1. WakeupCpus(p) = {0} /\ cpuOf[p] = 0
    BY <1>1, MinCpuIs, SerialFacts DEF ArgInv
  <2>2. cpuOf' = [cpuOf EXCEPT ![p] = 0]
    BY <2>1 DEF CallStart
  <2> QED
    BY <2>2, SerialFacts DEF ArgInv, TypeOK
<1>4. pc[0] \in CallPcs /\ pc'[0] \in NextPcs
  BY <1>1, <1>2 DEF CallPcs, NextPcs
<1>5. \A q : ~Loose(q) /\ ~Loose(q)' /\ At(q) = ListOf[state[q]] /\ At(q)' = At(q)
  BY <1>1, <1>2 DEF Loose, At, AddPcs
<1>6. \A q, i : On(q, i)' <=> On(q, i)
  BY <1>5 DEF On
<1>7. On(item[0], list[0])'
  BY <1>1, <1>2, <1>5, SerialMoves DEF On
<1>8. ArgInv'
  BY <1>1, <1>2, <1>3, SerialFacts DEF ArgInv, SerialCalls, AddPcs
<1>9. ProcsFree'
  <2>1. Holding(0)'
    BY <1>1, <1>2, SerialMoves DEF Holding, RemovePcs
  <2>2. \A q \in Proc : q # p => lock'[q] = NoCpu
    BY <1>1, <1>2, LocksFree, SerialFacts DEF TypeOK
  <2> QED
    BY <1>2, <2>1, <2>2 DEF ProcsFree
<1>10. CountInv'
  BY <1>1, <1>2, <1>6, SameCount, SerialFacts DEF Uncounted
<1> QED
  BY <1>1, <1>2, <1>4, <1>6, <1>7, <1>8, <1>9, <1>10, CallStep

LEMMA AllocSerial ==
  ASSUME OneCpu, NEW age, Serial(age), NEW p \in Proc, Alloc(0, p)
  PROVE  Orderly(age)'
<1>1. /\ pc[0] = "run" /\ state[p] = "UNUSED" /\ state' = [state EXCEPT ![p] = "USED"]
      /\ UNCHANGED <<next, next_lock, count, lock, cpuOf, cpuNum>> /\ pc'[0] = "fork" /\ call'[0] = "fork"
  BY OneCpuFacts, SerialFacts DEF Alloc, OneCpu, TypeOK
<1>2. pc[0] \in CallPcs /\ pc'[0] \in NextPcs
  BY <1>1 DEF CallPcs, NextPcs
<1>3. \A q, i : On(q, i)' <=> On(q, i)
  <2>1. \A q \in Proc : ListOf[state'[q]] = ListOf[state[q]]
    <3>1. \A q \in Proc : q # p => state'[q] = state[q]
      BY <1>1, SerialFacts DEF TypeOK
    <3>2. state'[p] = "USED"
      BY <1>1, SerialFacts DEF TypeOK
    <3> QED
      BY <1>1, <3>1, <3>2, ListFacts
  <2>2. \A q \in Proc : ~Loose(q) /\ ~Loose(q)' /\ At(q)' = At(q)
    BY <1>1, <2>1 DEF Loose, At, AddPcs
  <2> QED
    BY <2>2 DEF On
<1>4. ArgInv'
  BY <1>1, SerialFacts DEF ArgInv, RemovePcs, AddPcs
<1>5. ProcsFree'
  BY <1>1, LocksFree DEF ProcsFree
<1>6. CountInv'
  BY <1>1, <1>3, SameCount, SerialFacts DEF Uncounted
<1> QED
  BY <1>1, <1>2, <1>3, <1>4, <1>5, <1>6, CallStep

LEMMA ForkSerial ==
  ASSUME OneCpu, NEW age, Serial(age), Fork(0)
  PROVE  Orderly(age)'
<1>1. pc[0] = "fork" /\ lock' = [lock EXCEPT ![target[0]] = 0] /\ UNCHANGED <<next, next_lock, count, state, cpuOf, call, target>>
  BY DEF Fork
<1>2. pc'[0] = "rm_start" /\ item'[0] = target[0] /\ list'[0] = Unused /\ cpuNum'[0] = 0
  <2>1. MinCpus = {0}
    BY <1>1, MinCpuIs
  <2>2. Call(0, target[0], Unused, 0, "rm_start")
    BY <2>1 DEF Fork
  <2> QED
    BY <2>2, OneCpuFacts, SerialFacts DEF Call, TypeOK, ListTypeOK
<1>3. call[0] = "fork" /\ target[0] \in Proc /\ state[target[0]] = "USED"
  <2>1. call[0] = "fork"
    BY <1>1, OneCpuFacts, SerialFacts DEF CallInv
  <2>2. Forks(0) /\ target[0] # Nil
    BY <1>1, <2>1, OneCpuFacts, SerialFacts DEF Forks, CallInv, SchedulerCalls, NoCall
  <2> QED
    BY <2>1, <2>2, OneCpuFacts, SerialFacts DEF LockInv, TypeOK
<1>4. pc[0] \in CallPcs /\ pc'[0] \in NextPcs
  BY <1>1, <1>2 DEF CallPcs, NextPcs
<1>5. \A q : ~Loose(q) /\ ~Loose(q)' /\ At(q) = ListOf[state[q]] /\ At(q)' = At(q)
  BY <1>1, <1>2 DEF Loose, At, AddPcs
<1>6. \A q, i : On(q, i)' <=> On(q, i)
  BY <1>5 DEF On
<1>7. On(item[0], list[0])'
  BY <1>1, <1>2, <1>3, <1>5, ListFacts DEF On
<1>8. Moves["fork"].from = Unused /\ "fork" \in DOMAIN Moves
  BY DEF Moves
<1>9. ArgInv'
  BY <1>1, <1>2, <1>3, <1>8, SerialFacts DEF ArgInv, AddPcs
<1>10. ProcsFree'
  <2>1. Holding(0)'
    BY <1>1, <1>2, <1>3, <1>8 DEF Holding, RemovePcs
  <2>2. \A q \in Proc : q # target[0] => lock'[q] = NoCpu
    BY <1>1, LocksFree, SerialFacts DEF TypeOK
  <2> QED
    BY <1>1, <2>1, <2>2 DEF ProcsFree
<1>11. CountInv'
  BY <1>1, <1>2, <1>6, SameCount, SerialFacts DEF Uncounted
<1> QED
  BY <1>1, <1>2, <1>4, <1>6, <1>7, <1>9, <1>10, <1>11, CallStep

LEMMA CallAddItSerial ==
  ASSUME OneCpu, NEW age, Serial(age), CallAddIt(0)
  PROVE  Orderly(age)'
<1>1. pc[0] = "removed" /\ result[0] = 1 /\ UNCHANGED <<next, next_lock, count, state, lock, cpuOf, call, target>>
  BY SerialFacts DEF CallAddIt, ArgInv
<1>2. target[0] \in Proc /\ call[0] \in SerialCalls /\ call[0] \notin SchedulerCalls /\ call[0] # "set_cpu"
  <2>1. call[0] \notin SchedulerCalls
    BY <1>1, OneCpuFacts, SerialFacts DEF CallInv
  <2> QED
    BY <1>1, <2>1, CallFacts DEF SerialCalls
<1>3. CpuFor(0) = 0
  <2>1. cpuNum[0] = 0 /\ cpuOf[target[0]] = 0
    BY <1>2, SerialFacts DEF ArgInv
  <2> QED
    BY <1>2, <2>1 DEF CpuFor
<1>4. pc'[0] = "add_lock_head" /\ item'[0] = target[0] /\ list'[0] = Moves[call[0]].to /\ cpuNum'[0] = 0
  <2>1. CallAdd(0, target[0], Moves[call[0]].to, 0)
    BY <1>1, <1>2, <1>3, Indices DEF CallAddIt, ToList
  <2> QED
    BY <2>1, OneCpuFacts, SerialFacts DEF CallAdd, Call, TypeOK, ListTypeOK
<1>5. pc[0] \in CallPcs /\ pc'[0] \in NextPcs
  BY <1>1, <1>4 DEF CallPcs, NextPcs
<1>6. \A q, i : On(q, i)' <=> On(q, i)
  <2>1. \A q : (Loose(q)' <=> Loose(q)) /\ At(q)' = At(q)
    BY <1>1, <1>4 DEF Loose, At, AddPcs
  <2> QED
    BY <2>1 DEF On
<1>7. ArgInv'
  <2>1. target[0] # Nil /\ Dest' = Moves[call[0]].to
    BY <1>1, <1>2, Indices DEF Dest
  <2> QED
    BY <1>1, <1>4, <2>1, SerialFacts DEF ArgInv, RemovePcs
<1>8. ProcsFree'
  <2>1. Holding(0)'
    BY <1>1, <1>2, <1>4, SerialMoves DEF Holding, AddPcs
  <2> QED
    BY <1>1, <2>1, SerialFacts DEF ProcsFree
<1>9. CountInv'
  BY <1>1, <1>4, <1>6, SameCount, SerialFacts DEF Uncounted
<1> QED
  BY <1>1, <1>4, <1>5, <1>6, <1>7, <1>8, <1>9, CallStep

LEMMA CallCountSerial ==
  ASSUME OneCpu, NEW age, Serial(age), CallCount(0)
  PROVE  Orderly(age)'
<1>1. pc[0] = "added" /\ call[0] \notin SchedulerCalls /\ UNCHANGED <<next, next_lock, item, list, state, lock, call, target>>
  BY DEF CallCount
<1>2. call[0] \in SerialCalls /\ call[0] # "set_cpu"
  BY <1>1, CallFacts DEF SerialCalls
<1>3. /\ pc'[0] = "moved" /\ UNCHANGED <<cpuOf, cpuNum>>
      /\ count'[0] = IF list[0] = Runnable THEN count[0] + 1 ELSE count[0]
  <2>1. cpuNum[0] = 0
    BY SerialFacts DEF ArgInv
  <2>2. /\ pc' = [pc EXCEPT ![0] = "moved"] /\ UNCHANGED <<cpuOf, cpuNum>>
        /\ count' = [count EXCEPT ![0] = IF list[0] = Runnable THEN @ + 1 ELSE @]
    BY <1>2, <2>1 DEF CallCount
  <2> QED
    BY <2>2, OneCpuFacts, SerialFacts DEF TypeOK, ListTypeOK
<1>4. pc[0] \in CallPcs /\ pc'[0] \in NextPcs
  BY <1>1, <1>3 DEF CallPcs, NextPcs
<1>5. \A q, i : On(q, i)' <=> On(q, i)
  <2>1. \A q : ~Loose(q) /\ ~Loose(q)' /\ At(q)' = At(q)
    BY <1>1, <1>3 DEF Loose, At, AddPcs
  <2> QED
    BY <2>1 DEF On
<1>6. ArgInv'
  BY <1>1, <1>3, SerialFacts DEF ArgInv, Dest, RemovePcs, AddPcs
<1>7. ProcsFree'
  <2>1. Holding(0)'
    BY <1>1, <1>2, <1>3, SerialMoves DEF Holding
  <2> QED
    BY <1>1, <2>1, SerialFacts DEF ProcsFree
<1>8. CountInv'
  <2>1. Members(Runnable)' = Members(Runnable)
    BY <1>5 DEF Members
  <2>2. count'[0] + Uncounted' = count[0] + Uncounted
    <3>1. Uncounted' = 0 /\ Uncounted = (IF list[0] = Runnable THEN 1 ELSE 0) /\ count[0] \in Int
      BY <1>1, <1>3, OneCpuFacts, SerialFacts DEF Uncounted, TypeOK, ListTypeOK
    <3> QED
      BY <1>3, <3>1
  <2> QED
    BY <2>1, <2>2, SerialFacts DEF CountInv
<1> QED
  BY <1>1, <1>3, <1>4, <1>5, <1>6, <1>7, <1>8, CallStep

LEMMA CallDoneSerial ==
  ASSUME OneCpu, NEW age, Serial(age), CallDone(0)
  PROVE  Orderly(age)'
<1>1. pc[0] = "moved" /\ UNCHANGED <<next, next_lock, count>>
  BY DEF CallDone
<1>2. /\ call[0] \in SerialCalls /\ call[0] \notin SchedulerCalls /\ target[0] \in Proc
      /\ \A p \in Proc : p # target[0] => lock[p] = NoCpu
      /\ list[0] = Moves[call[0]].to /\ ListOf[Moves[call[0]].is] = Moves[call[0]].to
  <2>1. call[0] \notin SchedulerCalls
    BY <1>1, CallFacts
  <2> QED
    BY <1>1, <2>1, CallFacts, SerialMoves, SerialFacts DEF ArgInv, Dest
<1>3. /\ state' = [state EXCEPT ![target[0]] = Moves[call[0]].is] /\ lock' = [lock EXCEPT ![target[0]] = NoCpu]
      /\ cpuOf' = [cpuOf EXCEPT ![target[0]] = IF Moves[call[0]].is = "UNUSED" THEN 0 ELSE @]
      /\ \E l \in {"sched", "run"} : EndCall(0, l)
  BY DEF CallDone
<1>4. pc'[0] \in {"sched", "run"} /\ call'[0] = NoCall /\ target'[0] = Nil /\ cpuNum'[0] = 0
  BY <1>3, OneCpuFacts, SerialFacts DEF EndCall, Call, TypeOK, ListTypeOK
<1>5. pc[0] \in CallPcs /\ pc'[0] \in NextPcs
  BY <1>1, <1>4 DEF CallPcs, NextPcs
<1>6. \A p, i : On(p, i)' <=> On(p, i)
  <2>1. \A p : ~Loose(p) /\ ~Loose(p)'
    BY <1>1, <1>4 DEF Loose, AddPcs
  <2>2. \A p \in Proc : p # target[0] => state'[p] = state[p]
    BY <1>3, SerialFacts DEF TypeOK
  <2>3. state'[target[0]] = Moves[call[0]].is
    BY <1>2, <1>3, SerialFacts DEF TypeOK
  <2>4. \A p \in Proc : At(p)' = At(p)
    BY <1>1, <1>2, <1>4, <2>2, <2>3, Indices DEF At
  <2> QED
    BY <2>1, <2>4 DEF On
<1>7. ArgInv'
  <2>1. \A p \in Proc : cpuOf'[p] = 0
    BY <1>3, SerialFacts DEF ArgInv, TypeOK
  <2> QED
    BY <1>4, <2>1 DEF ArgInv, RemovePcs, AddPcs
<1>8. ProcsFree'
  <2>1. \A p \in Proc : lock'[p] = NoCpu
    BY <1>2, <1>3, SerialFacts DEF TypeOK
  <2> QED
    BY <2>1 DEF ProcsFree
<1>9. CountInv'
  BY <1>1, <1>4, <1>6, SameCount, SerialFacts DEF Uncounted
<1> QED
  BY <1>1, <1>4, <1>5, <1>6, <1>7, <1>8, <1>9, CallStep

-----------------------------------------------------------------------------
(* One CPU: the invariant, and what it says between calls *)

\* At boot init is on the runnable list and the others are on the unused list, the last one first.
LEMMA InitSerial ==
  ASSUME OneCpu, Init
  PROVE  SerialInv
<1> DEFINE age == [p \in Proc |-> p]
<1>0. /\ pc[0] = "sched" /\ call[0] = NoCall /\ cpuNum[0] = 0
      /\ \A p \in Proc : state[p] = (IF p = 0 THEN "RUNNABLE" ELSE "UNUSED") /\ lock[p] = NoCpu /\ cpuOf[p] = 0
      /\ \A n \in Node : next_lock[n] = NoCpu
      /\ count[0] = 1
      /\ \A n \in Node : next[n] = IF n = Head(Runnable, 0) THEN 0
                                   ELSE IF n = Head(Unused, 0) /\ NPROC > 1 THEN NPROC - 1
                                   ELSE IF n \in 2 .. NPROC - 1 THEN n - 1 ELSE Nil
  BY OneCpuFacts DEF Init
<1>1. Inv
  BY InitInv
<1>2. age \in [Proc -> Nat] /\ \A p, q \in Proc : p # q => age[p] # age[q]
  BY ProcListsAssumption DEF Proc
<1>3. \A p, i : On(p, i) <=> p \in Proc /\ i = (IF p = 0 THEN Runnable ELSE Unused)
  BY <1>0, ListFacts DEF On, Loose, At, AddPcs
<1>4. ASSUME NEW i \in ListIndex, NEW n \in Node, In(n, i) PROVE Follows(n, next[n], i, age)
  <2>1. /\ Nil \notin Proc /\ 0 \in Proc /\ Runnable # Unused /\ Runnable \in ListIndex /\ Unused \in ListIndex
        /\ \A p \in Proc : age[p] = p
        /\ \A j \in ListIndex : Head(j, 0) \notin Proc
        /\ \A p \in Proc : p \in Nat /\ p < NPROC
    BY Indices, HeadFacts, ProcListsAssumption DEF Proc, Runnable, Unused
  <2>2. CASE n = Head(Runnable, 0)
    <3>1. i = Runnable /\ next[n] = 0
      BY <1>0, <1>4, <2>1, <2>2, HeadFacts DEF In, On
    <3> QED
      BY <1>3, <2>1, <2>2, <3>1 DEF Follows, Behind
  <2>3. CASE n = Head(Unused, 0)
    <3>1. i = Unused /\ n # Head(Runnable, 0)
      BY <1>4, <2>1, <2>3, HeadFacts DEF In, On
    <3>2. CASE NPROC > 1
      <4>1. next[n] = NPROC - 1 /\ NPROC - 1 \in Proc /\ NPROC - 1 # 0 /\ NPROC - 1 # Nil
        BY <1>0, <2>3, <3>1, <3>2, ProcListsAssumption DEF Proc, Nil
      <4>2. \A x \in Proc : x = NPROC - 1 \/ x < NPROC - 1
        BY ProcListsAssumption DEF Proc
      <4> QED
        BY <1>3, <2>1, <2>3, <3>1, <4>1, <4>2 DEF Follows, Behind
    <3>3. CASE ~(NPROC > 1)
      <4>1. \A x \in Proc : x = 0
        BY <3>3, ProcListsAssumption DEF Proc
      <4>2. next[n] = Nil
        BY <1>0, <2>3, <3>1, <3>3, ProcListsAssumption DEF Head, Unused, Runnable
      <4> QED
        BY <1>3, <2>1, <3>1, <4>1, <4>2 DEF Follows
    <3> QED
      BY <3>2, <3>3
  <2>4. CASE n \in Proc
    <3>1. i = (IF n = 0 THEN Runnable ELSE Unused) /\ n # Head(Runnable, 0) /\ n # Head(Unused, 0)
      BY <1>3, <1>4, <2>1, <2>4 DEF In
    <3>2. next[n] = IF n \in 2 .. NPROC - 1 THEN n - 1 ELSE Nil
      BY <1>0, <3>1
    <3>3. CASE n \in 2 .. NPROC - 1
      <4>1. n - 1 \in Proc /\ n - 1 # 0 /\ n - 1 < n /\ n # 0
        BY <3>3, ProcListsAssumption DEF Proc
      <4>2. \A x \in Proc : x < n => x = n - 1 \/ x < n - 1
        BY <3>3, ProcListsAssumption DEF Proc
      <4>3. On(n - 1, i) /\ Behind(n, n - 1, age) /\ n - 1 # Nil
        BY <1>3, <2>1, <3>1, <4>1 DEF Behind
      <4>4. \A x \in Proc : Behind(n, x, age) => x = n - 1 \/ age[x] < age[n - 1]
        BY <2>1, <2>4, <4>1, <4>2 DEF Behind
      <4> QED
        BY <3>2, <3>3, <4>3, <4>4 DEF Follows
    <3>4. CASE n \notin 2 .. NPROC - 1
      <4>1. n = 0 \/ n = 1
        BY <2>4, <3>4, ProcListsAssumption DEF Proc
      <4>2. \A x \in Proc : On(x, i) => ~(x < n)
        BY <1>3, <2>1, <3>1, <4>1
      <4> QED
        BY <2>1, <2>4, <3>2, <3>4, <4>2 DEF Follows, Behind
    <3> QED
      BY <3>3, <3>4
  <2>5. CASE n \notin Proc /\ n # Head(Runnable, 0) /\ n # Head(Unused, 0)
    <3>1. n = Head(i, 0) /\ i # Runnable /\ i # Unused
      BY <1>4, <2>5 DEF In, On
    <3>2. next[n] = Nil
      BY <1>0, <2>5, ProcListsAssumption DEF Proc
    <3> QED
      BY <1>3, <3>1, <3>2 DEF Follows
  <2> QED
    BY <2>2, <2>3, <2>4, <2>5
<1>5. Linked(age)
  BY <1>0, <1>4 DEF Linked, NextOf
<1>6. RemoveWalk(age) /\ FirstWalk(age) /\ AddWalk
  BY <1>0 DEF RemoveWalk, FirstWalk, AddWalk, RemovePcs, FirstPcs, AddPcs
<1>7. ArgInv
  BY <1>0 DEF ArgInv, RemovePcs, AddPcs
<1>8. NodesFree /\ ProcsFree
  BY <1>0 DEF NodesFree, ProcsFree, Held
<1>9. CountInv
  <2>1. Members(Runnable) = {0}
    BY <1>3, Indices, ListFacts DEF Members, Runnable, Unused
  <2>2. Uncounted = 0
    BY <1>0 DEF Uncounted
  <2>3. Cardinality({0}) = 1
    BY FS_Singleton
  <2> QED
    BY <1>0, <2>1, <2>2, <2>3 DEF CountInv
<1> QED
  BY <1>1, <1>2, <1>5, <1>6, <1>7, <1>8, <1>9 DEF SerialInv, Serial, Orderly, Ordered

LEMMA StutterSerial ==
  ASSUME NEW age, Orderly(age), UNCHANGED vars
  PROVE  Orderly(age)'
<1> USE DEF vars
<1>1. \A p, i : On(p, i)' <=> On(p, i)
  BY DEF On, Loose, At
<1>2. \A n, i : In(n, i)' <=> In(n, i)
  BY <1>1 DEF In
<1>3. Linked(age)'
  <2>1. \A n : NextOf(n)' = NextOf(n)
    BY DEF NextOf
  <2> QED
    BY <1>1, <2>1, SameLinks DEF Orderly, Ordered
<1>4. RemoveWalk(age)' /\ FirstWalk(age)'
  <2>1. NodeInv(age)' <=> NodeInv(age)
    BY <1>1, <1>2 DEF NodeInv, Behind
  <2> QED
    BY <1>1, <1>2, <2>1 DEF Orderly, Ordered, RemoveWalk, FirstWalk, Behind, HeadOf
<1>5. AddWalk'
  BY <1>1 DEF Orderly, Ordered, AddWalk, HeadOf
<1>6. ArgInv'
  BY DEF Orderly, ArgInv, Dest
<1>7. NodesFree' /\ ProcsFree'
  BY DEF Orderly, NodesFree, ProcsFree, Held, Holding
<1>8. CountInv'
  BY <1>1, SameCount DEF Orderly, Uncounted
<1> QED
  BY <1>3, <1>4, <1>5, <1>6, <1>7, <1>8 DEF Orderly, Ordered

LEMMA NextSerial ==
  ASSUME OneCpu, SerialInv, [Next]_vars
  PROVE  SerialInv'
<1>1. PICK age \in [Proc -> Nat] : Serial(age)
  BY DEF SerialInv
<1>2. Inv'
  BY <1>1, NextType, NextCall, NextLock, NextRun DEF Serial, Inv
<1>3. \E young \in [Proc -> Nat] : Orderly(young)'
  <2>1. CASE UNCHANGED vars
    BY <1>1, <2>1, StutterSerial DEF Serial
  <2>2. CASE Next
    <3>1. PICK c \in CPU :
            \/ ListStep(c) /\ UNCHANGED <<procVars, call, target, calls>>
            \/ SchedStart(c) \/ SchedEmpty(c) \/ SchedLock(c) \/ SchedCheck(c) \/ SchedRun(c)
            \/ Begin(c) \/ Fork(c) \/ SetCpuYield(c)
            \/ CallAddIt(c) \/ CallCount(c) \/ CallDone(c)
      BY <2>2 DEF Next
    <3>2. c = 0
      BY OneCpuFacts
    <3>3. CASE ListStep(0) /\ UNCHANGED <<procVars, call, target, calls>>
      BY <1>1, <3>3, ListStepSerial
    <3>4. CASE SchedStart(0) \/ SchedEmpty(0) \/ SchedLock(0) \/ SchedCheck(0) \/ SchedRun(0)
      BY <1>1, <3>4, SchedStartSerial, SchedEmptySerial, SchedLockSerial, SchedCheckSerial, SchedRunSerial
    <3>5. CASE Begin(0)
      <4>1. \A cpu : ~SetCpu(0, cpu)
        BY DEF SetCpu, OneCpu
      <4>2. CASE \E k \in DOMAIN Moves, p \in Proc : CallStart(0, k, p)
        BY <1>1, <4>2, CallStartSerial
      <4>3. CASE \E p \in Proc : Alloc(0, p)
        BY <1>1, <4>3, AllocSerial
      <4>4. CASE \E p \in Proc : Interrupt(0, p)
        BY <1>1, <4>4, InterruptSerial
      <4> QED
        BY <3>5, <4>1, <4>2, <4>3, <4>4 DEF Begin
    <3>6. CASE Fork(0) \/ SetCpuYield(0)
      <4>1. ~SetCpuYield(0)
        BY <1>1, SerialFacts DEF SetCpuYield, ArgInv
      <4> QED
        BY <1>1, <3>6, <4>1, ForkSerial
    <3>7. CASE CallAddIt(0) \/ CallCount(0) \/ CallDone(0)
      BY <1>1, <3>7, CallAddItSerial, CallCountSerial, CallDoneSerial
    <3> QED
      BY <3>1, <3>2, <3>3, <3>4, <3>5, <3>6, <3>7
  <2> QED
    BY <2>1, <2>2
<1> QED
  BY <1>2, <1>3 DEF SerialInv, Serial

\* Who is at whose place between calls: the list of a process is that of its state.
LEMMA QuietFacts ==
  ASSUME OneCpu, NEW age, Serial(age), Quiet
  PROVE  /\ pc[0] # "add_first_end"
         /\ \A p, i : On(p, i) <=> p \in Proc /\ i = ListOf[state[p]]
         /\ \A p \in Proc : ListOf[state[p]] \in ListIndex
         /\ \A i : Members(i) \in SUBSET Proc
<1>1. pc[0] \in {"sched", "run", "fork", "yield"}
  BY OneCpuFacts DEF Quiet
<1>2. \A p : ~Loose(p) /\ At(p) = ListOf[state[p]]
  BY <1>1 DEF Loose, At, AddPcs
<1>3. \A p \in Proc : ListOf[state[p]] \in ListIndex
  BY ListFacts, SerialFacts DEF TypeOK
<1> QED
  BY <1>1, <1>2, <1>3 DEF On, Members

\* Every process of a list follows the head or a younger one.
LEMMA Predecessor ==
  ASSUME OneCpu, NEW age, Serial(age), pc[0] # "add_first_end", NEW i \in ListIndex, NEW q, On(q, i)
  PROVE  \E m \in Node : In(m, i) /\ next[m] = q /\ (m = Head(i, 0) \/ (On(m, i) /\ age[q] < age[m]))
<1> DEFINE Y == {x \in Members(i) : age[q] < age[x]}
<1>0. q \in Proc /\ q # Nil /\ age[q] \in Nat /\ \A x \in Members(i) : x \in Proc /\ On(x, i) /\ age[x] \in Nat
  BY Indices, SerialFacts DEF On, Members
<1>1. CASE Y = {}
  <2>1. In(Head(i, 0), i) /\ Head(i, 0) \notin Proc /\ Head(i, 0) \in Node
    BY HeadFacts, NodeFacts DEF In
  <2>2. Follows(Head(i, 0), next[Head(i, 0)], i, age)
    BY <2>1, Successor
  <2>3. next[Head(i, 0)] # Nil
    BY <1>0, <2>1, <2>2 DEF Follows, Behind
  <2>4. On(next[Head(i, 0)], i) /\ (q = next[Head(i, 0)] \/ age[q] < age[next[Head(i, 0)]])
    BY <1>0, <2>1, <2>2, <2>3 DEF Follows, Behind
  <2>5. next[Head(i, 0)] \in Members(i)
    BY <2>4 DEF Members, On
  <2> QED
    BY <1>1, <2>1, <2>4, <2>5
<1>2. CASE Y # {}
  <2> DEFINE A == {age[x] : x \in Y}
  <2>1. A \in SUBSET Nat /\ A # {}
    BY <1>0, <1>2
  <2>2. PICK a \in A : \A y \in A : a <= y
    BY <2>1, LeastIn
  <2>3. PICK m \in Y : a = age[m]
    BY <2>2
  <2>4. m \in Proc /\ m \in Node /\ On(m, i) /\ In(m, i) /\ age[m] \in Nat /\ age[q] < age[m]
    BY <1>0, <2>3, NodeFacts DEF In
  <2>5. Follows(m, next[m], i, age)
    BY <2>4, Successor
  <2>6. next[m] # Nil
    BY <1>0, <2>4, <2>5 DEF Follows, Behind
  <2>7. On(next[m], i) /\ (q = next[m] \/ age[q] < age[next[m]]) /\ age[next[m]] < age[m] /\ next[m] \in Proc
    BY <1>0, <2>4, <2>5, <2>6 DEF Follows, Behind, On
  <2>8. ASSUME age[q] < age[next[m]] PROVE FALSE
    <3>1. next[m] \in Y
      BY <2>7, <2>8 DEF Members
    <3>2. a <= age[next[m]] /\ age[next[m]] \in Nat
      BY <1>0, <2>2, <3>1
    <3> QED
      BY <2>3, <2>4, <2>7, <3>2
  <2> QED
    BY <2>4, <2>7, <2>8
<1> QED
  BY <1>1, <1>2

\* A walk from the head meets the members of the list.
LEMMA OnListIs ==
  ASSUME OneCpu, NEW age, Serial(age), Quiet, NEW i \in ListIndex
  PROVE  OnList(Head(i, 0)) = Members(i)
<1> DEFINE h == Head(i, 0)
           Closed(S) == \A n \in S \cup {h} : next[n] \in S \cup {Nil}
<1>0. pc[0] # "add_first_end" /\ Members(i) \in SUBSET Proc /\ \A p : p \in Members(i) <=> On(p, i)
  BY QuietFacts DEF Members, On
<1>1. Closed(Members(i))
  <2> SUFFICES ASSUME NEW n \in Members(i) \cup {h}, next[n] # Nil PROVE next[n] \in Members(i)
    OBVIOUS
  <2>1. In(n, i)
    BY <1>0 DEF In
  <2> QED
    BY <1>0, <2>1, Successor DEF Follows
<1>2. ASSUME NEW S \in SUBSET Proc, Closed(S) PROVE Members(i) \subseteq S
  <2> DEFINE Bad == Members(i) \ S
  <2> SUFFICES ASSUME Bad # {} PROVE FALSE
    OBVIOUS
  <2>1. PICK b \in Nat : \A p \in Proc : age[p] < b
    BY Older, SerialFacts
  <2> DEFINE D == {b - age[x] : x \in Bad}
  <2>2. \A x \in Bad : x \in Proc /\ age[x] \in Nat /\ age[x] < b
    BY <1>0, <2>1, SerialFacts
  <2>3. D \in SUBSET Nat /\ D # {}
    BY <2>2
  <2>4. PICK d \in D : \A y \in D : d <= y
    BY <2>3, LeastIn
  <2>5. PICK q \in Bad : d = b - age[q]
    BY <2>4
  <2>6. \A x \in Bad : ~(age[q] < age[x])
    <3> SUFFICES ASSUME NEW x \in Bad, age[q] < age[x] PROVE FALSE
      OBVIOUS
    <3>1. b - age[q] <= b - age[x]
      BY <2>4, <2>5
    <3>2. age[q] \in Nat /\ age[x] \in Nat
      BY <2>2
    <3> QED
      BY <3>1, <3>2
  <2>7. On(q, i)
    BY <1>0
  <2>8. PICK m \in Node : In(m, i) /\ next[m] = q /\ (m = Head(i, 0) \/ (On(m, i) /\ age[q] < age[m]))
    BY <1>0, <2>7, Predecessor
  <2>9. m \in S \cup {h}
    BY <1>0, <2>6, <2>8
  <2>10. q # Nil /\ q \notin S
    BY <2>2, Indices
  <2> QED
    BY <1>2, <2>8, <2>9, <2>10
<1>3. OnList(h) = {p \in Proc : \A S \in SUBSET Proc : Closed(S) => p \in S}
  BY DEF OnList
<1> HIDE DEF Closed
<1> QED
  BY <1>0, <1>1, <1>2, <1>3

LEMMA ListsSerial ==
  ASSUME OneCpu, NEW age, Serial(age)
  PROVE  ListsMatchStates /\ CountsMatchLists
<1> SUFFICES ASSUME Quiet
             PROVE  /\ \A p \in Proc :
                         /\ \E c \in CPU : p \in OnList(Head(ListOf[state[p]], c))
                         /\ Cardinality({h \in Heads : p \in OnList(h)}) = 1
                         /\ Cardinality({n \in Node : next[n] = p}) = 1
                    /\ \A c \in CPU : count[c] = Cardinality(OnList(Head(Runnable, c)))
  BY SerialFacts DEF ListsMatchStates, CountsMatchLists
<1>0. /\ pc[0] # "add_first_end"
      /\ \A p, i : On(p, i) <=> p \in Proc /\ i = ListOf[state[p]]
      /\ \A p \in Proc : ListOf[state[p]] \in ListIndex
  BY QuietFacts
<1>1. \A i \in ListIndex, p \in Proc : p \in OnList(Head(i, 0)) <=> i = ListOf[state[p]]
  BY <1>0, OnListIs DEF Members
<1>2. ASSUME NEW p \in Proc PROVE \E c \in CPU : p \in OnList(Head(ListOf[state[p]], c))
  BY <1>0, <1>1, OneCpuFacts
<1>3. ASSUME NEW p \in Proc PROVE Cardinality({h \in Heads : p \in OnList(h)}) = 1
  <2>1. {h \in Heads : p \in OnList(h)} = {Head(ListOf[state[p]], 0)}
    BY <1>0, <1>1, OneCpuFacts
  <2> QED
    BY <2>1, FS_Singleton
<1>4. ASSUME NEW p \in Proc PROVE Cardinality({n \in Node : next[n] = p}) = 1
  <2> DEFINE i == ListOf[state[p]]
  <2>1. On(p, i) /\ i \in ListIndex /\ p # Nil
    BY <1>0, Indices
  <2>2. PICK m \in Node : In(m, i) /\ next[m] = p
    BY <1>0, <2>1, Predecessor
  <2>3. ASSUME NEW n \in Node, next[n] = p PROVE n = m
    <3>1. PICK j \in ListIndex : In(n, j)
      BY <1>0, NodeFacts DEF In
    <3>2. On(p, j)
      BY <1>0, <2>1, <2>3, <3>1, Successor DEF Follows
    <3>3. j = i
      BY <1>0, <3>2
    <3> QED
      BY <1>0, <2>1, <2>2, <2>3, <3>1, <3>3, UniquePred
  <2>4. {n \in Node : next[n] = p} = {m}
    BY <2>2, <2>3
  <2> QED
    BY <2>4, FS_Singleton
<1>5. ASSUME NEW c \in CPU PROVE count[c] = Cardinality(OnList(Head(Runnable, c)))
  <2>1. c = 0 /\ pc[0] \in {"sched", "run", "fork", "yield"}
    BY OneCpuFacts DEF Quiet
  <2>2. Uncounted = 0 /\ count[0] \in Int
    BY <2>1, OneCpuFacts, SerialFacts DEF Uncounted, TypeOK, ListTypeOK
  <2>3. count[0] + Uncounted = Cardinality(Members(Runnable))
    BY SerialFacts DEF CountInv
  <2>4. OnList(Head(Runnable, 0)) = Members(Runnable)
    BY OnListIs, ListFacts
  <2>5. count[0] = Cardinality(Members(Runnable))
    BY <2>2, <2>3
  <2> QED
    BY <2>1, <2>4, <2>5
<1> QED
  BY <1>2, <1>3, <1>4, <1>5

\* The invariant of the list code of a machine with one CPU, whose steps interrupts come between where
\* no lock is held: the links order every list by age, what remove_first_in_line has read is still
\* true of every node but the head, no lock of a node or a process is held longer than needed, and
\* the load counts the members.
THEOREM SerialInvariance == ASSUME OneCpu PROVE Spec => []SerialInv
<1>1. Init => SerialInv
  BY InitSerial
<1>2. SerialInv /\ [Next]_vars => SerialInv'
  BY NextSerial
<1> QED
  BY <1>1, <1>2, PTL DEF Spec

\* With one CPU no call acquires a lock it holds already: a walk locks two different nodes and
\* releases both, and no process is locked outside of the call that is about it.
THEOREM SerialNoPanic == ASSUME OneCpu PROVE Spec => []NoPanic
<1>1. SerialInv => NoPanic
  BY OneCpuFacts, SerialFacts DEF SerialInv, ArgInv, NoPanic
<1> QED
  BY SerialInvariance, <1>1, PTL

\* With one CPU no walk uses the end of a list as a node, no pair that validate looks for is missing
\* and find_min_index finds the CPU, but for one place: where remove_first_in_line has read that the
\* line is empty and an interrupt has put a process there before it tests that.
THEOREM SerialUb == ASSUME OneCpu PROVE Spec => []UbAtEmptyLine
<1>1. SerialInv => UbAtEmptyLine
  <2> SUFFICES ASSUME NEW age, Serial(age), pc[0] = "ub"
               PROVE  /\ call[0] \in SchedulerCalls
                      /\ pred[0] = Head(Runnable, cpuNum[0]) /\ next[pred[0]] # Nil /\ curr[0] = Nil
    BY OneCpuFacts DEF SerialInv, UbAtEmptyLine
  <2>1. pred[0] = HeadOf(0) /\ list[0] = Runnable /\ next[pred[0]] # Nil /\ curr[0] = Nil
    BY SerialFacts DEF FirstWalk
  <2> QED
    BY <2>1, SerialFacts DEF ArgInv, HeadOf
<1> QED
  BY SerialInvariance, <1>1, PTL

\* With one CPU every process is on the list of its state and on no other whenever no call is
\* under way, and it has one predecessor there.
THEOREM SerialLists == ASSUME OneCpu PROVE Spec => []ListsMatchStates
<1>1. SerialInv => ListsMatchStates
  BY ListsSerial DEF SerialInv
<1> QED
  BY SerialInvariance, <1>1, PTL

\* With one CPU the load is the length of the runnable list whenever no call is under way.
THEOREM SerialCounts == ASSUME OneCpu PROVE Spec => []CountsMatchLists
<1>1. SerialInv => CountsMatchLists
  BY ListsSerial DEF SerialInv
<1> QED
  BY SerialInvariance, <1>1, PTL
=============================================================================
