----------------------------- MODULE ProcLists -----------------------------
(***************************************************************************)
(* The linked lists of processes of Assignment 2 (kernel/proc.c): one list *)
(* per process state, for RUNNABLE one per CPU.  A node holds the index of *)
(* its successor and a lock, next_lock.  add, remove and                   *)
(* remove_first_in_line walk a list without locks, lock the two nodes they *)
(* are going to change, and validate by a second walk that the two are     *)
(* still neighbours on the list.                                           *)
(*                                                                         *)
(* A step is one access to a next field or a lock.  A store and the        *)
(* releases that follow it are one step: while the locks are held nobody   *)
(* else stores to those fields.  proc[-1] is what lies in memory before    *)
(* proc: to use it as a node is undefined, "ub".  acquire of a lock that   *)
(* the CPU holds already is "panic".  Neither is ever left.                *)
(***************************************************************************)
EXTENDS Integers, FiniteSets

CONSTANTS
    NCPU,        \* CPUs are 0 .. NCPU - 1
    NPROC,       \* processes are 0 .. NPROC - 1, as in proc[]
    NoCpu        \* nobody holds the lock

ASSUME ProcListsAssumption ==
    /\ NCPU \in Nat \ {0}
    /\ NPROC \in Nat \ {0}
    /\ NoCpu \notin Int

CPU  == 0 .. NCPU - 1
Proc == 0 .. NPROC - 1
Nil  == -1                       \* end of a list, and the index in &proc[-1]

\* list_index of add and remove
Running == 0
Unused == 1
Runnable == 2
Sleeping == 3
Zombie == 4
ListIndex == 0 .. 4

\* The nodes: the processes, lists_heads[i] and runnable_heads[cpu].
Head(i, cpu) == IF i = Runnable THEN NPROC + 5 + cpu ELSE NPROC + i
Heads == {Head(i, cpu) : i \in ListIndex, cpu \in CPU}
Node == Proc \cup Heads

VARIABLES
    next,        \* next[n]
    next_lock,   \* next_lock[n]: the CPU that holds it
    count,       \* cpu_capacity_counter[cpu]
    \* the locals of the list code a CPU is in
    pc,
    item, list, cpuNum,   \* the arguments of add and remove
    pred, curr,
    node,        \* the loop variable of validate
    result       \* what remove and remove_first_in_line have returned

listVars == <<next, next_lock, count>>
argVars  == <<item, list, cpuNum>>
walkVars == <<pred, curr, node>>

RemovePcs == {"rm_start", "rm_test", "rm_match", "rm_step", "rm_lock_pred",
              "rm_lock_curr", "rm_validate", "rm_validate_next", "rm_unlink"}
AddPcs == {"add_lock_head", "add_test", "add_first", "add_first_end",
           "add_lock_curr", "add_validate", "add_link", "add_link_end"}
FirstPcs == {"rf_start", "rf_empty", "rf_test", "rf_step", "rf_lock_pred",
             "rf_lock_curr", "rf_validate", "rf_validate_next", "rf_unlink", "rf_release"}
ListPcs == RemovePcs \cup AddPcs \cup FirstPcs \cup
           {"removed", "added", "took_first", "panic", "ub"}

ListTypeOK ==
    /\ next \in [Node -> Proc \cup {Nil}]
    /\ next_lock \in [Node -> CPU \cup {NoCpu}]
    /\ count \in [CPU -> Int]
    /\ item \in [CPU -> Proc \cup {Nil}]
    /\ list \in [CPU -> ListIndex]
    /\ cpuNum \in [CPU -> CPU \cup {Nil}]
    /\ pred \in [CPU -> Node \cup {Nil}]
    /\ curr \in [CPU -> Proc \cup {Nil}]
    /\ node \in [CPU -> Node \cup {Nil}]
    /\ result \in [CPU -> Proc \cup {Nil, 1}]

Goto(c, l) == pc' = [pc EXCEPT ![c] = l]

HeadOf(c) == Head(list[c], cpuNum[c])

Call(c, p, i, cpu, l) ==
    /\ item' = [item EXCEPT ![c] = p]
    /\ list' = [list EXCEPT ![c] = i]
    /\ cpuNum' = [cpuNum EXCEPT ![c] = cpu]
    /\ Goto(c, l)
    /\ UNCHANGED walkVars

\* return r: the walk variables are dead.
Return(c, r, l) ==
    /\ result' = [result EXCEPT ![c] = r]
    /\ pred' = [pred EXCEPT ![c] = Nil]
    /\ curr' = [curr EXCEPT ![c] = Nil]
    /\ node' = [node EXCEPT ![c] = Nil]
    /\ Goto(c, l)
    /\ UNCHANGED argVars

CallRemove(c, p, i)      == Call(c, p, i, c, "rm_start")
CallAdd(c, p, i, cpu)    == Call(c, p, i, cpu, "add_lock_head")
CallRemoveFirst(c, cpu)  == Call(c, Nil, Runnable, cpu, "rf_start")

\* A step of c from l that reads the lists only.
Reads(c, l) == pc[c] = l /\ UNCHANGED <<listVars, argVars, result>>

\* acquire(&n->next_lock), then l.
AcquireNext(c, n, l) ==
    \/ /\ n = Nil
       /\ Goto(c, "ub")
       /\ UNCHANGED next_lock
    \/ /\ n # Nil
       /\ next_lock[n] = c
       /\ Goto(c, "panic")
       /\ UNCHANGED next_lock
    \/ /\ n # Nil
       /\ next_lock[n] = NoCpu
       /\ next_lock' = [next_lock EXCEPT ![n] = c]
       /\ Goto(c, l)

ReleaseNext(S) == next_lock' = [n \in Node |-> IF n \in S THEN NoCpu ELSE next_lock[n]]

\* p = &proc[n->next], where n may be &proc[-1]; then l.
Step(c, n, l) ==
    IF n = Nil THEN Goto(c, "ub") /\ UNCHANGED walkVars
    ELSE /\ pred' = [pred EXCEPT ![c] = n]
         /\ curr' = [curr EXCEPT ![c] = next[n]]
         /\ Goto(c, l)
         /\ UNCHANGED node

-----------------------------------------------------------------------------
(* validate(pred, curr, list_index, cpu_num): yes and no are where to go on *)

\* node->next != -1; node == pred; &proc[pred->next] == curr
Validate(c, here, step, yes, no) ==
    /\ Reads(c, here)
    /\ Goto(c, IF node[c] = Nil THEN "ub"
               ELSE IF next[node[c]] = Nil THEN no
               ELSE IF node[c] # pred[c] THEN step
               ELSE IF next[pred[c]] = curr[c] THEN yes ELSE no)
    /\ UNCHANGED walkVars

\* node = &proc[node->next]
ValidateNext(c, here, back) ==
    /\ Reads(c, here)
    /\ node' = [node EXCEPT ![c] = next[node[c]]]
    /\ Goto(c, back)
    /\ UNCHANGED <<pred, curr>>

\* The second acquire is followed by the start of validate.
LockCurr(c, here, l) ==
    /\ pc[c] = here
    /\ AcquireNext(c, curr[c], l)
    /\ node' = [node EXCEPT ![c] = HeadOf(c)]
    /\ UNCHANGED <<next, count, argVars, pred, curr, result>>

LockPred(c, here, l) ==
    /\ pc[c] = here
    /\ AcquireNext(c, pred[c], l)
    /\ UNCHANGED <<next, count, argVars, walkVars, result>>

-----------------------------------------------------------------------------
(* remove(item, list_index) *)

RmStart(c) == Reads(c, "rm_start") /\ Step(c, HeadOf(c), "rm_test")

\* pred->next != -1
RmTest(c) ==
    /\ Reads(c, "rm_test")
    /\ Goto(c, IF next[pred[c]] = Nil THEN "rm_lock_pred" ELSE "rm_match")
    /\ UNCHANGED walkVars

\* item != &proc[pred->next]
RmMatch(c) ==
    /\ Reads(c, "rm_match")
    /\ Goto(c, IF next[pred[c]] = item[c] THEN "rm_lock_pred" ELSE "rm_step")
    /\ UNCHANGED walkVars

RmStep(c) == Reads(c, "rm_step") /\ Step(c, curr[c], "rm_test")

RmLockPred(c) == LockPred(c, "rm_lock_pred", "rm_lock_curr")
RmLockCurr(c) == LockCurr(c, "rm_lock_curr", "rm_validate")

\* When validate says no, remove starts again and releases neither lock.
RmValidate(c) == Validate(c, "rm_validate", "rm_validate_next", "rm_unlink", "rm_start")
RmValidateNext(c) == ValidateNext(c, "rm_validate_next", "rm_validate")

RmUnlink(c) ==
    /\ pc[c] = "rm_unlink"
    /\ \/ /\ curr[c] = item[c]
          /\ next' = [next EXCEPT ![pred[c]] = next[curr[c]]]
          /\ Return(c, 1, "removed")
       \/ /\ curr[c] # item[c]
          /\ Return(c, 0, "removed")
          /\ UNCHANGED next
    /\ ReleaseNext({pred[c], curr[c]})
    /\ UNCHANGED count

-----------------------------------------------------------------------------
(* add(item, list_index, cpu_num): at the front of the list *)

AddLockHead(c) ==
    /\ pc[c] = "add_lock_head"
    /\ AcquireNext(c, HeadOf(c), "add_test")
    /\ pred' = [pred EXCEPT ![c] = HeadOf(c)]
    /\ UNCHANGED <<next, count, argVars, curr, node, result>>

AddTest(c) ==
    /\ Reads(c, "add_test")
    /\ curr' = [curr EXCEPT ![c] = next[pred[c]]]
    /\ Goto(c, IF next[pred[c]] = Nil THEN "add_first" ELSE "add_lock_curr")
    /\ UNCHANGED <<pred, node>>

\* pred->next = item - proc
AddFirst(c) ==
    /\ pc[c] = "add_first"
    /\ next' = [next EXCEPT ![pred[c]] = item[c]]
    /\ Goto(c, "add_first_end")
    /\ UNCHANGED <<next_lock, count, argVars, walkVars, result>>

\* item->next = -1
AddFirstEnd(c) ==
    /\ pc[c] = "add_first_end"
    /\ next' = [next EXCEPT ![item[c]] = Nil]
    /\ ReleaseNext({pred[c]})
    /\ Return(c, 1, "added")
    /\ UNCHANGED count

AddLockCurr(c) == LockCurr(c, "add_lock_curr", "add_validate")

\* pred is the head: the first round of validate decides.
AddValidate(c) ==
    /\ pc[c] = "add_validate"
    /\ IF next[pred[c]] # Nil /\ next[pred[c]] = curr[c]
       THEN Goto(c, "add_link") /\ UNCHANGED next_lock
       ELSE Goto(c, "add_lock_head") /\ ReleaseNext({pred[c], curr[c]})
    /\ UNCHANGED <<next, count, argVars, walkVars, result>>

\* item->next = pred->next
AddLink(c) ==
    /\ pc[c] = "add_link"
    /\ next' = [next EXCEPT ![item[c]] = next[pred[c]]]
    /\ Goto(c, "add_link_end")
    /\ UNCHANGED <<next_lock, count, argVars, walkVars, result>>

\* mutant of AddLinkEnd: release(&curr->next_lock) is missing
AddLinkEndKeeps(c) ==
    /\ pc[c] = "add_link_end"
    /\ next' = [next EXCEPT ![pred[c]] = item[c]]
    /\ ReleaseNext({pred[c]})
    /\ Return(c, 1, "added")
    /\ UNCHANGED count

\* pred->next = item - proc
AddLinkEnd(c) ==
    /\ pc[c] = "add_link_end"
    /\ next' = [next EXCEPT ![pred[c]] = item[c]]
    /\ ReleaseNext({pred[c], curr[c]})
    /\ Return(c, 1, "added")
    /\ UNCHANGED count

-----------------------------------------------------------------------------
(* remove_first_in_line(cpu_to_steal): the last node of a runnable list *)

RfStart(c) == Reads(c, "rf_start") /\ Step(c, HeadOf(c), "rf_empty")

\* mutant of RfEmpty: the test for an empty line is missing
RfEmptyUntested(c) ==
    /\ pc[c] = "rf_empty"
    /\ Goto(c, "rf_test")
    /\ UNCHANGED <<listVars, argVars, walkVars, result>>

RfEmpty(c) ==
    /\ pc[c] = "rf_empty"
    /\ IF next[pred[c]] = Nil
       THEN Return(c, Nil, "took_first")
       ELSE Goto(c, "rf_test") /\ UNCHANGED <<argVars, walkVars, result>>
    /\ UNCHANGED listVars

\* curr->next != -1
RfTest(c) ==
    /\ Reads(c, "rf_test")
    /\ Goto(c, IF curr[c] = Nil THEN "ub"
               ELSE IF next[curr[c]] = Nil THEN "rf_lock_pred" ELSE "rf_step")
    /\ UNCHANGED walkVars

RfStep(c) == Reads(c, "rf_step") /\ Step(c, curr[c], "rf_test")

RfLockPred(c) == LockPred(c, "rf_lock_pred", "rf_lock_curr")
RfLockCurr(c) == LockCurr(c, "rf_lock_curr", "rf_validate")
RfValidate(c) ==
    Validate(c, "rf_validate", "rf_validate_next", "rf_unlink", "rf_release")
RfValidateNext(c) == ValidateNext(c, "rf_validate_next", "rf_validate")

\* pred->next = curr->next; decrement_cpu
RfUnlink(c) ==
    /\ pc[c] = "rf_unlink"
    /\ next' = [next EXCEPT ![pred[c]] = next[curr[c]]]
    /\ count' = [count EXCEPT ![cpuNum[c]] = @ - 1]
    /\ ReleaseNext({pred[c], curr[c]})
    /\ Return(c, curr[c], "took_first")

\* validate said no
RfRelease(c) ==
    /\ pc[c] = "rf_release"
    /\ ReleaseNext({pred[c], curr[c]})
    /\ Goto(c, "rf_start")
    /\ UNCHANGED <<next, count, argVars, walkVars, result>>

-----------------------------------------------------------------------------
ListStep(c) ==
    \/ RmStart(c) \/ RmTest(c) \/ RmMatch(c) \/ RmStep(c)
    \/ RmLockPred(c) \/ RmLockCurr(c) \/ RmValidate(c) \/ RmValidateNext(c)
    \/ RmUnlink(c)
    \/ AddLockHead(c) \/ AddTest(c) \/ AddFirst(c) \/ AddFirstEnd(c)
    \/ AddLockCurr(c) \/ AddValidate(c) \/ AddLink(c) \/ AddLinkEnd(c)
    \/ RfStart(c) \/ RfEmpty(c) \/ RfTest(c) \/ RfStep(c)
    \/ RfLockPred(c) \/ RfLockCurr(c) \/ RfValidate(c) \/ RfValidateNext(c)
    \/ RfUnlink(c) \/ RfRelease(c)
=============================================================================
