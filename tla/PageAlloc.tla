----------------------------- MODULE PageAlloc -----------------------------
(***************************************************************************)
(* kalloc.c of Assignment 3: the free list of physical pages and the table *)
(* of reference counts that copy-on-write fork added to it.                *)
(*                                                                         *)
(* A use is a place that keeps the address of a page: an entry of a page   *)
(* table, or a local variable of kernel code that is about to store or to  *)
(* free it.  The count of a page is meant to be the number of its uses.    *)
(* The code that runs on a thread may work on the uses of owner[u] = t and *)
(* must keep to this contract, which CowMem shows the kernel does: kfree   *)
(* is called for a use of one's own, reference_add for a page of which one *)
(* has a use already.                                                      *)
(*                                                                         *)
(* A section under kmem.lock is one step, the compare and swap loops are a *)
(* read and a cas that may fail and read again.                            *)
(***************************************************************************)
EXTENDS Integers, FiniteSets

CONSTANTS
    Thread,      \* processes in the kernel, each on a CPU
    Frames,      \* pages between end and PHYSTOP
    Use,         \* places that may keep the address of a page
    None

ASSUME PageAllocAssumption ==
    /\ IsFiniteSet(Use)
    /\ None \notin Frames \cup Use

VARIABLES
    free,        \* kmem.freelist
    references,  \* references[f]
    page,        \* page[u]: the page the use u keeps, or None
    owner,       \* owner[u]: the thread that may work on u
    pc,          \* where a thread is in kfree or reference_add
    arg,         \* their argument pa
    use,         \* the use that kfree gives up or that reference_add counts
    ref          \* the value their cas loop has read, 0 when it is not needed

vars == <<free, references, page, owner, pc, arg, use, ref>>

AddPcs == {"add_read", "add_cas"}
RemovePcs == {"remove_read", "remove_cas"}
FreePcs == {"zero", "push"}

TypeOK ==
    /\ free \subseteq Frames
    /\ references \in [Frames -> Nat]
    /\ page \in [Use -> Frames \cup {None}]
    /\ owner \in [Use -> Thread]
    /\ pc \in [Thread -> {"idle"} \cup AddPcs \cup RemovePcs \cup FreePcs]
    /\ arg \in [Thread -> Frames \cup {None}]
    /\ use \in [Thread -> Use \cup {None}]
    /\ ref \in [Thread -> Nat]

UsesOf(f) == {u \in Use : page[u] = f}

\* Any division of the pages into free ones and pages of the uses they have.
Init ==
    /\ page \in [Use -> Frames \cup {None}]
    /\ owner \in [Use -> Thread]
    /\ references = [f \in Frames |-> Cardinality(UsesOf(f))]
    /\ free = {f \in Frames : UsesOf(f) = {}}
    /\ pc = [t \in Thread |-> "idle"]
    /\ arg = [t \in Thread |-> None]
    /\ use = [t \in Thread |-> None]
    /\ ref = [t \in Thread |-> 0]

Goto(t, l) == pc' = [pc EXCEPT ![t] = l]

\* kfree and reference_add end.
Return(t) ==
    /\ Goto(t, "idle")
    /\ arg' = [arg EXCEPT ![t] = None]
    /\ use' = [use EXCEPT ![t] = None]
    /\ ref' = [ref EXCEPT ![t] = 0]

-----------------------------------------------------------------------------
(* What the callers do with their uses *)

\* The address moves from one place of t to another.
Move(t, u, w) ==
    /\ pc[t] = "idle"
    /\ owner[u] = t
    /\ owner[w] = t
    /\ page' = [page EXCEPT ![u] = page[w], ![w] = page[u]]
    /\ UNCHANGED <<free, references, owner, pc, arg, use, ref>>

\* mutant of HandOver: also in the middle of a call of either thread
HandOverAnytime ==
    /\ owner' \in [Use -> Thread]
    /\ UNCHANGED <<free, references, page, pc, arg, use, ref>>

\* fork, exit and wait: a page table passes from one thread to another.
HandOver ==
    /\ owner' \in [Use -> Thread]
    /\ \A u \in Use : owner'[u] # owner[u] =>
          pc[owner[u]] = "idle" /\ pc[owner'[u]] = "idle"
    /\ UNCHANGED <<free, references, page, pc, arg, use, ref>>

-----------------------------------------------------------------------------
(* kalloc *)

Kalloc(t, u) ==
    /\ pc[t] = "idle"
    /\ owner[u] = t
    /\ page[u] = None
    /\ \E f \in free :
          /\ free' = free \ {f}
          /\ references' = [references EXCEPT ![f] = 1]
          /\ page' = [page EXCEPT ![u] = f]
    /\ UNCHANGED <<owner, pc, arg, use, ref>>

-----------------------------------------------------------------------------
(* reference_add: w becomes another use of the page of u *)

AddCall(t, u, w) ==
    /\ pc[t] = "idle"
    /\ owner[u] = t
    /\ page[u] # None
    /\ owner[w] = t
    /\ page[w] = None
    /\ arg' = [arg EXCEPT ![t] = page[u]]
    /\ use' = [use EXCEPT ![t] = w]
    /\ Goto(t, "add_read")
    /\ UNCHANGED <<free, references, page, owner, ref>>

AddRead(t) ==
    /\ pc[t] = "add_read"
    /\ ref' = [ref EXCEPT ![t] = references[arg[t]]]
    /\ Goto(t, "add_cas")
    /\ UNCHANGED <<free, references, page, owner, arg, use>>

\* mutant of AddCas: the store of the new value without the comparison
AddCasBlind(t) ==
    /\ pc[t] = "add_cas"
    /\ references' = [references EXCEPT ![arg[t]] = ref[t] + 1]
    /\ page' = [page EXCEPT ![use[t]] = arg[t]]
    /\ Return(t)
    /\ UNCHANGED <<free, owner>>

AddCas(t) ==
    /\ pc[t] = "add_cas"
    /\ \/ /\ references[arg[t]] = ref[t]
          /\ references' = [references EXCEPT ![arg[t]] = ref[t] + 1]
          /\ page' = [page EXCEPT ![use[t]] = arg[t]]
          /\ Return(t)
       \/ /\ references[arg[t]] # ref[t]
          /\ Goto(t, "add_read")
          /\ ref' = [ref EXCEPT ![t] = 0]
          /\ UNCHANGED <<references, page, arg, use>>
    /\ UNCHANGED <<free, owner>>

-----------------------------------------------------------------------------
(* kfree: reference_remove, and if that was the last use, the free list *)

FreeCall(t, u) ==
    /\ pc[t] = "idle"
    /\ owner[u] = t
    /\ page[u] # None
    /\ arg' = [arg EXCEPT ![t] = page[u]]
    /\ use' = [use EXCEPT ![t] = u]
    /\ Goto(t, "remove_read")
    /\ UNCHANGED <<free, references, page, owner, ref>>

RemoveRead(t) ==
    /\ pc[t] = "remove_read"
    /\ ref' = [ref EXCEPT ![t] = references[arg[t]]]
    /\ Goto(t, "remove_cas")
    /\ UNCHANGED <<free, references, page, owner, arg, use>>

StillUsedOffByOne(count) == count > 1      \* mutant of StillUsed
StillUsedOrZero(count) == count >= 0       \* mutant of StillUsed
StillUsed(count) == count > 0

RemoveCas(t) ==
    /\ pc[t] = "remove_cas"
    /\ \/ /\ references[arg[t]] = ref[t]
          /\ references' = [references EXCEPT ![arg[t]] = ref[t] - 1]
          /\ page' = [page EXCEPT ![use[t]] = None]
          /\ IF StillUsed(ref[t] - 1)
             THEN Return(t)
             ELSE /\ Goto(t, "zero")
                  /\ ref' = [ref EXCEPT ![t] = 0]
                  /\ UNCHANGED <<arg, use>>
       \/ /\ references[arg[t]] # ref[t]
          /\ Goto(t, "remove_read")
          /\ ref' = [ref EXCEPT ![t] = 0]
          /\ UNCHANGED <<references, page, arg, use>>
    /\ UNCHANGED <<free, owner>>

\* references[..] = 0, then memset
ZeroCount(t) ==
    /\ pc[t] = "zero"
    /\ references' = [references EXCEPT ![arg[t]] = 0]
    /\ Goto(t, "push")
    /\ UNCHANGED <<free, page, owner, arg, use, ref>>

Push(t) ==
    /\ pc[t] = "push"
    /\ free' = free \cup {arg[t]}
    /\ Return(t)
    /\ UNCHANGED <<references, page, owner>>

-----------------------------------------------------------------------------
Next ==
    \/ HandOver
    \/ \E t \in Thread :
         \/ \E u, w \in Use : Move(t, u, w) \/ AddCall(t, u, w)
         \/ \E u \in Use : Kalloc(t, u) \/ FreeCall(t, u)
         \/ AddRead(t) \/ AddCas(t)
         \/ RemoveRead(t) \/ RemoveCas(t) \/ ZeroCount(t) \/ Push(t)

Spec == Init /\ [][Next]_vars

-----------------------------------------------------------------------------
Freeing(t, f) == pc[t] \in FreePcs /\ arg[t] = f

\* The count of a page is the number of its uses after every step, however
\* the cas loops of several CPUs on the same page interleave.
RefCountExact == \A f \in Frames : references[f] = Cardinality(UsesOf(f))

\* A page on the free list, or past the last reference_remove, has no use,
\* and exactly one thread puts it on the list: no double free, and a page
\* that kalloc returns is nobody else's.
FreeIsUnused ==
    /\ \A f \in free : UsesOf(f) = {} /\ \A t \in Thread : ~Freeing(t, f)
    /\ \A t \in Thread : pc[t] \in FreePcs => UsesOf(arg[t]) = {}
    /\ \A s, t \in Thread : pc[s] \in FreePcs /\ Freeing(t, arg[s]) => s = t

\* A page without a use is free or about to be.
NoPageLost ==
    \A f \in Frames : UsesOf(f) = {} => f \in free \/ \E t \in Thread : Freeing(t, f)

\* What a thread in the middle of a call knows about its argument
CallsOK ==
    \A t \in Thread :
      /\ pc[t] # "idle" => arg[t] \in Frames /\ use[t] \in Use
      /\ pc[t] \in AddPcs =>
            /\ owner[use[t]] = t /\ page[use[t]] = None
            /\ \E u \in Use : owner[u] = t /\ page[u] = arg[t]
      /\ pc[t] \in RemovePcs => owner[use[t]] = t /\ page[use[t]] = arg[t]

\* The inductive invariant
Inv == TypeOK /\ CallsOK /\ RefCountExact /\ FreeIsUnused /\ NoPageLost
=============================================================================
