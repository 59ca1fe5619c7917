---------------------------- MODULE CowMem_proof ----------------------------
(***************************************************************************)
(* Theorems about CowMem.  First its page tables: who works on which, and  *)
(* which entries are present at each point of the work (PageTableInv), so  *)
(* that none of the panics of uvmunmap and uvmcopy is reached.             *)
(*                                                                         *)
(* Then what CowMem implements.  PageAlloc: fork, page faults, sbrk, exit  *)
(* and wait keep the contract of kalloc and kfree at every step, so that   *)
(* the theorems about PageAlloc hold of the whole kernel.  ForkMemory: a   *)
(* frame that a process may write without a fault is mapped nowhere else,  *)
(* so that fork, sbrk and stores behave as if every process had a memory   *)
(* of its own.                                                             *)
(***************************************************************************)
EXTENDS CowMem, FiniteSetTheorems, TLAPS

-----------------------------------------------------------------------------
(* PageTableInv, one process at a time *)

Life(p) ==
    /\ pc[p] = "dead" <=> state[p] # "RUNNABLE"
    /\ tgt[p] # p <=>
         \/ Copying(p) \/ pc[p] = "free_proc"
         \/ Unmapping(p) /\ after[p] = "free_proc"
    /\ tgt[p] # p => state[tgt[p]] \in {"USED", "ZOMBIE"}
    /\ tgt[p] # p /\ state[tgt[p]] = "ZOMBIE" => parent[tgt[p]] = p
    /\ Copying(p) => state[tgt[p]] = "USED"
    /\ state[p] \in {"UNUSED", "USED"} => sz[p] = 0

Apart(p, q) == tgt[p] = tgt[q] /\ tgt[p] # p /\ tgt[q] # q => p = q

Locals(p) ==
    /\ pc[p] \in CowPcs => ret[p] \in {"return", "copyout"}
    /\ pc[p] \in {"cow_copy", "cow_install", "grow_map"} => npa[p] \in Frames
    /\ pc[p] \in KfreePcs \cup {"cow_free"} => pa[p] \in Frames
    /\ Growing(p) => /\ sz[p] <= va[p] /\ va[p] <= end[p] /\ newsz[p] = end[p]
                     /\ pc[p] = "grow_map" => va[p] < end[p]
    /\ Unmapping(p) /\ pc[p] # "unmap" =>
         va[p] < end[p] /\ frame[tgt[p]][va[p]] # None
    /\ Unmapping(p) /\ after[p] = "set_size" => newsz[p] <= va[p]
    /\ Unmapping(p) /\ after[p] = "return" => sz[p] <= va[p]
    /\ Copying(p) => va[p] <= sz[p]
    /\ pc[p] \in {"ref_read", "ref_cas"} =>
         va[p] < sz[p] /\ frame[tgt[p]][va[p]] = frame[p][va[p]]
    /\ Cowing(p) => va[p] \in VA /\ frame[p][va[p]] # None
    /\ (\/ pc[p] = "copyout"
        \/ pc[p] \in KfreePcs \cup {"cow_free"} /\ ret[p] = "copyout") =>
         PTE_W \in flags[p][va[p]]

Own(p) == state[p] = "RUNNABLE" =>
            \A v \in VA : frame[p][v] # None <=> v \in OwnPages(p)

Child(p) == tgt[p] # p =>
            \A v \in VA : frame[tgt[p]][v] # None <=> v \in ChildPages(p)

Idle(c) == state[c] # "RUNNABLE" /\ (\A p \in Proc : p = c \/ tgt[p] # c) =>
            \A v \in VA : frame[c][v] # None <=> v < sz[c]

Flagged(p) == \A v \in VA : frame[p][v] # None => flags[p][v] # {}

Mine(p) == Life(p) /\ Locals(p) /\ Own(p) /\ Child(p) /\ Idle(p) /\ Flagged(p)

LEMMA InvParts ==
  PageTableInv <=> /\ TypeOK
                   /\ \A p \in Proc : Mine(p)
                   /\ \A p, q \in Proc : Apart(p, q)
<1>1. Lifecycle <=> (\A p \in Proc : Life(p)) /\ (\A p, q \in Proc : Apart(p, q))
  BY DEF Lifecycle, Life, Apart
<1>2. LocalsOK <=> \A p \in Proc : Locals(p)
  BY DEF LocalsOK, Locals
<1>3. PagesPresent <=> \A p \in Proc : Own(p) /\ Child(p) /\ Idle(p) /\ Flagged(p)
  BY DEF PagesPresent, Own, Child, Idle, Flagged
<1> QED
  BY <1>1, <1>2, <1>3 DEF PageTableInv, Mine

LEMMA InvPartsNext ==
  PageTableInv' <=> (/\ TypeOK
                     /\ \A p \in Proc : Mine(p)
                     /\ \A p, q \in Proc : Apart(p, q))'
BY InvParts, PTL

-----------------------------------------------------------------------------
(* A step of p touches p and at most one other process c, which is not
   running and which nobody but p has in hand. *)

Alone(p, c) ==
    /\ pc[p] # "dead"
    /\ tgt[p] \in {p, c}
    /\ c # p => pc[c] = "dead"
    /\ \A q \in Proc \ {p, c} : tgt[q] # p /\ tgt[q] # c

Touches(p, c) ==
    /\ \A q \in Proc \ {p, c} :
         /\ pc'[q] = pc[q]
         /\ state'[q] = state[q]
         /\ sz'[q] = sz[q]
         /\ frame'[q] = frame[q]
         /\ flags'[q] = flags[q]
         /\ parent'[q] = parent[q] \/ parent[q] = p
    /\ \A q \in Proc \ {p} :
         /\ tgt'[q] = tgt[q]
         /\ va'[q] = va[q]
         /\ end'[q] = end[q]
         /\ newsz'[q] = newsz[q]
         /\ after'[q] = after[q]
         /\ pa'[q] = pa[q]
         /\ npa'[q] = npa[q]
         /\ ret'[q] = ret[q]
    /\ tgt'[p] \in {p, c}

LEMMA OthersKeep ==
  ASSUME TypeOK, TypeOK', NEW p \in Proc, NEW c \in Proc, Alone(p, c), Touches(p, c),
         NEW q \in Proc, q # p, q # c, Mine(q)
  PROVE  Mine(q)'
<1>1. tgt[q] # p /\ tgt[q] # c /\ tgt[q] \in Proc
  BY DEF Alone, TypeOK
<1>2. /\ pc'[q] = pc[q] /\ state'[q] = state[q] /\ sz'[q] = sz[q]
      /\ frame'[q] = frame[q] /\ flags'[q] = flags[q]
      /\ tgt'[q] = tgt[q] /\ va'[q] = va[q] /\ end'[q] = end[q] /\ newsz'[q] = newsz[q]
      /\ after'[q] = after[q] /\ pa'[q] = pa[q] /\ npa'[q] = npa[q] /\ ret'[q] = ret[q]
  BY DEF Touches
<1>3. /\ state'[tgt[q]] = state[tgt[q]] /\ frame'[tgt[q]] = frame[tgt[q]]
      /\ parent'[tgt[q]] = parent[tgt[q]] \/ parent[tgt[q]] = p
  BY <1>1 DEF Touches
<1>4. /\ Unmapping(q)' = Unmapping(q) /\ Growing(q)' = Growing(q)
      /\ Cowing(q)' = Cowing(q) /\ Copying(q)' = Copying(q)
  BY <1>2 DEF Unmapping, Growing, Cowing, Copying
<1>5. OwnPages(q)' = OwnPages(q) /\ ChildPages(q)' = ChildPages(q)
  BY <1>2, <1>4 DEF OwnPages, ChildPages
<1>6. Life(q)'
  BY <1>2, <1>3, <1>4 DEF Life, Mine
<1>7. Locals(q)'
  BY <1>2, <1>3, <1>4 DEF Locals, Mine
<1>8. Own(q)' /\ Child(q)' /\ Flagged(q)'
  BY <1>2, <1>3, <1>5 DEF Own, Child, Flagged, Mine
<1>9. Idle(q)'
  <2>1. (\A r \in Proc : r = q \/ tgt'[r] # q) => \A r \in Proc : r = q \/ tgt[r] # q
    BY DEF Alone, Touches
  <2> QED
    BY <1>2, <2>1 DEF Idle, Mine
<1> QED
  BY <1>6, <1>7, <1>8, <1>9 DEF Mine

LEMMA StepKeepsInv ==
  ASSUME PageTableInv, TypeOK', NEW p \in Proc, NEW c \in Proc, Alone(p, c), Touches(p, c),
         Mine(p)', c # p => Mine(c)'
  PROVE  PageTableInv'
<1>1. TypeOK /\ (\A q \in Proc : Mine(q)) /\ \A q, r \in Proc : Apart(q, r)
  BY InvParts
<1>2. \A q \in Proc : Mine(q)'
  BY <1>1, OthersKeep
<1>3. c # p => tgt[c] = c
  BY <1>1 DEF Mine, Life, Alone, Copying, Unmapping, CopyPcs, UnmapPcs, KfreePcs
<1>4. ASSUME NEW q \in Proc, NEW r \in Proc PROVE Apart(q, r)'
  BY <1>1, <1>3 DEF Apart, Alone, Touches
<1> QED
  BY <1>2, <1>4, InvPartsNext

\* p has its own page table in hand, or the one of a child.
LEMMA OneInHand ==
  ASSUME PageTableInv, NEW p \in Proc, pc[p] # "dead"
  PROVE  tgt[p] \in Proc /\ Alone(p, tgt[p])
<1>1. TypeOK /\ (\A q \in Proc : Mine(q)) /\ \A q, r \in Proc : Apart(q, r)
  BY InvParts
<1>2. tgt[p] \in Proc
  BY <1>1 DEF TypeOK
<1>3. \A q \in Proc : tgt[q] # q => pc[tgt[q]] = "dead"
  BY <1>1 DEF Mine, Life, TypeOK
<1>4. \A q \in Proc \ {p, tgt[p]} : tgt[q] # p /\ tgt[q] # tgt[p]
  BY <1>1, <1>3 DEF Apart
<1> QED
  BY <1>2, <1>3, <1>4 DEF Alone

\* What is left to show of a process that p has in hand.
LEMMA InHandKeeps ==
  ASSUME TypeOK, TypeOK', NEW p \in Proc, NEW c \in Proc, c # p, Mine(c),
         pc[c] = "dead", Touches(p, c), tgt'[p] = c,
         pc'[c] = pc[c], state'[c] = state[c], sz'[c] = sz[c], Flagged(c)'
  PROVE  Mine(c)'
<1>1. tgt[c] = c /\ state[c] # "RUNNABLE" /\ (state[c] \in {"UNUSED", "USED"} => sz[c] = 0)
  BY DEF Mine, Life, Copying, Unmapping, CopyPcs, UnmapPcs, KfreePcs
<1>2. tgt'[c] = c /\ pc'[c] = "dead"
  BY <1>1 DEF Touches
<1>3. Life(c)' /\ Locals(c)'
  BY <1>1, <1>2 DEF Life, Locals, Copying, Unmapping, Growing, Cowing,
     CopyPcs, UnmapPcs, KfreePcs, CowPcs, GrowPcs
<1>4. Own(c)' /\ Child(c)' /\ Idle(c)'
  BY <1>1, <1>2 DEF Own, Child, Idle
<1> QED
  BY <1>3, <1>4 DEF Mine

\* Steps that change no page table, no process and no p->sz
Quiet(p) ==
    /\ UNCHANGED <<pageVars, procVars, tgt>>
    /\ \A q \in Proc \ {p} :
         /\ pc'[q] = pc[q]
         /\ va'[q] = va[q]
         /\ end'[q] = end[q]
         /\ newsz'[q] = newsz[q]
         /\ after'[q] = after[q]
         /\ pa'[q] = pa[q]
         /\ npa'[q] = npa[q]
         /\ ret'[q] = ret[q]

LEMMA QuietKeeps ==
  ASSUME PageTableInv, TypeOK', NEW p \in Proc, pc[p] # "dead", Quiet(p),
         Life(p)', Locals(p)', Own(p)', Child(p)'
  PROVE  PageTableInv'
<1>0. TypeOK /\ (\A q \in Proc : Mine(q)) /\ tgt[p] \in Proc /\ Alone(p, tgt[p])
  BY InvParts, OneInHand
<1> PICK c \in Proc : c = tgt[p]
  BY <1>0
<1>1. TypeOK /\ (\A q \in Proc : Mine(q)) /\ Alone(p, c)
  BY <1>0
<1>2. Touches(p, c)
  BY DEF Quiet, Touches, pageVars, procVars
<1>3. Flagged(p)' /\ Flagged(c)'
  BY <1>1 DEF Flagged, Mine, Quiet, pageVars
<1>4. Idle(p)'
  <2>1. state[p] = "RUNNABLE" /\ state' = state
    BY <1>1 DEF Mine, Life, Quiet, procVars
  <2> QED
    BY <2>1 DEF Idle
<1>5. Mine(p)'
  BY <1>3, <1>4 DEF Mine
<1>6. c # p => Mine(c)'
  <2> SUFFICES ASSUME c # p PROVE Mine(c)'
    OBVIOUS
  <2>1. pc[c] = "dead" /\ Mine(c)
    BY <1>1 DEF Alone
  <2>2. /\ tgt'[p] = c /\ state'[c] = state[c] /\ sz'[c] = sz[c] /\ pc'[c] = pc[c]
    BY <1>1 DEF Quiet, procVars
  <2> QED
    BY <1>1, <1>2, <1>3, <2>1, <2>2, InHandKeeps
<1> QED
  BY <1>1, <1>2, <1>5, <1>6, StepKeepsInv

LEMMA InvFacts ==
  ASSUME PageTableInv, NEW p \in Proc
  PROVE  TypeOK /\ Life(p) /\ Locals(p) /\ Own(p) /\ Child(p) /\ Idle(p) /\ Flagged(p)
BY InvParts DEF Mine

LEMMA KallocTypes ==
  ASSUME TypeOK, NEW f \in free, Kalloc(f)
  PROVE  /\ free' \subseteq Frames
         /\ references' \in [Frames -> Int]
         /\ content' \in [Frames -> Data \cup {Junk}]
BY DEF TypeOK, Kalloc

LEMMA ExceptType ==
  ASSUME NEW S, NEW T, NEW f \in [S -> T], NEW x \in S, NEW y \in T
  PROVE  [f EXCEPT ![x] = y] \in [S -> T]
OBVIOUS

\* A slot that fork takes, or a zombie that wait has found, is in nobody's hand.
LEMMA FreeHands ==
  ASSUME PageTableInv, NEW p \in Proc, NEW c \in Proc, tgt[p] = p, pc[p] # "dead", c # p,
         state[c] = "UNUSED" \/ (state[c] = "ZOMBIE" /\ parent[c] = p)
  PROVE  /\ pc[c] = "dead" /\ tgt[c] = c /\ Alone(p, c) /\ Mine(c)
         /\ \A v \in VA : frame[c][v] # None <=> v < sz[c]
<1>1. TypeOK /\ Mine(c) /\ \A q \in Proc : Mine(q)
  BY InvParts
<1>2. pc[c] = "dead"
  BY <1>1 DEF Mine, Life
<1>3. \A q \in Proc : q = c \/ tgt[q] # c
  BY <1>1 DEF Mine, Life
<1>4. tgt[c] = c
  BY <1>1, <1>2 DEF Mine, Life, Copying, Unmapping, CopyPcs, UnmapPcs, KfreePcs
<1>5. \A q \in Proc : q # p => tgt[q] # p
  BY <1>1 DEF Mine, Life
<1>6. Alone(p, c)
  BY <1>2, <1>3, <1>5 DEF Alone
<1>7. \A v \in VA : frame[c][v] # None <=> v < sz[c]
  BY <1>1, <1>2, <1>3 DEF Mine, Idle, Life
<1> QED
  BY <1>1, <1>2, <1>4, <1>6, <1>7

LEMMA TableType ==
  ASSUME NEW S, NEW T, NEW U, NEW f \in [S -> [T -> U]], NEW x \in S, NEW y \in T, NEW z \in U
  PROVE  [f EXCEPT ![x][y] = z] \in [S -> [T -> U]]
OBVIOUS

\* mappages finds no page-table page in uvmalloc.
GrowMapFails(p) ==
    /\ pc[p] = "grow_map"
    /\ content' = [content EXCEPT ![npa[p]] = Zero]
    /\ CallKfree(p, npa[p], "grow_undo")
    /\ UNCHANGED <<free, references, pageVars, procVars, loopVars, npa, ref>>

LEMMA UserTrapRetKeeps ==
  ASSUME PageTableInv, NEW p \in Proc, UserTrapRet(p)
  PROVE  PageTableInv'
<1>0. TypeOK
  BY InvFacts
<1>1. Life(p) /\ Locals(p) /\ Own(p) /\ Child(p)
  BY InvFacts
<1>2. pc[p] # "dead" /\ Quiet(p)
  BY <1>0, <1>1 DEF UserTrapRet, TypeOK, Quiet, Life, Locals, Copying, Unmapping,
       Growing, KfreePcs, CowPcs, GrowPcs, CopyPcs, UnmapPcs, Goto, ResetLocals,
       allocVars, pageVars, procVars
<1>3. TypeOK'
  <2>2. /\ free' \subseteq Frames
        /\ references' \in [Frames -> Int]
        /\ content' \in [Frames -> Data \cup {Junk}]
    BY <1>0, CowMemAssumption DEF UserTrapRet, TypeOK, FrameOrNone, Goto, ResetLocals,
         allocVars, pageVars, procVars
  <2>3. /\ pc' \in [Proc -> Pcs]
    BY <1>0, CowMemAssumption DEF UserTrapRet, TypeOK, FrameOrNone, Pcs, KfreePcs,
         CowPcs, GrowPcs, CopyPcs, UnmapPcs, Goto, ResetLocals, allocVars, pageVars,
         procVars
  <2>4. /\ tgt' \in [Proc -> Proc]
        /\ va' \in [Proc -> 0 .. MaxPages]
        /\ end' \in [Proc -> 0 .. MaxPages]
        /\ newsz' \in [Proc -> 0 .. MaxPages]
    BY <1>0, CowMemAssumption DEF UserTrapRet, TypeOK, FrameOrNone, Goto, ResetLocals,
         allocVars, pageVars, procVars
  <2>5. /\ pa' \in [Proc -> FrameOrNone]
        /\ npa' \in [Proc -> FrameOrNone]
        /\ ref' \in [Proc -> Int]
        /\ ret' \in [Proc -> {"return", "copyout", "unmap_clear", "grow_undo"}]
        /\ after' \in [Proc -> {"return", "set_size", "free_proc"}]
    BY <1>0, CowMemAssumption DEF UserTrapRet, TypeOK, FrameOrNone, Goto, ResetLocals,
         allocVars, pageVars, procVars
  <2> QED
    BY <1>0, <1>2, <2>2, <2>3, <2>4, <2>5 DEF TypeOK, Quiet, pageVars, procVars
<1>4. /\ pc'[p] = "user"
      /\ tgt'[p] = p
      /\ va'[p] = 0
      /\ end'[p] = 0
      /\ newsz'[p] = 0
      /\ after'[p] = "return"
      /\ pa'[p] = None
      /\ npa'[p] = None
      /\ ret'[p] = "return"
  BY <1>0, <1>1, CowMemAssumption DEF UserTrapRet, TypeOK, FrameOrNone, Life, Locals,
       Copying, Unmapping, Growing, Cowing, KfreePcs, CowPcs, GrowPcs, CopyPcs,
       UnmapPcs, Goto, ResetLocals, allocVars, pageVars, procVars
<1>5. /\ frame' = frame /\ flags' = flags /\ sz' = sz /\ state' = state /\ parent' = parent
      /\ state[p] = "RUNNABLE"
  BY <1>0, <1>1, <1>2 DEF Life, Quiet, TypeOK, pageVars, procVars
<1>6. /\ va[p] \in Int /\ end[p] \in Int /\ newsz[p] \in Int /\ sz[p] \in 0 .. MaxPages
      /\ MaxPages \in Nat /\ p \in Proc /\ pc[p] # "dead"
      /\ ret[p] \in {"return", "copyout", "unmap_clear", "grow_undo"}
      /\ after[p] \in {"return", "set_size", "free_proc"}
  BY <1>0, <1>2, CowMemAssumption DEF TypeOK
<1>7. Life(p)'
  BY <1>1, <1>4, <1>5, <1>6 DEF UserTrapRet, Life, Copying, Unmapping, Growing,
       KfreePcs, CowPcs, GrowPcs, CopyPcs, UnmapPcs
<1>8. Locals(p)'
  BY <1>0, <1>1, <1>4, <1>5, <1>6, CowMemAssumption DEF UserTrapRet, TypeOK,
       FrameOrNone, Locals, Life, Own, Flagged, Copying, Unmapping, Growing, Cowing, VA,
       OwnPages, KfreePcs, CowPcs, GrowPcs, CopyPcs, UnmapPcs
<1>9. Own(p)'
  BY <1>1, <1>4, <1>5, <1>6 DEF UserTrapRet, Locals, Life, Own, OwnPages, Copying,
       Unmapping, Growing, VA, KfreePcs, CowPcs, GrowPcs, CopyPcs, UnmapPcs
<1>10. Child(p)'
  BY <1>1, <1>4, <1>5, <1>6 DEF UserTrapRet, Locals, Life, Child, ChildPages, Copying,
       Unmapping, Growing, VA, KfreePcs, CowPcs, GrowPcs, CopyPcs, UnmapPcs
<1> QED
  BY <1>2, <1>3, <1>7, <1>8, <1>9, <1>10, QuietKeeps

LEMMA KfReadKeeps ==
  ASSUME PageTableInv, NEW p \in Proc, KfRead(p)
  PROVE  PageTableInv'
<1>0. TypeOK
  BY InvFacts
<1>1. Life(p) /\ Locals(p) /\ Own(p) /\ Child(p)
  BY InvFacts
<1>2. pc[p] # "dead" /\ Quiet(p)
  BY <1>0, <1>1 DEF KfRead, TypeOK, Quiet, Life, Locals, Copying, Unmapping, Growing,
       KfreePcs, CowPcs, GrowPcs, CopyPcs, UnmapPcs, Goto, allocVars, pageVars,
       procVars, loopVars
<1>3. TypeOK'
  <2>1. pa[p] \in Frames
    BY <1>0, <1>1, CowMemAssumption DEF KfRead, TypeOK, Locals, Life, Own, OwnPages,
         Copying, Unmapping, Growing, Cowing, VA, FrameOrNone, Pcs, KfreePcs, CowPcs,
         GrowPcs, CopyPcs, UnmapPcs
  <2>2. /\ free' \subseteq Frames
        /\ references' \in [Frames -> Int]
        /\ content' \in [Frames -> Data \cup {Junk}]
    BY <1>0, <2>1, CowMemAssumption DEF KfRead, TypeOK, FrameOrNone, Goto, allocVars,
         pageVars, procVars, loopVars
  <2>3. /\ pc' \in [Proc -> Pcs]
    BY <1>0, <2>1, CowMemAssumption DEF KfRead, TypeOK, FrameOrNone, Pcs, KfreePcs,
         CowPcs, GrowPcs, CopyPcs, UnmapPcs, Goto, allocVars, pageVars, procVars,
         loopVars
  <2>4. /\ tgt' \in [Proc -> Proc]
        /\ va' \in [Proc -> 0 .. MaxPages]
        /\ end' \in [Proc -> 0 .. MaxPages]
        /\ newsz' \in [Proc -> 0 .. MaxPages]
    BY <1>0, <2>1, CowMemAssumption DEF KfRead, TypeOK, FrameOrNone, Goto, allocVars,
         pageVars, procVars, loopVars
  <2>5. /\ pa' \in [Proc -> FrameOrNone]
        /\ npa' \in [Proc -> FrameOrNone]
        /\ ref' \in [Proc -> Int]
        /\ ret' \in [Proc -> {"return", "copyout", "unmap_clear", "grow_undo"}]
        /\ after' \in [Proc -> {"return", "set_size", "free_proc"}]
    BY <1>0, <2>1, CowMemAssumption DEF KfRead, TypeOK, FrameOrNone, Goto, allocVars,
         pageVars, procVars, loopVars
  <2> QED
    BY <1>0, <1>2, <2>2, <2>3, <2>4, <2>5 DEF TypeOK, Quiet, pageVars, procVars
<1>4. /\ pc'[p] = "kf_cas"
      /\ tgt'[p] = tgt[p]
      /\ va'[p] = va[p]
      /\ end'[p] = end[p]
      /\ newsz'[p] = newsz[p]
      /\ after'[p] = after[p]
      /\ pa'[p] = pa[p]
      /\ npa'[p] = npa[p]
      /\ ret'[p] = ret[p]
  BY <1>0, <1>1, CowMemAssumption DEF KfRead, TypeOK, FrameOrNone, Life, Locals,
       Copying, Unmapping, Growing, Cowing, KfreePcs, CowPcs, GrowPcs, CopyPcs,
       UnmapPcs, Goto, allocVars, pageVars, procVars, loopVars
<1>5. /\ frame' = frame /\ flags' = flags /\ sz' = sz /\ state' = state /\ parent' = parent
      /\ state[p] = "RUNNABLE"
  BY <1>0, <1>1, <1>2 DEF Life, Quiet, TypeOK, pageVars, procVars
<1>6. /\ va[p] \in Int /\ end[p] \in Int /\ newsz[p] \in Int /\ sz[p] \in 0 .. MaxPages
      /\ MaxPages \in Nat /\ p \in Proc /\ pc[p] # "dead"
      /\ ret[p] \in {"return", "copyout", "unmap_clear", "grow_undo"}
      /\ after[p] \in {"return", "set_size", "free_proc"}
  BY <1>0, <1>2, CowMemAssumption DEF TypeOK
<1>7. Life(p)'
  BY <1>1, <1>4, <1>5, <1>6 DEF KfRead, Life, Copying, Unmapping, Growing, KfreePcs,
       CowPcs, GrowPcs, CopyPcs, UnmapPcs
<1>8. Locals(p)'
  BY <1>0, <1>1, <1>4, <1>5, <1>6, CowMemAssumption DEF KfRead, TypeOK, FrameOrNone,
       Locals, Life, Own, Flagged, Copying, Unmapping, Growing, Cowing, VA, OwnPages,
       KfreePcs, CowPcs, GrowPcs, CopyPcs, UnmapPcs
<1>9. Own(p)'
  BY <1>1, <1>4, <1>5, <1>6 DEF KfRead, Locals, Life, Own, OwnPages, Copying, Unmapping,
       Growing, VA, KfreePcs, CowPcs, GrowPcs, CopyPcs, UnmapPcs
<1>10. Child(p)'
  BY <1>1, <1>4, <1>5, <1>6 DEF KfRead, Locals, Life, Child, ChildPages, Copying,
       Unmapping, Growing, VA, KfreePcs, CowPcs, GrowPcs, CopyPcs, UnmapPcs
<1> QED
  BY <1>2, <1>3, <1>7, <1>8, <1>9, <1>10, QuietKeeps

LEMMA KfCasKeeps ==
  ASSUME PageTableInv, NEW p \in Proc, KfCas(p)
  PROVE  PageTableInv'
<1>0. TypeOK
  BY InvFacts
<1>1. Life(p) /\ Locals(p) /\ Own(p) /\ Child(p)
  BY InvFacts
<1>2. pc[p] # "dead" /\ Quiet(p)
  BY <1>0, <1>1 DEF KfCas, TypeOK, Quiet, Life, Locals, Copying, Unmapping, Growing,
       KfreePcs, CowPcs, GrowPcs, CopyPcs, UnmapPcs, Goto, pageVars, procVars, loopVars,
       callVars
<1>3. TypeOK'
  <2>1. pa[p] \in Frames /\ ret[p] \in Pcs
    BY <1>0, <1>1, CowMemAssumption DEF KfCas, TypeOK, Locals, Life, Own, OwnPages,
         Copying, Unmapping, Growing, Cowing, VA, FrameOrNone, Pcs, KfreePcs, CowPcs,
         GrowPcs, CopyPcs, UnmapPcs
  <2>2. /\ free' \subseteq Frames
        /\ references' \in [Frames -> Int]
        /\ content' \in [Frames -> Data \cup {Junk}]
    BY <1>0, <2>1, CowMemAssumption DEF KfCas, TypeOK, FrameOrNone, Goto, pageVars,
         procVars, loopVars, callVars
  <2>3. /\ pc' \in [Proc -> Pcs]
    BY <1>0, <2>1, CowMemAssumption, SMTT(30) DEF KfCas, TypeOK, FrameOrNone, Pcs, KfreePcs,
         CowPcs, GrowPcs, CopyPcs, UnmapPcs, Goto, pageVars, procVars, loopVars,
         callVars
  <2>4. /\ tgt' \in [Proc -> Proc]
        /\ va' \in [Proc -> 0 .. MaxPages]
        /\ end' \in [Proc -> 0 .. MaxPages]
        /\ newsz' \in [Proc -> 0 .. MaxPages]
    BY <1>0, <2>1, CowMemAssumption DEF KfCas, TypeOK, FrameOrNone, Goto, pageVars,
         procVars, loopVars, callVars
  <2>5. /\ pa' \in [Proc -> FrameOrNone]
        /\ npa' \in [Proc -> FrameOrNone]
        /\ ref' \in [Proc -> Int]
        /\ ret' \in [Proc -> {"return", "copyout", "unmap_clear", "grow_undo"}]
        /\ after' \in [Proc -> {"return", "set_size", "free_proc"}]
    BY <1>0, <2>1, CowMemAssumption DEF KfCas, TypeOK, FrameOrNone, Goto, pageVars,
         procVars, loopVars, callVars
  <2> QED
    BY <1>0, <1>2, <2>2, <2>3, <2>4, <2>5 DEF TypeOK, Quiet, pageVars, procVars
<1>4. /\ pc'[p] \in {ret[p], "kf_zero", "kf_read"}
      /\ tgt'[p] = tgt[p]
      /\ va'[p] = va[p]
      /\ end'[p] = end[p]
      /\ newsz'[p] = newsz[p]
      /\ after'[p] = after[p]
      /\ pa'[p] = pa[p]
      /\ npa'[p] = npa[p]
      /\ ret'[p] = ret[p]
  BY <1>0, <1>1, CowMemAssumption DEF KfCas, TypeOK, FrameOrNone, Life, Locals, Copying,
       Unmapping, Growing, Cowing, KfreePcs, CowPcs, GrowPcs, CopyPcs, UnmapPcs, Goto,
       pageVars, procVars, loopVars, callVars
<1>5. /\ frame' = frame /\ flags' = flags /\ sz' = sz /\ state' = state /\ parent' = parent
      /\ state[p] = "RUNNABLE"
  BY <1>0, <1>1, <1>2 DEF Life, Quiet, TypeOK, pageVars, procVars
<1>6. /\ va[p] \in Int /\ end[p] \in Int /\ newsz[p] \in Int /\ sz[p] \in 0 .. MaxPages
      /\ MaxPages \in Nat /\ p \in Proc /\ pc[p] # "dead"
      /\ ret[p] \in {"return", "copyout", "unmap_clear", "grow_undo"}
      /\ after[p] \in {"return", "set_size", "free_proc"}
  BY <1>0, <1>2, CowMemAssumption DEF TypeOK
<1>7. Life(p)'
  BY <1>1, <1>4, <1>5, <1>6 DEF KfCas, Life, Copying, Unmapping, Growing, KfreePcs,
       CowPcs, GrowPcs, CopyPcs, UnmapPcs
<1>8. Locals(p)'
  BY <1>0, <1>1, <1>4, <1>5, <1>6, CowMemAssumption DEF KfCas, TypeOK, FrameOrNone,
       Locals, Life, Own, Flagged, Copying, Unmapping, Growing, Cowing, VA, OwnPages,
       KfreePcs, CowPcs, GrowPcs, CopyPcs, UnmapPcs
<1>9. Own(p)'
  BY <1>1, <1>4, <1>5, <1>6 DEF KfCas, Locals, Life, Own, OwnPages, Copying, Unmapping,
       Growing, VA, KfreePcs, CowPcs, GrowPcs, CopyPcs, UnmapPcs
<1>10. Child(p)'
  BY <1>1, <1>4, <1>5, <1>6 DEF KfCas, Locals, Life, Child, ChildPages, Copying,
       Unmapping, Growing, VA, KfreePcs, CowPcs, GrowPcs, CopyPcs, UnmapPcs
<1> QED
  BY <1>2, <1>3, <1>7, <1>8, <1>9, <1>10, QuietKeeps

LEMMA KfZeroKeeps ==
  ASSUME PageTableInv, NEW p \in Proc, KfZero(p)
  PROVE  PageTableInv'
<1>0. TypeOK
  BY InvFacts
<1>1. Life(p) /\ Locals(p) /\ Own(p) /\ Child(p)
  BY InvFacts
<1>2. pc[p] # "dead" /\ Quiet(p)
  BY <1>0, <1>1 DEF KfZero, TypeOK, Quiet, Life, Locals, Copying, Unmapping, Growing,
       KfreePcs, CowPcs, GrowPcs, CopyPcs, UnmapPcs, Goto, pageVars, procVars, loopVars,
       callVars
<1>3. TypeOK'
  <2>1. pa[p] \in Frames
    BY <1>0, <1>1, CowMemAssumption DEF KfZero, TypeOK, Locals, Life, Own, OwnPages,
         Copying, Unmapping, Growing, Cowing, VA, FrameOrNone, Pcs, KfreePcs, CowPcs,
         GrowPcs, CopyPcs, UnmapPcs
  <2>2. /\ free' \subseteq Frames
        /\ references' \in [Frames -> Int]
        /\ content' \in [Frames -> Data \cup {Junk}]
    BY <1>0, <2>1, CowMemAssumption DEF KfZero, TypeOK, FrameOrNone, Goto, pageVars,
         procVars, loopVars, callVars
  <2>3. /\ pc' \in [Proc -> Pcs]
    BY <1>0, <2>1, CowMemAssumption DEF KfZero, TypeOK, FrameOrNone, Pcs, KfreePcs,
         CowPcs, GrowPcs, CopyPcs, UnmapPcs, Goto, pageVars, procVars, loopVars,
         callVars
  <2>4. /\ tgt' \in [Proc -> Proc]
        /\ va' \in [Proc -> 0 .. MaxPages]
        /\ end' \in [Proc -> 0 .. MaxPages]
        /\ newsz' \in [Proc -> 0 .. MaxPages]
    BY <1>0, <2>1, CowMemAssumption DEF KfZero, TypeOK, FrameOrNone, Goto, pageVars,
         procVars, loopVars, callVars
  <2>5. /\ pa' \in [Proc -> FrameOrNone]
        /\ npa' \in [Proc -> FrameOrNone]
        /\ ref' \in [Proc -> Int]
        /\ ret' \in [Proc -> {"return", "copyout", "unmap_clear", "grow_undo"}]
        /\ after' \in [Proc -> {"return", "set_size", "free_proc"}]
    BY <1>0, <2>1, CowMemAssumption DEF KfZero, TypeOK, FrameOrNone, Goto, pageVars,
         procVars, loopVars, callVars
  <2> QED
    BY <1>0, <1>2, <2>2, <2>3, <2>4, <2>5 DEF TypeOK, Quiet, pageVars, procVars
<1>4. /\ pc'[p] = "kf_push"
      /\ tgt'[p] = tgt[p]
      /\ va'[p] = va[p]
      /\ end'[p] = end[p]
      /\ newsz'[p] = newsz[p]
      /\ after'[p] = after[p]
      /\ pa'[p] = pa[p]
      /\ npa'[p] = npa[p]
      /\ ret'[p] = ret[p]
  BY <1>0, <1>1, CowMemAssumption DEF KfZero, TypeOK, FrameOrNone, Life, Locals,
       Copying, Unmapping, Growing, Cowing, KfreePcs, CowPcs, GrowPcs, CopyPcs,
       UnmapPcs, Goto, pageVars, procVars, loopVars, callVars
<1>5. /\ frame' = frame /\ flags' = flags /\ sz' = sz /\ state' = state /\ parent' = parent
      /\ state[p] = "RUNNABLE"
  BY <1>0, <1>1, <1>2 DEF Life, Quiet, TypeOK, pageVars, procVars
<1>6. /\ va[p] \in Int /\ end[p] \in Int /\ newsz[p] \in Int /\ sz[p] \in 0 .. MaxPages
      /\ MaxPages \in Nat /\ p \in Proc /\ pc[p] # "dead"
      /\ ret[p] \in {"return", "copyout", "unmap_clear", "grow_undo"}
      /\ after[p] \in {"return", "set_size", "free_proc"}
  BY <1>0, <1>2, CowMemAssumption DEF TypeOK
<1>7. Life(p)'
  BY <1>1, <1>4, <1>5, <1>6 DEF KfZero, Life, Copying, Unmapping, Growing, KfreePcs,
       CowPcs, GrowPcs, CopyPcs, UnmapPcs
<1>8. Locals(p)'
  BY <1>0, <1>1, <1>4, <1>5, <1>6, CowMemAssumption DEF KfZero, TypeOK, FrameOrNone,
       Locals, Life, Own, Flagged, Copying, Unmapping, Growing, Cowing, VA, OwnPages,
       KfreePcs, CowPcs, GrowPcs, CopyPcs, UnmapPcs
<1>9. Own(p)'
  BY <1>1, <1>4, <1>5, <1>6 DEF KfZero, Locals, Life, Own, OwnPages, Copying, Unmapping,
       Growing, VA, KfreePcs, CowPcs, GrowPcs, CopyPcs, UnmapPcs
<1>10. Child(p)'
  BY <1>1, <1>4, <1>5, <1>6 DEF KfZero, Locals, Life, Child, ChildPages, Copying,
       Unmapping, Growing, VA, KfreePcs, CowPcs, GrowPcs, CopyPcs, UnmapPcs
<1> QED
  BY <1>2, <1>3, <1>7, <1>8, <1>9, <1>10, QuietKeeps

LEMMA KfPushKeeps ==
  ASSUME PageTableInv, NEW p \in Proc, KfPush(p)
  PROVE  PageTableInv'
<1>0. TypeOK
  BY InvFacts
<1>1. Life(p) /\ Locals(p) /\ Own(p) /\ Child(p)
  BY InvFacts
<1>2. pc[p] # "dead" /\ Quiet(p)
  BY <1>0, <1>1 DEF KfPush, TypeOK, Quiet, Life, Locals, Copying, Unmapping, Growing,
       KfreePcs, CowPcs, GrowPcs, CopyPcs, UnmapPcs, Goto, pageVars, procVars, loopVars,
       callVars
<1>3. TypeOK'
  <2>1. pa[p] \in Frames /\ ret[p] \in Pcs
    BY <1>0, <1>1, CowMemAssumption DEF KfPush, TypeOK, Locals, Life, Own, OwnPages,
         Copying, Unmapping, Growing, Cowing, VA, FrameOrNone, Pcs, KfreePcs, CowPcs,
         GrowPcs, CopyPcs, UnmapPcs
  <2>2. /\ free' \subseteq Frames
        /\ references' \in [Frames -> Int]
        /\ content' \in [Frames -> Data \cup {Junk}]
    BY <1>0, <2>1, CowMemAssumption DEF KfPush, TypeOK, FrameOrNone, Goto, pageVars,
         procVars, loopVars, callVars
  <2>3. /\ pc' \in [Proc -> Pcs]
    BY <1>0, <2>1, CowMemAssumption DEF KfPush, TypeOK, FrameOrNone, Pcs, KfreePcs,
         CowPcs, GrowPcs, CopyPcs, UnmapPcs, Goto, pageVars, procVars, loopVars,
         callVars
  <2>4. /\ tgt' \in [Proc -> Proc]
        /\ va' \in [Proc -> 0 .. MaxPages]
        /\ end' \in [Proc -> 0 .. MaxPages]
        /\ newsz' \in [Proc -> 0 .. MaxPages]
    BY <1>0, <2>1, CowMemAssumption DEF KfPush, TypeOK, FrameOrNone, Goto, pageVars,
         procVars, loopVars, callVars
  <2>5. /\ pa' \in [Proc -> FrameOrNone]
        /\ npa' \in [Proc -> FrameOrNone]
        /\ ref' \in [Proc -> Int]
        /\ ret' \in [Proc -> {"return", "copyout", "unmap_clear", "grow_undo"}]
        /\ after' \in [Proc -> {"return", "set_size", "free_proc"}]
    BY <1>0, <2>1, CowMemAssumption DEF KfPush, TypeOK, FrameOrNone, Goto, pageVars,
         procVars, loopVars, callVars
  <2> QED
    BY <1>0, <1>2, <2>2, <2>3, <2>4, <2>5 DEF TypeOK, Quiet, pageVars, procVars
<1>4. /\ pc'[p] = ret[p]
      /\ tgt'[p] = tgt[p]
      /\ va'[p] = va[p]
      /\ end'[p] = end[p]
      /\ newsz'[p] = newsz[p]
      /\ after'[p] = after[p]
      /\ pa'[p] = pa[p]
      /\ npa'[p] = npa[p]
      /\ ret'[p] = ret[p]
  BY <1>0, <1>1, CowMemAssumption DEF KfPush, TypeOK, FrameOrNone, Life, Locals,
       Copying, Unmapping, Growing, Cowing, KfreePcs, CowPcs, GrowPcs, CopyPcs,
       UnmapPcs, Goto, pageVars, procVars, loopVars, callVars
<1>5. /\ frame' = frame /\ flags' = flags /\ sz' = sz /\ state' = state /\ parent' = parent
      /\ state[p] = "RUNNABLE"
  BY <1>0, <1>1, <1>2 DEF Life, Quiet, TypeOK, pageVars, procVars
<1>6. /\ va[p] \in Int /\ end[p] \in Int /\ newsz[p] \in Int /\ sz[p] \in 0 .. MaxPages
      /\ MaxPages \in Nat /\ p \in Proc /\ pc[p] # "dead"
      /\ ret[p] \in {"return", "copyout", "unmap_clear", "grow_undo"}
      /\ after[p] \in {"return", "set_size", "free_proc"}
  BY <1>0, <1>2, CowMemAssumption DEF TypeOK
<1>7. Life(p)'
  BY <1>1, <1>4, <1>5, <1>6 DEF KfPush, Life, Copying, Unmapping, Growing, KfreePcs,
       CowPcs, GrowPcs, CopyPcs, UnmapPcs
<1>8. Locals(p)'
  BY <1>0, <1>1, <1>4, <1>5, <1>6, CowMemAssumption DEF KfPush, TypeOK, FrameOrNone,
       Locals, Life, Own, Flagged, Copying, Unmapping, Growing, Cowing, VA, OwnPages,
       KfreePcs, CowPcs, GrowPcs, CopyPcs, UnmapPcs
<1>9. Own(p)'
  BY <1>1, <1>4, <1>5, <1>6 DEF KfPush, Locals, Life, Own, OwnPages, Copying, Unmapping,
       Growing, VA, KfreePcs, CowPcs, GrowPcs, CopyPcs, UnmapPcs
<1>10. Child(p)'
  BY <1>1, <1>4, <1>5, <1>6 DEF KfPush, Locals, Life, Child, ChildPages, Copying,
       Unmapping, Growing, VA, KfreePcs, CowPcs, GrowPcs, CopyPcs, UnmapPcs
<1> QED
  BY <1>2, <1>3, <1>7, <1>8, <1>9, <1>10, QuietKeeps

LEMMA PageFaultKeeps ==
  ASSUME PageTableInv, NEW p \in Proc, NEW v \in VA, PageFault(p, v)
  PROVE  PageTableInv'
<1>0. TypeOK
  BY InvFacts
<1>1. Life(p) /\ Locals(p) /\ Own(p) /\ Child(p)
  BY InvFacts
<1>2. pc[p] # "dead" /\ Quiet(p)
  BY <1>0, <1>1 DEF PageFault, TypeOK, Quiet, Life, Locals, Copying, Unmapping, Growing,
       KfreePcs, CowPcs, GrowPcs, CopyPcs, UnmapPcs, Goto, allocVars, pageVars, procVars
<1>3. TypeOK'
  <2>1. v \in 0 .. MaxPages
    BY <1>0, <1>1, CowMemAssumption DEF PageFault, TypeOK, Locals, Life, Own, OwnPages,
         Copying, Unmapping, Growing, Cowing, VA, FrameOrNone, Pcs, KfreePcs, CowPcs,
         GrowPcs, CopyPcs, UnmapPcs
  <2>2. /\ free' \subseteq Frames
        /\ references' \in [Frames -> Int]
        /\ content' \in [Frames -> Data \cup {Junk}]
    BY <1>0, <2>1, CowMemAssumption DEF PageFault, TypeOK, FrameOrNone, Goto, allocVars,
         pageVars, procVars
  <2>3. /\ pc' \in [Proc -> Pcs]
    BY <1>0, <2>1, CowMemAssumption, ZenonT(40) DEF PageFault, TypeOK, FrameOrNone, Pcs, KfreePcs,
         CowPcs, GrowPcs, CopyPcs, UnmapPcs, Goto, allocVars, pageVars, procVars
  <2>4. /\ tgt' \in [Proc -> Proc]
        /\ va' \in [Proc -> 0 .. MaxPages]
        /\ end' \in [Proc -> 0 .. MaxPages]
        /\ newsz' \in [Proc -> 0 .. MaxPages]
    <3>1. /\ UNCHANGED <<tgt, end, newsz>>
          /\ UNCHANGED va \/ va' = [va EXCEPT ![p] = v]
      BY DEF PageFault
    <3>2. va \in [Proc -> 0 .. MaxPages]
      BY <1>0 DEF TypeOK
    <3>3. va' \in [Proc -> 0 .. MaxPages]
      BY <2>1, <3>1, <3>2, ExceptType
    <3> QED
      BY <1>0, <3>1, <3>3 DEF TypeOK
  <2>5. /\ pa' \in [Proc -> FrameOrNone]
        /\ npa' \in [Proc -> FrameOrNone]
        /\ ref' \in [Proc -> Int]
        /\ ret' \in [Proc -> {"return", "copyout", "unmap_clear", "grow_undo"}]
        /\ after' \in [Proc -> {"return", "set_size", "free_proc"}]
    BY <1>0, <2>1, CowMemAssumption DEF PageFault, TypeOK, FrameOrNone, Goto, allocVars,
         pageVars, procVars
  <2> QED
    BY <1>0, <1>2, <2>2, <2>3, <2>4, <2>5 DEF TypeOK, Quiet, pageVars, procVars
<1>4. \/ /\ pc'[p] = "cow_alloc"
         /\ va'[p] = v
         /\ ret'[p] = "return"
         /\ tgt'[p] = tgt[p]
         /\ end'[p] = end[p]
         /\ newsz'[p] = newsz[p]
         /\ after'[p] = after[p]
         /\ pa'[p] = pa[p]
         /\ npa'[p] = npa[p]
         /\ frame[p][v] # None
      \/ /\ pc'[p] = "exit"
         /\ tgt'[p] = tgt[p]
         /\ va'[p] = va[p]
         /\ end'[p] = end[p]
         /\ newsz'[p] = newsz[p]
         /\ after'[p] = after[p]
         /\ pa'[p] = pa[p]
         /\ npa'[p] = npa[p]
         /\ ret'[p] = ret[p]
  BY <1>0, <1>1, CowMemAssumption DEF PageFault, TypeOK, FrameOrNone, Life, Locals,
       Copying, Unmapping, Growing, Cowing, KfreePcs, CowPcs, GrowPcs, CopyPcs,
       UnmapPcs, Goto, allocVars, pageVars, procVars
<1>5. /\ frame' = frame /\ flags' = flags /\ sz' = sz /\ state' = state /\ parent' = parent
      /\ state[p] = "RUNNABLE"
  BY <1>0, <1>1, <1>2 DEF Life, Quiet, TypeOK, pageVars, procVars
<1>6. /\ va[p] \in Int /\ end[p] \in Int /\ newsz[p] \in Int /\ sz[p] \in 0 .. MaxPages
      /\ MaxPages \in Nat /\ p \in Proc /\ pc[p] # "dead"
      /\ ret[p] \in {"return", "copyout", "unmap_clear", "grow_undo"}
      /\ after[p] \in {"return", "set_size", "free_proc"}
  BY <1>0, <1>2, CowMemAssumption DEF TypeOK
<1>7. Life(p)'
  BY <1>1, <1>4, <1>5, <1>6 DEF PageFault, Life, Copying, Unmapping, Growing, KfreePcs,
       CowPcs, GrowPcs, CopyPcs, UnmapPcs
<1>8. Locals(p)'
  BY <1>0, <1>1, <1>4, <1>5, <1>6, CowMemAssumption DEF PageFault, TypeOK, FrameOrNone,
       Locals, Life, Own, Flagged, Copying, Unmapping, Growing, Cowing, VA, OwnPages,
       KfreePcs, CowPcs, GrowPcs, CopyPcs, UnmapPcs
<1>9. Own(p)'
  BY <1>1, <1>4, <1>5, <1>6 DEF PageFault, Locals, Life, Own, OwnPages, Copying,
       Unmapping, Growing, VA, KfreePcs, CowPcs, GrowPcs, CopyPcs, UnmapPcs
<1>10. Child(p)'
  BY <1>1, <1>4, <1>5, <1>6 DEF PageFault, Locals, Life, Child, ChildPages, Copying,
       Unmapping, Growing, VA, KfreePcs, CowPcs, GrowPcs, CopyPcs, UnmapPcs
<1> QED
  BY <1>2, <1>3, <1>7, <1>8, <1>9, <1>10, QuietKeeps

LEMMA CopyoutKeeps ==
  ASSUME PageTableInv, NEW p \in Proc, NEW v \in VA, Copyout(p, v)
  PROVE  PageTableInv'
<1>0. TypeOK
  BY InvFacts
<1>1. Life(p) /\ Locals(p) /\ Own(p) /\ Child(p)
  BY InvFacts
<1>2. pc[p] # "dead" /\ Quiet(p)
  BY <1>0, <1>1 DEF Copyout, TypeOK, Quiet, Life, Locals, Copying, Unmapping, Growing,
       KfreePcs, CowPcs, GrowPcs, CopyPcs, UnmapPcs, Goto, allocVars, pageVars, procVars
<1>3. TypeOK'
  <2>1. v \in 0 .. MaxPages
    BY <1>0, <1>1, CowMemAssumption DEF Copyout, TypeOK, Locals, Life, Own, OwnPages,
         Copying, Unmapping, Growing, Cowing, VA, FrameOrNone, Pcs, KfreePcs, CowPcs,
         GrowPcs, CopyPcs, UnmapPcs
  <2>2. /\ free' \subseteq Frames
        /\ references' \in [Frames -> Int]
        /\ content' \in [Frames -> Data \cup {Junk}]
    BY <1>0, <2>1, CowMemAssumption DEF Copyout, TypeOK, FrameOrNone, Goto, allocVars,
         pageVars, procVars
  <2>3. /\ pc' \in [Proc -> Pcs]
    BY <1>0, <2>1, CowMemAssumption DEF Copyout, TypeOK, FrameOrNone, Pcs, KfreePcs,
         CowPcs, GrowPcs, CopyPcs, UnmapPcs, Goto, allocVars, pageVars, procVars
  <2>4. /\ tgt' \in [Proc -> Proc]
        /\ va' \in [Proc -> 0 .. MaxPages]
        /\ end' \in [Proc -> 0 .. MaxPages]
        /\ newsz' \in [Proc -> 0 .. MaxPages]
    BY <1>0, <2>1, CowMemAssumption DEF Copyout, TypeOK, FrameOrNone, Goto, allocVars,
         pageVars, procVars
  <2>5. /\ pa' \in [Proc -> FrameOrNone]
        /\ npa' \in [Proc -> FrameOrNone]
        /\ ref' \in [Proc -> Int]
        /\ ret' \in [Proc -> {"return", "copyout", "unmap_clear", "grow_undo"}]
        /\ after' \in [Proc -> {"return", "set_size", "free_proc"}]
    BY <1>0, <2>1, CowMemAssumption DEF Copyout, TypeOK, FrameOrNone, Goto, allocVars,
         pageVars, procVars
  <2> QED
    BY <1>0, <1>2, <2>2, <2>3, <2>4, <2>5 DEF TypeOK, Quiet, pageVars, procVars
<1>4. \/ /\ pc'[p] = "cow_alloc"
         /\ va'[p] = v
         /\ ret'[p] = "copyout"
         /\ tgt'[p] = tgt[p]
         /\ end'[p] = end[p]
         /\ newsz'[p] = newsz[p]
         /\ after'[p] = after[p]
         /\ pa'[p] = pa[p]
         /\ npa'[p] = npa[p]
         /\ frame[p][v] # None
      \/ /\ pc'[p] = "copyout"
         /\ va'[p] = v
         /\ ret'[p] = "copyout"
         /\ tgt'[p] = tgt[p]
         /\ end'[p] = end[p]
         /\ newsz'[p] = newsz[p]
         /\ after'[p] = after[p]
         /\ pa'[p] = pa[p]
         /\ npa'[p] = npa[p]
         /\ frame[p][v] # None
         /\ PTE_COW \notin flags[p][v]
  BY <1>0, <1>1, CowMemAssumption DEF Copyout, TypeOK, FrameOrNone, Life, Locals,
       Copying, Unmapping, Growing, Cowing, KfreePcs, CowPcs, GrowPcs, CopyPcs,
       UnmapPcs, Goto, allocVars, pageVars, procVars
<1>5. /\ frame' = frame /\ flags' = flags /\ sz' = sz /\ state' = state /\ parent' = parent
      /\ state[p] = "RUNNABLE"
  BY <1>0, <1>1, <1>2 DEF Life, Quiet, TypeOK, pageVars, procVars
<1>6. /\ va[p] \in Int /\ end[p] \in Int /\ newsz[p] \in Int /\ sz[p] \in 0 .. MaxPages
      /\ MaxPages \in Nat /\ p \in Proc /\ pc[p] # "dead"
      /\ ret[p] \in {"return", "copyout", "unmap_clear", "grow_undo"}
      /\ after[p] \in {"return", "set_size", "free_proc"}
  BY <1>0, <1>2, CowMemAssumption DEF TypeOK
<1>7. Life(p)'
  BY <1>1, <1>4, <1>5, <1>6 DEF Copyout, Life, Copying, Unmapping, Growing, KfreePcs,
       CowPcs, GrowPcs, CopyPcs, UnmapPcs
<1>8. Locals(p)'
  <2>1. v \in VA /\ (PTE_COW \notin flags[p][v] /\ frame[p][v] # None => PTE_W \in flags[p][v])
    <3>1. flags[p][v] \subseteq {PTE_W, PTE_COW}
      BY <1>0 DEF TypeOK
    <3>2. frame[p][v] # None => flags[p][v] # {}
      BY InvFacts DEF Flagged
    <3> QED
      BY <3>1, <3>2
  <2> QED
    BY <1>4, <1>5, <2>1 DEF Locals, Unmapping, Growing, Copying, Cowing, KfreePcs,
         CowPcs, GrowPcs, CopyPcs, UnmapPcs
<1>9. Own(p)'
  BY <1>1, <1>4, <1>5, <1>6 DEF Copyout, Locals, Life, Own, OwnPages, Copying,
       Unmapping, Growing, VA, KfreePcs, CowPcs, GrowPcs, CopyPcs, UnmapPcs
<1>10. Child(p)'
  BY <1>1, <1>4, <1>5, <1>6 DEF Copyout, Locals, Life, Child, ChildPages, Copying,
       Unmapping, Growing, VA, KfreePcs, CowPcs, GrowPcs, CopyPcs, UnmapPcs
<1> QED
  BY <1>2, <1>3, <1>7, <1>8, <1>9, <1>10, QuietKeeps

LEMMA StoreKeeps ==
  ASSUME PageTableInv, NEW p \in Proc, NEW v \in VA, NEW d \in Data, Store(p, v, d)
  PROVE  PageTableInv'
<1>0. TypeOK
  BY InvFacts
<1>1. Life(p) /\ Locals(p) /\ Own(p) /\ Child(p)
  BY InvFacts
<1>2. pc[p] # "dead" /\ Quiet(p)
  BY <1>0, <1>1 DEF Store, TypeOK, Quiet, Life, Locals, Copying, Unmapping, Growing,
       KfreePcs, CowPcs, GrowPcs, CopyPcs, UnmapPcs, pageVars, procVars, loopVars,
       callVars
<1>3. TypeOK'
  <2>2. /\ free' \subseteq Frames
        /\ references' \in [Frames -> Int]
        /\ content' \in [Frames -> Data \cup {Junk}]
    BY <1>0, CowMemAssumption DEF Store, TypeOK, FrameOrNone, pageVars, procVars,
         loopVars, callVars
  <2>3. /\ pc' \in [Proc -> Pcs]
    BY <1>0, CowMemAssumption DEF Store, TypeOK, FrameOrNone, Pcs, KfreePcs, CowPcs,
         GrowPcs, CopyPcs, UnmapPcs, pageVars, procVars, loopVars, callVars
  <2>4. /\ tgt' \in [Proc -> Proc]
        /\ va' \in [Proc -> 0 .. MaxPages]
        /\ end' \in [Proc -> 0 .. MaxPages]
        /\ newsz' \in [Proc -> 0 .. MaxPages]
    BY <1>0, CowMemAssumption DEF Store, TypeOK, FrameOrNone, pageVars, procVars,
         loopVars, callVars
  <2>5. /\ pa' \in [Proc -> FrameOrNone]
        /\ npa' \in [Proc -> FrameOrNone]
        /\ ref' \in [Proc -> Int]
        /\ ret' \in [Proc -> {"return", "copyout", "unmap_clear", "grow_undo"}]
        /\ after' \in [Proc -> {"return", "set_size", "free_proc"}]
    BY <1>0, CowMemAssumption DEF Store, TypeOK, FrameOrNone, pageVars, procVars,
         loopVars, callVars
  <2> QED
    BY <1>0, <1>2, <2>2, <2>3, <2>4, <2>5 DEF TypeOK, Quiet, pageVars, procVars
<1>4. /\ pc'[p] = "user"
      /\ tgt'[p] = tgt[p]
      /\ va'[p] = va[p]
      /\ end'[p] = end[p]
      /\ newsz'[p] = newsz[p]
      /\ after'[p] = after[p]
      /\ pa'[p] = pa[p]
      /\ npa'[p] = npa[p]
      /\ ret'[p] = ret[p]
  BY <1>0, <1>1, CowMemAssumption DEF Store, TypeOK, FrameOrNone, Life, Locals, Copying,
       Unmapping, Growing, Cowing, KfreePcs, CowPcs, GrowPcs, CopyPcs, UnmapPcs,
       pageVars, procVars, loopVars, callVars
<1>5. /\ frame' = frame /\ flags' = flags /\ sz' = sz /\ state' = state /\ parent' = parent
      /\ state[p] = "RUNNABLE"
  BY <1>0, <1>1, <1>2 DEF Life, Quiet, TypeOK, pageVars, procVars
<1>6. /\ va[p] \in Int /\ end[p] \in Int /\ newsz[p] \in Int /\ sz[p] \in 0 .. MaxPages
      /\ MaxPages \in Nat /\ p \in Proc /\ pc[p] # "dead"
      /\ ret[p] \in {"return", "copyout", "unmap_clear", "grow_undo"}
      /\ after[p] \in {"return", "set_size", "free_proc"}
  BY <1>0, <1>2, CowMemAssumption DEF TypeOK
<1>7. Life(p)'
  BY <1>1, <1>4, <1>5, <1>6 DEF Store, Life, Copying, Unmapping, Growing, KfreePcs,
       CowPcs, GrowPcs, CopyPcs, UnmapPcs
<1>8. Locals(p)'
  BY <1>0, <1>1, <1>4, <1>5, <1>6, CowMemAssumption DEF Store, TypeOK, FrameOrNone,
       Locals, Life, Own, Flagged, Copying, Unmapping, Growing, Cowing, VA, OwnPages,
       KfreePcs, CowPcs, GrowPcs, CopyPcs, UnmapPcs
<1>9. Own(p)'
  BY <1>1, <1>4, <1>5, <1>6 DEF Store, Locals, Life, Own, OwnPages, Copying, Unmapping,
       Growing, VA, KfreePcs, CowPcs, GrowPcs, CopyPcs, UnmapPcs
<1>10. Child(p)'
  BY <1>1, <1>4, <1>5, <1>6 DEF Store, Locals, Life, Child, ChildPages, Copying,
       Unmapping, Growing, VA, KfreePcs, CowPcs, GrowPcs, CopyPcs, UnmapPcs
<1> QED
  BY <1>2, <1>3, <1>7, <1>8, <1>9, <1>10, QuietKeeps

LEMMA CopyoutWriteKeeps ==
  ASSUME PageTableInv, NEW p \in Proc, NEW d \in Data, CopyoutWrite(p, d)
  PROVE  PageTableInv'
<1>0. TypeOK
  BY InvFacts
<1>1. Life(p) /\ Locals(p) /\ Own(p) /\ Child(p)
  BY InvFacts
<1>2. pc[p] # "dead" /\ Quiet(p)
  BY <1>0, <1>1 DEF CopyoutWrite, TypeOK, Quiet, Life, Locals, Copying, Unmapping,
       Growing, KfreePcs, CowPcs, GrowPcs, CopyPcs, UnmapPcs, Goto, pageVars, procVars,
       loopVars, callVars
<1>3. TypeOK'
  <2>2. /\ free' \subseteq Frames
        /\ references' \in [Frames -> Int]
        /\ content' \in [Frames -> Data \cup {Junk}]
    BY <1>0, CowMemAssumption DEF CopyoutWrite, TypeOK, FrameOrNone, Goto, pageVars,
         procVars, loopVars, callVars
  <2>3. /\ pc' \in [Proc -> Pcs]
    BY <1>0, CowMemAssumption DEF CopyoutWrite, TypeOK, FrameOrNone, Pcs, KfreePcs,
         CowPcs, GrowPcs, CopyPcs, UnmapPcs, Goto, pageVars, procVars, loopVars,
         callVars
  <2>4. /\ tgt' \in [Proc -> Proc]
        /\ va' \in [Proc -> 0 .. MaxPages]
        /\ end' \in [Proc -> 0 .. MaxPages]
        /\ newsz' \in [Proc -> 0 .. MaxPages]
    BY <1>0, CowMemAssumption DEF CopyoutWrite, TypeOK, FrameOrNone, Goto, pageVars,
         procVars, loopVars, callVars
  <2>5. /\ pa' \in [Proc -> FrameOrNone]
        /\ npa' \in [Proc -> FrameOrNone]
        /\ ref' \in [Proc -> Int]
        /\ ret' \in [Proc -> {"return", "copyout", "unmap_clear", "grow_undo"}]
        /\ after' \in [Proc -> {"return", "set_size", "free_proc"}]
    BY <1>0, CowMemAssumption DEF CopyoutWrite, TypeOK, FrameOrNone, Goto, pageVars,
         procVars, loopVars, callVars
  <2> QED
    BY <1>0, <1>2, <2>2, <2>3, <2>4, <2>5 DEF TypeOK, Quiet, pageVars, procVars
<1>4. /\ pc'[p] = "return"
      /\ tgt'[p] = tgt[p]
      /\ va'[p] = va[p]
      /\ end'[p] = end[p]
      /\ newsz'[p] = newsz[p]
      /\ after'[p] = after[p]
      /\ pa'[p] = pa[p]
      /\ npa'[p] = npa[p]
      /\ ret'[p] = ret[p]
  BY <1>0, <1>1, CowMemAssumption DEF CopyoutWrite, TypeOK, FrameOrNone, Life, Locals,
       Copying, Unmapping, Growing, Cowing, KfreePcs, CowPcs, GrowPcs, CopyPcs,
       UnmapPcs, Goto, pageVars, procVars, loopVars, callVars
<1>5. /\ frame' = frame /\ flags' = flags /\ sz' = sz /\ state' = state /\ parent' = parent
      /\ state[p] = "RUNNABLE"
  BY <1>0, <1>1, <1>2 DEF Life, Quiet, TypeOK, pageVars, procVars
<1>6. /\ va[p] \in Int /\ end[p] \in Int /\ newsz[p] \in Int /\ sz[p] \in 0 .. MaxPages
      /\ MaxPages \in Nat /\ p \in Proc /\ pc[p] # "dead"
      /\ ret[p] \in {"return", "copyout", "unmap_clear", "grow_undo"}
      /\ after[p] \in {"return", "set_size", "free_proc"}
  BY <1>0, <1>2, CowMemAssumption DEF TypeOK
<1>7. Life(p)'
  BY <1>1, <1>4, <1>5, <1>6 DEF CopyoutWrite, Life, Copying, Unmapping, Growing,
       KfreePcs, CowPcs, GrowPcs, CopyPcs, UnmapPcs
<1>8. Locals(p)'
  BY <1>0, <1>1, <1>4, <1>5, <1>6, CowMemAssumption DEF CopyoutWrite, TypeOK,
       FrameOrNone, Locals, Life, Own, Flagged, Copying, Unmapping, Growing, Cowing, VA,
       OwnPages, KfreePcs, CowPcs, GrowPcs, CopyPcs, UnmapPcs
<1>9. Own(p)'
  BY <1>1, <1>4, <1>5, <1>6 DEF CopyoutWrite, Locals, Life, Own, OwnPages, Copying,
       Unmapping, Growing, VA, KfreePcs, CowPcs, GrowPcs, CopyPcs, UnmapPcs
<1>10. Child(p)'
  BY <1>1, <1>4, <1>5, <1>6 DEF CopyoutWrite, Locals, Life, Child, ChildPages, Copying,
       Unmapping, Growing, VA, KfreePcs, CowPcs, GrowPcs, CopyPcs, UnmapPcs
<1> QED
  BY <1>2, <1>3, <1>7, <1>8, <1>9, <1>10, QuietKeeps

LEMMA CowAllocKeeps ==
  ASSUME PageTableInv, NEW p \in Proc, CowAlloc(p)
  PROVE  PageTableInv'
<1>0. TypeOK
  BY InvFacts
<1>1. Life(p) /\ Locals(p) /\ Own(p) /\ Child(p)
  BY InvFacts
<1>2. pc[p] # "dead" /\ Quiet(p)
  BY <1>0, <1>1 DEF CowAlloc, TypeOK, Quiet, Life, Locals, Copying, Unmapping, Growing,
       KfreePcs, CowPcs, GrowPcs, CopyPcs, UnmapPcs, Goto, Kalloc, allocVars, pageVars,
       procVars, loopVars
<1>3. TypeOK'
  <2>2. /\ free' \subseteq Frames
        /\ references' \in [Frames -> Int]
        /\ content' \in [Frames -> Data \cup {Junk}]
    <3>1. (\E f \in free : Kalloc(f)) \/ UNCHANGED allocVars
      BY DEF CowAlloc
    <3> QED
      BY <1>0, <3>1, KallocTypes DEF TypeOK, allocVars
  <2>3. /\ pc' \in [Proc -> Pcs]
    BY <1>0, CowMemAssumption, ZenonT(40) DEF CowAlloc, TypeOK, FrameOrNone, Pcs, KfreePcs, CowPcs,
         GrowPcs, CopyPcs, UnmapPcs, Goto, Kalloc, allocVars, pageVars, procVars,
         loopVars
  <2>4. /\ tgt' \in [Proc -> Proc]
        /\ va' \in [Proc -> 0 .. MaxPages]
        /\ end' \in [Proc -> 0 .. MaxPages]
        /\ newsz' \in [Proc -> 0 .. MaxPages]
    BY <1>0, CowMemAssumption DEF CowAlloc, TypeOK, FrameOrNone, Goto, Kalloc,
         allocVars, pageVars, procVars, loopVars
  <2>5. /\ pa' \in [Proc -> FrameOrNone]
        /\ npa' \in [Proc -> FrameOrNone]
        /\ ref' \in [Proc -> Int]
        /\ ret' \in [Proc -> {"return", "copyout", "unmap_clear", "grow_undo"}]
        /\ after' \in [Proc -> {"return", "set_size", "free_proc"}]
    <3>1. /\ UNCHANGED <<pa, ref, ret, after>>
          /\ UNCHANGED npa \/ \E f \in free : npa' = [npa EXCEPT ![p] = f]
      BY DEF CowAlloc, loopVars
    <3> QED
      BY <1>0, <3>1 DEF TypeOK, FrameOrNone
  <2> QED
    BY <1>0, <1>2, <2>2, <2>3, <2>4, <2>5 DEF TypeOK, Quiet, pageVars, procVars
<1>4. \/ /\ pc'[p] = "cow_copy"
         /\ npa'[p] \in Frames
         /\ tgt'[p] = tgt[p]
         /\ va'[p] = va[p]
         /\ end'[p] = end[p]
         /\ newsz'[p] = newsz[p]
         /\ after'[p] = after[p]
         /\ pa'[p] = pa[p]
         /\ ret'[p] = ret[p]
      \/ /\ pc'[p] = (IF ret[p] = "return" THEN "exit" ELSE "return")
         /\ tgt'[p] = tgt[p]
         /\ va'[p] = va[p]
         /\ end'[p] = end[p]
         /\ newsz'[p] = newsz[p]
         /\ after'[p] = after[p]
         /\ pa'[p] = pa[p]
         /\ npa'[p] = npa[p]
         /\ ret'[p] = ret[p]
  BY <1>0, <1>1, CowMemAssumption DEF CowAlloc, TypeOK, FrameOrNone, Life, Locals,
       Copying, Unmapping, Growing, Cowing, KfreePcs, CowPcs, GrowPcs, CopyPcs,
       UnmapPcs, Goto, Kalloc, allocVars, pageVars, procVars, loopVars
<1>5. /\ frame' = frame /\ flags' = flags /\ sz' = sz /\ state' = state /\ parent' = parent
      /\ state[p] = "RUNNABLE"
  BY <1>0, <1>1, <1>2 DEF Life, Quiet, TypeOK, pageVars, procVars
<1>6. /\ va[p] \in Int /\ end[p] \in Int /\ newsz[p] \in Int /\ sz[p] \in 0 .. MaxPages
      /\ MaxPages \in Nat /\ p \in Proc /\ pc[p] # "dead"
      /\ ret[p] \in {"return", "copyout", "unmap_clear", "grow_undo"}
      /\ after[p] \in {"return", "set_size", "free_proc"}
  BY <1>0, <1>2, CowMemAssumption DEF TypeOK
<1>7. Life(p)'
  BY <1>1, <1>4, <1>5, <1>6 DEF CowAlloc, Life, Copying, Unmapping, Growing, KfreePcs,
       CowPcs, GrowPcs, CopyPcs, UnmapPcs
<1>8. Locals(p)'
  BY <1>0, <1>1, <1>4, <1>5, <1>6, CowMemAssumption DEF CowAlloc, TypeOK, FrameOrNone,
       Locals, Life, Own, Flagged, Copying, Unmapping, Growing, Cowing, VA, OwnPages,
       KfreePcs, CowPcs, GrowPcs, CopyPcs, UnmapPcs
<1>9. Own(p)'
  BY <1>1, <1>4, <1>5, <1>6 DEF CowAlloc, Locals, Life, Own, OwnPages, Copying,
       Unmapping, Growing, VA, KfreePcs, CowPcs, GrowPcs, CopyPcs, UnmapPcs
<1>10. Child(p)'
  BY <1>1, <1>4, <1>5, <1>6 DEF CowAlloc, Locals, Life, Child, ChildPages, Copying,
       Unmapping, Growing, VA, KfreePcs, CowPcs, GrowPcs, CopyPcs, UnmapPcs
<1> QED
  BY <1>2, <1>3, <1>7, <1>8, <1>9, <1>10, QuietKeeps

LEMMA CowCopyKeeps ==
  ASSUME PageTableInv, NEW p \in Proc, CowCopy(p)
  PROVE  PageTableInv'
<1>0. TypeOK
  BY InvFacts
<1>1. Life(p) /\ Locals(p) /\ Own(p) /\ Child(p)
  BY InvFacts
<1>2. pc[p] # "dead" /\ Quiet(p)
  BY <1>0, <1>1 DEF CowCopy, TypeOK, Quiet, Life, Locals, Copying, Unmapping, Growing,
       KfreePcs, CowPcs, GrowPcs, CopyPcs, UnmapPcs, Goto, pageVars, procVars, loopVars,
       callVars
<1>3. TypeOK'
  <2>1. npa[p] \in Frames /\ frame[p][va[p]] \in Frames
    BY <1>0, <1>1, CowMemAssumption DEF CowCopy, TypeOK, Locals, Life, Own, OwnPages,
         Copying, Unmapping, Growing, Cowing, VA, FrameOrNone, Pcs, KfreePcs, CowPcs,
         GrowPcs, CopyPcs, UnmapPcs
  <2>2. /\ free' \subseteq Frames
        /\ references' \in [Frames -> Int]
        /\ content' \in [Frames -> Data \cup {Junk}]
    BY <1>0, <2>1, CowMemAssumption DEF CowCopy, TypeOK, FrameOrNone, Goto, pageVars,
         procVars, loopVars, callVars
  <2>3. /\ pc' \in [Proc -> Pcs]
    BY <1>0, <2>1, CowMemAssumption DEF CowCopy, TypeOK, FrameOrNone, Pcs, KfreePcs,
         CowPcs, GrowPcs, CopyPcs, UnmapPcs, Goto, pageVars, procVars, loopVars,
         callVars
  <2>4. /\ tgt' \in [Proc -> Proc]
        /\ va' \in [Proc -> 0 .. MaxPages]
        /\ end' \in [Proc -> 0 .. MaxPages]
        /\ newsz' \in [Proc -> 0 .. MaxPages]
    BY <1>0, <2>1, CowMemAssumption DEF CowCopy, TypeOK, FrameOrNone, Goto, pageVars,
         procVars, loopVars, callVars
  <2>5. /\ pa' \in [Proc -> FrameOrNone]
        /\ npa' \in [Proc -> FrameOrNone]
        /\ ref' \in [Proc -> Int]
        /\ ret' \in [Proc -> {"return", "copyout", "unmap_clear", "grow_undo"}]
        /\ after' \in [Proc -> {"return", "set_size", "free_proc"}]
    BY <1>0, <2>1, CowMemAssumption DEF CowCopy, TypeOK, FrameOrNone, Goto, pageVars,
         procVars, loopVars, callVars
  <2> QED
    BY <1>0, <1>2, <2>2, <2>3, <2>4, <2>5 DEF TypeOK, Quiet, pageVars, procVars
<1>4. /\ pc'[p] = "cow_install"
      /\ tgt'[p] = tgt[p]
      /\ va'[p] = va[p]
      /\ end'[p] = end[p]
      /\ newsz'[p] = newsz[p]
      /\ after'[p] = after[p]
      /\ pa'[p] = pa[p]
      /\ npa'[p] = npa[p]
      /\ ret'[p] = ret[p]
  BY <1>0, <1>1, CowMemAssumption DEF CowCopy, TypeOK, FrameOrNone, Life, Locals,
       Copying, Unmapping, Growing, Cowing, KfreePcs, CowPcs, GrowPcs, CopyPcs,
       UnmapPcs, Goto, pageVars, procVars, loopVars, callVars
<1>5. /\ frame' = frame /\ flags' = flags /\ sz' = sz /\ state' = state /\ parent' = parent
      /\ state[p] = "RUNNABLE"
  BY <1>0, <1>1, <1>2 DEF Life, Quiet, TypeOK, pageVars, procVars
<1>6. /\ va[p] \in Int /\ end[p] \in Int /\ newsz[p] \in Int /\ sz[p] \in 0 .. MaxPages
      /\ MaxPages \in Nat /\ p \in Proc /\ pc[p] # "dead"
      /\ ret[p] \in {"return", "copyout", "unmap_clear", "grow_undo"}
      /\ after[p] \in {"return", "set_size", "free_proc"}
  BY <1>0, <1>2, CowMemAssumption DEF TypeOK
<1>7. Life(p)'
  BY <1>1, <1>4, <1>5, <1>6 DEF CowCopy, Life, Copying, Unmapping, Growing, KfreePcs,
       CowPcs, GrowPcs, CopyPcs, UnmapPcs
<1>8. Locals(p)'
  BY <1>0, <1>1, <1>4, <1>5, <1>6, CowMemAssumption DEF CowCopy, TypeOK, FrameOrNone,
       Locals, Life, Own, Flagged, Copying, Unmapping, Growing, Cowing, VA, OwnPages,
       KfreePcs, CowPcs, GrowPcs, CopyPcs, UnmapPcs
<1>9. Own(p)'
  BY <1>1, <1>4, <1>5, <1>6 DEF CowCopy, Locals, Life, Own, OwnPages, Copying,
       Unmapping, Growing, VA, KfreePcs, CowPcs, GrowPcs, CopyPcs, UnmapPcs
<1>10. Child(p)'
  BY <1>1, <1>4, <1>5, <1>6 DEF CowCopy, Locals, Life, Child, ChildPages, Copying,
       Unmapping, Growing, VA, KfreePcs, CowPcs, GrowPcs, CopyPcs, UnmapPcs
<1> QED
  BY <1>2, <1>3, <1>7, <1>8, <1>9, <1>10, QuietKeeps

LEMMA CowFreeKeeps ==
  ASSUME PageTableInv, NEW p \in Proc, CowFree(p)
  PROVE  PageTableInv'
<1>0. TypeOK
  BY InvFacts
<1>1. Life(p) /\ Locals(p) /\ Own(p) /\ Child(p)
  BY InvFacts
<1>2. pc[p] # "dead" /\ Quiet(p)
  BY <1>0, <1>1 DEF CowFree, TypeOK, Quiet, Life, Locals, Copying, Unmapping, Growing,
       KfreePcs, CowPcs, GrowPcs, CopyPcs, UnmapPcs, Goto, CallKfree, allocVars,
       pageVars, procVars, loopVars
<1>3. TypeOK'
  <2>1. pa[p] \in Frames /\ ret[p] \in {"return", "copyout"}
    BY <1>0, <1>1, CowMemAssumption DEF CowFree, TypeOK, Locals, Life, Own, OwnPages,
         Copying, Unmapping, Growing, Cowing, VA, FrameOrNone, Pcs, KfreePcs, CowPcs,
         GrowPcs, CopyPcs, UnmapPcs
  <2>2. /\ free' \subseteq Frames
        /\ references' \in [Frames -> Int]
        /\ content' \in [Frames -> Data \cup {Junk}]
    BY <1>0, <2>1, CowMemAssumption DEF CowFree, TypeOK, FrameOrNone, Goto, CallKfree,
         allocVars, pageVars, procVars, loopVars
  <2>3. /\ pc' \in [Proc -> Pcs]
    BY <1>0, <2>1, CowMemAssumption DEF CowFree, TypeOK, FrameOrNone, Pcs, KfreePcs,
         CowPcs, GrowPcs, CopyPcs, UnmapPcs, Goto, CallKfree, allocVars, pageVars,
         procVars, loopVars
  <2>4. /\ tgt' \in [Proc -> Proc]
        /\ va' \in [Proc -> 0 .. MaxPages]
        /\ end' \in [Proc -> 0 .. MaxPages]
        /\ newsz' \in [Proc -> 0 .. MaxPages]
    BY <1>0, <2>1, CowMemAssumption DEF CowFree, TypeOK, FrameOrNone, Goto, CallKfree,
         allocVars, pageVars, procVars, loopVars
  <2>5. /\ pa' \in [Proc -> FrameOrNone]
        /\ npa' \in [Proc -> FrameOrNone]
        /\ ref' \in [Proc -> Int]
        /\ ret' \in [Proc -> {"return", "copyout", "unmap_clear", "grow_undo"}]
        /\ after' \in [Proc -> {"return", "set_size", "free_proc"}]
    BY <1>0, <2>1, CowMemAssumption DEF CowFree, TypeOK, FrameOrNone, Goto, CallKfree,
         allocVars, pageVars, procVars, loopVars
  <2> QED
    BY <1>0, <1>2, <2>2, <2>3, <2>4, <2>5 DEF TypeOK, Quiet, pageVars, procVars
<1>4. /\ pc'[p] = "kf_read"
      /\ tgt'[p] = tgt[p]
      /\ va'[p] = va[p]
      /\ end'[p] = end[p]
      /\ newsz'[p] = newsz[p]
      /\ after'[p] = after[p]
      /\ pa'[p] = pa[p]
      /\ npa'[p] = npa[p]
      /\ ret'[p] = ret[p]
  BY <1>0, <1>1, CowMemAssumption DEF CowFree, TypeOK, FrameOrNone, Life, Locals,
       Copying, Unmapping, Growing, Cowing, KfreePcs, CowPcs, GrowPcs, CopyPcs,
       UnmapPcs, Goto, CallKfree, allocVars, pageVars, procVars, loopVars
<1>5. /\ frame' = frame /\ flags' = flags /\ sz' = sz /\ state' = state /\ parent' = parent
      /\ state[p] = "RUNNABLE"
  BY <1>0, <1>1, <1>2 DEF Life, Quiet, TypeOK, pageVars, procVars
<1>6. /\ va[p] \in Int /\ end[p] \in Int /\ newsz[p] \in Int /\ sz[p] \in 0 .. MaxPages
      /\ MaxPages \in Nat /\ p \in Proc /\ pc[p] # "dead"
      /\ ret[p] \in {"return", "copyout", "unmap_clear", "grow_undo"}
      /\ after[p] \in {"return", "set_size", "free_proc"}
  BY <1>0, <1>2, CowMemAssumption DEF TypeOK
<1>7. Life(p)'
  <2>1. ret[p] \in {"return", "copyout"}
    BY <1>1 DEF CowFree, Locals, CowPcs
  <2> QED
    BY <1>1, <1>4, <1>5, <2>1 DEF CowFree, Life, Unmapping, Growing, Copying, KfreePcs,
         CowPcs, GrowPcs, CopyPcs, UnmapPcs
<1>8. Locals(p)'
  <2>1. /\ pa[p] \in Frames /\ ret[p] \in {"return", "copyout"}
        /\ va[p] \in VA /\ frame[p][va[p]] # None
        /\ ret[p] = "copyout" => PTE_W \in flags[p][va[p]]
    BY <1>1 DEF CowFree, Locals, Cowing, CowPcs
  <2> QED
    BY <1>4, <1>5, <2>1 DEF Locals, Unmapping, Growing, Copying, Cowing, KfreePcs,
         CowPcs, GrowPcs, CopyPcs, UnmapPcs
<1>9. Own(p)'
  BY <1>1, <1>4, <1>5, <1>6 DEF CowFree, Locals, Life, Own, OwnPages, Copying,
       Unmapping, Growing, VA, KfreePcs, CowPcs, GrowPcs, CopyPcs, UnmapPcs
<1>10. Child(p)'
  BY <1>1, <1>4, <1>5, <1>6 DEF CowFree, Locals, Life, Child, ChildPages, Copying,
       Unmapping, Growing, VA, KfreePcs, CowPcs, GrowPcs, CopyPcs, UnmapPcs
<1> QED
  BY <1>2, <1>3, <1>7, <1>8, <1>9, <1>10, QuietKeeps

LEMMA UnmapKeeps ==
  ASSUME PageTableInv, NEW p \in Proc, Unmap(p)
  PROVE  PageTableInv'
<1>0. TypeOK
  BY InvFacts
<1>1. Life(p) /\ Locals(p) /\ Own(p) /\ Child(p)
  BY InvFacts
<1>2. pc[p] # "dead" /\ Quiet(p)
  BY <1>0, <1>1 DEF Unmap, TypeOK, Quiet, Life, Locals, Copying, Unmapping, Growing,
       KfreePcs, CowPcs, GrowPcs, CopyPcs, UnmapPcs, Goto, CallKfree, allocVars,
       pageVars, procVars, loopVars
<1>3. TypeOK'
  <2>1. va[p] < end[p] => va[p] \in VA
    BY <1>0, <1>1, CowMemAssumption DEF Unmap, TypeOK, Locals, Life, Own, OwnPages,
         Copying, Unmapping, Growing, Cowing, VA, FrameOrNone, Pcs, KfreePcs, CowPcs,
         GrowPcs, CopyPcs, UnmapPcs
  <2>2. /\ free' \subseteq Frames
        /\ references' \in [Frames -> Int]
        /\ content' \in [Frames -> Data \cup {Junk}]
    BY <1>0, <2>1, CowMemAssumption DEF Unmap, TypeOK, FrameOrNone, Goto, CallKfree,
         allocVars, pageVars, procVars, loopVars
  <2>3. /\ pc' \in [Proc -> Pcs]
    BY <1>0, <2>1, CowMemAssumption, SMTT(30) DEF Unmap, TypeOK, FrameOrNone, Pcs, KfreePcs,
         CowPcs, GrowPcs, CopyPcs, UnmapPcs, Goto, CallKfree, allocVars, pageVars,
         procVars, loopVars
  <2>4. /\ tgt' \in [Proc -> Proc]
        /\ va' \in [Proc -> 0 .. MaxPages]
        /\ end' \in [Proc -> 0 .. MaxPages]
        /\ newsz' \in [Proc -> 0 .. MaxPages]
    BY <1>0, <2>1, CowMemAssumption DEF Unmap, TypeOK, FrameOrNone, Goto, CallKfree,
         allocVars, pageVars, procVars, loopVars
  <2>5. /\ pa' \in [Proc -> FrameOrNone]
        /\ npa' \in [Proc -> FrameOrNone]
        /\ ref' \in [Proc -> Int]
        /\ ret' \in [Proc -> {"return", "copyout", "unmap_clear", "grow_undo"}]
        /\ after' \in [Proc -> {"return", "set_size", "free_proc"}]
    <3>1. /\ UNCHANGED <<npa, ref, after>>
          /\ \/ UNCHANGED <<pa, ret>>
             \/ /\ pa' = [pa EXCEPT ![p] = frame[tgt[p]][va[p]]]
                /\ ret' = [ret EXCEPT ![p] = "unmap_clear"]
                /\ va[p] < end[p]
      <4>1. va[p] \in Int /\ end[p] \in Int
        BY <1>0, CowMemAssumption DEF TypeOK
      <4> QED
        BY <4>1 DEF Unmap, CallKfree, loopVars
    <3>2. va[p] < end[p] => tgt[p] \in Proc /\ frame[tgt[p]][va[p]] \in FrameOrNone
      BY <1>0, <2>1 DEF TypeOK
    <3> QED
      BY <1>0, <3>1, <3>2, ZenonT(40) DEF TypeOK
  <2> QED
    BY <1>0, <1>2, <2>2, <2>3, <2>4, <2>5 DEF TypeOK, Quiet, pageVars, procVars
<1>4. \/ /\ pc'[p] = after[p]
         /\ tgt'[p] = tgt[p]
         /\ va'[p] = va[p]
         /\ end'[p] = end[p]
         /\ newsz'[p] = newsz[p]
         /\ after'[p] = after[p]
         /\ pa'[p] = pa[p]
         /\ npa'[p] = npa[p]
         /\ ret'[p] = ret[p]
         /\ va[p] >= end[p]
      \/ /\ pc'[p] = "kf_read"
         /\ pa'[p] = frame[tgt[p]][va[p]]
         /\ ret'[p] = "unmap_clear"
         /\ tgt'[p] = tgt[p]
         /\ va'[p] = va[p]
         /\ end'[p] = end[p]
         /\ newsz'[p] = newsz[p]
         /\ after'[p] = after[p]
         /\ npa'[p] = npa[p]
         /\ va[p] < end[p]
         /\ frame[tgt[p]][va[p]] # None
  BY <1>0, <1>1, CowMemAssumption DEF Unmap, TypeOK, FrameOrNone, Life, Locals, Copying,
       Unmapping, Growing, Cowing, KfreePcs, CowPcs, GrowPcs, CopyPcs, UnmapPcs, Goto,
       CallKfree, allocVars, pageVars, procVars, loopVars
<1>5. /\ frame' = frame /\ flags' = flags /\ sz' = sz /\ state' = state /\ parent' = parent
      /\ state[p] = "RUNNABLE"
  BY <1>0, <1>1, <1>2 DEF Life, Quiet, TypeOK, pageVars, procVars
<1>6. /\ va[p] \in Int /\ end[p] \in Int /\ newsz[p] \in Int /\ sz[p] \in 0 .. MaxPages
      /\ MaxPages \in Nat /\ p \in Proc /\ pc[p] # "dead"
      /\ ret[p] \in {"return", "copyout", "unmap_clear", "grow_undo"}
      /\ after[p] \in {"return", "set_size", "free_proc"}
  BY <1>0, <1>2, CowMemAssumption DEF TypeOK
<1>7. Life(p)'
  BY <1>1, <1>4, <1>5, <1>6 DEF Unmap, Life, Copying, Unmapping, Growing, KfreePcs,
       CowPcs, GrowPcs, CopyPcs, UnmapPcs
<1>8. Locals(p)'
  <2>1. va[p] < end[p] /\ frame[tgt[p]][va[p]] # None => frame[tgt[p]][va[p]] \in Frames
    <3>1. va[p] < end[p] => va[p] \in VA /\ tgt[p] \in Proc
      BY <1>0, CowMemAssumption DEF TypeOK, VA
    <3> QED
      BY <1>0, <3>1 DEF TypeOK, FrameOrNone
  <2>2. /\ after[p] = "set_size" => newsz[p] <= va[p]
        /\ after[p] = "return" => sz[p] <= va[p]
    BY <1>1 DEF Unmap, Locals, Unmapping, UnmapPcs
  <2> QED
    BY <1>4, <1>5, <1>6, <2>1, <2>2 DEF Locals, Unmapping, Growing, Copying, Cowing,
         KfreePcs, CowPcs, GrowPcs, CopyPcs, UnmapPcs
<1>9. Own(p)'
  BY <1>1, <1>4, <1>5, <1>6 DEF Unmap, Locals, Life, Own, OwnPages, Copying, Unmapping,
       Growing, VA, KfreePcs, CowPcs, GrowPcs, CopyPcs, UnmapPcs
<1>10. Child(p)'
  BY <1>1, <1>4, <1>5, <1>6 DEF Unmap, Locals, Life, Child, ChildPages, Copying,
       Unmapping, Growing, VA, KfreePcs, CowPcs, GrowPcs, CopyPcs, UnmapPcs
<1> QED
  BY <1>2, <1>3, <1>7, <1>8, <1>9, <1>10, QuietKeeps

LEMMA SbrkGrowKeeps ==
  ASSUME PageTableInv, NEW p \in Proc, NEW n \in 0 .. MaxPages, SbrkGrow(p, n)
  PROVE  PageTableInv'
<1>0. TypeOK
  BY InvFacts
<1>1. Life(p) /\ Locals(p) /\ Own(p) /\ Child(p)
  BY InvFacts
<1>2. pc[p] # "dead" /\ Quiet(p)
  BY <1>0, <1>1 DEF SbrkGrow, TypeOK, Quiet, Life, Locals, Copying, Unmapping, Growing,
       KfreePcs, CowPcs, GrowPcs, CopyPcs, UnmapPcs, Goto, allocVars, pageVars,
       procVars, callVars
<1>3. TypeOK'
  <2>2. /\ free' \subseteq Frames
        /\ references' \in [Frames -> Int]
        /\ content' \in [Frames -> Data \cup {Junk}]
    BY <1>0, CowMemAssumption DEF SbrkGrow, TypeOK, FrameOrNone, Goto, allocVars,
         pageVars, procVars, callVars
  <2>3. /\ pc' \in [Proc -> Pcs]
    BY <1>0, CowMemAssumption DEF SbrkGrow, TypeOK, FrameOrNone, Pcs, KfreePcs, CowPcs,
         GrowPcs, CopyPcs, UnmapPcs, Goto, allocVars, pageVars, procVars, callVars
  <2>4. /\ tgt' \in [Proc -> Proc]
        /\ va' \in [Proc -> 0 .. MaxPages]
        /\ end' \in [Proc -> 0 .. MaxPages]
        /\ newsz' \in [Proc -> 0 .. MaxPages]
    BY <1>0, CowMemAssumption DEF SbrkGrow, TypeOK, FrameOrNone, Goto, allocVars,
         pageVars, procVars, callVars
  <2>5. /\ pa' \in [Proc -> FrameOrNone]
        /\ npa' \in [Proc -> FrameOrNone]
        /\ ref' \in [Proc -> Int]
        /\ ret' \in [Proc -> {"return", "copyout", "unmap_clear", "grow_undo"}]
        /\ after' \in [Proc -> {"return", "set_size", "free_proc"}]
    BY <1>0, CowMemAssumption DEF SbrkGrow, TypeOK, FrameOrNone, Goto, allocVars,
         pageVars, procVars, callVars
  <2> QED
    BY <1>0, <1>2, <2>2, <2>3, <2>4, <2>5 DEF TypeOK, Quiet, pageVars, procVars
<1>4. /\ pc'[p] = "grow_alloc"
      /\ va'[p] = sz[p]
      /\ end'[p] = n
      /\ newsz'[p] = n
      /\ tgt'[p] = tgt[p]
      /\ after'[p] = after[p]
      /\ pa'[p] = pa[p]
      /\ npa'[p] = npa[p]
      /\ ret'[p] = ret[p]
      /\ n > sz[p]
  BY <1>0, <1>1, CowMemAssumption DEF SbrkGrow, TypeOK, FrameOrNone, Life, Locals,
       Copying, Unmapping, Growing, Cowing, KfreePcs, CowPcs, GrowPcs, CopyPcs,
       UnmapPcs, Goto, allocVars, pageVars, procVars, callVars
<1>5. /\ frame' = frame /\ flags' = flags /\ sz' = sz /\ state' = state /\ parent' = parent
      /\ state[p] = "RUNNABLE"
  BY <1>0, <1>1, <1>2 DEF Life, Quiet, TypeOK, pageVars, procVars
<1>6. /\ va[p] \in Int /\ end[p] \in Int /\ newsz[p] \in Int /\ sz[p] \in 0 .. MaxPages
      /\ MaxPages \in Nat /\ p \in Proc /\ pc[p] # "dead"
      /\ ret[p] \in {"return", "copyout", "unmap_clear", "grow_undo"}
      /\ after[p] \in {"return", "set_size", "free_proc"}
  BY <1>0, <1>2, CowMemAssumption DEF TypeOK
<1>7. Life(p)'
  BY <1>1, <1>4, <1>5, <1>6 DEF SbrkGrow, Life, Copying, Unmapping, Growing, KfreePcs,
       CowPcs, GrowPcs, CopyPcs, UnmapPcs
<1>8. Locals(p)'
  BY <1>0, <1>1, <1>4, <1>5, <1>6, CowMemAssumption DEF SbrkGrow, TypeOK, FrameOrNone,
       Locals, Life, Own, Flagged, Copying, Unmapping, Growing, Cowing, VA, OwnPages,
       KfreePcs, CowPcs, GrowPcs, CopyPcs, UnmapPcs
<1>9. Own(p)'
  BY <1>1, <1>4, <1>5, <1>6 DEF SbrkGrow, Locals, Life, Own, OwnPages, Copying,
       Unmapping, Growing, VA, KfreePcs, CowPcs, GrowPcs, CopyPcs, UnmapPcs
<1>10. Child(p)'
  BY <1>1, <1>4, <1>5, <1>6 DEF SbrkGrow, Locals, Life, Child, ChildPages, Copying,
       Unmapping, Growing, VA, KfreePcs, CowPcs, GrowPcs, CopyPcs, UnmapPcs
<1> QED
  BY <1>2, <1>3, <1>7, <1>8, <1>9, <1>10, QuietKeeps

LEMMA SbrkShrinkKeeps ==
  ASSUME PageTableInv, NEW p \in Proc, NEW n \in 0 .. MaxPages, SbrkShrink(p, n)
  PROVE  PageTableInv'
<1>0. TypeOK
  BY InvFacts
<1>1. Life(p) /\ Locals(p) /\ Own(p) /\ Child(p)
  BY InvFacts
<1>2. pc[p] # "dead" /\ Quiet(p)
  BY <1>0, <1>1 DEF SbrkShrink, TypeOK, Quiet, Life, Locals, Copying, Unmapping,
       Growing, KfreePcs, CowPcs, GrowPcs, CopyPcs, UnmapPcs, Goto, CallUnmap,
       allocVars, pageVars, procVars, callVars
<1>3. TypeOK'
  <2>2. /\ free' \subseteq Frames
        /\ references' \in [Frames -> Int]
        /\ content' \in [Frames -> Data \cup {Junk}]
    BY <1>0, CowMemAssumption DEF SbrkShrink, TypeOK, FrameOrNone, Goto, CallUnmap,
         allocVars, pageVars, procVars, callVars
  <2>3. /\ pc' \in [Proc -> Pcs]
    BY <1>0, CowMemAssumption DEF SbrkShrink, TypeOK, FrameOrNone, Pcs, KfreePcs,
         CowPcs, GrowPcs, CopyPcs, UnmapPcs, Goto, CallUnmap, allocVars, pageVars,
         procVars, callVars
  <2>4. /\ tgt' \in [Proc -> Proc]
        /\ va' \in [Proc -> 0 .. MaxPages]
        /\ end' \in [Proc -> 0 .. MaxPages]
        /\ newsz' \in [Proc -> 0 .. MaxPages]
    BY <1>0, CowMemAssumption DEF SbrkShrink, TypeOK, FrameOrNone, Goto, CallUnmap,
         allocVars, pageVars, procVars, callVars
  <2>5. /\ pa' \in [Proc -> FrameOrNone]
        /\ npa' \in [Proc -> FrameOrNone]
        /\ ref' \in [Proc -> Int]
        /\ ret' \in [Proc -> {"return", "copyout", "unmap_clear", "grow_undo"}]
        /\ after' \in [Proc -> {"return", "set_size", "free_proc"}]
    BY <1>0, CowMemAssumption DEF SbrkShrink, TypeOK, FrameOrNone, Goto, CallUnmap,
         allocVars, pageVars, procVars, callVars
  <2> QED
    BY <1>0, <1>2, <2>2, <2>3, <2>4, <2>5 DEF TypeOK, Quiet, pageVars, procVars
<1>4. /\ pc'[p] = "unmap"
      /\ tgt'[p] = p
      /\ va'[p] = n
      /\ end'[p] = sz[p]
      /\ newsz'[p] = n
      /\ after'[p] = "set_size"
      /\ pa'[p] = pa[p]
      /\ npa'[p] = npa[p]
      /\ ret'[p] = ret[p]
      /\ n < sz[p]
  BY <1>0, <1>1, CowMemAssumption DEF SbrkShrink, TypeOK, FrameOrNone, Life, Locals,
       Copying, Unmapping, Growing, Cowing, KfreePcs, CowPcs, GrowPcs, CopyPcs,
       UnmapPcs, Goto, CallUnmap, allocVars, pageVars, procVars, callVars
<1>5. /\ frame' = frame /\ flags' = flags /\ sz' = sz /\ state' = state /\ parent' = parent
      /\ state[p] = "RUNNABLE"
  BY <1>0, <1>1, <1>2 DEF Life, Quiet, TypeOK, pageVars, procVars
<1>6. /\ va[p] \in Int /\ end[p] \in Int /\ newsz[p] \in Int /\ sz[p] \in 0 .. MaxPages
      /\ MaxPages \in Nat /\ p \in Proc /\ pc[p] # "dead"
      /\ ret[p] \in {"return", "copyout", "unmap_clear", "grow_undo"}
      /\ after[p] \in {"return", "set_size", "free_proc"}
  BY <1>0, <1>2, CowMemAssumption DEF TypeOK
<1>7. Life(p)'
  BY <1>1, <1>4, <1>5, <1>6 DEF SbrkShrink, Life, Copying, Unmapping, Growing, KfreePcs,
       CowPcs, GrowPcs, CopyPcs, UnmapPcs
<1>8. Locals(p)'
  BY <1>0, <1>1, <1>4, <1>5, <1>6, CowMemAssumption DEF SbrkShrink, TypeOK, FrameOrNone,
       Locals, Life, Own, Flagged, Copying, Unmapping, Growing, Cowing, VA, OwnPages,
       KfreePcs, CowPcs, GrowPcs, CopyPcs, UnmapPcs
<1>9. Own(p)'
  BY <1>1, <1>4, <1>5, <1>6 DEF SbrkShrink, Locals, Life, Own, OwnPages, Copying,
       Unmapping, Growing, VA, KfreePcs, CowPcs, GrowPcs, CopyPcs, UnmapPcs
<1>10. Child(p)'
  BY <1>1, <1>4, <1>5, <1>6 DEF SbrkShrink, Locals, Life, Child, ChildPages, Copying,
       Unmapping, Growing, VA, KfreePcs, CowPcs, GrowPcs, CopyPcs, UnmapPcs
<1> QED
  BY <1>2, <1>3, <1>7, <1>8, <1>9, <1>10, QuietKeeps

LEMMA GrowAllocKeeps ==
  ASSUME PageTableInv, NEW p \in Proc, GrowAlloc(p)
  PROVE  PageTableInv'
<1>0. TypeOK
  BY InvFacts
<1>1. Life(p) /\ Locals(p) /\ Own(p) /\ Child(p)
  BY InvFacts
<1>2. pc[p] # "dead" /\ Quiet(p)
  BY <1>0, <1>1 DEF GrowAlloc, MoreToGrow, TypeOK, Quiet, Life, Locals, Copying,
       Unmapping, Growing, KfreePcs, CowPcs, GrowPcs, CopyPcs, UnmapPcs, Goto,
       CallUnmap, Kalloc, allocVars, pageVars, procVars, loopVars
<1>3. TypeOK'
  <2>2. /\ free' \subseteq Frames
        /\ references' \in [Frames -> Int]
        /\ content' \in [Frames -> Data \cup {Junk}]
    <3>1. (\E f \in free : Kalloc(f)) \/ UNCHANGED allocVars
      BY DEF GrowAlloc
    <3> QED
      BY <1>0, <3>1, KallocTypes DEF TypeOK, allocVars
  <2>3. /\ pc' \in [Proc -> Pcs]
    BY <1>0, CowMemAssumption DEF GrowAlloc, MoreToGrow, TypeOK, FrameOrNone, Pcs,
         KfreePcs, CowPcs, GrowPcs, CopyPcs, UnmapPcs, Goto, CallUnmap, Kalloc,
         allocVars, pageVars, procVars, loopVars
  <2>4. /\ tgt' \in [Proc -> Proc]
        /\ va' \in [Proc -> 0 .. MaxPages]
        /\ end' \in [Proc -> 0 .. MaxPages]
        /\ newsz' \in [Proc -> 0 .. MaxPages]
    <3>1. /\ UNCHANGED newsz
          /\ \/ UNCHANGED <<tgt, va, end>>
             \/ /\ tgt' = [tgt EXCEPT ![p] = p]
                /\ va' = [va EXCEPT ![p] = sz[p]]
                /\ end' = [end EXCEPT ![p] = va[p]]
      BY DEF GrowAlloc, CallUnmap, loopVars
    <3>2. /\ sz[p] \in 0 .. MaxPages /\ va[p] \in 0 .. MaxPages
          /\ va \in [Proc -> 0 .. MaxPages] /\ end \in [Proc -> 0 .. MaxPages]
          /\ tgt \in [Proc -> Proc]
      BY <1>0 DEF TypeOK
    <3>3. va' \in [Proc -> 0 .. MaxPages] /\ end' \in [Proc -> 0 .. MaxPages]
      BY <3>1, <3>2, ExceptType
    <3>4. tgt' \in [Proc -> Proc]
      BY <3>1, <3>2, ExceptType
    <3> QED
      BY <1>0, <3>1, <3>3, <3>4 DEF TypeOK
  <2>5. /\ pa' \in [Proc -> FrameOrNone]
        /\ npa' \in [Proc -> FrameOrNone]
        /\ ref' \in [Proc -> Int]
        /\ ret' \in [Proc -> {"return", "copyout", "unmap_clear", "grow_undo"}]
        /\ after' \in [Proc -> {"return", "set_size", "free_proc"}]
    <3>1. /\ UNCHANGED <<pa, ref, ret>>
          /\ UNCHANGED npa \/ \E f \in free : npa' = [npa EXCEPT ![p] = f]
          /\ UNCHANGED after \/ after' = [after EXCEPT ![p] = "return"]
      BY DEF GrowAlloc, CallUnmap, loopVars
    <3>2. /\ npa \in [Proc -> FrameOrNone]
          /\ after \in [Proc -> {"return", "set_size", "free_proc"}]
          /\ free \subseteq FrameOrNone
      BY <1>0 DEF TypeOK, FrameOrNone
    <3>3. npa' \in [Proc -> FrameOrNone]
      BY <3>1, <3>2, ExceptType
    <3>4. after' \in [Proc -> {"return", "set_size", "free_proc"}]
      BY <3>1, <3>2, ExceptType
    <3> QED
      BY <1>0, <3>1, <3>3, <3>4 DEF TypeOK
  <2> QED
    BY <1>0, <1>2, <2>2, <2>3, <2>4, <2>5 DEF TypeOK, Quiet, pageVars, procVars
<1>4. \/ /\ pc'[p] = "grow_map"
         /\ npa'[p] \in Frames
         /\ tgt'[p] = tgt[p]
         /\ va'[p] = va[p]
         /\ end'[p] = end[p]
         /\ newsz'[p] = newsz[p]
         /\ after'[p] = after[p]
         /\ pa'[p] = pa[p]
         /\ ret'[p] = ret[p]
         /\ va[p] < end[p]
      \/ /\ pc'[p] = "unmap"
         /\ tgt'[p] = p
         /\ va'[p] = sz[p]
         /\ end'[p] = va[p]
         /\ after'[p] = "return"
         /\ newsz'[p] = newsz[p]
         /\ pa'[p] = pa[p]
         /\ npa'[p] = npa[p]
         /\ ret'[p] = ret[p]
         /\ va[p] < end[p]
      \/ /\ pc'[p] = "set_size"
         /\ tgt'[p] = tgt[p]
         /\ va'[p] = va[p]
         /\ end'[p] = end[p]
         /\ newsz'[p] = newsz[p]
         /\ after'[p] = after[p]
         /\ pa'[p] = pa[p]
         /\ npa'[p] = npa[p]
         /\ ret'[p] = ret[p]
         /\ va[p] >= end[p]
  BY <1>0, <1>1, CowMemAssumption DEF GrowAlloc, MoreToGrow, TypeOK, FrameOrNone, Life,
       Locals, Copying, Unmapping, Growing, Cowing, KfreePcs, CowPcs, GrowPcs, CopyPcs,
       UnmapPcs, Goto, CallUnmap, Kalloc, allocVars, pageVars, procVars, loopVars
<1>5. /\ frame' = frame /\ flags' = flags /\ sz' = sz /\ state' = state /\ parent' = parent
      /\ state[p] = "RUNNABLE"
  BY <1>0, <1>1, <1>2 DEF Life, Quiet, TypeOK, pageVars, procVars
<1>6. /\ va[p] \in Int /\ end[p] \in Int /\ newsz[p] \in Int /\ sz[p] \in 0 .. MaxPages
      /\ MaxPages \in Nat /\ p \in Proc /\ pc[p] # "dead"
      /\ ret[p] \in {"return", "copyout", "unmap_clear", "grow_undo"}
      /\ after[p] \in {"return", "set_size", "free_proc"}
  BY <1>0, <1>2, CowMemAssumption DEF TypeOK
<1>7. Life(p)'
  BY <1>1, <1>4, <1>5, <1>6 DEF GrowAlloc, MoreToGrow, Life, Copying, Unmapping,
       Growing, KfreePcs, CowPcs, GrowPcs, CopyPcs, UnmapPcs
<1>8. Locals(p)'
  BY <1>0, <1>1, <1>4, <1>5, <1>6, CowMemAssumption DEF GrowAlloc, MoreToGrow, TypeOK,
       FrameOrNone, Locals, Life, Own, Flagged, Copying, Unmapping, Growing, Cowing, VA,
       OwnPages, KfreePcs, CowPcs, GrowPcs, CopyPcs, UnmapPcs
<1>9. Own(p)'
  BY <1>1, <1>4, <1>5, <1>6 DEF GrowAlloc, MoreToGrow, Locals, Life, Own, OwnPages,
       Copying, Unmapping, Growing, VA, KfreePcs, CowPcs, GrowPcs, CopyPcs, UnmapPcs
<1>10. Child(p)'
  BY <1>1, <1>4, <1>5, <1>6 DEF GrowAlloc, MoreToGrow, Locals, Life, Child, ChildPages,
       Copying, Unmapping, Growing, VA, KfreePcs, CowPcs, GrowPcs, CopyPcs, UnmapPcs
<1> QED
  BY <1>2, <1>3, <1>7, <1>8, <1>9, <1>10, QuietKeeps

LEMMA GrowMapFailsKeeps ==
  ASSUME PageTableInv, NEW p \in Proc, GrowMapFails(p)
  PROVE  PageTableInv'
<1>0. TypeOK
  BY InvFacts
<1>1. Life(p) /\ Locals(p) /\ Own(p) /\ Child(p)
  BY InvFacts
<1>2. pc[p] # "dead" /\ Quiet(p)
  BY <1>0, <1>1 DEF GrowMapFails, TypeOK, Quiet, Life, Locals, Copying, Unmapping,
       Growing, KfreePcs, CowPcs, GrowPcs, CopyPcs, UnmapPcs, Goto, CallKfree, pageVars,
       procVars, loopVars
<1>3. TypeOK'
  <2>1. npa[p] \in Frames
    BY <1>0, <1>1, CowMemAssumption DEF GrowMapFails, TypeOK, Locals, Life, Own,
         OwnPages, Copying, Unmapping, Growing, Cowing, VA, FrameOrNone, Pcs, KfreePcs,
         CowPcs, GrowPcs, CopyPcs, UnmapPcs
  <2>2. /\ free' \subseteq Frames
        /\ references' \in [Frames -> Int]
        /\ content' \in [Frames -> Data \cup {Junk}]
    BY <1>0, <2>1, CowMemAssumption DEF GrowMapFails, TypeOK, FrameOrNone, Goto,
         CallKfree, pageVars, procVars, loopVars
  <2>3. /\ pc' \in [Proc -> Pcs]
    BY <1>0, <2>1, CowMemAssumption DEF GrowMapFails, TypeOK, FrameOrNone, Pcs,
         KfreePcs, CowPcs, GrowPcs, CopyPcs, UnmapPcs, Goto, CallKfree, pageVars,
         procVars, loopVars
  <2>4. /\ tgt' \in [Proc -> Proc]
        /\ va' \in [Proc -> 0 .. MaxPages]
        /\ end' \in [Proc -> 0 .. MaxPages]
        /\ newsz' \in [Proc -> 0 .. MaxPages]
    BY <1>0, <2>1, CowMemAssumption DEF GrowMapFails, TypeOK, FrameOrNone, Goto,
         CallKfree, pageVars, procVars, loopVars
  <2>5. /\ pa' \in [Proc -> FrameOrNone]
        /\ npa' \in [Proc -> FrameOrNone]
        /\ ref' \in [Proc -> Int]
        /\ ret' \in [Proc -> {"return", "copyout", "unmap_clear", "grow_undo"}]
        /\ after' \in [Proc -> {"return", "set_size", "free_proc"}]
    BY <1>0, <2>1, CowMemAssumption DEF GrowMapFails, TypeOK, FrameOrNone, Goto,
         CallKfree, pageVars, procVars, loopVars
  <2> QED
    BY <1>0, <1>2, <2>2, <2>3, <2>4, <2>5 DEF TypeOK, Quiet, pageVars, procVars
<1>4. /\ pc'[p] = "kf_read"
      /\ pa'[p] = npa[p]
      /\ ret'[p] = "grow_undo"
      /\ tgt'[p] = tgt[p]
      /\ va'[p] = va[p]
      /\ end'[p] = end[p]
      /\ newsz'[p] = newsz[p]
      /\ after'[p] = after[p]
      /\ npa'[p] = npa[p]
      /\ npa[p] \in Frames
  BY <1>0, <1>1, CowMemAssumption DEF GrowMapFails, TypeOK, FrameOrNone, Life, Locals,
       Copying, Unmapping, Growing, Cowing, KfreePcs, CowPcs, GrowPcs, CopyPcs,
       UnmapPcs, Goto, CallKfree, pageVars, procVars, loopVars
<1>5. /\ frame' = frame /\ flags' = flags /\ sz' = sz /\ state' = state /\ parent' = parent
      /\ state[p] = "RUNNABLE"
  BY <1>0, <1>1, <1>2 DEF Life, Quiet, TypeOK, pageVars, procVars
<1>6. /\ va[p] \in Int /\ end[p] \in Int /\ newsz[p] \in Int /\ sz[p] \in 0 .. MaxPages
      /\ MaxPages \in Nat /\ p \in Proc /\ pc[p] # "dead"
      /\ ret[p] \in {"return", "copyout", "unmap_clear", "grow_undo"}
      /\ after[p] \in {"return", "set_size", "free_proc"}
  BY <1>0, <1>2, CowMemAssumption DEF TypeOK
<1>7. Life(p)'
  BY <1>1, <1>4, <1>5, <1>6 DEF GrowMapFails, Life, Copying, Unmapping, Growing,
       KfreePcs, CowPcs, GrowPcs, CopyPcs, UnmapPcs
<1>8. Locals(p)'
  BY <1>0, <1>1, <1>4, <1>5, <1>6, CowMemAssumption DEF GrowMapFails, TypeOK,
       FrameOrNone, Locals, Life, Own, Flagged, Copying, Unmapping, Growing, Cowing, VA,
       OwnPages, KfreePcs, CowPcs, GrowPcs, CopyPcs, UnmapPcs
<1>9. Own(p)'
  BY <1>1, <1>4, <1>5, <1>6 DEF GrowMapFails, Locals, Life, Own, OwnPages, Copying,
       Unmapping, Growing, VA, KfreePcs, CowPcs, GrowPcs, CopyPcs, UnmapPcs
<1>10. Child(p)'
  BY <1>1, <1>4, <1>5, <1>6 DEF GrowMapFails, Locals, Life, Child, ChildPages, Copying,
       Unmapping, Growing, VA, KfreePcs, CowPcs, GrowPcs, CopyPcs, UnmapPcs
<1> QED
  BY <1>2, <1>3, <1>7, <1>8, <1>9, <1>10, QuietKeeps

LEMMA GrowUndoKeeps ==
  ASSUME PageTableInv, NEW p \in Proc, GrowUndo(p)
  PROVE  PageTableInv'
<1>0. TypeOK
  BY InvFacts
<1>1. Life(p) /\ Locals(p) /\ Own(p) /\ Child(p)
  BY InvFacts
<1>2. pc[p] # "dead" /\ Quiet(p)
  BY <1>0, <1>1 DEF GrowUndo, TypeOK, Quiet, Life, Locals, Copying, Unmapping, Growing,
       KfreePcs, CowPcs, GrowPcs, CopyPcs, UnmapPcs, Goto, CallUnmap, allocVars,
       pageVars, procVars, callVars
<1>3. TypeOK'
  <2>2. /\ free' \subseteq Frames
        /\ references' \in [Frames -> Int]
        /\ content' \in [Frames -> Data \cup {Junk}]
    BY <1>0, CowMemAssumption DEF GrowUndo, TypeOK, FrameOrNone, Goto, CallUnmap,
         allocVars, pageVars, procVars, callVars
  <2>3. /\ pc' \in [Proc -> Pcs]
    BY <1>0, CowMemAssumption DEF GrowUndo, TypeOK, FrameOrNone, Pcs, KfreePcs, CowPcs,
         GrowPcs, CopyPcs, UnmapPcs, Goto, CallUnmap, allocVars, pageVars, procVars,
         callVars
  <2>4. /\ tgt' \in [Proc -> Proc]
        /\ va' \in [Proc -> 0 .. MaxPages]
        /\ end' \in [Proc -> 0 .. MaxPages]
        /\ newsz' \in [Proc -> 0 .. MaxPages]
    BY <1>0, CowMemAssumption DEF GrowUndo, TypeOK, FrameOrNone, Goto, CallUnmap,
         allocVars, pageVars, procVars, callVars
  <2>5. /\ pa' \in [Proc -> FrameOrNone]
        /\ npa' \in [Proc -> FrameOrNone]
        /\ ref' \in [Proc -> Int]
        /\ ret' \in [Proc -> {"return", "copyout", "unmap_clear", "grow_undo"}]
        /\ after' \in [Proc -> {"return", "set_size", "free_proc"}]
    BY <1>0, CowMemAssumption DEF GrowUndo, TypeOK, FrameOrNone, Goto, CallUnmap,
         allocVars, pageVars, procVars, callVars
  <2> QED
    BY <1>0, <1>2, <2>2, <2>3, <2>4, <2>5 DEF TypeOK, Quiet, pageVars, procVars
<1>4. /\ pc'[p] = "unmap"
      /\ tgt'[p] = p
      /\ va'[p] = sz[p]
      /\ end'[p] = va[p]
      /\ after'[p] = "return"
      /\ newsz'[p] = newsz[p]
      /\ pa'[p] = pa[p]
      /\ npa'[p] = npa[p]
      /\ ret'[p] = ret[p]
  BY <1>0, <1>1, CowMemAssumption DEF GrowUndo, TypeOK, FrameOrNone, Life, Locals,
       Copying, Unmapping, Growing, Cowing, KfreePcs, CowPcs, GrowPcs, CopyPcs,
       UnmapPcs, Goto, CallUnmap, allocVars, pageVars, procVars, callVars
<1>5. /\ frame' = frame /\ flags' = flags /\ sz' = sz /\ state' = state /\ parent' = parent
      /\ state[p] = "RUNNABLE"
  BY <1>0, <1>1, <1>2 DEF Life, Quiet, TypeOK, pageVars, procVars
<1>6. /\ va[p] \in Int /\ end[p] \in Int /\ newsz[p] \in Int /\ sz[p] \in 0 .. MaxPages
      /\ MaxPages \in Nat /\ p \in Proc /\ pc[p] # "dead"
      /\ ret[p] \in {"return", "copyout", "unmap_clear", "grow_undo"}
      /\ after[p] \in {"return", "set_size", "free_proc"}
  BY <1>0, <1>2, CowMemAssumption DEF TypeOK
<1>7. Life(p)'
  BY <1>1, <1>4, <1>5, <1>6 DEF GrowUndo, Life, Copying, Unmapping, Growing, KfreePcs,
       CowPcs, GrowPcs, CopyPcs, UnmapPcs
<1>8. Locals(p)'
  BY <1>0, <1>1, <1>4, <1>5, <1>6, CowMemAssumption DEF GrowUndo, TypeOK, FrameOrNone,
       Locals, Life, Own, Flagged, Copying, Unmapping, Growing, Cowing, VA, OwnPages,
       KfreePcs, CowPcs, GrowPcs, CopyPcs, UnmapPcs
<1>9. Own(p)'
  BY <1>1, <1>4, <1>5, <1>6 DEF GrowUndo, Locals, Life, Own, OwnPages, Copying,
       Unmapping, Growing, VA, KfreePcs, CowPcs, GrowPcs, CopyPcs, UnmapPcs
<1>10. Child(p)'
  BY <1>1, <1>4, <1>5, <1>6 DEF GrowUndo, Locals, Life, Child, ChildPages, Copying,
       Unmapping, Growing, VA, KfreePcs, CowPcs, GrowPcs, CopyPcs, UnmapPcs
<1> QED
  BY <1>2, <1>3, <1>7, <1>8, <1>9, <1>10, QuietKeeps

LEMMA RefReadKeeps ==
  ASSUME PageTableInv, NEW p \in Proc, RefRead(p)
  PROVE  PageTableInv'
<1>0. TypeOK
  BY InvFacts
<1>1. Life(p) /\ Locals(p) /\ Own(p) /\ Child(p)
  BY InvFacts
<1>2. pc[p] # "dead" /\ Quiet(p)
  BY <1>0, <1>1 DEF RefRead, TypeOK, Quiet, Life, Locals, Copying, Unmapping, Growing,
       KfreePcs, CowPcs, GrowPcs, CopyPcs, UnmapPcs, Goto, allocVars, pageVars,
       procVars, loopVars
<1>3. TypeOK'
  <2>1. frame[p][va[p]] \in Frames
    BY <1>0, <1>1, CowMemAssumption, SMTT(30) DEF RefRead, TypeOK, Locals, Life, Own, OwnPages,
         Copying, Unmapping, Growing, Cowing, VA, FrameOrNone, Pcs, KfreePcs, CowPcs,
         GrowPcs, CopyPcs, UnmapPcs
  <2>2. /\ free' \subseteq Frames
        /\ references' \in [Frames -> Int]
        /\ content' \in [Frames -> Data \cup {Junk}]
    BY <1>0, <2>1, CowMemAssumption DEF RefRead, TypeOK, FrameOrNone, Goto, allocVars,
         pageVars, procVars, loopVars
  <2>3. /\ pc' \in [Proc -> Pcs]
    BY <1>0, <2>1, CowMemAssumption DEF RefRead, TypeOK, FrameOrNone, Pcs, KfreePcs,
         CowPcs, GrowPcs, CopyPcs, UnmapPcs, Goto, allocVars, pageVars, procVars,
         loopVars
  <2>4. /\ tgt' \in [Proc -> Proc]
        /\ va' \in [Proc -> 0 .. MaxPages]
        /\ end' \in [Proc -> 0 .. MaxPages]
        /\ newsz' \in [Proc -> 0 .. MaxPages]
    BY <1>0, <2>1, CowMemAssumption DEF RefRead, TypeOK, FrameOrNone, Goto, allocVars,
         pageVars, procVars, loopVars
  <2>5. /\ pa' \in [Proc -> FrameOrNone]
        /\ npa' \in [Proc -> FrameOrNone]
        /\ ref' \in [Proc -> Int]
        /\ ret' \in [Proc -> {"return", "copyout", "unmap_clear", "grow_undo"}]
        /\ after' \in [Proc -> {"return", "set_size", "free_proc"}]
    BY <1>0, <2>1, CowMemAssumption DEF RefRead, TypeOK, FrameOrNone, Goto, allocVars,
         pageVars, procVars, loopVars
  <2> QED
    BY <1>0, <1>2, <2>2, <2>3, <2>4, <2>5 DEF TypeOK, Quiet, pageVars, procVars
<1>4. /\ pc'[p] = "ref_cas"
      /\ tgt'[p] = tgt[p]
      /\ va'[p] = va[p]
      /\ end'[p] = end[p]
      /\ newsz'[p] = newsz[p]
      /\ after'[p] = after[p]
      /\ pa'[p] = pa[p]
      /\ npa'[p] = npa[p]
      /\ ret'[p] = ret[p]
  BY <1>0, <1>1, CowMemAssumption DEF RefRead, TypeOK, FrameOrNone, Life, Locals,
       Copying, Unmapping, Growing, Cowing, KfreePcs, CowPcs, GrowPcs, CopyPcs,
       UnmapPcs, Goto, allocVars, pageVars, procVars, loopVars
<1>5. /\ frame' = frame /\ flags' = flags /\ sz' = sz /\ state' = state /\ parent' = parent
      /\ state[p] = "RUNNABLE"
  BY <1>0, <1>1, <1>2 DEF Life, Quiet, TypeOK, pageVars, procVars
<1>6. /\ va[p] \in Int /\ end[p] \in Int /\ newsz[p] \in Int /\ sz[p] \in 0 .. MaxPages
      /\ MaxPages \in Nat /\ p \in Proc /\ pc[p] # "dead"
      /\ ret[p] \in {"return", "copyout", "unmap_clear", "grow_undo"}
      /\ after[p] \in {"return", "set_size", "free_proc"}
  BY <1>0, <1>2, CowMemAssumption DEF TypeOK
<1>7. Life(p)'
  BY <1>1, <1>4, <1>5, <1>6 DEF RefRead, Life, Copying, Unmapping, Growing, KfreePcs,
       CowPcs, GrowPcs, CopyPcs, UnmapPcs
<1>8. Locals(p)'
  BY <1>0, <1>1, <1>4, <1>5, <1>6, CowMemAssumption DEF RefRead, TypeOK, FrameOrNone,
       Locals, Life, Own, Flagged, Copying, Unmapping, Growing, Cowing, VA, OwnPages,
       KfreePcs, CowPcs, GrowPcs, CopyPcs, UnmapPcs
<1>9. Own(p)'
  BY <1>1, <1>4, <1>5, <1>6 DEF RefRead, Locals, Life, Own, OwnPages, Copying,
       Unmapping, Growing, VA, KfreePcs, CowPcs, GrowPcs, CopyPcs, UnmapPcs
<1>10. Child(p)'
  BY <1>1, <1>4, <1>5, <1>6 DEF RefRead, Locals, Life, Child, ChildPages, Copying,
       Unmapping, Growing, VA, KfreePcs, CowPcs, GrowPcs, CopyPcs, UnmapPcs
<1> QED
  BY <1>2, <1>3, <1>7, <1>8, <1>9, <1>10, QuietKeeps

LEMMA RefCasKeeps ==
  ASSUME PageTableInv, NEW p \in Proc, RefCas(p)
  PROVE  PageTableInv'
<1>0. TypeOK
  BY InvFacts
<1>1. Life(p) /\ Locals(p) /\ Own(p) /\ Child(p)
  BY InvFacts
<1>2. pc[p] # "dead" /\ Quiet(p)
  BY <1>0, <1>1 DEF RefCas, TypeOK, Quiet, Life, Locals, Copying, Unmapping, Growing,
       KfreePcs, CowPcs, GrowPcs, CopyPcs, UnmapPcs, Goto, pageVars, procVars, callVars
<1>3. TypeOK'
  <2>1. frame[p][va[p]] \in Frames /\ va[p] + 1 \in 0 .. MaxPages
    <3>1. frame[p][va[p]] = frame[tgt[p]][va[p]] /\ va[p] < sz[p] /\ pc[p] # "copy" /\ Copying(p)
      BY <1>1 DEF RefCas, Locals, Copying, CopyPcs
    <3>a. va[p] \in 0 .. MaxPages /\ sz[p] \in 0 .. MaxPages /\ MaxPages \in Nat
      BY <1>0, CowMemAssumption DEF TypeOK
    <3>2. va[p] \in VA /\ va[p] + 1 \in 0 .. MaxPages
      BY <3>a, <3>1 DEF VA
    <3>3. tgt[p] # p /\ va[p] \in ChildPages(p)
      BY <1>0, <1>1, <3>1, <3>2 DEF Life, ChildPages, TypeOK
    <3> QED
      BY <1>0, <1>1, <3>1, <3>2, <3>3 DEF TypeOK, FrameOrNone, Child
  <2>2. /\ free' \subseteq Frames
        /\ references' \in [Frames -> Int]
        /\ content' \in [Frames -> Data \cup {Junk}]
    BY <1>0, <2>1, CowMemAssumption DEF RefCas, TypeOK, FrameOrNone, Goto, pageVars,
         procVars, callVars
  <2>3. /\ pc' \in [Proc -> Pcs]
    BY <1>0, <2>1, CowMemAssumption, ZenonT(40) DEF RefCas, TypeOK, FrameOrNone, Pcs, KfreePcs,
         CowPcs, GrowPcs, CopyPcs, UnmapPcs, Goto, pageVars, procVars, callVars
  <2>4. /\ tgt' \in [Proc -> Proc]
        /\ va' \in [Proc -> 0 .. MaxPages]
        /\ end' \in [Proc -> 0 .. MaxPages]
        /\ newsz' \in [Proc -> 0 .. MaxPages]
    <3>1. /\ UNCHANGED <<tgt, end, newsz>>
          /\ UNCHANGED va \/ va' = [va EXCEPT ![p] = va[p] + 1]
      BY <1>0 DEF RefCas, TypeOK
    <3>2. va \in [Proc -> 0 .. MaxPages]
      BY <1>0 DEF TypeOK
    <3>3. va' \in [Proc -> 0 .. MaxPages]
      BY <2>1, <3>1, <3>2, ExceptType
    <3> QED
      BY <1>0, <3>1, <3>3 DEF TypeOK
  <2>5. /\ pa' \in [Proc -> FrameOrNone]
        /\ npa' \in [Proc -> FrameOrNone]
        /\ ref' \in [Proc -> Int]
        /\ ret' \in [Proc -> {"return", "copyout", "unmap_clear", "grow_undo"}]
        /\ after' \in [Proc -> {"return", "set_size", "free_proc"}]
    BY <1>0, <2>1, CowMemAssumption DEF RefCas, TypeOK, FrameOrNone, Goto, pageVars,
         procVars, callVars
  <2> QED
    BY <1>0, <1>2, <2>2, <2>3, <2>4, <2>5 DEF TypeOK, Quiet, pageVars, procVars
<1>4. \/ /\ pc'[p] = "copy"
         /\ va'[p] = va[p] + 1
         /\ tgt'[p] = tgt[p]
         /\ end'[p] = end[p]
         /\ newsz'[p] = newsz[p]
         /\ after'[p] = after[p]
         /\ pa'[p] = pa[p]
         /\ npa'[p] = npa[p]
         /\ ret'[p] = ret[p]
      \/ /\ pc'[p] = "ref_read"
         /\ tgt'[p] = tgt[p]
         /\ va'[p] = va[p]
         /\ end'[p] = end[p]
         /\ newsz'[p] = newsz[p]
         /\ after'[p] = after[p]
         /\ pa'[p] = pa[p]
         /\ npa'[p] = npa[p]
         /\ ret'[p] = ret[p]
  BY <1>0, <1>1, CowMemAssumption DEF RefCas, TypeOK, FrameOrNone, Life, Locals,
       Copying, Unmapping, Growing, Cowing, KfreePcs, CowPcs, GrowPcs, CopyPcs,
       UnmapPcs, Goto, pageVars, procVars, callVars
<1>5. /\ frame' = frame /\ flags' = flags /\ sz' = sz /\ state' = state /\ parent' = parent
      /\ state[p] = "RUNNABLE"
  BY <1>0, <1>1, <1>2 DEF Life, Quiet, TypeOK, pageVars, procVars
<1>6. /\ va[p] \in Int /\ end[p] \in Int /\ newsz[p] \in Int /\ sz[p] \in 0 .. MaxPages
      /\ MaxPages \in Nat /\ p \in Proc /\ pc[p] # "dead"
      /\ ret[p] \in {"return", "copyout", "unmap_clear", "grow_undo"}
      /\ after[p] \in {"return", "set_size", "free_proc"}
  BY <1>0, <1>2, CowMemAssumption DEF TypeOK
<1>7. Life(p)'
  BY <1>1, <1>4, <1>5, <1>6 DEF RefCas, Life, Copying, Unmapping, Growing, KfreePcs,
       CowPcs, GrowPcs, CopyPcs, UnmapPcs
<1>8. Locals(p)'
  <2>1. /\ va[p] \in Int /\ sz[p] \in Int /\ va[p] < sz[p]
        /\ frame[tgt[p]][va[p]] = frame[p][va[p]]
    BY <1>1, <1>6 DEF RefCas, Locals
  <2> QED
    BY <1>4, <1>5, <2>1 DEF Locals, Unmapping, Growing, Copying, Cowing, KfreePcs,
         CowPcs, GrowPcs, CopyPcs, UnmapPcs
<1>9. Own(p)'
  BY <1>1, <1>4, <1>5, <1>6 DEF RefCas, Locals, Life, Own, OwnPages, Copying, Unmapping,
       Growing, VA, KfreePcs, CowPcs, GrowPcs, CopyPcs, UnmapPcs
<1>10. Child(p)'
  BY <1>1, <1>4, <1>5, <1>6 DEF RefCas, Locals, Life, Child, ChildPages, Copying,
       Unmapping, Growing, VA, KfreePcs, CowPcs, GrowPcs, CopyPcs, UnmapPcs
<1> QED
  BY <1>2, <1>3, <1>7, <1>8, <1>9, <1>10, QuietKeeps

LEMMA CowInstallKeeps ==
  ASSUME PageTableInv, NEW p \in Proc, CowInstall(p)
  PROVE  PageTableInv'
<1>0. TypeOK
  BY InvFacts
<1>a. PICK c \in Proc : c = p
  BY <1>0 DEF TypeOK
<1>1. Life(p) /\ Locals(p) /\ Own(p) /\ Child(p) /\ Flagged(p)
  BY InvFacts
<1>2. pc[p] # "dead" /\ npa[p] \in Frames /\ va[p] \in VA /\ frame[p][va[p]] \in Frames /\ tgt[p] = p
  BY <1>0, <1>1, CowMemAssumption, SMTT(30) DEF CowInstall, TypeOK, FrameOrNone, Life, Locals,
       Copying, Unmapping, Growing, Cowing, VA, KfreePcs, CowPcs, GrowPcs, CopyPcs,
       UnmapPcs, Goto, allocVars, procVars, loopVars
<1>3. Alone(p, c)
  BY <1>0, <1>2, <1>a, OneInHand
<1>4. TypeOK'
  <2>1. /\ free' \subseteq Frames
        /\ references' \in [Frames -> Int]
        /\ content' \in [Frames -> Data \cup {Junk}]
    BY <1>0, <1>2, <1>a, CowMemAssumption DEF CowInstall, TypeOK, FrameOrNone, Goto,
         allocVars, procVars, loopVars
  <2>2. /\ frame' \in [Proc -> [VA -> FrameOrNone]]
        /\ flags' \in [Proc -> [VA -> SUBSET {PTE_W, PTE_COW}]]
    BY <1>0, <1>2, <1>a, CowMemAssumption DEF CowInstall, TypeOK, FrameOrNone, Goto,
         allocVars, procVars, loopVars
  <2>3. /\ state' \in [Proc -> {"UNUSED", "USED", "RUNNABLE", "ZOMBIE"}]
        /\ parent' \in [Proc -> Proc \cup {None}]
        /\ sz' \in [Proc -> 0 .. MaxPages]
    BY <1>0, <1>2, <1>a, CowMemAssumption DEF CowInstall, TypeOK, FrameOrNone, Goto,
         allocVars, procVars, loopVars
  <2>4. /\ pc' \in [Proc -> Pcs]
    BY <1>0, <1>2, <1>a, CowMemAssumption DEF CowInstall, TypeOK, FrameOrNone, Pcs,
         KfreePcs, CowPcs, GrowPcs, CopyPcs, UnmapPcs, Goto, allocVars, procVars,
         loopVars
  <2>5. /\ tgt' \in [Proc -> Proc]
        /\ va' \in [Proc -> 0 .. MaxPages]
        /\ end' \in [Proc -> 0 .. MaxPages]
        /\ newsz' \in [Proc -> 0 .. MaxPages]
    BY <1>0, <1>2, <1>a, CowMemAssumption DEF CowInstall, TypeOK, FrameOrNone, Goto,
         allocVars, procVars, loopVars
  <2>6. /\ pa' \in [Proc -> FrameOrNone]
        /\ npa' \in [Proc -> FrameOrNone]
        /\ ref' \in [Proc -> Int]
        /\ ret' \in [Proc -> {"return", "copyout", "unmap_clear", "grow_undo"}]
        /\ after' \in [Proc -> {"return", "set_size", "free_proc"}]
    BY <1>0, <1>2, <1>a, CowMemAssumption DEF CowInstall, TypeOK, FrameOrNone, Goto,
         allocVars, procVars, loopVars
  <2> QED
    BY <2>1, <2>2, <2>3, <2>4, <2>5, <2>6 DEF TypeOK
<1>5. Touches(p, c)
  BY <1>0, <1>2, <1>a DEF CowInstall, TypeOK, Touches, Goto, allocVars, procVars, loopVars
<1>6. /\ pc'[p] = "cow_free"
      /\ pa'[p] = frame[p][va[p]]
      /\ tgt'[p] = tgt[p]
      /\ va'[p] = va[p]
      /\ end'[p] = end[p]
      /\ newsz'[p] = newsz[p]
      /\ after'[p] = after[p]
      /\ npa'[p] = npa[p]
      /\ ret'[p] = ret[p]
      /\ state' = state
      /\ sz' = sz
      /\ parent' = parent
      /\ frame'[p] = [frame[p] EXCEPT ![va[p]] = npa[p]]
      /\ flags'[p] = [flags[p] EXCEPT ![va[p]] = (@ \ {PTE_COW}) \cup {PTE_W}]
  BY <1>0, <1>1, <1>2, <1>a DEF CowInstall, TypeOK, Goto, allocVars, procVars, loopVars
<1>7. /\ va[p] \in Int /\ end[p] \in Int /\ newsz[p] \in Int /\ sz[p] \in 0 .. MaxPages
      /\ state[p] = "RUNNABLE"
      /\ ret[p] \in {"return", "copyout", "unmap_clear", "grow_undo"}
      /\ after[p] \in {"return", "set_size", "free_proc"}
      /\ \A v \in VA : flags[p][v] \subseteq {PTE_W, PTE_COW}
      /\ frame[p] \in [VA -> FrameOrNone]
      /\ flags[p] \in [VA -> SUBSET {PTE_W, PTE_COW}]
      /\ MaxPages \in Nat /\ None \notin Frames
  BY <1>0, <1>1, <1>2, CowMemAssumption DEF TypeOK, Life
<1>8. Life(p)'
  BY <1>1, <1>2, <1>a, <1>6, <1>7 DEF CowInstall, Life, Locals, Copying, Unmapping,
       Growing, KfreePcs, CowPcs, GrowPcs, CopyPcs, UnmapPcs
<1>9. Locals(p)'
  BY <1>0, <1>1, <1>2, <1>a, <1>6, <1>7 DEF CowInstall, Life, Locals, Own, Child, Idle,
       Flagged, OwnPages, ChildPages, Copying, Unmapping, Growing, Cowing, VA, KfreePcs,
       CowPcs, GrowPcs, CopyPcs, UnmapPcs
<1>10. Own(p)'
  BY <1>1, <1>2, <1>a, <1>6, <1>7 DEF CowInstall, Life, Locals, Own, Child, Idle,
       Flagged, OwnPages, ChildPages, Copying, Unmapping, Growing, Cowing, VA, KfreePcs,
       CowPcs, GrowPcs, CopyPcs, UnmapPcs
<1>11. Child(p)'
  BY <1>1, <1>2, <1>a, <1>6, <1>7 DEF CowInstall, Life, Locals, Own, Child, Idle,
       Flagged, OwnPages, ChildPages, Copying, Unmapping, Growing, Cowing, VA, KfreePcs,
       CowPcs, GrowPcs, CopyPcs, UnmapPcs
<1>12. Idle(p)'
  BY <1>1, <1>2, <1>a, <1>6, <1>7 DEF CowInstall, Idle
<1>13. Flagged(p)'
  <2>1. ASSUME NEW v \in VA, frame'[p][v] # None PROVE flags'[p][v] # {}
    <3>1. CASE v = va[p]
      <4>1. flags'[p][v] = (flags[p][v] \ {PTE_COW}) \cup {PTE_W}
        BY <1>2, <1>6, <1>7, <3>1
      <4> QED
        BY <4>1
    <3>2. CASE v # va[p]
      <4>1. flags'[p][v] = flags[p][v] /\ frame'[p][v] = frame[p][v]
        BY <1>2, <1>6, <1>7, <3>2
      <4> QED
        BY <1>1, <2>1, <4>1 DEF Flagged
    <3> QED
      BY <3>1, <3>2
  <2> QED
    BY <2>1 DEF Flagged
<1>14. Mine(p)'
  BY <1>8, <1>9, <1>10, <1>11, <1>12, <1>13 DEF Mine
<1> QED
  BY <1>3, <1>4, <1>5, <1>14, <1>a, StepKeepsInv

LEMMA UnmapClearKeeps ==
  ASSUME PageTableInv, NEW p \in Proc, UnmapClear(p)
  PROVE  PageTableInv'
<1>0. TypeOK
  BY InvFacts
<1>a. PICK c \in Proc : c = tgt[p]
  BY <1>0 DEF TypeOK
<1>1. Life(p) /\ Locals(p) /\ Own(p) /\ Child(p) /\ Flagged(p)
  BY InvFacts
<1>2. pc[p] # "dead" /\ va[p] \in VA /\ va[p] + 1 \in 0 .. MaxPages /\ va[p] < end[p] /\ tgt[p] \in Proc
  <2>1. va[p] < end[p] /\ pc[p] # "dead"
    BY <1>1 DEF UnmapClear, Locals, Unmapping, UnmapPcs
  <2>2. va[p] \in 0 .. MaxPages /\ end[p] \in 0 .. MaxPages /\ MaxPages \in Nat /\ tgt[p] \in Proc
    BY <1>0, CowMemAssumption DEF TypeOK
  <2> QED
    BY <2>1, <2>2 DEF VA
<1>3. Alone(p, c)
  BY <1>0, <1>2, <1>a, OneInHand
<1>4. TypeOK'
  <2>1. /\ free' \subseteq Frames
        /\ references' \in [Frames -> Int]
        /\ content' \in [Frames -> Data \cup {Junk}]
    BY <1>0, <1>2, <1>a, CowMemAssumption DEF UnmapClear, TypeOK, FrameOrNone, Goto,
         allocVars, procVars, callVars
  <2>2. /\ frame' \in [Proc -> [VA -> FrameOrNone]]
        /\ flags' \in [Proc -> [VA -> SUBSET {PTE_W, PTE_COW}]]
    BY <1>0, <1>2, <1>a, CowMemAssumption DEF UnmapClear, TypeOK, FrameOrNone, Goto,
         allocVars, procVars, callVars
  <2>3. /\ state' \in [Proc -> {"UNUSED", "USED", "RUNNABLE", "ZOMBIE"}]
        /\ parent' \in [Proc -> Proc \cup {None}]
        /\ sz' \in [Proc -> 0 .. MaxPages]
    BY <1>0, <1>2, <1>a, CowMemAssumption DEF UnmapClear, TypeOK, FrameOrNone, Goto,
         allocVars, procVars, callVars
  <2>4. /\ pc' \in [Proc -> Pcs]
    BY <1>0, <1>2, <1>a, CowMemAssumption DEF UnmapClear, TypeOK, FrameOrNone, Pcs,
         KfreePcs, CowPcs, GrowPcs, CopyPcs, UnmapPcs, Goto, allocVars, procVars,
         callVars
  <2>5. /\ tgt' \in [Proc -> Proc]
        /\ va' \in [Proc -> 0 .. MaxPages]
        /\ end' \in [Proc -> 0 .. MaxPages]
        /\ newsz' \in [Proc -> 0 .. MaxPages]
    BY <1>0, <1>2, <1>a, CowMemAssumption DEF UnmapClear, TypeOK, FrameOrNone, Goto,
         allocVars, procVars, callVars
  <2>6. /\ pa' \in [Proc -> FrameOrNone]
        /\ npa' \in [Proc -> FrameOrNone]
        /\ ref' \in [Proc -> Int]
        /\ ret' \in [Proc -> {"return", "copyout", "unmap_clear", "grow_undo"}]
        /\ after' \in [Proc -> {"return", "set_size", "free_proc"}]
    BY <1>0, <1>2, <1>a, CowMemAssumption DEF UnmapClear, TypeOK, FrameOrNone, Goto,
         allocVars, procVars, callVars
  <2> QED
    BY <2>1, <2>2, <2>3, <2>4, <2>5, <2>6 DEF TypeOK
<1>5. Touches(p, c)
  BY <1>0, <1>2, <1>a DEF UnmapClear, TypeOK, Touches, Goto, allocVars, procVars, callVars
<1>6. /\ pc'[p] = "unmap"
      /\ va'[p] = va[p] + 1
      /\ tgt'[p] = tgt[p]
      /\ end'[p] = end[p]
      /\ newsz'[p] = newsz[p]
      /\ after'[p] = after[p]
      /\ pa'[p] = pa[p]
      /\ npa'[p] = npa[p]
      /\ ret'[p] = ret[p]
      /\ state' = state
      /\ sz' = sz
      /\ parent' = parent
      /\ frame'[c] = [frame[c] EXCEPT ![va[p]] = None]
      /\ flags'[c] = [flags[c] EXCEPT ![va[p]] = {}]
      /\ c # p => frame'[p] = frame[p] /\ flags'[p] = flags[p]
  BY <1>0, <1>1, <1>2, <1>a DEF UnmapClear, TypeOK, Goto, allocVars, procVars, callVars
<1>7. /\ va[p] \in Int /\ end[p] \in Int /\ newsz[p] \in Int /\ sz[p] \in 0 .. MaxPages
      /\ state[p] = "RUNNABLE"
      /\ ret[p] \in {"return", "copyout", "unmap_clear", "grow_undo"}
      /\ after[p] \in {"return", "set_size", "free_proc"}
      /\ \A v \in VA : flags[p][v] \subseteq {PTE_W, PTE_COW}
      /\ frame[p] \in [VA -> FrameOrNone] /\ frame[c] \in [VA -> FrameOrNone]
      /\ flags[p] \in [VA -> SUBSET {PTE_W, PTE_COW}] /\ flags[c] \in [VA -> SUBSET {PTE_W, PTE_COW}]
      /\ MaxPages \in Nat /\ None \notin Frames
  BY <1>0, <1>1, <1>2, CowMemAssumption DEF TypeOK, Life
<1>8. Life(p)'
  BY <1>1, <1>2, <1>a, <1>6, <1>7 DEF UnmapClear, Life, Locals, Copying, Unmapping,
       Growing, KfreePcs, CowPcs, GrowPcs, CopyPcs, UnmapPcs
<1>9. Locals(p)'
  BY <1>0, <1>1, <1>2, <1>a, <1>6, <1>7 DEF UnmapClear, Life, Locals, Own, Child, Idle,
       Flagged, OwnPages, ChildPages, Copying, Unmapping, Growing, Cowing, VA, KfreePcs,
       CowPcs, GrowPcs, CopyPcs, UnmapPcs
<1>10. Own(p)'
  BY <1>1, <1>2, <1>a, <1>6, <1>7 DEF UnmapClear, Life, Locals, Own, Child, Idle,
       Flagged, OwnPages, ChildPages, Copying, Unmapping, Growing, Cowing, VA, KfreePcs,
       CowPcs, GrowPcs, CopyPcs, UnmapPcs
<1>11. Child(p)'
  BY <1>1, <1>2, <1>a, <1>6, <1>7 DEF UnmapClear, Life, Locals, Own, Child, Idle,
       Flagged, OwnPages, ChildPages, Copying, Unmapping, Growing, Cowing, VA, KfreePcs,
       CowPcs, GrowPcs, CopyPcs, UnmapPcs
<1>12. Idle(p)'
  BY <1>1, <1>2, <1>a, <1>6, <1>7 DEF UnmapClear, Idle
<1>13. Flagged(p)'
  BY <1>1, <1>2, <1>a, <1>6, <1>7 DEF UnmapClear, Flagged
<1>14. Mine(p)'
  BY <1>8, <1>9, <1>10, <1>11, <1>12, <1>13 DEF Mine
<1>15. c # p => Mine(c)'
  <2> SUFFICES ASSUME c # p PROVE Mine(c)'
    OBVIOUS
  <2>1. Mine(c) /\ Flagged(c) /\ pc[c] = "dead"
    BY <1>3, InvParts DEF Mine, Alone
  <2>2. Flagged(c)'
    BY <1>1, <1>2, <1>a, <1>6, <1>7, <2>1 DEF Flagged, SharedFlags
  <2>3. tgt'[p] = c /\ pc'[c] = pc[c] /\ state'[c] = state[c] /\ sz'[c] = sz[c]
    BY <1>0, <1>2, <1>a, <1>6, <2>1 DEF UnmapClear, Goto, TypeOK
  <2> QED
    BY <1>0, <1>4, <1>5, <2>1, <2>2, <2>3, InHandKeeps
<1> QED
  BY <1>3, <1>4, <1>5, <1>14, <1>15, StepKeepsInv

LEMMA GrowMapMaps ==
  ASSUME PageTableInv, NEW p \in Proc, GrowMap(p), pc'[p] = "grow_alloc"
  PROVE  PageTableInv'
<1>0. TypeOK
  BY InvFacts
<1>a. PICK c \in Proc : c = p
  BY <1>0 DEF TypeOK
<1>1. Life(p) /\ Locals(p) /\ Own(p) /\ Child(p) /\ Flagged(p)
  BY InvFacts
<1>2. /\ pc[p] # "dead" /\ npa[p] \in Frames /\ va[p] \in VA
      /\ va[p] + 1 \in 0 .. MaxPages /\ tgt[p] = p
  <2>1. pc[p] = "grow_map" /\ npa[p] \in Frames /\ va[p] < end[p]
    BY <1>1 DEF GrowMap, Locals, Growing, GrowPcs
  <2>2. va[p] \in 0 .. MaxPages /\ end[p] \in 0 .. MaxPages /\ MaxPages \in Nat
    BY <1>0, CowMemAssumption DEF TypeOK
  <2>3. tgt[p] = p
    BY <1>1, <2>1 DEF Life, Copying, Unmapping, CopyPcs, UnmapPcs, KfreePcs
  <2> QED
    BY <2>1, <2>2, <2>3 DEF VA
<1>3. Alone(p, c)
  BY <1>0, <1>2, <1>a, OneInHand
<1>4. TypeOK'
  <2>1. /\ free' \subseteq Frames
        /\ references' \in [Frames -> Int]
        /\ content' \in [Frames -> Data \cup {Junk}]
    BY <1>0, <1>2, <1>a, CowMemAssumption DEF GrowMap, TypeOK, FrameOrNone, Goto,
         CallKfree, pageVars, procVars
  <2>2. /\ frame' \in [Proc -> [VA -> FrameOrNone]]
        /\ flags' \in [Proc -> [VA -> SUBSET {PTE_W, PTE_COW}]]
    <3>1. /\ frame' = [frame EXCEPT ![p][va[p]] = npa[p]]
          /\ flags' = [flags EXCEPT ![p][va[p]] = {PTE_W}]
      BY <1>0 DEF GrowMap, CallKfree, Goto, TypeOK
    <3>2. /\ frame \in [Proc -> [VA -> FrameOrNone]] /\ npa[p] \in FrameOrNone
          /\ flags \in [Proc -> [VA -> SUBSET {PTE_W, PTE_COW}]]
      BY <1>0, <1>2 DEF TypeOK, FrameOrNone
    <3>3. frame' \in [Proc -> [VA -> FrameOrNone]]
      BY <1>2, <3>1, <3>2, TableType
    <3>4. {PTE_W} \in SUBSET {PTE_W, PTE_COW}
      OBVIOUS
    <3>5. flags' \in [Proc -> [VA -> SUBSET {PTE_W, PTE_COW}]]
      BY <1>2, <3>1, <3>2, <3>4, TableType
    <3> QED
      BY <3>3, <3>5
  <2>3. /\ state' \in [Proc -> {"UNUSED", "USED", "RUNNABLE", "ZOMBIE"}]
        /\ parent' \in [Proc -> Proc \cup {None}]
        /\ sz' \in [Proc -> 0 .. MaxPages]
    BY <1>0, <1>2, <1>a, CowMemAssumption DEF GrowMap, TypeOK, FrameOrNone, Goto,
         CallKfree, pageVars, procVars
  <2>4. /\ pc' \in [Proc -> Pcs]
    <3>1. pc' = [pc EXCEPT ![p] = "grow_alloc"]
      BY <1>0 DEF GrowMap, CallKfree, Goto, TypeOK
    <3> QED
      BY <1>0, <3>1 DEF TypeOK, Pcs, GrowPcs
  <2>5. /\ tgt' \in [Proc -> Proc]
        /\ va' \in [Proc -> 0 .. MaxPages]
        /\ end' \in [Proc -> 0 .. MaxPages]
        /\ newsz' \in [Proc -> 0 .. MaxPages]
    <3>1. UNCHANGED <<tgt, end, newsz>> /\ va' = [va EXCEPT ![p] = va[p] + 1]
      BY <1>0 DEF GrowMap, CallKfree, Goto, TypeOK
    <3>2. va \in [Proc -> 0 .. MaxPages]
      BY <1>0 DEF TypeOK
    <3>3. va' \in [Proc -> 0 .. MaxPages]
      BY <1>2, <3>1, <3>2, ExceptType
    <3> QED
      BY <1>0, <3>1, <3>3 DEF TypeOK
  <2>6. /\ pa' \in [Proc -> FrameOrNone]
        /\ npa' \in [Proc -> FrameOrNone]
        /\ ref' \in [Proc -> Int]
        /\ ret' \in [Proc -> {"return", "copyout", "unmap_clear", "grow_undo"}]
        /\ after' \in [Proc -> {"return", "set_size", "free_proc"}]
    BY <1>0, <1>2, <1>a, CowMemAssumption DEF GrowMap, TypeOK, FrameOrNone, Goto,
         CallKfree, pageVars, procVars
  <2> QED
    BY <2>1, <2>2, <2>3, <2>4, <2>5, <2>6 DEF TypeOK
<1>5. Touches(p, c)
  BY <1>0, <1>2, <1>a DEF GrowMap, TypeOK, Touches, Goto, CallKfree, pageVars, procVars
<1>6. /\ pc'[p] = "grow_alloc"
      /\ va'[p] = va[p] + 1
      /\ tgt'[p] = tgt[p]
      /\ end'[p] = end[p]
      /\ newsz'[p] = newsz[p]
      /\ after'[p] = after[p]
      /\ pa'[p] = pa[p]
      /\ npa'[p] = npa[p]
      /\ ret'[p] = ret[p]
      /\ state' = state
      /\ sz' = sz
      /\ parent' = parent
      /\ frame'[p] = [frame[p] EXCEPT ![va[p]] = npa[p]]
      /\ flags'[p] = [flags[p] EXCEPT ![va[p]] = {PTE_W}]
  BY <1>0, <1>1, <1>2, <1>a DEF GrowMap, TypeOK, Goto, CallKfree, pageVars, procVars
<1>7. /\ va[p] \in Int /\ end[p] \in Int /\ newsz[p] \in Int /\ sz[p] \in 0 .. MaxPages
      /\ state[p] = "RUNNABLE"
      /\ ret[p] \in {"return", "copyout", "unmap_clear", "grow_undo"}
      /\ after[p] \in {"return", "set_size", "free_proc"}
      /\ \A v \in VA : flags[p][v] \subseteq {PTE_W, PTE_COW}
      /\ frame[p] \in [VA -> FrameOrNone]
      /\ flags[p] \in [VA -> SUBSET {PTE_W, PTE_COW}]
      /\ MaxPages \in Nat /\ None \notin Frames
  BY <1>0, <1>1, <1>2, CowMemAssumption DEF TypeOK, Life
<1>8. Life(p)'
  BY <1>1, <1>2, <1>a, <1>6, <1>7 DEF GrowMap, Life, Locals, Copying, Unmapping,
       Growing, KfreePcs, CowPcs, GrowPcs, CopyPcs, UnmapPcs
<1>9. Locals(p)'
  BY <1>0, <1>1, <1>2, <1>a, <1>6, <1>7 DEF GrowMap, Life, Locals, Own, Child, Idle,
       Flagged, OwnPages, ChildPages, Copying, Unmapping, Growing, Cowing, VA, KfreePcs,
       CowPcs, GrowPcs, CopyPcs, UnmapPcs
<1>10. Own(p)'
  BY <1>1, <1>2, <1>a, <1>6, <1>7 DEF GrowMap, Life, Locals, Own, Child, Idle, Flagged,
       OwnPages, ChildPages, Copying, Unmapping, Growing, Cowing, VA, KfreePcs, CowPcs,
       GrowPcs, CopyPcs, UnmapPcs
<1>11. Child(p)'
  BY <1>1, <1>2, <1>a, <1>6, <1>7 DEF GrowMap, Life, Locals, Own, Child, Idle, Flagged,
       OwnPages, ChildPages, Copying, Unmapping, Growing, Cowing, VA, KfreePcs, CowPcs,
       GrowPcs, CopyPcs, UnmapPcs
<1>12. Idle(p)'
  BY <1>1, <1>2, <1>a, <1>6, <1>7 DEF GrowMap, Idle
<1>13. Flagged(p)'
  BY <1>1, <1>2, <1>a, <1>6, <1>7 DEF GrowMap, Flagged
<1>14. Mine(p)'
  BY <1>8, <1>9, <1>10, <1>11, <1>12, <1>13 DEF Mine
<1> QED
  BY <1>3, <1>4, <1>5, <1>14, <1>a, StepKeepsInv

LEMMA CopyPageMaps ==
  ASSUME PageTableInv, NEW p \in Proc, CopyPage(p), pc'[p] = "ref_read"
  PROVE  PageTableInv'
<1>0. TypeOK
  BY InvFacts
<1>a. PICK c \in Proc : c = tgt[p]
  BY <1>0 DEF TypeOK
<1>1. Life(p) /\ Locals(p) /\ Own(p) /\ Child(p) /\ Flagged(p)
  BY InvFacts
<1>2. pc[p] # "dead" /\ va[p] \in VA /\ tgt[p] # p /\ tgt[p] \in Proc /\ frame[p][va[p]] \in Frames
  <2>1. va[p] < sz[p] /\ frame[p][va[p]] # None /\ Copying(p) /\ pc[p] # "dead"
    BY DEF CopyPage, Copying, CopyPcs
  <2>2. va[p] \in 0 .. MaxPages /\ sz[p] \in 0 .. MaxPages /\ MaxPages \in Nat /\ tgt[p] \in Proc
    BY <1>0, CowMemAssumption DEF TypeOK
  <2>3. va[p] \in VA
    BY <2>1, <2>2 DEF VA
  <2>4. frame[p][va[p]] \in Frames
    BY <1>0, <2>1, <2>3 DEF TypeOK, FrameOrNone
  <2> QED
    BY <1>1, <2>1, <2>2, <2>3, <2>4 DEF Life
<1>3. Alone(p, c)
  BY <1>0, <1>2, <1>a, OneInHand
<1>4. TypeOK'
  <2>1. /\ free' \subseteq Frames
        /\ references' \in [Frames -> Int]
        /\ content' \in [Frames -> Data \cup {Junk}]
    BY <1>0, <1>2, <1>a, CowMemAssumption DEF CopyPage, TypeOK, FrameOrNone,
         SharedFlags, CopyErr, Goto, CallUnmap, allocVars, procVars, loopVars, callVars
  <2>2. /\ frame' \in [Proc -> [VA -> FrameOrNone]]
        /\ flags' \in [Proc -> [VA -> SUBSET {PTE_W, PTE_COW}]]
    <3> DEFINE s == SharedFlags(flags[p][va[p]])
    <3>1. s \in SUBSET {PTE_W, PTE_COW}
      BY <1>0, <1>2 DEF TypeOK, SharedFlags
    <3>2. /\ frame \in [Proc -> [VA -> FrameOrNone]]
          /\ flags \in [Proc -> [VA -> SUBSET {PTE_W, PTE_COW}]]
          /\ frame[p][va[p]] \in FrameOrNone
      BY <1>0, <1>2 DEF TypeOK, FrameOrNone

    <3>3. /\ frame' = [frame EXCEPT ![tgt[p]][va[p]] = frame[p][va[p]]]
          /\ flags' = [[flags EXCEPT ![p][va[p]] = s] EXCEPT ![tgt[p]][va[p]] = s]
      BY <1>0, <1>2 DEF CopyPage, CopyErr, CallUnmap, Goto, TypeOK
    <3> HIDE DEF s
    <3>4. frame' \in [Proc -> [VA -> FrameOrNone]]
      BY <1>2, <3>2, <3>3, TableType
    <3>5. [flags EXCEPT ![p][va[p]] = s] \in [Proc -> [VA -> SUBSET {PTE_W, PTE_COW}]]
      BY <1>2, <3>1, <3>2, TableType
    <3>6. flags' \in [Proc -> [VA -> SUBSET {PTE_W, PTE_COW}]]
      BY <1>2, <3>1, <3>3, <3>5, TableType
    <3> QED
      BY <3>4, <3>6
  <2>3. /\ state' \in [Proc -> {"UNUSED", "USED", "RUNNABLE", "ZOMBIE"}]
        /\ parent' \in [Proc -> Proc \cup {None}]
        /\ sz' \in [Proc -> 0 .. MaxPages]
    <3>1. UNCHANGED procVars
      BY DEF CopyPage
    <3> QED
      BY <1>0, <3>1 DEF TypeOK, procVars
  <2>4. /\ pc' \in [Proc -> Pcs]
    <3>1. pc' = [pc EXCEPT ![p] = "ref_read"]
      BY <1>0, <1>2 DEF CopyPage, CopyErr, CallUnmap, Goto, TypeOK
    <3> QED
      BY <1>0, <3>1 DEF TypeOK, Pcs, CopyPcs
  <2>5. /\ tgt' \in [Proc -> Proc]
        /\ va' \in [Proc -> 0 .. MaxPages]
        /\ end' \in [Proc -> 0 .. MaxPages]
        /\ newsz' \in [Proc -> 0 .. MaxPages]
    <3>1. UNCHANGED loopVars
      BY <1>0, <1>2 DEF CopyPage, CopyErr, CallUnmap, Goto, TypeOK
    <3> QED
      BY <1>0, <3>1 DEF TypeOK, loopVars
  <2>6. /\ pa' \in [Proc -> FrameOrNone]
        /\ npa' \in [Proc -> FrameOrNone]
        /\ ref' \in [Proc -> Int]
        /\ ret' \in [Proc -> {"return", "copyout", "unmap_clear", "grow_undo"}]
        /\ after' \in [Proc -> {"return", "set_size", "free_proc"}]
    BY <1>0, <1>2, <1>a, CowMemAssumption DEF CopyPage, TypeOK, FrameOrNone,
         SharedFlags, CopyErr, Goto, CallUnmap, allocVars, procVars, loopVars, callVars
  <2> QED
    BY <2>1, <2>2, <2>3, <2>4, <2>5, <2>6 DEF TypeOK
<1>5. Touches(p, c)
  BY <1>0, <1>2, <1>a DEF CopyPage, TypeOK, Touches, CopyErr, Goto, CallUnmap,
       allocVars, procVars, loopVars, callVars
<1>6. /\ pc'[p] = "ref_read"
      /\ tgt'[p] = tgt[p]
      /\ va'[p] = va[p]
      /\ end'[p] = end[p]
      /\ newsz'[p] = newsz[p]
      /\ after'[p] = after[p]
      /\ pa'[p] = pa[p]
      /\ npa'[p] = npa[p]
      /\ ret'[p] = ret[p]
      /\ state' = state
      /\ sz' = sz
      /\ parent' = parent
      /\ frame'[p] = frame[p]
      /\ flags'[p] = [flags[p] EXCEPT ![va[p]] = SharedFlags(flags[p][va[p]])]
      /\ frame'[c] = [frame[c] EXCEPT ![va[p]] = frame[p][va[p]]]
      /\ flags'[c] = [flags[c] EXCEPT ![va[p]] = SharedFlags(flags[p][va[p]])]
  BY <1>0, <1>1, <1>2, <1>a DEF CopyPage, TypeOK, CopyErr, Goto, CallUnmap, allocVars,
       procVars, loopVars, callVars
<1>7. /\ va[p] \in Int /\ end[p] \in Int /\ newsz[p] \in Int /\ sz[p] \in 0 .. MaxPages
      /\ state[p] = "RUNNABLE"
      /\ ret[p] \in {"return", "copyout", "unmap_clear", "grow_undo"}
      /\ after[p] \in {"return", "set_size", "free_proc"}
      /\ \A v \in VA : flags[p][v] \subseteq {PTE_W, PTE_COW}
      /\ frame[p] \in [VA -> FrameOrNone] /\ frame[c] \in [VA -> FrameOrNone]
      /\ flags[p] \in [VA -> SUBSET {PTE_W, PTE_COW}] /\ flags[c] \in [VA -> SUBSET {PTE_W, PTE_COW}]
      /\ MaxPages \in Nat /\ None \notin Frames
  BY <1>0, <1>1, <1>2, CowMemAssumption DEF TypeOK, Life
<1>8. Life(p)'
  BY <1>1, <1>2, <1>a, <1>6, <1>7 DEF CopyPage, Life, Locals, Copying, Unmapping,
       Growing, KfreePcs, CowPcs, GrowPcs, CopyPcs, UnmapPcs
<1>9. Locals(p)'
  BY <1>0, <1>1, <1>2, <1>a, <1>6, <1>7 DEF CopyPage, SharedFlags, Life, Locals, Own,
       Child, Idle, Flagged, OwnPages, ChildPages, Copying, Unmapping, Growing, Cowing,
       VA, KfreePcs, CowPcs, GrowPcs, CopyPcs, UnmapPcs
<1>10. Own(p)'
  BY <1>1, <1>2, <1>a, <1>6, <1>7 DEF CopyPage, Life, Locals, Own, Child, Idle, Flagged,
       OwnPages, ChildPages, Copying, Unmapping, Growing, Cowing, VA, KfreePcs, CowPcs,
       GrowPcs, CopyPcs, UnmapPcs
<1>11. Child(p)'
  BY <1>1, <1>2, <1>a, <1>6, <1>7 DEF CopyPage, Life, Locals, Own, Child, Idle, Flagged,
       OwnPages, ChildPages, Copying, Unmapping, Growing, Cowing, VA, KfreePcs, CowPcs,
       GrowPcs, CopyPcs, UnmapPcs
<1>12. Idle(p)'
  BY <1>1, <1>2, <1>a, <1>6, <1>7 DEF CopyPage, Idle
<1>13. Flagged(p)'
  <2> DEFINE s == SharedFlags(flags[p][va[p]])
  <2>1. s # {}
    <3>1. flags[p][va[p]] # {} /\ flags[p][va[p]] \subseteq {PTE_W, PTE_COW}
      BY <1>1, <1>2, <1>7 DEF Flagged, FrameOrNone
    <3> QED
      BY <3>1 DEF SharedFlags, PTE_W, PTE_COW
  <2>2. frame'[p] = frame[p] /\ flags'[p] = [flags[p] EXCEPT ![va[p]] = s]
    BY <1>6
  <2> HIDE DEF s
  <2> QED
    BY <1>1, <1>2, <1>7, <2>1, <2>2 DEF Flagged
<1>14. Mine(p)'
  BY <1>8, <1>9, <1>10, <1>11, <1>12, <1>13 DEF Mine
<1>15. c # p => Mine(c)'
  <2> SUFFICES ASSUME c # p PROVE Mine(c)'
    OBVIOUS
  <2>1. Mine(c) /\ Flagged(c) /\ pc[c] = "dead"
    BY <1>3, InvParts DEF Mine, Alone
  <2>2. Flagged(c)'
    <3> DEFINE s == SharedFlags(flags[p][va[p]])
    <3>1. s # {}
      BY <1>1, <1>2, <1>7, SMTT(30) DEF Flagged, SharedFlags, CopyPage, PTE_W, PTE_COW
    <3>2. /\ frame'[c] = [frame[c] EXCEPT ![va[p]] = frame[p][va[p]]]
          /\ flags'[c] = [flags[c] EXCEPT ![va[p]] = s]
      BY <1>6
    <3> HIDE DEF s
    <3> QED
      BY <1>1, <1>2, <1>7, <2>1, <3>1, <3>2 DEF Flagged
  <2>3. tgt'[p] = c /\ pc'[c] = pc[c] /\ state'[c] = state[c] /\ sz'[c] = sz[c]
    BY <1>0, <1>2, <1>a, <1>6, <2>1 DEF CopyPage, Goto, TypeOK, CopyErr, CallUnmap
  <2> QED
    BY <1>0, <1>4, <1>5, <2>1, <2>2, <2>3, InHandKeeps
<1> QED
  BY <1>3, <1>4, <1>5, <1>14, <1>15, StepKeepsInv

LEMMA CopyPageFails ==
  ASSUME PageTableInv, NEW p \in Proc, CopyPage(p), pc'[p] # "ref_read"
  PROVE  PageTableInv'
<1>0. TypeOK
  BY InvFacts
<1>a. PICK c \in Proc : c = tgt[p]
  BY <1>0 DEF TypeOK
<1>1. Life(p) /\ Locals(p) /\ Own(p) /\ Child(p) /\ Flagged(p)
  BY InvFacts
<1>2. pc[p] # "dead" /\ va[p] \in VA /\ tgt[p] # p /\ tgt[p] \in Proc /\ frame[p][va[p]] \in Frames
  <2>1. va[p] < sz[p] /\ frame[p][va[p]] # None /\ Copying(p) /\ pc[p] # "dead"
    BY DEF CopyPage, Copying, CopyPcs
  <2>2. va[p] \in 0 .. MaxPages /\ sz[p] \in 0 .. MaxPages /\ MaxPages \in Nat /\ tgt[p] \in Proc
    BY <1>0, CowMemAssumption DEF TypeOK
  <2>3. va[p] \in VA
    BY <2>1, <2>2 DEF VA
  <2>4. frame[p][va[p]] \in Frames
    BY <1>0, <2>1, <2>3 DEF TypeOK, FrameOrNone
  <2> QED
    BY <1>1, <2>1, <2>2, <2>3, <2>4 DEF Life
<1>3. Alone(p, c)
  BY <1>0, <1>2, <1>a, OneInHand
<1>4. TypeOK'
  <2>1. /\ free' \subseteq Frames
        /\ references' \in [Frames -> Int]
        /\ content' \in [Frames -> Data \cup {Junk}]
    BY <1>0, <1>2, <1>a, CowMemAssumption DEF CopyPage, TypeOK, FrameOrNone,
         SharedFlags, CopyErr, Goto, CallUnmap, allocVars, procVars, loopVars, callVars
  <2>2. /\ frame' \in [Proc -> [VA -> FrameOrNone]]
        /\ flags' \in [Proc -> [VA -> SUBSET {PTE_W, PTE_COW}]]
    <3> DEFINE s == SharedFlags(flags[p][va[p]])
    <3>1. s \in SUBSET {PTE_W, PTE_COW}
      BY <1>0, <1>2 DEF TypeOK, SharedFlags
    <3>2. /\ frame \in [Proc -> [VA -> FrameOrNone]]
          /\ flags \in [Proc -> [VA -> SUBSET {PTE_W, PTE_COW}]]
          /\ frame[p][va[p]] \in FrameOrNone
      BY <1>0, <1>2 DEF TypeOK, FrameOrNone

    <3>3. frame' = frame /\ flags' = [flags EXCEPT ![p][va[p]] = s]
      BY <1>0, <1>2 DEF CopyPage, Goto, TypeOK
    <3> HIDE DEF s
    <3>5. flags' \in [Proc -> [VA -> SUBSET {PTE_W, PTE_COW}]]
      BY <1>2, <3>1, <3>2, <3>3, TableType
    <3> QED
      BY <3>2, <3>3, <3>5
  <2>3. /\ state' \in [Proc -> {"UNUSED", "USED", "RUNNABLE", "ZOMBIE"}]
        /\ parent' \in [Proc -> Proc \cup {None}]
        /\ sz' \in [Proc -> 0 .. MaxPages]
    <3>1. UNCHANGED procVars
      BY DEF CopyPage
    <3> QED
      BY <1>0, <3>1 DEF TypeOK, procVars
  <2>4. /\ pc' \in [Proc -> Pcs]
    BY <1>0, <1>2, <1>a, CowMemAssumption DEF CopyPage, TypeOK, FrameOrNone,
         SharedFlags, CopyErr, Pcs, KfreePcs, CowPcs, GrowPcs, CopyPcs, UnmapPcs, Goto,
         CallUnmap, allocVars, procVars, loopVars, callVars
  <2>5. /\ tgt' \in [Proc -> Proc]
        /\ va' \in [Proc -> 0 .. MaxPages]
        /\ end' \in [Proc -> 0 .. MaxPages]
        /\ newsz' \in [Proc -> 0 .. MaxPages]
    <3>1. /\ UNCHANGED newsz
          /\ tgt' = [tgt EXCEPT ![p] = tgt[p]]
          /\ va' = [va EXCEPT ![p] = 0]
          /\ end' = [end EXCEPT ![p] = va[p]]
      BY <1>0 DEF CopyPage, CopyErr, CallUnmap, Goto, TypeOK
    <3>2. /\ va \in [Proc -> 0 .. MaxPages] /\ end \in [Proc -> 0 .. MaxPages]
          /\ 0 \in 0 .. MaxPages /\ va[p] \in 0 .. MaxPages /\ tgt \in [Proc -> Proc]
          /\ newsz \in [Proc -> 0 .. MaxPages]
      BY <1>0, CowMemAssumption DEF TypeOK
    <3>3. va' \in [Proc -> 0 .. MaxPages] /\ end' \in [Proc -> 0 .. MaxPages]
      BY <3>1, <3>2, ExceptType
    <3>4. tgt' \in [Proc -> Proc]
      BY <1>2, <3>1, <3>2, ExceptType
    <3> QED
      BY <3>1, <3>2, <3>3, <3>4
  <2>6. /\ pa' \in [Proc -> FrameOrNone]
        /\ npa' \in [Proc -> FrameOrNone]
        /\ ref' \in [Proc -> Int]
        /\ ret' \in [Proc -> {"return", "copyout", "unmap_clear", "grow_undo"}]
        /\ after' \in [Proc -> {"return", "set_size", "free_proc"}]
    BY <1>0, <1>2, <1>a, CowMemAssumption DEF CopyPage, TypeOK, FrameOrNone,
         SharedFlags, CopyErr, Goto, CallUnmap, allocVars, procVars, loopVars, callVars
  <2> QED
    BY <2>1, <2>2, <2>3, <2>4, <2>5, <2>6 DEF TypeOK
<1>5. Touches(p, c)
  BY <1>0, <1>2, <1>a DEF CopyPage, TypeOK, Touches, CopyErr, Goto, CallUnmap,
       allocVars, procVars, loopVars, callVars
<1>6. /\ pc'[p] = "unmap"
      /\ tgt'[p] = c
      /\ va'[p] = 0
      /\ end'[p] = va[p]
      /\ after'[p] = "free_proc"
      /\ newsz'[p] = newsz[p]
      /\ pa'[p] = pa[p]
      /\ npa'[p] = npa[p]
      /\ ret'[p] = ret[p]
      /\ state' = state
      /\ sz' = sz
      /\ parent' = parent
      /\ frame'[p] = frame[p]
      /\ flags'[p] = [flags[p] EXCEPT ![va[p]] = SharedFlags(flags[p][va[p]])]
      /\ frame'[c] = frame[c]
      /\ flags'[c] = flags[c]
  BY <1>0, <1>1, <1>2, <1>a, ZenonT(40) DEF CopyPage, TypeOK, CopyErr, Goto, CallUnmap, allocVars,
       procVars, loopVars, callVars
<1>7. /\ va[p] \in Int /\ end[p] \in Int /\ newsz[p] \in Int /\ sz[p] \in 0 .. MaxPages
      /\ state[p] = "RUNNABLE"
      /\ ret[p] \in {"return", "copyout", "unmap_clear", "grow_undo"}
      /\ after[p] \in {"return", "set_size", "free_proc"}
      /\ \A v \in VA : flags[p][v] \subseteq {PTE_W, PTE_COW}
      /\ frame[p] \in [VA -> FrameOrNone] /\ frame[c] \in [VA -> FrameOrNone]
      /\ flags[p] \in [VA -> SUBSET {PTE_W, PTE_COW}] /\ flags[c] \in [VA -> SUBSET {PTE_W, PTE_COW}]
      /\ MaxPages \in Nat /\ None \notin Frames
  BY <1>0, <1>1, <1>2, CowMemAssumption DEF TypeOK, Life
<1>8. Life(p)'
  BY <1>1, <1>2, <1>a, <1>6, <1>7 DEF CopyPage, Life, Locals, Copying, Unmapping,
       Growing, KfreePcs, CowPcs, GrowPcs, CopyPcs, UnmapPcs
<1>9. Locals(p)'
  BY <1>0, <1>1, <1>2, <1>a, <1>6, <1>7 DEF CopyPage, SharedFlags, Life, Locals, Own,
       Child, Idle, Flagged, OwnPages, ChildPages, Copying, Unmapping, Growing, Cowing,
       VA, KfreePcs, CowPcs, GrowPcs, CopyPcs, UnmapPcs
<1>10. Own(p)'
  BY <1>1, <1>2, <1>a, <1>6, <1>7 DEF CopyPage, Life, Locals, Own, Child, Idle, Flagged,
       OwnPages, ChildPages, Copying, Unmapping, Growing, Cowing, VA, KfreePcs, CowPcs,
       GrowPcs, CopyPcs, UnmapPcs
<1>11. Child(p)'
  BY <1>1, <1>2, <1>a, <1>6, <1>7 DEF CopyPage, Life, Locals, Own, Child, Idle, Flagged,
       OwnPages, ChildPages, Copying, Unmapping, Growing, Cowing, VA, KfreePcs, CowPcs,
       GrowPcs, CopyPcs, UnmapPcs
<1>12. Idle(p)'
  BY <1>1, <1>2, <1>a, <1>6, <1>7 DEF CopyPage, Idle
<1>13. Flagged(p)'
  <2> DEFINE s == SharedFlags(flags[p][va[p]])
  <2>1. s # {}
    <3>1. flags[p][va[p]] # {} /\ flags[p][va[p]] \subseteq {PTE_W, PTE_COW}
      BY <1>1, <1>2, <1>7 DEF Flagged, FrameOrNone
    <3> QED
      BY <3>1 DEF SharedFlags, PTE_W, PTE_COW
  <2>2. frame'[p] = frame[p] /\ flags'[p] = [flags[p] EXCEPT ![va[p]] = s]
    BY <1>6
  <2> HIDE DEF s
  <2> QED
    BY <1>1, <1>2, <1>7, <2>1, <2>2 DEF Flagged
<1>14. Mine(p)'
  BY <1>8, <1>9, <1>10, <1>11, <1>12, <1>13 DEF Mine
<1>15. c # p => Mine(c)'
  <2> SUFFICES ASSUME c # p PROVE Mine(c)'
    OBVIOUS
  <2>1. Mine(c) /\ Flagged(c) /\ pc[c] = "dead"
    BY <1>3, InvParts DEF Mine, Alone
  <2>2. Flagged(c)'
    BY <1>1, <1>2, <1>a, <1>6, <1>7, <2>1 DEF Flagged, SharedFlags
  <2>3. tgt'[p] = c /\ pc'[c] = pc[c] /\ state'[c] = state[c] /\ sz'[c] = sz[c]
    BY <1>0, <1>2, <1>a, <1>6, <2>1 DEF CopyPage, Goto, TypeOK, CopyErr, CallUnmap
  <2> QED
    BY <1>0, <1>4, <1>5, <2>1, <2>2, <2>3, InHandKeeps
<1> QED
  BY <1>3, <1>4, <1>5, <1>14, <1>15, StepKeepsInv

LEMMA SetSizeKeeps ==
  ASSUME PageTableInv, NEW p \in Proc, SetSize(p)
  PROVE  PageTableInv'
<1>0. TypeOK
  BY InvFacts
<1>a. PICK c \in Proc : c = p
  BY <1>0 DEF TypeOK
<1>1. Life(p) /\ Locals(p) /\ Own(p) /\ Child(p) /\ Flagged(p)
  BY InvFacts
<1>2. pc[p] # "dead" /\ tgt[p] = p
  BY <1>0, <1>1, CowMemAssumption DEF SetSize, TypeOK, FrameOrNone, Life, Locals,
       Copying, Unmapping, Growing, Cowing, VA, KfreePcs, CowPcs, GrowPcs, CopyPcs,
       UnmapPcs, Goto, ResetLocals, allocVars, pageVars
<1>3. Alone(p, c)
  BY <1>0, <1>2, <1>a, OneInHand
<1>4. TypeOK'
  <2>1. /\ free' \subseteq Frames
        /\ references' \in [Frames -> Int]
        /\ content' \in [Frames -> Data \cup {Junk}]
    BY <1>0, <1>2, <1>a, CowMemAssumption DEF SetSize, TypeOK, FrameOrNone, Goto,
         ResetLocals, allocVars, pageVars
  <2>2. /\ frame' \in [Proc -> [VA -> FrameOrNone]]
        /\ flags' \in [Proc -> [VA -> SUBSET {PTE_W, PTE_COW}]]
    BY <1>0, <1>2, <1>a, CowMemAssumption DEF SetSize, TypeOK, FrameOrNone, Goto,
         ResetLocals, allocVars, pageVars
  <2>3. /\ state' \in [Proc -> {"UNUSED", "USED", "RUNNABLE", "ZOMBIE"}]
        /\ parent' \in [Proc -> Proc \cup {None}]
        /\ sz' \in [Proc -> 0 .. MaxPages]
    BY <1>0, <1>2, <1>a, CowMemAssumption DEF SetSize, TypeOK, FrameOrNone, Goto,
         ResetLocals, allocVars, pageVars
  <2>4. /\ pc' \in [Proc -> Pcs]
    BY <1>0, <1>2, <1>a, CowMemAssumption DEF SetSize, TypeOK, FrameOrNone, Pcs,
         KfreePcs, CowPcs, GrowPcs, CopyPcs, UnmapPcs, Goto, ResetLocals, allocVars,
         pageVars
  <2>5. /\ tgt' \in [Proc -> Proc]
        /\ va' \in [Proc -> 0 .. MaxPages]
        /\ end' \in [Proc -> 0 .. MaxPages]
        /\ newsz' \in [Proc -> 0 .. MaxPages]
    BY <1>0, <1>2, <1>a, CowMemAssumption DEF SetSize, TypeOK, FrameOrNone, Goto,
         ResetLocals, allocVars, pageVars
  <2>6. /\ pa' \in [Proc -> FrameOrNone]
        /\ npa' \in [Proc -> FrameOrNone]
        /\ ref' \in [Proc -> Int]
        /\ ret' \in [Proc -> {"return", "copyout", "unmap_clear", "grow_undo"}]
        /\ after' \in [Proc -> {"return", "set_size", "free_proc"}]
    BY <1>0, <1>2, <1>a, CowMemAssumption DEF SetSize, TypeOK, FrameOrNone, Goto,
         ResetLocals, allocVars, pageVars
  <2> QED
    BY <2>1, <2>2, <2>3, <2>4, <2>5, <2>6 DEF TypeOK
<1>5. Touches(p, c)
  BY <1>0, <1>2, <1>a DEF SetSize, TypeOK, Touches, Goto, ResetLocals, allocVars, pageVars
<1>6. /\ pc'[p] = "user"
      /\ tgt'[p] = p
      /\ va'[p] = 0
      /\ end'[p] = 0
      /\ newsz'[p] = 0
      /\ after'[p] = "return"
      /\ pa'[p] = None
      /\ npa'[p] = None
      /\ ret'[p] = "return"
      /\ state'[p] = state[p]
      /\ sz'[p] = newsz[p]
      /\ frame'[p] = frame[p]
      /\ flags'[p] = flags[p]
  BY <1>0, <1>1, <1>2, <1>a DEF SetSize, TypeOK, Goto, ResetLocals, allocVars, pageVars
<1>7. /\ va[p] \in Int /\ end[p] \in Int /\ newsz[p] \in Int /\ sz[p] \in 0 .. MaxPages
      /\ state[p] = "RUNNABLE"
      /\ ret[p] \in {"return", "copyout", "unmap_clear", "grow_undo"}
      /\ after[p] \in {"return", "set_size", "free_proc"}
      /\ \A v \in VA : flags[p][v] \subseteq {PTE_W, PTE_COW}
      /\ frame[p] \in [VA -> FrameOrNone]
      /\ flags[p] \in [VA -> SUBSET {PTE_W, PTE_COW}]
      /\ MaxPages \in Nat /\ None \notin Frames
  BY <1>0, <1>1, <1>2, CowMemAssumption DEF TypeOK, Life
<1>8. Life(p)'
  BY <1>1, <1>2, <1>a, <1>6, <1>7 DEF SetSize, Life, Locals, Copying, Unmapping,
       Growing, KfreePcs, CowPcs, GrowPcs, CopyPcs, UnmapPcs
<1>9. Locals(p)'
  BY <1>0, <1>1, <1>2, <1>a, <1>6, <1>7 DEF SetSize, Life, Locals, Own, Child, Idle,
       Flagged, OwnPages, ChildPages, Copying, Unmapping, Growing, Cowing, VA, KfreePcs,
       CowPcs, GrowPcs, CopyPcs, UnmapPcs
<1>10. Own(p)'
  BY <1>1, <1>2, <1>a, <1>6, <1>7 DEF SetSize, Life, Locals, Own, Child, Idle, Flagged,
       OwnPages, ChildPages, Copying, Unmapping, Growing, Cowing, VA, KfreePcs, CowPcs,
       GrowPcs, CopyPcs, UnmapPcs
<1>11. Child(p)'
  BY <1>1, <1>2, <1>a, <1>6, <1>7 DEF SetSize, Life, Locals, Own, Child, Idle, Flagged,
       OwnPages, ChildPages, Copying, Unmapping, Growing, Cowing, VA, KfreePcs, CowPcs,
       GrowPcs, CopyPcs, UnmapPcs
<1>12. Idle(p)'
  BY <1>1, <1>2, <1>a, <1>6, <1>7 DEF SetSize, Idle
<1>13. Flagged(p)'
  BY <1>1, <1>2, <1>a, <1>6, <1>7 DEF SetSize, Flagged
<1>14. Mine(p)'
  BY <1>8, <1>9, <1>10, <1>11, <1>12, <1>13 DEF Mine
<1> QED
  BY <1>3, <1>4, <1>5, <1>14, <1>a, StepKeepsInv

LEMMA ForkKeeps ==
  ASSUME PageTableInv, NEW p \in Proc, NEW c \in Proc, Fork(p, c)
  PROVE  PageTableInv'
<1>0. TypeOK
  BY InvFacts
<1>1. Life(p) /\ Locals(p) /\ Own(p) /\ Child(p) /\ Flagged(p)
  BY InvFacts
<1>2. pc[p] # "dead" /\ c # p /\ tgt[p] = p
  BY <1>0, <1>1, CowMemAssumption DEF Fork, TypeOK, FrameOrNone, Life, Locals, Copying,
       Unmapping, Growing, Cowing, VA, KfreePcs, CowPcs, GrowPcs, CopyPcs, UnmapPcs,
       Goto, allocVars, pageVars, callVars
<1>3. Alone(p, c)
  BY <1>2, FreeHands DEF Fork
<1>4. TypeOK'
  <2>1. /\ free' \subseteq Frames
        /\ references' \in [Frames -> Int]
        /\ content' \in [Frames -> Data \cup {Junk}]
    BY <1>0, <1>2, CowMemAssumption DEF Fork, TypeOK, FrameOrNone, Goto, allocVars,
         pageVars, callVars
  <2>2. /\ frame' \in [Proc -> [VA -> FrameOrNone]]
        /\ flags' \in [Proc -> [VA -> SUBSET {PTE_W, PTE_COW}]]
    BY <1>0, <1>2, CowMemAssumption DEF Fork, TypeOK, FrameOrNone, Goto, allocVars,
         pageVars, callVars
  <2>3. /\ state' \in [Proc -> {"UNUSED", "USED", "RUNNABLE", "ZOMBIE"}]
        /\ parent' \in [Proc -> Proc \cup {None}]
        /\ sz' \in [Proc -> 0 .. MaxPages]
    BY <1>0, <1>2, CowMemAssumption DEF Fork, TypeOK, FrameOrNone, Goto, allocVars,
         pageVars, callVars
  <2>4. /\ pc' \in [Proc -> Pcs]
    BY <1>0, <1>2, CowMemAssumption DEF Fork, TypeOK, FrameOrNone, Pcs, KfreePcs,
         CowPcs, GrowPcs, CopyPcs, UnmapPcs, Goto, allocVars, pageVars, callVars
  <2>5. /\ tgt' \in [Proc -> Proc]
        /\ va' \in [Proc -> 0 .. MaxPages]
        /\ end' \in [Proc -> 0 .. MaxPages]
        /\ newsz' \in [Proc -> 0 .. MaxPages]
    BY <1>0, <1>2, CowMemAssumption DEF Fork, TypeOK, FrameOrNone, Goto, allocVars,
         pageVars, callVars
  <2>6. /\ pa' \in [Proc -> FrameOrNone]
        /\ npa' \in [Proc -> FrameOrNone]
        /\ ref' \in [Proc -> Int]
        /\ ret' \in [Proc -> {"return", "copyout", "unmap_clear", "grow_undo"}]
        /\ after' \in [Proc -> {"return", "set_size", "free_proc"}]
    BY <1>0, <1>2, CowMemAssumption DEF Fork, TypeOK, FrameOrNone, Goto, allocVars,
         pageVars, callVars
  <2> QED
    BY <2>1, <2>2, <2>3, <2>4, <2>5, <2>6 DEF TypeOK
<1>5. Touches(p, c)
  BY <1>0, <1>2 DEF Fork, TypeOK, Touches, Goto, allocVars, pageVars, callVars
<1>6. /\ pc'[p] = "copy"
      /\ tgt'[p] = c
      /\ va'[p] = 0
      /\ end'[p] = end[p]
      /\ newsz'[p] = newsz[p]
      /\ after'[p] = after[p]
      /\ pa'[p] = pa[p]
      /\ npa'[p] = npa[p]
      /\ ret'[p] = ret[p]
      /\ state'[p] = state[p]
      /\ sz'[p] = sz[p]
      /\ frame'[p] = frame[p]
      /\ flags'[p] = flags[p]
      /\ state[c] = "UNUSED"
      /\ state'[c] = "USED"
      /\ pc'[c] = pc[c]
      /\ sz'[c] = sz[c]
      /\ tgt'[c] = tgt[c]
      /\ frame'[c] = frame[c]
      /\ flags'[c] = flags[c]
  BY <1>0, <1>1, <1>2 DEF Fork, TypeOK, Goto, allocVars, pageVars, callVars
<1>7. /\ va[p] \in Int /\ end[p] \in Int /\ newsz[p] \in Int /\ sz[p] \in 0 .. MaxPages
      /\ state[p] = "RUNNABLE"
      /\ ret[p] \in {"return", "copyout", "unmap_clear", "grow_undo"}
      /\ after[p] \in {"return", "set_size", "free_proc"}
      /\ \A v \in VA : flags[p][v] \subseteq {PTE_W, PTE_COW}
      /\ frame[p] \in [VA -> FrameOrNone] /\ frame[c] \in [VA -> FrameOrNone]
      /\ flags[p] \in [VA -> SUBSET {PTE_W, PTE_COW}] /\ flags[c] \in [VA -> SUBSET {PTE_W, PTE_COW}]
      /\ MaxPages \in Nat /\ None \notin Frames
  BY <1>0, <1>1, <1>2, CowMemAssumption DEF TypeOK, Life
<1>8. Life(p)'
  BY <1>1, <1>2, <1>6, <1>7 DEF Fork, Life, Locals, Copying, Unmapping, Growing,
       KfreePcs, CowPcs, GrowPcs, CopyPcs, UnmapPcs
<1>9. Locals(p)'
  BY <1>0, <1>1, <1>2, <1>6, <1>7 DEF Fork, Life, Locals, Own, Child, Idle, Flagged,
       OwnPages, ChildPages, Copying, Unmapping, Growing, Cowing, VA, KfreePcs, CowPcs,
       GrowPcs, CopyPcs, UnmapPcs
<1>10. Own(p)'
  BY <1>1, <1>2, <1>6, <1>7 DEF Fork, Life, Locals, Own, Child, Idle, Flagged, OwnPages,
       ChildPages, Copying, Unmapping, Growing, Cowing, VA, KfreePcs, CowPcs, GrowPcs,
       CopyPcs, UnmapPcs
<1>11. Child(p)'
  <2>1. \A v \in VA : frame[c][v] # None <=> v < sz[c]
    BY <1>2, FreeHands DEF Fork
  <2>2. sz[c] = 0 \/ pc'[p] = "unmap"
    BY <1>0, <1>6, InvFacts DEF Life
  <2>3. sz[c] \in Int
    BY <1>0, CowMemAssumption DEF TypeOK
  <2> QED
    BY <1>6, <2>1, <2>2, <2>3 DEF Child, ChildPages, Copying, Unmapping, VA, KfreePcs,
         CowPcs, GrowPcs, CopyPcs, UnmapPcs
<1>12. Idle(p)'
  BY <1>1, <1>2, <1>6, <1>7 DEF Fork, Idle
<1>13. Flagged(p)'
  BY <1>1, <1>2, <1>6, <1>7 DEF Fork, Flagged
<1>14. Mine(p)'
  BY <1>8, <1>9, <1>10, <1>11, <1>12, <1>13 DEF Mine
<1>15. c # p => Mine(c)'
  <2>1. Mine(c) /\ pc[c] = "dead" /\ tgt[c] = c
    BY <1>2, FreeHands DEF Fork
  <2>2. pc'[c] = "dead" /\ tgt'[c] = c /\ state'[c] = "USED" /\ sz'[c] = 0 /\ tgt'[p] = c
    BY <1>6, <2>1 DEF Mine, Life
  <2>3. Life(c)' /\ Locals(c)' /\ Own(c)' /\ Child(c)' /\ Idle(c)'
    BY <1>2, <2>2 DEF Life, Locals, Own, Child, Idle, Copying, Unmapping, Growing,
         Cowing, KfreePcs, CowPcs, GrowPcs, CopyPcs, UnmapPcs
  <2>4. Flagged(c)'
    BY <1>6, <2>1 DEF Mine, Flagged
  <2> QED
    BY <2>3, <2>4 DEF Mine
<1> QED
  BY <1>3, <1>4, <1>5, <1>14, <1>15, StepKeepsInv

LEMMA ForkDoneKeeps ==
  ASSUME PageTableInv, NEW p \in Proc, ForkDone(p)
  PROVE  PageTableInv'
<1>0. TypeOK
  BY InvFacts
<1>a. PICK c \in Proc : c = tgt[p]
  BY <1>0 DEF TypeOK
<1>1. Life(p) /\ Locals(p) /\ Own(p) /\ Child(p) /\ Flagged(p)
  BY InvFacts
<1>2. pc[p] # "dead" /\ tgt[p] # p /\ tgt[p] \in Proc
  BY <1>0, <1>1, CowMemAssumption DEF ForkDone, TypeOK, FrameOrNone, Life, Locals,
       Copying, Unmapping, Growing, Cowing, VA, KfreePcs, CowPcs, GrowPcs, CopyPcs,
       UnmapPcs, ResetLocals, allocVars, pageVars
<1>3. Alone(p, c)
  BY <1>0, <1>2, <1>a, OneInHand
<1>4. TypeOK'
  <2>1. /\ free' \subseteq Frames
        /\ references' \in [Frames -> Int]
        /\ content' \in [Frames -> Data \cup {Junk}]
    BY <1>0, <1>2, <1>a, CowMemAssumption DEF ForkDone, TypeOK, FrameOrNone,
         ResetLocals, allocVars, pageVars
  <2>2. /\ frame' \in [Proc -> [VA -> FrameOrNone]]
        /\ flags' \in [Proc -> [VA -> SUBSET {PTE_W, PTE_COW}]]
    BY <1>0, <1>2, <1>a, CowMemAssumption DEF ForkDone, TypeOK, FrameOrNone,
         ResetLocals, allocVars, pageVars
  <2>3. /\ state' \in [Proc -> {"UNUSED", "USED", "RUNNABLE", "ZOMBIE"}]
        /\ parent' \in [Proc -> Proc \cup {None}]
        /\ sz' \in [Proc -> 0 .. MaxPages]
    BY <1>0, <1>2, <1>a, CowMemAssumption DEF ForkDone, TypeOK, FrameOrNone,
         ResetLocals, allocVars, pageVars
  <2>4. /\ pc' \in [Proc -> Pcs]
    BY <1>0, <1>2, <1>a, CowMemAssumption DEF ForkDone, TypeOK, FrameOrNone, Pcs,
         KfreePcs, CowPcs, GrowPcs, CopyPcs, UnmapPcs, ResetLocals, allocVars, pageVars
  <2>5. /\ tgt' \in [Proc -> Proc]
        /\ va' \in [Proc -> 0 .. MaxPages]
        /\ end' \in [Proc -> 0 .. MaxPages]
        /\ newsz' \in [Proc -> 0 .. MaxPages]
    BY <1>0, <1>2, <1>a, CowMemAssumption DEF ForkDone, TypeOK, FrameOrNone,
         ResetLocals, allocVars, pageVars
  <2>6. /\ pa' \in [Proc -> FrameOrNone]
        /\ npa' \in [Proc -> FrameOrNone]
        /\ ref' \in [Proc -> Int]
        /\ ret' \in [Proc -> {"return", "copyout", "unmap_clear", "grow_undo"}]
        /\ after' \in [Proc -> {"return", "set_size", "free_proc"}]
    BY <1>0, <1>2, <1>a, CowMemAssumption DEF ForkDone, TypeOK, FrameOrNone,
         ResetLocals, allocVars, pageVars
  <2> QED
    BY <2>1, <2>2, <2>3, <2>4, <2>5, <2>6 DEF TypeOK
<1>5. Touches(p, c)
  BY <1>0, <1>2, <1>a DEF ForkDone, TypeOK, Touches, ResetLocals, allocVars, pageVars
<1>6. /\ pc'[p] = "user"
      /\ tgt'[p] = p
      /\ va'[p] = 0
      /\ end'[p] = 0
      /\ newsz'[p] = 0
      /\ after'[p] = "return"
      /\ pa'[p] = None
      /\ npa'[p] = None
      /\ ret'[p] = "return"
      /\ state'[p] = state[p]
      /\ sz'[p] = sz[p]
      /\ frame'[p] = frame[p]
      /\ flags'[p] = flags[p]
      /\ state'[c] = "RUNNABLE"
      /\ pc'[c] = "user"
      /\ sz'[c] = sz[p]
      /\ tgt'[c] = tgt[c]
      /\ frame'[c] = frame[c]
      /\ flags'[c] = flags[c]
  BY <1>0, <1>1, <1>2, <1>a DEF ForkDone, TypeOK, ResetLocals, allocVars, pageVars
<1>7. /\ va[p] \in Int /\ end[p] \in Int /\ newsz[p] \in Int /\ sz[p] \in 0 .. MaxPages
      /\ state[p] = "RUNNABLE"
      /\ ret[p] \in {"return", "copyout", "unmap_clear", "grow_undo"}
      /\ after[p] \in {"return", "set_size", "free_proc"}
      /\ \A v \in VA : flags[p][v] \subseteq {PTE_W, PTE_COW}
      /\ frame[p] \in [VA -> FrameOrNone] /\ frame[c] \in [VA -> FrameOrNone]
      /\ flags[p] \in [VA -> SUBSET {PTE_W, PTE_COW}] /\ flags[c] \in [VA -> SUBSET {PTE_W, PTE_COW}]
      /\ MaxPages \in Nat /\ None \notin Frames
  BY <1>0, <1>1, <1>2, CowMemAssumption DEF TypeOK, Life
<1>8. Life(p)'
  BY <1>1, <1>2, <1>a, <1>6, <1>7 DEF ForkDone, Life, Locals, Copying, Unmapping,
       Growing, KfreePcs, CowPcs, GrowPcs, CopyPcs, UnmapPcs
<1>9. Locals(p)'
  BY <1>0, <1>1, <1>2, <1>a, <1>6, <1>7 DEF ForkDone, Life, Locals, Own, Child, Idle,
       Flagged, OwnPages, ChildPages, Copying, Unmapping, Growing, Cowing, VA, KfreePcs,
       CowPcs, GrowPcs, CopyPcs, UnmapPcs
<1>10. Own(p)'
  BY <1>1, <1>2, <1>a, <1>6, <1>7 DEF ForkDone, Life, Locals, Own, Child, Idle, Flagged,
       OwnPages, ChildPages, Copying, Unmapping, Growing, Cowing, VA, KfreePcs, CowPcs,
       GrowPcs, CopyPcs, UnmapPcs
<1>11. Child(p)'
  BY <1>1, <1>2, <1>a, <1>6, <1>7 DEF ForkDone, Life, Locals, Own, Child, Idle, Flagged,
       OwnPages, ChildPages, Copying, Unmapping, Growing, Cowing, VA, KfreePcs, CowPcs,
       GrowPcs, CopyPcs, UnmapPcs
<1>12. Idle(p)'
  BY <1>1, <1>2, <1>a, <1>6, <1>7 DEF ForkDone, Idle
<1>13. Flagged(p)'
  BY <1>1, <1>2, <1>a, <1>6, <1>7 DEF ForkDone, Flagged
<1>14. Mine(p)'
  BY <1>8, <1>9, <1>10, <1>11, <1>12, <1>13 DEF Mine
<1>15. c # p => Mine(c)'
  <2>1. Mine(c) /\ pc[c] = "dead"
    BY <1>2, <1>3, <1>a, InvParts DEF Alone
  <2>2. tgt[c] = c
    BY <2>1 DEF Mine, Life, Copying, Unmapping, KfreePcs, CowPcs, GrowPcs, CopyPcs,
         UnmapPcs
  <2>3. \A v \in VA : frame[c][v] # None <=> v < sz[p]
    <3>1. va[p] = sz[p] /\ Copying(p) /\ pc[p] = "copy"
      BY <1>1, <1>7 DEF ForkDone, Locals, Copying, CopyPcs
    <3> QED
      BY <1>1, <1>2, <1>a, <1>7, <3>1 DEF Child, ChildPages, VA
  <2>4. Life(c)' /\ Locals(c)' /\ Child(c)' /\ Idle(c)'
    BY <1>6, <2>1, <2>2 DEF Life, Locals, Own, Child, Idle, Copying, Unmapping, Growing,
         Cowing, KfreePcs, CowPcs, GrowPcs, CopyPcs, UnmapPcs
  <2>5. Own(c)'
    BY <1>6, <2>3 DEF Own, OwnPages, Copying, Unmapping, Growing, KfreePcs, CowPcs,
         GrowPcs, CopyPcs, UnmapPcs
  <2>6. Flagged(c)'
    BY <1>6, <2>1 DEF Mine, Flagged
  <2> QED
    BY <2>4, <2>5, <2>6 DEF Mine
<1> QED
  BY <1>3, <1>4, <1>5, <1>14, <1>15, StepKeepsInv

LEMMA ExitKeeps ==
  ASSUME PageTableInv, NEW p \in Proc, Exit(p)
  PROVE  PageTableInv'
<1>0. TypeOK
  BY InvFacts
<1>a. PICK c \in Proc : c = p
  BY <1>0 DEF TypeOK
<1>1. Life(p) /\ Locals(p) /\ Own(p) /\ Child(p) /\ Flagged(p)
  BY InvFacts
<1>2. pc[p] # "dead" /\ tgt[p] = p
  BY <1>0, <1>1, CowMemAssumption DEF Exit, TypeOK, FrameOrNone, Life, Locals, Copying,
       Unmapping, Growing, Cowing, VA, KfreePcs, CowPcs, GrowPcs, CopyPcs, UnmapPcs,
       Goto, ResetLocals, allocVars, pageVars
<1>3. Alone(p, c)
  BY <1>0, <1>2, <1>a, OneInHand
<1>4. TypeOK'
  <2>1. /\ free' \subseteq Frames
        /\ references' \in [Frames -> Int]
        /\ content' \in [Frames -> Data \cup {Junk}]
    BY <1>0, <1>2, <1>a, CowMemAssumption DEF Exit, TypeOK, FrameOrNone, Goto,
         ResetLocals, allocVars, pageVars
  <2>2. /\ frame' \in [Proc -> [VA -> FrameOrNone]]
        /\ flags' \in [Proc -> [VA -> SUBSET {PTE_W, PTE_COW}]]
    BY <1>0, <1>2, <1>a, CowMemAssumption DEF Exit, TypeOK, FrameOrNone, Goto,
         ResetLocals, allocVars, pageVars
  <2>3. /\ state' \in [Proc -> {"UNUSED", "USED", "RUNNABLE", "ZOMBIE"}]
        /\ parent' \in [Proc -> Proc \cup {None}]
        /\ sz' \in [Proc -> 0 .. MaxPages]
    BY <1>0, <1>2, <1>a, CowMemAssumption DEF Exit, TypeOK, FrameOrNone, Goto,
         ResetLocals, allocVars, pageVars
  <2>4. /\ pc' \in [Proc -> Pcs]
    BY <1>0, <1>2, <1>a, CowMemAssumption DEF Exit, TypeOK, FrameOrNone, Pcs, KfreePcs,
         CowPcs, GrowPcs, CopyPcs, UnmapPcs, Goto, ResetLocals, allocVars, pageVars
  <2>5. /\ tgt' \in [Proc -> Proc]
        /\ va' \in [Proc -> 0 .. MaxPages]
        /\ end' \in [Proc -> 0 .. MaxPages]
        /\ newsz' \in [Proc -> 0 .. MaxPages]
    BY <1>0, <1>2, <1>a, CowMemAssumption DEF Exit, TypeOK, FrameOrNone, Goto,
         ResetLocals, allocVars, pageVars
  <2>6. /\ pa' \in [Proc -> FrameOrNone]
        /\ npa' \in [Proc -> FrameOrNone]
        /\ ref' \in [Proc -> Int]
        /\ ret' \in [Proc -> {"return", "copyout", "unmap_clear", "grow_undo"}]
        /\ after' \in [Proc -> {"return", "set_size", "free_proc"}]
    BY <1>0, <1>2, <1>a, CowMemAssumption DEF Exit, TypeOK, FrameOrNone, Goto,
         ResetLocals, allocVars, pageVars
  <2> QED
    BY <2>1, <2>2, <2>3, <2>4, <2>5, <2>6 DEF TypeOK
<1>5. Touches(p, c)
  BY <1>0, <1>2, <1>a DEF Exit, TypeOK, Touches, Goto, ResetLocals, allocVars, pageVars
<1>6. /\ pc'[p] = "dead"
      /\ tgt'[p] = p
      /\ va'[p] = 0
      /\ end'[p] = 0
      /\ newsz'[p] = 0
      /\ after'[p] = "return"
      /\ pa'[p] = None
      /\ npa'[p] = None
      /\ ret'[p] = "return"
      /\ state'[p] = "ZOMBIE"
      /\ sz'[p] = sz[p]
      /\ frame'[p] = frame[p]
      /\ flags'[p] = flags[p]
  BY <1>0, <1>1, <1>2, <1>a DEF Exit, TypeOK, Goto, ResetLocals, allocVars, pageVars
<1>7. /\ va[p] \in Int /\ end[p] \in Int /\ newsz[p] \in Int /\ sz[p] \in 0 .. MaxPages
      /\ state[p] = "RUNNABLE"
      /\ ret[p] \in {"return", "copyout", "unmap_clear", "grow_undo"}
      /\ after[p] \in {"return", "set_size", "free_proc"}
      /\ \A v \in VA : flags[p][v] \subseteq {PTE_W, PTE_COW}
      /\ frame[p] \in [VA -> FrameOrNone]
      /\ flags[p] \in [VA -> SUBSET {PTE_W, PTE_COW}]
      /\ MaxPages \in Nat /\ None \notin Frames
  BY <1>0, <1>1, <1>2, CowMemAssumption DEF TypeOK, Life
<1>8. Life(p)'
  BY <1>1, <1>2, <1>a, <1>6, <1>7 DEF Exit, Life, Locals, Copying, Unmapping, Growing,
       KfreePcs, CowPcs, GrowPcs, CopyPcs, UnmapPcs
<1>9. Locals(p)'
  BY <1>0, <1>1, <1>2, <1>a, <1>6, <1>7 DEF Exit, Life, Locals, Own, Child, Idle,
       Flagged, OwnPages, ChildPages, Copying, Unmapping, Growing, Cowing, VA, KfreePcs,
       CowPcs, GrowPcs, CopyPcs, UnmapPcs
<1>10. Own(p)'
  BY <1>1, <1>2, <1>a, <1>6, <1>7 DEF Exit, Life, Locals, Own, Child, Idle, Flagged,
       OwnPages, ChildPages, Copying, Unmapping, Growing, Cowing, VA, KfreePcs, CowPcs,
       GrowPcs, CopyPcs, UnmapPcs
<1>11. Child(p)'
  BY <1>1, <1>2, <1>a, <1>6, <1>7 DEF Exit, Life, Locals, Own, Child, Idle, Flagged,
       OwnPages, ChildPages, Copying, Unmapping, Growing, Cowing, VA, KfreePcs, CowPcs,
       GrowPcs, CopyPcs, UnmapPcs
<1>12. Idle(p)'
  <2>1. \A v \in VA : frame[p][v] # None <=> v < sz[p]
    BY <1>1, <1>7 DEF Exit, Own, OwnPages, Unmapping, Growing, KfreePcs, CowPcs,
         GrowPcs, CopyPcs, UnmapPcs
  <2> QED
    BY <1>6, <2>1, <1>a DEF Idle
<1>13. Flagged(p)'
  BY <1>1, <1>2, <1>a, <1>6, <1>7 DEF Exit, Flagged
<1>14. Mine(p)'
  BY <1>8, <1>9, <1>10, <1>11, <1>12, <1>13 DEF Mine
<1> QED
  BY <1>3, <1>4, <1>5, <1>14, <1>a, StepKeepsInv

LEMMA WaitKeeps ==
  ASSUME PageTableInv, NEW p \in Proc, NEW c \in Proc, Wait(p, c)
  PROVE  PageTableInv'
<1>0. TypeOK
  BY InvFacts
<1>1. Life(p) /\ Locals(p) /\ Own(p) /\ Child(p) /\ Flagged(p)
  BY InvFacts
<1>2. pc[p] # "dead" /\ c # p /\ tgt[p] = p
  BY <1>0, <1>1, CowMemAssumption DEF Wait, TypeOK, FrameOrNone, Life, Locals, Copying,
       Unmapping, Growing, Cowing, VA, KfreePcs, CowPcs, GrowPcs, CopyPcs, UnmapPcs,
       Goto, CallUnmap, allocVars, pageVars, procVars, callVars
<1>3. Alone(p, c)
  BY <1>2, FreeHands DEF Wait
<1>4. TypeOK'
  <2>1. /\ free' \subseteq Frames
        /\ references' \in [Frames -> Int]
        /\ content' \in [Frames -> Data \cup {Junk}]
    BY <1>0, <1>2, CowMemAssumption DEF Wait, TypeOK, FrameOrNone, Goto, CallUnmap,
         allocVars, pageVars, procVars, callVars
  <2>2. /\ frame' \in [Proc -> [VA -> FrameOrNone]]
        /\ flags' \in [Proc -> [VA -> SUBSET {PTE_W, PTE_COW}]]
    BY <1>0, <1>2, CowMemAssumption DEF Wait, TypeOK, FrameOrNone, Goto, CallUnmap,
         allocVars, pageVars, procVars, callVars
  <2>3. /\ state' \in [Proc -> {"UNUSED", "USED", "RUNNABLE", "ZOMBIE"}]
        /\ parent' \in [Proc -> Proc \cup {None}]
        /\ sz' \in [Proc -> 0 .. MaxPages]
    BY <1>0, <1>2, CowMemAssumption DEF Wait, TypeOK, FrameOrNone, Goto, CallUnmap,
         allocVars, pageVars, procVars, callVars
  <2>4. /\ pc' \in [Proc -> Pcs]
    BY <1>0, <1>2, CowMemAssumption DEF Wait, TypeOK, FrameOrNone, Pcs, KfreePcs,
         CowPcs, GrowPcs, CopyPcs, UnmapPcs, Goto, CallUnmap, allocVars, pageVars,
         procVars, callVars
  <2>5. /\ tgt' \in [Proc -> Proc]
        /\ va' \in [Proc -> 0 .. MaxPages]
        /\ end' \in [Proc -> 0 .. MaxPages]
        /\ newsz' \in [Proc -> 0 .. MaxPages]
    BY <1>0, <1>2, CowMemAssumption DEF Wait, TypeOK, FrameOrNone, Goto, CallUnmap,
         allocVars, pageVars, procVars, callVars
  <2>6. /\ pa' \in [Proc -> FrameOrNone]
        /\ npa' \in [Proc -> FrameOrNone]
        /\ ref' \in [Proc -> Int]
        /\ ret' \in [Proc -> {"return", "copyout", "unmap_clear", "grow_undo"}]
        /\ after' \in [Proc -> {"return", "set_size", "free_proc"}]
    BY <1>0, <1>2, CowMemAssumption DEF Wait, TypeOK, FrameOrNone, Goto, CallUnmap,
         allocVars, pageVars, procVars, callVars
  <2> QED
    BY <2>1, <2>2, <2>3, <2>4, <2>5, <2>6 DEF TypeOK
<1>5. Touches(p, c)
  BY <1>0, <1>2 DEF Wait, TypeOK, Touches, Goto, CallUnmap, allocVars, pageVars,
       procVars, callVars
<1>6. /\ pc'[p] = "unmap"
      /\ tgt'[p] = c
      /\ va'[p] = 0
      /\ end'[p] = sz[c]
      /\ after'[p] = "free_proc"
      /\ newsz'[p] = newsz[p]
      /\ pa'[p] = pa[p]
      /\ npa'[p] = npa[p]
      /\ ret'[p] = ret[p]
      /\ state'[p] = state[p]
      /\ sz'[p] = sz[p]
      /\ frame'[p] = frame[p]
      /\ flags'[p] = flags[p]
      /\ state[c] = "ZOMBIE"
      /\ parent[c] = p
      /\ parent'[c] = p
      /\ state'[c] = "ZOMBIE"
      /\ pc'[c] = pc[c]
      /\ sz'[c] = sz[c]
      /\ tgt'[c] = tgt[c]
      /\ frame'[c] = frame[c]
      /\ flags'[c] = flags[c]
  BY <1>0, <1>1, <1>2 DEF Wait, TypeOK, Goto, CallUnmap, allocVars, pageVars, procVars,
       callVars
<1>7. /\ va[p] \in Int /\ end[p] \in Int /\ newsz[p] \in Int /\ sz[p] \in 0 .. MaxPages
      /\ state[p] = "RUNNABLE"
      /\ ret[p] \in {"return", "copyout", "unmap_clear", "grow_undo"}
      /\ after[p] \in {"return", "set_size", "free_proc"}
      /\ \A v \in VA : flags[p][v] \subseteq {PTE_W, PTE_COW}
      /\ frame[p] \in [VA -> FrameOrNone] /\ frame[c] \in [VA -> FrameOrNone]
      /\ flags[p] \in [VA -> SUBSET {PTE_W, PTE_COW}] /\ flags[c] \in [VA -> SUBSET {PTE_W, PTE_COW}]
      /\ MaxPages \in Nat /\ None \notin Frames
  BY <1>0, <1>1, <1>2, CowMemAssumption DEF TypeOK, Life
<1>8. Life(p)'
  BY <1>1, <1>2, <1>6, <1>7 DEF Wait, Life, Locals, Copying, Unmapping, Growing,
       KfreePcs, CowPcs, GrowPcs, CopyPcs, UnmapPcs
<1>9. Locals(p)'
  BY <1>0, <1>1, <1>2, <1>6, <1>7 DEF Wait, Life, Locals, Own, Child, Idle, Flagged,
       OwnPages, ChildPages, Copying, Unmapping, Growing, Cowing, VA, KfreePcs, CowPcs,
       GrowPcs, CopyPcs, UnmapPcs
<1>10. Own(p)'
  BY <1>1, <1>2, <1>6, <1>7 DEF Wait, Life, Locals, Own, Child, Idle, Flagged, OwnPages,
       ChildPages, Copying, Unmapping, Growing, Cowing, VA, KfreePcs, CowPcs, GrowPcs,
       CopyPcs, UnmapPcs
<1>11. Child(p)'
  <2>1. \A v \in VA : frame[c][v] # None <=> v < sz[c]
    BY <1>2, FreeHands DEF Wait
  <2>2. sz[c] = 0 \/ pc'[p] = "unmap"
    BY <1>0, <1>6, InvFacts DEF Life
  <2>3. sz[c] \in Int
    BY <1>0, CowMemAssumption DEF TypeOK
  <2> QED
    BY <1>6, <2>1, <2>2, <2>3 DEF Child, ChildPages, Copying, Unmapping, VA, KfreePcs,
         CowPcs, GrowPcs, CopyPcs, UnmapPcs
<1>12. Idle(p)'
  BY <1>1, <1>2, <1>6, <1>7 DEF Wait, Idle
<1>13. Flagged(p)'
  BY <1>1, <1>2, <1>6, <1>7 DEF Wait, Flagged
<1>14. Mine(p)'
  BY <1>8, <1>9, <1>10, <1>11, <1>12, <1>13 DEF Mine
<1>15. c # p => Mine(c)'
  <2>1. Mine(c) /\ pc[c] = "dead"
    BY <1>2, FreeHands DEF Wait
  <2>2. Flagged(c)'
    BY <1>6, <2>1 DEF Mine, Flagged
  <2> QED
    BY <1>0, <1>2, <1>4, <1>5, <1>6, <2>1, <2>2, InHandKeeps
<1> QED
  BY <1>3, <1>4, <1>5, <1>14, <1>15, StepKeepsInv

LEMMA FreeProcKeeps ==
  ASSUME PageTableInv, NEW p \in Proc, FreeProc(p)
  PROVE  PageTableInv'
<1>0. TypeOK
  BY InvFacts
<1>a. PICK c \in Proc : c = tgt[p]
  BY <1>0 DEF TypeOK
<1>1. Life(p) /\ Locals(p) /\ Own(p) /\ Child(p) /\ Flagged(p)
  BY InvFacts
<1>2. pc[p] # "dead" /\ tgt[p] # p /\ tgt[p] \in Proc
  BY <1>0, <1>1, CowMemAssumption DEF FreeProc, TypeOK, FrameOrNone, Life, Locals,
       Copying, Unmapping, Growing, Cowing, VA, KfreePcs, CowPcs, GrowPcs, CopyPcs,
       UnmapPcs, Goto, ResetLocals, allocVars, pageVars
<1>3. Alone(p, c)
  BY <1>0, <1>2, <1>a, OneInHand
<1>4. TypeOK'
  <2>1. /\ free' \subseteq Frames
        /\ references' \in [Frames -> Int]
        /\ content' \in [Frames -> Data \cup {Junk}]
    BY <1>0, <1>2, <1>a, CowMemAssumption DEF FreeProc, TypeOK, FrameOrNone, Goto,
         ResetLocals, allocVars, pageVars
  <2>2. /\ frame' \in [Proc -> [VA -> FrameOrNone]]
        /\ flags' \in [Proc -> [VA -> SUBSET {PTE_W, PTE_COW}]]
    BY <1>0, <1>2, <1>a, CowMemAssumption DEF FreeProc, TypeOK, FrameOrNone, Goto,
         ResetLocals, allocVars, pageVars
  <2>3. /\ state' \in [Proc -> {"UNUSED", "USED", "RUNNABLE", "ZOMBIE"}]
        /\ parent' \in [Proc -> Proc \cup {None}]
        /\ sz' \in [Proc -> 0 .. MaxPages]
    BY <1>0, <1>2, <1>a, CowMemAssumption DEF FreeProc, TypeOK, FrameOrNone, Goto,
         ResetLocals, allocVars, pageVars
  <2>4. /\ pc' \in [Proc -> Pcs]
    BY <1>0, <1>2, <1>a, CowMemAssumption DEF FreeProc, TypeOK, FrameOrNone, Pcs,
         KfreePcs, CowPcs, GrowPcs, CopyPcs, UnmapPcs, Goto, ResetLocals, allocVars,
         pageVars
  <2>5. /\ tgt' \in [Proc -> Proc]
        /\ va' \in [Proc -> 0 .. MaxPages]
        /\ end' \in [Proc -> 0 .. MaxPages]
        /\ newsz' \in [Proc -> 0 .. MaxPages]
    BY <1>0, <1>2, <1>a, CowMemAssumption DEF FreeProc, TypeOK, FrameOrNone, Goto,
         ResetLocals, allocVars, pageVars
  <2>6. /\ pa' \in [Proc -> FrameOrNone]
        /\ npa' \in [Proc -> FrameOrNone]
        /\ ref' \in [Proc -> Int]
        /\ ret' \in [Proc -> {"return", "copyout", "unmap_clear", "grow_undo"}]
        /\ after' \in [Proc -> {"return", "set_size", "free_proc"}]
    BY <1>0, <1>2, <1>a, CowMemAssumption DEF FreeProc, TypeOK, FrameOrNone, Goto,
         ResetLocals, allocVars, pageVars
  <2> QED
    BY <2>1, <2>2, <2>3, <2>4, <2>5, <2>6 DEF TypeOK
<1>5. Touches(p, c)
  BY <1>0, <1>2, <1>a DEF FreeProc, TypeOK, Touches, Goto, ResetLocals, allocVars,
       pageVars
<1>6. /\ pc'[p] = "user"
      /\ tgt'[p] = p
      /\ va'[p] = 0
      /\ end'[p] = 0
      /\ newsz'[p] = 0
      /\ after'[p] = "return"
      /\ pa'[p] = None
      /\ npa'[p] = None
      /\ ret'[p] = "return"
      /\ state'[p] = state[p]
      /\ sz'[p] = sz[p]
      /\ frame'[p] = frame[p]
      /\ flags'[p] = flags[p]
      /\ state'[c] = "UNUSED"
      /\ pc'[c] = pc[c]
      /\ sz'[c] = 0
      /\ tgt'[c] = tgt[c]
      /\ frame'[c] = frame[c]
      /\ flags'[c] = flags[c]
  BY <1>0, <1>1, <1>2, <1>a DEF FreeProc, TypeOK, Goto, ResetLocals, allocVars, pageVars
<1>7. /\ va[p] \in Int /\ end[p] \in Int /\ newsz[p] \in Int /\ sz[p] \in 0 .. MaxPages
      /\ state[p] = "RUNNABLE"
      /\ ret[p] \in {"return", "copyout", "unmap_clear", "grow_undo"}
      /\ after[p] \in {"return", "set_size", "free_proc"}
      /\ \A v \in VA : flags[p][v] \subseteq {PTE_W, PTE_COW}
      /\ frame[p] \in [VA -> FrameOrNone] /\ frame[c] \in [VA -> FrameOrNone]
      /\ flags[p] \in [VA -> SUBSET {PTE_W, PTE_COW}] /\ flags[c] \in [VA -> SUBSET {PTE_W, PTE_COW}]
      /\ MaxPages \in Nat /\ None \notin Frames
  BY <1>0, <1>1, <1>2, CowMemAssumption DEF TypeOK, Life
<1>8. Life(p)'
  BY <1>1, <1>2, <1>a, <1>6, <1>7 DEF FreeProc, Life, Locals, Copying, Unmapping,
       Growing, KfreePcs, CowPcs, GrowPcs, CopyPcs, UnmapPcs
<1>9. Locals(p)'
  BY <1>0, <1>1, <1>2, <1>a, <1>6, <1>7 DEF FreeProc, Life, Locals, Own, Child, Idle,
       Flagged, OwnPages, ChildPages, Copying, Unmapping, Growing, Cowing, VA, KfreePcs,
       CowPcs, GrowPcs, CopyPcs, UnmapPcs
<1>10. Own(p)'
  BY <1>1, <1>2, <1>a, <1>6, <1>7 DEF FreeProc, Life, Locals, Own, Child, Idle, Flagged,
       OwnPages, ChildPages, Copying, Unmapping, Growing, Cowing, VA, KfreePcs, CowPcs,
       GrowPcs, CopyPcs, UnmapPcs
<1>11. Child(p)'
  BY <1>1, <1>2, <1>a, <1>6, <1>7 DEF FreeProc, Life, Locals, Own, Child, Idle, Flagged,
       OwnPages, ChildPages, Copying, Unmapping, Growing, Cowing, VA, KfreePcs, CowPcs,
       GrowPcs, CopyPcs, UnmapPcs
<1>12. Idle(p)'
  BY <1>1, <1>2, <1>a, <1>6, <1>7 DEF FreeProc, Idle
<1>13. Flagged(p)'
  BY <1>1, <1>2, <1>a, <1>6, <1>7 DEF FreeProc, Flagged
<1>14. Mine(p)'
  BY <1>8, <1>9, <1>10, <1>11, <1>12, <1>13 DEF Mine
<1>15. c # p => Mine(c)'
  <2>1. Mine(c) /\ pc[c] = "dead"
    BY <1>2, <1>3, <1>a, InvParts DEF Alone
  <2>2. tgt[c] = c
    BY <2>1 DEF Mine, Life, Copying, Unmapping, KfreePcs, CowPcs, GrowPcs, CopyPcs,
         UnmapPcs
  <2>3. \A v \in VA : frame[c][v] = None
    BY <1>1, <1>2, <1>a DEF FreeProc, Child, ChildPages, Copying, Unmapping, KfreePcs,
         CowPcs, GrowPcs, CopyPcs, UnmapPcs
  <2>4. Life(c)' /\ Locals(c)' /\ Own(c)' /\ Child(c)'
    BY <1>6, <2>1, <2>2 DEF Life, Locals, Own, Child, Idle, Copying, Unmapping, Growing,
         Cowing, KfreePcs, CowPcs, GrowPcs, CopyPcs, UnmapPcs
  <2>5. Flagged(c)' /\ Idle(c)'
    BY <1>6, <2>3 DEF Flagged, Idle, VA
  <2> QED
    BY <2>4, <2>5 DEF Mine
<1> QED
  BY <1>3, <1>4, <1>5, <1>14, <1>15, StepKeepsInv

LEMMA InitInv == Init => PageTableInv
<1> SUFFICES ASSUME Init PROVE PageTableInv
  OBVIOUS
<1> PICK f \in Frames :
      /\ free = Frames \ {f}
      /\ references = [g \in Frames |-> IF g = f THEN 1 ELSE 0]
      /\ content = [g \in Frames |-> IF g = f THEN Zero ELSE Junk]
      /\ frame = [p \in Proc |-> [v \in VA |-> IF p = initproc /\ v = 0 THEN f ELSE None]]
      /\ flags = [p \in Proc |-> [v \in VA |-> IF p = initproc /\ v = 0 THEN {PTE_W} ELSE {}]]
      /\ state = [p \in Proc |-> IF p = initproc THEN "RUNNABLE" ELSE "UNUSED"]
      /\ parent = [p \in Proc |-> None]
      /\ sz = [p \in Proc |-> IF p = initproc THEN 1 ELSE 0]
      /\ pc = [p \in Proc |-> IF p = initproc THEN "user" ELSE "dead"]
      /\ tgt = [p \in Proc |-> p]
      /\ va = [p \in Proc |-> 0]
      /\ end = [p \in Proc |-> 0]
      /\ newsz = [p \in Proc |-> 0]
      /\ pa = [p \in Proc |-> None]
      /\ npa = [p \in Proc |-> None]
      /\ ref = [p \in Proc |-> 0]
      /\ ret = [p \in Proc |-> "return"]
      /\ after = [p \in Proc |-> "return"]
  BY DEF Init
<1>1. MaxPages \in Nat \ {0} /\ 0 \in VA /\ 0 \in 0 .. MaxPages /\ 1 \in 0 .. MaxPages
      /\ None \notin Frames
  BY CowMemAssumption DEF VA
<1>2. TypeOK
  <2>1. free \subseteq Frames /\ references \in [Frames -> Int]
        /\ content \in [Frames -> Data \cup {Junk}]
    BY CowMemAssumption
  <2>2. /\ frame \in [Proc -> [VA -> FrameOrNone]]
        /\ flags \in [Proc -> [VA -> SUBSET {PTE_W, PTE_COW}]]
    BY DEF FrameOrNone
  <2>3. /\ state \in [Proc -> {"UNUSED", "USED", "RUNNABLE", "ZOMBIE"}]
        /\ parent \in [Proc -> Proc \cup {None}] /\ sz \in [Proc -> 0 .. MaxPages]
    BY <1>1
  <2>4. pc \in [Proc -> Pcs]
    BY DEF Pcs
  <2>5. /\ tgt \in [Proc -> Proc] /\ va \in [Proc -> 0 .. MaxPages]
        /\ end \in [Proc -> 0 .. MaxPages] /\ newsz \in [Proc -> 0 .. MaxPages]
    BY <1>1
  <2>6. /\ pa \in [Proc -> FrameOrNone] /\ npa \in [Proc -> FrameOrNone] /\ ref \in [Proc -> Int]
        /\ ret \in [Proc -> {"return", "copyout", "unmap_clear", "grow_undo"}]
        /\ after \in [Proc -> {"return", "set_size", "free_proc"}]
    BY DEF FrameOrNone
  <2> QED
    BY <2>1, <2>2, <2>3, <2>4, <2>5, <2>6 DEF TypeOK
<1>3. ASSUME NEW p \in Proc PROVE Mine(p)
  <2>1. /\ pc[p] = IF p = initproc THEN "user" ELSE "dead"
        /\ state[p] = IF p = initproc THEN "RUNNABLE" ELSE "UNUSED"
        /\ sz[p] = IF p = initproc THEN 1 ELSE 0
        /\ tgt[p] = p
    OBVIOUS
  <2>2. \A v \in VA : frame[p][v] # None <=> v < sz[p]
    BY <1>1 DEF VA
  <2>3. Life(p) /\ Locals(p)
    BY <2>1 DEF Life, Locals, Copying, Unmapping, Growing, Cowing,
       KfreePcs, CowPcs, GrowPcs, CopyPcs, UnmapPcs
  <2>4. Own(p) /\ Child(p) /\ Idle(p)
    BY <2>1, <2>2 DEF Own, OwnPages, Child, Idle, Unmapping, Growing, KfreePcs, GrowPcs,
         UnmapPcs
  <2>5. Flagged(p)
    BY <1>1 DEF Flagged
  <2> QED
    BY <2>3, <2>4, <2>5 DEF Mine
<1>4. \A p, q \in Proc : Apart(p, q)
  BY DEF Apart
<1> QED
  BY <1>2, <1>3, <1>4, InvParts

LEMMA StutterKeepsInv ==
  ASSUME PageTableInv, UNCHANGED vars
  PROVE  PageTableInv'
BY DEF vars, allocVars, pageVars, procVars, loopVars, callVars, PageTableInv, TypeOK,
   Lifecycle, LocalsOK, PagesPresent, OwnPages, ChildPages, Copying, Unmapping, Growing, Cowing

LEMMA GrowMapKeeps ==
  ASSUME PageTableInv, NEW p \in Proc, GrowMap(p)
  PROVE  PageTableInv'
<1>1. CASE pc'[p] = "grow_alloc"
  BY <1>1, GrowMapMaps
<1>2. CASE pc'[p] # "grow_alloc"
  <2>1. TypeOK
    BY InvFacts
  <2>2. GrowMapFails(p)
    BY <1>2, <2>1 DEF GrowMap, GrowMapFails, Goto, TypeOK, loopVars
  <2> QED
    BY <2>2, GrowMapFailsKeeps
<1> QED
  BY <1>1, <1>2

LEMMA CopyPageKeepsInv ==
  ASSUME PageTableInv, NEW p \in Proc, CopyPage(p)
  PROVE  PageTableInv'
BY CopyPageMaps, CopyPageFails

LEMMA NextKeepsInv == PageTableInv /\ [Next]_vars => PageTableInv'
<1> SUFFICES ASSUME PageTableInv, [Next]_vars PROVE PageTableInv'
  OBVIOUS
<1>1. CASE UNCHANGED vars
  BY <1>1, StutterKeepsInv
<1>2. CASE Next
  <2> PICK p \in Proc :
        \/ UserTrapRet(p)
        \/ KfRead(p) \/ KfCas(p) \/ KfZero(p) \/ KfPush(p)
        \/ \E v \in VA : PageFault(p, v) \/ Copyout(p, v)
        \/ \E v \in VA, d \in Data : Store(p, v, d)
        \/ \E d \in Data : CopyoutWrite(p, d)
        \/ CowAlloc(p) \/ CowCopy(p) \/ CowInstall(p) \/ CowFree(p)
        \/ Unmap(p) \/ UnmapClear(p)
        \/ \E n \in 0 .. MaxPages : SbrkGrow(p, n) \/ SbrkShrink(p, n)
        \/ GrowAlloc(p) \/ GrowMap(p) \/ GrowUndo(p) \/ SetSize(p)
        \/ \E c \in Proc : Fork(p, c) \/ Wait(p, c)
        \/ CopyPage(p) \/ RefRead(p) \/ RefCas(p) \/ ForkDone(p)
        \/ Exit(p) \/ FreeProc(p)
    BY <1>2 DEF Next
  <2>1. CASE UserTrapRet(p) \/ KfRead(p) \/ KfCas(p) \/ KfZero(p) \/ KfPush(p)
    BY <2>1, UserTrapRetKeeps, KfReadKeeps, KfCasKeeps, KfZeroKeeps, KfPushKeeps
  <2>2. CASE \E v \in VA : PageFault(p, v) \/ Copyout(p, v)
    BY <2>2, PageFaultKeeps, CopyoutKeeps
  <2>3. CASE \/ \E v \in VA, d \in Data : Store(p, v, d)
             \/ \E d \in Data : CopyoutWrite(p, d)
    BY <2>3, StoreKeeps, CopyoutWriteKeeps
  <2>4. CASE CowAlloc(p) \/ CowCopy(p) \/ CowInstall(p) \/ CowFree(p)
    BY <2>4, CowAllocKeeps, CowCopyKeeps, CowInstallKeeps, CowFreeKeeps
  <2>5. CASE Unmap(p) \/ UnmapClear(p)
    BY <2>5, UnmapKeeps, UnmapClearKeeps
  <2>6. CASE \E n \in 0 .. MaxPages : SbrkGrow(p, n) \/ SbrkShrink(p, n)
    BY <2>6, SbrkGrowKeeps, SbrkShrinkKeeps
  <2>7. CASE GrowAlloc(p) \/ GrowMap(p) \/ GrowUndo(p) \/ SetSize(p)
    BY <2>7, GrowAllocKeeps, GrowMapKeeps, GrowUndoKeeps, SetSizeKeeps
  <2>8. CASE \E c \in Proc : Fork(p, c) \/ Wait(p, c)
    BY <2>8, ForkKeeps, WaitKeeps
  <2>9. CASE CopyPage(p) \/ RefRead(p) \/ RefCas(p) \/ ForkDone(p)
    BY <2>9, CopyPageKeepsInv, RefReadKeeps, RefCasKeeps, ForkDoneKeeps
  <2>10. CASE Exit(p) \/ FreeProc(p)
    BY <2>10, ExitKeeps, FreeProcKeeps
  <2> QED
    BY <2>1, <2>2, <2>3, <2>4, <2>5, <2>6, <2>7, <2>8, <2>9, <2>10
<1> QED
  BY <1>1, <1>2

\* At every step of fork, sbrk, exit, wait and the page faults the entries
\* present in each page table are those the code that works on it expects.
THEOREM Invariance == Spec => []PageTableInv
<1> QED
  BY InitInv, NextKeepsInv, PTL DEF Spec

\* uvmunmap never meets a page that is not mapped, uvmcopy none that is not
\* present, and copyout writes through a mapped, writable entry.
THEOREM NoPanicReached == Spec => []NoPanic
<1>1. PageTableInv => NoPanic
  <2> SUFFICES ASSUME PageTableInv, NEW p \in Proc
               PROVE  /\ pc[p] = "unmap" /\ va[p] < end[p] => frame[tgt[p]][va[p]] # None
                      /\ pc[p] = "copy" /\ va[p] < sz[p] => frame[p][va[p]] # None
                      /\ pc[p] = "copyout" => /\ frame[p][va[p]] # None
                                              /\ PTE_W \in flags[p][va[p]]
    BY DEF NoPanic
  <2>0. TypeOK /\ Life(p) /\ Locals(p) /\ Own(p) /\ Child(p)
    BY InvFacts
  <2>1. /\ va[p] \in 0 .. MaxPages /\ end[p] \in 0 .. MaxPages /\ sz[p] \in 0 .. MaxPages
        /\ MaxPages \in Nat /\ after[p] \in {"return", "set_size", "free_proc"}
    BY <2>0, CowMemAssumption DEF TypeOK
  <2>2. ASSUME pc[p] = "unmap", va[p] < end[p] PROVE frame[tgt[p]][va[p]] # None
    <3>1. va[p] \in VA /\ Unmapping(p) /\ ~Growing(p) /\ ~Copying(p) /\ state[p] = "RUNNABLE"
      BY <2>0, <2>1, <2>2 DEF VA, Unmapping, Growing, Copying, Life,
         UnmapPcs, GrowPcs, CopyPcs, KfreePcs
    <3>2. CASE tgt[p] = p
      <4>1. after[p] # "free_proc"
        BY <2>0, <3>1, <3>2 DEF Life
      <4>2. va[p] \in OwnPages(p)
        BY <2>1, <2>2, <3>1, <4>1 DEF OwnPages
      <4> QED
        BY <2>0, <3>1, <3>2, <4>2 DEF Own
    <3>3. CASE tgt[p] # p
      <4>1. va[p] \in ChildPages(p)
        BY <2>1, <2>2, <3>1 DEF ChildPages
      <4> QED
        BY <2>0, <3>1, <3>3, <4>1 DEF Child
    <3> QED
      BY <3>2, <3>3
  <2>3. ASSUME pc[p] = "copy", va[p] < sz[p] PROVE frame[p][va[p]] # None
    <3>1. va[p] \in VA /\ state[p] = "RUNNABLE"
      BY <2>0, <2>1, <2>3 DEF VA, Life
    <3>2. va[p] \in OwnPages(p)
      BY <2>3, <3>1 DEF OwnPages, Growing, Unmapping, GrowPcs, UnmapPcs, KfreePcs
    <3> QED
      BY <2>0, <3>1, <3>2 DEF Own
  <2>4. pc[p] = "copyout" => frame[p][va[p]] # None /\ PTE_W \in flags[p][va[p]]
    BY <2>0 DEF Locals, Cowing
  <2> QED
    BY <2>2, <2>3, <2>4
<1> QED
  BY <1>1, Invariance, PTL

-----------------------------------------------------------------------------
(* What a use keeps, in closed form *)

\* The entry that p works on keeps its frame without being counted.
Uncounted(p) ==
    \/ pc[p] \in {"unmap_clear", "ref_read", "ref_cas"}
    \/ pc[p] \in {"kf_zero", "kf_push"} /\ ret[p] = "unmap_clear"

UncountedAt(p, r, v) == tgt[p] = r /\ va[p] = v /\ Uncounted(p)

LEMMA EntryMap ==
  \A r \in Proc : \A v :
    useOfEntry(r, v) = IF \E q \in Proc : UncountedAt(q, r, v) THEN None ELSE frame[r][v]
<1> SUFFICES ASSUME NEW r \in Proc, NEW v
             PROVE  useOfEntry(r, v) =
                      IF \E q \in Proc : UncountedAt(q, r, v) THEN None ELSE frame[r][v]
  OBVIOUS
<1>1. (Dying(r, v) \/ Pending(r, v)) <=> \E q \in Proc : UncountedAt(q, r, v)
  BY DEF Dying, Pending, UncountedAt, Uncounted
<1> QED
  BY <1>1 DEF useOfEntry

\* Of the entries of a table in hand only the one at va is not counted.
InHandMap(p) ==
    pc[p] # "dead" =>
      /\ \A v : useOfEntry(tgt[p], v) =
                  IF va[p] = v /\ Uncounted(p) THEN None ELSE frame[tgt[p]][v]
      /\ tgt[p] # p => \A v : useOfEntry(p, v) = frame[p][v]
      /\ worker(p) = p
      /\ worker(tgt[p]) = p

\* The table of a process that nobody but itself has in hand
AloneMap(r) ==
    (pc[r] \in {"dead", "user"} /\ \A q \in Proc : q = r \/ tgt[q] # r) =>
      /\ \A v : useOfEntry(r, v) = frame[r][v]
      /\ worker(r) = r

LEMMA WorkerIs ==
  ASSUME PageTableInv, NEW r \in Proc
  PROVE  /\ \A q \in Proc : q # r /\ tgt[q] = r => worker(r) = q
         /\ (\A q \in Proc : q = r \/ tgt[q] # r) => worker(r) = r
<1>1. \A q, s \in Proc : Apart(q, s)
  BY InvParts
<1>2. (\E q \in Proc \ {r} : tgt[q] = r) => worker(r) \in Proc \ {r} /\ tgt[worker(r)] = r
  BY DEF worker
<1>3. (\A q \in Proc : q = r \/ tgt[q] # r) => worker(r) = r
  BY DEF worker
<1> QED
  BY <1>1, <1>2, <1>3 DEF Apart

LEMMA Mapped == PageTableInv => \A p \in Proc : InHandMap(p) /\ AloneMap(p)
<1> SUFFICES ASSUME PageTableInv, NEW p \in Proc PROVE InHandMap(p) /\ AloneMap(p)
  OBVIOUS
<1>1. ASSUME pc[p] # "dead"
      PROVE  /\ \A v : useOfEntry(tgt[p], v) =
                         IF va[p] = v /\ Uncounted(p) THEN None ELSE frame[tgt[p]][v]
             /\ tgt[p] # p => \A v : useOfEntry(p, v) = frame[p][v]
             /\ worker(p) = p
             /\ worker(tgt[p]) = p
  <2>1. tgt[p] \in Proc /\ Alone(p, tgt[p])
    BY <1>1, OneInHand
  <2>2. \A q \in Proc \ {p} : q # tgt[p] => tgt[q] # tgt[p] /\ tgt[q] # p
    BY <2>1 DEF Alone
  <2>3. tgt[p] # p => ~Uncounted(tgt[p]) /\ tgt[tgt[p]] = tgt[p]
    <3>1. tgt[p] # p => pc[tgt[p]] = "dead"
      BY <2>1 DEF Alone
    <3>2. Life(tgt[p])
      BY <2>1, InvFacts
    <3> QED
      BY <3>1, <3>2 DEF Uncounted, Life, Copying, Unmapping, CopyPcs, UnmapPcs, KfreePcs
  <2>4. \A q \in Proc : \A v : UncountedAt(q, tgt[p], v) <=> q = p /\ va[p] = v /\ Uncounted(p)
    BY <2>1, <2>2, <2>3 DEF UncountedAt
  <2>5. tgt[p] # p => \A q \in Proc : \A v : ~UncountedAt(q, p, v)
    BY <2>2, <2>3 DEF UncountedAt
  <2>6. \A v : useOfEntry(tgt[p], v) =
                 IF va[p] = v /\ Uncounted(p) THEN None ELSE frame[tgt[p]][v]
    BY <2>1, <2>4, EntryMap
  <2>7. tgt[p] # p => \A v : useOfEntry(p, v) = frame[p][v]
    BY <2>5, EntryMap
  <2>8. worker(p) = p /\ worker(tgt[p]) = p
    BY <2>1, <2>2, <2>3, WorkerIs
  <2> QED
    BY <2>6, <2>7, <2>8
<1>2. ASSUME pc[p] \in {"dead", "user"}, \A q \in Proc : q = p \/ tgt[q] # p
      PROVE  (\A v : useOfEntry(p, v) = frame[p][v]) /\ worker(p) = p
  <2>1. \A q \in Proc : \A v : ~UncountedAt(q, p, v)
    BY <1>2 DEF UncountedAt, Uncounted
  <2> QED
    BY <1>2, <2>1, EntryMap, WorkerIs
<1> QED
  BY <1>1, <1>2 DEF InHandMap, AloneMap

LEMMA EntryMapNext ==
  (\A r \in Proc : \A v :
     useOfEntry(r, v) = IF \E q \in Proc : UncountedAt(q, r, v) THEN None ELSE frame[r][v])'
BY EntryMap, PTL

LEMMA MappedNext == PageTableInv' => (\A p \in Proc : InHandMap(p) /\ AloneMap(p))'
BY Mapped, PTL

LEMMA WorkerClosed ==
  PageTableInv => \A r \in Proc : /\ \A q \in Proc : q # r /\ tgt[q] = r => worker(r) = q
                                  /\ (\A q \in Proc : q = r \/ tgt[q] # r) => worker(r) = r
BY WorkerIs

LEMMA WorkerNext ==
  PageTableInv' => (\A r \in Proc : /\ \A q \in Proc : q # r /\ tgt[q] = r => worker(r) = q
                                    /\ (\A q \in Proc : q = r \/ tgt[q] # r) => worker(r) = r)'
BY WorkerClosed, PTL

-----------------------------------------------------------------------------
(* A step of p that touches c leaves the uses and the calls of all others. *)

Shape(p, c) ==
    /\ Alone(p, c)
    /\ Touches(p, c)
    /\ \A q \in Proc \ {p} : ref'[q] = ref[q]
    /\ c # p => pc'[c] \in {"dead", "user"}

UseSame(u) == allocPage'[u] = allocPage[u]

CallSame(p) ==
    /\ allocPc'[p] = allocPc[p]
    /\ allocArg'[p] = allocArg[p]
    /\ allocUse'[p] = allocUse[p]
    /\ allocRef'[p] = allocRef[p]

LEMMA OthersMap ==
  ASSUME PageTableInv, PageTableInv', NEW p \in Proc, NEW c \in Proc, Shape(p, c),
         NEW r \in Proc, r # p, r # c
  PROVE  worker(r)' = worker(r) /\ \A v : useOfEntry(r, v)' = useOfEntry(r, v)
<1>1. ASSUME NEW q \in Proc PROVE tgt'[q] = r <=> tgt[q] = r
  BY DEF Shape, Alone, Touches
<1>2. worker(r)' = worker(r)
  BY <1>1, WorkerIs, WorkerNext
<1>3. ASSUME NEW q \in Proc, NEW v PROVE UncountedAt(q, r, v)' <=> UncountedAt(q, r, v)
  <2>1. CASE q = p
    BY <2>1 DEF Shape, Alone, Touches, UncountedAt
  <2>2. CASE q # p /\ q = c
    BY <2>2 DEF Shape, Alone, Touches, UncountedAt, Uncounted
  <2>3. CASE q # p /\ q # c
    BY <2>3 DEF Shape, Alone, Touches, UncountedAt, Uncounted
  <2> QED
    BY <2>1, <2>2, <2>3
<1>4. frame'[r] = frame[r]
  BY DEF Shape, Touches
<1>5. ASSUME NEW v PROVE useOfEntry(r, v)' = useOfEntry(r, v)
  <2>1. useOfEntry(r, v)' = IF \E q \in Proc : UncountedAt(q, r, v)' THEN None ELSE frame'[r][v]
    BY EntryMapNext
  <2> QED
    BY <1>3, <1>4, <2>1, EntryMap
<1> QED
  BY <1>2, <1>5

LEMMA OthersCall ==
  ASSUME PageTableInv, NEW p \in Proc, NEW c \in Proc, Shape(p, c), NEW q \in Proc, q # p
  PROVE  CallSame(q) /\ useOfLocals(q)' = useOfLocals(q)
<1>1. CASE q = c
  <2>1. pc[q] = "dead" /\ pc'[q] \in {"dead", "user"}
    BY <1>1 DEF Shape, Alone
  <2> QED
    BY <2>1 DEF CallSame, allocPc, allocArg, allocUse, allocRef, InCall, pageAllocPc,
       useOfLocals, KfreePcs
<1>2. CASE q # c
  <2>1. /\ pc'[q] = pc[q] /\ frame'[q] = frame[q] /\ tgt'[q] = tgt[q] /\ va'[q] = va[q]
        /\ pa'[q] = pa[q] /\ npa'[q] = npa[q] /\ ret'[q] = ret[q] /\ ref'[q] = ref[q]
    BY <1>2 DEF Shape, Touches
  <2>2. InCall(q)' = InCall(q)
    BY <2>1 DEF InCall
  <2> QED
    BY <2>1, <2>2 DEF CallSame, allocPc, allocArg, allocUse, allocRef, useOfLocals
<1> QED
  BY <1>1, <1>2

\* The uses outside S keep what they keep if those of p and c do.
LEMMA UsesSame ==
  ASSUME PageTableInv, PageTableInv', NEW p \in Proc, NEW c \in Proc, Shape(p, c), NEW S,
         \A v \in VA : <<p, v>> \notin S => useOfEntry(p, v)' = useOfEntry(p, v),
         \A v \in VA : <<c, v>> \notin S => useOfEntry(c, v)' = useOfEntry(c, v),
         <<p, MaxPages>> \notin S => useOfLocals(p)' = useOfLocals(p)
  PROVE  \A u \in allocUses \ S : UseSame(u)
<1> SUFFICES ASSUME NEW u \in allocUses, u \notin S PROVE UseSame(u)
  OBVIOUS
<1>1. u[1] \in Proc /\ u[2] \in 0 .. MaxPages /\ u = <<u[1], u[2]>> /\ MaxPages \in Nat
  BY CowMemAssumption DEF allocUses
<1>2. /\ allocPage[u] = IF u[2] < MaxPages THEN useOfEntry(u[1], u[2]) ELSE useOfLocals(u[1])
      /\ allocPage'[u] = IF u[2] < MaxPages THEN useOfEntry(u[1], u[2])' ELSE useOfLocals(u[1])'
  BY DEF allocPage, allocUses
<1>3. CASE u[2] < MaxPages
  <2>1. u[2] \in VA
    BY <1>1, <1>3 DEF VA
  <2>2. useOfEntry(u[1], u[2])' = useOfEntry(u[1], u[2])
    BY <1>1, <2>1, OthersMap
  <2> QED
    BY <1>2, <1>3, <2>2 DEF UseSame
<1>4. CASE ~(u[2] < MaxPages)
  <2>1. u[2] = MaxPages
    BY <1>1, <1>4
  <2>2. useOfLocals(u[1])' = useOfLocals(u[1])
    BY <1>1, <2>1, OthersCall
  <2> QED
    BY <1>2, <1>4, <2>2 DEF UseSame
<1> QED
  BY <1>3, <1>4

LEMMA OwnersSame ==
  ASSUME PageTableInv, PageTableInv', NEW p \in Proc, NEW c \in Proc, Shape(p, c),
         worker(p)' = worker(p), worker(c)' = worker(c)
  PROVE  allocOwner' = allocOwner
<1>1. \A r \in Proc : worker(r)' = worker(r)
  BY OthersMap
<1> QED
  BY <1>1 DEF allocOwner, allocUses

LEMMA CallsSame ==
  ASSUME PageTableInv, NEW p \in Proc, NEW c \in Proc, Shape(p, c), CallSame(p)
  PROVE  UNCHANGED <<allocPc, allocArg, allocUse, allocRef>>
<1>1. \A q \in Proc : CallSame(q)
  BY OthersCall
<1>2. allocPc' = allocPc
  BY <1>1 DEF CallSame, allocPc
<1>3. allocArg' = allocArg
  BY <1>1 DEF CallSame, allocArg
<1>4. allocUse' = allocUse
  BY <1>1 DEF CallSame, allocUse
<1>5. allocRef' = allocRef
  BY <1>1 DEF CallSame, allocRef
<1> QED
  BY <1>2, <1>3, <1>4, <1>5

LEMMA PageSame ==
  ASSUME \A u \in allocUses : UseSame(u)
  PROVE  allocPage' = allocPage
BY DEF UseSame, allocPage

\* Steps that leave the tables and the hand of p as they are
Still(p) ==
    /\ pc[p] # "dead" /\ pc'[p] # "dead"
    /\ Shape(p, tgt[p])
    /\ tgt'[p] = tgt[p]
    /\ frame' = frame
    /\ Uncounted(p)' <=> Uncounted(p)
    /\ Uncounted(p) => va'[p] = va[p]

LEMMA StillUses ==
  ASSUME PageTableInv, PageTableInv', NEW p \in Proc, Still(p)
  PROVE  /\ allocOwner' = allocOwner
         /\ \A u \in allocUses : u # <<p, MaxPages>> => UseSame(u)
         /\ useOfLocals(p)' = useOfLocals(p) => allocPage' = allocPage
<1> PICK c \in Proc : c = tgt[p]
  BY OneInHand DEF Still
<1>1. Shape(p, c) /\ tgt'[p] = c /\ InHandMap(p) /\ InHandMap(p)'
  BY Mapped, MappedNext DEF Still
<1>2. \A v : useOfEntry(c, v)' = useOfEntry(c, v)
  BY <1>1 DEF Still, InHandMap
<1>3. \A v : useOfEntry(p, v)' = useOfEntry(p, v)
  BY <1>1, <1>2 DEF Still, InHandMap
<1>4. worker(p)' = worker(p) /\ worker(c)' = worker(c)
  BY <1>1 DEF Still, InHandMap
<1>5. \A u \in allocUses \ {<<p, MaxPages>>} : UseSame(u)
  BY <1>1, <1>2, <1>3, UsesSame
<1>6. ASSUME useOfLocals(p)' = useOfLocals(p) PROVE allocPage' = allocPage
  <2>1. \A u \in allocUses \ {} : UseSame(u)
    BY <1>1, <1>2, <1>3, <1>6, UsesSame
  <2> QED
    BY <2>1, PageSame
<1> QED
  BY <1>1, <1>4, <1>5, <1>6, OwnersSame

LEMMA IdleCall ==
  ASSUME NEW p \in Proc, ~InCall(p), ~InCall(p)'
  PROVE  CallSame(p)
BY DEF InCall, pageAllocPc, CallSame, allocPc, allocArg, allocUse, allocRef, KfreePcs

\* A step between calls of the allocator is no step of PageAlloc.
LEMMA IdleStep ==
  ASSUME PageTableInv, PageTableInv', NEW p \in Proc, Still(p), UNCHANGED <<free, references>>,
         ~InCall(p), ~InCall(p)', useOfLocals(p)' = useOfLocals(p)
  PROVE  UNCHANGED Alloc!vars
<1>1. CallSame(p)
  BY IdleCall
<1>2. tgt[p] \in Proc /\ Shape(p, tgt[p])
  BY OneInHand DEF Still
<1>3. UNCHANGED <<allocPc, allocArg, allocUse, allocRef>>
  BY <1>1, <1>2, CallsSame
<1> QED
  BY <1>3, StillUses DEF Alloc!vars

LEMMA QuietShape ==
  ASSUME PageTableInv, NEW p \in Proc, pc[p] # "dead", Quiet(p), \A q \in Proc \ {p} : ref'[q] = ref[q]
  PROVE  Shape(p, tgt[p]) /\ tgt'[p] = tgt[p] /\ frame' = frame
<1>1. tgt[p] \in Proc /\ Alone(p, tgt[p])
  BY OneInHand
<1>2. Touches(p, tgt[p])
  BY DEF Quiet, Touches, pageVars, procVars
<1>3. tgt[p] # p => pc'[tgt[p]] = "dead"
  BY <1>1 DEF Quiet, Alone
<1> QED
  BY <1>1, <1>2, <1>3 DEF Shape, Quiet, pageVars

LEMMA UserTrapRetMap ==
  ASSUME PageTableInv, PageTableInv', NEW p \in Proc, UserTrapRet(p)
  PROVE  UNCHANGED Alloc!vars
<1>0. TypeOK /\ Life(p) /\ Locals(p)
  BY InvFacts
<1>1. /\ pc[p] # "dead" /\ pc'[p] # "dead" /\ Quiet(p)
      /\ \A q \in Proc \ {p} : ref'[q] = ref[q]
  BY <1>0 DEF UserTrapRet, TypeOK, Quiet, Life, Locals, Copying, Unmapping, Growing,
       KfreePcs, CowPcs, GrowPcs, CopyPcs, UnmapPcs, Goto, ResetLocals, allocVars,
       pageVars, procVars
<1>2. Shape(p, tgt[p]) /\ tgt'[p] = tgt[p] /\ frame' = frame
  BY <1>1, QuietShape
<1>3. ~InCall(p) /\ ~InCall(p)' /\ ~Uncounted(p) /\ ~Uncounted(p)'
  BY <1>0 DEF UserTrapRet, InCall, pageAllocPc, Uncounted, TypeOK, Goto, ResetLocals,
       allocVars, pageVars, procVars
<1>4. useOfLocals(p)' = useOfLocals(p)
  BY <1>0 DEF UserTrapRet, useOfLocals, TypeOK, Goto, ResetLocals, allocVars, pageVars,
       procVars
<1>5. UNCHANGED <<free, references>>
  BY DEF UserTrapRet, Goto, CallKfree, CallUnmap, ResetLocals, Kalloc, allocVars,
       pageVars, procVars, loopVars, callVars
<1> QED
  BY <1>1, <1>2, <1>3, <1>4, <1>5, IdleStep DEF Still

LEMMA PageFaultMap ==
  ASSUME PageTableInv, PageTableInv', NEW p \in Proc, NEW v \in VA, PageFault(p, v)
  PROVE  UNCHANGED Alloc!vars
<1>0. TypeOK /\ Life(p) /\ Locals(p)
  BY InvFacts
<1>1. /\ pc[p] # "dead" /\ pc'[p] # "dead" /\ Quiet(p)
      /\ \A q \in Proc \ {p} : ref'[q] = ref[q]
  BY <1>0 DEF PageFault, TypeOK, Quiet, Life, Locals, Copying, Unmapping, Growing,
       KfreePcs, CowPcs, GrowPcs, CopyPcs, UnmapPcs, Goto, allocVars, pageVars, procVars
<1>2. Shape(p, tgt[p]) /\ tgt'[p] = tgt[p] /\ frame' = frame
  BY <1>1, QuietShape
<1>3. ~InCall(p) /\ ~InCall(p)' /\ ~Uncounted(p) /\ ~Uncounted(p)'
  BY <1>0 DEF PageFault, InCall, pageAllocPc, Uncounted, TypeOK, Goto, allocVars,
       pageVars, procVars
<1>4. useOfLocals(p)' = useOfLocals(p)
  BY <1>0 DEF PageFault, useOfLocals, TypeOK, Goto, allocVars, pageVars, procVars
<1>5. UNCHANGED <<free, references>>
  BY DEF PageFault, Goto, CallKfree, CallUnmap, ResetLocals, Kalloc, allocVars,
       pageVars, procVars, loopVars, callVars
<1> QED
  BY <1>1, <1>2, <1>3, <1>4, <1>5, IdleStep DEF Still

LEMMA CopyoutMap ==
  ASSUME PageTableInv, PageTableInv', NEW p \in Proc, NEW v \in VA, Copyout(p, v)
  PROVE  UNCHANGED Alloc!vars
<1>0. TypeOK /\ Life(p) /\ Locals(p)
  BY InvFacts
<1>1. /\ pc[p] # "dead" /\ pc'[p] # "dead" /\ Quiet(p)
      /\ \A q \in Proc \ {p} : ref'[q] = ref[q]
  BY <1>0 DEF Copyout, TypeOK, Quiet, Life, Locals, Copying, Unmapping, Growing,
       KfreePcs, CowPcs, GrowPcs, CopyPcs, UnmapPcs, Goto, allocVars, pageVars, procVars
<1>2. Shape(p, tgt[p]) /\ tgt'[p] = tgt[p] /\ frame' = frame
  BY <1>1, QuietShape
<1>3. ~InCall(p) /\ ~InCall(p)' /\ ~Uncounted(p) /\ ~Uncounted(p)'
  BY <1>0 DEF Copyout, InCall, pageAllocPc, Uncounted, TypeOK, Goto, allocVars,
       pageVars, procVars
<1>4. useOfLocals(p)' = useOfLocals(p)
  BY <1>0 DEF Copyout, useOfLocals, TypeOK, Goto, allocVars, pageVars, procVars
<1>5. UNCHANGED <<free, references>>
  BY DEF Copyout, Goto, CallKfree, CallUnmap, ResetLocals, Kalloc, allocVars, pageVars,
       procVars, loopVars, callVars
<1> QED
  BY <1>1, <1>2, <1>3, <1>4, <1>5, IdleStep DEF Still

LEMMA StoreMap ==
  ASSUME PageTableInv, PageTableInv', NEW p \in Proc, NEW v \in VA, NEW d \in Data, Store(p, v, d)
  PROVE  UNCHANGED Alloc!vars
<1>0. TypeOK /\ Life(p) /\ Locals(p)
  BY InvFacts
<1>1. /\ pc[p] # "dead" /\ pc'[p] # "dead" /\ Quiet(p)
      /\ \A q \in Proc \ {p} : ref'[q] = ref[q]
  BY <1>0 DEF Store, TypeOK, Quiet, Life, Locals, Copying, Unmapping, Growing, KfreePcs,
       CowPcs, GrowPcs, CopyPcs, UnmapPcs, pageVars, procVars, loopVars, callVars
<1>2. Shape(p, tgt[p]) /\ tgt'[p] = tgt[p] /\ frame' = frame
  BY <1>1, QuietShape
<1>3. ~InCall(p) /\ ~InCall(p)' /\ ~Uncounted(p) /\ ~Uncounted(p)'
  BY <1>0 DEF Store, InCall, pageAllocPc, Uncounted, TypeOK, pageVars, procVars,
       loopVars, callVars
<1>4. useOfLocals(p)' = useOfLocals(p)
  BY <1>0 DEF Store, useOfLocals, TypeOK, pageVars, procVars, loopVars, callVars
<1>5. UNCHANGED <<free, references>>
  BY DEF Store, Goto, CallKfree, CallUnmap, ResetLocals, Kalloc, allocVars, pageVars,
       procVars, loopVars, callVars
<1> QED
  BY <1>1, <1>2, <1>3, <1>4, <1>5, IdleStep DEF Still

LEMMA CopyoutWriteMap ==
  ASSUME PageTableInv, PageTableInv', NEW p \in Proc, NEW d \in Data, CopyoutWrite(p, d)
  PROVE  UNCHANGED Alloc!vars
<1>0. TypeOK /\ Life(p) /\ Locals(p)
  BY InvFacts
<1>1. /\ pc[p] # "dead" /\ pc'[p] # "dead" /\ Quiet(p)
      /\ \A q \in Proc \ {p} : ref'[q] = ref[q]
  BY <1>0 DEF CopyoutWrite, TypeOK, Quiet, Life, Locals, Copying, Unmapping, Growing,
       KfreePcs, CowPcs, GrowPcs, CopyPcs, UnmapPcs, Goto, pageVars, procVars, loopVars,
       callVars
<1>2. Shape(p, tgt[p]) /\ tgt'[p] = tgt[p] /\ frame' = frame
  BY <1>1, QuietShape
<1>3. ~InCall(p) /\ ~InCall(p)' /\ ~Uncounted(p) /\ ~Uncounted(p)'
  BY <1>0 DEF CopyoutWrite, InCall, pageAllocPc, Uncounted, TypeOK, Goto, pageVars,
       procVars, loopVars, callVars
<1>4. useOfLocals(p)' = useOfLocals(p)
  BY <1>0 DEF CopyoutWrite, useOfLocals, TypeOK, Goto, pageVars, procVars, loopVars,
       callVars
<1>5. UNCHANGED <<free, references>>
  BY DEF CopyoutWrite, Goto, CallKfree, CallUnmap, ResetLocals, Kalloc, allocVars,
       pageVars, procVars, loopVars, callVars
<1> QED
  BY <1>1, <1>2, <1>3, <1>4, <1>5, IdleStep DEF Still

LEMMA CowCopyMap ==
  ASSUME PageTableInv, PageTableInv', NEW p \in Proc, CowCopy(p)
  PROVE  UNCHANGED Alloc!vars
<1>0. TypeOK /\ Life(p) /\ Locals(p)
  BY InvFacts
<1>1. /\ pc[p] # "dead" /\ pc'[p] # "dead" /\ Quiet(p)
      /\ \A q \in Proc \ {p} : ref'[q] = ref[q]
  BY <1>0 DEF CowCopy, TypeOK, Quiet, Life, Locals, Copying, Unmapping, Growing,
       KfreePcs, CowPcs, GrowPcs, CopyPcs, UnmapPcs, Goto, pageVars, procVars, loopVars,
       callVars
<1>2. Shape(p, tgt[p]) /\ tgt'[p] = tgt[p] /\ frame' = frame
  BY <1>1, QuietShape
<1>3. ~InCall(p) /\ ~InCall(p)' /\ ~Uncounted(p) /\ ~Uncounted(p)'
  BY <1>0 DEF CowCopy, InCall, pageAllocPc, Uncounted, TypeOK, Goto, pageVars, procVars,
       loopVars, callVars
<1>4. useOfLocals(p)' = useOfLocals(p)
  BY <1>0 DEF CowCopy, useOfLocals, TypeOK, Goto, pageVars, procVars, loopVars, callVars
<1>5. UNCHANGED <<free, references>>
  BY DEF CowCopy, Goto, CallKfree, CallUnmap, ResetLocals, Kalloc, allocVars, pageVars,
       procVars, loopVars, callVars
<1> QED
  BY <1>1, <1>2, <1>3, <1>4, <1>5, IdleStep DEF Still

LEMMA SbrkGrowMap ==
  ASSUME PageTableInv, PageTableInv', NEW p \in Proc, NEW n \in 0 .. MaxPages, SbrkGrow(p, n)
  PROVE  UNCHANGED Alloc!vars
<1>0. TypeOK /\ Life(p) /\ Locals(p)
  BY InvFacts
<1>1. /\ pc[p] # "dead" /\ pc'[p] # "dead" /\ Quiet(p)
      /\ \A q \in Proc \ {p} : ref'[q] = ref[q]
  BY <1>0 DEF SbrkGrow, TypeOK, Quiet, Life, Locals, Copying, Unmapping, Growing,
       KfreePcs, CowPcs, GrowPcs, CopyPcs, UnmapPcs, Goto, allocVars, pageVars,
       procVars, callVars
<1>2. Shape(p, tgt[p]) /\ tgt'[p] = tgt[p] /\ frame' = frame
  BY <1>1, QuietShape
<1>3. ~InCall(p) /\ ~InCall(p)' /\ ~Uncounted(p) /\ ~Uncounted(p)'
  BY <1>0 DEF SbrkGrow, InCall, pageAllocPc, Uncounted, TypeOK, Goto, allocVars,
       pageVars, procVars, callVars
<1>4. useOfLocals(p)' = useOfLocals(p)
  BY <1>0 DEF SbrkGrow, useOfLocals, TypeOK, Goto, allocVars, pageVars, procVars, callVars
<1>5. UNCHANGED <<free, references>>
  BY DEF SbrkGrow, Goto, CallKfree, CallUnmap, ResetLocals, Kalloc, allocVars, pageVars,
       procVars, loopVars, callVars
<1> QED
  BY <1>1, <1>2, <1>3, <1>4, <1>5, IdleStep DEF Still

LEMMA SbrkShrinkMap ==
  ASSUME PageTableInv, PageTableInv', NEW p \in Proc, NEW n \in 0 .. MaxPages, SbrkShrink(p, n)
  PROVE  UNCHANGED Alloc!vars
<1>0. TypeOK /\ Life(p) /\ Locals(p)
  BY InvFacts
<1>1. /\ pc[p] # "dead" /\ pc'[p] # "dead" /\ Quiet(p)
      /\ \A q \in Proc \ {p} : ref'[q] = ref[q]
  BY <1>0 DEF SbrkShrink, TypeOK, Quiet, Life, Locals, Copying, Unmapping, Growing,
       KfreePcs, CowPcs, GrowPcs, CopyPcs, UnmapPcs, Goto, CallUnmap, allocVars,
       pageVars, procVars, callVars
<1>2. Shape(p, tgt[p]) /\ tgt'[p] = tgt[p] /\ frame' = frame
  BY <1>1, QuietShape
<1>3. ~InCall(p) /\ ~InCall(p)' /\ ~Uncounted(p) /\ ~Uncounted(p)'
  BY <1>0 DEF SbrkShrink, InCall, pageAllocPc, Uncounted, TypeOK, Goto, CallUnmap,
       allocVars, pageVars, procVars, callVars
<1>4. useOfLocals(p)' = useOfLocals(p)
  BY <1>0 DEF SbrkShrink, useOfLocals, TypeOK, Goto, CallUnmap, allocVars, pageVars,
       procVars, callVars
<1>5. UNCHANGED <<free, references>>
  BY DEF SbrkShrink, Goto, CallKfree, CallUnmap, ResetLocals, Kalloc, allocVars,
       pageVars, procVars, loopVars, callVars
<1> QED
  BY <1>1, <1>2, <1>3, <1>4, <1>5, IdleStep DEF Still

LEMMA GrowUndoMap ==
  ASSUME PageTableInv, PageTableInv', NEW p \in Proc, GrowUndo(p)
  PROVE  UNCHANGED Alloc!vars
<1>0. TypeOK /\ Life(p) /\ Locals(p)
  BY InvFacts
<1>1. /\ pc[p] # "dead" /\ pc'[p] # "dead" /\ Quiet(p)
      /\ \A q \in Proc \ {p} : ref'[q] = ref[q]
  BY <1>0 DEF GrowUndo, TypeOK, Quiet, Life, Locals, Copying, Unmapping, Growing,
       KfreePcs, CowPcs, GrowPcs, CopyPcs, UnmapPcs, Goto, CallUnmap, allocVars,
       pageVars, procVars, callVars
<1>2. Shape(p, tgt[p]) /\ tgt'[p] = tgt[p] /\ frame' = frame
  BY <1>1, QuietShape
<1>3. ~InCall(p) /\ ~InCall(p)' /\ ~Uncounted(p) /\ ~Uncounted(p)'
  BY <1>0 DEF GrowUndo, InCall, pageAllocPc, Uncounted, TypeOK, Goto, CallUnmap,
       allocVars, pageVars, procVars, callVars
<1>4. useOfLocals(p)' = useOfLocals(p)
  BY <1>0 DEF GrowUndo, useOfLocals, TypeOK, Goto, CallUnmap, allocVars, pageVars,
       procVars, callVars
<1>5. UNCHANGED <<free, references>>
  BY DEF GrowUndo, Goto, CallKfree, CallUnmap, ResetLocals, Kalloc, allocVars, pageVars,
       procVars, loopVars, callVars
<1> QED
  BY <1>1, <1>2, <1>3, <1>4, <1>5, IdleStep DEF Still

LEMMA CallChange ==
  ASSUME PageTableInv, NEW p \in Proc, NEW c \in Proc, Shape(p, c)
  PROVE  /\ allocPc' = [allocPc EXCEPT ![p] = allocPc'[p]]
         /\ allocArg' = [allocArg EXCEPT ![p] = allocArg'[p]]
         /\ allocUse' = [allocUse EXCEPT ![p] = allocUse'[p]]
         /\ allocRef' = [allocRef EXCEPT ![p] = allocRef'[p]]
<1>1. \A q \in Proc : q # p => CallSame(q)
  BY OthersCall
<1>2. allocPc' = [allocPc EXCEPT ![p] = allocPc'[p]]
  BY <1>1 DEF CallSame, allocPc
<1>3. allocArg' = [allocArg EXCEPT ![p] = allocArg'[p]]
  BY <1>1 DEF CallSame, allocArg
<1>4. allocUse' = [allocUse EXCEPT ![p] = allocUse'[p]]
  BY <1>1 DEF CallSame, allocUse
<1>5. allocRef' = [allocRef EXCEPT ![p] = allocRef'[p]]
  BY <1>1 DEF CallSame, allocRef
<1> QED
  BY <1>2, <1>3, <1>4, <1>5

LEMMA PageChange ==
  ASSUME NEW u \in allocUses, \A w \in allocUses \ {u} : UseSame(w)
  PROVE  allocPage' = [allocPage EXCEPT ![u] = allocPage'[u]]
BY DEF UseSame, allocPage

LEMMA LocalUse ==
  ASSUME NEW p \in Proc
  PROVE  /\ <<p, MaxPages>> \in allocUses
         /\ allocPage[<<p, MaxPages>>] = useOfLocals(p)
         /\ allocPage'[<<p, MaxPages>>] = useOfLocals(p)'
         /\ allocOwner[<<p, MaxPages>>] = p
         /\ allocOwner'[<<p, MaxPages>>] = p
<1>1. MaxPages \in 0 .. MaxPages /\ ~(MaxPages < MaxPages)
  BY CowMemAssumption
<1> QED
  BY <1>1 DEF allocUses, allocPage, allocOwner

LEMMA EntryUse ==
  ASSUME NEW r \in Proc, NEW v \in VA
  PROVE  /\ <<r, v>> \in allocUses
         /\ <<r, v>> # <<r, MaxPages>>
         /\ allocPage[<<r, v>>] = useOfEntry(r, v)
         /\ allocPage'[<<r, v>>] = useOfEntry(r, v)'
         /\ allocOwner[<<r, v>>] = worker(r)
         /\ allocOwner'[<<r, v>>] = worker(r)'
<1>1. v \in 0 .. MaxPages /\ v < MaxPages
  BY CowMemAssumption DEF VA
<1> QED
  BY <1>1 DEF allocUses, allocPage, allocOwner

\* A change of one entry of the table in hand
LEMMA HandUses ==
  ASSUME PageTableInv, PageTableInv', NEW p \in Proc, NEW c \in Proc, NEW v \in VA,
         c = tgt[p], v = va[p], pc[p] # "dead", pc'[p] # "dead",
         Shape(p, c), tgt'[p] = tgt[p], frame' = frame, useOfLocals(p)' = useOfLocals(p),
         Uncounted(p)' => va'[p] = va[p]
  PROVE  /\ allocOwner' = allocOwner
         /\ allocOwner[<<c, v>>] = p
         /\ <<c, v>> \in allocUses
         /\ \A u \in allocUses \ {<<c, v>>} : UseSame(u)
         /\ allocPage[<<c, v>>] = IF Uncounted(p) THEN None ELSE frame[c][v]
         /\ allocPage'[<<c, v>>] = IF Uncounted(p)' THEN None ELSE frame[c][v]
<1>1. InHandMap(p) /\ InHandMap(p)' /\ tgt'[p] = c
  BY Mapped, MappedNext
<1>2. \A w : w # v => useOfEntry(c, w)' = useOfEntry(c, w)
  BY <1>1 DEF InHandMap
<1>3. c # p => \A w : useOfEntry(p, w)' = useOfEntry(p, w)
  BY <1>1 DEF InHandMap
<1>4. worker(p)' = worker(p) /\ worker(c)' = worker(c) /\ worker(c) = p
  BY <1>1 DEF InHandMap
<1>5. \A w \in VA : <<p, w>> \notin {<<c, v>>} => useOfEntry(p, w)' = useOfEntry(p, w)
  BY <1>2, <1>3
<1>6. \A w \in VA : <<c, w>> \notin {<<c, v>>} => useOfEntry(c, w)' = useOfEntry(c, w)
  BY <1>2
<1>7. \A u \in allocUses \ {<<c, v>>} : UseSame(u)
  BY <1>5, <1>6, UsesSame
<1>8. /\ useOfEntry(c, v) = IF Uncounted(p) THEN None ELSE frame[c][v]
      /\ useOfEntry(c, v)' = IF Uncounted(p)' THEN None ELSE frame[c][v]
  BY <1>1 DEF InHandMap
<1> QED
  BY <1>4, <1>7, <1>8, OwnersSame, EntryUse

LEMMA CallFuns ==
  /\ allocPc = [q \in Proc |-> allocPc[q]] /\ allocArg = [q \in Proc |-> allocArg[q]]
  /\ allocUse = [q \in Proc |-> allocUse[q]] /\ allocRef = [q \in Proc |-> allocRef[q]]
<1>1. allocPc = [q \in Proc |-> allocPc[q]]
  BY DEF allocPc
<1>2. allocArg = [q \in Proc |-> allocArg[q]]
  BY DEF allocArg
<1>3. allocUse = [q \in Proc |-> allocUse[q]]
  BY DEF allocUse
<1>4. allocRef = [q \in Proc |-> allocRef[q]]
  BY DEF allocRef
<1> QED
  BY <1>1, <1>2, <1>3, <1>4

LEMMA KfReadMap ==
  ASSUME PageTableInv, PageTableInv', NEW p \in Proc, KfRead(p)
  PROVE  Alloc!RemoveRead(p)
<1>0. TypeOK /\ Life(p) /\ Locals(p)
  BY InvFacts
<1>1. /\ pc[p] # "dead" /\ pc'[p] # "dead" /\ Quiet(p)
      /\ \A q \in Proc \ {p} : ref'[q] = ref[q]
  BY <1>0 DEF KfRead, TypeOK, Quiet, Life, Locals, Copying, Unmapping, Growing,
       KfreePcs, CowPcs, GrowPcs, CopyPcs, UnmapPcs, Goto, allocVars, pageVars,
       procVars, loopVars
<1>2. Shape(p, tgt[p]) /\ tgt'[p] = tgt[p] /\ frame' = frame
  BY <1>1, QuietShape
<1>3. ~Uncounted(p) /\ ~Uncounted(p)' /\ useOfLocals(p)' = useOfLocals(p)
  BY <1>0 DEF KfRead, Uncounted, useOfLocals, TypeOK, Goto, allocVars, pageVars,
       procVars, loopVars
<1>4. allocPage' = allocPage /\ allocOwner' = allocOwner
  BY <1>1, <1>2, <1>3, StillUses DEF Still
<1>5. /\ allocPc[p] = "remove_read" /\ allocPc'[p] = "remove_cas"
      /\ allocArg'[p] = allocArg[p] /\ allocArg[p] = pa[p] /\ allocUse'[p] = allocUse[p]
      /\ allocRef'[p] = references[pa[p]]
  BY <1>0 DEF KfRead, allocPc, allocArg, allocUse, allocRef, InCall, pageAllocPc,
       KfreePcs, TypeOK, Goto, allocVars, pageVars, procVars, loopVars
<1>6. /\ allocPc' = [allocPc EXCEPT ![p] = "remove_cas"]
      /\ allocRef' = [allocRef EXCEPT ![p] = references[allocArg[p]]]
      /\ allocArg' = allocArg /\ allocUse' = allocUse
  <2>1. tgt[p] \in Proc
    BY <1>0 DEF TypeOK
  <2>2. /\ allocPc' = [allocPc EXCEPT ![p] = allocPc'[p]]
        /\ allocArg' = [allocArg EXCEPT ![p] = allocArg'[p]]
        /\ allocUse' = [allocUse EXCEPT ![p] = allocUse'[p]]
        /\ allocRef' = [allocRef EXCEPT ![p] = allocRef'[p]]
    BY <1>2, <2>1, CallChange
  <2> QED
    BY <1>5, <2>2, CallFuns
<1>7. UNCHANGED <<free, references>>
  BY DEF KfRead, Goto, CallKfree, CallUnmap, ResetLocals, Kalloc, allocVars, pageVars,
       procVars, loopVars, callVars
<1> QED
  BY <1>4, <1>5, <1>6, <1>7 DEF Alloc!RemoveRead, Alloc!Goto

LEMMA RefReadMap ==
  ASSUME PageTableInv, PageTableInv', NEW p \in Proc, RefRead(p)
  PROVE  Alloc!AddRead(p)
<1>0. TypeOK /\ Life(p) /\ Locals(p)
  BY InvFacts
<1>1. /\ pc[p] # "dead" /\ pc'[p] # "dead" /\ Quiet(p)
      /\ \A q \in Proc \ {p} : ref'[q] = ref[q]
  BY <1>0 DEF RefRead, TypeOK, Quiet, Life, Locals, Copying, Unmapping, Growing,
       KfreePcs, CowPcs, GrowPcs, CopyPcs, UnmapPcs, Goto, allocVars, pageVars,
       procVars, loopVars
<1>2. Shape(p, tgt[p]) /\ tgt'[p] = tgt[p] /\ frame' = frame
  BY <1>1, QuietShape
<1>3. Uncounted(p) /\ Uncounted(p)' /\ va'[p] = va[p] /\ useOfLocals(p)' = useOfLocals(p)
  BY <1>0 DEF RefRead, Uncounted, useOfLocals, TypeOK, Goto, allocVars, pageVars,
       procVars, loopVars
<1>4. allocPage' = allocPage /\ allocOwner' = allocOwner
  BY <1>1, <1>2, <1>3, StillUses DEF Still
<1>5. /\ allocPc[p] = "add_read" /\ allocPc'[p] = "add_cas"
      /\ allocArg'[p] = allocArg[p] /\ allocArg[p] = frame[p][va[p]] /\ allocUse'[p] = allocUse[p]
      /\ allocRef'[p] = references[frame[p][va[p]]]
  BY <1>0 DEF RefRead, allocPc, allocArg, allocUse, allocRef, InCall, pageAllocPc,
       KfreePcs, TypeOK, Goto, allocVars, pageVars, procVars, loopVars
<1>6. /\ allocPc' = [allocPc EXCEPT ![p] = "add_cas"]
      /\ allocRef' = [allocRef EXCEPT ![p] = references[allocArg[p]]]
      /\ allocArg' = allocArg /\ allocUse' = allocUse
  <2>1. tgt[p] \in Proc
    BY <1>0 DEF TypeOK
  <2>2. /\ allocPc' = [allocPc EXCEPT ![p] = allocPc'[p]]
        /\ allocArg' = [allocArg EXCEPT ![p] = allocArg'[p]]
        /\ allocUse' = [allocUse EXCEPT ![p] = allocUse'[p]]
        /\ allocRef' = [allocRef EXCEPT ![p] = allocRef'[p]]
    BY <1>2, <2>1, CallChange
  <2> QED
    BY <1>5, <2>2, CallFuns
<1>7. UNCHANGED <<free, references>>
  BY DEF RefRead, Goto, CallKfree, CallUnmap, ResetLocals, Kalloc, allocVars, pageVars,
       procVars, loopVars, callVars
<1> QED
  BY <1>4, <1>5, <1>6, <1>7 DEF Alloc!AddRead, Alloc!Goto

LEMMA KfZeroMap ==
  ASSUME PageTableInv, PageTableInv', NEW p \in Proc, KfZero(p)
  PROVE  Alloc!ZeroCount(p)
<1>0. TypeOK /\ Life(p) /\ Locals(p)
  BY InvFacts
<1>1. /\ pc[p] # "dead" /\ pc'[p] # "dead" /\ Quiet(p)
      /\ \A q \in Proc \ {p} : ref'[q] = ref[q]
  BY <1>0 DEF KfZero, TypeOK, Quiet, Life, Locals, Copying, Unmapping, Growing,
       KfreePcs, CowPcs, GrowPcs, CopyPcs, UnmapPcs, Goto, pageVars, procVars, loopVars,
       callVars
<1>2. Shape(p, tgt[p]) /\ tgt'[p] = tgt[p] /\ frame' = frame
  BY <1>1, QuietShape
<1>3. (Uncounted(p)' <=> Uncounted(p)) /\ va'[p] = va[p] /\ useOfLocals(p)' = useOfLocals(p)
  BY <1>0 DEF KfZero, Uncounted, useOfLocals, TypeOK, Goto, pageVars, procVars,
       loopVars, callVars
<1>4. allocPage' = allocPage /\ allocOwner' = allocOwner
  BY <1>1, <1>2, <1>3, StillUses DEF Still
<1>5. /\ allocPc[p] = "zero" /\ allocPc'[p] = "push"
      /\ allocArg'[p] = allocArg[p] /\ allocArg[p] = pa[p] /\ allocUse'[p] = allocUse[p]
      /\ allocRef'[p] = allocRef[p]
  BY <1>0 DEF KfZero, allocPc, allocArg, allocUse, allocRef, InCall, pageAllocPc,
       KfreePcs, TypeOK, Goto, pageVars, procVars, loopVars, callVars
<1>6. /\ allocPc' = [allocPc EXCEPT ![p] = "push"]
      /\ allocArg' = allocArg /\ allocUse' = allocUse /\ allocRef' = allocRef
  <2>1. tgt[p] \in Proc
    BY <1>0 DEF TypeOK
  <2>2. /\ allocPc' = [allocPc EXCEPT ![p] = allocPc'[p]]
        /\ allocArg' = [allocArg EXCEPT ![p] = allocArg'[p]]
        /\ allocUse' = [allocUse EXCEPT ![p] = allocUse'[p]]
        /\ allocRef' = [allocRef EXCEPT ![p] = allocRef'[p]]
    BY <1>2, <2>1, CallChange
  <2> QED
    BY <1>5, <2>2, CallFuns
<1>7. free' = free /\ references' = [references EXCEPT ![allocArg[p]] = 0]
  BY <1>5 DEF KfZero
<1> QED
  BY <1>4, <1>5, <1>6, <1>7 DEF Alloc!ZeroCount, Alloc!Goto

LEMMA KfPushMap ==
  ASSUME PageTableInv, PageTableInv', NEW p \in Proc, KfPush(p)
  PROVE  Alloc!Push(p)
<1>0. TypeOK /\ Life(p) /\ Locals(p)
  BY InvFacts
<1>1. /\ pc[p] # "dead" /\ pc'[p] # "dead" /\ Quiet(p)
      /\ \A q \in Proc \ {p} : ref'[q] = ref[q]
  BY <1>0 DEF KfPush, TypeOK, Quiet, Life, Locals, Copying, Unmapping, Growing,
       KfreePcs, CowPcs, GrowPcs, CopyPcs, UnmapPcs, Goto, pageVars, procVars, loopVars,
       callVars
<1>2. Shape(p, tgt[p]) /\ tgt'[p] = tgt[p] /\ frame' = frame
  BY <1>1, QuietShape
<1>3. (Uncounted(p)' <=> Uncounted(p)) /\ va'[p] = va[p] /\ useOfLocals(p)' = useOfLocals(p)
  BY <1>0 DEF KfPush, Uncounted, useOfLocals, TypeOK, Goto, pageVars, procVars,
       loopVars, callVars
<1>4. allocPage' = allocPage /\ allocOwner' = allocOwner
  BY <1>1, <1>2, <1>3, StillUses DEF Still
<1>5. /\ allocPc[p] = "push" /\ allocPc'[p] = "idle"
      /\ allocArg'[p] = None /\ allocArg[p] = pa[p] /\ allocUse'[p] = None
      /\ allocRef'[p] = 0
  <2>1. /\ pc[p] = "kf_push" /\ pc'[p] = ret[p] /\ pa'[p] = pa[p]
        /\ ret[p] \in {"return", "copyout", "unmap_clear", "grow_undo"}
    BY <1>0 DEF KfPush, TypeOK, Goto, callVars
  <2> QED
    BY <2>1 DEF allocPc, allocArg, allocUse, allocRef, InCall, pageAllocPc, KfreePcs
<1>6. /\ allocPc' = [allocPc EXCEPT ![p] = "idle"]
      /\ allocArg' = [allocArg EXCEPT ![p] = None]
      /\ allocUse' = [allocUse EXCEPT ![p] = None]
      /\ allocRef' = [allocRef EXCEPT ![p] = 0]
  <2>1. tgt[p] \in Proc
    BY <1>0 DEF TypeOK
  <2>2. /\ allocPc' = [allocPc EXCEPT ![p] = allocPc'[p]]
        /\ allocArg' = [allocArg EXCEPT ![p] = allocArg'[p]]
        /\ allocUse' = [allocUse EXCEPT ![p] = allocUse'[p]]
        /\ allocRef' = [allocRef EXCEPT ![p] = allocRef'[p]]
    BY <1>2, <2>1, CallChange
  <2> QED
    BY <1>5, <2>2, CallFuns
<1>7. references' = references /\ free' = free \cup {allocArg[p]}
  BY <1>5 DEF KfPush
<1> QED
  BY <1>4, <1>5, <1>6, <1>7 DEF Alloc!Push, Alloc!Return, Alloc!Goto

LEMMA CowFreeMap ==
  ASSUME PageTableInv, PageTableInv', NEW p \in Proc, CowFree(p)
  PROVE  Alloc!FreeCall(p, <<p, MaxPages>>)
<1>0. TypeOK /\ Life(p) /\ Locals(p)
  BY InvFacts
<1>1. /\ pc[p] # "dead" /\ pc'[p] # "dead" /\ Quiet(p)
      /\ \A q \in Proc \ {p} : ref'[q] = ref[q]
  BY <1>0 DEF CowFree, TypeOK, Quiet, Life, Locals, Copying, Unmapping, Growing,
       KfreePcs, CowPcs, GrowPcs, CopyPcs, UnmapPcs, Goto, CallKfree, allocVars,
       pageVars, procVars, loopVars
<1>2. Shape(p, tgt[p]) /\ tgt'[p] = tgt[p] /\ frame' = frame
  BY <1>1, QuietShape
<1>3. ~Uncounted(p) /\ ~Uncounted(p)'
  BY <1>0 DEF CowFree, Uncounted, TypeOK, Goto, CallKfree, allocVars, pageVars,
       procVars, loopVars
<1>a. useOfLocals(p) = pa[p] /\ useOfLocals(p)' = pa[p] /\ pa[p] # None
  BY <1>0, CowMemAssumption DEF CowFree, Locals, useOfLocals, TypeOK, CowPcs, Goto,
       CallKfree, allocVars, pageVars, procVars, loopVars
<1>4. allocPage' = allocPage /\ allocOwner' = allocOwner
  BY <1>1, <1>2, <1>3, <1>a, StillUses DEF Still
<1>b. allocPage[<<p, MaxPages>>] = pa[p] /\ allocOwner[<<p, MaxPages>>] = p
  BY <1>a, LocalUse
<1>5. /\ allocPc[p] = "idle" /\ allocPc'[p] = "remove_read"
      /\ allocArg'[p] = pa[p] /\ allocUse'[p] = <<p, MaxPages>>
      /\ allocRef'[p] = allocRef[p]
  BY <1>0 DEF CowFree, allocPc, allocArg, allocUse, allocRef, InCall, pageAllocPc,
       KfreePcs, TypeOK, Locals, CowPcs, Goto, CallKfree, allocVars, pageVars, procVars,
       loopVars
<1>6. /\ allocPc' = [allocPc EXCEPT ![p] = "remove_read"]
      /\ allocArg' = [allocArg EXCEPT ![p] = pa[p]]
      /\ allocUse' = [allocUse EXCEPT ![p] = <<p, MaxPages>>]
      /\ allocRef' = allocRef
  <2>1. tgt[p] \in Proc
    BY <1>0 DEF TypeOK
  <2>2. /\ allocPc' = [allocPc EXCEPT ![p] = allocPc'[p]]
        /\ allocArg' = [allocArg EXCEPT ![p] = allocArg'[p]]
        /\ allocUse' = [allocUse EXCEPT ![p] = allocUse'[p]]
        /\ allocRef' = [allocRef EXCEPT ![p] = allocRef'[p]]
    BY <1>2, <2>1, CallChange
  <2> QED
    BY <1>5, <2>2, CallFuns
<1>7. UNCHANGED <<free, references>>
  BY DEF CowFree, Goto, CallKfree, CallUnmap, ResetLocals, Kalloc, allocVars, pageVars,
       procVars, loopVars, callVars
<1> QED
  BY <1>4, <1>5, <1>6, <1>7, <1>a, <1>b DEF Alloc!FreeCall, Alloc!Goto

LEMMA GrowMapFailsMap ==
  ASSUME PageTableInv, PageTableInv', NEW p \in Proc, GrowMapFails(p)
  PROVE  Alloc!FreeCall(p, <<p, MaxPages>>)
<1>0. TypeOK /\ Life(p) /\ Locals(p)
  BY InvFacts
<1>1. /\ pc[p] # "dead" /\ pc'[p] # "dead" /\ Quiet(p)
      /\ \A q \in Proc \ {p} : ref'[q] = ref[q]
  BY <1>0 DEF GrowMapFails, TypeOK, Quiet, Life, Locals, Copying, Unmapping, Growing,
       KfreePcs, CowPcs, GrowPcs, CopyPcs, UnmapPcs, Goto, CallKfree, pageVars,
       procVars, loopVars
<1>2. Shape(p, tgt[p]) /\ tgt'[p] = tgt[p] /\ frame' = frame
  BY <1>1, QuietShape
<1>3. ~Uncounted(p) /\ ~Uncounted(p)'
  BY <1>0 DEF GrowMapFails, Uncounted, TypeOK, Goto, CallKfree, pageVars, procVars,
       loopVars
<1>a. useOfLocals(p) = npa[p] /\ useOfLocals(p)' = npa[p] /\ npa[p] # None
  BY <1>0, CowMemAssumption DEF GrowMapFails, Locals, useOfLocals, TypeOK, CowPcs, Goto,
       CallKfree, pageVars, procVars, loopVars
<1>4. allocPage' = allocPage /\ allocOwner' = allocOwner
  BY <1>1, <1>2, <1>3, <1>a, StillUses DEF Still
<1>b. allocPage[<<p, MaxPages>>] = npa[p] /\ allocOwner[<<p, MaxPages>>] = p
  BY <1>a, LocalUse
<1>5. /\ allocPc[p] = "idle" /\ allocPc'[p] = "remove_read"
      /\ allocArg'[p] = npa[p] /\ allocUse'[p] = <<p, MaxPages>>
      /\ allocRef'[p] = allocRef[p]
  BY <1>0 DEF GrowMapFails, allocPc, allocArg, allocUse, allocRef, InCall, pageAllocPc,
       KfreePcs, TypeOK, Locals, CowPcs, Goto, CallKfree, pageVars, procVars, loopVars
<1>6. /\ allocPc' = [allocPc EXCEPT ![p] = "remove_read"]
      /\ allocArg' = [allocArg EXCEPT ![p] = npa[p]]
      /\ allocUse' = [allocUse EXCEPT ![p] = <<p, MaxPages>>]
      /\ allocRef' = allocRef
  <2>1. tgt[p] \in Proc
    BY <1>0 DEF TypeOK
  <2>2. /\ allocPc' = [allocPc EXCEPT ![p] = allocPc'[p]]
        /\ allocArg' = [allocArg EXCEPT ![p] = allocArg'[p]]
        /\ allocUse' = [allocUse EXCEPT ![p] = allocUse'[p]]
        /\ allocRef' = [allocRef EXCEPT ![p] = allocRef'[p]]
    BY <1>2, <2>1, CallChange
  <2> QED
    BY <1>5, <2>2, CallFuns
<1>7. UNCHANGED <<free, references>>
  BY DEF GrowMapFails, Goto, CallKfree, CallUnmap, ResetLocals, Kalloc, allocVars,
       pageVars, procVars, loopVars, callVars
<1> QED
  BY <1>4, <1>5, <1>6, <1>7, <1>a, <1>b DEF Alloc!FreeCall, Alloc!Goto

LEMMA UnmapMap ==
  ASSUME PageTableInv, PageTableInv', NEW p \in Proc, Unmap(p)
  PROVE  \/ UNCHANGED Alloc!vars
         \/ \E u \in allocUses : Alloc!FreeCall(p, u)
<1>0. TypeOK /\ Life(p) /\ Locals(p)
  BY InvFacts
<1>1. /\ pc[p] # "dead" /\ pc'[p] # "dead" /\ Quiet(p)
      /\ \A q \in Proc \ {p} : ref'[q] = ref[q]
  BY <1>0 DEF Unmap, TypeOK, Quiet, Life, Locals, Copying, Unmapping, Growing, KfreePcs,
       CowPcs, GrowPcs, CopyPcs, UnmapPcs, Goto, CallKfree, allocVars, pageVars,
       procVars, loopVars
<1>2. Shape(p, tgt[p]) /\ tgt'[p] = tgt[p] /\ frame' = frame
  BY <1>1, QuietShape
<1>3. ~Uncounted(p) /\ ~Uncounted(p)' /\ useOfLocals(p)' = useOfLocals(p)
  BY <1>0, ZenonT(40) DEF Unmap, Uncounted, useOfLocals, TypeOK, Goto, CallKfree, allocVars,
       pageVars, procVars, loopVars
<1>4. allocPage' = allocPage /\ allocOwner' = allocOwner
  BY <1>1, <1>2, <1>3, StillUses DEF Still
<1>8. UNCHANGED <<free, references>>
  BY DEF Unmap, Goto, CallKfree, CallUnmap, ResetLocals, Kalloc, allocVars, pageVars,
       procVars, loopVars, callVars
<1>9. va[p] \in 0 .. MaxPages /\ end[p] \in 0 .. MaxPages /\ MaxPages \in Nat
  BY <1>0, CowMemAssumption DEF TypeOK
<1>x. CASE va[p] >= end[p]
  <2>1. ~InCall(p) /\ ~InCall(p)'
    BY <1>0, <1>x DEF Unmap, InCall, pageAllocPc, TypeOK, Goto
  <2> QED
    BY <1>1, <1>2, <1>3, <1>8, <2>1, IdleStep DEF Still
<1>y. CASE va[p] < end[p]
  <2> DEFINE f == frame[tgt[p]][va[p]]
             u == <<tgt[p], va[p]>>
  <2>1. /\ pc[p] = "unmap" /\ f # None /\ CallKfree(p, f, "unmap_clear")
        /\ UNCHANGED <<tgt, va>>
    BY <1>9, <1>y DEF Unmap, loopVars
  <2>2. va[p] \in VA /\ tgt[p] \in Proc
    BY <1>0, <1>9, <1>y DEF VA, TypeOK
  <2>3. u \in allocUses /\ allocPage[u] = f /\ allocOwner[u] = p
    <3>1. useOfEntry(tgt[p], va[p]) = f /\ worker(tgt[p]) = p
      BY <1>1, <1>3, Mapped DEF InHandMap
    <3> QED
      BY <2>2, <3>1, EntryUse
  <2>5. /\ allocPc[p] = "idle" /\ allocPc'[p] = "remove_read"
        /\ allocArg'[p] = f /\ allocUse'[p] = u /\ allocRef'[p] = allocRef[p]
    BY <1>0, <2>1 DEF allocPc, allocArg, allocUse, allocRef, InCall, pageAllocPc,
         KfreePcs, TypeOK, CallKfree, Goto
  <2> HIDE DEF f, u
  <2>6. /\ allocPc' = [allocPc EXCEPT ![p] = "remove_read"]
        /\ allocArg' = [allocArg EXCEPT ![p] = f]
        /\ allocUse' = [allocUse EXCEPT ![p] = u]
        /\ allocRef' = allocRef
    <3>2. /\ allocPc' = [allocPc EXCEPT ![p] = allocPc'[p]]
          /\ allocArg' = [allocArg EXCEPT ![p] = allocArg'[p]]
          /\ allocUse' = [allocUse EXCEPT ![p] = allocUse'[p]]
          /\ allocRef' = [allocRef EXCEPT ![p] = allocRef'[p]]
      BY <1>2, <2>2, CallChange
    <3> QED
      BY <2>5, <3>2, CallFuns
  <2>7. Alloc!FreeCall(p, u)
    BY <1>4, <1>8, <2>1, <2>3, <2>5, <2>6 DEF Alloc!FreeCall, Alloc!Goto
  <2> QED
    BY <2>3, <2>7
<1> QED
  BY <1>9, <1>x, <1>y

LEMMA KfCasMap ==
  ASSUME PageTableInv, PageTableInv', NEW p \in Proc, KfCas(p)
  PROVE  Alloc!RemoveCas(p)
<1>0. TypeOK /\ Life(p) /\ Locals(p)
  BY InvFacts
<1>1. /\ pc[p] # "dead" /\ pc'[p] # "dead" /\ Quiet(p)
      /\ \A q \in Proc \ {p} : ref'[q] = ref[q]
  BY <1>0 DEF KfCas, TypeOK, Quiet, Life, Locals, Copying, Unmapping, Growing, KfreePcs,
       CowPcs, GrowPcs, CopyPcs, UnmapPcs, Goto, pageVars, procVars, loopVars, callVars
<1>2. Shape(p, tgt[p]) /\ tgt'[p] = tgt[p] /\ frame' = frame
  BY <1>1, QuietShape
<1>3. /\ pc[p] = "kf_cas" /\ allocPc[p] = "remove_cas"
      /\ allocArg[p] = pa[p] /\ allocRef[p] = ref[p] /\ ref[p] \in Int
      /\ allocUse[p] = IF ret[p] # "unmap_clear" THEN <<p, MaxPages>> ELSE <<tgt[p], va[p]>>
      /\ ret[p] \in {"return", "copyout", "unmap_clear", "grow_undo"}
  BY <1>0 DEF KfCas, allocPc, allocArg, allocUse, allocRef, InCall, pageAllocPc,
       KfreePcs, TypeOK
<1>4. CASE references[allocArg[p]] # allocRef[p]
  <2>a. tgt[p] \in Proc
    BY <1>0 DEF TypeOK
  <2>b. /\ allocPc' = [allocPc EXCEPT ![p] = allocPc'[p]]
        /\ allocArg' = [allocArg EXCEPT ![p] = allocArg'[p]]
        /\ allocUse' = [allocUse EXCEPT ![p] = allocUse'[p]]
        /\ allocRef' = [allocRef EXCEPT ![p] = allocRef'[p]]
    BY <1>2, <2>a, CallChange
  <2>1. pc'[p] = "kf_read" /\ UNCHANGED <<free, references, loopVars, callVars>>
    BY <1>0, <1>3, <1>4 DEF KfCas, TypeOK, Goto, loopVars, callVars
  <2>2. (Uncounted(p)' <=> Uncounted(p)) /\ va' = va /\ useOfLocals(p)' = useOfLocals(p)
    BY <1>3, <2>1 DEF Uncounted, useOfLocals, loopVars, callVars
  <2>3. allocPage' = allocPage /\ allocOwner' = allocOwner
    BY <1>1, <1>2, <2>2, StillUses DEF Still
  <2>4. /\ allocPc'[p] = "remove_read" /\ allocArg'[p] = allocArg[p]
        /\ allocUse'[p] = allocUse[p] /\ allocRef'[p] = 0
    BY <1>2, <1>3, <2>1 DEF allocPc, allocArg, allocUse, allocRef, InCall, pageAllocPc,
         KfreePcs, loopVars, callVars
  <2>5. /\ allocPc' = [allocPc EXCEPT ![p] = "remove_read"]
        /\ allocRef' = [allocRef EXCEPT ![p] = 0]
        /\ allocArg' = allocArg /\ allocUse' = allocUse
    BY <2>4, <2>b, CallFuns
  <2> QED
    BY <1>3, <1>4, <2>1, <2>3, <2>5 DEF Alloc!RemoveCas, Alloc!Goto
<1>5. CASE references[allocArg[p]] = allocRef[p]
  <2>a. tgt[p] \in Proc
    BY <1>0 DEF TypeOK
  <2>b. /\ allocPc' = [allocPc EXCEPT ![p] = allocPc'[p]]
        /\ allocArg' = [allocArg EXCEPT ![p] = allocArg'[p]]
        /\ allocUse' = [allocUse EXCEPT ![p] = allocUse'[p]]
        /\ allocRef' = [allocRef EXCEPT ![p] = allocRef'[p]]
    BY <1>2, <2>a, CallChange
  <2>1. /\ references' = [references EXCEPT ![allocArg[p]] = allocRef[p] - 1]
        /\ UNCHANGED <<free, loopVars, callVars>>
        /\ pc'[p] = IF StillUsed(ref[p] - 1) THEN ret[p] ELSE "kf_zero"
    BY <1>0, <1>3, <1>5 DEF KfCas, TypeOK, Goto
  <2>2. allocOwner' = allocOwner /\ allocPage' = [allocPage EXCEPT ![allocUse[p]] = None]
    <3>1. CASE ret[p] # "unmap_clear"
      <4>1. ~Uncounted(p) /\ ~Uncounted(p)' /\ useOfLocals(p)' = None
        BY <1>3, <2>1, <3>1 DEF Uncounted, useOfLocals, callVars
      <4>2. /\ allocOwner' = allocOwner
            /\ \A u \in allocUses \ {<<p, MaxPages>>} : UseSame(u)
        BY <1>1, <1>2, <4>1, StillUses DEF Still
      <4> QED
        BY <1>3, <3>1, <4>1, <4>2, LocalUse, PageChange
    <3>2. CASE ret[p] = "unmap_clear"
      <4>1. PICK c \in Proc, v \in VA : c = tgt[p] /\ v = va[p]
        <5>1. va[p] < end[p]
          BY <1>0, <1>3, <3>2 DEF Locals, Unmapping, KfreePcs
        <5>2. va[p] \in 0 .. MaxPages /\ end[p] \in 0 .. MaxPages /\ MaxPages \in Nat
          BY <1>0, CowMemAssumption DEF TypeOK
        <5> QED
          BY <2>a, <5>1, <5>2 DEF VA
      <4>2. ~Uncounted(p) /\ Uncounted(p)' /\ useOfLocals(p)' = useOfLocals(p) /\ va'[p] = va[p]
        BY <1>3, <2>1, <3>2 DEF Uncounted, useOfLocals, callVars, loopVars
      <4>3. /\ allocOwner' = allocOwner
            /\ \A u \in allocUses \ {<<c, v>>} : UseSame(u)
            /\ <<c, v>> \in allocUses
            /\ allocPage'[<<c, v>>] = None
        BY <1>1, <1>2, <4>1, <4>2, HandUses
      <4> QED
        BY <1>3, <3>2, <4>1, <4>3, PageChange
    <3> QED
      BY <3>1, <3>2
  <2>3. StillUsed(ref[p] - 1) <=> Alloc!StillUsed(allocRef[p] - 1)
    BY <1>3 DEF StillUsed, Alloc!StillUsed
  <2>4. CASE StillUsed(ref[p] - 1)
    <3>1. allocPc'[p] = "idle" /\ allocArg'[p] = None /\ allocUse'[p] = None /\ allocRef'[p] = 0
      BY <1>3, <2>1, <2>4 DEF allocPc, allocArg, allocUse, allocRef, InCall,
           pageAllocPc, KfreePcs
    <3>2. /\ allocPc' = [allocPc EXCEPT ![p] = "idle"]
          /\ allocArg' = [allocArg EXCEPT ![p] = None]
          /\ allocUse' = [allocUse EXCEPT ![p] = None]
          /\ allocRef' = [allocRef EXCEPT ![p] = 0]
      BY <2>b, <3>1
    <3> QED
      BY <1>3, <1>5, <2>1, <2>2, <2>3, <2>4, <3>2 DEF Alloc!RemoveCas, Alloc!Return,
           Alloc!Goto
  <2>5. CASE ~StillUsed(ref[p] - 1)
    <3>1. /\ allocPc'[p] = "zero" /\ allocArg'[p] = allocArg[p]
          /\ allocUse'[p] = allocUse[p] /\ allocRef'[p] = 0
      BY <1>2, <1>3, <2>1, <2>5 DEF allocPc, allocArg, allocUse, allocRef, InCall,
           pageAllocPc, KfreePcs, callVars, loopVars
    <3>2. /\ allocPc' = [allocPc EXCEPT ![p] = "zero"]
          /\ allocRef' = [allocRef EXCEPT ![p] = 0]
          /\ allocArg' = allocArg /\ allocUse' = allocUse
      BY <2>b, <3>1, CallFuns
    <3> QED
      BY <1>3, <1>5, <2>1, <2>2, <2>3, <2>5, <3>2 DEF Alloc!RemoveCas, Alloc!Goto
  <2> QED
    BY <2>4, <2>5
<1> QED
  BY <1>4, <1>5

LEMMA RefCasMap ==
  ASSUME PageTableInv, PageTableInv', NEW p \in Proc, RefCas(p)
  PROVE  Alloc!AddCas(p)
<1>0. TypeOK /\ Life(p) /\ Locals(p)
  BY InvFacts
<1>1. /\ pc[p] # "dead" /\ pc'[p] # "dead" /\ Quiet(p)
      /\ \A q \in Proc \ {p} : ref'[q] = ref[q]
  BY <1>0 DEF RefCas, TypeOK, Quiet, Life, Locals, Copying, Unmapping, Growing,
       KfreePcs, CowPcs, GrowPcs, CopyPcs, UnmapPcs, Goto, pageVars, procVars, callVars
<1>2. Shape(p, tgt[p]) /\ tgt'[p] = tgt[p] /\ frame' = frame
  BY <1>1, QuietShape
<1>3. /\ pc[p] = "ref_cas" /\ allocPc[p] = "add_cas" /\ ref[p] \in Int
      /\ allocArg[p] = frame[p][va[p]] /\ allocRef[p] = ref[p] /\ allocUse[p] = <<tgt[p], va[p]>>
  BY <1>0 DEF RefCas, allocPc, allocArg, allocUse, allocRef, InCall, pageAllocPc,
       KfreePcs, TypeOK
<1>4. CASE references[allocArg[p]] # allocRef[p]
  <2>a. tgt[p] \in Proc
    BY <1>0 DEF TypeOK
  <2>b. /\ allocPc' = [allocPc EXCEPT ![p] = allocPc'[p]]
        /\ allocArg' = [allocArg EXCEPT ![p] = allocArg'[p]]
        /\ allocUse' = [allocUse EXCEPT ![p] = allocUse'[p]]
        /\ allocRef' = [allocRef EXCEPT ![p] = allocRef'[p]]
    BY <1>2, <2>a, CallChange
  <2>1. pc'[p] = "ref_read" /\ UNCHANGED <<free, references, loopVars, callVars>>
    BY <1>0, <1>3, <1>4 DEF RefCas, TypeOK, Goto, loopVars, callVars
  <2>2. (Uncounted(p)' <=> Uncounted(p)) /\ va' = va /\ useOfLocals(p)' = useOfLocals(p)
    BY <1>3, <2>1 DEF Uncounted, useOfLocals, loopVars, callVars
  <2>3. allocPage' = allocPage /\ allocOwner' = allocOwner
    BY <1>1, <1>2, <2>2, StillUses DEF Still
  <2>4. /\ allocPc'[p] = "add_read" /\ allocArg'[p] = allocArg[p]
        /\ allocUse'[p] = allocUse[p] /\ allocRef'[p] = 0
    BY <1>2, <1>3, <2>1 DEF allocPc, allocArg, allocUse, allocRef, InCall, pageAllocPc,
         KfreePcs, loopVars, callVars
  <2>5. /\ allocPc' = [allocPc EXCEPT ![p] = "add_read"]
        /\ allocRef' = [allocRef EXCEPT ![p] = 0]
        /\ allocArg' = allocArg /\ allocUse' = allocUse
    BY <2>4, <2>b, CallFuns
  <2> QED
    BY <1>3, <1>4, <2>1, <2>3, <2>5 DEF Alloc!AddCas, Alloc!Goto
<1>5. CASE references[allocArg[p]] = allocRef[p]
  <2>a. tgt[p] \in Proc
    BY <1>0 DEF TypeOK
  <2>b. /\ allocPc' = [allocPc EXCEPT ![p] = allocPc'[p]]
        /\ allocArg' = [allocArg EXCEPT ![p] = allocArg'[p]]
        /\ allocUse' = [allocUse EXCEPT ![p] = allocUse'[p]]
        /\ allocRef' = [allocRef EXCEPT ![p] = allocRef'[p]]
    BY <1>2, <2>a, CallChange
  <2>1. /\ references' = [references EXCEPT ![allocArg[p]] = allocRef[p] + 1]
        /\ UNCHANGED <<free, callVars>> /\ tgt' = tgt
        /\ pc'[p] = "copy"
    BY <1>0, <1>3, <1>5 DEF RefCas, TypeOK, Goto
  <2>2. allocOwner' = allocOwner /\ allocPage' = [allocPage EXCEPT ![allocUse[p]] = allocArg[p]]
    <3>1. va[p] < sz[p] /\ frame[tgt[p]][va[p]] = frame[p][va[p]]
      BY <1>0, <1>3 DEF Locals
    <3>2. PICK c \in Proc, v \in VA : c = tgt[p] /\ v = va[p]
      <4>1. va[p] \in 0 .. MaxPages /\ sz[p] \in 0 .. MaxPages /\ MaxPages \in Nat
        BY <1>0, CowMemAssumption DEF TypeOK
      <4> QED
        BY <2>a, <3>1, <4>1 DEF VA
    <3>3. Uncounted(p) /\ ~Uncounted(p)' /\ useOfLocals(p)' = useOfLocals(p)
      BY <1>3, <2>1 DEF Uncounted, useOfLocals, callVars
    <3>4. /\ allocOwner' = allocOwner
          /\ \A u \in allocUses \ {<<c, v>>} : UseSame(u)
          /\ <<c, v>> \in allocUses
          /\ allocPage'[<<c, v>>] = frame[c][v]
      BY <1>1, <1>2, <3>2, <3>3, HandUses
    <3> QED
      BY <1>3, <3>1, <3>2, <3>4, PageChange
  <2>3. allocPc'[p] = "idle" /\ allocArg'[p] = None /\ allocUse'[p] = None /\ allocRef'[p] = 0
    BY <1>3, <2>1 DEF allocPc, allocArg, allocUse, allocRef, InCall, pageAllocPc, KfreePcs
  <2>4. /\ allocPc' = [allocPc EXCEPT ![p] = "idle"]
        /\ allocArg' = [allocArg EXCEPT ![p] = None]
        /\ allocUse' = [allocUse EXCEPT ![p] = None]
        /\ allocRef' = [allocRef EXCEPT ![p] = 0]
    BY <2>b, <2>3
  <2> QED
    BY <1>3, <1>5, <2>1, <2>2, <2>4 DEF Alloc!AddCas, Alloc!Return, Alloc!Goto
<1> QED
  BY <1>4, <1>5

LEMMA CowAllocMap ==
  ASSUME PageTableInv, PageTableInv', NEW p \in Proc, CowAlloc(p)
  PROVE  \/ UNCHANGED Alloc!vars
         \/ Alloc!Kalloc(p, <<p, MaxPages>>)
<1>0. TypeOK /\ Life(p) /\ Locals(p)
  BY InvFacts
<1>1. /\ pc[p] # "dead" /\ pc'[p] # "dead" /\ Quiet(p)
      /\ \A q \in Proc \ {p} : ref'[q] = ref[q]
  BY <1>0 DEF CowAlloc, TypeOK, Quiet, Life, Locals, Copying, Unmapping, Growing,
       KfreePcs, CowPcs, GrowPcs, CopyPcs, UnmapPcs, Goto, Kalloc, allocVars, pageVars,
       procVars, loopVars
<1>2. Shape(p, tgt[p]) /\ tgt'[p] = tgt[p] /\ frame' = frame
  BY <1>1, QuietShape
<1>3. ~InCall(p) /\ ~InCall(p)' /\ ~Uncounted(p) /\ ~Uncounted(p)' /\ useOfLocals(p) = None
  BY <1>0 DEF CowAlloc, InCall, pageAllocPc, Uncounted, useOfLocals, TypeOK, Goto,
       Kalloc, allocVars, pageVars, procVars, loopVars
<1>4. CASE pc'[p] # "cow_copy"
  <2>1. UNCHANGED <<free, references>> /\ useOfLocals(p)' = None
    BY <1>0, <1>4 DEF CowAlloc, useOfLocals, TypeOK, Goto, Kalloc, allocVars, pageVars,
         procVars, loopVars
  <2> QED
    BY <1>1, <1>2, <1>3, <2>1, IdleStep DEF Still
<1>5. CASE pc'[p] = "cow_copy"
  <2>1. PICK f \in free : Kalloc(f) /\ npa' = [npa EXCEPT ![p] = f]
    BY <1>0, <1>5 DEF CowAlloc, TypeOK, Goto
  <2>2. useOfLocals(p)' = f
    BY <1>0, <1>5, <2>1 DEF useOfLocals, TypeOK
  <2>3. /\ allocOwner' = allocOwner
        /\ \A u \in allocUses \ {<<p, MaxPages>>} : UseSame(u)
    BY <1>1, <1>2, <1>3, StillUses DEF Still
  <2>4. /\ allocPage' = [allocPage EXCEPT ![<<p, MaxPages>>] = f]
        /\ allocPage[<<p, MaxPages>>] = None /\ allocOwner[<<p, MaxPages>>] = p
    BY <1>3, <2>2, <2>3, LocalUse, PageChange
  <2>5. UNCHANGED <<allocPc, allocArg, allocUse, allocRef>>
    <3>1. tgt[p] \in Proc
      BY <1>0 DEF TypeOK
    <3> QED
      BY <1>2, <1>3, <3>1, IdleCall, CallsSame
  <2>6. allocPc[p] = "idle"
    BY <1>3 DEF allocPc
  <2> QED
    BY <2>1, <2>3, <2>4, <2>5, <2>6 DEF Alloc!Kalloc, Kalloc
<1> QED
  BY <1>4, <1>5

LEMMA GrowAllocMap ==
  ASSUME PageTableInv, PageTableInv', NEW p \in Proc, GrowAlloc(p)
  PROVE  \/ UNCHANGED Alloc!vars
         \/ Alloc!Kalloc(p, <<p, MaxPages>>)
<1>0. TypeOK /\ Life(p) /\ Locals(p)
  BY InvFacts
<1>1. /\ pc[p] # "dead" /\ pc'[p] # "dead" /\ Quiet(p)
      /\ \A q \in Proc \ {p} : ref'[q] = ref[q]
  BY <1>0 DEF GrowAlloc, TypeOK, Quiet, Life, Locals, Copying, Unmapping, Growing,
       KfreePcs, CowPcs, GrowPcs, CopyPcs, UnmapPcs, Goto, CallUnmap, Kalloc, allocVars,
       pageVars, procVars, loopVars
<1>2. Shape(p, tgt[p]) /\ tgt'[p] = tgt[p] /\ frame' = frame
  BY <1>1, QuietShape
<1>3. ~InCall(p) /\ ~InCall(p)' /\ ~Uncounted(p) /\ ~Uncounted(p)' /\ useOfLocals(p) = None
  BY <1>0 DEF GrowAlloc, MoreToGrow, InCall, pageAllocPc, Uncounted, useOfLocals,
       TypeOK, Goto, CallUnmap, Kalloc, allocVars, pageVars, procVars, loopVars
<1>4. CASE pc'[p] # "grow_map"
  <2>1. UNCHANGED <<free, references>> /\ useOfLocals(p)' = None
    BY <1>0, <1>4 DEF GrowAlloc, MoreToGrow, useOfLocals, TypeOK, Goto, CallUnmap,
         Kalloc, allocVars, pageVars, procVars, loopVars
  <2> QED
    BY <1>1, <1>2, <1>3, <2>1, IdleStep DEF Still
<1>5. CASE pc'[p] = "grow_map"
  <2>1. PICK f \in free : Kalloc(f) /\ npa' = [npa EXCEPT ![p] = f]
    BY <1>0, <1>5 DEF GrowAlloc, MoreToGrow, TypeOK, CallUnmap, Goto
  <2>2. useOfLocals(p)' = f
    BY <1>0, <1>5, <2>1 DEF useOfLocals, TypeOK
  <2>3. /\ allocOwner' = allocOwner
        /\ \A u \in allocUses \ {<<p, MaxPages>>} : UseSame(u)
    BY <1>1, <1>2, <1>3, StillUses DEF Still
  <2>4. /\ allocPage' = [allocPage EXCEPT ![<<p, MaxPages>>] = f]
        /\ allocPage[<<p, MaxPages>>] = None /\ allocOwner[<<p, MaxPages>>] = p
    BY <1>3, <2>2, <2>3, LocalUse, PageChange
  <2>5. UNCHANGED <<allocPc, allocArg, allocUse, allocRef>>
    <3>1. tgt[p] \in Proc
      BY <1>0 DEF TypeOK
    <3> QED
      BY <1>2, <1>3, <3>1, IdleCall, CallsSame
  <2>6. allocPc[p] = "idle"
    BY <1>3 DEF allocPc
  <2> QED
    BY <2>1, <2>3, <2>4, <2>5, <2>6 DEF Alloc!Kalloc, Kalloc
<1> QED
  BY <1>4, <1>5

-----------------------------------------------------------------------------
(* Steps that change a page table *)

LEMMA PageChangeTwo ==
  ASSUME NEW u \in allocUses, NEW w \in allocUses, u # w,
         \A x \in allocUses \ {u, w} : UseSame(x)
  PROVE  allocPage' = [allocPage EXCEPT ![u] = allocPage'[u], ![w] = allocPage'[w]]
BY DEF UseSame, allocPage

\* p moves the page of its own entry v to its locals, or the other way round.
LEMMA MoveStep ==
  ASSUME PageTableInv, PageTableInv', NEW p \in Proc, NEW v \in VA, tgt[p] = p, tgt'[p] = p,
         pc[p] # "dead", pc'[p] # "dead", Shape(p, p), ~InCall(p), ~InCall(p)',
         ~Uncounted(p), ~Uncounted(p)', UNCHANGED <<free, references>>,
         \A w \in VA : w # v => frame'[p][w] = frame[p][w],
         frame'[p][v] = useOfLocals(p), useOfLocals(p)' = frame[p][v]
  PROVE  Alloc!Move(p, <<p, v>>, <<p, MaxPages>>)
<1>1. InHandMap(p) /\ InHandMap(p)'
  BY Mapped, MappedNext
<1>2. /\ \A w : useOfEntry(p, w) = frame[p][w] /\ useOfEntry(p, w)' = frame'[p][w]
      /\ worker(p) = p /\ worker(p)' = p
  BY <1>1 DEF InHandMap
<1>3. allocOwner' = allocOwner
  BY <1>2, OwnersSame
<1>4. \A u \in allocUses \ {<<p, v>>, <<p, MaxPages>>} : UseSame(u)
  <2>1. \A w \in VA : <<p, w>> \notin {<<p, v>>, <<p, MaxPages>>} =>
           useOfEntry(p, w)' = useOfEntry(p, w)
    BY <1>2
  <2>2. <<p, MaxPages>> \notin {<<p, v>>, <<p, MaxPages>>} => useOfLocals(p)' = useOfLocals(p)
    OBVIOUS
  <2> QED
    BY <2>1, <2>2, UsesSame
<1>5. /\ <<p, v>> \in allocUses /\ <<p, MaxPages>> \in allocUses /\ <<p, v>> # <<p, MaxPages>>
      /\ allocOwner[<<p, v>>] = p /\ allocOwner[<<p, MaxPages>>] = p
      /\ allocPage'[<<p, v>>] = allocPage[<<p, MaxPages>>]
      /\ allocPage'[<<p, MaxPages>>] = allocPage[<<p, v>>]
  BY <1>2, EntryUse, LocalUse
<1>6. allocPage' = [allocPage EXCEPT ![<<p, v>>] = allocPage[<<p, MaxPages>>],
                                     ![<<p, MaxPages>>] = allocPage[<<p, v>>]]
  BY <1>4, <1>5, PageChangeTwo, ZenonT(40)
<1>7. UNCHANGED <<allocPc, allocArg, allocUse, allocRef>>
  BY IdleCall, CallsSame
<1>8. allocPc[p] = "idle"
  BY DEF allocPc
<1> QED
  BY <1>3, <1>5, <1>6, <1>7, <1>8 DEF Alloc!Move

LEMMA CowInstallMap ==
  ASSUME PageTableInv, PageTableInv', NEW p \in Proc, CowInstall(p)
  PROVE  \E v \in VA : Alloc!Move(p, <<p, v>>, <<p, MaxPages>>)
<1>0. TypeOK /\ Life(p) /\ Locals(p)
  BY InvFacts
<1>1. pc[p] = "cow_install" /\ tgt[p] = p /\ va[p] \in VA
  BY <1>0 DEF CowInstall, Life, Locals, Copying, Unmapping, Cowing, KfreePcs, CowPcs,
       CopyPcs,
     UnmapPcs
<1>2. PICK v \in VA : v = va[p]
  BY <1>1
<1>3. /\ pc' = [pc EXCEPT ![p] = "cow_free"]
      /\ pa' = [pa EXCEPT ![p] = frame[p][v]]
      /\ frame' = [frame EXCEPT ![p][v] = npa[p]]
      /\ flags' = [flags EXCEPT ![p][v] = (@ \ {PTE_COW}) \cup {PTE_W}]
      /\ UNCHANGED <<free, references, state, parent, sz, tgt, va, end, newsz, after>>
      /\ UNCHANGED <<npa, ref, ret>>
  BY <1>2 DEF CowInstall, Goto, allocVars, procVars, loopVars
<1>4. Alone(p, p)
  BY <1>1, OneInHand
<1>5. Touches(p, p)
  BY <1>0, <1>1, <1>3 DEF Touches, TypeOK
<1>6. Shape(p, p)
  BY <1>3, <1>4, <1>5 DEF Shape
<1>7. pc'[p] = "cow_free" /\ tgt'[p] = p
  BY <1>0, <1>1, <1>3 DEF TypeOK
<1>8. ~InCall(p) /\ ~InCall(p)' /\ ~Uncounted(p) /\ ~Uncounted(p)'
  BY <1>1, <1>7 DEF InCall, pageAllocPc, Uncounted
<1>9. /\ \A w \in VA : w # v => frame'[p][w] = frame[p][w]
      /\ frame'[p][v] = npa[p] /\ pa'[p] = frame[p][v]
  BY <1>0, <1>3 DEF TypeOK
<1>10. useOfLocals(p) = npa[p] /\ useOfLocals(p)' = pa'[p]
  BY <1>1, <1>7 DEF useOfLocals
<1>11. UNCHANGED <<free, references>>
  BY <1>3
<1> QED
  BY <1>1, <1>6, <1>7, <1>8, <1>9, <1>10, <1>11, MoveStep

LEMMA GrowMapMap ==
  ASSUME PageTableInv, PageTableInv', NEW p \in Proc, GrowMap(p)
  PROVE  \/ \E v \in VA : Alloc!Move(p, <<p, v>>, <<p, MaxPages>>)
         \/ Alloc!FreeCall(p, <<p, MaxPages>>)
<1>0. TypeOK /\ Life(p) /\ Locals(p) /\ Own(p)
  BY InvFacts
<1>1. CASE pc'[p] = "grow_alloc"
  <2>1. /\ pc[p] = "grow_map" /\ tgt[p] = p /\ Growing(p) /\ va[p] < end[p]
        /\ state[p] = "RUNNABLE"
    BY <1>0 DEF GrowMap, Life, Locals, Growing, Copying, Unmapping, KfreePcs, GrowPcs,
         CopyPcs,
       UnmapPcs
  <2>2. va[p] \in VA /\ va[p] \in Int
    <3>1. va[p] \in 0 .. MaxPages /\ end[p] \in 0 .. MaxPages /\ MaxPages \in Nat
      BY <1>0, CowMemAssumption DEF TypeOK
    <3> QED
      BY <2>1, <3>1 DEF VA
  <2>3. PICK v \in VA : v = va[p]
    BY <2>2
  <2>4. /\ pc' = [pc EXCEPT ![p] = "grow_alloc"]
        /\ frame' = [frame EXCEPT ![p][v] = npa[p]]
        /\ flags' = [flags EXCEPT ![p][v] = {PTE_W}]
        /\ va' = [va EXCEPT ![p] = @ + 1]
        /\ UNCHANGED <<free, references, state, parent, sz, tgt, end, newsz, after>>
        /\ UNCHANGED <<pa, npa, ref, ret>>
    BY <1>0, <1>1, <2>3 DEF GrowMap, TypeOK, CallKfree, Goto, procVars
  <2>5. Alone(p, p)
    BY <2>1, OneInHand
  <2>6. Touches(p, p)
    BY <1>0, <2>1, <2>4 DEF Touches, TypeOK
  <2>7. Shape(p, p)
    BY <2>4, <2>5, <2>6 DEF Shape
  <2>8. ~InCall(p) /\ ~InCall(p)' /\ ~Uncounted(p) /\ ~Uncounted(p)' /\ tgt'[p] = p
    BY <1>1, <2>1, <2>4 DEF InCall, pageAllocPc, Uncounted
  <2>9. /\ \A w \in VA : w # v => frame'[p][w] = frame[p][w]
        /\ frame'[p][v] = npa[p]
    BY <1>0, <2>4 DEF TypeOK
  <2>10. frame[p][v] = None
    <3>1. v \notin OwnPages(p)
      BY <2>1, <2>2, <2>3 DEF OwnPages
    <3> QED
      BY <1>0, <2>1, <3>1 DEF Own
  <2>11. useOfLocals(p) = npa[p] /\ useOfLocals(p)' = None
    BY <1>1, <2>1 DEF useOfLocals
  <2>12. UNCHANGED <<free, references>>
    BY <2>4
  <2> QED
    BY <1>1, <2>1, <2>7, <2>8, <2>9, <2>10, <2>11, <2>12, MoveStep
<1>2. CASE pc'[p] # "grow_alloc"
  <2>1. GrowMapFails(p)
    BY <1>0, <1>2 DEF GrowMap, GrowMapFails, Goto, TypeOK, loopVars
  <2> QED
    BY <2>1, GrowMapFailsMap
<1> QED
  BY <1>1, <1>2

\* A step that changes one entry of the table in hand, before and after
\* which that entry is not counted.
LEMMA EntryStep ==
  ASSUME PageTableInv, PageTableInv', NEW p \in Proc, NEW c \in Proc, NEW v \in VA,
         c = tgt[p], tgt'[p] = tgt[p], v = va[p], pc[p] # "dead", pc'[p] # "dead",
         Shape(p, c), \A w \in VA : w # v => frame'[c][w] = frame[c][w],
         c # p => frame'[p] = frame[p],
         useOfLocals(p)' = useOfLocals(p), Uncounted(p)' => va'[p] = v,
         Uncounted(p) \/ frame[c][v] = None, Uncounted(p)' \/ frame'[c][v] = None
  PROVE  allocOwner' = allocOwner /\ allocPage' = allocPage
<1>1. InHandMap(p) /\ InHandMap(p)' /\ tgt'[p] = c
  BY Mapped, MappedNext
<1>2. \A w \in VA : w # v => useOfEntry(c, w)' = useOfEntry(c, w)
  BY <1>1 DEF InHandMap
<1>3. useOfEntry(c, v)' = None /\ useOfEntry(c, v) = None
  BY <1>1 DEF InHandMap
<1>4. \A w \in VA : useOfEntry(c, w)' = useOfEntry(c, w)
  BY <1>2, <1>3
<1>5. \A w \in VA : useOfEntry(p, w)' = useOfEntry(p, w)
  BY <1>1, <1>4 DEF InHandMap
<1>6. \A u \in allocUses \ {} : UseSame(u)
  BY <1>4, <1>5, UsesSame, ZenonT(40)
<1>7. worker(p)' = worker(p) /\ worker(c)' = worker(c)
  BY <1>1 DEF InHandMap
<1> QED
  BY <1>6, <1>7, PageSame, OwnersSame

LEMMA UnmapClearMap ==
  ASSUME PageTableInv, PageTableInv', NEW p \in Proc, UnmapClear(p)
  PROVE  UNCHANGED Alloc!vars
<1>0. TypeOK /\ Life(p) /\ Locals(p)
  BY InvFacts
<1>1. pc[p] = "unmap_clear" /\ Unmapping(p) /\ va[p] < end[p]
  BY <1>0 DEF UnmapClear, Locals, Unmapping, UnmapPcs
<1>2. PICK c \in Proc, v \in VA : c = tgt[p] /\ v = va[p]
  <2>1. /\ va[p] \in 0 .. MaxPages /\ end[p] \in 0 .. MaxPages /\ MaxPages \in Nat
        /\ tgt[p] \in Proc
    BY <1>0, CowMemAssumption DEF TypeOK
  <2> QED
    BY <1>1, <2>1 DEF VA
<1>3. /\ pc' = [pc EXCEPT ![p] = "unmap"]
      /\ frame' = [frame EXCEPT ![c][v] = None]
      /\ flags' = [flags EXCEPT ![c][v] = {}]
      /\ va' = [va EXCEPT ![p] = @ + 1]
      /\ UNCHANGED <<free, references, state, parent, sz, tgt, end, newsz, after>>
      /\ UNCHANGED <<pa, npa, ref, ret>>
  BY <1>2 DEF UnmapClear, Goto, allocVars, procVars, callVars
<1>4. Alone(p, c)
  BY <1>1, <1>2, OneInHand
<1>5. pc'[p] = "unmap" /\ tgt'[p] = tgt[p]
  BY <1>0, <1>3 DEF TypeOK
<1>6. Touches(p, c)
  BY <1>0, <1>2, <1>3 DEF Touches, TypeOK
<1>7. Shape(p, c)
  <2>1. c # p => pc'[c] = "dead"
    BY <1>0, <1>3, <1>4 DEF Alone, TypeOK
  <2> QED
    BY <1>3, <1>4, <1>6, <2>1 DEF Shape
<1>8. /\ \A w \in VA : w # v => frame'[c][w] = frame[c][w]
      /\ frame'[c][v] = None /\ (c # p => frame'[p] = frame[p])
  BY <1>0, <1>3 DEF TypeOK
<1>9. /\ ~InCall(p) /\ ~InCall(p)' /\ Uncounted(p) /\ ~Uncounted(p)'
      /\ useOfLocals(p) = None /\ useOfLocals(p)' = None
  BY <1>1, <1>5 DEF InCall, pageAllocPc, Uncounted, useOfLocals, KfreePcs
<1>10. allocOwner' = allocOwner /\ allocPage' = allocPage
  BY <1>1, <1>2, <1>5, <1>7, <1>8, <1>9, EntryStep
<1>11. UNCHANGED <<allocPc, allocArg, allocUse, allocRef>>
  BY <1>7, <1>9, IdleCall, CallsSame
<1>12. UNCHANGED <<free, references>>
  BY <1>3
<1> QED
  BY <1>10, <1>11, <1>12 DEF Alloc!vars

LEMMA CopyPageMap ==
  ASSUME PageTableInv, PageTableInv', NEW p \in Proc, CopyPage(p)
  PROVE  \/ UNCHANGED Alloc!vars
         \/ \E c \in Proc : \E v \in VA : Alloc!AddCall(p, <<p, v>>, <<c, v>>)
<1>0. TypeOK /\ Life(p) /\ Locals(p) /\ Child(p)
  BY InvFacts
<1>1. /\ pc[p] = "copy" /\ va[p] < sz[p] /\ frame[p][va[p]] # None
      /\ Copying(p) /\ tgt[p] # p
  BY <1>0 DEF CopyPage, Life, Copying, CopyPcs
<1>2. PICK c \in Proc, v \in VA : c = tgt[p] /\ v = va[p]
  <2>1. /\ va[p] \in 0 .. MaxPages /\ sz[p] \in 0 .. MaxPages /\ MaxPages \in Nat
        /\ tgt[p] \in Proc
    BY <1>0, CowMemAssumption DEF TypeOK
  <2> QED
    BY <1>1, <2>1 DEF VA
<1>3. Alone(p, c) /\ c # p
  BY <1>1, <1>2, OneInHand
<1>4. CASE pc'[p] = "ref_read"
  <2>1. /\ pc' = [pc EXCEPT ![p] = "ref_read"]
        /\ frame' = [frame EXCEPT ![c][v] = frame[p][v]]
        /\ flags' = [flags EXCEPT ![p][v] = SharedFlags(flags[p][v]),
                                  ![c][v] = SharedFlags(flags[p][v])]
        /\ UNCHANGED <<free, references, state, parent, sz, tgt, va, end, newsz, after>>
        /\ UNCHANGED <<pa, npa, ref, ret>>
    BY <1>0, <1>2, <1>4 DEF CopyPage, CopyErr, CallUnmap, Goto, TypeOK, allocVars,
         procVars,
       loopVars, callVars
  <2>2. Touches(p, c)
    BY <1>0, <1>2, <2>1 DEF Touches, TypeOK
  <2>3. Shape(p, c)
    <3>1. pc'[c] = "dead"
      BY <1>0, <1>3, <2>1 DEF Alone, TypeOK
    <3> QED
      BY <1>3, <2>1, <2>2, <3>1 DEF Shape
  <2>4. /\ \A w \in VA : w # v => frame'[c][w] = frame[c][w]
        /\ frame'[p] = frame[p]
    BY <1>0, <1>3, <2>1 DEF TypeOK
  <2>5. frame[c][v] = None
    <3>1. v \notin ChildPages(p)
      BY <1>0, <1>1, <1>2 DEF ChildPages, TypeOK
    <3> QED
      BY <1>0, <1>1, <1>2, <3>1 DEF Child
  <2>6. /\ ~InCall(p) /\ ~Uncounted(p) /\ Uncounted(p)' /\ va'[p] = v /\ tgt'[p] = tgt[p]
        /\ useOfLocals(p) = None /\ useOfLocals(p)' = None
    BY <1>1, <1>2, <1>4, <2>1 DEF InCall, pageAllocPc, Uncounted, useOfLocals, KfreePcs
  <2>7. allocOwner' = allocOwner /\ allocPage' = allocPage
    BY <1>1, <1>2, <1>3, <1>4, <2>3, <2>4, <2>5, <2>6, EntryStep
  <2>8. /\ allocPc[p] = "idle" /\ allocPc'[p] = "add_read" /\ allocArg'[p] = frame[p][v]
        /\ allocUse'[p] = <<c, v>> /\ allocRef'[p] = allocRef[p]
    BY <1>1, <1>2, <1>4, <2>1, <2>4, <2>6 DEF allocPc, allocArg, allocUse, allocRef,
         InCall,
       pageAllocPc, KfreePcs
  <2>9. /\ allocPc' = [allocPc EXCEPT ![p] = "add_read"]
        /\ allocArg' = [allocArg EXCEPT ![p] = frame[p][v]]
        /\ allocUse' = [allocUse EXCEPT ![p] = <<c, v>>]
        /\ allocRef' = allocRef
    <3>1. /\ allocPc' = [allocPc EXCEPT ![p] = allocPc'[p]]
          /\ allocArg' = [allocArg EXCEPT ![p] = allocArg'[p]]
          /\ allocUse' = [allocUse EXCEPT ![p] = allocUse'[p]]
          /\ allocRef' = [allocRef EXCEPT ![p] = allocRef'[p]]
      BY <2>3, CallChange
    <3> QED
      BY <2>8, <3>1, CallFuns
  <2>10. /\ allocOwner[<<p, v>>] = p /\ allocPage[<<p, v>>] = frame[p][v]
         /\ allocOwner[<<c, v>>] = p /\ allocPage[<<c, v>>] = None
    <3>1. InHandMap(p)
      BY Mapped
    <3>2. /\ useOfEntry(c, v) = frame[c][v] /\ useOfEntry(p, v) = frame[p][v]
          /\ worker(p) = p /\ worker(c) = p
      BY <1>1, <1>2, <2>6, <3>1 DEF InHandMap
    <3> QED
      BY <2>5, <3>2, EntryUse
  <2>11. UNCHANGED <<free, references>> /\ frame[p][v] # None
    BY <1>1, <1>2, <2>1
  <2>12. Alloc!AddCall(p, <<p, v>>, <<c, v>>)
    BY <2>7, <2>8, <2>9, <2>10, <2>11 DEF Alloc!AddCall, Alloc!Goto
  <2> QED
    BY <2>12
<1>5. CASE pc'[p] # "ref_read"
  <2>1. /\ pc' = [pc EXCEPT ![p] = "unmap"]
        /\ flags' = [flags EXCEPT ![p][v] = SharedFlags(flags[p][v])]
        /\ tgt' = [tgt EXCEPT ![p] = tgt[p]]
        /\ va' = [va EXCEPT ![p] = 0]
        /\ end' = [end EXCEPT ![p] = v]
        /\ after' = [after EXCEPT ![p] = "free_proc"]
        /\ UNCHANGED <<free, references, frame, state, parent, sz, newsz, pa, npa, ref, ret>>
    BY <1>0, <1>2, <1>5 DEF CopyPage, CopyErr, CallUnmap, Goto, TypeOK, allocVars,
         procVars,
       loopVars, callVars
  <2>2. Touches(p, c)
    BY <1>0, <1>2, <2>1 DEF Touches, TypeOK
  <2>3. Shape(p, c)
    <3>1. pc'[c] = "dead"
      BY <1>0, <1>3, <2>1 DEF Alone, TypeOK
    <3> QED
      BY <1>3, <2>1, <2>2, <3>1 DEF Shape
  <2>4. pc'[p] = "unmap" /\ tgt'[p] = tgt[p]
    BY <1>0, <2>1 DEF TypeOK
  <2>5. /\ ~InCall(p) /\ ~InCall(p)' /\ ~Uncounted(p) /\ ~Uncounted(p)'
        /\ useOfLocals(p) = None /\ useOfLocals(p)' = None
    BY <1>1, <2>4 DEF InCall, pageAllocPc, Uncounted, useOfLocals, KfreePcs
  <2>6. Still(p)
    BY <1>1, <1>2, <2>1, <2>3, <2>4, <2>5 DEF Still
  <2>7. UNCHANGED <<free, references>>
    BY <2>1
  <2> QED
    BY <2>5, <2>6, <2>7, IdleStep
<1> QED
  BY <1>4, <1>5

-----------------------------------------------------------------------------
(* Steps that begin or end the work of a process on a table *)

LEMMA SetSizeMap ==
  ASSUME PageTableInv, PageTableInv', NEW p \in Proc, SetSize(p)
  PROVE  UNCHANGED Alloc!vars
<1>0. TypeOK /\ Life(p)
  BY InvFacts
<1>1. pc[p] = "set_size" /\ tgt[p] = p
  BY <1>0 DEF SetSize, Life, Copying, Unmapping, KfreePcs, CopyPcs, UnmapPcs
<1>2. /\ pc' = [pc EXCEPT ![p] = "user"]
      /\ sz' = [sz EXCEPT ![p] = newsz[p]]
      /\ ResetLocals(p)
      /\ UNCHANGED <<free, references, frame, flags, state, parent>>
  BY DEF SetSize, Goto, allocVars, pageVars
<1>3. Alone(p, p)
  BY <1>1, OneInHand
<1>4. Touches(p, p) /\ \A q \in Proc \ {p} : ref'[q] = ref[q]
  BY <1>0, <1>2 DEF Touches, TypeOK, ResetLocals
<1>5. Shape(p, p)
  BY <1>3, <1>4 DEF Shape
<1>6. pc'[p] = "user" /\ tgt'[p] = p
  BY <1>0, <1>2 DEF TypeOK, ResetLocals
<1>7. /\ ~InCall(p) /\ ~InCall(p)' /\ ~Uncounted(p) /\ ~Uncounted(p)'
      /\ useOfLocals(p) = None /\ useOfLocals(p)' = None
  BY <1>1, <1>6 DEF InCall, pageAllocPc, Uncounted, useOfLocals, KfreePcs
<1>8. Still(p)
  BY <1>1, <1>2, <1>5, <1>6, <1>7 DEF Still
<1>9. UNCHANGED <<free, references>>
  BY <1>2
<1> QED
  BY <1>7, <1>8, <1>9, IdleStep

LEMMA ExitMap ==
  ASSUME PageTableInv, PageTableInv', NEW p \in Proc, Exit(p)
  PROVE  UNCHANGED Alloc!vars
<1>0. TypeOK /\ Life(p)
  BY InvFacts
<1>1. pc[p] \in {"user", "exit"} /\ tgt[p] = p
  BY <1>0 DEF Exit, Life, Copying, Unmapping, KfreePcs, CopyPcs, UnmapPcs
<1>2. /\ pc' = [pc EXCEPT ![p] = "dead"]
      /\ parent' = [q \in Proc |-> IF parent[q] = p THEN initproc ELSE parent[q]]
      /\ state' = [state EXCEPT ![p] = "ZOMBIE"]
      /\ ResetLocals(p)
      /\ UNCHANGED <<free, references, frame, flags, sz>>
  BY DEF Exit, Goto, allocVars, pageVars
<1>3. Alone(p, p)
  BY <1>1, OneInHand
<1>4. Touches(p, p) /\ \A q \in Proc \ {p} : ref'[q] = ref[q]
  BY <1>0, <1>2 DEF Touches, TypeOK, ResetLocals
<1>5. Shape(p, p)
  BY <1>3, <1>4 DEF Shape
<1>6. pc'[p] = "dead" /\ \A q \in Proc : q = p \/ tgt'[q] # p
  BY <1>0, <1>2, <1>3, <1>4 DEF TypeOK, Alone, Touches
<1>7. /\ ~InCall(p) /\ ~InCall(p)' /\ ~Uncounted(p)
      /\ useOfLocals(p) = None /\ useOfLocals(p)' = None
  BY <1>1, <1>6 DEF InCall, pageAllocPc, Uncounted, useOfLocals, KfreePcs
<1>8. InHandMap(p) /\ AloneMap(p)'
  BY Mapped, MappedNext
<1>9. /\ \A v : useOfEntry(p, v) = frame[p][v]
      /\ worker(p) = p
  BY <1>1, <1>7, <1>8 DEF InHandMap
<1>10. /\ \A v : useOfEntry(p, v)' = frame[p][v]
       /\ worker(p)' = p
  BY <1>2, <1>6, <1>8 DEF AloneMap
<1>11. \A u \in allocUses \ {} : UseSame(u)
  <2>1. \A v \in VA : <<p, v>> \notin {} => useOfEntry(p, v)' = useOfEntry(p, v)
    BY <1>9, <1>10
  <2>2. <<p, MaxPages>> \notin {} => useOfLocals(p)' = useOfLocals(p)
    BY <1>7
  <2> QED
    BY <1>5, <2>1, <2>2, UsesSame
<1>12. allocPage' = allocPage /\ allocOwner' = allocOwner
  BY <1>5, <1>9, <1>10, <1>11, PageSame, OwnersSame
<1>13. UNCHANGED <<allocPc, allocArg, allocUse, allocRef>>
  BY <1>5, <1>7, IdleCall, CallsSame
<1> QED
  BY <1>2, <1>12, <1>13 DEF Alloc!vars

\* The table of c passes between p and c, neither of which is in a call.
LEMMA HandOverMap ==
  ASSUME PageTableInv, PageTableInv', NEW p \in Proc, NEW c \in Proc, c # p, Shape(p, c),
         ~InCall(p), ~InCall(p)', UNCHANGED <<free, references, frame>>,
         useOfLocals(p)' = useOfLocals(p),
         \A v : useOfEntry(p, v) = frame[p][v], \A v : useOfEntry(p, v)' = frame[p][v],
         \A v : useOfEntry(c, v) = frame[c][v], \A v : useOfEntry(c, v)' = frame[c][v],
         worker(p) = p, worker(p)' = p, worker(c) \in {p, c}, worker(c)' \in {p, c}
  PROVE  Alloc!HandOver
<1>1. allocPage' = allocPage
  <2>1. \A v \in VA : <<p, v>> \notin {} => useOfEntry(p, v)' = useOfEntry(p, v)
    OBVIOUS
  <2>2. \A v \in VA : <<c, v>> \notin {} => useOfEntry(c, v)' = useOfEntry(c, v)
    OBVIOUS
  <2>3. \A u \in allocUses \ {} : UseSame(u)
    BY <2>1, <2>2, UsesSame
  <2> QED
    BY <2>3, PageSame
<1>2. UNCHANGED <<allocPc, allocArg, allocUse, allocRef>>
  BY IdleCall, CallsSame
<1>3. \A r \in Proc \ {c} : worker(r)' = worker(r)
  BY OthersMap
<1>4. \A r \in Proc : worker(r)' \in Proc
  <2>1. \A r \in Proc : worker(r) \in Proc
    BY DEF worker
  <2> QED
    BY <1>3, <2>1
<1>5. allocOwner' \in [allocUses -> Proc]
  BY <1>4 DEF allocOwner, allocUses
<1>6. ~InCall(c)
  BY DEF Shape, Alone, InCall, pageAllocPc
<1>7. allocPc[p] = "idle" /\ allocPc[c] = "idle"
  BY <1>6 DEF allocPc
<1>8. ASSUME NEW u \in allocUses, allocOwner'[u] # allocOwner[u]
      PROVE  allocOwner[u] \in {p, c} /\ allocOwner'[u] \in {p, c}
  <2>1. u[1] \in Proc
    BY DEF allocUses
  <2>2. u[2] < MaxPages /\ worker(u[1])' # worker(u[1])
    BY <1>8 DEF allocOwner, allocUses
  <2>3. u[1] = c
    BY <1>3, <2>1, <2>2
  <2> QED
    BY <2>2, <2>3 DEF allocOwner, allocUses
<1>9. \A u \in allocUses : allocOwner'[u] # allocOwner[u] =>
         allocPc[allocOwner[u]] = "idle" /\ allocPc[allocOwner'[u]] = "idle"
  BY <1>7, <1>8
<1> QED
  BY <1>1, <1>2, <1>5, <1>9 DEF Alloc!HandOver

LEMMA TakeMap ==
  ASSUME PageTableInv, PageTableInv', NEW p \in Proc, NEW c \in Proc, c # p,
         pc[p] = "user", pc'[p] \in {"copy", "unmap"}, tgt[p] = p, tgt'[p] = c, Shape(p, c),
         pc[c] = "dead", \A q \in Proc : q = c \/ tgt[q] # c,
         UNCHANGED <<free, references, frame>>
  PROVE  Alloc!HandOver
<1>1. InHandMap(p) /\ InHandMap(p)' /\ AloneMap(c)
  BY Mapped, MappedNext
<1>2. /\ ~InCall(p) /\ ~InCall(p)' /\ ~Uncounted(p) /\ ~Uncounted(p)'
      /\ useOfLocals(p) = None /\ useOfLocals(p)' = None
  BY DEF InCall, pageAllocPc, Uncounted, useOfLocals, KfreePcs
<1>3. (\A v : useOfEntry(p, v) = frame[p][v]) /\ worker(p) = p
  BY <1>1, <1>2 DEF InHandMap
<1>4. (\A v : useOfEntry(c, v) = frame[c][v]) /\ worker(c) = c
  BY <1>1 DEF AloneMap
<1>5. /\ \A v : useOfEntry(p, v)' = frame[p][v]
      /\ \A v : useOfEntry(c, v)' = frame[c][v]
      /\ worker(p)' = p
      /\ worker(c)' = p
  BY <1>1, <1>2 DEF InHandMap
<1> QED
  BY <1>2, <1>3, <1>4, <1>5, HandOverMap

LEMMA ForkMap ==
  ASSUME PageTableInv, PageTableInv', NEW p \in Proc, NEW c \in Proc, Fork(p, c)
  PROVE  Alloc!HandOver
<1>0. TypeOK /\ Life(p)
  BY InvFacts
<1>1. /\ pc[p] = "user" /\ tgt[p] = p /\ state[p] = "RUNNABLE" /\ state[c] = "UNUSED"
  BY <1>0 DEF Fork, Life, Copying, Unmapping, KfreePcs, CopyPcs, UnmapPcs
<1>2. /\ pc' = [pc EXCEPT ![p] = "copy"]
      /\ tgt' = [tgt EXCEPT ![p] = c]
      /\ va' = [va EXCEPT ![p] = 0]
      /\ state' = [state EXCEPT ![c] = "USED"]
      /\ UNCHANGED <<free, references, frame, flags, parent, sz, end, newsz, after>>
      /\ UNCHANGED <<pa, npa, ref, ret>>
  BY DEF Fork, Goto, allocVars, pageVars, callVars
<1>3. c # p
  BY <1>1
<1>4. pc[c] = "dead" /\ Alone(p, c) /\ tgt[c] = c
  BY <1>1, <1>3, FreeHands
<1>5. Touches(p, c)
  BY <1>0, <1>2 DEF Touches, TypeOK
<1>6. pc'[p] = "copy" /\ pc'[c] = "dead" /\ tgt'[p] = c
  BY <1>0, <1>2, <1>3, <1>4 DEF TypeOK
<1>7. Shape(p, c)
  BY <1>2, <1>4, <1>5, <1>6 DEF Shape
<1>8. \A q \in Proc : q = c \/ tgt[q] # c
  BY <1>1, <1>3, <1>4 DEF Alone
<1>9. UNCHANGED <<free, references, frame>>
  BY <1>2
<1> QED
  BY <1>1, <1>3, <1>4, <1>6, <1>7, <1>8, <1>9, TakeMap

LEMMA WaitMap ==
  ASSUME PageTableInv, PageTableInv', NEW p \in Proc, NEW c \in Proc, Wait(p, c)
  PROVE  Alloc!HandOver
<1>0. TypeOK /\ Life(p)
  BY InvFacts
<1>1. /\ pc[p] = "user" /\ tgt[p] = p /\ state[p] = "RUNNABLE" /\ state[c] = "ZOMBIE"
      /\ parent[c] = p
  BY <1>0 DEF Wait, Life, Copying, Unmapping, KfreePcs, CopyPcs, UnmapPcs
<1>2. /\ pc' = [pc EXCEPT ![p] = "unmap"]
      /\ tgt' = [tgt EXCEPT ![p] = c]
      /\ va' = [va EXCEPT ![p] = 0]
      /\ end' = [end EXCEPT ![p] = sz[c]]
      /\ after' = [after EXCEPT ![p] = "free_proc"]
      /\ UNCHANGED <<free, references, frame, flags, state, parent, sz, newsz>>
      /\ UNCHANGED <<pa, npa, ref, ret>>
  BY DEF Wait, CallUnmap, Goto, allocVars, pageVars, procVars, callVars
<1>3. c # p
  BY <1>1
<1>4. pc[c] = "dead" /\ Alone(p, c) /\ tgt[c] = c
  BY <1>1, <1>3, FreeHands
<1>5. Touches(p, c)
  BY <1>0, <1>2 DEF Touches, TypeOK
<1>6. pc'[p] = "unmap" /\ pc'[c] = "dead" /\ tgt'[p] = c
  BY <1>0, <1>2, <1>3, <1>4 DEF TypeOK
<1>7. Shape(p, c)
  BY <1>2, <1>4, <1>5, <1>6 DEF Shape
<1>8. \A q \in Proc : q = c \/ tgt[q] # c
  BY <1>1, <1>3, <1>4 DEF Alone
<1>9. UNCHANGED <<free, references, frame>>
  BY <1>2
<1> QED
  BY <1>1, <1>3, <1>4, <1>6, <1>7, <1>8, <1>9, TakeMap

LEMMA GiveMap ==
  ASSUME PageTableInv, PageTableInv', NEW p \in Proc, NEW c \in Proc, c # p, c = tgt[p],
         pc[p] \in {"copy", "free_proc"}, pc'[p] = "user", pc'[c] \in {"dead", "user"},
         tgt'[p] = p, Shape(p, c), UNCHANGED <<free, references, frame>>
  PROVE  Alloc!HandOver
<1>1. InHandMap(p) /\ InHandMap(p)' /\ AloneMap(c)'
  BY Mapped, MappedNext
<1>2. /\ ~InCall(p) /\ ~InCall(p)' /\ ~Uncounted(p) /\ ~Uncounted(p)'
      /\ useOfLocals(p) = None /\ useOfLocals(p)' = None
  BY DEF InCall, pageAllocPc, Uncounted, useOfLocals, KfreePcs
<1>3. /\ \A v : useOfEntry(p, v) = frame[p][v]
      /\ \A v : useOfEntry(c, v) = frame[c][v]
      /\ worker(p) = p
      /\ worker(c) = p
  BY <1>1, <1>2 DEF InHandMap
<1>4. (\A v : useOfEntry(p, v)' = frame[p][v]) /\ worker(p)' = p
  BY <1>1, <1>2 DEF InHandMap
<1>5. \A q \in Proc : q = c \/ tgt'[q] # c
  BY DEF Shape, Alone, Touches
<1>6. (\A v : useOfEntry(c, v)' = frame[c][v]) /\ worker(c)' = c
  BY <1>1, <1>5 DEF AloneMap
<1> QED
  BY <1>2, <1>3, <1>4, <1>6, HandOverMap

LEMMA ForkDoneMap ==
  ASSUME PageTableInv, PageTableInv', NEW p \in Proc, ForkDone(p)
  PROVE  Alloc!HandOver
<1>0. TypeOK /\ Life(p)
  BY InvFacts
<1>1. pc[p] = "copy" /\ tgt[p] # p /\ tgt[p] \in Proc
  BY <1>0 DEF ForkDone, Life, Copying, CopyPcs, TypeOK
<1>2. PICK c \in Proc : c = tgt[p]
  BY <1>1
<1>3. /\ pc' = [pc EXCEPT ![p] = "user", ![c] = "user"]
      /\ sz' = [sz EXCEPT ![c] = sz[p]]
      /\ parent' = [parent EXCEPT ![c] = p]
      /\ state' = [state EXCEPT ![c] = "RUNNABLE"]
      /\ ResetLocals(p)
      /\ UNCHANGED <<free, references, frame, flags>>
  BY <1>2 DEF ForkDone, allocVars, pageVars
<1>4. Alone(p, c) /\ c # p
  BY <1>1, <1>2, OneInHand
<1>5. Touches(p, c) /\ \A q \in Proc \ {p} : ref'[q] = ref[q]
  BY <1>0, <1>3 DEF Touches, TypeOK, ResetLocals
<1>6. pc'[p] = "user" /\ pc'[c] = "user" /\ tgt'[p] = p
  BY <1>0, <1>3 DEF TypeOK, ResetLocals
<1>7. Shape(p, c)
  BY <1>4, <1>5, <1>6 DEF Shape
<1>8. UNCHANGED <<free, references, frame>>
  BY <1>3
<1> QED
  BY <1>1, <1>2, <1>4, <1>6, <1>7, <1>8, GiveMap

LEMMA FreeProcMap ==
  ASSUME PageTableInv, PageTableInv', NEW p \in Proc, FreeProc(p)
  PROVE  Alloc!HandOver
<1>0. TypeOK /\ Life(p)
  BY InvFacts
<1>1. pc[p] = "free_proc" /\ tgt[p] # p /\ tgt[p] \in Proc
  BY <1>0 DEF FreeProc, Life, TypeOK
<1>2. PICK c \in Proc : c = tgt[p]
  BY <1>1
<1>3. /\ pc' = [pc EXCEPT ![p] = "user"]
      /\ sz' = [sz EXCEPT ![c] = 0]
      /\ parent' = [parent EXCEPT ![c] = None]
      /\ state' = [state EXCEPT ![c] = "UNUSED"]
      /\ ResetLocals(p)
      /\ UNCHANGED <<free, references, frame, flags>>
  BY <1>2 DEF FreeProc, Goto, allocVars, pageVars
<1>4. Alone(p, c) /\ c # p
  BY <1>1, <1>2, OneInHand
<1>5. Touches(p, c) /\ \A q \in Proc \ {p} : ref'[q] = ref[q]
  BY <1>0, <1>3 DEF Touches, TypeOK, ResetLocals
<1>6. pc'[p] = "user" /\ pc'[c] = "dead" /\ tgt'[p] = p
  BY <1>0, <1>3, <1>4 DEF TypeOK, ResetLocals, Alone
<1>7. Shape(p, c)
  BY <1>4, <1>5, <1>6 DEF Shape
<1>8. UNCHANGED <<free, references, frame>>
  BY <1>3
<1> QED
  BY <1>1, <1>2, <1>4, <1>6, <1>7, <1>8, GiveMap

-----------------------------------------------------------------------------
(* Spec => Alloc!Spec *)

LEMMA OneUse == ASSUME NEW u PROVE Cardinality({u}) = 1 /\ Cardinality({}) = 0
BY FS_Singleton, FS_EmptySet

LEMMA InitMap == Init => Alloc!Init
<1> SUFFICES ASSUME Init PROVE Alloc!Init
  OBVIOUS
<1>1. PICK f \in Frames :
        /\ free = Frames \ {f}
        /\ references = [g \in Frames |-> IF g = f THEN 1 ELSE 0]
        /\ frame = [p \in Proc |-> [v \in VA |->
                      IF p = initproc /\ v = 0 THEN f ELSE None]]
        /\ pc = [p \in Proc |-> IF p = initproc THEN "user" ELSE "dead"]
        /\ tgt = [p \in Proc |-> p]
  BY DEF Init
<1>2. \A p \in Proc : ~InCall(p) /\ ~Uncounted(p) /\ useOfLocals(p) = None
  BY <1>1 DEF InCall, pageAllocPc, Uncounted, useOfLocals, KfreePcs
<1>3. \A p \in Proc : \A v \in VA : useOfEntry(p, v) = IF p = initproc /\ v = 0 THEN f ELSE None
  <2>1. \A p, q \in Proc : \A v \in VA : ~UncountedAt(q, p, v)
    BY <1>2 DEF UncountedAt
  <2> QED
    BY <1>1, <2>1, EntryMap
<1>4. \A p \in Proc : worker(p) = p
  BY <1>1 DEF worker
<1>5. <<initproc, 0>> \in allocUses /\ None \notin Frames
  BY CowMemAssumption DEF allocUses
<1>6. ASSUME NEW u \in allocUses
      PROVE  allocPage[u] = IF u = <<initproc, 0>> THEN f ELSE None
  <2>1. u[1] \in Proc /\ u[2] \in 0 .. MaxPages /\ u = <<u[1], u[2]>> /\ MaxPages \in Nat \ {0}
    BY CowMemAssumption DEF allocUses
  <2>2. CASE u[2] < MaxPages
    <3>1. u[2] \in VA
      BY <2>1, <2>2 DEF VA
    <3>2. allocPage[u] = useOfEntry(u[1], u[2])
      BY <2>2 DEF allocPage
    <3> QED
      BY <1>3, <2>1, <3>1, <3>2
  <2>3. CASE ~(u[2] < MaxPages)
    <3>1. allocPage[u] = None
      BY <1>2, <2>1, <2>3 DEF allocPage
    <3>2. u[2] # 0
      BY <2>1, <2>3
    <3> QED
      BY <3>1, <3>2
  <2> QED
    BY <2>2, <2>3
<1>7. allocPage \in [allocUses -> Frames \cup {None}]
  <2>1. \A u \in allocUses : allocPage[u] \in Frames \cup {None}
    BY <1>6
  <2> QED
    BY <2>1 DEF allocPage
<1>8. allocOwner \in [allocUses -> Proc]
  BY <1>4 DEF allocOwner, allocUses
<1>9. \A g \in Frames : Alloc!UsesOf(g) = IF g = f THEN {<<initproc, 0>>} ELSE {}
  <2>1. Alloc!UsesOf(f) = {<<initproc, 0>>}
    BY <1>5, <1>6 DEF Alloc!UsesOf
  <2>2. \A g \in Frames : g # f => Alloc!UsesOf(g) = {}
    BY <1>5, <1>6 DEF Alloc!UsesOf
  <2> QED
    BY <2>1, <2>2
<1>10. \A S : Alloc!Cardinality(S) = Cardinality(S)
  BY Zenon DEF Alloc!Cardinality, Cardinality
<1>11. references = [g \in Frames |-> Alloc!Cardinality(Alloc!UsesOf(g))]
  <2>1. \A g \in Frames : Alloc!Cardinality(Alloc!UsesOf(g)) = IF g = f THEN 1 ELSE 0
    BY <1>9, <1>10, OneUse
  <2> QED
    BY <1>1, <2>1
<1>12. free = {g \in Frames : Alloc!UsesOf(g) = {}}
  BY <1>1, <1>9
<1>13. allocPc = [p \in Proc |-> "idle"] /\ allocUse = [p \in Proc |-> None]
  BY <1>2 DEF allocPc, allocUse
<1>14. allocArg = [p \in Proc |-> None] /\ allocRef = [p \in Proc |-> 0]
  BY <1>1, <1>2 DEF allocArg, allocRef, KfreePcs
<1> QED
  BY <1>7, <1>8, <1>11, <1>12, <1>13, <1>14 DEF Alloc!Init

LEMMA AllocMoves ==
  ASSUME NEW p \in Proc
  PROVE  /\ <<p, MaxPages>> \in allocUses
         /\ \A v \in VA : <<p, v>> \in allocUses
BY LocalUse, EntryUse

LEMMA NextMap ==
  ASSUME PageTableInv, PageTableInv', Next
  PROVE  [Alloc!Next]_(Alloc!vars)
<1> PICK p \in Proc :
        \/ UserTrapRet(p)
        \/ KfRead(p) \/ KfCas(p) \/ KfZero(p) \/ KfPush(p)
        \/ \E v \in VA : PageFault(p, v) \/ Copyout(p, v)
        \/ \E v \in VA, d \in Data : Store(p, v, d)
        \/ \E d \in Data : CopyoutWrite(p, d)
        \/ CowAlloc(p) \/ CowCopy(p) \/ CowInstall(p) \/ CowFree(p)
        \/ Unmap(p) \/ UnmapClear(p)
        \/ \E n \in 0 .. MaxPages : SbrkGrow(p, n) \/ SbrkShrink(p, n)
        \/ GrowAlloc(p) \/ GrowMap(p) \/ GrowUndo(p) \/ SetSize(p)
        \/ \E c \in Proc : Fork(p, c) \/ Wait(p, c)
        \/ CopyPage(p) \/ RefRead(p) \/ RefCas(p) \/ ForkDone(p)
        \/ Exit(p) \/ FreeProc(p)
  BY DEF Next
<1>0. \A c \in Proc : /\ <<c, MaxPages>> \in allocUses
                      /\ \A v \in VA : <<c, v>> \in allocUses
  BY AllocMoves
<1>1. CASE UserTrapRet(p)
  BY <1>1, UserTrapRetMap
<1>2. CASE KfRead(p) \/ KfCas(p) \/ KfZero(p) \/ KfPush(p)
  BY <1>2, KfReadMap, KfCasMap, KfZeroMap, KfPushMap DEF Alloc!Next
<1>3. CASE \/ \E v \in VA : PageFault(p, v) \/ Copyout(p, v)
           \/ \E v \in VA, d \in Data : Store(p, v, d)
           \/ \E d \in Data : CopyoutWrite(p, d)
           \/ CowCopy(p)
  BY <1>3, PageFaultMap, CopyoutMap, StoreMap, CopyoutWriteMap, CowCopyMap
<1>4. CASE CowAlloc(p) \/ GrowAlloc(p)
  BY <1>0, <1>4, CowAllocMap, GrowAllocMap DEF Alloc!Next
<1>5. CASE CowInstall(p) \/ CowFree(p)
  BY <1>0, <1>5, CowInstallMap, CowFreeMap DEF Alloc!Next
<1>6. CASE Unmap(p)
  BY <1>6, UnmapMap DEF Alloc!Next
<1>7. CASE UnmapClear(p) \/ \E n \in 0 .. MaxPages : SbrkGrow(p, n) \/ SbrkShrink(p, n)
  BY <1>7, UnmapClearMap, SbrkGrowMap, SbrkShrinkMap
<1>8. CASE GrowMap(p)
  BY <1>0, <1>8, GrowMapMap DEF Alloc!Next
<1>9. CASE GrowUndo(p) \/ SetSize(p) \/ Exit(p)
  BY <1>9, GrowUndoMap, SetSizeMap, ExitMap
<1>10. CASE CopyPage(p)
  BY <1>0, <1>10, CopyPageMap DEF Alloc!Next
<1>11. CASE RefRead(p) \/ RefCas(p)
  BY <1>11, RefReadMap, RefCasMap DEF Alloc!Next
<1>12. CASE (\E c \in Proc : Fork(p, c) \/ Wait(p, c)) \/ ForkDone(p) \/ FreeProc(p)
  BY <1>12, ForkMap, WaitMap, ForkDoneMap, FreeProcMap DEF Alloc!Next
<1> QED
  BY <1>1, <1>2, <1>3, <1>4, <1>5, <1>6, <1>7, <1>8, <1>9, <1>10, <1>11, <1>12

LEMMA StutterMap ==
  UNCHANGED vars => UNCHANGED Alloc!vars
<1> SUFFICES ASSUME UNCHANGED vars PROVE UNCHANGED Alloc!vars
  OBVIOUS
<1>1. UNCHANGED <<free, references, frame, pc, tgt, va, pa, npa, ref, ret>>
  BY DEF vars, allocVars, pageVars, procVars, loopVars, callVars
<1>2. \A p \in Proc : /\ InCall(p)' = InCall(p) /\ useOfLocals(p)' = useOfLocals(p)
                      /\ worker(p)' = worker(p)
                      /\ \A v : useOfEntry(p, v)' = useOfEntry(p, v)
  BY <1>1 DEF InCall, useOfLocals, worker, useOfEntry, Dying, Pending
<1>3. allocPage' = allocPage /\ allocOwner' = allocOwner
  BY <1>2 DEF allocPage, allocOwner, allocUses
<1>4. allocPc' = allocPc /\ allocArg' = allocArg
  BY <1>1, <1>2 DEF allocPc, allocArg
<1>5. allocUse' = allocUse /\ allocRef' = allocRef
  BY <1>1, <1>2 DEF allocUse, allocRef
<1> QED
  BY <1>1, <1>3, <1>4, <1>5 DEF Alloc!vars

\* fork, faults, sbrk, exit and wait keep the contract of kalloc and kfree
\* at every step: what they free they own, what they count they hold.
THEOREM PageAllocRefinement == Spec => ImplementsPageAlloc
<1>1. PageTableInv /\ PageTableInv' /\ [Next]_vars => [Alloc!Next]_(Alloc!vars)
  BY NextMap, StutterMap
<1>2. Spec => Alloc!Init /\ [][Alloc!Next]_(Alloc!vars)
  BY <1>1, InitMap, Invariance, PTL DEF Spec
<1> QED
  BY <1>2 DEF ImplementsPageAlloc, Alloc!Spec

-----------------------------------------------------------------------------
(* What the theorems about PageAlloc say of the kernel *)

AP == INSTANCE PageAlloc_proof WITH
    Thread <- Proc, Use <- allocUses, page <- allocPage, owner <- allocOwner,
    pc <- allocPc, arg <- allocArg, use <- allocUse, ref <- allocRef

LEMMA AllocAssumption == AP!PageAllocAssumption
<1>1. \A S : AP!IsFiniteSet(S) <=> IsFiniteSet(S)
  BY Zenon DEF AP!IsFiniteSet, IsFiniteSet
<1>2. IsFiniteSet(Proc) /\ MaxPages \in Nat
  BY CowMemAssumption
<1>3. IsFiniteSet(0 .. MaxPages)
  BY <1>2, FS_Interval
<1>4. IsFiniteSet(allocUses)
  BY <1>2, <1>3, FS_Product DEF allocUses
<1>5. AP!IsFiniteSet(allocUses)
  BY <1>1, <1>4
<1>6. None \notin Frames \cup allocUses
  BY CowMemAssumption DEF allocUses
<1> QED
  BY <1>5, <1>6 DEF AP!PageAllocAssumption

\* ImplementsPageAlloc is about the module, AP about the module with its theorems.
LEMMA SameSteps ==
  /\ \A p \in Proc : /\ Alloc!AddRead(p) <=> AP!AddRead(p)
                     /\ Alloc!AddCas(p) <=> AP!AddCas(p)
                     /\ Alloc!RemoveRead(p) <=> AP!RemoveRead(p)
                     /\ Alloc!RemoveCas(p) <=> AP!RemoveCas(p)
                     /\ Alloc!ZeroCount(p) <=> AP!ZeroCount(p)
                     /\ Alloc!Push(p) <=> AP!Push(p)
  /\ \A p \in Proc : \A u \in allocUses : /\ Alloc!Kalloc(p, u) <=> AP!Kalloc(p, u)
                                          /\ Alloc!FreeCall(p, u) <=> AP!FreeCall(p, u)
  /\ \A p \in Proc : \A u, w \in allocUses : /\ Alloc!Move(p, u, w) <=> AP!Move(p, u, w)
                                             /\ Alloc!AddCall(p, u, w) <=> AP!AddCall(p, u, w)
  /\ Alloc!HandOver <=> AP!HandOver
<1>1. \A p \in Proc : (Alloc!AddRead(p) <=> AP!AddRead(p))
  BY Zenon DEF Alloc!AddRead, AP!AddRead, Alloc!Goto, AP!Goto
<1>2. \A p \in Proc : (Alloc!AddCas(p) <=> AP!AddCas(p))
  BY Zenon DEF Alloc!AddCas, AP!AddCas, Alloc!Return, AP!Return, Alloc!Goto, AP!Goto
<1>3. \A p \in Proc : (Alloc!RemoveRead(p) <=> AP!RemoveRead(p))
  BY Zenon DEF Alloc!RemoveRead, AP!RemoveRead, Alloc!Goto, AP!Goto
<1>4. \A p \in Proc : (Alloc!RemoveCas(p) <=> AP!RemoveCas(p))
  BY Zenon DEF Alloc!RemoveCas, AP!RemoveCas, Alloc!StillUsed, AP!StillUsed,
     Alloc!Return, AP!Return, Alloc!Goto, AP!Goto
<1>5. \A p \in Proc : (Alloc!ZeroCount(p) <=> AP!ZeroCount(p))
  BY Zenon DEF Alloc!ZeroCount, AP!ZeroCount, Alloc!Goto, AP!Goto
<1>6. \A p \in Proc : (Alloc!Push(p) <=> AP!Push(p))
  BY Zenon DEF Alloc!Push, AP!Push, Alloc!Return, AP!Return, Alloc!Goto, AP!Goto
<1>7. \A p \in Proc : \A u \in allocUses : (Alloc!Kalloc(p, u) <=> AP!Kalloc(p, u))
  BY Zenon DEF Alloc!Kalloc, AP!Kalloc
<1>8. \A p \in Proc : \A u \in allocUses : (Alloc!FreeCall(p, u) <=> AP!FreeCall(p, u))
  BY Zenon DEF Alloc!FreeCall, AP!FreeCall, Alloc!Goto, AP!Goto
<1>9. \A p \in Proc : \A u, w \in allocUses : (Alloc!Move(p, u, w) <=> AP!Move(p, u, w))
  BY Zenon DEF Alloc!Move, AP!Move
<1>10. \A p \in Proc : \A u, w \in allocUses : (Alloc!AddCall(p, u, w) <=> AP!AddCall(p, u, w))
  BY Zenon DEF Alloc!AddCall, AP!AddCall, Alloc!Goto, AP!Goto
<1>11. Alloc!HandOver <=> AP!HandOver
  BY Zenon DEF Alloc!HandOver, AP!HandOver
<1> QED
  BY Zenon, <1>1, <1>2, <1>3, <1>4, <1>5, <1>6, <1>7, <1>8, <1>9, <1>10, <1>11

LEMMA SameAlloc == Alloc!Spec => AP!Spec
<1>1. \A S : AP!Cardinality(S) = Alloc!Cardinality(S)
  BY Zenon DEF AP!Cardinality, Alloc!Cardinality
<1>2. \A f : Alloc!UsesOf(f) = AP!UsesOf(f)
  BY Zenon DEF Alloc!UsesOf, AP!UsesOf
<1>3. Alloc!Init => AP!Init
  BY <1>1, <1>2 DEF Alloc!Init, AP!Init
<1>4. Alloc!vars = AP!vars
  BY Zenon DEF Alloc!vars, AP!vars
<1>5. Alloc!Next => AP!Next
  BY SameSteps DEF Alloc!Next, AP!Next
<1>6. UNCHANGED Alloc!vars => UNCHANGED AP!vars
  BY Zenon DEF Alloc!vars, AP!vars
<1>7. [Alloc!Next]_(Alloc!vars) => [AP!Next]_(AP!vars)
  BY <1>5, <1>6
<1> QED
  BY <1>3, <1>7, PTL DEF Alloc!Spec, AP!Spec

LEMMA SameInv == AP!Inv => Alloc!RefCountExact /\ Alloc!FreeIsUnused /\ Alloc!NoPageLost
<1> SUFFICES ASSUME AP!Inv PROVE Alloc!RefCountExact /\ Alloc!FreeIsUnused /\ Alloc!NoPageLost
  OBVIOUS
<1>1. \A f : Alloc!UsesOf(f) = AP!UsesOf(f)
  BY Zenon DEF Alloc!UsesOf, AP!UsesOf
<1>2. \A S : AP!Cardinality(S) = Alloc!Cardinality(S)
  BY Zenon DEF AP!Cardinality, Alloc!Cardinality
<1>3. Alloc!RefCountExact
  BY <1>1, <1>2 DEF AP!Inv, AP!RefCountExact, Alloc!RefCountExact
<1>4. \A t, f : Alloc!Freeing(t, f) <=> AP!Freeing(t, f)
  BY Zenon DEF Alloc!Freeing, AP!Freeing, Alloc!FreePcs, AP!FreePcs
<1>5. Alloc!FreePcs = AP!FreePcs
  BY Zenon DEF Alloc!FreePcs, AP!FreePcs
<1>6. Alloc!FreeIsUnused
  BY <1>1, <1>4, <1>5 DEF AP!Inv, AP!FreeIsUnused, Alloc!FreeIsUnused
<1>7. Alloc!NoPageLost
  BY <1>1, <1>4 DEF AP!Inv, AP!NoPageLost, Alloc!NoPageLost
<1> QED
  BY <1>3, <1>6, <1>7

\* For every interleaving of fork, faults, sbrk, exit and wait: the count of
\* a frame is the number of page table entries and locals that keep it, a
\* frame on the free list is kept by none, and none is lost.
THEOREM KernelPages ==
  Spec => [](Alloc!RefCountExact /\ Alloc!FreeIsUnused /\ Alloc!NoPageLost)
<1>1. AP!Spec => []AP!Inv
  BY AllocAssumption, AP!Invariance
<1> QED
  BY <1>1, PageAllocRefinement, SameAlloc, SameInv, PTL DEF ImplementsPageAlloc

-----------------------------------------------------------------------------
(* Frames that are nobody's but one process's *)

\* kalloc has given p the frame f, which no page table maps yet.
NewPcs == {"cow_copy", "cow_install", "grow_map"}
HoldsNew(p, f) == pc[p] \in NewPcs /\ npa[p] = f

NewFrames ==
    \A p \in Proc : \A f \in Frames : HoldsNew(p, f) =>
        /\ \A q \in Proc : \A v \in VA : ~Maps(q, v, f)
        /\ \A q \in Proc : HoldsNew(q, f) => q = p

\* What p has in hand it has given back.
Dies(p) ==
    \/ pc[p] = "unmap_clear"
    \/ pc[p] \in {"kf_zero", "kf_push"} /\ ret[p] = "unmap_clear"

PrivateInv == WritableIsPrivate /\ NewFrames

LEMMA DyingIs ==
  \A r \in Proc : \A v : Dying(r, v) <=> \E q \in Proc : Dies(q) /\ tgt[q] = r /\ va[q] = v
BY DEF Dying, Dies

LEMMA DyingNext ==
  (\A r \in Proc : \A v : Dying(r, v) <=> \E q \in Proc : Dies(q) /\ tgt[q] = r /\ va[q] = v)'
BY DyingIs, PTL

\* A frame without a use is in no page table and in no local variable.
LEMMA NoUse ==
  ASSUME PageTableInv, NEW f \in Frames, Alloc!UsesOf(f) = {}
  PROVE  \A q \in Proc : ~HoldsNew(q, f) /\ \A v \in VA : ~Maps(q, v, f)
<1> SUFFICES ASSUME NEW q \in Proc
             PROVE  ~HoldsNew(q, f) /\ \A v \in VA : ~Maps(q, v, f)
  OBVIOUS
<1>1. \A u \in allocUses : allocPage[u] # f
  BY DEF Alloc!UsesOf
<1>2. ~HoldsNew(q, f)
  <2>1. useOfLocals(q) # f
    BY <1>1, LocalUse
  <2> QED
    BY <2>1 DEF HoldsNew, NewPcs, useOfLocals
<1>3. \A r \in Proc : \A v \in VA : useOfEntry(r, v) # f
  BY <1>1, EntryUse
<1>4. ASSUME NEW v \in VA, Maps(q, v, f) PROVE FALSE
  <2>1. frame[q][v] = f /\ Pending(q, v)
    BY <1>3, <1>4 DEF Maps, useOfEntry
  <2>2. PICK r \in Proc : tgt[r] = q /\ va[r] = v /\ pc[r] \in {"ref_read", "ref_cas"}
    BY <2>1 DEF Pending
  <2>3. Life(r) /\ Locals(r) /\ InHandMap(r)
    BY InvFacts, Mapped
  <2>4. tgt[r] # r /\ frame[r][v] = f /\ pc[r] # "dead"
    BY <2>1, <2>2, <2>3 DEF Life, Locals, Copying, CopyPcs
  <2>5. useOfEntry(r, v) = f
    BY <2>3, <2>4 DEF InHandMap
  <2> QED
    BY <1>3, <2>5
<1> QED
  BY <1>2, <1>4

-----------------------------------------------------------------------------
(* Steps that map no page *)

Keeps(q) ==
    /\ Dies(q) => Dies(q)' /\ tgt'[q] = tgt[q] /\ va'[q] = va[q]
    /\ pc'[q] \in NewPcs => pc[q] \in NewPcs /\ npa'[q] = npa[q]

LEMMA CalmKeeps ==
  ASSUME PrivateInv, \A q \in Proc : Keeps(q), frame' = frame,
         \A q \in Proc : \A v \in VA : PTE_W \in flags'[q][v] => PTE_W \in flags[q][v]
  PROVE  PrivateInv'
<1>1. ASSUME NEW q \in Proc, NEW v \in VA, NEW f \in Frames
      PROVE  Maps(q, v, f)' => Maps(q, v, f)
  BY DyingIs, DyingNext DEF Keeps, Maps
<1>2. ASSUME NEW q \in Proc, NEW f \in Frames PROVE HoldsNew(q, f)' => HoldsNew(q, f)
  BY DEF Keeps, HoldsNew
<1>3. WritableIsPrivate'
  BY <1>1 DEF PrivateInv, WritableIsPrivate
<1>4. NewFrames'
  BY <1>1, <1>2 DEF PrivateInv, NewFrames
<1> QED
  BY <1>3, <1>4 DEF PrivateInv

LEMMA KfreeCalm ==
  ASSUME TypeOK, NEW p \in Proc, KfRead(p) \/ KfCas(p) \/ KfZero(p) \/ KfPush(p)
  PROVE  (\A q \in Proc : Keeps(q)) /\ UNCHANGED pageVars
<1>1. CASE KfRead(p)
  BY <1>1 DEF KfRead, Keeps, Dies, NewPcs, TypeOK, Goto, loopVars
<1>2. CASE KfCas(p)
  BY <1>2, ZenonT(40) DEF KfCas, Keeps, Dies, NewPcs, TypeOK, Goto, loopVars, callVars
<1>3. CASE KfZero(p)
  BY <1>3 DEF KfZero, Keeps, Dies, NewPcs, TypeOK, Goto, loopVars, callVars
<1>4. CASE KfPush(p)
  BY <1>4 DEF KfPush, Keeps, Dies, NewPcs, TypeOK, Goto, loopVars, callVars
<1> QED
  BY <1>1, <1>2, <1>3, <1>4

LEMMA UserCalm ==
  ASSUME TypeOK, NEW p \in Proc,
         \/ UserTrapRet(p)
         \/ \E v \in VA : PageFault(p, v) \/ Copyout(p, v)
         \/ \E v \in VA, d \in Data : Store(p, v, d)
         \/ \E d \in Data : CopyoutWrite(p, d)
         \/ CowCopy(p) \/ CowFree(p)
  PROVE  (\A q \in Proc : Keeps(q)) /\ UNCHANGED pageVars
<1>1. CASE UserTrapRet(p)
  BY <1>1 DEF UserTrapRet, Keeps, Dies, NewPcs, TypeOK, Goto, ResetLocals
<1>2. CASE \E v \in VA : PageFault(p, v)
  BY <1>2 DEF PageFault, Keeps, Dies, NewPcs, TypeOK, Goto
<1>3. CASE \E v \in VA : Copyout(p, v)
  BY <1>3 DEF Copyout, Keeps, Dies, NewPcs, TypeOK, Goto
<1>4. CASE \E v \in VA, d \in Data : Store(p, v, d)
  BY <1>4 DEF Store, Keeps, Dies, NewPcs, TypeOK, Goto, loopVars, callVars
<1>5. CASE \E d \in Data : CopyoutWrite(p, d)
  BY <1>5 DEF CopyoutWrite, Keeps, Dies, NewPcs, TypeOK, Goto, loopVars, callVars
<1>6. CASE CowCopy(p)
  BY <1>6 DEF CowCopy, Keeps, Dies, NewPcs, TypeOK, Goto, loopVars, callVars
<1>7. CASE CowFree(p)
  BY <1>7 DEF CowFree, CallKfree, Keeps, Dies, NewPcs, TypeOK, Goto, loopVars
<1> QED
  BY <1>1, <1>2, <1>3, <1>4, <1>5, <1>6, <1>7

LEMMA SizeCalm ==
  ASSUME TypeOK, NEW p \in Proc,
         \/ Unmap(p) \/ GrowMapFails(p) \/ GrowUndo(p) \/ SetSize(p)
         \/ \E n \in 0 .. MaxPages : SbrkGrow(p, n) \/ SbrkShrink(p, n)
         \/ CowAlloc(p) /\ pc'[p] \notin NewPcs
         \/ GrowAlloc(p) /\ pc'[p] \notin NewPcs
  PROVE  (\A q \in Proc : Keeps(q)) /\ UNCHANGED pageVars
<1>1. CASE Unmap(p)
  BY <1>1 DEF Unmap, CallKfree, Keeps, Dies, NewPcs, TypeOK, Goto, loopVars
<1>2. CASE GrowMapFails(p)
  BY <1>2 DEF GrowMapFails, CallKfree, Keeps, Dies, NewPcs, TypeOK, Goto, loopVars
<1>3. CASE GrowUndo(p)
  BY <1>3 DEF GrowUndo, CallUnmap, Keeps, Dies, NewPcs, TypeOK, Goto, callVars
<1>4. CASE SetSize(p)
  BY <1>4 DEF SetSize, ResetLocals, Keeps, Dies, NewPcs, TypeOK, Goto
<1>5. CASE \E n \in 0 .. MaxPages : SbrkGrow(p, n)
  BY <1>5 DEF SbrkGrow, Keeps, Dies, NewPcs, TypeOK, Goto, callVars
<1>6. CASE \E n \in 0 .. MaxPages : SbrkShrink(p, n)
  BY <1>6 DEF SbrkShrink, CallUnmap, Keeps, Dies, NewPcs, TypeOK, Goto, callVars
<1>7. CASE CowAlloc(p) /\ pc'[p] \notin NewPcs
  BY <1>7 DEF CowAlloc, Keeps, Dies, NewPcs, TypeOK, Goto, loopVars
<1>8. CASE GrowAlloc(p) /\ pc'[p] \notin NewPcs
  BY <1>8 DEF GrowAlloc, MoreToGrow, CallUnmap, Keeps, Dies, NewPcs, TypeOK, Goto,
       loopVars
<1> QED
  BY <1>1, <1>2, <1>3, <1>4, <1>5, <1>6, <1>7, <1>8

LEMMA ForkCalm ==
  ASSUME PageTableInv, NEW p \in Proc,
         \/ \E c \in Proc : Fork(p, c) \/ Wait(p, c)
         \/ RefRead(p) \/ RefCas(p) \/ ForkDone(p) \/ Exit(p) \/ FreeProc(p)
  PROVE  (\A q \in Proc : Keeps(q)) /\ UNCHANGED pageVars
<1>0. TypeOK /\ Life(p)
  BY InvFacts
<1>1. CASE \E c \in Proc : Fork(p, c)
  BY <1>0, <1>1 DEF Fork, Keeps, Dies, NewPcs, TypeOK, Goto, callVars
<1>2. CASE \E c \in Proc : Wait(p, c)
  BY <1>0, <1>2 DEF Wait, CallUnmap, Keeps, Dies, NewPcs, TypeOK, Goto, callVars
<1>3. CASE RefRead(p)
  BY <1>0, <1>3 DEF RefRead, Keeps, Dies, NewPcs, TypeOK, Goto, loopVars
<1>4. CASE RefCas(p)
  BY <1>0, <1>4 DEF RefCas, Keeps, Dies, NewPcs, TypeOK, Goto, callVars
<1>5. CASE ForkDone(p)
  <2>1. pc[p] = "copy" /\ tgt[p] # p
    BY <1>0, <1>5 DEF ForkDone, Life, Copying, CopyPcs
  <2>2. pc[tgt[p]] = "dead" /\ tgt[p] \in Proc
    BY <2>1, OneInHand DEF Alone
  <2> QED
    BY <1>0, <1>5, <2>1, <2>2 DEF ForkDone, ResetLocals, Keeps, Dies, NewPcs, TypeOK
<1>6. CASE Exit(p)
  BY <1>0, <1>6 DEF Exit, ResetLocals, Keeps, Dies, NewPcs, TypeOK, Goto
<1>7. CASE FreeProc(p)
  BY <1>0, <1>7 DEF FreeProc, ResetLocals, Keeps, Dies, NewPcs, TypeOK, Goto
<1> QED
  BY <1>1, <1>2, <1>3, <1>4, <1>5, <1>6, <1>7

-----------------------------------------------------------------------------
(* Steps that take a frame or map it *)

LEMMA MapsShrinks ==
  ASSUME \A q \in Proc : Dies(q) => Dies(q)' /\ tgt'[q] = tgt[q] /\ va'[q] = va[q],
         NEW q \in Proc, NEW v, NEW f, Maps(q, v, f)', frame'[q][v] = frame[q][v]
  PROVE  Maps(q, v, f)
BY DyingIs, DyingNext DEF Maps

\* kalloc
LEMMA TakesPrivate ==
  ASSUME PageTableInv, Alloc!FreeIsUnused, PrivateInv, NEW p \in Proc, NEW f \in free,
         \A q \in Proc \ {p} : Keeps(q), ~Dies(p), UNCHANGED pageVars,
         npa'[p] = f, pc[p] \notin NewPcs
  PROVE  PrivateInv'
<1>0. f \in Frames
  BY InvFacts DEF TypeOK
<1>1. \A q \in Proc : ~HoldsNew(q, f) /\ \A v \in VA : ~Maps(q, v, f)
  BY <1>0, NoUse DEF Alloc!FreeIsUnused
<1>2. ASSUME NEW q \in Proc, NEW v \in VA, NEW g \in Frames
      PROVE  Maps(q, v, g)' => Maps(q, v, g)
  BY MapsShrinks DEF Keeps, pageVars
<1>3. ASSUME NEW q \in Proc, NEW g \in Frames, HoldsNew(q, g)'
      PROVE  (q = p /\ g = f) \/ (q # p /\ HoldsNew(q, g))
  BY <1>3 DEF Keeps, HoldsNew
<1>4. WritableIsPrivate'
  BY <1>2 DEF PrivateInv, WritableIsPrivate, pageVars
<1>5. NewFrames'
  <2> SUFFICES ASSUME NEW q \in Proc, NEW g \in Frames, HoldsNew(q, g)'
               PROVE  /\ \A r \in Proc : \A v \in VA : ~Maps(r, v, g)'
                      /\ \A r \in Proc : HoldsNew(r, g)' => r = q
    BY DEF NewFrames
  <2>1. CASE q = p /\ g = f
    BY <1>1, <1>2, <1>3, <2>1
  <2>2. CASE q # p /\ HoldsNew(q, g)
    <3>1. g # f
      BY <1>1, <2>2
    <3> QED
      BY <1>2, <1>3, <2>2, <3>1 DEF PrivateInv, NewFrames
  <2> QED
    BY <1>3, <2>1, <2>2
<1> QED
  BY <1>4, <1>5 DEF PrivateInv

\* An entry of p gets the frame that p has got from kalloc.
LEMMA InstallsPrivate ==
  ASSUME PrivateInv, NEW p \in Proc, NEW v \in VA,
         \A q \in Proc : Dies(q) => Dies(q)' /\ tgt'[q] = tgt[q] /\ va'[q] = va[q],
         \A q \in Proc \ {p} : pc'[q] \in NewPcs => pc[q] \in NewPcs /\ npa'[q] = npa[q],
         pc[p] \in NewPcs, npa[p] \in Frames, pc'[p] \notin NewPcs,
         \A q \in Proc : \A w \in VA : q # p \/ w # v =>
            frame'[q][w] = frame[q][w] /\ flags'[q][w] = flags[q][w],
         frame'[p][v] = npa[p]
  PROVE  PrivateInv'
<1>1. /\ \A q \in Proc : \A w \in VA : ~Maps(q, w, npa[p])
      /\ \A q \in Proc : HoldsNew(q, npa[p]) => q = p
  BY DEF PrivateInv, NewFrames, HoldsNew
<1>2. ASSUME NEW q \in Proc, NEW w \in VA, NEW g \in Frames, Maps(q, w, g)'
      PROVE  (q = p /\ w = v /\ g = npa[p]) \/ ((q # p \/ w # v) /\ g # npa[p] /\ Maps(q, w, g))
  <2>1. CASE q = p /\ w = v
    BY <1>2, <2>1 DEF Maps
  <2>2. CASE q # p \/ w # v
    <3>1. Maps(q, w, g)
      BY <1>2, <2>2, MapsShrinks
    <3> QED
      BY <1>1, <2>2, <3>1
  <2> QED
    BY <2>1, <2>2
<1>3. ASSUME NEW q \in Proc, NEW g \in Frames, HoldsNew(q, g)'
      PROVE  q # p /\ g # npa[p] /\ HoldsNew(q, g)
  BY <1>1, <1>3 DEF HoldsNew
<1>4. WritableIsPrivate'
  <2> SUFFICES ASSUME NEW q \in Proc, NEW r \in Proc, NEW w \in VA, NEW x \in VA, NEW g \in Frames,
                      Maps(q, w, g)', PTE_W \in flags'[q][w], Maps(r, x, g)'
               PROVE  q = r /\ w = x
    BY DEF WritableIsPrivate
  <2>1. CASE g = npa[p]
    BY <1>2, <2>1
  <2>2. CASE g # npa[p]
    <3>1. Maps(q, w, g) /\ Maps(r, x, g) /\ PTE_W \in flags[q][w]
      BY <1>2, <2>2
    <3> QED
      BY <3>1 DEF PrivateInv, WritableIsPrivate
  <2> QED
    BY <2>1, <2>2
<1>5. NewFrames'
  BY <1>2, <1>3 DEF PrivateInv, NewFrames
<1> QED
  BY <1>4, <1>5 DEF PrivateInv

LEMMA CowAllocPrivate ==
  ASSUME PageTableInv, Alloc!FreeIsUnused, PrivateInv, NEW p \in Proc, CowAlloc(p)
  PROVE  PrivateInv'
<1>0. TypeOK
  BY InvFacts
<1>1. CASE pc'[p] \notin NewPcs
  <2>1. (\A q \in Proc : Keeps(q)) /\ UNCHANGED pageVars
    BY <1>0, <1>1, SizeCalm
  <2> QED
    BY <2>1, CalmKeeps DEF pageVars
<1>2. CASE pc'[p] \in NewPcs
  <2>1. PICK f \in free : npa' = [npa EXCEPT ![p] = f]
    BY <1>0, <1>2 DEF CowAlloc, NewPcs, Goto, TypeOK
  <2>2. (\A q \in Proc \ {p} : Keeps(q)) /\ ~Dies(p) /\ pc[p] \notin NewPcs
    BY <1>0, <2>1, ZenonT(40) DEF CowAlloc, Keeps, Dies, NewPcs, Goto, TypeOK, loopVars
  <2>3. UNCHANGED pageVars /\ npa'[p] = f
    BY <1>0, <2>1 DEF CowAlloc, TypeOK
  <2> QED
    BY <2>2, <2>3, TakesPrivate
<1> QED
  BY <1>1, <1>2

LEMMA GrowAllocPrivate ==
  ASSUME PageTableInv, Alloc!FreeIsUnused, PrivateInv, NEW p \in Proc, GrowAlloc(p)
  PROVE  PrivateInv'
<1>0. TypeOK
  BY InvFacts
<1>1. CASE pc'[p] \notin NewPcs
  <2>1. (\A q \in Proc : Keeps(q)) /\ UNCHANGED pageVars
    BY <1>0, <1>1, SizeCalm
  <2> QED
    BY <2>1, CalmKeeps DEF pageVars
<1>2. CASE pc'[p] \in NewPcs
  <2>1. PICK f \in free : npa' = [npa EXCEPT ![p] = f] /\ UNCHANGED loopVars
    BY <1>0, <1>2 DEF GrowAlloc, MoreToGrow, CallUnmap, NewPcs, Goto, TypeOK
  <2>2. (\A q \in Proc \ {p} : Keeps(q)) /\ ~Dies(p) /\ pc[p] \notin NewPcs
    <3>1. pc[p] = "grow_alloc" /\ UNCHANGED ret /\ \A q \in Proc \ {p} : pc'[q] = pc[q]
      BY <1>0 DEF GrowAlloc, CallUnmap, Goto, TypeOK
    <3> QED
      BY <1>0, <2>1, <3>1 DEF Keeps, Dies, NewPcs, TypeOK, loopVars
  <2>3. UNCHANGED pageVars /\ npa'[p] = f
    BY <1>0, <2>1 DEF GrowAlloc, TypeOK
  <2> QED
    BY <2>2, <2>3, TakesPrivate
<1> QED
  BY <1>1, <1>2

LEMMA CowInstallPrivate ==
  ASSUME PageTableInv, PrivateInv, NEW p \in Proc, CowInstall(p)
  PROVE  PrivateInv'
<1>0. TypeOK /\ Locals(p)
  BY InvFacts
<1>1. pc[p] = "cow_install" /\ va[p] \in VA /\ npa[p] \in Frames
  BY <1>0 DEF CowInstall, Locals, Cowing, CowPcs
<1>2. PICK v \in VA : v = va[p]
  BY <1>1
<1>3. /\ pc' = [pc EXCEPT ![p] = "cow_free"]
      /\ frame' = [frame EXCEPT ![p][v] = npa[p]]
      /\ flags' = [flags EXCEPT ![p][v] = (@ \ {PTE_COW}) \cup {PTE_W}]
      /\ UNCHANGED <<tgt, va, npa, ret>>
  BY <1>2 DEF CowInstall, Goto, loopVars
<1>4. \A q \in Proc : Dies(q) => Dies(q)' /\ tgt'[q] = tgt[q] /\ va'[q] = va[q]
  BY <1>0, <1>1, <1>3 DEF Dies, TypeOK
<1>5. /\ \A q \in Proc \ {p} : pc'[q] \in NewPcs => pc[q] \in NewPcs /\ npa'[q] = npa[q]
      /\ pc[p] \in NewPcs /\ pc'[p] \notin NewPcs
  BY <1>0, <1>1, <1>3 DEF NewPcs, TypeOK
<1>6. /\ \A q \in Proc : \A w \in VA : q # p \/ w # v =>
            frame'[q][w] = frame[q][w] /\ flags'[q][w] = flags[q][w]
      /\ frame'[p][v] = npa[p]
  BY <1>0, <1>3 DEF TypeOK
<1> QED
  BY <1>1, <1>4, <1>5, <1>6, InstallsPrivate

LEMMA GrowMapPrivate ==
  ASSUME PageTableInv, PrivateInv, NEW p \in Proc, GrowMap(p)
  PROVE  PrivateInv'
<1>0. TypeOK /\ Locals(p)
  BY InvFacts
<1>1. CASE pc'[p] # "grow_alloc"
  <2>1. GrowMapFails(p)
    BY <1>0, <1>1 DEF GrowMap, GrowMapFails, Goto, TypeOK, loopVars
  <2>2. (\A q \in Proc : Keeps(q)) /\ UNCHANGED pageVars
    BY <1>0, <2>1, SizeCalm
  <2> QED
    BY <2>2, CalmKeeps DEF pageVars
<1>2. CASE pc'[p] = "grow_alloc"
  <2>1. /\ pc[p] = "grow_map" /\ va[p] < end[p] /\ npa[p] \in Frames
    BY <1>0 DEF GrowMap, Locals, Growing, GrowPcs
  <2>2. PICK v \in VA : v = va[p]
    <3>1. va[p] \in 0 .. MaxPages /\ end[p] \in 0 .. MaxPages /\ MaxPages \in Nat
      BY <1>0, CowMemAssumption DEF TypeOK
    <3> QED
      BY <2>1, <3>1 DEF VA
  <2>3. /\ pc' = [pc EXCEPT ![p] = "grow_alloc"]
        /\ frame' = [frame EXCEPT ![p][v] = npa[p]]
        /\ flags' = [flags EXCEPT ![p][v] = {PTE_W}]
        /\ va' = [va EXCEPT ![p] = @ + 1]
        /\ UNCHANGED <<tgt, npa, ret>>
    BY <1>0, <1>2, <2>2 DEF GrowMap, TypeOK, CallKfree, Goto
  <2>4. \A q \in Proc : Dies(q) => Dies(q)' /\ tgt'[q] = tgt[q] /\ va'[q] = va[q]
    BY <1>0, <2>1, <2>3 DEF Dies, TypeOK
  <2>5. /\ \A q \in Proc \ {p} : pc'[q] \in NewPcs => pc[q] \in NewPcs /\ npa'[q] = npa[q]
        /\ pc[p] \in NewPcs /\ pc'[p] \notin NewPcs
    BY <1>0, <2>1, <2>3 DEF NewPcs, TypeOK
  <2>6. /\ \A q \in Proc : \A w \in VA : q # p \/ w # v =>
              frame'[q][w] = frame[q][w] /\ flags'[q][w] = flags[q][w]
        /\ frame'[p][v] = npa[p]
    BY <1>0, <2>3 DEF TypeOK
  <2> QED
    BY <2>1, <2>4, <2>5, <2>6, InstallsPrivate
<1> QED
  BY <1>1, <1>2

LEMMA UnmapClearPrivate ==
  ASSUME PageTableInv, PrivateInv, NEW p \in Proc, UnmapClear(p)
  PROVE  PrivateInv'
<1>0. TypeOK /\ Locals(p) /\ tgt[p] \in Proc
  BY InvFacts DEF TypeOK
<1>1. PICK c \in Proc, v \in 0 .. MaxPages : c = tgt[p] /\ v = va[p]
  BY <1>0 DEF TypeOK
<1>2. v \in VA /\ pc[p] = "unmap_clear"
  <2>1. va[p] < end[p] /\ pc[p] = "unmap_clear"
    BY <1>0 DEF UnmapClear, Locals, Unmapping, UnmapPcs
  <2>2. va[p] \in 0 .. MaxPages /\ end[p] \in 0 .. MaxPages /\ MaxPages \in Nat
    BY <1>0, CowMemAssumption DEF TypeOK
  <2> QED
    BY <1>1, <2>1, <2>2 DEF VA
<1>3. /\ pc' = [pc EXCEPT ![p] = "unmap"]
      /\ frame' = [frame EXCEPT ![c][v] = None]
      /\ flags' = [flags EXCEPT ![c][v] = {}]
      /\ va' = [va EXCEPT ![p] = @ + 1]
      /\ UNCHANGED <<tgt, npa, ret>>
  BY <1>1 DEF UnmapClear, Goto, callVars
<1>4. /\ \A q \in Proc : \A w \in VA : q # c \/ w # v =>
            frame'[q][w] = frame[q][w] /\ flags'[q][w] = flags[q][w]
      /\ frame'[c][v] = None
  BY <1>0, <1>2, <1>3 DEF TypeOK
<1>5. \A q \in Proc \ {p} : Dies(q) => Dies(q)' /\ tgt'[q] = tgt[q] /\ va'[q] = va[q]
  BY <1>0, <1>3 DEF Dies, TypeOK
<1>6. ASSUME NEW q \in Proc, NEW w \in VA, NEW f \in Frames, Maps(q, w, f)'
      PROVE  Maps(q, w, f) /\ flags'[q][w] = flags[q][w]
  <2>1. q # c \/ w # v
    BY <1>4, <1>6, CowMemAssumption DEF Maps
  <2>2. Dying(q, w) => Dying(q, w)'
    BY <1>1, <1>5, <2>1, DyingIs, DyingNext
  <2> QED
    BY <1>4, <1>6, <2>1, <2>2 DEF Maps
<1>7. ASSUME NEW q \in Proc, NEW f \in Frames, HoldsNew(q, f)' PROVE HoldsNew(q, f)
  BY <1>0, <1>3, <1>7 DEF HoldsNew, NewPcs, TypeOK
<1>8. WritableIsPrivate'
  BY <1>6 DEF PrivateInv, WritableIsPrivate
<1>9. NewFrames'
  BY <1>6, <1>7 DEF PrivateInv, NewFrames
<1> QED
  BY <1>8, <1>9 DEF PrivateInv

\* uvmcopy shares the frame only after it has taken PTE_W from the parent.
LEMMA CopyPagePrivate ==
  ASSUME PageTableInv, PrivateInv, NEW p \in Proc, CopyPage(p)
  PROVE  PrivateInv'
<1>0. TypeOK /\ Life(p)
  BY InvFacts
<1>1. /\ pc[p] = "copy" /\ va[p] < sz[p] /\ frame[p][va[p]] # None
      /\ Copying(p) /\ tgt[p] # p
  BY <1>0 DEF CopyPage, Life, Copying, CopyPcs
<1>2. PICK c \in Proc, v \in VA : c = tgt[p] /\ v = va[p]
  <2>1. /\ va[p] \in 0 .. MaxPages /\ sz[p] \in 0 .. MaxPages /\ MaxPages \in Nat
        /\ tgt[p] \in Proc
    BY <1>0, CowMemAssumption DEF TypeOK
  <2> QED
    BY <1>1, <2>1 DEF VA
<1>3. Alone(p, c) /\ c # p
  BY <1>1, <1>2, OneInHand
<1>4. PTE_W \notin SharedFlags(flags[p][v]) \/ PTE_W \in flags[p][v]
  BY DEF SharedFlags
<1>5. PTE_W \notin SharedFlags(flags[p][v])
  BY <1>0 DEF SharedFlags, PTE_W, PTE_COW, TypeOK
<1>6. CASE pc'[p] # "ref_read"
  <2>1. /\ pc' = [pc EXCEPT ![p] = "unmap"]
        /\ flags' = [flags EXCEPT ![p][v] = SharedFlags(flags[p][v])]
        /\ tgt' = [tgt EXCEPT ![p] = tgt[p]]
        /\ va' = [va EXCEPT ![p] = 0]
        /\ UNCHANGED <<frame, npa, ret>>
    BY <1>0, <1>2, <1>6 DEF CopyPage, CopyErr, CallUnmap, Goto, TypeOK, callVars
  <2>2. \A q \in Proc : Keeps(q)
    BY <1>0, <1>1, <2>1 DEF Keeps, Dies, NewPcs, TypeOK
  <2>3. \A q \in Proc : \A w \in VA : PTE_W \in flags'[q][w] => PTE_W \in flags[q][w]
    BY <1>0, <1>5, <2>1 DEF TypeOK
  <2> QED
    BY <2>1, <2>2, <2>3, CalmKeeps
<1>7. CASE pc'[p] = "ref_read"
  <2>1. /\ pc' = [pc EXCEPT ![p] = "ref_read"]
        /\ frame' = [frame EXCEPT ![c][v] = frame[p][v]]
        /\ flags' = [flags EXCEPT ![p][v] = SharedFlags(flags[p][v]),
                                  ![c][v] = SharedFlags(flags[p][v])]
        /\ UNCHANGED <<tgt, va, npa, ret>>
    BY <1>0, <1>2, <1>7 DEF CopyPage, CopyErr, CallUnmap, Goto, TypeOK, loopVars, callVars
  <2>2. \A q \in Proc : Keeps(q)
    BY <1>0, <1>1, <2>1 DEF Keeps, Dies, NewPcs, TypeOK
  <2>3. /\ \A q \in Proc : \A w \in VA : q # c \/ w # v => frame'[q][w] = frame[q][w]
        /\ frame'[c][v] = frame[p][v] /\ frame[p][v] # None
    BY <1>0, <1>1, <1>2, <2>1 DEF TypeOK
  <2>4. \A q \in Proc : \A w \in VA : PTE_W \in flags'[q][w] =>
          PTE_W \in flags[q][w] /\ (q # p \/ w # v) /\ (q # c \/ w # v)
    BY <1>0, <1>3, <1>5, <2>1 DEF TypeOK
  <2>5. ~Dying(p, v)
    <3>1. \A q \in Proc : tgt[q] = p => ~Dies(q)
      BY <1>1, <1>2, <1>3 DEF Alone, Dies
    <3> QED
      BY <3>1, DyingIs
  <2>6. ASSUME NEW q \in Proc, NEW w \in VA, NEW f \in Frames, Maps(q, w, f)'
        PROVE  Maps(q, w, f) \/ (q = c /\ w = v /\ Maps(p, v, f))
    <3>1. CASE q = c /\ w = v
      BY <2>3, <2>5, <2>6, <3>1 DEF Maps
    <3>2. CASE q # c \/ w # v
      BY <2>2, <2>3, <2>6, <3>2, MapsShrinks DEF Keeps
    <3> QED
      BY <3>1, <3>2
  <2>7. ASSUME NEW q \in Proc, NEW f \in Frames, HoldsNew(q, f)' PROVE HoldsNew(q, f)
    BY <2>2, <2>7 DEF Keeps, HoldsNew
  <2>8. WritableIsPrivate'
    <3> SUFFICES ASSUME NEW q \in Proc, NEW r \in Proc, NEW w \in VA, NEW x \in VA,
                        NEW f \in Frames,
                        Maps(q, w, f)', PTE_W \in flags'[q][w], Maps(r, x, f)'
                 PROVE  q = r /\ w = x
      BY DEF WritableIsPrivate
    <3>1. Maps(q, w, f) /\ PTE_W \in flags[q][w] /\ (q # p \/ w # v)
      BY <2>4, <2>6
    <3>2. CASE Maps(r, x, f)
      BY <3>1, <3>2 DEF PrivateInv, WritableIsPrivate
    <3>3. CASE Maps(p, v, f)
      BY <3>1, <3>3 DEF PrivateInv, WritableIsPrivate
    <3> QED
      BY <2>6, <3>2, <3>3
  <2>9. NewFrames'
    BY <2>6, <2>7 DEF PrivateInv, NewFrames
  <2> QED
    BY <2>8, <2>9 DEF PrivateInv
<1> QED
  BY <1>6, <1>7

LEMMA InitPrivate == Init => PrivateInv
<1> SUFFICES ASSUME Init PROVE PrivateInv
  OBVIOUS
<1>1. PICK f \in Frames :
        /\ frame = [p \in Proc |-> [v \in VA |->
                      IF p = initproc /\ v = 0 THEN f ELSE None]]
        /\ pc = [p \in Proc |-> IF p = initproc THEN "user" ELSE "dead"]
  BY DEF Init
<1>2. \A p \in Proc : pc[p] \notin NewPcs
  BY <1>1 DEF NewPcs
<1>3. \A p \in Proc : \A v \in VA : \A g \in Frames : Maps(p, v, g) => p = initproc /\ v = 0
  BY <1>1, CowMemAssumption DEF Maps
<1> QED
  BY <1>2, <1>3 DEF PrivateInv, WritableIsPrivate, NewFrames, HoldsNew

LEMMA NextPrivate ==
  ASSUME PageTableInv, Alloc!FreeIsUnused, PrivateInv, [Next]_vars
  PROVE  PrivateInv'
<1>0. TypeOK
  BY InvParts
<1>1. CASE UNCHANGED vars
  <2>1. UNCHANGED <<frame, flags, pc, tgt, va, npa, ret>>
    BY <1>1 DEF vars, pageVars, loopVars, callVars
  <2>2. \A q \in Proc : Keeps(q)
    BY <2>1 DEF Keeps, Dies
  <2> QED
    BY <2>1, <2>2, CalmKeeps
<1>2. CASE Next
  <2> PICK p \in Proc :
        \/ UserTrapRet(p)
        \/ KfRead(p) \/ KfCas(p) \/ KfZero(p) \/ KfPush(p)
        \/ \E v \in VA : PageFault(p, v) \/ Copyout(p, v)
        \/ \E v \in VA, d \in Data : Store(p, v, d)
        \/ \E d \in Data : CopyoutWrite(p, d)
        \/ CowAlloc(p) \/ CowCopy(p) \/ CowInstall(p) \/ CowFree(p)
        \/ Unmap(p) \/ UnmapClear(p)
        \/ \E n \in 0 .. MaxPages : SbrkGrow(p, n) \/ SbrkShrink(p, n)
        \/ GrowAlloc(p) \/ GrowMap(p) \/ GrowUndo(p) \/ SetSize(p)
        \/ \E c \in Proc : Fork(p, c) \/ Wait(p, c)
        \/ CopyPage(p) \/ RefRead(p) \/ RefCas(p) \/ ForkDone(p)
        \/ Exit(p) \/ FreeProc(p)
    BY <1>2 DEF Next
  <2>1. CASE (\A q \in Proc : Keeps(q)) /\ UNCHANGED pageVars
    BY <2>1, CalmKeeps DEF pageVars
  <2>2. CASE KfRead(p) \/ KfCas(p) \/ KfZero(p) \/ KfPush(p)
    BY <1>0, <2>1, <2>2, KfreeCalm
  <2>3. CASE \/ UserTrapRet(p)
             \/ \E v \in VA : PageFault(p, v) \/ Copyout(p, v)
             \/ \E v \in VA, d \in Data : Store(p, v, d)
             \/ \E d \in Data : CopyoutWrite(p, d)
             \/ CowCopy(p) \/ CowFree(p)
    BY <1>0, <2>1, <2>3, UserCalm
  <2>4. CASE \/ Unmap(p) \/ GrowUndo(p) \/ SetSize(p)
             \/ \E n \in 0 .. MaxPages : SbrkGrow(p, n) \/ SbrkShrink(p, n)
    BY <1>0, <2>1, <2>4, SizeCalm
  <2>5. CASE \/ \E c \in Proc : Fork(p, c) \/ Wait(p, c)
             \/ RefRead(p) \/ RefCas(p) \/ ForkDone(p) \/ Exit(p) \/ FreeProc(p)
    BY <2>1, <2>5, ForkCalm
  <2>6. CASE CowAlloc(p) \/ GrowAlloc(p) \/ CowInstall(p) \/ GrowMap(p)
    BY <2>6, CowAllocPrivate, GrowAllocPrivate, CowInstallPrivate, GrowMapPrivate
  <2>7. CASE UnmapClear(p) \/ CopyPage(p)
    BY <2>7, UnmapClearPrivate, CopyPagePrivate
  <2> QED
    BY <2>2, <2>3, <2>4, <2>5, <2>6, <2>7
<1> QED
  BY <1>1, <1>2

LEMMA PrivateInvariance == Spec => []PrivateInv
<1>1. PageTableInv /\ Alloc!FreeIsUnused /\ PrivateInv /\ [Next]_vars => PrivateInv'
  BY NextPrivate
<1>2. Spec => []Alloc!FreeIsUnused
  BY KernelPages, PTL
<1> QED
  BY <1>1, <1>2, InitPrivate, Invariance, PTL DEF Spec

\* However the page faults, forks, frees and exits of all processes
\* interleave: a frame that some process may write without a fault is
\* mapped nowhere else.
THEOREM WritableFramesArePrivate == Spec => []WritableIsPrivate
<1>1. PrivateInv => WritableIsPrivate
  BY DEF PrivateInv
<1> QED
  BY <1>1, PrivateInvariance, PTL

-----------------------------------------------------------------------------
(* The contents of the frames *)

\* A shrink in progress has a smaller size to set, a grow a larger one.
Resizing(p) ==
    /\ after[p] = "set_size" => (Unmapping(p) \/ pc[p] = "set_size") /\ newsz[p] < sz[p]
    /\ pc[p] = "set_size" /\ after[p] # "set_size" => sz[p] <= newsz[p]

\* The child's table so far is the parent's.
Copied(p) ==
    Copying(p) => \A v \in VA : v < va[p] \/ (v = va[p] /\ pc[p] # "copy") =>
                     frame[tgt[p]][v] = frame[p][v]

\* The pages that sbrk has added and that sz does not count yet
Zeroed(p) ==
    /\ Growing(p) => \A v \in VA : sz[p] <= v /\ v < va[p] => content[frame[p][v]] = Zero
    /\ pc[p] = "set_size" =>
         \A v \in VA : sz[p] <= v /\ v < newsz[p] => content[frame[p][v]] = Zero

\* cow_handle has copied the page.
Filled(p) == pc[p] = "cow_install" => content[npa[p]] = content[frame[p][va[p]]]

Memory(p) == Resizing(p) /\ Copied(p) /\ Zeroed(p) /\ Filled(p)

MemoryInv == \A p \in Proc : Memory(p)

KernelInv == PageTableInv /\ Alloc!FreeIsUnused /\ PrivateInv /\ MemoryInv

LEMMA KernelFacts ==
  ASSUME KernelInv, NEW p \in Proc
  PROVE  /\ PageTableInv /\ TypeOK /\ Life(p) /\ Locals(p) /\ Own(p)
         /\ Resizing(p) /\ Copied(p) /\ Zeroed(p) /\ Filled(p)
BY InvFacts DEF KernelInv, MemoryInv, Memory

\* The entries of a running process that are not being taken down
LEMMA NotDying ==
  ASSUME PageTableInv, NEW p \in Proc, state[p] = "RUNNABLE", NEW v, Dying(p, v)
  PROVE  tgt[p] = p /\ Unmapping(p) /\ va[p] = v /\ after[p] # "free_proc"
<1>1. PICK q \in Proc : Dies(q) /\ tgt[q] = p /\ va[q] = v
  BY DyingIs
<1>2. Life(q)
  BY InvFacts
<1>3. q = p
  BY <1>1, <1>2 DEF Life
<1> QED
  BY <1>1, <1>2, <1>3 DEF Life, Dies, Unmapping, UnmapPcs, KfreePcs

LEMMA SeenIsMapped ==
  ASSUME KernelInv, NEW p \in Proc, state[p] = "RUNNABLE", NEW v \in VA, v < visible(p)
  PROVE  frame[p][v] \in Frames /\ Maps(p, v, frame[p][v])
<1>0. TypeOK /\ Life(p) /\ Locals(p) /\ Own(p) /\ Resizing(p)
  BY KernelFacts
<1>1. /\ va[p] \in Int /\ newsz[p] \in Int /\ sz[p] \in Int /\ end[p] \in Int /\ v \in Int
      /\ after[p] \in {"return", "set_size", "free_proc"}
  BY <1>0, CowMemAssumption DEF TypeOK, VA
<1>2. ~Dying(p, v)
  <2>1. ASSUME Dying(p, v) PROVE FALSE
    <3>1. Unmapping(p) /\ va[p] = v /\ after[p] \in {"return", "set_size"}
      BY <1>1, <2>1, NotDying DEF KernelInv
    <3>2. CASE after[p] = "return"
      BY <1>0, <1>1, <3>1, <3>2 DEF visible, Locals
    <3>3. CASE after[p] = "set_size"
      BY <1>0, <1>1, <3>1, <3>3 DEF visible, Locals, Resizing
    <3> QED
      BY <3>1, <3>2, <3>3
  <2> QED
    BY <2>1
<1>3. v \in OwnPages(p)
  <2>1. CASE after[p] = "set_size"
    BY <1>0, <1>1, <2>1 DEF visible, Resizing, OwnPages, Locals, Growing, Unmapping,
         UnmapPcs,
       KfreePcs, GrowPcs
  <2>2. CASE after[p] # "set_size"
    BY <1>0, <1>1, <2>2 DEF visible, Resizing, OwnPages, Locals
  <2> QED
    BY <2>1, <2>2
<1>4. frame[p][v] # None
  BY <1>0, <1>3 DEF Own
<1> QED
  BY <1>0, <1>2, <1>4 DEF Maps, TypeOK, FrameOrNone

\* The pages of a running process that is not taking any down
LEMMA OwnIsMapped ==
  ASSUME PageTableInv, NEW p \in Proc, state[p] = "RUNNABLE", ~Unmapping(p),
         NEW v \in VA, frame[p][v] # None
  PROVE  frame[p][v] \in Frames /\ Maps(p, v, frame[p][v])
<1>1. TypeOK
  BY InvFacts
<1> QED
  BY <1>1, NotDying DEF Maps, TypeOK, FrameOrNone

\* The frames that a step of p may overwrite without a store of the program
Scratch(p, f) ==
    \/ f \in free
    \/ pc[p] = "kf_zero" /\ pa[p] = f
    \/ HoldsNew(p, f)

Tidy(p) == \A f \in Frames : content'[f] = content[f] \/ Scratch(p, f)

LEMMA ScratchUnseen ==
  ASSUME KernelInv, NEW p \in Proc, NEW f \in Frames, Scratch(p, f)
  PROVE  \A q \in Proc : /\ \A v \in VA : ~Maps(q, v, f)
                         /\ q # p => ~HoldsNew(q, f)
<1>1. CASE f \in free
  <2>1. Alloc!UsesOf(f) = {}
    BY <1>1 DEF KernelInv, Alloc!FreeIsUnused
  <2> QED
    BY <2>1, NoUse DEF KernelInv
<1>2. CASE pc[p] = "kf_zero" /\ pa[p] = f
  <2>1. allocPc[p] = "zero" /\ allocArg[p] = f
    BY <1>2 DEF allocPc, allocArg, InCall, pageAllocPc, KfreePcs
  <2>2. Alloc!UsesOf(f) = {}
    BY <2>1 DEF KernelInv, Alloc!FreeIsUnused, Alloc!FreePcs
  <2> QED
    BY <2>2, NoUse DEF KernelInv
<1>3. CASE HoldsNew(p, f)
  BY <1>3 DEF KernelInv, PrivateInv, NewFrames
<1> QED
  BY <1>1, <1>2, <1>3 DEF Scratch

\* What p overwrites, the others do not see, nor do its own entries.
LEMMA TidyKeeps ==
  ASSUME KernelInv, NEW p \in Proc, Tidy(p), NEW q \in Proc, NEW f \in Frames,
         (\E v \in VA : Maps(q, v, f)) \/ (q # p /\ HoldsNew(q, f))
  PROVE  content'[f] = content[f]
BY ScratchUnseen DEF Tidy

LEMMA StoreUnseen ==
  ASSUME KernelInv, NEW p \in Proc, NEW v \in VA, Maps(p, v, frame[p][v]),
         frame[p][v] \in Frames, PTE_W \in flags[p][v],
         \A f \in Frames : f # frame[p][v] => content'[f] = content[f],
         NEW q \in Proc, NEW f \in Frames,
         (\E w \in VA : (q # p \/ w # v) /\ Maps(q, w, f)) \/ HoldsNew(q, f)
  PROVE  content'[f] = content[f]
<1>1. f # frame[p][v]
  BY DEF KernelInv, PrivateInv, WritableIsPrivate, NewFrames
<1> QED
  BY <1>1

-----------------------------------------------------------------------------
(* The processes that a step of p leaves alone *)

ContentKept(q) ==
    /\ \A v \in VA : \A f \in Frames : Maps(q, v, f) => content'[f] = content[f]
    /\ \A f \in Frames : HoldsNew(q, f) => content'[f] = content[f]

LEMMA ZeroedMaps ==
  ASSUME KernelInv, NEW q \in Proc, NEW v \in VA,
         \/ Growing(q) /\ sz[q] <= v /\ v < va[q]
         \/ pc[q] = "set_size" /\ sz[q] <= v /\ v < newsz[q]
  PROVE  frame[q][v] \in Frames /\ Maps(q, v, frame[q][v]) /\ content[frame[q][v]] = Zero
<1>0. TypeOK /\ Life(q) /\ Own(q) /\ Zeroed(q)
  BY KernelFacts
<1>1. ~Unmapping(q) /\ state[q] = "RUNNABLE"
  BY <1>0 DEF Life, Growing, Unmapping, GrowPcs, UnmapPcs, KfreePcs
<1>2. v \in OwnPages(q)
  BY DEF OwnPages, Growing, GrowPcs, KfreePcs
<1>3. frame[q][v] # None
  BY <1>0, <1>1, <1>2 DEF Own
<1>4. content[frame[q][v]] = Zero
  BY <1>0 DEF Zeroed
<1> QED
  BY <1>1, <1>3, <1>4, OwnIsMapped DEF KernelInv

LEMMA OthersMemory ==
  ASSUME KernelInv, NEW p \in Proc, NEW c \in Proc, Alone(p, c), Touches(p, c),
         NEW q \in Proc, q # p, q = c => pc'[q] \in {"dead", "user"}, ContentKept(q)
  PROVE  Memory(q)'
<1>0. TypeOK /\ Life(q) /\ Locals(q) /\ Own(q) /\ Memory(q)
  BY KernelFacts DEF Memory
<1>1. /\ tgt'[q] = tgt[q] /\ va'[q] = va[q] /\ end'[q] = end[q] /\ newsz'[q] = newsz[q]
      /\ after'[q] = after[q] /\ npa'[q] = npa[q] /\ ret'[q] = ret[q]
  BY DEF Touches
<1>2. CASE q = c
  <2>1. pc[q] = "dead" /\ after[q] # "set_size"
    BY <1>0, <1>2 DEF Alone, Memory, Resizing, Unmapping, UnmapPcs, KfreePcs
  <2> QED
    BY <1>1, <1>2, <2>1 DEF Memory, Resizing, Copied, Zeroed, Filled, Copying, Growing,
       CopyPcs, GrowPcs, KfreePcs
<1>3. CASE q # c
  <2>1. /\ pc'[q] = pc[q] /\ sz'[q] = sz[q] /\ frame'[q] = frame[q]
        /\ tgt[q] # p /\ tgt[q] # c /\ tgt[q] \in Proc
    BY <1>0, <1>3 DEF Touches, Alone, TypeOK
  <2>2. frame'[tgt[q]] = frame[tgt[q]]
    BY <2>1 DEF Touches
  <2>3. /\ Unmapping(q)' = Unmapping(q) /\ Growing(q)' = Growing(q) /\ Copying(q)' = Copying(q)
    BY <1>1, <2>1 DEF Unmapping, Growing, Copying
  <2>4. Resizing(q)' /\ Copied(q)'
    BY <1>0, <1>1, <2>1, <2>2, <2>3 DEF Memory, Resizing, Copied
  <2>5. Zeroed(q)'
    <3>1. ASSUME NEW v \in VA,
                 \/ Growing(q) /\ sz[q] <= v /\ v < va[q]
                 \/ pc[q] = "set_size" /\ sz[q] <= v /\ v < newsz[q]
          PROVE  content'[frame[q][v]] = Zero
      BY <3>1, ZeroedMaps DEF ContentKept
    <3> QED
      BY <1>1, <2>1, <2>3, <3>1 DEF Zeroed
  <2>6. Filled(q)'
    <3>1. CASE pc[q] = "cow_install"
      <4>1. /\ va[q] \in VA /\ frame[q][va[q]] # None /\ npa[q] \in Frames
            /\ ~Unmapping(q) /\ state[q] = "RUNNABLE"
        BY <1>0, <3>1 DEF Locals, Life, Cowing, CowPcs, Unmapping, UnmapPcs, KfreePcs
      <4>2. frame[q][va[q]] \in Frames /\ Maps(q, va[q], frame[q][va[q]])
        BY <4>1, OwnIsMapped DEF KernelInv
      <4>3. content'[frame[q][va[q]]] = content[frame[q][va[q]]]
        BY <4>1, <4>2 DEF ContentKept
      <4>4. content'[npa[q]] = content[npa[q]]
        BY <3>1, <4>1 DEF ContentKept, HoldsNew, NewPcs
      <4> QED
        BY <1>0, <1>1, <2>1, <3>1, <4>3, <4>4 DEF Memory, Filled
    <3>2. CASE pc[q] # "cow_install"
      BY <2>1, <3>2 DEF Filled
    <3> QED
      BY <3>1, <3>2
  <2> QED
    BY <2>4, <2>5, <2>6 DEF Memory
<1> QED
  BY <1>2, <1>3

LEMMA TidyMemory ==
  ASSUME KernelInv, NEW p \in Proc, NEW c \in Proc, Alone(p, c), Touches(p, c), Tidy(p),
         c # p => pc'[c] \in {"dead", "user"}, Memory(p)'
  PROVE  MemoryInv'
<1>1. ASSUME NEW q \in Proc, q # p PROVE Memory(q)'
  <2>1. ContentKept(q)
    BY <1>1, TidyKeeps DEF ContentKept
  <2> QED
    BY <1>1, <2>1, OthersMemory
<1> QED
  BY <1>1 DEF MemoryInv

-----------------------------------------------------------------------------
(* What the programs see of a step *)

LEMMA SameView ==
  ASSUME userLive' = userLive, \A q \in Proc : userSize'[q] = userSize[q],
         \A q \in Proc : \A v \in VA :
            v < userSize[q] => content'[frame'[q][v]] = content[frame[q][v]]
  PROVE  UNCHANGED Abstract!vars
<1>1. userSize' = userSize
  BY DEF userSize
<1>2. userMem' = userMem
  BY DEF userMem
<1> QED
  BY <1>1, <1>2 DEF Abstract!vars

LEMMA UserSize ==
  \A q \in Proc : userSize[q] = IF state[q] = "RUNNABLE" THEN visible(q) ELSE 0
BY DEF userSize

LEMMA UserSizeNext ==
  \A q \in Proc : userSize'[q] = IF state'[q] = "RUNNABLE" THEN visible(q)' ELSE 0
BY DEF userSize

LEMMA SeenByUser ==
  ASSUME KernelInv, NEW q \in Proc, NEW v \in VA, v < userSize[q]
  PROVE  state[q] = "RUNNABLE" /\ frame[q][v] \in Frames /\ Maps(q, v, frame[q][v])
<1>1. v \in Nat
  BY CowMemAssumption DEF VA
<1>2. state[q] = "RUNNABLE" /\ v < visible(q)
  BY <1>1, UserSize
<1> QED
  BY <1>2, SeenIsMapped

\* A step that changes no table, no process and no size a program sees
LEMMA TidyView ==
  ASSUME KernelInv, NEW p \in Proc, Tidy(p), frame' = frame,
         \A q \in Proc : userSize'[q] = userSize[q], userLive' = userLive
  PROVE  UNCHANGED Abstract!vars
<1>1. ASSUME NEW q \in Proc, NEW v \in VA, v < userSize[q]
      PROVE  content'[frame'[q][v]] = content[frame[q][v]]
  <2>1. frame[q][v] \in Frames /\ Maps(q, v, frame[q][v])
    BY <1>1, SeenByUser
  <2>2. content'[frame[q][v]] = content[frame[q][v]]
    BY <2>1, TidyKeeps
  <2> QED
    BY <2>2
<1> QED
  BY <1>1, SameView

LEMMA QuietView ==
  ASSUME KernelInv, NEW p \in Proc, pc[p] # "dead", Quiet(p), Tidy(p),
         Memory(p)', visible(p)' = visible(p)
  PROVE  MemoryInv' /\ UNCHANGED Abstract!vars
<1> PICK c \in Proc : c = tgt[p]
  BY KernelFacts DEF TypeOK
<1>1. Alone(p, c)
  BY OneInHand DEF KernelInv
<1>2. Touches(p, c) /\ frame' = frame /\ state' = state /\ sz' = sz
  BY DEF Quiet, Touches, pageVars, procVars
<1>3. c # p => pc'[c] = "dead"
  BY <1>1 DEF Quiet, Alone
<1>4. MemoryInv'
  BY <1>1, <1>2, <1>3, TidyMemory
<1>5. ASSUME NEW q \in Proc PROVE visible(q)' = visible(q)
  BY <1>2 DEF Quiet, visible
<1>6. \A q \in Proc : userSize'[q] = userSize[q]
  BY <1>2, <1>5, UserSize, UserSizeNext
<1>7. userLive' = userLive
  BY <1>2 DEF userLive
<1> QED
  BY <1>2, <1>4, <1>6, <1>7, TidyView

-----------------------------------------------------------------------------
(* Steps that no program sees *)

LEMMA ZeroKept ==
  ASSUME KernelInv, NEW p \in Proc, Tidy(p)
  PROVE  /\ Growing(p) => \A v \in VA : sz[p] <= v /\ v < va[p] => content'[frame[p][v]] = Zero
         /\ pc[p] = "set_size" => \A v \in VA :
              sz[p] <= v /\ v < newsz[p] => content'[frame[p][v]] = Zero
<1>1. ASSUME NEW v \in VA,
             \/ Growing(p) /\ sz[p] <= v /\ v < va[p]
             \/ pc[p] = "set_size" /\ sz[p] <= v /\ v < newsz[p]
      PROVE  content'[frame[p][v]] = Zero
  <2>1. frame[p][v] \in Frames /\ Maps(p, v, frame[p][v]) /\ content[frame[p][v]] = Zero
    BY <1>1, ZeroedMaps
  <2>2. content'[frame[p][v]] = content[frame[p][v]]
    BY <2>1, TidyKeeps
  <2> QED
    BY <2>1, <2>2
<1> QED
  BY <1>1

LEMMA UserTrapRetView ==
  ASSUME KernelInv, NEW p \in Proc, UserTrapRet(p)
  PROVE  MemoryInv' /\ UNCHANGED Abstract!vars
<1>0. /\ TypeOK /\ Life(p) /\ Locals(p)
      /\ Resizing(p) /\ Copied(p) /\ Zeroed(p) /\ Filled(p)
  BY KernelFacts
<1>1. /\ pc[p] # "dead" /\ Quiet(p)
      /\ tgt' = tgt /\ frame' = frame /\ sz' = sz
  BY <1>0 DEF UserTrapRet, Quiet, TypeOK, Life, Locals, Unmapping, Growing, Copying,
       KfreePcs, GrowPcs, CopyPcs, UnmapPcs, CowPcs, Goto, ResetLocals, allocVars,
       pageVars, procVars
<1>2. Tidy(p)
  BY <1>0 DEF UserTrapRet, Tidy, Scratch, HoldsNew, NewPcs, TypeOK, Goto, ResetLocals,
       allocVars, pageVars, procVars
<1>3. visible(p)' = visible(p)
  BY <1>0 DEF UserTrapRet, visible, Resizing, TypeOK, Unmapping, Growing, Copying,
       KfreePcs, GrowPcs, CopyPcs, UnmapPcs, Goto, ResetLocals, allocVars, pageVars,
       procVars
<1>4. Resizing(p)'
  BY <1>0, <1>1, CowMemAssumption DEF UserTrapRet, Resizing, Locals, TypeOK, Unmapping,
       Growing, Copying, KfreePcs, GrowPcs, CopyPcs, UnmapPcs, Goto, ResetLocals,
       allocVars, pageVars, procVars
<1>5. Copied(p)'
  BY <1>0, <1>1 DEF UserTrapRet, Copied, Locals, TypeOK, VA, Unmapping, Growing,
       Copying, KfreePcs, GrowPcs, CopyPcs, UnmapPcs, Goto, ResetLocals, allocVars,
       pageVars, procVars
<1>6. Zeroed(p)'
  BY <1>0, <1>1, <1>2, ZeroKept DEF UserTrapRet, Zeroed, Resizing, Locals, TypeOK, VA,
       Unmapping, Growing, Copying, KfreePcs, GrowPcs, CopyPcs, UnmapPcs, Goto,
       ResetLocals, allocVars, pageVars, procVars
<1>7. Filled(p)'
  BY <1>0, <1>1 DEF UserTrapRet, Filled, TypeOK, Goto, ResetLocals, allocVars, pageVars,
       procVars
<1> QED
  BY <1>1, <1>2, <1>3, <1>4, <1>5, <1>6, <1>7, QuietView DEF Memory

LEMMA KfReadView ==
  ASSUME KernelInv, NEW p \in Proc, KfRead(p)
  PROVE  MemoryInv' /\ UNCHANGED Abstract!vars
<1>0. /\ TypeOK /\ Life(p) /\ Locals(p)
      /\ Resizing(p) /\ Copied(p) /\ Zeroed(p) /\ Filled(p)
  BY KernelFacts
<1>1. /\ pc[p] # "dead" /\ Quiet(p)
      /\ tgt' = tgt /\ frame' = frame /\ sz' = sz
  BY <1>0 DEF KfRead, Quiet, TypeOK, Life, Locals, Unmapping, Growing, Copying,
       KfreePcs, GrowPcs, CopyPcs, UnmapPcs, CowPcs, Goto, allocVars, pageVars,
       procVars, loopVars
<1>2. Tidy(p)
  BY <1>0 DEF KfRead, Tidy, Scratch, HoldsNew, NewPcs, TypeOK, Goto, allocVars,
       pageVars, procVars, loopVars
<1>3. visible(p)' = visible(p)
  BY <1>0 DEF KfRead, visible, Resizing, TypeOK, Unmapping, Growing, Copying, KfreePcs,
       GrowPcs, CopyPcs, UnmapPcs, Goto, allocVars, pageVars, procVars, loopVars
<1>4. Resizing(p)'
  BY <1>0, <1>1, CowMemAssumption DEF KfRead, Resizing, Locals, TypeOK, Unmapping,
       Growing, Copying, KfreePcs, GrowPcs, CopyPcs, UnmapPcs, Goto, allocVars,
       pageVars, procVars, loopVars
<1>5. Copied(p)'
  BY <1>0, <1>1 DEF KfRead, Copied, Locals, TypeOK, VA, Unmapping, Growing, Copying,
       KfreePcs, GrowPcs, CopyPcs, UnmapPcs, Goto, allocVars, pageVars, procVars,
       loopVars
<1>6. Zeroed(p)'
  BY <1>0, <1>1, <1>2, ZeroKept DEF KfRead, Zeroed, Resizing, Locals, TypeOK, VA,
       Unmapping, Growing, Copying, KfreePcs, GrowPcs, CopyPcs, UnmapPcs, Goto,
       allocVars, pageVars, procVars, loopVars
<1>7. Filled(p)'
  BY <1>0, <1>1 DEF KfRead, Filled, TypeOK, Goto, allocVars, pageVars, procVars, loopVars
<1> QED
  BY <1>1, <1>2, <1>3, <1>4, <1>5, <1>6, <1>7, QuietView DEF Memory

LEMMA KfCasView ==
  ASSUME KernelInv, NEW p \in Proc, KfCas(p)
  PROVE  MemoryInv' /\ UNCHANGED Abstract!vars
<1>0. /\ TypeOK /\ Life(p) /\ Locals(p)
      /\ Resizing(p) /\ Copied(p) /\ Zeroed(p) /\ Filled(p)
  BY KernelFacts
<1>1. /\ pc[p] # "dead" /\ Quiet(p)
      /\ tgt' = tgt /\ frame' = frame /\ sz' = sz
  BY <1>0 DEF KfCas, Quiet, TypeOK, Life, Locals, Unmapping, Growing, Copying, KfreePcs,
       GrowPcs, CopyPcs, UnmapPcs, CowPcs, Goto, StillUsed, pageVars, procVars,
       loopVars, callVars
<1>2. Tidy(p)
  BY <1>0 DEF KfCas, Tidy, Scratch, HoldsNew, NewPcs, TypeOK, Goto, StillUsed, pageVars,
       procVars, loopVars, callVars
<1>3. visible(p)' = visible(p)
  BY <1>0 DEF KfCas, visible, Resizing, TypeOK, Unmapping, Growing, Copying, KfreePcs,
       GrowPcs, CopyPcs, UnmapPcs, Goto, StillUsed, pageVars, procVars, loopVars,
       callVars
<1>4. Resizing(p)'
  BY <1>0, <1>1, CowMemAssumption DEF KfCas, Resizing, Locals, TypeOK, Unmapping,
       Growing, Copying, KfreePcs, GrowPcs, CopyPcs, UnmapPcs, Goto, StillUsed,
       pageVars, procVars, loopVars, callVars
<1>5. Copied(p)'
  BY <1>0, <1>1 DEF KfCas, Copied, Locals, TypeOK, VA, Unmapping, Growing, Copying,
       KfreePcs, GrowPcs, CopyPcs, UnmapPcs, Goto, StillUsed, pageVars, procVars,
       loopVars, callVars
<1>6. Zeroed(p)'
  BY <1>0, <1>1, <1>2, ZeroKept DEF KfCas, Zeroed, Resizing, Locals, TypeOK, VA,
       Unmapping, Growing, Copying, KfreePcs, GrowPcs, CopyPcs, UnmapPcs, Goto,
       StillUsed, pageVars, procVars, loopVars, callVars
<1>7. Filled(p)'
  BY <1>0, <1>1 DEF KfCas, Filled, TypeOK, Goto, StillUsed, pageVars, procVars,
       loopVars, callVars
<1> QED
  BY <1>1, <1>2, <1>3, <1>4, <1>5, <1>6, <1>7, QuietView DEF Memory

LEMMA KfZeroView ==
  ASSUME KernelInv, NEW p \in Proc, KfZero(p)
  PROVE  MemoryInv' /\ UNCHANGED Abstract!vars
<1>0. /\ TypeOK /\ Life(p) /\ Locals(p)
      /\ Resizing(p) /\ Copied(p) /\ Zeroed(p) /\ Filled(p)
  BY KernelFacts
<1>1. /\ pc[p] # "dead" /\ Quiet(p)
      /\ tgt' = tgt /\ frame' = frame /\ sz' = sz
  BY <1>0 DEF KfZero, Quiet, TypeOK, Life, Locals, Unmapping, Growing, Copying,
       KfreePcs, GrowPcs, CopyPcs, UnmapPcs, CowPcs, Goto, pageVars, procVars, loopVars,
       callVars
<1>2. Tidy(p)
  BY <1>0 DEF KfZero, Tidy, Scratch, HoldsNew, NewPcs, TypeOK, Goto, pageVars, procVars,
       loopVars, callVars
<1>3. visible(p)' = visible(p)
  BY <1>0 DEF KfZero, visible, Resizing, TypeOK, Unmapping, Growing, Copying, KfreePcs,
       GrowPcs, CopyPcs, UnmapPcs, Goto, pageVars, procVars, loopVars, callVars
<1>4. Resizing(p)'
  BY <1>0, <1>1, CowMemAssumption DEF KfZero, Resizing, Locals, TypeOK, Unmapping,
       Growing, Copying, KfreePcs, GrowPcs, CopyPcs, UnmapPcs, Goto, pageVars, procVars,
       loopVars, callVars
<1>5. Copied(p)'
  BY <1>0, <1>1 DEF KfZero, Copied, Locals, TypeOK, VA, Unmapping, Growing, Copying,
       KfreePcs, GrowPcs, CopyPcs, UnmapPcs, Goto, pageVars, procVars, loopVars,
       callVars
<1>6. Zeroed(p)'
  BY <1>0, <1>1, <1>2, ZeroKept DEF KfZero, Zeroed, Resizing, Locals, TypeOK, VA,
       Unmapping, Growing, Copying, KfreePcs, GrowPcs, CopyPcs, UnmapPcs, Goto,
       pageVars, procVars, loopVars, callVars
<1>7. Filled(p)'
  BY <1>0, <1>1 DEF KfZero, Filled, TypeOK, Goto, pageVars, procVars, loopVars, callVars
<1> QED
  BY <1>1, <1>2, <1>3, <1>4, <1>5, <1>6, <1>7, QuietView DEF Memory

LEMMA KfPushView ==
  ASSUME KernelInv, NEW p \in Proc, KfPush(p)
  PROVE  MemoryInv' /\ UNCHANGED Abstract!vars
<1>0. /\ TypeOK /\ Life(p) /\ Locals(p)
      /\ Resizing(p) /\ Copied(p) /\ Zeroed(p) /\ Filled(p)
  BY KernelFacts
<1>1. /\ pc[p] # "dead" /\ Quiet(p)
      /\ tgt' = tgt /\ frame' = frame /\ sz' = sz
  BY <1>0 DEF KfPush, Quiet, TypeOK, Life, Locals, Unmapping, Growing, Copying,
       KfreePcs, GrowPcs, CopyPcs, UnmapPcs, CowPcs, Goto, pageVars, procVars, loopVars,
       callVars
<1>2. Tidy(p)
  BY <1>0 DEF KfPush, Tidy, Scratch, HoldsNew, NewPcs, TypeOK, Goto, pageVars, procVars,
       loopVars, callVars
<1>3. visible(p)' = visible(p)
  BY <1>0 DEF KfPush, visible, Resizing, TypeOK, Unmapping, Growing, Copying, KfreePcs,
       GrowPcs, CopyPcs, UnmapPcs, Goto, pageVars, procVars, loopVars, callVars
<1>4. Resizing(p)'
  BY <1>0, <1>1, CowMemAssumption DEF KfPush, Resizing, Locals, TypeOK, Unmapping,
       Growing, Copying, KfreePcs, GrowPcs, CopyPcs, UnmapPcs, Goto, pageVars, procVars,
       loopVars, callVars
<1>5. Copied(p)'
  BY <1>0, <1>1 DEF KfPush, Copied, Locals, TypeOK, VA, Unmapping, Growing, Copying,
       KfreePcs, GrowPcs, CopyPcs, UnmapPcs, Goto, pageVars, procVars, loopVars,
       callVars
<1>6. Zeroed(p)'
  BY <1>0, <1>1, <1>2, ZeroKept DEF KfPush, Zeroed, Resizing, Locals, TypeOK, VA,
       Unmapping, Growing, Copying, KfreePcs, GrowPcs, CopyPcs, UnmapPcs, Goto,
       pageVars, procVars, loopVars, callVars
<1>7. Filled(p)'
  BY <1>0, <1>1 DEF KfPush, Filled, TypeOK, Goto, pageVars, procVars, loopVars, callVars
<1> QED
  BY <1>1, <1>2, <1>3, <1>4, <1>5, <1>6, <1>7, QuietView DEF Memory

LEMMA PageFaultView ==
  ASSUME KernelInv, NEW p \in Proc, NEW v \in VA, PageFault(p, v)
  PROVE  MemoryInv' /\ UNCHANGED Abstract!vars
<1>0. /\ TypeOK /\ Life(p) /\ Locals(p)
      /\ Resizing(p) /\ Copied(p) /\ Zeroed(p) /\ Filled(p)
  BY KernelFacts
<1>1. /\ pc[p] # "dead" /\ Quiet(p)
      /\ tgt' = tgt /\ frame' = frame /\ sz' = sz
  BY <1>0 DEF PageFault, Quiet, TypeOK, Life, Locals, Unmapping, Growing, Copying,
       KfreePcs, GrowPcs, CopyPcs, UnmapPcs, CowPcs, Goto, allocVars, pageVars, procVars
<1>2. Tidy(p)
  BY <1>0 DEF PageFault, Tidy, Scratch, HoldsNew, NewPcs, TypeOK, Goto, allocVars,
       pageVars, procVars
<1>3. visible(p)' = visible(p)
  BY <1>0 DEF PageFault, visible, Resizing, TypeOK, Unmapping, Growing, Copying,
       KfreePcs, GrowPcs, CopyPcs, UnmapPcs, Goto, allocVars, pageVars, procVars
<1>4. Resizing(p)'
  BY <1>0, <1>1, CowMemAssumption DEF PageFault, Resizing, Locals, TypeOK, Unmapping,
       Growing, Copying, KfreePcs, GrowPcs, CopyPcs, UnmapPcs, Goto, allocVars,
       pageVars, procVars
<1>5. Copied(p)'
  BY <1>0, <1>1 DEF PageFault, Copied, Locals, TypeOK, VA, Unmapping, Growing, Copying,
       KfreePcs, GrowPcs, CopyPcs, UnmapPcs, Goto, allocVars, pageVars, procVars
<1>6. Zeroed(p)'
  BY <1>0, <1>1, <1>2, ZeroKept DEF PageFault, Zeroed, Resizing, Locals, TypeOK, VA,
       Unmapping, Growing, Copying, KfreePcs, GrowPcs, CopyPcs, UnmapPcs, Goto,
       allocVars, pageVars, procVars
<1>7. Filled(p)'
  BY <1>0, <1>1 DEF PageFault, Filled, TypeOK, Goto, allocVars, pageVars, procVars
<1> QED
  BY <1>1, <1>2, <1>3, <1>4, <1>5, <1>6, <1>7, QuietView DEF Memory

LEMMA CopyoutView ==
  ASSUME KernelInv, NEW p \in Proc, NEW v \in VA, Copyout(p, v)
  PROVE  MemoryInv' /\ UNCHANGED Abstract!vars
<1>0. /\ TypeOK /\ Life(p) /\ Locals(p)
      /\ Resizing(p) /\ Copied(p) /\ Zeroed(p) /\ Filled(p)
  BY KernelFacts
<1>1. /\ pc[p] # "dead" /\ Quiet(p)
      /\ tgt' = tgt /\ frame' = frame /\ sz' = sz
  BY <1>0 DEF Copyout, Quiet, TypeOK, Life, Locals, Unmapping, Growing, Copying,
       KfreePcs, GrowPcs, CopyPcs, UnmapPcs, CowPcs, Goto, allocVars, pageVars, procVars
<1>2. Tidy(p)
  BY <1>0 DEF Copyout, Tidy, Scratch, HoldsNew, NewPcs, TypeOK, Goto, allocVars,
       pageVars, procVars
<1>3. visible(p)' = visible(p)
  BY <1>0 DEF Copyout, visible, Resizing, TypeOK, Unmapping, Growing, Copying, KfreePcs,
       GrowPcs, CopyPcs, UnmapPcs, Goto, allocVars, pageVars, procVars
<1>4. Resizing(p)'
  BY <1>0, <1>1, CowMemAssumption DEF Copyout, Resizing, Locals, TypeOK, Unmapping,
       Growing, Copying, KfreePcs, GrowPcs, CopyPcs, UnmapPcs, Goto, allocVars,
       pageVars, procVars
<1>5. Copied(p)'
  BY <1>0, <1>1 DEF Copyout, Copied, Locals, TypeOK, VA, Unmapping, Growing, Copying,
       KfreePcs, GrowPcs, CopyPcs, UnmapPcs, Goto, allocVars, pageVars, procVars
<1>6. Zeroed(p)'
  BY <1>0, <1>1, <1>2, ZeroKept DEF Copyout, Zeroed, Resizing, Locals, TypeOK, VA,
       Unmapping, Growing, Copying, KfreePcs, GrowPcs, CopyPcs, UnmapPcs, Goto,
       allocVars, pageVars, procVars
<1>7. Filled(p)'
  BY <1>0, <1>1 DEF Copyout, Filled, TypeOK, Goto, allocVars, pageVars, procVars
<1> QED
  BY <1>1, <1>2, <1>3, <1>4, <1>5, <1>6, <1>7, QuietView DEF Memory

LEMMA CowAllocView ==
  ASSUME KernelInv, NEW p \in Proc, CowAlloc(p)
  PROVE  MemoryInv' /\ UNCHANGED Abstract!vars
<1>0. /\ TypeOK /\ Life(p) /\ Locals(p)
      /\ Resizing(p) /\ Copied(p) /\ Zeroed(p) /\ Filled(p)
  BY KernelFacts
<1>1. /\ pc[p] # "dead" /\ Quiet(p)
      /\ tgt' = tgt /\ frame' = frame /\ sz' = sz
  BY <1>0 DEF CowAlloc, Quiet, TypeOK, Life, Locals, Unmapping, Growing, Copying,
       KfreePcs, GrowPcs, CopyPcs, UnmapPcs, CowPcs, Goto, Kalloc, allocVars, pageVars,
       procVars, loopVars
<1>2. Tidy(p)
  BY <1>0 DEF CowAlloc, Tidy, Scratch, HoldsNew, NewPcs, TypeOK, Goto, Kalloc,
       allocVars, pageVars, procVars, loopVars
<1>3. visible(p)' = visible(p)
  BY <1>0 DEF CowAlloc, visible, Resizing, TypeOK, Unmapping, Growing, Copying,
       KfreePcs, GrowPcs, CopyPcs, UnmapPcs, Goto, Kalloc, allocVars, pageVars,
       procVars, loopVars
<1>4. Resizing(p)'
  BY <1>0, <1>1, CowMemAssumption DEF CowAlloc, Resizing, Locals, TypeOK, Unmapping,
       Growing, Copying, KfreePcs, GrowPcs, CopyPcs, UnmapPcs, Goto, Kalloc, allocVars,
       pageVars, procVars, loopVars
<1>5. Copied(p)'
  BY <1>0, <1>1 DEF CowAlloc, Copied, Locals, TypeOK, VA, Unmapping, Growing, Copying,
       KfreePcs, GrowPcs, CopyPcs, UnmapPcs, Goto, Kalloc, allocVars, pageVars,
       procVars, loopVars
<1>6. Zeroed(p)'
  BY <1>0, <1>1, <1>2, ZeroKept DEF CowAlloc, Zeroed, Resizing, Locals, TypeOK, VA,
       Unmapping, Growing, Copying, KfreePcs, GrowPcs, CopyPcs, UnmapPcs, Goto, Kalloc,
       allocVars, pageVars, procVars, loopVars
<1>7. Filled(p)'
  BY <1>0, <1>1 DEF CowAlloc, Filled, TypeOK, Goto, Kalloc, allocVars, pageVars,
       procVars, loopVars
<1> QED
  BY <1>1, <1>2, <1>3, <1>4, <1>5, <1>6, <1>7, QuietView DEF Memory

LEMMA CowCopyView ==
  ASSUME KernelInv, NEW p \in Proc, CowCopy(p)
  PROVE  MemoryInv' /\ UNCHANGED Abstract!vars
<1>0. /\ TypeOK /\ Life(p) /\ Locals(p)
      /\ Resizing(p) /\ Copied(p) /\ Zeroed(p) /\ Filled(p)
  BY KernelFacts
<1>1. /\ pc[p] # "dead" /\ Quiet(p)
      /\ tgt' = tgt /\ frame' = frame /\ sz' = sz
  BY <1>0 DEF CowCopy, Quiet, TypeOK, Life, Locals, Unmapping, Growing, Copying,
       KfreePcs, GrowPcs, CopyPcs, UnmapPcs, CowPcs, Goto, pageVars, procVars, loopVars,
       callVars
<1>2. Tidy(p)
  BY <1>0 DEF CowCopy, Tidy, Scratch, HoldsNew, NewPcs, TypeOK, Goto, pageVars,
       procVars, loopVars, callVars
<1>3. visible(p)' = visible(p)
  BY <1>0 DEF CowCopy, visible, Resizing, TypeOK, Unmapping, Growing, Copying, KfreePcs,
       GrowPcs, CopyPcs, UnmapPcs, Goto, pageVars, procVars, loopVars, callVars
<1>4. Resizing(p)'
  BY <1>0, <1>1, CowMemAssumption DEF CowCopy, Resizing, Locals, TypeOK, Unmapping,
       Growing, Copying, KfreePcs, GrowPcs, CopyPcs, UnmapPcs, Goto, pageVars, procVars,
       loopVars, callVars
<1>5. Copied(p)'
  BY <1>0, <1>1 DEF CowCopy, Copied, Locals, TypeOK, VA, Unmapping, Growing, Copying,
       KfreePcs, GrowPcs, CopyPcs, UnmapPcs, Goto, pageVars, procVars, loopVars,
       callVars
<1>6. Zeroed(p)'
  BY <1>0, <1>1, <1>2, ZeroKept DEF CowCopy, Zeroed, Resizing, Locals, TypeOK, VA,
       Unmapping, Growing, Copying, KfreePcs, GrowPcs, CopyPcs, UnmapPcs, Goto,
       pageVars, procVars, loopVars, callVars
<1>7. Filled(p)'
  <2>1. /\ pc[p] = "cow_copy" /\ va[p] \in VA /\ frame[p][va[p]] # None /\ npa[p] \in Frames
        /\ ~Unmapping(p) /\ state[p] = "RUNNABLE"
    BY <1>0 DEF CowCopy, Locals, Life, Cowing, CowPcs, Unmapping, UnmapPcs, KfreePcs
  <2>2. frame[p][va[p]] \in Frames /\ Maps(p, va[p], frame[p][va[p]])
    BY <2>1, OwnIsMapped DEF KernelInv
  <2>3. HoldsNew(p, npa[p])
    BY <2>1 DEF HoldsNew, NewPcs
  <2>4. frame[p][va[p]] # npa[p]
    BY <2>1, <2>2, <2>3 DEF KernelInv, PrivateInv, NewFrames
  <2> QED
    BY <1>0, <1>1, <2>1, <2>2, <2>4 DEF CowCopy, Filled, TypeOK, loopVars, callVars
<1> QED
  BY <1>1, <1>2, <1>3, <1>4, <1>5, <1>6, <1>7, QuietView DEF Memory

LEMMA CowFreeView ==
  ASSUME KernelInv, NEW p \in Proc, CowFree(p)
  PROVE  MemoryInv' /\ UNCHANGED Abstract!vars
<1>0. /\ TypeOK /\ Life(p) /\ Locals(p)
      /\ Resizing(p) /\ Copied(p) /\ Zeroed(p) /\ Filled(p)
  BY KernelFacts
<1>1. /\ pc[p] # "dead" /\ Quiet(p)
      /\ tgt' = tgt /\ frame' = frame /\ sz' = sz
  BY <1>0 DEF CowFree, Quiet, TypeOK, Life, Locals, Unmapping, Growing, Copying,
       KfreePcs, GrowPcs, CopyPcs, UnmapPcs, CowPcs, CallKfree, Goto, allocVars,
       pageVars, procVars, loopVars
<1>2. Tidy(p)
  BY <1>0 DEF CowFree, Tidy, Scratch, HoldsNew, NewPcs, TypeOK, CallKfree, Goto,
       allocVars, pageVars, procVars, loopVars
<1>3. visible(p)' = visible(p)
  BY <1>0 DEF CowFree, visible, Resizing, TypeOK, Unmapping, Growing, Copying, KfreePcs,
       GrowPcs, CopyPcs, UnmapPcs, CallKfree, Goto, allocVars, pageVars, procVars,
       loopVars
<1>4. Resizing(p)'
  BY <1>0, <1>1, CowMemAssumption DEF CowFree, Resizing, Locals, TypeOK, Unmapping,
       Growing, Copying, KfreePcs, GrowPcs, CopyPcs, UnmapPcs, CallKfree, Goto,
       allocVars, pageVars, procVars, loopVars
<1>5. Copied(p)'
  BY <1>0, <1>1 DEF CowFree, Copied, Locals, TypeOK, VA, Unmapping, Growing, Copying,
       KfreePcs, GrowPcs, CopyPcs, UnmapPcs, CallKfree, Goto, allocVars, pageVars,
       procVars, loopVars
<1>6. Zeroed(p)'
  <2>1. pc'[p] = "kf_read" /\ ret'[p] \in {"return", "copyout"}
    BY <1>0 DEF CowFree, CallKfree, Goto, TypeOK, Locals, CowPcs
  <2> QED
    BY <2>1 DEF Zeroed, Growing, GrowPcs
<1>7. Filled(p)'
  BY <1>0, <1>1 DEF CowFree, Filled, TypeOK, CallKfree, Goto, allocVars, pageVars,
       procVars, loopVars
<1> QED
  BY <1>1, <1>2, <1>3, <1>4, <1>5, <1>6, <1>7, QuietView DEF Memory

LEMMA UnmapView ==
  ASSUME KernelInv, NEW p \in Proc, Unmap(p)
  PROVE  MemoryInv' /\ UNCHANGED Abstract!vars
<1>0. /\ TypeOK /\ Life(p) /\ Locals(p)
      /\ Resizing(p) /\ Copied(p) /\ Zeroed(p) /\ Filled(p)
  BY KernelFacts
<1>1. /\ pc[p] # "dead" /\ Quiet(p)
      /\ tgt' = tgt /\ frame' = frame /\ sz' = sz
  BY <1>0 DEF Unmap, Quiet, TypeOK, Life, Locals, Unmapping, Growing, Copying, KfreePcs,
       GrowPcs, CopyPcs, UnmapPcs, CowPcs, CallKfree, Goto, allocVars, pageVars,
       procVars, loopVars
<1>2. Tidy(p)
  BY <1>0 DEF Unmap, Tidy, Scratch, HoldsNew, NewPcs, TypeOK, CallKfree, Goto,
       allocVars, pageVars, procVars, loopVars
<1>3. visible(p)' = visible(p)
  BY <1>0 DEF Unmap, visible, Resizing, TypeOK, Unmapping, Growing, Copying, KfreePcs,
       GrowPcs, CopyPcs, UnmapPcs, CallKfree, Goto, allocVars, pageVars, procVars,
       loopVars
<1>4. Resizing(p)'
  BY <1>0, <1>1, CowMemAssumption DEF Unmap, Resizing, Locals, TypeOK, Unmapping,
       Growing, Copying, KfreePcs, GrowPcs, CopyPcs, UnmapPcs, CallKfree, Goto,
       allocVars, pageVars, procVars, loopVars
<1>5. Copied(p)'
  BY <1>0, <1>1 DEF Unmap, Copied, Locals, TypeOK, VA, Unmapping, Growing, Copying,
       KfreePcs, GrowPcs, CopyPcs, UnmapPcs, CallKfree, Goto, allocVars, pageVars,
       procVars, loopVars
<1>6. Zeroed(p)'
  BY <1>0, <1>1, <1>2, ZeroKept DEF Unmap, Zeroed, Resizing, Locals, TypeOK, VA,
       Unmapping, Growing, Copying, KfreePcs, GrowPcs, CopyPcs, UnmapPcs, CallKfree,
       Goto, allocVars, pageVars, procVars, loopVars
<1>7. Filled(p)'
  BY <1>0, <1>1 DEF Unmap, Filled, TypeOK, CallKfree, Goto, allocVars, pageVars,
       procVars, loopVars
<1> QED
  BY <1>1, <1>2, <1>3, <1>4, <1>5, <1>6, <1>7, QuietView DEF Memory

LEMMA SbrkGrowView ==
  ASSUME KernelInv, NEW p \in Proc, NEW n \in 0 .. MaxPages, SbrkGrow(p, n)
  PROVE  MemoryInv' /\ UNCHANGED Abstract!vars
<1>0. /\ TypeOK /\ Life(p) /\ Locals(p)
      /\ Resizing(p) /\ Copied(p) /\ Zeroed(p) /\ Filled(p)
  BY KernelFacts
<1>1. /\ pc[p] # "dead" /\ Quiet(p)
      /\ tgt' = tgt /\ frame' = frame /\ sz' = sz
  BY <1>0 DEF SbrkGrow, Quiet, TypeOK, Life, Locals, Unmapping, Growing, Copying,
       KfreePcs, GrowPcs, CopyPcs, UnmapPcs, CowPcs, Goto, allocVars, pageVars,
       procVars, callVars
<1>2. Tidy(p)
  BY <1>0 DEF SbrkGrow, Tidy, Scratch, HoldsNew, NewPcs, TypeOK, Goto, allocVars,
       pageVars, procVars, callVars
<1>3. visible(p)' = visible(p)
  BY <1>0 DEF SbrkGrow, visible, Resizing, TypeOK, Unmapping, Growing, Copying,
       KfreePcs, GrowPcs, CopyPcs, UnmapPcs, Goto, allocVars, pageVars, procVars,
       callVars
<1>4. Resizing(p)'
  BY <1>0, <1>1, CowMemAssumption DEF SbrkGrow, Resizing, Locals, TypeOK, Unmapping,
       Growing, Copying, KfreePcs, GrowPcs, CopyPcs, UnmapPcs, Goto, allocVars,
       pageVars, procVars, callVars
<1>5. Copied(p)'
  BY <1>0, <1>1 DEF SbrkGrow, Copied, Locals, TypeOK, VA, Unmapping, Growing, Copying,
       KfreePcs, GrowPcs, CopyPcs, UnmapPcs, Goto, allocVars, pageVars, procVars,
       callVars
<1>6. Zeroed(p)'
  BY <1>0, <1>1, <1>2, ZeroKept DEF SbrkGrow, Zeroed, Resizing, Locals, TypeOK, VA,
       Unmapping, Growing, Copying, KfreePcs, GrowPcs, CopyPcs, UnmapPcs, Goto,
       allocVars, pageVars, procVars, callVars
<1>7. Filled(p)'
  BY <1>0, <1>1 DEF SbrkGrow, Filled, TypeOK, Goto, allocVars, pageVars, procVars,
       callVars
<1> QED
  BY <1>1, <1>2, <1>3, <1>4, <1>5, <1>6, <1>7, QuietView DEF Memory

LEMMA GrowAllocView ==
  ASSUME KernelInv, NEW p \in Proc, GrowAlloc(p)
  PROVE  MemoryInv' /\ UNCHANGED Abstract!vars
<1>0. /\ TypeOK /\ Life(p) /\ Locals(p)
      /\ Resizing(p) /\ Copied(p) /\ Zeroed(p) /\ Filled(p)
  BY KernelFacts
<1>1. /\ pc[p] # "dead" /\ Quiet(p)
      /\ tgt' = tgt /\ frame' = frame /\ sz' = sz
  BY <1>0 DEF GrowAlloc, Quiet, TypeOK, Life, Locals, Unmapping, Growing, Copying,
       KfreePcs, GrowPcs, CopyPcs, UnmapPcs, CowPcs, MoreToGrow, CallUnmap, Goto,
       Kalloc, allocVars, pageVars, procVars, loopVars
<1>2. Tidy(p)
  BY <1>0 DEF GrowAlloc, Tidy, Scratch, HoldsNew, NewPcs, TypeOK, MoreToGrow, CallUnmap,
       Goto, Kalloc, allocVars, pageVars, procVars, loopVars
<1>3. visible(p)' = visible(p)
  BY <1>0 DEF GrowAlloc, visible, Resizing, TypeOK, Unmapping, Growing, Copying,
       KfreePcs, GrowPcs, CopyPcs, UnmapPcs, MoreToGrow, CallUnmap, Goto, Kalloc,
       allocVars, pageVars, procVars, loopVars
<1>4. Resizing(p)'
  BY <1>0, <1>1, CowMemAssumption DEF GrowAlloc, Resizing, Locals, TypeOK, Unmapping,
       Growing, Copying, KfreePcs, GrowPcs, CopyPcs, UnmapPcs, MoreToGrow, CallUnmap,
       Goto, Kalloc, allocVars, pageVars, procVars, loopVars
<1>5. Copied(p)'
  BY <1>0, <1>1 DEF GrowAlloc, Copied, Locals, TypeOK, VA, Unmapping, Growing, Copying,
       KfreePcs, GrowPcs, CopyPcs, UnmapPcs, MoreToGrow, CallUnmap, Goto, Kalloc,
       allocVars, pageVars, procVars, loopVars
<1>6. Zeroed(p)'
  BY <1>0, <1>1, <1>2, ZeroKept DEF GrowAlloc, Zeroed, Resizing, Locals, TypeOK, VA,
       Unmapping, Growing, Copying, KfreePcs, GrowPcs, CopyPcs, UnmapPcs, MoreToGrow,
       CallUnmap, Goto, Kalloc, allocVars, pageVars, procVars, loopVars
<1>7. Filled(p)'
  BY <1>0, <1>1 DEF GrowAlloc, Filled, TypeOK, MoreToGrow, CallUnmap, Goto, Kalloc,
       allocVars, pageVars, procVars, loopVars
<1> QED
  BY <1>1, <1>2, <1>3, <1>4, <1>5, <1>6, <1>7, QuietView DEF Memory

LEMMA GrowMapFailsView ==
  ASSUME KernelInv, NEW p \in Proc, GrowMapFails(p)
  PROVE  MemoryInv' /\ UNCHANGED Abstract!vars
<1>0. /\ TypeOK /\ Life(p) /\ Locals(p)
      /\ Resizing(p) /\ Copied(p) /\ Zeroed(p) /\ Filled(p)
  BY KernelFacts
<1>1. /\ pc[p] # "dead" /\ Quiet(p)
      /\ tgt' = tgt /\ frame' = frame /\ sz' = sz
  BY <1>0 DEF GrowMapFails, Quiet, TypeOK, Life, Locals, Unmapping, Growing, Copying,
       KfreePcs, GrowPcs, CopyPcs, UnmapPcs, CowPcs, CallKfree, Goto, pageVars,
       procVars, loopVars
<1>2. Tidy(p)
  BY <1>0 DEF GrowMapFails, Tidy, Scratch, HoldsNew, NewPcs, TypeOK, CallKfree, Goto,
       pageVars, procVars, loopVars
<1>3. visible(p)' = visible(p)
  BY <1>0 DEF GrowMapFails, visible, Resizing, TypeOK, Unmapping, Growing, Copying,
       KfreePcs, GrowPcs, CopyPcs, UnmapPcs, CallKfree, Goto, pageVars, procVars,
       loopVars
<1>4. Resizing(p)'
  BY <1>0, <1>1, CowMemAssumption DEF GrowMapFails, Resizing, Locals, TypeOK, Unmapping,
       Growing, Copying, KfreePcs, GrowPcs, CopyPcs, UnmapPcs, CallKfree, Goto,
       pageVars, procVars, loopVars
<1>5. Copied(p)'
  BY <1>0, <1>1 DEF GrowMapFails, Copied, Locals, TypeOK, VA, Unmapping, Growing,
       Copying, KfreePcs, GrowPcs, CopyPcs, UnmapPcs, CallKfree, Goto, pageVars,
       procVars, loopVars
<1>6. Zeroed(p)'
  BY <1>0, <1>1, <1>2, ZeroKept DEF GrowMapFails, Zeroed, Resizing, Locals, TypeOK, VA,
       Unmapping, Growing, Copying, KfreePcs, GrowPcs, CopyPcs, UnmapPcs, CallKfree,
       Goto, pageVars, procVars, loopVars
<1>7. Filled(p)'
  BY <1>0, <1>1 DEF GrowMapFails, Filled, TypeOK, CallKfree, Goto, pageVars, procVars,
       loopVars
<1> QED
  BY <1>1, <1>2, <1>3, <1>4, <1>5, <1>6, <1>7, QuietView DEF Memory

LEMMA GrowUndoView ==
  ASSUME KernelInv, NEW p \in Proc, GrowUndo(p)
  PROVE  MemoryInv' /\ UNCHANGED Abstract!vars
<1>0. /\ TypeOK /\ Life(p) /\ Locals(p)
      /\ Resizing(p) /\ Copied(p) /\ Zeroed(p) /\ Filled(p)
  BY KernelFacts
<1>1. /\ pc[p] # "dead" /\ Quiet(p)
      /\ tgt' = tgt /\ frame' = frame /\ sz' = sz
  BY <1>0 DEF GrowUndo, Quiet, TypeOK, Life, Locals, Unmapping, Growing, Copying,
       KfreePcs, GrowPcs, CopyPcs, UnmapPcs, CowPcs, CallUnmap, Goto, allocVars,
       pageVars, procVars, callVars
<1>2. Tidy(p)
  BY <1>0 DEF GrowUndo, Tidy, Scratch, HoldsNew, NewPcs, TypeOK, CallUnmap, Goto,
       allocVars, pageVars, procVars, callVars
<1>3. visible(p)' = visible(p)
  BY <1>0 DEF GrowUndo, visible, Resizing, TypeOK, Unmapping, Growing, Copying,
       KfreePcs, GrowPcs, CopyPcs, UnmapPcs, CallUnmap, Goto, allocVars, pageVars,
       procVars, callVars
<1>4. Resizing(p)'
  BY <1>0, <1>1, CowMemAssumption DEF GrowUndo, Resizing, Locals, TypeOK, Unmapping,
       Growing, Copying, KfreePcs, GrowPcs, CopyPcs, UnmapPcs, CallUnmap, Goto,
       allocVars, pageVars, procVars, callVars
<1>5. Copied(p)'
  BY <1>0, <1>1 DEF GrowUndo, Copied, Locals, TypeOK, VA, Unmapping, Growing, Copying,
       KfreePcs, GrowPcs, CopyPcs, UnmapPcs, CallUnmap, Goto, allocVars, pageVars,
       procVars, callVars
<1>6. Zeroed(p)'
  BY <1>0, <1>1, <1>2, ZeroKept DEF GrowUndo, Zeroed, Resizing, Locals, TypeOK, VA,
       Unmapping, Growing, Copying, KfreePcs, GrowPcs, CopyPcs, UnmapPcs, CallUnmap,
       Goto, allocVars, pageVars, procVars, callVars
<1>7. Filled(p)'
  BY <1>0, <1>1 DEF GrowUndo, Filled, TypeOK, CallUnmap, Goto, allocVars, pageVars,
       procVars, callVars
<1> QED
  BY <1>1, <1>2, <1>3, <1>4, <1>5, <1>6, <1>7, QuietView DEF Memory

LEMMA RefReadView ==
  ASSUME KernelInv, NEW p \in Proc, RefRead(p)
  PROVE  MemoryInv' /\ UNCHANGED Abstract!vars
<1>0. /\ TypeOK /\ Life(p) /\ Locals(p)
      /\ Resizing(p) /\ Copied(p) /\ Zeroed(p) /\ Filled(p)
  BY KernelFacts
<1>1. /\ pc[p] # "dead" /\ Quiet(p)
      /\ tgt' = tgt /\ frame' = frame /\ sz' = sz
  BY <1>0 DEF RefRead, Quiet, TypeOK, Life, Locals, Unmapping, Growing, Copying,
       KfreePcs, GrowPcs, CopyPcs, UnmapPcs, CowPcs, Goto, allocVars, pageVars,
       procVars, loopVars
<1>2. Tidy(p)
  BY <1>0 DEF RefRead, Tidy, Scratch, HoldsNew, NewPcs, TypeOK, Goto, allocVars,
       pageVars, procVars, loopVars
<1>3. visible(p)' = visible(p)
  BY <1>0 DEF RefRead, visible, Resizing, TypeOK, Unmapping, Growing, Copying, KfreePcs,
       GrowPcs, CopyPcs, UnmapPcs, Goto, allocVars, pageVars, procVars, loopVars
<1>4. Resizing(p)'
  BY <1>0, <1>1, CowMemAssumption DEF RefRead, Resizing, Locals, TypeOK, Unmapping,
       Growing, Copying, KfreePcs, GrowPcs, CopyPcs, UnmapPcs, Goto, allocVars,
       pageVars, procVars, loopVars
<1>5. Copied(p)'
  BY <1>0, <1>1 DEF RefRead, Copied, Locals, TypeOK, VA, Unmapping, Growing, Copying,
       KfreePcs, GrowPcs, CopyPcs, UnmapPcs, Goto, allocVars, pageVars, procVars,
       loopVars
<1>6. Zeroed(p)'
  BY <1>0, <1>1, <1>2, ZeroKept DEF RefRead, Zeroed, Resizing, Locals, TypeOK, VA,
       Unmapping, Growing, Copying, KfreePcs, GrowPcs, CopyPcs, UnmapPcs, Goto,
       allocVars, pageVars, procVars, loopVars
<1>7. Filled(p)'
  BY <1>0, <1>1 DEF RefRead, Filled, TypeOK, Goto, allocVars, pageVars, procVars, loopVars
<1> QED
  BY <1>1, <1>2, <1>3, <1>4, <1>5, <1>6, <1>7, QuietView DEF Memory

LEMMA RefCasView ==
  ASSUME KernelInv, NEW p \in Proc, RefCas(p)
  PROVE  MemoryInv' /\ UNCHANGED Abstract!vars
<1>0. /\ TypeOK /\ Life(p) /\ Locals(p)
      /\ Resizing(p) /\ Copied(p) /\ Zeroed(p) /\ Filled(p)
  BY KernelFacts
<1>1. /\ pc[p] # "dead" /\ Quiet(p)
      /\ tgt' = tgt /\ frame' = frame /\ sz' = sz
  BY <1>0 DEF RefCas, Quiet, TypeOK, Life, Locals, Unmapping, Growing, Copying,
       KfreePcs, GrowPcs, CopyPcs, UnmapPcs, CowPcs, Goto, pageVars, procVars, callVars
<1>2. Tidy(p)
  BY <1>0 DEF RefCas, Tidy, Scratch, HoldsNew, NewPcs, TypeOK, Goto, pageVars, procVars,
       callVars
<1>3. visible(p)' = visible(p)
  BY <1>0 DEF RefCas, visible, Resizing, TypeOK, Unmapping, Growing, Copying, KfreePcs,
       GrowPcs, CopyPcs, UnmapPcs, Goto, pageVars, procVars, callVars
<1>4. Resizing(p)'
  BY <1>0, <1>1, CowMemAssumption DEF RefCas, Resizing, Locals, TypeOK, Unmapping,
       Growing, Copying, KfreePcs, GrowPcs, CopyPcs, UnmapPcs, Goto, pageVars, procVars,
       callVars
<1>5. Copied(p)'
  <2>1. /\ pc[p] = "ref_cas" /\ va[p] \in Int
        /\ \/ pc'[p] = "copy" /\ va'[p] = va[p] + 1
           \/ pc'[p] = "ref_read" /\ va'[p] = va[p]
    BY <1>0 DEF RefCas, Goto, TypeOK
  <2>2. \A v \in VA : v \in Int /\ (v <= va[p] => frame[tgt[p]][v] = frame[p][v])
    BY <1>0, <2>1 DEF Copied, Copying, CopyPcs, VA
  <2>3. \A v \in VA : v < va'[p] \/ (v = va'[p] /\ pc'[p] # "copy") => v <= va[p]
    BY <2>1, <2>2
  <2> QED
    BY <1>1, <2>2, <2>3 DEF Copied
<1>6. Zeroed(p)'
  BY <1>0, <1>1, <1>2, ZeroKept DEF RefCas, Zeroed, Resizing, Locals, TypeOK, VA,
       Unmapping, Growing, Copying, KfreePcs, GrowPcs, CopyPcs, UnmapPcs, Goto,
       pageVars, procVars, callVars
<1>7. Filled(p)'
  BY <1>0, <1>1 DEF RefCas, Filled, TypeOK, Goto, pageVars, procVars, callVars
<1> QED
  BY <1>1, <1>2, <1>3, <1>4, <1>5, <1>6, <1>7, QuietView DEF Memory

-----------------------------------------------------------------------------
(* Steps that change a page table or the processes *)

LEMMA OthersSize ==
  ASSUME NEW p \in Proc, NEW c \in Proc, Touches(p, c), NEW q \in Proc, q # p, q # c
  PROVE  userSize'[q] = userSize[q] /\ frame'[q] = frame[q] /\ state'[q] = state[q]
BY UserSize, UserSizeNext DEF Touches, visible

LEMMA SizeSeen ==
  ASSUME NEW p \in Proc, state[p] = "RUNNABLE", after[p] # "set_size"
  PROVE  userSize[p] = sz[p]
BY UserSize DEF visible

LEMMA SizeSeenNext ==
  ASSUME NEW p \in Proc, state'[p] = "RUNNABLE", after'[p] # "set_size"
  PROVE  userSize'[p] = sz'[p]
BY UserSizeNext DEF visible

LEMMA NotRunning ==
  \A q \in Proc : /\ state[q] # "RUNNABLE" => userSize[q] = 0
                  /\ state'[q] # "RUNNABLE" => userSize'[q] = 0
BY UserSize, UserSizeNext

LEMMA NotSeen == ASSUME NEW v \in VA, v < 0 PROVE FALSE
BY CowMemAssumption DEF VA

LEMMA AtRest ==
  ASSUME KernelInv, NEW p \in Proc, pc[p] # "dead", ~Unmapping(p), pc[p] # "set_size"
  PROVE  state[p] = "RUNNABLE" /\ after[p] # "set_size" /\ userSize[p] = sz[p]
<1>1. state[p] = "RUNNABLE" /\ after[p] # "set_size"
  BY KernelFacts DEF Life, Resizing
<1> QED
  BY <1>1, SizeSeen

LEMMA RestingMemory ==
  ASSUME NEW p \in Proc, pc'[p] \in {"dead", "user", "return"}, after'[p] # "set_size"
  PROVE  Memory(p)'
BY DEF Memory, Resizing, Copied, Zeroed, Filled, Copying, Growing, CopyPcs, GrowPcs,
     KfreePcs

LEMMA MemIs ==
  \A q \in Proc : \A v \in VA :
     /\ userMem[q][v] = IF v < userSize[q] THEN content[frame[q][v]] ELSE Zero
     /\ userMem'[q][v] = IF v < userSize'[q] THEN content'[frame'[q][v]] ELSE Zero
BY DEF userMem

LEMMA TidyWhenKept == ASSUME NEW p, content' = content PROVE Tidy(p)
BY DEF Tidy

\* uvmcopy, uvmunmap and cow_handle move frames, not what the programs read.
LEMMA CowInstallView ==
  ASSUME KernelInv, NEW p \in Proc, CowInstall(p)
  PROVE  MemoryInv' /\ UNCHANGED Abstract!vars
<1>0. /\ TypeOK /\ Life(p) /\ Locals(p) /\ Own(p) /\ Resizing(p) /\ Filled(p)
      /\ pc[p] = "cow_install"
  BY KernelFacts DEF CowInstall
<1>1. PICK v \in VA : v = va[p]
  BY <1>0 DEF Locals, Cowing, CowPcs
<1>2. /\ pc' = [pc EXCEPT ![p] = "cow_free"]
      /\ pa' = [pa EXCEPT ![p] = frame[p][v]]
      /\ frame' = [frame EXCEPT ![p][v] = npa[p]]
      /\ flags' = [flags EXCEPT ![p][v] = (@ \ {PTE_COW}) \cup {PTE_W}]
      /\ UNCHANGED <<free, references, content, state, parent, sz>>
      /\ UNCHANGED <<tgt, va, end, newsz, after, npa, ref, ret>>
  BY <1>1 DEF CowInstall, Goto, allocVars, procVars, loopVars
<1>3. tgt[p] = p /\ Alone(p, p)
  <2>1. tgt[p] = p /\ pc[p] # "dead"
    BY <1>0 DEF Life, Copying, Unmapping, CopyPcs, UnmapPcs, KfreePcs
  <2> QED
    BY <2>1, OneInHand DEF KernelInv
<1>4. Touches(p, p)
  BY <1>0, <1>2, <1>3 DEF Touches, TypeOK
<1>5. Memory(p)'
  <2>1. after[p] # "set_size"
    BY <1>0 DEF Resizing, Unmapping, UnmapPcs, KfreePcs
  <2>2. pc'[p] = "cow_free" /\ after'[p] # "set_size"
    BY <1>0, <1>2, <2>1 DEF TypeOK
  <2> QED
    BY <2>2 DEF Memory, Resizing, Copied, Zeroed, Filled, Copying, Growing, CopyPcs,
         GrowPcs, KfreePcs
<1>6. MemoryInv'
  BY <1>2, <1>3, <1>4, <1>5, TidyMemory, TidyWhenKept
<1>7. \A q \in Proc : \A w \in VA : content'[frame'[q][w]] = content[frame[q][w]]
  <2>1. content[npa[p]] = content[frame[p][v]]
    BY <1>0, <1>1 DEF Filled
  <2>2. \A q \in Proc : \A w \in VA : frame'[q][w] =
          IF q = p /\ w = v THEN npa[p] ELSE frame[q][w]
    BY <1>0, <1>2 DEF TypeOK
  <2> QED
    BY <1>2, <2>1, <2>2
<1>8. userLive' = userLive /\ \A q \in Proc : userSize'[q] = userSize[q]
  BY <1>2, UserSize, UserSizeNext DEF userLive, visible
<1> QED
  BY <1>6, <1>7, <1>8, SameView

LEMMA GrowMapView ==
  ASSUME KernelInv, NEW p \in Proc, GrowMap(p), ~GrowMapFails(p)
  PROVE  MemoryInv' /\ UNCHANGED Abstract!vars
<1>0. /\ TypeOK /\ Life(p) /\ Locals(p) /\ Own(p) /\ Resizing(p)
      /\ pc[p] = "grow_map" /\ npa[p] \in Frames
      /\ sz[p] <= va[p] /\ va[p] < end[p] /\ Growing(p)
  BY KernelFacts DEF GrowMap, Locals, Growing, GrowPcs
<1>1. va[p] \in 0 .. MaxPages /\ end[p] \in 0 .. MaxPages /\ MaxPages \in Nat /\ sz[p] \in Int
  BY <1>0, CowMemAssumption DEF TypeOK
<1>2. PICK v \in VA : v = va[p]
  BY <1>0, <1>1 DEF VA
<1>3. /\ pc' = [pc EXCEPT ![p] = "grow_alloc"]
      /\ content' = [content EXCEPT ![npa[p]] = Zero]
      /\ frame' = [frame EXCEPT ![p][v] = npa[p]]
      /\ flags' = [flags EXCEPT ![p][v] = {PTE_W}]
      /\ va' = [va EXCEPT ![p] = @ + 1]
      /\ UNCHANGED <<free, references, state, parent, sz>>
      /\ UNCHANGED <<tgt, end, newsz, after, pa, npa, ref, ret>>
  BY <1>2 DEF GrowMap, GrowMapFails, Goto, procVars, loopVars
<1>4. tgt[p] = p /\ Alone(p, p)
  <2>1. tgt[p] = p /\ pc[p] # "dead"
    BY <1>0 DEF Life, Copying, Unmapping, CopyPcs, UnmapPcs, KfreePcs
  <2> QED
    BY <2>1, OneInHand DEF KernelInv
<1>5. Touches(p, p)
  BY <1>0, <1>3, <1>4 DEF Touches, TypeOK
<1>6. HoldsNew(p, npa[p])
  BY <1>0 DEF HoldsNew, NewPcs
<1>7. Tidy(p)
  BY <1>0, <1>3, <1>6 DEF Tidy, Scratch, TypeOK
<1>8. /\ state[p] = "RUNNABLE" /\ after[p] # "set_size" /\ userSize[p] = sz[p]
      /\ pc'[p] = "grow_alloc" /\ va'[p] = va[p] + 1 /\ content'[npa[p]] = Zero
  <2>1. pc[p] # "dead" /\ ~Unmapping(p) /\ pc[p] # "set_size"
    BY <1>0 DEF Unmapping, UnmapPcs, KfreePcs
  <2> QED
    BY <1>0, <1>3, <2>1, AtRest DEF TypeOK
<1>9. \A q \in Proc : \A w \in VA :
        frame'[q][w] = IF q = p /\ w = v THEN npa[p] ELSE frame[q][w]
  BY <1>0, <1>3 DEF TypeOK
<1>10. Memory(p)'
  <2>1. Resizing(p)' /\ Copied(p)' /\ Filled(p)'
    BY <1>3, <1>8 DEF Resizing, Copied, Filled, Copying, CopyPcs
  <2>2. ASSUME NEW w \in VA, sz[p] <= w, w < va[p] + 1 PROVE content'[frame'[p][w]] = Zero
    <3>1. CASE w = v
      BY <1>8, <1>9, <3>1
    <3>2. CASE w # v
      <4>1. w < va[p]
        BY <1>1, <1>2, <2>2, <3>2 DEF VA
      <4> QED
        BY <1>0, <1>7, <1>9, <2>2, <3>2, <4>1, ZeroKept
    <3> QED
      BY <3>1, <3>2
  <2>3. Zeroed(p)'
    BY <1>3, <1>8, <2>2 DEF Zeroed
  <2> QED
    BY <2>1, <2>3 DEF Memory
<1>11. MemoryInv'
  BY <1>4, <1>5, <1>7, <1>10, TidyMemory
<1>12. userLive' = userLive /\ \A q \in Proc : userSize'[q] = userSize[q]
  BY <1>3, UserSize, UserSizeNext DEF userLive, visible
<1>13. ASSUME NEW q \in Proc, NEW w \in VA, w < userSize[q]
       PROVE  content'[frame'[q][w]] = content[frame[q][w]]
  <2>1. q # p \/ w # v
    BY <1>0, <1>1, <1>2, <1>8, <1>13
  <2>2. frame'[q][w] = frame[q][w] /\ frame[q][w] \in Frames /\ Maps(q, w, frame[q][w])
    BY <1>9, <1>13, <2>1, SeenByUser
  <2> QED
    BY <1>7, <2>2, TidyKeeps
<1> QED
  BY <1>11, <1>12, <1>13, SameView

LEMMA UnmapClearView ==
  ASSUME KernelInv, NEW p \in Proc, UnmapClear(p)
  PROVE  MemoryInv' /\ UNCHANGED Abstract!vars
<1>0. TypeOK /\ Life(p) /\ Locals(p) /\ Resizing(p) /\ pc[p] = "unmap_clear"
  BY KernelFacts DEF UnmapClear
<1>1. PICK c \in Proc, v \in 0 .. MaxPages : c = tgt[p] /\ v = va[p]
  BY <1>0 DEF TypeOK
<1>2. /\ pc' = [pc EXCEPT ![p] = "unmap"]
      /\ frame' = [frame EXCEPT ![c][v] = None]
      /\ flags' = [flags EXCEPT ![c][v] = {}]
      /\ va' = [va EXCEPT ![p] = @ + 1]
      /\ UNCHANGED <<free, references, content, state, parent, sz>>
      /\ UNCHANGED <<tgt, end, newsz, after, pa, npa, ref, ret>>
  BY <1>1 DEF UnmapClear, Goto, allocVars, procVars, callVars
<1>3. Alone(p, c)
  BY <1>0, <1>1, OneInHand DEF KernelInv
<1>4. Touches(p, c)
  BY <1>0, <1>1, <1>2 DEF Touches, TypeOK
<1>5. Memory(p)'
  <2>1. pc'[p] = "unmap" /\ (after[p] = "set_size" => newsz[p] < sz[p])
    BY <1>0, <1>2 DEF Resizing, TypeOK
  <2> QED
    BY <1>2, <2>1 DEF Memory, Resizing, Copied, Zeroed, Filled, Copying, Growing,
         Unmapping,
       CopyPcs, GrowPcs, KfreePcs, UnmapPcs
<1>6. c # p => pc'[c] = "dead"
  BY <1>2, <1>3 DEF Alone
<1>7. MemoryInv'
  BY <1>2, <1>3, <1>4, <1>5, <1>6, TidyMemory, TidyWhenKept
<1>8. userLive' = userLive /\ \A q \in Proc : userSize'[q] = userSize[q]
  BY <1>2, UserSize, UserSizeNext DEF userLive, visible
<1>9. ASSUME NEW q \in Proc, NEW w \in VA, w < userSize[q]
      PROVE  content'[frame'[q][w]] = content[frame[q][w]]
  <2>1. Maps(q, w, frame[q][w])
    BY <1>9, SeenByUser
  <2>2. q # c \/ w # v
    BY <1>0, <1>1, <2>1 DEF Maps, Dying
  <2>3. frame'[q][w] = frame[q][w]
    BY <1>0, <1>2, <2>2 DEF TypeOK
  <2> QED
    BY <1>2, <2>3
<1> QED
  BY <1>7, <1>8, <1>9, SameView

LEMMA CopyPageView ==
  ASSUME KernelInv, NEW p \in Proc, CopyPage(p)
  PROVE  MemoryInv' /\ UNCHANGED Abstract!vars
<1>0. /\ TypeOK /\ Life(p) /\ Resizing(p) /\ Copied(p)
      /\ pc[p] = "copy" /\ va[p] < sz[p] /\ Copying(p)
  BY KernelFacts DEF CopyPage, Copying, CopyPcs
<1>1. va[p] \in 0 .. MaxPages /\ sz[p] \in 0 .. MaxPages /\ MaxPages \in Nat /\ tgt[p] \in Proc
  BY <1>0, CowMemAssumption DEF TypeOK
<1>2. PICK c \in Proc, v \in VA : c = tgt[p] /\ v = va[p]
  BY <1>0, <1>1 DEF VA
<1>3. Alone(p, c) /\ c # p
  BY <1>0, <1>2, OneInHand DEF KernelInv, Life
<1>4. /\ state[c] = "USED" /\ after[p] # "set_size" /\ pc[c] = "dead"
  BY <1>0, <1>2, <1>3 DEF Life, Resizing, Unmapping, UnmapPcs, KfreePcs, Alone
<1>5. userSize[c] = 0
  BY <1>4, NotRunning
<1>6. /\ UNCHANGED <<free, references, content, state, parent, sz, newsz, pa, npa, ref, ret>>
      /\ \E l \in {"ref_read", "unmap"} : pc' = [pc EXCEPT ![p] = l]
  BY DEF CopyPage, CopyErr, CallUnmap, Goto, allocVars, procVars, callVars, loopVars
<1>7. CASE pc'[p] # "ref_read"
  <2>1. /\ pc' = [pc EXCEPT ![p] = "unmap"]
        /\ flags' = [flags EXCEPT ![p][v] = SharedFlags(flags[p][v])]
        /\ tgt' = [tgt EXCEPT ![p] = tgt[p]]
        /\ va' = [va EXCEPT ![p] = 0]
        /\ end' = [end EXCEPT ![p] = v]
        /\ after' = [after EXCEPT ![p] = "free_proc"]
        /\ frame' = frame
    BY <1>0, <1>2, <1>7 DEF CopyPage, CopyErr, CallUnmap, Goto, TypeOK
  <2>2. Touches(p, c) /\ pc'[c] = "dead"
    BY <1>0, <1>2, <1>3, <1>4, <1>6, <2>1 DEF Touches, TypeOK
  <2>3. pc'[p] = "unmap" /\ after'[p] = "free_proc"
    BY <1>0, <2>1 DEF TypeOK
  <2>4. Memory(p)'
    BY <2>3 DEF Memory, Resizing, Copied, Zeroed, Filled, Copying, Growing,
       CopyPcs, GrowPcs, KfreePcs
  <2>5. MemoryInv'
    BY <1>3, <1>6, <2>2, <2>4, TidyMemory, TidyWhenKept
  <2>6. userSize'[p] = userSize[p]
    BY <1>4, <1>6, <2>3, UserSize, UserSizeNext DEF visible
  <2>7. userSize'[c] = 0
    BY <1>4, <1>6, NotRunning
  <2>8. \A q \in Proc : userSize'[q] = userSize[q]
    BY <1>5, <2>2, <2>6, <2>7, OthersSize
  <2>9. userLive' = userLive
    BY <1>6 DEF userLive
  <2> QED
    BY <1>6, <2>1, <2>5, <2>8, <2>9, SameView
<1>8. CASE pc'[p] = "ref_read"
  <2>1. /\ pc' = [pc EXCEPT ![p] = "ref_read"]
        /\ frame' = [frame EXCEPT ![c][v] = frame[p][v]]
        /\ flags' = [flags EXCEPT ![p][v] = SharedFlags(flags[p][v]),
                                  ![c][v] = SharedFlags(flags[p][v])]
        /\ UNCHANGED <<tgt, va, end, newsz, after>>
    BY <1>0, <1>2, <1>8 DEF CopyPage, CopyErr, CallUnmap, Goto, TypeOK, loopVars
  <2>2. Touches(p, c) /\ pc'[c] = "dead"
    BY <1>0, <1>2, <1>3, <1>4, <1>6, <2>1 DEF Touches, TypeOK
  <2>3. pc'[p] = "ref_read" /\ after'[p] # "set_size"
    BY <1>0, <1>4, <2>1 DEF TypeOK
  <2>4. /\ frame'[p] = frame[p] /\ frame'[c][v] = frame[p][v]
        /\ \A w \in VA : w # v => frame'[c][w] = frame[c][w]
        /\ \A q \in Proc : q # c => frame'[q] = frame[q]
    BY <1>0, <1>3, <2>1 DEF TypeOK
  <2>5. Copied(p)'
    <3>1. \A w \in VA : w < v => frame[c][w] = frame[p][w]
      BY <1>0, <1>2 DEF Copied
    <3>2. \A w \in VA : w < v \/ w = v => frame'[c][w] = frame'[p][w]
      BY <2>4, <3>1
    <3> QED
      BY <1>2, <2>1, <3>2 DEF Copied
  <2>6. Memory(p)'
    BY <2>3, <2>5 DEF Memory, Resizing, Zeroed, Filled, Growing, GrowPcs, KfreePcs
  <2>7. MemoryInv'
    BY <1>3, <1>6, <2>2, <2>6, TidyMemory, TidyWhenKept
  <2>8. userLive' = userLive /\ \A q \in Proc : userSize'[q] = userSize[q]
    BY <1>6, <2>1, UserSize, UserSizeNext DEF userLive, visible
  <2>9. ASSUME NEW q \in Proc, NEW w \in VA, w < userSize[q]
        PROVE  content'[frame'[q][w]] = content[frame[q][w]]
    <3>1. q # c
      BY <1>5, <2>9, NotSeen
    <3> QED
      BY <1>6, <2>4, <3>1
  <2> QED
    BY <2>7, <2>8, <2>9, SameView
<1> QED
  BY <1>7, <1>8

LEMMA ForkView ==
  ASSUME KernelInv, NEW p \in Proc, NEW c \in Proc, Fork(p, c)
  PROVE  MemoryInv' /\ UNCHANGED Abstract!vars
<1>0. /\ TypeOK /\ Life(p) /\ pc[p] = "user" /\ state[c] = "UNUSED"
  BY KernelFacts DEF Fork
<1>1. /\ state[p] = "RUNNABLE" /\ after[p] # "set_size" /\ userSize[p] = sz[p]
  BY <1>0, AtRest DEF Unmapping, UnmapPcs, KfreePcs
<1>2. tgt[p] = p /\ c # p
  BY <1>0, <1>1 DEF Life, Copying, Unmapping, CopyPcs, UnmapPcs, KfreePcs
<1>3. Alone(p, c) /\ pc[c] = "dead"
  BY <1>0, <1>2, FreeHands DEF KernelInv
<1>4. /\ pc' = [pc EXCEPT ![p] = "copy"]
      /\ state' = [state EXCEPT ![c] = "USED"]
      /\ tgt' = [tgt EXCEPT ![p] = c]
      /\ va' = [va EXCEPT ![p] = 0]
      /\ UNCHANGED <<free, references, content, frame, flags, parent, sz>>
      /\ UNCHANGED <<end, newsz, after, pa, npa, ref, ret>>
  BY DEF Fork, Goto, allocVars, pageVars, callVars
<1>5. Touches(p, c) /\ pc'[c] = "dead"
  BY <1>0, <1>2, <1>3, <1>4 DEF Touches, TypeOK
<1>6. pc'[p] = "copy" /\ va'[p] = 0 /\ state'[c] = "USED" /\ state'[p] = "RUNNABLE"
  BY <1>0, <1>1, <1>2, <1>4 DEF TypeOK
<1>7. Memory(p)'
  BY <1>1, <1>4, <1>6, NotSeen DEF Memory, Resizing, Copied, Zeroed, Filled, Growing,
     GrowPcs, KfreePcs
<1>8. MemoryInv'
  BY <1>3, <1>4, <1>5, <1>7, TidyMemory, TidyWhenKept
<1>9. userSize'[p] = userSize[p]
  BY <1>1, <1>4, <1>6, SizeSeenNext
<1>10. userSize'[c] = userSize[c]
  BY <1>0, <1>6, NotRunning
<1>11. \A q \in Proc : userSize'[q] = userSize[q]
  BY <1>5, <1>9, <1>10, OthersSize
<1>12. userLive' = userLive
  BY <1>0, <1>4 DEF userLive, TypeOK
<1> QED
  BY <1>4, <1>8, <1>11, <1>12, SameView

LEMMA WaitView ==
  ASSUME KernelInv, NEW p \in Proc, NEW c \in Proc, Wait(p, c)
  PROVE  MemoryInv' /\ UNCHANGED Abstract!vars
<1>0. /\ TypeOK /\ Life(p) /\ pc[p] = "user" /\ state[c] = "ZOMBIE" /\ parent[c] = p
  BY KernelFacts DEF Wait
<1>1. /\ state[p] = "RUNNABLE" /\ after[p] # "set_size" /\ userSize[p] = sz[p]
  BY <1>0, AtRest DEF Unmapping, UnmapPcs, KfreePcs
<1>2. tgt[p] = p /\ c # p
  BY <1>0, <1>1 DEF Life, Copying, Unmapping, CopyPcs, UnmapPcs, KfreePcs
<1>3. Alone(p, c) /\ pc[c] = "dead"
  BY <1>0, <1>2, FreeHands DEF KernelInv
<1>4. /\ pc' = [pc EXCEPT ![p] = "unmap"]
      /\ tgt' = [tgt EXCEPT ![p] = c]
      /\ va' = [va EXCEPT ![p] = 0]
      /\ end' = [end EXCEPT ![p] = sz[c]]
      /\ after' = [after EXCEPT ![p] = "free_proc"]
      /\ UNCHANGED <<free, references, content, frame, flags, state, parent, sz>>
      /\ UNCHANGED <<newsz, pa, npa, ref, ret>>
  BY DEF Wait, CallUnmap, Goto, allocVars, pageVars, procVars, callVars
<1>5. Touches(p, c) /\ pc'[c] = "dead"
  BY <1>0, <1>2, <1>3, <1>4 DEF Touches, TypeOK
<1>6. pc'[p] = "unmap" /\ after'[p] = "free_proc"
  BY <1>0, <1>4 DEF TypeOK
<1>7. Memory(p)'
  BY <1>6 DEF Memory, Resizing, Copied, Zeroed, Filled, Copying, Growing, CopyPcs,
     GrowPcs, KfreePcs
<1>8. MemoryInv'
  BY <1>3, <1>4, <1>5, <1>7, TidyMemory, TidyWhenKept
<1>9. userSize'[p] = userSize[p]
  BY <1>1, <1>4, <1>6, SizeSeenNext
<1>10. userSize'[c] = userSize[c]
  BY <1>0, <1>4, NotRunning
<1>11. \A q \in Proc : userSize'[q] = userSize[q]
  BY <1>5, <1>9, <1>10, OthersSize
<1>12. userLive' = userLive
  BY <1>4 DEF userLive
<1> QED
  BY <1>4, <1>8, <1>11, <1>12, SameView

LEMMA FreeProcView ==
  ASSUME KernelInv, NEW p \in Proc, FreeProc(p)
  PROVE  MemoryInv' /\ UNCHANGED Abstract!vars
<1>0. /\ TypeOK /\ Life(p) /\ pc[p] = "free_proc" /\ tgt[p] \in Proc
  BY KernelFacts DEF FreeProc, TypeOK
<1>1. /\ state[p] = "RUNNABLE" /\ after[p] # "set_size" /\ userSize[p] = sz[p]
  BY <1>0, AtRest DEF Unmapping, UnmapPcs, KfreePcs
<1>2. PICK c \in Proc : c = tgt[p]
  BY <1>0
<1>3. c # p /\ Alone(p, c) /\ state[c] # "RUNNABLE" /\ pc[c] = "dead"
  BY <1>0, <1>2, OneInHand DEF KernelInv, Life, Alone
<1>4. /\ pc' = [pc EXCEPT ![p] = "user"]
      /\ sz' = [sz EXCEPT ![c] = 0]
      /\ parent' = [parent EXCEPT ![c] = None]
      /\ state' = [state EXCEPT ![c] = "UNUSED"]
      /\ UNCHANGED <<free, references, content, frame, flags>>
  BY <1>2 DEF FreeProc, Goto, allocVars, pageVars
<1>5. Touches(p, c) /\ pc'[c] = "dead"
  BY <1>0, <1>3, <1>4 DEF FreeProc, Touches, ResetLocals, TypeOK
<1>6. /\ pc'[p] = "user" /\ after'[p] = "return" /\ state'[p] = "RUNNABLE"
      /\ state'[c] = "UNUSED" /\ sz'[p] = sz[p]
  BY <1>0, <1>1, <1>3, <1>4 DEF FreeProc, ResetLocals, TypeOK
<1>7. MemoryInv'
  BY <1>3, <1>4, <1>5, <1>6, RestingMemory, TidyMemory, TidyWhenKept
<1>8. userSize'[p] = userSize[p]
  BY <1>1, <1>6, SizeSeenNext
<1>9. userSize'[c] = userSize[c]
  BY <1>3, <1>6, NotRunning
<1>10. \A q \in Proc : userSize'[q] = userSize[q]
  BY <1>5, <1>8, <1>9, OthersSize
<1>11. userLive' = userLive
  BY <1>0, <1>3, <1>4 DEF userLive, TypeOK
<1> QED
  BY <1>4, <1>7, <1>10, <1>11, SameView

-----------------------------------------------------------------------------
(* Steps that the programs see *)

LEMMA TableWrite ==
  ASSUME NEW S, NEW T, NEW f, NEW g, NEW x \in S, NEW y \in T, NEW d,
         f = [q \in S |-> [w \in T |-> f[q][w]]],
         g = [q \in S |-> [w \in T |-> g[q][w]]],
         \A q \in S : \A w \in T : g[q][w] = IF q = x /\ w = y THEN d ELSE f[q][w]
  PROVE  g = [f EXCEPT ![x][y] = d]
<1>1. ASSUME NEW q \in S PROVE g[q] = [w \in T |-> g[q][w]] /\ f[q] = [w \in T |-> f[q][w]]
  BY Zenon
<1>2. g[x] = [f[x] EXCEPT ![y] = d]
  BY <1>1
<1>3. ASSUME NEW q \in S, q # x PROVE g[q] = f[q]
  BY <1>1, <1>3
<1> QED
  BY <1>2, <1>3

LEMMA RowWrite ==
  ASSUME NEW S, NEW T, NEW f, NEW g, NEW x \in S, NEW r,
         f = [q \in S |-> [w \in T |-> f[q][w]]],
         g = [q \in S |-> [w \in T |-> g[q][w]]],
         r = [w \in T |-> r[w]],
         \A q \in S : \A w \in T : g[q][w] = IF q = x THEN r[w] ELSE f[q][w]
  PROVE  g = [f EXCEPT ![x] = r]
<1>1. ASSUME NEW q \in S PROVE g[q] = [w \in T |-> g[q][w]] /\ f[q] = [w \in T |-> f[q][w]]
  BY Zenon
<1>2. g[x] = r
  BY <1>1
<1>3. ASSUME NEW q \in S, q # x PROVE g[q] = f[q]
  BY <1>1, <1>3
<1> QED
  BY <1>2, <1>3

LEMMA MemTables ==
  /\ userMem = [q \in Proc |-> [v \in VA |-> userMem[q][v]]]
  /\ userMem' = [q \in Proc |-> [v \in VA |-> userMem'[q][v]]]
BY DEF userMem

LEMMA WriteView ==
  ASSUME KernelInv, NEW p \in Proc, NEW v \in VA, NEW d, pc[p] # "dead",
         v < userSize[p], PTE_W \in flags[p][v],
         content' = [content EXCEPT ![frame[p][v]] = d],
         Quiet(p), Memory(p)', visible(p)' = visible(p)
  PROVE  MemoryInv' /\ Abstract!Write(p, v, d)
<1>0. TypeOK
  BY KernelFacts
<1>1. state[p] = "RUNNABLE" /\ frame[p][v] \in Frames /\ Maps(p, v, frame[p][v])
  BY SeenByUser
<1>2. PICK c \in Proc : c = tgt[p]
  BY <1>0 DEF TypeOK
<1>3. Alone(p, c)
  BY <1>2, OneInHand DEF KernelInv
<1>4. Touches(p, c) /\ frame' = frame /\ state' = state /\ sz' = sz
  BY <1>2 DEF Quiet, Touches, pageVars, procVars
<1>5. /\ content'[frame[p][v]] = d
      /\ \A f \in Frames : f # frame[p][v] => content'[f] = content[f]
  BY <1>0, <1>1 DEF TypeOK
<1>6. ASSUME NEW q \in Proc, q # p PROVE Memory(q)'
  <2>1. ContentKept(q)
    BY <1>1, <1>5, <1>6, StoreUnseen DEF ContentKept
  <2>2. q = c => pc'[q] = "dead"
    BY <1>3, <1>6 DEF Quiet, Alone
  <2> QED
    BY <1>3, <1>4, <1>6, <2>1, <2>2, OthersMemory
<1>7. MemoryInv'
  BY <1>6 DEF MemoryInv
<1>8. ASSUME NEW q \in Proc PROVE userSize'[q] = userSize[q]
  <2>1. visible(q)' = visible(q)
    BY <1>4 DEF Quiet, visible
  <2> QED
    BY <1>4, <2>1, UserSize, UserSizeNext
<1>9. userLive' = userLive /\ userSize' = userSize
  BY <1>4, <1>8 DEF userLive, userSize
<1>10. ASSUME NEW q \in Proc, NEW w \in VA
       PROVE  userMem'[q][w] = IF q = p /\ w = v THEN d ELSE userMem[q][w]
  <2>1. CASE q = p /\ w = v
    BY <1>4, <1>5, <1>8, <2>1, MemIs
  <2>2. CASE (q # p \/ w # v) /\ w < userSize[q]
    <3>1. frame[q][w] \in Frames /\ Maps(q, w, frame[q][w])
      BY <2>2, SeenByUser
    <3>2. content'[frame[q][w]] = content[frame[q][w]]
      BY <1>1, <1>5, <2>2, <3>1, StoreUnseen
    <3> QED
      BY <1>4, <1>8, <2>2, <3>2, MemIs
  <2>3. CASE (q # p \/ w # v) /\ ~(w < userSize[q])
    BY <1>8, <2>3, MemIs
  <2> QED
    BY <2>1, <2>2, <2>3
<1>11. userMem' = [userMem EXCEPT ![p][v] = d]
  BY <1>10, MemTables, TableWrite
<1>12. p \in userLive
  BY <1>1 DEF userLive
<1> QED
  BY <1>7, <1>9, <1>11, <1>12 DEF Abstract!Write

LEMMA StoreView ==
  ASSUME KernelInv, NEW p \in Proc, NEW v \in VA, NEW d \in Data, Store(p, v, d)
  PROVE  MemoryInv' /\ Abstract!Write(p, v, d)
<1>0. /\ TypeOK /\ Own(p) /\ pc[p] = "user"
      /\ frame[p][v] # None /\ PTE_W \in flags[p][v]
      /\ content' = [content EXCEPT ![frame[p][v]] = d]
      /\ UNCHANGED <<pageVars, procVars, pc, loopVars, callVars>>
  BY KernelFacts DEF Store
<1>1. state[p] = "RUNNABLE" /\ after[p] # "set_size" /\ userSize[p] = sz[p]
  BY <1>0, AtRest DEF Unmapping, UnmapPcs, KfreePcs
<1>2. v < sz[p]
  BY <1>0, <1>1 DEF Own, OwnPages, Growing, Unmapping, UnmapPcs, GrowPcs, KfreePcs
<1>3. Quiet(p) /\ visible(p)' = visible(p)
  BY <1>0 DEF Quiet, visible, procVars, loopVars, callVars
<1>4. Memory(p)'
  BY <1>0, <1>1, RestingMemory DEF loopVars
<1> QED
  BY <1>0, <1>1, <1>2, <1>3, <1>4, WriteView

LEMMA CopyoutWriteView ==
  ASSUME KernelInv, NEW p \in Proc, NEW d \in Data, CopyoutWrite(p, d)
  PROVE  MemoryInv' /\ \E v \in VA : Abstract!Write(p, v, d)
<1>0. /\ TypeOK /\ Own(p) /\ Locals(p) /\ pc[p] = "copyout"
      /\ pc' = [pc EXCEPT ![p] = "return"]
      /\ UNCHANGED <<pageVars, procVars, loopVars, callVars>>
  BY KernelFacts DEF CopyoutWrite, Goto
<1>1. PICK v \in VA : v = va[p]
  BY <1>0 DEF Locals, Cowing
<1>2. /\ frame[p][v] # None /\ PTE_W \in flags[p][v]
      /\ content' = [content EXCEPT ![frame[p][v]] = d]
  BY <1>0, <1>1 DEF CopyoutWrite, Locals, Cowing
<1>3. state[p] = "RUNNABLE" /\ after[p] # "set_size" /\ userSize[p] = sz[p]
  BY <1>0, AtRest DEF Unmapping, UnmapPcs, KfreePcs
<1>4. v < sz[p]
  BY <1>0, <1>2, <1>3 DEF Own, OwnPages, Growing, Unmapping, UnmapPcs, GrowPcs, KfreePcs
<1>5. Quiet(p) /\ visible(p)' = visible(p)
  BY <1>0 DEF Quiet, visible, procVars, loopVars, callVars, TypeOK
<1>6. Memory(p)'
  BY <1>0, <1>3, RestingMemory DEF loopVars, TypeOK
<1> QED
  BY <1>0, <1>2, <1>3, <1>4, <1>5, <1>6, WriteView

LEMMA SbrkShrinkView ==
  ASSUME KernelInv, NEW p \in Proc, NEW n \in 0 .. MaxPages, SbrkShrink(p, n)
  PROVE  MemoryInv' /\ Abstract!Shrink(p, n)
<1>0. /\ TypeOK /\ Life(p) /\ pc[p] = "user" /\ n < sz[p]
      /\ sz[p] \in Int /\ n \in Int /\ \A v \in VA : v \in Int
  BY KernelFacts, CowMemAssumption, SMTT(30) DEF SbrkShrink, TypeOK, VA
<1>1. state[p] = "RUNNABLE" /\ after[p] # "set_size" /\ userSize[p] = sz[p]
  BY <1>0, AtRest DEF Unmapping, UnmapPcs, KfreePcs
<1>2. tgt[p] = p
  BY <1>0 DEF Life, Copying, Unmapping, CopyPcs, UnmapPcs, KfreePcs
<1>3. Alone(p, p)
  BY <1>0, <1>2, OneInHand DEF KernelInv
<1>4. /\ pc' = [pc EXCEPT ![p] = "unmap"]
      /\ tgt' = [tgt EXCEPT ![p] = p]
      /\ va' = [va EXCEPT ![p] = n]
      /\ end' = [end EXCEPT ![p] = sz[p]]
      /\ newsz' = [newsz EXCEPT ![p] = n]
      /\ after' = [after EXCEPT ![p] = "set_size"]
      /\ UNCHANGED <<free, references, content, frame, flags, state, parent, sz>>
      /\ UNCHANGED <<pa, npa, ref, ret>>
  BY DEF SbrkShrink, CallUnmap, Goto, allocVars, pageVars, procVars, callVars
<1>5. Touches(p, p)
  BY <1>0, <1>4 DEF Touches, TypeOK
<1>6. pc'[p] = "unmap" /\ after'[p] = "set_size" /\ newsz'[p] = n /\ sz'[p] = sz[p]
  BY <1>0, <1>4 DEF TypeOK
<1>7. Memory(p)'
  BY <1>0, <1>6 DEF Memory, Resizing, Copied, Zeroed, Filled, Copying, Growing, Unmapping,
     CopyPcs, GrowPcs, KfreePcs, UnmapPcs
<1>8. MemoryInv'
  BY <1>3, <1>4, <1>5, <1>7, TidyMemory, TidyWhenKept
<1>9. userSize'[p] = n
  BY <1>0, <1>1, <1>4, <1>6, UserSizeNext DEF visible
<1>10. \A q \in Proc : userSize'[q] = IF q = p THEN n ELSE userSize[q]
  BY <1>5, <1>9, OthersSize
<1>11. userSize' = [userSize EXCEPT ![p] = n]
  BY <1>10 DEF userSize
<1>12. \A q \in Proc : \A w \in VA : userMem'[q][w] =
          IF q = p THEN (IF w < n THEN userMem[p][w] ELSE Zero) ELSE userMem[q][w]
  BY <1>0, <1>1, <1>4, <1>10, MemIs
<1>13. userMem' = [userMem EXCEPT ![p] = [v \in VA |-> IF v < n THEN userMem[p][v] ELSE Zero]]
  BY <1>12 DEF userMem
<1>14. userLive' = userLive /\ p \in userLive
  BY <1>1, <1>4 DEF userLive
<1> QED
  BY <1>0, <1>1, <1>8, <1>11, <1>13, <1>14 DEF Abstract!Shrink, Abstract!VA, VA

LEMMA SetSizeView ==
  ASSUME KernelInv, NEW p \in Proc, SetSize(p)
  PROVE  /\ MemoryInv'
         /\ UNCHANGED Abstract!vars \/ \E n \in 0 .. MaxPages : Abstract!Grow(p, n)
<1>0. /\ TypeOK /\ Life(p) /\ Resizing(p) /\ Zeroed(p) /\ pc[p] = "set_size"
      /\ sz[p] \in Int /\ newsz[p] \in 0 .. MaxPages /\ newsz[p] \in Int
      /\ \A v \in VA : v \in Int
  BY KernelFacts, CowMemAssumption, SMTT(30) DEF SetSize, TypeOK, VA
<1>1. state[p] = "RUNNABLE"
  BY <1>0 DEF Life
<1>2. tgt[p] = p
  BY <1>0 DEF Life, Copying, Unmapping, CopyPcs, UnmapPcs, KfreePcs
<1>3. Alone(p, p)
  BY <1>0, <1>2, OneInHand DEF KernelInv
<1>4. /\ pc' = [pc EXCEPT ![p] = "user"]
      /\ sz' = [sz EXCEPT ![p] = newsz[p]]
      /\ after' = [after EXCEPT ![p] = "return"]
      /\ UNCHANGED <<free, references, content, frame, flags, state, parent>>
  BY DEF SetSize, Goto, ResetLocals, allocVars, pageVars
<1>5. Touches(p, p)
  BY <1>0, <1>4 DEF SetSize, ResetLocals, Touches, TypeOK
<1>6. /\ pc'[p] = "user" /\ after'[p] = "return" /\ sz'[p] = newsz[p]
      /\ state'[p] = "RUNNABLE"
  BY <1>0, <1>1, <1>4 DEF TypeOK
<1>7. MemoryInv'
  BY <1>3, <1>4, <1>5, <1>6, RestingMemory, TidyMemory, TidyWhenKept
<1>8. userSize'[p] = newsz[p]
  BY <1>6, SizeSeenNext
<1>9. userLive' = userLive /\ p \in userLive
  BY <1>1, <1>4 DEF userLive
<1>10. \A q \in Proc : userSize'[q] = IF q = p THEN newsz[p] ELSE userSize[q]
  BY <1>5, <1>8, OthersSize
<1>11. CASE userSize[p] = newsz[p]
  <2>1. \A q \in Proc : userSize'[q] = userSize[q]
    BY <1>10, <1>11
  <2> QED
    BY <1>4, <1>7, <1>9, <2>1, SameView
<1>12. CASE userSize[p] # newsz[p]
  <2>1. after[p] # "set_size"
    BY <1>0, <1>1, <1>12, UserSize DEF visible, Resizing
  <2>2. userSize[p] = sz[p] /\ sz[p] < newsz[p]
    BY <1>0, <1>1, <1>12, <2>1, SizeSeen DEF Resizing
  <2>3. ASSUME NEW q \in Proc, NEW w \in VA PROVE userMem'[q][w] = userMem[q][w]
    <3>1. CASE q = p /\ sz[p] <= w /\ w < newsz[p]
      <4>1. content[frame[p][w]] = Zero
        BY <1>0, <3>1 DEF Zeroed
      <4> QED
        BY <1>0, <1>4, <1>10, <2>2, <3>1, <4>1, MemIs
    <3>2. CASE q = p /\ ~(sz[p] <= w /\ w < newsz[p])
      BY <1>0, <1>4, <1>10, <2>2, <3>2, MemIs
    <3>3. CASE q # p
      BY <1>4, <1>10, <3>3, MemIs
    <3> QED
      BY <3>1, <3>2, <3>3
  <2>4. userMem' = userMem
    BY <2>3, MemTables, Zenon
  <2>5. userSize' = [userSize EXCEPT ![p] = newsz[p]]
    BY <1>10 DEF userSize
  <2>6. Abstract!Grow(p, newsz[p])
    BY <1>0, <1>9, <2>2, <2>4, <2>5 DEF Abstract!Grow
  <2> QED
    BY <1>0, <1>7, <2>6
<1> QED
  BY <1>11, <1>12

LEMMA ForkDoneView ==
  ASSUME KernelInv, NEW p \in Proc, ForkDone(p)
  PROVE  MemoryInv' /\ \E c \in Proc : Abstract!Fork(p, c)
<1>0. /\ TypeOK /\ Life(p) /\ Copied(p) /\ pc[p] = "copy" /\ sz[p] <= va[p] /\ Copying(p)
      /\ sz[p] \in Int /\ va[p] \in Int /\ tgt[p] \in Proc /\ \A v \in VA : v \in Int
  <2>1. TypeOK /\ Life(p) /\ Copied(p) /\ pc[p] = "copy" /\ va[p] >= sz[p]
    BY KernelFacts DEF ForkDone
  <2>2. sz[p] \in 0 .. MaxPages /\ va[p] \in 0 .. MaxPages /\ tgt[p] \in Proc
    BY <2>1 DEF TypeOK
  <2> QED
    BY <2>1, <2>2, CowMemAssumption DEF VA, Copying, CopyPcs
<1>1. /\ state[p] = "RUNNABLE" /\ after[p] # "set_size" /\ userSize[p] = sz[p]
  BY <1>0, AtRest DEF Unmapping, UnmapPcs, KfreePcs
<1>2. PICK c \in Proc : c = tgt[p]
  BY <1>0
<1>3. c # p /\ Alone(p, c) /\ state[c] = "USED" /\ pc[c] = "dead"
  BY <1>0, <1>2, OneInHand DEF KernelInv, Life, Alone
<1>4. /\ pc' = [pc EXCEPT ![p] = "user", ![c] = "user"]
      /\ sz' = [sz EXCEPT ![c] = sz[p]]
      /\ parent' = [parent EXCEPT ![c] = p]
      /\ state' = [state EXCEPT ![c] = "RUNNABLE"]
      /\ UNCHANGED <<free, references, content, frame, flags>>
  BY <1>2 DEF ForkDone, allocVars, pageVars
<1>5. Touches(p, c) /\ pc'[c] = "user"
  BY <1>0, <1>3, <1>4 DEF ForkDone, Touches, ResetLocals, TypeOK
<1>6. /\ pc'[p] = "user" /\ after'[p] = "return" /\ state'[p] = "RUNNABLE"
      /\ state'[c] = "RUNNABLE" /\ sz'[p] = sz[p] /\ sz'[c] = sz[p]
  BY <1>0, <1>1, <1>3, <1>4 DEF ForkDone, ResetLocals, TypeOK
<1>7. MemoryInv'
  BY <1>3, <1>4, <1>5, <1>6, RestingMemory, TidyMemory, TidyWhenKept
<1>8. after'[c] # "set_size"
  <2>1. Resizing(c)
    BY KernelFacts
  <2>2. after[c] # "set_size"
    BY <1>3, <2>1 DEF Resizing, Unmapping, UnmapPcs, KfreePcs
  <2> QED
    BY <1>3, <1>5, <2>2 DEF Touches
<1>9. userSize'[p] = sz[p] /\ userSize'[c] = sz[p]
  BY <1>6, <1>8, SizeSeenNext
<1>10. \A q \in Proc : userSize'[q] = IF q = c THEN userSize[p] ELSE userSize[q]
  BY <1>1, <1>5, <1>9, OthersSize
<1>11. userSize' = [userSize EXCEPT ![c] = userSize[p]]
  BY <1>10 DEF userSize
<1>12. p \in userLive /\ c \notin userLive /\ userLive' = userLive \cup {c}
  BY <1>0, <1>1, <1>3, <1>4 DEF userLive, TypeOK
<1>13. \A w \in VA : w < sz[p] => frame[c][w] = frame[p][w]
  BY <1>0, <1>2 DEF Copied
<1>14. ASSUME NEW q \in Proc, NEW w \in VA
       PROVE  userMem'[q][w] = IF q = c THEN userMem[p][w] ELSE userMem[q][w]
  BY <1>1, <1>4, <1>10, <1>13, MemIs
<1>15. userMem' = [userMem EXCEPT ![c] = userMem[p]]
  <2>1. userMem[p] = [w \in VA |-> userMem[p][w]]
    BY DEF userMem
  <2> QED
    BY <1>14, <2>1, MemTables, RowWrite
<1> QED
  BY <1>7, <1>11, <1>12, <1>15 DEF Abstract!Fork

LEMMA ExitView ==
  ASSUME KernelInv, NEW p \in Proc, Exit(p)
  PROVE  MemoryInv' /\ Abstract!Exit(p)
<1>0. TypeOK /\ Life(p) /\ pc[p] \in {"user", "exit"} /\ p # initproc
  BY KernelFacts DEF Exit
<1>1. /\ state[p] = "RUNNABLE" /\ after[p] # "set_size" /\ userSize[p] = sz[p]
  BY <1>0, AtRest DEF Unmapping, UnmapPcs, KfreePcs
<1>2. tgt[p] = p
  BY <1>0 DEF Life, Copying, Unmapping, CopyPcs, UnmapPcs, KfreePcs
<1>3. Alone(p, p)
  BY <1>0, <1>2, OneInHand DEF KernelInv
<1>4. /\ pc' = [pc EXCEPT ![p] = "dead"]
      /\ parent' = [q \in Proc |-> IF parent[q] = p THEN initproc ELSE parent[q]]
      /\ state' = [state EXCEPT ![p] = "ZOMBIE"]
      /\ UNCHANGED <<free, references, content, frame, flags, sz>>
  BY DEF Exit, Goto, allocVars, pageVars
<1>5. Touches(p, p)
  BY <1>0, <1>4 DEF Exit, Touches, ResetLocals, TypeOK
<1>6. /\ pc'[p] = "dead" /\ after'[p] = "return" /\ state'[p] = "ZOMBIE"
  BY <1>0, <1>4 DEF Exit, ResetLocals, TypeOK
<1>7. MemoryInv'
  BY <1>3, <1>4, <1>5, <1>6, RestingMemory, TidyMemory, TidyWhenKept
<1>8. \A q \in Proc : userSize'[q] = IF q = p THEN 0 ELSE userSize[q]
  BY <1>5, <1>6, OthersSize, NotRunning
<1>9. userSize' = [userSize EXCEPT ![p] = 0]
  BY <1>8 DEF userSize
<1>10. p \in userLive /\ userLive' = userLive \ {p}
  BY <1>0, <1>1, <1>4 DEF userLive, TypeOK
<1>11. ASSUME NEW q \in Proc, NEW w \in VA
       PROVE  userMem'[q][w] = IF q = p THEN Abstract!Blank[w] ELSE userMem[q][w]
  <2>1. Abstract!Blank[w] = Zero
    BY DEF Abstract!Blank, Abstract!VA, VA
  <2> QED
    BY <1>4, <1>8, <2>1, NotSeen, MemIs
<1>12. userMem' = [userMem EXCEPT ![p] = Abstract!Blank]
  <2>1. Abstract!Blank = [w \in VA |-> Abstract!Blank[w]]
    BY DEF Abstract!Blank, Abstract!VA, VA
  <2> QED
    BY <1>11, <2>1, MemTables, RowWrite
<1> QED
  BY <1>0, <1>7, <1>9, <1>10, <1>12 DEF Abstract!Exit

LEMMA InitView == Init => MemoryInv /\ Abstract!Init
<1> SUFFICES ASSUME Init PROVE MemoryInv /\ Abstract!Init
  OBVIOUS
<1>1. PICK f \in Frames :
        /\ content = [g \in Frames |-> IF g = f THEN Zero ELSE Junk]
        /\ frame = [p \in Proc |-> [v \in VA |->
                      IF p = initproc /\ v = 0 THEN f ELSE None]]
        /\ state = [p \in Proc |-> IF p = initproc THEN "RUNNABLE" ELSE "UNUSED"]
        /\ sz = [p \in Proc |-> IF p = initproc THEN 1 ELSE 0]
        /\ pc = [p \in Proc |-> IF p = initproc THEN "user" ELSE "dead"]
        /\ after = [p \in Proc |-> "return"]
  BY DEF Init
<1>2. MemoryInv
  BY <1>1 DEF MemoryInv, Memory, Resizing, Copied, Zeroed, Filled, Copying, Growing,
       CopyPcs,
     GrowPcs, KfreePcs
<1>3. \A p \in Proc : userSize[p] = IF p = initproc THEN 1 ELSE 0
  BY <1>1, UserSize DEF visible
<1>4. userSize = [p \in Proc |-> IF p = initproc THEN 1 ELSE 0]
  BY <1>3 DEF userSize
<1>5. userLive = {initproc}
  BY <1>1, CowMemAssumption DEF userLive
<1>6. ASSUME NEW p \in Proc, NEW v \in VA PROVE userMem[p][v] = Zero
  <2>1. v \in Int /\ 0 <= v
    BY CowMemAssumption DEF VA
  <2>2. CASE p = initproc /\ v = 0
    BY <1>1, <2>2, MemIs
  <2>3. CASE p = initproc /\ v # 0
    BY <1>3, <2>1, <2>3, MemIs
  <2>4. CASE p # initproc
    BY <1>3, <2>4, MemIs, NotSeen
  <2> QED
    BY <2>2, <2>3, <2>4
<1>7. userMem = [p \in Proc |-> Abstract!Blank]
  BY <1>6, MemTables DEF Abstract!Blank, Abstract!VA, VA
<1> QED
  BY <1>2, <1>4, <1>5, <1>7 DEF Abstract!Init

LEMMA StutterView == MemoryInv /\ UNCHANGED vars => MemoryInv' /\ UNCHANGED Abstract!vars
<1> SUFFICES ASSUME MemoryInv, UNCHANGED vars PROVE MemoryInv' /\ UNCHANGED Abstract!vars
  OBVIOUS
<1>1. /\ UNCHANGED <<content, frame, state, sz, pc, tgt, va, newsz, npa, ret, after>>
  BY DEF vars, allocVars, pageVars, procVars, loopVars, callVars
<1>2. MemoryInv'
  BY <1>1 DEF MemoryInv, Memory, Resizing, Copied, Zeroed, Filled, Copying, Growing,
       Unmapping
<1>3. userLive' = userLive /\ \A q \in Proc : userSize'[q] = userSize[q]
  BY <1>1, UserSize, UserSizeNext DEF userLive, visible
<1> QED
  BY <1>1, <1>2, <1>3, SameView

LEMMA NextView ==
  ASSUME KernelInv, [Next]_vars
  PROVE  MemoryInv' /\ [Abstract!Next]_(Abstract!vars)
<1>1. CASE UNCHANGED vars
  BY <1>1, StutterView DEF KernelInv
<1>2. CASE Next
  <2> PICK p \in Proc :
        \/ UserTrapRet(p)
        \/ KfRead(p) \/ KfCas(p) \/ KfZero(p) \/ KfPush(p)
        \/ \E v \in VA : PageFault(p, v) \/ Copyout(p, v)
        \/ \E v \in VA, d \in Data : Store(p, v, d)
        \/ \E d \in Data : CopyoutWrite(p, d)
        \/ CowAlloc(p) \/ CowCopy(p) \/ CowInstall(p) \/ CowFree(p)
        \/ Unmap(p) \/ UnmapClear(p)
        \/ \E n \in 0 .. MaxPages : SbrkGrow(p, n) \/ SbrkShrink(p, n)
        \/ GrowAlloc(p) \/ GrowMap(p) \/ GrowUndo(p) \/ SetSize(p)
        \/ \E c \in Proc : Fork(p, c) \/ Wait(p, c)
        \/ CopyPage(p) \/ RefRead(p) \/ RefCas(p) \/ ForkDone(p)
        \/ Exit(p) \/ FreeProc(p)
    BY <1>2 DEF Next
  <2>1. CASE UserTrapRet(p) \/ KfRead(p) \/ KfCas(p) \/ KfZero(p) \/ KfPush(p)
    BY <2>1, UserTrapRetView, KfReadView, KfCasView, KfZeroView, KfPushView
  <2>2. CASE \E v \in VA : PageFault(p, v) \/ Copyout(p, v)
    BY <2>2, PageFaultView, CopyoutView
  <2>3. CASE \E v \in VA, d \in Data : Store(p, v, d)
    BY <2>3, StoreView DEF Abstract!Next, Abstract!VA, VA
  <2>4. CASE \E d \in Data : CopyoutWrite(p, d)
    BY <2>4, CopyoutWriteView DEF Abstract!Next, Abstract!VA, VA
  <2>5. CASE CowAlloc(p) \/ CowCopy(p) \/ CowInstall(p) \/ CowFree(p)
    BY <2>5, CowAllocView, CowCopyView, CowInstallView, CowFreeView
  <2>6. CASE Unmap(p) \/ UnmapClear(p)
    BY <2>6, UnmapView, UnmapClearView
  <2>7. CASE \E n \in 0 .. MaxPages : SbrkGrow(p, n)
    BY <2>7, SbrkGrowView
  <2>8. CASE \E n \in 0 .. MaxPages : SbrkShrink(p, n)
    BY <2>8, SbrkShrinkView DEF Abstract!Next
  <2>9. CASE GrowAlloc(p) \/ GrowMap(p) \/ GrowUndo(p)
    BY <2>9, GrowAllocView, GrowMapView, GrowMapFailsView, GrowUndoView
  <2>10. CASE SetSize(p)
    BY <2>10, SetSizeView DEF Abstract!Next
  <2>11. CASE \E c \in Proc : Fork(p, c) \/ Wait(p, c)
    BY <2>11, ForkView, WaitView
  <2>12. CASE CopyPage(p) \/ RefRead(p) \/ RefCas(p)
    BY <2>12, CopyPageView, RefReadView, RefCasView
  <2>13. CASE ForkDone(p)
    BY <2>13, ForkDoneView DEF Abstract!Next
  <2>14. CASE Exit(p)
    BY <2>14, ExitView DEF Abstract!Next
  <2>15. CASE FreeProc(p)
    BY <2>15, FreeProcView
  <2> QED
    BY <2>1, <2>2, <2>3, <2>4, <2>5, <2>6, <2>7, <2>8, <2>9, <2>10, <2>11, <2>12, <2>13,
       <2>14, <2>15
<1> QED
  BY <1>1, <1>2

\* fork, sbrk, exit, wait and the stores of the programs, on shared frames
\* with reference counts and with page faults at any moment, do what they
\* would do if every process had a memory of its own.
THEOREM ForkIsolation == Spec => ImplementsForkMemory
<1>1. KernelInv /\ [Next]_vars => MemoryInv' /\ [Abstract!Next]_(Abstract!vars)
  BY NextView
<1>2. KernelInv <=> PageTableInv /\ Alloc!FreeIsUnused /\ PrivateInv /\ MemoryInv
  BY DEF KernelInv
<1>3. Spec => []Alloc!FreeIsUnused
  BY KernelPages, PTL
<1> QED
  BY <1>1, <1>2, <1>3, InitView, Invariance, PrivateInvariance, PTL
     DEF Spec, ImplementsForkMemory, Abstract!Spec
=============================================================================
