-------------------------- MODULE PageAlloc_proof --------------------------
(***************************************************************************)
(* Proofs about PageAlloc for any number of threads, pages and uses.       *)
(***************************************************************************)
EXTENDS PageAlloc, FiniteSetTheorems, TLAPS

\* The uses of a page are finitely many, so they can be counted.
LEMMA UsesFinite == ASSUME TypeOK, NEW f
                    PROVE  IsFiniteSet(UsesOf(f)) /\ Cardinality(UsesOf(f)) \in Nat
BY PageAllocAssumption, FS_Subset, FS_CardinalityType DEF UsesOf

\* A page has no use exactly when its count is 0.
LEMMA UnusedIffZero == ASSUME TypeOK, NEW f
                       PROVE  UsesOf(f) = {} <=> Cardinality(UsesOf(f)) = 0
BY UsesFinite, FS_EmptySet

\* A use that gets page f: f gains one use, no other page does.
LEMMA GainUse ==
    ASSUME TypeOK, NEW u \in Use, NEW f \in Frames, page[u] = None,
           page' = [page EXCEPT ![u] = f]
    PROVE  /\ Cardinality(UsesOf(f)') = Cardinality(UsesOf(f)) + 1
           /\ u \in UsesOf(f)'
           /\ \A g \in Frames \ {f} : UsesOf(g)' = UsesOf(g)
<1>1. u \notin UsesOf(f)
  BY PageAllocAssumption DEF UsesOf
<1>2. UsesOf(f)' = UsesOf(f) \cup {u}
  BY DEF UsesOf, TypeOK
<1>3. \A g \in Frames \ {f} : UsesOf(g)' = UsesOf(g)
  BY PageAllocAssumption DEF UsesOf, TypeOK
<1> QED
  BY <1>1, <1>2, <1>3, UsesFinite, FS_AddElement

\* A use that gives up page f: f loses one use, no other page does.
LEMMA LoseUse ==
    ASSUME TypeOK, NEW u \in Use, NEW f \in Frames, page[u] = f,
           page' = [page EXCEPT ![u] = None]
    PROVE  /\ Cardinality(UsesOf(f)') = Cardinality(UsesOf(f)) - 1
           /\ IsFiniteSet(UsesOf(f)')
           /\ u \in UsesOf(f)
           /\ \A g \in Frames \ {f} : UsesOf(g)' = UsesOf(g)
<1>1. u \in UsesOf(f)
  BY DEF UsesOf
<1>2. UsesOf(f)' = UsesOf(f) \ {u}
  BY PageAllocAssumption DEF UsesOf, TypeOK
<1>3. \A g \in Frames \ {f} : UsesOf(g)' = UsesOf(g)
  BY PageAllocAssumption DEF UsesOf, TypeOK
<1> QED
  BY <1>1, <1>2, <1>3, UsesFinite, FS_RemoveElement

\* Any division of the pages into free and used ones satisfies the invariant.
LEMMA InitInv == Init => Inv
<1> SUFFICES ASSUME Init PROVE Inv
  OBVIOUS
<1>2. TypeOK
  <2>1. \A f : Cardinality(UsesOf(f)) \in Nat
    BY PageAllocAssumption, FS_Subset, FS_CardinalityType DEF UsesOf
  <2> QED
    BY <2>1 DEF Init, TypeOK
<1>3. CallsOK
  BY DEF Init, CallsOK, AddPcs, RemovePcs
<1>4. RefCountExact /\ FreeIsUnused /\ NoPageLost
  BY DEF Init, RefCountExact, FreeIsUnused, NoPageLost, Freeing, FreePcs
<1> QED
  BY <1>2, <1>3, <1>4 DEF Inv

\* A page that a use keeps is not free and nobody frees it.
LEMMA UsedIsNotFree ==
    ASSUME Inv, NEW u \in Use, page[u] # None
    PROVE  /\ page[u] \in Frames
           /\ page[u] \notin free
           /\ \A t \in Thread : ~Freeing(t, page[u])
           /\ references[page[u]] > 0
<1>1. page[u] \in Frames /\ u \in UsesOf(page[u])
  BY DEF Inv, TypeOK, UsesOf
<1>2. references[page[u]] > 0
  BY <1>1, UnusedIffZero, UsesFinite DEF Inv, RefCountExact
<1> QED
  BY <1>1, <1>2 DEF Inv, FreeIsUnused, Freeing

\* A page that moves between two uses of a thread keeps its count: page by
\* page one use goes and one comes, or nothing changes.
LEMMA MoveStep ==
    ASSUME Inv, NEW t \in Thread, NEW u \in Use, NEW w \in Use, Move(t, u, w)
    PROVE  Inv'
<1>1. TypeOK'
  BY DEF Inv, TypeOK, Move
<1>2. CallsOK'
  BY DEF Inv, TypeOK, CallsOK, Move, AddPcs, RemovePcs
<1>3. \A f \in Frames : /\ Cardinality(UsesOf(f)') = Cardinality(UsesOf(f))
                        /\ UsesOf(f)' = {} <=> UsesOf(f) = {}
  <2> SUFFICES ASSUME NEW f \in Frames
               PROVE  /\ Cardinality(UsesOf(f)') = Cardinality(UsesOf(f))
                      /\ UsesOf(f)' = {} <=> UsesOf(f) = {}
    OBVIOUS
  <2>1. CASE page[u] = page[w] \/ (page[u] # f /\ page[w] # f)
    <3>1. UsesOf(f)' = UsesOf(f)
      BY <2>1 DEF Inv, TypeOK, Move, UsesOf
    <3> QED
      BY <3>1
  <2>2. CASE page[u] = f /\ page[w] # f
    <3>1. UsesOf(f)' = (UsesOf(f) \ {u}) \cup {w} /\ u \in UsesOf(f) /\ w \notin UsesOf(f)
      BY <2>2 DEF Inv, TypeOK, Move, UsesOf
    <3>2. /\ IsFiniteSet(UsesOf(f) \ {u})
          /\ Cardinality(UsesOf(f) \ {u}) = Cardinality(UsesOf(f)) - 1
          /\ Cardinality(UsesOf(f)) \in Nat
      BY <3>1, UsesFinite, FS_RemoveElement DEF Inv
    <3>3. Cardinality(UsesOf(f)') = Cardinality(UsesOf(f) \ {u}) + 1
      BY <3>1, <3>2, FS_AddElement
    <3> QED
      BY <3>1, <3>2, <3>3
  <2>3. CASE page[u] # f /\ page[w] = f
    <3>1. UsesOf(f)' = (UsesOf(f) \ {w}) \cup {u} /\ w \in UsesOf(f) /\ u \notin UsesOf(f)
      BY <2>3 DEF Inv, TypeOK, Move, UsesOf
    <3>2. /\ IsFiniteSet(UsesOf(f) \ {w})
          /\ Cardinality(UsesOf(f) \ {w}) = Cardinality(UsesOf(f)) - 1
          /\ Cardinality(UsesOf(f)) \in Nat
      BY <3>1, UsesFinite, FS_RemoveElement DEF Inv
    <3>3. Cardinality(UsesOf(f)') = Cardinality(UsesOf(f) \ {w}) + 1
      BY <3>1, <3>2, FS_AddElement
    <3> QED
      BY <3>1, <3>2, <3>3
  <2> QED
    BY <2>1, <2>2, <2>3
<1>4. RefCountExact'
  BY <1>3 DEF Inv, RefCountExact, Move
<1>5. FreeIsUnused' /\ NoPageLost'
  BY <1>3 DEF Inv, TypeOK, FreeIsUnused, NoPageLost, Freeing, CallsOK, FreePcs, Move
<1> QED
  BY <1>1, <1>2, <1>4, <1>5 DEF Inv

\* A use changes its owner between calls: nobody's argument is affected.
LEMMA HandOverStep == Inv /\ HandOver => Inv'
<1> SUFFICES ASSUME Inv, HandOver PROVE Inv'
  OBVIOUS
<1>1. TypeOK'
  BY DEF Inv, TypeOK, HandOver
<1>2. CallsOK'
  <2> SUFFICES ASSUME NEW t \in Thread, pc[t] # "idle"
               PROVE  \A u \in Use : owner[u] = t => owner'[u] = t
    BY DEF Inv, CallsOK, HandOver, AddPcs, RemovePcs
  <2> QED
    BY DEF HandOver
<1>3. \A f : UsesOf(f)' = UsesOf(f)
  BY DEF HandOver, UsesOf
<1>4. RefCountExact' /\ FreeIsUnused' /\ NoPageLost'
  BY <1>3 DEF Inv, RefCountExact, FreeIsUnused, NoPageLost, Freeing, HandOver
<1> QED
  BY <1>1, <1>2, <1>4 DEF Inv

\* kalloc: the page was free, so its one use is the new one and its count 1.
LEMMA KallocStep ==
    ASSUME Inv, NEW t \in Thread, NEW u \in Use, Kalloc(t, u)
    PROVE  Inv'
<1>1. PICK f \in free : /\ free' = free \ {f}
                        /\ references' = [references EXCEPT ![f] = 1]
                        /\ page' = [page EXCEPT ![u] = f]
  BY DEF Kalloc
<1>2. f \in Frames /\ UsesOf(f) = {} /\ \A s \in Thread : ~Freeing(s, f)
  BY DEF Inv, TypeOK, FreeIsUnused
<1>3. TypeOK'
  BY <1>1, <1>2 DEF Inv, TypeOK, Kalloc
<1>4. CallsOK'
  BY <1>1, <1>2, PageAllocAssumption DEF Inv, TypeOK, CallsOK, Kalloc, AddPcs, RemovePcs
<1>5. /\ Cardinality(UsesOf(f)') = 1
      /\ u \in UsesOf(f)'
      /\ \A g \in Frames \ {f} : UsesOf(g)' = UsesOf(g)
  <2>1. Cardinality(UsesOf(f)) = 0
    BY <1>2, FS_EmptySet
  <2>2. TypeOK /\ page[u] = None
    BY DEF Inv, Kalloc
  <2>3. Cardinality(UsesOf(f)') = Cardinality(UsesOf(f)) + 1 /\ u \in UsesOf(f)'
    BY <1>1, <1>2, <2>2, GainUse
  <2>4. \A g \in Frames \ {f} : UsesOf(g)' = UsesOf(g)
    BY <1>1, <1>2, <2>2, GainUse
  <2> QED
    BY <2>1, <2>3, <2>4
<1>6. RefCountExact'
  BY <1>1, <1>2, <1>5 DEF Inv, TypeOK, RefCountExact
<1>7. FreeIsUnused' /\ NoPageLost'
  BY <1>1, <1>2, <1>5 DEF Inv, TypeOK, CallsOK, FreeIsUnused, NoPageLost, Freeing, Kalloc, FreePcs
<1> QED
  BY <1>3, <1>4, <1>6, <1>7 DEF Inv

\* Calls and reads change nothing but the locals of the thread.
LEMMA LocalStep ==
    ASSUME Inv, NEW t \in Thread, TypeOK', CallsOK',
           UNCHANGED <<free, references, page, owner>>,
           \A s \in Thread : /\ pc[s] \in FreePcs <=> pc'[s] \in FreePcs
                             /\ pc[s] \in FreePcs => arg'[s] = arg[s]
    PROVE  Inv'
<1>1. \A f : UsesOf(f)' = UsesOf(f)
  BY DEF UsesOf
<1>2. RefCountExact' /\ FreeIsUnused' /\ NoPageLost'
  BY <1>1 DEF Inv, RefCountExact, FreeIsUnused, NoPageLost, Freeing
<1> QED
  BY <1>2 DEF Inv

\* The call of reference_add: the caller has a use of the page.
LEMMA AddCallStep ==
    ASSUME Inv, NEW t \in Thread, NEW u \in Use, NEW w \in Use, AddCall(t, u, w)
    PROVE  Inv'
<1>1. TypeOK'
  BY DEF Inv, TypeOK, AddCall, Goto, AddPcs
<1>2. CallsOK'
  BY DEF Inv, TypeOK, CallsOK, AddCall, Goto, AddPcs, RemovePcs
<1> QED
  BY <1>1, <1>2, LocalStep DEF Inv, TypeOK, AddCall, Goto, FreePcs

\* The read of reference_add's cas loop changes a local only.
LEMMA AddReadStep == ASSUME Inv, NEW t \in Thread, AddRead(t) PROVE Inv'
<1>1. TypeOK'
  BY DEF Inv, TypeOK, CallsOK, AddRead, Goto, AddPcs
<1>2. CallsOK'
  BY DEF Inv, TypeOK, CallsOK, AddRead, Goto, AddPcs, RemovePcs
<1> QED
  BY <1>1, <1>2, LocalStep DEF Inv, TypeOK, AddRead, Goto, FreePcs

\* The call of kfree: the caller gives up a use of its own.
LEMMA FreeCallStep ==
    ASSUME Inv, NEW t \in Thread, NEW u \in Use, FreeCall(t, u)
    PROVE  Inv'
<1>1. TypeOK'
  BY DEF Inv, TypeOK, FreeCall, Goto, RemovePcs
<1>2. CallsOK'
  BY DEF Inv, TypeOK, CallsOK, FreeCall, Goto, AddPcs, RemovePcs
<1> QED
  BY <1>1, <1>2, LocalStep DEF Inv, TypeOK, FreeCall, Goto, FreePcs

\* The read of reference_remove's cas loop changes a local only.
LEMMA RemoveReadStep == ASSUME Inv, NEW t \in Thread, RemoveRead(t) PROVE Inv'
<1>1. TypeOK'
  BY DEF Inv, TypeOK, CallsOK, RemoveRead, Goto, RemovePcs
<1>2. CallsOK'
  BY DEF Inv, TypeOK, CallsOK, RemoveRead, Goto, AddPcs, RemovePcs
<1> QED
  BY <1>1, <1>2, LocalStep DEF Inv, TypeOK, RemoveRead, Goto, FreePcs

\* The cas succeeds: the page, which the caller uses already, has one use more.
LEMMA AddCasStep == ASSUME Inv, NEW t \in Thread, AddCas(t) PROVE Inv'
<1>1. PICK f \in Frames, w \in Use :
          /\ f = arg[t] /\ w = use[t] /\ page[w] = None /\ owner[w] = t
          /\ \E u \in Use : page[u] = f
  BY DEF Inv, CallsOK, AddCas, AddPcs
<1>2. CASE references[f] # ref[t]
  <2>1. TypeOK'
    BY <1>1, <1>2 DEF Inv, TypeOK, AddCas, Goto, AddPcs
  <2>2. CallsOK'
    BY <1>1, <1>2 DEF Inv, TypeOK, CallsOK, AddCas, Goto, AddPcs, RemovePcs
  <2> QED
    BY <1>1, <1>2, <2>1, <2>2, LocalStep DEF Inv, TypeOK, AddCas, Goto, FreePcs
<1>3. CASE references[f] = ref[t]
  <2>1. /\ references' = [references EXCEPT ![f] = references[f] + 1]
        /\ page' = [page EXCEPT ![w] = f]
        /\ pc' = [pc EXCEPT ![t] = "idle"]
        /\ arg' = [arg EXCEPT ![t] = None]
        /\ use' = [use EXCEPT ![t] = None]
        /\ UNCHANGED <<free, owner>>
    BY <1>1, <1>3 DEF AddCas, Return, Goto
  <2>2. TypeOK'
    BY <1>1, <1>3 DEF Inv, TypeOK, AddCas, Return, Goto
  <2>3. CallsOK'
    BY <1>1, <2>1, PageAllocAssumption DEF Inv, TypeOK, CallsOK, AddPcs, RemovePcs
  <2>4. /\ Cardinality(UsesOf(f)') = Cardinality(UsesOf(f)) + 1
        /\ w \in UsesOf(f)'
        /\ \A g \in Frames \ {f} : UsesOf(g)' = UsesOf(g)
    BY <1>1, <2>1, GainUse DEF Inv
  <2>5. RefCountExact'
    BY <1>1, <2>1, <2>4 DEF Inv, TypeOK, RefCountExact
  <2>6. f \notin free /\ \A s \in Thread : ~Freeing(s, f)
    BY <1>1, UsedIsNotFree, PageAllocAssumption
  <2>7. FreeIsUnused' /\ NoPageLost'
    BY <1>1, <2>1, <2>4, <2>6
       DEF Inv, TypeOK, CallsOK, FreeIsUnused, NoPageLost, Freeing, FreePcs, AddCas
  <2> QED
    BY <2>2, <2>3, <2>5, <2>7 DEF Inv
<1> QED
  BY <1>2, <1>3

\* The cas succeeds: one use less, and if it was the last one, t is the only
\* thread that knows the page.
LEMMA RemoveCasStep == ASSUME Inv, NEW t \in Thread, RemoveCas(t) PROVE Inv'
<1>1. PICK f \in Frames, w \in Use :
          f = arg[t] /\ w = use[t] /\ page[w] = f /\ owner[w] = t
  BY DEF Inv, CallsOK, RemoveCas, RemovePcs
<1>2. CASE references[f] # ref[t]
  <2>1. TypeOK'
    BY <1>1, <1>2 DEF Inv, TypeOK, RemoveCas, Goto, RemovePcs
  <2>2. CallsOK'
    BY <1>1, <1>2 DEF Inv, TypeOK, CallsOK, RemoveCas, Goto, AddPcs, RemovePcs
  <2> QED
    BY <1>1, <1>2, <2>1, <2>2, LocalStep DEF Inv, TypeOK, RemoveCas, Goto, FreePcs
<1>3. CASE references[f] = ref[t]
  <2>1. /\ references' = [references EXCEPT ![f] = references[f] - 1]
        /\ page' = [page EXCEPT ![w] = None]
        /\ UNCHANGED <<free, owner>>
    BY <1>1, <1>3 DEF RemoveCas
  <2>2. /\ Cardinality(UsesOf(f)') = Cardinality(UsesOf(f)) - 1
        /\ IsFiniteSet(UsesOf(f)')
        /\ \A g \in Frames \ {f} : UsesOf(g)' = UsesOf(g)
    BY <1>1, <2>1, LoseUse DEF Inv
  <2>3. f \notin free /\ references[f] > 0 /\ \A s \in Thread : ~Freeing(s, f)
    BY <1>1, UsedIsNotFree, PageAllocAssumption
  <2>4. TypeOK'
    BY <1>1, <1>3, <2>1, <2>3 DEF Inv, TypeOK, RemoveCas, Return, Goto, FreePcs
  <2>5. CallsOK'
    BY <1>1, <1>3, <2>1, PageAllocAssumption
       DEF Inv, TypeOK, CallsOK, RemoveCas, Return, Goto, AddPcs, RemovePcs
  <2>6. RefCountExact'
    BY <1>1, <2>1, <2>2 DEF Inv, TypeOK, RefCountExact
  <2>7. UsesOf(f)' = {} <=> references[f] - 1 = 0
    BY <1>1, <2>2, FS_EmptySet DEF Inv, RefCountExact
  <2>8. CASE references[f] - 1 > 0
    <3>1. pc' = [pc EXCEPT ![t] = "idle"] /\ arg' = [arg EXCEPT ![t] = None]
      BY <1>1, <1>3, <2>8 DEF RemoveCas, StillUsed, Return, Goto
    <3>2. UsesOf(f)' # {}
      BY <2>7, <2>8
    <3>3. FreeIsUnused'
      BY <1>1, <2>1, <2>2, <2>3, <3>1
         DEF Inv, TypeOK, CallsOK, FreeIsUnused, Freeing, FreePcs
    <3>4. NoPageLost'
      BY <1>1, <2>1, <2>2, <3>1, <3>2
         DEF Inv, TypeOK, NoPageLost, Freeing, FreePcs
    <3> QED
      BY <2>4, <2>5, <2>6, <3>3, <3>4 DEF Inv
  <2>9. CASE ~(references[f] - 1 > 0)
    <3>1. pc' = [pc EXCEPT ![t] = "zero"] /\ arg' = arg
      BY <1>1, <1>3, <2>9 DEF RemoveCas, StillUsed, Goto
    <3>2. UsesOf(f)' = {}
      BY <1>1, <2>3, <2>7, <2>9 DEF Inv, TypeOK
    <3>3. FreeIsUnused'
      BY <1>1, <2>1, <2>2, <2>3, <3>1, <3>2
         DEF Inv, TypeOK, CallsOK, FreeIsUnused, Freeing, FreePcs, RemoveCas
    <3>4. NoPageLost'
      BY <1>1, <2>1, <2>2, <3>1
         DEF Inv, TypeOK, NoPageLost, Freeing, FreePcs, RemoveCas
    <3> QED
      BY <2>4, <2>5, <2>6, <3>3, <3>4 DEF Inv
  <2> QED
    BY <2>8, <2>9
<1> QED
  BY <1>2, <1>3

\* references[..] = 0 in kfree stores what is there: the page has no use.
LEMMA ZeroCountStep == ASSUME Inv, NEW t \in Thread, ZeroCount(t) PROVE Inv'
<1>1. arg[t] \in Frames /\ UsesOf(arg[t]) = {}
  BY DEF Inv, TypeOK, CallsOK, FreeIsUnused, Freeing, FreePcs, ZeroCount
<1>2. references[arg[t]] = 0
  BY <1>1, FS_EmptySet DEF Inv, RefCountExact
<1>3. references' = references
  BY <1>1, <1>2 DEF Inv, TypeOK, ZeroCount
<1>4. TypeOK'
  BY <1>1 DEF Inv, TypeOK, ZeroCount, Goto, FreePcs
<1>5. CallsOK'
  BY DEF Inv, TypeOK, CallsOK, ZeroCount, Goto, AddPcs, RemovePcs
<1> QED
  BY <1>3, <1>4, <1>5, LocalStep DEF Inv, TypeOK, ZeroCount, Goto, FreePcs

\* kfree puts the page on the free list: it has no use and t alone had it.
LEMMA PushStep == ASSUME Inv, NEW t \in Thread, Push(t) PROVE Inv'
<1>1. arg[t] \in Frames /\ UsesOf(arg[t]) = {} /\ pc[t] \in FreePcs
  BY DEF Inv, TypeOK, CallsOK, FreeIsUnused, Freeing, FreePcs, Push
<1>2. \A f : UsesOf(f)' = UsesOf(f)
  BY DEF Push, UsesOf
<1>3. TypeOK'
  BY <1>1 DEF Inv, TypeOK, Push, Return, Goto
<1>4. CallsOK'
  BY DEF Inv, TypeOK, CallsOK, Push, Return, Goto, AddPcs, RemovePcs
<1>5. RefCountExact'
  BY <1>2 DEF Inv, RefCountExact, Push
<1>6. FreeIsUnused'
  BY <1>1, <1>2, PageAllocAssumption
     DEF Inv, TypeOK, FreeIsUnused, CallsOK, Freeing, Push, Return, Goto, FreePcs
<1>7. NoPageLost'
  BY <1>1, <1>2 DEF Inv, TypeOK, NoPageLost, Freeing, Push, Return, Goto
<1> QED
  BY <1>3, <1>4, <1>5, <1>6, <1>7 DEF Inv

\* The invariant is inductive: one lemma for each action of Next.
LEMMA NextInv == Inv /\ [Next]_vars => Inv'
<1> SUFFICES ASSUME Inv, [Next]_vars PROVE Inv'
  OBVIOUS
<1>1. CASE HandOver
  BY <1>1, HandOverStep
<1>2. CASE \E t \in Thread, u, w \in Use : Move(t, u, w) \/ AddCall(t, u, w)
  BY <1>2, MoveStep, AddCallStep
<1>3. CASE \E t \in Thread, u \in Use : Kalloc(t, u) \/ FreeCall(t, u)
  BY <1>3, KallocStep, FreeCallStep
<1>4. CASE \E t \in Thread : AddRead(t) \/ AddCas(t)
  BY <1>4, AddReadStep, AddCasStep
<1>5. CASE \E t \in Thread : RemoveRead(t) \/ RemoveCas(t) \/ ZeroCount(t) \/ Push(t)
  BY <1>5, RemoveReadStep, RemoveCasStep, ZeroCountStep, PushStep
<1>6. CASE UNCHANGED vars
  BY <1>6 DEF vars, Inv, TypeOK, CallsOK, RefCountExact, FreeIsUnused, NoPageLost,
     UsesOf, Freeing
<1> QED
  BY <1>1, <1>2, <1>3, <1>4, <1>5, <1>6 DEF Next

\* The invariant that makes the others inductive.
THEOREM Invariance == Spec => []Inv
<1> QED
  BY InitInv, NextInv, PTL DEF Spec

\* Every variable has its type; in particular no count goes below zero.
THEOREM TypeCorrect == Spec => []TypeOK
<1>1. Inv => TypeOK
  BY DEF Inv
<1> QED
  BY <1>1, Invariance, PTL

\* references[f] is the number of uses of f, however the cas loops of
\* reference_add and reference_remove interleave.
THEOREM CountsAreExact == Spec => []RefCountExact
<1>1. Inv => RefCountExact
  BY DEF Inv
<1> QED
  BY <1>1, Invariance, PTL

\* kfree and kalloc never hand out a page that somebody still uses, and no
\* page is freed twice.
THEOREM NoUseAfterFree == Spec => []FreeIsUnused
<1>1. Inv => FreeIsUnused
  BY DEF Inv
<1> QED
  BY <1>1, Invariance, PTL

\* kfree loses no page: what is not in use is free or about to be.
THEOREM NoLeak == Spec => []NoPageLost
<1>1. Inv => NoPageLost
  BY DEF Inv
<1> QED
  BY <1>1, Invariance, PTL
=============================================================================
