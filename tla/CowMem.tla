------------------------------ MODULE CowMem ------------------------------
(***************************************************************************)
(* Copy-on-write user memory of Assignment 3: the page allocator with its  *)
(* table of reference counts (kalloc.c), the page tables of the processes  *)
(* (vm.c) and the page-fault handler (trap.c), driven by fork, sbrk, exit  *)
(* and wait (proc.c).                                                      *)
(*                                                                         *)
(* A process executes its own kernel code, each on a CPU of its own, so    *)
(* pc[p] is where p is in that code and the steps of different processes   *)
(* interleave freely.  A section under kmem.lock is one step.  The compare *)
(* and swap loops of the reference counts are a read and a cas step.       *)
(*                                                                         *)
(* Abstractions.  Frames holds the pages user memory may use; the kernel's *)
(* own pages (trapframe, page-table pages, pipes) are not tracked, their   *)
(* allocation by mappages may fail whenever it is called.  PTE_V is "the   *)
(* entry has a frame"; of the flags only PTE_W and PTE_COW matter here.    *)
(* A page holds one value.  wait_lock and p->lock are left out, so more     *)
(* interleavings are allowed here than the code has.                       *)
(***************************************************************************)
EXTENDS Integers, FiniteSets

CONSTANTS
    Proc,        \* slots of proc[NPROC]
    initproc,
    Frames,      \* physical pages between end and PHYSTOP
    MaxPages,    \* bound on p->sz, in pages
    Data,        \* contents of a page that a program may store
    Zero,        \* a page of zeroes
    Junk,        \* the 1s of kfree and the 5s of kalloc
    None         \* no frame, no process

ASSUME CowMemAssumption ==
    /\ initproc \in Proc
    /\ Frames # {}
    /\ IsFiniteSet(Frames)
    /\ IsFiniteSet(Proc)
    /\ MaxPages \in Nat \ {0}
    /\ Zero \in Data
    /\ Junk \notin Data
    /\ None \notin Frames \cup Proc \cup (Proc \X (0 .. MaxPages))

VARIABLES
    \* kalloc.c
    free,        \* kmem.freelist
    references,  \* references[pa]
    content,     \* what the frame holds
    \* vm.c: the leaf entries of each process's page table
    frame,       \* frame[p][v]: PTE2PA, or None when PTE_V is clear
    flags,       \* flags[p][v]: the set of PTE_W, PTE_COW
    \* proc.c
    state, parent,
    sz,          \* p->sz, in pages
    \* the locals of the kernel code p is in
    pc,
    tgt,         \* the process whose page table is being built or taken down
    va, end,     \* the loop variable and the bound of a loop over pages
    newsz,       \* the local sz of growproc
    pa,          \* the frame kfree was called with
    npa,         \* the frame kalloc returned to cow_handle or uvmalloc
    ref,         \* the value a cas loop has read
    ret,         \* where kfree returns to, and cow_handle with it
    after        \* where uvmunmap returns to

allocVars == <<free, references, content>>
pageVars  == <<frame, flags>>
procVars  == <<state, parent, sz>>
loopVars  == <<tgt, va, end, newsz, after>>
callVars  == <<pa, npa, ref, ret>>
vars == <<allocVars, pageVars, procVars, pc, loopVars, callVars>>

VA == 0 .. MaxPages - 1
PTE_W == "W"
PTE_COW == "COW"
FrameOrNone == Frames \cup {None}

KfreePcs == {"kf_read", "kf_cas", "kf_zero", "kf_push"}
CowPcs   == {"cow_alloc", "cow_copy", "cow_install", "cow_free"}
GrowPcs  == {"grow_alloc", "grow_map", "grow_undo"}
CopyPcs  == {"copy", "ref_read", "ref_cas"}
UnmapPcs == {"unmap", "unmap_clear"}
Pcs == {"dead", "user", "return", "exit", "copyout", "set_size", "free_proc"}
         \cup KfreePcs \cup CowPcs \cup GrowPcs \cup CopyPcs \cup UnmapPcs

TypeOK ==
    /\ free \subseteq Frames
    /\ references \in [Frames -> Int]
    /\ content \in [Frames -> Data \cup {Junk}]
    /\ frame \in [Proc -> [VA -> FrameOrNone]]
    /\ flags \in [Proc -> [VA -> SUBSET {PTE_W, PTE_COW}]]
    /\ state \in [Proc -> {"UNUSED", "USED", "RUNNABLE", "ZOMBIE"}]
    /\ parent \in [Proc -> Proc \cup {None}]
    /\ sz \in [Proc -> 0 .. MaxPages]
    /\ pc \in [Proc -> Pcs]
    /\ tgt \in [Proc -> Proc]
    /\ va \in [Proc -> 0 .. MaxPages]
    /\ end \in [Proc -> 0 .. MaxPages]
    /\ newsz \in [Proc -> 0 .. MaxPages]
    /\ pa \in [Proc -> FrameOrNone]
    /\ npa \in [Proc -> FrameOrNone]
    /\ ref \in [Proc -> Int]
    /\ ret \in [Proc -> {"return", "copyout", "unmap_clear", "grow_undo"}]
    /\ after \in [Proc -> {"return", "set_size", "free_proc"}]

\* userinit: one page, its image is the zero page.
Init ==
    \E f \in Frames :
        /\ free = Frames \ {f}
        /\ references = [g \in Frames |-> IF g = f THEN 1 ELSE 0]
        /\ content = [g \in Frames |-> IF g = f THEN Zero ELSE Junk]
        /\ frame = [p \in Proc |-> [v \in VA |->
                      IF p = initproc /\ v = 0 THEN f ELSE None]]
        /\ flags = [p \in Proc |-> [v \in VA |->
                      IF p = initproc /\ v = 0 THEN {PTE_W} ELSE {}]]
        /\ state = [p \in Proc |-> IF p = initproc THEN "RUNNABLE" ELSE "UNUSED"]
        /\ parent = [p \in Proc |-> None]
        /\ sz = [p \in Proc |-> IF p = initproc THEN 1 ELSE 0]
        /\ pc = [p \in Proc |-> IF p = initproc THEN "user" ELSE "dead"]
        /\ tgt = [p \in Proc |-> p]
        /\ va = [p \in Proc |-> 0]
        /\ end = [p \in Proc |-> 0]
        /\ newsz = [p \in Proc |-> 0]
        /\ pa = [p \in Proc |-> None]
        /\ npa = [p \in Proc |-> None]
        /\ ref = [p \in Proc |-> 0]
        /\ ret = [p \in Proc |-> "return"]
        /\ after = [p \in Proc |-> "return"]

Goto(p, l) == pc' = [pc EXCEPT ![p] = l]

\* p is back in its program (or gone): no kernel function of it has locals.
ResetLocals(p) ==
    /\ tgt' = [tgt EXCEPT ![p] = p]
    /\ va' = [va EXCEPT ![p] = 0]
    /\ end' = [end EXCEPT ![p] = 0]
    /\ newsz' = [newsz EXCEPT ![p] = 0]
    /\ after' = [after EXCEPT ![p] = "return"]
    /\ pa' = [pa EXCEPT ![p] = None]
    /\ npa' = [npa EXCEPT ![p] = None]
    /\ ref' = [ref EXCEPT ![p] = 0]
    /\ ret' = [ret EXCEPT ![p] = "return"]

\* usertrapret
UserTrapRet(p) ==
    /\ pc[p] = "return"
    /\ Goto(p, "user")
    /\ ResetLocals(p)
    /\ UNCHANGED <<allocVars, pageVars, procVars>>

-----------------------------------------------------------------------------
(* kalloc.c *)

\* kalloc: take a page and set its count under kmem.lock, fill it with junk.
Kalloc(f) ==
    /\ f \in free
    /\ free' = free \ {f}
    /\ references' = [references EXCEPT ![f] = 1]
    /\ content' = [content EXCEPT ![f] = Junk]

\* Call kfree(f); it continues at r.
CallKfree(p, f, r) ==
    /\ pa' = [pa EXCEPT ![p] = f]
    /\ ret' = [ret EXCEPT ![p] = r]
    /\ Goto(p, "kf_read")

\* reference_remove, the read
KfRead(p) ==
    /\ pc[p] = "kf_read"
    /\ ref' = [ref EXCEPT ![p] = references[pa[p]]]
    /\ Goto(p, "kf_cas")
    /\ UNCHANGED <<allocVars, pageVars, procVars, loopVars, pa, npa, ret>>

StillUsedOffByOne(count) == count > 1      \* mutant of StillUsed
StillUsed(count) == count > 0

\* reference_remove, the cas: return if others still use the page
KfCas(p) ==
    /\ pc[p] = "kf_cas"
    /\ IF references[pa[p]] = ref[p]
       THEN /\ references' = [references EXCEPT ![pa[p]] = ref[p] - 1]
            /\ Goto(p, IF StillUsed(ref[p] - 1) THEN ret[p] ELSE "kf_zero")
       ELSE /\ Goto(p, "kf_read")
            /\ UNCHANGED references
    /\ UNCHANGED <<free, content, pageVars, procVars, loopVars, callVars>>

\* references[..] = 0; memset(pa, 1, PGSIZE)
KfZero(p) ==
    /\ pc[p] = "kf_zero"
    /\ references' = [references EXCEPT ![pa[p]] = 0]
    /\ content' = [content EXCEPT ![pa[p]] = Junk]
    /\ Goto(p, "kf_push")
    /\ UNCHANGED <<free, pageVars, procVars, loopVars, callVars>>

KfPush(p) ==
    /\ pc[p] = "kf_push"
    /\ free' = free \cup {pa[p]}
    /\ Goto(p, ret[p])
    /\ UNCHANGED <<references, content, pageVars, procVars, loopVars, callVars>>

-----------------------------------------------------------------------------
(* cow_handle, reached by a page fault and by copyout *)

\* A store through a writable entry; no kernel code runs.
Store(p, v, d) ==
    /\ pc[p] = "user"
    /\ frame[p][v] # None
    /\ PTE_W \in flags[p][v]
    /\ content' = [content EXCEPT ![frame[p][v]] = d]
    /\ UNCHANGED <<free, references, pageVars, procVars, pc, loopVars, callVars>>

\* usertrap, scause 15: the store of p to page v is not allowed.
\* After a return 0 of cow_handle the store is executed again.
PageFault(p, v) ==
    /\ pc[p] = "user"
    /\ frame[p][v] = None \/ PTE_W \notin flags[p][v]
    /\ IF v < sz[p] /\ frame[p][v] # None /\ PTE_COW \in flags[p][v]
       THEN /\ va' = [va EXCEPT ![p] = v]
            /\ ret' = [ret EXCEPT ![p] = "return"]
            /\ Goto(p, "cow_alloc")
       ELSE /\ p # initproc           \* init makes no wild access
            /\ Goto(p, "exit")
            /\ UNCHANGED <<va, ret>>
    /\ UNCHANGED <<allocVars, pageVars, procVars, tgt, end, newsz, after, pa, npa, ref>>

\* mutant of Copyout: no cow_handle, as before Assignment 3
CopyoutNoCow(p, v) ==
    /\ pc[p] = "user"
    /\ frame[p][v] # None
    /\ va' = [va EXCEPT ![p] = v]
    /\ Goto(p, "copyout")
    /\ UNCHANGED <<allocVars, pageVars, procVars, tgt, end, newsz, after, callVars>>

\* copyout: the kernel writes a system call's result to page v.
Copyout(p, v) ==
    /\ pc[p] = "user"
    /\ frame[p][v] # None             \* else cow_handle returns -1
    /\ va' = [va EXCEPT ![p] = v]
    /\ ret' = [ret EXCEPT ![p] = "copyout"]
    /\ Goto(p, IF PTE_COW \in flags[p][v] THEN "cow_alloc" ELSE "copyout")
    /\ UNCHANGED <<allocVars, pageVars, procVars, tgt, end, newsz, after, pa, npa, ref>>

\* copyout after cow_handle: memmove to walkaddr(va)
CopyoutWrite(p, d) ==
    /\ pc[p] = "copyout"
    /\ content' = [content EXCEPT ![frame[p][va[p]]] = d]
    /\ Goto(p, "return")
    /\ UNCHANGED <<free, references, pageVars, procVars, loopVars, callVars>>

\* kalloc in cow_handle.  Without a page a fault kills, copyout returns -1.
CowAlloc(p) ==
    /\ pc[p] = "cow_alloc"
    /\ \/ \E f \in free :
            /\ Kalloc(f)
            /\ npa' = [npa EXCEPT ![p] = f]
            /\ Goto(p, "cow_copy")
       \/ /\ free = {}
          /\ Goto(p, IF ret[p] = "return" THEN "exit" ELSE "return")
          /\ UNCHANGED <<allocVars, npa>>
    /\ UNCHANGED <<pageVars, procVars, loopVars, pa, ref, ret>>

\* memmove(n_pa, pa, PGSIZE)
CowCopy(p) ==
    /\ pc[p] = "cow_copy"
    /\ content' = [content EXCEPT ![npa[p]] = content[frame[p][va[p]]]]
    /\ Goto(p, "cow_install")
    /\ UNCHANGED <<free, references, pageVars, procVars, loopVars, callVars>>

\* pa = PTE2PA(*pte); *pte = PA2PTE(n_pa) | PTE_W without PTE_COW
CowInstall(p) ==
    /\ pc[p] = "cow_install"
    /\ pa' = [pa EXCEPT ![p] = frame[p][va[p]]]
    /\ frame' = [frame EXCEPT ![p][va[p]] = npa[p]]
    /\ flags' = [flags EXCEPT ![p][va[p]] = (@ \ {PTE_COW}) \cup {PTE_W}]
    /\ Goto(p, "cow_free")
    /\ UNCHANGED <<allocVars, procVars, loopVars, npa, ref, ret>>

\* kfree(pa)
CowFree(p) ==
    /\ pc[p] = "cow_free"
    /\ CallKfree(p, pa[p], ret[p])
    /\ UNCHANGED <<allocVars, pageVars, procVars, loopVars, npa, ref>>

-----------------------------------------------------------------------------
(* uvmunmap(pagetable of tgt, va, (end - va) pages, do_free = 1) *)

\* Call uvmunmap for the pages from .. to - 1 of q; it returns to a.
CallUnmap(p, q, from, to, a) ==
    /\ tgt' = [tgt EXCEPT ![p] = q]
    /\ va' = [va EXCEPT ![p] = from]
    /\ end' = [end EXCEPT ![p] = to]
    /\ after' = [after EXCEPT ![p] = a]
    /\ Goto(p, "unmap")

\* The guard frame # None is the panic "uvmunmap: not mapped" (see NoPanic).
Unmap(p) ==
    /\ pc[p] = "unmap"
    /\ IF va[p] >= end[p]
       THEN /\ Goto(p, after[p])
            /\ UNCHANGED <<pa, ret>>
       ELSE /\ frame[tgt[p]][va[p]] # None
            /\ CallKfree(p, frame[tgt[p]][va[p]], "unmap_clear")
    /\ UNCHANGED <<allocVars, pageVars, procVars, loopVars, npa, ref>>

\* *pte = 0, after kfree has returned
UnmapClear(p) ==
    /\ pc[p] = "unmap_clear"
    /\ frame' = [frame EXCEPT ![tgt[p]][va[p]] = None]
    /\ flags' = [flags EXCEPT ![tgt[p]][va[p]] = {}]
    /\ va' = [va EXCEPT ![p] = @ + 1]
    /\ Goto(p, "unmap")
    /\ UNCHANGED <<allocVars, procVars, tgt, end, newsz, after, callVars>>

-----------------------------------------------------------------------------
(* growproc *)

SbrkGrow(p, n) ==
    /\ pc[p] = "user"
    /\ n > sz[p]
    /\ va' = [va EXCEPT ![p] = sz[p]]
    /\ end' = [end EXCEPT ![p] = n]
    /\ newsz' = [newsz EXCEPT ![p] = n]
    /\ Goto(p, "grow_alloc")
    /\ UNCHANGED <<allocVars, pageVars, procVars, tgt, after, callVars>>

MoreToGrowInclusive(p) == va[p] <= end[p]  \* mutant of MoreToGrow
MoreToGrow(p) == va[p] < end[p]

\* uvmalloc: the loop test, then kalloc; without a page give back what it got
GrowAlloc(p) ==
    /\ pc[p] = "grow_alloc"
    /\ \/ /\ MoreToGrow(p)
          /\ \E f \in free :
                /\ Kalloc(f)
                /\ npa' = [npa EXCEPT ![p] = f]
                /\ Goto(p, "grow_map")
          /\ UNCHANGED loopVars
       \/ /\ MoreToGrow(p)
          /\ free = {}
          /\ CallUnmap(p, p, sz[p], va[p], "return")
          /\ UNCHANGED <<allocVars, npa, newsz>>
       \/ /\ ~MoreToGrow(p)
          /\ Goto(p, "set_size")
          /\ UNCHANGED <<allocVars, npa, loopVars>>
    /\ UNCHANGED <<pageVars, procVars, pa, ref, ret>>

\* memset(mem, 0, PGSIZE); mappages, which may find no page-table page
GrowMap(p) ==
    /\ pc[p] = "grow_map"
    /\ content' = [content EXCEPT ![npa[p]] = Zero]
    /\ \/ /\ frame' = [frame EXCEPT ![p][va[p]] = npa[p]]
          /\ flags' = [flags EXCEPT ![p][va[p]] = {PTE_W}]
          /\ va' = [va EXCEPT ![p] = @ + 1]
          /\ Goto(p, "grow_alloc")
          /\ UNCHANGED <<pa, ret>>
       \/ /\ CallKfree(p, npa[p], "grow_undo")
          /\ UNCHANGED <<pageVars, va>>
    /\ UNCHANGED <<free, references, procVars, tgt, end, newsz, after, npa, ref>>

\* uvmdealloc(pagetable, a, oldsz) on the error path of uvmalloc
GrowUndo(p) ==
    /\ pc[p] = "grow_undo"
    /\ CallUnmap(p, p, sz[p], va[p], "return")
    /\ UNCHANGED <<allocVars, pageVars, procVars, newsz, callVars>>

\* uvmdealloc
SbrkShrink(p, n) ==
    /\ pc[p] = "user"
    /\ n < sz[p]
    /\ newsz' = [newsz EXCEPT ![p] = n]
    /\ CallUnmap(p, p, n, sz[p], "set_size")
    /\ UNCHANGED <<allocVars, pageVars, procVars, callVars>>

SetSize(p) ==
    /\ pc[p] = "set_size"
    /\ sz' = [sz EXCEPT ![p] = newsz[p]]
    /\ Goto(p, "user")
    /\ ResetLocals(p)
    /\ UNCHANGED <<allocVars, pageVars, state, parent>>

-----------------------------------------------------------------------------
(* fork, exit, wait *)

\* allocproc gives p the slot c; uvmcopy starts.  A process that has shrunk
\* to nothing has no instructions to call fork with.
Fork(p, c) ==
    /\ pc[p] = "user"
    /\ sz[p] > 0
    /\ state[c] = "UNUSED"
    /\ state' = [state EXCEPT ![c] = "USED"]
    /\ tgt' = [tgt EXCEPT ![p] = c]
    /\ va' = [va EXCEPT ![p] = 0]
    /\ Goto(p, "copy")
    /\ UNCHANGED <<allocVars, pageVars, parent, sz, end, newsz, after, callVars>>

SharedFlagsWritable(f) == f \cup {PTE_COW}   \* mutant of SharedFlags
SharedFlags(f) == IF PTE_W \in f THEN (f \cup {PTE_COW}) \ {PTE_W} ELSE f

CopyErrInclusive(p, v) ==                    \* mutant of CopyErr
    CallUnmap(p, tgt[p], 0, v + 1, "free_proc")
CopyErrNothing(p, v) ==                      \* mutant of CopyErr
    CallUnmap(p, tgt[p], 0, 0, "free_proc")
CopyErr(p, v) == CallUnmap(p, tgt[p], 0, v, "free_proc")

\* One page of uvmcopy up to mappages, which may find no page-table page:
\* then err: takes down what the child has got.  The parent's entry has lost
\* PTE_W in both cases.
CopyPage(p) ==
    /\ pc[p] = "copy"
    /\ va[p] < sz[p]
    /\ frame[p][va[p]] # None
    /\ LET v == va[p]
           shared == SharedFlags(flags[p][v])
       IN \/ /\ frame' = [frame EXCEPT ![tgt[p]][v] = frame[p][v]]
             /\ flags' = [flags EXCEPT ![p][v] = shared, ![tgt[p]][v] = shared]
             /\ Goto(p, "ref_read")
             /\ UNCHANGED loopVars
          \/ /\ flags' = [flags EXCEPT ![p][v] = shared]
             /\ CopyErr(p, v)
             /\ UNCHANGED <<frame, newsz>>
    /\ UNCHANGED <<allocVars, procVars, callVars>>

\* reference_add, the read
RefRead(p) ==
    /\ pc[p] = "ref_read"
    /\ ref' = [ref EXCEPT ![p] = references[frame[p][va[p]]]]
    /\ Goto(p, "ref_cas")
    /\ UNCHANGED <<allocVars, pageVars, procVars, loopVars, pa, npa, ret>>

\* mutant of RefCas: references[..]++ without cas
RefCasPlain(p) ==
    /\ pc[p] = "ref_cas"
    /\ references' = [references EXCEPT ![frame[p][va[p]]] = ref[p] + 1]
    /\ va' = [va EXCEPT ![p] = @ + 1]
    /\ Goto(p, "copy")
    /\ UNCHANGED <<free, content, pageVars, procVars, tgt, end, newsz, after, callVars>>

\* reference_add, the cas; then the next page
RefCas(p) ==
    /\ pc[p] = "ref_cas"
    /\ LET f == frame[p][va[p]]
       IN IF references[f] = ref[p]
          THEN /\ references' = [references EXCEPT ![f] = ref[p] + 1]
               /\ va' = [va EXCEPT ![p] = @ + 1]
               /\ Goto(p, "copy")
          ELSE /\ Goto(p, "ref_read")
               /\ UNCHANGED <<references, va>>
    /\ UNCHANGED <<free, content, pageVars, procVars, tgt, end, newsz, after, callVars>>

\* fork after uvmcopy: size, parent and state of the child.  It may run.
ForkDone(p) ==
    /\ pc[p] = "copy"
    /\ va[p] >= sz[p]
    /\ LET c == tgt[p]
       IN /\ sz' = [sz EXCEPT ![c] = sz[p]]
          /\ parent' = [parent EXCEPT ![c] = p]
          /\ state' = [state EXCEPT ![c] = "RUNNABLE"]
          /\ pc' = [pc EXCEPT ![p] = "user", ![c] = "user"]
    /\ ResetLocals(p)
    /\ UNCHANGED <<allocVars, pageVars>>

\* A system call, or usertrap after a fault that was not handled.  init in
\* exit is the panic "init exiting": it never gets further.
Exit(p) ==
    /\ pc[p] \in {"user", "exit"}
    /\ p # initproc
    /\ parent' = [q \in Proc |-> IF parent[q] = p THEN initproc ELSE parent[q]]
    /\ state' = [state EXCEPT ![p] = "ZOMBIE"]
    /\ Goto(p, "dead")
    /\ ResetLocals(p)
    /\ UNCHANGED <<allocVars, pageVars, sz>>

\* wait finds a zombie; freeproc takes down its memory.
Wait(p, c) ==
    /\ pc[p] = "user"
    /\ sz[p] > 0
    /\ parent[c] = p
    /\ state[c] = "ZOMBIE"
    /\ CallUnmap(p, c, 0, sz[c], "free_proc")
    /\ UNCHANGED <<allocVars, pageVars, procVars, newsz, callVars>>

\* freeproc after the memory is gone, in wait and when fork fails
FreeProc(p) ==
    /\ pc[p] = "free_proc"
    /\ sz' = [sz EXCEPT ![tgt[p]] = 0]
    /\ parent' = [parent EXCEPT ![tgt[p]] = None]
    /\ state' = [state EXCEPT ![tgt[p]] = "UNUSED"]
    /\ Goto(p, "user")
    /\ ResetLocals(p)
    /\ UNCHANGED <<allocVars, pageVars>>

-----------------------------------------------------------------------------
Next ==
    \E p \in Proc :
        \/ UserTrapRet(p)
        \/ KfRead(p) \/ KfCas(p) \/ KfZero(p) \/ KfPush(p)
        \/ \E v \in VA : PageFault(p, v) \/ Copyout(p, v)
        \/ \E v \in VA, d \in Data : Store(p, v, d)
        \/ \E d \in Data : CopyoutWrite(p, d)
        \/ CowAlloc(p) \/ CowCopy(p) \/ CowInstall(p) \/ CowFree(p)
        \/ Unmap(p) \/ UnmapClear(p)
        \/ \E n \in 0 .. MaxPages : SbrkGrow(p, n) \/ SbrkShrink(p, n)
        \/ GrowAlloc(p) \/ GrowMap(p) \/ GrowUndo(p) \/ SetSize(p)
        \/ \E c \in Proc : Fork(p, c) \/ Wait(p, c)
        \/ CopyPage(p) \/ RefRead(p) \/ RefCas(p) \/ ForkDone(p)
        \/ Exit(p) \/ FreeProc(p)

Spec == Init /\ [][Next]_vars
-----------------------------------------------------------------------------
(* The allocator as its callers see it: PageAlloc.  The uses of pages are
   <<p, v>>, the entry of p's page table for page v, and <<p, MaxPages>>, the
   local variables of the kernel code of p. *)

\* The frame of the entry is already given back, *pte = 0 is still to come.
Dying(p, v) ==
    \E q \in Proc :
        /\ tgt[q] = p
        /\ va[q] = v
        /\ \/ pc[q] = "unmap_clear"
           \/ pc[q] \in {"kf_zero", "kf_push"} /\ ret[q] = "unmap_clear"

\* Mapped by uvmcopy, not counted yet.
Pending(p, v) ==
    \E q \in Proc :
        tgt[q] = p /\ va[q] = v /\ pc[q] \in {"ref_read", "ref_cas"}

Maps(p, v, f) == frame[p][v] = f /\ ~Dying(p, v)

useOfEntry(p, v) == IF Dying(p, v) \/ Pending(p, v) THEN None ELSE frame[p][v]

useOfLocals(p) ==
    IF pc[p] \in {"cow_copy", "cow_install", "grow_map"} THEN npa[p]
    ELSE IF \/ pc[p] = "cow_free"
            \/ pc[p] \in {"kf_read", "kf_cas"} /\ ret[p] # "unmap_clear"
    THEN pa[p] ELSE None

\* The process that works on the page table of p
worker(p) == IF \E q \in Proc \ {p} : tgt[q] = p
             THEN CHOOSE q \in Proc \ {p} : tgt[q] = p ELSE p

pageAllocPc == [ref_read |-> "add_read", ref_cas |-> "add_cas",
                kf_read |-> "remove_read", kf_cas |-> "remove_cas",
                kf_zero |-> "zero", kf_push |-> "push"]
InCall(p) == pc[p] \in DOMAIN pageAllocPc

allocUses == Proc \X (0 .. MaxPages)
allocPage == [u \in allocUses |-> IF u[2] < MaxPages THEN useOfEntry(u[1], u[2])
                                  ELSE useOfLocals(u[1])]
allocOwner == [u \in allocUses |-> IF u[2] < MaxPages THEN worker(u[1]) ELSE u[1]]
allocPc  == [p \in Proc |-> IF InCall(p) THEN pageAllocPc[pc[p]] ELSE "idle"]
allocArg == [p \in Proc |-> IF pc[p] \in KfreePcs THEN pa[p]
                            ELSE IF InCall(p) THEN frame[p][va[p]] ELSE None]
allocUse == [p \in Proc |-> IF ~InCall(p) THEN None
                            ELSE IF pc[p] \in KfreePcs /\ ret[p] # "unmap_clear"
                            THEN <<p, MaxPages>> ELSE <<tgt[p], va[p]>>]
allocRef == [p \in Proc |-> IF pc[p] \in {"ref_cas", "kf_cas"} THEN ref[p] ELSE 0]

Alloc == INSTANCE PageAlloc WITH
    Thread <- Proc, Use <- allocUses, page <- allocPage, owner <- allocOwner,
    pc <- allocPc, arg <- allocArg, use <- allocUse, ref <- allocRef

\* fork, faults, sbrk, exit and wait keep the contract of the allocator at
\* every step: what they free they own, what they count they hold.  With the
\* theorems about PageAlloc: counts are exact, no page in use is free, none
\* is freed twice and the error paths lose none.
ImplementsPageAlloc == Alloc!Spec

\* A frame some process may write without a fault is mapped nowhere else.
WritableIsPrivate ==
    \A p, q \in Proc : \A v, w \in VA : \A f \in Frames :
        Maps(p, v, f) /\ PTE_W \in flags[p][v] /\ Maps(q, w, f) => p = q /\ v = w

\* The panics of uvmunmap ("not mapped") and uvmcopy ("page not present")
\* are out of reach, and copyout writes through a mapped, writable entry.
NoPanic ==
    \A p \in Proc :
        /\ pc[p] = "unmap" /\ va[p] < end[p] => frame[tgt[p]][va[p]] # None
        /\ pc[p] = "copy" /\ va[p] < sz[p] => frame[p][va[p]] # None
        /\ pc[p] = "copyout" => /\ frame[p][va[p]] # None
                                /\ PTE_W \in flags[p][va[p]]

-----------------------------------------------------------------------------
(* The inductive invariant behind TypeOK and NoPanic: who works on which
   page table, and which entries are present at each point of the work. *)

Unmapping(p) == pc[p] \in UnmapPcs \/ (pc[p] \in KfreePcs /\ ret[p] = "unmap_clear")
Growing(p)   == pc[p] \in GrowPcs \/ (pc[p] \in KfreePcs /\ ret[p] = "grow_undo")
Cowing(p)    == \/ pc[p] \in CowPcs \cup {"copyout"}
                \/ pc[p] \in KfreePcs /\ ret[p] \in {"return", "copyout"}
Copying(p)   == pc[p] \in CopyPcs

\* A process that is not running has no code of its own to execute; the
\* table of a child is in the hands of one process, its parent.
Lifecycle ==
    /\ \A p \in Proc : pc[p] = "dead" <=> state[p] # "RUNNABLE"
    /\ \A p \in Proc : tgt[p] # p <=>
         \/ Copying(p) \/ pc[p] = "free_proc"
         \/ Unmapping(p) /\ after[p] = "free_proc"
    /\ \A p \in Proc : tgt[p] # p => state[tgt[p]] \in {"USED", "ZOMBIE"}
    /\ \A p \in Proc : tgt[p] # p /\ state[tgt[p]] = "ZOMBIE" => parent[tgt[p]] = p
    /\ \A p, q \in Proc : tgt[p] = tgt[q] /\ tgt[p] # p /\ tgt[q] # q => p = q
    /\ \A p \in Proc : Copying(p) => state[tgt[p]] = "USED"
    /\ \A p \in Proc : state[p] \in {"UNUSED", "USED"} => sz[p] = 0

\* The locals of the loops and calls p is in.
LocalsOK ==
    \A p \in Proc :
      /\ pc[p] \in CowPcs => ret[p] \in {"return", "copyout"}
      /\ pc[p] \in {"cow_copy", "cow_install", "grow_map"} => npa[p] \in Frames
      /\ pc[p] \in KfreePcs \cup {"cow_free"} => pa[p] \in Frames
      /\ Growing(p) => /\ sz[p] <= va[p] /\ va[p] <= end[p] /\ newsz[p] = end[p]
                       /\ pc[p] = "grow_map" => va[p] < end[p]
      /\ Unmapping(p) /\ pc[p] # "unmap" =>
           va[p] < end[p] /\ frame[tgt[p]][va[p]] # None
      /\ Unmapping(p) /\ after[p] = "set_size" => newsz[p] <= va[p]
      /\ Unmapping(p) /\ after[p] = "return" => sz[p] <= va[p]
      /\ Copying(p) => va[p] <= sz[p]
      /\ pc[p] \in {"ref_read", "ref_cas"} =>
           va[p] < sz[p] /\ frame[tgt[p]][va[p]] = frame[p][va[p]]
      /\ Cowing(p) => va[p] \in VA /\ frame[p][va[p]] # None
      /\ (\/ pc[p] = "copyout"
          \/ pc[p] \in KfreePcs \cup {"cow_free"} /\ ret[p] = "copyout") =>
           PTE_W \in flags[p][va[p]]

\* The pages present in the table of a running process ...
OwnPages(p) ==
    {v \in VA :
       IF Growing(p) THEN v < va[p]
       ELSE IF pc[p] = "set_size" THEN v < newsz[p]
       ELSE IF Unmapping(p) /\ after[p] = "set_size"
            THEN v < newsz[p] \/ (va[p] <= v /\ v < end[p])
       ELSE IF Unmapping(p) /\ after[p] = "return"
            THEN v < sz[p] \/ (va[p] <= v /\ v < end[p])
       ELSE v < sz[p]}

\* ... and in the table of the child p is making or freeing
ChildPages(p) ==
    {v \in VA :
       IF Copying(p) THEN v < va[p] \/ (v = va[p] /\ pc[p] # "copy")
       ELSE Unmapping(p) /\ va[p] <= v /\ v < end[p]}

PagesPresent ==
    /\ \A p \in Proc : state[p] = "RUNNABLE" =>
         \A v \in VA : frame[p][v] # None <=> v \in OwnPages(p)
    /\ \A p \in Proc : tgt[p] # p =>
         \A v \in VA : frame[tgt[p]][v] # None <=> v \in ChildPages(p)
    /\ \A c \in Proc : state[c] # "RUNNABLE" /\ (\A p \in Proc : p = c \/ tgt[p] # c) =>
         \A v \in VA : frame[c][v] # None <=> v < sz[c]
    /\ \A p \in Proc : \A v \in VA : frame[p][v] # None => flags[p][v] # {}

PageTableInv == TypeOK /\ Lifecycle /\ LocalsOK /\ PagesPresent

-----------------------------------------------------------------------------
(* What user programs see: ForkMemory. *)

\* A shrink takes effect for p when growproc starts to unmap.
visible(p) == IF after[p] = "set_size" /\ newsz[p] < sz[p]
              THEN newsz[p] ELSE sz[p]

userSize == [p \in Proc |-> IF state[p] = "RUNNABLE" THEN visible(p) ELSE 0]
userMem  == [p \in Proc |-> [v \in VA |->
               IF v < userSize[p] THEN content[frame[p][v]] ELSE Zero]]
userLive == {p \in Proc : state[p] = "RUNNABLE"}

Abstract == INSTANCE ForkMemory WITH size <- userSize, mem <- userMem, live <- userLive

\* fork, sbrk and stores behave as if every process had its own memory, for
\* every interleaving of the page faults, counts and frees underneath.
ImplementsForkMemory == Abstract!Spec
=============================================================================
