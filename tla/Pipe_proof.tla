----------------------------- MODULE Pipe_proof -----------------------------
(***************************************************************************)
(* Proofs about the file table and pipes for any number of processes,      *)
(* files, descriptors and pipes, and any size of the ring buffer.          *)
(***************************************************************************)
EXTENDS Pipe, FiniteSetTheorems, SequenceTheorems, WellFoundedInduction, TLAPS

-----------------------------------------------------------------------------
(* Remainders *)

LEMMA DivMod ==
  ASSUME NEW w \in Nat \ {0}, NEW a \in Int
  PROVE  a \div w \in Int /\ a % w \in 0 .. w - 1 /\ a = w * (a \div w) + (a % w)
  BY SMTT(30)

LEMMA ModUnique ==
  ASSUME NEW w \in Nat \ {0}, NEW a \in Int, NEW k \in Int, NEW r \in 0 .. w - 1, a = w * k + r
  PROVE  a % w = r
  BY SMTT(30)

LEMMA ModSmall ==
  ASSUME NEW w \in Nat \ {0}, NEW a \in Int
  PROVE  /\ 0 <= a /\ a < w => a % w = a
         /\ -w <= a /\ a < 0 => a % w = a + w
         /\ w <= a /\ a < 2 * w => a % w = a - w
<1>1. 0 <= a /\ a < w => a % w = a
  BY SMTT(30)
<1>2. -w <= a /\ a < 0 => a % w = a + w
  BY SMTT(30)
<1>3. w <= a /\ a < 2 * w => a % w = a - w
  BY SMTT(30)
<1> QED
  BY <1>1, <1>2, <1>3

\* A multiple of the divisor makes no difference.
LEMMA ModShift ==
  ASSUME NEW w \in Nat \ {0}, NEW a \in Int, NEW k \in Int
  PROVE  (a - w * k) % w = a % w
<1>1. a \div w \in Int /\ a % w \in 0 .. w - 1 /\ a = w * (a \div w) + (a % w)
  BY DivMod
<1>2. a - w * k \in Int /\ (a \div w) - k \in Int /\ w * k \in Int
  OBVIOUS
<1>3. w * ((a \div w) - k) = w * (a \div w) - w * k
  BY <1>1
<1>4. a - w * k = w * ((a \div w) - k) + (a % w)
  BY <1>1, <1>2, <1>3
<1> QED
  BY <1>1, <1>2, <1>4, ModUnique

\* Numbers nearer to one another than the divisor have different remainders.
LEMMA ModNear ==
  ASSUME NEW w \in Nat \ {0}, NEW a \in Int, NEW b \in Int, a < b, b < a + w
  PROVE  a % w # b % w
<1>1. /\ a \div w \in Int /\ a % w \in 0 .. w - 1 /\ a = w * (a \div w) + (a % w)
      /\ b \div w \in Int /\ b % w \in 0 .. w - 1 /\ b = w * (b \div w) + (b % w)
  BY DivMod
<1> DEFINE i == a \div w
           j == b \div w
<1>2. SUFFICES ASSUME a % w = b % w PROVE FALSE
  OBVIOUS
<1>3. b - a = w * j - w * i
  BY <1>1, <1>2
<1>4. w * j - w * i = w * (j - i)
  BY <1>1
<1>5. j - i \in Int /\ 0 < w * (j - i) /\ w * (j - i) < w
  BY <1>1, <1>3, <1>4
<1>6. j - i >= 1 \/ j - i <= 0
  BY <1>5
<1>7. j - i >= 1 => w * (j - i) >= w
  BY <1>5
<1>8. j - i <= 0 => w * (j - i) <= 0
  BY <1>5
<1> QED
  BY <1>5, <1>6, <1>7, <1>8

-----------------------------------------------------------------------------
(* Least elements, sets that grow and shrink *)

Lt == {ss \in Nat \X Nat : ss[1] < ss[2]}

LEMMA LtWellFounded == IsWellFoundedOn(Lt, Nat)
  BY NatLessThanWellFounded DEF OpToRel, Lt

\* Min of a set of numbers is one of them.
LEMMA MinIn ==
  ASSUME NEW S \in SUBSET Nat, S # {}
  PROVE  Min(S) \in S
<1>1. PICK x \in S : \A y \in S : ~(<<y, x>> \in Lt)
  BY LtWellFounded, WFMin
<1>2. \A y \in S : <<y, x>> \in Lt <=> y < x
  BY DEF Lt
<1>3. x \in Nat /\ \A y \in S : y \in Nat /\ ~(y < x)
  BY <1>1, <1>2
<1>4. \A y \in S : x <= y
  BY <1>3
<1> QED
  BY <1>4 DEF Min

\* The places that keep a reference to f
Keeps(f) == {x \in Proc \X Place : Ref(x[1], x[2]) = f}

LEMMA KeepsFinite ==
  /\ IsFiniteSet(FD) /\ IsFiniteSet(Place) /\ IsFiniteSet(Proc \X Place)
  /\ \A f : IsFiniteSet(Keeps(f)) /\ References(f) = Cardinality(Keeps(f)) /\ References(f) \in Nat
<1>1. IsFiniteSet(FD)
  BY FileAssumption, FS_Interval DEF FD
<1>2. Place = 0 .. NOFILE + 1 /\ FD \subseteq Place /\ RF \in Place \ FD /\ WF \in Place \ FD /\ RF # WF
  BY FileAssumption DEF FD, Place, RF, WF
<1>3. IsFiniteSet(Place)
  BY <1>2, FileAssumption, FS_Interval
<1>4. IsFiniteSet(Proc \X Place)
  BY <1>3, FileAssumption, FS_Product
<1>5. \A f : Keeps(f) \subseteq Proc \X Place
  BY DEF Keeps
<1>6. \A f : IsFiniteSet(Keeps(f))
  BY <1>4, <1>5, FS_Subset
<1>7. \A f : References(f) = Cardinality(Keeps(f))
  BY DEF References, Keeps
<1> QED
  BY <1>1, <1>3, <1>4, <1>6, <1>7, FS_CardinalityType

LEMMA Places ==
  /\ Place = 0 .. NOFILE + 1 /\ Place \subseteq Nat
  /\ FD \subseteq Place /\ FD \subseteq Nat
  /\ RF \in Place \ FD /\ WF \in Place \ FD /\ RF # WF
  /\ \A k \in Place : k \in FD \/ k = RF \/ k = WF
  BY FileAssumption DEF FD, Place, RF, WF

LEMMA Swapped ==
  ASSUME NEW S, IsFiniteSet(S), NEW x \in S, NEW y, y \notin S
  PROVE  Cardinality((S \ {x}) \cup {y}) = Cardinality(S)
<1>1. IsFiniteSet(S \ {x}) /\ Cardinality(S \ {x}) = Cardinality(S) - 1
  BY FS_RemoveElement
<1>2. Cardinality((S \ {x}) \cup {y}) = Cardinality(S \ {x}) + 1
  BY <1>1, FS_AddElement
<1>3. Cardinality(S) \in Nat
  BY FS_CardinalityType
<1> QED
  BY <1>1, <1>2, <1>3

\* A change of the places, seen from the sets
SameElsewhere(X) == \A r \in Proc, l \in Place : <<r, l>> \notin X => Ref(r, l)' = Ref(r, l)

LEMMA KeepsNext == \A f : Keeps(f)' = {x \in Proc \X Place : Ref(x[1], x[2])' = f}
  BY DEF Keeps

LEMMA RefsNext == \A f : References(f)' = Cardinality(Keeps(f)')
  BY DEF References, Keeps

LEMMA Unmoved ==
  ASSUME UNCHANGED <<ofile, rf, wf>>
  PROVE  /\ SameElsewhere({})
         /\ \A f : References(f)' = References(f)
<1>1. SameElsewhere({})
  BY DEF SameElsewhere, Ref
<1>2. \A f : Keeps(f)' = Keeps(f)
  BY <1>1 DEF SameElsewhere, Keeps
<1> QED
  BY <1>1, <1>2, KeepsFinite, RefsNext

LEMMA OneMore ==
  ASSUME NEW p \in Proc, NEW k \in Place, NEW f \in File,
         Ref(p, k) = None, Ref(p, k)' = f, SameElsewhere({<<p, k>>})
  PROVE  \A g \in File : References(g)' = IF g = f THEN References(g) + 1 ELSE References(g)
<1>1. None \notin File
  BY FileAssumption DEF File
<1>2. \A g \in File : Keeps(g)' = IF g = f THEN Keeps(g) \cup {<<p, k>>} ELSE Keeps(g)
  <2> SUFFICES ASSUME NEW g \in File
               PROVE  Keeps(g)' = IF g = f THEN Keeps(g) \cup {<<p, k>>} ELSE Keeps(g)
    OBVIOUS
  <2>1. \A x \in Proc \X Place : x # <<p, k>> => Ref(x[1], x[2])' = Ref(x[1], x[2])
    BY DEF SameElsewhere
  <2>2. \A x \in Proc \X Place : x # <<p, k>> => (x \in Keeps(g)' <=> x \in Keeps(g))
    BY <2>1 DEF Keeps
  <2>3. <<p, k>> \notin Keeps(g) /\ (<<p, k>> \in Keeps(g)' <=> g = f)
    BY <1>1, KeepsNext DEF Keeps
  <2> QED
    BY <2>2, <2>3 DEF Keeps
<1>3. <<p, k>> \notin Keeps(f)
  BY <1>1 DEF Keeps
<1>4. Cardinality(Keeps(f) \cup {<<p, k>>}) = Cardinality(Keeps(f)) + 1
  BY <1>3, KeepsFinite, FS_AddElement
<1> QED
  BY <1>2, <1>4, KeepsFinite, RefsNext

LEMMA OneLess ==
  ASSUME NEW p \in Proc, NEW k \in Place, NEW f \in File,
         Ref(p, k) = f, Ref(p, k)' = None, SameElsewhere({<<p, k>>})
  PROVE  \A g \in File : References(g)' = IF g = f THEN References(g) - 1 ELSE References(g)
<1>1. None \notin File
  BY FileAssumption DEF File
<1>2. \A g \in File : Keeps(g)' = IF g = f THEN Keeps(g) \ {<<p, k>>} ELSE Keeps(g)
  <2> SUFFICES ASSUME NEW g \in File
               PROVE  Keeps(g)' = IF g = f THEN Keeps(g) \ {<<p, k>>} ELSE Keeps(g)
    OBVIOUS
  <2>1. \A x \in Proc \X Place : x # <<p, k>> => Ref(x[1], x[2])' = Ref(x[1], x[2])
    BY DEF SameElsewhere
  <2>2. \A x \in Proc \X Place : x # <<p, k>> => (x \in Keeps(g)' <=> x \in Keeps(g))
    BY <2>1 DEF Keeps
  <2>3. <<p, k>> \notin Keeps(g)' /\ (<<p, k>> \in Keeps(g) <=> g = f)
    BY <1>1, KeepsNext DEF Keeps
  <2> QED
    BY <2>2, <2>3 DEF Keeps
<1>3. <<p, k>> \in Keeps(f)
  BY DEF Keeps
<1>4. Cardinality(Keeps(f) \ {<<p, k>>}) = Cardinality(Keeps(f)) - 1
  BY <1>3, KeepsFinite, FS_RemoveElement
<1> QED
  BY <1>2, <1>4, KeepsFinite, RefsNext

\* f goes from place k to place l of p.
LEMMA OneMoved ==
  ASSUME NEW p \in Proc, NEW k \in Place, NEW l \in Place, NEW f \in File, k # l,
         Ref(p, k) = f, Ref(p, l) = None, Ref(p, k)' # f, Ref(p, l)' = f,
         \A r \in Proc, m \in Place : <<r, m>> \notin {<<p, k>>, <<p, l>>} =>
            (Ref(r, m)' = f <=> Ref(r, m) = f)
  PROVE  References(f)' = References(f)
<1>1. None \notin File
  BY FileAssumption DEF File
<1>2. Keeps(f)' = (Keeps(f) \ {<<p, k>>}) \cup {<<p, l>>}
  <2>1. \A x \in Proc \X Place : x \notin {<<p, k>>, <<p, l>>} => (x \in Keeps(f)' <=> x \in Keeps(f))
    BY DEF Keeps
  <2>2. <<p, k>> \notin Keeps(f)' /\ <<p, l>> \in Keeps(f)' /\ <<p, k>> # <<p, l>>
    BY DEF Keeps
  <2> QED
    BY <2>1, <2>2 DEF Keeps
<1>3. <<p, k>> \in Keeps(f) /\ <<p, l>> \notin Keeps(f)
  BY <1>1 DEF Keeps
<1> QED
  BY <1>2, <1>3, KeepsFinite, Swapped, RefsNext

\* fork: c gets a copy of the descriptors of p.
LEMMA Doubled ==
  ASSUME NEW p \in Proc, NEW c \in Proc, NEW f \in File,
         \A k \in FD : Ref(c, k) = None /\ Ref(c, k)' = Ref(p, k),
         SameElsewhere({c} \X FD)
  PROVE  References(f)' = References(f) + Cardinality({k \in FD : Ref(p, k) = f})
<1> DEFINE S == {k \in FD : Ref(p, k) = f}
           T == {<<c, k>> : k \in S}
<1>1. None \notin File
  BY FileAssumption DEF File
<1>2. IsFiniteSet(S)
  BY KeepsFinite, FS_Subset
<1>3. IsFiniteSet(T) /\ Cardinality(T) = Cardinality(S)
  <2> DEFINE g == [k \in S |-> <<c, k>>]
  <2>1. g \in Bijection(S, T)
    BY DEF Bijection, Injection, Surjection, IsInjective
  <2> QED
    BY <1>2, <2>1, FS_Bijection DEF ExistsBijection
<1>4. Keeps(f)' = Keeps(f) \cup T
  <2>1. T \subseteq Proc \X Place
    BY Places
  <2>2. \A x \in Proc \X Place : x \in Keeps(f)' <=> Ref(x[1], x[2])' = f
    BY KeepsNext
  <2>3. \A x \in Proc \X Place : x \in {c} \X FD => (x \in Keeps(f)' <=> x \in T) /\ x \notin Keeps(f)
    BY <1>1, <2>2 DEF Keeps
  <2>4. \A x \in Proc \X Place : x \notin {c} \X FD => (x \in Keeps(f)' <=> x \in Keeps(f)) /\ x \notin T
    BY <2>2 DEF Keeps, SameElsewhere
  <2> QED
    BY <2>1, <2>3, <2>4 DEF Keeps
<1>5. Keeps(f) \cap T = {}
  BY <1>1 DEF Keeps
<1>6. Cardinality(Keeps(f) \cup T) = Cardinality(Keeps(f)) + Cardinality(T)
  <2>1. IsFiniteSet(T) /\ IsFiniteSet(Keeps(f)) /\ Cardinality(Keeps(f) \cap T) = 0
    BY <1>3, <1>5, KeepsFinite, FS_EmptySet
  <2>2. Cardinality(Keeps(f)) \in Nat /\ Cardinality(T) \in Nat
    BY <2>1, FS_CardinalityType
  <2>3. Cardinality(Keeps(f) \cup T)
          = Cardinality(Keeps(f)) + Cardinality(T) - Cardinality(Keeps(f) \cap T)
    BY <2>1, FS_Union
  <2> HIDE DEF T
  <2> QED
    BY <2>1, <2>2, <2>3
<1> QED
  BY <1>3, <1>4, <1>6, KeepsFinite, RefsNext

-----------------------------------------------------------------------------
(* Types *)

CountInv == \A f \in File : file[f].ref = References(f)
Flag(w) == IF w THEN "write" ELSE "read"
FlagInv == \A q \in Pipe : \A w \in BOOLEAN : End(q, w) <=> q \in used /\ Flag(w) \in pipe[q].open

LEMMA InvParts ==
  Inv <=> /\ TypeOK /\ CountInv /\ FlagInv /\ EndInv /\ CallInv /\ SleepInv
          /\ \A p \in Proc : PlaceInv(p)
<1>1. ASSUME TypeOK, FlagInv, CallInv, EndInv, NEW p \in Proc, NEW w \in BOOLEAN, Using(p, w)
      PROVE  call[p][1] \in used
  <2>1. call[p][1] # None /\ call[p][1] \in Pipe
    BY <1>1 DEF CallInv, TypeOK
  <2>2. PICK fd \in FD : ofile[p][fd] # None /\ IsEnd(ofile[p][fd], call[p][1], w)
    BY <1>1 DEF CallInv
  <2>3. ofile[p][fd] \in File
    BY <1>1, <2>2 DEF TypeOK, FileTypeOK
  <2>4. End(call[p][1], w)
    BY <1>1, <2>2, <2>3 DEF End, EndInv, IsEnd
  <2> QED
    BY <1>1, <2>1, <2>4 DEF FlagInv
<1>2. \A p \in Proc : pc[p] \in {"read", "write", "sleep_read", "sleep_write"} <=> \E w \in BOOLEAN : Using(p, w)
  BY DEF Using
<1>3. TypeOK /\ FlagInv /\ CallInv /\ EndInv =>
        \A p \in Proc : pc[p] \in {"read", "write", "sleep_read", "sleep_write"} => call[p][1] \in used
  BY <1>1, <1>2
<1>4. FilesExact <=> /\ TypeOK /\ CountInv /\ FlagInv
                     /\ \A p \in Proc : pc[p] \in {"read", "write", "sleep_read", "sleep_write"} =>
                          call[p][1] \in used
  BY DEF FilesExact, CountInv, FlagInv, Flag
<1> QED
  BY <1>3, <1>4 DEF Inv

LEMMA Typed ==
  ASSUME TypeOK
  PROVE  /\ \A p \in Proc : /\ rf[p] \in File \cup {None} /\ wf[p] \in File \cup {None}
                            /\ \A fd \in FD : ofile[p][fd] \in File \cup {None}
                            /\ \A k \in Place : Ref(p, k) \in File \cup {None}
         /\ \A f \in File : /\ file[f].ref \in Nat /\ file[f].type \in {"none", "pipe"}
                            /\ file[f].writable \in BOOLEAN /\ file[f].pipe \in Pipe \cup {None}
         /\ \A q \in Pipe : /\ pipe[q].nread \in 0 .. Width - 1 /\ pipe[q].nwrite \in 0 .. Width - 1
                            /\ pipe[q].data \in [0 .. PIPESIZE - 1 -> Byte]
                            /\ pipe[q].open \subseteq {"read", "write"}
         /\ None \notin File /\ None \notin Pipe /\ None \notin Proc
<1>1. \A p \in Proc : /\ rf[p] \in File \cup {None} /\ wf[p] \in File \cup {None}
                      /\ \A fd \in FD : ofile[p][fd] \in File \cup {None}
  BY DEF TypeOK, FileTypeOK
<1>2. \A p \in Proc : \A k \in Place : Ref(p, k) \in File \cup {None}
  BY <1>1, Places DEF Ref
<1> QED
  BY <1>1, <1>2, FileAssumption DEF TypeOK, FileTypeOK, File

LEMMA HeldRange ==
  ASSUME TypeOK, NEW q \in Pipe
  PROVE  /\ Held(q) \in 0 .. Width - 1
         /\ Held(q) = IF pipe[q].nread <= pipe[q].nwrite THEN pipe[q].nwrite - pipe[q].nread
                      ELSE pipe[q].nwrite - pipe[q].nread + Width
<1> DEFINE a == pipe[q].nwrite - pipe[q].nread
<1>1. pipe[q].nread \in 0 .. Width - 1 /\ pipe[q].nwrite \in 0 .. Width - 1
  BY Typed
<1>2. Width \in Nat \ {0} /\ a \in Int
  BY <1>1, PipeAssumption
<1>3. /\ 0 <= a /\ a < Width => a % Width = a
      /\ -Width <= a /\ a < 0 => a % Width = a + Width
  BY <1>2, ModSmall
<1>4. Held(q) = a % Width
  BY DEF Held
<1> QED
  BY <1>1, <1>2, <1>3, <1>4

LEMMA UnusedMin ==
  ASSUME TypeOK, Unused # {}
  PROVE  Min(Unused) \in File /\ file[Min(Unused)].ref = 0
<1>1. Unused \in SUBSET Nat
  BY FileAssumption DEF Unused, File
<1>2. Min(Unused) \in Unused
  BY <1>1, MinIn
<1> QED
  BY <1>2 DEF Unused

LEMMA FirstIn ==
  ASSUME TypeOK, NEW p \in Proc, FreeFds(p) # {}
  PROVE  FirstFd(p) \in FD /\ ofile[p][FirstFd(p)] = None
<1>1. FreeFds(p) \in SUBSET Nat
  BY Places DEF FreeFds
<1>2. FirstFd(p) \in FreeFds(p)
  BY <1>1, MinIn DEF FirstFd
<1> QED
  BY <1>2 DEF FreeFds

LEMMA CloseIn ==
  ASSUME TypeOK, NEW p \in Proc, ToClose(p) # {}
  PROVE  /\ Min(ToClose(p)) \in Place /\ Ref(p, Min(ToClose(p))) \in File
         /\ Min(ToClose(p)) \in FD => p \in exiting
<1>1. ToClose(p) \in SUBSET Nat
  BY Places DEF ToClose
<1>2. Min(ToClose(p)) \in ToClose(p)
  BY <1>1, MinIn
<1> QED
  BY <1>2, Typed DEF ToClose

Pcs == {"idle", "dead", "close", "pipeclose", "alloc_write", "alloc_pipe",
        "read", "write", "sleep_read", "sleep_write"}
PipeRec == [nread : 0 .. Width - 1, nwrite : 0 .. Width - 1,
            data : [0 .. PIPESIZE - 1 -> Byte], open : SUBSET {"read", "write"}]
FileRec == [ref : Nat, type : {"none", "pipe"}, writable : BOOLEAN, pipe : Pipe \cup {None}]

LEMMA TypesAre ==
  TypeOK <=>
    /\ file \in [File -> FileRec]
    /\ ofile \in [Proc -> [FD -> File \cup {None}]]
    /\ closed \in [Proc -> (Pipe \cup {None}) \X BOOLEAN]
    /\ rf \in [Proc -> File \cup {None}] /\ wf \in [Proc -> File \cup {None}]
    /\ pc \in [Proc -> Pcs]
    /\ pipe \in [Pipe -> PipeRec]
    /\ used \subseteq Pipe /\ cut \subseteq Pipe
    /\ lock \in [Pipe -> Proc \cup {None}]
    /\ call \in [Proc -> (Pipe \cup {None}) \X (0 .. MaxBytes)]
    /\ killed \subseteq Proc /\ exiting \subseteq Proc
BY DEF TypeOK, FileTypeOK, Pcs, PipeRec, FileRec

LEMMA TypesAreNext ==
  (TypeOK <=>
    /\ file \in [File -> FileRec]
    /\ ofile \in [Proc -> [FD -> File \cup {None}]]
    /\ closed \in [Proc -> (Pipe \cup {None}) \X BOOLEAN]
    /\ rf \in [Proc -> File \cup {None}] /\ wf \in [Proc -> File \cup {None}]
    /\ pc \in [Proc -> Pcs]
    /\ pipe \in [Pipe -> PipeRec]
    /\ used \subseteq Pipe /\ cut \subseteq Pipe
    /\ lock \in [Pipe -> Proc \cup {None}]
    /\ call \in [Proc -> (Pipe \cup {None}) \X (0 .. MaxBytes)]
    /\ killed \subseteq Proc /\ exiting \subseteq Proc)'
BY TypesAre, PTL

\* wakeup moves processes to places of pipewrite and piperead.
LEMMA WakeTypes ==
  ASSUME pc \in [Proc -> Pcs], NEW q, NEW sleep, NEW p, NEW l \in Pcs,
         WakeAndGoto(q, sleep, p, l)
  PROVE  pc' \in [Proc -> Pcs]
BY DEF WakeAndGoto, Pcs

\* What the updates of file do, field by field
SameFile(g) == file'[g].type = file[g].type /\ file'[g].pipe = file[g].pipe /\ file'[g].writable = file[g].writable

LEMMA FileFields ==
  ASSUME NEW r \in FileRec, NEW n \in Nat
  PROVE  /\ [r EXCEPT !.ref = n] \in FileRec
         /\ [r EXCEPT !.ref = n].ref = n
         /\ [r EXCEPT !.ref = n].type = r.type
         /\ [r EXCEPT !.ref = n].pipe = r.pipe
         /\ [r EXCEPT !.ref = n].writable = r.writable
BY DEF FileRec

LEMMA SetRef ==
  ASSUME file \in [File -> FileRec], NEW f \in File, NEW n \in Nat,
         file' = [file EXCEPT ![f].ref = n]
  PROVE  /\ file' \in [File -> FileRec]
         /\ \A g \in File : SameFile(g) /\ file'[g].ref = IF g = f THEN n ELSE file[g].ref
<1>1. file' = [file EXCEPT ![f] = [file[f] EXCEPT !.ref = n]]
  OBVIOUS
<1>2. \A g \in File : file'[g] = IF g = f THEN [file[f] EXCEPT !.ref = n] ELSE file[g]
  BY <1>1
<1>3. file[f] \in FileRec
  OBVIOUS
<1>4. [file[f] EXCEPT !.ref = n] \in FileRec
  BY <1>3, FileFields
<1>5. file' \in [File -> FileRec]
  BY <1>1, <1>4
<1> QED
  BY <1>2, <1>3, <1>5, FileFields DEF SameFile

LEMMA SetClosed ==
  ASSUME file \in [File -> FileRec], NEW f \in File,
         file' = [file EXCEPT ![f].ref = 0, ![f].type = "none"]
  PROVE  /\ file' \in [File -> FileRec]
         /\ \A g \in File \ {f} : file'[g] = file[g]
         /\ file'[f].ref = 0 /\ file'[f].type = "none"
<1>1. file[f] \in FileRec
  OBVIOUS
<1> DEFINE r == [file[f] EXCEPT !.ref = 0, !.type = "none"]
<1>2. r \in FileRec /\ r.ref = 0 /\ r.type = "none"
  BY <1>1 DEF FileRec
<1>3. file' = [file EXCEPT ![f] = r]
  BY <1>1 DEF FileRec
<1> HIDE DEF r
<1> QED
  BY <1>2, <1>3

LEMMA SetAllRefs ==
  ASSUME file \in [File -> FileRec], NEW n \in [File -> Nat],
         file' = [f \in File |-> [file[f] EXCEPT !.ref = n[f]]]
  PROVE  /\ file' \in [File -> FileRec]
         /\ \A g \in File : SameFile(g) /\ file'[g].ref = n[g]
<1>1. ASSUME NEW g \in File
      PROVE  /\ file'[g] \in FileRec
             /\ SameFile(g) /\ file'[g].ref = n[g]
  <2>1. file'[g] = [file[g] EXCEPT !.ref = n[g]] /\ file[g] \in FileRec /\ n[g] \in Nat
    OBVIOUS
  <2> QED
    BY <2>1, FileFields DEF SameFile
<1> QED
  BY <1>1

-----------------------------------------------------------------------------
(* What most steps leave alone *)

LEMMA CountSame ==
  ASSUME CountInv, UNCHANGED <<file, ofile, rf, wf>>
  PROVE  CountInv'
BY Unmoved DEF CountInv

\* A file with one reference is kept at one place.
LEMMA Sole ==
  ASSUME TypeOK, CountInv, NEW f \in File, file[f].ref = 1,
         NEW p \in Proc, NEW k \in Place, Ref(p, k) = f,
         NEW r \in Proc, NEW l \in Place, Ref(r, l) = f
  PROVE  p = r /\ k = l
<1>1. Cardinality(Keeps(f)) = 1 /\ IsFiniteSet(Keeps(f))
  BY KeepsFinite DEF CountInv
<1>2. PICK x : Keeps(f) = {x}
  BY <1>1, FS_Singleton
<1>3. <<p, k>> \in Keeps(f) /\ <<r, l>> \in Keeps(f)
  BY DEF Keeps
<1> QED
  BY <1>2, <1>3

LEMMA RefAt ==
  ASSUME NEW p
  PROVE  /\ Ref(p, RF) = rf[p] /\ Ref(p, WF) = wf[p]
         /\ \A fd \in FD : Ref(p, fd) = ofile[p][fd]
BY Places DEF Ref

LEMMA RefAtNext ==
  ASSUME NEW p
  PROVE  /\ Ref(p, RF)' = rf'[p] /\ Ref(p, WF)' = wf'[p]
         /\ \A fd \in FD : Ref(p, fd)' = ofile'[p][fd]
BY Places DEF Ref

\* What is kept somewhere has a reference.
LEMMA KeptHasRef ==
  ASSUME TypeOK, CountInv, NEW p \in Proc, NEW k \in Place, Ref(p, k) \in File
  PROVE  file[Ref(p, k)].ref >= 1
<1> DEFINE f == Ref(p, k)
<1>1. IsFiniteSet(Keeps(f)) /\ file[f].ref = Cardinality(Keeps(f)) /\ <<p, k>> \in Keeps(f)
  BY KeepsFinite DEF CountInv, Keeps
<1>2. Cardinality(Keeps(f)) # 0 /\ Cardinality(Keeps(f)) \in Nat
  BY <1>1, FS_EmptySet, FS_CardinalityType
<1> QED
  BY <1>1, <1>2

LEMMA EndsSame ==
  ASSUME TypeOK, EndInv, FlagInv,
         \A f \in File : file'[f].type = file[f].type
                         /\ (file[f].type = "pipe" => SameFile(f) /\ file'[f].ref > 0),
         UNCHANGED <<closed, used>>,
         \A q \in Pipe : pipe'[q].open = pipe[q].open
  PROVE  /\ EndInv' /\ FlagInv'
         /\ \A q \in Pipe : \A w \in BOOLEAN : End(q, w)' <=> End(q, w)
<1>1. \A f \in File : \A q, w : IsEnd(f, q, w)' <=> IsEnd(f, q, w)
  BY DEF IsEnd, SameFile
<1>2. \A f \in File : \A q, w : IsEnd(f, q, w) => file[f].ref > 0 /\ file'[f].ref > 0
  BY DEF IsEnd, EndInv
<1>3. \A q, w : End(q, w)' <=> End(q, w)
  BY <1>1, <1>2 DEF End
<1>4. FlagInv'
  BY <1>3 DEF FlagInv
<1>5. EndInv'
  <2>1. ASSUME NEW f \in File, file'[f].type = "pipe"
        PROVE  /\ file'[f].ref > 0 /\ file'[f].pipe # None
               /\ \A g \in File : IsEnd(g, file[f].pipe, file[f].writable)' => f = g
               /\ \A p \in Proc : closed'[p] # <<file'[f].pipe, file'[f].writable>>
    <3>1. file[f].type = "pipe" /\ SameFile(f) /\ file'[f].ref > 0
      BY <2>1
    <3> QED
      BY <1>1, <3>1 DEF EndInv, SameFile
  <2>2. ASSUME NEW f \in File, file'[f].type = "pipe"
        PROVE  file'[f].pipe = file[f].pipe /\ file'[f].writable = file[f].writable
    BY <2>2 DEF SameFile
  <2>3. \A p, r \in Proc : closed'[p] = closed'[r] /\ closed'[p][1] # None => p = r
    BY DEF EndInv
  <2>4. ASSUME NEW f \in File, file'[f].type = "pipe", NEW g \in File,
               IsEnd(g, file[f].pipe, file[f].writable)'
        PROVE  f = g
    BY <2>1, <2>4
  <2> QED
    BY <2>1, <2>2, <2>3, <2>4 DEF EndInv, IsEnd
<1> QED
  BY <1>3, <1>4, <1>5

\* A process whose places do not change
LEMMA PlaceSame ==
  ASSUME TypeOK, NEW r \in Proc, PlaceInv(r),
         rf'[r] = rf[r], wf'[r] = wf[r], ofile'[r] = ofile[r], closed'[r] = closed[r],
         \A f \in File : (f = rf[r] \/ f = wf[r]) /\ NewFile(f) => NewFile(f)',
         \A f \in File : (\E fd \in FD : ofile[r][fd] = f) /\ file[f].type = "pipe" => file'[f].type = "pipe",
         r \in exiting' => r \in exiting,
         \/ pc'[r] = pc[r]
         \/ pc[r] \in {"sleep_read", "sleep_write"} /\ pc'[r] \in {"read", "write"}
  PROVE  PlaceInv(r)'
<1>1. /\ (Opening(r)' <=> Opening(r)) /\ (Closing(r)' <=> Closing(r))
      /\ (pc'[r] = "alloc_write" <=> pc[r] = "alloc_write") /\ (pc'[r] = "alloc_pipe" <=> pc[r] = "alloc_pipe")
      /\ (pc'[r] = "pipeclose" <=> pc[r] = "pipeclose") /\ (pc'[r] = "dead" <=> pc[r] = "dead")
  BY DEF Opening, Closing
<1>2. rf[r] \in File \cup {None} /\ wf[r] \in File \cup {None} /\ \A fd \in FD : ofile[r][fd] \in File \cup {None}
  BY Typed
<1>3. Opening(r) => NewFile(rf[r])'
  BY <1>2 DEF PlaceInv, NewFile
<1>4. pc[r] = "alloc_pipe" => NewFile(wf[r])'
  BY <1>2 DEF PlaceInv, NewFile
<1>5. \A fd \in FD : ofile[r][fd] # None => pc[r] # "dead" /\ file'[ofile[r][fd]].type = "pipe"
  BY <1>2 DEF PlaceInv
<1>6. NewFile(rf[r])' <=> (rf'[r] # None /\ file'[rf'[r]].ref = 1 /\ file'[rf'[r]].type = "none")
  BY DEF NewFile
<1> QED
  BY <1>1, <1>3, <1>4, <1>5 DEF PlaceInv, NewFile

\* CallInv in parts: a process that uses an end, a process and a pipe, a pipe
UserInv(p, w) ==
    Using(p, w) => /\ call[p][1] # None
                   /\ \E fd \in FD : ofile[p][fd] # None /\ IsEnd(ofile[p][fd], call[p][1], w)
                   /\ ~w => call[p][2] > 0
WaitInv(p, q) ==
    /\ lock[q] = p => pc[p] = "write" /\ call[p][1] = q
    /\ pc[p] = "sleep_write" /\ call[p][1] = q => Held(q) = PIPESIZE
    /\ pc[p] = "sleep_read" /\ call[p][1] = q /\ Free(q) => q \in cut \/ Held(q) = 0

LEMMA CallParts ==
  CallInv <=> /\ \A p \in Proc, w \in BOOLEAN : UserInv(p, w)
              /\ \A p \in Proc, q \in Pipe : WaitInv(p, q)
              /\ \A q \in Pipe : Held(q) <= PIPESIZE
BY DEF CallInv, UserInv, WaitInv

LEMMA CallPartsNext ==
  (CallInv <=> /\ \A p \in Proc, w \in BOOLEAN : UserInv(p, w)
               /\ \A p \in Proc, q \in Pipe : WaitInv(p, q)
               /\ \A q \in Pipe : Held(q) <= PIPESIZE)'
BY CallParts, PTL

\* Who uses a pipe goes on using it.
LEMMA UserSame ==
  ASSUME NEW p, NEW w, UserInv(p, w), Using(p, w)' => Using(p, w),
         Using(p, w)' => /\ ofile'[p] = ofile[p]
                         /\ call'[p] = call[p] \/ (w /\ call'[p][1] = call[p][1])
                         /\ \A fd \in FD : ofile[p][fd] # None /\ file[ofile[p][fd]].type = "pipe" =>
                              SameFile(ofile[p][fd])
  PROVE  UserInv(p, w)'
<1> SUFFICES ASSUME Using(p, w)'
             PROVE  /\ call'[p][1] # None
                    /\ \E fd \in FD : ofile'[p][fd] # None /\ IsEnd(ofile[p][fd], call[p][1], w)'
                    /\ ~w => call'[p][2] > 0
  BY DEF UserInv
<1>1. PICK fd \in FD : ofile[p][fd] # None /\ IsEnd(ofile[p][fd], call[p][1], w)
  BY DEF UserInv
<1>2. SameFile(ofile[p][fd]) /\ ofile'[p] = ofile[p] /\ call'[p][1] = call[p][1]
  BY <1>1 DEF IsEnd
<1>3. IsEnd(ofile[p][fd], call[p][1], w)'
  BY <1>1, <1>2 DEF IsEnd, SameFile
<1> QED
  BY <1>1, <1>2, <1>3 DEF UserInv

LEMMA UserHasEnd ==
  ASSUME TypeOK, EndInv, FlagInv, CallInv, NEW p \in Proc, NEW w \in BOOLEAN, Using(p, w)
  PROVE  /\ call[p][1] \in used /\ call[p][1] \in Pipe
         /\ End(call[p][1], w) /\ Flag(w) \in pipe[call[p][1]].open
         /\ ~w => call[p][2] > 0
<1>1. call[p][1] \in Pipe
  BY DEF CallInv, TypeOK
<1>2. PICK fd \in FD : ofile[p][fd] # None /\ IsEnd(ofile[p][fd], call[p][1], w)
  BY DEF CallInv
<1>3. ofile[p][fd] \in File
  BY <1>2 DEF TypeOK, FileTypeOK
<1>4. End(call[p][1], w)
  BY <1>2, <1>3 DEF End, EndInv, IsEnd
<1> QED
  BY <1>1, <1>4 DEF FlagInv, CallInv

\* Processes that do not come to use a pipe, and pipes that stay as they are
LEMMA CallSame ==
  ASSUME TypeOK, CallInv, UNCHANGED lock,
         \A q \in Pipe : \/ Held(q)' = Held(q) /\ (q \in cut => q \in cut')
                         \/ /\ Held(q)' = 0
                            /\ \A p \in Proc, w \in BOOLEAN : Using(p, w) => call[p][1] # q,
         \A p \in Proc, w \in BOOLEAN : Using(p, w)' =>
            /\ Using(p, w) /\ ofile'[p] = ofile[p] /\ call'[p] = call[p]
            /\ \A fd \in FD : ofile[p][fd] # None /\ file[ofile[p][fd]].type = "pipe" =>
                 SameFile(ofile[p][fd]),
         \A p \in Proc : pc'[p] \in {"sleep_write", "sleep_read"} => pc'[p] = pc[p],
         \A p \in Proc, q \in Pipe : lock[q] = p => pc'[p] = pc[p] /\ call'[p] = call[p]
  PROVE  CallInv'
<1>1. ASSUME NEW p \in Proc, NEW w \in BOOLEAN PROVE UserInv(p, w)'
  BY CallParts, UserSame
<1>2. ASSUME NEW p \in Proc, NEW q \in Pipe
      PROVE  WaitInv(p, q)'
  <2>1. lock'[q] = p => pc'[p] = "write" /\ call'[p][1] = q
    BY DEF CallInv
  <2>2. pc'[p] = "sleep_write" => pc[p] = "sleep_write" /\ call'[p] = call[p] /\ Using(p, TRUE)
    <3>1. pc'[p] = "sleep_write" => Using(p, TRUE)'
      BY DEF Using
    <3> QED
      BY <3>1
  <2>3. pc'[p] = "sleep_read" => pc[p] = "sleep_read" /\ call'[p] = call[p] /\ Using(p, FALSE)
    <3>1. pc'[p] = "sleep_read" => Using(p, FALSE)'
      BY DEF Using
    <3> QED
      BY <3>1
  <2>4. Free(q)' <=> Free(q)
    BY DEF Free
  <2>5. pc'[p] = "sleep_write" /\ call'[p][1] = q => Held(q)' = PIPESIZE
    <3> SUFFICES ASSUME pc'[p] = "sleep_write", call'[p][1] = q PROVE Held(q)' = PIPESIZE
      OBVIOUS
    <3>1. pc[p] = "sleep_write" /\ call[p][1] = q /\ Using(p, TRUE)
      BY <2>2
    <3>2. Held(q) = PIPESIZE
      BY <3>1 DEF CallInv
    <3>3. Held(q)' = Held(q)
      BY <3>1
    <3> QED
      BY <3>2, <3>3
  <2>6. pc'[p] = "sleep_read" /\ call'[p][1] = q /\ Free(q)' => q \in cut' \/ Held(q)' = 0
    BY <2>3, <2>4 DEF CallInv
  <2> QED
    BY <2>1, <2>5, <2>6 DEF WaitInv
<1>3. \A q \in Pipe : Held(q)' <= PIPESIZE
  BY PipeAssumption DEF CallInv
<1> QED
  BY <1>1, <1>2, <1>3, CallPartsNext

-----------------------------------------------------------------------------
(* The invariant in the form that the steps preserve *)

Parts == TypeOK /\ CountInv /\ FlagInv /\ EndInv /\ CallInv /\ \A p \in Proc : PlaceInv(p)

LEMMA OpenStep ==
  ASSUME Parts, NEW p \in Proc, Calls(p), AllocRead(p), UNCHANGED pipeVars
  PROVE  Parts'
<1> DEFINE f == Min(Unused)
<1>1. TypeOK /\ CountInv /\ FlagInv /\ EndInv /\ CallInv /\ \A r \in Proc : PlaceInv(r)
  BY DEF Parts
<1>2. f \in File /\ file[f].ref = 0
  BY <1>1, UnusedMin DEF AllocRead
<1>3. /\ file' = [file EXCEPT ![f].ref = 1] /\ rf' = [rf EXCEPT ![p] = f]
      /\ pc' = [pc EXCEPT ![p] = "alloc_write"] /\ pc[p] = "idle"
      /\ UNCHANGED <<ofile, closed, wf>>
      /\ UNCHANGED <<pipe, used, lock, call, result, killed, exiting, cut>>
  BY DEF AllocRead, Filealloc, Goto, pipeVars, Calls
<1> HIDE DEF f
<1>4. /\ file' \in [File -> FileRec]
      /\ \A g \in File : SameFile(g) /\ file'[g].ref = IF g = f THEN 1 ELSE file[g].ref
  BY <1>1, <1>2, <1>3, SetRef, TypesAre
<1>5. TypeOK'
  BY <1>1, <1>2, <1>3, <1>4, TypesAre, TypesAreNext DEF Pcs
<1>6. rf[p] = None /\ wf[p] = None /\ p \notin exiting
  BY <1>1, <1>3 DEF PlaceInv, Opening, Closing
<1>7. CountInv'
  <2>1. Ref(p, RF) = None /\ Ref(p, RF)' = f
    BY <1>1, <1>3, <1>6, RefAt, RefAtNext, TypesAre
  <2>2. SameElsewhere({<<p, RF>>})
    BY <1>1, <1>3, Places, TypesAre DEF SameElsewhere, Ref
  <2>3. \A g \in File : References(g)' = IF g = f THEN References(g) + 1 ELSE References(g)
    BY <1>2, <2>1, <2>2, OneMore, Places
  <2> QED
    BY <1>1, <1>2, <1>4, <2>3 DEF CountInv
<1>8. file[f].type = "none" /\ \A g \in File : file[g].type = "pipe" => file'[g].ref > 0
  BY <1>1, <1>2, <1>4, Typed DEF EndInv
<1>9. EndInv' /\ FlagInv'
  BY <1>1, <1>3, <1>4, <1>8, EndsSame DEF SameFile
<1>10. ASSUME NEW r \in Proc PROVE PlaceInv(r)'
  <2>1. CASE r = p
    <3>1. rf'[p] = f /\ wf'[p] = None /\ pc'[p] = "alloc_write" /\ closed'[p] = closed[p] /\ ofile' = ofile
      BY <1>1, <1>3, <1>6, TypesAre
    <3>2. NewFile(rf[p])' /\ rf'[p] # wf'[p]
      BY <1>1, <1>2, <1>4, <1>6, <1>8, <3>1, Typed DEF NewFile, SameFile
    <3>3. \A fd \in FD : ofile[p][fd] # None => file'[ofile[p][fd]].type = "pipe"
      BY <1>1, <1>4, Typed DEF PlaceInv, SameFile
    <3> QED
      BY <1>1, <1>3, <1>6, <2>1, <3>1, <3>2, <3>3 DEF PlaceInv, Opening, Closing
  <2>2. CASE r # p
    <3>1. \A g \in File : NewFile(g) => NewFile(g)'
      BY <1>2, <1>4 DEF NewFile, SameFile
    <3>2. \A g \in File : file[g].type = "pipe" => file'[g].type = "pipe"
      BY <1>4 DEF SameFile
    <3> QED
      BY <1>1, <1>3, <2>2, <3>1, <3>2, PlaceSame, TypesAre
  <2> QED
    BY <2>1, <2>2
<1>11. CallInv'
  <2>1. \A r \in Proc : pc'[r] = pc[r] \/ (r = p /\ pc[r] = "idle" /\ pc'[r] = "alloc_write")
    BY <1>1, <1>3, TypesAre
  <2>2. \A r \in Proc, w \in BOOLEAN : Using(r, w)' => Using(r, w)
    BY <2>1 DEF Using
  <2>3. \A r \in Proc : \A fd \in FD : ofile[r][fd] # None => SameFile(ofile[r][fd])
    BY <1>1, <1>4, Typed
  <2>4. \A r \in Proc, q \in Pipe : lock[q] = r => pc'[r] = pc[r]
    BY <1>1, <2>1 DEF CallInv
  <2>5. \A r \in Proc : pc'[r] \in {"sleep_write", "sleep_read"} => pc'[r] = pc[r]
    BY <2>1
  <2>6. \A q \in Pipe : Held(q)' = Held(q) /\ (q \in cut => q \in cut')
    BY <1>3 DEF Held
  <2> QED
    BY <1>1, <1>3, <2>2, <2>3, <2>4, <2>5, <2>6, CallSame
<1> QED
  BY <1>1, <1>5, <1>7, <1>9, <1>10, <1>11 DEF Parts

Idle(l) == l \in Pcs \ {"read", "write", "sleep_read", "sleep_write"}

\* p does not use a pipe, and what it does changes no file that others keep.
LEMMA CallElse ==
  ASSUME Parts, NEW p \in Proc, Idle(pc[p]), NEW l, Idle(l),
         pc' = [pc EXCEPT ![p] = l], UNCHANGED <<call, lock, pipe, cut>>,
         \A r \in Proc \ {p} : ofile'[r] = ofile[r],
         \A r \in Proc \ {p} : \A fd \in FD : ofile[r][fd] # None => SameFile(ofile[r][fd])
  PROVE  CallInv'
<1>1. TypeOK /\ CallInv
  BY DEF Parts
<1>2. \A r \in Proc : pc'[r] = IF r = p THEN l ELSE pc[r]
  BY <1>1, TypesAre
<1>3. \A r \in Proc, w \in BOOLEAN : Using(r, w)' => Using(r, w) /\ r # p
  BY <1>2 DEF Using, Idle
<1>4. \A r \in Proc, q \in Pipe : lock[q] = r => pc'[r] = pc[r]
  BY <1>1, <1>2 DEF CallInv, Idle
<1>5. \A r \in Proc : pc'[r] \in {"sleep_write", "sleep_read"} => pc'[r] = pc[r]
  BY <1>2 DEF Idle
<1>6. \A q \in Pipe : Held(q)' = Held(q) /\ (q \in cut => q \in cut')
  BY DEF Held
<1> QED
  BY <1>1, <1>3, <1>4, <1>5, <1>6, CallSame

LEMMA CloseStep ==
  ASSUME Parts, NEW p \in Proc, NEW fd \in FD, Calls(p), SysClose(p, fd), UNCHANGED pipeVars
  PROVE  Parts'
<1>1. TypeOK /\ CountInv /\ FlagInv /\ EndInv /\ CallInv /\ \A r \in Proc : PlaceInv(r)
  BY DEF Parts
<1>2. PICK f \in File : f = ofile[p][fd]
  BY <1>1, Typed DEF SysClose
<1>3. /\ ofile' = [ofile EXCEPT ![p][fd] = None] /\ rf' = [rf EXCEPT ![p] = f]
      /\ pc' = [pc EXCEPT ![p] = "close"] /\ pc[p] = "idle"
      /\ UNCHANGED <<file, closed, wf>>
      /\ UNCHANGED <<pipe, used, lock, call, result, killed, exiting, cut>>
  BY <1>2 DEF SysClose, Goto, pipeVars, Calls
<1>5. TypeOK'
  BY <1>1, <1>2, <1>3, TypesAre, TypesAreNext DEF Pcs
<1>6. rf[p] = None /\ wf[p] = None /\ p \notin exiting
  BY <1>1, <1>3 DEF PlaceInv, Opening, Closing
<1>7. CountInv'
  <2>1. Ref(p, fd) = f /\ Ref(p, RF) = None
    BY <1>2, <1>6, RefAt
  <2>2. Ref(p, fd)' = None /\ Ref(p, RF)' = f
    BY <1>1, <1>3, RefAtNext, TypesAre
  <2>3. SameElsewhere({<<p, fd>>, <<p, RF>>})
    BY <1>1, <1>3, Places, TypesAre DEF SameElsewhere, Ref
  <2>4. f # None /\ fd \in Place /\ RF \in Place /\ fd # RF
    BY <1>1, <1>2, Typed, Places
  <2>5. References(f)' = References(f)
    <3>1. \A r \in Proc, m \in Place : <<r, m>> \notin {<<p, fd>>, <<p, RF>>} =>
             (Ref(r, m)' = f <=> Ref(r, m) = f)
      BY <2>3 DEF SameElsewhere
    <3>2. Ref(p, fd)' # f
      BY <2>2, <2>4
    <3> QED
      BY <1>2, <2>1, <2>2, <2>4, <3>1, <3>2, OneMoved
  <2>6. \A g \in File \ {f} : Keeps(g)' = Keeps(g)
    <3> SUFFICES ASSUME NEW g \in File \ {f} PROVE Keeps(g)' = Keeps(g)
      OBVIOUS
    <3>1. \A x \in Proc \X Place : x \notin {<<p, fd>>, <<p, RF>>} => Ref(x[1], x[2])' = Ref(x[1], x[2])
      BY <2>3 DEF SameElsewhere
    <3>2. \A x \in {<<p, fd>>, <<p, RF>>} : Ref(x[1], x[2])' # g /\ Ref(x[1], x[2]) # g
      BY <1>1, <2>1, <2>2, Typed
    <3> QED
      BY <3>1, <3>2 DEF Keeps
  <2>7. \A g \in File : References(g)' = References(g)
    <3>1. \A g : References(g) = Cardinality(Keeps(g)) /\ References(g)' = Cardinality(Keeps(g)')
      BY KeepsFinite, RefsNext
    <3>2. \A g \in File \ {f} : References(g)' = References(g)
      BY <2>6, <3>1
    <3> QED
      BY <2>5, <3>2
  <2> QED
    BY <1>1, <1>3, <2>7 DEF CountInv
<1>9. EndInv' /\ FlagInv'
  BY <1>1, <1>3, EndsSame DEF SameFile, EndInv
<1>10. ASSUME NEW r \in Proc PROVE PlaceInv(r)'
  <2>1. CASE r = p
    <3>1. rf'[p] = f /\ wf'[p] = None /\ pc'[p] = "close" /\ closed'[p] = closed[p]
          /\ \A e \in FD : ofile'[p][e] # None => ofile'[p][e] = ofile[p][e]
      BY <1>1, <1>3, <1>6, TypesAre
    <3> QED
      BY <1>1, <1>3, <1>6, <2>1, <3>1 DEF PlaceInv, Opening, Closing
  <2>2. CASE r # p
    <3>1. \A g \in File : NewFile(g) => NewFile(g)'
      BY <1>3 DEF NewFile
    <3> QED
      BY <1>1, <1>3, <2>2, <3>1, PlaceSame, TypesAre
  <2> QED
    BY <2>1, <2>2
<1>11. CallInv'
  <2>1. Idle(pc[p]) /\ Idle("close")
    BY <1>3 DEF Idle, Pcs
  <2>2. \A r \in Proc \ {p} : ofile'[r] = ofile[r]
    BY <1>1, <1>3, TypesAre
  <2> QED
    BY <1>3, <2>1, <2>2, CallElse DEF SameFile
<1> QED
  BY <1>1, <1>5, <1>7, <1>9, <1>10, <1>11 DEF Parts

LEMMA DupStep ==
  ASSUME Parts, NEW p \in Proc, NEW fd \in FD, Calls(p), SysDup(p, fd), UNCHANGED pipeVars
  PROVE  Parts'
<1>1. TypeOK /\ CountInv /\ FlagInv /\ EndInv /\ CallInv /\ \A r \in Proc : PlaceInv(r)
  BY DEF Parts
<1>4. PICK f \in File, k \in FD : f = ofile[p][fd] /\ k = FirstFd(p) /\ ofile[p][k] = None
  BY <1>1, FirstIn, Typed DEF SysDup
<1>2. f \in File /\ k \in FD /\ ofile[p][k] = None /\ file[f].ref \in Nat
  BY <1>1, <1>4, Typed
<1>3. /\ ofile' = [ofile EXCEPT ![p][k] = f] /\ file' = [file EXCEPT ![f].ref = file[f].ref + 1]
      /\ pc[p] = "idle"
      /\ UNCHANGED <<pc, closed, rf, wf>>
      /\ UNCHANGED <<pipe, used, lock, call, result, killed, exiting, cut>>
  BY <1>4 DEF SysDup, pipeVars, Calls
<1> DEFINE n == file[f].ref + 1
<1>20. n \in Nat /\ file' = [file EXCEPT ![f].ref = n]
  BY <1>2, <1>3
<1> HIDE DEF n
<1>5. /\ file' \in [File -> FileRec]
      /\ \A g \in File : SameFile(g) /\ file'[g].ref = IF g = f THEN file[f].ref + 1 ELSE file[g].ref
  <2>1. /\ file' \in [File -> FileRec]
        /\ \A g \in File : SameFile(g) /\ file'[g].ref = IF g = f THEN n ELSE file[g].ref
    BY <1>1, <1>2, <1>20, SetRef, TypesAre
  <2> QED
    BY <2>1 DEF n
<1>6. TypeOK'
  BY <1>1, <1>2, <1>3, <1>5, TypesAre, TypesAreNext
<1>7. CountInv'
  <2>1. Ref(p, k) = None /\ Ref(p, k)' = f
    BY <1>1, <1>2, <1>3, RefAt, RefAtNext, TypesAre
  <2>2. SameElsewhere({<<p, k>>})
    BY <1>1, <1>2, <1>3, Places, TypesAre DEF SameElsewhere, Ref
  <2>3. \A g \in File : References(g)' = IF g = f THEN References(g) + 1 ELSE References(g)
    BY <1>2, <2>1, <2>2, OneMore, Places
  <2> QED
    BY <1>1, <1>2, <1>5, <2>3 DEF CountInv
<1>8. file[f].type = "pipe"
  BY <1>1, <1>2, <1>4, Typed DEF PlaceInv
<1>9. EndInv' /\ FlagInv'
  <2>1. \A g \in File : file[g].type = "pipe" => file'[g].ref > 0
    BY <1>1, <1>2, <1>5 DEF EndInv
  <2> QED
    BY <1>1, <1>3, <1>5, <2>1, EndsSame DEF SameFile
<1>10. ASSUME NEW r \in Proc PROVE PlaceInv(r)'
  <2>1. CASE r = p
    <3>1. rf'[p] = rf[p] /\ wf'[p] = wf[p] /\ pc'[p] = "idle" /\ closed'[p] = closed[p]
          /\ \A e \in FD : ofile'[p][e] # None => ofile'[p][e] = ofile[p][e] \/ ofile'[p][e] = f
      BY <1>1, <1>3, TypesAre
    <3>2. \A e \in FD : ofile'[p][e] # None => file'[ofile'[p][e]].type = "pipe"
      BY <1>1, <1>2, <1>5, <1>8, <3>1, Typed DEF PlaceInv, SameFile
    <3> QED
      BY <1>1, <1>3, <2>1, <3>1, <3>2 DEF PlaceInv, Opening, Closing
  <2>2. CASE r # p
    <3>1. \A g \in File : NewFile(g) => NewFile(g)'
      BY <1>5, <1>8 DEF NewFile, SameFile
    <3>2. \A g \in File : file[g].type = "pipe" => file'[g].type = "pipe"
      BY <1>5 DEF SameFile
    <3> QED
      BY <1>1, <1>3, <2>2, <3>1, <3>2, PlaceSame, TypesAre
  <2> QED
    BY <2>1, <2>2
<1>11. CallInv'
  <2>1. Idle(pc[p]) /\ pc' = [pc EXCEPT ![p] = pc[p]]
    BY <1>1, <1>3, TypesAre DEF Idle, Pcs
  <2>2. \A r \in Proc \ {p} : ofile'[r] = ofile[r]
    BY <1>1, <1>3, TypesAre
  <2>3. \A r \in Proc : \A e \in FD : ofile[r][e] # None => SameFile(ofile[r][e])
    BY <1>1, <1>5, Typed
  <2> QED
    BY <1>3, <2>1, <2>2, <2>3, CallElse
<1> QED
  BY <1>1, <1>6, <1>7, <1>9, <1>10, <1>11 DEF Parts

LEMMA OpenWriteStep ==
  ASSUME Parts, NEW p \in Proc, PipeFiles(p)
  PROVE  Parts'
<1> DEFINE f == Min(Unused)
<1>1. TypeOK /\ CountInv /\ FlagInv /\ EndInv /\ CallInv /\ \A r \in Proc : PlaceInv(r)
  BY DEF Parts
<1>2. /\ pc[p] = "alloc_write"
      /\ UNCHANGED <<ofile, closed, rf>>
      /\ UNCHANGED <<pipe, used, lock, call, result, killed, exiting, cut>>
  BY DEF PipeFiles, AllocWrite, pipeVars
<1>3. NewFile(rf[p]) /\ rf[p] \in File /\ wf[p] = None /\ p \notin exiting
  BY <1>1, <1>2, Typed DEF PlaceInv, Opening, Closing, NewFile
<1>4. CASE Unused # {} /\ Filealloc /\ wf' = [wf EXCEPT ![p] = f] /\ Goto(p, "alloc_pipe")
  <2>1. f \in File /\ file[f].ref = 0
    BY <1>1, <1>4, UnusedMin
  <2>2. file' = [file EXCEPT ![f].ref = 1] /\ pc' = [pc EXCEPT ![p] = "alloc_pipe"]
    BY <1>4 DEF Filealloc, Goto
  <2> HIDE DEF f
  <2>3. /\ file' \in [File -> FileRec]
        /\ \A g \in File : SameFile(g) /\ file'[g].ref = IF g = f THEN 1 ELSE file[g].ref
    BY <1>1, <2>1, <2>2, SetRef, TypesAre
  <2>4. TypeOK'
    BY <1>1, <1>2, <1>4, <2>1, <2>2, <2>3, TypesAre, TypesAreNext DEF Pcs
  <2>5. CountInv'
    <3>1. Ref(p, WF) = None /\ Ref(p, WF)' = f
      BY <1>1, <1>3, <1>4, RefAt, RefAtNext, TypesAre
    <3>2. SameElsewhere({<<p, WF>>})
      BY <1>1, <1>2, <1>4, Places, TypesAre DEF SameElsewhere, Ref
    <3>3. \A g \in File : References(g)' = IF g = f THEN References(g) + 1 ELSE References(g)
      BY <2>1, <3>1, <3>2, OneMore, Places
    <3> QED
      BY <1>1, <2>1, <2>3, <3>3 DEF CountInv
  <2>6. file[f].type = "none" /\ \A g \in File : file[g].type = "pipe" => file'[g].ref > 0
    BY <1>1, <2>1, <2>3, Typed DEF EndInv
  <2>7. EndInv' /\ FlagInv'
    BY <1>1, <1>2, <2>3, <2>6, EndsSame DEF SameFile
  <2>8. ASSUME NEW r \in Proc PROVE PlaceInv(r)'
    <3>1. CASE r = p
      <4>1. rf'[p] = rf[p] /\ wf'[p] = f /\ pc'[p] = "alloc_pipe" /\ closed'[p] = closed[p] /\ ofile' = ofile
        BY <1>1, <1>2, <1>4, <2>2, TypesAre
      <4>2. NewFile(rf[p])' /\ NewFile(wf[p])' /\ rf'[p] # wf'[p]
        BY <1>1, <1>3, <2>1, <2>3, <2>6, <4>1, Typed DEF NewFile, SameFile
      <4>3. \A fd \in FD : ofile[p][fd] # None => file'[ofile[p][fd]].type = "pipe"
        BY <1>1, <2>3, Typed DEF PlaceInv, SameFile
      <4> QED
        BY <1>1, <1>2, <1>3, <3>1, <4>1, <4>2, <4>3 DEF PlaceInv, Opening, Closing
    <3>2. CASE r # p
      <4>1. \A g \in File : NewFile(g) => NewFile(g)'
        BY <2>1, <2>3 DEF NewFile, SameFile
      <4>2. \A g \in File : file[g].type = "pipe" => file'[g].type = "pipe"
        BY <2>3 DEF SameFile
      <4> QED
        BY <1>1, <1>2, <1>4, <2>2, <3>2, <4>1, <4>2, PlaceSame, TypesAre
    <3> QED
      BY <3>1, <3>2
  <2>9. CallInv'
    <3>1. Idle(pc[p]) /\ Idle("alloc_pipe")
      BY <1>2 DEF Idle, Pcs
    <3>2. \A r \in Proc : \A e \in FD : ofile[r][e] # None => SameFile(ofile[r][e])
      BY <1>1, <2>3, Typed
    <3> QED
      BY <1>2, <2>2, <3>1, <3>2, CallElse
  <2> QED
    BY <2>4, <2>5, <2>7, <2>8, <2>9 DEF Parts
<1>5. CASE Goto(p, "close") /\ UNCHANGED <<file, wf>>
  <2>1. pc' = [pc EXCEPT ![p] = "close"]
    BY <1>5 DEF Goto
  <2>2. TypeOK'
    BY <1>1, <1>2, <1>5, <2>1, TypesAre, TypesAreNext DEF Pcs
  <2>3. CountInv'
    BY <1>1, <1>2, <1>5, CountSame
  <2>4. EndInv' /\ FlagInv'
    BY <1>1, <1>2, <1>5, EndsSame DEF SameFile, EndInv
  <2>5. ASSUME NEW r \in Proc PROVE PlaceInv(r)'
    <3>1. CASE r = p
      <4>1. pc'[p] = "close"
        BY <1>1, <2>1, TypesAre
      <4> QED
        BY <1>1, <1>2, <1>5, <3>1, <4>1 DEF PlaceInv, Opening, Closing
    <3>2. CASE r # p
      <4>1. \A g \in File : NewFile(g) => NewFile(g)'
        BY <1>5 DEF NewFile
      <4> QED
        BY <1>1, <1>2, <1>5, <2>1, <3>2, <4>1, PlaceSame, TypesAre
    <3> QED
      BY <3>1, <3>2
  <2>6. CallInv'
    <3>1. Idle(pc[p]) /\ Idle("close")
      BY <1>2 DEF Idle, Pcs
    <3> QED
      BY <1>2, <1>5, <2>1, <3>1, CallElse DEF SameFile
  <2> QED
    BY <2>2, <2>3, <2>4, <2>5, <2>6 DEF Parts
<1> QED
  BY <1>4, <1>5 DEF PipeFiles, AllocWrite

\* fileclose takes f from place k of p.
Taken(p, k, f) ==
    /\ \A g \in File : References(g)' = IF g = f THEN References(g) - 1 ELSE References(g)
    /\ \A r \in Proc \ {p} : ofile'[r] = ofile[r] /\ rf'[r] = rf[r] /\ wf'[r] = wf[r]
    /\ \A fd \in FD : ofile'[p][fd] # None => ofile'[p][fd] = ofile[p][fd] /\ fd # k
    /\ rf' \in [Proc -> File \cup {None}] /\ wf' \in [Proc -> File \cup {None}]
    /\ ofile' \in [Proc -> [FD -> File \cup {None}]]
    /\ file[f].ref = 1 =>
         /\ \A r \in Proc \ {p} : /\ rf[r] # f /\ wf[r] # f
                                  /\ \A fd \in FD : ofile[r][fd] # f
         /\ \A fd \in FD : ofile'[p][fd] # f
    /\ file[f].ref >= 1

LEMMA ClosePlace ==
  ASSUME Parts, NEW p \in Proc, NEW k \in Place, NEW f \in File, f = Ref(p, k), Clear(p, k)
  PROVE  Taken(p, k, f)
<1>1. TypeOK /\ CountInv
  BY DEF Parts
<1>2. /\ rf' = IF k = RF THEN [rf EXCEPT ![p] = None] ELSE rf
      /\ wf' = IF k = WF THEN [wf EXCEPT ![p] = None] ELSE wf
      /\ ofile' = IF k \in FD THEN [ofile EXCEPT ![p][k] = None] ELSE ofile
  BY DEF Clear
<1>3. \A r \in Proc \ {p} : ofile'[r] = ofile[r] /\ rf'[r] = rf[r] /\ wf'[r] = wf[r]
  BY <1>1, <1>2, TypesAre
<1>4. \A fd \in FD : ofile'[p][fd] = IF fd = k THEN None ELSE ofile[p][fd]
  BY <1>1, <1>2, TypesAre
<1>5. rf'[p] = (IF k = RF THEN None ELSE rf[p]) /\ wf'[p] = (IF k = WF THEN None ELSE wf[p])
  BY <1>1, <1>2, TypesAre
<1>6. Ref(p, k)' = None
  BY <1>4, <1>5, Places, RefAtNext
<1>7. SameElsewhere({<<p, k>>})
  <2> SUFFICES ASSUME NEW r \in Proc, NEW l \in Place, <<r, l>> # <<p, k>>
               PROVE  Ref(r, l)' = Ref(r, l)
    BY DEF SameElsewhere
  <2>1. CASE r # p
    BY <1>3, <2>1, Places, RefAt, RefAtNext
  <2>2. CASE r = p
    BY <1>4, <1>5, <2>2, Places, RefAt, RefAtNext
  <2> QED
    BY <2>1, <2>2
<1>8. \A g \in File : References(g)' = IF g = f THEN References(g) - 1 ELSE References(g)
  BY <1>6, <1>7, OneLess
<1>9. file[f].ref >= 1
  BY <1>1, KeptHasRef
<1>10. ASSUME file[f].ref = 1
       PROVE  /\ \A r \in Proc \ {p} : /\ rf[r] # f /\ wf[r] # f
                                       /\ \A fd \in FD : ofile[r][fd] # f
              /\ \A fd \in FD : ofile'[p][fd] # f
  <2>1. \A r \in Proc, l \in Place : Ref(r, l) = f => r = p /\ l = k
    BY <1>1, <1>10, Sole
  <2>2. \A r \in Proc \ {p} : rf[r] # f /\ wf[r] # f
    BY <2>1, Places, RefAt
  <2>3. ASSUME NEW r \in Proc \ {p}, NEW fd \in FD PROVE ofile[r][fd] # f
    <3>1. fd \in Place /\ Ref(r, fd) = ofile[r][fd]
      BY Places, RefAt
    <3> QED
      BY <2>1, <3>1
  <2>4. \A fd \in FD : ofile'[p][fd] # f
    BY <1>1, <1>4, <2>1, Places, RefAt, Typed
  <2> QED
    BY <2>2, <2>3, <2>4
<1>11. rf' \in [Proc -> File \cup {None}] /\ wf' \in [Proc -> File \cup {None}]
       /\ ofile' \in [Proc -> [FD -> File \cup {None}]]
  BY <1>1, <1>2, TypesAre
<1> QED
  BY <1>3, <1>4, <1>8, <1>9, <1>10, <1>11 DEF Taken

LEMMA FilecloseStep ==
  ASSUME Parts, NEW p \in Proc, CloseFile(p)
  PROVE  Parts'
<1>1. TypeOK /\ CountInv /\ FlagInv /\ EndInv /\ CallInv /\ \A r \in Proc : PlaceInv(r)
  BY DEF Parts
<1>2. /\ pc[p] = "close" /\ ToClose(p) # {}
      /\ UNCHANGED <<pipe, used, lock, call, result, killed, exiting, cut>>
  BY DEF CloseFile, Fileclose, pipeVars
<1>3. PICK k \in Place, f \in File : /\ k = Min(ToClose(p)) /\ f = Ref(p, k)
                                     /\ k \in FD => p \in exiting
  BY <1>1, <1>2, CloseIn
<1>4. Clear(p, k)
  BY <1>3 DEF CloseFile, Fileclose
<1>5. \/ ~LastReference(f) /\ file' = [file EXCEPT ![f].ref = file[f].ref - 1] /\ UNCHANGED <<closed, pc>>
      \/ /\ LastReference(f)
         /\ file' = [file EXCEPT ![f].ref = 0, ![f].type = "none"]
         /\ \/ /\ file[f].type = "pipe"
               /\ closed' = [closed EXCEPT ![p] = <<file[f].pipe, file[f].writable>>]
               /\ pc' = [pc EXCEPT ![p] = "pipeclose"]
            \/ file[f].type = "none" /\ UNCHANGED <<closed, pc>>
  BY <1>3 DEF CloseFile, Fileclose, Goto
<1>6. /\ \A g \in File : References(g)' = IF g = f THEN References(g) - 1 ELSE References(g)
      /\ \A r \in Proc \ {p} : ofile'[r] = ofile[r] /\ rf'[r] = rf[r] /\ wf'[r] = wf[r]
      /\ \A fd \in FD : ofile'[p][fd] # None => ofile'[p][fd] = ofile[p][fd] /\ fd # k
      /\ rf' \in [Proc -> File \cup {None}] /\ wf' \in [Proc -> File \cup {None}]
      /\ ofile' \in [Proc -> [FD -> File \cup {None}]]
      /\ file[f].ref = 1 =>
           /\ \A r \in Proc \ {p} : /\ rf[r] # f /\ wf[r] # f
                                    /\ \A fd \in FD : ofile[r][fd] # f
           /\ \A fd \in FD : ofile'[p][fd] # f
      /\ file[f].ref >= 1
  <2>1. Taken(p, k, f)
    BY <1>3, <1>4, ClosePlace
  <2> QED
    BY <2>1 DEF Taken
<1>7. closed[p][1] = None
  BY <1>1, <1>2 DEF PlaceInv
<1>8. Idle("close") /\ Idle("pipeclose") /\ pc[p] = "close"
  BY <1>2 DEF Idle, Pcs
<1>9. CASE ~LastReference(f) /\ file' = [file EXCEPT ![f].ref = file[f].ref - 1] /\ UNCHANGED <<closed, pc>>
  <2>1. PICK n \in Nat : n = file[f].ref - 1 /\ n > 0
    BY <1>1, <1>6, <1>9, Typed DEF LastReference
  <2>2. /\ file' \in [File -> FileRec]
        /\ \A g \in File : SameFile(g) /\ file'[g].ref = IF g = f THEN n ELSE file[g].ref
    BY <1>1, <1>9, <2>1, SetRef, TypesAre
  <2>3. TypeOK'
    BY <1>1, <1>2, <1>6, <1>9, <2>2, TypesAre, TypesAreNext
  <2>4. CountInv'
    BY <1>1, <1>6, <2>1, <2>2 DEF CountInv
  <2>5. EndInv' /\ FlagInv'
    <3>1. \A g \in File : file[g].type = "pipe" => file'[g].ref > 0
      BY <1>1, <2>1, <2>2 DEF EndInv
    <3> QED
      BY <1>1, <1>2, <1>9, <2>2, <3>1, EndsSame DEF SameFile
  <2>6. ASSUME NEW r \in Proc PROVE PlaceInv(r)'
    <3>1. CASE r = p
      <4>1. \A fd \in FD : ofile'[p][fd] # None => file'[ofile'[p][fd]].type = "pipe"
        BY <1>1, <1>6, <2>2, Typed DEF PlaceInv, SameFile
      <4> QED
        BY <1>1, <1>2, <1>9, <3>1, <4>1 DEF PlaceInv, Opening, Closing
    <3>2. CASE r # p
      <4>1. \A g \in File : NewFile(g) => NewFile(g)'
        BY <1>9, <2>2 DEF NewFile, SameFile, LastReference
      <4>2. \A g \in File : file[g].type = "pipe" => file'[g].type = "pipe"
        BY <2>2 DEF SameFile
      <4> QED
        BY <1>1, <1>2, <1>6, <1>9, <3>2, <4>1, <4>2, PlaceSame
    <3> QED
      BY <3>1, <3>2
  <2>7. CallInv'
    <3>1. pc' = [pc EXCEPT ![p] = "close"]
      BY <1>1, <1>2, <1>9, TypesAre
    <3>2. \A r \in Proc : \A e \in FD : ofile[r][e] # None => SameFile(ofile[r][e])
      BY <1>1, <2>2, Typed
    <3> QED
      BY <1>2, <1>6, <1>8, <3>1, <3>2, CallElse
  <2> QED
    BY <2>3, <2>4, <2>5, <2>6, <2>7 DEF Parts
<1>10. CASE /\ LastReference(f)
            /\ file' = [file EXCEPT ![f].ref = 0, ![f].type = "none"]
            /\ file[f].type = "none" /\ UNCHANGED <<closed, pc>>
  <2>1. /\ file' \in [File -> FileRec]
        /\ \A g \in File \ {f} : file'[g] = file[g]
        /\ file'[f].ref = 0 /\ file'[f].type = "none"
    BY <1>1, <1>10, SetClosed, TypesAre
  <2>2. file[f].ref = 1
    BY <1>10 DEF LastReference
  <2>3. TypeOK'
    BY <1>1, <1>2, <1>6, <1>10, <2>1, TypesAre, TypesAreNext
  <2>4. CountInv'
    BY <1>1, <1>6, <2>1, <2>2 DEF CountInv
  <2>5. EndInv' /\ FlagInv'
    <3>1. \A g \in File : file[g].type = "pipe" => SameFile(g) /\ file'[g].ref > 0
      BY <1>1, <1>10, <2>1 DEF EndInv, SameFile
    <3>2. \A g \in File : file'[g].type = file[g].type
      BY <1>10, <2>1
    <3> QED
      BY <1>1, <1>2, <1>10, <3>1, <3>2, EndsSame
  <2>6. ASSUME NEW r \in Proc PROVE PlaceInv(r)'
    <3>1. CASE r = p
      <4>1. \A fd \in FD : ofile'[p][fd] # None => file'[ofile'[p][fd]].type = "pipe"
        BY <1>1, <1>6, <2>1, <2>2, Typed DEF PlaceInv
      <4> QED
        BY <1>1, <1>2, <1>10, <3>1, <4>1 DEF PlaceInv, Opening, Closing
    <3>2. CASE r # p
      <4>1. \A g \in File : (g = rf[r] \/ g = wf[r]) /\ NewFile(g) => NewFile(g)'
        BY <1>6, <2>1, <2>2, <3>2 DEF NewFile
      <4>2. \A g \in File : file[g].type = "pipe" => file'[g].type = "pipe"
        BY <1>10, <2>1
      <4> QED
        BY <1>1, <1>2, <1>6, <1>10, <3>2, <4>1, <4>2, PlaceSame
    <3> QED
      BY <3>1, <3>2
  <2>7. CallInv'
    <3>1. pc' = [pc EXCEPT ![p] = "close"]
      BY <1>1, <1>2, <1>10, TypesAre
    <3>2. \A r \in Proc \ {p} : \A e \in FD : ofile[r][e] # None => SameFile(ofile[r][e])
      BY <1>1, <1>6, <2>1, <2>2, Typed DEF SameFile
    <3> QED
      BY <1>2, <1>6, <1>8, <3>1, <3>2, CallElse
  <2> QED
    BY <2>3, <2>4, <2>5, <2>6, <2>7 DEF Parts
<1>11. CASE /\ LastReference(f)
            /\ file' = [file EXCEPT ![f].ref = 0, ![f].type = "none"]
            /\ file[f].type = "pipe"
            /\ closed' = [closed EXCEPT ![p] = <<file[f].pipe, file[f].writable>>]
            /\ pc' = [pc EXCEPT ![p] = "pipeclose"]
  <2>1. /\ file' \in [File -> FileRec]
        /\ \A g \in File \ {f} : file'[g] = file[g]
        /\ file'[f].ref = 0 /\ file'[f].type = "none"
    BY <1>1, <1>11, SetClosed, TypesAre
  <2>2. file[f].ref = 1
    BY <1>11 DEF LastReference
  <2>3. PICK q \in Pipe, w \in BOOLEAN : q = file[f].pipe /\ w = file[f].writable
    BY <1>1, <1>11, Typed DEF EndInv
  <2>4. TypeOK'
    BY <1>1, <1>2, <1>6, <1>11, <2>1, <2>3, TypesAre, TypesAreNext DEF Pcs
  <2>5. CountInv'
    BY <1>1, <1>6, <2>1, <2>2 DEF CountInv
  <2>6. \A r \in Proc : closed'[r] = IF r = p THEN <<q, w>> ELSE closed[r]
    BY <1>1, <1>11, <2>3, TypesAre
  <2>7. \A g \in File : \A x, y : IsEnd(g, x, y)' <=> g # f /\ IsEnd(g, x, y)
    BY <2>1 DEF IsEnd
  <2>8. \A x, y : IsEnd(f, x, y) <=> <<x, y>> = <<q, w>>
    BY <1>11, <2>3 DEF IsEnd
  <2>9. FlagInv'
    <3>1. ASSUME NEW x \in Pipe, NEW y \in BOOLEAN PROVE End(x, y)' <=> End(x, y)
      <4>1. \A g \in File : IsEnd(g, x, y) => file[g].ref > 0
        BY <1>1 DEF EndInv, IsEnd
      <4>2. \A g \in File : IsEnd(g, x, y)' => file'[g].ref > 0
        BY <2>1, <2>7, <4>1
      <4>3. End(x, y) <=> (\E g \in File : IsEnd(g, x, y)) \/ \E r \in Proc : closed[r] = <<x, y>>
        BY <4>1 DEF End
      <4>4. End(x, y)' <=> (\E g \in File : IsEnd(g, x, y)') \/ \E r \in Proc : closed'[r] = <<x, y>>
        BY <4>2 DEF End
      <4>5. closed[p] # <<x, y>>
        BY <1>1, <1>7, Typed
      <4>6. CASE <<x, y>> = <<q, w>>
        BY <2>6, <2>8, <4>3, <4>4, <4>6
      <4>7. CASE <<x, y>> # <<q, w>>
        BY <2>6, <2>7, <2>8, <4>3, <4>4, <4>5, <4>7
      <4> QED
        BY <4>6, <4>7
    <3> QED
      BY <1>1, <1>2, <3>1 DEF FlagInv
  <2>10. EndInv'
    <3>1. ASSUME NEW g \in File, file'[g].type = "pipe"
          PROVE  /\ g # f /\ file'[g].ref > 0 /\ file'[g].pipe # None
                 /\ \A h \in File : IsEnd(h, file[g].pipe, file[g].writable)' => g = h
                 /\ \A r \in Proc : closed'[r] # <<file'[g].pipe, file'[g].writable>>
      <4>1. g # f /\ file'[g] = file[g]
        BY <2>1, <3>1
      <4>2. \A h \in File : IsEnd(h, file[g].pipe, file[g].writable)' => g = h
        BY <1>1, <2>7, <3>1, <4>1 DEF EndInv
      <4>3. <<q, w>> # <<file[g].pipe, file[g].writable>>
        BY <1>1, <1>11, <2>3, <3>1, <4>1 DEF EndInv, IsEnd
      <4> QED
        BY <1>1, <2>6, <3>1, <4>1, <4>2, <4>3 DEF EndInv
    <3>2. ASSUME NEW r \in Proc, NEW s \in Proc, closed'[r] = closed'[s], closed'[r][1] # None
          PROVE  r = s
      <4>1. \A x \in Proc : closed[x] # <<q, w>>
        BY <1>1, <1>11, <2>3 DEF EndInv
      <4> QED
        BY <1>1, <2>6, <3>2, <4>1 DEF EndInv
    <3>3. ASSUME NEW g \in File, file'[g].type = "pipe", NEW h \in File,
                 IsEnd(h, file[g].pipe, file[g].writable)'
          PROVE  g = h
      BY <3>1, <3>3
    <3>4. \A g \in File : file'[g].type = "pipe" => file'[g] = file[g]
      BY <2>1, <3>1
    <3> QED
      BY <3>1, <3>2, <3>3, <3>4 DEF EndInv, IsEnd
  <2>11. ASSUME NEW r \in Proc PROVE PlaceInv(r)'
    <3>1. CASE r = p
      <4>1. \A fd \in FD : ofile'[p][fd] # None => file'[ofile'[p][fd]].type = "pipe"
        BY <1>1, <1>6, <2>1, <2>2, Typed DEF PlaceInv
      <4>2. closed'[p][1] # None /\ pc'[p] = "pipeclose"
        BY <1>1, <1>11, <2>3, <2>6, Typed, TypesAre
      <4> QED
        BY <1>1, <1>2, <3>1, <4>1, <4>2 DEF PlaceInv, Opening, Closing
    <3>2. CASE r # p
      <4>1. \A g \in File : NewFile(g) => NewFile(g)'
        BY <1>11, <2>1 DEF NewFile
      <4>2. \A g \in File : (\E fd \in FD : ofile[r][fd] = g) /\ file[g].type = "pipe" => file'[g].type = "pipe"
        BY <1>6, <2>1, <2>2, <3>2
      <4>3. pc'[r] = pc[r] /\ closed'[r] = closed[r]
        BY <1>1, <1>11, <2>6, <3>2, TypesAre
      <4> QED
        BY <1>1, <1>2, <1>6, <3>2, <4>1, <4>2, <4>3, PlaceSame
    <3> QED
      BY <3>1, <3>2
  <2>12. CallInv'
    <3>1. \A r \in Proc \ {p} : \A e \in FD : ofile[r][e] # None => SameFile(ofile[r][e])
      BY <1>1, <1>6, <2>1, <2>2, Typed DEF SameFile
    <3> QED
      BY <1>2, <1>6, <1>8, <1>11, <3>1, CallElse
  <2> QED
    BY <2>4, <2>5, <2>9, <2>10, <2>11, <2>12 DEF Parts
<1> QED
  BY <1>5, <1>9, <1>10, <1>11

\* Steps that change no place of a file and no end
LEMMA QuietFiles ==
  ASSUME Parts, UNCHANGED <<file, ofile, rf, wf, closed, used>>,
         \A q \in Pipe : pipe'[q].open = pipe[q].open
  PROVE  CountInv' /\ EndInv' /\ FlagInv'
<1>1. TypeOK /\ CountInv /\ FlagInv /\ EndInv
  BY DEF Parts
<1>2. CountInv'
  BY <1>1, CountSame
<1>3. \A f \in File : SameFile(f) /\ (file[f].type = "pipe" => file'[f].ref > 0)
  BY <1>1 DEF SameFile, EndInv
<1>4. EndInv' /\ FlagInv'
  BY <1>1, <1>3, EndsSame DEF SameFile
<1> QED
  BY <1>2, <1>4

LEMMA QuietPlaces ==
  ASSUME Parts, UNCHANGED <<file, ofile, rf, wf>>, NEW r \in Proc, closed'[r] = closed[r],
         r \in exiting' => r \in exiting,
         \/ pc'[r] = pc[r]
         \/ pc[r] \in {"sleep_read", "sleep_write"} /\ pc'[r] \in {"read", "write"}
  PROVE  PlaceInv(r)'
<1>1. TypeOK /\ PlaceInv(r)
  BY DEF Parts
<1>2. \A f \in File : NewFile(f) => NewFile(f)'
  BY DEF NewFile
<1> QED
  BY <1>1, <1>2, PlaceSame

LEMMA UseStep ==
  ASSUME Parts, NEW p \in Proc, ReadOrWrite(p)
  PROVE  Parts'
<1>1. TypeOK /\ CountInv /\ FlagInv /\ EndInv /\ CallInv /\ \A r \in Proc : PlaceInv(r)
  BY DEF Parts
<1>2. /\ pc[p] = "idle"
      /\ UNCHANGED <<file, ofile, closed, rf, wf, pipe, used, lock, result, killed, exiting, cut>>
  BY DEF ReadOrWrite, Calls, fileVars
<1>3. PICK fd \in FD, n \in 1 .. MaxBytes :
         /\ ofile[p][fd] # None
         /\ call' = [call EXCEPT ![p] = <<file[ofile[p][fd]].pipe, n>>]
         /\ pc' = [pc EXCEPT ![p] = IF file[ofile[p][fd]].writable THEN "write" ELSE "read"]
  BY DEF ReadOrWrite, Goto
<1>4. PICK f \in File : f = ofile[p][fd]
  BY <1>1, <1>3, Typed
<1>5. PICK q \in Pipe, w \in BOOLEAN : q = file[f].pipe /\ w = file[f].writable /\ file[f].type = "pipe"
  BY <1>1, <1>3, <1>4, Typed DEF PlaceInv, EndInv
<1>6. call' = [call EXCEPT ![p] = <<q, n>>] /\ pc' = [pc EXCEPT ![p] = IF w THEN "write" ELSE "read"]
  BY <1>3, <1>4, <1>5
<1>7. TypeOK'
  BY <1>1, <1>2, <1>5, <1>6, PipeAssumption, TypesAre, TypesAreNext DEF Pcs
<1>8. CountInv' /\ EndInv' /\ FlagInv'
  BY <1>2, QuietFiles
<1>9. ASSUME NEW r \in Proc PROVE PlaceInv(r)'
  <2>1. CASE r = p
    <3>1. pc'[p] \in {"read", "write"}
      BY <1>1, <1>6, TypesAre
    <3> QED
      BY <1>1, <1>2, <2>1, <3>1 DEF PlaceInv, Opening, Closing
  <2>2. CASE r # p
    BY <1>1, <1>2, <1>6, <2>2, QuietPlaces, TypesAre
  <2> QED
    BY <2>1, <2>2
<1>10. CallInv'
  <2>1. \A r \in Proc : r # p => pc'[r] = pc[r] /\ call'[r] = call[r]
    BY <1>1, <1>6, TypesAre
  <2>2. pc'[p] = (IF w THEN "write" ELSE "read") /\ call'[p] = <<q, n>>
    BY <1>1, <1>6, TypesAre
  <2>3. \A x \in Pipe : Held(x)' = Held(x) /\ (Free(x)' <=> Free(x))
    BY <1>2 DEF Held, Free
  <2>4. ASSUME NEW r \in Proc, NEW v \in BOOLEAN PROVE UserInv(r, v)'
    <3>1. CASE r = p
      <4>1. Using(p, v)' => v = w
        BY <2>2 DEF Using
      <4>2. IsEnd(ofile[p][fd], q, w)'
        BY <1>2, <1>4, <1>5 DEF IsEnd
      <4> QED
        BY <1>1, <1>2, <1>3, <2>2, <3>1, <4>1, <4>2, Typed DEF UserInv
    <3>2. CASE r # p
      <4>1. Using(r, v)' => Using(r, v)
        BY <2>1, <3>2 DEF Using
      <4>2. UserInv(r, v) /\ \A e \in FD : SameFile(ofile[r][e])
        BY <1>1, <1>2, CallParts DEF SameFile
      <4> QED
        BY <1>2, <2>1, <3>2, <4>1, <4>2, UserSame
    <3> QED
      BY <3>1, <3>2
  <2>5. ASSUME NEW r \in Proc, NEW x \in Pipe PROVE WaitInv(r, x)'
    <3>1. lock[x] # p
      BY <1>1, <1>2 DEF CallInv
    <3>2. WaitInv(r, x)
      BY <1>1, CallParts
    <3> QED
      BY <1>2, <2>1, <2>2, <2>3, <3>1, <3>2 DEF WaitInv
  <2>6. \A x \in Pipe : Held(x)' <= PIPESIZE
    BY <1>1, <2>3 DEF CallInv
  <2> QED
    BY <2>4, <2>5, <2>6, CallPartsNext
<1> QED
  BY <1>7, <1>8, <1>9, <1>10 DEF Parts

LEMMA ExitStep ==
  ASSUME Parts, NEW p \in Proc, Exit(p)
  PROVE  Parts'
<1>1. TypeOK /\ CallInv /\ \A r \in Proc : PlaceInv(r)
  BY DEF Parts
<1>2. /\ pc[p] = "idle" /\ pc' = [pc EXCEPT ![p] = "close"] /\ exiting' = exiting \cup {p}
      /\ UNCHANGED <<file, ofile, closed, rf, wf, pipe, used, lock, call, result, killed, cut>>
  BY DEF Exit, Goto, fileVars
<1>3. TypeOK'
  BY <1>1, <1>2, TypesAre, TypesAreNext DEF Pcs
<1>4. CountInv' /\ EndInv' /\ FlagInv'
  BY <1>2, QuietFiles
<1>5. ASSUME NEW r \in Proc PROVE PlaceInv(r)'
  <2>1. CASE r = p
    <3>1. pc'[p] = "close"
      BY <1>1, <1>2, TypesAre
    <3> QED
      BY <1>1, <1>2, <2>1, <3>1 DEF PlaceInv, Opening, Closing
  <2>2. CASE r # p
    BY <1>1, <1>2, <2>2, QuietPlaces, TypesAre
  <2> QED
    BY <2>1, <2>2
<1>6. CallInv'
  <2>1. Idle(pc[p]) /\ Idle("close")
    BY <1>2 DEF Idle, Pcs
  <2> QED
    BY <1>2, <2>1, CallElse DEF SameFile
<1> QED
  BY <1>3, <1>4, <1>5, <1>6 DEF Parts

LEMMA ClosedStep ==
  ASSUME Parts, NEW p \in Proc, Closed(p)
  PROVE  Parts'
<1>1. TypeOK /\ CallInv /\ \A r \in Proc : PlaceInv(r)
  BY DEF Parts
<1>2. /\ pc[p] = "close" /\ ToClose(p) = {} /\ exiting' = exiting \ {p}
      /\ pc' = [pc EXCEPT ![p] = IF p \in exiting THEN "dead" ELSE "idle"]
      /\ UNCHANGED <<file, ofile, closed, rf, wf, pipe, used, lock, call, result, killed, cut>>
  BY DEF Closed, Goto, fileVars
<1>3. TypeOK'
  BY <1>1, <1>2, TypesAre, TypesAreNext DEF Pcs
<1>4. CountInv' /\ EndInv' /\ FlagInv'
  BY <1>2, QuietFiles
<1>5. ASSUME NEW r \in Proc PROVE PlaceInv(r)'
  <2>1. CASE r = p
    <3>1. pc'[p] = IF p \in exiting THEN "dead" ELSE "idle"
      BY <1>1, <1>2, TypesAre
    <3>2. rf[p] = None /\ wf[p] = None /\ (p \in exiting => \A fd \in FD : ofile[p][fd] = None)
      BY <1>2, Places, RefAt DEF ToClose
    <3> QED
      BY <1>1, <1>2, <2>1, <3>1, <3>2 DEF PlaceInv, Opening, Closing
  <2>2. CASE r # p
    BY <1>1, <1>2, <2>2, QuietPlaces, TypesAre
  <2> QED
    BY <2>1, <2>2
<1>6. CallInv'
  <2>1. Idle(pc[p]) /\ Idle(IF p \in exiting THEN "dead" ELSE "idle")
    BY <1>2 DEF Idle, Pcs
  <2>2. PICK l : l = (IF p \in exiting THEN "dead" ELSE "idle")
    OBVIOUS
  <2> QED
    BY <1>2, <2>1, <2>2, CallElse DEF SameFile
<1> QED
  BY <1>3, <1>4, <1>5, <1>6 DEF Parts

LEMMA KillStep ==
  ASSUME Parts, NEW p \in Proc, Kill(p)
  PROVE  Parts'
<1>1. TypeOK /\ CallInv /\ \A r \in Proc : PlaceInv(r)
  BY DEF Parts
<1>2. /\ killed' = killed \cup {p}
      /\ pc' = [pc EXCEPT ![p] = IF pc[p] = "sleep_read" THEN "read"
                                 ELSE IF pc[p] = "sleep_write" THEN "write" ELSE pc[p]]
      /\ UNCHANGED <<file, ofile, closed, rf, wf, pipe, used, lock, call, result, exiting, cut>>
  BY DEF Kill, Goto, fileVars
<1>3. TypeOK'
  BY <1>1, <1>2, TypesAre, TypesAreNext DEF Pcs
<1>4. CountInv' /\ EndInv' /\ FlagInv'
  BY <1>2, QuietFiles
<1>5. \A r \in Proc : \/ pc'[r] = pc[r] /\ pc[r] \notin {"sleep_read", "sleep_write"}
                      \/ pc'[r] = pc[r] /\ r # p
                      \/ pc[r] = "sleep_read" /\ pc'[r] = "read"
                      \/ pc[r] = "sleep_write" /\ pc'[r] = "write"
  BY <1>1, <1>2, TypesAre
<1>6. \A r \in Proc : PlaceInv(r)'
  BY <1>2, <1>5, QuietPlaces
<1>7. CallInv'
  <2>1. \A r \in Proc, w \in BOOLEAN : Using(r, w)' => Using(r, w)
    BY <1>5 DEF Using
  <2>2. \A r \in Proc : pc'[r] \in {"sleep_write", "sleep_read"} => pc'[r] = pc[r]
    BY <1>5
  <2>3. \A r \in Proc, q \in Pipe : lock[q] = r => pc'[r] = pc[r]
    BY <1>1, <1>5 DEF CallInv
  <2>4. \A q \in Pipe : Held(q)' = Held(q) /\ (q \in cut => q \in cut')
    BY <1>2 DEF Held
  <2>5. \A f : SameFile(f)
    BY <1>2 DEF SameFile
  <2> QED
    BY <1>1, <1>2, <2>1, <2>2, <2>3, <2>4, <2>5, CallSame
<1> QED
  BY <1>3, <1>4, <1>6, <1>7 DEF Parts

LEMMA ForkStep ==
  ASSUME Parts, NEW p \in Proc, Fork(p)
  PROVE  Parts'
<1>1. TypeOK /\ CountInv /\ FlagInv /\ EndInv /\ CallInv /\ \A r \in Proc : PlaceInv(r)
  BY DEF Parts
<1>2. PICK c \in Proc : /\ pc[c] = "dead" /\ ForkFiles(p, c) /\ Goto(c, "idle")
                        /\ killed' = killed \ {c}
  BY DEF Fork
<1>3. pc[p] = "idle" /\ UNCHANGED <<pipe, used, lock, call, exiting, cut>> /\ p # c
  BY <1>2 DEF Fork, Calls
<1> DEFINE more(f) == Cardinality({fd \in FD : ofile[p][fd] = f})
           n == [f \in File |-> file[f].ref + more(f)]
<1>4. /\ ofile' = [ofile EXCEPT ![c] = ofile[p]] /\ pc' = [pc EXCEPT ![c] = "idle"]
      /\ file' = [f \in File |-> [file[f] EXCEPT !.ref = n[f]]]
      /\ UNCHANGED <<closed, rf, wf>>
  BY <1>2 DEF ForkFiles, Goto
<1>5. \A f \in File : more(f) \in Nat
  BY KeepsFinite, FS_Subset, FS_CardinalityType
<1>6. n \in [File -> Nat]
  BY <1>1, <1>5, Typed
<1>7. \A f \in File : n[f] = file[f].ref + more(f)
  OBVIOUS
<1>8. PICK m \in [File -> Nat] : m = n
  BY <1>6
<1> HIDE DEF n
<1>9. file' \in [File -> FileRec] /\ \A g \in File : SameFile(g) /\ file'[g].ref = m[g]
  BY <1>1, <1>4, <1>8, SetAllRefs, TypesAre
<1>10. \A g \in File : SameFile(g) /\ file'[g].ref = file[g].ref + more(g)
  BY <1>7, <1>8, <1>9
<1>11. TypeOK'
  BY <1>1, <1>2, <1>3, <1>4, <1>9, TypesAre, TypesAreNext DEF Pcs
<1>12. \A fd \in FD : ofile[c][fd] = None
  BY <1>1, <1>2 DEF PlaceInv
<1>13. CountInv'
  <2>1. \A k \in FD : Ref(c, k) = None /\ Ref(c, k)' = Ref(p, k)
    BY <1>1, <1>4, <1>12, RefAt, RefAtNext, TypesAre
  <2>2. SameElsewhere({c} \X FD)
    <3> SUFFICES ASSUME NEW r \in Proc, NEW l \in Place, <<r, l>> \notin {c} \X FD
                 PROVE  Ref(r, l)' = Ref(r, l)
      BY DEF SameElsewhere
    <3>1. r # c \/ l \notin FD
      OBVIOUS
    <3> QED
      BY <1>1, <1>4, <3>1, Places, TypesAre DEF Ref
  <2>3. ASSUME NEW f \in File PROVE References(f)' = References(f) + more(f)
    <3>1. References(f)' = References(f) + Cardinality({k \in FD : Ref(p, k) = f})
      BY <2>1, <2>2, Doubled
    <3>2. {k \in FD : Ref(p, k) = f} = {fd \in FD : ofile[p][fd] = f}
      BY RefAt
    <3> QED
      BY <3>1, <3>2
  <2> HIDE DEF more
  <2> QED
    BY <1>1, <1>10, <2>3 DEF CountInv
<1>14. \A g \in File : (file[g].type = "pipe" => file'[g].ref > 0) /\ file'[g].ref >= file[g].ref
  <2> HIDE DEF more
  <2>1. \A g \in File : file[g].ref \in Nat /\ more(g) \in Nat /\ file'[g].ref = file[g].ref + more(g)
    BY <1>1, <1>5, <1>10, Typed
  <2> QED
    BY <1>1, <2>1 DEF EndInv
<1>15. \A g \in File : file[g].type = "none" => file'[g].ref = file[g].ref
  <2>1. ASSUME NEW g \in File, file[g].type = "none" PROVE more(g) = 0
    <3>1. {fd \in FD : ofile[p][fd] = g} = {}
      BY <1>1, <2>1, Typed DEF PlaceInv
    <3> QED
      BY <3>1, FS_EmptySet
  <2> HIDE DEF more
  <2> QED
    BY <1>1, <1>10, <2>1, Typed
<1> HIDE DEF more
<1>16. EndInv' /\ FlagInv'
  BY <1>1, <1>3, <1>4, <1>10, <1>14, EndsSame DEF SameFile
<1>17. ASSUME NEW r \in Proc PROVE PlaceInv(r)'
  <2>1. CASE r = c
    <3>1. pc'[c] = "idle" /\ ofile'[c] = ofile[p] /\ pc[c] = "dead"
      BY <1>1, <1>2, <1>4, TypesAre
    <3>2. rf[c] = None /\ wf[c] = None /\ c \notin exiting
      BY <1>1, <3>1 DEF PlaceInv, Opening, Closing
    <3>3. \A fd \in FD : ofile[p][fd] # None => file'[ofile[p][fd]].type = "pipe"
      BY <1>1, <1>10, Typed DEF PlaceInv, SameFile
    <3> QED
      BY <1>1, <1>3, <1>4, <2>1, <3>1, <3>2, <3>3 DEF PlaceInv, Opening, Closing
  <2>2. CASE r # c
    <3>1. \A g \in File : NewFile(g) => NewFile(g)'
      BY <1>10, <1>15 DEF NewFile, SameFile
    <3>2. \A g \in File : file[g].type = "pipe" => file'[g].type = "pipe"
      BY <1>10 DEF SameFile
    <3> QED
      BY <1>1, <1>3, <1>4, <2>2, <3>1, <3>2, PlaceSame, TypesAre
  <2> QED
    BY <2>1, <2>2
<1>18. CallInv'
  <2>1. Idle(pc[c]) /\ Idle("idle")
    BY <1>2 DEF Idle, Pcs
  <2>2. \A r \in Proc \ {c} : ofile'[r] = ofile[r]
    BY <1>1, <1>4, TypesAre
  <2>3. \A r \in Proc : \A e \in FD : ofile[r][e] # None => SameFile(ofile[r][e])
    BY <1>1, <1>10, Typed
  <2> QED
    BY <1>3, <1>4, <2>1, <2>2, <2>3, CallElse
<1> QED
  BY <1>11, <1>13, <1>16, <1>17, <1>18 DEF Parts

LEMMA SetEnds ==
  ASSUME file \in [File -> FileRec], NEW f \in File, NEW g \in File, f # g, NEW q \in Pipe,
         file' = [file EXCEPT ![f] = [@ EXCEPT !.type = "pipe", !.writable = FALSE, !.pipe = q],
                              ![g] = [@ EXCEPT !.type = "pipe", !.writable = TRUE, !.pipe = q]]
  PROVE  /\ file' \in [File -> FileRec]
         /\ \A h \in File \ {f, g} : file'[h] = file[h]
         /\ file'[f].type = "pipe" /\ ~file'[f].writable /\ file'[f].pipe = q /\ file'[f].ref = file[f].ref
         /\ file'[g].type = "pipe" /\ file'[g].writable /\ file'[g].pipe = q /\ file'[g].ref = file[g].ref
<1>1. file[f] \in FileRec /\ file[g] \in FileRec
  OBVIOUS
<1> DEFINE a == [file[f] EXCEPT !.type = "pipe", !.writable = FALSE, !.pipe = q]
           b == [file[g] EXCEPT !.type = "pipe", !.writable = TRUE, !.pipe = q]
<1>2. a \in FileRec /\ a.type = "pipe" /\ a.writable = FALSE /\ a.pipe = q /\ a.ref = file[f].ref
  BY <1>1 DEF FileRec
<1>3. b \in FileRec /\ b.type = "pipe" /\ b.writable = TRUE /\ b.pipe = q /\ b.ref = file[g].ref
  BY <1>1 DEF FileRec
<1>4. file' = [file EXCEPT ![f] = a, ![g] = b]
  OBVIOUS
<1> HIDE DEF a, b
<1> QED
  BY <1>2, <1>3, <1>4

LEMMA NoPageStep ==
  ASSUME Parts, NEW p \in Proc, pc[p] \in {"alloc_write", "alloc_pipe"}, pc' = [pc EXCEPT ![p] = "close"],
         UNCHANGED <<file, ofile, closed, rf, wf, pipe, used, lock, call, killed, exiting, cut>>
  PROVE  Parts'
<1>1. TypeOK /\ CallInv /\ \A r \in Proc : PlaceInv(r)
  BY DEF Parts
<1>2. TypeOK'
  BY <1>1, TypesAre, TypesAreNext DEF Pcs
<1>3. CountInv' /\ EndInv' /\ FlagInv'
  BY QuietFiles
<1>4. ASSUME NEW r \in Proc PROVE PlaceInv(r)'
  <2>1. CASE r = p
    <3>1. pc'[p] = "close"
      BY <1>1, TypesAre
    <3> QED
      BY <1>1, <2>1, <3>1 DEF PlaceInv, Opening, Closing
  <2>2. CASE r # p
    BY <1>1, <2>2, QuietPlaces, TypesAre
  <2> QED
    BY <2>1, <2>2
<1>5. CallInv'
  <2>1. Idle(pc[p]) /\ Idle("close")
    BY DEF Idle, Pcs
  <2> QED
    BY <2>1, CallElse DEF SameFile
<1> QED
  BY <1>2, <1>3, <1>4, <1>5 DEF Parts

\* Both ends of a new pipe get a descriptor, or none does.
Described(p, f, g) ==
    /\ \A h \in File : References(h)' = References(h)
    /\ ofile' \in [Proc -> [FD -> File \cup {None}]]
    /\ \A r \in Proc \ {p} : ofile'[r] = ofile[r]
    /\ \A fd \in FD : ofile'[p][fd] # None => ofile'[p][fd] \in {ofile[p][fd], f, g}

LEMMA DescribeStep ==
  ASSUME TypeOK, CountInv, NEW p \in Proc, NEW f \in File, NEW g \in File, f # g,
         rf[p] = f, wf[p] = g,
         \/ \E fd0, fd1 \in FreeFds(p) :
              /\ fd0 # fd1
              /\ ofile' = [ofile EXCEPT ![p][fd0] = f, ![p][fd1] = g]
              /\ rf' = [rf EXCEPT ![p] = None] /\ wf' = [wf EXCEPT ![p] = None]
         \/ UNCHANGED <<ofile, rf, wf>>
  PROVE  Described(p, f, g)
<1>1. CASE UNCHANGED <<ofile, rf, wf>>
  BY <1>1, Unmoved, TypesAre DEF Described
<1>2. ASSUME NEW fd0 \in FreeFds(p), NEW fd1 \in FreeFds(p), fd0 # fd1,
             ofile' = [ofile EXCEPT ![p][fd0] = f, ![p][fd1] = g],
             rf' = [rf EXCEPT ![p] = None], wf' = [wf EXCEPT ![p] = None]
      PROVE  Described(p, f, g)
  <2>1. fd0 \in FD /\ fd1 \in FD /\ fd0 # fd1 /\ ofile[p][fd0] = None /\ ofile[p][fd1] = None
    BY <1>2 DEF FreeFds
  <2>2. ofile' \in [Proc -> [FD -> File \cup {None}]]
    BY <1>2, <2>1, TypesAre
  <2>3. \A r \in Proc \ {p} : ofile'[r] = ofile[r] /\ rf'[r] = rf[r] /\ wf'[r] = wf[r]
    BY <1>2, TypesAre
  <2>4. \A fd \in FD : ofile'[p][fd] = IF fd = fd0 THEN f ELSE IF fd = fd1 THEN g ELSE ofile[p][fd]
    BY <1>2, <2>1, TypesAre
  <2>5. rf'[p] = None /\ wf'[p] = None
    BY <1>2, TypesAre
  <2>6. \A r \in Proc, l \in Place :
          <<r, l>> \notin {<<p, RF>>, <<p, WF>>, <<p, fd0>>, <<p, fd1>>} => Ref(r, l)' = Ref(r, l)
    <3> SUFFICES ASSUME NEW r \in Proc, NEW l \in Place,
                        <<r, l>> \notin {<<p, RF>>, <<p, WF>>, <<p, fd0>>, <<p, fd1>>}
                 PROVE  Ref(r, l)' = Ref(r, l)
      OBVIOUS
    <3>1. CASE r # p
      BY <2>3, <3>1, Places, RefAt, RefAtNext
    <3>2. CASE r = p
      BY <2>4, <3>2, Places, RefAt, RefAtNext
    <3> QED
      BY <3>1, <3>2
  <2>7. /\ Ref(p, RF) = f /\ Ref(p, WF) = g /\ Ref(p, fd0) = None /\ Ref(p, fd1) = None
        /\ Ref(p, RF)' = None /\ Ref(p, WF)' = None /\ Ref(p, fd0)' = f /\ Ref(p, fd1)' = g
    <3>1. Ref(p, RF) = f /\ Ref(p, WF) = g /\ Ref(p, fd0) = None /\ Ref(p, fd1) = None
      BY <2>1, RefAt
    <3>2. Ref(p, RF)' = None /\ Ref(p, WF)' = None
      BY <2>5, RefAtNext
    <3>3. Ref(p, fd0)' = f
      BY <2>1, <2>4, RefAtNext
    <3>4. Ref(p, fd1)' = g
      <4>1. ofile'[p][fd1] = g
        BY <2>1, <2>4
      <4> QED
        BY <2>1, <4>1, RefAtNext
    <3> QED
      BY <3>1, <3>2, <3>3, <3>4
  <2>8. /\ RF \in Place /\ WF \in Place /\ fd0 \in Place /\ fd1 \in Place
        /\ RF # fd0 /\ RF # fd1 /\ WF # fd0 /\ WF # fd1 /\ RF # WF
        /\ None \notin File
    BY <2>1, Places, Typed
  <2>9. References(f)' = References(f)
    <3>1. \A r \in Proc, m \in Place : <<r, m>> \notin {<<p, RF>>, <<p, fd0>>} =>
             (Ref(r, m)' = f <=> Ref(r, m) = f)
      BY <2>6, <2>7, <2>8
    <3> QED
      BY <2>7, <2>8, <3>1, OneMoved
  <2>10. References(g)' = References(g)
    <3>1. \A r \in Proc, m \in Place : <<r, m>> \notin {<<p, WF>>, <<p, fd1>>} =>
             (Ref(r, m)' = g <=> Ref(r, m) = g)
      BY <2>6, <2>7, <2>8
    <3> QED
      BY <2>7, <2>8, <3>1, OneMoved
  <2>11. ASSUME NEW h \in File \ {f, g} PROVE References(h)' = References(h)
    <3>1. \A r \in Proc, m \in Place : Ref(r, m)' = h <=> Ref(r, m) = h
      BY <2>6, <2>7, <2>8
    <3>2. Keeps(h)' = Keeps(h)
      BY <3>1 DEF Keeps
    <3> QED
      BY <3>2, KeepsFinite, RefsNext
  <2> QED
    BY <2>2, <2>3, <2>4, <2>9, <2>10, <2>11 DEF Described
<1> QED
  BY <1>1, <1>2

LEMMA PipeStep ==
  ASSUME Parts, NEW p \in Proc, AllocPipe(p)
  PROVE  Parts'
<1>1. TypeOK /\ CountInv /\ FlagInv /\ EndInv /\ CallInv /\ \A r \in Proc : PlaceInv(r)
  BY DEF Parts
<1>2. pc[p] = "alloc_pipe" /\ UNCHANGED <<closed, lock, call, result, killed, exiting>>
  BY DEF AllocPipe
<1>3. CASE NoPage(p) /\ UNCHANGED <<pipe, used, cut>>
  BY <1>2, <1>3, NoPageStep DEF NoPage, Goto
<1>4. ASSUME NEW q \in Pipe \ used, OpenEnds(p, q), used' = used \cup {q},
             pipe' = [pipe EXCEPT ![q] = NewPipe(@.data)], cut' = cut \ {q}
      PROVE  Parts'
  <2>1. PICK f \in File, g \in File : f = rf[p] /\ g = wf[p]
    BY <1>1, <1>2, Typed DEF PlaceInv, Opening, NewFile
  <2>2. f # g /\ NewFile(f) /\ NewFile(g) /\ p \notin exiting
    BY <1>1, <1>2, <2>1 DEF PlaceInv, Opening, Closing
  <2>3. file' = [file EXCEPT ![f] = [@ EXCEPT !.type = "pipe", !.writable = FALSE, !.pipe = q],
                             ![g] = [@ EXCEPT !.type = "pipe", !.writable = TRUE, !.pipe = q]]
    BY <1>4, <2>1 DEF OpenEnds
  <2>4. /\ file' \in [File -> FileRec]
        /\ \A h \in File \ {f, g} : file'[h] = file[h]
        /\ file'[f].type = "pipe" /\ ~file'[f].writable /\ file'[f].pipe = q /\ file'[f].ref = file[f].ref
        /\ file'[g].type = "pipe" /\ file'[g].writable /\ file'[g].pipe = q /\ file'[g].ref = file[g].ref
    BY <1>1, <2>2, <2>3, SetEnds, TypesAre
  <2>5. \/ /\ \E fd0, fd1 \in FreeFds(p) :
                /\ fd0 # fd1
                /\ ofile' = [ofile EXCEPT ![p][fd0] = f, ![p][fd1] = g]
           /\ rf' = [rf EXCEPT ![p] = None] /\ wf' = [wf EXCEPT ![p] = None]
           /\ pc' = [pc EXCEPT ![p] = "idle"]
        \/ UNCHANGED <<ofile, rf, wf>> /\ pc' = [pc EXCEPT ![p] = "close"]
    <3>1. \A fd0, fd1 \in FreeFds(p) : fd0 < fd1 => fd0 # fd1
      BY Places DEF FreeFds
    <3> QED
      BY <1>4, <2>1, <3>1 DEF OpenEnds, Goto
  <2>6. /\ \A h \in File : References(h)' = References(h)
        /\ ofile' \in [Proc -> [FD -> File \cup {None}]]
        /\ \A r \in Proc \ {p} : ofile'[r] = ofile[r]
        /\ \A fd \in FD : ofile'[p][fd] # None => ofile'[p][fd] \in {ofile[p][fd], f, g}
    <3>1. \/ \E fd0, fd1 \in FreeFds(p) :
               /\ fd0 # fd1
               /\ ofile' = [ofile EXCEPT ![p][fd0] = f, ![p][fd1] = g]
               /\ rf' = [rf EXCEPT ![p] = None] /\ wf' = [wf EXCEPT ![p] = None]
          \/ UNCHANGED <<ofile, rf, wf>>
      BY <2>5
    <3>2. Described(p, f, g)
      BY <1>1, <2>1, <2>2, <3>1, DescribeStep
    <3> QED
      BY <3>2 DEF Described
  <2>7. \A r \in Proc \ {p} : rf'[r] = rf[r] /\ wf'[r] = wf[r]
    BY <1>1, <2>5, TypesAre
  <2>8. rf' \in [Proc -> File \cup {None}] /\ wf' \in [Proc -> File \cup {None}]
        /\ \E l \in {"idle", "close"} : pc' = [pc EXCEPT ![p] = l]
    BY <1>1, <2>5, TypesAre
  <2>9. \A x \in Pipe : pipe'[x] = IF x = q THEN NewPipe(pipe[q].data) ELSE pipe[x]
    BY <1>1, <1>4, TypesAre
  <2>10. NewPipe(pipe[q].data) \in PipeRec /\ NewPipe(pipe[q].data).open = {"read", "write"}
         /\ NewPipe(pipe[q].data).nread = 0 /\ NewPipe(pipe[q].data).nwrite = 0
    BY <1>1, Typed, PipeAssumption DEF NewPipe, PipeRec
  <2>11. TypeOK'
    <3>1. pipe' \in [Pipe -> PipeRec]
      BY <1>1, <1>4, <2>10, TypesAre
    <3>2. pc' \in [Proc -> Pcs]
      BY <1>1, <2>8, TypesAre DEF Pcs
    <3> QED
      BY <1>1, <1>2, <1>4, <2>4, <2>6, <2>8, <3>1, <3>2, TypesAre, TypesAreNext
  <2>12. CountInv'
    <3>1. \A h \in File : file'[h].ref = file[h].ref
      BY <2>4
    <3> QED
      BY <1>1, <2>6, <3>1 DEF CountInv
  <2>13. \A w \in BOOLEAN : ~End(q, w)
    BY <1>1, <1>4 DEF FlagInv
  <2>14. /\ \A h \in File : \A w \in BOOLEAN : ~IsEnd(h, q, w)
         /\ \A r \in Proc : \A w \in BOOLEAN : closed[r] # <<q, w>>
    BY <1>1, <2>13 DEF End, IsEnd, EndInv
  <2>15. \A h \in File : \A x, w : w \in BOOLEAN =>
           (IsEnd(h, x, w)' <=> \/ IsEnd(h, x, w) /\ h \notin {f, g}
                                \/ h = f /\ x = q /\ w = FALSE
                                \/ h = g /\ x = q /\ w = TRUE)
    <3> SUFFICES ASSUME NEW h \in File, NEW x, NEW w \in BOOLEAN
                 PROVE  IsEnd(h, x, w)' <=> \/ IsEnd(h, x, w) /\ h \notin {f, g}
                                            \/ h = f /\ x = q /\ w = FALSE
                                            \/ h = g /\ x = q /\ w = TRUE
      OBVIOUS
    <3>1. file'[f].writable \in BOOLEAN /\ file'[g].writable \in BOOLEAN
      BY <2>4 DEF FileRec
    <3>2. CASE h = f
      BY <2>2, <2>4, <3>1, <3>2 DEF IsEnd
    <3>3. CASE h = g
      BY <2>2, <2>4, <3>1, <3>3 DEF IsEnd
    <3>4. CASE h \notin {f, g}
      BY <2>4, <3>4 DEF IsEnd
    <3> QED
      BY <3>2, <3>3, <3>4
  <2>16. \A h \in {f, g} : \A x, w : ~IsEnd(h, x, w)
    BY <2>2 DEF NewFile, IsEnd
  <2>17. FlagInv'
    <3> SUFFICES ASSUME NEW x \in Pipe, NEW w \in BOOLEAN
                 PROVE  End(x, w)' <=> x \in used' /\ Flag(w) \in pipe'[x].open
      BY DEF FlagInv, Flag
    <3>1. \A h \in File : IsEnd(h, x, w)' => file'[h].ref > 0
      BY <1>1, <2>2, <2>4, <2>15 DEF EndInv, IsEnd, NewFile
    <3>2. \A h \in File : IsEnd(h, x, w) => file[h].ref > 0
      BY <1>1 DEF EndInv, IsEnd
    <3>3. CASE x = q
      <4>1. End(q, w)'
        BY <2>15, <3>1, <3>3 DEF End
      <4>2. Flag(w) \in {"read", "write"}
        BY DEF Flag
      <4> QED
        BY <1>4, <2>9, <2>10, <3>3, <4>1, <4>2
    <3>4. CASE x # q
      <4>1. \A h \in File : IsEnd(h, x, w)' <=> IsEnd(h, x, w)
        BY <2>15, <2>16, <3>4
      <4>2. End(x, w)' <=> End(x, w)
        BY <1>2, <3>1, <3>2, <4>1 DEF End
      <4> QED
        BY <1>1, <1>4, <2>9, <3>4, <4>2 DEF FlagInv
    <3> QED
      BY <3>3, <3>4
  <2>18. EndInv'
    <3>1. ASSUME NEW h \in File, file'[h].type = "pipe"
          PROVE  /\ file'[h].ref > 0 /\ file'[h].pipe # None
                 /\ \A r \in Proc : closed'[r] # <<file'[h].pipe, file'[h].writable>>
      <4>1. CASE h \in {f, g}
        <5>1. file'[h].ref = 1 /\ file'[h].pipe = q
          BY <2>2, <2>4, <4>1 DEF NewFile
        <5>2. file'[h].writable \in BOOLEAN
          BY <2>4 DEF FileRec
        <5>3. q # None
          BY <1>1, Typed
        <5> QED
          BY <1>2, <2>14, <5>1, <5>2, <5>3
      <4>2. CASE h \notin {f, g}
        BY <1>1, <1>2, <2>4, <3>1, <4>2 DEF EndInv
      <4> QED
        BY <4>1, <4>2
    <3>2. ASSUME NEW h \in File, NEW k \in File, file'[h].type = "pipe", IsEnd(k, file[h].pipe, file[h].writable)'
          PROVE  h = k
      <4>1. file'[h].writable \in BOOLEAN
        BY <2>4 DEF FileRec
      <4>2. IsEnd(h, file[h].pipe, file[h].writable)'
        BY <3>2 DEF IsEnd
      <4>3. PICK x, w : x = file'[h].pipe /\ w = file'[h].writable
        OBVIOUS
      <4>4. IsEnd(h, x, w)' /\ IsEnd(k, x, w)'
        BY <3>2, <4>2, <4>3 DEF IsEnd
      <4>5. CASE x = q
        BY <2>14, <2>15, <4>1, <4>3, <4>4, <4>5
      <4>6. CASE x # q
        <5>1. IsEnd(h, x, w) /\ IsEnd(k, x, w)
          BY <2>15, <4>1, <4>3, <4>4, <4>6
        <5> QED
          BY <1>1, <5>1 DEF EndInv, IsEnd
      <4> QED
        BY <4>5, <4>6
    <3>3. \A r, s \in Proc : closed'[r] = closed'[s] /\ closed'[r][1] # None => r = s
      BY <1>1, <1>2 DEF EndInv
    <3> QED
      BY <3>1, <3>2, <3>3 DEF EndInv, IsEnd
  <2>19. ASSUME NEW r \in Proc PROVE PlaceInv(r)'
    <3>1. CASE r = p
      <4>1. \A fd \in FD : ofile'[p][fd] # None => file'[ofile'[p][fd]].type = "pipe"
        <5> SUFFICES ASSUME NEW fd \in FD, ofile'[p][fd] # None PROVE file'[ofile'[p][fd]].type = "pipe"
          OBVIOUS
        <5>1. CASE ofile'[p][fd] \in {f, g}
          BY <2>4, <5>1
        <5>2. CASE ofile'[p][fd] = ofile[p][fd] /\ ofile'[p][fd] \notin {f, g}
          BY <1>1, <2>4, <5>2, Typed DEF PlaceInv
        <5> QED
          BY <2>6, <5>1, <5>2
      <4>2. \/ pc'[p] = "idle" /\ rf'[p] = None /\ wf'[p] = None
            \/ pc'[p] = "close"
        BY <1>1, <2>5, TypesAre
      <4> QED
        BY <1>1, <1>2, <2>2, <3>1, <4>1, <4>2 DEF PlaceInv, Opening, Closing
    <3>2. CASE r # p
      <4>1. f # rf[r] /\ f # wf[r] /\ g # rf[r] /\ g # wf[r]
        BY <1>1, <2>1, <2>2, <3>2, Places, RefAt, Sole DEF NewFile
      <4>2. \A h \in File : (h = rf[r] \/ h = wf[r]) /\ NewFile(h) => NewFile(h)'
        BY <2>4, <4>1 DEF NewFile
      <4>3. \A h \in File : file[h].type = "pipe" => file'[h].type = "pipe"
        BY <2>4
      <4>4. pc'[r] = pc[r]
        BY <1>1, <2>8, <3>2, TypesAre
      <4> QED
        BY <1>1, <1>2, <2>6, <2>7, <3>2, <4>2, <4>3, <4>4, PlaceSame
    <3> QED
      BY <3>1, <3>2
  <2>20. CallInv'
    <3>1. \A x \in Pipe : \/ Held(x)' = Held(x) /\ (x \in cut => x \in cut')
                          \/ /\ Held(x)' = 0
                             /\ \A r \in Proc, w \in BOOLEAN : Using(r, w) => call[r][1] # x
      <4> SUFFICES ASSUME NEW x \in Pipe
                   PROVE  \/ Held(x)' = Held(x) /\ (x \in cut => x \in cut')
                          \/ /\ Held(x)' = 0
                             /\ \A r \in Proc, w \in BOOLEAN : Using(r, w) => call[r][1] # x
        OBVIOUS
      <4>1. CASE x # q
        BY <1>4, <2>9, <4>1 DEF Held
      <4>2. CASE x = q
        <5>1. Held(q)' = (0 - 0) % Width
          BY <2>9, <2>10 DEF Held
        <5>2. (0 - 0) % Width = 0
          BY PipeAssumption, ModSmall
        <5>3. \A r \in Proc, w \in BOOLEAN : Using(r, w) => call[r][1] # q
          BY <1>1, <1>4, UserHasEnd
        <5> QED
          BY <4>2, <5>1, <5>2, <5>3
      <4> QED
        BY <4>1, <4>2
    <3>2. PICK l \in {"idle", "close"} : pc' = [pc EXCEPT ![p] = l]
      BY <2>8
    <3>3. \A r \in Proc : pc'[r] = IF r = p THEN l ELSE pc[r]
      BY <1>1, <3>2, TypesAre
    <3>4. \A r \in Proc, w \in BOOLEAN : Using(r, w)' => Using(r, w) /\ r # p
      BY <3>3 DEF Using
    <3>5. \A r \in Proc, x \in Pipe : lock[x] = r => pc'[r] = pc[r]
      BY <1>1, <1>2, <3>3 DEF CallInv
    <3>6. \A r \in Proc : \A fd \in FD : ofile[r][fd] # None /\ file[ofile[r][fd]].type = "pipe" =>
             SameFile(ofile[r][fd])
      BY <1>1, <2>2, <2>4, Typed DEF SameFile, NewFile
    <3>7. \A r \in Proc : pc'[r] \in {"sleep_write", "sleep_read"} => pc'[r] = pc[r]
      BY <3>3
    <3> QED
      BY <1>1, <1>2, <2>6, <3>1, <3>4, <3>5, <3>6, <3>7, CallSame
  <2> QED
    BY <2>11, <2>12, <2>17, <2>18, <2>19, <2>20 DEF Parts
<1> QED
  BY <1>3, <1>4 DEF AllocPipe

\* wakeup(&pi->nread) or wakeup(&pi->nwrite): nobody goes on sleeping there.
LEMMA Woken ==
  ASSUME TypeOK, NEW p \in Proc, NEW q, NEW sleep \in {"sleep_read", "sleep_write"}, NEW l,
         WakeAndGoto(q, sleep, p, l)
  PROVE  /\ pc'[p] = l
         /\ \A r \in Proc \ {p} : \/ pc'[r] = pc[r] /\ ~(pc[r] = sleep /\ call[r][1] = q)
                                  \/ pc[r] = "sleep_read" /\ pc'[r] = "read"
                                  \/ pc[r] = "sleep_write" /\ pc'[r] = "write"
BY DEF WakeAndGoto

LEMMA PipecloseStep ==
  ASSUME Parts, NEW p \in Proc, Pipeclose(p)
  PROVE  Parts'
<1>1. TypeOK /\ CountInv /\ FlagInv /\ EndInv /\ CallInv /\ \A r \in Proc : PlaceInv(r)
  BY DEF Parts
<1>2. pc[p] = "pipeclose" /\ UNCHANGED <<file, ofile, rf, wf, lock, call, result, killed, exiting, cut>>
  BY DEF Pipeclose
<1>3. PICK q \in Pipe, w \in BOOLEAN : closed[p] = <<q, w>>
  <2>1. closed[p][1] # None /\ closed[p] \in (Pipe \cup {None}) \X BOOLEAN
    BY <1>1, <1>2, TypesAre DEF PlaceInv
  <2> QED
    BY <2>1
<1>4. PICK o : o = pipe[q].open \ {Flag(w)}
  OBVIOUS
<1>5. /\ pipe' = [pipe EXCEPT ![q].open = o]
      /\ used' = IF o = {} THEN used \ {q} ELSE used
      /\ WakeAndGoto(q, IF w THEN "sleep_read" ELSE "sleep_write", p, "close")
      /\ closed' = [closed EXCEPT ![p] = <<None, FALSE>>]
  BY <1>3, <1>4 DEF Pipeclose, ClosedEnd, Flag
<1>6. /\ pc'[p] = "close"
      /\ \A r \in Proc \ {p} : \/ pc'[r] = pc[r]
                               \/ pc[r] = "sleep_read" /\ pc'[r] = "read"
                               \/ pc[r] = "sleep_write" /\ pc'[r] = "write"
  BY <1>1, <1>5, Woken
<1>7. \A r \in Proc : closed'[r] = IF r = p THEN <<None, FALSE>> ELSE closed[r]
  BY <1>1, <1>5, TypesAre
<1>8. \A x \in Pipe : /\ pipe'[x].open = IF x = q THEN o ELSE pipe[x].open
                      /\ pipe'[x].nread = pipe[x].nread /\ pipe'[x].nwrite = pipe[x].nwrite
  BY <1>1, <1>5, TypesAre DEF PipeRec
<1>9. TypeOK'
  <2>1. pipe' \in [Pipe -> PipeRec]
    <3>1. pipe[q] \in PipeRec /\ o \in SUBSET {"read", "write"}
      BY <1>1, <1>4, TypesAre DEF PipeRec
    <3>2. [pipe[q] EXCEPT !.open = o] \in PipeRec
      BY <3>1 DEF PipeRec
    <3>3. pipe' = [pipe EXCEPT ![q] = [pipe[q] EXCEPT !.open = o]]
      BY <1>5
    <3> QED
      BY <1>1, <3>2, <3>3, TypesAre
  <2>2. pc' \in [Proc -> Pcs]
    BY <1>1, <1>5, TypesAre, WakeTypes DEF Pcs
  <2>3. closed' \in [Proc -> (Pipe \cup {None}) \X BOOLEAN] /\ used' \subseteq Pipe
    BY <1>1, <1>5, TypesAre
  <2> QED
    BY <1>1, <1>2, <2>1, <2>2, <2>3, TypesAre, TypesAreNext
<1>10. CountInv'
  BY <1>1, <1>2, CountSame
<1>11. EndInv'
  <2>1. \A x, y \in Proc : closed'[x] = closed'[y] /\ closed'[x][1] # None => x = y
    BY <1>1, <1>7 DEF EndInv
  <2>2. \A f \in File : file[f].type = "pipe" => \A r \in Proc : closed'[r] # <<file[f].pipe, file[f].writable>>
    BY <1>1, <1>7 DEF EndInv
  <2> QED
    BY <1>1, <1>2, <2>1, <2>2 DEF EndInv, IsEnd
<1>12. FlagInv'
  <2> SUFFICES ASSUME NEW x \in Pipe, NEW v \in BOOLEAN
               PROVE  End(x, v)' <=> x \in used' /\ Flag(v) \in pipe'[x].open
    BY DEF FlagInv, Flag
  <2>1. End(x, v)' <=> \/ \E f \in File : file[f].ref > 0 /\ IsEnd(f, x, v)
                       \/ \E r \in Proc : closed'[r] = <<x, v>>
    BY <1>2 DEF End, IsEnd
  <2>2. None # x
    BY <1>1, Typed
  <2>3. CASE <<x, v>> = <<q, w>>
    <3>1. ~ \E f \in File : IsEnd(f, q, w)
      BY <1>1, <1>3 DEF EndInv, IsEnd
    <3>2. \A r \in Proc : r # p => closed[r] # <<q, w>>
      <4>1. closed[p][1] # None
        BY <1>1, <1>3, Typed
      <4> QED
        BY <1>1, <1>3, <4>1 DEF EndInv
    <3>3. ~End(x, v)'
      BY <1>7, <2>1, <2>2, <2>3, <3>1, <3>2
    <3>4. Flag(v) \notin pipe'[x].open
      BY <1>4, <1>8, <2>3
    <3> QED
      BY <3>3, <3>4
  <2>4. CASE <<x, v>> # <<q, w>>
    <3>1. End(x, v)' <=> End(x, v)
      BY <1>3, <1>7, <2>1, <2>2, <2>4 DEF End
    <3>2. CASE x # q
      BY <1>1, <1>5, <1>8, <3>1, <3>2 DEF FlagInv
    <3>3. CASE x = q
      <4>1. v # w /\ Flag(v) # Flag(w)
        BY <2>4, <3>3 DEF Flag
      <4>2. Flag(v) \in o <=> Flag(v) \in pipe[q].open
        BY <1>4, <4>1
      <4> QED
        BY <1>1, <1>5, <1>8, <3>1, <3>3, <4>2 DEF FlagInv
    <3> QED
      BY <3>2, <3>3
  <2> QED
    BY <2>3, <2>4
<1>13. ASSUME NEW r \in Proc PROVE PlaceInv(r)'
  <2>1. CASE r = p
    BY <1>1, <1>2, <1>6, <1>7, <2>1 DEF PlaceInv, Opening, Closing
  <2>2. CASE r # p
    BY <1>2, <1>6, <1>7, <2>2, QuietPlaces
  <2> QED
    BY <2>1, <2>2
<1>14. CallInv'
  <2>1. \A r \in Proc, v \in BOOLEAN : Using(r, v)' => Using(r, v)
    BY <1>6 DEF Using
  <2>2. \A r \in Proc : pc'[r] \in {"sleep_write", "sleep_read"} => pc'[r] = pc[r]
    BY <1>6
  <2>3. \A r \in Proc, x \in Pipe : lock[x] = r => pc'[r] = pc[r]
    BY <1>1, <1>2, <1>6 DEF CallInv
  <2>4. \A x \in Pipe : Held(x)' = Held(x) /\ (x \in cut => x \in cut')
    BY <1>2, <1>8 DEF Held
  <2>5. \A f : SameFile(f)
    BY <1>2 DEF SameFile
  <2> QED
    BY <1>1, <1>2, <2>1, <2>2, <2>3, <2>4, <2>5, CallSame
<1> QED
  BY <1>9, <1>10, <1>11, <1>12, <1>13, <1>14 DEF Parts

-----------------------------------------------------------------------------
(* The ring buffer *)

LEMMA ModDiff ==
  ASSUME NEW r \in 0 .. Width - 1, NEW w \in 0 .. Width - 1
  PROVE  (w - r) % Width = IF r <= w THEN w - r ELSE w - r + Width
<1> DEFINE a == w - r
<1>1. Width \in Nat \ {0} /\ a \in Int
  BY PipeAssumption
<1>2. /\ 0 <= a /\ a < Width => a % Width = a
      /\ -Width <= a /\ a < 0 => a % Width = a + Width
  BY <1>1, ModSmall
<1> QED
  BY <1>1, <1>2

LEMMA ModSum ==
  ASSUME NEW a \in Nat, a < 2 * Width
  PROVE  a % Width = IF a < Width THEN a ELSE a - Width
<1>1. Width \in Nat \ {0} /\ a \in Int
  BY PipeAssumption
<1>2. /\ 0 <= a /\ a < Width => a % Width = a
      /\ Width <= a /\ a < 2 * Width => a % Width = a - Width
  BY <1>1, ModSmall
<1> QED
  BY <1>1, <1>2

\* nwrite and nread advance modulo Width.
LEMMA OneWritten ==
  ASSUME NEW r \in 0 .. Width - 1, NEW w \in 0 .. Width - 1, (w - r) % Width < Width - 1
  PROVE  /\ (w + 1) % Width \in 0 .. Width - 1
         /\ (((w + 1) % Width) - r) % Width = ((w - r) % Width) + 1
<1>1. Width \in Nat \ {0} /\ r \in Int /\ w \in Int
  BY PipeAssumption
<1>2. (w - r) % Width = IF r <= w THEN w - r ELSE w - r + Width
  BY ModDiff
<1>3. PICK v \in Int : v = (w + 1) % Width /\ v = IF w + 1 < Width THEN w + 1 ELSE 0
  <2> DEFINE a == w + 1
  <2>1. a \in Nat /\ a < 2 * Width
    BY <1>1
  <2> HIDE DEF a
  <2>2. a % Width = IF a < Width THEN a ELSE a - Width
    BY <2>1, ModSum
  <2> QED
    BY <1>1, <2>1, <2>2 DEF a
<1>4. v \in 0 .. Width - 1
  BY <1>1, <1>3
<1>5. (v - r) % Width = IF r <= v THEN v - r ELSE v - r + Width
  BY <1>4, ModDiff
<1>6. (v - r) % Width = ((w - r) % Width) + 1
  BY <1>1, <1>2, <1>3, <1>5
<1> QED
  BY <1>3, <1>4, <1>6

LEMMA ManyRead ==
  ASSUME NEW r \in 0 .. Width - 1, NEW w \in 0 .. Width - 1, NEW j \in Nat, j <= (w - r) % Width
  PROVE  /\ (r + j) % Width \in 0 .. Width - 1
         /\ (r + j) % Width = IF r + j < Width THEN r + j ELSE r + j - Width
         /\ (w - ((r + j) % Width)) % Width = ((w - r) % Width) - j
<1>1. Width \in Nat \ {0} /\ r \in Int /\ w \in Int
  BY PipeAssumption
<1>2. (w - r) % Width = IF r <= w THEN w - r ELSE w - r + Width
  BY ModDiff
<1>3. PICK v \in Int : v = (r + j) % Width /\ v = IF r + j < Width THEN r + j ELSE r + j - Width
  <2> DEFINE a == r + j
  <2>1. a \in Nat /\ a < 2 * Width
    BY <1>1, <1>2
  <2> HIDE DEF a
  <2>2. a % Width = IF a < Width THEN a ELSE a - Width
    BY <2>1, ModSum
  <2> QED
    BY <1>1, <2>1, <2>2 DEF a
<1>4. v \in 0 .. Width - 1
  BY <1>1, <1>2, <1>3
<1>5. (w - v) % Width = IF v <= w THEN w - v ELSE w - v + Width
  BY <1>4, ModDiff
<1>6. (w - v) % Width = ((w - r) % Width) - j
  BY <1>1, <1>2, <1>3, <1>5
<1> QED
  BY <1>3, <1>4, <1>6

\* A step of one reader or writer, besides what it does to the ring buffer
LEMMA UserStep ==
  ASSUME Parts, NEW p \in Proc, NEW w \in BOOLEAN, Using(p, w),
         UNCHANGED <<file, ofile, rf, wf, closed, used, exiting>>,
         \A q \in Pipe : pipe'[q].open = pipe[q].open,
         \A r \in Proc \ {p} : /\ call'[r] = call[r]
                               /\ \/ pc'[r] = pc[r]
                                  \/ pc[r] = "sleep_read" /\ pc'[r] = "read"
                                  \/ pc[r] = "sleep_write" /\ pc'[r] = "write",
         \/ pc'[p] = "idle"
         \/ /\ Using(p, w)'
            /\ call'[p] = call[p] \/ (w /\ call'[p][1] = call[p][1])
  PROVE  /\ CountInv' /\ EndInv' /\ FlagInv'
         /\ \A r \in Proc : PlaceInv(r)'
         /\ \A r \in Proc, v \in BOOLEAN : UserInv(r, v)'
<1>1. TypeOK /\ CountInv /\ FlagInv /\ EndInv /\ CallInv /\ \A r \in Proc : PlaceInv(r)
  BY DEF Parts
<1>2. CountInv' /\ EndInv' /\ FlagInv'
  BY QuietFiles
<1>3. ASSUME NEW r \in Proc PROVE PlaceInv(r)'
  <2>1. CASE r = p
    <3>1. pc[p] \in {"read", "write", "sleep_read", "sleep_write"}
          /\ pc'[p] \in {"idle", "read", "write", "sleep_read", "sleep_write"}
      BY DEF Using
    <3> QED
      BY <1>1, <2>1, <3>1 DEF PlaceInv, Opening, Closing
  <2>2. CASE r # p
    BY <2>2, QuietPlaces
  <2> QED
    BY <2>1, <2>2
<1>4. ASSUME NEW r \in Proc, NEW v \in BOOLEAN PROVE UserInv(r, v)'
  <2>1. UserInv(r, v) /\ \A f : SameFile(f)
    BY <1>1, CallParts DEF SameFile
  <2>2. CASE r = p
    <3>1. Using(p, v)' => v = w /\ pc'[p] # "idle"
      BY DEF Using
    <3>2. Using(p, v)' => Using(p, v) /\ (call'[p] = call[p] \/ (v /\ call'[p][1] = call[p][1]))
      BY <3>1
    <3> QED
      BY <2>1, <2>2, <3>2, UserSame
  <2>3. CASE r # p
    <3>1. Using(r, v)' => Using(r, v)
      BY <2>3 DEF Using
    <3> QED
      BY <2>1, <2>3, <3>1, UserSame
  <2> QED
    BY <2>2, <2>3
<1> QED
  BY <1>2, <1>3, <1>4

\* What writing a byte does to the pipes
Put(q, b) ==
    /\ pipe' \in [Pipe -> PipeRec]
    /\ \A x \in Pipe \ {q} : pipe'[x] = pipe[x] /\ Held(x)' = Held(x)
    /\ \A x \in Pipe : pipe'[x].open = pipe[x].open
    /\ pipe'[q].nread = pipe[q].nread
    /\ pipe'[q].data = [pipe[q].data EXCEPT ![pipe[q].nwrite % PIPESIZE] = b]
    /\ Held(q)' = Held(q) + 1

LEMMA PutByte ==
  ASSUME TypeOK, NEW q \in Pipe, NEW b \in Byte, Held(q) <= PIPESIZE, Held(q) # PIPESIZE,
         pipe' = [pipe EXCEPT ![q].data[pipe[q].nwrite % PIPESIZE] = b,
                              ![q].nwrite = (@ + 1) % Width]
  PROVE  Put(q, b)
<1>1. /\ pipe[q] \in PipeRec
      /\ pipe[q].nread \in 0 .. Width - 1 /\ pipe[q].nwrite \in 0 .. Width - 1
      /\ pipe[q].data \in [0 .. PIPESIZE - 1 -> Byte]
  BY Typed, TypesAre
<1>2. Held(q) < Width - 1 /\ Held(q) = (pipe[q].nwrite - pipe[q].nread) % Width
  BY HeldRange, PipeAssumption DEF Held
<1>3. PICK d, n : /\ d = [pipe[q].data EXCEPT ![pipe[q].nwrite % PIPESIZE] = b]
                  /\ n = (pipe[q].nwrite + 1) % Width
  OBVIOUS
<1>4. n \in 0 .. Width - 1 /\ (n - pipe[q].nread) % Width = Held(q) + 1
  BY <1>1, <1>2, <1>3, OneWritten
<1>5. d \in [0 .. PIPESIZE - 1 -> Byte]
  BY <1>1, <1>3
<1> DEFINE r == [pipe[q] EXCEPT !.data = d, !.nwrite = n]
<1>6. r \in PipeRec /\ r.open = pipe[q].open /\ r.nread = pipe[q].nread /\ r.data = d /\ r.nwrite = n
  BY <1>1, <1>4, <1>5 DEF PipeRec
<1>7. pipe' = [pipe EXCEPT ![q] = r]
  BY <1>1, <1>3 DEF PipeRec
<1> HIDE DEF r
<1>8. pipe' \in [Pipe -> PipeRec] /\ \A x \in Pipe : pipe'[x] = IF x = q THEN r ELSE pipe[x]
  BY <1>6, <1>7, TypesAre
<1>9. Held(q)' = Held(q) + 1
  BY <1>4, <1>6, <1>8 DEF Held
<1>10. \A x \in Pipe \ {q} : pipe'[x] = pipe[x] /\ Held(x)' = Held(x)
  BY <1>8 DEF Held
<1> QED
  BY <1>3, <1>6, <1>8, <1>9, <1>10 DEF Put

LEMMA WriteStep ==
  ASSUME Parts, NEW p \in Proc, Pipewrite(p)
  PROVE  Parts'
<1>1. TypeOK /\ CountInv /\ FlagInv /\ EndInv /\ CallInv /\ \A r \in Proc : PlaceInv(r)
  BY DEF Parts
<1>2. pc[p] = "write" /\ UNCHANGED <<file, ofile, closed, rf, wf, used, exiting>> /\ Using(p, TRUE)
  BY DEF Pipewrite, Using, fileVars
<1>3. PICK q \in Pipe : q = call[p][1]
  BY <1>1, <1>2, UserHasEnd
<1>4. lock[q] \in {None, p} /\ None # p
  BY <1>1, <1>3, Typed DEF Pipewrite
<1>5. Held(q) \in 0 .. Width - 1 /\ Held(q) <= PIPESIZE
  BY <1>1, HeldRange DEF CallInv
\* p leaves the lock and the pipe as they are, and who sleeps on it is woken,
\* was not there, or is left behind.
<1>7. ASSUME UNCHANGED pipe, lock' = [lock EXCEPT ![q] = None], killed' \subseteq Proc,
             pc' \in [Proc -> Pcs], call' \in [Proc -> (Pipe \cup {None}) \X (0 .. MaxBytes)],
             \A r \in Proc \ {p} : \/ pc'[r] = pc[r]
                                   \/ pc[r] = "sleep_read" /\ pc'[r] = "read"
                                   \/ pc[r] = "sleep_write" /\ pc'[r] = "write",
             \A r \in Proc \ {p} : call'[r] = call[r],
             \/ pc'[p] = "idle"
             \/ pc'[p] = "sleep_write" /\ call'[p] = call[p] /\ Held(q) = PIPESIZE,
             cut \subseteq cut', cut' \subseteq Pipe,
             \A r \in Proc : pc'[r] = "sleep_read" /\ call'[r][1] = q => q \in cut'
      PROVE  Parts'
  <2>1. TypeOK'
    BY <1>1, <1>2, <1>7, TypesAre, TypesAreNext
  <2>2. /\ CountInv' /\ EndInv' /\ FlagInv'
        /\ \A r \in Proc : PlaceInv(r)'
        /\ \A r \in Proc, v \in BOOLEAN : UserInv(r, v)'
    <3>1. pc'[p] = "sleep_write" => Using(p, TRUE)'
      BY DEF Using
    <3> QED
      BY <1>2, <1>7, <3>1, UserStep
  <2>3. \A x \in Pipe : Held(x)' = Held(x) /\ lock'[x] = IF x = q THEN None ELSE lock[x]
    BY <1>1, <1>7, TypesAre DEF Held
  <2>4. ASSUME NEW r \in Proc, NEW x \in Pipe PROVE WaitInv(r, x)'
    <3>1. WaitInv(r, x)
      BY <1>1, CallParts
    <3>2. None # r
      BY <1>1, Typed
    <3>3. CASE r = p
      BY <1>3, <1>4, <1>7, <2>3, <3>1, <3>2, <3>3 DEF WaitInv, Free
    <3>4. CASE r # p
      BY <1>3, <1>4, <1>7, <2>3, <3>1, <3>2, <3>4 DEF WaitInv, Free
    <3> QED
      BY <3>3, <3>4
  <2>5. CallInv'
    BY <1>1, <2>2, <2>3, <2>4, CallPartsNext DEF CallInv
  <2> QED
    BY <2>1, <2>2, <2>5 DEF Parts
<1>8. ASSUME WriteEnd(p, q) PROVE Parts'
  <2>1. /\ WakeAndGoto(q, "sleep_read", p, "idle") /\ lock' = [lock EXCEPT ![q] = None]
        /\ call' = [call EXCEPT ![p] = <<None, 0>>] /\ UNCHANGED <<pipe, killed, cut>>
    BY <1>8 DEF WriteEnd, Returns
  <2>2. pc' \in [Proc -> Pcs]
    BY <1>1, <2>1, TypesAre, WakeTypes DEF Pcs
  <2>3. /\ pc'[p] = "idle"
        /\ \A r \in Proc \ {p} : \/ pc'[r] = pc[r] /\ ~(pc[r] = "sleep_read" /\ call[r][1] = q)
                                 \/ pc[r] = "sleep_read" /\ pc'[r] = "read"
                                 \/ pc[r] = "sleep_write" /\ pc'[r] = "write"
    BY <1>1, <2>1, Woken
  <2>4. call' \in [Proc -> (Pipe \cup {None}) \X (0 .. MaxBytes)] /\ \A r \in Proc \ {p} : call'[r] = call[r]
    BY <1>1, <2>1, PipeAssumption, TypesAre
  <2>5. \A r \in Proc : ~(pc'[r] = "sleep_read" /\ call'[r][1] = q)
    BY <2>3, <2>4
  <2> QED
    BY <1>1, <1>7, <2>1, <2>2, <2>3, <2>4, <2>5, TypesAre
<1>9. ASSUME WriteFull(p, q) PROVE Parts'
  <2>1. /\ WakeAndGoto(q, "sleep_read", p, "sleep_write") /\ lock' = [lock EXCEPT ![q] = None]
        /\ Held(q) = PIPESIZE /\ killed' \in {killed, killed \cup {p}} /\ UNCHANGED <<pipe, call, cut>>
    BY <1>9 DEF WriteFull, MissedKill
  <2>2. pc' \in [Proc -> Pcs]
    BY <1>1, <2>1, TypesAre, WakeTypes DEF Pcs
  <2>3. /\ pc'[p] = "sleep_write"
        /\ \A r \in Proc \ {p} : \/ pc'[r] = pc[r] /\ ~(pc[r] = "sleep_read" /\ call[r][1] = q)
                                 \/ pc[r] = "sleep_read" /\ pc'[r] = "read"
                                 \/ pc[r] = "sleep_write" /\ pc'[r] = "write"
    BY <1>1, <2>1, Woken
  <2>4. \A r \in Proc : ~(pc'[r] = "sleep_read" /\ call'[r][1] = q)
    BY <2>1, <2>3
  <2>5. killed' \subseteq Proc
    BY <1>1, <2>1, TypesAre
  <2> QED
    BY <1>1, <1>7, <2>1, <2>2, <2>3, <2>4, <2>5, TypesAre
<1>10. ASSUME WriteFails(p, q), "read" \notin pipe[q].open \/ p \in killed PROVE Parts'
  <2>1. /\ pc' = [pc EXCEPT ![p] = "idle"] /\ lock' = [lock EXCEPT ![q] = None]
        /\ call' = [call EXCEPT ![p] = <<None, 0>>] /\ UNCHANGED <<pipe, killed>>
        /\ cut' = IF p \in killed THEN cut \cup {q} ELSE cut
    BY <1>10 DEF WriteFails, Returns, Goto
  <2>2. pc' \in [Proc -> Pcs] /\ \A r \in Proc : pc'[r] = IF r = p THEN "idle" ELSE pc[r]
    BY <1>1, <2>1, TypesAre DEF Pcs
  <2>3. call' \in [Proc -> (Pipe \cup {None}) \X (0 .. MaxBytes)] /\ \A r \in Proc \ {p} : call'[r] = call[r]
    BY <1>1, <2>1, PipeAssumption, TypesAre
  <2>4. ASSUME NEW r \in Proc, pc'[r] = "sleep_read", call'[r][1] = q PROVE q \in cut'
    <3>1. Using(r, FALSE) /\ r # p /\ call[r][1] = q
      BY <2>2, <2>3, <2>4 DEF Using
    <3>2. "read" \in pipe[q].open
      BY <1>1, <3>1, UserHasEnd DEF Flag
    <3> QED
      BY <1>10, <2>1, <3>2
  <2> QED
    BY <1>1, <1>7, <2>1, <2>2, <2>3, <2>4, TypesAre
<1>11. ASSUME WriteByte(p, q), call[p][2] > 0 PROVE Parts'
  <2>1. PICK b \in Byte : pipe' = [pipe EXCEPT ![q].data[pipe[q].nwrite % PIPESIZE] = b,
                                          ![q].nwrite = (@ + 1) % Width]
    BY <1>11 DEF WriteByte
  <2>2. /\ Held(q) # PIPESIZE /\ call' = [call EXCEPT ![p][2] = @ - 1] /\ lock' = [lock EXCEPT ![q] = p]
        /\ UNCHANGED <<pc, killed, cut>>
    BY <1>11 DEF WriteByte
  <2>3. Put(q, b)
    BY <1>1, <1>5, <2>1, <2>2, PutByte
  <2>4. TypeOK'
    <3>1. call' \in [Proc -> (Pipe \cup {None}) \X (0 .. MaxBytes)]
      <4>1. call[p] \in (Pipe \cup {None}) \X (0 .. MaxBytes) /\ call[p][2] - 1 \in 0 .. MaxBytes
        BY <1>1, <1>11, PipeAssumption, TypesAre
      <4>2. [call[p] EXCEPT ![2] = @ - 1] = <<call[p][1], call[p][2] - 1>>
        BY <4>1
      <4> QED
        BY <1>1, <2>2, <4>1, <4>2, TypesAre
    <3> QED
      BY <1>1, <1>2, <2>2, <2>3, <3>1, TypesAre, TypesAreNext DEF Put
  <2>5. /\ CountInv' /\ EndInv' /\ FlagInv'
        /\ \A r \in Proc : PlaceInv(r)'
        /\ \A r \in Proc, v \in BOOLEAN : UserInv(r, v)'
    <3>1. \A r \in Proc \ {p} : call'[r] = call[r]
      BY <1>1, <2>2, TypesAre
    <3>2. call'[p][1] = call[p][1] /\ Using(p, TRUE)'
      BY <1>1, <1>2, <2>2, TypesAre DEF Using
    <3>3. \A x \in Pipe : pipe'[x].open = pipe[x].open
      BY <2>3 DEF Put
    <3> QED
      BY <1>2, <2>2, <3>1, <3>2, <3>3, UserStep
  <2>6. /\ \A x \in Pipe : lock'[x] = IF x = q THEN p ELSE lock[x]
        /\ \A r \in Proc : call'[r][1] = call[r][1]
    BY <1>1, <2>2, TypesAre
  <2>7. Held(q)' = Held(q) + 1 /\ \A x \in Pipe \ {q} : Held(x)' = Held(x)
    BY <2>3 DEF Put
  <2>8. ASSUME NEW r \in Proc, NEW x \in Pipe PROVE WaitInv(r, x)'
    <3>1. WaitInv(r, x) /\ None # p
      BY <1>1, <1>4, CallParts
    <3>2. CASE x = q
      BY <1>2, <1>3, <2>2, <2>6, <3>1, <3>2 DEF WaitInv, Free
    <3>3. CASE x # q
      BY <2>2, <2>6, <2>7, <3>1, <3>3 DEF WaitInv, Free
    <3> QED
      BY <3>2, <3>3
  <2>9. Held(q)' <= PIPESIZE
    BY <1>5, <2>2, <2>7, PipeAssumption
  <2>10. CallInv'
    BY <1>1, <2>5, <2>7, <2>8, <2>9, CallPartsNext DEF CallInv
  <2> QED
    BY <2>4, <2>5, <2>10 DEF Parts
<1> QED
  BY <1>3, <1>8, <1>9, <1>10, <1>11 DEF Pipewrite

\* What reading j bytes does to the pipes
Got(q, j) ==
    /\ pipe' \in [Pipe -> PipeRec]
    /\ \A x \in Pipe \ {q} : pipe'[x] = pipe[x] /\ Held(x)' = Held(x)
    /\ \A x \in Pipe : pipe'[x].open = pipe[x].open
    /\ pipe'[q].nread = IF pipe[q].nread + j < Width THEN pipe[q].nread + j ELSE pipe[q].nread + j - Width
    /\ pipe'[q].data = pipe[q].data
    /\ Held(q)' = Held(q) - j

LEMMA GetBytes ==
  ASSUME TypeOK, NEW q \in Pipe, NEW j \in Nat, j <= Held(q),
         pipe' = [pipe EXCEPT ![q].nread = (@ + j) % Width]
  PROVE  Got(q, j)
<1>1. /\ pipe[q] \in PipeRec
      /\ pipe[q].nread \in 0 .. Width - 1 /\ pipe[q].nwrite \in 0 .. Width - 1
  BY Typed, TypesAre
<1>2. Held(q) = (pipe[q].nwrite - pipe[q].nread) % Width
  BY DEF Held
<1>3. PICK n : n = (pipe[q].nread + j) % Width
  OBVIOUS
<1>4. /\ n \in 0 .. Width - 1 /\ (pipe[q].nwrite - n) % Width = Held(q) - j
      /\ n = IF pipe[q].nread + j < Width THEN pipe[q].nread + j ELSE pipe[q].nread + j - Width
  BY <1>1, <1>2, <1>3, ManyRead
<1> DEFINE r == [pipe[q] EXCEPT !.nread = n]
<1>5. r \in PipeRec /\ r.open = pipe[q].open /\ r.nread = n /\ r.data = pipe[q].data /\ r.nwrite = pipe[q].nwrite
  BY <1>1, <1>4 DEF PipeRec
<1>6. pipe' = [pipe EXCEPT ![q] = r]
  BY <1>1, <1>3 DEF PipeRec
<1> HIDE DEF r
<1>7. pipe' \in [Pipe -> PipeRec] /\ \A x \in Pipe : pipe'[x] = IF x = q THEN r ELSE pipe[x]
  BY <1>5, <1>6, TypesAre
<1>8. Held(q)' = Held(q) - j
  BY <1>4, <1>5, <1>7 DEF Held
<1>9. \A x \in Pipe \ {q} : pipe'[x] = pipe[x] /\ Held(x)' = Held(x)
  BY <1>7 DEF Held
<1> QED
  BY <1>4, <1>5, <1>7, <1>8, <1>9 DEF Got

LEMMA ReadStep ==
  ASSUME Parts, NEW p \in Proc, Piperead(p)
  PROVE  Parts'
<1>1. TypeOK /\ CountInv /\ FlagInv /\ EndInv /\ CallInv /\ \A r \in Proc : PlaceInv(r)
  BY DEF Parts
<1>2. /\ pc[p] = "read" /\ Using(p, FALSE)
      /\ UNCHANGED <<file, ofile, closed, rf, wf, used, exiting, lock, cut>>
  BY DEF Piperead, Using, fileVars
<1>3. PICK q \in Pipe : q = call[p][1]
  BY <1>1, <1>2, UserHasEnd
<1>4. Free(q) /\ lock[q] # p
  BY <1>1, <1>3, Typed DEF Piperead, Free
<1>5. Held(q) \in 0 .. Width - 1 /\ Held(q) <= PIPESIZE
  BY <1>1, HeldRange DEF CallInv
\* p has taken j bytes, and writers that sleep on the pipe are woken.
<1>6. ASSUME NEW j \in Nat, j <= Held(q), Got(q, j), killed' \subseteq Proc,
             pc' \in [Proc -> Pcs], call' \in [Proc -> (Pipe \cup {None}) \X (0 .. MaxBytes)],
             \A r \in Proc \ {p} : \/ pc'[r] = pc[r]
                                   \/ pc[r] = "sleep_read" /\ pc'[r] = "read"
                                   \/ pc[r] = "sleep_write" /\ pc'[r] = "write",
             \A r \in Proc \ {p} : call'[r] = call[r],
             \/ pc'[p] = "idle"
             \/ pc'[p] = "sleep_read" /\ call'[p] = call[p] /\ Held(q) = 0,
             \A r \in Proc : pc'[r] = "sleep_write" /\ call'[r][1] = q => j = 0
      PROVE  Parts'
  <2>1. TypeOK'
    BY <1>1, <1>2, <1>6, TypesAre, TypesAreNext DEF Got
  <2>2. /\ CountInv' /\ EndInv' /\ FlagInv'
        /\ \A r \in Proc : PlaceInv(r)'
        /\ \A r \in Proc, v \in BOOLEAN : UserInv(r, v)'
    <3>1. pc'[p] = "sleep_read" => Using(p, FALSE)'
      BY DEF Using
    <3> QED
      BY <1>2, <1>6, <3>1, UserStep DEF Got
  <2>3. Held(q)' = Held(q) - j /\ \A x \in Pipe \ {q} : Held(x)' = Held(x)
    BY <1>6 DEF Got
  <2>4. ASSUME NEW r \in Proc, NEW x \in Pipe PROVE WaitInv(r, x)'
    <3>1. WaitInv(r, x) /\ None # r
      BY <1>1, CallParts, Typed
    <3>2. CASE r = p
      BY <1>2, <1>3, <1>4, <1>5, <1>6, <2>3, <3>1, <3>2 DEF WaitInv, Free
    <3>3. CASE r # p
      BY <1>2, <1>4, <1>5, <1>6, <2>3, <3>1, <3>3 DEF WaitInv, Free
    <3> QED
      BY <3>2, <3>3
  <2>5. \A x \in Pipe : Held(x)' <= PIPESIZE
    BY <1>1, <1>5, <1>6, <2>3, PipeAssumption DEF CallInv
  <2>6. CallInv'
    BY <2>2, <2>4, <2>5, CallPartsNext
  <2> QED
    BY <2>1, <2>2, <2>6 DEF Parts
<1>7. ASSUME UNCHANGED pipe PROVE Got(q, 0)
  <2>1. pipe[q].nread \in Nat /\ pipe[q].nread < Width /\ pipe' \in [Pipe -> PipeRec]
    BY <1>1, <1>7, Typed, TypesAre, PipeAssumption
  <2>2. \A x : Held(x)' = Held(x)
    BY <1>7 DEF Held
  <2>3. Held(q) - 0 = Held(q) /\ pipe[q].nread + 0 = pipe[q].nread
    BY <1>5, <2>1, PipeAssumption
  <2> QED
    BY <1>7, <2>1, <2>2, <2>3 DEF Got
<1>8. ASSUME ReadSleep(p, q), Held(q) = 0 PROVE Parts'
  <2>1. pc' = [pc EXCEPT ![p] = "sleep_read"] /\ killed' \in {killed, killed \cup {p}} /\ UNCHANGED <<pipe, call>>
    BY <1>8 DEF ReadSleep, Goto, MissedKill
  <2>2. pc' \in [Proc -> Pcs] /\ \A r \in Proc : pc'[r] = IF r = p THEN "sleep_read" ELSE pc[r]
    BY <1>1, <2>1, TypesAre DEF Pcs
  <2>3. killed' \subseteq Proc
    BY <1>1, <2>1, TypesAre
  <2>4. call' \in [Proc -> (Pipe \cup {None}) \X (0 .. MaxBytes)]
    BY <1>1, <2>1, TypesAre
  <2>5. Got(q, 0) /\ 0 \in Nat /\ 0 <= Held(q)
    BY <1>7, <1>8, <2>1
  <2> QED
    BY <1>6, <1>8, <2>1, <2>2, <2>3, <2>4, <2>5
<1>9. ASSUME ReadKilled(p, q), Held(q) = 0 PROVE Parts'
  <2>1. /\ pc' = [pc EXCEPT ![p] = "idle"] /\ call' = [call EXCEPT ![p] = <<None, 0>>]
        /\ UNCHANGED <<pipe, killed>>
    BY <1>9 DEF ReadKilled, Goto, Returns
  <2>2. pc' \in [Proc -> Pcs] /\ \A r \in Proc : pc'[r] = IF r = p THEN "idle" ELSE pc[r]
    BY <1>1, <2>1, TypesAre DEF Pcs
  <2>3. call' \in [Proc -> (Pipe \cup {None}) \X (0 .. MaxBytes)] /\ \A r \in Proc \ {p} : call'[r] = call[r]
    BY <1>1, <2>1, PipeAssumption, TypesAre
  <2>4. killed' \subseteq Proc
    BY <1>1, <2>1, TypesAre
  <2>5. Got(q, 0) /\ 0 \in Nat /\ 0 <= Held(q)
    BY <1>7, <1>9, <2>1
  <2> QED
    BY <1>6, <2>2, <2>3, <2>4, <2>5
<1>10. ASSUME ReadData(p, q) PROVE Parts'
  <2>1. PICK k \in 0 .. Held(q), lost \in 0 .. 1 :
           /\ IF lost = 1 THEN k < call[p][2] /\ k < Held(q)
              ELSE k = IF Held(q) < call[p][2] THEN Held(q) ELSE call[p][2]
           /\ pipe' = [pipe EXCEPT ![q].nread = (@ + k + lost) % Width]
    BY <1>10 DEF ReadData
  <2>2. /\ WakeAndGoto(q, "sleep_write", p, "idle") /\ UNCHANGED killed
        /\ call' = [call EXCEPT ![p] = <<None, 0>>]
    BY <1>10 DEF ReadData, Returns
  <2>3. PICK j \in Nat : j = k + lost /\ j <= Held(q)
    BY <1>5, <2>1
  <2>4. Got(q, j)
    <3>1. pipe[q].nread + k + lost = pipe[q].nread + j
      <4>1. k \in Nat /\ lost \in Nat /\ pipe[q].nread \in Nat
        BY <1>1, <1>5, <2>1, Typed, PipeAssumption
      <4> QED
        BY <2>3, <4>1
    <3>2. pipe' = [pipe EXCEPT ![q].nread = (@ + j) % Width]
      BY <2>1, <3>1
    <3> QED
      BY <1>1, <2>3, <3>2, GetBytes
  <2>5. pc' \in [Proc -> Pcs]
    BY <1>1, <2>2, TypesAre, WakeTypes DEF Pcs
  <2>6. /\ pc'[p] = "idle"
        /\ \A r \in Proc \ {p} : \/ pc'[r] = pc[r] /\ ~(pc[r] = "sleep_write" /\ call[r][1] = q)
                                 \/ pc[r] = "sleep_read" /\ pc'[r] = "read"
                                 \/ pc[r] = "sleep_write" /\ pc'[r] = "write"
    BY <1>1, <2>2, Woken
  <2>7. call' \in [Proc -> (Pipe \cup {None}) \X (0 .. MaxBytes)] /\ \A r \in Proc \ {p} : call'[r] = call[r]
    BY <1>1, <2>2, PipeAssumption, TypesAre
  <2>8. \A r \in Proc : ~(pc'[r] = "sleep_write" /\ call'[r][1] = q)
    BY <2>6, <2>7
  <2> QED
    BY <1>1, <1>6, <2>2, <2>3, <2>4, <2>5, <2>6, <2>7, <2>8, TypesAre
<1> QED
  BY <1>3, <1>8, <1>9, <1>10 DEF Piperead

-----------------------------------------------------------------------------
(* The theorems *)

LEMMA NextKeepsParts ==
  Parts /\ [Next]_vars => Parts'
<1> SUFFICES ASSUME Parts, [Next]_vars PROVE Parts'
  OBVIOUS
<1>1. CASE UNCHANGED vars
  <2>1. UNCHANGED <<file, ofile, closed, rf, wf, pc, pipe, used, lock, call, killed, exiting, cut>>
    BY <1>1 DEF vars, fileVars, pipeVars
  <2>2. TypeOK' /\ CallInv'
    <3>1. TypeOK'
      BY <2>1, TypesAre, TypesAreNext DEF Parts
    <3>2. \A q : Held(q)' = Held(q)
      BY <2>1 DEF Held
    <3>3. CallInv'
      BY <2>1, <3>2 DEF Parts, CallInv, Using, IsEnd, Free
    <3> QED
      BY <3>1, <3>3
  <2>3. CountInv' /\ EndInv' /\ FlagInv'
    BY <2>1, QuietFiles
  <2>4. \A r \in Proc : PlaceInv(r)'
    BY <2>1, QuietPlaces
  <2> QED
    BY <2>2, <2>3, <2>4 DEF Parts
<1>2. CASE Next
  <2>1. PICK p \in Proc : \/ FileCall(p) \/ Fork(p) \/ ReadOrWrite(p) \/ Exit(p) \/ Kill(p)
                          \/ PipeFiles(p) \/ AllocPipe(p) \/ CloseFile(p) \/ Closed(p) \/ Pipeclose(p)
                          \/ Pipewrite(p) \/ Piperead(p)
    BY <1>2 DEF Next
  <2>2. CASE FileCall(p)
    BY <2>2, OpenStep, CloseStep, DupStep DEF FileCall
  <2> QED
    BY <2>1, <2>2, ForkStep, UseStep, ExitStep, KillStep, OpenWriteStep, PipeStep, FilecloseStep,
       ClosedStep, PipecloseStep, WriteStep, ReadStep
<1> QED
  BY <1>1, <1>2

LEMMA InitParts ==
  Init => Parts
<1> SUFFICES ASSUME Init PROVE Parts
  OBVIOUS
<1>1. /\ file = [f \in File |-> [ref |-> 0, type |-> "none", writable |-> FALSE, pipe |-> None]]
      /\ ofile = [p \in Proc |-> [fd \in FD |-> None]]
      /\ closed = [p \in Proc |-> <<None, FALSE>>]
      /\ rf = [p \in Proc |-> None] /\ wf = [p \in Proc |-> None]
      /\ pc = [p \in Proc |-> IF p = CHOOSE q \in Proc : TRUE THEN "idle" ELSE "dead"]
      /\ used = {} /\ lock = [q \in Pipe |-> None] /\ call = [p \in Proc |-> <<None, 0>>]
      /\ killed = {} /\ exiting = {} /\ cut = {}
  BY DEF Init, FileInit
<1>2. PICK b \in Byte : pipe = [q \in Pipe |-> NewPipe([i \in 0 .. PIPESIZE - 1 |-> b])]
  BY DEF Init
<1>3. TypeOK
  <2>1. pipe \in [Pipe -> PipeRec]
    <3>1. NewPipe([i \in 0 .. PIPESIZE - 1 |-> b]) \in PipeRec
      BY PipeAssumption DEF NewPipe, PipeRec
    <3> QED
      BY <1>2, <3>1
  <2>2. pc \in [Proc -> Pcs]
    BY <1>1 DEF Pcs
  <2>3. file \in [File -> FileRec]
    BY <1>1 DEF FileRec
  <2>4. call \in [Proc -> (Pipe \cup {None}) \X (0 .. MaxBytes)]
    BY <1>1, PipeAssumption
  <2> QED
    BY <1>1, <2>1, <2>2, <2>3, <2>4, TypesAre
<1>4. \A p \in Proc : pc[p] \in {"idle", "dead"} /\ closed[p] = <<None, FALSE>> /\ rf[p] = None /\ wf[p] = None
                      /\ \A fd \in FD : ofile[p][fd] = None
  BY <1>1
<1>5. CountInv
  <2>1. \A f \in File : Keeps(f) = {}
    <3>1. \A p \in Proc, k \in Place : Ref(p, k) = None
      BY <1>4, Places DEF Ref
    <3> QED
      BY <1>3, <3>1, Typed DEF Keeps
  <2>2. \A f \in File : References(f) = 0
    BY <2>1, KeepsFinite, FS_EmptySet
  <2> QED
    BY <1>1, <2>2 DEF CountInv
<1>6. FlagInv
  BY <1>1, <1>3, <1>4, Typed DEF FlagInv, End
<1>7. EndInv
  BY <1>1, <1>4 DEF EndInv
<1>8. CallInv
  <2>1. \A q \in Pipe : Held(q) = 0
    <3>1. (0 - 0) % Width = 0
      BY PipeAssumption, ModSmall
    <3> QED
      BY <1>2, <3>1 DEF Held, NewPipe
  <2>2. \A p \in Proc, q \in Pipe : lock[q] # p
    BY <1>1, <1>3, Typed
  <2>3. \A p \in Proc : pc[p] \notin {"read", "write", "sleep_read", "sleep_write"}
    BY <1>4
  <2>4. \A p \in Proc, w \in BOOLEAN : ~Using(p, w)
    BY <2>3 DEF Using
  <2> QED
    BY <2>1, <2>2, <2>3, <2>4, PipeAssumption DEF CallInv
<1>9. \A p \in Proc : PlaceInv(p)
  BY <1>1, <1>4 DEF PlaceInv, Opening, Closing
<1> QED
  BY <1>3, <1>5, <1>6, <1>7, <1>8, <1>9 DEF Parts

\* Nobody falls asleep or is asleep where an end is closed.
LEMMA SleepSame ==
  ASSUME SleepInv, TypeOK, CallInv,
         \A r \in Proc : pc'[r] \in {"sleep_read", "sleep_write"} =>
            pc'[r] = pc[r] /\ call'[r][1] = call[r][1],
         \A q \in Pipe : pipe[q].open \subseteq pipe'[q].open
  PROVE  SleepInv'
<1>1. ASSUME NEW r \in Proc, pc[r] \in {"sleep_read", "sleep_write"} PROVE call[r][1] \in Pipe
  <2>1. Using(r, pc[r] = "sleep_write")
    BY <1>1 DEF Using
  <2>2. (pc[r] = "sleep_write") \in BOOLEAN
    OBVIOUS
  <2>3. call[r][1] # None
    BY <2>1, <2>2 DEF CallInv
  <2> QED
    BY <2>3 DEF TypeOK
<1> QED
  BY <1>1 DEF SleepInv

LEMMA SleepStep ==
  ASSUME Parts, SleepInv, NEW p \in Proc,
         \/ FileCall(p) \/ Fork(p) \/ ReadOrWrite(p) \/ Exit(p) \/ Kill(p)
         \/ PipeFiles(p) \/ AllocPipe(p) \/ CloseFile(p) \/ Closed(p) \/ Pipeclose(p)
         \/ Pipewrite(p) \/ Piperead(p)
  PROVE  SleepInv'
<1>1. TypeOK /\ CallInv /\ FlagInv /\ EndInv /\ \A r \in Proc : PlaceInv(r)
  BY DEF Parts
<1>2. ASSUME NEW r \in Proc, NEW l, l \notin {"sleep_read", "sleep_write"}, pc' = [pc EXCEPT ![r] = l],
             \A s \in Proc \ {r} : call'[s] = call[s], \A q \in Pipe : pipe[q].open \subseteq pipe'[q].open
      PROVE  SleepInv'
  <2>1. \A s \in Proc : pc'[s] = IF s = r THEN l ELSE pc[s]
    BY <1>1, <1>2, TypesAre
  <2> QED
    BY <1>1, <1>2, <2>1, SleepSame
<1>3. CASE FileCall(p)
  <2>1. UNCHANGED <<pipe, call>> /\ (UNCHANGED pc \/ \E l \in {"close", "alloc_write"} : pc' = [pc EXCEPT ![p] = l])
    BY <1>3 DEF FileCall, pipeVars, AllocRead, SysClose, SysDup, Goto
  <2>2. CASE UNCHANGED pc
    BY <1>1, <2>1, <2>2, SleepSame
  <2> QED
    BY <1>2, <2>1, <2>2
<1>4. CASE Fork(p)
  BY <1>2, <1>4 DEF Fork, Goto
<1>5. CASE ReadOrWrite(p)
  <2>1. \E l \in {"read", "write"} : pc' = [pc EXCEPT ![p] = l]
    BY <1>5 DEF ReadOrWrite, Goto
  <2>2. UNCHANGED pipe /\ \A s \in Proc \ {p} : call'[s] = call[s]
    BY <1>1, <1>5, TypesAre DEF ReadOrWrite
  <2> QED
    BY <1>2, <2>1, <2>2
<1>6. CASE Exit(p)
  BY <1>2, <1>6 DEF Exit, Goto
<1>7. CASE Kill(p)
  <2>1. UNCHANGED <<pipe, call>>
    BY <1>7 DEF Kill
  <2>2. PICK l : l = IF pc[p] = "sleep_read" THEN "read" ELSE IF pc[p] = "sleep_write" THEN "write" ELSE pc[p]
    OBVIOUS
  <2>3. pc' = [pc EXCEPT ![p] = l]
    BY <1>7, <2>2 DEF Kill, Goto
  <2>4. l \notin {"sleep_read", "sleep_write"}
    BY <2>2
  <2> QED
    BY <1>2, <2>1, <2>3, <2>4
<1>8. CASE PipeFiles(p)
  <2>1. UNCHANGED <<pipe, call>> /\ \E l \in {"close", "alloc_pipe"} : pc' = [pc EXCEPT ![p] = l]
    BY <1>8 DEF PipeFiles, pipeVars, AllocWrite, Goto
  <2> QED
    BY <1>2, <2>1
<1>9. CASE AllocPipe(p)
  <2>1. UNCHANGED call /\ \E l \in {"close", "idle"} : pc' = [pc EXCEPT ![p] = l]
    BY <1>9 DEF AllocPipe, NoPage, OpenEnds, Goto
  <2>2. ASSUME NEW q \in Pipe PROVE pipe[q].open \subseteq pipe'[q].open
    <3>1. \/ UNCHANGED pipe
          \/ \E x \in Pipe : pipe' = [pipe EXCEPT ![x] = NewPipe(pipe[x].data)]
      BY <1>9 DEF AllocPipe
    <3>2. \A d : NewPipe(d).open = {"read", "write"}
      BY DEF NewPipe
    <3>3. pipe[q].open \subseteq {"read", "write"}
      BY <1>1, Typed
    <3> QED
      BY <1>1, <3>1, <3>2, <3>3, TypesAre
  <2> QED
    BY <1>2, <2>1, <2>2
<1>10. CASE CloseFile(p)
  <2>1. UNCHANGED <<pipe, call>> /\ (UNCHANGED pc \/ pc' = [pc EXCEPT ![p] = "pipeclose"])
    BY <1>10 DEF CloseFile, pipeVars, Fileclose, Goto
  <2>2. CASE UNCHANGED pc
    BY <1>1, <2>1, <2>2, SleepSame
  <2> QED
    BY <1>2, <2>1, <2>2
<1>11. CASE Closed(p)
  <2>1. UNCHANGED <<pipe, call>> /\ \E l \in {"dead", "idle"} : pc' = [pc EXCEPT ![p] = l]
    BY <1>11 DEF Closed, Goto
  <2> QED
    BY <1>2, <2>1
<1>12. CASE Pipeclose(p)
  <2>1. PICK q, w : q = closed[p][1] /\ w = closed[p][2]
    OBVIOUS
  <2>2. /\ WakeAndGoto(q, IF w THEN "sleep_read" ELSE "sleep_write", p, "close") /\ UNCHANGED call
        /\ pipe' = [pipe EXCEPT ![q].open = pipe[q].open \ {Flag(w)}]
    BY <1>12, <2>1 DEF Pipeclose, ClosedEnd, Flag
  <2>3. /\ pc'[p] = "close"
        /\ \A r \in Proc \ {p} :
             \/ /\ pc'[r] = pc[r]
                /\ ~(pc[r] = (IF w THEN "sleep_read" ELSE "sleep_write") /\ call[r][1] = q)
             \/ pc[r] = "sleep_read" /\ pc'[r] = "read"
             \/ pc[r] = "sleep_write" /\ pc'[r] = "write"
    BY <1>1, <2>2, Woken
  <2>4. ASSUME NEW r \in Proc, pc'[r] \in {"sleep_read", "sleep_write"}
        PROVE  /\ pc'[r] = "sleep_read" => "write" \in pipe'[call[r][1]].open
               /\ pc'[r] = "sleep_write" => "read" \in pipe'[call[r][1]].open
    <3>1. pc'[r] = pc[r] /\ ~(pc[r] = (IF w THEN "sleep_read" ELSE "sleep_write") /\ call[r][1] = q)
      BY <2>3, <2>4
    <3>2. PICK x \in Pipe : x = call[r][1]
      <4>1. Using(r, pc[r] = "sleep_write")
        BY <2>4, <3>1 DEF Using
      <4>2. (pc[r] = "sleep_write") \in BOOLEAN
        OBVIOUS
      <4> QED
        BY <1>1, <4>1, <4>2, UserHasEnd
    <3>3. /\ x # q => pipe'[x] = pipe[x]
          /\ x = q => pipe'[x].open = pipe[x].open \ {Flag(w)}
      BY <1>1, <2>2, TypesAre DEF PipeRec
    <3>4. CASE x # q
      BY <3>1, <3>2, <3>3, <3>4 DEF SleepInv
    <3>5. CASE x = q
      BY <2>4, <3>1, <3>2, <3>3, <3>5 DEF SleepInv, Flag
    <3> QED
      BY <3>4, <3>5
  <2> QED
    BY <2>2, <2>4 DEF SleepInv
<1>13. CASE Pipewrite(p)
  <2>1. PICK q \in Pipe : q = call[p][1]
    <3>1. Using(p, TRUE)
      BY <1>13 DEF Pipewrite, Using
    <3> QED
      BY <1>1, <3>1, UserHasEnd
  <2>2. ASSUME UNCHANGED pipe, NEW l \in {"idle", "sleep_write"}, WakeAndGoto(q, "sleep_read", p, l),
               \A s \in Proc \ {p} : call'[s] = call[s],
               l = "sleep_write" => "read" \in pipe[q].open /\ call'[p] = call[p]
        PROVE  SleepInv'
    <3>1. /\ pc'[p] = l
          /\ \A r \in Proc \ {p} : \/ pc'[r] = pc[r]
                                   \/ pc[r] = "sleep_read" /\ pc'[r] = "read"
                                   \/ pc[r] = "sleep_write" /\ pc'[r] = "write"
      BY <1>1, <2>2, Woken
    <3> QED
      BY <2>1, <2>2, <3>1 DEF SleepInv
  <2>3. CASE WriteEnd(p, q)
    BY <1>1, <2>2, <2>3, TypesAre DEF WriteEnd, Returns
  <2>4. CASE WriteFails(p, q)
    BY <1>1, <1>2, <2>4, TypesAre DEF WriteFails, Returns, Goto
  <2>5. CASE WriteFull(p, q) /\ "read" \in pipe[q].open
    BY <2>2, <2>5 DEF WriteFull
  <2>6. CASE WriteByte(p, q)
    <3>1. PICK b \in Byte : pipe' = [pipe EXCEPT ![q].data[pipe[q].nwrite % PIPESIZE] = b,
                                            ![q].nwrite = (@ + 1) % Width]
      BY <2>6 DEF WriteByte
    <3>2. Held(q) # PIPESIZE /\ Held(q) <= PIPESIZE
      BY <1>1, <2>6 DEF WriteByte, CallInv
    <3>3. \A x \in Pipe : pipe'[x].open = pipe[x].open
      BY <1>1, <3>1, <3>2, PutByte DEF Put
    <3>4. UNCHANGED pc /\ \A r \in Proc : call'[r][1] = call[r][1]
      BY <1>1, <2>6, TypesAre DEF WriteByte
    <3> QED
      BY <1>1, <3>3, <3>4, SleepSame
  <2> QED
    BY <1>13, <2>1, <2>3, <2>4, <2>5, <2>6 DEF Pipewrite
<1>14. CASE Piperead(p)
  <2>1. PICK q \in Pipe : q = call[p][1]
    <3>1. Using(p, FALSE)
      BY <1>14 DEF Piperead, Using
    <3> QED
      BY <1>1, <3>1, UserHasEnd
  <2>2. CASE ReadSleep(p, q) /\ "write" \in pipe[q].open
    <3>1. UNCHANGED <<pipe, call>> /\ pc' = [pc EXCEPT ![p] = "sleep_read"]
      BY <2>2 DEF ReadSleep, Goto
    <3>2. \A r \in Proc : pc'[r] = IF r = p THEN "sleep_read" ELSE pc[r]
      BY <1>1, <3>1, TypesAre
    <3> QED
      BY <2>1, <2>2, <3>1, <3>2 DEF SleepInv
  <2>3. CASE ReadKilled(p, q)
    BY <1>1, <1>2, <2>3, TypesAre DEF ReadKilled, Returns, Goto
  <2>4. CASE ReadData(p, q)
    <3>1. PICK n : pipe' = [pipe EXCEPT ![q].nread = n]
      BY <2>4 DEF ReadData
    <3>2. \A x \in Pipe : pipe'[x].open = pipe[x].open
      BY <1>1, <3>1, TypesAre DEF PipeRec
    <3>3. WakeAndGoto(q, "sleep_write", p, "idle") /\ \A r \in Proc \ {p} : call'[r] = call[r]
      BY <1>1, <2>4, TypesAre DEF ReadData, Returns
    <3>4. /\ pc'[p] = "idle"
          /\ \A r \in Proc \ {p} : \/ pc'[r] = pc[r]
                                   \/ pc[r] = "sleep_read" /\ pc'[r] = "read"
                                   \/ pc[r] = "sleep_write" /\ pc'[r] = "write"
      BY <1>1, <3>3, Woken
    <3>5. \A r \in Proc : pc'[r] \in {"sleep_read", "sleep_write"} => pc'[r] = pc[r] /\ r # p
      BY <3>4
    <3> QED
      BY <1>1, <3>2, <3>3, <3>5, SleepSame
  <2> QED
    BY <1>14, <2>1, <2>2, <2>3, <2>4 DEF Piperead
<1> QED
  BY <1>3, <1>4, <1>5, <1>6, <1>7, <1>8, <1>9, <1>10, <1>11, <1>12, <1>13, <1>14

LEMMA InitInv ==
  Init => Inv
<1>1. Init => SleepInv
  BY DEF Init, SleepInv
<1> QED
  BY <1>1, InitParts, InvParts DEF Parts

LEMMA StepInv ==
  Inv /\ [Next]_vars => Inv'
<1>1. Inv <=> Parts /\ SleepInv
  BY InvParts DEF Parts
<1>2. (Inv <=> Parts /\ SleepInv)'
  BY <1>1, PTL
<1>3. Parts /\ SleepInv /\ Next => SleepInv'
  BY SleepStep DEF Next
<1>4. SleepInv /\ UNCHANGED vars => SleepInv'
  BY DEF SleepInv, vars, pipeVars
<1> QED
  BY <1>1, <1>2, <1>3, <1>4, NextKeepsParts

\* The file table, the pipes and their users agree in every reachable state.
THEOREM Invariance == Spec => []Inv
  BY InitInv, StepInv, PTL DEF Spec

\* The count of a file is the number of its references, whatever part of pipe,
\* dup, fork, close and exit has been done or undone, and a pipe has its page
\* as long as it has an end (file.c, pipealloc, pipeclose).
THEOREM FilesAreExact == Spec => []FilesExact
<1>1. Inv => FilesExact
  BY DEF Inv
<1> QED
  BY <1>1, Invariance, PTL

\* Nobody sleeps on a pipe that has what it waits for, or from which it can
\* never come, except after a killed writer, which does not wake (pipewrite).
THEOREM SleepersCanBeWoken == Spec => []NoLostWakeup
<1>1. ASSUME Inv PROVE NoLostWakeup
  <2>1. TypeOK /\ FlagInv /\ EndInv /\ CallInv /\ SleepInv
    BY <1>1, InvParts
  <2> SUFFICES ASSUME NEW p \in Proc, NEW q, q = call[p][1]
               PROVE  /\ pc[p] = "sleep_read" /\ Free(q) => q \in cut \/ (Held(q) = 0 /\ End(q, TRUE))
                      /\ pc[p] = "sleep_write" /\ Free(q) => Held(q) = PIPESIZE /\ End(q, FALSE)
    BY DEF NoLostWakeup
  <2>2. \A x \in Pipe : WaitInv(p, x)
    BY <2>1, CallParts
  <2>3. ASSUME pc[p] = "sleep_read", Free(q) PROVE q \in cut \/ (Held(q) = 0 /\ End(q, TRUE))
    <3>1. Using(p, FALSE)
      BY <2>3 DEF Using
    <3>2. q \in used /\ q \in Pipe
      BY <2>1, <3>1, UserHasEnd
    <3>3. End(q, TRUE)
      BY <2>1, <2>3, <3>2 DEF SleepInv, FlagInv, Flag
    <3> QED
      BY <2>2, <2>3, <3>2, <3>3 DEF WaitInv
  <2>4. ASSUME pc[p] = "sleep_write", Free(q) PROVE Held(q) = PIPESIZE /\ End(q, FALSE)
    <3>1. Using(p, TRUE)
      BY <2>4 DEF Using
    <3>2. q \in used /\ q \in Pipe
      BY <2>1, <3>1, UserHasEnd
    <3>3. End(q, FALSE)
      BY <2>1, <2>4, <3>2 DEF SleepInv, FlagInv, Flag
    <3> QED
      BY <2>2, <2>4, <3>2, <3>3 DEF WaitInv
  <2> QED
    BY <2>3, <2>4
<1> QED
  BY <1>1, Invariance, PTL

-----------------------------------------------------------------------------
(* The bytes in the ring buffer *)

LEMMA ContentsAre ==
  ASSUME TypeOK, NEW q \in Pipe
  PROVE  /\ Held(q) \in Nat
         /\ Contents(q) \in Seq(Byte) /\ Len(Contents(q)) = Held(q)
         /\ \A i \in 1 .. Held(q) : Contents(q)[i] = pipe[q].data[(pipe[q].nread + i - 1) % PIPESIZE]
<1>1. Held(q) \in Nat
  BY HeldRange, PipeAssumption
<1>2. ASSUME NEW i \in 1 .. Held(q)
      PROVE  pipe[q].data[(pipe[q].nread + i - 1) % PIPESIZE] \in Byte
  <2>1. PICK a \in Int : a = pipe[q].nread + i - 1
    BY <1>1, Typed, PipeAssumption
  <2>2. a % PIPESIZE \in 0 .. PIPESIZE - 1
    BY DivMod, PipeAssumption
  <2> QED
    BY <2>1, <2>2, Typed
<1>3. Contents(q) \in [1 .. Held(q) -> Byte]
  BY <1>2 DEF Contents
<1>4. Contents(q) \in Seq(Byte)
  BY <1>1, <1>3, SeqDef
<1>5. Len(Contents(q)) = Held(q)
  BY <1>1, <1>3, <1>4, LenProperties
<1> QED
  BY <1>1, <1>4, <1>5 DEF Contents

\* The same as an invariant, for the state after a step
Buffered ==
    \A q \in Pipe :
        /\ Held(q) \in Nat
        /\ Contents(q) \in Seq(Byte) /\ Len(Contents(q)) = Held(q)
        /\ \A i \in 1 .. Held(q) : Contents(q)[i] = pipe[q].data[(pipe[q].nread + i - 1) % PIPESIZE]

LEMMA ContentsNext == TypeOK' => Buffered'
<1>1. TypeOK => Buffered
  BY ContentsAre DEF Buffered
<1> QED
  BY <1>1, PTL

LEMMA SameSeq ==
  ASSUME NEW S, NEW s \in Seq(S), NEW t \in Seq(S), Len(s) = Len(t), \A i \in 1 .. Len(s) : s[i] = t[i]
  PROVE  s = t
BY LenProperties

\* Width is a multiple of PIPESIZE: where a counter wraps, the buffer does too.
LEMMA WrapTogether ==
  ASSUME NEW a \in Int
  PROVE  (a - Width) % PIPESIZE = a % PIPESIZE
<1>1. PIPESIZE \in Nat \ {0} /\ Width \in Int /\ Width % PIPESIZE = 0
  BY PipeAssumption
<1>2. PICK k \in Int : Width = PIPESIZE * k
  <2>1. Width \div PIPESIZE \in Int /\ Width = PIPESIZE * (Width \div PIPESIZE) + (Width % PIPESIZE)
    BY <1>1, DivMod
  <2>2. PICK k : k = Width \div PIPESIZE
    OBVIOUS
  <2>3. k \in Int /\ Width = PIPESIZE * k + 0
    BY <1>1, <2>1, <2>2
  <2>4. PIPESIZE * k \in Int
    BY <1>1, <2>3
  <2> QED
    BY <2>3, <2>4
<1> QED
  BY <1>1, <1>2, ModShift

\* The byte that is written comes after all that are there.
LEMMA PutContents ==
  ASSUME TypeOK, TypeOK', NEW q \in Pipe, NEW b \in Byte, Held(q) < PIPESIZE, Put(q, b)
  PROVE  /\ Queues' = [Queues EXCEPT ![q] = Append(@, b)]
         /\ Len(Queues[q]) < PIPESIZE
<1>1. /\ pipe[q].nread \in 0 .. Width - 1 /\ pipe[q].nwrite \in 0 .. Width - 1 /\ Width \in Nat
      /\ PIPESIZE \in Nat \ {0}
  BY Typed, PipeAssumption
<1>2. /\ Held(q) \in Nat /\ Contents(q) \in Seq(Byte) /\ Len(Contents(q)) = Held(q)
      /\ \A i \in 1 .. Held(q) : Contents(q)[i] = pipe[q].data[(pipe[q].nread + i - 1) % PIPESIZE]
  BY ContentsAre
<1>3. /\ Contents(q)' \in Seq(Byte) /\ Len(Contents(q)') = Held(q) + 1
      /\ \A i \in 1 .. Held(q) + 1 : Contents(q)'[i] = pipe'[q].data[(pipe[q].nread + i - 1) % PIPESIZE]
  <2>1. Contents(q)' \in Seq(Byte) /\ Len(Contents(q)') = Held(q)'
    BY ContentsNext DEF Buffered
  <2>2. \A i \in 1 .. Held(q)' : Contents(q)'[i] = pipe'[q].data[(pipe'[q].nread + i - 1) % PIPESIZE]
    BY ContentsNext DEF Buffered
  <2>3. Held(q)' = Held(q) + 1 /\ pipe'[q].nread = pipe[q].nread
    BY DEF Put
  <2> QED
    BY <2>1, <2>2, <2>3
<1>4. PICK at : at = pipe[q].nwrite % PIPESIZE
  OBVIOUS
<1>5. /\ at \in 0 .. PIPESIZE - 1
      /\ pipe'[q].data = [pipe[q].data EXCEPT ![at] = b]
      /\ pipe[q].data \in [0 .. PIPESIZE - 1 -> Byte]
  <2>1. pipe[q].nwrite \in Int
    BY <1>1
  <2>2. pipe[q].nwrite % PIPESIZE \in 0 .. PIPESIZE - 1
    BY <1>1, <2>1, DivMod
  <2> QED
    BY <1>4, <2>2, Typed DEF Put
<1>6. PICK e \in Int : e = pipe[q].nread + Held(q)
  BY <1>1, <1>2
<1>7. e % PIPESIZE = at
  <2>1. e = pipe[q].nwrite \/ e - Width = pipe[q].nwrite
    BY <1>1, <1>6, HeldRange
  <2> QED
    BY <1>4, <1>6, <2>1, WrapTogether
<1>8. ASSUME NEW i \in 1 .. Held(q)
      PROVE  Contents(q)'[i] = Contents(q)[i]
  <2>1. PICK a \in Int : a = pipe[q].nread + i - 1
    BY <1>1, <1>2
  <2>2. a < e /\ e < a + PIPESIZE
    BY <1>1, <1>2, <1>6, <2>1
  <2>3. a % PIPESIZE # at
    BY <1>1, <1>7, <2>2, ModNear
  <2>4. a % PIPESIZE \in 0 .. PIPESIZE - 1
    BY <1>1, DivMod
  <2>5. pipe'[q].data[a % PIPESIZE] = pipe[q].data[a % PIPESIZE]
    BY <1>5, <2>3, <2>4
  <2>6. i \in 1 .. Held(q) + 1
    BY <1>2
  <2> QED
    BY <1>2, <1>3, <2>1, <2>5, <2>6
<1>9. Contents(q)'[Held(q) + 1] = b
  <2>1. pipe[q].nread + (Held(q) + 1) - 1 = e /\ Held(q) + 1 \in 1 .. Held(q) + 1
    BY <1>1, <1>2, <1>6
  <2> QED
    BY <1>3, <1>5, <1>7, <2>1
<1>10. Contents(q)' = Append(Contents(q), b)
  <2>1. /\ Append(Contents(q), b) \in Seq(Byte) /\ Len(Append(Contents(q), b)) = Held(q) + 1
        /\ \A i \in 1 .. Held(q) : Append(Contents(q), b)[i] = Contents(q)[i]
        /\ Append(Contents(q), b)[Held(q) + 1] = b
    BY <1>2, AppendProperties
  <2>2. \A i \in 1 .. Held(q) + 1 : i \in 1 .. Held(q) \/ i = Held(q) + 1
    BY <1>2
  <2>3. \A i \in 1 .. Held(q) + 1 : Contents(q)'[i] = Append(Contents(q), b)[i]
    BY <1>8, <1>9, <2>1, <2>2
  <2> QED
    BY <1>3, <2>1, <2>3, SameSeq
<1>11. \A x \in Pipe \ {q} : Contents(x)' = Contents(x)
  BY DEF Put, Contents
<1> QED
  BY <1>2, <1>10, <1>11 DEF Queues

\* The bytes that are read are the first ones.
LEMMA GotContents ==
  ASSUME TypeOK, TypeOK', NEW q \in Pipe, NEW j \in Nat, j <= Held(q), Got(q, j)
  PROVE  Queues' = [Queues EXCEPT ![q] = SubSeq(@, j + 1, Len(@))]
<1>1. /\ pipe[q].nread \in 0 .. Width - 1 /\ Width \in Nat /\ PIPESIZE \in Nat \ {0}
  BY Typed, PipeAssumption
<1>2. /\ Held(q) \in Nat /\ Contents(q) \in Seq(Byte) /\ Len(Contents(q)) = Held(q)
      /\ \A i \in 1 .. Held(q) : Contents(q)[i] = pipe[q].data[(pipe[q].nread + i - 1) % PIPESIZE]
  BY ContentsAre
<1>3. /\ Contents(q)' \in Seq(Byte) /\ Len(Contents(q)') = Held(q) - j
      /\ \A i \in 1 .. Held(q) - j : Contents(q)'[i] = pipe[q].data[(pipe'[q].nread + i - 1) % PIPESIZE]
  BY ContentsNext DEF Got, Buffered
<1>4. ASSUME NEW i \in 1 .. Held(q) - j
      PROVE  Contents(q)'[i] = Contents(q)[j + i]
  <2>1. PICK a \in Int : a = pipe[q].nread + (j + i) - 1
    BY <1>1, <1>2
  <2>2. pipe'[q].nread + i - 1 = a \/ pipe'[q].nread + i - 1 = a - Width
    <3>1. \/ pipe'[q].nread = pipe[q].nread + j
          \/ pipe'[q].nread = pipe[q].nread + j - Width
      BY DEF Got
    <3> QED
      BY <1>1, <1>2, <2>1, <3>1
  <2>3. (pipe'[q].nread + i - 1) % PIPESIZE = a % PIPESIZE
    BY <2>2, WrapTogether
  <2>4. j + i \in 1 .. Held(q)
    BY <1>2
  <2> QED
    BY <1>2, <1>3, <2>1, <2>3, <2>4
<1>5. Contents(q)' = SubSeq(Contents(q), j + 1, Len(Contents(q)))
  <2> DEFINE t == SubSeq(Contents(q), j + 1, Held(q))
  <2>1. \A i \in j + 1 .. Held(q) : Contents(q)[i] \in Byte
    BY <1>2, ElementOfSeq
  <2>2. /\ t \in Seq(Byte)
        /\ Len(t) = IF j + 1 <= Held(q) THEN Held(q) - (j + 1) + 1 ELSE 0
        /\ \A i \in 1 .. Held(q) - (j + 1) + 1 : t[i] = Contents(q)[(j + 1) + i - 1]
    BY <1>2, <2>1, SubSeqProperties
  <2>3. Len(t) = Held(q) - j
    BY <1>2, <2>2
  <2>4. ASSUME NEW i \in 1 .. Held(q) - j PROVE t[i] = Contents(q)[j + i]
    <3>1. (j + 1) + i - 1 = j + i /\ i \in 1 .. Held(q) - (j + 1) + 1
      BY <1>2
    <3> QED
      BY <2>2, <3>1
  <2>5. Contents(q)' = t
    BY <1>3, <1>4, <2>2, <2>3, <2>4, SameSeq
  <2> QED
    BY <1>2, <2>5
<1>6. \A x \in Pipe \ {q} : Contents(x)' = Contents(x)
  BY DEF Got, Contents
<1> QED
  BY <1>5, <1>6 DEF Queues

-----------------------------------------------------------------------------
(* A pipe implements ByteQueue *)

\* Its ends are the flags.
EndsMatch ==
    /\ Readers = {q \in used : "read" \in pipe[q].open}
    /\ Writers = {q \in used : "write" \in pipe[q].open}

LEMMA EndsAre == Parts => EndsMatch
<1> SUFFICES ASSUME Parts PROVE EndsMatch
  OBVIOUS
<1>1. \A q \in Pipe : \A w \in BOOLEAN : End(q, w) <=> q \in used /\ Flag(w) \in pipe[q].open
  BY DEF Parts, FlagInv
<1>2. used \subseteq Pipe
  BY TypesAre DEF Parts
<1>3. \A q \in Pipe : End(q, FALSE) <=> q \in used /\ "read" \in pipe[q].open
  BY <1>1 DEF Flag
<1>4. \A q \in Pipe : End(q, TRUE) <=> q \in used /\ "write" \in pipe[q].open
  BY <1>1 DEF Flag
<1> QED
  BY <1>2, <1>3, <1>4 DEF EndsMatch, Readers, Writers

LEMMA EndsAreNext == Parts' => EndsMatch'
BY EndsAre, PTL

\* What most steps leave alone, and the others change in one way
SameEnds == Readers' = Readers /\ Writers' = Writers
SameBytes == Queues' = Queues

LEMMA KeptEnds ==
  ASSUME Parts, Parts', UNCHANGED used, \A q \in Pipe : pipe'[q].open = pipe[q].open
  PROVE  SameEnds
<1>1. used \subseteq Pipe
  BY TypesAre DEF Parts
<1>2. EndsMatch /\ EndsMatch'
  BY EndsAre, EndsAreNext
<1> QED
  BY <1>1, <1>2 DEF SameEnds, EndsMatch

LEMMA KeptBytes ==
  ASSUME UNCHANGED pipe
  PROVE  SameBytes
<1>1. \A q \in Pipe : Contents(q)' = Contents(q)
  BY DEF Contents, Held
<1> QED
  BY <1>1 DEF SameBytes, Queues

LEMMA QuietMap ==
  ASSUME Parts, Parts', UNCHANGED <<pipe, used, result, killed>>
  PROVE  UNCHANGED Promise!vars
<1>1. SameEnds /\ SameBytes
  BY KeptEnds, KeptBytes
<1> QED
  BY <1>1 DEF SameEnds, SameBytes, Promise!vars

LEMMA AllocMap ==
  ASSUME Parts, Parts', NEW p \in Proc, AllocPipe(p)
  PROVE  [Promise!Next]_(Promise!vars)
<1>1. UNCHANGED <<result, killed>>
  BY DEF AllocPipe
<1>2. CASE UNCHANGED <<pipe, used>>
  BY <1>1, <1>2, QuietMap
<1>3. ASSUME NEW q \in Pipe \ used, used' = used \cup {q}, pipe' = [pipe EXCEPT ![q] = NewPipe(@.data)]
      PROVE  Promise!Create(q)
  <2>1. used \subseteq Pipe /\ \A x \in Pipe : pipe'[x] = IF x = q THEN NewPipe(pipe[q].data) ELSE pipe[x]
    BY <1>3, TypesAre DEF Parts
  <2>2. NewPipe(pipe[q].data).open = {"read", "write"} /\ NewPipe(pipe[q].data).nread = 0
        /\ NewPipe(pipe[q].data).nwrite = 0
    BY DEF NewPipe
  <2>3. q \notin Readers \cup Writers /\ Readers' = Readers \cup {q} /\ Writers' = Writers \cup {q}
    BY <1>3, <2>1, <2>2, EndsAre, EndsAreNext DEF EndsMatch
  <2>4. Contents(q)' = <<>>
    <3>1. Held(q)' = (0 - 0) % Width
      BY <2>1, <2>2 DEF Held
    <3>2. (0 - 0) % Width = 0
      BY PipeAssumption, ModSmall
    <3>3. Contents(q)' \in Seq(Byte) /\ Len(Contents(q)') = 0
      BY <3>1, <3>2, ContentsNext DEF Buffered, Parts
    <3> QED
      BY <3>3, EmptySeq
  <2>5. \A x \in Pipe \ {q} : Contents(x)' = Contents(x)
    BY <2>1 DEF Contents, Held
  <2>6. Queues' = [Queues EXCEPT ![q] = <<>>]
    BY <2>4, <2>5 DEF Queues
  <2> QED
    BY <1>1, <2>3, <2>6 DEF Promise!Create
<1> QED
  BY <1>2, <1>3 DEF AllocPipe, Promise!Next

LEMMA CloseMap ==
  ASSUME Parts, Parts', NEW p \in Proc, Pipeclose(p)
  PROVE  Promise!Next
<1>1. PICK q \in Pipe, w \in BOOLEAN : closed[p] = <<q, w>>
  <2>1. closed[p][1] # None /\ closed[p] \in (Pipe \cup {None}) \X BOOLEAN
    BY TypesAre DEF Parts, PlaceInv, Pipeclose
  <2> QED
    BY <2>1
<1>2. PICK o : o = pipe[q].open \ {Flag(w)}
  OBVIOUS
<1>3. /\ pipe' = [pipe EXCEPT ![q].open = o]
      /\ used' = IF o = {} THEN used \ {q} ELSE used
      /\ UNCHANGED <<result, killed>>
  BY <1>1, <1>2 DEF Pipeclose, ClosedEnd, Flag
<1>4. \A x \in Pipe : /\ pipe'[x].open = IF x = q THEN o ELSE pipe[x].open
                      /\ pipe'[x].nread = pipe[x].nread /\ pipe'[x].nwrite = pipe[x].nwrite
                      /\ pipe'[x].data = pipe[x].data
  BY <1>3, TypesAre DEF Parts, PipeRec
<1>5. Queues' = Queues
  <2>1. \A x \in Pipe : Contents(x)' = Contents(x)
    BY <1>4 DEF Contents, Held
  <2> QED
    BY <2>1 DEF Queues
<1>6. used \subseteq Pipe /\ pipe[q].open \subseteq {"read", "write"}
  BY TypesAre, Typed DEF Parts
<1>7. ASSUME NEW x \in Pipe, NEW s
      PROVE  x \in used' /\ s \in pipe'[x].open <=> x \in used /\ s \in pipe[x].open /\ ~(x = q /\ s = Flag(w))
  <2>1. CASE x = q
    BY <1>2, <1>3, <1>4, <2>1
  <2>2. CASE x # q
    BY <1>3, <1>4, <2>2
  <2> QED
    BY <2>1, <2>2
<1>8. used' \subseteq Pipe
  BY <1>3, <1>6
<1>9. CASE w
  <2>1. Flag(w) = "write"
    BY <1>9 DEF Flag
  <2>2. Writers' = Writers \ {q} /\ Readers' = Readers
    BY <1>6, <1>7, <1>8, <2>1, EndsAre, EndsAreNext DEF EndsMatch
  <2> QED
    BY <1>3, <1>5, <2>2 DEF Promise!Next, Promise!CloseWrite
<1>10. CASE ~w
  <2>1. Flag(w) = "read"
    BY <1>10 DEF Flag
  <2>2. Readers' = Readers \ {q} /\ Writers' = Writers
    BY <1>6, <1>7, <1>8, <2>1, EndsAre, EndsAreNext DEF EndsMatch
  <2> QED
    BY <1>3, <1>5, <2>2 DEF Promise!Next, Promise!CloseRead
<1> QED
  BY <1>9, <1>10

LEMMA WriteMap ==
  ASSUME Parts, Parts', NEW p \in Proc, Pipewrite(p)
  PROVE  [Promise!Next]_(Promise!vars)
<1>1. pc[p] = "write" /\ UNCHANGED used /\ Using(p, TRUE)
  BY DEF Pipewrite, Using
<1>2. TypeOK /\ EndInv /\ FlagInv /\ CallInv /\ TypeOK'
  BY DEF Parts
<1>3. PICK q \in Pipe : q = call[p][1] /\ q \in used /\ "write" \in pipe[q].open
  BY <1>1, <1>2, UserHasEnd DEF Flag
<1>4. q \in Writers
  BY <1>3, EndsAre DEF EndsMatch
<1>5. CASE WriteEnd(p, q)
  <2>1. UNCHANGED <<pipe, killed>> /\ result' = [result EXCEPT ![p] = <<>>]
    BY <1>5 DEF WriteEnd, Returns
  <2>2. SameEnds /\ SameBytes
    BY <1>1, <2>1, KeptEnds, KeptBytes
  <2> QED
    BY <2>1, <2>2 DEF SameEnds, SameBytes, Promise!Next, Promise!Written
<1>6. CASE WriteFails(p, q) /\ ("read" \notin pipe[q].open \/ p \in killed)
  <2>1. UNCHANGED <<pipe, killed>> /\ result' = [result EXCEPT ![p] = Fail]
    BY <1>6 DEF WriteFails, Returns
  <2>2. SameEnds /\ SameBytes
    BY <1>1, <2>1, KeptEnds, KeptBytes
  <2>3. p \in killed \/ q \in Writers \ Readers
    BY <1>4, <1>6, EndsAre DEF EndsMatch
  <2> QED
    BY <2>1, <2>2, <2>3 DEF SameEnds, SameBytes, Promise!Next, Promise!Failed
<1>7. CASE WriteFull(p, q)
  <2>1. UNCHANGED <<pipe, result>> /\ killed' \in {killed, killed \cup {p}}
    BY <1>7 DEF WriteFull, MissedKill
  <2>2. SameEnds /\ SameBytes
    BY <1>1, <2>1, KeptEnds, KeptBytes
  <2> QED
    BY <2>1, <2>2 DEF SameEnds, SameBytes, Promise!Next, Promise!Kill, Promise!vars
<1>8. CASE WriteByte(p, q) /\ "read" \in pipe[q].open
  <2>1. PICK b \in Byte : pipe' = [pipe EXCEPT ![q].data[pipe[q].nwrite % PIPESIZE] = b,
                                          ![q].nwrite = (@ + 1) % Width]
    BY <1>8 DEF WriteByte
  <2>2. UNCHANGED <<result, killed>> /\ Held(q) # PIPESIZE /\ Held(q) <= PIPESIZE
    BY <1>2, <1>8 DEF WriteByte, CallInv
  <2>3. Put(q, b)
    BY <1>2, <2>1, <2>2, PutByte
  <2>4. Held(q) < PIPESIZE
    BY <1>2, <2>2, HeldRange, PipeAssumption
  <2>5. Queues' = [Queues EXCEPT ![q] = Append(@, b)] /\ Len(Queues[q]) < PIPESIZE
    BY <1>2, <2>3, <2>4, PutContents
  <2>6. SameEnds
    BY <1>1, <2>3, KeptEnds DEF Put
  <2>7. q \in Readers
    BY <1>3, <1>8, EndsAre DEF EndsMatch
  <2>8. Promise!Put(q, b)
    BY <1>4, <2>2, <2>5, <2>6, <2>7 DEF SameEnds, Promise!Put
  <2> QED
    BY <2>8 DEF Promise!Next
<1> QED
  BY <1>3, <1>5, <1>6, <1>7, <1>8 DEF Pipewrite

LEMMA ReadMap ==
  ASSUME Parts, Parts', NEW p \in Proc, Piperead(p)
  PROVE  [Promise!Next]_(Promise!vars)
<1>1. pc[p] = "read" /\ UNCHANGED used /\ Using(p, FALSE)
  BY DEF Piperead, Using
<1>2. TypeOK /\ EndInv /\ FlagInv /\ CallInv /\ TypeOK'
  BY DEF Parts
<1>3. PICK q \in Pipe : q = call[p][1] /\ q \in used /\ "read" \in pipe[q].open /\ call[p][2] > 0
  BY <1>1, <1>2, UserHasEnd DEF Flag
<1>4. q \in Readers
  BY <1>3, EndsAre DEF EndsMatch
<1>5. CASE ReadSleep(p, q)
  <2>1. UNCHANGED <<pipe, result>> /\ killed' \in {killed, killed \cup {p}}
    BY <1>5 DEF ReadSleep, MissedKill
  <2>2. SameEnds /\ SameBytes
    BY <1>1, <2>1, KeptEnds, KeptBytes
  <2> QED
    BY <2>1, <2>2 DEF SameEnds, SameBytes, Promise!Next, Promise!Kill, Promise!vars
<1>6. CASE ReadKilled(p, q)
  <2>1. UNCHANGED <<pipe, killed>> /\ result' = [result EXCEPT ![p] = Fail] /\ p \in killed
    BY <1>6 DEF ReadKilled, Returns
  <2>2. SameEnds /\ SameBytes
    BY <1>1, <2>1, KeptEnds, KeptBytes
  <2> QED
    BY <2>1, <2>2 DEF SameEnds, SameBytes, Promise!Next, Promise!Failed
<1>7. CASE ReadData(p, q) /\ ~(Held(q) = 0 /\ "write" \in pipe[q].open)
  <2>1. PICK k \in 0 .. Held(q), lost \in 0 .. 1 :
           /\ IF lost = 1 THEN k < call[p][2] /\ k < Held(q)
              ELSE k = IF Held(q) < call[p][2] THEN Held(q) ELSE call[p][2]
           /\ pipe' = [pipe EXCEPT ![q].nread = (@ + k + lost) % Width]
           /\ result' = [result EXCEPT ![p] = IF Held(q) = 0 THEN Eof ELSE SubSeq(Contents(q), 1, k)]
    BY <1>7 DEF ReadData, Returns
  <2>2. UNCHANGED killed
    BY <1>7 DEF ReadData
  <2>3. Held(q) \in Nat /\ Held(q) <= PIPESIZE /\ Len(Contents(q)) = Held(q) /\ Contents(q) \in Seq(Byte)
    BY <1>2, ContentsAre DEF CallInv
  <2>4. PICK j \in Nat : j = k + lost /\ j <= Held(q) /\ k \in Nat
    BY <2>1, <2>3
  <2>5. pipe' = [pipe EXCEPT ![q].nread = (@ + j) % Width]
    <3>1. pipe[q].nread \in Nat
      BY <1>2, Typed, PipeAssumption
    <3>2. pipe[q].nread + k + lost = pipe[q].nread + j
      BY <2>1, <2>4, <3>1
    <3> QED
      BY <2>1, <3>2
  <2>6. Got(q, j)
    BY <1>2, <2>4, <2>5, GetBytes
  <2>7. Queues' = [Queues EXCEPT ![q] = SubSeq(@, j + 1, Len(@))] /\ Queues[q] = Contents(q)
    BY <1>2, <2>4, <2>6, GotContents DEF Queues
  <2>8. SameEnds
    BY <1>1, <2>6, KeptEnds DEF Got
  <2>9. CASE Held(q) = 0
    <3>1. Contents(q) = <<>> /\ Contents(q)' = <<>>
      <4>1. Held(q)' = 0
        BY <2>3, <2>4, <2>6, <2>9 DEF Got
      <4>2. Contents(q)' \in Seq(Byte) /\ Len(Contents(q)') = 0
        BY <1>2, <4>1, ContentsNext DEF Buffered
      <4> QED
        BY <2>3, <2>9, <4>2, EmptySeq
    <3>2. \A x \in Pipe \ {q} : Contents(x)' = Contents(x)
      BY <2>6 DEF Got, Contents
    <3>3. Queues' = Queues
      BY <3>1, <3>2 DEF Queues
    <3>4. q \in Readers \ Writers
      BY <1>4, <1>7, <2>9, EndsAre DEF EndsMatch
    <3>5. Promise!EndOfFile(p, q)
      BY <2>1, <2>2, <2>7, <2>8, <2>9, <3>1, <3>3, <3>4 DEF SameEnds, Promise!EndOfFile
    <3> QED
      BY <3>5 DEF Promise!Next
  <2>10. CASE Held(q) > 0
    <3>1. call[p][2] \in Nat
      BY <1>2, TypesAre, PipeAssumption
    <3>2. k + lost \in 1 .. Held(q) /\ k \in 0 .. PIPESIZE
      BY <1>3, <2>1, <2>3, <2>4, <2>10, <3>1, PipeAssumption
    <3>3. Promise!Get(p, q, k, lost)
      <4>1. k + lost = j
        BY <2>4
      <4>2. Queues' = [Queues EXCEPT ![q] = SubSeq(@, k + lost + 1, Len(@))]
        BY <2>7, <4>1
      <4>3. k + lost \in 1 .. Len(Queues[q])
        BY <2>3, <2>7, <3>2
      <4>4. result' = [result EXCEPT ![p] = SubSeq(Queues[q], 1, k)]
        <5>1. (IF Held(q) = 0 THEN Eof ELSE SubSeq(Contents(q), 1, k)) = SubSeq(Queues[q], 1, k)
          BY <2>7, <2>10
        <5> QED
          BY <2>1, <5>1
      <4> QED
        BY <2>2, <2>8, <4>2, <4>3, <4>4 DEF SameEnds, Promise!Get
    <3> QED
      BY <2>1, <3>2, <3>3 DEF Promise!Next
  <2> QED
    BY <2>3, <2>9, <2>10
<1> QED
  BY <1>3, <1>5, <1>6, <1>7 DEF Piperead

\* Every byte arrives once and in order, and the end of the file comes when
\* all is read and the last writer has closed its end (pipe.c).
THEOREM ByteQueueRefinement == Spec => ImplementsByteQueue
<1>1. Init => Promise!Init
  <2> SUFFICES ASSUME Init PROVE Promise!Init
    OBVIOUS
  <2>1. Parts /\ used = {} /\ killed = {} /\ result = [p \in Proc |-> None]
    BY InitParts DEF Init
  <2>2. Readers = {} /\ Writers = {}
    BY <2>1, EndsAre DEF EndsMatch
  <2>3. ASSUME NEW q \in Pipe PROVE Contents(q) = <<>>
    <3>1. pipe[q].nread = 0 /\ pipe[q].nwrite = 0
      BY DEF Init, NewPipe
    <3>2. (0 - 0) % Width = 0
      BY PipeAssumption, ModSmall
    <3>3. Held(q) = 0
      BY <3>1, <3>2 DEF Held
    <3> QED
      BY <2>1, <3>3, ContentsAre, EmptySeq DEF Parts
  <2>4. Queues = [q \in Pipe |-> <<>>]
    BY <2>3 DEF Queues
  <2> QED
    BY <2>1, <2>2, <2>4 DEF Promise!Init
<1>2. ASSUME Parts, Parts', [Next]_vars PROVE [Promise!Next]_(Promise!vars)
  <2>1. CASE UNCHANGED vars
    BY <1>2, <2>1, QuietMap DEF vars, pipeVars
  <2>2. ASSUME NEW p \in Proc,
               \/ FileCall(p) \/ ReadOrWrite(p) \/ Exit(p) \/ PipeFiles(p) \/ CloseFile(p) \/ Closed(p)
        PROVE  UNCHANGED Promise!vars
    <3>1. UNCHANGED <<pipe, used, result, killed>>
      BY <2>2 DEF FileCall, ReadOrWrite, Exit, PipeFiles, CloseFile, Closed, pipeVars
    <3> QED
      BY <1>2, <3>1, QuietMap
  <2>3. ASSUME NEW p \in Proc, Fork(p) PROVE Promise!Next
    <3>1. UNCHANGED <<pipe, used>>
      BY <2>3 DEF Fork
    <3>2. SameEnds /\ SameBytes
      BY <1>2, <3>1, KeptEnds, KeptBytes
    <3>3. PICK c \in Proc : killed' = killed \ {c} /\ result' = [result EXCEPT ![c] = None]
      BY <2>3 DEF Fork
    <3> QED
      BY <3>2, <3>3 DEF SameEnds, SameBytes, Promise!Next, Promise!NewProcess
  <2>4. ASSUME NEW p \in Proc, Kill(p) PROVE Promise!Next
    <3>1. UNCHANGED <<pipe, used, result>> /\ killed' = killed \cup {p}
      BY <2>4 DEF Kill
    <3>2. SameEnds /\ SameBytes
      BY <1>2, <3>1, KeptEnds, KeptBytes
    <3> QED
      BY <3>1, <3>2 DEF SameEnds, SameBytes, Promise!Next, Promise!Kill
  <2> QED
    BY <1>2, <2>1, <2>2, <2>3, <2>4, AllocMap, CloseMap, WriteMap, ReadMap DEF Next
<1>3. Inv => Parts
  BY InvParts DEF Parts
<1> QED
  BY <1>1, <1>2, <1>3, Invariance, PTL DEF Spec, ImplementsByteQueue, Promise!Spec
=============================================================================
