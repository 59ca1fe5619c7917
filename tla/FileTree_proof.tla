---------------------------- MODULE FileTree_proof ----------------------------
(***************************************************************************)
(* Proofs about the inode table, names and links for any number of         *)
(* processes, names, inodes and slots, and any calls.                      *)
(***************************************************************************)
EXTENDS FileTree_inv, FiniteSetTheorems, SequenceTheorems, WellFoundedInduction, TLAPS

-----------------------------------------------------------------------------
(* Least elements, constants *)

LEMMA LtWellFounded == IsWellFoundedOn(Lt, Nat)
  BY NatLessThanWellFounded DEF OpToRel, Lt

\* Min of a set of numbers is one of them.
LEMMA MinIn ==
  ASSUME NEW S \in SUBSET Nat, S # {}
  PROVE  Min(S) \in S
<1>1. PICK x \in S : \A y \in S : ~(<<y, x>> \in Lt)
  BY LtWellFounded, WFMin
<1>2. \A y \in S : <<y, x>> \in Lt <=> y < x
  BY DEF Lt
<1>3. x \in Nat /\ \A y \in S : y \in Nat /\ ~(y < x)
  BY <1>1, <1>2
<1>4. \A y \in S : x <= y
  BY <1>3
<1> QED
  BY <1>4 DEF Min

LEMMA Constants ==
  /\ Slot \subseteq Nat /\ 0 \notin Slot /\ Inum \subseteq Nat /\ 0 \notin Inum /\ ROOTINO \in Inum
  /\ NoOne \notin Proc /\ Name \subseteq Entries /\ DotDot \in Entries /\ DotDot \notin Name
  /\ Slot \subseteq Pointer /\ 0 \in Pointer /\ \A s \in Pointer : s \in Slot <=> s # 0
  BY TreeAssumption DEF Slot, Inum, ROOTINO, Entries, Pointer

LEMMA Finite ==
  IsFiniteSet(Slot) /\ IsFiniteSet(Inum) /\ IsFiniteSet(Proc) /\ IsFiniteSet(Name)
  BY TreeAssumption, FS_Interval DEF Slot, Inum

-----------------------------------------------------------------------------
(* Paths *)

LEMMA HeadTail ==
  ASSUME NEW S, NEW q \in Seq(S), q # <<>>
  PROVE  /\ Head(q) \in S /\ Tail(q) \in Seq(S) /\ Len(q) \in Nat \ {0}
         /\ Len(Tail(q)) = Len(q) - 1 /\ (Tail(q) = <<>> <=> Len(q) = 1)
         /\ Head(q) = q[1]
         /\ \A k \in 1 .. Len(Tail(q)) : Tail(q)[k] = q[k + 1] /\ k + 1 \in 1 .. Len(q)
<1>1. Head(q) \in S /\ Tail(q) \in Seq(S) /\ Len(q) \in Nat \ {0}
  BY EmptySeq, HeadTailProperties, LenProperties
<1>2. Len(Tail(q)) = Len(q) - 1 /\ Head(q) = q[1]
  BY <1>1, HeadTailProperties
<1>3. Tail(q) = <<>> <=> Len(q) = 1
  BY <1>1, <1>2, EmptySeq, LenProperties
<1>4. \A k \in 1 .. Len(Tail(q)) : Tail(q)[k] = q[k + 1] /\ k + 1 \in 1 .. Len(q)
  BY <1>1, <1>2, HeadTailProperties
<1> QED
  BY <1>1, <1>2, <1>3, <1>4

LEMMA PlainPath ==
  ASSUME NEW q \in Seq(Entries)
  PROVE  Names(q) = q /\ q \in Paths
<1>1. q # <<>> => Head(q) # "/"
  <2>1. "/" \notin Entries
    BY TreeAssumption DEF Entries, DotDot
  <2> QED
    BY <2>1, HeadTail
<1>2. Names(q) = q
  BY <1>1 DEF Names, IsAbsolute
<1>3. q \in Seq(Entries \cup {"/"})
  OBVIOUS
<1> QED
  BY <1>2, <1>3 DEF Paths

-----------------------------------------------------------------------------
(* References *)

LEMMA HoldType ==
  \A p, s : Hold(p, s) \in Nat
  BY DEF Hold, Is

LEMMA OneOf ==
  ASSUME NEW A, NEW S, IsFiniteSet(S), NEW x, x \notin S
  PROVE  /\ IsFiniteSet(S \cup {x}) /\ IsFiniteSet(A \cap S)
         /\ Cardinality(A \cap (S \cup {x})) = Cardinality(A \cap S) + IF x \in A THEN 1 ELSE 0
<1>1. IsFiniteSet(S \cup {x}) /\ IsFiniteSet(A \cap S) /\ Cardinality(A \cap S) \in Nat
  BY FS_AddElement, FS_Intersection, FS_CardinalityType
<1>2. CASE x \in A
  <2>1. A \cap (S \cup {x}) = (A \cap S) \cup {x}
    BY <1>2
  <2> QED
    BY <1>1, <1>2, <2>1, FS_AddElement
<1>3. CASE x \notin A
  <2>1. A \cap (S \cup {x}) = A \cap S
    BY <1>3
  <2>2. Cardinality(A \cap (S \cup {x})) = Cardinality(A \cap S)
    BY <2>1
  <2> DEFINE c == Cardinality(A \cap (S \cup {x}))
             d == Cardinality(A \cap S)
  <2>3. c = d /\ d \in Nat
    BY <1>1, <2>2
  <2> HIDE DEF c, d
  <2>4. c = d + 0
    BY <2>3
  <2> QED
    BY <1>1, <1>3, <2>4 DEF c, d
<1> QED
  BY <1>1, <1>2, <1>3

LEMMA OwnCard ==
  ASSUME NEW p, NEW s
  PROVE  IsFiniteSet(Pointers) /\ IsFiniteSet(Own(p, s)) /\ Cardinality(Own(p, s)) = Hold(p, s)
<1> DEFINE A == Own(p, s)
           S1 == {} \cup {"cur"}
           S2 == S1 \cup {"ip"}
           S3 == S2 \cup {"dp"}
           S4 == S3 \cup {"put"}
           S5 == S4 \cup {"cwd"}
           S6 == S5 \cup {"ofile"}
<1>0. IsFiniteSet({}) /\ A \cap {} = {} /\ Cardinality({}) = 0
  BY FS_EmptySet
<1>1. /\ "cur" \in A <=> cur[p] = s
      /\ "ip" \in A <=> ip[p] = s
      /\ "dp" \in A <=> dp[p] = s
      /\ "put" \in A <=> put[p] = s
      /\ "cwd" \in A <=> cwd[p] = s
      /\ "ofile" \in A <=> ofile[p] = s
  BY DEF Own, Pointers, Deref
<1>2. A \cap S6 = A /\ Pointers = S6
  BY DEF Own, Pointers
<1>3. /\ "cur" \notin {} /\ "ip" \notin S1 /\ "dp" \notin S2 /\ "put" \notin S3 /\ "cwd" \notin S4
      /\ "ofile" \notin S5
  OBVIOUS
<1> HIDE DEF A
<1>4. IsFiniteSet(S1) /\ Cardinality(A \cap S1) = 0 + IF "cur" \in A THEN 1 ELSE 0
  BY <1>0, <1>3, OneOf
<1> HIDE DEF S1
<1>5. IsFiniteSet(S2) /\ Cardinality(A \cap S2) = Cardinality(A \cap S1) + IF "ip" \in A THEN 1 ELSE 0
  BY <1>4, <1>3, OneOf
<1> HIDE DEF S2
<1>6. IsFiniteSet(S3) /\ Cardinality(A \cap S3) = Cardinality(A \cap S2) + IF "dp" \in A THEN 1 ELSE 0
  BY <1>5, <1>3, OneOf
<1> HIDE DEF S3
<1>7. IsFiniteSet(S4) /\ Cardinality(A \cap S4) = Cardinality(A \cap S3) + IF "put" \in A THEN 1 ELSE 0
  BY <1>6, <1>3, OneOf
<1> HIDE DEF S4
<1>8. IsFiniteSet(S5) /\ Cardinality(A \cap S5) = Cardinality(A \cap S4) + IF "cwd" \in A THEN 1 ELSE 0
  BY <1>7, <1>3, OneOf
<1> HIDE DEF S5
<1>9. IsFiniteSet(S6) /\ Cardinality(A \cap S6) = Cardinality(A \cap S5) + IF "ofile" \in A THEN 1 ELSE 0
  BY <1>8, <1>3, OneOf
<1>10. Cardinality(A) = Hold(p, s)
  <2>1. /\ (IF "cur" \in A THEN 1 ELSE 0) = Is(cur[p], s)
        /\ (IF "ip" \in A THEN 1 ELSE 0) = Is(ip[p], s)
        /\ (IF "dp" \in A THEN 1 ELSE 0) = Is(dp[p], s)
        /\ (IF "put" \in A THEN 1 ELSE 0) = Is(put[p], s)
        /\ (IF "cwd" \in A THEN 1 ELSE 0) = Is(cwd[p], s)
        /\ (IF "ofile" \in A THEN 1 ELSE 0) = Is(ofile[p], s)
    BY <1>1 DEF Is
  <2>2. Cardinality(A) = Cardinality(A \cap S6)
    BY <1>2
  <2> HIDE DEF S6
  <2> QED
    BY <2>1, <2>2, <1>4, <1>5, <1>6, <1>7, <1>8, <1>9 DEF Hold
<1>11. IsFiniteSet(Pointers) /\ A \subseteq Pointers
  BY <1>2, <1>9 DEF A, Own
<1> QED
  BY <1>10, <1>11, FS_Subset DEF A

LEMMA RefsSplit ==
  ASSUME NEW p \in Proc, NEW s
  PROVE  /\ IsFiniteSet(ElseRefs(p, s)) /\ Cardinality(ElseRefs(p, s)) \in Nat
         /\ References(s) = Cardinality(ElseRefs(p, s)) + Hold(p, s)
<1> DEFINE All == {r \in Proc \X Pointers : Deref(r[1], r[2]) = s}
           E == ElseRefs(p, s)
           O == Own(p, s)
           T == {<<p, x>> : x \in O}
<1>1. IsFiniteSet(Pointers) /\ IsFiniteSet(O) /\ Cardinality(O) = Hold(p, s)
  BY OwnCard
<1>2. IsFiniteSet(T) /\ Cardinality(T) = Cardinality(O)
  <2> DEFINE g == [x \in O |-> <<p, x>>]
  <2>1. g \in Bijection(O, T)
    BY DEF Bijection, Injection, Surjection, IsInjective
  <2> QED
    BY <1>1, <2>1, FS_Bijection DEF ExistsBijection
<1>3. IsFiniteSet(E)
  <2>1. IsFiniteSet(Proc \ {p})
    BY Finite, FS_Subset
  <2>2. IsFiniteSet((Proc \ {p}) \X Pointers)
    BY <1>1, <2>1, FS_Product
  <2> QED
    BY <2>2, FS_Subset DEF ElseRefs
<1>4. All = E \cup T
  BY DEF ElseRefs, Own
<1>5. E \cap T = {}
  BY DEF ElseRefs
<1>6. Cardinality(E \cup T) = Cardinality(E) + Cardinality(T)
  <2>1. Cardinality(E \cap T) = 0
    BY <1>5, FS_EmptySet
  <2>2. Cardinality(E) \in Nat /\ Cardinality(T) \in Nat
    BY <1>2, <1>3, FS_CardinalityType
  <2>3. Cardinality(E \cup T) = Cardinality(E) + Cardinality(T) - Cardinality(E \cap T)
    BY <1>2, <1>3, FS_Union
  <2> HIDE DEF T, E
  <2> QED
    BY <2>1, <2>2, <2>3
<1>7. References(s) = Cardinality(All)
  BY DEF References
<1> QED
  BY <1>1, <1>2, <1>3, <1>4, <1>6, <1>7, FS_CardinalityType

LEMMA RefsSumHolds == RefsSum
  BY RefsSplit DEF RefsSum
LEMMA RefsSumNext == RefsSum'
  BY RefsSumHolds, PTL

\* If only p moves its pointers, the references change as those of p.
LEMMA RefsChange ==
  ASSUME NEW p \in Proc, \A q \in Proc \ {p} : SamePointers(q)
  PROVE  \A s : References(s)' = References(s) - Hold(p, s) + Hold(p, s)'
<1> SUFFICES ASSUME NEW s PROVE References(s)' = References(s) - Hold(p, s) + Hold(p, s)'
  OBVIOUS
<1>1. \A q \in Proc \ {p}, x \in Pointers : Deref(q, x)' = Deref(q, x)
  BY DEF SamePointers, Pointers, Deref
<1>2. ElseRefs(p, s)' = ElseRefs(p, s)
  BY <1>1 DEF ElseRefs
<1>3. References(s)' = Cardinality(ElseRefs(p, s)') + Hold(p, s)'
  BY RefsSumNext DEF RefsSum
<1>4. Cardinality(ElseRefs(p, s)') = Cardinality(ElseRefs(p, s))
  BY <1>2
<1>5. Hold(p, s) \in Nat /\ Hold(p, s)' \in Nat
  BY HoldType DEF Hold, Is
<1> QED
  BY <1>3, <1>4, <1>5, RefsSplit

-----------------------------------------------------------------------------
(* A step of p changes the variables of no other process *)

LEMMA TypeParts ==
  TypeOK <=> DiskType /\ TableType /\ ProcType /\ leaked \in [Slot -> Nat] /\ lost \subseteq Inum
  BY DEF TypeOK, DiskType, TableType, ProcType, Stages, Call, Inode

LEMMA TypePartsNext ==
  TypeOK' <=> DiskType' /\ TableType' /\ ProcType' /\ leaked' \in [Slot -> Nat] /\ lost' \subseteq Inum
  BY DEF TypeOK, DiskType, TableType, ProcType, Stages, Call, Inode

LEMMA OwnTyped ==
  ASSUME TypeOK, NEW p \in Proc
  PROVE  OwnType(p)
  BY TypeParts DEF ProcType, OwnType

LEMMA LocalSame ==
  ASSUME TypeOK, NEW p \in Proc, Local(p)
  PROVE  \A q \in Proc \ {p} : Same(q)
  BY TypeParts DEF ProcType, Local, Same

LEMMA LocalType ==
  ASSUME TypeOK, NEW p \in Proc, Local(p), OwnType(p)'
  PROVE  ProcType'
<1>1. ProcType
  BY TypeParts
<1>2. /\ pc'[p] \in Pcs /\ ret'[p] \in Pcs /\ put'[p] \in Pointer /\ want'[p] \in Pointer
      /\ stage'[p] \in Stages /\ cur'[p] \in Pointer /\ ip'[p] \in Pointer /\ dp'[p] \in Pointer
      /\ call'[p] \in Call /\ path'[p] \in Paths /\ rest'[p] \in Paths /\ count'[p] \in Nat
      /\ cwd'[p] \in Slot /\ ofile'[p] \in Pointer
  BY DEF OwnType
<1>3. pc' \in [Proc -> Pcs] /\ ret' \in [Proc -> Pcs] /\ stage' \in [Proc -> Stages]
  BY <1>1, <1>2 DEF ProcType, Local
<1>4. put' \in [Proc -> Pointer] /\ want' \in [Proc -> Pointer]
  BY <1>1, <1>2 DEF ProcType, Local
<1>5. cur' \in [Proc -> Pointer] /\ ip' \in [Proc -> Pointer] /\ dp' \in [Proc -> Pointer]
  BY <1>1, <1>2 DEF ProcType, Local
<1>6. cwd' \in [Proc -> Slot] /\ ofile' \in [Proc -> Pointer]
  BY <1>1, <1>2 DEF ProcType, Local
<1>7. call' \in [Proc -> Call] /\ count' \in [Proc -> Nat]
  BY <1>1, <1>2 DEF ProcType, Local
<1>8. path' \in [Proc -> Paths] /\ rest' \in [Proc -> Paths]
  BY <1>1, <1>2 DEF ProcType, Local
<1> QED
  BY <1>3, <1>4, <1>5, <1>6, <1>7, <1>8 DEF ProcType

\* What the others know is as before.
LEMMA SameInv ==
  ASSUME NEW q, Same(q)
  PROVE  /\ ProcInv(q)' <=> ProcInv(q)
         /\ \A s : Locks(q, s)' <=> Locks(q, s)
         /\ \A s : Hold(q, s)' = Hold(q, s)
<1>1. PtrInv(q)' <=> PtrInv(q)
  BY DEF Same, PtrInv, HasIp, Where
<1>2. OpInv(q)' <=> OpInv(q)
  BY DEF Same, OpInv, Where
<1>3. PathInv(q)' <=> PathInv(q)
  BY DEF Same, PathInv, HasName
<1>4. Distinct(q)' <=> Distinct(q)
  BY DEF Same, Distinct, HasLockedIp, Truncating
<1>5. \A s : Locks(q, s)' <=> Locks(q, s)
  BY DEF Same, Locks, HasLockedIp, Truncating
<1>6. \A s : Hold(q, s)' = Hold(q, s)
  BY DEF Same, Hold
<1> QED
  BY <1>1, <1>2, <1>3, <1>4, <1>5, <1>6 DEF ProcInv

LEMMA RefStep ==
  ASSUME RefInv, NEW p \in Proc, Local(p),
         DiskType', TableType', OwnType(p)', leaked' \in [Slot -> Nat], lost' \subseteq Inum,
         RefMove(p), LockMove(p), PtrInv(p)', OpInv(p)', PathInv(p)', Distinct(p)',
         \A s \in Slot : itable'[s].lock = p <=> Locks(p, s)',
         \A s \in Slot : itable'[s].ref > 0 => itable'[s].inum # 0,
         \A s \in Slot : itable'[s].lock # NoOne => itable'[s].valid
  PROVE  RefInv'
<1>1. TypeOK /\ \A s \in Slot : itable[s].ref = leaked[s] + References(s)
  BY DEF RefInv, RefsExact
<1>2. TypeOK'
  BY <1>1, LocalType, TypePartsNext
<1>3. \A q \in Proc \ {p} : Same(q)
  BY <1>1, LocalSame
<1>4. \A s \in Slot : itable'[s].ref = leaked'[s] + References(s)'
  <2> SUFFICES ASSUME NEW s \in Slot PROVE itable'[s].ref = leaked'[s] + References(s)'
    OBVIOUS
  <2>1. References(s)' = References(s) - Hold(p, s) + Hold(p, s)'
    BY <1>3, RefsChange DEF Same, SamePointers
  <2>2. /\ itable[s].ref \in Nat /\ itable'[s].ref \in Nat /\ leaked[s] \in Nat /\ leaked'[s] \in Nat
    BY <1>1, <1>2 DEF TypeOK
  <2>3. Hold(p, s) \in Nat /\ Hold(p, s)' \in Nat
    BY DEF Hold, Is
  <2>4. References(s) \in Nat
    BY RefsSplit, HoldType
  <2>5. itable[s].ref = leaked[s] + References(s)
    BY <1>1
  <2>6. itable'[s].ref + leaked[s] + Hold(p, s) = itable[s].ref + leaked'[s] + Hold(p, s)'
    BY DEF RefMove
  <2> DEFINE h == Hold(p, s)
             k == Hold(p, s)'
             r == References(s)
             t == References(s)'
  <2>7. t = r - h + k /\ h \in Nat /\ k \in Nat /\ r \in Nat
    BY <2>1, <2>3, <2>4
  <2>8. itable[s].ref = leaked[s] + r
    BY <2>5
  <2>9. itable'[s].ref + leaked[s] + h = itable[s].ref + leaked'[s] + k
    BY <2>6
  <2> HIDE DEF h, k, r, t
  <2>10. itable'[s].ref = leaked'[s] + t
    BY <2>2, <2>7, <2>8, <2>9
  <2> QED
    BY <2>10 DEF t
<1>5. \A q \in Proc : ProcInv(q)'
  <2>1. ProcInv(p)'
    BY DEF ProcInv
  <2>2. \A q \in Proc \ {p} : ProcInv(q)'
    BY <1>3, SameInv DEF RefInv
  <2> QED
    BY <2>1, <2>2
<1>6. LockInv'
  <2> SUFFICES ASSUME NEW q \in Proc \ {p}, NEW s \in Slot
               PROVE  itable'[s].lock = q <=> Locks(q, s)'
    BY DEF LockInv
  <2>1. itable'[s].lock = q <=> itable[s].lock = q
    BY Constants DEF LockMove
  <2>2. itable[s].lock = q <=> Locks(q, s)
    BY DEF RefInv, LockInv
  <2> QED
    BY <1>3, <2>1, <2>2, SameInv
<1> QED
  BY <1>2, <1>4, <1>5, <1>6 DEF RefInv, RefsExact, InumInv, ValidInv

-----------------------------------------------------------------------------
(* What the operators of the inode table do to each field *)

LEMMA Unlocked ==
  ASSUME NEW t \in [Slot -> Inode], NEW s \in Slot
  PROVE  /\ Unlock(t, s) \in [Slot -> Inode]
         /\ \A x \in Slot : /\ ButLock(Unlock(t, s)[x], t[x])
                            /\ Unlock(t, s)[x].lock = IF x = s THEN NoOne ELSE t[x].lock
  BY DEF Unlock, Inode, ButLock

LEMMA GotIn ==
  ASSUME NEW i \in Inum, CanGet(i)
  PROVE  Got(i) \in IF Cached(i) # {} THEN Cached(i) ELSE Unused
<1>1. Cached(i) \subseteq Slot /\ Unused \subseteq Slot
  BY DEF Cached, Unused
<1>2. Cached(i) \in SUBSET Nat /\ Unused \in SUBSET Nat
  BY <1>1, Constants
<1>3. CASE Cached(i) # {}
  BY <1>2, <1>3, MinIn DEF Got
<1>4. CASE Cached(i) = {}
  <2>1. Unused # {}
    BY <1>4 DEF CanGet
  <2> QED
    BY <1>2, <1>4, <2>1, MinIn DEF Got
<1> QED
  BY <1>3, <1>4

LEMMA Gotten ==
  ASSUME TableType, NEW i \in Inum, CanGet(i)
  PROVE  /\ Got(i) \in Slot
         /\ AfterGet(i) \in [Slot -> Inode]
         /\ \A x \in Slot : /\ AfterGet(i)[x].ref = itable[x].ref + Is(x, Got(i))
                            /\ AfterGet(i)[x].lock = itable[x].lock
                            /\ AfterGet(i)[x].type = itable[x].type
                            /\ AfterGet(i)[x].nlink = itable[x].nlink
                            /\ x # Got(i) => AfterGet(i)[x] = itable[x]
                            /\ itable[x].ref > 0 => ButRef(AfterGet(i)[x], itable[x])
         /\ AfterGet(i)[Got(i)].inum = i
         /\ itable[Got(i)].ref = 0 => /\ ~AfterGet(i)[Got(i)].valid
                                      /\ \A x \in Slot : itable[x].ref > 0 => itable[x].inum # i
<1>1. \A x \in Slot : /\ itable[x].ref \in Nat
                      /\ x \in Cached(i) <=> itable[x].ref > 0 /\ itable[x].inum = i
                      /\ x \in Unused <=> itable[x].ref = 0
  BY DEF TableType, Inode, Cached, Unused
<1> DEFINE g == Got(i)
           r == itable[g]
           T == AfterGet(i)
<1>2. CASE Cached(i) # {}
  <2>1. Got(i) \in Slot /\ itable[Got(i)].ref > 0 /\ itable[Got(i)].inum = i
    BY <1>1, <1>2, GotIn DEF Cached
  <2>2. T = [itable EXCEPT ![g].ref = r.ref + 1]
    BY <1>2 DEF AfterGet
  <2>3. g \in Slot /\ r.ref > 0 /\ r.inum = i /\ r = itable[g] /\ r \in Inode
    BY <2>1 DEF TableType
  <2> HIDE DEF g, r, T
  <2>4. [r EXCEPT !.ref = r.ref + 1] \in Inode
    BY <2>3 DEF Inode
  <2>5. T \in [Slot -> Inode] /\ T[g] = [r EXCEPT !.ref = r.ref + 1] /\ \A x \in Slot : x # g => T[x] = itable[x]
    BY <2>2, <2>3, <2>4 DEF TableType
  <2>9. r.ref \in Nat
    BY <2>3 DEF Inode
  <2>6. /\ T[g].ref = r.ref + 1 /\ T[g].lock = r.lock /\ T[g].type = r.type /\ T[g].nlink = r.nlink
        /\ ButRef(T[g], r) /\ T[g].inum = i
    BY <2>3, <2>5 DEF Inode, ButRef
  <2>10. r = itable[g] /\ r.ref \in Nat /\ \A x \in Slot : itable[x].ref \in Nat
    BY <1>1, <2>3, <2>9
  <2>11. T[g].ref = r.ref + 1 /\ \A x \in Slot : x # g => T[x] = itable[x]
    BY <2>5, <2>6
  <2>7. \A x \in Slot : T[x].ref = itable[x].ref + Is(x, g)
    BY <2>10, <2>11 DEF Is
  <2>12. g \in Slot /\ T \in [Slot -> Inode] /\ r.inum = i /\ r.ref > 0
    BY <2>3, <2>5
  <2>8. /\ g \in Slot /\ T \in [Slot -> Inode]
        /\ \A x \in Slot : /\ T[x].ref = itable[x].ref + Is(x, g) /\ T[x].lock = itable[x].lock
                           /\ T[x].type = itable[x].type /\ T[x].nlink = itable[x].nlink
                           /\ x # g => T[x] = itable[x]
                           /\ itable[x].ref > 0 => ButRef(T[x], itable[x])
        /\ T[g].inum = i /\ itable[g].ref # 0
    BY <2>6, <2>7, <2>10, <2>11, <2>12 DEF ButRef
  <2> QED
    BY <2>8 DEF g, T
<1>3. CASE Cached(i) = {}
  <2>1. Got(i) \in Slot /\ itable[Got(i)].ref = 0
    BY <1>1, <1>3, GotIn DEF Unused
  <2>2. \A x \in Slot : itable[x].ref > 0 => itable[x].inum # i
    BY <1>1, <1>3
  <2>3. T = [itable EXCEPT ![g] = [r EXCEPT !.inum = i, !.ref = 1, !.valid = FALSE]]
    BY <1>3 DEF AfterGet
  <2>4. g \in Slot /\ r.ref = 0 /\ r = itable[g] /\ r \in Inode
    BY <2>1 DEF TableType
  <2> HIDE DEF g, r, T
  <2>5. [r EXCEPT !.inum = i, !.ref = 1, !.valid = FALSE] \in Inode
    BY <2>4 DEF Inode
  <2>6. /\ T \in [Slot -> Inode] /\ T[g] = [r EXCEPT !.inum = i, !.ref = 1, !.valid = FALSE]
        /\ \A x \in Slot : x # g => T[x] = itable[x]
    BY <2>3, <2>4, <2>5 DEF TableType
  <2>7. T[g].ref = 1 /\ T[g].lock = r.lock /\ T[g].type = r.type /\ T[g].nlink = r.nlink /\ T[g].inum = i /\ ~T[g].valid
    BY <2>4, <2>6 DEF Inode
  <2>10. r = itable[g] /\ r.ref = 0 /\ \A x \in Slot : itable[x].ref \in Nat
    BY <1>1, <2>4
  <2>11. T[g].ref = 1 /\ \A x \in Slot : x # g => T[x] = itable[x]
    BY <2>6, <2>7
  <2>8. \A x \in Slot : T[x].ref = itable[x].ref + Is(x, g)
    BY <2>10, <2>11 DEF Is
  <2>12. g \in Slot /\ T \in [Slot -> Inode]
    BY <2>4, <2>6
  <2>9. /\ g \in Slot /\ T \in [Slot -> Inode]
        /\ \A x \in Slot : /\ T[x].ref = itable[x].ref + Is(x, g) /\ T[x].lock = itable[x].lock
                           /\ T[x].type = itable[x].type /\ T[x].nlink = itable[x].nlink
                           /\ x # g => T[x] = itable[x]
                           /\ itable[x].ref > 0 => ButRef(T[x], itable[x])
        /\ T[g].inum = i /\ ~T[g].valid /\ \A x \in Slot : itable[x].ref > 0 => itable[x].inum # i
    BY <2>2, <2>7, <2>8, <2>10, <2>11, <2>12 DEF ButRef
  <2> QED
    BY <2>9 DEF g, T
<1> QED
  BY <1>2, <1>3

LEMMA GotOnly ==
  ASSUME TableType, NEW i \in Inum, CanGet(i), itable' = AfterGet(i)
  PROVE  GotTable(i, {})
  BY Gotten DEF GotTable, ButRef, TableType

LEMMA GotUnlock ==
  ASSUME TableType, NEW i \in Inum, CanGet(i), NEW s \in Slot, itable' = Unlock(AfterGet(i), s)
  PROVE  GotTable(i, {s})
<1> DEFINE T == AfterGet(i)
           V == Unlock(T, s)
<1>1. /\ Got(i) \in Slot
      /\ T \in [Slot -> Inode]
      /\ \A x \in Slot : /\ T[x].ref = itable[x].ref + Is(x, Got(i))
                         /\ T[x].lock = itable[x].lock
                         /\ T[x].type = itable[x].type
                         /\ T[x].nlink = itable[x].nlink
                         /\ x # Got(i) => T[x] = itable[x]
                         /\ itable[x].ref > 0 => ButRef(T[x], itable[x])
      /\ T[Got(i)].inum = i
      /\ itable[Got(i)].ref = 0 => /\ ~T[Got(i)].valid
                                   /\ \A x \in Slot : itable[x].ref > 0 => itable[x].inum # i
  BY Gotten
<1> HIDE DEF T
<1>2. /\ V \in [Slot -> Inode]
      /\ \A x \in Slot : ButLock(V[x], T[x]) /\ V[x].lock = IF x = s THEN NoOne ELSE T[x].lock
  BY <1>1, Unlocked
<1>3. itable' = V
  BY DEF T
<1> HIDE DEF V
<1> QED
  BY <1>1, <1>2, <1>3 DEF GotTable, ButRef, ButLock, TableType

LEMMA DropTable ==
  ASSUME TableType, NEW s \in Slot, itable[s].ref > 0, itable' = [itable EXCEPT ![s].ref = @ - 1]
  PROVE  /\ TableType'
         /\ \A x \in Slot : /\ itable'[x].ref = itable[x].ref - Is(x, s)
                            /\ ButRef(itable'[x], itable[x])
<1>1. \A x \in Slot : itable[x].ref \in Nat
  BY DEF TableType, Inode
<1>2. TableType' /\ \A x \in Slot : ButRef(itable'[x], itable[x])
  BY <1>1 DEF TableType, Inode, ButRef
<1>3. itable'[s].ref = itable[s].ref - 1 /\ \A x \in Slot : x # s => itable'[x].ref = itable[x].ref
  BY DEF TableType
<1> QED
  BY <1>1, <1>2, <1>3 DEF Is

LEMMA EmptyEntry ==
  /\ Empty \in [Entries -> Inum \cup {0}] /\ \A n \in Name : Empty[n] = 0
  /\ <<>> \in Paths
<1>1. Empty \in [Entries -> Inum \cup {0}] /\ \A n \in Name : Empty[n] = 0
  BY Constants DEF Empty
<1>2. <<>> \in Seq(Entries)
  OBVIOUS
<1> QED
  BY <1>1, <1>2, PlainPath

LEMMA Ilocked ==
  ASSUME DiskType, TableType, NEW p \in Proc, NEW s \in Slot, itable[s].inum # 0, Ilock(p, s)
  PROVE  /\ TableType' /\ itable[s].lock = NoOne
         /\ \A x \in Slot : /\ itable'[x].ref = itable[x].ref /\ itable'[x].inum = itable[x].inum
                            /\ x # s => itable'[x] = itable[x]
         /\ itable'[s].lock = p /\ itable'[s].valid
         /\ itable[s].valid => ButLock(itable'[s], itable[s]) /\ panic' = panic
         /\ ~itable[s].valid =>
              /\ itable'[s].type = dinode[itable[s].inum].type
              /\ itable'[s].nlink = dinode[itable[s].inum].nlink
              /\ panic' = IF dinode[itable[s].inum].type = "none" THEN "ilock: no type" ELSE ""
<1>1. itable[s].inum \in Inum /\ itable[s].lock = NoOne
  BY DEF TableType, Inode, Ilock
<1>2. dinode[itable[s].inum].type \in Types /\ dinode[itable[s].inum].nlink \in Int
  BY <1>1 DEF DiskType
<1>3. CASE itable[s].valid
  <2>1. itable' = [itable EXCEPT ![s].lock = p] /\ panic' = panic
    BY <1>3 DEF Ilock
  <2> QED
    BY <1>1, <1>3, <2>1 DEF TableType, Inode, ButLock
<1>4. CASE ~itable[s].valid
  <2>1. /\ itable' = [itable EXCEPT ![s] = [@ EXCEPT !.lock = p, !.valid = TRUE,
                              !.type = dinode[itable[s].inum].type, !.nlink = dinode[itable[s].inum].nlink]]
        /\ panic' = IF dinode[itable[s].inum].type = "none" THEN "ilock: no type" ELSE ""
    BY <1>4 DEF Ilock
  <2> QED
    BY <1>1, <1>2, <1>4, <2>1 DEF TableType, Inode
<1> QED
  BY <1>3, <1>4

-----------------------------------------------------------------------------
(* Steps by what they do to the table *)

LEMMA RefFacts ==
  ASSUME RefInv
  PROVE  /\ TypeOK /\ DiskType /\ TableType /\ ProcType /\ leaked \in [Slot -> Nat] /\ lost \subseteq Inum
         /\ \A p \in Proc : Good(p)
         /\ \A s \in Slot : /\ itable[s].inum \in Inum \cup {0} /\ itable[s].ref \in Nat
                            /\ itable[s].lock \in Proc \cup {NoOne} /\ itable[s].valid \in BOOLEAN
                            /\ itable[s].type \in Types /\ itable[s].nlink \in Int
<1>1. TypeOK
  BY DEF RefInv, RefsExact
<1>2. \A p \in Proc : Good(p)
  BY <1>1, OwnTyped DEF Good, RefInv, ProcInv
<1> QED
  BY <1>1, <1>2, TypeParts DEF TableType, Inode

\* A slot that a process points to, or has locked, is in use.
LEMMA HeldSlot ==
  ASSUME RefInv, NEW p \in Proc, NEW s \in Slot
  PROVE  /\ itable[s].ref >= Hold(p, s) + leaked[s] /\ Hold(p, s) \in Nat /\ leaked[s] \in Nat
         /\ Hold(p, s) > 0 => itable[s].ref > 0 /\ itable[s].inum \in Inum
         /\ s \in {cur[p], ip[p], dp[p], put[p], cwd[p], ofile[p]} => Hold(p, s) > 0
         /\ Locks(p, s) => Hold(p, s) > 0
<1>1. itable[s].ref = leaked[s] + References(s) /\ leaked[s] \in Nat
  BY DEF RefInv, RefsExact, TypeOK
<1>2. References(s) >= Hold(p, s) /\ Hold(p, s) \in Nat /\ References(s) \in Nat
  BY RefsSplit, HoldType
<1>3. s \in {cur[p], ip[p], dp[p], put[p], cwd[p], ofile[p]} => Hold(p, s) > 0
  BY DEF Hold, Is
<1>4. Locks(p, s) => s \in {cur[p], ip[p], dp[p], put[p], cwd[p], ofile[p]}
  BY DEF Locks
<1>5. Hold(p, s) > 0 => itable[s].ref > 0
  BY <1>1, <1>2
<1>6. Hold(p, s) > 0 => itable[s].inum \in Inum
  BY <1>5, RefFacts DEF RefInv, InumInv
<1> QED
  BY <1>1, <1>2, <1>3, <1>4, <1>5, <1>6

LEMMA LockedSlot ==
  ASSUME RefInv, NEW s \in Slot
  PROVE  /\ itable[s].lock # NoOne => itable[s].ref > 0 /\ itable[s].valid
         /\ \A p \in Proc : itable[s].lock = p <=> Locks(p, s)
<1>1. \A p \in Proc : itable[s].lock = p <=> Locks(p, s)
  BY DEF RefInv, LockInv
<1>2. itable[s].lock # NoOne => itable[s].lock \in Proc
  BY RefFacts
<1>3. itable[s].lock # NoOne => itable[s].ref > 0
  BY <1>1, <1>2, HeldSlot
<1> QED
  BY <1>1, <1>3 DEF RefInv, ValidInv

\* The table stays, or changes in what is not counted or locked.
LEMMA StillStep ==
  ASSUME RefInv, NEW p \in Proc, Local(p), Good(p)', DiskType', TableType',
         leaked' = leaked, lost' \subseteq Inum,
         \A s \in Slot : /\ itable'[s].ref = itable[s].ref /\ itable'[s].lock = itable[s].lock
                         /\ itable'[s].inum = itable[s].inum
                         /\ itable'[s].valid = itable[s].valid
         , \A s \in Slot : Hold(p, s)' = Hold(p, s),
         \A s \in Slot : Locks(p, s)' <=> Locks(p, s)
  PROVE  RefInv'
<1>1. \A s \in Slot : Hold(p, s) \in Nat
  BY HoldType
<1>2. RefMove(p) /\ LockMove(p)
  BY <1>1, RefFacts DEF RefMove, LockMove
<1>3. \A s \in Slot : itable'[s].lock = p <=> Locks(p, s)'
  BY LockedSlot
<1>4. \A s \in Slot : itable'[s].ref > 0 => itable'[s].inum # 0
  BY DEF RefInv, InumInv
<1>5. \A s \in Slot : itable'[s].lock # NoOne => itable'[s].valid
  BY LockedSlot
<1> QED
  BY <1>2, <1>3, <1>4, <1>5, RefStep, RefFacts DEF Good

\* p locks s.
LEMMA LockRef ==
  ASSUME RefInv, NEW p \in Proc, Local(p), Good(p)', UNCHANGED <<diskVars, leaked, lost>>,
         NEW s \in Slot, Ilock(p, s), itable[s].inum # 0,
         \A x \in Slot : Hold(p, x)' = Hold(p, x),
         \A x \in Slot : Locks(p, x)' <=> Locks(p, x) \/ x = s
  PROVE  RefInv'
<1>1. /\ TableType' /\ itable[s].lock = NoOne
      /\ \A x \in Slot : /\ itable'[x].ref = itable[x].ref /\ itable'[x].inum = itable[x].inum
                         /\ x # s => itable'[x] = itable[x]
      /\ itable'[s].lock = p /\ itable'[s].valid
  <2>1. DiskType /\ TableType
    BY RefFacts
  <2> QED
    BY <2>1, Ilocked
<1>2. \A x \in Slot : Hold(p, x) \in Nat
  BY HoldType
<1>3. RefMove(p) /\ LockMove(p)
  BY <1>1, <1>2, RefFacts DEF RefMove, LockMove
<1>4. \A x \in Slot : itable'[x].lock = p <=> Locks(p, x)'
  BY <1>1, LockedSlot
<1>5. \A x \in Slot : itable'[x].ref > 0 => itable'[x].inum # 0
  BY <1>1 DEF RefInv, InumInv
<1>6. \A x \in Slot : itable'[x].lock # NoOne => itable'[x].valid
  BY <1>1, LockedSlot
<1>7. DiskType' /\ leaked' \in [Slot -> Nat] /\ lost' \subseteq Inum
  BY RefFacts DEF DiskType, diskVars
<1> QED
  BY <1>1, <1>3, <1>4, <1>5, <1>6, <1>7, RefStep DEF Good

\* p unlocks s; the reference that it forgets is counted as lost.
LEMMA UnlockRef ==
  ASSUME RefInv, NEW p \in Proc, Local(p), Good(p)', DiskType', TableType', leaked' \in [Slot -> Nat], lost' \subseteq Inum,
         NEW s \in Slot, Locks(p, s),
         \A x \in Slot : /\ itable'[x].ref = itable[x].ref /\ itable'[x].inum = itable[x].inum
                         /\ x # s => itable'[x].valid = itable[x].valid
                         /\ itable'[x].lock = IF x = s THEN NoOne ELSE itable[x].lock,
         \A x \in Slot : leaked[x] + Hold(p, x) = leaked'[x] + Hold(p, x)',
         \A x \in Slot : Locks(p, x)' <=> Locks(p, x) /\ x # s
  PROVE  RefInv'
<1>1. \A x \in Slot : Hold(p, x) \in Nat /\ Hold(p, x)' \in Nat
  BY HoldType DEF Hold, Is
<1>2. RefMove(p)
  <2> SUFFICES ASSUME NEW x \in Slot
               PROVE  itable'[x].ref + leaked[x] + Hold(p, x) = itable[x].ref + leaked'[x] + Hold(p, x)'
    BY DEF RefMove
  <2>1. leaked[x] \in Nat /\ leaked'[x] \in Nat /\ itable[x].ref \in Nat /\ itable'[x].ref = itable[x].ref
    BY RefFacts
  <2>2. leaked[x] + Hold(p, x) = leaked'[x] + Hold(p, x)'
    OBVIOUS
  <2> QED
    BY <1>1, <2>1, <2>2
<1>3. itable[s].lock = p /\ p # NoOne
  BY LockedSlot, Constants
<1>4. LockMove(p)
  BY <1>3 DEF LockMove
<1>5. \A x \in Slot : itable'[x].lock = p <=> Locks(p, x)'
  BY <1>3, LockedSlot
<1>6. \A x \in Slot : itable'[x].ref > 0 => itable'[x].inum # 0
  BY DEF RefInv, InumInv
<1>7. \A x \in Slot : itable'[x].lock # NoOne => itable'[x].valid
  BY LockedSlot
<1> QED
  BY <1>2, <1>4, <1>5, <1>6, <1>7, RefStep DEF Good

\* p gets one more pointer to g, and may unlock a slot.
LEMMA GainRef ==
  ASSUME RefInv, NEW p \in Proc, Local(p), Good(p)', DiskType', TableType', leaked' = leaked, lost' \subseteq Inum,
         NEW g \in Slot, NEW U, \A x \in Slot : x \in U => Locks(p, x),
         itable'[g].inum # 0,
         \A x \in Slot : /\ itable'[x].ref = itable[x].ref + Is(x, g)
                         /\ x # g => itable'[x].inum = itable[x].inum
                         /\ itable[x].ref > 0 => itable'[x].valid = itable[x].valid
                         /\ itable'[x].lock = IF x \in U THEN NoOne ELSE itable[x].lock,
         \A x \in Slot : Hold(p, x)' = Hold(p, x) + Is(x, g),
         \A x \in Slot : Locks(p, x)' <=> Locks(p, x) /\ x \notin U
  PROVE  RefInv'
<1>1. \A x \in Slot : Hold(p, x) \in Nat /\ Is(x, g) \in Nat
  BY HoldType DEF Is
<1>2. RefMove(p)
  BY <1>1, RefFacts DEF RefMove
<1>3. \A x \in Slot : x \in U => itable[x].lock = p /\ p # NoOne
  BY LockedSlot, Constants
<1>4. LockMove(p)
  BY <1>3 DEF LockMove
<1>5. \A x \in Slot : itable'[x].lock = p <=> Locks(p, x)'
  BY <1>3, LockedSlot, Constants
<1>6. \A x \in Slot : itable'[x].ref > 0 => itable'[x].inum # 0
  BY RefFacts DEF RefInv, InumInv, Is
<1>7. \A x \in Slot : itable'[x].lock # NoOne => itable'[x].valid
  BY LockedSlot
<1> QED
  BY <1>2, <1>4, <1>5, <1>6, <1>7, RefStep, RefFacts DEF Good

LEMMA GotRef ==
  ASSUME RefInv, NEW p \in Proc, Local(p), Good(p)', DiskType', leaked' = leaked, lost' \subseteq Inum,
         NEW i \in Inum, NEW U, GotTable(i, U), \A x \in Slot : x \in U => Locks(p, x),
         \A x \in Slot : Hold(p, x)' = Hold(p, x) + Is(x, Got(i)),
         \A x \in Slot : Locks(p, x)' <=> Locks(p, x) /\ x \notin U
  PROVE  RefInv'
<1>1. Got(i) \in Slot /\ TableType' /\ itable'[Got(i)].inum # 0
  BY Constants DEF GotTable
<1>2. \A x \in Slot : /\ itable'[x].ref = itable[x].ref + Is(x, Got(i))
                      /\ x # Got(i) => itable'[x].inum = itable[x].inum
                      /\ itable[x].ref > 0 => itable'[x].valid = itable[x].valid
                      /\ itable'[x].lock = IF x \in U THEN NoOne ELSE itable[x].lock
  BY DEF GotTable
<1> QED
  BY <1>1, <1>2, GainRef

\* p drops a pointer to s.
LEMMA DropRef ==
  ASSUME RefInv, NEW p \in Proc, Local(p), Good(p)', DiskType', TableType', leaked' = leaked, lost' \subseteq Inum,
         NEW s \in Slot,
         \A x \in Slot : /\ itable'[x].ref = itable[x].ref - Is(x, s)
                         /\ itable'[x].inum = itable[x].inum /\ itable'[x].valid = itable[x].valid
                         /\ itable'[x].lock = itable[x].lock,
         \A x \in Slot : Hold(p, x)' + Is(x, s) = Hold(p, x),
         \A x \in Slot : Locks(p, x)' <=> Locks(p, x)
  PROVE  RefInv'
<1>1. \A x \in Slot : Hold(p, x) \in Nat /\ Hold(p, x)' \in Nat /\ Is(x, s) \in Nat
  BY HoldType DEF Hold, Is
<1>2. RefMove(p)
  BY <1>1, RefFacts DEF RefMove
<1>3. LockMove(p)
  BY DEF LockMove
<1>4. \A x \in Slot : itable'[x].lock = p <=> Locks(p, x)'
  BY LockedSlot
<1>5. \A x \in Slot : itable'[x].ref > 0 => itable'[x].inum # 0
  BY <1>1, RefFacts DEF RefInv, InumInv
<1>6. \A x \in Slot : itable'[x].lock # NoOne => itable'[x].valid
  BY LockedSlot
<1> QED
  BY <1>2, <1>3, <1>4, <1>5, <1>6, RefStep, RefFacts DEF Good

-----------------------------------------------------------------------------
(* The variables of p after a step *)

LEMMA Null ==
  0 \in Pointer /\ \A s \in Slot : s # 0 /\ s \in Pointer
  BY Constants

LEMMA AtIs ==
  ASSUME RefInv, NEW p \in Proc, NEW l, At(p, l)
  PROVE  panic = "" /\ put[p] = 0 /\ want[p] = 0 /\ pc[p] = l /\ stage[p] = "iput"
  BY RefFacts DEF At, Good, PtrInv

LEMMA LocalParts ==
  ASSUME NEW p
  PROVE  Local(p) <=> LocalCtl(p) /\ LocalRet(p) /\ LocalRest(p) /\ LocalPtr(p) /\ LocalArg(p) /\ LocalFile(p)
  BY DEF Local, LocalCtl, LocalRet, LocalRest, LocalPtr, LocalArg, LocalFile

LEMMA ThenIs ==
  ASSUME ProcType, NEW p \in Proc, NEW s, NEW w, NEW l, Then(p, s, w, l)
  PROVE  LocalCtl(p) /\ pc'[p] = l /\ put'[p] = s /\ want'[p] = w /\ stage'[p] = stage[p]
  BY DEF ProcType, Then, LocalCtl

LEMMA KeptCtl ==
  ASSUME ProcType, NEW p \in Proc, UNCHANGED <<pc, put, stage, want>>
  PROVE  LocalCtl(p) /\ pc'[p] = pc[p] /\ put'[p] = put[p] /\ want'[p] = want[p] /\ stage'[p] = stage[p]
  BY DEF ProcType, LocalCtl

LEMMA KeptRet ==
  ASSUME ProcType, NEW p \in Proc, UNCHANGED ret
  PROVE  LocalRet(p) /\ ret'[p] = ret[p]
  BY DEF ProcType, LocalRet

LEMMA KeptRest ==
  ASSUME ProcType, NEW p \in Proc, UNCHANGED rest
  PROVE  LocalRest(p) /\ rest'[p] = rest[p]
  BY DEF ProcType, LocalRest

LEMMA KeptPtr ==
  ASSUME ProcType, NEW p \in Proc, UNCHANGED ptrVars
  PROVE  LocalPtr(p) /\ cur'[p] = cur[p] /\ ip'[p] = ip[p] /\ dp'[p] = dp[p]
  BY DEF ProcType, LocalPtr, ptrVars

LEMMA KeptArg ==
  ASSUME ProcType, NEW p \in Proc, UNCHANGED <<call, path, count>>
  PROVE  LocalArg(p) /\ call'[p] = call[p] /\ path'[p] = path[p] /\ count'[p] = count[p]
  BY DEF ProcType, LocalArg

LEMMA KeptFile ==
  ASSUME ProcType, NEW p \in Proc, UNCHANGED <<cwd, ofile>>
  PROVE  LocalFile(p) /\ cwd'[p] = cwd[p] /\ ofile'[p] = ofile[p]
  BY DEF ProcType, LocalFile

LEMMA WalkIs ==
  ASSUME ProcType, NEW p \in Proc, NEW l, NEW names, Walk(p, l, names)
  PROVE  /\ LocalCtl(p) /\ LocalRet(p) /\ LocalRest(p)
         /\ pc'[p] = "namei" /\ put'[p] = 0 /\ want'[p] = 0 /\ stage'[p] = stage[p]
         /\ ret'[p] = l /\ rest'[p] = names
<1>1. Then(p, 0, 0, "namei") /\ ret' = [ret EXCEPT ![p] = l] /\ rest' = [rest EXCEPT ![p] = names]
  BY DEF Walk
<1> QED
  BY <1>1, ThenIs DEF ProcType, LocalRet, LocalRest

LEMMA GotoIs ==
  ASSUME ProcType, NEW p \in Proc, NEW l, Goto(p, l)
  PROVE  /\ LocalCtl(p) /\ LocalRet(p)
         /\ pc'[p] = l /\ put'[p] = 0 /\ want'[p] = 0 /\ stage'[p] = stage[p] /\ ret'[p] = ret[p]
  BY ThenIs, KeptRet DEF Goto

\* Nothing moves when the kernel panics.
LEMMA HaltIs ==
  ASSUME RefInv, NEW p \in Proc, NEW msg, Halt(msg), UNCHANGED <<call, path, count, procVars, lost>>
  PROVE  RefInv' /\ Local(p) /\ panic' = msg
<1>1. ProcType
  BY RefFacts
<1>2. Local(p)
  BY <1>1, KeptCtl, KeptRet, KeptRest, KeptPtr, KeptArg, KeptFile, LocalParts DEF Halt, ctlVars, ptrVars, procVars
<1>3. OwnType(p)' /\ PtrInv(p)' /\ OpInv(p)' /\ PathInv(p)' /\ Distinct(p)'
  <2>1. /\ UNCHANGED <<pc, ret, put, stage, want>> /\ UNCHANGED <<cur, ip, dp>>
        /\ UNCHANGED <<call, path, rest, count, cwd, ofile>>
    BY DEF Halt, ctlVars, ptrVars, procVars
  <2>2. Good(p)
    BY RefFacts
  <2>3. Same(p)
    BY <2>1 DEF Same
  <2>4. OwnType(p)'
    BY <2>1, <2>2 DEF Good, OwnType
  <2>5. ProcInv(p)'
    BY <2>2, <2>3, SameInv DEF Good, ProcInv
  <2> QED
    BY <2>4, <2>5 DEF ProcInv
<1>4. \A s \in Slot : Hold(p, s)' = Hold(p, s) /\ (Locks(p, s)' <=> Locks(p, s))
  <2>1. Same(p)
    BY DEF Same, Halt, ctlVars, ptrVars, procVars
  <2> QED
    BY <2>1, SameInv
<1>5. DiskType' /\ TableType' /\ leaked' = leaked /\ lost' = lost /\ itable' = itable
  BY RefFacts DEF DiskType, TableType, Halt, diskVars
<1> QED
  BY <1>2, <1>3, <1>4, <1>5, StillStep, RefFacts DEF Good, Halt

-----------------------------------------------------------------------------
(* Ends of calls *)

\* p unlocks and puts ip, and the call is over.
LEMMA PutIpRef ==
  ASSUME RefInv, NEW p \in Proc, put[p] = 0, want[p] = 0,
         pc[p] \in {"create_old", "created", "open_check", "open_file", "chdir_check", "link_inc",
                    "link_bad", "unlink_dec"},
         Then(p, ip[p], 0, "idle"), UNCHANGED ret, ip' = [ip EXCEPT ![p] = 0], UNCHANGED <<cur, dp>>,
         UNCHANGED <<call, path, count>>, UNCHANGED rest, UNCHANGED <<cwd, ofile>>,
         DiskType', TableType', leaked' = leaked, lost' = lost,
         \A x \in Slot : /\ itable'[x].ref = itable[x].ref /\ itable'[x].inum = itable[x].inum
                         /\ itable'[x].valid = itable[x].valid
                         /\ itable'[x].lock = IF x = ip[p] THEN NoOne ELSE itable[x].lock
  PROVE  RefInv' /\ Local(p)
<1>1. ProcType /\ DiskType /\ TableType /\ Good(p)
  BY RefFacts
<1>2. /\ put[p] = 0 /\ want[p] = 0
      /\ pc[p] \in {"create_old", "created", "open_check", "open_file", "chdir_check", "link_inc", "link_bad", "unlink_dec"}
      /\ stage[p] = "iput" /\ OwnType(p) /\ OpInv(p) /\ cur[p] = 0 /\ ip[p] # 0 /\ ip[p] \in Slot
      /\ dp[p] = 0 /\ cwd[p] \in Slot /\ ofile[p] \in Pointer
  BY <1>1, Constants DEF Good, PtrInv, PathInv, HasName, OwnType, HasIp, Where, Rets, IpPcs, DpPcs
<1>3. Locks(p, ip[p])
  BY <1>2 DEF Locks, HasLockedIp, DpPcs
<1> QED
  <2>1. /\ Then(p, ip[p], 0, "idle") /\ UNCHANGED ret /\ ip' = [ip EXCEPT ![p] = 0]
        /\ UNCHANGED <<cur, dp>> /\ UNCHANGED <<call, path, count>> /\ UNCHANGED rest
        /\ UNCHANGED <<cwd, ofile>>
    OBVIOUS
  <2>2. /\ LocalCtl(p) /\ LocalRet(p) /\ pc'[p] = "idle" /\ put'[p] = ip[p] /\ want'[p] = 0
        /\ stage'[p] = "iput" /\ ret'[p] = ret[p]
    BY <1>2, <1>1, <2>1, ThenIs, KeptRet
  <2>3. /\ LocalPtr(p) /\ cur'[p] = cur[p] /\ ip'[p] = 0 /\ dp'[p] = dp[p]
    BY <1>1, <2>1 DEF LocalPtr, ProcType, ptrVars
  <2>4. /\ LocalRest(p) /\ LocalArg(p) /\ LocalFile(p) /\ rest'[p] = rest[p] /\ call'[p] = call[p]
        /\ path'[p] = path[p] /\ count'[p] = count[p] /\ cwd'[p] = cwd[p] /\ ofile'[p] = ofile[p]
    BY <1>1, <2>1, KeptRest, KeptArg, KeptFile
  <2>5. Local(p)
    BY <2>2, <2>3, <2>4, LocalParts
  <2>7. Good(p)'
    <3>1. OwnType(p)'
      BY <1>2, <2>2, <2>3, <2>4, Null DEF OwnType, Stages, Pcs
    <3>2. PtrInv(p)'
      BY <1>2, <2>2, <2>3, <2>4 DEF PtrInv, HasIp, Where, Rets, IpPcs, DpPcs, WantPcs
    <3>3. OpInv(p)'
      BY <1>2, <2>2, <2>3, <2>4 DEF OpInv, Where, Rets
    <3>4. PathInv(p)'
      BY <1>2, <2>2, <2>3, <2>4 DEF PathInv, HasName, Rets
    <3>5. Distinct(p)'
      BY <1>2, <2>2, <2>3, <2>4 DEF Distinct, HasLockedIp, Truncating, DpPcs, Rets
    <3> QED
      BY <3>1, <3>2, <3>3, <3>4, <3>5 DEF Good
  <2>8. \A x \in Slot : Hold(p, x)' = Hold(p, x)
    <3>1. /\ put[p] = 0 /\ cur'[p] = cur[p] /\ ip'[p] = 0 /\ dp'[p] = dp[p] /\ put'[p] = ip[p]
          /\ cwd'[p] = cwd[p] /\ ofile'[p] = ofile[p]
      BY <1>2, <2>2, <2>3, <2>4
    <3>2. \A x \in Slot : x # 0
      BY Null
    <3> QED
      BY <3>1, <3>2 DEF Hold, Is
  <2>9. \A x \in Slot : Locks(p, x)' <=> Locks(p, x) /\ x # ip[p]
    BY <1>2, <2>2, <2>3, <2>4, Null DEF Locks, HasLockedIp, Truncating, DpPcs, Rets
  <2> QED
    BY <1>2, <2>5, <2>7, <2>8, <2>9, UnlockRef, <1>3, RefFacts

\* p unlocks and puts dp, and the call is over.
LEMMA PutDpRef ==
  ASSUME RefInv, NEW p \in Proc, put[p] = 0, want[p] = 0,
         pc[p] \in {"unlink_look", "unlink_bad"},
         Then(p, dp[p], 0, "idle"), UNCHANGED ret, dp' = [dp EXCEPT ![p] = 0], UNCHANGED <<cur, ip>>,
         UNCHANGED <<call, path, count>>, UNCHANGED rest, UNCHANGED <<cwd, ofile>>,
         DiskType', TableType', leaked' = leaked, lost' = lost,
         \A x \in Slot : /\ itable'[x].ref = itable[x].ref /\ itable'[x].inum = itable[x].inum
                         /\ itable'[x].valid = itable[x].valid
                         /\ itable'[x].lock = IF x = dp[p] THEN NoOne ELSE itable[x].lock
  PROVE  RefInv' /\ Local(p)
<1>1. ProcType /\ DiskType /\ TableType /\ Good(p)
  BY RefFacts
<1>2. /\ put[p] = 0 /\ want[p] = 0 /\ pc[p] \in {"unlink_look", "unlink_bad"} /\ stage[p] = "iput"
      /\ OwnType(p) /\ OpInv(p) /\ cur[p] = 0 /\ ip[p] = 0 /\ dp[p] # 0 /\ dp[p] \in Slot
      /\ cwd[p] \in Slot /\ ofile[p] \in Pointer
  BY <1>1, Constants DEF Good, PtrInv, PathInv, HasName, OwnType, HasIp, Where, Rets, IpPcs, DpPcs
<1>3. Locks(p, dp[p])
  BY <1>2 DEF Locks, HasLockedIp, DpPcs
<1> QED
  <2>1. /\ Then(p, dp[p], 0, "idle") /\ UNCHANGED ret /\ dp' = [dp EXCEPT ![p] = 0]
        /\ UNCHANGED <<cur, ip>> /\ UNCHANGED <<call, path, count>> /\ UNCHANGED rest
        /\ UNCHANGED <<cwd, ofile>>
    OBVIOUS
  <2>2. /\ LocalCtl(p) /\ LocalRet(p) /\ pc'[p] = "idle" /\ put'[p] = dp[p] /\ want'[p] = 0
        /\ stage'[p] = "iput" /\ ret'[p] = ret[p]
    BY <1>2, <1>1, <2>1, ThenIs, KeptRet
  <2>3. /\ LocalPtr(p) /\ cur'[p] = cur[p] /\ ip'[p] = ip[p] /\ dp'[p] = 0
    BY <1>1, <2>1 DEF LocalPtr, ProcType, ptrVars
  <2>4. /\ LocalRest(p) /\ LocalArg(p) /\ LocalFile(p) /\ rest'[p] = rest[p] /\ call'[p] = call[p]
        /\ path'[p] = path[p] /\ count'[p] = count[p] /\ cwd'[p] = cwd[p] /\ ofile'[p] = ofile[p]
    BY <1>1, <2>1, KeptRest, KeptArg, KeptFile
  <2>5. Local(p)
    BY <2>2, <2>3, <2>4, LocalParts
  <2>7. Good(p)'
    <3>1. OwnType(p)'
      BY <1>2, <2>2, <2>3, <2>4, Null DEF OwnType, Stages, Pcs
    <3>2. PtrInv(p)'
      BY <1>2, <2>2, <2>3, <2>4 DEF PtrInv, HasIp, Where, Rets, IpPcs, DpPcs, WantPcs
    <3>3. OpInv(p)'
      BY <1>2, <2>2, <2>3, <2>4 DEF OpInv, Where, Rets
    <3>4. PathInv(p)'
      BY <1>2, <2>2, <2>3, <2>4 DEF PathInv, HasName, Rets
    <3>5. Distinct(p)'
      BY <1>2, <2>2, <2>3, <2>4 DEF Distinct, HasLockedIp, Truncating, DpPcs, Rets
    <3> QED
      BY <3>1, <3>2, <3>3, <3>4, <3>5 DEF Good
  <2>8. \A x \in Slot : Hold(p, x)' = Hold(p, x)
    <3>1. /\ put[p] = 0 /\ cur'[p] = cur[p] /\ ip'[p] = ip[p] /\ dp'[p] = 0 /\ put'[p] = dp[p]
          /\ cwd'[p] = cwd[p] /\ ofile'[p] = ofile[p]
      BY <1>2, <2>2, <2>3, <2>4
    <3>2. \A x \in Slot : x # 0
      BY Null
    <3> QED
      BY <3>1, <3>2 DEF Hold, Is
  <2>9. \A x \in Slot : Locks(p, x)' <=> Locks(p, x) /\ x # dp[p]
    BY <1>2, <2>2, <2>3, <2>4, Null DEF Locks, HasLockedIp, Truncating, DpPcs, Rets
  <2> QED
    BY <1>2, <2>5, <2>7, <2>8, <2>9, UnlockRef, <1>3, RefFacts

\* The name was not found, and the call is over.
LEMMA NullRef ==
  ASSUME RefInv, NEW p \in Proc, put[p] = 0, want[p] = 0,
         pc[p] \in {"create", "open", "chdir", "link", "unlink"}, cur[p] = 0,
         Goto(p, "idle"), UNCHANGED ptrVars,
         UNCHANGED <<call, path, count>>, UNCHANGED rest, UNCHANGED <<cwd, ofile>>,
         UNCHANGED <<diskVars, itable, leaked, lost>>
  PROVE  RefInv' /\ Local(p)
<1>1. ProcType /\ DiskType /\ TableType /\ Good(p)
  BY RefFacts
<1>2. /\ put[p] = 0 /\ want[p] = 0 /\ pc[p] \in {"create", "open", "chdir", "link", "unlink"}
      /\ stage[p] = "iput" /\ OwnType(p) /\ OpInv(p) /\ cur[p] = 0 /\ ip[p] = 0 /\ dp[p] = 0
      /\ cwd[p] \in Slot /\ ofile[p] \in Pointer
  BY <1>1, Constants DEF Good, PtrInv, PathInv, HasName, OwnType, HasIp, Where, Rets, IpPcs, DpPcs
<1> QED
  <2>1. /\ Goto(p, "idle") /\ UNCHANGED ptrVars /\ UNCHANGED <<call, path, count>> /\ UNCHANGED rest
        /\ UNCHANGED <<cwd, ofile>>
    OBVIOUS
  <2>2. /\ LocalCtl(p) /\ LocalRet(p) /\ pc'[p] = "idle" /\ put'[p] = 0 /\ want'[p] = 0
        /\ stage'[p] = "iput" /\ ret'[p] = ret[p]
    BY <1>2, <1>1, <2>1, GotoIs
  <2>3. /\ LocalPtr(p) /\ cur'[p] = cur[p] /\ ip'[p] = ip[p] /\ dp'[p] = dp[p]
    BY <1>1, <2>1, KeptPtr
  <2>4. /\ LocalRest(p) /\ LocalArg(p) /\ LocalFile(p) /\ rest'[p] = rest[p] /\ call'[p] = call[p]
        /\ path'[p] = path[p] /\ count'[p] = count[p] /\ cwd'[p] = cwd[p] /\ ofile'[p] = ofile[p]
    BY <1>1, <2>1, KeptRest, KeptArg, KeptFile
  <2>5. Local(p)
    BY <2>2, <2>3, <2>4, LocalParts
  <2>7. Good(p)'
    <3>1. OwnType(p)'
      BY <1>2, <2>2, <2>3, <2>4, Null DEF OwnType, Stages, Pcs
    <3>2. PtrInv(p)'
      BY <1>2, <2>2, <2>3, <2>4 DEF PtrInv, HasIp, Where, Rets, IpPcs, DpPcs, WantPcs
    <3>3. OpInv(p)'
      BY <1>2, <2>2, <2>3, <2>4 DEF OpInv, Where, Rets
    <3>4. PathInv(p)'
      BY <1>2, <2>2, <2>3, <2>4 DEF PathInv, HasName, Rets
    <3>5. Distinct(p)'
      BY <1>2, <2>2, <2>3, <2>4 DEF Distinct, HasLockedIp, Truncating, DpPcs, Rets
    <3> QED
      BY <3>1, <3>2, <3>3, <3>4, <3>5 DEF Good
  <2>8. \A x \in Slot : Hold(p, x)' = Hold(p, x)
    <3>1. /\ put[p] = 0 /\ cur'[p] = cur[p] /\ ip'[p] = ip[p] /\ dp'[p] = dp[p] /\ put'[p] = 0
          /\ cwd'[p] = cwd[p] /\ ofile'[p] = ofile[p]
      BY <1>2, <2>2, <2>3, <2>4
    <3>2. \A x \in Slot : x # 0
      BY Null
    <3> QED
      BY <3>1, <3>2 DEF Hold, Is
  <2>9. \A x \in Slot : Locks(p, x)' <=> Locks(p, x)
    BY <1>2, <2>2, <2>3, <2>4, Null DEF Locks, HasLockedIp, Truncating, DpPcs, Rets
  <2>11. DiskType' /\ TableType' /\ leaked' = leaked /\ lost' = lost
    BY <1>1 DEF DiskType, diskVars, history, TableType
  <2> QED
    BY <1>2, <2>5, <2>7, <2>8, <2>9, <2>11, StillStep, RefFacts

-----------------------------------------------------------------------------
(* namex *)

LEMMA LookRef ==
  ASSUME RefInv, NEW p \in Proc, Look(p)
  PROVE  RefInv' /\ Local(p)
<1> DEFINE s == cur[p]
           names == rest[p]
           i == entry[itable[s].inum][Head(names)]
<1>1. /\ panic = "" /\ put[p] = 0 /\ want[p] = 0 /\ pc[p] = "look" /\ stage[p] = "iput" /\ ProcType
      /\ DiskType /\ TableType /\ Good(p) /\ UNCHANGED <<call, path, count>>
      /\ UNCHANGED <<cwd, ofile>>
  BY AtIs, RefFacts DEF Look, procVars
<1>2. /\ panic = "" /\ put[p] = 0 /\ want[p] = 0 /\ pc[p] = "look" /\ stage[p] = "iput"
      /\ OwnType(p) /\ OpInv(p) /\ cur[p] # 0 /\ cur[p] \in Slot /\ ip[p] \in Pointer /\ dp[p] = 0
      /\ rest[p] \in Seq(Entries) /\ rest[p] # <<>> /\ cwd[p] \in Slot /\ ofile[p] \in Pointer
      /\ ret[p] \in Rets /\ (ip[p] # 0 <=> HasIp(p))
  BY <1>1, Constants DEF Good, PtrInv, PathInv, HasName, OwnType, HasIp, Where, Rets, IpPcs, DpPcs
<1>3. Locks(p, s) /\ s \in Slot /\ itable[s].inum \in Inum
  BY <1>1, <1>2, HeldSlot DEF Locks
<1>4. i \in Inum \cup {0} /\ Tail(names) \in Seq(Entries) /\ (Tail(names) = <<>> <=> Len(names) = 1)
      /\ Tail(names) \in Paths /\ Head(names) \in Entries
  BY <1>1, <1>2, <1>3, HeadTail, PlainPath DEF DiskType
<1> DEFINE A == itable[s].type # "dir" \/ (i = 0 /\ ~(Parent(p) /\ Len(names) = 1))
           E == Parent(p) /\ Len(names) = 1
           U == Head(names) = DotDot /\ Stale(i)
<1>5. CASE A
  <2>1. /\ itable' = Unlock(itable, s) /\ cur' = [cur EXCEPT ![p] = 0] /\ Then(p, s, 0, ret[p])
        /\ UNCHANGED <<ret, ip, dp, rest>> /\ UNCHANGED <<diskVars, leaked>> /\ lost' = lost
    BY <1>5 DEF Look
  <2>2. /\ LocalCtl(p) /\ LocalRet(p) /\ pc'[p] = ret[p] /\ put'[p] = s /\ want'[p] = 0
        /\ stage'[p] = "iput" /\ ret'[p] = ret[p]
    BY <1>1, <2>1, ThenIs, KeptRet
  <2>3. /\ LocalPtr(p) /\ cur'[p] = 0 /\ ip'[p] = ip[p] /\ dp'[p] = dp[p]
    BY <1>1, <2>1 DEF LocalPtr, ProcType, ptrVars
  <2>4. /\ LocalRest(p) /\ LocalArg(p) /\ LocalFile(p) /\ rest'[p] = rest[p] /\ call'[p] = call[p]
        /\ path'[p] = path[p] /\ count'[p] = count[p] /\ cwd'[p] = cwd[p] /\ ofile'[p] = ofile[p]
    BY <1>1, <2>1, KeptRest, KeptArg, KeptFile
  <2>5. Local(p)
    BY <2>2, <2>3, <2>4, LocalParts
  <2>7. Good(p)'
    <3>1. OwnType(p)'
      BY <1>2, <2>2, <2>3, <2>4, Null DEF OwnType, Stages, Pcs
    <3>2. PtrInv(p)'
      BY <1>2, <2>2, <2>3, <2>4 DEF PtrInv, HasIp, Where, Rets, IpPcs, DpPcs, WantPcs
    <3>3. OpInv(p)'
      BY <1>2, <2>2, <2>3, <2>4 DEF OpInv, Where, Rets
    <3>4. PathInv(p)'
      BY <1>2, <2>2, <2>3, <2>4 DEF PathInv, HasName, Rets, Parent
    <3>5. Distinct(p)'
      BY <1>2, <2>2, <2>3, <2>4 DEF Distinct, HasLockedIp, Truncating, DpPcs, Rets
    <3> QED
      BY <3>1, <3>2, <3>3, <3>4, <3>5 DEF Good
  <2>8. \A x \in Slot : Hold(p, x)' = Hold(p, x)
    <3>1. /\ put[p] = 0 /\ cur'[p] = 0 /\ ip'[p] = ip[p] /\ dp'[p] = dp[p] /\ put'[p] = s
          /\ cwd'[p] = cwd[p] /\ ofile'[p] = ofile[p]
      BY <1>2, <2>2, <2>3, <2>4
    <3>2. \A x \in Slot : x # 0
      BY Null
    <3> QED
      BY <3>1, <3>2 DEF Hold, Is
  <2>9. \A x \in Slot : Locks(p, x)' <=> Locks(p, x) /\ x # s
    BY <1>2, <2>2, <2>3, <2>4, Null DEF Locks, HasLockedIp, Truncating, DpPcs, Rets
  <2>10. TableType' /\ \A x \in Slot : ButLock(itable'[x], itable[x]) /\ itable'[x].lock = IF x = s THEN NoOne ELSE itable[x].lock
    BY <1>1, <1>3, <2>1, Unlocked DEF TableType
  <2>11. DiskType' /\ leaked' = leaked /\ lost' = lost
    BY <1>1, <2>1 DEF DiskType, diskVars, history
  <2> QED
    BY <1>2, <2>5, <2>7, <2>8, <2>9, <2>10, <2>11, UnlockRef, <1>3, RefFacts DEF ButLock
<1>6. CASE ~A /\ E
  <2>1. /\ itable' = Unlock(itable, s) /\ Goto(p, ret[p]) /\ UNCHANGED ptrVars /\ UNCHANGED rest
        /\ UNCHANGED <<diskVars, leaked>> /\ lost' = lost
    BY <1>6 DEF Look
  <2>2. /\ LocalCtl(p) /\ LocalRet(p) /\ pc'[p] = ret[p] /\ put'[p] = 0 /\ want'[p] = 0
        /\ stage'[p] = "iput" /\ ret'[p] = ret[p]
    BY <1>1, <2>1, GotoIs
  <2>3. /\ LocalPtr(p) /\ cur'[p] = cur[p] /\ ip'[p] = ip[p] /\ dp'[p] = dp[p]
    BY <1>1, <2>1, KeptPtr
  <2>4. /\ LocalRest(p) /\ LocalArg(p) /\ LocalFile(p) /\ rest'[p] = rest[p] /\ call'[p] = call[p]
        /\ path'[p] = path[p] /\ count'[p] = count[p] /\ cwd'[p] = cwd[p] /\ ofile'[p] = ofile[p]
    BY <1>1, <2>1, KeptRest, KeptArg, KeptFile
  <2>5. Local(p)
    BY <2>2, <2>3, <2>4, LocalParts
  <2>7. Good(p)'
    <3>1. OwnType(p)'
      BY <1>2, <2>2, <2>3, <2>4, Null DEF OwnType, Stages, Pcs
    <3>2. PtrInv(p)'
      BY <1>2, <2>2, <2>3, <2>4 DEF PtrInv, HasIp, Where, Rets, IpPcs, DpPcs, WantPcs
    <3>3. OpInv(p)'
      BY <1>2, <2>2, <2>3, <2>4 DEF OpInv, Where, Rets
    <3>4. PathInv(p)'
      BY <1>2, <2>2, <2>3, <2>4 DEF PathInv, HasName, Rets, Parent
    <3>5. Distinct(p)'
      BY <1>2, <2>2, <2>3, <2>4 DEF Distinct, HasLockedIp, Truncating, DpPcs, Rets
    <3> QED
      BY <3>1, <3>2, <3>3, <3>4, <3>5 DEF Good
  <2>8. \A x \in Slot : Hold(p, x)' = Hold(p, x)
    <3>1. /\ put[p] = 0 /\ cur'[p] = cur[p] /\ ip'[p] = ip[p] /\ dp'[p] = dp[p] /\ put'[p] = 0
          /\ cwd'[p] = cwd[p] /\ ofile'[p] = ofile[p]
      BY <1>2, <2>2, <2>3, <2>4
    <3>2. \A x \in Slot : x # 0
      BY Null
    <3> QED
      BY <3>1, <3>2 DEF Hold, Is
  <2>9. \A x \in Slot : Locks(p, x)' <=> Locks(p, x) /\ x # s
    BY <1>2, <2>2, <2>3, <2>4, Null DEF Locks, HasLockedIp, Truncating, DpPcs, Rets
  <2>10. TableType' /\ \A x \in Slot : ButLock(itable'[x], itable[x]) /\ itable'[x].lock = IF x = s THEN NoOne ELSE itable[x].lock
    BY <1>1, <1>3, <2>1, Unlocked DEF TableType
  <2>11. DiskType' /\ leaked' = leaked /\ lost' = lost
    BY <1>1, <2>1 DEF DiskType, diskVars, history
  <2> QED
    BY <1>2, <2>5, <2>7, <2>8, <2>9, <2>10, <2>11, UnlockRef, <1>3, RefFacts DEF ButLock
<1>9. CASE ~A /\ ~E /\ U
  <2>1. Halt("stale ..") /\ UNCHANGED <<call, path, count, procVars, lost>>
    BY <1>9 DEF Look
  <2> QED
    BY <2>1, HaltIs
<1>7. CASE ~A /\ ~E /\ ~U /\ ~CanGet(i)
  <2>1. Halt("iget: no inodes") /\ UNCHANGED <<call, path, count, procVars, lost>>
    BY <1>7 DEF Look
  <2> QED
    BY <2>1, HaltIs
<1>8. CASE ~A /\ ~E /\ ~U /\ CanGet(i)
  <2>1. i \in Inum /\ CanGet(i)
    BY <1>4, <1>8
  <2>2. /\ itable' = Unlock(AfterGet(i), s)
        /\ cur' = [cur EXCEPT ![p] = Got(i)]
        /\ rest' = [rest EXCEPT ![p] = Tail(names)]
        /\ UNCHANGED <<ret, diskVars, ip, dp, leaked, panic>> /\ lost' = lost
        /\ IF Tail(names) = <<>> THEN Then(p, s, 0, ret[p]) ELSE Then(p, s, Got(i), "look")
    BY <1>8 DEF Look
  <2>3. GotTable(i, {s})
    BY <1>1, <1>3, <2>1, <2>2, GotUnlock
  <2>4. Got(i) \in Slot /\ Got(i) # 0
    BY <2>3, Null DEF GotTable
  <2>7. Tail(names) = <<>> => ~Parent(p)
    BY <1>4, <1>8
  <2>5. CASE Tail(names) = <<>>
    <3>1. /\ Then(p, s, 0, ret[p]) /\ UNCHANGED ret /\ cur' = [cur EXCEPT ![p] = Got(i)]
          /\ UNCHANGED <<ip, dp>> /\ rest' = [rest EXCEPT ![p] = Tail(names)]
      BY <2>2, <2>5
    <3>2. /\ LocalCtl(p) /\ LocalRet(p) /\ pc'[p] = ret[p] /\ put'[p] = s /\ want'[p] = 0
          /\ stage'[p] = "iput" /\ ret'[p] = ret[p]
      BY <1>1, <3>1, ThenIs, KeptRet
    <3>3. /\ LocalPtr(p) /\ cur'[p] = Got(i) /\ ip'[p] = ip[p] /\ dp'[p] = dp[p]
      BY <1>1, <3>1 DEF LocalPtr, ProcType, ptrVars
    <3>4. /\ LocalRest(p) /\ LocalArg(p) /\ LocalFile(p) /\ rest'[p] = Tail(names)
          /\ call'[p] = call[p] /\ path'[p] = path[p] /\ count'[p] = count[p] /\ cwd'[p] = cwd[p]
          /\ ofile'[p] = ofile[p]
      BY <1>1, <3>1, KeptArg, KeptFile DEF ProcType, LocalRest
    <3>5. Local(p)
      BY <3>2, <3>3, <3>4, LocalParts
    <3>7. Good(p)'
      <4>1. OwnType(p)'
        BY <1>4, <2>4, <2>5, <2>7, <1>2, <3>2, <3>3, <3>4, Null DEF OwnType, Stages, Pcs
      <4>2. PtrInv(p)'
        BY <1>4, <2>4, <2>5, <2>7, <1>2, <3>2, <3>3, <3>4 DEF PtrInv, HasIp, Where, Rets, IpPcs, DpPcs, WantPcs
      <4>3. OpInv(p)'
        BY <1>4, <2>4, <2>5, <2>7, <1>2, <3>2, <3>3, <3>4 DEF OpInv, Where, Rets
      <4>4. PathInv(p)'
        BY <1>4, <2>4, <2>5, <2>7, <1>2, <3>2, <3>3, <3>4 DEF PathInv, HasName, Rets, Parent
      <4>5. Distinct(p)'
        BY <1>4, <2>4, <2>5, <2>7, <1>2, <3>2, <3>3, <3>4 DEF Distinct, HasLockedIp, Truncating, DpPcs, Rets
      <4> QED
        BY <4>1, <4>2, <4>3, <4>4, <4>5 DEF Good
    <3>8. \A x \in Slot : Hold(p, x)' = Hold(p, x) + Is(x, Got(i))
      <4>1. /\ put[p] = 0 /\ cur'[p] = Got(i) /\ ip'[p] = ip[p] /\ dp'[p] = dp[p] /\ put'[p] = s
            /\ cwd'[p] = cwd[p] /\ ofile'[p] = ofile[p]
        BY <1>4, <2>4, <2>5, <2>7, <1>2, <3>2, <3>3, <3>4
      <4>2. \A x \in Slot : x # 0
        BY Null
      <4> QED
        BY <4>1, <4>2 DEF Hold, Is
    <3>9. \A x \in Slot : Locks(p, x)' <=> Locks(p, x) /\ x \notin {s}
      BY <1>4, <2>4, <2>5, <2>7, <1>2, <3>2, <3>3, <3>4, Null DEF Locks, HasLockedIp, Truncating, DpPcs, Rets
    <3>11. DiskType' /\ leaked' = leaked /\ lost' = lost
      BY <1>1, <2>2 DEF DiskType, diskVars
    <3> QED
      BY <1>2, <3>5, <3>7, <3>8, <3>9, <3>11, GotRef, <1>3, <2>1, <2>3, RefFacts
  <2>6. CASE Tail(names) # <<>>
    <3>1. /\ Then(p, s, Got(i), "look") /\ UNCHANGED ret /\ cur' = [cur EXCEPT ![p] = Got(i)]
          /\ UNCHANGED <<ip, dp>> /\ rest' = [rest EXCEPT ![p] = Tail(names)]
      BY <2>2, <2>6
    <3>2. /\ LocalCtl(p) /\ LocalRet(p) /\ pc'[p] = "look" /\ put'[p] = s /\ want'[p] = Got(i)
          /\ stage'[p] = "iput" /\ ret'[p] = ret[p]
      BY <1>1, <3>1, ThenIs, KeptRet
    <3>3. /\ LocalPtr(p) /\ cur'[p] = Got(i) /\ ip'[p] = ip[p] /\ dp'[p] = dp[p]
      BY <1>1, <3>1 DEF LocalPtr, ProcType, ptrVars
    <3>4. /\ LocalRest(p) /\ LocalArg(p) /\ LocalFile(p) /\ rest'[p] = Tail(names)
          /\ call'[p] = call[p] /\ path'[p] = path[p] /\ count'[p] = count[p] /\ cwd'[p] = cwd[p]
          /\ ofile'[p] = ofile[p]
      BY <1>1, <3>1, KeptArg, KeptFile DEF ProcType, LocalRest
    <3>5. Local(p)
      BY <3>2, <3>3, <3>4, LocalParts
    <3>7. Good(p)'
      <4>1. OwnType(p)'
        BY <1>4, <2>4, <2>6, <1>2, <3>2, <3>3, <3>4, Null DEF OwnType, Stages, Pcs
      <4>2. PtrInv(p)'
        BY <1>4, <2>4, <2>6, <1>2, <3>2, <3>3, <3>4 DEF PtrInv, HasIp, Where, Rets, IpPcs, DpPcs, WantPcs
      <4>3. OpInv(p)'
        BY <1>4, <2>4, <2>6, <1>2, <3>2, <3>3, <3>4 DEF OpInv, Where, Rets
      <4>4. PathInv(p)'
        BY <1>4, <2>4, <2>6, <1>2, <3>2, <3>3, <3>4 DEF PathInv, HasName, Rets, Parent
      <4>5. Distinct(p)'
        BY <1>4, <2>4, <2>6, <1>2, <3>2, <3>3, <3>4 DEF Distinct, HasLockedIp, Truncating, DpPcs, Rets
      <4> QED
        BY <4>1, <4>2, <4>3, <4>4, <4>5 DEF Good
    <3>8. \A x \in Slot : Hold(p, x)' = Hold(p, x) + Is(x, Got(i))
      <4>1. /\ put[p] = 0 /\ cur'[p] = Got(i) /\ ip'[p] = ip[p] /\ dp'[p] = dp[p] /\ put'[p] = s
            /\ cwd'[p] = cwd[p] /\ ofile'[p] = ofile[p]
        BY <1>4, <2>4, <2>6, <1>2, <3>2, <3>3, <3>4
      <4>2. \A x \in Slot : x # 0
        BY Null
      <4> QED
        BY <4>1, <4>2 DEF Hold, Is
    <3>9. \A x \in Slot : Locks(p, x)' <=> Locks(p, x) /\ x \notin {s}
      BY <1>4, <2>4, <2>6, <1>2, <3>2, <3>3, <3>4, Null DEF Locks, HasLockedIp, Truncating, DpPcs, Rets
    <3>11. DiskType' /\ leaked' = leaked /\ lost' = lost
      BY <1>1, <2>2 DEF DiskType, diskVars
    <3> QED
      BY <1>2, <3>5, <3>7, <3>8, <3>9, <3>11, GotRef, <1>3, <2>1, <2>3, RefFacts
  <2> QED
    BY <2>5, <2>6
<1> QED
  BY <1>5, <1>6, <1>7, <1>8, <1>9

-----------------------------------------------------------------------------
(* ilock and iput *)

LEMMA LockStepRef ==
  ASSUME RefInv, NEW p \in Proc, LockStep(p)
  PROVE  RefInv' /\ Local(p)
<1> DEFINE s == want[p]
<1>1. /\ panic = "" /\ put[p] = 0 /\ want[p] # 0 /\ stage[p] = "iput" /\ ProcType /\ DiskType /\ TableType
      /\ Good(p) /\ UNCHANGED <<call, path, count>> /\ UNCHANGED rest /\ UNCHANGED <<cwd, ofile>>
  BY RefFacts DEF LockStep, Good, PtrInv, argVars, procVars
<1>2. /\ put[p] = 0 /\ want[p] # 0 /\ stage[p] = "iput" /\ OwnType(p) /\ OpInv(p) /\ PtrInv(p) /\ PathInv(p)
      /\ want[p] \in Slot /\ (pc[p] = "look" \/ pc[p] \in WantPcs)
      /\ (pc[p] = "look" => want[p] = cur[p]) /\ (pc[p] # "look" => want[p] = ip[p])
  BY <1>1, Constants DEF Good, PtrInv, OwnType, WantPcs
<1>3. Ilock(p, s) /\ itable[s].lock = NoOne /\ itable[s].inum # 0 /\ ~Locks(p, s)
  <2>1. Ilock(p, s) /\ itable[s].lock = NoOne
    BY DEF LockStep, Ilock
  <2>2. s \in {cur[p], ip[p], dp[p], put[p], cwd[p], ofile[p]}
    BY <1>2
  <2>3. itable[s].inum \in Inum
    BY <1>2, <2>2, HeldSlot
  <2> QED
    BY <1>2, <2>1, <2>3, LockedSlot, Constants
<1>4. pc[p] \in DpPcs => dp[p] # s
  BY <1>3 DEF Locks
<1> QED
  <2>1. /\ UNCHANGED <<pc, ret, put, stage>> /\ want' = [want EXCEPT ![p] = 0] /\ UNCHANGED ptrVars
        /\ UNCHANGED <<diskVars, leaked>> /\ lost' = lost
    BY DEF LockStep, history
  <2>2. /\ LocalCtl(p) /\ LocalRet(p) /\ pc'[p] = pc[p] /\ put'[p] = put[p] /\ want'[p] = 0
        /\ stage'[p] = stage[p] /\ ret'[p] = ret[p]
    BY <1>1, <2>1, KeptRet DEF LocalCtl, ProcType
  <2>3. /\ LocalPtr(p) /\ cur'[p] = cur[p] /\ ip'[p] = ip[p] /\ dp'[p] = dp[p]
    BY <1>1, <2>1, KeptPtr
  <2>4. /\ LocalRest(p) /\ LocalArg(p) /\ LocalFile(p) /\ rest'[p] = rest[p] /\ call'[p] = call[p]
        /\ path'[p] = path[p] /\ count'[p] = count[p] /\ cwd'[p] = cwd[p] /\ ofile'[p] = ofile[p]
    BY <1>1, <2>1, KeptRest, KeptArg, KeptFile
  <2>5. Local(p)
    BY <2>2, <2>3, <2>4, LocalParts
  <2>7. Good(p)'
    <3>1. OwnType(p)'
      BY <1>2, <2>2, <2>3, <2>4, Null DEF OwnType, Stages, Pcs
    <3>2. PtrInv(p)'
      BY <1>2, <2>2, <2>3, <2>4 DEF PtrInv, HasIp, Where, Rets, IpPcs, DpPcs, WantPcs
    <3>3. OpInv(p)'
      BY <1>2, <2>2, <2>3, <2>4 DEF OpInv, Where, Rets
    <3>4. PathInv(p)'
      BY <1>2, <2>2, <2>3, <2>4 DEF PathInv, HasName, Rets
    <3>5. Distinct(p)'
      BY <1>2, <1>4, <2>2, <2>3, <2>4 DEF Distinct, HasLockedIp, Truncating, DpPcs, WantPcs
    <3> QED
      BY <3>1, <3>2, <3>3, <3>4, <3>5 DEF Good
  <2>8. \A x \in Slot : Hold(p, x)' = Hold(p, x)
    <3>1. /\ cur'[p] = cur[p] /\ ip'[p] = ip[p] /\ dp'[p] = dp[p] /\ put'[p] = put[p]
          /\ cwd'[p] = cwd[p] /\ ofile'[p] = ofile[p]
      BY <1>2, <2>2, <2>3, <2>4
    <3>2. \A x \in Slot : x # 0
      BY Null
    <3> QED
      BY <3>1, <3>2 DEF Hold, Is
  <2>9. \A x \in Slot : Locks(p, x)' <=> Locks(p, x) \/ x = s
    BY <1>2, <2>2, <2>3, <2>4, Null DEF Locks, HasLockedIp, Truncating, DpPcs, WantPcs
  <2>11. UNCHANGED <<diskVars, leaked, lost>>
    BY <2>1
  <2> QED
    BY <1>2, <2>5, <2>7, <2>8, <2>9, <2>11, LockRef, <1>3, RefFacts

\* The end of iput
LEMMA PutDoneRef ==
  ASSUME RefInv, NEW p \in Proc, put[p] # 0, stage[p] \in {"iput", "iput_drop"}, PutDone(p),
         UNCHANGED <<diskVars, ptrVars, argVars, procVars, history>>
  PROVE  RefInv' /\ Local(p)
<1> DEFINE s == put[p]
<1>1. /\ put[p] # 0 /\ stage[p] \in {"iput", "iput_drop"} /\ ProcType /\ DiskType /\ TableType
      /\ Good(p) /\ UNCHANGED <<call, path, count>> /\ UNCHANGED rest /\ UNCHANGED <<cwd, ofile>> /\ UNCHANGED ptrVars
  BY RefFacts DEF argVars, procVars
<1>2. /\ put[p] # 0 /\ stage[p] \in {"iput", "iput_drop"} /\ OwnType(p) /\ OpInv(p) /\ PtrInv(p) /\ PathInv(p) /\ Distinct(p)
      /\ put[p] \in Slot
  BY <1>1, Constants DEF Good, OwnType
<1>3. itable[s].ref > 0 /\ itable[s].ref \in Nat
  BY <1>2, HeldSlot, RefFacts
<1> QED
  <2>1. /\ itable' = [itable EXCEPT ![s].ref = @ - 1] /\ put' = [put EXCEPT ![p] = 0]
        /\ stage' = [stage EXCEPT ![p] = "iput"] /\ UNCHANGED <<pc, ret, want>>
    BY DEF PutDone
  <2>2. /\ LocalCtl(p) /\ LocalRet(p) /\ pc'[p] = pc[p] /\ put'[p] = 0 /\ want'[p] = want[p]
        /\ stage'[p] = "iput" /\ ret'[p] = ret[p]
    BY <1>1, <2>1, KeptRet DEF LocalCtl, ProcType
  <2>3. /\ LocalPtr(p) /\ cur'[p] = cur[p] /\ ip'[p] = ip[p] /\ dp'[p] = dp[p]
    BY <1>1, KeptPtr
  <2>4. /\ LocalRest(p) /\ LocalArg(p) /\ LocalFile(p) /\ rest'[p] = rest[p] /\ call'[p] = call[p]
        /\ path'[p] = path[p] /\ count'[p] = count[p] /\ cwd'[p] = cwd[p] /\ ofile'[p] = ofile[p]
    BY <1>1, <2>1, KeptRest, KeptArg, KeptFile
  <2>5. Local(p)
    BY <2>2, <2>3, <2>4, LocalParts
  <2>7. Good(p)'
    <3>1. OwnType(p)'
      BY <1>2, <2>2, <2>3, <2>4, Null DEF OwnType, Stages, Pcs
    <3>2. PtrInv(p)'
      BY <1>2, <2>2, <2>3, <2>4 DEF PtrInv, HasIp, Where, Rets, IpPcs, DpPcs, WantPcs
    <3>3. OpInv(p)'
      BY <1>2, <2>2, <2>3, <2>4 DEF OpInv, Where, Rets
    <3>4. PathInv(p)'
      BY <1>2, <2>2, <2>3, <2>4 DEF PathInv, HasName, Rets
    <3>5. Distinct(p)'
      BY <1>2, <2>2, <2>3, <2>4 DEF Distinct, HasLockedIp, Truncating, DpPcs, Rets
    <3> QED
      BY <3>1, <3>2, <3>3, <3>4, <3>5 DEF Good
  <2>8. \A x \in Slot : Hold(p, x)' + Is(x, s) = Hold(p, x)
    <3>1. /\ cur'[p] = cur[p] /\ ip'[p] = ip[p] /\ dp'[p] = dp[p] /\ put'[p] = 0 /\ cwd'[p] = cwd[p]
          /\ ofile'[p] = ofile[p]
      BY <1>2, <2>2, <2>3, <2>4
    <3>2. \A x \in Slot : x # 0
      BY Null
    <3> QED
      BY <3>1, <3>2 DEF Hold, Is
  <2>9. \A x \in Slot : Locks(p, x)' <=> Locks(p, x)
    BY <1>2, <2>2, <2>3, <2>4, Null DEF Locks, HasLockedIp, Truncating, DpPcs, Rets
  <2>10. /\ TableType'
         /\ \A x \in Slot : /\ itable'[x].ref = itable[x].ref - Is(x, s) /\ itable'[x].inum = itable[x].inum
                            /\ itable'[x].valid = itable[x].valid /\ itable'[x].lock = itable[x].lock
    BY <1>1, <1>2, <1>3, <2>1, DropTable DEF ButRef
  <2>11. DiskType' /\ leaked' = leaked /\ lost' = lost
    BY <1>1 DEF DiskType, diskVars, history
  <2> QED
    BY <1>2, <2>5, <2>7, <2>8, <2>9, <2>10, <2>11, DropRef, RefFacts

LEMMA IputDropRef ==
  ASSUME RefInv, NEW p \in Proc, IputDrop(p)
  PROVE  RefInv' /\ Local(p)
  BY PutDoneRef DEF IputDrop, Putting

LEMMA IputRef ==
  ASSUME RefInv, NEW p \in Proc, Iput(p)
  PROVE  RefInv' /\ Local(p)
<1> DEFINE s == put[p]
<1>1. /\ panic = "" /\ put[p] # 0 /\ stage[p] = "iput" /\ ProcType /\ DiskType /\ TableType
      /\ Good(p) /\ UNCHANGED <<call, path, count>> /\ UNCHANGED rest /\ UNCHANGED <<cwd, ofile>> /\ UNCHANGED ptrVars
  BY RefFacts DEF Iput, Putting, argVars, procVars
<1>2. /\ put[p] # 0 /\ stage[p] = "iput" /\ OwnType(p) /\ OpInv(p) /\ PtrInv(p) /\ PathInv(p) /\ Distinct(p)
      /\ put[p] \in Slot
  BY <1>1, Constants DEF Good, OwnType
<1>3. CASE PutDone(p)
  BY <1>1, <1>3, PutDoneRef DEF Iput
<1>4. CASE LastRef(s) /\ itable[s].lock = NoOne /\ itable' = [itable EXCEPT ![s].lock = p] /\ Stage(p, "iput_trunc")
  <2>12. ~Locks(p, s) /\ itable[s].valid
    BY <1>2, <1>4, LockedSlot, Constants DEF LastRef
  <2>13. (HasLockedIp(p) => ip[p] # s) /\ (pc[p] \in DpPcs => dp[p] # s)
    BY <2>12 DEF Locks
  <2>1. /\ itable' = [itable EXCEPT ![s].lock = p] /\ stage' = [stage EXCEPT ![p] = "iput_trunc"]
        /\ UNCHANGED <<pc, ret, put, want>>
    BY <1>4 DEF Stage
  <2>2. /\ LocalCtl(p) /\ LocalRet(p) /\ pc'[p] = pc[p] /\ put'[p] = put[p] /\ want'[p] = want[p]
        /\ stage'[p] = "iput_trunc" /\ ret'[p] = ret[p]
    BY <1>1, <2>1, KeptRet DEF LocalCtl, ProcType
  <2>3. /\ LocalPtr(p) /\ cur'[p] = cur[p] /\ ip'[p] = ip[p] /\ dp'[p] = dp[p]
    BY <1>1, KeptPtr
  <2>4. /\ LocalRest(p) /\ LocalArg(p) /\ LocalFile(p) /\ rest'[p] = rest[p] /\ call'[p] = call[p]
        /\ path'[p] = path[p] /\ count'[p] = count[p] /\ cwd'[p] = cwd[p] /\ ofile'[p] = ofile[p]
    BY <1>1, <2>1, KeptRest, KeptArg, KeptFile
  <2>5. Local(p)
    BY <2>2, <2>3, <2>4, LocalParts
  <2>7. Good(p)'
    <3>1. OwnType(p)'
      BY <1>2, <2>2, <2>3, <2>4, Null DEF OwnType, Stages, Pcs
    <3>2. PtrInv(p)'
      BY <1>2, <2>2, <2>3, <2>4 DEF PtrInv, HasIp, Where, Rets, IpPcs, DpPcs, WantPcs
    <3>3. OpInv(p)'
      BY <1>2, <2>2, <2>3, <2>4 DEF OpInv, Where, Rets
    <3>4. PathInv(p)'
      BY <1>2, <2>2, <2>3, <2>4 DEF PathInv, HasName, Rets
    <3>5. Distinct(p)'
      BY <1>2, <2>2, <2>3, <2>4, <2>13 DEF Distinct, HasLockedIp, Truncating
    <3> QED
      BY <3>1, <3>2, <3>3, <3>4, <3>5 DEF Good
  <2>8. \A x \in Slot : Hold(p, x)' = Hold(p, x)
    <3>1. /\ cur'[p] = cur[p] /\ ip'[p] = ip[p] /\ dp'[p] = dp[p] /\ put'[p] = put[p]
          /\ cwd'[p] = cwd[p] /\ ofile'[p] = ofile[p]
      BY <1>2, <2>2, <2>3, <2>4
    <3>2. \A x \in Slot : x # 0
      BY Null
    <3> QED
      BY <3>1, <3>2 DEF Hold, Is
  <2>9. \A x \in Slot : Locks(p, x)' <=> Locks(p, x) \/ x = s
    BY <1>2, <2>2, <2>3, <2>4, Null DEF Locks, HasLockedIp, Truncating
  <2>11. UNCHANGED <<diskVars, leaked, lost>>
    BY DEF Iput, history
  <2>14. Ilock(p, s) /\ itable[s].inum # 0
    <3>1. Ilock(p, s)
      BY <1>4, <2>1, <2>12 DEF Ilock, Iput
    <3>2. itable[s].inum \in Inum
      BY <1>2, HeldSlot
    <3> QED
      BY <3>1, <3>2, Constants
  <2> QED
    BY <1>2, <2>5, <2>7, <2>8, <2>9, <2>11, LockRef, <2>14, RefFacts
<1> QED
  BY <1>3, <1>4 DEF Iput

LEMMA IputTruncRef ==
  ASSUME RefInv, NEW p \in Proc, IputTrunc(p)
  PROVE  RefInv' /\ Local(p)
<1> DEFINE s == put[p]
<1>1. /\ panic = "" /\ put[p] # 0 /\ stage[p] = "iput_trunc" /\ ProcType /\ DiskType /\ TableType
      /\ Good(p) /\ UNCHANGED <<call, path, count>> /\ UNCHANGED rest /\ UNCHANGED <<cwd, ofile>> /\ UNCHANGED ptrVars
  BY RefFacts DEF IputTrunc, Putting, argVars, procVars
<1>2. /\ put[p] # 0 /\ stage[p] = "iput_trunc" /\ OwnType(p) /\ OpInv(p) /\ PtrInv(p) /\ PathInv(p) /\ Distinct(p)
      /\ put[p] \in Slot
  BY <1>1, Constants DEF Good, OwnType
<1>3. itable[s].inum \in Inum
  BY <1>2, HeldSlot
<1> QED
  <2>1. /\ itable' = [itable EXCEPT ![s].type = "none"]
        /\ stage' = [stage EXCEPT ![p] = "iput_invalid"] /\ UNCHANGED <<pc, ret, put, want>>
    BY DEF IputTrunc, Stage
  <2>2. /\ LocalCtl(p) /\ LocalRet(p) /\ pc'[p] = pc[p] /\ put'[p] = put[p] /\ want'[p] = want[p]
        /\ stage'[p] = "iput_invalid" /\ ret'[p] = ret[p]
    BY <1>1, <2>1, KeptRet DEF LocalCtl, ProcType
  <2>3. /\ LocalPtr(p) /\ cur'[p] = cur[p] /\ ip'[p] = ip[p] /\ dp'[p] = dp[p]
    BY <1>1, KeptPtr
  <2>4. /\ LocalRest(p) /\ LocalArg(p) /\ LocalFile(p) /\ rest'[p] = rest[p] /\ call'[p] = call[p]
        /\ path'[p] = path[p] /\ count'[p] = count[p] /\ cwd'[p] = cwd[p] /\ ofile'[p] = ofile[p]
    BY <1>1, <2>1, KeptRest, KeptArg, KeptFile
  <2>5. Local(p)
    BY <2>2, <2>3, <2>4, LocalParts
  <2>7. Good(p)'
    <3>1. OwnType(p)'
      BY <1>2, <2>2, <2>3, <2>4, Null DEF OwnType, Stages, Pcs
    <3>2. PtrInv(p)'
      BY <1>2, <2>2, <2>3, <2>4 DEF PtrInv, HasIp, Where, Rets, IpPcs, DpPcs, WantPcs
    <3>3. OpInv(p)'
      BY <1>2, <2>2, <2>3, <2>4 DEF OpInv, Where, Rets
    <3>4. PathInv(p)'
      BY <1>2, <2>2, <2>3, <2>4 DEF PathInv, HasName, Rets
    <3>5. Distinct(p)'
      BY <1>2, <2>2, <2>3, <2>4 DEF Distinct, HasLockedIp, Truncating
    <3> QED
      BY <3>1, <3>2, <3>3, <3>4, <3>5 DEF Good
  <2>8. \A x \in Slot : Hold(p, x)' = Hold(p, x)
    <3>1. /\ cur'[p] = cur[p] /\ ip'[p] = ip[p] /\ dp'[p] = dp[p] /\ put'[p] = put[p]
          /\ cwd'[p] = cwd[p] /\ ofile'[p] = ofile[p]
      BY <1>2, <2>2, <2>3, <2>4
    <3>2. \A x \in Slot : x # 0
      BY Null
    <3> QED
      BY <3>1, <3>2 DEF Hold, Is
  <2>9. \A x \in Slot : Locks(p, x)' <=> Locks(p, x)
    BY <1>2, <2>2, <2>3, <2>4, Null DEF Locks, HasLockedIp, Truncating
  <2>10. /\ TableType'
         /\ \A x \in Slot : /\ itable'[x].ref = itable[x].ref /\ itable'[x].lock = itable[x].lock
                            /\ itable'[x].inum = itable[x].inum /\ itable'[x].valid = itable[x].valid
    BY <1>1, <1>2, <2>1 DEF TableType, Inode, Types
  <2>11. DiskType' /\ leaked' = leaked /\ lost' \subseteq Inum
    <3>1. /\ entry' = [entry EXCEPT ![itable[s].inum] = Empty]
          /\ target' = [target EXCEPT ![itable[s].inum] = <<>>]
          /\ dinode' = [dinode EXCEPT ![itable[s].inum] = [type |-> "none", nlink |-> 0]]
          /\ lost' = (lost \cup {entry[itable[s].inum][n] : n \in Name}) \ {0, itable[s].inum}
          /\ leaked' = leaked
      BY DEF IputTrunc
    <3>2. entry' \in [Inum -> [Entries -> Inum \cup {0}]] /\ target' \in [Inum -> Paths]
      BY <1>1, <1>3, <3>1, EmptyEntry DEF DiskType
    <3>6. [type |-> "none", nlink |-> 0] \in [type : Types, nlink : Int]
      BY DEF Types
    <3>3. dinode' \in [Inum -> [type : Types, nlink : Int]]
      BY <1>1, <1>3, <3>1, <3>6 DEF DiskType
    <3>7. entry[itable[s].inum] \in [Entries -> Inum \cup {0}]
      BY <1>1, <1>3 DEF DiskType
    <3>4. \A n \in Name : entry[itable[s].inum][n] \in Inum \cup {0}
      BY <3>7, Constants
    <3>5. lost' \subseteq Inum
      BY <3>1, <3>4, RefFacts
    <3> QED
      BY <3>1, <3>2, <3>3, <3>5 DEF DiskType
  <2> QED
    BY <1>2, <2>5, <2>7, <2>8, <2>9, <2>10, <2>11, StillStep, RefFacts

LEMMA IputInvalidRef ==
  ASSUME RefInv, NEW p \in Proc, IputInvalid(p)
  PROVE  RefInv' /\ Local(p)
<1> DEFINE s == put[p]
<1>1. /\ panic = "" /\ put[p] # 0 /\ stage[p] = "iput_invalid" /\ ProcType /\ DiskType /\ TableType
      /\ Good(p) /\ UNCHANGED <<call, path, count>> /\ UNCHANGED rest /\ UNCHANGED <<cwd, ofile>> /\ UNCHANGED ptrVars
  BY RefFacts DEF IputInvalid, Putting, argVars, procVars
<1>2. /\ put[p] # 0 /\ stage[p] = "iput_invalid" /\ OwnType(p) /\ OpInv(p) /\ PtrInv(p) /\ PathInv(p) /\ Distinct(p)
      /\ put[p] \in Slot
  BY <1>1, Constants DEF Good, OwnType
<1>3. Locks(p, s) /\ (HasLockedIp(p) => ip[p] # s) /\ (pc[p] \in DpPcs => dp[p] # s)
  BY <1>2 DEF Locks, Truncating, Distinct
<1>4. pc[p] \notin {"namei", "readlink_read"} /\ (pc[p] = "look" => want[p] # 0)
  BY <1>2 DEF PtrInv
<1> QED
  <2>1. /\ itable' = [Unlock(itable, s) EXCEPT ![s].valid = FALSE]
        /\ stage' = [stage EXCEPT ![p] = "iput_drop"] /\ UNCHANGED <<pc, ret, put, want>>
    BY DEF IputInvalid, Stage
  <2>2. /\ LocalCtl(p) /\ LocalRet(p) /\ pc'[p] = pc[p] /\ put'[p] = put[p] /\ want'[p] = want[p]
        /\ stage'[p] = "iput_drop" /\ ret'[p] = ret[p]
    BY <1>1, <2>1, KeptRet DEF LocalCtl, ProcType
  <2>3. /\ LocalPtr(p) /\ cur'[p] = cur[p] /\ ip'[p] = ip[p] /\ dp'[p] = dp[p]
    BY <1>1, KeptPtr
  <2>4. /\ LocalRest(p) /\ LocalArg(p) /\ LocalFile(p) /\ rest'[p] = rest[p] /\ call'[p] = call[p]
        /\ path'[p] = path[p] /\ count'[p] = count[p] /\ cwd'[p] = cwd[p] /\ ofile'[p] = ofile[p]
    BY <1>1, <2>1, KeptRest, KeptArg, KeptFile
  <2>5. Local(p)
    BY <2>2, <2>3, <2>4, LocalParts
  <2>7. Good(p)'
    <3>1. OwnType(p)'
      BY <1>2, <2>2, <2>3, <2>4, Null DEF OwnType, Stages, Pcs
    <3>2. PtrInv(p)'
      BY <1>2, <2>2, <2>3, <2>4 DEF PtrInv, HasIp, Where, Rets, IpPcs, DpPcs, WantPcs
    <3>3. OpInv(p)'
      BY <1>2, <2>2, <2>3, <2>4 DEF OpInv, Where, Rets
    <3>4. PathInv(p)'
      BY <1>2, <2>2, <2>3, <2>4 DEF PathInv, HasName, Rets
    <3>5. Distinct(p)'
      BY <1>2, <2>2, <2>3, <2>4 DEF Distinct, HasLockedIp, Truncating
    <3> QED
      BY <3>1, <3>2, <3>3, <3>4, <3>5 DEF Good
  <2>8. \A x \in Slot : Hold(p, x)' = Hold(p, x)
    <3>1. /\ cur'[p] = cur[p] /\ ip'[p] = ip[p] /\ dp'[p] = dp[p] /\ put'[p] = put[p]
          /\ cwd'[p] = cwd[p] /\ ofile'[p] = ofile[p]
      BY <1>2, <2>2, <2>3, <2>4
    <3>2. \A x \in Slot : x # 0
      BY Null
    <3> QED
      BY <3>1, <3>2 DEF Hold, Is
  <2>9. \A x \in Slot : Locks(p, x)' <=> Locks(p, x) /\ x # s
    BY <1>2, <1>3, <1>4, <2>2, <2>3, <2>4, Null DEF Locks, HasLockedIp, Truncating
  <2>10. /\ TableType'
         /\ \A x \in Slot : /\ itable'[x].ref = itable[x].ref /\ itable'[x].inum = itable[x].inum
                            /\ x # s => itable'[x].valid = itable[x].valid
                            /\ itable'[x].lock = IF x = s THEN NoOne ELSE itable[x].lock
    BY <1>1, <1>2, <2>1 DEF TableType, Inode, Unlock
  <2>11. DiskType' /\ leaked' = leaked /\ leaked' \in [Slot -> Nat] /\ lost' \subseteq Inum
    BY <1>1, RefFacts DEF IputInvalid, DiskType, diskVars, history
  <2>12. Locks(p, s) /\ s \in Slot
    BY <1>2, <1>3
  <2>13. \A x \in Slot : leaked[x] + Hold(p, x) = leaked'[x] + Hold(p, x)'
    BY <2>8, <2>11
  <2> HIDE DEF s
  <2> QED
    BY <2>5, <2>7, <2>9, <2>10, <2>11, <2>12, <2>13, UnlockRef

-----------------------------------------------------------------------------
(* The beginning of a walk, and of a call *)

\* p gets one more pointer to g.
LEMMA GainOnly ==
  ASSUME RefInv, NEW p \in Proc, Local(p), Good(p)', DiskType', TableType', leaked' = leaked, lost' \subseteq Inum,
         NEW g \in Slot, itable'[g].inum # 0,
         \A x \in Slot : /\ itable'[x].ref = itable[x].ref + Is(x, g)
                         /\ x # g => itable'[x].inum = itable[x].inum
                         /\ itable[x].ref > 0 => itable'[x].valid = itable[x].valid
                         /\ itable'[x].lock = itable[x].lock,
         \A x \in Slot : Hold(p, x)' = Hold(p, x) + Is(x, g),
         \A x \in Slot : Locks(p, x)' <=> Locks(p, x)
  PROVE  RefInv'
<1> DEFINE U == {}
<1>1. \A x \in Slot : x \notin U
  OBVIOUS
<1> HIDE DEF U
<1>2. \A x \in Slot : /\ itable'[x].ref = itable[x].ref + Is(x, g)
                      /\ x # g => itable'[x].inum = itable[x].inum
                      /\ itable[x].ref > 0 => itable'[x].valid = itable[x].valid
                      /\ itable'[x].lock = IF x \in U THEN NoOne ELSE itable[x].lock
  BY <1>1
<1>3. \A x \in Slot : x \in U => Locks(p, x)
  BY <1>1
<1>4. \A x \in Slot : Locks(p, x)' <=> Locks(p, x) /\ x \notin U
  BY <1>1
<1> QED
  BY <1>2, <1>3, <1>4, GainRef

LEMMA GainTable ==
  ASSUME TableType, NEW g \in Slot, itable' = [itable EXCEPT ![g].ref = @ + 1]
  PROVE  /\ TableType'
         /\ \A x \in Slot : /\ itable'[x].ref = itable[x].ref + Is(x, g)
                            /\ ButRef(itable'[x], itable[x])
<1>1. \A x \in Slot : itable[x].ref \in Nat
  BY DEF TableType, Inode
<1>2. TableType' /\ \A x \in Slot : ButRef(itable'[x], itable[x])
  BY <1>1 DEF TableType, Inode, ButRef
<1>3. itable'[g].ref = itable[g].ref + 1 /\ \A x \in Slot : x # g => itable'[x].ref = itable[x].ref
  BY DEF TableType
<1> QED
  BY <1>1, <1>2, <1>3 DEF Is

LEMMA NameiRef ==
  ASSUME RefInv, NEW p \in Proc, Namei(p)
  PROVE  RefInv' /\ Local(p)
<1> DEFINE r == rest[p]
           names == Names(r)
           abs == IsAbsolute(r)
           g == IF abs THEN Got(ROOTINO) ELSE cwd[p]
<1>1. /\ panic = "" /\ put[p] = 0 /\ want[p] = 0 /\ pc[p] = "namei" /\ stage[p] = "iput" /\ ProcType
      /\ DiskType /\ TableType /\ Good(p) /\ UNCHANGED <<call, path, count>>
      /\ UNCHANGED <<cwd, ofile>>
  BY AtIs, RefFacts DEF Namei, procVars
<1>2. /\ panic = "" /\ put[p] = 0 /\ want[p] = 0 /\ pc[p] = "namei" /\ stage[p] = "iput"
      /\ OwnType(p) /\ OpInv(p) /\ cur[p] = 0 /\ ip[p] \in Pointer /\ dp[p] = 0 /\ cwd[p] \in Slot
      /\ ofile[p] \in Pointer /\ ret[p] \in Rets /\ (ip[p] # 0 <=> HasIp(p))
  BY <1>1, Constants DEF Good, PtrInv, PathInv, HasName, OwnType, HasIp, Where, Rets, IpPcs, DpPcs
<1>3. names \in Seq(Entries) /\ names \in Paths
  BY <1>2, PlainPath DEF OwnType, Paths
<1>4. CASE abs /\ ~CanGet(ROOTINO)
  <2>1. Halt("iget: no inodes") /\ UNCHANGED <<call, path, count, procVars, lost>>
    BY <1>4 DEF Namei
  <2> QED
    BY <2>1, HaltIs
<1>5. CASE ~(abs /\ ~CanGet(ROOTINO))
  <2>1. /\ itable' = IF abs THEN AfterGet(ROOTINO) ELSE [itable EXCEPT ![cwd[p]].ref = @ + 1]
        /\ rest' = [rest EXCEPT ![p] = names]
        /\ IF names = <<>> /\ Parent(p)
           THEN Then(p, g, 0, ret[p]) /\ UNCHANGED cur
           ELSE /\ cur' = [cur EXCEPT ![p] = g]
                /\ IF names = <<>> THEN Then(p, 0, 0, ret[p]) ELSE Then(p, 0, g, "look")
        /\ UNCHANGED <<ret, diskVars, ip, dp, leaked, panic>> /\ lost' = lost
    BY <1>5 DEF Namei
  <2>2. /\ g \in Slot /\ g # 0 /\ TableType' /\ itable'[g].inum # 0
        /\ \A x \in Slot : /\ itable'[x].ref = itable[x].ref + Is(x, g)
                           /\ x # g => itable'[x].inum = itable[x].inum
                           /\ itable[x].ref > 0 => itable'[x].valid = itable[x].valid
                           /\ itable'[x].lock = itable[x].lock
    <3>1. CASE abs
      <4>1. itable' = AfterGet(ROOTINO) /\ CanGet(ROOTINO) /\ g = Got(ROOTINO)
        BY <1>5, <2>1, <3>1
      <4>2. GotTable(ROOTINO, {})
        BY <1>1, <4>1, GotOnly, Constants
      <4> HIDE DEF g
      <4> QED
        BY <4>1, <4>2, Constants DEF GotTable
    <3>2. CASE ~abs
      <4>1. itable' = [itable EXCEPT ![g].ref = @ + 1] /\ g = cwd[p] /\ g \in Slot
        BY <1>2, <2>1, <3>2
      <4>2. itable[g].inum \in Inum
        BY <4>1, HeldSlot
      <4> HIDE DEF g
      <4>3. TableType /\ itable' = [itable EXCEPT ![g].ref = @ + 1]
        BY <1>1, <4>1
      <4>4. /\ TableType'
            /\ \A x \in Slot : itable'[x].ref = itable[x].ref + Is(x, g) /\ ButRef(itable'[x], itable[x])
        BY <4>1, <4>3, GainTable
      <4> QED
        BY <4>1, <4>2, <4>4, Constants DEF ButRef
    <3> QED
      BY <3>1, <3>2
  <2>3. DiskType' /\ leaked' = leaked /\ lost' = lost
    BY <1>1, <2>1 DEF DiskType, diskVars
  <2> HIDE DEF g, names, abs, r
  <2>4. CASE names = <<>> /\ Parent(p)
    <3>1. /\ Then(p, g, 0, ret[p]) /\ UNCHANGED ret /\ UNCHANGED cur /\ UNCHANGED <<ip, dp>>
          /\ rest' = [rest EXCEPT ![p] = names]
      BY <2>1, <2>4
    <3>0. /\ ProcType /\ stage[p] = "iput" /\ Then(p, g, 0, ret[p]) /\ UNCHANGED ret
      BY <1>1, <3>1
    <3>2. /\ LocalCtl(p) /\ LocalRet(p) /\ pc'[p] = ret[p] /\ put'[p] = g /\ want'[p] = 0
          /\ stage'[p] = "iput" /\ ret'[p] = ret[p]
      BY <3>0, ThenIs, KeptRet
    <3>3. /\ LocalPtr(p) /\ cur'[p] = cur[p] /\ ip'[p] = ip[p] /\ dp'[p] = dp[p]
      BY <1>1, <3>1 DEF LocalPtr, ProcType, ptrVars
    <3>4. /\ LocalRest(p) /\ LocalArg(p) /\ LocalFile(p) /\ rest'[p] = names /\ call'[p] = call[p]
          /\ path'[p] = path[p] /\ count'[p] = count[p] /\ cwd'[p] = cwd[p] /\ ofile'[p] = ofile[p]
      BY <1>1, <3>1, KeptArg, KeptFile DEF ProcType, LocalRest
    <3>5. Local(p)
      BY <3>2, <3>3, <3>4, LocalParts
    <3>7. Good(p)'
      <4>1. OwnType(p)'
        BY <1>3, <2>2, <2>4, <1>2, <3>2, <3>3, <3>4, Null DEF OwnType, Stages, Pcs
      <4>2. PtrInv(p)'
        BY <1>3, <2>2, <2>4, <1>2, <3>2, <3>3, <3>4 DEF PtrInv, HasIp, Where, Rets, IpPcs, DpPcs, WantPcs, Parent
      <4>3. OpInv(p)'
        BY <1>3, <2>2, <2>4, <1>2, <3>2, <3>3, <3>4 DEF OpInv, Where, Rets
      <4>4. PathInv(p)'
        BY <1>3, <2>2, <2>4, <1>2, <3>2, <3>3, <3>4 DEF PathInv, HasName, Rets, Parent
      <4>5. Distinct(p)'
        BY <1>3, <2>2, <2>4, <1>2, <3>2, <3>3, <3>4 DEF Distinct, HasLockedIp, Truncating, DpPcs, Rets
      <4> QED
        BY <4>1, <4>2, <4>3, <4>4, <4>5 DEF Good
    <3>8. \A x \in Slot : Hold(p, x)' = Hold(p, x) + Is(x, g)
      <4>1. /\ cur[p] = 0 /\ put[p] = 0 /\ cur'[p] = cur[p] /\ ip'[p] = ip[p] /\ dp'[p] = dp[p]
            /\ put'[p] = g /\ cwd'[p] = cwd[p] /\ ofile'[p] = ofile[p]
        BY <1>3, <2>2, <2>4, <1>2, <3>2, <3>3, <3>4
      <4>2. \A x \in Slot : x # 0
        BY Null
      <4> QED
        BY <4>1, <4>2 DEF Hold, Is
    <3>9. \A x \in Slot : Locks(p, x)' <=> Locks(p, x)
      BY <1>3, <2>2, <2>4, <1>2, <3>2, <3>3, <3>4, Null DEF Locks, HasLockedIp, Truncating, DpPcs, Rets
    <3> QED
      BY <1>2, <3>5, <3>7, <3>8, <3>9, GainOnly, <2>2, <2>3, RefFacts
  <2>5. CASE names = <<>> /\ ~Parent(p)
    <3>1. /\ Then(p, 0, 0, ret[p]) /\ UNCHANGED ret /\ cur' = [cur EXCEPT ![p] = g]
          /\ UNCHANGED <<ip, dp>> /\ rest' = [rest EXCEPT ![p] = names]
      BY <2>1, <2>5
    <3>0. /\ ProcType /\ stage[p] = "iput" /\ Then(p, 0, 0, ret[p]) /\ UNCHANGED ret
      BY <1>1, <3>1
    <3>2. /\ LocalCtl(p) /\ LocalRet(p) /\ pc'[p] = ret[p] /\ put'[p] = 0 /\ want'[p] = 0
          /\ stage'[p] = "iput" /\ ret'[p] = ret[p]
      BY <3>0, ThenIs, KeptRet
    <3>3. /\ LocalPtr(p) /\ cur'[p] = g /\ ip'[p] = ip[p] /\ dp'[p] = dp[p]
      BY <1>1, <3>1 DEF LocalPtr, ProcType, ptrVars
    <3>4. /\ LocalRest(p) /\ LocalArg(p) /\ LocalFile(p) /\ rest'[p] = names /\ call'[p] = call[p]
          /\ path'[p] = path[p] /\ count'[p] = count[p] /\ cwd'[p] = cwd[p] /\ ofile'[p] = ofile[p]
      BY <1>1, <3>1, KeptArg, KeptFile DEF ProcType, LocalRest
    <3>5. Local(p)
      BY <3>2, <3>3, <3>4, LocalParts
    <3>7. Good(p)'
      <4>1. OwnType(p)'
        BY <1>3, <2>2, <2>5, <1>2, <3>2, <3>3, <3>4, Null DEF OwnType, Stages, Pcs
      <4>2. PtrInv(p)'
        BY <1>3, <2>2, <2>5, <1>2, <3>2, <3>3, <3>4 DEF PtrInv, HasIp, Where, Rets, IpPcs, DpPcs, WantPcs, Parent
      <4>3. OpInv(p)'
        BY <1>3, <2>2, <2>5, <1>2, <3>2, <3>3, <3>4 DEF OpInv, Where, Rets
      <4>4. PathInv(p)'
        BY <1>3, <2>2, <2>5, <1>2, <3>2, <3>3, <3>4 DEF PathInv, HasName, Rets, Parent
      <4>5. Distinct(p)'
        BY <1>3, <2>2, <2>5, <1>2, <3>2, <3>3, <3>4 DEF Distinct, HasLockedIp, Truncating, DpPcs, Rets
      <4> QED
        BY <4>1, <4>2, <4>3, <4>4, <4>5 DEF Good
    <3>8. \A x \in Slot : Hold(p, x)' = Hold(p, x) + Is(x, g)
      <4>1. /\ cur[p] = 0 /\ put[p] = 0 /\ cur'[p] = g /\ ip'[p] = ip[p] /\ dp'[p] = dp[p]
            /\ put'[p] = 0 /\ cwd'[p] = cwd[p] /\ ofile'[p] = ofile[p]
        BY <1>3, <2>2, <2>5, <1>2, <3>2, <3>3, <3>4
      <4>2. \A x \in Slot : x # 0
        BY Null
      <4> QED
        BY <4>1, <4>2 DEF Hold, Is
    <3>9. \A x \in Slot : Locks(p, x)' <=> Locks(p, x)
      BY <1>3, <2>2, <2>5, <1>2, <3>2, <3>3, <3>4, Null DEF Locks, HasLockedIp, Truncating, DpPcs, Rets
    <3> QED
      BY <1>2, <3>5, <3>7, <3>8, <3>9, GainOnly, <2>2, <2>3, RefFacts
  <2>6. CASE names # <<>>
    <3>1. /\ Then(p, 0, g, "look") /\ UNCHANGED ret /\ cur' = [cur EXCEPT ![p] = g]
          /\ UNCHANGED <<ip, dp>> /\ rest' = [rest EXCEPT ![p] = names]
      BY <2>1, <2>6
    <3>0. /\ ProcType /\ stage[p] = "iput" /\ Then(p, 0, g, "look") /\ UNCHANGED ret
      BY <1>1, <3>1
    <3>2. /\ LocalCtl(p) /\ LocalRet(p) /\ pc'[p] = "look" /\ put'[p] = 0 /\ want'[p] = g
          /\ stage'[p] = "iput" /\ ret'[p] = ret[p]
      BY <3>0, ThenIs, KeptRet
    <3>3. /\ LocalPtr(p) /\ cur'[p] = g /\ ip'[p] = ip[p] /\ dp'[p] = dp[p]
      BY <1>1, <3>1 DEF LocalPtr, ProcType, ptrVars
    <3>4. /\ LocalRest(p) /\ LocalArg(p) /\ LocalFile(p) /\ rest'[p] = names /\ call'[p] = call[p]
          /\ path'[p] = path[p] /\ count'[p] = count[p] /\ cwd'[p] = cwd[p] /\ ofile'[p] = ofile[p]
      BY <1>1, <3>1, KeptArg, KeptFile DEF ProcType, LocalRest
    <3>5. Local(p)
      BY <3>2, <3>3, <3>4, LocalParts
    <3>7. Good(p)'
      <4>1. OwnType(p)'
        BY <1>3, <2>2, <2>6, <1>2, <3>2, <3>3, <3>4, Null DEF OwnType, Stages, Pcs
      <4>2. PtrInv(p)'
        BY <1>3, <2>2, <2>6, <1>2, <3>2, <3>3, <3>4 DEF PtrInv, HasIp, Where, Rets, IpPcs, DpPcs, WantPcs, Parent
      <4>3. OpInv(p)'
        BY <1>3, <2>2, <2>6, <1>2, <3>2, <3>3, <3>4 DEF OpInv, Where, Rets
      <4>4. PathInv(p)'
        BY <1>3, <2>2, <2>6, <1>2, <3>2, <3>3, <3>4 DEF PathInv, HasName, Rets, Parent
      <4>5. Distinct(p)'
        BY <1>3, <2>2, <2>6, <1>2, <3>2, <3>3, <3>4 DEF Distinct, HasLockedIp, Truncating, DpPcs, Rets
      <4> QED
        BY <4>1, <4>2, <4>3, <4>4, <4>5 DEF Good
    <3>8. \A x \in Slot : Hold(p, x)' = Hold(p, x) + Is(x, g)
      <4>1. /\ cur[p] = 0 /\ put[p] = 0 /\ cur'[p] = g /\ ip'[p] = ip[p] /\ dp'[p] = dp[p]
            /\ put'[p] = 0 /\ cwd'[p] = cwd[p] /\ ofile'[p] = ofile[p]
        BY <1>3, <2>2, <2>6, <1>2, <3>2, <3>3, <3>4
      <4>2. \A x \in Slot : x # 0
        BY Null
      <4> QED
        BY <4>1, <4>2 DEF Hold, Is
    <3>9. \A x \in Slot : Locks(p, x)' <=> Locks(p, x)
      BY <1>3, <2>2, <2>6, <1>2, <3>2, <3>3, <3>4, Null DEF Locks, HasLockedIp, Truncating, DpPcs, Rets
    <3> QED
      BY <1>2, <3>5, <3>7, <3>8, <3>9, GainOnly, <2>2, <2>3, RefFacts
  <2> QED
    BY <2>4, <2>5, <2>6
<1> QED
  BY <1>4, <1>5

LEMMA CallTypes ==
  ASSUME NEW c \in Calls, c.op # "close"
  PROVE  /\ c.path \in Paths /\ c \in Call /\ Found(c.op) \in {"create", "open", "chdir", "link", "unlink", "readlink_found"}
         /\ Found(c.op) = "create" => c.op \in {"create", "mkdir", "symlink"}
         /\ Found(c.op) \in {"open", "chdir", "link", "unlink"} => c.op = Found(c.op)
         /\ Found(c.op) = "readlink_found" => c.op = "readlink"
  BY TreeAssumption DEF Found, Call

LEMMA BeginRef ==
  ASSUME RefInv, NEW p \in Proc, Begin(p)
  PROVE  RefInv' /\ Local(p)
<1>1. /\ panic = "" /\ put[p] = 0 /\ want[p] = 0 /\ pc[p] = "idle" /\ stage[p] = "iput" /\ ProcType
      /\ DiskType /\ TableType /\ Good(p)
  BY AtIs, RefFacts DEF Begin, procVars
<1>2. /\ panic = "" /\ put[p] = 0 /\ want[p] = 0 /\ pc[p] = "idle" /\ stage[p] = "iput"
      /\ OwnType(p) /\ OpInv(p) /\ cur[p] = 0 /\ ip[p] = 0 /\ dp[p] = 0 /\ cwd[p] \in Slot
      /\ ofile[p] \in Pointer
  BY <1>1, Constants DEF Good, PtrInv, PathInv, HasName, OwnType, HasIp, Where, Rets, IpPcs, DpPcs
<1>3. UNCHANGED ptrVars /\ UNCHANGED <<diskVars, itable, leaked>> /\ lost' = lost /\ UNCHANGED cwd
  BY DEF Begin, history
<1>4. DiskType' /\ TableType' /\ leaked' = leaked /\ lost' = lost
  BY <1>1, <1>3 DEF DiskType, TableType, diskVars
<1>5. PICK c \in Calls :
         IF c.op = "close"
         THEN /\ ofile[p] # 0
              /\ Then(p, ofile[p], 0, "idle")
              /\ ofile' = [ofile EXCEPT ![p] = 0]
              /\ UNCHANGED <<ret, argVars>>
         ELSE /\ Walk(p, Found(c.op), c.path)
              /\ call' = [call EXCEPT ![p] = c]
              /\ path' = [path EXCEPT ![p] = c.path]
              /\ count' = [count EXCEPT ![p] = 0]
              /\ UNCHANGED ofile
  BY DEF Begin
<1>6. CASE c.op = "close"
  <2>1. /\ Then(p, ofile[p], 0, "idle") /\ UNCHANGED ret /\ ofile' = [ofile EXCEPT ![p] = 0]
        /\ UNCHANGED <<call, path, count>> /\ UNCHANGED rest /\ UNCHANGED ptrVars /\ UNCHANGED cwd
    BY <1>3, <1>5, <1>6 DEF argVars
  <2>0. /\ ProcType /\ stage[p] = "iput" /\ Then(p, ofile[p], 0, "idle") /\ UNCHANGED ret
    BY <1>2, <1>1, <2>1
  <2>2. /\ LocalCtl(p) /\ LocalRet(p) /\ pc'[p] = "idle" /\ put'[p] = ofile[p] /\ want'[p] = 0
        /\ stage'[p] = "iput" /\ ret'[p] = ret[p]
    BY <2>0, ThenIs, KeptRet
  <2>3. /\ LocalPtr(p) /\ cur'[p] = cur[p] /\ ip'[p] = ip[p] /\ dp'[p] = dp[p]
    BY <1>1, <2>1, KeptPtr
  <2>4. /\ LocalRest(p) /\ LocalArg(p) /\ LocalFile(p) /\ rest'[p] = rest[p] /\ call'[p] = call[p]
        /\ path'[p] = path[p] /\ count'[p] = count[p] /\ cwd'[p] = cwd[p] /\ ofile'[p] = 0
    BY <1>1, <2>1, KeptRest, KeptArg DEF ProcType, LocalFile
  <2>5. Local(p)
    BY <2>2, <2>3, <2>4, LocalParts
  <2>7. Good(p)'
    <3>1. OwnType(p)'
      BY <1>2, <2>2, <2>3, <2>4, Null DEF OwnType, Stages, Pcs
    <3>2. PtrInv(p)'
      BY <1>2, <2>2, <2>3, <2>4 DEF PtrInv, HasIp, Where, Rets, IpPcs, DpPcs, WantPcs
    <3>3. OpInv(p)'
      BY <1>2, <2>2, <2>3, <2>4 DEF OpInv, Where, Rets
    <3>4. PathInv(p)'
      BY <1>2, <2>2, <2>3, <2>4 DEF PathInv, HasName, Rets
    <3>5. Distinct(p)'
      BY <1>2, <2>2, <2>3, <2>4 DEF Distinct, HasLockedIp, Truncating, DpPcs, Rets
    <3> QED
      BY <3>1, <3>2, <3>3, <3>4, <3>5 DEF Good
  <2>8. \A x \in Slot : Hold(p, x)' = Hold(p, x)
    <3>1. /\ put[p] = 0 /\ cur'[p] = cur[p] /\ ip'[p] = ip[p] /\ dp'[p] = dp[p]
          /\ put'[p] = ofile[p] /\ cwd'[p] = cwd[p] /\ ofile'[p] = 0
      BY <1>2, <2>2, <2>3, <2>4
    <3>2. \A x \in Slot : x # 0
      BY Null
    <3> QED
      BY <3>1, <3>2 DEF Hold, Is
  <2>9. \A x \in Slot : Locks(p, x)' <=> Locks(p, x)
    BY <1>2, <2>2, <2>3, <2>4, Null DEF Locks, HasLockedIp, Truncating, DpPcs, Rets
  <2> QED
    BY <1>2, <2>5, <2>7, <2>8, <2>9, StillStep, <1>3, <1>4, RefFacts
<1>7. CASE c.op # "close"
  <2>12. /\ c.path \in Paths /\ c \in Call /\ Found(c.op) \in {"create", "open", "chdir", "link", "unlink", "readlink_found"}
         /\ Found(c.op) \in Pcs /\ "namei" \in Pcs
         /\ Found(c.op) = "create" => c.op \in {"create", "mkdir", "symlink"}
         /\ Found(c.op) \in {"open", "chdir", "link", "unlink"} => c.op = Found(c.op)
         /\ Found(c.op) = "readlink_found" => c.op = "readlink"
    BY <1>7, CallTypes DEF Pcs
  <2>1. /\ Walk(p, Found(c.op), c.path) /\ call' = [call EXCEPT ![p] = c]
        /\ path' = [path EXCEPT ![p] = c.path] /\ count' = [count EXCEPT ![p] = 0]
        /\ UNCHANGED <<cwd, ofile>> /\ UNCHANGED ptrVars
    BY <1>3, <1>5, <1>7
  <2>2. /\ LocalCtl(p) /\ LocalRet(p) /\ LocalRest(p) /\ pc'[p] = "namei" /\ put'[p] = 0
        /\ want'[p] = 0 /\ stage'[p] = "iput" /\ ret'[p] = Found(c.op) /\ rest'[p] = c.path
    BY <1>2, <1>1, <2>1, WalkIs
  <2>3. /\ LocalPtr(p) /\ cur'[p] = cur[p] /\ ip'[p] = ip[p] /\ dp'[p] = dp[p]
    BY <1>1, <2>1, KeptPtr
  <2>4. /\ LocalArg(p) /\ LocalFile(p) /\ call'[p] = c /\ path'[p] = c.path /\ count'[p] = 0
        /\ cwd'[p] = cwd[p] /\ ofile'[p] = ofile[p]
    BY <1>1, <2>1, KeptFile DEF ProcType, LocalArg
  <2>5. Local(p)
    BY <2>2, <2>3, <2>4, LocalParts
  <2>13. /\ pc'[p] \in Pcs /\ ret'[p] \in Pcs /\ call'[p] \in Call /\ path'[p] \in Paths /\ rest'[p] \in Paths
         /\ count'[p] \in Nat
    BY <2>2, <2>3, <2>4, <2>12
  <2>7. Good(p)'
    <3>1. OwnType(p)'
      BY <1>2, <2>2, <2>3, <2>4, <2>13, Null DEF OwnType, Stages
    <3>2. PtrInv(p)'
      BY <2>12, <1>2, <2>2, <2>3, <2>4 DEF PtrInv, HasIp, Where, Rets, IpPcs, DpPcs, WantPcs
    <3>3. OpInv(p)'
      BY <2>12, <1>2, <2>2, <2>3, <2>4 DEF OpInv, Where, Rets
    <3>4. PathInv(p)'
      BY <2>12, <1>2, <2>2, <2>3, <2>4 DEF PathInv, HasName, Rets
    <3>5. Distinct(p)'
      BY <2>12, <1>2, <2>2, <2>3, <2>4 DEF Distinct, HasLockedIp, Truncating, DpPcs, Rets
    <3> QED
      BY <3>1, <3>2, <3>3, <3>4, <3>5 DEF Good
  <2>8. \A x \in Slot : Hold(p, x)' = Hold(p, x)
    <3>1. /\ put[p] = 0 /\ cur'[p] = cur[p] /\ ip'[p] = ip[p] /\ dp'[p] = dp[p] /\ put'[p] = 0
          /\ cwd'[p] = cwd[p] /\ ofile'[p] = ofile[p]
      BY <2>12, <1>2, <2>2, <2>3, <2>4
    <3>2. \A x \in Slot : x # 0
      BY Null
    <3> QED
      BY <3>1, <3>2 DEF Hold, Is
  <2>9. \A x \in Slot : Locks(p, x)' <=> Locks(p, x)
    BY <2>12, <1>2, <2>2, <2>3, <2>4, Null DEF Locks, HasLockedIp, Truncating, DpPcs, Rets
  <2> QED
    BY <1>2, <2>5, <2>7, <2>8, <2>9, StillStep, <1>3, <1>4, RefFacts
<1> QED
  BY <1>6, <1>7

LEMMA CreateRef ==
  ASSUME RefInv, NEW p \in Proc, Create(p)
  PROVE  RefInv' /\ Local(p)
<1>1. /\ panic = "" /\ put[p] = 0 /\ want[p] = 0 /\ pc[p] = "create" /\ stage[p] = "iput"
      /\ ProcType /\ DiskType /\ TableType /\ Good(p) /\ UNCHANGED <<call, path, count>>
      /\ UNCHANGED rest /\ UNCHANGED <<cwd, ofile>>
  BY AtIs, RefFacts DEF Create, Resume, argVars, procVars
<1>2. /\ panic = "" /\ put[p] = 0 /\ want[p] = 0 /\ pc[p] = "create" /\ stage[p] = "iput"
      /\ OwnType(p) /\ OpInv(p) /\ cur[p] \in Pointer /\ ip[p] = 0 /\ dp[p] = 0 /\ cwd[p] \in Slot
      /\ ofile[p] \in Pointer
  BY <1>1, Constants DEF Good, PtrInv, PathInv, HasName, OwnType, HasIp, Where, Rets, IpPcs, DpPcs
<1>3. CASE cur[p] = 0 /\ Goto(p, "idle") /\ UNCHANGED <<itable, ptrVars, panic>>
  BY <1>1, <1>3, NullRef DEF Create, Resume, history
<1>4. CASE cur[p] # 0 /\ Ilock(p, cur[p]) /\ ToDp(p) /\ cur' = [cur EXCEPT ![p] = 0] /\ Goto(p, "create_look")
  <2>12. cur[p] \in Slot /\ cur[p] # 0 /\ rest[p] \in Seq(Entries) /\ rest[p] # <<>>
    BY <1>1, <1>2, <1>4, Constants DEF Good, PathInv, HasName, OwnType
  <2>13. Ilock(p, cur[p]) /\ itable[cur[p]].inum # 0
    BY <1>4, <2>12, HeldSlot, Constants
  <2>1. /\ Goto(p, "create_look") /\ cur' = [cur EXCEPT ![p] = 0] /\ dp' = [dp EXCEPT ![p] = cur[p]]
        /\ UNCHANGED ip /\ UNCHANGED <<diskVars, leaked>> /\ lost' = lost
    BY <1>4 DEF Create, Resume, ToDp, history
  <2>2. /\ LocalCtl(p) /\ LocalRet(p) /\ pc'[p] = "create_look" /\ put'[p] = 0 /\ want'[p] = 0
        /\ stage'[p] = "iput" /\ ret'[p] = ret[p]
    BY <1>1, <2>1, GotoIs
  <2>3. /\ LocalPtr(p) /\ cur'[p] = 0 /\ ip'[p] = ip[p] /\ dp'[p] = cur[p]
    BY <1>1, <2>1 DEF LocalPtr, ProcType, ptrVars
  <2>4. /\ LocalRest(p) /\ LocalArg(p) /\ LocalFile(p) /\ rest'[p] = rest[p] /\ call'[p] = call[p]
        /\ path'[p] = path[p] /\ count'[p] = count[p] /\ cwd'[p] = cwd[p] /\ ofile'[p] = ofile[p]
    BY <1>1, <2>1, KeptRest, KeptArg, KeptFile
  <2>5. Local(p)
    BY <2>2, <2>3, <2>4, LocalParts
  <2>7. Good(p)'
    <3>1. OwnType(p)'
      BY <2>12, <1>2, <2>2, <2>3, <2>4, Null DEF OwnType, Stages, Pcs
    <3>2. PtrInv(p)'
      BY <2>12, <1>2, <2>2, <2>3, <2>4 DEF PtrInv, HasIp, Where, Rets, IpPcs, DpPcs, WantPcs
    <3>3. OpInv(p)'
      BY <2>12, <1>2, <2>2, <2>3, <2>4 DEF OpInv, Where, Rets
    <3>4. PathInv(p)'
      BY <2>12, <1>2, <2>2, <2>3, <2>4 DEF PathInv, HasName, Rets
    <3>5. Distinct(p)'
      BY <2>12, <1>2, <2>2, <2>3, <2>4 DEF Distinct, HasLockedIp, Truncating, DpPcs, Rets
    <3> QED
      BY <3>1, <3>2, <3>3, <3>4, <3>5 DEF Good
  <2>8. \A x \in Slot : Hold(p, x)' = Hold(p, x)
    <3>1. /\ dp[p] = 0 /\ put[p] = 0 /\ cur'[p] = 0 /\ ip'[p] = ip[p] /\ dp'[p] = cur[p]
          /\ put'[p] = 0 /\ cwd'[p] = cwd[p] /\ ofile'[p] = ofile[p]
      BY <2>12, <1>2, <2>2, <2>3, <2>4
    <3>2. \A x \in Slot : x # 0
      BY Null
    <3> QED
      BY <3>1, <3>2 DEF Hold, Is
  <2>9. \A x \in Slot : Locks(p, x)' <=> Locks(p, x) \/ x = cur[p]
    BY <2>12, <1>2, <2>2, <2>3, <2>4, Null DEF Locks, HasLockedIp, Truncating, DpPcs, Rets
  <2> QED
    BY <1>2, <2>5, <2>7, <2>8, <2>9, LockRef, <2>1, <2>12, <2>13, RefFacts
<1> QED
  BY <1>3, <1>4 DEF Create, Resume

LEMMA LinkRef ==
  ASSUME RefInv, NEW p \in Proc, Link(p)
  PROVE  RefInv' /\ Local(p)
<1>1. /\ panic = "" /\ put[p] = 0 /\ want[p] = 0 /\ pc[p] = "link" /\ stage[p] = "iput" /\ ProcType
      /\ DiskType /\ TableType /\ Good(p) /\ UNCHANGED <<call, path, count>> /\ UNCHANGED rest
      /\ UNCHANGED <<cwd, ofile>>
  BY AtIs, RefFacts DEF Link, Resume, argVars, procVars
<1>2. /\ panic = "" /\ put[p] = 0 /\ want[p] = 0 /\ pc[p] = "link" /\ stage[p] = "iput"
      /\ OwnType(p) /\ OpInv(p) /\ cur[p] \in Pointer /\ ip[p] = 0 /\ dp[p] = 0 /\ cwd[p] \in Slot
      /\ ofile[p] \in Pointer
  BY <1>1, Constants DEF Good, PtrInv, PathInv, HasName, OwnType, HasIp, Where, Rets, IpPcs, DpPcs
<1>3. CASE cur[p] = 0 /\ Goto(p, "idle") /\ UNCHANGED <<itable, ptrVars, panic>>
  BY <1>1, <1>3, NullRef DEF Link, Resume, history
<1>4. CASE cur[p] # 0 /\ Ilock(p, cur[p]) /\ ToIp(p) /\ cur' = [cur EXCEPT ![p] = 0] /\ Goto(p, "link_inc")
  <2>12. cur[p] \in Slot /\ cur[p] # 0
    BY <1>2, <1>4, Constants DEF OwnType
  <2>13. Ilock(p, cur[p]) /\ itable[cur[p]].inum # 0
    BY <1>4, <2>12, HeldSlot, Constants
  <2>1. /\ Goto(p, "link_inc") /\ cur' = [cur EXCEPT ![p] = 0] /\ ip' = [ip EXCEPT ![p] = cur[p]]
        /\ UNCHANGED dp /\ UNCHANGED <<diskVars, leaked>> /\ lost' = lost
    BY <1>4 DEF Link, Resume, ToIp, history
  <2>2. /\ LocalCtl(p) /\ LocalRet(p) /\ pc'[p] = "link_inc" /\ put'[p] = 0 /\ want'[p] = 0
        /\ stage'[p] = "iput" /\ ret'[p] = ret[p]
    BY <1>1, <2>1, GotoIs
  <2>3. /\ LocalPtr(p) /\ cur'[p] = 0 /\ ip'[p] = cur[p] /\ dp'[p] = dp[p]
    BY <1>1, <2>1 DEF LocalPtr, ProcType, ptrVars
  <2>4. /\ LocalRest(p) /\ LocalArg(p) /\ LocalFile(p) /\ rest'[p] = rest[p] /\ call'[p] = call[p]
        /\ path'[p] = path[p] /\ count'[p] = count[p] /\ cwd'[p] = cwd[p] /\ ofile'[p] = ofile[p]
    BY <1>1, <2>1, KeptRest, KeptArg, KeptFile
  <2>5. Local(p)
    BY <2>2, <2>3, <2>4, LocalParts
  <2>7. Good(p)'
    <3>1. OwnType(p)'
      BY <2>12, <1>2, <2>2, <2>3, <2>4, Null DEF OwnType, Stages, Pcs
    <3>2. PtrInv(p)'
      BY <2>12, <1>2, <2>2, <2>3, <2>4 DEF PtrInv, HasIp, Where, Rets, IpPcs, DpPcs, WantPcs
    <3>3. OpInv(p)'
      BY <2>12, <1>2, <2>2, <2>3, <2>4 DEF OpInv, Where, Rets
    <3>4. PathInv(p)'
      BY <2>12, <1>2, <2>2, <2>3, <2>4 DEF PathInv, HasName, Rets
    <3>5. Distinct(p)'
      BY <2>12, <1>2, <2>2, <2>3, <2>4 DEF Distinct, HasLockedIp, Truncating, DpPcs, Rets
    <3> QED
      BY <3>1, <3>2, <3>3, <3>4, <3>5 DEF Good
  <2>8. \A x \in Slot : Hold(p, x)' = Hold(p, x)
    <3>1. /\ ip[p] = 0 /\ put[p] = 0 /\ cur'[p] = 0 /\ ip'[p] = cur[p] /\ dp'[p] = dp[p]
          /\ put'[p] = 0 /\ cwd'[p] = cwd[p] /\ ofile'[p] = ofile[p]
      BY <2>12, <1>2, <2>2, <2>3, <2>4
    <3>2. \A x \in Slot : x # 0
      BY Null
    <3> QED
      BY <3>1, <3>2 DEF Hold, Is
  <2>9. \A x \in Slot : Locks(p, x)' <=> Locks(p, x) \/ x = cur[p]
    BY <2>12, <1>2, <2>2, <2>3, <2>4, Null DEF Locks, HasLockedIp, Truncating, DpPcs, Rets
  <2> QED
    BY <1>2, <2>5, <2>7, <2>8, <2>9, LockRef, <2>1, <2>12, <2>13, RefFacts
<1> QED
  BY <1>3, <1>4 DEF Link, Resume

LEMMA UnlinkRef ==
  ASSUME RefInv, NEW p \in Proc, Unlink(p)
  PROVE  RefInv' /\ Local(p)
<1>1. /\ panic = "" /\ put[p] = 0 /\ want[p] = 0 /\ pc[p] = "unlink" /\ stage[p] = "iput"
      /\ ProcType /\ DiskType /\ TableType /\ Good(p) /\ UNCHANGED <<call, path, count>>
      /\ UNCHANGED rest /\ UNCHANGED <<cwd, ofile>>
  BY AtIs, RefFacts DEF Unlink, Resume, argVars, procVars
<1>2. /\ panic = "" /\ put[p] = 0 /\ want[p] = 0 /\ pc[p] = "unlink" /\ stage[p] = "iput"
      /\ OwnType(p) /\ OpInv(p) /\ cur[p] \in Pointer /\ ip[p] = 0 /\ dp[p] = 0 /\ cwd[p] \in Slot
      /\ ofile[p] \in Pointer
  BY <1>1, Constants DEF Good, PtrInv, PathInv, HasName, OwnType, HasIp, Where, Rets, IpPcs, DpPcs
<1>3. CASE cur[p] = 0 /\ Goto(p, "idle") /\ UNCHANGED <<itable, ptrVars, panic>>
  BY <1>1, <1>3, NullRef DEF Unlink, Resume, history
<1>4. CASE cur[p] # 0 /\ Ilock(p, cur[p]) /\ ToDp(p) /\ cur' = [cur EXCEPT ![p] = 0] /\ Goto(p, "unlink_look")
  <2>12. cur[p] \in Slot /\ cur[p] # 0 /\ rest[p] \in Seq(Entries) /\ rest[p] # <<>>
    BY <1>1, <1>2, <1>4, Constants DEF Good, PathInv, HasName, OwnType
  <2>13. Ilock(p, cur[p]) /\ itable[cur[p]].inum # 0
    BY <1>4, <2>12, HeldSlot, Constants
  <2>1. /\ Goto(p, "unlink_look") /\ cur' = [cur EXCEPT ![p] = 0] /\ dp' = [dp EXCEPT ![p] = cur[p]]
        /\ UNCHANGED ip /\ UNCHANGED <<diskVars, leaked>> /\ lost' = lost
    BY <1>4 DEF Unlink, Resume, ToDp, history
  <2>2. /\ LocalCtl(p) /\ LocalRet(p) /\ pc'[p] = "unlink_look" /\ put'[p] = 0 /\ want'[p] = 0
        /\ stage'[p] = "iput" /\ ret'[p] = ret[p]
    BY <1>1, <2>1, GotoIs
  <2>3. /\ LocalPtr(p) /\ cur'[p] = 0 /\ ip'[p] = ip[p] /\ dp'[p] = cur[p]
    BY <1>1, <2>1 DEF LocalPtr, ProcType, ptrVars
  <2>4. /\ LocalRest(p) /\ LocalArg(p) /\ LocalFile(p) /\ rest'[p] = rest[p] /\ call'[p] = call[p]
        /\ path'[p] = path[p] /\ count'[p] = count[p] /\ cwd'[p] = cwd[p] /\ ofile'[p] = ofile[p]
    BY <1>1, <2>1, KeptRest, KeptArg, KeptFile
  <2>5. Local(p)
    BY <2>2, <2>3, <2>4, LocalParts
  <2>7. Good(p)'
    <3>1. OwnType(p)'
      BY <2>12, <1>2, <2>2, <2>3, <2>4, Null DEF OwnType, Stages, Pcs
    <3>2. PtrInv(p)'
      BY <2>12, <1>2, <2>2, <2>3, <2>4 DEF PtrInv, HasIp, Where, Rets, IpPcs, DpPcs, WantPcs
    <3>3. OpInv(p)'
      BY <2>12, <1>2, <2>2, <2>3, <2>4 DEF OpInv, Where, Rets
    <3>4. PathInv(p)'
      BY <2>12, <1>2, <2>2, <2>3, <2>4 DEF PathInv, HasName, Rets
    <3>5. Distinct(p)'
      BY <2>12, <1>2, <2>2, <2>3, <2>4 DEF Distinct, HasLockedIp, Truncating, DpPcs, Rets
    <3> QED
      BY <3>1, <3>2, <3>3, <3>4, <3>5 DEF Good
  <2>8. \A x \in Slot : Hold(p, x)' = Hold(p, x)
    <3>1. /\ dp[p] = 0 /\ put[p] = 0 /\ cur'[p] = 0 /\ ip'[p] = ip[p] /\ dp'[p] = cur[p]
          /\ put'[p] = 0 /\ cwd'[p] = cwd[p] /\ ofile'[p] = ofile[p]
      BY <2>12, <1>2, <2>2, <2>3, <2>4
    <3>2. \A x \in Slot : x # 0
      BY Null
    <3> QED
      BY <3>1, <3>2 DEF Hold, Is
  <2>9. \A x \in Slot : Locks(p, x)' <=> Locks(p, x) \/ x = cur[p]
    BY <2>12, <1>2, <2>2, <2>3, <2>4, Null DEF Locks, HasLockedIp, Truncating, DpPcs, Rets
  <2> QED
    BY <1>2, <2>5, <2>7, <2>8, <2>9, LockRef, <2>1, <2>12, <2>13, RefFacts
<1> QED
  BY <1>3, <1>4 DEF Unlink, Resume

-----------------------------------------------------------------------------
(* create *)

LEMMA UnlockedTable ==
  ASSUME TableType, NEW s \in Slot, itable' = Unlock(itable, s)
  PROVE  Released(s) /\ \A x \in Slot : itable'[x].type = itable[x].type /\ itable'[x].nlink = itable[x].nlink
  BY Unlocked DEF Released, ButLock, TableType

LEMMA RelinkedTable ==
  ASSUME TableType, NEW s \in Slot, NEW d \in Int, itable' = Unlock(AddLink(itable, s, d), s)
  PROVE  /\ Released(s)
         /\ \A x \in Slot : /\ itable'[x].type = itable[x].type
                            /\ itable'[x].nlink = IF x = s THEN itable[s].nlink + d ELSE itable[x].nlink
<1>1. itable[s].nlink + d \in Int /\ itable \in [Slot -> Inode]
  BY DEF TableType, Inode
<1> DEFINE A == AddLink(itable, s, d)
<1>2. A = [itable EXCEPT ![s].nlink = itable[s].nlink + d]
  BY DEF AddLink
<1>3. /\ A \in [Slot -> Inode]
      /\ \A x \in Slot : /\ A[x].ref = itable[x].ref /\ A[x].inum = itable[x].inum /\ A[x].valid = itable[x].valid
                         /\ A[x].lock = itable[x].lock /\ A[x].type = itable[x].type
                         /\ A[x].nlink = IF x = s THEN itable[s].nlink + d ELSE itable[x].nlink
  BY <1>1, <1>2 DEF Inode
<1> HIDE DEF A
<1>4. /\ Unlock(A, s) \in [Slot -> Inode]
      /\ \A x \in Slot : ButLock(Unlock(A, s)[x], A[x]) /\ Unlock(A, s)[x].lock = IF x = s THEN NoOne ELSE A[x].lock
  BY <1>3, Unlocked
<1>5. itable' = Unlock(A, s)
  BY DEF A
<1> QED
  BY <1>3, <1>4, <1>5 DEF Released, ButLock, TableType

LEMMA CreatedTable ==
  ASSUME TableType, NEW s \in Slot, NEW t \in Slot, s # t, NEW d \in Int,
         itable' = Unlock(AddLink([itable EXCEPT ![t].nlink = 1], s, d), s)
  PROVE  Released(s) /\ Linked(s, t, d)
<1>1. itable[s].nlink + d \in Int /\ itable \in [Slot -> Inode]
  BY DEF TableType, Inode
<1> DEFINE B == [itable EXCEPT ![t].nlink = 1]
           A == AddLink(B, s, d)
<1>2. /\ B \in [Slot -> Inode] /\ B[s] = itable[s]
      /\ \A x \in Slot : /\ B[x].ref = itable[x].ref /\ B[x].inum = itable[x].inum /\ B[x].valid = itable[x].valid
                         /\ B[x].lock = itable[x].lock /\ B[x].type = itable[x].type
                         /\ B[x].nlink = IF x = t THEN 1 ELSE itable[x].nlink
  BY <1>1 DEF Inode
<1>3. A = [B EXCEPT ![s].nlink = itable[s].nlink + d]
  BY <1>2 DEF AddLink
<1> HIDE DEF B
<1>4. /\ A \in [Slot -> Inode]
      /\ \A x \in Slot : /\ A[x].ref = B[x].ref /\ A[x].inum = B[x].inum /\ A[x].valid = B[x].valid
                         /\ A[x].lock = B[x].lock /\ A[x].type = B[x].type
                         /\ A[x].nlink = IF x = s THEN itable[s].nlink + d ELSE B[x].nlink
  BY <1>1, <1>2, <1>3 DEF Inode
<1>5. itable' = Unlock(A, s)
  BY DEF A, B
<1> HIDE DEF A
<1>6. /\ Unlock(A, s) \in [Slot -> Inode]
      /\ \A x \in Slot : ButLock(Unlock(A, s)[x], A[x]) /\ Unlock(A, s)[x].lock = IF x = s THEN NoOne ELSE A[x].lock
  BY <1>4, Unlocked
<1>7. TableType' /\ \A x \in Slot : ButLock(itable'[x], A[x]) /\ itable'[x].lock = IF x = s THEN NoOne ELSE A[x].lock
  BY <1>5, <1>6 DEF TableType
<1>8. \A x \in Slot : /\ itable'[x].ref = A[x].ref /\ itable'[x].inum = A[x].inum /\ itable'[x].valid = A[x].valid
                      /\ itable'[x].type = A[x].type /\ itable'[x].nlink = A[x].nlink
                      /\ itable'[x].lock = IF x = s THEN NoOne ELSE A[x].lock
  BY <1>7 DEF ButLock
<1>9. \A x \in Slot : /\ itable'[x].ref = itable[x].ref /\ itable'[x].inum = itable[x].inum
                      /\ itable'[x].valid = itable[x].valid /\ itable'[x].type = itable[x].type
                      /\ itable'[x].lock = IF x = s THEN NoOne ELSE itable[x].lock
  <2>1. \A x \in Slot : /\ A[x].ref = B[x].ref /\ A[x].inum = B[x].inum /\ A[x].valid = B[x].valid
                         /\ A[x].type = B[x].type /\ A[x].lock = B[x].lock
    BY <1>4
  <2>2. \A x \in Slot : /\ B[x].ref = itable[x].ref /\ B[x].inum = itable[x].inum /\ B[x].valid = itable[x].valid
                         /\ B[x].type = itable[x].type /\ B[x].lock = itable[x].lock
    BY <1>2
  <2>3. \A x \in Slot : /\ itable'[x].ref = A[x].ref /\ itable'[x].inum = A[x].inum /\ itable'[x].valid = A[x].valid
                         /\ itable'[x].type = A[x].type
                         /\ itable'[x].lock = IF x = s THEN NoOne ELSE A[x].lock
    BY <1>8
  <2> SUFFICES ASSUME NEW x \in Slot
               PROVE  /\ itable'[x].ref = itable[x].ref /\ itable'[x].inum = itable[x].inum
                      /\ itable'[x].valid = itable[x].valid /\ itable'[x].type = itable[x].type
                      /\ itable'[x].lock = IF x = s THEN NoOne ELSE itable[x].lock
    OBVIOUS
  <2>4. itable'[x].ref = itable[x].ref /\ itable'[x].inum = itable[x].inum /\ itable'[x].type = itable[x].type
    BY <2>1, <2>2, <2>3
  <2>5. itable'[x].valid = itable[x].valid
    BY <2>1, <2>2, <2>3
  <2>6. itable'[x].lock = IF x = s THEN NoOne ELSE itable[x].lock
    BY <2>1, <2>2, <2>3
  <2> QED
    BY <2>4, <2>5, <2>6
<1>10. \A x \in Slot : itable'[x].nlink = IF x = s THEN itable[s].nlink + d
                                          ELSE IF x = t THEN 1 ELSE itable[x].nlink
  <2>1. \A x \in Slot : itable'[x].nlink = A[x].nlink
    BY <1>8
  <2>2. \A x \in Slot : A[x].nlink = IF x = s THEN itable[s].nlink + d ELSE B[x].nlink
    BY <1>4
  <2>3. \A x \in Slot : B[x].nlink = IF x = t THEN 1 ELSE itable[x].nlink
    BY <1>2
  <2> QED
    BY <2>1, <2>2, <2>3
<1> QED
  BY <1>7, <1>9, <1>10 DEF Released, Linked

LEMMA RelinkedDisk ==
  ASSUME RefInv, NEW s \in Slot, itable[s].inum \in Inum, NEW d \in Int, dinode' = UpdateLink(dinode, s, d)
  PROVE  /\ dinode' \in [Inum -> [type : Types, nlink : Int]]
         /\ dinode' = [dinode EXCEPT ![itable[s].inum].nlink = itable[s].nlink + d]
<1>1. itable[s].nlink + d \in Int /\ dinode \in [Inum -> [type : Types, nlink : Int]]
  BY RefFacts DEF DiskType
<1>2. dinode' = [dinode EXCEPT ![itable[s].inum].nlink = itable[s].nlink + d]
  BY DEF UpdateLink
<1> QED
  BY <1>1, <1>2

\* p unlocks and puts ip, which changes nothing else.
LEMMA PutIpOnly ==
  ASSUME RefInv, NEW p \in Proc, put[p] = 0, want[p] = 0,
         pc[p] \in {"create_old", "created", "open_check", "open_file", "chdir_check", "link_inc"},
         PutIp(p), UNCHANGED <<call, path, count>>, UNCHANGED rest, UNCHANGED <<cwd, ofile>>,
         DiskType', leaked' = leaked, lost' = lost
  PROVE  RefInv' /\ Local(p)
<1>1. TableType /\ Good(p)
  BY RefFacts
<1>2. ip[p] \in Slot
  BY <1>1, Constants DEF Good, PtrInv, HasIp, Where, IpPcs, OwnType
<1>3. /\ Then(p, ip[p], 0, "idle") /\ UNCHANGED ret /\ ip' = [ip EXCEPT ![p] = 0] /\ UNCHANGED <<cur, dp>>
      /\ itable' = Unlock(itable, ip[p])
  BY DEF PutIp, UnlockPut
<1>4. Released(ip[p])
  BY <1>1, <1>2, <1>3, UnlockedTable
<1> QED
  BY <1>3, <1>4, PutIpRef DEF Released

LEMMA PutDpOnly ==
  ASSUME RefInv, NEW p \in Proc, put[p] = 0, want[p] = 0, pc[p] \in {"unlink_look", "unlink_bad"},
         PutDp(p), UNCHANGED <<call, path, count>>, UNCHANGED rest, UNCHANGED <<cwd, ofile>>,
         DiskType', leaked' = leaked, lost' = lost
  PROVE  RefInv' /\ Local(p)
<1>1. TableType /\ Good(p)
  BY RefFacts
<1>2. dp[p] \in Slot
  BY <1>1, Constants DEF Good, PtrInv, DpPcs, OwnType
<1>3. /\ Then(p, dp[p], 0, "idle") /\ UNCHANGED ret /\ dp' = [dp EXCEPT ![p] = 0] /\ UNCHANGED <<cur, ip>>
      /\ itable' = Unlock(itable, dp[p])
  BY DEF PutDp, UnlockPut
<1>4. Released(dp[p])
  BY <1>1, <1>2, <1>3, UnlockedTable
<1> QED
  BY <1>3, <1>4, PutDpRef DEF Released

\* p gets inode i, and unlocks nothing.
LEMMA GotOne ==
  ASSUME RefInv, NEW p \in Proc, Local(p), Good(p)', DiskType', leaked' = leaked, lost' \subseteq Inum,
         NEW i \in Inum, GotTable(i, {}),
         \A x \in Slot : Hold(p, x)' = Hold(p, x) + Is(x, Got(i)),
         \A x \in Slot : Locks(p, x)' <=> Locks(p, x)
  PROVE  RefInv'
<1>1. Got(i) \in Slot /\ TableType' /\ itable'[Got(i)].inum # 0
  BY Constants DEF GotTable
<1>2. \A x \in Slot : /\ itable'[x].ref = itable[x].ref + Is(x, Got(i))
                      /\ x # Got(i) => itable'[x].inum = itable[x].inum
                      /\ itable[x].ref > 0 => itable'[x].valid = itable[x].valid
                      /\ itable'[x].lock = itable[x].lock
  BY DEF GotTable
<1> QED
  BY <1>1, <1>2, GainOnly

\* The directory and the name at hand
LEMMA AtHand ==
  ASSUME RefInv, NEW p \in Proc, dp[p] \in Slot, rest[p] \in Seq(Entries), rest[p] # <<>>
  PROVE  Dir(p) \in Inum /\ LastName(p) \in Entries /\ entry[Dir(p)][LastName(p)] \in Inum \cup {0}
<1>1. Dir(p) \in Inum
  BY HeldSlot DEF Dir
<1>2. LastName(p) \in Entries
  BY HeadTail DEF LastName
<1> QED
  BY <1>1, <1>2, RefFacts DEF DiskType

LEMMA CreateLookRef ==
  ASSUME RefInv, NEW p \in Proc, CreateLook(p)
  PROVE  RefInv' /\ Local(p)
<1> DEFINE s == dp[p]
           old == entry[Dir(p)][LastName(p)]
           new == Min(FreeInodes)
<1>1. /\ panic = "" /\ put[p] = 0 /\ want[p] = 0 /\ pc[p] = "create_look" /\ stage[p] = "iput"
      /\ ProcType /\ DiskType /\ TableType /\ Good(p) /\ UNCHANGED <<call, path, count>>
      /\ UNCHANGED <<cwd, ofile>>
  BY AtIs, RefFacts DEF CreateLook, procVars
<1>2. /\ panic = "" /\ put[p] = 0 /\ want[p] = 0 /\ pc[p] = "create_look" /\ stage[p] = "iput"
      /\ OwnType(p) /\ OpInv(p) /\ cur[p] = 0 /\ ip[p] = 0 /\ dp[p] # 0 /\ dp[p] \in Slot
      /\ rest[p] \in Seq(Entries) /\ rest[p] # <<>> /\ cwd[p] \in Slot /\ ofile[p] \in Pointer
  BY <1>1, Constants DEF Good, PtrInv, PathInv, HasName, OwnType, HasIp, Where, Rets, IpPcs, DpPcs
<1>3. Locks(p, s) /\ s \in Slot /\ old \in Inum \cup {0}
  BY <1>2, AtHand DEF Locks, DpPcs
<1>4. FreeInodes # {} => new \in Inum /\ new \in FreeInodes
  BY MinIn, Constants DEF FreeInodes
<1> HIDE DEF old, new
<1>5. CASE panic' # ""
  <2>1. \E msg : Halt(msg) /\ UNCHANGED <<call, path, count, procVars, lost>>
    BY <1>2, <1>5 DEF CreateLook, old, new
  <2> QED
    BY <2>1, HaltIs
<1>6. CASE panic' = "" /\ old # 0
  <2>11. /\ CanGet(old) /\ itable' = Unlock(AfterGet(old), s) /\ UNCHANGED <<diskVars, leaked>> /\ lost' = lost
    BY <1>6 DEF CreateLook, old, Halt
  <2>12. old \in Inum
    BY <1>3, <1>6
  <2>13. GotTable(old, {s})
    BY <1>1, <1>3, <2>11, <2>12, GotUnlock
  <2>14. Got(old) \in Slot /\ Got(old) # 0
    BY <2>13, Null DEF GotTable
  <2>15. DiskType' /\ leaked' = leaked /\ lost' = lost
    BY <1>1, <2>11 DEF DiskType, diskVars
  <2>1. /\ Then(p, s, Got(old), "create_old") /\ UNCHANGED ret /\ ip' = [ip EXCEPT ![p] = Got(old)]
        /\ dp' = [dp EXCEPT ![p] = 0] /\ UNCHANGED cur /\ UNCHANGED rest
    BY <1>6 DEF CreateLook, old, Halt
  <2>0. /\ ProcType /\ stage[p] = "iput" /\ Then(p, s, Got(old), "create_old") /\ UNCHANGED ret
    BY <1>1, <2>1
  <2>2. /\ LocalCtl(p) /\ LocalRet(p) /\ pc'[p] = "create_old" /\ put'[p] = s /\ want'[p] = Got(old)
        /\ stage'[p] = "iput" /\ ret'[p] = ret[p]
    BY <2>0, ThenIs, KeptRet
  <2>3. /\ LocalPtr(p) /\ cur'[p] = cur[p] /\ ip'[p] = Got(old) /\ dp'[p] = 0
    BY <1>1, <2>1 DEF LocalPtr, ProcType, ptrVars
  <2>4. /\ LocalRest(p) /\ LocalArg(p) /\ LocalFile(p) /\ rest'[p] = rest[p] /\ call'[p] = call[p]
        /\ path'[p] = path[p] /\ count'[p] = count[p] /\ cwd'[p] = cwd[p] /\ ofile'[p] = ofile[p]
    BY <1>1, <2>1, KeptRest, KeptArg, KeptFile
  <2>5. Local(p)
    BY <2>2, <2>3, <2>4, LocalParts
  <2>7. Good(p)'
    <3>1. OwnType(p)'
      BY <2>14, <1>2, <2>2, <2>3, <2>4, Null DEF OwnType, Stages, Pcs
    <3>2. PtrInv(p)'
      BY <2>14, <1>2, <2>2, <2>3, <2>4 DEF PtrInv, HasIp, Where, Rets, IpPcs, DpPcs, WantPcs
    <3>3. OpInv(p)'
      BY <2>14, <1>2, <2>2, <2>3, <2>4 DEF OpInv, Where, Rets
    <3>4. PathInv(p)'
      BY <2>14, <1>2, <2>2, <2>3, <2>4 DEF PathInv, HasName, Rets
    <3>5. Distinct(p)'
      BY <2>14, <1>2, <2>2, <2>3, <2>4 DEF Distinct, HasLockedIp, Truncating, DpPcs, Rets
    <3> QED
      BY <3>1, <3>2, <3>3, <3>4, <3>5 DEF Good
  <2>8. \A x \in Slot : Hold(p, x)' = Hold(p, x) + Is(x, Got(old))
    <3>1. /\ ip[p] = 0 /\ put[p] = 0 /\ cur'[p] = cur[p] /\ ip'[p] = Got(old) /\ dp'[p] = 0
          /\ put'[p] = s /\ cwd'[p] = cwd[p] /\ ofile'[p] = ofile[p]
      BY <2>14, <1>2, <2>2, <2>3, <2>4
    <3>2. \A x \in Slot : x # 0
      BY Null
    <3> QED
      BY <3>1, <3>2 DEF Hold, Is
  <2>9. \A x \in Slot : Locks(p, x)' <=> Locks(p, x) /\ x \notin {s}
    BY <2>14, <1>2, <2>2, <2>3, <2>4, Null DEF Locks, HasLockedIp, Truncating, DpPcs, Rets
  <2> QED
    BY <1>2, <2>5, <2>7, <2>8, <2>9, GotRef, <1>3, <2>12, <2>13, <2>15, RefFacts
<1>7. CASE panic' = "" /\ old = 0
  <2>11. /\ FreeInodes # {} /\ CanGet(new) /\ itable' = AfterGet(new) /\ UNCHANGED <<entry, target, leaked>> /\ lost' = lost
         /\ dinode' = [dinode EXCEPT ![new] = [type |-> NewType(call[p].op), nlink |-> 0]]
    BY <1>7 DEF CreateLook, old, new, Halt
  <2>12. new \in Inum
    BY <1>4, <2>11
  <2>13. GotTable(new, {})
    BY <1>1, <2>11, <2>12, GotOnly
  <2>14. Got(new) \in Slot /\ Got(new) # 0
    BY <2>13, Null DEF GotTable
  <2>15. DiskType' /\ leaked' = leaked /\ lost' = lost
    <3>1. [type |-> NewType(call[p].op), nlink |-> 0] \in [type : Types, nlink : Int]
      BY DEF NewType, Types
    <3> QED
      BY <1>1, <2>11, <2>12, <3>1 DEF DiskType
  <2>1. /\ Then(p, 0, Got(new), "create_new") /\ UNCHANGED ret /\ ip' = [ip EXCEPT ![p] = Got(new)]
        /\ UNCHANGED <<cur, dp>> /\ UNCHANGED rest
    BY <1>7 DEF CreateLook, old, new, Halt
  <2>0. /\ ProcType /\ stage[p] = "iput" /\ Then(p, 0, Got(new), "create_new") /\ UNCHANGED ret
    BY <1>1, <2>1
  <2>2. /\ LocalCtl(p) /\ LocalRet(p) /\ pc'[p] = "create_new" /\ put'[p] = 0 /\ want'[p] = Got(new)
        /\ stage'[p] = "iput" /\ ret'[p] = ret[p]
    BY <2>0, ThenIs, KeptRet
  <2>3. /\ LocalPtr(p) /\ cur'[p] = cur[p] /\ ip'[p] = Got(new) /\ dp'[p] = dp[p]
    BY <1>1, <2>1 DEF LocalPtr, ProcType, ptrVars
  <2>4. /\ LocalRest(p) /\ LocalArg(p) /\ LocalFile(p) /\ rest'[p] = rest[p] /\ call'[p] = call[p]
        /\ path'[p] = path[p] /\ count'[p] = count[p] /\ cwd'[p] = cwd[p] /\ ofile'[p] = ofile[p]
    BY <1>1, <2>1, KeptRest, KeptArg, KeptFile
  <2>5. Local(p)
    BY <2>2, <2>3, <2>4, LocalParts
  <2>7. Good(p)'
    <3>1. OwnType(p)'
      BY <2>14, <1>2, <2>2, <2>3, <2>4, Null DEF OwnType, Stages, Pcs
    <3>2. PtrInv(p)'
      BY <2>14, <1>2, <2>2, <2>3, <2>4 DEF PtrInv, HasIp, Where, Rets, IpPcs, DpPcs, WantPcs
    <3>3. OpInv(p)'
      BY <2>14, <1>2, <2>2, <2>3, <2>4 DEF OpInv, Where, Rets
    <3>4. PathInv(p)'
      BY <2>14, <1>2, <2>2, <2>3, <2>4 DEF PathInv, HasName, Rets
    <3>5. Distinct(p)'
      BY <2>14, <1>2, <2>2, <2>3, <2>4 DEF Distinct, HasLockedIp, Truncating, DpPcs, Rets
    <3> QED
      BY <3>1, <3>2, <3>3, <3>4, <3>5 DEF Good
  <2>8. \A x \in Slot : Hold(p, x)' = Hold(p, x) + Is(x, Got(new))
    <3>1. /\ ip[p] = 0 /\ put[p] = 0 /\ cur'[p] = cur[p] /\ ip'[p] = Got(new) /\ dp'[p] = dp[p]
          /\ put'[p] = 0 /\ cwd'[p] = cwd[p] /\ ofile'[p] = ofile[p]
      BY <2>14, <1>2, <2>2, <2>3, <2>4
    <3>2. \A x \in Slot : x # 0
      BY Null
    <3> QED
      BY <3>1, <3>2 DEF Hold, Is
  <2>9. \A x \in Slot : Locks(p, x)' <=> Locks(p, x)
    BY <2>14, <1>2, <2>2, <2>3, <2>4, Null DEF Locks, HasLockedIp, Truncating, DpPcs, Rets
  <2> QED
    BY <1>2, <2>5, <2>7, <2>8, <2>9, GotOne, <1>3, <2>12, <2>13, <2>15, RefFacts
<1> QED
  BY <1>5, <1>6, <1>7

LEMMA CreateOldRef ==
  ASSUME RefInv, NEW p \in Proc, CreateOld(p)
  PROVE  RefInv' /\ Local(p)
<1>1. /\ panic = "" /\ put[p] = 0 /\ want[p] = 0 /\ pc[p] = "create_old" /\ stage[p] = "iput"
      /\ ProcType /\ DiskType /\ TableType /\ Good(p) /\ UNCHANGED <<call, path, count>>
      /\ UNCHANGED rest /\ UNCHANGED <<cwd, ofile>>
  BY AtIs, RefFacts DEF CreateOld, argVars, procVars
<1>2. /\ panic = "" /\ put[p] = 0 /\ want[p] = 0 /\ pc[p] = "create_old" /\ stage[p] = "iput"
      /\ OwnType(p) /\ OpInv(p) /\ cur[p] = 0 /\ ip[p] # 0 /\ ip[p] \in Slot /\ dp[p] = 0
      /\ cwd[p] \in Slot /\ ofile[p] \in Pointer
  BY <1>1, Constants DEF Good, PtrInv, PathInv, HasName, OwnType, HasIp, Where, Rets, IpPcs, DpPcs
<1>3. DiskType' /\ leaked' = leaked /\ lost' = lost
  BY <1>1 DEF CreateOld, DiskType, diskVars, history
<1>4. CASE PutIp(p)
  BY <1>1, <1>3, <1>4, PutIpOnly
<1>5. CASE Goto(p, "created") /\ UNCHANGED <<itable, ptrVars>>
  <2>1. /\ Goto(p, "created") /\ UNCHANGED ptrVars /\ UNCHANGED itable
    BY <1>5
  <2>0. /\ ProcType /\ stage[p] = "iput" /\ Goto(p, "created")
    BY <1>1, <2>1
  <2>2. /\ LocalCtl(p) /\ LocalRet(p) /\ pc'[p] = "created" /\ put'[p] = 0 /\ want'[p] = 0
        /\ stage'[p] = "iput" /\ ret'[p] = ret[p]
    BY <2>0, GotoIs
  <2>3. /\ LocalPtr(p) /\ cur'[p] = cur[p] /\ ip'[p] = ip[p] /\ dp'[p] = dp[p]
    BY <1>1, <2>1, KeptPtr
  <2>4. /\ LocalRest(p) /\ LocalArg(p) /\ LocalFile(p) /\ rest'[p] = rest[p] /\ call'[p] = call[p]
        /\ path'[p] = path[p] /\ count'[p] = count[p] /\ cwd'[p] = cwd[p] /\ ofile'[p] = ofile[p]
    BY <1>1, <2>1, KeptRest, KeptArg, KeptFile
  <2>5. Local(p)
    BY <2>2, <2>3, <2>4, LocalParts
  <2>7. Good(p)'
    <3>1. OwnType(p)'
      BY <1>2, <2>2, <2>3, <2>4, Null DEF OwnType, Stages, Pcs
    <3>2. PtrInv(p)'
      BY <1>2, <2>2, <2>3, <2>4 DEF PtrInv, HasIp, Where, Rets, IpPcs, DpPcs, WantPcs
    <3>3. OpInv(p)'
      BY <1>2, <2>2, <2>3, <2>4 DEF OpInv, Where, Rets
    <3>4. PathInv(p)'
      BY <1>2, <2>2, <2>3, <2>4 DEF PathInv, HasName, Rets
    <3>5. Distinct(p)'
      BY <1>2, <2>2, <2>3, <2>4 DEF Distinct, HasLockedIp, Truncating, DpPcs, Rets
    <3> QED
      BY <3>1, <3>2, <3>3, <3>4, <3>5 DEF Good
  <2>8. \A x \in Slot : Hold(p, x)' = Hold(p, x)
    <3>1. /\ put[p] = 0 /\ cur'[p] = cur[p] /\ ip'[p] = ip[p] /\ dp'[p] = dp[p] /\ put'[p] = 0
          /\ cwd'[p] = cwd[p] /\ ofile'[p] = ofile[p]
      BY <1>2, <2>2, <2>3, <2>4
    <3>2. \A x \in Slot : x # 0
      BY Null
    <3> QED
      BY <3>1, <3>2 DEF Hold, Is
  <2>9. \A x \in Slot : Locks(p, x)' <=> Locks(p, x)
    BY <1>2, <2>2, <2>3, <2>4, Null DEF Locks, HasLockedIp, Truncating, DpPcs, Rets
  <2>10. TableType' /\ itable' = itable
    BY <1>1, <2>1 DEF TableType
  <2> QED
    BY <1>2, <2>5, <2>7, <2>8, <2>9, <2>10, StillStep, <1>3, RefFacts
<1> QED
  BY <1>4, <1>5 DEF CreateOld

LEMMA CreateNewRef ==
  ASSUME RefInv, NEW p \in Proc, CreateNew(p)
  PROVE  RefInv' /\ Local(p)
<1> DEFINE s == dp[p]
           t == ip[p]
           more == IF Type(p) = "dir" THEN 1 ELSE 0
<1>1. /\ panic = "" /\ put[p] = 0 /\ want[p] = 0 /\ pc[p] = "create_new" /\ stage[p] = "iput"
      /\ ProcType /\ DiskType /\ TableType /\ Good(p) /\ UNCHANGED <<call, path, count>>
      /\ UNCHANGED rest /\ UNCHANGED <<cwd, ofile>>
  BY AtIs, RefFacts DEF CreateNew, argVars, procVars
<1>2. /\ panic = "" /\ put[p] = 0 /\ want[p] = 0 /\ pc[p] = "create_new" /\ stage[p] = "iput"
      /\ OwnType(p) /\ OpInv(p) /\ cur[p] = 0 /\ ip[p] # 0 /\ ip[p] \in Slot /\ dp[p] # 0
      /\ dp[p] \in Slot /\ rest[p] \in Seq(Entries) /\ rest[p] # <<>> /\ ip[p] # dp[p]
      /\ cwd[p] \in Slot /\ ofile[p] \in Pointer
  BY <1>1, Constants DEF Good, PtrInv, PathInv, HasName, OwnType, HasIp, Where, Rets, IpPcs, DpPcs, Distinct, HasLockedIp
<1>3. /\ Locks(p, s) /\ s \in Slot /\ t \in Slot /\ s # t /\ more \in Int /\ itable[t].inum \in Inum /\ Dir(p) \in Inum
      /\ LastName(p) \in Entries
  <2>1. Locks(p, s) /\ s \in Slot /\ t \in Slot /\ s # t
    BY <1>2 DEF Locks, DpPcs
  <2>2. itable[t].inum \in Inum
    BY <2>1, HeldSlot
  <2>3. Dir(p) \in Inum /\ LastName(p) \in Entries
    BY <1>2, AtHand
  <2> QED
    BY <2>1, <2>2, <2>3
<1>4. /\ itable' = Unlock(AddLink([itable EXCEPT ![t].nlink = 1], s, more), s)
      /\ dinode' = UpdateLink([dinode EXCEPT ![itable[t].inum].nlink = 1], s, more)
      /\ entry' = [entry EXCEPT ![Dir(p)][LastName(p)] = itable[t].inum,
                                ![itable[t].inum][DotDot] = IF Type(p) = "dir" THEN Dir(p) ELSE @]
      /\ UNCHANGED target /\ leaked' = leaked /\ lost' = lost
  BY DEF CreateNew, history
<1>5. Released(s)
  BY <1>1, <1>3, <1>4, CreatedTable
<1>6. DiskType'
  <2>1. dinode' = [[dinode EXCEPT ![itable[t].inum].nlink = 1] EXCEPT ![itable[s].inum].nlink = itable[s].nlink + more]
    BY <1>4 DEF UpdateLink
  <2>6. itable[s].nlink \in Int /\ more \in Int /\ itable[s].inum \in Inum
    BY <1>3, RefFacts DEF Dir
  <2> HIDE DEF more
  <2>7. itable[s].nlink + more \in Int
    BY <2>6
  <2>8. dinode \in [Inum -> [type : Types, nlink : Int]]
    BY <1>1 DEF DiskType
  <2>2. itable[s].nlink + more \in Int /\ itable[s].inum \in Inum /\ dinode \in [Inum -> [type : Types, nlink : Int]]
    BY <2>6, <2>7, <2>8
  <2>3. [dinode EXCEPT ![itable[t].inum].nlink = 1] \in [Inum -> [type : Types, nlink : Int]]
    BY <1>3, <2>2
  <2>4. dinode' \in [Inum -> [type : Types, nlink : Int]]
    BY <2>1, <2>2, <2>3
  <2>5. entry' \in [Inum -> [Entries -> Inum \cup {0}]]
    BY <1>1, <1>3, <1>4, Constants DEF DiskType
  <2> QED
    BY <1>1, <1>4, <2>4, <2>5 DEF DiskType
<1> HIDE DEF more
<1> QED
  <2>1. /\ Then(p, s, 0, "created") /\ UNCHANGED ret /\ dp' = [dp EXCEPT ![p] = 0]
        /\ UNCHANGED <<cur, ip>>
    BY DEF CreateNew
  <2>0. /\ ProcType /\ stage[p] = "iput" /\ Then(p, s, 0, "created") /\ UNCHANGED ret
    BY <1>1, <2>1
  <2>2. /\ LocalCtl(p) /\ LocalRet(p) /\ pc'[p] = "created" /\ put'[p] = s /\ want'[p] = 0
        /\ stage'[p] = "iput" /\ ret'[p] = ret[p]
    BY <2>0, ThenIs, KeptRet
  <2>3. /\ LocalPtr(p) /\ cur'[p] = cur[p] /\ ip'[p] = ip[p] /\ dp'[p] = 0
    BY <1>1, <2>1 DEF LocalPtr, ProcType, ptrVars
  <2>4. /\ LocalRest(p) /\ LocalArg(p) /\ LocalFile(p) /\ rest'[p] = rest[p] /\ call'[p] = call[p]
        /\ path'[p] = path[p] /\ count'[p] = count[p] /\ cwd'[p] = cwd[p] /\ ofile'[p] = ofile[p]
    BY <1>1, <2>1, KeptRest, KeptArg, KeptFile
  <2>5. Local(p)
    BY <2>2, <2>3, <2>4, LocalParts
  <2>7. Good(p)'
    <3>1. OwnType(p)'
      BY <1>2, <2>2, <2>3, <2>4, Null DEF OwnType, Stages, Pcs
    <3>2. PtrInv(p)'
      BY <1>2, <2>2, <2>3, <2>4 DEF PtrInv, HasIp, Where, Rets, IpPcs, DpPcs, WantPcs
    <3>3. OpInv(p)'
      BY <1>2, <2>2, <2>3, <2>4 DEF OpInv, Where, Rets
    <3>4. PathInv(p)'
      BY <1>2, <2>2, <2>3, <2>4 DEF PathInv, HasName, Rets
    <3>5. Distinct(p)'
      BY <1>2, <2>2, <2>3, <2>4 DEF Distinct, HasLockedIp, Truncating, DpPcs, Rets
    <3> QED
      BY <3>1, <3>2, <3>3, <3>4, <3>5 DEF Good
  <2>8. \A x \in Slot : Hold(p, x)' = Hold(p, x)
    <3>1. /\ put[p] = 0 /\ cur'[p] = cur[p] /\ ip'[p] = ip[p] /\ dp'[p] = 0 /\ put'[p] = s
          /\ cwd'[p] = cwd[p] /\ ofile'[p] = ofile[p]
      BY <1>2, <2>2, <2>3, <2>4
    <3>2. \A x \in Slot : x # 0
      BY Null
    <3> QED
      BY <3>1, <3>2 DEF Hold, Is
  <2>9. \A x \in Slot : Locks(p, x)' <=> Locks(p, x) /\ x # s
    BY <1>2, <2>2, <2>3, <2>4, Null DEF Locks, HasLockedIp, Truncating, DpPcs, Rets
  <2>10. /\ TableType'
         /\ \A x \in Slot : /\ itable'[x].ref = itable[x].ref /\ itable'[x].inum = itable[x].inum
                            /\ itable'[x].valid = itable[x].valid
                            /\ itable'[x].lock = IF x = s THEN NoOne ELSE itable[x].lock
    BY <1>5 DEF Released
  <2> QED
    BY <1>2, <2>5, <2>7, <2>8, <2>9, <2>10, UnlockRef, <1>3, <1>4, <1>6, RefFacts

LEMMA CreatedRef ==
  ASSUME RefInv, NEW p \in Proc, Created(p)
  PROVE  RefInv' /\ Local(p)
<1>0. SUFFICES ASSUME ~Halt("symlink over a directory")
               PROVE  RefInv' /\ Local(p)
  BY HaltIs DEF Created
<1>1. /\ panic = "" /\ put[p] = 0 /\ want[p] = 0 /\ pc[p] = "created" /\ stage[p] = "iput"
      /\ ProcType /\ DiskType /\ TableType /\ Good(p) /\ UNCHANGED <<call, path, count>>
      /\ UNCHANGED rest /\ UNCHANGED <<cwd, ofile>>
  BY <1>0, AtIs, RefFacts DEF Created, argVars, procVars
<1>2. /\ panic = "" /\ put[p] = 0 /\ want[p] = 0 /\ pc[p] = "created" /\ stage[p] = "iput"
      /\ OwnType(p) /\ OpInv(p) /\ cur[p] = 0 /\ ip[p] # 0 /\ ip[p] \in Slot /\ dp[p] = 0
      /\ cwd[p] \in Slot /\ ofile[p] \in Pointer
  BY <1>1, Constants DEF Good, PtrInv, PathInv, HasName, OwnType, HasIp, Where, Rets, IpPcs, DpPcs
<1>3. DiskType' /\ leaked' = leaked /\ lost' = lost
  <2>1. itable[ip[p]].inum \in Inum
    BY <1>2, HeldSlot
  <2>2. call[p].op = "symlink" => call[p].old \in Paths
    <3>1. call[p] \in Calls \/ call[p] = [op |-> "none"]
      BY <1>2 DEF OwnType, Call
    <3> QED
      BY <3>1, TreeAssumption
  <2>3. /\ target' = IF call[p].op = "symlink" /\ Type(p) = "sym"
                     THEN [target EXCEPT ![itable[ip[p]].inum] = call[p].old] ELSE target
        /\ UNCHANGED <<dinode, entry>> /\ leaked' = leaked /\ lost' = lost
    BY <1>0 DEF Created, history
  <2> QED
    BY <1>1, <2>1, <2>2, <2>3 DEF DiskType
<1>4. CASE PutIp(p)
  BY <1>1, <1>3, <1>4, PutIpOnly
<1>5. CASE call[p].op = "create" /\ Goto(p, "open_file") /\ UNCHANGED <<itable, ptrVars>>
  <2>1. /\ Goto(p, "open_file") /\ UNCHANGED ptrVars /\ UNCHANGED itable
    BY <1>5
  <2>0. /\ ProcType /\ stage[p] = "iput" /\ Goto(p, "open_file")
    BY <1>1, <2>1
  <2>2. /\ LocalCtl(p) /\ LocalRet(p) /\ pc'[p] = "open_file" /\ put'[p] = 0 /\ want'[p] = 0
        /\ stage'[p] = "iput" /\ ret'[p] = ret[p]
    BY <2>0, GotoIs
  <2>3. /\ LocalPtr(p) /\ cur'[p] = cur[p] /\ ip'[p] = ip[p] /\ dp'[p] = dp[p]
    BY <1>1, <2>1, KeptPtr
  <2>4. /\ LocalRest(p) /\ LocalArg(p) /\ LocalFile(p) /\ rest'[p] = rest[p] /\ call'[p] = call[p]
        /\ path'[p] = path[p] /\ count'[p] = count[p] /\ cwd'[p] = cwd[p] /\ ofile'[p] = ofile[p]
    BY <1>1, <2>1, KeptRest, KeptArg, KeptFile
  <2>5. Local(p)
    BY <2>2, <2>3, <2>4, LocalParts
  <2>7. Good(p)'
    <3>1. OwnType(p)'
      BY <1>2, <2>2, <2>3, <2>4, Null DEF OwnType, Stages, Pcs
    <3>2. PtrInv(p)'
      BY <1>2, <2>2, <2>3, <2>4 DEF PtrInv, HasIp, Where, Rets, IpPcs, DpPcs, WantPcs
    <3>3. OpInv(p)'
      BY <1>2, <2>2, <2>3, <2>4 DEF OpInv, Where, Rets
    <3>4. PathInv(p)'
      BY <1>2, <2>2, <2>3, <2>4 DEF PathInv, HasName, Rets
    <3>5. Distinct(p)'
      BY <1>2, <2>2, <2>3, <2>4 DEF Distinct, HasLockedIp, Truncating, DpPcs, Rets
    <3> QED
      BY <3>1, <3>2, <3>3, <3>4, <3>5 DEF Good
  <2>8. \A x \in Slot : Hold(p, x)' = Hold(p, x)
    <3>1. /\ put[p] = 0 /\ cur'[p] = cur[p] /\ ip'[p] = ip[p] /\ dp'[p] = dp[p] /\ put'[p] = 0
          /\ cwd'[p] = cwd[p] /\ ofile'[p] = ofile[p]
      BY <1>2, <2>2, <2>3, <2>4
    <3>2. \A x \in Slot : x # 0
      BY Null
    <3> QED
      BY <3>1, <3>2 DEF Hold, Is
  <2>9. \A x \in Slot : Locks(p, x)' <=> Locks(p, x)
    BY <1>2, <2>2, <2>3, <2>4, Null DEF Locks, HasLockedIp, Truncating, DpPcs, Rets
  <2>10. TableType' /\ itable' = itable
    BY <1>1, <2>1 DEF TableType
  <2> QED
    BY <1>2, <2>5, <2>7, <2>8, <2>9, <2>10, StillStep, <1>3, RefFacts
<1> QED
  BY <1>0, <1>4, <1>5 DEF Created

-----------------------------------------------------------------------------
(* open, readlink and chdir *)

\* p forgets references, which are counted as lost.
LEMMA LeakRef ==
  ASSUME RefInv, NEW p \in Proc, Local(p), Good(p)', DiskType', itable' = itable,
         leaked' \in [Slot -> Nat], lost' \subseteq Inum,
         \A x \in Slot : leaked[x] + Hold(p, x) = leaked'[x] + Hold(p, x)',
         \A x \in Slot : Locks(p, x)' <=> Locks(p, x)
  PROVE  RefInv'
<1>1. \A x \in Slot : Hold(p, x) \in Nat /\ Hold(p, x)' \in Nat
  BY HoldType DEF Hold, Is
<1>2. RefMove(p)
  <2> SUFFICES ASSUME NEW x \in Slot
               PROVE  itable'[x].ref + leaked[x] + Hold(p, x) = itable[x].ref + leaked'[x] + Hold(p, x)'
    BY DEF RefMove
  <2>1. leaked[x] \in Nat /\ leaked'[x] \in Nat /\ itable[x].ref \in Nat /\ itable'[x].ref = itable[x].ref
    BY RefFacts
  <2>2. leaked[x] + Hold(p, x) = leaked'[x] + Hold(p, x)'
    OBVIOUS
  <2> QED
    BY <1>1, <2>1, <2>2
<1>3. LockMove(p)
  BY DEF LockMove
<1>4. \A x \in Slot : itable'[x].lock = p <=> Locks(p, x)'
  BY LockedSlot
<1>5. \A x \in Slot : itable'[x].ref > 0 => itable'[x].inum # 0
  BY DEF RefInv, InumInv
<1>6. \A x \in Slot : itable'[x].lock # NoOne => itable'[x].valid
  BY LockedSlot
<1>7. TableType'
  BY RefFacts DEF TableType
<1> QED
  BY <1>2, <1>3, <1>4, <1>5, <1>6, <1>7, RefStep DEF Good

\* Counting one reference to s as lost
LEMMA LeakOne ==
  ASSUME RefInv, NEW p \in Proc, NEW s \in Slot, leaked' = [leaked EXCEPT ![s] = @ + 1],
         \A x \in Slot : Hold(p, x)' + Is(x, s) = Hold(p, x)
  PROVE  /\ leaked' \in [Slot -> Nat]
         /\ \A x \in Slot : leaked[x] + Hold(p, x) = leaked'[x] + Hold(p, x)'
<1>1. leaked \in [Slot -> Nat]
  BY RefFacts
<1>2. \A x \in Slot : leaked'[x] = leaked[x] + Is(x, s)
  BY <1>1 DEF Is
<1>3. \A x \in Slot : Hold(p, x) \in Nat /\ Hold(p, x)' \in Nat /\ Is(x, s) \in Nat
  BY HoldType DEF Hold, Is
<1>4. leaked' \in [Slot -> Nat]
  BY <1>1
<1>5. \A x \in Slot : leaked[x] \in Nat
  BY <1>1
<1> QED
  BY <1>2, <1>3, <1>4, <1>5

LEMMA OpenRef ==
  ASSUME RefInv, NEW p \in Proc, Open(p)
  PROVE  RefInv' /\ Local(p)
<1>1. /\ panic = "" /\ put[p] = 0 /\ want[p] = 0 /\ pc[p] = "open" /\ stage[p] = "iput" /\ ProcType
      /\ DiskType /\ TableType /\ Good(p) /\ UNCHANGED <<call, path, count>>
      /\ UNCHANGED <<cwd, ofile>>
  BY AtIs, RefFacts DEF Open, procVars
<1>2. /\ panic = "" /\ put[p] = 0 /\ want[p] = 0 /\ pc[p] = "open" /\ stage[p] = "iput"
      /\ OwnType(p) /\ OpInv(p) /\ cur[p] \in Pointer /\ ip[p] = 0 /\ dp[p] = 0 /\ cwd[p] \in Slot
      /\ ofile[p] \in Pointer
  BY <1>1, Constants DEF Good, PtrInv, PathInv, HasName, OwnType, HasIp, Where, Rets, IpPcs, DpPcs
<1>3. call[p].op = "open"
  BY <1>2 DEF OpInv, Where
<1>4. DiskType' /\ TableType' /\ leaked' = leaked /\ lost' = lost /\ itable' = itable
  BY <1>1 DEF Open, DiskType, TableType, diskVars, history
<1>5. CASE cur[p] = 0 /\ Goto(p, "idle") /\ UNCHANGED <<ptrVars, rest>>
  <2>1. UNCHANGED rest /\ UNCHANGED ptrVars /\ UNCHANGED <<diskVars, itable, leaked, lost>>
    BY <1>5 DEF Open, history
  <2> QED
    BY <1>1, <1>5, <2>1, NullRef
<1>6. CASE cur[p] # 0 /\ ToIp(p) /\ cur' = [cur EXCEPT ![p] = 0] /\ Walk(p, "readlink_found", path[p])
  <2>1. /\ Walk(p, "readlink_found", path[p]) /\ cur' = [cur EXCEPT ![p] = 0]
        /\ ip' = [ip EXCEPT ![p] = cur[p]] /\ UNCHANGED dp
    BY <1>6 DEF ToIp
  <2>0. /\ ProcType /\ stage[p] = "iput" /\ Walk(p, "readlink_found", path[p])
    BY <1>1, <2>1
  <2>2. /\ LocalCtl(p) /\ LocalRet(p) /\ LocalRest(p) /\ pc'[p] = "namei" /\ put'[p] = 0
        /\ want'[p] = 0 /\ stage'[p] = "iput" /\ ret'[p] = "readlink_found" /\ rest'[p] = path[p]
    BY <2>0, WalkIs
  <2>3. /\ LocalPtr(p) /\ cur'[p] = 0 /\ ip'[p] = cur[p] /\ dp'[p] = dp[p]
    BY <1>1, <2>1 DEF LocalPtr, ProcType, ptrVars
  <2>4. /\ LocalArg(p) /\ LocalFile(p) /\ call'[p] = call[p] /\ path'[p] = path[p]
        /\ count'[p] = count[p] /\ cwd'[p] = cwd[p] /\ ofile'[p] = ofile[p]
    BY <1>1, <2>1, KeptArg, KeptFile
  <2>5. Local(p)
    BY <2>2, <2>3, <2>4, LocalParts
  <2>7. Good(p)'
    <3>1. OwnType(p)'
      BY <1>3, <1>6, <1>2, <2>2, <2>3, <2>4, Null DEF OwnType, Stages, Pcs
    <3>2. PtrInv(p)'
      BY <1>3, <1>6, <1>2, <2>2, <2>3, <2>4 DEF PtrInv, HasIp, Where, Rets, IpPcs, DpPcs, WantPcs
    <3>3. OpInv(p)'
      BY <1>3, <1>6, <1>2, <2>2, <2>3, <2>4 DEF OpInv, Where, Rets
    <3>4. PathInv(p)'
      BY <1>3, <1>6, <1>2, <2>2, <2>3, <2>4 DEF PathInv, HasName, Rets
    <3>5. Distinct(p)'
      BY <1>3, <1>6, <1>2, <2>2, <2>3, <2>4 DEF Distinct, HasLockedIp, Truncating, DpPcs, Rets
    <3> QED
      BY <3>1, <3>2, <3>3, <3>4, <3>5 DEF Good
  <2>8. \A x \in Slot : Hold(p, x)' = Hold(p, x)
    <3>1. /\ ip[p] = 0 /\ put[p] = 0 /\ cur'[p] = 0 /\ ip'[p] = cur[p] /\ dp'[p] = dp[p]
          /\ put'[p] = 0 /\ cwd'[p] = cwd[p] /\ ofile'[p] = ofile[p]
      BY <1>3, <1>6, <1>2, <2>2, <2>3, <2>4
    <3>2. \A x \in Slot : x # 0
      BY Null
    <3> QED
      BY <3>1, <3>2 DEF Hold, Is
  <2>9. \A x \in Slot : Locks(p, x)' <=> Locks(p, x)
    BY <1>3, <1>6, <1>2, <2>2, <2>3, <2>4, Null DEF Locks, HasLockedIp, Truncating, DpPcs, Rets
  <2> QED
    BY <1>2, <2>5, <2>7, <2>8, <2>9, StillStep, <1>4, RefFacts
<1>7. CASE cur[p] # 0 /\ ToIp(p) /\ cur' = [cur EXCEPT ![p] = 0] /\ Then(p, 0, cur[p], "open_check") /\ UNCHANGED <<ret, rest>>
  <2>1. /\ Then(p, 0, cur[p], "open_check") /\ UNCHANGED ret /\ cur' = [cur EXCEPT ![p] = 0]
        /\ ip' = [ip EXCEPT ![p] = cur[p]] /\ UNCHANGED dp /\ UNCHANGED rest
    BY <1>7 DEF ToIp
  <2>0. /\ ProcType /\ stage[p] = "iput" /\ Then(p, 0, cur[p], "open_check") /\ UNCHANGED ret
    BY <1>1, <2>1
  <2>2. /\ LocalCtl(p) /\ LocalRet(p) /\ pc'[p] = "open_check" /\ put'[p] = 0 /\ want'[p] = cur[p]
        /\ stage'[p] = "iput" /\ ret'[p] = ret[p]
    BY <2>0, ThenIs, KeptRet
  <2>3. /\ LocalPtr(p) /\ cur'[p] = 0 /\ ip'[p] = cur[p] /\ dp'[p] = dp[p]
    BY <1>1, <2>1 DEF LocalPtr, ProcType, ptrVars
  <2>4. /\ LocalRest(p) /\ LocalArg(p) /\ LocalFile(p) /\ rest'[p] = rest[p] /\ call'[p] = call[p]
        /\ path'[p] = path[p] /\ count'[p] = count[p] /\ cwd'[p] = cwd[p] /\ ofile'[p] = ofile[p]
    BY <1>1, <2>1, KeptRest, KeptArg, KeptFile
  <2>5. Local(p)
    BY <2>2, <2>3, <2>4, LocalParts
  <2>7. Good(p)'
    <3>1. OwnType(p)'
      BY <1>3, <1>7, <1>2, <2>2, <2>3, <2>4, Null DEF OwnType, Stages, Pcs
    <3>2. PtrInv(p)'
      BY <1>3, <1>7, <1>2, <2>2, <2>3, <2>4 DEF PtrInv, HasIp, Where, Rets, IpPcs, DpPcs, WantPcs
    <3>3. OpInv(p)'
      BY <1>3, <1>7, <1>2, <2>2, <2>3, <2>4 DEF OpInv, Where, Rets
    <3>4. PathInv(p)'
      BY <1>3, <1>7, <1>2, <2>2, <2>3, <2>4 DEF PathInv, HasName, Rets
    <3>5. Distinct(p)'
      BY <1>3, <1>7, <1>2, <2>2, <2>3, <2>4 DEF Distinct, HasLockedIp, Truncating, DpPcs, Rets
    <3> QED
      BY <3>1, <3>2, <3>3, <3>4, <3>5 DEF Good
  <2>8. \A x \in Slot : Hold(p, x)' = Hold(p, x)
    <3>1. /\ ip[p] = 0 /\ put[p] = 0 /\ cur'[p] = 0 /\ ip'[p] = cur[p] /\ dp'[p] = dp[p]
          /\ put'[p] = 0 /\ cwd'[p] = cwd[p] /\ ofile'[p] = ofile[p]
      BY <1>3, <1>7, <1>2, <2>2, <2>3, <2>4
    <3>2. \A x \in Slot : x # 0
      BY Null
    <3> QED
      BY <3>1, <3>2 DEF Hold, Is
  <2>9. \A x \in Slot : Locks(p, x)' <=> Locks(p, x)
    BY <1>3, <1>7, <1>2, <2>2, <2>3, <2>4, Null DEF Locks, HasLockedIp, Truncating, DpPcs, Rets
  <2> QED
    BY <1>2, <2>5, <2>7, <2>8, <2>9, StillStep, <1>4, RefFacts
<1> QED
  BY <1>5, <1>6, <1>7 DEF Open

LEMMA OpenCheckRef ==
  ASSUME RefInv, NEW p \in Proc, OpenCheck(p)
  PROVE  RefInv' /\ Local(p)
<1>1. /\ panic = "" /\ put[p] = 0 /\ want[p] = 0 /\ pc[p] = "open_check" /\ stage[p] = "iput"
      /\ ProcType /\ DiskType /\ TableType /\ Good(p) /\ UNCHANGED <<call, path, count>>
      /\ UNCHANGED rest /\ UNCHANGED <<cwd, ofile>>
  BY AtIs, RefFacts DEF OpenCheck, argVars, procVars
<1>2. /\ panic = "" /\ put[p] = 0 /\ want[p] = 0 /\ pc[p] = "open_check" /\ stage[p] = "iput"
      /\ OwnType(p) /\ OpInv(p) /\ cur[p] = 0 /\ ip[p] # 0 /\ ip[p] \in Slot /\ dp[p] = 0
      /\ cwd[p] \in Slot /\ ofile[p] \in Pointer
  BY <1>1, Constants DEF Good, PtrInv, PathInv, HasName, OwnType, HasIp, Where, Rets, IpPcs, DpPcs
<1>3. call[p].op = "open"
  BY <1>2 DEF OpInv, Where
<1>4. DiskType' /\ leaked' = leaked /\ lost' = lost
  BY <1>1 DEF OpenCheck, DiskType, diskVars, history
<1>5. CASE PutIp(p)
  BY <1>1, <1>4, <1>5, PutIpOnly
<1>6. CASE Goto(p, "open_file") /\ UNCHANGED <<itable, ptrVars>>
  <2>1. /\ Goto(p, "open_file") /\ UNCHANGED ptrVars /\ UNCHANGED itable
    BY <1>6
  <2>0. /\ ProcType /\ stage[p] = "iput" /\ Goto(p, "open_file")
    BY <1>1, <2>1
  <2>2. /\ LocalCtl(p) /\ LocalRet(p) /\ pc'[p] = "open_file" /\ put'[p] = 0 /\ want'[p] = 0
        /\ stage'[p] = "iput" /\ ret'[p] = ret[p]
    BY <2>0, GotoIs
  <2>3. /\ LocalPtr(p) /\ cur'[p] = cur[p] /\ ip'[p] = ip[p] /\ dp'[p] = dp[p]
    BY <1>1, <2>1, KeptPtr
  <2>4. /\ LocalRest(p) /\ LocalArg(p) /\ LocalFile(p) /\ rest'[p] = rest[p] /\ call'[p] = call[p]
        /\ path'[p] = path[p] /\ count'[p] = count[p] /\ cwd'[p] = cwd[p] /\ ofile'[p] = ofile[p]
    BY <1>1, <2>1, KeptRest, KeptArg, KeptFile
  <2>5. Local(p)
    BY <2>2, <2>3, <2>4, LocalParts
  <2>7. Good(p)'
    <3>1. OwnType(p)'
      BY <1>2, <2>2, <2>3, <2>4, Null DEF OwnType, Stages, Pcs
    <3>2. PtrInv(p)'
      BY <1>2, <2>2, <2>3, <2>4 DEF PtrInv, HasIp, Where, Rets, IpPcs, DpPcs, WantPcs
    <3>3. OpInv(p)'
      BY <1>2, <2>2, <2>3, <2>4 DEF OpInv, Where, Rets
    <3>4. PathInv(p)'
      BY <1>2, <2>2, <2>3, <2>4 DEF PathInv, HasName, Rets
    <3>5. Distinct(p)'
      BY <1>2, <2>2, <2>3, <2>4 DEF Distinct, HasLockedIp, Truncating, DpPcs, Rets
    <3> QED
      BY <3>1, <3>2, <3>3, <3>4, <3>5 DEF Good
  <2>8. \A x \in Slot : Hold(p, x)' = Hold(p, x)
    <3>1. /\ put[p] = 0 /\ cur'[p] = cur[p] /\ ip'[p] = ip[p] /\ dp'[p] = dp[p] /\ put'[p] = 0
          /\ cwd'[p] = cwd[p] /\ ofile'[p] = ofile[p]
      BY <1>2, <2>2, <2>3, <2>4
    <3>2. \A x \in Slot : x # 0
      BY Null
    <3> QED
      BY <3>1, <3>2 DEF Hold, Is
  <2>9. \A x \in Slot : Locks(p, x)' <=> Locks(p, x)
    BY <1>2, <2>2, <2>3, <2>4, Null DEF Locks, HasLockedIp, Truncating, DpPcs, Rets
  <2>10. TableType' /\ itable' = itable
    BY <1>1, <2>1 DEF TableType
  <2> QED
    BY <1>2, <2>5, <2>7, <2>8, <2>9, <2>10, StillStep, <1>4, RefFacts
<1> QED
  BY <1>5, <1>6 DEF OpenCheck

LEMMA OpenFileRef ==
  ASSUME RefInv, NEW p \in Proc, OpenFile(p)
  PROVE  RefInv' /\ Local(p)
<1>1. /\ panic = "" /\ put[p] = 0 /\ want[p] = 0 /\ pc[p] = "open_file" /\ stage[p] = "iput"
      /\ ProcType /\ DiskType /\ TableType /\ Good(p) /\ UNCHANGED <<call, path, count>>
      /\ UNCHANGED rest
  BY AtIs, RefFacts DEF OpenFile, argVars
<1>2. /\ panic = "" /\ put[p] = 0 /\ want[p] = 0 /\ pc[p] = "open_file" /\ stage[p] = "iput"
      /\ OwnType(p) /\ OpInv(p) /\ cur[p] = 0 /\ ip[p] # 0 /\ ip[p] \in Slot /\ dp[p] = 0
      /\ cwd[p] \in Slot /\ ofile[p] \in Pointer
  BY <1>1, Constants DEF Good, PtrInv, PathInv, HasName, OwnType, HasIp, Where, Rets, IpPcs, DpPcs
<1>3. DiskType' /\ leaked' = leaked /\ lost' = lost /\ UNCHANGED cwd
  BY <1>1 DEF OpenFile, DiskType, diskVars, history
<1>4. CASE PutIp(p) /\ UNCHANGED ofile
  BY <1>1, <1>3, <1>4, PutIpOnly
<1>5. CASE ofile[p] = 0 /\ ~(PutIp(p) /\ UNCHANGED ofile)
  <2>12. Locks(p, ip[p])
    BY <1>2 DEF Locks, HasLockedIp
  <2>13. itable' = Unlock(itable, ip[p])
    BY <1>5 DEF OpenFile
  <2>1. /\ Goto(p, "idle") /\ ip' = [ip EXCEPT ![p] = 0] /\ UNCHANGED <<cur, dp>>
        /\ ofile' = [ofile EXCEPT ![p] = ip[p]]
    BY <1>5 DEF OpenFile
  <2>0. /\ ProcType /\ stage[p] = "iput" /\ Goto(p, "idle")
    BY <1>1, <2>1
  <2>2. /\ LocalCtl(p) /\ LocalRet(p) /\ pc'[p] = "idle" /\ put'[p] = 0 /\ want'[p] = 0
        /\ stage'[p] = "iput" /\ ret'[p] = ret[p]
    BY <2>0, GotoIs
  <2>3. /\ LocalPtr(p) /\ cur'[p] = cur[p] /\ ip'[p] = 0 /\ dp'[p] = dp[p]
    BY <1>1, <2>1 DEF LocalPtr, ProcType, ptrVars
  <2>4. /\ LocalRest(p) /\ LocalArg(p) /\ LocalFile(p) /\ rest'[p] = rest[p] /\ call'[p] = call[p]
        /\ path'[p] = path[p] /\ count'[p] = count[p] /\ cwd'[p] = cwd[p] /\ ofile'[p] = ip[p]
    BY <1>1, <1>3, <2>1, KeptRest, KeptArg DEF ProcType, LocalFile
  <2>5. Local(p)
    BY <2>2, <2>3, <2>4, LocalParts
  <2>7. Good(p)'
    <3>1. OwnType(p)'
      BY <1>5, <1>2, <2>2, <2>3, <2>4, Null DEF OwnType, Stages, Pcs
    <3>2. PtrInv(p)'
      BY <1>5, <1>2, <2>2, <2>3, <2>4 DEF PtrInv, HasIp, Where, Rets, IpPcs, DpPcs, WantPcs
    <3>3. OpInv(p)'
      BY <1>5, <1>2, <2>2, <2>3, <2>4 DEF OpInv, Where, Rets
    <3>4. PathInv(p)'
      BY <1>5, <1>2, <2>2, <2>3, <2>4 DEF PathInv, HasName, Rets
    <3>5. Distinct(p)'
      BY <1>5, <1>2, <2>2, <2>3, <2>4 DEF Distinct, HasLockedIp, Truncating, DpPcs, Rets
    <3> QED
      BY <3>1, <3>2, <3>3, <3>4, <3>5 DEF Good
  <2>8. \A x \in Slot : Hold(p, x)' = Hold(p, x)
    <3>1. /\ put[p] = 0 /\ ofile[p] = 0 /\ cur'[p] = cur[p] /\ ip'[p] = 0 /\ dp'[p] = dp[p]
          /\ put'[p] = 0 /\ cwd'[p] = cwd[p] /\ ofile'[p] = ip[p]
      BY <1>5, <1>2, <2>2, <2>3, <2>4
    <3>2. \A x \in Slot : x # 0
      BY Null
    <3> QED
      BY <3>1, <3>2 DEF Hold, Is
  <2>9. \A x \in Slot : Locks(p, x)' <=> Locks(p, x) /\ x # ip[p]
    BY <1>5, <1>2, <2>2, <2>3, <2>4, Null DEF Locks, HasLockedIp, Truncating, DpPcs, Rets
  <2>10. /\ TableType'
         /\ \A x \in Slot : /\ itable'[x].ref = itable[x].ref /\ itable'[x].inum = itable[x].inum
                            /\ itable'[x].valid = itable[x].valid
                            /\ itable'[x].lock = IF x = ip[p] THEN NoOne ELSE itable[x].lock
    BY <1>1, <1>2, <2>13, UnlockedTable DEF Released
  <2> QED
    BY <1>2, <2>5, <2>7, <2>8, <2>9, <2>10, UnlockRef, <1>3, <2>12, RefFacts
<1> QED
  BY <1>4, <1>5 DEF OpenFile

LEMMA ReadlinkDoneIs ==
  ASSUME NEW p, ReadlinkDone(p)
  PROVE  /\ ret' = ret
         /\ call[p].op = "open" => Then(p, 0, ip[p], "open_check")
         /\ call[p].op = "chdir" => Then(p, 0, 0, "chdir_again")
         /\ call[p].op = "readlink" => Then(p, 0, 0, "idle")
  BY DEF ReadlinkDone

LEMMA ReadlinkFoundRef ==
  ASSUME RefInv, NEW p \in Proc, ReadlinkFound(p)
  PROVE  RefInv' /\ Local(p)
<1>1. /\ panic = "" /\ put[p] = 0 /\ want[p] = 0 /\ pc[p] = "readlink_found" /\ stage[p] = "iput"
      /\ ProcType /\ DiskType /\ TableType /\ Good(p) /\ UNCHANGED <<call, path, count>>
      /\ UNCHANGED rest /\ UNCHANGED <<cwd, ofile>>
  BY AtIs, RefFacts DEF ReadlinkFound, argVars, procVars
<1>2. /\ panic = "" /\ put[p] = 0 /\ want[p] = 0 /\ pc[p] = "readlink_found" /\ stage[p] = "iput"
      /\ OwnType(p) /\ OpInv(p) /\ cur[p] \in Pointer /\ ip[p] \in Pointer /\ dp[p] = 0
      /\ cwd[p] \in Slot /\ ofile[p] \in Pointer /\ (ip[p] # 0 <=> HasIp(p))
  BY <1>1, Constants DEF Good, PtrInv, PathInv, HasName, OwnType, HasIp, Where, Rets, IpPcs, DpPcs
<1>3. (ip[p] # 0 <=> call[p].op = "open") /\ call[p].op \in {"open", "chdir", "readlink"}
  BY <1>2 DEF HasIp, Where, OpInv, IpPcs
<1>4. DiskType' /\ leaked' = leaked /\ lost' = lost /\ UNCHANGED diskVars /\ UNCHANGED ptrVars
  BY <1>1 DEF ReadlinkFound, DiskType, diskVars, history
<1>5. CASE cur[p] = 0 /\ ReadlinkDone(p) /\ UNCHANGED <<itable, panic>>
  <2>4. TableType' /\ itable' = itable
    BY <1>1, <1>5 DEF TableType
  <2>1. CASE call[p].op = "open"
    <3>1. /\ Then(p, 0, ip[p], "open_check") /\ UNCHANGED ret /\ UNCHANGED ptrVars
          /\ UNCHANGED ptrVars
      BY <1>4, <1>5, <2>1, ReadlinkDoneIs
    <3>0. /\ ProcType /\ stage[p] = "iput" /\ Then(p, 0, ip[p], "open_check") /\ UNCHANGED ret
      BY <1>1, <3>1
    <3>2. /\ LocalCtl(p) /\ LocalRet(p) /\ pc'[p] = "open_check" /\ put'[p] = 0 /\ want'[p] = ip[p]
          /\ stage'[p] = "iput" /\ ret'[p] = ret[p]
      BY <3>0, ThenIs, KeptRet
    <3>3. /\ LocalPtr(p) /\ cur'[p] = cur[p] /\ ip'[p] = ip[p] /\ dp'[p] = dp[p]
      BY <1>1, <3>1, KeptPtr
    <3>4. /\ LocalRest(p) /\ LocalArg(p) /\ LocalFile(p) /\ rest'[p] = rest[p] /\ call'[p] = call[p]
          /\ path'[p] = path[p] /\ count'[p] = count[p] /\ cwd'[p] = cwd[p] /\ ofile'[p] = ofile[p]
      BY <1>1, <3>1, KeptRest, KeptArg, KeptFile
    <3>5. Local(p)
      BY <3>2, <3>3, <3>4, LocalParts
    <3>7. Good(p)'
      <4>1. OwnType(p)'
        BY <1>3, <1>5, <2>1, <1>2, <3>2, <3>3, <3>4, Null DEF OwnType, Stages, Pcs
      <4>2. PtrInv(p)'
        BY <1>3, <1>5, <2>1, <1>2, <3>2, <3>3, <3>4 DEF PtrInv, HasIp, Where, Rets, IpPcs, DpPcs, WantPcs
      <4>3. OpInv(p)'
        BY <1>3, <1>5, <2>1, <1>2, <3>2, <3>3, <3>4 DEF OpInv, Where, Rets
      <4>4. PathInv(p)'
        BY <1>3, <1>5, <2>1, <1>2, <3>2, <3>3, <3>4 DEF PathInv, HasName, Rets
      <4>5. Distinct(p)'
        BY <1>3, <1>5, <2>1, <1>2, <3>2, <3>3, <3>4 DEF Distinct, HasLockedIp, Truncating, DpPcs, Rets
      <4> QED
        BY <4>1, <4>2, <4>3, <4>4, <4>5 DEF Good
    <3>8. \A x \in Slot : Hold(p, x)' = Hold(p, x)
      <4>1. /\ put[p] = 0 /\ cur'[p] = cur[p] /\ ip'[p] = ip[p] /\ dp'[p] = dp[p] /\ put'[p] = 0
            /\ cwd'[p] = cwd[p] /\ ofile'[p] = ofile[p]
        BY <1>3, <1>5, <2>1, <1>2, <3>2, <3>3, <3>4
      <4>2. \A x \in Slot : x # 0
        BY Null
      <4> QED
        BY <4>1, <4>2 DEF Hold, Is
    <3>9. \A x \in Slot : Locks(p, x)' <=> Locks(p, x)
      BY <1>3, <1>5, <2>1, <1>2, <3>2, <3>3, <3>4, Null DEF Locks, HasLockedIp, Truncating, DpPcs, Rets
    <3> QED
      BY <1>2, <3>5, <3>7, <3>8, <3>9, StillStep, <1>4, <2>4, RefFacts
  <2>2. CASE call[p].op = "chdir"
    <3>1. /\ Then(p, 0, 0, "chdir_again") /\ UNCHANGED ret /\ UNCHANGED ptrVars /\ UNCHANGED ptrVars
      BY <1>4, <1>5, <2>2, ReadlinkDoneIs
    <3>0. /\ ProcType /\ stage[p] = "iput" /\ Then(p, 0, 0, "chdir_again") /\ UNCHANGED ret
      BY <1>1, <3>1
    <3>2. /\ LocalCtl(p) /\ LocalRet(p) /\ pc'[p] = "chdir_again" /\ put'[p] = 0 /\ want'[p] = 0
          /\ stage'[p] = "iput" /\ ret'[p] = ret[p]
      BY <3>0, ThenIs, KeptRet
    <3>3. /\ LocalPtr(p) /\ cur'[p] = cur[p] /\ ip'[p] = ip[p] /\ dp'[p] = dp[p]
      BY <1>1, <3>1, KeptPtr
    <3>4. /\ LocalRest(p) /\ LocalArg(p) /\ LocalFile(p) /\ rest'[p] = rest[p] /\ call'[p] = call[p]
          /\ path'[p] = path[p] /\ count'[p] = count[p] /\ cwd'[p] = cwd[p] /\ ofile'[p] = ofile[p]
      BY <1>1, <3>1, KeptRest, KeptArg, KeptFile
    <3>5. Local(p)
      BY <3>2, <3>3, <3>4, LocalParts
    <3>7. Good(p)'
      <4>1. OwnType(p)'
        BY <1>3, <1>5, <2>2, <1>2, <3>2, <3>3, <3>4, Null DEF OwnType, Stages, Pcs
      <4>2. PtrInv(p)'
        BY <1>3, <1>5, <2>2, <1>2, <3>2, <3>3, <3>4 DEF PtrInv, HasIp, Where, Rets, IpPcs, DpPcs, WantPcs
      <4>3. OpInv(p)'
        BY <1>3, <1>5, <2>2, <1>2, <3>2, <3>3, <3>4 DEF OpInv, Where, Rets
      <4>4. PathInv(p)'
        BY <1>3, <1>5, <2>2, <1>2, <3>2, <3>3, <3>4 DEF PathInv, HasName, Rets
      <4>5. Distinct(p)'
        BY <1>3, <1>5, <2>2, <1>2, <3>2, <3>3, <3>4 DEF Distinct, HasLockedIp, Truncating, DpPcs, Rets
      <4> QED
        BY <4>1, <4>2, <4>3, <4>4, <4>5 DEF Good
    <3>8. \A x \in Slot : Hold(p, x)' = Hold(p, x)
      <4>1. /\ put[p] = 0 /\ cur'[p] = cur[p] /\ ip'[p] = ip[p] /\ dp'[p] = dp[p] /\ put'[p] = 0
            /\ cwd'[p] = cwd[p] /\ ofile'[p] = ofile[p]
        BY <1>3, <1>5, <2>2, <1>2, <3>2, <3>3, <3>4
      <4>2. \A x \in Slot : x # 0
        BY Null
      <4> QED
        BY <4>1, <4>2 DEF Hold, Is
    <3>9. \A x \in Slot : Locks(p, x)' <=> Locks(p, x)
      BY <1>3, <1>5, <2>2, <1>2, <3>2, <3>3, <3>4, Null DEF Locks, HasLockedIp, Truncating, DpPcs, Rets
    <3> QED
      BY <1>2, <3>5, <3>7, <3>8, <3>9, StillStep, <1>4, <2>4, RefFacts
  <2>3. CASE call[p].op = "readlink"
    <3>1. /\ Then(p, 0, 0, "idle") /\ UNCHANGED ret /\ UNCHANGED ptrVars /\ UNCHANGED ptrVars
      BY <1>4, <1>5, <2>3, ReadlinkDoneIs
    <3>0. /\ ProcType /\ stage[p] = "iput" /\ Then(p, 0, 0, "idle") /\ UNCHANGED ret
      BY <1>1, <3>1
    <3>2. /\ LocalCtl(p) /\ LocalRet(p) /\ pc'[p] = "idle" /\ put'[p] = 0 /\ want'[p] = 0
          /\ stage'[p] = "iput" /\ ret'[p] = ret[p]
      BY <3>0, ThenIs, KeptRet
    <3>3. /\ LocalPtr(p) /\ cur'[p] = cur[p] /\ ip'[p] = ip[p] /\ dp'[p] = dp[p]
      BY <1>1, <3>1, KeptPtr
    <3>4. /\ LocalRest(p) /\ LocalArg(p) /\ LocalFile(p) /\ rest'[p] = rest[p] /\ call'[p] = call[p]
          /\ path'[p] = path[p] /\ count'[p] = count[p] /\ cwd'[p] = cwd[p] /\ ofile'[p] = ofile[p]
      BY <1>1, <3>1, KeptRest, KeptArg, KeptFile
    <3>5. Local(p)
      BY <3>2, <3>3, <3>4, LocalParts
    <3>7. Good(p)'
      <4>1. OwnType(p)'
        BY <1>3, <1>5, <2>3, <1>2, <3>2, <3>3, <3>4, Null DEF OwnType, Stages, Pcs
      <4>2. PtrInv(p)'
        BY <1>3, <1>5, <2>3, <1>2, <3>2, <3>3, <3>4 DEF PtrInv, HasIp, Where, Rets, IpPcs, DpPcs, WantPcs
      <4>3. OpInv(p)'
        BY <1>3, <1>5, <2>3, <1>2, <3>2, <3>3, <3>4 DEF OpInv, Where, Rets
      <4>4. PathInv(p)'
        BY <1>3, <1>5, <2>3, <1>2, <3>2, <3>3, <3>4 DEF PathInv, HasName, Rets
      <4>5. Distinct(p)'
        BY <1>3, <1>5, <2>3, <1>2, <3>2, <3>3, <3>4 DEF Distinct, HasLockedIp, Truncating, DpPcs, Rets
      <4> QED
        BY <4>1, <4>2, <4>3, <4>4, <4>5 DEF Good
    <3>8. \A x \in Slot : Hold(p, x)' = Hold(p, x)
      <4>1. /\ put[p] = 0 /\ cur'[p] = cur[p] /\ ip'[p] = ip[p] /\ dp'[p] = dp[p] /\ put'[p] = 0
            /\ cwd'[p] = cwd[p] /\ ofile'[p] = ofile[p]
        BY <1>3, <1>5, <2>3, <1>2, <3>2, <3>3, <3>4
      <4>2. \A x \in Slot : x # 0
        BY Null
      <4> QED
        BY <4>1, <4>2 DEF Hold, Is
    <3>9. \A x \in Slot : Locks(p, x)' <=> Locks(p, x)
      BY <1>3, <1>5, <2>3, <1>2, <3>2, <3>3, <3>4, Null DEF Locks, HasLockedIp, Truncating, DpPcs, Rets
    <3> QED
      BY <1>2, <3>5, <3>7, <3>8, <3>9, StillStep, <1>4, <2>4, RefFacts
  <2> QED
    BY <1>3, <2>1, <2>2, <2>3
<1>6. CASE cur[p] # 0 /\ Ilock(p, cur[p]) /\ Goto(p, "readlink_read")
  <2>12. cur[p] \in Slot /\ cur[p] # 0
    BY <1>2, <1>6, Constants
  <2>13. Ilock(p, cur[p]) /\ itable[cur[p]].inum # 0 /\ UNCHANGED <<diskVars, leaked, lost>>
    BY <1>4, <1>6, <2>12, HeldSlot, Constants
  <2>1. /\ Goto(p, "readlink_read") /\ UNCHANGED ptrVars
    BY <1>4, <1>6
  <2>0. /\ ProcType /\ stage[p] = "iput" /\ Goto(p, "readlink_read")
    BY <1>1, <2>1
  <2>2. /\ LocalCtl(p) /\ LocalRet(p) /\ pc'[p] = "readlink_read" /\ put'[p] = 0 /\ want'[p] = 0
        /\ stage'[p] = "iput" /\ ret'[p] = ret[p]
    BY <2>0, GotoIs
  <2>3. /\ LocalPtr(p) /\ cur'[p] = cur[p] /\ ip'[p] = ip[p] /\ dp'[p] = dp[p]
    BY <1>1, <2>1, KeptPtr
  <2>4. /\ LocalRest(p) /\ LocalArg(p) /\ LocalFile(p) /\ rest'[p] = rest[p] /\ call'[p] = call[p]
        /\ path'[p] = path[p] /\ count'[p] = count[p] /\ cwd'[p] = cwd[p] /\ ofile'[p] = ofile[p]
    BY <1>1, <2>1, KeptRest, KeptArg, KeptFile
  <2>5. Local(p)
    BY <2>2, <2>3, <2>4, LocalParts
  <2>7. Good(p)'
    <3>1. OwnType(p)'
      BY <1>3, <2>12, <1>2, <2>2, <2>3, <2>4, Null DEF OwnType, Stages, Pcs
    <3>2. PtrInv(p)'
      BY <1>3, <2>12, <1>2, <2>2, <2>3, <2>4 DEF PtrInv, HasIp, Where, Rets, IpPcs, DpPcs, WantPcs
    <3>3. OpInv(p)'
      BY <1>3, <2>12, <1>2, <2>2, <2>3, <2>4 DEF OpInv, Where, Rets
    <3>4. PathInv(p)'
      BY <1>3, <2>12, <1>2, <2>2, <2>3, <2>4 DEF PathInv, HasName, Rets
    <3>5. Distinct(p)'
      BY <1>3, <2>12, <1>2, <2>2, <2>3, <2>4 DEF Distinct, HasLockedIp, Truncating, DpPcs, Rets
    <3> QED
      BY <3>1, <3>2, <3>3, <3>4, <3>5 DEF Good
  <2>8. \A x \in Slot : Hold(p, x)' = Hold(p, x)
    <3>1. /\ put[p] = 0 /\ cur'[p] = cur[p] /\ ip'[p] = ip[p] /\ dp'[p] = dp[p] /\ put'[p] = 0
          /\ cwd'[p] = cwd[p] /\ ofile'[p] = ofile[p]
      BY <1>3, <2>12, <1>2, <2>2, <2>3, <2>4
    <3>2. \A x \in Slot : x # 0
      BY Null
    <3> QED
      BY <3>1, <3>2 DEF Hold, Is
  <2>9. \A x \in Slot : Locks(p, x)' <=> Locks(p, x) \/ x = cur[p]
    BY <1>3, <2>12, <1>2, <2>2, <2>3, <2>4, Null DEF Locks, HasLockedIp, Truncating, DpPcs, Rets
  <2> QED
    BY <1>2, <2>5, <2>7, <2>8, <2>9, LockRef, <2>12, <2>13, RefFacts
<1> QED
  BY <1>5, <1>6 DEF ReadlinkFound

LEMMA ReadlinkReadRef ==
  ASSUME RefInv, NEW p \in Proc, ReadlinkRead(p)
  PROVE  RefInv' /\ Local(p)
<1>1. /\ panic = "" /\ put[p] = 0 /\ want[p] = 0 /\ pc[p] = "readlink_read" /\ stage[p] = "iput"
      /\ ProcType /\ DiskType /\ TableType /\ Good(p) /\ UNCHANGED <<cwd, ofile>>
  BY AtIs, RefFacts DEF ReadlinkRead, procVars
<1>2. /\ panic = "" /\ put[p] = 0 /\ want[p] = 0 /\ pc[p] = "readlink_read" /\ stage[p] = "iput"
      /\ OwnType(p) /\ OpInv(p) /\ cur[p] # 0 /\ cur[p] \in Slot /\ ip[p] \in Pointer /\ dp[p] = 0
      /\ cwd[p] \in Slot /\ ofile[p] \in Pointer /\ (ip[p] # 0 <=> HasIp(p))
  BY <1>1, Constants DEF Good, PtrInv, PathInv, HasName, OwnType, HasIp, Where, Rets, IpPcs, DpPcs
<1>3. (ip[p] # 0 <=> call[p].op = "open") /\ call[p].op \in {"open", "chdir", "readlink"}
  BY <1>2 DEF HasIp, Where, OpInv, IpPcs
<1>4. Locks(p, cur[p]) /\ itable[cur[p]].inum \in Inum
  BY <1>2, HeldSlot DEF Locks
<1>5. /\ DiskType' /\ leaked' = [leaked EXCEPT ![cur[p]] = @ + 1] /\ lost' = lost /\ cur' = [cur EXCEPT ![p] = 0]
      /\ UNCHANGED <<ip, dp>> /\ UNCHANGED call /\ itable' = Unlock(itable, cur[p]) /\ lost' \subseteq Inum
  BY <1>1, RefFacts DEF ReadlinkRead, DiskType, diskVars
<1>9. DiskType' /\ lost' \subseteq Inum
  BY <1>5
<1>6. Released(cur[p])
  BY <1>1, <1>2, <1>5, UnlockedTable
<1>7. CASE ReadlinkDone(p) /\ UNCHANGED <<path, rest, count, panic>>
  <2>1. CASE call[p].op = "open"
    <3>1. /\ Then(p, 0, ip[p], "open_check") /\ UNCHANGED ret /\ cur' = [cur EXCEPT ![p] = 0]
          /\ UNCHANGED <<ip, dp>> /\ UNCHANGED rest /\ UNCHANGED <<call, path, count>>
      BY <1>5, <1>7, <2>1, ReadlinkDoneIs
    <3>0. /\ ProcType /\ stage[p] = "iput" /\ Then(p, 0, ip[p], "open_check") /\ UNCHANGED ret
      BY <1>1, <3>1
    <3>2. /\ LocalCtl(p) /\ LocalRet(p) /\ pc'[p] = "open_check" /\ put'[p] = 0 /\ want'[p] = ip[p]
          /\ stage'[p] = "iput" /\ ret'[p] = ret[p]
      BY <3>0, ThenIs, KeptRet
    <3>3. /\ LocalPtr(p) /\ cur'[p] = 0 /\ ip'[p] = ip[p] /\ dp'[p] = dp[p]
      BY <1>1, <3>1 DEF LocalPtr, ProcType, ptrVars
    <3>4. /\ LocalRest(p) /\ LocalArg(p) /\ LocalFile(p) /\ rest'[p] = rest[p] /\ call'[p] = call[p]
          /\ path'[p] = path[p] /\ count'[p] = count[p] /\ cwd'[p] = cwd[p] /\ ofile'[p] = ofile[p]
      BY <1>1, <3>1, KeptRest, KeptArg, KeptFile
    <3>5. Local(p)
      BY <3>2, <3>3, <3>4, LocalParts
    <3>7. Good(p)'
      <4>1. OwnType(p)'
        BY <1>3, <2>1, <1>2, <3>2, <3>3, <3>4, Null DEF OwnType, Stages, Pcs
      <4>2. PtrInv(p)'
        BY <1>3, <2>1, <1>2, <3>2, <3>3, <3>4 DEF PtrInv, HasIp, Where, Rets, IpPcs, DpPcs, WantPcs
      <4>3. OpInv(p)'
        BY <1>3, <2>1, <1>2, <3>2, <3>3, <3>4 DEF OpInv, Where, Rets
      <4>4. PathInv(p)'
        BY <1>3, <2>1, <1>2, <3>2, <3>3, <3>4 DEF PathInv, HasName, Rets
      <4>5. Distinct(p)'
        BY <1>3, <2>1, <1>2, <3>2, <3>3, <3>4 DEF Distinct, HasLockedIp, Truncating, DpPcs, Rets
      <4> QED
        BY <4>1, <4>2, <4>3, <4>4, <4>5 DEF Good
    <3>8. \A x \in Slot : Hold(p, x)' + Is(x, cur[p]) = Hold(p, x)
      <4>1. /\ put[p] = 0 /\ cur'[p] = 0 /\ ip'[p] = ip[p] /\ dp'[p] = dp[p] /\ put'[p] = 0
            /\ cwd'[p] = cwd[p] /\ ofile'[p] = ofile[p]
        BY <1>3, <2>1, <1>2, <3>2, <3>3, <3>4
      <4>2. \A x \in Slot : x # 0
        BY Null
      <4> QED
        BY <4>1, <4>2 DEF Hold, Is
    <3>9. \A x \in Slot : Locks(p, x)' <=> Locks(p, x) /\ x # cur[p]
      BY <1>3, <2>1, <1>2, <3>2, <3>3, <3>4, Null DEF Locks, HasLockedIp, Truncating, DpPcs, Rets
    <3>10. /\ TableType'
           /\ \A x \in Slot : /\ itable'[x].ref = itable[x].ref /\ itable'[x].inum = itable[x].inum
                              /\ itable'[x].valid = itable[x].valid
                              /\ itable'[x].lock = IF x = cur[p] THEN NoOne ELSE itable[x].lock
      BY <1>6 DEF Released
    <3>12. leaked' \in [Slot -> Nat] /\ \A x \in Slot : leaked[x] + Hold(p, x) = leaked'[x] + Hold(p, x)'
      BY <1>2, <1>5, <3>8, LeakOne
    <3> QED
      BY <1>2, <3>5, <3>7, <3>9, <3>10, UnlockRef, <1>4, <1>9, <3>12, RefFacts
  <2>2. CASE call[p].op = "chdir"
    <3>1. /\ Then(p, 0, 0, "chdir_again") /\ UNCHANGED ret /\ cur' = [cur EXCEPT ![p] = 0]
          /\ UNCHANGED <<ip, dp>> /\ UNCHANGED rest /\ UNCHANGED <<call, path, count>>
      BY <1>5, <1>7, <2>2, ReadlinkDoneIs
    <3>0. /\ ProcType /\ stage[p] = "iput" /\ Then(p, 0, 0, "chdir_again") /\ UNCHANGED ret
      BY <1>1, <3>1
    <3>2. /\ LocalCtl(p) /\ LocalRet(p) /\ pc'[p] = "chdir_again" /\ put'[p] = 0 /\ want'[p] = 0
          /\ stage'[p] = "iput" /\ ret'[p] = ret[p]
      BY <3>0, ThenIs, KeptRet
    <3>3. /\ LocalPtr(p) /\ cur'[p] = 0 /\ ip'[p] = ip[p] /\ dp'[p] = dp[p]
      BY <1>1, <3>1 DEF LocalPtr, ProcType, ptrVars
    <3>4. /\ LocalRest(p) /\ LocalArg(p) /\ LocalFile(p) /\ rest'[p] = rest[p] /\ call'[p] = call[p]
          /\ path'[p] = path[p] /\ count'[p] = count[p] /\ cwd'[p] = cwd[p] /\ ofile'[p] = ofile[p]
      BY <1>1, <3>1, KeptRest, KeptArg, KeptFile
    <3>5. Local(p)
      BY <3>2, <3>3, <3>4, LocalParts
    <3>7. Good(p)'
      <4>1. OwnType(p)'
        BY <1>3, <2>2, <1>2, <3>2, <3>3, <3>4, Null DEF OwnType, Stages, Pcs
      <4>2. PtrInv(p)'
        BY <1>3, <2>2, <1>2, <3>2, <3>3, <3>4 DEF PtrInv, HasIp, Where, Rets, IpPcs, DpPcs, WantPcs
      <4>3. OpInv(p)'
        BY <1>3, <2>2, <1>2, <3>2, <3>3, <3>4 DEF OpInv, Where, Rets
      <4>4. PathInv(p)'
        BY <1>3, <2>2, <1>2, <3>2, <3>3, <3>4 DEF PathInv, HasName, Rets
      <4>5. Distinct(p)'
        BY <1>3, <2>2, <1>2, <3>2, <3>3, <3>4 DEF Distinct, HasLockedIp, Truncating, DpPcs, Rets
      <4> QED
        BY <4>1, <4>2, <4>3, <4>4, <4>5 DEF Good
    <3>8. \A x \in Slot : Hold(p, x)' + Is(x, cur[p]) = Hold(p, x)
      <4>1. /\ put[p] = 0 /\ cur'[p] = 0 /\ ip'[p] = ip[p] /\ dp'[p] = dp[p] /\ put'[p] = 0
            /\ cwd'[p] = cwd[p] /\ ofile'[p] = ofile[p]
        BY <1>3, <2>2, <1>2, <3>2, <3>3, <3>4
      <4>2. \A x \in Slot : x # 0
        BY Null
      <4> QED
        BY <4>1, <4>2 DEF Hold, Is
    <3>9. \A x \in Slot : Locks(p, x)' <=> Locks(p, x) /\ x # cur[p]
      BY <1>3, <2>2, <1>2, <3>2, <3>3, <3>4, Null DEF Locks, HasLockedIp, Truncating, DpPcs, Rets
    <3>10. /\ TableType'
           /\ \A x \in Slot : /\ itable'[x].ref = itable[x].ref /\ itable'[x].inum = itable[x].inum
                              /\ itable'[x].valid = itable[x].valid
                              /\ itable'[x].lock = IF x = cur[p] THEN NoOne ELSE itable[x].lock
      BY <1>6 DEF Released
    <3>12. leaked' \in [Slot -> Nat] /\ \A x \in Slot : leaked[x] + Hold(p, x) = leaked'[x] + Hold(p, x)'
      BY <1>2, <1>5, <3>8, LeakOne
    <3> QED
      BY <1>2, <3>5, <3>7, <3>9, <3>10, UnlockRef, <1>4, <1>9, <3>12, RefFacts
  <2>3. CASE call[p].op = "readlink"
    <3>1. /\ Then(p, 0, 0, "idle") /\ UNCHANGED ret /\ cur' = [cur EXCEPT ![p] = 0]
          /\ UNCHANGED <<ip, dp>> /\ UNCHANGED rest /\ UNCHANGED <<call, path, count>>
      BY <1>5, <1>7, <2>3, ReadlinkDoneIs
    <3>0. /\ ProcType /\ stage[p] = "iput" /\ Then(p, 0, 0, "idle") /\ UNCHANGED ret
      BY <1>1, <3>1
    <3>2. /\ LocalCtl(p) /\ LocalRet(p) /\ pc'[p] = "idle" /\ put'[p] = 0 /\ want'[p] = 0
          /\ stage'[p] = "iput" /\ ret'[p] = ret[p]
      BY <3>0, ThenIs, KeptRet
    <3>3. /\ LocalPtr(p) /\ cur'[p] = 0 /\ ip'[p] = ip[p] /\ dp'[p] = dp[p]
      BY <1>1, <3>1 DEF LocalPtr, ProcType, ptrVars
    <3>4. /\ LocalRest(p) /\ LocalArg(p) /\ LocalFile(p) /\ rest'[p] = rest[p] /\ call'[p] = call[p]
          /\ path'[p] = path[p] /\ count'[p] = count[p] /\ cwd'[p] = cwd[p] /\ ofile'[p] = ofile[p]
      BY <1>1, <3>1, KeptRest, KeptArg, KeptFile
    <3>5. Local(p)
      BY <3>2, <3>3, <3>4, LocalParts
    <3>7. Good(p)'
      <4>1. OwnType(p)'
        BY <1>3, <2>3, <1>2, <3>2, <3>3, <3>4, Null DEF OwnType, Stages, Pcs
      <4>2. PtrInv(p)'
        BY <1>3, <2>3, <1>2, <3>2, <3>3, <3>4 DEF PtrInv, HasIp, Where, Rets, IpPcs, DpPcs, WantPcs
      <4>3. OpInv(p)'
        BY <1>3, <2>3, <1>2, <3>2, <3>3, <3>4 DEF OpInv, Where, Rets
      <4>4. PathInv(p)'
        BY <1>3, <2>3, <1>2, <3>2, <3>3, <3>4 DEF PathInv, HasName, Rets
      <4>5. Distinct(p)'
        BY <1>3, <2>3, <1>2, <3>2, <3>3, <3>4 DEF Distinct, HasLockedIp, Truncating, DpPcs, Rets
      <4> QED
        BY <4>1, <4>2, <4>3, <4>4, <4>5 DEF Good
    <3>8. \A x \in Slot : Hold(p, x)' + Is(x, cur[p]) = Hold(p, x)
      <4>1. /\ put[p] = 0 /\ cur'[p] = 0 /\ ip'[p] = ip[p] /\ dp'[p] = dp[p] /\ put'[p] = 0
            /\ cwd'[p] = cwd[p] /\ ofile'[p] = ofile[p]
        BY <1>3, <2>3, <1>2, <3>2, <3>3, <3>4
      <4>2. \A x \in Slot : x # 0
        BY Null
      <4> QED
        BY <4>1, <4>2 DEF Hold, Is
    <3>9. \A x \in Slot : Locks(p, x)' <=> Locks(p, x) /\ x # cur[p]
      BY <1>3, <2>3, <1>2, <3>2, <3>3, <3>4, Null DEF Locks, HasLockedIp, Truncating, DpPcs, Rets
    <3>10. /\ TableType'
           /\ \A x \in Slot : /\ itable'[x].ref = itable[x].ref /\ itable'[x].inum = itable[x].inum
                              /\ itable'[x].valid = itable[x].valid
                              /\ itable'[x].lock = IF x = cur[p] THEN NoOne ELSE itable[x].lock
      BY <1>6 DEF Released
    <3>12. leaked' \in [Slot -> Nat] /\ \A x \in Slot : leaked[x] + Hold(p, x) = leaked'[x] + Hold(p, x)'
      BY <1>2, <1>5, <3>8, LeakOne
    <3> QED
      BY <1>2, <3>5, <3>7, <3>9, <3>10, UnlockRef, <1>4, <1>9, <3>12, RefFacts
  <2> QED
    BY <1>3, <2>1, <2>2, <2>3
<1> DEFINE new == target[itable[cur[p]].inum]
<1>8. CASE ~(ReadlinkDone(p) /\ UNCHANGED <<path, rest, count, panic>>)
  <2>13. new \in Paths
    BY <1>1, <1>4 DEF DiskType
  <2>14. /\ path' = [path EXCEPT ![p] = new] /\ count' = [count EXCEPT ![p] = @ + 1]
         /\ Walk(p, "readlink_found", new)
    BY <1>8 DEF ReadlinkRead
  <2>16. count[p] \in Nat
    BY <1>2 DEF OwnType
  <2>15. count[p] + 1 \in Nat
    BY <2>16
  <2> HIDE DEF new
  <2>1. /\ Walk(p, "readlink_found", new) /\ cur' = [cur EXCEPT ![p] = 0] /\ UNCHANGED <<ip, dp>>
        /\ UNCHANGED call /\ path' = [path EXCEPT ![p] = new]
        /\ count' = [count EXCEPT ![p] = @ + 1]
    BY <1>5, <2>14
  <2>0. /\ ProcType /\ stage[p] = "iput" /\ Walk(p, "readlink_found", new)
    BY <1>1, <2>1
  <2>2. /\ LocalCtl(p) /\ LocalRet(p) /\ LocalRest(p) /\ pc'[p] = "namei" /\ put'[p] = 0
        /\ want'[p] = 0 /\ stage'[p] = "iput" /\ ret'[p] = "readlink_found" /\ rest'[p] = new
    BY <2>0, WalkIs
  <2>3. /\ LocalPtr(p) /\ cur'[p] = 0 /\ ip'[p] = ip[p] /\ dp'[p] = dp[p]
    BY <1>1, <2>1 DEF LocalPtr, ProcType, ptrVars
  <2>4. /\ LocalArg(p) /\ LocalFile(p) /\ call'[p] = call[p] /\ path'[p] = new
        /\ count'[p] = count[p] + 1 /\ cwd'[p] = cwd[p] /\ ofile'[p] = ofile[p]
    BY <1>1, <2>1, KeptFile DEF ProcType, LocalArg
  <2>5. Local(p)
    BY <2>2, <2>3, <2>4, LocalParts
  <2>7. Good(p)'
    <3>1. OwnType(p)'
      BY <1>3, <2>13, <2>15, <1>2, <2>2, <2>3, <2>4, Null DEF OwnType, Stages, Pcs
    <3>2. PtrInv(p)'
      BY <1>3, <2>13, <2>15, <1>2, <2>2, <2>3, <2>4 DEF PtrInv, HasIp, Where, Rets, IpPcs, DpPcs, WantPcs
    <3>3. OpInv(p)'
      BY <1>3, <2>13, <2>15, <1>2, <2>2, <2>3, <2>4 DEF OpInv, Where, Rets
    <3>4. PathInv(p)'
      BY <1>3, <2>13, <2>15, <1>2, <2>2, <2>3, <2>4 DEF PathInv, HasName, Rets
    <3>5. Distinct(p)'
      BY <1>3, <2>13, <2>15, <1>2, <2>2, <2>3, <2>4 DEF Distinct, HasLockedIp, Truncating, DpPcs, Rets
    <3> QED
      BY <3>1, <3>2, <3>3, <3>4, <3>5 DEF Good
  <2>8. \A x \in Slot : Hold(p, x)' + Is(x, cur[p]) = Hold(p, x)
    <3>1. /\ put[p] = 0 /\ cur'[p] = 0 /\ ip'[p] = ip[p] /\ dp'[p] = dp[p] /\ put'[p] = 0
          /\ cwd'[p] = cwd[p] /\ ofile'[p] = ofile[p]
      BY <1>3, <2>13, <2>15, <1>2, <2>2, <2>3, <2>4
    <3>2. \A x \in Slot : x # 0
      BY Null
    <3> QED
      BY <3>1, <3>2 DEF Hold, Is
  <2>9. \A x \in Slot : Locks(p, x)' <=> Locks(p, x) /\ x # cur[p]
    BY <1>3, <2>13, <2>15, <1>2, <2>2, <2>3, <2>4, Null DEF Locks, HasLockedIp, Truncating, DpPcs, Rets
  <2>10. /\ TableType'
         /\ \A x \in Slot : /\ itable'[x].ref = itable[x].ref /\ itable'[x].inum = itable[x].inum
                            /\ itable'[x].valid = itable[x].valid
                            /\ itable'[x].lock = IF x = cur[p] THEN NoOne ELSE itable[x].lock
    BY <1>6 DEF Released
  <2>12. leaked' \in [Slot -> Nat] /\ \A x \in Slot : leaked[x] + Hold(p, x) = leaked'[x] + Hold(p, x)'
    BY <1>2, <1>5, <2>8, LeakOne
  <2> QED
    BY <1>2, <2>5, <2>7, <2>9, <2>10, UnlockRef, <1>4, <1>9, <2>12, RefFacts
<1> QED
  BY <1>7, <1>8

LEMMA ChdirRef ==
  ASSUME RefInv, NEW p \in Proc, Chdir(p)
  PROVE  RefInv' /\ Local(p)
<1>1. /\ panic = "" /\ put[p] = 0 /\ want[p] = 0 /\ pc[p] = "chdir" /\ stage[p] = "iput" /\ ProcType
      /\ DiskType /\ TableType /\ Good(p) /\ UNCHANGED <<call, path, count>>
      /\ UNCHANGED <<cwd, ofile>>
  BY AtIs, RefFacts DEF Chdir, procVars
<1>2. /\ panic = "" /\ put[p] = 0 /\ want[p] = 0 /\ pc[p] = "chdir" /\ stage[p] = "iput"
      /\ OwnType(p) /\ OpInv(p) /\ cur[p] \in Pointer /\ ip[p] = 0 /\ dp[p] = 0 /\ cwd[p] \in Slot
      /\ ofile[p] \in Pointer
  BY <1>1, Constants DEF Good, PtrInv, PathInv, HasName, OwnType, HasIp, Where, Rets, IpPcs, DpPcs
<1>3. call[p].op = "chdir"
  BY <1>2 DEF OpInv, Where
<1>4. DiskType' /\ TableType' /\ lost' = lost /\ itable' = itable /\ lost' \subseteq Inum
  BY <1>1, RefFacts DEF Chdir, DiskType, TableType, diskVars
<1>5. CASE cur[p] = 0 /\ Goto(p, "idle") /\ UNCHANGED <<ptrVars, rest, leaked>>
  <2>1. UNCHANGED rest /\ UNCHANGED ptrVars /\ UNCHANGED <<diskVars, itable, leaked, lost>>
    BY <1>5 DEF Chdir, history
  <2> QED
    BY <1>1, <1>5, <2>1, NullRef
<1>6. CASE /\ cur[p] # 0 /\ leaked' = [leaked EXCEPT ![cur[p]] = @ + 1] /\ cur' = [cur EXCEPT ![p] = 0]
           /\ Walk(p, "readlink_found", path[p]) /\ UNCHANGED <<ip, dp>>
  <2>12. cur[p] \in Slot
    BY <1>2, <1>6, Constants
  <2>1. /\ Walk(p, "readlink_found", path[p]) /\ cur' = [cur EXCEPT ![p] = 0]
        /\ UNCHANGED <<ip, dp>>
    BY <1>6
  <2>0. /\ ProcType /\ stage[p] = "iput" /\ Walk(p, "readlink_found", path[p])
    BY <1>1, <2>1
  <2>2. /\ LocalCtl(p) /\ LocalRet(p) /\ LocalRest(p) /\ pc'[p] = "namei" /\ put'[p] = 0
        /\ want'[p] = 0 /\ stage'[p] = "iput" /\ ret'[p] = "readlink_found" /\ rest'[p] = path[p]
    BY <2>0, WalkIs
  <2>3. /\ LocalPtr(p) /\ cur'[p] = 0 /\ ip'[p] = ip[p] /\ dp'[p] = dp[p]
    BY <1>1, <2>1 DEF LocalPtr, ProcType, ptrVars
  <2>4. /\ LocalArg(p) /\ LocalFile(p) /\ call'[p] = call[p] /\ path'[p] = path[p]
        /\ count'[p] = count[p] /\ cwd'[p] = cwd[p] /\ ofile'[p] = ofile[p]
    BY <1>1, <2>1, KeptArg, KeptFile
  <2>5. Local(p)
    BY <2>2, <2>3, <2>4, LocalParts
  <2>7. Good(p)'
    <3>1. OwnType(p)'
      BY <1>3, <1>6, <1>2, <2>2, <2>3, <2>4, Null DEF OwnType, Stages, Pcs
    <3>2. PtrInv(p)'
      BY <1>3, <1>6, <1>2, <2>2, <2>3, <2>4 DEF PtrInv, HasIp, Where, Rets, IpPcs, DpPcs, WantPcs
    <3>3. OpInv(p)'
      BY <1>3, <1>6, <1>2, <2>2, <2>3, <2>4 DEF OpInv, Where, Rets
    <3>4. PathInv(p)'
      BY <1>3, <1>6, <1>2, <2>2, <2>3, <2>4 DEF PathInv, HasName, Rets
    <3>5. Distinct(p)'
      BY <1>3, <1>6, <1>2, <2>2, <2>3, <2>4 DEF Distinct, HasLockedIp, Truncating, DpPcs, Rets
    <3> QED
      BY <3>1, <3>2, <3>3, <3>4, <3>5 DEF Good
  <2>8. \A x \in Slot : Hold(p, x)' + Is(x, cur[p]) = Hold(p, x)
    <3>1. /\ put[p] = 0 /\ cur'[p] = 0 /\ ip'[p] = ip[p] /\ dp'[p] = dp[p] /\ put'[p] = 0
          /\ cwd'[p] = cwd[p] /\ ofile'[p] = ofile[p]
      BY <1>3, <1>6, <1>2, <2>2, <2>3, <2>4
    <3>2. \A x \in Slot : x # 0
      BY Null
    <3> QED
      BY <3>1, <3>2 DEF Hold, Is
  <2>9. \A x \in Slot : Locks(p, x)' <=> Locks(p, x)
    BY <1>3, <1>6, <1>2, <2>2, <2>3, <2>4, Null DEF Locks, HasLockedIp, Truncating, DpPcs, Rets
  <2>13. leaked' \in [Slot -> Nat] /\ \A x \in Slot : leaked[x] + Hold(p, x) = leaked'[x] + Hold(p, x)'
    BY <1>6, <2>8, <2>12, LeakOne
  <2> QED
    BY <1>2, <2>5, <2>7, <2>9, LeakRef, <1>4, <2>13, RefFacts
<1>7. CASE /\ cur[p] # 0 /\ ToIp(p) /\ cur' = [cur EXCEPT ![p] = 0]
           /\ Then(p, 0, cur[p], "chdir_check") /\ UNCHANGED <<ret, rest, leaked>>
  <2>1. /\ Then(p, 0, cur[p], "chdir_check") /\ UNCHANGED ret /\ cur' = [cur EXCEPT ![p] = 0]
        /\ ip' = [ip EXCEPT ![p] = cur[p]] /\ UNCHANGED dp /\ UNCHANGED rest /\ leaked' = leaked
    BY <1>7 DEF ToIp
  <2>0. /\ ProcType /\ stage[p] = "iput" /\ Then(p, 0, cur[p], "chdir_check") /\ UNCHANGED ret
    BY <1>1, <2>1
  <2>2. /\ LocalCtl(p) /\ LocalRet(p) /\ pc'[p] = "chdir_check" /\ put'[p] = 0 /\ want'[p] = cur[p]
        /\ stage'[p] = "iput" /\ ret'[p] = ret[p]
    BY <2>0, ThenIs, KeptRet
  <2>3. /\ LocalPtr(p) /\ cur'[p] = 0 /\ ip'[p] = cur[p] /\ dp'[p] = dp[p]
    BY <1>1, <2>1 DEF LocalPtr, ProcType, ptrVars
  <2>4. /\ LocalRest(p) /\ LocalArg(p) /\ LocalFile(p) /\ rest'[p] = rest[p] /\ call'[p] = call[p]
        /\ path'[p] = path[p] /\ count'[p] = count[p] /\ cwd'[p] = cwd[p] /\ ofile'[p] = ofile[p]
    BY <1>1, <2>1, KeptRest, KeptArg, KeptFile
  <2>5. Local(p)
    BY <2>2, <2>3, <2>4, LocalParts
  <2>7. Good(p)'
    <3>1. OwnType(p)'
      BY <1>3, <1>7, <1>2, <2>2, <2>3, <2>4, Null DEF OwnType, Stages, Pcs
    <3>2. PtrInv(p)'
      BY <1>3, <1>7, <1>2, <2>2, <2>3, <2>4 DEF PtrInv, HasIp, Where, Rets, IpPcs, DpPcs, WantPcs
    <3>3. OpInv(p)'
      BY <1>3, <1>7, <1>2, <2>2, <2>3, <2>4 DEF OpInv, Where, Rets
    <3>4. PathInv(p)'
      BY <1>3, <1>7, <1>2, <2>2, <2>3, <2>4 DEF PathInv, HasName, Rets
    <3>5. Distinct(p)'
      BY <1>3, <1>7, <1>2, <2>2, <2>3, <2>4 DEF Distinct, HasLockedIp, Truncating, DpPcs, Rets
    <3> QED
      BY <3>1, <3>2, <3>3, <3>4, <3>5 DEF Good
  <2>8. \A x \in Slot : Hold(p, x)' = Hold(p, x)
    <3>1. /\ ip[p] = 0 /\ put[p] = 0 /\ cur'[p] = 0 /\ ip'[p] = cur[p] /\ dp'[p] = dp[p]
          /\ put'[p] = 0 /\ cwd'[p] = cwd[p] /\ ofile'[p] = ofile[p]
      BY <1>3, <1>7, <1>2, <2>2, <2>3, <2>4
    <3>2. \A x \in Slot : x # 0
      BY Null
    <3> QED
      BY <3>1, <3>2 DEF Hold, Is
  <2>9. \A x \in Slot : Locks(p, x)' <=> Locks(p, x)
    BY <1>3, <1>7, <1>2, <2>2, <2>3, <2>4, Null DEF Locks, HasLockedIp, Truncating, DpPcs, Rets
  <2> QED
    BY <1>2, <2>5, <2>7, <2>8, <2>9, StillStep, <1>4, <2>1, RefFacts
<1> QED
  BY <1>5, <1>6, <1>7 DEF Chdir

LEMMA ChdirAgainRef ==
  ASSUME RefInv, NEW p \in Proc, ChdirAgain(p)
  PROVE  RefInv' /\ Local(p)
<1>1. /\ panic = "" /\ put[p] = 0 /\ want[p] = 0 /\ pc[p] = "chdir_again" /\ stage[p] = "iput"
      /\ ProcType /\ DiskType /\ TableType /\ Good(p) /\ UNCHANGED <<call, path, count>>
      /\ UNCHANGED <<cwd, ofile>>
  BY AtIs, RefFacts DEF ChdirAgain, procVars
<1>2. /\ panic = "" /\ put[p] = 0 /\ want[p] = 0 /\ pc[p] = "chdir_again" /\ stage[p] = "iput"
      /\ OwnType(p) /\ OpInv(p) /\ cur[p] = 0 /\ ip[p] = 0 /\ dp[p] = 0 /\ cwd[p] \in Slot
      /\ ofile[p] \in Pointer
  BY <1>1, Constants DEF Good, PtrInv, PathInv, HasName, OwnType, HasIp, Where, Rets, IpPcs, DpPcs
<1>3. call[p].op = "chdir"
  BY <1>2 DEF OpInv, Where
<1>4. DiskType' /\ TableType' /\ leaked' = leaked /\ lost' = lost /\ itable' = itable
  BY <1>1 DEF ChdirAgain, DiskType, TableType, diskVars, history
<1> QED
  <2>1. /\ Walk(p, "chdir_lock", path[p]) /\ UNCHANGED ptrVars
    BY DEF ChdirAgain
  <2>0. /\ ProcType /\ stage[p] = "iput" /\ Walk(p, "chdir_lock", path[p])
    BY <1>1, <2>1
  <2>2. /\ LocalCtl(p) /\ LocalRet(p) /\ LocalRest(p) /\ pc'[p] = "namei" /\ put'[p] = 0
        /\ want'[p] = 0 /\ stage'[p] = "iput" /\ ret'[p] = "chdir_lock" /\ rest'[p] = path[p]
    BY <2>0, WalkIs
  <2>3. /\ LocalPtr(p) /\ cur'[p] = cur[p] /\ ip'[p] = ip[p] /\ dp'[p] = dp[p]
    BY <1>1, <2>1, KeptPtr
  <2>4. /\ LocalArg(p) /\ LocalFile(p) /\ call'[p] = call[p] /\ path'[p] = path[p]
        /\ count'[p] = count[p] /\ cwd'[p] = cwd[p] /\ ofile'[p] = ofile[p]
    BY <1>1, <2>1, KeptArg, KeptFile
  <2>5. Local(p)
    BY <2>2, <2>3, <2>4, LocalParts
  <2>7. Good(p)'
    <3>1. OwnType(p)'
      BY <1>3, <1>2, <2>2, <2>3, <2>4, Null DEF OwnType, Stages, Pcs
    <3>2. PtrInv(p)'
      BY <1>3, <1>2, <2>2, <2>3, <2>4 DEF PtrInv, HasIp, Where, Rets, IpPcs, DpPcs, WantPcs
    <3>3. OpInv(p)'
      BY <1>3, <1>2, <2>2, <2>3, <2>4 DEF OpInv, Where, Rets
    <3>4. PathInv(p)'
      BY <1>3, <1>2, <2>2, <2>3, <2>4 DEF PathInv, HasName, Rets
    <3>5. Distinct(p)'
      BY <1>3, <1>2, <2>2, <2>3, <2>4 DEF Distinct, HasLockedIp, Truncating, DpPcs, Rets
    <3> QED
      BY <3>1, <3>2, <3>3, <3>4, <3>5 DEF Good
  <2>8. \A x \in Slot : Hold(p, x)' = Hold(p, x)
    <3>1. /\ put[p] = 0 /\ cur'[p] = cur[p] /\ ip'[p] = ip[p] /\ dp'[p] = dp[p] /\ put'[p] = 0
          /\ cwd'[p] = cwd[p] /\ ofile'[p] = ofile[p]
      BY <1>3, <1>2, <2>2, <2>3, <2>4
    <3>2. \A x \in Slot : x # 0
      BY Null
    <3> QED
      BY <3>1, <3>2 DEF Hold, Is
  <2>9. \A x \in Slot : Locks(p, x)' <=> Locks(p, x)
    BY <1>3, <1>2, <2>2, <2>3, <2>4, Null DEF Locks, HasLockedIp, Truncating, DpPcs, Rets
  <2> QED
    BY <1>2, <2>5, <2>7, <2>8, <2>9, StillStep, <1>4, RefFacts

LEMMA ChdirLockRef ==
  ASSUME RefInv, NEW p \in Proc, ChdirLock(p)
  PROVE  RefInv' /\ Local(p)
<1>1. /\ panic = "" /\ put[p] = 0 /\ want[p] = 0 /\ pc[p] = "chdir_lock" /\ stage[p] = "iput"
      /\ ProcType /\ DiskType /\ TableType /\ Good(p) /\ UNCHANGED <<call, path, count>>
      /\ UNCHANGED <<cwd, ofile>>
  BY AtIs, RefFacts DEF ChdirLock, procVars
<1>2. /\ panic = "" /\ put[p] = 0 /\ want[p] = 0 /\ pc[p] = "chdir_lock" /\ stage[p] = "iput"
      /\ OwnType(p) /\ OpInv(p) /\ cur[p] \in Pointer /\ ip[p] = 0 /\ dp[p] = 0 /\ cwd[p] \in Slot
      /\ ofile[p] \in Pointer
  BY <1>1, Constants DEF Good, PtrInv, PathInv, HasName, OwnType, HasIp, Where, Rets, IpPcs, DpPcs
<1>3. call[p].op = "chdir"
  BY <1>2 DEF OpInv, Where
<1>4. CASE cur[p] = 0 /\ Halt("ilock")
  <2>1. UNCHANGED <<call, path, count, procVars, lost>>
    BY DEF ChdirLock
  <2> QED
    BY <1>4, <2>1, HaltIs
<1>5. CASE cur[p] # 0 /\ Ilock(p, cur[p]) /\ ToIp(p) /\ cur' = [cur EXCEPT ![p] = 0] /\ Goto(p, "chdir_check") /\ UNCHANGED <<diskVars, rest, leaked>>
  <2>12. cur[p] \in Slot /\ cur[p] # 0
    BY <1>2, <1>5, Constants
  <2>13. Ilock(p, cur[p]) /\ itable[cur[p]].inum # 0 /\ UNCHANGED <<diskVars, leaked, lost>>
    BY <1>5, <2>12, HeldSlot, Constants DEF ChdirLock
  <2>1. /\ Goto(p, "chdir_check") /\ cur' = [cur EXCEPT ![p] = 0] /\ ip' = [ip EXCEPT ![p] = cur[p]]
        /\ UNCHANGED dp /\ UNCHANGED rest
    BY <1>5 DEF ToIp
  <2>0. /\ ProcType /\ stage[p] = "iput" /\ Goto(p, "chdir_check")
    BY <1>1, <2>1
  <2>2. /\ LocalCtl(p) /\ LocalRet(p) /\ pc'[p] = "chdir_check" /\ put'[p] = 0 /\ want'[p] = 0
        /\ stage'[p] = "iput" /\ ret'[p] = ret[p]
    BY <2>0, GotoIs
  <2>3. /\ LocalPtr(p) /\ cur'[p] = 0 /\ ip'[p] = cur[p] /\ dp'[p] = dp[p]
    BY <1>1, <2>1 DEF LocalPtr, ProcType, ptrVars
  <2>4. /\ LocalRest(p) /\ LocalArg(p) /\ LocalFile(p) /\ rest'[p] = rest[p] /\ call'[p] = call[p]
        /\ path'[p] = path[p] /\ count'[p] = count[p] /\ cwd'[p] = cwd[p] /\ ofile'[p] = ofile[p]
    BY <1>1, <2>1, KeptRest, KeptArg, KeptFile
  <2>5. Local(p)
    BY <2>2, <2>3, <2>4, LocalParts
  <2>7. Good(p)'
    <3>1. OwnType(p)'
      BY <1>3, <2>12, <1>2, <2>2, <2>3, <2>4, Null DEF OwnType, Stages, Pcs
    <3>2. PtrInv(p)'
      BY <1>3, <2>12, <1>2, <2>2, <2>3, <2>4 DEF PtrInv, HasIp, Where, Rets, IpPcs, DpPcs, WantPcs
    <3>3. OpInv(p)'
      BY <1>3, <2>12, <1>2, <2>2, <2>3, <2>4 DEF OpInv, Where, Rets
    <3>4. PathInv(p)'
      BY <1>3, <2>12, <1>2, <2>2, <2>3, <2>4 DEF PathInv, HasName, Rets
    <3>5. Distinct(p)'
      BY <1>3, <2>12, <1>2, <2>2, <2>3, <2>4 DEF Distinct, HasLockedIp, Truncating, DpPcs, Rets
    <3> QED
      BY <3>1, <3>2, <3>3, <3>4, <3>5 DEF Good
  <2>8. \A x \in Slot : Hold(p, x)' = Hold(p, x)
    <3>1. /\ ip[p] = 0 /\ put[p] = 0 /\ cur'[p] = 0 /\ ip'[p] = cur[p] /\ dp'[p] = dp[p]
          /\ put'[p] = 0 /\ cwd'[p] = cwd[p] /\ ofile'[p] = ofile[p]
      BY <1>3, <2>12, <1>2, <2>2, <2>3, <2>4
    <3>2. \A x \in Slot : x # 0
      BY Null
    <3> QED
      BY <3>1, <3>2 DEF Hold, Is
  <2>9. \A x \in Slot : Locks(p, x)' <=> Locks(p, x) \/ x = cur[p]
    BY <1>3, <2>12, <1>2, <2>2, <2>3, <2>4, Null DEF Locks, HasLockedIp, Truncating, DpPcs, Rets
  <2> QED
    BY <1>2, <2>5, <2>7, <2>8, <2>9, LockRef, <2>12, <2>13, RefFacts
<1> QED
  BY <1>4, <1>5 DEF ChdirLock

LEMMA ChdirCheckRef ==
  ASSUME RefInv, NEW p \in Proc, ChdirCheck(p)
  PROVE  RefInv' /\ Local(p)
<1>1. /\ panic = "" /\ put[p] = 0 /\ want[p] = 0 /\ pc[p] = "chdir_check" /\ stage[p] = "iput"
      /\ ProcType /\ DiskType /\ TableType /\ Good(p) /\ UNCHANGED <<call, path, count>>
      /\ UNCHANGED rest
  BY AtIs, RefFacts DEF ChdirCheck, argVars
<1>2. /\ panic = "" /\ put[p] = 0 /\ want[p] = 0 /\ pc[p] = "chdir_check" /\ stage[p] = "iput"
      /\ OwnType(p) /\ OpInv(p) /\ cur[p] = 0 /\ ip[p] # 0 /\ ip[p] \in Slot /\ dp[p] = 0
      /\ cwd[p] \in Slot /\ ofile[p] \in Pointer
  BY <1>1, Constants DEF Good, PtrInv, PathInv, HasName, OwnType, HasIp, Where, Rets, IpPcs, DpPcs
<1>3. DiskType' /\ leaked' = leaked /\ lost' = lost /\ UNCHANGED ofile
  BY <1>1 DEF ChdirCheck, DiskType, diskVars, history
<1>4. CASE PutIp(p) /\ UNCHANGED cwd
  BY <1>1, <1>3, <1>4, PutIpOnly
<1>5. CASE ~(PutIp(p) /\ UNCHANGED cwd)
  <2>12. Locks(p, ip[p])
    BY <1>2 DEF Locks, HasLockedIp
  <2>13. itable' = Unlock(itable, ip[p])
    BY <1>5 DEF ChdirCheck
  <2>1. /\ Then(p, cwd[p], 0, "idle") /\ UNCHANGED ret /\ ip' = [ip EXCEPT ![p] = 0]
        /\ UNCHANGED <<cur, dp>> /\ cwd' = [cwd EXCEPT ![p] = ip[p]]
    BY <1>5 DEF ChdirCheck
  <2>0. /\ ProcType /\ stage[p] = "iput" /\ Then(p, cwd[p], 0, "idle") /\ UNCHANGED ret
    BY <1>1, <2>1
  <2>2. /\ LocalCtl(p) /\ LocalRet(p) /\ pc'[p] = "idle" /\ put'[p] = cwd[p] /\ want'[p] = 0
        /\ stage'[p] = "iput" /\ ret'[p] = ret[p]
    BY <2>0, ThenIs, KeptRet
  <2>3. /\ LocalPtr(p) /\ cur'[p] = cur[p] /\ ip'[p] = 0 /\ dp'[p] = dp[p]
    BY <1>1, <2>1 DEF LocalPtr, ProcType, ptrVars
  <2>4. /\ LocalRest(p) /\ LocalArg(p) /\ LocalFile(p) /\ rest'[p] = rest[p] /\ call'[p] = call[p]
        /\ path'[p] = path[p] /\ count'[p] = count[p] /\ cwd'[p] = ip[p] /\ ofile'[p] = ofile[p]
    BY <1>1, <1>3, <2>1, KeptRest, KeptArg DEF ProcType, LocalFile
  <2>5. Local(p)
    BY <2>2, <2>3, <2>4, LocalParts
  <2>7. Good(p)'
    <3>1. OwnType(p)'
      BY <1>5, <1>2, <2>2, <2>3, <2>4, Null DEF OwnType, Stages, Pcs
    <3>2. PtrInv(p)'
      BY <1>5, <1>2, <2>2, <2>3, <2>4 DEF PtrInv, HasIp, Where, Rets, IpPcs, DpPcs, WantPcs
    <3>3. OpInv(p)'
      BY <1>5, <1>2, <2>2, <2>3, <2>4 DEF OpInv, Where, Rets
    <3>4. PathInv(p)'
      BY <1>5, <1>2, <2>2, <2>3, <2>4 DEF PathInv, HasName, Rets
    <3>5. Distinct(p)'
      BY <1>5, <1>2, <2>2, <2>3, <2>4 DEF Distinct, HasLockedIp, Truncating, DpPcs, Rets
    <3> QED
      BY <3>1, <3>2, <3>3, <3>4, <3>5 DEF Good
  <2>8. \A x \in Slot : Hold(p, x)' = Hold(p, x)
    <3>1. /\ put[p] = 0 /\ cur'[p] = cur[p] /\ ip'[p] = 0 /\ dp'[p] = dp[p] /\ put'[p] = cwd[p]
          /\ cwd'[p] = ip[p] /\ ofile'[p] = ofile[p]
      BY <1>5, <1>2, <2>2, <2>3, <2>4
    <3>2. \A x \in Slot : x # 0
      BY Null
    <3> QED
      BY <3>1, <3>2 DEF Hold, Is
  <2>9. \A x \in Slot : Locks(p, x)' <=> Locks(p, x) /\ x # ip[p]
    BY <1>5, <1>2, <2>2, <2>3, <2>4, Null DEF Locks, HasLockedIp, Truncating, DpPcs, Rets
  <2>10. /\ TableType'
         /\ \A x \in Slot : /\ itable'[x].ref = itable[x].ref /\ itable'[x].inum = itable[x].inum
                            /\ itable'[x].valid = itable[x].valid
                            /\ itable'[x].lock = IF x = ip[p] THEN NoOne ELSE itable[x].lock
    BY <1>1, <1>2, <2>13, UnlockedTable DEF Released
  <2> QED
    BY <1>2, <2>5, <2>7, <2>8, <2>9, <2>10, UnlockRef, <1>3, <2>12, RefFacts
<1> QED
  BY <1>4, <1>5 DEF ChdirCheck

-----------------------------------------------------------------------------
(* link *)

LEMMA SetEntry ==
  ASSUME DiskType, NEW d \in Inum, NEW n \in Entries, NEW i \in Inum \cup {0}, entry' = [entry EXCEPT ![d][n] = i]
  PROVE  entry' \in [Inum -> [Entries -> Inum \cup {0}]]
<1>1. entry \in [Inum -> [Entries -> Inum \cup {0}]] /\ entry[d] \in [Entries -> Inum \cup {0}]
  BY DEF DiskType
<1> DEFINE e == [entry[d] EXCEPT ![n] = i]
<1>2. e \in [Entries -> Inum \cup {0}]
  BY <1>1
<1>3. entry' = [entry EXCEPT ![d] = e]
  BY <1>1
<1> HIDE DEF e
<1> QED
  BY <1>1, <1>2, <1>3

LEMMA LinkIncRef ==
  ASSUME RefInv, NEW p \in Proc, LinkInc(p)
  PROVE  RefInv' /\ Local(p)
<1>1. /\ panic = "" /\ put[p] = 0 /\ want[p] = 0 /\ pc[p] = "link_inc" /\ stage[p] = "iput"
      /\ ProcType /\ DiskType /\ TableType /\ Good(p) /\ UNCHANGED <<call, path, count>>
      /\ UNCHANGED <<cwd, ofile>>
  BY AtIs, RefFacts DEF LinkInc, procVars
<1>2. /\ panic = "" /\ put[p] = 0 /\ want[p] = 0 /\ pc[p] = "link_inc" /\ stage[p] = "iput"
      /\ OwnType(p) /\ OpInv(p) /\ cur[p] = 0 /\ ip[p] # 0 /\ ip[p] \in Slot /\ dp[p] = 0
      /\ cwd[p] \in Slot /\ ofile[p] \in Pointer
  BY <1>1, Constants DEF Good, PtrInv, PathInv, HasName, OwnType, HasIp, Where, Rets, IpPcs, DpPcs
<1>3. call[p].op = "link"
  BY <1>2 DEF OpInv, Where
<1>4. UNCHANGED <<entry, target>> /\ leaked' = leaked /\ lost' = lost
  BY DEF LinkInc, history
<1>5. CASE PutIp(p) /\ UNCHANGED <<dinode, rest>>
  <2>1. DiskType' /\ UNCHANGED rest
    BY <1>1, <1>4, <1>5 DEF DiskType
  <2> QED
    BY <1>1, <1>4, <1>5, <2>1, PutIpOnly
<1>6. CASE ~(PutIp(p) /\ UNCHANGED <<dinode, rest>>)
  <2>12. Locks(p, ip[p]) /\ itable[ip[p]].inum \in Inum
    BY <1>2, HeldSlot DEF Locks, HasLockedIp
  <2>13. itable' = Unlock(AddLink(itable, ip[p], 1), ip[p]) /\ dinode' = UpdateLink(dinode, ip[p], 1)
    BY <1>6 DEF LinkInc
  <2>14. Released(ip[p])
    <3> DEFINE d == 1
    <3>1. d \in Int
      OBVIOUS
    <3>2. itable' = Unlock(AddLink(itable, ip[p], d), ip[p])
      BY <2>13
    <3> HIDE DEF d
    <3> QED
      BY <1>1, <1>2, <3>1, <3>2, RelinkedTable
  <2>15. DiskType' /\ leaked' \in [Slot -> Nat] /\ lost' \subseteq Inum
    <3>1. dinode' \in [Inum -> [type : Types, nlink : Int]]
      <4> DEFINE d == 1
      <4>3. d \in Int
        OBVIOUS
      <4>4. dinode' = UpdateLink(dinode, ip[p], d)
        BY <2>13
      <4> HIDE DEF d
      <4> QED
        BY <1>2, <2>12, <4>3, <4>4, RelinkedDisk
    <3> QED
      BY <1>1, <1>4, <3>1, RefFacts DEF DiskType
  <2>16. call[p].new \in Paths
    <3>1. call[p] \in Calls \/ call[p] = [op |-> "none"]
      BY <1>2 DEF OwnType, Call
    <3> QED
      BY <1>3, <3>1, TreeAssumption
  <2>1. /\ Walk(p, "link_parent", call[p].new) /\ UNCHANGED ptrVars
    BY <1>6 DEF LinkInc
  <2>0. /\ ProcType /\ stage[p] = "iput" /\ Walk(p, "link_parent", call[p].new)
    BY <1>1, <2>1
  <2>2. /\ LocalCtl(p) /\ LocalRet(p) /\ LocalRest(p) /\ pc'[p] = "namei" /\ put'[p] = 0
        /\ want'[p] = 0 /\ stage'[p] = "iput" /\ ret'[p] = "link_parent" /\ rest'[p] = call[p].new
    BY <2>0, WalkIs
  <2>3. /\ LocalPtr(p) /\ cur'[p] = cur[p] /\ ip'[p] = ip[p] /\ dp'[p] = dp[p]
    BY <1>1, <2>1, KeptPtr
  <2>4. /\ LocalArg(p) /\ LocalFile(p) /\ call'[p] = call[p] /\ path'[p] = path[p]
        /\ count'[p] = count[p] /\ cwd'[p] = cwd[p] /\ ofile'[p] = ofile[p]
    BY <1>1, <2>1, KeptArg, KeptFile
  <2>5. Local(p)
    BY <2>2, <2>3, <2>4, LocalParts
  <2>7. Good(p)'
    <3>1. OwnType(p)'
      BY <1>3, <2>16, <1>2, <2>2, <2>3, <2>4, Null DEF OwnType, Stages, Pcs
    <3>2. PtrInv(p)'
      BY <1>3, <2>16, <1>2, <2>2, <2>3, <2>4 DEF PtrInv, HasIp, Where, Rets, IpPcs, DpPcs, WantPcs
    <3>3. OpInv(p)'
      BY <1>3, <2>16, <1>2, <2>2, <2>3, <2>4 DEF OpInv, Where, Rets
    <3>4. PathInv(p)'
      BY <1>3, <2>16, <1>2, <2>2, <2>3, <2>4 DEF PathInv, HasName, Rets
    <3>5. Distinct(p)'
      BY <1>3, <2>16, <1>2, <2>2, <2>3, <2>4 DEF Distinct, HasLockedIp, Truncating, DpPcs, Rets
    <3> QED
      BY <3>1, <3>2, <3>3, <3>4, <3>5 DEF Good
  <2>8. \A x \in Slot : Hold(p, x)' = Hold(p, x)
    <3>1. /\ put[p] = 0 /\ cur'[p] = cur[p] /\ ip'[p] = ip[p] /\ dp'[p] = dp[p] /\ put'[p] = 0
          /\ cwd'[p] = cwd[p] /\ ofile'[p] = ofile[p]
      BY <1>3, <2>16, <1>2, <2>2, <2>3, <2>4
    <3>2. \A x \in Slot : x # 0
      BY Null
    <3> QED
      BY <3>1, <3>2 DEF Hold, Is
  <2>9. \A x \in Slot : Locks(p, x)' <=> Locks(p, x) /\ x # ip[p]
    BY <1>3, <2>16, <1>2, <2>2, <2>3, <2>4, Null DEF Locks, HasLockedIp, Truncating, DpPcs, Rets
  <2>10. /\ TableType'
         /\ \A x \in Slot : /\ itable'[x].ref = itable[x].ref /\ itable'[x].inum = itable[x].inum
                            /\ itable'[x].valid = itable[x].valid
                            /\ itable'[x].lock = IF x = ip[p] THEN NoOne ELSE itable[x].lock
    BY <2>14 DEF Released
  <2> QED
    BY <1>2, <2>5, <2>7, <2>8, <2>9, <2>10, UnlockRef, <1>4, <2>12, <2>15, RefFacts
<1> QED
  BY <1>5, <1>6

LEMMA LinkParentRef ==
  ASSUME RefInv, NEW p \in Proc, LinkParent(p)
  PROVE  RefInv' /\ Local(p)
<1>1. /\ panic = "" /\ put[p] = 0 /\ want[p] = 0 /\ pc[p] = "link_parent" /\ stage[p] = "iput"
      /\ ProcType /\ DiskType /\ TableType /\ Good(p) /\ UNCHANGED <<call, path, count>>
      /\ UNCHANGED rest /\ UNCHANGED <<cwd, ofile>>
  BY AtIs, RefFacts DEF LinkParent, argVars, procVars
<1>2. /\ panic = "" /\ put[p] = 0 /\ want[p] = 0 /\ pc[p] = "link_parent" /\ stage[p] = "iput"
      /\ OwnType(p) /\ OpInv(p) /\ cur[p] \in Pointer /\ ip[p] # 0 /\ ip[p] \in Slot /\ dp[p] = 0
      /\ cwd[p] \in Slot /\ ofile[p] \in Pointer
  BY <1>1, Constants DEF Good, PtrInv, PathInv, HasName, OwnType, HasIp, Where, Rets, IpPcs, DpPcs
<1>3. call[p].op = "link"
  BY <1>2 DEF OpInv, Where
<1>4. UNCHANGED <<diskVars, leaked, lost>>
  BY DEF LinkParent, history
<1>5. CASE cur[p] = 0
  <2>12. Ilock(p, ip[p]) /\ itable[ip[p]].inum # 0
    BY <1>2, <1>5, HeldSlot, Constants DEF LinkParent
  <2>1. /\ Goto(p, "link_bad") /\ cur' = [cur EXCEPT ![p] = 0] /\ dp' = [dp EXCEPT ![p] = cur[p]]
        /\ UNCHANGED ip
    BY <1>5 DEF LinkParent
  <2>0. /\ ProcType /\ stage[p] = "iput" /\ Goto(p, "link_bad")
    BY <1>1, <2>1
  <2>2. /\ LocalCtl(p) /\ LocalRet(p) /\ pc'[p] = "link_bad" /\ put'[p] = 0 /\ want'[p] = 0
        /\ stage'[p] = "iput" /\ ret'[p] = ret[p]
    BY <2>0, GotoIs
  <2>3. /\ LocalPtr(p) /\ cur'[p] = 0 /\ ip'[p] = ip[p] /\ dp'[p] = cur[p]
    BY <1>1, <2>1 DEF LocalPtr, ProcType, ptrVars
  <2>4. /\ LocalRest(p) /\ LocalArg(p) /\ LocalFile(p) /\ rest'[p] = rest[p] /\ call'[p] = call[p]
        /\ path'[p] = path[p] /\ count'[p] = count[p] /\ cwd'[p] = cwd[p] /\ ofile'[p] = ofile[p]
    BY <1>1, <2>1, KeptRest, KeptArg, KeptFile
  <2>5. Local(p)
    BY <2>2, <2>3, <2>4, LocalParts
  <2>7. Good(p)'
    <3>1. OwnType(p)'
      BY <1>3, <1>5, <1>2, <2>2, <2>3, <2>4, Null DEF OwnType, Stages, Pcs
    <3>2. PtrInv(p)'
      BY <1>3, <1>5, <1>2, <2>2, <2>3, <2>4 DEF PtrInv, HasIp, Where, Rets, IpPcs, DpPcs, WantPcs
    <3>3. OpInv(p)'
      BY <1>3, <1>5, <1>2, <2>2, <2>3, <2>4 DEF OpInv, Where, Rets
    <3>4. PathInv(p)'
      BY <1>3, <1>5, <1>2, <2>2, <2>3, <2>4 DEF PathInv, HasName, Rets
    <3>5. Distinct(p)'
      BY <1>3, <1>5, <1>2, <2>2, <2>3, <2>4 DEF Distinct, HasLockedIp, Truncating, DpPcs, Rets
    <3> QED
      BY <3>1, <3>2, <3>3, <3>4, <3>5 DEF Good
  <2>8. \A x \in Slot : Hold(p, x)' = Hold(p, x)
    <3>1. /\ dp[p] = 0 /\ put[p] = 0 /\ cur'[p] = 0 /\ ip'[p] = ip[p] /\ dp'[p] = cur[p]
          /\ put'[p] = 0 /\ cwd'[p] = cwd[p] /\ ofile'[p] = ofile[p]
      BY <1>3, <1>5, <1>2, <2>2, <2>3, <2>4
    <3>2. \A x \in Slot : x # 0
      BY Null
    <3> QED
      BY <3>1, <3>2 DEF Hold, Is
  <2>9. \A x \in Slot : Locks(p, x)' <=> Locks(p, x) \/ x = ip[p]
    BY <1>3, <1>5, <1>2, <2>2, <2>3, <2>4, Null DEF Locks, HasLockedIp, Truncating, DpPcs, Rets
  <2> QED
    BY <1>2, <2>5, <2>7, <2>8, <2>9, LockRef, <1>4, <2>12, RefFacts
<1>6. CASE cur[p] # 0
  <2>12. cur[p] \in Slot /\ cur[p] # 0 /\ rest[p] \in Seq(Entries) /\ rest[p] # <<>>
    BY <1>1, <1>2, <1>6, Constants DEF Good, PathInv, HasName, OwnType
  <2>13. Ilock(p, cur[p]) /\ itable[cur[p]].inum # 0
    BY <1>6, <2>12, HeldSlot, Constants DEF LinkParent
  <2>1. /\ Goto(p, "link_add") /\ cur' = [cur EXCEPT ![p] = 0] /\ dp' = [dp EXCEPT ![p] = cur[p]]
        /\ UNCHANGED ip
    BY <1>6 DEF LinkParent
  <2>0. /\ ProcType /\ stage[p] = "iput" /\ Goto(p, "link_add")
    BY <1>1, <2>1
  <2>2. /\ LocalCtl(p) /\ LocalRet(p) /\ pc'[p] = "link_add" /\ put'[p] = 0 /\ want'[p] = 0
        /\ stage'[p] = "iput" /\ ret'[p] = ret[p]
    BY <2>0, GotoIs
  <2>3. /\ LocalPtr(p) /\ cur'[p] = 0 /\ ip'[p] = ip[p] /\ dp'[p] = cur[p]
    BY <1>1, <2>1 DEF LocalPtr, ProcType, ptrVars
  <2>4. /\ LocalRest(p) /\ LocalArg(p) /\ LocalFile(p) /\ rest'[p] = rest[p] /\ call'[p] = call[p]
        /\ path'[p] = path[p] /\ count'[p] = count[p] /\ cwd'[p] = cwd[p] /\ ofile'[p] = ofile[p]
    BY <1>1, <2>1, KeptRest, KeptArg, KeptFile
  <2>5. Local(p)
    BY <2>2, <2>3, <2>4, LocalParts
  <2>7. Good(p)'
    <3>1. OwnType(p)'
      BY <1>3, <2>12, <1>2, <2>2, <2>3, <2>4, Null DEF OwnType, Stages, Pcs
    <3>2. PtrInv(p)'
      BY <1>3, <2>12, <1>2, <2>2, <2>3, <2>4 DEF PtrInv, HasIp, Where, Rets, IpPcs, DpPcs, WantPcs
    <3>3. OpInv(p)'
      BY <1>3, <2>12, <1>2, <2>2, <2>3, <2>4 DEF OpInv, Where, Rets
    <3>4. PathInv(p)'
      BY <1>3, <2>12, <1>2, <2>2, <2>3, <2>4 DEF PathInv, HasName, Rets
    <3>5. Distinct(p)'
      BY <1>3, <2>12, <1>2, <2>2, <2>3, <2>4 DEF Distinct, HasLockedIp, Truncating, DpPcs, Rets
    <3> QED
      BY <3>1, <3>2, <3>3, <3>4, <3>5 DEF Good
  <2>8. \A x \in Slot : Hold(p, x)' = Hold(p, x)
    <3>1. /\ dp[p] = 0 /\ put[p] = 0 /\ cur'[p] = 0 /\ ip'[p] = ip[p] /\ dp'[p] = cur[p]
          /\ put'[p] = 0 /\ cwd'[p] = cwd[p] /\ ofile'[p] = ofile[p]
      BY <1>3, <2>12, <1>2, <2>2, <2>3, <2>4
    <3>2. \A x \in Slot : x # 0
      BY Null
    <3> QED
      BY <3>1, <3>2 DEF Hold, Is
  <2>9. \A x \in Slot : Locks(p, x)' <=> Locks(p, x) \/ x = cur[p]
    BY <1>3, <2>12, <1>2, <2>2, <2>3, <2>4, Null DEF Locks, HasLockedIp, Truncating, DpPcs, Rets
  <2> QED
    BY <1>2, <2>5, <2>7, <2>8, <2>9, LockRef, <1>4, <2>12, <2>13, RefFacts
<1> QED
  BY <1>5, <1>6

LEMMA LinkAddRef ==
  ASSUME RefInv, NEW p \in Proc, LinkAdd(p)
  PROVE  RefInv' /\ Local(p)
<1> DEFINE s == dp[p]
           old == entry[Dir(p)][LastName(p)]
           stale == LastName(p) = DotDot /\ Stale(old)
<1>1. /\ panic = "" /\ put[p] = 0 /\ want[p] = 0 /\ pc[p] = "link_add" /\ stage[p] = "iput"
      /\ ProcType /\ DiskType /\ TableType /\ Good(p) /\ UNCHANGED <<call, path, count>>
      /\ UNCHANGED <<cwd, ofile>>
  BY AtIs, RefFacts DEF LinkAdd, procVars
<1>2. /\ panic = "" /\ put[p] = 0 /\ want[p] = 0 /\ pc[p] = "link_add" /\ stage[p] = "iput"
      /\ OwnType(p) /\ OpInv(p) /\ cur[p] = 0 /\ ip[p] # 0 /\ ip[p] \in Slot /\ dp[p] # 0
      /\ dp[p] \in Slot /\ rest[p] \in Seq(Entries) /\ rest[p] # <<>> /\ cwd[p] \in Slot
      /\ ofile[p] \in Pointer
  BY <1>1, Constants DEF Good, PtrInv, PathInv, HasName, OwnType, HasIp, Where, Rets, IpPcs, DpPcs
<1>3. call[p].op = "link"
  BY <1>2 DEF OpInv, Where
<1>4. Locks(p, s) /\ s \in Slot /\ old \in Inum \cup {0} /\ Dir(p) \in Inum /\ LastName(p) \in Entries
  BY <1>2, AtHand DEF Locks, DpPcs
<1>5. itable[ip[p]].inum \in Inum
  BY <1>2, HeldSlot
<1> HIDE DEF old, stale
<1>6. CASE (stale \/ old # 0) /\ ~CanGet(old)
  <2>1. Halt("iget: no inodes") /\ UNCHANGED <<call, path, count, procVars, lost>>
    BY <1>6 DEF LinkAdd, old, stale
  <2> QED
    BY <2>1, HaltIs
<1>9. CASE stale /\ CanGet(old)
  <2>1. /\ Goto(p, "link_exists") /\ UNCHANGED ptrVars /\ UNCHANGED itable /\ UNCHANGED rest
        /\ UNCHANGED <<diskVars, leaked, lost>>
    BY <1>9 DEF LinkAdd, old, stale
  <2>0. /\ ProcType /\ stage[p] = "iput" /\ Goto(p, "link_exists")
    BY <1>1, <2>1
  <2>2. /\ LocalCtl(p) /\ LocalRet(p) /\ pc'[p] = "link_exists" /\ put'[p] = 0 /\ want'[p] = 0
        /\ stage'[p] = "iput" /\ ret'[p] = ret[p]
    BY <2>0, GotoIs
  <2>3. /\ LocalPtr(p) /\ cur'[p] = cur[p] /\ ip'[p] = ip[p] /\ dp'[p] = dp[p]
    BY <1>1, <2>1, KeptPtr
  <2>4. /\ LocalRest(p) /\ LocalArg(p) /\ LocalFile(p) /\ rest'[p] = rest[p] /\ call'[p] = call[p]
        /\ path'[p] = path[p] /\ count'[p] = count[p] /\ cwd'[p] = cwd[p] /\ ofile'[p] = ofile[p]
    BY <1>1, <2>1, KeptRest, KeptArg, KeptFile
  <2>5. Local(p)
    BY <2>2, <2>3, <2>4, LocalParts
  <2>7. Good(p)'
    <3>1. OwnType(p)'
      BY <1>3, <1>2, <2>2, <2>3, <2>4, Null DEF OwnType, Stages, Pcs
    <3>2. PtrInv(p)'
      BY <1>3, <1>2, <2>2, <2>3, <2>4 DEF PtrInv, HasIp, Where, Rets, IpPcs, DpPcs, WantPcs
    <3>3. OpInv(p)'
      BY <1>3, <1>2, <2>2, <2>3, <2>4 DEF OpInv, Where, Rets
    <3>4. PathInv(p)'
      BY <1>3, <1>2, <2>2, <2>3, <2>4 DEF PathInv, HasName, Rets
    <3>5. Distinct(p)'
      BY <1>3, <1>2, <2>2, <2>3, <2>4 DEF Distinct, HasLockedIp, Truncating, DpPcs, Rets
    <3> QED
      BY <3>1, <3>2, <3>3, <3>4, <3>5 DEF Good
  <2>8. \A x \in Slot : Hold(p, x)' = Hold(p, x)
    BY <1>2, <2>2, <2>3, <2>4 DEF Hold, Is
  <2>9. \A x \in Slot : Locks(p, x)' <=> Locks(p, x)
    BY <1>2, <2>2, <2>3, <2>4, Null DEF Locks, HasLockedIp, Truncating, DpPcs, Rets
  <2>10. TableType' /\ itable' = itable /\ DiskType' /\ leaked' = leaked /\ lost' = lost
    BY <1>1, <2>1 DEF TableType, DiskType, diskVars
  <2> QED
    BY <1>2, <2>5, <2>7, <2>8, <2>9, <2>10, StillStep, RefFacts
<1>7. CASE ~stale /\ old # 0 /\ CanGet(old)
  <2>11. itable' = AfterGet(old) /\ UNCHANGED <<diskVars, leaked>> /\ lost' = lost
    BY <1>7 DEF LinkAdd, old, stale
  <2>12. old \in Inum
    BY <1>4, <1>7
  <2>13. GotTable(old, {})
    BY <1>1, <1>7, <2>11, <2>12, GotOnly
  <2>14. Got(old) \in Slot /\ Got(old) # 0
    BY <2>13, Null DEF GotTable
  <2>15. DiskType' /\ leaked' = leaked /\ lost' = lost
    BY <1>1, <2>11 DEF DiskType, diskVars
  <2>1. /\ Then(p, Got(old), 0, "link_exists") /\ UNCHANGED ret /\ UNCHANGED ptrVars
        /\ UNCHANGED rest
    BY <1>7 DEF LinkAdd, old, stale
  <2>0. /\ ProcType /\ stage[p] = "iput" /\ Then(p, Got(old), 0, "link_exists") /\ UNCHANGED ret
    BY <1>1, <2>1
  <2>2. /\ LocalCtl(p) /\ LocalRet(p) /\ pc'[p] = "link_exists" /\ put'[p] = Got(old)
        /\ want'[p] = 0 /\ stage'[p] = "iput" /\ ret'[p] = ret[p]
    BY <2>0, ThenIs, KeptRet
  <2>3. /\ LocalPtr(p) /\ cur'[p] = cur[p] /\ ip'[p] = ip[p] /\ dp'[p] = dp[p]
    BY <1>1, <2>1, KeptPtr
  <2>4. /\ LocalRest(p) /\ LocalArg(p) /\ LocalFile(p) /\ rest'[p] = rest[p] /\ call'[p] = call[p]
        /\ path'[p] = path[p] /\ count'[p] = count[p] /\ cwd'[p] = cwd[p] /\ ofile'[p] = ofile[p]
    BY <1>1, <2>1, KeptRest, KeptArg, KeptFile
  <2>5. Local(p)
    BY <2>2, <2>3, <2>4, LocalParts
  <2>7. Good(p)'
    <3>1. OwnType(p)'
      BY <1>3, <2>14, <1>2, <2>2, <2>3, <2>4, Null DEF OwnType, Stages, Pcs
    <3>2. PtrInv(p)'
      BY <1>3, <2>14, <1>2, <2>2, <2>3, <2>4 DEF PtrInv, HasIp, Where, Rets, IpPcs, DpPcs, WantPcs
    <3>3. OpInv(p)'
      BY <1>3, <2>14, <1>2, <2>2, <2>3, <2>4 DEF OpInv, Where, Rets
    <3>4. PathInv(p)'
      BY <1>3, <2>14, <1>2, <2>2, <2>3, <2>4 DEF PathInv, HasName, Rets
    <3>5. Distinct(p)'
      BY <1>3, <2>14, <1>2, <2>2, <2>3, <2>4 DEF Distinct, HasLockedIp, Truncating, DpPcs, Rets
    <3> QED
      BY <3>1, <3>2, <3>3, <3>4, <3>5 DEF Good
  <2>8. \A x \in Slot : Hold(p, x)' = Hold(p, x) + Is(x, Got(old))
    <3>1. /\ put[p] = 0 /\ cur'[p] = cur[p] /\ ip'[p] = ip[p] /\ dp'[p] = dp[p]
          /\ put'[p] = Got(old) /\ cwd'[p] = cwd[p] /\ ofile'[p] = ofile[p]
      BY <1>3, <2>14, <1>2, <2>2, <2>3, <2>4
    <3>2. \A x \in Slot : x # 0
      BY Null
    <3> QED
      BY <3>1, <3>2 DEF Hold, Is
  <2>9. \A x \in Slot : Locks(p, x)' <=> Locks(p, x)
    BY <1>3, <2>14, <1>2, <2>2, <2>3, <2>4, Null DEF Locks, HasLockedIp, Truncating, DpPcs, Rets
  <2> QED
    BY <1>2, <2>5, <2>7, <2>8, <2>9, GotOne, <2>12, <2>13, <2>15, RefFacts
<1>8. CASE ~stale /\ old = 0
  <2>11. /\ entry' = [entry EXCEPT ![Dir(p)][LastName(p)] = itable[ip[p]].inum] /\ UNCHANGED <<dinode, target>>
         /\ leaked' = leaked /\ lost' = lost /\ itable' = Unlock(itable, s)
    BY <1>8 DEF LinkAdd, old, stale, UnlockPut
  <2>12. DiskType'
    <3>1. entry' \in [Inum -> [Entries -> Inum \cup {0}]]
      BY <1>1, <1>4, <1>5, <2>11, SetEntry
    <3> QED
      BY <1>1, <2>11, <3>1 DEF DiskType
  <2>13. Released(s)
    BY <1>1, <1>4, <2>11, UnlockedTable
  <2>14. leaked' = leaked /\ lost' = lost
    BY <2>11
  <2>1. /\ Then(p, s, 0, "link_put") /\ UNCHANGED ret /\ dp' = [dp EXCEPT ![p] = 0]
        /\ UNCHANGED <<cur, ip>> /\ UNCHANGED rest
    BY <1>8 DEF LinkAdd, old, stale, UnlockPut
  <2>0. /\ ProcType /\ stage[p] = "iput" /\ Then(p, s, 0, "link_put") /\ UNCHANGED ret
    BY <1>1, <2>1
  <2>2. /\ LocalCtl(p) /\ LocalRet(p) /\ pc'[p] = "link_put" /\ put'[p] = s /\ want'[p] = 0
        /\ stage'[p] = "iput" /\ ret'[p] = ret[p]
    BY <2>0, ThenIs, KeptRet
  <2>3. /\ LocalPtr(p) /\ cur'[p] = cur[p] /\ ip'[p] = ip[p] /\ dp'[p] = 0
    BY <1>1, <2>1 DEF LocalPtr, ProcType, ptrVars
  <2>4. /\ LocalRest(p) /\ LocalArg(p) /\ LocalFile(p) /\ rest'[p] = rest[p] /\ call'[p] = call[p]
        /\ path'[p] = path[p] /\ count'[p] = count[p] /\ cwd'[p] = cwd[p] /\ ofile'[p] = ofile[p]
    BY <1>1, <2>1, KeptRest, KeptArg, KeptFile
  <2>5. Local(p)
    BY <2>2, <2>3, <2>4, LocalParts
  <2>7. Good(p)'
    <3>1. OwnType(p)'
      BY <1>3, <1>2, <2>2, <2>3, <2>4, Null DEF OwnType, Stages, Pcs
    <3>2. PtrInv(p)'
      BY <1>3, <1>2, <2>2, <2>3, <2>4 DEF PtrInv, HasIp, Where, Rets, IpPcs, DpPcs, WantPcs
    <3>3. OpInv(p)'
      BY <1>3, <1>2, <2>2, <2>3, <2>4 DEF OpInv, Where, Rets
    <3>4. PathInv(p)'
      BY <1>3, <1>2, <2>2, <2>3, <2>4 DEF PathInv, HasName, Rets
    <3>5. Distinct(p)'
      BY <1>3, <1>2, <2>2, <2>3, <2>4 DEF Distinct, HasLockedIp, Truncating, DpPcs, Rets
    <3> QED
      BY <3>1, <3>2, <3>3, <3>4, <3>5 DEF Good
  <2>8. \A x \in Slot : Hold(p, x)' = Hold(p, x)
    <3>1. /\ put[p] = 0 /\ cur'[p] = cur[p] /\ ip'[p] = ip[p] /\ dp'[p] = 0 /\ put'[p] = s
          /\ cwd'[p] = cwd[p] /\ ofile'[p] = ofile[p]
      BY <1>3, <1>2, <2>2, <2>3, <2>4
    <3>2. \A x \in Slot : x # 0
      BY Null
    <3> QED
      BY <3>1, <3>2 DEF Hold, Is
  <2>9. \A x \in Slot : Locks(p, x)' <=> Locks(p, x) /\ x # s
    BY <1>3, <1>2, <2>2, <2>3, <2>4, Null DEF Locks, HasLockedIp, Truncating, DpPcs, Rets
  <2>10. /\ TableType'
         /\ \A x \in Slot : /\ itable'[x].ref = itable[x].ref /\ itable'[x].inum = itable[x].inum
                            /\ itable'[x].valid = itable[x].valid
                            /\ itable'[x].lock = IF x = s THEN NoOne ELSE itable[x].lock
    BY <2>13 DEF Released
  <2> QED
    BY <1>2, <2>5, <2>7, <2>8, <2>9, <2>10, UnlockRef, <1>4, <2>12, <2>14, RefFacts
<1> QED
  BY <1>6, <1>7, <1>8, <1>9

LEMMA LinkPutRef ==
  ASSUME RefInv, NEW p \in Proc, LinkPut(p)
  PROVE  RefInv' /\ Local(p)
<1>1. /\ panic = "" /\ put[p] = 0 /\ want[p] = 0 /\ pc[p] = "link_put" /\ stage[p] = "iput"
      /\ ProcType /\ DiskType /\ TableType /\ Good(p) /\ UNCHANGED <<call, path, count>>
      /\ UNCHANGED rest /\ UNCHANGED <<cwd, ofile>>
  BY AtIs, RefFacts DEF LinkPut, argVars, procVars
<1>2. /\ panic = "" /\ put[p] = 0 /\ want[p] = 0 /\ pc[p] = "link_put" /\ stage[p] = "iput"
      /\ OwnType(p) /\ OpInv(p) /\ cur[p] = 0 /\ ip[p] # 0 /\ ip[p] \in Slot /\ dp[p] = 0
      /\ cwd[p] \in Slot /\ ofile[p] \in Pointer
  BY <1>1, Constants DEF Good, PtrInv, PathInv, HasName, OwnType, HasIp, Where, Rets, IpPcs, DpPcs
<1>4. DiskType' /\ TableType' /\ leaked' = leaked /\ lost' = lost /\ itable' = itable
  BY <1>1 DEF LinkPut, DiskType, TableType, diskVars, history
<1> QED
  <2>1. /\ Then(p, ip[p], 0, "idle") /\ UNCHANGED ret /\ ip' = [ip EXCEPT ![p] = 0]
        /\ UNCHANGED <<cur, dp>>
    BY DEF LinkPut
  <2>0. /\ ProcType /\ stage[p] = "iput" /\ Then(p, ip[p], 0, "idle") /\ UNCHANGED ret
    BY <1>1, <2>1
  <2>2. /\ LocalCtl(p) /\ LocalRet(p) /\ pc'[p] = "idle" /\ put'[p] = ip[p] /\ want'[p] = 0
        /\ stage'[p] = "iput" /\ ret'[p] = ret[p]
    BY <2>0, ThenIs, KeptRet
  <2>3. /\ LocalPtr(p) /\ cur'[p] = cur[p] /\ ip'[p] = 0 /\ dp'[p] = dp[p]
    BY <1>1, <2>1 DEF LocalPtr, ProcType, ptrVars
  <2>4. /\ LocalRest(p) /\ LocalArg(p) /\ LocalFile(p) /\ rest'[p] = rest[p] /\ call'[p] = call[p]
        /\ path'[p] = path[p] /\ count'[p] = count[p] /\ cwd'[p] = cwd[p] /\ ofile'[p] = ofile[p]
    BY <1>1, <2>1, KeptRest, KeptArg, KeptFile
  <2>5. Local(p)
    BY <2>2, <2>3, <2>4, LocalParts
  <2>7. Good(p)'
    <3>1. OwnType(p)'
      BY <1>2, <2>2, <2>3, <2>4, Null DEF OwnType, Stages, Pcs
    <3>2. PtrInv(p)'
      BY <1>2, <2>2, <2>3, <2>4 DEF PtrInv, HasIp, Where, Rets, IpPcs, DpPcs, WantPcs
    <3>3. OpInv(p)'
      BY <1>2, <2>2, <2>3, <2>4 DEF OpInv, Where, Rets
    <3>4. PathInv(p)'
      BY <1>2, <2>2, <2>3, <2>4 DEF PathInv, HasName, Rets
    <3>5. Distinct(p)'
      BY <1>2, <2>2, <2>3, <2>4 DEF Distinct, HasLockedIp, Truncating, DpPcs, Rets
    <3> QED
      BY <3>1, <3>2, <3>3, <3>4, <3>5 DEF Good
  <2>8. \A x \in Slot : Hold(p, x)' = Hold(p, x)
    <3>1. /\ put[p] = 0 /\ cur'[p] = cur[p] /\ ip'[p] = 0 /\ dp'[p] = dp[p] /\ put'[p] = ip[p]
          /\ cwd'[p] = cwd[p] /\ ofile'[p] = ofile[p]
      BY <1>2, <2>2, <2>3, <2>4
    <3>2. \A x \in Slot : x # 0
      BY Null
    <3> QED
      BY <3>1, <3>2 DEF Hold, Is
  <2>9. \A x \in Slot : Locks(p, x)' <=> Locks(p, x)
    BY <1>2, <2>2, <2>3, <2>4, Null DEF Locks, HasLockedIp, Truncating, DpPcs, Rets
  <2> QED
    BY <1>2, <2>5, <2>7, <2>8, <2>9, StillStep, <1>4, RefFacts

LEMMA LinkExistsRef ==
  ASSUME RefInv, NEW p \in Proc, LinkExists(p)
  PROVE  RefInv' /\ Local(p)
<1>1. /\ panic = "" /\ put[p] = 0 /\ want[p] = 0 /\ pc[p] = "link_exists" /\ stage[p] = "iput"
      /\ ProcType /\ DiskType /\ TableType /\ Good(p) /\ UNCHANGED <<call, path, count>>
      /\ UNCHANGED rest /\ UNCHANGED <<cwd, ofile>>
  BY AtIs, RefFacts DEF LinkExists, argVars, procVars
<1>2. /\ panic = "" /\ put[p] = 0 /\ want[p] = 0 /\ pc[p] = "link_exists" /\ stage[p] = "iput"
      /\ OwnType(p) /\ OpInv(p) /\ cur[p] = 0 /\ ip[p] # 0 /\ ip[p] \in Slot /\ dp[p] # 0
      /\ dp[p] \in Slot /\ cwd[p] \in Slot /\ ofile[p] \in Pointer
  BY <1>1, Constants DEF Good, PtrInv, PathInv, HasName, OwnType, HasIp, Where, Rets, IpPcs, DpPcs
<1>3. call[p].op = "link"
  BY <1>2 DEF OpInv, Where
<1>4. Locks(p, dp[p])
  BY <1>2 DEF Locks, DpPcs
<1>5. DiskType' /\ leaked' = leaked /\ lost' = lost /\ itable' = Unlock(itable, dp[p])
  BY <1>1 DEF LinkExists, DiskType, diskVars, history
<1>6. Released(dp[p])
  BY <1>1, <1>2, <1>5, UnlockedTable
<1>7. DiskType' /\ leaked' = leaked /\ lost' = lost
  BY <1>5
<1> QED
  <2>1. /\ Then(p, dp[p], ip[p], "link_bad") /\ UNCHANGED ret /\ dp' = [dp EXCEPT ![p] = 0]
        /\ UNCHANGED <<cur, ip>>
    BY DEF LinkExists
  <2>0. /\ ProcType /\ stage[p] = "iput" /\ Then(p, dp[p], ip[p], "link_bad") /\ UNCHANGED ret
    BY <1>1, <2>1
  <2>2. /\ LocalCtl(p) /\ LocalRet(p) /\ pc'[p] = "link_bad" /\ put'[p] = dp[p] /\ want'[p] = ip[p]
        /\ stage'[p] = "iput" /\ ret'[p] = ret[p]
    BY <2>0, ThenIs, KeptRet
  <2>3. /\ LocalPtr(p) /\ cur'[p] = cur[p] /\ ip'[p] = ip[p] /\ dp'[p] = 0
    BY <1>1, <2>1 DEF LocalPtr, ProcType, ptrVars
  <2>4. /\ LocalRest(p) /\ LocalArg(p) /\ LocalFile(p) /\ rest'[p] = rest[p] /\ call'[p] = call[p]
        /\ path'[p] = path[p] /\ count'[p] = count[p] /\ cwd'[p] = cwd[p] /\ ofile'[p] = ofile[p]
    BY <1>1, <2>1, KeptRest, KeptArg, KeptFile
  <2>5. Local(p)
    BY <2>2, <2>3, <2>4, LocalParts
  <2>7. Good(p)'
    <3>1. OwnType(p)'
      BY <1>3, <1>2, <2>2, <2>3, <2>4, Null DEF OwnType, Stages, Pcs
    <3>2. PtrInv(p)'
      BY <1>3, <1>2, <2>2, <2>3, <2>4 DEF PtrInv, HasIp, Where, Rets, IpPcs, DpPcs, WantPcs
    <3>3. OpInv(p)'
      BY <1>3, <1>2, <2>2, <2>3, <2>4 DEF OpInv, Where, Rets
    <3>4. PathInv(p)'
      BY <1>3, <1>2, <2>2, <2>3, <2>4 DEF PathInv, HasName, Rets
    <3>5. Distinct(p)'
      BY <1>3, <1>2, <2>2, <2>3, <2>4 DEF Distinct, HasLockedIp, Truncating, DpPcs, Rets
    <3> QED
      BY <3>1, <3>2, <3>3, <3>4, <3>5 DEF Good
  <2>8. \A x \in Slot : Hold(p, x)' = Hold(p, x)
    <3>1. /\ put[p] = 0 /\ cur'[p] = cur[p] /\ ip'[p] = ip[p] /\ dp'[p] = 0 /\ put'[p] = dp[p]
          /\ cwd'[p] = cwd[p] /\ ofile'[p] = ofile[p]
      BY <1>3, <1>2, <2>2, <2>3, <2>4
    <3>2. \A x \in Slot : x # 0
      BY Null
    <3> QED
      BY <3>1, <3>2 DEF Hold, Is
  <2>9. \A x \in Slot : Locks(p, x)' <=> Locks(p, x) /\ x # dp[p]
    BY <1>3, <1>2, <2>2, <2>3, <2>4, Null DEF Locks, HasLockedIp, Truncating, DpPcs, Rets
  <2>10. /\ TableType'
         /\ \A x \in Slot : /\ itable'[x].ref = itable[x].ref /\ itable'[x].inum = itable[x].inum
                            /\ itable'[x].valid = itable[x].valid
                            /\ itable'[x].lock = IF x = dp[p] THEN NoOne ELSE itable[x].lock
    BY <1>6 DEF Released
  <2> QED
    BY <1>2, <2>5, <2>7, <2>8, <2>9, <2>10, UnlockRef, <1>4, <1>7, RefFacts

LEMMA LinkBadRef ==
  ASSUME RefInv, NEW p \in Proc, LinkBad(p)
  PROVE  RefInv' /\ Local(p)
<1>1. /\ panic = "" /\ put[p] = 0 /\ want[p] = 0 /\ pc[p] = "link_bad" /\ stage[p] = "iput"
      /\ ProcType /\ DiskType /\ TableType /\ Good(p) /\ UNCHANGED <<call, path, count>>
      /\ UNCHANGED rest /\ UNCHANGED <<cwd, ofile>>
  BY AtIs, RefFacts DEF LinkBad, argVars, procVars
<1>2. /\ panic = "" /\ put[p] = 0 /\ want[p] = 0 /\ pc[p] = "link_bad" /\ stage[p] = "iput"
      /\ OwnType(p) /\ OpInv(p) /\ cur[p] = 0 /\ ip[p] # 0 /\ ip[p] \in Slot /\ dp[p] = 0
      /\ cwd[p] \in Slot /\ ofile[p] \in Pointer
  BY <1>1, Constants DEF Good, PtrInv, PathInv, HasName, OwnType, HasIp, Where, Rets, IpPcs, DpPcs
<1>3. /\ Then(p, ip[p], 0, "idle") /\ UNCHANGED ret /\ ip' = [ip EXCEPT ![p] = 0] /\ UNCHANGED <<cur, dp>>
      /\ itable' = Unlock(AddLink(itable, ip[p], -1), ip[p]) /\ dinode' = UpdateLink(dinode, ip[p], -1)
      /\ UNCHANGED <<entry, target>> /\ leaked' = leaked /\ lost' = lost
  BY DEF LinkBad, history
<1>4. Released(ip[p])
  <2> DEFINE d == -1
  <2>1. d \in Int
    OBVIOUS
  <2>2. itable' = Unlock(AddLink(itable, ip[p], d), ip[p])
    BY <1>3
  <2> HIDE DEF d
  <2> QED
    BY <1>1, <1>2, <2>1, <2>2, RelinkedTable
<1>5. DiskType'
  <2>1. itable[ip[p]].inum \in Inum
    BY <1>2, HeldSlot
  <2>2. dinode' \in [Inum -> [type : Types, nlink : Int]]
    <3> DEFINE d == -1
    <3>3. d \in Int
      OBVIOUS
    <3>4. dinode' = UpdateLink(dinode, ip[p], d)
      BY <1>3
    <3> HIDE DEF d
    <3> QED
      BY <1>2, <2>1, <3>3, <3>4, RelinkedDisk
  <2> QED
    BY <1>1, <1>3, <2>2 DEF DiskType
<1> QED
  BY <1>1, <1>3, <1>4, <1>5, PutIpRef DEF Released

-----------------------------------------------------------------------------
(* unlink *)

LEMMA UnlinkLookRef ==
  ASSUME RefInv, NEW p \in Proc, UnlinkLook(p)
  PROVE  RefInv' /\ Local(p)
<1> DEFINE i == entry[Dir(p)][LastName(p)]
<1>1. /\ panic = "" /\ put[p] = 0 /\ want[p] = 0 /\ pc[p] = "unlink_look" /\ stage[p] = "iput"
      /\ ProcType /\ DiskType /\ TableType /\ Good(p) /\ UNCHANGED <<call, path, count>>
      /\ UNCHANGED <<cwd, ofile>>
  BY AtIs, RefFacts DEF UnlinkLook, procVars
<1>2. /\ panic = "" /\ put[p] = 0 /\ want[p] = 0 /\ pc[p] = "unlink_look" /\ stage[p] = "iput"
      /\ OwnType(p) /\ OpInv(p) /\ cur[p] = 0 /\ ip[p] = 0 /\ dp[p] # 0 /\ dp[p] \in Slot
      /\ rest[p] \in Seq(Entries) /\ rest[p] # <<>> /\ cwd[p] \in Slot /\ ofile[p] \in Pointer
  BY <1>1, Constants DEF Good, PtrInv, PathInv, HasName, OwnType, HasIp, Where, Rets, IpPcs, DpPcs
<1>3. i \in Inum \cup {0}
  BY <1>2, AtHand
<1> HIDE DEF i
<1>4. CASE LastName(p) = DotDot \/ i = 0
  <2>1. PutDp(p) /\ UNCHANGED <<diskVars, rest, leaked, panic>> /\ lost' = lost
    BY <1>4 DEF UnlinkLook, i
  <2>2. DiskType' /\ UNCHANGED rest /\ leaked' = leaked
    BY <1>1, <2>1 DEF DiskType, diskVars
  <2> QED
    BY <1>1, <2>1, <2>2, PutDpOnly
<1>5. CASE ~(LastName(p) = DotDot \/ i = 0) /\ ~CanGet(i)
  <2>1. Halt("iget: no inodes") /\ UNCHANGED <<call, path, count, procVars, lost>>
    BY <1>5 DEF UnlinkLook, i
  <2> QED
    BY <2>1, HaltIs
<1>6. CASE ~(LastName(p) = DotDot \/ i = 0) /\ CanGet(i)
  <2>11. itable' = AfterGet(i) /\ UNCHANGED <<diskVars, leaked>> /\ lost' = lost
    BY <1>6 DEF UnlinkLook, i
  <2>12. i \in Inum
    BY <1>3, <1>6
  <2>13. GotTable(i, {})
    BY <1>1, <1>6, <2>11, <2>12, GotOnly
  <2>14. Got(i) \in Slot /\ Got(i) # 0
    BY <2>13, Null DEF GotTable
  <2>15. DiskType' /\ leaked' = leaked /\ lost' = lost
    BY <1>1, <2>11 DEF DiskType, diskVars
  <2>1. /\ Then(p, 0, Got(i), "unlink_remove") /\ UNCHANGED ret /\ ip' = [ip EXCEPT ![p] = Got(i)]
        /\ UNCHANGED <<cur, dp>> /\ UNCHANGED rest
    BY <1>6 DEF UnlinkLook, i
  <2>0. /\ ProcType /\ stage[p] = "iput" /\ Then(p, 0, Got(i), "unlink_remove") /\ UNCHANGED ret
    BY <1>1, <2>1
  <2>2. /\ LocalCtl(p) /\ LocalRet(p) /\ pc'[p] = "unlink_remove" /\ put'[p] = 0
        /\ want'[p] = Got(i) /\ stage'[p] = "iput" /\ ret'[p] = ret[p]
    BY <2>0, ThenIs, KeptRet
  <2>3. /\ LocalPtr(p) /\ cur'[p] = cur[p] /\ ip'[p] = Got(i) /\ dp'[p] = dp[p]
    BY <1>1, <2>1 DEF LocalPtr, ProcType, ptrVars
  <2>4. /\ LocalRest(p) /\ LocalArg(p) /\ LocalFile(p) /\ rest'[p] = rest[p] /\ call'[p] = call[p]
        /\ path'[p] = path[p] /\ count'[p] = count[p] /\ cwd'[p] = cwd[p] /\ ofile'[p] = ofile[p]
    BY <1>1, <2>1, KeptRest, KeptArg, KeptFile
  <2>5. Local(p)
    BY <2>2, <2>3, <2>4, LocalParts
  <2>7. Good(p)'
    <3>1. OwnType(p)'
      BY <2>14, <1>2, <2>2, <2>3, <2>4, Null DEF OwnType, Stages, Pcs
    <3>2. PtrInv(p)'
      BY <2>14, <1>2, <2>2, <2>3, <2>4 DEF PtrInv, HasIp, Where, Rets, IpPcs, DpPcs, WantPcs
    <3>3. OpInv(p)'
      BY <2>14, <1>2, <2>2, <2>3, <2>4 DEF OpInv, Where, Rets
    <3>4. PathInv(p)'
      BY <2>14, <1>2, <2>2, <2>3, <2>4 DEF PathInv, HasName, Rets
    <3>5. Distinct(p)'
      BY <2>14, <1>2, <2>2, <2>3, <2>4 DEF Distinct, HasLockedIp, Truncating, DpPcs, Rets
    <3> QED
      BY <3>1, <3>2, <3>3, <3>4, <3>5 DEF Good
  <2>8. \A x \in Slot : Hold(p, x)' = Hold(p, x) + Is(x, Got(i))
    <3>1. /\ ip[p] = 0 /\ put[p] = 0 /\ cur'[p] = cur[p] /\ ip'[p] = Got(i) /\ dp'[p] = dp[p]
          /\ put'[p] = 0 /\ cwd'[p] = cwd[p] /\ ofile'[p] = ofile[p]
      BY <2>14, <1>2, <2>2, <2>3, <2>4
    <3>2. \A x \in Slot : x # 0
      BY Null
    <3> QED
      BY <3>1, <3>2 DEF Hold, Is
  <2>9. \A x \in Slot : Locks(p, x)' <=> Locks(p, x)
    BY <2>14, <1>2, <2>2, <2>3, <2>4, Null DEF Locks, HasLockedIp, Truncating, DpPcs, Rets
  <2> QED
    BY <1>2, <2>5, <2>7, <2>8, <2>9, GotOne, <2>12, <2>13, <2>15, RefFacts
<1> QED
  BY <1>4, <1>5, <1>6

LEMMA UnlinkRemoveRef ==
  ASSUME RefInv, NEW p \in Proc, UnlinkRemove(p)
  PROVE  RefInv' /\ Local(p)
<1> DEFINE less == IF Type(p) = "dir" THEN -1 ELSE 0
           B == Type(p) = "dir" /\ ~IsDirEmpty(itable[ip[p]].inum)
<1>1. /\ panic = "" /\ put[p] = 0 /\ want[p] = 0 /\ pc[p] = "unlink_remove" /\ stage[p] = "iput"
      /\ ProcType /\ DiskType /\ TableType /\ Good(p) /\ UNCHANGED <<call, path, count>>
      /\ UNCHANGED <<cwd, ofile>>
  BY AtIs, RefFacts DEF UnlinkRemove, procVars
<1>2. /\ panic = "" /\ put[p] = 0 /\ want[p] = 0 /\ pc[p] = "unlink_remove" /\ stage[p] = "iput"
      /\ OwnType(p) /\ OpInv(p) /\ cur[p] = 0 /\ ip[p] # 0 /\ ip[p] \in Slot /\ dp[p] # 0
      /\ dp[p] \in Slot /\ rest[p] \in Seq(Entries) /\ rest[p] # <<>> /\ ip[p] # dp[p]
      /\ cwd[p] \in Slot /\ ofile[p] \in Pointer
  BY <1>1, Constants DEF Good, PtrInv, PathInv, HasName, OwnType, HasIp, Where, Rets, IpPcs, DpPcs, Distinct, HasLockedIp
<1>3. Locks(p, dp[p]) /\ Locks(p, ip[p])
  BY <1>2 DEF Locks, DpPcs, HasLockedIp
<1>4. Dir(p) \in Inum /\ LastName(p) \in Entries /\ less \in Int
  <2>1. Dir(p) \in Inum /\ LastName(p) \in Entries
    BY <1>2, AtHand
  <2>2. less \in Int
    OBVIOUS
  <2> QED
    BY <2>1, <2>2
<1> HIDE DEF B, less
<1>5. CASE itable[ip[p]].nlink < 1
  <2>1. Halt("unlink: nlink < 1") /\ UNCHANGED <<call, path, count, procVars, lost>>
    BY <1>5 DEF UnlinkRemove
  <2> QED
    BY <2>1, HaltIs
<1>6. CASE ~(itable[ip[p]].nlink < 1) /\ B
  <2>11. itable' = Unlock(itable, ip[p]) /\ UNCHANGED <<diskVars, leaked>> /\ lost' = lost
    BY <1>6 DEF UnlinkRemove, UnlockPut, B
  <2>12. DiskType' /\ leaked' = leaked /\ lost' = lost
    BY <1>1, <2>11 DEF DiskType, diskVars
  <2>13. Released(ip[p])
    BY <1>1, <1>2, <2>11, UnlockedTable
  <2>1. /\ Then(p, ip[p], 0, "unlink_bad") /\ UNCHANGED ret /\ ip' = [ip EXCEPT ![p] = 0]
        /\ UNCHANGED <<cur, dp>> /\ UNCHANGED rest
    BY <1>6 DEF UnlinkRemove, UnlockPut, B
  <2>0. /\ ProcType /\ stage[p] = "iput" /\ Then(p, ip[p], 0, "unlink_bad") /\ UNCHANGED ret
    BY <1>1, <2>1
  <2>2. /\ LocalCtl(p) /\ LocalRet(p) /\ pc'[p] = "unlink_bad" /\ put'[p] = ip[p] /\ want'[p] = 0
        /\ stage'[p] = "iput" /\ ret'[p] = ret[p]
    BY <2>0, ThenIs, KeptRet
  <2>3. /\ LocalPtr(p) /\ cur'[p] = cur[p] /\ ip'[p] = 0 /\ dp'[p] = dp[p]
    BY <1>1, <2>1 DEF LocalPtr, ProcType, ptrVars
  <2>4. /\ LocalRest(p) /\ LocalArg(p) /\ LocalFile(p) /\ rest'[p] = rest[p] /\ call'[p] = call[p]
        /\ path'[p] = path[p] /\ count'[p] = count[p] /\ cwd'[p] = cwd[p] /\ ofile'[p] = ofile[p]
    BY <1>1, <2>1, KeptRest, KeptArg, KeptFile
  <2>5. Local(p)
    BY <2>2, <2>3, <2>4, LocalParts
  <2>7. Good(p)'
    <3>1. OwnType(p)'
      BY <1>2, <2>2, <2>3, <2>4, Null DEF OwnType, Stages, Pcs
    <3>2. PtrInv(p)'
      BY <1>2, <2>2, <2>3, <2>4 DEF PtrInv, HasIp, Where, Rets, IpPcs, DpPcs, WantPcs
    <3>3. OpInv(p)'
      BY <1>2, <2>2, <2>3, <2>4 DEF OpInv, Where, Rets
    <3>4. PathInv(p)'
      BY <1>2, <2>2, <2>3, <2>4 DEF PathInv, HasName, Rets
    <3>5. Distinct(p)'
      BY <1>2, <2>2, <2>3, <2>4 DEF Distinct, HasLockedIp, Truncating, DpPcs, Rets
    <3> QED
      BY <3>1, <3>2, <3>3, <3>4, <3>5 DEF Good
  <2>8. \A x \in Slot : Hold(p, x)' = Hold(p, x)
    <3>1. /\ put[p] = 0 /\ cur'[p] = cur[p] /\ ip'[p] = 0 /\ dp'[p] = dp[p] /\ put'[p] = ip[p]
          /\ cwd'[p] = cwd[p] /\ ofile'[p] = ofile[p]
      BY <1>2, <2>2, <2>3, <2>4
    <3>2. \A x \in Slot : x # 0
      BY Null
    <3> QED
      BY <3>1, <3>2 DEF Hold, Is
  <2>9. \A x \in Slot : Locks(p, x)' <=> Locks(p, x) /\ x # ip[p]
    BY <1>2, <2>2, <2>3, <2>4, Null DEF Locks, HasLockedIp, Truncating, DpPcs, Rets
  <2>10. /\ TableType'
         /\ \A x \in Slot : /\ itable'[x].ref = itable[x].ref /\ itable'[x].inum = itable[x].inum
                            /\ itable'[x].valid = itable[x].valid
                            /\ itable'[x].lock = IF x = ip[p] THEN NoOne ELSE itable[x].lock
    BY <2>13 DEF Released
  <2> QED
    BY <1>2, <2>5, <2>7, <2>8, <2>9, <2>10, UnlockRef, <1>3, <2>12, RefFacts
<1>7. CASE ~(itable[ip[p]].nlink < 1) /\ ~B
  <2>11. /\ entry' = [entry EXCEPT ![Dir(p)][LastName(p)] = 0] /\ UNCHANGED target /\ leaked' = leaked /\ lost' = lost
         /\ itable' = Unlock(AddLink(itable, dp[p], less), dp[p]) /\ dinode' = UpdateLink(dinode, dp[p], less)
    BY <1>7 DEF UnlinkRemove, B, less
  <2>12. DiskType'
    <3>1. entry' \in [Inum -> [Entries -> Inum \cup {0}]]
      BY <1>1, <1>4, <2>11, SetEntry
    <3>2. dinode' \in [Inum -> [type : Types, nlink : Int]]
      BY <1>2, <1>4, <2>11, RelinkedDisk DEF Dir
    <3> QED
      BY <1>1, <2>11, <3>1, <3>2 DEF DiskType
  <2>13. Released(dp[p])
    BY <1>1, <1>2, <1>4, <2>11, RelinkedTable
  <2>14. leaked' = leaked /\ lost' = lost
    BY <2>11
  <2>1. /\ Then(p, dp[p], 0, "unlink_dec") /\ UNCHANGED ret /\ dp' = [dp EXCEPT ![p] = 0]
        /\ UNCHANGED <<cur, ip>> /\ UNCHANGED rest
    BY <1>7 DEF UnlinkRemove, B, less
  <2>0. /\ ProcType /\ stage[p] = "iput" /\ Then(p, dp[p], 0, "unlink_dec") /\ UNCHANGED ret
    BY <1>1, <2>1
  <2>2. /\ LocalCtl(p) /\ LocalRet(p) /\ pc'[p] = "unlink_dec" /\ put'[p] = dp[p] /\ want'[p] = 0
        /\ stage'[p] = "iput" /\ ret'[p] = ret[p]
    BY <2>0, ThenIs, KeptRet
  <2>3. /\ LocalPtr(p) /\ cur'[p] = cur[p] /\ ip'[p] = ip[p] /\ dp'[p] = 0
    BY <1>1, <2>1 DEF LocalPtr, ProcType, ptrVars
  <2>4. /\ LocalRest(p) /\ LocalArg(p) /\ LocalFile(p) /\ rest'[p] = rest[p] /\ call'[p] = call[p]
        /\ path'[p] = path[p] /\ count'[p] = count[p] /\ cwd'[p] = cwd[p] /\ ofile'[p] = ofile[p]
    BY <1>1, <2>1, KeptRest, KeptArg, KeptFile
  <2>5. Local(p)
    BY <2>2, <2>3, <2>4, LocalParts
  <2>7. Good(p)'
    <3>1. OwnType(p)'
      BY <1>2, <2>2, <2>3, <2>4, Null DEF OwnType, Stages, Pcs
    <3>2. PtrInv(p)'
      BY <1>2, <2>2, <2>3, <2>4 DEF PtrInv, HasIp, Where, Rets, IpPcs, DpPcs, WantPcs
    <3>3. OpInv(p)'
      BY <1>2, <2>2, <2>3, <2>4 DEF OpInv, Where, Rets
    <3>4. PathInv(p)'
      BY <1>2, <2>2, <2>3, <2>4 DEF PathInv, HasName, Rets
    <3>5. Distinct(p)'
      BY <1>2, <2>2, <2>3, <2>4 DEF Distinct, HasLockedIp, Truncating, DpPcs, Rets
    <3> QED
      BY <3>1, <3>2, <3>3, <3>4, <3>5 DEF Good
  <2>8. \A x \in Slot : Hold(p, x)' = Hold(p, x)
    <3>1. /\ put[p] = 0 /\ cur'[p] = cur[p] /\ ip'[p] = ip[p] /\ dp'[p] = 0 /\ put'[p] = dp[p]
          /\ cwd'[p] = cwd[p] /\ ofile'[p] = ofile[p]
      BY <1>2, <2>2, <2>3, <2>4
    <3>2. \A x \in Slot : x # 0
      BY Null
    <3> QED
      BY <3>1, <3>2 DEF Hold, Is
  <2>9. \A x \in Slot : Locks(p, x)' <=> Locks(p, x) /\ x # dp[p]
    BY <1>2, <2>2, <2>3, <2>4, Null DEF Locks, HasLockedIp, Truncating, DpPcs, Rets
  <2>10. /\ TableType'
         /\ \A x \in Slot : /\ itable'[x].ref = itable[x].ref /\ itable'[x].inum = itable[x].inum
                            /\ itable'[x].valid = itable[x].valid
                            /\ itable'[x].lock = IF x = dp[p] THEN NoOne ELSE itable[x].lock
    BY <2>13 DEF Released
  <2> QED
    BY <1>2, <2>5, <2>7, <2>8, <2>9, <2>10, UnlockRef, <1>3, <2>12, <2>14, RefFacts
<1> QED
  BY <1>5, <1>6, <1>7

LEMMA UnlinkBadRef ==
  ASSUME RefInv, NEW p \in Proc, UnlinkBad(p)
  PROVE  RefInv' /\ Local(p)
<1>1. put[p] = 0 /\ want[p] = 0 /\ pc[p] = "unlink_bad" /\ DiskType
  BY RefFacts DEF UnlinkBad, At
<1>2. /\ PutDp(p) /\ UNCHANGED <<call, path, count>> /\ UNCHANGED rest /\ UNCHANGED <<cwd, ofile>>
      /\ leaked' = leaked /\ lost' = lost /\ UNCHANGED diskVars
  BY DEF UnlinkBad, argVars, procVars, history
<1>3. DiskType'
  BY <1>1, <1>2 DEF DiskType, diskVars
<1> QED
  BY <1>1, <1>2, <1>3, PutDpOnly

LEMMA UnlinkDecRef ==
  ASSUME RefInv, NEW p \in Proc, UnlinkDec(p)
  PROVE  RefInv' /\ Local(p)
<1>1. /\ panic = "" /\ put[p] = 0 /\ want[p] = 0 /\ pc[p] = "unlink_dec" /\ stage[p] = "iput"
      /\ ProcType /\ DiskType /\ TableType /\ Good(p) /\ UNCHANGED <<call, path, count>>
      /\ UNCHANGED rest /\ UNCHANGED <<cwd, ofile>>
  BY AtIs, RefFacts DEF UnlinkDec, argVars, procVars
<1>2. /\ panic = "" /\ put[p] = 0 /\ want[p] = 0 /\ pc[p] = "unlink_dec" /\ stage[p] = "iput"
      /\ OwnType(p) /\ OpInv(p) /\ cur[p] = 0 /\ ip[p] # 0 /\ ip[p] \in Slot /\ dp[p] = 0
      /\ cwd[p] \in Slot /\ ofile[p] \in Pointer
  BY <1>1, Constants DEF Good, PtrInv, PathInv, HasName, OwnType, HasIp, Where, Rets, IpPcs, DpPcs
<1>3. /\ Then(p, ip[p], 0, "idle") /\ UNCHANGED ret /\ ip' = [ip EXCEPT ![p] = 0] /\ UNCHANGED <<cur, dp>>
      /\ itable' = Unlock(AddLink(itable, ip[p], -1), ip[p]) /\ dinode' = UpdateLink(dinode, ip[p], -1)
      /\ UNCHANGED <<entry, target>> /\ leaked' = leaked /\ lost' = lost
  BY DEF UnlinkDec, history
<1>4. Released(ip[p])
  <2> DEFINE d == -1
  <2>1. d \in Int
    OBVIOUS
  <2>2. itable' = Unlock(AddLink(itable, ip[p], d), ip[p])
    BY <1>3
  <2> HIDE DEF d
  <2> QED
    BY <1>1, <1>2, <2>1, <2>2, RelinkedTable
<1>5. DiskType'
  <2>1. itable[ip[p]].inum \in Inum
    BY <1>2, HeldSlot
  <2>2. dinode' \in [Inum -> [type : Types, nlink : Int]]
    <3> DEFINE d == -1
    <3>3. d \in Int
      OBVIOUS
    <3>4. dinode' = UpdateLink(dinode, ip[p], d)
      BY <1>3
    <3> HIDE DEF d
    <3> QED
      BY <1>2, <2>1, <3>3, <3>4, RelinkedDisk
  <2> QED
    BY <1>1, <1>3, <2>2 DEF DiskType
<1> QED
  BY <1>1, <1>3, <1>4, <1>5, PutIpRef DEF Released

-----------------------------------------------------------------------------
(* The first states, and every step *)

LEMMA LinksFinite ==
  ASSUME NEW e, NEW t, NEW i
  PROVE  /\ IsFiniteSet(NamesOf(e, i)) /\ Cardinality(NamesOf(e, i)) \in Nat
         /\ IsFiniteSet(Subdirs(e, t, i)) /\ Cardinality(Subdirs(e, t, i)) \in Nat
         /\ Links(e, t, i) \in Nat
<1>1. IsFiniteSet(Inum \X Name) /\ NamesOf(e, i) \subseteq Inum \X Name
  BY Finite, FS_Product DEF NamesOf
<1>2. IsFiniteSet(NamesOf(e, i)) /\ Cardinality(NamesOf(e, i)) \in Nat
  BY <1>1, FS_Subset, FS_CardinalityType
<1>3. IsFiniteSet(Subdirs(e, t, i)) /\ Cardinality(Subdirs(e, t, i)) \in Nat
  BY Finite, FS_Subset, FS_CardinalityType DEF Subdirs
<1> QED
  BY <1>2, <1>3 DEF Links

LEMMA InitRef ==
  ASSUME Init
  PROVE  RefInv
<1>1. PICK tree \in Trees :
        /\ entry = tree.entry
        /\ target = tree.target
        /\ dinode = [i \in Inum |-> [type |-> tree.type[i],
                       nlink |-> IF tree.type[i] = "none" THEN 0 ELSE Links(tree.entry, tree.type, i)]]
  BY DEF Init
<1>2. IsTree(tree)
  BY TreeAssumption
<1>3. DiskType
  <2>1. entry \in [Inum -> [Entries -> Inum \cup {0}]] /\ target \in [Inum -> Paths]
    BY <1>1, <1>2 DEF IsTree
  <2>2. tree.type \in [Inum -> Types]
    BY <1>2 DEF IsTree
  <2> DEFINE d(i) == [type |-> tree.type[i],
                      nlink |-> IF tree.type[i] = "none" THEN 0 ELSE Links(tree.entry, tree.type, i)]
  <2>3. \A i \in Inum : d(i) \in [type : Types, nlink : Int]
    BY <2>2, LinksFinite
  <2>4. dinode = [i \in Inum |-> d(i)]
    BY <1>1
  <2> HIDE DEF d
  <2>5. dinode \in [Inum -> [type : Types, nlink : Int]]
    BY <2>3, <2>4
  <2> QED
    BY <2>1, <2>5 DEF DiskType
<1>4. IsFiniteSet(Proc) /\ Cardinality(Proc) \in Nat /\ 1 \in Slot /\ 1 \in Inum
  BY Finite, FS_CardinalityType, TreeAssumption DEF Slot, Inum
<1>5. /\ itable = [s \in Slot |-> [inum |-> IF s = 1 THEN ROOTINO ELSE 0, valid |-> FALSE, lock |-> NoOne,
                                 ref |-> IF s = 1 THEN Cardinality(Proc) ELSE 0,
                                 type |-> "none", nlink |-> 0]]
      /\ pc = [p \in Proc |-> "idle"] /\ ret = [p \in Proc |-> "idle"]
      /\ put = [p \in Proc |-> 0] /\ stage = [p \in Proc |-> "iput"] /\ want = [p \in Proc |-> 0]
      /\ cur = [p \in Proc |-> 0] /\ ip = [p \in Proc |-> 0] /\ dp = [p \in Proc |-> 0]
      /\ call = [p \in Proc |-> [op |-> "none"]]
      /\ path = [p \in Proc |-> <<>>] /\ rest = [p \in Proc |-> <<>>] /\ count = [p \in Proc |-> 0]
      /\ cwd = [p \in Proc |-> 1] /\ ofile = [p \in Proc |-> 0]
      /\ leaked = [s \in Slot |-> 0] /\ lost = {}
  BY DEF Init
<1>6. TableType
  BY <1>4, <1>5 DEF TableType, Inode, Types, ROOTINO
<1>7. ProcType
  <2>1. 0 \in Pointer /\ <<>> \in Paths /\ [op |-> "none"] \in Call
    BY Constants, EmptyEntry DEF Call
  <2>2. "idle" \in Pcs /\ "iput" \in Stages
    BY DEF Pcs, Stages
  <2> QED
    BY <1>4, <1>5, <2>1, <2>2 DEF ProcType
<1>8. TypeOK
  BY <1>3, <1>5, <1>6, <1>7, TypeParts
<1>9. \A s \in Slot : itable[s].ref = leaked[s] + References(s)
  <2> DEFINE All(s) == {r \in Proc \X Pointers : Deref(r[1], r[2]) = s}
  <2>1. \A p \in Proc : /\ Deref(p, "cur") = 0 /\ Deref(p, "ip") = 0 /\ Deref(p, "dp") = 0
                        /\ Deref(p, "put") = 0 /\ Deref(p, "ofile") = 0 /\ Deref(p, "cwd") = 1
    BY <1>5 DEF Deref
  <2>2. \A p \in Proc, x \in Pointers : Deref(p, x) = IF x = "cwd" THEN 1 ELSE 0
    BY <2>1 DEF Pointers
  <2>3. \A s \in Slot : s # 0
    BY Constants
  <2>4. \A s \in Slot : s # 1 => All(s) = {}
    BY <2>2, <2>3
  <2>5. All(1) = Proc \X {"cwd"}
    BY <2>2 DEF Pointers
  <2>6. Cardinality(Proc \X {"cwd"}) = Cardinality(Proc)
    <3>1. IsFiniteSet({"cwd"}) /\ Cardinality({"cwd"}) = 1
      BY FS_Singleton
    <3>2. Cardinality(Proc \X {"cwd"}) = Cardinality(Proc) * Cardinality({"cwd"})
      BY <1>4, <3>1, FS_Product
    <3> QED
      BY <1>4, <3>1, <3>2
  <2>7. \A s \in Slot : References(s) = IF s = 1 THEN Cardinality(Proc) ELSE 0
    <3>1. \A s : References(s) = Cardinality(All(s))
      BY DEF References
    <3> HIDE DEF All
    <3> QED
      BY <2>4, <2>5, <2>6, <3>1, FS_EmptySet
  <2>8. \A s \in Slot : itable[s].ref = (IF s = 1 THEN Cardinality(Proc) ELSE 0) /\ leaked[s] = 0
    BY <1>5
  <2> QED
    BY <1>4, <2>7, <2>8
<1>10. \A p \in Proc : /\ pc[p] = "idle" /\ put[p] = 0 /\ want[p] = 0 /\ stage[p] = "iput"
                       /\ cur[p] = 0 /\ ip[p] = 0 /\ dp[p] = 0
  BY <1>5
<1>11. \A p \in Proc : ProcInv(p)
  <2> SUFFICES ASSUME NEW p \in Proc PROVE ProcInv(p)
    OBVIOUS
  <2>1. PtrInv(p)
    BY <1>10 DEF PtrInv, HasIp, Where, IpPcs, DpPcs
  <2>2. OpInv(p) /\ PathInv(p) /\ Distinct(p)
    BY <1>10 DEF OpInv, PathInv, Distinct, Where, HasName, HasLockedIp, Truncating
  <2> QED
    BY <2>1, <2>2 DEF ProcInv
<1>12. InumInv
  BY <1>5 DEF InumInv, ROOTINO
<1>13. LockInv
  <2>1. \A p \in Proc, s \in Slot : ~Locks(p, s)
    BY <1>10 DEF Locks, HasLockedIp, DpPcs, Truncating
  <2>2. \A s \in Slot : itable[s].lock = NoOne
    BY <1>5
  <2> QED
    BY <2>1, <2>2, Constants DEF LockInv
<1>14. ValidInv
  BY <1>5 DEF ValidInv
<1> QED
  BY <1>8, <1>9, <1>11, <1>12, <1>13, <1>14 DEF RefInv, RefsExact

LEMMA WorkRef ==
  ASSUME RefInv, NEW p \in Proc, Begin(p) \/ Work(p)
  PROVE  RefInv' /\ Local(p)
<1>1. CASE Begin(p)
  BY <1>1, BeginRef
<1>2. CASE LockStep(p) \/ Iput(p) \/ IputTrunc(p) \/ IputInvalid(p) \/ IputDrop(p)
  BY <1>2, LockStepRef, IputRef, IputTruncRef, IputInvalidRef, IputDropRef
<1>3. CASE Namei(p) \/ Look(p)
  BY <1>3, NameiRef, LookRef
<1>4. CASE Create(p) \/ CreateLook(p) \/ CreateOld(p) \/ CreateNew(p) \/ Created(p)
  BY <1>4, CreateRef, CreateLookRef, CreateOldRef, CreateNewRef, CreatedRef
<1>5. CASE Open(p) \/ OpenCheck(p) \/ OpenFile(p) \/ ReadlinkFound(p) \/ ReadlinkRead(p)
  BY <1>5, OpenRef, OpenCheckRef, OpenFileRef, ReadlinkFoundRef, ReadlinkReadRef
<1>6. CASE Chdir(p) \/ ChdirAgain(p) \/ ChdirLock(p) \/ ChdirCheck(p)
  BY <1>6, ChdirRef, ChdirAgainRef, ChdirLockRef, ChdirCheckRef
<1>7. CASE Link(p) \/ LinkInc(p) \/ LinkParent(p) \/ LinkAdd(p) \/ LinkPut(p) \/ LinkExists(p) \/ LinkBad(p)
  BY <1>7, LinkRef, LinkIncRef, LinkParentRef, LinkAddRef, LinkPutRef, LinkExistsRef, LinkBadRef
<1>8. CASE Unlink(p) \/ UnlinkLook(p) \/ UnlinkRemove(p) \/ UnlinkBad(p) \/ UnlinkDec(p)
  BY <1>8, UnlinkRef, UnlinkLookRef, UnlinkRemoveRef, UnlinkBadRef, UnlinkDecRef
<1> QED
  BY <1>1, <1>2, <1>3, <1>4, <1>5, <1>6, <1>7, <1>8 DEF Work

LEMMA RefNext ==
  ASSUME RefInv, [Next]_vars
  PROVE  RefInv'
<1>1. CASE UNCHANGED vars
  <2>1. /\ UNCHANGED <<dinode, entry, target, itable, pc, ret, put, stage, want, cur, ip, dp>>
        /\ UNCHANGED <<call, path, rest, count, cwd, ofile, leaked, lost>>
    BY <1>1 DEF vars, diskVars, ctlVars, ptrVars, argVars, procVars, history
  <2>2. TypeOK' /\ \A s \in Slot : itable'[s].ref = leaked'[s] + References(s)'
    <3>1. TypeOK'
      BY <2>1 DEF RefInv, RefsExact, TypeOK
    <3>2. \A s \in Slot : References(s)' = References(s)
      BY <2>1 DEF References, Deref
    <3> QED
      BY <2>1, <3>1, <3>2 DEF RefInv, RefsExact
  <2>3. \A q \in Proc : Same(q)
    BY <2>1 DEF Same
  <2>4. \A q \in Proc : ProcInv(q)'
    BY <2>3, SameInv DEF RefInv
  <2>5. LockInv'
    BY <2>1, <2>3, SameInv DEF RefInv, LockInv
  <2> QED
    BY <2>1, <2>2, <2>4, <2>5 DEF RefInv, RefsExact, InumInv, ValidInv
<1>2. CASE \E p \in Proc : Begin(p) \/ Work(p)
  BY <1>2, WorkRef
<1> QED
  BY <1>1, <1>2 DEF Next, Stop

\* The references, the pointers of every process and the locks it holds: the
\* inductive invariant of every path and every failure of the calls.
THEOREM RefInvariance == Spec => []RefInv
<1>1. Init => RefInv
  BY InitRef
<1>2. RefInv /\ [Next]_vars => RefInv'
  BY RefNext
<1> QED
  BY <1>1, <1>2, PTL DEF Spec

\* Every variable has its type, and ip->ref counts the pointers to a slot
\* exactly, through iget, idup, iput, namex and every call (fs.c, sysfile.c).
THEOREM ReferencesAreExact == Spec => []RefsExact
<1>1. RefInv => RefsExact
  BY DEF RefInv
<1> QED
  BY <1>1, RefInvariance, PTL

\* The comment in iput: "ip->ref == 1 means no other process can have ip
\* locked, so this acquiresleep() won't block (or deadlock)."
LastRefUnlocked ==
    \A p \in Proc : put[p] # 0 /\ stage[p] = "iput" /\ LastRef(put[p]) => itable[put[p]].lock = NoOne

\* One more pointer than that of put would make two references.
LEMMA OneHolder ==
  ASSUME RefInv, NEW p \in Proc, NEW s \in Slot, itable[s].ref = 1, Hold(p, s) > 0
  PROVE  /\ Hold(p, s) = 1 /\ leaked[s] = 0
         /\ \A q \in Proc : q # p => Hold(q, s) = 0
<1>1. itable[s].ref = leaked[s] + References(s) /\ leaked[s] \in Nat
  BY DEF RefInv, RefsExact, TypeOK
<1>2. References(s) = Cardinality(ElseRefs(p, s)) + Hold(p, s) /\ Cardinality(ElseRefs(p, s)) \in Nat /\ Hold(p, s) \in Nat
  BY RefsSplit, HoldType
<1>3. Hold(p, s) = 1 /\ leaked[s] = 0 /\ Cardinality(ElseRefs(p, s)) = 0
  BY <1>1, <1>2
<1>4. ElseRefs(p, s) = {}
  BY <1>3, RefsSplit, FS_EmptySet
<1>5. ASSUME NEW q \in Proc, q # p PROVE Hold(q, s) = 0
  <2>1. ASSUME NEW x \in Pointers PROVE Deref(q, x) # s
    <3>1. Deref(q, x) = s => <<q, x>> \in ElseRefs(p, s)
      BY <1>5 DEF ElseRefs
    <3> QED
      BY <1>4, <3>1
  <2>2. cur[q] # s /\ ip[q] # s /\ dp[q] # s /\ put[q] # s /\ cwd[q] # s /\ ofile[q] # s
    BY <2>1 DEF Pointers, Deref
  <2> QED
    BY <2>2 DEF Hold, Is
<1> QED
  BY <1>3, <1>5

\* iput never waits for the sleep lock of an inode whose last reference it has.
THEOREM LastRefIsUnlocked == Spec => []LastRefUnlocked
<1>1. RefInv => LastRefUnlocked
  <2> SUFFICES ASSUME RefInv, NEW p \in Proc, put[p] # 0, stage[p] = "iput", LastRef(put[p]),
                      itable[put[p]].lock # NoOne
               PROVE  FALSE
    BY DEF LastRefUnlocked
  <2> DEFINE s == put[p]
  <2>1. s \in Slot
    BY RefFacts, Constants DEF Good, OwnType
  <2>2. PICK q \in Proc : itable[s].lock = q
    BY <2>1, RefFacts
  <2>3. Locks(q, s) /\ Hold(q, s) > 0
    BY <2>1, <2>2, LockedSlot, HeldSlot
  <2>4. itable[s].ref = 1 /\ Hold(p, s) > 0
    BY <2>1, HeldSlot DEF LastRef
  <2>5. q = p /\ Hold(p, s) = 1
    BY <2>1, <2>3, <2>4, OneHolder
  <2>6. Hold(p, s) >= 2
    <3>1. cur[p] = s \/ ip[p] = s \/ dp[p] = s
      BY <2>3, <2>5 DEF Locks, Truncating
    <3> QED
      BY <3>1 DEF Hold, Is
  <2> QED
    BY <2>5, <2>6
<1> QED
  BY <1>1, RefInvariance, PTL

-----------------------------------------------------------------------------
(* What a name leads to is alive *)

LEMMA TreeFacts ==
  ASSUME TreeInv
  PROVE  /\ LiveInv /\ SlotInv /\ FreeInv /\ LinksExact /\ PanicsAreKnown
         /\ \A p \in Proc : TruncInv(p) /\ FreshInv(p) /\ EntryInv(p) /\ LinkInv(p)
  BY DEF TreeInv, OwnInv

LEMMA FlightFinite ==
  \A i : IsFiniteSet(InFlight(i)) /\ Cardinality(InFlight(i)) \in Nat
<1> TAKE i
<1>1. IsFiniteSet(InFlight(i))
  BY Finite, FS_Subset DEF InFlight
<1> QED
  BY <1>1, FS_CardinalityType

LEMMA ReachLive ==
  ASSUME RefInv, TreeInv, NEW i \in Inum, Reach(i)
  PROVE  Live(i) /\ dinode[i].nlink >= 1
<1>1. Links(entry, TypeOf, i) >= 1 /\ Links(entry, TypeOf, i) \in Nat
  <2>1. /\ IsFiniteSet(NamesOf(entry, i)) /\ Cardinality(NamesOf(entry, i)) \in Nat
        /\ Cardinality(Subdirs(entry, TypeOf, i)) \in Nat /\ Links(entry, TypeOf, i) \in Nat
    BY LinksFinite
  <2>2. CASE i = ROOTINO
    BY <2>1, <2>2 DEF Links
  <2>3. CASE \E d \in Inum, n \in Name : entry[d][n] = i
    <3>1. PICK d \in Inum, n \in Name : entry[d][n] = i
      BY <2>3
    <3>2. <<d, n>> \in NamesOf(entry, i)
      BY <3>1 DEF NamesOf
    <3>3. Cardinality(NamesOf(entry, i)) # 0
      BY <2>1, <3>2, FS_EmptySet
    <3> QED
      BY <2>1, <3>3 DEF Links
  <2> QED
    BY <2>2, <2>3 DEF Reach
<1>2. Cardinality(InFlight(i)) \in Nat
  BY FlightFinite
<1>3. dinode[i].nlink \in Int
  BY RefFacts DEF DiskType
<1>4. \/ dinode[i].nlink > Links(entry, TypeOf, i) + Cardinality(InFlight(i))
      \/ dinode[i].nlink = Links(entry, TypeOf, i) + Cardinality(InFlight(i))
  BY TreeFacts DEF LinksExact, TypeOf
<1>5. dinode[i].nlink >= 1
  BY <1>1, <1>2, <1>3, <1>4
<1>6. Live(i)
  BY <1>3, <1>5, TreeFacts DEF FreeInv
<1> QED
  BY <1>5, <1>6

\* Two slots in use have different inodes.
LEMMA OneSlot ==
  ASSUME RefInv, TreeInv, NEW s \in Slot, NEW t \in Slot, itable[s].ref > 0, itable[t].ref > 0,
         itable[s].inum = itable[t].inum
  PROVE  s = t
  BY TreeFacts DEF SlotInv

\* What a process has locked and does not free is as on disk.
LEMMA LockedOnDisk ==
  ASSUME RefInv, TreeInv, NEW p \in Proc, NEW s \in Slot, Locks(p, s), ~Freeing(p, s)
  PROVE  /\ OnDisk(s) /\ itable[s].valid /\ itable[s].ref > 0 /\ itable[s].inum \in Inum
         /\ itable[s].lock = p
<1>1. itable[s].lock = p /\ itable[s].ref > 0 /\ itable[s].inum \in Inum
  BY LockedSlot, HeldSlot
<1>2. itable[s].valid
  BY <1>1, LockedSlot, Constants
<1>3. \A q \in Proc : ~Freeing(q, s)
  <2> SUFFICES ASSUME NEW q \in Proc, Freeing(q, s) PROVE FALSE
    OBVIOUS
  <2>1. Locks(q, s)
    BY Constants DEF Freeing, Locks, Truncating
  <2>2. itable[s].lock = q
    BY <2>1, LockedSlot
  <2> QED
    BY <1>1, <2>2
<1> QED
  BY <1>1, <1>2, <1>3, TreeFacts DEF SlotInv

\* What a name leads to nobody is freeing or making.
LEMMA ReachSteady ==
  ASSUME RefInv, TreeInv, NEW i \in Inum, Reach(i)
  PROVE  ~Stale(i)
<1>1. Live(i) /\ dinode[i].nlink >= 1
  BY ReachLive
<1>2. ASSUME NEW q \in Proc, put[q] # 0, stage[q] = "iput_trunc", itable[put[q]].inum = i
      PROVE  FALSE
  <2>1. put[q] \in Slot /\ LastRef(put[q])
    BY <1>2, TreeFacts, RefFacts, Constants DEF TruncInv, Good, OwnType
  <2>2. Locks(q, put[q]) /\ ~Freeing(q, put[q])
    BY <1>2 DEF Locks, Truncating, Freeing
  <2>3. OnDisk(put[q])
    BY <2>1, <2>2, LockedOnDisk
  <2> QED
    BY <1>1, <1>2, <2>1, <2>3 DEF OnDisk, LastRef
<1>3. ASSUME NEW q \in Proc, pc[q] = "create_new", itable[ip[q]].inum = i
      PROVE  FALSE
  <2>1. dinode[itable[ip[q]].inum].nlink = 0
    BY <1>3, TreeFacts DEF FreshInv
  <2> QED
    BY <1>1, <1>3, <2>1
<1>4. i \in {j \in Inum : dinode[j].type # "none"}
  BY <1>1 DEF Live
<1> QED
  BY <1>2, <1>3, <1>4 DEF Stale

\* Where a process points, there is a slot in use with an inode that lives.
LEMMA PointedSlot ==
  ASSUME RefInv, NEW p \in Proc, NEW x \in Pointers, NEW s \in Slot, Points(p, x, s)
  PROVE  /\ Hold(p, s) > 0 /\ itable[s].ref > 0 /\ itable[s].inum \in Inum
         /\ TreeInv => Live(itable[s].inum)
<1>1. Deref(p, x) = s
  BY DEF Points
<1>2. s \in {cur[p], ip[p], dp[p], put[p], cwd[p], ofile[p]}
  BY <1>1 DEF Pointers, Deref
<1>3. Hold(p, s) > 0 /\ itable[s].ref > 0 /\ itable[s].inum \in Inum
  BY <1>2, HeldSlot
<1>4. TreeInv => Live(itable[s].inum)
  BY TreeFacts DEF LiveInv
<1> QED
  BY <1>3, <1>4

LEMMA HoldPoints ==
  ASSUME NEW p, NEW s, s # 0, Hold(p, s) > 0, stage[p] \notin {"iput_invalid", "iput_drop"}
  PROVE  \E x \in Pointers : Points(p, x, s)
<1>1. s \in {cur[p], ip[p], dp[p], put[p], cwd[p], ofile[p]}
  BY DEF Hold, Is
<1>2. \E x \in Pointers : Deref(p, x) = s
  BY <1>1 DEF Pointers, Deref
<1> QED
  BY <1>2 DEF Points

-----------------------------------------------------------------------------
(* What a step of p does to the slots and inodes that others use *)

LEMMA RefsMove ==
  ASSUME RefInv, RefInv', NEW p \in Proc, Local(p), NEW s \in Slot
  PROVE  /\ itable'[s].ref + leaked[s] + Hold(p, s) = itable[s].ref + leaked'[s] + Hold(p, s)'
         /\ itable[s].ref \in Nat /\ itable'[s].ref \in Nat /\ leaked[s] \in Nat /\ leaked'[s] \in Nat
         /\ Hold(p, s) \in Nat /\ Hold(p, s)' \in Nat
         /\ itable[s].ref >= Hold(p, s) + leaked[s]
<1>1. itable[s].ref = leaked[s] + References(s) /\ itable'[s].ref = leaked'[s] + References(s)'
  BY DEF RefInv, RefsExact
<1>2. itable[s].ref \in Nat /\ itable'[s].ref \in Nat /\ leaked[s] \in Nat /\ leaked'[s] \in Nat
  BY DEF RefInv, RefsExact, TypeOK
<1>3. References(s)' = References(s) - Hold(p, s) + Hold(p, s)'
  <2>1. \A q \in Proc \ {p} : Same(q)
    BY RefFacts, LocalSame
  <2> QED
    BY <2>1, RefsChange DEF Same, SamePointers
<1>4. Hold(p, s) \in Nat /\ Hold(p, s)' \in Nat
  BY HoldType DEF Hold, Is
<1>5. References(s) \in Nat
  BY RefsSplit, HoldType
<1>6. itable[s].ref >= Hold(p, s) + leaked[s]
  BY HeldSlot
<1> DEFINE r == References(s)
           t == References(s)'
           h == Hold(p, s)
           k == Hold(p, s)'
<1>7. itable[s].ref = leaked[s] + r /\ itable'[s].ref = leaked'[s] + t /\ t = r - h + k /\ r \in Nat /\ h \in Nat /\ k \in Nat
  BY <1>1, <1>3, <1>4, <1>5
<1> HIDE DEF r, t, h, k
<1>8. itable'[s].ref + leaked[s] + h = itable[s].ref + leaked'[s] + k
  BY <1>2, <1>7
<1> QED
  BY <1>2, <1>4, <1>6, <1>8 DEF h, k

\* Who has no pointer to a slot before and after leaves its count alone.
LEMMA RefKept ==
  ASSUME RefInv, RefInv', NEW p \in Proc, Local(p), NEW s \in Slot, Hold(p, s) = 0, Hold(p, s)' = 0,
         leaked'[s] = leaked[s]
  PROVE  itable'[s].ref = itable[s].ref
<1> DEFINE h == Hold(p, s)
           k == Hold(p, s)'
<1>1. h = 0 /\ k = 0
  OBVIOUS
<1>2. /\ itable'[s].ref + leaked[s] + h = itable[s].ref + leaked'[s] + k
      /\ itable[s].ref \in Nat /\ itable'[s].ref \in Nat /\ leaked[s] \in Nat
  BY RefsMove
<1> HIDE DEF h, k
<1> QED
  BY <1>1, <1>2

-----------------------------------------------------------------------------
(* What the others rely on *)

LEMMA SameDeref ==
  ASSUME NEW q, Same(q)
  PROVE  \A x \in Pointers : \A s : Points(q, x, s)' <=> Points(q, x, s)
  BY DEF Same, Points, Deref, Pointers

LEMMA LiveStays ==
  ASSUME RefInv, TreeInv, NEW p \in Proc, Local(p), SlotStep(p), LiveStep(p)
  PROVE  LiveInv'
<1> SUFFICES ASSUME NEW q \in Proc, NEW x \in Pointers, NEW s \in Slot, Points(q, x, s)'
             PROVE  Live(itable[s].inum)'
  BY DEF LiveInv
<1>1. CASE q = p
  BY <1>1 DEF LiveStep
<1>2. CASE q # p
  <2>1. Points(q, x, s)
    BY <1>2, RefFacts, LocalSame, SameDeref
  <2>2. Live(itable[s].inum) /\ itable[s].ref > 0
    BY <2>1, PointedSlot
  <2>3. itable'[s].inum = itable[s].inum
    BY <2>2 DEF SlotStep
  <2>4. dinode'[itable[s].inum].type = dinode[itable[s].inum].type
    BY <1>2, <2>1 DEF LiveStep
  <2> QED
    BY <2>2, <2>3, <2>4 DEF Live
<1> QED
  BY <1>1, <1>2

LEMMA SlotsStay ==
  ASSUME RefInv, RefInv', TreeInv, NEW p \in Proc, Local(p), SlotStep(p)
  PROVE  SlotInv'
<1>1. ASSUME NEW s \in Slot, NEW t \in Slot, itable'[s].ref > 0, itable'[t].ref > 0,
             itable'[t].inum = itable'[s].inum, s # t
      PROVE  FALSE
  <2>1. itable[s].ref \in Nat /\ itable[t].ref \in Nat
    BY RefFacts
  <2>2. itable[s].ref > 0
    <3> SUFFICES ASSUME itable[s].ref = 0 PROVE FALSE
      BY <2>1
    <3>1. itable[t].ref > 0 /\ itable[t].inum # itable'[s].inum
      BY <1>1 DEF SlotStep
    <3> QED
      BY <1>1, <3>1 DEF SlotStep
  <2>3. itable[t].ref > 0
    <3> SUFFICES ASSUME itable[t].ref = 0 PROVE FALSE
      BY <2>1
    <3>1. itable[s].inum # itable'[t].inum
      BY <1>1 DEF SlotStep
    <3> QED
      BY <1>1, <2>2, <3>1 DEF SlotStep
  <2> QED
    BY <1>1, <2>2, <2>3, OneSlot DEF SlotStep
<1>2. ASSUME NEW s \in Slot, itable'[s].ref > 0, itable'[s].valid, \A q \in Proc : ~Freeing(q, s)'
      PROVE  OnDisk(s)'
  <2>1. itable[s].ref > 0
    <3>1. itable[s].ref \in Nat
      BY RefFacts
    <3> QED
      BY <1>2, <3>1 DEF SlotStep
  <2>2. Kept(s) \/ OnDisk(s)'
    BY <1>2, <2>1 DEF SlotStep, Renewed
  <2>3. CASE Kept(s)
    <3>1. \A q \in Proc : ~Freeing(q, s)
      <4> SUFFICES ASSUME NEW q \in Proc, Freeing(q, s) PROVE FALSE
        OBVIOUS
      <4>1. CASE q = p
        BY <1>2, <4>1 DEF SlotStep
      <4>2. CASE q # p
        BY <1>2, <4>2, RefFacts, LocalSame DEF Freeing, Same
      <4> QED
        BY <4>1, <4>2
    <3>2. itable[s].valid
      BY <1>2, <2>3 DEF Kept
    <3>3. OnDisk(s)
      BY <2>1, <3>1, <3>2, TreeFacts DEF SlotInv
    <3>4. itable'[s].inum = itable[s].inum
      BY <2>1 DEF SlotStep
    <3> QED
      BY <2>3, <3>3, <3>4 DEF OnDisk, Live, Kept
  <2> QED
    BY <2>2, <2>3
<1> QED
  BY <1>1, <1>2 DEF SlotInv

\* What p newly points to nobody was freeing or making, or it was not alive.
LEMMA GainedSlot ==
  ASSUME RefInv, NEW p \in Proc, SlotStep(p), LiveStep(p), NEW s \in Slot, Gains(p, s), itable[s].ref > 0
  PROVE  ~Stale(itable[s].inum) \/ ~Live(itable[s].inum)
<1>1. itable'[s].inum = itable[s].inum
  BY DEF SlotStep
<1> QED
  BY <1>1 DEF LiveStep

\* A slot that another process is freeing or making stays as it is.
LEMMA AloneSlot ==
  ASSUME RefInv, RefInv', TreeInv, NEW p \in Proc, Local(p), SlotStep(p), LiveStep(p),
         NEW s \in Slot, Hold(p, s) = 0, itable[s].ref > 0, Live(itable[s].inum),
         Stale(itable[s].inum)
  PROVE  /\ Hold(p, s)' = 0 /\ itable'[s].ref = itable[s].ref /\ itable'[s].inum = itable[s].inum
         /\ Kept(s)
<1>1. ~Gains(p, s)
  BY GainedSlot
<1>2. Hold(p, s)' = 0
  BY <1>1, RefsMove DEF Gains
<1>3. Kept(s) /\ leaked'[s] = leaked[s] /\ itable'[s].inum = itable[s].inum
  BY DEF SlotStep
<1> QED
  BY <1>2, <1>3, RefKept

LEMMA TruncStays ==
  ASSUME RefInv, RefInv', TreeInv, NEW p \in Proc, Local(p), SlotStep(p), LiveStep(p),
         NEW q \in Proc, q # p
  PROVE  TruncInv(q)'
<1>1. Same(q)
  BY RefFacts, LocalSame
<1> SUFFICES ASSUME put[q] # 0, stage[q] = "iput_trunc" PROVE LastRef(put[q])'
  BY <1>1 DEF TruncInv, Same
<1> DEFINE s == put[q]
<1>2. s \in Slot /\ LastRef(s)
  BY TreeFacts, RefFacts, Constants DEF TruncInv, Good, OwnType
<1>3. Locks(q, s) /\ Hold(q, s) > 0 /\ ~Freeing(q, s)
  BY <1>2, HeldSlot DEF Locks, Truncating, Freeing
<1>4. OnDisk(s) /\ itable[s].ref = 1
  BY <1>2, <1>3, LockedOnDisk DEF LastRef
<1>5. Hold(p, s) = 0
  BY <1>2, <1>3, <1>4, OneHolder
<1>6. /\ itable'[s].ref = itable[s].ref /\ Kept(s)
  <2>1. Live(itable[s].inum) /\ Stale(itable[s].inum) /\ itable[s].ref > 0
    BY <1>4 DEF OnDisk, Stale
  <2> QED
    BY <1>2, <1>5, <2>1, AloneSlot
<1>7. put'[q] = s
  BY <1>1 DEF Same
<1> HIDE DEF s
<1> QED
  BY <1>2, <1>6, <1>7 DEF LastRef, Kept, s

LEMMA FreshStays ==
  ASSUME RefInv, RefInv', TreeInv, NEW p \in Proc, Local(p), SlotStep(p), LiveStep(p),
         NEW q \in Proc, q # p
  PROVE  FreshInv(q)'
<1>1. Same(q)
  BY RefFacts, LocalSame
<1> SUFFICES ASSUME pc[q] = "create_new"
             PROVE  /\ dinode'[itable'[ip[q]].inum].nlink = 0
                    /\ \A r \in Proc, x \in Pointers : Points(r, x, ip[q])' => r = q /\ x = "ip"
  BY <1>1 DEF FreshInv, Same
<1>2. PICK s \in Slot : s = ip[q]
  BY RefFacts, Constants DEF Good, OwnType, PtrInv, HasIp, Where, IpPcs
<1>3. Points(q, "ip", s) /\ "ip" \in Pointers
  BY <1>2 DEF Points, Deref, Pointers
<1>4. Live(itable[s].inum) /\ itable[s].ref > 0
  BY <1>2, <1>3, PointedSlot
<1>5. /\ dinode[itable[s].inum].nlink = 0
      /\ \A r \in Proc, x \in Pointers : Points(r, x, s) => r = q /\ x = "ip"
  BY <1>2, TreeFacts DEF FreshInv
<1>6. ~Gains(p, s)
  <2>1. Stale(itable[s].inum)
    BY <1>2 DEF Stale
  <2> QED
    BY <1>2, <1>4, <2>1, GainedSlot
<1>7. \A x \in Pointers : ~Points(p, x, s)
  BY <1>5
<1>8. \A x \in Pointers : ~Points(p, x, s)'
  <2> SUFFICES ASSUME NEW x \in Pointers, Points(p, x, s)' PROVE FALSE
    OBVIOUS
  <2> QED
    BY <1>2, <1>6, <1>7 DEF LiveStep
<1>9. \A r \in Proc \ {p}, x \in Pointers : Points(r, x, s)' => r = q /\ x = "ip"
  <2> SUFFICES ASSUME NEW r \in Proc \ {p}, NEW x \in Pointers, Points(r, x, s)' PROVE r = q /\ x = "ip"
    OBVIOUS
  <2>1. Points(r, x, s)
    BY RefFacts, LocalSame, SameDeref
  <2> QED
    BY <1>5, <2>1
<1>10. dinode'[itable[s].inum] = dinode[itable[s].inum]
  <2> SUFFICES ASSUME dinode'[itable[s].inum] # dinode[itable[s].inum] PROVE FALSE
    OBVIOUS
  <2>1. itable[s].inum \in Inum
    BY <1>2, <1>3, PointedSlot
  <2>2. PICK x \in Pointers, t \in Slot : Points(p, x, t) /\ itable[t].inum = itable[s].inum
    BY <1>4, <2>1 DEF LiveStep
  <2>3. t = s
    BY <1>2, <1>4, <2>2, PointedSlot, OneSlot
  <2> QED
    BY <1>7, <2>2, <2>3
<1>11. itable'[s].inum = itable[s].inum
  BY <1>2, <1>4 DEF SlotStep
<1>12. \A r \in Proc, x \in Pointers : Points(r, x, s)' => r = q /\ x = "ip"
  BY <1>8, <1>9
<1>13. ip'[q] = s
  BY <1>1, <1>2 DEF Same
<1>14. ASSUME NEW r \in Proc, NEW x \in Pointers, Points(r, x, ip[q])' PROVE r = q /\ x = "ip"
  <2>1. Points(r, x, s)'
    BY <1>13, <1>14 DEF Points
  <2> QED
    BY <1>12, <2>1
<1>15. dinode'[itable'[ip[q]].inum].nlink = 0
  BY <1>2, <1>5, <1>10, <1>11
<1> QED
  BY <1>14, <1>15

LEMMA EntryStays ==
  ASSUME RefInv, RefInv', TreeInv, NEW p \in Proc, Local(p), SlotStep(p), EntryStep(p),
         NEW q \in Proc, q # p
  PROVE  EntryInv(q)'
<1>1. Same(q)
  BY RefFacts, LocalSame
<1>2. EntryInv(q)
  BY TreeFacts
<1> SUFFICES ASSUME pc[q] \in {"create_new", "unlink_remove"}
             PROVE  EntryInv(q)'
  BY <1>1, <1>2 DEF EntryInv, Same
<1>3. dp[q] \in Slot /\ Locks(q, dp[q]) /\ LastName(q) \in Name
  BY <1>2, RefFacts, Constants DEF Good, OwnType, PtrInv, DpPcs, Locks, EntryInv
<1>4. itable[dp[q]].ref > 0 /\ Dir(q) \in Inum /\ itable[dp[q]].lock = q
  BY <1>3, HeldSlot, LockedSlot DEF Dir
<1>5. Dir(q)' = Dir(q) /\ LastName(q)' = LastName(q)
  <2>1. itable'[dp[q]].inum = itable[dp[q]].inum
    BY <1>3, <1>4 DEF SlotStep
  <2> QED
    BY <1>1, <2>1 DEF Dir, LastName, Same
<1>6. entry'[Dir(q)][LastName(q)] = entry[Dir(q)][LastName(q)]
  <2> SUFFICES ASSUME entry'[Dir(q)][LastName(q)] # entry[Dir(q)][LastName(q)] PROVE FALSE
    OBVIOUS
  <2>1. PICK t \in Slot : Locks(p, t) /\ itable[t].inum = Dir(q)
    BY <1>3, <1>4 DEF EntryStep
  <2>2. itable[t].lock = p /\ itable[t].ref > 0
    BY <2>1, HeldSlot, LockedSlot
  <2>3. t = dp[q]
    BY <1>3, <1>4, <2>1, <2>2, OneSlot DEF Dir
  <2> QED
    BY <1>4, <2>2, <2>3
<1>7. pc[q] = "unlink_remove" => itable'[ip[q]].inum = itable[ip[q]].inum
  <2> SUFFICES ASSUME pc[q] = "unlink_remove" PROVE itable'[ip[q]].inum = itable[ip[q]].inum
    OBVIOUS
  <2>1. ip[q] \in Slot
    BY RefFacts, Constants DEF Good, OwnType, PtrInv, HasIp, Where, IpPcs
  <2>2. itable[ip[q]].ref > 0
    BY <2>1, HeldSlot
  <2> QED
    BY <2>1, <2>2 DEF SlotStep
<1>8. pc'[q] = pc[q] /\ put'[q] = put[q] /\ ip'[q] = ip[q]
  BY <1>1 DEF Same
<1> QED
  BY <1>2, <1>5, <1>6, <1>7, <1>8 DEF EntryInv

LEMMA LinkStays ==
  ASSUME RefInv, RefInv', TreeInv, NEW p \in Proc, Local(p), SlotStep(p), LiveStep(p),
         NEW q \in Proc, q # p
  PROVE  LinkInv(q)'
<1>1. Same(q)
  BY RefFacts, LocalSame
<1>2. Where(q)' = Where(q)
  BY <1>1 DEF Where, Same
<1> SUFFICES ASSUME Where(q) \in {"link_parent", "link_add", "link_exists", "link_bad"}
             PROVE  dinode'[itable'[ip'[q]].inum].type # "dir"
  BY <1>2 DEF LinkInv
<1>3. ip[q] \in Slot /\ Points(q, "ip", ip[q]) /\ "ip" \in Pointers
  BY RefFacts, Constants DEF Good, OwnType, PtrInv, HasIp, IpPcs, Points, Deref, Pointers
<1>4. itable[ip[q]].ref > 0
  BY <1>3, PointedSlot
<1>5. itable'[ip[q]].inum = itable[ip[q]].inum
  BY <1>3, <1>4 DEF SlotStep
<1>6. dinode'[itable[ip[q]].inum].type = dinode[itable[ip[q]].inum].type
  BY <1>3 DEF LiveStep
<1>7. dinode[itable[ip[q]].inum].type # "dir" /\ ip'[q] = ip[q]
  BY <1>1, TreeFacts DEF LinkInv, Same
<1> QED
  BY <1>5, <1>6, <1>7

LEMMA OthersStay ==
  ASSUME RefInv, RefInv', TreeInv, NEW p \in Proc, Local(p), SlotStep(p), LiveStep(p), EntryStep(p)
  PROVE  LiveInv' /\ SlotInv' /\ \A q \in Proc \ {p} : OwnInv(q)'
<1>1. LiveInv' /\ SlotInv'
  BY LiveStays, SlotsStay
<1> SUFFICES ASSUME NEW q \in Proc \ {p} PROVE OwnInv(q)'
  BY <1>1
<1> QED
  BY TruncStays, FreshStays, EntryStays, LinkStays DEF OwnInv

-----------------------------------------------------------------------------
(* Steps by what they do to slots and inodes *)

LEMMA PointHoldsNext ==
  \A p : \A x \in Pointers : \A s : Points(p, x, s)' => Hold(p, s)' > 0
<1> SUFFICES ASSUME NEW p, NEW x \in Pointers, NEW s, Deref(p, x)' = s PROVE Hold(p, s)' > 0
  BY DEF Points
<1> QED
  BY DEF Deref, Pointers, Hold, Is

\* No slot gets more references, and what p changes it has renewed.
LEMMA Shrinks ==
  ASSUME RefInv, RefInv', TreeInv, NEW p \in Proc, Local(p),
         \A s \in Slot : itable'[s].inum = itable[s].inum /\ itable'[s].ref <= itable[s].ref /\ leaked'[s] >= leaked[s],
         \A s \in Slot : itable[s].ref > 0 => Kept(s) \/ (Hold(p, s) > 0 /\ Renewed(p, s)),
         \A s \in Slot : Freeing(p, s) => ~itable'[s].valid
  PROVE  SlotStep(p) /\ \A s \in Slot : ~Gains(p, s)
<1>1. ASSUME NEW s \in Slot, Hold(p, s) = 0
      PROVE  leaked'[s] = leaked[s] /\ Hold(p, s)' = 0
  <2> DEFINE h == Hold(p, s)
             k == Hold(p, s)'
  <2>1. h = 0
    BY <1>1
  <2>2. /\ itable'[s].ref + leaked[s] + h = itable[s].ref + leaked'[s] + k
        /\ itable[s].ref \in Nat /\ itable'[s].ref \in Nat /\ leaked[s] \in Nat /\ leaked'[s] \in Nat /\ k \in Nat
    BY RefsMove
  <2> HIDE DEF h, k
  <2>3. k = 0 /\ leaked'[s] = leaked[s]
    BY <2>1, <2>2
  <2> QED
    BY <2>3 DEF k
<1>2. \A s \in Slot : ~(itable[s].ref = 0 /\ itable'[s].ref > 0)
  <2> SUFFICES ASSUME NEW s \in Slot PROVE ~(itable[s].ref = 0 /\ itable'[s].ref > 0)
    OBVIOUS
  <2>1. itable[s].ref \in Nat /\ itable'[s].ref \in Nat
    BY RefsMove
  <2> QED
    BY <2>1
<1>3. \A s \in Slot : ~Gains(p, s)
  BY <1>1 DEF Gains
<1> QED
  BY <1>1, <1>2, <1>3 DEF SlotStep

LEMMA LiveFrom ==
  ASSUME RefInv, RefInv', TreeInv, NEW p \in Proc, Local(p), SlotStep(p),
         stage[p] \notin {"iput_invalid", "iput_drop"},
         \A s \in Slot : Gains(p, s) => Live(itable[s].inum)' /\ (~Stale(itable'[s].inum) \/ ~Live(itable'[s].inum)),
         \A i \in Inum : Live(i) => dinode'[i].type = dinode[i].type,
         \A i \in Inum : Live(i) /\ dinode'[i] # dinode[i] => \E s \in Slot : Hold(p, s) > 0 /\ itable[s].inum = i
  PROVE  LiveStep(p)
<1>1. \A s \in Slot : Hold(p, s) > 0 => \E y \in Pointers : Points(p, y, s)
  BY HoldPoints, Constants
<1>2. \A q \in Proc, x \in Pointers, s \in Slot :
        Points(q, x, s) => /\ Live(itable[s].inum) /\ itable[s].ref > 0
                           /\ dinode'[itable[s].inum].type = dinode[itable[s].inum].type
  BY PointedSlot
<1>3. ASSUME NEW x \in Pointers, NEW s \in Slot, Points(p, x, s)'
      PROVE  Live(itable[s].inum)' /\ (Gains(p, s) \/ \E y \in Pointers : Points(p, y, s))
  <2>1. Hold(p, s)' > 0
    BY <1>3, PointHoldsNext
  <2>2. CASE Gains(p, s)
    BY <2>2
  <2>3. CASE ~Gains(p, s)
    <3>1. Hold(p, s) > 0
      BY <2>1, <2>3, HoldType DEF Gains
    <3>2. PICK y \in Pointers : Points(p, y, s)
      BY <1>1, <3>1
    <3>3. Live(itable[s].inum) /\ itable'[s].inum = itable[s].inum
          /\ dinode'[itable[s].inum].type = dinode[itable[s].inum].type
      BY <1>2, <3>2 DEF SlotStep
    <3> QED
      BY <3>2, <3>3 DEF Live
  <2> QED
    BY <2>2, <2>3
<1>4. ASSUME NEW i \in Inum, Live(i), dinode'[i] # dinode[i]
      PROVE  \E x \in Pointers, s \in Slot : Points(p, x, s) /\ itable[s].inum = i
  BY <1>1, <1>4
<1> QED
  BY <1>2, <1>3, <1>4 DEF LiveStep

\* p gets inode i, which is alive and not stale, or just allocated.
LEMMA Gets ==
  ASSUME RefInv, RefInv', TreeInv, NEW p \in Proc, Local(p),
         stage[p] \notin {"iput_invalid", "iput_drop"},
         NEW i \in Inum, NEW U, GotTable(i, U), leaked' = leaked,
         \A j \in Inum : Live(j) => dinode'[j] = dinode[j],
         Live(i)', ~Stale(i) \/ ~Live(i)
  PROVE  SlotStep(p) /\ LiveStep(p)
<1>1. \A s \in Slot : itable[s].ref \in Nat /\ itable[s].inum \in Inum \cup {0}
  BY RefFacts
<1>2. \A s \in Slot : itable[s].ref > 0 => itable[s].inum \in Inum
  BY <1>1 DEF RefInv, InumInv
<1>3. \A s \in Slot : itable'[s].ref = itable[s].ref + Is(s, Got(i))
  BY DEF GotTable
<1>4. SlotStep(p)
  <2>1. \A s \in Slot : itable[s].ref > 0 => itable'[s].inum = itable[s].inum /\ Kept(s)
    BY <1>2 DEF GotTable, Kept
  <2>2. ASSUME NEW s \in Slot, itable[s].ref = 0, itable'[s].ref > 0
        PROVE  /\ ~itable'[s].valid
               /\ \A t \in Slot \ {s} : itable'[t].ref > 0 => itable[t].ref > 0 /\ itable[t].inum # itable'[s].inum
    <3>1. s = Got(i)
      BY <1>3, <2>2 DEF Is
    <3>2. itable'[s].inum = i /\ ~itable'[s].valid /\ \A t \in Slot : itable[t].ref > 0 => itable[t].inum # i
      BY <2>2, <3>1 DEF GotTable
    <3>3. \A t \in Slot \ {s} : itable'[t].ref = itable[t].ref
      <4> SUFFICES ASSUME NEW t \in Slot \ {s} PROVE itable'[t].ref = itable[t].ref
        OBVIOUS
      <4>1. itable'[t].ref = itable[t].ref + 0
        BY <1>3, <3>1 DEF Is
      <4> QED
        BY <1>1, <4>1
    <3> QED
      BY <3>2, <3>3
  <2>3. \A s \in Slot : ~Freeing(p, s)
    BY DEF Freeing
  <2> QED
    BY <2>1, <2>2, <2>3 DEF SlotStep
<1>5. ASSUME NEW s \in Slot, Gains(p, s)
      PROVE  Live(itable[s].inum)' /\ (~Stale(itable'[s].inum) \/ ~Live(itable'[s].inum))
  <2>1. s = Got(i)
    <3> SUFFICES ASSUME s # Got(i) PROVE FALSE
      OBVIOUS
    <3> DEFINE h == Hold(p, s)
               k == Hold(p, s)'
    <3>1. h = 0 /\ k > 0
      BY <1>5 DEF Gains
    <3>2. itable'[s].ref = itable[s].ref + 0
      BY <1>3 DEF Is
    <3>3. /\ itable'[s].ref + leaked[s] + h = itable[s].ref + leaked'[s] + k
          /\ itable[s].ref \in Nat /\ leaked[s] \in Nat /\ k \in Nat
      BY RefsMove
    <3> HIDE DEF h, k
    <3> QED
      BY <3>1, <3>2, <3>3
  <2>2. itable'[s].inum = i
    BY <2>1 DEF GotTable
  <2> QED
    BY <2>2 DEF Live
<1>6. \A j \in Inum : Live(j) => dinode'[j].type = dinode[j].type
  OBVIOUS
<1>7. LiveStep(p)
  BY <1>4, <1>5, <1>6, LiveFrom
<1> QED
  BY <1>4, <1>7

-----------------------------------------------------------------------------
(* Link counts *)

LEMMA FlightSplit ==
  \A p \in Proc : \A i : /\ Cardinality(InFlight(i)) = Cardinality(ElseFlight(p, i)) + Flies(p, i)
                         /\ Cardinality(ElseFlight(p, i)) \in Nat
<1> SUFFICES ASSUME NEW p \in Proc, NEW i
             PROVE  /\ Cardinality(InFlight(i)) = Cardinality(ElseFlight(p, i)) + Flies(p, i)
                    /\ Cardinality(ElseFlight(p, i)) \in Nat
  OBVIOUS
<1> DEFINE E == ElseFlight(p, i)
<1>1. IsFiniteSet(E) /\ Cardinality(E) \in Nat /\ p \notin E
  <2>1. IsFiniteSet(E)
    BY Finite, FS_Subset DEF ElseFlight
  <2> QED
    BY <2>1, FS_CardinalityType DEF ElseFlight
<1>2. CASE Flies(p, i) = 1
  <2>1. InFlight(i) = E \cup {p}
    BY <1>2 DEF Flies, InFlight, ElseFlight
  <2> HIDE DEF E
  <2>2. Cardinality(E \cup {p}) = Cardinality(E) + 1
    BY <1>1, FS_AddElement
  <2> QED
    BY <1>1, <1>2, <2>1, <2>2 DEF E
<1>3. CASE Flies(p, i) = 0
  <2>1. InFlight(i) = E
    BY <1>3 DEF Flies, InFlight, ElseFlight
  <2> DEFINE c == Cardinality(InFlight(i))
             d == Cardinality(E)
  <2>2. c = d /\ d \in Nat
    BY <1>1, <2>1
  <2> HIDE DEF c, d
  <2>3. c = d + 0
    BY <2>2
  <2> QED
    BY <1>1, <1>3, <2>3 DEF c, d
<1> QED
  BY <1>2, <1>3 DEF Flies

LEMMA FlightSumNext == FlightSum'
<1>1. FlightSum
  BY FlightSplit DEF FlightSum
<1> QED
  BY <1>1, PTL

\* A process whose link is counted has the inode.
LEMMA CountedSlot ==
  ASSUME RefInv, NEW p \in Proc, Counted(p)
  PROVE  ip[p] \in Slot /\ Points(p, "ip", ip[p]) /\ itable[ip[p]].ref > 0 /\ itable[ip[p]].inum \in Inum
<1>1. Where(p) \in {"link_parent", "link_add", "link_exists", "link_bad", "unlink_dec"}
  BY DEF Counted, Where
<1>2. ip[p] # 0
  BY <1>1, RefFacts DEF Good, PtrInv, HasIp, IpPcs
<1>3. ip[p] \in Slot /\ Points(p, "ip", ip[p]) /\ "ip" \in Pointers
  BY <1>2, RefFacts, Constants DEF Good, OwnType, Points, Deref, Pointers
<1> QED
  BY <1>3, PointedSlot

LEMMA FlightMove ==
  ASSUME RefInv, NEW p \in Proc, Local(p), SlotStep(p)
  PROVE  \A i : /\ Cardinality(InFlight(i))' = Cardinality(InFlight(i)) - Flies(p, i) + Flies(p, i)'
                /\ Cardinality(InFlight(i)) \in Nat
<1> SUFFICES ASSUME NEW i
             PROVE  /\ Cardinality(InFlight(i))' = Cardinality(InFlight(i)) - Flies(p, i) + Flies(p, i)'
                    /\ Cardinality(InFlight(i)) \in Nat
  OBVIOUS
<1>1. ElseFlight(p, i)' = ElseFlight(p, i)
  <2>1. ASSUME NEW q \in Proc \ {p}
        PROVE  /\ Counted(q)' <=> Counted(q)
               /\ Counted(q) => itable'[ip'[q]].inum = itable[ip[q]].inum
    <3>1. Same(q)
      BY RefFacts, LocalSame
    <3>2. Counted(q)' <=> Counted(q)
      BY <3>1 DEF Same, Counted
    <3>3. ip'[q] = ip[q]
      BY <3>1 DEF Same
    <3> QED
      BY <3>2, <3>3, CountedSlot DEF SlotStep
  <2> QED
    BY <2>1 DEF ElseFlight
<1> DEFINE a == Cardinality(InFlight(i))
           b == Cardinality(InFlight(i))'
           e == Cardinality(ElseFlight(p, i))
           f == Cardinality(ElseFlight(p, i))'
           g == Flies(p, i)
           h == Flies(p, i)'
<1>2. a = e + g /\ e \in Nat
  BY FlightSplit
<1>3. b = f + h
  BY FlightSumNext DEF FlightSum
<1>4. f = e
  BY <1>1
<1>5. g \in Nat /\ h \in Nat
  BY DEF Flies
<1> HIDE DEF a, b, e, f, g, h
<1>6. b = a - g + h /\ a \in Nat
  BY <1>2, <1>3, <1>4, <1>5
<1> QED
  BY <1>6 DEF a, b, g, h

\* The counts change as the links do.
LEMMA LinksMove ==
  ASSUME RefInv, RefInv', TreeInv, NEW p \in Proc, Local(p), SlotStep(p), lost' = lost,
         \A i \in Inum : dinode'[i].nlink + Links(entry, TypeOf, i) + Flies(p, i) =
                         dinode[i].nlink + Links(entry', TypeOf', i) + Flies(p, i)'
  PROVE  LinksExact'
<1> SUFFICES ASSUME NEW i \in Inum
             PROVE  LET links == Links(entry', TypeOf', i) + Cardinality(InFlight(i))'
                    IN  IF i \in lost THEN dinode'[i].nlink > links ELSE dinode'[i].nlink = links
  BY DEF LinksExact, TypeOf
<1> DEFINE m == dinode'[i].nlink
           n == dinode[i].nlink
           k == Links(entry, TypeOf, i)
           l == Links(entry', TypeOf', i)
           g == Flies(p, i)
           h == Flies(p, i)'
           a == Cardinality(InFlight(i))
           b == Cardinality(InFlight(i))'
<1>1. m + k + g = n + l + h
  OBVIOUS
<1>2. b = a - g + h /\ a \in Nat
  BY FlightMove
<1>3. m \in Int /\ n \in Int /\ k \in Nat /\ l \in Nat /\ g \in Nat /\ h \in Nat
  <2>1. m \in Int /\ n \in Int
    BY DEF RefInv, RefsExact, TypeOK
  <2> QED
    BY <2>1, LinksFinite DEF Flies
<1>4. IF i \in lost THEN n > k + a ELSE n = k + a
  BY TreeFacts DEF LinksExact, TypeOf
<1> HIDE DEF m, n, k, l, g, h, a, b
<1>5. IF i \in lost THEN m > l + b ELSE m = l + b
  BY <1>1, <1>2, <1>3, <1>4
<1> QED
  BY <1>5 DEF m, l, b

-----------------------------------------------------------------------------
(* The links of an entry *)

LEMMA LinksSame ==
  ASSUME NEW e, NEW f, NEW t, NEW u, NEW i \in Inum,
         \A d \in Inum, n \in Name : f[d][n] = e[d][n],
         \A n \in Name : e[i][n] # 0 => (u[e[i][n]] = "dir" <=> t[e[i][n]] = "dir")
  PROVE  Links(f, u, i) = Links(e, t, i)
<1>1. NamesOf(f, i) = NamesOf(e, i)
  BY DEF NamesOf
<1>2. Subdirs(f, u, i) = Subdirs(e, t, i)
  BY DEF Subdirs
<1> QED
  BY <1>1, <1>2 DEF Links

LEMMA LinksEnter ==
  ASSUME NEW e, NEW f, NEW t, NEW d \in Inum, NEW n \in Name, NEW k \in Inum, Entered(e, f, d, n, k),
         NEW i \in Inum
  PROVE  Links(f, t, i) = Links(e, t, i) + Is(i, k) + (IF i = d /\ t[k] = "dir" THEN 1 ELSE 0)
<1> USE DEF Entered
<1>0. 0 # i /\ k # 0
  BY Constants
<1>1. Cardinality(NamesOf(f, i)) = Cardinality(NamesOf(e, i)) + Is(i, k)
  <2>1. /\ IsFiniteSet(NamesOf(e, i)) /\ Cardinality(NamesOf(e, i)) \in Nat
        /\ <<d, n>> \notin NamesOf(e, i)
    <3>1. <<d, n>> \notin NamesOf(e, i)
      BY <1>0 DEF NamesOf
    <3> QED
      BY <3>1, LinksFinite
  <2>2. CASE i = k
    <3>1. NamesOf(f, i) = NamesOf(e, i) \cup {<<d, n>>}
      BY <2>2 DEF NamesOf
    <3>2. Cardinality(NamesOf(e, i) \cup {<<d, n>>}) = Cardinality(NamesOf(e, i)) + 1
      BY <2>1, FS_AddElement
    <3> QED
      BY <2>2, <3>1, <3>2 DEF Is
  <2>3. CASE i # k
    <3>1. NamesOf(f, i) = NamesOf(e, i)
      BY <1>0, <2>3 DEF NamesOf
    <3>2. Is(i, k) = 0
      BY <2>3 DEF Is
    <3> QED
      BY <2>1, <3>1, <3>2
  <2> QED
    BY <2>2, <2>3
<1>2. Cardinality(Subdirs(f, t, i)) = Cardinality(Subdirs(e, t, i)) + (IF i = d /\ t[k] = "dir" THEN 1 ELSE 0)
  <2>1. IsFiniteSet(Subdirs(e, t, i)) /\ Cardinality(Subdirs(e, t, i)) \in Nat
    BY LinksFinite
  <2>2. CASE i = d /\ t[k] = "dir"
    <3>1. Subdirs(f, t, i) = Subdirs(e, t, i) \cup {n} /\ n \notin Subdirs(e, t, i)
      BY <1>0, <2>2 DEF Subdirs
    <3>2. Cardinality(Subdirs(e, t, i) \cup {n}) = Cardinality(Subdirs(e, t, i)) + 1
      BY <2>1, <3>1, FS_AddElement
    <3> QED
      BY <2>2, <3>1, <3>2
  <2>3. CASE ~(i = d /\ t[k] = "dir")
    <3>1. Subdirs(f, t, i) = Subdirs(e, t, i)
      BY <1>0, <2>3 DEF Subdirs
    <3> QED
      BY <2>1, <2>3, <3>1
  <2> QED
    BY <2>2, <2>3
<1> DEFINE a == Cardinality(NamesOf(e, i))
           b == Cardinality(Subdirs(e, t, i))
           g == Is(i, k)
           h == IF i = d /\ t[k] = "dir" THEN 1 ELSE 0
           r == IF i = ROOTINO THEN 1 ELSE 0
<1>3. Links(f, t, i) = (a + g) + (b + h) + r /\ Links(e, t, i) = a + b + r
  BY <1>1, <1>2 DEF Links
<1>4. a \in Nat /\ b \in Nat /\ g \in Nat /\ h \in Nat /\ r \in Nat
  BY LinksFinite DEF Is
<1> HIDE DEF a, b, g, h, r
<1>5. Links(f, t, i) = Links(e, t, i) + g + h
  BY <1>3, <1>4
<1> QED
  BY <1>5 DEF g, h

-----------------------------------------------------------------------------
(* Names and who holds the inodes *)

LEMMA HeldStays ==
  ASSUME RefInv, NEW p \in Proc, Local(p), SlotStep(p), NEW q \in Proc,
         q # p \/ (cwd'[p] = cwd[p] /\ ofile'[p] = ofile[p])
  PROVE  InodesOf(q)' = InodesOf(q)
<1>1. cwd'[q] = cwd[q] /\ ofile'[q] = ofile[q]
  BY RefFacts, LocalSame DEF Same
<1>2. cwd[q] \in Slot /\ ofile[q] \in Pointer
  BY RefFacts DEF Good, OwnType
<1>3. itable'[cwd[q]].inum = itable[cwd[q]].inum
  BY <1>2, HeldSlot DEF SlotStep
<1>4. ofile[q] # 0 => itable'[ofile[q]].inum = itable[ofile[q]].inum
  BY <1>2, HeldSlot, Constants DEF SlotStep
<1> QED
  BY <1>1, <1>3, <1>4 DEF InodesOf

LEMMA HeldAlive ==
  ASSUME RefInv, LiveInv, NEW q \in Proc
  PROVE  InodesOf(q) \subseteq Alive
<1>1. cwd[q] \in Slot /\ ofile[q] \in Pointer
  BY RefFacts DEF Good, OwnType
<1>2. "cwd" \in Pointers /\ "ofile" \in Pointers /\ Points(q, "cwd", cwd[q]) /\ Points(q, "ofile", ofile[q])
  BY DEF Pointers, Points, Deref
<1>3. Live(itable[cwd[q]].inum) /\ itable[cwd[q]].inum \in Inum
  BY <1>1, <1>2, HeldSlot DEF LiveInv
<1>4. ofile[q] # 0 => Live(itable[ofile[q]].inum) /\ itable[ofile[q]].inum \in Inum
  BY <1>1, <1>2, HeldSlot, Constants DEF LiveInv
<1> QED
  BY <1>3, <1>4 DEF InodesOf, Alive, Live

LEMMA HeldAliveNext == HeldAliveNow'
<1>1. HeldAliveNow
  BY HeldAlive DEF HeldAliveNow
<1> QED
  BY <1>1, PTL

LEMMA HeldSame ==
  ASSUME RefInv, NEW p \in Proc, Local(p), SlotStep(p), cwd'[p] = cwd[p], ofile'[p] = ofile[p]
  PROVE  HeldNow' = HeldNow
<1>1. \A q \in Proc : InodesOf(q)' = InodesOf(q)
  BY HeldStays
<1> QED
  BY <1>1 DEF HeldNow

\* While names and live inodes stay, p may open, close and change its directory.
LEMMA HoldStep ==
  ASSUME RefInv, RefInv', LiveInv', NEW p \in Proc, Local(p), SlotStep(p),
         \A i \in Inum : dinode'[i].type = dinode[i].type,
         \A i \in Inum, n \in Name : entry'[i][n] = entry[i][n]
  PROVE  NamesStep
<1>1. InodesOf(p)' \subseteq Alive'
  BY HeldAliveNext DEF HeldAliveNow
<1>2. Alive' = Alive /\ NamesNow' = NamesNow
  BY DEF Alive, NamesNow
<1>3. HeldNow' = [HeldNow EXCEPT ![p] = InodesOf(p)']
  <2>1. \A q \in Proc \ {p} : InodesOf(q)' = InodesOf(q)
    BY HeldStays
  <2> QED
    BY <2>1 DEF HeldNow
<1>4. \E S \in SUBSET Alive : HeldNow' = [HeldNow EXCEPT ![p] = S]
  BY <1>1, <1>2, <1>3
<1>5. Promise!Hold(p)
  BY <1>2, <1>4 DEF Promise!Hold, Alive, NamesNow, HeldNow
<1> QED
  BY <1>5 DEF NamesStep, Promise!Next

-----------------------------------------------------------------------------
(* Steps that leave names and inodes as they are *)

LEMMA TreeParts ==
  ASSUME LiveInv', SlotInv', FreeInv', LinksExact', panic' \in Harmless, NEW p \in Proc,
         \A q \in Proc \ {p} : OwnInv(q)', OwnInv(p)'
  PROVE  TreeInv'
<1>1. \A q \in Proc : OwnInv(q)'
  OBVIOUS
<1> QED
  BY <1>1 DEF TreeInv, PanicsAreKnown, Harmless

LEMMA Quiet ==
  ASSUME RefInv, RefInv', TreeInv, NEW p \in Proc, Local(p), SlotStep(p), LiveStep(p),
         UNCHANGED <<dinode, entry, lost>>, panic' \in Harmless,
         Counted(p)' <=> Counted(p), Counted(p) => ip'[p] = ip[p], OwnInv(p)'
  PROVE  TreeInv' /\ NamesStep
<1>1. EntryStep(p)
  BY DEF EntryStep
<1>2. LiveInv' /\ SlotInv' /\ \A q \in Proc \ {p} : OwnInv(q)'
  BY <1>1, OthersStay
<1>3. FreeInv'
  BY TreeFacts DEF FreeInv, Live
<1>4. \A i : Flies(p, i)' = Flies(p, i)
  <2>1. Counted(p) => itable'[ip'[p]].inum = itable[ip[p]].inum
    BY CountedSlot DEF SlotStep
  <2> QED
    BY <2>1 DEF Flies
<1>5. LinksExact'
  <2>1. TypeOf' = TypeOf
    BY DEF TypeOf
  <2>2. ASSUME NEW i \in Inum
        PROVE  dinode'[i].nlink + Links(entry, TypeOf, i) + Flies(p, i) =
               dinode[i].nlink + Links(entry', TypeOf', i) + Flies(p, i)'
    BY <1>4, <2>1
  <2> QED
    BY <2>2, LinksMove
<1>6. NamesStep
  BY <1>2, HoldStep
<1> QED
  BY <1>2, <1>3, <1>5, <1>6, TreeParts

LEMMA StillSteps ==
  ASSUME RefInv, RefInv', TreeInv, NEW p \in Proc, Local(p), Still, dinode' = dinode,
         \A s \in Slot : leaked'[s] >= leaked[s], stage[p] \notin {"iput_invalid", "iput_drop"}
  PROVE  SlotStep(p) /\ LiveStep(p)
<1>1. \A s \in Slot : itable'[s].inum = itable[s].inum /\ itable'[s].ref <= itable[s].ref
  BY RefFacts DEF Still
<1>2. \A s \in Slot : Kept(s)
  BY DEF Still, Kept
<1>3. \A s \in Slot : ~Freeing(p, s)
  BY DEF Freeing
<1>4. SlotStep(p) /\ \A s \in Slot : ~Gains(p, s)
  BY <1>1, <1>2, <1>3, Shrinks
<1> QED
  BY <1>4, LiveFrom

LEMMA Shuffle ==
  ASSUME RefInv, RefInv', TreeInv, NEW p \in Proc, Local(p), Still,
         UNCHANGED <<dinode, entry, lost>>, panic' \in Harmless,
         \A s \in Slot : leaked'[s] >= leaked[s], stage[p] \notin {"iput_invalid", "iput_drop"},
         Counted(p)' <=> Counted(p), Counted(p) => ip'[p] = ip[p], OwnInv(p)'
  PROVE  TreeInv' /\ NamesStep
<1>1. SlotStep(p) /\ LiveStep(p)
  BY StillSteps
<1> QED
  BY <1>1, Quiet

LEMMA StillTable ==
  ASSUME TableType, NEW s, itable' = itable \/ itable' = Unlock(itable, s)
  PROVE  Still
<1>1. CASE itable' = itable
  BY <1>1 DEF Still
<1>2. CASE itable' = Unlock(itable, s)
  BY <1>2 DEF Still, Unlock, TableType, Inode
<1> QED
  BY <1>1, <1>2

-----------------------------------------------------------------------------
(* What a step of p has to show about p *)

LEMMA Away ==
  ASSUME NEW p, stage'[p] # "iput_trunc",
         pc'[p] \notin {"create_look", "create_new", "link_add", "unlink_remove"},
         Where(p)' \notin {"link_parent", "link_add", "link_exists", "link_bad"}
  PROVE  OwnInv(p)'
  BY DEF OwnInv, TruncInv, FreshInv, EntryInv, LinkInv

\* p goes on to a place where it has nothing to rely on.
LEMMA Leaves ==
  ASSUME RefInv, RefInv', TreeInv, NEW p \in Proc, Local(p), Still, stage[p] = "iput", stage'[p] = "iput",
         UNCHANGED <<dinode, entry, lost>>, panic' \in Harmless,
         \A s \in Slot : leaked'[s] >= leaked[s], ~Counted(p),
         pc'[p] \in Nameless \ {"link_exists", "link_bad", "unlink_remove", "unlink_dec"}
  PROVE  TreeInv' /\ NamesStep
<1>2. Where(p)' = pc'[p] /\ ~Counted(p)'
  BY DEF Where, Counted, Nameless
<1>3. OwnInv(p)'
  BY <1>2, Away DEF Nameless
<1> QED
  BY <1>2, <1>3, Shuffle

LEMMA Walks ==
  ASSUME RefInv, RefInv', TreeInv, NEW p \in Proc, Local(p), Still, stage[p] = "iput", stage'[p] = "iput",
         UNCHANGED <<dinode, entry, lost>>, panic' \in Harmless,
         \A s \in Slot : leaked'[s] >= leaked[s], ~Counted(p),
         pc'[p] = "namei", ret'[p] \in Rets \ {"link_parent"}
  PROVE  TreeInv' /\ NamesStep
<1>2. Where(p)' = ret'[p] /\ ~Counted(p)'
  BY DEF Where, Counted
<1>3. OwnInv(p)'
  BY <1>2, Away DEF Rets
<1> QED
  BY <1>2, <1>3, Shuffle

LEMMA StillKept ==
  ASSUME RefInv, itable' = itable
  PROVE  Still
  BY DEF Still

LEMMA LeakedKept ==
  ASSUME RefInv, leaked' = leaked
  PROVE  \A s \in Slot : leaked'[s] >= leaked[s]
<1>1. \A s \in Slot : leaked[s] \in Nat
  BY RefFacts
<1> QED
  BY <1>1

LEMMA HaltTree ==
  ASSUME RefInv, TreeInv, NEW p \in Proc, stage[p] = "iput", NEW msg \in Harmless, Halt(msg),
         UNCHANGED <<call, path, count, procVars, lost>>
  PROVE  TreeInv' /\ NamesStep
<1>1. RefInv' /\ Local(p) /\ panic' = msg
  BY HaltIs
<1>2. /\ UNCHANGED <<dinode, entry, target, itable, pc, ret, put, stage, want, cur, ip, dp>>
      /\ UNCHANGED <<path, rest, cwd, ofile, leaked, lost>>
  BY DEF Halt, diskVars, ctlVars, ptrVars, procVars
<1>3. Still /\ \A s \in Slot : leaked'[s] >= leaked[s]
  BY <1>2, StillKept, LeakedKept, TreeFacts
<1>4. \A q \in Proc : TruncInv(q)' /\ EntryInv(q)' /\ LinkInv(q)'
  <2> SUFFICES ASSUME NEW q \in Proc PROVE TruncInv(q)' /\ EntryInv(q)' /\ LinkInv(q)'
    OBVIOUS
  <2>1. TruncInv(q)' <=> TruncInv(q)
    BY <1>2 DEF TruncInv, LastRef
  <2>2. EntryInv(q)' <=> EntryInv(q)
    BY <1>2 DEF EntryInv, LastName, Dir
  <2>3. LinkInv(q)' <=> LinkInv(q)
    BY <1>2 DEF LinkInv, Where
  <2> QED
    BY <2>1, <2>2, <2>3, TreeFacts
<1>5. FreshInv(p)'
  <2>1. FreshInv(p)' <=> FreshInv(p)
    BY <1>2 DEF FreshInv, Points, Deref
  <2> QED
    BY <2>1, TreeFacts
<1>7. OwnInv(p)'
  BY <1>4, <1>5 DEF OwnInv
<1>8. (Counted(p)' <=> Counted(p)) /\ ip'[p] = ip[p]
  BY <1>2 DEF Counted
<1> QED
  BY <1>1, <1>2, <1>3, <1>7, <1>8, Shuffle

-----------------------------------------------------------------------------
(* Steps that leave names and inodes as they are, one by one *)

LEMMA Ends ==
  ASSUME RefInv, RefInv', TreeInv, NEW p \in Proc, Local(p), stage[p] = "iput", panic = "",
         UNCHANGED <<dinode, entry, lost, panic>>, \A s \in Slot : leaked'[s] >= leaked[s],
         ~Counted(p), NEW x, itable' = itable \/ itable' = Unlock(itable, x),
         NEW s, NEW w, NEW l \in Calm, Then(p, s, w, l)
  PROVE  TreeInv' /\ NamesStep
<1>1. Still /\ pc'[p] = l /\ stage'[p] = "iput"
  BY RefFacts, StillTable, ThenIs
<1>2. panic' \in Harmless
  BY DEF Harmless
<1> QED
  BY <1>1, <1>2, Leaves DEF Calm

\* The same for the many steps that leave links' contents and the history alone.
LEMMA EndsHere ==
  ASSUME RefInv, RefInv', TreeInv, NEW p \in Proc, Local(p), stage[p] = "iput", panic = "",
         UNCHANGED <<dinode, entry, target, history, panic>>,
         ~Counted(p), NEW x, itable' = itable \/ itable' = Unlock(itable, x),
         NEW s, NEW w, NEW l \in Calm, Then(p, s, w, l)
  PROVE  TreeInv' /\ NamesStep
<1>1. lost' = lost /\ \A y \in Slot : leaked'[y] >= leaked[y]
  BY TreeFacts, LeakedKept DEF history
<1> QED
  BY <1>1, Ends

LEMMA Goes ==
  ASSUME RefInv, RefInv', TreeInv, NEW p \in Proc, Local(p), stage[p] = "iput", panic = "",
         UNCHANGED <<dinode, entry, target, history, panic>>,
         ~Counted(p),
         \/ PutIp(p) \/ PutDp(p)
         \/ itable' = itable /\ \E l \in Calm : Goto(p, l)
  PROVE  TreeInv' /\ NamesStep
<1>1. "idle" \in Calm
  BY DEF Calm, Nameless
<1>2. CASE PutIp(p)
  BY <1>1, <1>2, EndsHere DEF PutIp, UnlockPut
<1>3. CASE PutDp(p)
  BY <1>1, <1>3, EndsHere DEF PutDp, UnlockPut
<1>4. CASE itable' = itable /\ \E l \in Calm : Goto(p, l)
  BY <1>4, EndsHere DEF Goto
<1> QED
  BY <1>2, <1>3, <1>4

LEMMA BeginTree ==
  ASSUME RefInv, TreeInv, NEW p \in Proc, Begin(p)
  PROVE  TreeInv' /\ NamesStep
<1>1. RefInv' /\ Local(p)
  BY WorkRef
<1>0. panic = "" /\ pc[p] = "idle" /\ stage[p] = "iput"
  BY AtIs DEF Begin
<1>2. panic = "" /\ pc[p] = "idle" /\ stage[p] = "iput" /\ ProcType /\ ~Counted(p)
  BY <1>0, RefFacts DEF Counted
<1>3. UNCHANGED <<dinode, entry, target, itable, history, panic, lost, leaked>>
  BY DEF Begin, diskVars, history
<1>4. PICK c \in Calls :
        \/ c.op = "close" /\ Then(p, ofile[p], 0, "idle")
        \/ /\ c.op # "close" /\ Walk(p, Found(c.op), c.path)
           /\ path' = [path EXCEPT ![p] = c.path]
  BY DEF Begin
<1>5. CASE c.op = "close" /\ Then(p, ofile[p], 0, "idle")
  BY <1>1, <1>2, <1>3, <1>5, EndsHere DEF Calm, Nameless
<1>6. CASE c.op # "close" /\ Walk(p, Found(c.op), c.path) /\ path' = [path EXCEPT ![p] = c.path]
  <2>1. pc'[p] = "namei" /\ ret'[p] = Found(c.op) /\ rest'[p] = c.path /\ path'[p] = c.path /\ stage'[p] = "iput"
    BY <1>2, <1>6, WalkIs DEF ProcType
  <2>2. c.path \in Paths /\ Found(c.op) \in {"create", "open", "chdir", "link", "unlink", "readlink_found"}
    BY <1>6, CallTypes DEF Found
  <2>4. Still /\ panic' \in Harmless /\ \A s \in Slot : leaked'[s] >= leaked[s]
    BY <1>2, <1>3, StillKept, LeakedKept, TreeFacts DEF Harmless
  <2> QED
    BY <1>1, <1>2, <1>3, <2>1, <2>2, <2>4, Walks DEF Rets
<1> QED
  BY <1>4, <1>5, <1>6

LEMMA CreateOldTree ==
  ASSUME RefInv, TreeInv, NEW p \in Proc, CreateOld(p)
  PROVE  TreeInv' /\ NamesStep
<1>1. RefInv' /\ Local(p)
  BY WorkRef DEF Work
<1>0. panic = "" /\ pc[p] = "create_old" /\ stage[p] = "iput"
  BY AtIs DEF CreateOld
<1>2. panic = "" /\ stage[p] = "iput" /\ ~Counted(p)
  BY <1>0, RefFacts DEF Counted
<1>3. UNCHANGED <<dinode, entry, target, history, panic>> /\ "created" \in Calm
  BY DEF CreateOld, diskVars, Calm, Nameless
<1>4. PutIp(p) \/ (itable' = itable /\ Goto(p, "created"))
  BY DEF CreateOld
<1> QED
  BY <1>1, <1>2, <1>3, <1>4, Goes

LEMMA CreatedTree ==
  ASSUME RefInv, TreeInv, NEW p \in Proc, Created(p)
  PROVE  TreeInv' /\ NamesStep
<1>1. RefInv' /\ Local(p)
  BY WorkRef DEF Work
<1>0. panic = "" /\ pc[p] = "created" /\ stage[p] = "iput"
  BY AtIs DEF Created
<1>9. SUFFICES ASSUME ~Halt("symlink over a directory")
               PROVE  TreeInv' /\ NamesStep
  BY <1>0, HaltTree DEF Created, Harmless, Beyond
<1>2. panic = "" /\ stage[p] = "iput" /\ ~Counted(p)
  BY <1>0, RefFacts DEF Counted
<1>3. UNCHANGED <<dinode, entry, lost, panic, leaked>> /\ "idle" \in Calm /\ "open_file" \in Calm
  BY <1>9 DEF Created, Calm, Nameless
<1>5. \A s \in Slot : leaked'[s] >= leaked[s]
  BY <1>3, LeakedKept
<1>6. CASE PutIp(p)
  BY <1>1, <1>2, <1>3, <1>5, <1>6, Ends DEF PutIp, UnlockPut
<1>7. CASE Goto(p, "open_file") /\ itable' = itable
  BY <1>1, <1>2, <1>3, <1>5, <1>7, Ends DEF Goto
<1> QED
  BY <1>6, <1>7, <1>9 DEF Created

LEMMA OpenTree ==
  ASSUME RefInv, TreeInv, NEW p \in Proc, Open(p)
  PROVE  TreeInv' /\ NamesStep
<1>1. RefInv' /\ Local(p)
  BY WorkRef DEF Work
<1>0. panic = "" /\ pc[p] = "open" /\ stage[p] = "iput"
  BY AtIs DEF Open
<1>2. panic = "" /\ pc[p] = "open" /\ stage[p] = "iput" /\ ~Counted(p) /\ ProcType
  BY <1>0, RefFacts DEF Counted
<1>3. UNCHANGED <<dinode, entry, target, history, panic, lost, leaked, itable, path>> /\ "idle" \in Calm /\ "open_check" \in Calm
  BY DEF Open, diskVars, history, Calm, Nameless
<1>4. CASE Goto(p, "idle")
  BY <1>1, <1>2, <1>3, <1>4, Goes
<1>5. CASE Then(p, 0, cur[p], "open_check")
  BY <1>1, <1>2, <1>3, <1>5, EndsHere
<1>6. CASE Walk(p, "readlink_found", path[p])
  <2>1. pc'[p] = "namei" /\ ret'[p] = "readlink_found" /\ rest'[p] = path[p] /\ path'[p] = path[p] /\ stage'[p] = "iput"
    BY <1>2, <1>3, <1>6, WalkIs
  <2>3. Still /\ panic' \in Harmless /\ \A s \in Slot : leaked'[s] >= leaked[s]
    BY <1>2, <1>3, StillKept, LeakedKept, TreeFacts DEF Harmless
  <2> QED
    BY <1>1, <1>2, <1>3, <2>1, <2>3, Walks DEF Rets
<1> QED
  BY <1>4, <1>5, <1>6 DEF Open

LEMMA OpenCheckTree ==
  ASSUME RefInv, TreeInv, NEW p \in Proc, OpenCheck(p)
  PROVE  TreeInv' /\ NamesStep
<1>1. RefInv' /\ Local(p)
  BY WorkRef DEF Work
<1>0. panic = "" /\ pc[p] = "open_check" /\ stage[p] = "iput"
  BY AtIs DEF OpenCheck
<1>2. panic = "" /\ stage[p] = "iput" /\ ~Counted(p)
  BY <1>0, RefFacts DEF Counted
<1>3. UNCHANGED <<dinode, entry, target, history, panic>> /\ "open_file" \in Calm
  BY DEF OpenCheck, diskVars, Calm, Nameless
<1>4. PutIp(p) \/ (itable' = itable /\ Goto(p, "open_file"))
  BY DEF OpenCheck
<1> QED
  BY <1>1, <1>2, <1>3, <1>4, Goes

LEMMA OpenFileTree ==
  ASSUME RefInv, TreeInv, NEW p \in Proc, OpenFile(p)
  PROVE  TreeInv' /\ NamesStep
<1>1. RefInv' /\ Local(p)
  BY WorkRef DEF Work
<1>0. panic = "" /\ pc[p] = "open_file" /\ stage[p] = "iput"
  BY AtIs DEF OpenFile
<1>2. panic = "" /\ stage[p] = "iput" /\ ~Counted(p)
  BY <1>0, RefFacts DEF Counted
<1>3. UNCHANGED <<dinode, entry, target, history, panic>> /\ "idle" \in Calm
  BY DEF OpenFile, diskVars, Calm, Nameless
<1>4. CASE PutIp(p)
  BY <1>1, <1>2, <1>3, <1>4, Goes
<1>5. CASE itable' = Unlock(itable, ip[p]) /\ Goto(p, "idle")
  BY <1>1, <1>2, <1>3, <1>5, EndsHere DEF Goto
<1> QED
  BY <1>4, <1>5 DEF OpenFile

LEMMA ReadlinkDoneTree ==
  ASSUME RefInv, RefInv', TreeInv, NEW p \in Proc, Local(p), stage[p] = "iput", panic = "",
         pc[p] \in {"readlink_found", "readlink_read"},
         UNCHANGED <<dinode, entry, target, path, lost, panic>>, \A s \in Slot : leaked'[s] >= leaked[s],
         NEW x, itable' = itable \/ itable' = Unlock(itable, x), ReadlinkDone(p)
  PROVE  TreeInv' /\ NamesStep
<1>1. ~Counted(p)
  BY DEF Counted
<1>2. call[p].op \in {"open", "chdir", "readlink"}
  BY RefFacts DEF Good, OpInv, Where
<1>3. "idle" \in Calm /\ "open_check" \in Calm
  BY DEF Calm, Nameless
<1>4. CASE call[p].op = "open"
  BY <1>1, <1>3, <1>4, ReadlinkDoneIs, Ends
<1>5. CASE call[p].op = "readlink"
  BY <1>1, <1>3, <1>5, ReadlinkDoneIs, Ends
<1>6. CASE call[p].op = "chdir"
  <2>1. pc'[p] = "chdir_again" /\ stage'[p] = "iput" /\ path'[p] = path[p]
    BY <1>6, ReadlinkDoneIs, RefFacts, ThenIs
  <2>3. Where(p)' = "chdir_again" /\ ~Counted(p)'
    BY <2>1 DEF Where, Counted
  <2>5. OwnInv(p)'
    BY <2>1, <2>3, Away
  <2>6. Still /\ panic' \in Harmless
    BY RefFacts, StillTable DEF Harmless
  <2> QED
    BY <1>1, <2>3, <2>5, <2>6, Shuffle
<1> QED
  BY <1>2, <1>4, <1>5, <1>6

LEMMA ReadlinkReadTree ==
  ASSUME RefInv, TreeInv, NEW p \in Proc, ReadlinkRead(p)
  PROVE  TreeInv' /\ NamesStep
<1>1. RefInv' /\ Local(p)
  BY WorkRef DEF Work
<1>2. panic = "" /\ pc[p] = "readlink_read" /\ stage[p] = "iput" /\ want[p] = 0
  BY AtIs DEF ReadlinkRead
<1>3. ~Counted(p) /\ ProcType
  BY <1>2, RefFacts DEF Counted
<1> DEFINE new == target[itable[cur[p]].inum]
<1>4. /\ UNCHANGED <<dinode, entry, target, lost>> /\ itable' = Unlock(itable, cur[p])
      /\ leaked' = [leaked EXCEPT ![cur[p]] = @ + 1]
      /\ \/ ReadlinkDone(p) /\ UNCHANGED <<path, panic>>
         \/ /\ path' = [path EXCEPT ![p] = new]
            /\ Walk(p, "readlink_found", new)
            /\ panic' = IF count[p] + 1 >= MAX_DEREFERENCE THEN "we have a cycle" ELSE ""
  BY DEF ReadlinkRead, diskVars
<1>5. \A s \in Slot : leaked'[s] >= leaked[s]
  <2>1. leaked \in [Slot -> Nat]
    BY RefFacts
  <2>2. leaked' = [leaked EXCEPT ![cur[p]] = @ + 1]
    BY DEF ReadlinkRead
  <2> QED
    BY <2>1, <2>2
<1>6. CASE ReadlinkDone(p) /\ UNCHANGED <<path, panic>>
  BY <1>1, <1>2, <1>4, <1>5, <1>6, ReadlinkDoneTree
<1>7. CASE /\ path' = [path EXCEPT ![p] = new]
           /\ Walk(p, "readlink_found", new)
           /\ panic' = IF count[p] + 1 >= MAX_DEREFERENCE THEN "we have a cycle" ELSE ""
  <2> HIDE DEF new
  <2>3. pc'[p] = "namei" /\ ret'[p] = "readlink_found" /\ rest'[p] = new /\ path'[p] = new /\ stage'[p] = "iput"
    BY <1>2, <1>3, <1>7, WalkIs DEF ProcType
  <2>4. Still /\ panic' \in Harmless
    BY <1>3, <1>4, <1>7, RefFacts, StillTable, TreeFacts DEF Harmless
  <2> QED
    BY <1>1, <1>2, <1>3, <1>4, <1>5, <2>3, <2>4, Walks DEF Rets
<1> QED
  BY <1>4, <1>6, <1>7

LEMMA ChdirTree ==
  ASSUME RefInv, TreeInv, NEW p \in Proc, Chdir(p)
  PROVE  TreeInv' /\ NamesStep
<1>1. RefInv' /\ Local(p)
  BY WorkRef DEF Work
<1>2. panic = "" /\ pc[p] = "chdir" /\ stage[p] = "iput"
  BY AtIs DEF Chdir
<1>3. ~Counted(p) /\ ProcType /\ leaked \in [Slot -> Nat]
  BY <1>2, RefFacts DEF Counted
<1>4. UNCHANGED <<dinode, entry, target, itable, path, lost, panic>> /\ "idle" \in Calm /\ "chdir_check" \in Calm
  BY DEF Chdir, diskVars, Calm, Nameless
<1>5. Still /\ panic' \in Harmless
  BY <1>2, <1>4, StillKept, TreeFacts DEF Harmless
<1>6. CASE Goto(p, "idle") /\ leaked' = leaked
  BY <1>1, <1>2, <1>3, <1>4, <1>6, Goes DEF history
<1>7. CASE Then(p, 0, cur[p], "chdir_check") /\ leaked' = leaked
  BY <1>1, <1>2, <1>3, <1>4, <1>7, EndsHere DEF history
<1>8. CASE Walk(p, "readlink_found", path[p]) /\ leaked' = [leaked EXCEPT ![cur[p]] = @ + 1]
  <2>1. pc'[p] = "namei" /\ ret'[p] = "readlink_found" /\ rest'[p] = path[p] /\ path'[p] = path[p] /\ stage'[p] = "iput"
    BY <1>2, <1>3, <1>4, <1>8, WalkIs
  <2>3. \A s \in Slot : leaked'[s] >= leaked[s]
    BY <1>3, <1>8
  <2> QED
    BY <1>1, <1>2, <1>3, <1>4, <1>5, <2>1, <2>3, Walks DEF Rets
<1> QED
  BY <1>6, <1>7, <1>8 DEF Chdir

LEMMA ChdirAgainTree ==
  ASSUME RefInv, TreeInv, NEW p \in Proc, ChdirAgain(p)
  PROVE  TreeInv' /\ NamesStep
<1>1. RefInv' /\ Local(p)
  BY WorkRef DEF Work
<1>2. panic = "" /\ pc[p] = "chdir_again" /\ stage[p] = "iput"
  BY AtIs DEF ChdirAgain
<1>3. ~Counted(p) /\ ProcType
  BY <1>2, RefFacts DEF Counted
<1>4. UNCHANGED <<dinode, entry, target, itable, path, lost, leaked, panic>> /\ Walk(p, "chdir_lock", path[p])
  BY DEF ChdirAgain, diskVars, history
<1>5. Still /\ panic' \in Harmless /\ \A s \in Slot : leaked'[s] >= leaked[s]
  BY <1>2, <1>4, StillKept, LeakedKept, TreeFacts DEF Harmless
<1>6. pc'[p] = "namei" /\ ret'[p] = "chdir_lock" /\ rest'[p] = path[p] /\ stage'[p] = "iput"
  BY <1>2, <1>3, <1>4, WalkIs
<1> QED
  BY <1>1, <1>2, <1>3, <1>4, <1>5, <1>6, Walks DEF Rets

LEMMA ChdirCheckTree ==
  ASSUME RefInv, TreeInv, NEW p \in Proc, ChdirCheck(p)
  PROVE  TreeInv' /\ NamesStep
<1>1. RefInv' /\ Local(p)
  BY WorkRef DEF Work
<1>2. panic = "" /\ pc[p] = "chdir_check" /\ stage[p] = "iput"
  BY AtIs DEF ChdirCheck
<1>3. ~Counted(p)
  BY <1>2 DEF Counted
<1>4. UNCHANGED <<dinode, entry, target, history, panic>> /\ "idle" \in Calm
  BY DEF ChdirCheck, diskVars, Calm, Nameless
<1>5. CASE PutIp(p)
  BY <1>1, <1>2, <1>3, <1>4, <1>5, Goes
<1>6. CASE itable' = Unlock(itable, ip[p]) /\ Then(p, cwd[p], 0, "idle")
  BY <1>1, <1>2, <1>3, <1>4, <1>6, EndsHere
<1> QED
  BY <1>5, <1>6 DEF ChdirCheck

LEMMA LinkPutTree ==
  ASSUME RefInv, TreeInv, NEW p \in Proc, LinkPut(p)
  PROVE  TreeInv' /\ NamesStep
<1>1. RefInv' /\ Local(p)
  BY WorkRef DEF Work
<1>2. panic = "" /\ pc[p] = "link_put" /\ stage[p] = "iput"
  BY AtIs DEF LinkPut
<1>3. ~Counted(p)
  BY <1>2 DEF Counted
<1>4. UNCHANGED <<dinode, entry, target, history, panic, itable>> /\ "idle" \in Calm /\ Then(p, ip[p], 0, "idle")
  BY DEF LinkPut, diskVars, Calm, Nameless
<1> QED
  BY <1>1, <1>2, <1>3, <1>4, EndsHere

LEMMA UnlinkBadTree ==
  ASSUME RefInv, TreeInv, NEW p \in Proc, UnlinkBad(p)
  PROVE  TreeInv' /\ NamesStep
<1>1. RefInv' /\ Local(p)
  BY WorkRef DEF Work
<1>2. panic = "" /\ pc[p] = "unlink_bad" /\ stage[p] = "iput"
  BY AtIs DEF UnlinkBad
<1>3. ~Counted(p)
  BY <1>2 DEF Counted
<1>4. UNCHANGED <<dinode, entry, target, history, panic>> /\ PutDp(p)
  BY DEF UnlinkBad, diskVars
<1> QED
  BY <1>1, <1>2, <1>3, <1>4, Goes

\* The link is not made: the count of the inode is to be undone.
LEMMA LinkExistsTree ==
  ASSUME RefInv, TreeInv, NEW p \in Proc, LinkExists(p)
  PROVE  TreeInv' /\ NamesStep
<1>1. RefInv' /\ Local(p)
  BY WorkRef DEF Work
<1>2. panic = "" /\ pc[p] = "link_exists" /\ stage[p] = "iput"
  BY AtIs DEF LinkExists
<1>3. /\ UNCHANGED <<dinode, entry, target, lost, leaked, panic, ip>> /\ Then(p, dp[p], ip[p], "link_bad")
      /\ itable' = Unlock(itable, dp[p])
  BY DEF LinkExists, diskVars, history
<1>4. pc'[p] = "link_bad" /\ stage'[p] = "iput"
  BY <1>2, <1>3, RefFacts, ThenIs
<1>5. Counted(p) /\ Counted(p)' /\ Where(p)' = "link_bad"
  BY <1>2, <1>4 DEF Counted, Where
<1>6. Still /\ panic' \in Harmless /\ \A s \in Slot : leaked'[s] >= leaked[s]
  BY <1>2, <1>3, RefFacts, StillTable, LeakedKept, TreeFacts DEF Harmless
<1>7. LinkInv(p)'
  <2>1. ip[p] \in Slot
    BY <1>5, CountedSlot
  <2>2. itable'[ip[p]].inum = itable[ip[p]].inum
    BY <1>6, <2>1 DEF Still
  <2>3. dinode[itable[ip[p]].inum].type # "dir"
    BY <1>2, TreeFacts DEF LinkInv, Where
  <2> QED
    BY <1>3, <2>2, <2>3 DEF LinkInv
<1>9. OwnInv(p)'
  BY <1>4, <1>7 DEF OwnInv, TruncInv, FreshInv, EntryInv
<1> QED
  BY <1>1, <1>2, <1>3, <1>5, <1>6, <1>9, Shuffle

-----------------------------------------------------------------------------
(* Locking an inode *)

LEMMA RefsKept ==
  ASSUME RefInv, \A x \in Slot : itable'[x].ref = itable[x].ref
  PROVE  \A x \in Slot : itable'[x].ref <= itable[x].ref
<1>1. \A x \in Slot : itable[x].ref \in Nat
  BY RefFacts
<1> QED
  BY <1>1

\* What p has is read from disk, where it is alive: no "ilock: no type".
LEMMA IlockSteps ==
  ASSUME RefInv, RefInv', TreeInv, NEW p \in Proc, Local(p), stage[p] = "iput", panic = "",
         NEW s \in Slot, s \in {cur[p], ip[p], dp[p]}, Ilock(p, s), UNCHANGED <<dinode, leaked>>
  PROVE  SlotStep(p) /\ LiveStep(p) /\ panic' = "" /\ \A x \in Slot : itable'[x].inum = itable[x].inum
<1>1. Hold(p, s) > 0 /\ itable[s].inum \in Inum
  BY HeldSlot
<1>2. itable[s].inum # 0 /\ s # 0
  BY <1>1, Constants
<1>3. Live(itable[s].inum)
  <2>1. PICK x \in Pointers : Points(p, x, s)
    BY <1>1, <1>2, HoldPoints
  <2> QED
    BY <2>1, PointedSlot
<1>0. DiskType /\ TableType
  BY RefFacts
<1>4. /\ \A x \in Slot : /\ itable'[x].ref = itable[x].ref /\ itable'[x].inum = itable[x].inum
                         /\ x # s => itable'[x] = itable[x]
      /\ itable[s].valid => ButLock(itable'[s], itable[s]) /\ panic' = panic
      /\ ~itable[s].valid =>
           /\ itable'[s].type = dinode[itable[s].inum].type
           /\ itable'[s].nlink = dinode[itable[s].inum].nlink
           /\ panic' = IF dinode[itable[s].inum].type = "none" THEN "ilock: no type" ELSE ""
  BY <1>0, <1>2, Ilocked
<1>5. panic' = ""
  BY <1>3, <1>4 DEF Live
<1>6. \A x \in Slot : Kept(x) \/ (Hold(p, x) > 0 /\ Renewed(p, x))
  <2>1. \A x \in Slot : x # s => Kept(x)
    BY <1>4 DEF Kept
  <2>2. CASE itable[s].valid
    <3>1. Kept(s)
      BY <1>4, <2>2 DEF Kept, ButLock
    <3> QED
      BY <2>1, <3>1
  <2>3. CASE ~itable[s].valid
    <3>1. OnDisk(s)'
      BY <1>3, <1>4, <2>3 DEF OnDisk, Live
    <3> QED
      BY <1>1, <2>1, <3>1 DEF Renewed
  <2> QED
    BY <2>2, <2>3
<1>7. \A x \in Slot : itable'[x].inum = itable[x].inum /\ itable'[x].ref <= itable[x].ref /\ leaked'[x] >= leaked[x]
  <2>2. \A x \in Slot : itable'[x].ref <= itable[x].ref
    BY <1>4, RefsKept
  <2> QED
    BY <1>4, <2>2, LeakedKept
<1>8. \A x \in Slot : ~Freeing(p, x)
  BY DEF Freeing
<1>9. SlotStep(p) /\ \A x \in Slot : ~Gains(p, x)
  BY <1>6, <1>7, <1>8, Shrinks
<1>10. LiveStep(p)
  BY <1>9, LiveFrom
<1> QED
  BY <1>4, <1>5, <1>9, <1>10

LEMMA IlockTree ==
  ASSUME RefInv, RefInv', TreeInv, NEW p \in Proc, Local(p), stage[p] = "iput", panic = "",
         NEW s \in Slot, s \in {cur[p], ip[p], dp[p]}, Ilock(p, s), UNCHANGED <<diskVars, leaked, lost>>,
         Counted(p)' <=> Counted(p), Counted(p) => ip'[p] = ip[p], OwnInv(p)'
  PROVE  TreeInv' /\ NamesStep
<1>1. SlotStep(p) /\ LiveStep(p) /\ panic' = ""
  BY IlockSteps DEF diskVars
<1>2. UNCHANGED <<dinode, entry, lost>> /\ panic' \in Harmless
  BY <1>1, TreeFacts DEF diskVars, Harmless
<1> QED
  BY <1>1, <1>2, Quiet

\* p goes on to a place where it has nothing to rely on.
LEMMA IlockLeaves ==
  ASSUME RefInv, RefInv', TreeInv, NEW p \in Proc, Local(p), stage[p] = "iput", panic = "",
         NEW s \in Slot, s \in {cur[p], ip[p], dp[p]}, Ilock(p, s), UNCHANGED <<diskVars, leaked, lost>>,
         ~Counted(p), NEW l \in Calm, Goto(p, l)
  PROVE  TreeInv' /\ NamesStep
<1>1. pc'[p] = l /\ stage'[p] = "iput"
  BY RefFacts, GotoIs
<1>3. Where(p)' = pc'[p] /\ ~Counted(p)'
  BY <1>1 DEF Where, Counted, Calm, Nameless
<1>4. OwnInv(p)'
  BY <1>1, <1>3, Away DEF Calm, Nameless
<1> QED
  BY <1>3, <1>4, IlockTree

\* iput and the ilock that comes first leave p where it is.
LEMMA OwnCtl ==
  ASSUME RefInv, RefInv', TreeInv, NEW p \in Proc, Local(p), SlotStep(p),
         UNCHANGED <<pc, ret, cur, ip, dp, rest>>, put'[p] \in {put[p], 0},
         \A x \in Pointers, s \in Slot : Points(p, x, s)' => Points(p, x, s),
         \A i \in Inum : dinode'[i] = dinode[i] \/ (dinode'[i].type # "dir" /\ dinode'[i].nlink = 0),
         entry' = entry \/ put[p] # 0, TruncInv(p)'
  PROVE  OwnInv(p)'
<1>1. FreshInv(p)'
  <2> SUFFICES ASSUME pc[p] = "create_new"
               PROVE  /\ dinode'[itable'[ip[p]].inum].nlink = 0
                      /\ \A q \in Proc, x \in Pointers : Points(q, x, ip[p])' => q = p /\ x = "ip"
    <3>1. FreshInv(p)' <=> (pc[p] = "create_new" => /\ dinode'[itable'[ip[p]].inum].nlink = 0
                      /\ \A q \in Proc, x \in Pointers : Points(q, x, ip[p])' => q = p /\ x = "ip")
      BY DEF FreshInv, Points
    <3> QED
      BY <3>1
  <2>1. ip[p] \in Slot
    BY RefFacts, Constants DEF Good, OwnType, PtrInv, HasIp, Where, IpPcs
  <2>2. PICK s \in Slot : s = ip[p]
    BY <2>1
  <2>3. itable'[s].inum = itable[s].inum /\ itable[s].inum \in Inum
    BY <2>2, HeldSlot DEF SlotStep
  <2>4. dinode[itable[s].inum].nlink = 0 /\ \A q \in Proc, x \in Pointers : Points(q, x, s) => q = p /\ x = "ip"
    BY <2>2, TreeFacts DEF FreshInv
  <2>5. dinode'[itable'[s].inum].nlink = 0
    BY <2>3, <2>4
  <2>6. ASSUME NEW q \in Proc, NEW x \in Pointers, Points(q, x, s)' PROVE q = p /\ x = "ip"
    <3>1. CASE q = p
      BY <2>4, <2>6, <3>1
    <3>2. CASE q # p
      BY <2>4, <2>6, <3>2, RefFacts, LocalSame, SameDeref
    <3> QED
      BY <3>1, <3>2
  <2>7. ip'[p] = s
    BY <2>2
  <2>8. \A q \in Proc, x \in Pointers : Points(q, x, ip[p])' => q = p /\ x = "ip"
    <3> SUFFICES ASSUME NEW q \in Proc, NEW x \in Pointers, Points(q, x, ip[p])' PROVE q = p /\ x = "ip"
      OBVIOUS
    <3>1. Points(q, x, s)'
      BY <2>7 DEF Points
    <3> QED
      BY <2>6, <3>1
  <2> QED
    BY <2>2, <2>5, <2>8
<1>2. EntryInv(p)'
  <2>1. CASE pc[p] \notin {"create_look", "create_new", "link_add", "unlink_remove"}
    BY <2>1 DEF EntryInv
  <2>2. CASE pc[p] \in {"create_look", "create_new", "link_add", "unlink_remove"}
    <3>1. put[p] = 0 /\ entry' = entry /\ EntryInv(p)
      BY <2>2, TreeFacts DEF EntryInv
    <3>2. dp[p] \in Slot
      BY <2>2, RefFacts, Constants DEF Good, OwnType, PtrInv, DpPcs
    <3>3. Dir(p)' = Dir(p) /\ LastName(p)' = LastName(p)
      BY <3>2, HeldSlot DEF SlotStep, Dir, LastName
    <3>4. pc[p] = "unlink_remove" => itable'[ip[p]].inum = itable[ip[p]].inum
      <4> SUFFICES ASSUME pc[p] = "unlink_remove" PROVE itable'[ip[p]].inum = itable[ip[p]].inum
        OBVIOUS
      <4>1. ip[p] \in Slot
        BY RefFacts, Constants DEF Good, OwnType, PtrInv, HasIp, Where, IpPcs
      <4> QED
        BY <4>1, HeldSlot DEF SlotStep
    <3>5. put'[p] = 0 /\ pc'[p] = pc[p] /\ ip'[p] = ip[p]
      BY <3>1
    <3> QED
      BY <3>1, <3>3, <3>4, <3>5 DEF EntryInv
  <2> QED
    BY <2>1, <2>2
<1>3. LinkInv(p)'
  <2>1. Where(p)' = Where(p)
    BY DEF Where
  <2> SUFFICES ASSUME Where(p) \in {"link_parent", "link_add", "link_exists", "link_bad"}
               PROVE  dinode'[itable'[ip[p]].inum].type # "dir"
    BY <2>1 DEF LinkInv
  <2>2. ip[p] \in Slot
    BY RefFacts, Constants DEF Good, OwnType, PtrInv, HasIp, IpPcs
  <2>3. itable'[ip[p]].inum = itable[ip[p]].inum /\ itable[ip[p]].inum \in Inum
    BY <2>2, HeldSlot DEF SlotStep
  <2>4. dinode[itable[ip[p]].inum].type # "dir"
    BY TreeFacts DEF LinkInv
  <2> QED
    BY <2>3, <2>4
<1> QED
  BY <1>1, <1>2, <1>3 DEF OwnInv

LEMMA LockStepTree ==
  ASSUME RefInv, TreeInv, NEW p \in Proc, LockStep(p)
  PROVE  TreeInv' /\ NamesStep
<1>1. RefInv' /\ Local(p)
  BY WorkRef DEF Work
<1>2. panic = "" /\ put[p] = 0 /\ want[p] # 0 /\ stage[p] = "iput" /\ Ilock(p, want[p])
  BY RefFacts DEF LockStep, Good, PtrInv
<1>3. /\ UNCHANGED <<dinode, entry, target, pc, ret, put, stage, cur, ip, dp>>
      /\ UNCHANGED <<call, path, rest, count, cwd, ofile, leaked, lost>>
  BY DEF LockStep, diskVars, ptrVars, argVars, procVars, history
<1>4. want[p] \in Slot /\ want[p] \in {cur[p], ip[p]}
  BY <1>2, RefFacts, Constants DEF Good, PtrInv, OwnType
<1>5. SlotStep(p) /\ LiveStep(p)
  BY <1>1, <1>2, <1>3, <1>4, IlockSteps
<1>6. \A x \in Pointers, s \in Slot : Points(p, x, s)' => Points(p, x, s)
  BY <1>3 DEF Points, Deref, Pointers
<1>7. TruncInv(p)'
  BY <1>2, <1>3 DEF TruncInv
<1>8. OwnInv(p)'
  BY <1>1, <1>3, <1>5, <1>6, <1>7, OwnCtl
<1>9. (Counted(p)' <=> Counted(p)) /\ ip'[p] = ip[p]
  BY <1>3 DEF Counted
<1> QED
  BY <1>1, <1>2, <1>3, <1>4, <1>8, <1>9, IlockTree DEF diskVars

LEMMA ResumeCases ==
  ASSUME RefInv, NEW p \in Proc, NEW take, NEW l, Resume(p, take, l)
  PROVE  /\ UNCHANGED <<dinode, entry, target, leaked, lost, history, call, path, rest>>
         /\ \/ itable' = itable /\ Goto(p, "idle") /\ panic' = panic
            \/ cur[p] \in Slot /\ Ilock(p, cur[p]) /\ Goto(p, l) /\ take
<1>1. cur[p] \in Pointer
  BY RefFacts DEF Good, OwnType
<1> QED
  BY <1>1, Constants DEF Resume, diskVars, history, argVars

LEMMA CreateTree ==
  ASSUME RefInv, TreeInv, NEW p \in Proc, Create(p)
  PROVE  TreeInv' /\ NamesStep
<1>1. RefInv' /\ Local(p)
  BY WorkRef DEF Work
<1>2. panic = "" /\ pc[p] = "create" /\ stage[p] = "iput"
  BY AtIs DEF Create
<1>3. ~Counted(p)
  BY <1>2 DEF Counted
<1>4. /\ UNCHANGED <<dinode, entry, target, leaked, lost, history, rest>>
      /\ \/ itable' = itable /\ Goto(p, "idle") /\ panic' = panic
         \/ cur[p] \in Slot /\ Ilock(p, cur[p]) /\ Goto(p, "create_look")
  BY ResumeCases DEF Create
<1>5. CASE itable' = itable /\ Goto(p, "idle") /\ panic' = panic
  BY <1>1, <1>2, <1>3, <1>4, <1>5, Goes DEF Calm, Nameless
<1>6. CASE cur[p] \in Slot /\ Ilock(p, cur[p]) /\ Goto(p, "create_look")
  <2>1. pc'[p] = "create_look" /\ stage'[p] = "iput" /\ put'[p] = 0 /\ rest'[p] = rest[p]
    BY <1>2, <1>4, <1>6, RefFacts, GotoIs
  <2>3. Where(p)' = "create_look" /\ ~Counted(p)'
    BY <2>1 DEF Where, Counted
  <2>4. EntryInv(p)'
    BY <2>1 DEF EntryInv
  <2>6. OwnInv(p)'
    BY <2>1, <2>3, <2>4 DEF OwnInv, TruncInv, FreshInv, LinkInv
  <2> QED
    BY <1>1, <1>2, <1>3, <1>4, <1>6, <2>3, <2>6, IlockTree DEF diskVars
<1> QED
  BY <1>4, <1>5, <1>6

LEMMA LinkTree ==
  ASSUME RefInv, TreeInv, NEW p \in Proc, Link(p)
  PROVE  TreeInv' /\ NamesStep
<1>1. RefInv' /\ Local(p)
  BY WorkRef DEF Work
<1>2. panic = "" /\ pc[p] = "link" /\ stage[p] = "iput"
  BY AtIs DEF Link
<1>3. ~Counted(p) /\ "idle" \in Calm /\ "link_inc" \in Calm
  BY <1>2 DEF Counted, Calm, Nameless
<1>4. /\ UNCHANGED <<dinode, entry, target, leaked, lost, history>>
      /\ \/ itable' = itable /\ Goto(p, "idle") /\ panic' = panic
         \/ cur[p] \in Slot /\ Ilock(p, cur[p]) /\ Goto(p, "link_inc")
  BY ResumeCases DEF Link
<1>5. CASE itable' = itable /\ Goto(p, "idle") /\ panic' = panic
  BY <1>1, <1>2, <1>3, <1>4, <1>5, Goes
<1>6. CASE cur[p] \in Slot /\ Ilock(p, cur[p]) /\ Goto(p, "link_inc")
  BY <1>1, <1>2, <1>3, <1>4, <1>6, IlockLeaves DEF diskVars
<1> QED
  BY <1>4, <1>5, <1>6

LEMMA UnlinkTree ==
  ASSUME RefInv, TreeInv, NEW p \in Proc, Unlink(p)
  PROVE  TreeInv' /\ NamesStep
<1>1. RefInv' /\ Local(p)
  BY WorkRef DEF Work
<1>2. panic = "" /\ pc[p] = "unlink" /\ stage[p] = "iput"
  BY AtIs DEF Unlink
<1>3. ~Counted(p) /\ "idle" \in Calm /\ "unlink_look" \in Calm
  BY <1>2 DEF Counted, Calm, Nameless
<1>4. /\ UNCHANGED <<dinode, entry, target, leaked, lost, history>>
      /\ \/ itable' = itable /\ Goto(p, "idle") /\ panic' = panic
         \/ cur[p] \in Slot /\ Ilock(p, cur[p]) /\ Goto(p, "unlink_look")
  BY ResumeCases DEF Unlink
<1>5. CASE itable' = itable /\ Goto(p, "idle") /\ panic' = panic
  BY <1>1, <1>2, <1>3, <1>4, <1>5, Goes
<1>6. CASE cur[p] \in Slot /\ Ilock(p, cur[p]) /\ Goto(p, "unlink_look")
  BY <1>1, <1>2, <1>3, <1>4, <1>6, IlockLeaves DEF diskVars
<1> QED
  BY <1>4, <1>5, <1>6

LEMMA ReadlinkFoundTree ==
  ASSUME RefInv, TreeInv, NEW p \in Proc, ReadlinkFound(p)
  PROVE  TreeInv' /\ NamesStep
<1>1. RefInv' /\ Local(p)
  BY WorkRef DEF Work
<1>2. panic = "" /\ pc[p] = "readlink_found" /\ stage[p] = "iput"
  BY AtIs DEF ReadlinkFound
<1>3. ~Counted(p)
  BY <1>2 DEF Counted
<1>4. /\ UNCHANGED <<dinode, entry, target, leaked, lost, path, rest>>
      /\ \/ itable' = itable /\ ReadlinkDone(p) /\ panic' = panic
         \/ cur[p] \in Slot /\ Ilock(p, cur[p]) /\ Goto(p, "readlink_read")
  <2>1. cur[p] \in Pointer
    BY RefFacts DEF Good, OwnType
  <2> QED
    BY <2>1, Constants DEF ReadlinkFound, diskVars, argVars, history
<1>5. CASE itable' = itable /\ ReadlinkDone(p) /\ panic' = panic
  BY <1>1, <1>2, <1>4, <1>5, LeakedKept, ReadlinkDoneTree
<1>6. CASE cur[p] \in Slot /\ Ilock(p, cur[p]) /\ Goto(p, "readlink_read")
  <2>1. pc'[p] = "readlink_read" /\ stage'[p] = "iput" /\ path'[p] = path[p]
    BY <1>2, <1>4, <1>6, RefFacts, GotoIs
  <2>3. Where(p)' = "readlink_read" /\ ~Counted(p)'
    BY <2>1 DEF Where, Counted
  <2>5. OwnInv(p)'
    BY <2>1, <2>3, Away
  <2> QED
    BY <1>1, <1>2, <1>3, <1>4, <1>6, <2>3, <2>5, IlockTree DEF diskVars
<1> QED
  BY <1>4, <1>5, <1>6

LEMMA ChdirLockTree ==
  ASSUME RefInv, TreeInv, NEW p \in Proc, ChdirLock(p)
  PROVE  TreeInv' /\ NamesStep
<1>1. RefInv' /\ Local(p)
  BY WorkRef DEF Work
<1>2. panic = "" /\ pc[p] = "chdir_lock" /\ stage[p] = "iput"
  BY AtIs DEF ChdirLock
<1>3. ~Counted(p) /\ "chdir_check" \in Calm
  BY <1>2 DEF Counted, Calm, Nameless
<1>4. UNCHANGED <<call, path, count, procVars, lost>>
  BY DEF ChdirLock
<1>5. CASE Halt("ilock")
  BY <1>2, <1>4, <1>5, HaltTree DEF Harmless
<1>6. CASE cur[p] # 0 /\ Ilock(p, cur[p]) /\ Goto(p, "chdir_check") /\ UNCHANGED <<diskVars, leaked>>
  <2>1. cur[p] \in Slot
    BY <1>6, RefFacts, Constants DEF Good, OwnType
  <2> QED
    BY <1>1, <1>2, <1>3, <1>4, <1>6, <2>1, IlockLeaves
<1> QED
  BY <1>5, <1>6 DEF ChdirLock

LEMMA LinkParentTree ==
  ASSUME RefInv, TreeInv, NEW p \in Proc, LinkParent(p)
  PROVE  TreeInv' /\ NamesStep
<1>1. RefInv' /\ Local(p)
  BY WorkRef DEF Work
<1>2. panic = "" /\ pc[p] = "link_parent" /\ stage[p] = "iput"
  BY AtIs DEF LinkParent
<1> DEFINE s == IF cur[p] = 0 THEN ip[p] ELSE cur[p]
           l == IF cur[p] = 0 THEN "link_bad" ELSE "link_add"
<1>3. Ilock(p, s) /\ Goto(p, l) /\ UNCHANGED <<dinode, entry, target, leaked, lost, ip, rest, diskVars>>
  BY DEF LinkParent, diskVars, argVars, history
<1>4. Counted(p)
  BY <1>2 DEF Counted
<1>5. ip[p] \in Slot
  BY <1>4, CountedSlot
<1>6. s \in Slot /\ s \in {cur[p], ip[p], dp[p]}
  BY <1>5, RefFacts, Constants DEF Good, OwnType
<1>7. pc'[p] = l /\ stage'[p] = "iput" /\ put'[p] = 0 /\ rest'[p] = rest[p] /\ ip'[p] = ip[p]
  BY <1>2, <1>3, RefFacts, GotoIs
<1>8. \A x \in Slot : itable'[x].inum = itable[x].inum
  BY <1>1, <1>2, <1>3, <1>6, IlockSteps
<1>9. Counted(p)' /\ Where(p)' = l
  BY <1>7 DEF Counted, Where
<1>10. LinkInv(p)'
  <2>1. dinode[itable[ip[p]].inum].type # "dir"
    BY <1>2, TreeFacts DEF LinkInv, Where
  <2> QED
    BY <1>3, <1>5, <1>7, <1>8, <2>1 DEF LinkInv
<1>11. EntryInv(p)'
  BY <1>7 DEF EntryInv
<1>12. OwnInv(p)'
  BY <1>7, <1>10, <1>11 DEF OwnInv, TruncInv, FreshInv
<1> HIDE DEF s, l
<1> QED
  BY <1>1, <1>2, <1>3, <1>4, <1>6, <1>7, <1>9, <1>12, IlockTree

-----------------------------------------------------------------------------
(* iput *)

\* A step of iput that does not touch the disk
LEMMA CtlTree ==
  ASSUME RefInv, RefInv', TreeInv, NEW p \in Proc, Local(p), panic = "",
         \A s \in Slot : itable'[s].inum = itable[s].inum /\ itable'[s].ref <= itable[s].ref,
         \A s \in Slot : Kept(s) \/ (Hold(p, s) > 0 /\ Renewed(p, s)),
         \A s \in Slot : Freeing(p, s) => ~itable'[s].valid,
         UNCHANGED <<dinode, entry, target, leaked, lost, panic>>, UNCHANGED <<pc, ret, cur, ip, dp, rest>>,
         put'[p] \in {put[p], 0}, \A x \in Pointers, s \in Slot : Points(p, x, s)' => Points(p, x, s), TruncInv(p)'
  PROVE  TreeInv' /\ NamesStep
<1>1. SlotStep(p) /\ \A s \in Slot : ~Gains(p, s)
  <2>1. \A s \in Slot : itable'[s].inum = itable[s].inum /\ itable'[s].ref <= itable[s].ref /\ leaked'[s] >= leaked[s]
    BY LeakedKept
  <2> QED
    BY <2>1, Shrinks
<1>2. LiveStep(p)
  <2>1. ASSUME NEW x \in Pointers, NEW s \in Slot, Points(p, x, s)'
        PROVE  Live(itable[s].inum)' /\ \E y \in Pointers : Points(p, y, s)
    <3>1. Points(p, x, s)
      BY <2>1
    <3>2. Live(itable[s].inum)
      BY <3>1, PointedSlot
    <3> QED
      BY <3>1, <3>2 DEF Live
  <2> QED
    BY <1>1, <2>1 DEF LiveStep
<1>3. OwnInv(p)'
  BY <1>1, OwnCtl
<1>4. (Counted(p)' <=> Counted(p)) /\ ip'[p] = ip[p] /\ panic' \in Harmless
  BY TreeFacts DEF Counted, Harmless
<1> QED
  BY <1>1, <1>2, <1>3, <1>4, Quiet

LEMMA RefsLess ==
  ASSUME RefInv, NEW s, \A x \in Slot : itable'[x].ref = itable[x].ref - Is(x, s)
  PROVE  \A x \in Slot : itable'[x].ref <= itable[x].ref
<1> SUFFICES ASSUME NEW x \in Slot PROVE itable'[x].ref <= itable[x].ref
  OBVIOUS
<1>1. itable[x].ref \in Nat
  BY RefFacts
<1>2. itable'[x].ref = itable[x].ref - (IF x = s THEN 1 ELSE 0)
  BY DEF Is
<1> QED
  BY <1>1, <1>2

LEMMA PutDoneTree ==
  ASSUME RefInv, RefInv', TreeInv, NEW p \in Proc, Local(p), panic = "", put[p] # 0, PutDone(p),
         stage[p] # "iput_invalid",
         UNCHANGED <<dinode, entry, target, leaked, lost, panic>>, UNCHANGED <<cur, ip, dp, rest, cwd, ofile>>
  PROVE  TreeInv' /\ NamesStep
<1>1. put[p] \in Slot /\ TableType /\ ProcType
  BY RefFacts, Constants DEF Good, OwnType
<1>2. itable[put[p]].ref > 0
  BY <1>1, HeldSlot
<1>3. /\ itable' = [itable EXCEPT ![put[p]].ref = @ - 1] /\ put' = [put EXCEPT ![p] = 0]
      /\ UNCHANGED <<pc, ret>>
  BY DEF PutDone
<1>4. \A x \in Slot : itable'[x].ref = itable[x].ref - Is(x, put[p]) /\ ButRef(itable'[x], itable[x])
  BY <1>1, <1>2, <1>3, DropTable
<1>5. \A x \in Slot : itable'[x].ref <= itable[x].ref
  BY <1>4, RefsLess
<1>6. \A x \in Slot : itable'[x].inum = itable[x].inum /\ Kept(x)
  BY <1>4 DEF ButRef, Kept
<1>7. put'[p] = 0
  BY <1>1, <1>3 DEF ProcType
<1>8. \A x \in Pointers, s \in Slot : Points(p, x, s)' => Points(p, x, s)
  BY <1>7, Constants DEF Points, Deref, Pointers
<1>9. TruncInv(p)' /\ \A s \in Slot : ~Freeing(p, s)
  BY <1>7 DEF TruncInv, Freeing
<1> QED
  BY <1>3, <1>5, <1>6, <1>7, <1>8, <1>9, CtlTree

LEMMA IputTree ==
  ASSUME RefInv, TreeInv, NEW p \in Proc, Iput(p)
  PROVE  TreeInv' /\ NamesStep
<1>1. RefInv' /\ Local(p)
  BY WorkRef DEF Work
<1>2. panic = "" /\ put[p] # 0 /\ stage[p] = "iput"
  BY DEF Iput, Putting
<1>3. UNCHANGED <<dinode, entry, target, leaked, lost, panic>> /\ UNCHANGED <<cur, ip, dp, rest, cwd, ofile>>
  BY DEF Iput, diskVars, ptrVars, argVars, procVars, history
<1>4. CASE PutDone(p)
  BY <1>1, <1>2, <1>3, <1>4, PutDoneTree
<1>5. CASE LastRef(put[p]) /\ itable' = [itable EXCEPT ![put[p]].lock = p] /\ Stage(p, "iput_trunc")
  <2>1. put[p] \in Slot /\ itable \in [Slot -> Inode]
    BY <1>2, RefFacts, Constants DEF Good, OwnType, TableType
  <2>2. UNCHANGED <<pc, ret, put>> /\ stage'[p] = "iput_trunc"
    BY <1>5, RefFacts DEF Stage, ProcType
  <2>3. \A x \in Slot : /\ itable'[x].inum = itable[x].inum /\ itable'[x].ref = itable[x].ref
                        /\ itable'[x].valid = itable[x].valid /\ itable'[x].type = itable[x].type
                        /\ itable'[x].nlink = itable[x].nlink
    BY <1>5, <2>1 DEF Inode
  <2>4. \A x \in Slot : itable'[x].inum = itable[x].inum /\ itable'[x].ref <= itable[x].ref /\ Kept(x)
    <3>1. \A x \in Slot : itable'[x].ref <= itable[x].ref
      BY <2>3, RefsKept
    <3> QED
      BY <1>3, <2>3, <3>1 DEF Kept
  <2>5. TruncInv(p)'
    BY <1>5, <2>1, <2>2, <2>3 DEF TruncInv, LastRef
  <2>6. \A x \in Pointers, s \in Slot : Points(p, x, s)' => Points(p, x, s)
    BY <1>2, <1>3, <2>2 DEF Points, Deref, Pointers
  <2>7. \A s \in Slot : ~Freeing(p, s)
    BY <1>2 DEF Freeing
  <2>8. put'[p] \in {put[p], 0}
    BY <2>2
  <2> QED
    BY <1>1, <1>2, <1>3, <2>2, <2>4, <2>5, <2>6, <2>7, <2>8, CtlTree
<1> QED
  BY <1>4, <1>5 DEF Iput

LEMMA IputInvalidTree ==
  ASSUME RefInv, TreeInv, NEW p \in Proc, IputInvalid(p)
  PROVE  TreeInv' /\ NamesStep
<1>1. RefInv' /\ Local(p)
  BY WorkRef DEF Work
<1>2. panic = "" /\ put[p] # 0 /\ stage[p] = "iput_invalid"
  BY DEF IputInvalid, Putting
<1>3. UNCHANGED <<dinode, entry, target, leaked, lost, panic>> /\ UNCHANGED <<cur, ip, dp, rest, cwd, ofile>>
  BY DEF IputInvalid, diskVars, ptrVars, argVars, procVars, history
<1>4. itable' = [Unlock(itable, put[p]) EXCEPT ![put[p]].valid = FALSE] /\ Stage(p, "iput_drop")
  BY DEF IputInvalid
<1>5. put[p] \in Slot /\ itable \in [Slot -> Inode]
  BY <1>2, RefFacts, Constants DEF Good, OwnType, TableType
<1>6. UNCHANGED <<pc, ret, put>> /\ stage'[p] = "iput_drop"
  BY <1>4, RefFacts DEF Stage, ProcType
<1>7. /\ \A x \in Slot : itable'[x].inum = itable[x].inum /\ itable'[x].ref = itable[x].ref
      /\ \A x \in Slot : x # put[p] => itable'[x] = itable[x]
      /\ ~itable'[put[p]].valid
  BY <1>4, <1>5 DEF Unlock, Inode
<1>8. \A x \in Slot : itable'[x].inum = itable[x].inum /\ itable'[x].ref <= itable[x].ref
  BY <1>7, RefsKept
<1>9. \A x \in Slot : Kept(x) \/ (Hold(p, x) > 0 /\ Renewed(p, x))
  <2>1. \A x \in Slot : x # put[p] => Kept(x)
    BY <1>3, <1>7 DEF Kept
  <2>2. Hold(p, put[p]) > 0 /\ Renewed(p, put[p])
    BY <1>5, <1>7, HeldSlot DEF Renewed
  <2> QED
    BY <2>1, <2>2
<1>10. TruncInv(p)' /\ \A s \in Slot : Freeing(p, s) => ~itable'[s].valid
  BY <1>6, <1>7 DEF TruncInv, Freeing
<1>11. \A x \in Pointers, s \in Slot : Points(p, x, s)' => Points(p, x, s)
  BY <1>2, <1>3, <1>6 DEF Points, Deref, Pointers
<1>12. put'[p] \in {put[p], 0}
  BY <1>6
<1> QED
  BY <1>1, <1>2, <1>3, <1>6, <1>8, <1>9, <1>10, <1>11, <1>12, CtlTree

LEMMA IputDropTree ==
  ASSUME RefInv, TreeInv, NEW p \in Proc, IputDrop(p)
  PROVE  TreeInv' /\ NamesStep
<1>1. RefInv' /\ Local(p)
  BY WorkRef DEF Work
<1>2. panic = "" /\ put[p] # 0 /\ stage[p] = "iput_drop" /\ PutDone(p)
  BY DEF IputDrop, Putting
<1>3. UNCHANGED <<dinode, entry, target, leaked, lost, panic>> /\ UNCHANGED <<cur, ip, dp, rest, cwd, ofile>>
  BY DEF IputDrop, diskVars, ptrVars, argVars, procVars, history
<1> QED
  BY <1>1, <1>2, <1>3, PutDoneTree

\* Nobody but the iput that frees it knows the inode, by a name or a pointer.
LEMMA TruncAlone ==
  ASSUME RefInv, TreeInv, NEW p \in Proc, put[p] # 0, stage[p] = "iput_trunc",
         NEW s \in Slot, s = put[p], NEW i, i = itable[s].inum
  PROVE  /\ i \in Inum /\ Live(i) /\ dinode[i].nlink = 0 /\ Locks(p, s) /\ Hold(p, s) > 0 /\ itable[s].ref > 0
         /\ OnlyPut(p, i)
         /\ NamesOf(entry, i) = {} /\ i # ROOTINO /\ Cardinality(InFlight(i)) = 0 /\ i \notin lost
<1>1. LastRef(s)
  BY TreeFacts DEF TruncInv
<1>2. Locks(p, s) /\ ~Freeing(p, s) /\ Hold(p, s) > 0
  BY HeldSlot DEF Locks, Truncating, Freeing
<1>3. OnDisk(s) /\ itable[s].ref > 0 /\ itable[s].inum \in Inum /\ itable[s].ref = 1 /\ itable[s].nlink = 0
  BY <1>1, <1>2, LockedOnDisk DEF LastRef
<1>4. i \in Inum /\ Live(i) /\ dinode[i].nlink = 0
  BY <1>3 DEF OnDisk
<1>5. Hold(p, s) = 1 /\ \A q \in Proc : q # p => Hold(q, s) = 0
  BY <1>2, <1>3, OneHolder
<1>6. ASSUME NEW q \in Proc, NEW x \in Pointers, NEW t \in Slot, Deref(q, x) = t, itable[t].inum = i
      PROVE  q = p /\ x = "put"
  <2>1. t \in {cur[q], ip[q], dp[q], put[q], cwd[q], ofile[q]}
    BY <1>6 DEF Deref, Pointers
  <2>2. Hold(q, t) > 0 /\ itable[t].ref > 0
    BY <2>1, HeldSlot
  <2>3. t = s
    BY <1>3, <1>6, <2>2, OneSlot
  <2>4. q = p
    BY <1>5, <2>2, <2>3
  <2>5. SUFFICES ASSUME x # "put" PROVE FALSE
    BY <2>4
  <2>6. s \in {cur[p], ip[p], dp[p], cwd[p], ofile[p]}
    BY <1>6, <2>3, <2>4, <2>5 DEF Deref, Pointers
  <2>7. Hold(p, s) >= 2
    BY <2>6 DEF Hold, Is
  <2> QED
    BY <1>5, <2>7
<1>7. /\ NamesOf(entry, i) = {} /\ i # ROOTINO /\ Cardinality(InFlight(i)) = 0 /\ i \notin lost
  <2> DEFINE a == Cardinality(NamesOf(entry, i))
             b == Cardinality(Subdirs(entry, TypeOf, i))
             f == Cardinality(InFlight(i))
             r == IF i = ROOTINO THEN 1 ELSE 0
             m == dinode[i].nlink
             k == Links(entry, TypeOf, i)
  <2>1. IsFiniteSet(NamesOf(entry, i)) /\ a \in Nat /\ b \in Nat /\ f \in Nat /\ r \in Nat /\ m = 0
    BY <1>4, LinksFinite, FlightFinite
  <2>2. k = a + b + r
    BY DEF Links
  <2>3. IF i \in lost THEN m > k + f ELSE m = k + f
    BY <1>4, TreeFacts DEF LinksExact, TypeOf
  <2> HIDE DEF a, b, f, r, m, k
  <2>4. a = 0 /\ r = 0 /\ f = 0 /\ i \notin lost
    BY <2>1, <2>2, <2>3
  <2>5. NamesOf(entry, i) = {}
    BY <2>1, <2>4, FS_EmptySet DEF a
  <2> QED
    BY <2>4, <2>5 DEF r, f
<1>8. OnlyPut(p, i)
  BY <1>6 DEF OnlyPut
<1> QED
  BY <1>2, <1>3, <1>4, <1>7, <1>8

LEMMA TruncLinks ==
  ASSUME RefInv, TreeInv, NEW p \in Proc, Local(p), SlotStep(p), \A j : Flies(p, j)' = Flies(p, j),
         NEW i \in Inum, NamesOf(entry, i) = {}, i # ROOTINO, Cardinality(InFlight(i)) = 0,
         entry' = [entry EXCEPT ![i] = Empty],
         dinode' = [dinode EXCEPT ![i] = [type |-> "none", nlink |-> 0]],
         lost' = (lost \cup {entry[i][n] : n \in Name}) \ {0, i}
  PROVE  LinksExact'
<1>0. entry \in [Inum -> [Entries -> Inum \cup {0}]] /\ dinode \in [Inum -> [type : Types, nlink : Int]]
  BY RefFacts DEF DiskType
<1>1. /\ \A n \in Name : entry'[i][n] = 0
      /\ \A j \in Inum : j # i => entry'[j] = entry[j] /\ dinode'[j] = dinode[j] /\ TypeOf'[j] = TypeOf[j]
      /\ dinode'[i].nlink = 0
  BY <1>0, EmptyEntry DEF TypeOf
<1>2. ASSUME NEW d \in Inum, NEW n \in Name PROVE entry[d][n] # i
  <2>1. entry[d][n] = i => <<d, n>> \in NamesOf(entry, i)
    BY DEF NamesOf
  <2> QED
    BY <2>1
<1> SUFFICES ASSUME NEW j \in Inum
             PROVE  LET links == Links(entry', TypeOf', j) + Cardinality(InFlight(j))'
                    IN  IF j \in lost' THEN dinode'[j].nlink > links ELSE dinode'[j].nlink = links
  BY DEF LinksExact, TypeOf
<1> DEFINE a == Cardinality(NamesOf(entry, j))
           b == Cardinality(Subdirs(entry, TypeOf, j))
           x == Cardinality(NamesOf(entry', j))
           y == Cardinality(Subdirs(entry', TypeOf', j))
           f == Cardinality(InFlight(j))
           g == Cardinality(InFlight(j))'
           r == IF j = ROOTINO THEN 1 ELSE 0
           k == Links(entry, TypeOf, j)
           l == Links(entry', TypeOf', j)
           m == dinode[j].nlink
           n == dinode'[j].nlink
<1>3. a \in Nat /\ b \in Nat /\ x \in Nat /\ y \in Nat /\ f \in Nat /\ r \in Nat /\ k = a + b + r /\ l = x + y + r /\ m \in Int
  BY <1>0, LinksFinite, FlightFinite DEF Links
<1>4. g = f
  <2> DEFINE h == Flies(p, j)
             u == Flies(p, j)'
  <2>1. g = f - h + u /\ f \in Nat
    BY FlightMove
  <2>2. u = h /\ h \in Nat
    BY DEF Flies
  <2> HIDE DEF f, g, h, u
  <2> QED
    BY <2>1, <2>2
<1>5. IF j \in lost THEN m > k + f ELSE m = k + f
  BY TreeFacts DEF LinksExact, TypeOf
<1>6. NamesOf(entry', j) \subseteq NamesOf(entry, j) /\ IsFiniteSet(NamesOf(entry, j))
  <2>1. j # 0
    BY Constants
  <2>2. \A d \in Inum, e \in Name : entry'[d][e] = j => entry[d][e] = j
    BY <1>1, <2>1
  <2>3. NamesOf(entry', j) \subseteq NamesOf(entry, j)
    BY <2>2 DEF NamesOf
  <2> QED
    BY <2>3, LinksFinite
<1>7. CASE j = i
  <2>1. NamesOf(entry', j) = {} /\ Subdirs(entry', TypeOf', j) = {}
    BY <1>1, <1>6, <1>7 DEF Subdirs
  <2>2. x = 0 /\ y = 0 /\ r = 0 /\ f = 0
    BY <1>7, <2>1, FS_EmptySet
  <2>3. j \notin lost' /\ n = 0
    BY <1>1, <1>7
  <2> HIDE DEF a, b, x, y, f, g, r, k, l, m, n
  <2>4. n = l + g
    BY <1>3, <1>4, <2>2, <2>3
  <2> QED
    BY <2>3, <2>4 DEF l, g, n
<1>8. CASE j # i
  <2>1. Subdirs(entry', TypeOf', j) = Subdirs(entry, TypeOf, j)
    <3>1. \A e \in Name : entry[j][e] # i /\ entry'[j][e] = entry[j][e] /\ entry[j][e] \in Inum \cup {0}
      BY <1>0, <1>1, <1>2, <1>8, Constants DEF Entries
    <3>2. \A e \in Name : entry[j][e] # 0 => TypeOf'[entry[j][e]] = TypeOf[entry[j][e]]
      BY <1>1, <3>1
    <3> QED
      BY <3>1, <3>2 DEF Subdirs
  <2>2. y = b /\ n = m
    BY <1>1, <1>8, <2>1
  <2>3. CASE \E e \in Name : entry[i][e] = j
    <3>1. PICK e \in Name : entry[i][e] = j
      BY <2>3
    <3>2. <<i, e>> \in NamesOf(entry, j) /\ <<i, e>> \notin NamesOf(entry', j)
      BY <1>1, <3>1, Constants DEF NamesOf
    <3>3. x < a
      <4>1. NamesOf(entry', j) # NamesOf(entry, j)
        BY <3>2
      <4>2. x <= a /\ a # x
        BY <1>6, <4>1, FS_Subset
      <4> HIDE DEF a, x
      <4> QED
        BY <1>3, <4>2
    <3>4. j \in lost'
      BY <1>8, <3>1, Constants
    <3> HIDE DEF a, b, x, y, f, g, r, k, l, m, n
    <3>5. n > l + g
      BY <1>3, <1>4, <1>5, <2>2, <3>3
    <3> QED
      BY <3>4, <3>5 DEF l, g, n
  <2>4. CASE ~\E e \in Name : entry[i][e] = j
    <3>1. NamesOf(entry', j) = NamesOf(entry, j)
      <4>1. \A d \in Inum, e \in Name : entry'[d][e] = j <=> entry[d][e] = j
        <5>1. \A e \in Name : entry'[i][e] # j /\ entry[i][e] # j
          BY <1>1, <2>4, Constants
        <5> QED
          BY <1>1, <5>1
      <4> QED
        BY <4>1 DEF NamesOf
    <3>2. x = a
      BY <3>1
    <3>3. j \in lost' <=> j \in lost
      BY <1>8, <2>4, Constants
    <3> HIDE DEF a, b, x, y, f, g, r, k, l, m, n
    <3>4. IF j \in lost THEN n > l + g ELSE n = l + g
      BY <1>3, <1>4, <1>5, <2>2, <3>2
    <3> QED
      BY <3>3, <3>4 DEF l, g, n
  <2> QED
    BY <2>3, <2>4
<1> QED
  BY <1>7, <1>8

LEMMA FreeStep ==
  ASSUME NEW i \in Inum, Live(i), NamesOf(entry, i) = {}, \A q \in Proc : i \notin InodesOf(q),
         entry \in [Inum -> [Entries -> Inum \cup {0}]], dinode \in [Inum -> [type : Types, nlink : Int]],
         entry' = [entry EXCEPT ![i] = Empty],
         dinode' = [dinode EXCEPT ![i] = [type |-> "none", nlink |-> 0]], HeldNow' = HeldNow
  PROVE  NamesStep
<1>1. \A n \in Name : entry'[i][n] = 0
  BY EmptyEntry
<1>2. Alive' = Alive \ {i} /\ i \in Alive
  BY DEF Alive, Live
<1>3. NamesNow' = [NamesNow EXCEPT ![i] = [n \in Name |-> 0]]
  <2>1. \A j \in Inum : NamesNow'[j] = IF j = i THEN [n \in Name |-> 0] ELSE NamesNow[j]
    BY <1>1 DEF NamesNow
  <2> QED
    BY <2>1 DEF NamesNow
<1>4. \A d \in Alive, n \in Name : NamesNow[d][n] # i
  <2> SUFFICES ASSUME NEW d \in Inum, NEW n \in Name, entry[d][n] = i PROVE FALSE
    BY DEF Alive, NamesNow
  <2>1. <<d, n>> \in NamesOf(entry, i)
    BY DEF NamesOf
  <2> QED
    BY <2>1
<1>5. \A q \in Proc : i \notin HeldNow[q]
  BY DEF HeldNow
<1>6. Promise!Free(i)
  BY <1>2, <1>3, <1>4, <1>5 DEF Promise!Free, Promise!Named, Promise!Held, Promise!NoNames, Alive, NamesNow, HeldNow
<1> QED
  BY <1>6 DEF NamesStep, Promise!Next

LEMMA IputTruncTree ==
  ASSUME RefInv, TreeInv, NEW p \in Proc, IputTrunc(p)
  PROVE  TreeInv' /\ NamesStep
<1>1. RefInv' /\ Local(p)
  BY WorkRef DEF Work
<1>2. panic = "" /\ put[p] # 0 /\ stage[p] = "iput_trunc"
  BY DEF IputTrunc, Putting
<1>3. PICK s \in Slot : s = put[p]
  BY <1>2, RefFacts, Constants DEF Good, OwnType
<1>4. PICK i : i = itable[s].inum
  OBVIOUS
<1>5. /\ entry' = [entry EXCEPT ![i] = Empty]
      /\ target' = [target EXCEPT ![i] = <<>>]
      /\ dinode' = [dinode EXCEPT ![i] = [type |-> "none", nlink |-> 0]]
      /\ itable' = [itable EXCEPT ![s].type = "none"]
      /\ lost' = (lost \cup {entry[i][n] : n \in Name}) \ {0, i}
      /\ Stage(p, "iput_invalid") /\ panic' = panic /\ leaked' = leaked
  BY <1>3, <1>4 DEF IputTrunc
<1>6. UNCHANGED <<cur, ip, dp, rest, path, cwd, ofile>>
  BY DEF IputTrunc, ptrVars, argVars, procVars
<1>7. UNCHANGED <<pc, ret, put>> /\ stage'[p] = "iput_invalid" /\ put'[p] = s
  BY <1>3, <1>5, RefFacts DEF Stage, ProcType
<1>0. /\ i \in Inum /\ Live(i) /\ dinode[i].nlink = 0 /\ Locks(p, s) /\ Hold(p, s) > 0 /\ itable[s].ref > 0
      /\ OnlyPut(p, i)
      /\ NamesOf(entry, i) = {} /\ i # ROOTINO /\ Cardinality(InFlight(i)) = 0 /\ i \notin lost
  BY <1>2, <1>3, <1>4, TruncAlone
<1>8. /\ i \in Inum /\ Live(i) /\ dinode[i].nlink = 0 /\ Locks(p, s) /\ Hold(p, s) > 0 /\ itable[s].ref > 0
      /\ \A q \in Proc, x \in Pointers, t \in Slot : Deref(q, x) = t /\ itable[t].inum = i => q = p /\ x = "put"
      /\ NamesOf(entry, i) = {} /\ i # ROOTINO /\ Cardinality(InFlight(i)) = 0 /\ i \notin lost
  BY <1>0 DEF OnlyPut
<1>9. /\ entry \in [Inum -> [Entries -> Inum \cup {0}]] /\ dinode \in [Inum -> [type : Types, nlink : Int]]
      /\ target \in [Inum -> Paths] /\ itable \in [Slot -> Inode]
  BY RefFacts DEF DiskType, TableType
<1>10. /\ \A j \in Inum : j # i => dinode'[j] = dinode[j] /\ entry'[j] = entry[j] /\ target'[j] = target[j]
       /\ dinode'[i].type = "none" /\ dinode'[i].nlink = 0 /\ target'[i] = <<>> /\ entry'[i] = Empty
  BY <1>5, <1>8, <1>9
<1>11. /\ \A t \in Slot : itable'[t].inum = itable[t].inum /\ itable'[t].ref = itable[t].ref
       /\ \A t \in Slot : t # s => itable'[t] = itable[t]
  BY <1>5, <1>9 DEF Inode
<1>12. SlotStep(p) /\ \A t \in Slot : ~Gains(p, t)
  <2>1. \A t \in Slot : itable'[t].inum = itable[t].inum /\ itable'[t].ref <= itable[t].ref /\ leaked'[t] >= leaked[t]
    BY <1>5, <1>11, RefsKept, LeakedKept
  <2>2. \A t \in Slot : Freeing(p, t) => ~itable'[t].valid
    BY <1>2 DEF Freeing
  <2>3. ASSUME NEW t \in Slot, itable[t].ref > 0 PROVE Kept(t) \/ (Hold(p, t) > 0 /\ Renewed(p, t))
    <3>1. CASE t = s
      BY <1>7, <1>8, <3>1 DEF Renewed, Freeing
    <3>2. CASE t # s
      <4>1. itable[t].inum # i /\ itable[t].inum \in Inum \cup {0}
        BY <1>4, <1>8, <2>3, <3>2, OneSlot, RefFacts
      <4>2. itable[t].inum \in Inum
        BY <2>3, <4>1 DEF RefInv, InumInv
      <4> QED
        BY <1>10, <1>11, <3>2, <4>1, <4>2 DEF Kept
    <3> QED
      BY <3>1, <3>2
  <2> QED
    BY <1>1, <2>1, <2>2, <2>3, Shrinks
<1>13. \A x \in Pointers, t \in Slot : Points(p, x, t)' => Points(p, x, t) /\ x # "put"
  BY <1>2, <1>6, <1>7 DEF Points, Deref, Pointers
<1>14. LiveStep(p)
  <2>1. ASSUME NEW x \in Pointers, NEW t \in Slot, Points(p, x, t)'
        PROVE  Live(itable[t].inum)' /\ \E y \in Pointers : Points(p, y, t)
    <3>1. Points(p, x, t) /\ x # "put"
      BY <1>13, <2>1
    <3>2. Live(itable[t].inum) /\ itable[t].inum # i /\ itable[t].inum \in Inum
      BY <1>8, <3>1, PointedSlot DEF Points
    <3> QED
      BY <1>10, <1>11, <3>1, <3>2 DEF Live
  <2>2. ASSUME NEW q \in Proc \ {p}, NEW x \in Pointers, NEW t \in Slot, Points(q, x, t)
        PROVE  dinode'[itable[t].inum].type = dinode[itable[t].inum].type
    BY <1>8, <1>10, <2>2, PointedSlot DEF Points
  <2>3. Points(p, "put", s) /\ "put" \in Pointers
    BY <1>2, <1>3 DEF Points, Deref, Pointers
  <2> QED
    BY <1>4, <1>10, <1>12, <2>1, <2>2, <2>3 DEF LiveStep
<1>15. EntryStep(p)
  BY <1>4, <1>8, <1>10 DEF EntryStep
<1>16. LiveInv' /\ SlotInv' /\ \A q \in Proc \ {p} : OwnInv(q)'
  BY <1>1, <1>12, <1>14, <1>15, OthersStay
<1>17. OwnInv(p)'
  <2>1. \A j \in Inum : dinode'[j] = dinode[j] \/ (dinode'[j].type # "dir" /\ dinode'[j].nlink = 0)
    BY <1>10
  <2>2. TruncInv(p)'
    BY <1>7 DEF TruncInv
  <2>3. put'[p] \in {put[p], 0}
    BY <1>7
  <2> QED
    BY <1>1, <1>2, <1>6, <1>7, <1>12, <1>13, <2>1, <2>2, <2>3, OwnCtl
<1>18. FreeInv'
  BY <1>10, TreeFacts, EmptyEntry DEF FreeInv, Live
<1>20. \A j : Flies(p, j)' = Flies(p, j)
  <2>1. Counted(p)' <=> Counted(p)
    BY <1>7 DEF Counted
  <2>2. Counted(p) => itable'[ip'[p]].inum = itable[ip[p]].inum
    BY <1>6, <1>11, CountedSlot
  <2> QED
    BY <2>1, <2>2 DEF Flies
<1>21. LinksExact'
  BY <1>1, <1>5, <1>8, <1>12, <1>20, TruncLinks
<1>22. NamesStep
  <2>1. HeldNow' = HeldNow
    BY <1>1, <1>6, <1>12, HeldSame
  <2>2. ASSUME NEW q \in Proc PROVE i \notin InodesOf(q)
    <3>1. cwd[q] \in Slot /\ ofile[q] \in Pointer
      BY RefFacts DEF Good, OwnType
    <3>2. "cwd" \in Pointers /\ "ofile" \in Pointers /\ Deref(q, "cwd") = cwd[q] /\ Deref(q, "ofile") = ofile[q]
      BY DEF Pointers, Deref
    <3>3. itable[cwd[q]].inum # i
      BY <1>8, <3>1, <3>2
    <3>4. ofile[q] # 0 => itable[ofile[q]].inum # i
      BY <1>8, <3>1, <3>2, Constants
    <3> QED
      BY <3>3, <3>4 DEF InodesOf
  <2> QED
    BY <1>5, <1>8, <1>9, <2>1, <2>2, FreeStep
<1>23. panic' \in Harmless
  BY <1>2, <1>5 DEF Harmless
<1> QED
  BY <1>16, <1>17, <1>18, <1>21, <1>22, <1>23, TreeParts

-----------------------------------------------------------------------------
(* namex *)

\* p gets an inode that is not stale, as that which "/" or a name leads to.
LEMMA GetSteps ==
  ASSUME RefInv, RefInv', TreeInv, NEW p \in Proc, Local(p), stage[p] = "iput",
         NEW i \in Inum, ~Stale(i), NEW U, GotTable(i, U), UNCHANGED <<dinode, leaked>>
  PROVE  SlotStep(p) /\ LiveStep(p)
<1>1. Live(i)
  BY DEF Live, Stale
<1>2. Live(i)' /\ \A j \in Inum : Live(j) => dinode'[j] = dinode[j]
  BY <1>1 DEF Live
<1> QED
  BY <1>2, Gets

\* idup
LEMMA IdupSteps ==
  ASSUME RefInv, RefInv', TreeInv, NEW p \in Proc, Local(p), stage[p] = "iput",
         itable' = [itable EXCEPT ![cwd[p]].ref = @ + 1], UNCHANGED <<dinode, leaked>>
  PROVE  SlotStep(p) /\ LiveStep(p)
<1>1. cwd[p] \in Slot /\ itable \in [Slot -> Inode]
  BY RefFacts DEF Good, OwnType, TableType
<1>2. Hold(p, cwd[p]) > 0 /\ itable[cwd[p]].ref > 0
  BY <1>1, HeldSlot
<1>3. /\ \A x \in Slot : /\ itable'[x].inum = itable[x].inum /\ itable'[x].valid = itable[x].valid
                         /\ itable'[x].type = itable[x].type /\ itable'[x].nlink = itable[x].nlink
      /\ \A x \in Slot : x # cwd[p] => itable'[x].ref = itable[x].ref
  BY <1>1 DEF Inode
<1>4. \A x \in Slot : Kept(x) /\ ~Freeing(p, x)
  BY <1>3 DEF Kept, Freeing
<1>5. SlotStep(p)
  BY <1>2, <1>3, <1>4 DEF SlotStep
<1>6. ASSUME NEW x \in Slot PROVE ~Gains(p, x)
  <2>1. CASE x = cwd[p]
    BY <1>2, <2>1 DEF Gains
  <2>2. CASE x # cwd[p]
    <3> DEFINE h == Hold(p, x)
               k == Hold(p, x)'
               m == itable[x].ref
               n == itable'[x].ref
               a == leaked[x]
               b == leaked'[x]
    <3>1. n + a + h = m + b + k /\ m \in Nat /\ a \in Nat /\ h \in Nat /\ k \in Nat
      BY RefsMove
    <3>2. n = m /\ a = b
      BY <1>3, <2>2
    <3> HIDE DEF h, k, m, n, a, b
    <3>3. h = k
      BY <3>1, <3>2
    <3> QED
      BY <3>3 DEF h, k, Gains
  <2> QED
    BY <2>1, <2>2
<1>7. LiveStep(p)
  BY <1>5, <1>6, LiveFrom
<1> QED
  BY <1>5, <1>7

LEMMA WalkOwn ==
  ASSUME RefInv, TreeInv, NEW p \in Proc, SlotStep(p), pc[p] \in {"namei", "look"},
         UNCHANGED <<dinode, ip, ret>>, stage'[p] = "iput", pc'[p] \in {"look", ret[p]}
  PROVE  OwnInv(p)' /\ (Counted(p)' <=> Counted(p))
<1>1. Where(p) = ret[p] /\ ret[p] \in Rets /\ Where(p)' = ret[p]
  <2>1. ret[p] \in Rets
    BY RefFacts DEF Good, PtrInv
  <2> QED
    BY <2>1 DEF Where, Rets
<1>2. Counted(p)' <=> Counted(p)
  BY <1>1 DEF Counted, Rets
<1>3. LinkInv(p)'
  <2> SUFFICES ASSUME ret[p] = "link_parent" PROVE dinode'[itable'[ip[p]].inum].type # "dir"
    BY <1>1 DEF LinkInv, Rets
  <2>1. Counted(p)
    BY DEF Counted
  <2>2. itable'[ip[p]].inum = itable[ip[p]].inum
    BY <2>1, CountedSlot DEF SlotStep
  <2> QED
    BY <1>1, <2>2, TreeFacts DEF LinkInv
<1>5. TruncInv(p)' /\ FreshInv(p)' /\ EntryInv(p)'
  BY <1>1 DEF TruncInv, FreshInv, EntryInv, Rets
<1> QED
  BY <1>2, <1>3, <1>5 DEF OwnInv

LEMMA WalkTree ==
  ASSUME RefInv, RefInv', TreeInv, NEW p \in Proc, Local(p), SlotStep(p), LiveStep(p), panic = "",
         pc[p] \in {"namei", "look"},
         UNCHANGED <<dinode, entry, target, lost, panic, ip, ret>>, stage'[p] = "iput", pc'[p] \in {"look", ret[p]}
  PROVE  TreeInv' /\ NamesStep
<1>1. OwnInv(p)' /\ (Counted(p)' <=> Counted(p)) /\ ip'[p] = ip[p]
  BY WalkOwn
<1>2. panic' \in Harmless
  BY TreeFacts DEF Harmless
<1> QED
  BY <1>1, <1>2, Quiet

LEMMA NameiTree ==
  ASSUME RefInv, TreeInv, NEW p \in Proc, Namei(p)
  PROVE  TreeInv' /\ NamesStep
<1>1. RefInv' /\ Local(p)
  BY WorkRef DEF Work
<1>2. panic = "" /\ pc[p] = "namei" /\ stage[p] = "iput"
  BY AtIs DEF Namei
<1>3. UNCHANGED <<call, path, count, procVars, lost>>
  BY DEF Namei
<1> DEFINE names == Names(rest[p])
           s == IF IsAbsolute(rest[p]) THEN Got(ROOTINO) ELSE cwd[p]
<1>4. CASE Halt("iget: no inodes")
  BY <1>2, <1>3, <1>4, HaltTree DEF Harmless
<1>5. CASE /\ IsAbsolute(rest[p]) => CanGet(ROOTINO)
           /\ itable' = IF IsAbsolute(rest[p]) THEN AfterGet(ROOTINO)
                        ELSE [itable EXCEPT ![s].ref = @ + 1]
           /\ rest' = [rest EXCEPT ![p] = names]
           /\ IF names = <<>> /\ Parent(p)
              THEN Then(p, s, 0, ret[p]) /\ UNCHANGED cur
              ELSE /\ cur' = [cur EXCEPT ![p] = s]
                   /\ IF names = <<>> THEN Then(p, 0, 0, ret[p]) ELSE Then(p, 0, s, "look")
           /\ UNCHANGED <<ret, diskVars, ip, dp, leaked, panic>>
  <2>1. SlotStep(p) /\ LiveStep(p)
    <3>1. CASE IsAbsolute(rest[p])
      <4>1. ROOTINO \in Inum /\ ~Stale(ROOTINO)
        BY Constants, ReachSteady DEF Reach
      <4>2. GotTable(ROOTINO, {})
        BY <1>5, <3>1, <4>1, RefFacts, GotOnly
      <4> QED
        BY <1>1, <1>2, <1>5, <4>1, <4>2, GetSteps DEF diskVars
    <3>2. CASE ~IsAbsolute(rest[p])
      BY <1>1, <1>2, <1>5, <3>2, IdupSteps DEF diskVars
    <3> QED
      BY <3>1, <3>2
  <2> HIDE DEF names, s
  <2>4. stage'[p] = "iput" /\ pc'[p] \in {"look", ret[p]}
    BY <1>2, <1>5, RefFacts, ThenIs
  <2> QED
    BY <1>1, <1>2, <1>3, <1>5, <2>1, <2>4, WalkTree DEF diskVars
<1> QED
  BY <1>4, <1>5 DEF Namei

LEMMA LookTree ==
  ASSUME RefInv, TreeInv, NEW p \in Proc, Look(p)
  PROVE  TreeInv' /\ NamesStep
<1>1. RefInv' /\ Local(p)
  BY WorkRef DEF Work
<1>2. panic = "" /\ pc[p] = "look" /\ stage[p] = "iput" /\ want[p] = 0
  BY AtIs DEF Look
<1>3. UNCHANGED <<call, path, count, procVars, lost>> /\ ProcType /\ TableType
  BY RefFacts DEF Look
<1>4. PICK s \in Slot : s = cur[p]
  BY <1>2, RefFacts, Constants DEF Good, PtrInv, OwnType
<1>5. itable[s].inum \in Inum
  BY <1>4, HeldSlot
<1> DEFINE names == rest[p]
           i == entry[itable[s].inum][Head(names)]
<1>6. names \in Seq(Entries) /\ names # <<>>
  BY <1>2, RefFacts DEF Good, PathInv, HasName
<1>7. \/ /\ itable' = Unlock(itable, s)
         /\ cur' = [cur EXCEPT ![p] = 0]
         /\ Then(p, s, 0, ret[p])
         /\ UNCHANGED <<ret, diskVars, ip, dp, rest, leaked, panic>>
      \/ /\ itable' = Unlock(itable, s)
         /\ Goto(p, ret[p])
         /\ UNCHANGED <<diskVars, ptrVars, rest, leaked, panic>>
      \/ \E msg \in Harmless : Halt(msg)
      \/ /\ i # 0 /\ CanGet(i) /\ ~(Head(names) = DotDot /\ Stale(i))
         /\ itable' = Unlock(AfterGet(i), s)
         /\ cur' = [cur EXCEPT ![p] = Got(i)]
         /\ rest' = [rest EXCEPT ![p] = Tail(names)]
         /\ IF Tail(names) = <<>> THEN Then(p, s, 0, ret[p]) ELSE Then(p, s, Got(i), "look")
         /\ UNCHANGED <<ret, diskVars, ip, dp, leaked, panic>>
  BY <1>4 DEF Look, Harmless, Beyond
<1>8. CASE /\ itable' = Unlock(itable, s)
           /\ cur' = [cur EXCEPT ![p] = 0]
           /\ Then(p, s, 0, ret[p])
           /\ UNCHANGED <<ret, diskVars, ip, dp, rest, leaked, panic>>
  <2>1. SlotStep(p) /\ LiveStep(p)
    BY <1>1, <1>2, <1>3, <1>8, StillTable, LeakedKept, StillSteps DEF diskVars
  <2>2. stage'[p] = "iput" /\ pc'[p] = ret[p]
    BY <1>2, <1>3, <1>8, ThenIs DEF ProcType
  <2> HIDE DEF i
  <2> QED
    BY <1>1, <1>2, <1>3, <1>8, <2>1, <2>2, WalkTree DEF diskVars
<1>9. CASE /\ itable' = Unlock(itable, s)
           /\ Goto(p, ret[p])
           /\ UNCHANGED <<diskVars, ptrVars, rest, leaked, panic>>
  <2>1. SlotStep(p) /\ LiveStep(p)
    BY <1>1, <1>2, <1>3, <1>9, StillTable, LeakedKept, StillSteps DEF diskVars
  <2>2. stage'[p] = "iput" /\ pc'[p] = ret[p] /\ ret' = ret
    BY <1>2, <1>3, <1>9, GotoIs DEF Goto
  <2> HIDE DEF i
  <2> QED
    BY <1>1, <1>2, <1>3, <1>9, <2>1, <2>2, WalkTree DEF diskVars, ptrVars
<1>10. CASE \E msg \in Harmless : Halt(msg)
  BY <1>2, <1>3, <1>10, HaltTree
<1>11. CASE /\ i # 0 /\ CanGet(i) /\ ~(Head(names) = DotDot /\ Stale(i))
            /\ itable' = Unlock(AfterGet(i), s)
            /\ cur' = [cur EXCEPT ![p] = Got(i)]
            /\ rest' = [rest EXCEPT ![p] = Tail(names)]
            /\ IF Tail(names) = <<>> THEN Then(p, s, 0, ret[p]) ELSE Then(p, s, Got(i), "look")
            /\ UNCHANGED <<ret, diskVars, ip, dp, leaked, panic>>
  <2>1. i \in Inum /\ Head(names) \in Entries
    <3>1. Head(names) \in Entries
      BY <1>6, HeadTail
    <3> QED
      BY <1>5, <1>11, <3>1, RefFacts DEF DiskType
  <2>2. ~Stale(i)
    <3>1. CASE Head(names) = DotDot
      BY <1>11, <3>1
    <3>2. CASE Head(names) \in Name
      BY <1>5, <2>1, <3>2, ReachSteady DEF Reach
    <3> QED
      BY <2>1, <3>1, <3>2 DEF Entries
  <2> HIDE DEF i
  <2>3. GotTable(i, {s})
    BY <1>3, <1>11, <2>1, GotUnlock
  <2>4. SlotStep(p) /\ LiveStep(p)
    BY <1>1, <1>2, <1>11, <2>1, <2>2, <2>3, GetSteps DEF diskVars
  <2>5. stage'[p] = "iput" /\ pc'[p] \in {"look", ret[p]}
    BY <1>2, <1>3, <1>11, ThenIs
  <2> HIDE DEF names
  <2> QED
    BY <1>1, <1>2, <1>3, <1>11, <2>4, <2>5, WalkTree DEF diskVars
<1> QED
  BY <1>7, <1>8, <1>9, <1>10, <1>11

-----------------------------------------------------------------------------
(* A name that is there already *)

LEMMA GetTree ==
  ASSUME RefInv, RefInv', TreeInv, NEW p \in Proc, Local(p), stage[p] = "iput", panic = "",
         NEW i \in Inum, ~Stale(i), NEW U, GotTable(i, U), UNCHANGED <<diskVars, leaked, lost, panic>>,
         Counted(p)' <=> Counted(p), Counted(p) => ip'[p] = ip[p], OwnInv(p)'
  PROVE  TreeInv' /\ NamesStep
<1>1. SlotStep(p) /\ LiveStep(p)
  BY GetSteps DEF diskVars
<1>2. UNCHANGED <<dinode, entry, lost>> /\ panic' \in Harmless
  BY TreeFacts DEF diskVars, Harmless
<1> QED
  BY <1>1, <1>2, Quiet

LEMMA UnlinkLookTree ==
  ASSUME RefInv, TreeInv, NEW p \in Proc, UnlinkLook(p)
  PROVE  TreeInv' /\ NamesStep
<1>1. RefInv' /\ Local(p)
  BY WorkRef DEF Work
<1>2. panic = "" /\ pc[p] = "unlink_look" /\ stage[p] = "iput" /\ put[p] = 0
  BY AtIs DEF UnlinkLook
<1>3. UNCHANGED <<call, path, count, procVars, lost>> /\ ProcType /\ TableType /\ ~Counted(p)
  BY <1>2, RefFacts DEF UnlinkLook, Counted
<1>4. dp[p] \in Slot /\ LastName(p) \in Entries
  <2>1. dp[p] \in Slot
    BY <1>2, RefFacts, Constants DEF Good, PtrInv, OwnType, DpPcs
  <2>2. rest[p] \in Seq(Entries) /\ rest[p] # <<>>
    BY <1>2, RefFacts DEF Good, PathInv, HasName
  <2> QED
    BY <2>1, <2>2, HeadTailProperties DEF LastName
<1>5. Dir(p) \in Inum
  BY <1>4, HeldSlot DEF Dir
<1> DEFINE i == entry[Dir(p)][LastName(p)]
<1>6. \/ PutDp(p) /\ UNCHANGED <<diskVars, rest, leaked, panic>>
      \/ Halt("iget: no inodes")
      \/ /\ LastName(p) # DotDot /\ i # 0 /\ CanGet(i)
         /\ itable' = AfterGet(i)
         /\ ip' = [ip EXCEPT ![p] = Got(i)]
         /\ Then(p, 0, Got(i), "unlink_remove")
         /\ UNCHANGED <<ret, diskVars, cur, dp, rest, leaked, panic>>
  BY DEF UnlinkLook
<1>7. CASE PutDp(p) /\ UNCHANGED <<diskVars, rest, leaked, panic>>
  BY <1>1, <1>2, <1>3, <1>7, Goes DEF diskVars, history
<1>8. CASE Halt("iget: no inodes")
  BY <1>2, <1>3, <1>8, HaltTree DEF Harmless
<1>9. CASE /\ LastName(p) # DotDot /\ i # 0 /\ CanGet(i)
           /\ itable' = AfterGet(i)
           /\ ip' = [ip EXCEPT ![p] = Got(i)]
           /\ Then(p, 0, Got(i), "unlink_remove")
           /\ UNCHANGED <<ret, diskVars, cur, dp, rest, leaked, panic>>
  <2>1. LastName(p) \in Name
    BY <1>4, <1>9 DEF Entries
  <2>2. i \in Inum /\ ~Stale(i)
    <3>1. i \in Inum
      BY <1>4, <1>5, <1>9, RefFacts DEF DiskType
    <3> QED
      BY <1>5, <2>1, <3>1, ReachSteady DEF Reach
  <2>3. PICK k \in Inum : k = i
    BY <2>2
  <2>4. GotTable(k, {})
    BY <1>3, <1>9, <2>3, GotOnly
  <2>5. stage'[p] = "iput" /\ pc'[p] = "unlink_remove" /\ put'[p] = 0 /\ ip'[p] = Got(k) /\ dp'[p] = dp[p] /\ rest'[p] = rest[p]
    BY <1>2, <1>3, <1>9, <2>3, ThenIs DEF ProcType
  <2>6. itable'[ip'[p]].inum = k
    BY <2>4, <2>5 DEF GotTable
  <2>7. Dir(p)' = Dir(p) /\ LastName(p)' = LastName(p)
    <3>1. itable[dp[p]].ref > 0
      BY <1>4, HeldSlot
    <3>2. itable'[dp[p]].inum = itable[dp[p]].inum
      BY <1>4, <2>4, <3>1 DEF GotTable
    <3> QED
      BY <2>5, <3>2 DEF Dir, LastName
  <2>8. EntryInv(p)'
    <3>1. entry' = entry
      BY <1>9 DEF diskVars
    <3> QED
      BY <2>1, <2>3, <2>5, <2>6, <2>7, <3>1 DEF EntryInv
  <2>10. Where(p)' = "unlink_remove" /\ ~Counted(p)'
    BY <2>5 DEF Where, Counted
  <2>11. OwnInv(p)'
    BY <2>5, <2>8, <2>10 DEF OwnInv, TruncInv, FreshInv, LinkInv
  <2>12. ~Stale(k)
    BY <2>2, <2>3
  <2> HIDE DEF i
  <2> QED
    BY <1>1, <1>2, <1>3, <1>9, <2>4, <2>10, <2>11, <2>12, GetTree
<1> QED
  BY <1>6, <1>7, <1>8, <1>9

-----------------------------------------------------------------------------
(* Link counts and entries *)

\* p changes link counts of inodes that it has locked.
LEMMA Relinks ==
  ASSUME RefInv, RefInv', TreeInv, NEW p \in Proc, Local(p), stage[p] = "iput", leaked' = leaked,
         \A x \in Slot : /\ itable'[x].inum = itable[x].inum /\ itable'[x].ref = itable[x].ref
                         /\ itable'[x].valid = itable[x].valid /\ itable'[x].type = itable[x].type,
         \A x \in Slot : IF Locks(p, x) THEN itable'[x].nlink = dinode'[itable[x].inum].nlink
                                        ELSE itable'[x].nlink = itable[x].nlink,
         \A i \in Inum : dinode'[i].type = dinode[i].type,
         \A i \in Inum : dinode'[i] # dinode[i] => \E x \in Slot : Locks(p, x) /\ itable[x].inum = i
  PROVE  SlotStep(p) /\ LiveStep(p)
<1>1. \A x \in Slot : itable'[x].inum = itable[x].inum /\ itable'[x].ref <= itable[x].ref /\ leaked'[x] >= leaked[x]
  BY RefsKept, LeakedKept
<1>2. \A x \in Slot : ~Freeing(p, x)
  BY DEF Freeing
<1>3. ASSUME NEW x \in Slot, itable[x].ref > 0 PROVE Kept(x) \/ (Hold(p, x) > 0 /\ Renewed(p, x))
  <2>1. CASE Locks(p, x)
    <3>1. OnDisk(x) /\ itable[x].inum \in Inum /\ Hold(p, x) > 0
      BY <1>2, <2>1, LockedOnDisk, HeldSlot
    <3>2. OnDisk(x)'
      BY <2>1, <3>1 DEF OnDisk, Live
    <3> QED
      BY <3>1, <3>2 DEF Renewed
  <2>2. CASE ~Locks(p, x)
    <3>1. itable[x].inum \in Inum
      BY <1>3, RefFacts DEF RefInv, InumInv
    <3>2. dinode'[itable[x].inum] = dinode[itable[x].inum]
      <4> SUFFICES ASSUME dinode'[itable[x].inum] # dinode[itable[x].inum] PROVE FALSE
        OBVIOUS
      <4>1. PICK y \in Slot : Locks(p, y) /\ itable[y].inum = itable[x].inum
        BY <3>1
      <4>2. y = x
        BY <1>3, <4>1, HeldSlot, OneSlot
      <4> QED
        BY <2>2, <4>1, <4>2
    <3> QED
      BY <2>2, <3>2 DEF Kept
  <2> QED
    BY <2>1, <2>2
<1>4. SlotStep(p) /\ \A x \in Slot : ~Gains(p, x)
  BY <1>1, <1>2, <1>3, Shrinks
<1>5. \A i \in Inum : Live(i) /\ dinode'[i] # dinode[i] => \E x \in Slot : Hold(p, x) > 0 /\ itable[x].inum = i
  BY HeldSlot
<1>6. LiveStep(p)
  BY <1>4, <1>5, LiveFrom
<1> QED
  BY <1>4, <1>6

LEMMA ChangeTree ==
  ASSUME RefInv, RefInv', TreeInv, NEW p \in Proc, Local(p), SlotStep(p), LiveStep(p), EntryStep(p),
         panic = "", UNCHANGED <<target, lost, panic>>,
         \A i \in Inum : ~Live(i) /\ ~Live(i)' => dinode'[i] = dinode[i] /\ \A n \in Name : entry'[i][n] = entry[i][n],
         \A i \in Inum : Live(i) => Live(i)',
         Balances(p),
         OwnInv(p)'
  PROVE  TreeInv'
<1>1. LiveInv' /\ SlotInv' /\ \A q \in Proc \ {p} : OwnInv(q)'
  BY OthersStay
<1>2. LinksExact'
  BY LinksMove DEF Balances
<1>3. FreeInv'
  <2> SUFFICES ASSUME NEW i \in Inum, ~Live(i)' PROVE dinode'[i].nlink = 0 /\ \A n \in Name : entry'[i][n] = 0
    BY DEF FreeInv, Live
  <2>1. ~Live(i)
    OBVIOUS
  <2>2. dinode'[i] = dinode[i] /\ \A n \in Name : entry'[i][n] = entry[i][n]
    BY <2>1
  <2>3. dinode[i].nlink = 0 /\ \A n \in Name : entry[i][n] = 0
    BY <2>1, TreeFacts DEF FreeInv
  <2> QED
    BY <2>2, <2>3
<1>4. panic' \in Harmless
  BY TreeFacts DEF Harmless
<1> QED
  BY <1>1, <1>2, <1>3, <1>4, TreeParts

LEMMA CountFacts ==
  ASSUME RefInv, NEW s \in Slot, itable[s].inum \in Inum, NEW d \in Int,
         itable[s].nlink = dinode[itable[s].inum].nlink,
         itable' = Unlock(AddLink(itable, s, d), s), dinode' = UpdateLink(dinode, s, d)
  PROVE  /\ Released(s)
         /\ \A x \in Slot : /\ itable'[x].type = itable[x].type
                            /\ x # s => itable'[x].nlink = itable[x].nlink
         /\ itable'[s].nlink = dinode'[itable[s].inum].nlink
         /\ \A i \in Inum : dinode'[i].type = dinode[i].type
         /\ \A i \in Inum : i # itable[s].inum => dinode'[i] = dinode[i]
         /\ \A i \in Inum : dinode'[i].nlink = dinode[i].nlink + (IF i = itable[s].inum THEN d ELSE 0)
<1>1. /\ Released(s)
      /\ \A x \in Slot : /\ itable'[x].type = itable[x].type
                         /\ itable'[x].nlink = IF x = s THEN itable[s].nlink + d ELSE itable[x].nlink
  BY RefFacts, RelinkedTable
<1>2. dinode' = [dinode EXCEPT ![itable[s].inum].nlink = itable[s].nlink + d]
  BY RelinkedDisk
<1>3. dinode \in [Inum -> [type : Types, nlink : Int]]
  BY RefFacts DEF DiskType
<1>4. /\ \A i \in Inum : dinode'[i].type = dinode[i].type
      /\ \A i \in Inum : i # itable[s].inum => dinode'[i] = dinode[i]
      /\ dinode'[itable[s].inum].nlink = itable[s].nlink + d
  BY <1>2, <1>3
<1>5. ASSUME NEW i \in Inum
      PROVE  dinode'[i].nlink = dinode[i].nlink + (IF i = itable[s].inum THEN d ELSE 0)
  <2>1. CASE i = itable[s].inum
    BY <1>4, <2>1
  <2>2. CASE i # itable[s].inum
    <3>1. dinode[i].nlink \in Int /\ dinode'[i].nlink = dinode[i].nlink
      BY <1>3, <1>4, <2>2
    <3> QED
      BY <2>2, <3>1
  <2> QED
    BY <2>1, <2>2
<1> QED
  BY <1>1, <1>4, <1>5

LEMMA CountBalance ==
  ASSUME RefInv, NEW p, NEW s, NEW d \in Int, TypeOf' = TypeOf, entry' = entry, Counts(p, s, d)
  PROVE  Balances(p)
<1> SUFFICES ASSUME NEW i \in Inum
             PROVE  dinode'[i].nlink + Links(entry, TypeOf, i) + Flies(p, i) =
                    dinode[i].nlink + Links(entry', TypeOf', i) + Flies(p, i)'
  BY DEF Balances
<1> DEFINE l == Links(entry, TypeOf, i)
           k == Links(entry', TypeOf', i)
           f == Flies(p, i)
           g == Flies(p, i)'
           m == dinode[i].nlink
           n == dinode'[i].nlink
           e == IF i = itable[s].inum THEN d ELSE 0
<1>0. g = f + e /\ n = m + e
  BY Zenon DEF Counts
<1>1. k = l /\ l \in Nat /\ f \in Nat /\ m \in Int /\ e \in Int
  BY LinksFinite, RefFacts DEF Flies, DiskType
<1> HIDE DEF l, k, f, g, m, n, e
<1>2. n + l + f = m + k + g
  BY <1>0, <1>1
<1> QED
  BY <1>2 DEF l, k, f, g, m, n

\* A step on the count of an inode that p has locked, by as much as p's own link flies.
LEMMA CountTree ==
  ASSUME RefInv, RefInv', TreeInv, NEW p \in Proc, Local(p), stage[p] = "iput", panic = "",
         NEW s \in Slot, Locks(p, s), \A x \in Slot : Locks(p, x) => x = s, NEW d \in Int,
         itable' = Unlock(AddLink(itable, s, d), s), dinode' = UpdateLink(dinode, s, d),
         UNCHANGED <<entry, target, leaked, lost, panic>>,
         \A i : Flies(p, i)' = Flies(p, i) + (IF i = itable[s].inum THEN d ELSE 0),
         (\A i \in Inum : dinode'[i].type = dinode[i].type) => OwnInv(p)'
  PROVE  TreeInv' /\ NamesStep
<1>1. OnDisk(s) /\ itable[s].inum \in Inum
  BY LockedOnDisk DEF Freeing
<1>2. /\ Released(s)
      /\ \A x \in Slot : /\ itable'[x].type = itable[x].type
                         /\ x # s => itable'[x].nlink = itable[x].nlink
      /\ itable'[s].nlink = dinode'[itable[s].inum].nlink
      /\ \A i \in Inum : dinode'[i].type = dinode[i].type
      /\ \A i \in Inum : i # itable[s].inum => dinode'[i] = dinode[i]
      /\ \A i \in Inum : dinode'[i].nlink = dinode[i].nlink + (IF i = itable[s].inum THEN d ELSE 0)
  BY <1>1, CountFacts DEF OnDisk
<1>5. SlotStep(p) /\ LiveStep(p)
  <2>1. \A x \in Slot : /\ itable'[x].inum = itable[x].inum /\ itable'[x].ref = itable[x].ref
                        /\ itable'[x].valid = itable[x].valid /\ itable'[x].type = itable[x].type
    BY <1>2 DEF Released
  <2>2. \A x \in Slot : IF Locks(p, x) THEN itable'[x].nlink = dinode'[itable[x].inum].nlink
                                       ELSE itable'[x].nlink = itable[x].nlink
    BY <1>1, <1>2 DEF OnDisk
  <2>3. \A i \in Inum : dinode'[i] # dinode[i] => \E x \in Slot : Locks(p, x) /\ itable[x].inum = i
    BY <1>2
  <2> QED
    BY <1>2, <2>1, <2>2, <2>3, Relinks
<1>6. OwnInv(p)'
  BY <1>1, <1>2
<1>7. Balances(p)
  <2>1. TypeOf' = TypeOf /\ entry' = entry
    BY <1>2 DEF TypeOf
  <2>2. Counts(p, s, d)
    BY <1>2, Zenon DEF Counts
  <2> QED
    BY <2>1, <2>2, CountBalance
<1>8. TreeInv'
  <2>1. EntryStep(p)
    BY DEF EntryStep
  <2>2. \A i \in Inum : ~Live(i) => dinode'[i] = dinode[i]
    BY <1>1, <1>2 DEF OnDisk
  <2>3. \A i \in Inum : Live(i) => Live(i)'
    BY <1>2 DEF Live
  <2> QED
    BY <1>5, <1>6, <1>7, <2>1, <2>2, <2>3, ChangeTree
<1>9. NamesStep
  <2>1. LiveInv'
    BY <1>8 DEF TreeInv
  <2> QED
    BY <1>2, <1>5, <2>1, HoldStep
<1> QED
  BY <1>8, <1>9

LEMMA LinkIncTree ==
  ASSUME RefInv, TreeInv, NEW p \in Proc, LinkInc(p)
  PROVE  TreeInv' /\ NamesStep
<1>1. RefInv' /\ Local(p)
  BY WorkRef DEF Work
<1>2. panic = "" /\ pc[p] = "link_inc" /\ stage[p] = "iput" /\ put[p] = 0 /\ want[p] = 0
  BY AtIs DEF LinkInc
<1>3. ~Counted(p) /\ ProcType /\ TableType /\ UNCHANGED <<entry, target, call, path, count, procVars, history, panic>>
  BY <1>2, RefFacts DEF LinkInc, Counted
<1>4. CASE Type(p) = "dir"
  <2>1. PutIp(p) /\ UNCHANGED <<dinode, rest>>
    BY <1>4 DEF LinkInc
  <2> QED
    BY <1>1, <1>2, <1>3, <2>1, Goes
<1>5. CASE Type(p) # "dir"
  <2>1. PICK s \in Slot : s = ip[p]
    BY <1>2, RefFacts, Constants DEF Good, PtrInv, OwnType, HasIp, Where, IpPcs
  <2>2. /\ itable' = Unlock(AddLink(itable, s, 1), s)
        /\ dinode' = UpdateLink(dinode, s, 1)
        /\ Walk(p, "link_parent", call[p].new)
        /\ UNCHANGED ptrVars
    BY <1>5, <2>1 DEF LinkInc
  <2>3. Locks(p, s) /\ \A x \in Slot : Locks(p, x) => x = s
    BY <1>2, <2>1 DEF Locks, HasLockedIp, DpPcs, Truncating
  <2>4. pc'[p] = "namei" /\ ret'[p] = "link_parent" /\ rest'[p] = call[p].new /\ stage'[p] = "iput" /\ ip' = ip
    BY <1>2, <1>3, <2>2, WalkIs DEF ptrVars
  <2>5. itable'[s].inum = itable[s].inum
    <3>1. 1 \in Int
      OBVIOUS
    <3> QED
      BY <1>3, <2>2, <3>1, RelinkedTable DEF Released
  <2>6. \A i : Flies(p, i)' = Flies(p, i) + (IF i = itable[s].inum THEN 1 ELSE 0)
    <3>1. Counted(p)'
      BY <2>4 DEF Counted
    <3> QED
      BY <1>3, <2>1, <2>4, <2>5, <3>1 DEF Flies
  <2>8. ASSUME \A i \in Inum : dinode'[i].type = dinode[i].type PROVE OwnInv(p)'
    <3>2. OnDisk(s) /\ itable[s].inum \in Inum
      BY <1>2, <2>3, LockedOnDisk DEF Freeing
    <3>3. dinode[itable[s].inum].type # "dir"
      BY <1>5, <2>1, <3>2 DEF OnDisk, Type
    <3>4. LinkInv(p)'
      BY <2>1, <2>4, <2>5, <2>8, <3>2, <3>3 DEF LinkInv
    <3> QED
      BY <2>4, <3>4 DEF OwnInv, TruncInv, FreshInv, EntryInv
  <2>9. 1 \in Int /\ UNCHANGED <<entry, target, leaked, lost, panic>>
    BY <1>3 DEF history
  <2> QED
    BY <1>1, <1>2, <2>2, <2>3, <2>6, <2>8, <2>9, CountTree
<1> QED
  BY <1>4, <1>5

\* The end of a call that takes a link away
LEMMA UncountTree ==
  ASSUME RefInv, TreeInv, NEW p \in Proc, pc[p] \in {"link_bad", "unlink_dec"}, At(p, pc[p]), Work(p),
         itable' = Unlock(AddLink(itable, ip[p], -1), ip[p]), dinode' = UpdateLink(dinode, ip[p], -1),
         Then(p, ip[p], 0, "idle"), UNCHANGED <<entry, target, leaked, lost, panic>>
  PROVE  TreeInv' /\ NamesStep
<1>1. RefInv' /\ Local(p)
  BY WorkRef
<1>2. panic = "" /\ stage[p] = "iput" /\ put[p] = 0 /\ want[p] = 0
  BY AtIs
<1>3. Counted(p) /\ ProcType /\ TableType
  BY RefFacts DEF Counted
<1>4. PICK s \in Slot : s = ip[p]
  BY RefFacts, Constants DEF Good, PtrInv, OwnType, HasIp, Where, IpPcs
<1>5. Locks(p, s) /\ \A x \in Slot : Locks(p, x) => x = s
  BY <1>2, <1>4 DEF Locks, HasLockedIp, DpPcs, Truncating
<1>6. pc'[p] = "idle" /\ stage'[p] = "iput" /\ ~Counted(p)'
  <2>1. pc'[p] = "idle" /\ stage'[p] = stage[p]
    BY <1>3, ThenIs, Zenon
  <2> QED
    BY <1>2, <2>1 DEF Counted
<1>7. \A i : Flies(p, i)' = Flies(p, i) + (IF i = itable[s].inum THEN -1 ELSE 0)
  BY <1>3, <1>4, <1>6 DEF Flies
<1>8. OwnInv(p)'
  BY <1>6, Away DEF Where
<1>9. -1 \in Int
  OBVIOUS
<1> QED
  BY <1>1, <1>2, <1>4, <1>5, <1>7, <1>8, <1>9, CountTree

LEMMA LinkBadTree ==
  ASSUME RefInv, TreeInv, NEW p \in Proc, LinkBad(p)
  PROVE  TreeInv' /\ NamesStep
<1>1. pc[p] = "link_bad" /\ At(p, pc[p]) /\ Work(p)
  BY DEF LinkBad, At, Work
<1> QED
  BY <1>1, UncountTree DEF LinkBad, history

LEMMA UnlinkDecTree ==
  ASSUME RefInv, TreeInv, NEW p \in Proc, UnlinkDec(p)
  PROVE  TreeInv' /\ NamesStep
<1>1. pc[p] = "unlink_dec" /\ At(p, pc[p]) /\ Work(p)
  BY DEF UnlinkDec, At, Work
<1> QED
  BY <1>1, UncountTree DEF UnlinkDec, history

-----------------------------------------------------------------------------
(* Entries that come and go *)

LEMMA BecomesNames ==
  ASSUME NEW d \in Inum, NEW n \in Name, NEW k, Becomes(d, n, k), \A i \in Inum : dinode'[i].type = dinode[i].type
  PROVE  /\ Alive' = Alive
         /\ NamesNow' = [NamesNow EXCEPT ![d][n] = k]
<1>1. Alive' = Alive
  BY DEF Alive
<1>2. \A c \in Inum : [NamesNow EXCEPT ![d][n] = k][c] = NamesNow'[c]
  <2> SUFFICES ASSUME NEW c \in Inum PROVE [NamesNow EXCEPT ![d][n] = k][c] = NamesNow'[c]
    OBVIOUS
  <2>1. CASE c = d
    <3>1. NamesNow[d] = [m \in Name |-> entry[d][m]]
      BY DEF NamesNow
    <3>2. [NamesNow EXCEPT ![d][n] = k][c] = [NamesNow[d] EXCEPT ![n] = k]
      BY <2>1 DEF NamesNow
    <3>3. [NamesNow[d] EXCEPT ![n] = k] = [m \in Name |-> IF m = n THEN k ELSE entry[d][m]]
      BY <3>1
    <3>4. \A m \in Name : entry'[d][m] = IF m = n THEN k ELSE entry[d][m]
      BY DEF Becomes
    <3>5. NamesNow'[c] = [m \in Name |-> entry'[d][m]]
      BY <2>1 DEF NamesNow
    <3> QED
      BY <3>2, <3>3, <3>4, <3>5
  <2>2. CASE c # d
    <3>1. \A m \in Name : entry'[c][m] = entry[c][m]
      BY <2>2 DEF Becomes
    <3> QED
      BY <2>2, <3>1 DEF NamesNow
  <2> QED
    BY <2>1, <2>2
<1> QED
  BY <1>1, <1>2 DEF NamesNow

LEMMA EnterStep ==
  ASSUME NEW d \in Inum, NEW n \in Name, NEW k \in Inum, Live(d), Live(k), entry[d][n] = 0,
         Becomes(d, n, k), \A i \in Inum : dinode'[i].type = dinode[i].type, HeldNow' = HeldNow
  PROVE  NamesStep
<1>1. Alive' = Alive /\ NamesNow' = [NamesNow EXCEPT ![d][n] = k]
  BY BecomesNames
<1>2. d \in Alive /\ k \in Alive /\ NamesNow[d][n] = 0
  BY DEF Alive, Live, NamesNow
<1>3. Promise!Enter(d, n, k)
  BY <1>1, <1>2 DEF Promise!Enter, Alive, NamesNow, HeldNow
<1> QED
  BY <1>3 DEF NamesStep, Promise!Next

LEMMA RemoveStep ==
  ASSUME NEW d \in Inum, NEW n \in Name, entry[d][n] # 0,
         Becomes(d, n, 0), \A i \in Inum : dinode'[i].type = dinode[i].type, HeldNow' = HeldNow
  PROVE  NamesStep
<1>1. Alive' = Alive /\ NamesNow' = [NamesNow EXCEPT ![d][n] = 0]
  BY BecomesNames
<1>2. NamesNow[d][n] # 0
  BY DEF NamesNow
<1>3. Promise!Remove(d, n)
  BY <1>1, <1>2 DEF Promise!Remove, Alive, NamesNow, HeldNow
<1> QED
  BY <1>3 DEF NamesStep, Promise!Next

LEMMA AllocStep ==
  ASSUME NEW k \in Inum, ~Live(k), Live(k)', \A n \in Name : entry[k][n] = 0,
         \A i \in Inum : i # k => dinode'[i] = dinode[i], entry' = entry, HeldNow' = HeldNow
  PROVE  NamesStep
<1>1. Alive' = Alive \cup {k} /\ k \notin Alive
  BY DEF Alive, Live
<1>2. NamesNow' = NamesNow /\ NamesNow[k] = [n \in Name |-> 0]
  BY DEF NamesNow
<1>3. Promise!Alloc(k)
  BY <1>1, <1>2 DEF Promise!Alloc, Promise!NoNames, Alive, NamesNow, HeldNow
<1> QED
  BY <1>3 DEF NamesStep, Promise!Next

\* The sum of two balances.
LEMMA AddBalances ==
  ASSUME NEW l \in Nat, NEW h \in Nat, NEW f \in Nat, NEW g \in Nat, NEW a \in Int, NEW b \in Int,
         NEW u \in Nat, NEW v \in Nat, h = l + u + v, b + f = a + u + v + g
  PROVE  b + l + f = a + h + g
OBVIOUS

LEMMA EnterLinks ==
  ASSUME RefInv, NEW p, NEW d \in Inum, NEW n \in Name, NEW k \in Inum, entry[d][n] = 0, Becomes(d, n, k),
         TypeOf' = TypeOf,
         \A i \in Inum : dinode'[i].nlink + Flies(p, i) =
                         dinode[i].nlink + Is(i, k) + Subdir(d, k, i) + Flies(p, i)',
         \A i \in Inum : dinode'[i].nlink \in Int
  PROVE  Balances(p)
<1> SUFFICES ASSUME NEW i \in Inum
             PROVE  dinode'[i].nlink + Links(entry, TypeOf, i) + Flies(p, i) =
                    dinode[i].nlink + Links(entry', TypeOf', i) + Flies(p, i)'
  BY DEF Balances
<1> DEFINE l == Links(entry, TypeOf, i)
           h == Links(entry', TypeOf', i)
           f == Flies(p, i)
           g == Flies(p, i)'
           a == dinode[i].nlink
           b == dinode'[i].nlink
           u == Is(i, k)
           v == Subdir(d, k, i)
<1>1. h = l + u + v
  <2>1. Entered(entry, entry', d, n, k)
    BY DEF Entered, Becomes
  <2> QED
    BY <2>1, LinksEnter DEF Subdir
<1>2. b + f = a + u + v + g
  OBVIOUS
<1>3. l \in Nat /\ f \in Nat /\ g \in Nat /\ a \in Int /\ b \in Int /\ u \in Nat /\ v \in Nat
  BY LinksFinite, RefFacts DEF Flies, DiskType, Is, Subdir
<1> HIDE DEF l, h, f, g, a, b, u, v
<1>4. b + l + f = a + h + g
  BY ONLY <1>1, <1>2, <1>3, AddBalances
<1> QED
  BY <1>4 DEF l, h, f, g, a, b

LEMMA RemoveLinks ==
  ASSUME RefInv, NEW p, NEW d \in Inum, NEW n \in Name, NEW k \in Inum, entry[d][n] = k, Becomes(d, n, 0),
         TypeOf' = TypeOf,
         \A i \in Inum : dinode'[i].nlink + Is(i, k) + Subdir(d, k, i) + Flies(p, i) =
                         dinode[i].nlink + Flies(p, i)',
         \A i \in Inum : dinode'[i].nlink \in Int
  PROVE  Balances(p)
<1> SUFFICES ASSUME NEW i \in Inum
             PROVE  dinode'[i].nlink + Links(entry, TypeOf, i) + Flies(p, i) =
                    dinode[i].nlink + Links(entry', TypeOf', i) + Flies(p, i)'
  BY DEF Balances
<1> DEFINE l == Links(entry, TypeOf, i)
           h == Links(entry', TypeOf', i)
           f == Flies(p, i)
           g == Flies(p, i)'
           a == dinode[i].nlink
           b == dinode'[i].nlink
           u == Is(i, k)
           v == Subdir(d, k, i)
<1>1. l = h + u + v
  <2>1. Entered(entry', entry, d, n, k)
    BY DEF Entered, Becomes
  <2> QED
    BY <2>1, LinksEnter DEF Subdir
<1>2. b + u + v + f = a + g
  OBVIOUS
<1>3. h \in Nat /\ f \in Nat /\ g \in Nat /\ a \in Int /\ b \in Int /\ u \in Nat /\ v \in Nat
  BY LinksFinite, RefFacts DEF Flies, DiskType, Is, Subdir
<1> HIDE DEF l, h, f, g, a, b, u, v
<1>4. b + l + f = a + h + g
  BY ONLY <1>1, <1>2, <1>3, AddBalances
<1> QED
  BY <1>4 DEF l, h, f, g, a, b

LEMMA SetName ==
  ASSUME DiskType, NEW d \in Inum, NEW n \in Name, NEW k, entry' = [entry EXCEPT ![d][n] = k]
  PROVE  Becomes(d, n, k)
<1>1. entry \in [Inum -> [Entries -> Inum \cup {0}]] /\ n \in Entries
  BY DEF DiskType, Entries
<1>2. entry' = [entry EXCEPT ![d] = [entry[d] EXCEPT ![n] = k]]
  OBVIOUS
<1>3. entry'[d] = [entry[d] EXCEPT ![n] = k] /\ \A c \in Inum : c # d => entry'[c] = entry[c]
  BY <1>1, <1>2
<1>4. entry[d] \in [Entries -> Inum \cup {0}]
  BY <1>1
<1>5. entry'[d][n] = k /\ \A m \in Name : m # n => entry'[d][m] = entry[d][m]
  BY <1>1, <1>3, <1>4 DEF Entries
<1>6. ASSUME NEW c \in Inum, NEW m \in Name, c # d \/ m # n PROVE entry'[c][m] = entry[c][m]
  BY <1>3, <1>5, <1>6
<1> QED
  BY <1>5, <1>6 DEF Becomes

\* The directory that p has locked is alive, and its entry is what p may change.
LEMMA LockedDir ==
  ASSUME RefInv, TreeInv, NEW p \in Proc, pc[p] \in {"create_look", "create_new", "link_add", "unlink_remove"},
         stage[p] = "iput"
  PROVE  /\ dp[p] \in Slot /\ Dir(p) \in Inum /\ LastName(p) \in Entries
         /\ Locks(p, dp[p]) /\ OnDisk(dp[p]) /\ Live(Dir(p)) /\ itable[dp[p]].ref > 0
         /\ entry[Dir(p)][LastName(p)] \in Inum \cup {0}
<1>1. dp[p] \in Slot
  BY RefFacts, Constants DEF Good, PtrInv, OwnType, DpPcs
<1>2. Locks(p, dp[p])
  BY DEF Locks, DpPcs
<1>3. OnDisk(dp[p]) /\ itable[dp[p]].ref > 0 /\ itable[dp[p]].inum \in Inum
  BY <1>1, <1>2, LockedOnDisk DEF Freeing
<1>4. LastName(p) \in Entries
  BY RefFacts, HeadTailProperties DEF Good, PathInv, HasName, LastName
<1>5. entry[Dir(p)][LastName(p)] \in Inum \cup {0}
  BY <1>3, <1>4, RefFacts DEF DiskType, Dir, Entries
<1> QED
  BY <1>1, <1>2, <1>3, <1>4, <1>5 DEF OnDisk, Dir

LEMMA LinkBalance ==
  ASSUME RefInv, NEW p, NEW d \in Inum, NEW n \in Name, NEW k \in Inum, entry[d][n] = 0, Becomes(d, n, k),
         TypeOf' = TypeOf, dinode' = dinode,
         \A i \in Inum : Flies(p, i) = Is(i, k) /\ Flies(p, i)' = 0 /\ Subdir(d, k, i) = 0 /\ dinode[i].nlink \in Int
  PROVE  Balances(p)
<1>1. \A i \in Inum : dinode'[i].nlink + Flies(p, i) =
                      dinode[i].nlink + Is(i, k) + Subdir(d, k, i) + Flies(p, i)'
  BY DEF Is
<1> QED
  BY <1>1, EnterLinks

LEMMA LinkExistsOwn ==
  ASSUME RefInv, TreeInv, NEW p \in Proc, pc[p] = "link_add", pc'[p] = "link_exists", ip'[p] = ip[p],
         stage'[p] = "iput", dinode' = dinode, itable'[ip[p]].inum = itable[ip[p]].inum
  PROVE  OwnInv(p)' /\ Counted(p) /\ Counted(p)'
<1>1. Where(p) = "link_add" /\ Where(p)' = "link_exists"
  BY DEF Where
<1>2. LinkInv(p)'
  BY <1>1, TreeFacts DEF LinkInv
<1> QED
  BY <1>1, <1>2 DEF OwnInv, TruncInv, FreshInv, EntryInv, Counted

LEMMA LinkAddTree ==
  ASSUME RefInv, TreeInv, NEW p \in Proc, LinkAdd(p)
  PROVE  TreeInv' /\ NamesStep
<1>1. RefInv' /\ Local(p)
  BY WorkRef DEF Work
<1>2. panic = "" /\ pc[p] = "link_add" /\ stage[p] = "iput" /\ put[p] = 0
  BY AtIs DEF LinkAdd
<1>3. UNCHANGED <<call, path, count, procVars, lost>> /\ ProcType /\ TableType /\ DiskType /\ Counted(p)
  BY <1>2, RefFacts DEF LinkAdd, Counted
<1>4. PICK d \in Inum, n \in Entries, old \in Inum \cup {0} : d = Dir(p) /\ n = LastName(p) /\ old = entry[d][n]
  BY <1>2, LockedDir
<1>5. /\ dp[p] \in Slot /\ Locks(p, dp[p]) /\ Live(d) /\ itable[dp[p]].inum = d
      /\ ip[p] \in Slot /\ Points(p, "ip", ip[p]) /\ itable[ip[p]].ref > 0 /\ itable[ip[p]].inum \in Inum
  BY <1>2, <1>3, <1>4, LockedDir, CountedSlot DEF Dir
<1>6. CASE Halt("iget: no inodes")
  BY <1>2, <1>3, <1>6, HaltTree DEF Harmless
<1>7. CASE /\ old # 0 /\ CanGet(old) /\ ~(n = DotDot /\ Stale(old))
           /\ itable' = AfterGet(old)
           /\ Then(p, Got(old), 0, "link_exists")
           /\ UNCHANGED <<ret, diskVars, ptrVars, rest, leaked, panic>>
  <2>1. old \in Inum /\ ~Stale(old)
    BY <1>4, <1>7, ReachSteady DEF Reach, Entries
  <2>2. GotTable(old, {})
    BY <1>3, <1>7, <2>1, GotOnly
  <2>3. pc'[p] = "link_exists" /\ stage'[p] = "iput" /\ ip'[p] = ip[p]
    BY <1>2, <1>3, <1>7, ThenIs DEF ptrVars
  <2>4. itable'[ip[p]].inum = itable[ip[p]].inum
    BY <1>5, <2>2 DEF GotTable
  <2>5. OwnInv(p)' /\ Counted(p)'
    BY <1>2, <1>7, <2>3, <2>4, LinkExistsOwn DEF diskVars
  <2> QED
    BY <1>1, <1>2, <1>3, <1>7, <2>1, <2>2, <2>3, <2>5, GetTree
<1>8. CASE /\ old = 0 /\ ~(n = DotDot /\ Stale(old))
           /\ entry' = [entry EXCEPT ![d][n] = itable[ip[p]].inum]
           /\ UnlockPut(p, dp[p], "link_put")
           /\ dp' = [dp EXCEPT ![p] = 0]
           /\ UNCHANGED <<dinode, target, cur, ip, rest, leaked, panic>>
  <2>1. PICK k \in Inum : k = itable[ip[p]].inum
    BY <1>5
  <2>0. n \in Name
    <3>1. Stale(0)
      BY Constants DEF Stale
    <3> QED
      BY <1>4, <1>8, <3>1 DEF Entries
  <2>2. Becomes(d, n, k) /\ entry[d][n] = 0
    BY <1>3, <1>4, <1>8, <2>0, <2>1, SetName
  <2>3. Still
    BY <1>3, <1>8, StillTable DEF UnlockPut
  <2>4. SlotStep(p) /\ LiveStep(p)
    BY <1>1, <1>2, <1>8, <2>3, LeakedKept, StillSteps
  <2>5. EntryStep(p)
    BY <1>5, <2>0, <2>2 DEF EntryStep, Becomes
  <2>6. pc'[p] = "link_put" /\ stage'[p] = "iput" /\ ~Counted(p)'
    <3>1. pc'[p] = "link_put" /\ stage'[p] = stage[p]
      BY <1>3, <1>8, ThenIs DEF UnlockPut
    <3> QED
      BY <1>2, <3>1 DEF Counted
  <2>7. OwnInv(p)'
    BY <2>6, Away DEF Where
  <2>8. Live(k) /\ dinode[k].type # "dir"
    <3>1. Live(k)
      BY <1>5, <2>1, PointedSlot DEF Pointers
    <3>2. LinkInv(p) /\ Where(p) = "link_add"
      BY <1>2, TreeFacts DEF Where
    <3> QED
      BY <2>1, <3>1, <3>2 DEF LinkInv
  <2>9. Balances(p)
    <3>1. \A i \in Inum : Flies(p, i) = Is(i, k) /\ Flies(p, i)' = 0 /\ Subdir(d, k, i) = 0 /\ dinode[i].nlink \in Int
      BY <1>3, <2>1, <2>6, <2>8 DEF Flies, Is, Subdir, TypeOf, DiskType
    <3>2. TypeOf' = TypeOf /\ dinode' = dinode
      BY <1>8 DEF TypeOf
    <3> QED
      BY <2>0, <2>2, <3>1, <3>2, LinkBalance
  <2>10. TreeInv'
    <3>1. \A i \in Inum : ~Live(i) => dinode'[i] = dinode[i] /\ \A m \in Name : entry'[i][m] = entry[i][m]
      BY <1>5, <1>8, <2>2 DEF Becomes
    <3>2. \A i \in Inum : Live(i) => Live(i)'
      BY <1>8 DEF Live
    <3> QED
      BY <1>1, <1>2, <1>3, <1>8, <2>4, <2>5, <2>7, <2>9, <3>1, <3>2, ChangeTree
  <2>11. NamesStep
    <3>1. HeldNow' = HeldNow
      BY <1>1, <1>3, <2>4, HeldSame DEF procVars
    <3> QED
      BY <1>5, <1>8, <2>0, <2>2, <2>8, <3>1, EnterStep
  <2> QED
    BY <2>10, <2>11
<1>9. CASE Goto(p, "link_exists") /\ UNCHANGED <<itable, diskVars, ptrVars, rest, leaked, panic>>
  <2>1. pc'[p] = "link_exists" /\ stage'[p] = "iput" /\ ip'[p] = ip[p]
    BY <1>2, <1>3, <1>9, GotoIs DEF ptrVars
  <2>2. OwnInv(p)' /\ Counted(p)'
    BY <1>2, <1>9, <2>1, LinkExistsOwn DEF diskVars
  <2>3. Still /\ \A s \in Slot : leaked'[s] >= leaked[s]
    BY <1>9, StillKept, LeakedKept, TreeFacts
  <2>4. UNCHANGED <<dinode, entry, lost>> /\ panic' \in Harmless
    BY <1>2, <1>3, <1>9 DEF diskVars, Harmless
  <2> QED
    BY <1>1, <1>2, <1>3, <2>1, <2>2, <2>3, <2>4, Shuffle
<1> QED
  BY <1>4, <1>6, <1>7, <1>8, <1>9 DEF LinkAdd

-----------------------------------------------------------------------------
(* ialloc *)

LEMMA AllocatedAlone ==
  ASSUME RefInv, TreeInv, NEW p \in Proc, Local(p), pc[p] = "create_look", stage[p] = "iput", put[p] = 0,
         NEW k, NEW g, Allocated(p, k, g)
  PROVE  FreshInv(p)'
<1>1. \A q \in Proc, x \in Pointers : ~Points(q, x, g)
  <2> SUFFICES ASSUME NEW q \in Proc, NEW x \in Pointers, Points(q, x, g) PROVE FALSE
    OBVIOUS
  <2>1. itable[g].ref > 0 /\ Live(itable[g].inum)
    BY PointedSlot DEF Allocated
  <2>2. itable'[g].inum = k /\ itable'[g].inum = itable[g].inum
    BY <2>1 DEF Allocated, GotTable
  <2> QED
    BY <2>1, <2>2 DEF Allocated
<1>2. ASSUME NEW q \in Proc \ {p}, NEW x \in Pointers PROVE ~Points(q, x, g)'
  <2>1. Same(q)
    BY RefFacts, LocalSame
  <2> QED
    BY <1>1, <2>1, SameDeref
<1>3. ASSUME NEW x \in Pointers, x # "ip" PROVE ~Points(p, x, g)'
  <2>1. Deref(p, x)' = Deref(p, x)
    BY <1>3 DEF Deref, Pointers, Allocated
  <2>2. ~Points(p, x, g)
    BY <1>1
  <2> QED
    BY <2>1, <2>2 DEF Points, Allocated
<1>4. ip'[p] = g /\ itable'[g].inum = k /\ dinode'[k].nlink = 0
  BY DEF Allocated, GotTable
<1>5. \A q \in Proc, x \in Pointers : Points(q, x, g)' => q = p /\ x = "ip"
  BY <1>2, <1>3
<1> QED
  BY <1>4, <1>5 DEF FreshInv

LEMMA AllocatedOwn ==
  ASSUME RefInv, TreeInv, NEW p \in Proc, Local(p), pc[p] = "create_look", stage[p] = "iput", put[p] = 0,
         NEW k, NEW g, Allocated(p, k, g), entry[Dir(p)][LastName(p)] = 0, LastName(p) \in Name
  PROVE  OwnInv(p)'
<1>1. FreshInv(p)'
  BY AllocatedAlone
<1>2. pc'[p] = "create_new" /\ put'[p] = 0 /\ entry' = entry /\ dp' = dp /\ rest' = rest
  BY DEF Allocated
<1>3. Dir(p)' = Dir(p) /\ LastName(p)' = LastName(p)
  <2>1. dp[p] \in Slot /\ itable[dp[p]].ref > 0
    BY LockedDir
  <2>2. itable'[dp[p]].inum = itable[dp[p]].inum
    BY <2>1 DEF Allocated, GotTable
  <2> QED
    BY <1>2, <2>1, <2>2 DEF Dir, LastName
<1>4. EntryInv(p)'
  BY <1>2, <1>3 DEF EntryInv
<1>5. Where(p)' = "create_new"
  BY <1>2 DEF Where
<1> QED
  BY <1>1, <1>2, <1>4, <1>5 DEF OwnInv, TruncInv, LinkInv

LEMMA AllocatedLinks ==
  ASSUME RefInv, TreeInv, NEW p \in Proc, pc[p] = "create_look", NEW k, NEW g, Allocated(p, k, g)
  PROVE  Balances(p)
<1> SUFFICES ASSUME NEW i \in Inum
             PROVE  dinode'[i].nlink + Links(entry, TypeOf, i) + Flies(p, i) =
                    dinode[i].nlink + Links(entry', TypeOf', i) + Flies(p, i)'
  BY DEF Balances
<1>1. Links(entry', TypeOf', i) = Links(entry, TypeOf, i)
  <2>1. \A d \in Inum, n \in Name : entry'[d][n] = entry[d][n]
    BY DEF Allocated
  <2>2. ASSUME NEW n \in Name, entry[i][n] # 0
        PROVE  TypeOf'[entry[i][n]] = TypeOf[entry[i][n]]
    <3>1. entry[i][n] \in Inum
      BY <2>2, RefFacts DEF DiskType, Entries
    <3>2. Reach(entry[i][n])
      BY DEF Reach
    <3>3. Live(entry[i][n])
      BY <3>1, <3>2, ReachLive
    <3> QED
      BY <3>1, <3>3 DEF Allocated, TypeOf
  <2> QED
    BY <2>1, <2>2, LinksSame
<1>2. dinode'[i].nlink = dinode[i].nlink
  <2>1. dinode[k].nlink = 0
    BY TreeFacts DEF FreeInv, Allocated
  <2> QED
    BY <2>1 DEF Allocated
<1>3. Flies(p, i) = 0 /\ Flies(p, i)' = 0
  BY DEF Flies, Counted, Allocated
<1> QED
  BY <1>1, <1>2, <1>3

LEMMA AllocatedTree ==
  ASSUME RefInv, RefInv', TreeInv, NEW p \in Proc, Local(p), pc[p] = "create_look", stage[p] = "iput", put[p] = 0,
         panic = "", NEW k, NEW g, Allocated(p, k, g), entry[Dir(p)][LastName(p)] = 0, LastName(p) \in Name
  PROVE  TreeInv' /\ NamesStep
<1>1. SlotStep(p) /\ LiveStep(p)
  <2>1. k \in Inum /\ GotTable(k, {}) /\ leaked' = leaked /\ ~Live(k) /\ Live(k)'
    BY DEF Allocated, Live
  <2>2. \A j \in Inum : Live(j) => dinode'[j] = dinode[j]
    BY DEF Allocated
  <2> QED
    BY <2>1, <2>2, Gets
<1>2. EntryStep(p) /\ UNCHANGED <<entry, target, lost, panic>>
  BY DEF EntryStep, Allocated
<1>3. OwnInv(p)' /\ Balances(p)
  BY AllocatedOwn, AllocatedLinks
<1>4. \A i \in Inum : ~Live(i) /\ ~Live(i)' => dinode'[i] = dinode[i] /\ \A n \in Name : entry'[i][n] = entry[i][n]
  BY DEF Allocated, Live
<1>5. \A i \in Inum : Live(i) => Live(i)'
  BY DEF Allocated, Live
<1>6. TreeInv'
  BY <1>1, <1>2, <1>3, <1>4, <1>5, ChangeTree
<1>7. NamesStep
  <2>1. HeldNow' = HeldNow
    BY <1>1, HeldSame DEF Allocated
  <2>2. \A n \in Name : entry[k][n] = 0
    BY TreeFacts DEF FreeInv, Allocated
  <2>3. k \in Inum /\ ~Live(k) /\ Live(k)' /\ \A i \in Inum : i # k => dinode'[i] = dinode[i]
    BY DEF Allocated, Live
  <2> QED
    BY <1>2, <2>1, <2>2, <2>3, AllocStep
<1> QED
  BY <1>6, <1>7

LEMMA CreateLookTree ==
  ASSUME RefInv, TreeInv, NEW p \in Proc, CreateLook(p)
  PROVE  TreeInv' /\ NamesStep
<1>1. RefInv' /\ Local(p)
  BY WorkRef DEF Work
<1>2. panic = "" /\ pc[p] = "create_look" /\ stage[p] = "iput" /\ put[p] = 0
  BY AtIs DEF CreateLook
<1>3. UNCHANGED <<call, path, count, procVars, lost>> /\ ProcType /\ TableType /\ DiskType /\ ~Counted(p)
  BY <1>2, RefFacts DEF CreateLook, Counted
<1>4. PICK old \in Inum \cup {0} : old = entry[Dir(p)][LastName(p)]
  BY <1>2, LockedDir
<1>5. dp[p] \in Slot /\ Dir(p) \in Inum /\ LastName(p) \in Entries
  BY <1>2, LockedDir
<1> DEFINE new == Min(FreeInodes)
<1>6. \/ \E msg \in Harmless : Halt(msg)
      \/ /\ old # 0 /\ CanGet(old) /\ ~(LastName(p) = DotDot /\ Stale(old))
         /\ itable' = Unlock(AfterGet(old), dp[p])
         /\ Then(p, dp[p], Got(old), "create_old")
         /\ UNCHANGED <<diskVars, leaked, panic>>
      \/ /\ old = 0 /\ FreeInodes # {} /\ CanGet(new) /\ ~(LastName(p) = DotDot /\ Stale(old))
         /\ dinode' = [dinode EXCEPT ![new] = [type |-> NewType(call[p].op), nlink |-> 0]]
         /\ itable' = AfterGet(new)
         /\ ip' = [ip EXCEPT ![p] = Got(new)]
         /\ Then(p, 0, Got(new), "create_new")
         /\ UNCHANGED <<ret, entry, target, cur, dp, rest, leaked, panic>>
  BY <1>4 DEF CreateLook, Harmless, Beyond
<1> HIDE DEF new
<1>7. CASE \E msg \in Harmless : Halt(msg)
  BY <1>2, <1>3, <1>7, HaltTree
<1>8. CASE /\ old # 0 /\ CanGet(old) /\ ~(LastName(p) = DotDot /\ Stale(old))
           /\ itable' = Unlock(AfterGet(old), dp[p])
           /\ Then(p, dp[p], Got(old), "create_old")
           /\ UNCHANGED <<diskVars, leaked, panic>>
  <2>1. old \in Inum /\ ~Stale(old)
    BY <1>4, <1>5, <1>8, ReachSteady DEF Reach, Entries
  <2>2. GotTable(old, {dp[p]})
    BY <1>3, <1>5, <1>8, <2>1, GotUnlock
  <2>3. pc'[p] = "create_old" /\ stage'[p] = "iput"
    BY <1>2, <1>3, <1>8, ThenIs
  <2>4. OwnInv(p)' /\ ~Counted(p)'
    BY <2>3, Away DEF Where, Counted
  <2> QED
    BY <1>1, <1>2, <1>3, <1>8, <2>1, <2>2, <2>4, GetTree
<1>9. CASE /\ old = 0 /\ FreeInodes # {} /\ CanGet(new) /\ ~(LastName(p) = DotDot /\ Stale(old))
           /\ dinode' = [dinode EXCEPT ![new] = [type |-> NewType(call[p].op), nlink |-> 0]]
           /\ itable' = AfterGet(new)
           /\ ip' = [ip EXCEPT ![p] = Got(new)]
           /\ Then(p, 0, Got(new), "create_new")
           /\ UNCHANGED <<ret, entry, target, cur, dp, rest, leaked, panic>>
  <2>1. new \in Inum /\ ~Live(new)
    <3>1. FreeInodes \in SUBSET Nat
      BY Constants DEF FreeInodes
    <3>2. new \in FreeInodes
      BY <1>9, <3>1, MinIn DEF new
    <3> QED
      BY <3>2 DEF FreeInodes, Live
  <2>2. GotTable(new, {})
    BY <1>3, <1>9, <2>1, GotOnly
  <2>3. /\ dinode'[new].type # "none" /\ dinode'[new].nlink = 0
        /\ \A i \in Inum : i # new => dinode'[i] = dinode[i]
    <3>1. NewType(call[p].op) # "none"
      BY DEF NewType
    <3> QED
      BY <1>3, <1>9, <2>1, <3>1 DEF DiskType
  <2>4. pc'[p] = "create_new" /\ put'[p] = 0 /\ stage'[p] = "iput" /\ ip'[p] = Got(new)
    BY <1>2, <1>3, <1>9, ThenIs DEF ProcType
  <2>5. Got(new) \in Slot
    BY <2>2 DEF GotTable
  <2>6. Allocated(p, new, Got(new))
    BY <1>3, <1>9, <2>1, <2>2, <2>3, <2>4, <2>5 DEF Allocated, procVars
  <2>7. LastName(p) \in Name
    <3>1. Stale(0)
      BY Constants DEF Stale
    <3> QED
      BY <1>5, <1>9, <3>1 DEF Entries
  <2> QED
    BY <1>1, <1>2, <1>4, <1>9, <2>6, <2>7, AllocatedTree
<1> QED
  BY <1>6, <1>7, <1>8, <1>9

\* A new entry, and ".." of the inode that it leads to
LEMMA SetNames ==
  ASSUME DiskType, NEW d \in Inum, NEW n \in Name, NEW i \in Inum, i # d, NEW up,
         entry' = [entry EXCEPT ![d][n] = i, ![i][DotDot] = up]
  PROVE  Becomes(d, n, i)
<1>1. entry \in [Inum -> [Entries -> Inum \cup {0}]] /\ n \in Entries /\ DotDot \notin Name /\ Name \subseteq Entries
  BY Constants DEF DiskType
<1>2. entry'[d] = [entry[d] EXCEPT ![n] = i] /\ entry'[i] = [entry[i] EXCEPT ![DotDot] = up]
      /\ \A c \in Inum : c # d /\ c # i => entry'[c] = entry[c]
  BY <1>1
<1>3. \A c \in Inum : entry[c] \in [Entries -> Inum \cup {0}]
  BY <1>1
<1>4. entry'[d][n] = i /\ \A m \in Name : m # n => entry'[d][m] = entry[d][m]
  BY <1>1, <1>2, <1>3
<1>5. \A m \in Name : entry'[i][m] = entry[i][m]
  BY <1>1, <1>2, <1>3
<1>6. ASSUME NEW c \in Inum, NEW m \in Name, c # d \/ m # n PROVE entry'[c][m] = entry[c][m]
  BY <1>2, <1>4, <1>5, <1>6
<1> QED
  BY <1>4, <1>6 DEF Becomes

LEMMA CreatedDisk ==
  ASSUME DiskType, NEW i \in Inum, NEW s \in Slot, itable[s].inum \in Inum, itable[s].inum # i, NEW m \in Int,
         dinode' = UpdateLink([dinode EXCEPT ![i].nlink = 1], s, m)
  PROVE  /\ \A x \in Inum : dinode'[x].type = dinode[x].type
         /\ \A x \in Inum : x # i /\ x # itable[s].inum => dinode'[x] = dinode[x]
         /\ dinode'[i].nlink = 1 /\ dinode'[itable[s].inum].nlink = itable[s].nlink + m
<1>1. dinode \in [Inum -> [type : Types, nlink : Int]]
  BY DEF DiskType
<1> DEFINE d == itable[s].inum
           a == itable[s].nlink + m
           e == [dinode EXCEPT ![i].nlink = 1]
<1>2. dinode' = [e EXCEPT ![d].nlink = a]
  BY DEF UpdateLink
<1>4. /\ e \in [Inum -> [type : Types, nlink : Int]]
      /\ \A x \in Inum : e[x].type = dinode[x].type /\ (x # i => e[x] = dinode[x])
      /\ e[i].nlink = 1
  BY <1>1
<1> HIDE DEF a, e, d
<1>5. d \in Inum /\ d # i
  BY DEF d
<1>3. /\ \A x \in Inum : dinode'[x].type = dinode[x].type
      /\ \A x \in Inum : x # i /\ x # d => dinode'[x] = dinode[x]
      /\ dinode'[i].nlink = 1 /\ dinode'[d].nlink = a
  BY <1>2, <1>4, <1>5
<1> QED
  BY <1>3 DEF a, d

LEMMA EntersTwo ==
  ASSUME RefInv, TreeInv, NEW p \in Proc, pc[p] = "create_new", put[p] = 0, want[p] = 0, stage[p] = "iput"
  PROVE  \E s, t, d, i : Entering(p, s, t, d, i)
<1>1. dp[p] \in Slot /\ Dir(p) \in Inum /\ LastName(p) \in Name /\ OnDisk(dp[p]) /\ itable[dp[p]].ref > 0
  BY LockedDir, TreeFacts DEF EntryInv
<1>2. ip[p] \in Slot
  BY RefFacts, Constants DEF Good, PtrInv, OwnType, HasIp, Where, IpPcs
<1>3. \A x \in Slot : Locks(p, x) <=> x = dp[p] \/ x = ip[p]
  BY DEF Locks, HasLockedIp, Truncating, DpPcs
<1>4. ip[p] # dp[p]
  BY RefFacts DEF Good, Distinct, HasLockedIp, DpPcs
<1>5. OnDisk(ip[p]) /\ itable[ip[p]].ref > 0 /\ itable[ip[p]].inum \in Inum
  BY <1>2, <1>3, LockedOnDisk DEF Freeing
<1>6. itable[ip[p]].inum # itable[dp[p]].inum
  BY <1>1, <1>2, <1>4, <1>5, OneSlot
<1>7. dinode[itable[ip[p]].inum].nlink = 0 /\ entry[Dir(p)][LastName(p)] = 0
  BY TreeFacts DEF FreshInv, EntryInv
<1>8. Entering(p, dp[p], ip[p], itable[dp[p]].inum, itable[ip[p]].inum)
  BY <1>1, <1>2, <1>3, <1>4, <1>5, <1>6, <1>7 DEF Entering, OnDisk, Dir
<1> QED
  BY <1>8

LEMMA EntersLinks ==
  ASSUME RefInv, NEW p, ~Counted(p), ~Counted(p)', NEW s, NEW t, NEW d, NEW i, NEW m,
         Entering(p, s, t, d, i), Enters(p, s, t, d, i, m)
  PROVE  Balances(p)
<1>1. /\ \A x \in Inum : dinode'[x].type = dinode[x].type
      /\ \A x \in Inum : x # i /\ x # d => dinode'[x] = dinode[x]
      /\ dinode'[i].nlink = 1 /\ dinode'[d].nlink = itable[s].nlink + m
  <2>1. i \in Inum /\ s \in Slot /\ itable[s].inum = d /\ itable[s].inum \in Inum /\ itable[s].inum # i /\ m \in Int
    BY DEF Entering, Enters
  <2>2. dinode' = UpdateLink([dinode EXCEPT ![i].nlink = 1], s, m)
    BY DEF Enters
  <2> QED
    BY <2>1, <2>2, RefFacts, CreatedDisk
<1>2. TypeOf' = TypeOf
  BY <1>1 DEF TypeOf
<1>3. \A x \in Inum : Flies(p, x) = 0 /\ Flies(p, x)' = 0
  BY DEF Flies
<1>4. m \in Int /\ Subdir(d, i, d) = m
  BY DEF Entering, Enters, Subdir, TypeOf
<1>5. ASSUME NEW x \in Inum
      PROVE  dinode'[x].nlink = dinode[x].nlink + Is(x, i) + Subdir(d, i, x) /\ dinode'[x].nlink \in Int
  <2>1. dinode[x].nlink \in Int /\ dinode[d].nlink \in Int
    BY RefFacts DEF DiskType, Entering
  <2>2. CASE x = i
    <3>1. dinode[x].nlink = 0 /\ Is(x, i) = 1 /\ Subdir(d, i, x) = 0 /\ dinode'[x].nlink = 1
      BY <1>1, <2>2 DEF Is, Subdir, Entering
    <3> QED
      BY <3>1
  <2>3. CASE x = d
    <3>1. Is(x, i) = 0 /\ Subdir(d, i, x) = m /\ dinode'[x].nlink = dinode[x].nlink + m
      BY <1>1, <1>4, <2>3 DEF Is, Entering
    <3> QED
      BY <1>4, <2>1, <3>1
  <2>4. CASE x # i /\ x # d
    <3>1. Is(x, i) = 0 /\ Subdir(d, i, x) = 0 /\ dinode'[x].nlink = dinode[x].nlink
      BY <1>1, <2>4 DEF Is, Subdir
    <3> QED
      BY <2>1, <3>1
  <2> QED
    BY <2>2, <2>3, <2>4
<1>6. \A x \in Inum : dinode'[x].nlink + Flies(p, x) =
                      dinode[x].nlink + Is(x, i) + Subdir(d, i, x) + Flies(p, x)'
  <2> SUFFICES ASSUME NEW x \in Inum
               PROVE  dinode'[x].nlink + Flies(p, x) = dinode[x].nlink + Is(x, i) + Subdir(d, i, x) + Flies(p, x)'
    OBVIOUS
  <2>1. Is(x, i) \in Int /\ Subdir(d, i, x) \in Int /\ dinode[x].nlink \in Int
    BY RefFacts DEF Is, Subdir, DiskType
  <2> QED
    BY <1>3, <1>5, <2>1
<1>7. PICK n : n = LastName(p)
  OBVIOUS
<1>8. d \in Inum /\ i \in Inum /\ n \in Name /\ entry[d][n] = 0 /\ Becomes(d, n, i)
  BY <1>7 DEF Entering, Enters
<1>9. \A x \in Inum : dinode'[x].nlink \in Int
  BY <1>5
<1> QED
  BY <1>2, <1>6, <1>8, <1>9, EnterLinks

LEMMA EntersSlots ==
  ASSUME RefInv, RefInv', TreeInv, NEW p \in Proc, Local(p), stage[p] = "iput", leaked' = leaked,
         NEW s, NEW t, NEW d, NEW i, NEW m, Entering(p, s, t, d, i), Enters(p, s, t, d, i, m)
  PROVE  SlotStep(p) /\ LiveStep(p) /\ EntryStep(p)
<1>1. /\ \A x \in Inum : dinode'[x].type = dinode[x].type
      /\ \A x \in Inum : x # i /\ x # d => dinode'[x] = dinode[x]
      /\ dinode'[i].nlink = 1 /\ dinode'[d].nlink = itable[s].nlink + m
  <2>1. i \in Inum /\ s \in Slot /\ itable[s].inum = d /\ itable[s].inum \in Inum /\ itable[s].inum # i /\ m \in Int
    BY DEF Entering, Enters
  <2>2. dinode' = UpdateLink([dinode EXCEPT ![i].nlink = 1], s, m)
    BY DEF Enters
  <2> QED
    BY <2>1, <2>2, RefFacts, CreatedDisk
<1>2. /\ Released(s)
      /\ \A x \in Slot : /\ itable'[x].type = itable[x].type
                         /\ itable'[x].nlink = IF x = s THEN itable[s].nlink + m
                                               ELSE IF x = t THEN 1 ELSE itable[x].nlink
  <2>1. s \in Slot /\ t \in Slot /\ s # t /\ m \in Int
        /\ itable' = Unlock(AddLink([itable EXCEPT ![t].nlink = 1], s, m), s)
    BY DEF Entering, Enters
  <2>2. TableType
    BY RefFacts
  <2>3. Released(s) /\ Linked(s, t, m)
    BY <2>1, <2>2, CreatedTable
  <2> QED
    BY <2>3 DEF Linked
<1>3. s # t /\ itable[s].inum = d /\ itable[t].inum = i /\ d # i /\ s \in Slot /\ t \in Slot
      /\ \A x \in Slot : Locks(p, x) <=> x = s \/ x = t
  BY DEF Entering
<1>4. \A x \in Slot : IF Locks(p, x) THEN itable'[x].nlink = dinode'[itable[x].inum].nlink
                                     ELSE itable'[x].nlink = itable[x].nlink
  <2> SUFFICES ASSUME NEW x \in Slot
               PROVE  IF Locks(p, x) THEN itable'[x].nlink = dinode'[itable[x].inum].nlink
                                     ELSE itable'[x].nlink = itable[x].nlink
    OBVIOUS
  <2>1. CASE x = s
    BY <1>1, <1>2, <1>3, <2>1
  <2>2. CASE x = t
    BY <1>1, <1>2, <1>3, <2>2
  <2>3. CASE x # s /\ x # t
    BY <1>2, <1>3, <2>3
  <2> QED
    BY <2>1, <2>2, <2>3
<1>5. \A x \in Slot : /\ itable'[x].inum = itable[x].inum /\ itable'[x].ref = itable[x].ref
                      /\ itable'[x].valid = itable[x].valid /\ itable'[x].type = itable[x].type
  BY <1>2 DEF Released
<1>6. \A j \in Inum : dinode'[j] # dinode[j] => \E x \in Slot : Locks(p, x) /\ itable[x].inum = j
  BY <1>1, <1>3
<1>7. SlotStep(p) /\ LiveStep(p)
  BY <1>1, <1>4, <1>5, <1>6, Relinks
<1>8. EntryStep(p)
  <2>1. ASSUME NEW c \in Inum, NEW n \in Name, entry'[c][n] # entry[c][n] PROVE c = d
    BY <2>1 DEF Enters, Becomes
  <2> QED
    BY <1>3, <2>1 DEF EntryStep
<1> QED
  BY <1>7, <1>8

LEMMA CreateNewTree ==
  ASSUME RefInv, TreeInv, NEW p \in Proc, CreateNew(p)
  PROVE  TreeInv' /\ NamesStep
<1>1. RefInv' /\ Local(p)
  BY WorkRef DEF Work
<1>2. panic = "" /\ pc[p] = "create_new" /\ stage[p] = "iput" /\ put[p] = 0 /\ want[p] = 0
  BY AtIs DEF CreateNew
<1>3. UNCHANGED <<target, history, panic, cwd, ofile>> /\ ProcType /\ DiskType /\ ~Counted(p)
  BY <1>2, RefFacts DEF CreateNew, Counted, procVars
<1>4. PICK s, t, d, i : Entering(p, s, t, d, i)
  BY <1>2, EntersTwo
<1>5. PICK m : m = IF itable[t].type = "dir" THEN 1 ELSE 0
  OBVIOUS
<1>6. s = dp[p] /\ t = ip[p] /\ d = Dir(p) /\ i = itable[ip[p]].inum /\ d \in Inum /\ i \in Inum /\ i # d
      /\ LastName(p) \in Name /\ entry[d][LastName(p)] = 0 /\ Live(d) /\ Live(i)
  BY <1>4 DEF Entering, Dir
<1>7. Enters(p, s, t, d, i, m)
  <2>1. m \in Int
    BY <1>5
  <2>2. /\ itable' = Unlock(AddLink([itable EXCEPT ![t].nlink = 1], s, m), s)
        /\ dinode' = UpdateLink([dinode EXCEPT ![i].nlink = 1], s, m)
    BY <1>5, <1>6 DEF CreateNew, Type
  <2>3. \E up : entry' = [entry EXCEPT ![d][LastName(p)] = i, ![i][DotDot] = up]
    <3>1. entry' = [entry EXCEPT ![d][LastName(p)] = i, ![i][DotDot] = IF Type(p) = "dir" THEN d ELSE @]
      BY <1>6 DEF CreateNew
    <3>2. CASE Type(p) = "dir"
      BY <3>1, <3>2
    <3>3. CASE Type(p) # "dir"
      <4>1. entry' = [entry EXCEPT ![d][LastName(p)] = i, ![i][DotDot] = entry[i][DotDot]]
        BY <1>3, <1>6, <3>1, <3>3 DEF DiskType
      <4> QED
        BY <4>1
    <3> QED
      BY <3>2, <3>3
  <2>4. Becomes(d, LastName(p), i)
    BY <1>3, <1>6, <2>3, SetNames
  <2> QED
    BY <1>5, <2>1, <2>2, <2>4 DEF Enters
<1>8. SlotStep(p) /\ LiveStep(p) /\ EntryStep(p)
  BY <1>1, <1>2, <1>3, <1>4, <1>7, EntersSlots DEF history
<1>9. pc'[p] = "created" /\ stage'[p] = "iput" /\ ~Counted(p)'
  <2>1. pc'[p] = "created" /\ stage'[p] = stage[p]
    BY <1>3, ThenIs DEF CreateNew
  <2> QED
    BY <1>2, <2>1 DEF Counted
<1>10. OwnInv(p)'
  BY <1>9, Away DEF Where
<1>11. Balances(p)
  BY <1>3, <1>4, <1>7, <1>9, EntersLinks
<1>12. /\ \A x \in Inum : dinode'[x].type = dinode[x].type
       /\ \A x \in Inum : x # i /\ x # d => dinode'[x] = dinode[x]
  <2>1. i \in Inum /\ s \in Slot /\ itable[s].inum = d /\ itable[s].inum \in Inum /\ itable[s].inum # i /\ m \in Int
    BY <1>4, <1>7 DEF Entering, Enters
  <2>2. dinode' = UpdateLink([dinode EXCEPT ![i].nlink = 1], s, m)
    BY <1>7 DEF Enters
  <2> QED
    BY <1>3, <2>1, <2>2, CreatedDisk
<1>13. Becomes(d, LastName(p), i)
  BY <1>7 DEF Enters
<1>14. TreeInv'
  <2>1. \A x \in Inum : ~Live(x) => dinode'[x] = dinode[x] /\ \A n \in Name : entry'[x][n] = entry[x][n]
    BY <1>6, <1>12, <1>13 DEF Becomes
  <2>2. \A x \in Inum : Live(x) => Live(x)'
    BY <1>12 DEF Live
  <2> QED
    BY <1>1, <1>2, <1>3, <1>8, <1>10, <1>11, <2>1, <2>2, ChangeTree DEF history
<1>15. NamesStep
  <2>1. HeldNow' = HeldNow
    BY <1>1, <1>3, <1>8, HeldSame
  <2>2. PICK n \in Name : n = LastName(p)
    BY <1>6
  <2> QED
    BY <1>6, <1>12, <1>13, <2>1, <2>2, EnterStep
<1> QED
  BY <1>14, <1>15

LEMMA LeavesTwo ==
  ASSUME RefInv, TreeInv, NEW p \in Proc, pc[p] = "unlink_remove", put[p] = 0, want[p] = 0, stage[p] = "iput"
  PROVE  \E s, t, d, i : Leaving(p, s, t, d, i)
<1>1. dp[p] \in Slot /\ Dir(p) \in Inum /\ LastName(p) \in Name /\ OnDisk(dp[p]) /\ itable[dp[p]].ref > 0
  BY LockedDir, TreeFacts DEF EntryInv
<1>2. ip[p] \in Slot
  BY RefFacts, Constants DEF Good, PtrInv, OwnType, HasIp, Where, IpPcs
<1>3. \A x \in Slot : Locks(p, x) <=> x = dp[p] \/ x = ip[p]
  BY DEF Locks, HasLockedIp, Truncating, DpPcs
<1>4. ip[p] # dp[p]
  BY RefFacts DEF Good, Distinct, HasLockedIp, DpPcs
<1>5. OnDisk(ip[p]) /\ itable[ip[p]].ref > 0 /\ itable[ip[p]].inum \in Inum
  BY <1>2, <1>3, LockedOnDisk DEF Freeing
<1>6. itable[ip[p]].inum # itable[dp[p]].inum
  BY <1>1, <1>2, <1>4, <1>5, OneSlot
<1>7. entry[Dir(p)][LastName(p)] = itable[ip[p]].inum
  BY TreeFacts DEF EntryInv
<1>8. dinode[itable[ip[p]].inum].nlink >= 1
  <2>1. Reach(itable[ip[p]].inum)
    BY <1>1, <1>7 DEF Reach
  <2> QED
    BY <1>5, <2>1, ReachLive
<1>9. Leaving(p, dp[p], ip[p], itable[dp[p]].inum, itable[ip[p]].inum)
  BY <1>1, <1>2, <1>3, <1>4, <1>5, <1>6, <1>7, <1>8 DEF Leaving, OnDisk, Dir
<1> QED
  BY <1>9

LEMMA RemovesFacts ==
  ASSUME RefInv, NEW p, NEW s, NEW t, NEW d, NEW i, NEW m, Leaving(p, s, t, d, i), Removes(p, s, t, d, i, m)
  PROVE  RemoveFacts(s, t, d, i, m)
<1>1. s \in Slot /\ d \in Inum /\ itable[s].inum = d /\ m \in Int /\ itable[s].nlink = dinode[d].nlink
  BY DEF Leaving, Removes
<1>2. itable' = Unlock(AddLink(itable, s, m), s) /\ dinode' = UpdateLink(dinode, s, m)
  BY DEF Removes
<1>3. /\ Released(s)
      /\ \A x \in Slot : /\ itable'[x].type = itable[x].type
                         /\ x # s => itable'[x].nlink = itable[x].nlink
      /\ itable'[s].nlink = dinode'[itable[s].inum].nlink
      /\ \A x \in Inum : dinode'[x].type = dinode[x].type
      /\ \A x \in Inum : x # itable[s].inum => dinode'[x] = dinode[x]
      /\ \A x \in Inum : dinode'[x].nlink = dinode[x].nlink + (IF x = itable[s].inum THEN m ELSE 0)
  BY <1>1, <1>2, CountFacts
<1>4. dinode'[d].nlink = dinode[d].nlink + m
  BY <1>1, <1>3
<1> QED
  BY <1>1, <1>3, <1>4 DEF RemoveFacts

LEMMA RemovesSlots ==
  ASSUME RefInv, RefInv', TreeInv, NEW p \in Proc, Local(p), stage[p] = "iput", leaked' = leaked,
         NEW s, NEW t, NEW d, NEW i, NEW m, Leaving(p, s, t, d, i), Removes(p, s, t, d, i, m)
  PROVE  SlotStep(p) /\ LiveStep(p) /\ EntryStep(p)
<1>1. RemoveFacts(s, t, d, i, m)
  BY RemovesFacts
<1>2. s # t /\ itable[s].inum = d /\ itable[t].inum = i /\ d # i /\ s \in Slot /\ t \in Slot /\ i \in Inum
      /\ itable[t].nlink = dinode[i].nlink
      /\ \A x \in Slot : Locks(p, x) <=> x = s \/ x = t
  BY DEF Leaving
<1>3. \A x \in Slot : IF Locks(p, x) THEN itable'[x].nlink = dinode'[itable[x].inum].nlink
                                     ELSE itable'[x].nlink = itable[x].nlink
  <2> SUFFICES ASSUME NEW x \in Slot
               PROVE  IF Locks(p, x) THEN itable'[x].nlink = dinode'[itable[x].inum].nlink
                                     ELSE itable'[x].nlink = itable[x].nlink
    OBVIOUS
  <2>1. CASE x = s
    BY <1>1, <1>2, <2>1 DEF RemoveFacts
  <2>2. CASE x = t
    BY <1>1, <1>2, <2>2 DEF RemoveFacts
  <2>3. CASE x # s /\ x # t
    BY <1>1, <1>2, <2>3 DEF RemoveFacts
  <2> QED
    BY <2>1, <2>2, <2>3
<1>4. \A x \in Slot : /\ itable'[x].inum = itable[x].inum /\ itable'[x].ref = itable[x].ref
                      /\ itable'[x].valid = itable[x].valid /\ itable'[x].type = itable[x].type
  BY <1>1 DEF RemoveFacts, Released
<1>5. \A j \in Inum : dinode'[j] # dinode[j] => \E x \in Slot : Locks(p, x) /\ itable[x].inum = j
  BY <1>1, <1>2 DEF RemoveFacts
<1>6. \A j \in Inum : dinode'[j].type = dinode[j].type
  BY <1>1 DEF RemoveFacts
<1>7. SlotStep(p) /\ LiveStep(p)
  BY <1>3, <1>4, <1>5, <1>6, Relinks
<1>8. EntryStep(p)
  <2>1. ASSUME NEW c \in Inum, NEW n \in Name, entry'[c][n] # entry[c][n] PROVE c = d
    BY <2>1 DEF Removes, Becomes
  <2> QED
    BY <1>2, <2>1 DEF EntryStep
<1> QED
  BY <1>7, <1>8

LEMMA Minus ==
  \A a \in Int : (a = -1 => -a = 1) /\ (a = 0 => -a = 0)
  OBVIOUS

LEMMA RemovesLinks ==
  ASSUME RefInv, NEW p, ~Counted(p), Counted(p)', ip' = ip, NEW s, NEW t, NEW d, NEW i, NEW m,
         Leaving(p, s, t, d, i), Removes(p, s, t, d, i, m)
  PROVE  Balances(p)
<1>1. RemoveFacts(s, t, d, i, m)
  BY RemovesFacts
<1>2. TypeOf' = TypeOf
  BY <1>1 DEF TypeOf, RemoveFacts
<1>3. \A x \in Inum : Flies(p, x) = 0 /\ Flies(p, x)' = Is(x, i)
  <2>1. t = ip[p] /\ itable'[t].inum = i
    BY <1>1 DEF Leaving, RemoveFacts, Released
  <2> QED
    BY <2>1 DEF Flies, Is
<1>4. m \in Int /\ Subdir(d, i, d) = -m
  <2>1. m = (IF itable[t].type = "dir" THEN -1 ELSE 0) /\ TypeOf[i] = itable[t].type
    BY DEF Leaving, Removes, TypeOf
  <2>2. CASE itable[t].type = "dir"
    <3>1. Subdir(d, i, d) = 1
      BY <2>1, <2>2 DEF Subdir
    <3>2. m = -1
      BY <2>1, <2>2
    <3>3. m \in Int
      BY <3>2
    <3> QED
      BY <3>1, <3>2, <3>3, Minus, Zenon
  <2>3. CASE itable[t].type # "dir"
    <3>1. Subdir(d, i, d) = 0
      BY <2>1, <2>3 DEF Subdir
    <3>2. m = 0
      BY <2>1, <2>3
    <3>3. m \in Int
      BY <3>2
    <3> QED
      BY <3>1, <3>2, <3>3, Minus, Zenon
  <2> QED
    BY <2>2, <2>3
<1>5. ASSUME NEW x \in Inum
      PROVE  dinode'[x].nlink + Subdir(d, i, x) = dinode[x].nlink /\ dinode'[x].nlink \in Int
  <2>1. dinode[x].nlink \in Int
    BY RefFacts DEF DiskType
  <2>2. CASE x = d
    <3>1. Subdir(d, i, x) = -m /\ dinode'[x].nlink = dinode[x].nlink + m
      BY <1>1, <1>4, <2>2 DEF RemoveFacts
    <3> QED
      BY <1>4, <2>1, <3>1
  <2>3. CASE x # d
    <3>1. Subdir(d, i, x) = 0 /\ dinode'[x].nlink = dinode[x].nlink
      BY <1>1, <2>3 DEF Subdir, RemoveFacts
    <3> QED
      BY <2>1, <3>1
  <2> QED
    BY <2>2, <2>3
<1>6. \A x \in Inum : dinode'[x].nlink + Is(x, i) + Subdir(d, i, x) + Flies(p, x) = dinode[x].nlink + Flies(p, x)'
  <2> SUFFICES ASSUME NEW x \in Inum
               PROVE  dinode'[x].nlink + Is(x, i) + Subdir(d, i, x) + Flies(p, x) = dinode[x].nlink + Flies(p, x)'
    OBVIOUS
  <2>1. Is(x, i) \in Int /\ Subdir(d, i, x) \in Int /\ dinode[x].nlink \in Int
    BY RefFacts DEF Is, Subdir, DiskType
  <2> QED
    BY <1>3, <1>5, <2>1
<1>7. PICK n : n = LastName(p)
  OBVIOUS
<1>8. d \in Inum /\ i \in Inum /\ n \in Name /\ entry[d][n] = i /\ Becomes(d, n, 0)
  BY <1>7 DEF Leaving, Removes
<1>9. \A x \in Inum : dinode'[x].nlink \in Int
  BY <1>5
<1> QED
  BY <1>2, <1>6, <1>8, <1>9, RemoveLinks

LEMMA RemoveTree ==
  ASSUME RefInv, RefInv', TreeInv, NEW p \in Proc, Local(p), pc[p] = "unlink_remove", stage[p] = "iput",
         panic = "", NEW s, NEW t, NEW d, NEW i, NEW m, Leaving(p, s, t, d, i), Removes(p, s, t, d, i, m),
         Then(p, dp[p], 0, "unlink_dec"), UNCHANGED <<target, ip, leaked, lost, panic, cwd, ofile>>
  PROVE  TreeInv' /\ NamesStep
<1>1. RemoveFacts(s, t, d, i, m)
  BY RemovesFacts
<1>2. d \in Inum /\ i \in Inum /\ LastName(p) \in Name /\ entry[d][LastName(p)] = i /\ Live(d)
      /\ Becomes(d, LastName(p), 0)
  BY DEF Leaving, Removes
<1>3. SlotStep(p) /\ LiveStep(p) /\ EntryStep(p)
  BY RemovesSlots
<1>4. pc'[p] = "unlink_dec" /\ stage'[p] = "iput" /\ Counted(p)' /\ ~Counted(p)
  <2>1. pc'[p] = "unlink_dec" /\ stage'[p] = stage[p]
    BY RefFacts, ThenIs
  <2> QED
    BY <2>1 DEF Counted
<1>5. OwnInv(p)'
  BY <1>4, Away DEF Where
<1>6. Balances(p)
  BY <1>4, RemovesLinks
<1>7. TreeInv'
  <2>1. \A x \in Inum : ~Live(x) => dinode'[x] = dinode[x] /\ \A n \in Name : entry'[x][n] = entry[x][n]
    BY <1>1, <1>2 DEF Becomes, RemoveFacts
  <2>2. \A x \in Inum : Live(x) => Live(x)'
    BY <1>1 DEF Live, RemoveFacts
  <2> QED
    BY <1>3, <1>5, <1>6, <2>1, <2>2, ChangeTree
<1>8. NamesStep
  <2>1. HeldNow' = HeldNow
    BY <1>3, HeldSame
  <2>2. PICK n \in Name : n = LastName(p)
    BY <1>2
  <2>3. entry[d][n] # 0
    BY <1>2, <2>2, Constants
  <2>4. \A x \in Inum : dinode'[x].type = dinode[x].type
    BY <1>1 DEF RemoveFacts
  <2> QED
    BY <1>2, <2>1, <2>2, <2>3, <2>4, RemoveStep
<1> QED
  BY <1>7, <1>8

LEMMA UnlinkRemoveTree ==
  ASSUME RefInv, TreeInv, NEW p \in Proc, UnlinkRemove(p)
  PROVE  TreeInv' /\ NamesStep
<1>1. RefInv' /\ Local(p)
  BY WorkRef DEF Work
<1>2. panic = "" /\ pc[p] = "unlink_remove" /\ stage[p] = "iput" /\ put[p] = 0 /\ want[p] = 0
  BY AtIs DEF UnlinkRemove
<1>3. UNCHANGED <<call, path, count, procVars, lost>> /\ DiskType /\ ~Counted(p)
  BY <1>2, RefFacts DEF UnlinkRemove, Counted
<1>4. PICK s, t, d, i : Leaving(p, s, t, d, i)
  BY <1>2, LeavesTwo
<1>5. s = dp[p] /\ t = ip[p] /\ d = Dir(p) /\ d \in Inum /\ LastName(p) \in Name
  BY <1>4 DEF Leaving, Dir
<1>6. ~(itable[ip[p]].nlink < 1)
  <2>1. itable[t].nlink = dinode[i].nlink /\ dinode[i].nlink >= 1 /\ i \in Inum
    BY <1>4 DEF Leaving
  <2>2. dinode[i].nlink \in Int
    BY <1>3, <2>1 DEF DiskType
  <2> QED
    BY <1>5, <2>1, <2>2
<1>7. PICK m : m = IF Type(p) = "dir" THEN -1 ELSE 0
  OBVIOUS
<1>8. \/ /\ UnlockPut(p, ip[p], "unlink_bad")
         /\ UNCHANGED <<diskVars, cur, dp, rest, leaked, panic>>
      \/ /\ entry' = [entry EXCEPT ![Dir(p)][LastName(p)] = 0]
         /\ itable' = Unlock(AddLink(itable, dp[p], m), dp[p])
         /\ dinode' = UpdateLink(dinode, dp[p], m)
         /\ Then(p, dp[p], 0, "unlink_dec")
         /\ UNCHANGED <<ret, target, cur, ip, rest, leaked, panic>>
  BY <1>6, <1>7 DEF UnlinkRemove
<1>9. CASE /\ UnlockPut(p, ip[p], "unlink_bad")
           /\ UNCHANGED <<diskVars, cur, dp, rest, leaked, panic>>
  <2>1. "unlink_bad" \in Calm
    BY DEF Calm, Nameless
  <2>2. Then(p, ip[p], 0, "unlink_bad") /\ itable' = Unlock(itable, ip[p])
    BY <1>9 DEF UnlockPut
  <2>3. UNCHANGED <<dinode, entry, target, history, panic>>
    BY <1>3, <1>9 DEF diskVars, history
  <2> QED
    BY <1>1, <1>2, <1>3, <2>1, <2>2, <2>3, EndsHere
<1>10. CASE /\ entry' = [entry EXCEPT ![Dir(p)][LastName(p)] = 0]
            /\ itable' = Unlock(AddLink(itable, dp[p], m), dp[p])
            /\ dinode' = UpdateLink(dinode, dp[p], m)
            /\ Then(p, dp[p], 0, "unlink_dec")
            /\ UNCHANGED <<ret, target, cur, ip, rest, leaked, panic>>
  <2>1. m \in Int /\ m = IF itable[t].type = "dir" THEN -1 ELSE 0
    BY <1>5, <1>7 DEF Type
  <2>2. Becomes(d, LastName(p), 0)
    BY <1>3, <1>5, <1>10, SetName
  <2>3. Removes(p, s, t, d, i, m)
    BY <1>5, <1>10, <2>1, <2>2 DEF Removes
  <2>4. UNCHANGED <<target, ip, leaked, lost, panic, cwd, ofile>>
    BY <1>3, <1>10 DEF procVars
  <2> QED
    BY <1>1, <1>2, <1>4, <1>10, <2>3, <2>4, RemoveTree
<1> QED
  BY <1>8, <1>9, <1>10

-----------------------------------------------------------------------------
(* The first states, every step, and what follows *)

\* A tree as boot finds it has the counts that its links make.
LEMMA TreeLinks ==
  ASSUME NEW tree, IsTree(tree), NEW i \in Inum, tree.type[i] = "none"
  PROVE  Links(tree.entry, tree.type, i) = 0
<1>1. i # ROOTINO /\ tree.entry[i] = Empty
  BY DEF IsTree
<1>2. NamesOf(tree.entry, i) = {}
  <2> SUFFICES ASSUME NEW d \in Inum, NEW n \in Name, tree.entry[d][n] = i PROVE FALSE
    BY DEF NamesOf
  <2>1. i # 0
    BY Constants
  <2> QED
    BY <2>1 DEF IsTree
<1>3. Subdirs(tree.entry, tree.type, i) = {}
  BY <1>1, EmptyEntry DEF Subdirs
<1>4. Cardinality(NamesOf(tree.entry, i)) = 0 /\ Cardinality(Subdirs(tree.entry, tree.type, i)) = 0
  BY <1>2, <1>3, FS_EmptySet
<1> QED
  BY <1>1, <1>4 DEF Links

LEMMA InitTree ==
  ASSUME Init
  PROVE  TreeInv /\ Promise!Init
<1>0. RefInv
  BY InitRef
<1>1. PICK tree \in Trees :
        /\ entry = tree.entry
        /\ target = tree.target
        /\ dinode = [i \in Inum |-> [type |-> tree.type[i],
                       nlink |-> IF tree.type[i] = "none" THEN 0 ELSE Links(tree.entry, tree.type, i)]]
  BY DEF Init
<1>2. IsTree(tree)
  BY TreeAssumption
<1>3. \A i \in Inum : /\ dinode[i].type = tree.type[i]
                      /\ dinode[i].nlink = IF tree.type[i] = "none" THEN 0 ELSE Links(tree.entry, tree.type, i)
  BY <1>1
<1>4. /\ itable = [s \in Slot |-> [inum |-> IF s = 1 THEN ROOTINO ELSE 0, valid |-> FALSE, lock |-> NoOne,
                                 ref |-> IF s = 1 THEN Cardinality(Proc) ELSE 0,
                                 type |-> "none", nlink |-> 0]]
      /\ \A p \in Proc : /\ pc[p] = "idle" /\ put[p] = 0 /\ stage[p] = "iput"
                         /\ cur[p] = 0 /\ ip[p] = 0 /\ dp[p] = 0 /\ ofile[p] = 0 /\ cwd[p] = 1
      /\ lost = {} /\ panic = ""
  BY DEF Init
<1>5. LiveInv
  <2> SUFFICES ASSUME NEW p \in Proc, NEW x \in Pointers, NEW s \in Slot, Points(p, x, s)
               PROVE  Live(itable[s].inum)
    BY DEF LiveInv
  <2>1. s = 1
    BY <1>4, Constants DEF Points, Deref, Pointers
  <2>2. itable[s].inum = ROOTINO
    BY <1>4, <2>1
  <2>3. dinode[ROOTINO].type = "dir"
    BY <1>2, <1>3, Constants DEF IsTree
  <2> QED
    BY <2>2, <2>3 DEF Live
<1>6. SlotInv
  <2>1. \A s \in Slot : ~itable[s].valid /\ (s # 1 => itable[s].ref = 0)
    BY <1>4
  <2> QED
    BY <2>1 DEF SlotInv
<1>7. FreeInv
  <2> SUFFICES ASSUME NEW i \in Inum, dinode[i].type = "none"
               PROVE  dinode[i].nlink = 0 /\ \A n \in Name : entry[i][n] = 0
    BY DEF FreeInv, Live
  <2>1. tree.type[i] = "none"
    BY <1>3
  <2>2. entry[i] = Empty
    BY <1>1, <1>2, <2>1 DEF IsTree
  <2> QED
    BY <1>3, <2>1, <2>2, EmptyEntry
<1>8. LinksExact
  <2>1. TypeOf = tree.type
    BY <1>2, <1>3 DEF TypeOf, IsTree
  <2>2. \A i \in Inum : dinode[i].nlink = Links(entry, TypeOf, i)
    BY <1>1, <1>2, <1>3, <2>1, TreeLinks
  <2>3. \A i : InFlight(i) = {}
    BY <1>4 DEF InFlight, Counted
  <2>4. \A i : Cardinality(InFlight(i)) = 0
    BY <2>3, FS_EmptySet
  <2>5. ASSUME NEW i \in Inum
        PROVE  dinode[i].nlink = Links(entry, TypeOf, i) + Cardinality(InFlight(i))
    <3>1. Links(entry, TypeOf, i) \in Nat
      BY LinksFinite
    <3> QED
      BY <2>2, <2>4, <3>1
  <2> QED
    BY <1>4, <2>5 DEF LinksExact, TypeOf
<1>9. PanicsAreKnown
  BY <1>4 DEF PanicsAreKnown
<1>11. ASSUME NEW p \in Proc PROVE OwnInv(p)
  <2>1. Where(p) = "idle"
    BY <1>4 DEF Where
  <2> QED
    BY <1>4, <2>1 DEF OwnInv, TruncInv, FreshInv, EntryInv, LinkInv
<1>12. TreeInv
  BY <1>5, <1>6, <1>7, <1>8, <1>9, <1>11 DEF TreeInv
<1>13. Promise!Init
  <2>1. Alive \subseteq Inum
    BY DEF Alive
  <2>2. NamesNow \in [Inum -> [Name -> Alive \cup {0}]]
    <3>1. \A i \in Inum, n \in Name : entry[i][n] \in Alive \cup {0}
      <4> SUFFICES ASSUME NEW i \in Inum, NEW n \in Name, entry[i][n] # 0 PROVE entry[i][n] \in Alive
        OBVIOUS
      <4>1. entry[i][n] \in Inum
        BY <1>0, RefFacts DEF DiskType, Entries
      <4>2. Reach(entry[i][n])
        BY DEF Reach
      <4> QED
        BY <1>0, <1>12, <4>1, <4>2, ReachLive DEF Alive, Live
    <3> QED
      BY <3>1 DEF NamesNow
  <2>3. HeldNow \in [Proc -> SUBSET Alive]
    BY <1>0, <1>5, HeldAlive DEF HeldNow
  <2> QED
    BY <2>1, <2>2, <2>3 DEF Promise!Init, Alive, NamesNow, HeldNow
<1> QED
  BY <1>12, <1>13

LEMMA WorkTree ==
  ASSUME RefInv, TreeInv, NEW p \in Proc, Begin(p) \/ Work(p)
  PROVE  TreeInv' /\ NamesStep
<1>1. CASE Begin(p)
  BY <1>1, BeginTree
<1>2. CASE LockStep(p) \/ Iput(p) \/ IputTrunc(p) \/ IputInvalid(p) \/ IputDrop(p)
  BY <1>2, LockStepTree, IputTree, IputTruncTree, IputInvalidTree, IputDropTree
<1>3. CASE Namei(p) \/ Look(p)
  BY <1>3, NameiTree, LookTree
<1>4. CASE Create(p) \/ CreateLook(p) \/ CreateOld(p) \/ CreateNew(p) \/ Created(p)
  BY <1>4, CreateTree, CreateLookTree, CreateOldTree, CreateNewTree, CreatedTree
<1>5. CASE Open(p) \/ OpenCheck(p) \/ OpenFile(p) \/ ReadlinkFound(p) \/ ReadlinkRead(p)
  BY <1>5, OpenTree, OpenCheckTree, OpenFileTree, ReadlinkFoundTree, ReadlinkReadTree
<1>6. CASE Chdir(p) \/ ChdirAgain(p) \/ ChdirLock(p) \/ ChdirCheck(p)
  BY <1>6, ChdirTree, ChdirAgainTree, ChdirLockTree, ChdirCheckTree
<1>7. CASE Link(p) \/ LinkInc(p) \/ LinkParent(p) \/ LinkAdd(p) \/ LinkPut(p) \/ LinkExists(p) \/ LinkBad(p)
  BY <1>7, LinkTree, LinkIncTree, LinkParentTree, LinkAddTree, LinkPutTree, LinkExistsTree, LinkBadTree
<1>8. CASE Unlink(p) \/ UnlinkLook(p) \/ UnlinkRemove(p) \/ UnlinkBad(p) \/ UnlinkDec(p)
  BY <1>8, UnlinkTree, UnlinkLookTree, UnlinkRemoveTree, UnlinkBadTree, UnlinkDecTree
<1> QED
  BY <1>1, <1>2, <1>3, <1>4, <1>5, <1>6, <1>7, <1>8 DEF Work

LEMMA IdleTree ==
  ASSUME TreeInv, UNCHANGED vars
  PROVE  TreeInv' /\ NamesStep
<1>1. /\ UNCHANGED <<dinode, entry, target, itable, pc, ret, put, stage, cur, ip, dp>>
      /\ UNCHANGED <<path, rest, cwd, ofile, lost, panic>>
  BY DEF vars, diskVars, ctlVars, ptrVars, argVars, procVars, history
<1>2. LiveInv' /\ SlotInv' /\ FreeInv'
  <2>1. \A q, x, s : Points(q, x, s)' <=> Points(q, x, s)
    BY <1>1 DEF Points, Deref
  <2>2. \A s : OnDisk(s)' <=> OnDisk(s)
    BY <1>1 DEF OnDisk, Live
  <2>3. \A q, s : Freeing(q, s)' <=> Freeing(q, s)
    BY <1>1 DEF Freeing
  <2>4. \A i : Live(i)' <=> Live(i)
    BY <1>1 DEF Live
  <2>5. LiveInv' <=> LiveInv
    BY <1>1, <2>1, <2>4 DEF LiveInv
  <2>6. SlotInv' <=> SlotInv
    BY <1>1, <2>1, <2>2, <2>3, <2>4 DEF SlotInv
  <2>7. FreeInv' <=> FreeInv
    BY <1>1, <2>1, <2>2, <2>3, <2>4 DEF FreeInv
  <2> QED
    BY <2>5, <2>6, <2>7, TreeFacts
<1>3. LinksExact'
  <2>1. \A i : InFlight(i)' = InFlight(i)
    BY <1>1 DEF InFlight, Counted
  <2> QED
    BY <1>1, <2>1, TreeFacts DEF LinksExact
<1>4. PanicsAreKnown'
  BY <1>1, TreeFacts DEF PanicsAreKnown
<1>5. ASSUME NEW p \in Proc PROVE OwnInv(p)'
  <2>1. TruncInv(p)' /\ FreshInv(p)' /\ EntryInv(p)'
    <3>1. TruncInv(p)' <=> TruncInv(p)
      BY <1>1 DEF TruncInv, LastRef
    <3>2. FreshInv(p)' <=> FreshInv(p)
      BY <1>1 DEF FreshInv, Points, Deref
    <3>3. EntryInv(p)' <=> EntryInv(p)
      BY <1>1 DEF EntryInv, LastName, Dir
    <3> QED
      BY <3>1, <3>2, <3>3, TreeFacts
  <2>2. LinkInv(p)'
    BY <1>1, TreeFacts DEF LinkInv, Where
  <2> QED
    BY <2>1, <2>2 DEF OwnInv
<1>6. NamesStep
  <2>1. Alive' = Alive /\ NamesNow' = NamesNow /\ HeldNow' = HeldNow
    BY <1>1 DEF Alive, NamesNow, HeldNow, InodesOf
  <2> QED
    BY <2>1 DEF NamesStep, Promise!vars, Alive, NamesNow, HeldNow
<1> QED
  BY <1>2, <1>3, <1>4, <1>5, <1>6 DEF TreeInv

LEMMA TreeNext ==
  ASSUME RefInv, TreeInv, [Next]_vars
  PROVE  TreeInv' /\ NamesStep
<1>1. CASE UNCHANGED vars
  BY <1>1, IdleTree
<1>2. CASE \E p \in Proc : Begin(p) \/ Work(p)
  BY <1>2, WorkTree
<1> QED
  BY <1>1, <1>2 DEF Next, Stop

\* Slots, inodes, link counts and names belong together through every call,
\* until it comes to a ".." that is stale or a symlink over a directory (sysfile.c):
\* the inductive invariant of the rest.
THEOREM TreeInvariance == Spec => []TreeInv
<1>1. Init => TreeInv
  BY InitTree
<1>2. RefInv /\ TreeInv /\ [Next]_vars => TreeInv'
  BY TreeNext
<1> QED
  BY <1>1, <1>2, RefInvariance, PTL DEF Spec

\* nlink of every inode is the number of its links on disk and in flight,
\* through sys_link, sys_unlink, create and the freeing of iput (sysfile.c, fs.c).
THEOREM LinksAreExact == Spec => []LinksExact
<1>1. TreeInv => LinksExact
  BY DEF TreeInv
<1> QED
  BY <1>1, TreeInvariance, PTL

\* Until then ilock never finds an inode without a type, and unlink none without a
\* link: of the panics of fs.c and sysfile.c only the four that PanicsAreKnown names
\* are in reach.
THEOREM OnlyKnownPanics == Spec => []PanicsAreKnown
<1>1. TreeInv => PanicsAreKnown
  BY DEF TreeInv
<1> QED
  BY <1>1, TreeInvariance, PTL

\* The inode table and the calls implement the namespace: names come and go
\* one at a time, and only what has no name and no holder is freed.
THEOREM NamespaceRefinement == Spec => ImplementsNamespace
<1>1. Init => Promise!Init
  BY InitTree
<1>2. RefInv /\ TreeInv /\ [Next]_vars => [Promise!Next]_(Promise!vars)
  BY TreeNext DEF NamesStep
<1> QED
  BY <1>1, <1>2, RefInvariance, TreeInvariance, PTL DEF Spec, ImplementsNamespace, Promise!Spec
=============================================================================
