-------------------------- MODULE BufferCache_proof --------------------------
(***************************************************************************)
(* Proofs about BufferCache and the driver below it for any number of      *)
(* processes, buffers, blocks and descriptors.                             *)
(***************************************************************************)
EXTENDS BufferCache, FiniteSetTheorems, WellFoundedInduction, TLAPS

-----------------------------------------------------------------------------
(* Least and greatest elements, the first three of a set, the list *)

Lt == {ss \in Nat \X Nat : ss[1] < ss[2]}

LEMMA LtWellFounded == IsWellFoundedOn(Lt, Nat)
  BY NatLessThanWellFounded DEF OpToRel, Lt

\* Min of a set of numbers is its least element.
LEMMA MinIn ==
  ASSUME NEW S \in SUBSET Nat, S # {}
  PROVE  Min(S) \in S /\ \A y \in S : Min(S) <= y
<1>1. PICK x \in S : \A y \in S : ~(<<y, x>> \in Lt)
  BY LtWellFounded, WFMin
<1>2. \A y \in S : <<y, x>> \in Lt <=> y < x
  BY DEF Lt
<1>3. x \in Nat /\ \A y \in S : y \in Nat /\ ~(y < x)
  BY <1>1, <1>2
<1>4. \A y \in S : x <= y
  BY <1>3
<1> QED
  BY <1>4 DEF Min

\* Max of a bounded set of numbers is its greatest element.
LEMMA MaxIn ==
  ASSUME NEW n \in Nat, NEW S \in SUBSET (1 .. n), S # {}
  PROVE  Max(S) \in S
<1> DEFINE T == {n - x : x \in S}
<1>1. T \in SUBSET Nat /\ T # {}
  <2>1. ASSUME NEW x \in S PROVE n - x \in Nat
    <3>1. x \in 1 .. n
      BY <2>1
    <3> QED
      BY <3>1
  <2>2. PICK a : a \in S
    OBVIOUS
  <2>3. n - a \in T
    BY <2>2
  <2> QED
    BY <2>1, <2>3
<1>2. PICK x \in S : \A y \in S : n - x <= n - y
  <2>1. Min(T) \in T /\ \A y \in T : Min(T) <= y
    BY <1>1, MinIn
  <2>2. PICK x \in S : Min(T) = n - x
    BY <2>1
  <2> QED
    BY <2>1, <2>2
<1>3. \A y \in S : x >= y
  BY <1>2
<1> QED
  BY <1>3 DEF Max

\* What alloc3_desc takes: three descriptors, the first ones
Chain(S) == CHOOSE c \in kSubset(3, S) : \A i \in c, j \in S \ c : i < j

LEMMA FirstThree ==
  ASSUME NEW S \in SUBSET Nat, IsFiniteSet(S), Cardinality(S) >= 3
  PROVE  Chain(S) \subseteq S /\ Cardinality(Chain(S)) = 3
<1> DEFINE a == Min(S)
           b == Min(S \ {a})
           d == Min((S \ {a}) \ {b})
           c == {a, b, d}
<1>1. S # {}
  BY FS_EmptySet
<1>2. a \in S /\ \A y \in S : a <= y
  BY <1>1, MinIn
<1>3. IsFiniteSet(S \ {a}) /\ Cardinality(S \ {a}) = Cardinality(S) - 1 /\ Cardinality(S) \in Nat
  BY <1>2, FS_RemoveElement, FS_CardinalityType
<1>4. S \ {a} # {}
  BY <1>3, FS_EmptySet
<1>5. b \in S \ {a} /\ \A y \in S \ {a} : b <= y
  BY <1>4, MinIn
<1>6. IsFiniteSet((S \ {a}) \ {b}) /\ Cardinality((S \ {a}) \ {b}) = Cardinality(S) - 2
  <2> DEFINE R == S \ {a}
  <2>1. IsFiniteSet(R \ {b}) /\ Cardinality(R \ {b}) = Cardinality(R) - 1
    <3> HIDE DEF R
    <3>1. IsFiniteSet(R) /\ b \in R
      BY <1>3, <1>5 DEF R
    <3> QED
      BY <3>1, FS_RemoveElement
  <2> QED
    BY <1>3, <2>1
<1>7. (S \ {a}) \ {b} # {}
  BY <1>3, <1>6, FS_EmptySet
<1>8. d \in (S \ {a}) \ {b} /\ \A y \in (S \ {a}) \ {b} : d <= y
  BY <1>7, MinIn
<1> HIDE DEF a, b, d
<1>9. c \subseteq S /\ Cardinality(c) = 3
  <2>1. Cardinality({a}) = 1 /\ IsFiniteSet({a})
    BY FS_Singleton
  <2> DEFINE one == {a}
             two == one \cup {b}
  <2>a. b \notin one /\ d \notin two
    BY <1>5, <1>8
  <2>b. Cardinality(one) = 1 /\ IsFiniteSet(one)
    BY <2>1
  <2> HIDE DEF one
  <2>c. Cardinality(two) = 2 /\ IsFiniteSet(two)
    BY <2>a, <2>b, FS_AddElement
  <2> HIDE DEF two
  <2>d. Cardinality(two \cup {d}) = 3
    BY <2>a, <2>c, FS_AddElement
  <2>3. Cardinality(({a} \cup {b}) \cup {d}) = 3
    BY <2>d DEF one, two
  <2>4. ({a} \cup {b}) \cup {d} = c
    OBVIOUS
  <2> QED
    BY <1>2, <1>5, <1>8, <2>3, <2>4
<1>10. \A i \in c, j \in S \ c : i < j
  BY <1>2, <1>5, <1>8
<1>11. c \in kSubset(3, S)
  BY <1>9 DEF kSubset
<1>12. Chain(S) \in kSubset(3, S)
  BY <1>10, <1>11 DEF Chain
<1> QED
  BY <1>12 DEF kSubset

\* To move a buffer to the front of the list changes its order only.
LEMMA ToFrontKeeps ==
  ASSUME NEW s \in Seq(Buf), ToSet(s) = Buf, NEW b \in Buf
  PROVE  ToFront(s, b) \in Seq(Buf) /\ Len(ToFront(s, b)) = Len(s) /\ ToSet(ToFront(s, b)) = Buf
<1> DEFINE n == Len(s)
           t == ToFront(s, b)
<1>1. n \in Nat /\ DOMAIN s = 1 .. n /\ \A i \in 1 .. n : s[i] \in Buf
  OBVIOUS
<1>2. \A i \in 1 .. n : t[i] \in Buf
  BY <1>1 DEF ToFront
<1>3. t = [i \in 1 .. n |-> t[i]]
  BY <1>1 DEF ToFront
<1>4. t \in Seq(Buf) /\ Len(t) = n /\ DOMAIN t = 1 .. n
  BY <1>1, <1>2, <1>3
<1>5. ASSUME NEW x \in Buf PROVE \E i \in 1 .. n : t[i] = x
  <2>1. PICK j \in 1 .. n : s[j] = x
    BY <1>1 DEF ToSet
  <2>2. CASE x = b
    BY <1>1, <2>1, <2>2 DEF ToFront
  <2>3. CASE x # b /\ \E k \in 1 .. n : k >= j /\ s[k] = b
    <3>1. PICK k \in 1 .. n : k >= j /\ s[k] = b
      BY <2>3
    <3>2. j + 1 \in 1 .. n /\ k >= j + 1 /\ j + 1 # 1 /\ (j + 1) - 1 = j
      BY <1>1, <2>1, <2>3, <3>1
    <3>3. t[j + 1] = s[(j + 1) - 1]
      BY <1>1, <3>1, <3>2 DEF ToFront
    <3> QED
      BY <2>1, <3>2, <3>3
  <2>4. CASE x # b /\ ~\E k \in 1 .. n : k >= j /\ s[k] = b
    <3>1. j # 1
      <4>1. PICK k \in 1 .. n : s[k] = b
        BY <1>1 DEF ToSet
      <4> QED
        BY <2>4, <4>1
    <3> QED
      BY <1>1, <2>1, <2>4, <3>1 DEF ToFront
  <2> QED
    BY <2>2, <2>3, <2>4
<1> HIDE DEF t
<1>6. ToSet(t) = Buf
  BY <1>2, <1>4, <1>5 DEF ToSet
<1> QED
  BY <1>4, <1>6 DEF t

\* binit puts every buffer on the list.
LEMMA ListHasAll ==
  /\ SetToSeq(Buf) \in Seq(Buf) /\ Len(SetToSeq(Buf)) = Cardinality(Buf)
  /\ ToSet(SetToSeq(Buf)) = Buf
<1> DEFINE n == Cardinality(Buf)
           s == SetToSeq(Buf)
<1>1. n \in Nat /\ IsFiniteSet(1 .. n) /\ Cardinality(1 .. n) = n
  BY DiskAssumption, FS_CardinalityType, FS_Interval
<1>2. \E f \in [1 .. n -> Buf] : IsInjective(f)
  <2>1. ExistsBijection(1 .. n, Buf)
    BY DiskAssumption, FS_CardinalityType
  <2> QED
    BY <2>1 DEF ExistsBijection, Bijection, Injection
<1>3. s \in [1 .. n -> Buf] /\ IsInjective(s)
  BY <1>2 DEF SetToSeq
<1> HIDE DEF s
<1>4. s \in Seq(Buf) /\ Len(s) = n /\ DOMAIN s = 1 .. n
  BY <1>1, <1>3
<1>5. ToSet(s) = Buf
  <2>1. ToSet(s) \subseteq Buf
    BY <1>3 DEF ToSet
  <2>2. s \in Bijection(1 .. n, ToSet(s))
    BY <1>3 DEF ToSet, Bijection, Injection, Surjection, IsInjective
  <2>3. Cardinality(ToSet(s)) = n
    BY <1>1, <2>2, FS_Bijection DEF ExistsBijection
  <2> QED
    BY DiskAssumption, <2>1, <2>3, FS_Subset
<1> QED
  BY <1>4, <1>5 DEF s

-----------------------------------------------------------------------------
(* Counting the users of a buffer *)

UsersIn(f, b) == {p \in Proc : f[p] = b}

LEMMA UsersType ==
  ASSUME NEW f, NEW b
  PROVE  /\ IsFiniteSet(UsersIn(f, b)) /\ Cardinality(UsersIn(f, b)) \in 0 .. Cardinality(Proc)
         /\ Cardinality(Proc) \in Nat
         /\ \A p \in Proc : f[p] = b => Cardinality(UsersIn(f, b)) > 0
<1>1. UsersIn(f, b) \subseteq Proc /\ IsFiniteSet(Proc)
  BY DiskAssumption DEF UsersIn
<1>2. /\ IsFiniteSet(UsersIn(f, b)) /\ Cardinality(UsersIn(f, b)) <= Cardinality(Proc)
      /\ Cardinality(UsersIn(f, b)) \in Nat /\ Cardinality(Proc) \in Nat
  BY <1>1, FS_Subset, FS_CardinalityType
<1>3. ASSUME NEW p \in Proc, f[p] = b PROVE Cardinality(UsersIn(f, b)) > 0
  <2>1. UsersIn(f, b) # {}
    BY <1>3 DEF UsersIn
  <2> QED
    BY <1>2, <2>1, FS_EmptySet
<1> QED
  BY <1>2, <1>3

\* bget gives the process its buffer.
LEMMA UsersUp ==
  ASSUME mine \in [Proc -> Buf \cup {None}], NEW p \in Proc, mine[p] = None, NEW b \in Buf,
         mine' = [mine EXCEPT ![p] = b]
  PROVE  /\ Cardinality(UsersIn(mine', b)) = Cardinality(UsersIn(mine, b)) + 1
         /\ \A c \in Buf : c # b => UsersIn(mine', c) = UsersIn(mine, c)
<1>1. b # None /\ None \notin Buf
  BY DiskAssumption
<1>2. UsersIn(mine', b) = UsersIn(mine, b) \cup {p} /\ p \notin UsersIn(mine, b)
  BY <1>1 DEF UsersIn
<1>3. Cardinality(UsersIn(mine', b)) = Cardinality(UsersIn(mine, b)) + 1
  BY <1>2, UsersType, FS_AddElement
<1>4. \A c \in Buf : c # b => UsersIn(mine', c) = UsersIn(mine, c)
  BY <1>1 DEF UsersIn
<1> QED
  BY <1>3, <1>4

\* brelse takes it back.
LEMMA UsersDown ==
  ASSUME mine \in [Proc -> Buf \cup {None}], NEW p \in Proc, NEW b \in Buf, mine[p] = b,
         mine' = [mine EXCEPT ![p] = None]
  PROVE  /\ Cardinality(UsersIn(mine', b)) = Cardinality(UsersIn(mine, b)) - 1
         /\ \A c \in Buf : c # b => UsersIn(mine', c) = UsersIn(mine, c)
<1>1. b # None /\ None \notin Buf
  BY DiskAssumption
<1>2. UsersIn(mine', b) = UsersIn(mine, b) \ {p} /\ p \in UsersIn(mine, b)
  BY <1>1 DEF UsersIn
<1>3. Cardinality(UsersIn(mine', b)) = Cardinality(UsersIn(mine, b)) - 1
  BY <1>2, UsersType, FS_RemoveElement, ZenonT(40)
<1>4. \A c \in Buf : c # b => UsersIn(mine', c) = UsersIn(mine, c)
  BY <1>1 DEF UsersIn
<1> QED
  BY <1>3, <1>4

-----------------------------------------------------------------------------
(* The steps above the driver *)

BufType == [block : Block \cup {None}, valid : BOOLEAN, disk : BOOLEAN,
            refcnt : 0 .. Cardinality(Proc) + 1, data : Data]
Counts(b) == Cardinality(UsersIn(mine, b)) + (IF b \in pinned THEN 1 ELSE 0)

\* A step of a process that has no request leaves the requests alone.
LEMMA Quiet ==
  ASSUME RequestsExact, DriverWakes, ChainInv, TypeOK', NEW p \in Proc,
         UNCHANGED <<free, idx, info, avail, used>>,
         pc[p] \notin {"rw", "rw_sleep", "io_sleep", "io"},
         pc'[p] \notin {"rw_sleep", "io_sleep", "io"},
         \A q \in Proc : q # p =>
            /\ pc'[q] = pc[q] /\ mine'[q] = mine[q]
            /\ Requests(q) => /\ lock[mine[q]] = q => lock'[mine[q]] = q
                              /\ buf'[mine[q]].disk = buf[mine[q]].disk
  PROVE  RequestsExact' /\ DriverWakes' /\ ChainInv'
<1>1. \A q \in Proc : Requests(q)' <=> Requests(q)
  BY DEF Requests
<1>2. \A q \in Proc : Requests(q) => q # p /\ mine'[q] = mine[q] /\ pc'[q] = pc[q]
                                     /\ buf'[mine[q]].disk = buf[mine[q]].disk
                                     /\ (lock[mine[q]] = q => lock'[mine[q]] = q)
  BY DEF Requests
<1>3. ChainInv'
  BY <1>1, <1>2 DEF ChainInv
<1>4. ASSUME NEW i \in avail \cup ToSet(used)
      PROVE  \E q \in Proc : /\ idx[q] # {} /\ i = Min(idx[q]) /\ info[i] = mine'[q]
                             /\ lock'[mine'[q]] = q /\ buf'[mine'[q]].disk /\ pc'[q] = "io_sleep"
  <2>1. PICK q \in Proc : /\ idx[q] # {} /\ i = Min(idx[q]) /\ info[i] = mine[q]
                          /\ lock[mine[q]] = q /\ buf[mine[q]].disk /\ pc[q] = "io_sleep"
    BY <1>4 DEF RequestsExact
  <2>2. Requests(q)
    BY <2>1 DEF Requests
  <2> QED
    BY <1>2, <2>1, <2>2
<1>5. RequestsExact'
  BY <1>4 DEF RequestsExact
<1>6. DriverWakes'
  <2>1. ASSUME NEW q \in Proc, pc'[q] = "io_sleep" PROVE Min(idx[q]) \in avail \cup ToSet(used)
    BY <2>1 DEF DriverWakes
  <2>2. ASSUME NEW q \in Proc, pc'[q] = "rw_sleep" PROVE \E r \in Proc : idx[r] # {} \/ pc'[r] = "rw"
    <3>1. pc[q] = "rw_sleep"
      BY <2>2
    <3>2. PICK r \in Proc : idx[r] # {} \/ pc[r] = "rw"
      BY <3>1 DEF DriverWakes
    <3> QED
      BY <3>2
  <2> QED
    BY <2>1, <2>2 DEF DriverWakes
<1> QED
  BY <1>3, <1>5, <1>6

\* The buffer that bget returns: the one that has the block, or one that
\* nobody uses if there is none.
Hit(p, b, blk) ==
    /\ buf[b].block = blk
    /\ buf' = [buf EXCEPT ![b].refcnt = @ + 1]
Miss(p, b, blk) ==
    /\ Holding(blk) = {} /\ buf[b].refcnt = 0
    /\ buf' = [buf EXCEPT ![b] = [@ EXCEPT !.block = blk, !.valid = FALSE, !.refcnt = 1]]

LEMMA BgetChoice ==
  ASSUME TypeOK, NEW p \in Proc, NEW blk \in Block, NEW o \in {"read", "change", "install"},
         Bget(p, blk, o)
  PROVE  \/ Holding(blk) = {} /\ UNCHANGED <<buf, mine, pc>>
         \/ \E b \in Buf : /\ Hit(p, b, blk) \/ Miss(p, b, blk)
                           /\ mine' = [mine EXCEPT ![p] = b]
                           /\ pc' = [pc EXCEPT ![p] = "lock"]
<1> DEFINE unused == {i \in DOMAIN lru : Recyclable(lru[i])}
           new == lru[Max(unused)]
<1>1. CASE Holding(blk) # {}
  <2>1. PICK b \in Holding(blk) : /\ buf' = [buf EXCEPT ![b].refcnt = @ + 1]
                                  /\ mine' = [mine EXCEPT ![p] = b]
                                  /\ pc' = [pc EXCEPT ![p] = "lock"]
    BY <1>1 DEF Bget, Goto
  <2> QED
    BY <2>1 DEF Hit, Holding
<1>2. CASE Holding(blk) = {} /\ unused = {}
  BY <1>2 DEF Bget
<1>3. CASE Holding(blk) = {} /\ unused # {}
  <2>1. lru \in Seq(Buf) /\ Len(lru) \in Nat /\ DOMAIN lru = 1 .. Len(lru)
    BY DEF TypeOK
  <2>2. Max(unused) \in unused
    BY <1>3, <2>1, MaxIn
  <2>3. new \in Buf /\ buf[new].refcnt = 0
    BY <2>1, <2>2 DEF Recyclable
  <2>4. /\ buf' = [buf EXCEPT ![new] = [@ EXCEPT !.block = blk, !.valid = FALSE, !.refcnt = 1]]
        /\ mine' = [mine EXCEPT ![p] = new]
        /\ pc' = [pc EXCEPT ![p] = "lock"]
    BY <1>3 DEF Bget, Goto
  <2> HIDE DEF new
  <2> QED
    BY <1>3, <2>3, <2>4 DEF Miss
<1> QED
  BY <1>1, <1>2, <1>3

\* The counts of the buffers are exact, and so they have their type.
LEMMA CountsType ==
  ASSUME NEW b
  PROVE  Counts(b) \in 0 .. Cardinality(Proc) + 1 /\ Counts(b)' \in 0 .. Cardinality(Proc) + 1
  BY UsersType DEF Counts

LEMMA Counted ==
  ASSUME UseInv
  PROVE  \A b \in Buf : buf[b].refcnt = Counts(b)
  BY DEF UseInv, ProcUse, BufUse, Counts, Users, UsersIn

\* What bget does to the buffer it returns
Given(b, blk) ==
    /\ \A c \in Buf : c # b => buf'[c] = buf[c]
    /\ buf'[b].block = blk /\ buf'[b].data = buf[b].data /\ buf'[b].disk = buf[b].disk
    /\ buf'[b].refcnt = buf[b].refcnt + 1

Unused(b) == b \notin pinned /\ \A q \in Proc : mine[q] # b

LEMMA BgetBuf ==
  ASSUME Inv, NEW p \in Proc, NEW blk \in Block, NEW b \in Buf, Hit(p, b, blk) \/ Miss(p, b, blk)
  PROVE  /\ Given(b, blk)
         /\ \/ Hit(p, b, blk) /\ buf[b].block = blk /\ buf'[b].valid = buf[b].valid
            \/ Miss(p, b, blk) /\ Holding(blk) = {} /\ buf[b].refcnt = 0 /\ buf'[b].valid = FALSE
         /\ Miss(p, b, blk) => Unused(b)
<1>1. buf \in [Buf -> BufType] /\ buf[b] \in BufType
  BY DEF Inv, RequestsExact, TypeOK, BufType
<1>2. Given(b, blk)
  <2>1. CASE Hit(p, b, blk)
    BY <1>1, <2>1 DEF Hit, BufType, Given
  <2>2. CASE Miss(p, b, blk)
    BY <1>1, <2>2 DEF Miss, BufType, Given
  <2> QED
    BY <2>1, <2>2
<1>3. \/ Hit(p, b, blk) /\ buf[b].block = blk /\ buf'[b].valid = buf[b].valid
      \/ Miss(p, b, blk) /\ Holding(blk) = {} /\ buf[b].refcnt = 0 /\ buf'[b].valid = FALSE
  BY <1>1 DEF Hit, Miss, BufType
<1>4. Miss(p, b, blk) => Unused(b)
  BY <1>3, Counted, UsersType DEF Inv, Counts, Miss, Unused
<1> QED
  BY <1>2, <1>3, <1>4

LEMMA BgetInv ==
  ASSUME Inv, NEW p \in Proc, NEW blk \in Block, NEW o \in {"read", "change", "install"},
         Bget(p, blk, o)
  PROVE  Inv'
<1> USE DEF Inv
<1>0. TypeOK
  BY DEF RequestsExact
<1>1. /\ pc[p] = "idle" /\ mine[p] = None
      /\ UNCHANGED <<medium, free, info, avail, used, idx, write, lru, lock, pinned>>
      /\ op' = [op EXCEPT ![p] = o]
      /\ calls' \in 0 .. MaxCalls /\ panic' \in BOOLEAN
      /\ o = "install" => /\ \E b \in pinned : buf[b].block = blk
                          /\ \A q \in Proc : ~Installs(q)
  <2>1. /\ pc[p] = "idle" /\ op' = [op EXCEPT ![p] = o]
        /\ UNCHANGED <<medium, free, info, avail, used, idx, write, lru, lock, pinned>>
    BY DEF Bget, driverVars
  <2>2. mine[p] = None
    BY <2>1 DEF UseInv, ProcUse
  <2>3. calls' \in 0 .. MaxCalls
    <3>1. calls' = calls + 1 /\ calls < MaxCalls
      BY DEF Bget
    <3> QED
      BY <1>0, <3>1, CacheAssumption DEF TypeOK
  <2>4. panic' \in BOOLEAN
    BY <1>0 DEF Bget, TypeOK
  <2>5. o = "install" => /\ \E b \in pinned : buf[b].block = blk
                         /\ \A q \in Proc : ~Installs(q)
    BY DEF Bget, Installs
  <2> QED
    BY <2>1, <2>2, <2>3, <2>4, <2>5
<1>2. CASE Holding(blk) = {} /\ UNCHANGED <<buf, mine, pc>>
  <2>1. o # "install"
    BY <1>0, <1>1, <1>2 DEF Holding, TypeOK
  <2>2. TypeOK'
    BY <1>0, <1>1, <1>2 DEF TypeOK, DriverTypeOK
  <2>3. UseInv'
    <3>1. \A q \in Proc : Installs(q)' => q # p /\ Installs(q)
      BY <1>0, <1>1, <2>1 DEF Installs, TypeOK
    <3>2. \A q \in Proc : q # p => op'[q] = op[q]
      BY <1>0, <1>1 DEF TypeOK
    <3>3. ASSUME NEW q \in Proc PROVE ProcUse(q)'
      <4>1. CASE q = p
        BY <1>1, <1>2, <2>1, <3>1, <4>1 DEF UseInv, ProcUse, InDriver, DriverPcs
      <4>2. CASE q # p
        BY <1>1, <1>2, <3>1, <3>2, <4>2 DEF UseInv, ProcUse, InDriver
      <4> QED
        BY <4>1, <4>2
    <3>4. ASSUME NEW c \in Buf PROVE BufUse(c)'
      BY <1>1, <1>2 DEF UseInv, BufUse, Users
    <3> QED
      BY <3>3, <3>4 DEF UseInv
  <2>4. RequestsExact' /\ DriverWakes' /\ ChainInv'
    BY <1>1, <1>2, <2>2, Quiet
  <2>5. DataInv'
    BY <1>0, <1>1, <1>2 DEF DataInv, Clean, Requests, TypeOK
  <2> QED
    BY <2>3, <2>4, <2>5
<1>3. ASSUME NEW b \in Buf, Hit(p, b, blk) \/ Miss(p, b, blk),
             mine' = [mine EXCEPT ![p] = b], pc' = [pc EXCEPT ![p] = "lock"]
      PROVE  Inv'
  <2>1. /\ buf \in [Buf -> BufType] /\ mine \in [Proc -> Buf \cup {None}] /\ blk # None /\ None \notin Buf
        /\ None \notin Proc
    BY <1>0, DiskAssumption DEF TypeOK, BufType
  <2>2. /\ \A c \in Buf : c # b => buf'[c] = buf[c]
        /\ buf'[b].block = blk /\ buf'[b].data = buf[b].data /\ buf'[b].disk = buf[b].disk
        /\ buf'[b].refcnt = buf[b].refcnt + 1
    <3>1. Given(b, blk)
      BY <1>3, BgetBuf
    <3> QED
      BY <3>1 DEF Given
  <2>3. \/ Hit(p, b, blk) /\ buf[b].block = blk /\ buf'[b].valid = buf[b].valid
        \/ Miss(p, b, blk) /\ Holding(blk) = {} /\ buf[b].refcnt = 0 /\ buf'[b].valid = FALSE
    BY <1>3, BgetBuf
  <2>4. Miss(p, b, blk) => b \notin pinned /\ \A q \in Proc : mine[q] # b
    <3>1. Miss(p, b, blk) => Unused(b)
      BY <1>3, BgetBuf
    <3> QED
      BY <3>1 DEF Unused
  <2>5. \A c \in Buf : buf'[c].refcnt = Counts(c)'
    <3>0. mine' = [mine EXCEPT ![p] = b] /\ mine[p] = None
      BY <1>1, <1>3
    <3>1. Cardinality(UsersIn(mine', b)) = Cardinality(UsersIn(mine, b)) + 1
      BY <2>1, <3>0, UsersUp
    <3>2. \A c \in Buf : c # b => UsersIn(mine', c) = UsersIn(mine, c)
      BY <2>1, <3>0, UsersUp
    <3>3. buf'[b].refcnt = Counts(b)'
      <4>1. Cardinality(UsersIn(mine, b)) \in Nat
        BY UsersType
      <4> QED
        BY <1>1, <2>2, <3>1, <4>1, Counted DEF Counts
    <3>4. \A c \in Buf : c # b => buf'[c].refcnt = Counts(c)'
      BY <1>1, <2>2, <3>2, Counted DEF Counts
    <3> QED
      BY <3>3, <3>4
  <2>6. buf' \in [Buf -> BufType]
    <3>1. buf'[b].refcnt \in 0 .. Cardinality(Proc) + 1
      BY <2>5, CountsType
    <3>2. CASE Hit(p, b, blk)
      BY <2>1, <2>2, <3>1, <3>2 DEF Hit, BufType
    <3>3. CASE Miss(p, b, blk)
      BY <2>1, <2>2, <3>1, <3>3, ZenonT(40) DEF Miss, BufType
    <3> QED
      BY <1>3, <3>2, <3>3
  <2>7. TypeOK'
    BY <1>0, <1>1, <1>3, <2>1, <2>6 DEF TypeOK, DriverTypeOK, BufType
  <2>8. RequestsExact' /\ DriverWakes' /\ ChainInv'
    <3>1. \A q \in Proc : q # p => /\ pc'[q] = pc[q] /\ mine'[q] = mine[q]
                                   /\ Requests(q) => buf'[mine[q]].disk = buf[mine[q]].disk
      <4>1. \A q \in Proc : Requests(q) => mine[q] \in Buf
        BY <1>0, <2>1 DEF Requests, UseInv, ProcUse, BufUse
      <4> QED
        BY <1>0, <1>3, <2>2, <4>1 DEF TypeOK
    <3>2. pc'[p] = "lock"
      BY <1>0, <1>3 DEF TypeOK
    <3> QED
      BY <1>1, <2>7, <3>1, <3>2, Quiet
  <2>9. UseInv'
    <3>1. /\ \A q \in Proc : q # p => pc'[q] = pc[q] /\ mine'[q] = mine[q] /\ op'[q] = op[q]
          /\ pc'[p] = "lock" /\ mine'[p] = b /\ op'[p] = o
      BY <1>0, <1>1, <1>3 DEF TypeOK
    <3>2. lock[b] # p
      BY <1>1, <2>1 DEF UseInv, ProcUse, BufUse
    <3>3. ASSUME NEW q \in Proc, q # p, pc[q] # "idle"
          PROVE  /\ mine[q] \in Buf
                 /\ buf'[mine[q]].block = buf[mine[q]].block
                 /\ buf'[mine[q]].valid = buf[mine[q]].valid
      <4>1. mine[q] \in Buf
        BY <2>1, <3>3 DEF UseInv, ProcUse, BufUse
      <4> QED
        BY <2>2, <2>3, <2>4, <4>1
    <3>4. o = "install" => b \in pinned
      <4>1. ASSUME o = "install" PROVE b \in pinned
        <5>1. PICK c \in pinned : buf[c].block = blk
          BY <1>1, <4>1
        <5>2. c \in Buf /\ Holding(blk) # {}
          BY <1>0, <5>1 DEF TypeOK, Holding
        <5>3. buf[b].block = blk
          BY <2>3, <5>2
        <5> QED
          BY <2>1, <5>1, <5>2, <5>3 DEF UseInv, ProcUse, BufUse
      <4> QED
        BY <4>1
    <3>5. \A q \in Proc : Installs(q)' => (q = p /\ o = "install") \/ (q # p /\ Installs(q))
      BY <3>1 DEF Installs
    <3>6. ASSUME NEW q \in Proc PROVE ProcUse(q)'
      <4>1. CASE q = p
        BY <1>1, <2>1, <2>2, <3>1, <3>2, <3>4, <3>5, <4>1 DEF UseInv, ProcUse, BufUse,
             InDriver, DriverPcs
      <4>2. CASE q # p
        <5>1. UNCHANGED <<pc[q], mine[q], op[q], write, lock, pinned>>
          BY <1>1, <3>1, <4>2
        <5>2. InDriver(q)' <=> InDriver(q)
          BY <5>1 DEF InDriver
        <5>3. Installs(q)' => Installs(q) /\ \A r \in Proc : Installs(r)' => q = r
          BY <1>1, <3>5, <4>2 DEF UseInv, ProcUse, BufUse
        <5> QED
          BY <3>3, <4>2, <5>1, <5>2, <5>3 DEF UseInv, ProcUse, BufUse, InDriver, DriverPcs
      <4> QED
        BY <4>1, <4>2
    <3>7. ASSUME NEW c \in Buf PROVE BufUse(c)'
      <4>1. lock'[c] # None => mine'[lock'[c]] = c
        <5>1. lock[c] # None => lock[c] \in Proc /\ mine[lock[c]] = c /\ lock[c] # p
          BY <1>0, <1>1, <2>1 DEF UseInv, ProcUse, BufUse, TypeOK
        <5> QED
          BY <1>1, <3>1, <5>1
      <4>2. buf'[c].refcnt = Cardinality(Users(c)') + (IF c \in pinned' THEN 1 ELSE 0)
        BY <2>5 DEF Counts, Users, UsersIn
      <4>3. c \in pinned' => buf'[c].valid /\ buf'[c].block # None
        BY <1>1, <2>1, <2>2, <2>3, <2>4 DEF UseInv, ProcUse, BufUse
      <4>4. buf'[c].valid => buf'[c].block # None
        BY <2>1, <2>2 DEF UseInv, ProcUse, BufUse
      <4>5. \A e \in Buf : buf'[c].block = buf'[e].block /\ buf'[c].block # None => c = e
        <5>1. \A e \in Buf : e # b => buf[e].block # blk
          BY <2>1, <2>3 DEF Holding, UseInv, ProcUse, BufUse
        <5> QED
          BY <2>2, <5>1 DEF UseInv, ProcUse, BufUse
      <4> QED
        BY <4>1, <4>2, <4>3, <4>4, <4>5 DEF BufUse
    <3> QED
      BY <3>6, <3>7 DEF UseInv
  <2>10. DataInv'
    <3>1. \A c \in Buf : c # b => Clean(c)' = Clean(c)
      BY <1>1, <2>2 DEF Clean
    <3>2. Hit(p, b, blk) => Clean(b)' = Clean(b)
      BY <1>1, <2>2 DEF Clean, Hit
    <3>3. \A q \in Proc : pc'[q] # "idle" /\ q # p => /\ mine'[q] = mine[q] /\ pc'[q] = pc[q] /\ op'[q] = op[q]
                                                      /\ mine[q] \in Buf /\ Clean(mine[q])' = Clean(mine[q])
      <4>1. \A q \in Proc : q # p => mine'[q] = mine[q] /\ pc'[q] = pc[q] /\ op'[q] = op[q]
        BY <1>0, <1>1, <1>3 DEF TypeOK
      <4>2. ASSUME NEW q \in Proc, pc'[q] # "idle", q # p
            PROVE  mine[q] \in Buf /\ Clean(mine[q])' = Clean(mine[q])
        <5>1. mine[q] \in Buf
          BY <2>1, <4>1, <4>2 DEF UseInv, ProcUse, BufUse
        <5>2. mine[q] = b => Hit(p, b, blk)
          BY <1>3, <2>4, <4>2
        <5> QED
          BY <3>1, <3>2, <4>1, <4>2, <5>1, <5>2 DEF Clean
      <4> QED
        BY <4>1, <4>2
    <3>4. pc'[p] = "lock"
      BY <1>0, <1>3 DEF TypeOK
    <3>5. \A c \in Buf : buf'[c].valid /\ c \notin pinned' => Clean(c)'
      BY <1>1, <2>2, <2>3, <3>1, <3>2 DEF DataInv
    <3>6. ASSUME NEW q \in Proc
          PROVE  /\ Requests(q)' /\ Min(idx'[q]) \notin avail' => Clean(mine[q])'
                 /\ pc'[q] = "have" /\ op'[q] = "unpin" => Clean(mine[q])'
      <4>1. CASE q = p
        BY <3>4, <4>1 DEF Requests
      <4>2. CASE q # p
        BY <1>1, <3>3, <4>2 DEF Requests, DataInv
      <4> QED
        BY <4>1, <4>2
    <3> QED
      BY <3>5, <3>6 DEF DataInv
  <2> QED
    BY <2>8, <2>9, <2>10
<1> QED
  BY <1>0, <1>2, <1>3, BgetChoice

-----------------------------------------------------------------------------
(* The steps of a process that has a buffer *)

Working(p) == pc[p] = "have" \/ InDriver(p)
Same(q) == pc'[q] = pc[q] /\ mine'[q] = mine[q] /\ op'[q] = op[q] /\ write'[q] = write[q]
Alike(q) == /\ pc'[q] = pc[q] \/ (InDriver(q) /\ InDriver(q)')
            /\ mine'[q] = mine[q] /\ op'[q] = op[q] /\ write'[q] = write[q]

LEMMA Holds ==
  ASSUME Inv, NEW p \in Proc
  PROVE  /\ buf \in [Buf -> BufType] /\ mine \in [Proc -> Buf \cup {None}] /\ lock \in [Buf -> Proc \cup {None}]
         /\ None \notin Proc /\ None \notin Buf /\ None \notin Block
         /\ pc[p] # "idle" => /\ mine[p] \in Buf /\ buf[mine[p]] \in BufType
                              /\ buf[mine[p]].block # None /\ buf[mine[p]].block \in Block
                              /\ lock[mine[p]] = p <=> Working(p)
                              /\ buf[mine[p]].refcnt > 0
<1>1. /\ buf \in [Buf -> BufType] /\ mine \in [Proc -> Buf \cup {None}] /\ lock \in [Buf -> Proc \cup {None}]
      /\ None \notin Proc /\ None \notin Buf /\ None \notin Block
  BY DiskAssumption DEF Inv, RequestsExact, TypeOK, BufType
<1>2. ASSUME pc[p] # "idle"
      PROVE  /\ mine[p] \in Buf /\ buf[mine[p]] \in BufType
             /\ buf[mine[p]].block # None /\ buf[mine[p]].block \in Block
             /\ lock[mine[p]] = p <=> Working(p)
             /\ buf[mine[p]].refcnt > 0
  <2>1. ProcUse(p) /\ mine[p] \in Buf
    BY <1>1, <1>2 DEF Inv, UseInv, ProcUse
  <2>2. buf[mine[p]] \in BufType /\ buf[mine[p]].block \in Block \cup {None}
    BY <1>1, <2>1 DEF BufType
  <2>3. Cardinality(UsersIn(mine, mine[p])) > 0
    BY UsersType
  <2>4. buf[mine[p]].refcnt > 0
    BY <2>1, <2>3, Counted, UsersType DEF Inv, Counts
  <2> QED
    BY <1>2, <2>1, <2>2, <2>4 DEF ProcUse, Working
<1> QED
  BY <1>1, <1>2

\* A buffer has one process that works on it.
LEMMA Alone ==
  ASSUME Inv, NEW p \in Proc, NEW q \in Proc, Working(p), Working(q), mine[p] = mine[q]
  PROVE  p = q
<1>1. pc[p] # "idle" /\ pc[q] # "idle"
  BY DEF Working, InDriver, DriverPcs
<1> QED
  BY <1>1, Holds

\* What the others rely on: a wakeup moves them inside the driver only.
LEMMA OthersAlike ==
  ASSUME Inv, NEW p \in Proc, NEW q \in Proc, q # p,
         \A r \in Proc : r # p => Alike(r),
         Installs(p)' => Installs(p),
         mine[q] \in Buf => /\ lock'[mine[q]] = q <=> lock[mine[q]] = q
                            /\ buf'[mine[q]].block = buf[mine[q]].block
                            /\ Working(q) => buf'[mine[q]].valid = buf[mine[q]].valid,
         Installs(q) => mine[q] \in pinned'
  PROVE  ProcUse(q)'
<1>1. ProcUse(q) /\ Alike(q)
  BY DEF Inv, UseInv
<1>2. \A r \in Proc : Installs(r)' => Installs(r)
  BY DEF Installs, Alike
<1>3. Installs(q)' => Installs(q) /\ \A r \in Proc : Installs(r)' => q = r
  BY <1>1, <1>2 DEF ProcUse
<1>4. pc[q] # "idle" => mine[q] \in Buf
  BY Holds
<1>5. (InDriver(q)' <=> InDriver(q)) /\ (Working(q) <=> pc[q] = "have" \/ InDriver(q))
  BY <1>1 DEF InDriver, Alike, Working
<1>6. /\ mine'[q] = mine[q] /\ op'[q] = op[q] /\ write'[q] = write[q]
      /\ \A l \in {"idle", "lock", "release", "have"} : pc'[q] = l <=> pc[q] = l
      /\ InDriver(q) => pc[q] # "idle"
  BY <1>1 DEF Alike, InDriver, DriverPcs
<1>7. pc[q] # "idle" => /\ lock'[mine[q]] = q <=> pc[q] = "have" \/ InDriver(q)
                        /\ buf'[mine[q]].block # None
                        /\ pc[q] = "have" \/ InDriver(q) => buf'[mine[q]].valid = buf[mine[q]].valid
  BY <1>1, <1>4, <1>5 DEF ProcUse
<1> QED
  BY <1>1, <1>3, <1>5, <1>6, <1>7 DEF ProcUse

LEMMA Others ==
  ASSUME Inv, NEW p \in Proc, NEW q \in Proc, q # p,
         \A r \in Proc : r # p => Same(r),
         Installs(p)' => Installs(p),
         mine[q] \in Buf => /\ lock'[mine[q]] = q <=> lock[mine[q]] = q
                            /\ buf'[mine[q]].block = buf[mine[q]].block
                            /\ Working(q) => buf'[mine[q]].valid = buf[mine[q]].valid,
         Installs(q) => mine[q] \in pinned'
  PROVE  ProcUse(q)'
<1>1. \A r \in Proc : r # p => Alike(r)
  BY DEF Same, Alike
<1> QED
  BY <1>1, OthersAlike

LEMMA BufsUse ==
  ASSUME UseInv, \A e \in Buf : buf'[e].block = buf[e].block,
         NEW c \in Buf,
         lock'[c] # None => mine'[lock'[c]] = c,
         buf'[c].refcnt = Counts(c)',
         c \in pinned' => buf'[c].valid,
         buf'[c].valid => buf[c].block # None
  PROVE  BufUse(c)'
<1>1. \A e \in Buf : buf'[c].block = buf'[e].block /\ buf'[c].block # None => c = e
  BY DEF UseInv, ProcUse, BufUse
<1>2. buf'[c].refcnt = Cardinality(Users(c)') + (IF c \in pinned' THEN 1 ELSE 0)
  BY DEF Counts, Users, UsersIn
<1> QED
  BY <1>1, <1>2 DEF BufUse

LEMMA LockMine ==
  ASSUME Inv, NEW c \in Buf, lock[c] # None
  PROVE  lock[c] \in Proc /\ mine[lock[c]] = c
<1>1. lock[c] \in Proc
  BY Holds DEF Inv, RequestsExact, TypeOK
<1> QED
  BY <1>1 DEF Inv, UseInv, ProcUse, BufUse

LEMMA BreadInv ==
  ASSUME Inv, NEW p \in Proc, Bread(p)
  PROVE  Inv'
<1> DEFINE b == mine[p]
           l == IF buf[b].valid THEN "have" ELSE "rw"
<1>0. TypeOK /\ UseInv /\ DataInv /\ RequestsExact /\ DriverWakes /\ ChainInv
  BY DEF Inv, RequestsExact
<1>1. /\ pc[p] = "lock" /\ lock[b] = None
      /\ lock' = [lock EXCEPT ![b] = p] /\ pc' = [pc EXCEPT ![p] = l]
      /\ UNCHANGED <<medium, free, info, avail, used, idx, buf, mine, write, lru, op, pinned, calls, panic>>
  BY DEF Bread, Goto, driverVars
<1>2. /\ mine[p] \in Buf /\ buf[b].block # None /\ None \notin Proc
      /\ lock \in [Buf -> Proc \cup {None}] /\ buf \in [Buf -> BufType] /\ mine \in [Proc -> Buf \cup {None}]
  BY <1>1, Holds
<1>3. /\ \A q \in Proc : q # p => Same(q)
      /\ pc'[p] = l /\ lock'[b] = p /\ \A c \in Buf : c # b => lock'[c] = lock[c]
  BY <1>0, <1>1, <1>2 DEF TypeOK, Same
<1>4. ASSUME NEW q \in Proc, q # p, mine[q] \in Buf
      PROVE  lock'[mine[q]] = q <=> lock[mine[q]] = q
  BY <1>1, <1>2, <1>3, <1>4
<1>5. TypeOK'
  BY <1>0, <1>1, <1>2 DEF TypeOK, DriverTypeOK, DriverPcs
<1>6. RequestsExact' /\ DriverWakes' /\ ChainInv'
  <2>1. \A q \in Proc : q # p => pc'[q] = pc[q] /\ mine'[q] = mine[q]
    BY <1>3 DEF Same
  <2>2. \A q \in Proc : q # p /\ lock[mine[q]] = q /\ Requests(q) => lock'[mine[q]] = q
    <3>1. \A q \in Proc : Requests(q) => mine[q] \in Buf
      BY Holds DEF Requests
    <3> QED
      BY <1>4, <3>1
  <2> QED
    BY <1>0, <1>1, <1>3, <1>5, <2>1, <2>2, Quiet
<1>7. UseInv'
  <2>1. ASSUME NEW q \in Proc PROVE ProcUse(q)'
    <3>1. CASE q = p
      <4>1. ProcUse(p) /\ pc[p] = "lock"
        BY <1>0, <1>1 DEF UseInv
      <4>2. l \in {"have", "rw"} /\ (l = "have" <=> buf[b].valid) /\ buf[b].valid \in BOOLEAN
        BY <1>2 DEF BufType
      <4>3. Installs(p)' => mine[p] \in pinned' /\ \A r \in Proc : Installs(r)' => p = r
        BY <1>1, <4>1 DEF ProcUse, Installs
      <4>4. /\ pc'[p] \in {"have", "rw"} /\ (pc'[p] = "have" <=> buf'[b].valid) /\ (InDriver(p)' <=> pc'[p] = "rw")
            /\ (InDriver(p)' => buf'[b].valid = FALSE) /\ write'[p] = FALSE /\ op'[p] # "unpin"
            /\ mine'[p] = b /\ b # None /\ lock'[b] = p /\ buf'[b].block # None
        <5>1. write[p] = FALSE
          BY <1>0, <4>1 DEF ProcUse, TypeOK
        <5> QED
          BY <1>1, <1>2, <1>3, <4>1, <4>2, <5>1 DEF ProcUse, InDriver, DriverPcs
      <4> HIDE DEF b, l
      <4>5. /\ pc'[p] = "idle" <=> mine'[p] = None
            /\ pc'[p] # "idle" => /\ buf'[mine'[p]].block # None
                                  /\ lock'[mine'[p]] = p <=> pc'[p] = "have" \/ InDriver(p)'
            /\ pc'[p] \notin {"idle", "lock", "release"}
            /\ Installs(p)' => pc'[p] # "idle"
        BY <1>2, <4>4
      <4>6. /\ op'[p] = "install" \/ (InDriver(p)' /\ op'[p] = "change") => ~write'[p]
            /\ InDriver(p)' => buf'[mine'[p]].valid = write'[p] /\ (write'[p] => op'[p] = "unpin")
            /\ pc'[p] = "have" => buf'[mine'[p]].valid
        BY <4>4
      <4> QED
        BY <1>1, <3>1, <4>3, <4>4, <4>5, <4>6 DEF ProcUse
    <3>2. CASE q # p
      <4>1. Installs(p)' => Installs(p)
        BY <1>1 DEF Installs
      <4>2. Installs(q) => mine[q] \in pinned'
        BY <1>0, <1>1 DEF UseInv, ProcUse
      <4> QED
        BY <1>1, <1>3, <1>4, <3>2, <4>1, <4>2, Others
    <3> QED
      BY <3>1, <3>2
  <2>2. ASSUME NEW c \in Buf PROVE BufUse(c)'
    <3>1. lock'[c] # None => mine'[lock'[c]] = c
      BY <1>1, <1>3, LockMine
    <3>2. buf'[c].refcnt = Counts(c)'
      BY <1>0, <1>1, Counted DEF Counts
    <3> QED
      BY <1>0, <1>1, <3>1, <3>2, BufsUse DEF UseInv, BufUse
  <2> QED
    BY <2>1, <2>2 DEF UseInv
<1>8. DataInv'
  <2>1. \A c : Clean(c)' = Clean(c)
    BY <1>1 DEF Clean
  <2>2. pc'[p] = "have" => op'[p] # "unpin"
    BY <1>0, <1>1 DEF UseInv, ProcUse
  <2>3. pc'[p] \in {"have", "rw"}
    BY <1>3
  <2>4. ASSUME NEW q \in Proc
        PROVE  /\ Requests(q)' /\ Min(idx'[q]) \notin avail' => Clean(mine[q])'
               /\ pc'[q] = "have" /\ op'[q] = "unpin" => Clean(mine[q])'
    <3>1. CASE q = p
      BY <2>2, <2>3, <3>1 DEF Requests
    <3>2. CASE q # p
      BY <1>0, <1>1, <1>3, <2>1, <3>2 DEF Requests, DataInv, Same, Clean
    <3> QED
      BY <3>1, <3>2
  <2> QED
    BY <1>0, <1>1, <2>1, <2>4 DEF DataInv, Clean
<1> QED
  BY <1>6, <1>7, <1>8 DEF Inv

\* The steps with the buffer locked that start no request
LEMMA HaveStep ==
  ASSUME Inv, NEW p \in Proc, pc[p] = "have", TypeOK',
         UNCHANGED <<medium, free, info, avail, used, idx, lock, mine>>,
         \A q \in Proc : q # p => Same(q),
         pc'[p] \in {"have", "rw"}, pc'[p] = "have" => op'[p] = "read",
         \A c \in Buf : /\ buf'[c].block = buf[c].block /\ buf'[c].valid = buf[c].valid
                        /\ buf'[c].disk = buf[c].disk
                        /\ c # mine[p] => buf'[c].data = buf[c].data /\ (c \in pinned' <=> c \in pinned)
                        /\ buf'[c].refcnt = Counts(c)',
         Installs(p)' => Installs(p),
         mine[p] \in pinned => mine[p] \in pinned' \/ Installs(p),
         mine[p] \notin pinned' => Clean(mine[p])',
         ProcUse(p)'
  PROVE  Inv'
<1> DEFINE b == mine[p]
<1>1. /\ b \in Buf /\ buf[b].block # None /\ Working(p) /\ buf[b].valid
  BY Holds DEF Working, Inv, UseInv, ProcUse
<1>2. \A q \in Proc : pc[q] # "idle" => mine[q] \in Buf
  BY Holds
<1>3. RequestsExact' /\ DriverWakes' /\ ChainInv'
  <2>1. \A q \in Proc : q # p => pc'[q] = pc[q] /\ mine'[q] = mine[q]
    BY DEF Same
  <2>2. \A q \in Proc : Requests(q) => buf'[mine[q]].disk = buf[mine[q]].disk
    BY <1>2 DEF Requests
  <2>3. RequestsExact /\ DriverWakes /\ ChainInv
    BY DEF Inv
  <2> QED
    BY <2>1, <2>2, <2>3, Quiet
<1>4. UseInv'
  <2>1. ASSUME NEW q \in Proc PROVE ProcUse(q)'
    <3>1. CASE q # p
      <4>1. Installs(q) => mine[q] \in pinned'
        <5>1. Installs(q) => mine[q] \in pinned /\ mine[q] \in Buf /\ (Installs(p) => q = p)
          BY <1>2 DEF Inv, UseInv, ProcUse
        <5> QED
          BY <3>1, <5>1
      <4> QED
        BY <3>1, <4>1, Others
    <3> QED
      BY <3>1
  <2>2. ASSUME NEW c \in Buf PROVE BufUse(c)'
    <3>1. UseInv /\ BufUse(c)
      BY DEF Inv, UseInv
    <3>2. lock'[c] # None => mine'[lock'[c]] = c
      BY <3>1 DEF BufUse
    <3>3. c \in pinned' => buf'[c].valid
      BY <1>1, <3>1 DEF BufUse
    <3>4. buf'[c].valid => buf[c].block # None
      BY <3>1 DEF BufUse
    <3> QED
      BY <3>1, <3>2, <3>3, <3>4, BufsUse
  <2> QED
    BY <2>1, <2>2 DEF UseInv
<1>5. DataInv'
  <2>1. \A c \in Buf : c # b => Clean(c)' = Clean(c)
    BY DEF Clean
  <2>2. \A q \in Proc : q # p /\ Working(q) => mine[q] # b /\ mine[q] \in Buf
    BY <1>1, <1>2, Alone DEF Working, InDriver, DriverPcs
  <2>3. \A c \in Buf : buf'[c].valid /\ c \notin pinned' => Clean(c)'
    BY <2>1 DEF Inv, DataInv
  <2>4. ASSUME NEW q \in Proc
        PROVE  /\ Requests(q)' /\ Min(idx'[q]) \notin avail' => Clean(mine[q])'
               /\ pc'[q] = "have" /\ op'[q] = "unpin" => Clean(mine[q])'
    <3>1. CASE q = p
      BY <3>1 DEF Requests
    <3>2. CASE q # p /\ Working(q)
      <4>1. Clean(mine[q])' = Clean(mine[q])
        BY <2>1, <2>2, <3>2 DEF Clean
      <4> QED
        BY <3>2, <4>1 DEF Requests, Inv, DataInv, Same
    <3>3. CASE q # p /\ ~Working(q)
      BY <3>3 DEF Working, InDriver, DriverPcs, Requests, Same
    <3> QED
      BY <3>1, <3>2, <3>3
  <2> QED
    BY <2>3, <2>4 DEF DataInv
<1> QED
  BY <1>3, <1>4, <1>5 DEF Inv

\* A process that has its buffer
LEMMA Having ==
  ASSUME Inv, NEW p \in Proc, pc[p] = "have"
  PROVE  /\ TypeOK /\ mine[p] \in Buf /\ lock[mine[p]] = p /\ buf[mine[p]].block # None /\ buf[mine[p]].valid
         /\ Installs(p) => mine[p] \in pinned
         /\ op[p] = "install" => ~write[p]
         /\ \A c \in Buf : buf[c].refcnt = Counts(c)
         /\ Installs(p) => \A q \in Proc : Installs(q) => p = q
  BY Holds, Counted DEF Inv, RequestsExact, UseInv, ProcUse, Working, Installs

LEMMA ChangeInv ==
  ASSUME Inv, NEW p \in Proc, Change(p)
  PROVE  Inv'
<1> DEFINE b == mine[p]
<1>1. PICK d \in Data :
        buf' = [buf EXCEPT ![b].data = d, ![b].refcnt = IF b \in pinned THEN @ ELSE @ + 1]
  BY DEF Change
<1>2. /\ pc[p] = "have" /\ op[p] = "change" /\ pinned' = pinned \cup {b} /\ op' = [op EXCEPT ![p] = "read"]
      /\ UNCHANGED <<medium, free, info, avail, used, idx, pc, mine, write, lru, lock, calls, panic>>
  BY DEF Change, driverVars
<1>3. /\ TypeOK /\ b \in Buf /\ lock[b] = p /\ buf[b].block # None /\ buf[b].valid
      /\ \A c \in Buf : buf[c].refcnt = Counts(c)
      /\ buf \in [Buf -> BufType]
  BY <1>2, Having, Holds
<1>4. /\ \A c \in Buf : /\ buf'[c].block = buf[c].block /\ buf'[c].valid = buf[c].valid
                        /\ buf'[c].disk = buf[c].disk
                        /\ c # b => buf'[c] = buf[c]
      /\ buf'[b].refcnt = IF b \in pinned THEN buf[b].refcnt ELSE buf[b].refcnt + 1
  BY <1>1, <1>3 DEF BufType
<1>5. \A c \in Buf : buf'[c].refcnt = Counts(c)'
  <2>1. ASSUME NEW c \in Buf, c = b PROVE buf'[c].refcnt = Counts(c)'
    BY <1>2, <1>3, <1>4, <2>1, UsersType DEF Counts
  <2>2. ASSUME NEW c \in Buf, c # b PROVE buf'[c].refcnt = Counts(c)'
    BY <1>2, <1>3, <1>4, <2>2 DEF Counts
  <2> QED
    BY <2>1, <2>2
<1>6. TypeOK'
  <2>1. buf'[b].refcnt \in 0 .. Cardinality(Proc) + 1
    BY <1>3, <1>5, CountsType
  <2>2. buf' \in [Buf -> BufType]
    BY <1>1, <1>3, <1>4, <2>1 DEF BufType
  <2> QED
    BY <1>2, <1>3, <2>2 DEF TypeOK, DriverTypeOK, BufType
<1>7. /\ \A q \in Proc : q # p => Same(q)
      /\ op'[p] = "read" /\ pc'[p] = "have"
  BY <1>2, <1>3 DEF TypeOK, Same
<1>8. ProcUse(p)'
  BY <1>2, <1>3, <1>4, <1>7, DiskAssumption DEF ProcUse, Installs, InDriver, DriverPcs
<1>9. \A c \in Buf : c # b => (c \in pinned' <=> c \in pinned)
  BY <1>2
<1>10. ~Installs(p)' /\ b \in pinned'
  BY <1>2, <1>7 DEF Installs
<1> QED
  BY <1>2, <1>4, <1>5, <1>6, <1>7, <1>8, <1>9, <1>10, HaveStep

LEMMA BwriteInv ==
  ASSUME Inv, NEW p \in Proc, Bwrite(p)
  PROVE  Inv'
<1> DEFINE b == mine[p]
<1>1. /\ pc[p] = "have" /\ op[p] = "install" /\ write' = [write EXCEPT ![p] = TRUE]
      /\ op' = [op EXCEPT ![p] = "unpin"] /\ pc' = [pc EXCEPT ![p] = "rw"]
      /\ UNCHANGED <<medium, free, info, avail, used, idx, buf, pinned, mine, lru, lock, calls, panic>>
  BY DEF Bwrite, Goto, driverVars
<1>2. /\ TypeOK /\ b \in Buf /\ lock[b] = p /\ buf[b].block # None /\ buf[b].valid /\ b \in pinned
      /\ \A c \in Buf : buf[c].refcnt = Counts(c)
      /\ \A q \in Proc : Installs(q) => p = q
      /\ buf \in [Buf -> BufType]
  BY <1>1, Having, Holds DEF Installs
<1>3. TypeOK'
  BY <1>1, <1>2 DEF TypeOK, DriverTypeOK, DriverPcs
<1>4. /\ \A q \in Proc : q # p => Same(q)
      /\ op'[p] = "unpin" /\ pc'[p] = "rw" /\ write'[p] = TRUE
  BY <1>1, <1>2 DEF TypeOK, Same
<1>5. \A q \in Proc : Installs(q)' => p = q
  BY <1>2, <1>4 DEF Installs, Same
<1>6. buf[b].valid = TRUE
  BY <1>2 DEF BufType
<1>7. ProcUse(p)'
  BY <1>1, <1>2, <1>4, <1>5, <1>6, DiskAssumption DEF ProcUse, InDriver, DriverPcs
<1>8. \A c \in Buf : buf'[c].refcnt = Counts(c)'
  BY <1>1, <1>2 DEF Counts
<1>9. Installs(p)
  BY <1>1 DEF Installs
<1> QED
  BY <1>1, <1>2, <1>3, <1>4, <1>7, <1>8, <1>9, HaveStep

LEMMA BunpinInv ==
  ASSUME Inv, NEW p \in Proc, Bunpin(p)
  PROVE  Inv'
<1> DEFINE b == mine[p]
<1>1. /\ pc[p] = "have" /\ op[p] = "unpin" /\ pinned' = pinned \ {b} /\ op' = [op EXCEPT ![p] = "read"]
      /\ buf' = [buf EXCEPT ![b].refcnt = @ - 1]
      /\ UNCHANGED <<medium, free, info, avail, used, idx, pc, mine, write, lru, lock, calls, panic>>
  BY DEF Bunpin, driverVars
<1>2. /\ TypeOK /\ b \in Buf /\ lock[b] = p /\ buf[b].block # None /\ buf[b].valid /\ b \in pinned
      /\ \A c \in Buf : buf[c].refcnt = Counts(c)
      /\ buf \in [Buf -> BufType] /\ Installs(p)
  BY <1>1, Having, Holds DEF Installs
<1>3. /\ \A c \in Buf : /\ buf'[c].block = buf[c].block /\ buf'[c].valid = buf[c].valid
                        /\ buf'[c].disk = buf[c].disk /\ buf'[c].data = buf[c].data
                        /\ c # b => buf'[c] = buf[c]
      /\ buf'[b].refcnt = buf[b].refcnt - 1
  BY <1>1, <1>2 DEF BufType
<1>4. \A c \in Buf : buf'[c].refcnt = Counts(c)'
  <2>1. ASSUME NEW c \in Buf, c = b PROVE buf'[c].refcnt = Counts(c)'
    BY <1>1, <1>2, <1>3, <2>1, UsersType DEF Counts
  <2>2. ASSUME NEW c \in Buf, c # b PROVE buf'[c].refcnt = Counts(c)'
    BY <1>1, <1>2, <1>3, <2>2 DEF Counts
  <2> QED
    BY <2>1, <2>2
<1>5. TypeOK'
  <2>1. buf'[b].refcnt \in 0 .. Cardinality(Proc) + 1
    BY <1>2, <1>4, CountsType
  <2>2. buf' \in [Buf -> BufType]
    BY <1>1, <1>2, <1>3, <2>1 DEF BufType
  <2> QED
    BY <1>1, <1>2, <2>2 DEF TypeOK, DriverTypeOK, BufType
<1>6. /\ \A q \in Proc : q # p => Same(q)
      /\ op'[p] = "read" /\ pc'[p] = "have"
  BY <1>1, <1>2 DEF TypeOK, Same
<1>7. ProcUse(p)'
  BY <1>1, <1>2, <1>3, <1>6, DiskAssumption DEF ProcUse, Installs, InDriver, DriverPcs
<1>8. \A c \in Buf : c # b => (c \in pinned' <=> c \in pinned)
  BY <1>1
<1>9. ~Installs(p)'
  BY <1>6 DEF Installs
<1>10. Clean(b)'
  <2>1. Clean(b)
    BY <1>1 DEF Inv, DataInv
  <2> QED
    BY <1>1, <1>2, <1>3, <2>1 DEF Clean
<1> QED
  BY <1>1, <1>2, <1>3, <1>4, <1>5, <1>6, <1>7, <1>8, <1>9, <1>10, HaveStep

LEMMA BrelseInv ==
  ASSUME Inv, NEW p \in Proc, Brelse(p)
  PROVE  Inv'
<1> DEFINE b == mine[p]
<1>1. /\ pc[p] = "have" /\ op[p] = "read" /\ lock' = [lock EXCEPT ![b] = None]
      /\ pc' = [pc EXCEPT ![p] = "release"]
      /\ UNCHANGED <<medium, free, info, avail, used, idx, buf, mine, write, lru, op, pinned, calls, panic>>
  BY DEF Brelse, Goto, driverVars
<1>2. /\ TypeOK /\ b \in Buf /\ lock[b] = p /\ buf[b].block # None
      /\ \A c \in Buf : buf[c].refcnt = Counts(c)
      /\ buf \in [Buf -> BufType] /\ lock \in [Buf -> Proc \cup {None}]
      /\ None \notin Proc /\ None \notin Buf
  BY <1>1, Having, Holds
<1>3. TypeOK'
  BY <1>1, <1>2 DEF TypeOK, DriverTypeOK, DriverPcs
<1>4. /\ \A q \in Proc : q # p => Same(q)
      /\ pc'[p] = "release" /\ op'[p] = "read"
      /\ lock'[b] = None /\ \A c \in Buf : c # b => lock'[c] = lock[c]
  BY <1>1, <1>2 DEF TypeOK, Same
<1>5. ASSUME NEW q \in Proc, q # p, mine[q] \in Buf
      PROVE  lock'[mine[q]] = q <=> lock[mine[q]] = q
  BY <1>2, <1>4, <1>5
<1>6. RequestsExact' /\ DriverWakes' /\ ChainInv'
  <2>1. \A q \in Proc : q # p => pc'[q] = pc[q] /\ mine'[q] = mine[q]
    BY <1>4 DEF Same
  <2>2. \A q \in Proc : q # p /\ lock[mine[q]] = q /\ Requests(q) => lock'[mine[q]] = q
    <3>1. \A q \in Proc : Requests(q) => mine[q] \in Buf
      BY Holds DEF Requests
    <3> QED
      BY <1>5, <3>1
  <2>3. RequestsExact /\ DriverWakes /\ ChainInv
    BY DEF Inv
  <2> QED
    BY <1>1, <1>3, <1>4, <2>1, <2>2, <2>3, Quiet
<1>7. UseInv'
  <2>1. ASSUME NEW q \in Proc PROVE ProcUse(q)'
    <3>1. CASE q = p
      <4>1. ~Installs(p)' /\ ~InDriver(p)'
        BY <1>4 DEF Installs, InDriver, DriverPcs
      <4>2. mine'[p] = b /\ buf'[b].block # None /\ lock'[b] # p
        BY <1>1, <1>2, <1>4
      <4> HIDE DEF b
      <4> QED
        BY <1>2, <1>4, <3>1, <4>1, <4>2 DEF ProcUse
    <3>2. CASE q # p
      <4>1. Installs(p)' => Installs(p)
        BY <1>1 DEF Installs
      <4>2. Installs(q) => mine[q] \in pinned'
        BY <1>1 DEF Inv, UseInv, ProcUse
      <4> QED
        BY <1>1, <1>4, <1>5, <3>2, <4>1, <4>2, Others
    <3> QED
      BY <3>1, <3>2
  <2>2. ASSUME NEW c \in Buf PROVE BufUse(c)'
    <3>1. lock'[c] # None => mine'[lock'[c]] = c
      BY <1>1, <1>4, LockMine
    <3>2. buf'[c].refcnt = Counts(c)'
      BY <1>1, <1>2 DEF Counts
    <3>3. UseInv /\ BufUse(c)
      BY DEF Inv, UseInv
    <3> QED
      BY <1>1, <3>1, <3>2, <3>3, BufsUse DEF BufUse
  <2> QED
    BY <2>1, <2>2 DEF UseInv
<1>8. DataInv'
  <2>1. ASSUME NEW q \in Proc
        PROVE  /\ Requests(q)' /\ Min(idx'[q]) \notin avail' => Clean(mine[q])'
               /\ pc'[q] = "have" /\ op'[q] = "unpin" => Clean(mine[q])'
    <3>1. CASE q = p
      BY <1>4, <3>1 DEF Requests
    <3>2. CASE q # p
      BY <1>1, <1>4, <3>2 DEF Requests, Inv, DataInv, Same, Clean
    <3> QED
      BY <3>1, <3>2
  <2> QED
    BY <1>1, <2>1 DEF Inv, DataInv, Clean
<1> QED
  BY <1>6, <1>7, <1>8 DEF Inv

LEMMA BrelseCountInv ==
  ASSUME Inv, NEW p \in Proc, BrelseCount(p)
  PROVE  Inv'
<1> DEFINE b == mine[p]
<1>1. /\ pc[p] = "release" /\ buf' = [buf EXCEPT ![b].refcnt = @ - 1]
      /\ lru' = IF buf[b].refcnt = 1 THEN ToFront(lru, b) ELSE lru
      /\ mine' = [mine EXCEPT ![p] = None] /\ write' = [write EXCEPT ![p] = FALSE]
      /\ pc' = [pc EXCEPT ![p] = "idle"]
      /\ UNCHANGED <<medium, free, info, avail, used, idx, op, lock, pinned, calls, panic>>
  BY DEF BrelseCount, Goto, driverVars
<1>2. /\ b \in Buf /\ lock[b] # p /\ \A c \in Buf : buf[c].refcnt = Counts(c)
      /\ buf \in [Buf -> BufType] /\ mine \in [Proc -> Buf \cup {None}]
      /\ None \notin Proc /\ None \notin Buf
  BY <1>1, Holds, Counted DEF Inv, Working, InDriver, DriverPcs
<1>3. TypeOK /\ op[p] = "read"
  BY <1>1 DEF Inv, RequestsExact, UseInv, ProcUse
<1>4. /\ \A q \in Proc : q # p => Same(q)
      /\ pc'[p] = "idle" /\ op'[p] = "read" /\ mine'[p] = None /\ write'[p] = FALSE
  BY <1>1, <1>3 DEF TypeOK, Same
<1>5. /\ \A c \in Buf : /\ buf'[c].block = buf[c].block /\ buf'[c].valid = buf[c].valid
                        /\ buf'[c].disk = buf[c].disk /\ buf'[c].data = buf[c].data
                        /\ c # b => buf'[c] = buf[c]
      /\ buf'[b].refcnt = buf[b].refcnt - 1
  BY <1>1, <1>2 DEF BufType
<1>6. \A c \in Buf : buf'[c].refcnt = Counts(c)'
  <2>1. /\ Cardinality(UsersIn(mine', b)) = Cardinality(UsersIn(mine, b)) - 1
        /\ \A c \in Buf : c # b => UsersIn(mine', c) = UsersIn(mine, c)
    BY <1>1, <1>2, UsersDown
  <2>2. Cardinality(UsersIn(mine, b)) \in Nat
    BY UsersType
  <2>3. ASSUME NEW c \in Buf, c = b PROVE buf'[c].refcnt = Counts(c)'
    <3> DEFINE one == IF c \in pinned THEN 1 ELSE 0
    <3>1. buf[c].refcnt = Cardinality(UsersIn(mine, c)) + one
      BY <1>2 DEF Counts
    <3>2. /\ buf'[c].refcnt = buf[c].refcnt - 1
          /\ Cardinality(UsersIn(mine', c)) = Cardinality(UsersIn(mine, c)) - 1
          /\ Cardinality(UsersIn(mine, c)) \in Nat /\ one \in Nat
      BY <1>5, <2>1, <2>2, <2>3
    <3>3. Counts(c)' = Cardinality(UsersIn(mine', c)) + one
      BY <1>1 DEF Counts
    <3> HIDE DEF one
    <3> QED
      BY <3>1, <3>2, <3>3
  <2>4. ASSUME NEW c \in Buf, c # b PROVE buf'[c].refcnt = Counts(c)'
    BY <1>1, <1>2, <1>5, <2>1, <2>4, ZenonT(40) DEF Counts
  <2> QED
    BY <2>3, <2>4
<1>7. TypeOK'
  <2>1. buf'[b].refcnt \in 0 .. Cardinality(Proc) + 1
    BY <1>2, <1>6, CountsType
  <2>2. buf' \in [Buf -> BufType]
    BY <1>1, <1>2, <1>5, <2>1 DEF BufType
  <2>3. lru' \in Seq(Buf) /\ Len(lru') = Cardinality(Buf) /\ ToSet(lru') = Buf
    BY <1>1, <1>2, <1>3, ToFrontKeeps DEF TypeOK
  <2> QED
    BY <1>1, <1>2, <1>3, <2>2, <2>3 DEF TypeOK, DriverTypeOK, BufType
<1>8. RequestsExact' /\ DriverWakes' /\ ChainInv'
  <2>1. \A q \in Proc : q # p => pc'[q] = pc[q] /\ mine'[q] = mine[q]
    BY <1>4 DEF Same
  <2>2. \A q \in Proc : Requests(q) => buf'[mine[q]].disk = buf[mine[q]].disk
    <3>1. \A q \in Proc : Requests(q) => mine[q] \in Buf
      BY Holds DEF Requests
    <3> QED
      BY <1>5, <3>1
  <2>3. RequestsExact /\ DriverWakes /\ ChainInv
    BY DEF Inv
  <2> QED
    BY <1>1, <1>4, <1>7, <2>1, <2>2, <2>3, Quiet
<1>9. UseInv'
  <2>1. ASSUME NEW q \in Proc PROVE ProcUse(q)'
    <3>1. CASE q = p
      <4>1. ~Installs(p)' /\ ~InDriver(p)'
        BY <1>4 DEF Installs, InDriver, DriverPcs
      <4> QED
        BY <1>2, <1>4, <3>1, <4>1 DEF ProcUse
    <3>2. CASE q # p
      <4>1. Installs(p)' => Installs(p)
        BY <1>1 DEF Installs
      <4>2. Installs(q) => mine[q] \in pinned'
        BY <1>1 DEF Inv, UseInv, ProcUse
      <4> QED
        BY <1>1, <1>4, <1>5, <3>2, <4>1, <4>2, Others
    <3> QED
      BY <3>1, <3>2
  <2>2. ASSUME NEW c \in Buf PROVE BufUse(c)'
    <3>1. lock'[c] # None => mine'[lock'[c]] = c
      <4>1. lock[c] # None => lock[c] \in Proc /\ mine[lock[c]] = c /\ lock[c] # p
        BY <1>2, LockMine
      <4> QED
        BY <1>1, <1>4, <4>1 DEF Same
    <3>2. UseInv /\ BufUse(c)
      BY DEF Inv, UseInv
    <3> QED
      BY <1>1, <1>5, <1>6, <3>1, <3>2, BufsUse DEF BufUse
  <2> QED
    BY <2>1, <2>2 DEF UseInv
<1>10. DataInv'
  <2>1. \A c \in Buf : Clean(c)' = Clean(c)
    BY <1>1, <1>5 DEF Clean
  <2>2. ASSUME NEW q \in Proc
        PROVE  /\ Requests(q)' /\ Min(idx'[q]) \notin avail' => Clean(mine[q])'
               /\ pc'[q] = "have" /\ op'[q] = "unpin" => Clean(mine[q])'
    <3>1. CASE q = p
      BY <1>4, <3>1 DEF Requests
    <3>2. CASE q # p
      <4>1. pc[q] # "idle" => mine[q] \in Buf
        BY Holds
      <4>2. mine[q] \in Buf => Clean(mine[q])' = Clean(mine[q])
        BY <1>4, <2>1, <3>2 DEF Same, Clean
      <4> QED
        BY <1>1, <1>4, <3>2, <4>1, <4>2 DEF Requests, Inv, DataInv, Same
    <3> QED
      BY <3>1, <3>2
  <2> QED
    BY <1>1, <1>5, <2>1, <2>2 DEF Inv, DataInv
<1> QED
  BY <1>8, <1>9, <1>10 DEF Inv

-----------------------------------------------------------------------------
(* The steps of the driver and of the device *)

\* They leave alone who uses which buffer.
LEMMA DriverUse ==
  ASSUME Inv, UNCHANGED <<mine, lock, op, write, pinned>>,
         \A q \in Proc : Alike(q),
         \A c \in Buf : /\ buf'[c].block = buf[c].block /\ buf'[c].valid = buf[c].valid
                        /\ buf'[c].refcnt = buf[c].refcnt
  PROVE  UseInv'
<1>1. ASSUME NEW q \in Proc PROVE ProcUse(q)'
  <2>1. ProcUse(q) /\ Alike(q)
    BY DEF Inv, UseInv
  <2>2. \A r \in Proc : Installs(r)' <=> Installs(r)
    BY DEF Installs
  <2>3. pc[q] # "idle" => mine[q] \in Buf
    BY Holds
  <2>4. /\ InDriver(q)' <=> InDriver(q)
        /\ \A l \in {"idle", "lock", "release", "have"} : pc'[q] = l <=> pc[q] = l
        /\ InDriver(q) => pc[q] # "idle"
    BY <2>1 DEF Alike, InDriver, DriverPcs
  <2>5. pc[q] # "idle" => buf'[mine[q]].block = buf[mine[q]].block /\ buf'[mine[q]].valid = buf[mine[q]].valid
    BY <2>3
  <2> QED
    BY <2>1, <2>2, <2>4, <2>5 DEF ProcUse
<1>2. ASSUME NEW c \in Buf PROVE BufUse(c)'
  <2>1. UseInv /\ BufUse(c)
    BY DEF Inv, UseInv
  <2>2. buf'[c].refcnt = Counts(c)'
    BY <2>1, Counted DEF Counts
  <2> QED
    BY <2>1, <2>2, BufsUse DEF BufUse
<1> QED
  BY <1>1, <1>2 DEF UseInv

LEMMA ChainFacts ==
  ASSUME Inv, NEW q \in Proc
  PROVE  /\ idx[q] # {} <=> Requests(q)
         /\ idx[q] \subseteq Desc /\ idx[q] \cap free = {}
         /\ \A r \in Proc : r # q => idx[q] \cap idx[r] = {}
         /\ Requests(q) => /\ Min(idx[q]) \in idx[q] /\ Cardinality(idx[q]) = 3 /\ IsFiniteSet(idx[q])
                           /\ info[Min(idx[q])] = mine[q] /\ mine[q] \in Buf /\ lock[mine[q]] = q
                           /\ (buf[mine[q]].disk <=> pc[q] = "io_sleep")
<1>1. /\ idx[q] # {} <=> Requests(q)
      /\ idx[q] \subseteq Desc /\ idx[q] \cap free = {}
      /\ \A r \in Proc : r # q => idx[q] \cap idx[r] = {}
  BY DEF Inv, RequestsExact, TypeOK, DriverTypeOK, ChainInv
<1>2. ASSUME Requests(q)
      PROVE  /\ Min(idx[q]) \in idx[q] /\ Cardinality(idx[q]) = 3 /\ IsFiniteSet(idx[q])
             /\ info[Min(idx[q])] = mine[q] /\ mine[q] \in Buf /\ lock[mine[q]] = q
             /\ (buf[mine[q]].disk <=> pc[q] = "io_sleep")
  <2>1. NUM \in Nat /\ IsFiniteSet(Desc) /\ Desc \subseteq Nat
    BY DiskAssumption, FS_Interval DEF Desc
  <2>2. IsFiniteSet(idx[q]) /\ idx[q] \subseteq Nat
    BY <1>1, <2>1, FS_Subset
  <2>3. Min(idx[q]) \in idx[q]
    BY <1>1, <1>2, <2>2, MinIn
  <2>4. pc[q] # "idle" /\ Working(q)
    BY <1>2 DEF Requests, Working, InDriver, DriverPcs
  <2>5. mine[q] \in Buf /\ lock[mine[q]] = q
    BY <2>4, Holds
  <2> QED
    BY <1>2, <2>2, <2>3, <2>5 DEF Inv, ChainInv
<1> QED
  BY <1>1, <1>2

\* A head that the device has belongs to the process whose chain it is in.
LEMMA HeadOf ==
  ASSUME Inv, NEW i \in avail \cup ToSet(used)
  PROVE  \E q \in Proc : /\ i = Min(idx[q]) /\ i \in idx[q] /\ info[i] = mine[q] /\ mine[q] \in Buf
                         /\ lock[mine[q]] = q /\ buf[mine[q]].disk /\ pc[q] = "io_sleep" /\ Requests(q)
                         /\ i \notin free
                         /\ \A r \in Proc : i \in idx[r] => r = q
<1>1. PICK q \in Proc : /\ idx[q] # {} /\ i = Min(idx[q]) /\ info[i] = mine[q]
                        /\ lock[mine[q]] = q /\ buf[mine[q]].disk /\ pc[q] = "io_sleep"
  BY DEF Inv, RequestsExact
<1>2. Requests(q)
  BY <1>1 DEF Requests
<1>3. i \in idx[q] /\ i \notin free /\ mine[q] \in Buf
  BY <1>1, <1>2, ChainFacts
<1>4. \A r \in Proc : i \in idx[r] => r = q
  BY <1>3, ChainFacts
<1> QED
  BY <1>1, <1>2, <1>3, <1>4

Owners == {q \in Proc : idx[q] # {}}

LEMMA OwnersType ==
  /\ IsFiniteSet(Owners) /\ Cardinality(Owners) \in Nat
  /\ TypeOK => IsFiniteSet(free) /\ Cardinality(free) \in Nat /\ free \subseteq Nat /\ free \subseteq Desc
<1>1. Owners \subseteq Proc /\ IsFiniteSet(Proc)
  BY DiskAssumption DEF Owners
<1>2. IsFiniteSet(Owners) /\ Cardinality(Owners) \in Nat
  BY <1>1, FS_Subset, FS_CardinalityType
<1>3. IsFiniteSet(Desc) /\ Desc \subseteq Nat
  BY DiskAssumption, FS_Interval DEF Desc
<1>4. TypeOK => free \subseteq Desc
  BY DEF TypeOK, DriverTypeOK
<1> QED
  BY <1>2, <1>3, <1>4, FS_Subset, FS_CardinalityType

\* What the used ring has after one more entry
LEMMA AppendSet ==
  ASSUME NEW s \in Seq(Desc), NEW x \in Desc
  PROVE  ToSet(Append(s, x)) = ToSet(s) \cup {x}
<1> DEFINE n == Len(s)
           t == Append(s, x)
<1>1. /\ n \in Nat /\ DOMAIN s = 1 .. n /\ DOMAIN t = 1 .. n + 1
      /\ \A j \in 1 .. n : t[j] = s[j]
      /\ t[n + 1] = x
  OBVIOUS
<1> HIDE DEF n, t
<1>2. /\ \A y : y \in ToSet(s) <=> \E j \in 1 .. n : y = s[j]
      /\ \A y : y \in ToSet(t) <=> \E j \in 1 .. n + 1 : y = t[j]
  BY <1>1 DEF ToSet
<1>3. ASSUME NEW y, y \in ToSet(s) PROVE y \in ToSet(t)
  <2>1. PICK j \in 1 .. n : y = s[j]
    BY <1>2, <1>3
  <2>2. j \in 1 .. n + 1 /\ y = t[j]
    BY <1>1, <2>1
  <2> QED
    BY <1>2, <2>2
<1>4. x \in ToSet(t)
  <2>1. n + 1 \in 1 .. n + 1
    BY <1>1
  <2> QED
    BY <1>1, <1>2, <2>1
<1>5. ASSUME NEW y, y \in ToSet(t) PROVE y \in ToSet(s) \cup {x}
  <2>1. PICK j \in 1 .. n + 1 : y = t[j]
    BY <1>2, <1>5
  <2>2. j \in 1 .. n \/ j = n + 1
    BY <1>1
  <2> QED
    BY <1>1, <1>2, <2>1, <2>2
<1>6. ToSet(t) = ToSet(s) \cup {x}
  BY <1>3, <1>4, <1>5
<1> QED
  BY <1>6 DEF t

LEMMA DeviceInv ==
  ASSUME Inv, NEW i \in Desc, Device(i), UNCHANGED cacheVars
  PROVE  Inv'
<1>1. /\ i \in avail /\ avail' = avail \ {i} /\ used' = Append(used, i)
      /\ UNCHANGED <<free, info, pc, mine, write, idx, lru, lock, op, pinned, calls, panic>>
  BY DEF Device, cacheVars
<1>2. PICK p \in Proc : /\ i = Min(idx[p]) /\ i \in idx[p] /\ mine[p] \in Buf /\ Requests(p)
                        /\ \A r \in Proc : i \in idx[r] => r = p
  BY <1>1, HeadOf
<1> PICK b \in Buf, k \in Block : b = mine[p] /\ k = buf[b].block
  <2>1. pc[p] # "idle"
    BY <1>2 DEF Requests
  <2> QED
    BY <2>1, Holds
<1>3. /\ b = mine[p] /\ k = buf[b].block /\ k # None /\ Working(p)
      /\ buf \in [Buf -> BufType] /\ None \notin Block
  BY <1>2, Holds DEF Requests, Working, InDriver, DriverPcs
<1>4. TypeOK
  BY DEF Inv, RequestsExact
<1>5. medium \in [Block -> Data] /\ used \in Seq(Desc) /\ buf[b] \in BufType /\ buf[b].data \in Data
  BY <1>3, <1>4 DEF TypeOK, DriverTypeOK, BufType
<1>6. \/ medium' = [medium EXCEPT ![k] = buf[b].data] /\ buf' = buf
      \/ medium' = medium /\ buf' = [buf EXCEPT ![b].data = medium[k]]
  <2>1. PICK q \in Proc :
         /\ i \in idx[q]
         /\ IF write[q]
            THEN medium' = [medium EXCEPT ![buf[mine[q]].block] = buf[mine[q]].data] /\ UNCHANGED buf
            ELSE buf' = [buf EXCEPT ![mine[q]].data = medium[buf[mine[q]].block]] /\ UNCHANGED medium
    BY DEF Device
  <2>2. q = p
    BY <1>2, <2>1
  <2> QED
    BY <2>1, <2>2
<1>7. /\ \A c \in Buf : /\ buf'[c].block = buf[c].block /\ buf'[c].valid = buf[c].valid
                        /\ buf'[c].disk = buf[c].disk /\ buf'[c].refcnt = buf[c].refcnt
                        /\ c # b => buf'[c] = buf[c]
      /\ \A e \in Block : e # k => medium'[e] = medium[e]
      /\ buf'[b].data = medium'[k]
  <2>1. CASE medium' = [medium EXCEPT ![k] = buf[b].data] /\ buf' = buf
    BY <1>3, <1>5, <2>1
  <2>2. CASE medium' = medium /\ buf' = [buf EXCEPT ![b].data = medium[k]]
    BY <1>3, <1>5, <2>2 DEF BufType
  <2> QED
    BY <1>6, <2>1, <2>2
<1>8. TypeOK'
  <2>1. medium' \in [Block -> Data] /\ buf' \in [Buf -> BufType]
    <3>1. medium[k] \in Data
      BY <1>5
    <3>2. CASE medium' = [medium EXCEPT ![k] = buf[b].data] /\ buf' = buf
      BY <1>3, <1>5, <3>2
    <3>3. CASE medium' = medium /\ buf' = [buf EXCEPT ![b].data = medium[k]]
      BY <1>3, <1>5, <3>1, <3>3 DEF BufType
    <3> QED
      BY <1>6, <3>2, <3>3
  <2>2. used' \in Seq(Desc)
    BY <1>1, <1>5
  <2>3. avail' \subseteq Desc
    BY <1>1, <1>4 DEF TypeOK, DriverTypeOK
  <2> QED
    BY <1>1, <1>4, <2>1, <2>2, <2>3 DEF TypeOK, DriverTypeOK, BufType
<1>9. ToSet(used') = ToSet(used) \cup {i} /\ avail' \cup ToSet(used') = avail \cup ToSet(used)
  <2>1. ToSet(used') = ToSet(used) \cup {i}
    BY <1>1, <1>5, AppendSet
  <2> QED
    BY <1>1, <2>1
<1>10. \A q \in Proc : Requests(q) => mine[q] \in Buf /\ (q # p => mine[q] # b)
  BY <1>3, Alone, Holds DEF Requests, Working, InDriver, DriverPcs
<1>11. RequestsExact'
  <2>1. ASSUME NEW j \in avail' \cup ToSet(used')
        PROVE  \E q \in Proc : /\ idx[q] # {} /\ j = Min(idx[q]) /\ info[j] = mine[q]
                               /\ lock[mine[q]] = q /\ buf'[mine[q]].disk /\ pc[q] = "io_sleep"
    <3>1. PICK q \in Proc : /\ j = Min(idx[q]) /\ j \in idx[q] /\ info[j] = mine[q] /\ mine[q] \in Buf
                            /\ lock[mine[q]] = q /\ buf[mine[q]].disk /\ pc[q] = "io_sleep"
      BY <1>9, <2>1, HeadOf
    <3> QED
      BY <1>7, <3>1
  <2>2. RequestsExact
    BY DEF Inv
  <2> QED
    BY <1>1, <1>8, <2>1, <2>2 DEF RequestsExact
<1>12. DriverWakes'
  BY <1>1, <1>9 DEF Inv, DriverWakes
<1>13. ChainInv'
  <2>1. ChainInv /\ i \notin ToSet(used)
    BY <1>1 DEF Inv, ChainInv
  <2>2. ASSUME NEW x \in DOMAIN used', NEW y \in DOMAIN used', used'[x] = used'[y] PROVE x = y
    <3>1. Len(used) \in Nat /\ DOMAIN used = 1 .. Len(used) /\ DOMAIN used' = 1 .. Len(used) + 1
          /\ \A j \in 1 .. Len(used) : used'[j] = used[j] /\ used[j] # i
          /\ used'[Len(used) + 1] = i
      BY <1>1, <1>5, <2>1 DEF ToSet
    <3>2. \A u, v \in DOMAIN used : used[u] = used[v] => u = v
      BY <2>1 DEF ChainInv
    <3> QED
      BY <2>2, <3>1, <3>2
  <2>3. avail' \cap ToSet(used') = {}
    BY <1>1, <1>9, <2>1 DEF ChainInv
  <2>4. \A q \in Proc : /\ Requests(q)' <=> Requests(q)
                        /\ Requests(q) => buf'[mine[q]].disk = buf[mine[q]].disk
    BY <1>1, <1>7, <1>10 DEF Requests
  <2> QED
    BY <1>1, <2>1, <2>2, <2>3, <2>4 DEF ChainInv
<1>14. UseInv'
  <2>1. \A q \in Proc : Alike(q)
    BY <1>1 DEF Alike
  <2> QED
    BY <1>1, <1>7, <2>1, DriverUse
<1>15. DataInv'
  <2>1. Clean(b)'
    BY <1>1, <1>3, <1>7 DEF Clean
  <2>2. ASSUME NEW c \in Buf, c # b, buf[c].block # None PROVE Clean(c)' <=> Clean(c)
    <3>1. buf[c].block # k /\ buf[c].block \in Block
      <4>1. buf[c].block \in Block \cup {None}
        BY <1>3 DEF BufType
      <4>2. \A e \in Buf : buf[c].block = buf[e].block /\ buf[c].block # None => c = e
        BY DEF Inv, UseInv, BufUse
      <4> QED
        BY <1>3, <1>7, <2>2, <4>1, <4>2
    <3> QED
      BY <1>7, <2>2, <3>1 DEF Clean
  <2>3. ASSUME NEW c \in Buf, buf'[c].valid, c \notin pinned' PROVE Clean(c)'
    <3>1. buf[c].valid /\ c \notin pinned /\ Clean(c) /\ buf[c].block # None
      BY <1>1, <1>7, <2>3 DEF Inv, DataInv, UseInv, BufUse
    <3> QED
      BY <1>1, <2>1, <2>2, <3>1 DEF Clean
  <2>4. ASSUME NEW q \in Proc
        PROVE  /\ Requests(q)' /\ Min(idx'[q]) \notin avail' => Clean(mine[q])'
               /\ pc'[q] = "have" /\ op'[q] = "unpin" => Clean(mine[q])'
    <3>1. CASE q = p
      BY <1>1, <1>2, <1>3, <2>1, <3>1 DEF Requests, Clean
    <3>2. CASE q # p
      <4>1. Requests(q) => Min(idx[q]) # i
        BY <1>2, <3>2, ChainFacts
      <4>2. Working(q) => mine[q] # b /\ mine[q] \in Buf /\ buf[mine[q]].block # None
        BY <1>3, <3>2, Alone, Holds DEF Working, InDriver, DriverPcs
      <4>3. Working(q) => (Clean(mine[q])' <=> Clean(mine[q]))
        BY <1>1, <2>2, <4>2 DEF Clean
      <4>4. (Requests(q) \/ pc[q] = "have" => Working(q)) /\ (Requests(q)' <=> Requests(q))
        BY <1>1 DEF Requests, Working, InDriver, DriverPcs
      <4> QED
        BY <1>1, <4>1, <4>3, <4>4 DEF Inv, DataInv
    <3> QED
      BY <3>1, <3>2
  <2> QED
    BY <2>3, <2>4 DEF DataInv
<1> QED
  BY <1>11, <1>12, <1>13, <1>14, <1>15 DEF Inv

LEMMA IntrInv ==
  ASSUME Inv, Intr, UNCHANGED cacheVars
  PROVE  Inv'
<1>1. /\ buf' = [b \in Buf |-> IF b \in Finished THEN [buf[b] EXCEPT !.disk = FALSE] ELSE buf[b]]
      /\ used' = <<>>
      /\ pc' = [p \in Proc |-> IF pc[p] = "io_sleep" /\ mine[p] \in Finished THEN "io" ELSE pc[p]]
      /\ UNCHANGED <<medium, free, info, avail, mine, write, idx, lru, lock, op, pinned, calls, panic>>
  BY DEF Intr, cacheVars
<1>2. TypeOK /\ buf \in [Buf -> BufType]
  BY DEF Inv, RequestsExact, TypeOK, BufType
<1>3. /\ \A c \in Buf : /\ buf'[c].block = buf[c].block /\ buf'[c].valid = buf[c].valid
                        /\ buf'[c].data = buf[c].data /\ buf'[c].refcnt = buf[c].refcnt
                        /\ c \notin Finished => buf'[c] = buf[c]
                        /\ c \in Finished => buf'[c].disk = FALSE
      /\ buf' \in [Buf -> BufType]
  BY <1>1, <1>2 DEF BufType
<1>4. \A q \in Proc : /\ Requests(q)' <=> Requests(q)
                      /\ pc'[q] # pc[q] => pc[q] = "io_sleep" /\ pc'[q] = "io" /\ mine[q] \in Finished
                      /\ pc[q] = "io_sleep" /\ mine[q] \in Finished => pc'[q] = "io"
  BY <1>1 DEF Requests
\* the requests in the used ring, and no others, are finished
<1>5. ASSUME NEW q \in Proc, Requests(q)
      PROVE  mine[q] \in Finished <=> Min(idx[q]) \in ToSet(used)
  <2>1. mine[q] \in Finished => Min(idx[q]) \in ToSet(used)
    <3>1. SUFFICES ASSUME mine[q] \in Finished PROVE Min(idx[q]) \in ToSet(used)
      OBVIOUS
    <3>2. PICK j \in DOMAIN used : mine[q] = info[used[j]]
      BY <3>1 DEF Finished
    <3>3. used[j] \in ToSet(used)
      BY DEF ToSet
    <3>4. PICK r \in Proc : used[j] = Min(idx[r]) /\ info[used[j]] = mine[r] /\ Requests(r)
      BY <3>3, HeadOf
    <3>5. r = q
      BY <1>5, <3>2, <3>4, Alone DEF Requests, Working, InDriver, DriverPcs
    <3> QED
      BY <3>3, <3>4, <3>5
  <2>2. Min(idx[q]) \in ToSet(used) => mine[q] \in Finished
    <3>1. info[Min(idx[q])] = mine[q]
      BY <1>5, ChainFacts
    <3> QED
      BY <3>1 DEF ToSet, Finished
  <2> QED
    BY <2>1, <2>2
<1>6. TypeOK'
  <2>1. pc' \in [Proc -> {"idle", "lock", "have", "release"} \cup DriverPcs]
    BY <1>1, <1>2 DEF TypeOK, DriverPcs
  <2> QED
    BY <1>1, <1>2, <1>3, <2>1 DEF TypeOK, DriverTypeOK, BufType
<1>7. avail \cap ToSet(used) = {} /\ ToSet(used') = {}
  BY <1>1 DEF Inv, ChainInv, ToSet
<1>8. RequestsExact'
  <2>1. ASSUME NEW j \in avail' \cup ToSet(used')
        PROVE  \E q \in Proc : /\ idx[q] # {} /\ j = Min(idx[q]) /\ info[j] = mine[q]
                               /\ lock[mine[q]] = q /\ buf'[mine[q]].disk /\ pc'[q] = "io_sleep"
    <3>1. j \in avail /\ j \notin ToSet(used)
      BY <1>1, <1>7, <2>1
    <3>2. PICK q \in Proc : /\ j = Min(idx[q]) /\ j \in idx[q] /\ info[j] = mine[q] /\ mine[q] \in Buf
                            /\ lock[mine[q]] = q /\ buf[mine[q]].disk /\ pc[q] = "io_sleep" /\ Requests(q)
      BY <3>1, HeadOf
    <3>3. mine[q] \notin Finished
      BY <1>5, <3>1, <3>2
    <3> QED
      BY <1>3, <1>4, <3>2, <3>3
  <2>2. RequestsExact
    BY DEF Inv
  <2> QED
    BY <1>1, <1>6, <2>1, <2>2 DEF RequestsExact
<1>9. DriverWakes'
  <2>1. ASSUME NEW q \in Proc, pc'[q] = "io_sleep" PROVE Min(idx[q]) \in avail
    <3>1. pc[q] = "io_sleep" /\ mine[q] \notin Finished /\ Requests(q)
      BY <1>4, <2>1 DEF Requests
    <3>2. Min(idx[q]) \in avail \cup ToSet(used)
      BY <3>1 DEF Inv, DriverWakes
    <3> QED
      BY <1>5, <3>1, <3>2
  <2>2. ASSUME NEW q \in Proc, pc'[q] = "rw_sleep" PROVE \E r \in Proc : idx[r] # {} \/ pc'[r] = "rw"
    <3>1. pc[q] = "rw_sleep"
      BY <1>4, <2>2
    <3>2. PICK r \in Proc : idx[r] # {} \/ pc[r] = "rw"
      BY <3>1 DEF Inv, DriverWakes
    <3> QED
      BY <1>4, <3>2
  <2> QED
    BY <1>1, <2>1, <2>2 DEF DriverWakes
<1>10. ChainInv'
  <2>1. ASSUME NEW q \in Proc, Requests(q) PROVE buf'[mine[q]].disk <=> pc'[q] = "io_sleep"
    <3>1. mine[q] \in Buf /\ (buf[mine[q]].disk <=> pc[q] = "io_sleep")
      BY <2>1, ChainFacts
    <3>2. CASE mine[q] \in Finished
      BY <1>3, <1>4, <2>1, <3>1, <3>2 DEF Requests
    <3>3. CASE mine[q] \notin Finished
      BY <1>3, <1>4, <3>1, <3>3
    <3> QED
      BY <3>2, <3>3
  <2>2. \A j, k \in DOMAIN used' : used'[j] = used'[k] => j = k
    BY <1>1
  <2> QED
    BY <1>1, <1>4, <1>7, <2>1, <2>2 DEF Inv, ChainInv
<1>11. UseInv'
  <2>1. \A q \in Proc : Alike(q)
    BY <1>1, <1>4 DEF Alike, InDriver, DriverPcs
  <2> QED
    BY <1>1, <1>3, <2>1, DriverUse
<1>12. DataInv'
  <2>1. \A c \in Buf : Clean(c)' <=> Clean(c)
    BY <1>1, <1>3 DEF Clean
  <2>2. ASSUME NEW q \in Proc
        PROVE  /\ Requests(q)' /\ Min(idx'[q]) \notin avail' => Clean(mine[q])'
               /\ pc'[q] = "have" /\ op'[q] = "unpin" => Clean(mine[q])'
    <3>1. pc[q] # "idle" => mine[q] \in Buf
      BY Holds
    <3>2. mine[q] \in Buf => (Clean(mine[q])' <=> Clean(mine[q]))
      BY <1>1, <2>1 DEF Clean
    <3>3. pc'[q] = "have" <=> pc[q] = "have"
      BY <1>4
    <3> QED
      BY <1>1, <1>4, <3>1, <3>2, <3>3 DEF Inv, DataInv, Requests
  <2> QED
    BY <1>1, <1>3, <2>1, <2>2 DEF Inv, DataInv
<1> QED
  BY <1>8, <1>9, <1>10, <1>11, <1>12 DEF Inv

\* The chain that a process gets: three free descriptors
LEMMA RwChain ==
  ASSUME Inv, Cardinality(free) >= 3
  PROVE  \E c \in SUBSET free : /\ c = Chain(free) /\ Cardinality(c) = 3 /\ IsFiniteSet(c) /\ c # {}
                                /\ Min(c) \in c /\ Min(c) \in Desc
                                /\ Cardinality(free \ c) = Cardinality(free) - 3
<1> DEFINE c == Chain(free)
<1>1. IsFiniteSet(free) /\ free \subseteq Nat /\ free \subseteq Desc /\ Cardinality(free) \in Nat
  BY OwnersType DEF Inv, RequestsExact
<1>2. c \subseteq free /\ Cardinality(c) = 3
  BY <1>1, FirstThree
<1> HIDE DEF c
<1>3. IsFiniteSet(c) /\ c # {}
  <2>1. IsFiniteSet(c)
    BY <1>1, <1>2, FS_Subset
  <2>2. Cardinality({}) = 0
    BY FS_EmptySet
  <2> QED
    BY <1>2, <2>1, <2>2
<1>4. Min(c) \in c
  BY <1>1, <1>2, <1>3, MinIn
<1>5. Cardinality(free \ c) = Cardinality(free) - 3
  <2>1. Cardinality(free \ c) = Cardinality(free) - Cardinality(free \cap c)
    BY <1>1, <1>3, FS_Difference
  <2>2. free \cap c = c
    BY <1>2
  <2> QED
    BY <1>2, <2>1, <2>2
<1> QED
  BY <1>1, <1>2, <1>3, <1>4, <1>5 DEF c

\* virtio_disk_rw has its descriptors
LEMMA RwGiveInv ==
  ASSUME Inv, NEW p \in Proc, Rw(p), UNCHANGED cacheVars, Cardinality(free) >= 3
  PROVE  Inv'
<1>1. PICK c \in SUBSET free : /\ c = Chain(free) /\ Cardinality(c) = 3 /\ IsFiniteSet(c) /\ c # {}
                               /\ Min(c) \in c /\ Min(c) \in Desc
                               /\ Cardinality(free \ c) = Cardinality(free) - 3
  BY RwChain
<1> PICK h \in Desc : h = Min(c)
  BY <1>1
<1>2. /\ pc[p] = "rw" /\ free' = free \ c /\ idx' = [idx EXCEPT ![p] = c]
      /\ info' = [info EXCEPT ![h] = mine[p]] /\ avail' = avail \cup {h}
      /\ buf' = [buf EXCEPT ![mine[p]].disk = TRUE] /\ pc' = [pc EXCEPT ![p] = "io_sleep"]
      /\ UNCHANGED <<medium, used, mine, write, lru, lock, op, pinned, calls, panic>>
  BY <1>1 DEF Rw, Goto, Chain, cacheVars
<1> PICK b \in Buf : b = mine[p]
  BY <1>2, Holds
<1>3. /\ b = mine[p] /\ lock[b] = p /\ Working(p) /\ h \in c /\ ~Requests(p) /\ idx[p] = {}
      /\ buf \in [Buf -> BufType] /\ TypeOK /\ c # {}
  <2>1. Working(p) /\ ~Requests(p) /\ pc[p] # "idle"
    BY <1>2 DEF Requests, Working, InDriver, DriverPcs
  <2>2. idx[p] = {}
    BY <2>1, ChainFacts
  <2> QED
    BY <1>1, <2>1, <2>2, Holds DEF Inv, RequestsExact
<1>4. /\ \A e \in Buf : /\ buf'[e].block = buf[e].block /\ buf'[e].valid = buf[e].valid
                        /\ buf'[e].data = buf[e].data /\ buf'[e].refcnt = buf[e].refcnt
                        /\ e # b => buf'[e] = buf[e]
      /\ buf'[b].disk = TRUE
      /\ buf' \in [Buf -> BufType]
  BY <1>2, <1>3, ZenonT(40) DEF BufType
<1>5. /\ pc'[p] = "io_sleep" /\ idx'[p] = c /\ info'[h] = b
      /\ \A q \in Proc : q # p => pc'[q] = pc[q] /\ idx'[q] = idx[q]
      /\ \A i \in Desc : i # h => info'[i] = info[i]
  BY <1>2, <1>3 DEF TypeOK, DriverTypeOK
<1>6. TypeOK'
  <2>1. c \subseteq Desc
    BY <1>3 DEF TypeOK, DriverTypeOK
  <2>2. /\ free' \subseteq Desc /\ avail' \subseteq Desc /\ idx' \in [Proc -> SUBSET Desc]
        /\ info' \in [Desc -> Buf \cup {None}]
    BY <1>2, <1>3, <2>1 DEF TypeOK, DriverTypeOK
  <2>3. pc' \in [Proc -> {"idle", "lock", "have", "release"} \cup DriverPcs]
    BY <1>2, <1>3 DEF TypeOK, DriverPcs
  <2> QED
    BY <1>2, <1>3, <1>4, <2>2, <2>3 DEF TypeOK, DriverTypeOK, BufType
<1>7. \A q \in Proc : /\ Requests(q)' <=> q = p \/ Requests(q)
                      /\ Requests(q) => q # p /\ mine[q] \in Buf /\ mine[q] # b /\ Min(idx[q]) \in idx[q]
                                        /\ h \notin idx[q]
  <2>1. \A q \in Proc : h \notin idx[q]
    BY <1>3, ChainFacts
  <2>2. \A q \in Proc : Requests(q) => q # p /\ mine[q] \in Buf /\ mine[q] # b /\ Min(idx[q]) \in idx[q]
    BY <1>3, ChainFacts, Alone DEF Requests, Working, InDriver, DriverPcs
  <2> QED
    BY <1>3, <1>5, <2>1, <2>2 DEF Requests
<1>8. RequestsExact'
  <2>1. ASSUME NEW q \in Proc PROVE idx'[q] \cap free' = {} /\ \A r \in Proc \ {q} : idx'[q] \cap idx'[r] = {}
    <3>1. \A r \in Proc : r # p => idx[r] \cap free = {} /\ idx[r] \cap c = {}
      BY ChainFacts
    <3>2. \A r \in Proc : q # p /\ r # p /\ r # q => idx[q] \cap idx[r] = {}
      BY ChainFacts
    <3> QED
      BY <1>2, <1>5, <3>1, <3>2
  <2>2. Cardinality(free') + 3 * Cardinality({q \in Proc : idx'[q] # {}}) = NUM
    <3>1. {q \in Proc : idx'[q] # {}} = Owners \cup {p} /\ p \notin Owners
      BY <1>3, <1>5 DEF Owners
    <3>2. Cardinality(Owners \cup {p}) = Cardinality(Owners) + 1 /\ Cardinality(Owners) \in Nat
          /\ Cardinality(free) \in Nat
      BY <1>3, <3>1, OwnersType, FS_AddElement
    <3>3. Cardinality(free) + 3 * Cardinality(Owners) = NUM
      BY DEF Inv, RequestsExact, Owners
    <3>4. Cardinality(free') = Cardinality(free) - 3
      BY <1>1, <1>2
    <3>5. Cardinality({q \in Proc : idx'[q] # {}}) = Cardinality(Owners) + 1
      BY <3>1, <3>2
    <3> QED
      BY <3>2, <3>3, <3>4, <3>5
  <2>3. ASSUME NEW i \in avail' \cup ToSet(used')
        PROVE  \E q \in Proc : /\ idx'[q] # {} /\ i = Min(idx'[q]) /\ info'[i] = mine[q]
                               /\ lock[mine[q]] = q /\ buf'[mine[q]].disk /\ pc'[q] = "io_sleep"
    <3>1. CASE i = h
      BY <1>1, <1>3, <1>4, <1>5, <3>1
    <3>2. CASE i # h
      <4>1. PICK q \in Proc : /\ i = Min(idx[q]) /\ i \in idx[q] /\ info[i] = mine[q]
                              /\ lock[mine[q]] = q /\ buf[mine[q]].disk /\ pc[q] = "io_sleep" /\ Requests(q)
        BY <1>2, <2>3, <3>2, HeadOf
      <4>2. i \in Desc
        BY <4>1, ChainFacts
      <4> QED
        BY <1>4, <1>5, <1>7, <3>2, <4>1, <4>2
    <3> QED
      BY <3>1, <3>2
  <2> QED
    BY <1>2, <1>6, <2>1, <2>2, <2>3 DEF RequestsExact
<1>9. DriverWakes'
  <2>1. ASSUME NEW q \in Proc, pc'[q] = "io_sleep" PROVE Min(idx'[q]) \in avail' \cup ToSet(used')
    <3>1. CASE q = p
      BY <1>2, <1>5, <3>1
    <3>2. CASE q # p
      BY <1>2, <1>5, <2>1, <3>2 DEF Inv, DriverWakes
    <3> QED
      BY <3>1, <3>2
  <2>2. idx'[p] # {}
    BY <1>3, <1>5
  <2> QED
    BY <2>1, <2>2 DEF DriverWakes
<1>10. ChainInv'
  <2>1. ASSUME NEW q \in Proc
        PROVE  /\ idx'[q] # {} <=> Requests(q)'
               /\ Requests(q)' => /\ Cardinality(idx'[q]) = 3 /\ info'[Min(idx'[q])] = mine'[q]
                                  /\ buf'[mine'[q]].disk <=> pc'[q] = "io_sleep"
    <3>1. CASE q = p
      BY <1>1, <1>2, <1>3, <1>4, <1>5, <1>7, <3>1
    <3>2. CASE q # p
      <4>1. /\ idx[q] # {} <=> Requests(q)
            /\ Requests(q) => /\ Cardinality(idx[q]) = 3 /\ info[Min(idx[q])] = mine[q] /\ Min(idx[q]) \in Desc
                              /\ (buf[mine[q]].disk <=> pc[q] = "io_sleep")
        BY ChainFacts
      <4> QED
        BY <1>2, <1>4, <1>5, <1>7, <3>2, <4>1
    <3> QED
      BY <3>1, <3>2
  <2>2. h \notin ToSet(used)
    <3>1. h \in free
      BY <1>3
    <3> QED
      BY <3>1, HeadOf
  <2> QED
    BY <1>2, <2>1, <2>2 DEF Inv, ChainInv
<1>11. UseInv'
  <2>1. \A q \in Proc : Alike(q)
    BY <1>2, <1>5 DEF Alike, InDriver, DriverPcs
  <2> QED
    BY <1>2, <1>4, <2>1, DriverUse
<1>12. DataInv'
  <2>1. \A e \in Buf : Clean(e)' <=> Clean(e)
    BY <1>2, <1>4 DEF Clean
  <2>2. ASSUME NEW q \in Proc
        PROVE  /\ Requests(q)' /\ Min(idx'[q]) \notin avail' => Clean(mine[q])'
               /\ pc'[q] = "have" /\ op'[q] = "unpin" => Clean(mine[q])'
    <3>1. CASE q = p
      BY <1>2, <1>5, <3>1
    <3>2. CASE q # p
      <4>1. pc[q] # "idle" => mine[q] \in Buf
        BY Holds
      <4>2. mine[q] \in Buf => (Clean(mine[q])' <=> Clean(mine[q]))
        BY <1>2, <2>1 DEF Clean
      <4> QED
        BY <1>2, <1>5, <1>7, <3>2, <4>1, <4>2 DEF Inv, DataInv, Requests
    <3> QED
      BY <3>1, <3>2
  <2> QED
    BY <1>2, <1>4, <2>1, <2>2 DEF Inv, DataInv
<1> QED
  BY <1>8, <1>9, <1>10, <1>11, <1>12 DEF Inv

\* Some process has a chain if there are not three descriptors left.
LEMMA Short ==
  ASSUME Inv, ~(Cardinality(free) >= 3)
  PROVE  \E q \in Proc : idx[q] # {}
<1>1. SUFFICES ASSUME Owners = {} PROVE FALSE
  BY DEF Owners
<1>2. Cardinality(free) + 3 * Cardinality(Owners) = NUM
  BY DEF Inv, RequestsExact, Owners
<1>3. Cardinality(free) \in Nat
  BY OwnersType DEF Inv, RequestsExact
<1>4. Cardinality(Owners) = 0
  BY <1>1, FS_EmptySet
<1> QED
  BY <1>2, <1>3, <1>4, DiskAssumption

\* virtio_disk_rw must wait
LEMMA RwWaitInv ==
  ASSUME Inv, NEW p \in Proc, Rw(p), UNCHANGED cacheVars, ~(Cardinality(free) >= 3)
  PROVE  Inv'
<1>1. /\ pc[p] = "rw"
      /\ UNCHANGED <<medium, free, idx, info, avail, used, buf, mine, write, lru, lock, op, pinned, calls, panic>>
  BY DEF Rw, cacheVars
<1>2. TypeOK
  BY DEF Inv, RequestsExact
<1>3. /\ pc' \in [Proc -> {"idle", "lock", "have", "release"} \cup DriverPcs]
      /\ \A q \in Proc : pc'[q] = pc[q] \/ (pc[q] \in {"rw", "rw_sleep"} /\ pc'[q] \in {"rw", "rw_sleep"})
  <2>1. CASE free = {}
    <3>1. pc' = [pc EXCEPT ![p] = "rw_sleep"]
      BY <2>1 DEF Rw, Goto
    <3> QED
      BY <1>1, <1>2, <3>1 DEF TypeOK, DriverPcs
  <2>2. CASE free # {}
    <3>1. pc' = [q \in Proc |-> IF q = p THEN "rw_sleep" ELSE IF pc[q] = "rw_sleep" THEN "rw" ELSE pc[q]]
      BY <2>2 DEF Rw, WakeupFree
    <3> QED
      BY <1>1, <1>2, <3>1 DEF TypeOK, DriverPcs
  <2> QED
    BY <2>1, <2>2
<1>4. \A q \in Proc : /\ \A l \in {"io_sleep", "io", "have", "idle"} : pc'[q] = l <=> pc[q] = l
                      /\ Requests(q)' <=> Requests(q)
                      /\ Alike(q)
  BY <1>1, <1>3 DEF Requests, Alike, InDriver, DriverPcs
<1>5. TypeOK'
  BY <1>1, <1>2, <1>3 DEF TypeOK, DriverTypeOK
<1>6. RequestsExact'
  BY <1>1, <1>4, <1>5 DEF Inv, RequestsExact
<1>7. DriverWakes'
  <2>1. \E q \in Proc : idx'[q] # {}
    BY <1>1, Short
  <2> QED
    BY <1>1, <1>4, <2>1 DEF Inv, DriverWakes
<1>8. ChainInv'
  BY <1>1, <1>4 DEF Inv, ChainInv
<1>9. UseInv'
  BY <1>1, <1>4, DriverUse
<1>10. DataInv'
  BY <1>1, <1>4 DEF Inv, DataInv, Clean
<1> QED
  BY <1>6, <1>7, <1>8, <1>9, <1>10 DEF Inv

LEMMA TransferredInv ==
  ASSUME Inv, NEW p \in Proc, Transferred(p)
  PROVE  Inv'
<1> PICK b \in Buf : b = mine[p]
  BY Holds DEF Transferred, RwDone
<1> PICK c \in SUBSET Desc : c = idx[p]
  BY ChainFacts
<1> PICK h \in Desc : h = Min(c)
  BY ChainFacts DEF Transferred, RwDone, Requests
<1>1. /\ pc[p] = "io" /\ ~buf[b].disk /\ free' = free \cup c /\ info' = [info EXCEPT ![h] = None]
      /\ idx' = [idx EXCEPT ![p] = {}] /\ buf' = [buf EXCEPT ![b].valid = TRUE]
      /\ pc' = [q \in Proc |-> IF q = p THEN "have" ELSE IF pc[q] = "rw_sleep" THEN "rw" ELSE pc[q]]
      /\ UNCHANGED <<medium, avail, used, mine, write, lru, lock, op, pinned, calls, panic>>
  BY DEF Transferred, RwDone, WakeupFree, cacheVars
<1>2. /\ TypeOK /\ b = mine[p] /\ c = idx[p] /\ lock[b] = p /\ Working(p) /\ Requests(p)
      /\ h \in c /\ Cardinality(c) = 3 /\ IsFiniteSet(c) /\ c \cap free = {} /\ c # {}
      /\ buf \in [Buf -> BufType] /\ buf[b].block # None
  <2>1. Requests(p) /\ Working(p) /\ pc[p] # "idle"
    BY <1>1 DEF Requests, Working, InDriver, DriverPcs
  <2> QED
    BY <2>1, ChainFacts, Holds DEF Inv, RequestsExact
<1>3. /\ \A e \in Buf : /\ buf'[e].block = buf[e].block /\ buf'[e].disk = buf[e].disk
                        /\ buf'[e].data = buf[e].data /\ buf'[e].refcnt = buf[e].refcnt
                        /\ e # b => buf'[e] = buf[e]
      /\ buf'[b].valid = TRUE
      /\ buf' \in [Buf -> BufType]
  BY <1>1, <1>2 DEF BufType
<1>4. /\ pc'[p] = "have" /\ idx'[p] = {}
      /\ \A q \in Proc : q # p => /\ idx'[q] = idx[q]
                                  /\ pc'[q] = pc[q] \/ (pc[q] = "rw_sleep" /\ pc'[q] = "rw")
      /\ \A i \in Desc : i # h => info'[i] = info[i]
      /\ \A q \in Proc : pc'[q] # "rw_sleep"
      /\ pc' \in [Proc -> {"idle", "lock", "have", "release"} \cup DriverPcs]
  BY <1>1, <1>2 DEF TypeOK, DriverTypeOK, DriverPcs
<1>5. TypeOK'
  <2>1. /\ free' \subseteq Desc /\ idx' \in [Proc -> SUBSET Desc] /\ info' \in [Desc -> Buf \cup {None}]
    BY <1>1, <1>2 DEF TypeOK, DriverTypeOK
  <2> QED
    BY <1>1, <1>2, <1>3, <1>4, <2>1 DEF TypeOK, DriverTypeOK, BufType
<1>6. \A q \in Proc : q # p =>
         /\ Requests(q)' <=> Requests(q)
         /\ pc'[q] = "io_sleep" <=> pc[q] = "io_sleep"
         /\ pc'[q] = "have" <=> pc[q] = "have"
         /\ Working(q) => mine[q] \in Buf /\ mine[q] # b
         /\ Requests(q) => Working(q) /\ Min(idx[q]) \in idx[q] /\ idx[q] \cap c = {} /\ idx[q] \subseteq Desc
         /\ Alike(q)
  <2>1. ASSUME NEW q \in Proc, q # p
        PROVE  /\ Requests(q)' <=> Requests(q)
               /\ pc'[q] = "io_sleep" <=> pc[q] = "io_sleep"
               /\ pc'[q] = "have" <=> pc[q] = "have"
               /\ Requests(q) => Working(q)
               /\ Alike(q)
    BY <1>1, <1>4, <2>1 DEF Requests, Working, InDriver, DriverPcs, Alike
  <2>2. ASSUME NEW q \in Proc, q # p, Working(q) PROVE mine[q] \in Buf /\ mine[q] # b
    BY <1>2, <2>2, Alone, Holds DEF Working, InDriver, DriverPcs
  <2>3. ASSUME NEW q \in Proc, q # p, Requests(q)
        PROVE  Min(idx[q]) \in idx[q] /\ idx[q] \cap c = {} /\ idx[q] \subseteq Desc
    BY <1>2, <2>3, ChainFacts
  <2> QED
    BY <2>1, <2>2, <2>3
\* the device has no longer the request of p
<1>7. h \notin avail
  <2>1. SUFFICES ASSUME h \in avail PROVE FALSE
    OBVIOUS
  <2>2. PICK q \in Proc : pc[q] = "io_sleep" /\ \A r \in Proc : h \in idx[r] => r = q
    BY <2>1, HeadOf
  <2> QED
    BY <1>1, <1>2, <2>2
<1>8. RequestsExact'
  <2>1. ASSUME NEW q \in Proc PROVE idx'[q] \cap free' = {} /\ \A r \in Proc \ {q} : idx'[q] \cap idx'[r] = {}
    <3>1. \A r \in Proc : r # p => idx[r] \cap free = {} /\ idx[r] \cap c = {}
      BY <1>2, ChainFacts
    <3>2. \A r \in Proc : r # q => idx[q] \cap idx[r] = {}
      BY ChainFacts
    <3> QED
      BY <1>1, <1>4, <3>1, <3>2
  <2>2. Cardinality(free') + 3 * Cardinality({q \in Proc : idx'[q] # {}}) = NUM
    <3>1. {q \in Proc : idx'[q] # {}} = Owners \ {p} /\ p \in Owners
      BY <1>2, <1>4 DEF Owners
    <3>2. Cardinality(Owners \ {p}) = Cardinality(Owners) - 1 /\ Cardinality(Owners) \in Nat
      BY <3>1, OwnersType, FS_RemoveElement
    <3>3. Cardinality(free) + 3 * Cardinality(Owners) = NUM
      BY DEF Inv, RequestsExact, Owners
    <3>4. IsFiniteSet(free) /\ Cardinality(free) \in Nat
      BY <1>2, OwnersType
    <3>5. Cardinality(free \cup c) = Cardinality(free) + 3
      <4>1. Cardinality(free \cup c) = Cardinality(free) + Cardinality(c) - Cardinality(free \cap c)
        BY <1>2, <3>4, FS_Union
      <4>2. Cardinality(free \cap c) = 0
        BY <1>2, FS_EmptySet
      <4> QED
        BY <1>2, <3>4, <4>1, <4>2
    <3>6. Cardinality({q \in Proc : idx'[q] # {}}) = Cardinality(Owners) - 1
      BY <3>1, <3>2
    <3>7. Cardinality(free') = Cardinality(free) + 3
      BY <1>1, <3>5
    <3> QED
      BY <3>2, <3>3, <3>4, <3>6, <3>7
  <2>3. ASSUME NEW i \in avail' \cup ToSet(used')
        PROVE  \E q \in Proc : /\ idx'[q] # {} /\ i = Min(idx'[q]) /\ info'[i] = mine[q]
                               /\ lock[mine[q]] = q /\ buf'[mine[q]].disk /\ pc'[q] = "io_sleep"
    <3>1. PICK q \in Proc : /\ i = Min(idx[q]) /\ i \in idx[q] /\ info[i] = mine[q] /\ mine[q] \in Buf
                            /\ lock[mine[q]] = q /\ buf[mine[q]].disk /\ pc[q] = "io_sleep" /\ Requests(q)
      BY <1>1, <2>3, HeadOf
    <3>2. q # p
      BY <1>1, <3>1
    <3>3. i \in Desc /\ i # h
      BY <1>2, <1>6, <3>1, <3>2
    <3> QED
      BY <1>3, <1>4, <1>6, <3>1, <3>2, <3>3
  <2> QED
    BY <1>1, <1>5, <2>1, <2>2, <2>3 DEF RequestsExact
<1>9. DriverWakes'
  <2>1. ASSUME NEW q \in Proc, pc'[q] = "io_sleep" PROVE Min(idx'[q]) \in avail' \cup ToSet(used')
    <3>1. q # p /\ pc[q] = "io_sleep"
      BY <1>4, <1>6, <2>1
    <3> QED
      BY <1>1, <1>4, <3>1 DEF Inv, DriverWakes
  <2> QED
    BY <1>4, <2>1 DEF DriverWakes
<1>10. ChainInv'
  <2>1. ASSUME NEW q \in Proc
        PROVE  /\ idx'[q] # {} <=> Requests(q)'
               /\ Requests(q)' => /\ Cardinality(idx'[q]) = 3 /\ info'[Min(idx'[q])] = mine'[q]
                                  /\ buf'[mine'[q]].disk <=> pc'[q] = "io_sleep"
    <3>1. CASE q = p
      BY <1>4, <3>1 DEF Requests
    <3>2. CASE q # p
      <4>1. /\ idx[q] # {} <=> Requests(q)
            /\ Requests(q) => /\ Cardinality(idx[q]) = 3 /\ info[Min(idx[q])] = mine[q]
                              /\ (buf[mine[q]].disk <=> pc[q] = "io_sleep")
        BY ChainFacts
      <4>2. Requests(q) => Min(idx[q]) \in Desc /\ Min(idx[q]) # h /\ mine[q] \in Buf
        BY <1>2, <1>6, <3>2
      <4> QED
        BY <1>1, <1>3, <1>4, <1>6, <3>2, <4>1, <4>2
    <3> QED
      BY <3>1, <3>2
  <2> QED
    BY <1>1, <2>1 DEF Inv, ChainInv
<1>11. UseInv'
  <2>1. ASSUME NEW q \in Proc PROVE ProcUse(q)'
    <3>1. CASE q = p
      <4>1. ProcUse(p) /\ InDriver(p)
        BY <1>1 DEF Inv, UseInv, InDriver, DriverPcs
      <4>2. ~InDriver(p)' /\ (\A r \in Proc : Installs(r)' <=> Installs(r))
        BY <1>1, <1>4 DEF InDriver, DriverPcs, Installs
      <4>3. /\ mine'[p] = b /\ b # None /\ buf'[b].block # None /\ lock'[b] = p /\ buf'[b].valid
            /\ pc'[p] = "have" /\ op'[p] = op[p] /\ write'[p] = write[p]
        BY <1>1, <1>2, <1>3, <1>4, DiskAssumption
      <4>4. /\ Installs(p)' => pc'[p] # "idle" /\ mine'[p] \in pinned' /\ \A r \in Proc : Installs(r)' => p = r
            /\ op'[p] = "unpin" => write'[p]
            /\ op'[p] = "install" => ~write'[p]
        BY <1>1, <4>1, <4>2, <4>3 DEF ProcUse
      <4> QED
        BY <3>1, <4>2, <4>3, <4>4 DEF ProcUse
    <3>2. CASE q # p
      <4>1. Installs(q) => mine[q] \in pinned'
        BY <1>1 DEF Inv, UseInv, ProcUse
      <4>2. Installs(p)' => Installs(p)
        BY <1>1 DEF Installs
      <4>3. \A r \in Proc : r # p => Alike(r)
        BY <1>6
      <4>4. mine[q] \in Buf => /\ lock'[mine[q]] = q <=> lock[mine[q]] = q
                               /\ buf'[mine[q]].block = buf[mine[q]].block
                               /\ Working(q) => buf'[mine[q]].valid = buf[mine[q]].valid
        BY <1>1, <1>3, <1>6, <3>2
      <4> QED
        BY <3>2, <4>1, <4>2, <4>3, <4>4, OthersAlike
    <3> QED
      BY <3>1, <3>2
  <2>2. ASSUME NEW e \in Buf PROVE BufUse(e)'
    <3>1. UseInv /\ BufUse(e)
      BY DEF Inv, UseInv
    <3>2. buf'[e].refcnt = Counts(e)'
      BY <1>1, <1>3, <3>1, Counted DEF Counts
    <3>3. lock'[e] # None => mine'[lock'[e]] = e
      BY <1>1, <3>1 DEF BufUse
    <3>4. (e \in pinned' => buf'[e].valid) /\ (buf'[e].valid => buf[e].block # None)
      BY <1>1, <1>2, <1>3, <3>1 DEF BufUse
    <3> QED
      BY <1>3, <3>1, <3>2, <3>3, <3>4, BufsUse
  <2> QED
    BY <2>1, <2>2 DEF UseInv
<1>12. DataInv'
  <2>1. \A e \in Buf : Clean(e)' <=> Clean(e)
    BY <1>1, <1>3 DEF Clean
  <2>2. Clean(b)
    BY <1>2, <1>7 DEF Inv, DataInv, Clean
  <2>3. ASSUME NEW e \in Buf, buf'[e].valid, e \notin pinned' PROVE Clean(e)'
    BY <1>1, <1>3, <2>1, <2>2, <2>3 DEF Inv, DataInv
  <2>4. ASSUME NEW q \in Proc
        PROVE  /\ Requests(q)' /\ Min(idx'[q]) \notin avail' => Clean(mine[q])'
               /\ pc'[q] = "have" /\ op'[q] = "unpin" => Clean(mine[q])'
    <3>1. CASE q = p
      BY <1>1, <1>2, <2>1, <2>2, <3>1 DEF Clean
    <3>2. CASE q # p
      <4>1. pc[q] # "idle" => mine[q] \in Buf
        BY Holds
      <4>2. mine[q] \in Buf => (Clean(mine[q])' <=> Clean(mine[q]))
        BY <1>1, <2>1 DEF Clean
      <4>3. (Requests(q) => pc[q] # "idle") /\ (Requests(q)' <=> Requests(q)) /\ (pc'[q] = "have" <=> pc[q] = "have")
        BY <1>6, <3>2 DEF Requests
      <4> QED
        BY <1>1, <1>4, <3>2, <4>1, <4>2, <4>3 DEF Inv, DataInv
    <3> QED
      BY <3>1, <3>2
  <2> QED
    BY <2>3, <2>4 DEF DataInv
<1> QED
  BY <1>8, <1>9, <1>10, <1>11, <1>12 DEF Inv

-----------------------------------------------------------------------------
(* The invariant *)

LEMMA InitInv == Init => Inv
<1> SUFFICES ASSUME Init PROVE Inv
  OBVIOUS
<1>1. PICK d \in Data :
        buf = [b \in Buf |-> [block |-> None, valid |-> FALSE, disk |-> FALSE, refcnt |-> 0, data |-> d]]
  BY DEF Init
<1>2. /\ medium \in [Block -> Data] /\ free = Desc /\ info = [i \in Desc |-> None] /\ avail = {} /\ used = <<>>
      /\ idx = [p \in Proc |-> {}] /\ pc = [p \in Proc |-> "idle"] /\ mine = [p \in Proc |-> None]
      /\ write = [p \in Proc |-> FALSE] /\ lru = SetToSeq(Buf) /\ lock = [b \in Buf |-> None]
      /\ op = [p \in Proc |-> "read"] /\ pinned = {} /\ calls = 0 /\ panic = FALSE
  BY DEF Init, DriverInit
<1>3. \A p \in Proc : pc[p] = "idle" /\ mine[p] = None /\ idx[p] = {} /\ write[p] = FALSE /\ op[p] = "read"
  BY <1>2
<1>4. \A b \in Buf : /\ buf[b].block = None /\ buf[b].valid = FALSE /\ buf[b].refcnt = 0 /\ lock[b] = None
                     /\ b \notin pinned
  BY <1>1, <1>2
<1>5. NUM \in Nat /\ None \notin Proc /\ None \notin Buf /\ None \notin Block /\ Cardinality(Proc) \in Nat
      /\ MaxCalls \in Nat
  BY DiskAssumption, CacheAssumption, FS_CardinalityType
<1>6. TypeOK
  <2>1. lru \in Seq(Buf) /\ Len(lru) = Cardinality(Buf) /\ ToSet(lru) = Buf
    BY <1>2, ListHasAll
  <2>2. buf \in [Buf -> BufType]
    BY <1>1, <1>5 DEF BufType
  <2>3. DriverTypeOK
    BY <1>2 DEF DriverTypeOK
  <2>4. calls \in 0 .. MaxCalls
    BY <1>2, <1>5
  <2> QED
    BY <1>2, <2>1, <2>2, <2>3, <2>4 DEF TypeOK, BufType
<1>7. ToSet(used) = {} /\ DOMAIN used = {}
  BY <1>2 DEF ToSet
<1>8. RequestsExact
  <2>1. Cardinality(free) = NUM
    BY <1>2, <1>5, FS_Interval DEF Desc
  <2>2. Cardinality({p \in Proc : idx[p] # {}}) = 0
    <3>1. {p \in Proc : idx[p] # {}} = {}
      BY <1>3
    <3> QED
      BY <3>1, FS_EmptySet
  <2>3. Cardinality(free) + 3 * Cardinality({p \in Proc : idx[p] # {}}) = NUM
    BY <1>5, <2>1, <2>2
  <2> QED
    BY <1>2, <1>3, <1>6, <1>7, <2>3 DEF RequestsExact
<1>9. DriverWakes
  BY <1>3 DEF DriverWakes
<1>10. UseInv
  <2>1. ASSUME NEW p \in Proc PROVE ProcUse(p)
    BY <1>3 DEF ProcUse, Installs, InDriver, DriverPcs
  <2>2. ASSUME NEW b \in Buf PROVE BufUse(b)
    <3>1. Users(b) = {}
      BY <1>3, <1>5 DEF Users
    <3>2. Cardinality(Users(b)) = 0
      BY <3>1, FS_EmptySet
    <3> QED
      BY <1>4, <3>2 DEF BufUse
  <2> QED
    BY <2>1, <2>2 DEF UseInv
<1>11. ChainInv
  BY <1>2, <1>3, <1>7 DEF ChainInv, Requests
<1>12. DataInv
  BY <1>3, <1>4 DEF DataInv, Requests
<1> QED
  BY <1>8, <1>9, <1>10, <1>11, <1>12 DEF Inv

LEMMA StepInv == Inv /\ [Next]_vars => Inv'
<1> SUFFICES ASSUME Inv, [Next]_vars PROVE Inv'
  OBVIOUS
<1>1. CASE UNCHANGED vars
  <2>1. UNCHANGED <<medium, free, info, avail, used, idx, buf, pc, mine, write, lru, lock, op, pinned, calls, panic>>
    BY <1>1 DEF vars, driverVars, cacheVars
  <2>2. RequestsExact'
    BY <2>1 DEF Inv, RequestsExact, TypeOK, DriverTypeOK
  <2>3. DriverWakes' /\ ChainInv'
    BY <2>1 DEF Inv, DriverWakes, ChainInv, Requests
  <2>4. UseInv' /\ DataInv'
    BY <2>1, SMTT(30) DEF Inv, UseInv, ProcUse, BufUse, DataInv, Installs, InDriver, Users, Clean,
         Requests
  <2> QED
    BY <2>2, <2>3, <2>4 DEF Inv
<1>2. ASSUME NEW p \in Proc, NEW blk \in Block, NEW o \in {"read", "change", "install"}, Bget(p, blk, o)
      PROVE  Inv'
  BY <1>2, BgetInv
<1>3. ASSUME NEW p \in Proc, Bread(p) PROVE Inv'
  BY <1>3, BreadInv
<1>4. ASSUME NEW p \in Proc, Driver(p) PROVE Inv'
  BY <1>4, RwGiveInv, RwWaitInv DEF Driver
<1>5. ASSUME NEW p \in Proc, Transferred(p) PROVE Inv'
  BY <1>5, TransferredInv
<1>6. ASSUME NEW p \in Proc, Release(p) PROVE Inv'
  BY <1>6, ChangeInv, BwriteInv, BunpinInv, BrelseInv, BrelseCountInv DEF Release
<1>7. ASSUME DeviceStep PROVE Inv'
  BY <1>7, IntrInv, DeviceInv DEF DeviceStep
<1> QED
  BY <1>1, <1>2, <1>3, <1>4, <1>5, <1>6, <1>7 DEF Next, Halt

\* The cache and the driver keep their invariant.
THEOREM Invariance == Spec => []Inv
  BY InitInv, StepInv, PTL DEF Spec

\* A descriptor is free or in one chain, and a request finds its own buffer,
\* locked by its process until the interrupt: alloc3_desc that fails half way
\* and several completions in one interrupt included (virtio_disk.c).
THEOREM RequestsFindTheirBuffers == Spec => []RequestsExact
<1>1. Inv => RequestsExact
  BY DEF Inv
<1> QED
  BY <1>1, Invariance, PTL

\* Who sleeps for a descriptor can count on a process that will free some, and
\* who sleeps for a request on the device or the interrupt (virtio_disk_rw).
THEOREM NobodySleepsInVain == Spec => []DriverWakes
<1>1. Inv => DriverWakes
  BY DEF Inv
<1> QED
  BY <1>1, Invariance, PTL

-----------------------------------------------------------------------------
(* The cache implements BlockStore: who uses a block, and what it holds *)

Uses(q, blk) == /\ mine[q] # None /\ buf[mine[q]].block = blk /\ lock[mine[q]] = q
                /\ pc[q] = "have" \/ write[q]
Cached(blk) == {b \in Buf : buf[b].block = blk /\ buf[b].valid}
Seen(blk) == ValueOf(blk)' = ValueOf(blk) /\ UserOf(blk)' = UserOf(blk)

LEMMA UserIs ==
  /\ \A blk, q : q \in UserOf(blk) <=> q \in Proc /\ Uses(q, blk)
  /\ \A blk, q : q \in UserOf(blk)' <=> q \in Proc /\ Uses(q, blk)'
  BY DEF UserOf, Uses

\* A block in the cache has the contents of its buffer, the others those of the disk.
LEMMA ValueIs ==
  ASSUME UseInv, UseInv', NEW blk \in Block
  PROVE  /\ \A b \in Cached(blk) : ValueOf(blk) = buf[b].data
         /\ \A b \in Cached(blk)' : ValueOf(blk)' = buf'[b].data
         /\ Cached(blk) = {} => ValueOf(blk) = medium[blk]
         /\ Cached(blk)' = {} => ValueOf(blk)' = medium'[blk]
<1>0. blk # None
  BY DiskAssumption
<1>1. ASSUME NEW b \in Cached(blk) PROVE Cached(blk) = {b}
  BY <1>0, <1>1 DEF UseInv, BufUse, Cached
<1>2. ASSUME NEW b \in Cached(blk)' PROVE Cached(blk)' = {b}
  BY <1>0, <1>2 DEF UseInv, BufUse, Cached
<1>3. ValueOf(blk) = IF Cached(blk) = {} THEN medium[blk] ELSE buf[CHOOSE b \in Cached(blk) : TRUE].data
  <2>1. Cached(blk) = {b \in Holding(blk) : buf[b].valid}
    BY DEF Cached, Holding
  <2> QED
    BY <2>1 DEF ValueOf
<1>4. ValueOf(blk)' = IF Cached(blk)' = {} THEN medium'[blk] ELSE buf'[CHOOSE b \in Cached(blk)' : TRUE].data
  <2>1. Cached(blk)' = {b \in Holding(blk)' : buf'[b].valid}
    BY DEF Cached, Holding
  <2> QED
    BY <2>1 DEF ValueOf
<1> QED
  BY <1>1, <1>2, <1>3, <1>4

\* A step that leaves the valid buffers of a block alone leaves its contents.
LEMMA SameValue ==
  ASSUME UseInv, UseInv', NEW blk \in Block, medium'[blk] = medium[blk],
         \A b \in Buf : /\ b \in Cached(blk)' <=> b \in Cached(blk)
                        /\ b \in Cached(blk) => buf'[b].data = buf[b].data
  PROVE  ValueOf(blk)' = ValueOf(blk)
<1>1. CASE Cached(blk) = {}
  <2>1. Cached(blk)' = {}
    BY <1>1 DEF Cached
  <2> QED
    BY <1>1, <2>1, ValueIs
<1>2. CASE Cached(blk) # {}
  <2>1. PICK b \in Buf : b \in Cached(blk)
    BY <1>2 DEF Cached
  <2> QED
    BY <2>1, ValueIs
<1> QED
  BY <1>1, <1>2

\* One process uses a block at a time.
LEMMA OneUser ==
  ASSUME Inv, NEW blk \in Block, NEW p \in Proc, Uses(p, blk), NEW q \in Proc, Uses(q, blk)
  PROVE  p = q
<1>1. mine[p] \in Buf /\ mine[q] \in Buf /\ blk # None
  BY DiskAssumption, Holds DEF Uses
<1>2. mine[p] = mine[q]
  BY <1>1 DEF Uses, Inv, UseInv, BufUse
<1> QED
  BY <1>2 DEF Uses

\* Who uses a block when a step of p leaves the other processes alone
LEMMA OtherUsers ==
  ASSUME Inv, NEW p \in Proc, NEW q \in Proc, q # p, NEW blk \in Block,
         Alike(q),
         mine[q] \in Buf => /\ lock'[mine[q]] = q <=> lock[mine[q]] = q
                            /\ buf'[mine[q]].block = buf[mine[q]].block
  PROVE  Uses(q, blk)' <=> Uses(q, blk)
<1>1. mine[q] # None => mine[q] \in Buf
  BY Holds
<1>2. pc'[q] = "have" <=> pc[q] = "have"
  BY DEF Alike, InDriver, DriverPcs
<1>3. mine'[q] = mine[q] /\ write'[q] = write[q]
  BY DEF Alike
<1> QED
  BY <1>1, <1>2, <1>3 DEF Uses

LEMMA BgetSeen ==
  ASSUME Inv, Inv', NEW p \in Proc, NEW k \in Block, NEW o \in {"read", "change", "install"},
         Bget(p, k, o), NEW blk \in Block
  PROVE  Seen(blk)
<1>1. TypeOK /\ UseInv /\ UseInv' /\ UNCHANGED <<medium, write, lock, pinned>> /\ pc[p] = "idle" /\ mine[p] = None
      /\ op' = [op EXCEPT ![p] = o]
  BY DEF Inv, RequestsExact, Bget, UseInv, ProcUse, driverVars
<1>2. CASE UNCHANGED <<buf, mine, pc>>
  <2>1. UserOf(blk)' = UserOf(blk) /\ ValueOf(blk)' = ValueOf(blk)
    BY <1>1, <1>2 DEF UserOf, ValueOf, Holding
  <2> QED
    BY <2>1 DEF Seen
<1>3. ASSUME NEW b \in Buf, Hit(p, b, k) \/ Miss(p, b, k),
             mine' = [mine EXCEPT ![p] = b], pc' = [pc EXCEPT ![p] = "lock"]
      PROVE  Seen(blk)
  <2>1. Given(b, k)
    BY <1>3, BgetBuf
  <2>2. \/ Hit(p, b, k) /\ buf[b].block = k /\ buf'[b].valid = buf[b].valid
        \/ Holding(k) = {} /\ Unused(b) /\ buf'[b].valid = FALSE
    BY <1>3, BgetBuf
  <2>3. /\ \A q \in Proc : q # p => Alike(q)
        /\ mine'[p] = b /\ pc'[p] = "lock"
    BY <1>1, <1>3 DEF TypeOK, Alike
  <2>4. ASSUME NEW q \in Proc PROVE Uses(q, blk)' <=> Uses(q, blk)
    <3>1. CASE q = p
      <4>1. ~Uses(p, blk)
        BY <1>1 DEF Uses
      <4>2. lock[b] # p
        BY <1>1, LockMine, DiskAssumption
      <4> QED
        BY <1>1, <2>3, <3>1, <4>1, <4>2 DEF Uses
    <3>2. CASE q # p
      <4>1. mine[q] \in Buf => buf'[mine[q]].block = buf[mine[q]].block
        BY <2>1, <2>2 DEF Given, Unused
      <4> QED
        BY <1>1, <2>3, <3>2, <4>1, OtherUsers
    <3> QED
      BY <3>1, <3>2
  <2>5. UserOf(blk)' = UserOf(blk)
    BY <2>4, UserIs
  <2>6. ValueOf(blk)' = ValueOf(blk)
    <3>1. CASE b \in Cached(blk) /\ Unused(b) /\ Holding(k) = {}
      <4>1. b \notin pinned /\ buf[b].valid /\ buf[b].block = blk
        BY <3>1 DEF Unused, Cached
      <4>2. Clean(b)
        BY <4>1 DEF Inv, DataInv
      <4>3. ValueOf(blk) = medium[blk]
        BY <1>1, <3>1, <4>1, <4>2, ValueIs DEF Clean
      <4>4. Cached(blk)' = {}
        <5>1. \A c \in Buf : c # b => buf[c].block # blk
          BY <1>1, <4>1, DiskAssumption DEF UseInv, BufUse
        <5>2. k # blk
          BY <3>1, <4>1 DEF Holding
        <5> QED
          BY <2>1, <5>1, <5>2 DEF Given, Cached
      <4> QED
        BY <1>1, <4>3, <4>4, ValueIs
    <3>2. CASE ~(b \in Cached(blk) /\ Unused(b) /\ Holding(k) = {})
      <4>1. ASSUME NEW c \in Buf
            PROVE  /\ c \in Cached(blk)' <=> c \in Cached(blk)
                   /\ c \in Cached(blk) => buf'[c].data = buf[c].data
        BY <2>1, <2>2, <3>2 DEF Given, Cached
      <4> QED
        BY <1>1, <4>1, SameValue
    <3> QED
      BY <3>1, <3>2
  <2> QED
    BY <2>5, <2>6 DEF Seen
<1> QED
  BY <1>1, <1>2, <1>3, BgetChoice

\* bread gives the block to p, brelse takes it back, and p writes it in between.
Gives(p, blk) == /\ UserOf(blk) = {} /\ UserOf(blk)' = {p} /\ ValueOf(blk)' = ValueOf(blk)
Takes(p, blk) == /\ UserOf(blk) = {p} /\ UserOf(blk)' = {} /\ ValueOf(blk)' = ValueOf(blk)
Writes(p, blk) == /\ UserOf(blk) = {p} /\ UserOf(blk)' = {p} /\ ValueOf(blk)' \in Data
Steps == \/ \A blk \in Block : Seen(blk)
         \/ \E p \in Proc, k \in Block : /\ Gives(p, k) \/ Takes(p, k) \/ Writes(p, k)
                                        /\ \A blk \in Block : blk # k => Seen(blk)

LEMMA BreadSeen ==
  ASSUME Inv, Inv', NEW p \in Proc, Bread(p)
  PROVE  Steps
<1> PICK b \in Buf : b = mine[p]
  BY Holds DEF Bread
<1>1. /\ pc[p] = "lock" /\ lock[b] = None /\ lock' = [lock EXCEPT ![b] = p]
      /\ pc' = [pc EXCEPT ![p] = IF buf[b].valid THEN "have" ELSE "rw"]
      /\ UNCHANGED <<medium, buf, mine, write, op>>
      /\ UseInv /\ UseInv' /\ TypeOK /\ b = mine[p] /\ b # None
      /\ lock \in [Buf -> Proc \cup {None}] /\ None \notin Proc
  BY Holds DEF Inv, RequestsExact, Bread, Goto, driverVars
<1> PICK k \in Block : k = buf[b].block
  BY <1>1, Holds
<1>2. \A blk \in Block : ValueOf(blk)' = ValueOf(blk)
  BY <1>1 DEF ValueOf, Holding
<1>3. /\ \A q \in Proc : q # p => Alike(q)
      /\ pc'[p] = (IF buf[b].valid THEN "have" ELSE "rw") /\ lock'[b] = p
      /\ \A c \in Buf : c # b => lock'[c] = lock[c]
      /\ ~write[p]
  BY <1>1 DEF TypeOK, Alike, UseInv, ProcUse
<1>4. ASSUME NEW q \in Proc, q # p, NEW blk \in Block PROVE Uses(q, blk)' <=> Uses(q, blk)
  <2>1. mine[q] \in Buf => /\ lock'[mine[q]] = q <=> lock[mine[q]] = q
                           /\ buf'[mine[q]].block = buf[mine[q]].block
    BY <1>1, <1>3, <1>4
  <2> QED
    BY <1>3, <1>4, <2>1, OtherUsers
<1>5. \A blk \in Block : ~Uses(p, blk) /\ (Uses(p, blk)' <=> blk = k /\ buf[b].valid)
  BY <1>1, <1>3 DEF Uses
<1>6. ASSUME NEW q \in Proc PROVE ~Uses(q, k)
  BY <1>1, DiskAssumption, Holds DEF Uses, UseInv, BufUse
<1>7. CASE buf[b].valid
  <2>1. UserOf(k) = {} /\ UserOf(k)' = {p}
    BY <1>4, <1>5, <1>6, <1>7, UserIs
  <2>2. \A blk \in Block : blk # k => UserOf(blk)' = UserOf(blk)
    BY <1>4, <1>5, UserIs
  <2> QED
    BY <1>2, <2>1, <2>2 DEF Steps, Seen, Gives
<1>8. CASE ~buf[b].valid
  <2>1. \A blk \in Block : UserOf(blk)' = UserOf(blk)
    BY <1>4, <1>5, <1>8, UserIs
  <2> QED
    BY <1>2, <2>1 DEF Steps, Seen
<1> QED
  BY <1>7, <1>8

\* The steps that change neither who has which buffer nor what is valid
LEMMA StillSeen ==
  ASSUME Inv, Inv', UNCHANGED <<medium, mine, lock>>,
         \A q \in Proc : pc'[q] = "have" \/ write'[q] <=> pc[q] = "have" \/ write[q],
         \A c \in Buf : /\ buf'[c].block = buf[c].block /\ buf'[c].valid = buf[c].valid
                        /\ buf'[c].data = buf[c].data
  PROVE  Steps
<1>1. UseInv /\ UseInv'
  BY DEF Inv
<1>2. ASSUME NEW blk \in Block PROVE Seen(blk)
  <2>1. ValueOf(blk)' = ValueOf(blk)
    BY <1>1, SameValue DEF Cached
  <2>2. ASSUME NEW q \in Proc PROVE Uses(q, blk)' <=> Uses(q, blk)
    <3>1. mine[q] # None => mine[q] \in Buf
      BY Holds
    <3> QED
      BY <3>1 DEF Uses
  <2>3. UserOf(blk)' = UserOf(blk)
    BY <2>2, UserIs
  <2> QED
    BY <2>1, <2>3 DEF Seen
<1> QED
  BY <1>2 DEF Steps

LEMMA QuietSeen ==
  ASSUME Inv, Inv', NEW p \in Proc, Driver(p) \/ Bwrite(p) \/ Bunpin(p)
  PROVE  Steps
<1>1. TypeOK /\ buf \in [Buf -> BufType]
  BY Holds DEF Inv, RequestsExact
<1>2. CASE Driver(p)
  <2>1. UNCHANGED <<medium, mine, lock, write>> /\ pc[p] = "rw"
    BY <1>2 DEF Driver, Rw, cacheVars
  <2>2. mine[p] \in Buf
    BY <2>1, Holds
  <2>3. \A c \in Buf : /\ buf'[c].block = buf[c].block /\ buf'[c].valid = buf[c].valid
                       /\ buf'[c].data = buf[c].data
    <3>1. buf' = [buf EXCEPT ![mine[p]].disk = TRUE] \/ buf' = buf
      BY <1>2 DEF Driver, Rw
    <3> QED
      BY <1>1, <2>2, <3>1 DEF BufType
  <2>4. \A q \in Proc : pc'[q] = "have" <=> pc[q] = "have"
    BY <1>1, <1>2, <2>1 DEF Driver, Rw, Goto, WakeupFree, TypeOK
  <2> QED
    BY <2>1, <2>3, <2>4, StillSeen
<1>3. CASE Bwrite(p)
  <2>1. /\ UNCHANGED <<medium, mine, lock, buf>> /\ pc[p] = "have"
        /\ pc' = [pc EXCEPT ![p] = "rw"] /\ write' = [write EXCEPT ![p] = TRUE]
    BY <1>3 DEF Bwrite, Goto, driverVars
  <2>2. \A q \in Proc : pc'[q] = "have" \/ write'[q] <=> pc[q] = "have" \/ write[q]
    BY <1>1, <2>1 DEF TypeOK
  <2> QED
    BY <2>1, <2>2, StillSeen
<1>4. CASE Bunpin(p)
  <2>1. /\ UNCHANGED <<medium, mine, lock, pc, write>> /\ pc[p] = "have"
        /\ buf' = [buf EXCEPT ![mine[p]].refcnt = @ - 1]
    BY <1>4 DEF Bunpin, driverVars
  <2>2. mine[p] \in Buf
    BY <2>1, Holds
  <2>3. \A c \in Buf : /\ buf'[c].block = buf[c].block /\ buf'[c].valid = buf[c].valid
                       /\ buf'[c].data = buf[c].data
    BY <1>1, <2>1, <2>2 DEF BufType
  <2> QED
    BY <2>1, <2>3, StillSeen
<1> QED
  BY <1>2, <1>3, <1>4

LEMMA IntrSeen ==
  ASSUME Inv, Inv', Intr, UNCHANGED cacheVars
  PROVE  Steps
<1>1. /\ UNCHANGED <<medium, mine, lock, write>> /\ buf \in [Buf -> BufType]
      /\ buf' = [b \in Buf |-> IF b \in Finished THEN [buf[b] EXCEPT !.disk = FALSE] ELSE buf[b]]
      /\ pc' = [p \in Proc |-> IF pc[p] = "io_sleep" /\ mine[p] \in Finished THEN "io" ELSE pc[p]]
  BY DEF Intr, cacheVars, Inv, RequestsExact, TypeOK, BufType
<1>2. \A c \in Buf : /\ buf'[c].block = buf[c].block /\ buf'[c].valid = buf[c].valid
                     /\ buf'[c].data = buf[c].data
  BY <1>1 DEF BufType
<1>3. \A q \in Proc : pc'[q] = "have" <=> pc[q] = "have"
  BY <1>1
<1> QED
  BY <1>1, <1>2, <1>3, StillSeen

LEMMA DeviceSeen ==
  ASSUME Inv, Inv', NEW i \in Desc, Device(i), UNCHANGED cacheVars
  PROVE  Steps
<1>1. UNCHANGED <<pc, mine, write, lock>> /\ i \in avail /\ TypeOK /\ UseInv /\ UseInv'
  BY DEF Device, cacheVars, Inv, RequestsExact
<1>2. PICK p \in Proc : /\ i \in idx[p]
                        /\ IF write[p]
                           THEN medium' = [medium EXCEPT ![buf[mine[p]].block] = buf[mine[p]].data] /\ UNCHANGED buf
                           ELSE buf' = [buf EXCEPT ![mine[p]].data = medium[buf[mine[p]].block]] /\ UNCHANGED medium
  BY DEF Device
<1>3. pc[p] = "io_sleep"
  BY <1>1, <1>2, HeadOf
<1> PICK b \in Buf : b = mine[p]
  BY <1>3, Holds
<1> PICK k \in Block : k = buf[b].block
  BY <1>3, Holds
<1>4. (buf[b].valid <=> write[p]) /\ buf \in [Buf -> BufType] /\ b = mine[p] /\ k = buf[b].block
      /\ medium \in [Block -> Data]
  BY <1>1, <1>3, Holds DEF UseInv, ProcUse, InDriver, DriverPcs, TypeOK, DriverTypeOK
<1>5. \A c \in Buf : buf'[c].block = buf[c].block /\ buf'[c].valid = buf[c].valid
  BY <1>2, <1>4 DEF BufType
<1>6. ASSUME NEW blk \in Block PROVE UserOf(blk)' = UserOf(blk)
  <2>1. ASSUME NEW q \in Proc PROVE Uses(q, blk)' <=> Uses(q, blk)
    <3>1. mine[q] # None => mine[q] \in Buf
      BY Holds
    <3> QED
      BY <1>1, <1>5, <3>1 DEF Uses
  <2> QED
    BY <2>1, UserIs
<1>7. ASSUME NEW blk \in Block PROVE ValueOf(blk)' = ValueOf(blk)
  <2>1. CASE write[p] /\ blk = k
    <3>1. b \in Cached(blk) /\ b \in Cached(blk)' /\ buf'[b].data = buf[b].data
      BY <1>2, <1>4, <2>1 DEF Cached
    <3> QED
      BY <1>1, <3>1, ValueIs
  <2>2. CASE ~(write[p] /\ blk = k)
    <3>1. medium'[blk] = medium[blk]
      BY <1>2, <1>4, <2>2
    <3>2. ASSUME NEW c \in Buf
          PROVE  /\ c \in Cached(blk)' <=> c \in Cached(blk)
                 /\ c \in Cached(blk) => buf'[c].data = buf[c].data
      <4>1. c \in Cached(blk)' <=> c \in Cached(blk)
        BY <1>5 DEF Cached
      <4>2. CASE write[p]
        BY <1>2, <4>1, <4>2
      <4>3. CASE ~write[p]
        <5>1. c = b => c \notin Cached(blk)
          BY <1>4, <4>3 DEF Cached
        <5>2. c # b => buf'[c] = buf[c]
          BY <1>2, <1>4, <4>3
        <5> QED
          BY <4>1, <5>1, <5>2
      <4> QED
        BY <4>2, <4>3
    <3> QED
      BY <1>1, <3>1, <3>2, SameValue
  <2> QED
    BY <2>1, <2>2
<1> QED
  BY <1>6, <1>7 DEF Steps, Seen

LEMMA TransferredSeen ==
  ASSUME Inv, Inv', NEW p \in Proc, Transferred(p)
  PROVE  Steps
<1> PICK b \in Buf : b = mine[p]
  BY Holds DEF Transferred, RwDone
<1>1. /\ pc[p] = "io" /\ buf' = [buf EXCEPT ![b].valid = TRUE] /\ b = mine[p] /\ b # None
      /\ pc' = [q \in Proc |-> IF q = p THEN "have" ELSE IF pc[q] = "rw_sleep" THEN "rw" ELSE pc[q]]
      /\ UNCHANGED <<medium, avail, mine, write, lock, op>>
      /\ UseInv /\ UseInv' /\ TypeOK /\ buf \in [Buf -> BufType] /\ Requests(p) /\ InDriver(p)
  BY Holds DEF Transferred, RwDone, WakeupFree, cacheVars, Inv, RequestsExact, Requests,
       InDriver, DriverPcs
<1> PICK k \in Block : k = buf[b].block
  BY <1>1, Holds
<1>2. /\ lock[b] = p /\ k = buf[b].block
      /\ buf[b].valid <=> write[p]
  BY <1>1, ChainFacts DEF UseInv, ProcUse
<1>3. /\ \A c \in Buf : /\ buf'[c].block = buf[c].block /\ buf'[c].data = buf[c].data
                        /\ c # b => buf'[c] = buf[c]
      /\ buf'[b].valid
  BY <1>1 DEF BufType
<1>4. /\ \A q \in Proc : q # p => Alike(q)
      /\ pc'[p] = "have"
  BY <1>1 DEF Alike, InDriver, DriverPcs
<1>5. ASSUME NEW q \in Proc, q # p, NEW blk \in Block PROVE Uses(q, blk)' <=> Uses(q, blk)
  BY <1>1, <1>3, <1>4, <1>5, OtherUsers
<1>6. \A blk \in Block : (Uses(p, blk) <=> blk = k /\ write[p]) /\ (Uses(p, blk)' <=> blk = k)
  BY <1>1, <1>2, <1>3, <1>4 DEF Uses
<1>7. ASSUME NEW q \in Proc, q # p PROVE ~Uses(q, k)
  BY <1>1, <1>2, <1>7, Holds, DiskAssumption DEF Uses, UseInv, BufUse
\* the device has carried out the request
<1>8. Clean(b)
  <2>1. Min(idx[p]) \in idx[p]
    BY <1>1, ChainFacts
  <2>2. Min(idx[p]) \notin avail
    BY <1>1, <2>1, HeadOf
  <2> QED
    BY <1>1, <2>2 DEF Inv, DataInv, Clean
<1>9. ASSUME NEW blk \in Block PROVE ValueOf(blk)' = ValueOf(blk)
  <2>1. CASE blk = k /\ b \notin Cached(blk)
    <3>1. ~buf[b].valid /\ \A c \in Buf : c # b => buf[c].block # blk
      BY <1>1, <1>2, <2>1, DiskAssumption DEF Cached, UseInv, BufUse
    <3>2. Cached(blk) = {}
      BY <3>1 DEF Cached
    <3>3. b \in Cached(blk)' /\ buf'[b].data = buf[b].data
      BY <1>2, <1>3, <2>1 DEF Cached
    <3>4. ValueOf(blk) = medium[blk] /\ ValueOf(blk)' = buf[b].data
      BY <1>1, <3>2, <3>3, ValueIs
    <3> QED
      BY <1>2, <1>8, <2>1, <3>4 DEF Clean
  <2>2. CASE ~(blk = k /\ b \notin Cached(blk))
    <3>1. ASSUME NEW c \in Buf
          PROVE  /\ c \in Cached(blk)' <=> c \in Cached(blk)
                 /\ c \in Cached(blk) => buf'[c].data = buf[c].data
      BY <1>2, <1>3, <2>2 DEF Cached
    <3> QED
      BY <1>1, <3>1, SameValue
  <2> QED
    BY <2>1, <2>2
<1>10. \A blk \in Block : blk # k => Seen(blk)
  <2>1. \A blk \in Block : blk # k => UserOf(blk)' = UserOf(blk)
    BY <1>5, <1>6, UserIs
  <2> QED
    BY <1>9, <2>1 DEF Seen
<1>11. CASE write[p]
  <2>1. UserOf(k)' = UserOf(k)
    BY <1>5, <1>6, <1>11, UserIs
  <2> QED
    BY <1>9, <1>10, <2>1 DEF Seen, Steps
<1>12. CASE ~write[p]
  <2>1. UserOf(k) = {} /\ UserOf(k)' = {p}
    BY <1>5, <1>6, <1>7, <1>12, UserIs
  <2> QED
    BY <1>9, <1>10, <2>1 DEF Gives, Steps
<1> QED
  BY <1>11, <1>12

\* A process that works on its buffer is the one that uses the block.
LEMMA HavingUses ==
  ASSUME Inv, NEW p \in Proc, pc[p] = "have", NEW b \in Buf, b = mine[p], NEW k \in Block, k = buf[b].block
  PROVE  /\ lock[b] = p /\ UserOf(k) = {p}
         /\ \A blk \in Block : Uses(p, blk) <=> blk = k
<1>1. lock[b] = p /\ b # None
  BY Having, DiskAssumption
<1>2. \A blk \in Block : Uses(p, blk) <=> blk = k
  BY <1>1 DEF Uses
<1>3. \A q \in Proc : Uses(q, k) => q = p
  BY <1>2, OneUser
<1> QED
  BY <1>1, <1>2, <1>3, UserIs

LEMMA ChangeSeen ==
  ASSUME Inv, Inv', NEW p \in Proc, Change(p)
  PROVE  Steps
<1> PICK b \in Buf : b = mine[p]
  BY Holds DEF Change
<1>1. PICK d \in Data :
        buf' = [buf EXCEPT ![b].data = d, ![b].refcnt = IF b \in pinned THEN @ ELSE @ + 1]
  BY DEF Change
<1>2. /\ pc[p] = "have" /\ b = mine[p] /\ UNCHANGED <<medium, pc, mine, write, lock>>
      /\ UseInv /\ UseInv' /\ buf \in [Buf -> BufType] /\ buf[b].valid
  BY Holds, Having DEF Change, driverVars, Inv
<1> PICK k \in Block : k = buf[b].block
  BY <1>2, Holds
<1>3. UserOf(k) = {p} /\ \A blk \in Block : Uses(p, blk) <=> blk = k
  BY <1>2, HavingUses
<1>4. /\ \A c \in Buf : /\ buf'[c].block = buf[c].block /\ buf'[c].valid = buf[c].valid
                        /\ c # b => buf'[c] = buf[c]
      /\ buf'[b].data = d
  BY <1>1, <1>2 DEF BufType
<1>5. ASSUME NEW blk \in Block PROVE UserOf(blk)' = UserOf(blk)
  <2>1. ASSUME NEW q \in Proc PROVE Uses(q, blk)' <=> Uses(q, blk)
    <3>1. mine[q] # None => mine[q] \in Buf
      BY Holds
    <3> QED
      BY <1>2, <1>4, <3>1 DEF Uses
  <2> QED
    BY <2>1, UserIs
<1>6. ValueOf(k)' = d
  <2>1. b \in Cached(k)'
    BY <1>2, <1>4 DEF Cached
  <2> QED
    BY <1>2, <1>4, <2>1, ValueIs
<1>7. ASSUME NEW blk \in Block, blk # k PROVE ValueOf(blk)' = ValueOf(blk)
  <2>1. ASSUME NEW c \in Buf
        PROVE  /\ c \in Cached(blk)' <=> c \in Cached(blk)
               /\ c \in Cached(blk) => buf'[c].data = buf[c].data
    BY <1>4, <1>7 DEF Cached
  <2> QED
    BY <1>2, <2>1, SameValue
<1> QED
  BY <1>3, <1>5, <1>6, <1>7 DEF Steps, Seen, Writes

LEMMA BrelseSeen ==
  ASSUME Inv, Inv', NEW p \in Proc, Brelse(p)
  PROVE  Steps
<1> PICK b \in Buf : b = mine[p]
  BY Holds DEF Brelse
<1>1. /\ pc[p] = "have" /\ b = mine[p] /\ lock' = [lock EXCEPT ![b] = None]
      /\ pc' = [pc EXCEPT ![p] = "release"] /\ UNCHANGED <<medium, buf, mine, write, op>>
      /\ TypeOK /\ lock \in [Buf -> Proc \cup {None}] /\ None \notin Proc
  BY Holds DEF Brelse, Goto, driverVars, Inv, RequestsExact
<1> PICK k \in Block : k = buf[b].block
  BY <1>1, Holds
<1>2. lock[b] = p /\ UserOf(k) = {p} /\ \A blk \in Block : Uses(p, blk) <=> blk = k
  BY <1>1, HavingUses
<1>3. /\ \A q \in Proc : q # p => Alike(q)
      /\ lock'[b] = None /\ \A c \in Buf : c # b => lock'[c] = lock[c]
  BY <1>1 DEF TypeOK, Alike
<1>4. ASSUME NEW q \in Proc, q # p, NEW blk \in Block PROVE Uses(q, blk)' <=> Uses(q, blk)
  <2>1. mine[q] \in Buf => /\ lock'[mine[q]] = q <=> lock[mine[q]] = q
                           /\ buf'[mine[q]].block = buf[mine[q]].block
    BY <1>1, <1>2, <1>3, <1>4
  <2> QED
    BY <1>3, <1>4, <2>1, OtherUsers
<1>5. \A blk \in Block : ~Uses(p, blk)'
  BY <1>1, <1>3 DEF Uses
<1>6. \A blk \in Block : ValueOf(blk)' = ValueOf(blk)
  BY <1>1 DEF ValueOf, Holding
<1>7. UserOf(k)' = {}
  <2>1. \A q \in Proc : q # p => ~Uses(q, k)
    BY <1>2, UserIs
  <2> QED
    BY <1>4, <1>5, <2>1, UserIs
<1>8. ASSUME NEW blk \in Block, blk # k PROVE UserOf(blk)' = UserOf(blk)
  <2>1. ASSUME NEW q \in Proc PROVE Uses(q, blk)' <=> Uses(q, blk)
    BY <1>2, <1>4, <1>5, <1>8
  <2> QED
    BY <2>1, UserIs
<1> QED
  BY <1>2, <1>6, <1>7, <1>8 DEF Steps, Seen, Takes

LEMMA BrelseCountSeen ==
  ASSUME Inv, Inv', NEW p \in Proc, BrelseCount(p)
  PROVE  Steps
<1> PICK b \in Buf : b = mine[p]
  BY Holds DEF BrelseCount
<1>1. /\ pc[p] = "release" /\ b = mine[p] /\ buf' = [buf EXCEPT ![b].refcnt = @ - 1]
      /\ mine' = [mine EXCEPT ![p] = None] /\ write' = [write EXCEPT ![p] = FALSE]
      /\ pc' = [pc EXCEPT ![p] = "idle"] /\ UNCHANGED <<medium, lock, op>>
      /\ TypeOK /\ UseInv /\ UseInv' /\ buf \in [Buf -> BufType] /\ lock[b] # p
  BY Holds DEF BrelseCount, Goto, driverVars, Inv, RequestsExact, Working, InDriver,
       DriverPcs
<1>2. /\ \A q \in Proc : q # p => Alike(q)
      /\ mine'[p] = None
  BY <1>1 DEF TypeOK, Alike
<1>3. \A c \in Buf : /\ buf'[c].block = buf[c].block /\ buf'[c].valid = buf[c].valid
                     /\ buf'[c].data = buf[c].data
  BY <1>1 DEF BufType
<1>4. ASSUME NEW blk \in Block PROVE Seen(blk)
  <2>1. ValueOf(blk)' = ValueOf(blk)
    BY <1>1, <1>3, SameValue DEF Cached
  <2>2. ASSUME NEW q \in Proc PROVE Uses(q, blk)' <=> Uses(q, blk)
    <3>1. CASE q = p
      BY <1>1, <1>2, <3>1 DEF Uses
    <3>2. CASE q # p
      BY <1>1, <1>2, <1>3, <3>2, OtherUsers
    <3> QED
      BY <3>1, <3>2
  <2>3. UserOf(blk)' = UserOf(blk)
    BY <2>2, UserIs
  <2> QED
    BY <2>1, <2>3 DEF Seen
<1> QED
  BY <1>4 DEF Steps

LEMMA StepSeen == Inv /\ Inv' /\ [Next]_vars => Steps
<1> SUFFICES ASSUME Inv, Inv', [Next]_vars PROVE Steps
  OBVIOUS
<1>1. CASE UNCHANGED vars
  BY <1>1, StillSeen DEF vars, driverVars, cacheVars
<1>2. ASSUME NEW p \in Proc, NEW blk \in Block, NEW o \in {"read", "change", "install"}, Bget(p, blk, o)
      PROVE  Steps
  BY <1>2, BgetSeen DEF Steps
<1>3. ASSUME NEW p \in Proc, Bread(p) PROVE Steps
  BY <1>3, BreadSeen
<1>4. ASSUME NEW p \in Proc, Driver(p) PROVE Steps
  BY <1>4, QuietSeen
<1>5. ASSUME NEW p \in Proc, Transferred(p) PROVE Steps
  BY <1>5, TransferredSeen
<1>6. ASSUME NEW p \in Proc, Release(p) PROVE Steps
  BY <1>6, ChangeSeen, QuietSeen, BrelseSeen, BrelseCountSeen DEF Release
<1>7. ASSUME DeviceStep PROVE Steps
  BY <1>7, IntrSeen, DeviceSeen DEF DeviceStep
<1> QED
  BY <1>1, <1>2, <1>3, <1>4, <1>5, <1>6, <1>7 DEF Next, Halt

TheOnly(S) == IF S = {} THEN None ELSE CHOOSE p \in S : TRUE
User(blk) == TheOnly(UserOf(blk))
Values == [blk \in Block |-> ValueOf(blk)]
UserMap == [blk \in Block |-> User(blk)]

LEMMA SeenBy ==
  ASSUME NEW blk \in Block, Seen(blk)
  PROVE  Values'[blk] = Values[blk] /\ UserMap'[blk] = UserMap[blk]
<1>1. UserOf(blk)' = UserOf(blk) /\ ValueOf(blk)' = ValueOf(blk)
  BY DEF Seen
<1>2. User(blk)' = User(blk)
  BY <1>1 DEF User
<1> QED
  BY <1>1, <1>2 DEF Values, UserMap

\* Whatever is recycled, read and written in between, two processes never use
\* a block at once, and what one writes the next one sees (kernel/bio.c).
THEOREM BlockStoreRefinement == Spec => ImplementsBlockStore
<1>1. Init => Promise!Init
  <2> SUFFICES ASSUME Init PROVE Promise!Init
    OBVIOUS
  <2>1. Inv
    BY InitInv
  <2>2. medium \in [Block -> Data]
    BY <2>1 DEF Inv, RequestsExact, TypeOK, DriverTypeOK
  <2>3. ASSUME NEW blk \in Block PROVE ValueOf(blk) = medium[blk] /\ UserOf(blk) = {}
    <3>1. {b \in Holding(blk) : buf[b].valid} = {}
      BY DEF Init, Holding
    <3>2. UserOf(blk) = {}
      BY DEF Init, UserOf
    <3> QED
      BY <3>1, <3>2 DEF ValueOf
  <2> QED
    BY <2>2, <2>3 DEF Promise!Init
<1>2. Inv /\ Inv' /\ [Next]_vars => [Promise!Next]_(Promise!vars)
  <2> SUFFICES ASSUME Steps PROVE [Promise!Next]_(Promise!vars)
    BY StepSeen
  <2>1. CASE \A blk \in Block : Seen(blk)
    <3>1. Values' = Values /\ UserMap' = UserMap
      BY <2>1, SeenBy DEF Values, UserMap
    <3> QED
      BY <3>1 DEF Promise!vars, Values, UserMap, User, TheOnly
  <2>2. ASSUME NEW p \in Proc, NEW k \in Block, Gives(p, k) \/ Takes(p, k) \/ Writes(p, k),
               \A blk \in Block : blk # k => Seen(blk)
        PROVE  Promise!Next
    <3>1. \A blk \in Block : blk # k => Values'[blk] = Values[blk] /\ UserMap'[blk] = UserMap[blk]
      BY <2>2, SeenBy
    <3>2. /\ Values'[k] = ValueOf(k)' /\ Values[k] = ValueOf(k)
          /\ UserOf(k) = {} => UserMap[k] = None
          /\ UserOf(k)' = {} => UserMap'[k] = None
          /\ UserOf(k) = {p} => UserMap[k] = p
          /\ UserOf(k)' = {p} => UserMap'[k] = p
      BY DEF Values, UserMap, User, TheOnly
    <3>3. /\ Values' = [Values EXCEPT ![k] = ValueOf(k)']
          /\ UserMap' = [UserMap EXCEPT ![k] = UserMap'[k]]
      <4>1. Values' = [blk \in Block |-> Values'[blk]] /\ UserMap' = [blk \in Block |-> UserMap'[blk]]
            /\ Values = [blk \in Block |-> Values[blk]] /\ UserMap = [blk \in Block |-> UserMap[blk]]
        BY DEF Values, UserMap
      <4> QED
        BY <3>1, <3>2, <4>1
    <3>4. CASE Gives(p, k)
      <4>1. /\ UserMap[k] = None /\ UserMap' = [UserMap EXCEPT ![k] = p] /\ Values' = Values
        BY <3>2, <3>3, <3>4 DEF Gives, Values
      <4> QED
        BY <4>1 DEF Promise!Next, Promise!Acquire, Values, UserMap, User, TheOnly
    <3>5. CASE Takes(p, k)
      <4>1. /\ UserMap[k] = p /\ UserMap' = [UserMap EXCEPT ![k] = None] /\ Values' = Values
        BY <3>2, <3>3, <3>5 DEF Takes, Values
      <4> QED
        BY <4>1 DEF Promise!Next, Promise!Release, Values, UserMap, User, TheOnly
    <3>6. CASE Writes(p, k)
      <4>1. /\ UserMap[k] = p /\ UserMap' = UserMap
            /\ \E d \in Data : Values' = [Values EXCEPT ![k] = d]
        <5>1. UserMap[k] = p /\ UserMap'[k] = p
          BY <3>2, <3>6 DEF Writes
        <5>2. UserMap' = UserMap
          BY <3>3, <5>1 DEF UserMap
        <5> QED
          BY <3>3, <3>6, <5>1, <5>2 DEF Writes
      <4> QED
        BY <4>1 DEF Promise!Next, Promise!Write, Values, UserMap, User, TheOnly
    <3> QED
      BY <2>2, <3>4, <3>5, <3>6
  <2> QED
    BY <2>1, <2>2 DEF Steps
<1> QED
  BY <1>1, <1>2, Invariance, PTL DEF Spec, ImplementsBlockStore, Promise!Spec

=============================================================================
