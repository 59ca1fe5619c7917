------------------------------ MODULE Log_proof ------------------------------
(***************************************************************************)
(* Proofs about Log for any number of processes and blocks and any sizes   *)
(* of the log: it implements AtomicDisk, through crashes at every write,   *)
(* and the space that begin_op reserves is enough up to the last block.     *)
(***************************************************************************)
EXTENDS Log, FiniteSetTheorems, TLAPS

USE DEF Goto, diskVars, logVars, procVars

-----------------------------------------------------------------------------
(* Counting the operations *)

\* The processes inside at least one, and inside two, begin_ops
Inside(d) == {p \in Proc : d[p] > 0}
Twice(d) == {p \in Proc : d[p] = 2}
Counted(o, d) == o = Cardinality(Inside(d)) + Cardinality(Twice(d))

\* Sets of processes are finite.
LEMMA ProcFinite ==
  ASSUME NEW S \in SUBSET Proc
  PROVE  IsFiniteSet(S) /\ Cardinality(S) \in Nat /\ Cardinality(S) <= Cardinality(Proc)
  BY LogAssumption, FS_Subset, FS_CardinalityType

\* outstanding has its type.
LEMMA CountType ==
  ASSUME NEW d
  PROVE  /\ Cardinality(Inside(d)) + Cardinality(Twice(d)) \in 0 .. 2 * Cardinality(Proc)
         /\ Cardinality(Inside(d)) \in Nat /\ Cardinality(Twice(d)) \in Nat
<1>1. Inside(d) \subseteq Proc /\ Twice(d) \subseteq Proc
  BY DEF Inside, Twice
<1>2. Cardinality(Proc) \in Nat
  BY LogAssumption, FS_CardinalityType
<1> QED
  BY <1>1, <1>2, ProcFinite

\* Who is inside an operation is counted.
LEMMA CountPositive ==
  ASSUME NEW d, NEW p \in Proc, d[p] > 0
  PROVE  Cardinality(Inside(d)) > 0
<1>1. Inside(d) \subseteq Proc /\ Inside(d) # {}
  BY DEF Inside
<1> QED
  BY <1>1, ProcFinite, FS_EmptySet

\* One more begin_op, one more to count.
LEMMA CountUp ==
  ASSUME NEW d \in [Proc -> 0 .. 2], NEW p \in Proc, d[p] < 2,
         NEW e, e = [d EXCEPT ![p] = @ + 1]
  PROVE  Cardinality(Inside(e)) + Cardinality(Twice(e)) =
           Cardinality(Inside(d)) + Cardinality(Twice(d)) + 1
<1>1. CASE d[p] = 0
  <2>1. Inside(e) = Inside(d) \cup {p} /\ p \notin Inside(d) /\ Twice(e) = Twice(d)
    BY <1>1 DEF Inside, Twice
  <2>2. IsFiniteSet(Inside(d))
    BY ProcFinite DEF Inside
  <2>3. Cardinality(Inside(e)) = Cardinality(Inside(d)) + 1
    BY <2>1, <2>2, FS_AddElement
  <2> QED
    BY <2>1, <2>3, CountType
<1>2. CASE d[p] = 1
  <2>1. Twice(e) = Twice(d) \cup {p} /\ p \notin Twice(d) /\ Inside(e) = Inside(d)
    BY <1>2 DEF Inside, Twice
  <2>2. IsFiniteSet(Twice(d))
    BY ProcFinite DEF Twice
  <2>3. Cardinality(Twice(e)) = Cardinality(Twice(d)) + 1
    BY <2>1, <2>2, FS_AddElement
  <2> QED
    BY <2>1, <2>3, CountType
<1> QED
  BY <1>1, <1>2

\* One end_op, one less.
LEMMA CountDown ==
  ASSUME NEW d \in [Proc -> 0 .. 2], NEW p \in Proc, d[p] > 0,
         NEW e, e = [d EXCEPT ![p] = @ - 1]
  PROVE  Cardinality(Inside(e)) + Cardinality(Twice(e)) =
           Cardinality(Inside(d)) + Cardinality(Twice(d)) - 1
<1>0. d[p] - 1 \in 0 .. 1 /\ (d[p] - 1) + 1 = d[p]
  OBVIOUS
<1>1. e \in [Proc -> 0 .. 2] /\ e[p] < 2 /\ e[p] + 1 = d[p]
  BY <1>0
<1>a. d = [e EXCEPT ![p] = @ + 1]
  BY <1>0, <1>1
<1>2. Cardinality(Inside(d)) + Cardinality(Twice(d)) =
           Cardinality(Inside(e)) + Cardinality(Twice(e)) + 1
  BY <1>1, <1>a, CountUp
<1> QED
  BY <1>2, CountType

LEMMA CountedDown ==
  ASSUME NEW d \in [Proc -> 0 .. 2], NEW p \in Proc, d[p] > 0,
         NEW e, e = [d EXCEPT ![p] = d[p] - 1], NEW o \in Int, NEW u, u = o - 1, Counted(o, d)
  PROVE  Counted(u, e)
<1>1. Cardinality(Inside(e)) + Cardinality(Twice(e)) =
           Cardinality(Inside(d)) + Cardinality(Twice(d)) - 1
  BY CountDown
<1>2. o = Cardinality(Inside(d)) + Cardinality(Twice(d))
  BY DEF Counted
<1>3. u = Cardinality(Inside(e)) + Cardinality(Twice(e))
  BY <1>1, <1>2, CountType
<1> QED
  BY <1>3 DEF Counted

\* During a commit nobody is inside an operation; outside of one none commits.
LEMMA NobodyInside ==
  ASSUME TypeOK, OpsInv, NEW p \in Proc
  PROVE  /\ depth[p] > 0 => outstanding > 0 /\ ~committing /\ \A q \in Proc : ~Committing(q)
         /\ outstanding = 0 => depth[p] = 0
<1>1. outstanding = Cardinality(Inside(depth)) + Cardinality(Twice(depth))
  BY DEF OpsInv, Inside, Twice
<1>2. depth[p] > 0 => outstanding > 0
  BY <1>1, CountPositive, CountType
<1> QED
  BY <1>2 DEF OpsInv, TypeOK


\* The two sums of OpsInv, one step later
LEMMA NextCount == RedoInv /\ [Next]_vars => Counted(outstanding', depth')
<1> SUFFICES ASSUME RedoInv, [Next]_vars PROVE Counted(outstanding', depth')
  OBVIOUS
<1>0. Counted(outstanding, depth) /\ depth \in [Proc -> 0 .. 2] /\ outstanding \in Int
  BY DEF RedoInv, OpsInv, TypeOK, Inside, Twice, Counted
<1> USE DEF Counted
<1>1. CASE UNCHANGED vars
  BY <1>0, <1>1 DEF vars
<1>2. ASSUME NEW p \in Proc, Call(p) PROVE Counted(outstanding', depth')
  <2>1. UNCHANGED <<outstanding, depth>>
    BY <1>2, SMT DEF Call
  <2> QED
    BY <1>0, <2>1
<1>3. ASSUME NEW p \in Proc, Begin(p) PROVE Counted(outstanding', depth')
  <2>1. depth[p] < 2
    BY <1>3 DEF Begin, RedoInv, OpsInv
  <2>2. depth' = [depth EXCEPT ![p] = depth[p] + 1] /\ outstanding' = outstanding + 1
    BY <1>3 DEF Begin
  <2> QED
    BY <1>0, <2>1, <2>2, CountUp
<1>4. ASSUME NEW p \in Proc, BeginSleep(p) PROVE Counted(outstanding', depth')
  <2>1. UNCHANGED <<outstanding, depth>>
    BY <1>4, SMT DEF BeginSleep
  <2> QED
    BY <1>0, <2>1
<1>5. ASSUME NEW p \in Proc, NEW b \in Block, NEW d \in Data, LogWrite(p, b, d) PROVE Counted(outstanding', depth')
  <2>1. UNCHANGED <<outstanding, depth>>
    BY <1>5, SMT DEF LogWrite
  <2> QED
    BY <1>0, <2>1
<1>6. ASSUME NEW p \in Proc, EndOp(p) PROVE Counted(outstanding', depth')
  <2>1. depth[p] > 0
    BY <1>6 DEF EndOp, RedoInv, OpsInv
  <2>2. depth' = [depth EXCEPT ![p] = depth[p] - 1] /\ outstanding' = outstanding - 1
    BY <1>6 DEF EndOp
  <2> HIDE DEF Counted
  <2> QED
    BY <1>0, <2>1, <2>2, CountedDown
<1>7. ASSUME NEW p \in Proc, Commit(p) PROVE Counted(outstanding', depth')
  <2>1. UNCHANGED <<outstanding, depth>>
    BY <1>7, SMT DEF Commit
  <2> QED
    BY <1>0, <2>1
<1>8. ASSUME NEW p \in Proc, WriteLog(p) PROVE Counted(outstanding', depth')
  <2>1. UNCHANGED <<outstanding, depth>>
    BY <1>8, SMT DEF WriteLog
  <2> QED
    BY <1>0, <2>1
<1>9. ASSUME NEW p \in Proc, WriteHead(p) PROVE Counted(outstanding', depth')
  <2>1. UNCHANGED <<outstanding, depth>>
    BY <1>9, SMT DEF WriteHead
  <2> QED
    BY <1>0, <2>1
<1>10. ASSUME NEW p \in Proc, Install(p) PROVE Counted(outstanding', depth')
  <2>1. UNCHANGED <<outstanding, depth>>
    BY <1>10, SMT DEF Install, InstallBlock
  <2> QED
    BY <1>0, <2>1
<1>11. ASSUME NEW p \in Proc, Clear(p) PROVE Counted(outstanding', depth')
  <2>1. UNCHANGED <<outstanding, depth>>
    BY <1>11, SMT DEF Clear
  <2> QED
    BY <1>0, <2>1
<1>12. ASSUME NEW p \in Proc, Committed(p) PROVE Counted(outstanding', depth')
  <2>1. UNCHANGED <<outstanding, depth>>
    BY <1>12, SMT DEF Committed, WakeupAndGoto
  <2> QED
    BY <1>0, <2>1
<1>13. ASSUME NEW b \in Block, Recycle(b) PROVE Counted(outstanding', depth')
  <2>1. UNCHANGED <<outstanding, depth>>
    BY <1>13, SMT DEF Recycle
  <2> QED
    BY <1>0, <2>1
<1>14. ASSUME Crash PROVE Counted(outstanding', depth')
  <2>1. Inside(depth') = {} /\ Twice(depth') = {} /\ outstanding' = 0
    BY <1>14 DEF Crash, PowerOn, Inside, Twice
  <2> QED
    BY <2>1, FS_EmptySet
<1>15. ASSUME ReadHead PROVE Counted(outstanding', depth')
  <2>1. UNCHANGED <<outstanding, depth>>
    BY <1>15, SMT DEF ReadHead
  <2> QED
    BY <1>0, <2>1
<1>16. ASSUME RecoverInstall PROVE Counted(outstanding', depth')
  <2>1. UNCHANGED <<outstanding, depth>>
    BY <1>16, SMT DEF RecoverInstall, InstallBlock
  <2> QED
    BY <1>0, <2>1
<1>17. ASSUME RecoverClear PROVE Counted(outstanding', depth')
  <2>1. UNCHANGED <<outstanding, depth>>
    BY <1>17, SMT DEF RecoverClear
  <2> QED
    BY <1>0, <2>1
<1> QED
  BY <1>1, <1>2, <1>3, <1>4, <1>5, <1>6, <1>7, <1>8, <1>9, <1>10, <1>11, <1>12, <1>13,
      <1>14, <1>15, <1>16, <1>17 DEF Next, CommitStep, InitLog

-----------------------------------------------------------------------------
(* The parts of the invariant *)


\* Every step keeps the types; a transaction has no more blocks than lh has room for.
LEMMA NextType == RedoInv /\ [Next]_vars => TypeOK'
<1> SUFFICES ASSUME RedoInv, [Next]_vars PROVE TypeOK'
  OBVIOUS
<1> USE LogAssumption DEF RedoInv
<1>0. outstanding' \in 0 .. 2 * Cardinality(Proc)
  BY NextCount, CountType DEF Counted, RedoInv
<1>1. CASE UNCHANGED vars
  BY <1>1 DEF vars, TypeOK, CommitPcs, Slots
<1>2. ASSUME NEW p \in Proc, Call(p) PROVE TypeOK'
  <2>1. disk' \in [Block -> Data] /\ logged' \in [Slots -> Data] /\ head' \in Seq(Block) /\ Len(head') <= LOGSIZE
    BY <1>2, SMT DEF Call, TypeOK, Slots
  <2>2. buf' \in [Block -> Data \cup {None}] /\ pin' \in [Block -> 0 .. 1]
    BY <1>2, SMT DEF Call, TypeOK, Slots
  <2>3. lh' \in Seq(Block) /\ Len(lh') <= LOGSIZE
    BY <1>2, SMT DEF Call, TypeOK
  <2>4. pc' \in [Proc -> {"idle", "begin", "sleep", "op", "panic"} \cup CommitPcs] /\ committing' \in BOOLEAN
    BY <1>2, SMT DEF Call, TypeOK, CommitPcs
  <2>5. depth' \in [Proc -> 0 .. 2] /\ written' \in [Proc -> SUBSET Block]
    BY <1>2, SMT DEF Call, TypeOK
  <2>6. tail' \in 0 .. LOGSIZE /\ boot' \in {"read_head", "install", "clear", "up"}
    BY <1>2, SMT DEF Call, TypeOK
  <2> QED
    BY <1>0, <2>1, <2>2, <2>3, <2>4, <2>5, <2>6 DEF TypeOK
<1>3. ASSUME NEW p \in Proc, Begin(p) PROVE TypeOK'
  <2>1. disk' \in [Block -> Data] /\ logged' \in [Slots -> Data] /\ head' \in Seq(Block) /\ Len(head') <= LOGSIZE
    BY <1>3, SMT DEF Begin, TypeOK, Slots
  <2>2. buf' \in [Block -> Data \cup {None}] /\ pin' \in [Block -> 0 .. 1]
    BY <1>3, SMT DEF Begin, TypeOK, Slots
  <2>3. lh' \in Seq(Block) /\ Len(lh') <= LOGSIZE
    BY <1>3, SMT DEF Begin, TypeOK
  <2>4. pc' \in [Proc -> {"idle", "begin", "sleep", "op", "panic"} \cup CommitPcs] /\ committing' \in BOOLEAN
    BY <1>3, SMT DEF Begin, TypeOK, CommitPcs
  <2>5. depth' \in [Proc -> 0 .. 2] /\ written' \in [Proc -> SUBSET Block]
    BY <1>3, SMT DEF Begin, TypeOK, OpsInv
  <2>6. tail' \in 0 .. LOGSIZE /\ boot' \in {"read_head", "install", "clear", "up"}
    BY <1>3, SMT DEF Begin, TypeOK
  <2> QED
    BY <1>0, <2>1, <2>2, <2>3, <2>4, <2>5, <2>6 DEF TypeOK
<1>4. ASSUME NEW p \in Proc, BeginSleep(p) PROVE TypeOK'
  <2>1. disk' \in [Block -> Data] /\ logged' \in [Slots -> Data] /\ head' \in Seq(Block) /\ Len(head') <= LOGSIZE
    BY <1>4, SMT DEF BeginSleep, TypeOK, Slots
  <2>2. buf' \in [Block -> Data \cup {None}] /\ pin' \in [Block -> 0 .. 1]
    BY <1>4, SMT DEF BeginSleep, TypeOK, Slots
  <2>3. lh' \in Seq(Block) /\ Len(lh') <= LOGSIZE
    BY <1>4, SMT DEF BeginSleep, TypeOK
  <2>4. pc' \in [Proc -> {"idle", "begin", "sleep", "op", "panic"} \cup CommitPcs] /\ committing' \in BOOLEAN
    BY <1>4, SMT DEF BeginSleep, TypeOK, CommitPcs
  <2>5. depth' \in [Proc -> 0 .. 2] /\ written' \in [Proc -> SUBSET Block]
    BY <1>4, SMT DEF BeginSleep, TypeOK
  <2>6. tail' \in 0 .. LOGSIZE /\ boot' \in {"read_head", "install", "clear", "up"}
    BY <1>4, SMT DEF BeginSleep, TypeOK
  <2> QED
    BY <1>0, <2>1, <2>2, <2>3, <2>4, <2>5, <2>6 DEF TypeOK
<1>5. ASSUME NEW p \in Proc, NEW b \in Block, NEW d \in Data, LogWrite(p, b, d) PROVE TypeOK'
  <2>1. disk' \in [Block -> Data] /\ logged' \in [Slots -> Data] /\ head' \in Seq(Block) /\ Len(head') <= LOGSIZE
    BY <1>5, SMT DEF LogWrite, TypeOK, Slots
  <2>2. buf' \in [Block -> Data \cup {None}] /\ pin' \in [Block -> 0 .. 1]
    <3>1. boot = "up" /\ ~committing /\ \A q \in Proc : pc[q] # "install"
      BY <1>5, NobodyInside DEF LogWrite, OpsInv, Committing, CommitPcs
    <3>2. b \notin InLog(lh) => pin[b] = 0
      BY <3>1 DEF CacheInv, InLog, TypeOK
    <3> QED
      BY <1>5, <3>2, SMTT(30) DEF LogWrite, TypeOK
  <2>3. lh' \in Seq(Block) /\ Len(lh') <= LOGSIZE
    <3>1. ASSUME lh' = Append(lh, b), ~LogFull PROVE lh' \in Seq(Block) /\ Len(lh') <= LOGSIZE
      BY <3>1, SMT DEF LogFull, TypeOK
    <3> QED
      BY <1>5, <3>1, SMT DEF LogWrite, TypeOK
  <2>4. pc' \in [Proc -> {"idle", "begin", "sleep", "op", "panic"} \cup CommitPcs] /\ committing' \in BOOLEAN
    BY <1>5, SMT DEF LogWrite, TypeOK, CommitPcs
  <2>5. depth' \in [Proc -> 0 .. 2] /\ written' \in [Proc -> SUBSET Block]
    <3>1. written' \in {written, [written EXCEPT ![p] = written[p] \cup {b}]} /\ depth' = depth
      BY <1>5 DEF LogWrite
    <3> QED
      BY <3>1 DEF TypeOK
  <2>6. tail' \in 0 .. LOGSIZE /\ boot' \in {"read_head", "install", "clear", "up"}
    BY <1>5, SMT DEF LogWrite, TypeOK
  <2> QED
    BY <1>0, <2>1, <2>2, <2>3, <2>4, <2>5, <2>6 DEF TypeOK
<1>6. ASSUME NEW p \in Proc, EndOp(p) PROVE TypeOK'
  <2>1. disk' \in [Block -> Data] /\ logged' \in [Slots -> Data] /\ head' \in Seq(Block) /\ Len(head') <= LOGSIZE
    BY <1>6, SMT DEF EndOp, WakeupAndGoto, TypeOK, Slots
  <2>2. buf' \in [Block -> Data \cup {None}] /\ pin' \in [Block -> 0 .. 1]
    BY <1>6, SMT DEF EndOp, WakeupAndGoto, TypeOK, Slots
  <2>3. lh' \in Seq(Block) /\ Len(lh') <= LOGSIZE
    BY <1>6, SMT DEF EndOp, WakeupAndGoto, TypeOK
  <2>4. pc' \in [Proc -> {"idle", "begin", "sleep", "op", "panic"} \cup CommitPcs] /\ committing' \in BOOLEAN
    <3>1. \A q \in Proc : pc'[q] \in {"idle", "op", "begin", "panic", "commit", pc[q]}
      BY <1>6, SMT DEF EndOp, WakeupAndGoto, TypeOK
    <3>2. DOMAIN pc' = Proc /\ pc' = [q \in Proc |-> pc'[q]]
      BY <1>6, SMT DEF EndOp, WakeupAndGoto, TypeOK
    <3>3. committing' \in BOOLEAN
      BY <1>6 DEF EndOp, TypeOK
    <3> QED
      BY <3>1, <3>2, <3>3 DEF TypeOK, CommitPcs
  <2>5. depth' \in [Proc -> 0 .. 2] /\ written' \in [Proc -> SUBSET Block]
    <3>1. depth[p] > 0
      BY <1>6 DEF EndOp, OpsInv
    <3>2. /\ depth' = [depth EXCEPT ![p] = depth[p] - 1]
          /\ written' \in {written, [written EXCEPT ![p] = {}]}
      BY <1>6 DEF EndOp, TypeOK
    <3> QED
      BY <3>1, <3>2, SMT DEF TypeOK
  <2>6. tail' \in 0 .. LOGSIZE /\ boot' \in {"read_head", "install", "clear", "up"}
    BY <1>6, SMT DEF EndOp, WakeupAndGoto, TypeOK
  <2> QED
    BY <1>0, <2>1, <2>2, <2>3, <2>4, <2>5, <2>6 DEF TypeOK
<1>7. ASSUME NEW p \in Proc, Commit(p) PROVE TypeOK'
  <2>1. disk' \in [Block -> Data] /\ logged' \in [Slots -> Data] /\ head' \in Seq(Block) /\ Len(head') <= LOGSIZE
    BY <1>7, SMT DEF Commit, TypeOK, Slots
  <2>2. buf' \in [Block -> Data \cup {None}] /\ pin' \in [Block -> 0 .. 1]
    BY <1>7, SMT DEF Commit, TypeOK, Slots
  <2>3. lh' \in Seq(Block) /\ Len(lh') <= LOGSIZE
    BY <1>7, SMT DEF Commit, TypeOK
  <2>4. pc' \in [Proc -> {"idle", "begin", "sleep", "op", "panic"} \cup CommitPcs] /\ committing' \in BOOLEAN
    BY <1>7, SMT DEF Commit, TypeOK, CommitPcs
  <2>5. depth' \in [Proc -> 0 .. 2] /\ written' \in [Proc -> SUBSET Block]
    BY <1>7, SMT DEF Commit, TypeOK
  <2>6. tail' \in 0 .. LOGSIZE /\ boot' \in {"read_head", "install", "clear", "up"}
    BY <1>7, SMT DEF Commit, TypeOK
  <2> QED
    BY <1>0, <2>1, <2>2, <2>3, <2>4, <2>5, <2>6 DEF TypeOK
<1>8. ASSUME NEW p \in Proc, WriteLog(p) PROVE TypeOK'
  <2>1. disk' \in [Block -> Data] /\ logged' \in [Slots -> Data] /\ head' \in Seq(Block) /\ Len(head') <= LOGSIZE
    <3>1. \/ UNCHANGED logged
          \/ tail < Len(lh) /\ logged' = [logged EXCEPT ![tail + 1] = View(lh[tail + 1])]
      BY <1>8 DEF WriteLog
    <3>2. tail < Len(lh) => View(lh[tail + 1]) \in Data
      BY SMT DEF View, TypeOK
    <3>3. UNCHANGED <<disk, head>>
      BY <1>8 DEF WriteLog
    <3> QED
      BY <3>1, <3>2, <3>3, SMT DEF TypeOK, Slots
  <2>2. buf' \in [Block -> Data \cup {None}] /\ pin' \in [Block -> 0 .. 1]
    BY <1>8, SMT DEF WriteLog, TypeOK, Slots
  <2>3. lh' \in Seq(Block) /\ Len(lh') <= LOGSIZE
    BY <1>8, SMT DEF WriteLog, TypeOK
  <2>4. pc' \in [Proc -> {"idle", "begin", "sleep", "op", "panic"} \cup CommitPcs] /\ committing' \in BOOLEAN
    BY <1>8, SMT DEF WriteLog, TypeOK, CommitPcs
  <2>5. depth' \in [Proc -> 0 .. 2] /\ written' \in [Proc -> SUBSET Block]
    BY <1>8, SMT DEF WriteLog, TypeOK
  <2>6. tail' \in 0 .. LOGSIZE /\ boot' \in {"read_head", "install", "clear", "up"}
    BY <1>8, SMT DEF WriteLog, TypeOK
  <2> QED
    BY <1>0, <2>1, <2>2, <2>3, <2>4, <2>5, <2>6 DEF TypeOK
<1>9. ASSUME NEW p \in Proc, WriteHead(p) PROVE TypeOK'
  <2>1. disk' \in [Block -> Data] /\ logged' \in [Slots -> Data] /\ head' \in Seq(Block) /\ Len(head') <= LOGSIZE
    BY <1>9, SMT DEF WriteHead, TypeOK, Slots
  <2>2. buf' \in [Block -> Data \cup {None}] /\ pin' \in [Block -> 0 .. 1]
    BY <1>9, SMT DEF WriteHead, TypeOK, Slots
  <2>3. lh' \in Seq(Block) /\ Len(lh') <= LOGSIZE
    BY <1>9, SMT DEF WriteHead, TypeOK
  <2>4. pc' \in [Proc -> {"idle", "begin", "sleep", "op", "panic"} \cup CommitPcs] /\ committing' \in BOOLEAN
    BY <1>9, SMT DEF WriteHead, TypeOK, CommitPcs
  <2>5. depth' \in [Proc -> 0 .. 2] /\ written' \in [Proc -> SUBSET Block]
    BY <1>9, SMT DEF WriteHead, TypeOK
  <2>6. tail' \in 0 .. LOGSIZE /\ boot' \in {"read_head", "install", "clear", "up"}
    BY <1>9, SMT DEF WriteHead, TypeOK
  <2> QED
    BY <1>0, <2>1, <2>2, <2>3, <2>4, <2>5, <2>6 DEF TypeOK
<1>10. ASSUME NEW p \in Proc, Install(p) PROVE TypeOK'
  <2>1. disk' \in [Block -> Data] /\ logged' \in [Slots -> Data] /\ head' \in Seq(Block) /\ Len(head') <= LOGSIZE
    BY <1>10, SMT DEF Install, InstallBlock, TypeOK, Slots
  <2>2. buf' \in [Block -> Data \cup {None}] /\ pin' \in [Block -> 0 .. 1]
    <3>1. CASE tail < Len(lh)
      <4>1. lh[tail + 1] \in Block /\ logged[tail + 1] \in Data
        BY <3>1 DEF TypeOK, Slots
      <4>2. boot = "up"
        BY <1>10 DEF Install, OpsInv
      <4>3. pin[lh[tail + 1]] = 1
        BY <1>10, <3>1, <4>1, <4>2 DEF Install, CacheInv, TypeOK
      <4>4. /\ buf' = [buf EXCEPT ![lh[tail + 1]] = logged[tail + 1]]
            /\ pin' = [pin EXCEPT ![lh[tail + 1]] = pin[lh[tail + 1]] - 1]
        BY <1>10, <3>1 DEF Install, InstallBlock
      <4> QED
        BY <4>1, <4>3, <4>4, SMT DEF TypeOK
    <3>2. CASE tail >= Len(lh)
      BY <1>10, <3>2, SMT DEF Install, InstallBlock, TypeOK
    <3> QED
      BY <3>1, <3>2 DEF TypeOK
  <2>3. lh' \in Seq(Block) /\ Len(lh') <= LOGSIZE
    <3>1. lh' = lh \/ lh' = <<>>
      BY <1>10, SMT DEF Install, InstallBlock
    <3>2. <<>> \in Seq(Block) /\ Len(<<>>) = 0
      OBVIOUS
    <3>3. CASE lh' = lh
      BY <3>3 DEF TypeOK
    <3>4. CASE lh' = <<>>
      BY <3>2, <3>4
    <3> QED
      BY <3>1, <3>3, <3>4
  <2>4. pc' \in [Proc -> {"idle", "begin", "sleep", "op", "panic"} \cup CommitPcs] /\ committing' \in BOOLEAN
    BY <1>10, SMT DEF Install, InstallBlock, TypeOK, CommitPcs
  <2>5. depth' \in [Proc -> 0 .. 2] /\ written' \in [Proc -> SUBSET Block]
    BY <1>10, SMT DEF Install, InstallBlock, TypeOK
  <2>6. tail' \in 0 .. LOGSIZE /\ boot' \in {"read_head", "install", "clear", "up"}
    BY <1>10, SMT DEF Install, InstallBlock, TypeOK
  <2> QED
    BY <1>0, <2>1, <2>2, <2>3, <2>4, <2>5, <2>6 DEF TypeOK
<1>11. ASSUME NEW p \in Proc, Clear(p) PROVE TypeOK'
  <2>1. disk' \in [Block -> Data] /\ logged' \in [Slots -> Data] /\ head' \in Seq(Block) /\ Len(head') <= LOGSIZE
    BY <1>11, SMT DEF Clear, TypeOK, Slots
  <2>2. buf' \in [Block -> Data \cup {None}] /\ pin' \in [Block -> 0 .. 1]
    BY <1>11, SMT DEF Clear, TypeOK, Slots
  <2>3. lh' \in Seq(Block) /\ Len(lh') <= LOGSIZE
    BY <1>11, SMT DEF Clear, TypeOK
  <2>4. pc' \in [Proc -> {"idle", "begin", "sleep", "op", "panic"} \cup CommitPcs] /\ committing' \in BOOLEAN
    BY <1>11, SMT DEF Clear, TypeOK, CommitPcs
  <2>5. depth' \in [Proc -> 0 .. 2] /\ written' \in [Proc -> SUBSET Block]
    BY <1>11, SMT DEF Clear, TypeOK
  <2>6. tail' \in 0 .. LOGSIZE /\ boot' \in {"read_head", "install", "clear", "up"}
    BY <1>11, SMT DEF Clear, TypeOK
  <2> QED
    BY <1>0, <2>1, <2>2, <2>3, <2>4, <2>5, <2>6 DEF TypeOK
<1>12. ASSUME NEW p \in Proc, Committed(p) PROVE TypeOK'
  <2>1. disk' \in [Block -> Data] /\ logged' \in [Slots -> Data] /\ head' \in Seq(Block) /\ Len(head') <= LOGSIZE
    BY <1>12, SMT DEF Committed, WakeupAndGoto, TypeOK, Slots
  <2>2. buf' \in [Block -> Data \cup {None}] /\ pin' \in [Block -> 0 .. 1]
    BY <1>12, SMT DEF Committed, WakeupAndGoto, TypeOK, Slots
  <2>3. lh' \in Seq(Block) /\ Len(lh') <= LOGSIZE
    BY <1>12, SMT DEF Committed, WakeupAndGoto, TypeOK
  <2>4. pc' \in [Proc -> {"idle", "begin", "sleep", "op", "panic"} \cup CommitPcs] /\ committing' \in BOOLEAN
    <3>1. pc' = [q \in Proc |-> IF q = p THEN "idle" ELSE IF pc[q] = "sleep" THEN "begin" ELSE pc[q]]
      BY <1>12 DEF Committed, WakeupAndGoto
    <3>2. committing' = FALSE
      BY <1>12 DEF Committed
    <3> QED
      BY <3>1, <3>2 DEF TypeOK
  <2>5. depth' \in [Proc -> 0 .. 2] /\ written' \in [Proc -> SUBSET Block]
    BY <1>12, SMT DEF Committed, WakeupAndGoto, TypeOK
  <2>6. tail' \in 0 .. LOGSIZE /\ boot' \in {"read_head", "install", "clear", "up"}
    BY <1>12, SMT DEF Committed, WakeupAndGoto, TypeOK
  <2> QED
    BY <1>0, <2>1, <2>2, <2>3, <2>4, <2>5, <2>6 DEF TypeOK
<1>13. ASSUME NEW b \in Block, Recycle(b) PROVE TypeOK'
  <2>1. disk' \in [Block -> Data] /\ logged' \in [Slots -> Data] /\ head' \in Seq(Block) /\ Len(head') <= LOGSIZE
    BY <1>13, SMT DEF Recycle, TypeOK, Slots
  <2>2. buf' \in [Block -> Data \cup {None}] /\ pin' \in [Block -> 0 .. 1]
    BY <1>13, SMT DEF Recycle, TypeOK, Slots
  <2>3. lh' \in Seq(Block) /\ Len(lh') <= LOGSIZE
    BY <1>13, SMT DEF Recycle, TypeOK
  <2>4. pc' \in [Proc -> {"idle", "begin", "sleep", "op", "panic"} \cup CommitPcs] /\ committing' \in BOOLEAN
    BY <1>13, SMT DEF Recycle, TypeOK, CommitPcs
  <2>5. depth' \in [Proc -> 0 .. 2] /\ written' \in [Proc -> SUBSET Block]
    BY <1>13, SMT DEF Recycle, TypeOK
  <2>6. tail' \in 0 .. LOGSIZE /\ boot' \in {"read_head", "install", "clear", "up"}
    BY <1>13, SMT DEF Recycle, TypeOK
  <2> QED
    BY <1>0, <2>1, <2>2, <2>3, <2>4, <2>5, <2>6 DEF TypeOK
<1>14. ASSUME Crash PROVE TypeOK'
  <2>1. disk' \in [Block -> Data] /\ logged' \in [Slots -> Data] /\ head' \in Seq(Block) /\ Len(head') <= LOGSIZE
    BY <1>14, SMT DEF Crash, PowerOn, TypeOK, Slots
  <2>2. buf' \in [Block -> Data \cup {None}] /\ pin' \in [Block -> 0 .. 1]
    BY <1>14, SMT DEF Crash, PowerOn, TypeOK, Slots
  <2>3. lh' \in Seq(Block) /\ Len(lh') <= LOGSIZE
    BY <1>14, SMT DEF Crash, PowerOn, TypeOK
  <2>4. pc' \in [Proc -> {"idle", "begin", "sleep", "op", "panic"} \cup CommitPcs] /\ committing' \in BOOLEAN
    <3>1. pc' = [q \in Proc |-> "idle"] /\ committing' = FALSE
      BY <1>14 DEF Crash, PowerOn
    <3> QED
      BY <3>1
  <2>5. depth' \in [Proc -> 0 .. 2] /\ written' \in [Proc -> SUBSET Block]
    BY <1>14, SMT DEF Crash, PowerOn, TypeOK
  <2>6. tail' \in 0 .. LOGSIZE /\ boot' \in {"read_head", "install", "clear", "up"}
    BY <1>14, SMT DEF Crash, PowerOn, TypeOK
  <2> QED
    BY <1>0, <2>1, <2>2, <2>3, <2>4, <2>5, <2>6 DEF TypeOK
<1>15. ASSUME ReadHead PROVE TypeOK'
  <2>1. disk' \in [Block -> Data] /\ logged' \in [Slots -> Data] /\ head' \in Seq(Block) /\ Len(head') <= LOGSIZE
    BY <1>15, SMT DEF ReadHead, TypeOK, Slots
  <2>2. buf' \in [Block -> Data \cup {None}] /\ pin' \in [Block -> 0 .. 1]
    BY <1>15, SMT DEF ReadHead, TypeOK, Slots
  <2>3. lh' \in Seq(Block) /\ Len(lh') <= LOGSIZE
    BY <1>15, SMT DEF ReadHead, TypeOK
  <2>4. pc' \in [Proc -> {"idle", "begin", "sleep", "op", "panic"} \cup CommitPcs] /\ committing' \in BOOLEAN
    BY <1>15, SMT DEF ReadHead, TypeOK, CommitPcs
  <2>5. depth' \in [Proc -> 0 .. 2] /\ written' \in [Proc -> SUBSET Block]
    BY <1>15, SMT DEF ReadHead, TypeOK
  <2>6. tail' \in 0 .. LOGSIZE /\ boot' \in {"read_head", "install", "clear", "up"}
    BY <1>15, SMT DEF ReadHead, TypeOK
  <2> QED
    BY <1>0, <2>1, <2>2, <2>3, <2>4, <2>5, <2>6 DEF TypeOK
<1>16. ASSUME RecoverInstall PROVE TypeOK'
  <2>1. disk' \in [Block -> Data] /\ logged' \in [Slots -> Data] /\ head' \in Seq(Block) /\ Len(head') <= LOGSIZE
    BY <1>16, SMT DEF RecoverInstall, InstallBlock, TypeOK, Slots
  <2>2. buf' \in [Block -> Data \cup {None}] /\ pin' \in [Block -> 0 .. 1]
    BY <1>16, SMT DEF RecoverInstall, InstallBlock, TypeOK, Slots
  <2>3. lh' \in Seq(Block) /\ Len(lh') <= LOGSIZE
    <3>1. lh' = lh \/ lh' = <<>>
      BY <1>16, SMT DEF RecoverInstall, InstallBlock
    <3>2. <<>> \in Seq(Block) /\ Len(<<>>) = 0
      OBVIOUS
    <3>3. CASE lh' = lh
      BY <3>3 DEF TypeOK
    <3>4. CASE lh' = <<>>
      BY <3>2, <3>4
    <3> QED
      BY <3>1, <3>3, <3>4
  <2>4. pc' \in [Proc -> {"idle", "begin", "sleep", "op", "panic"} \cup CommitPcs] /\ committing' \in BOOLEAN
    BY <1>16, SMT DEF RecoverInstall, InstallBlock, TypeOK, CommitPcs
  <2>5. depth' \in [Proc -> 0 .. 2] /\ written' \in [Proc -> SUBSET Block]
    BY <1>16, SMT DEF RecoverInstall, InstallBlock, TypeOK
  <2>6. tail' \in 0 .. LOGSIZE /\ boot' \in {"read_head", "install", "clear", "up"}
    BY <1>16, SMT DEF RecoverInstall, InstallBlock, TypeOK
  <2> QED
    BY <1>0, <2>1, <2>2, <2>3, <2>4, <2>5, <2>6 DEF TypeOK
<1>17. ASSUME RecoverClear PROVE TypeOK'
  <2>1. disk' \in [Block -> Data] /\ logged' \in [Slots -> Data] /\ head' \in Seq(Block) /\ Len(head') <= LOGSIZE
    BY <1>17, SMT DEF RecoverClear, TypeOK, Slots
  <2>2. buf' \in [Block -> Data \cup {None}] /\ pin' \in [Block -> 0 .. 1]
    BY <1>17, SMT DEF RecoverClear, TypeOK, Slots
  <2>3. lh' \in Seq(Block) /\ Len(lh') <= LOGSIZE
    BY <1>17, SMT DEF RecoverClear, TypeOK
  <2>4. pc' \in [Proc -> {"idle", "begin", "sleep", "op", "panic"} \cup CommitPcs] /\ committing' \in BOOLEAN
    BY <1>17, SMT DEF RecoverClear, TypeOK, CommitPcs
  <2>5. depth' \in [Proc -> 0 .. 2] /\ written' \in [Proc -> SUBSET Block]
    BY <1>17, SMT DEF RecoverClear, TypeOK
  <2>6. tail' \in 0 .. LOGSIZE /\ boot' \in {"read_head", "install", "clear", "up"}
    BY <1>17, SMT DEF RecoverClear, TypeOK
  <2> QED
    BY <1>0, <2>1, <2>2, <2>3, <2>4, <2>5, <2>6 DEF TypeOK
<1> QED
  BY <1>1, <1>2, <1>3, <1>4, <1>5, <1>6, <1>7, <1>8, <1>9, <1>10, <1>11, <1>12, <1>13,
      <1>14, <1>15, <1>16, <1>17 DEF Next, CommitStep, InitLog

\* Operations and the commit exclude each other, and one process commits.
LEMMA NextOps == RedoInv /\ [Next]_vars => OpsInv'
<1> SUFFICES ASSUME RedoInv, [Next]_vars PROVE OpsInv'
  OBVIOUS
<1> USE DEF RedoInv
<1>0. outstanding' = Cardinality({p \in Proc : depth'[p] > 0}) + Cardinality({p \in Proc : depth'[p] = 2})
  BY NextCount DEF Counted, Inside, Twice, RedoInv
<1>1. CASE UNCHANGED vars
  BY <1>1 DEF vars, TypeOK, OpsInv, Committing, CommitPcs
<1>2. ASSUME NEW p \in Proc, Call(p) PROVE OpsInv'
  BY <1>0, <1>2, SMT DEF Call, TypeOK, OpsInv, Committing, CommitPcs
<1>3. ASSUME NEW p \in Proc, Begin(p) PROVE OpsInv'
  <2>1. /\ pc[p] = "begin" /\ ~committing
        /\ outstanding' = outstanding + 1
        /\ depth' = [depth EXCEPT ![p] = depth[p] + 1]
        /\ pc' = [pc EXCEPT ![p] = "op"]
        /\ UNCHANGED <<committing, written, boot>>
    BY <1>3 DEF Begin, MayBegin
  <2> QED
    BY <1>0, <2>1, SMT DEF TypeOK, OpsInv, Committing, CommitPcs
<1>4. ASSUME NEW p \in Proc, BeginSleep(p) PROVE OpsInv'
  BY <1>0, <1>4, SMT DEF BeginSleep, TypeOK, OpsInv, Committing, CommitPcs
<1>5. ASSUME NEW p \in Proc, NEW b \in Block, NEW d \in Data, LogWrite(p, b, d) PROVE OpsInv'
  BY <1>0, <1>5, SMT DEF LogWrite, TypeOK, OpsInv, Committing, CommitPcs
<1>6. ASSUME NEW p \in Proc, EndOp(p) PROVE OpsInv'
  <2>1. depth[p] > 0 /\ ~committing /\ outstanding > 0 /\ boot = "up" /\ \A q \in Proc : ~Committing(q)
    BY <1>6, NobodyInside DEF EndOp, OpsInv
  <2>2. /\ depth' = [depth EXCEPT ![p] = depth[p] - 1]
        /\ written' = [written EXCEPT ![p] = IF depth[p] = 1 THEN {} ELSE written[p]]
        /\ boot' = boot
        /\ outstanding' = outstanding - 1
    BY <1>6 DEF EndOp
  <2>3. \/ outstanding = 1 /\ committing' = TRUE /\ pc' = [pc EXCEPT ![p] = "commit"]
        \/ /\ committing' = FALSE
           /\ pc' = [q \in Proc |-> IF q = p THEN IF depth[p] = 1 THEN "idle" ELSE "op"
                                   ELSE IF pc[q] = "sleep" THEN "begin" ELSE pc[q]]
    BY <1>6, <2>1 DEF EndOp, WakeupAndGoto
  <2>4. outstanding' = 0 => \A q \in Proc : depth'[q] = 0
    <3>1. ASSUME outstanding' = 0, NEW q \in Proc, depth'[q] > 0 PROVE FALSE
      <4>1. Cardinality(Inside(depth')) > 0
        BY <3>1, CountPositive
      <4>2. Counted(outstanding', depth')
        BY NextCount DEF RedoInv
      <4> QED
        BY <3>1, <4>1, <4>2, CountType DEF Counted
    <3>2. depth' \in [Proc -> 0 .. 2]
      BY NextType DEF TypeOK, RedoInv
    <3> QED
      BY <3>1, <3>2
  <2>5. pc' \in [Proc -> {"idle", "begin", "sleep", "op", "panic"} \cup CommitPcs]
    BY NextType DEF TypeOK, RedoInv
  <2> QED
    BY <1>0, <2>1, <2>2, <2>3, <2>4, <2>5, SMT DEF TypeOK, OpsInv, Committing, CommitPcs
<1>7. ASSUME NEW p \in Proc, Commit(p) PROVE OpsInv'
  BY <1>0, <1>7, SMT DEF Commit, TypeOK, OpsInv, Committing, CommitPcs
<1>8. ASSUME NEW p \in Proc, WriteLog(p) PROVE OpsInv'
  BY <1>0, <1>8, SMT DEF WriteLog, TypeOK, OpsInv, Committing, CommitPcs
<1>9. ASSUME NEW p \in Proc, WriteHead(p) PROVE OpsInv'
  BY <1>0, <1>9, SMT DEF WriteHead, TypeOK, OpsInv, Committing, CommitPcs
<1>10. ASSUME NEW p \in Proc, Install(p) PROVE OpsInv'
  BY <1>0, <1>10, SMT DEF Install, InstallBlock, TypeOK, OpsInv, Committing, CommitPcs
<1>11. ASSUME NEW p \in Proc, Clear(p) PROVE OpsInv'
  BY <1>0, <1>11, SMT DEF Clear, TypeOK, OpsInv, Committing, CommitPcs
<1>12. ASSUME NEW p \in Proc, Committed(p) PROVE OpsInv'
  BY <1>0, <1>12, SMT DEF Committed, WakeupAndGoto, TypeOK, OpsInv, Committing, CommitPcs
<1>13. ASSUME NEW b \in Block, Recycle(b) PROVE OpsInv'
  BY <1>0, <1>13, SMT DEF Recycle, TypeOK, OpsInv, Committing, CommitPcs
<1>14. ASSUME Crash PROVE OpsInv'
  BY <1>0, <1>14, SMT DEF Crash, PowerOn, TypeOK, OpsInv, Committing, CommitPcs
<1>15. ASSUME ReadHead PROVE OpsInv'
  BY <1>0, <1>15, SMT DEF ReadHead, TypeOK, OpsInv, Committing, CommitPcs
<1>16. ASSUME RecoverInstall PROVE OpsInv'
  BY <1>0, <1>16, SMT DEF RecoverInstall, InstallBlock, TypeOK, OpsInv, Committing,
       CommitPcs
<1>17. ASSUME RecoverClear PROVE OpsInv'
  BY <1>0, <1>17, SMT DEF RecoverClear, TypeOK, OpsInv, Committing, CommitPcs
<1> QED
  BY <1>1, <1>2, <1>3, <1>4, <1>5, <1>6, <1>7, <1>8, <1>9, <1>10, <1>11, <1>12, <1>13,
      <1>14, <1>15, <1>16, <1>17 DEF Next, CommitStep, InitLog

\* A transaction lists a block once, and its buffers stay pinned until they are installed.
LEMMA NextCache == RedoInv /\ [Next]_vars => CacheInv'
<1> SUFFICES ASSUME RedoInv, [Next]_vars PROVE CacheInv'
  OBVIOUS
<1> USE DEF RedoInv
<1>0. TypeOK' /\ OpsInv'
  BY NextType, NextOps DEF RedoInv
<1>1. CASE UNCHANGED vars
  BY <1>1 DEF vars, TypeOK, OpsInv, CacheInv, Committing, CommitPcs
<1>2. ASSUME NEW p \in Proc, Call(p) PROVE CacheInv'
  BY <1>2, SMT DEF Call, TypeOK, OpsInv, CacheInv, Committing, CommitPcs
<1>3. ASSUME NEW p \in Proc, Begin(p) PROVE CacheInv'
  BY <1>3, SMT DEF Begin, TypeOK, OpsInv, CacheInv, Committing, CommitPcs
<1>4. ASSUME NEW p \in Proc, BeginSleep(p) PROVE CacheInv'
  BY <1>4, SMT DEF BeginSleep, TypeOK, OpsInv, CacheInv, Committing, CommitPcs
<1>5. ASSUME NEW p \in Proc, NEW b \in Block, NEW d \in Data, LogWrite(p, b, d) PROVE CacheInv'
  <2>1. boot = "up" /\ \A q \in Proc : pc[q] # "install"
    BY <1>5, NobodyInside DEF LogWrite, OpsInv, Committing, CommitPcs, TypeOK
  <2>2. boot' = "up" /\ (\A q \in Proc : pc'[q] # "install") /\ UNCHANGED <<disk, head>>
    BY <1>5, <2>1, SMT DEF LogWrite, TypeOK
  <2>3. \A c \in Block : pin[c] = 1 <=> c \in InLog(lh)
    BY <2>1 DEF CacheInv, InLog
  <2>4. CASE UNCHANGED <<buf, pin, lh>>
    BY <2>1, <2>2, <2>4 DEF CacheInv
  <2>5. CASE buf' = [buf EXCEPT ![b] = d] /\ UNCHANGED <<pin, lh>> /\ b \in InLog(lh)
    <3>1. pin[b] = 1 /\ d # None
      BY <2>3, <2>5, LogAssumption
    <3> QED
      BY <2>1, <2>2, <2>5, <3>1, SMT DEF CacheInv, TypeOK
  <2>6. CASE /\ b \notin InLog(lh)
             /\ buf' = [buf EXCEPT ![b] = d]
             /\ pin' = [pin EXCEPT ![b] = pin[b] + 1]
             /\ lh' = Append(lh, b)
    <3>1. pin[b] = 0 /\ d # None
      BY <2>3, <2>6, LogAssumption DEF TypeOK
    <3>2. /\ Len(lh') = Len(lh) + 1 /\ Len(lh) \in Nat
          /\ DOMAIN lh = 1 .. Len(lh) /\ DOMAIN lh' = 1 .. Len(lh')
          /\ lh'[Len(lh')] = b /\ \A i \in DOMAIN lh : lh'[i] = lh[i]
      BY <2>6 DEF TypeOK
    <3>3. \A i \in DOMAIN lh : lh[i] # b
      BY <2>6 DEF InLog
    <3>4. \A i, j \in DOMAIN lh' : lh'[i] = lh'[j] => i = j
      BY <3>2, <3>3, SMT DEF CacheInv
    <3>5. \A c \in Block : (\E i \in DOMAIN lh' : lh'[i] = c) <=> c = b \/ \E i \in DOMAIN lh : lh[i] = c
      BY <3>2, SMT
    <3>6. \A c \in Block : pin'[c] = (IF c = b THEN 1 ELSE pin[c]) /\ buf'[c] = (IF c = b THEN d ELSE buf[c])
      BY <2>6, <3>1 DEF TypeOK
    <3> HIDE DEF RedoInv
    <3>7. \A c \in Block : /\ buf[c] # None /\ pin[c] = 0 => buf[c] = disk[c]
                           /\ pin[c] = 1 => buf[c] # None
                           /\ pin[c] = 1 <=> \E i \in DOMAIN lh : lh[i] = c
      BY <2>1 DEF RedoInv, CacheInv
    <3>8. \A c \in Block :
         /\ buf'[c] # None /\ pin'[c] = 0 => buf'[c] = disk'[c]
         /\ pin'[c] = 1 => buf'[c] # None
         /\ pin'[c] = 1 <=> \E i \in DOMAIN lh' : lh'[i] = c
      BY <2>2, <3>1, <3>5, <3>6, <3>7
    <3>9. \A i, j \in DOMAIN head' : head'[i] = head'[j] => i = j
      BY <2>2 DEF CacheInv, RedoInv
    <3> QED
      BY <2>2, <3>4, <3>8, <3>9 DEF CacheInv
  <2> QED
    BY <1>5, <2>4, <2>5, <2>6 DEF LogWrite
<1>6. ASSUME NEW p \in Proc, EndOp(p) PROVE CacheInv'
  BY <1>6, SMT DEF EndOp, WakeupAndGoto, TypeOK, OpsInv, CacheInv, Committing, CommitPcs
<1>7. ASSUME NEW p \in Proc, Commit(p) PROVE CacheInv'
  BY <1>7, SMT DEF Commit, TypeOK, OpsInv, CacheInv, Committing, CommitPcs
<1>8. ASSUME NEW p \in Proc, WriteLog(p) PROVE CacheInv'
  BY <1>8, SMT DEF WriteLog, TypeOK, OpsInv, CacheInv, Committing, CommitPcs
<1>9. ASSUME NEW p \in Proc, WriteHead(p) PROVE CacheInv'
  BY <1>9, SMT DEF WriteHead, TypeOK, OpsInv, CacheInv, Committing, CommitPcs
<1>10. ASSUME NEW p \in Proc, Install(p) PROVE CacheInv'
  <2>1. /\ boot = "up" /\ boot' = "up" /\ pc[p] = "install" /\ UNCHANGED <<head, logged>>
        /\ \A q \in Proc : q # p => pc[q] # "install" /\ pc'[q] # "install"
    BY <1>10, SMT DEF Install, InstallBlock, TypeOK, OpsInv, Committing, CommitPcs
  <2>2. \A c \in Block : pin[c] = 1 <=> \E i \in DOMAIN lh : lh[i] = c /\ i > tail
    BY <2>1 DEF CacheInv
  <2>3. CASE tail = Len(lh) /\ lh' = <<>> /\ UNCHANGED <<disk, buf, pin>>
    <3>1. \A c \in Block : pin[c] = 0
      BY <2>2, <2>3, SMT DEF TypeOK
    <3> QED
      BY <2>1, <2>3, <3>1 DEF CacheInv
  <2>4. CASE tail < Len(lh) /\ InstallBlock /\ pin' = [pin EXCEPT ![lh[tail + 1]] = pin[lh[tail + 1]] - 1] /\ UNCHANGED pc
    <3> DEFINE b == lh[tail + 1]
    <3>1. /\ b \in Block /\ logged[tail + 1] \in Data /\ tail + 1 \in DOMAIN lh /\ tail \in Nat
          /\ \A i \in DOMAIN lh : i \in Nat
      BY <2>4, LogAssumption, SMT DEF TypeOK, Slots
    <3>2. pin[b] = 1 /\ logged[tail + 1] # None
      BY <2>2, <3>1, LogAssumption
    <3>3. lh' = lh /\ tail' = tail + 1
      BY <2>4 DEF InstallBlock
    <3>4. \A c \in Block : /\ pin'[c] = (IF c = b THEN 0 ELSE pin[c])
                           /\ buf'[c] = (IF c = b THEN logged[tail + 1] ELSE buf[c])
                           /\ disk'[c] = (IF c = b THEN logged[tail + 1] ELSE disk[c])
      BY <2>4, <3>1, <3>2, SMT DEF InstallBlock, TypeOK
    <3>5. \A i \in DOMAIN lh : lh[i] = b => i = tail + 1
      BY <3>1 DEF CacheInv
    <3>6. \A c \in Block : (\E i \in DOMAIN lh : lh[i] = c /\ i > tail + 1) <=>
                             c # b /\ \E i \in DOMAIN lh : lh[i] = c /\ i > tail
      <4> HIDE DEF RedoInv
      <4> QED
        BY <3>1, <3>5
    <3> HIDE DEF b
    <3>7. \A c \in Block :
         /\ buf'[c] # None /\ pin'[c] = 0 => buf'[c] = disk'[c]
         /\ pin'[c] = 1 => buf'[c] # None
         /\ pin'[c] = 1 <=> \E i \in DOMAIN lh' : lh'[i] = c /\ i > tail'
      <4>1. \A c \in Block : /\ buf[c] # None /\ pin[c] = 0 => buf[c] = disk[c]
                             /\ pin[c] = 1 => buf[c] # None
        BY DEF CacheInv
      <4> HIDE DEF RedoInv
      <4> QED
        BY <2>2, <3>2, <3>3, <3>4, <3>6, <4>1
    <3>8. pc'[p] = "install"
      BY <2>1, <2>4
    <3> QED
      BY <2>1, <3>3, <3>7, <3>8 DEF CacheInv
  <2> QED
    BY <1>10, <2>3, <2>4 DEF Install, InstallBlock
<1>11. ASSUME NEW p \in Proc, Clear(p) PROVE CacheInv'
  BY <1>11, SMT DEF Clear, TypeOK, OpsInv, CacheInv, Committing, CommitPcs
<1>12. ASSUME NEW p \in Proc, Committed(p) PROVE CacheInv'
  BY <1>12, SMT DEF Committed, WakeupAndGoto, TypeOK, OpsInv, CacheInv, Committing,
       CommitPcs
<1>13. ASSUME NEW b \in Block, Recycle(b) PROVE CacheInv'
  BY <1>13, SMT DEF Recycle, TypeOK, OpsInv, CacheInv, Committing, CommitPcs
<1>14. ASSUME Crash PROVE CacheInv'
  BY <1>14, SMT DEF Crash, PowerOn, TypeOK, OpsInv, CacheInv, Committing, CommitPcs
<1>15. ASSUME ReadHead PROVE CacheInv'
  BY <1>15, SMT DEF ReadHead, TypeOK, OpsInv, CacheInv, Committing, CommitPcs
<1>16. ASSUME RecoverInstall PROVE CacheInv'
  BY <1>16, SMT DEF RecoverInstall, InstallBlock, TypeOK, OpsInv, CacheInv, Committing,
       CommitPcs
<1>17. ASSUME RecoverClear PROVE CacheInv'
  BY <1>17, SMT DEF RecoverClear, CommitInv, TypeOK, OpsInv, CacheInv, Committing,
       CommitPcs
<1> QED
  BY <1>1, <1>2, <1>3, <1>4, <1>5, <1>6, <1>7, <1>8, <1>9, <1>10, <1>11, <1>12, <1>13,
      <1>14, <1>15, <1>16, <1>17 DEF Next, CommitStep, InitLog

\* The log blocks hold the transaction before the header lists it, and the home locations after.
LEMMA NextCommit == RedoInv /\ [Next]_vars => CommitInv'
<1> SUFFICES ASSUME RedoInv, [Next]_vars PROVE CommitInv'
  OBVIOUS
<1> USE DEF RedoInv
<1>1. CASE UNCHANGED vars
  BY <1>1 DEF vars, TypeOK, OpsInv, CacheInv, CommitInv, Committing, CommitPcs, Copied,
       Installed, View
<1>2. ASSUME NEW p \in Proc, Call(p) PROVE CommitInv'
  BY <1>2, SMT DEF Call, TypeOK, OpsInv, CacheInv, CommitInv, Committing, CommitPcs,
       Copied, Installed, View
<1>3. ASSUME NEW p \in Proc, Begin(p) PROVE CommitInv'
  BY <1>3, SMT DEF Begin, TypeOK, OpsInv, CacheInv, CommitInv, Committing, CommitPcs,
       Copied, Installed, View
<1>4. ASSUME NEW p \in Proc, BeginSleep(p) PROVE CommitInv'
  BY <1>4, SMT DEF BeginSleep, TypeOK, OpsInv, CacheInv, CommitInv, Committing,
       CommitPcs, Copied, Installed, View
<1>5. ASSUME NEW p \in Proc, NEW b \in Block, NEW d \in Data, LogWrite(p, b, d) PROVE CommitInv'
  <2>1. boot = "up" /\ \A q \in Proc : ~Committing(q)
    BY <1>5, NobodyInside DEF LogWrite, OpsInv, Committing, CommitPcs, TypeOK
  <2>2. boot' = "up" /\ UNCHANGED head /\ \A q \in Proc : pc'[q] \notin CommitPcs
    BY <1>5, <2>1, SMT DEF LogWrite, TypeOK, Committing, CommitPcs
  <2>3. head = <<>>
    BY <2>1 DEF CommitInv, Committing, CommitPcs
  <2> QED
    BY <2>2, <2>3 DEF CommitInv, CommitPcs
<1>6. ASSUME NEW p \in Proc, EndOp(p) PROVE CommitInv'
  BY <1>6, SMT DEF EndOp, WakeupAndGoto, TypeOK, OpsInv, CacheInv, CommitInv,
       Committing, CommitPcs, Copied, Installed, View
<1>7. ASSUME NEW p \in Proc, Commit(p) PROVE CommitInv'
  BY <1>7, SMT DEF Commit, TypeOK, OpsInv, CacheInv, CommitInv, Committing, CommitPcs,
       Copied, Installed, View
<1>8. ASSUME NEW p \in Proc, WriteLog(p) PROVE CommitInv'
  <2>1. /\ boot = "up" /\ pc[p] = "write_log" /\ tail <= Len(lh) /\ Copied(tail) /\ head = <<>>
        /\ \A q \in Proc : q # p => pc[q] \notin CommitPcs
    BY <1>8 DEF WriteLog, OpsInv, CommitInv, Committing, CommitPcs
  <2>2. UNCHANGED <<boot, lh, head, disk, buf>> /\ \A q \in Proc : q # p => pc'[q] \notin CommitPcs
    BY <1>8, <2>1, SMT DEF WriteLog, TypeOK, CommitPcs
  <2>3. CASE tail < Len(lh)
    <3>1. /\ logged' = [logged EXCEPT ![tail + 1] = View(lh[tail + 1])]
          /\ tail' = tail + 1 /\ pc'[p] = "write_log"
      BY <1>8, <2>1, <2>3 DEF WriteLog
    <3>2. /\ tail + 1 \in Slots /\ tail \in Nat /\ Len(lh) \in Nat /\ DOMAIN logged = Slots
          /\ tail + 1 <= Len(lh)
      BY <2>3, LogAssumption, SMT DEF TypeOK, Slots
    <3>3. Copied(tail)'
      <4>1. \A i \in 1 .. tail : logged'[i] = logged[i]
        BY <3>1, <3>2 DEF Slots
      <4>2. \A i \in 1 .. tail : logged'[i] = View(lh[i])
        BY <2>1, <4>1 DEF Copied
      <4>3. logged'[tail + 1] = View(lh[tail + 1])
        BY <3>1, <3>2
      <4>4. \A i \in 1 .. tail + 1 : logged'[i] = View(lh[i])
        BY <3>2, <4>2, <4>3
      <4> QED
        BY <2>2, <3>1, <4>4 DEF Copied, View
    <3>4. pc'[p] = "write_log" /\ tail' <= Len(lh') /\ Copied(tail)'
      BY <2>2, <3>1, <3>2, <3>3
    <3>5. \A q \in Proc : q # p => pc'[q] \notin {"write_log", "write_head", "install", "clear", "committed"}
      BY <2>2 DEF CommitPcs
    <3> QED
      BY <2>1, <2>2, <3>4, <3>5 DEF CommitInv
  <2>4. CASE tail = Len(lh)
    <3>1. UNCHANGED <<logged, tail>> /\ pc'[p] = "write_head"
      BY <1>8, <2>4, SMT DEF WriteLog, TypeOK
    <3>2. Copied(Len(lh))'
      BY <2>1, <2>2, <2>4, <3>1 DEF Copied, View
    <3> QED
      BY <2>1, <2>2, <3>1, <3>2 DEF CommitInv, CommitPcs
  <2> QED
    BY <2>1, <2>3, <2>4 DEF TypeOK
<1>9. ASSUME NEW p \in Proc, WriteHead(p) PROVE CommitInv'
  BY <1>9, SMT DEF WriteHead, TypeOK, OpsInv, CacheInv, CommitInv, Committing,
       CommitPcs, Copied, Installed, View
<1>10. ASSUME NEW p \in Proc, Install(p) PROVE CommitInv'
  BY <1>10, SMT DEF Install, InstallBlock, TypeOK, OpsInv, CacheInv, CommitInv,
       Committing, CommitPcs, Copied, Installed, View
<1>11. ASSUME NEW p \in Proc, Clear(p) PROVE CommitInv'
  BY <1>11, SMT DEF Clear, TypeOK, OpsInv, CacheInv, CommitInv, Committing, CommitPcs,
       Copied, Installed, View
<1>12. ASSUME NEW p \in Proc, Committed(p) PROVE CommitInv'
  BY <1>12, SMT DEF Committed, WakeupAndGoto, TypeOK, OpsInv, CacheInv, CommitInv,
       Committing, CommitPcs, Copied, Installed, View
<1>13. ASSUME NEW b \in Block, Recycle(b) PROVE CommitInv'
  BY <1>13, SMT DEF Recycle, TypeOK, OpsInv, CacheInv, CommitInv, Committing, CommitPcs,
       Copied, Installed, View
<1>14. ASSUME Crash PROVE CommitInv'
  BY <1>14, SMT DEF Crash, PowerOn, TypeOK, OpsInv, CacheInv, CommitInv, Committing,
       CommitPcs, Copied, Installed, View
<1>15. ASSUME ReadHead PROVE CommitInv'
  BY <1>15, SMT DEF ReadHead, TypeOK, OpsInv, CacheInv, CommitInv, Committing,
       CommitPcs, Copied, Installed, View
<1>16. ASSUME RecoverInstall PROVE CommitInv'
  BY <1>16, SMT DEF RecoverInstall, InstallBlock, TypeOK, OpsInv, CacheInv, CommitInv,
       Committing, CommitPcs, Copied, Installed, View
<1>17. ASSUME RecoverClear PROVE CommitInv'
  BY <1>17, SMT DEF RecoverClear, TypeOK, OpsInv, CacheInv, CommitInv, Committing,
       CommitPcs, Copied, Installed, View
<1> QED
  BY <1>1, <1>2, <1>3, <1>4, <1>5, <1>6, <1>7, <1>8, <1>9, <1>10, <1>11, <1>12, <1>13,
      <1>14, <1>15, <1>16, <1>17 DEF Next, CommitStep, InitLog

\* At power on after mkfs
LEMMA InitRedo == Init => RedoInv
<1> SUFFICES ASSUME Init PROVE RedoInv
  OBVIOUS
<1> USE LogAssumption DEF Init, PowerOn
<1>1. TypeOK
  <2>1. outstanding \in 0 .. 2 * Cardinality(Proc)
    BY FS_CardinalityType
  <2>2. <<>> \in Seq(Block) /\ Len(<<>>) <= LOGSIZE
    OBVIOUS
  <2>3. disk \in [Block -> Data] /\ logged \in [Slots -> Data] /\ tail \in 0 .. LOGSIZE
    OBVIOUS
  <2>4. /\ buf \in [Block -> Data \cup {None}] /\ pin \in [Block -> 0 .. 1]
        /\ pc \in [Proc -> {"idle", "begin", "sleep", "op", "panic"} \cup CommitPcs]
        /\ depth \in [Proc -> 0 .. 2] /\ written \in [Proc -> SUBSET Block]
    OBVIOUS
  <2> QED
    BY <2>1, <2>2, <2>3, <2>4 DEF TypeOK
<1>2. OpsInv
  <2>1. Inside(depth) = {} /\ Twice(depth) = {} /\ outstanding = 0
    BY DEF Inside, Twice
  <2>2. outstanding = Cardinality(Inside(depth)) + Cardinality(Twice(depth))
    <3> HIDE DEF Init
    <3> QED
      BY <2>1, FS_EmptySet
  <2> QED
    BY <2>2 DEF OpsInv, Committing, CommitPcs, Inside, Twice
<1>3. CacheInv
  BY DEF CacheInv
<1>4. CommitInv
  BY DEF CommitInv, Installed
<1> QED
  BY <1>1, <1>2, <1>3, <1>4 DEF RedoInv

\* The log, the cache, the header and the home locations agree in every
\* state, through every commit, crash and recovery (end_op, write_log,
\* install_trans, initlog).
THEOREM RedoInvariance == Spec => []RedoInv
<1>1. RedoInv /\ [Next]_vars => RedoInv'
  BY NextType, NextOps, NextCache, NextCommit DEF RedoInv
<1> QED
  BY InitRedo, <1>1, PTL DEF Spec

-----------------------------------------------------------------------------
(* The refinement of AtomicDisk *)

Views == [b \in Block |-> View(b)]
Active == {p \in Proc : depth[p] > 0}
Seen == IF boot = "up" THEN Views ELSE AfterRecovery

\* What recovery makes of a header h, log blocks g and home locations s
Recovered(h, g, s) ==
    [b \in Block |-> IF b \in InLog(h) THEN g[CHOOSE i \in DOMAIN h : h[i] = b] ELSE s[b]]

Distinct(h) == h \in Seq(Block) /\ \A i, j \in DOMAIN h : h[i] = h[j] => i = j

\* r is what recovery leaves.
Recovery(h, g, s, r) ==
    /\ r = [b \in Block |-> r[b]]
    /\ \A i \in DOMAIN h : r[h[i]] = g[i]
    /\ \A b \in Block : b \notin InLog(h) => r[b] = s[b]

\* Recovery copies log block i to the home of the i-th block of the header.
LEMMA RecoveredAt ==
  ASSUME NEW h, Distinct(h), NEW g, NEW s
  PROVE  /\ \A i \in DOMAIN h : Recovered(h, g, s)[h[i]] = g[i]
         /\ \A b \in Block : b \notin InLog(h) => Recovered(h, g, s)[b] = s[b]
<1>1. ASSUME NEW i \in DOMAIN h PROVE Recovered(h, g, s)[h[i]] = g[i]
  <2>1. h[i] \in Block /\ h[i] \in InLog(h)
    BY DEF InLog, Distinct
  <2>2. (CHOOSE k \in DOMAIN h : h[k] = h[i]) = i
    BY DEF Distinct
  <2> QED
    BY <2>1, <2>2 DEF Recovered
<1> QED
  BY <1>1 DEF Recovered

\* Two ways to get the same blocks
LEMMA RecoveredIs ==
  ASSUME NEW h, Distinct(h), NEW g, NEW s, NEW r,
         Recovery(h, g, s, r)
  PROVE  Recovered(h, g, s) = r
<1>1. ASSUME NEW b \in Block PROVE Recovered(h, g, s)[b] = r[b]
  <2>1. CASE b \in InLog(h)
    <3>1. PICK i \in DOMAIN h : h[i] = b
      BY <2>1 DEF InLog
    <3> QED
      BY <3>1, RecoveredAt DEF Recovery
  <2>2. CASE b \notin InLog(h)
    BY <2>2, RecoveredAt DEF Recovery
  <2> QED
    BY <2>1, <2>2
<1>2. Recovered(h, g, s) = [b \in Block |-> Recovered(h, g, s)[b]]
  BY DEF Recovered
<1> QED
  BY <1>1, <1>2 DEF Recovery

\* An empty header: recovery leaves the home locations alone.
LEMMA RecoveredEmpty ==
  ASSUME NEW g, NEW s \in [Block -> Data]
  PROVE  Recovered(<<>>, g, s) = s
  BY DEF Recovered, InLog

\* To write a log block to its home does not change what recovery makes.
LEMMA RecoveredHome ==
  ASSUME NEW h, Distinct(h), NEW g, NEW s,
         s \in [Block -> Data],
         NEW k \in DOMAIN h
  PROVE  Recovered(h, g, [s EXCEPT ![h[k]] = g[k]]) = Recovered(h, g, s)
<1> DEFINE u == [s EXCEPT ![h[k]] = g[k]]
<1>1. \A b \in Block : b \notin InLog(h) => u[b] = s[b]
  BY DEF InLog, Distinct
<1> QED
  BY <1>1 DEF Recovered

\* When every log block is at home the header is not needed any more.
LEMMA RecoveredDone ==
  ASSUME NEW h, Distinct(h), NEW g,
         NEW s \in [Block -> Data], \A i \in DOMAIN h : s[h[i]] = g[i]
  PROVE  Recovered(h, g, s) = s
  BY RecoveredIs DEF Recovery, InLog


\* Only write_head of a commit changes what a crash leaves: to what bread returns.
LEMMA NextDurable == RedoInv /\ [Next]_vars => (AfterRecovery' = AfterRecovery \/ ((\E q \in Proc : WriteHead(q)) /\ AfterRecovery' = Views))
<1> SUFFICES ASSUME RedoInv, [Next]_vars PROVE (AfterRecovery' = AfterRecovery \/ ((\E q \in Proc : WriteHead(q)) /\ AfterRecovery' = Views))
  OBVIOUS
<1>0. /\ AfterRecovery = Recovered(head, logged, disk)
      /\ AfterRecovery' = Recovered(head', logged', disk')
      /\ Distinct(head) /\ head \in Seq(Block) /\ disk \in [Block -> Data]
  BY DEF Distinct, RedoInv, TypeOK, CacheInv, AfterRecovery, Recovered
<1>1. CASE UNCHANGED vars
  BY <1>0, <1>1 DEF vars
<1>2. ASSUME NEW p \in Proc, Call(p) PROVE (AfterRecovery' = AfterRecovery \/ ((\E q \in Proc : WriteHead(q)) /\ AfterRecovery' = Views))
  <2>1. UNCHANGED <<disk, logged, head>>
    BY <1>2, SMT DEF Call
  <2> QED
    BY <1>0, <2>1
<1>3. ASSUME NEW p \in Proc, Begin(p) PROVE (AfterRecovery' = AfterRecovery \/ ((\E q \in Proc : WriteHead(q)) /\ AfterRecovery' = Views))
  <2>1. UNCHANGED <<disk, logged, head>>
    BY <1>3, SMT DEF Begin
  <2> QED
    BY <1>0, <2>1
<1>4. ASSUME NEW p \in Proc, BeginSleep(p) PROVE (AfterRecovery' = AfterRecovery \/ ((\E q \in Proc : WriteHead(q)) /\ AfterRecovery' = Views))
  <2>1. UNCHANGED <<disk, logged, head>>
    BY <1>4, SMT DEF BeginSleep
  <2> QED
    BY <1>0, <2>1
<1>5. ASSUME NEW p \in Proc, NEW b \in Block, NEW d \in Data, LogWrite(p, b, d) PROVE (AfterRecovery' = AfterRecovery \/ ((\E q \in Proc : WriteHead(q)) /\ AfterRecovery' = Views))
  <2>1. UNCHANGED <<disk, logged, head>>
    BY <1>5, SMT DEF LogWrite
  <2> QED
    BY <1>0, <2>1
<1>6. ASSUME NEW p \in Proc, EndOp(p) PROVE (AfterRecovery' = AfterRecovery \/ ((\E q \in Proc : WriteHead(q)) /\ AfterRecovery' = Views))
  <2>1. UNCHANGED <<disk, logged, head>>
    BY <1>6, SMT DEF EndOp, WakeupAndGoto
  <2> QED
    BY <1>0, <2>1
<1>7. ASSUME NEW p \in Proc, Commit(p) PROVE (AfterRecovery' = AfterRecovery \/ ((\E q \in Proc : WriteHead(q)) /\ AfterRecovery' = Views))
  <2>1. UNCHANGED <<disk, logged, head>>
    BY <1>7, SMT DEF Commit
  <2> QED
    BY <1>0, <2>1
<1>8. ASSUME NEW p \in Proc, WriteLog(p) PROVE (AfterRecovery' = AfterRecovery \/ ((\E q \in Proc : WriteHead(q)) /\ AfterRecovery' = Views))
  <2>1. head = <<>> /\ UNCHANGED <<disk, head>>
    BY <1>8 DEF WriteLog, RedoInv, OpsInv, CommitInv, Committing, CommitPcs
  <2> QED
    BY <1>0, <2>1, RecoveredEmpty
<1>9. ASSUME NEW p \in Proc, WriteHead(p) PROVE (AfterRecovery' = AfterRecovery \/ ((\E q \in Proc : WriteHead(q)) /\ AfterRecovery' = Views))
  <2>1. /\ boot = "up" /\ (\A q \in Proc : pc[q] # "install") /\ Copied(Len(lh))
    BY <1>9 DEF WriteHead, RedoInv, OpsInv, CommitInv, Committing, CommitPcs
  <2>2. head' = lh /\ UNCHANGED <<disk, logged>>
    BY <1>9 DEF WriteHead
  <2>3. ASSUME NEW i \in DOMAIN lh PROVE Views[lh[i]] = logged[i]
    BY <2>1, SMTT(30) DEF RedoInv, TypeOK, Copied, Views
  <2>4. ASSUME NEW b \in Block, b \notin InLog(lh) PROVE Views[b] = disk[b]
    <3>1. pin[b] = 0
      BY <2>1, <2>4 DEF RedoInv, TypeOK, CacheInv, InLog
    <3> QED
      BY <3>1 DEF RedoInv, CacheInv, Views, View
  <2>5. Distinct(lh)
    BY DEF Distinct, RedoInv, TypeOK, CacheInv
  <2>6. Views = [b \in Block |-> Views[b]]
    BY DEF Views
  <2>7. Recovered(lh, logged, disk) = Views
    BY <2>3, <2>4, <2>5, <2>6, RecoveredIs DEF Recovery
  <2> QED
    BY <1>0, <1>9, <2>2, <2>7
<1>10. ASSUME NEW p \in Proc, Install(p) PROVE (AfterRecovery' = AfterRecovery \/ ((\E q \in Proc : WriteHead(q)) /\ AfterRecovery' = Views))
  <2>1. UNCHANGED <<head, logged>>
    BY <1>10 DEF Install, InstallBlock
  <2>2. CASE UNCHANGED disk
    BY <1>0, <2>1, <2>2
  <2>3. CASE tail < Len(lh) /\ disk' = [disk EXCEPT ![lh[tail + 1]] = logged[tail + 1]]
    <3>1. lh = head
      BY <1>10 DEF Install, RedoInv, CommitInv
    <3>2. tail + 1 \in DOMAIN head
      BY <2>3, <3>1 DEF RedoInv, TypeOK
    <3>3. disk' = [disk EXCEPT ![head[tail + 1]] = logged[tail + 1]]
      BY <2>3, <3>1
    <3>4. Recovered(head, logged, [disk EXCEPT ![head[tail + 1]] = logged[tail + 1]]) =
            Recovered(head, logged, disk)
      BY <1>0, <3>2, RecoveredHome, ZenonT(40)
    <3> QED
      BY <1>0, <2>1, <3>3, <3>4
  <2> QED
    BY <1>10, <2>2, <2>3 DEF Install, InstallBlock
<1>11. ASSUME NEW p \in Proc, Clear(p) PROVE (AfterRecovery' = AfterRecovery \/ ((\E q \in Proc : WriteHead(q)) /\ AfterRecovery' = Views))
  <2>1. head' = <<>> /\ Installed(head, Len(head)) /\ UNCHANGED <<disk, logged>>
    BY <1>11 DEF Clear, RedoInv, CommitInv
  <2>2. \A i \in DOMAIN head : disk[head[i]] = logged[i]
    BY <1>0, <2>1 DEF Installed
  <2>3. Recovered(head, logged, disk) = disk
    BY <1>0, <2>2, RecoveredDone
  <2> QED
    BY <1>0, <2>1, <2>3, RecoveredEmpty
<1>12. ASSUME NEW p \in Proc, Committed(p) PROVE (AfterRecovery' = AfterRecovery \/ ((\E q \in Proc : WriteHead(q)) /\ AfterRecovery' = Views))
  <2>1. UNCHANGED <<disk, logged, head>>
    BY <1>12, SMT DEF Committed, WakeupAndGoto
  <2> QED
    BY <1>0, <2>1
<1>13. ASSUME NEW b \in Block, Recycle(b) PROVE (AfterRecovery' = AfterRecovery \/ ((\E q \in Proc : WriteHead(q)) /\ AfterRecovery' = Views))
  <2>1. UNCHANGED <<disk, logged, head>>
    BY <1>13, SMT DEF Recycle
  <2> QED
    BY <1>0, <2>1
<1>14. ASSUME Crash PROVE (AfterRecovery' = AfterRecovery \/ ((\E q \in Proc : WriteHead(q)) /\ AfterRecovery' = Views))
  <2>1. UNCHANGED <<disk, logged, head>>
    BY <1>14, SMT DEF Crash, PowerOn
  <2> QED
    BY <1>0, <2>1
<1>15. ASSUME ReadHead PROVE (AfterRecovery' = AfterRecovery \/ ((\E q \in Proc : WriteHead(q)) /\ AfterRecovery' = Views))
  <2>1. UNCHANGED <<disk, logged, head>>
    BY <1>15, SMT DEF ReadHead
  <2> QED
    BY <1>0, <2>1
<1>16. ASSUME RecoverInstall PROVE (AfterRecovery' = AfterRecovery \/ ((\E q \in Proc : WriteHead(q)) /\ AfterRecovery' = Views))
  <2>1. UNCHANGED <<head, logged>>
    BY <1>16 DEF RecoverInstall, InstallBlock
  <2>2. CASE UNCHANGED disk
    BY <1>0, <2>1, <2>2
  <2>3. CASE tail < Len(lh) /\ disk' = [disk EXCEPT ![lh[tail + 1]] = logged[tail + 1]]
    <3>1. lh = head
      BY <1>16 DEF RecoverInstall, RedoInv, CommitInv
    <3>2. tail + 1 \in DOMAIN head
      BY <2>3, <3>1 DEF RedoInv, TypeOK
    <3>3. disk' = [disk EXCEPT ![head[tail + 1]] = logged[tail + 1]]
      BY <2>3, <3>1
    <3>4. Recovered(head, logged, [disk EXCEPT ![head[tail + 1]] = logged[tail + 1]]) =
            Recovered(head, logged, disk)
      BY <1>0, <3>2, RecoveredHome, ZenonT(40)
    <3> QED
      BY <1>0, <2>1, <3>3, <3>4
  <2> QED
    BY <1>16, <2>2, <2>3 DEF RecoverInstall, InstallBlock
<1>17. ASSUME RecoverClear PROVE (AfterRecovery' = AfterRecovery \/ ((\E q \in Proc : WriteHead(q)) /\ AfterRecovery' = Views))
  <2>1. head' = <<>> /\ Installed(head, Len(head)) /\ UNCHANGED <<disk, logged>>
    BY <1>17 DEF RecoverClear, RedoInv, CommitInv
  <2>2. \A i \in DOMAIN head : disk[head[i]] = logged[i]
    BY <1>0, <2>1 DEF Installed
  <2>3. Recovered(head, logged, disk) = disk
    BY <1>0, <2>2, RecoveredDone
  <2> QED
    BY <1>0, <2>1, <2>3, RecoveredEmpty
<1> QED
  BY <1>1, <1>2, <1>3, <1>4, <1>5, <1>6, <1>7, <1>8, <1>9, <1>10, <1>11, <1>12, <1>13,
      <1>14, <1>15, <1>16, <1>17 DEF Next, CommitStep, InitLog

\* The steps of AtomicDisk that leave durable alone
Moves ==
    /\ Seen' = Seen
    /\ \/ Active' = Active
       \/ \E p \in Proc : \/ p \notin Active /\ Active' = Active \cup {p}
                          \/ p \in Active /\ Active' = Active \ {p}
Writes ==
    /\ Active' = Active
    /\ \E p \in Active, b \in Block, d \in Data : Seen' = [Seen EXCEPT ![b] = d]
Restarts == Seen' = AfterRecovery' /\ Active' = {}


\* What the operations see changes by their writes only, or by a crash.
LEMMA NextSeen == RedoInv /\ [Next]_vars => (Moves \/ Writes \/ Restarts)
<1> SUFFICES ASSUME RedoInv, [Next]_vars PROVE (Moves \/ Writes \/ Restarts)
  OBVIOUS
<1>0. boot # "up" => AfterRecovery' = AfterRecovery
  BY NextDurable DEF WriteHead, RedoInv, OpsInv
<1>a. UNCHANGED <<disk, buf, boot>> => Seen' = Seen
  BY <1>0 DEF Seen, Views, View
<1>1. CASE UNCHANGED vars
  BY <1>1, <1>a DEF vars, Moves, Active
<1>2. ASSUME NEW p \in Proc, Call(p) PROVE (Moves \/ Writes \/ Restarts)
  <2>1. UNCHANGED <<disk, buf, boot, depth>>
    BY <1>2, SMT DEF Call
  <2> QED
    BY <1>a, <2>1 DEF Moves, Active
<1>3. ASSUME NEW p \in Proc, Begin(p) PROVE (Moves \/ Writes \/ Restarts)
  <2>1. UNCHANGED <<disk, buf, boot>> /\ depth' = [depth EXCEPT ![p] = depth[p] + 1]
    BY <1>3, SMT DEF Begin
  <2>2. depth \in [Proc -> 0 .. 2]
    BY DEF RedoInv, TypeOK
  <2>3. Active' = Active \/ (p \notin Active /\ Active' = Active \cup {p})
    BY <2>1, <2>2 DEF Active
  <2> QED
    BY <1>0, <1>a, <2>1, <2>3 DEF Moves
<1>4. ASSUME NEW p \in Proc, BeginSleep(p) PROVE (Moves \/ Writes \/ Restarts)
  <2>1. UNCHANGED <<disk, buf, boot, depth>>
    BY <1>4, SMT DEF BeginSleep
  <2> QED
    BY <1>a, <2>1 DEF Moves, Active
<1>5. ASSUME NEW p \in Proc, NEW b \in Block, NEW d \in Data, LogWrite(p, b, d) PROVE (Moves \/ Writes \/ Restarts)
  <2>1. boot = "up" /\ depth[p] > 0 /\ UNCHANGED <<disk, boot, depth>>
    BY <1>5 DEF LogWrite, RedoInv, OpsInv
  <2>2. p \in Active /\ Active' = Active
    BY <2>1 DEF Active
  <2>3. CASE buf' = buf
    BY <1>a, <2>1, <2>2, <2>3 DEF Moves
  <2>4. CASE buf' = [buf EXCEPT ![b] = d]
    <3>1. Views' = [Views EXCEPT ![b] = d]
      <4>1. buf \in [Block -> Data \cup {None}] /\ d # None
        BY LogAssumption DEF RedoInv, TypeOK
      <4> QED
        BY <2>1, <2>4, <4>1 DEF Views, View
    <3> QED
      BY <2>1, <2>2, <3>1 DEF Writes, Seen
  <2> QED
    BY <1>5, <2>3, <2>4 DEF LogWrite
<1>6. ASSUME NEW p \in Proc, EndOp(p) PROVE (Moves \/ Writes \/ Restarts)
  <2>1. UNCHANGED <<disk, buf, boot>> /\ depth' = [depth EXCEPT ![p] = depth[p] - 1]
    BY <1>6, SMT DEF EndOp
  <2>2. depth \in [Proc -> 0 .. 2] /\ depth[p] > 0
    BY <1>6 DEF RedoInv, TypeOK, OpsInv, EndOp
  <2>3. Active' = Active \/ (p \in Active /\ Active' = Active \ {p})
    BY <2>1, <2>2 DEF Active
  <2>4. Seen' = Seen
    BY <1>a, <2>1
  <2> QED
    BY <2>3, <2>4 DEF Moves
<1>7. ASSUME NEW p \in Proc, Commit(p) PROVE (Moves \/ Writes \/ Restarts)
  <2>1. UNCHANGED <<disk, buf, boot, depth>>
    BY <1>7, SMT DEF Commit
  <2> QED
    BY <1>a, <2>1 DEF Moves, Active
<1>8. ASSUME NEW p \in Proc, WriteLog(p) PROVE (Moves \/ Writes \/ Restarts)
  <2>1. UNCHANGED <<disk, buf, boot, depth>>
    BY <1>8, SMT DEF WriteLog
  <2> QED
    BY <1>a, <2>1 DEF Moves, Active
<1>9. ASSUME NEW p \in Proc, WriteHead(p) PROVE (Moves \/ Writes \/ Restarts)
  <2>1. UNCHANGED <<disk, buf, boot, depth>>
    BY <1>9, SMT DEF WriteHead
  <2> QED
    BY <1>a, <2>1 DEF Moves, Active
<1>10. ASSUME NEW p \in Proc, Install(p) PROVE (Moves \/ Writes \/ Restarts)
  <2>1. boot = "up" /\ Copied(Len(lh)) /\ UNCHANGED <<boot, depth>>
    BY <1>10 DEF Install, RedoInv, OpsInv, CommitInv
  <2>2. CASE UNCHANGED <<disk, buf>>
    BY <1>a, <2>1, <2>2 DEF Moves, Active
  <2>3. CASE tail < Len(lh) /\ InstallBlock
    <3>1. /\ disk' = [disk EXCEPT ![lh[tail + 1]] = logged[tail + 1]]
          /\ buf' = [buf EXCEPT ![lh[tail + 1]] = logged[tail + 1]]
      BY <2>3 DEF InstallBlock
    <3>2. lh[tail + 1] \in Block /\ logged[tail + 1] = View(lh[tail + 1])
      BY <2>1, <2>3 DEF RedoInv, TypeOK, Copied
    <3>3. disk \in [Block -> Data] /\ buf \in [Block -> Data \cup {None}]
      BY DEF RedoInv, TypeOK
    <3>4. Views' = Views
      BY <3>1, <3>2, <3>3 DEF Views, View
    <3> QED
      BY <1>0, <2>1, <3>4 DEF Moves, Seen, Active
  <2> QED
    BY <1>10, <2>2, <2>3 DEF Install, InstallBlock
<1>11. ASSUME NEW p \in Proc, Clear(p) PROVE (Moves \/ Writes \/ Restarts)
  <2>1. UNCHANGED <<disk, buf, boot, depth>>
    BY <1>11, SMT DEF Clear
  <2> QED
    BY <1>a, <2>1 DEF Moves, Active
<1>12. ASSUME NEW p \in Proc, Committed(p) PROVE (Moves \/ Writes \/ Restarts)
  <2>1. UNCHANGED <<disk, buf, boot, depth>>
    BY <1>12, SMT DEF Committed, WakeupAndGoto
  <2> QED
    BY <1>a, <2>1 DEF Moves, Active
<1>13. ASSUME NEW b \in Block, Recycle(b) PROVE (Moves \/ Writes \/ Restarts)
  <2>1. pin[b] = 0 /\ buf' = [buf EXCEPT ![b] = None] /\ UNCHANGED <<disk, boot, depth>>
    BY <1>13 DEF Recycle
  <2>2. buf \in [Block -> Data \cup {None}] /\ (buf[b] # None => buf[b] = disk[b])
    BY <2>1 DEF RedoInv, TypeOK, CacheInv
  <2>3. Views' = Views
    BY <2>1, <2>2 DEF Views, View
  <2> QED
    BY <1>0, <2>1, <2>3 DEF Moves, Seen, Active
<1>14. ASSUME Crash PROVE (Moves \/ Writes \/ Restarts)
  <2>1. boot' = "read_head" /\ depth' = [q \in Proc |-> 0]
    BY <1>14 DEF Crash, PowerOn
  <2>2. Active' = {}
    BY <2>1 DEF Active
  <2> QED
    BY <2>1, <2>2 DEF Restarts, Seen
<1>15. ASSUME ReadHead PROVE (Moves \/ Writes \/ Restarts)
  <2>1. boot # "up" /\ boot' # "up" /\ UNCHANGED depth
    BY <1>15, SMT DEF ReadHead
  <2> QED
    BY <1>0, <2>1 DEF Moves, Seen, Active
<1>16. ASSUME RecoverInstall PROVE (Moves \/ Writes \/ Restarts)
  <2>1. boot # "up" /\ boot' # "up" /\ UNCHANGED depth
    BY <1>16, SMT DEF RecoverInstall
  <2> QED
    BY <1>0, <2>1 DEF Moves, Seen, Active
<1>17. ASSUME RecoverClear PROVE (Moves \/ Writes \/ Restarts)
  <2>1. boot = "clear" /\ boot' = "up" /\ head' = <<>> /\ UNCHANGED <<disk, buf, depth>>
    BY <1>17 DEF RecoverClear, RedoInv, CommitInv
  <2>2. disk \in [Block -> Data]
    BY DEF RedoInv, TypeOK
  <2>3. \A b \in Block : buf[b] # None => buf[b] = disk[b]
    BY <2>1 DEF RedoInv, CacheInv
  <2>4. Views' = disk
    BY <2>1, <2>2, <2>3 DEF Views, View
  <2>5. AfterRecovery' = disk
    BY <2>1, <2>2 DEF AfterRecovery, InLog
  <2> QED
    BY <1>0, <2>1, <2>4, <2>5 DEF Moves, Seen, Active
<1> QED
  BY <1>1, <1>2, <1>3, <1>4, <1>5, <1>6, <1>7, <1>8, <1>9, <1>10, <1>11, <1>12, <1>13,
      <1>14, <1>15, <1>16, <1>17 DEF Next, CommitStep, InitLog

\* The log implements an atomic disk: whatever interleaving of operations,
\* commit, recycled buffers and power failures, the writes of an operation
\* become durable together, at write_head, or not at all (kernel/log.c:107-240).
THEOREM AtomicDiskRefinement == Spec => ImplementsAtomicDisk
<1>1. Init => Promise!Init
  <2> SUFFICES ASSUME Init PROVE Promise!Init
    OBVIOUS
  <2>1. Seen = AfterRecovery /\ Active = {}
    BY DEF Init, PowerOn, Seen, Active
  <2>2. AfterRecovery = disk /\ disk \in [Block -> Data]
    BY DEF Init, AfterRecovery, InLog
  <2> QED
    BY <2>1, <2>2 DEF Promise!Init, Seen, Active, Views
<1>2. RedoInv /\ [Next]_vars => [Promise!Next]_(Promise!vars)
  <2> SUFFICES ASSUME RedoInv, [Next]_vars PROVE [Promise!Next]_(Promise!vars)
    OBVIOUS
  <2>1. CASE AfterRecovery' = AfterRecovery
    <3>1. CASE Moves
      BY <2>1, <3>1 DEF Moves, Promise!Next, Promise!Begin, Promise!End, Promise!vars,
           Seen, Active, Views
    <3>2. CASE Writes
      BY <2>1, <3>2 DEF Writes, Promise!Next, Promise!Write, Seen, Active, Views
    <3>3. CASE Restarts
      BY <2>1, <3>3 DEF Restarts, Promise!Next, Promise!Crash, Seen, Active, Views
    <3> QED
      BY <3>1, <3>2, <3>3, NextSeen
  <2>2. CASE (\E q \in Proc : WriteHead(q)) /\ AfterRecovery' = Views
    <3>1. PICK p \in Proc : WriteHead(p)
      BY <2>2
    <3>2. /\ boot = "up" /\ committing /\ outstanding = 0
      BY <3>1 DEF WriteHead, RedoInv, OpsInv, Committing, CommitPcs
    <3>3. Active = {}
      BY <3>2, NobodyInside DEF Active, RedoInv, TypeOK
    <3>4. UNCHANGED <<boot, buf, disk, depth>>
      BY <3>1 DEF WriteHead
    <3>5. Seen' = Seen /\ Seen = Views /\ Active' = Active
      BY <3>2, <3>4 DEF Seen, Views, View, Active
    <3> QED
      BY <2>2, <3>3, <3>5 DEF Promise!Next, Promise!Commit, Seen, Active, Views
  <2> QED
    BY <2>1, <2>2, NextDurable
<1> QED
  BY <1>1, <1>2, RedoInvariance, PTL DEF Spec, ImplementsAtomicDisk, Promise!Spec


-----------------------------------------------------------------------------
(* The space of the log *)

Room == SpaceInv /\ RedoInv

\* What is not written yet is a finite set, at most OpBlocks blocks for each operation.
LEMMA UnwrittenBound ==
  /\ IsFiniteSet(Unwritten) /\ Cardinality(Unwritten) \in Nat
  /\ IsFiniteSet(Unwritten') /\ Cardinality(Unwritten') \in Nat
  /\ Cardinality(Unwritten') <= Cardinality(Inside(depth')) * OpBlocks
<1>1. IsFiniteSet(1 .. OpBlocks) /\ Cardinality(1 .. OpBlocks) = OpBlocks
  BY LogAssumption, FS_Interval
<1>2. IsFiniteSet(Inside(depth)) /\ IsFiniteSet(Inside(depth'))
  BY ProcFinite DEF Inside
<1>3. /\ IsFiniteSet(Inside(depth) \X (1 .. OpBlocks))
      /\ IsFiniteSet(Inside(depth') \X (1 .. OpBlocks))
      /\ Cardinality(Inside(depth') \X (1 .. OpBlocks)) = Cardinality(Inside(depth')) * OpBlocks
  BY <1>1, <1>2, FS_Product
<1>4. /\ Unwritten \subseteq Inside(depth) \X (1 .. OpBlocks)
      /\ Unwritten' \subseteq Inside(depth') \X (1 .. OpBlocks)
  BY DEF Unwritten, Inside
<1>5. /\ IsFiniteSet(Unwritten)
      /\ IsFiniteSet(Unwritten') /\ Cardinality(Unwritten') <= Cardinality(Inside(depth')) * OpBlocks
  BY <1>3, <1>4, FS_Subset
<1> QED
  BY <1>5, FS_CardinalityType

\* n operations of at most OpBlocks blocks fit in the n * MAXOPBLOCKS that are
\* reserved, and leave a block each when they do not use all of it.
LEMMA Reserved ==
  ASSUME NEW n \in Nat, NEW k \in Nat, k <= n
  PROVE  /\ k * OpBlocks \in Nat /\ n * MAXOPBLOCKS \in Nat
         /\ k * OpBlocks <= n * MAXOPBLOCKS - (IF OpBlocks = MAXOPBLOCKS THEN 0 ELSE n)
<1> DEFINE m == IF OpBlocks = MAXOPBLOCKS THEN MAXOPBLOCKS ELSE MAXOPBLOCKS - 1
<1>1. OpBlocks \in Nat /\ m \in Nat /\ OpBlocks <= m
  BY LogAssumption, SpaceAssumption
<1>2. k * OpBlocks <= k * m
  BY <1>1
<1>3. k * m <= n * m
  BY <1>1
<1>4. n * MAXOPBLOCKS = n * m + (IF OpBlocks = MAXOPBLOCKS THEN 0 ELSE n)
  BY LogAssumption
<1> QED
  BY <1>1, <1>2, <1>3, <1>4

\* The room that SpaceInv leaves
Limit == IF OpBlocks = MAXOPBLOCKS THEN LOGSIZE ELSE LOGSIZE - 2

LEMMA LimitType == Limit \in Int /\ Limit <= LOGSIZE
  BY LogAssumption DEF Limit

\* Nobody is inside an operation: nothing is written.
LEMMA NothingWritten ==
  ASSUME RedoInv, outstanding = 0, NEW p \in Proc
  PROVE  written[p] = {}
  BY NobodyInside DEF RedoInv, OpsInv


\* The reservation covers every block that log_write will append.
LEMMA NextSpace == Room /\ [Next]_vars => SpaceInv'
<1> SUFFICES ASSUME Room, [Next]_vars PROVE SpaceInv'
  OBVIOUS
<1>0. ASSUME UNCHANGED <<lh, outstanding, depth, written>>, Len(head') < LOGSIZE,
             \A q \in Proc : pc'[q] = "panic" => pc[q] = "panic",
             outstanding' = 0 /\ ~committing' /\ boot' = "up" => lh' = <<>>
      PROVE  SpaceInv'
  BY <1>0 DEF Room, SpaceInv, Unwritten, InLog
<1>1. CASE UNCHANGED vars
  BY <1>1 DEF vars, Room, SpaceInv, Unwritten, InLog
<1>2. ASSUME NEW p \in Proc, Call(p) PROVE SpaceInv'
  <2>1. UNCHANGED <<lh, outstanding, depth, written>>
    BY <1>2, SMT DEF Call
  <2>2. \A q \in Proc : pc'[q] = "panic" => pc[q] = "panic"
    BY <1>2, SMT DEF Call, Room, RedoInv, TypeOK
  <2>3. outstanding' = 0 /\ ~committing' /\ boot' = "up" => lh' = <<>>
    BY <1>2, SMT DEF Call, Room, SpaceInv, RedoInv, OpsInv, CommitInv, Committing,
         CommitPcs
  <2>4. Len(head') < LOGSIZE
    BY <1>2, SMT DEF Call, Room, SpaceInv
  <2> QED
    BY <1>0, <2>1, <2>2, <2>3, <2>4
<1>3. ASSUME NEW p \in Proc, Begin(p) PROVE SpaceInv'
  <2>1. /\ MayBegin /\ UNCHANGED <<lh, written, boot, committing>>
        /\ outstanding' = outstanding + 1
        /\ depth' = [depth EXCEPT ![p] = depth[p] + 1]
        /\ pc' = [pc EXCEPT ![p] = "op"]
    BY <1>3 DEF Begin
  <2>2. /\ outstanding \in Nat /\ boot = "up" /\ ~committing
        /\ Len(lh) + (outstanding + 1) * MAXOPBLOCKS <= LOGSIZE
    BY <1>3, <2>1 DEF MayBegin, Begin, Room, RedoInv, TypeOK, OpsInv
  <2> DEFINE rest == IF OpBlocks = MAXOPBLOCKS THEN 0 ELSE outstanding + 1
  <2>3. Cardinality(Unwritten') <= (outstanding + 1) * MAXOPBLOCKS - rest
    <3>1. Cardinality(Inside(depth')) <= outstanding + 1 /\ Cardinality(Inside(depth')) \in Nat
      BY <2>1, <2>2, NextCount, CountType DEF Counted, Room
    <3>2. Cardinality(Inside(depth')) * OpBlocks <= (outstanding + 1) * MAXOPBLOCKS - rest
      BY <2>2, <3>1, Reserved
    <3>3. /\ Cardinality(Inside(depth')) * OpBlocks \in Nat /\ (outstanding + 1) * MAXOPBLOCKS \in Nat
      BY <2>2, <3>1, Reserved
    <3> QED
      BY <2>2, <3>2, <3>3, UnwrittenBound
  <2>4. Len(lh) + Cardinality(Unwritten') <= Limit
    <3>1. CASE outstanding = 0
      <4>1. Len(lh) = 0
        BY <2>2, <3>1 DEF Room, SpaceInv
      <4>2. Cardinality(Unwritten') <= MAXOPBLOCKS - (IF OpBlocks = MAXOPBLOCKS THEN 0 ELSE 1)
        BY <2>3, <3>1, LogAssumption
      <4> QED
        BY <4>1, <4>2, UnwrittenBound, LogAssumption, SpaceAssumption DEF Limit
    <3>2. CASE outstanding >= 1
      <4>1. Len(lh) \in Nat /\ (outstanding + 1) * MAXOPBLOCKS \in Nat
        BY <2>2, Reserved DEF Room, RedoInv, TypeOK
      <4> QED
        BY <2>2, <2>3, <3>2, <4>1, UnwrittenBound, LogAssumption DEF Limit
    <3> QED
      BY <2>2, <3>1, <3>2
  <2>5. pc \in [Proc -> {"idle", "begin", "sleep", "op", "panic"} \cup CommitPcs]
    BY DEF Room, RedoInv, TypeOK
  <2>6. head' = head /\ \A q \in Proc : pc'[q] # "panic"
    BY <1>3, <2>5 DEF Begin, LockIsFree
  <2> QED
    BY <2>1, <2>2, <2>4, <2>6 DEF Room, SpaceInv, Limit
<1>4. ASSUME NEW p \in Proc, BeginSleep(p) PROVE SpaceInv'
  <2>1. UNCHANGED <<lh, outstanding, depth, written>>
    BY <1>4, SMT DEF BeginSleep
  <2>2. \A q \in Proc : pc'[q] = "panic" => pc[q] = "panic"
    BY <1>4, SMT DEF BeginSleep, Room, RedoInv, TypeOK
  <2>3. outstanding' = 0 /\ ~committing' /\ boot' = "up" => lh' = <<>>
    BY <1>4, SMT DEF BeginSleep, Room, SpaceInv, RedoInv, OpsInv, CommitInv, Committing,
         CommitPcs
  <2>4. Len(head') < LOGSIZE
    BY <1>4, SMT DEF BeginSleep, Room, SpaceInv
  <2> QED
    BY <1>0, <2>1, <2>2, <2>3, <2>4
<1>5. ASSUME NEW p \in Proc, NEW b \in Block, NEW d \in Data, LogWrite(p, b, d) PROVE SpaceInv'
  <2>1. /\ depth[p] > 0 /\ outstanding > 0 /\ boot = "up" /\ ~committing
    BY <1>5, NobodyInside DEF LogWrite, Room, RedoInv, OpsInv
  <2>2. Len(lh) + Cardinality(Unwritten) <= Limit /\ Len(lh) \in Nat
    BY <2>1 DEF Room, SpaceInv, RedoInv, TypeOK, Limit
  <2>a. head' = head /\ \A q \in Proc : pc[q] # "panic"
    BY <1>5 DEF LogWrite, LockIsFree
  <2>b. CASE LogFull
    <3>1. /\ UNCHANGED <<lh, written, outstanding, committing, depth, boot, head>>
          /\ pc' = [pc EXCEPT ![p] = "panic"]
      BY <1>5, <2>b DEF LogWrite
    <3>2. Len(lh) >= LOGSIZE - 1
      BY <2>2, <2>b, LogAssumption, SpaceAssumption DEF LogFull
    <3>3. OpBlocks = MAXOPBLOCKS
      BY <2>2, <3>2, UnwrittenBound, LogAssumption DEF Limit
    <3>4. \A q \in Proc : pc'[q] = "panic" => q = p
      BY <2>a, <3>1 DEF Room, RedoInv, TypeOK
    <3> QED
      BY <2>1, <3>1, <3>2, <3>3, <3>4 DEF Room, SpaceInv, Unwritten
  <2> SUFFICES ASSUME ~LogFull PROVE SpaceInv'
    BY <2>b
  <2>3. Len(lh) + 1 < LOGSIZE
    BY <2>2, LogAssumption, SpaceAssumption DEF LogFull
  <2>4. /\ UNCHANGED <<pc, outstanding, committing, depth, boot>>
        /\ written' = [written EXCEPT ![p] = written[p] \cup {b}]
        /\ b \in written[p] \/ Cardinality(written[p]) < OpBlocks
        /\ \/ b \in InLog(lh) /\ lh' = lh
           \/ b \notin InLog(lh) /\ lh' = Append(lh, b)
    BY <1>5 DEF LogWrite
  <2>5. written \in [Proc -> SUBSET Block] /\ depth \in [Proc -> 0 .. 2] /\ lh \in Seq(Block)
    BY DEF Room, RedoInv, TypeOK
  <2>6. InLog(lh') = InLog(lh) \cup {b}
    BY <2>4, <2>5 DEF InLog
  <2>7. \A q \in Proc : written[q] \subseteq InLog(lh) /\ IsFiniteSet(written[q]) /\ Cardinality(written[q]) <= OpBlocks
    BY DEF Room, SpaceInv
  <2>8. \A q \in Proc : Cardinality(written[q]) \in Nat
    BY <2>7, FS_CardinalityType
  <2>9. \A q \in Proc : /\ written'[q] \subseteq InLog(lh')
                        /\ IsFiniteSet(written'[q]) /\ Cardinality(written'[q]) <= OpBlocks
    <3> SUFFICES ASSUME NEW q \in Proc
                 PROVE  /\ written'[q] \subseteq InLog(lh')
                        /\ IsFiniteSet(written'[q]) /\ Cardinality(written'[q]) <= OpBlocks
      OBVIOUS
    <3>1. CASE q = p
      <4>1. /\ IsFiniteSet(written[p] \cup {b})
            /\ Cardinality(written[p] \cup {b}) =
                 IF b \in written[p] THEN Cardinality(written[p]) ELSE Cardinality(written[p]) + 1
        BY <2>7, FS_AddElement
      <4>2. written'[q] = written[p] \cup {b}
        BY <2>4, <2>5, <3>1
      <4>3. Cardinality(written[p] \cup {b}) <= OpBlocks
        BY <2>4, <2>7, <2>8, <4>1, LogAssumption
      <4> QED
        BY <2>6, <2>7, <4>1, <4>2, <4>3
    <3>2. CASE q # p
      BY <2>4, <2>5, <2>6, <2>7, <3>2
    <3> QED
      BY <3>1, <3>2
  <2>10. CASE b \in written[p]
    <3>1. written' = written /\ lh' = lh
      BY <2>4, <2>5, <2>7, <2>10
    <3> QED
      BY <2>2, <2>4, <2>9, <2>a, <3>1 DEF Room, SpaceInv, Unwritten, Limit
  <2>11. CASE b \notin written[p]
    <3> DEFINE n == Cardinality(written[p]) + 1
    <3>1. /\ n \in 1 .. OpBlocks
      BY <2>4, <2>8, <2>11, LogAssumption
    <3>2. Cardinality(written'[p]) = n
      <4>1. written'[p] = written[p] \cup {b}
        BY <2>4, <2>5
      <4> QED
        BY <2>7, <2>11, <4>1, FS_AddElement
    <3>3. \A q \in Proc : q # p => written'[q] = written[q]
      BY <2>4, <2>5
    <3>4. Unwritten' = Unwritten \ {<<p, n>>}
      <4> HIDE DEF n
      <4>1. Unwritten' = {c \in Proc \X (1 .. OpBlocks) : depth[c[1]] > 0 /\ c[2] > Cardinality(written'[c[1]])}
        BY <2>4 DEF Unwritten
      <4>2. ASSUME NEW q \in Proc, NEW i \in 1 .. OpBlocks
            PROVE  i > Cardinality(written'[q]) <=> i > Cardinality(written[q]) /\ <<q, i>> # <<p, n>>
        <5>1. CASE q = p
          BY <2>8, <3>1, <3>2, <5>1 DEF n
        <5>2. CASE q # p
          BY <3>3, <5>2
        <5> QED
          BY <5>1, <5>2
      <4> QED
        BY <4>1, <4>2 DEF Unwritten
    <3>5. <<p, n>> \in Unwritten
      BY <2>1, <2>8, <3>1 DEF Unwritten
    <3>6. Cardinality(Unwritten') = Cardinality(Unwritten) - 1
      BY <3>4, <3>5, UnwrittenBound, FS_RemoveElement
    <3>7. Len(lh') <= Len(lh) + 1 /\ Len(lh') \in Nat /\ Len(lh') < LOGSIZE
      BY <2>2, <2>3, <2>4, <2>5, LogAssumption
    <3>8. Len(lh') + Cardinality(Unwritten') <= Limit
      BY <2>2, <3>6, <3>7, UnwrittenBound, LimitType
    <3>9. outstanding' # 0
      BY <2>1, <2>4
    <3> QED
      BY <2>4, <2>9, <2>a, <3>7, <3>8, <3>9 DEF Room, SpaceInv, Limit
  <2> QED
    BY <2>10, <2>11
<1>6. ASSUME NEW p \in Proc, EndOp(p) PROVE SpaceInv'
  <2>1. depth[p] > 0 /\ outstanding > 0 /\ boot = "up" /\ ~committing
    BY <1>6, NobodyInside DEF EndOp, Room, RedoInv, OpsInv
  <2>2. /\ UNCHANGED <<lh, boot>>
        /\ outstanding' = outstanding - 1
        /\ depth' = [depth EXCEPT ![p] = depth[p] - 1]
        /\ written' = [written EXCEPT ![p] = IF depth[p] = 1 THEN {} ELSE written[p]]
        /\ outstanding = 1 => committing'
    BY <1>6, <2>1 DEF EndOp
  <2>3. written \in [Proc -> SUBSET Block] /\ depth \in [Proc -> 0 .. 2] /\ outstanding \in Nat
    BY DEF Room, RedoInv, TypeOK
  <2>4. head' = head /\ \A q \in Proc : pc'[q] # "panic"
    BY <1>6, <2>1, SMT DEF EndOp, LockIsFree, WakeupAndGoto, Room, RedoInv, TypeOK
  <2>5. \A q \in Proc : /\ written[q] \subseteq InLog(lh)
                        /\ IsFiniteSet(written[q]) /\ Cardinality(written[q]) <= OpBlocks
    BY DEF Room, SpaceInv
  <2>6. \A q \in Proc : /\ written'[q] \subseteq InLog(lh')
                        /\ IsFiniteSet(written'[q]) /\ Cardinality(written'[q]) <= OpBlocks
    <3>1. IsFiniteSet({}) /\ Cardinality({}) <= OpBlocks
      BY FS_EmptySet, LogAssumption
    <3>2. \A q \in Proc : written'[q] = written[q] \/ written'[q] = {}
      BY <2>2, <2>3
    <3> QED
      BY <2>2, <2>5, <3>1, <3>2
  <2>7. Unwritten' \subseteq Unwritten
    <3> SUFFICES ASSUME NEW q \in Proc, NEW i \in 1 .. OpBlocks,
                        depth'[q] > 0, i > Cardinality(written'[q])
                 PROVE  depth[q] > 0 /\ i > Cardinality(written[q])
      BY DEF Unwritten
    <3>1. CASE q = p
      <4>1. depth[p] = 2
        BY <2>2, <2>3, <3>1
      <4> QED
        BY <2>2, <2>3, <3>1, <4>1
    <3>2. CASE q # p
      BY <2>2, <2>3, <3>2
    <3> QED
      BY <3>1, <3>2
  <2>8. Cardinality(Unwritten') <= Cardinality(Unwritten)
    BY <2>7, UnwrittenBound, FS_Subset
  <2>9. Len(lh) + Cardinality(Unwritten) <= Limit /\ Len(lh) \in Nat
    BY <2>1 DEF Room, SpaceInv, RedoInv, TypeOK, Limit
  <2>10. Len(lh') + Cardinality(Unwritten') <= Limit
    BY <2>2, <2>8, <2>9, UnwrittenBound, LimitType
  <2>11. Len(lh') < LOGSIZE /\ Len(head') < LOGSIZE
    BY <2>2, <2>4 DEF Room, SpaceInv
  <2> QED
    BY <2>1, <2>2, <2>3, <2>4, <2>6, <2>10, <2>11 DEF SpaceInv, Limit
<1>7. ASSUME NEW p \in Proc, Commit(p) PROVE SpaceInv'
  <2>1. UNCHANGED <<lh, outstanding, depth, written>>
    BY <1>7, SMT DEF Commit
  <2>2. \A q \in Proc : pc'[q] = "panic" => pc[q] = "panic"
    BY <1>7, SMT DEF Commit, Room, RedoInv, TypeOK
  <2>3. outstanding' = 0 /\ ~committing' /\ boot' = "up" => lh' = <<>>
    BY <1>7, SMT DEF Commit, Room, SpaceInv, RedoInv, OpsInv, CommitInv, Committing,
         CommitPcs
  <2>4. Len(head') < LOGSIZE
    BY <1>7, SMT DEF Commit, Room, SpaceInv
  <2> QED
    BY <1>0, <2>1, <2>2, <2>3, <2>4
<1>8. ASSUME NEW p \in Proc, WriteLog(p) PROVE SpaceInv'
  <2>1. UNCHANGED <<lh, outstanding, depth, written>>
    BY <1>8, SMT DEF WriteLog
  <2>2. \A q \in Proc : pc'[q] = "panic" => pc[q] = "panic"
    BY <1>8, SMT DEF WriteLog, Room, RedoInv, TypeOK
  <2>3. outstanding' = 0 /\ ~committing' /\ boot' = "up" => lh' = <<>>
    BY <1>8, SMT DEF WriteLog, Room, SpaceInv, RedoInv, OpsInv, CommitInv, Committing,
         CommitPcs
  <2>4. Len(head') < LOGSIZE
    BY <1>8, SMT DEF WriteLog, Room, SpaceInv
  <2> QED
    BY <1>0, <2>1, <2>2, <2>3, <2>4
<1>9. ASSUME NEW p \in Proc, WriteHead(p) PROVE SpaceInv'
  <2>1. UNCHANGED <<lh, outstanding, depth, written>>
    BY <1>9, SMT DEF WriteHead
  <2>2. \A q \in Proc : pc'[q] = "panic" => pc[q] = "panic"
    BY <1>9, SMT DEF WriteHead, Room, RedoInv, TypeOK
  <2>3. outstanding' = 0 /\ ~committing' /\ boot' = "up" => lh' = <<>>
    BY <1>9, SMT DEF WriteHead, Room, SpaceInv, RedoInv, OpsInv, CommitInv, Committing,
         CommitPcs
  <2>4. Len(head') < LOGSIZE
    BY <1>9, SMT DEF WriteHead, Room, SpaceInv
  <2> QED
    BY <1>0, <2>1, <2>2, <2>3, <2>4
<1>10. ASSUME NEW p \in Proc, Install(p) PROVE SpaceInv'
  <2>1. outstanding = 0 /\ outstanding' = 0 /\ UNCHANGED written
        /\ (outstanding' = 0 /\ ~committing' /\ boot' = "up" => lh' = <<>>)
    BY <1>10, SMT DEF Install, InstallBlock, Room, RedoInv, OpsInv, CommitInv,
         Committing, CommitPcs
  <2>2. \A q \in Proc : pc'[q] # "panic"
    <3>1. \A q \in Proc : pc[q] # "panic"
      BY <2>1, NobodyInside DEF Room, SpaceInv, RedoInv, TypeOK
    <3> QED
      BY <1>10, <3>1, SMT DEF Install, InstallBlock, Room, RedoInv, TypeOK
  <2>3. \A q \in Proc : written'[q] = {}
    BY <2>1, NothingWritten DEF Room
  <2>4. IsFiniteSet({}) /\ Cardinality({}) <= OpBlocks
    BY FS_EmptySet, LogAssumption
  <2>5. \A q \in Proc : /\ IsFiniteSet(written'[q]) /\ Cardinality(written'[q]) <= OpBlocks
                        /\ written'[q] \subseteq InLog(lh')
    BY <2>3, <2>4
  <2>6. ~(outstanding' > 0)
    BY <2>1
  <2>7. Len(lh') < LOGSIZE /\ Len(head') < LOGSIZE
    <3>1. Len(<<>>) = 0 /\ 0 < LOGSIZE
      BY LogAssumption, SpaceAssumption
    <3> QED
      BY <1>10, <3>1, SMT DEF Install, InstallBlock, Room, SpaceInv, RedoInv, CommitInv
  <2> QED
    BY <2>1, <2>2, <2>5, <2>6, <2>7 DEF SpaceInv
<1>11. ASSUME NEW p \in Proc, Clear(p) PROVE SpaceInv'
  <2>1. UNCHANGED <<lh, outstanding, depth, written>>
    BY <1>11, SMT DEF Clear
  <2>2. \A q \in Proc : pc'[q] = "panic" => pc[q] = "panic"
    BY <1>11, SMT DEF Clear, Room, RedoInv, TypeOK
  <2>3. outstanding' = 0 /\ ~committing' /\ boot' = "up" => lh' = <<>>
    BY <1>11, SMT DEF Clear, Room, SpaceInv, RedoInv, OpsInv, CommitInv, Committing,
         CommitPcs
  <2>4. Len(head') < LOGSIZE
    BY <1>11, SMT DEF Clear, Room, SpaceInv
  <2> QED
    BY <1>0, <2>1, <2>2, <2>3, <2>4
<1>12. ASSUME NEW p \in Proc, Committed(p) PROVE SpaceInv'
  <2>1. UNCHANGED <<lh, outstanding, depth, written>>
    BY <1>12, SMT DEF Committed, WakeupAndGoto
  <2>2. \A q \in Proc : pc'[q] = "panic" => pc[q] = "panic"
    BY <1>12, SMT DEF Committed, WakeupAndGoto, Room, RedoInv, TypeOK
  <2>3. outstanding' = 0 /\ ~committing' /\ boot' = "up" => lh' = <<>>
    BY <1>12, SMT DEF Committed, WakeupAndGoto, Room, SpaceInv, RedoInv, OpsInv,
         CommitInv, Committing, CommitPcs
  <2>4. Len(head') < LOGSIZE
    BY <1>12, SMT DEF Committed, Room, SpaceInv
  <2> QED
    BY <1>0, <2>1, <2>2, <2>3, <2>4
<1>13. ASSUME NEW b \in Block, Recycle(b) PROVE SpaceInv'
  <2>1. UNCHANGED <<lh, outstanding, depth, written>>
    BY <1>13, SMT DEF Recycle
  <2>2. \A q \in Proc : pc'[q] = "panic" => pc[q] = "panic"
    BY <1>13, SMT DEF Recycle, Room, RedoInv, TypeOK
  <2>3. outstanding' = 0 /\ ~committing' /\ boot' = "up" => lh' = <<>>
    BY <1>13, SMT DEF Recycle, Room, SpaceInv, RedoInv, OpsInv, CommitInv, Committing,
         CommitPcs
  <2>4. Len(head') < LOGSIZE
    BY <1>13, SMT DEF Recycle, Room, SpaceInv
  <2> QED
    BY <1>0, <2>1, <2>2, <2>3, <2>4
<1>14. ASSUME Crash PROVE SpaceInv'
  <2>1. /\ outstanding' = 0 /\ boot' # "up" /\ written' = [q \in Proc |-> {}]
        /\ pc' = [q \in Proc |-> "idle"] /\ lh' = <<>> /\ head' = head
    BY <1>14 DEF Crash, PowerOn
  <2>2. IsFiniteSet({}) /\ Cardinality({}) <= OpBlocks
    BY FS_EmptySet, LogAssumption
  <2>3. Len(lh') < LOGSIZE /\ Len(head') < LOGSIZE
    BY <2>1, LogAssumption, SpaceAssumption DEF Room, SpaceInv
  <2> QED
    BY <2>1, <2>2, <2>3 DEF SpaceInv
<1>15. ASSUME ReadHead PROVE SpaceInv'
  <2>1. outstanding = 0 /\ outstanding' = 0 /\ UNCHANGED written
        /\ (outstanding' = 0 /\ ~committing' /\ boot' = "up" => lh' = <<>>)
    BY <1>15, SMT DEF ReadHead, Room, RedoInv, OpsInv, CommitInv, Committing, CommitPcs
  <2>2. \A q \in Proc : pc'[q] # "panic"
    <3>1. \A q \in Proc : pc[q] # "panic"
      BY <2>1, NobodyInside DEF Room, SpaceInv, RedoInv, TypeOK
    <3> QED
      BY <1>15, <3>1, SMT DEF ReadHead, Room, RedoInv, TypeOK
  <2>3. \A q \in Proc : written'[q] = {}
    BY <2>1, NothingWritten DEF Room
  <2>4. IsFiniteSet({}) /\ Cardinality({}) <= OpBlocks
    BY FS_EmptySet, LogAssumption
  <2>5. \A q \in Proc : /\ IsFiniteSet(written'[q]) /\ Cardinality(written'[q]) <= OpBlocks
                        /\ written'[q] \subseteq InLog(lh')
    BY <2>3, <2>4
  <2>6. ~(outstanding' > 0)
    BY <2>1
  <2>7. Len(lh') < LOGSIZE /\ Len(head') < LOGSIZE
    <3>1. Len(<<>>) = 0 /\ 0 < LOGSIZE
      BY LogAssumption, SpaceAssumption
    <3> QED
      BY <1>15, <3>1, SMT DEF ReadHead, Room, SpaceInv, RedoInv, CommitInv
  <2> QED
    BY <2>1, <2>2, <2>5, <2>6, <2>7 DEF SpaceInv
<1>16. ASSUME RecoverInstall PROVE SpaceInv'
  <2>1. outstanding = 0 /\ outstanding' = 0 /\ UNCHANGED written
        /\ (outstanding' = 0 /\ ~committing' /\ boot' = "up" => lh' = <<>>)
    BY <1>16, SMT DEF RecoverInstall, InstallBlock, Room, RedoInv, OpsInv, CommitInv,
         Committing, CommitPcs
  <2>2. \A q \in Proc : pc'[q] # "panic"
    <3>1. \A q \in Proc : pc[q] # "panic"
      BY <2>1, NobodyInside DEF Room, SpaceInv, RedoInv, TypeOK
    <3> QED
      BY <1>16, <3>1, SMT DEF RecoverInstall, InstallBlock, Room, RedoInv, TypeOK
  <2>3. \A q \in Proc : written'[q] = {}
    BY <2>1, NothingWritten DEF Room
  <2>4. IsFiniteSet({}) /\ Cardinality({}) <= OpBlocks
    BY FS_EmptySet, LogAssumption
  <2>5. \A q \in Proc : /\ IsFiniteSet(written'[q]) /\ Cardinality(written'[q]) <= OpBlocks
                        /\ written'[q] \subseteq InLog(lh')
    BY <2>3, <2>4
  <2>6. ~(outstanding' > 0)
    BY <2>1
  <2>7. Len(lh') < LOGSIZE /\ Len(head') < LOGSIZE
    <3>1. Len(<<>>) = 0 /\ 0 < LOGSIZE
      BY LogAssumption, SpaceAssumption
    <3> QED
      BY <1>16, <3>1, SMT DEF RecoverInstall, InstallBlock, Room, SpaceInv, RedoInv, CommitInv
  <2> QED
    BY <2>1, <2>2, <2>5, <2>6, <2>7 DEF SpaceInv
<1>17. ASSUME RecoverClear PROVE SpaceInv'
  <2>1. outstanding = 0 /\ outstanding' = 0 /\ UNCHANGED written
        /\ (outstanding' = 0 /\ ~committing' /\ boot' = "up" => lh' = <<>>)
    BY <1>17, SMT DEF RecoverClear, Room, RedoInv, OpsInv, CommitInv, Committing,
         CommitPcs
  <2>2. \A q \in Proc : pc'[q] # "panic"
    <3>1. \A q \in Proc : pc[q] # "panic"
      BY <2>1, NobodyInside DEF Room, SpaceInv, RedoInv, TypeOK
    <3> QED
      BY <1>17, <3>1, SMT DEF RecoverClear, Room, RedoInv, TypeOK
  <2>3. \A q \in Proc : written'[q] = {}
    BY <2>1, NothingWritten DEF Room
  <2>4. IsFiniteSet({}) /\ Cardinality({}) <= OpBlocks
    BY FS_EmptySet, LogAssumption
  <2>5. \A q \in Proc : /\ IsFiniteSet(written'[q]) /\ Cardinality(written'[q]) <= OpBlocks
                        /\ written'[q] \subseteq InLog(lh')
    BY <2>3, <2>4
  <2>6. ~(outstanding' > 0)
    BY <2>1
  <2>7. Len(lh') < LOGSIZE /\ Len(head') < LOGSIZE
    <3>1. Len(<<>>) = 0 /\ 0 < LOGSIZE
      BY LogAssumption, SpaceAssumption
    <3> QED
      BY <1>17, <3>1, SMT DEF RecoverClear, Room, SpaceInv, RedoInv, CommitInv
  <2> QED
    BY <2>1, <2>2, <2>5, <2>6, <2>7 DEF SpaceInv
<1> QED
  BY <1>1, <1>2, <1>3, <1>4, <1>5, <1>6, <1>7, <1>8, <1>9, <1>10, <1>11, <1>12, <1>13,
      <1>14, <1>15, <1>16, <1>17 DEF Next, CommitStep, InitLog

\* What the log promises about its space and its blocks, in one inductive
\* invariant (begin_op, log_write, end_op, commit, initlog)
THEOREM Invariance == Spec => []Inv
<1>1. Init => SpaceInv
  <2> SUFFICES ASSUME Init PROVE SpaceInv
    OBVIOUS
  <2>1. IsFiniteSet({}) /\ Cardinality({}) <= OpBlocks
    BY FS_EmptySet, LogAssumption
  <2>2. Len(<<>>) = 0 /\ 0 < LOGSIZE
    BY LogAssumption, SpaceAssumption
  <2> QED
    BY <2>1, <2>2 DEF Init, PowerOn, SpaceInv
<1>2. Inv /\ [Next]_vars => Inv'
  BY NextType, NextOps, NextCache, NextCommit, NextSpace DEF Inv, Room, RedoInv
<1> QED
  BY <1>1, <1>2, InitRedo, PTL DEF Spec, Inv

\* However many operations overlap: log_write panics with "too big a
\* transaction" only for the last block of operations that log all they have
\* reserved, and not at all when OpBlocks < MAXOPBLOCKS; end_op never panics
\* with "log.committing" (begin_op, log_write, end_op of kernel/log.c).
THEOREM PanicsOnlyWhenFull == Spec => []OnlyLastBlockPanics
<1>1. Inv => OnlyLastBlockPanics
  <2> SUFFICES ASSUME Inv, NEW p \in Proc, pc[p] = "panic"
               PROVE  /\ OpBlocks = MAXOPBLOCKS
                      /\ Len(lh) = LOGSIZE - 1 /\ Cardinality(Unwritten) <= 1
                      /\ depth[p] > 0 /\ ~committing
    BY DEF Inv, RedoInv, OnlyLastBlockPanics
  <2>1. /\ OpBlocks = MAXOPBLOCKS /\ depth[p] > 0
        /\ Len(lh) >= LOGSIZE - 1 /\ Len(lh) < LOGSIZE /\ Len(lh) \in Nat
    BY DEF Inv, SpaceInv, RedoInv, TypeOK
  <2>2. outstanding > 0 /\ ~committing
    BY <2>1, NobodyInside DEF Inv, RedoInv
  <2>3. Len(lh) + Cardinality(Unwritten) <= LOGSIZE
    BY <2>1, <2>2 DEF Inv, SpaceInv
  <2> QED
    BY <2>1, <2>2, <2>3, UnwrittenBound, LogAssumption
<1> QED
  BY <1>1, Invariance, PTL

=============================================================================
