------------------------------ MODULE BigFile ------------------------------
(***************************************************************************)
(* The blocks of files in Assignment 4 (fs.c, with the loops of fileread   *)
(* and filewrite in file.c): balloc, bfree, bmap with its double-indirect  *)
(* block, itrunc, readi and writei.                                        *)
(*                                                                         *)
(* A step is one round of the loop of writei, the start or the end of an   *)
(* operation, or a call that keeps the inode locked to its end.  Names and *)
(* references of inodes are in FileTree, the log in Log.  A block holds    *)
(* BSIZE units; a block number is one unit, so NINDIRECT is BSIZE.         *)
(***************************************************************************)
EXTENDS Integers, Sequences, FiniteSets, FiniteSetsExt

CONSTANTS
    Proc,
    File,           \* inodes
    Data,           \* units of data, not 0
    NDIRECT,
    BSIZE,
    BPB,            \* bits of a bitmap block
    Blocks,         \* bound: data blocks of the disk, enough for the calls
    MAXOPBLOCKS,
    Taken,          \* how many blocks are in use before the first call
    Sizes,          \* bound: counts of the calls
    MaxCalls,       \* bound: calls of all processes
    None

ASSUME BigFileAssumption ==
    /\ NDIRECT \in Nat /\ BSIZE \in Nat \ {0} /\ BPB \in Nat \ {0}
    /\ 0 \notin Data

NINDIRECT == BSIZE
MAXFILE == NDIRECT + NINDIRECT + NINDIRECT * NINDIRECT
Block == 1 .. Blocks
BBLOCK(b) == b \div BPB

VARIABLES
    disk,       \* used: the bitmap; data: the blocks; wrote: what the operations have logged
    inode,      \* addrs, size, and whether the inode is in use
    lock,       \* holder of the inode's lock
    open,       \* the inode a process has open
    off,        \* f->off
    pc,
    want,       \* what is left of a filewrite, and the data
    n, tot,     \* argument and local of writei
    result,     \* what the last read returned
    lost,       \* history: blocks whose only reference was in an inode that was freed
    calls

callVars == <<open, off, pc, want, n, tot, result, calls>>
vars == <<disk, inode, lock, callVars, lost>>

Zero == [i \in 0 .. BSIZE - 1 |-> 0]
NoAddrs == [i \in 0 .. NDIRECT + 1 |-> 0]

Init ==
    /\ disk \in {[used |-> 1 .. k, data |-> [b \in Block |-> Zero],
                  wrote |-> [p \in Proc |-> {}]] : k \in Taken}
    /\ inode = [f \in File |-> [addrs |-> NoAddrs, size |-> 0, live |-> FALSE]]
    /\ lock = [f \in File |-> None]
    /\ open = [p \in Proc |-> None]
    /\ off = [p \in Proc |-> 0]
    /\ pc = [p \in Proc |-> "idle"]
    /\ want = [p \in Proc |-> <<0, None>>]
    /\ n = [p \in Proc |-> 0] /\ tot = [p \in Proc |-> 0]
    /\ result = [p \in Proc |-> <<>>]
    /\ lost = {}
    /\ calls = 0

TypeOK ==
    /\ disk.used \subseteq Block
    /\ disk.data \in [Block -> [0 .. BSIZE - 1 -> Data \cup {0} \cup Block]]
    /\ \A f \in File : inode[f].addrs \in [0 .. NDIRECT + 1 -> Block \cup {0}]
                       /\ inode[f].size \in 0 .. MAXFILE * BSIZE
    /\ lock \in [File -> Proc \cup {None}]
    /\ open \in [Proc -> File \cup {None}]
    /\ pc \in [Proc -> {"idle", "begin", "write"}]
    /\ lost \subseteq Block

-----------------------------------------------------------------------------
(* balloc and bmap, as functions of the disk d for process p *)

Log(d, p, b) == [d EXCEPT !.wrote[p] = @ \cup {b}]

Free(d) == Block \ d.used
Balloc(d, p) ==
    LET b == Min(Free(d)) IN
    [addr |-> b,
     disk |-> [used |-> d.used \cup {b}, data |-> [d.data EXCEPT ![b] = Zero],
               wrote |-> [d.wrote EXCEPT ![p] = @ \cup {<<"bitmap", BBLOCK(b)>>, <<"block", b>>}]]]

\* mutant of Entry: the block that was allocated is not written to the table
EntryForgets(d, p, b, i) ==
    IF d.data[b][i] # 0 THEN [addr |-> d.data[b][i], disk |-> d] ELSE Balloc(d, p)
\* entry i of the table in block b, which is allocated if need be
Entry(d, p, b, i) ==
    IF d.data[b][i] # 0 THEN [addr |-> d.data[b][i], disk |-> d]
    ELSE LET new == Balloc(d, p) IN
         [addr |-> new.addr, disk |-> Log([new.disk EXCEPT !.data[b][i] = new.addr], p, <<"block", b>>)]

\* The inode's own entry a for block bn, and the indices in the tables below
Path(bn) ==
    IF bn < NDIRECT THEN <<bn, <<>>>>
    ELSE IF bn < NDIRECT + NINDIRECT THEN <<NDIRECT, <<bn - NDIRECT>>>>
    ELSE LET x == bn - NDIRECT - NINDIRECT IN <<NDIRECT + 1, <<x \div NINDIRECT, x % NINDIRECT>>>>

Bmap(d, p, addrs, bn) ==
    LET top == Path(bn)[1]
        path == Path(bn)[2]
        first == IF addrs[top] # 0 THEN [addr |-> addrs[top], disk |-> d] ELSE Balloc(d, p)
        second == Entry(first.disk, p, first.addr, path[1])
        third == Entry(second.disk, p, second.addr, path[2])
        last == CASE Len(path) = 0 -> first [] Len(path) = 1 -> second [] Len(path) = 2 -> third
    IN  [addr |-> last.addr, disk |-> last.disk, addrs |-> [addrs EXCEPT ![top] = first.addr]]

\* what bmap finds, or 0
Lookup(f, bn) ==
    LET at(b, i) == IF b = 0 THEN 0 ELSE disk.data[b][i]
        first == inode[f].addrs[Path(bn)[1]]
        path == Path(bn)[2]
    IN  CASE Len(path) = 0 -> first
          [] Len(path) = 1 -> at(first, path[1])
          [] Len(path) = 2 -> at(at(first, path[1]), path[2])

-----------------------------------------------------------------------------
(* itrunc *)

Entries(b) == IF b = 0 THEN {} ELSE {disk.data[b][i] : i \in 0 .. BSIZE - 1} \ {0}
Direct(f) == {inode[f].addrs[i] : i \in 0 .. NDIRECT - 1} \ {0}
Indirect(f) == ({inode[f].addrs[NDIRECT]} \ {0}) \cup Entries(inode[f].addrs[NDIRECT])
Double(f) ==
    LET top == inode[f].addrs[NDIRECT + 1] IN
    ({top} \ {0}) \cup Entries(top) \cup UNION {Entries(b) : b \in Entries(top)}

Freed(f) == Direct(f) \cup Indirect(f)

\* What is behind addrs[NDIRECT+1] stays.
Itrunc(f, live) ==
    /\ disk' = [disk EXCEPT !.used = @ \ Freed(f)]
    /\ inode' = [inode EXCEPT ![f].addrs = [i \in 0 .. NDIRECT + 1 |-> IF i <= NDIRECT THEN 0 ELSE @[i]],
                              ![f].size = 0, ![f].live = live]

-----------------------------------------------------------------------------
(* The calls *)

Calls(p) ==
    /\ pc[p] = "idle"
    /\ calls < MaxCalls
    /\ calls' = calls + 1

Opened(p, f) ==
    /\ open' = [open EXCEPT ![p] = f]
    /\ off' = [off EXCEPT ![p] = 0]
    /\ UNCHANGED <<lock, pc, want, n, tot, result>>

Open(p, f) ==
    /\ Calls(p) /\ open[p] = None
    /\ inode[f].live
    /\ Opened(p, f)
    /\ UNCHANGED <<disk, inode, lost>>

\* O_TRUNC
OpenTrunc(p, f) ==
    /\ Calls(p) /\ open[p] = None
    /\ inode[f].live /\ lock[f] = None
    /\ Opened(p, f)
    /\ Itrunc(f, TRUE)
    /\ UNCHANGED lost

\* create; ialloc clears the inode.
Create(p, f) ==
    /\ Calls(p) /\ open[p] = None
    /\ ~inode[f].live
    /\ Opened(p, f)
    /\ inode' = [inode EXCEPT ![f] = [addrs |-> NoAddrs, size |-> 0, live |-> TRUE]]
    /\ lost' = lost \cup Double(f)
    /\ UNCHANGED disk

Close(p) ==
    /\ pc[p] = "idle" /\ open[p] # None
    /\ open' = [open EXCEPT ![p] = None]
    /\ UNCHANGED <<disk, inode, lock, off, pc, want, n, tot, result, lost, calls>>

\* iput of an inode without links
Delete(p, f) ==
    /\ Calls(p)
    /\ inode[f].live
    /\ \A q \in Proc : open[q] # f
    /\ Itrunc(f, FALSE)
    /\ UNCHANGED <<lock, open, off, pc, want, n, tot, result, lost>>

Read(p) ==
    /\ Calls(p) /\ open[p] # None
    /\ lock[open[p]] = None
    /\ LET f == open[p] IN
       \E count \in Sizes :
         LET k == IF off[p] > inode[f].size THEN 0 ELSE Min({count, inode[f].size - off[p]})
             unit(i) == disk.data[Lookup(f, i \div BSIZE)][i % BSIZE]
         IN  /\ result' = [result EXCEPT ![p] = [i \in 1 .. k |-> unit(off[p] + i - 1)]]
             /\ off' = [off EXCEPT ![p] = @ + k]
    /\ UNCHANGED <<disk, inode, lock, open, pc, want, n, tot, lost>>

Filewrite(p) ==
    /\ Calls(p) /\ open[p] # None
    /\ \E count \in Sizes, d \in Data : want' = [want EXCEPT ![p] = <<count, d>>]
    /\ pc' = [pc EXCEPT ![p] = "begin"]
    /\ UNCHANGED <<disk, inode, lock, open, off, n, tot, result, lost>>

\* mutant of MaxChunk: without the slop for a write that is not aligned
MaxChunkAligned == ((MAXOPBLOCKS - 1 - 1) \div 2) * BSIZE
MaxChunk == ((MAXOPBLOCKS - 1 - 1 - 2) \div 2) * BSIZE

\* begin_op, ilock, and the tests of writei
Begin(p) ==
    /\ pc[p] = "begin"
    /\ lock[open[p]] = None
    /\ LET f == open[p]
           n1 == Min({want[p][1], MaxChunk})
       IN  \/ /\ off[p] > inode[f].size \/ off[p] + n1 > MAXFILE * BSIZE
              /\ pc' = [pc EXCEPT ![p] = "idle"]
              /\ UNCHANGED <<lock, n>>
           \/ /\ off[p] <= inode[f].size /\ off[p] + n1 <= MAXFILE * BSIZE
              /\ lock' = [lock EXCEPT ![f] = p]
              /\ n' = [n EXCEPT ![p] = n1]
              /\ pc' = [pc EXCEPT ![p] = "write"]
    /\ disk' = [disk EXCEPT !.wrote[p] = {}]
    /\ UNCHANGED <<inode, open, off, want, tot, result, lost, calls>>

\* one round of the loop
Writei(p) ==
    /\ pc[p] = "write" /\ tot[p] < n[p]
    /\ LET f == open[p]
           at == off[p] + tot[p]
           m == Min({n[p] - tot[p], BSIZE - (at % BSIZE)})
           map == Bmap(disk, p, inode[f].addrs, at \div BSIZE)
       IN  /\ disk' = Log([map.disk EXCEPT !.data[map.addr] =
                             [i \in 0 .. BSIZE - 1 |-> IF i \in (at % BSIZE) .. (at % BSIZE) + m - 1
                                                       THEN want[p][2] ELSE @[i]]],
                          p, <<"block", map.addr>>)
           /\ inode' = [inode EXCEPT ![f].addrs = map.addrs]
           /\ tot' = [tot EXCEPT ![p] = @ + m]
    /\ UNCHANGED <<lock, open, off, pc, want, n, result, lost, calls>>

\* copyin has failed: bmap is done, nothing is copied.
WriteiFails(p) ==
    /\ pc[p] = "write" /\ tot[p] < n[p]
    /\ LET f == open[p]
           map == Bmap(disk, p, inode[f].addrs, (off[p] + tot[p]) \div BSIZE)
       IN  /\ disk' = map.disk
           /\ inode' = [inode EXCEPT ![f].addrs = map.addrs]
    /\ want' = [want EXCEPT ![p][1] = tot[p]]
    /\ n' = [n EXCEPT ![p] = tot[p]]
    /\ UNCHANGED <<lock, open, off, pc, tot, result, lost, calls>>

\* mutant of NewSize: the size is that of the last write
NewSizeLast(size, end) == end
NewSize(size, end) == Max({size, end})

\* the end of writei and of the operation
End(p) ==
    /\ pc[p] = "write" /\ tot[p] = n[p]
    /\ LET f == open[p] IN
       /\ inode' = [inode EXCEPT ![f].size = NewSize(@, off[p] + tot[p])]
       /\ lock' = [lock EXCEPT ![f] = None]
       /\ disk' = Log(disk, p, <<"inode", f>>)
    /\ off' = [off EXCEPT ![p] = @ + tot[p]]
    /\ want' = [want EXCEPT ![p][1] = @ - tot[p]]
    /\ tot' = [tot EXCEPT ![p] = 0]
    /\ pc' = [pc EXCEPT ![p] = IF want[p][1] = tot[p] THEN "idle" ELSE "begin"]
    /\ UNCHANGED <<open, n, result, lost, calls>>

-----------------------------------------------------------------------------
Next ==
    \E p \in Proc :
        \/ \E f \in File : Open(p, f) \/ OpenTrunc(p, f) \/ Create(p, f) \/ Delete(p, f)
        \/ Close(p) \/ Read(p) \/ Filewrite(p)
        \/ Begin(p) \/ Writei(p) \/ WriteiFails(p) \/ End(p)

Spec == Init /\ [][Next]_vars

-----------------------------------------------------------------------------
(* Properties *)

Owned(f) == Direct(f) \cup Indirect(f) \cup Double(f)
\* how many entries of f name a block: as many as there are blocks, if none
\* is named twice
NamedTwice(f) ==
    LET top == inode[f].addrs[NDIRECT + 1]
        tables == ({inode[f].addrs[NDIRECT], top} \ {0}) \cup Entries(top)
        count(b) == Cardinality({i \in 0 .. BSIZE - 1 : disk.data[b][i] # 0})
    IN  Cardinality(Owned(f)) # Cardinality({i \in DOMAIN inode[f].addrs : inode[f].addrs[i] # 0})
                                + MapThenSumSet(count, tables)

\* Every variable has its type, and a block that is in use has one owner: one
\* entry of one file names it.  The only blocks that are in use without one
\* are those that itrunc has left behind addrs[NDIRECT+1] of an inode that
\* was freed.
BlocksOwnedOnce ==
    /\ TypeOK
    /\ \A f \in File : ~NamedTwice(f) /\ Owned(f) \cap lost = {}
    /\ \A f, g \in File : f # g => Owned(f) \cap Owned(g) = {}
    /\ \E k \in Taken : disk.used = 1 .. k \cup lost \cup UNION {Owned(f) : f \in File}

\* An operation of filewrite stays within what begin_op has reserved for it,
\* whatever the offset, if the free blocks belong to two bitmap blocks.
OpFitsLog == \A p \in Proc : Cardinality(disk.wrote[p]) <= MAXOPBLOCKS

Position(p) == off[p] + tot[p]
Length(f) == IF lock[f] = None THEN inode[f].size ELSE Max({inode[f].size, Position(lock[f])})
Promise == INSTANCE FileContents WITH
    contents <- [f \in File |-> [i \in 1 .. Length(f) |->
                    disk.data[Lookup(f, (i - 1) \div BSIZE)][(i - 1) % BSIZE]]],
    pos <- [p \in Proc |-> Position(p)]

\* Every file reads as it was written, at any size, for processes that write
\* and truncate the same or other files between the operations of a write.
ImplementsFileContents == Promise!Spec
=============================================================================
