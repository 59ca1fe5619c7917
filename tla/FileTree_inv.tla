---------------------------- MODULE FileTree_inv -----------------------------
(***************************************************************************)
(* The inductive invariants of FileTree, and what they are made of: the    *)
(* pointers, locks and names of a process at every place of a call         *)
(* (RefInv), the agreement of slots, inodes, links and names (TreeInv),    *)
(* and what a step may do to them.                                         *)
(***************************************************************************)
EXTENDS FileTree

-----------------------------------------------------------------------------
(* The pointers of a process, the locks it holds and the names it has in    *)
(* hand, for any paths                                                      *)

Rets == {"create", "open", "chdir", "link", "unlink", "readlink_found", "chdir_lock", "link_parent"}
IpPcs == {"create_old", "create_new", "created", "open_check", "open_file", "chdir_check",
          "link_inc", "link_parent", "link_add", "link_put", "link_exists", "link_bad",
          "unlink_remove", "unlink_dec"}
DpPcs == {"create_look", "create_new", "link_add", "link_exists", "unlink_look", "unlink_remove", "unlink_bad"}
WantPcs == {"create_old", "create_new", "open_check", "chdir_check", "link_bad", "unlink_remove"}

\* where a process is, or will be when namei returns
Where(p) == IF pc[p] \in {"namei", "look"} THEN ret[p] ELSE pc[p]

HasIp(p) == Where(p) \in IpPcs \/ (Where(p) \in {"readlink_found", "readlink_read"} /\ call[p].op = "open")

\* A pointer is null where it is not in use.
PtrInv(p) ==
    /\ pc[p] \in {"namei", "look"} => ret[p] \in Rets
    /\ ip[p] # 0 <=> HasIp(p)
    /\ dp[p] # 0 <=> pc[p] \in DpPcs
    /\ pc[p] \in {"look", "readlink_read"} => cur[p] # 0
    /\ cur[p] # 0 => pc[p] \in Rets \cup {"look", "readlink_read"}
    /\ want[p] # 0 => IF pc[p] = "look" THEN want[p] = cur[p] ELSE want[p] = ip[p] /\ pc[p] \in WantPcs
    /\ put[p] # 0 => pc[p] \notin {"namei", "readlink_read"} /\ (pc[p] = "look" => want[p] # 0)
    /\ put[p] = 0 => stage[p] = "iput"

OpInv(p) ==
    /\ Where(p) \in {"create", "create_look", "create_old", "create_new", "created"} =>
         call[p].op \in {"create", "mkdir", "symlink"}
    /\ Where(p) \in {"link", "link_inc", "link_parent", "link_add", "link_put", "link_exists", "link_bad"} =>
         call[p].op = "link"
    /\ Where(p) \in {"open", "open_check"} => call[p].op = "open"
    /\ Where(p) \in {"chdir", "chdir_again", "chdir_lock", "chdir_check"} => call[p].op = "chdir"
    /\ Where(p) \in {"readlink_found", "readlink_read"} => call[p].op \in {"open", "chdir", "readlink"}

\* who has a name to look up in the directory at hand
HasName(p) ==
    \/ pc[p] \in {"look", "create_look", "create_new", "link_add", "unlink_look", "unlink_remove"}
    \/ pc[p] \in {"create", "unlink", "link_parent"} /\ cur[p] # 0
PathInv(p) == HasName(p) => rest[p] \in Seq(Entries) /\ rest[p] # <<>>

InumInv == \A s \in Slot : itable[s].ref > 0 => itable[s].inum # 0

\* the locks that a process holds
HasLockedIp(p) ==
    /\ want[p] = 0
    /\ pc[p] \in {"create_old", "create_new", "created", "open_check", "open_file", "chdir_check",
                  "link_inc", "link_bad", "unlink_remove", "unlink_dec"}
Truncating(p) == put[p] # 0 /\ stage[p] \in {"iput_trunc", "iput_invalid"}
Locks(p, s) ==
    \/ pc[p] \in {"look", "readlink_read"} /\ want[p] = 0 /\ s = cur[p]
    \/ HasLockedIp(p) /\ s = ip[p]
    \/ pc[p] \in DpPcs /\ s = dp[p]
    \/ Truncating(p) /\ s = put[p]
\* No lock is taken twice.
Distinct(p) ==
    /\ HasLockedIp(p) /\ pc[p] \in DpPcs => ip[p] # dp[p]
    /\ Truncating(p) /\ HasLockedIp(p) => put[p] # ip[p]
    /\ Truncating(p) /\ pc[p] \in DpPcs => put[p] # dp[p]
LockInv == \A p \in Proc, s \in Slot : itable[s].lock = p <=> Locks(p, s)
ValidInv == \A s \in Slot : itable[s].lock # NoOne => itable[s].valid

ProcInv(p) == PtrInv(p) /\ OpInv(p) /\ PathInv(p) /\ Distinct(p)
RefInv == RefsExact /\ (\A p \in Proc : ProcInv(p)) /\ InumInv /\ LockInv /\ ValidInv

-----------------------------------------------------------------------------
(* Least elements, constants *)

Lt == {ss \in Nat \X Nat : ss[1] < ss[2]}

-----------------------------------------------------------------------------
(* References *)

Is(x, s) == IF x = s THEN 1 ELSE 0
\* the pointers of p to slot s
Hold(p, s) ==
    Is(cur[p], s) + Is(ip[p], s) + Is(dp[p], s) + Is(put[p], s) + Is(cwd[p], s) + Is(ofile[p], s)
SamePointers(q) ==
    /\ cur'[q] = cur[q] /\ ip'[q] = ip[q] /\ dp'[q] = dp[q]
    /\ put'[q] = put[q] /\ cwd'[q] = cwd[q] /\ ofile'[q] = ofile[q]

Own(p, s) == {x \in Pointers : Deref(p, x) = s}

\* The references to s: those of p, and those of the others
ElseRefs(p, s) == {r \in (Proc \ {p}) \X Pointers : Deref(r[1], r[2]) = s}

RefsSum == \A p \in Proc : \A s : References(s) = Cardinality(ElseRefs(p, s)) + Hold(p, s)

-----------------------------------------------------------------------------
(* A step of p changes the variables of no other process *)

Local(p) ==
    /\ pc' = [pc EXCEPT ![p] = pc'[p]] /\ ret' = [ret EXCEPT ![p] = ret'[p]]
    /\ put' = [put EXCEPT ![p] = put'[p]] /\ stage' = [stage EXCEPT ![p] = stage'[p]]
    /\ want' = [want EXCEPT ![p] = want'[p]] /\ cur' = [cur EXCEPT ![p] = cur'[p]]
    /\ ip' = [ip EXCEPT ![p] = ip'[p]] /\ dp' = [dp EXCEPT ![p] = dp'[p]]
    /\ call' = [call EXCEPT ![p] = call'[p]] /\ path' = [path EXCEPT ![p] = path'[p]]
    /\ rest' = [rest EXCEPT ![p] = rest'[p]] /\ count' = [count EXCEPT ![p] = count'[p]]
    /\ cwd' = [cwd EXCEPT ![p] = cwd'[p]] /\ ofile' = [ofile EXCEPT ![p] = ofile'[p]]

Same(q) ==
    /\ pc'[q] = pc[q] /\ ret'[q] = ret[q] /\ put'[q] = put[q] /\ stage'[q] = stage[q]
    /\ want'[q] = want[q] /\ cur'[q] = cur[q] /\ ip'[q] = ip[q] /\ dp'[q] = dp[q]
    /\ call'[q] = call[q] /\ path'[q] = path[q] /\ rest'[q] = rest[q] /\ count'[q] = count[q]
    /\ cwd'[q] = cwd[q] /\ ofile'[q] = ofile[q]

Stages == {"iput", "iput_trunc", "iput_invalid", "iput_drop"}
Call == Calls \cup {[op |-> "none"]}
OwnType(p) ==
    /\ pc[p] \in Pcs /\ ret[p] \in Pcs /\ put[p] \in Pointer /\ want[p] \in Pointer
    /\ stage[p] \in Stages /\ cur[p] \in Pointer /\ ip[p] \in Pointer /\ dp[p] \in Pointer
    /\ call[p] \in Call /\ path[p] \in Paths /\ rest[p] \in Paths /\ count[p] \in Nat
    /\ cwd[p] \in Slot /\ ofile[p] \in Pointer

DiskType ==
    /\ dinode \in [Inum -> [type : Types, nlink : Int]]
    /\ entry \in [Inum -> [Entries -> Inum \cup {0}]]
    /\ target \in [Inum -> Paths]
Inode == [inum : Inum \cup {0}, ref : Nat, valid : BOOLEAN, lock : Proc \cup {NoOne},
          type : Types, nlink : Int]
TableType == itable \in [Slot -> Inode]
ProcType ==
    /\ pc \in [Proc -> Pcs] /\ ret \in [Proc -> Pcs]
    /\ put \in [Proc -> Pointer] /\ want \in [Proc -> Pointer]
    /\ stage \in [Proc -> Stages]
    /\ cur \in [Proc -> Pointer] /\ ip \in [Proc -> Pointer] /\ dp \in [Proc -> Pointer]
    /\ call \in [Proc -> Call]
    /\ path \in [Proc -> Paths] /\ rest \in [Proc -> Paths] /\ count \in [Proc -> Nat]
    /\ cwd \in [Proc -> Slot] /\ ofile \in [Proc -> Pointer]

\* Locks are taken from nobody and given back by their holder.
LockMove(p) ==
    \A s \in Slot : \/ itable'[s].lock = itable[s].lock
                    \/ itable[s].lock = NoOne /\ itable'[s].lock = p
                    \/ itable[s].lock = p /\ itable'[s].lock = NoOne
RefMove(p) ==
    \A s \in Slot : itable'[s].ref + leaked[s] + Hold(p, s) = itable[s].ref + leaked'[s] + Hold(p, s)'

-----------------------------------------------------------------------------
(* What the operators of the inode table do to each field *)

\* Slot x of table t differs from slot y of table u in no field but its lock, or
\* its count.
ButLock(a, b) ==
    /\ a.inum = b.inum /\ a.ref = b.ref /\ a.valid = b.valid
    /\ a.type = b.type /\ a.nlink = b.nlink
ButRef(a, b) ==
    /\ a.inum = b.inum /\ a.lock = b.lock /\ a.valid = b.valid
    /\ a.type = b.type /\ a.nlink = b.nlink

\* The table after iget of i, and releasesleep of the slots in U
GotTable(i, U) ==
    /\ TableType' /\ Got(i) \in Slot /\ itable'[Got(i)].inum = i
    /\ \A x \in Slot : /\ itable'[x].ref = itable[x].ref + Is(x, Got(i))
                       /\ itable'[x].lock = IF x \in U THEN NoOne ELSE itable[x].lock
                       /\ itable'[x].type = itable[x].type /\ itable'[x].nlink = itable[x].nlink
                       /\ x # Got(i) \/ itable[x].ref > 0 =>
                            itable'[x].inum = itable[x].inum /\ itable'[x].valid = itable[x].valid
    /\ itable[Got(i)].ref = 0 => /\ ~itable'[Got(i)].valid
                                 /\ \A x \in Slot : itable[x].ref > 0 => itable[x].inum # i

-----------------------------------------------------------------------------
(* Steps by what they do to the table *)

Good(p) == OwnType(p) /\ PtrInv(p) /\ OpInv(p) /\ PathInv(p) /\ Distinct(p)

-----------------------------------------------------------------------------
(* The variables of p after a step *)

LocalCtl(p) ==
    /\ pc' = [pc EXCEPT ![p] = pc'[p]] /\ put' = [put EXCEPT ![p] = put'[p]]
    /\ stage' = [stage EXCEPT ![p] = stage'[p]] /\ want' = [want EXCEPT ![p] = want'[p]]
LocalRet(p) == ret' = [ret EXCEPT ![p] = ret'[p]]
LocalRest(p) == rest' = [rest EXCEPT ![p] = rest'[p]]
LocalPtr(p) ==
    cur' = [cur EXCEPT ![p] = cur'[p]] /\ ip' = [ip EXCEPT ![p] = ip'[p]] /\ dp' = [dp EXCEPT ![p] = dp'[p]]
LocalArg(p) ==
    call' = [call EXCEPT ![p] = call'[p]] /\ path' = [path EXCEPT ![p] = path'[p]]
    /\ count' = [count EXCEPT ![p] = count'[p]]
LocalFile(p) == cwd' = [cwd EXCEPT ![p] = cwd'[p]] /\ ofile' = [ofile EXCEPT ![p] = ofile'[p]]

-----------------------------------------------------------------------------
(* create *)

\* The table after releasesleep of s, and any changes of link counts
Released(s) ==
    /\ TableType'
    /\ \A x \in Slot : /\ itable'[x].ref = itable[x].ref /\ itable'[x].inum = itable[x].inum
                       /\ itable'[x].valid = itable[x].valid
                       /\ itable'[x].lock = IF x = s THEN NoOne ELSE itable[x].lock

\* What create does to the table when it enters a new inode
Linked(s, t, d) ==
    \A x \in Slot : /\ itable'[x].type = itable[x].type
                    /\ itable'[x].nlink = IF x = s THEN itable[s].nlink + d
                                          ELSE IF x = t THEN 1 ELSE itable[x].nlink

-----------------------------------------------------------------------------
(* Inodes in the table and on disk                                          *)

Live(i) == dinode[i].type # "none"
\* "/" or a name leads to inode i.
Reach(i) == i = ROOTINO \/ \E d \in Inum, n \in Name : entry[d][n] = i

\* The reference that iput is about to drop is to a slot, not to an inode.
Points(p, x, s) == Deref(p, x) = s /\ ~(x = "put" /\ stage[p] \in {"iput_invalid", "iput_drop"})
LiveInv == \A p \in Proc, x \in Pointers, s \in Slot : Points(p, x, s) => Live(itable[s].inum)

\* An inode has one slot, and if that is valid, it is as on disk.
OnDisk(s) ==
    /\ Live(itable[s].inum)
    /\ itable[s].type = dinode[itable[s].inum].type
    /\ itable[s].nlink = dinode[itable[s].inum].nlink
Freeing(p, s) == put[p] = s /\ stage[p] = "iput_invalid"
SlotInv ==
    \A s \in Slot : itable[s].ref > 0 =>
        /\ \A t \in Slot : itable[t].ref > 0 /\ itable[t].inum = itable[s].inum => t = s
        /\ itable[s].valid /\ (\A p \in Proc : ~Freeing(p, s)) => OnDisk(s)

FreeInv == \A i \in Inum : ~Live(i) => dinode[i].nlink = 0 /\ \A n \in Name : entry[i][n] = 0

\* What iput is about to free is still without links and other references.
TruncInv(p) == put[p] # 0 /\ stage[p] = "iput_trunc" => LastRef(put[p])

\* What create has allocated is nobody else's and has no link yet.
FreshInv(p) ==
    pc[p] = "create_new" =>
        /\ dinode[itable[ip[p]].inum].nlink = 0
        /\ \A q \in Proc, x \in Pointers : Points(q, x, ip[p]) => q = p /\ x = "ip"

\* The entry that create, link and unlink are about to change
EntryInv(p) ==
    /\ pc[p] \in {"create_look", "create_new", "link_add", "unlink_remove"} => put[p] = 0
    /\ pc[p] \in {"create_new", "unlink_remove"} => LastName(p) \in Name
    /\ pc[p] = "create_new" => entry[Dir(p)][LastName(p)] = 0
    /\ pc[p] = "unlink_remove" => entry[Dir(p)][LastName(p)] = itable[ip[p]].inum

\* Nobody makes a link to a directory.
LinkInv(p) ==
    Where(p) \in {"link_parent", "link_add", "link_exists", "link_bad"} =>
        dinode[itable[ip[p]].inum].type # "dir"

OwnInv(p) == TruncInv(p) /\ FreshInv(p) /\ EntryInv(p) /\ LinkInv(p)
TreeInv ==
    /\ LiveInv /\ SlotInv /\ FreeInv /\ LinksExact /\ PanicsAreKnown
    /\ \A p \in Proc : OwnInv(p)

-----------------------------------------------------------------------------
(* What a name leads to is alive *)

TypeOf == [j \in Inum |-> dinode[j].type]

-----------------------------------------------------------------------------
(* What a step of p does to the slots and inodes that others use *)

Kept(s) ==
    /\ itable'[s].valid = itable[s].valid /\ itable'[s].type = itable[s].type
    /\ itable'[s].nlink = itable[s].nlink
    /\ Live(itable[s].inum) => dinode'[itable[s].inum] = dinode[itable[s].inum]
Gains(p, s) == Hold(p, s) = 0 /\ Hold(p, s)' > 0
\* the slots of p that differ from before
Renewed(p, s) == ~itable'[s].valid \/ OnDisk(s)' \/ Freeing(p, s)'

SlotStep(p) ==
    /\ \A s \in Slot : itable[s].ref > 0 => itable'[s].inum = itable[s].inum
    /\ \A s \in Slot : itable[s].ref = 0 /\ itable'[s].ref > 0 =>
         /\ ~itable'[s].valid
         /\ \A t \in Slot \ {s} : itable'[t].ref > 0 => itable[t].ref > 0 /\ itable[t].inum # itable'[s].inum
    /\ \A s \in Slot : itable[s].ref > 0 => Kept(s) \/ (Hold(p, s) > 0 /\ Renewed(p, s))
    /\ \A s \in Slot : Freeing(p, s) => ~itable'[s].valid
    /\ \A s \in Slot : Hold(p, s) = 0 => leaked'[s] = leaked[s]
\* p points to inodes that live; where it has a new pointer, that is to an inode that
\* was alive and nobody is freeing or making, or has just been allocated.
LiveStep(p) ==
    /\ \A s \in Slot : Gains(p, s) => Live(itable[s].inum)' /\ (~Stale(itable'[s].inum) \/ ~Live(itable'[s].inum))
    /\ \A x \in Pointers, s \in Slot :
         Points(p, x, s)' => Live(itable[s].inum)' /\ (Gains(p, s) \/ \E y \in Pointers : Points(p, y, s))
    /\ \A q \in Proc \ {p}, x \in Pointers, s \in Slot :
         Points(q, x, s) => dinode'[itable[s].inum].type = dinode[itable[s].inum].type
    /\ \A i \in Inum : Live(i) /\ dinode'[i] # dinode[i] =>
         \E x \in Pointers, s \in Slot : Points(p, x, s) /\ itable[s].inum = i
\* Directories change under their locks.
EntryStep(p) ==
    \A d \in Inum, n \in Name :
        entry'[d][n] # entry[d][n] => \E s \in Slot : Locks(p, s) /\ itable[s].inum = d

-----------------------------------------------------------------------------
(* Link counts *)

Flies(p, i) == IF Counted(p) /\ itable[ip[p]].inum = i THEN 1 ELSE 0
ElseFlight(p, i) == {q \in Proc \ {p} : Counted(q) /\ itable[ip[q]].inum = i}

FlightSum == \A p \in Proc : \A i : /\ Cardinality(InFlight(i)) = Cardinality(ElseFlight(p, i)) + Flies(p, i)
                                    /\ Cardinality(ElseFlight(p, i)) \in Nat

-----------------------------------------------------------------------------
(* The links of an entry *)

\* f has name n in directory d, for inode k, more than e.
Entered(e, f, d, n, k) ==
    /\ e[d][n] = 0 /\ f[d][n] = k
    /\ \A c \in Inum, m \in Name : (c # d \/ m # n) => f[c][m] = e[c][m]

-----------------------------------------------------------------------------
(* Names and who holds the inodes *)

Alive == {i \in Inum : dinode[i].type # "none"}
NamesNow == [i \in Inum |-> [n \in Name |-> entry[i][n]]]
HeldNow == [p \in Proc |-> InodesOf(p)]
NamesStep == [Promise!Next]_(Promise!vars)

HeldAliveNow == RefInv /\ LiveInv => \A q \in Proc : InodesOf(q) \subseteq Alive

-----------------------------------------------------------------------------
(* Steps that leave names and inodes as they are *)

Harmless == {"", "iget: no inodes", "ialloc: no inodes", "we have a cycle", "ilock"} \cup Beyond

\* Slots change in no more than their locks.
Still ==
    \A s \in Slot : /\ itable'[s].inum = itable[s].inum /\ itable'[s].ref = itable[s].ref
                    /\ itable'[s].valid = itable[s].valid /\ itable'[s].type = itable[s].type
                    /\ itable'[s].nlink = itable[s].nlink

-----------------------------------------------------------------------------
(* What a step of p has to show about p *)

\* places at which no names are left to walk
Nameless == {"idle", "create_old", "created", "open_check", "open_file", "chdir_check", "chdir_lock",
             "link", "link_inc", "link_put", "link_exists", "link_bad",
             "unlink_look", "unlink_remove", "unlink_bad", "unlink_dec"}

-----------------------------------------------------------------------------
(* Steps that leave names and inodes as they are, one by one *)

Calm == Nameless \ {"link_exists", "link_bad", "unlink_remove", "unlink_dec"}

-----------------------------------------------------------------------------
(* iput *)

OnlyPut(p, i) == \A q \in Proc, x \in Pointers, t \in Slot : Deref(q, x) = t /\ itable[t].inum = i => q = p /\ x = "put"

-----------------------------------------------------------------------------
(* Link counts and entries *)

\* The counts change as the links do.
Balances(p) ==
    \A i \in Inum : dinode'[i].nlink + Links(entry, TypeOf, i) + Flies(p, i) =
                    dinode[i].nlink + Links(entry', TypeOf', i) + Flies(p, i)'

Counts(p, s, d) ==
    /\ \A i \in Inum : dinode'[i].nlink = dinode[i].nlink + (IF i = itable[s].inum THEN d ELSE 0)
    /\ \A i : Flies(p, i)' = Flies(p, i) + (IF i = itable[s].inum THEN d ELSE 0)

-----------------------------------------------------------------------------
(* Entries that come and go *)

\* The entry of name n in directory d becomes k.
Becomes(d, n, k) ==
    /\ entry'[d][n] = k
    /\ \A c \in Inum, m \in Name : (c # d \/ m # n) => entry'[c][m] = entry[c][m]

Subdir(d, k, i) == IF i = d /\ TypeOf[k] = "dir" THEN 1 ELSE 0

-----------------------------------------------------------------------------
(* ialloc *)

\* p has allocated k, which is in slot g now.
Allocated(p, k, g) ==
    /\ k \in Inum /\ g \in Slot /\ ~Live(k) /\ g = Got(k) /\ GotTable(k, {})
    /\ dinode'[k].type # "none" /\ dinode'[k].nlink = 0
    /\ \A i \in Inum : i # k => dinode'[i] = dinode[i]
    /\ UNCHANGED <<entry, target, cur, dp, rest, leaked, panic, cwd, ofile, lost>>
    /\ pc'[p] = "create_new" /\ put'[p] = 0 /\ stage'[p] = "iput" /\ ip'[p] = g

\* create has both the directory and the new inode locked.
Entering(p, s, t, d, i) ==
    /\ s \in Slot /\ t \in Slot /\ s # t /\ s = dp[p] /\ t = ip[p]
    /\ d \in Inum /\ i \in Inum /\ d # i /\ d = itable[s].inum /\ i = itable[t].inum
    /\ \A x \in Slot : Locks(p, x) <=> x = s \/ x = t
    /\ Live(d) /\ Live(i) /\ itable[s].nlink = dinode[d].nlink /\ itable[t].type = dinode[i].type
    /\ dinode[i].nlink = 0 /\ LastName(p) \in Name /\ entry[d][LastName(p)] = 0

\* What CreateNew does
Enters(p, s, t, d, i, m) ==
    /\ m \in Int /\ m = IF itable[t].type = "dir" THEN 1 ELSE 0
    /\ itable' = Unlock(AddLink([itable EXCEPT ![t].nlink = 1], s, m), s)
    /\ dinode' = UpdateLink([dinode EXCEPT ![i].nlink = 1], s, m)
    /\ Becomes(d, LastName(p), i)

\* unlink has both the directory and the inode of its entry locked.
Leaving(p, s, t, d, i) ==
    /\ s \in Slot /\ t \in Slot /\ s # t /\ s = dp[p] /\ t = ip[p]
    /\ d \in Inum /\ i \in Inum /\ d # i /\ d = itable[s].inum /\ i = itable[t].inum
    /\ \A x \in Slot : Locks(p, x) <=> x = s \/ x = t
    /\ Live(d) /\ itable[s].nlink = dinode[d].nlink
    /\ itable[t].type = dinode[i].type /\ itable[t].nlink = dinode[i].nlink /\ dinode[i].nlink >= 1
    /\ LastName(p) \in Name /\ entry[d][LastName(p)] = i

\* What UnlinkRemove does
Removes(p, s, t, d, i, m) ==
    /\ m \in Int /\ m = IF itable[t].type = "dir" THEN -1 ELSE 0
    /\ itable' = Unlock(AddLink(itable, s, m), s)
    /\ dinode' = UpdateLink(dinode, s, m)
    /\ Becomes(d, LastName(p), 0)

RemoveFacts(s, t, d, i, m) ==
    /\ Released(s) /\ \A x \in Slot : itable'[x].type = itable[x].type
    /\ itable'[s].nlink = dinode'[d].nlink
    /\ \A x \in Slot : x # s => itable'[x].nlink = itable[x].nlink
    /\ \A x \in Inum : dinode'[x].type = dinode[x].type
    /\ \A x \in Inum : x # d => dinode'[x] = dinode[x]
    /\ dinode'[d].nlink = dinode[d].nlink + m
=============================================================================
