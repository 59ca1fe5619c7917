------------------------------ MODULE FileTree ------------------------------
(***************************************************************************)
(* Names, links and the inode table of the file system of A4 (fs.c, the    *)
(* path calls of sysfile.c, readlink of file.c): processes that open,      *)
(* create, link, unlink and change directories at the same time.           *)
(*                                                                         *)
(* A step is one critical section: of itable.lock, or of an inode's sleep  *)
(* lock from one acquisition to the next.  pc is the place in the call at  *)
(* which a process goes on when the iput (put) and the ilock (want) that   *)
(* come first are done, and ret the place after namei.  The contents       *)
(* of a directory are a function from names to inode numbers; file data    *)
(* is left out, and so are "." and inodes of devices.  The log makes each  *)
(* call atomic on disk (module Log), so dinode is what bread returns.      *)
(***************************************************************************)
EXTENDS Integers, Sequences, FiniteSets, FiniteSetsExt

CONSTANTS
    Proc,
    Name,             \* names of directory entries
    NINODES,          \* sb.ninodes - 1: inodes on disk
    NINODE,           \* entries of the inode table
    MAX_DEREFERENCE,  \* links that readlink follows before it panics
    Calls,            \* the calls processes make, with their paths
    Trees,            \* the file systems the kernel may boot with
    MaxCalls          \* bound: calls made in all

ROOTINO == 1
Inum == 1 .. NINODES
Slot == 1 .. NINODE
DotDot == ".."
Entries == Name \cup {DotDot}
Empty == [n \in Entries |-> 0]
NoOne == "nobody"
Types == {"none", "dir", "file", "sym"}

\* A path is a sequence of names, after "/" if it is absolute.
IsAbsolute(path) == path # <<>> /\ Head(path) = "/"
Names(path) == IF IsAbsolute(path) THEN Tail(path) ELSE path
Paths == {path \in Seq(Entries \cup {"/"}) : Names(path) \in Seq(Entries)}

\* A tree that a boot finds has no names but of its inodes.
IsTree(t) ==
    /\ t.type \in [Inum -> Types] /\ t.type[ROOTINO] = "dir"
    /\ t.entry \in [Inum -> [Entries -> Inum \cup {0}]]
    /\ t.target \in [Inum -> Paths]
    /\ \A i \in Inum : t.type[i] = "none" => t.entry[i] = Empty
    /\ \A i \in Inum, n \in Name : t.entry[i][n] # 0 => t.type[t.entry[i][n]] # "none"

ASSUME TreeAssumption ==
    /\ NINODES \in Nat \ {0} /\ NINODE \in Nat \ {0}
    /\ MAX_DEREFERENCE \in Nat \ {0} /\ MaxCalls \in Nat
    /\ IsFiniteSet(Proc) /\ NoOne \notin Proc
    /\ IsFiniteSet(Name) /\ DotDot \notin Name /\ "/" \notin Name
    /\ \A t \in Trees : IsTree(t)
    /\ \A c \in Calls :
         /\ c.op \in {"open", "create", "mkdir", "symlink", "link", "unlink", "chdir", "readlink", "close"}
         /\ c.op # "close" => c.path \in Paths
         /\ c.op = "link" => c.new \in Paths
         /\ c.op = "symlink" => c.old \in Paths

VARIABLES
    dinode,   \* type and nlink of every inode on disk
    entry,    \* contents of the directories
    target,   \* contents of the symbolic links
    itable,   \* the inode table
    pc, ret,  \* where a process is in its call, and where it goes on after namei
    put, stage,       \* the slot it has to put first, and how far iput is
    want,             \* the slot it has to lock then
    cur, ip, dp,      \* pointers of namex and of the call
    call,             \* the call
    path, rest,       \* its path, which readlink replaces, and the names not yet walked
    count,            \* links that readlink has followed
    cwd,      \* p->cwd
    ofile,    \* the inode of p's open file, 0 if none
    budget,   \* calls that may still be made
    leaked,   \* history: references that readlink and chdir have lost
    lost,     \* history: inodes whose names went away with a removed directory
    panic     \* the message of panic(), or why the model ends; "" while the system runs

diskVars == <<dinode, entry, target>>
ctlVars == <<pc, ret, put, stage, want>>
ptrVars == <<cur, ip, dp>>
argVars == <<call, path, rest, count>>
procVars == <<cwd, ofile, budget>>
history == <<leaked, lost>>
vars == <<diskVars, itable, ctlVars, ptrVars, argVars, procVars, history, panic>>

\* The tree a boot finds: entries, types and targets.  nlink of a directory
\* counts its name and the ".." of its subdirectories; of the root, 1 more.
NamesOf(e, i) == {x \in Inum \X Name : e[x[1]][x[2]] = i}
Subdirs(e, t, i) == {n \in Name : e[i][n] # 0 /\ t[e[i][n]] = "dir"}
Links(e, t, i) ==
    Cardinality(NamesOf(e, i)) + Cardinality(Subdirs(e, t, i)) + IF i = ROOTINO THEN 1 ELSE 0

Init ==
    /\ \E tree \in Trees :
         /\ entry = tree.entry
         /\ target = tree.target
         /\ dinode = [i \in Inum |-> [type |-> tree.type[i],
                        nlink |-> IF tree.type[i] = "none" THEN 0 ELSE Links(tree.entry, tree.type, i)]]
    /\ itable = [s \in Slot |-> [inum |-> IF s = 1 THEN ROOTINO ELSE 0, valid |-> FALSE, lock |-> NoOne,
                                 ref |-> IF s = 1 THEN Cardinality(Proc) ELSE 0,
                                 type |-> "none", nlink |-> 0]]
    /\ pc = [p \in Proc |-> "idle"] /\ ret = [p \in Proc |-> "idle"]
    /\ put = [p \in Proc |-> 0] /\ stage = [p \in Proc |-> "iput"] /\ want = [p \in Proc |-> 0]
    /\ cur = [p \in Proc |-> 0] /\ ip = [p \in Proc |-> 0] /\ dp = [p \in Proc |-> 0]
    /\ call = [p \in Proc |-> [op |-> "none"]]
    /\ path = [p \in Proc |-> <<>>] /\ rest = [p \in Proc |-> <<>>] /\ count = [p \in Proc |-> 0]
    /\ cwd = [p \in Proc |-> 1]
    /\ ofile = [p \in Proc |-> 0]
    /\ budget = MaxCalls
    /\ leaked = [s \in Slot |-> 0]
    /\ lost = {}
    /\ panic = ""

\* A slot of 0 is a null pointer.
At(p, l) == panic = "" /\ put[p] = 0 /\ want[p] = 0 /\ pc[p] = l

\* Put slot s, lock slot w, and go on at l.
Then(p, s, w, l) ==
    /\ put' = [put EXCEPT ![p] = s]
    /\ want' = [want EXCEPT ![p] = w]
    /\ pc' = [pc EXCEPT ![p] = l]
    /\ UNCHANGED stage
Goto(p, l) == Then(p, 0, 0, l) /\ UNCHANGED ret

\* namei or nameiparent of names, and go on at l
Walk(p, l, names) ==
    /\ Then(p, 0, 0, "namei")
    /\ ret' = [ret EXCEPT ![p] = l]
    /\ rest' = [rest EXCEPT ![p] = names]
Parent(p) == ret[p] \in {"create", "unlink", "link_parent"}

Halt(msg) ==
    /\ panic' = msg
    /\ UNCHANGED <<diskVars, itable, ctlVars, ptrVars, rest, leaked>>

-----------------------------------------------------------------------------
(* The inode table *)

Cached(i) == {s \in Slot : itable[s].ref > 0 /\ itable[s].inum = i}
Unused == {s \in Slot : itable[s].ref = 0}

\* iget: the slot it returns for inode i, and the table afterwards
CanGet(i) == Cached(i) # {} \/ Unused # {}
Got(i) == IF Cached(i) # {} THEN Min(Cached(i)) ELSE Min(Unused)
AfterGet(i) ==
    IF Cached(i) # {} THEN [itable EXCEPT ![Got(i)].ref = @ + 1]
    ELSE [itable EXCEPT ![Got(i)] = [@ EXCEPT !.inum = i, !.ref = 1, !.valid = FALSE]]

\* The directory above a removed one may be gone: its number is free, or iput is
\* freeing it, or create is making a new inode of it.
Stale(i) ==
    \/ i \notin {j \in Inum : dinode[j].type # "none"}
    \/ \E q \in Proc : put[q] # 0 /\ stage[q] = "iput_trunc" /\ itable[put[q]].inum = i
    \/ \E q \in Proc : pc[q] = "create_new" /\ itable[ip[q]].inum = i

\* releasesleep in table t
Unlock(t, s) == [t EXCEPT ![s].lock = NoOne]

\* A change of ip->nlink with iupdate, in table t and on disk
AddLink(t, s, d) == [t EXCEPT ![s].nlink = @ + d]
UpdateLink(di, s, d) == [di EXCEPT ![itable[s].inum].nlink = itable[s].nlink + d]

\* ilock: wait for the sleep lock, read the inode from disk if necessary
Ilock(p, s) ==
    /\ itable[s].lock = NoOne
    /\ LET d == dinode[itable[s].inum] IN
       IF itable[s].valid
       THEN itable' = [itable EXCEPT ![s].lock = p] /\ UNCHANGED panic
       ELSE /\ itable' = [itable EXCEPT ![s] = [@ EXCEPT !.lock = p, !.valid = TRUE,
                                                         !.type = d.type, !.nlink = d.nlink]]
            /\ panic' = IF d.type = "none" THEN "ilock: no type" ELSE ""

LockStep(p) ==
    /\ panic = "" /\ put[p] = 0 /\ want[p] # 0
    /\ Ilock(p, want[p])
    /\ want' = [want EXCEPT ![p] = 0]
    /\ UNCHANGED <<diskVars, pc, ret, put, stage, ptrVars, argVars, procVars, history>>

\* mutants of LastRef: the references, or the links, are not tested
LastRefShared(s) == itable[s].valid /\ itable[s].nlink = 0
LastRefNamed(s) == itable[s].valid /\ itable[s].ref = 1
LastRef(s) == itable[s].ref = 1 /\ itable[s].valid /\ itable[s].nlink = 0

Putting(p, l) == panic = "" /\ put[p] # 0 /\ stage[p] = l
Stage(p, l) == stage' = [stage EXCEPT ![p] = l] /\ UNCHANGED <<pc, ret, put, want>>
PutDone(p) ==
    /\ itable' = [itable EXCEPT ![put[p]].ref = @ - 1]
    /\ put' = [put EXCEPT ![p] = 0]
    /\ stage' = [stage EXCEPT ![p] = "iput"]
    /\ UNCHANGED <<pc, ret, want>>

\* acquiresleep does not wait: nobody else has a reference.
Iput(p) ==
    /\ Putting(p, "iput")
    /\ LET s == put[p] IN
       \/ ~LastRef(s) /\ PutDone(p)
       \/ /\ LastRef(s)
          /\ itable[s].lock = NoOne
          /\ itable' = [itable EXCEPT ![s].lock = p]
          /\ Stage(p, "iput_trunc")
    /\ UNCHANGED <<diskVars, ptrVars, argVars, procVars, history, panic>>

\* itrunc, ip->type = 0, iupdate
IputTrunc(p) ==
    /\ Putting(p, "iput_trunc")
    /\ LET s == put[p]
           i == itable[s].inum
       IN  /\ entry' = [entry EXCEPT ![i] = Empty]
           /\ target' = [target EXCEPT ![i] = <<>>]
           /\ dinode' = [dinode EXCEPT ![i] = [type |-> "none", nlink |-> 0]]
           /\ itable' = [itable EXCEPT ![s].type = "none"]
           /\ lost' = (lost \cup {entry[i][n] : n \in Name}) \ {0, i}
    /\ Stage(p, "iput_invalid")
    /\ UNCHANGED <<ptrVars, argVars, procVars, leaked, panic>>

\* ip->valid = 0, releasesleep
IputInvalid(p) ==
    /\ Putting(p, "iput_invalid")
    /\ itable' = [Unlock(itable, put[p]) EXCEPT ![put[p]].valid = FALSE]
    /\ Stage(p, "iput_drop")
    /\ UNCHANGED <<diskVars, ptrVars, argVars, procVars, history, panic>>

IputDrop(p) ==
    /\ Putting(p, "iput_drop")
    /\ PutDone(p)
    /\ UNCHANGED <<diskVars, ptrVars, argVars, procVars, history, panic>>

-----------------------------------------------------------------------------
(* namex *)

\* The inode the walk begins at: the root, or p->cwd with idup
Namei(p) ==
    /\ At(p, "namei")
    /\ LET names == Names(rest[p])
           s == IF IsAbsolute(rest[p]) THEN Got(ROOTINO) ELSE cwd[p]
       IN  IF IsAbsolute(rest[p]) /\ ~CanGet(ROOTINO) THEN Halt("iget: no inodes")
           ELSE /\ itable' = IF IsAbsolute(rest[p]) THEN AfterGet(ROOTINO)
                             ELSE [itable EXCEPT ![s].ref = @ + 1]
                /\ rest' = [rest EXCEPT ![p] = names]
                /\ IF names = <<>> /\ Parent(p)
                   THEN Then(p, s, 0, ret[p]) /\ UNCHANGED cur
                   ELSE /\ cur' = [cur EXCEPT ![p] = s]
                        /\ IF names = <<>> THEN Then(p, 0, 0, ret[p]) ELSE Then(p, 0, s, "look")
                /\ UNCHANGED <<ret, diskVars, ip, dp, leaked, panic>>
    /\ UNCHANGED <<call, path, count, procVars, lost>>

\* cur is locked: the end of nameiparent, a failure, or one name further.  The
\* model ends where a ".." is stale.  The code goes on to an ilock of that inode,
\* which panics with "ilock: no type", unless the number is in use again.
Look(p) ==
    /\ At(p, "look")
    /\ LET s == cur[p]
           names == rest[p]
           i == entry[itable[s].inum][Head(names)]
       IN  IF itable[s].type # "dir" \/ (i = 0 /\ ~(Parent(p) /\ Len(names) = 1))
           THEN /\ itable' = Unlock(itable, s)
                /\ cur' = [cur EXCEPT ![p] = 0]
                /\ Then(p, s, 0, ret[p])
                /\ UNCHANGED <<ret, diskVars, ip, dp, rest, leaked, panic>>
           ELSE IF Parent(p) /\ Len(names) = 1
           THEN /\ itable' = Unlock(itable, s)
                /\ Goto(p, ret[p])
                /\ UNCHANGED <<diskVars, ptrVars, rest, leaked, panic>>
           ELSE IF Head(names) = DotDot /\ Stale(i) THEN Halt("stale ..")
           ELSE IF ~CanGet(i) THEN Halt("iget: no inodes")
           ELSE /\ itable' = Unlock(AfterGet(i), s)
                /\ cur' = [cur EXCEPT ![p] = Got(i)]
                /\ rest' = [rest EXCEPT ![p] = Tail(names)]
                /\ IF Tail(names) = <<>> THEN Then(p, s, 0, ret[p]) ELSE Then(p, s, Got(i), "look")
                /\ UNCHANGED <<ret, diskVars, ip, dp, leaked, panic>>
    /\ UNCHANGED <<call, path, count, procVars, lost>>

-----------------------------------------------------------------------------
(* Calls *)

\* What follows the first namei or nameiparent of a call
Found(op) ==
    CASE op \in {"create", "mkdir", "symlink"} -> "create"
      [] op = "readlink" -> "readlink_found"
      [] OTHER -> op

Begin(p) ==
    /\ At(p, "idle") /\ budget > 0
    /\ budget' = budget - 1
    /\ \E c \in Calls :
         IF c.op = "close"
         THEN /\ ofile[p] # 0
              /\ Then(p, ofile[p], 0, "idle")
              /\ ofile' = [ofile EXCEPT ![p] = 0]
              /\ UNCHANGED <<ret, argVars>>
         ELSE /\ Walk(p, Found(c.op), c.path)
              /\ call' = [call EXCEPT ![p] = c]
              /\ path' = [path EXCEPT ![p] = c.path]
              /\ count' = [count EXCEPT ![p] = 0]
              /\ UNCHANGED ofile
    /\ UNCHANGED <<diskVars, itable, ptrVars, cwd, history, panic>>

\* The inode that namex has returned becomes ip or dp; it is locked, and the
\* call goes on at l.  Null ends the call.
ToIp(p) == ip' = [ip EXCEPT ![p] = cur[p]] /\ UNCHANGED dp
ToDp(p) == dp' = [dp EXCEPT ![p] = cur[p]] /\ UNCHANGED ip
Resume(p, take, l) ==
    /\ \/ /\ cur[p] = 0
          /\ Goto(p, "idle")
          /\ UNCHANGED <<itable, ptrVars, panic>>
       \/ /\ cur[p] # 0
          /\ Ilock(p, cur[p])
          /\ take /\ cur' = [cur EXCEPT ![p] = 0]
          /\ Goto(p, l)
    /\ UNCHANGED <<diskVars, argVars, procVars, history>>

\* Unlock slot s and put it, then go on at l.
\* mutant of UnlockPut: iunlock where iunlockput should be
UnlockOnly(p, s, l) == itable' = Unlock(itable, s) /\ Then(p, 0, 0, l) /\ UNCHANGED ret
UnlockPut(p, s, l) == itable' = Unlock(itable, s) /\ Then(p, s, 0, l) /\ UNCHANGED ret

PutIp(p) == UnlockPut(p, ip[p], "idle") /\ ip' = [ip EXCEPT ![p] = 0] /\ UNCHANGED <<cur, dp>>
PutDp(p) == UnlockPut(p, dp[p], "idle") /\ dp' = [dp EXCEPT ![p] = 0] /\ UNCHANGED <<cur, ip>>

LastName(p) == Head(rest[p])
Dir(p) == itable[dp[p]].inum
Type(p) == itable[ip[p]].type

-----------------------------------------------------------------------------
(* create: of open(O_CREATE), mkdir and symlink *)

Create(p) == At(p, "create") /\ Resume(p, ToDp(p), "create_look")

FreeInodes == {i \in Inum : dinode[i].type = "none"}
NewType(op) == CASE op = "mkdir" -> "dir" [] op = "symlink" -> "sym" [] OTHER -> "file"

CreateLook(p) ==
    /\ At(p, "create_look")
    /\ LET old == entry[Dir(p)][LastName(p)]
           new == Min(FreeInodes)
       IN  IF LastName(p) = DotDot /\ Stale(old) THEN Halt("stale ..")
           ELSE IF old = 0 /\ FreeInodes = {} THEN Halt("ialloc: no inodes")
           ELSE IF ~CanGet(IF old # 0 THEN old ELSE new) THEN Halt("iget: no inodes")
           ELSE IF old # 0
           THEN /\ itable' = Unlock(AfterGet(old), dp[p])
                /\ ip' = [ip EXCEPT ![p] = Got(old)]
                /\ dp' = [dp EXCEPT ![p] = 0]
                /\ Then(p, dp[p], Got(old), "create_old")
                /\ UNCHANGED <<ret, diskVars, cur, rest, leaked, panic>>
           ELSE /\ dinode' = [dinode EXCEPT ![new] = [type |-> NewType(call[p].op), nlink |-> 0]]
                /\ itable' = AfterGet(new)
                /\ ip' = [ip EXCEPT ![p] = Got(new)]
                /\ Then(p, 0, Got(new), "create_new")
                /\ UNCHANGED <<ret, entry, target, cur, dp, rest, leaked, panic>>
    /\ UNCHANGED <<call, path, count, procVars, lost>>

CreateOld(p) ==
    /\ At(p, "create_old")
    /\ IF call[p].op = "symlink" \/ (call[p].op = "create" /\ Type(p) = "file")
       THEN Goto(p, "created") /\ UNCHANGED <<itable, ptrVars>>
       ELSE PutIp(p)
    /\ UNCHANGED <<diskVars, argVars, procVars, history, panic>>

CreateNew(p) ==
    /\ At(p, "create_new")
    /\ LET i == itable[ip[p]].inum
           more == IF Type(p) = "dir" THEN 1 ELSE 0
       IN  /\ itable' = Unlock(AddLink([itable EXCEPT ![ip[p]].nlink = 1], dp[p], more), dp[p])
           /\ dinode' = UpdateLink([dinode EXCEPT ![i].nlink = 1], dp[p], more)
           /\ entry' = [entry EXCEPT ![Dir(p)][LastName(p)] = i,
                                     ![i][DotDot] = IF Type(p) = "dir" THEN Dir(p) ELSE @]
    /\ dp' = [dp EXCEPT ![p] = 0]
    /\ Then(p, dp[p], 0, "created")
    /\ UNCHANGED <<target, ret, cur, ip, argVars, procVars, history, panic>>

\* sys_symlink writes the length of the path at offset 0 and the path at offset 4
\* of whatever create returned.  In a directory a path of up to 11 characters
\* fits into the entry ".", a longer one overwrites ".." and names.
Overwrites(p) == call[p].op = "symlink" /\ Type(p) = "dir"

\* sys_open goes on to the file descriptor.  The model ends where names are
\* overwritten: the code then takes characters for inode numbers, and panics with
\* "dirlookup read" where the size is no multiple of an entry.
Created(p) ==
    /\ At(p, "created")
    /\ \/ Overwrites(p) /\ Halt("symlink over a directory")
       \/ /\ target' = IF call[p].op = "symlink" /\ Type(p) = "sym"
                       THEN [target EXCEPT ![itable[ip[p]].inum] = call[p].old] ELSE target
          /\ IF call[p].op = "create"
             THEN Goto(p, "open_file") /\ UNCHANGED <<itable, ptrVars>>
             ELSE PutIp(p)
          /\ UNCHANGED <<dinode, entry, rest, leaked, panic>>
    /\ UNCHANGED <<call, path, count, procVars, lost>>

-----------------------------------------------------------------------------
(* sys_open, readlink, sys_chdir *)

\* The type is read without the lock: it may be that of the inode the slot
\* held before.  A process whose name begins with "ls" does not follow.
LooksLikeLink(s) == itable[s].type = "sym"

Open(p) ==
    /\ At(p, "open")
    /\ \/ cur[p] = 0 /\ Goto(p, "idle") /\ UNCHANGED <<ptrVars, rest>>
       \/ /\ cur[p] # 0
          /\ ToIp(p) /\ cur' = [cur EXCEPT ![p] = 0]
          /\ \/ LooksLikeLink(cur[p]) /\ Walk(p, "readlink_found", path[p])
             \/ Then(p, 0, cur[p], "open_check") /\ UNCHANGED <<ret, rest>>
    /\ UNCHANGED <<diskVars, itable, call, path, count, procVars, history, panic>>

OpenCheck(p) ==
    /\ At(p, "open_check")
    /\ IF Type(p) = "dir" /\ call[p].write
       THEN PutIp(p)
       ELSE Goto(p, "open_file") /\ UNCHANGED <<itable, ptrVars>>
    /\ UNCHANGED <<diskVars, argVars, procVars, history, panic>>

\* filealloc, fdalloc: they fail if p has a file already
OpenFile(p) ==
    /\ At(p, "open_file")
    /\ IF ofile[p] # 0
       THEN PutIp(p) /\ UNCHANGED ofile
       ELSE /\ ofile' = [ofile EXCEPT ![p] = ip[p]]
            /\ itable' = Unlock(itable, ip[p])
            /\ ip' = [ip EXCEPT ![p] = 0]
            /\ Goto(p, "idle")
            /\ UNCHANGED <<cur, dp>>
    /\ UNCHANGED <<diskVars, argVars, cwd, budget, history, panic>>

\* readlink returns to sys_open, sys_chdir or user space.
ReadlinkDone(p) ==
    /\ CASE call[p].op = "open"  -> Then(p, 0, ip[p], "open_check")
         [] call[p].op = "chdir" -> Then(p, 0, 0, "chdir_again")
         [] OTHER                -> Then(p, 0, 0, "idle")
    /\ UNCHANGED ret

ReadlinkFound(p) ==
    /\ At(p, "readlink_found")
    /\ \/ cur[p] = 0 /\ ReadlinkDone(p) /\ UNCHANGED <<itable, panic>>
       \/ cur[p] # 0 /\ Ilock(p, cur[p]) /\ Goto(p, "readlink_read")
    /\ UNCHANGED <<diskVars, ptrVars, argVars, procVars, history>>

\* The inode is unlocked and never put; its path replaces the caller's.  A user's
\* buffer may be too small for it (that of sys_open and sys_chdir never is).
ReadlinkRead(p) ==
    /\ At(p, "readlink_read")
    /\ LET s == cur[p]
           new == target[itable[s].inum]
       IN  /\ itable' = Unlock(itable, s)
           /\ leaked' = [leaked EXCEPT ![s] = @ + 1]
           /\ \/ /\ itable[s].type # "sym" \/ call[p].op = "readlink"
                 /\ ReadlinkDone(p) /\ UNCHANGED <<path, rest, count, panic>>
              \/ /\ itable[s].type = "sym"
                 /\ path' = [path EXCEPT ![p] = new]
                 /\ count' = [count EXCEPT ![p] = @ + 1]
                 /\ Walk(p, "readlink_found", new)
                 /\ panic' = IF count[p] + 1 >= MAX_DEREFERENCE THEN "we have a cycle" ELSE ""
    /\ cur' = [cur EXCEPT ![p] = 0]
    /\ UNCHANGED <<diskVars, ip, dp, call, procVars, lost>>

\* After readlink the path is looked up again and the first inode forgotten.
Chdir(p) ==
    /\ At(p, "chdir")
    /\ \/ cur[p] = 0 /\ Goto(p, "idle") /\ UNCHANGED <<ptrVars, rest, leaked>>
       \/ /\ cur[p] # 0 /\ LooksLikeLink(cur[p])
          /\ leaked' = [leaked EXCEPT ![cur[p]] = @ + 1]
          /\ cur' = [cur EXCEPT ![p] = 0]
          /\ Walk(p, "readlink_found", path[p])
          /\ UNCHANGED <<ip, dp>>
       \/ /\ cur[p] # 0 /\ ~LooksLikeLink(cur[p])
          /\ ToIp(p) /\ cur' = [cur EXCEPT ![p] = 0]
          /\ Then(p, 0, cur[p], "chdir_check")
          /\ UNCHANGED <<ret, rest, leaked>>
    /\ UNCHANGED <<diskVars, itable, call, path, count, procVars, lost, panic>>

ChdirAgain(p) ==
    /\ At(p, "chdir_again")
    /\ Walk(p, "chdir_lock", path[p])
    /\ UNCHANGED <<diskVars, itable, ptrVars, call, path, count, procVars, history, panic>>

\* ilock(0) panics if the path leads nowhere.
ChdirLock(p) ==
    /\ At(p, "chdir_lock")
    /\ \/ cur[p] = 0 /\ Halt("ilock")
       \/ /\ cur[p] # 0
          /\ Ilock(p, cur[p])
          /\ ToIp(p) /\ cur' = [cur EXCEPT ![p] = 0]
          /\ Goto(p, "chdir_check")
          /\ UNCHANGED <<diskVars, rest, leaked>>
    /\ UNCHANGED <<call, path, count, procVars, lost>>

ChdirCheck(p) ==
    /\ At(p, "chdir_check")
    /\ IF Type(p) # "dir"
       THEN PutIp(p) /\ UNCHANGED cwd
       ELSE /\ itable' = Unlock(itable, ip[p])
            /\ cwd' = [cwd EXCEPT ![p] = ip[p]]
            /\ ip' = [ip EXCEPT ![p] = 0]
            /\ Then(p, cwd[p], 0, "idle")
            /\ UNCHANGED <<ret, cur, dp>>
    /\ UNCHANGED <<diskVars, argVars, ofile, budget, history, panic>>

-----------------------------------------------------------------------------
(* sys_link *)

Link(p) == At(p, "link") /\ Resume(p, ToIp(p), "link_inc")

LinkInc(p) ==
    /\ At(p, "link_inc")
    /\ IF Type(p) = "dir"
       THEN PutIp(p) /\ UNCHANGED <<dinode, rest>>
       ELSE /\ itable' = Unlock(AddLink(itable, ip[p], 1), ip[p])
            /\ dinode' = UpdateLink(dinode, ip[p], 1)
            /\ Walk(p, "link_parent", call[p].new)
            /\ UNCHANGED ptrVars
    /\ UNCHANGED <<entry, target, call, path, count, procVars, history, panic>>

LinkParent(p) ==
    /\ At(p, "link_parent")
    /\ LET s == IF cur[p] = 0 THEN ip[p] ELSE cur[p] IN
       /\ Ilock(p, s)
       /\ Goto(p, IF cur[p] = 0 THEN "link_bad" ELSE "link_add")
    /\ dp' = [dp EXCEPT ![p] = cur[p]]
    /\ cur' = [cur EXCEPT ![p] = 0]
    /\ UNCHANGED <<diskVars, ip, argVars, procVars, history>>

\* dirlink: the name must not be there yet.  A reference to a stale ".." is given
\* back before anything is done with it.
LinkAdd(p) ==
    /\ At(p, "link_add")
    /\ LET old == entry[Dir(p)][LastName(p)]
           stale == LastName(p) = DotDot /\ Stale(old)
       IN
       IF (stale \/ old # 0) /\ ~CanGet(old) THEN Halt("iget: no inodes")
       ELSE IF stale
       THEN Goto(p, "link_exists") /\ UNCHANGED <<itable, diskVars, ptrVars, rest, leaked, panic>>
       ELSE IF old # 0
       THEN /\ itable' = AfterGet(old)
            /\ Then(p, Got(old), 0, "link_exists")
            /\ UNCHANGED <<ret, diskVars, ptrVars, rest, leaked, panic>>
       ELSE /\ entry' = [entry EXCEPT ![Dir(p)][LastName(p)] = itable[ip[p]].inum]
            /\ UnlockPut(p, dp[p], "link_put")
            /\ dp' = [dp EXCEPT ![p] = 0]
            /\ UNCHANGED <<dinode, target, cur, ip, rest, leaked, panic>>
    /\ UNCHANGED <<call, path, count, procVars, lost>>

\* the last iput of sys_link
LinkPut(p) ==
    /\ At(p, "link_put")
    /\ Then(p, ip[p], 0, "idle")
    /\ ip' = [ip EXCEPT ![p] = 0]
    /\ UNCHANGED <<diskVars, itable, ret, cur, dp, argVars, procVars, history, panic>>

LinkExists(p) ==
    /\ At(p, "link_exists")
    /\ itable' = Unlock(itable, dp[p])
    /\ dp' = [dp EXCEPT ![p] = 0]
    /\ Then(p, dp[p], ip[p], "link_bad")
    /\ UNCHANGED <<diskVars, ret, cur, ip, argVars, procVars, history, panic>>

\* mutant of LinkBad: the count stays
LinkBadKeeps(p) ==
    /\ At(p, "link_bad")
    /\ PutIp(p)
    /\ UNCHANGED <<diskVars, argVars, procVars, history, panic>>
LinkBad(p) ==
    /\ At(p, "link_bad")
    /\ itable' = Unlock(AddLink(itable, ip[p], -1), ip[p])
    /\ dinode' = UpdateLink(dinode, ip[p], -1)
    /\ ip' = [ip EXCEPT ![p] = 0]
    /\ Then(p, ip[p], 0, "idle")
    /\ UNCHANGED <<entry, target, ret, cur, dp, argVars, procVars, history, panic>>

-----------------------------------------------------------------------------
(* sys_unlink *)

Unlink(p) == At(p, "unlink") /\ Resume(p, ToDp(p), "unlink_look")

UnlinkLook(p) ==
    /\ At(p, "unlink_look")
    /\ LET i == entry[Dir(p)][LastName(p)] IN
       IF LastName(p) = DotDot \/ i = 0
       THEN PutDp(p) /\ UNCHANGED <<diskVars, rest, leaked, panic>>
       ELSE IF ~CanGet(i) THEN Halt("iget: no inodes")
       ELSE /\ itable' = AfterGet(i)
            /\ ip' = [ip EXCEPT ![p] = Got(i)]
            /\ Then(p, 0, Got(i), "unlink_remove")
            /\ UNCHANGED <<ret, diskVars, cur, dp, rest, leaked, panic>>
    /\ UNCHANGED <<call, path, count, procVars, lost>>

IsDirEmpty(i) == \A n \in Name : entry[i][n] = 0

UnlinkRemove(p) ==
    /\ At(p, "unlink_remove")
    /\ LET less == IF Type(p) = "dir" THEN -1 ELSE 0 IN
       IF itable[ip[p]].nlink < 1 THEN Halt("unlink: nlink < 1")
       ELSE IF Type(p) = "dir" /\ ~IsDirEmpty(itable[ip[p]].inum)
       THEN /\ UnlockPut(p, ip[p], "unlink_bad")
            /\ ip' = [ip EXCEPT ![p] = 0]
            /\ UNCHANGED <<diskVars, cur, dp, rest, leaked, panic>>
       ELSE /\ entry' = [entry EXCEPT ![Dir(p)][LastName(p)] = 0]
            /\ itable' = Unlock(AddLink(itable, dp[p], less), dp[p])
            /\ dinode' = UpdateLink(dinode, dp[p], less)
            /\ dp' = [dp EXCEPT ![p] = 0]
            /\ Then(p, dp[p], 0, "unlink_dec")
            /\ UNCHANGED <<ret, target, cur, ip, rest, leaked, panic>>
    /\ UNCHANGED <<call, path, count, procVars, lost>>

UnlinkBad(p) ==
    /\ At(p, "unlink_bad")
    /\ PutDp(p)
    /\ UNCHANGED <<diskVars, argVars, procVars, history, panic>>

UnlinkDec(p) ==
    /\ At(p, "unlink_dec")
    /\ itable' = Unlock(AddLink(itable, ip[p], -1), ip[p])
    /\ dinode' = UpdateLink(dinode, ip[p], -1)
    /\ ip' = [ip EXCEPT ![p] = 0]
    /\ Then(p, ip[p], 0, "idle")
    /\ UNCHANGED <<entry, target, ret, cur, dp, argVars, procVars, history, panic>>

-----------------------------------------------------------------------------
Work(p) ==
    \/ LockStep(p) \/ Iput(p) \/ IputTrunc(p) \/ IputInvalid(p) \/ IputDrop(p)
    \/ Namei(p) \/ Look(p)
    \/ Create(p) \/ CreateLook(p) \/ CreateOld(p) \/ CreateNew(p) \/ Created(p)
    \/ Open(p) \/ OpenCheck(p) \/ OpenFile(p)
    \/ ReadlinkFound(p) \/ ReadlinkRead(p)
    \/ Chdir(p) \/ ChdirAgain(p) \/ ChdirLock(p) \/ ChdirCheck(p)
    \/ Link(p) \/ LinkInc(p) \/ LinkParent(p) \/ LinkAdd(p) \/ LinkPut(p) \/ LinkExists(p) \/ LinkBad(p)
    \/ Unlink(p) \/ UnlinkLook(p) \/ UnlinkRemove(p) \/ UnlinkBad(p) \/ UnlinkDec(p)

Idle(p) == pc[p] = "idle" /\ put[p] = 0

\* All calls have been made, or the kernel has panicked.
Stop ==
    /\ panic # "" \/ (budget = 0 /\ \A p \in Proc : Idle(p))
    /\ UNCHANGED vars

Next == Stop \/ \E p \in Proc : Begin(p) \/ Work(p)

Spec == Init /\ [][Next]_vars

-----------------------------------------------------------------------------
(* Properties *)

Pcs == {"idle", "namei", "look", "create", "create_look", "create_old", "create_new", "created",
        "open", "open_check", "open_file", "readlink_found", "readlink_read",
        "chdir", "chdir_again", "chdir_lock", "chdir_check",
        "link", "link_inc", "link_parent", "link_add", "link_put", "link_exists", "link_bad",
        "unlink", "unlink_look", "unlink_remove", "unlink_bad", "unlink_dec"}
Pointer == Slot \cup {0}

TypeOK ==
    /\ dinode \in [Inum -> [type : Types, nlink : Int]]
    /\ entry \in [Inum -> [Entries -> Inum \cup {0}]] /\ target \in [Inum -> Paths]
    /\ itable \in [Slot -> [inum : Inum \cup {0}, ref : Nat, valid : BOOLEAN, lock : Proc \cup {NoOne},
                            type : Types, nlink : Int]]
    /\ pc \in [Proc -> Pcs] /\ ret \in [Proc -> Pcs]
    /\ put \in [Proc -> Pointer] /\ want \in [Proc -> Pointer]
    /\ stage \in [Proc -> {"iput", "iput_trunc", "iput_invalid", "iput_drop"}]
    /\ cur \in [Proc -> Pointer] /\ ip \in [Proc -> Pointer] /\ dp \in [Proc -> Pointer]
    /\ call \in [Proc -> Calls \cup {[op |-> "none"]}]
    /\ path \in [Proc -> Paths] /\ rest \in [Proc -> Paths] /\ count \in [Proc -> Nat]
    /\ cwd \in [Proc -> Slot] /\ ofile \in [Proc -> Pointer]
    /\ leaked \in [Slot -> Nat] /\ lost \subseteq Inum

\* The pointers to slots that count
Pointers == {"cur", "ip", "dp", "put", "cwd", "ofile"}
Deref(p, x) ==
    CASE x = "cur" -> cur[p] [] x = "ip" -> ip[p] [] x = "dp" -> dp[p]
      [] x = "put" -> put[p] [] x = "cwd" -> cwd[p] [] x = "ofile" -> ofile[p]
References(s) == Cardinality({r \in Proc \X Pointers : Deref(r[1], r[2]) = s})

\* Every variable has its type, and ip->ref counts the pointers to a slot
\* exactly, through every path and every failure of every call: no reference
\* is put twice, and none is lost but those that readlink and sys_chdir lose.
RefsExact ==
    /\ TypeOK
    /\ \A s \in Slot : itable[s].ref = leaked[s] + References(s)

\* Link counts in the middle of link, before dirlink or the undo, and of
\* unlink, after the entry has gone
Counted(p) ==
    \/ pc[p] \in {"namei", "look"} /\ ret[p] = "link_parent"
    \/ pc[p] \in {"link_parent", "link_add", "link_exists", "link_bad", "unlink_dec"}
InFlight(i) == {p \in Proc : Counted(p) /\ itable[ip[p]].inum = i}

\* nlink on disk is the number of names of an inode, plus the ".." of its
\* subdirectories, whatever link, unlink, mkdir and create do at once and
\* wherever they fail.  Files that were created in a directory that another
\* process had just removed are the exception: their count stays above that.
LinksExact ==
    \A i \in Inum :
        LET links == Links(entry, [j \in Inum |-> dinode[j].type], i) + Cardinality(InFlight(i))
        IN  IF i \in lost THEN dinode[i].nlink > links ELSE dinode[i].nlink = links

\* Where the model ends, as nothing holds any more: paths that go up from a removed
\* directory, symbolic links with a long path over a directory.
Beyond == {"stale ..", "symlink over a directory"}

\* Before that the panics that file system calls can reach are those of a full
\* table, of a cycle of links, and of chdir with a link that leads nowhere.  No
\* walk and no call ever locks an inode that has been freed ("ilock: no type"),
\* and no name is removed from an inode without links ("unlink: nlink < 1").
PanicsAreKnown == panic \in {"", "iget: no inodes", "ialloc: no inodes", "we have a cycle", "ilock"} \cup Beyond

InodesOf(p) == {itable[s].inum : s \in {cwd[p], ofile[p]} \ {0}}
Promise == INSTANCE Namespace WITH
    live  <- {i \in Inum : dinode[i].type # "none"},
    names <- [i \in Inum |-> [n \in Name |-> entry[i][n]]],
    held  <- [p \in Proc |-> InodesOf(p)]

\* Names are entered, linked and removed one at a time, and an inode is freed
\* only when it has no name and no process has it open or as its directory.
ImplementsNamespace == Promise!Spec
=============================================================================
