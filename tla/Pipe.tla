-------------------------------- MODULE Pipe --------------------------------
(***************************************************************************)
(* Pipes (pipe.c) on the file table, with the system calls that open,      *)
(* share, use and close them, kill, and exit.                              *)
(*                                                                         *)
(* pipewrite is a step for every byte, because killed, which pi->lock does *)
(* not protect, is read before each; piperead, which reads killed only     *)
(* before it sleeps, is one step.  readopen and writeopen are the set      *)
(* open.  The counters nread and nwrite have a small width.                *)
(***************************************************************************)
EXTENDS FileTable

CONSTANTS
    Byte,
    PIPESIZE,
    Width,      \* bound: nread and nwrite are counted modulo Width, in the code 2^32
    MaxBytes,   \* bound: bytes of one call
    MaxCalls,   \* bound: calls of all processes
    Eof, Fail   \* results of a read or write

ASSUME PipeAssumption ==
    /\ PIPESIZE \in Nat \ {0} /\ Width \in Nat /\ MaxBytes \in Nat
    /\ Width % PIPESIZE = 0 /\ Width > PIPESIZE

VARIABLES
    pipe,       \* nread, nwrite, data and the ends that are open
    used,       \* pages that kalloc has given to pipealloc
    lock,       \* holder of pi->lock
    call,       \* pipe and count of bytes of a read or write
    result,     \* what it returned
    killed,     \* processes with p->killed
    cut,        \* history: pipes a killed writer has left without a wakeup
    calls       \* calls so far

pipeVars == <<pipe, used, lock, call, result, killed, exiting, cut>>
vars == <<fileVars, pc, pipeVars, calls>>

\* The page is as kalloc gives it.
NewPipe(page) == [nread |-> 0, nwrite |-> 0, data |-> page, open |-> {"read", "write"}]

Init ==
    /\ FileInit
    /\ pc = [p \in Proc |-> IF p = CHOOSE q \in Proc : TRUE THEN "idle" ELSE "dead"]
    /\ pipe \in {[q \in Pipe |-> NewPipe([i \in 0 .. PIPESIZE - 1 |-> b])] : b \in Byte}
    /\ used = {}
    /\ lock = [q \in Pipe |-> None]
    /\ call = [p \in Proc |-> <<None, 0>>]
    /\ result = [p \in Proc |-> None]
    /\ killed = {} /\ exiting = {} /\ cut = {}
    /\ calls = 0

TypeOK ==
    /\ FileTypeOK
    /\ pc \in [Proc -> {"idle", "dead", "close", "pipeclose", "alloc_write", "alloc_pipe",
                        "read", "write", "sleep_read", "sleep_write"}]
    /\ pipe \in [Pipe -> [nread : 0 .. Width - 1, nwrite : 0 .. Width - 1,
                          data : [0 .. PIPESIZE - 1 -> Byte], open : SUBSET {"read", "write"}]]
    /\ used \subseteq Pipe /\ cut \subseteq Pipe
    /\ lock \in [Pipe -> Proc \cup {None}]
    /\ call \in [Proc -> (Pipe \cup {None}) \X (0 .. MaxBytes)]
    /\ killed \subseteq Proc /\ exiting \subseteq Proc

Free(q) == lock[q] = None
Held(q) == (pipe[q].nwrite - pipe[q].nread) % Width
Contents(q) == [i \in 1 .. Held(q) |-> pipe[q].data[(pipe[q].nread + i - 1) % PIPESIZE]]

\* wakeup(&pi->nread) or wakeup(&pi->nwrite) by p, which goes on at l
WakeAndGoto(q, sleep, p, l) ==
    pc' = [x \in Proc |-> IF x = p THEN l
                          ELSE IF pc[x] = sleep /\ call[x][1] = q
                               THEN IF sleep = "sleep_read" THEN "read" ELSE "write"
                               ELSE pc[x]]

-----------------------------------------------------------------------------
(* the system calls *)

\* A process that is killed exits before it makes another call (usertrap).
Calls(p) ==
    /\ pc[p] = "idle" /\ p \notin killed
    /\ calls < MaxCalls
    /\ calls' = calls + 1

FileCall(p) ==
    /\ Calls(p)
    /\ AllocRead(p) \/ \E fd \in FD : SysClose(p, fd) \/ SysDup(p, fd)
    /\ UNCHANGED pipeVars

Fork(p) ==
    /\ Calls(p)
    /\ \E c \in Proc :
         /\ pc[c] = "dead"
         /\ ForkFiles(p, c)
         /\ Goto(c, "idle")
         /\ killed' = killed \ {c}
         /\ result' = [result EXCEPT ![c] = None]
    /\ UNCHANGED <<pipe, used, lock, call, exiting, cut>>

\* fileread and filewrite
ReadOrWrite(p) ==
    /\ Calls(p)
    /\ \E fd \in FD, n \in 1 .. MaxBytes :
         /\ ofile[p][fd] # None
         /\ LET f == file[ofile[p][fd]] IN
            /\ call' = [call EXCEPT ![p] = <<f.pipe, n>>]
            /\ Goto(p, IF f.writable THEN "write" ELSE "read")
    /\ UNCHANGED <<fileVars, pipe, used, lock, result, killed, exiting, cut>>

\* exit closes every descriptor.
Exit(p) ==
    /\ pc[p] = "idle"
    /\ Goto(p, "close")
    /\ exiting' = exiting \cup {p}
    /\ UNCHANGED <<fileVars, pipe, used, lock, call, result, killed, cut, calls>>

\* kill wakes its victim wherever it sleeps.
Kill(p) ==
    /\ pc[p] # "dead" /\ p \notin killed
    /\ killed' = killed \cup {p}
    /\ Goto(p, IF pc[p] = "sleep_read" THEN "read" ELSE IF pc[p] = "sleep_write" THEN "write" ELSE pc[p])
    /\ UNCHANGED <<fileVars, pipe, used, lock, call, result, exiting, cut, calls>>

-----------------------------------------------------------------------------
(* pipealloc, fileclose and pipeclose *)

PipeFiles(p) == AllocWrite(p) /\ UNCHANGED <<pipeVars, calls>>

AllocPipe(p) ==
    /\ pc[p] = "alloc_pipe"
    /\ \/ NoPage(p) /\ UNCHANGED <<pipe, used, cut>>
       \/ \E q \in Pipe \ used :
            /\ OpenEnds(p, q)
            /\ used' = used \cup {q}
            /\ pipe' = [pipe EXCEPT ![q] = NewPipe(@.data)]
            /\ cut' = cut \ {q}
    /\ UNCHANGED <<closed, lock, call, result, killed, exiting, calls>>

CloseFile(p) == Fileclose(p, "pipeclose") /\ UNCHANGED <<pipeVars, calls>>

Closed(p) ==
    /\ pc[p] = "close" /\ ToClose(p) = {}
    /\ Goto(p, IF p \in exiting THEN "dead" ELSE "idle")
    /\ exiting' = exiting \ {p}
    /\ UNCHANGED <<fileVars, pipe, used, lock, call, result, killed, cut, calls>>

\* mutant of ClosedEnd: the ends are mixed up
ClosedEndOther(p) == IF closed[p][2] THEN "read" ELSE "write"
ClosedEnd(p) == IF closed[p][2] THEN "write" ELSE "read"

Pipeclose(p) ==
    /\ pc[p] = "pipeclose"
    /\ LET q == closed[p][1]
           open == pipe[q].open \ {ClosedEnd(p)}
       IN  /\ Free(q)
           /\ pipe' = [pipe EXCEPT ![q].open = open]
           /\ used' = IF open = {} THEN used \ {q} ELSE used
           /\ WakeAndGoto(q, IF closed[p][2] THEN "sleep_read" ELSE "sleep_write", p, "close")
    /\ closed' = [closed EXCEPT ![p] = <<None, FALSE>>]
    /\ UNCHANGED <<file, ofile, rf, wf, lock, call, result, killed, exiting, cut, calls>>

-----------------------------------------------------------------------------
(* pipewrite and piperead *)

Returns(p, r) ==
    /\ result' = [result EXCEPT ![p] = r]
    /\ call' = [call EXCEPT ![p] = <<None, 0>>]

\* A kill may come between the test of killed and the change of state in
\* sleep: it finds nobody asleep.
MissedKill(p) == killed' \in {killed, killed \cup {p}}

\* mutant of WriteFull: the readers are not woken
WriteFullSilent(p, q) ==
    /\ Held(q) = PIPESIZE
    /\ Goto(p, "sleep_write")
    /\ lock' = [lock EXCEPT ![q] = None]
    /\ MissedKill(p)
    /\ UNCHANGED <<pipe, call, result, cut>>
WriteFull(p, q) ==
    /\ Held(q) = PIPESIZE
    /\ WakeAndGoto(q, "sleep_read", p, "sleep_write")
    /\ lock' = [lock EXCEPT ![q] = None]
    /\ MissedKill(p)
    /\ UNCHANGED <<pipe, call, result, cut>>

WriteByte(p, q) ==
    /\ Held(q) # PIPESIZE
    /\ \E b \in Byte :
         pipe' = [pipe EXCEPT ![q].data[pipe[q].nwrite % PIPESIZE] = b,
                              ![q].nwrite = (@ + 1) % Width]
    /\ call' = [call EXCEPT ![p][2] = @ - 1]
    /\ lock' = [lock EXCEPT ![q] = p]
    /\ UNCHANGED <<pc, result, killed, cut>>

\* Everything is written, or copyin has failed.
WriteEnd(p, q) ==
    /\ WakeAndGoto(q, "sleep_read", p, "idle")
    /\ lock' = [lock EXCEPT ![q] = None]
    /\ Returns(p, <<>>)
    /\ UNCHANGED <<pipe, killed, cut>>

WriteFails(p, q) ==
    /\ Goto(p, "idle")
    /\ lock' = [lock EXCEPT ![q] = None]
    /\ Returns(p, Fail)
    /\ cut' = IF p \in killed THEN cut \cup {q} ELSE cut
    /\ UNCHANGED <<pipe, killed>>

Pipewrite(p) ==
    /\ pc[p] = "write"
    /\ LET q == call[p][1] IN
       /\ lock[q] \in {None, p}
       /\ \/ call[p][2] = 0 /\ WriteEnd(p, q)
          \/ /\ call[p][2] > 0
             /\ \/ ("read" \notin pipe[q].open \/ p \in killed) /\ WriteFails(p, q)
                \/ /\ "read" \in pipe[q].open /\ p \notin killed
                   /\ \/ WriteFull(p, q) \/ WriteByte(p, q)
                      \/ Held(q) # PIPESIZE /\ WriteEnd(p, q)
    /\ UNCHANGED <<fileVars, used, exiting, calls>>

ReadSleep(p, q) ==
    /\ p \notin killed
    /\ Goto(p, "sleep_read")
    /\ MissedKill(p)
    /\ UNCHANGED <<pipe, call, result>>

ReadKilled(p, q) ==
    /\ p \in killed
    /\ Goto(p, "idle")
    /\ Returns(p, Fail)
    /\ UNCHANGED <<pipe, killed>>

\* What is there is copied, up to n bytes; the byte whose copyout fails is
\* lost.
ReadData(p, q) ==
    /\ \E k \in 0 .. Held(q), lost \in 0 .. 1 :
         /\ IF lost = 1 THEN k < call[p][2] /\ k < Held(q)
            ELSE k = IF Held(q) < call[p][2] THEN Held(q) ELSE call[p][2]
         /\ pipe' = [pipe EXCEPT ![q].nread = (@ + k + lost) % Width]
         /\ Returns(p, IF Held(q) = 0 THEN Eof ELSE SubSeq(Contents(q), 1, k))
    /\ WakeAndGoto(q, "sleep_write", p, "idle")
    /\ UNCHANGED killed

Piperead(p) ==
    /\ pc[p] = "read"
    /\ LET q == call[p][1] IN
       /\ Free(q)
       /\ IF Held(q) = 0 /\ "write" \in pipe[q].open
          THEN ReadSleep(p, q) \/ ReadKilled(p, q)
          ELSE ReadData(p, q)
    /\ UNCHANGED <<fileVars, used, lock, exiting, cut, calls>>

-----------------------------------------------------------------------------
Next ==
    \E p \in Proc :
        \/ FileCall(p) \/ Fork(p) \/ ReadOrWrite(p) \/ Exit(p) \/ Kill(p)
        \/ PipeFiles(p) \/ AllocPipe(p) \/ CloseFile(p) \/ Closed(p) \/ Pipeclose(p)
        \/ Pipewrite(p) \/ Piperead(p)

Spec == Init /\ [][Next]_vars

-----------------------------------------------------------------------------
(* Properties *)

IsEnd(f, q, w) == file[f].type = "pipe" /\ file[f].pipe = q /\ file[f].writable = w
End(q, w) ==
    \/ \E f \in File : file[f].ref > 0 /\ IsEnd(f, q, w)
    \/ \E p \in Proc : closed[p] = <<q, w>>

\* Every variable has its type; the count of a file is the number of
\* references to it, whatever part of pipe, dup, fork and exit has been done
\* or undone; a pipe has its page and its flags as long as there is an end,
\* and a process that uses it has one.
FilesExact ==
    /\ TypeOK
    /\ \A f \in File : file[f].ref = References(f)
    /\ \A q \in Pipe : \A w \in BOOLEAN :
         End(q, w) <=> q \in used /\ (IF w THEN "write" ELSE "read") \in pipe[q].open
    /\ \A p \in Proc : pc[p] \in {"read", "write", "sleep_read", "sleep_write"} => call[p][1] \in used

\* Nobody sleeps on a pipe that has what it waits for, or from which it can
\* never come, unless a writer was killed in the middle of its loop: it
\* returns without the wakeup.
NoLostWakeup ==
    \A p \in Proc : \A q \in {call[p][1]} :
        /\ pc[p] = "sleep_read" /\ Free(q) => q \in cut \/ (Held(q) = 0 /\ End(q, TRUE))
        /\ pc[p] = "sleep_write" /\ Free(q) => Held(q) = PIPESIZE /\ End(q, FALSE)

Queues == [q \in Pipe |-> Contents(q)]
Readers == {q \in Pipe : End(q, FALSE)}
Writers == {q \in Pipe : End(q, TRUE)}

Promise == INSTANCE ByteQueue WITH
    Capacity <- PIPESIZE, queue <- Queues, readers <- Readers, writers <- Writers

\* The ring buffer delivers every byte once and in order, across the wrap of
\* its counters and any number of readers and writers; the end of the file
\* comes when the last writer has closed its end and everything is read.
ImplementsByteQueue == Promise!Spec

-----------------------------------------------------------------------------
(* The inductive invariant behind the three *)

Opening(p) == pc[p] \in {"alloc_write", "alloc_pipe"}
Closing(p) == pc[p] \in {"close", "pipeclose"}
Using(p, w) == pc[p] \in IF w THEN {"write", "sleep_write"} ELSE {"read", "sleep_read"}

\* A file of pipealloc that is not an end yet has one reference, the local.
NewFile(f) == f # None /\ file[f].ref = 1 /\ file[f].type = "none"

\* The places where a process keeps files, and which files they may be
PlaceInv(p) ==
    /\ Opening(p) => NewFile(rf[p]) /\ rf[p] # wf[p]
    /\ pc[p] = "alloc_write" => wf[p] = None
    /\ pc[p] = "alloc_pipe" => NewFile(wf[p])
    /\ ~Opening(p) /\ ~Closing(p) => rf[p] = None /\ wf[p] = None
    /\ p \in exiting => Closing(p)
    /\ pc[p] = "pipeclose" <=> closed[p][1] # None
    /\ \A fd \in FD : ofile[p][fd] # None => pc[p] # "dead" /\ file[ofile[p][fd]].type = "pipe"

\* An end of a pipe is one file, and when that is closed the business of one
\* process.
EndInv ==
    /\ \A f \in File : file[f].type = "pipe" =>
         /\ file[f].ref > 0 /\ file[f].pipe # None
         /\ \A g \in File : IsEnd(g, file[f].pipe, file[f].writable) => f = g
         /\ \A p \in Proc : closed[p] # <<file[f].pipe, file[f].writable>>
    /\ \A p, r \in Proc : closed[p] = closed[r] /\ closed[p][1] # None => p = r

\* Who reads or writes has a descriptor for it, who is between two bytes of
\* pipewrite holds the lock.  Only a killed writer leaves sleepers behind.
CallInv ==
    /\ \A p \in Proc, w \in BOOLEAN : Using(p, w) =>
         /\ call[p][1] # None
         /\ \E fd \in FD : ofile[p][fd] # None /\ IsEnd(ofile[p][fd], call[p][1], w)
         /\ ~w => call[p][2] > 0
    /\ \A p \in Proc, q \in Pipe :
         /\ lock[q] = p => pc[p] = "write" /\ call[p][1] = q
         /\ pc[p] = "sleep_write" /\ call[p][1] = q => Held(q) = PIPESIZE
         /\ pc[p] = "sleep_read" /\ call[p][1] = q /\ Free(q) => q \in cut \/ Held(q) = 0
    /\ \A q \in Pipe : Held(q) <= PIPESIZE

\* Who sleeps waits for an end that is open.
SleepInv ==
    \A p \in Proc :
        /\ pc[p] = "sleep_read" => "write" \in pipe[call[p][1]].open
        /\ pc[p] = "sleep_write" => "read" \in pipe[call[p][1]].open

Inv == FilesExact /\ (\A p \in Proc : PlaceInv(p)) /\ EndInv /\ CallInv /\ SleepInv
=============================================================================
