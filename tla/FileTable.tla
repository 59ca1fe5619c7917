----------------------------- MODULE FileTable -----------------------------
(***************************************************************************)
(* Open files (file.c) and the descriptors of the processes (sysfile.c,    *)
(* fork and exit of proc.c in Assignment 4), whose last reference closes   *)
(* an end of a pipe.                                                       *)
(*                                                                         *)
(* A step is one critical section of ftable.lock.  Descriptors belong to   *)
(* one process and need no lock.  Files of the file system are those of    *)
(* FileTree; here a file is an end of a pipe.                              *)
(***************************************************************************)
EXTENDS Integers, Sequences, FiniteSets, SequencesExt, TLC

CONSTANTS
    Proc,
    Pipe,       \* pages that kalloc may return for a pipe
    NFILE,      \* files
    NOFILE,     \* descriptors of a process
    None        \* no file, no pipe, no result

ASSUME FileAssumption ==
    /\ NFILE \in Nat /\ NOFILE \in Nat \ {0}
    /\ IsFiniteSet(Proc)
    /\ None \notin Proc \cup Pipe \cup (1 .. NFILE)

File == 1 .. NFILE
FD == 0 .. NOFILE - 1

VARIABLES
    file,       \* ref, type, writable and pipe of every file
    ofile,      \* descriptors of every process
    pc,
    exiting,    \* processes in exit
    closed,     \* the pipe that fileclose is about to give to pipeclose, and which end
    rf, wf      \* locals of pipealloc and sys_pipe; rf is also the f of sys_close

fileVars == <<file, ofile, closed, rf, wf>>

\* The places that keep a reference to a file: the descriptors, rf and wf
RF == NOFILE
WF == NOFILE + 1
Place == FD \cup {RF, WF}
Ref(p, k) == IF k = RF THEN rf[p] ELSE IF k = WF THEN wf[p] ELSE ofile[p][k]

FileInit ==
    /\ file = [f \in File |-> [ref |-> 0, type |-> "none", writable |-> FALSE, pipe |-> None]]
    /\ ofile = [p \in Proc |-> [fd \in FD |-> None]]
    /\ closed = [p \in Proc |-> <<None, FALSE>>]
    /\ rf = [p \in Proc |-> None]
    /\ wf = [p \in Proc |-> None]

FileTypeOK ==
    /\ file \in [File -> [ref : Nat, type : {"none", "pipe"}, writable : BOOLEAN, pipe : Pipe \cup {None}]]
    /\ ofile \in [Proc -> [FD -> File \cup {None}]]
    /\ closed \in [Proc -> (Pipe \cup {None}) \X BOOLEAN]
    /\ rf \in [Proc -> File \cup {None}] /\ wf \in [Proc -> File \cup {None}]

Goto(p, l) == pc' = [pc EXCEPT ![p] = l]

Unused == {f \in File : file[f].ref = 0}
FreeFds(p) == {fd \in FD : ofile[p][fd] = None}
FirstFd(p) == Min(FreeFds(p))

-----------------------------------------------------------------------------
(* fileclose, for the locals of sys_close and sys_pipe or every descriptor  *)

ToClose(p) == {k \in Place : Ref(p, k) # None /\ (k \in FD => p \in exiting)}

Clear(p, k) ==
    /\ rf' = IF k = RF THEN [rf EXCEPT ![p] = None] ELSE rf
    /\ wf' = IF k = WF THEN [wf EXCEPT ![p] = None] ELSE wf
    /\ ofile' = IF k \in FD THEN [ofile EXCEPT ![p][k] = None] ELSE ofile

\* mutant of LastReference: another reference is taken for the last
LastReferenceTwo(f) == file[f].ref <= 2
LastReference(f) == file[f].ref = 1

Fileclose(p, then) ==
    /\ pc[p] = "close"
    /\ ToClose(p) # {}
    /\ LET k == Min(ToClose(p))
           f == Ref(p, k)
       IN  /\ Clear(p, k)
           /\ \/ /\ ~LastReference(f)
                 /\ file' = [file EXCEPT ![f].ref = @ - 1]
                 /\ UNCHANGED <<closed, pc>>
              \/ /\ LastReference(f)
                 /\ file' = [file EXCEPT ![f].ref = 0, ![f].type = "none"]
                 /\ \/ /\ file[f].type = "pipe"
                       /\ closed' = [closed EXCEPT ![p] = <<file[f].pipe, file[f].writable>>]
                       /\ Goto(p, then)
                    \/ file[f].type = "none" /\ UNCHANGED <<closed, pc>>

\* sys_close clears the descriptor first
SysClose(p, fd) ==
    /\ ofile[p][fd] # None
    /\ ofile' = [ofile EXCEPT ![p][fd] = None]
    /\ rf' = [rf EXCEPT ![p] = ofile[p][fd]]
    /\ Goto(p, "close")
    /\ UNCHANGED <<file, closed, wf>>

\* sys_dup: fdalloc, then filedup
SysDup(p, fd) ==
    /\ ofile[p][fd] # None
    /\ FreeFds(p) # {}
    /\ ofile' = [ofile EXCEPT ![p][FirstFd(p)] = ofile[p][fd]]
    /\ file' = [file EXCEPT ![ofile[p][fd]].ref = @ + 1]
    /\ UNCHANGED <<closed, rf, wf, pc>>

\* fork: one filedup for every descriptor.  The parent keeps its references
\* meanwhile and the child does not run, so that no step between them matters.
ForkFiles(p, c) ==
    /\ ofile' = [ofile EXCEPT ![c] = ofile[p]]
    /\ file' = [f \in File |-> [file[f] EXCEPT !.ref = @ + Cardinality({fd \in FD : ofile[p][fd] = f})]]
    /\ UNCHANGED <<closed, rf, wf>>

-----------------------------------------------------------------------------
(* sys_pipe, with the part of pipealloc that is about files *)

Filealloc == file' = [file EXCEPT ![Min(Unused)].ref = 1]

AllocRead(p) ==
    /\ Unused # {}
    /\ Filealloc
    /\ rf' = [rf EXCEPT ![p] = Min(Unused)]
    /\ Goto(p, "alloc_write")
    /\ UNCHANGED <<ofile, closed, wf>>

AllocWrite(p) ==
    /\ pc[p] = "alloc_write"
    /\ \/ /\ Unused # {}
          /\ Filealloc
          /\ wf' = [wf EXCEPT ![p] = Min(Unused)]
          /\ Goto(p, "alloc_pipe")
       \/ /\ Unused = {}
          /\ Goto(p, "close")
          /\ UNCHANGED <<file, wf>>
    /\ UNCHANGED <<ofile, closed, rf>>

\* kalloc has failed.
NoPage(p) ==
    /\ Goto(p, "close")
    /\ UNCHANGED <<file, ofile, rf, wf>>

\* The ends of pipe q get descriptors, unless there are too few or the
\* addresses for their numbers are bad.
OpenEnds(p, q) ==
    /\ file' = [file EXCEPT ![rf[p]] = [@ EXCEPT !.type = "pipe", !.writable = FALSE, !.pipe = q],
                            ![wf[p]] = [@ EXCEPT !.type = "pipe", !.writable = TRUE, !.pipe = q]]
    /\ \/ /\ \E fd0, fd1 \in FreeFds(p) :
               /\ fd0 < fd1 /\ \A fd \in FreeFds(p) : fd = fd0 \/ fd1 <= fd
               /\ ofile' = [ofile EXCEPT ![p][fd0] = rf[p], ![p][fd1] = wf[p]]
          /\ rf' = [rf EXCEPT ![p] = None] /\ wf' = [wf EXCEPT ![p] = None]
          /\ Goto(p, "idle")
       \/ Goto(p, "close") /\ UNCHANGED <<ofile, rf, wf>>

-----------------------------------------------------------------------------
\* Every reference is a descriptor, a local of sys_pipe or one that is about
\* to be closed.
References(f) == Cardinality({x \in Proc \X Place : Ref(x[1], x[2]) = f})
=============================================================================
