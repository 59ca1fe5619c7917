----------------------------- MODULE ByteQueue -----------------------------
(***************************************************************************)
(* What a pipe promises: bytes arrive once and in the order they were      *)
(* written, a reader is told the end of the file only when nothing is left *)
(* and nobody can write, and only when nobody can read may a write fail.   *)
(***************************************************************************)
EXTENDS Integers, Sequences

CONSTANTS Proc, Pipe, Byte, Capacity,
          None, Eof, Fail       \* results that are not data

VARIABLES
    queue,      \* bytes on their way
    readers,    \* pipes with a read end
    writers,    \* pipes with a write end
    result,     \* what the last read or write of a process returned
    killed      \* processes that are to die

vars == <<queue, readers, writers, result, killed>>

Init ==
    /\ queue = [q \in Pipe |-> <<>>]
    /\ readers = {} /\ writers = {}
    /\ result = [p \in Proc |-> None]
    /\ killed = {}

Create(q) ==
    /\ q \notin readers \cup writers
    /\ readers' = readers \cup {q} /\ writers' = writers \cup {q}
    /\ queue' = [queue EXCEPT ![q] = <<>>]
    /\ UNCHANGED <<result, killed>>

\* The last end of one kind is closed; bytes that nobody can read are lost.
CloseRead(q) ==
    /\ readers' = readers \ {q}
    /\ UNCHANGED <<queue, writers, result, killed>>
CloseWrite(q) ==
    /\ writers' = writers \ {q}
    /\ UNCHANGED <<queue, readers, result, killed>>

Put(q, b) ==
    /\ Len(queue[q]) < Capacity /\ q \in readers /\ q \in writers
    /\ queue' = [queue EXCEPT ![q] = Append(@, b)]
    /\ UNCHANGED <<readers, writers, result, killed>>

Written(p) ==
    /\ result' = [result EXCEPT ![p] = <<>>]
    /\ UNCHANGED <<queue, readers, writers, killed>>

\* A byte that could not be stored is lost, and ends what the reader gets.
Get(p, q, k, lost) ==
    /\ k + lost \in 1 .. Len(queue[q])
    /\ queue' = [queue EXCEPT ![q] = SubSeq(@, k + lost + 1, Len(@))]
    /\ result' = [result EXCEPT ![p] = SubSeq(queue[q], 1, k)]
    /\ UNCHANGED <<readers, writers, killed>>

EndOfFile(p, q) ==
    /\ queue[q] = <<>> /\ q \in readers \ writers
    /\ result' = [result EXCEPT ![p] = Eof]
    /\ UNCHANGED <<queue, readers, writers, killed>>

Failed(p, q) ==
    /\ p \in killed \/ q \in writers \ readers
    /\ result' = [result EXCEPT ![p] = Fail]
    /\ UNCHANGED <<queue, readers, writers, killed>>

Kill(p) ==
    /\ killed' = killed \cup {p}
    /\ UNCHANGED <<queue, readers, writers, result>>

NewProcess(p) ==
    /\ killed' = killed \ {p}
    /\ result' = [result EXCEPT ![p] = None]
    /\ UNCHANGED <<queue, readers, writers>>

Next ==
    \/ \E q \in Pipe : Create(q) \/ CloseRead(q) \/ CloseWrite(q) \/ \E b \in Byte : Put(q, b)
    \/ \E p \in Proc : Written(p) \/ Kill(p) \/ NewProcess(p)
    \/ \E p \in Proc, q \in Pipe :
         Failed(p, q) \/ EndOfFile(p, q) \/ \E k \in 0 .. Capacity, l \in 0 .. 1 : Get(p, q, k, l)

Spec == Init /\ [][Next]_vars
=============================================================================
