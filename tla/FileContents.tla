---------------------------- MODULE FileContents ----------------------------
(***************************************************************************)
(* What read and write promise of files of any size: a file is a sequence, *)
(* and a process reads and writes it where it is in it.                    *)
(***************************************************************************)
EXTENDS Integers, Sequences

CONSTANTS Proc, File, Data, None

VARIABLES
    contents,   \* of every file
    open,       \* the file a process has open
    pos,        \* where it is in the file
    result      \* what its last read returned

vars == <<contents, open, pos, result>>

Init ==
    /\ contents = [f \in File |-> <<>>]
    /\ open = [p \in Proc |-> None]
    /\ pos = [p \in Proc |-> 0]
    /\ result = [p \in Proc |-> <<>>]

Open(p, f) ==
    /\ open' = [open EXCEPT ![p] = f]
    /\ pos' = [pos EXCEPT ![p] = 0]
    /\ contents' \in {contents, [contents EXCEPT ![f] = <<>>]}
    /\ UNCHANGED result

Close(p) ==
    /\ open' = [open EXCEPT ![p] = None]
    /\ UNCHANGED <<contents, pos, result>>

Remove(f) ==
    /\ \A p \in Proc : open[p] # f
    /\ contents' = [contents EXCEPT ![f] = <<>>]
    /\ UNCHANGED <<open, pos, result>>

\* the next bytes of a write, which cannot leave a hole
Write(p, f, d) ==
    /\ open[p] = f /\ pos[p] <= Len(contents[f])
    /\ pos'[p] > pos[p] /\ pos' = [pos EXCEPT ![p] = pos'[p]]
    /\ LET s == contents[f] IN
       contents' = [contents EXCEPT ![f] =
                      [i \in 1 .. IF pos'[p] > Len(s) THEN pos'[p] ELSE Len(s) |->
                         IF i \in pos[p] + 1 .. pos'[p] THEN d ELSE s[i]]]
    /\ UNCHANGED <<open, result>>

Read(p, f) ==
    /\ open[p] = f
    /\ pos'[p] \in pos[p] + 1 .. Len(contents[f]) /\ pos' = [pos EXCEPT ![p] = pos'[p]]
    /\ result' = [result EXCEPT ![p] = SubSeq(contents[f], pos[p] + 1, pos'[p])]
    /\ UNCHANGED <<contents, open>>

\* the end of the file, or beyond it after a truncation
ReadNothing(p, f) ==
    /\ open[p] = f /\ pos[p] >= Len(contents[f])
    /\ result' = [result EXCEPT ![p] = <<>>]
    /\ UNCHANGED <<contents, open, pos>>

Next ==
    \E p \in Proc, f \in File :
        \/ Open(p, f) \/ Close(p) \/ Remove(f) \/ Read(p, f) \/ ReadNothing(p, f)
        \/ \E d \in Data : Write(p, f, d)

Spec == Init /\ [][Next]_vars
=============================================================================
