----------------------------- MODULE MCFileTree -----------------------------
(* Instances of FileTree for TLC: small trees and the calls made on them.  *)
EXTENDS FileTree, TLC

\* The root holds a directory /a, a file /b, a file or a directory /a/b, or nothing.
Up(d) == DotDot :> d
Tree(t2, t3, t4, ea, eb, eab) ==
    [type |-> <<"dir", t2, t3, t4>>,
     entry |-> <<[a |-> ea, b |-> eb] @@ Up(1), [a |-> 0, b |-> eab] @@ Up(IF t2 = "dir" THEN 1 ELSE 0),
                 [a |-> 0, b |-> 0] @@ Up(IF t3 = "dir" THEN 2 ELSE 0), Empty>>,
     target |-> <<<<>>, <<>>, <<>>, <<>>>>]
MCTrees == {Tree("none", "none", "none", 0, 0, 0), Tree("file", "none", "none", 2, 0, 0),
            Tree("dir", "file", "none", 2, 3, 3), Tree("dir", "dir", "file", 2, 4, 3)}

\* Processes differ in nothing but their names.
Symmetry == Permutations(Proc)

A == <<"/", "a">>
B == <<"/", "b">>
AB == <<"/", "a", "b">>
Above == AB \o <<"..">>
MCCalls ==
    {[op |-> "open", path |-> AB, write |-> FALSE], [op |-> "open", path |-> B, write |-> TRUE],
     [op |-> "create", path |-> AB], [op |-> "close"],
     [op |-> "mkdir", path |-> A], [op |-> "mkdir", path |-> AB],
     [op |-> "symlink", path |-> B, old |-> A],
     [op |-> "link", path |-> B, new |-> AB], [op |-> "link", path |-> AB, new |-> B],
     [op |-> "unlink", path |-> A], [op |-> "unlink", path |-> AB], [op |-> "unlink", path |-> <<"b">>],
     [op |-> "unlink", path |-> <<"/", "a", "..">>],
     [op |-> "open", path |-> Above, write |-> FALSE], [op |-> "mkdir", path |-> Above],
     [op |-> "link", path |-> B, new |-> Above],
     [op |-> "symlink", path |-> A, old |-> B], [op |-> "readlink", path |-> B],
     [op |-> "chdir", path |-> A], [op |-> "chdir", path |-> B]}
=============================================================================
