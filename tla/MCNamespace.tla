---------------------------- MODULE MCNamespace ----------------------------
(* Small instances of Namespace.  The tail of the names `ab' and `cb', when *)
(* the first letter is skipped, is the name `b', whose own tail is empty.   *)
EXTENDS Namespace, TLC

CONSTANTS m1, m2, t1, t2

OneEach == (t1 :> m1) @@ (t2 :> m2)
Alone == (t1 :> m1)
BothOnOne == (t1 :> m1) @@ (t2 :> m1)

Tails == [n \in {"b", "ab", "cb"} |-> IF n = "b" THEN <<>> ELSE <<"b">>]

(* A directory with a child, and a file with the name of the child beside  *)
(* it; two directories that can be moved into one another, and a third     *)
Few == {<<"b">>, <<"ab">>, <<"b", "ab">>}
Many == Few \cup {<<"cb">>, <<"cb", "b">>, <<"cb", "ab">>, <<"ab", "cb">>}

On(ops, paths) == {[op |-> op, path |-> path, to |-> path] : op \in ops, path \in paths}
Renames(op, paths) == [op : {op}, path : paths, to : paths]

Start(rows0, nextId0, requests0) ==
    [rows |-> rows0, nextId |-> nextId0, requests |-> requests0]
Dir(parent, name) ==
    [parent |-> parent, name |-> name, type |-> "Directory", text |-> "none"]

(* Two files to be created, in a tree whose earlier files are gone.        *)
(* Callbacks that conflict are divided over the two mounts.                *)
Growing ==
    Start(<<>>, 3,
          (t1 :> On({"mkdir", "unlink", "getattr", "setattr"}, Few) \cup Renames("move", Few))
          @@ (t2 :> On({"rmdir", "symlink", "create", "open", "opendir"}, Few)
                       \cup Renames("swap", Few)))

(* /ab, /cb and /cb/b: one mount moves a directory into another and back,  *)
(* or into itself, and makes a fourth; the other one exchanges a file with *)
(* one of another directory, and removes.                                  *)
Moving3 ==
    Start(<<Dir(Root, "ab"), Dir(Root, "cb"), Dir(2, "b")>>, 4,
          (t1 :> Renames("move", {<<"ab">>, <<"cb", "ab">>})
                   \cup Renames("move", {<<"cb">>, <<"ab", "cb">>})
                   \cup On({"mkdir"}, {<<"ab">>}))
          @@ (t2 :> Renames("swap", {<<"ab">>, <<"cb", "b">>})
                      \cup Renames("swap", {<<"b">>, <<"cb", "ab">>})
                      \cup Renames("swap", {<<"cb">>, <<"cb", "b">>})
                      \cup On({"rmdir"}, {<<"ab">>, <<"cb">>, <<"cb", "b">>})))

TreeStarts == {Growing, Moving3}

OpenStarts ==
    {Start(<<>>, 3, (t1 :> On({"create", "open"}, Few)) @@ (t2 :> On({"open"}, Few)))}
LookupStarts == {Start(<<>>, 3, (t1 :> On({"mkdir", "getattr"}, Few)))}
=============================================================================
