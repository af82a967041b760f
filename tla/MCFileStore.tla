---------------------------- MODULE MCFileStore ----------------------------
(* Small instances of FileStore: blocks of two bytes. *)
EXTENDS FileStore

MCData == {<<"x">>, <<"y", "x", "y">>}
HandleSymmetry == Permutations(Handles)
=============================================================================
