---------------------------- MODULE MCDbSession ----------------------------
(* Small instances of DbSession: one call of each shape. *)
EXTENDS DbSession

CONSTANTS c1, c2, c3, c4

MCScript ==
    [c \in Calls |-> CASE c = c1 -> WriteCall
                       [] c = c2 -> SwapCall
                       [] c = c3 -> UpdateCall
                       [] OTHER  -> ReadCall]
ThreadsScript ==
    [c \in Calls |-> CASE c = c1 -> ShrinkCall
                       [] c = c2 -> UpdateCall
                       [] OTHER  -> ReadCall]
WritesScript == [c \in Calls |-> WriteCall]

DoNotRetry == [wait |-> -1, count |-> -1]
Default == {DoNotRetry}
DefaultOrTwice == {DoNotRetry, [wait |-> 1, count |-> 2]}
=============================================================================
