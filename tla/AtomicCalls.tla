---------------------------- MODULE AtomicCalls ----------------------------
(***************************************************************************)
(* What the database layer of MyFS promises to its callers: every call on  *)
(* a file (a write, an append, a truncate, a swap, a single INSERT, UPDATE *)
(* or DELETE, a SELECT) is one atomic step on the store.                   *)
(*                                                                         *)
(* The promise is deliberately one-sided.  A call that fails after a       *)
(* transaction leaves nothing behind, but a call that reports success may  *)
(* have left nothing behind either: every caller drops the result of its   *)
(* COMMIT.  A single autocommitted statement that reports failure may have *)
(* been executed: its reply can be lost.                                   *)
(***************************************************************************)
CONSTANTS
    Calls,          \* the calls made on the database layer
    Effects(_),     \* Effects(c): the rows call c changes
    Transactional   \* the calls that run inside a transaction

VARIABLES
    store,          \* the effects that are durable
    status          \* "waiting", "running", "ok" or "failed", for each call

vars == <<store, status>>

Init ==
    /\ store = {}
    /\ status = [c \in Calls |-> "waiting"]

Begin(c) ==
    /\ status[c] = "waiting"
    /\ status' = [status EXCEPT ![c] = "running"]
    /\ UNCHANGED store

(* The call returns having taken effect as a whole. *)
Applied(c) ==
    /\ status[c] = "running"
    /\ store' = store \cup Effects(c)
    /\ \/ status' = [status EXCEPT ![c] = "ok"]
       \/ c \notin Transactional /\ status' = [status EXCEPT ![c] = "failed"]

(* The call returns having changed nothing. *)
Dropped(c) ==
    /\ status[c] = "running"
    /\ \E r \in {"ok", "failed"} : status' = [status EXCEPT ![c] = r]
    /\ UNCHANGED store

Next == \E c \in Calls : Begin(c) \/ Applied(c) \/ Dropped(c)

Spec == Init /\ [][Next]_vars
=============================================================================
