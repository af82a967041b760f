----------------------------- MODULE DbSession -----------------------------
(***************************************************************************)
(* The database session of MyFS: src/common/db.c, and the way every        *)
(* function of src/myfs/myfs_db.c drives it.                               *)
(*                                                                         *)
(* FUSE runs the callbacks of MyFS on several threads (main.c starts       *)
(* fuse_main without -s).  They all use the one connection myfs->db, with  *)
(* no lock.  A call is the sequence of queries one function of myfs_db.c   *)
(* sends; one step of this module is one call of mysql_real_query or of    *)
(* mysql_store_result, so that the queries of different threads            *)
(* interleave.  (Two threads inside the driver at the same instant is a    *)
(* data race, which can do anything more; it is not modelled.)             *)
(*                                                                         *)
(* The driver (MariaDB Connector/C with MYSQL_OPT_RECONNECT) and the       *)
(* server are external.  They are described by what MyFS can observe:      *)
(*  - a query sent while another thread's SELECT is unread is refused;     *)
(*  - a lost link makes the server roll back the open transaction;         *)
(*  - the driver reconnects silently, unless the last status it saw says   *)
(*    a transaction is open: then it refuses once and forgets the status;  *)
(*  - a reply can be lost after the server has executed the query;         *)
(*  - the server can abort a transaction (deadlock), and START TRANSACTION *)
(*    commits a transaction that is still open.                            *)
(***************************************************************************)
EXTENDS Integers, Sequences, FiniteSets

CONSTANTS
    Workers,        \* the threads of the FUSE loop
    Calls,          \* the calls they make
    Script,         \* Script[c]: the queries call c sends
    RetryOptions,   \* the settings failed_query_retry_{wait,count} may have
    Faults,         \* which of "link", "statement" and "abort" may happen
    Nobody,         \* no worker
    NoCall          \* no call

(* The shapes of the functions of myfs_db.c; WriteCall stands for write,   *)
(* append and a growing truncate, which differ in their statements only.   *)
WriteCall  == <<"start", "select", "exec", "exec", "stop">>
ShrinkCall == <<"start", "select", "exec", "select", "exec", "stop">>
SwapCall   == <<"start", "exec", "exec", "stop">>
UpdateCall == <<"exec">>     \* create, delete, rename, chmod, chown, ...
ReadCall   == <<"select">>   \* read, and each lookup

IsTransaction(s) ==
    /\ Len(s) >= 2
    /\ s[1] = "start"
    /\ s[Len(s)] = "stop"
    /\ \A i \in 2..(Len(s) - 1) : s[i] \in {"exec", "select"}

IsSingle(s) == Len(s) = 1 /\ s[1] \in {"exec", "select"}

ASSUME ScriptAssumption ==
    /\ Script \in [Calls -> Seq({"start", "select", "exec", "stop"})]
    /\ \A c \in Calls : IsTransaction(Script[c]) \/ IsSingle(Script[c])
ASSUME RetryAssumption == RetryOptions \subseteq [wait : Int, count : Int]
ASSUME NobodyAssumption == Nobody \notin Workers /\ NoCall \notin Calls

VARIABLES
    retry,      \* db_t: wait = -1: do not retry; count = -1: retry forever
    durable,    \* server: the committed effects
    pending,    \* server: the effects of the open transaction
    inTxn,      \* server: this session has an open transaction
    link,       \* the connection is up
    flag,       \* driver: SERVER_STATUS_IN_TRANS of the last reply
    unread,     \* driver: the worker whose SELECT is not read yet, or Nobody
    pc,         \* worker: "idle", "query" or "fetch"
    call,       \* worker: the call it executes, or NoCall
    step,       \* worker: the query it is at
    ok,         \* worker: the variable `success' of the call
    tries,      \* worker: the variable `count' of db_query_timed
    result      \* what each call returned

server == <<durable, pending, inTxn>>
driver == <<link, flag, unread>>
worker == <<pc, call, step, ok, tries>>
vars == <<retry, server, driver, worker, result>>

Effects(c) == {<<c, i>> : i \in {j \in DOMAIN Script[c] : Script[c][j] = "exec"}}
Transactional == {c \in Calls : IsTransaction(Script[c])}

TypeOK ==
    /\ retry \in RetryOptions
    /\ durable \subseteq UNION {Effects(c) : c \in Calls}
    /\ pending \subseteq UNION {Effects(c) : c \in Calls}
    /\ inTxn \in BOOLEAN /\ link \in BOOLEAN /\ flag \in BOOLEAN
    /\ unread \in Workers \cup {Nobody}
    /\ pc \in [Workers -> {"idle", "query", "fetch"}]
    /\ call \in [Workers -> Calls \cup {NoCall}]
    /\ step \in [Workers -> Nat]
    /\ ok \in [Workers -> BOOLEAN]
    /\ tries \in [Workers -> Nat]
    /\ result \in [Calls -> {"waiting", "running", "ok", "failed"}]
    /\ \A w \in Workers :
          IF call[w] = NoCall THEN pc[w] = "idle"
                              ELSE pc[w] # "idle" /\ step[w] \in DOMAIN Script[call[w]]

(* db_connect: a fresh connection, no transaction; then the settings. *)
Init ==
    /\ retry \in RetryOptions
    /\ durable = {} /\ pending = {} /\ inTxn = FALSE
    /\ link = TRUE /\ flag = FALSE /\ unread = Nobody
    /\ pc = [w \in Workers |-> "idle"]
    /\ call = [w \in Workers |-> NoCall]
    /\ step = [w \in Workers |-> 0]
    /\ ok = [w \in Workers |-> TRUE]
    /\ tries = [w \in Workers |-> 0]
    /\ result = [c \in Calls |-> "waiting"]

-----------------------------------------------------------------------------
(* A worker enters a function of myfs_db.c. *)
Begin(w, c) ==
    /\ call[w] = NoCall
    /\ result[c] = "waiting"
    /\ pc' = [pc EXCEPT ![w] = "query"]
    /\ call' = [call EXCEPT ![w] = c]
    /\ step' = [step EXCEPT ![w] = 1]
    /\ ok' = [ok EXCEPT ![w] = TRUE]
    /\ tries' = [tries EXCEPT ![w] = 0]
    /\ result' = [result EXCEPT ![c] = "running"]
    /\ UNCHANGED <<retry, server, driver>>

Return(w, success) ==
    /\ pc' = [pc EXCEPT ![w] = "idle"]
    /\ call' = [call EXCEPT ![w] = NoCall]
    /\ result' = [result EXCEPT ![call[w]] = IF success THEN "ok" ELSE "failed"]
    /\ UNCHANGED <<step, ok, tries>>

GoTo(w, i, success) ==
    /\ pc' = [pc EXCEPT ![w] = "query"]
    /\ step' = [step EXCEPT ![w] = i]
    /\ ok' = [ok EXCEPT ![w] = success]
    /\ tries' = [tries EXCEPT ![w] = 0]
    /\ UNCHANGED <<call, result>>

LastStep(w) == Len(Script[call[w]])

(* The query db_transaction_stop sends depends on `success'. *)
Query(w) ==
    LET q == Script[call[w]][step[w]]
    IN  IF q # "stop" THEN q ELSE IF ok[w] THEN "commit" ELSE "rollback"

Stopping(w) == Query(w) \in {"commit", "rollback"}

(* Mutant of Advance: the end of the call is missed by one. *)
AdvanceTooFar(w) ==
    IF step[w] > LastStep(w) THEN Return(w, ok[w]) ELSE GoTo(w, step[w] + 1, ok[w])

(* After a query that succeeded. *)
Advance(w) ==
    IF step[w] = LastStep(w) THEN Return(w, ok[w]) ELSE GoTo(w, step[w] + 1, ok[w])

(* Mutants of GiveUp: `success = false' is forgotten before `goto done';   *)
(* the function returns without going to `done'; the result of             *)
(* db_transaction_stop becomes the result of the call.                     *)
GiveUpKeepsSuccess(w) ==
    \/ Stopping(w) /\ Return(w, ok[w])
    \/ ~Stopping(w) /\ step[w] = 1 /\ Return(w, FALSE)
    \/ ~Stopping(w) /\ step[w] # 1 /\ GoTo(w, LastStep(w), ok[w])
GiveUpWithoutStop(w) == Return(w, Stopping(w) /\ ok[w])
GiveUpReportsStop(w) ==
    \/ (Stopping(w) \/ step[w] = 1) /\ Return(w, FALSE)
    \/ ~Stopping(w) /\ step[w] # 1 /\ GoTo(w, LastStep(w), FALSE)

(* After a query that failed: a transaction that was started goes to its   *)
(* `done' label and rolls back; the result of db_transaction_stop is       *)
(* dropped, so that the call returns `success' whatever became of it.      *)
GiveUp(w) ==
    \/ Stopping(w) /\ Return(w, ok[w])
    \/ ~Stopping(w) /\ step[w] = 1 /\ Return(w, FALSE)
    \/ ~Stopping(w) /\ step[w] # 1 /\ GoTo(w, LastStep(w), FALSE)

(* The error branch of db_query_timed. *)
MayRetry(w) ==
    /\ retry.wait # -1
    /\ retry.count # -1 => tries[w] + 1 < retry.count

(* Mutant of QueryFailed: a failed attempt is not counted. *)
QueryFailedUncounted(w) ==
    IF MayRetry(w)
    THEN UNCHANGED <<pc, call, step, ok, tries, result>>
    ELSE GiveUp(w)

QueryFailed(w) ==
    IF MayRetry(w)
    THEN /\ tries' = [tries EXCEPT ![w] = IF retry.count # -1 THEN @ + 1 ELSE @]
         /\ UNCHANGED <<pc, call, step, ok, result>>
    ELSE GiveUp(w)

-----------------------------------------------------------------------------
(* What the server makes of the query, once it has reached it. *)
DurableAfter(w) ==
    CASE Query(w) \in {"start", "commit"} -> durable \cup pending
      [] Query(w) = "exec" /\ ~inTxn      -> durable \cup {<<call[w], step[w]>>}
      [] OTHER                            -> durable
PendingAfter(w) ==
    CASE Query(w) = "exec" /\ inTxn -> pending \cup {<<call[w], step[w]>>}
      [] Query(w) = "select"        -> pending
      [] OTHER                      -> {}
InTxnAfter(w) == Query(w) = "start" \/ (inTxn /\ Query(w) \in {"select", "exec"})

DropTransaction == pending' = {} /\ inTxn' = FALSE

(* The driver sends the query; it reconnects if the link is down, unless   *)
(* it believes a transaction is open.                                      *)
CanSend(w) == pc[w] = "query" /\ unread = Nobody /\ (link \/ ~flag)

QuerySucceeds(w) ==
    /\ CanSend(w)
    /\ durable' = DurableAfter(w)
    /\ pending' = PendingAfter(w)
    /\ inTxn' = InTxnAfter(w)
    /\ link' = TRUE
    /\ flag' = InTxnAfter(w)
    /\ IF Query(w) = "select"
       THEN /\ pc' = [pc EXCEPT ![w] = "fetch"]
            /\ unread' = w
            /\ UNCHANGED <<call, step, ok, tries, result>>
       ELSE Advance(w) /\ UNCHANGED unread
    /\ UNCHANGED retry

(* CR_COMMANDS_OUT_OF_SYNC. *)
OutOfSync(w) ==
    /\ pc[w] = "query"
    /\ unread # Nobody
    /\ QueryFailed(w)
    /\ UNCHANGED <<retry, server, driver>>

(* The server refuses one statement: a duplicate key, a lock timeout, ...  *)
StatementRefused(w) ==
    /\ "statement" \in Faults
    /\ CanSend(w)
    /\ Query(w) \in {"start", "select", "exec"}
    /\ link' = TRUE
    /\ flag' = (link /\ flag)
    /\ QueryFailed(w)
    /\ UNCHANGED <<retry, server, unread>>

(* The server aborts the transaction: a deadlock, a failed commit.  An     *)
(* error reply carries no status, so the driver's flag stays.              *)
TransactionAborted(w) ==
    /\ "abort" \in Faults
    /\ CanSend(w)
    /\ inTxn
    /\ Query(w) \in {"select", "exec", "commit"}
    /\ DropTransaction
    /\ QueryFailed(w)
    /\ UNCHANGED <<retry, durable, driver>>

(* The link is down: the server is away, or the driver refuses to          *)
(* reconnect and forgets the open transaction.                             *)
SendFails(w) ==
    /\ pc[w] = "query"
    /\ unread = Nobody
    /\ ~link
    /\ flag' \in {flag, FALSE}
    /\ QueryFailed(w)
    /\ UNCHANGED <<retry, server, link, unread>>

(* The server executes the query; the link breaks before the reply. *)
ReplyLost(w) ==
    /\ "link" \in Faults
    /\ pc[w] = "query" /\ unread = Nobody /\ link
    /\ durable' = DurableAfter(w)
    /\ DropTransaction
    /\ link' = FALSE
    /\ QueryFailed(w)
    /\ UNCHANGED <<retry, flag, unread>>

LinkLost ==
    /\ "link" \in Faults
    /\ link
    /\ link' = FALSE
    /\ DropTransaction
    /\ UNCHANGED <<retry, durable, flag, unread, worker, result>>

(* mysql_store_result; it can fail for want of memory or because the link  *)
(* broke, and db_select does not retry it.                                 *)
Fetched(w) ==
    /\ pc[w] = "fetch"
    /\ unread' = Nobody
    /\ Advance(w)
    /\ UNCHANGED <<retry, server, link, flag>>

FetchFails(w) ==
    /\ pc[w] = "fetch"
    /\ unread' = Nobody
    /\ GiveUp(w)
    /\ UNCHANGED <<retry, server, link, flag>>

WorkerStep(w) ==
    \/ QuerySucceeds(w) \/ OutOfSync(w) \/ StatementRefused(w)
    \/ TransactionAborted(w) \/ SendFails(w) \/ ReplyLost(w)
    \/ Fetched(w) \/ FetchFails(w)

Next ==
    \/ \E w \in Workers, c \in Calls : Begin(w, c)
    \/ \E w \in Workers : WorkerStep(w)
    \/ LinkLost

(* A thread that is inside a call keeps running. *)
Spec == Init /\ [][Next]_vars /\ \A w \in Workers : WF_vars(WorkerStep(w))

-----------------------------------------------------------------------------
(* What is promised holds with the default setting, which does not retry:  *)
(* a retried statement may run in another transaction than the one that    *)
(* its call started.                                                       *)
NoRetry == retry.wait = -1

(* A transaction of myfs_db.c (write, append, truncate, swap) is durable   *)
(* as a whole or not at all, whichever of its queries failed.              *)
AllOrNothing ==
    NoRetry => \A c \in Transactional :
                  Effects(c) \cap durable \in {{}, Effects(c)}

(* A transaction whose function returns false has changed nothing: every   *)
(* error path through `goto done' rolls back what it had done.             *)
FailedLeavesNothing ==
    NoRetry => \A c \in Transactional :
                  result[c] = "failed" => Effects(c) \cap durable = {}

(* No function of myfs_db.c leaves a transaction open: the next START      *)
(* TRANSACTION would commit what a failed call had done.                   *)
NoLeftoverTransaction ==
    (\A w \in Workers : call[w] = NoCall) => ~inTxn /\ pending = {}

(* The session implements atomic calls.  (With retries on, the mapping     *)
(* only keeps which calls returned.)                                       *)
Atomic == INSTANCE AtomicCalls WITH
    store <- IF NoRetry THEN durable ELSE {},
    status <- result
CallsAreAtomic == Atomic!Spec

(* Every call returns, unless the settings ask for endless retries: no     *)
(* failure of a query, a fetch or the link leaves a FUSE thread stuck.     *)
CallsReturn ==
    \A c \in Calls :
        (result[c] = "running" /\ (NoRetry \/ retry.count # -1))
            ~> result[c] \in {"ok", "failed"}

(* A call of one statement (create, delete, rename, chmod, chown) that     *)
(* returned true has been executed and is committed, also when it was      *)
(* retried over a link that broke: no transaction of an earlier call is    *)
(* left open to take it along.                                             *)
SinglesAreDurable ==
    \A c \in Calls \ Transactional : result[c] = "ok" => Effects(c) \subseteq durable

(* README.md, "Atomic reads and writes using MariaDB transactions": the    *)
(* same as AllOrNothing, whatever the settings for failed queries are.     *)
AtomicWrites ==
    \A c \in Transactional : Effects(c) \cap durable \in {{}, Effects(c)}
=============================================================================
