-------------------------- MODULE DbSession_proofs --------------------------
(***************************************************************************)
(* Theorems about DbSession, for every set of calls, every script that     *)
(* ScriptAssumption allows, every retry setting and every set of faults.   *)
(***************************************************************************)
EXTENDS DbSession, TLAPS

-----------------------------------------------------------------------------
(* Type correctness. *)

ServerOK ==
    /\ durable \subseteq UNION {Effects(c) : c \in Calls}
    /\ pending \subseteq UNION {Effects(c) : c \in Calls}
    /\ inTxn \in BOOLEAN /\ link \in BOOLEAN /\ flag \in BOOLEAN
    /\ unread \in Workers \cup {Nobody}

WorkerOK ==
    /\ pc \in [Workers -> {"idle", "query", "fetch"}]
    /\ call \in [Workers -> Calls \cup {NoCall}]
    /\ step \in [Workers -> Nat]
    /\ ok \in [Workers -> BOOLEAN]
    /\ tries \in [Workers -> Nat]
    /\ result \in [Calls -> {"waiting", "running", "ok", "failed"}]
    /\ \A w \in Workers :
          IF call[w] = NoCall THEN pc[w] = "idle"
                              ELSE pc[w] # "idle" /\ step[w] \in DOMAIN Script[call[w]]

(* The parts into which the proofs split TypeOK. *)
LEMMA TypeParts ==
  /\ TypeOK <=> retry \in RetryOptions /\ ServerOK /\ WorkerOK
  /\ TypeOK' <=> retry' \in RetryOptions /\ ServerOK' /\ WorkerOK'
  BY DEF TypeOK, ServerOK, WorkerOK

(* A script is a sequence, and not an empty one. *)
LEMMA ScriptType ==
  ASSUME NEW c \in Calls
  PROVE  /\ Script[c] \in Seq({"start", "select", "exec", "stop"})
         /\ Len(Script[c]) \in Nat \ {0}
         /\ DOMAIN Script[c] = 1..Len(Script[c])
<1>1. Script[c] \in Seq({"start", "select", "exec", "stop"})
  BY ScriptAssumption
<1>2. Len(Script[c]) \in Nat /\ DOMAIN Script[c] = 1..Len(Script[c])
  BY <1>1
<1>3. Len(Script[c]) # 0
  BY <1>2, ScriptAssumption DEF IsTransaction, IsSingle
<1> QED  BY <1>1, <1>2, <1>3

(* A worker that is not idle is at a query of its call. *)
LEMMA BusyType ==
  ASSUME WorkerOK, NEW w \in Workers, pc[w] # "idle"
  PROVE  call[w] \in Calls /\ step[w] \in DOMAIN Script[call[w]] /\ step[w] \in Nat \ {0}
<1>1. call[w] \in Calls /\ step[w] \in DOMAIN Script[call[w]]
  BY DEF WorkerOK
<1> QED  BY <1>1, ScriptType

(* Leaving a call keeps the types. *)
LEMMA ReturnType ==
  ASSUME WorkerOK, NEW w \in Workers, pc[w] # "idle", NEW s \in BOOLEAN, Return(w, s)
  PROVE  WorkerOK'
<1>1. call[w] \in Calls
  BY BusyType
<1>2. /\ pc' \in [Workers -> {"idle", "query", "fetch"}]
      /\ call' \in [Workers -> Calls \cup {NoCall}]
      /\ result' \in [Calls -> {"waiting", "running", "ok", "failed"}]
      /\ UNCHANGED <<step, ok, tries>>
  BY <1>1 DEF WorkerOK, Return
<1>3. ASSUME NEW v \in Workers
      PROVE  IF call'[v] = NoCall THEN pc'[v] = "idle"
             ELSE pc'[v] # "idle" /\ step'[v] \in DOMAIN Script[call'[v]]
  BY DEF WorkerOK, Return
<1> QED  BY <1>2, <1>3 DEF WorkerOK

(* Moving to a query of the script keeps the types. *)
LEMMA GoToType ==
  ASSUME WorkerOK, NEW w \in Workers, pc[w] # "idle", NEW s \in BOOLEAN,
         NEW i \in DOMAIN Script[call[w]], GoTo(w, i, s)
  PROVE  WorkerOK'
<1>1. call[w] \in Calls /\ i \in Nat
  BY BusyType, ScriptType
<1>2. /\ pc' \in [Workers -> {"idle", "query", "fetch"}]
      /\ step' \in [Workers -> Nat]
      /\ ok' \in [Workers -> BOOLEAN]
      /\ tries' \in [Workers -> Nat]
      /\ UNCHANGED <<call, result>>
  BY <1>1 DEF WorkerOK, GoTo
<1>3. ASSUME NEW v \in Workers
      PROVE  IF call'[v] = NoCall THEN pc'[v] = "idle"
             ELSE pc'[v] # "idle" /\ step'[v] \in DOMAIN Script[call'[v]]
  BY <1>1, NobodyAssumption DEF WorkerOK, GoTo
<1> QED  BY <1>2, <1>3 DEF WorkerOK

LEMMA AdvanceType ==
  ASSUME WorkerOK, NEW w \in Workers, pc[w] # "idle", Advance(w)
  PROVE  WorkerOK'
<1>0. ok[w] \in BOOLEAN
  BY DEF WorkerOK
<1>1. CASE step[w] = LastStep(w)
  BY <1>0, <1>1, ReturnType DEF Advance
<1>2. CASE step[w] # LastStep(w)
  <2>1. step[w] + 1 \in DOMAIN Script[call[w]]
    BY <1>2, BusyType, ScriptType DEF LastStep
  <2> QED  BY <1>0, <1>2, <2>1, GoToType DEF Advance
<1> QED  BY <1>1, <1>2

LEMMA GiveUpType ==
  ASSUME WorkerOK, NEW w \in Workers, pc[w] # "idle", GiveUp(w)
  PROVE  WorkerOK'
<1>0. ok[w] \in BOOLEAN
  BY DEF WorkerOK
<1>1. LastStep(w) \in DOMAIN Script[call[w]]
  BY BusyType, ScriptType DEF LastStep
<1> QED  BY <1>0, <1>1, ReturnType, GoToType DEF GiveUp

LEMMA QueryFailedType ==
  ASSUME WorkerOK, NEW w \in Workers, pc[w] # "idle", QueryFailed(w)
  PROVE  WorkerOK'
<1>1. CASE MayRetry(w)
  BY <1>1 DEF QueryFailed, WorkerOK
<1>2. CASE ~MayRetry(w)
  BY <1>2, GiveUpType DEF QueryFailed
<1> QED  BY <1>1, <1>2

(* The effect of an "exec" query is one of its call. *)
LEMMA EffectType ==
  ASSUME WorkerOK, NEW w \in Workers, pc[w] # "idle", Query(w) = "exec"
  PROVE  <<call[w], step[w]>> \in Effects(call[w])
<1>1. step[w] \in DOMAIN Script[call[w]]
  BY BusyType
<1>2. Script[call[w]][step[w]] = "exec"
  BY DEF Query
<1> QED  BY <1>1, <1>2 DEF Effects

LEMMA ServerType ==
  ASSUME WorkerOK, ServerOK, NEW w \in Workers, pc[w] # "idle"
  PROVE  /\ DurableAfter(w) \subseteq UNION {Effects(c) : c \in Calls}
         /\ PendingAfter(w) \subseteq UNION {Effects(c) : c \in Calls}
         /\ InTxnAfter(w) \in BOOLEAN
<1>1. call[w] \in Calls
  BY BusyType
<1>2. CASE Query(w) = "exec"
  <2>1. <<call[w], step[w]>> \in UNION {Effects(c) : c \in Calls}
    BY <1>1, <1>2, EffectType
  <2> QED  BY <1>2, <2>1 DEF ServerOK, DurableAfter, PendingAfter, InTxnAfter
<1>3. CASE Query(w) # "exec"
  BY <1>3 DEF ServerOK, DurableAfter, PendingAfter, InTxnAfter
<1> QED  BY <1>2, <1>3

LEMMA InitType == Init => TypeOK
<1> SUFFICES ASSUME Init PROVE TypeOK
  OBVIOUS
<1> QED  BY NobodyAssumption DEF Init, TypeOK

LEMMA BeginType ==
  ASSUME WorkerOK, NEW w \in Workers, NEW c \in Calls, Begin(w, c)
  PROVE  WorkerOK'
<1>1. /\ pc' \in [Workers -> {"idle", "query", "fetch"}]
      /\ call' \in [Workers -> Calls \cup {NoCall}]
      /\ step' \in [Workers -> Nat]
      /\ ok' \in [Workers -> BOOLEAN]
      /\ tries' \in [Workers -> Nat]
      /\ result' \in [Calls -> {"waiting", "running", "ok", "failed"}]
  BY DEF WorkerOK, Begin
<1>2. 1 \in DOMAIN Script[c]
  BY ScriptType
<1>3. ASSUME NEW v \in Workers
      PROVE  IF call'[v] = NoCall THEN pc'[v] = "idle"
             ELSE pc'[v] # "idle" /\ step'[v] \in DOMAIN Script[call'[v]]
  BY <1>2, NobodyAssumption DEF WorkerOK, Begin
<1> QED  BY <1>1, <1>3 DEF WorkerOK

(* Every step of a worker keeps the types. *)
LEMMA WorkerStepType ==
  ASSUME TypeOK, NEW w \in Workers, WorkerStep(w)
  PROVE  TypeOK'
<1> USE TypeParts
<1>1. CASE QuerySucceeds(w)
  <2>0. pc[w] # "idle"
    BY <1>1 DEF QuerySucceeds, CanSend
  <2>1. ServerOK'
    <3>1. /\ durable' \subseteq UNION {Effects(c) : c \in Calls}
          /\ pending' \subseteq UNION {Effects(c) : c \in Calls}
          /\ inTxn' \in BOOLEAN /\ link' \in BOOLEAN /\ flag' \in BOOLEAN
      BY <1>1, <2>0, ServerType DEF QuerySucceeds
    <3>2. unread' \in Workers \cup {Nobody}
      BY <1>1 DEF QuerySucceeds, ServerOK
    <3> QED  BY <3>1, <3>2 DEF ServerOK
  <2>2. WorkerOK'
    <3>1. CASE Query(w) = "select"
      BY <1>1, <2>0, <3>1 DEF QuerySucceeds, WorkerOK
    <3>2. CASE Query(w) # "select"
      BY <1>1, <2>0, <3>2, AdvanceType DEF QuerySucceeds
    <3> QED  BY <3>1, <3>2
  <2> QED  BY <1>1, <2>1, <2>2 DEF QuerySucceeds
<1>2. CASE OutOfSync(w)
  BY <1>2, QueryFailedType DEF OutOfSync, server, driver, ServerOK
<1>3. CASE StatementRefused(w)
  <2>1. ServerOK'
    BY <1>3 DEF StatementRefused, server, ServerOK
  <2> QED  BY <1>3, <2>1, QueryFailedType DEF StatementRefused, CanSend
<1>4. CASE TransactionAborted(w)
  <2>1. ServerOK'
    BY <1>4 DEF TransactionAborted, DropTransaction, driver, ServerOK
  <2> QED  BY <1>4, <2>1, QueryFailedType DEF TransactionAborted, CanSend
<1>5. CASE SendFails(w)
  <2>1. ServerOK'
    BY <1>5 DEF SendFails, server, ServerOK
  <2> QED  BY <1>5, <2>1, QueryFailedType DEF SendFails
<1>6. CASE ReplyLost(w)
  <2>0. pc[w] # "idle"
    BY <1>6 DEF ReplyLost
  <2>1. ServerOK'
    BY <1>6, <2>0, ServerType DEF ReplyLost, DropTransaction, ServerOK
  <2> QED  BY <1>6, <2>0, <2>1, QueryFailedType DEF ReplyLost
<1>7. CASE Fetched(w)
  <2>1. ServerOK'
    BY <1>7 DEF Fetched, server, ServerOK
  <2> QED  BY <1>7, <2>1, AdvanceType DEF Fetched
<1>8. CASE FetchFails(w)
  <2>1. ServerOK'
    BY <1>8 DEF FetchFails, server, ServerOK
  <2> QED  BY <1>8, <2>1, GiveUpType DEF FetchFails
<1> QED
  BY <1>1, <1>2, <1>3, <1>4, <1>5, <1>6, <1>7, <1>8 DEF WorkerStep

LEMMA NextType == TypeOK /\ [Next]_vars => TypeOK'
<1> SUFFICES ASSUME TypeOK, [Next]_vars PROVE TypeOK'
  OBVIOUS
<1>1. ASSUME NEW w \in Workers, NEW c \in Calls, Begin(w, c) PROVE TypeOK'
  BY <1>1, BeginType, TypeParts DEF Begin, server, driver, ServerOK
<1>2. ASSUME NEW w \in Workers, WorkerStep(w) PROVE TypeOK'
  BY <1>2, WorkerStepType
<1>3. CASE LinkLost
  <2>1. ServerOK'
    BY <1>3, TypeParts DEF LinkLost, DropTransaction, ServerOK
  <2>2. WorkerOK'
    BY <1>3, TypeParts DEF LinkLost, worker, WorkerOK
  <2> QED  BY <1>3, <2>1, <2>2, TypeParts DEF LinkLost
<1>4. CASE UNCHANGED vars
  BY <1>4 DEF vars, server, driver, worker, TypeOK
<1> QED  BY <1>1, <1>2, <1>3, <1>4 DEF Next

(* In every behaviour of the session the variables keep their types, with  *)
(* any number of threads.                                                  *)
THEOREM TypeCorrect == Spec => []TypeOK
<1>1. Init => TypeOK
  BY InitType
<1>2. TypeOK /\ [Next]_vars => TypeOK'
  BY NextType
<1> QED  BY <1>1, <1>2, PTL DEF Spec

-----------------------------------------------------------------------------
(* How a query or a fetch ends. *)

LEMMA PcAfter ==
  ASSUME WorkerOK, NEW w \in Workers,
         Advance(w) \/ GiveUp(w) \/ (pc[w] = "query" /\ QueryFailed(w))
  PROVE  /\ pc'[w] \in {"idle", "query"}
         /\ \A v \in Workers : v # w => pc'[v] = pc[v]
<1>1. \A s : Return(w, s) => pc' = [pc EXCEPT ![w] = "idle"]
  BY DEF Return
<1>2. \A i, s : GoTo(w, i, s) => pc' = [pc EXCEPT ![w] = "query"]
  BY DEF GoTo
<1>3. GiveUp(w) => \/ pc' = [pc EXCEPT ![w] = "idle"]
                   \/ pc' = [pc EXCEPT ![w] = "query"]
  BY <1>1, <1>2 DEF GiveUp
<1>4. Advance(w) => \/ pc' = [pc EXCEPT ![w] = "idle"]
                    \/ pc' = [pc EXCEPT ![w] = "query"]
  BY <1>1, <1>2 DEF Advance
<1>5. pc[w] = "query" /\ QueryFailed(w) => \/ pc' = [pc EXCEPT ![w] = "idle"]
                                           \/ pc' = [pc EXCEPT ![w] = "query"]
                                           \/ pc' = pc /\ pc[w] = "query"
  BY <1>3 DEF QueryFailed
<1> QED  BY <1>3, <1>4, <1>5 DEF WorkerOK

(* The driver answers no query while rows are unread, so that the rows a   *)
(* worker fetches are those of its own SELECT, for any number of workers.  *)
FetchesOwnRows == \A w \in Workers : pc[w] = "fetch" <=> unread = w

LEMMA OwnRows == Spec => []FetchesOwnRows
<1>1. Init => FetchesOwnRows
  BY NobodyAssumption DEF Init, FetchesOwnRows
<1>2. TypeOK /\ FetchesOwnRows /\ [Next]_vars => FetchesOwnRows'
  <2> SUFFICES ASSUME TypeOK, FetchesOwnRows, [Next]_vars
               PROVE  FetchesOwnRows'
    OBVIOUS
  <2>0. WorkerOK
    BY TypeParts
  <2>1. ASSUME NEW w \in Workers, NEW c \in Calls, Begin(w, c)
        PROVE  FetchesOwnRows'
    BY <2>0, <2>1, NobodyAssumption DEF Begin, WorkerOK, driver, FetchesOwnRows
  <2>2. ASSUME NEW w \in Workers, WorkerStep(w)
        PROVE  FetchesOwnRows'
    <3>1. CASE QuerySucceeds(w) /\ Query(w) = "select"
      BY <2>0, <3>1, NobodyAssumption
      DEF QuerySucceeds, CanSend, WorkerOK, FetchesOwnRows
    <3>2. CASE QuerySucceeds(w) /\ Query(w) # "select"
      BY <2>0, <3>2, PcAfter, NobodyAssumption
      DEF QuerySucceeds, CanSend, FetchesOwnRows
    <3>3. CASE OutOfSync(w)
      BY <2>0, <3>3, PcAfter DEF OutOfSync, driver, FetchesOwnRows
    <3>4. CASE StatementRefused(w)
      BY <2>0, <3>4, PcAfter DEF StatementRefused, CanSend, FetchesOwnRows
    <3>5. CASE TransactionAborted(w)
      BY <2>0, <3>5, PcAfter DEF TransactionAborted, CanSend, driver, FetchesOwnRows
    <3>6. CASE SendFails(w)
      BY <2>0, <3>6, PcAfter DEF SendFails, FetchesOwnRows
    <3>7. CASE ReplyLost(w)
      BY <2>0, <3>7, PcAfter DEF ReplyLost, FetchesOwnRows
    <3>8. CASE Fetched(w) \/ FetchFails(w)
      BY <2>0, <3>8, PcAfter, NobodyAssumption DEF Fetched, FetchFails, FetchesOwnRows
    <3> QED
      BY <2>2, <3>1, <3>2, <3>3, <3>4, <3>5, <3>6, <3>7, <3>8 DEF WorkerStep
  <2>3. CASE LinkLost
    BY <2>3 DEF LinkLost, worker, FetchesOwnRows
  <2>4. CASE UNCHANGED vars
    BY <2>4 DEF vars, driver, worker, FetchesOwnRows
  <2> QED  BY <2>1, <2>2, <2>3, <2>4 DEF Next
<1> QED  BY <1>1, <1>2, TypeCorrect, PTL DEF Spec

-----------------------------------------------------------------------------
(* With one thread the session keeps its transactions apart. *)

OneWorker == \A v, w \in Workers : v = w

(* Where the session stands between the queries of a call. *)
LinkInv ==
    /\ pending # {} => inTxn
    /\ inTxn => link /\ flag
    /\ \A w \in Workers :
         /\ call[w] = NoCall => ~inTxn
         /\ call[w] # NoCall =>
              /\ step[w] = 1 => ~inTxn /\ ok[w]
              /\ ~ok[w] => step[w] = LastStep(w)
              /\ pc[w] = "fetch" => Query(w) = "select"

(* What a worker may send at each step of its script. *)
LEMMA QueryShape ==
  ASSUME WorkerOK, NEW w \in Workers, pc[w] # "idle"
  PROVE  /\ LastStep(w) \in Nat \ {0}
         /\ step[w] \in 1..LastStep(w)
         /\ call[w] \in Transactional =>
              /\ LastStep(w) # 1
              /\ step[w] = 1 => Query(w) = "start"
              /\ step[w] = LastStep(w) => Query(w) = IF ok[w] THEN "commit" ELSE "rollback"
              /\ step[w] # 1 /\ step[w] # LastStep(w) => Query(w) \in {"exec", "select"}
         /\ call[w] \notin Transactional =>
              LastStep(w) = 1 /\ Query(w) \in {"exec", "select"}
<1>1. call[w] \in Calls /\ step[w] \in 1..LastStep(w) /\ LastStep(w) \in Nat \ {0}
  BY BusyType, ScriptType DEF LastStep
<1>2. CASE call[w] \in Transactional
  BY <1>1, <1>2 DEF Transactional, IsTransaction, LastStep, Query
<1>3. CASE call[w] \notin Transactional
  <2>1. IsSingle(Script[call[w]])
    BY <1>1, <1>3, ScriptAssumption DEF Transactional
  <2> QED  BY <1>1, <1>3, <2>1 DEF IsSingle, LastStep, Query
<1> QED  BY <1>1, <1>2, <1>3

(* With one thread a query never meets the unread rows of another one. *)
LEMMA NeverOutOfSync ==
  ASSUME TypeOK, FetchesOwnRows, OneWorker, NEW w \in Workers
  PROVE  ~OutOfSync(w)
  BY DEF OutOfSync, TypeOK, FetchesOwnRows, OneWorker

(* The end of a call and the next query of one, for the worker's part.     *)
LEMMA ReturnEffect ==
  ASSUME WorkerOK, NEW w \in Workers, NEW s, Return(w, s)
  PROVE  call'[w] = NoCall
  BY DEF WorkerOK, Return

LEMMA GoToEffect ==
  ASSUME WorkerOK, NEW w \in Workers, NEW i, NEW s, GoTo(w, i, s)
  PROVE  /\ pc'[w] = "query"
         /\ call'[w] = call[w] /\ step'[w] = i /\ ok'[w] = s
         /\ LastStep(w)' = LastStep(w)
         /\ result' = result
  BY DEF WorkerOK, GoTo, LastStep

(* A query or a fetch that fails for good, once the transaction of the     *)
(* session is either unchanged or gone.                                    *)
LEMMA GiveUpControl ==
  ASSUME WorkerOK, LinkInv, OneWorker, NEW w \in Workers, pc[w] # "idle",
         (pending' = pending /\ inTxn' = inTxn) \/ (pending' = {} /\ inTxn' = FALSE),
         inTxn' => link' /\ flag',
         Stopping(w) => ~inTxn',
         GiveUp(w)
  PROVE  LinkInv'
<1>0. call[w] # NoCall /\ \A v \in Workers : v = w
  BY BusyType, NobodyAssumption DEF OneWorker
<1>1. CASE Return(w, ok[w]) \/ Return(w, FALSE)
  <2>1. call'[w] = NoCall
    BY <1>1, ReturnEffect
  <2>2. ~inTxn'
    <3>1. CASE Stopping(w)
      BY <3>1
    <3>2. CASE step[w] = 1
      BY <1>0, <3>2 DEF LinkInv
    <3>3. CASE ~Stopping(w) /\ step[w] # 1
      <4>1. GoTo(w, LastStep(w), FALSE)
        BY <3>3 DEF GiveUp
      <4> QED  BY <1>0, <2>1, <4>1, GoToEffect
    <3> QED  BY <3>1, <3>2, <3>3
  <2> QED  BY <1>0, <2>1, <2>2 DEF LinkInv
<1>2. CASE step[w] # 1 /\ GoTo(w, LastStep(w), FALSE)
  <2>1. LastStep(w) # 1
    BY <1>2, QueryShape
  <2>2. /\ pc'[w] = "query" /\ call'[w] = call[w]
        /\ step'[w] = LastStep(w) /\ LastStep(w)' = LastStep(w)
    BY <1>2, GoToEffect
  <2>3. pending' # {} => inTxn'
    BY DEF LinkInv
  <2>4. ASSUME NEW v \in Workers
        PROVE  /\ call'[v] # NoCall
               /\ step'[v] # 1
               /\ step'[v] = LastStep(v)'
               /\ pc'[v] # "fetch"
    BY <1>0, <2>1, <2>2
  <2> QED  BY <2>3, <2>4 DEF LinkInv
<1> QED  BY <1>1, <1>2 DEF GiveUp

LEMMA FailedControl ==
  ASSUME WorkerOK, LinkInv, OneWorker, NEW w \in Workers, pc[w] = "query",
         (pending' = pending /\ inTxn' = inTxn) \/ (pending' = {} /\ inTxn' = FALSE),
         inTxn' => link' /\ flag',
         Stopping(w) => ~inTxn',
         QueryFailed(w)
  PROVE  LinkInv'
<1>1. CASE MayRetry(w)
  <2>1. UNCHANGED <<pc, call, step, ok>>
    BY <1>1 DEF QueryFailed
  <2>2. pending' # {} => inTxn'
    BY DEF LinkInv
  <2>3. ASSUME NEW v \in Workers
        PROVE  /\ call'[v] = NoCall => ~inTxn'
               /\ call'[v] # NoCall =>
                    /\ step'[v] = 1 => ~inTxn' /\ ok'[v]
                    /\ ~ok'[v] => step'[v] = LastStep(v)'
                    /\ pc'[v] # "fetch"
    BY <2>1 DEF LinkInv, LastStep, OneWorker
  <2> QED  BY <2>2, <2>3 DEF LinkInv
<1>2. CASE ~MayRetry(w)
  BY <1>2, GiveUpControl DEF QueryFailed
<1> QED  BY <1>1, <1>2

(* A query or a fetch that succeeds. *)
LEMMA AdvanceControl ==
  ASSUME WorkerOK, LinkInv, OneWorker, NEW w \in Workers, pc[w] # "idle",
         pending' # {} => inTxn',
         inTxn' => link' /\ flag',
         step[w] = LastStep(w) => ~inTxn',
         Advance(w)
  PROVE  LinkInv'
<1>0. call[w] # NoCall /\ \A v \in Workers : v = w
  BY BusyType, NobodyAssumption DEF OneWorker
<1>1. CASE step[w] = LastStep(w)
  <2>1. call'[w] = NoCall
    BY <1>1, ReturnEffect DEF Advance
  <2> QED  BY <1>0, <1>1, <2>1 DEF LinkInv
<1>2. CASE step[w] # LastStep(w)
  <2>1. /\ pc'[w] = "query" /\ call'[w] = call[w]
        /\ step'[w] = step[w] + 1 /\ ok'[w] = ok[w]
    BY <1>2, GoToEffect DEF Advance
  <2>2. ok[w] /\ step[w] + 1 # 1
    BY <1>0, <1>2, QueryShape DEF LinkInv
  <2>3. ASSUME NEW v \in Workers
        PROVE  /\ call'[v] # NoCall
               /\ step'[v] # 1
               /\ ok'[v]
               /\ pc'[v] # "fetch"
    BY <1>0, <2>1, <2>2
  <2> QED  BY <2>3 DEF LinkInv
<1> QED  BY <1>1, <1>2

(* LinkInv is inductive. *)
LEMMA LinkStep ==
  ASSUME TypeOK, FetchesOwnRows, LinkInv, OneWorker, NEW w \in Workers, WorkerStep(w)
  PROVE  LinkInv'
<1>0. WorkerOK
  BY TypeParts
<1>1. CASE QuerySucceeds(w) /\ Query(w) = "select"
  <2>1. /\ UNCHANGED <<call, step, ok, pending, inTxn>>
        /\ link' = TRUE /\ flag' = inTxn
    BY <1>1 DEF QuerySucceeds, PendingAfter, InTxnAfter, TypeOK
  <2>2. Query(w)' = Query(w) /\ LastStep(w)' = LastStep(w)
    BY <2>1 DEF Query, LastStep
  <2>3. pending' # {} => inTxn'
    BY <2>1 DEF LinkInv
  <2>4. inTxn' => link' /\ flag'
    BY <2>1
  <2>5. ASSUME NEW v \in Workers
        PROVE  /\ call'[v] = NoCall => ~inTxn'
               /\ call'[v] # NoCall =>
                    /\ step'[v] = 1 => ~inTxn' /\ ok'[v]
                    /\ ~ok'[v] => step'[v] = LastStep(v)'
                    /\ Query(v)' = "select"
    <3>1. v = w
      BY DEF OneWorker
    <3>2. call'[w] = NoCall => ~inTxn'
      BY <2>1 DEF LinkInv
    <3>3. call'[w] # NoCall =>
             /\ step'[w] = 1 => ~inTxn' /\ ok'[w]
             /\ ~ok'[w] => step'[w] = LastStep(w)'
      BY <2>1, <2>2 DEF LinkInv
    <3> QED  BY <1>1, <2>2, <3>1, <3>2, <3>3
  <2> QED  BY <2>3, <2>4, <2>5 DEF LinkInv
<1>2. CASE QuerySucceeds(w) /\ Query(w) # "select"
  <2>0. pc[w] # "idle"
    BY <1>2 DEF QuerySucceeds, CanSend
  <2>1. /\ pending' = PendingAfter(w) /\ inTxn' = InTxnAfter(w)
        /\ link' = TRUE /\ flag' = InTxnAfter(w)
    BY <1>2 DEF QuerySucceeds
  <2>2. pending' # {} => inTxn'
    BY <2>1, <1>2 DEF PendingAfter, InTxnAfter
  <2>3. step[w] = LastStep(w) => ~inTxn'
    <3>1. CASE call[w] \in Transactional
      BY <1>0, <2>0, <2>1, <3>1, QueryShape DEF InTxnAfter
    <3>2. CASE call[w] \notin Transactional
      <4>1. step[w] = 1 /\ Query(w) = "exec"
        BY <1>0, <1>2, <2>0, <3>2, QueryShape
      <4>2. ~inTxn
        BY <1>0, <2>0, <4>1, BusyType, NobodyAssumption DEF LinkInv
      <4> QED  BY <2>1, <4>1, <4>2 DEF InTxnAfter
    <3> QED  BY <3>1, <3>2
  <2> QED  BY <1>0, <1>2, <2>0, <2>1, <2>2, <2>3, AdvanceControl DEF QuerySucceeds
<1>3. CASE OutOfSync(w)
  BY <1>3, NeverOutOfSync
<1>4. CASE StatementRefused(w)
  <2>1. ~Stopping(w)
    BY <1>4 DEF StatementRefused, Stopping
  <2>2. /\ pending' = pending /\ inTxn' = inTxn
        /\ inTxn' => link' /\ flag'
    BY <1>4 DEF StatementRefused, server, LinkInv
  <2> QED  BY <1>0, <1>4, <2>1, <2>2, FailedControl DEF StatementRefused, CanSend
<1>5. CASE TransactionAborted(w)
  BY <1>0, <1>5, FailedControl DEF TransactionAborted, DropTransaction, CanSend
<1>6. CASE SendFails(w)
  <2>1. pending' = pending /\ inTxn' = inTxn /\ ~inTxn'
    BY <1>6 DEF SendFails, server, LinkInv
  <2> QED  BY <1>0, <1>6, <2>1, FailedControl DEF SendFails
<1>7. CASE ReplyLost(w)
  BY <1>0, <1>7, FailedControl DEF ReplyLost, DropTransaction
<1>8. CASE Fetched(w)
  <2>0. pc[w] # "idle" /\ Query(w) = "select"
    BY <1>0, <1>8, BusyType, NobodyAssumption DEF Fetched, LinkInv
  <2>1. UNCHANGED <<pending, inTxn, link, flag>>
    BY <1>8 DEF Fetched, server
  <2>2. step[w] = LastStep(w) => ~inTxn'
    <3>1. ASSUME step[w] = LastStep(w) PROVE step[w] = 1
      BY <1>0, <2>0, <3>1, QueryShape
    <3> QED  BY <1>0, <2>0, <2>1, <3>1, BusyType, NobodyAssumption DEF LinkInv
  <2>3. (pending' # {} => inTxn') /\ (inTxn' => link' /\ flag')
    BY <2>1 DEF LinkInv
  <2> QED  BY <1>0, <1>8, <2>0, <2>2, <2>3, AdvanceControl DEF Fetched
<1>9. CASE FetchFails(w)
  <2>0. pc[w] # "idle" /\ Query(w) = "select"
    BY <1>0, <1>9, BusyType, NobodyAssumption DEF FetchFails, LinkInv
  <2>1. /\ pending' = pending /\ inTxn' = inTxn
        /\ inTxn' => link' /\ flag'
    BY <1>9 DEF FetchFails, server, LinkInv
  <2> QED  BY <1>0, <1>9, <2>0, <2>1, GiveUpControl DEF FetchFails, Stopping
<1> QED
  BY <1>1, <1>2, <1>3, <1>4, <1>5, <1>6, <1>7, <1>8, <1>9 DEF WorkerStep

LEMMA LinkNext ==
  ASSUME TypeOK, FetchesOwnRows, LinkInv, OneWorker, [Next]_vars
  PROVE  LinkInv'
<1>1. ASSUME NEW w \in Workers, NEW c \in Calls, Begin(w, c) PROVE LinkInv'
  <2>1. UNCHANGED <<pending, inTxn, link, flag>>
    BY <1>1 DEF Begin, server, driver
  <2>2. ~inTxn
    BY <1>1 DEF Begin, LinkInv
  <2>3. ASSUME NEW v \in Workers
        PROVE  ok'[v] /\ pc'[v] = "query"
    BY <1>1, TypeParts DEF Begin, WorkerOK, OneWorker
  <2>4. pending' # {} => inTxn'
    BY <2>1 DEF LinkInv
  <2> QED  BY <2>1, <2>2, <2>3, <2>4 DEF LinkInv
<1>2. ASSUME NEW w \in Workers, WorkerStep(w) PROVE LinkInv'
  BY <1>2, LinkStep
<1>3. CASE LinkLost
  BY <1>3 DEF LinkLost, DropTransaction, worker, LinkInv, Query, LastStep
<1>4. CASE UNCHANGED vars
  BY <1>4 DEF vars, server, driver, worker, LinkInv, Query, LastStep
<1> QED  BY <1>1, <1>2, <1>3, <1>4 DEF Next

THEOREM LinkInvariant ==
  ASSUME OneWorker
  PROVE  Spec => []LinkInv
<1>1. Init => LinkInv
  BY NobodyAssumption DEF Init, LinkInv
<1>2. TypeOK /\ FetchesOwnRows /\ LinkInv /\ [Next]_vars => LinkInv'
  BY LinkNext
<1> QED  BY <1>1, <1>2, TypeCorrect, OwnRows, PTL DEF Spec

(* With one thread no function of myfs_db.c leaves a transaction open,     *)
(* whatever fails and whatever the settings for retries are.               *)
THEOREM NothingLeftOpen ==
  ASSUME OneWorker, Workers # {}
  PROVE  Spec => []NoLeftoverTransaction
<1>1. LinkInv => NoLeftoverTransaction
  BY DEF LinkInv, NoLeftoverTransaction
<1> QED  BY <1>1, LinkInvariant, PTL

-----------------------------------------------------------------------------
(* With one thread a single statement that is acknowledged is durable. *)

(* Ending a call decides the result of that call, and of no other. *)
LEMMA ReturnResult ==
  ASSUME WorkerOK, NEW w \in Workers, pc[w] # "idle", NEW s \in BOOLEAN, Return(w, s),
         NEW c \in Calls, result'[c] = "ok"
  PROVE  result[c] = "ok" \/ (c = call[w] /\ s)
<1>1. call[w] \in Calls
  BY BusyType
<1> QED  BY <1>1 DEF WorkerOK, Return

(* A single statement has one effect, that of its only query. *)
LEMMA SingleShape ==
  ASSUME WorkerOK, NEW w \in Workers, pc[w] # "idle", call[w] \notin Transactional
  PROVE  /\ step[w] = 1 /\ LastStep(w) = 1 /\ ~Stopping(w)
         /\ Effects(call[w]) \subseteq {<<call[w], 1>>}
         /\ Query(w) = "select" => Effects(call[w]) = {}
<1>1. step[w] = 1 /\ LastStep(w) = 1 /\ Query(w) \in {"exec", "select"}
  BY QueryShape
<1>2. call[w] \in Calls /\ DOMAIN Script[call[w]] = {1}
  BY <1>1, BusyType, ScriptType DEF LastStep
<1> QED  BY <1>1, <1>2 DEF Stopping, Effects, Query

(* A call that gives up does not come to return true. *)
LEMMA FailedResult ==
  ASSUME WorkerOK, NEW w \in Workers, pc[w] # "idle", QueryFailed(w) \/ GiveUp(w),
         NEW c \in Calls \ Transactional, result'[c] = "ok"
  PROVE  result[c] = "ok"
<1>1. CASE UNCHANGED result
  BY <1>1
<1>2. CASE GiveUp(w)
  <2>1. CASE Stopping(w) /\ Return(w, ok[w])
    <3>1. call[w] \in Transactional
      BY <2>1, SingleShape
    <3> QED  BY <2>1, <3>1, ReturnResult DEF WorkerOK
  <2>2. CASE Return(w, FALSE)
    BY <2>2, ReturnResult
  <2>3. CASE GoTo(w, LastStep(w), FALSE)
    BY <2>3 DEF GoTo
  <2> QED  BY <1>2, <2>1, <2>2, <2>3 DEF GiveUp
<1> QED  BY <1>1, <1>2 DEF QueryFailed

LEMMA SinglesStep ==
  ASSUME WorkerOK, LinkInv, NEW w \in Workers, WorkerStep(w),
         NEW c \in Calls \ Transactional, result'[c] = "ok", result[c] # "ok"
  PROVE  Effects(c) \subseteq durable'
<1>1. pc[w] # "idle"
  BY DEF WorkerStep, QuerySucceeds, CanSend, OutOfSync, StatementRefused,
         TransactionAborted, SendFails, ReplyLost, Fetched, FetchFails
<1>2. CASE QuerySucceeds(w)
  <2>1. Query(w) # "select" /\ Advance(w)
    BY <1>2 DEF QuerySucceeds
  <2>2. Return(w, ok[w])
    BY <2>1 DEF Advance, GoTo
  <2>3. c = call[w]
    BY <1>1, <2>2, ReturnResult DEF WorkerOK
  <2>4. /\ step[w] = 1 /\ Query(w) = "exec"
        /\ Effects(c) \subseteq {<<call[w], 1>>}
    BY <1>1, <2>1, <2>3, SingleShape, QueryShape
  <2>5. ~inTxn
    BY <2>3, <2>4, NobodyAssumption DEF LinkInv
  <2>6. durable' = durable \cup {<<call[w], step[w]>>}
    BY <1>2, <2>4, <2>5 DEF QuerySucceeds, DurableAfter
  <2> QED  BY <2>4, <2>6
<1>3. CASE Fetched(w)
  <2>1. Return(w, ok[w])
    BY <1>3 DEF Fetched, Advance, GoTo
  <2>2. c = call[w]
    BY <1>1, <2>1, ReturnResult DEF WorkerOK
  <2>3. Query(w) = "select"
    BY <1>3, <2>2, NobodyAssumption DEF Fetched, LinkInv
  <2> QED  BY <1>1, <2>2, <2>3, SingleShape
<1>4. ASSUME QueryFailed(w) \/ GiveUp(w) PROVE FALSE
  BY <1>1, <1>4, FailedResult
<1> QED
  BY <1>2, <1>3, <1>4 DEF WorkerStep, OutOfSync, StatementRefused,
     TransactionAborted, SendFails, ReplyLost, FetchFails

(* What is committed stays. *)
LEMMA DurableGrows ==
  ASSUME [Next]_vars
  PROVE  durable \subseteq durable'
  BY DEF Next, vars, server, Begin, WorkerStep, QuerySucceeds, OutOfSync, StatementRefused,
         TransactionAborted, SendFails, ReplyLost, Fetched, FetchFails, LinkLost, DurableAfter

LEMMA SinglesNext ==
  ASSUME TypeOK, LinkInv, SinglesAreDurable, [Next]_vars
  PROVE  SinglesAreDurable'
<1> SUFFICES ASSUME NEW c \in Calls \ Transactional, result'[c] = "ok"
             PROVE  Effects(c) \subseteq durable'
  BY DEF SinglesAreDurable, Transactional, Effects
<1>1. CASE result[c] = "ok"
  BY <1>1, DurableGrows DEF SinglesAreDurable
<1>2. CASE result[c] # "ok"
  <2>1. PICK w \in Workers : WorkerStep(w)
    BY <1>2, TypeParts DEF Next, Begin, LinkLost, vars, WorkerOK
  <2> QED  BY <1>2, <2>1, TypeParts, SinglesStep
<1> QED  BY <1>1, <1>2

(* With one thread a create, delete, rename, chmod or chown that returned  *)
(* true is committed, whatever fails and whatever the settings for         *)
(* retries are.                                                            *)
THEOREM AcknowledgedSingles ==
  ASSUME OneWorker
  PROVE  Spec => []SinglesAreDurable
<1>1. Init => SinglesAreDurable
  BY DEF Init, SinglesAreDurable
<1>2. TypeOK /\ LinkInv /\ SinglesAreDurable /\ [Next]_vars => SinglesAreDurable'
  BY SinglesNext
<1> QED  BY <1>1, <1>2, TypeCorrect, LinkInvariant, PTL DEF Spec

-----------------------------------------------------------------------------
(* With one thread and no retries every transaction is atomic. *)

(* The effects of the statements the current call has passed. *)
Done(w) == {e \in Effects(call[w]) : e[2] < step[w]}

Untouched(c) == Effects(c) \cap durable = {}

AtomInv ==
    /\ \A c \in Transactional :
         /\ Untouched(c) \/ Effects(c) \subseteq durable
         /\ result[c] # "ok" => Untouched(c)
    /\ \A w \in Workers : call[w] # NoCall =>
         /\ result[call[w]] = "running"
         /\ pending \subseteq Effects(call[w])
         /\ step[w] # 1 /\ ok[w] =>
              /\ flag
              /\ inTxn => pending = Done(w)
              /\ ~inTxn => ~link

(* Two calls have no effect in common. *)
LEMMA EffectsDisjoint ==
  ASSUME NEW c \in Calls, NEW d \in Calls, c # d
  PROVE  Effects(c) \cap Effects(d) = {}
  BY DEF Effects

LEMMA EffectShape ==
  ASSUME NEW c \in Calls, NEW e \in Effects(c)
  PROVE  /\ e = <<c, e[2]>>
         /\ e[2] \in 1..Len(Script[c])
         /\ Script[c][e[2]] = "exec"
  BY ScriptType DEF Effects

(* At the COMMIT, a call has passed all its statements. *)
LEMMA AllDone ==
  ASSUME WorkerOK, NEW w \in Workers, pc[w] # "idle",
         call[w] \in Transactional, step[w] = LastStep(w)
  PROVE  Done(w) = Effects(call[w])
<1>1. call[w] \in Calls /\ Script[call[w]][LastStep(w)] = "stop"
  BY BusyType DEF Transactional, IsTransaction, LastStep
<1>2. ASSUME NEW e \in Effects(call[w]) PROVE e[2] < step[w]
  BY <1>1, EffectShape, ScriptType DEF LastStep
<1> QED  BY <1>2 DEF Done

(* Passing a statement adds its effect to those passed; passing a SELECT   *)
(* adds none.                                                              *)
LEMMA DoneGrows ==
  ASSUME WorkerOK, NEW w \in Workers, pc[w] # "idle",
         call'[w] = call[w], step'[w] = step[w] + 1
  PROVE  Done(w)' = IF Script[call[w]][step[w]] = "exec"
                    THEN Done(w) \cup {<<call[w], step[w]>>}
                    ELSE Done(w)
<1>1. call[w] \in Calls /\ step[w] \in DOMAIN Script[call[w]] /\ step[w] \in Nat
  BY BusyType
<1>2. Done(w)' = {e \in Effects(call[w]) : e[2] < step[w] + 1}
  BY DEF Done, Effects
<1>3. ASSUME NEW e \in Effects(call[w])
      PROVE  e[2] < step[w] + 1 <=> e[2] < step[w] \/ e = <<call[w], step[w]>>
  BY <1>1, EffectShape, ScriptType
<1>4. Script[call[w]][step[w]] = "exec" <=> <<call[w], step[w]>> \in Effects(call[w])
  BY <1>1 DEF Effects
<1> QED  BY <1>2, <1>3, <1>4 DEF Done

LEMMA DoneStays ==
  ASSUME NEW w, call'[w] = call[w], step'[w] = step[w]
  PROVE  Done(w)' = Done(w)
  BY DEF Done, Effects

(* The conditions under which the part of AtomInv about the store holds    *)
(* after a step that ends, or goes on with, the call of worker w.          *)
LEMMA StoreKept ==
  ASSUME AtomInv, WorkerOK, NEW w \in Workers, pc[w] # "idle",
         \A c \in Transactional : c # call[w] => result'[c] = result[c],
         \A c \in Transactional : Effects(c) \cap durable' = Effects(c) \cap durable
  PROVE  \A c \in Transactional :
           /\ Untouched(c)' \/ Effects(c) \subseteq durable'
           /\ result'[c] # "ok" => Untouched(c)'
<1> TAKE c \in Transactional
<1>1. c \in Calls /\ call[w] \in Calls /\ result[call[w]] # "ok"
  BY BusyType, NobodyAssumption DEF AtomInv, Transactional
<1>2. Untouched(c)' <=> Untouched(c)
  BY DEF Untouched, Effects
<1>3. Effects(c) \subseteq durable' <=> Effects(c) \subseteq durable
  OBVIOUS
<1>4. result'[c] # "ok" => Untouched(c)
  BY <1>1 DEF AtomInv
<1> QED  BY <1>2, <1>3, <1>4 DEF AtomInv

(* The call ends without having changed the store. *)
LEMMA EndAtomic ==
  ASSUME AtomInv, WorkerOK, OneWorker, NEW w \in Workers, pc[w] # "idle",
         \A c \in Transactional : Effects(c) \cap durable' = Effects(c) \cap durable,
         NEW s, Return(w, s)
  PROVE  AtomInv'
<1>1. \A c \in Transactional : c # call[w] => result'[c] = result[c]
  BY DEF Return, WorkerOK, Transactional
<1>2. \A v \in Workers : call'[v] = NoCall
  BY ReturnEffect DEF OneWorker
<1> QED  BY <1>1, <1>2, StoreKept DEF AtomInv

(* The call goes on, with its part of AtomInv established. *)
LEMMA GoOnAtomic ==
  ASSUME AtomInv, WorkerOK, OneWorker, NEW w \in Workers, pc[w] # "idle",
         \A c \in Transactional : Effects(c) \cap durable' = Effects(c) \cap durable,
         result' = result, call'[w] = call[w],
         pending' \subseteq Effects(call[w]),
         step'[w] # 1 /\ ok'[w] => /\ flag'
                                   /\ inTxn' => pending' = Done(w)'
                                   /\ ~inTxn' => ~link'
  PROVE  AtomInv'
<1>1. call[w] # NoCall /\ result[call[w]] = "running"
  BY BusyType, NobodyAssumption DEF AtomInv
<1>2. ASSUME NEW v \in Workers
      PROVE  /\ result'[call'[v]] = "running"
             /\ pending' \subseteq Effects(call[v])
             /\ call'[v] = call[v]
             /\ step'[v] # 1 /\ ok'[v] => /\ flag'
                                          /\ inTxn' => pending' = Done(v)'
                                          /\ ~inTxn' => ~link'
  <2>1. v = w
    BY DEF OneWorker
  <2> QED  BY <1>1, <2>1
<1>3. \A v \in Workers : Effects(call[v]) = Effects(call'[v])
  BY <1>2
<1>4. \A v \in Workers : pending' \subseteq Effects(call[v])'
  BY <1>2, <1>3 DEF Effects
<1>5. \A c \in Transactional :
           /\ Untouched(c)' \/ Effects(c) \subseteq durable'
           /\ result'[c] # "ok" => Untouched(c)'
  BY StoreKept
<1> QED  BY <1>2, <1>4, <1>5 DEF AtomInv

(* The call gives up, in a session whose transaction is kept or gone. *)
LEMMA GiveUpAtomic ==
  ASSUME AtomInv, WorkerOK, OneWorker, NEW w \in Workers, pc[w] # "idle",
         \A c \in Transactional : Effects(c) \cap durable' = Effects(c) \cap durable,
         pending' \subseteq pending,
         GiveUp(w)
  PROVE  AtomInv'
<1>1. CASE Return(w, ok[w]) \/ Return(w, FALSE)
  BY <1>1, EndAtomic
<1>2. CASE GoTo(w, LastStep(w), FALSE)
  <2>1. pending' \subseteq Effects(call[w])
    BY BusyType, NobodyAssumption DEF AtomInv
  <2> QED  BY <1>2, <2>1, GoToEffect, GoOnAtomic
<1> QED  BY <1>1, <1>2 DEF GiveUp

(* The COMMIT of a call that went well makes all of it durable. *)
LEMMA CommitAtomic ==
  ASSUME AtomInv, WorkerOK, OneWorker, NEW w \in Workers, pc[w] # "idle",
         durable' = durable \cup Effects(call[w]),
         Return(w, TRUE)
  PROVE  AtomInv'
<1>1. call[w] \in Calls
  BY BusyType
<1>2. \A v \in Workers : call'[v] = NoCall
  BY ReturnEffect DEF OneWorker
<1>3. ASSUME NEW c \in Transactional
      PROVE  /\ Untouched(c)' \/ Effects(c) \subseteq durable'
             /\ result'[c] # "ok" => Untouched(c)'
  <2>0. c \in Calls
    BY DEF Transactional
  <2>1. CASE c = call[w]
    BY <1>1, <2>1 DEF Return, WorkerOK
  <2>2. CASE c # call[w]
    <3>1. Effects(c) \cap durable' = Effects(c) \cap durable
      BY <1>1, <2>0, <2>2, EffectsDisjoint
    <3>2. result'[c] = result[c]
      BY <2>0, <2>2 DEF Return, WorkerOK
    <3>3. Untouched(c)' <=> Untouched(c)
      BY <3>1 DEF Untouched, Effects
    <3> QED  BY <3>1, <3>2, <3>3 DEF AtomInv
  <2> QED  BY <2>1, <2>2
<1> QED  BY <1>2, <1>3 DEF AtomInv

(* Inside its transaction a call that goes well has it open on the server. *)
LEMMA InTransaction ==
  ASSUME TypeOK, AtomInv, LinkInv, NEW w \in Workers, pc[w] # "idle",
         link \/ ~flag, step[w] # 1, ok[w]
  PROVE  link /\ inTxn /\ pending = Done(w)
  BY TypeParts, BusyType, NobodyAssumption DEF AtomInv, LinkInv

LEMMA CommitReady ==
  ASSUME TypeOK, AtomInv, LinkInv, NEW w \in Workers, pc[w] # "idle",
         link \/ ~flag, Query(w) = "commit"
  PROVE  pending = Effects(call[w]) /\ ok[w] /\ step[w] = LastStep(w)
<1>0. WorkerOK
  BY TypeParts
<1>1. /\ call[w] \in Transactional
      /\ step[w] = LastStep(w) /\ step[w] # 1 /\ ok[w]
  BY <1>0, QueryShape
<1> QED  BY <1>0, <1>1, InTransaction, AllDone

(* Any other query leaves what transactions have made durable as it is. *)
LEMMA OtherQuery ==
  ASSUME TypeOK, AtomInv, LinkInv, NEW w \in Workers, pc[w] # "idle",
         link \/ ~flag, Query(w) # "commit", durable' = DurableAfter(w)
  PROVE  \A c \in Transactional : Effects(c) \cap durable' = Effects(c) \cap durable
<1>0. WorkerOK /\ call[w] \in Calls /\ call[w] # NoCall
  BY TypeParts, BusyType, NobodyAssumption
<1>1. CASE Query(w) = "start"
  <2>1. step[w] = 1
    BY <1>0, <1>1, QueryShape
  <2>2. pending = {}
    BY <1>0, <2>1 DEF LinkInv
  <2> QED  BY <1>1, <2>2 DEF DurableAfter
<1>2. CASE Query(w) = "exec" /\ ~inTxn
  <2>1. call[w] \notin Transactional
    <3>1. ASSUME call[w] \in Transactional PROVE step[w] # 1 /\ step[w] # LastStep(w)
      BY <1>0, <1>2, <3>1, QueryShape
    <3>2. ASSUME call[w] \in Transactional PROVE ok[w]
      BY <1>0, <3>1, <3>2 DEF LinkInv, TypeOK
    <3> QED  BY <1>2, <3>1, <3>2, InTransaction
  <2>2. durable' = durable \cup {<<call[w], step[w]>>}
    BY <1>2 DEF DurableAfter
  <2>3. ASSUME NEW c \in Transactional PROVE <<call[w], step[w]>> \notin Effects(c)
    BY <2>1, <2>3 DEF Effects
  <2> QED  BY <2>2, <2>3
<1>3. CASE ~(Query(w) = "start") /\ ~(Query(w) = "exec" /\ ~inTxn)
  BY <1>3 DEF DurableAfter
<1> QED  BY <1>1, <1>2, <1>3

(* The query succeeds. *)
LEMMA SuccessAtomic ==
  ASSUME TypeOK, LinkInv, AtomInv, OneWorker, NEW w \in Workers, QuerySucceeds(w)
  PROVE  AtomInv'
<1>0. /\ WorkerOK /\ pc[w] # "idle" /\ (link \/ ~flag)
      /\ call[w] \in Calls /\ call[w] # NoCall /\ step[w] \in Nat \ {0}
  BY TypeParts, BusyType, NobodyAssumption DEF QuerySucceeds, CanSend
<1>1. /\ durable' = DurableAfter(w) /\ pending' = PendingAfter(w)
      /\ inTxn' = InTxnAfter(w) /\ flag' = InTxnAfter(w) /\ link' = TRUE
      /\ Query(w) # "select" => Advance(w)
  BY DEF QuerySucceeds
<1>2. Query(w) # "commit" =>
        \A c \in Transactional : Effects(c) \cap durable' = Effects(c) \cap durable
  BY <1>0, <1>1, OtherQuery
<1>3. pending \subseteq Effects(call[w])
  BY <1>0 DEF AtomInv
<1>4. CASE Query(w) = "select"
  <2>1. UNCHANGED <<call, step, ok, result>>
    BY <1>4 DEF QuerySucceeds
  <2>2. pending' = pending /\ inTxn' = inTxn /\ flag' = inTxn
    BY <1>1, <1>4 DEF PendingAfter, InTxnAfter, TypeOK
  <2>3. Done(w)' = Done(w)
    BY <2>1, DoneStays
  <2>4. step[w] # 1 /\ ok[w] => inTxn /\ pending = Done(w)
    BY <1>0, InTransaction
  <2> QED  BY <1>0, <1>2, <1>3, <1>4, <2>1, <2>2, <2>3, <2>4, GoOnAtomic
<1>5. CASE Query(w) = "commit"
  <2>1. pending = Effects(call[w]) /\ ok[w] /\ step[w] = LastStep(w)
    BY <1>0, <1>5, CommitReady
  <2>2. durable' = durable \cup Effects(call[w])
    BY <1>1, <1>5, <2>1 DEF DurableAfter
  <2>3. Return(w, TRUE)
    BY <1>1, <1>5, <2>1 DEF Advance, TypeOK
  <2> QED  BY <1>0, <2>2, <2>3, CommitAtomic
<1>6. CASE Query(w) \notin {"select", "commit"} /\ step[w] = LastStep(w)
  BY <1>0, <1>1, <1>2, <1>6, EndAtomic DEF Advance
<1>7. CASE Query(w) \notin {"select", "commit"} /\ step[w] # LastStep(w)
  <2>1. GoTo(w, step[w] + 1, ok[w])
    BY <1>1, <1>7 DEF Advance
  <2>2. /\ call'[w] = call[w] /\ step'[w] = step[w] + 1 /\ ok'[w] = ok[w]
        /\ result' = result
    BY <1>0, <2>1, GoToEffect
  <2>3. /\ call[w] \in Transactional
        /\ step[w] = 1 => Query(w) = "start"
        /\ step[w] # 1 => Query(w) = "exec"
    BY <1>0, <1>7, QueryShape
  <2>4. Done(w)' = IF Script[call[w]][step[w]] = "exec"
                   THEN Done(w) \cup {<<call[w], step[w]>>} ELSE Done(w)
    BY <1>0, <2>2, DoneGrows
  <2>5. CASE step[w] = 1
    <3>1. pending' = {} /\ inTxn' /\ flag'
      BY <1>1, <2>3, <2>5 DEF PendingAfter, InTxnAfter
    <3>2. Script[call[w]][step[w]] # "exec"
      BY <2>3, <2>5 DEF Query
    <3>3. Done(w) = {}
      BY <1>0, <2>5, EffectShape, ScriptType DEF Done
    <3> QED  BY <1>0, <1>2, <1>7, <2>2, <2>4, <3>1, <3>2, <3>3, GoOnAtomic
  <2>6. CASE step[w] # 1
    <3>1. ok[w]
      BY <1>0, <1>7 DEF LinkInv, TypeOK
    <3>2. inTxn /\ pending = Done(w)
      BY <1>0, <2>6, <3>1, InTransaction
    <3>3. Script[call[w]][step[w]] = "exec"
      BY <2>3, <2>6 DEF Query
    <3>4. /\ pending' = pending \cup {<<call[w], step[w]>>}
          /\ inTxn' /\ flag'
      BY <1>1, <2>3, <2>6, <3>2 DEF PendingAfter, InTxnAfter
    <3>5. <<call[w], step[w]>> \in Effects(call[w])
      BY <1>0, <2>3, <2>6, EffectType
    <3> QED  BY <1>0, <1>2, <1>3, <1>7, <2>2, <2>4, <3>2, <3>3, <3>4, <3>5, GoOnAtomic
  <2> QED  BY <2>5, <2>6
<1> QED  BY <1>4, <1>5, <1>6, <1>7

(* The reply is lost: the server may have executed even the COMMIT. *)
LEMMA LostAtomic ==
  ASSUME TypeOK, LinkInv, AtomInv, OneWorker, NEW w \in Workers,
         ReplyLost(w), GiveUp(w)
  PROVE  AtomInv'
<1>0. /\ WorkerOK /\ pc[w] # "idle" /\ link
      /\ durable' = DurableAfter(w) /\ pending' = {}
  BY TypeParts DEF ReplyLost, DropTransaction
<1>1. CASE Query(w) = "commit"
  <2>1. pending = Effects(call[w]) /\ ok[w]
    BY <1>0, <1>1, CommitReady
  <2>2. durable' = durable \cup Effects(call[w])
    BY <1>0, <1>1, <2>1 DEF DurableAfter
  <2>3. Return(w, TRUE)
    BY <1>1, <2>1 DEF GiveUp, Stopping, TypeOK
  <2> QED  BY <1>0, <2>2, <2>3, CommitAtomic
<1>2. CASE Query(w) # "commit"
  <2>1. \A c \in Transactional : Effects(c) \cap durable' = Effects(c) \cap durable
    BY <1>0, <1>2, OtherQuery
  <2> QED  BY <1>0, <2>1, GiveUpAtomic
<1> QED  BY <1>1, <1>2

(* The rows of a SELECT are there: the call goes on. *)
LEMMA FetchedAtomic ==
  ASSUME TypeOK, LinkInv, AtomInv, OneWorker, NEW w \in Workers, Fetched(w)
  PROVE  AtomInv'
<1>0. /\ WorkerOK /\ pc[w] = "fetch" /\ Advance(w)
      /\ UNCHANGED <<durable, pending, inTxn, link, flag>>
  BY TypeParts DEF Fetched, server
<1>1. call[w] \in Calls /\ call[w] # NoCall /\ Query(w) = "select"
  BY <1>0, BusyType, NobodyAssumption DEF LinkInv
<1>2. CASE step[w] = LastStep(w)
  BY <1>0, <1>2, EndAtomic DEF Advance
<1>3. CASE step[w] # LastStep(w)
  <2>1. /\ call'[w] = call[w] /\ step'[w] = step[w] + 1 /\ ok'[w] = ok[w]
        /\ result' = result
    BY <1>0, <1>3, GoToEffect DEF Advance
  <2>2. step[w] # 1
    BY <1>0, <1>1, <1>3, QueryShape
  <2>3. Done(w)' = Done(w)
    BY <1>0, <1>1, <2>1, DoneGrows DEF Query
  <2> QED  BY <1>0, <1>1, <2>1, <2>2, <2>3, GoOnAtomic DEF AtomInv
<1> QED  BY <1>2, <1>3

LEMMA AtomStep ==
  ASSUME TypeOK, FetchesOwnRows, LinkInv, AtomInv, OneWorker, NoRetry,
         NEW w \in Workers, WorkerStep(w)
  PROVE  AtomInv'
<1>0. WorkerOK /\ (QueryFailed(w) => GiveUp(w))
  BY TypeParts DEF QueryFailed, MayRetry, NoRetry
<1>1. CASE QuerySucceeds(w)
  BY <1>1, SuccessAtomic
<1>2. CASE OutOfSync(w)
  BY <1>2, NeverOutOfSync
<1>3. CASE StatementRefused(w) \/ SendFails(w)
  BY <1>0, <1>3, GiveUpAtomic DEF StatementRefused, SendFails, CanSend, server
<1>4. CASE TransactionAborted(w)
  BY <1>0, <1>4, GiveUpAtomic DEF TransactionAborted, DropTransaction, CanSend
<1>5. CASE ReplyLost(w)
  BY <1>0, <1>5, LostAtomic DEF ReplyLost
<1>6. CASE Fetched(w)
  BY <1>6, FetchedAtomic
<1>7. CASE FetchFails(w)
  BY <1>0, <1>7, GiveUpAtomic DEF FetchFails, server
<1> QED
  BY <1>1, <1>2, <1>3, <1>4, <1>5, <1>6, <1>7 DEF WorkerStep

LEMMA AtomNext ==
  ASSUME TypeOK, FetchesOwnRows, LinkInv, AtomInv, OneWorker, NoRetry, [Next]_vars
  PROVE  AtomInv'
<1>1. ASSUME NEW w \in Workers, NEW c \in Calls, Begin(w, c) PROVE AtomInv'
  <2>1. UNCHANGED <<durable, pending>> /\ pending = {}
    BY <1>1 DEF Begin, server, LinkInv
  <2>2. result[c] = "waiting" /\ result' = [result EXCEPT ![c] = "running"]
    BY <1>1 DEF Begin
  <2>3. ASSUME NEW v \in Workers
        PROVE  result'[call'[v]] = "running" /\ step'[v] = 1
    BY <1>1, TypeParts DEF Begin, WorkerOK, OneWorker
  <2>4. ASSUME NEW d \in Transactional
        PROVE  /\ Untouched(d)' \/ Effects(d) \subseteq durable'
               /\ result'[d] # "ok" => Untouched(d)'
    BY <2>1, <2>2, TypeParts DEF AtomInv, Untouched, Effects, WorkerOK, Transactional
  <2> QED  BY <2>1, <2>3, <2>4 DEF AtomInv
<1>2. ASSUME NEW w \in Workers, WorkerStep(w) PROVE AtomInv'
  BY <1>2, AtomStep
<1>3. CASE LinkLost
  BY <1>3 DEF LinkLost, DropTransaction, worker, AtomInv, Untouched, Effects
<1>4. CASE UNCHANGED vars
  BY <1>4 DEF vars, server, driver, worker, AtomInv, Untouched, Effects, Done
<1> QED  BY <1>1, <1>2, <1>3, <1>4 DEF Next

LEMMA InitAtomic == Init => AtomInv
<1>1. \A c \in Transactional : c \in Calls
  BY DEF Transactional
<1> QED  BY <1>1, NobodyAssumption DEF Init, AtomInv, Untouched

(* The inductive invariant of the default setting. *)
THEOREM AtomInvariant ==
  ASSUME OneWorker
  PROVE  Spec => [](NoRetry => AtomInv)
<1>1. Init => (NoRetry => AtomInv)
  BY InitAtomic
<1>2. /\ TypeOK /\ FetchesOwnRows /\ LinkInv
      /\ (NoRetry => AtomInv) /\ [Next]_vars
      => (NoRetry => AtomInv)'
  <2> SUFFICES ASSUME TypeOK, FetchesOwnRows, LinkInv,
                      NoRetry => AtomInv, [Next]_vars, NoRetry'
               PROVE  AtomInv'
    OBVIOUS
  <2>1. retry' = retry
    BY DEF Next, vars, Begin, WorkerStep, QuerySucceeds, OutOfSync, StatementRefused,
           TransactionAborted, SendFails, ReplyLost, Fetched, FetchFails, LinkLost
  <2> QED  BY <2>1, AtomNext DEF NoRetry
<1> QED  BY <1>1, <1>2, TypeCorrect, OwnRows, LinkInvariant, PTL DEF Spec

(* With one thread and no retries, a transaction is durable as a whole or  *)
(* not at all, whatever its statements are and whatever fails.             *)
THEOREM WholeOrNothing ==
  ASSUME OneWorker
  PROVE  Spec => []AllOrNothing
<1>1. (NoRetry => AtomInv) => AllOrNothing
  BY DEF AtomInv, AllOrNothing, Untouched
<1> QED  BY <1>1, AtomInvariant, PTL

(* With one thread and no retries, a write, append, truncate or swap that  *)
(* returns false has changed nothing.                                      *)
THEOREM FailureIsClean ==
  ASSUME OneWorker
  PROVE  Spec => []FailedLeavesNothing
<1>1. (NoRetry => AtomInv) => FailedLeavesNothing
  BY DEF AtomInv, FailedLeavesNothing, Untouched
<1> QED  BY <1>1, AtomInvariant, PTL

-----------------------------------------------------------------------------
(* With one thread the session implements atomic calls. *)

(* The store of AtomicCalls, as CallsAreAtomic maps it *)
Store == IF NoRetry THEN durable ELSE {}

(* The call a thread executes is the one that is running. *)
Running == \A w \in Workers : call[w] # NoCall => result[call[w]] = "running"

(* A step of a worker ends its call or leaves the results as they are. *)
LEMMA StepEnds ==
  ASSUME WorkerOK, NEW w \in Workers, WorkerStep(w)
  PROVE  /\ retry' = retry /\ pc[w] # "idle"
         /\ \/ \E s \in BOOLEAN : Return(w, s)
            \/ result' = result /\ call'[w] = call[w]
<1>0. ok[w] \in BOOLEAN
  BY DEF WorkerOK
<1>1. ASSUME GiveUp(w) \/ QueryFailed(w) \/ Advance(w)
      PROVE  \/ \E s \in BOOLEAN : Return(w, s)
             \/ result' = result /\ call'[w] = call[w]
  <2>1. CASE UNCHANGED <<call, result>>
    BY <2>1
  <2>2. CASE \E i, s : GoTo(w, i, s)
    BY <2>2 DEF GoTo
  <2>3. CASE Return(w, ok[w]) \/ Return(w, FALSE)
    BY <1>0, <2>3
  <2> QED  BY <1>1, <2>1, <2>2, <2>3 DEF GiveUp, QueryFailed, Advance
<1>2. CASE QuerySucceeds(w)
  BY <1>1, <1>2 DEF QuerySucceeds, CanSend
<1>3. CASE Fetched(w) \/ FetchFails(w)
  BY <1>1, <1>3 DEF Fetched, FetchFails
<1>4. CASE OutOfSync(w) \/ StatementRefused(w) \/ TransactionAborted(w)
             \/ SendFails(w) \/ ReplyLost(w)
  BY <1>1, <1>4 DEF OutOfSync, StatementRefused, TransactionAborted, SendFails,
                    ReplyLost, CanSend
<1> QED  BY <1>2, <1>3, <1>4 DEF WorkerStep

LEMMA RunningNext ==
  ASSUME TypeOK, Running, OneWorker, [Next]_vars
  PROVE  Running'
<1>0. WorkerOK
  BY TypeParts
<1>1. ASSUME NEW w \in Workers, NEW c \in Calls, Begin(w, c) PROVE Running'
  BY <1>0, <1>1 DEF Begin, WorkerOK, Running, OneWorker
<1>2. ASSUME NEW w \in Workers, WorkerStep(w) PROVE Running'
  <2>1. CASE \E s \in BOOLEAN : Return(w, s)
    BY <1>0, <2>1, ReturnEffect DEF Running, OneWorker
  <2>2. CASE result' = result /\ call'[w] = call[w]
    BY <2>2 DEF Running, OneWorker
  <2> QED  BY <1>0, <1>2, <2>1, <2>2, StepEnds
<1>3. CASE LinkLost \/ UNCHANGED vars
  BY <1>3 DEF LinkLost, vars, worker, Running
<1> QED  BY <1>1, <1>2, <1>3 DEF Next

LEMMA RunningInvariant ==
  ASSUME OneWorker
  PROVE  Spec => []Running
<1>1. Init => Running
  BY DEF Init, Running
<1>2. TypeOK /\ Running /\ [Next]_vars => Running'
  BY RunningNext
<1> QED  BY <1>1, <1>2, TypeCorrect, PTL DEF Spec

(* The two ways in which a call may end in AtomicCalls *)
LEMMA EndsDropped ==
  ASSUME WorkerOK, Running, NEW w \in Workers, pc[w] # "idle",
         NEW s \in BOOLEAN, Return(w, s), Store' = Store
  PROVE  Atomic!Next
<1>1. call[w] \in Calls /\ result[call[w]] = "running"
  BY BusyType, NobodyAssumption DEF Running
<1>2. result' = [result EXCEPT ![call[w]] = "ok"]
        \/ result' = [result EXCEPT ![call[w]] = "failed"]
  BY DEF Return
<1>3. Atomic!Dropped(call[w])
  BY <1>1, <1>2 DEF Atomic!Dropped, Store
<1> QED  BY <1>1, <1>3 DEF Atomic!Next

LEMMA EndsApplied ==
  ASSUME WorkerOK, Running, NEW w \in Workers, pc[w] # "idle",
         NEW s \in BOOLEAN, Return(w, s), s \/ call[w] \notin Transactional,
         Store' = Store \cup Effects(call[w])
  PROVE  Atomic!Next
<1>1. call[w] \in Calls /\ result[call[w]] = "running"
  BY BusyType, NobodyAssumption DEF Running
<1>2. result' = [result EXCEPT ![call[w]] = IF s THEN "ok" ELSE "failed"]
  BY DEF Return
<1>3. Atomic!Applied(call[w])
  BY <1>1, <1>2 DEF Atomic!Applied, Store
<1> QED  BY <1>1, <1>3 DEF Atomic!Next

(* A statement in a transaction makes nothing durable, except the COMMIT;  *)
(* a single statement makes all durable that its call does.                *)
LEMMA WithinTransaction ==
  ASSUME TypeOK, AtomInv, LinkInv, NEW w \in Workers, pc[w] # "idle",
         link \/ ~flag, call[w] \in Transactional, Query(w) # "commit",
         durable' = DurableAfter(w)
  PROVE  durable' = durable
<1>0. WorkerOK /\ call[w] # NoCall
  BY TypeParts, BusyType, NobodyAssumption
<1>1. CASE Query(w) = "start"
  BY <1>0, <1>1, QueryShape DEF LinkInv, DurableAfter
<1>2. CASE Query(w) = "exec"
  <2>1. step[w] # 1 /\ step[w] # LastStep(w)
    BY <1>0, <1>2, QueryShape
  <2>2. ok[w]
    BY <1>0, <2>1 DEF LinkInv, TypeOK
  <2>3. inTxn
    BY <2>1, <2>2, InTransaction
  <2> QED  BY <1>2, <2>3 DEF DurableAfter
<1>3. CASE Query(w) \notin {"start", "exec"}
  BY <1>3 DEF DurableAfter
<1> QED  BY <1>1, <1>2, <1>3

LEMMA AllOfSingle ==
  ASSUME TypeOK, LinkInv, NEW w \in Workers, pc[w] # "idle",
         call[w] \notin Transactional, durable' = DurableAfter(w)
  PROVE  durable' = durable \cup Effects(call[w])
<1>0. WorkerOK /\ call[w] # NoCall
  BY TypeParts, BusyType, NobodyAssumption
<1>1. /\ step[w] = 1 /\ Effects(call[w]) \subseteq {<<call[w], 1>>}
      /\ Query(w) = "select" => Effects(call[w]) = {}
      /\ Query(w) \in {"exec", "select"}
  BY <1>0, SingleShape, QueryShape
<1>2. CASE Query(w) = "exec"
  <2>1. <<call[w], 1>> \in Effects(call[w])
    BY <1>0, <1>1, <1>2, BusyType DEF Effects, Query
  <2> QED  BY <1>0, <1>1, <1>2, <2>1 DEF LinkInv, DurableAfter
<1>3. CASE Query(w) = "select"
  BY <1>1, <1>3 DEF DurableAfter
<1> QED  BY <1>1, <1>2, <1>3

(* A query that the server executes, answered or not *)
LEMMA ExecutedMaps ==
  ASSUME TypeOK, LinkInv, AtomInv, Running, NoRetry, retry' = retry,
         NEW w \in Workers, pc[w] # "idle", link \/ ~flag,
         Query(w) # "select" => Advance(w) \/ GiveUp(w),
         Query(w) = "select" => UNCHANGED result \/ Advance(w) \/ GiveUp(w),
         durable' = DurableAfter(w)
  PROVE  Atomic!Next \/ (Store' = Store /\ result' = result)
<1>0. WorkerOK /\ ok[w] \in BOOLEAN /\ Store = durable /\ Store' = durable'
  BY TypeParts DEF WorkerOK, Store, NoRetry
<1>1. CASE Query(w) = "commit"
  <2>1. /\ durable' = durable \cup Effects(call[w])
        /\ ok[w] /\ step[w] = LastStep(w)
    BY <1>1, CommitReady DEF DurableAfter
  <2>2. Return(w, TRUE)
    BY <1>0, <1>1, <2>1 DEF Advance, GiveUp, Stopping
  <2> QED  BY <1>0, <2>1, <2>2, EndsApplied
<1>2. CASE Query(w) # "commit" /\ call[w] \in Transactional
  <2>1. Store' = Store
    BY <1>0, <1>2, WithinTransaction
  <2>2. \/ Return(w, ok[w]) \/ Return(w, FALSE)
        \/ (\E i, s : GoTo(w, i, s)) \/ result' = result
    BY DEF Advance, GiveUp
  <2>3. CASE Return(w, ok[w]) \/ Return(w, FALSE)
    BY <1>0, <2>1, <2>3, EndsDropped
  <2>4. CASE \E i, s : GoTo(w, i, s)
    BY <2>1, <2>4 DEF GoTo
  <2> QED  BY <2>1, <2>2, <2>3, <2>4
<1>3. CASE call[w] \notin Transactional
  <2>1. Store' = Store \cup Effects(call[w])
    BY <1>0, <1>3, AllOfSingle
  <2>2. step[w] = 1 /\ LastStep(w) = 1 /\ ~Stopping(w)
    BY <1>0, <1>3, SingleShape
  <2>3. CASE Advance(w) \/ GiveUp(w)
    <3>1. Return(w, ok[w]) \/ Return(w, FALSE)
      BY <2>2, <2>3 DEF Advance, GiveUp
    <3> QED  BY <1>0, <1>3, <2>1, <3>1, EndsApplied
  <2>4. CASE Query(w) = "select" /\ UNCHANGED result
    BY <1>0, <2>4 DEF DurableAfter
  <2> QED  BY <2>3, <2>4
<1> QED  BY <1>1, <1>2, <1>3

LEMMA StepMaps ==
  ASSUME TypeOK, FetchesOwnRows, LinkInv, NoRetry => AtomInv, Running, OneWorker,
         NEW w \in Workers, WorkerStep(w)
  PROVE  Atomic!Next \/ (Store' = Store /\ result' = result)
<1>0. /\ WorkerOK /\ retry' = retry /\ pc[w] # "idle"
      /\ \/ \E s \in BOOLEAN : Return(w, s)
         \/ result' = result /\ call'[w] = call[w]
  BY TypeParts, StepEnds
<1>1. CASE Store' = Store
  BY <1>0, <1>1, EndsDropped
<1>2. CASE Store' # Store
  <2>1. NoRetry /\ durable' # durable
    BY <1>0, <1>2 DEF Store, NoRetry
  <2>2. CASE QuerySucceeds(w)
    <3>1. /\ link \/ ~flag
          /\ Query(w) # "select" => Advance(w)
          /\ Query(w) = "select" => UNCHANGED result
          /\ durable' = DurableAfter(w)
      BY <2>2 DEF QuerySucceeds, CanSend
    <3> QED  BY <1>0, <2>1, <3>1, ExecutedMaps
  <2>3. CASE ReplyLost(w)
    <3>1. link /\ durable' = DurableAfter(w) /\ GiveUp(w)
      BY <2>1, <2>3 DEF ReplyLost, QueryFailed, MayRetry, NoRetry
    <3> QED  BY <1>0, <2>1, <3>1, ExecutedMaps
  <2> QED
    BY <2>1, <2>2, <2>3 DEF WorkerStep, OutOfSync, StatementRefused,
       TransactionAborted, SendFails, Fetched, FetchFails, server
<1> QED  BY <1>1, <1>2

LEMMA NextMaps ==
  ASSUME TypeOK, FetchesOwnRows, LinkInv, NoRetry => AtomInv, Running, OneWorker,
         [Next]_vars
  PROVE  Atomic!Next \/ (Store' = Store /\ result' = result)
<1>1. ASSUME NEW w \in Workers, NEW c \in Calls, Begin(w, c) PROVE Atomic!Next
  <2>1. Atomic!Begin(c)
    BY <1>1 DEF Begin, server, NoRetry, Atomic!Begin
  <2> QED  BY <2>1 DEF Atomic!Next
<1>2. CASE LinkLost \/ UNCHANGED vars
  BY <1>2 DEF LinkLost, vars, server, Store, NoRetry
<1> QED  BY <1>1, <1>2, StepMaps DEF Next

(* With one thread, each call on the database is one atomic step, whatever *)
(* fails; with retries, each call still returns once and for all.          *)
THEOREM SessionIsAtomic ==
  ASSUME OneWorker
  PROVE  Spec => CallsAreAtomic
<1>1. Init => Atomic!Init
  BY DEF Init, Atomic!Init
<1>2. /\ TypeOK /\ FetchesOwnRows /\ LinkInv /\ (NoRetry => AtomInv) /\ Running
      /\ [Next]_vars
      => [Atomic!Next]_(Atomic!vars)
  BY NextMaps DEF Atomic!vars, Store
<1> QED
  BY <1>1, <1>2, TypeCorrect, OwnRows, LinkInvariant, AtomInvariant, RunningInvariant,
     PTL DEF Spec, CallsAreAtomic, Atomic!Spec
=============================================================================
