---------------------------- MODULE Config_proofs ----------------------------
(***************************************************************************)
(* What config_read_file and config_read_command_line make of any list of  *)
(* lines and words, for every option.                                      *)
(*                                                                         *)
(* Both are folds.  A fold runs through a trace of states, one for each    *)
(* prefix of its list; what holds along the trace is shown from its least  *)
(* counterexample.                                                         *)
(***************************************************************************)
EXTENDS Config, WellFoundedInduction, SequenceTheorems, TLAPS

Below == {ss \in Nat \X Nat : ss[1] < ss[2]}

(* A set of natural numbers has a least element. *)
LEMMA LeastOf ==
  ASSUME NEW T \in SUBSET Nat, T # {}
  PROVE  \E m \in T : \A k \in T : m <= k
<1>1. OpToRel(<, Nat) = Below
  BY DEF OpToRel, Below
<1>2. IsWellFoundedOn(Below, Nat)
  BY <1>1, NatLessThanWellFounded
<1>3. PICK x \in T : \A y \in T : ~(<<y, x>> \in Below)
  BY <1>2, WFMin
<1>4. \A a, b \in Nat : <<a, b>> \in Below <=> a < b
  BY DEF Below
<1>5. \A y \in T : x \in Nat /\ y \in Nat /\ ~(y < x)
  BY <1>3, <1>4
<1>6. \A y \in T : x <= y
  BY <1>5
<1> QED  BY <1>6

LEMMA MaxIs ==
  ASSUME NEW T \in SUBSET Int, NEW m \in T, \A x \in T : x <= m
  PROVE  Max(T) = m
<1>1. \A x \in T : (\A y \in T : x >= y) => x = m
  OBVIOUS
<1>2. \A y \in T : m >= y
  OBVIOUS
<1> QED  BY <1>1, <1>2 DEF Max

(* A bounded set of natural numbers has a greatest element. *)
LEMMA MaxInSet ==
  ASSUME NEW n \in Nat, NEW T \in SUBSET (0..n), T # {}
  PROVE  Max(T) \in T /\ \A x \in T : x <= Max(T)
<1> DEFINE D == {n - x : x \in T}
<1>1. D \in SUBSET Nat /\ D # {}
  <2>1. \A x \in T : n - x \in Nat
    OBVIOUS
  <2> QED  BY <2>1
<1>2. \A x \in T : n - x \in D /\ x \in Int
  OBVIOUS
<1>3. \A d \in D : \E x \in T : d = n - x
  OBVIOUS
<1> HIDE DEF D
<1>4. PICK d \in D : \A e \in D : d <= e
  BY <1>1, LeastOf
<1>5. PICK m \in T : d = n - m
  BY <1>3
<1>6. \A x \in T : n - m <= n - x
  BY <1>2, <1>4, <1>5
<1>7. \A x \in T : x <= m
  BY <1>2, <1>6
<1>8. T \in SUBSET Int
  OBVIOUS
<1>9. Max(T) = m
  BY <1>7, <1>8, MaxIs
<1> QED  BY <1>7, <1>9

-----------------------------------------------------------------------------
(* The two folds, by the name of what is read: "file", "priority" or       *)
(* "rest"                                                                  *)
StepOf(mode, state, entry) ==
  IF mode = "file" THEN AcceptLine(state, entry)
  ELSE TakeArg(state, entry, mode = "priority")

Recur(it, mode, base, entries, n) ==
  [s \in SUBSET (1..n) |->
     IF s = {} THEN base ELSE StepOf(mode, it[s \ {Max(s)}], entries[Max(s)])]

LEMMA RecurExists ==
  ASSUME NEW mode, NEW base, NEW entries, NEW n \in Nat
  PROVE  \E it : it = Recur(it, mode, base, entries, n)
<1> DEFINE bad == {k \in Nat : ~ \E it : it = Recur(it, mode, base, entries, k)}
<1>1. SUFFICES ASSUME bad # {} PROVE FALSE
  OBVIOUS
<1>2. PICK k \in bad : \A j \in bad : k <= j
  BY <1>1, LeastOf
<1>3. k \in Nat /\ ~ \E it : it = Recur(it, mode, base, entries, k)
  OBVIOUS
<1>4. CASE k = 0
  <2> DEFINE it == [s \in SUBSET (1..0) |-> base]
  <2>1. \A s \in SUBSET (1..0) : s = {}
    OBVIOUS
  <2>2. it = Recur(it, mode, base, entries, 0)
    BY <2>1 DEF Recur
  <2> HIDE DEF it
  <2> QED  BY <1>3, <1>4, <2>2
<1>5. CASE k # 0
  <2>1. k - 1 \in Nat /\ ~(k <= k - 1)
    BY <1>3, <1>5
  <2>2. k - 1 \notin bad
    BY <1>2, <2>1
  <2>3. PICK it : it = Recur(it, mode, base, entries, k - 1)
    BY <2>1, <2>2
  <2> HIDE DEF bad
  <2> DEFINE next == [s \in SUBSET (1..k) |->
                        IF k \in s THEN StepOf(mode, it[s \ {k}], entries[k]) ELSE it[s]]
  <2>4. \A s \in SUBSET (1..k) : k \notin s => s \in SUBSET (1..(k - 1))
    BY <1>3
  <2>5. \A s \in SUBSET (1..k) : s \ {k} \in SUBSET (1..(k - 1)) /\ s \ {k} \in SUBSET (1..k)
    BY <1>3
  <2>6. ASSUME NEW s \in SUBSET (1..k)
        PROVE  next[s] = IF s = {} THEN base
                         ELSE StepOf(mode, next[s \ {Max(s)}], entries[Max(s)])
    <3>1. CASE k \in s
      <4>1. Max(s) = k
        BY <1>3, <3>1, MaxIs
      <4>2. next[s \ {k}] = it[s \ {k}]
        BY <2>5
      <4> QED  BY <3>1, <4>1, <4>2
    <3>2. CASE k \notin s
      <4> DEFINE t == s \ {Max(s)}
      <4>1. s \in SUBSET (1..(k - 1)) /\ t \in SUBSET (1..k) /\ k \notin t
        BY <2>4, <3>2
      <4>2. next[s] = it[s] /\ next[t] = it[t]
        BY <3>2, <4>1
      <4>3. it[s] = IF s = {} THEN base ELSE StepOf(mode, it[t], entries[Max(s)])
        BY <2>3, <4>1 DEF Recur
      <4> HIDE DEF next
      <4> QED  BY <4>2, <4>3
    <3> QED  BY <3>1, <3>2
  <2>7. next = Recur(next, mode, base, entries, k)
    <3>1. next = [s \in SUBSET (1..k) |-> next[s]]
      OBVIOUS
    <3> HIDE DEF next
    <3> QED  BY <2>6, <3>1 DEF Recur
  <2> HIDE DEF next
  <2> QED  BY <1>3, <2>7
<1> QED  BY <1>4, <1>5

LEMMA Segment ==
  ASSUME NEW n \in Nat, NEW k \in 1..n
  PROVE  /\ 1..k \in SUBSET (1..n) /\ 1..k # {}
         /\ Max(1..k) = k
         /\ (1..k) \ {k} = 1..(k - 1)
<1>1. k \in Nat /\ k >= 1 /\ k <= n
  OBVIOUS
<1>2. 1..k \in SUBSET (1..n)
  BY <1>1
<1>3. k \in 1..k /\ (\A x \in 1..k : x <= k) /\ 1..k \in SUBSET Int
  BY <1>1
<1>4. Max(1..k) = k
  BY <1>3, MaxIs
<1>5. \A x : x \in (1..k) \ {k} <=> x \in 1..(k - 1)
  BY <1>1
<1> QED  BY <1>2, <1>3, <1>4, <1>5

(* The states that a fold runs through *)
Trace(r, mode, base, entries) ==
  /\ r[0] = base
  /\ \A k \in 1..Len(entries) : r[k] = StepOf(mode, r[k - 1], entries[k])

LEMMA TraceOf ==
  ASSUME NEW mode, NEW base, NEW S, NEW entries \in Seq(S),
         NEW it, it = Recur(it, mode, base, entries, Len(entries))
  PROVE  \E r : Trace(r, mode, base, entries) /\ r[Len(entries)] = it[1..Len(entries)]
<1> DEFINE n == Len(entries)  r == [k \in 0..n |-> it[1..k]]
<1>1. n \in Nat
  BY LenProperties
<1>2. \A k \in 0..n : 1..k \in SUBSET (1..n)
  BY <1>1
<1>3. it[1..0] = base
  <2>1. 1..0 = {} /\ 1..0 \in SUBSET (1..n)
    BY <1>1
  <2> QED  BY <2>1 DEF Recur
<1>4. ASSUME NEW k \in 1..n
      PROVE  it[1..k] = StepOf(mode, it[1..(k - 1)], entries[k])
  <2>1. 1..k \in SUBSET (1..n) /\ 1..k # {} /\ (1..k) \ {k} = 1..(k - 1) /\ Max(1..k) = k
    BY <1>1, Segment
  <2>2. it[1..k] = IF 1..k = {} THEN base
                   ELSE StepOf(mode, it[(1..k) \ {Max(1..k)}], entries[Max(1..k)])
    BY <2>1 DEF Recur
  <2> QED  BY <2>1, <2>2
<1>5. Trace(r, mode, base, entries)
  <2>1. r[0] = base
    BY <1>1, <1>3
  <2>2. \A k \in 1..n : r[k] = it[1..k] /\ r[k - 1] = it[1..(k - 1)]
    BY <1>1
  <2> HIDE DEF r
  <2> QED  BY <1>4, <2>1, <2>2 DEF Trace
<1>6. r[n] = it[1..n]
  BY <1>1
<1> HIDE DEF r
<1> QED  BY <1>5, <1>6

(* config_read_file *)
FileBase(v) == [values |-> v, ok |-> TRUE]

LEMMA FileTrace ==
  ASSUME NEW S, NEW lines \in Seq(S), NEW v
  PROVE  \E r : /\ Trace(r, "file", FileBase(v), lines)
                /\ ReadFile(lines, v) = r[Len(lines)]
<1> DEFINE n == Len(lines)
           Rec(it) == [s \in SUBSET DOMAIN lines |->
                         IF s = {} THEN FileBase(v)
                         ELSE AcceptLine(it[s \ {Max(s)}], lines[Max(s)])]
           iter == CHOOSE it : it = Rec(it)
<1>1. DOMAIN lines = 1..n /\ n \in Nat
  BY LenProperties
<1>2. ReadFile(lines, v) = iter[DOMAIN lines]
  BY DEF ReadFile, FoldLeft, MapThenFoldSet, FileBase
<1>3. \A it : Rec(it) = Recur(it, "file", FileBase(v), lines, n)
  BY <1>1 DEF Recur, StepOf
<1> HIDE DEF Rec
<1>4. \E it : it = Rec(it)
  <2> DEFINE R(it) == Recur(it, "file", FileBase(v), lines, n)
  <2>1. \E it : it = R(it)
    BY <1>1, RecurExists
  <2> HIDE DEF R
  <2>2. \A it : Rec(it) = R(it)
    BY <1>3 DEF R
  <2> QED  BY <2>1, <2>2
<1>5. iter = Rec(iter)
  BY <1>4
<1> HIDE DEF iter
<1>6. iter = Recur(iter, "file", FileBase(v), lines, Len(lines))
  BY <1>3, <1>5
<1> QED  BY <1>1, <1>2, <1>6, TraceOf

(* config_read_command_line *)
LineBase(v) == [values |-> v, ok |-> TRUE, ran |-> Nothing]

LEMMA CommandLineTrace ==
  ASSUME NEW S, NEW words \in Seq(S), NEW v, NEW mode \in {"priority", "rest"}
  PROVE  \E r : /\ Trace(r, mode, LineBase(v), words)
                /\ ReadCommandLine(words, mode = "priority", v) = r[Len(words)]
<1> DEFINE n == Len(words)
           Rec(it) == [s \in SUBSET DOMAIN words |->
                         IF s = {} THEN LineBase(v)
                         ELSE TakeArg(it[s \ {Max(s)}], words[Max(s)], mode = "priority")]
           iter == CHOOSE it : it = Rec(it)
<1>1. DOMAIN words = 1..n /\ n \in Nat
  BY LenProperties
<1>2. ReadCommandLine(words, mode = "priority", v) = iter[DOMAIN words]
  BY DEF ReadCommandLine, FoldLeft, MapThenFoldSet, LineBase
<1>3. \A it : Rec(it) = Recur(it, mode, LineBase(v), words, n)
  <2>1. \A state, word : StepOf(mode, state, word) = TakeArg(state, word, mode = "priority")
    BY DEF StepOf
  <2> TAKE it
  <2> DEFINE F(s) == IF s = {} THEN LineBase(v)
                     ELSE TakeArg(it[s \ {Max(s)}], words[Max(s)], mode = "priority")
             G(s) == IF s = {} THEN LineBase(v)
                     ELSE StepOf(mode, it[s \ {Max(s)}], words[Max(s)])
  <2>2. \A s : F(s) = G(s)
    BY <2>1
  <2>3. Rec(it) = [s \in SUBSET (1..n) |-> F(s)]
    BY <1>1
  <2>4. Recur(it, mode, LineBase(v), words, n) = [s \in SUBSET (1..n) |-> G(s)]
    BY DEF Recur
  <2> HIDE DEF F, G, Rec
  <2>5. [s \in SUBSET (1..n) |-> F(s)] = [s \in SUBSET (1..n) |-> G(s)]
    BY <2>2
  <2> QED  BY <2>3, <2>4, <2>5
<1> HIDE DEF Rec
<1>4. \E it : it = Rec(it)
  <2> DEFINE R(it) == Recur(it, mode, LineBase(v), words, n)
  <2>1. \E it : it = R(it)
    BY <1>1, RecurExists
  <2> HIDE DEF R
  <2>2. \A it : Rec(it) = R(it)
    BY <1>3 DEF R
  <2> QED  BY <2>1, <2>2
<1>5. iter = Rec(iter)
  BY <1>4
<1> HIDE DEF iter
<1>6. iter = Recur(iter, mode, LineBase(v), words, Len(words))
  BY <1>3, <1>5
<1> QED  BY <1>1, <1>2, <1>6, TraceOf

-----------------------------------------------------------------------------
(* What one entry does                                                     *)

IsList(v) == v = [o \in Options |-> v[o]]

(* The entry sets option o *)
Sets(entry, o) == entry.key = o /\ entry.value # NoValue /\ ~Refuses(o, entry.value)

LEMMA GivenAre ==
  ASSUME NEW entries, NEW o
  PROVE  Given(entries, o) = {i \in DOMAIN entries : Sets(entries[i], o)}
BY DEF Given, Sets

LEMMA AssignIs ==
  ASSUME NEW v, IsList(v), NEW key, NEW value
  PROVE  Assign(v, key, value)
           = [o \in Options |-> IF o = key /\ ~Refuses(key, value) THEN Normal(o, value) ELSE v[o]]
<1>1. CASE Refuses(key, value)
  BY <1>1 DEF IsList, Assign
<1>2. CASE ~Refuses(key, value)
  <2>1. Assign(v, key, value) = [v EXCEPT ![key] = Normal(key, value)]
    BY <1>2 DEF Assign
  <2> QED  BY <1>2, <2>1 DEF IsList
<1> QED  BY <1>1, <1>2

(* The list v after an entry for an option of the class K *)
Accepted(v, entry, K) ==
  [o \in Options |-> IF o \in K /\ Sets(entry, o) THEN Normal(o, entry.value) ELSE v[o]]

FileState(state) ==
  state = [values |-> state.values, ok |-> state.ok] /\ IsList(state.values)
  /\ state.ok \in BOOLEAN

LEMMA LineAccepted ==
  ASSUME NEW state, FileState(state), NEW line
  PROVE  LET next == AcceptLine(state, line)
         IN  /\ FileState(next)
             /\ next.values = Accepted(state.values, line, InFile)
<1> DEFINE next == AcceptLine(state, line)  v == state.values
<1>0. /\ state = [values |-> v, ok |-> state.ok] /\ IsList(v) /\ state.ok \in BOOLEAN
      /\ v = [o \in Options |-> v[o]]
  BY DEF FileState, IsList
<1>1. CASE line.value = NoValue
  <2>1. next = state
    BY <1>1 DEF AcceptLine
  <2>2. Accepted(v, line, InFile) = v
    BY <1>0, <1>1 DEF Accepted, Sets
  <2> QED  BY <2>1, <2>2
<1>2. CASE line.value # NoValue /\ line.key \notin InFile
  <2>1. next = [values |-> v, ok |-> FALSE]
    BY <1>0, <1>2 DEF AcceptLine, Unknown
  <2>2. Accepted(v, line, InFile) = v
    <3>1. \A o \in Options : ~(o \in InFile /\ Sets(line, o))
      BY <1>2 DEF Sets
    <3> QED  BY <1>0, <3>1 DEF Accepted
  <2> HIDE DEF v
  <2>3. FileState(next)
    BY <1>0, <2>1 DEF FileState
  <2> QED  BY <2>1, <2>2, <2>3 DEF v
<1>3. CASE line.value # NoValue /\ line.key \in InFile
  <2> DEFINE a == Assign(v, line.key, line.value)
             ok == IF line.key \in Handled THEN ~Refuses(line.key, line.value) ELSE state.ok
  <2>1. next = [values |-> a, ok |-> ok]
    BY <1>3 DEF AcceptLine
  <2>2. a = Accepted(v, line, InFile)
    <3>1. a = [o \in Options |->
                 IF o = line.key /\ ~Refuses(line.key, line.value) THEN Normal(o, line.value)
                 ELSE v[o]]
      BY <1>0, AssignIs
    <3>2. \A o \in Options : (o = line.key /\ ~Refuses(line.key, line.value))
                               <=> o \in InFile /\ Sets(line, o)
      BY <1>3 DEF Sets
    <3> HIDE DEF a, v
    <3> QED  BY <3>1, <3>2 DEF Accepted
  <2>3. IsList(a)
    <3> HIDE DEF a
    <3> QED  BY <2>2 DEF Accepted, IsList
  <2>4. ok \in BOOLEAN
    BY <1>0 DEF Refuses
  <2> HIDE DEF a, ok
  <2>5. FileState(next)
    BY <2>1, <2>3, <2>4 DEF FileState
  <2> QED  BY <2>1, <2>2, <2>5
<1> QED  BY <1>1, <1>2, <1>3

(* The options that a round over the command line looks at *)
Class(priority) == {o \in Options : (o \in Priorities) = priority}

LineState(state) ==
  state = [values |-> state.values, ok |-> state.ok, ran |-> state.ran]
  /\ IsList(state.values) /\ state.ok \in BOOLEAN

(* The word is one that lets a round go on *)
Fine(word, priority) ==
  /\ word.value # NoValue /\ word.key \in Options
  /\ word.key \in Class(priority) => word.key \notin Runs /\ ~Refuses(word.key, word.value)

LEMMA EndedWith ==
  ASSUME NEW w, NEW k, NEW what, NEW x,
         NEW state, state = [values |-> w, ok |-> k, ran |-> what]
  PROVE  [state EXCEPT !.ok = x] = [values |-> w, ok |-> x, ran |-> what]
OBVIOUS

LEMMA RanWith ==
  ASSUME NEW w, NEW k, NEW what, NEW x,
         NEW state, state = [values |-> w, ok |-> k, ran |-> what]
  PROVE  [state EXCEPT !.ran = x] = [values |-> w, ok |-> k, ran |-> x]
OBVIOUS

LEMMA Ended ==
  ASSUME NEW w, NEW k, NEW what, NEW key,
         NEW state, state = [values |-> w, ok |-> k, ran |-> what]
  PROVE  /\ [state EXCEPT !.ok = FALSE] = [values |-> w, ok |-> FALSE, ran |-> what]
         /\ [state EXCEPT !.ok = FALSE, !.ran = key]
              = [values |-> w, ok |-> FALSE, ran |-> key]
<1> DEFINE f == FALSE  ended == [state EXCEPT !.ok = f]
<1>1. f = FALSE
  OBVIOUS
<1> HIDE DEF f
<1>2. ended = [values |-> w, ok |-> f, ran |-> what]
  BY EndedWith
<1>3. [ended EXCEPT !.ran = key] = [values |-> w, ok |-> f, ran |-> key]
  <2> HIDE DEF ended
  <2> QED  BY <1>2, RanWith
<1> QED  BY <1>1, <1>2, <1>3

LEMMA WordTaken ==
  ASSUME NEW state, LineState(state), NEW word, NEW priority \in BOOLEAN
  PROVE  LET next == TakeArg(state, word, priority)
         IN  /\ LineState(next)
             /\ ~next.ok => next.values = state.values
             /\ next.ok => /\ state.ok /\ Fine(word, priority)
                           /\ next.values = Accepted(state.values, word, Class(priority))
<1> DEFINE next == TakeArg(state, word, priority)  v == state.values
<1>0. /\ state = [values |-> v, ok |-> state.ok, ran |-> state.ran] /\ IsList(v)
      /\ state.ok \in BOOLEAN /\ v = [o \in Options |-> v[o]]
  BY DEF LineState, IsList
<1>1. CASE ~state.ok
  <2>1. next = state
    BY <1>1 DEF TakeArg
  <2> QED  BY <1>1, <2>1
<1>2. CASE state.ok /\ (word.value = NoValue \/ word.key \notin Options)
  <2>1. next = [values |-> v, ok |-> FALSE, ran |-> state.ran]
    <3>1. next = [state EXCEPT !.ok = FALSE]
      BY <1>2 DEF TakeArg
    <3> DEFINE k == state.ok  what == state.ran
    <3>2. state = [values |-> v, ok |-> k, ran |-> what]
      BY <1>0
    <3> HIDE DEF v, next, k, what
    <3>3. next = [values |-> v, ok |-> FALSE, ran |-> what]
      BY <3>1, <3>2, Ended
    <3> QED  BY <3>3 DEF what
  <2> HIDE DEF v, next
  <2>2. LineState(next)
    BY <1>0, <2>1 DEF LineState
  <2> QED  BY <2>1, <2>2 DEF v, next
<1>3. CASE /\ state.ok /\ word.value # NoValue /\ word.key \in Options
           /\ (word.key \in Priorities) # priority
  <2>1. next = state
    BY <1>3 DEF TakeArg
  <2>2. Accepted(v, word, Class(priority)) = v
    <3>1. \A o \in Options : ~(o \in Class(priority) /\ Sets(word, o))
      BY <1>3 DEF Sets, Class
    <3> QED  BY <1>0, <3>1 DEF Accepted
  <2>3. Fine(word, priority)
    BY <1>3 DEF Fine, Class
  <2> QED  BY <1>3, <2>1, <2>2, <2>3
<1>4. CASE /\ state.ok /\ word.value # NoValue /\ word.key \in Options
           /\ (word.key \in Priorities) = priority /\ word.key \in Runs
  <2>1. next = [values |-> v, ok |-> FALSE, ran |-> word.key]
    <3>1. next = [state EXCEPT !.ok = FALSE, !.ran = word.key]
      BY <1>4 DEF TakeArg
    <3> DEFINE k == state.ok  what == state.ran
    <3>2. state = [values |-> v, ok |-> k, ran |-> what]
      BY <1>0
    <3> HIDE DEF v, next, k, what
    <3> QED  BY <3>1, <3>2, Ended
  <2> HIDE DEF v, next
  <2>2. LineState(next)
    BY <1>0, <2>1 DEF LineState
  <2> QED  BY <2>1, <2>2 DEF v, next
<1>5. CASE /\ state.ok /\ word.value # NoValue /\ word.key \in Options
           /\ (word.key \in Priorities) = priority /\ word.key \notin Runs
  <2> DEFINE a == Assign(v, word.key, word.value)  ok == ~Refuses(word.key, word.value)
  <2>1. next = [values |-> a, ok |-> ok, ran |-> state.ran]
    <3>1. next = [state EXCEPT !.values = a, !.ok = ok]
      BY <1>5 DEF TakeArg
    <3> HIDE DEF v, next, a, ok
    <3> QED  BY <1>0, <3>1
  <2>2. a = Accepted(v, word, Class(priority))
    <3>1. a = [o \in Options |->
                 IF o = word.key /\ ~Refuses(word.key, word.value) THEN Normal(o, word.value)
                 ELSE v[o]]
      BY <1>0, AssignIs
    <3>2. \A o \in Options : (o = word.key /\ ~Refuses(word.key, word.value))
                               <=> o \in Class(priority) /\ Sets(word, o)
      BY <1>5 DEF Sets, Class
    <3> HIDE DEF a, v
    <3> QED  BY <3>1, <3>2 DEF Accepted
  <2>3. IsList(a)
    <3> HIDE DEF a
    <3> QED  BY <2>2 DEF Accepted, IsList
  <2>4. ok \in BOOLEAN
    BY DEF Refuses
  <2>5. (ok => Fine(word, priority)) /\ (~ok => a = v)
    BY <1>5 DEF Fine, Assign
  <2> HIDE DEF a, ok, next
  <2>6. LineState(next)
    BY <2>1, <2>3, <2>4 DEF LineState
  <2> QED  BY <1>5, <2>1, <2>2, <2>5, <2>6 DEF next
<1> QED  BY <1>1, <1>2, <1>3, <1>4, <1>5

-----------------------------------------------------------------------------
(* What a whole list does                                                  *)

(* The value of option o after the first k entries, of which those for the *)
(* options K count                                                         *)
Setters(entries, k, o, K) == {i \in 1..k : o \in K /\ Sets(entries[i], o)}
Latest(entries, k, o, K, old) ==
  IF Setters(entries, k, o, K) = {} THEN old
  ELSE Normal(o, entries[Max(Setters(entries, k, o, K))].value)

LEMMA LatestNone ==
  ASSUME NEW entries, NEW o, NEW K, NEW old
  PROVE  Latest(entries, 0, o, K, old) = old
<1>1. Setters(entries, 0, o, K) = {}
  BY DEF Setters
<1> QED  BY <1>1 DEF Latest

LEMMA LatestNext ==
  ASSUME NEW entries, NEW k \in Nat \ {0}, NEW o, NEW K, NEW old
  PROVE  Latest(entries, k, o, K, old)
           = IF o \in K /\ Sets(entries[k], o) THEN Normal(o, entries[k].value)
             ELSE Latest(entries, k - 1, o, K, old)
<1>1. CASE o \in K /\ Sets(entries[k], o)
  <2> DEFINE T == Setters(entries, k, o, K)
  <2>1. k \in T /\ T \in SUBSET Int /\ \A x \in T : x <= k
    BY <1>1 DEF Setters
  <2> HIDE DEF T
  <2>2. Max(T) = k
    BY <2>1, MaxIs
  <2>3. T # {}
    BY <2>1
  <2> QED  BY <1>1, <2>2, <2>3 DEF Latest, T
<1>2. CASE ~(o \in K /\ Sets(entries[k], o))
  <2>1. ASSUME NEW i
        PROVE  i \in Setters(entries, k, o, K) <=> i \in Setters(entries, k - 1, o, K)
    <3>1. i \in 1..k <=> i \in 1..(k - 1) \/ i = k
      OBVIOUS
    <3>2. k \notin 1..(k - 1)
      OBVIOUS
    <3> QED  BY <1>2, <3>1, <3>2 DEF Setters
  <2>2. Setters(entries, k, o, K) = Setters(entries, k - 1, o, K)
    BY <2>1
  <2> QED  BY <1>2, <2>2 DEF Latest
<1> QED  BY <1>1, <1>2

LatestOf(entries, k, K, v) == [o \in Options |-> Latest(entries, k, o, K, v[o])]

LEMMA LatestStart ==
  ASSUME NEW v, IsList(v), NEW entries, NEW K
  PROVE  LatestOf(entries, 0, K, v) = v
BY LatestNone DEF LatestOf, IsList

LEMMA LatestStep ==
  ASSUME NEW v, NEW entries, NEW K, NEW k \in Nat \ {0}
  PROVE  Accepted(LatestOf(entries, k - 1, K, v), entries[k], K) = LatestOf(entries, k, K, v)
<1> DEFINE old == LatestOf(entries, k - 1, K, v)
<1>1. \A o \in Options : old[o] = Latest(entries, k - 1, o, K, v[o])
  BY DEF LatestOf
<1>2. \A o \in Options : Latest(entries, k, o, K, v[o])
         = IF o \in K /\ Sets(entries[k], o) THEN Normal(o, entries[k].value) ELSE old[o]
  <2> TAKE o \in Options
  <2> HIDE DEF old
  <2>1. Latest(entries, k, o, K, v[o])
          = IF o \in K /\ Sets(entries[k], o) THEN Normal(o, entries[k].value)
            ELSE Latest(entries, k - 1, o, K, v[o])
    BY LatestNext
  <2> QED  BY <1>1, <2>1
<1> HIDE DEF old
<1> QED  BY <1>2 DEF Accepted, LatestOf, old

LEMMA FileAlong ==
  ASSUME NEW S, NEW lines \in Seq(S), NEW v, IsList(v), NEW r,
         Trace(r, "file", FileBase(v), lines), NEW n \in 0..Len(lines)
  PROVE  /\ FileState(r[n])
         /\ r[n].values = LatestOf(lines, n, InFile, v)
<1> DEFINE Holds(k) == /\ FileState(r[k])
                       /\ r[k].values = LatestOf(lines, k, InFile, v)
           bad == {k \in 0..Len(lines) : ~Holds(k)}
<1>1. SUFFICES ASSUME bad # {} PROVE FALSE
  OBVIOUS
<1>2. Len(lines) \in Nat
  BY LenProperties
<1>3. PICK k \in bad : \A j \in bad : k <= j
  <2>1. bad \in SUBSET Nat
    BY <1>2
  <2> HIDE DEF bad
  <2> QED  BY <1>1, <2>1, LeastOf
<1>4. k \in 0..Len(lines) /\ ~Holds(k)
  OBVIOUS
<1>5. k # 0
  <2>1. r[0] = FileBase(v)
    BY DEF Trace
  <2>2. FileState(r[0]) /\ r[0].values = v
    BY <2>1 DEF FileBase, FileState
  <2>3. r[0].values = LatestOf(lines, 0, InFile, v)
    BY <2>2, LatestStart
  <2> QED  BY <1>4, <2>2, <2>3
<1>6. k \in 1..Len(lines) /\ k - 1 \in 0..Len(lines) /\ ~(k <= k - 1) /\ k \in Nat \ {0}
  BY <1>2, <1>4, <1>5
<1>7. Holds(k - 1)
  BY <1>3, <1>6
<1> HIDE DEF bad
<1> DEFINE before == r[k - 1]  next == AcceptLine(before, lines[k])
<1>8. r[k] = next
  BY <1>6 DEF Trace, StepOf
<1>9. /\ FileState(before) /\ before.values = LatestOf(lines, k - 1, InFile, v)
  BY <1>7
<1> HIDE DEF before
<1>10. FileState(next) /\ next.values = Accepted(before.values, lines[k], InFile)
  BY <1>9, LineAccepted
<1> HIDE DEF next
<1>11. next.values = LatestOf(lines, k, InFile, v)
  BY <1>6, <1>9, <1>10, LatestStep
<1> QED  BY <1>4, <1>8, <1>10, <1>11

(* config_read_file: each option that has a name in the file takes the     *)
(* last value that is not refused.                                         *)
LEMMA FileIsRead ==
  ASSUME NEW S, NEW lines \in Seq(S), NEW v, IsList(v)
  PROVE  /\ ReadFile(lines, v).values = LatestOf(lines, Len(lines), InFile, v)
         /\ ReadFile(lines, v).ok \in BOOLEAN
<1>1. PICK r : Trace(r, "file", FileBase(v), lines) /\ ReadFile(lines, v) = r[Len(lines)]
  BY FileTrace
<1> DEFINE n == Len(lines)
<1>2. n \in 0..Len(lines)
  BY LenProperties
<1>3. Trace(r, "file", FileBase(v), lines)
  BY <1>1
<1> HIDE DEF n
<1>4. FileState(r[n]) /\ r[n].values = LatestOf(lines, n, InFile, v)
  BY <1>2, <1>3, FileAlong
<1> QED  BY <1>1, <1>4 DEF FileState, n

(* A file without a bad line is read without a complaint. *)
LEMMA GoodLine ==
  ASSUME NEW state, FileState(state), state.ok, NEW line, ~Bad(line)
  PROVE  AcceptLine(state, line).ok
<1>1. CASE line.value = NoValue
  BY <1>1 DEF AcceptLine
<1>2. CASE line.value # NoValue
  <2>1. line.key \in InFile /\ ~Refuses(line.key, line.value)
    BY <1>2 DEF Bad
  <2>2. AcceptLine(state, line)
          = [values |-> Assign(state.values, line.key, line.value),
             ok |-> IF line.key \in Handled THEN ~Refuses(line.key, line.value) ELSE state.ok]
    BY <1>2, <2>1 DEF AcceptLine
  <2>3. AcceptLine(state, line).ok
          = IF line.key \in Handled THEN ~Refuses(line.key, line.value) ELSE state.ok
    BY <2>2
  <2> QED  BY <2>1, <2>3
<1> QED  BY <1>1, <1>2

LEMMA GoodFile ==
  ASSUME NEW S, NEW lines \in Seq(S), NEW v, IsList(v),
         \A i \in 1..Len(lines) : ~Bad(lines[i])
  PROVE  ReadFile(lines, v).ok
<1>0. PICK r : Trace(r, "file", FileBase(v), lines) /\ ReadFile(lines, v) = r[Len(lines)]
  BY FileTrace
<1> DEFINE bad == {k \in 0..Len(lines) : ~r[k].ok}
<1>1. Len(lines) \in Nat /\ Len(lines) \in 0..Len(lines)
  BY LenProperties
<1>2. SUFFICES ASSUME bad # {} PROVE FALSE
  BY <1>0, <1>1
<1>3. PICK k \in bad : \A j \in bad : k <= j
  <2>1. bad \in SUBSET Nat
    BY <1>1
  <2> HIDE DEF bad
  <2> QED  BY <1>2, <2>1, LeastOf
<1>4. k \in 0..Len(lines) /\ ~r[k].ok
  OBVIOUS
<1>5. k # 0
  <2>1. r[0] = FileBase(v)
    BY <1>0 DEF Trace
  <2> QED  BY <1>4, <2>1 DEF FileBase
<1>6. k \in 1..Len(lines) /\ k - 1 \in 0..Len(lines) /\ ~(k <= k - 1)
  BY <1>1, <1>4, <1>5
<1>7. r[k - 1].ok
  BY <1>3, <1>6
<1> HIDE DEF bad
<1>8. r[k] = AcceptLine(r[k - 1], lines[k])
  BY <1>0, <1>6 DEF Trace, StepOf
<1>9. FileState(r[k - 1])
  <2>1. Trace(r, "file", FileBase(v), lines)
    BY <1>0
  <2> QED  BY <1>6, <2>1, FileAlong
<1>10. AcceptLine(r[k - 1], lines[k]).ok
  BY <1>6, <1>7, <1>9, GoodLine
<1> QED  BY <1>4, <1>8, <1>10

LEMMA WordsAlong ==
  ASSUME NEW S, NEW words \in Seq(S), NEW v, IsList(v), NEW r, NEW mode \in {"priority", "rest"},
         Trace(r, mode, LineBase(v), words), NEW n \in 0..Len(words)
  PROVE  /\ LineState(r[n])
         /\ \E j \in 0..n : r[n].values = LatestOf(words, j, Class(mode = "priority"), v)
         /\ r[n].ok => /\ r[n].values = LatestOf(words, n, Class(mode = "priority"), v)
                       /\ \A i \in 1..n : Fine(words[i], mode = "priority")
<1> DEFINE priority == (mode = "priority")  K == Class(priority)
           Holds(k) == /\ LineState(r[k])
                       /\ \E j \in 0..k : r[k].values = LatestOf(words, j, K, v)
                       /\ r[k].ok => /\ r[k].values = LatestOf(words, k, K, v)
                                     /\ \A i \in 1..k : Fine(words[i], priority)
           bad == {k \in 0..Len(words) : ~Holds(k)}
<1>1. SUFFICES ASSUME bad # {} PROVE FALSE
  OBVIOUS
<1>2. Len(words) \in Nat
  BY LenProperties
<1>3. PICK k \in bad : \A j \in bad : k <= j
  <2>1. bad \in SUBSET Nat
    BY <1>2
  <2> HIDE DEF bad
  <2> QED  BY <1>1, <2>1, LeastOf
<1>4. k \in 0..Len(words) /\ ~Holds(k)
  OBVIOUS
<1>0. priority \in BOOLEAN
  OBVIOUS
<1> HIDE DEF priority
<1>5. k # 0
  <2>1. r[0] = LineBase(v)
    BY DEF Trace
  <2>2. LineState(r[0]) /\ r[0].values = v
    BY <2>1 DEF LineBase, LineState
  <2>3. r[0].values = LatestOf(words, 0, K, v)
    BY <2>2, LatestStart
  <2> HIDE DEF K
  <2> QED  BY <1>4, <2>2, <2>3
<1>6. k \in 1..Len(words) /\ k - 1 \in 0..Len(words) /\ ~(k <= k - 1) /\ k \in Nat \ {0}
  BY <1>2, <1>4, <1>5
<1>7. Holds(k - 1)
  BY <1>3, <1>6
<1> HIDE DEF bad
<1> DEFINE before == r[k - 1]  next == TakeArg(before, words[k], priority)
<1>8. r[k] = next
  BY <1>6 DEF Trace, StepOf, priority
<1> HIDE DEF K
<1>9. /\ LineState(before)
      /\ \E j \in 0..(k - 1) : before.values = LatestOf(words, j, K, v)
      /\ before.ok => /\ before.values = LatestOf(words, k - 1, K, v)
                      /\ \A i \in 1..(k - 1) : Fine(words[i], priority)
  BY <1>7
<1> HIDE DEF before
<1>10. /\ LineState(next)
       /\ ~next.ok => next.values = before.values
       /\ next.ok => /\ before.ok /\ Fine(words[k], priority)
                     /\ next.values = Accepted(before.values, words[k], K)
  BY <1>0, <1>9, WordTaken DEF K
<1> HIDE DEF next
<1>11. CASE next.ok
  <2>1. next.values = LatestOf(words, k, K, v)
    BY <1>6, <1>9, <1>10, <1>11, LatestStep
  <2>2. \A i \in 1..k : Fine(words[i], priority)
    <3>1. \A i \in 1..k : i \in 1..(k - 1) \/ i = k
      BY <1>6
    <3> QED  BY <1>9, <1>10, <1>11, <3>1
  <2>3. k \in 0..k
    BY <1>6
  <2> QED  BY <1>4, <1>8, <1>10, <2>1, <2>2, <2>3
<1>12. CASE ~next.ok
  <2>1. PICK j \in 0..(k - 1) : before.values = LatestOf(words, j, K, v)
    BY <1>9
  <2>2. j \in 0..k
    BY <1>6
  <2> QED  BY <1>4, <1>8, <1>10, <1>12, <2>1, <2>2
<1> QED  BY <1>11, <1>12

(* config_read_command_line: a round that succeeds has found every word in *)
(* order, and each option of its class takes the last value it is given.   *)
LEMMA LineIsRead ==
  ASSUME NEW S, NEW words \in Seq(S), NEW v, IsList(v), NEW mode \in {"priority", "rest"}
  PROVE  LET result == ReadCommandLine(words, mode = "priority", v)
             K == Class(mode = "priority")
         IN  /\ \E j \in 0..Len(words) : result.values = LatestOf(words, j, K, v)
             /\ result.ok \in BOOLEAN
             /\ result.ok => /\ result.values = LatestOf(words, Len(words), K, v)
                             /\ \A i \in 1..Len(words) : Fine(words[i], mode = "priority")
<1>1. PICK r : /\ Trace(r, mode, LineBase(v), words)
               /\ ReadCommandLine(words, mode = "priority", v) = r[Len(words)]
  BY CommandLineTrace
<1> DEFINE n == Len(words)
<1>2. n \in 0..Len(words)
  BY LenProperties
<1>3. Trace(r, mode, LineBase(v), words)
  BY <1>1
<1> HIDE DEF n
<1>4. /\ LineState(r[n])
      /\ \E j \in 0..n : r[n].values = LatestOf(words, j, Class(mode = "priority"), v)
      /\ r[n].ok => /\ r[n].values = LatestOf(words, n, Class(mode = "priority"), v)
                    /\ \A i \in 1..n : Fine(words[i], mode = "priority")
  BY <1>2, <1>3, WordsAlong
<1> QED  BY <1>1, <1>4 DEF LineState, n

-----------------------------------------------------------------------------
(* What the values are                                                     *)

LEMMA OptionsAre ==
  Options = {"config_file", "create", "print_create_sql", "failed_query_retry_wait",
             "failed_query_retry_count", "log_stdout", "log_syslog", "reclaimer_level",
             "mariadb_database", "mariadb_host", "mariadb_password", "mariadb_port",
             "mariadb_user", "mount", "user", "group"}
BY DEF Options, Defaults

Typed(v) ==
  /\ v \in [Options -> Values]
  /\ Number(v["reclaimer_level"]) \in Levels

LEMMA DefaultsTyped == Typed(Defaults)
<1>1. Defaults \in [Options -> Values]
  <2>1. Defaults = [key \in DOMAIN Defaults |-> Defaults[key]]
    BY DEF Defaults
  <2> QED  BY <2>1, WordsAssumption DEF Options
<1>2. Defaults["reclaimer_level"] = "1"
  BY DEF Defaults
<1> QED  BY <1>1, <1>2 DEF Typed, Number, Levels

LEMMA NormalTyped ==
  ASSUME NEW o, NEW value \in Values
  PROVE  /\ Normal(o, value) \in Values
         /\ o = "reclaimer_level" /\ ~Refuses(o, value) => Number(Normal(o, value)) \in Levels
<1>0. {"0", "true", "false"} \subseteq Values
  BY WordsAssumption DEF Values
<1>1. CASE o \in Logs
  <2>1. Normal(o, value) = IF value = "true" THEN "true" ELSE "false"
    <3>1. o # "reclaimer_level"
      BY <1>1 DEF Logs
    <3> QED  BY <1>1, <3>1 DEF Normal
  <2> QED  BY <1>0, <1>1, <2>1 DEF Logs
<1>2. CASE o = "reclaimer_level"
  <2>1. Normal(o, value) = IF Number(value) = 0 THEN "0" ELSE value
    BY <1>2 DEF Normal, Logs
  <2>2. Number("0") = 0
    BY DEF Number
  <2>3. ~Refuses(o, value) => Number(value) \in Levels
    BY <1>2 DEF Refuses
  <2> QED  BY <1>0, <1>2, <2>1, <2>2, <2>3 DEF Levels
<1>3. CASE o \notin Logs /\ o # "reclaimer_level"
  BY <1>3 DEF Normal
<1> QED  BY <1>1, <1>2, <1>3

LEMMA LatestTyped ==
  ASSUME NEW entries \in Seq(Entries), NEW k \in 0..Len(entries), NEW K, NEW v, Typed(v)
  PROVE  /\ Typed(LatestOf(entries, k, K, v))
         /\ \A o \in Options \ K : LatestOf(entries, k, K, v)[o] = v[o]
<1>1. ASSUME NEW o \in Options, Setters(entries, k, o, K) # {}
      PROVE  \E i \in 1..Len(entries) : /\ Sets(entries[i], o) /\ entries[i] \in Entries /\ o \in K
                                        /\ Latest(entries, k, o, K, v[o]) = Normal(o, entries[i].value)
  <2> DEFINE T == Setters(entries, k, o, K)
  <2>1. k \in Nat /\ T \in SUBSET (0..k)
    BY LenProperties DEF Setters
  <2>2. T # {}
    BY <1>1
  <2> HIDE DEF T
  <2>3. Max(T) \in T
    BY <2>1, <2>2, MaxInSet
  <2>4. Max(T) \in 1..Len(entries) /\ Sets(entries[Max(T)], o) /\ o \in K
    BY <2>3, LenProperties DEF T, Setters
  <2>5. entries[Max(T)] \in Entries
    BY <2>4, ElementOfSeq
  <2>6. Latest(entries, k, o, K, v[o]) = Normal(o, entries[Max(T)].value)
    BY <2>2 DEF Latest, T
  <2> QED  BY <2>4, <2>5, <2>6
<1>2. ASSUME NEW o \in Options
      PROVE  /\ Latest(entries, k, o, K, v[o]) \in Values
             /\ o = "reclaimer_level" => Number(Latest(entries, k, o, K, v[o])) \in Levels
             /\ o \notin K => Latest(entries, k, o, K, v[o]) = v[o]
  <2>1. CASE Setters(entries, k, o, K) = {}
    BY <2>1 DEF Typed, Latest
  <2>2. CASE Setters(entries, k, o, K) # {}
    <3>1. PICK i \in 1..Len(entries) :
             /\ Sets(entries[i], o) /\ entries[i] \in Entries /\ o \in K
             /\ Latest(entries, k, o, K, v[o]) = Normal(o, entries[i].value)
      BY <1>1, <2>2
    <3>2. entries[i].value \in Values /\ ~Refuses(o, entries[i].value)
      BY <3>1 DEF Entries, Sets
    <3> QED  BY <3>1, <3>2, NormalTyped
  <2> QED  BY <2>1, <2>2
<1>3. "reclaimer_level" \in Options
  BY OptionsAre
<1> QED  BY <1>2, <1>3 DEF LatestOf, Typed
=============================================================================
