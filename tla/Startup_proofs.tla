--------------------------- MODULE Startup_proofs ---------------------------
(***************************************************************************)
(* Theorems about Startup, for any number of processes and wizards, any    *)
(* arguments, files and accounts, and every set of faults and refusals.    *)
(***************************************************************************)
EXTENDS Startup, TLAPS

-----------------------------------------------------------------------------
(* What a process has started, at each place of main.                      *)

PhaseOK == phase \in [Procs -> Phases]

WithMyfs == {"variables", "reclaimer", "fuse", "mounted", "done"}
WithReclaimer == {"fuse", "mounted", "done", "stop"}
WithSetup == {"ask account", "ask database", "ask consent", "write", "send", "clean"}

Held ==
    \A p \in Procs :
        /\ p \in reclaiming => phase[p] \in WithReclaimer
        /\ <<p, "myfs">> \in sessions => phase[p] \in WithMyfs
        /\ <<p, "reclaimer">> \in sessions => phase[p] \in WithReclaimer
        /\ <<p, "setup">> \in sessions => phase[p] \in WithSetup

LifeInv == PhaseOK /\ Held

(* The next places of a step of main, and of a step of the wizard          *)
LEMMA MainMoves ==
  ASSUME LifeInv, NEW p \in Procs, Main(p)
  PROVE  LifeInv'
<1> USE DEF LifeInv, PhaseOK, Held, At, Goto, Phases, Prompts,
            WithMyfs, WithReclaimer, WithSetup
<1>1. CASE ReadPriority(p)
  BY <1>1 DEF ReadPriority, Reads, Fails, unread
<1>2. CASE CreateReturns(p)
  BY <1>2 DEF CreateReturns, Fails, unread
<1>3. CASE ReadConfigFile(p)
  BY <1>3 DEF ReadConfigFile, Reads, Fails, unread
<1>4. CASE ReadRest(p)
  BY <1>4 DEF ReadRest, Reads, Fails, unread
<1>5. CASE Check(p)
  BY <1>5 DEF Check, Fails, unread
<1>6. CASE Confirm(p)
  BY <1>6 DEF Confirm, Fails, unread
<1>7. CASE Connect(p)
  BY <1>7 DEF Connect, Fails
<1>8. CASE AskPacketSize(p)
  BY <1>8 DEF AskPacketSize, Fails
<1>9. CASE StartReclaimer(p)
  BY <1>9 DEF StartReclaimer, Fails
<1>10. CASE FuseMain(p)
  BY <1>10 DEF FuseMain, Fails
<1>11. CASE Unmounted(p)
  BY <1>11 DEF Unmounted
<1>12. CASE Disconnect(p)
  BY <1>12 DEF Disconnect
<1>13. CASE StopReclaimer(p)
  BY <1>13 DEF StopReclaimer
<1> QED
  BY <1>1, <1>2, <1>3, <1>4, <1>5, <1>6, <1>7, <1>8, <1>9, <1>10, <1>11, <1>12,
     <1>13 DEF Main

LEMMA WizardMoves ==
  ASSUME LifeInv, NEW p \in Procs, Wizards(p)
  PROVE  LifeInv'
<1> USE DEF LifeInv, PhaseOK, Held, At, Goto, Phases, Prompts,
            WithMyfs, WithReclaimer, WithSetup
<1>0. UNCHANGED reclaiming
  BY DEF Wizards, own
<1>1. CASE Ask(p)
  BY <1>0, <1>1 DEF Ask, AskPath, AskMount, AskLogin, AskAccount, AskDatabase,
                    CannotAsk, AskConsent
<1>2. CASE Work(p)
  BY <1>0, <1>2 DEF Work, WriteConfig, Send, SendFails, AllSent, Cleanup
<1>3. CASE Reconnected(p)
  BY <1>0, <1>3 DEF Reconnected
<1> QED  BY <1>1, <1>2, <1>3 DEF Wizards, Wizard

LEMMA LifeInit == Init => LifeInv
  BY DEF Init, LifeInv, PhaseOK, Held, Phases

LEMMA LifeNext == LifeInv /\ [Next]_vars => LifeInv'
<1>1. CASE UNCHANGED vars
  BY <1>1 DEF vars, own, LifeInv, PhaseOK, Held
<1> QED  BY <1>1, MainMoves, WizardMoves DEF Next

LEMMA LifeInvariant == Spec => []LifeInv
  BY LifeInit, LifeNext, PTL DEF Spec

(* Whichever way main comes to its end, no session and no thread is left.  *)
THEOREM NothingIsLeft == Spec => []LeavesNothingRunning
<1>1. LifeInv => LeavesNothingRunning
  BY DEF LifeInv, Held, LeavesNothingRunning, Purposes, WithMyfs, WithReclaimer, WithSetup
<1> QED  BY <1>1, LifeInvariant, PTL

-----------------------------------------------------------------------------
(* What a wizard has made, at each place of create_run.                    *)

Fields == {"path", "host", "new", "database", "sent", "configCreated",
           "databaseCreated", "using", "mode", "done"}

Shape(s) ==
    /\ s = [field \in Fields |-> s[field]]
    /\ s.path \in Paths /\ s.sent \in Nat
    /\ s.configCreated \in BOOLEAN /\ s.databaseCreated \in BOOLEAN
    /\ s.done \in BOOLEAN /\ s.new \in BOOLEAN

Forms ==
    /\ phase \in [Procs -> Phases]
    /\ setup = [p \in Procs |-> setup[p]]
    /\ \A p \in Procs : Shape(setup[p])
    /\ conf = [p \in Procs |-> conf[p]]
    /\ \A p \in Procs : /\ conf[p] = [path \in Paths |-> conf[p][path]]
                        /\ first[p] = [path \in Paths |-> first[p][path]]
    /\ databases = [name \in DbNames |-> databases[name]]
    /\ \A name \in DbNames :
         databases[name] # Absent => databases[name] \in [by : Procs, parts : SUBSET Parts]

Early == {"priority"} \cup Prompts \cup {"write"}
Late == {"clean", "over", "done", "stop", "down"}

(* The config file: nothing but the one the wizard has made differs from   *)
(* what was there.                                                         *)
FileMade(p) ==
    /\ phase[p] \in (Early \ {"priority", "ask path"}) \cup {"send", "clean"}
          => first[p][setup[p].path] = Absent
    /\ setup[p].done => phase[p] \in Late
    /\ IF setup[p].configCreated
       THEN /\ phase[p] \in {"send", "clean"} \/ setup[p].done
            /\ first[p][setup[p].path] = Absent
            /\ \A path \in Paths \ {setup[p].path} : conf[p][path] = first[p][path]
       ELSE conf[p] = first[p]

(* The database: it is the wizard's own from its CREATE DATABASE on.       *)
DatabaseMade(p) ==
    /\ phase[p] \in Early => setup[p].sent = 0 /\ ~setup[p].databaseCreated
    /\ phase[p] \in {"ask consent", "write", "send"} => setup[p].database \in DbNames
    /\ phase[p] = "send" /\ setup[p].sent # 0 => setup[p].databaseCreated
    /\ setup[p].databaseCreated =>
          /\ setup[p].database \in DbNames
          /\ databases[setup[p].database] # Absent
          /\ databases[setup[p].database].by = p

MadeInv == Forms /\ \A p \in Procs : FileMade(p) /\ DatabaseMade(p)

LEMMA FirstStatement == \A new \in BOOLEAN : Statements(new)[1] = "database"
  BY DEF Statements

LEMMA MadeInit == Init => MadeInv
<1> SUFFICES ASSUME Init PROVE MadeInv
  OBVIOUS
<1>1. \A p \in Procs : Shape(setup[p])
  BY NamesAssumption DEF Init, NewSetup, Shape, Fields
<1>2. Forms
  BY <1>1 DEF Init, Forms, Phases
<1>3. \A p \in Procs : FileMade(p) /\ DatabaseMade(p)
  BY DEF Init, NewSetup, FileMade, DatabaseMade, Early, Late, Prompts
<1> QED  BY <1>2, <1>3 DEF MadeInv

(* A step of process p that leaves alone what the others have made *)
LeavesOthers(p) ==
    /\ first' = first
    /\ \A q \in Procs \ {p} : /\ phase'[q] = phase[q] /\ setup'[q] = setup[q]
                              /\ conf'[q] = conf[q]
    /\ \A name \in DbNames : databases[name] # Absent /\ databases[name].by # p
                               => /\ databases'[name] # Absent
                                  /\ databases'[name].by = databases[name].by

LEMMA OthersKept ==
  ASSUME MadeInv, NEW p \in Procs, LeavesOthers(p)
  PROVE  \A q \in Procs \ {p} : FileMade(q)' /\ DatabaseMade(q)'
<1> TAKE q \in Procs \ {p}
<1>1. /\ phase'[q] = phase[q] /\ setup'[q] = setup[q] /\ conf'[q] = conf[q]
      /\ first' = first
  BY DEF LeavesOthers
<1>2. FileMade(q) /\ DatabaseMade(q)
  BY DEF MadeInv
<1>3. FileMade(q)'
  <2> HIDE DEF LeavesOthers, MadeInv
  <2> QED  BY <1>1, <1>2 DEF FileMade
<1>4. DatabaseMade(q)'
  <2>1. setup[q].databaseCreated =>
           /\ databases'[setup[q].database] # Absent
           /\ databases'[setup[q].database].by = q
    BY <1>2 DEF DatabaseMade, LeavesOthers
  <2> QED  BY <1>1, <1>2, <2>1 DEF DatabaseMade
<1> QED  BY <1>3, <1>4

(* A step of main that does not begin with the wizard *)
LEMMA MainKeeps ==
  ASSUME MadeInv, NEW p \in Procs, NEW next \in Phases, phase' = [phase EXCEPT ![p] = next],
         UNCHANGED <<setup, conf, databases, first>>,
         phase[p] \in Phases \ (Prompts \cup {"write", "send", "clean"}),
         next \in Phases \ (Early \cup {"send", "clean"}),
         phase[p] \in Late => next \in Late
  PROVE  MadeInv'
<1>1. Forms'
  BY DEF MadeInv, Forms, Shape
<1>2. phase'[p] = next
  BY DEF MadeInv, Forms
<1>3. FileMade(p)'
  BY <1>2 DEF MadeInv, FileMade
<1>4. DatabaseMade(p)'
  BY <1>2 DEF MadeInv, DatabaseMade, Early, Prompts
<1>5. \A q \in Procs \ {p} : FileMade(q)' /\ DatabaseMade(q)'
  <2>1. LeavesOthers(p)
    BY DEF LeavesOthers, MadeInv, Forms
  <2> QED  BY <2>1, OthersKept
<1> QED  BY <1>1, <1>5, <1>3, <1>4 DEF MadeInv

LEMMA MainMade ==
  ASSUME MadeInv, NEW p \in Procs, Main(p)
  PROVE  MadeInv'
<1> USE DEF At, Goto
<1>1. CASE ReadPriority(p)
  <2>1. CASE phase' = [phase EXCEPT ![p] = "ask path"] /\ setup' = [setup EXCEPT ![p] = NewSetup(p)]
    <3>1. /\ phase'[p] = "ask path" /\ Shape(setup'[p])
          /\ setup'[p].sent = 0 /\ setup'[p].done = FALSE
          /\ setup'[p].configCreated = FALSE /\ setup'[p].databaseCreated = FALSE
          /\ phase[p] = "priority" /\ UNCHANGED <<conf, databases, first>>
      BY <1>1, <2>1, NamesAssumption
      DEF ReadPriority, MadeInv, Forms, NewSetup, Shape, Fields, unread, world, server
    <3>2. LeavesOthers(p)
      BY <2>1, <3>1 DEF LeavesOthers, MadeInv, Forms
    <3>3. Forms'
      BY <2>1, <3>1 DEF MadeInv, Forms, Phases, Prompts
    <3>4. FileMade(p)' /\ DatabaseMade(p)'
      BY <3>1 DEF MadeInv, FileMade, DatabaseMade, Early, Late, Prompts
    <3> QED  BY <3>3, <3>4, <3>2, OthersKept DEF MadeInv
  <2>2. CASE phase' # [phase EXCEPT ![p] = "ask path"] \/ setup' # [setup EXCEPT ![p] = NewSetup(p)]
    BY <1>1, <2>2, MainKeeps DEF ReadPriority, Reads, Fails,
       unread, world, server, Phases, Prompts, Early, Late
  <2> QED  BY <2>1, <2>2
<1>2. CASE CreateReturns(p) \/ ReadConfigFile(p) \/ ReadRest(p) \/ Check(p) \/ Confirm(p)
  BY <1>2, MainKeeps DEF CreateReturns, ReadConfigFile, ReadRest, Check, Confirm, Reads, Fails,
     unread, world, server, Phases, Prompts, Early, Late
<1>3. CASE Connect(p) \/ AskPacketSize(p) \/ StartReclaimer(p) \/ FuseMain(p) \/ Unmounted(p)
  BY <1>3, MainKeeps DEF Connect, AskPacketSize, StartReclaimer, FuseMain, Unmounted, Fails,
     untouched, world, server, Phases, Prompts, Early, Late
<1>4. CASE Disconnect(p) \/ StopReclaimer(p)
  BY <1>4, MainKeeps DEF Disconnect, StopReclaimer, untouched, world, server, Phases, Prompts, Early, Late
<1> QED  BY <1>1, <1>2, <1>3, <1>4 DEF Main

LEMMA Composes ==
  ASSUME MadeInv, NEW p \in Procs, LeavesOthers(p), Forms', FileMade(p)', DatabaseMade(p)'
  PROVE  MadeInv'
<1>1. \A q \in Procs \ {p} : FileMade(q)' /\ DatabaseMade(q)'
  BY OthersKept
<1> QED  BY <1>1 DEF MadeInv

(* The prompts: only what p is told changes. *)
LEMMA AskMade ==
  ASSUME MadeInv, NEW p \in Procs, Ask(p), UNCHANGED own
  PROVE  MadeInv'
<1> USE DEF At, Goto
<1>0. UNCHANGED <<conf, databases, first>>
  BY DEF Ask, AskPath, AskMount, AskLogin, AskAccount, AskDatabase, CannotAsk, AskConsent,
         world, server, own
<1>1. /\ phase[p] \in Prompts /\ \E next \in Phases : phase' = [phase EXCEPT ![p] = next]
      /\ \/ phase[p] = "ask path" /\ phase'[p] = "ask mount"
         \/ phase[p] # "ask path" /\ phase'[p] \in (Prompts \ {"ask path"}) \cup {"write", "clean"}
      /\ phase'[p] \in {"ask consent", "write"}
            => phase[p] \in {"ask database", "ask consent"}
  BY DEF Ask, AskPath, AskMount, AskLogin, AskAccount, AskDatabase, CannotAsk, AskConsent,
         Phases, Prompts, MadeInv, Forms
<1>2. /\ setup' = [setup EXCEPT ![p] = setup'[p]]
      /\ Shape(setup'[p]) /\ setup'[p].sent = setup[p].sent
      /\ setup'[p].done = setup[p].done
      /\ setup'[p].configCreated = setup[p].configCreated
      /\ setup'[p].databaseCreated = setup[p].databaseCreated
      /\ phase[p] # "ask path" => setup'[p].path = setup[p].path
      /\ phase[p] = "ask path" => conf[p][setup'[p].path] = Absent
      /\ phase[p] = "ask consent" => setup'[p].database = setup[p].database
      /\ phase[p] = "ask database" /\ phase'[p] # "clean" => setup'[p].database \in DbNames
  <2>0. /\ Shape(setup[p]) /\ setup = [q \in Procs |-> setup[q]]
        /\ phase \in [Procs -> Phases]
    BY DEF MadeInv, Forms
  <2>1. CASE AskPath(p)
    <3>1. PICK path \in Paths : conf[p][path] = Absent
                             /\ setup' = [setup EXCEPT ![p].path = path]
      BY <2>1 DEF AskPath
    <3>2. setup'[p] = [setup[p] EXCEPT !.path = path] /\ setup' = [setup EXCEPT ![p] = setup'[p]]
      BY <2>0, <3>1
    <3>3. /\ Shape(setup'[p]) /\ setup'[p].path = path
          /\ setup'[p].sent = setup[p].sent /\ setup'[p].done = setup[p].done
          /\ setup'[p].configCreated = setup[p].configCreated
          /\ setup'[p].databaseCreated = setup[p].databaseCreated
      BY <2>0, <3>2 DEF Shape, Fields
    <3> QED BY <2>1, <3>1, <3>2, <3>3 DEF AskPath
  <2>2. CASE AskMount(p) \/ AskLogin(p) \/ CannotAsk(p)
    BY <2>0, <2>2 DEF AskMount, AskLogin, CannotAsk
  <2>3. CASE AskAccount(p)
    <3>1. PICK host \in Hosts, new \in BOOLEAN :
                setup' = [setup EXCEPT ![p].host = host, ![p].new = new]
      BY <2>3 DEF AskAccount
    <3>2. /\ setup'[p] = [setup[p] EXCEPT !.host = host, !.new = new]
          /\ setup' = [setup EXCEPT ![p] = setup'[p]]
      BY <2>0, <3>1
    <3>3. /\ Shape(setup'[p]) /\ setup'[p].path = setup[p].path
          /\ setup'[p].sent = setup[p].sent /\ setup'[p].done = setup[p].done
          /\ setup'[p].configCreated = setup[p].configCreated
          /\ setup'[p].databaseCreated = setup[p].databaseCreated
      BY <2>0, <3>2 DEF Shape, Fields
    <3> QED BY <2>3, <3>2, <3>3 DEF AskAccount
  <2>4. CASE AskDatabase(p)
    <3>1. PICK name \in DbNames : setup' = [setup EXCEPT ![p].database = name]
      BY <2>4 DEF AskDatabase
    <3>2. setup'[p] = [setup[p] EXCEPT !.database = name] /\ setup' = [setup EXCEPT ![p] = setup'[p]]
      BY <2>0, <3>1
    <3>3. /\ Shape(setup'[p]) /\ setup'[p].path = setup[p].path /\ setup'[p].database = name
          /\ setup'[p].sent = setup[p].sent /\ setup'[p].done = setup[p].done
          /\ setup'[p].configCreated = setup[p].configCreated
          /\ setup'[p].databaseCreated = setup[p].databaseCreated
      BY <2>0, <3>2 DEF Shape, Fields
    <3> QED BY <2>4, <3>2, <3>3 DEF AskDatabase
  <2>5. CASE AskConsent(p)
    <3>1. setup' = setup
      BY <2>5 DEF AskConsent
    <3> QED BY <2>0, <2>5, <3>1 DEF AskConsent
  <2> QED  BY <2>1, <2>2, <2>3, <2>4, <2>5 DEF Ask
<1>3. LeavesOthers(p)
  BY <1>0, <1>1, <1>2 DEF LeavesOthers, MadeInv, Forms
<1>4. Forms'
  <2>1. phase' \in [Procs -> Phases]
    BY <1>1 DEF MadeInv, Forms
  <2>2. setup' = [q \in Procs |-> setup'[q]] /\ \A q \in Procs : Shape(setup'[q])
    BY <1>2 DEF MadeInv, Forms
  <2> QED  BY <1>0, <2>1, <2>2 DEF MadeInv, Forms
<1>5. FileMade(p)'
  BY <1>0, <1>1, <1>2 DEF MadeInv, FileMade, Early, Late, Prompts
<1>6. DatabaseMade(p)'
  BY <1>0, <1>1, <1>2 DEF MadeInv, DatabaseMade, Early, Prompts
<1> QED  BY <1>3, <1>4, <1>5, <1>6, Composes

(* The config file is written. *)
LEMMA WriteMade ==
  ASSUME MadeInv, NEW p \in Procs, WriteConfig(p), UNCHANGED own
  PROVE  MadeInv'
<1> USE DEF At, Goto
<1>0. /\ Shape(setup[p]) /\ setup = [q \in Procs |-> setup[q]]
      /\ phase \in [Procs -> Phases] /\ phase[p] = "write"
      /\ conf = [q \in Procs |-> conf[q]]
      /\ conf[p] = [path \in Paths |-> conf[p][path]]
      /\ ~setup[p].configCreated /\ ~setup[p].done /\ conf[p] = first[p]
      /\ UNCHANGED <<databases, first>>
  BY DEF WriteConfig, MadeInv, Forms, FileMade, Late, own, server
<1>1. CASE phase' = [phase EXCEPT ![p] = "clean"] /\ UNCHANGED <<conf, setup>>
  <2>1. LeavesOthers(p)
    BY <1>0, <1>1 DEF LeavesOthers
  <2>2. Forms'
    BY <1>0, <1>1 DEF MadeInv, Forms, Phases
  <2>3. FileMade(p)' /\ DatabaseMade(p)'
    BY <1>0, <1>1 DEF MadeInv, FileMade, DatabaseMade, Early, Late, Prompts
  <2> QED  BY <2>1, <2>2, <2>3, Composes
<1>2. CASE /\ phase' = [phase EXCEPT ![p] = "send"]
           /\ setup' = [setup EXCEPT ![p].configCreated = TRUE]
           /\ conf' = [conf EXCEPT ![p][setup[p].path] = [by |-> "wizard", lines |-> FileOf(p)]]
  <2>1. setup'[p] = [setup[p] EXCEPT !.configCreated = TRUE] /\ setup' = [setup EXCEPT ![p] = setup'[p]]
    BY <1>0, <1>2
  <2>2. /\ Shape(setup'[p]) /\ setup'[p].path = setup[p].path
        /\ setup'[p].database = setup[p].database
        /\ setup'[p].sent = setup[p].sent /\ setup'[p].done = setup[p].done
        /\ setup'[p].configCreated = TRUE
        /\ setup'[p].databaseCreated = setup[p].databaseCreated
    BY <1>0, <2>1 DEF Shape, Fields
  <2>3. /\ conf' = [conf EXCEPT ![p] = conf'[p]]
        /\ conf'[p] = [path \in Paths |-> conf'[p][path]]
        /\ \A path \in Paths \ {setup[p].path} : conf'[p][path] = conf[p][path]
    BY <1>0, <1>2
  <2>4. LeavesOthers(p)
    BY <1>0, <1>2, <2>1, <2>3 DEF LeavesOthers
  <2>5. Forms'
    BY <1>0, <1>2, <2>1, <2>2, <2>3 DEF MadeInv, Forms, Phases
  <2>6. FileMade(p)'
    BY <1>0, <1>2, <2>2, <2>3 DEF MadeInv, FileMade, Early, Late, Prompts
  <2>7. DatabaseMade(p)'
    BY <1>0, <1>2, <2>2 DEF MadeInv, DatabaseMade, Early, Prompts
  <2> QED  BY <2>4, <2>5, <2>6, <2>7, Composes
<1> QED  BY <1>1, <1>2 DEF WriteConfig

(* Nothing but `using' and `mode' is lost with a connection; nothing but   *)
(* `done' is gained at the end.                                            *)
LEMMA ReconnectMade ==
  ASSUME MadeInv, NEW p \in Procs, Reconnected(p) \/ AllSent(p), UNCHANGED own
  PROVE  MadeInv'
<1> USE DEF At, Goto
<1>0. /\ Shape(setup[p]) /\ setup = [q \in Procs |-> setup[q]]
      /\ phase \in [Procs -> Phases] /\ phase[p] = "send" /\ phase'[p] \in {"send", "clean"}
      /\ setup[p].done = FALSE
      /\ phase' = [phase EXCEPT ![p] = phase'[p]]
      /\ UNCHANGED <<databases, first, conf>>
  <2>1. /\ Shape(setup[p]) /\ setup = [q \in Procs |-> setup[q]]
        /\ phase \in [Procs -> Phases] /\ setup[p].done \in BOOLEAN
        /\ setup[p].done => phase[p] \in Late
    BY DEF MadeInv, Forms, FileMade, Shape
  <2>2. /\ phase[p] = "send"
        /\ phase' = phase \/ phase' = [phase EXCEPT ![p] = "clean"]
        /\ UNCHANGED <<databases, first, conf>>
    BY DEF Reconnected, AllSent, own, world, server
  <2> QED  BY <2>1, <2>2 DEF Late
<1>1. /\ setup' = [setup EXCEPT ![p] = setup'[p]]
      /\ Shape(setup'[p]) /\ setup'[p].path = setup[p].path
      /\ setup'[p].database = setup[p].database /\ setup'[p].sent = setup[p].sent
      /\ setup'[p].done = (phase'[p] = "clean")
      /\ setup'[p].configCreated = setup[p].configCreated
      /\ setup'[p].databaseCreated = setup[p].databaseCreated
  <2>1. CASE Reconnected(p)
    <3>1. PICK using : setup' = [setup EXCEPT ![p].mode = FALSE, ![p].using = using]
      BY <2>1 DEF Reconnected
    <3>2. /\ setup'[p] = [setup[p] EXCEPT !.mode = FALSE, !.using = using]
          /\ setup' = [setup EXCEPT ![p] = setup'[p]]
      BY <1>0, <3>1
    <3> QED  BY <1>0, <2>1, <3>2 DEF Reconnected, Shape, Fields
  <2>2. CASE AllSent(p)
    <3>1. setup'[p] = [setup[p] EXCEPT !.done = TRUE] /\ setup' = [setup EXCEPT ![p] = setup'[p]]
      BY <1>0, <2>2 DEF AllSent
    <3> QED  BY <1>0, <2>2, <3>1 DEF AllSent, Shape, Fields
  <2> QED  BY <2>1, <2>2
<1>2. LeavesOthers(p)
  BY <1>0, <1>1 DEF LeavesOthers
<1>3. Forms'
  <2>1. phase' \in [Procs -> Phases]
    BY <1>0 DEF Phases
  <2>2. setup' = [q \in Procs |-> setup'[q]] /\ \A q \in Procs : Shape(setup'[q])
    BY <1>0, <1>1 DEF MadeInv, Forms
  <2> QED  BY <1>0, <2>1, <2>2 DEF MadeInv, Forms
<1>4. FileMade(p)'
  BY <1>0, <1>1 DEF MadeInv, FileMade, Early, Late, Prompts
<1>5. DatabaseMade(p)'
  BY <1>0, <1>1 DEF MadeInv, DatabaseMade, Early, Prompts
<1> QED  BY <1>2, <1>3, <1>4, <1>5, Composes

(* What a statement does that the server takes *)
LEMMA TakesKeeps ==
  ASSUME MadeInv, NEW p \in Procs, phase[p] = "send", NEW st, st = Current(p),
         Accepts(p, st), Takes(p, st)
  PROVE  /\ databases' = [name \in DbNames |-> databases'[name]]
         /\ \A name \in DbNames :
              /\ databases'[name] # Absent => databases'[name] \in [by : Procs, parts : SUBSET Parts]
              /\ databases[name] # Absent =>
                    databases'[name] # Absent /\ databases'[name].by = databases[name].by
              /\ databases[name] # Absent /\ databases[name].by # p =>
                    databases'[name] = databases[name]
         /\ st = "database" =>
              /\ databases'[setup[p].database] # Absent
              /\ databases'[setup[p].database].by = p
<1> DEFINE db == setup[p].database
<1>0. /\ Shape(setup[p]) /\ db \in DbNames
      /\ databases = [name \in DbNames |-> databases[name]]
      /\ \A name \in DbNames :
           databases[name] # Absent => databases[name] \in [by : Procs, parts : SUBSET Parts]
  BY DEF MadeInv, Forms, DatabaseMade
<1>1. setup[p].sent = 0 => st = "database"
  BY <1>0, FirstStatement DEF Current, Shape
<1>2. CASE st = "database"
  <2>0. databases[db] = Absent
    BY <1>2 DEF Accepts
  <2>1. databases' = [databases EXCEPT ![db] = [by |-> p, parts |-> {}]]
    BY <1>2 DEF Takes, Parts
  <2>2. /\ [by |-> p, parts |-> {}] # Absent
        /\ [by |-> p, parts |-> {}] \in [by : Procs, parts : SUBSET Parts]
    BY AbsentAssumption
  <2>3. databases'[db] = [by |-> p, parts |-> {}]
    BY <1>0, <2>1
  <2>4. \A name \in DbNames \ {db} : databases'[name] = databases[name]
    BY <1>0, <2>1
  <2>5. databases' = [name \in DbNames |-> databases'[name]]
    BY <1>0, <2>1
  <2> HIDE DEF db
  <2>6. databases'[db].by = p
    BY <2>3
  <2>7. ASSUME NEW name \in DbNames
        PROVE  /\ databases'[name] # Absent =>
                    databases'[name] \in [by : Procs, parts : SUBSET Parts]
               /\ databases[name] # Absent => databases'[name] = databases[name]
    BY <1>0, <2>0, <2>2, <2>3, <2>4
  <2> QED  BY <2>2, <2>3, <2>5, <2>6, <2>7 DEF db
<1>3. CASE st # "database" /\ st \in Parts
  <2>1. databases' = [databases EXCEPT ![db].parts = @ \cup {st}]
    BY <1>3 DEF Takes
  <2>2. /\ setup[p].databaseCreated
        /\ databases[db] # Absent /\ databases[db].by = p
        /\ databases[db] \in [by : Procs, parts : SUBSET Parts]
    BY <1>0, <1>1, <1>3 DEF MadeInv, DatabaseMade
  <2>3. PICK parts \in SUBSET Parts : databases[db] = [by |-> p, parts |-> parts]
    <3>1. PICK r \in [by : Procs, parts : SUBSET Parts] : r = databases[db]
      BY <2>2
    <3>2. r = [by |-> p, parts |-> r.parts] /\ r.parts \in SUBSET Parts
      BY <2>2, <3>1
    <3> QED  BY <3>1, <3>2
  <2>4. databases'[db] = [by |-> p, parts |-> parts \cup {st}]
    <3>1. databases'[db] = [databases[db] EXCEPT !.parts = @ \cup {st}]
      BY <1>0, <2>1
    <3> QED  BY <2>3, <3>1
  <2>5. parts \cup {st} \in SUBSET Parts
    BY <1>3
  <2>6. databases'[db] # Absent
    BY <2>4, <2>5, AbsentAssumption DEF Parts
  <2>7. \A name \in DbNames \ {db} : databases'[name] = databases[name]
    BY <1>0, <2>1
  <2>8. databases' = [name \in DbNames |-> databases'[name]]
    BY <1>0, <2>1
  <2>9. databases'[db] \in [by : Procs, parts : SUBSET Parts] /\ databases'[db].by = p
    BY <2>4, <2>5
  <2> HIDE DEF db
  <2> QED  BY <1>0, <1>3, <2>2, <2>6, <2>7, <2>8, <2>9
<1>4. CASE st # "database" /\ st \notin Parts
  <2>1. databases' = databases
    BY <1>4 DEF Takes
  <2> QED  BY <1>0, <1>4, <2>1
<1> QED  BY <1>2, <1>3, <1>4

(* A statement that succeeds *)
LEMMA SendMade ==
  ASSUME MadeInv, NEW p \in Procs, Send(p), UNCHANGED own
  PROVE  MadeInv'
<1> USE DEF At
<1> DEFINE st == Current(p)
<1>0. /\ Shape(setup[p]) /\ setup = [q \in Procs |-> setup[q]]
      /\ phase[p] = "send" /\ setup[p].database \in DbNames
      /\ setup[p].sent # 0 => setup[p].databaseCreated
      /\ UNCHANGED <<phase, first, conf>> /\ Accepts(p, st) /\ Takes(p, st)
  BY DEF Send, MadeInv, Forms, DatabaseMade, own
<1>1. setup[p].sent = 0 => st = "database"
  BY <1>0, FirstStatement DEF Current, Shape
<1>2. PICK using, mode :
        setup' = [setup EXCEPT ![p].sent = @ + 1,
                               ![p].databaseCreated = @ \/ st = "database",
                               ![p].using = using, ![p].mode = mode]
  BY DEF Send
<1> HIDE DEF st
<1>3. /\ setup'[p] = [setup[p] EXCEPT !.sent = @ + 1,
                                      !.databaseCreated = @ \/ st = "database",
                                      !.using = using, !.mode = mode]
      /\ setup' = [setup EXCEPT ![p] = setup'[p]]
  BY <1>0, <1>2
<1>4. /\ Shape(setup'[p]) /\ setup'[p].path = setup[p].path
      /\ setup'[p].database = setup[p].database /\ setup'[p].sent = setup[p].sent + 1
      /\ setup'[p].done = setup[p].done
      /\ setup'[p].configCreated = setup[p].configCreated
      /\ setup'[p].databaseCreated <=> setup[p].databaseCreated \/ st = "database"
  <2>1. (setup[p].databaseCreated \/ st = "database") \in BOOLEAN
    OBVIOUS
  <2>2. PICK made \in BOOLEAN : made = (setup[p].databaseCreated \/ st = "database")
    BY <2>1
  <2>3. setup'[p] = [setup[p] EXCEPT !.sent = @ + 1, !.databaseCreated = made,
                                    !.using = using, !.mode = mode]
    BY <1>3, <2>2
  <2>4. /\ Shape(setup'[p]) /\ setup'[p].path = setup[p].path
        /\ setup'[p].database = setup[p].database /\ setup'[p].sent = setup[p].sent + 1
        /\ setup'[p].done = setup[p].done
        /\ setup'[p].configCreated = setup[p].configCreated
        /\ setup'[p].databaseCreated = made
    <3>1. setup'[p] = [field \in Fields |-> setup'[p][field]]
      BY <1>0, <2>3 DEF Shape, Fields
    <3>2. /\ setup'[p].path = setup[p].path /\ setup'[p].new = setup[p].new
          /\ setup'[p].database = setup[p].database /\ setup'[p].done = setup[p].done
          /\ setup'[p].configCreated = setup[p].configCreated
      BY <1>0, <2>3 DEF Shape, Fields
    <3>3. setup'[p].sent = setup[p].sent + 1
      BY <1>0, <2>3 DEF Shape, Fields
    <3>4. setup'[p].databaseCreated = made
      BY <1>0, <2>3 DEF Shape, Fields
    <3> QED  BY <1>0, <3>1, <3>2, <3>3, <3>4 DEF Shape
  <2> QED  BY <2>2, <2>4
<1>5. /\ databases' = [name \in DbNames |-> databases'[name]]
      /\ \A name \in DbNames :
           /\ databases'[name] # Absent => databases'[name] \in [by : Procs, parts : SUBSET Parts]
           /\ databases[name] # Absent =>
                 databases'[name] # Absent /\ databases'[name].by = databases[name].by
      /\ st = "database" =>
           /\ databases'[setup[p].database] # Absent
           /\ databases'[setup[p].database].by = p
  BY <1>0, TakesKeeps DEF st
<1>6. LeavesOthers(p)
  BY <1>0, <1>3, <1>5 DEF LeavesOthers
<1>7. Forms'
  BY <1>0, <1>3, <1>4, <1>5 DEF MadeInv, Forms
<1>8. FileMade(p)'
  BY <1>0, <1>4 DEF MadeInv, FileMade
<1>9. DatabaseMade(p)'
  BY <1>0, <1>1, <1>4, <1>5 DEF MadeInv, DatabaseMade, Early, Prompts
<1> QED  BY <1>6, <1>7, <1>8, <1>9, Composes

(* One that fails, taken by the server or not *)
LEMMA SendFailsMade ==
  ASSUME MadeInv, NEW p \in Procs, SendFails(p), UNCHANGED own
  PROVE  MadeInv'
<1> USE DEF At, Goto
<1> DEFINE st == Current(p)
<1>0. /\ Shape(setup[p]) /\ setup = [q \in Procs |-> setup[q]]
      /\ phase \in [Procs -> Phases] /\ phase[p] = "send"
      /\ databases = [name \in DbNames |-> databases[name]]
      /\ \A name \in DbNames :
           databases[name] # Absent => databases[name] \in [by : Procs, parts : SUBSET Parts]
      /\ UNCHANGED <<first, conf>>
  BY DEF SendFails, MadeInv, Forms, own
<1>1. setup[p].sent = 0 => st = "database"
  BY <1>0, FirstStatement DEF Current, Shape
<1>2. (Accepts(p, st) /\ Takes(p, st)) \/ databases' = databases
  BY DEF SendFails, server
<1>3. \/ st = "flush" /\ setup' = [setup EXCEPT ![p].sent = @ + 1] /\ UNCHANGED phase
      \/ phase' = [phase EXCEPT ![p] = "clean"] /\ UNCHANGED setup
  BY DEF SendFails, Dispensable
<1> HIDE DEF st
<1>4. /\ databases' = [name \in DbNames |-> databases'[name]]
      /\ \A name \in DbNames :
           /\ databases'[name] # Absent => databases'[name] \in [by : Procs, parts : SUBSET Parts]
           /\ databases[name] # Absent =>
                 databases'[name] # Absent /\ databases'[name].by = databases[name].by
  <2>1. CASE databases' = databases
    BY <1>0, <2>1
  <2>2. CASE Accepts(p, st) /\ Takes(p, st)
    BY <1>0, <2>2, TakesKeeps DEF st
  <2> QED  BY <1>2, <2>1, <2>2
<1>5. CASE phase' = [phase EXCEPT ![p] = "clean"] /\ UNCHANGED setup
  <2>1. LeavesOthers(p)
    BY <1>0, <1>4, <1>5 DEF LeavesOthers
  <2>2. Forms'
    BY <1>0, <1>4, <1>5 DEF MadeInv, Forms, Phases
  <2>3. FileMade(p)'
    BY <1>0, <1>5 DEF MadeInv, FileMade, Late
  <2>4. DatabaseMade(p)'
    BY <1>0, <1>4, <1>5 DEF MadeInv, DatabaseMade, Early, Prompts
  <2> QED  BY <2>1, <2>2, <2>3, <2>4, Composes
<1>6. CASE st = "flush" /\ setup' = [setup EXCEPT ![p].sent = @ + 1] /\ UNCHANGED phase
  <2>1. setup'[p] = [setup[p] EXCEPT !.sent = @ + 1] /\ setup' = [setup EXCEPT ![p] = setup'[p]]
    BY <1>0, <1>6
  <2>2. /\ Shape(setup'[p]) /\ setup'[p].path = setup[p].path
        /\ setup'[p].database = setup[p].database /\ setup'[p].sent = setup[p].sent + 1
        /\ setup'[p].done = setup[p].done
        /\ setup'[p].configCreated = setup[p].configCreated
        /\ setup'[p].databaseCreated = setup[p].databaseCreated
    BY <1>0, <2>1 DEF Shape, Fields
  <2>3. LeavesOthers(p)
    BY <1>0, <1>4, <1>6, <2>1 DEF LeavesOthers
  <2>4. Forms'
    BY <1>0, <1>4, <1>6, <2>1, <2>2 DEF MadeInv, Forms
  <2>5. FileMade(p)'
    BY <1>0, <1>6, <2>2 DEF MadeInv, FileMade
  <2>6. DatabaseMade(p)'
    <3>1. setup[p].databaseCreated
      BY <1>0, <1>1, <1>6 DEF MadeInv, DatabaseMade
    <3>2. /\ setup[p].database \in DbNames
          /\ databases'[setup[p].database] # Absent
          /\ databases'[setup[p].database].by = p
      BY <1>4, <3>1 DEF MadeInv, DatabaseMade
    <3> QED  BY <1>0, <1>6, <2>2, <3>1, <3>2 DEF DatabaseMade, Early, Prompts
  <2> QED  BY <2>3, <2>4, <2>5, <2>6, Composes
<1> QED  BY <1>3, <1>5, <1>6

(* The cleanup *)
LEMMA CleanupMade ==
  ASSUME MadeInv, NEW p \in Procs, Cleanup(p), UNCHANGED own
  PROVE  MadeInv'
<1> USE DEF At, Goto
<1> DEFINE db == setup[p].database
<1>0. /\ Shape(setup[p]) /\ setup = [q \in Procs |-> setup[q]]
      /\ phase \in [Procs -> Phases] /\ phase[p] = "clean"
      /\ phase' = [phase EXCEPT ![p] = "over"]
      /\ conf = [q \in Procs |-> conf[q]]
      /\ conf[p] = [path \in Paths |-> conf[p][path]]
      /\ first[p] = [path \in Paths |-> first[p][path]]
      /\ databases = [name \in DbNames |-> databases[name]]
      /\ \A name \in DbNames :
           databases[name] # Absent => databases[name] \in [by : Procs, parts : SUBSET Parts]
      /\ UNCHANGED <<first>>
      /\ setup' = [setup EXCEPT ![p] = Released(p)]
  BY DEF Cleanup, MadeInv, Forms, own
<1>1. CASE setup[p].done
  <2>1. conf' = conf /\ databases' = databases
    BY <1>1 DEF Cleanup, Unlinked, Owed
  <2>2. /\ setup'[p] = [setup[p] EXCEPT !.using = FALSE, !.mode = FALSE]
        /\ setup' = [setup EXCEPT ![p] = setup'[p]]
    BY <1>0, <1>1 DEF Released
  <2>3. /\ Shape(setup'[p]) /\ setup'[p].path = setup[p].path
        /\ setup'[p].database = setup[p].database /\ setup'[p].sent = setup[p].sent
        /\ setup'[p].done = setup[p].done
        /\ setup'[p].configCreated = setup[p].configCreated
        /\ setup'[p].databaseCreated = setup[p].databaseCreated
    BY <1>0, <2>2 DEF Shape, Fields
  <2>4. LeavesOthers(p)
    BY <1>0, <2>1, <2>2 DEF LeavesOthers
  <2>5. Forms'
    BY <1>0, <2>1, <2>2, <2>3 DEF MadeInv, Forms, Phases
  <2>6. FileMade(p)'
    <3>1. FileMade(p) /\ phase'[p] = "over" /\ first' = first
      BY <1>0 DEF MadeInv
    <3>2. phase'[p] \in Late /\ phase'[p] \notin (Early \ {"priority", "ask path"}) \cup {"send", "clean"}
      BY <3>1 DEF Early, Late, Prompts
    <3> QED  BY <1>1, <2>1, <2>3, <3>1, <3>2 DEF FileMade
  <2>7. DatabaseMade(p)'
    BY <1>0, <2>1, <2>3 DEF MadeInv, DatabaseMade, Early, Prompts
  <2> QED  BY <2>4, <2>5, <2>6, <2>7, Composes
<1>2. CASE ~setup[p].done
  <2>1. /\ setup'[p] = NewSetup(p)
        /\ setup' = [setup EXCEPT ![p] = setup'[p]]
    BY <1>0, <1>2 DEF Released
  <2>2. /\ Shape(setup'[p]) /\ setup'[p].sent = 0 /\ setup'[p].done = FALSE
        /\ setup'[p].configCreated = FALSE /\ setup'[p].databaseCreated = FALSE
    <3>1. /\ Shape(NewSetup(p)) /\ NewSetup(p).sent = 0 /\ NewSetup(p).done = FALSE
          /\ NewSetup(p).configCreated = FALSE /\ NewSetup(p).databaseCreated = FALSE
      BY NamesAssumption DEF Shape, Fields, NewSetup
    <3> QED  BY <2>1, <3>1 DEF Shape, Fields
  <2>3. conf' = [conf EXCEPT ![p] = first[p]]
    <3>1. CASE setup[p].configCreated
      <4>1. conf' = [conf EXCEPT ![p] = [conf[p] EXCEPT ![setup[p].path] = Absent]]
        BY <1>2, <3>1 DEF Cleanup, Unlinked, Owed
      <4>2. /\ first[p][setup[p].path] = Absent
            /\ \A path \in Paths \ {setup[p].path} : conf[p][path] = first[p][path]
        BY <3>1 DEF MadeInv, FileMade
      <4>3. [conf[p] EXCEPT ![setup[p].path] = Absent] = first[p]
        BY <1>0, <4>2
      <4> QED  BY <4>1, <4>3
    <3>2. CASE ~setup[p].configCreated
      <4>1. conf' = conf /\ conf[p] = first[p]
        BY <1>2, <3>2 DEF Cleanup, Unlinked, Owed, MadeInv, FileMade
      <4> QED  BY <1>0, <4>1
    <3> QED  BY <3>1, <3>2
  <2>4. \/ databases' = databases
        \/ /\ setup[p].databaseCreated
           /\ databases' = [databases EXCEPT ![db] = Absent]
    BY <1>2 DEF Cleanup, Owed
  <2>5. setup[p].databaseCreated => db \in DbNames /\ databases[db].by = p
    BY DEF MadeInv, DatabaseMade
  <2> HIDE DEF db
  <2>6. /\ databases' = [name \in DbNames |-> databases'[name]]
        /\ \A name \in DbNames :
             /\ databases'[name] # Absent => databases'[name] = databases[name]
             /\ databases[name] # Absent /\ databases[name].by # p
                   => databases'[name] = databases[name]
    BY <1>0, <2>4, <2>5
  <2>7. LeavesOthers(p)
    BY <1>0, <2>1, <2>3, <2>6 DEF LeavesOthers
  <2>8. Forms'
    BY <1>0, <2>1, <2>2, <2>3, <2>6 DEF MadeInv, Forms, Phases
  <2>9. FileMade(p)'
    BY <1>0, <2>2, <2>3 DEF MadeInv, FileMade, Early, Late, Prompts
  <2>10. DatabaseMade(p)'
    BY <1>0, <2>2 DEF MadeInv, DatabaseMade, Early, Prompts
  <2> QED  BY <2>7, <2>8, <2>9, <2>10, Composes
<1> QED  BY <1>1, <1>2

LEMMA MadeNext == MadeInv /\ [Next]_vars => MadeInv'
<1> SUFFICES ASSUME MadeInv, [Next]_vars PROVE MadeInv'
  OBVIOUS
<1>1. ASSUME NEW p \in Procs, Main(p) PROVE MadeInv'
  BY <1>1, MainMade
<1>2. ASSUME NEW p \in Procs, Wizards(p) PROVE MadeInv'
  BY <1>2, AskMade, WriteMade, SendMade, SendFailsMade, ReconnectMade, CleanupMade
  DEF Wizards, Wizard, Work
<1>3. CASE UNCHANGED vars
  BY <1>3 DEF vars, own, MadeInv, Forms, FileMade, DatabaseMade
<1> QED  BY <1>1, <1>2, <1>3 DEF Next

LEMMA MadeInvariant == Spec => []MadeInv
  BY MadeInit, MadeNext, PTL DEF Spec

(* A wizard that fails, or is refused, leaves the config files of its host *)
(* as they were.                                                           *)
THEOREM FailureLeavesNoConfig == Spec => []FailedLeavesNoConfig
<1>1. MadeInv => FailedLeavesNoConfig
  BY DEF MadeInv, FileMade, FailedLeavesNoConfig
<1> QED  BY <1>1, MadeInvariant, PTL

(* A database is changed by the wizard it belongs to. *)
LEMMA Owners ==
  ASSUME MadeInv, NEW p \in Procs, Wizards(p), NEW name \in DbNames,
         databases[name] # Absent, databases'[name] # databases[name]
  PROVE  /\ databases[name].by = p
         /\ phase'[p] # phase[p] \/ setup'[p] # setup[p]
<1> USE DEF At, Goto
<1>0. /\ Shape(setup[p]) /\ setup = [q \in Procs |-> setup[q]]
      /\ phase \in [Procs -> Phases]
      /\ databases = [n \in DbNames |-> databases[n]]
  BY DEF MadeInv, Forms
<1>1. CASE Ask(p) \/ WriteConfig(p) \/ AllSent(p) \/ Reconnected(p)
  BY <1>1 DEF Ask, AskPath, AskMount, AskLogin, AskAccount, AskDatabase, CannotAsk, AskConsent,
              WriteConfig, AllSent, Reconnected, world, server
<1>2. ASSUME phase[p] = "send", Accepts(p, Current(p)), Takes(p, Current(p))
      PROVE  databases[name].by = p
  BY <1>2, TakesKeeps
<1>3. CASE Send(p)
  <2>1. databases[name].by = p
    BY <1>2, <1>3 DEF Send
  <2>2. PICK made, using, mode :
          setup' = [setup EXCEPT ![p].sent = @ + 1, ![p].databaseCreated = made,
                                 ![p].using = using, ![p].mode = mode]
    BY <1>3 DEF Send
  <2>3. setup'[p] = [setup[p] EXCEPT !.sent = @ + 1, !.databaseCreated = made,
                                    !.using = using, !.mode = mode]
    BY <1>0, <2>2
  <2>4. setup'[p].sent = setup[p].sent + 1 /\ setup[p].sent \in Nat
    BY <1>0, <2>3 DEF Shape, Fields
  <2> QED  BY <2>1, <2>4
<1>4. CASE SendFails(p)
  <2>1. databases[name].by = p
    BY <1>2, <1>4 DEF SendFails, server
  <2>2. CASE phase' = [phase EXCEPT ![p] = "clean"]
    BY <1>0, <1>4, <2>1, <2>2 DEF SendFails
  <2>3. CASE setup' = [setup EXCEPT ![p].sent = @ + 1]
    <3>1. setup'[p] = [setup[p] EXCEPT !.sent = @ + 1]
      BY <1>0, <2>3
    <3>2. setup'[p].sent = setup[p].sent + 1 /\ setup[p].sent \in Nat
      BY <1>0, <3>1 DEF Shape, Fields
    <3> QED  BY <2>1, <3>2
  <2> QED  BY <1>4, <2>2, <2>3 DEF SendFails
<1>5. CASE Cleanup(p)
  <2>1. /\ setup[p].databaseCreated
        /\ databases' = [databases EXCEPT ![setup[p].database] = Absent]
        /\ phase[p] = "clean" /\ phase' = [phase EXCEPT ![p] = "over"]
    BY <1>5 DEF Cleanup, Owed
  <2>2. name = setup[p].database
    BY <1>0, <2>1
  <2> QED  BY <1>0, <2>1, <2>2 DEF MadeInv, DatabaseMade
<1> QED  BY <1>1, <1>3, <1>4, <1>5 DEF Wizards, Wizard, Work

(* No process touches a database that another one created, nor a config    *)
(* file that it found.                                                     *)
THEOREM OthersAreSafe == Spec => OthersStay
<1>1. ASSUME MadeInv, MadeInv', [Next]_vars, NEW p \in Procs, NEW path \in Paths,
             first[p][path] # Absent
      PROVE  conf'[p][path] = first[p][path]
  <2>1. first' = first
    BY <1>1 DEF Next, vars, own, Wizards, Main, ReadPriority, CreateReturns, ReadConfigFile,
       ReadRest, Check, Confirm, Connect, AskPacketSize, StartReclaimer, FuseMain, Unmounted,
       Disconnect, StopReclaimer, unread, untouched
  <2> QED  BY <1>1, <2>1 DEF MadeInv, FileMade
<1>2. ASSUME MadeInv, [Next]_vars, NEW name \in DbNames,
             databases[name] # Absent, databases'[name] # databases[name]
      PROVE  LET p == databases[name].by
             IN  phase'[p] # phase[p] \/ setup'[p] # setup[p]
  <2>1. PICK p \in Procs : Wizards(p)
    BY <1>2 DEF Next, vars, Main, ReadPriority, CreateReturns, ReadConfigFile, ReadRest,
       Check, Confirm, Connect, AskPacketSize, StartReclaimer, FuseMain, Unmounted,
       Disconnect, StopReclaimer, unread, untouched, world, server
  <2> QED  BY <1>2, <2>1, Owners
<1>3. MadeInv /\ MadeInv' /\ [Next]_vars =>
        [/\ \A name \in DbNames :
               databases[name] # Absent /\ databases'[name] # databases[name]
                   => LET p == databases[name].by
                      IN  phase'[p] # phase[p] \/ setup'[p] # setup[p]
         /\ \A p \in Procs, path \in Paths :
               first[p][path] # Absent => conf'[p][path] = first[p][path]]_vars
  BY <1>1, <1>2
<1> QED  BY <1>3, MadeInvariant, PTL DEF Spec, OthersStay
=============================================================================
