---------------------------- MODULE Options_proofs ----------------------------
(***************************************************************************)
(* Theorems about the options of MyFS and about what its setup wizard      *)
(* leaves, for any arguments and any config file.                          *)
(*                                                                         *)
(* Options: main() reads the command line for the options that come first, *)
(* then the file, then the rest of the command line.  The invariant OptInv *)
(* says, for each place of main, from which lists they have been read so   *)
(* far.                                                                    *)
(*                                                                         *)
(* Wizard: SetInv says which of the statements it has sent the server has  *)
(* taken, and that what they made is still there.                          *)
(***************************************************************************)
EXTENDS Startup_proofs, Config_proofs

(* What the three readings make of the defaults *)
Read1(p) == LatestOf(args[p], Len(args[p]), Class(TRUE), Defaults)
Read2(p) == LatestOf(LinesOf(p).lines, Len(LinesOf(p).lines), InFile, Read1(p))
Read3(p) == LatestOf(args[p], Len(args[p]), Class(FALSE), Read2(p))

FileRead(p) == LinesOf(p) # Absent

Files == [by : {"owner", "wizard"}, lines : Seq(Entries)]

Checked == {"confirm", "connect", "variables", "reclaimer", "fuse", "mounted"}
InWizard == Prompts \cup {"write", "send", "clean", "over"}

Opts(p) ==
  /\ Typed(values[p]) /\ args[p] \in Seq(Entries)
  /\ \A path \in Paths : conf[p][path] \in Files \cup {Absent}
  /\ phase[p] = "priority" => values[p] = Defaults
  /\ phase[p] \in InWizard => \A o \in InFile : values[p][o] = Defaults[o]
  /\ phase[p] = "file" => values[p] = Read1(p)
  /\ phase[p] = "rest" => FileRead(p) /\ values[p] = Read2(p)
  /\ phase[p] \in {"check"} \cup Checked => FileRead(p) /\ values[p] = Read3(p)

Lists ==
  /\ values = [p \in Procs |-> values[p]]
  /\ conf = [p \in Procs |-> conf[p]]
  /\ \A p \in Procs : conf[p] = [path \in Paths |-> conf[p][path]]

OptInv == LifeInv /\ Lists /\ \A p \in Procs : Opts(p)

-----------------------------------------------------------------------------
LEMMA ClassFalse == Class(FALSE) = InFile
BY DEF Class, InFile

LEMMA TypedList ==
  ASSUME NEW v, Typed(v)
  PROVE  IsList(v)
BY DEF Typed, IsList

LEMMA FirstRound ==
  ASSUME NEW words \in Seq(Entries), NEW v, Typed(v)
  PROVE  LET result == ReadCommandLine(words, TRUE, v)
         IN  /\ Typed(result.values)
             /\ \A o \in InFile : result.values[o] = v[o]
             /\ result.ok => result.values = LatestOf(words, Len(words), Class(TRUE), v)
<1> DEFINE result == ReadCommandLine(words, TRUE, v)  mode == "priority"
           priority == (mode = "priority")  K == Class(priority)
<1>1. mode \in {"priority", "rest"} /\ priority = TRUE /\ IsList(v)
  BY TypedList
<1>2. result = ReadCommandLine(words, mode = "priority", v)
  BY <1>1
<1> HIDE DEF mode, result
<1>3. /\ \E j \in 0..Len(words) : result.values = LatestOf(words, j, K, v)
      /\ result.ok => result.values = LatestOf(words, Len(words), K, v)
  BY <1>1, <1>2, LineIsRead
<1>4. K = Class(TRUE)
  BY <1>1
<1> HIDE DEF K
<1>5. PICK j \in 0..Len(words) : result.values = LatestOf(words, j, K, v)
  BY <1>3
<1>6. /\ Typed(result.values)
      /\ \A o \in Options \ K : result.values[o] = v[o]
  BY <1>5, LatestTyped
<1>7. \A o \in InFile : o \in Options \ K
  BY <1>4 DEF InFile, Class
<1> QED  BY <1>3, <1>4, <1>6, <1>7 DEF result

LEMMA SecondRound ==
  ASSUME NEW words \in Seq(Entries), NEW v, Typed(v)
  PROVE  LET result == ReadCommandLine(words, FALSE, v)
         IN  /\ Typed(result.values)
             /\ \A o \in Priorities \cap Options : result.values[o] = v[o]
             /\ result.ok => result.values = LatestOf(words, Len(words), Class(FALSE), v)
<1> DEFINE result == ReadCommandLine(words, FALSE, v)  mode == "rest"
           priority == (mode = "priority")  K == Class(priority)
<1>1. mode \in {"priority", "rest"} /\ priority = FALSE /\ IsList(v)
  BY TypedList
<1>2. result = ReadCommandLine(words, mode = "priority", v)
  BY <1>1
<1> HIDE DEF mode, result
<1>3. /\ \E j \in 0..Len(words) : result.values = LatestOf(words, j, K, v)
      /\ result.ok => result.values = LatestOf(words, Len(words), K, v)
  BY <1>1, <1>2, LineIsRead
<1>4. K = Class(FALSE)
  BY <1>1
<1> HIDE DEF K
<1>5. PICK j \in 0..Len(words) : result.values = LatestOf(words, j, K, v)
  BY <1>3
<1>6. /\ Typed(result.values)
      /\ \A o \in Options \ K : result.values[o] = v[o]
  BY <1>5, LatestTyped
<1>7. \A o \in Priorities \cap Options : o \in Options \ K
  BY <1>4 DEF Class
<1> QED  BY <1>3, <1>4, <1>6, <1>7 DEF result

LEMMA FileRound ==
  ASSUME NEW lines \in Seq(Entries), NEW v, Typed(v)
  PROVE  LET result == ReadFile(lines, v)
         IN  /\ Typed(result.values)
             /\ \A o \in Priorities \cap Options : result.values[o] = v[o]
             /\ result.values = LatestOf(lines, Len(lines), InFile, v)
<1> DEFINE result == ReadFile(lines, v)
<1>1. result.values = LatestOf(lines, Len(lines), InFile, v)
  BY TypedList, FileIsRead
<1> HIDE DEF result
<1>2. Len(lines) \in 0..Len(lines)
  BY LenProperties
<1>3. /\ Typed(result.values)
      /\ \A o \in Options \ InFile : result.values[o] = v[o]
  BY <1>1, <1>2, LatestTyped
<1> QED  BY <1>1, <1>3 DEF InFile, result

-----------------------------------------------------------------------------
LEMMA OptInit == Init => OptInv
<1> SUFFICES ASSUME Init PROVE OptInv
  OBVIOUS
<1>1. Lists
  BY DEF Init, Lists
<1>2. ASSUME NEW p \in Procs PROVE Opts(p)
  <2>1. PICK start \in Starts :
          /\ phase = [q \in Procs |-> IF q \in start.procs THEN "priority" ELSE "down"]
          /\ args = [q \in Procs |-> start.args]
          /\ conf = [q \in Procs |-> [path \in Paths |->
                       IF path = Defaults["config_file"] /\ start.lines # Absent
                       THEN [by |-> "owner", lines |-> start.lines] ELSE Absent]]
    BY DEF Init
  <2>2. values[p] = Defaults /\ sessions = {} /\ Typed(Defaults)
    BY DefaultsTyped DEF Init
  <2>3. args[p] \in Seq(Entries) /\ start.lines \in Seq(Entries) \cup {Absent}
    BY <2>1, StartsAssumption
  <2>4. \A path \in Paths : conf[p][path] \in Files \cup {Absent}
    BY <2>1, <2>3 DEF Files
  <2>5. phase[p] \in {"priority", "down"}
    BY <2>1
  <2>6. phase[p] \notin InWizard \cup {"check"} \cup Checked /\ phase[p] # "file" /\ phase[p] # "rest"
    BY <2>5 DEF InWizard, Prompts, Checked
  <2> QED  BY <2>2, <2>3, <2>4, <2>6 DEF Opts
<1> QED  BY <1>1, <1>2, LifeInit DEF OptInv

(* A step that leaves the options of q and what they were read from alone *)
LEMMA OptsStay ==
  ASSUME NEW q, Opts(q),
         values'[q] = values[q], args'[q] = args[q], conf'[q] = conf[q], phase'[q] = phase[q]
  PROVE  Opts(q)'
<1>1. LinesOf(q)' = LinesOf(q)
  BY DEF LinesOf
<1>2. /\ Read1(q)' = Read1(q) /\ Read2(q)' = Read2(q) /\ Read3(q)' = Read3(q)
      /\ FileRead(q)' = FileRead(q)
  BY <1>1 DEF Read1, Read2, Read3, FileRead
<1> QED  BY <1>2 DEF Opts

(* A step that does not read: a process that goes on has its options. *)
LEMMA OptsGoOn ==
  ASSUME NEW p, Opts(p), values'[p] = values[p], args'[p] = args[p], conf'[p] = conf[p],
         phase'[p] \notin {"priority", "file", "rest", "check"} \cup InWizard,
         phase'[p] \in Checked => phase[p] \in {"check"} \cup Checked
  PROVE  Opts(p)'
<1>1. LinesOf(p)' = LinesOf(p)
  BY DEF LinesOf
<1>2. /\ Read3(p)' = Read3(p) /\ FileRead(p)' = FileRead(p)
  BY <1>1 DEF Read1, Read2, Read3, FileRead
<1>3. (FileRead(p) /\ values[p] = Read3(p)) \/ phase'[p] \notin {"check"} \cup Checked
  BY DEF Opts
<1>4. Typed(values[p]) /\ args[p] \in Seq(Entries)
      /\ \A path \in Paths : conf[p][path] \in Files \cup {Absent}
  BY DEF Opts
<1> QED  BY <1>2, <1>3, <1>4 DEF Opts

(* What a step of main leaves alone *)
LEMMA MainLeaves ==
  ASSUME OptInv, NEW p \in Procs, Main(p)
  PROVE  /\ UNCHANGED <<args, conf>>
         /\ values' = [values EXCEPT ![p] = values'[p]]
         /\ phase' = [phase EXCEPT ![p] = phase'[p]]
<1> USE DEF At, Goto
<1>0. values = [q \in Procs |-> values[q]] /\ phase \in [Procs -> Phases]
  BY DEF OptInv, Lists, LifeInv, PhaseOK
<1>1. CASE ReadPriority(p) \/ ReadConfigFile(p) \/ ReadRest(p)
  BY <1>0, <1>1 DEF ReadPriority, ReadConfigFile, ReadRest, Reads, Fails, unread, world, server
<1>2. CASE CreateReturns(p) \/ Check(p) \/ Confirm(p)
  BY <1>0, <1>2 DEF CreateReturns, Check, Confirm, Fails, unread, world, server
<1>3. CASE Connect(p) \/ AskPacketSize(p) \/ StartReclaimer(p) \/ FuseMain(p) \/ Unmounted(p)
  BY <1>0, <1>3 DEF Connect, AskPacketSize, StartReclaimer, FuseMain, Unmounted, Fails,
     untouched, world, server
<1>4. CASE Disconnect(p) \/ StopReclaimer(p)
  BY <1>0, <1>4 DEF Disconnect, StopReclaimer, untouched, world, server
<1> QED  BY <1>1, <1>2, <1>3, <1>4 DEF Main

(* The three readings *)
LEMMA PriorityRead ==
  ASSUME OptInv, NEW p \in Procs, ReadPriority(p)
  PROVE  Opts(p)'
<1> DEFINE result == ReadCommandLine(args[p], TRUE, values[p])
<1>0. /\ phase[p] = "priority" /\ phase \in [Procs -> Phases] /\ Opts(p) /\ values[p] = Defaults
      /\ args[p] \in Seq(Entries) /\ Typed(values[p])
      /\ <<p, "myfs">> \notin sessions /\ sessions' = sessions
      /\ values = [q \in Procs |-> values[q]]
      /\ args' = args /\ conf' = conf
  BY DEF ReadPriority, At, OptInv, Lists, LifeInv, PhaseOK, Held, WithMyfs, Opts, unread, world, server
<1>1. /\ Typed(result.values)
      /\ \A o \in InFile : result.values[o] = Defaults[o]
      /\ result.ok => result.values = LatestOf(args[p], Len(args[p]), Class(TRUE), Defaults)
  BY <1>0, FirstRound
<1>2. \/ values' = [values EXCEPT ![p] = result.values] /\ phase' = [phase EXCEPT ![p] = "ask path"]
      \/ /\ values' = [values EXCEPT ![p] = result.values]
         /\ phase' = [phase EXCEPT ![p] = IF result.ok THEN "file" ELSE "done"]
  BY DEF ReadPriority, Reads, Fails, Goto
<1> HIDE DEF result
<1>3. values'[p] = result.values
  BY <1>0, <1>2
<1>4. phase'[p] \in {"ask path", "done"} \/ (phase'[p] = "file" /\ result.ok)
  BY <1>0, <1>2
<1>5. Read1(p)' = LatestOf(args[p], Len(args[p]), Class(TRUE), Defaults)
  BY <1>0 DEF Read1
<1> QED  BY <1>0, <1>1, <1>3, <1>4, <1>5 DEF Opts, InWizard, Prompts, Checked

LEMMA FileIsReadIn ==
  ASSUME OptInv, NEW p \in Procs, ReadConfigFile(p)
  PROVE  Opts(p)'
<1> DEFINE lines == LinesOf(p).lines
           result == ReadFile(lines, values[p])
<1>0. /\ phase[p] = "file" /\ phase \in [Procs -> Phases] /\ Opts(p) /\ values[p] = Read1(p)
      /\ args[p] \in Seq(Entries) /\ Typed(values[p])
      /\ <<p, "myfs">> \notin sessions /\ sessions' = sessions
      /\ values = [q \in Procs |-> values[q]]
      /\ args' = args /\ conf' = conf
  BY DEF ReadConfigFile, At, OptInv, Lists, LifeInv, PhaseOK, Held, WithMyfs, Opts, unread, world, server
<1>1. CASE LinesOf(p) = Absent
  <2>1. values' = values /\ phase' = [phase EXCEPT ![p] = "done"]
    BY <1>1 DEF ReadConfigFile, Fails, Goto
  <2>2. phase'[p] = "done"
    BY <1>0, <2>1
  <2>3. phase'[p] \notin {"priority", "file", "rest", "check"} \cup InWizard \cup Checked
    BY <2>2 DEF InWizard, Prompts, Checked
  <2> QED  BY <1>0, <2>1, <2>3, OptsGoOn
<1>2. CASE LinesOf(p) # Absent
  <2>1. LinesOf(p) \in Files
    BY <1>0, <1>2 DEF LinesOf, Opts
  <2>2. lines \in Seq(Entries)
    BY <2>1 DEF Files
  <2>3. /\ Typed(result.values)
        /\ \A o \in Priorities \cap Options : result.values[o] = values[p][o]
        /\ result.values = LatestOf(lines, Len(lines), InFile, values[p])
    BY <1>0, <2>2, FileRound
  <2>4. /\ values' = [values EXCEPT ![p] = result.values]
        /\ phase' = [phase EXCEPT ![p] = IF result.ok THEN "rest" ELSE "done"]
    BY <1>2 DEF ReadConfigFile, Reads, Fails, Goto
  <2> HIDE DEF result
  <2>5. values'[p] = result.values
    BY <1>0, <2>4
  <2>6. phase'[p] = "done" \/ (phase'[p] = "rest" /\ result.ok)
    BY <1>0, <2>4
  <2>7. "config_file" \in Priorities \cap Options
    BY OptionsAre DEF Priorities
  <2>8. LinesOf(p)' = LinesOf(p)
    BY <1>0, <2>3, <2>5, <2>7 DEF LinesOf
  <2>9. Read2(p)' = LatestOf(lines, Len(lines), InFile, values[p])
    BY <1>0, <2>8 DEF Read1, Read2
  <2>10. result.ok => FileRead(p)'
    BY <1>2, <2>8 DEF FileRead
  <2> HIDE DEF lines
  <2> QED  BY <1>0, <2>3, <2>5, <2>6, <2>9, <2>10 DEF Opts, InWizard, Prompts, Checked
<1> QED  BY <1>1, <1>2

LEMMA RestRead ==
  ASSUME OptInv, NEW p \in Procs, ReadRest(p)
  PROVE  Opts(p)'
<1> DEFINE result == ReadCommandLine(args[p], FALSE, values[p])
<1>0. /\ phase[p] = "rest" /\ phase \in [Procs -> Phases] /\ Opts(p) /\ values[p] = Read2(p)
      /\ args[p] \in Seq(Entries) /\ Typed(values[p]) /\ FileRead(p)
      /\ <<p, "myfs">> \notin sessions /\ sessions' = sessions
      /\ values = [q \in Procs |-> values[q]]
      /\ args' = args /\ conf' = conf
  BY DEF ReadRest, At, OptInv, Lists, LifeInv, PhaseOK, Held, WithMyfs, Opts, unread, world, server
<1>1. /\ Typed(result.values)
      /\ \A o \in Priorities \cap Options : result.values[o] = values[p][o]
      /\ result.ok => result.values = LatestOf(args[p], Len(args[p]), Class(FALSE), values[p])
  BY <1>0, SecondRound
<1>2. /\ values' = [values EXCEPT ![p] = result.values]
      /\ phase' = [phase EXCEPT ![p] = IF result.ok THEN "check" ELSE "done"]
  BY DEF ReadRest, Reads, Fails, Goto
<1> HIDE DEF result
<1>3. values'[p] = result.values
  BY <1>0, <1>2
<1>4. phase'[p] = "done" \/ (phase'[p] = "check" /\ result.ok)
  BY <1>0, <1>2
<1>5. "config_file" \in Priorities \cap Options
  BY OptionsAre DEF Priorities
<1>6. LinesOf(p)' = LinesOf(p)
  BY <1>0, <1>1, <1>3, <1>5 DEF LinesOf
<1>7. Read3(p)' = LatestOf(args[p], Len(args[p]), Class(FALSE), values[p]) /\ FileRead(p)'
  BY <1>0, <1>6 DEF Read1, Read2, Read3, FileRead
<1> QED  BY <1>0, <1>1, <1>3, <1>4, <1>7 DEF Opts, InWizard, Prompts, Checked

LEMMA MainOpts ==
  ASSUME OptInv, NEW p \in Procs, Main(p)
  PROVE  Opts(p)'
<1> USE DEF At, Goto
<1>0. /\ Opts(p) /\ phase \in [Procs -> Phases] /\ UNCHANGED <<args, conf>>
  BY MainLeaves DEF OptInv, LifeInv, PhaseOK, Opts
<1>1. CASE ReadPriority(p) \/ ReadConfigFile(p) \/ ReadRest(p)
  BY <1>1, PriorityRead, FileIsReadIn, RestRead
<1>2. CASE CreateReturns(p)
  <2>1. /\ values' = values /\ sessions' = sessions
        /\ phase' = [phase EXCEPT ![p] = "done"]
    BY <1>2 DEF CreateReturns, Fails, unread
  <2> QED  BY <1>0, <2>1, OptsGoOn DEF InWizard, Prompts, Checked
<1>3. CASE Check(p)
  <2>1. /\ values' = values /\ sessions' = sessions /\ phase[p] = "check"
        /\ \/ phase' = [phase EXCEPT ![p] = "confirm"]
           \/ phase' = [phase EXCEPT ![p] = "done"]
    BY <1>3 DEF Check, Fails, unread
  <2> QED  BY <1>0, <2>1, OptsGoOn DEF InWizard, Prompts, Checked
<1>4. CASE Confirm(p) \/ AskPacketSize(p) \/ FuseMain(p) \/ Unmounted(p)
  <2>1. /\ values' = values /\ sessions' = sessions
        /\ phase[p] \in Checked
        /\ \E next \in (Checked \ {"check"}) \cup {"done"} : phase' = [phase EXCEPT ![p] = next]
    BY <1>4 DEF Confirm, AskPacketSize, FuseMain, Unmounted, Fails, unread, untouched, Checked
  <2> QED  BY <1>0, <2>1, OptsGoOn DEF InWizard, Prompts, Checked
<1>5. CASE Connect(p) \/ StartReclaimer(p)
  <2>1. /\ values' = values
        /\ phase[p] \in Checked
        /\ \E next \in (Checked \ {"check"}) \cup {"done"} : phase' = [phase EXCEPT ![p] = next]
    BY <1>5 DEF Connect, StartReclaimer, Fails, untouched, Checked
  <2> QED  BY <1>0, <2>1, OptsGoOn DEF InWizard, Prompts, Checked
<1>6. CASE Disconnect(p) \/ StopReclaimer(p)
  <2>1. /\ values' = values /\ sessions' \subseteq sessions
        /\ \E next \in {"stop", "down"} : phase' = [phase EXCEPT ![p] = next]
    BY <1>6 DEF Disconnect, StopReclaimer, untouched
  <2> QED  BY <1>0, <2>1, OptsGoOn DEF InWizard, Prompts, Checked
<1> QED  BY <1>1, <1>2, <1>3, <1>4, <1>5, <1>6 DEF Main

(* The file that the wizard writes is a list of lines like any other. *)
LEMMA LineIs ==
  ASSUME NEW key \in Words, NEW value \in Values
  PROVE  Line(key, value) \in Entries
BY DEF Line, Entries

LEMMA FileIsAList ==
  ASSUME NEW p \in Procs, Typed(values[p]), setup[p].database \in DbNames
  PROVE  FileOf(p) \in Seq(Entries)
<1>1. /\ {"failed_query_retry_count", "failed_query_retry_wait", "log_stdout", "log_syslog",
          "mariadb_database", "mariadb_host", "mariadb_password", "mariadb_port",
          "mariadb_user", "mount", "reclaimer_level"} \subseteq Words
      /\ {"true", "false", "1"} \subseteq Values
      /\ {"failed_query_retry_count", "failed_query_retry_wait", "mariadb_host",
          "mariadb_port", "mariadb_user", "mount"} \subseteq Options
  BY OptionsAre, WordsAssumption DEF Values
<1>2. /\ \A o \in Options : values[p][o] \in Values
      /\ setup[p].database \in Values /\ NoValue \in Values
  BY DbNamesAssumption DEF Typed, Values
<1>3. /\ Line("failed_query_retry_count", values[p]["failed_query_retry_count"]) \in Entries
      /\ Line("failed_query_retry_wait", values[p]["failed_query_retry_wait"]) \in Entries
  BY <1>1, <1>2, LineIs
<1>4. /\ Line("log_stdout", "true") \in Entries
      /\ Line("log_syslog", "false") \in Entries
      /\ Line("reclaimer_level", "1") \in Entries
      /\ Line("mariadb_password", NoValue) \in Entries
      /\ Line("mariadb_database", setup[p].database) \in Entries
  BY <1>1, <1>2, LineIs
<1>5. /\ Line("mariadb_host", values[p]["mariadb_host"]) \in Entries
      /\ Line("mariadb_port", values[p]["mariadb_port"]) \in Entries
      /\ Line("mariadb_user", values[p]["mariadb_user"]) \in Entries
      /\ Line("mount", values[p]["mount"]) \in Entries
  BY <1>1, <1>2, LineIs
<1> QED  BY <1>3, <1>4, <1>5 DEF FileOf

(* A step of the wizard of p: the options stay, and a config file is       *)
(* written or removed.                                                     *)
LEMMA WizardOpts ==
  ASSUME OptInv, MadeInv, NEW p \in Procs, Wizards(p)
  PROVE  /\ UNCHANGED <<args, values>>
         /\ phase' = [phase EXCEPT ![p] = phase'[p]] /\ conf' = [conf EXCEPT ![p] = conf'[p]]
         /\ conf'[p] = [path \in Paths |-> conf'[p][path]]
         /\ Opts(p)'
<1> USE DEF At, Goto
<1>0. /\ Opts(p) /\ phase \in [Procs -> Phases] /\ conf = [q \in Procs |-> conf[q]]
      /\ conf[p] = [path \in Paths |-> conf[p][path]]
  BY DEF OptInv, Lists, LifeInv, PhaseOK
<1>1. /\ UNCHANGED <<args, values>>
      /\ \A q \in Procs : <<q, "myfs">> \in sessions' => <<q, "myfs">> \in sessions
  BY DEF Wizards, own, Wizard, Ask, AskPath, AskMount, AskLogin, AskAccount, AskDatabase,
         CannotAsk, AskConsent, Work, WriteConfig, Send, SendFails, AllSent, Cleanup, Reconnected
<1>2. /\ phase[p] \in InWizard
      /\ \E next \in InWizard : phase' = [phase EXCEPT ![p] = next]
  <2>1. CASE Ask(p)
    BY <1>0, <2>1 DEF Ask, AskPath, AskMount, AskLogin, AskAccount, AskDatabase,
         CannotAsk, AskConsent, InWizard, Prompts
  <2>2. CASE WriteConfig(p)
    BY <1>0, <2>2 DEF WriteConfig, InWizard, Prompts
  <2>3. CASE AllSent(p) \/ Cleanup(p)
    BY <1>0, <2>3 DEF AllSent, Cleanup, InWizard, Prompts
  <2>4. CASE Send(p) \/ SendFails(p) \/ Reconnected(p)
    <3>1. phase[p] = "send" /\ (phase' = phase \/ phase' = [phase EXCEPT ![p] = "clean"])
      BY <2>4 DEF Send, SendFails, Reconnected
    <3>2. phase' = [phase EXCEPT ![p] = "send"] \/ phase' = [phase EXCEPT ![p] = "clean"]
      BY <1>0, <3>1
    <3> QED  BY <3>1, <3>2 DEF InWizard
  <2> QED  BY <2>1, <2>2, <2>3, <2>4 DEF Wizards, Wizard, Work
<1>3. /\ conf' = [conf EXCEPT ![p] = conf'[p]]
      /\ conf'[p] = [path \in Paths |-> conf'[p][path]]
      /\ \A path \in Paths : conf'[p][path] \in Files \cup {Absent}
  <2>1. \A path \in Paths : conf[p][path] \in Files \cup {Absent}
    BY <1>0 DEF Opts
  <2>2. CASE conf' = conf
    BY <1>0, <2>1, <2>2
  <2>3. ASSUME NEW path \in Paths, NEW file \in Files \cup {Absent},
               conf' = [conf EXCEPT ![p][path] = file]
        PROVE  /\ conf' = [conf EXCEPT ![p] = conf'[p]]
               /\ conf'[p] = [other \in Paths |-> conf'[p][other]]
               /\ \A other \in Paths : conf'[p][other] \in Files \cup {Absent}
    BY <1>0, <2>1, <2>3
  <2>4. setup[p].path \in Paths
    BY DEF MadeInv, Forms, Shape
  <2>5. CASE WriteConfig(p) /\ conf' # conf
    <3>1. conf' = [conf EXCEPT ![p][setup[p].path] = [by |-> "wizard", lines |-> FileOf(p)]]
          /\ phase[p] = "write"
      BY <2>5 DEF WriteConfig
    <3>2. FileOf(p) \in Seq(Entries)
      BY <1>0, <3>1, FileIsAList DEF Opts, MadeInv, DatabaseMade
    <3>3. [by |-> "wizard", lines |-> FileOf(p)] \in Files \cup {Absent}
      BY <3>2 DEF Files
    <3> QED  BY <2>3, <2>4, <3>1, <3>3
  <2>6. CASE Cleanup(p) /\ conf' # conf
    <3>1. conf' = [conf EXCEPT ![p][setup[p].path] = Absent]
      BY <2>6 DEF Cleanup, Unlinked
    <3> QED  BY <2>3, <2>4, <3>1
  <2>7. conf' = conf \/ WriteConfig(p) \/ Cleanup(p)
    BY DEF Wizards, own, Wizard, Ask, AskPath, AskMount, AskLogin, AskAccount, AskDatabase,
           CannotAsk, AskConsent, Work, Send, SendFails, AllSent, Reconnected, world, server
  <2> QED  BY <2>2, <2>5, <2>6, <2>7
<1>4. phase'[p] \in InWizard /\ phase' = [phase EXCEPT ![p] = phase'[p]]
  BY <1>0, <1>2
<1>5. Opts(p)'
  <2>1. phase'[p] \notin {"priority", "file", "rest", "check"} \cup Checked
    BY <1>1, <1>4 DEF InWizard, Prompts, Checked
  <2>2. values' = values /\ args' = args
        /\ \A o \in InFile : values[p][o] = Defaults[o]
    BY <1>0, <1>1, <1>2 DEF Opts
  <2> QED  BY <1>0, <1>3, <2>1, <2>2 DEF Opts
<1> QED  BY <1>1, <1>3, <1>4, <1>5

LEMMA OptNext == OptInv /\ MadeInv /\ [Next]_vars => OptInv'
<1> SUFFICES ASSUME OptInv, MadeInv, [Next]_vars PROVE OptInv'
  OBVIOUS
<1>0. LifeInv'
  BY LifeNext DEF OptInv
<1>1. ASSUME NEW p \in Procs,
             UNCHANGED args, values' = [values EXCEPT ![p] = values'[p]],
             conf' = [conf EXCEPT ![p] = conf'[p]],
             conf'[p] = [path \in Paths |-> conf'[p][path]],
             phase' = [phase EXCEPT ![p] = phase'[p]],
             Opts(p)'
      PROVE  Lists' /\ \A q \in Procs : Opts(q)'
  <2>1. ASSUME NEW q \in Procs \ {p} PROVE Opts(q)'
    <3>1. /\ Opts(q)
          /\ values'[q] = values[q] /\ args'[q] = args[q] /\ conf'[q] = conf[q]
          /\ phase'[q] = phase[q]
      BY <1>1 DEF OptInv, Lists, LifeInv, PhaseOK
    <3> QED  BY <1>1, <3>1, OptsStay
  <2>2. Lists'
    BY <1>1 DEF OptInv, Lists
  <2> QED  BY <1>1, <2>1, <2>2
<1>2. ASSUME NEW p \in Procs, Main(p) PROVE Lists' /\ \A q \in Procs : Opts(q)'
  <2>1. Opts(p)'
    BY <1>2, MainOpts
  <2>2. /\ conf' = [conf EXCEPT ![p] = conf'[p]]
        /\ conf'[p] = [path \in Paths |-> conf'[p][path]]
    BY <1>2, MainLeaves DEF OptInv, Lists
  <2> QED  BY <1>1, <1>2, <2>1, <2>2, MainLeaves
<1>3. ASSUME NEW p \in Procs, Wizards(p) PROVE Lists' /\ \A q \in Procs : Opts(q)'
  <2>1. values' = [values EXCEPT ![p] = values'[p]]
    BY <1>3, WizardOpts DEF OptInv, Lists
  <2> QED  BY <1>1, <1>3, <2>1, WizardOpts
<1>4. CASE UNCHANGED vars
  <2>1. UNCHANGED <<values, args, conf, phase>>
    BY <1>4 DEF vars, own
  <2>2. \A q \in Procs : Opts(q)'
    BY <2>1, OptsStay DEF OptInv
  <2>3. Lists'
    BY <2>1 DEF OptInv, Lists
  <2> QED  BY <1>0, <2>2, <2>3 DEF OptInv
<1> QED  BY <1>1, <1>2, <1>3, <1>4, <1>0 DEF Next, OptInv

LEMMA OptInvariant == Spec => []OptInv
  BY OptInit, OptNext, MadeInvariant, PTL DEF Spec

-----------------------------------------------------------------------------
LEMMA SettersAre ==
  ASSUME NEW entries \in Seq(Entries), NEW o, NEW K
  PROVE  Setters(entries, Len(entries), o, K) = IF o \in K THEN Given(entries, o) ELSE {}
<1>1. DOMAIN entries = 1..Len(entries)
  BY LenProperties
<1>2. CASE o \in K
  <2>1. ASSUME NEW i
        PROVE  i \in Setters(entries, Len(entries), o, K) <=> i \in Given(entries, o)
    BY <1>1, <1>2, GivenAre DEF Setters
  <2> QED  BY <1>2, <2>1
<1>3. CASE o \notin K
  BY <1>3 DEF Setters
<1> QED  BY <1>2, <1>3

(* What the three readings come to, for one option *)
LEMMA ToldIs ==
  ASSUME NEW words \in Seq(Entries), NEW lines \in Seq(Entries), NEW key \in Options
  PROVE  LET one == LatestOf(words, Len(words), Class(TRUE), Defaults)
             two == LatestOf(lines, Len(lines), InFile, one)
         IN  LatestOf(words, Len(words), Class(FALSE), two)[key] = Told(words, lines, key)
<1> DEFINE n == Len(words)  m == Len(lines)
           one == LatestOf(words, n, Class(TRUE), Defaults)
           two == LatestOf(lines, m, InFile, one)
           three == LatestOf(words, n, Class(FALSE), two)
           said == Given(words, key)  written == Given(lines, key)
<1>1. /\ one[key] = Latest(words, n, key, Class(TRUE), Defaults[key])
      /\ two[key] = Latest(lines, m, key, InFile, one[key])
      /\ three[key] = Latest(words, n, key, Class(FALSE), two[key])
  BY DEF LatestOf
<1>2. /\ Setters(words, n, key, Class(TRUE)) = IF key \in Class(TRUE) THEN said ELSE {}
      /\ Setters(lines, m, key, InFile) = IF key \in InFile THEN written ELSE {}
      /\ Setters(words, n, key, Class(FALSE)) = IF key \in Class(FALSE) THEN said ELSE {}
  BY SettersAre
<1>3. /\ key \in Class(TRUE) <=> key \notin InFile
      /\ key \in Class(FALSE) <=> key \in InFile
  BY ClassFalse DEF Class, InFile
<1>4. Told(words, lines, key)
        = IF said # {} THEN Normal(key, words[Max(said)].value)
          ELSE IF key \in InFile /\ written # {} THEN Normal(key, lines[Max(written)].value)
          ELSE Defaults[key]
  BY DEF Told
<1> SUFFICES three[key] = Told(words, lines, key)
  OBVIOUS
<1> HIDE DEF n, m, one, two, three, said, written
<1>5. CASE key \in InFile
  <2>1. one[key] = Defaults[key]
    BY <1>1, <1>2, <1>3, <1>5 DEF Latest
  <2>2. two[key] = IF written # {} THEN Normal(key, lines[Max(written)].value) ELSE Defaults[key]
    BY <1>1, <1>2, <1>5, <2>1 DEF Latest
  <2>3. three[key] = IF said # {} THEN Normal(key, words[Max(said)].value) ELSE two[key]
    BY <1>1, <1>2, <1>3, <1>5 DEF Latest
  <2> QED  BY <1>4, <1>5, <2>2, <2>3
<1>6. CASE key \notin InFile
  <2>1. one[key] = IF said # {} THEN Normal(key, words[Max(said)].value) ELSE Defaults[key]
    BY <1>1, <1>2, <1>3, <1>6 DEF Latest
  <2>2. two[key] = one[key]
    BY <1>1, <1>2, <1>6 DEF Latest
  <2>3. three[key] = two[key]
    BY <1>1, <1>2, <1>3, <1>6 DEF Latest
  <2> QED  BY <1>4, <1>6, <2>1, <2>2, <2>3
<1> QED  BY <1>5, <1>6

(* What a process is read from, once it has its options *)
LEMMA HasRead ==
  ASSUME OptInv, NEW p \in Procs, HasOptions(p)
  PROVE  /\ args[p] \in Seq(Entries) /\ LinesOf(p).lines \in Seq(Entries)
         /\ FileRead(p) /\ values[p] = Read3(p)
<1>1. Opts(p) /\ FileRead(p) /\ values[p] = Read3(p)
  BY DEF OptInv, Opts, HasOptions, Checked
<1>2. LinesOf(p) \in Files
  BY <1>1 DEF Opts, FileRead, LinesOf
<1> QED  BY <1>1, <1>2 DEF Opts, Files

(* The two readings of the command line with the file between them give    *)
(* every option the last value of the highest source, whatever is written  *)
(* where.                                                                  *)
THEOREM OptionsAsTold == Spec => []OptionsAreAsTold
<1>1. ASSUME OptInv, NEW p \in Procs, HasOptions(p), NEW key \in Options
      PROVE  values[p][key] = Told(args[p], LinesOf(p).lines, key)
  <2> DEFINE words == args[p]  lines == LinesOf(p).lines
  <2>1. words \in Seq(Entries) /\ lines \in Seq(Entries) /\ values[p] = Read3(p)
    BY <1>1, HasRead
  <2>2. Read3(p)
          = LatestOf(words, Len(words), Class(FALSE),
              LatestOf(lines, Len(lines), InFile,
                LatestOf(words, Len(words), Class(TRUE), Defaults)))
    BY DEF Read1, Read2, Read3
  <2> HIDE DEF words, lines
  <2>3. Read3(p)[key] = Told(words, lines, key)
    BY <2>1, <2>2, ToldIs
  <2> QED  BY <2>1, <2>3 DEF words, lines
<1>2. OptInv => OptionsAreAsTold
  BY <1>1 DEF OptionsAreAsTold
<1> QED  BY <1>2, OptInvariant, PTL

-----------------------------------------------------------------------------
(* What the wizard leaves: each statement that has been sent has done its  *)
(* part, and the file it has written can be read.                          *)
Ready == {"ask login", "ask account", "ask database", "ask consent", "write", "send"}
Chosen == {"ask database", "ask consent", "write", "send"}

WorldOK ==
  /\ mountpoint \in [Procs -> {"nothing", "file", "dir"}]
  /\ accounts \subseteq Hosts
  /\ grants \subseteq Hosts \X DbNames
  /\ sessions \subseteq Procs \X Purposes
  /\ refused \in Refusals
  /\ ret \in [Procs -> {SUCCESS, CONFIG, DATABASE, RECLAIMER, FUSE}]
  /\ reclaiming \subseteq Procs

Params(p) ==
  /\ setup[p].host \in Hosts /\ setup[p].database \in DbNames
  /\ setup[p].using \in BOOLEAN /\ setup[p].mode \in BOOLEAN
  /\ setup[p].sent <= Len(Statements(setup[p].new))

Names(lines, name) ==
  LET read == ReadFile(lines, Defaults)
  IN  read.ok /\ read.values["mariadb_database"] = name

Privileged(name) == \E host \in accounts : <<host, name>> \in grants
PrivilegedNext(name) == \E host \in accounts' : <<host, name>> \in grants'

Taken(p, statement) ==
  /\ statement \in Parts => statement \in databases[setup[p].database].parts
  /\ statement = "account" => setup[p].host \in accounts
  /\ statement = "privileges" => Privileged(setup[p].database)

Begun(p) == phase[p] = "send" \/ setup[p].done

SetUp(p) ==
  /\ phase[p] \in Ready \/ setup[p].done => mountpoint[p] = "dir"
  /\ phase[p] \in Chosen \/ setup[p].done => setup[p].new \/ setup[p].host \in accounts
  /\ Begun(p) => /\ conf[p][setup[p].path] # Absent
                 /\ Names(conf[p][setup[p].path].lines, setup[p].database)
                 /\ \A i \in 1..setup[p].sent : Taken(p, Statements(setup[p].new)[i])
  /\ setup[p].done => /\ setup[p].databaseCreated
                      /\ setup[p].sent = Len(Statements(setup[p].new))

SetInv == WorldOK /\ \A p \in Procs : Params(p) /\ SetUp(p)

AllStatements ==
  {"database", "use", "files", "file_data", "file_protection", "sql_mode", "root",
   "protect", "account", "usage", "privileges", "flush"}

IsJoined(st, s, t) ==
  /\ Len(st) = Len(s) + Len(t)
  /\ \A i \in 1..Len(s) : st[i] = s[i]
  /\ \A i \in 1..Len(t) : st[Len(s) + i] = t[i]

LEMMA Joined ==
  ASSUME NEW S, NEW s \in Seq(S), NEW t \in Seq(S), NEW st, st = s \o t
  PROVE  st \in Seq(S) /\ IsJoined(st, s, t)
<1>1. Len(s) \in Nat /\ Len(t) \in Nat
  BY LenProperties
<1>2. /\ st \in Seq(S) /\ Len(st) = Len(s) + Len(t)
      /\ \A i \in 1..(Len(s) + Len(t)) : st[i] = IF i <= Len(s) THEN s[i] ELSE t[i - Len(s)]
  BY ConcatProperties
<1> DEFINE m == Len(s)  n == Len(t)
<1>3. m \in Nat /\ n \in Nat
      /\ \A i \in 1..(m + n) : st[i] = IF i <= m THEN s[i] ELSE t[i - m]
  BY <1>1, <1>2
<1> HIDE DEF m, n
<1>4. ASSUME NEW i \in 1..m PROVE st[i] = s[i]
  <2>1. i \in 1..(m + n) /\ i <= m
    BY <1>3
  <2> QED  BY <1>3, <2>1
<1>5. ASSUME NEW i \in 1..n PROVE st[m + i] = t[i]
  <2>1. m + i \in 1..(m + n) /\ ~(m + i <= m) /\ (m + i) - m = i
    BY <1>3
  <2> QED  BY <1>3, <2>1
<1> QED  BY <1>2, <1>4, <1>5 DEF m, n, IsJoined

LEMMA StatementsAre ==
  ASSUME NEW new \in BOOLEAN
  PROVE  /\ Statements(new) \in Seq(AllStatements)
         /\ Len(Statements(new)) \in 11..12
         /\ \A part \in Parts : \E i \in 1..Len(Statements(new)) : Statements(new)[i] = part
         /\ \E i \in 1..Len(Statements(new)) : Statements(new)[i] = "privileges"
         /\ new => \E i \in 1..Len(Statements(new)) : Statements(new)[i] = "account"
<1> DEFINE S == AllStatements
           a == <<"database", "use", "files", "file_data", "file_protection", "sql_mode",
                  "root", "protect">>
           b == IF new THEN <<"account">> ELSE <<>>
           c == <<"usage", "privileges", "flush">>
           ab == a \o b
           all == Statements(new)
<1>1. /\ a \in Seq(S) /\ Len(a) = 8
      /\ a[3] = "files" /\ a[4] = "file_data" /\ a[5] = "file_protection"
      /\ a[7] = "root" /\ a[8] = "protect"
  BY DEF AllStatements
<1>2. /\ b \in Seq(S) /\ Len(b) \in 0..1
      /\ new => Len(b) = 1 /\ b[1] = "account"
  <2>1. CASE new
    BY <2>1 DEF AllStatements
  <2>2. CASE ~new
    BY <2>2 DEF AllStatements
  <2> QED  BY <2>1, <2>2
<1>3. /\ c \in Seq(S) /\ Len(c) = 3
      /\ c[1] = "usage" /\ c[2] = "privileges"
  BY DEF AllStatements
<1>4. all = ab \o c /\ ab = a \o b
  BY DEF Statements
<1> HIDE DEF S, a, b, c, ab, all
<1>5. ab \in Seq(S) /\ IsJoined(ab, a, b)
  <2>1. a \in Seq(S)
    BY <1>1
  <2>2. b \in Seq(S)
    BY <1>2
  <2>3. ab = a \o b
    BY <1>4
  <2> QED  BY ONLY <2>1, <2>2, <2>3, Joined
<1>6. all \in Seq(S) /\ IsJoined(all, ab, c)
  <2>1. ab \in Seq(S)
    BY <1>5
  <2>2. c \in Seq(S)
    BY <1>3
  <2>3. all = ab \o c
    BY <1>4
  <2> QED  BY ONLY <2>1, <2>2, <2>3, Joined
<1> DEFINE lb == Len(b)  lab == Len(ab)  la == Len(all)
<1>7. /\ lb \in 0..1 /\ lab = 8 + lb /\ la = lab + 3
      /\ \A i \in 1..8 : ab[i] = a[i]
      /\ \A i \in 1..lb : ab[8 + i] = b[i]
      /\ \A i \in 1..lab : all[i] = ab[i]
      /\ \A i \in 1..3 : all[lab + i] = c[i]
      /\ new => lb = 1
  BY <1>1, <1>2, <1>3, <1>5, <1>6 DEF IsJoined
<1> HIDE DEF lb, lab, la
<1>8. /\ all[3] = "files" /\ all[4] = "file_data" /\ all[5] = "file_protection"
      /\ all[7] = "root" /\ all[8] = "protect"
  <2>1. \A i \in 1..8 : i \in 1..lab
    BY <1>7
  <2>2. \A i \in 1..8 : all[i] = a[i]
    BY <1>7, <2>1
  <2> QED  BY <1>1, <2>2
<1>9. all[lab + 1] = "usage" /\ all[lab + 2] = "privileges"
  BY <1>3, <1>7
<1>10. new => all[9] = "account"
  <2>1. new => 1 \in 1..lb /\ 8 + 1 = 9 /\ 9 \in 1..lab
    BY <1>7
  <2> QED  BY <1>2, <1>7, <2>1
<1>11. la \in 11..12
  BY <1>7
<1>12. /\ 3 \in 1..la /\ 4 \in 1..la /\ 5 \in 1..la /\ 7 \in 1..la /\ 8 \in 1..la /\ 9 \in 1..la
       /\ lab + 1 \in 1..la /\ lab + 2 \in 1..la
  BY <1>7
<1>13. ASSUME NEW part \in Parts PROVE \E i \in 1..la : all[i] = part
  BY <1>8, <1>12 DEF Parts
<1>14. new => \E i \in 1..la : all[i] = "account"
  BY <1>10, <1>12
<1>15. \E i \in 1..la : all[i] = "privileges"
  BY <1>9, <1>12
<1> QED  BY <1>6, <1>11, <1>13, <1>14, <1>15 DEF all, la, S

(* The file that the wizard writes is read without a complaint and names   *)
(* its database.                                                           *)
LEMMA FileNames ==
  ASSUME NEW p \in Procs, Typed(values[p]), setup[p].database \in DbNames
  PROVE  Names(FileOf(p), setup[p].database)
<1> DEFINE lines == FileOf(p)  name == setup[p].database  o == "mariadb_database"
           read == ReadFile(lines, Defaults)
           v == values[p]
<1>1. lines \in Seq(Entries) /\ IsList(Defaults)
  BY FileIsAList, TypedList, DefaultsTyped
<1>2. /\ Len(lines) = 11
      /\ lines[1] = Line("failed_query_retry_count", v["failed_query_retry_count"])
      /\ lines[2] = Line("failed_query_retry_wait", v["failed_query_retry_wait"])
      /\ lines[3] = Line("log_stdout", "true") /\ lines[4] = Line("log_syslog", "false")
      /\ lines[5] = Line(o, name)
      /\ lines[6] = Line("mariadb_host", v["mariadb_host"])
      /\ lines[7] = Line("mariadb_password", NoValue)
      /\ lines[8] = Line("mariadb_port", v["mariadb_port"])
      /\ lines[9] = Line("mariadb_user", v["mariadb_user"])
      /\ lines[10] = Line("mount", v["mount"]) /\ lines[11] = Line("reclaimer_level", "1")
  BY DEF FileOf
<1> HIDE DEF lines, v, name
<1>3. ASSUME NEW i \in 1..11 PROVE ~Bad(lines[i])
  <2>1. /\ \A key, value : Line(key, value).key = key /\ Line(key, value).value = value
        /\ Number("1") = 1
    BY DEF Line, Number
  <2>2. lines[i].key \in InFile
    <3>1. {"failed_query_retry_count", "failed_query_retry_wait", "log_stdout", "log_syslog",
           "mariadb_database", "mariadb_host", "mariadb_password", "mariadb_port",
           "mariadb_user", "mount", "reclaimer_level"} \subseteq InFile
      BY OptionsAre DEF InFile, Priorities
    <3> QED  BY <1>2, <2>1, <3>1
  <2>3. lines[i].key = "reclaimer_level" => lines[i].value = "1"
    BY <1>2, <2>1
  <2> QED  BY <2>1, <2>2, <2>3 DEF Bad, Refuses, Levels
<1>4. read.ok
  BY <1>1, <1>2, <1>3, GoodFile
<1>5. read.values[o] = Latest(lines, 11, o, InFile, Defaults[o])
  <2>1. read.values = LatestOf(lines, Len(lines), InFile, Defaults)
    BY <1>1, FileIsRead
  <2>2. o \in Options
    BY OptionsAre
  <2> QED  BY <1>2, <2>1, <2>2 DEF LatestOf
<1>6. Setters(lines, 11, o, InFile) = {5}
  <2>1. o \in InFile
    BY OptionsAre DEF InFile, Priorities
  <2>2. ASSUME NEW i \in 1..11 PROVE lines[i].key = o <=> i = 5
    BY <1>2, <2>2 DEF Line
  <2>3. Sets(lines[5], o)
    <3>1. lines[5].key = o /\ lines[5].value = name
      BY <1>2 DEF Line
    <3>2. name # NoValue
      BY DbNamesAssumption DEF name
    <3>3. ~Refuses(o, name)
      BY DEF Refuses
    <3> QED  BY <3>1, <3>2, <3>3 DEF Sets
  <2> QED  BY <2>1, <2>2, <2>3 DEF Setters, Sets
<1>7. Max({5}) = 5
  BY MaxIs
<1>8. Normal(o, name) = name
  BY DEF Normal, Logs
<1>9. lines[5].value = name
  BY <1>2 DEF Line
<1>10. read.values[o] = name
  BY <1>5, <1>6, <1>7, <1>8, <1>9 DEF Latest
<1> QED  BY <1>4, <1>10 DEF Names, lines, name

LEMMA NewParams ==
  ASSUME NEW p \in Procs, values[p]["mariadb_database"] = Defaults["mariadb_database"]
  PROVE  LET new == NewSetup(p)
         IN  /\ new.host \in Hosts /\ new.database \in DbNames
             /\ new.using = FALSE /\ new.mode = FALSE
             /\ new.sent = 0 /\ new.new = FALSE /\ new.done = FALSE
             /\ 0 <= Len(Statements(new.new))
<1> DEFINE new == NewSetup(p)
<1>1. /\ new.host \in Hosts /\ new.database \in DbNames
      /\ new.using = FALSE /\ new.mode = FALSE
      /\ new.sent = 0 /\ new.new = FALSE /\ new.done = FALSE
  BY HostsAssumption, DbNamesAssumption DEF NewSetup
<1> HIDE DEF new
<1>2. PICK made \in BOOLEAN : made = new.new
  BY <1>1
<1>3. Len(Statements(made)) \in 11..12
  BY StatementsAre
<1>4. 0 <= Len(Statements(made))
  BY <1>3
<1> QED  BY <1>1, <1>2, <1>4 DEF new

(* Nothing has been asked yet, or all is over without success. *)
LEMMA NothingSetUp ==
  ASSUME NEW p, setup[p].done = FALSE, phase[p] \notin Ready
  PROVE  SetUp(p)
BY DEF SetUp, Begun, Ready, Chosen

LEMMA SetInit == Init => SetInv
<1> SUFFICES ASSUME Init PROVE SetInv
  OBVIOUS
<1>1. WorldOK
  <2>1. PICK start \in Starts :
          /\ phase = [p \in Procs |-> IF p \in start.procs THEN "priority" ELSE "down"]
          /\ mountpoint = [p \in Procs |-> start.mountpoint]
          /\ accounts = start.accounts
    BY DEF Init
  <2>2. start.mountpoint \in {"nothing", "file", "dir"} /\ start.accounts \subseteq Hosts
    BY StartsAssumption
  <2>3. mountpoint \in [Procs -> {"nothing", "file", "dir"}] /\ accounts \subseteq Hosts
    BY <2>1, <2>2
  <2>4. /\ sessions = {} /\ reclaiming = {} /\ refused \in Refusals /\ grants = {}
        /\ ret = [p \in Procs |-> SUCCESS]
    BY DEF Init
  <2> QED  BY <2>3, <2>4 DEF WorldOK
<1>2. ASSUME NEW p \in Procs PROVE Params(p) /\ SetUp(p)
  <2>1. /\ values[p]["mariadb_database"] = Defaults["mariadb_database"]
        /\ setup[p] = NewSetup(p) /\ phase[p] \in {"priority", "down"}
    BY DEF Init
  <2>2. /\ setup[p].host \in Hosts /\ setup[p].database \in DbNames
        /\ setup[p].using = FALSE /\ setup[p].mode = FALSE
        /\ setup[p].sent = 0 /\ setup[p].new = FALSE /\ setup[p].done = FALSE
        /\ 0 <= Len(Statements(setup[p].new))
    BY <2>1, NewParams
  <2>3. phase[p] \notin Ready
    BY <2>1 DEF Ready
  <2> QED  BY <2>2, <2>3, NothingSetUp DEF Params
<1> QED  BY <1>1, <1>2 DEF SetInv

(* A step of another process that takes nothing away from q *)
LEMMA SetUpStays ==
  ASSUME NEW q, SetUp(q), phase'[q] = phase[q], setup'[q] = setup[q],
         conf'[q] = conf[q], mountpoint'[q] = mountpoint[q],
         accounts \subseteq accounts', grants \subseteq grants',
         setup[q].sent # 0 /\ Begun(q)
            => databases'[setup[q].database].parts = databases[setup[q].database].parts
  PROVE  SetUp(q)'
<1>1. Begun(q)' = Begun(q)
  BY DEF Begun
<1>2. ASSUME Begun(q), NEW i \in 1..setup[q].sent, Taken(q, Statements(setup[q].new)[i])
      PROVE  Taken(q, Statements(setup[q].new)[i])'
  <2>1. setup[q].sent # 0
    BY <1>2
  <2> QED  BY <1>2, <2>1 DEF Taken, Privileged
<1> QED  BY <1>1, <1>2 DEF SetUp

(* The same of a step of main of p itself *)
LEMMA SetUpGoesOn ==
  ASSUME NEW q, SetUp(q), phase'[q] \notin Ready, setup'[q] = setup[q],
         UNCHANGED <<conf, mountpoint, accounts, grants, databases>>
  PROVE  SetUp(q)'
<1>1. phase'[q] \notin Chosen /\ phase'[q] # "send"
  BY DEF Ready, Chosen
<1>2. \A st : Taken(q, st)' = Taken(q, st)
  BY DEF Taken, Privileged
<1> QED  BY <1>1, <1>2 DEF SetUp, Begun

LEMMA MainSet ==
  ASSUME OptInv, MadeInv, SetInv, NEW p \in Procs, Main(p)
  PROVE  SetInv'
<1> USE DEF At, Goto
<1>0. /\ phase \in [Procs -> Phases] /\ setup = [q \in Procs |-> setup[q]]
      /\ phase' = [phase EXCEPT ![p] = phase'[p]]
      /\ \A q \in Procs : Params(q) /\ SetUp(q)
  BY MainLeaves DEF OptInv, LifeInv, PhaseOK, MadeInv, Forms, SetInv
<1>1. UNCHANGED <<conf, mountpoint, accounts, grants, databases, refused>>
  BY DEF Main, ReadPriority, CreateReturns, ReadConfigFile, ReadRest, Check, Confirm, Connect,
         AskPacketSize, StartReclaimer, FuseMain, Unmounted, Disconnect, StopReclaimer,
         unread, untouched, world, server
<1>2. /\ sessions' \subseteq sessions \cup {<<p, "myfs">>, <<p, "reclaimer">>}
      /\ reclaiming' \subseteq reclaiming \cup {p}
      /\ \E code \in {ret[p], SUCCESS, CONFIG, DATABASE, RECLAIMER, FUSE} :
            ret' = [ret EXCEPT ![p] = code] \/ ret' = ret
  <2>1. CASE ReadPriority(p) \/ CreateReturns(p) \/ ReadConfigFile(p) \/ ReadRest(p)
    BY <2>1 DEF ReadPriority, CreateReturns, ReadConfigFile, ReadRest, Reads, Fails, unread
  <2>2. CASE Check(p) \/ Confirm(p)
    BY <2>2 DEF Check, Confirm, Fails, unread
  <2>3. CASE Connect(p) \/ AskPacketSize(p) \/ StartReclaimer(p) \/ FuseMain(p) \/ Unmounted(p)
    BY <2>3 DEF Connect, AskPacketSize, StartReclaimer, FuseMain, Unmounted, Fails
  <2>4. CASE Disconnect(p) \/ StopReclaimer(p)
    BY <2>4 DEF Disconnect, StopReclaimer
  <2> QED  BY <2>1, <2>2, <2>3, <2>4 DEF Main
<1>3. WorldOK'
  BY <1>1, <1>2 DEF SetInv, WorldOK, Purposes
<1>4. \/ /\ setup' = [setup EXCEPT ![p] = NewSetup(p)]
         /\ values[p] = Defaults /\ phase'[p] = "ask path"
      \/ setup' = setup /\ phase'[p] \notin Ready
  <2>1. CASE ReadPriority(p)
    <3>1. values[p] = Defaults
      BY <2>1 DEF OptInv, Opts, ReadPriority
    <3>2. \/ /\ setup' = [setup EXCEPT ![p] = NewSetup(p)]
             /\ phase' = [phase EXCEPT ![p] = "ask path"]
          \/ /\ setup' = setup
             /\ \E next \in {"file", "done"} : phase' = [phase EXCEPT ![p] = next]
      BY <2>1 DEF ReadPriority, Reads, Fails
    <3> QED  BY <1>0, <3>1, <3>2 DEF Ready
  <2>2. CASE CreateReturns(p) \/ ReadConfigFile(p) \/ ReadRest(p) \/ Check(p) \/ Confirm(p)
    <3>1. /\ setup' = setup
          /\ \E next \in {"rest", "check", "confirm", "connect", "done"} :
                phase' = [phase EXCEPT ![p] = next]
      BY <2>2 DEF CreateReturns, ReadConfigFile, ReadRest, Check, Confirm, Reads, Fails
    <3> QED  BY <1>0, <3>1 DEF Ready
  <2>3. CASE Connect(p) \/ AskPacketSize(p) \/ StartReclaimer(p) \/ FuseMain(p) \/ Unmounted(p)
    <3>1. /\ setup' = setup
          /\ \E next \in {"variables", "reclaimer", "fuse", "mounted", "done"} :
                phase' = [phase EXCEPT ![p] = next]
      BY <2>3 DEF Connect, AskPacketSize, StartReclaimer, FuseMain, Unmounted, Fails, untouched
    <3> QED  BY <1>0, <3>1 DEF Ready
  <2>4. CASE Disconnect(p) \/ StopReclaimer(p)
    <3>1. /\ setup' = setup
          /\ \E next \in {"stop", "down"} : phase' = [phase EXCEPT ![p] = next]
      BY <2>4 DEF Disconnect, StopReclaimer, untouched
    <3> QED  BY <1>0, <3>1 DEF Ready
  <2> QED  BY <2>1, <2>2, <2>3, <2>4 DEF Main
<1>5. ASSUME NEW q \in Procs PROVE Params(q)' /\ SetUp(q)'
  <2>1. CASE q # p
    <3>1. phase'[q] = phase[q] /\ setup'[q] = setup[q]
      BY <1>0, <1>4, <2>1
    <3> QED  BY <1>0, <1>1, <3>1, SetUpStays DEF Params
  <2>2. CASE q = p /\ setup' = setup /\ phase'[p] \notin Ready
    BY <1>0, <1>1, <2>2, SetUpGoesOn DEF Params
  <2>3. CASE q = p /\ setup'[p] = NewSetup(p) /\ values[p] = Defaults /\ phase'[p] = "ask path"
    <3>1. /\ setup'[p].host \in Hosts /\ setup'[p].database \in DbNames
          /\ setup'[p].using = FALSE /\ setup'[p].mode = FALSE
          /\ setup'[p].sent = 0 /\ setup'[p].new = FALSE /\ setup'[p].done = FALSE
          /\ 0 <= Len(Statements(setup'[p].new))
      BY <2>3, NewParams
    <3> QED  BY <2>3, <3>1 DEF Params, SetUp, Begun, Ready, Chosen
  <2> QED  BY <1>0, <1>4, <2>1, <2>2, <2>3
<1> QED  BY <1>3, <1>5 DEF SetInv

(* What a statement adds that the server takes *)
LEMMA TakesAdds ==
  ASSUME MadeInv, NEW p \in Procs, phase[p] = "send", NEW st, st = Current(p),
         Accepts(p, st), Takes(p, st)
  PROVE  LET db == setup[p].database
         IN  /\ grants \subseteq grants'
             /\ st = "privileges" => PrivilegedNext(setup[p].database)
             /\ accounts \subseteq accounts' /\ accounts' \subseteq accounts \cup {setup[p].host}
             /\ st = "account" => setup[p].host \in accounts'
             /\ setup[p].sent # 0 => databases[db].parts \subseteq databases'[db].parts
             /\ st \in Parts => st \in databases'[db].parts
<1> DEFINE db == setup[p].database
<1>0. /\ Shape(setup[p]) /\ db \in DbNames
      /\ setup[p].sent # 0 => /\ databases[db] # Absent
                              /\ databases[db] \in [by : Procs, parts : SUBSET Parts]
      /\ databases = [name \in DbNames |-> databases[name]]
  BY DEF MadeInv, Forms, DatabaseMade
<1>1. setup[p].sent = 0 => st = "database"
  BY <1>0, FirstStatement DEF Current, Shape
<1>2. /\ accounts \subseteq accounts' /\ accounts' \subseteq accounts \cup {setup[p].host}
      /\ st = "account" => setup[p].host \in accounts'
      /\ grants \subseteq grants'
  BY DEF Takes
<1>6. st = "privileges" => PrivilegedNext(db)
  <2>1. ASSUME st = "privileges"
        PROVE  /\ values[p]["mariadb_host"] \in accounts'
               /\ <<values[p]["mariadb_host"], db>> \in grants'
    BY <2>1 DEF Accepts, Takes
  <2> QED  BY <2>1 DEF PrivilegedNext
<1>3. CASE st = "database"
  <2>1. setup[p].sent = 0
    BY <1>0, <1>3 DEF Accepts
  <2>2. st \notin Parts
    BY <1>3 DEF Parts
  <2> QED  BY <1>2, <1>6, <2>1, <2>2
<1>4. CASE st # "database" /\ st \in Parts
  <2>1. databases' = [databases EXCEPT ![db].parts = @ \cup {st}]
    BY <1>4 DEF Takes
  <2>2. databases'[db] = [databases[db] EXCEPT !.parts = @ \cup {st}]
    BY <1>0, <2>1
  <2>3. databases[db] \in [by : Procs, parts : SUBSET Parts]
    BY <1>0, <1>1, <1>4
  <2>4. databases'[db].parts = databases[db].parts \cup {st}
    BY <2>2, <2>3
  <2> QED  BY <1>2, <1>6, <2>4
<1>5. CASE st # "database" /\ st \notin Parts
  <2>1. databases' = databases
    BY <1>5 DEF Takes
  <2> QED  BY <1>2, <1>5, <1>6, <2>1
<1> QED  BY <1>3, <1>4, <1>5

(* What a step of the wizard of p leaves alone *)
LEMMA WizardWorld ==
  ASSUME OptInv, MadeInv, SetInv, NEW p \in Procs, Wizards(p)
  PROVE  /\ WorldOK' /\ accounts \subseteq accounts' /\ grants \subseteq grants'
         /\ \A q \in Procs \ {p} :
              /\ setup'[q] = setup[q] /\ phase'[q] = phase[q] /\ conf'[q] = conf[q]
              /\ mountpoint'[q] = mountpoint[q]
              /\ setup[q].sent # 0 /\ Begun(q)
                    => databases'[setup[q].database].parts = databases[setup[q].database].parts
<1> USE DEF At, Goto
<1>0. /\ setup = [q \in Procs |-> setup[q]] /\ setup[p].host \in Hosts
      /\ WorldOK /\ UNCHANGED <<ret, reclaiming, first>>
  BY DEF MadeInv, Forms, SetInv, Params, Wizards, own
<1>1. /\ accounts \subseteq accounts' /\ accounts' \subseteq accounts \cup {setup[p].host}
      /\ grants \subseteq grants' /\ grants' \subseteq Hosts \X DbNames
  <2>1. CASE Send(p) \/ SendFails(p)
    <3>1. phase[p] = "send" /\ setup[p].database \in DbNames /\ grants \subseteq Hosts \X DbNames
          /\ accounts \subseteq Hosts
      BY <1>0, <2>1 DEF Send, SendFails, SetInv, Params, WorldOK
    <3>2. CASE Accepts(p, Current(p)) /\ Takes(p, Current(p))
      <4>1. grants' = grants \/ (/\ values[p]["mariadb_host"] \in accounts
                                 /\ grants' = grants \cup {<<values[p]["mariadb_host"], setup[p].database>>})
        BY <3>2 DEF Accepts, Takes
      <4>2. grants' \subseteq Hosts \X DbNames
        BY <3>1, <4>1
      <4> QED  BY <3>1, <3>2, <4>2, TakesAdds
    <3>3. CASE UNCHANGED server
      BY <3>1, <3>3 DEF server
    <3> QED  BY <2>1, <3>2, <3>3 DEF Send, SendFails
  <2>2. CASE ~(Send(p) \/ SendFails(p))
    <3>1. accounts' = accounts /\ grants' = grants
      BY <2>2 DEF Wizards, Wizard, Ask, AskPath, AskMount, AskLogin, AskAccount, AskDatabase,
         CannotAsk, AskConsent, Work, WriteConfig, AllSent, Cleanup, Reconnected, world, server
    <3> QED  BY <1>0, <3>1 DEF WorldOK
  <2> QED  BY <2>1, <2>2
<1>2. /\ sessions' \subseteq sessions \cup {<<p, "setup">>} /\ refused' = refused
      /\ mountpoint' = mountpoint \/ mountpoint' = [mountpoint EXCEPT ![p] = "dir"]
  <2>1. CASE Ask(p)
    BY <2>1 DEF Ask, AskPath, AskMount, AskLogin, AskAccount, AskDatabase,
         CannotAsk, AskConsent, world, server
  <2>2. CASE Work(p) \/ Reconnected(p)
    BY <2>2 DEF Work, WriteConfig, Send, SendFails, AllSent, Cleanup, Reconnected, world, server
  <2> QED  BY <2>1, <2>2 DEF Wizards, Wizard
<1>3. WorldOK'
  BY <1>0, <1>1, <1>2 DEF WorldOK, Purposes
<1>4. \A q \in Procs \ {p} : setup'[q] = setup[q]
  <2>1. CASE AskPath(p) \/ AskMount(p) \/ AskLogin(p)
    BY <1>0, <2>1 DEF AskPath, AskMount, AskLogin
  <2>2. CASE AskAccount(p)
    BY <1>0, <2>2 DEF AskAccount
  <2>3. CASE AskDatabase(p) \/ CannotAsk(p) \/ AskConsent(p)
    BY <1>0, <2>3 DEF AskDatabase, CannotAsk, AskConsent
  <2>4. CASE WriteConfig(p) \/ AllSent(p) \/ Cleanup(p)
    BY <1>0, <2>4 DEF WriteConfig, AllSent, Cleanup
  <2>5. CASE Send(p)
    <3>1. PICK made, using, mode :
            setup' = [setup EXCEPT ![p].sent = @ + 1, ![p].databaseCreated = made,
                                   ![p].using = using, ![p].mode = mode]
      BY <2>5 DEF Send
    <3> QED  BY <1>0, <3>1
  <2>6. CASE SendFails(p)
    BY <1>0, <2>6 DEF SendFails
  <2>7. CASE Reconnected(p)
    BY <1>0, <2>7 DEF Reconnected
  <2> QED  BY <2>1, <2>2, <2>3, <2>4, <2>5, <2>6, <2>7 DEF Wizards, Wizard, Ask, Work
<1>5. ASSUME NEW q \in Procs \ {p}
      PROVE  /\ setup'[q] = setup[q] /\ phase'[q] = phase[q] /\ conf'[q] = conf[q]
             /\ mountpoint'[q] = mountpoint[q]
  <2>1. setup'[q] = setup[q]
    BY <1>0, <1>4
  <2>2. phase'[q] = phase[q] /\ conf'[q] = conf[q]
    <3>1. /\ phase' = [phase EXCEPT ![p] = phase'[p]] /\ conf' = [conf EXCEPT ![p] = conf'[p]]
          /\ phase \in [Procs -> Phases] /\ conf = [r \in Procs |-> conf[r]]
      BY WizardOpts DEF MadeInv, Forms
    <3> QED  BY <3>1
  <2>3. mountpoint'[q] = mountpoint[q]
    BY <1>0, <1>2 DEF WorldOK
  <2> QED  BY <2>1, <2>2, <2>3
<1>6. ASSUME NEW q \in Procs \ {p}, setup[q].sent # 0, Begun(q)
      PROVE  databases'[setup[q].database] = databases[setup[q].database]
  <2>1. setup[q].databaseCreated
    BY <1>6 DEF SetInv, SetUp, Begun, MadeInv, DatabaseMade
  <2>2. /\ setup[q].database \in DbNames
        /\ databases[setup[q].database] # Absent
        /\ databases[setup[q].database].by = q
    BY <2>1 DEF MadeInv, DatabaseMade
  <2> QED  BY <2>2, Owners
<1> QED  BY <1>1, <1>3, <1>5, <1>6

(* The prompts *)
LEMMA AskSet ==
  ASSUME OptInv, MadeInv, SetInv, NEW p \in Procs, Ask(p)
  PROVE  Params(p)' /\ SetUp(p)'
<1> USE DEF At, Goto
<1>0. /\ Shape(setup[p]) /\ setup = [q \in Procs |-> setup[q]]
      /\ phase \in [Procs -> Phases] /\ mountpoint \in [Procs -> {"nothing", "file", "dir"}]
      /\ Params(p) /\ SetUp(p)
  BY DEF MadeInv, Forms, SetInv, WorldOK
<1>1. setup[p].done = FALSE /\ setup[p].sent = 0
  <2>1. phase[p] \in Prompts
    BY DEF Ask, AskPath, AskMount, AskLogin, AskAccount, AskDatabase, CannotAsk, AskConsent,
           Prompts
  <2>2. FileMade(p) /\ DatabaseMade(p) /\ setup[p].done \in BOOLEAN
    BY <1>0 DEF MadeInv, Shape
  <2> QED  BY <2>1, <2>2 DEF FileMade, DatabaseMade, Early, Late, Prompts
<1>2. ASSUME NEW new \in BOOLEAN PROVE 0 <= Len(Statements(new))
  <2>1. Len(Statements(new)) \in 11..12
    BY StatementsAre
  <2> QED  BY <2>1
<1>3. CASE AskPath(p)
  <2>1. PICK path \in Paths : setup' = [setup EXCEPT ![p].path = path]
    BY <1>3 DEF AskPath
  <2>2. setup'[p] = [setup[p] EXCEPT !.path = path] /\ phase'[p] = "ask mount"
    BY <1>0, <1>3, <2>1 DEF AskPath
  <2>3. /\ setup'[p].host = setup[p].host /\ setup'[p].database = setup[p].database
        /\ setup'[p].using = setup[p].using /\ setup'[p].mode = setup[p].mode
        /\ setup'[p].sent = setup[p].sent
        /\ setup'[p].new = setup[p].new /\ setup'[p].done = setup[p].done
    BY <1>0, <2>2 DEF Shape, Fields
  <2> QED  BY <1>0, <1>1, <2>2, <2>3 DEF Params, SetUp, Begun, Ready, Chosen
<1>4. CASE AskMount(p)
  <2>1. setup' = setup /\ phase'[p] = "ask login" /\ mountpoint'[p] = "dir"
    BY <1>0, <1>4 DEF AskMount
  <2> QED  BY <1>0, <1>1, <2>1 DEF Params, SetUp, Begun, Ready, Chosen
<1>5. CASE AskLogin(p)
  <2>1. setup' = setup /\ phase[p] = "ask login" /\ phase'[p] = "ask account"
        /\ mountpoint' = mountpoint
    BY <1>0, <1>5 DEF AskLogin, world, server
  <2> QED  BY <1>0, <1>1, <2>1 DEF Params, SetUp, Begun, Ready, Chosen
<1>6. CASE AskAccount(p)
  <2>1. PICK host \in Hosts, new \in BOOLEAN :
          /\ new = (host \notin accounts)
          /\ setup' = [setup EXCEPT ![p].host = host, ![p].new = new]
    BY <1>6 DEF AskAccount
  <2>2. /\ setup'[p] = [setup[p] EXCEPT !.host = host, !.new = new]
        /\ phase[p] = "ask account" /\ phase'[p] = "ask database"
        /\ mountpoint' = mountpoint /\ accounts' = accounts
    BY <1>0, <1>6, <2>1 DEF AskAccount, world, server
  <2>3. /\ setup'[p].host = host /\ setup'[p].database = setup[p].database
        /\ setup'[p].using = setup[p].using /\ setup'[p].mode = setup[p].mode
        /\ setup'[p].sent = setup[p].sent
        /\ setup'[p].new = new /\ setup'[p].done = setup[p].done
    BY <1>0, <2>2 DEF Shape, Fields
  <2>4. Params(p)'
    BY <1>0, <1>1, <1>2, <2>3 DEF Params
  <2>5. mountpoint[p] = "dir"
    BY <1>0, <2>2 DEF SetUp, Ready
  <2>6. new \/ host \in accounts
    BY <2>1
  <2> HIDE <2>1
  <2> QED  BY <1>1, <2>2, <2>3, <2>4, <2>5, <2>6 DEF SetUp, Begun, Ready, Chosen
<1>7. CASE AskDatabase(p)
  <2>1. PICK name \in DbNames : setup' = [setup EXCEPT ![p].database = name]
    BY <1>7 DEF AskDatabase
  <2>2. /\ setup'[p] = [setup[p] EXCEPT !.database = name]
        /\ phase[p] = "ask database" /\ phase'[p] = "ask consent"
        /\ mountpoint' = mountpoint /\ accounts' = accounts
    BY <1>0, <1>7, <2>1 DEF AskDatabase, world, server
  <2>3. /\ setup'[p].host = setup[p].host /\ setup'[p].database = name
        /\ setup'[p].using = setup[p].using /\ setup'[p].mode = setup[p].mode
        /\ setup'[p].sent = setup[p].sent
        /\ setup'[p].new = setup[p].new /\ setup'[p].done = setup[p].done
    BY <1>0, <2>2 DEF Shape, Fields
  <2> QED  BY <1>0, <1>1, <2>2, <2>3 DEF Params, SetUp, Begun, Ready, Chosen
<1>8. CASE CannotAsk(p)
  <2>1. setup' = setup /\ phase'[p] = "clean"
    BY <1>0, <1>8 DEF CannotAsk
  <2> QED  BY <1>0, <1>1, <2>1 DEF Params, SetUp, Begun, Ready, Chosen
<1>9. CASE AskConsent(p)
  <2>1. /\ setup' = setup /\ mountpoint' = mountpoint /\ accounts' = accounts
        /\ phase[p] = "ask consent" /\ phase'[p] \in {"write", "clean"}
    BY <1>0, <1>9 DEF AskConsent, world, server
  <2> QED  BY <1>0, <1>1, <2>1 DEF Params, SetUp, Begun, Ready, Chosen
<1> QED  BY <1>3, <1>4, <1>5, <1>6, <1>7, <1>8, <1>9 DEF Ask

(* The config file *)
LEMMA WriteSet ==
  ASSUME OptInv, MadeInv, SetInv, NEW p \in Procs, WriteConfig(p)
  PROVE  Params(p)' /\ SetUp(p)'
<1> USE DEF At, Goto
<1>0. /\ Shape(setup[p]) /\ setup = [q \in Procs |-> setup[q]]
      /\ phase \in [Procs -> Phases] /\ phase[p] = "write"
      /\ conf = [q \in Procs |-> conf[q]]
      /\ conf[p] = [path \in Paths |-> conf[p][path]]
      /\ Params(p) /\ SetUp(p) /\ Typed(values[p])
      /\ UNCHANGED <<mountpoint, databases, accounts>>
  BY DEF MadeInv, Forms, SetInv, OptInv, Opts, WriteConfig, server
<1>1. setup[p].done = FALSE /\ setup[p].sent = 0
  <2>1. FileMade(p) /\ DatabaseMade(p) /\ setup[p].done \in BOOLEAN
    BY <1>0 DEF MadeInv, Shape
  <2> QED  BY <1>0, <2>1 DEF FileMade, DatabaseMade, Early, Late, Prompts
<1>2. CASE phase' = [phase EXCEPT ![p] = "clean"] /\ UNCHANGED setup
  <2>1. phase'[p] = "clean"
    BY <1>0, <1>2
  <2> QED  BY <1>0, <1>1, <1>2, <2>1 DEF Params, SetUp, Begun, Ready, Chosen
<1>3. CASE /\ phase' = [phase EXCEPT ![p] = "send"]
           /\ setup' = [setup EXCEPT ![p].configCreated = TRUE]
           /\ conf' = [conf EXCEPT ![p][setup[p].path] = [by |-> "wizard", lines |-> FileOf(p)]]
  <2>1. setup'[p] = [setup[p] EXCEPT !.configCreated = TRUE] /\ phase'[p] = "send"
    BY <1>0, <1>3
  <2>2. /\ setup'[p].host = setup[p].host /\ setup'[p].database = setup[p].database
        /\ setup'[p].using = setup[p].using /\ setup'[p].mode = setup[p].mode
        /\ setup'[p].sent = 0
        /\ setup'[p].new = setup[p].new /\ setup'[p].done = FALSE
        /\ setup'[p].path = setup[p].path
    BY <1>0, <1>1, <2>1 DEF Shape, Fields
  <2>3. setup[p].path \in Paths
    BY <1>0 DEF Shape
  <2> DEFINE file == [by |-> "wizard", lines |-> FileOf(p)]
  <2>4. conf'[p][setup[p].path] = file
    BY <1>0, <1>3, <2>3
  <2>5. setup[p].database \in DbNames
    BY <1>0 DEF Params
  <2>6. file # Absent
    <3>1. file \in [by : {"owner", "wizard"}, lines : Seq(Entries)]
      BY <1>0, <2>5, FileIsAList
    <3> QED  BY <3>1, FilesAssumption
  <2>7. Names(file.lines, setup[p].database)
    BY <1>0, <2>5, FileNames
  <2> HIDE DEF file
  <2>8. Params(p)'
    BY <1>0, <1>1, <2>2 DEF Params
  <2>9. /\ mountpoint[p] = "dir"
        /\ setup[p].new \/ setup[p].host \in accounts
    BY <1>0 DEF SetUp, Ready, Chosen
  <2>10. 1..0 = {}
    OBVIOUS
  <2> QED  BY <1>0, <2>1, <2>2, <2>4, <2>6, <2>7, <2>8, <2>9, <2>10
           DEF SetUp, Begun, Ready, Chosen
<1> QED  BY <1>2, <1>3 DEF WriteConfig

(* A statement that the server takes, whether or not its answer arrives *)
LEMMA TakenStays ==
  ASSUME MadeInv, NEW p \in Procs, phase[p] = "send", SetUp(p),
         (Accepts(p, Current(p)) /\ Takes(p, Current(p))) \/ UNCHANGED server,
         NEW i \in 1..setup[p].sent
  PROVE  LET st == Statements(setup[p].new)[i]
             db == setup[p].database
         IN  /\ st \in Parts => st \in databases'[db].parts
             /\ st = "account" => setup[p].host \in accounts'
             /\ st = "privileges" => PrivilegedNext(db)
<1> DEFINE st == Statements(setup[p].new)[i]  db == setup[p].database
<1>1. Taken(p, st)
  BY DEF SetUp, Begun
<1>2. setup[p].sent # 0
  <2>1. setup[p].sent \in Nat
    BY DEF MadeInv, Forms, Shape
  <2> QED  BY <2>1
<1>3. /\ databases[db].parts \subseteq databases'[db].parts /\ accounts \subseteq accounts'
      /\ grants \subseteq grants'
  <2>1. CASE UNCHANGED server
    BY <2>1 DEF server
  <2>2. CASE Accepts(p, Current(p)) /\ Takes(p, Current(p))
    BY <1>2, <2>2, TakesAdds
  <2> QED  BY <2>1, <2>2
<1> HIDE DEF st, db
<1>4. /\ st \in Parts => st \in databases[db].parts
      /\ st = "account" => setup[p].host \in accounts
      /\ st = "privileges" => Privileged(db)
  BY <1>1 DEF Taken, db
<1>5. Privileged(db) => PrivilegedNext(db)
  BY <1>3 DEF Privileged, PrivilegedNext
<1> QED  BY <1>3, <1>4, <1>5 DEF st, db

LEMMA OneMore ==
  ASSUME MadeInv, NEW p \in Procs, Params(p), ~Finished(p)
  PROVE  /\ setup[p].sent + 1 <= Len(Statements(setup[p].new))
         /\ \A i \in 1..(setup[p].sent + 1) : i = setup[p].sent + 1 \/ i \in 1..setup[p].sent
<1>1. setup[p].new \in BOOLEAN /\ setup[p].sent \in Nat
  BY DEF MadeInv, Forms, Shape
<1>2. Len(Statements(setup[p].new)) \in 11..12
  BY <1>1, StatementsAre
<1>3. /\ setup[p].sent <= Len(Statements(setup[p].new))
      /\ setup[p].sent # Len(Statements(setup[p].new))
  BY DEF Params, Finished
<1> DEFINE n == setup[p].sent  len == Len(Statements(setup[p].new))
<1> HIDE DEF n, len
<1>4. n \in Nat /\ len \in 11..12 /\ n <= len /\ n # len
  BY <1>1, <1>2, <1>3 DEF n, len
<1>5. n + 1 <= len /\ \A i \in 1..(n + 1) : i = n + 1 \/ i \in 1..n
  BY <1>4
<1> QED  BY <1>5 DEF n, len

(* A statement that succeeds *)
LEMMA SendSet ==
  ASSUME OptInv, MadeInv, SetInv, NEW p \in Procs, Send(p)
  PROVE  Params(p)' /\ SetUp(p)'
<1> USE DEF At
<1> DEFINE st == Current(p)  db == setup[p].database
<1>0. /\ Shape(setup[p]) /\ setup = [q \in Procs |-> setup[q]]
      /\ phase[p] = "send" /\ Params(p) /\ SetUp(p) /\ ~Finished(p)
      /\ Accepts(p, st) /\ Takes(p, st)
      /\ UNCHANGED <<phase, conf, mountpoint>>
  BY DEF MadeInv, Forms, SetInv, Send
<1>1. setup[p].done = FALSE
  <2>1. FileMade(p) /\ setup[p].done \in BOOLEAN
    BY <1>0 DEF MadeInv, Shape
  <2> QED  BY <1>0, <2>1 DEF FileMade, Late
<1>2. PICK made, using, mode :
        /\ using = (setup[p].using \/ st = "use") /\ mode = (setup[p].mode \/ st = "sql_mode")
        /\ setup' = [setup EXCEPT ![p].sent = @ + 1, ![p].databaseCreated = made,
                                  ![p].using = using, ![p].mode = mode]
  BY DEF Send
<1>3. using \in BOOLEAN /\ mode \in BOOLEAN
  BY <1>2
<1>4. /\ setup'[p].host = setup[p].host /\ setup'[p].database = setup[p].database
      /\ setup'[p].using = using /\ setup'[p].mode = mode
      /\ setup'[p].sent = setup[p].sent + 1
      /\ setup'[p].new = setup[p].new /\ setup'[p].done = FALSE
      /\ setup'[p].path = setup[p].path
  <2>1. setup'[p] = [setup[p] EXCEPT !.sent = @ + 1, !.databaseCreated = made,
                                    !.using = using, !.mode = mode]
    BY <1>0, <1>2
  <2> QED  BY <1>0, <1>1, <2>1 DEF Shape, Fields
<1>5. Params(p)'
  <2>1. setup[p].sent + 1 <= Len(Statements(setup[p].new))
    BY <1>0, OneMore
  <2> QED  BY <1>0, <1>3, <1>4, <2>1 DEF Params
<1>6. /\ accounts \subseteq accounts'
      /\ st = "account" => setup[p].host \in accounts'
      /\ st = "privileges" => PrivilegedNext(setup[p].database)
      /\ st \in Parts => st \in databases'[db].parts
  BY <1>0, TakesAdds
<1>7. st = Statements(setup[p].new)[setup[p].sent + 1]
  BY DEF Current
<1> HIDE DEF st, db
<1>8. ASSUME NEW i \in 1..(setup[p].sent + 1)
      PROVE  Taken(p, Statements(setup[p].new)[i])'
  <2>1. CASE i = setup[p].sent + 1
    BY <1>4, <1>6, <1>7, <2>1 DEF Taken, Privileged, PrivilegedNext, db
  <2>2. CASE i \in 1..setup[p].sent
    <3>1. (Accepts(p, Current(p)) /\ Takes(p, Current(p))) \/ UNCHANGED server
      BY <1>0 DEF st
    <3>2. /\ Statements(setup[p].new)[i] \in Parts
               => Statements(setup[p].new)[i] \in databases'[setup[p].database].parts
          /\ Statements(setup[p].new)[i] = "account" => setup[p].host \in accounts'
          /\ Statements(setup[p].new)[i] = "privileges"
               => PrivilegedNext(setup[p].database)
      BY <1>0, <2>2, <3>1, TakenStays
    <3> QED  BY <1>4, <3>2 DEF Taken, Privileged, PrivilegedNext
  <2> QED  BY <1>0, <2>1, <2>2, OneMore
<1>9. SetUp(p)'
  <2>1. /\ phase'[p] = "send" /\ mountpoint'[p] = "dir"
        /\ setup[p].new \/ setup[p].host \in accounts'
    BY <1>0, <1>6 DEF SetUp, Ready, Chosen
  <2>2. /\ conf'[p][setup'[p].path] # Absent
        /\ Names(conf'[p][setup'[p].path].lines, setup'[p].database)
    BY <1>0, <1>4 DEF SetUp, Begun
  <2>3. \A i \in 1..setup'[p].sent : Taken(p, Statements(setup[p].new)[i])'
    BY <1>4, <1>8
  <2> QED  BY <1>4, <2>1, <2>2, <2>3 DEF SetUp, Begun
<1> QED  BY <1>5, <1>9

(* One that fails: only FLUSH PRIVILEGES may. *)
LEMMA SendFailsSet ==
  ASSUME OptInv, MadeInv, SetInv, NEW p \in Procs, SendFails(p)
  PROVE  Params(p)' /\ SetUp(p)'
<1> USE DEF At, Goto
<1> DEFINE st == Current(p)
<1>0. /\ Shape(setup[p]) /\ setup = [q \in Procs |-> setup[q]]
      /\ phase \in [Procs -> Phases] /\ phase[p] = "send"
      /\ Params(p) /\ SetUp(p) /\ ~Finished(p)
      /\ (Accepts(p, st) /\ Takes(p, st)) \/ UNCHANGED server
      /\ UNCHANGED <<conf, mountpoint>>
  BY DEF MadeInv, Forms, SetInv, SendFails
<1>1. setup[p].done = FALSE
  <2>1. FileMade(p) /\ setup[p].done \in BOOLEAN
    BY <1>0 DEF MadeInv, Shape
  <2> QED  BY <1>0, <2>1 DEF FileMade, Late
<1>2. CASE phase' = [phase EXCEPT ![p] = "clean"] /\ UNCHANGED setup
  <2>1. phase'[p] = "clean"
    BY <1>0, <1>2
  <2> QED  BY <1>0, <1>1, <1>2, <2>1 DEF Params, SetUp, Begun, Ready, Chosen
<1>3. CASE st = "flush" /\ setup' = [setup EXCEPT ![p].sent = @ + 1] /\ UNCHANGED phase
  <2>1. setup'[p] = [setup[p] EXCEPT !.sent = @ + 1]
    BY <1>0, <1>3
  <2>2. /\ setup'[p].host = setup[p].host /\ setup'[p].database = setup[p].database
        /\ setup'[p].using = setup[p].using /\ setup'[p].mode = setup[p].mode
        /\ setup'[p].sent = setup[p].sent + 1
        /\ setup'[p].new = setup[p].new /\ setup'[p].done = FALSE
        /\ setup'[p].path = setup[p].path
    BY <1>0, <1>1, <2>1 DEF Shape, Fields
  <2>3. Params(p)'
    <3>1. setup[p].sent + 1 <= Len(Statements(setup[p].new))
      BY <1>0, OneMore
    <3> QED  BY <1>0, <2>2, <3>1 DEF Params
  <2>4. accounts \subseteq accounts'
    <3>1. CASE UNCHANGED server
      BY <3>1 DEF server
    <3>2. CASE Accepts(p, st) /\ Takes(p, st)
      BY <1>0, <3>2, TakesAdds
    <3> QED  BY <1>0, <3>1, <3>2
  <2>5. ASSUME NEW i \in 1..(setup[p].sent + 1)
        PROVE  Taken(p, Statements(setup[p].new)[i])'
    <3>1. CASE i = setup[p].sent + 1
      <4>1. Statements(setup[p].new)[i] = "flush"
        BY <1>3, <3>1 DEF Current
      <4> QED  BY <2>2, <4>1 DEF Taken, Parts
    <3>2. CASE i \in 1..setup[p].sent
      <4>1. /\ Statements(setup[p].new)[i] \in Parts
                 => Statements(setup[p].new)[i] \in databases'[setup[p].database].parts
            /\ Statements(setup[p].new)[i] = "account" => setup[p].host \in accounts'
            /\ Statements(setup[p].new)[i] = "privileges"
                 => PrivilegedNext(setup[p].database)
        BY <1>0, <3>2, TakenStays
      <4> QED  BY <2>2, <4>1 DEF Taken, Privileged, PrivilegedNext
    <3> QED  BY <1>0, <3>1, <3>2, OneMore
  <2>6. /\ phase'[p] = "send" /\ mountpoint'[p] = "dir"
        /\ setup[p].new \/ setup[p].host \in accounts'
    BY <1>0, <1>3, <2>4 DEF SetUp, Ready, Chosen
  <2>7. /\ conf'[p][setup'[p].path] # Absent
        /\ Names(conf'[p][setup'[p].path].lines, setup'[p].database)
    BY <1>0, <2>2 DEF SetUp, Begun
  <2>8. \A i \in 1..setup'[p].sent : Taken(p, Statements(setup[p].new)[i])'
    BY <2>2, <2>5
  <2>9. SetUp(p)'
    BY <2>2, <2>6, <2>7, <2>8 DEF SetUp, Begun
  <2> QED  BY <2>3, <2>9
<1> QED  BY <1>2, <1>3 DEF SendFails, Dispensable

(* A new session, and the end of the statements *)
LEMMA EndSet ==
  ASSUME OptInv, MadeInv, SetInv, NEW p \in Procs, Reconnected(p) \/ AllSent(p)
  PROVE  Params(p)' /\ SetUp(p)'
<1> USE DEF At, Goto
<1>0. /\ Shape(setup[p]) /\ setup = [q \in Procs |-> setup[q]]
      /\ phase \in [Procs -> Phases] /\ phase[p] = "send"
      /\ Params(p) /\ SetUp(p)
      /\ UNCHANGED <<conf, mountpoint, databases, accounts, grants>>
  BY DEF MadeInv, Forms, SetInv, Reconnected, AllSent, world, server
<1>1. /\ mountpoint[p] = "dir"
      /\ setup[p].new \/ setup[p].host \in accounts
      /\ conf[p][setup[p].path] # Absent
      /\ Names(conf[p][setup[p].path].lines, setup[p].database)
      /\ \A i \in 1..setup[p].sent : Taken(p, Statements(setup[p].new)[i])
  BY <1>0 DEF SetUp, Begun, Ready, Chosen
<1>2. /\ setup'[p].host = setup[p].host /\ setup'[p].database = setup[p].database
      /\ setup'[p].using \in BOOLEAN /\ setup'[p].mode \in BOOLEAN
      /\ setup'[p].sent = setup[p].sent
      /\ setup'[p].new = setup[p].new /\ setup'[p].path = setup[p].path
      /\ setup'[p].databaseCreated = setup[p].databaseCreated
      /\ setup'[p].done => /\ setup[p].databaseCreated
                           /\ setup[p].sent = Len(Statements(setup[p].new))
  <2>1. CASE Reconnected(p)
    <3>1. PICK using \in {setup[p].using, FALSE} :
            setup' = [setup EXCEPT ![p].mode = FALSE, ![p].using = using]
      BY <2>1 DEF Reconnected
    <3>2. PICK mode : mode = FALSE
      OBVIOUS
    <3>3. setup'[p] = [setup[p] EXCEPT !.mode = mode, !.using = using]
      BY <1>0, <3>1, <3>2
    <3>4. setup'[p].using = using /\ setup'[p].mode = mode /\ setup'[p].done = setup[p].done
          /\ setup'[p].host = setup[p].host /\ setup'[p].database = setup[p].database
          /\ setup'[p].sent = setup[p].sent
          /\ setup'[p].new = setup[p].new /\ setup'[p].path = setup[p].path
          /\ setup'[p].databaseCreated = setup[p].databaseCreated
      BY <1>0, <3>3 DEF Shape, Fields
    <3>5. using \in BOOLEAN /\ mode \in BOOLEAN
      BY <1>0, <3>1, <3>2 DEF Params
    <3> QED  BY <1>0, <3>4, <3>5 DEF SetUp
  <2>2. CASE AllSent(p)
    <3>1. PICK done : done = TRUE
      OBVIOUS
    <3>2. setup'[p] = [setup[p] EXCEPT !.done = done]
      BY <1>0, <2>2, <3>1 DEF AllSent
    <3>3. setup'[p].using = setup[p].using /\ setup'[p].mode = setup[p].mode
          /\ setup'[p].host = setup[p].host /\ setup'[p].database = setup[p].database
          /\ setup'[p].sent = setup[p].sent
          /\ setup'[p].new = setup[p].new /\ setup'[p].path = setup[p].path
          /\ setup'[p].databaseCreated = setup[p].databaseCreated
      BY <1>0, <3>2 DEF Shape, Fields
    <3>4. setup[p].sent = Len(Statements(setup[p].new))
      BY <2>2 DEF AllSent, Finished
    <3>5. setup[p].databaseCreated
      <4>1. Len(Statements(setup[p].new)) \in 11..12
        BY <1>0, StatementsAre DEF Shape
      <4>2. setup[p].sent # 0
        BY <3>4, <4>1
      <4> QED  BY <1>0, <4>2 DEF MadeInv, DatabaseMade
    <3> QED  BY <1>0, <3>3, <3>4, <3>5 DEF Params
  <2> QED  BY <2>1, <2>2
<1>3. Params(p)'
  BY <1>0, <1>2 DEF Params
<1>4. ASSUME NEW i \in 1..setup[p].sent
      PROVE  Taken(p, Statements(setup[p].new)[i])'
  <2>1. Taken(p, Statements(setup[p].new)[i])
    BY <1>1
  <2> QED  BY <1>0, <1>2, <2>1 DEF Taken, Privileged
<1>5. /\ mountpoint'[p] = "dir"
      /\ setup'[p].new \/ setup'[p].host \in accounts'
      /\ conf'[p][setup'[p].path] # Absent
      /\ Names(conf'[p][setup'[p].path].lines, setup'[p].database)
      /\ setup'[p].done => /\ setup'[p].databaseCreated
                           /\ setup'[p].sent = Len(Statements(setup'[p].new))
  BY <1>0, <1>1, <1>2
<1>6. \A i \in 1..setup'[p].sent : Taken(p, Statements(setup[p].new)[i])'
  BY <1>2, <1>4
<1> QED  BY <1>3, <1>5, <1>6 DEF SetUp, Begun

(* The cleanup takes away nothing of a wizard that is done. *)
LEMMA CleanupSet ==
  ASSUME OptInv, MadeInv, SetInv, NEW p \in Procs, Cleanup(p)
  PROVE  Params(p)' /\ SetUp(p)'
<1> USE DEF At, Goto
<1>0. /\ Shape(setup[p]) /\ setup = [q \in Procs |-> setup[q]]
      /\ phase \in [Procs -> Phases] /\ phase[p] = "clean" /\ phase'[p] = "over"
      /\ setup' = [setup EXCEPT ![p] = Released(p)]
      /\ Params(p) /\ SetUp(p)
      /\ UNCHANGED <<mountpoint, accounts, grants>>
  BY DEF MadeInv, Forms, SetInv, Cleanup
<1>1. CASE setup[p].done
  <2>1. conf' = conf /\ databases' = databases
    BY <1>1 DEF Cleanup, Unlinked, Owed
  <2>2. PICK off : off = FALSE
    OBVIOUS
  <2>3. setup'[p] = [setup[p] EXCEPT !.using = off, !.mode = off]
    BY <1>0, <1>1, <2>2 DEF Released
  <2>4. /\ setup'[p].host = setup[p].host /\ setup'[p].database = setup[p].database
        /\ setup'[p].using = off /\ setup'[p].mode = off
        /\ setup'[p].sent = setup[p].sent
        /\ setup'[p].new = setup[p].new /\ setup'[p].path = setup[p].path
        /\ setup'[p].databaseCreated = setup[p].databaseCreated
        /\ setup'[p].done = setup[p].done
    BY <1>0, <2>3 DEF Shape, Fields
  <2>5. Params(p)'
    BY <1>0, <2>2, <2>4 DEF Params
  <2>6. ASSUME NEW i \in 1..setup[p].sent
        PROVE  Taken(p, Statements(setup[p].new)[i])'
    <3>1. Taken(p, Statements(setup[p].new)[i])
      BY <1>0, <1>1 DEF SetUp, Begun
    <3> QED  BY <1>0, <2>1, <2>4, <3>1 DEF Taken, Privileged
  <2>7. /\ mountpoint'[p] = "dir"
        /\ setup'[p].new \/ setup'[p].host \in accounts'
        /\ conf'[p][setup'[p].path] # Absent
        /\ Names(conf'[p][setup'[p].path].lines, setup'[p].database)
        /\ setup'[p].databaseCreated
        /\ setup'[p].sent = Len(Statements(setup'[p].new))
    BY <1>0, <1>1, <2>1, <2>4 DEF SetUp, Begun
  <2>8. \A i \in 1..setup'[p].sent : Taken(p, Statements(setup[p].new)[i])'
    BY <2>4, <2>6
  <2> QED  BY <2>5, <2>7, <2>8 DEF SetUp, Begun
<1>2. CASE ~setup[p].done
  <2>1. values[p]["mariadb_database"] = Defaults["mariadb_database"]
    <3>1. "mariadb_database" \in InFile
      BY OptionsAre DEF InFile, Priorities
    <3> QED  BY <1>0, <3>1 DEF OptInv, Opts, InWizard
  <2> DEFINE new == NewSetup(p)
  <2>2. /\ new.host \in Hosts /\ new.database \in DbNames
        /\ new.using = FALSE /\ new.mode = FALSE
        /\ new.sent = 0 /\ new.new = FALSE /\ new.done = FALSE
        /\ 0 <= Len(Statements(new.new))
    BY <2>1, NewParams
  <2>3. setup'[p] = new
    BY <1>0, <1>2 DEF Released
  <2> HIDE DEF new
  <2>4. /\ setup'[p].host = new.host /\ setup'[p].database = new.database
        /\ setup'[p].using = new.using /\ setup'[p].mode = new.mode
        /\ setup'[p].sent = new.sent
        /\ setup'[p].new = new.new /\ setup'[p].done = new.done
    BY <2>3
  <2>5. Params(p)'
    BY <1>0, <2>2, <2>4 DEF Params
  <2>6. setup'[p].done = FALSE /\ phase'[p] \notin Ready
    BY <1>0, <2>2, <2>4 DEF Ready
  <2> QED  BY <2>5, <2>6 DEF SetUp, Begun, Ready, Chosen
<1> QED  BY <1>1, <1>2

LEMMA SetNext == OptInv /\ MadeInv /\ SetInv /\ [Next]_vars => SetInv'
<1> SUFFICES ASSUME OptInv, MadeInv, SetInv, [Next]_vars PROVE SetInv'
  OBVIOUS
<1>1. ASSUME NEW p \in Procs, Main(p) PROVE SetInv'
  BY <1>1, MainSet
<1>2. ASSUME NEW p \in Procs, Wizards(p) PROVE SetInv'
  <2>1. Params(p)' /\ SetUp(p)'
    BY <1>2, AskSet, WriteSet, SendSet, SendFailsSet, EndSet, CleanupSet
    DEF Wizards, Wizard, Work
  <2>2. ASSUME NEW q \in Procs \ {p} PROVE Params(q)' /\ SetUp(q)'
    <3>1. /\ setup'[q] = setup[q] /\ phase'[q] = phase[q] /\ conf'[q] = conf[q]
          /\ mountpoint'[q] = mountpoint[q]
          /\ accounts \subseteq accounts' /\ grants \subseteq grants'
          /\ setup[q].sent # 0 /\ Begun(q)
                => databases'[setup[q].database].parts = databases[setup[q].database].parts
      BY <1>2, WizardWorld
    <3>2. Params(q) /\ SetUp(q)
      BY DEF SetInv
    <3>3. Params(q)'
      BY <3>1, <3>2 DEF Params
    <3> QED  BY <3>1, <3>2, <3>3, SetUpStays
  <2>3. WorldOK'
    BY <1>2, WizardWorld
  <2> QED  BY <2>1, <2>2, <2>3 DEF SetInv
<1>3. CASE UNCHANGED vars
  <2>1. UNCHANGED <<phase, values, conf, mountpoint, databases, accounts, grants, sessions, setup,
                    refused, args, ret, reclaiming, first>>
    BY <1>3 DEF vars, own
  <2>2. ASSUME NEW q \in Procs PROVE Params(q)' /\ SetUp(q)'
    BY <2>1, SetUpStays DEF SetInv, Params
  <2>3. WorldOK'
    BY <2>1 DEF SetInv, WorldOK
  <2> QED  BY <2>2, <2>3 DEF SetInv
<1> QED  BY <1>1, <1>2, <1>3 DEF Next

LEMMA SetInvariant == Spec => []SetInv
  BY SetInit, SetNext, OptInvariant, MadeInvariant, PTL DEF Spec

(* Each variable of main() and of the wizard keeps its type; above all the *)
(* level of the reclaimer, which comes from the command line and the file, *)
(* and the wizard's place among its statements.                            *)
THEOREM TypeCorrect == Spec => []TypeOK
<1>1. ASSUME OptInv, MadeInv, SetInv PROVE TypeOK
  <2>1. ASSUME NEW p \in Procs
        PROVE  /\ DOMAIN values[p] = Options
               /\ Number(values[p]["reclaimer_level"]) \in Levels
    BY <1>1 DEF OptInv, Opts, Typed
  <2>2. ASSUME NEW p \in Procs PROVE setup[p] \in TypeOfSetup
    <3>1. Shape(setup[p]) /\ Params(p)
      BY <1>1 DEF MadeInv, Forms, SetInv
    <3>2. setup[p].sent \in 0..12
      <4> DEFINE len == Len(Statements(setup[p].new))  sent == setup[p].sent
      <4>1. len \in 11..12
        BY <3>1, StatementsAre DEF Shape
      <4>2. sent \in Nat /\ sent <= len
        BY <3>1 DEF Shape, Params
      <4> HIDE DEF len, sent
      <4>3. sent \in 0..12
        BY <4>1, <4>2
      <4> QED  BY <4>3 DEF sent
    <3> QED  BY <3>1, <3>2 DEF Shape, Fields, Params, TypeOfSetup
  <2>3. ASSUME NEW p \in Procs, NEW path \in Paths, conf[p][path] # Absent
        PROVE  conf[p][path].by \in {"owner", "wizard"}
    BY <1>1, <2>3 DEF OptInv, Opts, Files
  <2>4. ASSUME NEW name \in DbNames, databases[name] # Absent
        PROVE  databases[name].by \in Procs /\ databases[name].parts \subseteq Parts
    <3>1. databases[name] \in [by : Procs, parts : SUBSET Parts]
      BY <1>1, <2>4 DEF MadeInv, Forms
    <3> QED  BY <3>1
  <2>5. phase \in [Procs -> Phases] /\ WorldOK
    BY <1>1 DEF MadeInv, Forms, SetInv
  <2> QED  BY <2>1, <2>2, <2>3, <2>4, <2>5 DEF TypeOK, WorldOK
<1> QED  BY <1>1, OptInvariant, MadeInvariant, SetInvariant, PTL

(* create_run: when it says so, all that it was to create is there, with   *)
(* privileges for some account of the user, and stays there.               *)
THEOREM SetUpHolds == Spec => []SetUpIsWhole
<1>1. ASSUME MadeInv, SetInv, NEW p \in Procs, setup[p].done
      PROVE  /\ mountpoint[p] = "dir"
             /\ conf[p][setup[p].path] # Absent
             /\ Names(conf[p][setup[p].path].lines, setup[p].database)
             /\ databases[setup[p].database] # Absent
             /\ databases[setup[p].database].by = p
             /\ databases[setup[p].database].parts = Parts
             /\ setup[p].host \in accounts
             /\ Privileged(setup[p].database)
  <2> DEFINE all == Statements(setup[p].new)  db == setup[p].database
  <2>1. /\ setup[p].new \in BOOLEAN /\ setup[p].databaseCreated
        /\ mountpoint[p] = "dir"
        /\ conf[p][setup[p].path] # Absent
        /\ Names(conf[p][setup[p].path].lines, setup[p].database)
        /\ setup[p].new \/ setup[p].host \in accounts
        /\ \A i \in 1..Len(all) : Taken(p, all[i])
    BY <1>1 DEF MadeInv, Forms, Shape, SetInv, SetUp, Begun
  <2>2. db \in DbNames /\ databases[db] # Absent /\ databases[db].by = p
    BY <1>1, <2>1 DEF MadeInv, DatabaseMade
  <2>3. databases[db].parts \subseteq Parts
    <3>1. databases[db] \in [by : Procs, parts : SUBSET Parts]
      BY <1>1, <2>2 DEF MadeInv, Forms
    <3> QED  BY <3>1
  <2>4. /\ \A part \in Parts : \E i \in 1..Len(all) : all[i] = part
        /\ setup[p].new => \E i \in 1..Len(all) : all[i] = "account"
        /\ \E i \in 1..Len(all) : all[i] = "privileges"
    BY <2>1, StatementsAre
  <2> HIDE DEF all
  <2>5. ASSUME NEW part \in Parts PROVE part \in databases[db].parts
    BY <2>1, <2>4 DEF Taken
  <2>6. setup[p].host \in accounts
    BY <2>1, <2>4 DEF Taken
  <2>7. Privileged(db)
    BY <2>1, <2>4 DEF Taken
  <2> QED  BY <2>1, <2>2, <2>3, <2>5, <2>6, <2>7
<1>2. MadeInv /\ SetInv => SetUpIsWhole
  BY <1>1 DEF SetUpIsWhole, Names, Privileged
<1> QED  BY <1>2, MadeInvariant, SetInvariant, PTL
=============================================================================
