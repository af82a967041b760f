------------------------------- MODULE Setup -------------------------------
(***************************************************************************)
(* The setup wizard of MyFS, src/myfs/create.c, which `myfs --create true' *)
(* runs: it asks for what to create, looking each time whether that can be *)
(* done, and after the operator's consent writes the config file and sends *)
(* the statements that create the database and the account.                *)
(*                                                                         *)
(* Each process runs on a host of its own, with its own files; all share   *)
(* the database server.  Startup.tla has the rest of the process.  The     *)
(* operator keeps the host and the port that are offered, so there is one  *)
(* server, and one MariaDB user, whose accounts differ in their host.      *)
(***************************************************************************)
EXTENDS Config, FiniteSets

CONSTANTS
    Procs,      \* processes, and their hosts
    Paths,      \* the config files that are named
    DbNames,    \* the databases that are named
    Hosts,      \* the hosts an account is for
    Refusals,   \* sets of statements that the server refuses as they stand
    Faults,     \* what may go wrong outside MyFS
    Absent      \* no file, no database

ASSUME NamesAssumption == Defaults["config_file"] \in Paths
ASSUME HostsAssumption == {"%", Defaults["mariadb_host"]} \subseteq Hosts
ASSUME DbNamesAssumption ==
    /\ Defaults["mariadb_database"] \in DbNames
    /\ DbNames \subseteq Words /\ NoValue \notin DbNames
ASSUME FilesAssumption == Absent \notin [by : {"owner", "wizard"}, lines : Seq(Entries)]

VARIABLES
    phase,      \* where each process is
    values,     \* the options of each process
    conf,       \* the config files of each host: the lines, and who wrote them
    mountpoint, \* what is at each host's mount point: "nothing", "file", "dir"
    databases,  \* the databases: who created each, and what is in it
    accounts,   \* the hosts for which the MariaDB user has an account
    grants,     \* the databases on which each account has privileges; these
                \* outlive the database
    sessions,   \* the sessions the server has: process and purpose
    setup,      \* create_params_t of each process
    refused     \* the statements that the server refuses, one of Refusals

(* What create_run_create_database sends, and what that puts into the      *)
(* database                                                                *)
Parts == {"files", "file_data", "file_protection", "root", "protect"}

ASSUME AbsentAssumption ==
    \A p \in Procs, parts \in SUBSET Parts : Absent # [by |-> p, parts |-> parts]

Statements(new) ==
    <<"database", "use", "files", "file_data", "file_protection", "sql_mode",
      "root", "protect">>
    \o (IF new THEN <<"account">> ELSE <<>>)
    \o <<"usage", "privileges", "flush">>

(* The statements MariaDB refuses because of their text: the root directory *)
(* is inserted with a column `content' that `files' has not (create.c:592,  *)
(* 530), and DROP DATABASE is given a string for a name (create.c:489).     *)
AsWritten == {"root", "drop"}

Prompts == {"ask path", "ask mount", "ask login", "ask account", "ask database",
            "ask consent"}

TypeOfSetup ==
    [path : Paths, host : Hosts, new : BOOLEAN, database : DbNames, sent : 0..12,
     configCreated : BOOLEAN, databaseCreated : BOOLEAN,
     using : BOOLEAN, mode : BOOLEAN, done : BOOLEAN]

(* create_run, before the prompts.  `using' and `mode' are settings of the *)
(* server's session, `done' is history.                                    *)
NewSetup(p) ==
    [path |-> Defaults["config_file"], host |-> "%", new |-> FALSE,
     database |-> values[p]["mariadb_database"], sent |-> 0,
     configCreated |-> FALSE, databaseCreated |-> FALSE,
     using |-> FALSE, mode |-> FALSE, done |-> FALSE]

At(p, label) == phase[p] = label
Goto(p, label) == phase' = [phase EXCEPT ![p] = label]

server == <<databases, accounts, grants>>
world == <<conf, mountpoint, server>>

-----------------------------------------------------------------------------
(* create_run_prompt.  Each question is asked until the answer passes the  *)
(* test behind it, which looks at the world at that moment: an action is   *)
(* the last round of its loop.  An answer that fails its test becomes the  *)
(* default of the next round, where any other may be given, and a mkdir or *)
(* a login that fails is tried again.                                      *)

(* The path of the config file; the user and the group that it is to belong *)
(* to, which are asked for next, are left out, and so are the passwords     *)
(* behind the login and the account.                                        *)
AskPath(p) ==
    /\ At(p, "ask path")
    /\ \E path \in Paths :
         /\ conf[p][path] = Absent
         /\ setup' = [setup EXCEPT ![p].path = path]
    /\ Goto(p, "ask mount")
    /\ UNCHANGED <<values, world, sessions, refused>>

AskMount(p) ==
    /\ At(p, "ask mount")
    /\ \/ /\ mountpoint[p] = "dir"
          /\ Goto(p, "ask login")
          /\ UNCHANGED mountpoint
       \/ /\ mountpoint[p] = "nothing"
          /\ mountpoint' = [mountpoint EXCEPT ![p] = "dir"]
          /\ Goto(p, "ask login")
    /\ UNCHANGED <<values, conf, server, sessions, setup, refused>>

AskLogin(p) ==
    /\ At(p, "ask login")
    /\ sessions' = sessions \cup {<<p, "setup">>}
    /\ Goto(p, "ask account")
    /\ UNCHANGED <<values, world, setup, refused>>

(* The account must be there exactly if it is not to be created. *)
AskAccount(p) ==
    /\ At(p, "ask account")
    /\ \E host \in Hosts, new \in BOOLEAN :
         /\ new = (host \notin accounts)
         /\ setup' = [setup EXCEPT ![p].host = host, ![p].new = new]
    /\ Goto(p, "ask database")
    /\ UNCHANGED <<values, world, sessions, refused>>

AskDatabase(p) ==
    /\ At(p, "ask database")
    /\ \E name \in DbNames :
         /\ databases[name] = Absent
         /\ setup' = [setup EXCEPT ![p].database = name]
    /\ Goto(p, "ask consent")
    /\ UNCHANGED <<values, world, sessions, refused>>

(* db_user_exists or db_database_exists fails: create_run_prompt gives up. *)
CannotAsk(p) ==
    /\ "statement" \in Faults
    /\ phase[p] \in {"ask account", "ask database"}
    /\ Goto(p, "clean")
    /\ UNCHANGED <<values, world, sessions, setup, refused>>

AskConsent(p) ==
    /\ At(p, "ask consent")
    /\ Goto(p, "write") \/ Goto(p, "clean")
    /\ UNCHANGED <<values, world, sessions, setup, refused>>

Ask(p) ==
    \/ AskPath(p) \/ AskMount(p) \/ AskLogin(p) \/ AskAccount(p)
    \/ AskDatabase(p) \/ AskConsent(p) \/ CannotAsk(p)

-----------------------------------------------------------------------------
(* What create_run_create_config writes: neither a password nor the user   *)
(* and the group that were asked for.                                      *)
Line(key, value) == [key |-> key, value |-> value]

FileOf(p) ==
    <<Line("failed_query_retry_count", values[p]["failed_query_retry_count"]),
      Line("failed_query_retry_wait", values[p]["failed_query_retry_wait"]),
      Line("log_stdout", "true"), Line("log_syslog", "false"),
      Line("mariadb_database", setup[p].database),
      Line("mariadb_host", values[p]["mariadb_host"]),
      Line("mariadb_password", NoValue),
      Line("mariadb_port", values[p]["mariadb_port"]),
      Line("mariadb_user", values[p]["mariadb_user"]),
      Line("mount", values[p]["mount"]), Line("reclaimer_level", "1")>>

WriteConfig(p) ==
    /\ At(p, "write")
    /\ \/ /\ conf' = [conf EXCEPT ![p][setup[p].path] =
                                     [by |-> "wizard", lines |-> FileOf(p)]]
          /\ setup' = [setup EXCEPT ![p].configCreated = TRUE]
          /\ Goto(p, "send")
       \/ /\ "file" \in Faults
          /\ Goto(p, "clean")
          /\ UNCHANGED <<conf, setup>>
    /\ UNCHANGED <<values, mountpoint, server, sessions, refused>>

-----------------------------------------------------------------------------
(* The server.  A statement is accepted or refused according to what it    *)
(* finds.  A grant needs the account it names (NO_AUTO_CREATE_USER is in   *)
(* MariaDB's default sql_mode), and create.c names the server's host there *)
(* (create.c:455, 462), not the account's.  Without NO_AUTO_VALUE_ON_ZERO  *)
(* the root's id would not be 0, the parent it names: the key refuses it.  *)
Current(p) == Statements(setup[p].new)[setup[p].sent + 1]

Accepts(p, statement) ==
    /\ statement \notin refused
    /\ CASE statement = "database" -> databases[setup[p].database] = Absent
         [] statement \in {"files", "file_data", "file_protection"} -> setup[p].using
         [] statement = "root"     -> setup[p].using /\ setup[p].mode
         [] statement = "protect"  -> setup[p].using
         [] statement = "account"  -> setup[p].host \notin accounts
         [] statement \in {"usage", "privileges"} ->
              values[p]["mariadb_host"] \in accounts
         [] OTHER -> TRUE

(* What an accepted statement does to the server. *)
Takes(p, statement) ==
    /\ databases' =
         CASE statement = "database" ->
                [databases EXCEPT ![setup[p].database] = [by |-> p, parts |-> {}]]
           [] statement \in Parts ->
                [databases EXCEPT ![setup[p].database].parts = @ \cup {statement}]
           [] OTHER -> databases
    /\ accounts' = IF statement = "account" THEN accounts \cup {setup[p].host}
                   ELSE accounts
    /\ grants' = IF statement = "privileges"
                 THEN grants \cup {<<values[p]["mariadb_host"], setup[p].database>>}
                 ELSE grants

(* create_run_create_database: one statement after the other. *)
Finished(p) == setup[p].sent = Len(Statements(setup[p].new))

Send(p) ==
    /\ At(p, "send") /\ ~Finished(p)
    /\ LET statement == Current(p)
       IN  /\ Accepts(p, statement)
           /\ Takes(p, statement)
           /\ setup' = [setup EXCEPT
                 ![p].sent = @ + 1,
                 ![p].databaseCreated = @ \/ statement = "database",
                 ![p].using = @ \/ statement = "use",
                 ![p].mode = @ \/ statement = "sql_mode"]
    /\ UNCHANGED <<phase, values, conf, mountpoint, sessions, refused>>

(* Mutant of Dispensable: nor do the grants. *)
DispensableGrants == {"usage", "privileges", "flush"}

(* The statements whose failure does not end the wizard *)
Dispensable == {"flush"}

(* Mutant of SendFails: the statement is sent again until it succeeds. *)
SendFailsAgain(p) ==
    /\ At(p, "send") /\ ~Finished(p)
    /\ UNCHANGED <<phase, values, world, sessions, setup, refused>>

(* The query fails: the server refuses the statement, or the connection    *)
(* breaks before the server takes it or before its answer arrives.         *)
(* Nothing is retried.                                                     *)
SendFails(p) ==
    /\ At(p, "send") /\ ~Finished(p)
    /\ LET statement == Current(p)
       IN  /\ \/ ~Accepts(p, statement) /\ UNCHANGED server
              \/ /\ Accepts(p, statement) /\ "statement" \in Faults
                 /\ Takes(p, statement) \/ UNCHANGED server
           /\ IF statement \in Dispensable
              THEN setup' = [setup EXCEPT ![p].sent = @ + 1] /\ UNCHANGED phase
              ELSE Goto(p, "clean") /\ UNCHANGED setup
    /\ UNCHANGED <<values, conf, mountpoint, sessions, refused>>

(* The connection breaks between two statements and the library replaces   *)
(* it: the new session has the default sql_mode, and may have lost USE.    *)
Reconnected(p) ==
    /\ At(p, "send") /\ "link" \in Faults
    /\ setup[p].using \/ setup[p].mode
    /\ \E using \in {setup[p].using, FALSE} :
         setup' = [setup EXCEPT ![p].mode = FALSE, ![p].using = using]
    /\ UNCHANGED <<phase, values, world, sessions, refused>>

AllSent(p) ==
    /\ At(p, "send") /\ Finished(p)
    /\ setup' = [setup EXCEPT ![p].done = TRUE]
    /\ Goto(p, "clean")
    /\ UNCHANGED <<values, world, sessions, refused>>

-----------------------------------------------------------------------------
(* create_cleanup.  Both removals are attempted once, and what becomes of  *)
(* them is only printed; the unlink, of a file just created in a writable  *)
(* directory, is taken to succeed.                                         *)

(* Mutant of Owed: what was named is removed, made or not. *)
OwedByName(p, made) == ~setup[p].done

Owed(p, made) == ~setup[p].done /\ made

DropAccepted == "drop" \notin refused

(* create_params_t and the session are gone when create_run returns; what  *)
(* a wizard that succeeded has set up is kept.                             *)
Released(p) ==
    IF setup[p].done THEN [setup[p] EXCEPT !.using = FALSE, !.mode = FALSE]
    ELSE NewSetup(p)

(* Mutant of Unlinked: the file goes only with the database. *)
UnlinkedLater(p) ==
    IF Owed(p, setup[p].configCreated /\ setup[p].databaseCreated)
    THEN [conf EXCEPT ![p][setup[p].path] = Absent] ELSE conf

Unlinked(p) ==
    IF Owed(p, setup[p].configCreated)
    THEN [conf EXCEPT ![p][setup[p].path] = Absent] ELSE conf

Cleanup(p) ==
    /\ At(p, "clean")
    /\ conf' = Unlinked(p)
    /\ \/ databases' = IF Owed(p, setup[p].databaseCreated) /\ DropAccepted
                       THEN [databases EXCEPT ![setup[p].database] = Absent]
                       ELSE databases
       \/ /\ "statement" \in Faults
          /\ Owed(p, setup[p].databaseCreated) /\ DropAccepted
          /\ UNCHANGED databases
    /\ sessions' = sessions \ {<<p, "setup">>}
    /\ setup' = [setup EXCEPT ![p] = Released(p)]
    /\ Goto(p, "over")
    /\ UNCHANGED <<values, mountpoint, accounts, grants, refused>>

(* What create_run does once it need not ask any more. *)
Work(p) ==
    WriteConfig(p) \/ Send(p) \/ SendFails(p) \/ AllSent(p) \/ Cleanup(p)

Wizard(p) == Ask(p) \/ Work(p) \/ Reconnected(p)
=============================================================================
