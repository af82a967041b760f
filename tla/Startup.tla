------------------------------ MODULE Startup ------------------------------
(***************************************************************************)
(* main() of MyFS, src/myfs/main.c: it reads its options from the command  *)
(* line and the config file, has them confirmed, connects, starts the      *)
(* reclaimer, runs FUSE, and stops all of it; or it runs the setup wizard. *)
(*                                                                         *)
(* Reading the options is the work of Config.tla, the wizard is Setup.tla, *)
(* and what a mounted file system does is left to the other modules.       *)
(***************************************************************************)
EXTENDS Setup

CONSTANTS
    Starts  \* what there may be at the start: the processes that are started
            \* and their arguments, what is in the config file of each host
            \* and at its mount point, and the accounts

ASSUME StartsAssumption ==
    \A start \in Starts :
        /\ start.procs \subseteq Procs /\ start.args \in Seq(Entries)
        /\ start.lines \in Seq(Entries) \cup {Absent}
        /\ start.mountpoint \in {"nothing", "file", "dir"}
        /\ start.accounts \subseteq Hosts

VARIABLES
    args,       \* argv of each process
    ret,        \* what main returns
    reclaiming, \* the processes whose reclaimer thread runs
    first       \* history: the config files at the start

own == <<args, ret, reclaiming, first>>
vars == <<phase, values, conf, mountpoint, databases, accounts, grants, sessions,
          setup, refused, own>>

SUCCESS == 0
CONFIG == 1
DATABASE == 2
RECLAIMER == 3
FUSE == 4       \* stands for what fuse_main returns when it fails

Phases ==
    {"priority", "file", "rest", "check", "confirm", "connect", "variables",
     "reclaimer", "fuse", "mounted", "done", "stop", "down"}
        \cup Prompts \cup {"write", "send", "clean", "over"}

Purposes == {"setup", "myfs", "reclaimer"}

TypeOK ==
    /\ phase \in [Procs -> Phases]
    /\ \A p \in Procs : /\ DOMAIN values[p] = Options
                        /\ Number(values[p]["reclaimer_level"]) \in Levels
                        /\ setup[p] \in TypeOfSetup
    /\ \A p \in Procs, path \in Paths :
         conf[p][path] # Absent => conf[p][path].by \in {"owner", "wizard"}
    /\ mountpoint \in [Procs -> {"nothing", "file", "dir"}]
    /\ \A name \in DbNames :
         databases[name] # Absent =>
            /\ databases[name].by \in Procs
            /\ databases[name].parts \subseteq Parts
    /\ accounts \subseteq Hosts
    /\ grants \subseteq Hosts \X DbNames
    /\ sessions \subseteq Procs \X Purposes
    /\ refused \in Refusals
    /\ ret \in [Procs -> {SUCCESS, CONFIG, DATABASE, RECLAIMER, FUSE}]
    /\ reclaiming \subseteq Procs

(* Before main; a process that is not started is down. *)
Init ==
    /\ \E start \in Starts :
         /\ phase = [p \in Procs |-> IF p \in start.procs THEN "priority" ELSE "down"]
         /\ args = [p \in Procs |-> start.args]
         /\ conf = [p \in Procs |-> [path \in Paths |->
                      IF path = Defaults["config_file"] /\ start.lines # Absent
                      THEN [by |-> "owner", lines |-> start.lines] ELSE Absent]]
         /\ mountpoint = [p \in Procs |-> start.mountpoint]
         /\ accounts = start.accounts
    /\ first = conf
    /\ values = [p \in Procs |-> Defaults]
    /\ databases = [name \in DbNames |-> Absent]
    /\ grants = {}
    /\ sessions = {}
    /\ setup = [p \in Procs |-> NewSetup(p)]
    /\ refused \in Refusals
    /\ ret = [p \in Procs |-> SUCCESS]
    /\ reclaiming = {}

-----------------------------------------------------------------------------
(* The chain of conditions in main(): one that fails sets `ret' and goes   *)
(* to done.                                                                *)
Fails(p, code) ==
    /\ ret' = [ret EXCEPT ![p] = code]
    /\ Goto(p, "done")

Reads(p, result, next) ==
    /\ values' = [values EXCEPT ![p] = result.values]
    /\ IF result.ok THEN Goto(p, next) /\ UNCHANGED ret ELSE Fails(p, CONFIG)

unread == <<world, sessions, refused, args, reclaiming, first>>

(* config_handle_create calls create_run in the middle of the reading.     *)
(* (config_handle_print_create_sql only prints.)                           *)
ReadPriority(p) ==
    /\ At(p, "priority")
    /\ LET result == ReadCommandLine(args[p], TRUE, values[p])
       IN  IF result.ran = "create"
           THEN /\ values' = [values EXCEPT ![p] = result.values]
                /\ setup' = [setup EXCEPT ![p] = NewSetup(p)]
                /\ Goto(p, "ask path")
                /\ UNCHANGED ret
           ELSE Reads(p, result, "file") /\ UNCHANGED setup
    /\ UNCHANGED unread

CreateReturns(p) ==
    /\ At(p, "over")
    /\ Fails(p, CONFIG)
    /\ UNCHANGED <<values, setup, unread>>

LinesOf(p) ==
    IF values[p]["config_file"] \in Paths THEN conf[p][values[p]["config_file"]]
    ELSE Absent

ReadConfigFile(p) ==
    /\ At(p, "file")
    /\ IF LinesOf(p) = Absent
       THEN Fails(p, CONFIG) /\ UNCHANGED values
       ELSE Reads(p, ReadFile(LinesOf(p).lines, values[p]), "rest")
    /\ UNCHANGED <<setup, unread>>

ReadRest(p) ==
    /\ At(p, "rest")
    /\ Reads(p, ReadCommandLine(args[p], FALSE, values[p]), "check")
    /\ UNCHANGED <<setup, unread>>

Retries(p) ==
    {Number(values[p][key]) : key \in {"failed_query_retry_wait",
                                       "failed_query_retry_count"}}

(* check_config *)
Check(p) ==
    /\ At(p, "check")
    /\ IF \A n \in Retries(p) : n >= -1
       THEN Goto(p, "confirm") /\ UNCHANGED ret ELSE Fails(p, CONFIG)
    /\ UNCHANGED <<values, setup, unread>>

(* confirm_config *)
Confirm(p) ==
    /\ At(p, "confirm")
    /\ \/ Goto(p, "connect") /\ UNCHANGED ret
       \/ Fails(p, CONFIG)
    /\ UNCHANGED <<values, setup, unread>>

untouched == <<values, world, setup, refused, args, first>>

(* myfs_connect.  The query for max_allowed_packet is the first that is    *)
(* retried as the options say.                                             *)
Connect(p) ==
    /\ At(p, "connect")
    /\ \/ /\ sessions' = sessions \cup {<<p, "myfs">>}
          /\ Goto(p, "variables") /\ UNCHANGED ret
       \/ "connect" \in Faults /\ Fails(p, DATABASE) /\ UNCHANGED sessions
    /\ UNCHANGED <<untouched, reclaiming>>

MayGiveUp(p) ==
    \/ Number(values[p]["failed_query_retry_wait"]) = -1
    \/ Number(values[p]["failed_query_retry_count"]) # -1

AskPacketSize(p) ==
    /\ At(p, "variables")
    /\ \/ Goto(p, "reclaimer") /\ UNCHANGED ret
       \/ "statement" \in Faults /\ MayGiveUp(p) /\ Fails(p, DATABASE)
    /\ UNCHANGED <<untouched, sessions, reclaiming>>

(* reclaimer_start: a session of its own, and the thread. *)
StartReclaimer(p) ==
    /\ At(p, "reclaimer")
    /\ \/ /\ values[p]["reclaimer_level"] = "0"
          /\ Goto(p, "fuse") /\ UNCHANGED <<ret, sessions, reclaiming>>
       \/ /\ values[p]["reclaimer_level"] # "0"
          /\ sessions' = sessions \cup {<<p, "reclaimer">>}
          /\ \/ /\ Goto(p, "fuse") /\ UNCHANGED ret
                /\ reclaiming' = reclaiming \cup {p}
             \/ "thread" \in Faults /\ Fails(p, RECLAIMER) /\ UNCHANGED reclaiming
       \/ /\ values[p]["reclaimer_level"] # "0"
          /\ "connect" \in Faults
          /\ Fails(p, RECLAIMER) /\ UNCHANGED <<sessions, reclaiming>>
    /\ UNCHANGED untouched

(* fuse_main mounts and serves; it fails where there is no directory, and  *)
(* may fail with one (no /dev/fuse, no permission).                        *)
FuseMain(p) ==
    /\ At(p, "fuse")
    /\ \/ mountpoint[p] = "dir" /\ Goto(p, "mounted") /\ UNCHANGED ret
       \/ (mountpoint[p] # "dir" \/ "mount" \in Faults) /\ Fails(p, FUSE)
    /\ UNCHANGED <<untouched, sessions, reclaiming>>

Unmounted(p) ==
    /\ At(p, "mounted")
    /\ Goto(p, "done")
    /\ UNCHANGED <<untouched, ret, sessions, reclaiming>>

(* done: myfs_disconnect, whether there is a session or not *)
Disconnect(p) ==
    /\ At(p, "done")
    /\ sessions' = sessions \ {<<p, "myfs">>}
    /\ Goto(p, "stop")
    /\ UNCHANGED <<untouched, ret, reclaiming>>

(* Mutant of StopReclaimer: the session is closed only with the thread. *)
StopReclaimerIfRunning(p) ==
    /\ At(p, "stop")
    /\ reclaiming' = reclaiming \ {p}
    /\ sessions' = IF p \in reclaiming THEN sessions \ {<<p, "reclaimer">>} ELSE sessions
    /\ Goto(p, "down")
    /\ UNCHANGED <<untouched, ret>>

(* reclaimer_stop: the thread is joined, and the session is closed also    *)
(* when the thread never ran.                                              *)
StopReclaimer(p) ==
    /\ At(p, "stop")
    /\ reclaiming' = reclaiming \ {p}
    /\ sessions' = sessions \ {<<p, "reclaimer">>}
    /\ Goto(p, "down")
    /\ UNCHANGED <<untouched, ret>>

Main(p) ==
    \/ ReadPriority(p) \/ CreateReturns(p) \/ ReadConfigFile(p) \/ ReadRest(p)
    \/ Check(p) \/ Confirm(p) \/ Connect(p) \/ AskPacketSize(p)
    \/ StartReclaimer(p) \/ FuseMain(p) \/ Unmounted(p)
    \/ Disconnect(p) \/ StopReclaimer(p)

Wizards(p) == Wizard(p) /\ UNCHANGED own

Next == \E p \in Procs : Main(p) \/ Wizards(p)

(* Queries come back, and the code goes on by itself; an operator may      *)
(* never answer a prompt.                                                  *)
Spec ==
    /\ Init /\ [][Next]_vars
    /\ \A p \in Procs : /\ WF_vars(Work(p) /\ UNCHANGED own)
                        /\ WF_vars(CreateReturns(p) \/ Disconnect(p) \/ StopReclaimer(p))

-----------------------------------------------------------------------------
(* Once a process has its options, each has the value of the last source   *)
(* that gives it one that is not refused: the command line before the file *)
(* before the default, wherever an option stands among the arguments and   *)
(* although these are read twice.                                          *)
HasOptions(p) ==
    phase[p] \in {"check", "confirm", "connect", "variables", "reclaimer",
                  "fuse", "mounted"}

OptionsAreAsTold ==
    \A p \in Procs : HasOptions(p) =>
        \A key \in Options :
            values[p][key] = Told(args[p], LinesOf(p).lines, key)

(* config.h: config_read_file returns "`false` if an invalid config was    *)
(* found, otherwise `true`", and MyFS does not start then: no line of the  *)
(* file that was refused is forgotten because of the lines that follow.    *)
ErrorsStop ==
    \A p \in Procs : HasOptions(p) =>
        \A i \in DOMAIN LinesOf(p).lines : ~Bad(LinesOf(p).lines[i])

(* However main() comes to its end (no option, no connection, no thread,   *)
(* no mount point, or after serving), neither a session nor the reclaimer  *)
(* thread of the process is left.                                          *)
LeavesNothingRunning ==
    \A p \in Procs : phase[p] = "down" =>
        /\ p \notin reclaiming
        /\ \A purpose \in Purposes : <<p, purpose>> \notin sessions

(* Where the wizard says "MyFS has been setup", all of it is there: the    *)
(* mount point, a config file that MyFS accepts and that names the         *)
(* database, the database with all its tables and the root directory, the  *)
(* account that was asked for, and an account that has privileges on this  *)
(* database.  (create.c:455 and 462 grant to the account of the server's   *)
(* host, which need not be the one that was asked for.)  It stays so       *)
(* whatever another wizard does at the same time, and through connections  *)
(* that break and are replaced between the statements.                     *)
SetUpIsWhole ==
    \A p \in Procs : setup[p].done =>
        /\ mountpoint[p] = "dir"
        /\ conf[p][setup[p].path] # Absent
        /\ LET read == ReadFile(conf[p][setup[p].path].lines, Defaults)
           IN  /\ read.ok
               /\ read.values["mariadb_database"] = setup[p].database
        /\ databases[setup[p].database] # Absent
        /\ databases[setup[p].database].by = p
        /\ databases[setup[p].database].parts = Parts
        /\ setup[p].host \in accounts
        /\ \E host \in accounts : <<host, setup[p].database>> \in grants

(* A wizard that fails leaves no config file of its own. *)
FailedLeavesNoConfig ==
    \A p \in Procs : phase[p] = "down" /\ ~setup[p].done => conf[p] = first[p]

(* No process ever changes or drops a database that another one created,   *)
(* nor overwrites or removes a config file it found, however the wizards   *)
(* on two hosts interleave and wherever they fail.                         *)
OthersStay ==
    [][/\ \A name \in DbNames :
            databases[name] # Absent /\ databases'[name] # databases[name]
                => LET p == databases[name].by
                   IN  phase'[p] # phase[p] \/ setup'[p] # setup[p]
       /\ \A p \in Procs, path \in Paths :
            first[p][path] # Absent => conf'[p][path] = first[p][path]]_vars

(* Once the operator has agreed, the wizard comes to an end by itself: it  *)
(* retries nothing, neither a statement nor a removal.                     *)
AgreedEnds ==
    \A p \in Procs : phase[p] = "write" ~> phase[p] = "down"
=============================================================================
