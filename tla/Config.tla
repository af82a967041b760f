------------------------------- MODULE Config -------------------------------
(***************************************************************************)
(* The options of MyFS: src/common/config.c with the options and handlers  *)
(* of src/myfs/main.c.  A value is the string it is given as.              *)
(*                                                                         *)
(* `values' is the list of options, a function from their names.  A word   *)
(* of the command line and what follows it, and a line of the file, are a  *)
(* record with a key and a value; the value is NoValue for a last word     *)
(* that nothing follows and for a line with nothing behind its `='.  The   *)
(* lines that config_read_file skips (blank, `#') are left out.            *)
(***************************************************************************)
EXTENDS Integers, Sequences, SequencesExt

CONSTANTS
    Words,      \* the strings that are given: the names of options, and values
    NoValue,    \* NULL
    User        \* the name of the user and of the group that start MyFS

Values == Words \cup {NoValue}

(* A word of the command line and what follows it, or a line of the file *)
Entries == [key : Words, value : Values]

Priorities == {"config_file", "create", "print_create_sql"}

(* config_set_default, for each option *)
Defaults ==
    [config_file |-> "myfs.conf", create |-> "false", print_create_sql |-> "false",
     failed_query_retry_wait |-> "-1", failed_query_retry_count |-> "-1",
     log_stdout |-> "true", log_syslog |-> "false", reclaimer_level |-> "1",
     mariadb_database |-> "myfs", mariadb_host |-> "127.0.0.1",
     mariadb_password |-> NoValue, mariadb_port |-> "3306",
     mariadb_user |-> "myfs", mount |-> "/mnt/myfs", user |-> User, group |-> User]

Options == DOMAIN Defaults

ASSUME WordsAssumption ==
    /\ Options \cup {"0", "1", "true", "false"} \subseteq Words
    /\ \A key \in Options : Defaults[key] \in Values

(* The options that have a name in the file: all but the priority ones. *)
InFile == Options \ Priorities

(* The options with a function of main.c that is called with each value. *)
Logs == {"log_stdout", "log_syslog"}
Runs == {"create", "print_create_sql"}
Handled == Logs \cup Runs \cup {"reclaimer_level"}

(* atoi, over the values that occur: any other string counts as zero, which *)
(* is so for words, and leaves out the other numbers.                      *)
Number(value) ==
    CASE value = "-2" -> -2
      [] value = "-1" -> -1
      [] value = "1"  -> 1
      [] value = "2"  -> 2
      [] value = "3"  -> 3
      [] OTHER        -> 0

Levels == {0, 1, 2}

-----------------------------------------------------------------------------
(* What an option is set to when it is given `value': main.c brings the    *)
(* values of three options into a form of its own, and refuses some of one.*)
Refuses(key, value) == key = "reclaimer_level" /\ Number(value) \notin Levels

Normal(key, value) ==
    CASE key \in Logs              -> IF value = "true" THEN "true" ELSE "false"
      [] key = "reclaimer_level"   -> IF Number(value) = 0 THEN "0" ELSE value
      [] OTHER                     -> value

(* Mutant of Assign: main.c keeps a level that it has refused. *)
AssignAnyway(values, key, value) == [values EXCEPT ![key] = Normal(key, value)]

(* config_set and the handlers that set *)
Assign(values, key, value) ==
    IF Refuses(key, value) THEN values
    ELSE [values EXCEPT ![key] = Normal(key, value)]

-----------------------------------------------------------------------------
(* One line of config_read_file.  A handler's answer overwrites `success', *)
(* so that an error of an earlier line is forgotten; config_set's answer   *)
(* does not touch it.                                                      *)
Unknown(state) == [state EXCEPT !.ok = FALSE]

AcceptLine(state, line) ==
    IF line.value = NoValue THEN state
    ELSE IF line.key \notin InFile THEN Unknown(state)
    ELSE [values |-> Assign(state.values, line.key, line.value),
          ok |-> IF line.key \in Handled THEN ~Refuses(line.key, line.value)
                 ELSE state.ok]

(* config_read_file: every line is read, also after an error. *)
ReadFile(lines, values) ==
    FoldLeft(AcceptLine, [values |-> values, ok |-> TRUE], lines)

-----------------------------------------------------------------------------
(* One round of config_read_command_line, which ends at the first error.   *)
(* --help and a word that is no option's are the same to the caller.  The  *)
(* handlers of `create' and `print_create_sql' do their work and answer    *)
(* FALSE: `ran' names the one that did.                                    *)
Nothing == "nothing"

(* Mutant of TakeArg: an option that was set before keeps its value.       *)
TakeArgOnce(state, arg, priority) ==
    IF ~state.ok THEN state
    ELSE IF arg.value = NoValue \/ arg.key \notin Options THEN [state EXCEPT !.ok = FALSE]
    ELSE IF (arg.key \in Priorities) # priority THEN state
    ELSE IF arg.key \in Runs THEN [state EXCEPT !.ok = FALSE, !.ran = arg.key]
    ELSE IF state.values[arg.key] # Defaults[arg.key] THEN state
    ELSE [state EXCEPT !.values = Assign(state.values, arg.key, arg.value),
                       !.ok = ~Refuses(arg.key, arg.value)]

TakeArg(state, arg, priority) ==
    IF ~state.ok THEN state
    ELSE IF arg.value = NoValue \/ arg.key \notin Options THEN [state EXCEPT !.ok = FALSE]
    ELSE IF (arg.key \in Priorities) # priority THEN state
    ELSE IF arg.key \in Runs THEN [state EXCEPT !.ok = FALSE, !.ran = arg.key]
    ELSE [state EXCEPT !.values = Assign(state.values, arg.key, arg.value),
                       !.ok = ~Refuses(arg.key, arg.value)]

ReadCommandLine(args, priority, values) ==
    FoldLeft(LAMBDA state, arg : TakeArg(state, arg, priority),
             [values |-> values, ok |-> TRUE, ran |-> Nothing], args)

-----------------------------------------------------------------------------
(* For reference, what an option should be: the last value the command     *)
(* line gives it, or else the last one the file gives it that is not       *)
(* refused, or else its default.                                           *)
Given(entries, key) ==
    {i \in DOMAIN entries : /\ entries[i].key = key /\ entries[i].value # NoValue
                            /\ ~Refuses(key, entries[i].value)}

Told(args, lines, key) ==
    LET said == Given(args, key)
        written == IF key \in InFile THEN Given(lines, key) ELSE {}
    IN  IF said # {} THEN Normal(key, args[Max(said)].value)
        ELSE IF written # {} THEN Normal(key, lines[Max(written)].value)
        ELSE Defaults[key]

(* A line of the file that config_read_file complains about *)
Bad(line) ==
    line.value # NoValue /\ (line.key \notin InFile \/ Refuses(line.key, line.value))
=============================================================================
