----------------------------- MODULE MCStartup -----------------------------
(* The command lines and config files of the instances of Startup. *)
EXTENDS Startup

CONSTANTS p1, p2

Arg(key, value) == [key |-> key, value |-> value]

(* Only whether two options are given, and in which order, is told apart:  *)
(* one or two of these words and lines cover each branch of the readers.   *)
SomeArgs ==
    {Arg("config_file", "alt.conf"), Arg("failed_query_retry_wait", "-2"),
     Arg("failed_query_retry_wait", "1"), Arg("reclaimer_level", "0"),
     Arg("reclaimer_level", "3"), Arg("log_stdout", "no"),
     Arg("print_create_sql", "true"), Arg("bogus", "1"), Arg("mount", NoValue)}

SomeLines ==
    {Arg("failed_query_retry_wait", "2"), Arg("failed_query_retry_count", "-2"),
     Arg("failed_query_retry_count", "many"), Arg("reclaimer_level", "2"),
     Arg("reclaimer_level", "3"), Arg("log_stdout", "true"),
     Arg("config_file", "alt.conf"), Arg("mariadb_password", NoValue)}

MCWords ==
    (Options \cup {Defaults[key] : key \in Options} \cup {"0", "1", "true", "false"}
        \cup {entry.key : entry \in SomeArgs \cup SomeLines}
        \cup {entry.value : entry \in SomeArgs \cup SomeLines}
        \cup {"/elsewhere"} \cup DbNames) \ {NoValue}

UpTo2(entries) == {<<>>} \cup {<<a>> : a \in entries} \cup {<<a, b>> : a, b \in entries}

(* A lone word is the last one. *)
MountLines ==
    {line \in UpTo2(SomeArgs) :
        \A i \in DOMAIN line : line[i].value = NoValue => i = Len(line)}

Create == <<Arg("create", "true"), Arg("mount", "/elsewhere")>>

Start(procs, line, lines, there, accountHosts) ==
    [procs |-> procs, args |-> line, lines |-> lines, mountpoint |-> there,
     accounts |-> accountHosts]

(* One process that mounts, with any arguments and any file, or without    *)
(* its file or mount point; or a wizard on its own; or a wizard on each of *)
(* two hosts, where one config file is there already.                      *)
MCStarts ==
    {Start({p1}, line, lines, "dir", {}) : line \in MountLines, lines \in UpTo2(SomeLines)}
        \cup {Start({p1}, <<>>, lines, there, {}) :
                lines \in {Absent, <<>>}, there \in {"nothing", "file"}}
        \cup {Start({p1}, Create, Absent, "nothing", accountHosts) :
                accountHosts \in SUBSET Hosts}
        \cup {Start({p1, p2}, Create, <<>>, "dir", accountHosts) :
                accountHosts \in {{}, {"127.0.0.1"}}}

(* As create.c is, and with the two statements corrected. *)
AsIsOrCorrected == {AsWritten, {}}
AsIs == {AsWritten}

(* One process with any file of up to two lines *)
AnyFile == {Start({p1}, <<>>, lines, "dir", {}) : lines \in UpTo2(SomeLines)}
=============================================================================
