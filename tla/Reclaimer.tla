----------------------------- MODULE Reclaimer -----------------------------
(***************************************************************************)
(* The reclaimer of MyFS, src/myfs/reclaimer.c: a thread of its own, with  *)
(* a connection of its own, that sends OPTIMIZE TABLE after files were     *)
(* deleted; and the part of main.c that starts and stops it.               *)
(*                                                                         *)
(* The FUSE callbacks call reclaimer_notify at any time while the file     *)
(* system is mounted.  They share last_action (behind a mutex) and `run'   *)
(* (an atomic) with the thread, which reads them, sends the query and      *)
(* clears them in separate steps.                                          *)
(*                                                                         *)
(* time(NULL) only ever matters as a difference, so the two time stamps    *)
(* are kept as durations: `quiet', the seconds since last_action, and      *)
(* `cool', the seconds until next_try.  The clock does not go backwards.   *)
(***************************************************************************)
EXTENDS Integers

CONSTANTS
    WaitTime,   \* RECLAIMER_OPTIMISTIC_WAIT_TIME
    RetryTime,  \* RECLAIMER_QUERY_RETRY_TIME
    Never       \* last_action = 0

ASSUME TimeAssumption == WaitTime \in Nat \ {0} /\ RetryTime \in Nat \ {0}
ASSUME NeverAssumption == Never \notin Int

VARIABLES
    main,       \* main.c: "starting", "mounted", "unmounted", "joining", "down"
    level,      \* "off", "optimistic" or "aggressive"
    running,    \* reclaimer.running
    thread,     \* where reclaimer_process is
    quiet,      \* seconds since optimistic.last_action, up to WaitTime
    run,        \* aggressive.run
    cool,       \* seconds until next_try
    rest,       \* history: seconds since an OPTIMIZE failed, up to RetryTime
    asked,      \* history: notified since the last OPTIMIZE that succeeded
    owed        \* history: a DELETE was notified while no OPTIMIZE was under
                \* way, and none has succeeded since

shared == <<quiet, run>>
history == <<rest, asked, owed>>
vars == <<main, level, running, thread, shared, cool, history>>

Levels == {"off", "optimistic", "aggressive"}
Actions == {"GENERAL", "DELETE"}

TypeOK ==
    /\ main \in {"starting", "mounted", "unmounted", "joining", "down"}
    /\ level \in Levels
    /\ running \in BOOLEAN
    /\ thread \in {"none", "loop", "check", "timer", "optimize", "reset", "gone"}
    /\ quiet \in 0..WaitTime \cup {Never}
    /\ run \in BOOLEAN
    /\ cool \in 0..RetryTime
    /\ rest \in 0..RetryTime
    /\ asked \in BOOLEAN /\ owed \in BOOLEAN

(* reclaimer_init *)
Init ==
    /\ main = "starting" /\ level = "off"
    /\ running = FALSE /\ thread = "none"
    /\ quiet = Never /\ run = FALSE
    /\ cool = 0
    /\ rest = RetryTime /\ asked = FALSE /\ owed = FALSE

-----------------------------------------------------------------------------
(* reclaimer_start; FUSE is mounted next, unless it failed.                *)
Start(l) ==
    /\ main = "starting"
    /\ level' = l
    /\ IF l = "off"
       THEN main' = "mounted" /\ UNCHANGED <<running, thread>>
       ELSE \/ main' = "mounted" /\ running' = TRUE /\ thread' = "loop"
            \/ main' = "unmounted" /\ UNCHANGED <<running, thread>>
    /\ UNCHANGED <<shared, cool, history>>

(* fuse_main returns. *)
Unmount ==
    /\ main = "mounted"
    /\ main' = "unmounted"
    /\ UNCHANGED <<level, running, thread, shared, cool, history>>

(* reclaimer_stop: the thread is told to end, and joined. *)
Stop ==
    /\ main = "unmounted"
    /\ main' = IF running THEN "joining" ELSE "down"
    /\ running' = FALSE
    /\ UNCHANGED <<level, thread, shared, cool, history>>

Joined ==
    /\ main = "joining"
    /\ thread = "gone"
    /\ main' = "down"
    /\ UNCHANGED <<level, running, thread, shared, cool, history>>

(* reclaimer_notify, from a FUSE thread *)
Notify(action) ==
    /\ main = "mounted"
    /\ LET runs == level = "aggressive" /\ action = "DELETE"
       IN  /\ quiet' = IF level = "optimistic" THEN 0 ELSE quiet
           /\ run' = (run \/ runs)
           /\ asked' = (asked \/ runs \/ level = "optimistic")
    /\ owed' = (owed \/ (action = "DELETE" /\ thread \notin {"optimize", "reset"}))
    /\ UNCHANGED <<main, level, running, thread, cool, rest>>

(* A second passes.  `cool' stays 0 once next_try has come.                *)
Tick ==
    /\ quiet' = IF quiet \in 0..(WaitTime - 1) THEN quiet + 1 ELSE quiet
    /\ cool' = IF cool > 0 THEN cool - 1 ELSE 0
    /\ rest' = IF rest < RetryTime THEN rest + 1 ELSE rest
    /\ UNCHANGED <<main, level, running, thread, run, asked, owed>>

-----------------------------------------------------------------------------
(* The loop of reclaimer_process, one step for each access to what it      *)
(* shares with the FUSE threads.                                           *)
Loop ==
    /\ thread = "loop"
    /\ thread' = IF running THEN "check" ELSE "gone"
    /\ UNCHANGED <<main, level, running, shared, cool, history>>

(* reclaimer_should_run *)
ShouldRun ==
    CASE level = "off"        -> FALSE
      [] level = "optimistic" -> quiet = WaitTime
      [] level = "aggressive" -> run

(* Mutant of Check: the thread waits for work without looking at `running'. *)
CheckForever ==
    /\ thread = "check"
    /\ ShouldRun
    /\ thread' = "timer"
    /\ UNCHANGED <<main, level, running, shared, cool, history>>

Check ==
    /\ thread = "check"
    /\ thread' = IF ShouldRun THEN "timer" ELSE "loop"
    /\ UNCHANGED <<main, level, running, shared, cool, history>>

(* Mutant of Timer: the timer is set again each time it is looked at. *)
TimerRearmed ==
    /\ thread = "timer"
    /\ thread' = IF cool > 0 THEN "loop" ELSE "optimize"
    /\ cool' = IF cool > 0 THEN RetryTime ELSE 0
    /\ UNCHANGED <<main, level, running, shared, history>>

Timer ==
    /\ thread = "timer"
    /\ thread' = IF cool > 0 THEN "loop" ELSE "optimize"
    /\ UNCHANGED <<main, level, running, shared, cool, history>>

Optimized ==
    /\ thread = "optimize"
    /\ thread' = "reset"
    /\ asked' = FALSE /\ owed' = FALSE
    /\ UNCHANGED <<main, level, running, shared, cool, rest>>

(* Mutant of OptimizeFails: the flags are reset whatever became of the     *)
(* query.                                                                  *)
OptimizeFailsAndResets ==
    /\ thread = "optimize"
    /\ thread' = "reset"
    /\ cool' = RetryTime
    /\ rest' = 0
    /\ UNCHANGED <<main, level, running, shared, asked, owed>>

(* Mutant of OptimizeFails: next_try is set with the other delay. *)
OptimizeFailsAndWaits ==
    /\ thread = "optimize"
    /\ thread' = "loop"
    /\ cool' = WaitTime
    /\ rest' = 0
    /\ UNCHANGED <<main, level, running, shared, asked, owed>>

(* Mutant of OptimizeFails: the next attempt follows one second too early. *)
OptimizeFailsSooner ==
    /\ thread = "optimize"
    /\ thread' = "loop"
    /\ cool' = RetryTime - 1
    /\ rest' = 0
    /\ UNCHANGED <<main, level, running, shared, asked, owed>>

OptimizeFails ==
    /\ thread = "optimize"
    /\ thread' = "loop"
    /\ cool' = RetryTime
    /\ rest' = 0
    /\ UNCHANGED <<main, level, running, shared, asked, owed>>

(* Mutant of Reset: last_action is kept. *)
ResetAggressiveOnly ==
    /\ thread = "reset"
    /\ thread' = "loop"
    /\ run' = IF level = "aggressive" THEN FALSE ELSE run
    /\ UNCHANGED <<main, level, running, quiet, cool, history>>

(* reclaimer_reset *)
Reset ==
    /\ thread = "reset"
    /\ thread' = "loop"
    /\ quiet' = IF level = "optimistic" THEN Never ELSE quiet
    /\ run' = IF level = "aggressive" THEN FALSE ELSE run
    /\ UNCHANGED <<main, level, running, cool, history>>

Process == Loop \/ Check \/ Timer \/ Optimized \/ OptimizeFails \/ Reset

Next ==
    \/ \E l \in Levels : Start(l)
    \/ Unmount \/ Stop \/ Joined
    \/ \E action \in Actions : Notify(action)
    \/ Tick
    \/ Process

(* The thread keeps running, a query comes back, time passes, and main     *)
(* goes on once FUSE has returned; whether it ever returns is open.        *)
Spec ==
    /\ Init /\ [][Next]_vars
    /\ WF_vars(Process) /\ WF_vars(Tick) /\ WF_vars(Stop) /\ WF_vars(Joined)

-----------------------------------------------------------------------------
(* After an OPTIMIZE that failed, the thread lets RetryTime seconds pass   *)
(* before the next one, however often it is notified in the meantime.      *)
RetriesApart ==
    [][thread # "optimize" /\ thread' = "optimize" => rest = RetryTime]_vars

(* The thread sends no OPTIMIZE unless it was notified since the last one  *)
(* that succeeded: a request is served once.                               *)
NoNeedlessRun == thread = "optimize" => asked

(* reclaimer_stop returns: the thread sees `running', whatever it is doing *)
(* and however often its query fails.                                      *)
StopReturns == main = "unmounted" ~> main = "down"

(* Once the callbacks are silent, a request that stands (last_action or    *)
(* `run' is set) leads to an attempt to reclaim the space, also after      *)
(* failures, or is being cleared by the attempt it was noticed during.     *)
Requested == running /\ (quiet # Never \/ run)
RequestsAreServed ==
    <>[][\A action \in Actions : ~Notify(action)]_vars
        => (Requested ~> (thread \in {"optimize", "reset"} \/ ~running))

(* At level aggressive a DELETE stays asked for until an OPTIMIZE after it *)
(* has succeeded, through failures and their retry time.  A DELETE that    *)
(* comes while an OPTIMIZE is under way is excepted: reclaimer_reset, at   *)
(* the end of it, takes that request for the one that was served.          *)
DeletesAreKept == level = "aggressive" /\ owed /\ running => run
=============================================================================
