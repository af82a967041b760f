------------------------- MODULE Reclaimer_proofs -------------------------
(***************************************************************************)
(* What Reclaimer promises, for every WaitTime and RetryTime.              *)
(*                                                                         *)
(* Inv is inductive.  Accounted says that next_try keeps account of the    *)
(* time since the last failure; Flags says where the thread can be once    *)
(* the flags it has read were cleared: only in front of reclaimer_reset    *)
(* may a flag stand without a notification behind it, and a DELETE that is *)
(* owed keeps `run' set until then.                                        *)
(***************************************************************************)
EXTENDS Reclaimer, TLAPS

Accounted ==
    /\ cool + rest = RetryTime
    /\ thread = "optimize" => cool = 0
Flags ==
    /\ thread \in {"timer", "optimize"} => asked
    /\ quiet # Never \/ run => asked \/ thread = "reset"
    /\ run => level = "aggressive"
    /\ quiet # Never => level = "optimistic"
    /\ main = "starting" => quiet = Never /\ ~run /\ ~owed /\ thread = "none"
    /\ owed => thread # "reset"
    /\ owed /\ level = "aggressive" => run

Inv == TypeOK /\ Accounted /\ Flags

LEMMA InvInit == Init => Inv
  <1> SUFFICES ASSUME Init PROVE Inv
    OBVIOUS
  <1>1. cool \in 0..RetryTime /\ rest \in 0..RetryTime /\ cool + rest = RetryTime
    BY TimeAssumption DEF Init
  <1>2. TypeOK
    BY <1>1 DEF Init, TypeOK, Levels
  <1>3. ~run /\ ~owed /\ quiet = Never /\ thread = "none" /\ cool = 0
    BY DEF Init
  <1> QED
    BY <1>1, <1>2, <1>3 DEF Inv, Accounted, Flags

LEMMA InvStart ==
  ASSUME Inv, NEW l \in Levels, Start(l)
  PROVE  Inv'
  BY TimeAssumption, NeverAssumption
  DEF Inv, Accounted, Flags, TypeOK, Start, shared, history, Levels

LEMMA InvMain ==
  ASSUME Inv, Unmount \/ Stop \/ Joined
  PROVE  Inv'
  <1> USE DEF Inv, Accounted, Flags, TypeOK, shared, history
  <1>1. CASE Unmount
    BY <1>1 DEF Unmount
  <1>2. CASE Stop
    BY <1>2 DEF Stop
  <1>3. CASE Joined
    BY <1>3 DEF Joined
  <1> QED
    BY <1>1, <1>2, <1>3

LEMMA InvNotify ==
  ASSUME Inv, NEW action \in Actions, Notify(action)
  PROVE  Inv'
  BY TimeAssumption, NeverAssumption DEF Inv, Accounted, Flags, TypeOK, Notify, Levels, Actions

LEMMA InvTick ==
  ASSUME Inv, Tick
  PROVE  Inv'
  <1>1. /\ cool' \in 0..RetryTime /\ rest' \in 0..RetryTime
        /\ cool' + rest' = RetryTime
        /\ cool = 0 => cool' = 0
    BY TimeAssumption DEF Inv, Accounted, Flags, TypeOK, Tick
  <1>2. quiet' \in 0..WaitTime \cup {Never} /\ (quiet' # Never <=> quiet # Never)
    BY TimeAssumption, NeverAssumption DEF Inv, Accounted, Flags, TypeOK, Tick
  <1>3. TypeOK'
    BY <1>1, <1>2 DEF Inv, TypeOK, Tick
  <1>4. /\ thread' = thread /\ run' = run /\ asked' = asked /\ owed' = owed
        /\ level' = level /\ main' = main
    BY DEF Tick
  <1>5. Accounted'
    BY <1>1, <1>4 DEF Inv, Accounted
  <1>6. Flags'
    BY <1>2, <1>4 DEF Inv, Flags, TypeOK
  <1> QED
    BY <1>3, <1>5, <1>6 DEF Inv

LEMMA InvProcess ==
  ASSUME Inv, Process
  PROVE  Inv'
  <1> USE TimeAssumption, NeverAssumption DEF Inv, Accounted, Flags, TypeOK, shared, history, Levels
  <1>1. CASE Loop
    BY <1>1 DEF Loop
  <1>2. CASE Check
    <2>1. ShouldRun => quiet # Never \/ run
      <3>1. CASE level = "off"
        BY <3>1 DEF ShouldRun
      <3>2. CASE level = "optimistic"
        BY <3>2 DEF ShouldRun
      <3>3. CASE level = "aggressive"
        BY <3>3 DEF ShouldRun
      <3> QED
        BY <3>1, <3>2, <3>3
    <2> QED
      BY <1>2, <2>1 DEF Check
  <1>3. CASE Timer
    BY <1>3 DEF Timer
  <1>4. CASE Optimized
    BY <1>4 DEF Optimized
  <1>5. CASE OptimizeFails
    BY <1>5 DEF OptimizeFails
  <1>6. CASE Reset
    BY <1>6 DEF Reset
  <1> QED
    BY <1>1, <1>2, <1>3, <1>4, <1>5, <1>6 DEF Process

LEMMA InvNext == Inv /\ [Next]_vars => Inv'
  <1> SUFFICES ASSUME Inv, [Next]_vars PROVE Inv'
    OBVIOUS
  <1>1. CASE UNCHANGED vars
    BY <1>1 DEF Inv, Accounted, Flags, TypeOK, vars, shared, history
  <1>2. CASE Next
    BY <1>2, InvStart, InvMain, InvNotify, InvTick, InvProcess DEF Next
  <1> QED
    BY <1>1, <1>2

-----------------------------------------------------------------------------
LEMMA InvHolds == Spec => []Inv
  BY InvInit, InvNext, PTL DEF Spec

(* reclaimer.c: the variables of the reclaimer keep their types, and the   *)
(* two time stamps never stand for a negative duration.                    *)
THEOREM ReclaimerTypes == Spec => []TypeOK
  <1>1. Inv => TypeOK
    BY DEF Inv, Accounted, Flags
  <1> QED
    BY <1>1, InvHolds, PTL

(* reclaimer_process: no OPTIMIZE without a notification since the last    *)
(* one that succeeded, however notify, process and reset interleave.       *)
THEOREM ServedOnce == Spec => []NoNeedlessRun
  <1>1. Inv => NoNeedlessRun
    BY DEF Inv, Accounted, Flags, NoNeedlessRun
  <1> QED
    BY <1>1, InvHolds, PTL

(* reclaimer_notify, reclaimer_reset: what was deleted while no OPTIMIZE   *)
(* was under way is not forgotten, whichever queries fail.                 *)
THEOREM DeletesServed == Spec => []DeletesAreKept
  <1>1. Inv => DeletesAreKept
    BY DEF Inv, Accounted, Flags, DeletesAreKept
  <1> QED
    BY <1>1, InvHolds, PTL

(* reclaimer_process: RetryTime seconds lie between an OPTIMIZE that       *)
(* failed and the next one.                                                *)
THEOREM RetriesWait == Spec => RetriesApart
  <1>1. ASSUME Inv, [Next]_vars
        PROVE  thread # "optimize" /\ thread' = "optimize" => rest = RetryTime
    <2>1. CASE UNCHANGED vars
      BY <2>1 DEF vars
    <2>2. CASE Next
      <3>1. ASSUME thread # "optimize", thread' = "optimize"
            PROVE  Timer /\ cool = 0
        <4> USE <3>1, <2>2, <1>1 DEF Inv, Accounted, Flags, TypeOK
        <4>1. Process
          BY DEF Next, Start, Unmount, Stop, Joined, Notify, Tick
        <4> QED
          BY <4>1, TimeAssumption
          DEF Process, Loop, Check, Timer, Optimized, OptimizeFails, Reset
      <3> QED
        BY <3>1, <1>1, TimeAssumption DEF Inv, Accounted, Flags, TypeOK
    <2> QED
      BY <1>1, <2>1, <2>2
  <1>2. Inv /\ [Next]_vars
          => [thread # "optimize" /\ thread' = "optimize" => rest = RetryTime]_vars
    BY <1>1
  <1> QED
    BY <1>2, InvHolds, PTL DEF Spec, RetriesApart
=============================================================================
