------------------------------ MODULE MonWorker ------------------------------
(***************************************************************************)
(* The monitoring context of one worker or wrapper (modimpl/monitoring.c): *)
(* it times how long the worker waits and prints that to a log.  Of the    *)
(* log only the times are kept that were just printed: PrintTimingNs() and *)
(* PrintNormTSns() assert what they print.  The clock is the wall clock,   *)
(* which may be set, forward and back, at any time (timing.c:23).          *)
(***************************************************************************)
EXTENDS Timing, Sequences

CONSTANTS
  MaxClock,       \* bound: nanoseconds of the run
  MaxWaits,       \* bound: waits of the worker
  MaxTicks        \* bound: nanoseconds by which the clock changes at once

VARIABLES
  clock,          \* nanoseconds since monitoring_begin
  is_wrapper,     \* created by MonCbWrapperCreate()
  flags,          \* mon_flags: those of WORKER, TIME, LOAD that are set
  state,          \* "none", "running", "waiting", "destroyed"
  wait_current, wait_cnt, wait_time,
  printed,        \* what a callback has just printed: <<kind, time>> in order
  began,          \* the clock at the start of the wait
  waited, waits   \* sum of the waits that ended, number of those that started

vars == <<clock, is_wrapper, flags, state, wait_current, wait_cnt, wait_time, printed,
          began, waited, waits>>

(* A word of memory that malloc() returned and nobody has set *)
Garbage == {0, Billion + 1}

(* monitoring_begin is 0; PrintNormTS() prints the difference to it *)
PrintNormTS == <<<<"stamp", LpelTimingDiff(Zero, TIMESTAMP(clock))>>>>

Init ==
  /\ clock = 0 /\ is_wrapper \in BOOLEAN /\ flags \in SUBSET {"WORKER", "TIME", "LOAD"} /\ state = "none"
  /\ wait_current = Zero /\ wait_cnt = 0 /\ wait_time = Zero
  /\ printed = <<>> /\ began = 0 /\ waited = 0 /\ waits = 0

FLAG(f) == f \in flags
If(c, s) == IF c THEN s ELSE <<>>

(* Time passes, or the clock is set *)
Tick ==
  /\ state # "destroyed"
  /\ \E d \in -MaxTicks .. MaxTicks :
       clock + d \in -MaxTicks .. MaxClock /\ clock' = clock + d
  /\ printed' = <<>> /\ began' = IF state = "waiting" THEN began ELSE 0
  /\ UNCHANGED <<is_wrapper, flags, state, wait_current, wait_cnt, wait_time, waited, waits>>

(* fault: the statistics are not cleared *)
WorkerCreateNoClear ==
  /\ ~is_wrapper /\ state = "none" /\ state' = "running"
  /\ wait_current' = Zero
  /\ wait_cnt' \in Garbage
  /\ \E n \in Garbage : wait_time' = [sec |-> 0, nsec |-> n]
  /\ printed' = If((FLAG("WORKER") /\ FLAG("TIME")) \/ FLAG("LOAD"), PrintNormTS)
  /\ UNCHANGED <<clock, is_wrapper, flags, began, waited, waits>>

MonCbWorkerCreate ==
  /\ ~is_wrapper /\ state = "none" /\ state' = "running"
  /\ wait_current' = Zero
  /\ wait_cnt' = 0 /\ wait_time' = Zero
  /\ printed' = If((FLAG("WORKER") /\ FLAG("TIME")) \/ FLAG("LOAD"), PrintNormTS)
  /\ UNCHANGED <<clock, is_wrapper, flags, began, waited, waits>>

(* wait_cnt and wait_time are not set *)
MonCbWrapperCreate ==
  /\ is_wrapper /\ state = "none" /\ state' = "running"
  /\ wait_current' = Zero
  /\ wait_cnt' \in Garbage
  /\ \E s, n \in Garbage : wait_time' = [sec |-> s, nsec |-> n]
  /\ printed' = If(FLAG("WORKER") /\ FLAG("TIME"), PrintNormTS)
  /\ UNCHANGED <<clock, is_wrapper, flags, began, waited, waits>>

(* A DECEN wrapper starts to wait when it gets its task, and starts again   *)
(* when it really waits for a message                                       *)
MonCbWorkerWaitStart ==
  /\ state \in {"running"} \cup (IF is_wrapper THEN {"waiting"} ELSE {})
  /\ waits < MaxWaits
  /\ state' = "waiting"
  /\ wait_current' = TIMESTAMP(clock)
  /\ wait_cnt' = IF FLAG("LOAD") THEN wait_cnt + 1 ELSE wait_cnt
  /\ waits' = waits + 1
  /\ printed' = <<>> /\ began' = clock
  /\ UNCHANGED <<clock, is_wrapper, flags, wait_time, waited>>

MonCbWorkerWaitStop ==
  /\ state = "waiting" /\ state' = "running"
  /\ wait_current' = IF FLAG("WORKER") \/ FLAG("LOAD")
                     THEN LpelTimingEnd(wait_current, clock) ELSE wait_current
  /\ printed' = If(FLAG("WORKER"),
                   If(FLAG("TIME"), PrintNormTS) \o <<<<"wait", wait_current'>>>>)
  /\ wait_time' = IF FLAG("LOAD") THEN LpelTimingAdd(wait_time, wait_current')
                  ELSE wait_time
  /\ waited' = waited + (clock - began)
  /\ UNCHANGED <<clock, is_wrapper, flags, wait_cnt, began, waits>>

printStatistic == <<<<"total", wait_time>>>>

(* A worker is terminated while it waits for its next task *)
MonCbWorkerDestroy ==
  /\ state \in {"running", "waiting"} /\ state' = "destroyed"
  /\ printed' = If((FLAG("WORKER") /\ FLAG("TIME")) \/ FLAG("LOAD"), PrintNormTS)
                  \o If(FLAG("LOAD"), printStatistic)
  /\ UNCHANGED <<clock, is_wrapper, flags, wait_current, wait_cnt, wait_time, began, waited, waits>>

Next ==
  \/ Tick
  \/ MonCbWorkerCreate \/ MonCbWrapperCreate
  \/ MonCbWorkerWaitStart \/ MonCbWorkerWaitStop
  \/ MonCbWorkerDestroy

Spec == Init /\ [][Next]_vars

-----------------------------------------------------------------------------
(* The statistics of a worker are those of its waits that ended, whatever    *)
(* is logged besides and however the clock is set: the total that            *)
(* MonCbWorkerWaitStop() adds up is the sum of the differences between the   *)
(* clock at the end and at the start of the waits, negative ones included,   *)
(* and every wait is counted, the last one of a terminated worker included.  *)
(* A single wait is printed as this difference and, like the time stamps, in *)
(* the form that monitoring.c:180 and 211 assert.  The total is not in this  *)
(* form when its nanoseconds are exactly a second, which LpelTimingAdd()     *)
(* leaves as they are; they are never more.                                  *)
StatisticExact ==
  /\ (FLAG("LOAD") /\ state # "none" /\ ~is_wrapper) =>
        /\ LpelTimingToNSec(wait_time) = waited /\ wait_cnt = waits
        /\ wait_time.nsec \in 0 .. Billion
  /\ \A i \in DOMAIN printed :
        /\ printed[i][1] = "wait" => LpelTimingToNSec(printed[i][2]) = clock - began
        /\ printed[i][1] # "total" => printed[i][2].nsec \in 0 .. Billion - 1
=============================================================================
