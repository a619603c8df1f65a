-------------------------------- MODULE Timing --------------------------------
(***************************************************************************)
(* Times and their arithmetic (timing.c): seconds and nanoseconds, here    *)
(* with a second of Billion units so that small clocks pass many of them.  *)
(***************************************************************************)
EXTENDS Integers

CONSTANT Billion      \* TIMING_BILLION

Zero == [sec |-> 0, nsec |-> 0]

(* TIMESTAMP(t), with the clock counted in nanoseconds *)
TIMESTAMP(clock) == [sec |-> clock \div Billion, nsec |-> clock % Billion]

LpelTimingDiff(start, end) ==
  IF end.nsec < start.nsec
  THEN [sec |-> end.sec - (start.sec + 1), nsec |-> end.nsec - (start.nsec - Billion)]
  ELSE [sec |-> end.sec - start.sec, nsec |-> end.nsec - start.nsec]

(* t was set by LpelTimingStart() *)
LpelTimingEnd(t, clock) == LpelTimingDiff(t, TIMESTAMP(clock))

LpelTimingAdd(t, val) ==
  LET nsec == t.nsec + val.nsec
  IN IF nsec > Billion
     THEN [sec |-> t.sec + val.sec + 1, nsec |-> nsec - Billion]
     ELSE [sec |-> t.sec + val.sec, nsec |-> nsec]

LpelTimingToNSec(t) == t.sec * Billion + t.nsec

=============================================================================
