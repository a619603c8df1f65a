----------------------------- MODULE TaskPriority -----------------------------
(***************************************************************************)
(* Priorities of tasks (taskpriority.c, hrc_task.c).  A double is the      *)
(* fraction <<numerator, denominator>>, DBL_MAX the one above all others.  *)
(* Levels are small, so the rounding of doubles plays no role.             *)
(***************************************************************************)
EXTENDS Integers, FiniteSets, FiniteSetsExt

DBL_MAX == <<1, 0>>
LPEL_DBL_MIN == <<-1, 0>>

(* Order of fractions whose denominators are not negative *)
Less(p, q) == p[1] * q[2] < q[1] * p[2]

Square(n) == n * n

(* priorfunc1() to priorfunc12(), for in == -1 *)
EntryPrior(f, out) ==
  LET o == IF out = -1 THEN 0 ELSE out
  IN CASE f \in {1, 2, 5, 6, 9, 10} -> <<0, 1>>
       [] f \in {3, 4, 7, 8} -> <<1, 1 + o>>
       [] f \in {11, 12} -> <<1, Square(1 + o)>>

(* priorfunc1() to priorfunc12(), for in # -1 and out == -1 *)
ExitPrior(f, in) ==
  CASE f \in {1, 3, 5, 7, 9, 11} -> DBL_MAX
    [] f \in {2, 4, 10, 12} -> <<in + 1, 1>>
    [] f \in {6, 8} -> <<Square(in + 1), 1>>

(* priorfunc1() to priorfunc12(), otherwise *)
MiddlePrior(f, in, out) ==
  CASE f \in 1 .. 4 -> <<in + 1, out + 1>>
    [] f \in 5 .. 8 -> <<Square(in + 1), out + 1>>
    [] f \in 9 .. 12 -> <<in + 1, Square(out + 1)>>

priorfunc14(in, out) ==
  <<(IF in = -1 THEN 0 ELSE in) - (IF out = -1 THEN 0 ELSE out), 1>>

(* fault: input and output are swapped *)
PriorCalSwapped(f, in, out) ==
  IF f \notin 1 .. 12 THEN priorfunc14(out, in)
  ELSE IF in = -1 THEN EntryPrior(f, out)
  ELSE IF out = -1 THEN ExitPrior(f, in)
  ELSE MiddlePrior(f, out, in)

(* The function that LpelTaskSetPriorityFunc(f) installs, priorfunc13() and  *)
(* its random numbers aside; priorfunc14() is the default                    *)
prior_cal(f, in, out) ==
  IF f \notin 1 .. 12 THEN priorfunc14(in, out)
  ELSE IF in = -1 THEN EntryPrior(f, out)
  ELSE IF out = -1 THEN ExitPrior(f, in)
  ELSE MiddlePrior(f, in, out)

(* countRec(): a list is a set of entries, each with the type and the fill   *)
(* level of its stream; `stream' is FALSE where stream_desc->stream is NULL  *)
countRec(list, special) ==
  LET live == {e \in list : e.stream}
      cnt == MapThenSumSet(LAMBDA e : e.level, {e \in live : e.type # special})
  IN IF list = {} THEN -1
     ELSE IF cnt = 0 /\ \E e \in live : e.type = special THEN -1
     ELSE cnt

(* fault: the limit holds for every task *)
PriorityOfAny(f, in, out, lim) ==
  IF out > lim /\ lim > 0 THEN LPEL_DBL_MIN ELSE prior_cal(f, in, out)
(* LpelTaskCalPriority(), with the two counts and neg_demand_lim *)
PriorityOf(f, in, out, lim) ==
  IF in = -1 /\ out > lim /\ lim > 0 THEN LPEL_DBL_MIN ELSE prior_cal(f, in, out)

(* LpelTaskCalPriority(), with the lists of the task *)
LpelTaskCalPriority(f, inList, outList, lim) ==
  PriorityOf(f, countRec(inList, "ENTRY"), countRec(outList, "EXIT"), lim)
=============================================================================
