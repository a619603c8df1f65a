----------------------------- MODULE HrcPriority -----------------------------
(***************************************************************************)
(* The priority of one task while its streams are written and read.  The   *)
(* counters behind LpelStreamFillLevel() lag behind: a write is counted    *)
(* after the item was handed over, a read after the item was taken.        *)
(***************************************************************************)
EXTENDS TaskPriority

CONSTANTS
  In, Out,        \* streams of the task
  MaxRecords,     \* bound: records in a stream
  Lim             \* neg_demand_lim

Streams == In \cup Out

VARIABLES
  func,           \* argument of LpelTaskSetPriorityFunc()
  type,           \* of each stream, "none" if the task has not opened it
  gone,           \* the other side has destroyed the stream
  level,          \* write_cnt - read_cnt
  wlag, rlag      \* an item was put but not counted, or taken but not counted

vars == <<func, type, gone, level, wlag, rlag>>

Init ==
  /\ func \in 1 .. 14 \ {13}
  /\ type \in [Streams -> {"none", "ENTRY", "MIDDLE", "EXIT"}]
  /\ \A s \in In : type[s] # "EXIT"
  /\ \A s \in Out : type[s] # "ENTRY"
  /\ gone = {} /\ level = [s \in Streams |-> 0]
  /\ wlag = {} /\ rlag = {}

Lag(s, set) == IF s \in set THEN 1 ELSE 0
Records(s) == level[s] + Lag(s, wlag) - Lag(s, rlag)
Usable(s) == type[s] # "none" /\ s \notin gone

(* LpelStreamWrite(), up to V(n_sem), and its last step *)
Put(s) ==
  /\ Usable(s) /\ s \notin wlag /\ Records(s) < MaxRecords
  /\ wlag' = wlag \cup {s}
  /\ UNCHANGED <<func, type, gone, level, rlag>>
CountWrite(s) ==
  /\ s \in wlag
  /\ wlag' = wlag \ {s} /\ level' = [level EXCEPT ![s] = @ + 1]
  /\ UNCHANGED <<func, type, gone, rlag>>

(* LpelStreamRead(), up to LpelBufferPop(), and its last step *)
Take(s) ==
  /\ Usable(s) /\ s \notin rlag /\ Records(s) > 0
  /\ rlag' = rlag \cup {s}
  /\ UNCHANGED <<func, type, gone, level, wlag>>
CountRead(s) ==
  /\ s \in rlag
  /\ rlag' = rlag \ {s} /\ level' = [level EXCEPT ![s] = @ - 1]
  /\ UNCHANGED <<func, type, gone, wlag>>

(* LpelStreamClose() of the consumer: the task's descriptor loses its stream *)
Destroy(s) ==
  /\ s \in Out /\ Usable(s) /\ Records(s) = 0 /\ s \notin wlag \cup rlag
  /\ gone' = gone \cup {s}
  /\ UNCHANGED <<func, type, level, wlag, rlag>>

Next == \E s \in Streams : Put(s) \/ CountWrite(s) \/ Take(s) \/ CountRead(s) \/ Destroy(s)

Spec == Init /\ [][Next]_vars

-----------------------------------------------------------------------------
Entry(s) == [id |-> s, type |-> type[s], level |-> level[s], stream |-> s \notin gone]
List(set) == {Entry(s) : s \in {x \in set : type[x] # "none"}}
CalPriority == LpelTaskCalPriority(func, List(In), List(Out), Lim)

(* No reader has counted an item before its writer has *)
Ordered == \A s \in Streams : level[s] >= 0

(* Demand: when the master recomputes a priority after one more record was   *)
(* counted, it is not lower if the record waits in an input of the task, and *)
(* not higher if it waits in an output; the other way round for a record     *)
(* that was read.  This holds for every function of taskpriority.c, whether  *)
(* the first or last record makes the task one of another kind or not, and   *)
(* across neg_demand_lim.                                                    *)
DemandDriven ==
  [][(Ordered /\ Ordered') =>
       \A s \in Streams :
         /\ (IF s \in In THEN level'[s] > level[s] ELSE level'[s] < level[s])
              => ~Less(CalPriority', CalPriority)
         /\ (IF s \in In THEN level'[s] < level[s] ELSE level'[s] > level[s])
              => ~Less(CalPriority, CalPriority')]_vars
=============================================================================
