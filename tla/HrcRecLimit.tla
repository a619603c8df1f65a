----------------------------- MODULE HrcRecLimit -----------------------------
(***************************************************************************)
(* The record limit of an HRC task: LpelTaskCheckYield() at the end of     *)
(* every write makes the task yield when it has written its limit, which   *)
(* grows and shrinks with the number of output streams.                    *)
(***************************************************************************)
EXTENDS Integers

CONSTANTS
  Factors,        \* arguments of LpelTaskSetRecLimit(), -1 if it is not called
  MaxStreams,     \* bound: output streams open at the same time
  MaxRecords      \* bound: records written in one run of the task

VARIABLES
  rec_limit_factor, rec_limit, rec_cnt,
  streams,        \* length of out_streams
  state,          \* "READY" (before its first run), "RUNNING", "YIELDED", "BLOCKED"
  written,        \* records written since the task was started or resumed
  closed          \* it has closed an output stream since then

vars == <<rec_limit_factor, rec_limit, rec_cnt, streams, state, written, closed>>

(* LpelTaskCreate() and LpelTaskSetRecLimit(), before LpelTaskStart() *)
Init ==
  /\ rec_limit_factor \in Factors
  /\ rec_limit = 0 /\ rec_cnt = 0 /\ streams = 0
  /\ state = "READY" /\ written = 0 /\ closed = FALSE

(* fault: the counter is not reset *)
TaskStartKeepCount ==
  /\ state \in {"READY", "BLOCKED"} /\ state' = "RUNNING"
  /\ written' = 0 /\ closed' = FALSE
  /\ UNCHANGED <<rec_limit_factor, rec_limit, rec_cnt, streams>>

(* TaskStart(), for the first time or after a read or write has blocked *)
TaskStart ==
  /\ state \in {"READY", "BLOCKED"} /\ state' = "RUNNING"
  /\ rec_cnt' = 0
  /\ written' = 0 /\ closed' = FALSE
  /\ UNCHANGED <<rec_limit_factor, rec_limit, streams>>

Block ==
  /\ state = "RUNNING" /\ state' = "BLOCKED"
  /\ UNCHANGED <<rec_limit_factor, rec_limit, rec_cnt, streams, written, closed>>

LpelTaskAddStream ==
  /\ state = "RUNNING" /\ streams < MaxStreams
  /\ streams' = streams + 1
  /\ rec_limit' = rec_limit + rec_limit_factor
  /\ UNCHANGED <<rec_limit_factor, rec_cnt, state, written, closed>>

LpelTaskRemoveStream ==
  /\ state = "RUNNING" /\ streams > 0
  /\ streams' = streams - 1 /\ closed' = TRUE
  /\ rec_limit' = rec_limit - rec_limit_factor
  /\ UNCHANGED <<rec_limit_factor, rec_cnt, state, written>>

(* LpelStreamWrite() ends with LpelTaskCheckYield() *)
LpelTaskCheckYield ==
  /\ state = "RUNNING" /\ streams > 0 /\ written < MaxRecords
  /\ written' = written + 1
  /\ \/ rec_limit < 0 /\ UNCHANGED <<state, rec_cnt>>
     \/ rec_limit >= 0 /\ rec_cnt = rec_limit /\ state' = "YIELDED" /\ UNCHANGED rec_cnt
     \/ rec_limit >= 0 /\ rec_cnt # rec_limit /\ rec_cnt' = rec_cnt + 1 /\ UNCHANGED state
  /\ UNCHANGED <<rec_limit_factor, rec_limit, streams, closed>>

(* The rest of LpelTaskCheckYield(): TaskStart(), and the record is counted *)
ResumeYield ==
  /\ state = "YIELDED" /\ state' = "RUNNING"
  /\ rec_cnt' = 1
  /\ written' = 0 /\ closed' = FALSE
  /\ UNCHANGED <<rec_limit_factor, rec_limit, streams>>

Next ==
  \/ TaskStart \/ Block
  \/ LpelTaskAddStream \/ LpelTaskRemoveStream
  \/ LpelTaskCheckYield \/ ResumeYield

Spec == Init /\ [][Next]_vars

-----------------------------------------------------------------------------
(* LpelTaskCheckYield() keeps a task with a limit from running on: unless it *)
(* closes a stream, it writes at most one record more than its limit before  *)
(* it yields (one more in its first run, since a record is counted after     *)
(* it was written), and it does not yield before.                            *)
YieldsAtLimit ==
  rec_limit_factor > 0 =>
    /\ ~closed => written <= rec_limit + 1
    /\ (state = "YIELDED" /\ ~closed) => written >= rec_limit

=============================================================================
