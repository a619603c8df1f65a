------------------------------- MODULE MonTask -------------------------------
(***************************************************************************)
(* The monitoring object of a task and those of its streams                *)
(* (modimpl/monitoring.c).  Stream events are collected in a list of       *)
(* changed streams, which is printed and emptied whenever the task stops.  *)
(* The callbacks come in the order in which LpelStreamRead(),              *)
(* LpelStreamWrite() and LpelStreamPoll() make them: a stream that blocks  *)
(* the task is marked before the task stops, and a stream that wakes up    *)
(* the other side is then marked as moved, without a stop in between.      *)
(***************************************************************************)
EXTENDS Integers, Sequences, FiniteSets

CONSTANTS
  Mons,          \* addresses that malloc() gives to mon_stream_t objects
  Flags,         \* mon_flags: TASK, STREAM or both
  MaxCounter,    \* bound: items moved between two stops
  NULL, DIRTY_END

VARIABLES
  tstate,        \* "created", "running", "stopped", "zombie", "destroyed"
  assigned,      \* mt->mw is not NULL
  dirty_list, blockon, last_cnt,     \* of the task
  allocated,     \* the stream objects that exist
  open,          \* those a descriptor points to (sd->mon)
  dirty, mode, state, counter, strevt,   \* of each stream object
  call,          \* the stream operation that is under way, and its phase
  cause,         \* why the task stopped: 'I', 'O', 'A' or other
  printedCause,  \* what MonCbTaskStop() printed of it
  pending,       \* items moved and not yet reported, per stream object
  unreported     \* stream objects with any event that is not yet reported

taskVars == <<tstate, assigned>>
listVars == <<dirty_list, last_cnt, dirty>>
streamVars == <<allocated, open, mode, state, counter, strevt>>
ghostVars == <<cause, printedCause, pending, unreported>>
vars == <<taskVars, blockon, listVars, streamVars, call, ghostVars>>

Idle == [phase |-> "idle", ms |-> NULL]

(* LpelMonTaskCreate() *)
Init ==
  /\ tstate = "created" /\ assigned = FALSE
  /\ dirty_list = DIRTY_END /\ blockon = "none"
  /\ last_cnt = [x \in {"r", "w"} |-> 0]
  /\ allocated = {} /\ open = {}
  /\ dirty = [x \in Mons |-> NULL] /\ mode = [x \in Mons |-> "r"]
  /\ state = [x \in Mons |-> "I"] /\ counter = [x \in Mons |-> 0]
  /\ strevt = [x \in Mons |-> {}]
  /\ call = Idle
  /\ cause = "none" /\ printedCause = "none"
  /\ pending = [x \in Mons |-> 0] /\ unreported = {}

(* The dirty list, followed from its head *)
Chain ==
  LET walk[k \in 0 .. Cardinality(Mons)] ==
        IF k = 0 THEN <<>>
        ELSE LET c == walk[k - 1]
                 x == IF c = <<>> THEN dirty_list ELSE dirty[c[Len(c)]]
             IN IF x \in {NULL, DIRTY_END} THEN c ELSE Append(c, x)
  IN walk[Cardinality(Mons)]
Listed == {Chain[i] : i \in DOMAIN Chain}

(* MarkDirty(): of stream x, with its mode and its new counter *)
MarkDirty(x, m, n) ==
  /\ IF dirty[x] = NULL
     THEN dirty' = [dirty EXCEPT ![x] = dirty_list] /\ dirty_list' = x
     ELSE UNCHANGED <<dirty, dirty_list>>
  /\ last_cnt' = [last_cnt EXCEPT ![m] = n]

-----------------------------------------------------------------------------
(* Callbacks of the task *)

MonCbTaskAssign ==
  /\ tstate \in {"created", "stopped"}
  /\ assigned' = TRUE
  /\ UNCHANGED <<tstate, blockon, listVars, streamVars, call, ghostVars>>

MonCbTaskStart ==
  /\ tstate \in {"created", "stopped"} /\ assigned
  /\ tstate' = "running"
  /\ blockon' = "A"
  /\ call' = IF call.phase = "blockon" THEN [call EXCEPT !.phase = "resumed"] ELSE call
  /\ cause' = "none" /\ printedCause' = "none"
  /\ UNCHANGED <<assigned, listVars, streamVars, pending, unreported>>

(* Prints and empties the list; objects of closed streams are freed *)
PrintDirtyList ==
  LET listed == Listed
      closed == {x \in listed : state[x] = "C"} IN
  /\ counter' = [x \in Mons |-> IF x \in listed THEN 0 ELSE counter[x]]
  /\ state' = [x \in Mons |-> IF x \in listed \ closed THEN "I" ELSE state[x]]
  /\ dirty' = [x \in Mons |-> IF x \in listed THEN NULL ELSE dirty[x]]
  /\ strevt' = [x \in Mons |-> IF x \in listed \ closed THEN {} ELSE strevt[x]]
  /\ allocated' = allocated \ closed
  /\ dirty_list' = DIRTY_END
  /\ pending' = [x \in Mons |-> IF x \in listed THEN pending[x] - counter[x] ELSE pending[x]]
  /\ unreported' = unreported \ listed

(* The worker has assigned the task, so mt->mw is set.                       *)
(* A task stops in a stream operation that blocks, in LpelStreamPoll(), to   *)
(* yield, or for good when it has closed its streams                         *)
MonCbTaskStop ==
  /\ tstate = "running"
  /\ call.phase \in {"idle", "blockon"}
  /\ \/ /\ tstate' = "stopped"
        /\ cause' \in IF call.phase = "idle" THEN {"A", "ready"}
                      ELSE {IF mode[call.ms] = "r" THEN "I" ELSE "O"}
     \/ call.phase = "idle" /\ open = {} /\ tstate' = "zombie" /\ cause' = "zombie"
  /\ printedCause' = IF cause' \in {"ready", "zombie"} THEN cause' ELSE blockon
  /\ IF "STREAM" \in Flags
     THEN PrintDirtyList
     ELSE UNCHANGED <<dirty_list, dirty, allocated, state, counter, strevt, pending, unreported>>
  /\ UNCHANGED <<assigned, blockon, last_cnt, open, mode, call>>

MonCbTaskDestroy ==
  /\ tstate = "zombie" /\ tstate' = "destroyed"
  /\ UNCHANGED <<assigned, blockon, listVars, streamVars, call, ghostVars>>

-----------------------------------------------------------------------------
(* Callbacks of a stream, while the task runs *)

CanCall == tstate = "running" /\ call.phase = "idle"

MonCbStreamOpen(x, m) ==
  /\ CanCall /\ Flags # {} /\ x \notin allocated
  /\ allocated' = allocated \cup {x} /\ open' = open \cup {x}
  /\ mode' = [mode EXCEPT ![x] = m]
  /\ state' = [state EXCEPT ![x] = "O"]
  /\ counter' = [counter EXCEPT ![x] = 0]
  /\ strevt' = [strevt EXCEPT ![x] = {}]
  /\ dirty' = [dirty EXCEPT ![x] = dirty_list] /\ dirty_list' = x
  /\ last_cnt' = [last_cnt EXCEPT ![m] = 0]
  /\ pending' = [pending EXCEPT ![x] = 0] /\ unreported' = unreported \cup {x}
  /\ UNCHANGED <<taskVars, blockon, call, cause, printedCause>>

(* The object is kept until it has been printed *)
MonCbStreamClose(x) ==
  /\ CanCall /\ x \in open
  /\ open' = open \ {x}
  /\ state' = [state EXCEPT ![x] = "C"]
  /\ MarkDirty(x, mode[x], counter[x])
  /\ unreported' = unreported \cup {x}
  /\ UNCHANGED <<taskVars, blockon, allocated, mode, counter, strevt, call, cause,
                 printedCause, pending>>

MonCbStreamReplace(x) ==
  /\ CanCall /\ x \in open /\ mode[x] = "r"
  /\ state' = [state EXCEPT ![x] = "R"]
  /\ MarkDirty(x, mode[x], counter[x])
  /\ unreported' = unreported \cup {x}
  /\ UNCHANGED <<taskVars, blockon, allocated, open, mode, counter, strevt, call, cause,
                 printedCause, pending>>

(* The stream operation blocks: the task will stop *)
MonCbStreamBlockon(x) ==
  /\ CanCall /\ x \in open
  /\ strevt' = [strevt EXCEPT ![x] = @ \cup {"BLOCKON"}]
  /\ MarkDirty(x, mode[x], counter[x])
  /\ blockon' = IF mode[x] = "r" THEN "I" ELSE "O"
  /\ call' = [phase |-> "blockon", ms |-> x]
  /\ unreported' = unreported \cup {x}
  /\ UNCHANGED <<taskVars, allocated, open, mode, state, counter, cause, printedCause, pending>>

(* "MarkDirty() not needed, as Moved() event is called anyway" *)
MonCbStreamWakeup(x) ==
  /\ tstate = "running" /\ x \in open
  /\ call = Idle \/ call = [phase |-> "resumed", ms |-> x]
  /\ strevt' = [strevt EXCEPT ![x] = @ \cup {"WAKEUP"}]
  /\ call' = [phase |-> "wakeup", ms |-> x]
  /\ unreported' = unreported \cup {x}
  /\ UNCHANGED <<taskVars, blockon, listVars, allocated, open, mode, state, counter, cause,
                 printedCause, pending>>

(* fault: a move is not entered in the list, as a wake-up is not *)
StreamFinishNotDirty(x) ==
  /\ tstate = "running" /\ x \in open /\ counter[x] < MaxCounter
  /\ call \in {Idle} \cup {[phase |-> p, ms |-> x] : p \in {"resumed", "wakeup"}}
  /\ counter' = [counter EXCEPT ![x] = @ + 1]
  /\ strevt' = [strevt EXCEPT ![x] = @ \cup {"MOVED"}]
  /\ call' = Idle
  /\ pending' = [pending EXCEPT ![x] = @ + 1] /\ unreported' = unreported \cup {x}
  /\ UNCHANGED <<taskVars, blockon, listVars, allocated, open, mode, state, cause, printedCause>>

(* MonCbStreamReadFinish() and MonCbStreamWriteFinish() *)
MonCbStreamFinish(x) ==
  /\ tstate = "running" /\ x \in open /\ counter[x] < MaxCounter
  /\ call \in {Idle} \cup {[phase |-> p, ms |-> x] : p \in {"resumed", "wakeup"}}
  /\ counter' = [counter EXCEPT ![x] = @ + 1]
  /\ strevt' = [strevt EXCEPT ![x] = @ \cup {"MOVED"}]
  /\ MarkDirty(x, mode[x], counter[x] + 1)
  /\ call' = Idle
  /\ pending' = [pending EXCEPT ![x] = @ + 1] /\ unreported' = unreported \cup {x}
  /\ UNCHANGED <<taskVars, blockon, allocated, open, mode, state, cause, printedCause>>

Next ==
  \/ MonCbTaskAssign \/ MonCbTaskStart \/ MonCbTaskStop \/ MonCbTaskDestroy
  \/ \E x \in Mons :
       \/ \E m \in {"r", "w"} : MonCbStreamOpen(x, m)
       \/ MonCbStreamClose(x) \/ MonCbStreamReplace(x)
       \/ MonCbStreamBlockon(x) \/ MonCbStreamWakeup(x) \/ MonCbStreamFinish(x)

Spec == Init /\ [][Next]_vars

-----------------------------------------------------------------------------
(* When the task has stopped, PrintDirtyList() has reported every event of   *)
(* every stream, also the wake-ups that are not entered in the list, and     *)
(* every item once; MonCbTaskStop() has printed what the task really waits   *)
(* for: a read ('I'), a write ('O') or LpelStreamPoll() ('A').               *)
NothingUnreported ==
  tstate \in {"stopped", "zombie"} =>
    /\ unreported = {}
    /\ \A x \in open : pending[x] = 0
    /\ printedCause = cause
=============================================================================
