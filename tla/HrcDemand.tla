------------------------------ MODULE HrcDemand ------------------------------
(***************************************************************************)
(* Scheduler, priorities and streams together: a pipeline of tasks, the    *)
(* first of which, the entry task, always finds input from its wrapper.    *)
(* Every task reads a record from the stream before it and writes one to   *)
(* the stream behind it, again and again.  The steps of master and workers *)
(* are those of HrcSched; here the priorities they use are computed from   *)
(* the streams by priorfunc14(), and neg_demand_lim keeps the entry task   *)
(* from running too far ahead.  The program goes on for ever: no task      *)
(* exits and nobody calls LpelStop().                                      *)
(***************************************************************************)
EXTENDS HrcSched

CONSTANTS
  Pipe,             \* the tasks in the order of the pipeline
  Lims,             \* the limits a program may set
  rec_limit,        \* record limit of every task
  MaxLevel          \* bound: records in a stream

ASSUME DemandAssumption ==
  /\ Len(Pipe) > 1 /\ Tasks = {Pipe[i] : i \in DOMAIN Pipe}
  /\ \A i, j \in DOMAIN Pipe : Pipe[i] = Pipe[j] => i = j
  /\ Lims \subseteq Nat /\ NegDemandLim
  /\ rec_limit \in Nat \ {0} /\ MaxLevel \in Nat
  /\ MaxPrior = 2 * MaxLevel + 3
  /\ YieldsAtStop = FALSE

VARIABLES
  neg_demand_lim,   \* 0 if there is no limit
  n_sem,            \* of a stream
  level,            \* of a stream: write_cnt - read_cnt
  rec_cnt,          \* of a task
  step              \* of a task: where it is in LpelStreamRead() or LpelStreamWrite()

streamVars == <<neg_demand_lim, n_sem, level, rec_cnt, step>>
dvars == <<vars, streamVars>>

TP == INSTANCE TaskPriority

(* Stream s leads from Pipe[s] to Pipe[s + 1]; stream 0 and the last one are *)
(* the entry and the exit stream, which wrappers fill and empty              *)
Streams == 1 .. Len(Pipe) - 1
Entry == Pipe[1]
Input(t) == (CHOOSE i \in DOMAIN Pipe : Pipe[i] = t) - 1
Output(t) == Input(t) + 1

(* countRec() of a list with one stream *)
Count(s) == IF s \in Streams THEN level[s] ELSE -1

(* LpelTaskCalPriority(), moved into the range of HrcSched: 0 for the        *)
(* LPEL_DBL_MIN of a task that must not run, else a positive number          *)
CalPriorityOf(t) ==
  LET p == TP!PriorityOf(14, Count(Input(t)), Count(Output(t)), neg_demand_lim)
  IN IF p = TP!LPEL_DBL_MIN THEN LPEL_DBL_MIN ELSE MaxLevel + 2 + p[1]

(* updatePriorityNeigh(): the tasks before and behind t that are queued and  *)
(* have opened the stream, which they have not before they ran at all        *)
Neighbours(t) ==
  {u \in ready_tasks : Output(u) = Input(t) \/ Input(u) = Output(t)}
    \ {u \in Tasks : prior[u] = DBL_MAX}
(* The priorities when those of ts are computed *)
Recomputed(ts) == [u \in Tasks |-> IF u \in ts THEN CalPriorityOf(u) ELSE prior[u]]

(* t is ready: queued if its priority is LPEL_DBL_MIN, else sent to a worker *)
(* that waits or queued, and then the priorities of ts are computed too      *)
Schedule(t, ts) ==
  LET p == CalPriorityOf(t)
  IN IF p = LPEL_DBL_MIN THEN Enqueue(t, [prior EXCEPT ![t] = p])
     ELSE IF Waiting # {} THEN servePendingReq(t)
     ELSE Enqueue(t, [Recomputed(ts) EXCEPT ![t] = p])

(* MasterReturnBlocked, MasterReturnReady and MasterWakeup with these        *)
(* priorities                                                                *)
MasterBlocked ==
  /\ Handling("RETURN")
  /\ LET t == Head(mastermb).body
     IN /\ state[t] = "BLOCKED" /\ wakenup[t] = 0
        /\ state' = [state EXCEPT ![t] = "RETURNED"]
        /\ prior' = Recomputed(Neighbours(t))
  /\ mastermb' = Tail(mastermb)
  /\ LoopOrBroadcast(terminate, ready_tasks)
  /\ UNCHANGED <<wakenup, waiter, workermbs, mainpc, ready_tasks, waitworkers,
                 terminate, bcast, workerVars>>

MasterReady ==
  /\ Handling("RETURN")
  /\ LET t == Head(mastermb).body
     IN /\ \/ Woken(t) /\ wakenupUsed(t)
           \/ state[t] = "READY" /\ UNCHANGED wakenup
        /\ Schedule(t, Neighbours(t))
  /\ mastermb' = Tail(mastermb)
  /\ LoopOrBroadcast(terminate, ready_tasks')
  /\ UNCHANGED <<waiter, mainpc, terminate, bcast, workerVars>>

MasterWoken ==
  /\ Handling("WAKEUP")
  /\ LET t == Head(mastermb).body
     IN state[t] = "RETURNED" /\ Schedule(t, {})
  /\ mastermb' = Tail(mastermb)
  /\ LoopOrBroadcast(terminate, ready_tasks')
  /\ UNCHANGED <<wakenup, waiter, mainpc, terminate, bcast, workerVars>>

(* MasterLoop() with the priorities that LpelTaskCalPriority() returns *)
MasterLoop ==
  \/ MasterBlocked \/ MasterReady \/ MasterWoken
  \/ MasterAssign \/ MasterWakeupEarly \/ MasterRequestServe \/ MasterRequestWait

-----------------------------------------------------------------------------
(* The tasks *)

RunsAt(t, w, s) == wpc[w] = "task" /\ current_task[w] = t /\ step[t] = s
Goes(t, s) == step' = [step EXCEPT ![t] = s]

(* What a task does first for each record: the entry task, which never waits *)
(* for its input, writes                                                     *)
Begin(t) == IF t = Entry THEN "write" ELSE "read"

(* LpelStreamRead() up to P(n_sem), after which a task that blocked goes on  *)
(* with rec_cnt set to 0 by TaskStart() ...                                  *)
LpelStreamRead(t, w) ==
  /\ RunsAt(t, w, "read")
  /\ Goes(t, "take")
  /\ n_sem' = [n_sem EXCEPT ![Input(t)] = @ - 1]
  /\ IF n_sem[Input(t)] = 0
     THEN TaskWaits(w) /\ rec_cnt' = [rec_cnt EXCEPT ![t] = 0]
     ELSE UNCHANGED <<vars, rec_cnt>>
  /\ UNCHANGED <<neg_demand_lim, level>>

(* ... and its end, where the record is counted *)
ReadCount(t, w) ==
  /\ RunsAt(t, w, "take")
  /\ Goes(t, "write")
  /\ level' = [level EXCEPT ![Input(t)] = @ - 1]
  /\ UNCHANGED <<vars, neg_demand_lim, n_sem, rec_cnt>>

(* LpelStreamWrite() up to V(n_sem) and the wake-up ... *)
LpelStreamWrite(t, w) ==
  /\ RunsAt(t, w, "write")
  /\ Goes(t, "count")
  /\ IF Output(t) \in Streams
     THEN /\ n_sem[Output(t)] < MaxLevel
          /\ n_sem' = [n_sem EXCEPT ![Output(t)] = @ + 1]
          /\ IF n_sem[Output(t)] < 0 THEN LpelTaskUnblock(Pipe[Output(t) + 1])
             ELSE UNCHANGED vars
     ELSE UNCHANGED <<vars, n_sem>>
  /\ UNCHANGED <<neg_demand_lim, level, rec_cnt>>

(* ... and its end: the record is counted, and LpelTaskCheckYield() yields   *)
(* at the limit; when the task goes on TaskStart() sets rec_cnt to 0 and the *)
(* record is counted there                                                   *)
LpelTaskCheckYield(t, w) ==
  /\ RunsAt(t, w, "count")
  /\ Goes(t, Begin(t))
  /\ level' = [s \in Streams |-> IF s = Output(t) THEN level[s] + 1 ELSE level[s]]
  /\ IF rec_cnt[t] = rec_limit
     THEN LpelTaskYield(w) /\ rec_cnt' = [rec_cnt EXCEPT ![t] = 1]
     ELSE rec_cnt' = [rec_cnt EXCEPT ![t] = @ + 1] /\ UNCHANGED vars
  /\ UNCHANGED <<neg_demand_lim, n_sem>>

(* At the bound a task calls LpelTaskYield() instead of writing *)
YieldAtBound(t, w) ==
  /\ RunsAt(t, w, "write") /\ Output(t) \in Streams
  /\ n_sem[Output(t)] = MaxLevel
  /\ LpelTaskYield(w)
  /\ rec_cnt' = [rec_cnt EXCEPT ![t] = 0]
  /\ UNCHANGED <<neg_demand_lim, n_sem, level, step>>

WorkerStep(w) ==
  /\ requestTask(w) \/ WorkerAssign(w) \/ LpelTaskBlockStream(w) \/ returnTask(w)
  /\ UNCHANGED streamVars

StreamInit ==
  /\ neg_demand_lim \in Lims
  /\ n_sem = [s \in Streams |-> 0] /\ level = [s \in Streams |-> 0]
  /\ rec_cnt = [t \in Tasks |-> 0] /\ step = [t \in Tasks |-> Begin(t)]
DemandInit == Init /\ StreamInit

(* The tasks are started in the order of the pipeline *)
StartTask ==
  /\ \E i \in DOMAIN Pipe :
       LpelTaskStart(Pipe[i]) /\ \A j \in 1 .. i - 1 : state[Pipe[j]] # "none"
  /\ UNCHANGED streamVars
MasterStep == MasterLoop /\ UNCHANGED streamVars
RunTask(w) ==
  \E t \in Tasks :
    \/ LpelStreamRead(t, w) \/ ReadCount(t, w)
    \/ LpelStreamWrite(t, w) \/ YieldAtBound(t, w) \/ LpelTaskCheckYield(t, w)

DemandNext ==
  \/ StartTask \/ MasterStep
  \/ \E w \in Workers : WorkerStep(w) \/ RunTask(w)

(* Threads keep running, and so do the tasks on workers *)
DemandSpec ==
  /\ DemandInit /\ [][DemandNext]_dvars
  /\ WF_dvars(StartTask) /\ WF_dvars(MasterStep)
  /\ \A w \in Workers : WF_dvars(WorkerStep(w) \/ RunTask(w))

-----------------------------------------------------------------------------
(* The entry task runs again and again, unless its stream is over the limit: *)
(* the master refuses tasks with LPEL_DBL_MIN, but not for good.             *)
EntryResumes ==
  (state[Entry] # "RUNNING" /\ (neg_demand_lim = 0 \/ level[1] <= neg_demand_lim))
    ~> state[Entry] = "RUNNING"

(* The records in the pipeline get through, whatever the limit: no task      *)
(* behind the entry task is starved by the priorities that                   *)
(* LpelTaskCalPriority() gives the others or by the requests that            *)
(* MasterLoop() refuses, so that a task whose input has a record reads it.   *)
(* Without a limit the entry task runs again and again as well.              *)
RecordsFlow ==
  /\ \A s \in Streams : n_sem[s] > 0 ~> step[Pipe[s + 1]] = "take"
  /\ neg_demand_lim = 0 => EntryResumes
=============================================================================
