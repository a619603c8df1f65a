------------------------------ MODULE HrcSched ------------------------------
(***************************************************************************)
(* The scheduler of the hierarchical back-end: one master thread, a pool   *)
(* of worker threads and the worker-run tasks, which talk through          *)
(* mailboxes (hrc_worker_op.c, hrc_worker_init.c, hrc_task.c).             *)
(*                                                                         *)
(* A mailbox is a FIFO sequence of messages (module Mailbox shows that the *)
(* node lists of mailbox.c implement one).  The master handles one message *)
(* per step: while it does so it touches only its own data, the tasks      *)
(* nobody runs, and one racing field, t->state of a task being woken,      *)
(* which it reads once.  A worker gives a task back in the separate steps  *)
(* of the code: set the state, send the request, send the return.          *)
(*                                                                         *)
(* What streams do to the scheduler is kept as `waiter': a task that finds *)
(* a semaphore at 0 (or leaves a poll token) is waiting from then on, also *)
(* before it is marked blocked, and the other end of the stream, run by    *)
(* another task or by a wrapper thread, sends it exactly one wake-up.      *)
(***************************************************************************)
EXTENDS Integers, Sequences, FiniteSets

CONSTANTS
  num_workers,    \* worker threads, the master not counted
  Tasks,          \* tasks created for the worker pool (LPEL_MAP_MASTER)
  MaxPrior,       \* prior_cal() returns priorities 1..MaxPrior
  NegDemandLim,   \* TRUE iff neg_demand_lim > 0
  YieldsAtStop,   \* TRUE iff tasks may yield around and after LpelStop()
  NULL

ASSUME ConstAssumption ==
  /\ num_workers \in Nat \ {0}
  /\ MaxPrior \in Nat \ {0}
  /\ NegDemandLim \in BOOLEAN
  /\ YieldsAtStop \in BOOLEAN
  /\ NULL \notin Tasks

Workers == 0 .. num_workers - 1

VARIABLES
  state,         \* t->state
  wakenup,       \* t->wakenup
  prior,         \* t->sched_info.prior, meaningful while t is queued
  waiter,        \* how far the task is in a blocking stream operation
  mastermb,      \* master->mailbox
  workermbs,     \* workers[w]->mailbox
  ready_tasks,   \* the tasks in master->ready_tasks
  waitworkers,   \* master->waitworkers
  terminate,     \* master->terminate
  mpc,           \* where the master thread is
  bcast,         \* next worker LpelWorkerBroadcast() sends to
  wpc,           \* where worker thread w is
  current_task,  \* workers[w]->current_task
  mainpc         \* "run", "stopping" after LpelStop(), "cleanup", "done"

masterVars == <<ready_tasks, prior, waitworkers, terminate, mpc, bcast>>
workerVars == <<wpc, current_task>>
vars == <<state, wakenup, waiter, mastermb, workermbs, mainpc,
          ready_tasks, prior, waitworkers, terminate, mpc, bcast,
          wpc, current_task>>

-----------------------------------------------------------------------------
(* Messages and priorities *)

TaskMsg == [type : {"ASSIGN", "RETURN", "WAKEUP"}, body : Tasks]
RequestMsg == [type : {"REQUEST"}, body : Workers]
TerminateMsg == [type : {"TERMINATE"}, body : {NULL}]
Msg == TaskMsg \cup RequestMsg \cup TerminateMsg

M(type, body) == [type |-> type, body |-> body]

LPEL_DBL_MIN == 0
DBL_MAX == MaxPrior + 1
Prior == LPEL_DBL_MIN .. DBL_MAX

(* LpelTaskCalPriority() counts records in streams other threads are using, *)
(* so any value of prior_cal() may come out; LPEL_DBL_MIN only with a limit *)
CalPriority == IF NegDemandLim THEN LPEL_DBL_MIN .. MaxPrior ELSE 1 .. MaxPrior

(* updatePriorityNeigh(): the queued tasks among the neighbours of a task,  *)
(* which streams opened at run time decide, get a newly computed priority   *)
PriorityUpdates ==
  {p \in [Tasks -> Prior] :
     \A t \in Tasks : \/ p[t] = prior[t]
                      \/ t \in ready_tasks /\ p[t] \in CalPriority}

(* LpelTaskqueuePeek(): a queued task of highest priority *)
IsHead(t) == t \in ready_tasks /\ \A u \in ready_tasks : prior[u] <= prior[t]

(* fault: the loop of servePendingReq() starts at worker 1 *)
WaitingButFirst == {w \in Workers : w # 0 /\ waitworkers[w] = 1}
Waiting == {w \in Workers : waitworkers[w] = 1}
FirstWaiting(w) == w \in Waiting /\ \A v \in Waiting : w <= v

-----------------------------------------------------------------------------
Init ==
  /\ state = [t \in Tasks |-> "none"]
  /\ wakenup = [t \in Tasks |-> 0]
  /\ prior = [t \in Tasks |-> 0]
  /\ waiter = [t \in Tasks |-> "none"]
  /\ mastermb = <<>>
  /\ workermbs = [w \in Workers |-> <<>>]
  /\ ready_tasks = {}
  /\ waitworkers = [w \in Workers |-> 0]
  /\ terminate = 0
  /\ mpc = "loop"
  /\ bcast = 0
  /\ wpc = [w \in Workers |-> "init"]
  /\ current_task = [w \in Workers |-> NULL]
  /\ mainpc = "run"

-----------------------------------------------------------------------------
(* The rest of the program: it creates and starts tasks, ends waits, stops *)

(* LpelTaskCreate() then LpelTaskStart(), by main or by a running task *)
LpelTaskStart(t) ==
  /\ mainpc = "run"
  /\ state[t] = "none"
  /\ state' = [state EXCEPT ![t] = "CREATED"]
  /\ mastermb' = Append(mastermb, M("ASSIGN", t))
  /\ UNCHANGED <<wakenup, waiter, workermbs, mainpc, masterVars, workerVars>>

(* The other end of the stream: quasi V, then LpelTaskUnblock(t) *)
LpelTaskUnblock(t) ==
  /\ waiter[t] = "waiting"
  /\ waiter' = [waiter EXCEPT ![t] = "signalled"]
  /\ mastermb' = Append(mastermb, M("WAKEUP", t))
  /\ UNCHANGED <<state, wakenup, workermbs, mainpc, masterVars, workerVars>>

(* t has given up its worker by a yield and is not on its way to another *)
Yielding(t) ==
  /\ state[t] = "READY"
  /\ \A w \in Workers : \A i \in DOMAIN workermbs[w] :
       workermbs[w][i] # M("ASSIGN", t)

(* LpelStop(): the program calls it when its last record has come out, that *)
(* is when no task waits on a stream any more: all a task has left to do is *)
(* to exit, or, unless YieldsAtStop excludes it, to yield before            *)
LpelStop ==
  /\ mainpc = "run"
  /\ \A t \in Tasks : /\ waiter[t] = "none"
                      /\ Yielding(t) => YieldsAtStop
  /\ mainpc' = "stopping"
  /\ mastermb' = Append(mastermb, M("TERMINATE", NULL))
  /\ UNCHANGED <<state, wakenup, waiter, workermbs, masterVars, workerVars>>

-----------------------------------------------------------------------------
(* Master thread *)

Handling(type) ==
  /\ mpc = "loop"
  /\ mastermb # <<>>
  /\ Head(mastermb).type = type

(* The bottom of the loop of MasterLoop() *)
LoopOrBroadcast(term, queue) ==
  mpc' = IF term = 1 /\ queue = {} THEN "broadcast" ELSE "loop"

(* sendTask() to the first worker with a pending request *)
servePendingReq(t) ==
  \E w \in Workers :
    /\ FirstWaiting(w)
    /\ waitworkers' = [waitworkers EXCEPT ![w] = 0]
    /\ workermbs' = [workermbs EXCEPT ![w] = Append(@, M("ASSIGN", t))]
    /\ state' = [state EXCEPT ![t] = "READY"]
    /\ UNCHANGED <<ready_tasks, prior>>

(* t->state = TASK_INQUEUE; LpelTaskqueuePush(), with the priorities p *)
Enqueue(t, p) ==
  /\ ready_tasks' = ready_tasks \cup {t}
  /\ prior' = p
  /\ state' = [state EXCEPT ![t] = "INQUEUE"]
  /\ UNCHANGED <<waitworkers, workermbs>>

(* t became ready: queued if its priority is too low to run it, handed to a *)
(* waiting worker if there is one, else queued with the priority computed   *)
(* last, `others' being the priorities of the rest of the queue             *)
ScheduleReady(t, others) ==
  \E first \in CalPriority :
    \/ /\ first = LPEL_DBL_MIN
       /\ Enqueue(t, [prior EXCEPT ![t] = first])
    \/ /\ first # LPEL_DBL_MIN
       /\ servePendingReq(t)
    \/ /\ first # LPEL_DBL_MIN
       /\ Waiting = {}
       /\ \E p \in others, last \in CalPriority :
            Enqueue(t, [p EXCEPT ![t] = last])

MasterAssign ==
  /\ Handling("ASSIGN")
  /\ LET t == Head(mastermb).body
     IN /\ state[t] = "CREATED"
        /\ \/ servePendingReq(t)
           \/ Waiting = {} /\ Enqueue(t, [prior EXCEPT ![t] = DBL_MAX])
  /\ mastermb' = Tail(mastermb)
  /\ LoopOrBroadcast(terminate, ready_tasks')
  /\ UNCHANGED <<wakenup, waiter, mainpc, terminate, bcast, workerVars>>

(* A task comes back blocked, and its wake-up is not here yet *)
MasterReturnBlocked ==
  /\ Handling("RETURN")
  /\ LET t == Head(mastermb).body
     IN /\ state[t] = "BLOCKED"
        /\ wakenup[t] = 0
        /\ state' = [state EXCEPT ![t] = "RETURNED"]
  /\ prior' \in PriorityUpdates
  /\ mastermb' = Tail(mastermb)
  /\ LoopOrBroadcast(terminate, ready_tasks)
  /\ UNCHANGED <<wakenup, waiter, workermbs, mainpc, ready_tasks, waitworkers,
                 terminate, bcast, workerVars>>

(* fault: a blocked task is rescheduled whether it was woken or not *)
WokenOrNot(t) == state[t] = "BLOCKED"
Woken(t) == state[t] = "BLOCKED" /\ wakenup[t] = 1

wakenupUsed(t) == wakenup' = [wakenup EXCEPT ![t] = 0]

(* A task comes back after a yield, or blocked and already woken *)
MasterReturnReady ==
  /\ Handling("RETURN")
  /\ LET t == Head(mastermb).body
     IN /\ \/ Woken(t) /\ wakenupUsed(t)
           \/ state[t] = "READY" /\ UNCHANGED wakenup
        /\ ScheduleReady(t, PriorityUpdates)
  /\ mastermb' = Tail(mastermb)
  /\ LoopOrBroadcast(terminate, ready_tasks')
  /\ UNCHANGED <<waiter, mainpc, terminate, bcast, workerVars>>

(* An exited task comes back and is freed: LpelTaskDestroy() *)
MasterReturnZombie ==
  /\ Handling("RETURN")
  /\ LET t == Head(mastermb).body
     IN /\ state[t] = "ZOMBIE"
        /\ state' = [state EXCEPT ![t] = "freed"]
  /\ prior' \in PriorityUpdates
  /\ mastermb' = Tail(mastermb)
  /\ LoopOrBroadcast(terminate, ready_tasks)
  /\ UNCHANGED <<wakenup, waiter, workermbs, mainpc, ready_tasks, waitworkers,
                 terminate, bcast, workerVars>>

(* fault: a wake-up that comes too early is dropped *)
wakenupDropped(t) == UNCHANGED wakenup
wakenupSet(t) == wakenup' = [wakenup EXCEPT ![t] = 1]

(* fault: a wake-up is put back into the mailbox, without a look at the state *)
MasterWakeupPutBack ==
  /\ Handling("WAKEUP")
  /\ mastermb' = Append(Tail(mastermb), Head(mastermb))
  /\ UNCHANGED <<state, wakenup, waiter, workermbs, mainpc, masterVars,
                 workerVars>>

(* A wake-up that overtook the return of its task is remembered in the task *)
MasterWakeupEarly ==
  /\ Handling("WAKEUP")
  /\ LET t == Head(mastermb).body
     IN /\ state[t] # "RETURNED"
        /\ wakenupSet(t)
  /\ mastermb' = Tail(mastermb)
  /\ LoopOrBroadcast(terminate, ready_tasks)
  /\ UNCHANGED <<state, waiter, workermbs, mainpc, ready_tasks, prior,
                 waitworkers, terminate, bcast, workerVars>>

MasterWakeup ==
  /\ Handling("WAKEUP")
  /\ LET t == Head(mastermb).body
     IN /\ state[t] = "RETURNED"
        /\ ScheduleReady(t, {prior})
  /\ mastermb' = Tail(mastermb)
  /\ LoopOrBroadcast(terminate, ready_tasks')
  /\ UNCHANGED <<wakenup, waiter, mainpc, terminate, bcast, workerVars>>

(* fault: the head is sent but stays in the queue *)
LpelTaskqueueKeep(t) == UNCHANGED ready_tasks
LpelTaskqueuePop(t) == ready_tasks' = ready_tasks \ {t}

(* A worker asks for a task and gets the head of the queue ... *)
MasterRequestServe ==
  /\ Handling("REQUEST")
  /\ LET w == Head(mastermb).body
     IN \E t \in Tasks :
          /\ IsHead(t)
          /\ prior[t] # LPEL_DBL_MIN
          /\ state' = [state EXCEPT ![t] = "READY"]
          /\ workermbs' = [workermbs EXCEPT ![w] = Append(@, M("ASSIGN", t))]
          /\ LpelTaskqueuePop(t)
  /\ mastermb' = Tail(mastermb)
  /\ LoopOrBroadcast(terminate, ready_tasks')
  /\ UNCHANGED <<wakenup, waiter, mainpc, prior, waitworkers, terminate, bcast,
                 workerVars>>

(* ... or waits: the queue is empty or even its head must not be scheduled *)
MasterRequestWait ==
  /\ Handling("REQUEST")
  /\ \A t \in ready_tasks : prior[t] = LPEL_DBL_MIN
  /\ waitworkers' = [waitworkers EXCEPT ![Head(mastermb).body] = 1]
  /\ mastermb' = Tail(mastermb)
  /\ LoopOrBroadcast(terminate, ready_tasks)
  /\ UNCHANGED <<state, wakenup, waiter, workermbs, mainpc, ready_tasks, prior,
                 terminate, bcast, workerVars>>

(* fault: termination is put off for ever *)
MasterTerminateLater ==
  /\ Handling("TERMINATE")
  /\ mastermb' = Append(Tail(mastermb), Head(mastermb))
  /\ UNCHANGED <<state, wakenup, waiter, workermbs, mainpc, masterVars,
                 workerVars>>

MasterTerminate ==
  /\ Handling("TERMINATE")
  /\ terminate' = 1
  /\ mastermb' = Tail(mastermb)
  /\ LoopOrBroadcast(1, ready_tasks)
  /\ UNCHANGED <<state, wakenup, waiter, workermbs, mainpc, ready_tasks, prior,
                 waitworkers, bcast, workerVars>>

AllSent(n) == n = num_workers

(* MasterThread() after the loop: LpelWorkerBroadcast(), one send per step *)
LpelWorkerBroadcast ==
  /\ mpc = "broadcast"
  /\ workermbs' = [workermbs EXCEPT ![bcast] = Append(@, M("TERMINATE", NULL))]
  /\ bcast' = bcast + 1
  /\ mpc' = IF AllSent(bcast') THEN "done" ELSE "broadcast"
  /\ UNCHANGED <<state, wakenup, waiter, mastermb, mainpc, ready_tasks, prior,
                 waitworkers, terminate, workerVars>>

Master ==
  \/ MasterAssign
  \/ MasterReturnBlocked \/ MasterReturnReady \/ MasterReturnZombie
  \/ MasterWakeupEarly \/ MasterWakeup
  \/ MasterRequestServe \/ MasterRequestWait
  \/ MasterTerminate
  \/ LpelWorkerBroadcast

-----------------------------------------------------------------------------
(* Worker threads and the tasks they run *)

(* requestTask(): at the start of WorkerLoop(), and when a task stops, *)
(* before the worker returns the task                                  *)
requestTask(w) ==
  /\ \/ wpc[w] = "init" /\ wpc' = [wpc EXCEPT ![w] = "recv"]
     \/ wpc[w] = "request" /\ wpc' = [wpc EXCEPT ![w] = "return"]
  /\ mastermb' = Append(mastermb, M("REQUEST", w))
  /\ UNCHANGED <<state, wakenup, waiter, workermbs, mainpc, current_task,
                 masterVars>>

(* WorkerLoop() receives a task, switches to it, and TaskStart() marks it *)
(* running; a task that waited comes back from its stream operation       *)
WorkerAssign(w) ==
  /\ wpc[w] = "recv"
  /\ workermbs[w] # <<>>
  /\ Head(workermbs[w]).type = "ASSIGN"
  /\ LET t == Head(workermbs[w]).body
     IN /\ state[t] = "READY"
        /\ state' = [state EXCEPT ![t] = "RUNNING"]
        /\ waiter' = [waiter EXCEPT ![t] = "none"]
        /\ current_task' = [current_task EXCEPT ![w] = t]
  /\ workermbs' = [workermbs EXCEPT ![w] = Tail(@)]
  /\ wpc' = [wpc EXCEPT ![w] = "task"]
  /\ UNCHANGED <<wakenup, mastermb, mainpc, masterVars>>

WorkerTerminate(w) ==
  /\ wpc[w] = "recv"
  /\ workermbs[w] # <<>>
  /\ Head(workermbs[w]).type = "TERMINATE"
  /\ workermbs' = [workermbs EXCEPT ![w] = Tail(@)]
  /\ wpc' = [wpc EXCEPT ![w] = "done"]
  /\ UNCHANGED <<state, wakenup, waiter, mastermb, mainpc, current_task,
                 masterVars>>

(* The running task finds it must wait: quasi P, or a poll token left *)
TaskWaits(w) ==
  /\ wpc[w] = "task"
  /\ mainpc = "run"
  /\ waiter' = [waiter EXCEPT ![current_task[w]] = "waiting"]
  /\ wpc' = [wpc EXCEPT ![w] = "block"]
  /\ UNCHANGED <<state, wakenup, mastermb, workermbs, mainpc, current_task,
                 masterVars>>

(* The running task stops with a new state; LpelWorkerTaskBlock(),  *)
(* LpelWorkerTaskYield() and LpelWorkerTaskExit() request a task first *)
TaskStop(w, pc, s) ==
  /\ wpc[w] = pc
  /\ state' = [state EXCEPT ![current_task[w]] = s]
  /\ wpc' = [wpc EXCEPT ![w] = "request"]
  /\ UNCHANGED <<wakenup, waiter, mastermb, workermbs, mainpc, current_task,
                 masterVars>>

LpelTaskBlockStream(w) == TaskStop(w, "block", "BLOCKED")

(* fault: a yielding task stays TASK_RUNNING *)
LpelTaskYieldRunning(w) ==
  /\ mainpc = "run" \/ YieldsAtStop
  /\ TaskStop(w, "task", "RUNNING")

LpelTaskYield(w) ==
  /\ mainpc = "run" \/ YieldsAtStop
  /\ TaskStop(w, "task", "READY")

(* fault: an exiting task is returned as if it yielded *)
LpelTaskExitReady(w) == TaskStop(w, "task", "READY")
LpelTaskExit(w) == TaskStop(w, "task", "ZOMBIE")

(* The task has switched back to the worker, which hands it to the master *)
returnTask(w) ==
  /\ wpc[w] = "return"
  /\ mastermb' = Append(mastermb, M("RETURN", current_task[w]))
  /\ current_task' = [current_task EXCEPT ![w] = NULL]
  /\ wpc' = [wpc EXCEPT ![w] = "recv"]
  /\ UNCHANGED <<state, wakenup, waiter, workermbs, mainpc, masterVars>>

WorkerThread(w) ==
  \/ requestTask(w) \/ WorkerAssign(w) \/ WorkerTerminate(w)
  \/ LpelTaskBlockStream(w) \/ LpelTaskYield(w) \/ LpelTaskExit(w)
  \/ TaskWaits(w) \/ returnTask(w)

-----------------------------------------------------------------------------
(* LpelCleanup(): join the threads, then empty the master's mailbox *)

Join ==
  /\ mainpc = "stopping"
  /\ mpc = "done"
  /\ \A w \in Workers : wpc[w] = "done"
  /\ mainpc' = "cleanup"
  /\ UNCHANGED <<state, wakenup, waiter, mastermb, workermbs, masterVars,
                 workerVars>>

cleanupMasterMb ==
  /\ mainpc = "cleanup"
  /\ mastermb # <<>>
  /\ \/ Head(mastermb).type = "REQUEST" /\ UNCHANGED state
     \/ /\ Head(mastermb).type = "RETURN"
        /\ state[Head(mastermb).body] = "ZOMBIE"
        /\ state' = [state EXCEPT ![Head(mastermb).body] = "freed"]
  /\ mastermb' = Tail(mastermb)
  /\ UNCHANGED <<wakenup, waiter, workermbs, mainpc, masterVars, workerVars>>

(* LpelMailboxDestroy() of every mailbox, then the contexts are freed *)
CleanupDone ==
  /\ mainpc = "cleanup"
  /\ mastermb = <<>>
  /\ \A w \in Workers : workermbs[w] = <<>>
  /\ mainpc' = "done"
  /\ UNCHANGED <<state, wakenup, waiter, mastermb, workermbs, masterVars,
                 workerVars>>

Main == LpelStop \/ Join \/ cleanupMasterMb \/ CleanupDone

Finished == mainpc = "done" /\ UNCHANGED vars

Next ==
  \/ \E t \in Tasks : LpelTaskStart(t) \/ LpelTaskUnblock(t)
  \/ Master
  \/ \E w \in Workers : WorkerThread(w)
  \/ Main
  \/ Finished

Spec == Init /\ [][Next]_vars

-----------------------------------------------------------------------------
(* Type invariant: every field holds a value of its C type or enumeration, *)
(* and mailboxes hold only the messages their receivers know.              *)
TypeOK ==
  /\ state \in [Tasks -> {"none", "CREATED", "READY", "INQUEUE", "RUNNING",
                          "BLOCKED", "RETURNED", "ZOMBIE", "freed"}]
  /\ wakenup \in [Tasks -> {0, 1}]
  /\ prior \in [Tasks -> Prior]
  /\ waiter \in [Tasks -> {"none", "waiting", "signalled"}]
  /\ mastermb \in Seq(Msg)
  /\ workermbs \in [Workers -> Seq(Msg)]
  /\ ready_tasks \in SUBSET Tasks
  /\ waitworkers \in [Workers -> {0, 1}]
  /\ terminate \in {0, 1}
  /\ mpc \in {"loop", "broadcast", "done"}
  /\ bcast \in 0 .. num_workers
  /\ wpc \in [Workers -> {"init", "recv", "task", "block", "request",
                          "return", "done"}]
  /\ current_task \in [Workers -> Tasks \cup {NULL}]
  /\ mainpc \in {"run", "stopping", "cleanup", "done"}

(* Where a reference through which someone will act on task t is held *)
MasterPlaces(t) ==
  {<<"master", 0, i>> : i \in {j \in DOMAIN mastermb :
     mastermb[j] \in {M("ASSIGN", t), M("RETURN", t)}}}
InboxPlaces(t) ==
  UNION {{<<"inbox", w, i>> : i \in {j \in DOMAIN workermbs[w] :
            workermbs[w][j] = M("ASSIGN", t)}} : w \in Workers}
WorkerPlaces(t) ==
  {<<"worker", w, 0>> : w \in {v \in Workers : current_task[v] = t}}
QueuePlaces(t) == {<<"queue", 0, 0>> : q \in {u \in ready_tasks : u = t}}
Places(t) ==
  MasterPlaces(t) \cup InboxPlaces(t) \cup WorkerPlaces(t) \cup QueuePlaces(t)

(* A task is in exactly one place: on its way to the master, in the ready   *)
(* queue, on its way to a worker, or on a worker; a task parked by the      *)
(* master until its wake-up, or freed, is in none.  Running a task twice,   *)
(* dropping it, or using it after LpelTaskDestroy() would break this.       *)
TaskInOnePlace ==
  \A t \in Tasks :
    /\ \A p, q \in Places(t) : p = q
    /\ (Places(t) = {}) <=> (state[t] \in {"none", "RETURNED", "freed"})

(* Message m is somewhere in mailbox s *)
In(s, m) == \E i \in DOMAIN s : s[i] = m

WakeupInTransit(t) == In(mastermb, M("WAKEUP", t))

(* The wake-up of a waiting task is never lost, whether it reaches the      *)
(* master before or after the return of the task: until the task is         *)
(* scheduled again it is in the mailbox or in t->wakenup, and a task parked *)
(* as TASK_RETURNED still has a wake-up to come.                            *)
NoLostWakeup ==
  \A t \in Tasks :
    /\ waiter[t] = "signalled" /\ state[t] \in {"RUNNING", "BLOCKED", "RETURNED"}
         => WakeupInTransit(t) \/ (wakenup[t] = 1 /\ state[t] # "RETURNED")
    /\ state[t] = "RETURNED" => waiter[t] \in {"waiting", "signalled"}

(* No stray wake-up: one in transit or remembered belongs to the wait the   *)
(* task is in now, so it cannot end a later wait.                           *)
NoStrayWakeup ==
  \A t \in Tasks :
    WakeupInTransit(t) \/ wakenup[t] = 1 => waiter[t] = "signalled"

(* Work conservation of MasterLoop() without a negative demand limit: no    *)
(* worker is kept waiting while a task is in the ready queue.               *)
WorkConserving ==
  ~NegDemandLim /\ ready_tasks # {} => \A w \in Workers : waitworkers[w] = 0

(* Every worker that is ready for a task has exactly one request pending:   *)
(* in the master's mailbox, noted in waitworkers, or answered by a task in  *)
(* the worker's mailbox; a worker that runs a task has none.  Requests are   *)
(* dropped only by cleanupMasterMb().                                       *)
RequestPlaces(w) ==
  {<<"sent", i>> : i \in {j \in DOMAIN mastermb : mastermb[j] = M("REQUEST", w)}}
  \cup {<<"noted", waitworkers[v]>> : v \in {u \in {w} : waitworkers[u] = 1}}
  \cup {<<"answered", i>> : i \in {j \in DOMAIN workermbs[w] :
                                     workermbs[w][j].type = "ASSIGN"}}

OneRequestPerWorker ==
  \A w \in Workers :
    /\ \A p, q \in RequestPlaces(w) : p = q
    /\ mainpc \in {"run", "stopping"} =>
         (RequestPlaces(w) = {} <=> wpc[w] \in {"init", "task", "block", "request"})

(* The assertions of MasterLoop(), sendTask() and WorkerLoop() on the state *)
(* of the task a message names hold whenever the message is received.       *)
ReceivedStateAsserted ==
  /\ \A i \in DOMAIN mastermb :
       LET m == mastermb[i]
       IN /\ m.type = "ASSIGN" => state[m.body] = "CREATED"
          /\ m.type = "RETURN" => state[m.body] \in {"BLOCKED", "READY", "ZOMBIE"}
  /\ \A w \in Workers : \A i \in DOMAIN workermbs[w] :
       workermbs[w][i].type = "ASSIGN" => state[workermbs[w][i].body] = "READY"

(* What cleanupMasterMb() asserts of the messages left when all threads are *)
(* joined, and LpelMailboxDestroy() of the workers' mailboxes: requests and *)
(* returns of exited tasks only, and nothing for a worker.                  *)
CleanupLeftovers ==
  mainpc = "cleanup" =>
    /\ \A i \in DOMAIN mastermb :
         \/ mastermb[i].type = "REQUEST"
         \/ mastermb[i].type = "RETURN" /\ state[mastermb[i].body] = "ZOMBIE"
    /\ \A w \in Workers : workermbs[w] = <<>>

(* A task that waits on a stream comes back from LpelTaskBlockStream() only *)
(* after the other end of the stream unblocked it.                          *)
NoSpuriousResume ==
  [][\A t \in Tasks : waiter[t] = "waiting" => waiter'[t] # "none"]_vars

(* A task that was unblocked does not stay parked: the master eventually    *)
(* queues it or sends it to a worker.                                       *)
UnblockedIsScheduled ==
  \A t \in Tasks :
    waiter[t] = "signalled" ~> state[t] \in {"INQUEUE", "READY", "RUNNING"}

(* After LpelStop() the master and all workers terminate, and LpelCleanup() *)
(* returns, having freed every exited task and emptied every mailbox.       *)
StopTerminates == (mainpc = "stopping") ~> (mainpc = "done")

-----------------------------------------------------------------------------
(* The inductive invariant behind the safety properties *)

HasAssign(s) == \E i \in DOMAIN s : s[i].type = "ASSIGN"

Once(s) ==
  \A i, j \in DOMAIN s : s[i] = s[j] /\ s[i].type # "TERMINATE" => i = j

OneAssign(s) ==
  \A i, j \in DOMAIN s : s[i].type = "ASSIGN" /\ s[j].type = "ASSIGN" => i = j

(* No message but TERMINATE is in the master's mailbox twice, and no worker *)
(* has two tasks in its mailbox                                             *)
MessagesOnce ==
  /\ Once(mastermb)
  /\ \A w \in Workers : OneAssign(workermbs[w])

(* The state of a task tells where it is, and it is nowhere else *)
TaskWhere(t) ==
  /\ t \in ready_tasks <=> state[t] = "INQUEUE"
  /\ In(mastermb, M("ASSIGN", t)) <=> state[t] = "CREATED"
  /\ In(mastermb, M("RETURN", t)) =>
       /\ state[t] \in {"BLOCKED", "READY", "ZOMBIE"}
       /\ \A w \in Workers : /\ current_task[w] # t
                             /\ ~In(workermbs[w], M("ASSIGN", t))
  /\ \A w \in Workers : In(workermbs[w], M("ASSIGN", t)) =>
       /\ state[t] = "READY"
       /\ \A v \in Workers : /\ current_task[v] # t
                             /\ In(workermbs[v], M("ASSIGN", t)) => v = w
  /\ state[t] = "RUNNING" => \E w \in Workers : current_task[w] = t
  /\ state[t] \in {"BLOCKED", "READY", "ZOMBIE"} =>
       \/ In(mastermb, M("RETURN", t))
       \/ \E w \in Workers : \/ current_task[w] = t
                             \/ In(workermbs[w], M("ASSIGN", t))

(* A worker has a task of its own exactly while it runs and returns it *)
WorkerHolds(w) ==
  /\ current_task[w] = NULL <=> wpc[w] \in {"init", "recv", "done"}
  /\ wpc[w] \in {"task", "block"} => state[current_task[w]] = "RUNNING"
  /\ wpc[w] \in {"request", "return"} =>
       state[current_task[w]] \in {"BLOCKED", "READY", "ZOMBIE"}
  /\ \A v \in Workers :
       current_task[v] = current_task[w] /\ current_task[w] # NULL => v = w

TaskPlacement ==
  /\ \A t \in Tasks : TaskWhere(t)
  /\ \A w \in Workers : WorkerHolds(w)

(* A worker's request is in one place only, and in none while it runs a task *)
RequestPlacement ==
  \A w \in Workers :
    /\ In(mastermb, M("REQUEST", w)) => waitworkers[w] = 0 /\ ~HasAssign(workermbs[w])
    /\ waitworkers[w] = 1 => ~HasAssign(workermbs[w])
    /\ wpc[w] \in {"init", "task", "block", "request"} =>
         /\ ~In(mastermb, M("REQUEST", w))
         /\ waitworkers[w] = 0
         /\ ~HasAssign(workermbs[w])
    /\ mainpc \in {"run", "stopping"} /\ wpc[w] \in {"recv", "return", "done"} =>
         In(mastermb, M("REQUEST", w)) \/ waitworkers[w] = 1 \/ HasAssign(workermbs[w])

(* A wake-up belongs to the wait its task is in, and is in one place only *)
WakeupPlacement ==
  /\ \A t \in Tasks :
       /\ WakeupInTransit(t) \/ wakenup[t] = 1 =>
            /\ waiter[t] = "signalled"
            /\ state[t] \in {"RUNNING", "BLOCKED", "RETURNED"}
       /\ wakenup[t] = 1 => ~WakeupInTransit(t) /\ state[t] # "RETURNED"
       /\ waiter[t] = "signalled" /\ state[t] \in {"RUNNING", "BLOCKED", "RETURNED"}
            => WakeupInTransit(t) \/ wakenup[t] = 1
       /\ waiter[t] = "waiting" => state[t] \in {"RUNNING", "BLOCKED", "RETURNED"}
       /\ state[t] \in {"BLOCKED", "RETURNED"} => waiter[t] # "none"
  /\ \A w \in Workers :
       /\ wpc[w] = "task" => waiter[current_task[w]] = "none"
       /\ wpc[w] = "block" => waiter[current_task[w]] # "none"

(* LpelWorkerBroadcast() starts at worker 0 and has a worker left to send to *)
BroadcastProgress ==
  /\ mpc = "loop" => bcast = 0
  /\ mpc = "broadcast" => bcast \in Workers

(* Without a limit no queued task has the priority LPEL_DBL_MIN, so that a *)
(* request is noted only when the queue is empty                           *)
QueuePriorities ==
  ~NegDemandLim => \A t \in ready_tasks : /\ prior[t] # LPEL_DBL_MIN
                                         /\ \A w \in Workers : waitworkers[w] = 0

IInv ==
  /\ TypeOK
  /\ BroadcastProgress
  /\ QueuePriorities
  /\ MessagesOnce
  /\ TaskPlacement
  /\ RequestPlacement
  /\ WakeupPlacement

=============================================================================
