---------------------------- MODULE DecenWorker ----------------------------
(***************************************************************************)
(* The decentralised back-end: worker threads that each keep their own     *)
(* queues of ready tasks, wrapper threads that run one task each, and task *)
(* migration (decen_worker.c, decen_task.c, decen_scheduler.c,             *)
(* task_migration.c).                                                      *)
(*                                                                         *)
(* A context is a thread: a worker, or the wrapper of a wrapper task,      *)
(* which is named after its task.  A thread handles one message per step;  *)
(* mailboxes are FIFO sequences.  pc tells where a thread is: on its own   *)
(* stack ("loop", "back", "fetch"), or on the stack of current_task, in    *)
(* the task's code ("task") or in the dispatcher the task called ("disp"). *)
(* A stream is `waiter', as in HrcSched: the task that finds a semaphore   *)
(* at 0 is waiting, and the other end of the stream wakes it exactly once. *)
(***************************************************************************)
EXTENDS Integers, Sequences, FiniteSets, SequencesExt

CONSTANTS
  num_workers,
  WorkerTasks,    \* tasks created for a worker
  WrapperTasks,   \* tasks created for LPEL_MAP_OTHERS
  Programs,       \* what is run and how it is configured, see Program
  NULL

Tasks == WorkerTasks \cup WrapperTasks
Workers == 0 .. num_workers - 1
Contexts == Workers \cup WrapperTasks
SCHED_NUM_PRIO == 2
QueueIds == 0 .. SCHED_NUM_PRIO - 1

(* tm_conf.mechanism, the tasks that are created, those that call           *)
(* LpelTaskYield(), and the priorities LpelTaskSetPriority() is given       *)
Program == [mechanism : {"NONE", "RAND", "WAIT_PROP"}, tasks : SUBSET Tasks,
            yielding : SUBSET Tasks, prios : SUBSET (-1 .. SCHED_NUM_PRIO)]

ASSUME DecenAssumption ==
  /\ num_workers \in Nat \ {0}
  /\ Programs \subseteq Program
  /\ WorkerTasks \cap WrapperTasks = {} /\ NULL \notin Tasks

VARIABLES
  program,
  state,           \* t->state, "freed" once the TCB is freed
  worker_context,  \* t->worker_context
  prio,            \* t->sched_info.prio
  waiter,          \* how far the task is in a blocking stream operation
  mailbox,         \* wc->mailbox
  queue,           \* wc->sched->queue[prio], of workers
  num_tasks,       \* wc->num_tasks, of workers
  terminate,       \* wc->terminate
  wraptask,        \* wc->wraptask, of wrappers
  current_task,    \* wc->current_task
  marked_del,      \* wc->marked_del
  migrated,        \* wc->migrated
  pc,              \* where the thread is
  mainpc,          \* "run", "stopping", "cleanup", "done"
  bcast            \* next worker LpelWorkerBroadcast() sends to

taskVars == <<state, worker_context, prio, waiter>>
schedVars == <<mailbox, queue, num_tasks, terminate, wraptask>>
threadVars == <<current_task, marked_del, migrated, pc>>
mainVars == <<mainpc, bcast, program>>
vars == <<taskVars, schedVars, threadVars, mainVars>>

M(type, body) == [type |-> type, body |-> body]

(* LpelWorkersInit() and LpelWorkersSpawn(): worker threads wait for work *)
Init ==
  /\ program \in Programs
  /\ state = [t \in Tasks |-> "none"]
  /\ worker_context = [t \in Tasks |-> NULL]
  /\ prio = [t \in Tasks |-> 0]
  /\ waiter = [t \in Tasks |-> "none"]
  /\ mailbox = [c \in Contexts |-> <<>>]
  /\ queue = [w \in Workers |-> [q \in QueueIds |-> <<>>]]
  /\ num_tasks = [w \in Workers |-> 0]
  /\ terminate = [c \in Contexts |-> 0]
  /\ wraptask = [t \in WrapperTasks |-> NULL]
  /\ current_task = [c \in Contexts |-> NULL]
  /\ marked_del = [c \in Contexts |-> NULL]
  /\ migrated = [c \in Contexts |-> NULL]
  /\ pc = [c \in Contexts |-> IF c \in WrapperTasks THEN "none" ELSE "loop"]
  /\ mainpc = "run"
  /\ bcast = 0

-----------------------------------------------------------------------------
(* Mailboxes and queues of ready tasks *)

SendAssign(mb, c, t) == [mb EXCEPT ![c] = Append(@, M("ASSIGN", t))]

(* fault: the wake-up goes to worker 0, whoever runs the task *)
SendWakeupFirst(mb, c, t) == [mb EXCEPT ![0] = Append(@, M("WAKEUP", t))]
SendWakeup(mb, c, t) == [mb EXCEPT ![c] = Append(@, M("WAKEUP", t))]

(* The priority is an index of the queues, clamped to their number *)
QueueOf(p) == IF p < 0 THEN 0 ELSE IF p >= SCHED_NUM_PRIO THEN SCHED_NUM_PRIO - 1 ELSE p

(* fault: the task is pushed to the front of its queue *)
LpelSchedMakeReadyFront(w, t) ==
  [queue EXCEPT ![w][QueueOf(prio[t])] = <<t>> \o @]

LpelSchedMakeReady(w, t) ==
  [queue EXCEPT ![w][QueueOf(prio[t])] = Append(@, t)]

HasReady(w) == \E q \in QueueIds : queue[w][q] # <<>>

(* LpelSchedFetchReady() takes the head of the highest non-empty queue *)
BestQueue(w) == CHOOSE q \in QueueIds : /\ queue[w][q] # <<>>
                                        /\ \A r \in QueueIds : r > q => queue[w][r] = <<>>
NextReady(w) == Head(queue[w][BestQueue(w)])

LpelSchedFetchReady(w) == [queue EXCEPT ![w][BestQueue(w)] = Tail(@)]

-----------------------------------------------------------------------------
(* Task migration.  Random numbers and waiting times are not modelled: any  *)
(* worker, or none (-1), may come out of LpelPickTargetWorker()             *)
PickWorker == Workers
MayMigrate == program.mechanism \in {"RAND", "WAIT_PROP"}
LpelPickTargetWorker == {-1} \cup (IF MayMigrate THEN PickWorker ELSE {})

(* The task became ready on its worker w, whose mailboxes are mb by now:    *)
(* it is queued there or sent to another worker                             *)
LpelWorkerMakeTaskReady(t, mb) ==
  LET w == worker_context[t] IN
  \E target \in IF program.mechanism = "WAIT_PROP" THEN LpelPickTargetWorker ELSE {-1} :
    IF target > 0 /\ target # w
      THEN /\ worker_context' = [worker_context EXCEPT ![t] = target]
           /\ num_tasks' = [num_tasks EXCEPT ![w] = @ - 1]
           /\ mailbox' = SendAssign(mb, target, t)
           /\ UNCHANGED queue
      ELSE /\ queue' = LpelSchedMakeReady(w, t)
           /\ mailbox' = mb
           /\ UNCHANGED <<worker_context, num_tasks>>

-----------------------------------------------------------------------------
(* The program: it creates tasks and stops the system *)

(* LpelWorkerGetContext(): a worker, or a new context and its thread *)
LpelWorkerGetContext(t) == IF t \in WrapperTasks THEN {t} ELSE Workers

(* LpelTaskCreate(), LpelTaskSetPriority() *)
LpelTaskCreate(t) ==
  /\ mainpc = "run"
  /\ t \in program.tasks /\ state[t] = "none"
  /\ state' = [state EXCEPT ![t] = "CREATED"]
  /\ \E c \in LpelWorkerGetContext(t) :
       worker_context' = [worker_context EXCEPT ![t] = c]
  /\ \E p \in program.prios : prio' = [prio EXCEPT ![t] = p]
  /\ pc' = IF t \in WrapperTasks THEN [pc EXCEPT ![t] = "loop"] ELSE pc
  /\ UNCHANGED <<waiter, schedVars, current_task, marked_del, migrated, mainVars>>

Started(t) ==
  state[t] = "CREATED" => M("ASSIGN", t) \in Range(mailbox[worker_context[t]])

(* LpelTaskStart(), LpelWorkerRunTask() *)
LpelTaskStart(t) ==
  /\ mainpc = "run"
  /\ state[t] = "CREATED" /\ ~Started(t)
  /\ mailbox' = SendAssign(mailbox, worker_context[t], t)
  /\ UNCHANGED <<taskVars, queue, num_tasks, terminate, wraptask, threadVars, mainVars>>

(* LpelStop(), by any thread: LpelWorkersTerminate() *)
LpelStop ==
  /\ mainpc = "run"
  /\ \A t \in Tasks : Started(t)
  /\ mainpc' = "stopping"
  /\ UNCHANGED <<taskVars, schedVars, threadVars, bcast, program>>

(* LpelWorkerBroadcast(), one mailbox after the other *)
LpelWorkerBroadcast ==
  /\ mainpc = "stopping"
  /\ IF bcast < num_workers
       THEN /\ mailbox' = [mailbox EXCEPT ![bcast] = Append(@, M("TERMINATE", NULL))]
            /\ bcast' = bcast + 1
            /\ UNCHANGED mainpc
       ELSE /\ mainpc' = "cleanup"
            /\ UNCHANGED <<mailbox, bcast>>
  /\ UNCHANGED <<taskVars, queue, num_tasks, terminate, wraptask, threadVars, program>>

(* LpelWorkersCleanup(): join the workers, free their contexts *)
LpelWorkersCleanup ==
  /\ mainpc = "cleanup"
  /\ \A w \in Workers : pc[w] = "exit"
  /\ mainpc' = "done"
  /\ UNCHANGED <<taskVars, schedVars, threadVars, bcast, program>>

-----------------------------------------------------------------------------
(* Running tasks *)

Running(c, t) == pc[c] = "task" /\ current_task[c] = t /\ state[t] = "RUNNING"

(* The task finds the semaphore of a stream at 0, or leaves a poll token *)
TaskWaits(c, t) ==
  /\ Running(c, t)
  /\ waiter[t] = "none"
  /\ mainpc # "done"
  /\ waiter' = [waiter EXCEPT ![t] = "waiting"]
  /\ UNCHANGED <<state, worker_context, prio, schedVars, threadVars, mainVars>>

(* A running task calls the dispatcher: a worker's thread goes on in it on  *)
(* the task's stack, a wrapper's thread switches back to its loop           *)
EnterDispatcher(c) ==
  /\ pc' = [pc EXCEPT ![c] = IF c \in Workers THEN "disp" ELSE "fetch"]
  /\ current_task' = IF c \in Workers THEN current_task
                                      ELSE [current_task EXCEPT ![c] = NULL]

(* LpelTaskBlockStream(): the state, then the dispatcher *)
LpelTaskBlockStream(c, t) ==
  /\ Running(c, t)
  /\ waiter[t] # "none"
  /\ state' = [state EXCEPT ![t] = "BLOCKED"]
  /\ EnterDispatcher(c)
  /\ UNCHANGED <<worker_context, prio, waiter, schedVars, marked_del, migrated, mainVars>>

(* LpelWorkerSelfTaskYield() *)
LpelWorkerSelfTaskYield(c, t) ==
  IF c \in WrapperTasks
    THEN /\ wraptask' = [wraptask EXCEPT ![c] = t]
         /\ UNCHANGED queue
    ELSE /\ queue' = LpelSchedMakeReady(c, t)
         /\ UNCHANGED wraptask

(* LpelTaskYield() when the task stays where it is *)
LpelTaskYield(c, t) ==
  /\ Running(c, t)
  /\ waiter[t] = "none" /\ t \in program.yielding
  /\ program.mechanism = "WAIT_PROP" => \E target \in LpelPickTargetWorker : target <= 0
  /\ state' = [state EXCEPT ![t] = "READY"]
  /\ LpelWorkerSelfTaskYield(c, t)
  /\ EnterDispatcher(c)
  /\ UNCHANGED <<worker_context, prio, waiter, mailbox, num_tasks, terminate,
                 marked_del, migrated, mainVars>>

(* fault: the task is assigned while the thread is still on its stack *)
LpelWorkerSelfTaskMigrateNow(c, t, target) ==
  /\ state' = [state EXCEPT ![t] = "READY"]
  /\ worker_context' = [worker_context EXCEPT ![t] = target]
  /\ mailbox' = SendAssign(mailbox, target, t)
  /\ num_tasks' = [num_tasks EXCEPT ![c] = @ - 1]
  /\ pc' = [pc EXCEPT ![c] = "disp"]
  /\ UNCHANGED migrated

(* LpelWorkerSelfTaskMigrate(): the task is noted, and the thread switches  *)
(* to its own stack; a target that is the own worker changes nothing        *)
LpelWorkerSelfTaskMigrate(c, t, target) ==
  /\ state' = [state EXCEPT ![t] = "READY"]
  /\ worker_context' = [worker_context EXCEPT ![t] = target]
  /\ migrated' = [migrated EXCEPT ![c] = t]
  /\ pc' = [pc EXCEPT ![c] = IF c \in Workers THEN "back" ELSE "fetch"]
  /\ UNCHANGED <<mailbox, num_tasks>>

(* LpelTaskYield() of a task that waited too much.  A wrapper's task is not *)
(* spared: WrapperLoop() never looks at wc->migrated, and the task, which   *)
(* has left for a worker, is not sent there                                 *)
LpelTaskYieldMigrate(c, t) ==
  /\ program.mechanism = "WAIT_PROP"
  /\ Running(c, t)
  /\ waiter[t] = "none" /\ t \in program.yielding
  /\ \E target \in LpelPickTargetWorker :
       /\ target > 0 /\ target # c
       /\ LpelWorkerSelfTaskMigrate(c, t, target)
  /\ UNCHANGED <<prio, waiter, queue, terminate, wraptask,
                 current_task, marked_del, mainVars>>

(* LpelTaskCheckMigrate(), called between two records *)
LpelTaskCheckMigrate(c, t) ==
  /\ program.mechanism = "RAND"
  /\ Running(c, t) /\ c \in Workers
  /\ waiter[t] = "none"
  /\ \E target \in LpelPickTargetWorker :
       /\ target >= 0 /\ target # c
       /\ LpelWorkerSelfTaskMigrate(c, t, target)
  /\ UNCHANGED <<prio, waiter, queue, terminate, wraptask,
                 current_task, marked_del, mainVars>>

(* fault: the exiting task's TCB and stack are freed at once *)
CleanupTaskContextNow(c, t) ==
  /\ state' = [u \in Tasks |-> IF u = marked_del[c] \/ u = t THEN "freed" ELSE state[u]]
  /\ marked_del' = [marked_del EXCEPT ![c] = NULL]

(* CleanupTaskContext(): free the task marked before, mark t (or NULL) *)
CleanupTaskContext(c, t) ==
  /\ state' = [u \in Tasks |-> IF u = marked_del[c] THEN "freed"
                               ELSE IF u = t THEN "ZOMBIE" ELSE state[u]]
  /\ marked_del' = [marked_del EXCEPT ![c] = t]

(* LpelTaskExit(), or the task's function returns: LpelWorkerSelfTaskExit() *)
LpelTaskExit(c, t) ==
  /\ Running(c, t)
  /\ waiter[t] = "none"
  /\ CleanupTaskContext(c, t)
  /\ IF c \in Workers
       THEN /\ num_tasks' = [num_tasks EXCEPT ![c] = @ - 1]
            /\ UNCHANGED terminate
       ELSE /\ terminate' = [terminate EXCEPT ![c] = 1]
            /\ UNCHANGED num_tasks
  /\ EnterDispatcher(c)
  /\ UNCHANGED <<worker_context, prio, waiter, mailbox, queue, wraptask, migrated, mainVars>>

(* LpelTaskUnblock(), LpelWorkerTaskWakeup() by a task of the same worker: *)
(* the other task is made ready without a message                          *)
WakeupDirect(c, by, t) ==
  /\ Running(c, by) /\ by # t
  /\ waiter[t] = "waiting"
  /\ c \in Workers /\ worker_context[t] = worker_context[by]
  /\ state' = [state EXCEPT ![t] = "READY"]
  /\ waiter' = [waiter EXCEPT ![t] = "signalled"]
  /\ LpelWorkerMakeTaskReady(t, mailbox)
  /\ UNCHANGED <<prio, terminate, wraptask, threadVars, mainVars>>

(* LpelWorkerTaskWakeup() by a task on another worker or wrapper, of those  *)
(* here or of the ones of the program that are not followed                 *)
WakeupByMessage(t) ==
  /\ waiter[t] = "waiting"
  /\ waiter' = [waiter EXCEPT ![t] = "signalled"]
  /\ mailbox' = SendWakeup(mailbox, worker_context[t], t)
  /\ UNCHANGED <<state, worker_context, prio, queue, num_tasks, terminate, wraptask,
                 threadVars, mainVars>>

-----------------------------------------------------------------------------
(* Messages *)

Incoming(c, type) == mailbox[c] # <<>> /\ Head(mailbox[c]).type = type
Received(c) == Head(mailbox[c]).body
Rest(c) == [mailbox EXCEPT ![c] = Tail(@)]

ProcessWakeup(c) ==
  /\ Incoming(c, "WAKEUP")
  /\ state' = [state EXCEPT ![Received(c)] = "READY"]
  /\ IF c \in WrapperTasks
       THEN /\ wraptask' = [wraptask EXCEPT ![c] = Received(c)]
            /\ mailbox' = Rest(c)
            /\ UNCHANGED <<worker_context, queue, num_tasks>>
       ELSE /\ LpelWorkerMakeTaskReady(Received(c), Rest(c))
            /\ UNCHANGED wraptask
  /\ UNCHANGED terminate

(* fault: a worker that has tasks puts TERMINATE back, to look at it later *)
ProcessTerminateLater(c) ==
  /\ Incoming(c, "TERMINATE")
  /\ IF num_tasks[c] = 0
       THEN /\ terminate' = [terminate EXCEPT ![c] = 1]
            /\ mailbox' = Rest(c)
       ELSE /\ mailbox' = [Rest(c) EXCEPT ![c] = Append(@, M("TERMINATE", NULL))]
            /\ UNCHANGED terminate
  /\ UNCHANGED <<state, worker_context, queue, num_tasks, wraptask>>

ProcessTerminate(c) ==
  /\ Incoming(c, "TERMINATE")
  /\ terminate' = [terminate EXCEPT ![c] = 1]
  /\ mailbox' = Rest(c)
  /\ UNCHANGED <<state, worker_context, queue, num_tasks, wraptask>>

(* fault: the assigned task is not counted *)
ProcessAssignUncounted(c) ==
  /\ Incoming(c, "ASSIGN")
  /\ state' = [state EXCEPT ![Received(c)] = "READY"]
  /\ mailbox' = Rest(c)
  /\ IF c \in WrapperTasks
       THEN /\ wraptask' = [wraptask EXCEPT ![c] = Received(c)]
            /\ UNCHANGED queue
       ELSE /\ queue' = LpelSchedMakeReady(c, Received(c))
            /\ UNCHANGED wraptask
  /\ UNCHANGED <<worker_context, terminate, num_tasks>>

ProcessAssign(c) ==
  /\ Incoming(c, "ASSIGN")
  /\ state' = [state EXCEPT ![Received(c)] = "READY"]
  /\ mailbox' = Rest(c)
  /\ IF c \in WrapperTasks
       THEN /\ wraptask' = [wraptask EXCEPT ![c] = Received(c)]
            /\ UNCHANGED <<queue, num_tasks>>
       ELSE /\ num_tasks' = [num_tasks EXCEPT ![c] = @ + 1]
            /\ queue' = LpelSchedMakeReady(c, Received(c))
            /\ UNCHANGED wraptask
  /\ UNCHANGED <<worker_context, terminate>>

ProcessMessage(c) == ProcessWakeup(c) \/ ProcessTerminate(c) \/ ProcessAssign(c)

(* FetchAllMessages(), one message: after a turn of a loop, or in the       *)
(* dispatcher, on the stack of the task that stops                          *)
FetchAllMessages(c) ==
  /\ pc[c] \in {"fetch", "disp"}
  /\ ProcessMessage(c)
  /\ UNCHANGED <<prio, waiter, threadVars, mainVars>>

(* WaitForNewMessage(), when no task is ready *)
WaitForNewMessage(c) ==
  /\ pc[c] = "loop"
  /\ IF c \in Workers THEN ~HasReady(c) ELSE wraptask[c] = NULL
  /\ ProcessMessage(c)
  /\ pc' = [pc EXCEPT ![c] = "fetch"]
  /\ UNCHANGED <<prio, waiter, current_task, marked_del, migrated, mainVars>>

-----------------------------------------------------------------------------
(* Threads *)

(* The thread switches to a ready task, which goes on behind TaskStart() *)
SwitchTo(c, t) ==
  /\ state[t] = "READY"
  /\ state' = [state EXCEPT ![t] = "RUNNING"]
  /\ waiter' = [waiter EXCEPT ![t] = "none"]
  /\ current_task' = [current_task EXCEPT ![c] = t]
  /\ pc' = [pc EXCEPT ![c] = "task"]

(* LpelWorkerDispatcher() behind FetchAllMessages(): on to the next task,   *)
(* which may be the one that called it, or back to the worker's loop        *)
LpelWorkerDispatcher(w) ==
  /\ pc[w] = "disp" /\ mailbox[w] = <<>>
  /\ IF HasReady(w)
       THEN /\ SwitchTo(w, NextReady(w))
            /\ queue' = LpelSchedFetchReady(w)
       ELSE /\ current_task' = [current_task EXCEPT ![w] = NULL]
            /\ pc' = [pc EXCEPT ![w] = "back"]
            /\ UNCHANGED <<state, waiter, queue>>
  /\ UNCHANGED <<worker_context, prio, mailbox, num_tasks, terminate, wraptask,
                 marked_del, migrated, mainVars>>

(* WorkerLoop(): execute a ready task *)
WorkerRun(w) ==
  /\ pc[w] = "loop" /\ HasReady(w)
  /\ SwitchTo(w, NextReady(w))
  /\ queue' = LpelSchedFetchReady(w)
  /\ UNCHANGED <<worker_context, prio, mailbox, num_tasks, terminate, wraptask,
                 marked_del, migrated, mainVars>>

(* WorkerLoop(), a task switched back: send it on, free the one that ended *)
WorkerBack(w) ==
  /\ pc[w] = "back"
  /\ IF migrated[w] # NULL
       THEN /\ mailbox' = SendAssign(mailbox, worker_context[migrated[w]], migrated[w])
            /\ num_tasks' = [num_tasks EXCEPT ![w] = @ - 1]
            /\ migrated' = [migrated EXCEPT ![w] = NULL]
       ELSE UNCHANGED <<mailbox, num_tasks, migrated>>
  /\ CleanupTaskContext(w, NULL)
  /\ pc' = [pc EXCEPT ![w] = "fetch"]
  /\ UNCHANGED <<worker_context, prio, waiter, queue, terminate, wraptask, current_task, mainVars>>

MayLeave(w) == num_tasks[w] = 0 /\ terminate[w] = 1

(* The condition at the end of WorkerLoop() *)
WorkerLoop(w) ==
  /\ pc[w] = "fetch" /\ mailbox[w] = <<>>
  /\ pc' = [pc EXCEPT ![w] = IF MayLeave(w) THEN "exit" ELSE "loop"]
  /\ UNCHANGED <<taskVars, schedVars, current_task, marked_del, migrated, mainVars>>

(* WrapperLoop(): execute the task *)
WrapperRun(c) ==
  /\ pc[c] = "loop" /\ wraptask[c] # NULL
  /\ SwitchTo(c, wraptask[c])
  /\ wraptask' = [wraptask EXCEPT ![c] = NULL]
  /\ UNCHANGED <<worker_context, prio, mailbox, queue, num_tasks, terminate,
                 marked_del, migrated, mainVars>>

(* The end of WrapperLoop(): once more, or free the task and the context *)
WrapperLoop(c) ==
  /\ pc[c] = "fetch" /\ mailbox[c] = <<>>
  /\ IF terminate[c] = 1
       THEN /\ pc' = [pc EXCEPT ![c] = "exit"]
            /\ CleanupTaskContext(c, NULL)
       ELSE /\ pc' = [pc EXCEPT ![c] = "loop"]
            /\ UNCHANGED <<state, marked_del>>
  /\ UNCHANGED <<worker_context, prio, waiter, schedVars, current_task, migrated, mainVars>>

WorkerThread(w) == \/ WorkerRun(w) \/ WorkerBack(w) \/ WorkerLoop(w)
                   \/ LpelWorkerDispatcher(w)
                   \/ FetchAllMessages(w) \/ WaitForNewMessage(w)

WrapperThread(c) == \/ WrapperRun(c) \/ WrapperLoop(c)
                    \/ FetchAllMessages(c) \/ WaitForNewMessage(c)

(* A task stops running *)
Stops(c, t) == \/ LpelTaskBlockStream(c, t) \/ LpelTaskYield(c, t)
               \/ LpelTaskYieldMigrate(c, t) \/ LpelTaskCheckMigrate(c, t)
               \/ LpelTaskExit(c, t)

Finished == mainpc = "done" /\ UNCHANGED vars

Next ==
  \/ LpelStop \/ LpelWorkerBroadcast \/ LpelWorkersCleanup \/ Finished
  \/ \E t \in Tasks : LpelTaskCreate(t) \/ LpelTaskStart(t) \/ WakeupByMessage(t)
  \/ \E c \in Contexts, t \in Tasks : TaskWaits(c, t) \/ Stops(c, t)
  \/ \E c \in Workers, by, t \in Tasks : WakeupDirect(c, by, t)
  \/ \E w \in Workers : WorkerThread(w)
  \/ \E c \in WrapperTasks : WrapperThread(c)

Spec == Init /\ [][Next]_vars

-----------------------------------------------------------------------------
(* Properties *)

OnStack(c, t) == pc[c] \in {"task", "disp"} /\ current_task[c] = t

(* No two threads are on the stack of the same task: a task that another    *)
(* worker may switch to has left the stack, so mctx_switch() has saved its  *)
(* context (the comment in LpelWorkerSelfTaskMigrate(), decen_worker.c:458) *)
SoleOnStack ==
  \A c, d \in Contexts, t \in Tasks : OnStack(c, t) /\ OnStack(d, t) => c = d

(* The same without migration by waiting proportion, which does not go       *)
(* through LpelWorkerSelfTaskMigrate() alone: random migration and yields    *)
(* never let a second thread onto a stack                                    *)
OneStack == program.mechanism # "WAIT_PROP" => SoleOnStack

(* Deferred deletion: a task's memory, which holds its stack, is freed by   *)
(* CleanupTaskContext() only after every thread has left the stack and      *)
(* nothing that may lead back to the task is left; again without migration  *)
(* by waiting proportion                                                    *)
FreedUnused ==
  program.mechanism # "WAIT_PROP" => \A t \in Tasks : state[t] = "freed" =>
    /\ \A c \in Contexts : ~OnStack(c, t) /\ marked_del[c] # t
    /\ \A c \in Contexts : \A i \in DOMAIN mailbox[c] : mailbox[c][i].body # t
    /\ \A w \in Workers, q \in QueueIds : t \notin Range(queue[w][q])

(* The task counts for worker w, which must not leave its loop before it *)
CountedBy(t, w) ==
  \/ migrated[w] = t
  \/ /\ worker_context[t] = w
     /\ state[t] \in {"READY", "RUNNING", "BLOCKED"}
     /\ \A c \in Contexts : migrated[c] # t
     /\ M("ASSIGN", t) \notin Range(mailbox[w])

(* wc->num_tasks is the number of tasks the worker has, whichever tasks     *)
(* were created, ended or migrated: it decides when the worker leaves       *)
TaskCount ==
  \A w \in Workers : num_tasks[w] = Cardinality({t \in Tasks : CountedBy(t, w)})

(* A task whose wait is over is ready, or its wake-up is in the mailbox of  *)
(* the thread that runs it; a blocked task waits for something.  And no     *)
(* wake-up is late: one that is handled, from the mailbox or directly, finds *)
(* a task that is not ready, as ProcessMessage() and LpelWorkerTaskWakeup() *)
(* assert (decen_worker.c:341 and 505); a task is only assigned when it was *)
(* created or migrated (decen_worker.c:523)                                 *)
NoLostWakeup ==
  /\ \A t \in Tasks :
       /\ waiter[t] = "signalled" /\ state[t] \in {"RUNNING", "BLOCKED"}
            => M("WAKEUP", t) \in Range(mailbox[worker_context[t]])
       /\ state[t] = "BLOCKED" => waiter[t] # "none"
       /\ waiter[t] = "waiting" => state[t] # "READY"
  /\ \A c \in Contexts :
       /\ Incoming(c, "WAKEUP") => state[Received(c)] # "READY"
       /\ Incoming(c, "ASSIGN") => state[Received(c)] \in {"CREATED", "READY"}

(* A task that was woken gets to run: with cooperative tasks no wake-up is  *)
(* stuck in a mailbox, and a task that yields over and over does not keep   *)
(* others of its priority from running                                      *)
WokenRuns == \A t \in Tasks : waiter[t] = "signalled" ~> state[t] = "RUNNING"

(* After LpelStop() the workers run their tasks to the end and leave, and   *)
(* LpelCleanup() completes                                                  *)
StopTerminates == mainpc = "stopping" ~> mainpc = "done"
=============================================================================
