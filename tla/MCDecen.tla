------------------------------- MODULE MCDecen -------------------------------
(***************************************************************************)
(* The decentralised back-end, its components side by side: the workers,   *)
(* streams, the queues of a worker, SPMD requests and binary semaphores.   *)
(* `part' says which of them a behaviour is about, the others stay in      *)
(* their initial states.                                                   *)
(***************************************************************************)
EXTENDS BiSema, TLC

CONSTANTS
  w1, w2, t1, t2, t3, t4,     \* BiSema: workers and tasks
  wr1,                        \* DecenWorker: a wrapper task; its others are t1, t2
  Queues, Null                \* DecenTaskqueue

(* Three tasks share a worker, the fourth has one of its own *)
MCHome == (t1 :> w1) @@ (t2 :> w1) @@ (t3 :> w1) @@ (t4 :> w2)

VARIABLES
  part,
  use, mem, data, pread, pwrite, n_sem, e_sem, is_poll, prod_lock, prod_sd, cons_sd,
  stream, spc, witem, poll_wakeup, swait, cpc, csd, item, cwait, set, cnt, pos,
  poll_token, wakeup_sd,
  head, tail, count, prev, next,
  req_queue, qhead, qtail, sema, pending, inbox, sready, stask, spmdpc, shead, cur, loop,
  program, state, worker_context, prio, waiter, mailbox, queue, num_tasks, terminate,
  wraptask, current_task, marked_del, migrated, wpc, mainpc, bcast

(* Two streams, among which the consumer polls, or one that carries two items *)
Uses == {[streams |-> {1, 2}, items |-> {"a"}], [streams |-> {1}, items |-> {"a", "b"}]}

(* A wrapper task and no migration; random migration with a priority above  *)
(* those of the queues; migration by waiting proportion with one below      *)
(* them, and with a wrapper task that yields                                *)
Programs ==
  {[mechanism |-> "NONE", tasks |-> {t1, wr1}, yielding |-> {t1, wr1}, prios |-> {0}],
   [mechanism |-> "RAND", tasks |-> {t1, t2}, yielding |-> {t1, t2}, prios |-> {2}],
   [mechanism |-> "WAIT_PROP", tasks |-> {t1, t2}, yielding |-> {t1}, prios |-> {-1}],
   [mechanism |-> "WAIT_PROP", tasks |-> {t1, wr1}, yielding |-> {wr1}, prios |-> {0}]}

Str == INSTANCE DecenStream WITH NumStreams <- 2, BufSize <- 2, Items <- {"a", "b"}
Queue == INSTANCE DecenTaskqueue WITH Tasks <- {t1, t2, t3}, NULL <- Null
Spmd == INSTANCE SpmdExt WITH
          num_workers <- 3, Spare <- {0}, NULL <- Null,
          ready <- sready, task <- stask, pc <- spmdpc, head <- shead, i <- loop
Wrk == INSTANCE DecenWorker WITH
         num_workers <- 2, WorkerTasks <- {t1, t2}, WrapperTasks <- {wr1}, NULL <- Null, pc <- wpc

semaVars == <<counter, pc, late, ready>>
strVars ==
  <<use, mem, data, pread, pwrite, n_sem, e_sem, is_poll, prod_lock, prod_sd, cons_sd,
    stream, spc, witem, poll_wakeup, swait, cpc, csd, item, cwait, set, cnt, pos,
    poll_token, wakeup_sd>>
queueVars == <<head, tail, count, prev, next>>
spmdVars == <<req_queue, qhead, qtail, sema, pending, inbox, sready, stask, spmdpc, shead, cur, loop>>
wrkVars ==
  <<program, state, worker_context, prio, waiter, mailbox, queue, num_tasks, terminate,
    wraptask, current_task, marked_del, migrated, wpc, mainpc, bcast>>
mcvars == <<part, semaVars, strVars, queueVars, spmdVars, wrkVars>>

(* One configuration is enough of an object that does not move *)
MCInit ==
  /\ part \in {"sema", "stream", "queue", "spmd", "worker"}
  /\ Init /\ Str!Init /\ Queue!Init /\ Spmd!Init /\ Wrk!Init
  /\ part # "sema" => ready = (w1 :> <<t1, t2, t3>>) @@ (w2 :> <<t4>>)
  /\ part # "stream" => use.items = {"a"}
  /\ part # "worker" => program.mechanism = "NONE"

MCNext ==
  \/ /\ part = "sema" /\ Next
     /\ UNCHANGED <<part, strVars, queueVars, spmdVars, wrkVars>>
  \/ /\ part = "stream" /\ Str!Next
     /\ UNCHANGED <<part, semaVars, queueVars, spmdVars, wrkVars>>
  \/ /\ part = "queue" /\ Queue!Next
     /\ UNCHANGED <<part, semaVars, strVars, spmdVars, wrkVars>>
  \/ /\ part = "spmd" /\ Spmd!Next
     /\ UNCHANGED <<part, semaVars, strVars, queueVars, wrkVars>>
  \/ /\ part = "worker" /\ Wrk!Next
     /\ UNCHANGED <<part, semaVars, strVars, queueVars, spmdVars>>

MCSpec == MCInit /\ [][MCNext]_mcvars

-----------------------------------------------------------------------------
(* Nobody follows a pointer to a freed stream or descriptor, though closing, *)
(* destroying and replacing are not synchronised with the other side         *)
(* (LpelStreamClose(), LpelStreamReplace())                                  *)
NoDangling == part = "stream" => Str!NoDangling

(* Wake-ups match waits: no task sleeps beside what it waits for, and none   *)
(* is woken that does not sleep (LpelStreamWrite(), Read() and Poll())       *)
NoSleepMissed == part = "stream" => Str!NoSleepMissed

(* Each stream is a bounded first-in first-out queue (decen_buffer.c)        *)
ImplementsFifo == Str!ImplementsFifo

(* The ready queues are sequences, read along next (decen_taskqueue.c)       *)
ImplementsDeque == Queue!ImplementsDeque

(* "now master is the sole thread operating on the queue", and requests do   *)
(* not get into each other's way (LpelSpmdHandleRequests())                  *)
SoleInCritical == part = "spmd" => Spmd!SoleInCritical

(* No two threads are on the stack of the same task, unless tasks migrate by *)
(* waiting proportion (LpelWorkerSelfTaskMigrate())                          *)
OneStack == part = "worker" => Wrk!OneStack

(* A task that was freed is nowhere any more, with the same exception        *)
(* (CleanupTaskContext())                                                    *)
FreedUnused == part = "worker" => Wrk!FreedUnused

(* num_tasks of a worker counts the tasks it still has to run or will get    *)
(* (LpelWorkerLoop())                                                        *)
TaskCount == part = "worker" => Wrk!TaskCount

(* A wake-up that was sent finds its task (LpelWorkerTaskWakeup())           *)
NoLostWakeup == part = "worker" => Wrk!NoLostWakeup
=============================================================================
