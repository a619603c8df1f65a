------------------------------ MODULE SpmdExt ------------------------------
(***************************************************************************)
(* The SPMD extension (spmdext.c): a task asks for a function to be run by *)
(* all workers together.  Requests are put into a ring of num_workers      *)
(* slots without a lock; the workers serve the request at its head between *)
(* a start and a stop barrier, both built from one semaphore per worker.   *)
(*                                                                         *)
(* Each access to shared data is a step.  A worker has a task that makes   *)
(* requests, "asks", and those of Spare have one more, which does not: two *)
(* tasks that request on one worker break the assertion in line 222.  Of   *)
(* the mailbox only whether it holds SPMDREQ messages is kept, and a local *)
(* variable that is not read again is set back to its initial value.       *)
(***************************************************************************)
EXTENDS Integers, Sequences

CONSTANTS
  num_workers,
  Spare,        \* the workers that have a task more
  NULL

Workers == 0 .. num_workers - 1

VARIABLES
  req_queue,   \* req_queue[i].wctx: the requesting worker, or NULL
  qhead, qtail,
  sema,        \* worker_data[w].sema
  pending,     \* worker_data[w].pending
  inbox,       \* 1 iff SPMDREQ messages are in the mailbox of w
  ready,       \* the ready tasks of w, in their queue
  task,        \* the task w runs
  pc,          \* where worker w is
  head,        \* head in LpelSpmdHandleRequests(); tail in LpelSpmdRequest()
  cur,         \* curreq.wctx
  i            \* the loop counter i of w

vars == <<req_queue, qhead, qtail, sema, pending, inbox, ready, task, pc, head, cur, i>>
queueVars == <<req_queue, qhead, qtail>>
localVars == <<head, cur, i>>

(* LpelSpmdInit(), in the state in which every worker runs one of its tasks *)
Init ==
  /\ req_queue = [s \in Workers |-> NULL]
  /\ qhead = 0 /\ qtail = 0
  /\ sema = [w \in Workers |-> 0]
  /\ pending = [w \in Workers |-> 0]
  /\ inbox = [w \in Workers |-> 0]
  /\ ready = [w \in Workers |-> IF w \in Spare THEN <<"other">> ELSE <<>>]
  /\ task = [w \in Workers |-> "asks"]
  /\ pc = [w \in Workers |-> "run"]
  /\ head = [w \in Workers |-> 0]
  /\ cur = [w \in Workers |-> NULL]
  /\ i = [w \in Workers |-> 0]

Goto(w, from, to) == pc[w] = from /\ pc' = [pc EXCEPT ![w] = to]
Post(w) == sema' = [sema EXCEPT ![w] = @ + 1]

-----------------------------------------------------------------------------
(* A task runs, and may enter LpelTaskEnterSPMD() *)

(* The running task stops for another reason and stays ready *)
TaskYields(w) ==
  /\ Goto(w, "run", "fetch")
  /\ ready' = [ready EXCEPT ![w] = Append(@, task[w])]
  /\ UNCHANGED <<queueVars, sema, pending, inbox, task, localVars>>

LpelTaskEnterSPMD(w) ==
  /\ task[w] = "asks"
  /\ Goto(w, "run", "request")
  /\ UNCHANGED <<queueVars, sema, pending, inbox, ready, task, localVars>>

(* LpelSpmdRequest(): the pending flag *)
RequestPending(w) ==
  /\ Goto(w, "request", "append")
  /\ pending' = [pending EXCEPT ![w] = 1]
  /\ UNCHANGED <<queueVars, sema, inbox, ready, task, localVars>>

Slot(tail) == tail % num_workers

(* The slot is claimed *)
RequestAppend(w) ==
  /\ Goto(w, "append", "write")
  /\ head' = [head EXCEPT ![w] = Slot(qtail)]
  /\ qtail' = qtail + 1
  /\ UNCHANGED <<req_queue, qhead, sema, pending, inbox, ready, task, cur, i>>

(* ... and the request written; of its fields other workers use wctx only *)
RequestWrite(w) ==
  /\ Goto(w, "write", "bcast")
  /\ req_queue' = [req_queue EXCEPT ![head[w]] = w]
  /\ head' = [head EXCEPT ![w] = 0]
  /\ UNCHANGED <<qhead, qtail, sema, pending, inbox, ready, task, cur, i>>

(* LpelWorkerBroadcast() of SPMDREQ, then the task blocks *)
Broadcast(w) ==
  /\ pc[w] = "bcast"
  /\ inbox' = [inbox EXCEPT ![i[w]] = 1]
  /\ i' = [i EXCEPT ![w] = (@ + 1) % num_workers]
  /\ pc' = [pc EXCEPT ![w] = IF i[w] + 1 = num_workers THEN "fetch" ELSE "bcast"]
  /\ UNCHANGED <<queueVars, sema, pending, ready, task, head, cur>>

(* FetchAllMessages() in the dispatcher or in the worker's loop *)
FetchAllMessages(w) ==
  /\ Goto(w, "fetch", "load")
  /\ inbox' = [inbox EXCEPT ![w] = 0]
  /\ UNCHANGED <<queueVars, sema, pending, ready, task, localVars>>

(* WaitForNewMessage(), no task being ready *)
WaitForNewMessage(w) ==
  /\ Goto(w, "idle", "fetch")
  /\ inbox[w] > 0
  /\ UNCHANGED <<queueVars, sema, pending, inbox, ready, task, localVars>>

-----------------------------------------------------------------------------
(* LpelSpmdHandleRequests() *)

LoadHead(w) ==
  /\ Goto(w, "load", "copy")
  /\ head' = [head EXCEPT ![w] = qhead]
  /\ UNCHANGED <<queueVars, sema, pending, inbox, ready, task, cur, i>>

(* All requests handled: on to a ready task, or to sleep *)
HandledAll(w) ==
  /\ pc[w] = "copy"
  /\ req_queue[head[w]] = NULL
  /\ head' = [head EXCEPT ![w] = 0]
  /\ IF ready[w] # <<>>
       THEN /\ pc' = [pc EXCEPT ![w] = "run"]
            /\ task' = [task EXCEPT ![w] = Head(ready[w])]
            /\ ready' = [ready EXCEPT ![w] = Tail(@)]
       ELSE /\ pc' = [pc EXCEPT ![w] = "idle"]
            /\ UNCHANGED <<ready, task>>
  /\ UNCHANGED <<queueVars, sema, pending, inbox, cur, i>>

(* The own request: the worker is the master of the barriers *)
CopyOwn(w) ==
  /\ pc[w] = "copy"
  /\ req_queue[head[w]] = w
  /\ cur' = [cur EXCEPT ![w] = w]
  /\ pc' = [pc EXCEPT ![w] = IF num_workers = 1 THEN "crit" ELSE "gather"]
  /\ UNCHANGED <<queueVars, sema, pending, inbox, ready, task, head, i>>

(* Start-Barrier of the others: signal the master, then wait *)
CopyOther(w) ==
  /\ Goto(w, "copy", "enter")
  /\ req_queue[head[w]] \notin {w, NULL}
  /\ cur' = [cur EXCEPT ![w] = req_queue[head[w]]]
  /\ Post(req_queue[head[w]])
  /\ head' = [head EXCEPT ![w] = 0]
  /\ UNCHANGED <<queueVars, pending, inbox, ready, task, i>>

(* fault: the master waits for one worker less *)
BarrierCountShort == num_workers - 2
BarrierCount == num_workers - 1

(* sem_wait() of the master, at the start ("gather") or the stop ("leave") *)
Gather(w, at, to) ==
  /\ pc[w] = at /\ cur[w] = w
  /\ sema[w] > 0 /\ i[w] < BarrierCount
  /\ sema' = [sema EXCEPT ![w] = @ - 1]
  /\ i' = [i EXCEPT ![w] = @ + 1]
  /\ pc' = [pc EXCEPT ![w] = IF i[w] + 1 = BarrierCount THEN to ELSE at]
  /\ UNCHANGED <<queueVars, pending, inbox, ready, task, head, cur>>

Invalidate(w) == [req_queue EXCEPT ![head[w]] = NULL]

(* The critical section: invalidate the request, move the head *)
MoveHead(w) ==
  /\ Goto(w, "crit", "tail")
  /\ req_queue' = Invalidate(w)
  /\ head' = [head EXCEPT ![w] = 0]
  /\ qhead' = (head[w] + 1) % num_workers
  /\ UNCHANGED <<qtail, sema, pending, inbox, ready, task, cur, i>>

LoadTail(w) ==
  /\ Goto(w, "tail", "store")
  /\ i' = [i EXCEPT ![w] = qtail]
  /\ UNCHANGED <<queueVars, sema, pending, inbox, ready, task, head, cur>>

CorrectedTail(tail) == IF tail >= num_workers THEN tail % num_workers ELSE tail

StoreTail(w) ==
  /\ Goto(w, "store", "release")
  /\ qtail' = CorrectedTail(i[w])
  /\ i' = [i EXCEPT ![w] = 0]
  /\ UNCHANGED <<req_queue, qhead, sema, pending, inbox, ready, task, head, cur>>

(* Signal the other threads, one after the other *)
Release(w) ==
  /\ pc[w] = "release"
  /\ sema' = IF i[w] # w THEN [sema EXCEPT ![i[w]] = @ + 1] ELSE sema
  /\ i' = [i EXCEPT ![w] = (@ + 1) % num_workers]
  /\ pc' = [pc EXCEPT ![w] = IF i[w] + 1 = num_workers THEN "spmd" ELSE "release"]
  /\ UNCHANGED <<queueVars, pending, inbox, ready, task, head, cur>>

Enter(w) ==
  /\ Goto(w, "enter", "spmd")
  /\ sema[w] > 0
  /\ sema' = [sema EXCEPT ![w] = @ - 1]
  /\ UNCHANGED <<queueVars, pending, inbox, ready, task, localVars>>

(* The function (whose call is commented out) is done; Stop-Barrier *)
LeaveMaster(w) ==
  /\ cur[w] = w
  /\ Goto(w, "spmd", "leave")
  /\ UNCHANGED <<queueVars, sema, pending, inbox, ready, task, localVars>>

LeaveOther(w) ==
  /\ cur[w] # w
  /\ Goto(w, "spmd", "load")
  /\ Post(cur[w])
  /\ cur' = [cur EXCEPT ![w] = NULL]
  /\ UNCHANGED <<queueVars, pending, inbox, ready, task, head, i>>

(* All have left: clear pending, LpelWorkerTaskWakeupLocal() of the task *)
RequestDone(w) ==
  /\ Goto(w, "leave", "load")
  /\ i[w] = BarrierCount
  /\ pending' = [pending EXCEPT ![w] = 0]
  /\ ready' = [ready EXCEPT ![w] = Append(@, "asks")]
  /\ i' = [i EXCEPT ![w] = 0] /\ cur' = [cur EXCEPT ![w] = NULL]
  /\ UNCHANGED <<queueVars, sema, inbox, task, head>>

LpelSpmdHandleRequests(w) ==
  \/ LoadHead(w) \/ HandledAll(w) \/ CopyOwn(w) \/ CopyOther(w)
  \/ Gather(w, "gather", "crit") \/ MoveHead(w) \/ LoadTail(w) \/ StoreTail(w) \/ Release(w)
  \/ Enter(w) \/ LeaveMaster(w) \/ LeaveOther(w) \/ Gather(w, "leave", "leave") \/ RequestDone(w)

LpelSpmdRequest(w) == RequestPending(w) \/ RequestAppend(w) \/ RequestWrite(w)

Worker(w) == \/ TaskYields(w) \/ LpelSpmdRequest(w) \/ Broadcast(w)
             \/ FetchAllMessages(w) \/ WaitForNewMessage(w) \/ LpelSpmdHandleRequests(w)

Next == \E w \in Workers : Worker(w) \/ LpelTaskEnterSPMD(w)

Spec == Init /\ [][Next]_vars

-----------------------------------------------------------------------------
(* The virtual id of a worker within the function *)
GetVId(self_id, master_id) ==
  IF master_id - self_id < 0 THEN master_id - self_id + num_workers ELSE master_id - self_id

(* Requests do not get into each other's way, although the semaphore of a   *)
(* worker is posted for the requests of different masters:                  *)
(* "now master is the sole thread operating on the queue" (spmdext.c:141),  *)
(* every other worker has entered the barrier for this very request;        *)
(* workers between the barriers serve the same request, with virtual ids    *)
(* that differ; and "a fixed queue size of num_workers is sufficient"       *)
(* (spmdext.c:53), a slot that was claimed is claimed by one worker only    *)
(* and free until its request is written; and the pending flag of a worker  *)
(* is clear when its task requests and set until the request was served     *)
(* (the assertions spmdext.c:222 and 200).                                  *)
SoleInCritical ==
  \A w, v \in Workers : v # w =>
    /\ pc[w] \in {"crit", "tail", "store"} => pc[v] = "enter" /\ cur[v] = w
    /\ pc[w] = "spmd" /\ pc[v] = "spmd" =>
         cur[w] = cur[v] /\ GetVId(w, cur[w]) # GetVId(v, cur[v])
    /\ pc[w] = "write" =>
         req_queue[head[w]] = NULL /\ ~(pc[v] = "write" /\ head[v] = head[w])
    /\ pc[w] = "request" => pending[w] = 0
    /\ pc[w] \in {"append", "write", "bcast", "leave"} => pending[w] = 1
=============================================================================
