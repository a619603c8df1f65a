--------------------------- MODULE HrcSchedProofs ---------------------------
(***************************************************************************)
(* The safety properties of HrcSched hold for any number of workers and    *)
(* tasks; at the end, what is left in the mailboxes when LpelCleanup() has *)
(* joined the master and the workers.                                      *)
(***************************************************************************)
EXTENDS HrcSchedSteps

(* time limits of the two provers *)
USE SMTT(30), ZenonT(30)

-----------------------------------------------------------------------------
(* Types *)

(* The structures set up by LpelWorkersInit() have their types. *)
LEMMA InitType == Init => TypeOK
  BY ConstAssumption
  DEF Init, TypeOK, Workers, Prior, LPEL_DBL_MIN, DBL_MAX

(* servePendingReq() keeps the types. *)
LEMMA ServeType ==
  ASSUME TypeOK, NEW t \in Tasks, servePendingReq(t)
  PROVE  /\ state' \in [Tasks -> {"none", "CREATED", "READY", "INQUEUE", "RUNNING",
                                  "BLOCKED", "RETURNED", "ZOMBIE", "freed"}]
         /\ prior' \in [Tasks -> Prior]
         /\ ready_tasks' \in SUBSET Tasks
         /\ waitworkers' \in [Workers -> {0, 1}]
         /\ workermbs' \in [Workers -> Seq(Msg)]
  BY MsgMake, SendMsg DEF TypeOK, servePendingReq

(* LpelTaskqueuePush() of a task keeps the types. *)
LEMMA EnqueueType ==
  ASSUME TypeOK, NEW t \in Tasks, NEW p \in [Tasks -> Prior], Enqueue(t, p)
  PROVE  /\ state' \in [Tasks -> {"none", "CREATED", "READY", "INQUEUE", "RUNNING",
                                  "BLOCKED", "RETURNED", "ZOMBIE", "freed"}]
         /\ prior' \in [Tasks -> Prior]
         /\ ready_tasks' \in SUBSET Tasks
         /\ waitworkers' \in [Workers -> {0, 1}]
         /\ workermbs' \in [Workers -> Seq(Msg)]
  BY Zenon DEF TypeOK, Enqueue

(* Handing out or queueing a ready task in MasterLoop() keeps the types. *)
LEMMA ScheduleType ==
  ASSUME TypeOK, NEW t \in Tasks, NEW others \in SUBSET [Tasks -> Prior],
         ScheduleReady(t, others)
  PROVE  /\ state' \in [Tasks -> {"none", "CREATED", "READY", "INQUEUE", "RUNNING",
                                  "BLOCKED", "RETURNED", "ZOMBIE", "freed"}]
         /\ prior' \in [Tasks -> Prior]
         /\ ready_tasks' \in SUBSET Tasks
         /\ waitworkers' \in [Workers -> {0, 1}]
         /\ workermbs' \in [Workers -> Seq(Msg)]
  BY ScheduleCases, ServeType, EnqueueType, Zenon

(* The loop test of MasterLoop() starts the broadcast at worker 0. *)
LEMMA LoopType ==
  ASSUME NEW term, NEW queue, LoopOrBroadcast(term, queue),
         mpc = "loop", BroadcastProgress, UNCHANGED bcast
  PROVE  mpc' \in {"loop", "broadcast", "done"} /\ BroadcastProgress'
  BY ConstAssumption DEF LoopOrBroadcast, BroadcastProgress, Workers

(* No step of master, worker or main thread leaves the types. *)
LEMMA NextType ==
  ASSUME IInv, [Next]_vars
  PROVE  TypeOK' /\ BroadcastProgress'
<1> USE DEF IInv, masterVars, workerVars
<1>1. ASSUME NEW t \in Tasks, LpelTaskStart(t) PROVE TypeOK' /\ BroadcastProgress'
  BY <1>1, MsgMake, SendMsg, Zenon DEF LpelTaskStart, TypeOK, BroadcastProgress
<1>2. ASSUME NEW t \in Tasks, LpelTaskUnblock(t) PROVE TypeOK' /\ BroadcastProgress'
  BY <1>2, MsgMake, SendMsg, Zenon DEF LpelTaskUnblock, TypeOK, BroadcastProgress
<1>3. CASE MasterAssign
  <2>1. Handling("ASSIGN") /\ mpc = "loop" /\ bcast' = bcast
    BY <1>3, Zenon DEF MasterAssign, Handling
  <2>2. PICK t \in Tasks : \/ servePendingReq(t)
                           \/ Enqueue(t, [prior EXCEPT ![t] = DBL_MAX])
    BY <1>3, <2>1, HandlingType, Zenon DEF MasterAssign
  <2>3. [prior EXCEPT ![t] = DBL_MAX] \in [Tasks -> Prior]
    BY CalPriorityType, Zenon DEF TypeOK
  <2> QED
    BY <1>3, <2>1, <2>2, <2>3, HandlingType, ServeType, EnqueueType, LoopType, Zenon
    DEF MasterAssign, TypeOK
<1>4. CASE MasterReturnBlocked
  BY <1>4, HandlingType, PriorityUpdatesType, LoopType, Zenon
  DEF MasterReturnBlocked, Handling, TypeOK
<1>5. CASE MasterReturnReady
  <2>1. Handling("RETURN") /\ mpc = "loop" /\ bcast' = bcast
    BY <1>5, Zenon DEF MasterReturnReady, Handling
  <2>2. PICK t \in Tasks : ScheduleReady(t, PriorityUpdates)
    BY <1>5, <2>1, HandlingType, Zenon DEF MasterReturnReady
  <2>3. wakenup' \in [Tasks -> {0, 1}]
    BY <1>5, Zenon DEF MasterReturnReady, wakenupUsed, TypeOK
  <2> QED
    BY <1>5, <2>1, <2>2, <2>3, HandlingType, PriorityUpdatesType, ScheduleType, LoopType, Zenon
    DEF MasterReturnReady, TypeOK
<1>6. CASE MasterReturnZombie
  BY <1>6, HandlingType, PriorityUpdatesType, LoopType, Zenon
  DEF MasterReturnZombie, Handling, TypeOK
<1>7. CASE MasterWakeupEarly
  BY <1>7, HandlingType, LoopType, Zenon DEF MasterWakeupEarly, wakenupSet, Handling, TypeOK
<1>8. CASE MasterWakeup
  <2>1. Handling("WAKEUP") /\ mpc = "loop" /\ bcast' = bcast
    BY <1>8, Zenon DEF MasterWakeup, Handling
  <2>2. PICK t \in Tasks : ScheduleReady(t, {prior})
    BY <1>8, <2>1, HandlingType, Zenon DEF MasterWakeup
  <2>3. {prior} \in SUBSET [Tasks -> Prior]
    BY Zenon DEF TypeOK
  <2> QED
    BY <1>8, <2>1, <2>2, <2>3, HandlingType, ScheduleType, LoopType, Zenon
    DEF MasterWakeup, TypeOK
<1>9. CASE MasterRequestServe
  <2>1. Handling("REQUEST") /\ mpc = "loop" /\ bcast' = bcast
    BY <1>9, Zenon DEF MasterRequestServe, Handling
  <2>2. PICK w \in Workers, t \in Tasks :
          /\ workermbs' = [workermbs EXCEPT ![w] = Append(@, M("ASSIGN", t))]
          /\ ready_tasks' = ready_tasks \ {t}
          /\ state' = [state EXCEPT ![t] = "READY"]
    BY <1>9, <2>1, HandlingType, Zenon DEF MasterRequestServe, LpelTaskqueuePop
  <2>3. workermbs' \in [Workers -> Seq(Msg)]
    BY <2>2, MsgMake, SendMsg, Zenon DEF TypeOK
  <2> QED
    BY <1>9, <2>1, <2>2, <2>3, HandlingType, LoopType, Zenon DEF MasterRequestServe, TypeOK
<1>10. CASE MasterRequestWait
  BY <1>10, HandlingType, LoopType, Zenon DEF MasterRequestWait, Handling, TypeOK
<1>11. CASE MasterTerminate
  BY <1>11, HandlingType, LoopType, Zenon DEF MasterTerminate, Handling, TypeOK
<1>12. CASE LpelWorkerBroadcast
  <2>1. workermbs' \in [Workers -> Seq(Msg)]
    BY <1>12, MsgMake, SendMsg, ZenonT(30) DEF LpelWorkerBroadcast, TypeOK
  <2> QED
    BY <1>12, <2>1, ConstAssumption
    DEF LpelWorkerBroadcast, AllSent, BroadcastProgress, Workers, TypeOK
<1>13. ASSUME NEW w \in Workers, WorkerThread(w) PROVE TypeOK' /\ BroadcastProgress'
  <2>1. CASE requestTask(w)
    BY <2>1, MsgMake, SendMsg, ZenonT(30) DEF requestTask, TypeOK, BroadcastProgress
  <2>2. CASE WorkerAssign(w)
    BY <2>2, MsgBody, RecvMsg, SMTT(30) DEF WorkerAssign, TypeOK, BroadcastProgress
  <2>3. CASE WorkerTerminate(w)
    BY <2>3, RecvMsg, Zenon DEF WorkerTerminate, TypeOK, BroadcastProgress
  <2>4. ASSUME NEW pc, NEW s \in {"BLOCKED", "READY", "ZOMBIE"}, TaskStop(w, pc, s)
        PROVE  TypeOK' /\ BroadcastProgress'
    BY <2>4, Zenon DEF TaskStop, TypeOK, BroadcastProgress
  <2>5. CASE TaskWaits(w)
    BY <2>5, Zenon DEF TaskWaits, TypeOK, BroadcastProgress
  <2>6. CASE returnTask(w)
    <3>1. current_task[w] \in Tasks
      BY <2>6, CurrentTask, Zenon DEF returnTask
    <3> QED
      BY <2>6, <3>1, MsgMake, SendMsg, Zenon DEF returnTask, TypeOK, BroadcastProgress
  <2> QED
    BY <1>13, <2>1, <2>2, <2>3, <2>4, <2>5, <2>6, Zenon
    DEF WorkerThread, LpelTaskBlockStream, LpelTaskYield, LpelTaskExit
<1>14. CASE LpelStop
  BY <1>14, MsgMake, SendMsg, Zenon DEF LpelStop, TypeOK, BroadcastProgress
<1>15. CASE Join
  BY <1>15, Zenon DEF Join, TypeOK, BroadcastProgress
<1>16. CASE cleanupMasterMb
  BY <1>16, RecvMsg, Zenon DEF cleanupMasterMb, TypeOK, BroadcastProgress
<1>17. CASE CleanupDone
  BY <1>17, Zenon DEF CleanupDone, TypeOK, BroadcastProgress
<1>18. CASE UNCHANGED vars
  BY <1>18, Zenon DEF vars, TypeOK, BroadcastProgress
<1> QED
  BY SMTT(30), <1>1, <1>2, <1>3, <1>4, <1>5, <1>6, <1>7, <1>8, <1>9, <1>10, <1>11, <1>12,
     <1>13, <1>14, <1>15, <1>16, <1>17, <1>18
  DEF Next, Master, Main, Finished

-----------------------------------------------------------------------------
(* The ready queue without a negative demand limit *)

(* servePendingReq() succeeds only if a worker is noted in waitworkers. *)
LEMMA WaitingSome ==
  ASSUME TypeOK, NEW t, servePendingReq(t)
  PROVE  \E w \in Workers : waitworkers[w] = 1
  BY Zenon DEF servePendingReq, FirstWaiting, Waiting

(* If servePendingReq() finds nobody, no worker is noted in waitworkers. *)
LEMMA WaitingNone ==
  ASSUME TypeOK, Waiting = {}
  PROVE  \A w \in Workers : waitworkers[w] = 0
  BY Zenon DEF TypeOK, Waiting

(* updatePriorityNeigh() gives no queued task LPEL_DBL_MIN without a limit. *)
LEMMA QueueUpdates ==
  ASSUME TypeOK, QueuePriorities, ~NegDemandLim, NEW p \in PriorityUpdates
  PROVE  \A u \in ready_tasks : p[u] # LPEL_DBL_MIN
<1>1. \A u \in Tasks : p[u] = prior[u] \/ p[u] \in CalPriority
  BY Zenon DEF PriorityUpdates
<1>2. LPEL_DBL_MIN \notin CalPriority
  BY DEF CalPriority, LPEL_DBL_MIN
<1> QED
  BY <1>1, <1>2 DEF TypeOK, QueuePriorities

(* Scheduling a ready task in MasterLoop() leaves no worker waiting beside it. *)
LEMMA QueueSchedule ==
  ASSUME TypeOK, QueuePriorities, ~NegDemandLim, NEW t \in Tasks,
         NEW others \in SUBSET [Tasks -> Prior],
         \A p \in others : \A u \in ready_tasks : p[u] # LPEL_DBL_MIN,
         ScheduleReady(t, others)
  PROVE  QueuePriorities'
<1>1. LPEL_DBL_MIN \notin CalPriority
  BY DEF CalPriority, LPEL_DBL_MIN
<1>2. CASE servePendingReq(t)
  <2>1. ready_tasks' = ready_tasks
    BY <1>2, Zenon DEF servePendingReq
  <2>2. ready_tasks = {}
    BY <1>2, WaitingSome DEF QueuePriorities
  <2> QED
    BY <2>1, <2>2, Zenon DEF QueuePriorities
<1>3. CASE /\ Waiting = {}
           /\ \E p \in others, last \in CalPriority : Enqueue(t, [p EXCEPT ![t] = last])
  <2>1. PICK p \in others, last \in CalPriority : Enqueue(t, [p EXCEPT ![t] = last])
    BY <1>3, Zenon
  <2>2. /\ ready_tasks' = ready_tasks \cup {t}
        /\ prior' = [p EXCEPT ![t] = last]
        /\ waitworkers' = waitworkers
    BY <2>1, Zenon DEF Enqueue
  <2>3. \A u \in ready_tasks' : prior'[u] # LPEL_DBL_MIN
    BY <1>1, <2>2 DEF TypeOK
  <2> QED
    BY <1>3, <2>2, <2>3, WaitingNone, Zenon DEF QueuePriorities
<1> QED
  BY <1>1, <1>2, <1>3, Zenon DEF ScheduleReady

(* No step lets a worker wait beside a queued task, without a limit. *)
LEMMA QueueNext ==
  ASSUME IInv, [Next]_vars
  PROVE  QueuePriorities'
<1> SUFFICES ASSUME ~NegDemandLim PROVE QueuePriorities'
  BY Zenon DEF QueuePriorities
<1> USE DEF masterVars
<1>0. TypeOK /\ QueuePriorities
  BY Zenon DEF IInv
<1>1. ASSUME UNCHANGED <<ready_tasks, prior, waitworkers>> PROVE QueuePriorities'
  BY <1>0, <1>1, Zenon DEF QueuePriorities
<1>2. CASE MasterAssign
  <2>1. PICK t \in Tasks :
          \/ servePendingReq(t)
          \/ Waiting = {} /\ Enqueue(t, [prior EXCEPT ![t] = DBL_MAX])
    BY <1>0, <1>2, HandlingType, Zenon DEF MasterAssign
  <2>2. CASE servePendingReq(t)
    <3>1. ready_tasks' = ready_tasks
      BY <2>2, Zenon DEF servePendingReq
    <3>2. ready_tasks = {}
      BY <1>0, <2>2, WaitingSome DEF QueuePriorities
    <3> QED
      BY <3>1, <3>2, Zenon DEF QueuePriorities
  <2>3. CASE Waiting = {} /\ Enqueue(t, [prior EXCEPT ![t] = DBL_MAX])
    <3>1. /\ ready_tasks' = ready_tasks \cup {t}
          /\ prior' = [prior EXCEPT ![t] = DBL_MAX]
          /\ waitworkers' = waitworkers
      BY <2>3, Zenon DEF Enqueue
    <3>2. DBL_MAX # LPEL_DBL_MIN
      BY ConstAssumption DEF DBL_MAX, LPEL_DBL_MIN
    <3>3. \A u \in ready_tasks' : prior'[u] # LPEL_DBL_MIN
      BY <1>0, <3>1, <3>2, Zenon DEF TypeOK, QueuePriorities
    <3> QED
      BY <1>0, <2>3, <3>1, <3>3, WaitingNone, Zenon DEF QueuePriorities
  <2> QED
    BY <2>1, <2>2, <2>3, Zenon
<1>3. CASE MasterReturnBlocked \/ MasterReturnZombie
  <2>1. prior' \in PriorityUpdates /\ UNCHANGED <<ready_tasks, waitworkers>>
    BY <1>3, Zenon DEF MasterReturnBlocked, MasterReturnZombie
  <2> QED
    BY <1>0, <2>1, QueueUpdates, Zenon DEF QueuePriorities
<1>4. CASE MasterReturnReady
  <2>1. PICK t \in Tasks : ScheduleReady(t, PriorityUpdates)
    BY <1>0, <1>4, HandlingType, Zenon DEF MasterReturnReady
  <2> QED
    BY <1>0, <2>1, QueueUpdates, PriorityUpdatesType, QueueSchedule, Zenon
<1>5. CASE MasterWakeup
  <2>1. PICK t \in Tasks : ScheduleReady(t, {prior})
    BY <1>0, <1>5, HandlingType, Zenon DEF MasterWakeup
  <2>2. {prior} \in SUBSET [Tasks -> Prior]
    BY <1>0, Zenon DEF TypeOK
  <2>3. \A p \in {prior} : \A u \in ready_tasks : p[u] # LPEL_DBL_MIN
    BY <1>0, Zenon DEF QueuePriorities
  <2> QED
    BY <1>0, <2>1, <2>2, <2>3, QueueSchedule, Zenon
<1>6. CASE MasterRequestServe
  <2>1. PICK t \in Tasks : ready_tasks' = ready_tasks \ {t}
    BY <1>6, Zenon DEF MasterRequestServe, LpelTaskqueuePop
  <2>2. UNCHANGED <<prior, waitworkers>>
    BY <1>6, Zenon DEF MasterRequestServe
  <2> QED
    BY <1>0, <2>1, <2>2, Zenon DEF QueuePriorities
<1>7. CASE MasterRequestWait
  <2>1. ready_tasks = {} /\ ready_tasks' = ready_tasks
    BY <1>0, <1>7, Zenon DEF MasterRequestWait, QueuePriorities
  <2> QED
    BY <2>1, Zenon DEF QueuePriorities
<1>8. CASE MasterWakeupEarly \/ MasterTerminate \/ LpelWorkerBroadcast
  BY <1>1, <1>8, Zenon DEF MasterWakeupEarly, MasterTerminate, LpelWorkerBroadcast
<1>9. CASE \E t \in Tasks : LpelTaskStart(t) \/ LpelTaskUnblock(t)
  BY <1>1, <1>9, Zenon DEF LpelTaskStart, LpelTaskUnblock
<1>10. CASE \E w \in Workers : WorkerThread(w)
  BY <1>1, <1>10, Zenon
  DEF WorkerThread, requestTask, WorkerAssign, WorkerTerminate, LpelTaskBlockStream,
      LpelTaskYield, LpelTaskExit, TaskStop, TaskWaits, returnTask
<1>11. CASE Main
  BY <1>1, <1>11, Zenon DEF Main, LpelStop, Join, cleanupMasterMb, CleanupDone
<1>12. CASE UNCHANGED vars
  BY <1>1, <1>12, Zenon DEF vars
<1> QED
  BY <1>2, <1>3, <1>4, <1>5, <1>6, <1>7, <1>8, <1>9, <1>10, <1>11, <1>12, Zenon
  DEF Next, Master, Finished

-----------------------------------------------------------------------------
(* The inductive invariant, and what follows from it *)

(* The inductive invariant holds after LpelWorkersInit(). *)
LEMMA InitInv == Init => IInv
<1> SUFFICES ASSUME Init PROVE IInv
  BY Zenon
<1>1. TypeOK
  BY InitType, Zenon
<1>2. mastermb = <<>> /\ workermbs = [w \in Workers |-> <<>>]
  BY Zenon DEF Init
<1>3. \A m : /\ ~In(mastermb, m)
             /\ \A w \in Workers : ~In(workermbs[w], m)
  BY <1>2 DEF In
<1>4. \A w \in Workers : ~HasAssign(workermbs[w])
  BY <1>2 DEF HasAssign
<1>5. MessagesOnce
  BY <1>2 DEF MessagesOnce, Once, OneAssign
<1>6. TaskPlacement
  BY <1>3, ConstAssumption, Zenon DEF Init, TaskPlacement, TaskWhere, WorkerHolds
<1>7. RequestPlacement
  BY <1>3, <1>4, Zenon DEF Init, RequestPlacement
<1>8. WakeupPlacement
  BY <1>3 DEF Init, WakeupPlacement, WakeupInTransit
<1>9. BroadcastProgress /\ QueuePriorities
  BY Zenon DEF Init, BroadcastProgress, QueuePriorities
<1> QED
  BY <1>1, <1>5, <1>6, <1>7, <1>8, <1>9, Zenon DEF IInv

(* IInv is an invariant: where each task, request and wake-up is, for any   *)
(* number of workers and tasks.                                             *)
THEOREM InductiveInvariant == Spec => []IInv
<1>1. IInv /\ [Next]_vars => IInv'
  BY NextType, NextPlacement, QueueNext, Zenon DEF IInv, Placement
<1> QED
  BY InitInv, <1>1, PTL DEF Spec

(* Every field keeps to its C type or enumeration. *)
THEOREM TypeCorrect == Spec => []TypeOK
<1>1. IInv => TypeOK
  BY Zenon DEF IInv
<1> QED
  BY InductiveInvariant, <1>1, PTL

(* The wake-up of a waiting task is never lost (NoLostWakeup), whichever of *)
(* its wake-up and its return reaches MasterLoop() first.                   *)
THEOREM WakeupNotLost == Spec => []NoLostWakeup
<1>1. IInv => NoLostWakeup
  <2> SUFFICES ASSUME IInv, NEW t \in Tasks
               PROVE  /\ waiter[t] = "signalled" /\ state[t] \in {"RUNNING", "BLOCKED", "RETURNED"}
                           => WakeupInTransit(t) \/ (wakenup[t] = 1 /\ state[t] # "RETURNED")
                      /\ state[t] = "RETURNED" => waiter[t] \in {"waiting", "signalled"}
    BY Zenon DEF NoLostWakeup
  <2>1. waiter[t] \in {"none", "waiting", "signalled"}
    BY Zenon DEF IInv, TypeOK
  <2> QED
    BY <2>1, Zenon DEF IInv, WakeupPlacement
<1> QED
  BY InductiveInvariant, <1>1, PTL

(* No wake-up outlives the wait it was sent for (NoStrayWakeup). *)
THEOREM WakeupNotStray == Spec => []NoStrayWakeup
<1>1. IInv => NoStrayWakeup
  BY Zenon DEF IInv, WakeupPlacement, NoStrayWakeup
<1> QED
  BY InductiveInvariant, <1>1, PTL

(* MasterLoop() keeps no worker waiting while a task is queued, when there  *)
(* is no negative demand limit (WorkConserving).                            *)
THEOREM WorkConservation == Spec => []WorkConserving
<1>1. IInv => WorkConserving
  BY Zenon DEF IInv, QueuePriorities, WorkConserving
<1> QED
  BY InductiveInvariant, <1>1, PTL

(* A task on a stream wait comes back only after LpelTaskUnblock()          *)
(* (NoSpuriousResume): only WorkerAssign ends a wait, and for a task that   *)
(* is READY, which no waiting task is.                                      *)
THEOREM ResumeNotSpurious == Spec => NoSpuriousResume
<1> DEFINE Step == \A t \in Tasks : waiter[t] = "waiting" => waiter'[t] # "none"
<1>1. ASSUME IInv, [Next]_vars PROVE Step
  <2> USE DEF masterVars, workerVars
  <2> SUFFICES ASSUME NEW t \in Tasks, waiter[t] = "waiting"
               PROVE  waiter'[t] # "none"
    BY Zenon
  <2>1. ASSUME NEW u \in Tasks, LpelTaskUnblock(u) PROVE waiter'[t] # "none"
    BY <1>1, <2>1, Zenon DEF LpelTaskUnblock, IInv, TypeOK
  <2>2. ASSUME NEW w \in Workers, WorkerAssign(w) PROVE waiter'[t] # "none"
    <3>1. state[t] # "READY"
      BY <1>1, Zenon DEF IInv, WakeupPlacement
    <3>2. waiter \in [Tasks -> {"none", "waiting", "signalled"}]
      BY <1>1, Zenon DEF IInv, TypeOK
    <3>3. PICK u : state[u] = "READY" /\ waiter' = [waiter EXCEPT ![u] = "none"]
      BY <2>2, Zenon DEF WorkerAssign
    <3> QED
      BY <3>1, <3>2, <3>3, Zenon
  <2>3. ASSUME NEW w \in Workers, TaskWaits(w) PROVE waiter'[t] # "none"
    BY <1>1, <2>3, Zenon DEF TaskWaits, IInv, TypeOK
  <2>4. CASE UNCHANGED waiter
    BY <2>4, Zenon
  <2>5. CASE Master
    BY <2>4, <2>5, ZenonT(60)
    DEF Master, MasterAssign, MasterReturnBlocked, MasterReturnReady, MasterReturnZombie,
        MasterWakeupEarly, MasterWakeup, MasterRequestServe, MasterRequestWait,
        MasterTerminate, LpelWorkerBroadcast
  <2>6. CASE Main \/ UNCHANGED vars
    BY <2>4, <2>6, Zenon DEF Main, LpelStop, Join, cleanupMasterMb, CleanupDone, vars
  <2>7. ASSUME NEW w \in Workers, WorkerThread(w) PROVE waiter'[t] # "none"
    BY <2>2, <2>3, <2>4, <2>7, Zenon
    DEF WorkerThread, requestTask, WorkerTerminate, LpelTaskBlockStream, LpelTaskYield,
        LpelTaskExit, TaskStop, returnTask
  <2>8. ASSUME NEW u \in Tasks, LpelTaskStart(u) PROVE waiter'[t] # "none"
    BY <2>4, <2>8, Zenon DEF LpelTaskStart
  <2> QED
    BY <1>1, <2>1, <2>5, <2>6, <2>7, <2>8, Zenon DEF Next, Finished
<1>2. IInv /\ [Next]_vars => [Step]_vars
  BY <1>1, Zenon
<1> QED
  BY InductiveInvariant, <1>2, PTL DEF Spec, NoSpuriousResume

(* The states asserted by MasterLoop(), sendTask() and WorkerLoop() hold of *)
(* the task of every message (ReceivedStateAsserted).                       *)
THEOREM StatesAsserted == Spec => []ReceivedStateAsserted
<1>1. ASSUME IInv PROVE ReceivedStateAsserted
  <2>1. ASSUME NEW i \in DOMAIN mastermb
        PROVE  /\ mastermb[i].type = "ASSIGN" => state[mastermb[i].body] = "CREATED"
               /\ mastermb[i].type = "RETURN" =>
                    state[mastermb[i].body] \in {"BLOCKED", "READY", "ZOMBIE"}
    <3>1. mastermb[i] \in Msg
      BY <1>1 DEF IInv, TypeOK
    <3>2. In(mastermb, mastermb[i])
      BY Zenon DEF In
    <3>3. mastermb[i].type \in {"ASSIGN", "RETURN"} =>
            mastermb[i].body \in Tasks /\ TaskWhere(mastermb[i].body)
      BY <1>1, <3>1, MsgBody, Zenon DEF IInv, TaskPlacement
    <3> QED
      BY <3>1, <3>2, <3>3, MsgBody, Zenon DEF TaskWhere
  <2>2. ASSUME NEW w \in Workers, NEW i \in DOMAIN workermbs[w],
               workermbs[w][i].type = "ASSIGN"
        PROVE  state[workermbs[w][i].body] = "READY"
    <3>1. workermbs[w][i] \in Msg
      BY <1>1 DEF IInv, TypeOK
    <3>2. In(workermbs[w], workermbs[w][i])
      BY Zenon DEF In
    <3>3. workermbs[w][i].body \in Tasks /\ TaskWhere(workermbs[w][i].body)
      BY <1>1, <2>2, <3>1, MsgBody, Zenon DEF IInv, TaskPlacement
    <3> QED
      BY <2>2, <3>1, <3>2, <3>3, MsgBody, Zenon DEF TaskWhere
  <2> QED
    BY <2>1, <2>2, Zenon DEF ReceivedStateAsserted
<1> QED
  BY InductiveInvariant, <1>1, PTL

(* One task, one place (TaskInOnePlace): no task is run twice, dropped, or  *)
(* used after LpelTaskDestroy().                                            *)
THEOREM OnePlacePerTask == Spec => []TaskInOnePlace
<1>1. ASSUME IInv, NEW t \in Tasks
      PROVE  /\ \A p, q \in Places(t) : p = q
             /\ (Places(t) = {}) <=> (state[t] \in {"none", "RETURNED", "freed"})
  <2> DEFINE AtMaster(p) == \E i \in DOMAIN mastermb :
               /\ p = <<"master", 0, i>>
               /\ mastermb[i] = M("ASSIGN", t) \/ mastermb[i] = M("RETURN", t)
             AtInbox(p) == \E w \in Workers : \E i \in DOMAIN workermbs[w] :
               p = <<"inbox", w, i>> /\ workermbs[w][i] = M("ASSIGN", t)
             AtWorker(p) == \E w \in Workers : p = <<"worker", w, 0>> /\ current_task[w] = t
             AtQueue(p) == p = <<"queue", 0, 0>> /\ t \in ready_tasks
  <2>1. \A p : p \in Places(t) <=> AtMaster(p) \/ AtInbox(p) \/ AtWorker(p) \/ AtQueue(p)
    <3>1. \A p : p \in MasterPlaces(t) <=> AtMaster(p)
      BY Zenon DEF MasterPlaces
    <3>2. \A p : p \in InboxPlaces(t) <=> AtInbox(p)
      <4> DEFINE Box(w) == {<<"inbox", w, i>> : i \in {j \in DOMAIN workermbs[w] :
                              workermbs[w][j] = M("ASSIGN", t)}}
      <4>1. \A w : \A p : p \in Box(w) <=>
              \E i \in DOMAIN workermbs[w] :
                p = <<"inbox", w, i>> /\ workermbs[w][i] = M("ASSIGN", t)
        BY Zenon
      <4>2. \A p : p \in InboxPlaces(t) <=> \E w \in Workers : p \in Box(w)
        BY Zenon DEF InboxPlaces
      <4> QED
        BY <4>1, <4>2
    <3>3. \A p : p \in WorkerPlaces(t) <=> AtWorker(p)
      BY Zenon DEF WorkerPlaces
    <3>4. \A p : p \in QueuePlaces(t) <=> AtQueue(p)
      BY Zenon DEF QueuePlaces
    <3> HIDE DEF AtMaster, AtInbox, AtWorker, AtQueue
    <3> QED
      BY <3>1, <3>2, <3>3, <3>4, Zenon DEF Places
  <2>2. /\ TaskWhere(t)
        /\ Once(mastermb)
        /\ \A w \in Workers : OneAssign(workermbs[w])
    BY <1>1, Zenon DEF IInv, TaskPlacement, MessagesOnce
  <2>3. /\ M("ASSIGN", t).type = "ASSIGN"
        /\ M("RETURN", t).type = "RETURN"
    BY MsgEqual, Zenon
  <2>4. ASSUME NEW w \in Workers, current_task[w] = t
        PROVE  /\ state[t] \in {"RUNNING", "BLOCKED", "READY", "ZOMBIE"}
               /\ \A v \in Workers : current_task[v] = t => v = w
    <3>1. WorkerHolds(w) /\ wpc[w] \in {"task", "block", "request", "return"}
      BY <1>1, <2>4, CurrentTask, Zenon DEF IInv, TaskPlacement
    <3> QED
      BY <2>4, <3>1, ConstAssumption, Zenon DEF WorkerHolds
  <2>5. \A p, q : AtMaster(p) /\ AtMaster(q) => p = q
    <3>1. ~(In(mastermb, M("ASSIGN", t)) /\ In(mastermb, M("RETURN", t)))
      BY <2>2, Zenon DEF TaskWhere
    <3>2. ASSUME NEW i \in DOMAIN mastermb, NEW j \in DOMAIN mastermb,
                 mastermb[i] = M("ASSIGN", t) \/ mastermb[i] = M("RETURN", t),
                 mastermb[j] = M("ASSIGN", t) \/ mastermb[j] = M("RETURN", t)
          PROVE  i = j
      BY <2>2, <2>3, <3>1, <3>2, Zenon DEF Once, In
    <3> QED
      BY <3>2, Zenon
  <2>6. \A p, q : AtInbox(p) /\ AtInbox(q) => p = q
    BY <2>2, <2>3 DEF OneAssign, TaskWhere, In
  <2>7. \A p, q : AtWorker(p) /\ AtWorker(q) => p = q
    BY <2>4, Zenon
  <2>8. \A p : /\ AtMaster(p) => state[t] \in {"CREATED", "BLOCKED", "READY", "ZOMBIE"}
               /\ AtInbox(p) => state[t] = "READY"
               /\ AtWorker(p) => state[t] \in {"RUNNING", "BLOCKED", "READY", "ZOMBIE"}
               /\ AtQueue(p) => state[t] = "INQUEUE"
    BY <2>2, <2>4, Zenon DEF TaskWhere, In
  <2>9. \A p, q : /\ ~(AtMaster(p) /\ AtInbox(q))
                  /\ ~(AtMaster(p) /\ AtWorker(q))
                  /\ ~(AtInbox(p) /\ AtWorker(q))
    BY <2>2, <2>4, Zenon DEF TaskWhere, In
  <2>10. \A p, q \in Places(t) : p = q
    <3> HIDE DEF AtMaster, AtInbox, AtWorker
    <3> QED
      BY <2>1, <2>5, <2>6, <2>7, <2>8, <2>9, SMTT(30)
  <2>11. state[t] \notin {"none", "RETURNED", "freed"} => Places(t) # {}
    <3>1. state[t] \in {"none", "CREATED", "READY", "INQUEUE", "RUNNING",
                        "BLOCKED", "RETURNED", "ZOMBIE", "freed"}
      BY <1>1, Zenon DEF IInv, TypeOK
    <3>2. state[t] \notin {"none", "RETURNED", "freed"} =>
            \E p : AtMaster(p) \/ AtInbox(p) \/ AtWorker(p) \/ AtQueue(p)
      BY <2>2, <3>1, Zenon DEF TaskWhere, In
    <3> QED
      BY <2>1, <3>2, Zenon
  <2>12. Places(t) # {} => state[t] \notin {"none", "RETURNED", "freed"}
    <3> HIDE DEF AtMaster, AtInbox, AtWorker, AtQueue
    <3> QED
      BY <2>1, <2>8, Zenon
  <2> QED
    BY <2>10, <2>11, <2>12, Zenon
<1>2. IInv => TaskInOnePlace
  BY <1>1, Zenon DEF TaskInOnePlace
<1> QED
  BY InductiveInvariant, <1>2, PTL

(* A worker that asked for a task has exactly one request or answer pending *)
(* (OneRequestPerWorker), so that requestTask() before returnTask() never   *)
(* brings it two tasks.                                                     *)
THEOREM RequestPerWorker == Spec => []OneRequestPerWorker
<1>1. ASSUME IInv, NEW w \in Workers
      PROVE  /\ \A p, q \in RequestPlaces(w) : p = q
             /\ mainpc \in {"run", "stopping"} =>
                  (RequestPlaces(w) = {} <=> wpc[w] \in {"init", "task", "block", "request"})
  <2> DEFINE Sent(p) == \E i \in DOMAIN mastermb :
                          p = <<"sent", i>> /\ mastermb[i] = M("REQUEST", w)
             Noted(p) == p = <<"noted", waitworkers[w]>> /\ waitworkers[w] = 1
             Answered(p) == \E i \in DOMAIN workermbs[w] :
                          p = <<"answered", i>> /\ workermbs[w][i].type = "ASSIGN"
  <2>1. \A p : p \in RequestPlaces(w) <=> Sent(p) \/ Noted(p) \/ Answered(p)
    BY Zenon DEF RequestPlaces
  <2>2. Once(mastermb) /\ OneAssign(workermbs[w])
    BY <1>1, Zenon DEF IInv, MessagesOnce
  <2>3. \A p, q : /\ Sent(p) /\ Sent(q) => p = q
                  /\ Noted(p) /\ Noted(q) => p = q
                  /\ Answered(p) /\ Answered(q) => p = q
    BY <2>2, MsgEqual DEF Once, OneAssign
  <2>4. /\ (\E p : Sent(p)) <=> In(mastermb, M("REQUEST", w))
        /\ (\E p : Noted(p)) <=> waitworkers[w] = 1
        /\ (\E p : Answered(p)) <=> HasAssign(workermbs[w])
    BY Zenon DEF In, HasAssign
  <2> HIDE DEF Sent, Noted, Answered
  <2>5. \A p, q \in RequestPlaces(w) : p = q
    BY <1>1, <2>1, <2>3, <2>4, SMTT(30) DEF IInv, RequestPlacement
  <2>6. RequestPlaces(w) = {} <=> /\ ~In(mastermb, M("REQUEST", w))
                                  /\ waitworkers[w] # 1
                                  /\ ~HasAssign(workermbs[w])
    BY <2>1, <2>4, Zenon
  <2>7. /\ wpc[w] \in {"init", "recv", "task", "block", "request", "return", "done"}
        /\ waitworkers[w] \in {0, 1}
    BY <1>1, Zenon DEF IInv, TypeOK
  <2> QED
    BY <1>1, <2>5, <2>6, <2>7, SMTT(30) DEF IInv, RequestPlacement
<1>2. IInv => OneRequestPerWorker
  BY <1>1, Zenon DEF OneRequestPerWorker
<1> QED
  BY InductiveInvariant, <1>2, PTL

-----------------------------------------------------------------------------
(* The inductive invariant of the termination protocol *)

HasType(s, type) == \E i \in DOMAIN s : s[i].type = type

(* No task is assigned and no second stop is sent behind a TERMINATE *)
StopOrder(s) ==
  \A i, j \in DOMAIN s :
    s[i].type = "TERMINATE" /\ i < j => s[j].type \notin {"ASSIGN", "TERMINATE"}

(* The last message, and no other, is the TERMINATE of LpelWorkerBroadcast() *)
EndsInTerminate(s) ==
  s # <<>> /\ \A i \in DOMAIN s : s[i].type = "TERMINATE" <=> i = Len(s)

(* How far the master is with MSG_TERMINATE, and what that leaves in its mailbox *)
MasterStops ==
  /\ StopOrder(mastermb)
  /\ mainpc = "run" => terminate = 0 /\ ~HasType(mastermb, "TERMINATE")
  /\ terminate = 1 => /\ ~HasType(mastermb, "ASSIGN")
                      /\ ~HasType(mastermb, "TERMINATE")
  /\ mpc # "loop" => terminate = 1
  /\ mainpc \in {"cleanup", "done"} => mpc = "done"

(* A worker the broadcast has reached leaves its loop with an empty mailbox, *)
(* the others do not leave it                                                *)
WorkerStops(w) ==
  /\ w < bcast /\ wpc[w] = "done" => workermbs[w] = <<>>
  /\ w < bcast /\ wpc[w] # "done" => EndsInTerminate(workermbs[w])
  /\ ~(w < bcast) => wpc[w] # "done" /\ ~HasType(workermbs[w], "TERMINATE")
  /\ mainpc \in {"cleanup", "done"} => wpc[w] = "done"

(* After LpelStop() no task waits, and one that is ready is on its way to a *)
(* worker: it has not yielded                                               *)
TaskStops(t) ==
  mainpc # "run" /\ ~YieldsAtStop =>
    /\ waiter[t] = "none"
    /\ state[t] = "READY" => \E w \in Workers : In(workermbs[w], M("ASSIGN", t))

TerminationInv ==
  /\ MasterStops
  /\ \A w \in Workers : WorkerStops(w)
  /\ \A t \in Tasks : TaskStops(t)

-----------------------------------------------------------------------------
(* Mailboxes *)

(* LpelMailboxSend() and the position of TERMINATE in a mailbox. *)
LEMMA SendStop ==
  ASSUME NEW s \in Seq(Msg), NEW e \in Msg
  PROVE  /\ \A y : HasType(Append(s, e), y) <=> HasType(s, y) \/ e.type = y
         /\ /\ StopOrder(s)
            /\ e.type \in {"ASSIGN", "TERMINATE"} => ~HasType(s, "TERMINATE")
            => StopOrder(Append(s, e))
         /\ ~HasType(s, "TERMINATE") /\ e.type = "TERMINATE"
              => EndsInTerminate(Append(s, e))
<1> DEFINE r == Append(s, e)
<1>1. /\ r # <<>>
      /\ Len(r) = Len(s) + 1
      /\ DOMAIN s = 1 .. Len(s)
      /\ DOMAIN r = 1 .. Len(s) + 1
      /\ \A i \in 1 .. Len(s) : r[i] = s[i]
      /\ r[Len(s) + 1] = e
      /\ Len(s) \in Nat
  OBVIOUS
<1> HIDE DEF r
<1>2. \A y : HasType(r, y) <=> HasType(s, y) \/ e.type = y
  BY <1>1 DEF HasType
<1>3. /\ StopOrder(s)
      /\ e.type \in {"ASSIGN", "TERMINATE"} => ~HasType(s, "TERMINATE")
      => StopOrder(r)
  BY <1>1 DEF StopOrder, HasType
<1>4. ~HasType(s, "TERMINATE") /\ e.type = "TERMINATE" => EndsInTerminate(r)
  BY <1>1 DEF EndsInTerminate, HasType
<1> QED
  BY <1>2, <1>3, <1>4, Zenon DEF r

(* LpelMailboxRecv() and the position of TERMINATE in a mailbox. *)
LEMMA RecvStop ==
  ASSUME NEW s \in Seq(Msg), s # <<>>
  PROVE  /\ \A y : HasType(Tail(s), y) => HasType(s, y)
         /\ StopOrder(s) => StopOrder(Tail(s))
         /\ StopOrder(s) /\ Head(s).type = "TERMINATE" =>
              ~HasType(Tail(s), "ASSIGN") /\ ~HasType(Tail(s), "TERMINATE")
         /\ EndsInTerminate(s) /\ Head(s).type = "TERMINATE" => Tail(s) = <<>>
         /\ EndsInTerminate(s) /\ Head(s).type # "TERMINATE" => EndsInTerminate(Tail(s))
         /\ HasType(s, Head(s).type)
<1> DEFINE r == Tail(s)
           h == Head(s)
<1>1. /\ h = s[1]
      /\ Len(s) \in Nat
      /\ Len(s) > 0
      /\ Len(r) = Len(s) - 1
      /\ r \in Seq(Msg)
      /\ DOMAIN s = 1 .. Len(s)
      /\ DOMAIN r = 1 .. Len(s) - 1
      /\ \A i \in 1 .. Len(s) - 1 : r[i] = s[i + 1]
  OBVIOUS
<1> HIDE DEF r, h
<1>9. r = <<>> <=> Len(s) = 1
  <2>1. Len(s) = 1 => r = <<>>
    BY <1>1
  <2>2. r = <<>> => Len(r) = 0
    OBVIOUS
  <2> QED
    BY <1>1, <2>1, <2>2
<1>2. \A i \in DOMAIN r : i + 1 \in DOMAIN s /\ s[i + 1] = r[i]
  BY <1>1
<1>3. \A y : HasType(r, y) => HasType(s, y)
  <2> SUFFICES ASSUME NEW y, NEW i \in DOMAIN r, r[i].type = y PROVE HasType(s, y)
    BY Zenon DEF HasType
  <2> QED
    BY <1>2, Zenon DEF HasType
<1>4. StopOrder(s) => StopOrder(r)
  <2> SUFFICES ASSUME StopOrder(s), NEW i \in DOMAIN r, NEW j \in DOMAIN r,
                      r[i].type = "TERMINATE", i < j
               PROVE  r[j].type \notin {"ASSIGN", "TERMINATE"}
    BY Zenon DEF StopOrder
  <2> QED
    BY <1>1, <1>2 DEF StopOrder
<1>5. StopOrder(s) /\ h.type = "TERMINATE" =>
        ~HasType(r, "ASSIGN") /\ ~HasType(r, "TERMINATE")
  <2> SUFFICES ASSUME StopOrder(s), h.type = "TERMINATE", NEW i \in DOMAIN r
               PROVE  r[i].type \notin {"ASSIGN", "TERMINATE"}
    BY Zenon DEF HasType
  <2> QED
    BY <1>1, <1>2 DEF StopOrder
<1>6. EndsInTerminate(s) /\ h.type = "TERMINATE" => r = <<>>
  BY <1>1, <1>9 DEF EndsInTerminate
<1>7. EndsInTerminate(s) /\ h.type # "TERMINATE" => EndsInTerminate(r)
  BY <1>1, <1>2, <1>9 DEF EndsInTerminate
<1>8. HasType(s, h.type)
  BY <1>1 DEF HasType
<1> QED
  BY <1>3, <1>4, <1>5, <1>6, <1>7, <1>8, Zenon DEF r, h

-----------------------------------------------------------------------------
(* What the steps of the threads leave of the invariant *)

(* A handler of MasterLoop() other than that of MSG_TERMINATE. *)
LEMMA MasterHandles ==
  ASSUME IInv, MasterStops, NEW type, Handling(type), type # "TERMINATE",
         NEW queue, LoopOrBroadcast(terminate, queue),
         mastermb' = Tail(mastermb), mainpc' = mainpc, terminate' = terminate
  PROVE  MasterStops'
<1>1. mastermb \in Seq(Msg) /\ mastermb # <<>> /\ mpc = "loop"
  BY Zenon DEF IInv, TypeOK, Handling
<1>2. /\ StopOrder(mastermb')
      /\ \A y : HasType(mastermb', y) => HasType(mastermb, y)
  BY <1>1, RecvStop, Zenon DEF MasterStops
<1>3. mpc' # "loop" => terminate = 1
  BY Zenon DEF LoopOrBroadcast
<1> QED
  BY <1>1, <1>2, <1>3, Zenon DEF MasterStops

(* LpelMailboxSend() to the master of a request, a return or a wake-up. *)
LEMMA MasterIsSent ==
  ASSUME IInv, MasterStops, NEW m \in Msg, m.type \notin {"ASSIGN", "TERMINATE"},
         mastermb' = Append(mastermb, m), UNCHANGED <<mainpc, terminate, mpc>>
  PROVE  MasterStops'
<1>1. mastermb \in Seq(Msg)
  BY Zenon DEF IInv, TypeOK
<1>2. /\ StopOrder(mastermb')
      /\ \A y : HasType(mastermb', y) <=> HasType(mastermb, y) \/ m.type = y
  BY <1>1, SendStop, Zenon DEF MasterStops
<1> QED
  BY <1>2, Zenon DEF MasterStops

(* sendTask(), which the master calls only before its broadcast. *)
LEMMA WorkerIsSent ==
  ASSUME IInv, \A w \in Workers : WorkerStops(w), mpc = "loop",
         NEW u \in Workers, NEW x \in Tasks,
         workermbs' = [workermbs EXCEPT ![u] = Append(@, M("ASSIGN", x))],
         UNCHANGED <<bcast, wpc, mainpc>>
  PROVE  \A w \in Workers : WorkerStops(w)'
<1>1. bcast = 0 /\ workermbs \in [Workers -> Seq(Msg)]
  BY Zenon DEF IInv, BroadcastProgress, TypeOK
<1>2. M("ASSIGN", x) \in Msg /\ M("ASSIGN", x).type = "ASSIGN"
  BY MsgMake, MsgEqual, Zenon
<1> SUFFICES ASSUME NEW w \in Workers PROVE WorkerStops(w)'
  BY Zenon
<1>3. ~(w < bcast) /\ w \in Int
  BY <1>1, ConstAssumption DEF Workers
<1>4. HasType(workermbs'[w], "TERMINATE") => HasType(workermbs[w], "TERMINATE")
  BY <1>1, <1>2, SendStop, Zenon
<1> QED
  BY <1>3, <1>4, Zenon DEF WorkerStops

(* A step that leaves the workers and their mailboxes alone. *)
LEMMA WorkerUntouched ==
  ASSUME \A w \in Workers : WorkerStops(w), UNCHANGED <<workermbs, bcast, wpc, mainpc>>
  PROVE  \A w \in Workers : WorkerStops(w)'
  BY Zenon DEF WorkerStops

(* A step that makes a task ready only by sending it to a worker. *)
LEMMA TaskUntouched ==
  ASSUME IInv, \A t \in Tasks : TaskStops(t), waiter' = waiter, mainpc' = mainpc,
         \A w \in Workers : \A m : In(workermbs[w], m) => In(workermbs'[w], m),
         \A t \in Tasks : state'[t] # state[t] /\ state'[t] = "READY" =>
           \E w \in Workers : In(workermbs'[w], M("ASSIGN", t))
  PROVE  \A t \in Tasks : TaskStops(t)'
  BY Zenon DEF TaskStops

(* sendTask() from MasterLoop(): the task that becomes ready is in the mailbox. *)
LEMMA TaskIsSent ==
  ASSUME IInv, \A t \in Tasks : TaskStops(t), waiter' = waiter, mainpc' = mainpc,
         NEW u \in Workers, NEW x \in Tasks,
         workermbs' = [workermbs EXCEPT ![u] = Append(@, M("ASSIGN", x))],
         state' = [state EXCEPT ![x] = "READY"]
  PROVE  \A t \in Tasks : TaskStops(t)'
<1>1. workermbs \in [Workers -> Seq(Msg)] /\ state \in [Tasks -> {"none", "CREATED", "READY",
        "INQUEUE", "RUNNING", "BLOCKED", "RETURNED", "ZOMBIE", "freed"}]
  BY Zenon DEF IInv, TypeOK
<1>2. M("ASSIGN", x) \in Msg
  BY MsgMake, Zenon
<1>3. \A w \in Workers : \A m : In(workermbs[w], m) => In(workermbs'[w], m)
  BY <1>1, <1>2, SendMsg, Zenon
<1>4. In(workermbs'[u], M("ASSIGN", x))
  BY <1>1, <1>2, SendMsg, Zenon
<1>5. \A t \in Tasks : t # x => state'[t] = state[t]
  BY <1>1, Zenon
<1> QED
  BY <1>3, <1>4, <1>5, TaskUntouched, Zenon

(* Handing out or queueing a task in MasterLoop(). *)
LEMMA ScheduleStops ==
  ASSUME IInv, TerminationInv, mpc = "loop", waiter' = waiter, UNCHANGED <<bcast, wpc, mainpc>>,
         NEW x \in Tasks,
         servePendingReq(x) \/ \E p : Enqueue(x, p)
  PROVE  /\ \A w \in Workers : WorkerStops(w)'
         /\ \A t \in Tasks : TaskStops(t)'
<1>1. CASE servePendingReq(x)
  <2>1. PICK u \in Workers :
          /\ workermbs' = [workermbs EXCEPT ![u] = Append(@, M("ASSIGN", x))]
          /\ state' = [state EXCEPT ![x] = "READY"]
    BY <1>1, Zenon DEF servePendingReq
  <2> QED
    BY <2>1, WorkerIsSent, TaskIsSent, Zenon DEF TerminationInv
<1>2. CASE \E p : Enqueue(x, p)
  <2>1. workermbs' = workermbs /\ state' = [state EXCEPT ![x] = "INQUEUE"]
    BY <1>2, Zenon DEF Enqueue
  <2>2. \A t \in Tasks : state'[t] = state[t] \/ state'[t] = "INQUEUE"
    BY <2>1, Zenon DEF IInv, TypeOK
  <2>3. \A t \in Tasks : TaskStops(t)'
    BY <2>1, <2>2, TaskUntouched, Zenon DEF TerminationInv
  <2> QED
    BY <2>1, <2>3, WorkerUntouched, Zenon DEF TerminationInv
<1> QED
  BY <1>1, <1>2, Zenon

-----------------------------------------------------------------------------
(* The invariant is inductive *)

(* Before any thread runs there is nothing to stop. *)
LEMMA InitStop == Init => TerminationInv
<1> SUFFICES ASSUME Init PROVE TerminationInv
  BY Zenon
<1>1. ~HasType(<<>>, "TERMINATE") /\ ~HasType(<<>>, "ASSIGN") /\ StopOrder(<<>>)
  BY DEF HasType, StopOrder
<1>2. MasterStops
  BY <1>1, Zenon DEF Init, MasterStops
<1>3. \A w \in Workers : WorkerStops(w)
  BY <1>1, ConstAssumption DEF Init, WorkerStops, Workers
<1>4. \A t \in Tasks : TaskStops(t)
  BY Zenon DEF Init, TaskStops
<1> QED
  BY <1>2, <1>3, <1>4, Zenon DEF TerminationInv

(* The steps of MasterLoop() and LpelWorkerBroadcast() keep the invariant. *)
LEMMA MasterStopInv ==
  ASSUME IInv, TerminationInv, Master
  PROVE  TerminationInv'
<1> DEFINE x == Head(mastermb).body
<1> USE DEF workerVars
<1>1. CASE MasterAssign
  <2>1. Handling("ASSIGN") /\ x \in Tasks
    BY <1>1, HandlingType, Zenon DEF MasterAssign, IInv
  <2>2. servePendingReq(x) \/ \E p : Enqueue(x, p)
    BY <1>1, Zenon DEF MasterAssign
  <2>3. MasterStops'
    BY <1>1, <2>1, MasterHandles, Zenon DEF MasterAssign, TerminationInv
  <2> QED
    BY <1>1, <2>1, <2>2, <2>3, ScheduleStops, Zenon DEF MasterAssign, Handling, TerminationInv
<1>2. CASE MasterReturnBlocked \/ MasterReturnZombie
  <2>1. Handling("RETURN") /\ x \in Tasks
    BY <1>2, HandlingType, Zenon DEF MasterReturnBlocked, MasterReturnZombie, IInv
  <2>2. MasterStops'
    BY <1>2, <2>1, MasterHandles, Zenon DEF MasterReturnBlocked, MasterReturnZombie, TerminationInv
  <2>3. \A t \in Tasks : state'[t] = state[t] \/ state'[t] \in {"RETURNED", "freed"}
    BY <1>2, <2>1 DEF MasterReturnBlocked, MasterReturnZombie, IInv, TypeOK
  <2>4. UNCHANGED <<workermbs, waiter, mainpc, bcast, wpc>>
    BY <1>2, Zenon DEF MasterReturnBlocked, MasterReturnZombie
  <2>5. \A t \in Tasks : TaskStops(t)'
    BY <2>3, <2>4, TaskUntouched, Zenon DEF TerminationInv
  <2> QED
    BY <2>2, <2>4, <2>5, WorkerUntouched, Zenon DEF TerminationInv
<1>3. CASE MasterReturnReady
  <2>1. Handling("RETURN") /\ x \in Tasks
    BY <1>3, HandlingType, Zenon DEF MasterReturnReady, IInv
  <2>2. ScheduleReady(x, PriorityUpdates)
    BY <1>3, Zenon DEF MasterReturnReady
  <2>3. servePendingReq(x) \/ \E p : Enqueue(x, p)
    BY <2>1, <2>2, ScheduleCases, PriorityUpdatesType, Zenon DEF IInv
  <2>4. MasterStops'
    BY <1>3, <2>1, MasterHandles, Zenon DEF MasterReturnReady, TerminationInv
  <2> QED
    BY <1>3, <2>1, <2>3, <2>4, ScheduleStops, Zenon DEF MasterReturnReady, Handling, TerminationInv
<1>4. CASE MasterWakeup
  <2>1. Handling("WAKEUP") /\ x \in Tasks
    BY <1>4, HandlingType, Zenon DEF MasterWakeup, IInv
  <2>2. ScheduleReady(x, {prior}) /\ {prior} \in SUBSET [Tasks -> Prior]
    BY <1>4, Zenon DEF MasterWakeup, IInv, TypeOK
  <2>3. servePendingReq(x) \/ \E p : Enqueue(x, p)
    BY <2>1, <2>2, ScheduleCases, Zenon DEF IInv
  <2>4. MasterStops'
    BY <1>4, <2>1, MasterHandles, Zenon DEF MasterWakeup, TerminationInv
  <2> QED
    BY <1>4, <2>1, <2>3, <2>4, ScheduleStops, Zenon DEF MasterWakeup, Handling, TerminationInv
<1>5. CASE MasterWakeupEarly
  <2>1. MasterStops'
    BY <1>5, MasterHandles, Zenon DEF MasterWakeupEarly, TerminationInv
  <2>2. UNCHANGED <<workermbs, state, waiter, mainpc, bcast, wpc>>
    BY <1>5, Zenon DEF MasterWakeupEarly
  <2>3. \A t \in Tasks : TaskStops(t)'
    BY <2>2, TaskUntouched, Zenon DEF TerminationInv
  <2> QED
    BY <2>1, <2>2, <2>3, WorkerUntouched, Zenon DEF TerminationInv
<1>6. CASE MasterRequestServe
  <2>1. Handling("REQUEST") /\ x \in Workers
    BY <1>6, HandlingType, Zenon DEF MasterRequestServe, IInv
  <2>2. PICK t \in Tasks :
          /\ workermbs' = [workermbs EXCEPT ![x] = Append(@, M("ASSIGN", t))]
          /\ state' = [state EXCEPT ![t] = "READY"]
    BY <1>6, Zenon DEF MasterRequestServe
  <2>3. MasterStops'
    BY <1>6, <2>1, MasterHandles, Zenon DEF MasterRequestServe, TerminationInv
  <2>4. mpc = "loop" /\ UNCHANGED <<waiter, bcast, wpc, mainpc>>
    BY <1>6, <2>1, Zenon DEF MasterRequestServe, Handling
  <2> QED
    BY <2>1, <2>2, <2>3, <2>4, WorkerIsSent, TaskIsSent, Zenon DEF TerminationInv
<1>7. CASE MasterRequestWait
  <2>1. MasterStops'
    BY <1>7, MasterHandles, Zenon DEF MasterRequestWait, TerminationInv
  <2>2. UNCHANGED <<workermbs, state, waiter, mainpc, bcast, wpc>>
    BY <1>7, Zenon DEF MasterRequestWait
  <2>3. \A t \in Tasks : TaskStops(t)'
    BY <2>2, TaskUntouched, Zenon DEF TerminationInv
  <2> QED
    BY <2>1, <2>2, <2>3, WorkerUntouched, Zenon DEF TerminationInv
<1>8. CASE MasterTerminate
  <2>1. /\ mastermb \in Seq(Msg) /\ mastermb # <<>>
        /\ Head(mastermb).type = "TERMINATE" /\ mpc = "loop"
    BY <1>8, Zenon DEF MasterTerminate, Handling, IInv, TypeOK
  <2>2. /\ StopOrder(mastermb') /\ ~HasType(mastermb', "ASSIGN")
        /\ ~HasType(mastermb', "TERMINATE") /\ HasType(mastermb, "TERMINATE")
    BY <1>8, <2>1, RecvStop, Zenon DEF MasterTerminate, TerminationInv, MasterStops
  <2>3. MasterStops'
    BY <1>8, <2>1, <2>2, Zenon DEF MasterTerminate, TerminationInv, MasterStops
  <2>4. UNCHANGED <<workermbs, state, waiter, mainpc, bcast, wpc>>
    BY <1>8, Zenon DEF MasterTerminate
  <2>5. \A t \in Tasks : TaskStops(t)'
    BY <2>4, TaskUntouched, Zenon DEF TerminationInv
  <2> QED
    BY <2>3, <2>4, <2>5, WorkerUntouched, Zenon DEF TerminationInv
<1>9. CASE LpelWorkerBroadcast
  <2>1. /\ mpc = "broadcast" /\ bcast \in Workers
        /\ workermbs \in [Workers -> Seq(Msg)]
        /\ M("TERMINATE", NULL) \in Msg /\ M("TERMINATE", NULL).type = "TERMINATE"
    BY <1>9, MsgMake, MsgEqual, Zenon DEF LpelWorkerBroadcast, IInv, BroadcastProgress, TypeOK
  <2>2. /\ workermbs' = [workermbs EXCEPT ![bcast] = Append(@, M("TERMINATE", NULL))]
        /\ bcast' = bcast + 1 /\ mpc' \in {"broadcast", "done"}
        /\ UNCHANGED <<state, waiter, mastermb, mainpc, terminate, wpc>>
    BY <1>9, Zenon DEF LpelWorkerBroadcast
  <2>3. MasterStops'
    BY <2>1, <2>2, Zenon DEF TerminationInv, MasterStops
  <2>4. ASSUME NEW w \in Workers PROVE WorkerStops(w)'
    <3>1. w \in Int /\ bcast \in Int
      BY <2>1, ConstAssumption DEF Workers
    <3>2. CASE w = bcast
      <4>1. wpc[w] # "done" /\ ~HasType(workermbs[w], "TERMINATE")
        BY <3>1, <3>2 DEF TerminationInv, WorkerStops
      <4>2. EndsInTerminate(workermbs'[w])
        BY <2>1, <2>2, <3>2, <4>1, SendStop, Zenon
      <4>3. mainpc \notin {"cleanup", "done"}
        BY <2>1, Zenon DEF TerminationInv, MasterStops
      <4> QED
        BY <2>2, <3>1, <3>2, <4>1, <4>2, <4>3 DEF WorkerStops
    <3>3. CASE w # bcast
      <4>1. workermbs'[w] = workermbs[w] /\ (w < bcast' <=> w < bcast)
        BY <2>1, <2>2, <3>1, <3>3
      <4> QED
        BY <2>2, <4>1, Zenon DEF TerminationInv, WorkerStops
    <3> QED
      BY <3>2, <3>3, Zenon
  <2>5. \A w \in Workers : \A m : In(workermbs[w], m) => In(workermbs'[w], m)
    BY <2>1, <2>2, SendMsg, Zenon
  <2>6. \A t \in Tasks : TaskStops(t)'
    BY <2>2, <2>5, TaskUntouched, Zenon DEF TerminationInv
  <2> QED
    BY <2>3, <2>4, <2>6, Zenon DEF TerminationInv
<1> QED
  BY <1>1, <1>2, <1>3, <1>4, <1>5, <1>6, <1>7, <1>8, <1>9, Zenon DEF Master

(* The steps of WorkerLoop() and of the tasks a worker runs keep it. *)
LEMMA WorkerStopInv ==
  ASSUME IInv, TerminationInv, NEW u \in Workers, WorkerThread(u)
  PROVE  TerminationInv'
<1> USE DEF masterVars
<1>1. /\ workermbs \in [Workers -> Seq(Msg)]
      /\ wpc \in [Workers -> {"init", "recv", "task", "block", "request", "return", "done"}]
      /\ mastermb \in Seq(Msg)
  BY Zenon DEF IInv, TypeOK
(* the loop goes on: all that changes of the threads is wpc[u] *)
<1>2. ASSUME NEW pc, pc # "done", wpc[u] # "done", wpc' = [wpc EXCEPT ![u] = pc],
             UNCHANGED <<workermbs, bcast, mainpc>>
      PROVE  \A w \in Workers : WorkerStops(w)'
  BY <1>1, <1>2, Zenon DEF TerminationInv, WorkerStops
<1>3. CASE requestTask(u)
  <2>1. M("REQUEST", u) \in Msg /\ M("REQUEST", u).type = "REQUEST"
    BY MsgMake, MsgEqual, Zenon
  <2>2. MasterStops'
    BY <1>3, <2>1, MasterIsSent, Zenon DEF requestTask, TerminationInv
  <2>3. \A w \in Workers : WorkerStops(w)'
    BY <1>2, <1>3, Zenon DEF requestTask
  <2>4. \A t \in Tasks : TaskStops(t)'
    BY <1>3, TaskUntouched, Zenon DEF requestTask, TerminationInv
  <2> QED
    BY <2>2, <2>3, <2>4, Zenon DEF TerminationInv
<1>4. CASE WorkerAssign(u)
  <2> DEFINE x == Head(workermbs[u]).body
  <2>1. /\ wpc[u] = "recv" /\ workermbs[u] # <<>> /\ Head(workermbs[u]).type = "ASSIGN"
        /\ workermbs' = [workermbs EXCEPT ![u] = Tail(@)]
        /\ wpc' = [wpc EXCEPT ![u] = "task"]
        /\ state' = [state EXCEPT ![x] = "RUNNING"]
        /\ waiter' = [waiter EXCEPT ![x] = "none"]
        /\ UNCHANGED <<mastermb, mainpc, terminate, mpc, bcast>>
    BY <1>4, Zenon DEF WorkerAssign
  <2>2. /\ Head(workermbs[u]) = M("ASSIGN", x) /\ x \in Tasks
        /\ workermbs'[u] = Tail(workermbs[u])
        /\ \A w \in Workers : w # u => workermbs'[w] = workermbs[w] /\ wpc'[w] = wpc[w]
        /\ wpc'[u] = "task"
    BY <1>1, <2>1, RecvMsg, MsgBody, Zenon
  <2>3. MasterStops'
    BY <2>1, Zenon DEF TerminationInv, MasterStops
  <2>4. /\ EndsInTerminate(workermbs[u]) => EndsInTerminate(workermbs'[u])
        /\ HasType(workermbs'[u], "TERMINATE") => HasType(workermbs[u], "TERMINATE")
    BY <1>1, <2>1, <2>2, RecvStop, Zenon
  <2>5. \A w \in Workers : WorkerStops(w)'
    BY <2>1, <2>2, <2>4, Zenon DEF TerminationInv, WorkerStops
  <2>6. \A t \in Tasks \ {x} : \A w \in Workers :
          In(workermbs[w], M("ASSIGN", t)) => In(workermbs'[w], M("ASSIGN", t))
    BY <1>1, <2>1, <2>2, RecvMsg, MsgEqual
  <2>7. /\ state'[x] = "RUNNING" /\ waiter'[x] = "none"
        /\ \A t \in Tasks \ {x} : state'[t] = state[t] /\ waiter'[t] = waiter[t]
    BY <2>1, <2>2, ZenonT(30) DEF IInv, TypeOK
  <2>8. \A t \in Tasks : TaskStops(t)'
    BY <2>1, <2>6, <2>7 DEF TerminationInv, TaskStops
  <2> QED
    BY <2>3, <2>5, <2>8, Zenon DEF TerminationInv
<1>5. CASE WorkerTerminate(u)
  <2>1. /\ wpc[u] = "recv" /\ workermbs[u] # <<>> /\ Head(workermbs[u]).type = "TERMINATE"
        /\ workermbs' = [workermbs EXCEPT ![u] = Tail(@)]
        /\ wpc' = [wpc EXCEPT ![u] = "done"]
        /\ UNCHANGED <<state, waiter, mastermb, mainpc, terminate, mpc, bcast>>
    BY <1>5, Zenon DEF WorkerTerminate
  <2>2. /\ workermbs'[u] = Tail(workermbs[u]) /\ wpc'[u] = "done"
        /\ \A w \in Workers : w # u => workermbs'[w] = workermbs[w] /\ wpc'[w] = wpc[w]
    BY <1>1, <2>1, Zenon
  <2>3. MasterStops'
    BY <2>1, Zenon DEF TerminationInv, MasterStops
  <2>4. u < bcast /\ EndsInTerminate(workermbs[u])
    BY <1>1, <2>1, RecvStop, Zenon DEF TerminationInv, WorkerStops
  <2>5. workermbs'[u] = <<>>
    BY <1>1, <2>1, <2>2, <2>4, RecvStop, Zenon
  <2>6. \A w \in Workers : WorkerStops(w)'
    BY <2>1, <2>2, <2>4, <2>5 DEF TerminationInv, WorkerStops
  <2>7. \A t \in Tasks : \A w \in Workers :
          In(workermbs[w], M("ASSIGN", t)) => In(workermbs'[w], M("ASSIGN", t))
    BY <2>1, <2>2, WorkerTakes, Zenon
  <2>8. \A t \in Tasks : TaskStops(t)'
    BY <2>1, <2>7, Zenon DEF TerminationInv, TaskStops
  <2> QED
    BY <2>3, <2>6, <2>8, Zenon DEF TerminationInv
<1>6. ASSUME NEW pc \in {"task", "block"}, NEW s \in {"BLOCKED", "READY", "ZOMBIE"},
             TaskStop(u, pc, s), s = "READY" => mainpc = "run" \/ YieldsAtStop
      PROVE  TerminationInv'
  <2>1. MasterStops'
    BY <1>6, Zenon DEF TaskStop, TerminationInv, MasterStops
  <2>2. \A w \in Workers : WorkerStops(w)'
    BY <1>2, <1>6, Zenon DEF TaskStop
  <2>3. \A t \in Tasks : state'[t] = state[t] \/ state'[t] = s
    BY <1>6, Zenon DEF TaskStop, IInv, TypeOK
  <2>4. \A t \in Tasks : TaskStops(t)'
    BY <1>6, <2>3, Zenon DEF TaskStop, TerminationInv, TaskStops
  <2> QED
    BY <2>1, <2>2, <2>4, Zenon DEF TerminationInv
<1>7. CASE TaskWaits(u)
  <2>1. MasterStops'
    BY <1>7, Zenon DEF TaskWaits, TerminationInv, MasterStops
  <2>2. \A w \in Workers : WorkerStops(w)'
    BY <1>2, <1>7, Zenon DEF TaskWaits
  <2>3. \A t \in Tasks : TaskStops(t)'
    BY <1>7, Zenon DEF TaskWaits, TaskStops
  <2> QED
    BY <2>1, <2>2, <2>3, Zenon DEF TerminationInv
<1>8. CASE returnTask(u)
  <2>1. M("RETURN", current_task[u]) \in Msg /\ M("RETURN", current_task[u]).type = "RETURN"
    BY <1>8, CurrentTask, MsgMake, MsgEqual, Zenon DEF returnTask
  <2>2. MasterStops'
    BY <1>8, <2>1, MasterIsSent, Zenon DEF returnTask, TerminationInv
  <2>3. \A w \in Workers : WorkerStops(w)'
    BY <1>2, <1>8, Zenon DEF returnTask
  <2>4. \A t \in Tasks : TaskStops(t)'
    BY <1>8, TaskUntouched, Zenon DEF returnTask, TerminationInv
  <2> QED
    BY <2>2, <2>3, <2>4, Zenon DEF TerminationInv
<1> QED
  BY <1>3, <1>4, <1>5, <1>6, <1>7, <1>8, Zenon
  DEF WorkerThread, LpelTaskBlockStream, LpelTaskYield, LpelTaskExit

(* The main thread and the other ends of streams keep it. *)
LEMMA OtherStopInv ==
  ASSUME IInv, TerminationInv,
         Main \/ \E t \in Tasks : LpelTaskStart(t) \/ LpelTaskUnblock(t)
  PROVE  TerminationInv'
<1> USE DEF masterVars, workerVars
<1>1. mastermb \in Seq(Msg) /\ mainpc \in {"run", "stopping", "cleanup", "done"}
  BY Zenon DEF IInv, TypeOK
<1>2. ASSUME NEW x \in Tasks, LpelTaskStart(x) PROVE TerminationInv'
  <2>1. M("ASSIGN", x) \in Msg /\ M("ASSIGN", x).type = "ASSIGN"
    BY MsgMake, MsgEqual, Zenon
  <2>2. mainpc = "run" /\ terminate = 0 /\ ~HasType(mastermb, "TERMINATE")
    BY <1>2, Zenon DEF LpelTaskStart, TerminationInv, MasterStops
  <2>3. /\ StopOrder(mastermb')
        /\ \A y : HasType(mastermb', y) <=> HasType(mastermb, y) \/ y = "ASSIGN"
    BY <1>1, <1>2, <2>1, <2>2, SendStop, Zenon DEF LpelTaskStart, TerminationInv, MasterStops
  <2>4. MasterStops'
    BY <1>2, <2>2, <2>3 DEF LpelTaskStart, TerminationInv, MasterStops
  <2>5. \A t \in Tasks : TaskStops(t)'
    BY <1>2, <2>2, Zenon DEF LpelTaskStart, TaskStops
  <2> QED
    BY <1>2, <2>4, <2>5, WorkerUntouched, Zenon DEF LpelTaskStart, TerminationInv
<1>3. ASSUME NEW x \in Tasks, LpelTaskUnblock(x) PROVE TerminationInv'
  <2>1. M("WAKEUP", x) \in Msg /\ M("WAKEUP", x).type = "WAKEUP"
    BY MsgMake, MsgEqual, Zenon
  <2>2. MasterStops'
    BY <1>3, <2>1, MasterIsSent, Zenon DEF LpelTaskUnblock, TerminationInv
  <2>3. \A t \in Tasks : TaskStops(t)'
    BY <1>3, Zenon DEF LpelTaskUnblock, TerminationInv, TaskStops
  <2> QED
    BY <1>3, <2>2, <2>3, WorkerUntouched, Zenon DEF LpelTaskUnblock, TerminationInv
<1>4. CASE LpelStop
  <2>1. M("TERMINATE", NULL) \in Msg /\ M("TERMINATE", NULL).type = "TERMINATE"
    BY MsgMake, MsgEqual, Zenon
  <2>2. mainpc = "run" /\ terminate = 0 /\ ~HasType(mastermb, "TERMINATE")
    BY <1>4, Zenon DEF LpelStop, TerminationInv, MasterStops
  <2>3. StopOrder(mastermb')
    BY <1>1, <1>4, <2>1, <2>2, SendStop, Zenon DEF LpelStop, TerminationInv, MasterStops
  <2>4. MasterStops'
    BY <1>4, <2>2, <2>3 DEF LpelStop, TerminationInv, MasterStops
  <2>5. \A w \in Workers : WorkerStops(w)'
    BY <1>4, Zenon DEF LpelStop, TerminationInv, WorkerStops
  <2>6. \A t \in Tasks : TaskStops(t)'
    BY <1>4, Zenon DEF LpelStop, Yielding, In, TaskStops
  <2> QED
    BY <2>4, <2>5, <2>6, Zenon DEF TerminationInv
<1>5. CASE Join
  BY <1>5, Zenon DEF Join, TerminationInv, MasterStops, WorkerStops, TaskStops
<1>6. CASE cleanupMasterMb
  <2>1. /\ StopOrder(mastermb')
        /\ \A y : HasType(mastermb', y) => HasType(mastermb, y)
    BY <1>1, <1>6, RecvStop, Zenon DEF cleanupMasterMb, TerminationInv, MasterStops
  <2>2. MasterStops'
    BY <1>6, <2>1, Zenon DEF cleanupMasterMb, TerminationInv, MasterStops
  <2>3. \A t \in Tasks : state'[t] = state[t] \/ state'[t] = "freed"
    BY <1>6, Zenon DEF cleanupMasterMb, IInv, TypeOK
  <2>4. UNCHANGED <<workermbs, waiter, mainpc, bcast, wpc>>
    BY <1>6, Zenon DEF cleanupMasterMb
  <2>5. \A t \in Tasks : TaskStops(t)'
    BY <2>3, <2>4, TaskUntouched, Zenon DEF TerminationInv
  <2> QED
    BY <2>2, <2>4, <2>5, WorkerUntouched, Zenon DEF TerminationInv
<1>7. CASE CleanupDone
  BY <1>7, Zenon DEF CleanupDone, TerminationInv, MasterStops, WorkerStops, TaskStops
<1> QED
  BY <1>2, <1>3, <1>4, <1>5, <1>6, <1>7, Zenon DEF Main

(* In every reachable state the stop of LpelStop() has reached the master   *)
(* and the workers in the order of the mailboxes (TerminationInv).         *)
THEOREM TerminationInvariant == Spec => []TerminationInv
<1>1. IInv /\ TerminationInv /\ [Next]_vars => TerminationInv'
  <2> SUFFICES ASSUME IInv, TerminationInv, [Next]_vars PROVE TerminationInv'
    BY Zenon
  <2>1. CASE UNCHANGED vars
    BY <2>1, Zenon DEF vars, TerminationInv, MasterStops, WorkerStops, TaskStops
  <2> QED
    BY <2>1, MasterStopInv, WorkerStopInv, OtherStopInv, Zenon DEF Next, Finished
<1> QED
  BY InitStop, InductiveInvariant, <1>1, PTL DEF Spec

(* When no task yields around LpelStop(), LpelCleanup() finds only requests *)
(* and returns of exited tasks in the master's mailbox and nothing in the   *)
(* workers' (CleanupLeftovers): cleanupMasterMb() and LpelMailboxDestroy()  *)
(* cannot run into their assertions.                                        *)
THEOREM CleanupSafe ==
  ASSUME ~YieldsAtStop
  PROVE  Spec => []CleanupLeftovers
<1>1. ASSUME IInv, TerminationInv, mainpc = "cleanup", NEW i \in DOMAIN mastermb,
             mastermb[i].type # "REQUEST"
      PROVE  mastermb[i].type = "RETURN" /\ state[mastermb[i].body] = "ZOMBIE"
  <2> DEFINE m == mastermb[i]
  <2>1. m \in Msg /\ In(mastermb, m) /\ HasType(mastermb, m.type)
    BY <1>1 DEF IInv, TypeOK, In, HasType
  <2>2. m.type \notin {"ASSIGN", "TERMINATE"}
    BY <1>1, <2>1, Zenon DEF TerminationInv, MasterStops
  <2>3. m.type \in {"RETURN", "WAKEUP"} /\ m.body \in Tasks /\ m = M(m.type, m.body)
    BY <1>1, <2>1, <2>2, MsgBody, Zenon DEF Msg, TaskMsg, RequestMsg, TerminateMsg
  <2>4. /\ waiter[m.body] = "none"
        /\ state[m.body] = "READY" => \E w \in Workers : In(workermbs[w], M("ASSIGN", m.body))
    BY <1>1, <2>3, Zenon DEF TerminationInv, TaskStops
  <2>5. m.type # "WAKEUP"
    BY <1>1, <2>1, <2>3, <2>4, ZenonT(30) DEF IInv, WakeupPlacement, WakeupInTransit
  <2>6. TaskWhere(m.body) /\ (state[m.body] = "BLOCKED" => waiter[m.body] # "none")
    BY <1>1, <2>3, Zenon DEF IInv, TaskPlacement, WakeupPlacement
  <2> QED
    BY <2>1, <2>3, <2>4, <2>5, <2>6, Zenon DEF TaskWhere
<1>2. ASSUME TerminationInv, mainpc = "cleanup", NEW w \in Workers
      PROVE  workermbs[w] = <<>>
  BY <1>2, Zenon DEF TerminationInv, WorkerStops
<1>3. IInv /\ TerminationInv => CleanupLeftovers
  BY <1>1, <1>2, Zenon DEF CleanupLeftovers
<1> QED
  BY InductiveInvariant, TerminationInvariant, <1>3, PTL

=============================================================================
