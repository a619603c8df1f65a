--------------------------- MODULE HrcSchedSteps ---------------------------
(***************************************************************************)
(* Every step of HrcSched preserves the placement of tasks, requests and   *)
(* wake-ups: the actions that make a task ready or assign it, those of the *)
(* workers, and all of them together.                                      *)
(***************************************************************************)
EXTENDS HrcSchedPlaces

(* time limits of the two provers *)
USE SMTT(30), ZenonT(30)

-----------------------------------------------------------------------------
(* Master: steps that schedule a task *)

(* Enqueueing or sending a task the master has just got hold of: no one else *)
(* has it, and its wake-up, if there was one, is used up.                    *)
ReadyStep(t) ==
  /\ mastermb # <<>> /\ mastermb' = Tail(mastermb) /\ Head(mastermb).body = t
  /\ \/ Head(mastermb).type = "ASSIGN" /\ state[t] = "CREATED"
     \/ Head(mastermb).type = "RETURN" /\ state[t] = "READY"
     \/ Head(mastermb).type = "RETURN" /\ state[t] = "BLOCKED" /\ wakenup[t] = 1
     \/ Head(mastermb).type = "WAKEUP" /\ state[t] = "RETURNED"
  /\ wakenup' = [wakenup EXCEPT ![t] = 0]
  /\ UNCHANGED <<waiter, mainpc, wpc, current_task>>

(* What holds when MasterLoop() makes a returned or parked task ready. *)
LEMMA ReadyStepFacts ==
  ASSUME IInv, NEW t \in Tasks, ReadyStep(t)
  PROVE  /\ Once(mastermb')
         /\ \A x : /\ In(mastermb', M("ASSIGN", x)) <=> In(mastermb, M("ASSIGN", x)) /\ x # t
                   /\ In(mastermb', M("RETURN", x)) <=> In(mastermb, M("RETURN", x)) /\ x # t
                   /\ In(mastermb', M("WAKEUP", x)) <=> In(mastermb, M("WAKEUP", x)) /\ x # t
                   /\ In(mastermb', M("REQUEST", x)) <=> In(mastermb, M("REQUEST", x))
         /\ state[t] # "INQUEUE" /\ t \notin ready_tasks
         /\ \A w \in Workers : current_task[w] # t /\ ~In(workermbs[w], M("ASSIGN", t))
         /\ state[t] \in {"BLOCKED", "RETURNED"} => waiter[t] = "signalled"
<1> DEFINE type == Head(mastermb).type
<1>1. /\ In(mastermb, M(type, t))
      /\ \A y, x : In(mastermb', M(y, x)) <=>
                     In(mastermb, M(y, x)) /\ (y # type \/ x # t)
      /\ Once(mastermb')
  BY MasterTakes, Zenon DEF ReadyStep
<1>2. /\ \/ type = "ASSIGN" /\ state[t] = "CREATED"
         \/ type = "RETURN" /\ state[t] = "READY"
         \/ type = "RETURN" /\ state[t] = "BLOCKED" /\ wakenup[t] = 1
         \/ type = "WAKEUP" /\ state[t] = "RETURNED"
  BY Zenon DEF ReadyStep
<1> HIDE DEF type
<1>0. TaskWhere(t)
  BY Zenon DEF IInv, TaskPlacement
<1>3. /\ state[t] # "INQUEUE" /\ t \notin ready_tasks
      /\ In(mastermb, M("ASSIGN", t)) => type = "ASSIGN"
      /\ In(mastermb, M("RETURN", t)) => type = "RETURN"
  BY <1>0, <1>1, <1>2, Zenon DEF TaskWhere
<1>4. In(mastermb, M("WAKEUP", t)) => type = "WAKEUP"
  BY <1>1, <1>2, Zenon DEF IInv, WakeupPlacement, WakeupInTransit
<1>5. ASSUME NEW w \in Workers
      PROVE  current_task[w] # t /\ ~In(workermbs[w], M("ASSIGN", t))
  <2>1. ~In(workermbs[w], M("ASSIGN", t))
    BY <1>0, <1>1, <1>2, Zenon DEF TaskWhere
  <2>2. ASSUME current_task[w] = t PROVE FALSE
    <3>1. wpc[w] \in {"task", "block", "request", "return"}
      BY <2>2, CurrentTask, Zenon
    <3>2. WorkerHolds(w)
      BY Zenon DEF IInv, TaskPlacement
    <3> QED
      BY <3>1, <3>2, <2>2, <1>0, <1>1, <1>2, Zenon DEF TaskWhere, WorkerHolds
  <2> QED
    BY <2>1, <2>2, Zenon
<1>6. state[t] \in {"BLOCKED", "RETURNED"} => waiter[t] = "signalled"
  BY <1>1, <1>2, Zenon DEF IInv, WakeupPlacement, WakeupInTransit
<1> QED
  BY <1>1, <1>2, <1>3, <1>4, <1>5, <1>6, Zenon

(* A task made ready and queued is in the queue only. *)
LEMMA EnqueueInv ==
  ASSUME IInv, NEW t \in Tasks, ReadyStep(t), NEW p, Enqueue(t, p)
  PROVE  Placement'
<1>1. /\ ready_tasks' = ready_tasks \cup {t}
      /\ state' = [state EXCEPT ![t] = "INQUEUE"]
      /\ wakenup' = [wakenup EXCEPT ![t] = 0]
      /\ UNCHANGED <<waitworkers, workermbs, waiter, mainpc, wpc, current_task>>
  BY Zenon DEF Enqueue, ReadyStep
<1>2. /\ Once(mastermb')
      /\ \A x : /\ In(mastermb', M("ASSIGN", x)) <=> In(mastermb, M("ASSIGN", x)) /\ x # t
                /\ In(mastermb', M("RETURN", x)) <=> In(mastermb, M("RETURN", x)) /\ x # t
                /\ In(mastermb', M("WAKEUP", x)) <=> In(mastermb, M("WAKEUP", x)) /\ x # t
                /\ In(mastermb', M("REQUEST", x)) <=> In(mastermb, M("REQUEST", x))
      /\ \A w \in Workers : current_task[w] # t /\ ~In(workermbs[w], M("ASSIGN", t))
      /\ state[t] \in {"BLOCKED", "RETURNED"} => waiter[t] = "signalled"
  BY ReadyStepFacts, Zenon
<1>3. MessagesOnce'
  BY <1>1, <1>2, ZenonT(30) DEF IInv, MessagesOnce
<1>4. TaskPlacement'
  BY <1>1, <1>2, SMTT(30) DEF IInv, TypeOK, TaskPlacement, TaskWhere, WorkerHolds
<1>5. RequestPlacement'
  BY <1>1, <1>2, ZenonT(30) DEF IInv, TypeOK, RequestPlacement
<1>6. WakeupPlacement'
  BY <1>1, <1>2
     DEF IInv, TypeOK, TaskPlacement, TaskWhere, WorkerHolds, WakeupPlacement,
         WakeupInTransit
<1> QED
  BY <1>3, <1>4, <1>5, <1>6, Zenon DEF Placement

(* A task made ready and sent to a waiting worker is in its mailbox only. *)
LEMMA ServeInv ==
  ASSUME IInv, NEW t \in Tasks, ReadyStep(t), servePendingReq(t)
  PROVE  Placement'
<1>1. PICK w \in Workers :
        /\ waitworkers[w] = 1
        /\ waitworkers' = [waitworkers EXCEPT ![w] = 0]
        /\ workermbs' = [workermbs EXCEPT ![w] = Append(@, M("ASSIGN", t))]
        /\ state' = [state EXCEPT ![t] = "READY"]
        /\ ready_tasks' = ready_tasks
  BY Zenon DEF servePendingReq, FirstWaiting, Waiting
<1>2. /\ wakenup' = [wakenup EXCEPT ![t] = 0]
      /\ UNCHANGED <<waiter, mainpc, wpc, current_task>>
  BY Zenon DEF ReadyStep
<1>3. /\ Once(mastermb')
      /\ \A x : /\ In(mastermb', M("ASSIGN", x)) <=> In(mastermb, M("ASSIGN", x)) /\ x # t
                /\ In(mastermb', M("RETURN", x)) <=> In(mastermb, M("RETURN", x)) /\ x # t
                /\ In(mastermb', M("WAKEUP", x)) <=> In(mastermb, M("WAKEUP", x)) /\ x # t
                /\ In(mastermb', M("REQUEST", x)) <=> In(mastermb, M("REQUEST", x))
      /\ t \notin ready_tasks
      /\ \A v \in Workers : current_task[v] # t /\ ~In(workermbs[v], M("ASSIGN", t))
      /\ state[t] \in {"BLOCKED", "RETURNED"} => waiter[t] = "signalled"
  BY ReadyStepFacts, Zenon
<1>4. ~HasAssign(workermbs[w])
  BY <1>1, Zenon DEF IInv, RequestPlacement
<1>5. \A v \in Workers :
           /\ \A x : In(workermbs'[v], M("ASSIGN", x)) <=>
                       In(workermbs[v], M("ASSIGN", x)) \/ (v = w /\ x = t)
           /\ HasAssign(workermbs'[v]) <=> HasAssign(workermbs[v]) \/ v = w
           /\ OneAssign(workermbs'[v])
  BY <1>1, <1>4, WorkerGets, ZenonT(60)
<1>6. MessagesOnce'
  BY <1>1, <1>2, <1>3, <1>4, <1>5, ZenonT(30) DEF IInv, MessagesOnce
<1>7. TaskPlacement'
  BY <1>1, <1>2, <1>3, <1>4, <1>5, SMTT(30)
     DEF IInv, TypeOK, TaskPlacement, TaskWhere, WorkerHolds
<1>8. RequestPlacement'
  BY <1>1, <1>2, <1>3, <1>4, <1>5, SMTT(30) DEF IInv, TypeOK, RequestPlacement
<1>9. WakeupPlacement'
  BY <1>1, <1>2, <1>3, <1>4, <1>5, SMTT(30)
     DEF IInv, TypeOK, TaskPlacement, TaskWhere, WorkerHolds, WakeupPlacement,
         WakeupInTransit
<1> QED
  BY <1>6, <1>7, <1>8, <1>9, Zenon DEF Placement

(* Answering a request moves the head of the queue to the worker's mailbox. *)
LEMMA RequestServeInv ==
  ASSUME IInv, MasterRequestServe
  PROVE  Placement'
<1> USE DEF masterVars, workerVars
<1> DEFINE w == Head(mastermb).body
<1>1. Handling("REQUEST") /\ mastermb' = Tail(mastermb)
  BY Zenon DEF MasterRequestServe
<1>2. PICK t \in Tasks :
        /\ t \in ready_tasks
        /\ state' = [state EXCEPT ![t] = "READY"]
        /\ workermbs' = [workermbs EXCEPT ![w] = Append(@, M("ASSIGN", t))]
        /\ ready_tasks' = ready_tasks \ {t}
        /\ UNCHANGED <<wakenup, waiter, mainpc, waitworkers, wpc, current_task>>
  BY Zenon DEF MasterRequestServe, IsHead, LpelTaskqueuePop
<1>3. w \in Workers
  BY <1>1, HandlingType, Zenon DEF IInv
<1>4. /\ In(mastermb, M("REQUEST", w))
      /\ \A y, x : In(mastermb', M(y, x)) <=>
                     In(mastermb, M(y, x)) /\ (y # "REQUEST" \/ x # w)
      /\ Once(mastermb')
  BY <1>1, MasterTakes, Zenon DEF Handling
<1> HIDE DEF w
<1>5. ~HasAssign(workermbs[w])
  BY <1>3, <1>4, Zenon DEF IInv, RequestPlacement
<1>6. \A v \in Workers :
           /\ \A x : In(workermbs'[v], M("ASSIGN", x)) <=>
                       In(workermbs[v], M("ASSIGN", x)) \/ (v = w /\ x = t)
           /\ HasAssign(workermbs'[v]) <=> HasAssign(workermbs[v]) \/ v = w
           /\ OneAssign(workermbs'[v])
  BY <1>2, <1>3, <1>5, WorkerGets, Zenon
<1>7. /\ state[t] = "INQUEUE"
      /\ \A v \in Workers : current_task[v] # t /\ ~In(workermbs[v], M("ASSIGN", t))
  <2>1. /\ state[t] = "INQUEUE"
        /\ \A v \in Workers : ~In(workermbs[v], M("ASSIGN", t))
    <3>1. TaskWhere(t)
      BY <1>2, Zenon DEF IInv, TaskPlacement
    <3> QED
      BY <1>2, <3>1, Zenon DEF TaskWhere
  <2>2. ASSUME NEW v \in Workers, current_task[v] = t PROVE FALSE
    <3>1. wpc[v] \in {"task", "block", "request", "return"}
      BY <2>2, CurrentTask, Zenon
    <3>2. WorkerHolds(v)
      BY Zenon DEF IInv, TaskPlacement
    <3> QED
      BY <3>1, <3>2, <2>1, <2>2, Zenon DEF WorkerHolds
  <2> QED
    BY <2>1, <2>2, Zenon
<1>8. MessagesOnce'
  BY <1>1, <1>2, <1>3, <1>4, <1>5, <1>6, <1>7, ZenonT(30) DEF IInv, MessagesOnce
<1>9. TaskPlacement'
  BY <1>1, <1>2, <1>3, <1>4, <1>5, <1>6, <1>7, SMTT(30)
     DEF IInv, TypeOK, TaskPlacement, TaskWhere, WorkerHolds
<1>10. RequestPlacement'
  BY <1>1, <1>2, <1>3, <1>4, <1>5, <1>6, <1>7, SMTT(30) DEF IInv, TypeOK, RequestPlacement
<1>11. WakeupPlacement'
  BY <1>1, <1>2, <1>3, <1>4, <1>5, <1>6, <1>7, SMTT(30)
     DEF IInv, TypeOK, TaskPlacement, TaskWhere, WorkerHolds, WakeupPlacement,
         WakeupInTransit
<1> QED
  BY <1>8, <1>9, <1>10, <1>11, Zenon DEF Placement

-----------------------------------------------------------------------------
(* Workers *)

(* requestTask() adds the one request of a worker. *)
LEMMA RequestInv ==
  ASSUME IInv, NEW w \in Workers, requestTask(w)
  PROVE  Placement'
<1> USE DEF masterVars, workerVars
<1>1. /\ \/ wpc[w] = "init" /\ wpc' = [wpc EXCEPT ![w] = "recv"]
         \/ wpc[w] = "request" /\ wpc' = [wpc EXCEPT ![w] = "return"]
      /\ UNCHANGED <<state, wakenup, waiter, workermbs, mainpc, waitworkers,
                     ready_tasks, current_task>>
      /\ mastermb' = Append(mastermb, M("REQUEST", w))
  BY Zenon DEF requestTask
<1>2. M("REQUEST", w) \in Msg /\ ~In(mastermb, M("REQUEST", w))
  BY <1>1, MsgMake, Zenon DEF IInv, RequestPlacement
<1>3. /\ \A y, x : In(mastermb', M(y, x)) <=>
                     In(mastermb, M(y, x)) \/ (y = "REQUEST" /\ x = w)
      /\ Once(mastermb')
  BY <1>1, <1>2, MasterGets, Zenon
<1>4. MessagesOnce'
  BY <1>1, <1>2, <1>3, ZenonT(30) DEF IInv, MessagesOnce
<1>5. TaskPlacement'
  BY <1>1, <1>2, <1>3, SMTT(30) DEF IInv, TypeOK, TaskPlacement, TaskWhere, WorkerHolds
<1>6. RequestPlacement'
  BY <1>1, <1>2, <1>3, SMTT(30) DEF IInv, TypeOK, RequestPlacement
<1>7. WakeupPlacement'
  BY <1>1, <1>2, <1>3, SMTT(30)
     DEF IInv, TypeOK, TaskPlacement, TaskWhere, WorkerHolds, WakeupPlacement,
         WakeupInTransit
<1> QED
  BY <1>4, <1>5, <1>6, <1>7, Zenon DEF Placement

(* returnTask() moves a task from its worker to the master's mailbox. *)
LEMMA ReturnTaskInv ==
  ASSUME IInv, NEW w \in Workers, returnTask(w)
  PROVE  Placement'
<1> USE DEF masterVars, workerVars
<1> DEFINE t == current_task[w]
<1>1. /\ wpc[w] = "return" /\ wpc' = [wpc EXCEPT ![w] = "recv"]
      /\ UNCHANGED <<state, wakenup, waiter, workermbs, mainpc, waitworkers,
                     ready_tasks>>
      /\ current_task' = [current_task EXCEPT ![w] = NULL]
      /\ mastermb' = Append(mastermb, M("RETURN", t))
  BY Zenon DEF returnTask
<1>2. t \in Tasks
  BY <1>1, CurrentTask, Zenon
<1>3. /\ M("RETURN", t) \in Msg
      /\ ~In(mastermb, M("RETURN", t))
      /\ state[t] \in {"BLOCKED", "READY", "ZOMBIE"}
      /\ \A v \in Workers : /\ v # w => current_task[v] # t
                            /\ ~In(workermbs[v], M("ASSIGN", t))
  <2>1. WorkerHolds(w) /\ TaskWhere(t)
    BY <1>2, Zenon DEF IInv, TaskPlacement
  <2> QED
    BY <1>1, <1>2, <2>1, ConstAssumption, MsgMake, Zenon DEF WorkerHolds, TaskWhere
<1>4. /\ \A y, x : In(mastermb', M(y, x)) <=>
                     In(mastermb, M(y, x)) \/ (y = "RETURN" /\ x = t)
      /\ Once(mastermb')
  BY <1>1, <1>3, MasterGets, Zenon
<1>5. t = current_task[w]
  BY Zenon
<1> HIDE DEF t
<1>6. MessagesOnce'
  BY <1>1, <1>4, Zenon DEF IInv, MessagesOnce
<1>7. TaskPlacement'
  BY <1>1, <1>2, <1>3, <1>4, <1>5, ConstAssumption, SMTT(30)
     DEF IInv, TypeOK, TaskPlacement, TaskWhere, WorkerHolds
<1>8. RequestPlacement'
  BY <1>1, <1>4, SMTT(30) DEF IInv, TypeOK, RequestPlacement
<1>9. WakeupPlacement'
  BY <1>1, <1>4 DEF IInv, TypeOK, WakeupPlacement, WakeupInTransit
<1> QED
  BY <1>6, <1>7, <1>8, <1>9, Zenon DEF Placement

(* Blocking, yielding and exiting set the state of the task the worker runs. *)
LEMMA TaskStopInv ==
  ASSUME IInv, NEW w \in Workers, NEW pc, NEW s,
         \/ pc = "block" /\ s = "BLOCKED"
         \/ pc = "task" /\ s \in {"READY", "ZOMBIE"},
         TaskStop(w, pc, s)
  PROVE  Placement'
<1> USE DEF masterVars, workerVars
<1> DEFINE t == current_task[w]
<1>1. /\ wpc[w] = pc /\ wpc' = [wpc EXCEPT ![w] = "request"]
      /\ state' = [state EXCEPT ![t] = s]
      /\ UNCHANGED <<wakenup, waiter, mastermb, workermbs, mainpc, waitworkers,
                     ready_tasks, current_task>>
  BY Zenon DEF TaskStop
<1>2. t \in Tasks
  BY <1>1, CurrentTask, Zenon
<1>3. /\ state[t] = "RUNNING"
      /\ \A v \in Workers : v # w => current_task[v] # t
      /\ s = "BLOCKED" => waiter[t] # "none"
      /\ s # "BLOCKED" => waiter[t] = "none"
  <2>1. WorkerHolds(w)
    BY Zenon DEF IInv, TaskPlacement
  <2>2. /\ wpc[w] = "task" => waiter[t] = "none"
        /\ wpc[w] = "block" => waiter[t] # "none"
    BY Zenon DEF IInv, WakeupPlacement
  <2> QED
    BY <1>1, <1>2, <2>1, <2>2, ConstAssumption, Zenon DEF WorkerHolds
<1>4. t = current_task[w]
  BY Zenon
<1> HIDE DEF t
<1>5. MessagesOnce'
  BY <1>1, <1>2, <1>3, <1>4, ZenonT(30) DEF IInv, MessagesOnce
<1>6. TaskPlacement'
  BY <1>1, <1>2, <1>3, <1>4, SMTT(30)
     DEF IInv, TypeOK, TaskPlacement, TaskWhere, WorkerHolds
<1>7. RequestPlacement'
  BY <1>1, <1>2, <1>3, <1>4, SMTT(30) DEF IInv, TypeOK, RequestPlacement
<1>8. WakeupPlacement'
  BY <1>1, <1>2, <1>3, <1>4, SMTT(30)
     DEF IInv, TypeOK, TaskPlacement, TaskWhere, WorkerHolds, WakeupPlacement,
         WakeupInTransit
<1> QED
  BY <1>5, <1>6, <1>7, <1>8, Zenon DEF Placement

(* A task that finds a semaphore at 0 is waiting while it still runs. *)
LEMMA WaitsInv ==
  ASSUME IInv, NEW w \in Workers, TaskWaits(w)
  PROVE  Placement'
<1> USE DEF masterVars, workerVars
<1> DEFINE t == current_task[w]
<1>1. /\ wpc[w] = "task" /\ wpc' = [wpc EXCEPT ![w] = "block"]
      /\ waiter' = [waiter EXCEPT ![t] = "waiting"]
      /\ UNCHANGED <<state, wakenup, mastermb, workermbs, mainpc, waitworkers,
                     ready_tasks, current_task>>
  BY Zenon DEF TaskWaits
<1>2. t \in Tasks
  BY <1>1, CurrentTask, Zenon
<1>3. /\ state[t] = "RUNNING"
      /\ waiter[t] = "none"
      /\ \A v \in Workers : v # w => current_task[v] # t
  <2>1. WorkerHolds(w)
    BY Zenon DEF IInv, TaskPlacement
  <2>2. wpc[w] = "task" => waiter[t] = "none"
    BY Zenon DEF IInv, WakeupPlacement
  <2> QED
    BY <1>1, <1>2, <2>1, <2>2, ConstAssumption, Zenon DEF WorkerHolds
<1>4. t = current_task[w]
  BY Zenon
<1> HIDE DEF t
<1>5. MessagesOnce'
  BY <1>1, <1>2, <1>3, <1>4, ZenonT(30) DEF IInv, MessagesOnce
<1>6. TaskPlacement'
  BY <1>1, <1>2, <1>3, <1>4, SMTT(30)
     DEF IInv, TypeOK, TaskPlacement, TaskWhere, WorkerHolds
<1>7. RequestPlacement'
  BY <1>1, <1>2, <1>3, <1>4, SMTT(30) DEF IInv, TypeOK, RequestPlacement
<1>8. WakeupPlacement'
  BY <1>1, <1>2, <1>3, <1>4, SMTT(30)
     DEF IInv, TypeOK, TaskPlacement, TaskWhere, WorkerHolds, WakeupPlacement,
         WakeupInTransit
<1> QED
  BY <1>5, <1>6, <1>7, <1>8, Zenon DEF Placement

(* WorkerLoop() moves an assigned task from the mailbox onto its worker. *)
LEMMA AssignInv ==
  ASSUME IInv, NEW w \in Workers, WorkerAssign(w)
  PROVE  Placement'
<1> USE DEF masterVars, workerVars
<1> DEFINE t == Head(workermbs[w]).body
<1>1. /\ wpc[w] = "recv" /\ wpc' = [wpc EXCEPT ![w] = "task"]
      /\ workermbs[w] # <<>> /\ Head(workermbs[w]).type = "ASSIGN"
      /\ state[t] = "READY"
      /\ state' = [state EXCEPT ![t] = "RUNNING"]
      /\ waiter' = [waiter EXCEPT ![t] = "none"]
      /\ current_task' = [current_task EXCEPT ![w] = t]
      /\ workermbs' = [workermbs EXCEPT ![w] = Tail(@)]
      /\ UNCHANGED <<wakenup, mastermb, mainpc, waitworkers, ready_tasks>>
  BY Zenon DEF WorkerAssign
<1>2. /\ t \in Tasks
      /\ In(workermbs[w], M("ASSIGN", t))
      /\ ~HasAssign(workermbs'[w])
      /\ \A x : ~In(workermbs'[w], M("ASSIGN", x))
      /\ \A v \in Workers : /\ v # w => workermbs'[v] = workermbs[v]
                            /\ OneAssign(workermbs'[v])
  BY <1>1, WorkerTakes, ZenonT(60)
<1> HIDE DEF t
<1>3. /\ ~In(mastermb, M("RETURN", t))
      /\ \A v \in Workers : /\ current_task[v] # t
                            /\ v # w => ~In(workermbs[v], M("ASSIGN", t))
  <2>1. TaskWhere(t)
    BY <1>2, Zenon DEF IInv, TaskPlacement
  <2>2. ~In(mastermb, M("RETURN", t))
    BY <1>2, <2>1, Zenon DEF TaskWhere
  <2>3. ASSUME NEW v \in Workers
        PROVE /\ current_task[v] # t
              /\ v # w => ~In(workermbs[v], M("ASSIGN", t))
    BY <1>2, <2>1, Zenon DEF TaskWhere
  <2> QED
    BY <2>2, <2>3, Zenon
<1>4. ~In(mastermb, M("REQUEST", w)) /\ waitworkers[w] = 0
  <2>1. HasAssign(workermbs[w])
    BY <1>1, RecvMsg, Zenon DEF IInv, TypeOK
  <2> QED
    BY <2>1, Zenon DEF IInv, TypeOK, RequestPlacement
<1>5. t # NULL /\ current_task[w] = NULL
  <2>1. WorkerHolds(w)
    BY Zenon DEF IInv, TaskPlacement
  <2> QED
    BY <1>1, <1>2, <2>1, ConstAssumption, Zenon DEF WorkerHolds
<1>6. MessagesOnce'
  BY <1>1, <1>2, <1>3, <1>4, <1>5, Zenon DEF IInv, MessagesOnce
<1>7. TaskPlacement'
  <2>1. /\ \A x \in Tasks : state'[x] = IF x = t THEN "RUNNING" ELSE state[x]
        /\ \A v \in Workers : /\ current_task'[v] = IF v = w THEN t ELSE current_task[v]
                              /\ wpc'[v] = IF v = w THEN "task" ELSE wpc[v]
    BY <1>1, <1>2, ZenonT(30) DEF IInv, TypeOK
  <2>2. /\ \A v \in Workers : \A x : In(workermbs'[v], M("ASSIGN", x)) =>
                                       In(workermbs[v], M("ASSIGN", x)) /\ x # t
        /\ \A v \in Workers : \A x \in Tasks : In(workermbs[v], M("ASSIGN", x)) =>
                                       In(workermbs'[v], M("ASSIGN", x)) \/ x = t
    <3>1. \A x \in Tasks : In(workermbs[w], M("ASSIGN", x)) => x = t
      <4>1. OneAssign(workermbs[w])
        BY Zenon DEF IInv, MessagesOnce
      <4> QED
        BY <4>1, <1>2, MsgEqual DEF In, OneAssign
    <3>2. ASSUME NEW v \in Workers, NEW x, In(workermbs'[v], M("ASSIGN", x))
          PROVE  In(workermbs[v], M("ASSIGN", x)) /\ x # t
      <4>1. v # w /\ workermbs'[v] = workermbs[v]
        BY <1>2, <3>2, Zenon
      <4> QED
        BY <1>3, <3>2, <4>1, Zenon
    <3>3. ASSUME NEW v \in Workers, NEW x \in Tasks, In(workermbs[v], M("ASSIGN", x)), x # t
          PROVE  In(workermbs'[v], M("ASSIGN", x))
      <4>1. v # w
        BY <3>1, <3>3, Zenon
      <4> QED
        BY <1>2, <3>3, <4>1, Zenon
    <3> QED
      BY <3>2, <3>3, Zenon
  <2>3. UNCHANGED <<mastermb, ready_tasks>> /\ state[t] = "READY"
    BY <1>1, Zenon
  <2>4. ASSUME NEW x \in Tasks PROVE TaskWhere(x)'
    <3>1. TaskWhere(x)
      BY Zenon DEF IInv, TaskPlacement
    <3>2. CASE x = t
      BY <3>1, <3>2, <1>3, <2>1, <2>2, <2>3, ZenonT(60) DEF TaskWhere
    <3>3. CASE x # t
      <4>1. \A v \in Workers : /\ current_task'[v] = x <=> current_task[v] = x
                               /\ In(workermbs'[v], M("ASSIGN", x)) <=>
                                    In(workermbs[v], M("ASSIGN", x))
        BY <3>3, <1>2, <1>5, <2>1, <2>2, ConstAssumption, ZenonT(60)
      <4>2. state'[x] = state[x]
        BY <3>3, <2>1, Zenon
      <4> QED
        BY <3>1, <4>1, <4>2, <2>3, ZenonT(60) DEF TaskWhere
    <3> QED
      BY <3>2, <3>3, Zenon
  <2>5. ASSUME NEW v \in Workers PROVE WorkerHolds(v)'
    <3>1. CASE v = w
      <4>1. current_task'[w] = t /\ wpc'[w] = "task" /\ state'[t] = "RUNNING"
        BY <1>2, <2>1, Zenon
      <4>2. \A u \in Workers : u # w => current_task'[u] # t
        BY <1>3, <2>1, Zenon
      <4> QED
        BY <3>1, <4>1, <4>2, <1>5, Zenon DEF WorkerHolds
    <3>2. CASE v # w
      <4>1. WorkerHolds(v)
        BY Zenon DEF IInv, TaskPlacement
      <4>2. current_task[v] = NULL \/ current_task[v] \in Tasks
        BY Zenon DEF IInv, TypeOK
      <4>3. /\ current_task'[v] = current_task[v] /\ wpc'[v] = wpc[v]
            /\ current_task[v] # NULL => state'[current_task[v]] = state[current_task[v]]
        BY <3>2, <4>2, <1>3, <2>1, Zenon
      <4>4. \A u \in Workers : current_task'[u] = current_task[u] \/ current_task'[u] = t
        BY <2>1, Zenon
      <4> QED
        BY <3>2, <4>1, <4>3, <4>4, <2>1, <1>3, Zenon DEF WorkerHolds
    <3> QED
      BY <3>1, <3>2, Zenon
  <2> QED
    BY <2>4, <2>5, Zenon DEF TaskPlacement
<1>8. RequestPlacement'
  BY <1>1, <1>2, <1>3, <1>4, <1>5, SMTT(30) DEF IInv, TypeOK, RequestPlacement
<1>9. WakeupPlacement'
  BY <1>1, <1>2, <1>3, <1>4, <1>5, SMTT(30)
     DEF IInv, TypeOK, TaskPlacement, TaskWhere, WorkerHolds, WakeupPlacement,
         WakeupInTransit
<1> QED
  BY <1>6, <1>7, <1>8, <1>9, Zenon DEF Placement

(* A worker that gets TERMINATE holds no task. *)
LEMMA WorkerTerminateInv ==
  ASSUME IInv, NEW w \in Workers, WorkerTerminate(w)
  PROVE  Placement'
<1> USE DEF masterVars, workerVars
<1>1. /\ wpc[w] = "recv" /\ wpc' = [wpc EXCEPT ![w] = "done"]
      /\ workermbs[w] # <<>> /\ Head(workermbs[w]).type = "TERMINATE"
      /\ workermbs' = [workermbs EXCEPT ![w] = Tail(@)]
      /\ UNCHANGED <<state, wakenup, waiter, mastermb, mainpc, waitworkers,
                     ready_tasks, current_task>>
  BY Zenon DEF WorkerTerminate
<1>2. \A v \in Workers :
        /\ \A x : In(workermbs'[v], M("ASSIGN", x)) <=> In(workermbs[v], M("ASSIGN", x))
        /\ HasAssign(workermbs'[v]) <=> HasAssign(workermbs[v])
        /\ OneAssign(workermbs'[v])
  BY <1>1, WorkerTakes, ZenonT(60)
<1>3. MessagesOnce'
  BY <1>1, <1>2, Zenon DEF IInv, MessagesOnce
<1>4. TaskPlacement'
  BY <1>1, <1>2, SMTT(30) DEF IInv, TypeOK, TaskPlacement, TaskWhere, WorkerHolds
<1>5. RequestPlacement'
  BY <1>1, <1>2, SMTT(30) DEF IInv, TypeOK, RequestPlacement
<1>6. WakeupPlacement'
  BY <1>1, <1>2, SMTT(30)
     DEF IInv, TypeOK, TaskPlacement, TaskWhere, WorkerHolds, WakeupPlacement,
         WakeupInTransit
<1> QED
  BY <1>3, <1>4, <1>5, <1>6, Zenon DEF Placement

-----------------------------------------------------------------------------
(* Cleanup, and all together *)

(* cleanupMasterMb() drops requests and frees returned tasks. *)
LEMMA CleanupInv ==
  ASSUME IInv, cleanupMasterMb
  PROVE  Placement'
<1> USE DEF masterVars, workerVars
<1> DEFINE type == Head(mastermb).type
           b == Head(mastermb).body
<1>1. /\ mainpc = "cleanup" /\ mastermb # <<>> /\ mastermb' = Tail(mastermb)
      /\ \/ type = "REQUEST" /\ state' = state
         \/ /\ type = "RETURN" /\ state[b] = "ZOMBIE"
            /\ state' = [state EXCEPT ![b] = "freed"]
      /\ UNCHANGED <<wakenup, waiter, workermbs, mainpc, waitworkers, ready_tasks,
                     wpc, current_task>>
  BY Zenon DEF cleanupMasterMb
<1>2. type = "RETURN" => b \in Tasks
  BY <1>1, RecvMsg, MsgBody, Zenon DEF IInv, TypeOK
<1>3. /\ In(mastermb, M(type, b))
      /\ \A y, x : In(mastermb', M(y, x)) <=>
                     In(mastermb, M(y, x)) /\ (y # type \/ x # b)
      /\ Once(mastermb')
  BY <1>1, MasterTakes, Zenon
<1> HIDE DEF type, b
<1>4. MessagesOnce'
  BY <1>1, <1>2, <1>3, ZenonT(30) DEF IInv, MessagesOnce
<1>5. TaskPlacement'
  BY <1>1, <1>2, <1>3, SMTT(30) DEF IInv, TypeOK, TaskPlacement, TaskWhere, WorkerHolds
<1>6. RequestPlacement'
  BY <1>1, <1>2, <1>3, ZenonT(30) DEF IInv, TypeOK, RequestPlacement
<1>7. WakeupPlacement'
  BY <1>1, <1>2, <1>3, SMTT(30)
     DEF IInv, TypeOK, TaskPlacement, TaskWhere, WorkerHolds, WakeupPlacement,
         WakeupInTransit
<1> QED
  BY <1>4, <1>5, <1>6, <1>7, Zenon DEF Placement

(* Every step keeps the placement of tasks, requests and wake-ups. *)
LEMMA NextPlacement ==
  ASSUME IInv, [Next]_vars
  PROVE  Placement'
<1>1. CASE \E t \in Tasks : LpelTaskStart(t) \/ LpelTaskUnblock(t)
  BY <1>1, StartInv, UnblockInv, Zenon
<1>2. CASE MasterAssign
  <2> DEFINE t == Head(mastermb).body
  <2>1. t \in Tasks
    BY <1>2, HandlingType, Zenon DEF MasterAssign, IInv
  <2>2. state[t] = "CREATED"
    BY <1>2, Zenon DEF MasterAssign
  <2>3. wakenup[t] = 0
    BY <2>1, <2>2, NotWoken, Zenon
  <2>4. ReadyStep(t)
    BY <1>2, <2>2, <2>3, Zenon
       DEF MasterAssign, Handling, ReadyStep, workerVars, IInv, TypeOK
  <2> QED
    BY <1>2, <2>1, <2>4, EnqueueInv, ServeInv, Zenon DEF MasterAssign
<1>3. CASE MasterReturnReady
  <2> DEFINE t == Head(mastermb).body
  <2>1. t \in Tasks
    BY <1>3, HandlingType, Zenon DEF MasterReturnReady, IInv
  <2>2. \/ state[t] = "BLOCKED" /\ wakenup[t] = 1 /\ wakenup' = [wakenup EXCEPT ![t] = 0]
        \/ state[t] = "READY" /\ UNCHANGED wakenup
    BY <1>3, Zenon DEF MasterReturnReady, Woken, wakenupUsed
  <2>3. state[t] = "READY" => wakenup[t] = 0
    BY <2>1, NotWoken, Zenon
  <2>4. ReadyStep(t)
    BY <1>3, <2>2, <2>3, ZenonT(30)
       DEF MasterReturnReady, Handling, ReadyStep, workerVars, IInv, TypeOK
  <2>5. \/ servePendingReq(t)
        \/ \E p : Enqueue(t, p)
    BY <1>3, <2>1, ScheduleCases, PriorityUpdatesType, Zenon DEF MasterReturnReady, IInv
  <2> QED
    BY <2>1, <2>4, <2>5, EnqueueInv, ServeInv, Zenon
<1>4. CASE MasterWakeup
  <2> DEFINE t == Head(mastermb).body
  <2>1. t \in Tasks
    BY <1>4, HandlingType, Zenon DEF MasterWakeup, IInv
  <2>2. state[t] = "RETURNED"
    BY <1>4, Zenon DEF MasterWakeup
  <2>3. wakenup[t] = 0
    BY <2>1, <2>2, NotWoken, Zenon
  <2>4. ReadyStep(t)
    BY <1>4, <2>2, <2>3, Zenon
       DEF MasterWakeup, Handling, ReadyStep, workerVars, IInv, TypeOK
  <2>5. {prior} \in SUBSET [Tasks -> Prior]
    BY Zenon DEF IInv, TypeOK
  <2>6. \/ servePendingReq(t)
        \/ \E p : Enqueue(t, p)
    BY <1>4, <2>1, <2>5, ScheduleCases, Zenon DEF MasterWakeup, IInv
  <2> QED
    BY <2>1, <2>4, <2>6, EnqueueInv, ServeInv, Zenon
<1>5. CASE Master
  BY Zenon, <1>5, <1>2, <1>3, <1>4, ReturnBlockedInv, ReturnZombieInv, WakeupEarlyInv,
     RequestServeInv, RequestWaitInv, TerminateInv, BroadcastInv DEF Master
<1>6. ASSUME NEW w \in Workers, WorkerThread(w) PROVE Placement'
  <2>1. CASE LpelTaskBlockStream(w) \/ LpelTaskYield(w) \/ LpelTaskExit(w)
    BY <2>1, TaskStopInv, Zenon DEF LpelTaskBlockStream, LpelTaskYield, LpelTaskExit
  <2> QED
    BY <1>6, <2>1, RequestInv, AssignInv, WorkerTerminateInv, WaitsInv, ReturnTaskInv, Zenon
    DEF WorkerThread
<1>7. ASSUME UNCHANGED <<state, wakenup, waiter, mastermb, workermbs, waitworkers,
                         ready_tasks, wpc, current_task>>,
             mainpc' \in {"run", "stopping"} => mainpc \in {"run", "stopping"}
      PROVE  Placement'
  <2>1. MessagesOnce'
    BY <1>7, Zenon DEF IInv, MessagesOnce
  <2>2. TaskPlacement'
    <3>1. TaskPlacement
      BY Zenon DEF IInv
    <3>2. ASSUME NEW t \in Tasks PROVE TaskWhere(t)'
      <4>1. TaskWhere(t)
        BY <3>1, Zenon DEF TaskPlacement
      <4> QED
        BY <1>7, <4>1, Zenon DEF TaskWhere
    <3>3. ASSUME NEW w \in Workers PROVE WorkerHolds(w)'
      <4>1. WorkerHolds(w)
        BY <3>1, Zenon DEF TaskPlacement
      <4> QED
        BY <1>7, <4>1, Zenon DEF WorkerHolds
    <3> QED
      BY <3>2, <3>3, Zenon DEF TaskPlacement
  <2>3. RequestPlacement'
    <3>1. RequestPlacement
      BY Zenon DEF IInv
    <3> QED
      BY <1>7, <3>1, ZenonT(60) DEF RequestPlacement
  <2>4. WakeupPlacement'
    <3>1. WakeupPlacement
      BY Zenon DEF IInv
    <3>2. \A t \in Tasks : WakeupInTransit(t)' <=> WakeupInTransit(t)
      BY <1>7, Zenon DEF WakeupInTransit
    <3> QED
      BY <1>7, <3>1, <3>2, Zenon DEF WakeupPlacement
  <2> QED
    BY <2>1, <2>2, <2>3, <2>4, Zenon DEF Placement
<1>8. CASE Join \/ CleanupDone \/ UNCHANGED vars
  BY <1>7, <1>8, Zenon DEF Join, CleanupDone, vars, masterVars, workerVars
<1> QED
  BY <1>1, <1>5, <1>6, <1>8, StopInv, CleanupInv, Zenon DEF Next, Main, Finished

=============================================================================
