--------------------------- MODULE HrcSchedPlaces ---------------------------
(***************************************************************************)
(* Steps of HrcSched preserve the placement of tasks, requests and         *)
(* wake-ups: facts about messages, mailboxes and the scheduling operators, *)
(* then one lemma for each action that assigns no task.                    *)
(***************************************************************************)
EXTENDS HrcSched, TLAPS

(* time limits of the two provers *)
USE SMTT(30), ZenonT(30)

-----------------------------------------------------------------------------
(* Messages *)

(* A message of a given type has a body of the matching kind. *)
LEMMA MsgBody ==
  ASSUME NEW m \in Msg
  PROVE  /\ m = M(m.type, m.body)
         /\ m.type \in {"ASSIGN", "RETURN", "WAKEUP"} => m.body \in Tasks
         /\ m.type = "REQUEST" => m.body \in Workers
  BY Zenon DEF Msg, TaskMsg, RequestMsg, TerminateMsg, M

(* The messages that the send functions of hrc_worker_op.c build are messages. *)
LEMMA MsgMake ==
  /\ \A t \in Tasks : /\ M("ASSIGN", t) \in Msg
                      /\ M("RETURN", t) \in Msg
                      /\ M("WAKEUP", t) \in Msg
  /\ \A w \in Workers : M("REQUEST", w) \in Msg
  /\ M("TERMINATE", NULL) \in Msg
  BY Zenon DEF Msg, TaskMsg, RequestMsg, TerminateMsg, M

(* Two messages are equal iff their type and body are. *)
LEMMA MsgEqual ==
  \A a, b, c, d : /\ M(a, b) = M(c, d) <=> a = c /\ b = d
                  /\ M(a, b).type = a
  BY Zenon DEF M

(* What LpelMailboxSend() does to the contents of a mailbox. *)
LEMMA SendMsg ==
  ASSUME NEW s \in Seq(Msg), NEW e \in Msg
  PROVE  /\ Append(s, e) \in Seq(Msg)
         /\ \A m : In(Append(s, e), m) <=> In(s, m) \/ m = e
         /\ HasAssign(Append(s, e)) <=> HasAssign(s) \/ e.type = "ASSIGN"
         /\ Once(s) /\ (In(s, e) => e.type = "TERMINATE") => Once(Append(s, e))
         /\ OneAssign(s) /\ (e.type = "ASSIGN" => ~HasAssign(s))
              => OneAssign(Append(s, e))
<1> DEFINE r == Append(s, e)
<1>1. /\ r \in Seq(Msg)
      /\ Len(r) = Len(s) + 1
      /\ DOMAIN s = 1 .. Len(s)
      /\ DOMAIN r = 1 .. Len(s) + 1
      /\ \A i \in 1 .. Len(s) : r[i] = s[i]
      /\ r[Len(s) + 1] = e
      /\ Len(s) \in Nat
  OBVIOUS
<1> HIDE DEF r
<1>2. \A m : In(r, m) <=> In(s, m) \/ m = e
  BY <1>1 DEF In
<1>3. HasAssign(r) <=> HasAssign(s) \/ e.type = "ASSIGN"
  BY <1>1 DEF HasAssign
<1>4. Once(s) /\ (In(s, e) => e.type = "TERMINATE") => Once(r)
  BY <1>1 DEF Once, In
<1>5. OneAssign(s) /\ (e.type = "ASSIGN" => ~HasAssign(s)) => OneAssign(r)
  BY <1>1 DEF OneAssign, HasAssign
<1> QED
  BY <1>1, <1>2, <1>3, <1>4, <1>5, Zenon DEF r

(* What LpelMailboxRecv() does to the contents of a mailbox. *)
LEMMA RecvMsg ==
  ASSUME NEW s \in Seq(Msg), s # <<>>
  PROVE  /\ Head(s) \in Msg
         /\ In(s, Head(s))
         /\ Tail(s) \in Seq(Msg)
         /\ \A m : In(s, m) <=> In(Tail(s), m) \/ m = Head(s)
         /\ Once(s) => Once(Tail(s))
         /\ Once(s) /\ Head(s).type # "TERMINATE" => ~In(Tail(s), Head(s))
         /\ HasAssign(s) <=> HasAssign(Tail(s)) \/ Head(s).type = "ASSIGN"
         /\ OneAssign(s) => OneAssign(Tail(s))
         /\ OneAssign(s) /\ Head(s).type = "ASSIGN" => ~HasAssign(Tail(s))
<1> DEFINE r == Tail(s)
           h == Head(s)
<1>1. /\ r \in Seq(Msg)
      /\ h \in Msg
      /\ h = s[1]
      /\ Len(s) \in Nat
      /\ Len(s) > 0
      /\ DOMAIN s = 1 .. Len(s)
      /\ DOMAIN r = 1 .. Len(s) - 1
      /\ \A i \in 1 .. Len(s) - 1 : r[i] = s[i + 1]
  OBVIOUS
<1> HIDE DEF r, h
<1>2. /\ \A i \in DOMAIN s : i = 1 \/ (i - 1 \in DOMAIN r /\ r[i - 1] = s[i])
      /\ \A i \in DOMAIN r : i + 1 \in DOMAIN s /\ s[i + 1] = r[i]
      /\ 1 \in DOMAIN s
  BY <1>1
<1>3. \A m : In(s, m) <=> In(r, m) \/ m = h
  <2> TAKE m
  <2>1. In(s, m) => In(r, m) \/ m = h
    BY <1>1, <1>2 DEF In
  <2>2. ASSUME In(r, m) PROVE In(s, m)
    <3>1. PICK i \in DOMAIN r : r[i] = m
      BY <2>2, Zenon DEF In
    <3> QED
      BY <3>1, <1>2, Zenon DEF In
  <2>3. m = h => In(s, m)
    BY <1>1 DEF In
  <2> QED
    BY <2>1, <2>2, <2>3, Zenon
<1>4. Once(s) => Once(r)
  <2>1. ASSUME Once(s), NEW i \in DOMAIN r, NEW j \in DOMAIN r, r[i] = r[j],
               r[i].type # "TERMINATE"
        PROVE  i = j
    <3>1. i + 1 \in DOMAIN s /\ s[i + 1] = r[i] /\ j + 1 \in DOMAIN s /\ s[j + 1] = r[j]
      BY <1>2
    <3>2. i + 1 = j + 1
      BY <2>1, <3>1 DEF Once
    <3> QED
      BY <1>1, <3>2
  <2> QED
    BY <2>1, Zenon DEF Once
<1>5. Once(s) /\ h.type # "TERMINATE" => ~In(r, h)
  <2>1. ASSUME Once(s), h.type # "TERMINATE", NEW i \in DOMAIN r, r[i] = h PROVE FALSE
    <3>1. i + 1 \in DOMAIN s /\ s[i + 1] = h /\ 1 \in DOMAIN s /\ s[1] = h
      BY <1>1, <1>2, <2>1
    <3>2. i + 1 = 1
      BY <2>1, <3>1 DEF Once
    <3> QED
      BY <1>1, <3>2
  <2> QED
    BY <2>1, Zenon DEF In
<1>6. HasAssign(s) <=> HasAssign(r) \/ h.type = "ASSIGN"
  <2>1. ASSUME HasAssign(s) PROVE HasAssign(r) \/ h.type = "ASSIGN"
    <3>1. PICK i \in DOMAIN s : s[i].type = "ASSIGN"
      BY <2>1, Zenon DEF HasAssign
    <3> QED
      BY <3>1, <1>1, <1>2 DEF HasAssign
  <2>2. ASSUME HasAssign(r) PROVE HasAssign(s)
    <3>1. PICK i \in DOMAIN r : r[i].type = "ASSIGN"
      BY <2>2, Zenon DEF HasAssign
    <3> QED
      BY <3>1, <1>2, ZenonT(30) DEF HasAssign
  <2>3. h.type = "ASSIGN" => HasAssign(s)
    BY <1>1, <1>2, Zenon DEF HasAssign
  <2> QED
    BY <2>1, <2>2, <2>3, Zenon
<1>7. OneAssign(s) => OneAssign(r)
  <2> SUFFICES ASSUME OneAssign(s), NEW i \in DOMAIN r, NEW j \in DOMAIN r,
                      r[i].type = "ASSIGN", r[j].type = "ASSIGN"
               PROVE  i = j
    BY Zenon DEF OneAssign
  <2>1. i + 1 = j + 1
    BY <1>2 DEF OneAssign
  <2> QED
    BY <2>1, <1>1
<1>8. OneAssign(s) /\ h.type = "ASSIGN" => ~HasAssign(r)
  BY <1>1, SMTT(30) DEF OneAssign, HasAssign
<1> QED
  BY <1>1, <1>3, <1>4, <1>5, <1>6, <1>7, <1>8, Zenon DEF r, h

-----------------------------------------------------------------------------
(* Scheduling *)

(* The message a handler of MasterLoop() takes out of the mailbox. *)
LEMMA HandlingType ==
  ASSUME TypeOK, NEW type, Handling(type)
  PROVE  /\ mastermb # <<>>
         /\ Tail(mastermb) \in Seq(Msg)
         /\ Head(mastermb) = M(type, Head(mastermb).body)
         /\ type \in {"ASSIGN", "RETURN", "WAKEUP"} => Head(mastermb).body \in Tasks
         /\ type = "REQUEST" => Head(mastermb).body \in Workers
  BY RecvMsg, MsgBody, Zenon DEF TypeOK, Handling

(* LpelTaskCalPriority() returns a priority. *)
LEMMA CalPriorityType == CalPriority \subseteq Prior /\ DBL_MAX \in Prior
  BY ConstAssumption DEF CalPriority, Prior, LPEL_DBL_MIN, DBL_MAX

(* A task that became ready is handed to a waiting worker or queued; it is   *)
(* queued beside a waiting worker only at LPEL_DBL_MIN, that is with a limit *)
LEMMA ScheduleCases ==
  ASSUME NEW t \in Tasks, NEW others \in SUBSET [Tasks -> Prior], TypeOK,
         ScheduleReady(t, others)
  PROVE  \/ servePendingReq(t)
         \/ \E p \in [Tasks -> Prior] :
              Enqueue(t, p) /\ (Waiting = {} \/ NegDemandLim)
<1>1. PICK first \in CalPriority :
        \/ first = LPEL_DBL_MIN /\ Enqueue(t, [prior EXCEPT ![t] = first])
        \/ first # LPEL_DBL_MIN /\ servePendingReq(t)
        \/ /\ first # LPEL_DBL_MIN
           /\ Waiting = {}
           /\ \E p \in others, last \in CalPriority : Enqueue(t, [p EXCEPT ![t] = last])
  BY Zenon DEF ScheduleReady
<1>2. CASE first = LPEL_DBL_MIN /\ Enqueue(t, [prior EXCEPT ![t] = first])
  <2>1. [prior EXCEPT ![t] = first] \in [Tasks -> Prior]
    BY CalPriorityType, Zenon DEF TypeOK
  <2>2. NegDemandLim
    BY <1>2, ConstAssumption DEF CalPriority, LPEL_DBL_MIN
  <2> QED
    BY <1>2, <2>1, <2>2, Zenon
<1>3. CASE first # LPEL_DBL_MIN /\ servePendingReq(t)
  BY <1>3, Zenon
<1>4. CASE /\ Waiting = {}
           /\ \E p \in others, last \in CalPriority : Enqueue(t, [p EXCEPT ![t] = last])
  <2>1. PICK p \in others, last \in CalPriority : Enqueue(t, [p EXCEPT ![t] = last])
    BY <1>4, Zenon
  <2>2. [p EXCEPT ![t] = last] \in [Tasks -> Prior]
    BY CalPriorityType, Zenon
  <2> QED
    BY <1>4, <2>1, <2>2, Zenon
<1> QED
  BY <1>1, <1>2, <1>3, <1>4, Zenon

(* updatePriorityNeigh() sets priorities only. *)
LEMMA PriorityUpdatesType == PriorityUpdates \in SUBSET [Tasks -> Prior]
  BY Zenon DEF PriorityUpdates

-----------------------------------------------------------------------------
(* What the inductive invariant says of one worker and one task *)

(* A worker holds a task iff it is outside the receive loop. *)
LEMMA CurrentTask ==
  ASSUME IInv, NEW w \in Workers
  PROVE  current_task[w] \in Tasks <=> wpc[w] \in {"task", "block", "request", "return"}
<1>1. current_task[w] = NULL <=> wpc[w] \in {"init", "recv", "done"}
  BY Zenon DEF IInv, TaskPlacement, TaskWhere, WorkerHolds
<1>2. current_task[w] \in Tasks \cup {NULL}
  BY Zenon DEF IInv, TypeOK
<1>3. wpc[w] \in {"init", "recv", "task", "block", "request", "return", "done"}
  BY Zenon DEF IInv, TypeOK
<1> QED
  BY <1>1, <1>2, <1>3, ConstAssumption, Zenon

(* A wake-up is only remembered for a task that has not come back yet. *)
LEMMA NotWoken ==
  ASSUME IInv, NEW t \in Tasks, state[t] \notin {"RUNNING", "BLOCKED"}
  PROVE  wakenup[t] = 0
<1>1. wakenup[t] \in {0, 1}
  BY Zenon DEF IInv, TypeOK
<1>2. wakenup[t] = 1 => state[t] \in {"RUNNING", "BLOCKED", "RETURNED"} /\ state[t] # "RETURNED"
  BY Zenon DEF IInv, WakeupPlacement
<1> QED
  BY <1>1, <1>2, Zenon

-----------------------------------------------------------------------------
(* What a step does to the mailboxes, under the inductive invariant *)

(* LpelMailboxSend() to the master, with a message it does not hold yet. *)
LEMMA MasterGets ==
  ASSUME IInv, NEW type, NEW b, M(type, b) \in Msg,
         In(mastermb, M(type, b)) => type = "TERMINATE",
         mastermb' = Append(mastermb, M(type, b))
  PROVE  /\ \A y, x : In(mastermb', M(y, x)) <=>
                        In(mastermb, M(y, x)) \/ (y = type /\ x = b)
         /\ Once(mastermb')
<1>1. mastermb \in Seq(Msg) /\ Once(mastermb)
  BY Zenon DEF IInv, TypeOK, MessagesOnce
<1>2. \A m : In(mastermb', m) <=> In(mastermb, m) \/ m = M(type, b)
  BY <1>1, SendMsg, Zenon
<1>3. \A y, x : M(y, x) = M(type, b) <=> y = type /\ x = b
  BY MsgEqual
<1>4. Once(mastermb')
  BY <1>1, SendMsg, MsgEqual, Zenon
<1> QED
  BY <1>2, <1>3, <1>4, Zenon

(* LpelMailboxRecv() by the master takes the only copy of a message. *)
LEMMA MasterTakes ==
  ASSUME IInv, mastermb # <<>>, mastermb' = Tail(mastermb),
         NEW type, NEW b, type = Head(mastermb).type, b = Head(mastermb).body,
         type # "TERMINATE"
  PROVE  /\ In(mastermb, M(type, b))
         /\ \A y, x : In(mastermb', M(y, x)) <=>
                        In(mastermb, M(y, x)) /\ (y # type \/ x # b)
         /\ Once(mastermb')
<1>1. mastermb \in Seq(Msg) /\ Once(mastermb)
  BY Zenon DEF IInv, TypeOK, MessagesOnce
<1>2. Head(mastermb) = M(type, b)
  BY <1>1, RecvMsg, MsgBody, Zenon
<1>3. /\ \A m : In(mastermb, m) <=> In(mastermb', m) \/ m = M(type, b)
      /\ ~In(mastermb', M(type, b))
      /\ Once(mastermb')
  BY <1>1, <1>2, RecvMsg
<1>4. \A y, x : M(y, x) = M(type, b) <=> y = type /\ x = b
  BY MsgEqual
<1> QED
  BY <1>3, <1>4, Zenon

(* sendTask() to a worker that has no task in its mailbox. *)
LEMMA WorkerGets ==
  ASSUME IInv, NEW w \in Workers, NEW t \in Tasks, ~HasAssign(workermbs[w]),
         workermbs' = [workermbs EXCEPT ![w] = Append(@, M("ASSIGN", t))]
  PROVE  \A v \in Workers :
           /\ \A x : In(workermbs'[v], M("ASSIGN", x)) <=>
                       In(workermbs[v], M("ASSIGN", x)) \/ (v = w /\ x = t)
           /\ HasAssign(workermbs'[v]) <=> HasAssign(workermbs[v]) \/ v = w
           /\ OneAssign(workermbs'[v])
<1>1. /\ workermbs \in [Workers -> Seq(Msg)]
      /\ \A v \in Workers : OneAssign(workermbs[v])
      /\ M("ASSIGN", t) \in Msg
  BY MsgMake, Zenon DEF IInv, TypeOK, MessagesOnce
<1>2. \A v \in Workers \ {w} : workermbs'[v] = workermbs[v]
  BY <1>1, Zenon
<1>3. workermbs'[w] = Append(workermbs[w], M("ASSIGN", t))
  BY <1>1, Zenon
<1>4. /\ \A m : In(workermbs'[w], m) <=> In(workermbs[w], m) \/ m = M("ASSIGN", t)
      /\ HasAssign(workermbs'[w])
      /\ OneAssign(workermbs'[w])
  BY <1>1, <1>3, SendMsg, MsgEqual
<1>5. \A x : M("ASSIGN", x) = M("ASSIGN", t) <=> x = t
  BY MsgEqual
<1> QED
  BY <1>1, <1>2, <1>4, <1>5, Zenon

(* LpelMailboxRecv() by a worker takes its only task, or no task. *)
LEMMA WorkerTakes ==
  ASSUME IInv, NEW w \in Workers, workermbs[w] # <<>>,
         workermbs' = [workermbs EXCEPT ![w] = Tail(@)],
         NEW t, t = Head(workermbs[w]).body
  PROVE  /\ Head(workermbs[w]).type = "ASSIGN" =>
              /\ t \in Tasks
              /\ In(workermbs[w], M("ASSIGN", t))
              /\ ~HasAssign(workermbs'[w])
              /\ \A x : ~In(workermbs'[w], M("ASSIGN", x))
         /\ Head(workermbs[w]).type = "TERMINATE" =>
              /\ HasAssign(workermbs'[w]) <=> HasAssign(workermbs[w])
              /\ \A x : In(workermbs'[w], M("ASSIGN", x)) <=> In(workermbs[w], M("ASSIGN", x))
         /\ \A v \in Workers : /\ v # w => workermbs'[v] = workermbs[v]
                               /\ OneAssign(workermbs'[v])
<1>1. /\ workermbs \in [Workers -> Seq(Msg)]
      /\ \A v \in Workers : OneAssign(workermbs[v])
  BY Zenon DEF IInv, TypeOK, MessagesOnce
<1>2. \A v \in Workers \ {w} : workermbs'[v] = workermbs[v]
  BY <1>1, Zenon
<1>3. workermbs'[w] = Tail(workermbs[w])
  BY <1>1, Zenon
<1>4. Head(workermbs[w]) = M(Head(workermbs[w]).type, t) /\ Head(workermbs[w]) \in Msg
  BY <1>1, RecvMsg, MsgBody, Zenon
<1>5. \A s \in Seq(Msg) : \A x : In(s, M("ASSIGN", x)) => HasAssign(s)
  BY MsgEqual DEF In, HasAssign
<1>6. Head(workermbs[w]).type = "ASSIGN" =>
        /\ t \in Tasks
        /\ In(workermbs[w], M("ASSIGN", t))
        /\ ~HasAssign(workermbs'[w])
        /\ workermbs'[w] \in Seq(Msg)
  BY <1>1, <1>3, <1>4, RecvMsg, MsgBody
<1>7. Head(workermbs[w]).type = "TERMINATE" =>
        /\ HasAssign(workermbs'[w]) <=> HasAssign(workermbs[w])
        /\ \A x : In(workermbs'[w], M("ASSIGN", x)) <=> In(workermbs[w], M("ASSIGN", x))
  <2> SUFFICES ASSUME Head(workermbs[w]).type = "TERMINATE"
               PROVE  /\ HasAssign(workermbs'[w]) <=> HasAssign(workermbs[w])
                      /\ \A x : In(workermbs'[w], M("ASSIGN", x)) <=>
                                  In(workermbs[w], M("ASSIGN", x))
    BY Zenon
  <2>1. \A x : M("ASSIGN", x) # Head(workermbs[w])
    BY <1>4, MsgEqual
  <2> QED
    BY <2>1, <1>1, <1>3, RecvMsg, ZenonT(30)
<1>8. OneAssign(workermbs'[w])
  BY <1>1, <1>3, RecvMsg, Zenon
<1> QED
  BY <1>1, <1>2, <1>5, <1>6, <1>7, <1>8, Zenon

-----------------------------------------------------------------------------
(* Starting, unblocking and stopping *)

Placement == MessagesOnce /\ TaskPlacement /\ RequestPlacement /\ WakeupPlacement

(* LpelTaskStart() keeps the placement of tasks, requests and wake-ups. *)
LEMMA StartInv ==
  ASSUME IInv, NEW t \in Tasks, LpelTaskStart(t)
  PROVE  Placement'
<1> USE DEF masterVars, workerVars
<1>1. /\ state[t] = "none"
      /\ state' = [state EXCEPT ![t] = "CREATED"]
      /\ UNCHANGED <<wakenup, waiter, workermbs, mainpc, waitworkers, ready_tasks,
                     wpc, current_task>>
      /\ mastermb' = Append(mastermb, M("ASSIGN", t))
  BY Zenon DEF LpelTaskStart
<1>2. M("ASSIGN", t) \in Msg /\ ~In(mastermb, M("ASSIGN", t))
  BY <1>1, MsgMake, Zenon DEF IInv, TaskPlacement, TaskWhere, WorkerHolds
<1>3. /\ \A y, x : In(mastermb', M(y, x)) <=>
                     In(mastermb, M(y, x)) \/ (y = "ASSIGN" /\ x = t)
      /\ Once(mastermb')
  BY <1>1, <1>2, MasterGets, Zenon
<1>4. MessagesOnce'
  BY <1>1, <1>3, Zenon DEF IInv, MessagesOnce
<1>5. TaskPlacement'
  BY <1>1, <1>3 DEF IInv, TypeOK, TaskPlacement, TaskWhere, WorkerHolds
<1>6. RequestPlacement'
  BY <1>1, <1>3, Zenon DEF IInv, TypeOK, RequestPlacement
<1>7. WakeupPlacement'
  BY <1>1, <1>3
     DEF IInv, TypeOK, TaskPlacement, TaskWhere, WorkerHolds, WakeupPlacement,
         WakeupInTransit
<1> QED
  BY <1>4, <1>5, <1>6, <1>7, Zenon DEF Placement

(* LpelTaskUnblock() adds the one wake-up of a waiting task. *)
LEMMA UnblockInv ==
  ASSUME IInv, NEW t \in Tasks, LpelTaskUnblock(t)
  PROVE  Placement'
<1> USE DEF masterVars, workerVars
<1>1. /\ waiter[t] = "waiting"
      /\ waiter' = [waiter EXCEPT ![t] = "signalled"]
      /\ UNCHANGED <<state, wakenup, workermbs, mainpc, waitworkers, ready_tasks,
                     wpc, current_task>>
      /\ mastermb' = Append(mastermb, M("WAKEUP", t))
  BY Zenon DEF LpelTaskUnblock
<1>2. M("WAKEUP", t) \in Msg /\ ~In(mastermb, M("WAKEUP", t))
  BY <1>1, MsgMake, Zenon DEF IInv, WakeupPlacement, WakeupInTransit
<1>3. /\ \A y, x : In(mastermb', M(y, x)) <=>
                     In(mastermb, M(y, x)) \/ (y = "WAKEUP" /\ x = t)
      /\ Once(mastermb')
  BY <1>1, <1>2, MasterGets, Zenon
<1>4. MessagesOnce'
  BY <1>1, <1>2, <1>3, Zenon DEF IInv, MessagesOnce
<1>5. TaskPlacement'
  BY <1>1, <1>2, <1>3 DEF IInv, TypeOK, TaskPlacement, TaskWhere, WorkerHolds
<1>6. RequestPlacement'
  BY <1>1, <1>2, <1>3, Zenon DEF IInv, TypeOK, RequestPlacement
<1>7. WakeupPlacement'
  BY <1>1, <1>2, <1>3
     DEF IInv, TypeOK, TaskPlacement, TaskWhere, WorkerHolds, WakeupPlacement,
         WakeupInTransit
<1> QED
  BY <1>4, <1>5, <1>6, <1>7, Zenon DEF Placement

(* LpelStop() adds a TERMINATE message only. *)
LEMMA StopInv ==
  ASSUME IInv, LpelStop
  PROVE  Placement'
<1> USE DEF masterVars, workerVars
<1>1. /\ mainpc = "run" /\ mainpc' = "stopping"
      /\ UNCHANGED <<state, wakenup, waiter, workermbs, waitworkers, ready_tasks,
                     wpc, current_task>>
      /\ mastermb' = Append(mastermb, M("TERMINATE", NULL))
  BY Zenon DEF LpelStop
<1>2. /\ \A y, x : In(mastermb', M(y, x)) <=>
                     In(mastermb, M(y, x)) \/ (y = "TERMINATE" /\ x = NULL)
      /\ Once(mastermb')
  BY <1>1, MsgMake, MasterGets, Zenon
<1>3. MessagesOnce'
  BY <1>1, <1>2, Zenon DEF IInv, MessagesOnce
<1>4. TaskPlacement'
  BY <1>1, <1>2 DEF IInv, TypeOK, TaskPlacement, TaskWhere, WorkerHolds
<1>5. RequestPlacement'
  BY <1>1, <1>2, Zenon DEF IInv, TypeOK, RequestPlacement
<1>6. WakeupPlacement'
  BY <1>1, <1>2
     DEF IInv, TypeOK, TaskPlacement, TaskWhere, WorkerHolds, WakeupPlacement,
         WakeupInTransit
<1> QED
  BY <1>3, <1>4, <1>5, <1>6, Zenon DEF Placement

-----------------------------------------------------------------------------
(* Master: steps that schedule no task *)

(* Parking a returned task that was not woken keeps the placement. *)
LEMMA ReturnBlockedInv ==
  ASSUME IInv, MasterReturnBlocked
  PROVE  Placement'
<1> USE DEF masterVars, workerVars
<1> DEFINE t == Head(mastermb).body
<1>1. /\ Handling("RETURN")
      /\ state[t] = "BLOCKED" /\ wakenup[t] = 0
      /\ state' = [state EXCEPT ![t] = "RETURNED"]
      /\ UNCHANGED <<wakenup, waiter, workermbs, mainpc, waitworkers, ready_tasks,
                     wpc, current_task>>
      /\ mastermb' = Tail(mastermb)
  BY Zenon DEF MasterReturnBlocked
<1>2. t \in Tasks
  BY <1>1, HandlingType, Zenon DEF IInv
<1>3. /\ In(mastermb, M("RETURN", t))
      /\ \A y, x : In(mastermb', M(y, x)) <=>
                     In(mastermb, M(y, x)) /\ (y # "RETURN" \/ x # t)
      /\ Once(mastermb')
  BY <1>1, MasterTakes, Zenon DEF Handling
<1> HIDE DEF t
<1>4. MessagesOnce'
  BY <1>1, <1>2, <1>3, Zenon DEF IInv, MessagesOnce
<1>5. TaskPlacement'
  BY <1>1, <1>2, <1>3 DEF IInv, TypeOK, TaskPlacement, TaskWhere, WorkerHolds
<1>6. RequestPlacement'
  BY <1>1, <1>2, <1>3, Zenon DEF IInv, TypeOK, RequestPlacement
<1>7. WakeupPlacement'
  BY <1>1, <1>2, <1>3, SMTT(30)
     DEF IInv, TypeOK, TaskPlacement, TaskWhere, WorkerHolds, WakeupPlacement,
         WakeupInTransit
<1> QED
  BY <1>4, <1>5, <1>6, <1>7, Zenon DEF Placement

(* LpelTaskDestroy() of a returned task leaves no reference to it. *)
LEMMA ReturnZombieInv ==
  ASSUME IInv, MasterReturnZombie
  PROVE  Placement'
<1> USE DEF masterVars, workerVars
<1> DEFINE t == Head(mastermb).body
<1>1. /\ Handling("RETURN")
      /\ state[t] = "ZOMBIE"
      /\ state' = [state EXCEPT ![t] = "freed"]
      /\ UNCHANGED <<wakenup, waiter, workermbs, mainpc, waitworkers, ready_tasks,
                     wpc, current_task>>
      /\ mastermb' = Tail(mastermb)
  BY Zenon DEF MasterReturnZombie
<1>2. t \in Tasks
  BY <1>1, HandlingType, Zenon DEF IInv
<1>3. /\ In(mastermb, M("RETURN", t))
      /\ \A y, x : In(mastermb', M(y, x)) <=>
                     In(mastermb, M(y, x)) /\ (y # "RETURN" \/ x # t)
      /\ Once(mastermb')
  BY <1>1, MasterTakes, Zenon DEF Handling
<1> HIDE DEF t
<1>4. MessagesOnce'
  BY <1>1, <1>2, <1>3, Zenon DEF IInv, MessagesOnce
<1>5. TaskPlacement'
  BY <1>1, <1>2, <1>3 DEF IInv, TypeOK, TaskPlacement, TaskWhere, WorkerHolds
<1>6. RequestPlacement'
  BY <1>1, <1>2, <1>3, Zenon DEF IInv, TypeOK, RequestPlacement
<1>7. WakeupPlacement'
  BY <1>1, <1>2, <1>3
     DEF IInv, TypeOK, TaskPlacement, TaskWhere, WorkerHolds, WakeupPlacement,
         WakeupInTransit
<1> QED
  BY <1>4, <1>5, <1>6, <1>7, Zenon DEF Placement

(* A wake-up that overtook its task moves from the mailbox to t->wakenup. *)
LEMMA WakeupEarlyInv ==
  ASSUME IInv, MasterWakeupEarly
  PROVE  Placement'
<1> USE DEF masterVars, workerVars
<1> DEFINE t == Head(mastermb).body
<1>1. /\ Handling("WAKEUP")
      /\ state[t] # "RETURNED"
      /\ wakenup' = [wakenup EXCEPT ![t] = 1]
      /\ UNCHANGED <<state, waiter, workermbs, mainpc, waitworkers, ready_tasks,
                     wpc, current_task>>
      /\ mastermb' = Tail(mastermb)
  BY Zenon DEF MasterWakeupEarly, wakenupSet
<1>2. t \in Tasks
  BY <1>1, HandlingType, Zenon DEF IInv
<1>3. /\ In(mastermb, M("WAKEUP", t))
      /\ \A y, x : In(mastermb', M(y, x)) <=>
                     In(mastermb, M(y, x)) /\ (y # "WAKEUP" \/ x # t)
      /\ Once(mastermb')
  BY <1>1, MasterTakes, Zenon DEF Handling
<1> HIDE DEF t
<1>4. MessagesOnce'
  BY <1>1, <1>2, <1>3, Zenon DEF IInv, MessagesOnce
<1>5. TaskPlacement'
  BY <1>1, <1>2, <1>3 DEF IInv, TypeOK, TaskPlacement, TaskWhere, WorkerHolds
<1>6. RequestPlacement'
  BY <1>1, <1>2, <1>3, ZenonT(30) DEF IInv, TypeOK, RequestPlacement
<1>7. WakeupPlacement'
  BY <1>1, <1>2, <1>3, SMTT(30)
     DEF IInv, TypeOK, TaskPlacement, TaskWhere, WorkerHolds, WakeupPlacement,
         WakeupInTransit
<1> QED
  BY <1>4, <1>5, <1>6, <1>7, Zenon DEF Placement

(* A request that finds no task moves to waitworkers. *)
LEMMA RequestWaitInv ==
  ASSUME IInv, MasterRequestWait
  PROVE  Placement'
<1> USE DEF masterVars, workerVars
<1> DEFINE w == Head(mastermb).body
<1>1. /\ Handling("REQUEST")
      /\ waitworkers' = [waitworkers EXCEPT ![w] = 1]
      /\ UNCHANGED <<state, wakenup, waiter, workermbs, mainpc, ready_tasks,
                     wpc, current_task>>
      /\ mastermb' = Tail(mastermb)
  BY Zenon DEF MasterRequestWait
<1>2. w \in Workers
  BY <1>1, HandlingType, Zenon DEF IInv
<1>3. /\ In(mastermb, M("REQUEST", w))
      /\ \A y, x : In(mastermb', M(y, x)) <=>
                     In(mastermb, M(y, x)) /\ (y # "REQUEST" \/ x # w)
      /\ Once(mastermb')
  BY <1>1, MasterTakes, Zenon DEF Handling
<1> HIDE DEF w
<1>4. MessagesOnce'
  BY <1>1, <1>2, <1>3, Zenon DEF IInv, MessagesOnce
<1>5. TaskPlacement'
  BY <1>1, <1>2, <1>3 DEF IInv, TypeOK, TaskPlacement, TaskWhere, WorkerHolds
<1>6. RequestPlacement'
  BY <1>1, <1>2, <1>3, ZenonT(30) DEF IInv, TypeOK, RequestPlacement
<1>7. WakeupPlacement'
  BY <1>1, <1>2, <1>3
     DEF IInv, TypeOK, TaskPlacement, TaskWhere, WorkerHolds, WakeupPlacement,
         WakeupInTransit
<1> QED
  BY <1>4, <1>5, <1>6, <1>7, Zenon DEF Placement

(* Handling TERMINATE in MasterLoop() keeps the placement. *)
LEMMA TerminateInv ==
  ASSUME IInv, MasterTerminate
  PROVE  Placement'
<1> USE DEF masterVars, workerVars
<1>1. /\ Handling("TERMINATE")
      /\ UNCHANGED <<state, wakenup, waiter, workermbs, mainpc, waitworkers,
                     ready_tasks, wpc, current_task>>
      /\ mastermb' = Tail(mastermb)
  BY Zenon DEF MasterTerminate
<1>2. mastermb \in Seq(Msg) /\ mastermb # <<>> /\ Once(mastermb)
  BY <1>1, Zenon DEF IInv, TypeOK, MessagesOnce, Handling
<1>3. Head(mastermb) = M("TERMINATE", Head(mastermb).body)
  BY <1>1, HandlingType, Zenon DEF IInv
<1>4. /\ \A x : /\ In(mastermb', M("ASSIGN", x)) <=> In(mastermb, M("ASSIGN", x))
                /\ In(mastermb', M("RETURN", x)) <=> In(mastermb, M("RETURN", x))
                /\ In(mastermb', M("WAKEUP", x)) <=> In(mastermb, M("WAKEUP", x))
                /\ In(mastermb', M("REQUEST", x)) <=> In(mastermb, M("REQUEST", x))
      /\ Once(mastermb')
  <2>1. \A m : In(mastermb, m) <=> In(mastermb', m) \/ m = Head(mastermb)
    BY <1>1, <1>2, RecvMsg, Zenon
  <2>2. \A y, x : y # "TERMINATE" => M(y, x) # Head(mastermb)
    BY <1>3, MsgEqual
  <2>3. Once(mastermb')
    BY <1>1, <1>2, RecvMsg, Zenon
  <2> QED
    BY <2>1, <2>2, <2>3, Zenon
<1>5. MessagesOnce'
  BY <1>1, <1>4, Zenon DEF IInv, MessagesOnce
<1>6. TaskPlacement'
  BY <1>1, <1>4 DEF IInv, TypeOK, TaskPlacement, TaskWhere, WorkerHolds
<1>7. RequestPlacement'
  BY <1>1, <1>4, ZenonT(30) DEF IInv, TypeOK, RequestPlacement
<1>8. WakeupPlacement'
  BY <1>1, <1>4
     DEF IInv, TypeOK, TaskPlacement, TaskWhere, WorkerHolds, WakeupPlacement,
         WakeupInTransit
<1> QED
  BY <1>5, <1>6, <1>7, <1>8, Zenon DEF Placement

(* LpelWorkerBroadcast() sends no task. *)
LEMMA BroadcastInv ==
  ASSUME IInv, LpelWorkerBroadcast
  PROVE  Placement'
<1> USE DEF masterVars, workerVars
<1>1. /\ UNCHANGED <<state, wakenup, waiter, mastermb, mainpc, waitworkers,
                     ready_tasks, wpc, current_task>>
      /\ workermbs' = [workermbs EXCEPT ![bcast] = Append(@, M("TERMINATE", NULL))]
      /\ bcast \in Workers
  BY Zenon DEF LpelWorkerBroadcast, IInv, BroadcastProgress
<1>2. \A v \in Workers :
        /\ \A x : In(workermbs'[v], M("ASSIGN", x)) <=> In(workermbs[v], M("ASSIGN", x))
        /\ HasAssign(workermbs'[v]) <=> HasAssign(workermbs[v])
        /\ OneAssign(workermbs'[v])
  <2> TAKE v \in Workers
  <2>1. workermbs[v] \in Seq(Msg) /\ OneAssign(workermbs[v])
    BY Zenon DEF IInv, TypeOK, MessagesOnce
  <2>2. CASE v # bcast
    BY <1>1, <2>1, <2>2, Zenon DEF IInv, TypeOK
  <2>3. CASE v = bcast
    <3>1. workermbs'[v] = Append(workermbs[v], M("TERMINATE", NULL))
      BY <1>1, <2>3, Zenon DEF IInv, TypeOK
    <3>2. M("TERMINATE", NULL).type = "TERMINATE" /\ M("TERMINATE", NULL) \in Msg
      BY MsgEqual, MsgMake, Zenon
    <3>3. \A x : M("ASSIGN", x) # M("TERMINATE", NULL)
      BY MsgEqual
    <3> QED
      BY <2>1, <3>1, <3>2, <3>3, SendMsg
  <2> QED
    BY <2>2, <2>3, Zenon
<1>3. MessagesOnce'
  BY <1>1, <1>2, Zenon DEF IInv, MessagesOnce
<1>4. TaskPlacement'
  BY <1>1, <1>2 DEF IInv, TypeOK, TaskPlacement, TaskWhere, WorkerHolds
<1>5. RequestPlacement'
  BY <1>1, <1>2, Zenon DEF IInv, TypeOK, RequestPlacement
<1>6. WakeupPlacement'
  BY <1>1, <1>2, SMTT(30)
     DEF IInv, TypeOK, TaskPlacement, TaskWhere, WorkerHolds, WakeupPlacement,
         WakeupInTransit
<1> QED
  BY <1>3, <1>4, <1>5, <1>6, Zenon DEF Placement

=============================================================================
