-------------------------- MODULE HrcWrapperProofs --------------------------
(***************************************************************************)
(* A wrapper context has one user at a time, for any number of tasks,      *)
(* contexts and threads that create wrapper tasks.                         *)
(***************************************************************************)
EXTENDS HrcWrapper, TLAPS

(* time limits of the two provers *)
USE SMTT(30), ZenonT(30)

-----------------------------------------------------------------------------
(* The inductive invariant *)

TaskStates == {"NONE", "CREATED", "READY", "RUNNING", "BLOCKED", "ZOMBIE", "DESTROYED"}
(* LpelTaskCreate() has returned the task, LpelTaskDestroy() has not freed it *)
Exists(t) == state[t] \notin {"NONE", "DESTROYED"}
(* The task is on its wrapper thread, between ASSIGN or WAKEUP and a block *)
OnThread(t) == state[t] \in {"READY", "RUNNING", "ZOMBIE"}
(* A message about t is justified *)
Expected(t) == state[t] = "CREATED" \/ sleeping[t] = "woken"
Note(y, t) == [type |-> y, task |-> t]

TypeInv ==
  /\ thread \in [Contexts -> {"none", "loop", "exit", "ended"}]
  /\ terminate \in [Contexts -> BOOLEAN]
  /\ current_task \in [Contexts -> Tasks \cup {NULL}]
  /\ known \subseteq Contexts
  /\ state \in [Tasks -> TaskStates]
  /\ ctx \in [Tasks -> Contexts \cup {NULL}]
  /\ sleeping \in [Tasks -> {"no", "announced", "woken"}]
  /\ creating \in [Creators -> Tasks \cup {NULL}]
  /\ cleanup \in {"no", "running", "done"}

(* A task has a context of its own, whose thread is in WrapperLoop() *)
TaskInv ==
  /\ \A t \in Tasks :
       /\ Exists(t) => ctx[t] \in Contexts /\ thread[ctx[t]] = "loop"
       /\ OnThread(t) => current_task[ctx[t]] = t
       /\ sleeping[t] # "no" => state[t] \in {"RUNNING", "BLOCKED"}
  /\ \A t, u \in Tasks : Exists(t) /\ Exists(u) /\ ctx[t] = ctx[u] => t = u

(* A thread runs the task of its context, and ends when that has exited *)
ThreadInv ==
  \A c \in Contexts : thread[c] = "loop" =>
    /\ current_task[c] # NULL => ctx[current_task[c]] = c /\ OnThread(current_task[c])
    /\ terminate[c] => current_task[c] # NULL /\ state[current_task[c]] = "ZOMBIE"

(* q is one message, about t *)
Holds(q, t) == \E y \in {"ASSIGN", "WAKEUP"} : q = <<Note(y, t)>>

(* At most one message is on the way to a thread, and it is about its task *)
MailInv ==
  /\ mailbox \in [Contexts -> Seq([type : {"ASSIGN", "WAKEUP"}, task : Tasks])]
  /\ \A c \in Contexts : mailbox[c] # <<>> =>
       \E t \in Tasks : Holds(mailbox[c], t) /\ ctx[t] = c /\ Expected(t)

(* Free contexts are those whose thread has ended; before the clean-up a     *)
(* context is known from its first use on                                    *)
FreeInv ==
  /\ freewrappers \in Seq(Contexts)
  /\ \A i, j \in DOMAIN freewrappers : freewrappers[i] = freewrappers[j] => i = j
  /\ \A i \in DOMAIN freewrappers : thread[freewrappers[i]] = "ended"
  /\ cleanup = "no" => \A c \in Contexts : thread[c] # "none" => c \in known

(* Each task is created by one thread, and before the clean-up *)
CreateInv ==
  /\ \A p \in Creators : creating[p] # NULL => state[creating[p]] = "NONE" /\ cleanup = "no"
  /\ \A p, q \in Creators : creating[p] = creating[q] /\ creating[p] # NULL => p = q

IInv == TypeInv /\ TaskInv /\ ThreadInv /\ MailInv /\ FreeInv /\ CreateInv

(* What is assumed of the constants *)
WrapConst == NULL \notin Tasks

-----------------------------------------------------------------------------
(* Messages *)

(* LpelMailboxSend() to an empty mailbox, and LpelMailboxRecv() of its       *)
(* only message.                                                             *)
LEMMA OneMessage ==
  ASSUME NEW t \in Tasks, NEW y \in {"ASSIGN", "WAKEUP"}
  PROVE  /\ Holds(Append(<<>>, Note(y, t)), t)
         /\ Append(<<>>, Note(y, t)) \in Seq([type : {"ASSIGN", "WAKEUP"}, task : Tasks])
<1>1. Note(y, t) \in [type : {"ASSIGN", "WAKEUP"}, task : Tasks]
  BY Zenon DEF Note
<1>2. Append(<<>>, Note(y, t)) = <<Note(y, t)>>
  OBVIOUS
<1> QED
  BY <1>1, <1>2 DEF Holds

(* A mailbox with one message is about one task. *)
LEMMA MessageTask ==
  ASSUME NEW q, NEW t \in Tasks, Holds(q, t)
  PROVE  Head(q).task = t /\ Tail(q) = <<>>
<1>1. PICK y \in {"ASSIGN", "WAKEUP"} : q = <<Note(y, t)>>
  BY Zenon DEF Holds
<1>2. Head(q) = Note(y, t) /\ Tail(q) = <<>>
  BY <1>1
<1> QED
  <2>1. Note(y, t).task = t
    BY Zenon DEF Note
  <2> QED
    BY <1>2, <2>1

(* A task that a message is about exists, and no other has its context. *)
LEMMA Addressee ==
  ASSUME IInv, NEW t \in Tasks, Expected(t)
  PROVE  Exists(t) /\ \A u \in Tasks : Exists(u) /\ ctx[u] = ctx[t] => u = t
<1>1. Exists(t)
  BY Zenon DEF IInv, TaskInv, Exists, Expected
<1> QED
  BY <1>1, Zenon DEF IInv, TaskInv

(* A step that sends and receives nothing, and after which every message is  *)
(* still expected, keeps the mailboxes.                                      *)
LEMMA MailSame ==
  ASSUME MailInv, UNCHANGED mailbox,
         \A t \in Tasks : Expected(t) => Expected(t)' /\ ctx'[t] = ctx[t]
  PROVE  MailInv'
  BY Zenon DEF MailInv

(* A message is sent to the context of a task that no message is about, and  *)
(* only to that one: its mailbox is empty before.                            *)
LEMMA MailSend ==
  ASSUME IInv, NEW t \in Tasks, NEW y \in {"ASSIGN", "WAKEUP"},
         Exists(t), mailbox[ctx[t]] = <<>>, Send(ctx[t], y, t),
         \A u \in Tasks : Expected(u) => Expected(u)', Expected(t)', UNCHANGED ctx
  PROVE  MailInv'
<1>1. ctx[t] \in Contexts
  BY Zenon DEF IInv, TaskInv
<1>2. mailbox \in [Contexts -> Seq([type : {"ASSIGN", "WAKEUP"}, task : Tasks])]
  BY Zenon DEF IInv, MailInv
<1>3. PICK q : q = Append(<<>>, Note(y, t))
  BY Zenon
<1>4. mailbox' = [mailbox EXCEPT ![ctx[t]] = q]
  BY <1>3, Zenon DEF Send, Note
<1>5. Holds(q, t) /\ q \in Seq([type : {"ASSIGN", "WAKEUP"}, task : Tasks])
  BY <1>3, OneMessage, Zenon
<1>6. ASSUME NEW c \in Contexts, mailbox'[c] # <<>>
      PROVE  \E u \in Tasks : Holds(mailbox'[c], u) /\ ctx'[u] = c /\ Expected(u)'
  <2>1. CASE c = ctx[t]
    BY <1>2, <1>4, <1>5, <2>1, Zenon
  <2>2. CASE c # ctx[t]
    BY <1>2, <1>4, <1>6, <2>2, Zenon DEF IInv, MailInv
  <2> QED
    BY <2>1, <2>2, Zenon
<1> QED
  BY <1>1, <1>2, <1>4, <1>5, <1>6, Zenon DEF MailInv

-----------------------------------------------------------------------------
(* Steps of the wrapper threads and their tasks *)

(* LpelTaskStart(): the task is assigned to its context. *)
LEMMA RunTaskInv ==
  ASSUME WrapConst, IInv, NEW t \in Tasks, LpelWorkerRunTask(t)
  PROVE  IInv'
<1>1. mailbox[ctx[t]] = <<>>
  <2> SUFFICES ASSUME mailbox[ctx[t]] # <<>> PROVE FALSE
    BY Zenon
  <2>1. Exists(t) /\ sleeping[t] = "no" /\ ctx[t] \in Contexts
    BY Zenon DEF IInv, TaskInv, Exists, LpelWorkerRunTask
  <2>2. PICK u \in Tasks : Holds(mailbox[ctx[t]], u) /\ ctx[u] = ctx[t] /\ Expected(u)
    BY <2>1, Zenon DEF IInv, MailInv
  <2>3. u = t
    BY <2>1, <2>2, Addressee, Zenon
  <2>4. \E i \in DOMAIN mailbox[ctx[t]] : mailbox[ctx[t]][i].task = t
    <3>1. PICK y \in {"ASSIGN", "WAKEUP"} : mailbox[ctx[t]] = <<Note(y, t)>>
      BY <2>2, <2>3, Zenon DEF Holds
    <3>2. 1 \in DOMAIN <<Note(y, t)>> /\ <<Note(y, t)>>[1] = Note(y, t)
      OBVIOUS
    <3>3. Note(y, t).task = t
      BY Zenon DEF Note
    <3> QED
      BY <3>1, <3>2, <3>3, Zenon
  <2> QED
    BY <2>1, <2>4, Zenon DEF LpelWorkerRunTask, Assigned
<1>2. MailInv'
  <2>1. Exists(t) /\ Send(ctx[t], "ASSIGN", t) /\ UNCHANGED ctx
    BY Zenon DEF IInv, TaskInv, Exists, LpelWorkerRunTask, cvars, tvars, pvars, evars
  <2>2. Expected(t)' /\ \A u \in Tasks : Expected(u) => Expected(u)'
    BY DEF IInv, TypeInv, Expected, LpelWorkerRunTask, cvars, tvars, pvars, evars
  <2> QED
    BY <1>1, <2>1, <2>2, MailSend, Zenon
<1>3. TypeInv'
  BY Zenon DEF IInv, TypeInv, TaskStates, LpelWorkerRunTask, cvars, tvars, pvars, evars
<1>4. TaskInv'
  BY Zenon
     DEF IInv, TaskInv, Exists, OnThread, LpelWorkerRunTask, cvars, tvars, pvars, evars
<1>5. ThreadInv'
  BY Zenon DEF IInv, ThreadInv, OnThread, LpelWorkerRunTask, cvars, tvars, pvars, evars
<1>6. MailInv'
  BY <1>2, Zenon
<1>7. FreeInv'
  BY Zenon DEF IInv, FreeInv, LpelWorkerRunTask, cvars, tvars, pvars, evars
<1>8. CreateInv'
  BY Zenon DEF IInv, CreateInv, LpelWorkerRunTask, cvars, tvars, pvars, evars
<1> QED
  BY <1>3, <1>4, <1>5, <1>6, <1>7, <1>8, Zenon DEF IInv

(* LpelWorkerTaskWakeup(): a task that has announced its wait is woken once. *)
LEMMA WakeupInv ==
  ASSUME WrapConst, IInv, NEW t \in Tasks, LpelWorkerTaskWakeup(t)
  PROVE  IInv'
<1>1. mailbox[ctx[t]] = <<>>
  <2> SUFFICES ASSUME mailbox[ctx[t]] # <<>> PROVE FALSE
    BY Zenon
  <2>1. Exists(t) /\ ~Expected(t) /\ ctx[t] \in Contexts
    BY Zenon DEF IInv, TaskInv, Exists, Expected, LpelWorkerTaskWakeup
  <2>2. PICK u \in Tasks : Holds(mailbox[ctx[t]], u) /\ ctx[u] = ctx[t] /\ Expected(u)
    BY <2>1, Zenon DEF IInv, MailInv
  <2>3. u = t
    BY <2>1, <2>2, Addressee, Zenon
  <2> QED
    BY <2>1, <2>2, <2>3, Zenon
<1>2. MailInv'
  <2>1. Exists(t) /\ Send(ctx[t], "WAKEUP", t) /\ UNCHANGED ctx
    BY Zenon DEF IInv, TaskInv, Exists, LpelWorkerTaskWakeup, cvars, tvars, pvars, evars
  <2>2. Expected(t)' /\ \A u \in Tasks : Expected(u) => Expected(u)'
    BY DEF IInv, TypeInv, Expected, LpelWorkerTaskWakeup, cvars, tvars, pvars, evars
  <2> QED
    BY <1>1, <2>1, <2>2, MailSend, Zenon
<1>3. TypeInv'
  BY Zenon DEF IInv, TypeInv, TaskStates, LpelWorkerTaskWakeup, cvars, tvars, pvars, evars
<1>4. TaskInv'
  BY
     DEF WrapConst, IInv, TypeInv, TaskStates, TaskInv, Exists, OnThread, ThreadInv,
         LpelWorkerTaskWakeup, cvars, tvars, pvars, evars
<1>5. ThreadInv'
  BY Zenon DEF IInv, ThreadInv, OnThread, LpelWorkerTaskWakeup, cvars, tvars, pvars, evars
<1>6. MailInv'
  BY <1>2, Zenon
<1>7. FreeInv'
  BY Zenon DEF IInv, FreeInv, LpelWorkerTaskWakeup, cvars, tvars, pvars, evars
<1>8. CreateInv'
  BY Zenon DEF IInv, CreateInv, LpelWorkerTaskWakeup, cvars, tvars, pvars, evars
<1> QED
  BY <1>3, <1>4, <1>5, <1>6, <1>7, <1>8, Zenon DEF IInv

(* WrapperLoop() receives the message about its task: CREATED or BLOCKED. *)
LEMMA RecvInv ==
  ASSUME WrapConst, IInv, NEW c \in Contexts, WrapperLoopRecv(c)
  PROVE  IInv'
<1>1. PICK t \in Tasks : Holds(mailbox[c], t) /\ ctx[t] = c /\ Expected(t)
  BY Zenon DEF IInv, MailInv, WrapperLoopRecv
<1>2. /\ thread[c] = "loop" /\ ~terminate[c] /\ current_task[c] = NULL
      /\ state' = [state EXCEPT ![t] = "READY"]
      /\ sleeping' = [sleeping EXCEPT ![t] = "no"]
      /\ current_task' = [current_task EXCEPT ![c] = t]
      /\ mailbox' = [mailbox EXCEPT ![c] = <<>>]
      /\ UNCHANGED <<thread, terminate, known, ctx, freewrappers, creating, cleanup>>
  BY <1>1, MessageTask, Zenon DEF WrapperLoopRecv, InLoop, cvars, tvars, pvars, evars
<1>3. TypeInv'
  BY <1>1, <1>2, Zenon DEF IInv, TypeInv, TaskStates
<1>4. TaskInv'
  BY <1>1, <1>2
     DEF WrapConst, IInv, TypeInv, TaskStates, TaskInv, Exists, OnThread, ThreadInv,
         Expected
<1>5. ThreadInv'
  BY <1>1, <1>2
     DEF WrapConst, IInv, TypeInv, TaskStates, TaskInv, Exists, OnThread, ThreadInv,
         Expected
<1>6. MailInv'
  <2>1. <<>> \in Seq([type : {"ASSIGN", "WAKEUP"}, task : Tasks])
    OBVIOUS
  <2>2. mailbox' \in [Contexts -> Seq([type : {"ASSIGN", "WAKEUP"}, task : Tasks])]
    BY <1>2, <2>1, Zenon DEF IInv, MailInv
  <2> SUFFICES ASSUME NEW b \in Contexts, mailbox'[b] # <<>>
               PROVE  \E u \in Tasks : Holds(mailbox'[b], u) /\ ctx'[u] = b /\ Expected(u)'
    BY <2>2, Zenon DEF MailInv
  <2>3. b # c /\ mailbox'[b] = mailbox[b]
    BY <1>2, Zenon DEF IInv, MailInv
  <2>4. PICK u \in Tasks : Holds(mailbox[b], u) /\ ctx[u] = b /\ Expected(u)
    BY <2>3, Zenon DEF IInv, MailInv
  <2>5. Expected(u)' /\ ctx'[u] = b
    BY <1>1, <1>2, <2>3, <2>4 DEF IInv, TypeInv, Expected
  <2> QED
    BY <2>3, <2>4, <2>5, Zenon
<1>7. FreeInv'
  BY Zenon DEF IInv, FreeInv, WrapperLoopRecv, InLoop, cvars, tvars, pvars, evars
<1>8. CreateInv'
  BY <1>1, <1>2 DEF WrapConst, IInv, TypeInv, TaskStates, TaskInv, CreateInv, Expected
<1> QED
  BY <1>3, <1>4, <1>5, <1>6, <1>7, <1>8, Zenon DEF IInv

(* WrapperLoop() switches to its task. *)
LEMMA SwitchInv ==
  ASSUME WrapConst, IInv, NEW c \in Contexts, WrapperLoopSwitch(c)
  PROVE  IInv'
<1>1. TypeInv'
  BY Zenon
     DEF IInv, TypeInv, TaskStates, WrapperLoopSwitch, InLoop, cvars, tvars, pvars,
         evars
<1>2. TaskInv'
  BY
     DEF WrapConst, IInv, TypeInv, TaskStates, TaskInv, Exists, OnThread, ThreadInv,
         WrapperLoopSwitch, InLoop, cvars, tvars, pvars, evars
<1>3. ThreadInv'
  BY
     DEF WrapConst, IInv, TypeInv, TaskStates, TaskInv, Exists, OnThread, ThreadInv,
         WrapperLoopSwitch, InLoop, cvars, tvars, pvars, evars
<1>4. MailInv'
  <2>1. \A u \in Tasks : Expected(u) => Expected(u)' /\ ctx'[u] = ctx[u]
    BY
       DEF IInv, TypeInv, TaskStates, TaskInv, Exists, OnThread, ThreadInv, Expected,
           WrapperLoopSwitch, InLoop, cvars, tvars, pvars, evars
  <2>2. UNCHANGED mailbox
    BY Zenon DEF WrapperLoopSwitch, InLoop, cvars, tvars, pvars, evars
  <2> QED
    BY <2>1, <2>2, MailSame, Zenon DEF IInv
<1>5. FreeInv'
  BY Zenon DEF IInv, FreeInv, WrapperLoopSwitch, InLoop, cvars, tvars, pvars, evars
<1>6. CreateInv'
  BY
     DEF WrapConst, IInv, TypeInv, TaskStates, CreateInv, WrapperLoopSwitch, InLoop,
         cvars, tvars, pvars, evars
<1> QED
  BY <1>1, <1>2, <1>3, <1>4, <1>5, <1>6, Zenon DEF IInv

(* A task shows that it is going to wait. *)
LEMMA AnnounceInv ==
  ASSUME WrapConst, IInv, NEW t \in Tasks, Announce(t)
  PROVE  IInv'
<1>1. TypeInv'
  BY Zenon DEF IInv, TypeInv, TaskStates, Announce, cvars, tvars, pvars, evars
<1>2. TaskInv'
  BY
     DEF WrapConst, IInv, TypeInv, TaskStates, TaskInv, Exists, OnThread, ThreadInv,
         Announce, cvars, tvars, pvars, evars
<1>3. ThreadInv'
  BY Zenon DEF IInv, ThreadInv, OnThread, Announce, cvars, tvars, pvars, evars
<1>4. MailInv'
  <2>1. \A u \in Tasks : Expected(u) => Expected(u)' /\ ctx'[u] = ctx[u]
    BY
       DEF IInv, TypeInv, TaskStates, TaskInv, Exists, OnThread, ThreadInv, Expected,
           Announce, cvars, tvars, pvars, evars
  <2>2. UNCHANGED mailbox
    BY Zenon DEF Announce, cvars, tvars, pvars, evars
  <2> QED
    BY <2>1, <2>2, MailSame, Zenon DEF IInv
<1>5. FreeInv'
  BY Zenon DEF IInv, FreeInv, Announce, cvars, tvars, pvars, evars
<1>6. CreateInv'
  BY Zenon DEF IInv, CreateInv, Announce, cvars, tvars, pvars, evars
<1> QED
  BY <1>1, <1>2, <1>3, <1>4, <1>5, <1>6, Zenon DEF IInv

(* LpelWorkerTaskBlock(): the thread is without a task. *)
LEMMA BlockInv ==
  ASSUME WrapConst, IInv, NEW t \in Tasks, LpelWorkerTaskBlock(t)
  PROVE  IInv'
<1>1. TypeInv'
  BY Zenon DEF IInv, TypeInv, TaskStates, LpelWorkerTaskBlock, cvars, tvars, pvars, evars
<1>2. TaskInv'
  BY
     DEF WrapConst, IInv, TypeInv, TaskStates, TaskInv, Exists, OnThread, ThreadInv,
         LpelWorkerTaskBlock, cvars, tvars, pvars, evars
<1>3. ThreadInv'
  BY
     DEF WrapConst, IInv, TypeInv, TaskStates, TaskInv, Exists, OnThread, ThreadInv,
         LpelWorkerTaskBlock, cvars, tvars, pvars, evars
<1>4. MailInv'
  <2>1. \A u \in Tasks : Expected(u) => Expected(u)' /\ ctx'[u] = ctx[u]
    BY
       DEF IInv, TypeInv, TaskStates, TaskInv, Exists, OnThread, ThreadInv, Expected,
           LpelWorkerTaskBlock, cvars, tvars, pvars, evars
  <2>2. UNCHANGED mailbox
    BY Zenon DEF LpelWorkerTaskBlock, cvars, tvars, pvars, evars
  <2> QED
    BY <2>1, <2>2, MailSame, Zenon DEF IInv
<1>5. FreeInv'
  BY Zenon DEF IInv, FreeInv, LpelWorkerTaskBlock, cvars, tvars, pvars, evars
<1>6. CreateInv'
  BY
     DEF WrapConst, IInv, TypeInv, TaskStates, CreateInv, LpelWorkerTaskBlock, cvars,
         tvars, pvars, evars
<1> QED
  BY <1>1, <1>2, <1>3, <1>4, <1>5, <1>6, Zenon DEF IInv

(* LpelWorkerTaskYield(): the task stays on its thread. *)
LEMMA YieldInv ==
  ASSUME WrapConst, IInv, NEW t \in Tasks, LpelWorkerTaskYield(t)
  PROVE  IInv'
<1>1. TypeInv'
  BY Zenon DEF IInv, TypeInv, TaskStates, LpelWorkerTaskYield, cvars, tvars, pvars, evars
<1>2. TaskInv'
  BY
     DEF WrapConst, IInv, TypeInv, TaskStates, TaskInv, Exists, OnThread, ThreadInv,
         LpelWorkerTaskYield, cvars, tvars, pvars, evars
<1>3. ThreadInv'
  BY
     DEF WrapConst, IInv, TypeInv, TaskStates, TaskInv, Exists, OnThread, ThreadInv,
         LpelWorkerTaskYield, cvars, tvars, pvars, evars
<1>4. MailInv'
  <2>1. \A u \in Tasks : Expected(u) => Expected(u)' /\ ctx'[u] = ctx[u]
    BY
       DEF IInv, TypeInv, TaskStates, TaskInv, Exists, OnThread, ThreadInv, Expected,
           LpelWorkerTaskYield, cvars, tvars, pvars, evars
  <2>2. UNCHANGED mailbox
    BY Zenon DEF LpelWorkerTaskYield, cvars, tvars, pvars, evars
  <2> QED
    BY <2>1, <2>2, MailSame, Zenon DEF IInv
<1>5. FreeInv'
  BY Zenon DEF IInv, FreeInv, LpelWorkerTaskYield, cvars, tvars, pvars, evars
<1>6. CreateInv'
  BY
     DEF WrapConst, IInv, TypeInv, TaskStates, CreateInv, LpelWorkerTaskYield, cvars,
         tvars, pvars, evars
<1> QED
  BY <1>1, <1>2, <1>3, <1>4, <1>5, <1>6, Zenon DEF IInv

(* LpelWorkerTaskExit(): the thread is told to leave its loop. *)
LEMMA ExitInv ==
  ASSUME WrapConst, IInv, NEW t \in Tasks, LpelWorkerTaskExit(t)
  PROVE  IInv'
<1>1. TypeInv'
  BY Zenon DEF IInv, TypeInv, TaskStates, LpelWorkerTaskExit, cvars, tvars, pvars, evars
<1>2. TaskInv'
  BY
     DEF WrapConst, IInv, TypeInv, TaskStates, TaskInv, Exists, OnThread, ThreadInv,
         LpelWorkerTaskExit, cvars, tvars, pvars, evars
<1>3. ThreadInv'
  BY
     DEF WrapConst, IInv, TypeInv, TaskStates, TaskInv, Exists, OnThread, ThreadInv,
         LpelWorkerTaskExit, cvars, tvars, pvars, evars
<1>4. MailInv'
  <2>1. \A u \in Tasks : Expected(u) => Expected(u)' /\ ctx'[u] = ctx[u]
    BY
       DEF IInv, TypeInv, TaskStates, TaskInv, Exists, OnThread, ThreadInv, Expected,
           LpelWorkerTaskExit, cvars, tvars, pvars, evars
  <2>2. UNCHANGED mailbox
    BY Zenon DEF LpelWorkerTaskExit, cvars, tvars, pvars, evars
  <2> QED
    BY <2>1, <2>2, MailSame, Zenon DEF IInv
<1>5. FreeInv'
  BY Zenon DEF IInv, FreeInv, LpelWorkerTaskExit, cvars, tvars, pvars, evars
<1>6. CreateInv'
  BY
     DEF WrapConst, IInv, TypeInv, TaskStates, CreateInv, LpelWorkerTaskExit, cvars,
         tvars, pvars, evars
<1> QED
  BY <1>1, <1>2, <1>3, <1>4, <1>5, <1>6, Zenon DEF IInv

(* The end of WrapperLoop(): the context is left without a task. *)
LEMMA EndInv ==
  ASSUME WrapConst, IInv, NEW c \in Contexts, WrapperLoopEnd(c)
  PROVE  IInv'
<1>1. TypeInv'
  BY Zenon DEF IInv, TypeInv, TaskStates, WrapperLoopEnd, cvars, tvars, pvars, evars
<1>2. TaskInv'
  BY
     DEF WrapConst, IInv, TypeInv, TaskStates, TaskInv, Exists, OnThread, ThreadInv,
         WrapperLoopEnd, cvars, tvars, pvars, evars
<1>3. ThreadInv'
  BY
     DEF WrapConst, IInv, TypeInv, TaskStates, TaskInv, Exists, OnThread, ThreadInv,
         WrapperLoopEnd, cvars, tvars, pvars, evars
<1>4. MailInv'
  <2>1. \A u \in Tasks : Expected(u) => Expected(u)' /\ ctx'[u] = ctx[u]
    BY
       DEF IInv, TypeInv, TaskStates, TaskInv, Exists, OnThread, ThreadInv, Expected,
           WrapperLoopEnd, cvars, tvars, pvars, evars
  <2>2. UNCHANGED mailbox
    BY Zenon DEF WrapperLoopEnd, cvars, tvars, pvars, evars
  <2> QED
    BY <2>1, <2>2, MailSame, Zenon DEF IInv
<1>5. FreeInv'
  BY DEF IInv, TypeInv, FreeInv, WrapperLoopEnd, cvars, tvars, pvars, evars
<1>6. CreateInv'
  <2>1. current_task[c] \in Tasks /\ state[current_task[c]] = "ZOMBIE"
    <3>1. current_task[c] \in Tasks \cup {NULL}
      BY Zenon DEF IInv, TypeInv
    <3>2. thread[c] = "loop" /\ terminate[c]
      BY Zenon DEF WrapperLoopEnd
    <3>3. current_task[c] # NULL /\ state[current_task[c]] = "ZOMBIE"
      BY <3>2, Zenon DEF IInv, ThreadInv
    <3> QED
      BY <3>1, <3>3, Zenon
  <2> QED
    BY <2>1
       DEF WrapConst, IInv, TypeInv, CreateInv, WrapperLoopEnd, cvars, tvars, pvars,
           evars
<1> QED
  BY <1>1, <1>2, <1>3, <1>4, <1>5, <1>6, Zenon DEF IInv

(* addFreeWrapper(): a context in no list and without a task is put in front. *)
LEMMA AddFreeInv ==
  ASSUME WrapConst, IInv, NEW c \in Contexts, addFreeWrapper(c)
  PROVE  IInv'
<1>1. TypeInv'
  BY Zenon DEF IInv, TypeInv, TaskStates, addFreeWrapper, cvars, tvars, pvars, evars
<1>2. TaskInv'
  BY
     DEF WrapConst, IInv, TypeInv, TaskStates, TaskInv, Exists, OnThread, ThreadInv,
         addFreeWrapper, cvars, tvars, pvars, evars
<1>3. ThreadInv'
  BY
     DEF WrapConst, IInv, TypeInv, TaskStates, TaskInv, Exists, OnThread, ThreadInv,
         addFreeWrapper, cvars, tvars, pvars, evars
<1>4. MailInv'
  <2>1. \A u \in Tasks : Expected(u) => Expected(u)' /\ ctx'[u] = ctx[u]
    BY
       DEF IInv, TypeInv, TaskStates, TaskInv, Exists, OnThread, ThreadInv, Expected,
           addFreeWrapper, cvars, tvars, pvars, evars
  <2>2. UNCHANGED mailbox
    BY Zenon DEF addFreeWrapper, cvars, tvars, pvars, evars
  <2> QED
    BY <2>1, <2>2, MailSame, Zenon DEF IInv
<1>5. FreeInv'
  BY DEF IInv, TypeInv, FreeInv, addFreeWrapper, cvars, tvars, pvars, evars
<1>6. CreateInv'
  BY Zenon DEF IInv, CreateInv, addFreeWrapper, cvars, tvars, pvars, evars
<1> QED
  BY <1>1, <1>2, <1>3, <1>4, <1>5, <1>6, Zenon DEF IInv

-----------------------------------------------------------------------------
(* Creation and clean-up *)

(* LpelWorkersCleanup() begins when nobody creates a wrapper. *)
LEMMA CleanupInv ==
  ASSUME WrapConst, IInv, LpelWorkersCleanup
  PROVE  IInv'
<1>1. TypeInv'
  BY Zenon DEF IInv, TypeInv, TaskStates, LpelWorkersCleanup, cvars, tvars, pvars, evars
<1>2. TaskInv'
  <2>1. UNCHANGED <<thread, current_task, state, ctx, sleeping>>
    BY Zenon DEF LpelWorkersCleanup, cvars, tvars
  <2> QED
    BY <2>1, Zenon DEF IInv, TaskInv, Exists, OnThread
<1>3. ThreadInv'
  BY Zenon DEF IInv, ThreadInv, OnThread, LpelWorkersCleanup, cvars, tvars, pvars, evars
<1>4. MailInv'
  <2>1. UNCHANGED <<mailbox, state, sleeping, ctx>>
    BY Zenon DEF LpelWorkersCleanup, cvars, tvars, pvars, evars
  <2> QED
    BY <2>1, MailSame, Zenon DEF IInv, Expected
<1>5. FreeInv'
  BY Zenon DEF IInv, FreeInv, LpelWorkersCleanup, cvars, tvars, pvars, evars
<1>6. CreateInv'
  BY Zenon DEF IInv, CreateInv, LpelWorkersCleanup, cvars, tvars, pvars, evars
<1> QED
  BY <1>1, <1>2, <1>3, <1>4, <1>5, <1>6, Zenon DEF IInv

(* cleanupLocalVar() frees contexts that nobody will ask for. *)
LEMMA FreeContextsInv ==
  ASSUME WrapConst, IInv, cleanupLocalVar
  PROVE  IInv'
<1>1. TypeInv'
  BY Zenon DEF IInv, TypeInv, TaskStates, cleanupLocalVar, cvars, tvars, pvars, evars
<1>2. TaskInv'
  BY Zenon
     DEF IInv, TaskInv, Exists, OnThread, cleanupLocalVar, cvars, tvars, pvars, evars
<1>3. ThreadInv'
  BY Zenon DEF IInv, ThreadInv, OnThread, cleanupLocalVar, cvars, tvars, pvars, evars
<1>4. MailInv'
  <2>1. UNCHANGED <<mailbox, state, sleeping, ctx>>
    BY Zenon DEF cleanupLocalVar, cvars, tvars, pvars, evars
  <2> QED
    BY <2>1, MailSame, Zenon DEF IInv, Expected
<1>5. FreeInv'
  BY Zenon DEF IInv, FreeInv, cleanupLocalVar, cvars, tvars, pvars, evars
<1>6. CreateInv'
  BY Zenon DEF IInv, CreateInv, cleanupLocalVar, cvars, tvars, pvars, evars
<1> QED
  BY <1>1, <1>2, <1>3, <1>4, <1>5, <1>6, Zenon DEF IInv

(* getFreeWrapper() before the lock: the list has a context. *)
LEMMA SeeFreeInv ==
  ASSUME WrapConst, IInv, NEW p \in Creators, NEW t \in Tasks,
         freewrappers # <<>>, LpelCreateWrapperContext(p, t)
  PROVE  IInv'
<1>1. /\ creating[p] = NULL /\ state[t] = "NONE" /\ cleanup = "no"
      /\ \A q \in Creators : creating[q] # t
      /\ creating' = [creating EXCEPT ![p] = t]
      /\ UNCHANGED <<freewrappers, thread, terminate, current_task, mailbox, known, state, ctx,
                      sleeping, cleanup>>
  BY Zenon DEF LpelCreateWrapperContext, cvars, tvars, pvars, evars
<1>2. TypeInv'
  BY <1>1, Zenon DEF IInv, TypeInv, TaskStates
<1>3. TaskInv'
  BY <1>1, Zenon DEF IInv, TaskInv, Exists, OnThread
<1>4. ThreadInv'
  BY <1>1, Zenon DEF IInv, ThreadInv, OnThread
<1>5. MailInv'
  BY <1>1, MailSame, Zenon DEF IInv, Expected
<1>6. FreeInv'
  BY <1>1, Zenon DEF IInv, FreeInv
<1>7. CreateInv'
  BY <1>1 DEF WrapConst, IInv, TypeInv, CreateInv
<1> QED
  BY <1>2, <1>3, <1>4, <1>5, <1>6, <1>7, Zenon DEF IInv

(* A new task gets a context whose thread does not run: the end of            *)
(* LpelCreateWrapperContext().                                               *)
LEMMA NewContextInv ==
  ASSUME WrapConst, IInv, NEW p \in Creators, NEW t \in Tasks, NEW c \in Contexts,
         state[t] = "NONE", thread[c] \in {"none", "ended"}, NewContext(p, t, c)
  PROVE  /\ TaskInv' /\ ThreadInv' /\ MailInv'
         /\ (creating' \in [Creators -> Tasks \cup {NULL}] /\ UNCHANGED cleanup) => TypeInv'
<1>1. TaskInv'
  BY
     DEF WrapConst, IInv, TypeInv, TaskStates, TaskInv, Exists, OnThread, ThreadInv,
         NewContext
<1>2. ThreadInv'
  BY
     DEF WrapConst, IInv, TypeInv, TaskStates, TaskInv, Exists, OnThread, ThreadInv,
         NewContext
<1>3. MailInv'
  <2>1. \A u \in Tasks : Expected(u) => Expected(u)' /\ ctx'[u] = ctx[u]
    <3>1. ~Expected(t)
      BY Addressee, Zenon DEF Exists
    <3> QED
      BY <3>1 DEF IInv, TypeInv, Expected, NewContext
  <2> QED
    BY <2>1, MailSame, Zenon DEF IInv, NewContext
<1>4. (creating' \in [Creators -> Tasks \cup {NULL}] /\ UNCHANGED cleanup) => TypeInv'
  BY Zenon DEF IInv, TypeInv, TaskStates, NewContext
<1> QED
  BY <1>1, <1>2, <1>3, <1>4, Zenon

(* An empty list: LpelCreateWrapperContext() makes a new context. *)
LEMMA MallocInv ==
  ASSUME WrapConst, IInv, NEW p \in Creators, NEW t \in Tasks,
         freewrappers = <<>>, LpelCreateWrapperContext(p, t)
  PROVE  IInv'
<1>1. PICK c \in Contexts \ known : NewContext(p, t, c)
  BY Zenon DEF LpelCreateWrapperContext
<1>2. /\ state[t] = "NONE" /\ cleanup = "no" /\ \A q \in Creators : creating[q] # t
      /\ UNCHANGED <<freewrappers, creating, cleanup>>
  BY Zenon DEF LpelCreateWrapperContext, pvars, evars
<1>3. thread[c] = "none"
  BY <1>2, Zenon DEF IInv, FreeInv
<1>4. TypeInv' /\ TaskInv' /\ ThreadInv' /\ MailInv'
  BY <1>1, <1>2, <1>3, NewContextInv, Zenon DEF IInv, TypeInv
<1>5. FreeInv'
  BY <1>1, <1>2, <1>3 DEF IInv, TypeInv, FreeInv, NewContext
<1>6. CreateInv'
  BY <1>1, <1>2 DEF WrapConst, IInv, TypeInv, CreateInv, NewContext
<1> QED
  BY <1>4, <1>5, <1>6, Zenon DEF IInv

(* getFreeWrapper() under the lock: the first free context is taken. *)
LEMMA GetFreeInv ==
  ASSUME WrapConst, IInv, NEW p \in Creators, freewrappers # <<>>, getFreeWrapper(p)
  PROVE  IInv'
<1>1. PICK t, c : t = creating[p] /\ c = Head(freewrappers)
  BY Zenon
<1>2. /\ NewContext(p, t, c) /\ freewrappers' = Tail(freewrappers)
      /\ creating' = [creating EXCEPT ![p] = NULL] /\ t # NULL /\ UNCHANGED cleanup
  BY <1>1, Zenon DEF getFreeWrapper, evars
<1>3. t \in Tasks /\ state[t] = "NONE" /\ cleanup = "no"
  BY <1>1, <1>2, Zenon DEF IInv, TypeInv, CreateInv
<1>4. freewrappers \in Seq(Contexts)
  BY Zenon DEF IInv, FreeInv
<1>5. /\ 1 \in DOMAIN freewrappers /\ c = freewrappers[1] /\ c \in Contexts
      /\ Tail(freewrappers) \in Seq(Contexts)
      /\ \A i \in DOMAIN Tail(freewrappers) :
           i + 1 \in DOMAIN freewrappers /\ Tail(freewrappers)[i] = freewrappers[i + 1]
      /\ \A i \in DOMAIN Tail(freewrappers) : i \in Nat /\ i # 0
  BY <1>1, <1>4
<1>6. thread[c] = "ended"
  BY <1>5, Zenon DEF IInv, FreeInv
<1>7. TypeInv' /\ TaskInv' /\ ThreadInv' /\ MailInv'
  <2>1. creating' \in [Creators -> Tasks \cup {NULL}]
    BY <1>2, Zenon DEF IInv, TypeInv
  <2> QED
    BY <2>1, <1>2, <1>3, <1>5, <1>6, NewContextInv, Zenon
<1>8. FreeInv'
  <2>1. ASSUME NEW i \in DOMAIN freewrappers'
        PROVE  freewrappers'[i] # c /\ thread'[freewrappers'[i]] = "ended"
    <3>1. /\ i + 1 \in DOMAIN freewrappers /\ freewrappers'[i] = freewrappers[i + 1]
          /\ i + 1 # 1
      BY <1>2, <1>5, <2>1
    <3>2. freewrappers[i + 1] # c
      BY <1>5, <3>1, Zenon DEF IInv, FreeInv
    <3>3. thread[freewrappers[i + 1]] = "ended" /\ freewrappers[i + 1] \in Contexts
      <4>1. thread[freewrappers[i + 1]] = "ended"
        BY <3>1, Zenon DEF IInv, FreeInv
      <4> QED
        BY <4>1, <3>1, <1>4
    <3> QED
      BY <1>2, <3>1, <3>2, <3>3, Zenon DEF IInv, TypeInv, NewContext
  <2>2. ASSUME NEW i \in DOMAIN freewrappers', NEW j \in DOMAIN freewrappers',
               freewrappers'[i] = freewrappers'[j]
        PROVE  i = j
    <3>1. /\ i + 1 \in DOMAIN freewrappers /\ freewrappers'[i] = freewrappers[i + 1]
          /\ j + 1 \in DOMAIN freewrappers /\ freewrappers'[j] = freewrappers[j + 1]
      BY <1>2, <1>5, <2>2, Zenon
    <3>2. i + 1 = j + 1
      BY <2>2, <3>1, Zenon DEF IInv, FreeInv
    <3> QED
      BY <1>2, <1>5, <3>2
  <2>3. \A b \in Contexts : thread'[b] # "none" => b \in known'
    BY <1>2, <1>3, <1>6 DEF IInv, TypeInv, FreeInv, NewContext
  <2> QED
    BY <1>2, <1>5, <2>1, <2>2, <2>3, Zenon DEF FreeInv
<1>9. CreateInv'
  BY <1>1, <1>2 DEF WrapConst, IInv, TypeInv, CreateInv, NewContext
<1> QED
  BY <1>7, <1>8, <1>9, Zenon DEF IInv

(* getFreeWrapper() under the lock: another creator has taken the last       *)
(* context, and a new one is made.                                           *)
LEMMA GetNoneInv ==
  ASSUME WrapConst, IInv, NEW p \in Creators, freewrappers = <<>>, getFreeWrapper(p)
  PROVE  IInv'
<1>1. PICK t : t = creating[p]
  BY Zenon
<1>2. PICK c \in Contexts \ known : NewContext(p, t, c)
  BY <1>1, Zenon DEF getFreeWrapper
<1>3. /\ t # NULL /\ creating' = [creating EXCEPT ![p] = NULL]
      /\ UNCHANGED <<freewrappers, cleanup>>
  BY <1>1, Zenon DEF getFreeWrapper, evars
<1>4. t \in Tasks /\ state[t] = "NONE" /\ cleanup = "no"
  BY <1>1, <1>3, Zenon DEF IInv, TypeInv, CreateInv
<1>5. thread[c] = "none"
  BY <1>4, Zenon DEF IInv, FreeInv
<1>6. TypeInv' /\ TaskInv' /\ ThreadInv' /\ MailInv'
  <2>1. creating' \in [Creators -> Tasks \cup {NULL}]
    BY <1>3, Zenon DEF IInv, TypeInv
  <2> QED
    BY <2>1, <1>2, <1>3, <1>4, <1>5, NewContextInv, Zenon
<1>7. FreeInv'
  BY <1>2, <1>3, <1>4, <1>5 DEF IInv, TypeInv, FreeInv, NewContext
<1>8. CreateInv'
  BY <1>1, <1>2, <1>3 DEF WrapConst, IInv, TypeInv, CreateInv, NewContext
<1> QED
  BY <1>6, <1>7, <1>8, Zenon DEF IInv

-----------------------------------------------------------------------------
(* Every step, and the property *)

(* initLocalVar(): no context, no task. *)
LEMMA InitIInv == Init => IInv
<1> SUFFICES ASSUME Init PROVE IInv
  BY Zenon
<1>1. <<>> \in Seq(Contexts) /\ <<>> \in Seq([type : {"ASSIGN", "WAKEUP"}, task : Tasks])
  OBVIOUS
<1>2. TypeInv /\ TaskInv /\ ThreadInv
  BY Zenon DEF Init, TypeInv, TaskStates, TaskInv, Exists, OnThread, ThreadInv
<1>3. MailInv
  BY <1>1, Zenon DEF Init, MailInv
<1>4. FreeInv
  BY <1>1 DEF Init, FreeInv
<1>5. CreateInv
  BY Zenon DEF Init, CreateInv
<1> QED
  BY <1>2, <1>3, <1>4, <1>5, Zenon DEF IInv

(* Every step of the threads, tasks and creators keeps the invariant. *)
LEMMA StepIInv == WrapConst /\ IInv /\ [Next]_vars => IInv'
<1> SUFFICES ASSUME WrapConst, IInv, [Next]_vars PROVE IInv'
  BY Zenon
<1>1. CASE UNCHANGED vars
  <2>1. UNCHANGED <<freewrappers, thread, terminate, current_task, mailbox, known, state, ctx,
                    sleeping, creating, cleanup>>
    BY <1>1, Zenon DEF vars, cvars, tvars, pvars, evars
  <2>2. MailInv'
    BY <2>1, MailSame, Zenon DEF IInv, Expected
  <2>3. TypeInv' /\ TaskInv' /\ ThreadInv'
    <3>1. TypeInv'
      BY <2>1, Zenon DEF IInv, TypeInv
    <3>2. TaskInv'
      BY <2>1, Zenon DEF IInv, TaskInv, Exists, OnThread
    <3>3. ThreadInv'
      BY <2>1, Zenon DEF IInv, ThreadInv, OnThread
    <3> QED
      BY <3>1, <3>2, <3>3, Zenon
  <2>4. FreeInv' /\ CreateInv'
    BY <2>1, Zenon DEF IInv, FreeInv, CreateInv
  <2> QED
    BY <2>2, <2>3, <2>4, Zenon DEF IInv
<1>2. ASSUME NEW p \in Creators, NEW t \in Tasks, LpelCreateWrapperContext(p, t) PROVE IInv'
  BY <1>2, SeeFreeInv, MallocInv, Zenon
<1>3. ASSUME NEW p \in Creators, getFreeWrapper(p) PROVE IInv'
  BY <1>3, GetFreeInv, GetNoneInv, Zenon
<1>4. ASSUME NEW t \in Tasks, LpelWorkerRunTask(t) \/ TaskStep(t) \/ LpelWorkerTaskWakeup(t)
      PROVE  IInv'
  BY <1>4, RunTaskInv, AnnounceInv, BlockInv, YieldInv, ExitInv, WakeupInv, Zenon
     DEF TaskStep
<1>5. ASSUME NEW c \in Contexts, ThreadStep(c) PROVE IInv'
  BY <1>5, RecvInv, SwitchInv, EndInv, AddFreeInv, Zenon DEF ThreadStep
<1>6. CASE LpelWorkersCleanup \/ cleanupLocalVar
  BY <1>6, CleanupInv, FreeContextsInv, Zenon
<1> QED
  BY <1>1, <1>2, <1>3, <1>4, <1>5, <1>6, Zenon DEF Next

(* A context belongs to one task, or it is free and its thread has ended. *)
LEMMA IInvOneUser == IInv => OneUser
<1> SUFFICES ASSUME IInv PROVE OneUser
  BY Zenon
<1>1. IsInjective(freewrappers)
  BY Zenon DEF IInv, FreeInv, IsInjective
<1>2. ASSUME NEW c \in Contexts PROVE \A t, u \in Owners(c) : t = u
  <2>1. \A t, u \in Tasks : Exists(t) /\ Exists(u) /\ ctx[t] = ctx[u] => t = u
    BY Zenon DEF IInv, TaskInv
  <2> QED
    BY <2>1, Zenon DEF Exists, Owners
<1>3. ASSUME NEW c \in Contexts, c \in Range(freewrappers), cleanup = "no"
      PROVE  Owners(c) = {} /\ thread[c] = "ended" /\ c \in known
  <2>1. PICK i \in DOMAIN freewrappers : freewrappers[i] = c
    BY <1>3, Zenon DEF Range
  <2>2. thread[c] = "ended"
    BY <2>1, Zenon DEF IInv, FreeInv
  <2>3. c \in known
    BY <1>3, <2>2, Zenon DEF IInv, FreeInv
  <2>4. \A t \in Tasks : ~(ctx[t] = c /\ state[t] \notin {"NONE", "DESTROYED"})
    BY <2>2, Zenon DEF IInv, TaskInv, Exists
  <2> QED
    BY <2>2, <2>3, <2>4, Zenon DEF Owners
<1> QED
  BY <1>1, <1>2, <1>3, Zenon DEF OneUser

(* Whatever threads create wrapper tasks and however their threads end, a    *)
(* wrapper context has one user: getFreeWrapper() hands out only contexts of *)
(* threads that have ended, each to one task.                                *)
THEOREM OneUserInv == WrapConst => (Spec => []OneUser)
<1> SUFFICES ASSUME WrapConst PROVE Spec => []OneUser
  BY Zenon
<1>1. Init => IInv
  BY InitIInv, Zenon
<1>2. IInv /\ [Next]_vars => IInv'
  BY StepIInv, Zenon
<1>3. IInv => OneUser
  BY IInvOneUser, Zenon
<1> QED
  BY <1>1, <1>2, <1>3, PTL DEF Spec

=============================================================================
