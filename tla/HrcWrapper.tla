------------------------------ MODULE HrcWrapper ------------------------------
(***************************************************************************)
(* Wrapper threads of the HRC back-end: each runs one task on a context of *)
(* its own.  A thread that ends puts its context into the list of free     *)
(* ones, from where the next wrapper task takes it, until the clean-up     *)
(* frees the list.                                                         *)
(***************************************************************************)
EXTENDS Integers, Sequences, Functions

CONSTANTS
  Tasks, Contexts,
  Creators,        \* threads that create wrapper tasks
  NULL

VARIABLES
  freewrappers,    \* as a sequence
  lockwrappers,    \* "valid", "destroyed", or "misused" after that
  thread,          \* of a context: "none", "loop", "exit", "ended"
  terminate, current_task, mailbox,
  known,           \* contexts that malloc() has returned and nobody has freed
  state, ctx,      \* state and worker_context of a task
  sleeping,        \* "no", "announced" in its stream, or "woken": the wake-up was sent
  creating,        \* the task a creator saw a free context for, or NULL
  cleanup, rest    \* "no", "running", "done"; contexts still to be freed

cvars == <<thread, terminate, current_task, mailbox, known>>
tvars == <<state, ctx, sleeping>>
pvars == <<freewrappers, lockwrappers>>
evars == <<cleanup, rest>>
vars == <<cvars, tvars, pvars, creating, evars>>

(* initLocalVar() *)
Init ==
  /\ freewrappers = <<>> /\ lockwrappers = "valid"
  /\ thread = [c \in Contexts |-> "none"] /\ known = {}
  /\ terminate = [c \in Contexts |-> FALSE] /\ current_task = [c \in Contexts |-> NULL]
  /\ mailbox = [c \in Contexts |-> <<>>]
  /\ state = [t \in Tasks |-> "NONE"] /\ ctx = [t \in Tasks |-> NULL]
  /\ sleeping = [t \in Tasks |-> "no"]
  /\ creating = [p \in Creators |-> NULL] /\ cleanup = "no" /\ rest = <<>>

(* The end of LpelCreateWrapperContext() and of LpelTaskCreate() *)
NewContext(p, t, c) ==
  /\ known' = known \cup {c}
  /\ terminate' = [terminate EXCEPT ![c] = FALSE]
  /\ current_task' = [current_task EXCEPT ![c] = NULL]
  /\ thread' = [thread EXCEPT ![c] = "loop"]
  /\ state' = [state EXCEPT ![t] = "CREATED"] /\ ctx' = [ctx EXCEPT ![t] = c]
  /\ UNCHANGED <<mailbox, sleeping>>

(* getFreeWrapper(): the list is looked at before the lock is taken *)
LpelCreateWrapperContext(p, t) ==
  /\ creating[p] = NULL /\ state[t] = "NONE" /\ cleanup = "no"
  /\ \A q \in Creators : creating[q] # t
  /\ IF freewrappers # <<>>
     THEN creating' = [creating EXCEPT ![p] = t] /\ UNCHANGED <<cvars, tvars>>
     ELSE \E c \in Contexts \ known : NewContext(p, t, c) /\ UNCHANGED creating
  /\ UNCHANGED <<pvars, evars>>

(* fault: the list is not looked at again under the lock; the first of its   *)
(* contexts was taken, and another creator has got it                        *)
TakeFreeUnchecked(p) ==
  /\ creating[p] # NULL
  /\ IF freewrappers # <<>>
     THEN NewContext(p, creating[p], Head(freewrappers)) /\ freewrappers' = Tail(freewrappers)
     ELSE \E c \in known : NewContext(p, creating[p], c) /\ UNCHANGED freewrappers
  /\ creating' = [creating EXCEPT ![p] = NULL]
  /\ UNCHANGED <<lockwrappers, evars>>

(* getFreeWrapper(), with the lock *)
getFreeWrapper(p) ==
  /\ creating[p] # NULL
  /\ IF freewrappers # <<>>
     THEN NewContext(p, creating[p], Head(freewrappers)) /\ freewrappers' = Tail(freewrappers)
     ELSE \E c \in Contexts \ known : NewContext(p, creating[p], c) /\ UNCHANGED freewrappers
  /\ creating' = [creating EXCEPT ![p] = NULL]
  /\ UNCHANGED <<lockwrappers, evars>>

Send(c, type, t) == mailbox' = [mailbox EXCEPT ![c] = Append(@, [type |-> type, task |-> t])]
Assigned(t) ==
  /\ sleeping[t] = "no"
  /\ \E i \in DOMAIN mailbox[ctx[t]] : mailbox[ctx[t]][i].task = t

(* LpelTaskStart(), once for each task *)
LpelWorkerRunTask(t) ==
  /\ state[t] = "CREATED" /\ ~Assigned(t)
  /\ Send(ctx[t], "ASSIGN", t)
  /\ UNCHANGED <<thread, terminate, current_task, known, tvars, pvars, creating, evars>>

InLoop(c) == thread[c] = "loop" /\ ~terminate[c]

(* WrapperLoop() without a task *)
WrapperLoopRecv(c) ==
  /\ InLoop(c) /\ current_task[c] = NULL /\ mailbox[c] # <<>>
  /\ LET msg == Head(mailbox[c])
     IN /\ state' = [state EXCEPT ![msg.task] = "READY"]
        /\ sleeping' = [sleeping EXCEPT ![msg.task] = "no"]
        /\ current_task' = [current_task EXCEPT ![c] = msg.task]
  /\ mailbox' = [mailbox EXCEPT ![c] = Tail(@)]
  /\ UNCHANGED <<thread, terminate, known, ctx, pvars, creating, evars>>

(* WrapperLoop() with a task: the task goes on with TaskStart() *)
WrapperLoopSwitch(c) ==
  /\ InLoop(c) /\ current_task[c] # NULL /\ state[current_task[c]] = "READY"
  /\ state' = [state EXCEPT ![current_task[c]] = "RUNNING"]
  /\ UNCHANGED <<cvars, ctx, sleeping, pvars, creating, evars>>

(* The task finds that it must wait, and its stream shows this to others *)
Announce(t) ==
  /\ state[t] = "RUNNING" /\ sleeping[t] = "no"
  /\ sleeping' = [sleeping EXCEPT ![t] = "announced"]
  /\ UNCHANGED <<state, ctx, cvars, pvars, creating, evars>>

(* LpelTaskBlockStream() and LpelWorkerTaskBlock() *)
LpelWorkerTaskBlock(t) ==
  /\ state[t] = "RUNNING" /\ sleeping[t] # "no"
  /\ state' = [state EXCEPT ![t] = "BLOCKED"]
  /\ current_task' = [current_task EXCEPT ![ctx[t]] = NULL]
  /\ UNCHANGED <<thread, terminate, mailbox, known, ctx, sleeping, pvars, creating, evars>>

(* By the task at the other end of the stream, which may run before the task *)
(* has blocked                                                               *)
LpelWorkerTaskWakeup(t) ==
  /\ sleeping[t] = "announced"
  /\ sleeping' = [sleeping EXCEPT ![t] = "woken"]
  /\ Send(ctx[t], "WAKEUP", t)
  /\ UNCHANGED <<thread, terminate, current_task, known, state, ctx, pvars, creating, evars>>

LpelWorkerTaskYield(t) ==
  /\ state[t] = "RUNNING" /\ sleeping[t] = "no"
  /\ state' = [state EXCEPT ![t] = "READY"]
  /\ UNCHANGED <<cvars, ctx, sleeping, pvars, creating, evars>>

LpelWorkerTaskExit(t) ==
  /\ state[t] = "RUNNING" /\ sleeping[t] = "no"
  /\ state' = [state EXCEPT ![t] = "ZOMBIE"]
  /\ terminate' = [terminate EXCEPT ![ctx[t]] = TRUE]
  /\ UNCHANGED <<thread, current_task, mailbox, known, ctx, sleeping, pvars, creating, evars>>

(* The end of WrapperLoop(): LpelTaskDestroy() of the current task *)
WrapperLoopEnd(c) ==
  /\ thread[c] = "loop" /\ terminate[c]
  /\ thread' = [thread EXCEPT ![c] = "exit"]
  /\ state' = [state EXCEPT ![current_task[c]] = "DESTROYED"]
  /\ UNCHANGED <<terminate, current_task, mailbox, known, ctx, sleeping, pvars, creating, evars>>

addFreeWrapper(c) ==
  /\ thread[c] = "exit" /\ thread' = [thread EXCEPT ![c] = "ended"]
  /\ lockwrappers' = IF lockwrappers = "valid" THEN "valid" ELSE "misused"
  /\ freewrappers' = <<c>> \o freewrappers
  /\ UNCHANGED <<terminate, current_task, mailbox, known, tvars, creating, evars>>

(* LpelCleanup() after the workers were joined: a wrapper task that has      *)
(* called LpelStop() may still run then                                      *)
LpelWorkersCleanup ==
  /\ cleanup = "no" /\ \A p \in Creators : creating[p] = NULL
  /\ \A t \in Tasks : state[t] \in {"NONE", "RUNNING", "ZOMBIE", "DESTROYED"} /\ sleeping[t] = "no"
  /\ cleanup' = "running" /\ rest' = freewrappers
  /\ UNCHANGED <<cvars, tvars, pvars, creating>>

cleanupLocalVar ==
  /\ cleanup = "running"
  /\ IF rest # <<>>
     THEN /\ known' = known \ {Head(rest)} /\ rest' = Tail(rest)
          /\ UNCHANGED <<cleanup, lockwrappers>>
     ELSE /\ cleanup' = "done" /\ lockwrappers' = "destroyed"
          /\ UNCHANGED <<known, rest>>
  /\ UNCHANGED <<thread, terminate, current_task, mailbox, tvars, freewrappers, creating>>

TaskStep(t) ==
  \/ Announce(t) \/ LpelWorkerTaskBlock(t)
  \/ LpelWorkerTaskYield(t) \/ LpelWorkerTaskExit(t)
ThreadStep(c) ==
  \/ WrapperLoopRecv(c) \/ WrapperLoopSwitch(c)
  \/ WrapperLoopEnd(c) \/ addFreeWrapper(c)

Next ==
  \/ \E p \in Creators, t \in Tasks : LpelCreateWrapperContext(p, t)
  \/ \E p \in Creators : getFreeWrapper(p)
  \/ \E t \in Tasks : LpelWorkerRunTask(t) \/ TaskStep(t) \/ LpelWorkerTaskWakeup(t)
  \/ \E c \in Contexts : ThreadStep(c)
  \/ LpelWorkersCleanup \/ cleanupLocalVar

Spec == Init /\ [][Next]_vars

-----------------------------------------------------------------------------
Owners(c) == {t \in Tasks : ctx[t] = c /\ state[t] \notin {"NONE", "DESTROYED"}}

(* A context has one user: it is in the list of free contexts, once, when    *)
(* its thread has ended, or it belongs to one task.  Creators that both saw  *)
(* the last free context do not both get it.                                 *)
OneUser ==
  /\ IsInjective(freewrappers)
  /\ \A c \in Contexts :
       /\ \A t, u \in Owners(c) : t = u
       /\ (c \in Range(freewrappers) /\ cleanup = "no") =>
             Owners(c) = {} /\ thread[c] = "ended" /\ c \in known

=============================================================================
