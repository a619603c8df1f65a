------------------------------- MODULE BiSema -------------------------------
(***************************************************************************)
(* The binary semaphores of the decentralised scheduler (sema.c).  A task  *)
(* that waits does not block: it spins on a test-and-set, and once it has  *)
(* spun for a millisecond it goes to the end of the ready queue of its     *)
(* worker.  Tasks use one semaphore as a lock; the holder may be taken off   *)
(* its worker too.                                                         *)
(***************************************************************************)
EXTENDS Integers, Sequences, FiniteSets

CONSTANTS
  Waiters,        \* tasks that use the semaphore
  Hosts,          \* their workers
  Home            \* worker of each task

ASSUME HomeAssumption == Home \in [Waiters -> Hosts]

VARIABLES
  counter,        \* 0 is signalled
  pc,             \* of each task: "out", "test", "spin" or "in"
  late,           \* more than 1 ms since the task began to spin or came back
  ready           \* ready queue of each worker; its head is the current task

vars == <<counter, pc, late, ready>>

(* LpelBiSemaInit(): "signalled by default" *)
Init ==
  /\ counter = 0
  /\ pc = [t \in Waiters |-> "out"] /\ late = [t \in Waiters |-> FALSE]
  /\ ready \in [Hosts -> {q \in UNION {[1 .. n -> Waiters] : n \in 0 .. Cardinality(Waiters)} :
                              \A i, j \in DOMAIN q : i # j => q[i] # q[j]}]
  /\ \A w \in Hosts : {ready[w][i] : i \in DOMAIN ready[w]} = {t \in Waiters : Home[t] = w}

Runs(t) == Head(ready[Home[t]]) = t

(* The task goes to the end of the queue and the next one is dispatched *)
Reschedule(t) == ready' = [ready EXCEPT ![Home[t]] = Append(Tail(@), Head(@))]

LpelBiSemaWait(t) ==
  /\ Runs(t) /\ pc[t] = "out"
  /\ pc' = [pc EXCEPT ![t] = "test"]
  /\ UNCHANGED <<counter, late, ready>>

(* fault: the test and the set are two steps *)
TestThenSet(t) ==
  /\ Runs(t) /\ pc[t] \in {"test", "spin"}
  /\ IF pc[t] = "test" /\ counter = 0
     THEN pc' = [pc EXCEPT ![t] = "spin"] /\ UNCHANGED counter
     ELSE pc' = [pc EXCEPT ![t] = "in"] /\ counter' = 1
  /\ late' = [late EXCEPT ![t] = FALSE]
  /\ UNCHANGED ready

(* __sync_lock_test_and_set(&sem->counter, 1) *)
TestAndSet(t) ==
  /\ Runs(t) /\ pc[t] \in {"test", "spin"}
  /\ counter' = 1
  /\ pc' = [pc EXCEPT ![t] = IF counter = 1 THEN "spin" ELSE "in"]
  /\ late' = [late EXCEPT ![t] = @ /\ counter = 1]
  /\ UNCHANGED ready

(* Time passes while the task spins *)
Tick(t) ==
  /\ Runs(t) /\ pc[t] = "spin" /\ ~late[t]
  /\ late' = [late EXCEPT ![t] = TRUE]
  /\ UNCHANGED <<counter, pc, ready>>

(* LpelWorkerSelfTaskYield(), and the time is taken anew *)
Yield(t) ==
  /\ Runs(t) /\ pc[t] = "spin" /\ late[t]
  /\ late' = [late EXCEPT ![t] = FALSE]
  /\ Reschedule(t)
  /\ UNCHANGED <<counter, pc>>

LpelBiSemaSignal(t) ==
  /\ Runs(t) /\ pc[t] = "in"
  /\ counter' = 0
  /\ pc' = [pc EXCEPT ![t] = "out"]
  /\ UNCHANGED <<late, ready>>

(* A task outside LpelBiSemaWait() yields or is woken later *)
OtherTask(t) ==
  /\ Runs(t) /\ pc[t] \in {"out", "in"}
  /\ Reschedule(t)
  /\ UNCHANGED <<counter, pc, late>>

Next ==
  \E t \in Waiters :
    \/ LpelBiSemaWait(t) \/ TestAndSet(t) \/ Tick(t) \/ Yield(t)
    \/ LpelBiSemaSignal(t) \/ OtherTask(t)

Spec == Init /\ [][Next]_vars

-----------------------------------------------------------------------------
(* The semaphore is binary: one task at a time has passed it, and it is      *)
(* signalled exactly when none has, whatever the tasks that spin write to it.*)
OneHolder ==
  /\ \A t, u \in Waiters : pc[t] = "in" /\ pc[u] = "in" => t = u
  /\ counter = 0 <=> \A t \in Waiters : pc[t] # "in"

=============================================================================
