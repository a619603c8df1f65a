---------------------------- MODULE BiSemaProofs ----------------------------
(* Mutual exclusion of the spinning semaphore for any tasks and workers. *)
EXTENDS BiSema, TLAPS

(* time limits of the two provers *)
USE SMTT(30), ZenonT(30)

(* What the counter and the positions of the tasks keep between them: the    *)
(* counter is a bit, and it is 1 exactly while a task is in.                 *)
HolderInv ==
  /\ counter \in {0, 1}
  /\ pc \in [Waiters -> {"out", "test", "spin", "in"}]
  /\ OneHolder

(* At first the semaphore is signalled and nobody has passed it. *)
LEMMA InitHolder == Init => HolderInv
  BY Zenon DEF Init, HolderInv, OneHolder

(* A test-and-set of a task that spins leaves a taken semaphore taken, and   *)
(* admits the task only when nobody is in; a signal comes from the holder.   *)
LEMMA NextHolder == HolderInv /\ [Next]_vars => HolderInv'
<1> SUFFICES ASSUME HolderInv, [Next]_vars PROVE HolderInv'
  BY Zenon
<1>1. CASE UNCHANGED vars
  BY <1>1, Zenon DEF HolderInv, OneHolder, vars
<1>2. ASSUME NEW t \in Waiters, LpelBiSemaWait(t) PROVE HolderInv'
  BY <1>2, Zenon DEF HolderInv, OneHolder, LpelBiSemaWait
<1>3. ASSUME NEW t \in Waiters, TestAndSet(t) PROVE HolderInv'
  BY <1>3, Zenon DEF HolderInv, OneHolder, TestAndSet
<1>4. ASSUME NEW t \in Waiters, Tick(t) \/ Yield(t) \/ OtherTask(t) PROVE HolderInv'
  BY <1>4, Zenon DEF HolderInv, OneHolder, Tick, Yield, OtherTask
<1>5. ASSUME NEW t \in Waiters, LpelBiSemaSignal(t) PROVE HolderInv'
  BY <1>5, Zenon DEF HolderInv, OneHolder, LpelBiSemaSignal
<1> QED
  BY <1>1, <1>2, <1>3, <1>4, <1>5, Zenon DEF Next

(* LpelBiSemaWait() lets one task through per LpelBiSemaSignal(). *)
THEOREM OneHolderInv == Spec => []OneHolder
<1>1. HolderInv => OneHolder
  BY Zenon DEF HolderInv
<1> QED
  BY <1>1, InitHolder, NextHolder, PTL DEF Spec

=============================================================================
