----------------------------- MODULE HrcTaskqueue -----------------------------
(***************************************************************************)
(* The master's queue of ready tasks (hrc_taskqueue.c): a heap in an array *)
(* whose position 0 is not used, ordered by the priority of the tasks.     *)
(* The master changes the priority of a queued task when the level of a    *)
(* stream to one of its neighbours changes.                                *)
(***************************************************************************)
EXTENDS Integers, FiniteSets

CONSTANTS
  Tasks,
  MaxPrior,     \* priorities are 0 .. MaxPrior; the last is DBL_MAX
  BLOCKSIZE,    \* entries by which the array grows
  NULL

VARIABLES
  heap,         \* tq->heap: what is stored at 1 .. alloc - 1, old entries included
  count, alloc,
  prior,        \* sched_info.prior of each task
  queued        \* the tasks that were pushed and not popped

vars == <<heap, count, alloc, prior, queued>>

(* LpelTaskqueueInit() *)
Init ==
  /\ alloc = BLOCKSIZE /\ count = 1
  /\ heap = [i \in 1 .. BLOCKSIZE - 1 |-> NULL]
  /\ prior = [t \in Tasks |-> 0] /\ queued = {}

(* upHeap(): the loop moves parents down until the place of t is found *)
UpHeap(h, pr, pos) ==
  LET t == h[pos]
      loop[p \in 1 .. pos] ==      \* where t ends up if it has reached p
        LET parent == p \div 2
        IN IF parent # 0 /\ pr[t] > pr[h[parent]]
           THEN LET r == loop[parent] IN [at |-> r.at, moved |-> r.moved \cup {p}]
           ELSE [at |-> p, moved |-> {}]
      r == loop[pos]
  IN [i \in DOMAIN h |-> IF i = r.at THEN t
                         ELSE IF i \in r.moved THEN h[i \div 2] ELSE h[i]]

(* downHeap(), with n for tq->count: the loop moves the larger child up *)
DownHeap(h, pr, n, pos) ==
  LET t == h[pos]
      loop[p \in pos .. (2 * n)] ==
        LET c == IF 2 * p + 1 < n /\ pr[h[2 * p]] < pr[h[2 * p + 1]] THEN 2 * p + 1 ELSE 2 * p
        IN IF 2 * p < n /\ pr[t] < pr[h[c]]
           THEN LET r == loop[c] IN [at |-> r.at, from |-> [r.from EXCEPT ![p] = c]]
           ELSE [at |-> p, from |-> [i \in DOMAIN h |-> i]]
      r == loop[pos]
  IN [i \in DOMAIN h |-> IF i = r.at THEN t ELSE h[r.from[i]]]

(* searchItem() *)
SearchItem(t) ==
  LET found == {i \in 1 .. count - 1 : heap[i] = t}
  IN IF found = {} THEN -1 ELSE CHOOSE i \in found : \A j \in found : i <= j

-----------------------------------------------------------------------------
(* The master sets the priority of a task before it pushes it *)
LpelTaskqueuePush(t, p) ==
  /\ t \notin queued
  /\ prior' = [prior EXCEPT ![t] = p]
  /\ LET grow == count >= alloc
         size == IF grow THEN alloc + BLOCKSIZE ELSE alloc
         h == [i \in 1 .. size - 1 |-> IF i = count THEN t
                                       ELSE IF i \in DOMAIN heap THEN heap[i] ELSE NULL]
     IN /\ alloc' = size
        /\ heap' = UpHeap(h, prior', count)
  /\ count' = count + 1
  /\ queued' = queued \cup {t}

(* LpelTaskqueueRemoveHead(): the last entry is pulled to the top *)
RemoveHead ==
  /\ count' = count - 1
  /\ heap' = DownHeap([heap EXCEPT ![1] = heap[count - 1]], prior, count - 1, 1)

(* fault: the last entry is popped *)
PopLast ==
  /\ count # 1
  /\ queued' = queued \ {heap[count - 1]}
  /\ count' = count - 1
  /\ UNCHANGED <<heap, alloc, prior>>

(* LpelTaskqueuePeek() reads the head, LpelTaskqueuePop() also removes it *)
LpelTaskqueuePop ==
  /\ count # 1
  /\ queued' = queued \ {heap[1]}
  /\ RemoveHead
  /\ UNCHANGED <<alloc, prior>>

LpelTaskqueueUpdatePriority(t, np) ==
  /\ t \in queued            \* called for tasks in state TASK_INQUEUE
  /\ LET pos == SearchItem(t)
         h == heap
         pr == [prior EXCEPT ![t] = np]
     IN heap' = IF np > prior[t] THEN UpHeap(h, pr, pos)
                ELSE IF np < prior[t] THEN DownHeap(h, pr, count, pos) ELSE h
  /\ prior' = [prior EXCEPT ![t] = np]
  /\ UNCHANGED <<count, alloc, queued>>

Next ==
  \/ \E t \in Tasks, p \in 0 .. MaxPrior :
       LpelTaskqueuePush(t, p) \/ LpelTaskqueueUpdatePriority(t, p)
  \/ LpelTaskqueuePop

Spec == Init /\ [][Next]_vars

-----------------------------------------------------------------------------
(* "pop the task with highest priority": no task that stays in the queue has *)
(* a higher one.                                                             *)
PopsHighest ==
  [][\A t \in queued \ queued', u \in queued' : prior[u] <= prior[t]]_vars
=============================================================================
