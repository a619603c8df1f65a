--------------------------- MODULE DecenTaskqueue ---------------------------
(***************************************************************************)
(* The ready queues of a worker of the decentralised scheduler             *)
(* (decen_taskqueue.c): doubly linked lists through the prev and next      *)
(* pointers of the tasks, one per priority.  A queue belongs to its        *)
(* worker, so an operation is one step.                                    *)
(***************************************************************************)
EXTENDS Integers, Sequences, SequencesExt

CONSTANTS Queues, Tasks, NULL

VARIABLES head, tail, count,   \* of each queue
          prev, next           \* of each task

vars == <<head, tail, count, prev, next>>

(* LpelTaskqueueInit(), and tasks that are in no queue *)
Init ==
  /\ head = [i \in Queues |-> NULL] /\ tail = [i \in Queues |-> NULL]
  /\ count = [i \in Queues |-> 0]
  /\ prev = [t \in Tasks |-> NULL] /\ next = [t \in Tasks |-> NULL]

(* The state of the lists as a value, for operations of several steps *)
Lists == [head |-> head, tail |-> tail, count |-> count, prev |-> prev, next |-> next]

Set(L) ==
  /\ head' = L.head /\ tail' = L.tail /\ count' = L.count
  /\ prev' = L.prev /\ next' = L.next

(* LpelTaskqueuePush() *)
PushTo(L, i, t) ==
  [IF L.head[i] = NULL
   THEN [L EXCEPT !.head[i] = t]
   ELSE [L EXCEPT !.next[L.tail[i]] = t, !.prev[t] = L.tail[i]]
   EXCEPT !.tail[i] = t, !.count[i] = @ + 1]

(* The caller's tasks: unlinked, and running rather than in a queue *)
Unqueued(t) == prev[t] = NULL /\ next[t] = NULL /\ \A i \in Queues : head[i] # t

LpelTaskqueuePush(i, t) == Unqueued(t) /\ Set(PushTo(Lists, i, t))

LpelTaskqueuePushFront(i, t) ==
  /\ Unqueued(t)
  /\ Set([IF tail[i] = NULL
          THEN [Lists EXCEPT !.tail[i] = t]
          ELSE [Lists EXCEPT !.prev[head[i]] = t, !.next[t] = head[i]]
          EXCEPT !.head[i] = t, !.count[i] = @ + 1])

LpelTaskqueuePop(i) ==
  LET t == head[i] IN
  /\ t # NULL
  /\ Set([IF next[t] = NULL
          THEN [Lists EXCEPT !.head[i] = NULL, !.tail[i] = NULL]
          ELSE [Lists EXCEPT !.head[i] = next[t], !.prev[next[t]] = NULL,
                             !.next[t] = NULL]
          EXCEPT !.count[i] = @ - 1])

LpelTaskqueuePopBack(i) ==
  LET t == tail[i] IN
  /\ t # NULL
  /\ Set([IF prev[t] = NULL
          THEN [Lists EXCEPT !.tail[i] = NULL, !.head[i] = NULL]
          ELSE [Lists EXCEPT !.tail[i] = prev[t], !.next[prev[t]] = NULL,
                             !.prev[t] = NULL]
          EXCEPT !.count[i] = @ - 1])

(* Relinking the queue around cur: its neighbours, or head and tail *)
Relink(L, i, cur) ==
  LET p == L.prev[cur]
      n == L.next[cur]
      F == IF p # NULL THEN [L EXCEPT !.next[p] = n] ELSE [L EXCEPT !.head[i] = n]
  IN IF n # NULL THEN [F EXCEPT !.prev[n] = p] ELSE [F EXCEPT !.tail[i] = p]

(* Clearing the links of a task that was taken out, and counting *)
Unlink(L, i, cur) == [L EXCEPT !.prev[cur] = NULL, !.next[cur] = NULL, !.count[i] = @ - 1]

(* fault: the action comes before the queue is relinked *)
VisitEarly(L, i, j, S, cur) ==
  IF cur \in S
  THEN LET A == PushTo(L, j, cur)
       IN [lists |-> Unlink(Relink(A, i, cur), i, cur), cur |-> L.next[cur]]
  ELSE [lists |-> L, cur |-> L.next[cur]]

(* One turn of the loop: a task of S, those cond() holds for, is taken out,  *)
(* and action() puts it into queue j when the next task has been read        *)
Visit(L, i, j, S, cur) ==
  IF cur \in S
  THEN LET R == Relink(L, i, cur)
       IN [lists |-> PushTo(Unlink(R, i, cur), j, cur), cur |-> R.next[cur]]
  ELSE [lists |-> L, cur |-> L.next[cur]]

(* LpelTaskqueueIterateRemove(): the loop goes on with the links it finds,   *)
(* until there is none or it has made more turns than there are tasks        *)
LpelTaskqueueIterateRemove(i, j, S) ==
  LET N == Cardinality(Tasks)
      loop[n \in 0 .. N + 1] ==
        IF n = 0 THEN [lists |-> Lists, cur |-> head[i]]
        ELSE LET at == loop[n - 1]
             IN IF at.cur = NULL THEN at ELSE Visit(at.lists, i, j, S, at.cur)
  IN Set(loop[N + 1].lists)

Next ==
  \E i \in Queues :
    \/ LpelTaskqueuePop(i) \/ LpelTaskqueuePopBack(i)
    \/ \E t \in Tasks : LpelTaskqueuePush(i, t) \/ LpelTaskqueuePushFront(i, t)
    \/ \E j \in Queues \ {i}, S \in SUBSET Tasks : LpelTaskqueueIterateRemove(i, j, S)

Spec == Init /\ [][Next]_vars

-----------------------------------------------------------------------------
(* Following the pointers from one end; a circle shows as a sequence that is *)
(* longer than there are tasks                                               *)
Walk(first, step) ==
  LET N == Cardinality(Tasks)
      walk[n \in 0 .. N] ==
        IF n = 0 THEN IF first = NULL THEN <<>> ELSE <<first>>
        ELSE LET s == walk[n - 1]
             IN IF s = <<>> \/ step[Last(s)] = NULL THEN s ELSE Append(s, step[Last(s)])
  IN walk[N]

Queued == [i \in Queues |-> Walk(head[i], next)]
Deque == INSTANCE TaskDeque WITH q <- Queued

(* The invariants at the top of decen_taskqueue.c, and the count *)
LinksAgree ==
  \A i \in Queues : /\ Walk(tail[i], prev) = Reverse(Queued[i])
                     /\ count[i] = Len(Queued[i])

(* Read along next, the lists are the sequences of TaskDeque: first come,    *)
(* first served from Push to Pop, and removing while iterating, although the *)
(* action links the task into another queue before the walk goes on, neither *)
(* loses a task nor changes the order of those that stay.  Read along prev   *)
(* they are the same, and tq->count is their length.                         *)
ImplementsDeque ==
  /\ Deque!Init /\ LinksAgree
  /\ [][vars' # vars => [Deque!Next]_Queued /\ LinksAgree']_vars

=============================================================================
