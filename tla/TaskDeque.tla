------------------------------ MODULE TaskDeque ------------------------------
(* What the task queues promise: each is a sequence with two ends, and a task *)
(* is in one queue at most.                                                   *)
EXTENDS Sequences, SequencesExt

CONSTANTS Queues, Tasks

VARIABLES q

Free(t) == \A i \in Queues : t \notin Range(q[i])

Init == q = [i \in Queues |-> <<>>]

Push(i, t) == Free(t) /\ q' = [q EXCEPT ![i] = Append(@, t)]
PushFront(i, t) == Free(t) /\ q' = [q EXCEPT ![i] = <<t>> \o @]
Pop(i) == q[i] # <<>> /\ q' = [q EXCEPT ![i] = Tail(@)]
PopBack(i) == q[i] # <<>> /\ q' = [q EXCEPT ![i] = Front(@)]

(* The tasks of S leave queue i for the end of queue j, in their order *)
Move(i, j, S) ==
  q' = [q EXCEPT ![i] = SelectSeq(@, LAMBDA t : t \notin S),
                 ![j] = @ \o SelectSeq(q[i], LAMBDA t : t \in S)]

Next ==
  \E i \in Queues :
    \/ Pop(i) \/ PopBack(i)
    \/ \E t \in Tasks : Push(i, t) \/ PushFront(i, t)
    \/ \E j \in Queues \ {i}, S \in SUBSET Range(q[i]) : Move(i, j, S)

Spec == Init /\ [][Next]_q

=============================================================================
