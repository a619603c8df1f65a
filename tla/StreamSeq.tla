------------------------------ MODULE StreamSeq ------------------------------
(* What stream sets and their iterators promise: a set is a sequence, and an  *)
(* iteration visits what is in the set in this order, each descriptor once,   *)
(* although descriptors are removed and appended on the way.                  *)
EXTENDS Naturals, Sequences

CONSTANTS Nodes, NULL

VARIABLES
  order,      \* the set
  todo,       \* what the iterator has still to visit
  at          \* the descriptor it is on, NULL if there is none

vars == <<order, todo, at>>

Init == order = <<>> /\ todo = <<>> /\ at = NULL

Put(n) == order' = Append(order, n) /\ UNCHANGED <<todo, at>>
Remove(n) == order' = SelectSeq(order, LAMBDA m : m # n) /\ UNCHANGED <<todo, at>>
Rotated(s) == \E i \in 1 .. Len(order) :
                s = SubSeq(order, i + 1, Len(order)) \o SubSeq(order, 1, i)

Start == todo' = order /\ at' = NULL /\ UNCHANGED order
Next1 == todo # <<>> /\ at' = Head(todo) /\ todo' = Tail(todo) /\ UNCHANGED order
AppendAtEnd(n) == order' = Append(order, n) /\ todo' = Append(todo, n) /\ UNCHANGED at
RemoveCurrent ==
  /\ at # NULL
  /\ order' = SelectSeq(order, LAMBDA m : m # at)
  /\ at' = NULL /\ UNCHANGED todo
Stop == todo' = <<>> /\ at' = NULL /\ UNCHANGED order

Next ==
  \/ \E n \in Nodes : Put(n) \/ Remove(n) \/ AppendAtEnd(n)
  \/ Start \/ Next1 \/ RemoveCurrent \/ Stop
  \/ Rotated(order') /\ UNCHANGED <<todo, at>>

Spec == Init /\ [][Next]_vars

=============================================================================
