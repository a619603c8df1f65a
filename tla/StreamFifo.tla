----------------------------- MODULE StreamFifo -----------------------------
(***************************************************************************)
(* What a bounded stream promises the tasks that use it: the items read    *)
(* are the items written, in the same order, none lost, none twice, and    *)
(* never more of them under way than the stream has room for.              *)
(***************************************************************************)
EXTENDS Naturals, Sequences

CONSTANTS Streams, Items, NoItem, Size

VARIABLES q, item      \* items under way on each stream; the last item read

Init == q = [s \in Streams |-> <<>>] /\ item = NoItem

Write(s) ==
  /\ Len(q[s]) < Size
  /\ \E v \in Items : q' = [q EXCEPT ![s] = Append(@, v)]
  /\ UNCHANGED item

Read(s) ==
  /\ q[s] # <<>>
  /\ item' = Head(q[s])
  /\ q' = [q EXCEPT ![s] = Tail(@)]

Next == \E s \in Streams : Write(s) \/ Read(s)

Spec == Init /\ [][Next]_<<q, item>>

=============================================================================
