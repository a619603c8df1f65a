----------------------------- MODULE MCHrcStream -----------------------------
(* Instances of HrcStream.  Streams are numbers, since a set is in order. *)
EXTENDS HrcStream

(* Three streams that go on for ever, and two that end *)
AnyUses ==
  {[streams |-> 3, pollfirst |-> FALSE, closing |-> "never"],
   [streams |-> 2, pollfirst |-> FALSE, closing |-> "synchronised"]}

(* Two streams that are closed right after the terminate record *)
CloseAtOnce == {[streams |-> 2, pollfirst |-> FALSE, closing |-> "at once"]}

=============================================================================
