------------------------------ MODULE MsgQueue ------------------------------
(***************************************************************************)
(* What a mailbox promises (mailbox.h): the messages that senders put in   *)
(* come out once each, in the order in which they were put in.  HrcSched   *)
(* uses mailboxes in this form.                                            *)
(***************************************************************************)
EXTENDS Sequences

CONSTANT Messages

VARIABLES
  queue,       \* messages sent and not received
  delivered    \* the message the last receive returns, <<>> before the first

vars == <<queue, delivered>>

Init == queue = <<>> /\ delivered = <<>>

Send(m) ==
  /\ queue' = Append(queue, m)
  /\ UNCHANGED delivered

Recv ==
  /\ queue # <<>>
  /\ delivered' = <<Head(queue)>>
  /\ queue' = Tail(queue)

Next == Recv \/ \E m \in Messages : Send(m)

Spec == Init /\ [][Next]_vars

=============================================================================
