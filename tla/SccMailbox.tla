------------------------------ MODULE SccMailbox ------------------------------
(***************************************************************************)
(* The mailboxes of the SCC port (scc/scc_mailbox.c): one lock for both    *)
(* lists of a mailbox, taken by spinning, and a receiver that polls.  The  *)
(* lock of a mailbox whose mbox_ID is not negative is the hardware         *)
(* register of that number, which counts its reads; the other mailboxes    *)
(* have a mutex.  Nodes count mbox_ID down, so that mailboxes of different *)
(* nodes may share a register.  The linked lists are those of Mailbox;     *)
(* here the inbox is the sequence of its messages and the free list the    *)
(* number of its nodes.                                                    *)
(***************************************************************************)
EXTENDS Integers, Sequences, FiniteSets

CONSTANTS
  Boxes,      \* mailboxes: <<node_ID of the core, mailboxes it created before>>
  Senders,    \* threads that send
  MaxSend,    \* bound: messages a sender sends
  MaxSpin,    \* bound: reads a register counts while it is taken
  NULL

ASSUME SccAssumption ==
  /\ Senders \cap Boxes = {} /\ NULL \notin Boxes
  /\ MaxSend \in Nat /\ MaxSpin \in Nat

Messages == Senders \X (1 .. MaxSend)

(* LpelMailboxCreate(), LpelMailboxCreateW(): node_ID-- *)
mbox_ID(b) == b[1] - b[2]

LockOf(b) == IF mbox_ID(b) >= 0 THEN <<"register", mbox_ID(b)>> ELSE <<"mutex", b>>
Locks == {LockOf(b) : b \in Boxes}

AIR_MBOX_SYNCH_VALUE == 0

VARIABLES
  lock,         \* atomic_inc_regs[], or 1 for a mutex that is taken
  list_inbox, list_free,
  malloced,     \* nodes allocated for the mailbox
  pc,           \* of a sender, and of the owner of a mailbox
  box,          \* the mailbox a sender sends to
  sent,         \* messages a sender has begun to send
  inbox,        \* the list as the thread has read it
  received      \* *msg of the last receive, <<>> before the first

vars == <<lock, list_inbox, list_free, malloced, pc, box, sent, inbox, received>>

Threads == Senders \cup Boxes   \* a mailbox stands for its owner too
BoxOf(t) == IF t \in Boxes THEN t ELSE box[t]

Init ==
  /\ lock = [l \in Locks |-> AIR_MBOX_SYNCH_VALUE]
  /\ list_inbox = [b \in Boxes |-> <<>>]
  /\ list_free = [b \in Boxes |-> 0] /\ malloced = [b \in Boxes |-> 0]
  /\ pc = [t \in Threads |-> "idle"]
  /\ box = [s \in Senders |-> NULL] /\ sent = [s \in Senders |-> 0]
  /\ inbox = [t \in Threads |-> <<>>]
  /\ received = [b \in Boxes |-> <<>>]

-----------------------------------------------------------------------------
(* One read of the register, which returns its value and increments it, or   *)
(* one pthread_mutex_trylock()                                               *)
Spin(t) ==
  LET l == LockOf(BoxOf(t))
  IN /\ pc[t] = "spin" /\ lock[l] < MaxSpin
     /\ lock' = [lock EXCEPT ![l] = IF l[1] = "mutex" THEN 1 ELSE @ + 1]
     /\ pc' = [pc EXCEPT ![t] = IF lock[l] = AIR_MBOX_SYNCH_VALUE THEN "locked" ELSE "spin"]
     /\ UNCHANGED <<list_inbox, list_free, malloced, box, sent, inbox, received>>

(* atomic_writeR() or pthread_mutex_unlock() *)
Unlock(t) ==
  /\ pc[t] = "unlock"
  /\ lock' = [lock EXCEPT ![LockOf(BoxOf(t))] = AIR_MBOX_SYNCH_VALUE]
  /\ pc' = [pc EXCEPT ![t] = "idle"]
  /\ UNCHANGED <<list_inbox, list_free, malloced, box, sent, inbox, received>>

-----------------------------------------------------------------------------
(* LpelMailboxSend() *)

SendCall(s, b) ==
  /\ pc[s] = "idle" /\ sent[s] < MaxSend
  /\ box' = [box EXCEPT ![s] = b] /\ sent' = [sent EXCEPT ![s] = @ + 1]
  /\ pc' = [pc EXCEPT ![s] = "spin"]
  /\ UNCHANGED <<lock, list_inbox, list_free, malloced, inbox, received>>

(* GetFree(), and the message is copied into the node *)
GetFree(s) ==
  /\ pc[s] = "locked"
  /\ LET b == box[s]
     IN IF list_free[b] > 0
        THEN list_free' = [list_free EXCEPT ![b] = @ - 1] /\ UNCHANGED malloced
        ELSE malloced' = [malloced EXCEPT ![b] = @ + 1] /\ UNCHANGED list_free
  /\ inbox' = [inbox EXCEPT ![s] = list_inbox[box[s]]]
  /\ pc' = [pc EXCEPT ![s] = "insert"]
  /\ UNCHANGED <<lock, list_inbox, box, sent, received>>

(* fault: the node becomes the first of the list *)
InsertFirst(s) ==
  /\ pc[s] = "insert"
  /\ list_inbox' = [list_inbox EXCEPT ![box[s]] = <<<<s, sent[s]>>>> \o inbox[s]]
  /\ pc' = [pc EXCEPT ![s] = "unlock"]
  /\ UNCHANGED <<lock, list_free, malloced, box, sent, inbox, received>>
Insert(s) ==
  /\ pc[s] = "insert"
  /\ list_inbox' = [list_inbox EXCEPT ![box[s]] = Append(inbox[s], <<s, sent[s]>>)]
  /\ pc' = [pc EXCEPT ![s] = "unlock"]
  /\ UNCHANGED <<lock, list_free, malloced, box, sent, inbox, received>>

-----------------------------------------------------------------------------
(* LpelMailboxRecv() and LpelMailboxHasIncoming() *)

(* The loop that waits for a message looks at the list without the lock *)
Poll(b) ==
  /\ pc[b] = "idle" /\ list_inbox[b] # <<>>
  /\ pc' = [pc EXCEPT ![b] = "spin"]
  /\ UNCHANGED <<lock, list_inbox, list_free, malloced, box, sent, inbox, received>>

(* The list is read, after the assertion ... *)
ReadInbox(b) ==
  /\ b \in Boxes /\ pc[b] = "locked"
  /\ inbox' = [inbox EXCEPT ![b] = list_inbox[b]]
  /\ pc' = [pc EXCEPT ![b] = "take"]
  /\ UNCHANGED <<lock, list_inbox, list_free, malloced, box, sent, received>>

(* ... and the first node unlinked, copied, and put into the free pool *)
Take(b) ==
  /\ b \in Boxes /\ pc[b] = "take" /\ inbox[b] # <<>>
  /\ list_inbox' = [list_inbox EXCEPT ![b] = Tail(inbox[b])]
  /\ received' = [received EXCEPT ![b] = <<Head(inbox[b])>>]
  /\ list_free' = [list_free EXCEPT ![b] = @ + 1]
  /\ pc' = [pc EXCEPT ![b] = "unlock"]
  /\ UNCHANGED <<lock, malloced, box, sent, inbox>>

LpelMailboxSend(s) ==
  (\E b \in Boxes : SendCall(s, b)) \/ Spin(s) \/ GetFree(s) \/ Insert(s) \/ Unlock(s)

LpelMailboxRecv(b) == Poll(b) \/ Spin(b) \/ ReadInbox(b) \/ Take(b) \/ Unlock(b)

Done == (\A t \in Threads : pc[t] = "idle") /\ UNCHANGED vars

Next ==
  \/ \E s \in Senders : LpelMailboxSend(s)
  \/ \E b \in Boxes : LpelMailboxRecv(b)
  \/ Done

Spec == Init /\ [][Next]_vars

-----------------------------------------------------------------------------
Holds(t) == pc[t] \in {"locked", "insert", "take", "unlock"}

(* One thread at a time is between lock and unlock, for each lock.           *)
OneHolder ==
  \A t, u \in Threads :
    Holds(t) /\ Holds(u) /\ LockOf(BoxOf(t)) = LockOf(BoxOf(u)) => t = u

(* assert(mbox->list_inbox != NULL) in LpelMailboxRecv(): what the receiver  *)
(* saw before it had the lock is still there when it has it.                 *)
InboxAsserted == \A b \in Boxes : pc[b] = "locked" => list_inbox[b] # <<>>

(* No node is lost or used twice: unless the lock is taken, all nodes that   *)
(* were allocated for a mailbox are in its inbox or its free list.           *)
NodesKept ==
  \A b \in Boxes :
    lock[LockOf(b)] = AIR_MBOX_SYNCH_VALUE =>
      malloced[b] = Len(list_inbox[b]) + list_free[b]

(* Each mailbox is the queue of MsgQueue, although mailboxes share locks and *)
(* a register only counts: messages come out once each and in order.         *)
Abstract(b) == INSTANCE MsgQueue WITH queue <- list_inbox[b], delivered <- received[b]
ImplementsQueues ==
  /\ \A b \in Boxes : Abstract(b)!Init
  /\ [][\A b \in Boxes : Abstract(b)!Next \/ UNCHANGED Abstract(b)!vars]_vars
=============================================================================
