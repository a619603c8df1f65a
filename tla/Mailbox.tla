------------------------------- MODULE Mailbox -------------------------------
(***************************************************************************)
(* A mailbox (mailbox.c): a circular inbox list and a list of free nodes,  *)
(* each under a mutex of its own, many sending threads and the one thread  *)
(* that owns the mailbox and receives.  A critical section is one step;    *)
(* what a thread does to a node outside the two locks is a step too.       *)
(***************************************************************************)
EXTENDS Naturals, Sequences, FiniteSets

CONSTANTS
  Senders,    \* threads that send
  Nodes,      \* memory for nodes
  MaxSend,    \* bound: messages a sender sends
  NULL

Messages == Senders \X (1 .. MaxSend)

VARIABLES
  list_free,    \* mbox->list_free
  list_inbox,   \* mbox->list_inbox: the last node of the circular list
  next,         \* node->next
  msg,          \* node->msg, <<>> in new memory
  allocated,    \* nodes obtained from malloc() and not freed
  spc,          \* where sender s is
  snode,        \* the local variable node of sender s
  sent,         \* messages sender s has begun to send
  rpc,          \* where the receiver is
  rnode,        \* the local variable node of the receiver
  rmsg          \* *msg of the last receive, <<>> before the first

sendVars == <<spc, snode, sent>>
recvVars == <<rpc, rnode, rmsg>>
vars == <<list_free, list_inbox, next, msg, allocated, spc, snode, sent,
          rpc, rnode, rmsg>>

LpelMailboxCreate ==
  /\ list_free = NULL
  /\ list_inbox = NULL
  /\ next = [n \in Nodes |-> NULL]
  /\ msg = [n \in Nodes |-> <<>>]
  /\ allocated = {}

Init ==
  /\ LpelMailboxCreate
  /\ spc = [s \in Senders |-> "idle"]
  /\ snode = [s \in Senders |-> NULL]
  /\ sent = [s \in Senders |-> 0]
  /\ rpc = "idle"
  /\ rnode = NULL
  /\ rmsg = <<>>

-----------------------------------------------------------------------------
(* LpelMailboxSend() *)

(* GetFree(): the first free node, or new memory *)
GetFree(s) ==
  /\ spc[s] = "idle"
  /\ sent[s] < MaxSend
  /\ \/ /\ list_free # NULL
        /\ snode' = [snode EXCEPT ![s] = list_free]
        /\ list_free' = next[list_free]
        /\ UNCHANGED allocated
     \/ /\ list_free = NULL
        /\ \E n \in Nodes \ allocated :
             /\ allocated' = allocated \cup {n}
             /\ snode' = [snode EXCEPT ![s] = n]
        /\ UNCHANGED list_free
  /\ spc' = [spc EXCEPT ![s] = "fill"]
  /\ sent' = [sent EXCEPT ![s] = @ + 1]
  /\ UNCHANGED <<list_inbox, next, msg, recvVars>>

CopyIn(s) ==
  /\ spc[s] = "fill"
  /\ msg' = [msg EXCEPT ![snode[s]] = <<s, sent[s]>>]
  /\ spc' = [spc EXCEPT ![s] = "insert"]
  /\ UNCHANGED <<list_free, list_inbox, next, allocated, snode, sent, recvVars>>

(* fault: the condition is signalled for the second message, not the first *)
SignalLate == rpc' = IF rpc = "waiting" /\ list_inbox # NULL THEN "recv" ELSE rpc
(* pthread_cond_signal(), only when the list was empty *)
Signal == rpc' = IF rpc = "waiting" /\ list_inbox = NULL THEN "recv" ELSE rpc

(* fault: the new node is inserted but not made the last *)
InsertFirst(n) ==
  /\ list_inbox' = IF list_inbox = NULL THEN n ELSE list_inbox
  /\ next' = IF list_inbox = NULL
             THEN [next EXCEPT ![n] = n]
             ELSE [next EXCEPT ![n] = next[list_inbox], ![list_inbox] = n]
(* n becomes the last node of the circular list *)
InsertLast(n) ==
  /\ list_inbox' = n
  /\ next' = IF list_inbox = NULL
             THEN [next EXCEPT ![n] = n]
             ELSE [next EXCEPT ![n] = next[list_inbox], ![list_inbox] = n]

Insert(s) ==
  /\ spc[s] = "insert"
  /\ InsertLast(snode[s])
  /\ Signal
  /\ spc' = [spc EXCEPT ![s] = "idle"]
  /\ snode' = [snode EXCEPT ![s] = NULL]
  /\ UNCHANGED <<list_free, msg, allocated, sent, rnode, rmsg>>

-----------------------------------------------------------------------------
(* LpelMailboxRecv() and LpelMailboxHasIncoming() *)

RecvCall ==
  /\ rpc = "idle"
  /\ rpc' = "recv"
  /\ UNCHANGED <<list_free, list_inbox, next, msg, allocated, rnode, rmsg, sendVars>>

(* The owner of the mailbox looks without a lock, and receives if it saw one *)
LpelMailboxHasIncoming ==
  /\ rpc = "idle"
  /\ rpc' = IF list_inbox # NULL THEN "fetch" ELSE "idle"
  /\ UNCHANGED <<list_free, list_inbox, next, msg, allocated, rnode, rmsg, sendVars>>

(* pthread_cond_wait(): the mutex is released in the same step *)
Wait ==
  /\ rpc = "recv"
  /\ list_inbox = NULL
  /\ rpc' = "waiting"
  /\ UNCHANGED <<list_free, list_inbox, next, msg, allocated, rnode, rmsg, sendVars>>

(* pthread_cond_wait() may return without a signal *)
SpuriousWakeup ==
  /\ rpc = "waiting"
  /\ rpc' = "recv"
  /\ UNCHANGED <<list_free, list_inbox, next, msg, allocated, rnode, rmsg, sendVars>>

(* the first node is unlinked; the list is empty if it was the only one *)
Unlink(n) ==
  IF n = list_inbox
  THEN list_inbox' = NULL /\ UNCHANGED next
  ELSE UNCHANGED list_inbox /\ next' = [next EXCEPT ![list_inbox] = next[n]]

Take ==
  /\ rpc \in {"recv", "fetch"}
  /\ list_inbox # NULL
  /\ rnode' = next[list_inbox]
  /\ Unlink(next[list_inbox])
  /\ rpc' = "copy"
  /\ UNCHANGED <<list_free, msg, allocated, rmsg, sendVars>>

CopyOut ==
  /\ rpc = "copy"
  /\ rmsg' = <<msg[rnode]>>
  /\ rpc' = "putfree"
  /\ UNCHANGED <<list_free, list_inbox, next, msg, allocated, rnode, sendVars>>

(* fault: the node is not given back *)
PutFreeLost ==
  /\ rpc = "putfree"
  /\ rnode' = NULL
  /\ rpc' = "idle"
  /\ UNCHANGED <<list_free, list_inbox, next, msg, allocated, rmsg, sendVars>>

PutFree ==
  /\ rpc = "putfree"
  /\ next' = [next EXCEPT ![rnode] = list_free]
  /\ list_free' = rnode
  /\ rnode' = NULL
  /\ rpc' = "idle"
  /\ UNCHANGED <<list_inbox, msg, allocated, rmsg, sendVars>>

-----------------------------------------------------------------------------
(* More nodes than there are *)
Limit == Cardinality(Nodes) + 1

(* The nodes met from first to last along nx, NULL behind the end *)
Walk(nx, first, last) ==
  LET at[i \in 1 .. Limit] ==
        IF i = 1 THEN first
        ELSE IF at[i - 1] \in {last, NULL} THEN NULL ELSE nx[at[i - 1]]
  IN at

(* How many of them come before the first NULL *)
Reach(w) ==
  CHOOSE k \in 0 .. Limit : /\ k = Limit \/ w[k + 1] = NULL
                            /\ \A i \in 1 .. k : w[i] # NULL

Chain(w) == [i \in 1 .. Reach(w) |-> w[i]]

(* The free list, from list_free to NULL *)
FreeChain == Chain(Walk(next, list_free, NULL))

(* The circular list, from the oldest message to list_inbox, the last *)
InboxChain ==
  IF list_inbox = NULL THEN <<>> ELSE Chain(Walk(next, next[list_inbox], list_inbox))

Elements(q) == {q[i] : i \in DOMAIN q}

(* LpelMailboxDestroy(), when every thread that uses the mailbox has ended *)
LpelMailboxDestroy ==
  /\ rpc = "idle"
  /\ \A s \in Senders : spc[s] = "idle" /\ sent[s] = MaxSend
  /\ list_inbox = NULL
  /\ allocated' = allocated \ Elements(FreeChain)
  /\ list_free' = NULL
  /\ rpc' = "destroyed"
  /\ UNCHANGED <<list_inbox, next, msg, rnode, rmsg, sendVars>>

Send(s) == GetFree(s) \/ CopyIn(s) \/ Insert(s)

LpelMailboxRecv == Wait \/ Take \/ CopyOut \/ PutFree

Next ==
  \/ \E s \in Senders : Send(s)
  \/ RecvCall \/ LpelMailboxHasIncoming
  \/ SpuriousWakeup
  \/ LpelMailboxRecv
  \/ LpelMailboxDestroy
  \/ rpc = "destroyed" /\ UNCHANGED vars

Spec == Init /\ [][Next]_vars

-----------------------------------------------------------------------------
(* Every node has one owner: the free list, the inbox, a sender, or the      *)
(* receiver; none is leaked, and after LpelMailboxDestroy() all are freed.   *)
NodeOwnership ==
  /\ \A i, j \in DOMAIN FreeChain : FreeChain[i] = FreeChain[j] => i = j
  /\ \A i, j \in DOMAIN InboxChain : InboxChain[i] = InboxChain[j] => i = j
  /\ Elements(FreeChain) \cap Elements(InboxChain) = {}
  /\ \A s \in Senders : snode[s] # NULL =>
       /\ snode[s] \notin Elements(FreeChain) \cup Elements(InboxChain) \cup {rnode}
       /\ \A r \in Senders : snode[r] = snode[s] => r = s
  /\ rnode \notin Elements(FreeChain) \cup Elements(InboxChain)
  /\ allocated = (Elements(FreeChain) \cup Elements(InboxChain)
                    \cup {snode[s] : s \in Senders} \cup {rnode}) \ {NULL}
  /\ rpc = "destroyed" => allocated = {}

(* The messages in the nodes of q *)
Contents(q, ms) == [i \in DOMAIN q |-> ms[q[i]]]

(* Refinement: the messages in the inbox list are the queue of MsgQueue, and *)
(* the node the receiver has unlinked holds the message it delivers.         *)
Abstract == INSTANCE MsgQueue WITH
  queue <- Contents(InboxChain, msg),
  delivered <- IF rpc = "copy" THEN <<msg[rnode]>> ELSE rmsg

(* The two node lists implement a FIFO queue: each message is received once, *)
(* unchanged, and in the order of the insertions.                            *)
ImplementsQueue == Abstract!Spec

(* A message in the inbox is eventually received. *)
MessageReceived ==
  \A s \in Senders : (spc[s] = "insert" /\ sent[s] = MaxSend)
                       ~> (list_inbox = NULL /\ spc[s] = "idle")

=============================================================================
