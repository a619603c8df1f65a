--------------------------- MODULE SccMailboxProofs ---------------------------
(***************************************************************************)
(* The mailboxes of the SCC port are queues, for any number of mailboxes,  *)
(* senders and messages and whichever mailboxes share a lock.              *)
(***************************************************************************)
EXTENDS SccMailbox, TLAPS

(* time limits of the two provers *)
USE SMTT(30), ZenonT(30)

SenderPc == {"idle", "spin", "locked", "insert", "unlock"}
OwnerPc == {"idle", "spin", "locked", "take", "unlock"}

(* The types of the variables; a sender in a call has a mailbox and a message *)
TypeInv ==
  /\ lock \in [Locks -> Nat]
  /\ list_inbox \in [Boxes -> Seq(Messages)]
  /\ list_free \in [Boxes -> Nat] /\ malloced \in [Boxes -> Nat]
  /\ pc \in [Threads -> SenderPc \cup OwnerPc]
  /\ \A s \in Senders : pc[s] \in SenderPc
  /\ \A b \in Boxes : pc[b] \in OwnerPc
  /\ box \in [Senders -> Boxes \cup {NULL}]
  /\ sent \in [Senders -> 0 .. MaxSend]
  /\ \A s \in Senders : pc[s] # "idle" => box[s] \in Boxes /\ sent[s] \in 1 .. MaxSend
  /\ inbox \in [Threads -> Seq(Messages)]
  /\ DOMAIN received = Boxes

(* A lock that somebody holds does not have the value that admits a thread *)
LockInv ==
  /\ OneHolder
  /\ \A t \in Threads : Holds(t) => lock[LockOf(BoxOf(t))] # AIR_MBOX_SYNCH_VALUE

(* What a holder has read of the inbox is the inbox *)
ReadInv == \A t \in Threads : pc[t] \in {"insert", "take"} => inbox[t] = list_inbox[BoxOf(t)]

(* Only the owner of a mailbox takes messages out *)
PolledInv == \A b \in Boxes : pc[b] \in {"spin", "locked", "take"} => list_inbox[b] # <<>>

(* A sender that is about to insert holds one more node *)
InHand(b) == \E s \in Senders : pc[s] = "insert" /\ box[s] = b
NodesInv ==
  \A b \in Boxes :
    /\ InHand(b) => malloced[b] = Len(list_inbox[b]) + list_free[b] + 1
    /\ ~InHand(b) => malloced[b] = Len(list_inbox[b]) + list_free[b]

IInv == TypeInv /\ LockInv /\ ReadInv /\ PolledInv /\ NodesInv

-----------------------------------------------------------------------------
(* The initial states satisfy the invariant. *)
LEMMA InitIInv == Init => IInv
<1> SUFFICES ASSUME Init PROVE IInv
  BY Zenon
<1>1. TypeInv
  BY SccAssumption DEF Init, TypeInv, SenderPc, OwnerPc, Threads, AIR_MBOX_SYNCH_VALUE
<1>2. LockInv /\ ReadInv /\ PolledInv
  BY Zenon DEF Init, LockInv, OneHolder, Holds, ReadInv, PolledInv, Threads
<1>3. NodesInv
  BY DEF Init, NodesInv, InHand, Threads
<1> QED
  BY <1>1, <1>2, <1>3, Zenon DEF IInv

(* The mailbox a thread uses while it is in a call. *)
LEMMA BoxOfType ==
  ASSUME TypeInv, NEW t \in Threads, pc[t] # "idle"
  PROVE BoxOf(t) \in Boxes /\ LockOf(BoxOf(t)) \in Locks
  BY Zenon DEF TypeInv, BoxOf, Locks, Threads

(* Every action keeps the types. *)
LEMMA TypeStep == TypeInv /\ [Next]_vars => TypeInv'
<1> SUFFICES ASSUME TypeInv, [Next]_vars PROVE TypeInv'
  BY Zenon
<1> USE SccAssumption DEF Threads, SenderPc, OwnerPc
<1>1. CASE UNCHANGED vars
  BY <1>1, Zenon DEF TypeInv, vars
<1>2. ASSUME NEW s \in Senders, NEW b \in Boxes, SendCall(s, b) PROVE TypeInv'
  <2>1. sent[s] + 1 \in 1 .. MaxSend /\ sent[s] + 1 \in 0 .. MaxSend
    BY <1>2 DEF TypeInv, SendCall
  <2> QED
    BY <1>2, <2>1, SMTT(60) DEF TypeInv, SendCall
<1>3. ASSUME NEW t \in Threads, Spin(t) PROVE TypeInv'
  <2>1. BoxOf(t) \in Boxes /\ LockOf(BoxOf(t)) \in Locks
    BY <1>3, BoxOfType, Zenon DEF Spin
  <2>2. lock' \in [Locks -> Nat]
    BY <1>3, <2>1 DEF TypeInv, Spin
  <2>3. pc' \in [Threads -> SenderPc \cup OwnerPc]
        /\ (\A s \in Senders : pc'[s] \in SenderPc) /\ (\A b \in Boxes : pc'[b] \in OwnerPc)
    BY <1>3, Zenon DEF TypeInv, Spin
  <2>4. \A s \in Senders : pc'[s] # "idle" => pc[s] # "idle"
    BY <1>3, Zenon DEF TypeInv, Spin
  <2> QED
    BY <1>3, <2>2, <2>3, <2>4, Zenon DEF TypeInv, Spin
<1>4. ASSUME NEW t \in Threads, Unlock(t) PROVE TypeInv'
  <2>1. BoxOf(t) \in Boxes /\ LockOf(BoxOf(t)) \in Locks
    BY <1>4, BoxOfType, Zenon DEF Unlock
  <2> QED
    BY <1>4, <2>1, Zenon DEF TypeInv, Unlock, AIR_MBOX_SYNCH_VALUE
<1>5. ASSUME NEW s \in Senders, GetFree(s) PROVE TypeInv'
  <2>1. box[s] \in Boxes /\ list_inbox[box[s]] \in Seq(Messages)
    BY <1>5, Zenon DEF TypeInv, GetFree
  <2>2. list_free' \in [Boxes -> Nat] /\ malloced' \in [Boxes -> Nat]
    <3>1. CASE list_free[box[s]] > 0
      <4>1. list_free' = [list_free EXCEPT ![box[s]] = @ - 1] /\ malloced' = malloced
        BY <1>5, <3>1, Zenon DEF GetFree
      <4>2. list_free[box[s]] - 1 \in Nat
        BY <2>1, <3>1 DEF TypeInv
      <4> QED
        BY <4>1, <4>2, Zenon DEF TypeInv
    <3>2. CASE ~(list_free[box[s]] > 0)
      <4>1. malloced' = [malloced EXCEPT ![box[s]] = @ + 1] /\ list_free' = list_free
        BY <1>5, <3>2, Zenon DEF GetFree
      <4> QED
        BY <2>1, <4>1 DEF TypeInv
    <3> QED
      BY <3>1, <3>2, Zenon
  <2>3. inbox' \in [Threads -> Seq(Messages)]
    BY <1>5, <2>1, Zenon DEF TypeInv, GetFree
  <2>4. /\ pc' \in [Threads -> SenderPc \cup OwnerPc]
        /\ \A u \in Senders : pc'[u] \in SenderPc /\ (pc'[u] # "idle" => pc[u] # "idle")
        /\ \A b \in Boxes : pc'[b] \in OwnerPc
    BY <1>5 DEF TypeInv, GetFree
  <2> QED
    BY <1>5, <2>2, <2>3, <2>4, Zenon DEF TypeInv, GetFree
<1>6. ASSUME NEW s \in Senders, Insert(s) PROVE TypeInv'
  <2>1. Append(inbox[s], <<s, sent[s]>>) \in Seq(Messages)
    BY <1>6 DEF TypeInv, Insert, Messages
  <2> QED
    BY <1>6, <2>1, Zenon DEF TypeInv, Insert
<1>7. ASSUME NEW b \in Boxes, Poll(b) PROVE TypeInv'
  BY <1>7 DEF TypeInv, Poll
<1>8. ASSUME NEW b \in Boxes, ReadInbox(b) PROVE TypeInv'
  BY <1>8 DEF TypeInv, ReadInbox
<1>9. ASSUME NEW b \in Boxes, Take(b) PROVE TypeInv'
  <2>1. Tail(inbox[b]) \in Seq(Messages)
    BY <1>9 DEF TypeInv, Take
  <2> QED
    BY <1>9, <2>1 DEF TypeInv, Take
<1> QED
  BY <1>1, <1>2, <1>3, <1>4, <1>5, <1>6, <1>7, <1>8, <1>9, Zenon
  DEF Next, LpelMailboxSend, LpelMailboxRecv, Done

-----------------------------------------------------------------------------
(* A step in which no thread gets a lock or changes one. *)
LEMMA LockFrame ==
  ASSUME LockInv, lock' = lock,
         \A u \in Threads : Holds(u)' => Holds(u) /\ BoxOf(u)' = BoxOf(u)
  PROVE LockInv'
  BY Zenon DEF LockInv, OneHolder, LockOf, mbox_ID

(* Locks exclude: a thread gets in when the lock has the value that no       *)
(* holder leaves in it, and only the holder writes that value.               *)
LEMMA LockStep == TypeInv /\ LockInv /\ [Next]_vars => LockInv'
<1> SUFFICES ASSUME TypeInv, LockInv, [Next]_vars PROVE LockInv'
  BY Zenon
<1> USE SccAssumption
<1>1. CASE UNCHANGED vars
  BY <1>1, LockFrame, Zenon DEF vars, Holds, BoxOf
<1>2. ASSUME NEW s \in Senders, NEW b \in Boxes, SendCall(s, b) PROVE LockInv'
  BY <1>2, LockFrame, Zenon DEF TypeInv, SendCall, Holds, BoxOf, Threads
<1>3. ASSUME NEW t \in Threads, Spin(t) PROVE LockInv'
  <2> DEFINE l == LockOf(BoxOf(t))
  <2>1. l \in Locks /\ lock[l] \in Nat
    BY <1>3, BoxOfType, Zenon DEF Spin, TypeInv
  <2>2. \A u \in Threads : BoxOf(u)' = BoxOf(u) /\ LockOf(BoxOf(u))' = LockOf(BoxOf(u))
    BY <1>3, Zenon DEF Spin, BoxOf, LockOf, mbox_ID
  <2>3. lock'[l] # 0 /\ \A k \in Locks \ {l} : lock'[k] = lock[k]
    BY <1>3, <2>1 DEF Spin, TypeInv
  <2>4. \A u \in Threads \ {t} : Holds(u)' <=> Holds(u)
    BY <1>3, Zenon DEF Spin, TypeInv, Holds
  <2>5. Holds(t)' => lock[l] = 0
    BY <1>3, Zenon DEF Spin, TypeInv, Holds, AIR_MBOX_SYNCH_VALUE
  <2>6. \A u \in Threads : Holds(u)' => LockOf(BoxOf(u)) \in Locks
    <3>1. \A u \in Threads : Holds(u)' => pc[u] # "idle"
      BY <1>3, <2>4, Zenon DEF Spin, Holds
    <3> QED
      BY <3>1, BoxOfType, Zenon
  <2>7. OneHolder'
    BY <2>2, <2>4, <2>5 DEF LockInv, OneHolder, AIR_MBOX_SYNCH_VALUE
  <2>8. \A u \in Threads : Holds(u)' => lock'[LockOf(BoxOf(u))] # 0
    BY <2>3, <2>4, <2>6, Zenon DEF LockInv, AIR_MBOX_SYNCH_VALUE
  <2> QED
    BY <2>2, <2>7, <2>8, Zenon DEF LockInv, AIR_MBOX_SYNCH_VALUE
<1>4. ASSUME NEW t \in Threads, Unlock(t) PROVE LockInv'
  <2> DEFINE l == LockOf(BoxOf(t))
  <2>1. l \in Locks /\ Holds(t)
    BY <1>4, BoxOfType, Zenon DEF Unlock, Holds
  <2>2. \A u \in Threads : BoxOf(u)' = BoxOf(u) /\ LockOf(BoxOf(u))' = LockOf(BoxOf(u))
    BY <1>4, Zenon DEF Unlock, BoxOf, LockOf, mbox_ID
  <2>3. \A u \in Threads : Holds(u)' => Holds(u) /\ u # t
    BY <1>4, Zenon DEF Unlock, TypeInv, Holds
  <2>4. \A u \in Threads : Holds(u)' => LockOf(BoxOf(u)) # l /\ LockOf(BoxOf(u)) \in Locks
    <3>1. \A u \in Threads : Holds(u)' => LockOf(BoxOf(u)) # l
      BY <2>1, <2>3, Zenon DEF LockInv, OneHolder
    <3>2. \A u \in Threads : Holds(u) => pc[u] # "idle"
      BY Zenon DEF Holds
    <3> QED
      BY <2>3, <3>1, <3>2, BoxOfType, Zenon
  <2>5. \A k \in Locks \ {l} : lock'[k] = lock[k]
    BY <1>4, <2>1, Zenon DEF Unlock, TypeInv
  <2>6. \A u \in Threads : Holds(u)' => lock'[LockOf(BoxOf(u))] # AIR_MBOX_SYNCH_VALUE
    BY <2>3, <2>4, <2>5, Zenon DEF LockInv
  <2>7. OneHolder'
    BY <2>2, <2>3, Zenon DEF LockInv, OneHolder
  <2> QED
    BY <2>2, <2>6, <2>7, Zenon DEF LockInv, AIR_MBOX_SYNCH_VALUE
<1>5. ASSUME NEW s \in Senders, GetFree(s) \/ Insert(s) PROVE LockInv'
  BY <1>5, LockFrame, Zenon DEF TypeInv, GetFree, Insert, Holds, BoxOf, Threads
<1>6. ASSUME NEW b \in Boxes, Poll(b) \/ ReadInbox(b) \/ Take(b) PROVE LockInv'
  BY <1>6, LockFrame, Zenon DEF TypeInv, Poll, ReadInbox, Take, Holds, BoxOf, Threads
<1> QED
  BY <1>1, <1>2, <1>3, <1>4, <1>5, <1>6, Zenon
  DEF Next, LpelMailboxSend, LpelMailboxRecv, Done, Threads

-----------------------------------------------------------------------------
(* Nobody but the holder changes a list, so what it has read stays true. *)
LEMMA ReadStep == TypeInv /\ LockInv /\ ReadInv /\ [Next]_vars => ReadInv'
<1> SUFFICES ASSUME TypeInv, LockInv, ReadInv, [Next]_vars PROVE ReadInv'
  BY Zenon
<1> USE SccAssumption
<1>1. CASE UNCHANGED vars
  BY <1>1, Zenon DEF vars, ReadInv, BoxOf
<1>2. ASSUME NEW s \in Senders, NEW b \in Boxes, SendCall(s, b) PROVE ReadInv'
  BY <1>2, Zenon DEF TypeInv, SendCall, ReadInv, BoxOf, Threads
<1>3. ASSUME NEW t \in Threads, Spin(t) \/ Unlock(t) PROVE ReadInv'
  BY <1>3 DEF TypeInv, Spin, Unlock, ReadInv, BoxOf
<1>4. ASSUME NEW s \in Senders, GetFree(s) PROVE ReadInv'
  <2>1. /\ \A u \in Threads : BoxOf(u)' = BoxOf(u)
        /\ \A u \in Threads \ {s} : pc'[u] = pc[u] /\ inbox'[u] = inbox[u]
        /\ BoxOf(s) = box[s] /\ inbox'[s] = list_inbox[box[s]] /\ list_inbox' = list_inbox
    BY <1>4, Zenon DEF TypeInv, GetFree, BoxOf, Threads
  <2> QED
    BY <2>1, Zenon DEF ReadInv
<1>5. ASSUME NEW b \in Boxes, Poll(b) \/ ReadInbox(b) PROVE ReadInv'
  <2>1. /\ \A u \in Threads : BoxOf(u)' = BoxOf(u)
        /\ \A u \in Threads \ {b} : pc'[u] = pc[u] /\ inbox'[u] = inbox[u]
        /\ list_inbox' = list_inbox /\ BoxOf(b) = b
    BY <1>5, Zenon DEF TypeInv, Poll, ReadInbox, BoxOf, Threads
  <2>2. pc'[b] \in {"insert", "take"} => inbox'[b] = list_inbox[b]
    BY <1>5, Zenon DEF TypeInv, Poll, ReadInbox, Threads
  <2> QED
    BY <2>1, <2>2, Zenon DEF ReadInv
<1>6. ASSUME NEW t \in Threads, pc[t] \in {"insert", "take"},
             pc' = [pc EXCEPT ![t] = "unlock"], UNCHANGED <<box, inbox>>,
             \A b \in Boxes \ {BoxOf(t)} : list_inbox'[b] = list_inbox[b]
      PROVE ReadInv'
  <2> SUFFICES ASSUME NEW u \in Threads, pc'[u] \in {"insert", "take"}
               PROVE inbox'[u] = list_inbox'[BoxOf(u)']
    BY Zenon DEF ReadInv
  <2>1. u # t /\ pc[u] \in {"insert", "take"} /\ BoxOf(u)' = BoxOf(u)
    BY <1>6, Zenon DEF TypeInv, BoxOf
  <2>2. BoxOf(u) # BoxOf(t)
    BY <1>6, <2>1, Zenon DEF LockInv, OneHolder, Holds
  <2>3. BoxOf(u) \in Boxes
    BY <2>1, BoxOfType, Zenon
  <2> QED
    BY <1>6, <2>1, <2>2, <2>3, Zenon DEF ReadInv
<1>7. ASSUME NEW s \in Senders, Insert(s) PROVE ReadInv'
  <2>1. BoxOf(s) = box[s]
    BY Zenon DEF BoxOf
  <2> QED
    BY <1>6, <1>7, <2>1, Zenon DEF Insert, TypeInv, Threads
<1>8. ASSUME NEW b \in Boxes, Take(b) PROVE ReadInv'
  <2>1. BoxOf(b) = b
    BY Zenon DEF BoxOf
  <2> QED
    BY <1>6, <1>8, <2>1, Zenon DEF Take, TypeInv, Threads
<1> QED
  BY <1>1, <1>2, <1>3, <1>4, <1>5, <1>7, <1>8, Zenon
  DEF Next, LpelMailboxSend, LpelMailboxRecv, Done, Threads

(* A message that the receiver has seen without the lock stays in the inbox. *)
LEMMA PolledStep == TypeInv /\ PolledInv /\ [Next]_vars => PolledInv'
<1> SUFFICES ASSUME TypeInv, PolledInv, [Next]_vars PROVE PolledInv'
  BY Zenon
<1> USE SccAssumption
<1>1. CASE UNCHANGED vars
  BY <1>1, Zenon DEF vars, PolledInv
<1>2. ASSUME NEW s \in Senders, NEW b \in Boxes, SendCall(s, b) PROVE PolledInv'
  BY <1>2 DEF TypeInv, SendCall, PolledInv, Threads
<1>3. ASSUME NEW t \in Threads, Spin(t) \/ Unlock(t) PROVE PolledInv'
  BY <1>3, Zenon DEF TypeInv, Spin, Unlock, PolledInv, Threads
<1>4. ASSUME NEW s \in Senders, GetFree(s) PROVE PolledInv'
  BY <1>4, Zenon DEF TypeInv, GetFree, PolledInv, Threads
<1>5. ASSUME NEW s \in Senders, Insert(s) PROVE PolledInv'
  <2>1. Append(inbox[s], <<s, sent[s]>>) # <<>>
    <3>1. inbox[s] \in Seq(Messages) /\ <<s, sent[s]>> \in Messages
      BY <1>5, Zenon DEF TypeInv, Insert, Messages, Threads
    <3>2. \A q \in Seq(Messages), m \in Messages : Append(q, m) # <<>>
      OBVIOUS
    <3> QED
      BY <3>1, <3>2, Zenon
  <2>2. \A b \in Boxes : list_inbox'[b] = list_inbox[b] \/ list_inbox'[b] # <<>>
    <3> DEFINE q == Append(inbox[s], <<s, sent[s]>>)
    <3>1. list_inbox' = [list_inbox EXCEPT ![box[s]] = q]
      BY <1>5, Zenon DEF Insert
    <3>2. q # <<>>
      BY <2>1, Zenon
    <3> HIDE DEF q
    <3> QED
      BY <3>1, <3>2, Zenon DEF TypeInv
  <2>3. \A b \in Boxes : pc'[b] = pc[b]
    BY <1>5, Zenon DEF TypeInv, Insert, Threads
  <2> QED
    BY <2>2, <2>3, Zenon DEF PolledInv
<1>6. ASSUME NEW b \in Boxes, Poll(b) \/ ReadInbox(b) \/ Take(b) PROVE PolledInv'
  BY <1>6, ZenonT(30) DEF TypeInv, Poll, ReadInbox, Take, PolledInv, Threads
<1> QED
  BY <1>1, <1>2, <1>3, <1>4, <1>5, <1>6, Zenon
  DEF Next, LpelMailboxSend, LpelMailboxRecv, Done, Threads

(* A step that leaves the lists and the senders that insert as they are. *)
LEMMA NodesFrame ==
  ASSUME NodesInv, UNCHANGED <<list_inbox, list_free, malloced>>,
         \A s \in Senders : pc'[s] = "insert" <=> pc[s] = "insert",
         \A s \in Senders : pc[s] = "insert" => box'[s] = box[s]
  PROVE NodesInv'
<1>1. \A b \in Boxes : InHand(b)' <=> InHand(b)
  BY Zenon DEF InHand
<1> QED
  BY <1>1, Zenon DEF NodesInv

(* At most one sender has a node of a mailbox in hand. *)
LEMMA OneInHand ==
  ASSUME TypeInv, LockInv, NEW s \in Senders, pc[s] \in {"locked", "insert"},
         NEW u \in Senders, pc[u] = "insert", box[u] = box[s]
  PROVE u = s
<1>1. BoxOf(u) = BoxOf(s) /\ Holds(u) /\ Holds(s) /\ u \in Threads /\ s \in Threads
  BY SccAssumption, Zenon DEF BoxOf, Holds, Threads
<1> QED
  BY <1>1, Zenon DEF LockInv, OneHolder

(* Nodes move between the free list, the hand of a sender and the inbox. *)
LEMMA NodesStep == TypeInv /\ LockInv /\ ReadInv /\ NodesInv /\ [Next]_vars => NodesInv'
<1> SUFFICES ASSUME TypeInv, LockInv, ReadInv, NodesInv, [Next]_vars PROVE NodesInv'
  BY Zenon
<1> USE SccAssumption
<1>1. CASE UNCHANGED vars
  BY <1>1, NodesFrame, Zenon DEF vars
<1>2. ASSUME NEW s \in Senders, NEW b \in Boxes, SendCall(s, b) PROVE NodesInv'
  BY <1>2, NodesFrame, Zenon DEF TypeInv, SendCall, Threads
<1>3. ASSUME NEW t \in Threads, Spin(t) \/ Unlock(t) PROVE NodesInv'
  BY <1>3, NodesFrame, Zenon DEF TypeInv, Spin, Unlock, Threads
<1>4. ASSUME NEW b \in Boxes, Poll(b) \/ ReadInbox(b) PROVE NodesInv'
  BY <1>4, NodesFrame, Zenon DEF TypeInv, Poll, ReadInbox, Threads
<1>5. ASSUME NEW s \in Senders, GetFree(s) PROVE NodesInv'
  <2>0. PICK b \in Boxes : b = box[s]
    BY <1>5, Zenon DEF GetFree, TypeInv
  <2>1. ~InHand(b) /\ InHand(b)'
    BY <1>5, <2>0, OneInHand, Zenon DEF GetFree, InHand, TypeInv, Threads
  <2>2. \A c \in Boxes \ {b} : InHand(c)' <=> InHand(c)
    BY <1>5, <2>0, Zenon DEF GetFree, InHand, TypeInv, Threads
  <2>3. \A c \in Boxes \ {b} : list_free'[c] = list_free[c] /\ malloced'[c] = malloced[c]
    BY <1>5, <2>0, Zenon DEF GetFree, TypeInv
  <2>4. list_inbox' = list_inbox
    BY <1>5, Zenon DEF GetFree
  <2>5. list_free[b] \in Nat /\ malloced[b] \in Nat /\ Len(list_inbox[b]) \in Nat
    BY DEF TypeInv
  <2>6. malloced[b] = Len(list_inbox[b]) + list_free[b]
    BY <2>1, Zenon DEF NodesInv
  <2>7. malloced'[b] = Len(list_inbox[b]) + list_free'[b] + 1
    <3>1. CASE list_free[b] > 0
      <4>1. list_free'[b] = list_free[b] - 1 /\ malloced'[b] = malloced[b]
        BY <1>5, <2>0, <3>1, Zenon DEF GetFree, TypeInv
      <4> QED
        BY <2>5, <2>6, <4>1
    <3>2. CASE ~(list_free[b] > 0)
      <4>1. list_free'[b] = list_free[b] /\ malloced'[b] = malloced[b] + 1
        BY <1>5, <2>0, <3>2, Zenon DEF GetFree, TypeInv
      <4> QED
        BY <2>5, <2>6, <4>1, Zenon
    <3> QED
      BY <3>1, <3>2, Zenon
  <2> QED
    BY <2>1, <2>2, <2>3, <2>4, <2>7, Zenon DEF NodesInv
<1>6. ASSUME NEW s \in Senders, Insert(s) PROVE NodesInv'
  <2>0. PICK b \in Boxes : b = box[s]
    BY <1>6, Zenon DEF Insert, TypeInv
  <2>1. InHand(b)
    BY <1>6, <2>0, Zenon DEF Insert, InHand, TypeInv
  <2>2. ~InHand(b)'
    BY <1>6, <2>0, OneInHand, Zenon DEF Insert, InHand, TypeInv, Threads
  <2>3. \A c \in Boxes \ {b} : InHand(c)' <=> InHand(c)
    BY <1>6, <2>0, Zenon DEF Insert, InHand, TypeInv, Threads
  <2>4. inbox[s] = list_inbox[b]
    BY <1>6, <2>0, Zenon DEF Insert, ReadInv, BoxOf, Threads
  <2>5. list_inbox' = [list_inbox EXCEPT ![b] = Append(list_inbox[b], <<s, sent[s]>>)]
    BY <1>6, <2>0, <2>4, Zenon DEF Insert
  <2>6. Len(list_inbox'[b]) = Len(list_inbox[b]) + 1
    <3>1. list_inbox[b] \in Seq(Messages) /\ <<s, sent[s]>> \in Messages
      BY <1>6, <2>0, <2>1, Zenon DEF Insert, TypeInv, Messages
    <3>2. \A q \in Seq(Messages), m \in Messages : Len(Append(q, m)) = Len(q) + 1
      OBVIOUS
    <3> QED
      BY <2>1, <2>5, <3>1, <3>2, Zenon DEF TypeInv
  <2>7. \A c \in Boxes \ {b} : list_inbox'[c] = list_inbox[c]
    BY <2>5, Zenon DEF TypeInv
  <2>8. \A c \in Boxes : list_free[c] \in Nat /\ malloced[c] \in Nat /\ Len(list_inbox[c]) \in Nat
    BY DEF TypeInv
  <2>9. UNCHANGED <<list_free, malloced>>
    BY <1>6, Zenon DEF Insert
  <2>10. malloced'[b] = Len(list_inbox'[b]) + list_free'[b]
    BY <2>1, <2>6, <2>8, <2>9 DEF NodesInv
  <2> QED
    BY <2>1, <2>2, <2>3, <2>7, <2>9, <2>10, Zenon DEF NodesInv
<1>7. ASSUME NEW b \in Boxes, Take(b) PROVE NodesInv'
  <2>1. \A c \in Boxes : InHand(c)' <=> InHand(c)
    BY <1>7, Zenon DEF Take, InHand, TypeInv, Threads
  <2>2. inbox[b] = list_inbox[b] /\ list_inbox[b] # <<>>
    BY <1>7, Zenon DEF Take, ReadInv, BoxOf, Threads
  <2>3. list_inbox' = [list_inbox EXCEPT ![b] = Tail(list_inbox[b])]
        /\ list_free' = [list_free EXCEPT ![b] = @ + 1] /\ malloced' = malloced
    BY <1>7, <2>2, Zenon DEF Take
  <2>4. \A q \in Seq(Messages) : q # <<>> => Len(Tail(q)) = Len(q) - 1
    OBVIOUS
  <2>5. \A c \in Boxes : /\ list_inbox[c] \in Seq(Messages) /\ Len(list_inbox[c]) \in Nat
                        /\ list_free[c] \in Nat /\ malloced[c] \in Nat
    BY DEF TypeInv
  <2>6. Len(list_inbox'[b]) + list_free'[b] = Len(list_inbox[b]) + list_free[b]
    <3>1. Len(list_inbox'[b]) = Len(list_inbox[b]) - 1
      BY <2>2, <2>3, <2>4, <2>5, Zenon DEF TypeInv
    <3>2. list_free'[b] = list_free[b] + 1
      BY <2>3, Zenon DEF TypeInv
    <3> QED
      BY <2>5, <3>1, <3>2
  <2>7. \A c \in Boxes \ {b} : list_inbox'[c] = list_inbox[c] /\ list_free'[c] = list_free[c]
    BY <2>3, Zenon DEF TypeInv
  <2> QED
    BY <2>1, <2>3, <2>6, <2>7, ZenonT(30) DEF NodesInv
<1> QED
  BY <1>1, <1>2, <1>3, <1>4, <1>5, <1>6, <1>7, Zenon
  DEF Next, LpelMailboxSend, LpelMailboxRecv, Done, Threads

-----------------------------------------------------------------------------
(* The invariant holds in every reachable state. *)
THEOREM Invariance == Spec => []IInv
<1>1. IInv /\ [Next]_vars => IInv'
  BY TypeStep, LockStep, ReadStep, PolledStep, NodesStep, Zenon DEF IInv
<1> QED
  BY <1>1, InitIInv, PTL DEF Spec

(* The lock of a mailbox of the SCC port excludes, also when mailboxes share *)
(* a register.                                                               *)
THEOREM Exclusion == Spec => []OneHolder
<1>1. IInv => OneHolder
  BY Zenon DEF IInv, LockInv
<1> QED
  BY <1>1, Invariance, PTL

(* The assertion of LpelMailboxRecv() holds. *)
THEOREM AssertionHolds == Spec => []InboxAsserted
<1>1. IInv => InboxAsserted
  BY Zenon DEF IInv, PolledInv, InboxAsserted
<1> QED
  BY <1>1, Invariance, PTL

(* No node of a mailbox is lost or in use twice. *)
THEOREM NodesAreKept == Spec => []NodesKept
<1>1. IInv => NodesKept
  <2> SUFFICES ASSUME IInv, NEW b \in Boxes, lock[LockOf(b)] = AIR_MBOX_SYNCH_VALUE
               PROVE malloced[b] = Len(list_inbox[b]) + list_free[b]
    BY Zenon DEF NodesKept
  <2>1. ~InHand(b)
    <3> SUFFICES ASSUME NEW s \in Senders, pc[s] = "insert", box[s] = b PROVE FALSE
      BY Zenon DEF InHand
    <3>1. BoxOf(s) = b /\ Holds(s) /\ s \in Threads
      BY SccAssumption, Zenon DEF BoxOf, Holds, Threads
    <3> QED
      BY <3>1, Zenon DEF IInv, LockInv
  <2>2. Len(list_inbox[b]) + list_free[b] \in Nat
    BY DEF IInv, TypeInv
  <2> QED
    BY <2>1, <2>2, Zenon DEF IInv, NodesInv
<1> QED
  BY <1>1, Invariance, PTL

(* Each mailbox implements MsgQueue: an insertion of the holder appends to   *)
(* the list as it is, a receive takes its head, and other steps stutter.     *)
THEOREM Refinement == Spec => ImplementsQueues
<1> DEFINE Q == \A b \in Boxes : Abstract(b)!Next \/ UNCHANGED Abstract(b)!vars
<1>1. Init => \A b \in Boxes : Abstract(b)!Init
  BY Zenon DEF Init, Abstract!Init
<1>2. IInv /\ [Next]_vars => [Q]_vars
  <2> SUFFICES ASSUME IInv, Next PROVE Q
    BY Zenon
  <2> USE SccAssumption DEF IInv
  <2>1. CASE UNCHANGED <<list_inbox, received>>
    BY <2>1, Zenon DEF Abstract!vars
  <2>2. ASSUME NEW s \in Senders, Insert(s) PROVE Q
    <3>1. inbox[s] = list_inbox[box[s]] /\ box[s] \in Boxes /\ <<s, sent[s]>> \in Messages
      BY <2>2, Zenon DEF Insert, ReadInv, TypeInv, BoxOf, Threads, Messages
    <3>2. /\ list_inbox'[box[s]] = Append(list_inbox[box[s]], <<s, sent[s]>>)
          /\ \A b \in Boxes \ {box[s]} : list_inbox'[b] = list_inbox[b]
          /\ received' = received
      BY <2>2, <3>1, Zenon DEF Insert, TypeInv
    <3> QED
      BY <3>1, <3>2, Zenon DEF Abstract!vars, Abstract!Next, Abstract!Send
  <2>3. ASSUME NEW c \in Boxes, Take(c) PROVE Q
    <3>1. inbox[c] = list_inbox[c] /\ list_inbox[c] # <<>>
      BY <2>3, Zenon DEF Take, ReadInv, BoxOf, Threads
    <3>2. /\ list_inbox'[c] = Tail(list_inbox[c]) /\ received'[c] = <<Head(list_inbox[c])>>
          /\ \A b \in Boxes \ {c} : list_inbox'[b] = list_inbox[b] /\ received'[b] = received[b]
      BY <2>3, <3>1, Zenon DEF Take, TypeInv
    <3> QED
      BY <3>1, <3>2, Zenon DEF Abstract!vars, Abstract!Next, Abstract!Recv
  <2> QED
    BY <2>1, <2>2, <2>3, Zenon DEF Next, LpelMailboxSend, LpelMailboxRecv, Done, SendCall, Spin,
       Unlock, GetFree, Poll, ReadInbox, vars
<1> QED
  BY <1>1, <1>2, Invariance, PTL DEF Spec, ImplementsQueues
=============================================================================
