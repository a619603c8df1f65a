------------------------------- MODULE MCLive -------------------------------
(***************************************************************************)
(* What must eventually happen in the decentralised workers, in a mailbox  *)
(* and in the streams of the HRC back-end, side by side: `part' says which *)
(* of them a behaviour is about.                                           *)
(***************************************************************************)
EXTENDS DecenWorker

CONSTANTS
  t1, t2,
  Senders, Nodes     \* Mailbox

VARIABLES
  part,
  list_free, list_inbox, next, msg, allocated, mspc, snode, sent, rpc, rnode, rmsg,
  use, linked, tail, n_sem, e_sem, is_poll, prod_lock, level, spc, poll_wakeup, swait,
  term, prodStream, cpc, csd, cwait, set, cnt, pos, poll_token, wakeup_sd

(* One of two tasks yields over and over *)
YieldingTask == {[mechanism |-> "NONE", tasks |-> {t1, t2}, yielding |-> {t1}, prios |-> {0}]}
(* The consumer of two streams, one of them bounded, reads what it polled *)
Uses == {[streams |-> 2, pollfirst |-> TRUE, closing |-> "never"]}

Mbox == INSTANCE Mailbox WITH MaxSend <- 2, spc <- mspc
Str == INSTANCE HrcStream WITH
         NumStreams <- 2, EntryStreams <- {1}, BufSize <- 1, MaxFill <- 2

mboxVars ==
  <<list_free, list_inbox, next, msg, allocated, mspc, snode, sent, rpc, rnode, rmsg>>
strVars ==
  <<use, linked, tail, n_sem, e_sem, is_poll, prod_lock, level, spc, poll_wakeup, swait,
    term, prodStream, cpc, csd, cwait, set, cnt, pos, poll_token, wakeup_sd>>
mcvars == <<part, vars, mboxVars, strVars>>

MCInit == part \in {"decen", "mailbox", "stream"} /\ Init /\ Mbox!Init /\ Str!Init

MCNext ==
  \/ part = "decen" /\ Next /\ UNCHANGED <<part, mboxVars, strVars>>
  \/ part = "mailbox" /\ Mbox!Next /\ UNCHANGED <<part, vars, strVars>>
  \/ part = "stream" /\ Str!Next /\ UNCHANGED <<part, vars, mboxVars>>

(* Threads are scheduled by the operating system.  Tasks are cooperative:   *)
(* LPEL can only run one when another stops, so a running task is taken to  *)
(* stop; it may yield for ever, but not after LpelStop(), when it is taken  *)
(* to exit.  The other end of a stream is taken to be served.               *)
DecenFairness ==
  /\ WF_vars(part = "decen" /\ LpelWorkerBroadcast)
  /\ WF_vars(part = "decen" /\ LpelWorkersCleanup)
  /\ \A w \in Workers : WF_vars(part = "decen" /\ WorkerThread(w))
  /\ \A t \in Tasks :
       /\ WF_vars(part = "decen" /\ WakeupByMessage(t))
       /\ WF_vars(part = "decen" /\ \E w \in Workers : Stops(w, t))
       /\ SF_vars(part = "decen" /\ mainpc # "run" /\ \E w \in Workers : LpelTaskExit(w, t))

(* Threads that are in a call keep running, and the owner of the mailbox     *)
(* keeps calling LpelMailboxRecv(); no wake-up without a signal is relied on. *)
MailboxFairness ==
  /\ \A s \in Senders : WF_mboxVars(part = "mailbox" /\ (Mbox!CopyIn(s) \/ Mbox!Insert(s)))
  /\ WF_mboxVars(part = "mailbox" /\ Mbox!RecvCall)
  /\ WF_mboxVars(part = "mailbox" /\ Mbox!LpelMailboxRecv)

(* Tasks that are in a call and not blocked are run (HrcSched), and the      *)
(* consumer keeps polling; nobody has to write.                              *)
StreamFairness ==
  /\ WF_strVars(part = "stream" /\ Str!Consumer)
  /\ \A s \in 1 .. 2 : WF_strVars(part = "stream" /\ Str!LpelStreamWrite(s))

LiveSpec ==
  /\ MCInit /\ [][MCNext]_mcvars
  /\ DecenFairness /\ MailboxFairness /\ StreamFairness

-----------------------------------------------------------------------------
(* WokenRuns and StopTerminates are those of DecenWorker.                    *)

(* A message that was sent is received: the signal to a receiver that found  *)
(* the inbox empty is not lost (LpelMailboxSend() and LpelMailboxRecv())     *)
MessageReceived == Mbox!MessageReceived

(* No stream of a set is starved by the others: LpelStreamPoll() rotates it  *)
NoStreamStarved == Str!NoStreamStarved
=============================================================================
