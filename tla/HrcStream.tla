------------------------------ MODULE HrcStream ------------------------------
(***************************************************************************)
(* Streams between tasks (hrc_stream.c, hrc_buffer.c): one consumer task   *)
(* reads, polls and closes a set of streams, each written by a producer    *)
(* task of its own.  A step is one access to shared data, or one critical  *)
(* section under prod_lock where the code in it touches nothing that is    *)
(* read without the lock.  Blocking and waking a task are what HrcSched    *)
(* makes of them: a task that waits is woken once and then runs again.     *)
(*                                                                         *)
(* Addresses and counters are kept relative to the reader, so that streams *)
(* may run forever: the buffer is a chain of nodes counted from buf->head. *)
(***************************************************************************)
EXTENDS Integers, Sequences

CONSTANTS
  NumStreams,     \* the most streams a consumer has
  EntryStreams,   \* those of type LPEL_STREAM_ENTRY, which are bounded
  BufSize,        \* size given to LpelStreamCreate() for these
  MaxFill,        \* bound: items in a stream that is not bounded by the code
  Uses            \* how programs use streams, see Use

Streams == 1 .. NumStreams

(* A program: the number of its streams, whether the consumer reads only     *)
(* what LpelStreamPoll() returned, and whether streams end with a terminate  *)
(* record and when the consumer then closes them (see LpelStreamClose)       *)
Use == [streams : 1 .. NumStreams, pollfirst : BOOLEAN,
        closing : {"never", "at once", "synchronised"}]

ASSUME StreamAssumption ==
  /\ NumStreams \in Nat
  /\ EntryStreams \subseteq Streams
  /\ BufSize \in Nat \ {0} /\ MaxFill \in Nat \ {0}
  /\ Uses \subseteq Use

VARIABLES
  use,
  linked,      \* nodes that follow buf->head in the chain: unread items
  tail,        \* position of the node buf->tail points to, 0 is buf->head
  n_sem, e_sem,
  is_poll,
  prod_lock,   \* the producer holds prod_lock
  level,       \* write_cnt - read_cnt
  spc,         \* where the producer of s is in LpelStreamWrite()
  poll_wakeup, \* local variable of LpelStreamWrite()
  swait,       \* how the producer of s waits
  term,        \* the producer of s has begun to write the terminate record
  prodStream,  \* prod_sd->stream is not NULL
  cpc,         \* where the consumer is
  csd,         \* the stream it reads, or got from LpelStreamPoll()
  cwait,       \* how the consumer waits
  set,         \* the stream set, in the order of iteration; *set is the last
  cnt,         \* registered streams, local variable of LpelStreamPoll()
  pos,         \* position of its iterator
  poll_token, wakeup_sd

bufVars == <<linked, tail>>
semVars == <<n_sem, e_sem>>
prodVars == <<spc, poll_wakeup, swait, term>>
pollVars == <<set, cnt, pos, poll_token, wakeup_sd>>
consVars == <<cpc, csd, cwait, pollVars>>
vars == <<use, bufVars, semVars, is_poll, prod_lock, level, prodVars, prodStream,
          consVars>>

Init ==
  /\ use \in Uses
  /\ linked = [s \in Streams |-> 0] /\ tail = [s \in Streams |-> 0]
  /\ n_sem = [s \in Streams |-> 0] /\ e_sem = [s \in Streams |-> BufSize]
  /\ is_poll = [s \in Streams |-> FALSE] /\ prod_lock = [s \in Streams |-> FALSE]
  /\ level = [s \in Streams |-> 0]
  /\ spc = [s \in Streams |-> "idle"] /\ poll_wakeup = [s \in Streams |-> FALSE]
  /\ swait = [s \in Streams |-> "none"] /\ term = [s \in Streams |-> FALSE]
  /\ prodStream = [s \in Streams |-> s <= use.streams]
  /\ cpc = "idle" /\ csd = 0 /\ cwait = "none"
  /\ set = [s \in 1 .. use.streams |-> s]
  /\ cnt = 0 /\ pos = 0 /\ poll_token = FALSE /\ wakeup_sd = 0

Goto(s, l) == spc' = [spc EXCEPT ![s] = l]

-----------------------------------------------------------------------------
(* LpelStreamWrite() by the producer of s *)

(* The call, up to the quasi P(e_sem) of an entry stream *)
WriteCall(s) ==
  /\ spc[s] = "idle" /\ prodStream[s] /\ ~term[s]
  /\ s \in EntryStreams \/ linked[s] < MaxFill
  /\ term' \in {term, [term EXCEPT ![s] = use.closing # "never"]}
  /\ poll_wakeup' = [poll_wakeup EXCEPT ![s] = FALSE]
  /\ IF s \in EntryStreams
     THEN /\ e_sem' = [e_sem EXCEPT ![s] = @ - 1]
          /\ Goto(s, IF e_sem[s] = 0 THEN "blocked" ELSE "put")
          /\ swait' = IF e_sem[s] = 0 THEN [swait EXCEPT ![s] = "waiting"] ELSE swait
     ELSE Goto(s, "put") /\ UNCHANGED <<e_sem, swait>>
  /\ UNCHANGED <<use, bufVars, n_sem, is_poll, prod_lock, level, prodStream, consVars>>

(* LpelTaskBlockStream() returns *)
WriteResume(s) ==
  /\ spc[s] = "blocked" /\ swait[s] = "signalled"
  /\ swait' = [swait EXCEPT ![s] = "none"]
  /\ Goto(s, "put")
  /\ UNCHANGED <<use, bufVars, semVars, is_poll, prod_lock, level, poll_wakeup, term,
                 prodStream, consVars>>

(* LpelBufferPut(), first store: the item is visible to the consumer *)
PutLink(s) ==
  /\ spc[s] = "put" /\ ~prod_lock[s]
  /\ prod_lock' = [prod_lock EXCEPT ![s] = TRUE]
  /\ linked' = [linked EXCEPT ![s] = @ + 1]
  /\ Goto(s, "tail")
  /\ UNCHANGED <<use, tail, semVars, is_poll, level, poll_wakeup, swait, term,
                 prodStream, consVars>>

(* LpelBufferPut(), second store: buf->tail = buf->tail->next *)
PutTail(s) ==
  /\ spc[s] = "tail"
  /\ tail' = [tail EXCEPT ![s] = @ + 1]
  /\ Goto(s, "token")
  /\ UNCHANGED <<use, linked, semVars, is_poll, prod_lock, level, poll_wakeup, swait,
                 term, prodStream, consVars>>

(* The rest of the critical section; with the token goes the right to wake  *)
(* the consumer, which from now on waits for it.                             *)
CheckPoll(s) ==
  /\ spc[s] = "token"
  /\ prod_lock' = [prod_lock EXCEPT ![s] = FALSE]
  /\ Goto(s, "V")
  /\ IF is_poll[s]
     THEN /\ poll_wakeup' = [poll_wakeup EXCEPT ![s] = poll_token]
          /\ poll_token' = FALSE
          /\ cwait' = IF poll_token THEN "waiting" ELSE cwait
          /\ is_poll' = [is_poll EXCEPT ![s] = FALSE]
     ELSE UNCHANGED <<poll_wakeup, poll_token, cwait, is_poll>>
  /\ UNCHANGED <<use, bufVars, semVars, level, swait, term, prodStream, cpc, csd,
                 set, cnt, pos, wakeup_sd>>

(* fault: a consumer that waits for an item is not noticed *)
NotifyReaderLate(s) == n_sem[s] < -1
(* fault: off by one, a consumer that does not wait is woken *)
NotifyReaderEarly(s) == n_sem[s] < 1
(* atomic_fetch_add(&n_sem, 1) returned a negative value *)
NotifyReader(s) == n_sem[s] < 0

(* Quasi V(n_sem) *)
WriteV(s) ==
  /\ spc[s] = "V"
  /\ n_sem' = [n_sem EXCEPT ![s] = @ + 1]
  /\ Goto(s, IF NotifyReader(s) THEN "unblock"
             ELSE IF poll_wakeup[s] THEN "pollunblock" ELSE "count")
  /\ UNCHANGED <<use, bufVars, e_sem, is_poll, prod_lock, level, poll_wakeup, swait,
                 term, prodStream, consVars>>

(* LpelTaskUnblock(cons), after telling a poller which stream has data *)
WakeConsumer(s) ==
  /\ spc[s] \in {"unblock", "pollunblock"}
  /\ wakeup_sd' = IF spc[s] = "pollunblock" THEN s ELSE wakeup_sd
  /\ cwait' = "signalled"
  /\ Goto(s, "count")
  /\ UNCHANGED <<use, bufVars, semVars, is_poll, prod_lock, level, poll_wakeup, swait,
                 term, prodStream, cpc, csd, set, cnt, pos, poll_token>>

(* sd->stream->write_cnt++ *)
CountWrite(s) ==
  /\ spc[s] = "count"
  /\ level' = [level EXCEPT ![s] = @ + 1]
  /\ Goto(s, "idle")
  /\ UNCHANGED <<use, bufVars, semVars, is_poll, prod_lock, poll_wakeup, swait, term,
                 prodStream, consVars>>

LpelStreamWrite(s) ==
  \/ WriteResume(s) \/ PutLink(s) \/ PutTail(s) \/ CheckPoll(s)
  \/ WriteV(s) \/ WakeConsumer(s) \/ CountWrite(s)

-----------------------------------------------------------------------------
(* LpelStreamRead() by the consumer *)

(* fault: an item in the buffer is taken for one that was handed over *)
ReadBySight(s) ==
  /\ n_sem' = [n_sem EXCEPT ![s] = @ - 1]
  /\ csd' = s
  /\ cpc' = IF linked[s] = 0 THEN "rblocked" ELSE "pop"
  /\ cwait' = IF linked[s] = 0 THEN "waiting" ELSE cwait

(* Quasi P(n_sem) *)
ReadP(s) ==
  /\ n_sem' = [n_sem EXCEPT ![s] = @ - 1]
  /\ csd' = s
  /\ cpc' = IF n_sem[s] = 0 THEN "rblocked" ELSE "pop"
  /\ cwait' = IF n_sem[s] = 0 THEN "waiting" ELSE cwait

ReadCall(s) ==
  /\ \/ cpc = "idle" /\ ~use.pollfirst
     \/ cpc = "polled" /\ s = csd
  /\ ReadP(s)
  /\ UNCHANGED <<use, bufVars, e_sem, is_poll, prod_lock, level, prodVars, prodStream,
                 pollVars>>

ReadResume ==
  /\ cpc = "rblocked" /\ cwait = "signalled"
  /\ cwait' = "none"
  /\ cpc' = "pop"
  /\ UNCHANGED <<use, bufVars, semVars, is_poll, prod_lock, level, prodVars, prodStream,
                 csd, pollVars>>

(* LpelBufferTop() and LpelBufferPop(): head moves on, the old one is freed *)
Pop ==
  /\ cpc = "pop"
  /\ linked' = [linked EXCEPT ![csd] = @ - 1]
  /\ tail' = [tail EXCEPT ![csd] = @ - 1]
  /\ cpc' = IF csd \in EntryStreams THEN "V" ELSE "count"
  /\ UNCHANGED <<use, semVars, is_poll, prod_lock, level, prodVars, prodStream, csd,
                 cwait, pollVars>>

(* atomic_fetch_add(&e_sem, 1) returned a negative value *)
NotifyWriter(s) == e_sem[s] < 0

(* Quasi V(e_sem) *)
ReadV ==
  /\ cpc = "V"
  /\ e_sem' = [e_sem EXCEPT ![csd] = @ + 1]
  /\ cpc' = IF NotifyWriter(csd) THEN "unblock" ELSE "count"
  /\ UNCHANGED <<use, bufVars, n_sem, is_poll, prod_lock, level, prodVars, prodStream,
                 csd, cwait, pollVars>>

(* LpelTaskUnblock(prod) *)
WakeProducer ==
  /\ cpc = "unblock"
  /\ swait' = [swait EXCEPT ![csd] = "signalled"]
  /\ cpc' = "count"
  /\ UNCHANGED <<use, bufVars, semVars, is_poll, prod_lock, level, spc, poll_wakeup, term,
                 prodStream, csd, cwait, pollVars>>

(* The item just read is the last that was written, a terminate record *)
Terminated(s) == term[s] /\ linked[s] = 0 /\ spc[s] \in {"count", "idle"}

(* read_cnt++; the task closes the stream when it got the terminate record *)
CountRead ==
  /\ cpc = "count"
  /\ level' = [level EXCEPT ![csd] = @ - 1]
  /\ cpc' = IF Terminated(csd) THEN "close" ELSE "idle"
  /\ UNCHANGED <<use, bufVars, semVars, is_poll, prod_lock, prodVars, prodStream, csd,
                 cwait, pollVars>>

(* Where s is in the set *)
Position(s) == CHOOSE i \in DOMAIN set : set[i] = s

LpelStreamsetRemove(s) ==
  [i \in 1 .. Len(set) - 1 |-> IF i < Position(s) THEN set[i] ELSE set[i + 1]]

(* LpelStreamClose(sd, 1), after LpelStreamsetRemove(): right after reading  *)
(* the terminate record, or when the application has made sure that the      *)
(* producer has returned from writing it                                     *)
LpelStreamClose ==
  /\ cpc = "close"
  /\ use.closing = "synchronised" => spc[csd] = "idle"
  /\ set' = LpelStreamsetRemove(csd)
  /\ prodStream' = [prodStream EXCEPT ![csd] = FALSE]
  /\ cpc' = "idle"
  /\ UNCHANGED <<use, bufVars, semVars, is_poll, prod_lock, level, prodVars, csd, cwait,
                 cnt, pos, poll_token, wakeup_sd>>

-----------------------------------------------------------------------------
(* LpelStreamPoll() by the consumer *)

PollCall ==
  /\ cpc = "idle" /\ set # <<>>
  /\ cpc' = "fast"
  /\ pos' = 1
  /\ UNCHANGED <<use, bufVars, semVars, is_poll, prod_lock, level, prodVars, prodStream,
                 csd, cwait, set, cnt, poll_token, wakeup_sd>>

(* fault: the set is not rotated *)
RotateNot(s) == set
(* *set = sd: iterating starts behind sd, and sd comes last *)
Rotate(s) ==
  [i \in 1 .. Len(set) |-> IF Position(s) + i <= Len(set) THEN set[Position(s) + i]
                           ELSE set[Position(s) + i - Len(set)]]

(* The poll returns s *)
PollReturn(s) ==
  /\ cpc' = "polled"
  /\ csd' = s
  /\ set' = Rotate(s)

(* Fast path: the buffers are looked at without a lock, one after the other *)
PollFast ==
  /\ cpc = "fast"
  /\ IF linked[set[pos]] > 0
     THEN PollReturn(set[pos]) /\ UNCHANGED pos
     ELSE /\ pos' = pos + 1
          /\ cpc' = IF pos = Len(set) THEN "token" ELSE "fast"
          /\ UNCHANGED <<csd, set>>
  /\ UNCHANGED <<use, bufVars, semVars, is_poll, prod_lock, level, prodVars, prodStream,
                 cwait, cnt, poll_token, wakeup_sd>>

(* atomic_store(&poll_token, 1) *)
PlaceToken ==
  /\ cpc = "token"
  /\ poll_token' = TRUE
  /\ cnt' = 0 /\ pos' = 1
  /\ cpc' = "register"
  /\ UNCHANGED <<use, bufVars, semVars, is_poll, prod_lock, level, prodVars, prodStream,
                 csd, cwait, set, wakeup_sd>>

(* do_ctx_switch is reset only by who still finds the token *)
SwitchUnlessToken == IF poll_token THEN "unregister" ELSE "pblocked"

(* One stream: found data, or register as activator *)
Register ==
  /\ cpc = "register" /\ ~prod_lock[set[pos]]
  /\ IF linked[set[pos]] > 0
     THEN /\ cpc' = SwitchUnlessToken
          /\ wakeup_sd' = IF poll_token THEN set[pos] ELSE wakeup_sd
          /\ poll_token' = FALSE
          /\ pos' = 1
          /\ UNCHANGED <<is_poll, cnt>>
     ELSE /\ is_poll' = [is_poll EXCEPT ![set[pos]] = TRUE]
          /\ cnt' = cnt + 1
          /\ cpc' = IF pos = Len(set) THEN "pblocked" ELSE "register"
          /\ pos' = IF pos = Len(set) THEN 1 ELSE pos + 1
          /\ UNCHANGED <<poll_token, wakeup_sd>>
  /\ UNCHANGED <<use, bufVars, semVars, prod_lock, level, prodVars, prodStream, csd,
                 cwait, set>>

PollResume ==
  /\ cpc = "pblocked" /\ cwait = "signalled"
  /\ cwait' = "none"
  /\ cpc' = "unregister"
  /\ UNCHANGED <<use, bufVars, semVars, is_poll, prod_lock, level, prodVars, prodStream,
                 csd, pollVars>>

(* fault: one stream less is unregistered *)
LastRegisteredShort == cnt <= 2 \/ pos = Len(set)
(* if (--cnt == 0) break, or the end of the set *)
LastRegistered == cnt = 1 \/ pos = Len(set)

Unregister ==
  /\ cpc = "unregister" /\ ~prod_lock[set[pos]]
  /\ is_poll' = [is_poll EXCEPT ![set[pos]] = FALSE]
  /\ cnt' = cnt - 1
  /\ IF LastRegistered
     THEN PollReturn(wakeup_sd) /\ UNCHANGED pos
     ELSE pos' = pos + 1 /\ UNCHANGED <<cpc, csd, set>>
  /\ UNCHANGED <<use, bufVars, semVars, prod_lock, level, prodVars, prodStream, cwait,
                 poll_token, wakeup_sd>>

(* The consumer does something else first *)
PollIgnored ==
  /\ cpc = "polled" /\ ~use.pollfirst
  /\ cpc' = "idle"
  /\ UNCHANGED <<use, bufVars, semVars, is_poll, prod_lock, level, prodVars, prodStream,
                 csd, cwait, pollVars>>

LpelStreamRead == ReadResume \/ Pop \/ ReadV \/ WakeProducer \/ CountRead

LpelStreamPoll ==
  \/ PollFast \/ PlaceToken \/ Register \/ PollResume \/ Unregister

Consumer ==
  \/ \E s \in Streams : prodStream[s] /\ ReadCall(s)
  \/ LpelStreamRead
  \/ LpelStreamClose
  \/ PollCall \/ LpelStreamPoll \/ PollIgnored

Ended == set = <<>> /\ \A s \in Streams : spc[s] = "idle"

Next ==
  \/ Consumer
  \/ \E s \in Streams : WriteCall(s) \/ LpelStreamWrite(s)
  \/ Ended /\ UNCHANGED vars

Spec == Init /\ [][Next]_vars

-----------------------------------------------------------------------------
(* LpelTaskUnblock() is called only for a task that waits, and by one task   *)
(* only: what HrcSched requires of its callers.  Two producers may see the   *)
(* same polling consumer, and a producer may meet it in LpelStreamRead().    *)
WakeupMatchesWait ==
  LET wakers == {s \in Streams : spc[s] \in {"unblock", "pollunblock"}}
  IN /\ wakers # {} => cwait = "waiting"
     /\ \A s, t \in wakers : s = t
     /\ cpc = "unblock" => swait[csd] = "waiting"

(* No wake-up of the consumer is missed: when all its producers are outside  *)
(* LpelStreamWrite() or wait themselves, it does not sleep beside an item.   *)
NoSleepBesideItem ==
  (\A s \in Streams : spc[s] \in {"idle", "blocked"}) /\ cwait # "signalled" =>
    /\ cpc = "rblocked" => linked[csd] = 0
    /\ cpc = "pblocked" => \A i \in DOMAIN set : linked[set[i]] = 0

(* LpelStreamRead() pops an item that is there, whose LpelBufferPut() is     *)
(* complete: the node buf->tail points to is never the one Pop frees.        *)
TailNotFreed == \A s \in Streams : tail[s] >= 0

(* LpelStreamPoll() returns a stream that has data, and with it the token is *)
(* gone (assertion of the code) and no stream stays registered.              *)
PollReturnsData ==
  /\ cpc = "polled" => linked[csd] > 0 /\ \A s \in Streams : ~is_poll[s]
  /\ cpc = "unregister" => ~poll_token

(* With a consumer that reads what LpelStreamPoll() returns, no stream of    *)
(* the set is starved by the others: the set is rotated behind the result.   *)
NoStreamStarved ==
  \A s \in Streams : linked[s] > 0 ~> (cpc = "pop" /\ csd = s)

(* A consumer that has read the terminate record may close the stream: the   *)
(* producer, that writes nothing after it, does not use the stream any more. *)
ClosedStreamUnused == \A s \in Streams : spc[s] # "idle" => prodStream[s]

=============================================================================
