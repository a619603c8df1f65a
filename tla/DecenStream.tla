----------------------------- MODULE DecenStream -----------------------------
(***************************************************************************)
(* Streams of the decentralised scheduler (decen_stream.c) and the         *)
(* circular buffer below them (decen_buffer.c), through their whole life:  *)
(* created, opened by a producer and by the consumer, written, read and    *)
(* polled, then closed and destroyed, or left to be put in the place of    *)
(* another one by LpelStreamReplace().  A step is one access to data that  *)
(* the other side may access too.  Blocking and waking a task are what     *)
(* DecenWorker makes of them.                                              *)
(*                                                                         *)
(* One consumer task holds all descriptors for reading; the descriptor     *)
(* LpelStreamOpen() returns for stream s is called s.                      *)
(***************************************************************************)
EXTENDS Integers, Sequences, FiniteSets

CONSTANTS
  NumStreams,     \* bound: streams created
  BufSize,        \* size given to LpelStreamCreate()
  Items,          \* what is written, besides the end mark
  Uses            \* programs: the streams they create and the items they write

Streams == 1 .. NumStreams
NULL == "NULL"
End == "end"      \* a terminate or sync record: the last item of a stream
Slots == 0 .. BufSize - 1

VARIABLES
  use,         \* the program
  mem,         \* of the stream: "none", "live" or "freed"
  data, pread, pwrite,
  n_sem, e_sem,
  is_poll,
  prod_lock,   \* the producer holds prod_lock
  prod_sd,     \* the producer's descriptor: "none", "open" or "freed"
  cons_sd,     \* descriptor s->cons_sd points to, 0 for NULL
  stream,      \* stream of each descriptor, 0 for one that is not open
  spc,         \* where the producer of s is
  witem,       \* parameter of LpelStreamWrite()
  poll_wakeup, \* local variable of LpelStreamWrite()
  swait,       \* how the producer of s waits
  cpc,         \* where the consumer is
  csd,         \* the descriptor it reads, or got from LpelStreamPoll()
  item,        \* the item it read last
  cwait,       \* how the consumer waits
  set,         \* the stream set, in the order of iteration; *set is the last
  cnt, pos,    \* local variables of LpelStreamPoll()
  poll_token, wakeup_sd

bufVars == <<data, pread, pwrite>>
semVars == <<n_sem, e_sem>>
lifeVars == <<mem, prod_sd, cons_sd, stream>>
prodVars == <<spc, witem, poll_wakeup, swait>>
pollVars == <<set, cnt, pos, poll_token, wakeup_sd>>
consVars == <<cpc, csd, item, cwait, pollVars>>
vars == <<use, bufVars, semVars, is_poll, prod_lock, lifeVars, prodVars, consVars>>

Empty == [i \in Slots |-> NULL]
All(v) == [s \in Streams |-> v]

Init ==
  /\ use \in Uses
  /\ mem = All("none") /\ prod_sd = All("none") /\ cons_sd = All(0) /\ stream = All(0)
  /\ data = All(Empty) /\ pread = All(0) /\ pwrite = All(0)
  /\ n_sem = All(0) /\ e_sem = All(0) /\ is_poll = All(FALSE) /\ prod_lock = All(FALSE)
  /\ spc = All("idle") /\ witem = All(NULL)
  /\ poll_wakeup = All(FALSE) /\ swait = All("none")
  /\ cpc = "idle" /\ csd = 0 /\ item = NULL /\ cwait = "none"
  /\ set = <<>> /\ cnt = 0 /\ pos = 0 /\ poll_token = FALSE /\ wakeup_sd = 0

-----------------------------------------------------------------------------
(* decen_buffer.c.  Only the slots are shared: pread belongs to the consumer *)
(* and pwrite to the producer.                                               *)

LpelBufferTop(s) == data[s][pread[s]]
LpelBufferIsSpace(s) == data[s][pwrite[s]] = NULL

(* the ring closes behind the last slot *)
Advance(p) == IF p + 1 >= BufSize THEN p + 1 - BufSize ELSE p + 1

(* fault: the slot is not cleared *)
LpelBufferPopKeep(s) ==
  /\ UNCHANGED data
  /\ pread' = [pread EXCEPT ![s] = Advance(@)]
LpelBufferPop(s) ==
  /\ data' = [data EXCEPT ![s][pread[s]] = NULL]
  /\ pread' = [pread EXCEPT ![s] = Advance(@)]

LpelBufferPut(s, v) ==
  /\ data' = [data EXCEPT ![s][pwrite[s]] = v]
  /\ pwrite' = [pwrite EXCEPT ![s] = Advance(@)]

LpelBufferInit(s) ==
  /\ data' = [data EXCEPT ![s] = Empty]
  /\ pread' = [pread EXCEPT ![s] = 0] /\ pwrite' = [pwrite EXCEPT ![s] = 0]

-----------------------------------------------------------------------------
(* Life of a stream *)

LpelStreamCreate(s) ==
  /\ s \in use.streams /\ mem[s] = "none"
  /\ mem' = [mem EXCEPT ![s] = "live"]
  /\ LpelBufferInit(s)
  /\ n_sem' = [n_sem EXCEPT ![s] = 0] /\ e_sem' = [e_sem EXCEPT ![s] = BufSize]
  /\ is_poll' = [is_poll EXCEPT ![s] = FALSE]
  /\ UNCHANGED <<use, prod_lock, prod_sd, cons_sd, stream, prodVars, consVars>>

(* LpelStreamOpen(s, 'w'): the producer need not wait for a consumer *)
OpenWrite(s) ==
  /\ mem[s] = "live" /\ prod_sd[s] = "none"
  /\ prod_sd' = [prod_sd EXCEPT ![s] = "open"]
  /\ UNCHANGED <<use, bufVars, semVars, is_poll, prod_lock, mem, cons_sd, stream,
                 prodVars, consVars>>

(* LpelStreamOpen(s, 'r'), and LpelStreamsetPut() by the task *)
OpenRead(s) ==
  /\ cpc = "idle" /\ mem[s] = "live" /\ cons_sd[s] = 0
  /\ cons_sd' = [cons_sd EXCEPT ![s] = s]
  /\ stream' = [stream EXCEPT ![s] = s]
  /\ set' = Append(set, s)
  /\ UNCHANGED <<use, bufVars, semVars, is_poll, prod_lock, mem, prod_sd, prodVars,
                 cpc, csd, item, cwait, cnt, pos, poll_token, wakeup_sd>>

Without(d) == SelectSeq(set, LAMBDA e : e # d)

(* LpelStreamDestroy(): the memory is gone, its values are of no meaning *)
LpelStreamDestroy(s) ==
  /\ mem' = [mem EXCEPT ![s] = "freed"]
  /\ LpelBufferInit(s)
  /\ n_sem' = [n_sem EXCEPT ![s] = 0] /\ e_sem' = [e_sem EXCEPT ![s] = 0]

(* Streams the consumer has left behind *)
Left ==
  {s \in Streams : mem[s] = "live" /\ cons_sd[s] # 0 /\ \A d \in Streams : stream[d] # s}

(* LpelStreamClose(sd, 1) by the consumer, which has read the end mark.  An  *)
(* application does not forget the streams it has left behind.               *)
CloseDestroy ==
  /\ cpc = "ended" /\ Left = {}
  /\ LpelStreamDestroy(stream[csd])
  /\ stream' = [stream EXCEPT ![csd] = 0]
  /\ set' = Without(csd)
  /\ cpc' = "idle" /\ csd' = 0
  /\ UNCHANGED <<use, is_poll, prod_lock, prod_sd, cons_sd, prodVars, item, cwait,
                 cnt, pos, poll_token, wakeup_sd>>

(* LpelStreamClose(sd, 0) by the consumer: s->cons_sd is left as it is *)
CloseLeave(d) ==
  /\ cpc = "idle" /\ stream[d] # 0 /\ Len(set) > 1
  /\ stream' = [stream EXCEPT ![d] = 0]
  /\ set' = Without(d)
  /\ UNCHANGED <<use, bufVars, semVars, is_poll, prod_lock, mem, prod_sd, cons_sd,
                 prodVars, cpc, csd, item, cwait, cnt, pos, poll_token, wakeup_sd>>

(* fault: snew is not told its new consumer *)
ReplaceOneSided(snew) ==
  /\ cpc = "ended"
  /\ mem[snew] = "live" /\ \A d \in Streams : stream[d] # snew
  /\ LpelStreamDestroy(stream[csd])
  /\ stream' = [stream EXCEPT ![csd] = snew]
  /\ cpc' = "idle" /\ csd' = 0
  /\ UNCHANGED <<use, is_poll, prod_lock, prod_sd, cons_sd, prodVars, item, cwait,
                 pollVars>>

(* LpelStreamReplace(sd, snew): snew is open for reading nowhere *)
LpelStreamReplace(snew) ==
  /\ cpc = "ended"
  /\ mem[snew] = "live" /\ \A d \in Streams : stream[d] # snew
  /\ LpelStreamDestroy(stream[csd])
  /\ stream' = [stream EXCEPT ![csd] = snew]
  /\ cons_sd' = [cons_sd EXCEPT ![snew] = csd]
  /\ cpc' = "idle" /\ csd' = 0
  /\ UNCHANGED <<use, is_poll, prod_lock, prod_sd, prodVars, item, cwait, pollVars>>

(* LpelStreamClose(sd, 0) by the producer, which has written the end mark *)
CloseWrite(s) ==
  /\ spc[s] = "idle" /\ prod_sd[s] = "open" /\ witem[s] = End
  /\ prod_sd' = [prod_sd EXCEPT ![s] = "freed"]
  /\ UNCHANGED <<use, bufVars, semVars, is_poll, prod_lock, mem, cons_sd, stream,
                 prodVars, consVars>>

-----------------------------------------------------------------------------
(* LpelStreamWrite() by the producer of s *)

Goto(s, l) == spc' = [spc EXCEPT ![s] = l]

(* Quasi P(e_sem) *)
WriteP(s) ==
  /\ e_sem' = [e_sem EXCEPT ![s] = @ - 1]
  /\ Goto(s, IF e_sem[s] = 0 THEN "blocked" ELSE "put")
  /\ swait' = IF e_sem[s] = 0 THEN [swait EXCEPT ![s] = "waiting"] ELSE swait

MayWrite(s) == spc[s] = "idle" /\ prod_sd[s] = "open" /\ witem[s] # End

WriteCall(s, v) ==
  /\ MayWrite(s)
  /\ witem' = [witem EXCEPT ![s] = v]
  /\ WriteP(s)
  /\ UNCHANGED <<use, bufVars, n_sem, is_poll, prod_lock, lifeVars, poll_wakeup,
                 consVars>>

(* LpelStreamTryWrite() returns -1, or goes on to call LpelStreamWrite() *)
LpelStreamTryWrite(s, v) ==
  /\ MayWrite(s)
  /\ LpelBufferIsSpace(s)
  /\ witem' = [witem EXCEPT ![s] = v]
  /\ Goto(s, "P")
  /\ UNCHANGED <<use, bufVars, semVars, is_poll, prod_lock, lifeVars, poll_wakeup,
                 swait,
                 consVars>>

TryP(s) ==
  /\ spc[s] = "P"
  /\ WriteP(s)
  /\ UNCHANGED <<use, bufVars, n_sem, is_poll, prod_lock, lifeVars, witem,
                 poll_wakeup, consVars>>

(* LpelTaskBlockStream() returns *)
WriteResume(s) ==
  /\ spc[s] = "blocked" /\ swait[s] = "signalled"
  /\ swait' = [swait EXCEPT ![s] = "none"]
  /\ Goto(s, "put")
  /\ UNCHANGED <<use, bufVars, semVars, is_poll, prod_lock, lifeVars, witem,
                 poll_wakeup, consVars>>

(* The item becomes visible to the consumer, which needs no lock to see it *)
WritePut(s) ==
  /\ spc[s] = "put" /\ ~prod_lock[s]
  /\ prod_lock' = [prod_lock EXCEPT ![s] = TRUE]
  /\ LpelBufferPut(s, witem[s])
  /\ witem' = IF witem[s] = End THEN witem ELSE [witem EXCEPT ![s] = NULL]
  /\ Goto(s, "token")
  /\ UNCHANGED <<use, pread, semVars, is_poll, lifeVars, poll_wakeup, swait,
                 consVars>>

(* The rest of the critical section; with the token goes the right to wake   *)
(* the consumer, which from now on waits for it.                             *)
CheckPoll(s) ==
  /\ spc[s] = "token"
  /\ prod_lock' = [prod_lock EXCEPT ![s] = FALSE]
  /\ Goto(s, "V")
  /\ IF is_poll[s]
     THEN /\ poll_wakeup' = [poll_wakeup EXCEPT ![s] = poll_token]
          /\ poll_token' = FALSE
          /\ cwait' = IF poll_token THEN "waiting" ELSE cwait
          /\ is_poll' = [is_poll EXCEPT ![s] = FALSE]
     ELSE UNCHANGED <<poll_wakeup, poll_token, cwait, is_poll>>
  /\ UNCHANGED <<use, bufVars, semVars, lifeVars, witem, swait, cpc, csd, item,
                 set, cnt, pos, wakeup_sd>>

(* Quasi V(n_sem); LpelStreamTryWrite() has nothing left to do either *)
WriteV(s) ==
  /\ spc[s] = "V"
  /\ n_sem' = [n_sem EXCEPT ![s] = @ + 1]
  /\ Goto(s, IF n_sem[s] < 0 THEN "unblock"
             ELSE IF poll_wakeup[s] THEN "pollunblock" ELSE "idle")
  /\ poll_wakeup' = [poll_wakeup EXCEPT ![s] = FALSE]
  /\ UNCHANGED <<use, bufVars, e_sem, is_poll, prod_lock, lifeVars, witem, swait,
                 consVars>>

(* LpelTaskUnblock(cons), after telling a poller which stream has data *)
WakeConsumer(s) ==
  /\ spc[s] \in {"unblock", "pollunblock"}
  /\ wakeup_sd' = IF spc[s] = "pollunblock" THEN cons_sd[s] ELSE wakeup_sd
  /\ cwait' = "signalled"
  /\ Goto(s, "idle")
  /\ UNCHANGED <<use, bufVars, semVars, is_poll, prod_lock, lifeVars, witem,
                 poll_wakeup, swait, cpc, csd, item, set, cnt, pos, poll_token>>

LpelStreamWrite(s) ==
  \/ TryP(s) \/ WriteResume(s) \/ WritePut(s) \/ CheckPoll(s) \/ WriteV(s)
  \/ WakeConsumer(s)

-----------------------------------------------------------------------------
(* LpelStreamRead() by the consumer *)

(* Quasi P(n_sem) of LpelStreamRead(d) *)
ReadCall(d) ==
  LET s == stream[d] IN
  /\ s # 0
  /\ \/ cpc = "idle"
     \/ cpc = "polled" /\ d = csd
  /\ n_sem' = [n_sem EXCEPT ![s] = @ - 1]
  /\ csd' = d
  /\ cpc' = IF n_sem[s] = 0 THEN "rblocked" ELSE "pop"
  /\ cwait' = IF n_sem[s] = 0 THEN "waiting" ELSE cwait
  /\ UNCHANGED <<use, bufVars, e_sem, is_poll, prod_lock, lifeVars, prodVars, item,
                 pollVars>>

ReadResume ==
  /\ cpc = "rblocked" /\ cwait = "signalled"
  /\ cwait' = "none"
  /\ cpc' = "pop"
  /\ UNCHANGED <<use, bufVars, semVars, is_poll, prod_lock, lifeVars, prodVars, csd,
                 item, pollVars>>

(* LpelBufferTop() and LpelBufferPop() *)
Pop ==
  /\ cpc = "pop"
  /\ item' = LpelBufferTop(stream[csd])
  /\ LpelBufferPop(stream[csd])
  /\ cpc' = "V"
  /\ UNCHANGED <<use, pwrite, semVars, is_poll, prod_lock, lifeVars, prodVars, csd,
                 cwait, pollVars>>

Return ==
  /\ cpc' = IF item = End THEN "ended" ELSE "idle"
  /\ csd' = IF item = End THEN csd ELSE 0

(* fault: a producer that waits for space is not noticed *)
ReadVNoWake ==
  /\ cpc = "V"
  /\ e_sem' = [e_sem EXCEPT ![stream[csd]] = @ + 1]
  /\ Return
  /\ UNCHANGED <<use, bufVars, n_sem, is_poll, prod_lock, lifeVars, prodVars, item,
                 cwait, pollVars>>

(* Quasi V(e_sem) *)
ReadV ==
  /\ cpc = "V"
  /\ e_sem' = [e_sem EXCEPT ![stream[csd]] = @ + 1]
  /\ IF e_sem[stream[csd]] < 0 THEN cpc' = "unblock" /\ UNCHANGED csd ELSE Return
  /\ UNCHANGED <<use, bufVars, n_sem, is_poll, prod_lock, lifeVars, prodVars, item,
                 cwait, pollVars>>

(* LpelTaskUnblock(prod) *)
WakeProducer ==
  /\ cpc = "unblock"
  /\ swait' = [swait EXCEPT ![stream[csd]] = "signalled"]
  /\ Return
  /\ UNCHANGED <<use, bufVars, semVars, is_poll, prod_lock, lifeVars, spc, witem,
                 poll_wakeup, item, cwait, pollVars>>

LpelStreamRead == ReadResume \/ Pop \/ ReadV \/ WakeProducer

-----------------------------------------------------------------------------
(* LpelStreamPoll() by the consumer *)

PollCall ==
  /\ cpc = "idle" /\ set # <<>>
  /\ cpc' = "fast"
  /\ pos' = 1
  /\ UNCHANGED <<use, bufVars, semVars, is_poll, prod_lock, lifeVars, prodVars, csd,
                 item, cwait, set, cnt, poll_token, wakeup_sd>>

(* *set = sd: iterating starts behind sd, and sd comes last *)
Rotate(d) ==
  LET i == CHOOSE j \in DOMAIN set : set[j] = d
  IN SubSeq(set, i + 1, Len(set)) \o SubSeq(set, 1, i)

(* The poll returns d *)
PollReturn(d) ==
  /\ cpc' = "polled"
  /\ csd' = d
  /\ set' = Rotate(d)
  /\ cnt' = 0 /\ pos' = 0

(* The iterator is at this stream *)
Polled == stream[set[pos]]

(* Fast path: the buffers are looked at without a lock, one after the other *)
PollFast ==
  /\ cpc = "fast"
  /\ IF LpelBufferTop(Polled) # NULL
     THEN PollReturn(set[pos])
     ELSE /\ pos' = pos + 1
          /\ cpc' = IF pos = Len(set) THEN "token" ELSE "fast"
          /\ UNCHANGED <<csd, set, cnt>>
  /\ UNCHANGED <<use, bufVars, semVars, is_poll, prod_lock, lifeVars, prodVars, item,
                 cwait, poll_token, wakeup_sd>>

(* atomic_store(&poll_token, 1) *)
PlaceToken ==
  /\ cpc = "token"
  /\ poll_token' = TRUE
  /\ cnt' = 0 /\ pos' = 1
  /\ cpc' = "register"
  /\ UNCHANGED <<use, bufVars, semVars, is_poll, prod_lock, lifeVars, prodVars, csd,
                 item, cwait, set, wakeup_sd>>

(* One stream: found data, or register as activator.  do_ctx_switch is       *)
(* reset only by who still finds the token.                                  *)
Register ==
  /\ cpc = "register" /\ ~prod_lock[Polled]
  /\ IF LpelBufferTop(Polled) # NULL
     THEN /\ cpc' = IF poll_token THEN "unregister" ELSE "pblocked"
          /\ wakeup_sd' = IF poll_token THEN set[pos] ELSE wakeup_sd
          /\ poll_token' = FALSE
          /\ pos' = 1
          /\ UNCHANGED <<is_poll, cnt>>
     ELSE /\ is_poll' = [is_poll EXCEPT ![Polled] = TRUE]
          /\ cnt' = cnt + 1
          /\ cpc' = IF pos = Len(set) THEN "pblocked" ELSE "register"
          /\ pos' = IF pos = Len(set) THEN 1 ELSE pos + 1
          /\ UNCHANGED <<poll_token, wakeup_sd>>
  /\ UNCHANGED <<use, bufVars, semVars, prod_lock, lifeVars, prodVars, csd, item, cwait,
                 set>>

PollResume ==
  /\ cpc = "pblocked" /\ cwait = "signalled"
  /\ cwait' = "none"
  /\ cpc' = "unregister"
  /\ UNCHANGED <<use, bufVars, semVars, is_poll, prod_lock, lifeVars, prodVars, csd,
                 item, pollVars>>

(* if (--cnt == 0) break, or the end of the set *)
Unregister ==
  /\ cpc = "unregister" /\ ~prod_lock[Polled]
  /\ is_poll' = [is_poll EXCEPT ![Polled] = FALSE]
  /\ IF cnt = 1 \/ pos = Len(set)
     THEN PollReturn(wakeup_sd)
     ELSE pos' = pos + 1 /\ cnt' = cnt - 1 /\ UNCHANGED <<cpc, csd, set>>
  /\ UNCHANGED <<use, bufVars, semVars, prod_lock, lifeVars, prodVars, item, cwait,
                 poll_token, wakeup_sd>>

(* The consumer does something else first *)
PollIgnored ==
  /\ cpc = "polled"
  /\ cpc' = "idle" /\ csd' = 0
  /\ UNCHANGED <<use, bufVars, semVars, is_poll, prod_lock, lifeVars, prodVars, item,
                 cwait, pollVars>>

LpelStreamPoll == PollFast \/ PlaceToken \/ Register \/ PollResume \/ Unregister

-----------------------------------------------------------------------------
Closing ==
  \/ CloseDestroy
  \/ \E s \in Streams : CloseLeave(s) \/ LpelStreamReplace(s)

Consumer ==
  \/ \E d \in Streams : OpenRead(d) \/ ReadCall(d)
  \/ LpelStreamRead
  \/ PollCall \/ LpelStreamPoll \/ PollIgnored
  \/ Closing

Producer(s) ==
  \/ OpenWrite(s) \/ CloseWrite(s)
  \/ \E v \in use.items \cup {End} :
       WriteCall(s, v) \/ LpelStreamTryWrite(s, v)
  \/ LpelStreamWrite(s)

(* Nothing is left to do: every stream is closed on both sides *)
Ended == /\ cpc = "idle" /\ set = <<>>
         /\ \A s \in use.streams : prod_sd[s] = "freed" /\ mem[s] # "none"

Next ==
  \/ \E s \in Streams : LpelStreamCreate(s) \/ Producer(s)
  \/ Consumer
  \/ Ended /\ UNCHANGED vars

Spec == Init /\ [][Next]_vars

-----------------------------------------------------------------------------
(* Wake-ups match waits, though nobody holds a lock while blocking.          *)
(* LpelTaskUnblock() is called only for a task that waits, and by one task   *)
(* only, which DecenWorker requires: two producers may see the same polling  *)
(* consumer, and one may meet it in LpelStreamRead().  When all producers    *)
(* are outside LpelStreamWrite() or wait themselves, the consumer does not   *)
(* sleep beside an item; a producer sleeps only on a full stream, seen       *)
(* outside LpelStreamRead(); and LpelStreamPoll() returns a stream with data.*)
NoSleepMissed ==
  LET wakers == {s \in Streams : spc[s] \in {"unblock", "pollunblock"}} IN
  /\ wakers # {} => cwait = "waiting" /\ Cardinality(wakers) = 1
  /\ cpc = "unblock" => swait[stream[csd]] = "waiting"
  /\ (\A s \in Streams : spc[s] \in {"idle", "blocked"}) /\ cwait # "signalled" =>
       /\ cpc = "rblocked" => LpelBufferTop(stream[csd]) = NULL
       /\ cpc = "pblocked" => \A i \in DOMAIN set : LpelBufferTop(stream[set[i]]) = NULL
  /\ \A s \in Streams :
       swait[s] = "waiting" /\ ~(cpc \in {"V", "unblock"} /\ stream[csd] = s) =>
         \A i \in Slots : data[s][i] # NULL
  /\ cpc = "polled" => LpelBufferTop(stream[csd]) # NULL

(* Nobody follows a pointer to freed memory, though no step of closing,      *)
(* destroying or replacing is synchronised with the other side: a producer   *)
(* in LpelStreamWrite() has its stream, the descriptor it finds in cons_sd   *)
(* to wake the consumer is open for that stream, and so is the prod_sd that  *)
(* LpelStreamRead() follows.                                                 *)
NoDangling ==
  /\ \A s \in Streams : spc[s] # "idle" => mem[s] = "live"
  /\ \A s \in Streams :
       spc[s] \in {"unblock", "pollunblock"} \/ (spc[s] = "token" /\ is_poll[s]) =>
         cons_sd[s] # 0 /\ stream[cons_sd[s]] = s
  /\ \A d \in Streams : stream[d] # 0 => mem[stream[d]] = "live"
  /\ cpc = "unblock" => prod_sd[stream[csd]] = "open"

(* The items in the ring from pread on, up to the first empty slot *)
Contents(s) ==
  LET At(i) == data[s][(pread[s] + i) % BufSize]
      n == CHOOSE k \in 0 .. BufSize :
             /\ \A i \in 0 .. k - 1 : At(i) # NULL
             /\ k < BufSize => At(k) = NULL
  IN [i \in 1 .. n |-> At(i - 1)]

under == <<data, pread, item>>
Queued == [s \in Streams |-> Contents(s)]
Fifo == INSTANCE StreamFifo WITH
          Items <- Items \cup {End}, NoItem <- NULL, Size <- BufSize, q <- Queued

(* Rings, NULLs and semaphores together are a bounded queue on each stream:  *)
(* LpelStreamRead() returns what LpelStreamWrite() was given, in order, also *)
(* across the end of the ring, a replacement and a poll.  (Fifo!Spec, with   *)
(* the steps left out that do not touch what the queues are read from.)      *)
ImplementsFifo ==
  Fifo!Init /\ [][under' # under => [Fifo!Next]_<<Queued, item>>]_vars

=============================================================================
