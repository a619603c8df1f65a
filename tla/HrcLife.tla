------------------------------- MODULE HrcLife -------------------------------
(***************************************************************************)
(* The life of streams and stream descriptors in the HRC back-end: both    *)
(* are taken from and put back to free lists of the worker or wrapper      *)
(* whose task creates, opens, closes or replaces a stream, while the       *)
(* master follows the same pointers to compute priorities.  The items of a *)
(* stream are a number, and each operation of a task is one step: what     *)
(* readers and writers do inside an operation is in HrcStream.             *)
(***************************************************************************)
EXTENDS Integers, Sequences, FiniteSets, SequencesExt

CONSTANTS
  Tasks, Wrappers,     \* Wrappers: tasks with a context (wid -1) of their own
  Workers,
  Streams, Sds,        \* structs that malloc() may return
  Size,                \* initial value of e_sem
  MaxFill,             \* bound: items in a stream
  MaxCreate,           \* bound: calls of LpelStreamCreate()
  NULL

Contexts == Workers \cup Wrappers

VARIABLES
  stream,              \* type, prod_sd, cons_sd, e_sem, and items in the buffer
  live,                \* streams in use
  sd,                  \* task, stream and mode of a descriptor
  used,                \* descriptors malloc() has returned
  free_stream, free_sd,
  in_streams, out_streams,
  ctx,                 \* worker_context of a task, NULL if it does not run
  alive,               \* tasks that are not destroyed
  asleep, woken,       \* descriptors whose LpelStreamWrite() waits for space
  last, handed,        \* streams that got their last item; <<s, t>>: with t to replace s
  created,
  walk,                \* descriptor the master has found a stream in, or NULL
  crashed              \* NULL was dereferenced

tvars == <<ctx, alive, asleep, woken>>
svars == <<stream, live, free_stream, created>>
dvars == <<sd, used, free_sd, in_streams, out_streams>>
gvars == <<last, handed>>
vars == <<tvars, svars, dvars, gvars, walk, crashed>>

NoStream == [type |-> "MIDDLE", prod_sd |-> NULL, cons_sd |-> NULL, e_sem |-> Size, fill |-> 0]
Lists(t) == in_streams[t] \o out_streams[t]
Writes(t) == {d \in asleep \cup woken : sd[d].task = t}
Runs(t) == t \in alive /\ ctx[t] # NULL /\ Writes(t) = {} /\ crashed = "no"

Init ==
  /\ stream = [s \in Streams |-> NoStream] /\ live = {} /\ created = 0
  /\ sd = [d \in Sds |-> [task |-> NULL, stream |-> NULL, mode |-> "r"]] /\ used = {}
  /\ free_stream = [c \in Contexts |-> <<>>] /\ free_sd = [c \in Contexts |-> <<>>]
  /\ in_streams = [t \in Tasks |-> <<>>] /\ out_streams = [t \in Tasks |-> <<>>]
  /\ ctx = [t \in Tasks |-> IF t \in Wrappers THEN t ELSE NULL] /\ alive = Tasks
  /\ asleep = {} /\ woken = {}
  /\ last = {} /\ handed = {} /\ walk = NULL /\ crashed = "no"

(* The master gives a task to a worker, and gets it back *)
Assign(t, w) ==
  /\ t \in alive \ Wrappers /\ ctx[t] = NULL /\ crashed = "no"
  /\ Writes(t) \cap asleep = {} /\ \A u \in alive : ctx[u] # w
  /\ walk = NULL       \* the master sends no task while it computes priorities
  /\ ctx' = [ctx EXCEPT ![t] = w]
  /\ UNCHANGED <<alive, asleep, woken, svars, dvars, gvars, walk, crashed>>
Return(t) ==
  /\ Runs(t) /\ t \notin Wrappers
  /\ ctx' = [ctx EXCEPT ![t] = NULL]
  /\ UNCHANGED <<alive, asleep, woken, svars, dvars, gvars, walk, crashed>>

LpelWorkerPutStream(c, s) == free_stream' = [free_stream EXCEPT ![c] = <<s>> \o @]
LpelWorkerPutSd(c, d) == free_sd' = [free_sd EXCEPT ![c] = <<d>> \o @]

(* The first descriptor of the list that neither a task nor a stream uses *)
LpelWorkerGetSd(c) ==
  LET l == free_sd[c]
      idx == {i \in DOMAIN l : sd[l[i]].task = NULL /\ sd[l[i]].stream = NULL}
  IN IF idx = {} THEN {} ELSE {l[CHOOSE i \in idx : \A j \in idx : i <= j]}

(* What malloc() returns: any struct that was never used, here the first *)
Fresh(set) == IF set = {} THEN {} ELSE {CHOOSE x \in set : TRUE}
NewStreams == {s \in Streams \ live : \A c \in Contexts : ~Contains(free_stream[c], s)}

LpelStreamCreate(t) ==
  /\ Runs(t) /\ created < MaxCreate /\ created' = created + 1
  /\ LET l == free_stream[ctx[t]]
     IN \E s \in IF l # <<>> THEN {Head(l)} ELSE Fresh(NewStreams) :
          /\ free_stream' = [free_stream EXCEPT ![ctx[t]] = IF l # <<>> THEN Tail(l) ELSE l]
          /\ live' = live \cup {s}
          /\ stream' = [stream EXCEPT ![s] = [NoStream EXCEPT !.fill = stream[s].fill]]
          /\ last' = last \ {s} /\ handed' = {h \in handed : s \notin {h[1], h[2]}}
  /\ UNCHANGED <<tvars, dvars, walk, crashed>>

IsOpen(s, mode) == \E d \in Sds : sd[d].task # NULL /\ sd[d].stream = s /\ sd[d].mode = mode

(* with LpelTaskAddStream(): the descriptor becomes the head of its list *)
LpelStreamOpen(t, s, mode) ==
  /\ Runs(t) /\ s \in live /\ ~IsOpen(s, mode)
  /\ \A d \in ToSet(Lists(t)) : sd[d].stream # s     \* a stream connects two tasks
  /\ mode = "w" => s \notin last
  /\ t \in Wrappers => stream[s].type = "MIDDLE"    \* not between two wrappers
  /\ mode = "r" => \A h \in handed : h[2] # s
  /\ LET found == LpelWorkerGetSd(ctx[t])
     IN \E d \in IF found # {} THEN found ELSE Fresh(Sds \ used) :
          /\ used' = used \cup {d}
          /\ free_sd' = [free_sd EXCEPT ![ctx[t]] = SelectSeq(@, LAMBDA x : x # d)]
          /\ sd' = [sd EXCEPT ![d] = [task |-> t, stream |-> s, mode |-> mode]]
          /\ stream' = [stream EXCEPT ![s] =
               [(IF mode = "r" THEN [@ EXCEPT !.cons_sd = d] ELSE [@ EXCEPT !.prod_sd = d])
                EXCEPT !.type = IF t \notin Wrappers THEN @
                                ELSE IF mode = "r" THEN "EXIT" ELSE "ENTRY"]]
          /\ in_streams' = IF mode = "r" THEN [in_streams EXCEPT ![t] = <<d>> \o @] ELSE in_streams
          /\ out_streams' = IF mode = "w" THEN [out_streams EXCEPT ![t] = <<d>> \o @] ELSE out_streams
  /\ UNCHANGED <<tvars, live, free_stream, created, gvars, walk, crashed>>

LpelTaskRemoveStream(t, d, mode) ==
  /\ in_streams' = IF mode = "r" THEN [in_streams EXCEPT ![t] = SelectSeq(@, LAMBDA x : x # d)]
                   ELSE in_streams
  /\ out_streams' = IF mode = "w" THEN [out_streams EXCEPT ![t] = SelectSeq(@, LAMBDA x : x # d)]
                    ELSE out_streams

(* A producer closes a stream after its last item.  The consumer destroys   *)
(* it when it is empty, unless it has left the stream to another task       *)
MayDestroy(s) == s \in last /\ stream[s].fill = 0 /\ \A h \in handed : h[2] # s
MayClose(d, destroy_s) ==
  LET s == sd[d].stream
  IN IF destroy_s THEN sd[d].mode = "r" /\ s # NULL /\ MayDestroy(s)
     ELSE s = NULL \/ (IF sd[d].mode = "w" THEN s \in last ELSE \E h \in handed : h[2] = s)

(* fault: the producer's descriptor keeps the stream *)
CloseKeepProducer(t, d, destroy_s) ==
  LET s == sd[d].stream
  IN /\ Runs(t) /\ sd[d].task = t
     /\ MayClose(d, destroy_s)
     /\ IF destroy_s
        THEN /\ stream' = [stream EXCEPT ![s].prod_sd = NULL, ![s].cons_sd = NULL]
             /\ LpelWorkerPutStream(ctx[t], s) /\ live' = live \ {s}
             /\ sd' = [sd EXCEPT ![d].stream = NULL, ![d].task = NULL]
        ELSE /\ sd' = [sd EXCEPT ![d].task = NULL]
             /\ UNCHANGED <<stream, live, free_stream>>
     /\ LpelTaskRemoveStream(t, d, sd[d].mode)
     /\ LpelWorkerPutSd(ctx[t], d)
     /\ UNCHANGED <<tvars, created, used, gvars, walk, crashed>>

LpelStreamClose(t, d, destroy_s) ==
  LET s == sd[d].stream
      producer == stream[s].prod_sd
  IN /\ Runs(t) /\ sd[d].task = t
     /\ MayClose(d, destroy_s)
     /\ IF destroy_s
        THEN /\ stream' = [stream EXCEPT ![s].prod_sd = NULL, ![s].cons_sd = NULL]
             /\ LpelWorkerPutStream(ctx[t], s) /\ live' = live \ {s}
             /\ sd' = [sd EXCEPT ![producer].stream = NULL, ![d].stream = NULL, ![d].task = NULL]
        ELSE /\ sd' = [sd EXCEPT ![d].task = NULL]
             /\ UNCHANGED <<stream, live, free_stream>>
     /\ LpelTaskRemoveStream(t, d, sd[d].mode)
     /\ LpelWorkerPutSd(ctx[t], d)
     /\ UNCHANGED <<tvars, created, used, gvars, walk, crashed>>

(* The stream that replaces s is the one whose reader has announced it with *)
(* its last item in s                                                       *)
MayReplace(s, snew) == MayDestroy(s) /\ snew \in live \ {s} /\ <<s, snew>> \in handed

(* fault: the old consumer's descriptor keeps the stream *)
ReplaceKeepConsumer(t, d, snew) ==
  LET s == sd[d].stream
      producer == stream[s].prod_sd
      old_cons == stream[snew].cons_sd
  IN /\ Runs(t) /\ sd[d].task = t /\ sd[d].mode = "r" /\ s # NULL
     /\ MayReplace(s, snew)
     /\ LpelWorkerPutStream(ctx[t], s) /\ live' = live \ {s}
     /\ stream' = [stream EXCEPT ![s].prod_sd = NULL, ![s].cons_sd = NULL,
                                 ![snew].type = stream[s].type,
                                 ![snew].cons_sd = IF old_cons = NULL THEN NULL ELSE d]
     /\ IF old_cons = NULL
        THEN sd' = [sd EXCEPT ![producer].stream = NULL] /\ crashed' = "replace"
        ELSE /\ sd' = [sd EXCEPT ![producer].stream = NULL, ![d].stream = snew]
             /\ UNCHANGED crashed
     /\ handed' = handed \ {<<s, snew>>}
     /\ UNCHANGED <<tvars, created, used, free_sd, in_streams, out_streams, last, walk>>

LpelStreamReplace(t, d, snew) ==
  LET s == sd[d].stream
      producer == stream[s].prod_sd
      old_cons == stream[snew].cons_sd
  IN /\ Runs(t) /\ sd[d].task = t /\ sd[d].mode = "r" /\ s # NULL
     /\ MayReplace(s, snew)
     /\ LpelWorkerPutStream(ctx[t], s) /\ live' = live \ {s}
     /\ stream' = [stream EXCEPT ![s].prod_sd = NULL, ![s].cons_sd = NULL,
                                 ![snew].type = stream[s].type,
                                 ![snew].cons_sd = IF old_cons = NULL THEN NULL ELSE d]
     /\ IF old_cons = NULL
        THEN sd' = [sd EXCEPT ![producer].stream = NULL] /\ crashed' = "replace"
        ELSE /\ sd' = [sd EXCEPT ![producer].stream = NULL, ![old_cons].stream = NULL,
                                 ![d].stream = snew]
             /\ UNCHANGED crashed
     /\ handed' = handed \ {<<s, snew>>}
     /\ UNCHANGED <<tvars, created, used, free_sd, in_streams, out_streams, last, walk>>

(* The last item may announce a stream that its writer has read so far *)
LpelStreamWrite(t, d, isLast, snew) ==
  LET s == sd[d].stream
  IN /\ Runs(t) /\ sd[d].task = t /\ sd[d].mode = "w" /\ s # NULL /\ s \notin last
     /\ stream[s].fill < MaxFill \/ (stream[s].type = "ENTRY" /\ stream[s].e_sem = 0)
     /\ snew # NULL => /\ isLast /\ snew # s /\ snew \in live
                       /\ \A h \in handed : h[2] # snew
                       /\ stream[snew].cons_sd # NULL /\ sd[stream[snew].cons_sd].task = t
     /\ IF stream[s].type = "ENTRY" /\ stream[s].e_sem = 0
        THEN /\ ~isLast
             /\ stream' = [stream EXCEPT ![s].e_sem = @ - 1]
             /\ asleep' = asleep \cup {d}
             /\ ctx' = IF t \in Wrappers THEN ctx ELSE [ctx EXCEPT ![t] = NULL]
             /\ UNCHANGED gvars
        ELSE /\ stream' = [stream EXCEPT ![s].e_sem = IF stream[s].type = "ENTRY" THEN @ - 1 ELSE @,
                                         ![s].fill = @ + 1]
             /\ last' = IF isLast THEN last \cup {s} ELSE last
             /\ handed' = IF snew = NULL THEN handed ELSE handed \cup {<<s, snew>>}
             /\ UNCHANGED <<asleep, ctx>>
     /\ UNCHANGED <<woken, alive, live, free_stream, created, dvars, walk, crashed>>

(* A writer that was woken goes on with its item *)
ResumeWrite(t, d) ==
  /\ d \in woken /\ sd[d].task = t /\ ctx[t] # NULL /\ crashed = "no"
  /\ stream' = [stream EXCEPT ![sd[d].stream].fill = @ + 1]
  /\ woken' = woken \ {d}
  /\ UNCHANGED <<ctx, alive, asleep, live, free_stream, created, dvars, gvars, walk, crashed>>

(* A reader of an empty stream would block: see HrcStream *)
LpelStreamRead(t, d) ==
  LET s == sd[d].stream
      producer == stream[s].prod_sd
      wakes == stream[s].type = "ENTRY" /\ stream[s].e_sem < 0
  IN /\ Runs(t) /\ sd[d].task = t /\ sd[d].mode = "r" /\ s # NULL
     /\ stream[s].fill > 0 /\ \A h \in handed : h[2] # s
     /\ stream' = [stream EXCEPT ![s].fill = @ - 1,
                                 ![s].e_sem = IF stream[s].type = "ENTRY" THEN @ + 1 ELSE @]
     /\ asleep' = IF wakes THEN asleep \ {producer} ELSE asleep
     /\ woken' = IF wakes THEN woken \cup ({producer} \cap asleep) ELSE woken
     /\ UNCHANGED <<ctx, alive, live, free_stream, created, dvars, gvars, walk, crashed>>

(* The task function returns; LpelTaskDestroy() asserts empty lists *)
LpelTaskDestroy(t) ==
  /\ Runs(t) /\ Lists(t) = <<>>
  /\ alive' = alive \ {t} /\ ctx' = [ctx EXCEPT ![t] = NULL]
  /\ UNCHANGED <<asleep, woken, svars, dvars, gvars, walk, crashed>>

(* countRec() and updatePriorityList() for a task that is not running: they *)
(* test a pointer that its stream's other task may clear, and load it again *)
WalkCheck(t, d) ==
  /\ t \in alive \ Wrappers /\ ctx[t] = NULL /\ walk = NULL /\ crashed = "no"
  /\ Contains(Lists(t), d) /\ sd[d].stream # NULL
  /\ walk' = d
  /\ UNCHANGED <<tvars, svars, dvars, gvars, crashed>>
WalkUse ==
  /\ walk # NULL /\ crashed = "no"
  /\ walk' = NULL
  /\ crashed' = IF sd[walk].stream = NULL THEN "walk" ELSE crashed
  /\ UNCHANGED <<tvars, svars, dvars, gvars>>

Next ==
  \/ \E t \in Tasks :
       \/ \E w \in Workers : Assign(t, w)
       \/ Return(t)
       \/ LpelStreamCreate(t)
       \/ \E s \in Streams, mode \in {"r", "w"} : LpelStreamOpen(t, s, mode)
       \/ \E d \in Sds :
            \/ \E destroy_s \in BOOLEAN : LpelStreamClose(t, d, destroy_s)
            \/ \E snew \in Streams : LpelStreamReplace(t, d, snew)
            \/ \E isLast \in BOOLEAN, snew \in Streams \cup {NULL} : LpelStreamWrite(t, d, isLast, snew)
            \/ ResumeWrite(t, d)
            \/ LpelStreamRead(t, d)
            \/ WalkCheck(t, d)
       \/ LpelTaskDestroy(t)
  \/ WalkUse

Spec == Init /\ [][Next]_vars

-----------------------------------------------------------------------------
FreeIn(c) == ToSet(free_stream[c])
SdFreeIn(c) == ToSet(free_sd[c])

(* A stream struct in a free list is in one list, once, and nothing refers   *)
(* to it that a task can still use: LpelStreamCreate() finds it empty and    *)
(* LpelWorkerGetStream() without descriptors, as both assert.                *)
FreeStreamsUnused ==
  \A c \in Contexts :
    /\ IsInjective(free_stream[c])
    /\ \A e \in Contexts \ {c} : FreeIn(c) \cap FreeIn(e) = {}
    /\ \A s \in FreeIn(c) :
         /\ s \notin live
         /\ stream[s].fill = 0 /\ stream[s].prod_sd = NULL /\ stream[s].cons_sd = NULL
         /\ \A d \in Sds : sd[d].task # NULL => sd[d].stream # s

(* The two ends of a stream: a descriptor it points to points back, so that  *)
(* a wake-up and LpelStreamProducer() reach the task that opened this        *)
(* stream; an open descriptor is the one its stream points to, is in the     *)
(* list of its task, once, and in no free list.                              *)
EndsMatch ==
  /\ \A s \in live : LET p == stream[s].prod_sd
                         c == stream[s].cons_sd
                     IN /\ p # NULL => sd[p].stream = s /\ sd[p].mode = "w"
                        /\ c # NULL => sd[c].stream = s /\ sd[c].mode = "r"
  /\ \A d \in Sds : sd[d].task # NULL =>
       /\ sd[d].stream # NULL =>
            d = IF sd[d].mode = "r" THEN stream[sd[d].stream].cons_sd
                ELSE stream[sd[d].stream].prod_sd
       /\ Contains(IF sd[d].mode = "r" THEN in_streams[sd[d].task] ELSE out_streams[sd[d].task], d)
       /\ \A c \in Contexts : d \notin SdFreeIn(c)
  /\ \A t \in Tasks : IsInjective(Lists(t)) /\ \A d \in ToSet(Lists(t)) : sd[d].task = t

(* updatePriorityNeigh() is "called only by master to avoid concurrent       *)
(* access": no stream that it looks at vanishes between test and use.        *)
WalkSafe == crashed # "walk"

=============================================================================
