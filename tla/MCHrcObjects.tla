---------------------------- MODULE MCHrcObjects ----------------------------
(***************************************************************************)
(* The objects behind the scheduler of the HRC back-end, side by side:     *)
(* `part' says which of them a behaviour is about, the others stay in      *)
(* their initial states.                                                   *)
(***************************************************************************)
EXTENDS Integers, TLC

CONSTANTS
  Tasks, Wrappers, Workers, Streams, Sds,       \* HrcLife
  WrapperTasks, WrapperContexts, Creators,      \* HrcWrapper
  QueueTasks,                                   \* HrcTaskqueue
  NULL

VARIABLES
  part,
  stream, live, sd, used, free_stream, free_sd, in_streams, out_streams, ctx, alive,
  asleep, woken, last, handed, created, walk, crashed,
  freewrappers, lockwrappers, thread, terminate, current_task, mailbox, known, wstate,
  wctx, sleeping, creating, cleanup, rest,
  rec_limit_factor, rec_limit, rec_cnt, streams, state, written, closed,
  heap, count, alloc, prior, queued

Life == INSTANCE HrcLife WITH Size <- 1, MaxFill <- 1, MaxCreate <- 2
Wrap == INSTANCE HrcWrapper WITH
          Tasks <- WrapperTasks, Contexts <- WrapperContexts, state <- wstate, ctx <- wctx
Limit == INSTANCE HrcRecLimit WITH Factors <- {-1, 0, 1, 2, 3}, MaxStreams <- 3, MaxRecords <- 12
Queue == INSTANCE HrcTaskqueue WITH Tasks <- QueueTasks, MaxPrior <- 2, BLOCKSIZE <- 3

lifeVars ==
  <<stream, live, sd, used, free_stream, free_sd, in_streams, out_streams, ctx, alive,
    asleep, woken, last, handed, created, walk, crashed>>
wrapVars ==
  <<freewrappers, lockwrappers, thread, terminate, current_task, mailbox, known, wstate,
    wctx, sleeping, creating, cleanup, rest>>
limitVars == <<rec_limit_factor, rec_limit, rec_cnt, streams, state, written, closed>>
queueVars == <<heap, count, alloc, prior, queued>>
vars == <<part, lifeVars, wrapVars, limitVars, queueVars>>

(* One configuration is enough of an object that does not move *)
Init ==
  /\ part \in {"life", "wrapper", "limit", "queue"}
  /\ Life!Init /\ Wrap!Init /\ Limit!Init /\ Queue!Init
  /\ part # "limit" => rec_limit_factor = 1

Next ==
  \/ /\ part = "life" /\ Life!Next
     /\ UNCHANGED <<part, wrapVars, limitVars, queueVars>>
  \/ /\ part = "wrapper" /\ Wrap!Next
     /\ UNCHANGED <<part, lifeVars, limitVars, queueVars>>
  \/ /\ part = "limit" /\ Limit!Next
     /\ UNCHANGED <<part, lifeVars, wrapVars, queueVars>>
  \/ /\ part = "queue" /\ Queue!Next
     /\ UNCHANGED <<part, lifeVars, wrapVars, limitVars>>

Spec == Init /\ [][Next]_vars

(* Structs are not interchangeable, since malloc() returns them in order *)
Symmetry == Permutations(Tasks \ Wrappers) \cup Permutations(Workers)

-----------------------------------------------------------------------------
(* A stream struct in a free list is in one list, once, and nothing that a   *)
(* task can still use refers to it (LpelStreamClose(), LpelStreamReplace())  *)
FreeStreamsUnused == Life!FreeStreamsUnused

(* The two ends of a stream and the lists of its tasks agree, so that a      *)
(* wake-up reaches the task that opened this stream (LpelStreamReplace())    *)
EndsMatch == Life!EndsMatch

(* The master finds in a descriptor the stream it has just tested            *)
(* (updatePriorityNeigh())                                                   *)
WalkSafe == Life!WalkSafe

(* A wrapper context is free or belongs to one task (getFreeWrapper())       *)
OneUser == Wrap!OneUser

(* A task with a record limit yields when it has written the limit           *)
(* (LpelTaskCheckYield())                                                    *)
YieldsAtLimit == Limit!YieldsAtLimit

(* No task that stays in the master's queue has a higher priority than the   *)
(* one that is popped (LpelTaskqueuePop())                                   *)
PopsHighest == Queue!PopsHighest
=============================================================================
