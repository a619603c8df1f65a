------------------------------ MODULE StreamSet ------------------------------
(***************************************************************************)
(* Sets of stream descriptors and their iterators (streamset.c): a ring of *)
(* descriptors linked by next, with a handle on the last one, and an       *)
(* iterator that removes and appends while it goes round.  A set belongs   *)
(* to one task, so an operation is one step.                               *)
(***************************************************************************)
EXTENDS Integers, Sequences, FiniteSets, SequencesExt

CONSTANTS Nodes, NULL

VARIABLES
  set,           \* *set: the last descriptor, or NULL
  next,          \* of each descriptor
  cur, prev,     \* of the iterator
  iterating,     \* between IterCreate() or IterReset() and IterDestroy()
  valid          \* cur is the descriptor that IterNext() returned last

vars == <<set, next, cur, prev, iterating, valid>>
iterVars == <<cur, prev, iterating, valid>>

Init ==
  /\ set = NULL /\ next = [n \in Nodes |-> NULL]
  /\ cur = NULL /\ prev = NULL /\ iterating = FALSE /\ valid = FALSE

(* Descriptors from n on, up to the last one *)
From(n) ==
  LET walk[k \in 0 .. Cardinality(Nodes)] ==
        IF k = 0 THEN <<n>>
        ELSE LET s == walk[k - 1]
             IN IF Last(s) = set \/ next[Last(s)] = NULL THEN s
                ELSE Append(s, next[Last(s)])
  IN walk[Cardinality(Nodes)]

Order == IF set = NULL THEN <<>> ELSE From(next[set])
Members == {Order[i] : i \in DOMAIN Order}

-----------------------------------------------------------------------------
(* "NOT safe ... while iterating" *)
LpelStreamsetPut(n) ==
  /\ ~iterating /\ n \notin Members
  /\ set' = n
  /\ next' = IF set = NULL THEN [next EXCEPT ![n] = n]
             ELSE [next EXCEPT ![n] = next[set], ![set] = n]
  /\ UNCHANGED iterVars

(* The loop of LpelStreamsetRemove(): prev of node n *)
Before(n) == CHOOSE m \in Members : next[m] = n

(* A node that is not in the set is reported and nothing changes *)
LpelStreamsetRemove(n) ==
  /\ ~iterating /\ set # NULL /\ n \in Members
  /\ LET p == Before(n) IN
     IF p = n
     THEN set' = NULL /\ UNCHANGED next
     ELSE /\ next' = [next EXCEPT ![p] = next[n], ![n] = NULL]
          /\ set' = IF set = n THEN p ELSE set
  /\ UNCHANGED iterVars

(* *set = sd in LpelStreamPoll() *)
Rotate(n) ==
  /\ ~iterating /\ n \in Members
  /\ set' = n
  /\ UNCHANGED <<next, iterVars>>

(* An iterator for an empty set "must be resetted ... before usage" *)
LpelStreamIterCreate ==
  /\ ~iterating /\ set # NULL
  /\ prev' = set /\ cur' = NULL
  /\ iterating' = TRUE /\ valid' = FALSE
  /\ UNCHANGED <<set, next>>

LpelStreamIterReset ==
  /\ iterating /\ set # NULL
  /\ prev' = set /\ cur' = NULL
  /\ valid' = FALSE
  /\ UNCHANGED <<set, next, iterating>>

LpelStreamIterDestroy ==
  /\ iterating
  /\ iterating' = FALSE /\ valid' = FALSE /\ cur' = NULL /\ prev' = NULL
  /\ UNCHANGED <<set, next>>

LpelStreamIterHasNext == set # NULL /\ (cur # set \/ cur = NULL)

LpelStreamIterNext ==
  /\ iterating /\ LpelStreamIterHasNext
  /\ IF cur # NULL
     THEN prev' = cur /\ cur' = next[cur]
     ELSE cur' = next[prev] /\ UNCHANGED prev
  /\ valid' = TRUE
  /\ UNCHANGED <<set, next, iterating>>

(* At the end of the set.  That the set is not empty is up to the caller:    *)
(* after LpelStreamIterRemove() of its only element the link of the last one *)
(* is read through NULL (streamset.c:224).                                   *)
LpelStreamIterAppend(n) ==
  /\ iterating /\ n \notin Members /\ set # NULL
  /\ next' = [next EXCEPT ![n] = next[set], ![set] = n]
  /\ prev' = IF prev = set \/ prev = cur THEN n ELSE prev
  /\ set' = n
  /\ UNCHANGED <<cur, iterating, valid>>

(* fault: the iterator goes back one element also from the first *)
IterRemoveBack ==
  /\ iterating /\ valid
  /\ next' = IF prev = cur THEN [next EXCEPT ![cur] = NULL]
             ELSE [next EXCEPT ![prev] = next[cur], ![cur] = NULL]
  /\ set' = IF prev = cur THEN NULL ELSE IF set = cur THEN prev ELSE set
  /\ cur' = IF prev = cur THEN cur ELSE prev
  /\ valid' = FALSE
  /\ UNCHANGED <<prev, iterating>>

(* "may only be called once after StreamIterNext()" *)
LpelStreamIterRemove ==
  /\ iterating /\ valid
  /\ next' = IF prev = cur THEN [next EXCEPT ![cur] = NULL]
             ELSE [next EXCEPT ![prev] = next[cur], ![cur] = NULL]
  /\ set' = IF prev = cur THEN NULL
            ELSE IF set # prev /\ set = cur THEN prev ELSE set
  /\ cur' = IF prev = cur THEN cur ELSE IF set = prev THEN NULL ELSE prev
  /\ valid' = FALSE
  /\ UNCHANGED <<prev, iterating>>

Next ==
  \/ \E n \in Nodes : \/ LpelStreamsetPut(n) \/ LpelStreamsetRemove(n) \/ Rotate(n)
                      \/ LpelStreamIterAppend(n)
  \/ LpelStreamIterCreate \/ LpelStreamIterReset \/ LpelStreamIterDestroy
  \/ LpelStreamIterNext \/ LpelStreamIterRemove

Spec == Init /\ [][Next]_vars

-----------------------------------------------------------------------------
(* What the iterator has still to visit *)
Todo ==
  IF ~iterating \/ ~LpelStreamIterHasNext THEN <<>>
  ELSE From(IF cur = NULL THEN next[prev] ELSE next[cur])

Seq1 == INSTANCE StreamSeq WITH
          order <- Order, todo <- Todo, at <- IF valid THEN cur ELSE NULL

(* Sets are sequences, and an iteration visits each descriptor once in their *)
(* order, also when it has just removed the first, the last or the only one  *)
(* or has appended some (StreamSeq).                                         *)
ImplementsSeq == Seq1!Spec

=============================================================================
