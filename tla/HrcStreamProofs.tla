-------------------------- MODULE HrcStreamProofs --------------------------
(***************************************************************************)
(* Safety of the HRC streams for any number of streams, any bounds and any *)
(* use: the inductive invariant, that every step of LpelStreamWrite(),     *)
(* LpelStreamRead(), LpelStreamPoll() and LpelStreamClose() keeps it, and  *)
(* what follows from it.                                                   *)
(***************************************************************************)
EXTENDS HrcStream, TLAPS

(* time limits of the two provers *)
USE SMTT(30), ZenonT(30)

-----------------------------------------------------------------------------
(* The inductive invariant *)

WriterPcs ==
  {"idle", "blocked", "put", "tail", "token", "V", "unblock", "pollunblock", "count"}
ReaderPcs ==
  {"idle", "rblocked", "pop", "V", "unblock", "count", "close", "fast", "token",
   "register", "pblocked", "unregister", "polled"}
Waits == {"none", "waiting", "signalled"}

(* The item of s is in the buffer and not yet counted in n_sem *)
InPut(s) == spc[s] \in {"tail", "token", "V"}
(* The consumer has decremented n_sem of s and not yet popped the item *)
Taking(s) == csd = s /\ cpc \in {"rblocked", "pop"}
(* The consumer may be woken by a producer that finds the token *)
Polling == cpc \in {"register", "pblocked"}
(* The producer of s has taken the token and has still to wake the consumer *)
Pending(s) == (spc[s] = "V" /\ poll_wakeup[s]) \/ spc[s] = "pollunblock"
InSet(s) == \E i \in DOMAIN set : set[i] = s

TypeInv ==
  /\ use \in Use
  /\ linked \in [Streams -> Nat] /\ tail \in [Streams -> Int]
  /\ n_sem \in [Streams -> Int] /\ e_sem \in [Streams -> Int]
  /\ level \in [Streams -> Int]
  /\ is_poll \in [Streams -> BOOLEAN] /\ prod_lock \in [Streams -> BOOLEAN]
  /\ poll_wakeup \in [Streams -> BOOLEAN] /\ term \in [Streams -> BOOLEAN]
  /\ prodStream \in [Streams -> BOOLEAN]
  /\ spc \in [Streams -> WriterPcs] /\ swait \in [Streams -> Waits]
  /\ cpc \in ReaderPcs /\ cwait \in Waits
  /\ csd \in Streams \cup {0} /\ wakeup_sd \in Streams \cup {0}
  /\ set \in Seq(Streams) /\ cnt \in Int /\ pos \in Nat /\ poll_token \in BOOLEAN

(* The semaphore n_sem counts the items that were handed over less those     *)
(* that were asked for; it is negative only while the consumer waits.        *)
ItemCount(s) ==
  /\ n_sem[s] = linked[s] - (IF InPut(s) THEN 1 ELSE 0) - (IF Taking(s) THEN 1 ELSE 0)
  /\ tail[s] = linked[s] - (IF spc[s] = "tail" THEN 1 ELSE 0)
  /\ n_sem[s] >= -1
  /\ n_sem[s] = -1 => cpc = "rblocked" /\ csd = s
  /\ prod_lock[s] <=> spc[s] \in {"tail", "token"}
SemInv == \A s \in Streams : ItemCount(s)

(* A reader that waits on n_sem waits for exactly one wake-up *)
ReadInv ==
  /\ \A s \in Streams : spc[s] = "unblock" => 
       cpc = "rblocked" /\ csd = s /\ cwait = "waiting" /\ n_sem[s] >= 0
  /\ cpc = "rblocked" =>
       /\ n_sem[csd] = -1 => cwait = "waiting"
       /\ n_sem[csd] >= 0 => cwait = "signalled" \/ (cwait = "waiting" /\ spc[csd] = "unblock")
  /\ cpc \notin {"rblocked", "register", "pblocked"} => cwait = "none"

(* A polling consumer: the token is placed, or one producer has it and will  *)
(* wake the consumer, or has done so                                         *)
TokenInv ==
  /\ poll_token => Polling /\ cwait = "none"
  /\ \A s \in Streams : Pending(s) =>
       Polling /\ ~poll_token /\ cwait = "waiting" /\ InSet(s) /\ linked[s] > 0
  /\ \A s, t \in Streams : Pending(s) /\ Pending(t) => s = t
  /\ Polling /\ ~poll_token => cwait = "signalled" \/ \E s \in Streams : Pending(s)
  /\ (Polling /\ cwait = "signalled") \/ cpc = "unregister" =>
       wakeup_sd \in Streams /\ InSet(wakeup_sd) /\ linked[wakeup_sd] > 0
  /\ cpc = "polled" => linked[csd] > 0
  /\ \A s \in Streams : spc[s] \in {"blocked", "put", "tail", "token"} => ~poll_wakeup[s]

(* The registered streams are the first ones of the set *)
RegisteredInv ==
  /\ \A s \in Streams : is_poll[s] =>
       /\ cpc \in {"register", "pblocked", "unregister"}
       /\ InSet(s)
       /\ linked[s] = 0 \/ spc[s] \in {"tail", "token"}
  /\ cpc \in {"fast", "register", "unregister"} => pos \in DOMAIN set
  /\ cpc = "token" => set # <<>>
  /\ cpc = "register" =>
       /\ cnt = pos - 1
       /\ \A i \in DOMAIN set : is_poll[set[i]] => i < pos
       /\ poll_token => \A i \in DOMAIN set : i < pos => is_poll[set[i]]
  /\ cpc = "pblocked" =>
       /\ pos = 1 /\ set # <<>>
       /\ \A i \in DOMAIN set : is_poll[set[i]] => i <= cnt
       /\ poll_token => \A i \in DOMAIN set : is_poll[set[i]]
  /\ cpc = "unregister" =>
       \A i \in DOMAIN set : is_poll[set[i]] => pos <= i /\ i < pos + cnt

(* The set has every stream that is not closed, once *)
SetInv ==
  /\ \A i, j \in DOMAIN set : set[i] = set[j] => i = j
  /\ \A s \in Streams : prodStream[s] <=> InSet(s)
  /\ cpc \in {"polled", "rblocked", "pop", "V", "unblock", "count", "close"} =>
       csd \in Streams /\ prodStream[csd]

(* The semaphore e_sem counts the places that are left in an entry stream    *)
PlaceCount(s) ==
  /\ e_sem[s] = BufSize - linked[s] - (IF spc[s] \in {"blocked", "put"} THEN 1 ELSE 0)
                  - (IF csd = s /\ cpc = "V" THEN 1 ELSE 0)
  /\ e_sem[s] >= -1
  /\ e_sem[s] = -1 => spc[s] = "blocked" /\ swait[s] = "waiting"
EntryInv ==
  /\ \A s \in EntryStreams : PlaceCount(s)
  /\ cpc \in {"V", "unblock"} => csd \in EntryStreams
  /\ cpc = "unblock" => spc[csd] = "blocked" /\ swait[csd] = "waiting" /\ e_sem[csd] >= 0
  /\ \A s \in Streams : spc[s] = "blocked" => s \in EntryStreams

IInv == TypeInv /\ SemInv /\ ReadInv /\ TokenInv /\ RegisteredInv /\ SetInv /\ EntryInv

-----------------------------------------------------------------------------
(* What rotating the set and removing a stream from it do to its elements.   *)

(* The position of a stream that is in the set. *)
LEMMA PositionProp ==
  ASSUME NEW s, InSet(s)
  PROVE  Position(s) \in DOMAIN set /\ set[Position(s)] = s
  BY Zenon DEF InSet, Position

(* LpelStreamPoll() rotates: the same streams, in another order. *)
LEMMA RotateProp ==
  ASSUME NEW s, InSet(s), set \in Seq(Streams),
         \A i, j \in DOMAIN set : set[i] = set[j] => i = j,
         set' = Rotate(s)
  PROVE  /\ set' \in Seq(Streams)
         /\ DOMAIN set' = DOMAIN set
         /\ \A x : InSet(x)' <=> InSet(x)
         /\ \A i, j \in DOMAIN set' : set'[i] = set'[j] => i = j
<1> DEFINE n == Len(set)
           p == Position(s)
<1>1. /\ n \in Nat /\ p \in Int /\ 1 <= p /\ p <= n
      /\ DOMAIN set = 1 .. n /\ \A i \in 1 .. n : set[i] \in Streams
  BY PositionProp
<1>2. /\ DOMAIN set' = 1 .. n
      /\ \A i \in 1 .. n : set'[i] = IF p + i <= n THEN set[p + i] ELSE set[p + i - n]
      /\ set' = [i \in 1 .. n |-> set'[i]]
  <2>1. set' = [i \in 1 .. n |-> IF p + i <= n THEN set[p + i] ELSE set[p + i - n]]
    BY Zenon DEF Rotate
  <2> HIDE DEF n, p
  <2> QED
    BY <2>1, Zenon
<1> HIDE DEF n, p
<1>3. ASSUME NEW i \in 1 .. n PROVE \E j \in 1 .. n : set'[j] = set[i]
  <2>1. CASE i > p
    <3>1. i - p \in 1 .. n /\ p + (i - p) = i
      BY <1>1, <2>1
    <3> QED
      BY <1>2, <3>1
  <2>2. CASE ~(i > p)
    <3>1. i + n - p \in 1 .. n /\ p + (i + n - p) - n = i
      BY <1>1, <2>2
    <3>2. p + (i + n - p) <= n => p + (i + n - p) = i
      BY <1>1
    <3> QED
      BY <1>1, <1>2, <3>1
  <2> QED
    BY <2>1, <2>2, Zenon
<1>4. ASSUME NEW i \in 1 .. n PROVE \E j \in 1 .. n : set[j] = set'[i]
  BY <1>1, <1>2
<1>5. ASSUME NEW i \in 1 .. n, NEW j \in 1 .. n, set'[i] = set'[j] PROVE i = j
  <2> DEFINE at(k) == IF p + k <= n THEN p + k ELSE p + k - n
  <2>1. \A k \in 1 .. n : at(k) \in 1 .. n /\ set'[k] = set[at(k)]
    BY <1>1, <1>2
  <2>2. /\ at(i) \in DOMAIN set /\ at(j) \in DOMAIN set
        /\ set[at(i)] = set[at(j)]
    BY <1>1, <1>5, <2>1, Zenon
  <2> HIDE DEF at
  <2>3. at(i) = at(j)
    BY <2>2, Zenon
  <2> QED
    BY <1>1, <2>3 DEF at
<1>6. set' \in Seq(Streams)
  <2>1. \A i \in 1 .. n : set'[i] \in Streams
    BY <1>1, <1>4, Zenon
  <2> QED
    BY <1>1, <1>2
<1>7. ASSUME NEW CONSTANT x PROVE InSet(x)' <=> InSet(x)
  <2>1. ASSUME InSet(x) PROVE InSet(x)'
    BY <1>1, <1>2, <1>3, <2>1 DEF InSet
  <2>2. ASSUME InSet(x)' PROVE InSet(x)
    BY <1>1, <1>2, <2>2 DEF InSet
  <2> QED
    BY <2>1, <2>2, Zenon
<1> QED
  BY <1>1, <1>2, <1>5, <1>6, <1>7, Zenon

(* LpelStreamsetRemove() leaves the other streams. *)
LEMMA RemoveProp ==
  ASSUME NEW s, InSet(s), set \in Seq(Streams),
         \A i, j \in DOMAIN set : set[i] = set[j] => i = j,
         set' = LpelStreamsetRemove(s)
  PROVE  /\ set' \in Seq(Streams)
         /\ \A x : InSet(x)' <=> InSet(x) /\ x # s
         /\ \A i, j \in DOMAIN set' : set'[i] = set'[j] => i = j
<1> DEFINE n == Len(set)
           p == Position(s)
<1>1. /\ n \in Nat /\ p \in Int /\ 1 <= p /\ p <= n /\ set[p] = s
      /\ DOMAIN set = 1 .. n /\ \A i \in 1 .. n : set[i] \in Streams
  BY PositionProp
<1>2. /\ DOMAIN set' = 1 .. n - 1
      /\ \A i \in 1 .. n - 1 : set'[i] = IF i < p THEN set[i] ELSE set[i + 1]
      /\ set' = [i \in 1 .. n - 1 |-> set'[i]]
  <2>1. set' = [i \in 1 .. n - 1 |-> IF i < p THEN set[i] ELSE set[i + 1]]
    BY Zenon DEF LpelStreamsetRemove
  <2> HIDE DEF n, p
  <2> QED
    BY <2>1, Zenon
<1> HIDE DEF n, p
<1>3. ASSUME NEW i \in 1 .. n, set[i] # s PROVE \E j \in 1 .. n - 1 : set'[j] = set[i]
  <2>1. CASE i > p
    <3>1. i - 1 \in 1 .. n - 1 /\ (i - 1) + 1 = i /\ ~(i - 1 < p)
      BY <1>1, <2>1
    <3> QED
      BY <1>1, <1>2, <3>1, Zenon
  <2>2. CASE ~(i > p)
    <3>1. i \in 1 .. n - 1 /\ i < p
      BY <1>1, <1>3, <2>2
    <3> QED
      BY <1>2, <3>1, Zenon
  <2> QED
    BY <2>1, <2>2, Zenon
<1>4. ASSUME NEW i \in 1 .. n - 1 PROVE \E j \in 1 .. n : set[j] = set'[i] /\ set[j] # s
  BY <1>1, <1>2
<1>5. ASSUME NEW i \in 1 .. n - 1, NEW j \in 1 .. n - 1, set'[i] = set'[j] PROVE i = j
  BY <1>1, <1>2, <1>5
<1>6. set' \in Seq(Streams)
  <2>1. \A i \in 1 .. n - 1 : set'[i] \in Streams
    BY <1>1, <1>4, Zenon
  <2>2. n - 1 \in Nat
    BY <1>1
  <2> QED
    BY <1>2, <2>1, <2>2
<1>7. ASSUME NEW CONSTANT x PROVE InSet(x)' <=> InSet(x) /\ x # s
  BY <1>1, <1>2, <1>3, <1>4 DEF InSet
<1> QED
  BY <1>2, <1>5, <1>6, <1>7, Zenon

-----------------------------------------------------------------------------
(* Facts several steps need *)

(* The descriptors of a polled set are streams, and the set has a first one. *)
LEMMA SetType ==
  ASSUME TypeInv
  PROVE  /\ Len(set) \in Nat /\ DOMAIN set = 1 .. Len(set)
         /\ \A i \in DOMAIN set : i \in Nat /\ 1 <= i /\ i <= Len(set) /\ set[i] \in Streams
         /\ set # <<>> => 1 \in DOMAIN set
         /\ \A i \in DOMAIN set : i # Len(set) => i + 1 \in DOMAIN set
<1>1. set \in Seq(Streams)
  BY Zenon DEF TypeInv
<1> QED
  BY <1>1

(* Only streams into the network are bounded (config.bufsize). *)
LEMMA EntryType == EntryStreams \subseteq Streams /\ BufSize \in Nat
  BY StreamAssumption, Zenon

(* The counters of one stream are integers, its flags are Booleans. *)
LEMMA StreamType ==
  ASSUME TypeInv, NEW s \in Streams
  PROVE  /\ linked[s] \in Nat /\ tail[s] \in Int /\ n_sem[s] \in Int /\ e_sem[s] \in Int
         /\ is_poll[s] \in BOOLEAN /\ poll_wakeup[s] \in BOOLEAN
         /\ prod_lock[s] \in BOOLEAN /\ prodStream[s] \in BOOLEAN
  BY Zenon DEF TypeInv

(* A step that does not assign the set leaves its members. *)
LEMMA SameSet ==
  ASSUME UNCHANGED set
  PROVE  \A x : InSet(x)' <=> InSet(x)
  BY Zenon DEF InSet

(* A producer's step that neither registers nor wakes a consumer *)
LEMMA RegisteredFrame ==
  ASSUME TypeInv, RegisteredInv, UNCHANGED <<is_poll, linked, cpc, set, pos, cnt, poll_token>>,
         \A s \in Streams : spc[s] \in {"tail", "token"} => spc'[s] \in {"tail", "token"}
  PROVE  RegisteredInv'
<1>1. \A x : InSet(x)' <=> InSet(x)
  BY SameSet, Zenon
<1> QED
  BY <1>1, Zenon DEF RegisteredInv

(* A step that neither passes the poll token on nor takes an item. *)
LEMMA TokenFrame ==
  ASSUME TypeInv, SetInv, TokenInv, UNCHANGED <<poll_token, cpc, csd, cwait, wakeup_sd, set>>,
         \A s \in Streams : Pending(s)' <=> Pending(s),
         \A s \in Streams : linked[s] > 0 => linked'[s] > 0,
         \A s \in Streams : spc'[s] \in {"blocked", "put", "tail", "token"} => ~poll_wakeup'[s]
  PROVE  TokenInv'
<1>1. \A x : InSet(x)' <=> InSet(x)
  BY SameSet, Zenon
<1>2. cpc = "polled" => csd \in Streams
  BY Zenon DEF SetInv
<1> QED
  BY <1>1, <1>2, Zenon DEF TokenInv, Polling

-----------------------------------------------------------------------------
(* Steps of the producers: LpelStreamWrite() *)

(* LpelStreamWrite() up to the quasi P(e_sem) keeps the invariant. *)
LEMMA WriteCallInv ==
  ASSUME IInv, NEW s \in Streams, WriteCall(s)
  PROVE  IInv'
<1> USE DEF IInv
<1>1. TypeInv'
  <2>1. term' \in [Streams -> BOOLEAN]
    <3>1. (use.closing # "never") \in BOOLEAN
      BY Zenon
    <3>2. [term EXCEPT ![s] = use.closing # "never"] \in [Streams -> BOOLEAN]
      BY Zenon DEF TypeInv
    <3>3. term' = term \/ term' = [term EXCEPT ![s] = use.closing # "never"]
      BY Zenon DEF WriteCall
    <3> QED
      BY <3>3, Zenon DEF TypeInv
  <2>2. e_sem' \in [Streams -> Int]
    BY DEF TypeInv, WriteCall
  <2>3. spc' \in [Streams -> WriterPcs] /\ swait' \in [Streams -> Waits]
    <3>1. /\ Goto(s, "blocked") \/ Goto(s, "put")
          /\ swait' = swait \/ swait' = [swait EXCEPT ![s] = "waiting"]
      BY Zenon DEF WriteCall
    <3>2. spc \in [Streams -> WriterPcs] /\ swait \in [Streams -> Waits]
      BY Zenon DEF TypeInv
    <3> QED
      BY <3>1, <3>2, Zenon DEF WriterPcs, Waits, Goto
  <2>4. poll_wakeup' \in [Streams -> BOOLEAN]
    BY Zenon DEF TypeInv, WriteCall
  <2> QED
    BY <2>2, <2>3, Zenon DEF TypeInv, WriteCall, bufVars, consVars, pollVars
<1>2. SemInv'
  BY DEF TypeInv, SemInv, ItemCount, InPut, Taking, WriteCall, Goto, bufVars, prodVars,
         consVars
<1>3. ReadInv'
  <2>1. \A t \in Streams : spc'[t] = "unblock" <=> spc[t] = "unblock"
    BY DEF TypeInv, WriteCall, Goto
  <2>2. UNCHANGED <<cpc, csd, cwait, n_sem>>
    BY Zenon DEF WriteCall, consVars
  <2>3. cpc = "rblocked" => csd \in Streams
    BY Zenon DEF SetInv
  <2> QED
    BY <2>1, <2>2, <2>3, Zenon DEF ReadInv
<1>4. \A x : InSet(x)' <=> InSet(x)
  BY Zenon DEF InSet, WriteCall, consVars, pollVars
<1>5. TokenInv'
  <2>1. \A t \in Streams : Pending(t)' <=> Pending(t)
    BY DEF Pending, TypeInv, WriteCall, Goto
  <2>2. \A t \in Streams : linked[t] > 0 => linked'[t] > 0
    BY Zenon DEF WriteCall, bufVars
  <2>3. UNCHANGED <<poll_token, cpc, csd, cwait, wakeup_sd, set>>
    BY Zenon DEF WriteCall, consVars, pollVars
  <2>4. \A t \in Streams : spc'[t] \in {"blocked", "put", "tail", "token"} => ~poll_wakeup'[t]
    <3>1. /\ ~poll_wakeup'[s]
          /\ \A t \in Streams \ {s} : spc'[t] = spc[t] /\ poll_wakeup'[t] = poll_wakeup[t]
      BY DEF TypeInv, WriteCall, Goto
    <3> QED
      BY <3>1, Zenon DEF TokenInv
  <2> QED
    BY <2>1, <2>2, <2>3, <2>4, TokenFrame, Zenon
<1>6. RegisteredInv'
  <2>1. \A t \in Streams : spc[t] \in {"tail", "token"} => spc'[t] \in {"tail", "token"}
    BY DEF TypeInv, WriteCall, Goto
  <2>2. UNCHANGED <<is_poll, linked, cpc, set, pos, cnt, poll_token>>
    BY Zenon DEF WriteCall, bufVars, consVars, pollVars
  <2> QED
    BY <2>1, <2>2, RegisteredFrame, Zenon
<1>7. SetInv'
  BY <1>4, Zenon DEF SetInv, WriteCall, consVars, pollVars
<1>8. EntryInv'
  <2>1. \A t \in Streams \ {s} : spc'[t] = spc[t] /\ swait'[t] = swait[t] /\ e_sem'[t] = e_sem[t]
    BY DEF TypeInv, WriteCall, Goto
  <2>2. s \in EntryStreams =>
          /\ e_sem'[s] = e_sem[s] - 1
          /\ e_sem[s] = 0 => spc'[s] = "blocked" /\ swait'[s] = "waiting"
          /\ e_sem[s] # 0 => spc'[s] = "put"
    BY DEF TypeInv, WriteCall, Goto
  <2>3. s \notin EntryStreams => spc'[s] = "put"
    BY Zenon DEF TypeInv, WriteCall, Goto
  <2>4. spc[s] = "idle" /\ UNCHANGED <<linked, cpc, csd>>
    BY Zenon DEF WriteCall, bufVars, consVars
  <2>5. ASSUME NEW t \in EntryStreams PROVE PlaceCount(t)'
    <3>1. PlaceCount(t) /\ t \in Streams
      BY EntryType, Zenon DEF EntryInv
    <3>2. CASE t = s
      BY <2>2, <2>4, <3>1, <3>2, StreamType, EntryType DEF PlaceCount
    <3>3. CASE t # s
      BY <2>1, <2>4, <3>1, <3>3, Zenon DEF PlaceCount
    <3> QED
      BY <3>2, <3>3, Zenon
  <2>6. cpc' = "unblock" => csd' \in Streams \ {s}
    BY <2>4, EntryType, Zenon DEF EntryInv
  <2>7. \A t \in Streams : spc'[t] = "blocked" => t \in EntryStreams
    BY <2>1, <2>3, Zenon DEF EntryInv
  <2> QED
    BY <2>1, <2>4, <2>5, <2>6, <2>7, Zenon DEF EntryInv
<1> QED
  BY <1>1, <1>2, <1>3, <1>5, <1>6, <1>7, <1>8, Zenon

(* A producer that comes back from LpelTaskBlockStream() keeps the invariant. *)
LEMMA WriteResumeInv ==
  ASSUME IInv, NEW s \in Streams, WriteResume(s)
  PROVE  IInv'
<1> USE DEF IInv
<1>1. TypeInv'
  BY Zenon DEF TypeInv, WriterPcs, Waits, WriteResume, Goto, bufVars, semVars, consVars, pollVars
<1>2. SemInv'
  BY DEF SemInv, ItemCount, InPut, Taking, WriteResume, Goto, bufVars, semVars, consVars
<1>3. ReadInv'
  BY DEF ReadInv, Polling, Waits, WriteResume, Goto, semVars, consVars
<1>4. \A x : InSet(x)' <=> InSet(x)
  BY Zenon DEF InSet, WriteResume, consVars, pollVars
<1>5. TokenInv'
  <2>1. \A t \in Streams : Pending(t)' <=> Pending(t)
    BY DEF Pending, WriteResume, Goto
  <2>2. \A t \in Streams : linked[t] > 0 => linked'[t] > 0
    BY Zenon DEF WriteResume, bufVars
  <2>3. UNCHANGED <<poll_token, cpc, csd, cwait, wakeup_sd, set>>
    BY Zenon DEF WriteResume, consVars, pollVars
  <2>4. \A t \in Streams : spc'[t] \in {"blocked", "put", "tail", "token"} => ~poll_wakeup'[t]
    BY DEF TokenInv, WriteResume, Goto
  <2> QED
    BY <2>1, <2>2, <2>3, <2>4, TokenFrame, Zenon
<1>6. RegisteredInv'
  <2>1. \A t \in Streams : spc[t] \in {"tail", "token"} => spc'[t] \in {"tail", "token"}
    BY DEF WriteResume, Goto
  <2>2. UNCHANGED <<is_poll, linked, cpc, set, pos, cnt, poll_token>>
    BY Zenon DEF WriteResume, bufVars, consVars, pollVars
  <2> QED
    BY <2>1, <2>2, RegisteredFrame, Zenon
<1>7. SetInv'
  BY <1>4, Zenon DEF SetInv, WriteResume, consVars, pollVars
<1>8. EntryInv'
  BY EntryType, Zenon
  DEF TypeInv, EntryInv, PlaceCount, WriteResume, Goto, bufVars, semVars, consVars
<1> QED
  BY <1>1, <1>2, <1>3, <1>5, <1>6, <1>7, <1>8, Zenon

(* The first store of LpelBufferPut() keeps the invariant. *)
LEMMA PutLinkInv ==
  ASSUME IInv, NEW s \in Streams, PutLink(s)
  PROVE  IInv'
<1> USE DEF IInv
<1>1. TypeInv'
  BY DEF TypeInv, WriterPcs, PutLink, Goto, semVars, consVars, pollVars
<1>2. SemInv'
  BY DEF TypeInv, SemInv, ItemCount, InPut, Taking, PutLink, Goto, semVars, consVars
<1>3. ReadInv'
  BY DEF ReadInv, Polling, PutLink, Goto, semVars, consVars
<1>4. \A x : InSet(x)' <=> InSet(x)
  BY Zenon DEF InSet, PutLink, consVars, pollVars
<1>5. TokenInv'
  <2>1. \A t \in Streams : Pending(t)' <=> Pending(t)
    BY DEF Pending, PutLink, Goto
  <2>2. \A t \in Streams : linked[t] > 0 => linked'[t] > 0
    BY DEF TypeInv, PutLink
  <2>3. UNCHANGED <<poll_token, cpc, csd, cwait, wakeup_sd, set>>
    BY Zenon DEF PutLink, consVars, pollVars
  <2>4. \A t \in Streams : spc'[t] \in {"blocked", "put", "tail", "token"} => ~poll_wakeup'[t]
    BY DEF TokenInv, PutLink, Goto
  <2> QED
    BY <2>1, <2>2, <2>3, <2>4, TokenFrame, Zenon
<1>6. RegisteredInv'
  BY <1>4, Zenon DEF TypeInv, RegisteredInv, PutLink, Goto, consVars, pollVars
<1>7. SetInv'
  BY <1>4, Zenon DEF SetInv, PutLink, consVars, pollVars
<1>8. EntryInv'
  <2>1. \A t \in Streams \ {s} : spc'[t] = spc[t] /\ linked'[t] = linked[t]
    BY DEF PutLink, Goto
  <2>2. spc[s] = "put" /\ spc'[s] = "tail" /\ linked'[s] = linked[s] + 1
    BY Zenon DEF TypeInv, PutLink, Goto
  <2>3. UNCHANGED <<e_sem, swait, cpc, csd>>
    BY Zenon DEF PutLink, semVars, consVars
  <2>4. ASSUME NEW t \in EntryStreams PROVE PlaceCount(t)'
    <3>1. PlaceCount(t) /\ t \in Streams
      BY EntryType, Zenon DEF EntryInv
    <3>2. CASE t = s
      BY <2>2, <2>3, <3>1, <3>2, StreamType, EntryType DEF PlaceCount
    <3>3. CASE t # s
      BY <2>1, <2>3, <3>1, <3>3, Zenon DEF PlaceCount
    <3> QED
      BY <3>2, <3>3, Zenon
  <2>5. cpc' = "unblock" => csd' \in Streams \ {s}
    BY <2>2, <2>3, EntryType, Zenon DEF EntryInv
  <2> QED
    BY <2>1, <2>2, <2>3, <2>4, <2>5, Zenon DEF EntryInv
<1> QED
  BY <1>1, <1>2, <1>3, <1>5, <1>6, <1>7, <1>8, Zenon

(* The second store of LpelBufferPut() keeps the invariant. *)
LEMMA PutTailInv ==
  ASSUME IInv, NEW s \in Streams, PutTail(s)
  PROVE  IInv'
<1> USE DEF IInv
<1>1. TypeInv'
  BY DEF TypeInv, WriterPcs, PutTail, Goto, semVars, consVars, pollVars
<1>2. SemInv'
  <2> SUFFICES ASSUME NEW t \in Streams PROVE ItemCount(t)'
    BY Zenon DEF SemInv
  <2>1. /\ spc \in [Streams -> WriterPcs] /\ tail \in [Streams -> Int] /\ linked[t] \in Nat
        /\ ItemCount(t)
    BY Zenon DEF TypeInv, SemInv
  <2>2. /\ spc[s] = "tail" /\ spc' = [spc EXCEPT ![s] = "token"]
        /\ tail' = [tail EXCEPT ![s] = @ + 1]
        /\ UNCHANGED <<linked, n_sem, prod_lock, cpc, csd>>
    BY Zenon DEF PutTail, Goto, semVars, consVars
  <2> QED
    BY <2>1, <2>2 DEF ItemCount, InPut, Taking
<1>3. ReadInv'
  BY DEF ReadInv, Polling, InPut, Taking, PutTail, Goto, bufVars, semVars, consVars,
         pollVars
<1>4. \A x : InSet(x)' <=> InSet(x)
  BY Zenon DEF InSet, PutTail, consVars, pollVars
<1>5. TokenInv'
  <2>1. \A t \in Streams : Pending(t)' <=> Pending(t)
    BY DEF Pending, PutTail, Goto, prodVars
  <2>2. \A t \in Streams : linked[t] > 0 => linked'[t] > 0
    BY Zenon DEF PutTail
  <2>3. UNCHANGED <<poll_token, cpc, csd, cwait, wakeup_sd, set>>
    BY Zenon DEF PutTail, consVars, pollVars
  <2>4. \A t \in Streams : spc'[t] \in {"blocked", "put", "tail", "token"} => ~poll_wakeup'[t]
    BY DEF TokenInv, PutTail, Goto
  <2> QED
    BY <2>1, <2>2, <2>3, <2>4, TokenFrame, Zenon
<1>6. RegisteredInv'
  <2>1. \A t \in Streams : spc[t] \in {"tail", "token"} => spc'[t] \in {"tail", "token"}
    BY DEF PutTail, Goto
  <2>2. UNCHANGED <<is_poll, linked, cpc, set, pos, cnt, poll_token>>
    BY Zenon DEF PutTail, consVars, pollVars
  <2> QED
    BY <2>1, <2>2, RegisteredFrame, Zenon
<1>7. SetInv'
  BY <1>4, Zenon DEF SetInv, PutTail, consVars, pollVars
<1>8. EntryInv'
  BY EntryType, Zenon DEF TypeInv, EntryInv, PlaceCount, PutTail, Goto, semVars, consVars
<1> QED
  BY <1>1, <1>2, <1>3, <1>5, <1>6, <1>7, <1>8, Zenon

(* Taking the poll token inside prod_lock in LpelStreamWrite() keeps it. *)
LEMMA CheckPollInv ==
  ASSUME IInv, NEW s \in Streams, CheckPoll(s)
  PROVE  IInv'
<1> USE DEF IInv
<1>1. TypeInv'
  BY ZenonT(30)
  DEF TypeInv, WriterPcs, Waits, CheckPoll, Goto, bufVars, semVars, prodVars, consVars,
      pollVars
<1>2. SemInv'
  BY ZenonT(30) DEF TypeInv, SemInv, ItemCount, InPut, Taking, CheckPoll, Goto, bufVars, semVars,
         prodVars, consVars, pollVars
<1>3. ReadInv'
  BY DEF ReadInv, TokenInv, Polling, CheckPoll, Goto, semVars
<1>4. \A x : InSet(x)' <=> InSet(x)
  BY Zenon DEF InSet, CheckPoll
<1>5. TokenInv'
  <2>1. spc[s] = "token" /\ spc'[s] = "V" /\ ~poll_wakeup[s]
    BY Zenon DEF CheckPoll, Goto, TypeInv, TokenInv
  <2>2. \A t \in Streams \ {s} : spc'[t] = spc[t] /\ poll_wakeup'[t] = poll_wakeup[t]
    BY Zenon DEF CheckPoll, Goto, TypeInv
  <2>3. UNCHANGED <<linked, cpc, csd, wakeup_sd>>
    BY Zenon DEF CheckPoll, bufVars
  <2>4. \A t \in Streams \ {s} : Pending(t)' <=> Pending(t)
    BY <2>2, Zenon DEF Pending
  <2>5. CASE is_poll[s] /\ poll_token
    <3>1. poll_wakeup'[s] /\ ~poll_token' /\ cwait' = "waiting"
      BY <2>5, ZenonT(30) DEF CheckPoll, TypeInv
    <3>2. InSet(s) /\ linked[s] > 0
      <4>1. ItemCount(s) /\ cpc \in {"register", "pblocked", "unregister"} /\ InSet(s)
        BY <2>5, Zenon DEF SemInv, RegisteredInv
      <4> QED
        BY <2>1, <4>1, StreamType DEF ItemCount, InPut
    <3>3. Pending(s)' /\ \A t \in Streams : ~Pending(t)
      BY <2>1, <2>5, <3>1, Zenon DEF TokenInv, Pending
    <3> QED
      BY <1>4, <2>1, <2>2, <2>3, <2>4, <2>5, <3>1, <3>2, <3>3, Zenon DEF TokenInv, Polling
  <2>6. CASE ~(is_poll[s] /\ poll_token)
    <3>1. ~poll_wakeup'[s] /\ poll_token' = poll_token /\ cwait' = cwait
      BY <2>1, <2>6, Zenon DEF CheckPoll, TypeInv
    <3>2. ~Pending(s)' /\ ~Pending(s)
      BY <2>1, <3>1, Zenon DEF Pending
    <3> QED
      BY <1>4, <2>2, <2>3, <2>4, <3>1, <3>2, Zenon DEF TokenInv, Polling
  <2> QED
    BY <2>5, <2>6, Zenon
<1>6. RegisteredInv'
  <2>1. \A t \in Streams : is_poll'[t] => is_poll[t] /\ t # s
    BY Zenon DEF CheckPoll, TypeInv
  <2>2. \A t \in Streams \ {s} : is_poll'[t] = is_poll[t] /\ spc'[t] = spc[t]
    BY Zenon DEF CheckPoll, Goto, TypeInv
  <2>3. UNCHANGED <<linked, cpc, set, pos, cnt>>
    BY Zenon DEF CheckPoll, bufVars
  <2>4. poll_token' => poll_token /\ UNCHANGED is_poll
    BY Zenon DEF CheckPoll
  <2>5. \A i \in DOMAIN set : set[i] \in Streams
    BY DEF TypeInv
  <2> QED
    BY <1>4, <2>1, <2>2, <2>3, <2>4, <2>5 DEF RegisteredInv
<1>7. SetInv'
  BY <1>4, Zenon DEF SetInv, CheckPoll, prodVars, consVars
<1>8. EntryInv'
  BY EntryType, Zenon DEF TypeInv, EntryInv, PlaceCount, CheckPoll, Goto, bufVars, semVars
<1> QED
  BY <1>1, <1>2, <1>3, <1>5, <1>6, <1>7, <1>8, Zenon

(* The quasi V(n_sem) of LpelStreamWrite() keeps the invariant. *)
LEMMA WriteVInv ==
  ASSUME IInv, NEW s \in Streams, WriteV(s)
  PROVE  IInv'
<1> USE DEF IInv
<1>1. TypeInv'
  BY DEF TypeInv, WriterPcs, WriteV, Goto, bufVars, consVars, pollVars
<1>2. SemInv'
  <2>1. \A t \in Streams \ {s} : spc'[t] = spc[t] /\ n_sem'[t] = n_sem[t]
    BY DEF WriteV, Goto
  <2>2. spc[s] = "V" /\ n_sem'[s] = n_sem[s] + 1
    BY Zenon DEF WriteV, TypeInv
  <2>3. /\ n_sem[s] < 0 => spc'[s] = "unblock"
        /\ ~(n_sem[s] < 0) => spc'[s] \in {"pollunblock", "count"}
    BY Zenon DEF WriteV, Goto, TypeInv, NotifyReader
  <2>4. UNCHANGED <<linked, tail, prod_lock, cpc, csd, cwait>>
    BY Zenon DEF WriteV, bufVars, consVars
  <2>5. ItemCount(s)'
    <3>1. ItemCount(s)
      BY Zenon DEF SemInv
    <3>2. n_sem[s] \in Int /\ linked[s] \in Nat
      BY StreamType, Zenon
    <3>3. spc'[s] \notin {"tail", "token", "V"}
      BY <2>3, Zenon
    <3>4. InPut(s) /\ ~InPut(s)'
      BY <2>2, <3>3, Zenon DEF InPut
    <3>5. Taking(s)' <=> Taking(s)
      BY <2>4, Zenon DEF Taking
    <3>6. /\ n_sem[s] = linked[s] - 1 - (IF Taking(s) THEN 1 ELSE 0)
          /\ tail[s] = linked[s]
          /\ n_sem[s] >= -1
          /\ ~prod_lock[s]
      BY <2>2, <3>1, <3>2, <3>4 DEF ItemCount
    <3>7. n_sem'[s] = linked'[s] - (IF InPut(s)' THEN 1 ELSE 0)
                                - (IF Taking(s)' THEN 1 ELSE 0)
      BY <2>2, <2>4, <3>2, <3>4, <3>5, <3>6
    <3>8. n_sem'[s] >= -1 /\ ~(n_sem'[s] = -1)
      BY <2>2, <3>2, <3>6
    <3>9. tail'[s] = linked'[s] - (IF spc'[s] = "tail" THEN 1 ELSE 0)
      BY <2>4, <3>2, <3>3, <3>6
    <3>10. prod_lock'[s] <=> spc'[s] \in {"tail", "token"}
      BY <2>4, <3>3, <3>6, Zenon
    <3> QED
      BY <3>7, <3>8, <3>9, <3>10, Zenon DEF ItemCount
  <2>6. ASSUME NEW t \in Streams \ {s} PROVE ItemCount(t)'
    <3>1. ItemCount(t)
      BY Zenon DEF SemInv
    <3>2. InPut(t)' <=> InPut(t)
      BY <2>1, Zenon DEF InPut
    <3>3. Taking(t)' <=> Taking(t)
      BY <2>4, Zenon DEF Taking
    <3> QED
      BY <2>1, <2>4, <3>1, <3>2, <3>3, Zenon DEF ItemCount
  <2> QED
    BY <2>5, <2>6, Zenon DEF SemInv
<1>3. ReadInv'
  <2>1. \A t \in Streams \ {s} : spc'[t] = spc[t] /\ n_sem'[t] = n_sem[t]
    BY DEF WriteV, Goto
  <2>2. spc[s] = "V" /\ n_sem'[s] = n_sem[s] + 1
    BY Zenon DEF WriteV, TypeInv
  <2>3. /\ n_sem[s] < 0 => spc'[s] = "unblock"
        /\ ~(n_sem[s] < 0) => spc'[s] \in {"pollunblock", "count"}
    BY Zenon DEF WriteV, Goto, TypeInv, NotifyReader
  <2>4. UNCHANGED <<linked, tail, prod_lock, cpc, csd, cwait>>
    BY Zenon DEF WriteV, bufVars, consVars
  <2>5. n_sem[s] >= -1 /\ (n_sem[s] = -1 => cpc = "rblocked" /\ csd = s /\ cwait = "waiting")
    BY Zenon DEF SemInv, ItemCount, ReadInv
  <2>6. cpc = "rblocked" => csd \in Streams
    BY Zenon DEF SetInv
  <2>7. n_sem[s] \in Int
    BY StreamType, ZenonT(30)
  <2>8. CASE n_sem[s] < 0
    <3>1. n_sem[s] = -1 /\ n_sem'[s] = 0 /\ spc'[s] = "unblock"
      BY <2>2, <2>3, <2>5, <2>7, <2>8
    <3>2. \A t \in Streams \ {s} : spc[t] # "unblock"
      BY <2>5, <3>1, Zenon DEF ReadInv
    <3> QED
      BY <2>1, <2>4, <2>5, <3>1 DEF ReadInv
  <2>9. CASE ~(n_sem[s] < 0)
    <3>1. /\ spc'[s] # "unblock"
          /\ spc[s] # "unblock"
          /\ n_sem[s] >= 0
          /\ n_sem'[s] >= 0
          /\ n_sem'[s] # -1
      BY <2>2, <2>3, <2>7, <2>9
    <3> QED
      BY <2>1, <2>4, <2>6, <3>1, Zenon DEF ReadInv
  <2> QED
    BY <2>8, <2>9, Zenon
<1>4. \A x : InSet(x)' <=> InSet(x)
  BY Zenon DEF InSet, WriteV, consVars, pollVars
<1>5. TokenInv'
  <2>1. \A t \in Streams \ {s} : spc'[t] = spc[t]
    BY DEF WriteV, Goto
  <2>2. UNCHANGED <<linked, poll_wakeup, poll_token, cpc, csd, cwait, wakeup_sd>>
    BY Zenon DEF WriteV, bufVars, consVars, pollVars
  <2>3. spc[s] = "V" /\ (n_sem[s] < 0 => spc'[s] = "unblock")
    BY Zenon DEF WriteV, Goto, TypeInv, NotifyReader
  <2>4. ~(n_sem[s] < 0) => spc'[s] = IF poll_wakeup[s] THEN "pollunblock" ELSE "count"
    BY Zenon DEF WriteV, Goto, TypeInv, NotifyReader
  <2>5. Pending(s) => ~(n_sem[s] < 0)
    <3>1. ItemCount(s) /\ (Pending(s) => cpc \in {"register", "pblocked"})
      BY Zenon DEF SemInv, TokenInv, Polling
    <3> QED
      BY <3>1, StreamType DEF ItemCount
  <2>6. \A t \in Streams : Pending(t)' <=> Pending(t)
    BY <2>1, <2>2, <2>3, <2>4, <2>5, Zenon DEF Pending
  <2>7. \A t \in Streams : spc'[t] \in {"blocked", "put", "tail", "token"} => ~poll_wakeup'[t]
    BY <2>1, <2>2, <2>3, <2>4, ZenonT(30) DEF TokenInv
  <2> QED
    BY <1>4, <2>2, <2>6, <2>7, Zenon DEF TokenInv, Polling
<1>6. RegisteredInv'
  <2>1. \A t \in Streams : spc[t] \in {"tail", "token"} => spc'[t] \in {"tail", "token"}
    BY DEF WriteV, Goto
  <2>2. UNCHANGED <<is_poll, linked, cpc, set, pos, cnt, poll_token>>
    BY Zenon DEF WriteV, bufVars, consVars, pollVars
  <2> QED
    BY <2>1, <2>2, RegisteredFrame, Zenon
<1>7. SetInv'
  BY <1>4, Zenon DEF SetInv, WriteV, consVars, pollVars
<1>8. EntryInv'
  BY EntryType, ZenonT(30) DEF TypeInv, EntryInv, PlaceCount, WriteV, Goto, bufVars, consVars
<1> QED
  BY <1>1, <1>2, <1>3, <1>5, <1>6, <1>7, <1>8, Zenon

(* LpelTaskUnblock() of the consumer keeps the invariant. *)
LEMMA WakeConsumerInv ==
  ASSUME IInv, NEW s \in Streams, WakeConsumer(s)
  PROVE  IInv'
<1> USE DEF IInv
<1>1. TypeInv'
  BY Zenon DEF TypeInv, WriterPcs, Waits, WakeConsumer, Goto, bufVars, semVars
<1>2. SemInv'
  <2> SUFFICES ASSUME NEW t \in Streams PROVE ItemCount(t)'
    BY Zenon DEF SemInv
  <2>1. spc \in [Streams -> WriterPcs] /\ ItemCount(t)
    BY Zenon DEF TypeInv, SemInv
  <2>2. /\ spc[s] \in {"unblock", "pollunblock"} /\ spc' = [spc EXCEPT ![s] = "count"]
        /\ UNCHANGED <<linked, tail, n_sem, prod_lock, cpc, csd>>
    BY Zenon DEF WakeConsumer, Goto, bufVars, semVars
  <2>3. /\ InPut(t)' <=> InPut(t)
        /\ spc'[t] = "tail" <=> spc[t] = "tail"
        /\ spc'[t] = "token" <=> spc[t] = "token"
    BY <2>1, <2>2, ZenonT(30) DEF InPut
  <2> QED
    BY <2>1, <2>2, <2>3, Zenon DEF ItemCount, Taking
<1>3. ReadInv'
  BY DEF TypeInv, ReadInv, TokenInv, Polling, Pending, WakeConsumer, Goto, semVars
<1>4. \A x : InSet(x)' <=> InSet(x)
  BY Zenon DEF InSet, WakeConsumer
<1>5. TokenInv'
  <2>1. \A t \in Streams \ {s} : spc'[t] = spc[t]
    BY DEF WakeConsumer, Goto
  <2>2. UNCHANGED <<linked, poll_wakeup, poll_token, cpc, csd>>
    BY Zenon DEF WakeConsumer, bufVars
  <2>3. spc'[s] = "count" /\ cwait' = "signalled"
    BY Zenon DEF WakeConsumer, Goto, TypeInv
  <2>4. \A t \in Streams : spc'[t] \in {"blocked", "put", "tail", "token"} => ~poll_wakeup'[t]
    BY <2>1, <2>2, <2>3, Zenon DEF TokenInv
  <2>5. ~Pending(s)' /\ \A t \in Streams \ {s} : Pending(t)' <=> Pending(t)
    BY <2>1, <2>2, <2>3, Zenon DEF Pending
  <2>6. CASE spc[s] = "unblock"
    <3>1. cpc = "rblocked" /\ cwait = "waiting"
      BY <2>6, Zenon DEF ReadInv
    <3>2. ~poll_token /\ \A t \in Streams : ~Pending(t)
      BY <3>1, Zenon DEF TokenInv, Polling
    <3> QED
      BY <2>2, <2>4, <2>5, <3>1, Zenon DEF TokenInv, Polling
  <2>7. CASE spc[s] = "pollunblock"
    <3>1. Pending(s) /\ wakeup_sd' = s
      BY <2>7, Zenon DEF Pending, WakeConsumer
    <3>2. /\ Polling
          /\ ~poll_token
          /\ InSet(s)
          /\ linked[s] > 0
          /\ \A t \in Streams \ {s} : ~Pending(t)
      BY <3>1, Zenon DEF TokenInv
    <3> QED
      BY <1>4, <2>2, <2>3, <2>4, <2>5, <3>1, Zenon DEF TokenInv
  <2> QED
    BY <2>6, <2>7, Zenon DEF WakeConsumer
<1>6. RegisteredInv'
  <2>1. \A t \in Streams : spc[t] \in {"tail", "token"} => spc'[t] \in {"tail", "token"}
    BY DEF WakeConsumer, Goto
  <2>2. UNCHANGED <<is_poll, linked, cpc, set, pos, cnt, poll_token>>
    BY Zenon DEF WakeConsumer, bufVars
  <2> QED
    BY <2>1, <2>2, RegisteredFrame, Zenon
<1>7. SetInv'
  BY <1>4, Zenon DEF SetInv, WakeConsumer
<1>8. EntryInv'
  BY EntryType, Zenon
  DEF TypeInv, EntryInv, PlaceCount, WakeConsumer, Goto, bufVars, semVars
<1> QED
  BY <1>1, <1>2, <1>3, <1>5, <1>6, <1>7, <1>8, Zenon

(* Counting the written item keeps the invariant. *)
LEMMA CountWriteInv ==
  ASSUME IInv, NEW s \in Streams, CountWrite(s)
  PROVE  IInv'
<1> USE DEF IInv
<1>1. TypeInv'
  BY DEF TypeInv, WriterPcs, CountWrite, Goto, bufVars, semVars, consVars, pollVars
<1>2. SemInv'
  BY DEF SemInv, ItemCount, InPut, Taking, CountWrite, Goto, bufVars, semVars, consVars
<1>3. ReadInv'
  BY DEF ReadInv, Polling, CountWrite, Goto, semVars, consVars
<1>4. \A x : InSet(x)' <=> InSet(x)
  BY Zenon DEF InSet, CountWrite, consVars, pollVars
<1>5. TokenInv'
  <2>1. \A t \in Streams : Pending(t)' <=> Pending(t)
    BY DEF Pending, CountWrite, Goto
  <2>2. \A t \in Streams : linked[t] > 0 => linked'[t] > 0
    BY Zenon DEF CountWrite, bufVars
  <2>3. UNCHANGED <<poll_token, cpc, csd, cwait, wakeup_sd, set>>
    BY Zenon DEF CountWrite, consVars, pollVars
  <2>4. \A t \in Streams : spc'[t] \in {"blocked", "put", "tail", "token"} => ~poll_wakeup'[t]
    BY DEF TokenInv, CountWrite, Goto
  <2> QED
    BY <2>1, <2>2, <2>3, <2>4, TokenFrame, Zenon
<1>6. RegisteredInv'
  <2>1. \A t \in Streams : spc[t] \in {"tail", "token"} => spc'[t] \in {"tail", "token"}
    BY DEF CountWrite, Goto
  <2>2. UNCHANGED <<is_poll, linked, cpc, set, pos, cnt, poll_token>>
    BY Zenon DEF CountWrite, bufVars, consVars, pollVars
  <2> QED
    BY <2>1, <2>2, RegisteredFrame, Zenon
<1>7. SetInv'
  BY <1>4, Zenon DEF SetInv, CountWrite, consVars, pollVars
<1>8. EntryInv'
  BY EntryType, ZenonT(30)
  DEF TypeInv, EntryInv, PlaceCount, CountWrite, Goto, bufVars, semVars, consVars
<1> QED
  BY <1>1, <1>2, <1>3, <1>5, <1>6, <1>7, <1>8, Zenon

-----------------------------------------------------------------------------
(* Steps of the consumer: LpelStreamRead() *)

(* The quasi P(n_sem) of LpelStreamRead() keeps the invariant. *)
LEMMA ReadCallInv ==
  ASSUME IInv, NEW s \in Streams, prodStream[s], ReadCall(s)
  PROVE  IInv'
<1> USE DEF IInv
<1>1. TypeInv'
  BY DEF TypeInv, ReaderPcs, Waits, ReadCall, ReadP, bufVars, prodVars, pollVars
<1>2. SemInv'
  <2> SUFFICES ASSUME NEW t \in Streams PROVE ItemCount(t)'
    BY Zenon DEF SemInv
  <2>1. n_sem \in [Streams -> Int] /\ linked[t] \in Nat /\ ItemCount(t) /\ ItemCount(s)
    BY Zenon DEF TypeInv, SemInv
  <2>2. /\ n_sem' = [n_sem EXCEPT ![s] = @ - 1] /\ csd' = s
        /\ cpc' = IF n_sem[s] = 0 THEN "rblocked" ELSE "pop"
        /\ cpc \in {"idle", "polled"}
        /\ UNCHANGED <<linked, tail, spc, prod_lock>>
    BY ZenonT(30) DEF ReadCall, ReadP, bufVars, prodVars
  <2>3. ~Taking(t) /\ ~Taking(s) /\ n_sem[s] >= 0 /\ n_sem[t] >= 0
    BY <2>1, <2>2 DEF ItemCount, Taking
  <2>4. InPut(t)' <=> InPut(t)
    BY <2>2, ZenonT(30) DEF InPut
  <2>5. CASE t = s
    <3>1. Taking(t)' /\ n_sem'[t] = n_sem[t] - 1
      BY <2>1, <2>2, <2>5, Zenon DEF Taking
    <3> QED
      BY <2>1, <2>2, <2>3, <2>4, <2>5, <3>1 DEF ItemCount
  <2>6. CASE t # s
    <3>1. ~Taking(t)' /\ n_sem'[t] = n_sem[t]
      BY <2>1, <2>2, <2>6, ZenonT(30) DEF Taking
    <3> QED
      BY <2>1, <2>2, <2>3, <2>4, <3>1, Zenon DEF ItemCount
  <2> QED
    BY <2>5, <2>6, Zenon
<1>3. ReadInv'
  BY DEF TypeInv, ReadInv, SemInv, TokenInv, Polling, Pending, Waits, ReadCall, ReadP,
         bufVars, prodVars, pollVars
<1>4. \A x : InSet(x)' <=> InSet(x)
  BY Zenon DEF InSet, ReadCall, pollVars
<1>5. TokenInv'
  BY Zenon DEF TokenInv, Polling, Pending, ReadCall, ReadP, prodVars, pollVars
<1>6. RegisteredInv'
  BY Zenon DEF RegisteredInv, ReadCall, ReadP
<1>7. SetInv'
  BY <1>4, Zenon DEF SetInv, ReadCall, ReadP, semVars, prodVars, pollVars
<1>8. EntryInv'
  BY Zenon DEF EntryInv, PlaceCount, ReadCall, ReadP, bufVars, prodVars
<1> QED
  BY <1>1, <1>2, <1>3, <1>5, <1>6, <1>7, <1>8, Zenon

(* A consumer that comes back from LpelTaskBlockStream() keeps the invariant. *)
LEMMA ReadResumeInv ==
  ASSUME IInv, ReadResume
  PROVE  IInv'
<1> USE DEF IInv
<1>1. TypeInv'
  BY Zenon DEF TypeInv, ReaderPcs, Waits, ReadResume, bufVars, semVars, prodVars, pollVars
<1>2. SemInv'
  <2>1. /\ UNCHANGED <<n_sem, linked, tail, prod_lock, spc, csd>>
        /\ cpc = "rblocked"
        /\ cpc' = "pop"
    BY Zenon DEF ReadResume, bufVars, semVars, prodVars
  <2>2. n_sem[csd] # -1
    BY Zenon DEF ReadInv, ReadResume
  <2>3. ASSUME NEW t \in Streams PROVE ItemCount(t)'
    <3>1. ItemCount(t)
      BY Zenon DEF SemInv
    <3> QED
      BY <2>1, <2>2, <3>1, Zenon DEF ItemCount, InPut, Taking
  <2> QED
    BY <2>3, Zenon DEF SemInv
<1>3. ReadInv'
  BY Zenon DEF ReadInv, ReadResume, prodVars
<1>4. \A x : InSet(x)' <=> InSet(x)
  BY Zenon DEF InSet, ReadResume, pollVars
<1>5. TokenInv'
  BY Zenon DEF TokenInv, Polling, Pending, ReadResume, prodVars, pollVars
<1>6. RegisteredInv'
  BY Zenon DEF RegisteredInv, ReadResume
<1>7. SetInv'
  BY <1>4, Zenon DEF SetInv, ReadResume, pollVars
<1>8. EntryInv'
  BY Zenon DEF EntryInv, PlaceCount, ReadResume, bufVars, semVars, prodVars
<1> QED
  BY <1>1, <1>2, <1>3, <1>5, <1>6, <1>7, <1>8, Zenon

(* LpelBufferPop() keeps the invariant: the item it takes is there. *)
LEMMA PopInv ==
  ASSUME IInv, Pop
  PROVE  IInv'
<1> USE DEF IInv
<1>1. TypeInv'
  <2>1. csd \in Streams /\ cpc = "pop"
    BY ZenonT(30) DEF SetInv, Pop
  <2>2. linked[csd] - 1 \in Nat
    <3>1. ItemCount(csd)
      BY <2>1, Zenon DEF SemInv
    <3> QED
      BY <2>1, <3>1, StreamType DEF ItemCount, Taking
  <2> QED
    <3>1. linked' \in [Streams -> Nat] /\ tail' \in [Streams -> Int] /\ cpc' \in ReaderPcs
      BY <2>1, <2>2 DEF TypeInv, ReaderPcs, Pop
    <3> QED
      BY <3>1, Zenon DEF TypeInv, Pop, semVars, prodVars, pollVars
<1>2. SemInv'
  BY DEF TypeInv, SemInv, ItemCount, InPut, Taking, Pop, semVars, prodVars
<1>3. ReadInv'
  BY Zenon DEF ReadInv, Pop, prodVars
<1>4. \A x : InSet(x)' <=> InSet(x)
  BY Zenon DEF InSet, Pop, pollVars
<1>5. TokenInv'
  BY Zenon DEF TokenInv, Polling, Pending, Pop, prodVars, pollVars
<1>6. RegisteredInv'
  BY Zenon DEF RegisteredInv, Pop
<1>7. SetInv'
  BY <1>4, Zenon DEF SetInv, Pop, pollVars
<1>8. EntryInv'
  <2>1. csd \in Streams /\ cpc = "pop" /\ UNCHANGED <<csd, e_sem, spc, swait>>
    BY Zenon DEF SetInv, Pop, semVars, prodVars
  <2>2. linked'[csd] = linked[csd] - 1 /\ \A t \in Streams \ {csd} : linked'[t] = linked[t]
    BY <2>1, Zenon DEF TypeInv, Pop
  <2>3. cpc' = IF csd \in EntryStreams THEN "V" ELSE "count"
    BY Zenon DEF Pop
  <2>4. ASSUME NEW t \in EntryStreams PROVE PlaceCount(t)'
    <3>1. PlaceCount(t) /\ t \in Streams
      BY EntryType, Zenon DEF EntryInv
    <3>2. CASE t = csd
      <4>1. linked[t] \in Nat /\ e_sem[t] \in Int /\ BufSize \in Nat
        BY <3>1, StreamType, EntryType, Zenon
      <4>2. cpc = "pop" /\ cpc' = "V" /\ csd' = t /\ csd = t /\ linked'[t] = linked[t] - 1
        BY <2>1, <2>2, <2>3, <3>2, Zenon
      <4> QED
        BY <2>1, <3>1, <4>1, <4>2 DEF PlaceCount
    <3>3. CASE t # csd
      BY <2>1, <2>2, <3>1, <3>3, Zenon DEF PlaceCount
    <3> QED
      BY <3>2, <3>3, Zenon
  <2> QED
    BY <2>1, <2>3, <2>4, Zenon DEF EntryInv
<1> QED
  BY <1>1, <1>2, <1>3, <1>5, <1>6, <1>7, <1>8, Zenon

(* The quasi V(e_sem) of LpelStreamRead() keeps the invariant. *)
LEMMA ReadVInv ==
  ASSUME IInv, ReadV
  PROVE  IInv'
<1> USE DEF IInv
<1>1. TypeInv'
  <2>1. csd \in Streams
    BY EntryType, Zenon DEF EntryInv, ReadV
  <2> QED
    BY <2>1 DEF TypeInv, ReaderPcs, ReadV, bufVars, prodVars, pollVars
<1>2. SemInv'
  BY Zenon DEF SemInv, ItemCount, InPut, Taking, ReadV, bufVars, prodVars
<1>3. ReadInv'
  BY Zenon DEF ReadInv, ReadV, prodVars
<1>4. \A x : InSet(x)' <=> InSet(x)
  BY Zenon DEF InSet, ReadV, pollVars
<1>5. TokenInv'
  BY Zenon DEF TokenInv, Polling, Pending, ReadV, prodVars, pollVars
<1>6. RegisteredInv'
  BY Zenon DEF RegisteredInv, ReadV
<1>7. SetInv'
  BY <1>4, Zenon DEF SetInv, ReadV, pollVars
<1>8. EntryInv'
  <2>1. csd \in EntryStreams /\ cpc = "V" /\ UNCHANGED <<csd, linked, spc, swait>>
    BY Zenon DEF EntryInv, ReadV, bufVars, prodVars
  <2>2. e_sem'[csd] = e_sem[csd] + 1 /\ \A t \in Streams \ {csd} : e_sem'[t] = e_sem[t]
    <3>1. e_sem \in [Streams -> Int] /\ csd \in Streams
      BY <2>1, EntryType, Zenon DEF TypeInv
    <3> QED
      BY <2>1, <3>1, Zenon DEF ReadV
  <2>3. cpc' = IF e_sem[csd] < 0 THEN "unblock" ELSE "count"
    BY ZenonT(30) DEF ReadV, NotifyWriter
  <2>4. ASSUME NEW t \in EntryStreams PROVE PlaceCount(t)'
    <3>1. PlaceCount(t) /\ t \in Streams
      BY EntryType, Zenon DEF EntryInv
    <3>2. CASE t = csd
      BY <2>1, <2>2, <2>3, <3>1, StreamType, EntryType DEF PlaceCount
    <3>3. CASE t # csd
      BY <2>1, <2>2, <3>1, <3>3, Zenon DEF PlaceCount
    <3> QED
      BY <3>2, <3>3, Zenon
  <2>5. cpc' = "unblock" => spc[csd] = "blocked" /\ swait[csd] = "waiting" /\ e_sem'[csd] >= 0
    <3>1. PlaceCount(csd) /\ e_sem[csd] \in Int
      BY <2>1, StreamType, EntryType, Zenon DEF EntryInv
    <3> QED
      BY <2>2, <2>3, <3>1 DEF PlaceCount
  <2> QED
    BY <2>1, <2>4, <2>5, Zenon DEF EntryInv
<1> QED
  BY <1>1, <1>2, <1>3, <1>5, <1>6, <1>7, <1>8, Zenon

(* LpelTaskUnblock() of the producer keeps the invariant. *)
LEMMA WakeProducerInv ==
  ASSUME IInv, WakeProducer
  PROVE  IInv'
<1> USE DEF IInv
<1>1. TypeInv'
  BY Zenon DEF TypeInv, ReaderPcs, Waits, WakeProducer, bufVars, semVars, pollVars
<1>2. SemInv'
  BY Zenon DEF SemInv, ItemCount, InPut, Taking, WakeProducer, bufVars, semVars
<1>3. ReadInv'
  BY Zenon DEF ReadInv, WakeProducer
<1>4. \A x : InSet(x)' <=> InSet(x)
  BY Zenon DEF InSet, WakeProducer, pollVars
<1>5. TokenInv'
  BY Zenon DEF TokenInv, Polling, Pending, WakeProducer, pollVars
<1>6. RegisteredInv'
  BY Zenon DEF RegisteredInv, WakeProducer
<1>7. SetInv'
  BY <1>4, Zenon DEF SetInv, WakeProducer, pollVars
<1>8. EntryInv'
  <2>1. UNCHANGED <<linked, e_sem, spc, csd>> /\ cpc = "unblock" /\ cpc' = "count"
    BY Zenon DEF WakeProducer, bufVars, semVars
  <2>2. \A t \in Streams : t # csd => swait'[t] = swait[t]
    BY Zenon DEF WakeProducer, TypeInv
  <2>3. e_sem[csd] >= 0 /\ csd \in EntryStreams
    BY <2>1, Zenon DEF EntryInv
  <2>4. ASSUME NEW t \in EntryStreams PROVE PlaceCount(t)'
    <3>1. PlaceCount(t) /\ t \in Streams /\ e_sem[t] \in Int
      BY EntryType, StreamType, Zenon DEF EntryInv
    <3>2. e_sem[t] = -1 => t # csd
      BY <2>3, <3>1
    <3> QED
      BY <2>1, <2>2, <3>1, <3>2, Zenon DEF PlaceCount
  <2> QED
    BY <2>1, <2>4, Zenon DEF EntryInv
<1> QED
  BY <1>1, <1>2, <1>3, <1>5, <1>6, <1>7, <1>8, Zenon

(* Counting the read item keeps the invariant. *)
LEMMA CountReadInv ==
  ASSUME IInv, CountRead
  PROVE  IInv'
<1> USE DEF IInv
<1>1. TypeInv'
  <2>1. csd \in Streams
    BY Zenon DEF SetInv, CountRead
  <2> QED
    BY <2>1 DEF TypeInv, ReaderPcs, CountRead, bufVars, semVars, prodVars, pollVars
<1>2. SemInv'
  BY Zenon DEF SemInv, ItemCount, InPut, Taking, CountRead, bufVars, semVars, prodVars
<1>3. ReadInv'
  BY Zenon DEF ReadInv, CountRead, prodVars
<1>4. \A x : InSet(x)' <=> InSet(x)
  BY Zenon DEF InSet, CountRead, pollVars
<1>5. TokenInv'
  BY Zenon DEF TokenInv, Polling, Pending, CountRead, prodVars, pollVars
<1>6. RegisteredInv'
  BY Zenon DEF RegisteredInv, CountRead
<1>7. SetInv'
  BY <1>4, Zenon DEF SetInv, CountRead, pollVars
<1>8. EntryInv'
  BY Zenon DEF EntryInv, PlaceCount, CountRead, bufVars, semVars, prodVars
<1> QED
  BY <1>1, <1>2, <1>3, <1>5, <1>6, <1>7, <1>8, Zenon

-----------------------------------------------------------------------------
(* Steps of the consumer: LpelStreamPoll() and LpelStreamClose() *)

(* The call of LpelStreamPoll() keeps the invariant. *)
LEMMA PollCallInv ==
  ASSUME IInv, PollCall
  PROVE  IInv'
<1> USE DEF IInv
<1>1. TypeInv'
  BY Zenon DEF TypeInv, ReaderPcs, PollCall, bufVars, semVars, prodVars
<1>2. SemInv'
  BY Zenon DEF SemInv, ItemCount, InPut, Taking, PollCall, bufVars, semVars, prodVars
<1>3. ReadInv'
  BY Zenon DEF ReadInv, PollCall, prodVars
<1>4. \A x : InSet(x)' <=> InSet(x)
  BY Zenon DEF InSet, PollCall
<1>5. TokenInv'
  BY Zenon DEF TokenInv, Polling, Pending, PollCall, prodVars
<1>6. RegisteredInv'
  <2>1. 1 \in DOMAIN set
    BY SetType, Zenon DEF PollCall
  <2>2. /\ cpc = "idle" /\ cpc' = "fast" /\ pos' = 1 /\ set # <<>>
        /\ UNCHANGED <<set, is_poll, linked, spc, cnt, poll_token>>
    BY Zenon DEF PollCall, bufVars, prodVars
  <2> QED
    BY <1>4, <2>1, <2>2, Zenon DEF RegisteredInv
<1>7. SetInv'
  BY <1>4, ZenonT(30) DEF SetInv, PollCall
<1>8. EntryInv'
  BY DEF EntryInv, PlaceCount, PollCall, bufVars, semVars, prodVars
<1> QED
  BY <1>1, <1>2, <1>3, <1>5, <1>6, <1>7, <1>8, Zenon

(* Setting poll_token in LpelStreamPoll() keeps the invariant. *)
LEMMA PlaceTokenInv ==
  ASSUME IInv, PlaceToken
  PROVE  IInv'
<1> USE DEF IInv
<1>1. TypeInv'
  BY DEF TypeInv, WriterPcs, ReaderPcs, Waits, PlaceToken, bufVars, semVars, prodVars
<1>2. SemInv'
  BY Zenon DEF SemInv, ItemCount, InPut, Taking, PlaceToken, bufVars, semVars, prodVars
<1>3. ReadInv'
  BY Zenon DEF ReadInv, PlaceToken, prodVars
<1>4. \A x : InSet(x)' <=> InSet(x)
  BY Zenon DEF InSet, PlaceToken
<1>5. TokenInv'
  BY Zenon DEF TokenInv, ReadInv, Polling, Pending, PlaceToken, prodVars
<1>6. RegisteredInv'
  <2>1. cpc = "token" /\ cpc' = "register" /\ cnt' = 0 /\ pos' = 1 /\ UNCHANGED <<is_poll, set>>
    BY Zenon DEF PlaceToken
  <2>2. \A t \in Streams : ~is_poll[t]
    BY <2>1, Zenon DEF RegisteredInv
  <2>3. 1 \in DOMAIN set /\ \A i \in DOMAIN set : set[i] \in Streams /\ i \in Nat /\ ~(i < 1)
    <3>1. set # <<>>
      BY <2>1, Zenon DEF RegisteredInv
    <3> QED
      BY <3>1, SetType
  <2> QED
    BY <2>1, <2>3 DEF RegisteredInv
<1>7. SetInv'
  BY <1>4, Zenon DEF SetInv, PlaceToken
<1>8. EntryInv'
  BY Zenon DEF EntryInv, PlaceCount, PlaceToken, bufVars, semVars, prodVars
<1> QED
  BY <1>1, <1>2, <1>3, <1>5, <1>6, <1>7, <1>8, Zenon

(* Looking at a stream under prod_lock and registering it, the slow path of *)
(* LpelStreamPoll(), keeps the invariant.                                   *)
LEMMA RegisterInv ==
  ASSUME IInv, Register
  PROVE  IInv'
<1> USE DEF IInv
<1>1. TypeInv'
  <2>1. set[pos] \in Streams /\ pos \in Nat
    BY DEF TypeInv, RegisteredInv, Register
  <2>2. is_poll' \in [Streams -> BOOLEAN]
    BY Zenon DEF TypeInv, Register
  <2>3. /\ cnt' \in Int
        /\ pos' \in Nat
        /\ wakeup_sd' \in Streams \cup {0}
        /\ poll_token' \in BOOLEAN
    <3>1. cnt \in Int /\ wakeup_sd \in Streams \cup {0} /\ poll_token \in BOOLEAN
      BY Zenon DEF TypeInv
    <3>2. CASE linked[set[pos]] > 0
      <4>1. /\ pos' = 1
            /\ cnt' = cnt
            /\ poll_token' = FALSE
            /\ wakeup_sd' \in {set[pos], wakeup_sd}
        BY <3>2, Zenon DEF Register
      <4> QED
        BY <2>1, <3>1, <4>1, Zenon
    <3>3. CASE ~(linked[set[pos]] > 0)
      BY <2>1, <3>1, <3>3 DEF Register
    <3> QED
      BY <3>2, <3>3, Zenon
  <2>4. cpc' \in ReaderPcs
    BY Zenon DEF Register, SwitchUnlessToken, ReaderPcs
  <2> QED
    BY <2>3, <2>4, Zenon DEF TypeInv, Register, bufVars, semVars, prodVars
<1>2. SemInv'
  BY Zenon
  DEF SemInv, ItemCount, InPut, Taking, Register, SwitchUnlessToken, bufVars, semVars,
      prodVars
<1>3. ReadInv'
  BY Zenon DEF ReadInv, TokenInv, Register, SwitchUnlessToken, prodVars
<1>4. \A x : InSet(x)' <=> InSet(x)
  BY Zenon DEF InSet, Register
<1>5. TokenInv'
  <2>1. set[pos] \in Streams /\ pos \in DOMAIN set /\ cpc = "register"
    BY DEF TypeInv, RegisteredInv, Register
  <2>2. UNCHANGED <<linked, spc, poll_wakeup, csd, cwait, set>>
    BY Zenon DEF Register, bufVars, prodVars
  <2>3. \A t \in Streams : Pending(t)' <=> Pending(t)
    BY <2>2, Zenon DEF Pending
  <2>4. CASE linked[set[pos]] > 0 /\ poll_token
    <3>1. cpc' = "unregister" /\ wakeup_sd' = set[pos] /\ ~poll_token'
      BY <2>4, Zenon DEF Register, SwitchUnlessToken
    <3>2. InSet(set[pos])
      BY <2>1, Zenon DEF InSet
    <3>3. \A t \in Streams : ~Pending(t)
      BY <2>4, Zenon DEF TokenInv
    <3> QED
      BY <1>4, <2>1, <2>2, <2>3, <2>4, <3>1, <3>2, ZenonT(30) DEF TokenInv, Polling
  <2>5. CASE linked[set[pos]] > 0 /\ ~poll_token
    <3>1. cpc' = "pblocked" /\ ~poll_token' /\ UNCHANGED wakeup_sd
      BY <2>5, Zenon DEF Register, SwitchUnlessToken
    <3> QED
      BY <1>4, <2>1, <2>2, <2>3, <2>5, <3>1 DEF TokenInv, Polling
  <2>6. CASE ~(linked[set[pos]] > 0)
    <3>1. cpc' \in {"register", "pblocked"} /\ UNCHANGED <<poll_token, wakeup_sd>>
      BY <2>6, Zenon DEF Register
    <3> QED
      BY <1>4, <2>1, <2>2, <2>3, <3>1, ZenonT(30) DEF TokenInv, Polling
  <2> QED
    BY <2>4, <2>5, <2>6, Zenon
<1>6. RegisteredInv'
  <2>1. set[pos] \in Streams /\ pos \in DOMAIN set /\ cpc = "register"
    BY DEF TypeInv, RegisteredInv, Register
  <2>2. UNCHANGED <<linked, spc, poll_wakeup, csd, cwait, set>>
    BY Zenon DEF Register, bufVars, prodVars
  <2>3. \A i \in DOMAIN set : i \in Nat /\ 1 <= i /\ i <= Len(set) /\ set[i] \in Streams
    BY SetType, Zenon
  <2>4. 1 \in DOMAIN set /\ (pos # Len(set) => pos + 1 \in DOMAIN set) /\ set # <<>>
    <3>1. set # <<>>
      BY <2>1
    <3> QED
      BY <2>1, <3>1
  <2>5. \A i, j \in DOMAIN set : set[i] = set[j] => i = j
    BY Zenon DEF SetInv
  <2>6. /\ cnt = pos - 1 /\ \A i \in DOMAIN set : is_poll[set[i]] => i < pos
        /\ poll_token => \A i \in DOMAIN set : i < pos => is_poll[set[i]]
    BY <2>1, Zenon DEF RegisteredInv
  <2>7. CASE linked[set[pos]] > 0
    <3>1. /\ pos' = 1
          /\ UNCHANGED <<is_poll, cnt>>
          /\ ~poll_token'
          /\ cpc' \in {"unregister", "pblocked"}
      BY <2>7, ZenonT(30) DEF Register, SwitchUnlessToken
    <3>2. \A i \in DOMAIN set : is_poll[set[i]] => i <= cnt /\ 1 <= i /\ i < 1 + cnt
      BY <2>3, <2>6 DEF TypeInv
    <3> QED
      BY <1>4, <2>1, <2>2, <2>4, <3>1 DEF RegisteredInv
  <2>8. CASE ~(linked[set[pos]] > 0)
    <3>1. /\ is_poll' = [is_poll EXCEPT ![set[pos]] = TRUE] /\ cnt' = cnt + 1
          /\ UNCHANGED poll_token
          /\ pos = Len(set) => cpc' = "pblocked" /\ pos' = 1
          /\ pos # Len(set) => cpc' = "register" /\ pos' = pos + 1
      BY <2>8, Zenon DEF Register
    <3>2. \A t \in Streams : is_poll'[t] <=> is_poll[t] \/ t = set[pos]
      BY <3>1, Zenon DEF TypeInv
    <3>3. linked[set[pos]] = 0 /\ InSet(set[pos])
      BY <2>1, <2>8 DEF InSet, TypeInv
    <3>4. \A t \in Streams : is_poll'[t] =>
            InSet(t)' /\ (linked'[t] = 0 \/ spc'[t] \in {"tail", "token"})
      BY <1>4, <2>2, <3>2, <3>3, ZenonT(30) DEF RegisteredInv
    <3>5. \A i \in DOMAIN set : is_poll'[set[i]] => i <= pos
      <4>1. \A i \in DOMAIN set : i < pos => i <= pos
        BY <2>1, <2>3
      <4>2. pos <= pos
        BY <2>1, <2>3
      <4> QED
        BY <2>1, <2>3, <2>5, <2>6, <3>2, <4>1, <4>2, ZenonT(30)
    <3>6. poll_token => \A i \in DOMAIN set : i <= pos => is_poll'[set[i]]
      BY <2>1, <2>3, <2>6, <3>2
    <3>7. cnt' = pos /\ pos \in Nat
      BY <2>3, <2>1, <2>6, <3>1
    <3>8. CASE pos = Len(set)
      BY <2>2, <2>4, <3>1, <3>4, <3>5, <3>6, <3>7 DEF RegisteredInv
    <3>9. CASE pos # Len(set)
      BY <2>2, <2>4, <3>1, <3>4, <3>5, <3>6, <3>7 DEF RegisteredInv
    <3> QED
      BY <3>8, <3>9, Zenon
  <2> QED
    BY <2>7, <2>8
<1>7. SetInv'
  BY <1>4, Zenon DEF SetInv, Register, SwitchUnlessToken
<1>8. EntryInv'
  BY ZenonT(30)
     DEF EntryInv, PlaceCount, Register, SwitchUnlessToken, bufVars, semVars, prodVars
<1> QED
  BY <1>1, <1>2, <1>3, <1>5, <1>6, <1>7, <1>8, Zenon

(* A poller that was woken keeps the invariant. *)
LEMMA PollResumeInv ==
  ASSUME IInv, PollResume
  PROVE  IInv'
<1> USE DEF IInv
<1>1. TypeInv'
  BY Zenon
     DEF TypeInv, WriterPcs, ReaderPcs, Waits, PollResume, bufVars, semVars, prodVars,
         consVars, pollVars
<1>2. SemInv'
  BY Zenon DEF SemInv, ItemCount, InPut, Taking, PollResume, bufVars, semVars, prodVars
<1>3. ReadInv'
  BY Zenon DEF ReadInv, PollResume, prodVars
<1>4. \A x : InSet(x)' <=> InSet(x)
  BY Zenon DEF InSet, PollResume, pollVars
<1>5. TokenInv'
  BY <1>4, ZenonT(30)
     DEF TokenInv, SemInv, Polling, Pending, PollResume, bufVars, prodVars, pollVars
<1>6. RegisteredInv'
  <2>1. /\ cpc = "pblocked"
        /\ cpc' = "unregister"
        /\ UNCHANGED <<is_poll, linked, spc, set, cnt, pos, poll_token>>
    BY Zenon DEF PollResume, bufVars, prodVars, pollVars
  <2>2. 1 \in DOMAIN set /\ \A i \in DOMAIN set : i \in Nat /\ 1 <= i
    <3>1. set # <<>>
      BY <2>1, Zenon DEF RegisteredInv
    <3> QED
      BY <3>1
  <2>3. pos = 1 /\ \A i \in DOMAIN set : is_poll[set[i]] => i <= cnt
    BY <2>1, Zenon DEF RegisteredInv
  <2>4. \A i \in DOMAIN set : is_poll[set[i]] => pos <= i /\ i < pos + cnt
    BY <2>2, <2>3 DEF TypeInv
  <2>5. pos \in DOMAIN set
    BY <2>2, <2>3, Zenon
  <2> HIDE DEF IInv
  <2>6. RegisteredInv
    BY Zenon DEF IInv
  <2> QED
    BY <1>4, <2>1, <2>4, <2>6 DEF RegisteredInv
<1>7. SetInv'
  BY <1>4, ZenonT(30) DEF SetInv, PollResume, pollVars
<1>8. EntryInv'
  BY DEF EntryInv, PlaceCount, PollResume, bufVars, semVars, prodVars
<1> QED
  BY <1>1, <1>2, <1>3, <1>5, <1>6, <1>7, <1>8, Zenon

(* A poller that finds its token gone while it registers keeps the invariant. *)
LEMMA PollIgnoredInv ==
  ASSUME IInv, PollIgnored
  PROVE  IInv'
<1> USE DEF IInv
<1>1. TypeInv'
  BY Zenon DEF TypeInv, ReaderPcs, PollIgnored, bufVars, semVars, prodVars, pollVars
<1>2. SemInv'
  BY Zenon DEF SemInv, ItemCount, InPut, Taking, PollIgnored, bufVars, semVars, prodVars
<1>3. ReadInv'
  BY Zenon DEF ReadInv, PollIgnored, prodVars
<1>4. \A x : InSet(x)' <=> InSet(x)
  BY Zenon DEF InSet, PollIgnored, pollVars
<1>5. TokenInv'
  BY Zenon DEF TokenInv, Polling, Pending, PollIgnored, prodVars, pollVars
<1>6. RegisteredInv'
  BY Zenon DEF RegisteredInv, PollIgnored
<1>7. SetInv'
  BY <1>4, Zenon DEF SetInv, PollIgnored, pollVars
<1>8. EntryInv'
  BY Zenon DEF EntryInv, PlaceCount, PollIgnored, bufVars, semVars, prodVars
<1> QED
  BY <1>1, <1>2, <1>3, <1>5, <1>6, <1>7, <1>8, Zenon

(* LpelStreamPoll() returns x, with all streams unregistered *)
LEMMA PollReturnInv ==
  ASSUME IInv, NEW x \in Streams, InSet(x), linked[x] > 0, PollReturn(x),
         cpc \in {"fast", "unregister"}, is_poll' \in [Streams -> BOOLEAN],
         \A t \in Streams : ~is_poll'[t], cnt' \in Int,
         UNCHANGED <<use, bufVars, semVars, prod_lock, level, prodVars, prodStream,
                     cwait, pos, poll_token, wakeup_sd>>
  PROVE  IInv'
<1> USE DEF IInv
<1>1. /\ set' \in Seq(Streams) /\ \A y : InSet(y)' <=> InSet(y)
      /\ \A i, j \in DOMAIN set' : set'[i] = set'[j] => i = j
  BY RotateProp, ZenonT(30) DEF TypeInv, SetInv, PollReturn
<1>2. cpc' = "polled" /\ csd' = x
  BY Zenon DEF PollReturn
<1>3. UNCHANGED <<linked, tail, n_sem, e_sem, spc, poll_wakeup, swait, term>>
  BY Zenon DEF bufVars, semVars, prodVars
<1>4. cwait = "none" /\ ~poll_token /\ \A t \in Streams : ~Pending(t) /\ spc[t] # "unblock"
  BY Zenon DEF ReadInv, TokenInv, Polling
<1>5. TypeInv'
  BY <1>1, <1>2, <1>3, ZenonT(30) DEF TypeInv, ReaderPcs
<1>6. SemInv'
  <2>1. ASSUME NEW t \in Streams PROVE ItemCount(t)'
    <3>1. ItemCount(t)
      BY Zenon DEF SemInv
    <3> QED
      BY <1>2, <1>3, <3>1, ZenonT(30) DEF ItemCount, InPut, Taking
  <2> QED
    BY <2>1, Zenon DEF SemInv
<1>7. ReadInv'
  BY <1>2, <1>3, Zenon DEF ReadInv
<1>8. TokenInv'
  <2>1. \A t \in Streams : ~Pending(t)'
    BY <1>3, <1>4, Zenon DEF Pending
  <2> QED
    BY <1>2, <1>3, <2>1, Zenon DEF TokenInv, Polling
<1>9. RegisteredInv'
  BY <1>2, Zenon DEF RegisteredInv
<1>10. SetInv'
  <2>1. prodStream[x]
    BY Zenon DEF SetInv
  <2> QED
    BY <1>1, <1>2, Zenon DEF SetInv
<1>11. EntryInv'
  <2>1. ASSUME NEW t \in EntryStreams PROVE PlaceCount(t)'
    <3>1. PlaceCount(t)
      BY Zenon DEF EntryInv
    <3> QED
      BY <1>2, <1>3, <3>1, Zenon DEF PlaceCount
  <2> QED
    BY <1>2, <1>3, <2>1, Zenon DEF EntryInv
<1> QED
  BY <1>5, <1>6, <1>7, <1>8, <1>9, <1>10, <1>11

(* What the consumer does inside LpelStreamPoll() with its own variables and *)
(* the registrations leaves the semaphores alone                             *)
LEMMA PollFrame ==
  ASSUME IInv, cpc \in {"fast", "unregister"}, cpc' \in {"fast", "token", "unregister"},
         UNCHANGED <<use, bufVars, semVars, prod_lock, level, prodVars, prodStream,
                     csd, cwait, set, poll_token, wakeup_sd>>
  PROVE  SemInv' /\ ReadInv' /\ SetInv' /\ EntryInv'
<1> USE DEF IInv
<1>1. UNCHANGED <<linked, tail, n_sem, e_sem, spc, poll_wakeup, swait, term>>
  BY Zenon DEF bufVars, semVars, prodVars
<1>2. SemInv'
  <2>1. ASSUME NEW t \in Streams PROVE ItemCount(t)'
    <3>1. ItemCount(t)
      BY Zenon DEF SemInv
    <3> QED
      BY <1>1, <3>1, Zenon DEF ItemCount, InPut, Taking
  <2> QED
    BY <2>1, Zenon DEF SemInv
<1>3. ReadInv'
  BY <1>1, Zenon DEF ReadInv
<1>4. SetInv'
  BY SameSet, Zenon DEF SetInv
<1>5. EntryInv'
  <2>1. ASSUME NEW t \in EntryStreams PROVE PlaceCount(t)'
    <3>1. PlaceCount(t)
      BY Zenon DEF EntryInv
    <3> QED
      BY <1>1, <3>1, Zenon DEF PlaceCount
  <2> QED
    BY <1>1, <2>1, Zenon DEF EntryInv
<1> QED
  BY <1>2, <1>3, <1>4, <1>5, Zenon

(* The fast path of LpelStreamPoll() keeps the invariant. *)
LEMMA PollFastInv ==
  ASSUME IInv, PollFast
  PROVE  IInv'
<1> USE DEF IInv
<1>1. /\ cpc = "fast"
      /\ pos \in DOMAIN set
      /\ set[pos] \in Streams
      /\ InSet(set[pos])
      /\ pos \in Nat
  <2>1. cpc = "fast" /\ pos \in DOMAIN set
    BY Zenon DEF PollFast, RegisteredInv
  <2> QED
    BY <2>1, SetType, Zenon DEF InSet
<1>2. /\ UNCHANGED <<use, bufVars, semVars, prod_lock, level, prodVars, prodStream, cwait,
                     poll_token, wakeup_sd, is_poll, cnt>>
  BY Zenon DEF PollFast
<1>3. \A t \in Streams : ~is_poll[t]
  BY <1>1, Zenon DEF RegisteredInv
<1>4. CASE linked[set[pos]] > 0
  <2>1. PollReturn(set[pos]) /\ UNCHANGED pos
    BY <1>4, Zenon DEF PollFast
  <2>2. is_poll' \in [Streams -> BOOLEAN] /\ cnt' \in Int
    BY <1>2, Zenon DEF TypeInv
  <2> QED
    BY <1>1, <1>2, <1>3, <1>4, <2>1, <2>2, PollReturnInv, ZenonT(30)
<1>5. CASE ~(linked[set[pos]] > 0)
  <2>1. /\ pos' = pos + 1 /\ cpc' = (IF pos = Len(set) THEN "token" ELSE "fast")
        /\ UNCHANGED <<csd, set>>
    BY <1>5, Zenon DEF PollFast
  <2>2. SemInv' /\ ReadInv' /\ SetInv' /\ EntryInv'
    BY <1>1, <1>2, <2>1, PollFrame, ZenonT(30)
  <2>3. TypeInv'
    <3>1. cpc' \in ReaderPcs /\ pos' \in Nat
      BY <1>1, <2>1 DEF ReaderPcs
    <3> QED
      BY <1>2, <2>1, <3>1, ZenonT(30) DEF TypeInv, bufVars, semVars, prodVars
  <2>4. UNCHANGED <<linked, spc, poll_wakeup>>
    BY <1>2, Zenon DEF bufVars, prodVars
  <2>5. TokenInv'
    <3>1. ~poll_token /\ \A t \in Streams : ~Pending(t)
      BY <1>1, Zenon DEF TokenInv, Polling
    <3>2. \A t \in Streams : ~Pending(t)'
      BY <2>4, <3>1, Zenon DEF Pending
    <3> QED
      BY <1>2, <2>1, <2>4, <3>1, <3>2, ZenonT(30) DEF TokenInv, Polling
  <2>6. RegisteredInv'
    <3>1. set # <<>> /\ (pos # Len(set) => pos + 1 \in DOMAIN set)
      BY <1>1, SetType
    <3> QED
      BY <1>2, <1>3, <2>1, <3>1, ZenonT(30) DEF RegisteredInv
  <2> QED
    BY <2>2, <2>3, <2>5, <2>6, Zenon
<1> QED
  BY <1>4, <1>5, Zenon

(* Resetting the is_poll flags after a wake-up keeps the invariant. *)
LEMMA UnregisterInv ==
  ASSUME IInv, Unregister
  PROVE  IInv'
<1> USE DEF IInv
<1>1. cpc = "unregister" /\ pos \in DOMAIN set /\ set[pos] \in Streams /\ pos \in Nat
  <2>1. cpc = "unregister" /\ pos \in DOMAIN set
    BY Zenon DEF Unregister, RegisteredInv
  <2> QED
    BY <2>1, SetType, Zenon
<1>2. /\ UNCHANGED <<use, bufVars, semVars, prod_lock, level, prodVars, prodStream, cwait,
                     poll_token, wakeup_sd>>
      /\ is_poll' = [is_poll EXCEPT ![set[pos]] = FALSE] /\ cnt' = cnt - 1
  BY Zenon DEF Unregister
<1>3. cnt \in Int /\ cnt' \in Int /\ is_poll' \in [Streams -> BOOLEAN]
  BY <1>1, <1>2 DEF TypeInv
<1>4. \A t \in Streams : is_poll'[t] => is_poll[t] /\ t # set[pos]
  BY <1>2, Zenon DEF TypeInv
<1>5. \A i \in DOMAIN set : is_poll[set[i]] => pos <= i /\ i < pos + cnt
  BY <1>1, Zenon DEF RegisteredInv
<1>6. wakeup_sd \in Streams /\ InSet(wakeup_sd) /\ linked[wakeup_sd] > 0
  BY <1>1, Zenon DEF TokenInv
<1>7. \A i \in DOMAIN set : i \in Nat /\ i <= Len(set) /\ set[i] \in Streams
  BY SetType, Zenon
<1>8. \A i \in DOMAIN set : is_poll'[set[i]] => i # pos
  BY <1>4, <1>7, Zenon
<1>9. CASE LastRegistered
  <2>1. PollReturn(wakeup_sd) /\ UNCHANGED pos
    BY <1>9, Zenon DEF Unregister
  <2>2. ASSUME NEW i \in DOMAIN set PROVE ~is_poll'[set[i]]
    <3>1. is_poll[set[i]] => i = pos
      <4>1. i \in Nat /\ i <= Len(set) /\ Len(set) \in Nat
        BY SetType, Zenon
      <4> QED
        BY <1>1, <1>5, <1>9, <4>1 DEF LastRegistered
    <3> QED
      BY <1>4, <1>7, <3>1, ZenonT(30)
  <2>3. ASSUME NEW t \in Streams PROVE ~is_poll'[t]
    <3>1. is_poll[t] => InSet(t)
      BY ZenonT(30) DEF RegisteredInv
    <3> QED
      BY <1>4, <2>2, <3>1, Zenon DEF InSet
  <2> QED
    BY <1>1, <1>2, <1>3, <1>6, <2>1, <2>3, PollReturnInv, ZenonT(30)
<1>10. CASE ~LastRegistered
  <2>1. pos' = pos + 1 /\ UNCHANGED <<cpc, csd, set>> /\ pos # Len(set)
    BY <1>10, Zenon DEF Unregister, LastRegistered
  <2>2. SemInv' /\ ReadInv' /\ SetInv' /\ EntryInv'
    BY <1>1, <1>2, <2>1, PollFrame, Zenon
  <2>3. TypeInv'
    <3>1. pos' \in Nat
      BY <1>1, <2>1
    <3> QED
      BY <1>2, <1>3, <2>1, <3>1, ZenonT(30) DEF TypeInv, bufVars, semVars, prodVars
  <2>4. UNCHANGED <<linked, spc, poll_wakeup>>
    BY <1>2, Zenon DEF bufVars, prodVars
  <2>5. TokenInv'
    <3>1. \A t \in Streams : Pending(t)' <=> Pending(t)
      BY <2>4, Zenon DEF Pending
    <3>2. \A t \in Streams : spc'[t] \in {"blocked", "put", "tail", "token"} => ~poll_wakeup'[t]
      BY <2>4, Zenon DEF TokenInv
    <3> QED
      BY <1>2, <2>1, <2>4, <3>1, <3>2, TokenFrame, ZenonT(30)
  <2>6. RegisteredInv'
    <3>1. pos + 1 \in DOMAIN set
      BY <1>1, <2>1, SetType, ZenonT(30)
    <3>2. \A i \in DOMAIN set : is_poll'[set[i]] => pos' <= i /\ i < pos' + cnt'
      <4> SUFFICES ASSUME NEW i \in DOMAIN set, is_poll'[set[i]]
                   PROVE  pos' <= i /\ i < pos' + cnt'
        BY Zenon
      <4>1. i \in Nat /\ i # pos /\ pos <= i /\ i < pos + cnt
        BY <1>4, <1>5, <1>7, Zenon
      <4> QED
        BY <1>1, <1>2, <1>3, <2>1, <4>1
    <3>3. \A t \in Streams :
            is_poll'[t] => InSet(t)' /\ (linked'[t] = 0 \/ spc'[t] \in {"tail", "token"})
      BY <1>4, <2>1, <2>4, SameSet, ZenonT(30) DEF RegisteredInv
    <3> QED
      BY <1>1, <2>1, <3>1, <3>2, <3>3, ZenonT(30) DEF RegisteredInv
  <2> QED
    BY <2>2, <2>3, <2>5, <2>6, Zenon
<1> QED
  BY <1>9, <1>10, Zenon

(* LpelStreamClose() and LpelStreamsetRemove() keep the invariant. *)
LEMMA LpelStreamCloseInv ==
  ASSUME IInv, LpelStreamClose
  PROVE  IInv'
<1> USE DEF IInv
<1>1. cpc = "close" /\ cpc' = "idle" /\ csd \in Streams /\ InSet(csd)
  BY Zenon DEF LpelStreamClose, SetInv
<1>2. /\ set' \in Seq(Streams) /\ \A y : InSet(y)' <=> InSet(y) /\ y # csd
      /\ \A i, j \in DOMAIN set' : set'[i] = set'[j] => i = j
  BY RemoveProp, Zenon DEF TypeInv, SetInv, LpelStreamClose
<1>3. UNCHANGED <<use, linked, tail, n_sem, e_sem, spc, poll_wakeup, swait, term, is_poll,
                  prod_lock, level, csd, cwait, cnt, pos, poll_token, wakeup_sd>>
  BY Zenon DEF LpelStreamClose, bufVars, semVars, prodVars
<1>4. prodStream' = [prodStream EXCEPT ![csd] = FALSE]
  BY Zenon DEF LpelStreamClose
<1>5. /\ cwait = "none"
      /\ ~poll_token
      /\ \A t \in Streams : ~Pending(t) /\ spc[t] # "unblock" /\ ~is_poll[t]
  BY <1>1, ZenonT(30) DEF ReadInv, TokenInv, Polling, RegisteredInv
<1>6. TypeInv'
  BY <1>1, <1>2, <1>3, <1>4, ZenonT(30) DEF TypeInv, ReaderPcs
<1>7. SemInv'
  <2>1. ASSUME NEW t \in Streams PROVE ItemCount(t)'
    <3>1. ItemCount(t)
      BY Zenon DEF SemInv
    <3> QED
      BY <1>1, <1>3, <3>1, Zenon DEF ItemCount, InPut, Taking
  <2> QED
    BY <2>1, Zenon DEF SemInv
<1>8. ReadInv'
  BY <1>1, <1>3, Zenon DEF ReadInv
<1>9. TokenInv'
  <2>1. \A t \in Streams : ~Pending(t)'
    BY <1>3, <1>5, Zenon DEF Pending
  <2> QED
    BY <1>1, <1>3, <2>1, ZenonT(30) DEF TokenInv, Polling
<1>10. RegisteredInv'
  BY <1>1, <1>3, Zenon DEF RegisteredInv
<1>11. SetInv'
  <2>1. \A t \in Streams : prodStream'[t] <=> prodStream[t] /\ t # csd
    BY <1>4, Zenon DEF TypeInv
  <2> QED
    BY <1>1, <1>2, <2>1, Zenon DEF SetInv
<1>12. EntryInv'
  <2>1. ASSUME NEW t \in EntryStreams PROVE PlaceCount(t)'
    <3>1. PlaceCount(t)
      BY Zenon DEF EntryInv
    <3> QED
      BY <1>1, <1>3, <3>1, Zenon DEF PlaceCount
  <2> QED
    BY <1>1, <1>3, <2>1, Zenon DEF EntryInv
<1> QED
  BY <1>6, <1>7, <1>8, <1>9, <1>10, <1>11, <1>12, Zenon

-----------------------------------------------------------------------------
-----------------------------------------------------------------------------
(* The invariant is inductive *)

(* Freshly opened streams satisfy the invariant. *)
LEMMA InitInv == Init => IInv
<1> SUFFICES ASSUME Init PROVE IInv
  BY Zenon
<1>1. use \in Use /\ use.streams \in 1 .. NumStreams /\ use.streams \in Nat
  <2>1. use \in Use
    BY StreamAssumption, Zenon DEF Init
  <2>2. use.streams \in 1 .. NumStreams
    BY <2>1, Zenon DEF Use
  <2> QED
    BY <2>1, <2>2
<1>2. set \in Seq(Streams) /\ DOMAIN set = 1 .. use.streams /\ \A i \in DOMAIN set : set[i] = i
  <2>1. set = [s \in 1 .. use.streams |-> s]
    BY Zenon DEF Init
  <2>2. set \in [1 .. use.streams -> Streams]
    <3>1. \A s \in 1 .. use.streams : s \in Streams
      BY <1>1, StreamAssumption DEF Streams
    <3> QED
      BY <2>1, <3>1, Zenon
  <2> QED
    BY <1>1, <2>1, <2>2
<1>3. \A s \in Streams : InSet(s) <=> s <= use.streams
  BY <1>2 DEF InSet, Streams
<1>4. TypeInv
  <2>1. [s \in Streams |-> s <= use.streams] \in [Streams -> BOOLEAN]
    BY <1>1
  <2>2. prodStream \in [Streams -> BOOLEAN]
    BY DEF Init
  <2>3. /\ linked \in [Streams -> Nat] /\ tail \in [Streams -> Int]
        /\ n_sem \in [Streams -> Int] /\ e_sem \in [Streams -> Int] /\ level \in [Streams -> Int]
    BY EntryType DEF Init
  <2>4. /\ is_poll \in [Streams -> BOOLEAN] /\ prod_lock \in [Streams -> BOOLEAN]
        /\ poll_wakeup \in [Streams -> BOOLEAN] /\ term \in [Streams -> BOOLEAN]
    BY Zenon DEF Init
  <2>5. spc \in [Streams -> WriterPcs] /\ swait \in [Streams -> Waits]
    BY Zenon DEF Init, WriterPcs, Waits
  <2>6. /\ cpc \in ReaderPcs /\ cwait \in Waits /\ csd \in Streams \cup {0}
        /\ wakeup_sd \in Streams \cup {0} /\ cnt \in Int /\ pos \in Nat
    BY DEF Init, ReaderPcs, Waits
  <2>7. poll_token \in BOOLEAN
    BY Zenon DEF Init
  <2> QED
    BY <1>1, <1>2, <2>2, <2>3, <2>4, <2>5, <2>6, <2>7, ZenonT(30) DEF TypeInv
<1>5. SemInv
  BY DEF Init, SemInv, ItemCount, InPut, Taking
<1>6. ReadInv
  BY Zenon DEF Init, ReadInv
<1>7. TokenInv
  BY Zenon DEF Init, TokenInv, Polling, Pending
<1>8. RegisteredInv
  BY Zenon DEF Init, RegisteredInv
<1>9. SetInv
  <2>1. \A s \in Streams : prodStream[s] <=> s <= use.streams
    BY Zenon DEF Init
  <2> QED
    BY <1>3, <2>1, Zenon DEF Init, SetInv
<1>10. EntryInv
  BY EntryType DEF Init, EntryInv, PlaceCount
<1> QED
  BY <1>4, <1>5, <1>6, <1>7, <1>8, <1>9, <1>10, ZenonT(30) DEF IInv

(* Every step of a producer or of the consumer keeps the invariant. *)
LEMMA NextInv == IInv /\ [Next]_vars => IInv'
<1> SUFFICES ASSUME IInv, [Next]_vars PROVE IInv'
  BY Zenon
<1>1. CASE UNCHANGED vars
  <2>1. UNCHANGED <<use, linked, tail, n_sem, e_sem, is_poll, prod_lock, level, spc,
                    poll_wakeup, swait, term, prodStream, cpc, csd, cwait, set, cnt, pos,
                    poll_token, wakeup_sd>>
    BY <1>1, Zenon DEF vars, bufVars, semVars, prodVars, consVars, pollVars
  <2> USE DEF IInv
  <2>2. TypeInv'
    BY <2>1, Zenon DEF TypeInv
  <2>3. SemInv'
    BY <2>1, Zenon DEF SemInv, ItemCount, InPut, Taking
  <2>4. ReadInv'
    BY <2>1, Zenon DEF ReadInv
  <2>5. TokenInv'
    BY <2>1, SameSet, ZenonT(30) DEF TokenInv, Polling, Pending
  <2>6. RegisteredInv'
    BY <2>1, SameSet, ZenonT(30) DEF RegisteredInv
  <2>7. SetInv'
    BY <2>1, SameSet, Zenon DEF SetInv
  <2>8. EntryInv'
    BY <2>1, Zenon DEF EntryInv, PlaceCount
  <2> QED
    BY <2>2, <2>3, <2>4, <2>5, <2>6, <2>7, <2>8, ZenonT(30)
<1>2. ASSUME NEW s \in Streams, WriteCall(s) \/ LpelStreamWrite(s) PROVE IInv'
  BY <1>2, WriteCallInv, WriteResumeInv, PutLinkInv, PutTailInv, CheckPollInv, WriteVInv,
     WakeConsumerInv, CountWriteInv DEF LpelStreamWrite
<1>3. ASSUME NEW s \in Streams, prodStream[s], ReadCall(s) PROVE IInv'
  BY <1>3, ReadCallInv, Zenon
<1>4. CASE LpelStreamRead
  BY <1>4, ReadResumeInv, PopInv, ReadVInv, WakeProducerInv, CountReadInv, ZenonT(30)
     DEF LpelStreamRead
<1>5. CASE LpelStreamPoll
  BY <1>5, PollFastInv, PlaceTokenInv, RegisterInv, PollResumeInv, UnregisterInv, ZenonT(30)
     DEF LpelStreamPoll
<1> QED
  BY <1>1, <1>2, <1>3, <1>4, <1>5, LpelStreamCloseInv, PollCallInv, PollIgnoredInv, ZenonT(30)
     DEF Next, Consumer

(* Semaphores, buffers, tokens and polled sets are consistent (IInv) in every *)
(* reachable state, for any number of streams and any bounds.                 *)
THEOREM InductiveInvariant == Spec => []IInv
  BY InitInv, NextInv, PTL DEF Spec

-----------------------------------------------------------------------------
(* What the invariant implies *)

(* LpelTaskUnblock() is only called for a task that waits, by one thread *)
(* (WakeupMatchesWait), as HrcSched takes for granted.                   *)
THEOREM WakeupMatchesWaitInv == Spec => []WakeupMatchesWait
<1>1. IInv => WakeupMatchesWait
  <2> SUFFICES ASSUME IInv PROVE WakeupMatchesWait
    BY Zenon
  <2> DEFINE wakers == {s \in Streams : spc[s] \in {"unblock", "pollunblock"}}
  <2>1. ASSUME NEW s \in wakers PROVE cwait = "waiting"
    BY Zenon DEF IInv, ReadInv, TokenInv, Pending
  <2>2. ASSUME NEW s \in wakers, NEW t \in wakers PROVE s = t
    <3>1. CASE spc[s] = "unblock" /\ spc[t] = "unblock"
      BY <3>1, Zenon DEF IInv, ReadInv
    <3>2. CASE spc[s] = "pollunblock" /\ spc[t] = "pollunblock"
      BY <3>2, ZenonT(30) DEF IInv, TokenInv, Pending
    <3>3. CASE spc[s] # spc[t]
      BY Zenon DEF IInv, ReadInv, TokenInv, Pending, Polling
    <3> QED
      BY <3>1, <3>2, <3>3, Zenon
  <2>3. cpc = "unblock" => swait[csd] = "waiting"
    BY Zenon DEF IInv, EntryInv
  <2> QED
    BY <2>1, <2>2, <2>3, Zenon DEF WakeupMatchesWait
<1> QED
  BY <1>1, InductiveInvariant, PTL

(* A consumer never stays blocked in LpelStreamRead() or LpelStreamPoll()   *)
(* while a completed write left an item in its streams (NoSleepBesideItem). *)
THEOREM NoSleepBesideItemInv == Spec => []NoSleepBesideItem
<1>1. IInv => NoSleepBesideItem
  <2> SUFFICES ASSUME IInv, \A s \in Streams : spc[s] \in {"idle", "blocked"}, cwait # "signalled"
               PROVE  /\ cpc = "rblocked" => linked[csd] = 0
                      /\ cpc = "pblocked" => \A i \in DOMAIN set : linked[set[i]] = 0
    BY Zenon DEF NoSleepBesideItem
  <2> USE DEF IInv
  <2>1. ASSUME cpc = "rblocked" PROVE linked[csd] = 0
    <3>1. csd \in Streams /\ spc[csd] \in {"idle", "blocked"}
      BY <2>1, ZenonT(30) DEF SetInv
    <3>2. ~(n_sem[csd] >= 0)
      BY <2>1, <3>1, ZenonT(30) DEF ReadInv
    <3>3. ItemCount(csd) /\ linked[csd] \in Nat /\ n_sem[csd] \in Int
      BY <3>1, StreamType, Zenon DEF SemInv
    <3> QED
      BY <3>1, <3>2, <3>3 DEF ItemCount, InPut
  <2>2. ASSUME cpc = "pblocked", NEW i \in DOMAIN set PROVE linked[set[i]] = 0
    <3>1. \A s \in Streams : ~Pending(s)
      BY Zenon DEF Pending
    <3>2. poll_token
      BY <2>2, <3>1, ZenonT(30) DEF TokenInv, Polling
    <3>3. set[i] \in Streams
      BY SetType, ZenonT(30)
    <3> QED
      BY <2>2, <3>2, <3>3, ZenonT(30) DEF RegisteredInv
  <2> QED
    BY <2>1, <2>2, Zenon
<1> QED
  BY <1>1, InductiveInvariant, PTL

(* LpelBufferPop() never frees the node that buf->tail still refers to *)
(* (TailNotFreed).                                                     *)
THEOREM TailNotFreedInv == Spec => []TailNotFreed
<1>1. IInv => TailNotFreed
  <2> SUFFICES ASSUME IInv, NEW s \in Streams PROVE tail[s] >= 0
    BY Zenon DEF TailNotFreed
  <2>1. ItemCount(s) /\ linked[s] \in Nat /\ n_sem[s] \in Int /\ tail[s] \in Int
    BY StreamType, ZenonT(30) DEF IInv, SemInv
  <2> QED
    BY <2>1 DEF ItemCount, InPut, Taking
<1> QED
  BY <1>1, InductiveInvariant, PTL

(* A stream that LpelStreamPoll() returns has an item (PollReturnsData). *)
THEOREM PollReturnsDataInv == Spec => []PollReturnsData
<1>1. IInv => PollReturnsData
  BY Zenon DEF IInv, TokenInv, RegisteredInv, Polling, PollReturnsData
<1> QED
  BY <1>1, InductiveInvariant, PTL

(* No more items are linked into a bounded buffer than it has places, *)
(* although e_sem is decremented before an item is put               *)
EntryBounded == \A s \in EntryStreams : linked[s] <= BufSize

(* An entry stream never holds more items than its buffer size. *)
THEOREM EntryBoundedInv == Spec => []EntryBounded
<1>1. IInv => EntryBounded
  <2> SUFFICES ASSUME IInv, NEW s \in EntryStreams PROVE linked[s] <= BufSize
    BY Zenon DEF EntryBounded
  <2>1. PlaceCount(s) /\ linked[s] \in Nat /\ e_sem[s] \in Int
    BY StreamType, EntryType, Zenon DEF IInv, EntryInv
  <2> QED
    BY <2>1, EntryType DEF PlaceCount
<1> QED
  BY <1>1, InductiveInvariant, PTL

=============================================================================
