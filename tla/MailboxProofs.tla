--------------------------- MODULE MailboxProofs ---------------------------
(***************************************************************************)
(* Each node of a mailbox has one owner, and the inbox is a FIFO queue,    *)
(* for any number of senders, nodes and messages.  What the functions of   *)
(* mailbox.c do to the pointers is shown to be what removing the first     *)
(* node, putting a node in front and putting one behind the last do to a   *)
(* sequence of nodes.                                                      *)
(***************************************************************************)
EXTENDS Mailbox, Integers, FiniteSetTheorems, WellFoundedInduction, TLAPS

(* time limits of the two provers *)
USE SMTT(30), ZenonT(30)

(* What is assumed of the constants: memory is finite, NULL is none of it *)
MailConst == IsFiniteSet(Nodes) /\ NULL \notin Nodes /\ MaxSend \in Nat

(* q[i], or NULL behind the end of q *)
Nth(q, i) == IF i \in DOMAIN q THEN q[i] ELSE NULL

(* q is the list of nodes from first to last, or to NULL, along nx *)
IsChain(q, nx, first, last) ==
  /\ q \in Seq(Nodes)
  /\ \A i, j \in DOMAIN q : q[i] = q[j] => i = j
  /\ first = Nth(q, 1)
  /\ \A i \in DOMAIN q : Nth(q, i + 1) = IF q[i] = last THEN NULL ELSE nx[q[i]]

(* q is the circular list whose last node is li *)
IsInbox(q, nx, li) ==
  IF li = NULL THEN q = <<>>
  ELSE IsChain(q, nx, nx[li], li) /\ q # <<>> /\ q[Len(q)] = li

-----------------------------------------------------------------------------
(* Chains *)

(* A set of natural numbers has a least element. *)
LEMMA LeastElement ==
  ASSUME NEW T \in SUBSET Nat, T # {}
  PROVE  \E x \in T : \A y \in T : x <= y
<1>1. \E x \in T : \A y \in T : ~(<<y, x>> \in OpToRel(<, Nat))
  BY NatLessThanWellFounded, WFMin, Zenon
<1>2. \A x, y \in Nat : ~(<<y, x>> \in OpToRel(<, Nat)) => x <= y
  BY DEF OpToRel
<1> QED
  BY <1>1, <1>2, Zenon

(* A list without repetition is not longer than the number of nodes. *)
LEMMA ChainBound ==
  ASSUME MailConst, NEW q \in Seq(Nodes), \A i, j \in DOMAIN q : q[i] = q[j] => i = j
  PROVE  Cardinality(Nodes) \in Nat /\ Len(q) <= Cardinality(Nodes)
<1>1. q \in Injection(1 .. Len(q), Nodes)
  <2>1. q \in [1 .. Len(q) -> Nodes] /\ DOMAIN q = 1 .. Len(q)
    OBVIOUS
  <2> QED
    BY <2>1, Zenon DEF Injection, IsInjective
<1>2. Cardinality(1 .. Len(q)) <= Cardinality(Nodes)
  BY <1>1, FS_Injection, Zenon DEF MailConst
<1>3. Cardinality(1 .. Len(q)) = Len(q)
  <2>1. Len(q) \in Nat /\ 1 \in Int /\ Len(q) \in Int
    OBVIOUS
  <2>2. Cardinality(1 .. Len(q)) = IF 1 > Len(q) THEN 0 ELSE Len(q) - 1 + 1
    BY <2>1, FS_Interval, Zenon
  <2> QED
    BY <2>1, <2>2
<1>4. Cardinality(Nodes) \in Nat
  BY FS_CardinalityType, Zenon DEF MailConst
<1> QED
  BY <1>2, <1>3, <1>4, Zenon

(* Following next from first meets the nodes of the list and then NULL. *)
LEMMA WalkIs ==
  ASSUME MailConst, NEW q, NEW nx, NEW first, NEW last, IsChain(q, nx, first, last)
  PROVE  Walk(nx, first, last) = [i \in 1 .. Limit |-> Nth(q, i)]
<1> DEFINE Step(f) == [i \in 1 .. Limit |->
                        IF i = 1 THEN first
                        ELSE IF f[i - 1] \in {last, NULL} THEN NULL ELSE nx[f[i - 1]]]
           g == [i \in 1 .. Limit |-> Nth(q, i)]
           w == Walk(nx, first, last)
<1>1. Limit \in Nat /\ Len(q) < Limit /\ Len(q) \in Nat /\ DOMAIN q = 1 .. Len(q)
  BY ChainBound DEF IsChain, Limit
<1>2. \A i \in DOMAIN q : q[i] \in Nodes /\ q[i] # NULL
  BY DEF IsChain, MailConst
<1>3. \A i \in 1 .. Limit : i # 1 =>
        Nth(q, i) = IF Nth(q, i - 1) \in {last, NULL} THEN NULL ELSE nx[Nth(q, i - 1)]
  <2> SUFFICES ASSUME NEW i \in 1 .. Limit, i # 1
               PROVE Nth(q, i) = IF Nth(q, i - 1) \in {last, NULL} THEN NULL
                                 ELSE nx[Nth(q, i - 1)]
    BY Zenon
  <2>1. CASE i - 1 \in DOMAIN q
    <3>1. Nth(q, i - 1) = q[i - 1] /\ q[i - 1] # NULL
      BY <1>2, <2>1, Zenon DEF Nth
    <3>2. (i - 1) + 1 = i
      BY <1>1
    <3>3. Nth(q, (i - 1) + 1) = IF q[i - 1] = last THEN NULL ELSE nx[q[i - 1]]
      BY <2>1, Zenon DEF IsChain
    <3> QED
      BY <3>1, <3>2, <3>3, Zenon
  <2>2. CASE i - 1 \notin DOMAIN q
    <3>1. Nth(q, i - 1) = NULL
      BY <2>2, Zenon DEF Nth
    <3>2. i \notin DOMAIN q
      BY <1>1, <2>2
    <3> QED
      BY <3>1, <3>2, Zenon DEF Nth
  <2> QED
    BY <2>1, <2>2, Zenon
<1>4. g = Step(g)
  <2>1. first = Nth(q, 1)
    BY Zenon DEF IsChain
  <2>2. \A i \in 1 .. Limit : g[i] = Step(g)[i]
    <3> SUFFICES ASSUME NEW i \in 1 .. Limit PROVE g[i] = Step(g)[i]
      BY Zenon
    <3>1. CASE i = 1
      BY <2>1, <3>1, Zenon
    <3>2. CASE i # 1
      <4>1. i - 1 \in 1 .. Limit
        BY <1>1, <3>2
      <4> QED
        BY <1>3, <3>2, <4>1, Zenon
    <3> QED
      BY <3>1, <3>2, Zenon
  <2> QED
    BY <2>2, Zenon
<1>5. w = CHOOSE f : f = Step(f)
  BY Zenon DEF Walk
<1> HIDE DEF Step, g, w
<1>6. w = Step(w)
  BY <1>4, <1>5, Zenon
<1>7. \A i \in 1 .. Limit : w[i] = IF i = 1 THEN first
                               ELSE IF w[i - 1] \in {last, NULL} THEN NULL
                               ELSE nx[w[i - 1]]
  BY <1>6, Zenon DEF Step
<1>8. DOMAIN w = 1 .. Limit
  BY <1>6, Zenon DEF Step
<1>9. \A i \in 1 .. Limit : w[i] = Nth(q, i)
  <2> DEFINE T == {i \in 1 .. Limit : w[i] # Nth(q, i)}
  <2> SUFFICES ASSUME T # {} PROVE FALSE
    BY Zenon
  <2>1. T \in SUBSET Nat
    BY <1>1
  <2>2. PICK x \in T : \A y \in T : x <= y
    BY <2>1, LeastElement, Zenon
  <2>3. x \in 1 .. Limit /\ x # 1
    BY <1>7, <2>2, Zenon DEF IsChain
  <2>4. x - 1 \in 1 .. Limit /\ x - 1 \notin T
    BY <1>1, <2>2, <2>3
  <2>5. w[x - 1] = Nth(q, x - 1)
    BY <2>4, Zenon
  <2>6. w[x] = Nth(q, x)
    BY <1>3, <1>7, <2>3, <2>5, Zenon
  <2> QED
    BY <2>2, <2>6, Zenon
<1> QED
  BY <1>8, <1>9, <1>6, Zenon DEF w, g, Step

(* The list is what the walk finds before the first NULL. *)
LEMMA ChainIs ==
  ASSUME MailConst, NEW q, NEW nx, NEW first, NEW last, IsChain(q, nx, first, last)
  PROVE  Chain(Walk(nx, first, last)) = q
<1> DEFINE w == [i \in 1 .. Limit |-> Nth(q, i)]
<1>1. Limit \in Nat /\ Len(q) < Limit /\ Len(q) \in Nat /\ DOMAIN q = 1 .. Len(q)
  BY ChainBound DEF IsChain, Limit
<1>2. \A i \in DOMAIN q : q[i] # NULL
  BY DEF IsChain, MailConst
<1>3. \A i \in 1 .. Limit : w[i] = NULL <=> ~(i <= Len(q))
  BY <1>1, <1>2 DEF Nth
<1> HIDE DEF w
<1>4. /\ Len(q) \in 0 .. Limit
      /\ Len(q) = Limit \/ w[Len(q) + 1] = NULL
      /\ \A i \in 1 .. Len(q) : w[i] # NULL
  <2>1. Len(q) \in 0 .. Limit /\ Len(q) + 1 \in 1 .. Limit /\ ~(Len(q) + 1 <= Len(q))
    BY <1>1
  <2>2. w[Len(q) + 1] = NULL
    BY <1>3, <2>1, Zenon
  <2>3. \A i \in 1 .. Len(q) : i \in 1 .. Limit /\ i <= Len(q)
    BY <1>1
  <2>4. \A i \in 1 .. Len(q) : w[i] # NULL
    BY <1>3, <2>3, Zenon
  <2> QED
    BY <2>1, <2>2, <2>4, Zenon
<1>5. ASSUME NEW k \in 0 .. Limit, k = Limit \/ w[k + 1] = NULL,
             \A i \in 1 .. k : w[i] # NULL
      PROVE  k = Len(q)
  <2>1. CASE k < Len(q)
    <3>1. k + 1 \in 1 .. Limit /\ k # Limit /\ k + 1 <= Len(q)
      BY <1>1, <2>1
    <3> QED
      BY <1>3, <1>5, <3>1, Zenon
  <2>2. CASE k > Len(q)
    <3>1. k \in 1 .. Limit /\ ~(k <= Len(q)) /\ k \in 1 .. k
      BY <1>1, <2>2
    <3> QED
      BY <1>3, <1>5, <3>1, Zenon
  <2> QED
    <3>1. k \in Nat /\ Len(q) \in Nat
      BY <1>1
    <3>2. ~(k < Len(q)) /\ ~(k > Len(q)) => k = Len(q)
      BY <3>1
    <3> QED
      BY <2>1, <2>2, <3>2, Zenon
<1>6. Reach(w) = Len(q)
  BY <1>4, <1>5, Zenon DEF Reach
<1>7. Walk(nx, first, last) = w
  BY WalkIs DEF w
<1>8. \A i \in 1 .. Len(q) : w[i] = q[i]
  BY <1>1 DEF w, Nth
<1>9. Chain(w) = [i \in 1 .. Len(q) |-> w[i]]
  BY <1>6, Zenon DEF Chain
<1> QED
  BY <1>1, <1>7, <1>8, <1>9 DEF IsChain

-----------------------------------------------------------------------------
(* Changes of a list *)

Rest(q) == [i \in 1 .. Len(q) - 1 |-> q[i + 1]]
Before(n, q) == [i \in 1 .. Len(q) + 1 |-> IF i = 1 THEN n ELSE q[i - 1]]
After(q, n) == [i \in 1 .. Len(q) + 1 |-> IF i <= Len(q) THEN q[i] ELSE n]

(* What is known of a list of nodes. *)
LEMMA ChainType ==
  ASSUME NEW q, NEW nx, NEW first, NEW last, IsChain(q, nx, first, last)
  PROVE  /\ q \in Seq(Nodes) /\ Len(q) \in Nat /\ DOMAIN q = 1 .. Len(q)
         /\ \A i \in 1 .. Len(q) : q[i] \in Nodes
         /\ \A i, j \in 1 .. Len(q) : q[i] = q[j] => i = j
         /\ \A i \in 1 .. Len(q) : i < Len(q) =>
              q[i + 1] = IF q[i] = last THEN NULL ELSE nx[q[i]]
         /\ Len(q) # 0 => /\ first = q[1]
                          /\ NULL = IF q[Len(q)] = last THEN NULL ELSE nx[q[Len(q)]]
         /\ Len(q) = 0 => first = NULL
<1>1. q \in Seq(Nodes) /\ Len(q) \in Nat /\ DOMAIN q = 1 .. Len(q)
  BY DEF IsChain
<1>2. \A i \in 1 .. Len(q) : q[i] \in Nodes
  BY <1>1
<1>3. \A i, j \in 1 .. Len(q) : q[i] = q[j] => i = j
  BY <1>1, Zenon DEF IsChain
<1>4. \A i \in 1 .. Len(q) : Nth(q, i + 1) = IF q[i] = last THEN NULL ELSE nx[q[i]]
  BY <1>1, Zenon DEF IsChain
<1>5. ASSUME NEW i \in 1 .. Len(q), i < Len(q)
      PROVE  q[i + 1] = IF q[i] = last THEN NULL ELSE nx[q[i]]
  <2>1. i + 1 \in DOMAIN q
    BY <1>1, <1>5
  <2> QED
    BY <1>4, <2>1, Zenon DEF Nth
<1>6. Len(q) # 0 => first = q[1] /\ NULL = IF q[Len(q)] = last THEN NULL ELSE nx[q[Len(q)]]
  <2> SUFFICES ASSUME Len(q) # 0
               PROVE first = q[1] /\ NULL = IF q[Len(q)] = last THEN NULL ELSE nx[q[Len(q)]]
    BY Zenon
  <2>1. 1 \in DOMAIN q /\ Len(q) \in 1 .. Len(q) /\ Len(q) + 1 \notin DOMAIN q
    BY <1>1
  <2>2. first = q[1]
    BY <2>1, Zenon DEF IsChain, Nth
  <2>3. NULL = IF q[Len(q)] = last THEN NULL ELSE nx[q[Len(q)]]
    BY <1>4, <2>1, Zenon DEF Nth
  <2> QED
    BY <2>2, <2>3, Zenon
<1>7. Len(q) = 0 => first = NULL
  <2>1. Len(q) = 0 => 1 \notin DOMAIN q
    BY <1>1
  <2> QED
    BY <2>1, Zenon DEF IsChain, Nth
<1> QED
  BY <1>1, <1>2, <1>3, <1>5, <1>6, <1>7, Zenon

(* The same facts make a list. *)
Linked(q, n, nx, first, last) ==
  /\ n \in Nat /\ q \in [1 .. n -> Nodes]
  /\ \A i, j \in 1 .. n : q[i] = q[j] => i = j
  /\ \A i \in 1 .. n : i < n => q[i + 1] = IF q[i] = last THEN NULL ELSE nx[q[i]]
  /\ n # 0 => first = q[1] /\ NULL = IF q[n] = last THEN NULL ELSE nx[q[n]]
  /\ n = 0 => first = NULL

(* A list is what its nodes and next make it. *)
LEMMA ChainMake ==
  ASSUME NEW q, NEW n, NEW nx, NEW first, NEW last, Linked(q, n, nx, first, last)
  PROVE  IsChain(q, nx, first, last) /\ Len(q) = n
<1> USE DEF Linked
<1>1. q \in Seq(Nodes) /\ Len(q) = n /\ DOMAIN q = 1 .. n
  OBVIOUS
<1>2. \A i, j \in DOMAIN q : q[i] = q[j] => i = j
  BY <1>1, Zenon
<1>3. first = Nth(q, 1)
  BY <1>1 DEF Nth
<1>4. ASSUME NEW i \in DOMAIN q
      PROVE  Nth(q, i + 1) = IF q[i] = last THEN NULL ELSE nx[q[i]]
  <2>1. CASE i = n
    <3>1. n # 0 /\ i + 1 \notin DOMAIN q
      BY <1>1, <2>1
    <3> QED
      BY <2>1, <3>1, Zenon DEF Nth
  <2>2. CASE i # n
    <3>1. i \in 1 .. n /\ i < n /\ i + 1 \in DOMAIN q
      BY <1>1, <2>2
    <3> QED
      BY <3>1, Zenon DEF Nth
  <2> QED
    BY <2>1, <2>2, Zenon
<1> QED
  BY <1>1, <1>2, <1>3, <1>4, Zenon DEF IsChain

(* Another next that agrees on all nodes but the last has the same list. *)
LEMMA ChainFrame ==
  ASSUME NEW q, NEW nx, NEW ny, NEW first, NEW last, IsChain(q, nx, first, last),
         \A m \in Elements(q) : m # last => ny[m] = nx[m]
  PROVE  IsChain(q, ny, first, last)
<1>1. \A i \in DOMAIN q : q[i] \in Elements(q)
  BY Zenon DEF Elements
<1> QED
  BY <1>1, Zenon DEF IsChain

(* The list behind the first node. *)
LEMMA ChainRest ==
  ASSUME MailConst, NEW q, NEW nx, NEW first, NEW last, IsChain(q, nx, first, last),
         first # NULL
  PROVE  /\ IsChain(Rest(q), nx, IF first = last THEN NULL ELSE nx[first], last)
         /\ Len(q) > 0 /\ Len(Rest(q)) = Len(q) - 1 /\ first = q[1]
         /\ first \in Elements(q) /\ Elements(Rest(q)) = Elements(q) \ {first}
<1> DEFINE n == Len(q) - 1
           f == IF first = last THEN NULL ELSE nx[first]
           r == Rest(q)
<1>1. /\ Len(q) \in Nat /\ Len(q) > 0 /\ n \in Nat /\ n = Len(q) - 1 /\ first = q[1]
      /\ DOMAIN q = 1 .. Len(q)
  BY ChainType
<1>2. /\ \A i \in 1 .. Len(q) : q[i] \in Nodes
      /\ \A i, j \in 1 .. Len(q) : q[i] = q[j] => i = j
      /\ \A i \in 1 .. Len(q) : i < Len(q) =>
           q[i + 1] = IF q[i] = last THEN NULL ELSE nx[q[i]]
      /\ NULL = IF q[Len(q)] = last THEN NULL ELSE nx[q[Len(q)]]
  BY <1>1, ChainType
<1>3. r \in [1 .. n -> Nodes] /\ \A i \in 1 .. n : r[i] = q[i + 1]
  BY <1>1, <1>2 DEF Rest
<1> HIDE DEF n, r
<1>4. \A i, j \in 1 .. n : r[i] = r[j] => i = j
  BY <1>1, <1>2, <1>3
<1>5. \A i \in 1 .. n : i < n => r[i + 1] = IF r[i] = last THEN NULL ELSE nx[r[i]]
  <2> SUFFICES ASSUME NEW i \in 1 .. n, i < n
               PROVE r[i + 1] = IF r[i] = last THEN NULL ELSE nx[r[i]]
    BY Zenon
  <2>1. i + 1 \in 1 .. n /\ i + 1 \in 1 .. Len(q) /\ i + 1 < Len(q)
    BY <1>1
  <2> QED
    BY <1>2, <1>3, <2>1
<1>6. n # 0 => f = r[1] /\ NULL = IF r[n] = last THEN NULL ELSE nx[r[n]]
  <2> SUFFICES ASSUME n # 0
               PROVE f = r[1] /\ NULL = IF r[n] = last THEN NULL ELSE nx[r[n]]
    BY Zenon
  <2>1. 1 \in 1 .. Len(q) /\ 1 < Len(q) /\ 1 \in 1 .. n /\ n \in 1 .. n /\ n + 1 = Len(q)
    BY <1>1
  <2>2. r[1] = q[1 + 1] /\ r[n] = q[Len(q)]
    BY <1>3, <2>1, Zenon
  <2>3. q[1 + 1] = IF q[1] = last THEN NULL ELSE nx[q[1]]
    BY <1>2, <2>1, Zenon
  <2> QED
    BY <1>1, <1>2, <2>2, <2>3, Zenon
<1>7. n = 0 => f = NULL
  BY <1>1, <1>2
<1> HIDE DEF f
<1>8. IsChain(r, nx, f, last) /\ Len(r) = n
  <2>1. n \in Nat /\ r \in [1 .. n -> Nodes]
    BY <1>1, <1>3, Zenon
  <2>2. Linked(r, n, nx, f, last)
    BY <2>1, <1>4, <1>5, <1>6, <1>7, Zenon DEF Linked
  <2> QED
    BY <2>2, ChainMake, Zenon
<1>9. DOMAIN r = 1 .. n
  BY <1>3, Zenon
<1>10. Elements(r) = Elements(q) \ {first}
  <2>1. ASSUME NEW m \in Elements(r) PROVE m \in Elements(q) /\ m # first
    <3>1. PICK i \in 1 .. n : m = r[i]
      BY <1>9, Zenon DEF Elements
    <3>2. i + 1 \in 1 .. Len(q) /\ 1 \in 1 .. Len(q) /\ i + 1 # 1
      BY <1>1
    <3>3. m = q[i + 1]
      BY <1>3, <3>1, Zenon
    <3> QED
      BY <1>1, <1>2, <3>2, <3>3, Zenon DEF Elements
  <2>2. ASSUME NEW m \in Elements(q), m # first PROVE m \in Elements(r)
    <3>1. PICK i \in 1 .. Len(q) : m = q[i]
      BY <1>1, Zenon DEF Elements
    <3>2. i - 1 \in 1 .. n /\ (i - 1) + 1 = i
      BY <1>1, <2>2, <3>1
    <3>3. r[i - 1] = m
      BY <1>3, <3>1, <3>2, Zenon
    <3> QED
      BY <1>9, <3>2, <3>3, Zenon DEF Elements
  <2> QED
    BY <2>1, <2>2, Zenon
<1>11. first \in Elements(q)
  BY <1>1 DEF Elements
<1> QED
  BY <1>1, <1>8, <1>10, <1>11, Zenon DEF f, r, n

(* PutFree(): a node is put in front of a list that ends with NULL. *)
LEMMA ChainBefore ==
  ASSUME MailConst, NEW q, NEW nx \in [Nodes -> Nodes \cup {NULL}], NEW first,
         IsChain(q, nx, first, NULL), NEW m \in Nodes, m \notin Elements(q)
  PROVE  /\ IsChain(Before(m, q), [nx EXCEPT ![m] = first], m, NULL)
         /\ Elements(Before(m, q)) = Elements(q) \cup {m}
<1> DEFINE n == Len(q) + 1
           ny == [nx EXCEPT ![m] = first]
           r == Before(m, q)
<1>1. /\ Len(q) \in Nat /\ n \in Nat /\ n = Len(q) + 1 /\ DOMAIN q = 1 .. Len(q)
  BY ChainType
<1>2. /\ \A i \in 1 .. Len(q) : q[i] \in Nodes
      /\ \A i, j \in 1 .. Len(q) : q[i] = q[j] => i = j
      /\ \A i \in 1 .. Len(q) : i < Len(q) => q[i + 1] = nx[q[i]]
      /\ Len(q) # 0 => first = q[1] /\ NULL = nx[q[Len(q)]]
      /\ Len(q) = 0 => first = NULL
  <2>1. \A i \in 1 .. Len(q) : q[i] \in Nodes /\ q[i] # NULL
    BY ChainType DEF MailConst
  <2>2. Len(q) # 0 => Len(q) \in 1 .. Len(q)
    BY <1>1
  <2> QED
    BY <2>1, <2>2, ChainType
<1>3. /\ ny[m] = first /\ \A i \in 1 .. Len(q) : ny[q[i]] = nx[q[i]] /\ q[i] # m
  <2>1. \A i \in 1 .. Len(q) : q[i] # m
    BY <1>1, Zenon DEF Elements
  <2> QED
    BY <1>2, <2>1, Zenon
<1>4. /\ r \in [1 .. n -> Nodes] /\ r[1] = m
      /\ \A i \in 1 .. n : i # 1 => r[i] = q[i - 1] /\ i - 1 \in 1 .. Len(q)
  BY <1>1, <1>2 DEF Before
<1> HIDE DEF n, r, ny
<1>5. \A i, j \in 1 .. n : r[i] = r[j] => i = j
  <2> SUFFICES ASSUME NEW i \in 1 .. n, NEW j \in 1 .. n, r[i] = r[j] PROVE i = j
    BY Zenon
  <2>1. CASE i = 1 \/ j = 1
    BY <1>3, <1>4, <2>1
  <2>2. CASE i # 1 /\ j # 1
    <3>1. i - 1 = j - 1
      BY <1>2, <1>4, <2>2
    <3> QED
      BY <1>1, <3>1
  <2> QED
    BY <2>1, <2>2, Zenon
<1>6. \A i \in 1 .. n : i < n => r[i + 1] = ny[r[i]]
  <2> SUFFICES ASSUME NEW i \in 1 .. n, i < n PROVE r[i + 1] = ny[r[i]]
    BY Zenon
  <2>1. i + 1 \in 1 .. n /\ i + 1 # 1 /\ (i + 1) - 1 = i /\ i \in 1 .. Len(q)
    BY <1>1
  <2>2. r[i + 1] = q[i]
    BY <1>4, <2>1, Zenon
  <2>3. CASE i = 1
    BY <1>1, <1>2, <1>3, <1>4, <2>1, <2>2, <2>3
  <2>4. CASE i # 1
    <3>1. i - 1 \in 1 .. Len(q) /\ i - 1 < Len(q) /\ (i - 1) + 1 = i
      BY <1>1, <2>1, <2>4
    <3>2. r[i] = q[i - 1] /\ q[(i - 1) + 1] = nx[q[i - 1]]
      BY <1>2, <1>4, <2>4, <3>1, Zenon
    <3> QED
      BY <1>3, <2>2, <3>1, <3>2, Zenon
  <2> QED
    BY <2>3, <2>4, Zenon
<1>7. NULL = ny[r[n]]
  <2>1. CASE n = 1
    BY <1>1, <1>2, <1>3, <1>4, <2>1
  <2>2. CASE n # 1
    <3>1. n \in 1 .. n /\ n - 1 = Len(q) /\ Len(q) # 0 /\ Len(q) \in 1 .. Len(q)
      BY <1>1, <2>2
    <3>2. r[n] = q[Len(q)]
      BY <1>4, <2>2, <3>1, Zenon
    <3> QED
      BY <1>2, <1>3, <3>1, <3>2, Zenon
  <2> QED
    BY <2>1, <2>2, Zenon
<1>8. \A i \in 1 .. n : r[i] # NULL
  BY <1>4 DEF MailConst
<1>9. n # 0 /\ n \in 1 .. n
  BY <1>1
<1>10. IsChain(r, ny, m, NULL)
  <2>1. \A i \in 1 .. n : i < n => r[i + 1] = IF r[i] = NULL THEN NULL ELSE ny[r[i]]
    BY <1>6, <1>8, Zenon
  <2>2. m = r[1] /\ NULL = IF r[n] = NULL THEN NULL ELSE ny[r[n]]
    BY <1>4, <1>7, Zenon
  <2>3. Linked(r, n, ny, m, NULL)
    BY <1>1, <1>4, <1>5, <1>9, <2>1, <2>2, Zenon DEF Linked
  <2> QED
    BY <2>3, ChainMake, Zenon
<1>11. DOMAIN r = 1 .. n
  BY <1>4, Zenon
<1>12. Elements(r) = Elements(q) \cup {m}
  <2>1. ASSUME NEW x \in Elements(r) PROVE x \in Elements(q) \/ x = m
    <3>1. PICK i \in 1 .. n : x = r[i]
      BY <1>11, Zenon DEF Elements
    <3> QED
      BY <1>1, <1>4, <3>1, Zenon DEF Elements
  <2>2. ASSUME NEW x \in Elements(q) PROVE x \in Elements(r)
    <3>1. PICK i \in 1 .. Len(q) : x = q[i]
      BY <1>1, Zenon DEF Elements
    <3>2. i + 1 \in 1 .. n /\ i + 1 # 1 /\ (i + 1) - 1 = i
      BY <1>1
    <3>3. r[i + 1] = x
      BY <1>4, <3>1, <3>2, Zenon
    <3> QED
      BY <1>11, <3>2, <3>3, Zenon DEF Elements
  <2>3. m \in Elements(r)
    BY <1>1, <1>4, <1>11 DEF Elements
  <2> QED
    BY <2>1, <2>2, <2>3, Zenon
<1> QED
  BY <1>10, <1>12, Zenon DEF r, ny

(* LpelMailboxSend(): a node is put behind the last of the circular list. *)
LEMMA InboxAfter ==
  ASSUME MailConst, NEW q, NEW nx \in [Nodes -> Nodes \cup {NULL}],
         NEW li \in Nodes \cup {NULL}, IsInbox(q, nx, li), NEW m \in Nodes,
         m \notin Elements(q), NEW ny,
         ny = IF li = NULL THEN [nx EXCEPT ![m] = m]
              ELSE [nx EXCEPT ![m] = nx[li], ![li] = m]
  PROVE  /\ IsInbox(After(q, m), ny, m)
         /\ Elements(After(q, m)) = Elements(q) \cup {m}
         /\ \A x \in Nodes : x # m /\ x # li => ny[x] = nx[x]
<1> DEFINE n == Len(q) + 1
           r == After(q, m)
<1>1. /\ Len(q) \in Nat /\ n \in Nat /\ n = Len(q) + 1 /\ DOMAIN q = 1 .. Len(q)
      /\ \A i \in 1 .. Len(q) : q[i] \in Nodes
      /\ \A i, j \in 1 .. Len(q) : q[i] = q[j] => i = j
  <2>1. CASE li = NULL
    BY <2>1 DEF IsInbox
  <2>2. CASE li # NULL
    BY <2>2, ChainType DEF IsInbox
  <2> QED
    BY <2>1, <2>2, Zenon
<1>2. \A i \in 1 .. Len(q) : q[i] # m
  BY <1>1, Zenon DEF Elements
<1>3. /\ r \in [1 .. n -> Nodes] /\ r[n] = m
      /\ \A i \in 1 .. n : i # n => r[i] = q[i] /\ i \in 1 .. Len(q)
  BY <1>1 DEF After
<1>4. m # NULL /\ \A x \in Nodes : x # m /\ x # li => ny[x] = nx[x]
  BY Zenon DEF MailConst
<1>5. /\ li # NULL => /\ q # <<>> /\ Len(q) \in 1 .. Len(q) /\ li = q[Len(q)]
                      /\ nx[li] = q[1] /\ li # m
                      /\ \A i \in 1 .. Len(q) : i < Len(q) =>
                           q[i + 1] = nx[q[i]] /\ q[i] # li
      /\ li = NULL => Len(q) = 0
  <2>1. CASE li = NULL
    BY <2>1 DEF IsInbox
  <2>2. CASE li # NULL
    <3>1. IsChain(q, nx, nx[li], li) /\ q # <<>> /\ q[Len(q)] = li
      BY <2>2, Zenon DEF IsInbox
    <3>2. Len(q) # 0 /\ Len(q) \in 1 .. Len(q)
      <4>1. q \in Seq(Nodes)
        BY <3>1, Zenon DEF IsChain
      <4> QED
        BY <1>1, <3>1, <4>1
    <3>3. \A i \in 1 .. Len(q) : i < Len(q) => q[i] # li
      BY <1>1, <3>1, <3>2
    <3>4. \A i \in 1 .. Len(q) : i < Len(q) =>
            q[i + 1] = IF q[i] = li THEN NULL ELSE nx[q[i]]
      BY <3>1, ChainType
    <3>5. nx[li] = q[1]
      BY <3>1, <3>2, ChainType
    <3> QED
      BY <1>2, <2>2, <3>1, <3>2, <3>3, <3>4, <3>5, Zenon
  <2> QED
    BY <2>1, <2>2, Zenon
<1> HIDE DEF n, r
<1>6. \A i, j \in 1 .. n : r[i] = r[j] => i = j
  <2> SUFFICES ASSUME NEW i \in 1 .. n, NEW j \in 1 .. n, r[i] = r[j] PROVE i = j
    BY Zenon
  <2>1. CASE i = n \/ j = n
    BY <1>2, <1>3, <2>1, Zenon
  <2>2. CASE i # n /\ j # n
    BY <1>1, <1>3, <2>2, Zenon
  <2> QED
    BY <2>1, <2>2, Zenon
<1>7. \A i \in 1 .. n : i < n => r[i + 1] = ny[r[i]] /\ r[i] # m
  <2> SUFFICES ASSUME NEW i \in 1 .. n, i < n PROVE r[i + 1] = ny[r[i]] /\ r[i] # m
    BY Zenon
  <2>1. i # n /\ i \in 1 .. Len(q) /\ i + 1 \in 1 .. n /\ Len(q) # 0
    BY <1>1
  <2>2. r[i] = q[i] /\ li # NULL /\ q[i] # m /\ q[i] \in Nodes
    BY <1>1, <1>2, <1>3, <1>5, <2>1, Zenon
  <2>3. CASE i = Len(q)
    <3>1. r[i + 1] = m /\ q[i] = li
      BY <1>1, <1>3, <1>5, <2>2, <2>3, Zenon
    <3>2. ny[li] = m
      BY <1>5, <2>2, <3>1, Zenon
    <3> QED
      BY <2>2, <3>1, <3>2, Zenon
  <2>4. CASE i # Len(q)
    <3>1. i \in Nat /\ Len(q) \in Nat /\ i <= Len(q) /\ n = Len(q) + 1
      BY <1>1, <2>1
    <3>2. i < Len(q) /\ i + 1 # n
      BY <2>4, <3>1
    <3>3. r[i + 1] = q[i + 1] /\ q[i + 1] = nx[q[i]] /\ q[i] # li
      BY <1>3, <1>5, <2>1, <2>2, <3>2, Zenon
    <3> QED
      BY <1>4, <2>2, <3>3, Zenon
  <2> QED
    BY <2>3, <2>4, Zenon
<1>8. n # 0 /\ n \in 1 .. n /\ 1 \in 1 .. n
  BY <1>1
<1>9. ny[m] = r[1]
  <2>1. CASE li = NULL
    BY <1>1, <1>3, <1>5, <2>1
  <2>2. CASE li # NULL
    <3>1. ny[m] = nx[li]
      BY <1>5, <2>2, Zenon
    <3>2. 1 # n
      BY <1>1, <1>5, <2>2
    <3> QED
      BY <1>3, <1>5, <1>8, <2>2, <3>1, <3>2, Zenon
  <2> QED
    BY <2>1, <2>2, Zenon
<1>10. IsChain(r, ny, ny[m], m) /\ Len(r) = n
  <2>1. \A i \in 1 .. n : i < n => r[i + 1] = IF r[i] = m THEN NULL ELSE ny[r[i]]
    BY <1>7, Zenon
  <2> DEFINE g == ny[m]
  <2>2. n # 0 => g = r[1] /\ NULL = IF r[n] = m THEN NULL ELSE ny[r[n]]
    BY <1>3, <1>9, Zenon
  <2>3. n \in Nat /\ r \in [1 .. n -> Nodes] /\ (n = 0 => g = NULL)
    BY <1>1, <1>3, <1>8, Zenon
  <2> HIDE DEF g
  <2>4. IsChain(r, ny, g, m) /\ Len(r) = n
    <3>1. Linked(r, n, ny, g, m)
      BY <1>6, <2>1, <2>2, <2>3, Zenon DEF Linked
    <3> QED
      BY <3>1, ChainMake, Zenon
  <2> QED
    BY <2>4, Zenon DEF g
<1>11. DOMAIN r = 1 .. n
  BY <1>3, Zenon
<1>12. r # <<>>
  BY <1>8, <1>11
<1>13. IsInbox(r, ny, m)
  BY <1>3, <1>4, <1>10, <1>12, Zenon DEF IsInbox
<1>14. Elements(r) = Elements(q) \cup {m}
  <2>1. ASSUME NEW x \in Elements(r) PROVE x \in Elements(q) \/ x = m
    <3>1. PICK i \in 1 .. n : x = r[i]
      BY <1>11, Zenon DEF Elements
    <3> QED
      BY <1>1, <1>3, <3>1, Zenon DEF Elements
  <2>2. ASSUME NEW x \in Elements(q) PROVE x \in Elements(r)
    <3>1. PICK i \in 1 .. Len(q) : x = q[i]
      BY <1>1, Zenon DEF Elements
    <3>2. i \in 1 .. n /\ i # n
      BY <1>1
    <3> QED
      BY <1>3, <1>11, <3>1, <3>2, Zenon DEF Elements
  <2>3. m \in Elements(r)
    BY <1>3, <1>8, <1>11, Zenon DEF Elements
  <2> QED
    BY <2>1, <2>2, <2>3, Zenon
<1> QED
  BY <1>4, <1>13, <1>14, Zenon DEF r

(* The first node of the circular list nx, li is unlinked *)
Unlinked(nx, li, ny, lj) ==
  IF nx[li] = li THEN lj = NULL /\ ny = nx
  ELSE lj = li /\ ny = [nx EXCEPT ![li] = nx[nx[li]]]

(* LpelMailboxRecv(): what is left when the first node is unlinked. *)
LEMMA InboxRest ==
  ASSUME MailConst, NEW q, NEW nx \in [Nodes -> Nodes \cup {NULL}],
         NEW li \in Nodes, IsInbox(q, nx, li), NEW ny, NEW lj,
         Unlinked(nx, li, ny, lj)
  PROVE  /\ IsInbox(Rest(q), ny, lj)
         /\ nx[li] \in Nodes /\ nx[li] \in Elements(q) /\ li \in Elements(q)
         /\ Elements(Rest(q)) = Elements(q) \ {nx[li]}
         /\ \A x \in Nodes : x # li => ny[x] = nx[x]
         /\ Len(q) > 0 /\ nx[li] = q[1] /\ Len(Rest(q)) = Len(q) - 1
<1>1. IsChain(q, nx, nx[li], li) /\ q # <<>> /\ q[Len(q)] = li
  BY Zenon DEF IsInbox, MailConst
<1>2. /\ Len(q) \in Nat /\ Len(q) # 0 /\ DOMAIN q = 1 .. Len(q)
      /\ \A i \in 1 .. Len(q) : q[i] \in Nodes
      /\ \A i, j \in 1 .. Len(q) : q[i] = q[j] => i = j
      /\ nx[li] = q[1]
  <2>1. q \in Seq(Nodes)
    BY <1>1, Zenon DEF IsChain
  <2>2. Len(q) # 0
    BY <1>1, <2>1
  <2> QED
    BY <1>1, <2>2, ChainType
<1>3. nx[li] # NULL /\ nx[li] \in Nodes
  BY <1>2 DEF MailConst
<1>4. /\ IsChain(Rest(q), nx, IF nx[li] = li THEN NULL ELSE nx[nx[li]], li)
      /\ Len(q) > 0 /\ Len(Rest(q)) = Len(q) - 1
      /\ nx[li] \in Elements(q) /\ Elements(Rest(q)) = Elements(q) \ {nx[li]}
  BY <1>1, <1>3, ChainRest
<1>5. \A x \in Nodes : x # li => ny[x] = nx[x]
  BY Zenon DEF Unlinked
<1>6. li \in Elements(q)
  BY <1>1, <1>2 DEF Elements
<1>7. IsInbox(Rest(q), ny, lj)
  <2>1. CASE nx[li] = li
    <3>1. 1 \in 1 .. Len(q) /\ Len(q) \in 1 .. Len(q) /\ q[1] = q[Len(q)]
      BY <1>1, <1>2, <2>1
    <3>2. Len(q) = 1
      BY <1>2, <3>1, Zenon
    <3>3. Rest(q) = <<>>
      BY <3>2 DEF Rest
    <3> QED
      BY <2>1, <3>3, Zenon DEF IsInbox, Unlinked
  <2>2. CASE nx[li] # li
    <3>1. Len(q) # 1 /\ Len(q) - 1 \in 1 .. Len(q) - 1 /\ (Len(q) - 1) + 1 = Len(q)
      BY <1>1, <1>2, <2>2
    <3>2. Rest(q)[Len(Rest(q))] = li /\ Rest(q) # <<>>
      <4>1. DOMAIN Rest(q) = 1 .. Len(q) - 1
        BY Zenon DEF Rest
      <4>2. Rest(q)[Len(q) - 1] = q[(Len(q) - 1) + 1]
        BY <3>1, Zenon DEF Rest
      <4> QED
        BY <1>1, <1>4, <3>1, <4>1, <4>2
    <3>3. ny[li] = nx[nx[li]] /\ lj = li
      BY <2>2, Zenon DEF Unlinked
    <3>4. IsChain(Rest(q), nx, ny[li], li)
      BY <1>4, <2>2, <3>3, Zenon
    <3>5. \A x \in Elements(Rest(q)) : x \in Nodes
      BY <3>4, ChainType DEF Elements
    <3>6. IsChain(Rest(q), ny, ny[li], li)
      BY <1>5, <3>4, <3>5, ChainFrame, Zenon
    <3>7. li # NULL
      BY Zenon DEF MailConst
    <3> QED
      BY <3>2, <3>3, <3>6, <3>7, Zenon DEF IsInbox
  <2> QED
    BY <2>1, <2>2, Zenon
<1> QED
  BY <1>2, <1>3, <1>4, <1>5, <1>6, <1>7, ZenonT(30)

-----------------------------------------------------------------------------
(* The inductive invariant *)

(* The types of the variables *)
TypeInv ==
  /\ next \in [Nodes -> Nodes \cup {NULL}]
  /\ list_free \in Nodes \cup {NULL} /\ list_inbox \in Nodes \cup {NULL}
  /\ msg \in [Nodes -> Messages \cup {<<>>}]
  /\ allocated \subseteq Nodes
  /\ spc \in [Senders -> {"idle", "fill", "insert"}]
  /\ snode \in [Senders -> Nodes \cup {NULL}]
  /\ sent \in [Senders -> 0 .. MaxSend]
  /\ rpc \in {"idle", "recv", "fetch", "waiting", "copy", "putfree", "destroyed"}
  /\ rnode \in Nodes \cup {NULL}

(* What a thread holds where it is *)
PcInv ==
  /\ \A s \in Senders : /\ spc[s] = "idle" <=> snode[s] = NULL
                        /\ spc[s] # "idle" => sent[s] # 0
                        /\ spc[s] = "insert" => msg[snode[s]] = <<s, sent[s]>>
  /\ rpc \in {"copy", "putfree"} <=> rnode # NULL
  /\ rpc = "destroyed" => /\ allocated = {}
                          /\ \A s \in Senders : spc[s] = "idle" /\ sent[s] = MaxSend

(* F are the free nodes, B those in the inbox, sn and rn the nodes in hand *)
Owned(F, B, sn, rn, al) ==
  /\ F \subseteq Nodes /\ B \subseteq Nodes /\ F \cap B = {}
  /\ \A s \in Senders : sn[s] # NULL => /\ sn[s] \notin F /\ sn[s] \notin B /\ sn[s] # rn
                                        /\ \A r \in Senders : sn[r] = sn[s] => r = s
  /\ rn \notin F /\ rn \notin B
  /\ \A x \in Nodes :
       x \in al <=> x \in F \/ x \in B \/ x = rn \/ \E s \in Senders : sn[s] = x

(* f is the free list and b the inbox *)
Lists(f, b) ==
  /\ IsChain(f, next, list_free, NULL)
  /\ IsInbox(b, next, list_inbox)
  /\ Owned(Elements(f), Elements(b), snode, rnode, allocated)

IInv == TypeInv /\ PcInv /\ \E f, b : Lists(f, b)

(* The two lists are what FreeChain and InboxChain follow. *)
LEMMA ListsAre ==
  ASSUME MailConst, NEW f, NEW b, Lists(f, b)
  PROVE  FreeChain = f /\ InboxChain = b
<1>1. FreeChain = f
  BY ChainIs, Zenon DEF Lists, FreeChain
<1>2. InboxChain = b
  BY ChainIs, Zenon DEF Lists, InboxChain, IsInbox
<1> QED
  BY <1>1, <1>2, Zenon

(* The same after a step. *)
LEMMA ListsAreNext ==
  ASSUME MailConst, NEW f, NEW b, Lists(f, b)'
  PROVE  FreeChain' = f /\ InboxChain' = b
<1>1. IsChain(f, next', list_free', NULL) /\ IsInbox(b, next', list_inbox')
  BY Zenon DEF Lists
<1>2. FreeChain' = f
  BY <1>1, ChainIs, Zenon DEF FreeChain
<1>3. InboxChain' = b
  BY <1>1, ChainIs, Zenon DEF InboxChain, IsInbox
<1> QED
  BY <1>2, <1>3, Zenon

(* The inbox is a list of nodes. *)
LEMMA InboxType ==
  ASSUME NEW q, NEW nx, NEW li, IsInbox(q, nx, li)
  PROVE  /\ q \in Seq(Nodes) /\ Len(q) \in Nat /\ DOMAIN q = 1 .. Len(q)
         /\ \A i, j \in DOMAIN q : q[i] = q[j] => i = j
<1>1. CASE li = NULL
  BY <1>1 DEF IsInbox
<1>2. CASE li # NULL
  BY <1>2 DEF IsInbox, IsChain
<1> QED
  BY <1>1, <1>2, Zenon

(* The invariant is the ownership of the nodes. *)
LEMMA IInvOwnership ==
  ASSUME MailConst, IInv
  PROVE  NodeOwnership
<1>1. PICK f, b : Lists(f, b)
  BY Zenon DEF IInv
<1>2. FreeChain = f /\ InboxChain = b
  BY <1>1, ListsAre, Zenon
<1>3. /\ \A i, j \in DOMAIN f : f[i] = f[j] => i = j
      /\ \A i, j \in DOMAIN b : b[i] = b[j] => i = j
  BY <1>1, InboxType, Zenon DEF Lists, IsChain
<1> DEFINE F == Elements(f)
           B == Elements(b)
<1>4. Owned(F, B, snode, rnode, allocated)
  BY <1>1, Zenon DEF Lists
<1> HIDE DEF F, B
<1>5. allocated = (F \cup B \cup {snode[s] : s \in Senders} \cup {rnode}) \ {NULL}
  <2>1. ASSUME NEW x \in allocated
        PROVE  x \in (F \cup B \cup {snode[s] : s \in Senders} \cup {rnode}) \ {NULL}
    <3>1. x \in Nodes /\ x # NULL
      BY <2>1, Zenon DEF IInv, TypeInv, MailConst
    <3>2. x \in F \/ x \in B \/ x = rnode \/ \E s \in Senders : snode[s] = x
      BY <1>4, <2>1, <3>1, Zenon DEF Owned
    <3> QED
      BY <3>1, <3>2, Zenon
  <2>2. ASSUME NEW x \in (F \cup B \cup {snode[s] : s \in Senders} \cup {rnode}) \ {NULL}
        PROVE  x \in allocated
    <3>1. x \in Nodes
      BY <1>4, <2>2 DEF Owned, IInv, TypeInv
    <3>2. x \in F \/ x \in B \/ x = rnode \/ \E s \in Senders : snode[s] = x
      BY <2>2, Zenon
    <3> QED
      BY <1>4, <3>1, <3>2, Zenon DEF Owned
  <2> QED
    BY <2>1, <2>2, Zenon
<1>6. /\ F \cap B = {}
      /\ \A s \in Senders : snode[s] # NULL =>
           /\ snode[s] \notin F \cup B \cup {rnode}
           /\ \A r \in Senders : snode[r] = snode[s] => r = s
      /\ rnode \notin F \cup B
  BY <1>4, Zenon DEF Owned
<1>7. rpc = "destroyed" => allocated = {}
  BY Zenon DEF IInv, PcInv
<1> QED
  BY <1>2, <1>3, <1>5, <1>6, <1>7, Zenon DEF NodeOwnership, F, B

-----------------------------------------------------------------------------
(* Changes of the owner of a node *)

(* GetFree(): a free node, or new memory, to a sender. *)
LEMMA OwnedGet ==
  ASSUME MailConst, NEW F, NEW B, NEW sn \in [Senders -> Nodes \cup {NULL}], NEW rn,
         NEW al \in SUBSET Nodes, Owned(F, B, sn, rn, al), NEW s \in Senders,
         sn[s] = NULL, NEW n \in Nodes, n \in F \/ n \notin al
  PROVE  Owned(F \ {n}, B, [sn EXCEPT ![s] = n], rn, al \cup {n})
<1> DEFINE sm == [sn EXCEPT ![s] = n]
<1>1. sm[s] = n /\ \A r \in Senders : r # s => sm[r] = sn[r]
  BY Zenon
<1>2. n # NULL
  BY Zenon DEF MailConst
<1>3. n \notin B /\ n # rn /\ \A r \in Senders : sn[r] # n
  BY <1>2, Zenon DEF Owned
<1> HIDE DEF sm
<1>4. \A r \in Senders : sm[r] # NULL =>
        /\ sm[r] \notin F \ {n} /\ sm[r] \notin B /\ sm[r] # rn
        /\ \A t \in Senders : sm[t] = sm[r] => t = r
  BY <1>1, <1>2, <1>3 DEF Owned
<1>5. \A x \in Nodes : x \in al \cup {n} <=>
        x \in F \ {n} \/ x \in B \/ x = rn \/ \E r \in Senders : sm[r] = x
  BY <1>1, <1>2, <1>3 DEF Owned, MailConst
<1>6. /\ F \ {n} \subseteq Nodes /\ B \subseteq Nodes /\ (F \ {n}) \cap B = {}
      /\ rn \notin F \ {n} /\ rn \notin B
  BY Zenon DEF Owned
<1>7. Owned(F \ {n}, B, sm, rn, al \cup {n})
  BY <1>4, <1>5, <1>6, Zenon DEF Owned
<1> QED
  BY <1>7, Zenon DEF sm

(* LpelMailboxSend(): the node of a sender to the inbox. *)
LEMMA OwnedSend ==
  ASSUME MailConst, NEW F, NEW B, NEW sn \in [Senders -> Nodes \cup {NULL}], NEW rn,
         NEW al, Owned(F, B, sn, rn, al), NEW s \in Senders, sn[s] # NULL
  PROVE  Owned(F, B \cup {sn[s]}, [sn EXCEPT ![s] = NULL], rn, al)
<1> DEFINE sm == [sn EXCEPT ![s] = NULL]
           n == sn[s]
<1>1. sm[s] = NULL /\ \A r \in Senders : r # s => sm[r] = sn[r]
  BY Zenon
<1>2. n \in Nodes /\ n # NULL /\ n \notin F /\ n # rn
      /\ \A r \in Senders : r # s => sn[r] # n
  BY Zenon DEF Owned, MailConst
<1>3. n = sn[s]
  BY Zenon
<1> HIDE DEF sm, n
<1>4. \A r \in Senders : sm[r] # NULL =>
        /\ sm[r] \notin F /\ sm[r] \notin B \cup {n} /\ sm[r] # rn
        /\ \A t \in Senders : sm[t] = sm[r] => t = r
  BY <1>1, <1>2 DEF Owned
<1>5. \A x \in Nodes : x \in al <=>
        x \in F \/ x \in B \cup {n} \/ x = rn \/ \E r \in Senders : sm[r] = x
  BY <1>1, <1>2, <1>3 DEF Owned, MailConst
<1>6. /\ F \subseteq Nodes /\ B \cup {n} \subseteq Nodes /\ F \cap (B \cup {n}) = {}
      /\ rn \notin F /\ rn \notin B \cup {n}
  BY <1>2 DEF Owned
<1>7. Owned(F, B \cup {n}, sm, rn, al)
  BY <1>4, <1>5, <1>6, Zenon DEF Owned
<1> QED
  BY <1>7, Zenon DEF sm, n

(* LpelMailboxRecv(): a node of the inbox to the receiver. *)
LEMMA OwnedTake ==
  ASSUME MailConst, NEW F, NEW B, NEW sn, NEW al, Owned(F, B, sn, NULL, al), NEW n \in B
  PROVE  Owned(F, B \ {n}, sn, n, al)
<1>1. n \in Nodes /\ n \notin F /\ n # NULL /\ \A s \in Senders : sn[s] # n
  BY Zenon DEF Owned, MailConst
<1>2. \A s \in Senders : sn[s] # NULL =>
        /\ sn[s] \notin F /\ sn[s] \notin B \ {n} /\ sn[s] # n
        /\ \A r \in Senders : sn[r] = sn[s] => r = s
  BY <1>1, Zenon DEF Owned
<1>3. \A x \in Nodes : x \in al <=>
        x \in F \/ x \in B \ {n} \/ x = n \/ \E s \in Senders : sn[s] = x
  BY <1>1 DEF Owned, MailConst
<1>4. /\ F \subseteq Nodes /\ B \ {n} \subseteq Nodes /\ F \cap (B \ {n}) = {}
      /\ n \notin F /\ n \notin B \ {n}
  BY <1>1, Zenon DEF Owned
<1> QED
  BY <1>2, <1>3, <1>4, Zenon DEF Owned

(* PutFree(): the node of the receiver to the free list. *)
LEMMA OwnedFree ==
  ASSUME MailConst, NEW F, NEW B, NEW sn, NEW n \in Nodes, NEW al, Owned(F, B, sn, n, al)
  PROVE  Owned(F \cup {n}, B, sn, NULL, al)
<1>1. n \notin B /\ n # NULL /\ \A s \in Senders : sn[s] # n
  BY Zenon DEF Owned, MailConst
<1>2. \A s \in Senders : sn[s] # NULL =>
        /\ sn[s] \notin F \cup {n} /\ sn[s] \notin B
        /\ \A r \in Senders : sn[r] = sn[s] => r = s
  BY <1>1, Zenon DEF Owned
<1>3. \A x \in Nodes : x \in al <=>
        x \in F \cup {n} \/ x \in B \/ x = NULL \/ \E s \in Senders : sn[s] = x
  BY <1>1, Zenon DEF Owned, MailConst
<1>4. /\ F \cup {n} \subseteq Nodes /\ B \subseteq Nodes /\ (F \cup {n}) \cap B = {}
      /\ NULL \notin F \cup {n} /\ NULL \notin B
  BY <1>1 DEF Owned, MailConst
<1> QED
  BY <1>2, <1>3, <1>4, Zenon DEF Owned

-----------------------------------------------------------------------------
(* The lists after each step *)

(* A step that changes no list and no node in hand. *)
LEMMA ListsSame ==
  ASSUME NEW f, NEW b, Lists(f, b),
         UNCHANGED <<list_free, list_inbox, next, allocated, snode, rnode>>
  PROVE  Lists(f, b)'
<1>1. /\ list_free' = list_free /\ list_inbox' = list_inbox /\ next' = next
      /\ allocated' = allocated /\ snode' = snode /\ rnode' = rnode
  BY Zenon
<1> QED
  BY <1>1, Zenon DEF Lists

(* GetFree(): the free list loses its first node, if it has one. *)
LEMMA ListsGetFree ==
  ASSUME MailConst, TypeInv, PcInv, NEW f, NEW b, Lists(f, b), NEW s \in Senders,
         GetFree(s)
  PROVE  \E g : Lists(g, b)'
<1>1. snode[s] = NULL /\ UNCHANGED <<list_inbox, next, rnode>>
  BY Zenon DEF GetFree, PcInv, recvVars
<1>2. Owned(Elements(f), Elements(b), snode, rnode, allocated)
  BY Zenon DEF Lists
<1>3. IsInbox(b, next', list_inbox')
  BY <1>1, Zenon DEF Lists
<1>4. IsChain(f, next, list_free, NULL)
  BY Zenon DEF Lists
<1>5. CASE list_free # NULL
  <2>1. /\ snode' = [snode EXCEPT ![s] = list_free]
        /\ list_free' = next[list_free] /\ allocated' = allocated
    BY <1>5, Zenon DEF GetFree
  <2>2. /\ IsChain(Rest(f), next, next[list_free], NULL)
        /\ list_free \in Elements(f) /\ Elements(Rest(f)) = Elements(f) \ {list_free}
    BY <1>4, <1>5, ChainRest, Zenon
  <2>3. list_free \in Nodes
    BY <1>5, Zenon DEF TypeInv
  <2>4. Owned(Elements(f) \ {list_free}, Elements(b), [snode EXCEPT ![s] = list_free],
              rnode, allocated \cup {list_free})
    BY <1>1, <1>2, <2>2, <2>3, OwnedGet, Zenon DEF TypeInv
  <2>5. allocated \cup {list_free} = allocated
    BY <1>2, <2>2, <2>3 DEF Owned
  <2>6. Owned(Elements(Rest(f)), Elements(b), snode', rnode', allocated')
    BY <1>1, <2>1, <2>2, <2>4, <2>5, Zenon
  <2>7. IsChain(Rest(f), next', list_free', NULL)
    BY <1>1, <2>1, <2>2, Zenon
  <2> QED
    BY <1>3, <2>6, <2>7, Zenon DEF Lists
<1>6. CASE list_free = NULL
  <2>1. PICK n \in Nodes \ allocated : /\ allocated' = allocated \cup {n}
                                       /\ snode' = [snode EXCEPT ![s] = n]
    BY <1>6, Zenon DEF GetFree
  <2>2. Owned(Elements(f) \ {n}, Elements(b), snode', rnode, allocated')
    BY <1>1, <1>2, <2>1, OwnedGet, Zenon DEF TypeInv
  <2>3. Elements(f) \ {n} = Elements(f)
    BY <1>2, <2>1, ZenonT(30) DEF Owned
  <2>4. Owned(Elements(f), Elements(b), snode', rnode', allocated')
    BY <1>1, <2>2, <2>3, Zenon
  <2>5. list_free' = list_free
    BY <1>6, Zenon DEF GetFree
  <2>6. IsChain(f, next', list_free', NULL)
    BY <1>1, <1>4, <2>5, Zenon
  <2> QED
    BY <1>3, <2>4, <2>6, Zenon DEF Lists
<1> QED
  BY <1>5, <1>6, Zenon

(* list_inbox is in the inbox. *)
LEMMA InboxLast ==
  ASSUME NEW q, NEW nx, NEW li, IsInbox(q, nx, li), li # NULL
  PROVE  li \in Elements(q)
<1>1. q \in Seq(Nodes) /\ q # <<>> /\ q[Len(q)] = li
  BY Zenon DEF IsInbox, IsChain
<1>2. Len(q) \in DOMAIN q
  BY <1>1
<1> QED
  BY <1>1, <1>2, Zenon DEF Elements

(* LpelMailboxSend(): the inbox gets the node of the sender as its last. *)
LEMMA ListsInsert ==
  ASSUME MailConst, TypeInv, PcInv, NEW f, NEW b, Lists(f, b), NEW s \in Senders,
         NEW n, n = snode[s], Insert(s)
  PROVE  Lists(f, After(b, n))' /\ n \in Nodes
<1>1. /\ n \in Nodes /\ n # NULL /\ list_inbox' = n
      /\ snode' = [snode EXCEPT ![s] = NULL]
      /\ list_free' = list_free /\ allocated' = allocated /\ rnode' = rnode
      /\ next' = IF list_inbox = NULL THEN [next EXCEPT ![n] = n]
                 ELSE [next EXCEPT ![n] = next[list_inbox], ![list_inbox] = n]
  BY Zenon DEF Insert, InsertLast, PcInv, TypeInv, MailConst
<1>2. /\ IsChain(f, next, list_free, NULL) /\ IsInbox(b, next, list_inbox)
      /\ Owned(Elements(f), Elements(b), snode, rnode, allocated)
  BY Zenon DEF Lists
<1>3. n \notin Elements(b) /\ n \notin Elements(f) /\ Elements(f) \subseteq Nodes
      /\ Elements(f) \cap Elements(b) = {}
  BY <1>1, <1>2, Zenon DEF Owned
<1>4. /\ IsInbox(After(b, n), next', n)
      /\ Elements(After(b, n)) = Elements(b) \cup {n}
      /\ \A x \in Nodes : x # n /\ x # list_inbox => next'[x] = next[x]
  <2>1. next \in [Nodes -> Nodes \cup {NULL}] /\ list_inbox \in Nodes \cup {NULL}
    BY Zenon DEF TypeInv
  <2> QED
    BY <1>1, <1>2, <1>3, <2>1, InboxAfter, ZenonT(30)
<1>5. list_inbox \notin Elements(f)
  BY <1>2, <1>3, InboxLast, Zenon DEF MailConst
<1>6. IsChain(f, next', list_free', NULL)
  <2>1. \A x \in Elements(f) : next'[x] = next[x]
    BY <1>3, <1>4, <1>5, Zenon
  <2>2. IsChain(f, next', list_free, NULL)
    BY <1>2, <2>1, ChainFrame, Zenon
  <2> QED
    BY <1>1, <2>2, Zenon
<1>7. Owned(Elements(f), Elements(After(b, n)), snode', rnode', allocated')
  <2>1. Owned(Elements(f), Elements(b) \cup {n}, [snode EXCEPT ![s] = NULL], rnode, allocated)
    BY <1>1, <1>2, OwnedSend, Zenon DEF TypeInv
  <2> QED
    BY <1>1, <1>4, <2>1, Zenon
<1>8. IsInbox(After(b, n), next', list_inbox')
  BY <1>1, <1>4, Zenon
<1> QED
  BY <1>1, <1>6, <1>7, <1>8, Zenon DEF Lists

(* LpelMailboxRecv(): the inbox loses its first node. *)
LEMMA ListsTake ==
  ASSUME MailConst, TypeInv, PcInv, NEW f, NEW b, Lists(f, b), Take
  PROVE  /\ Lists(f, Rest(b))' /\ rnode' \in Nodes
         /\ Len(b) > 0 /\ rnode' = b[1]
<1>1. /\ list_inbox \in Nodes /\ rnode = NULL /\ rnode' = next[list_inbox]
      /\ Unlinked(next, list_inbox, next', list_inbox')
      /\ list_free' = list_free /\ allocated' = allocated /\ snode' = snode
  BY Zenon DEF Take, Unlink, Unlinked, PcInv, TypeInv, sendVars
<1>2. /\ IsChain(f, next, list_free, NULL) /\ IsInbox(b, next, list_inbox)
      /\ Owned(Elements(f), Elements(b), snode, rnode, allocated)
  BY Zenon DEF Lists
<1> DEFINE n == next[list_inbox]
<1>3. /\ IsInbox(Rest(b), next', list_inbox')
      /\ n \in Nodes /\ n \in Elements(b) /\ list_inbox \in Elements(b)
      /\ Elements(Rest(b)) = Elements(b) \ {n}
      /\ \A x \in Nodes : x # list_inbox => next'[x] = next[x]
      /\ Len(b) > 0 /\ n = b[1]
  <2>1. next \in [Nodes -> Nodes \cup {NULL}]
    BY Zenon DEF TypeInv
  <2>2. PICK ny, lj : ny = next' /\ lj = list_inbox'
    BY Zenon
  <2>3. Unlinked(next, list_inbox, ny, lj)
    BY <1>1, <2>2, Zenon
  <2>4. list_inbox \in Nodes /\ IsInbox(b, next, list_inbox)
    BY <1>1, <1>2, Zenon
  <2>5. /\ IsInbox(Rest(b), ny, lj)
        /\ next[list_inbox] \in Nodes /\ next[list_inbox] \in Elements(b)
        /\ list_inbox \in Elements(b)
        /\ Elements(Rest(b)) = Elements(b) \ {next[list_inbox]}
        /\ \A x \in Nodes : x # list_inbox => ny[x] = next[x]
        /\ Len(b) > 0 /\ next[list_inbox] = b[1]
    BY <2>1, <2>3, <2>4, InboxRest
  <2> QED
    BY <2>2, <2>5, Zenon
<1>4. rnode' = n
  BY <1>1, Zenon
<1> HIDE DEF n
<1>5. Owned(Elements(f), Elements(Rest(b)), snode', rnode', allocated')
  <2>1. Owned(Elements(f), Elements(b), snode, NULL, allocated)
    BY <1>1, <1>2, Zenon
  <2>2. Owned(Elements(f), Elements(b) \ {n}, snode, n, allocated)
    BY <1>3, <2>1, OwnedTake, Zenon
  <2> QED
    BY <1>1, <1>3, <1>4, <2>2, Zenon
<1>6. IsChain(f, next', list_free', NULL)
  <2>1. list_inbox \notin Elements(f) /\ Elements(f) \subseteq Nodes
    BY <1>2, <1>3, Zenon DEF Owned
  <2>2. \A x \in Elements(f) : next'[x] = next[x]
    BY <1>3, <2>1, Zenon
  <2>3. IsChain(f, next', list_free, NULL)
    BY <1>2, <2>2, ChainFrame, Zenon
  <2> QED
    BY <1>1, <2>3, Zenon
<1>7. Lists(f, Rest(b))'
  BY <1>3, <1>5, <1>6, Zenon DEF Lists
<1> QED
  BY <1>3, <1>4, <1>7, Zenon

(* PutFree(): the node of the receiver becomes the first free one. *)
LEMMA ListsPutFree ==
  ASSUME MailConst, TypeInv, PcInv, NEW f, NEW b, Lists(f, b), PutFree
  PROVE  \E g : Lists(g, b)'
<1>1. /\ rnode \in Nodes /\ next' = [next EXCEPT ![rnode] = list_free]
      /\ list_free' = rnode /\ rnode' = NULL
      /\ list_inbox' = list_inbox /\ allocated' = allocated /\ snode' = snode
  BY Zenon DEF PutFree, PcInv, TypeInv, sendVars
<1>2. /\ IsChain(f, next, list_free, NULL) /\ IsInbox(b, next, list_inbox)
      /\ Owned(Elements(f), Elements(b), snode, rnode, allocated)
  BY Zenon DEF Lists
<1>3. rnode \notin Elements(f) /\ rnode \notin Elements(b) /\ Elements(b) \subseteq Nodes
  BY <1>2, Zenon DEF Owned
<1>4. /\ IsChain(Before(rnode, f), next', list_free', NULL)
      /\ Elements(Before(rnode, f)) = Elements(f) \cup {rnode}
  <2>1. next \in [Nodes -> Nodes \cup {NULL}]
    BY Zenon DEF TypeInv
  <2>2. /\ IsChain(Before(rnode, f), [next EXCEPT ![rnode] = list_free], rnode, NULL)
        /\ Elements(Before(rnode, f)) = Elements(f) \cup {rnode}
    BY <1>1, <1>2, <1>3, <2>1, ChainBefore, Zenon
  <2> QED
    BY <1>1, <2>2, Zenon
<1>5. \A x \in Elements(b) : next'[x] = next[x]
  BY <1>1, <1>3, Zenon DEF TypeInv
<1>6. IsInbox(b, next', list_inbox')
  <2>1. CASE list_inbox = NULL
    BY <1>1, <1>2, <2>1, Zenon DEF IsInbox
  <2>2. CASE list_inbox # NULL
    <3>1. next'[list_inbox] = next[list_inbox]
      BY <1>2, <1>5, <2>2, InboxLast, Zenon
    <3>2. IsChain(b, next, next[list_inbox], list_inbox)
          /\ b # <<>> /\ b[Len(b)] = list_inbox
      BY <1>2, <2>2, Zenon DEF IsInbox
    <3>3. IsChain(b, next', next[list_inbox], list_inbox)
      BY <1>5, <3>2, ChainFrame, Zenon
    <3> QED
      BY <1>1, <2>2, <3>1, <3>2, <3>3, Zenon DEF IsInbox
  <2> QED
    BY <2>1, <2>2, Zenon
<1>7. Owned(Elements(f) \cup {rnode}, Elements(b), snode, NULL, allocated)
  BY <1>1, <1>2, OwnedFree, Zenon
<1>8. Owned(Elements(Before(rnode, f)), Elements(b), snode', rnode', allocated')
  BY <1>1, <1>4, <1>7, Zenon
<1>9. PICK g : g = Before(rnode, f)
  BY Zenon
<1>10. Lists(g, b)'
  BY <1>4, <1>6, <1>8, <1>9, Zenon DEF Lists
<1> QED
  BY <1>10, Zenon

(* LpelMailboxDestroy(): every node there is is free, and the list is emptied. *)
LEMMA ListsDestroy ==
  ASSUME MailConst, TypeInv, PcInv, NEW f, NEW b, Lists(f, b), LpelMailboxDestroy
  PROVE  \E g : Lists(g, b)' /\ allocated' = {}
<1>1. /\ list_inbox = NULL /\ rnode = NULL /\ \A s \in Senders : snode[s] = NULL
      /\ list_free' = NULL /\ list_inbox' = list_inbox /\ next' = next
      /\ rnode' = rnode /\ snode' = snode
      /\ allocated' = allocated \ Elements(FreeChain)
  BY Zenon DEF LpelMailboxDestroy, PcInv, TypeInv, sendVars
<1>2. FreeChain = f
  BY ListsAre, Zenon
<1>3. /\ IsInbox(b, next, list_inbox)
      /\ Owned(Elements(f), Elements(b), snode, rnode, allocated)
  BY Zenon DEF Lists
<1>4. b = <<>> /\ Elements(<<>>) = {}
  BY <1>1, <1>3 DEF IsInbox, Elements
<1>5. allocated' = {}
  <2>1. ASSUME NEW x \in allocated PROVE x \in Elements(f)
    <3>1. x \in Nodes /\ x # NULL
      BY Zenon DEF TypeInv, MailConst
    <3> QED
      BY <1>1, <1>3, <1>4, <3>1, Zenon DEF Owned
  <2> QED
    BY <1>1, <1>2, <2>1, Zenon
<1>6. IsChain(<<>>, next', list_free', NULL)
  BY <1>1 DEF IsChain, Nth
<1>7. Owned(Elements(<<>>), Elements(b), snode', rnode', allocated')
  <2>1. /\ {} \subseteq Nodes /\ {} \cap {} = {} /\ NULL \notin {}
        /\ \A x \in Nodes : ~(x \in {} \/ x \in {} \/ x = NULL
                                \/ \E s \in Senders : snode[s] = x)
    BY <1>1, Zenon DEF MailConst
  <2> QED
    BY <1>1, <1>4, <1>5, <2>1, Zenon DEF Owned
<1> QED
  BY <1>1, <1>3, <1>5, <1>6, <1>7, Zenon DEF Lists

-----------------------------------------------------------------------------
(* The invariant *)

(* LpelMailboxCreate(): both lists are empty. *)
LEMMA InitIInv ==
  ASSUME MailConst, Init
  PROVE  IInv /\ Lists(<<>>, <<>>)
<1> USE DEF Init, LpelMailboxCreate
<1>1. TypeInv
  BY DEF TypeInv, MailConst
<1>2. PcInv
  BY Zenon DEF PcInv
<1>3. Elements(<<>>) = {}
  BY DEF Elements
<1>4. Owned({}, {}, snode, rnode, allocated)
  BY Zenon DEF Owned, MailConst
<1>5. IsChain(<<>>, next, list_free, NULL) /\ IsInbox(<<>>, next, list_inbox)
  BY DEF IsChain, IsInbox, Nth
<1>6. Lists(<<>>, <<>>)
  BY <1>3, <1>4, <1>5, Zenon DEF Lists
<1> QED
  BY <1>1, <1>2, <1>6, Zenon DEF IInv

(* A step of a sender keeps the types and what the threads hold. *)
LEMMA SendTypes ==
  ASSUME MailConst, TypeInv, PcInv, NEW f, NEW b, Lists(f, b), NEW s \in Senders, Send(s)
  PROVE  TypeInv' /\ PcInv'
<1>1. CASE GetFree(s)
  <2>1. /\ spc[s] = "idle" /\ sent[s] < MaxSend /\ spc' = [spc EXCEPT ![s] = "fill"]
        /\ sent' = [sent EXCEPT ![s] = @ + 1]
        /\ UNCHANGED <<list_inbox, next, msg, rpc, rnode, rmsg>>
    BY <1>1, Zenon DEF GetFree, recvVars
  <2>2. PICK n \in Nodes : /\ snode' = [snode EXCEPT ![s] = n]
                           /\ list_free' \in Nodes \cup {NULL}
                           /\ allocated' \subseteq Nodes
    BY <1>1, Zenon DEF GetFree, TypeInv
  <2>3. sent[s] + 1 \in 0 .. MaxSend /\ sent[s] + 1 # 0
    BY <2>1 DEF TypeInv, MailConst
  <2>4. TypeInv'
    BY <2>1, <2>2, <2>3, Zenon DEF TypeInv
  <2>5. rpc # "destroyed"
    BY <2>1 DEF PcInv, MailConst
  <2>6. n # NULL
    BY Zenon DEF MailConst
  <2>7. \A r \in Senders : /\ spc'[r] = IF r = s THEN "fill" ELSE spc[r]
                           /\ snode'[r] = IF r = s THEN n ELSE snode[r]
                           /\ sent'[r] = IF r = s THEN sent[s] + 1 ELSE sent[r]
    BY <2>1, <2>2, Zenon DEF TypeInv
  <2>8. \A r \in Senders : /\ spc'[r] = "idle" <=> snode'[r] = NULL
                           /\ spc'[r] # "idle" => sent'[r] # 0
                           /\ spc'[r] = "insert" => msg'[snode'[r]] = <<r, sent'[r]>>
    <3>1. TAKE r \in Senders
    <3>2. CASE r = s
      BY <2>3, <2>6, <2>7, <3>2, Zenon
    <3>3. CASE r # s
      <4>1. spc'[r] = spc[r] /\ snode'[r] = snode[r] /\ sent'[r] = sent[r] /\ msg' = msg
        BY <2>1, <2>7, <3>3, Zenon
      <4> QED
        BY <4>1, Zenon DEF PcInv
    <3> QED
      BY <3>2, <3>3, Zenon
  <2> QED
    BY <2>1, <2>4, <2>5, <2>8, Zenon DEF PcInv
<1>2. CASE CopyIn(s)
  <2>1. /\ spc[s] = "fill" /\ spc' = [spc EXCEPT ![s] = "insert"]
        /\ msg' = [msg EXCEPT ![snode[s]] = <<s, sent[s]>>]
        /\ UNCHANGED <<list_free, list_inbox, next, allocated, snode, sent, rpc, rnode>>
    BY <1>2, Zenon DEF CopyIn, recvVars
  <2>2. snode[s] \in Nodes /\ snode[s] # NULL /\ sent[s] \in 1 .. MaxSend
    BY <2>1 DEF TypeInv, PcInv, MailConst
  <2>3. TypeInv'
    BY <2>1, <2>2, Zenon DEF TypeInv, Messages
  <2>4. \A r \in Senders : r # s => snode[r] # snode[s]
    BY <2>2, Zenon DEF Lists, Owned
  <2>5. \A r \in Senders : spc'[r] = IF r = s THEN "insert" ELSE spc[r]
    BY <2>1, Zenon DEF TypeInv
  <2>6. msg'[snode[s]] = <<s, sent[s]>>
    BY <2>1, <2>2, Zenon DEF TypeInv
  <2>7. \A r \in Senders : r # s /\ snode[r] \in Nodes => msg'[snode[r]] = msg[snode[r]]
    BY <2>1, <2>2, <2>4, Zenon DEF TypeInv
  <2>8. \A r \in Senders : spc[r] = "insert" => snode[r] \in Nodes
    BY Zenon DEF TypeInv, PcInv
  <2>9. \A r \in Senders : /\ spc'[r] = "idle" <=> snode[r] = NULL
                           /\ spc'[r] # "idle" => sent[r] # 0
                           /\ spc'[r] = "insert" => msg'[snode[r]] = <<r, sent[r]>>
    BY <2>1, <2>2, <2>5, <2>6, <2>7, <2>8 DEF PcInv
  <2>10. rpc # "destroyed"
    BY <2>1, Zenon DEF PcInv
  <2> QED
    BY <2>1, <2>3, <2>9, <2>10, Zenon DEF PcInv
<1>3. CASE Insert(s)
  <2>1. /\ spc[s] = "insert" /\ spc' = [spc EXCEPT ![s] = "idle"]
        /\ snode' = [snode EXCEPT ![s] = NULL]
        /\ UNCHANGED <<list_free, msg, allocated, sent, rnode, rmsg>>
    BY <1>3, Zenon DEF Insert
  <2>2. rpc' = rpc \/ (rpc = "waiting" /\ rpc' = "recv")
    BY <1>3, Zenon DEF Insert, Signal
  <2>3. snode[s] \in Nodes
    BY <2>1, Zenon DEF TypeInv, PcInv
  <2>4. next' \in [Nodes -> Nodes \cup {NULL}] /\ list_inbox' \in Nodes
    BY <1>3, <2>3, Zenon DEF Insert, InsertLast, TypeInv
  <2>5. TypeInv'
    BY <2>1, <2>2, <2>4, Zenon DEF TypeInv
  <2>6. \A r \in Senders : /\ spc'[r] = IF r = s THEN "idle" ELSE spc[r]
                           /\ snode'[r] = IF r = s THEN NULL ELSE snode[r]
    BY <2>1, Zenon DEF TypeInv
  <2>7. \A r \in Senders : /\ spc'[r] = "idle" <=> snode'[r] = NULL
                           /\ spc'[r] # "idle" => sent'[r] # 0
                           /\ spc'[r] = "insert" => msg'[snode'[r]] = <<r, sent'[r]>>
    BY <2>1, <2>6 DEF PcInv
  <2>8. rpc # "destroyed"
    BY <2>1, Zenon DEF PcInv
  <2> QED
    BY <2>1, <2>2, <2>5, <2>7, <2>8, Zenon DEF PcInv
<1> QED
  BY <1>1, <1>2, <1>3, Zenon DEF Send

(* A step of the receiver keeps the types and what the threads hold. *)
LEMMA RecvTypes ==
  ASSUME MailConst, TypeInv, PcInv, NEW f, NEW b, Lists(f, b),
         \/ RecvCall \/ LpelMailboxHasIncoming \/ SpuriousWakeup
         \/ LpelMailboxRecv \/ LpelMailboxDestroy
  PROVE  TypeInv' /\ PcInv'
<1>1. CASE RecvCall \/ LpelMailboxHasIncoming \/ SpuriousWakeup \/ Wait
  <2>1. /\ UNCHANGED <<list_free, list_inbox, next, msg, allocated, rnode, spc, snode, sent>>
        /\ rpc' \in {"idle", "recv", "fetch", "waiting"}
        /\ rpc \in {"idle", "recv", "fetch", "waiting"}
    BY <1>1, Zenon DEF RecvCall, LpelMailboxHasIncoming, SpuriousWakeup, Wait, sendVars
  <2>2. TypeInv'
    BY <2>1, Zenon DEF TypeInv
  <2> QED
    BY <2>1, <2>2, Zenon DEF PcInv
<1>2. CASE Take
  <2>1. rnode' \in Nodes /\ rnode' # NULL
    BY <1>2, ListsTake, Zenon DEF MailConst
  <2>2. /\ UNCHANGED <<list_free, msg, allocated, spc, snode, sent>> /\ rpc' = "copy"
        /\ next' \in [Nodes -> Nodes \cup {NULL}] /\ list_inbox' \in Nodes \cup {NULL}
    BY <1>2, <2>1, Zenon DEF Take, Unlink, TypeInv, sendVars
  <2>3. TypeInv'
    BY <2>1, <2>2, Zenon DEF TypeInv
  <2> QED
    BY <2>1, <2>2, <2>3, Zenon DEF PcInv
<1>3. CASE CopyOut
  <2>1. /\ UNCHANGED <<list_free, list_inbox, next, msg, allocated, rnode, spc, snode, sent>>
        /\ rpc = "copy" /\ rpc' = "putfree"
    BY <1>3, Zenon DEF CopyOut, sendVars
  <2>2. TypeInv'
    BY <2>1, Zenon DEF TypeInv
  <2> QED
    BY <2>1, <2>2, Zenon DEF PcInv
<1>4. CASE PutFree
  <2>1. /\ UNCHANGED <<list_inbox, msg, allocated, spc, snode, sent>>
        /\ list_free' = rnode /\ rnode' = NULL /\ rpc' = "idle"
        /\ next' \in [Nodes -> Nodes \cup {NULL}]
    BY <1>4, Zenon DEF PutFree, TypeInv, sendVars
  <2>2. TypeInv'
    BY <2>1, Zenon DEF TypeInv
  <2> QED
    BY <2>1, <2>2, Zenon DEF PcInv
<1>5. CASE LpelMailboxDestroy
  <2>1. allocated' = {}
    BY <1>5, ListsDestroy, Zenon
  <2>2. /\ UNCHANGED <<list_inbox, next, msg, rnode, spc, snode, sent>>
        /\ list_free' = NULL /\ rpc' = "destroyed" /\ rpc = "idle"
        /\ \A s \in Senders : spc[s] = "idle" /\ sent[s] = MaxSend
    BY <1>5, Zenon DEF LpelMailboxDestroy, sendVars
  <2>3. TypeInv'
    BY <2>1, <2>2, Zenon DEF TypeInv
  <2> QED
    BY <2>1, <2>2, <2>3, Zenon DEF PcInv
<1> QED
  BY <1>1, <1>2, <1>3, <1>4, <1>5, Zenon DEF LpelMailboxRecv

(* A step of the receiver keeps the lists; only Take changes the inbox. *)
LEMMA RecvLists ==
  ASSUME MailConst, TypeInv, PcInv, NEW f, NEW b, Lists(f, b),
         \/ RecvCall \/ LpelMailboxHasIncoming \/ SpuriousWakeup
         \/ Wait \/ CopyOut \/ PutFree \/ LpelMailboxDestroy
  PROVE  \E g : Lists(g, b)'
<1>1. CASE \/ RecvCall \/ LpelMailboxHasIncoming \/ SpuriousWakeup
           \/ Wait \/ CopyOut
  <2>1. UNCHANGED <<list_free, list_inbox, next, allocated, snode, rnode>>
    BY <1>1, Zenon DEF RecvCall, LpelMailboxHasIncoming, SpuriousWakeup, Wait, CopyOut, sendVars
  <2> QED
    BY <2>1, ListsSame, Zenon
<1>2. CASE PutFree
  BY <1>2, ListsPutFree, Zenon
<1>3. CASE LpelMailboxDestroy
  BY <1>3, ListsDestroy, Zenon
<1> QED
  BY <1>1, <1>2, <1>3, Zenon

(* Every step keeps the invariant. *)
LEMMA StepIInv ==
  ASSUME MailConst, IInv, [Next]_vars
  PROVE  IInv'
<1>1. PICK f, b : Lists(f, b)
  BY Zenon DEF IInv
<1> USE DEF IInv
<1>2. ASSUME NEW s \in Senders, Send(s) PROVE IInv'
  <2>1. TypeInv' /\ PcInv'
    BY <1>1, <1>2, SendTypes, Zenon
  <2>2. CASE GetFree(s)
    BY <1>1, <2>1, <2>2, ListsGetFree, Zenon
  <2>3. CASE CopyIn(s)
    <3>1. UNCHANGED <<list_free, list_inbox, next, allocated, snode, rnode>>
      BY <2>3, Zenon DEF CopyIn, recvVars
    <3> QED
      BY <1>1, <2>1, <3>1, ListsSame, Zenon
  <2>4. CASE Insert(s)
    <3>1. PICK n : n = snode[s]
      BY Zenon
    <3>2. PICK c : c = After(b, n)
      BY Zenon
    <3>3. Lists(f, c)'
      BY <1>1, <2>4, <3>1, <3>2, ListsInsert, Zenon
    <3> QED
      BY <2>1, <3>3, Zenon
  <2> QED
    BY <1>2, <2>2, <2>3, <2>4, Zenon DEF Send
<1>3. CASE Take
  <2>1. TypeInv' /\ PcInv'
    BY <1>1, <1>3, RecvTypes, Zenon DEF LpelMailboxRecv
  <2>2. PICK c : c = Rest(b)
    BY Zenon
  <2>3. Lists(f, c)'
    BY <1>1, <1>3, <2>2, ListsTake, Zenon
  <2> QED
    BY <2>1, <2>3, Zenon
<1>4. CASE \/ RecvCall \/ LpelMailboxHasIncoming \/ SpuriousWakeup
           \/ Wait \/ CopyOut \/ PutFree \/ LpelMailboxDestroy
  <2>1. TypeInv' /\ PcInv'
    BY <1>1, <1>4, RecvTypes, Zenon DEF LpelMailboxRecv
  <2>2. \E g : Lists(g, b)'
    BY <1>1, <1>4, RecvLists, Zenon
  <2> QED
    BY <2>1, <2>2, Zenon
<1>5. CASE UNCHANGED vars
  <2>1. TypeInv' /\ PcInv'
    BY <1>5, Zenon DEF TypeInv, PcInv, vars
  <2>2. Lists(f, b)'
    BY <1>1, <1>5, ListsSame, Zenon DEF vars
  <2> QED
    BY <2>1, <2>2, Zenon
<1> QED
  BY <1>2, <1>3, <1>4, <1>5, Zenon DEF Next, LpelMailboxRecv

(* Whatever the memory, the senders and the messages, every node of a        *)
(* mailbox has one owner, and none is left when the mailbox is destroyed.    *)
THEOREM Ownership == MailConst => (Spec => []NodeOwnership)
<1> SUFFICES ASSUME MailConst PROVE Spec => []NodeOwnership
  BY Zenon
<1>1. Init => IInv
  BY InitIInv, Zenon
<1>2. IInv /\ [Next]_vars => IInv'
  BY StepIInv, Zenon
<1>3. IInv => NodeOwnership
  BY IInvOwnership, Zenon
<1> QED
  BY <1>1, <1>2, <1>3, PTL DEF Spec

-----------------------------------------------------------------------------
(* Refinement *)

(* A message behind the last. *)
LEMMA ContentsAfter ==
  ASSUME NEW M, NEW ms \in [Nodes -> M], NEW q \in Seq(Nodes), NEW n \in Nodes
  PROVE  Contents(After(q, n), ms) = Append(Contents(q, ms), ms[n])
<1> DEFINE c == Contents(q, ms)
           d == Append(c, ms[n])
           e == Contents(After(q, n), ms)
<1>1. /\ Len(q) \in Nat /\ DOMAIN q = 1 .. Len(q)
      /\ \A i \in 1 .. Len(q) : q[i] \in Nodes
  OBVIOUS
<1>2. /\ c \in [1 .. Len(q) -> M] /\ \A i \in 1 .. Len(q) : c[i] = ms[q[i]]
  BY <1>1, Zenon DEF Contents
<1> HIDE DEF c
<1>3. c \in Seq(M) /\ Len(c) = Len(q) /\ ms[n] \in M
  BY <1>1, <1>2
<1>4. /\ d \in Seq(M) /\ Len(d) = Len(q) + 1 /\ DOMAIN d = 1 .. Len(q) + 1
      /\ \A i \in 1 .. Len(q) : d[i] = c[i]
      /\ d[Len(q) + 1] = ms[n]
  BY <1>1, <1>3
<1>5. /\ DOMAIN After(q, n) = 1 .. Len(q) + 1
      /\ \A i \in 1 .. Len(q) : After(q, n)[i] = q[i]
      /\ After(q, n)[Len(q) + 1] = n
  BY <1>1 DEF After
<1>6. e = [i \in 1 .. Len(q) + 1 |-> ms[After(q, n)[i]]]
  BY <1>5, Zenon DEF Contents
<1> HIDE DEF d, e
<1>7. \A i \in 1 .. Len(q) + 1 : e[i] = d[i]
  <2>1. TAKE i \in 1 .. Len(q) + 1
  <2>2. CASE i \in 1 .. Len(q)
    BY <1>2, <1>4, <1>5, <1>6, <2>2, Zenon
  <2>3. CASE i = Len(q) + 1
    BY <1>1, <1>4, <1>5, <1>6, <2>3, Zenon
  <2> QED
    BY <1>1, <2>2, <2>3
<1>8. d = [i \in 1 .. Len(q) + 1 |-> d[i]]
  BY <1>4
<1>9. e = d
  BY <1>6, <1>7, <1>8, Zenon
<1> QED
  BY <1>9, Zenon DEF c, d, e

(* The messages without the first. *)
LEMMA ContentsRest ==
  ASSUME NEW M, NEW ms \in [Nodes -> M], NEW q \in Seq(Nodes), Len(q) > 0
  PROVE  /\ Contents(Rest(q), ms) = Tail(Contents(q, ms))
         /\ Contents(q, ms) # <<>> /\ Head(Contents(q, ms)) = ms[q[1]]
<1> DEFINE c == Contents(q, ms)
           d == Tail(c)
           e == Contents(Rest(q), ms)
<1>1. /\ Len(q) \in Nat /\ DOMAIN q = 1 .. Len(q) /\ Len(q) # 0
      /\ \A i \in 1 .. Len(q) : q[i] \in Nodes
  OBVIOUS
<1>2. /\ c \in [1 .. Len(q) -> M] /\ \A i \in 1 .. Len(q) : c[i] = ms[q[i]]
  BY <1>1, Zenon DEF Contents
<1> HIDE DEF c
<1>3. c \in Seq(M) /\ Len(c) = Len(q) /\ c # <<>> /\ Head(c) = ms[q[1]]
  BY <1>1, <1>2
<1>4. /\ d \in Seq(M) /\ Len(d) = Len(q) - 1 /\ DOMAIN d = 1 .. Len(q) - 1
      /\ \A i \in 1 .. Len(q) - 1 : d[i] = c[i + 1]
  BY <1>1, <1>3
<1>5. /\ DOMAIN Rest(q) = 1 .. Len(q) - 1
      /\ \A i \in 1 .. Len(q) - 1 : Rest(q)[i] = q[i + 1]
  BY <1>1, Zenon DEF Rest
<1>6. e = [i \in 1 .. Len(q) - 1 |-> ms[Rest(q)[i]]]
  BY <1>5, Zenon DEF Contents
<1> HIDE DEF d, e
<1>7. \A i \in 1 .. Len(q) - 1 : e[i] = d[i]
  BY <1>1, <1>2, <1>4, <1>5, <1>6
<1>8. d = [i \in 1 .. Len(q) - 1 |-> d[i]]
  BY <1>4
<1>9. e = d
  BY <1>6, <1>7, <1>8, Zenon
<1> QED
  BY <1>3, <1>9, Zenon DEF c, d, e

(* The receiver's message, whether it has been copied or not *)
Delivered == IF rpc = "copy" THEN <<msg[rnode]>> ELSE rmsg

(* A step that keeps the inbox, its messages and the receiver's stutters. *)
LEMMA Stutters ==
  ASSUME MailConst, NEW f, NEW b, Lists(f, b), NEW g, Lists(g, b)',
         \A x \in Elements(b) : msg'[x] = msg[x], Delivered' = Delivered
  PROVE  UNCHANGED Abstract!vars
<1>1. InboxChain = b /\ InboxChain' = b
  BY ListsAre, ListsAreNext, Zenon
<1>2. \A i \in DOMAIN b : msg'[b[i]] = msg[b[i]]
  BY Zenon DEF Elements
<1>3. Contents(b, msg') = Contents(b, msg)
  BY <1>2, Zenon DEF Contents
<1>4. Contents(InboxChain', msg') = Contents(InboxChain, msg)
  BY <1>1, <1>3, Zenon
<1> QED
  BY <1>4, Zenon DEF Abstract!vars, Delivered

(* LpelMailboxSend(): a step of a sender sends a message or stutters. *)
LEMMA SendRefines ==
  ASSUME MailConst, IInv, NEW s \in Senders, Send(s)
  PROVE  Abstract!Next \/ UNCHANGED Abstract!vars
<1>1. PICK f, b : Lists(f, b)
  BY Zenon DEF IInv
<1>2. TypeInv /\ PcInv
  BY Zenon DEF IInv
<1>3. CASE GetFree(s)
  <2>1. PICK g : Lists(g, b)'
    BY <1>1, <1>2, <1>3, ListsGetFree, Zenon
  <2>2. msg' = msg /\ rpc' = rpc /\ rnode' = rnode /\ rmsg' = rmsg
    BY <1>3, Zenon DEF GetFree, recvVars
  <2>3. Delivered' = Delivered
    BY <2>2, Zenon DEF Delivered
  <2> QED
    BY <1>1, <2>1, <2>2, <2>3, Stutters, Zenon
<1>4. CASE CopyIn(s)
  <2>1. /\ msg' = [msg EXCEPT ![snode[s]] = <<s, sent[s]>>]
        /\ rpc' = rpc /\ rnode' = rnode /\ rmsg' = rmsg
        /\ UNCHANGED <<list_free, list_inbox, next, allocated, snode, rnode>>
    BY <1>4, Zenon DEF CopyIn, recvVars
  <2>2. Lists(f, b)'
    BY <1>1, <2>1, ListsSame, Zenon
  <2>3. snode[s] # NULL
    BY <1>2, <1>4, Zenon DEF CopyIn, PcInv
  <2>4. Elements(b) \subseteq Nodes /\ snode[s] \notin Elements(b) /\ snode[s] # rnode
    BY <1>1, <2>3, Zenon DEF Lists, Owned
  <2>5. \A x \in Nodes : x # snode[s] => msg'[x] = msg[x]
    BY <1>2, <2>1, Zenon DEF TypeInv
  <2>6. \A x \in Elements(b) : msg'[x] = msg[x]
    BY <2>4, <2>5, Zenon
  <2>7. rpc = "copy" => msg'[rnode] = msg[rnode]
    BY <1>2, <2>4, <2>5, Zenon DEF TypeInv, PcInv
  <2>8. Delivered' = Delivered
    BY <2>1, <2>7 DEF Delivered
  <2> QED
    BY <1>1, <2>2, <2>6, <2>8, Stutters, Zenon
<1>5. CASE Insert(s)
  <2>1. PICK n : n = snode[s]
    BY Zenon
  <2>2. PICK c : c = After(b, n)
    BY Zenon
  <2>3. Lists(f, c)' /\ n \in Nodes
    BY <1>1, <1>2, <1>5, <2>1, <2>2, ListsInsert, ZenonT(30)
  <2>4. InboxChain = b /\ InboxChain' = c
    BY <1>1, <2>3, ListsAre, ListsAreNext, ZenonT(30)
  <2>5. /\ msg' = msg /\ rnode' = rnode /\ rmsg' = rmsg
        /\ rpc' = "copy" <=> rpc = "copy"
        /\ msg[n] = <<s, sent[s]>> /\ sent[s] \in 1 .. MaxSend
    BY <1>2, <1>5, <2>1 DEF Insert, Signal, PcInv, TypeInv
  <2>6. b \in Seq(Nodes) /\ msg \in [Nodes -> Messages \cup {<<>>}]
    BY <1>1, <1>2, InboxType, Zenon DEF Lists, TypeInv
  <2>7. Contents(c, msg) = Append(Contents(b, msg), msg[n])
    BY <2>2, <2>3, <2>6, ContentsAfter, Zenon
  <2>8. Contents(InboxChain', msg') = Append(Contents(InboxChain, msg), msg[n])
    BY <2>4, <2>5, <2>7, Zenon
  <2>9. msg[n] \in Messages
    BY <2>5 DEF Messages
  <2>10. Delivered' = Delivered
    BY <2>5, Zenon DEF Delivered
  <2>11. Abstract!Send(msg[n])
    BY <2>8, <2>10, Zenon DEF Abstract!Send, Delivered
  <2> QED
    BY <2>9, <2>11, Zenon DEF Abstract!Next
<1> QED
  BY <1>3, <1>4, <1>5, Zenon DEF Send

(* LpelMailboxRecv(): the message at the head is received when its node is   *)
(* unlinked; every other step of the receiver stutters.                      *)
LEMMA RecvRefines ==
  ASSUME MailConst, IInv,
         \/ RecvCall \/ LpelMailboxHasIncoming \/ SpuriousWakeup
         \/ LpelMailboxRecv \/ LpelMailboxDestroy
  PROVE  Abstract!Next \/ UNCHANGED Abstract!vars
<1>1. PICK f, b : Lists(f, b)
  BY Zenon DEF IInv
<1>2. TypeInv /\ PcInv
  BY Zenon DEF IInv
<1>3. CASE Take
  <2>1. PICK c : c = Rest(b)
    BY Zenon
  <2>2. Lists(f, c)' /\ Len(b) > 0 /\ rnode' = b[1]
    BY <1>1, <1>2, <1>3, <2>1, ListsTake, Zenon
  <2>3. InboxChain = b /\ InboxChain' = c
    BY <1>1, <2>2, ListsAre, ListsAreNext, Zenon
  <2>4. msg' = msg /\ rpc' = "copy"
    BY <1>3, Zenon DEF Take
  <2>5. b \in Seq(Nodes) /\ msg \in [Nodes -> Messages \cup {<<>>}]
    BY <1>1, <1>2, InboxType, Zenon DEF Lists, TypeInv
  <2>6. /\ Contents(c, msg) = Tail(Contents(b, msg))
        /\ Contents(b, msg) # <<>> /\ Head(Contents(b, msg)) = msg[b[1]]
    BY <2>1, <2>2, <2>5, ContentsRest, Zenon
  <2>7. /\ Contents(InboxChain', msg') = Tail(Contents(InboxChain, msg))
        /\ Contents(InboxChain, msg) # <<>>
    BY <2>3, <2>4, <2>6, Zenon
  <2>8. Delivered' = <<Head(Contents(InboxChain, msg))>>
    BY <2>2, <2>3, <2>4, <2>6, Zenon DEF Delivered
  <2> QED
    BY <2>7, <2>8, Zenon DEF Abstract!Next, Abstract!Recv, Delivered
<1>4. CASE \/ RecvCall \/ LpelMailboxHasIncoming \/ SpuriousWakeup
           \/ Wait \/ CopyOut \/ PutFree \/ LpelMailboxDestroy
  <2>1. PICK g : Lists(g, b)'
    BY <1>1, <1>2, <1>4, RecvLists, Zenon
  <2>2. msg' = msg
    BY <1>4, Zenon DEF RecvCall, LpelMailboxHasIncoming, SpuriousWakeup, Wait, CopyOut, PutFree,
       LpelMailboxDestroy
  <2>3. Delivered' = Delivered
    BY <1>4, Zenon DEF RecvCall, LpelMailboxHasIncoming, SpuriousWakeup, Wait, CopyOut, PutFree,
       LpelMailboxDestroy, Delivered
  <2> QED
    BY <1>1, <2>1, <2>2, <2>3, Stutters, Zenon
<1> QED
  BY <1>3, <1>4, Zenon DEF LpelMailboxRecv

(* The two linked lists implement a FIFO queue: what a mailbox delivers are  *)
(* the messages sent, each once, unchanged, in the order of the insertions.  *)
THEOREM QueueRefinement == MailConst => (Spec => ImplementsQueue)
<1> SUFFICES ASSUME MailConst PROVE Spec => ImplementsQueue
  BY Zenon
<1>1. Init => IInv /\ Abstract!Init
  <2> SUFFICES ASSUME Init PROVE IInv /\ Abstract!Init
    BY Zenon
  <2>1. IInv /\ Lists(<<>>, <<>>)
    BY InitIInv, Zenon
  <2>2. InboxChain = <<>>
    BY <2>1, ListsAre, Zenon
  <2>3. Contents(InboxChain, msg) = <<>>
    BY <2>2 DEF Contents
  <2>4. Delivered = <<>>
    BY Zenon DEF Init, Delivered
  <2> QED
    BY <2>1, <2>3, <2>4, Zenon DEF Abstract!Init, Delivered
<1>2. IInv /\ [Next]_vars => IInv'
  BY StepIInv, Zenon
<1>3. IInv /\ [Next]_vars => [Abstract!Next]_(Abstract!vars)
  <2> SUFFICES ASSUME IInv, [Next]_vars PROVE Abstract!Next \/ UNCHANGED Abstract!vars
    BY Zenon
  <2>1. CASE UNCHANGED vars
    <3>1. PICK f, b : Lists(f, b)
      BY Zenon DEF IInv
    <3>2. Lists(f, b)'
      BY <2>1, <3>1, ListsSame, Zenon DEF vars
    <3>3. msg' = msg /\ Delivered' = Delivered
      BY <2>1, Zenon DEF vars, Delivered
    <3> QED
      BY <3>1, <3>2, <3>3, Stutters, Zenon
  <2> QED
    BY <2>1, SendRefines, RecvRefines, Zenon DEF Next
<1> QED
  BY <1>1, <1>2, <1>3, PTL DEF Spec, ImplementsQueue, Abstract!Spec

=============================================================================
