--------------------------- MODULE LockChainProofs --------------------------
(***************************************************************************)
(* lock.c keeps the promise of UserLock, for any users, threads, hash      *)
(* function and clock.  The argument: the nodes of a chain always form one *)
(* doubly linked list in which the held ones are neighbours; either first  *)
(* and last mark their two ends, or nothing is held and last is NULL, or   *)
(* first is a free node and every search faults.  Owners that release in   *)
(* time exclude each other, and the fault needs a collision.               *)
(***************************************************************************)
EXTENDS LockChain, TLAPS, WellFoundedInduction

(* Numbers. *)

\* A set of numbers that is not empty has a least element.
LEMMA LeastOf ==
  ASSUME NEW T, T \subseteq Nat, T # {}
  PROVE  \E x \in T : \A y \in T : x <= y
<1> DEFINE less == {p \in Nat \X Nat : p[1] < p[2]}
<1>1. IsWellFoundedOn(less, Nat)
  BY NatLessThanWellFounded DEF OpToRel
<1> HIDE DEF less
<1>2. PICK x \in T : \A y \in T : ~(<<y, x>> \in less)
  BY <1>1, WFMin
<1>3. ASSUME NEW y \in T PROVE x <= y
  <2>1. x \in Nat /\ y \in Nat
    OBVIOUS
  <2>2. ~(y < x)
    BY <1>2, <2>1 DEF less
  <2> QED
    BY <2>1, <2>2
<1> QED
  BY <1>3
-----------------------------------------------------------------------------
(* The shape of a chain. *)

NodeType == [user : User \cup {NoUser}, ltime : Nat, next : Nat, prev : Nat]
ChainType == [node : Seq(NodeType), first : Nat, last : Nat]

\* L is the order of the nodes: from node to node along next, and back along
\* prev.
Linked(c, L) ==
  LET N == Len(c.node) IN
  /\ L \in [1 .. N -> 1 .. N]
  /\ \A i, j \in 1 .. N : L[i] = L[j] => i = j
  /\ \A m \in 1 .. N : \E i \in 1 .. N : L[i] = m
  /\ \A i \in 1 .. N : c.node[L[i]].next = IF i = N THEN NULL ELSE L[i + 1]
  /\ \A i \in 1 .. N : c.node[L[i]].prev = IF i = 1 THEN NULL ELSE L[i - 1]

\* The held nodes are the ones at the positions s to k.
HeldAt(c, L, s, k) ==
  LET N == Len(c.node) IN
  /\ s \in 1 .. N + 1 /\ k \in 0 .. N
  /\ \A i \in 1 .. N : c.node[L[i]].user # NoUser <=> s <= i /\ i <= k

\* Nothing is held; or first and last are the ends of what is held; or first
\* is a free node.
Marked(c, L, s, k) ==
  \/ c.last = NULL /\ k < s
  \/ c.last # NULL /\ s <= k /\ c.first = L[s] /\ c.last = L[k]
  \/ c.last # NULL /\ c.node[c.first].user = NoUser /\ (s <= k => c.last = L[k])

Shape(c, L, s, k) == Linked(c, L) /\ HeldAt(c, L, s, k) /\ Marked(c, L, s, k)

\* Each user has one node at most.
Single(c) ==
  \A i, j \in DOMAIN c.node :
    c.node[i].user = c.node[j].user /\ c.node[i].user # NoUser => i = j

Sound(c) ==
  /\ c \in ChainType
  /\ Len(c.node) \in 1 .. MaxNodes
  /\ c.first \in 1 .. Len(c.node) /\ c.last \in 0 .. Len(c.node)
  /\ Single(c)
  /\ \E L, s, k : Shape(c, L, s, k)

\* The walk follows the list.
LEMMA WalkIs ==
  ASSUME NEW c, c \in ChainType, NEW L, Linked(c, L), NEW f \in 1 .. Len(c.node), c.first = L[f]
  PROVE  /\ DOMAIN Walk(c) = 0 .. Len(c.node)
         /\ \A i \in 0 .. Len(c.node) :
              Walk(c)[i] = IF f + i <= Len(c.node) THEN L[f + i] ELSE NULL
<1> DEFINE N == Len(c.node)
           Rec(h) == h = [i \in Nat |-> IF i = 0 THEN c.first
                            ELSE IF h[i - 1] = NULL THEN NULL ELSE c.node[h[i - 1]].next]
           w == [i \in Nat |-> IF f + i <= N THEN L[f + i] ELSE NULL]
           at == CHOOSE h : Rec(h)
<1>1. N \in Nat /\ \A i \in 1 .. N : L[i] \in 1 .. N /\ L[i] # NULL
  <2>1. N \in Nat
    <3>1. c.node \in Seq(NodeType)
      BY DEF ChainType
    <3> QED
      BY <3>1
  <2>2. L \in [1 .. N -> 1 .. N]
    BY DEF Linked
  <2> HIDE DEF N
  <2> QED
    BY <2>1, <2>2 DEF NULL
<1>2. \A i \in 1 .. N : c.node[L[i]].next = IF i = N THEN NULL ELSE L[i + 1]
  BY DEF Linked
<1> HIDE DEF N
<1>3. Rec(w)
  <2>1. ASSUME NEW i \in Nat
        PROVE  w[i] = IF i = 0 THEN c.first
                      ELSE IF w[i - 1] = NULL THEN NULL ELSE c.node[w[i - 1]].next
    <3>1. CASE i = 0
      BY <3>1, <1>1 DEF N
    <3>2. CASE i # 0 /\ f + i <= N
      <4>1. f + (i - 1) \in 1 .. N /\ i - 1 \in Nat /\ (f + (i - 1)) + 1 = f + i
            /\ f + (i - 1) # N
        BY <1>1, <3>2 DEF N
      <4>2. w[i - 1] = L[f + (i - 1)]
        BY <4>1, <1>1
      <4>3. w[i] = L[f + i]
        BY <3>2
      <4> QED
        BY <1>1, <1>2, <3>2, <4>1, <4>2, <4>3
    <3>3. CASE i # 0 /\ ~(f + i <= N)
      <4>1. w[i] = NULL /\ i - 1 \in Nat
        BY <3>3
      <4>2. CASE f + (i - 1) <= N
        <5>1. f + (i - 1) = N /\ N \in 1 .. N
          BY <1>1, <3>3, <4>2 DEF N
        <5>2. w[i - 1] = L[N]
          BY <4>1, <5>1
        <5> QED
          BY <1>1, <1>2, <3>3, <4>1, <5>1, <5>2
      <4>3. CASE ~(f + (i - 1) <= N)
        <5>1. w[i - 1] = NULL
          BY <4>1, <4>3
        <5> QED
          BY <3>3, <4>1, <5>1
      <4> QED
        BY <4>2, <4>3
    <3> QED
      BY <3>1, <3>2, <3>3
  <2> HIDE DEF w
  <2>2. w = [i \in Nat |-> w[i]]
    BY DEF w
  <2> QED
    BY <2>1, <2>2, Zenon
<1> HIDE DEF w
<1>4. Rec(at)
  BY <1>3
<1> HIDE DEF at
<1>5. at = w
  <2>1. at = [i \in Nat |-> at[i]] /\ w = [i \in Nat |-> w[i]]
    BY <1>3, <1>4
  <2>2. at[0] = w[0]
    BY <1>3, <1>4
  <2>3. ASSUME NEW i \in Nat, at[i] = w[i] PROVE at[i + 1] = w[i + 1]
    <3>1. i + 1 \in Nat /\ i + 1 # 0 /\ (i + 1) - 1 = i
      OBVIOUS
    <3>2. at[i + 1] = IF at[i] = NULL THEN NULL ELSE c.node[at[i]].next
      BY <1>4, <3>1
    <3>3. w[i + 1] = IF w[i] = NULL THEN NULL ELSE c.node[w[i]].next
      BY <1>3, <3>1
    <3> QED
      BY <2>3, <3>2, <3>3
  <2>4. \A i \in Nat : at[i] = w[i] => at[i + 1] = w[i + 1]
    BY <2>3
  <2> HIDE DEF Rec
  <2> DEFINE T == {i \in Nat : at[i] # w[i]}
  <2>5. ASSUME T # {} PROVE FALSE
    <3>1. PICK x \in T : \A y \in T : x <= y
      <4>1. T \subseteq Nat
        OBVIOUS
      <4> HIDE DEF T
      <4> QED
        BY <2>5, <4>1, LeastOf
    <3>2. x \in Nat /\ at[x] # w[x]
      OBVIOUS
    <3>3. x # 0 /\ x - 1 \in Nat /\ ~(x <= x - 1) /\ (x - 1) + 1 = x
      BY <2>2, <3>2
    <3>4. x - 1 \notin T
      BY <3>1, <3>3
    <3>5. at[x - 1] = w[x - 1]
      BY <3>3, <3>4
    <3> QED
      BY <2>4, <3>2, <3>3, <3>5
  <2>6. \A i \in Nat : at[i] = w[i]
    BY <2>5
  <2> QED
    BY <2>1, <2>6
<1>6. Walk(c) = [i \in 0 .. N |-> at[i]]
  BY Zenon DEF Walk, at, N
<1>7. DOMAIN Walk(c) = 0 .. N /\ \A i \in 0 .. N : Walk(c)[i] = w[i]
  BY <1>5, <1>6
<1>8. \A i \in 0 .. N : w[i] = IF f + i <= N THEN L[f + i] ELSE NULL
  BY <1>1 DEF w
<1> QED
  BY <1>7, <1>8, Zenon DEF N

\* What the shape of a chain says of its nodes.
LEMMA ShapeFacts ==
  ASSUME NEW c, Sound(c), NEW L, NEW s, NEW k, Shape(c, L, s, k)
  PROVE  LET N == Len(c.node) IN
         /\ N \in Nat /\ N >= 1 /\ DOMAIN c.node = 1 .. N
         /\ s \in 1 .. N + 1 /\ k \in 0 .. N
         /\ \A i \in 1 .. N : c.node[i] \in NodeType
         /\ \A i \in 1 .. N : L[i] \in 1 .. N
         /\ \A i, j \in 1 .. N : L[i] = L[j] => i = j
         /\ \A m \in 1 .. N : \E i \in 1 .. N : L[i] = m
         /\ \A i \in 1 .. N : c.node[L[i]].user # NoUser <=> s <= i /\ i <= k
<1>1. c.node \in Seq(NodeType)
  BY DEF Sound, ChainType
<1>2. Linked(c, L) /\ HeldAt(c, L, s, k)
  BY DEF Shape
<1>3. Len(c.node) \in Nat /\ Len(c.node) >= 1
  BY BoundAssumption DEF Sound
<1> DEFINE N == Len(c.node)
<1>4. L \in [1 .. N -> 1 .. N] /\ \A i, j \in 1 .. N : L[i] = L[j] => i = j
  BY <1>2 DEF Linked
<1>5. \A m \in 1 .. N : \E i \in 1 .. N : L[i] = m
  BY <1>2 DEF Linked
<1>6. s \in 1 .. N + 1 /\ k \in 0 .. N
      /\ \A i \in 1 .. N : c.node[L[i]].user # NoUser <=> s <= i /\ i <= k
  BY <1>2 DEF HeldAt
<1>7. DOMAIN c.node = 1 .. N /\ \A i \in 1 .. N : c.node[i] \in NodeType
  BY <1>1
<1> HIDE DEF N
<1> QED
  BY <1>3, <1>4, <1>5, <1>6, <1>7 DEF N

\* find_lock() finds the user's node, or a free node next to the held ones, or
\* faults; it reports no user as free who has a node.
LEMMA FindIs ==
  ASSUME NEW c, Sound(c), NEW u \in User, NEW L, NEW s, NEW k, Shape(c, L, s, k)
  PROVE  LET r == find_lock(c, u)
             N == Len(c.node)
         IN
         \/ r.how = "fault"
         \/ r.how = "held" /\ r.node \in 1 .. N /\ c.node[r.node].user = u
         \/ /\ r.how = "free"
            /\ \A i \in 1 .. N : c.node[i].user # u
            /\ \/ c.last = NULL /\ k < s /\ r.node = c.first
               \/ /\ c.last # NULL /\ s <= k /\ c.first = L[s] /\ c.last = L[k]
                  /\ r.node = IF k = N THEN NULL ELSE L[k + 1]
<1> DEFINE N == Len(c.node)
           r == find_lock(c, u)
<1>1. /\ N \in Nat /\ N >= 1 /\ s \in 1 .. N + 1 /\ k \in 0 .. N
      /\ \A i \in 1 .. N : L[i] \in 1 .. N
      /\ \A i, j \in 1 .. N : L[i] = L[j] => i = j
      /\ \A m \in 1 .. N : \E i \in 1 .. N : L[i] = m
      /\ \A i \in 1 .. N : c.node[L[i]].user # NoUser <=> s <= i /\ i <= k
  BY ShapeFacts
<1>2. u # NoUser /\ c \in ChainType /\ c.first \in 1 .. N /\ Linked(c, L) /\ Marked(c, L, s, k)
  BY UserAssumption DEF Sound, Shape
<1>3. \A i \in 1 .. N : c.node[L[i]].next = IF i = N THEN NULL ELSE L[i + 1]
  BY <1>2 DEF Linked
<1>4. PICK f \in 1 .. N : L[f] = c.first
  BY <1>1, <1>2
<1>5. /\ DOMAIN Walk(c) = 0 .. N
      /\ \A i \in 0 .. N : Walk(c)[i] = IF f + i <= N THEN L[f + i] ELSE NULL
  BY <1>2, <1>4, WalkIs
<1> DEFINE Stop(n) == n = NULL \/ n = c.last \/ c.node[n].user \in {u, NoUser}
           S == Stops(c, u)
<1>6. S = {i \in 0 .. N : Stop(Walk(c)[i])}
  BY <1>5 DEF Stops
<1> HIDE DEF N, S
<1>7. CASE c.last = NULL
  <2>1. r.how = "free" /\ r.node = c.first
    BY <1>7 DEF find_lock, NotFound
  <2>2. k < s
    BY <1>2, <1>7 DEF Marked
  <2>3. \A i \in 1 .. N : c.node[L[i]].user = NoUser
    BY <1>1, <2>2
  <2>4. \A m \in 1 .. N : c.node[m].user = NoUser
    BY <1>1, <2>3
  <2> QED
    BY <1>2, <1>7, <2>1, <2>2, <2>4 DEF N
<1>8. CASE c.last # NULL
  <2> DEFINE m == CHOOSE i \in S : \A j \in S : i <= j
             n == Walk(c)[m]
  <2>1. CASE S = {}
    <3>1. r.how = "fault"
      BY <1>8, <2>1 DEF find_lock, Fault, S
    <3> QED
      BY <3>1
  <2>2. CASE S # {}
    <3>1. m \in S /\ \A j \in S : m <= j
      <4>1. S \subseteq Nat
        BY <1>1, <1>6
      <4>2. \E i \in S : \A j \in S : i <= j
        BY <2>2, <4>1, LeastOf
      <4> QED
        BY <4>2
    <3>2. r = IF n = NULL \/ c.node[n].user = NoUser THEN Fault
              ELSE IF c.node[n].user = u THEN Found(n)
              ELSE NotFound(c.node[n].next)
      BY <1>8, <2>2 DEF find_lock, S
    <3> HIDE DEF m
    <3>3. m \in 0 .. N /\ Stop(n)
      BY <1>6, <3>1
    <3>4. n = IF f + m <= N THEN L[f + m] ELSE NULL
      BY <1>5, <3>3
    <3>5. CASE n = NULL \/ c.node[n].user = NoUser
      BY <3>2, <3>5 DEF Fault
    <3>6. CASE ~(n = NULL \/ c.node[n].user = NoUser) /\ c.node[n].user = u
      <4>1. n \in 1 .. N
        BY <1>1, <1>4, <3>3, <3>4, <3>6
      <4> QED
        BY <3>2, <3>6, <4>1 DEF Found, N
    <3>7. CASE ~(n = NULL \/ c.node[n].user = NoUser) /\ c.node[n].user # u
      <4>1. n = c.last /\ r = NotFound(c.node[n].next)
        BY <3>2, <3>3, <3>7
      <4>2. f + m \in 1 .. N /\ n = L[f + m]
        BY <1>1, <1>4, <3>3, <3>4, <3>7
      <4>3. s <= f + m /\ f + m <= k
        BY <1>1, <3>7, <4>2
      <4>4. s <= k /\ s \in 1 .. N /\ k \in 1 .. N
        BY <1>1, <1>4, <3>3, <4>3
      <4>5. c.node[c.first].user # NoUser
        <5> SUFFICES ASSUME c.node[c.first].user = NoUser PROVE FALSE
          OBVIOUS
        <5>1. 0 \in S
          <6>1. Walk(c)[0] = c.first /\ 0 \in 0 .. N
            BY <1>1, <1>4, <1>5
          <6> QED
            BY <1>6, <6>1
        <5>2. m = 0
          BY <3>1, <3>3, <5>1
        <5>3. n = c.first
          BY <1>1, <1>4, <4>2, <5>2
        <5> QED
          BY <3>7, <5>3
      <4>6. c.first = L[s] /\ c.last = L[k]
        BY <1>2, <1>8, <4>4, <4>5 DEF Marked
      <4>7. f = s /\ f + m = k
        <5>1. \A i, j \in 1 .. N : L[i] = L[j] => i = j
          BY <1>1
        <5>2. f \in 1 .. N /\ L[f] = L[s] /\ L[f + m] = L[k]
          BY <1>4, <4>1, <4>2, <4>6
        <5> QED
          BY <4>2, <4>4, <5>1, <5>2, Zenon
      <4>8. \A i \in 1 .. N : c.node[i].user # u
        <5> SUFFICES ASSUME NEW j \in 1 .. N, c.node[L[j]].user = u PROVE FALSE
          BY <1>1
        <5>1. s <= j /\ j <= k
          BY <1>1, <1>2
        <5>2. j - s \in 0 .. N /\ s + (j - s) = j /\ f + (j - s) <= N
          BY <1>1, <4>7, <5>1
        <5>3. Walk(c)[j - s] = L[j]
          BY <1>5, <4>7, <5>2
        <5>4. j - s \in S
          BY <1>6, <5>2, <5>3
        <5>5. m <= j - s
          BY <3>1, <5>4
        <5>6. j = k
          BY <1>1, <3>3, <4>4, <4>7, <5>1, <5>5
        <5> QED
          BY <3>7, <4>2, <4>7, <5>6
      <4>9. r.how = "free" /\ r.node = IF k = N THEN NULL ELSE L[k + 1]
        BY <1>3, <4>1, <4>4, <4>6 DEF NotFound
      <4> QED
        BY <1>8, <4>4, <4>6, <4>8, <4>9 DEF N
    <3> QED
      BY <3>5, <3>6, <3>7
  <2> QED
    BY <2>1, <2>2
<1> QED
  BY <1>7, <1>8
-----------------------------------------------------------------------------
(* lock_get() *)

\* An expired lock is taken over: the list is the same.
LEMMA RelockSound ==
  ASSUME NEW c, Sound(c), NEW n \in 1 .. Len(c.node), NEW t \in Nat
  PROVE  LET d == [c EXCEPT !.node[n].ltime = t] IN
         /\ Sound(d) /\ Len(d.node) = Len(c.node)
         /\ \A i \in 1 .. Len(c.node) :
              /\ d.node[i].user = c.node[i].user
              /\ d.node[i].ltime = IF i = n THEN t ELSE c.node[i].ltime
<1> DEFINE d == [c EXCEPT !.node[n].ltime = t]
           N == Len(c.node)
<1>1. c \in ChainType /\ c.node \in Seq(NodeType) /\ N \in Nat /\ DOMAIN c.node = 1 .. N
  BY DEF Sound, ChainType
<1>2. d.first = c.first /\ d.last = c.last /\ d.node = [c.node EXCEPT ![n].ltime = t]
      /\ d = [node |-> d.node, first |-> d.first, last |-> d.last]
  <2> DEFINE y == [c.node EXCEPT ![n].ltime = t]
             e == [c EXCEPT !.node = y]
  <2>1. d = e
    OBVIOUS
  <2> HIDE DEF d, y
  <2>2. e = [node |-> y, first |-> c.first, last |-> c.last]
    BY <1>1 DEF ChainType
  <2> HIDE DEF e
  <2> QED
    BY <2>1, <2>2 DEF y
<1>3. \A i \in 1 .. N : d.node[i] = IF i = n THEN [c.node[n] EXCEPT !.ltime = t] ELSE c.node[i]
  BY <1>1, <1>2
<1>4. \A i \in 1 .. N : c.node[i] \in NodeType
  BY <1>1
<1>5. [c.node[n] EXCEPT !.ltime = t] \in NodeType
  BY <1>4 DEF NodeType
<1>6. d.node \in Seq(NodeType) /\ Len(d.node) = N /\ DOMAIN d.node = 1 .. N
  BY <1>1, <1>2, <1>5
<1>7. \A i \in 1 .. N : d.node[i].user = c.node[i].user /\ d.node[i].next = c.node[i].next
        /\ d.node[i].prev = c.node[i].prev
        /\ d.node[i].ltime = IF i = n THEN t ELSE c.node[i].ltime
  BY <1>3, <1>4 DEF NodeType
<1>8. d \in ChainType
  BY <1>1, <1>2, <1>6 DEF ChainType
<1>9. PICK L, s, k : Shape(c, L, s, k)
  BY DEF Sound
<1>10. \A i \in 1 .. N : L[i] \in 1 .. N
  BY <1>9, ShapeFacts
<1>11. c.first \in 1 .. N /\ c.last \in 0 .. N /\ N \in 1 .. MaxNodes /\ Single(c)
  BY DEF Sound
<1> HIDE DEF d, N
<1>12. Linked(d, L)
  <2>1. Linked(c, L)
    BY <1>9 DEF Shape
  <2>2. /\ L \in [1 .. N -> 1 .. N]
        /\ \A i, j \in 1 .. N : L[i] = L[j] => i = j
        /\ \A m \in 1 .. N : \E i \in 1 .. N : L[i] = m
    BY <2>1, Zenon DEF Linked, N
  <2>3. ASSUME NEW i \in 1 .. N
        PROVE  d.node[L[i]].next = (IF i = N THEN NULL ELSE L[i + 1])
               /\ d.node[L[i]].prev = (IF i = 1 THEN NULL ELSE L[i - 1])
    <3>1. c.node[L[i]].next = (IF i = N THEN NULL ELSE L[i + 1])
          /\ c.node[L[i]].prev = (IF i = 1 THEN NULL ELSE L[i - 1])
      BY <2>1, Zenon DEF Linked, N
    <3>2. d.node[L[i]].next = c.node[L[i]].next /\ d.node[L[i]].prev = c.node[L[i]].prev
      BY <1>7, <1>10, Zenon
    <3> QED
      BY <3>1, <3>2
  <2> QED
    BY <1>6, <2>2, <2>3, Zenon DEF Linked
<1>13. HeldAt(d, L, s, k)
  BY <1>6, <1>7, <1>9, <1>10 DEF Shape, HeldAt, N
<1>14. Marked(d, L, s, k)
  BY <1>2, <1>7, <1>9, <1>11 DEF Shape, Marked, N
<1>15. Single(d)
  BY <1>1, <1>6, <1>7, <1>11 DEF Single
<1>16. Sound(d)
  BY <1>2, <1>6, <1>8, <1>11, <1>12, <1>13, <1>14, <1>15 DEF Sound, Shape
<1> QED
  BY <1>6, <1>7, <1>16 DEF d, N

\* A free node becomes the last one held.
LEMMA ReuseSound ==
  ASSUME NEW c, Sound(c), NEW u \in User, \A i \in 1 .. Len(c.node) : c.node[i].user # u,
         NEW L, NEW s, NEW k, Shape(c, L, s, k), NEW n \in 1 .. Len(c.node), clock \in Nat,
         \/ c.last = NULL /\ k < s /\ n = c.first
         \/ /\ c.last # NULL /\ s <= k /\ c.first = L[s] /\ c.last = L[k]
            /\ k # Len(c.node) /\ n = L[k + 1]
  PROVE  LET d == Grab(c, u, n) IN
         /\ Sound(d) /\ Len(d.node) = Len(c.node) /\ c.node[n].user = NoUser
         /\ \A i \in 1 .. Len(c.node) :
              /\ d.node[i].user = IF i = n THEN u ELSE c.node[i].user
              /\ d.node[i].ltime = IF i = n THEN clock ELSE c.node[i].ltime
<1> DEFINE d == Grab(c, u, n)
           N == Len(c.node)
<1>1. c \in ChainType /\ c.node \in Seq(NodeType) /\ N \in Nat /\ DOMAIN c.node = 1 .. N
      /\ n # NULL
  BY DEF Sound, ChainType, NULL
<1>2. d = [c EXCEPT !.node[n].user = u, !.node[n].ltime = clock, !.last = n]
  BY <1>1 DEF Grab
<1>3. d.first = c.first /\ d.last = n
      /\ d.node = [c.node EXCEPT ![n] = [@ EXCEPT !.user = u, !.ltime = clock]]
      /\ d = [node |-> d.node, first |-> d.first, last |-> d.last]
  <2> DEFINE y == [c.node EXCEPT ![n].user = u, ![n].ltime = clock]
             z == [c.node EXCEPT ![n] = [@ EXCEPT !.user = u, !.ltime = clock]]
             e == [c EXCEPT !.node = y, !.last = n]
  <2>1. d = e
    BY <1>2
  <2>2. y = z
    BY <1>1
  <2> HIDE DEF d, y, z
  <2>3. e = [node |-> y, first |-> c.first, last |-> n]
    <3> DEFINE a == [c EXCEPT !.node = y]
    <3>1. a = [node |-> y, first |-> c.first, last |-> c.last]
      BY <1>1 DEF ChainType
    <3>2. e = [a EXCEPT !.last = n]
      OBVIOUS
    <3> HIDE DEF a, e
    <3> QED
      BY <3>1, <3>2
  <2> HIDE DEF e
  <2> QED
    BY <2>1, <2>2, <2>3 DEF z
<1>4. \A i \in 1 .. N : c.node[i] \in NodeType
  BY <1>1
<1>5. [c.node[n] EXCEPT !.user = u, !.ltime = clock] \in NodeType
  BY <1>4 DEF NodeType
<1>6. d.node \in Seq(NodeType) /\ Len(d.node) = N /\ DOMAIN d.node = 1 .. N
  BY <1>1, <1>3, <1>5
<1>7. \A i \in 1 .. N :
        d.node[i] = IF i = n THEN [c.node[n] EXCEPT !.user = u, !.ltime = clock] ELSE c.node[i]
  BY <1>1, <1>3
<1>8. \A i \in 1 .. N :
        /\ d.node[i].user = IF i = n THEN u ELSE c.node[i].user
        /\ d.node[i].ltime = IF i = n THEN clock ELSE c.node[i].ltime
        /\ d.node[i].next = c.node[i].next /\ d.node[i].prev = c.node[i].prev
  <2> SUFFICES ASSUME NEW i \in 1 .. N
               PROVE  /\ d.node[i].user = IF i = n THEN u ELSE c.node[i].user
                      /\ d.node[i].ltime = IF i = n THEN clock ELSE c.node[i].ltime
                      /\ d.node[i].next = c.node[i].next /\ d.node[i].prev = c.node[i].prev
    OBVIOUS
  <2> HIDE DEF d, N
  <2>1. CASE i = n
    <3>1. d.node[n] = [c.node[n] EXCEPT !.user = u, !.ltime = clock] /\ c.node[n] \in NodeType
      BY <1>4, <1>7, <2>1
    <3> QED
      BY <2>1, <3>1 DEF NodeType
  <2>2. CASE i # n
    BY <1>7, <2>2
  <2> QED
    BY <2>1, <2>2
<1>9. d \in ChainType
  BY <1>1, <1>3, <1>6 DEF ChainType
<1>10. N \in Nat /\ N >= 1 /\ s \in 1 .. N + 1 /\ k \in 0 .. N
  BY ShapeFacts
<1>11. c.first \in 1 .. N /\ N \in 1 .. MaxNodes /\ Single(c) /\ u # NoUser
  BY UserAssumption DEF Sound
<1>a. \A i \in 1 .. N : L[i] \in 1 .. N
  BY ShapeFacts
<1>b. \A i, j \in 1 .. N : L[i] = L[j] => i = j
  BY ShapeFacts
<1>c. \A m \in 1 .. N : \E i \in 1 .. N : L[i] = m
  BY ShapeFacts
<1>d. \A i \in 1 .. N : c.node[L[i]].user # NoUser <=> s <= i /\ i <= k
  BY ShapeFacts
<1> HIDE DEF d
<1>12. Linked(d, L)
  <2>1. Linked(c, L)
    BY DEF Shape
  <2>2. \A i \in 1 .. N : c.node[L[i]].next = (IF i = N THEN NULL ELSE L[i + 1])
                         /\ c.node[L[i]].prev = (IF i = 1 THEN NULL ELSE L[i - 1])
    BY <2>1 DEF Linked
  <2>3. L \in [1 .. N -> 1 .. N]
    BY <2>1 DEF Linked
  <2> HIDE DEF N
  <2>4. \A i \in 1 .. N : d.node[L[i]].next = (IF i = N THEN NULL ELSE L[i + 1])
                         /\ d.node[L[i]].prev = (IF i = 1 THEN NULL ELSE L[i - 1])
    <3> TAKE i \in 1 .. N
    <3>1. d.node[L[i]].next = c.node[L[i]].next /\ d.node[L[i]].prev = c.node[L[i]].prev
      BY <1>8, <1>a, Zenon
    <3>2. c.node[L[i]].next = (IF i = N THEN NULL ELSE L[i + 1])
          /\ c.node[L[i]].prev = (IF i = 1 THEN NULL ELSE L[i - 1])
      BY <2>2, Zenon
    <3> QED
      BY <3>1, <3>2
  <2> QED
    BY <1>6, <1>b, <1>c, <2>3, <2>4, Zenon DEF Linked
<1> HIDE DEF N
<1>13. Single(d)
  <2>1. \A i \in 1 .. N : c.node[i].user # u
    BY DEF N
  <2> QED
    BY <1>1, <1>6, <1>8, <1>11, <2>1 DEF Single
<1>14. PICK p \in 1 .. N : L[p] = n
  BY <1>c DEF N
<1>e. \A i \in 1 .. N : d.node[L[i]].user = IF i = p THEN u ELSE c.node[L[i]].user
  BY <1>8, <1>14, <1>a, <1>b
<1>15. CASE c.last = NULL /\ k < s /\ n = c.first
  <2>1. \A i \in 1 .. N : c.node[L[i]].user = NoUser
    <3>1. \A i \in 1 .. N : ~(s <= i /\ i <= k)
      BY <1>10, <1>15
    <3> QED
      BY <1>d, <3>1, Zenon
  <2>2. HeldAt(d, L, p, p)
    <3>1. \A i \in 1 .. N : d.node[L[i]].user # NoUser <=> i = p
      BY <1>e, <1>11, <2>1, Zenon
    <3>2. p \in 1 .. N + 1 /\ p \in 0 .. N /\ \A i \in 1 .. N : i = p <=> p <= i /\ i <= p
      BY <1>10, <1>14
    <3> QED
      BY <1>6, <3>1, <3>2 DEF HeldAt
  <2>3. Marked(d, L, p, p)
    BY <1>1, <1>3, <1>10, <1>14, <1>15 DEF Marked
  <2>4. Sound(d)
    <3>1. n \in 0 .. N
      BY DEF N
    <3>2. Shape(d, L, p, p)
      BY <1>12, <2>2, <2>3 DEF Shape
    <3>3. \E A, x, y : Shape(d, A, x, y)
      BY <3>2
    <3> QED
      BY <1>3, <1>6, <1>9, <1>11, <1>13, <3>1, <3>3 DEF Sound
  <2>5. c.node[n].user = NoUser
    BY <1>14, <2>1
  <2> QED
    BY <1>6, <1>8, <2>4, <2>5 DEF d, N
<1>16. CASE /\ c.last # NULL /\ s <= k /\ c.first = L[s] /\ c.last = L[k]
            /\ k # N /\ n = L[k + 1]
  <2>0. k + 1 \in 1 .. N /\ s <= k + 1 /\ ~(k + 1 <= k) /\ k + 1 \in 0 .. N
    BY <1>10, <1>16
  <2>1. p = k + 1
    BY <1>14, <1>16, <1>b, <2>0, Zenon
  <2>2. c.node[n].user = NoUser
    BY <1>d, <1>14, <2>0, <2>1, Zenon
  <2>3. HeldAt(d, L, s, k + 1)
    <3>1. ASSUME NEW i \in 1 .. N
          PROVE  d.node[L[i]].user # NoUser <=> s <= i /\ i <= k + 1
      <4>1. CASE i = k + 1
        <5>1. d.node[L[i]].user # NoUser
          BY <1>e, <1>11, <2>1, <4>1
        <5>2. s <= i /\ i <= k + 1
          BY <1>10, <2>0, <4>1
        <5> QED
          BY <5>1, <5>2
      <4>2. CASE i # k + 1
        <5>1. d.node[L[i]].user = c.node[L[i]].user
          BY <1>e, <2>1, <4>2
        <5>2. i <= k + 1 <=> i <= k
          BY <1>10, <4>2
        <5> QED
          BY <1>d, <5>1, <5>2, Zenon
      <4> QED
        BY <4>1, <4>2
    <3>2. s \in 1 .. N + 1
      BY <1>10
    <3> QED
      BY <1>6, <2>0, <3>1, <3>2 DEF HeldAt
  <2>4. Marked(d, L, s, k + 1)
    BY <1>1, <1>3, <1>16, <2>0 DEF Marked
  <2>5. n \in 0 .. N
    BY DEF N
  <2>6. Sound(d)
    <3>2. Shape(d, L, s, k + 1)
      BY <1>12, <2>3, <2>4 DEF Shape
    <3>3. \E A, x, y : Shape(d, A, x, y)
      BY <3>2
    <3> QED
      BY <1>3, <1>6, <1>9, <1>11, <1>13, <2>5, <3>3 DEF Sound
  <2> QED
    BY <1>6, <1>8, <2>2, <2>6 DEF d, N
<1> QED
  BY <1>15, <1>16 DEF N

\* A new node becomes the last one of the list and the last one held.
LEMMA AppendSound ==
  ASSUME NEW c, Sound(c), NEW u \in User, \A i \in 1 .. Len(c.node) : c.node[i].user # u,
         NEW L, NEW s, NEW k, Shape(c, L, s, k), clock \in Nat,
         c.last # NULL, s <= k, c.first = L[s], c.last = L[k], k = Len(c.node),
         Len(c.node) + 1 <= MaxNodes
  PROVE  LET d == Grab(c, u, NULL)
             K == Len(c.node) + 1
         IN
         /\ Sound(d) /\ Len(d.node) = K
         /\ \A i \in 1 .. K :
              /\ d.node[i].user = IF i = K THEN u ELSE c.node[i].user
              /\ d.node[i].ltime = IF i = K THEN clock ELSE c.node[i].ltime
<1> DEFINE d == Grab(c, u, NULL)
           N == Len(c.node)
           K == N + 1
           old == [c.node EXCEPT ![c.last].next = K]
           M == [i \in 1 .. K |-> IF i = K THEN K ELSE L[i]]
<1>1. c \in ChainType /\ c.node \in Seq(NodeType) /\ N \in Nat /\ DOMAIN c.node = 1 .. N
      /\ c.last \in 1 .. N /\ K \in Nat /\ K # NULL
  BY DEF Sound, ChainType, NULL
<1>2. d.first = c.first /\ d.last = K /\ d.node = Append(old, Node(u, clock, c.last))
      /\ d = [node |-> d.node, first |-> d.first, last |-> d.last]
  BY <1>1 DEF ChainType, Grab
<1>3. \A i \in 1 .. N : c.node[i] \in NodeType
  BY <1>1
<1>4. [c.node[c.last] EXCEPT !.next = K] \in NodeType
  BY <1>1, <1>3 DEF NodeType
<1>5. old \in Seq(NodeType) /\ Len(old) = N
      /\ \A i \in 1 .. N :
           old[i] = IF i = c.last THEN [c.node[c.last] EXCEPT !.next = K] ELSE c.node[i]
  BY <1>1, <1>4
<1>6. Node(u, clock, c.last) \in NodeType
  BY <1>1 DEF Node, NodeType, NULL
<1> HIDE DEF d, old
<1>7. d.node \in Seq(NodeType) /\ Len(d.node) = K /\ DOMAIN d.node = 1 .. K
      /\ \A i \in 1 .. K : d.node[i] = IF i = K THEN Node(u, clock, c.last) ELSE old[i]
  BY <1>2, <1>5, <1>6
<1>8. \A i \in 1 .. N :
        /\ d.node[i].user = c.node[i].user /\ d.node[i].ltime = c.node[i].ltime
        /\ d.node[i].next = IF i = c.last THEN K ELSE c.node[i].next
        /\ d.node[i].prev = c.node[i].prev
  <2>1. \A i \in 1 .. N : i \in 1 .. K /\ i # K
    BY <1>1
  <2>2. \A i \in 1 .. N :
           d.node[i] = IF i = c.last THEN [c.node[c.last] EXCEPT !.next = K] ELSE c.node[i]
    BY <1>5, <1>7, <2>1
  <2> SUFFICES ASSUME NEW i \in 1 .. N
               PROVE  /\ d.node[i].user = c.node[i].user /\ d.node[i].ltime = c.node[i].ltime
                      /\ d.node[i].next = IF i = c.last THEN K ELSE c.node[i].next
                      /\ d.node[i].prev = c.node[i].prev
    OBVIOUS
  <2> HIDE DEF N, K
  <2>3. CASE i = c.last
    <3>1. d.node[i] = [c.node[i] EXCEPT !.next = K] /\ c.node[i] \in NodeType
      BY <1>3, <2>2, <2>3
    <3> QED
      BY <2>3, <3>1 DEF NodeType
  <2>4. CASE i # c.last
    BY <2>2, <2>4
  <2> QED
    BY <2>3, <2>4
<1>9. /\ d.node[K].user = u /\ d.node[K].ltime = clock
      /\ d.node[K].next = NULL /\ d.node[K].prev = c.last
  <2>1. K \in 1 .. K
    BY <1>1
  <2>2. d.node[K] = Node(u, clock, c.last)
    BY <1>7, <2>1
  <2> QED
    BY <2>2 DEF Node
<1>10. d \in ChainType
  BY <1>1, <1>2, <1>7 DEF ChainType
<1>11. N >= 1 /\ s \in 1 .. N + 1 /\ k = N /\ s \in 1 .. N
  BY <1>1, ShapeFacts
<1>a. \A i \in 1 .. N : L[i] \in 1 .. N
  BY ShapeFacts
<1>b. \A i, j \in 1 .. N : L[i] = L[j] => i = j
  BY ShapeFacts
<1>c. \A m \in 1 .. N : \E i \in 1 .. N : L[i] = m
  BY ShapeFacts
<1>d. \A i \in 1 .. N : c.node[L[i]].user # NoUser <=> s <= i /\ i <= k
  BY DEF Shape, HeldAt
<1>e. \A i \in 1 .. N : c.node[L[i]].next = (IF i = N THEN NULL ELSE L[i + 1])
                     /\ c.node[L[i]].prev = (IF i = 1 THEN NULL ELSE L[i - 1])
  BY DEF Shape, Linked
<1>f. Single(c) /\ u # NoUser /\ c.first \in 1 .. N /\ K \in 1 .. MaxNodes
      /\ \A i \in 1 .. N : c.node[i].user # u
  BY <1>1, UserAssumption, BoundAssumption DEF Sound
<1>g. c.last = L[N] /\ c.first = L[s] /\ N \in 1 .. N
  BY <1>11
<1> HIDE DEF N
<1>12. \A i \in 1 .. K : (i \in 1 .. N /\ i # K) \/ i = K
  BY <1>1
<1>13. \A i \in 1 .. N : i \in 1 .. K /\ i # K
  BY <1>1
<1>14. M[K] = K /\ K \in 1 .. K /\ \A i \in 1 .. N : M[i] = L[i]
  BY <1>1, <1>13
<1> HIDE DEF K, M
<1>15. Linked(d, M)
  <2>1. M \in [1 .. K -> 1 .. K]
    <3>1. \A i \in 1 .. K : M[i] \in 1 .. K
      BY <1>12, <1>13, <1>14, <1>a, Zenon
    <3> QED
      BY <3>1 DEF M
  <2>2. \A i, j \in 1 .. K : M[i] = M[j] => i = j
    <3> SUFFICES ASSUME NEW i \in 1 .. K, NEW j \in 1 .. K, M[i] = M[j] PROVE i = j
      OBVIOUS
    <3>1. CASE i = K \/ j = K
      BY <1>12, <1>13, <1>14, <1>a, <3>1
    <3>2. CASE i \in 1 .. N /\ j \in 1 .. N
      BY <1>14, <1>b, <3>2
    <3> QED
      BY <1>12, <3>1, <3>2
  <2>3. \A m \in 1 .. K : \E i \in 1 .. K : M[i] = m
    <3> SUFFICES ASSUME NEW m \in 1 .. K PROVE \E i \in 1 .. K : M[i] = m
      OBVIOUS
    <3>1. CASE m = K
      BY <1>14, <3>1
    <3>2. CASE m \in 1 .. N
      <4>1. PICK i \in 1 .. N : L[i] = m
        BY <1>c, <3>2
      <4>2. i \in 1 .. K /\ M[i] = m
        BY <1>13, <1>14, <4>1
      <4> QED
        BY <4>2
    <3> QED
      BY <1>12, <3>1, <3>2
  <2>4. ASSUME NEW i \in 1 .. K
        PROVE  d.node[M[i]].next = IF i = K THEN NULL ELSE M[i + 1]
    <3>1. CASE i = K
      BY <1>9, <1>14, <3>1
    <3>2. CASE i \in 1 .. N /\ i # K
      <4>1. M[i] = L[i] /\ L[i] \in 1 .. N
        BY <1>14, <1>a, <3>2
      <4>2. CASE i = N
        <5>1. d.node[L[N]].next = K
          BY <1>8, <1>g, <4>1, <4>2
        <5>2. N + 1 = K
          BY DEF K
        <5> QED
          BY <1>14, <3>2, <4>1, <4>2, <5>1, <5>2
      <4>3. CASE i # N
        <5>1. i + 1 \in 1 .. N
          BY <1>1, <3>2, <4>3
        <5>2. L[i] # c.last
          BY <1>b, <1>g, <3>2, <4>3, Zenon
        <5>3. d.node[L[i]].next = L[i + 1]
          BY <1>8, <1>e, <3>2, <4>1, <4>3, <5>2, Zenon
        <5> QED
          BY <1>14, <3>2, <4>1, <5>1, <5>3
      <4> QED
        BY <4>2, <4>3
    <3> QED
      BY <1>12, <3>1, <3>2
  <2>5. ASSUME NEW i \in 1 .. K
        PROVE  d.node[M[i]].prev = IF i = 1 THEN NULL ELSE M[i - 1]
    <3>1. CASE i = K
      <4>1. i # 1 /\ i - 1 = N
        BY <1>1, <1>11, <3>1 DEF K
      <4> QED
        BY <1>9, <1>14, <1>g, <3>1, <4>1
    <3>2. CASE i \in 1 .. N /\ i # K
      <4>1. M[i] = L[i] /\ L[i] \in 1 .. N
        BY <1>14, <1>a, <3>2
      <4>2. d.node[L[i]].prev = IF i = 1 THEN NULL ELSE L[i - 1]
        <5>1. d.node[L[i]].prev = c.node[L[i]].prev
          BY <1>8, <4>1
        <5> QED
          BY <1>e, <3>2, <5>1, Zenon
      <4>3. i # 1 => i - 1 \in 1 .. N
        BY <1>1, <3>2
      <4> QED
        BY <1>14, <4>1, <4>2, <4>3
    <3> QED
      BY <1>12, <3>1, <3>2
  <2> QED
    BY <1>7, <2>1, <2>2, <2>3, <2>4, <2>5, Zenon DEF Linked
<1>16. HeldAt(d, M, s, K)
  <2>1. ASSUME NEW i \in 1 .. K
        PROVE  d.node[M[i]].user # NoUser <=> s <= i /\ i <= K
    <3>1. CASE i = K
      <4>1. s <= i /\ i <= K
        BY <1>1, <1>11, <3>1 DEF K
      <4> QED
        BY <1>9, <1>14, <1>f, <3>1, <4>1
    <3>2. CASE i \in 1 .. N /\ i # K
      <4>1. i <= K /\ i <= k
        BY <1>1, <1>11, <3>2 DEF K
      <4>2. d.node[M[i]].user = c.node[L[i]].user
        BY <1>8, <1>14, <1>a, <3>2
      <4> QED
        BY <1>d, <3>2, <4>1, <4>2, Zenon
    <3> QED
      BY <1>12, <3>1, <3>2
  <2>2. s \in 1 .. K + 1 /\ K \in 0 .. K
    BY <1>1, <1>11 DEF K
  <2> QED
    BY <1>7, <2>1, <2>2, Zenon DEF HeldAt
<1>17. Marked(d, M, s, K)
  <2>1. s <= K
    BY <1>1, <1>11 DEF K
  <2>2. M[s] = L[s]
    BY <1>11, <1>14
  <2> QED
    BY <1>1, <1>2, <1>14, <1>g, <2>1, <2>2 DEF Marked
<1>18. Single(d)
  <2>1. ASSUME NEW i \in 1 .. K, NEW j \in 1 .. K, d.node[i].user = d.node[j].user,
               d.node[i].user # NoUser
        PROVE  i = j
    <3>1. CASE i = K \/ j = K
      <4>1. \A x \in 1 .. N : d.node[x].user # u
        BY <1>8, <1>f, Zenon
      <4>2. d.node[K].user = u
        BY <1>9
      <4> QED
        BY <1>12, <2>1, <3>1, <4>1, <4>2, Zenon
    <3>2. CASE i \in 1 .. N /\ j \in 1 .. N
      <4>1. d.node[i].user = c.node[i].user /\ d.node[j].user = c.node[j].user
        BY <1>8, <3>2, Zenon
      <4>2. \A x, y \in 1 .. N :
              c.node[x].user = c.node[y].user /\ c.node[x].user # NoUser => x = y
        BY <1>1, <1>f DEF Single
      <4> QED
        BY <2>1, <3>2, <4>1, <4>2, Zenon
    <3> QED
      BY <1>12, <3>1, <3>2
  <2> QED
    BY <1>7, <2>1, Zenon DEF Single
<1>19. Sound(d)
  <2>1. \E A, x, y : Shape(d, A, x, y)
    BY <1>15, <1>16, <1>17 DEF Shape
  <2>2. d.first \in 1 .. K /\ d.last \in 0 .. K
    BY <1>2, <1>13, <1>f, <1>1 DEF K
  <2> QED
    BY <1>7, <1>10, <1>18, <1>f, <2>1, <2>2 DEF Sound
<1>20. \A i \in 1 .. K :
         /\ d.node[i].user = IF i = K THEN u ELSE c.node[i].user
         /\ d.node[i].ltime = IF i = K THEN clock ELSE c.node[i].ltime
  BY <1>8, <1>9, <1>12, Zenon
<1> QED
  BY <1>7, <1>19, <1>20 DEF d, K, N
-----------------------------------------------------------------------------
(* lock_put() *)

\* The position that the node at position i had before the one at p was moved
\* behind the one at k.
Was(p, k, i) == IF i < p THEN i ELSE IF i < k THEN i + 1 ELSE IF i = k THEN p ELSE i

\* The move is a permutation.
LEMMA WasPermutes ==
  ASSUME NEW N \in Nat, NEW p \in 1 .. N, NEW k \in 1 .. N, p < k
  PROVE  /\ \A i \in 1 .. N : Was(p, k, i) \in 1 .. N
         /\ \A i, j \in 1 .. N : Was(p, k, i) = Was(p, k, j) => i = j
         /\ \A j \in 1 .. N : \E i \in 1 .. N : Was(p, k, i) = j
<1>1. \A i \in 1 .. N : Was(p, k, i) \in 1 .. N
  BY DEF Was
<1>2. \A i, j \in 1 .. N : Was(p, k, i) = Was(p, k, j) => i = j
  BY DEF Was
<1>3. ASSUME NEW j \in 1 .. N PROVE \E i \in 1 .. N : Was(p, k, i) = j
  <2> DEFINE i == IF j < p THEN j ELSE IF j = p THEN k ELSE IF j <= k THEN j - 1 ELSE j
  <2>1. i \in 1 .. N /\ Was(p, k, i) = j
    BY DEF Was
  <2> QED
    BY <2>1
<1> QED
  BY <1>1, <1>2, <1>3

\* The links of the nodes at position j when the node at p has been linked
\* behind the one at k.
LinksAt(node, L, N, p, k, j) ==
  /\ node[L[j]].next =
       IF j = k THEN L[p] ELSE IF j = p THEN L[k + 1] ELSE IF j = p - 1 THEN L[p + 1]
       ELSE IF j = N THEN NULL ELSE L[j + 1]
  /\ node[L[j]].prev =
       IF j = k + 1 THEN L[p] ELSE IF j = p THEN L[k]
       ELSE IF j = p + 1 THEN (IF p = 1 THEN NULL ELSE L[p - 1])
       ELSE IF j = 1 THEN NULL ELSE L[j - 1]

\* The links of the new order.
LinksNow(node, L, N, p, k, i) ==
  /\ node[L[Was(p, k, i)]].next = IF i = N THEN NULL ELSE L[Was(p, k, i + 1)]
  /\ node[L[Was(p, k, i)]].prev = IF i = 1 THEN NULL ELSE L[Was(p, k, i - 1)]

\* They are the same.
LEMMA MovedLinks ==
  ASSUME NEW N \in Nat, NEW p \in 1 .. N, NEW k \in 1 .. N, p < k, k < N,
         NEW L, NEW node, \A j \in 1 .. N : LinksAt(node, L, N, p, k, j)
  PROVE  \A i \in 1 .. N : LinksNow(node, L, N, p, k, i)
<1> SUFFICES ASSUME NEW i \in 1 .. N
             PROVE  /\ node[L[Was(p, k, i)]].next = IF i = N THEN NULL ELSE L[Was(p, k, i + 1)]
                    /\ node[L[Was(p, k, i)]].prev = IF i = 1 THEN NULL ELSE L[Was(p, k, i - 1)]
  BY DEF LinksNow
<1>1. CASE i < p
  BY <1>1 DEF Was, LinksAt
<1>2. CASE p <= i /\ i < k
  BY <1>2 DEF Was, LinksAt
<1>3. CASE i = k
  BY <1>3 DEF Was, LinksAt
<1>4. CASE k < i
  BY <1>4 DEF Was, LinksAt
<1> QED
  BY <1>1, <1>2, <1>3, <1>4

\* The position of a held node, and of last.
LEMMA HeldPlace ==
  ASSUME NEW c, Sound(c), NEW L, NEW s, NEW k, Shape(c, L, s, k),
         NEW n \in 1 .. Len(c.node), c.node[n].user # NoUser, c.last # NULL
  PROVE  /\ c.last = L[k] /\ k \in 1 .. Len(c.node) /\ s \in 1 .. k
         /\ \E p \in 1 .. Len(c.node) : L[p] = n /\ s <= p /\ p <= k
<1> DEFINE N == Len(c.node)
<1>1. N \in Nat /\ s \in 1 .. N + 1 /\ k \in 0 .. N
  BY ShapeFacts
<1>2. PICK p \in 1 .. N : L[p] = n
  BY ShapeFacts
<1>3. s <= p /\ p <= k
  <2>1. \A i \in 1 .. N : c.node[L[i]].user # NoUser <=> s <= i /\ i <= k
    BY ShapeFacts
  <2> QED
    BY <1>2, <2>1, Zenon
<1>4. s <= k
  BY <1>1, <1>3
<1>5. c.last = L[k]
  BY <1>1, <1>4 DEF Shape, Marked
<1> QED
  BY <1>1, <1>2, <1>3, <1>4, <1>5

\* The last node held is released: last goes back by one.
LEMMA PutLastSound ==
  ASSUME NEW c, Sound(c), NEW n \in 1 .. Len(c.node), c.node[n].user # NoUser, c.last = n
  PROVE  LET d == Released(c, n) IN
         /\ Sound(d) /\ Len(d.node) = Len(c.node)
         /\ \A i \in 1 .. Len(c.node) :
              /\ d.node[i].user = IF i = n THEN NoUser ELSE c.node[i].user
              /\ d.node[i].ltime = c.node[i].ltime
<1> DEFINE d == Released(c, n)
           N == Len(c.node)
<1>1. c \in ChainType /\ c.node \in Seq(NodeType) /\ N \in Nat /\ DOMAIN c.node = 1 .. N
      /\ c.last # NULL
  BY DEF Sound, ChainType, NULL
<1>2. PICK L, s, k : Shape(c, L, s, k)
  BY DEF Sound
<1>3. d.first = c.first /\ d.last = c.node[n].prev
      /\ d.node = [c.node EXCEPT ![n].user = NoUser]
      /\ d = [node |-> d.node, first |-> d.first, last |-> d.last]
  BY <1>1 DEF ChainType, Released, Cleared
<1>4. \A i \in 1 .. N : c.node[i] \in NodeType
  BY <1>1
<1>5. [c.node[n] EXCEPT !.user = NoUser] \in NodeType
  BY <1>4 DEF NodeType
<1>6. d.node \in Seq(NodeType) /\ Len(d.node) = N /\ DOMAIN d.node = 1 .. N
      /\ \A i \in 1 .. N : d.node[i] = IF i = n THEN [c.node[n] EXCEPT !.user = NoUser] ELSE c.node[i]
  BY <1>1, <1>3, <1>5
<1> HIDE DEF d
<1>7. \A i \in 1 .. N :
        /\ d.node[i].user = IF i = n THEN NoUser ELSE c.node[i].user
        /\ d.node[i].ltime = c.node[i].ltime
        /\ d.node[i].next = c.node[i].next /\ d.node[i].prev = c.node[i].prev
  <2>1. \A i \in 1 .. N :
          d.node[i] = IF i = n THEN [c.node[n] EXCEPT !.user = NoUser] ELSE c.node[i]
    BY <1>6
  <2> HIDE DEF N
  <2>2. ASSUME NEW i \in 1 .. N, i = n
        PROVE  /\ d.node[i].user = NoUser /\ d.node[i].ltime = c.node[i].ltime
               /\ d.node[i].next = c.node[i].next /\ d.node[i].prev = c.node[i].prev
    BY <1>4, <2>1, <2>2 DEF NodeType
  <2>3. ASSUME NEW i \in 1 .. N, i # n PROVE d.node[i] = c.node[i]
    BY <2>1, <2>3
  <2> QED
    BY <2>2, <2>3
<1>8. c.last = L[k] /\ k \in 1 .. N /\ s \in 1 .. k
  BY <1>1, <1>2, HeldPlace
<1>a. \A i \in 1 .. N : L[i] \in 1 .. N
  BY <1>2, ShapeFacts
<1>b. \A i, j \in 1 .. N : L[i] = L[j] => i = j
  BY <1>2, ShapeFacts
<1>c. \A m \in 1 .. N : \E i \in 1 .. N : L[i] = m
  BY <1>2, ShapeFacts
<1>d. \A i \in 1 .. N : c.node[L[i]].user # NoUser <=> s <= i /\ i <= k
  BY <1>2, ShapeFacts
<1>e. \A i \in 1 .. N : c.node[L[i]].next = (IF i = N THEN NULL ELSE L[i + 1])
                     /\ c.node[L[i]].prev = (IF i = 1 THEN NULL ELSE L[i - 1])
  BY <1>2 DEF Shape, Linked
<1>f. Single(c) /\ c.first \in 1 .. N /\ N \in 1 .. MaxNodes /\ L \in [1 .. N -> 1 .. N]
      /\ Marked(c, L, s, k)
  BY <1>2 DEF Sound, Shape, Linked
<1> HIDE DEF N
<1>9. d.last = IF k = 1 THEN NULL ELSE L[k - 1]
  BY <1>3, <1>8, <1>e
<1>10. d.last \in 0 .. N /\ (k # 1 => d.last # NULL)
  BY <1>1, <1>8, <1>9, <1>a DEF NULL
<1>11. d \in ChainType
  <2>1. d.first \in Nat /\ d.last \in Nat
    BY <1>1, <1>3, <1>10 DEF ChainType
  <2> QED
    BY <1>3, <1>6, <2>1 DEF ChainType
<1>12. Linked(d, L)
  <2>1. \A i \in 1 .. N : d.node[L[i]].next = c.node[L[i]].next
                       /\ d.node[L[i]].prev = c.node[L[i]].prev
    BY <1>7, <1>a, Zenon
  <2>2. \A i \in 1 .. N : d.node[L[i]].next = (IF i = N THEN NULL ELSE L[i + 1])
                       /\ d.node[L[i]].prev = (IF i = 1 THEN NULL ELSE L[i - 1])
    BY <1>e, <2>1, Zenon
  <2> QED
    BY <1>6, <1>b, <1>c, <1>f, <2>2, Zenon DEF Linked
<1>13. HeldAt(d, L, s, k - 1)
  <2>1. ASSUME NEW i \in 1 .. N
        PROVE  d.node[L[i]].user # NoUser <=> s <= i /\ i <= k - 1
    <3>1. CASE i = k
      <4>1. L[i] = n /\ L[i] \in 1 .. N
        BY <1>8, <1>a, <3>1
      <4>2. d.node[L[i]].user = NoUser
        BY <1>7, <4>1
      <4>3. ~(i <= k - 1)
        BY <1>8, <3>1
      <4> QED
        BY <4>2, <4>3
    <3>2. CASE i # k
      <4>1. L[i] # n /\ L[i] \in 1 .. N
        BY <1>8, <1>a, <1>b, <3>2
      <4>2. d.node[L[i]].user = c.node[L[i]].user
        BY <1>7, <4>1
      <4>3. i <= k <=> i <= k - 1
        BY <1>8, <3>2
      <4> QED
        BY <1>d, <4>2, <4>3, Zenon
    <3> QED
      BY <3>1, <3>2
  <2>2. s \in 1 .. N + 1 /\ k - 1 \in 0 .. N
    BY <1>1, <1>8
  <2> QED
    BY <1>6, <2>1, <2>2, Zenon DEF HeldAt
<1>14. Marked(d, L, s, k - 1)
  <2>1. CASE k = 1
    <3>1. d.last = NULL /\ k - 1 < s
      BY <1>8, <1>9, <2>1
    <3> QED
      BY <3>1 DEF Marked
  <2>2. CASE k # 1
    <3>1. d.last # NULL /\ d.last = L[k - 1]
      BY <1>9, <1>10, <2>2
    <3>2. CASE d.node[d.first].user = NoUser
      BY <3>1, <3>2 DEF Marked
    <3>3. CASE d.node[d.first].user # NoUser
      <4>1. d.first = c.first /\ c.first # n /\ c.node[c.first].user # NoUser
        BY <1>3, <1>7, <1>f, <3>3
      <4>2. c.first = L[s]
        BY <1>f, <1>1, <4>1 DEF Marked
      <4>3. s # k /\ s <= k - 1
        BY <1>8, <4>1, <4>2
      <4> QED
        BY <3>1, <4>1, <4>2, <4>3 DEF Marked
    <3> QED
      BY <3>2, <3>3
  <2> QED
    BY <2>1, <2>2
<1>15. Single(d)
  <2>1. ASSUME NEW i \in 1 .. N, NEW j \in 1 .. N, d.node[i].user = d.node[j].user,
               d.node[i].user # NoUser
        PROVE  i = j
    <3>1. c.node[i].user = c.node[j].user /\ c.node[i].user # NoUser
      BY <1>7, <2>1
    <3> QED
      BY <1>1, <1>f, <3>1 DEF Single
  <2> QED
    BY <1>6, <2>1, Zenon DEF Single
<1>16. Sound(d)
  <2>1. \E A, x, y : Shape(d, A, x, y)
    BY <1>12, <1>13, <1>14 DEF Shape
  <2> QED
    BY <1>3, <1>6, <1>10, <1>11, <1>15, <1>f, <2>1 DEF Sound
<1> QED
  BY <1>6, <1>7, <1>16 DEF d, N

\* The nodes when n has been unlinked and linked between last and after.
NodesAre(node, c, n, last, after) ==
  LET x == c.node[n] IN
  /\ node = [m \in 1 .. Len(c.node) |-> node[m]]
  /\ \A m \in 1 .. Len(c.node) :
       /\ node[m].user = IF m = n THEN NoUser ELSE c.node[m].user
       /\ node[m].ltime = c.node[m].ltime
       /\ node[m].next = IF m = last THEN n ELSE IF m = n THEN after
                         ELSE IF m = x.prev THEN x.next ELSE c.node[m].next
       /\ node[m].prev = IF m = after THEN n ELSE IF m = n THEN last
                         ELSE IF m = x.next THEN x.prev ELSE c.node[m].prev
       /\ node[m] = [user |-> node[m].user, ltime |-> node[m].ltime,
                     next |-> node[m].next, prev |-> node[m].prev]

\* That is what Released() makes of them.
LEMMA MiddleNodes ==
  ASSUME NEW c, c \in ChainType, NEW n \in 1 .. Len(c.node), NEW last \in 1 .. Len(c.node),
         last # n
  PROVE  LET after == Unlinked(c, n)[last].next IN
         /\ NodesAre(Relinked(Unlinked(Cleared(c, n), n), n, last), c, n, last, after)
         /\ after = IF last = c.node[n].prev THEN c.node[n].next ELSE c.node[last].next
<1> DEFINE N == Len(c.node)
           x == c.node[n]
           e == Cleared(c, n)
           U == Unlinked(e, n)
           after == IF last = x.prev THEN x.next ELSE c.node[last].next
           node == Relinked(U, n, last)
<1>1. c.node \in Seq(NodeType) /\ N \in Nat /\ DOMAIN c.node = 1 .. N
  BY DEF ChainType
<1>2. \A m \in 1 .. N : c.node[m] \in NodeType
  BY <1>1
<1>3. e.node = [c.node EXCEPT ![n].user = NoUser]
  BY DEF Cleared, ChainType
<1>4. DOMAIN e.node = 1 .. N
      /\ \A m \in 1 .. N : e.node[m] = IF m = n THEN [c.node[n] EXCEPT !.user = NoUser] ELSE c.node[m]
  BY <1>1, <1>3
<1> HIDE DEF e, N
<1>5. \A m \in 1 .. N :
        /\ e.node[m] \in NodeType
        /\ e.node[m].user = IF m = n THEN NoUser ELSE c.node[m].user
        /\ e.node[m].ltime = c.node[m].ltime
        /\ e.node[m].next = c.node[m].next /\ e.node[m].prev = c.node[m].prev
  <2>1. ASSUME NEW m \in 1 .. N, m = n
        PROVE  /\ e.node[m] \in NodeType
               /\ e.node[m].user = NoUser /\ e.node[m].ltime = c.node[m].ltime
               /\ e.node[m].next = c.node[m].next /\ e.node[m].prev = c.node[m].prev
    BY <1>2, <1>4, <2>1 DEF NodeType
  <2>2. ASSUME NEW m \in 1 .. N, m # n PROVE e.node[m] = c.node[m]
    BY <1>4, <2>2
  <2> QED
    BY <1>2, <2>1, <2>2
<1>6. n \in 1 .. N /\ last \in 1 .. N
  BY DEF N
<1>7. U = [m \in 1 .. N |->
             [e.node[m] EXCEPT !.next = IF m = x.prev THEN x.next ELSE @,
                               !.prev = IF m = x.next THEN x.prev ELSE @]]
  BY <1>4, <1>5, <1>6 DEF Unlinked
<1>8. \A m \in 1 .. N :
        /\ U[m].user = IF m = n THEN NoUser ELSE c.node[m].user
        /\ U[m].ltime = c.node[m].ltime
        /\ U[m].next = IF m = x.prev THEN x.next ELSE c.node[m].next
        /\ U[m].prev = IF m = x.next THEN x.prev ELSE c.node[m].prev
        /\ U[m] = [user |-> U[m].user, ltime |-> U[m].ltime, next |-> U[m].next, prev |-> U[m].prev]
  <2> SUFFICES ASSUME NEW m \in 1 .. N
               PROVE  /\ U[m].user = IF m = n THEN NoUser ELSE c.node[m].user
                      /\ U[m].ltime = c.node[m].ltime
                      /\ U[m].next = IF m = x.prev THEN x.next ELSE c.node[m].next
                      /\ U[m].prev = IF m = x.next THEN x.prev ELSE c.node[m].prev
                      /\ U[m] = [user |-> U[m].user, ltime |-> U[m].ltime,
                                 next |-> U[m].next, prev |-> U[m].prev]
    OBVIOUS
  <2> HIDE DEF x
  <2>1. U[m] = [e.node[m] EXCEPT !.next = IF m = x.prev THEN x.next ELSE @,
                                 !.prev = IF m = x.next THEN x.prev ELSE @]
    BY <1>7
  <2> HIDE DEF U
  <2>2. e.node[m] \in NodeType
    BY <1>5
  <2>3. /\ U[m].user = e.node[m].user /\ U[m].ltime = e.node[m].ltime
        /\ U[m].next = IF m = x.prev THEN x.next ELSE e.node[m].next
        /\ U[m].prev = IF m = x.next THEN x.prev ELSE e.node[m].prev
        /\ U[m] = [user |-> U[m].user, ltime |-> U[m].ltime,
                   next |-> U[m].next, prev |-> U[m].prev]
    BY <2>1, <2>2 DEF NodeType
  <2> QED
    BY <1>5, <2>3
<1>9. DOMAIN U = 1 .. N
  BY <1>7
<1> HIDE DEF U
<1>10. U[last].next = after
  BY <1>6, <1>8
<1>11. node = [m \in 1 .. N |->
                 [U[m] EXCEPT !.next = IF m = last THEN n ELSE IF m = n THEN after ELSE @,
                              !.prev = IF m = after THEN n ELSE IF m = n THEN last ELSE @]]
  BY <1>9, <1>10 DEF Relinked
<1> HIDE DEF after, node
<1>12. ASSUME NEW m \in 1 .. N
       PROVE  /\ node[m].user = U[m].user
              /\ node[m].ltime = U[m].ltime
              /\ node[m].next = IF m = last THEN n ELSE IF m = n THEN after ELSE U[m].next
              /\ node[m].prev = IF m = after THEN n ELSE IF m = n THEN last ELSE U[m].prev
              /\ node[m] = [user |-> node[m].user, ltime |-> node[m].ltime,
                            next |-> node[m].next, prev |-> node[m].prev]
  <2>1. node[m] =
          [U[m] EXCEPT !.next = IF m = last THEN n ELSE IF m = n THEN after ELSE @,
                       !.prev = IF m = after THEN n ELSE IF m = n THEN last ELSE @]
    BY <1>11
  <2>2. U[m] = [user |-> U[m].user, ltime |-> U[m].ltime, next |-> U[m].next, prev |-> U[m].prev]
    BY <1>8
  <2> QED
    BY <2>1, <2>2
<1>13. node = [m \in 1 .. N |-> node[m]]
  BY <1>11
<1>14. after = Unlinked(c, n)[last].next
  <2>1. Unlinked(c, n)[last] =
          [c.node[last] EXCEPT !.next = IF last = x.prev THEN x.next ELSE @,
                               !.prev = IF last = x.next THEN x.prev ELSE @]
    BY <1>1, <1>6 DEF Unlinked
  <2>2. c.node[last] \in NodeType
    BY <1>2, <1>6
  <2> QED
    BY <2>1, <2>2 DEF NodeType, after
<1>15. \A m \in 1 .. N :
         /\ node[m].user = IF m = n THEN NoUser ELSE c.node[m].user
         /\ node[m].ltime = c.node[m].ltime
         /\ node[m].next = IF m = last THEN n ELSE IF m = n THEN after
                           ELSE IF m = x.prev THEN x.next ELSE c.node[m].next
         /\ node[m].prev = IF m = after THEN n ELSE IF m = n THEN last
                           ELSE IF m = x.next THEN x.prev ELSE c.node[m].prev
         /\ node[m] = [user |-> node[m].user, ltime |-> node[m].ltime,
                       next |-> node[m].next, prev |-> node[m].prev]
  <2> HIDE DEF x
  <2>a. \A m \in 1 .. N :
          /\ U[m].user = IF m = n THEN NoUser ELSE c.node[m].user
          /\ U[m].ltime = c.node[m].ltime
          /\ U[m].next = IF m = x.prev THEN x.next ELSE c.node[m].next
          /\ U[m].prev = IF m = x.next THEN x.prev ELSE c.node[m].prev
    BY <1>8, Zenon
  <2>b. \A m \in 1 .. N :
          /\ node[m].user = U[m].user /\ node[m].ltime = U[m].ltime
          /\ node[m].next = IF m = last THEN n ELSE IF m = n THEN after ELSE U[m].next
          /\ node[m].prev = IF m = after THEN n ELSE IF m = n THEN last ELSE U[m].prev
    BY <1>12, Zenon
  <2>1. \A m \in 1 .. N : node[m].user = (IF m = n THEN NoUser ELSE c.node[m].user)
                         /\ node[m].ltime = c.node[m].ltime
    BY <2>a, <2>b
  <2>2. \A m \in 1 .. N :
          node[m].next = IF m = last THEN n ELSE IF m = n THEN after
                         ELSE IF m = x.prev THEN x.next ELSE c.node[m].next
    BY <2>a, <2>b
  <2>3. \A m \in 1 .. N :
          node[m].prev = IF m = after THEN n ELSE IF m = n THEN last
                         ELSE IF m = x.next THEN x.prev ELSE c.node[m].prev
    BY <2>a, <2>b
  <2> QED
    BY <1>12, <2>1, <2>2, <2>3, Zenon
<1>16. NodesAre(node, c, n, last, after)
  BY <1>13, <1>15, Zenon DEF NodesAre, N
<1> QED
  BY <1>14, <1>16 DEF node, after, U, e

\* A node before the last one is released: it is moved behind last.  When it
\* is the first one, first is left at a node that is free.
LEMMA PutMiddleSound ==
  ASSUME NEW c, Sound(c), NEW n \in 1 .. Len(c.node), ~PutFaults(c, n), c.last # n
  PROVE  LET d == Released(c, n) IN
         /\ Sound(d) /\ Len(d.node) = Len(c.node)
         /\ \A i \in 1 .. Len(c.node) :
              /\ d.node[i].user = IF i = n THEN NoUser ELSE c.node[i].user
              /\ d.node[i].ltime = c.node[i].ltime
<1> DEFINE d == Released(c, n)
           N == Len(c.node)
           node == Relinked(Unlinked(Cleared(c, n), n), n, c.last)
           x == c.node[n]
           after == Unlinked(c, n)[c.last].next
<1>1. c \in ChainType /\ c.node \in Seq(NodeType) /\ N \in Nat /\ DOMAIN c.node = 1 .. N
      /\ c.last # NULL /\ c.last \in 1 .. N
  BY DEF Sound, ChainType, NULL, PutFaults
<1>2. PICK L, s, k : Shape(c, L, s, k)
  BY DEF Sound
<1>3. d.first = c.first /\ d.last = c.last /\ d.node = node
      /\ d = [node |-> d.node, first |-> d.first, last |-> d.last]
  BY <1>1 DEF ChainType, Released, Cleared
<1>4. NodesAre(node, c, n, c.last, after)
      /\ after = IF c.last = x.prev THEN x.next ELSE c.node[c.last].next
  BY <1>1, MiddleNodes
<1>5. c.node[n].user # NoUser /\ after # NULL
  BY <1>1 DEF PutFaults
<1>6. c.last = L[k] /\ k \in 1 .. N /\ s \in 1 .. k
  BY <1>1, <1>2, <1>5, HeldPlace
<1>7. PICK p \in 1 .. N : L[p] = n /\ s <= p /\ p <= k
  BY <1>1, <1>2, <1>5, HeldPlace
<1>a. \A i \in 1 .. N : L[i] \in 1 .. N
  BY <1>2, ShapeFacts
<1>b. \A i, j \in 1 .. N : L[i] = L[j] => i = j
  BY <1>2, ShapeFacts
<1>c. \A m \in 1 .. N : \E i \in 1 .. N : L[i] = m
  BY <1>2, ShapeFacts
<1>d. \A i \in 1 .. N : c.node[L[i]].user # NoUser <=> s <= i /\ i <= k
  BY <1>2, ShapeFacts
<1>e. \A i \in 1 .. N : c.node[L[i]].next = (IF i = N THEN NULL ELSE L[i + 1])
                     /\ c.node[L[i]].prev = (IF i = 1 THEN NULL ELSE L[i - 1])
  BY <1>2 DEF Shape, Linked
<1>f. Single(c) /\ c.first \in 1 .. N /\ N \in 1 .. MaxNodes /\ Marked(c, L, s, k)
  BY <1>2 DEF Sound, Shape
<1>g. \A m \in 1 .. N : c.node[m] \in NodeType
  BY <1>1
<1> HIDE DEF d, node, N
<1>8. p < k /\ p # k
  BY <1>1, <1>6, <1>7
<1>9. p \in Nat /\ k \in Nat /\ p + 1 \in 1 .. N /\ p # N /\ (p # 1 => p - 1 \in 1 .. N)
  BY <1>1, <1>6, <1>7, <1>8
<1>10. x.next = L[p + 1] /\ x.prev = IF p = 1 THEN NULL ELSE L[p - 1]
  BY <1>7, <1>9, <1>e
<1>11. c.last # x.prev
  <2>1. CASE p = 1
    BY <1>1, <1>10, <2>1
  <2>2. CASE p # 1
    <3>1. p - 1 # k /\ p - 1 \in 1 .. N
      BY <1>8, <1>9, <2>2
    <3>2. L[p - 1] # L[k]
      BY <1>6, <1>b, <3>1, Zenon
    <3> QED
      BY <1>6, <1>10, <2>2, <3>2
  <2> QED
    BY <2>1, <2>2
<1>12. k < N /\ after = L[k + 1] /\ k + 1 \in 1 .. N
  <2>1. after = IF k = N THEN NULL ELSE L[k + 1]
    BY <1>4, <1>6, <1>11, <1>e
  <2>2. k # N
    BY <1>5, <2>1
  <2> QED
    BY <1>1, <1>6, <2>1, <2>2
<1> HIDE DEF x, after
\* The links, by position.
<1>13. ASSUME NEW j \in 1 .. N
       PROVE  node[L[j]].next =
                IF j = k THEN L[p] ELSE IF j = p THEN L[k + 1]
                ELSE IF j = p - 1 THEN L[p + 1] ELSE IF j = N THEN NULL ELSE L[j + 1]
  <2>1. L[j] \in 1 .. N /\ (L[j] = c.last <=> j = k) /\ (L[j] = n <=> j = p)
    BY <1>6, <1>7, <1>a, <1>b
  <2>2. L[j] = x.prev <=> j = p - 1
    <3>1. CASE p = 1
      <4>1. j # p - 1 /\ L[j] # NULL
        BY <2>1, <3>1 DEF NULL
      <4> QED
        BY <1>10, <3>1, <4>1
    <3>2. CASE p # 1
      BY <1>9, <1>10, <1>b, <3>2
    <3> QED
      BY <3>1, <3>2
  <2>3. node[L[j]].next = IF L[j] = c.last THEN n ELSE IF L[j] = n THEN after
                          ELSE IF L[j] = x.prev THEN x.next ELSE c.node[L[j]].next
    BY <1>4, <2>1, Zenon DEF NodesAre, N, x
  <2>4. c.node[L[j]].next = IF j = N THEN NULL ELSE L[j + 1]
    BY <1>e, Zenon
  <2> QED
    BY <1>7, <1>10, <1>12, <2>1, <2>2, <2>3, <2>4, Zenon
<1>14. ASSUME NEW j \in 1 .. N
       PROVE  node[L[j]].prev =
                IF j = k + 1 THEN L[p] ELSE IF j = p THEN L[k]
                ELSE IF j = p + 1 THEN (IF p = 1 THEN NULL ELSE L[p - 1])
                ELSE IF j = 1 THEN NULL ELSE L[j - 1]
  <2>1. L[j] \in 1 .. N /\ (L[j] = after <=> j = k + 1) /\ (L[j] = n <=> j = p)
    BY <1>7, <1>12, <1>a, <1>b
  <2>2. L[j] = x.next <=> j = p + 1
    BY <1>9, <1>10, <1>b
  <2>3. node[L[j]].prev = IF L[j] = after THEN n ELSE IF L[j] = n THEN c.last
                          ELSE IF L[j] = x.next THEN x.prev ELSE c.node[L[j]].prev
    BY <1>4, <2>1, Zenon DEF NodesAre, N, x
  <2>4. c.node[L[j]].prev = IF j = 1 THEN NULL ELSE L[j - 1]
    BY <1>e, Zenon
  <2> QED
    BY <1>6, <1>7, <1>10, <2>1, <2>2, <2>3, <2>4, Zenon
<1> DEFINE M == [i \in 1 .. N |-> L[Was(p, k, i)]]
<1>15. /\ \A i \in 1 .. N : Was(p, k, i) \in 1 .. N
       /\ \A i, j \in 1 .. N : Was(p, k, i) = Was(p, k, j) => i = j
       /\ \A j \in 1 .. N : \E i \in 1 .. N : Was(p, k, i) = j
  BY <1>1, <1>6, <1>8, WasPermutes
<1>16. \A i \in 1 .. N : M[i] = L[Was(p, k, i)]
  OBVIOUS
<1>17. M \in [1 .. N -> 1 .. N]
  BY <1>15, <1>a
<1> HIDE DEF M
<1>18. DOMAIN d.node = 1 .. N /\ d.node \in Seq(NodeType) /\ Len(d.node) = N
  <2>1. ASSUME NEW m \in 1 .. N PROVE node[m] \in NodeType
    <3>1. PICK j \in 1 .. N : L[j] = m
      BY <1>c
    <3>2. node[m].next \in Nat
      <4>1. L[p] \in Nat /\ L[k + 1] \in Nat /\ L[p + 1] \in Nat /\ NULL \in Nat
        BY <1>9, <1>12, <1>a DEF NULL
      <4>2. j # N => L[j + 1] \in Nat
        <5>1. j # N => j + 1 \in 1 .. N
          BY <1>1
        <5> QED
          BY <1>a, <5>1
      <4> QED
        BY <1>13, <3>1, <4>1, <4>2, Zenon
    <3>3. node[m].prev \in Nat
      <4>1. L[p] \in Nat /\ L[k] \in Nat /\ (p # 1 => L[p - 1] \in Nat) /\ NULL \in Nat
        BY <1>6, <1>9, <1>a DEF NULL
      <4>2. j # 1 => L[j - 1] \in Nat
        <5>1. j # 1 => j - 1 \in 1 .. N
          BY <1>1
        <5> QED
          BY <1>a, <5>1
      <4> QED
        BY <1>14, <3>1, <4>1, <4>2, Zenon
    <3>4. node[m].user \in User \cup {NoUser} /\ node[m].ltime \in Nat
      <4>1. c.node[m].user \in User \cup {NoUser} /\ c.node[m].ltime \in Nat
        BY <1>g DEF NodeType
      <4>2. node[m].user = (IF m = n THEN NoUser ELSE c.node[m].user)
            /\ node[m].ltime = c.node[m].ltime
        BY <1>4, Zenon DEF NodesAre, N
      <4> QED
        BY <4>1, <4>2
    <3>5. node[m] = [user |-> node[m].user, ltime |-> node[m].ltime,
                     next |-> node[m].next, prev |-> node[m].prev]
      BY <1>4, Zenon DEF NodesAre, N
    <3> QED
      BY <3>2, <3>3, <3>4, <3>5 DEF NodeType
  <2>2. node = [m \in 1 .. N |-> node[m]]
    BY <1>4, Zenon DEF NodesAre, N
  <2>3. node \in [1 .. N -> NodeType]
    BY <2>1, <2>2
  <2> QED
    BY <1>1, <1>3, <2>3
<1>19. Linked(d, M)
  <2>1. \A i, j \in 1 .. N : M[i] = M[j] => i = j
    <3> SUFFICES ASSUME NEW i \in 1 .. N, NEW j \in 1 .. N, M[i] = M[j] PROVE i = j
      OBVIOUS
    <3>1. Was(p, k, i) = Was(p, k, j)
      <4>1. L[Was(p, k, i)] = L[Was(p, k, j)]
        BY <1>16
      <4>2. Was(p, k, i) \in 1 .. N /\ Was(p, k, j) \in 1 .. N
        BY <1>15
      <4> QED
        BY <1>b, <4>1, <4>2, Zenon
    <3> QED
      BY <1>15, <3>1
  <2>2. \A m \in 1 .. N : \E i \in 1 .. N : M[i] = m
    <3> SUFFICES ASSUME NEW m \in 1 .. N PROVE \E i \in 1 .. N : M[i] = m
      OBVIOUS
    <3>1. PICK j \in 1 .. N : L[j] = m
      BY <1>c
    <3>2. PICK i \in 1 .. N : Was(p, k, i) = j
      BY <1>15
    <3> QED
      BY <1>16, <3>1, <3>2
  <2>3. \A i \in 1 .. N :
          /\ node[L[Was(p, k, i)]].next = IF i = N THEN NULL ELSE L[Was(p, k, i + 1)]
          /\ node[L[Was(p, k, i)]].prev = IF i = 1 THEN NULL ELSE L[Was(p, k, i - 1)]
    <3>1. N \in Nat /\ k \in 1 .. N /\ p < k /\ k < N
      BY <1>1, <1>6, <1>8, <1>12
    <3>2. \A j \in 1 .. N : LinksAt(node, L, N, p, k, j)
      BY <1>13, <1>14, Zenon DEF LinksAt
    <3>3. \A i \in 1 .. N : LinksNow(node, L, N, p, k, i)
      BY <3>1, <3>2, MovedLinks
    <3> QED
      BY <3>3, Zenon DEF LinksNow
  <2>4. \A i \in 1 .. N : (i # N => i + 1 \in 1 .. N) /\ (i # 1 => i - 1 \in 1 .. N)
    BY <1>1
  <2>5. \A i \in 1 .. N : d.node[M[i]].next = (IF i = N THEN NULL ELSE M[i + 1])
                       /\ d.node[M[i]].prev = (IF i = 1 THEN NULL ELSE M[i - 1])
    <3> SUFFICES ASSUME NEW i \in 1 .. N
                 PROVE  d.node[M[i]].next = (IF i = N THEN NULL ELSE M[i + 1])
                        /\ d.node[M[i]].prev = (IF i = 1 THEN NULL ELSE M[i - 1])
      OBVIOUS
    <3>1. M[i] = L[Was(p, k, i)] /\ (i # N => M[i + 1] = L[Was(p, k, i + 1)])
          /\ (i # 1 => M[i - 1] = L[Was(p, k, i - 1)])
      BY <1>16, <2>4
    <3>2. /\ node[L[Was(p, k, i)]].next = IF i = N THEN NULL ELSE L[Was(p, k, i + 1)]
          /\ node[L[Was(p, k, i)]].prev = IF i = 1 THEN NULL ELSE L[Was(p, k, i - 1)]
      BY <2>3, Zenon
    <3>3. d.node[M[i]] = node[L[Was(p, k, i)]]
      BY <1>3, <3>1, Zenon
    <3>4. d.node[M[i]].next = IF i = N THEN NULL ELSE M[i + 1]
      BY <3>1, <3>2, <3>3, Zenon
    <3>5. d.node[M[i]].prev = IF i = 1 THEN NULL ELSE M[i - 1]
      BY <3>1, <3>2, <3>3, Zenon
    <3> QED
      BY <3>4, <3>5
  <2> QED
    BY <1>17, <1>18, <2>1, <2>2, <2>5, Zenon DEF Linked
<1>20. \A m \in 1 .. N : d.node[m].user = (IF m = n THEN NoUser ELSE c.node[m].user)
                      /\ d.node[m].ltime = c.node[m].ltime
  BY <1>3, <1>4, Zenon DEF NodesAre, N
<1>21. HeldAt(d, M, s, k - 1)
  <2>1. ASSUME NEW i \in 1 .. N
        PROVE  d.node[M[i]].user # NoUser <=> s <= i /\ i <= k - 1
    <3> DEFINE q == Was(p, k, i)
    <3>1. q \in 1 .. N /\ M[i] = L[q] /\ L[q] \in 1 .. N /\ (L[q] = n <=> q = p)
      BY <1>7, <1>15, <1>16, <1>a, <1>b
    <3>2. d.node[M[i]].user # NoUser <=> q # p /\ s <= q /\ q <= k
      BY <1>20, <1>d, <3>1, Zenon
    <3>3. q # p /\ s <= q /\ q <= k <=> s <= i /\ i <= k - 1
      <4>1. s \in Nat /\ k \in Nat /\ p \in Nat /\ s <= p /\ p < k
        BY <1>6, <1>7, <1>8
      <4> QED
        BY <4>1 DEF Was
    <3> QED
      BY <3>2, <3>3, Zenon
  <2>2. s \in 1 .. N + 1 /\ k - 1 \in 0 .. N
    BY <1>1, <1>6
  <2> QED
    BY <1>18, <2>1, <2>2, Zenon DEF HeldAt
<1>22. Marked(d, M, s, k - 1)
  <2>1. k - 1 \in 1 .. N /\ s <= k - 1 /\ Was(p, k, k - 1) = k
    BY <1>1, <1>6, <1>7, <1>8 DEF Was
  <2>2. d.last # NULL /\ d.last = M[k - 1]
    BY <1>1, <1>3, <1>6, <1>16, <2>1
  <2>3. CASE d.node[d.first].user = NoUser
    BY <2>2, <2>3 DEF Marked
  <2>4. CASE d.node[d.first].user # NoUser
    <3>1. d.first = c.first /\ c.first # n /\ c.node[c.first].user # NoUser
      BY <1>3, <1>20, <1>f, <2>4
    <3>2. c.first = L[s]
      BY <1>1, <1>f, <3>1 DEF Marked
    <3>3. s < p /\ s \in 1 .. N /\ Was(p, k, s) = s
      BY <1>1, <1>6, <1>7, <3>1, <3>2 DEF Was
    <3>4. M[s] = L[s]
      BY <1>16, <3>3
    <3> QED
      BY <2>1, <2>2, <3>1, <3>2, <3>4 DEF Marked
  <2> QED
    BY <2>3, <2>4
<1>23. Single(d)
  <2>1. ASSUME NEW i \in 1 .. N, NEW j \in 1 .. N, d.node[i].user = d.node[j].user,
               d.node[i].user # NoUser
        PROVE  i = j
    <3>1. c.node[i].user = c.node[j].user /\ c.node[i].user # NoUser
      BY <1>20, <2>1
    <3> QED
      BY <1>1, <1>f, <3>1 DEF Single
  <2> QED
    BY <1>18, <2>1, Zenon DEF Single
<1>24. Sound(d)
  <2>1. \E A, y, z : Shape(d, A, y, z)
    BY <1>19, <1>21, <1>22 DEF Shape
  <2>2. d.first \in Nat /\ d.last \in Nat
    BY <1>1, <1>3 DEF ChainType
  <2>3. d \in ChainType
    BY <1>3, <1>18, <2>2 DEF ChainType
  <2>4. c.last \in 0 .. N
    BY <1>1
  <2> QED
    BY <1>3, <1>18, <1>23, <1>f, <2>1, <2>3, <2>4 DEF Sound
<1> QED
  BY <1>18, <1>20, <1>24 DEF d, N

\* A node is released.
LEMMA ReleaseSound ==
  ASSUME NEW c, Sound(c), NEW n \in 1 .. Len(c.node), ~PutFaults(c, n)
  PROVE  LET d == Released(c, n) IN
         /\ Sound(d) /\ Len(d.node) = Len(c.node) /\ c.node[n].user # NoUser
         /\ \A i \in 1 .. Len(c.node) :
              /\ d.node[i].user = IF i = n THEN NoUser ELSE c.node[i].user
              /\ d.node[i].ltime = c.node[i].ltime
<1>1. c.node[n].user # NoUser
  BY DEF PutFaults
<1>2. CASE c.last = n
  BY <1>1, <1>2, PutLastSound
<1>3. CASE c.last # n
  BY <1>1, <1>3, PutMiddleSound
<1> QED
  BY <1>2, <1>3
-----------------------------------------------------------------------------
(* The lock of a user. *)

FreeLock == [held |-> FALSE, ltime |-> 0]

\* What the chain c says of the user's lock.
LockIn(c, u) ==
  LET H == {i \in DOMAIN c.node : c.node[i].user = u} IN
  IF H = {} THEN FreeLock
  ELSE [held |-> TRUE, ltime |-> c.node[CHOOSE i \in H : TRUE].ltime]

LEMMA LockFree ==
  ASSUME NEW c, Sound(c), NEW u, \A i \in 1 .. Len(c.node) : c.node[i].user # u
  PROVE  LockIn(c, u) = FreeLock
<1>1. DOMAIN c.node = 1 .. Len(c.node)
  <2>1. c.node \in Seq(NodeType)
    BY DEF Sound, ChainType
  <2> QED
    BY <2>1
<1>2. {i \in DOMAIN c.node : c.node[i].user = u} = {}
  BY <1>1
<1> QED
  BY <1>2 DEF LockIn

LEMMA LockHeld ==
  ASSUME NEW c, Sound(c), NEW u, u # NoUser, NEW n \in 1 .. Len(c.node), c.node[n].user = u
  PROVE  LockIn(c, u) = [held |-> TRUE, ltime |-> c.node[n].ltime]
<1> DEFINE H == {i \in DOMAIN c.node : c.node[i].user = u}
<1>1. DOMAIN c.node = 1 .. Len(c.node)
  <2>1. c.node \in Seq(NodeType)
    BY DEF Sound, ChainType
  <2> QED
    BY <2>1
<1>2. n \in H /\ \A i \in H : i = n
  BY <1>1 DEF Sound, Single
<1> HIDE DEF H
<1>3. (CHOOSE i \in H : TRUE) = n
  BY <1>2
<1>4. H # {}
  BY <1>2
<1>5. LockIn(c, u) = IF H = {} THEN FreeLock
                     ELSE [held |-> TRUE, ltime |-> c.node[CHOOSE i \in H : TRUE].ltime]
  BY Zenon DEF LockIn, H
<1> QED
  BY <1>3, <1>4, <1>5

\* A user whose nodes do not change keeps the lock.
LEMMA LockKept ==
  ASSUME NEW c, Sound(c), NEW d, Sound(d), NEW v, v # NoUser,
         \A i \in 1 .. Len(c.node) : c.node[i].user = v =>
           i \in 1 .. Len(d.node) /\ d.node[i].user = v /\ d.node[i].ltime = c.node[i].ltime,
         \A i \in 1 .. Len(d.node) : d.node[i].user = v =>
           i \in 1 .. Len(c.node) /\ c.node[i].user = v
  PROVE  LockIn(d, v) = LockIn(c, v)
<1>1. CASE \E i \in 1 .. Len(c.node) : c.node[i].user = v
  <2>1. PICK i \in 1 .. Len(c.node) : c.node[i].user = v
    BY <1>1
  <2>2. i \in 1 .. Len(d.node) /\ d.node[i].user = v /\ d.node[i].ltime = c.node[i].ltime
    BY <2>1
  <2>3. LockIn(c, v) = [held |-> TRUE, ltime |-> c.node[i].ltime]
    BY <2>1, LockHeld
  <2>4. LockIn(d, v) = [held |-> TRUE, ltime |-> d.node[i].ltime]
    BY <2>2, LockHeld
  <2> QED
    BY <2>2, <2>3, <2>4
<1>2. CASE ~(\E i \in 1 .. Len(c.node) : c.node[i].user = v)
  <2>1. \A i \in 1 .. Len(d.node) : d.node[i].user # v
    BY <1>2
  <2> QED
    BY <1>2, <2>1, LockFree
<1> QED
  BY <1>1, <1>2
-----------------------------------------------------------------------------
(* The invariant. *)

ChainInv ==
  /\ clock \in Nat
  /\ chain \in [Bucket -> ChainType]
  /\ \A b \in Bucket : Sound(chain[b])
  /\ \A b \in Bucket : \A i \in 1 .. Len(chain[b].node) :
       chain[b].node[i].user # NoUser => uhash[chain[b].node[i].user] = b
  /\ DOMAIN own = Worker
  /\ \A w \in Worker :
       own[w] = NoOwn \/ (own[w].user \in User
                          /\ own[w].node \in 1 .. Len(chain[uhash[own[w].user]].node))

\* The locks that the chains stand for.
AbsLock == [u \in User |-> LockIn(chain[uhash[u]], u)]

\* The nodes of c that other users than u hold are the same in d.
Untouched(c, d, u) ==
  \A i \in 1 .. Len(c.node) : c.node[i].user \notin {u, NoUser} =>
    d.node[i].user = c.node[i].user /\ d.node[i].ltime = c.node[i].ltime

\* A chain in which one user's nodes change.
Changed(b, d, u) ==
  /\ chain' = [chain EXCEPT ![b] = d]
  /\ Untouched(chain[b], d, u)
  /\ Sound(d) /\ Len(chain[b].node) <= Len(d.node)
  /\ \A i \in 1 .. Len(d.node) : d.node[i].user # NoUser => uhash[d.node[i].user] = b
  /\ \A v \in User \ {u} : LockIn(d, v) = LockIn(chain[b], v)

\* It changes this user's lock, and keeps the chains in order.
LEMMA ChangeOne ==
  ASSUME ChainInv, NEW u \in User, NEW d, Changed(uhash[u], d, u)
  PROVE  /\ AbsLock' = [AbsLock EXCEPT ![u] = LockIn(d, u)]
         /\ chain' \in [Bucket -> ChainType]
         /\ \A b \in Bucket : Sound(chain'[b])
         /\ \A b \in Bucket : \A i \in 1 .. Len(chain'[b].node) :
              chain'[b].node[i].user # NoUser => uhash[chain'[b].node[i].user] = b
         /\ \A b \in Bucket : Len(chain[b].node) <= Len(chain'[b].node)
         /\ \A b \in Bucket : Untouched(chain[b], chain'[b], u)
<1> DEFINE b == uhash[u]
<1>1. b \in Bucket /\ \A v \in User : uhash[v] \in Bucket
  BY UserAssumption
<1>2. chain' = [chain EXCEPT ![b] = d] /\ d \in ChainType
  BY DEF Changed, Sound
<1>3. chain'[b] = d /\ \A a \in Bucket : a # b => chain'[a] = chain[a]
  BY <1>1, <1>2 DEF ChainInv
<1> HIDE DEF b
<1>4. ASSUME NEW v \in User
      PROVE  AbsLock'[v] = IF v = u THEN LockIn(d, u) ELSE AbsLock[v]
  <2>1. AbsLock'[v] = LockIn(chain'[uhash[v]], v) /\ AbsLock[v] = LockIn(chain[uhash[v]], v)
    BY DEF AbsLock
  <2>2. CASE uhash[v] = b
    BY <1>3, <2>1, <2>2 DEF Changed, b
  <2>3. CASE uhash[v] # b
    <3>1. v # u
      BY <2>3 DEF b
    <3> QED
      BY <1>1, <1>3, <2>1, <2>3, <3>1
  <2> QED
    BY <2>2, <2>3
<1>5. AbsLock' = [AbsLock EXCEPT ![u] = LockIn(d, u)]
  BY <1>4 DEF AbsLock
<1>6. chain' \in [Bucket -> ChainType]
  BY <1>1, <1>2 DEF ChainInv
<1>7. \A a \in Bucket : Sound(chain'[a])
  BY <1>3 DEF ChainInv, Changed
<1>8. \A a \in Bucket : \A i \in 1 .. Len(chain'[a].node) :
        chain'[a].node[i].user # NoUser => uhash[chain'[a].node[i].user] = a
  <2> SUFFICES ASSUME NEW a \in Bucket, NEW i \in 1 .. Len(chain'[a].node),
                      chain'[a].node[i].user # NoUser
               PROVE  uhash[chain'[a].node[i].user] = a
    OBVIOUS
  <2>1. CASE a = b
    BY <1>3, <2>1 DEF Changed, b
  <2>2. CASE a # b
    BY <1>3, <2>2 DEF ChainInv
  <2> QED
    BY <2>1, <2>2
<1>9. \A a \in Bucket : Len(chain[a].node) <= Len(chain'[a].node)
  <2>1. ASSUME NEW a \in Bucket, a # b PROVE Len(chain[a].node) <= Len(chain'[a].node)
    <3>1. Len(chain[a].node) \in Int
      BY BoundAssumption DEF ChainInv, Sound
    <3> QED
      BY <1>3, <2>1, <3>1
  <2> QED
    BY <1>3, <2>1 DEF Changed, b
<1>10. \A a \in Bucket : Untouched(chain[a], chain'[a], u)
  <2>1. ASSUME NEW a \in Bucket, a # b PROVE Untouched(chain[a], chain'[a], u)
    BY <1>3, <2>1 DEF Untouched
  <2>2. Untouched(chain[b], chain'[b], u)
    BY <1>3 DEF Changed, b
  <2> QED
    BY <2>1, <2>2
<1> QED
  BY <1>5, <1>6, <1>7, <1>8, <1>9, <1>10

\* The owners keep their nodes when no chain gets shorter.
LEMMA OwnersKept ==
  ASSUME ChainInv, NEW w \in Worker, NEW o,
         o = NoOwn \/ (o.user \in User /\ o.node \in 1 .. Len(chain'[uhash[o.user]].node)),
         own' = [own EXCEPT ![w] = o],
         \A b \in Bucket : Len(chain'[b].node) \in Nat /\ Len(chain[b].node) <= Len(chain'[b].node)
  PROVE  /\ DOMAIN own' = Worker
         /\ \A x \in Worker :
              own'[x] = NoOwn \/ (own'[x].user \in User
                                  /\ own'[x].node \in 1 .. Len(chain'[uhash[own'[x].user]].node))
<1>1. DOMAIN own' = Worker /\ \A x \in Worker : own'[x] = IF x = w THEN o ELSE own[x]
  BY DEF ChainInv
<1>2. ASSUME NEW x \in Worker, x # w, own[x] # NoOwn
      PROVE  own[x].user \in User /\ own[x].node \in 1 .. Len(chain'[uhash[own[x].user]].node)
  <2>1. own[x].user \in User /\ own[x].node \in 1 .. Len(chain[uhash[own[x].user]].node)
    BY <1>2 DEF ChainInv
  <2>2. uhash[own[x].user] \in Bucket
    BY <2>1, UserAssumption
  <2>3. Len(chain[uhash[own[x].user]].node) \in Nat
    BY <2>2, BoundAssumption DEF ChainInv, Sound
  <2> QED
    BY <2>1, <2>2, <2>3
<1> QED
  BY <1>1, <1>2

\* The lengths of the chains.
LEMMA Lengths ==
  ASSUME NEW c, Sound(c) PROVE Len(c.node) \in Nat /\ Len(c.node) >= 1
  BY BoundAssumption DEF Sound

\* What taking a node does to a chain: node n is now the user's.
Grabbed(c, d, u, n) ==
  /\ Sound(d) /\ Len(c.node) <= Len(d.node) /\ n \in 1 .. Len(d.node)
  /\ \A i \in 1 .. Len(d.node) :
       /\ i # n => i \in 1 .. Len(c.node) /\ d.node[i].user = c.node[i].user
                   /\ d.node[i].ltime = c.node[i].ltime
       /\ i = n => d.node[i].user = u /\ d.node[i].ltime = clock
  /\ n \in 1 .. Len(c.node) => c.node[n].user = NoUser

LEMMA GrabSound ==
  ASSUME NEW c, Sound(c), NEW u \in User, \A i \in 1 .. Len(c.node) : c.node[i].user # u,
         NEW L, NEW s, NEW k, Shape(c, L, s, k), NEW m, clock \in Nat,
         \/ c.last = NULL /\ k < s /\ m = c.first
         \/ /\ c.last # NULL /\ s <= k /\ c.first = L[s] /\ c.last = L[k]
            /\ m = IF k = Len(c.node) THEN NULL ELSE L[k + 1],
         NEW n, n = IF m = NULL THEN Len(c.node) + 1 ELSE m, n <= MaxNodes
  PROVE  Grabbed(c, Grab(c, u, m), u, n)
<1> DEFINE N == Len(c.node)
<1>1. /\ N \in Nat /\ N >= 1 /\ s \in 1 .. N + 1 /\ k \in 0 .. N /\ c.first \in 1 .. N
      /\ \A i \in 1 .. N : L[i] \in 1 .. N
  BY Lengths, ShapeFacts DEF Sound
<1>2. k # N => k + 1 \in 1 .. N
  BY <1>1
<1>3. NULL \notin 1 .. N
  BY DEF NULL
<1>4. CASE m # NULL
  <2>1. m \in 1 .. N
        /\ \/ c.last = NULL /\ k < s /\ m = c.first
           \/ /\ c.last # NULL /\ s <= k /\ c.first = L[s] /\ c.last = L[k]
              /\ k # N /\ m = L[k + 1]
    BY <1>1, <1>2, <1>4
  <2> DEFINE d == Grab(c, u, m)
  <2>2. /\ Sound(d) /\ Len(d.node) = N /\ c.node[m].user = NoUser
        /\ \A i \in 1 .. N :
             /\ d.node[i].user = IF i = m THEN u ELSE c.node[i].user
             /\ d.node[i].ltime = IF i = m THEN clock ELSE c.node[i].ltime
    BY <2>1, ReuseSound
  <2>3. n = m
    BY <1>4
  <2> HIDE DEF d
  <2>4. Grabbed(c, d, u, n)
    BY <1>1, <2>1, <2>2, <2>3 DEF Grabbed
  <2> QED
    BY <2>4 DEF d
<1>5. CASE m = NULL
  <2>1. c.last # NULL /\ s <= k /\ c.first = L[s] /\ c.last = L[k] /\ k = N
    BY <1>1, <1>2, <1>3, <1>5
  <2>2. n = N + 1 /\ N + 1 <= MaxNodes
    BY <1>5
  <2> DEFINE d == Grab(c, u, NULL)
  <2>3. /\ Sound(d) /\ Len(d.node) = N + 1
        /\ \A i \in 1 .. N + 1 :
             /\ d.node[i].user = IF i = N + 1 THEN u ELSE c.node[i].user
             /\ d.node[i].ltime = IF i = N + 1 THEN clock ELSE c.node[i].ltime
    BY <2>1, <2>2, AppendSound
  <2> HIDE DEF d
  <2>4. \A i \in 1 .. N + 1 : i # n => i \in 1 .. N
    BY <1>1, <2>2
  <2>5. N <= N + 1 /\ n \in 1 .. N + 1 /\ n \notin 1 .. N
    BY <1>1, <2>2
  <2>6. Grabbed(c, d, u, n)
    BY <2>2, <2>3, <2>4, <2>5 DEF Grabbed
  <2> QED
    BY <1>5, <2>6 DEF d
<1> QED
  BY <1>4, <1>5

\* Thread w gets the user's node, and no other user's node is touched.
Given(w, u) ==
  /\ \E n : /\ own' = [own EXCEPT ![w] = [user |-> u, node |-> n]]
            /\ chain'[uhash[u]].node[n].user = u
            /\ chain'[uhash[u]].node[n].ltime = clock
  /\ \A b \in Bucket : Untouched(chain[b], chain'[b], u)

\* What lock_get() does to the locks.
LEMMA GetStep ==
  ASSUME ChainInv, NEW w \in Worker, NEW u \in User, lock_get(w, u)
  PROVE  /\ ChainInv'
         /\ AbsLock[u].held => clock >= AbsLock[u].ltime + LockExpiry
         /\ AbsLock' = [AbsLock EXCEPT ![u] = [held |-> TRUE, ltime |-> clock]]
         /\ clock' = clock
         /\ Given(w, u)
<1> DEFINE b == uhash[u]
           c == chain[b]
           f == find_lock(c, u)
           n == IF f.node = NULL THEN Len(c.node) + 1 ELSE f.node
           N == Len(c.node)
<1>1. b \in Bucket /\ u # NoUser
  BY UserAssumption
<1>2. Sound(c) /\ clock \in Nat /\ N \in Nat /\ N >= 1
      /\ \A i \in 1 .. N : c.node[i].user # NoUser => uhash[c.node[i].user] = b
  BY <1>1, Lengths DEF ChainInv
<1>3. /\ own' = [own EXCEPT ![w] = [user |-> u, node |-> n]] /\ clock' = clock
      /\ \/ /\ f.how = "held" /\ clock >= c.node[n].ltime + LockExpiry
            /\ chain' = [chain EXCEPT ![b].node[n].ltime = clock]
         \/ /\ f.how = "free" /\ n <= MaxNodes
            /\ chain' = [chain EXCEPT ![b] = Grab(c, u, f.node)]
  BY DEF lock_get
<1>4. PICK L, s, k : Shape(c, L, s, k)
  BY <1>2 DEF Sound
<1>5. \/ f.how = "fault"
      \/ f.how = "held" /\ f.node \in 1 .. N /\ c.node[f.node].user = u
      \/ /\ f.how = "free"
         /\ \A i \in 1 .. N : c.node[i].user # u
         /\ \/ c.last = NULL /\ k < s /\ f.node = c.first
            \/ /\ c.last # NULL /\ s <= k /\ c.first = L[s] /\ c.last = L[k]
               /\ f.node = IF k = N THEN NULL ELSE L[k + 1]
  BY <1>2, <1>4, FindIs
<1> HIDE DEF f
\* It is enough that the chain changes for this user alone.
<1>6. ASSUME NEW d, Changed(b, d, u), LockIn(d, u) = [held |-> TRUE, ltime |-> clock],
             n \in 1 .. Len(d.node), d.node[n].user = u, d.node[n].ltime = clock
      PROVE  ChainInv' /\ Given(w, u)
             /\ AbsLock' = [AbsLock EXCEPT ![u] = [held |-> TRUE, ltime |-> clock]]
  <2>1. /\ AbsLock' = [AbsLock EXCEPT ![u] = LockIn(d, u)]
        /\ chain' \in [Bucket -> ChainType]
        /\ \A a \in Bucket : Sound(chain'[a])
        /\ \A a \in Bucket : \A i \in 1 .. Len(chain'[a].node) :
             chain'[a].node[i].user # NoUser => uhash[chain'[a].node[i].user] = a
        /\ \A a \in Bucket : Len(chain[a].node) <= Len(chain'[a].node)
        /\ \A a \in Bucket : Untouched(chain[a], chain'[a], u)
    BY <1>6, ChangeOne
  <2>2. chain'[b] = d
    BY <1>1, <1>6 DEF ChainInv, Changed
  <2>3. \A a \in Bucket : Len(chain'[a].node) \in Nat
    BY <2>1, Lengths
  <2> DEFINE o == [user |-> u, node |-> n]
  <2>4. o.user = u /\ o.node = n /\ own' = [own EXCEPT ![w] = o]
    BY <1>3
  <2> HIDE DEF o, n
  <2>5. o.user \in User /\ o.node \in 1 .. Len(chain'[uhash[o.user]].node)
    BY <1>6, <2>2, <2>4
  <2>6. /\ DOMAIN own' = Worker
        /\ \A x \in Worker :
             own'[x] = NoOwn \/ (own'[x].user \in User
                                 /\ own'[x].node \in 1 .. Len(chain'[uhash[own'[x].user]].node))
    BY <2>1, <2>3, <2>4, <2>5, OwnersKept
  <2>7. clock' \in Nat
    BY <1>2, <1>3
  <2>8. ChainInv'
    BY <2>1, <2>6, <2>7 DEF ChainInv
  <2>9. Given(w, u)
    <3>1. own' = [own EXCEPT ![w] = [user |-> u, node |-> n]]
      BY <1>3
    <3>2. chain'[uhash[u]].node[n].user = u /\ chain'[uhash[u]].node[n].ltime = clock
      BY <1>6, <2>2
    <3> QED
      BY <2>1, <3>1, <3>2 DEF Given
  <2> QED
    BY <1>6, <2>1, <2>8, <2>9
<1>7. AbsLock[u] = LockIn(c, u)
  BY DEF AbsLock
<1>8. NULL \notin 1 .. N
  BY DEF NULL
<1>9. CASE f.how = "held"
  <2>1. f.node \in 1 .. N /\ c.node[f.node].user = u /\ n = f.node
    BY <1>5, <1>8, <1>9
  <2>2. clock >= c.node[n].ltime + LockExpiry /\ chain' = [chain EXCEPT ![b].node[n].ltime = clock]
    BY <1>3, <1>9
  <2> DEFINE d == [c EXCEPT !.node[n].ltime = clock]
  <2>3. chain' = [chain EXCEPT ![b] = d]
    BY <2>2
  <2>4. /\ Sound(d) /\ Len(d.node) = N
        /\ \A i \in 1 .. N :
             /\ d.node[i].user = c.node[i].user
             /\ d.node[i].ltime = IF i = n THEN clock ELSE c.node[i].ltime
    <3> HIDE DEF c, n
    <3> QED
      BY <1>2, <2>1, RelockSound
  <2> HIDE DEF d, n
  <2>5. LockIn(d, u) = [held |-> TRUE, ltime |-> clock]
    <3>1. n \in 1 .. Len(d.node) /\ d.node[n].user = u /\ d.node[n].ltime = clock
      BY <2>1, <2>4
    <3> QED
      BY <1>1, <2>4, <3>1, LockHeld
  <2>6. ASSUME NEW v \in User, v # u PROVE LockIn(d, v) = LockIn(c, v)
    <3>1. v # NoUser
      BY UserAssumption
    <3>2. \A i \in 1 .. N : c.node[i].user = v =>
            i \in 1 .. Len(d.node) /\ d.node[i].user = v /\ d.node[i].ltime = c.node[i].ltime
      BY <2>1, <2>4, <2>6
    <3>3. \A i \in 1 .. Len(d.node) : d.node[i].user = v => i \in 1 .. N /\ c.node[i].user = v
      BY <2>4
    <3> QED
      BY <1>2, <2>4, <3>1, <3>2, <3>3, LockKept
  <2>7. Changed(b, d, u)
    <3>1. \A i \in 1 .. Len(d.node) : d.node[i].user # NoUser => uhash[d.node[i].user] = b
      BY <1>2, <2>4
    <3>2. \A v \in User \ {u} : LockIn(d, v) = LockIn(c, v)
      BY <2>6
    <3>3. Len(c.node) <= Len(d.node)
      BY <1>2, <2>4
    <3>4. Untouched(c, d, u)
      BY <2>1, <2>4 DEF Untouched
    <3> QED
      BY <2>3, <2>4, <3>1, <3>2, <3>3, <3>4 DEF Changed
  <2>8. AbsLock[u].held => clock >= AbsLock[u].ltime + LockExpiry
    <3>1. LockIn(c, u) = [held |-> TRUE, ltime |-> c.node[n].ltime]
      BY <1>1, <1>2, <2>1, LockHeld
    <3> QED
      BY <1>7, <2>2, <3>1
  <2>9. n \in 1 .. Len(d.node) /\ d.node[n].user = u /\ d.node[n].ltime = clock
    BY <2>1, <2>4
  <2> QED
    BY <1>3, <1>6, <2>5, <2>7, <2>8, <2>9
<1>10. CASE f.how = "free"
  <2>1. n <= MaxNodes /\ chain' = [chain EXCEPT ![b] = Grab(c, u, f.node)]
    BY <1>3, <1>10
  <2>2. /\ \A i \in 1 .. N : c.node[i].user # u
        /\ \/ c.last = NULL /\ k < s /\ f.node = c.first
           \/ /\ c.last # NULL /\ s <= k /\ c.first = L[s] /\ c.last = L[k]
              /\ f.node = IF k = N THEN NULL ELSE L[k + 1]
    BY <1>5, <1>10
  <2>3. ~AbsLock[u].held
    <3>1. LockIn(c, u) = FreeLock
      BY <1>2, <2>2, LockFree
    <3> QED
      BY <1>7, <3>1 DEF FreeLock
  <2> DEFINE d == Grab(c, u, f.node)
  <2>4. /\ Sound(d) /\ N <= Len(d.node) /\ n \in 1 .. Len(d.node)
        /\ \A i \in 1 .. Len(d.node) :
             /\ i # n => i \in 1 .. N /\ d.node[i].user = c.node[i].user
                         /\ d.node[i].ltime = c.node[i].ltime
             /\ i = n => d.node[i].user = u /\ d.node[i].ltime = clock
        /\ n \in 1 .. N => c.node[n].user = NoUser
    <3> DEFINE m == f.node
    <3>1. n = (IF m = NULL THEN Len(c.node) + 1 ELSE m) /\ n <= MaxNodes
      BY <2>1
    <3>2. \/ c.last = NULL /\ k < s /\ m = c.first
          \/ /\ c.last # NULL /\ s <= k /\ c.first = L[s] /\ c.last = L[k]
             /\ m = IF k = Len(c.node) THEN NULL ELSE L[k + 1]
      BY <2>2
    <3>3. d = Grab(c, u, m)
      OBVIOUS
    <3>4. \A i \in 1 .. Len(c.node) : c.node[i].user # u
      BY <2>2
    <3> HIDE DEF m, c, d, n
    <3>5. Grabbed(c, Grab(c, u, m), u, n)
      BY <1>2, <1>4, <3>1, <3>2, <3>4, GrabSound
    <3> QED
      BY <3>3, <3>5 DEF Grabbed
  <2> HIDE DEF d, n
  <2>5. LockIn(d, u) = [held |-> TRUE, ltime |-> clock]
    <3>1. d.node[n].user = u /\ d.node[n].ltime = clock
      BY <2>4
    <3> QED
      BY <1>1, <2>4, <3>1, LockHeld
  <2>6. ASSUME NEW v \in User, v # u PROVE LockIn(d, v) = LockIn(c, v)
    <3>1. v # NoUser
      BY UserAssumption
    <3>2. \A i \in 1 .. N : c.node[i].user = v =>
            i \in 1 .. Len(d.node) /\ d.node[i].user = v /\ d.node[i].ltime = c.node[i].ltime
      <4> SUFFICES ASSUME NEW i \in 1 .. N, c.node[i].user = v
                   PROVE  i \in 1 .. Len(d.node) /\ d.node[i].user = v
                          /\ d.node[i].ltime = c.node[i].ltime
        OBVIOUS
      <4>1. i # n
        BY <2>4, <3>1
      <4>2. i \in 1 .. Len(d.node)
        <5>1. Len(d.node) \in Nat
          BY <2>4, Lengths
        <5> QED
          BY <1>2, <2>4, <5>1
      <4> QED
        BY <2>4, <4>1, <4>2
    <3>3. \A i \in 1 .. Len(d.node) : d.node[i].user = v => i \in 1 .. N /\ c.node[i].user = v
      BY <2>4, <2>6
    <3> QED
      BY <1>2, <2>4, <3>1, <3>2, <3>3, LockKept
  <2>7. Changed(b, d, u)
    <3>1. \A i \in 1 .. Len(d.node) : d.node[i].user # NoUser => uhash[d.node[i].user] = b
      BY <1>2, <2>4
    <3>2. \A v \in User \ {u} : LockIn(d, v) = LockIn(c, v)
      BY <2>6
    <3>3. chain' = [chain EXCEPT ![b] = d]
      BY <2>1 DEF d
    <3>4. Untouched(c, d, u)
      <4> SUFFICES ASSUME NEW i \in 1 .. N, c.node[i].user \notin {u, NoUser}
                   PROVE  d.node[i].user = c.node[i].user /\ d.node[i].ltime = c.node[i].ltime
        BY DEF Untouched
      <4>1. i # n
        BY <2>4
      <4>2. i \in 1 .. Len(d.node)
        <5>1. Len(d.node) \in Nat
          BY <2>4, Lengths
        <5> QED
          BY <1>2, <2>4, <5>1
      <4> QED
        BY <2>4, <4>1, <4>2
    <3> QED
      BY <2>4, <3>1, <3>2, <3>3, <3>4 DEF Changed
  <2>8. d.node[n].user = u /\ d.node[n].ltime = clock
    BY <2>4
  <2> QED
    BY <1>3, <1>6, <2>3, <2>4, <2>5, <2>7, <2>8
<1> QED
  BY <1>3, <1>9, <1>10

\* What lock_put() does to the locks: it frees the lock of the user whose name
\* the node carries.
LEMMA PutStep ==
  ASSUME ChainInv, NEW w \in Worker, lock_put(w)
  PROVE  /\ ChainInv'
         /\ \E v \in User : /\ AbsLock[v].held /\ AbsLock' = [AbsLock EXCEPT ![v] = FreeLock]
                            /\ v = chain[uhash[own[w].user]].node[own[w].node].user
                            /\ \A b \in Bucket : Untouched(chain[b], chain'[b], v)
         /\ clock' = clock
<1> DEFINE b == uhash[own[w].user]
           c == chain[b]
           n == own[w].node
           d == Released(c, n)
           v == c.node[n].user
           N == Len(c.node)
<1>1. /\ own[w] # NoOwn /\ ~PutFaults(c, n)
      /\ chain' = [chain EXCEPT ![b] = Released(@, n)]
      /\ own' = [own EXCEPT ![w] = NoOwn] /\ clock' = clock
  BY DEF lock_put
<1>2. own[w].user \in User /\ n \in 1 .. N
  BY <1>1 DEF ChainInv
<1>3. b \in Bucket
  BY <1>2, UserAssumption
<1>4. chain' = [chain EXCEPT ![b] = d]
  BY <1>1, <1>3 DEF ChainInv
<1>5. Sound(c) /\ clock \in Nat /\ N \in Nat
      /\ \A i \in 1 .. N : c.node[i].user # NoUser => uhash[c.node[i].user] = b
  BY <1>3, Lengths DEF ChainInv
<1> HIDE DEF b, c, n
<1>6. /\ Sound(d) /\ Len(d.node) = Len(c.node) /\ c.node[n].user # NoUser
      /\ \A i \in 1 .. Len(c.node) :
           /\ d.node[i].user = IF i = n THEN NoUser ELSE c.node[i].user
           /\ d.node[i].ltime = c.node[i].ltime
  BY <1>1, <1>2, <1>5, ReleaseSound
<1> HIDE DEF d
<1>7. v \in User /\ uhash[v] = b
  <2>1. c.node[n] \in NodeType
    <3>1. c.node \in Seq(NodeType)
      BY <1>5 DEF Sound, ChainType
    <3> QED
      BY <1>2, <3>1
  <2> QED
    BY <1>2, <1>5, <1>6, <2>1 DEF NodeType
<1>8. \A i \in 1 .. N : i # n => c.node[i].user # v
  <2>1. DOMAIN c.node = 1 .. N
    BY <1>5 DEF Sound, ChainType
  <2> QED
    BY <1>2, <1>5, <1>6, <2>1 DEF Sound, Single
<1>9. LockIn(c, v) = [held |-> TRUE, ltime |-> c.node[n].ltime]
  BY <1>2, <1>5, <1>6, LockHeld
<1>10. LockIn(d, v) = FreeLock
  <2>1. \A i \in 1 .. Len(d.node) : d.node[i].user # v
    BY <1>6, <1>8
  <2> HIDE DEF v
  <2> QED
    BY <1>6, <2>1, LockFree
<1>11. ASSUME NEW x \in User, x # v PROVE LockIn(d, x) = LockIn(c, x)
  <2>1. x # NoUser
    BY UserAssumption
  <2>2. \A i \in 1 .. Len(c.node) : c.node[i].user = x =>
          i \in 1 .. Len(d.node) /\ d.node[i].user = x /\ d.node[i].ltime = c.node[i].ltime
    BY <1>6, <1>11
  <2>3. \A i \in 1 .. Len(d.node) : d.node[i].user = x => i \in 1 .. Len(c.node) /\ c.node[i].user = x
    BY <1>6, <2>1
  <2> QED
    BY <1>5, <1>6, <2>1, <2>2, <2>3, LockKept
<1>12. Changed(b, d, v)
  <2>1. \A i \in 1 .. Len(d.node) : d.node[i].user # NoUser => uhash[d.node[i].user] = b
    BY <1>5, <1>6
  <2>2. \A x \in User \ {v} : LockIn(d, x) = LockIn(chain[b], x)
    BY <1>11 DEF c
  <2>3. Len(chain[b].node) <= Len(d.node)
    BY <1>5, <1>6 DEF c
  <2>4. Untouched(chain[b], d, v)
    BY <1>6 DEF c, Untouched
  <2> HIDE DEF v
  <2> QED
    BY <1>4, <1>6, <2>1, <2>2, <2>3, <2>4 DEF Changed
<1>0. v = chain[uhash[own[w].user]].node[own[w].node].user
  BY DEF b, c, n
<1> HIDE DEF v
<1>13. /\ AbsLock' = [AbsLock EXCEPT ![v] = LockIn(d, v)]
       /\ chain' \in [Bucket -> ChainType]
       /\ \A a \in Bucket : Sound(chain'[a])
       /\ \A a \in Bucket : \A i \in 1 .. Len(chain'[a].node) :
            chain'[a].node[i].user # NoUser => uhash[chain'[a].node[i].user] = a
       /\ \A a \in Bucket : Len(chain[a].node) <= Len(chain'[a].node)
       /\ \A a \in Bucket : Untouched(chain[a], chain'[a], v)
  BY <1>7, <1>12, ChangeOne
<1>14. \A a \in Bucket : Len(chain'[a].node) \in Nat
  BY <1>13, Lengths
<1>15. /\ DOMAIN own' = Worker
       /\ \A x \in Worker :
            own'[x] = NoOwn \/ (own'[x].user \in User
                                /\ own'[x].node \in 1 .. Len(chain'[uhash[own'[x].user]].node))
  BY <1>1, <1>13, <1>14, OwnersKept
<1>16. clock' \in Nat
  BY <1>1, <1>5
<1>17. ChainInv'
  BY <1>13, <1>15, <1>16 DEF ChainInv
<1>18. AbsLock[v].held
  <2>1. AbsLock[v] = LockIn(c, v)
    BY <1>7 DEF AbsLock, c
  <2>2. LockIn(c, v).held = TRUE
    BY <1>9
  <2> QED
    BY <2>1, <2>2
<1> QED
  BY <1>0, <1>1, <1>7, <1>10, <1>13, <1>17, <1>18
-----------------------------------------------------------------------------
(* The start, a restart and the clock. *)

LEMMA EmptySound ==
  /\ EmptyChain \in ChainType /\ Sound(EmptyChain)
  /\ EmptyChain.node[1].user = NoUser /\ Len(EmptyChain.node) = 1
  /\ \A u \in User : LockIn(EmptyChain, u) = FreeLock
<1> DEFINE c == EmptyChain
           L == [i \in 1 .. 1 |-> 1]
<1>1. /\ c.node = <<Node(NoUser, 0, NULL)>> /\ c.first = 1 /\ c.last = NULL
      /\ c = [node |-> c.node, first |-> c.first, last |-> c.last]
  BY DEF EmptyChain
<1>2. Node(NoUser, 0, NULL) = [user |-> NoUser, ltime |-> 0, next |-> NULL, prev |-> NULL]
  BY DEF Node
<1> HIDE DEF c
<1>3. Len(c.node) = 1 /\ c.node[1] = Node(NoUser, 0, NULL) /\ DOMAIN c.node = 1 .. 1
  BY <1>1
<1>4. Node(NoUser, 0, NULL) \in NodeType
  BY <1>2 DEF NodeType, NULL
<1>5. c.node \in Seq(NodeType)
  BY <1>1, <1>4
<1>6. c \in ChainType
  <2>1. c = [node |-> <<Node(NoUser, 0, NULL)>>, first |-> 1, last |-> NULL]
    BY DEF c, EmptyChain
  <2>2. <<Node(NoUser, 0, NULL)>> \in Seq(NodeType)
    BY <1>4
  <2> QED
    BY <2>1, <2>2 DEF ChainType, NULL
<1>7. c.node[1].user = NoUser /\ c.node[1].next = NULL /\ c.node[1].prev = NULL
  BY <1>2, <1>3
<1>8. \A i \in 1 .. 1 : i = 1
  OBVIOUS
<1>9. Linked(c, L)
  <2>1. L \in [1 .. 1 -> 1 .. 1] /\ L[1] = 1 /\ 1 \in 1 .. 1
    OBVIOUS
  <2> HIDE DEF L
  <2> QED
    BY <1>3, <1>7, <1>8, <2>1 DEF Linked
<1>10. HeldAt(c, L, 1, 0)
  <2>1. L[1] = 1
    OBVIOUS
  <2> HIDE DEF L
  <2> QED
    BY <1>3, <1>7, <1>8, <2>1 DEF HeldAt
<1>11. Marked(c, L, 1, 0)
  BY <1>1 DEF Marked
<1>12. Single(c)
  BY <1>3, <1>8 DEF Single
<1> HIDE DEF L
<1>13. Sound(c)
  <2>1. \E M, s, k : Shape(c, M, s, k)
    BY <1>9, <1>10, <1>11 DEF Shape
  <2> QED
    BY <1>1, <1>3, <1>6, <1>12, <2>1, BoundAssumption DEF Sound, NULL
<1>14. \A u \in User : LockIn(c, u) = FreeLock
  <2> TAKE u \in User
  <2>1. \A i \in 1 .. Len(c.node) : c.node[i].user # u
    BY <1>3, <1>7, <1>8, UserAssumption
  <2> QED
    BY <1>13, <2>1, LockFree
<1> QED
  BY <1>3, <1>6, <1>7, <1>13, <1>14 DEF c

\* An empty table satisfies the invariant, and nobody holds a lock in it.
LEMMA EmptyTable ==
  clock \in Nat /\ chain = [b \in Bucket |-> EmptyChain] /\ own = [w \in Worker |-> NoOwn]
    => ChainInv /\ AbsLock = [u \in User |-> FreeLock]
<1> SUFFICES ASSUME clock \in Nat, chain = [b \in Bucket |-> EmptyChain],
                    own = [w \in Worker |-> NoOwn]
             PROVE  ChainInv /\ AbsLock = [u \in User |-> FreeLock]
  OBVIOUS
<1>1. \A b \in Bucket : chain[b] = EmptyChain
  OBVIOUS
<1>2. \A u \in User : uhash[u] \in Bucket
  BY UserAssumption
<1>3. chain \in [Bucket -> ChainType]
  BY EmptySound
<1>4. \A b \in Bucket : Sound(chain[b])
  BY <1>1, EmptySound
<1>5. \A b \in Bucket : \A i \in 1 .. Len(chain[b].node) :
        chain[b].node[i].user # NoUser => uhash[chain[b].node[i].user] = b
  <2>1. \A i \in 1 .. 1 : i = 1
    OBVIOUS
  <2> QED
    BY <1>1, <2>1, EmptySound
<1>6. DOMAIN own = Worker /\ \A w \in Worker : own[w] = NoOwn
  OBVIOUS
<1>7. ChainInv
  BY <1>3, <1>4, <1>5, <1>6 DEF ChainInv
<1>8. \A u \in User : LockIn(chain[uhash[u]], u) = FreeLock
  BY <1>1, <1>2, EmptySound
<1> QED
  BY <1>7, <1>8 DEF AbsLock

LEMMA RestartStep ==
  ASSUME ChainInv, Restart
  PROVE  ChainInv' /\ AbsLock' = [u \in User |-> FreeLock] /\ clock' = clock
<1>1. (clock \in Nat /\ chain = [b \in Bucket |-> EmptyChain] /\ own = [w \in Worker |-> NoOwn]
         => ChainInv /\ AbsLock = [u \in User |-> FreeLock])'
  BY EmptyTable, PTL
<1>2. /\ clock' \in Nat /\ clock' = clock
      /\ chain' = [b \in Bucket |-> EmptyChain] /\ own' = [w \in Worker |-> NoOwn]
  BY DEF Restart, ChainInv
<1> QED
  BY <1>1, <1>2

LEMMA QuietStep ==
  ASSUME ChainInv, UNCHANGED <<chain, own>>, clock' \in Nat
  PROVE  ChainInv' /\ AbsLock' = AbsLock
<1>1. chain' = chain /\ own' = own
  OBVIOUS
<1>2. AbsLock' = AbsLock
  BY <1>1 DEF AbsLock
<1> QED
  BY <1>1, <1>2 DEF ChainInv

\* The invariant holds in every reachable state.
LEMMA Invariance ==
  Spec => []ChainInv
<1>1. Init => ChainInv
  BY EmptyTable DEF Init
<1>2. ASSUME ChainInv, [Next]_vars PROVE ChainInv'
  <2>1. CASE \E w \in Worker : lock_put(w)
    BY <1>2, <2>1, PutStep
  <2>2. CASE \E w \in Worker : \E u \in User : lock_get(w, u)
    BY <1>2, <2>2, GetStep
  <2>3. CASE Restart
    BY <1>2, <2>3, RestartStep
  <2>4. CASE Tick
    <3>0. clock \in Nat
      BY <1>2 DEF ChainInv
    <3>1. clock' = clock + 1 /\ UNCHANGED <<chain, own>>
      BY <2>4, Zenon DEF Tick
    <3>2. clock' \in Nat
      BY <3>0, <3>1
    <3> QED
      BY <1>2, <3>1, <3>2, QuietStep
  <2>5. CASE UNCHANGED vars
    <3>0. clock \in Nat
      BY <1>2 DEF ChainInv
    <3>1. clock' \in Nat /\ UNCHANGED <<chain, own>>
      BY <2>5, <3>0 DEF vars
    <3> QED
      BY <1>2, <3>1, QuietStep
  <2> QED
    BY <1>2, <2>1, <2>2, <2>3, <2>4, <2>5 DEF Next
<1> QED
  BY <1>1, <1>2, PTL DEF Spec
-----------------------------------------------------------------------------
(* The theorems. *)

\* Every link of a chain leads to a node of the chain or is NULL, and every
\* thread's node is one of its user's chain (lock.c:60-84, 91-190: the lists
\* that find_lock(), lock_get() and lock_put() walk and relink).
THEOREM TypeCorrect ==
  Spec => []TypeOK
<1>1. ASSUME NEW c, Sound(c), NEW m \in 1 .. Len(c.node)
      PROVE  c.node[m] \in [user : User \cup {NoUser}, ltime : Nat,
                            next : 0 .. Len(c.node), prev : 0 .. Len(c.node)]
  <2> DEFINE N == Len(c.node)
  <2>1. N \in Nat /\ c.node \in Seq(NodeType)
    BY <1>1, Lengths DEF Sound, ChainType
  <2>2. c.node[m] \in NodeType
    BY <1>1, <2>1
  <2>3. PICK L, s, k : Shape(c, L, s, k)
    BY <1>1 DEF Sound
  <2>4. PICK i \in 1 .. N : L[i] = m
    BY <1>1, <2>3 DEF Shape, Linked
  <2>5. L \in [1 .. N -> 1 .. N]
        /\ c.node[L[i]].next = (IF i = N THEN NULL ELSE L[i + 1])
        /\ c.node[L[i]].prev = (IF i = 1 THEN NULL ELSE L[i - 1])
    BY <2>3 DEF Shape, Linked
  <2> HIDE DEF N
  <2>6. c.node[m].next \in 0 .. N
    <3>1. CASE i = N
      BY <2>1, <2>4, <2>5, <3>1 DEF NULL, N
    <3>2. CASE i # N
      <4>1. i + 1 \in 1 .. N
        BY <2>1, <3>2 DEF N
      <4>2. L[i + 1] \in 1 .. N /\ c.node[m].next = L[i + 1]
        BY <2>4, <2>5, <3>2, <4>1
      <4> QED
        BY <2>1, <4>2 DEF N
    <3> QED
      BY <3>1, <3>2
  <2>7. c.node[m].prev \in 0 .. N
    <3>1. CASE i = 1
      BY <2>1, <2>4, <2>5, <3>1 DEF NULL, N
    <3>2. CASE i # 1
      <4>1. i - 1 \in 1 .. N
        BY <2>1, <3>2 DEF N
      <4>2. L[i - 1] \in 1 .. N /\ c.node[m].prev = L[i - 1]
        BY <2>4, <2>5, <3>2, <4>1
      <4> QED
        BY <2>1, <4>2 DEF N
    <3> QED
      BY <3>1, <3>2
  <2> QED
    BY <2>2, <2>6, <2>7 DEF NodeType, N
<1>2. ChainInv => TypeOK
  <2> SUFFICES ASSUME ChainInv PROVE TypeOK
    OBVIOUS
  <2>1. ASSUME NEW b \in Bucket
        PROVE  LET c == chain[b]  P == 0 .. Len(c.node) IN
               /\ Len(c.node) \in 1 .. MaxNodes
               /\ c.first \in P \ {NULL} /\ c.last \in P
               /\ \A i \in DOMAIN c.node :
                    c.node[i] \in [user : User \cup {NoUser}, ltime : Nat, next : P, prev : P]
    <3> DEFINE c == chain[b]
    <3>1. Sound(c)
      BY DEF ChainInv
    <3> HIDE DEF c
    <3>2. Len(c.node) \in 1 .. MaxNodes /\ c.first \in 1 .. Len(c.node) /\ c.last \in 0 .. Len(c.node)
          /\ DOMAIN c.node = 1 .. Len(c.node)
      BY <3>1 DEF Sound, ChainType
    <3>3. c.first \in (0 .. Len(c.node)) \ {NULL}
      BY <3>1, <3>2, Lengths DEF NULL
    <3>4. \A i \in DOMAIN c.node :
            c.node[i] \in [user : User \cup {NoUser}, ltime : Nat,
                           next : 0 .. Len(c.node), prev : 0 .. Len(c.node)]
      BY <1>1, <3>1, <3>2
    <3> QED
      BY <3>2, <3>3, <3>4 DEF c
  <2>2. ASSUME NEW w \in Worker, own[w] # NoOwn
        PROVE  own[w].node \in DOMAIN chain[uhash[own[w].user]].node
    <3>1. own[w].user \in User /\ own[w].node \in 1 .. Len(chain[uhash[own[w].user]].node)
      BY <2>2 DEF ChainInv
    <3>2. Sound(chain[uhash[own[w].user]])
      BY <3>1, UserAssumption DEF ChainInv
    <3> QED
      BY <3>1, <3>2 DEF Sound, ChainType
  <2>3. clock \in Nat
    BY DEF ChainInv
  <2> QED
    BY <2>1, <2>2, <2>3 DEF TypeOK
<1> QED
  BY <1>2, Invariance, PTL

\* The chains of lock.c implement the lock they promise: a lock is given out
\* only when it is free or has expired, and it is given back one at a time
\* (lock.c:86-90, "NULL otherwise (unexpired lock already held by someone
\* else)"), until a fault restarts the daemon.
THEOREM ChainImplementsLock ==
  Spec => ImplementsUserLock
<1> DEFINE L == [u \in User |->
                   IF HeldNodes(u) = {} THEN [held |-> FALSE, ltime |-> 0]
                   ELSE [held |-> TRUE,
                         ltime |-> chain[uhash[u]].node[CHOOSE i \in HeldNodes(u) : TRUE].ltime]]
<1>1. L = AbsLock
  BY DEF AbsLock, LockIn, HeldNodes, FreeLock
<1>2. Init => Lock!Init
  <2> SUFFICES ASSUME Init PROVE Lock!Init
    OBVIOUS
  <2>1. clock \in Nat /\ AbsLock = [u \in User |-> FreeLock]
    BY EmptyTable DEF Init
  <2>2. L = [u \in User |-> Lock!Free]
    BY <1>1, <2>1 DEF FreeLock, Lock!Free
  <2> QED
    BY <2>1, <2>2 DEF Lock!Init
<1>3. L' = AbsLock'
  BY DEF AbsLock, LockIn, HeldNodes, FreeLock
<1>4. ASSUME NEW u \in User,
             AbsLock[u].held => clock >= AbsLock[u].ltime + LockExpiry,
             AbsLock' = [AbsLock EXCEPT ![u] = [held |-> TRUE, ltime |-> clock]],
             clock' = clock
      PROVE  Lock!Next
  <2> HIDE DEF L
  <2>1. Lock!Acquire(u)
    BY <1>1, <1>3, <1>4 DEF Lock!Acquire, L
  <2> QED
    BY <2>1 DEF Lock!Next
<1>5. ASSUME NEW u \in User, AbsLock[u].held, AbsLock' = [AbsLock EXCEPT ![u] = FreeLock],
             clock' = clock
      PROVE  Lock!Next
  <2>1. Lock!Release(u)
    BY <1>1, <1>3, <1>5 DEF Lock!Release, Lock!Free, FreeLock
  <2> QED
    BY <2>1 DEF Lock!Next
<1>6. ASSUME AbsLock' = [u \in User |-> FreeLock], clock' = clock
      PROVE  Lock!Next
  <2>1. Lock!Restart
    BY <1>1, <1>3, <1>6 DEF Lock!Restart, Lock!Free, FreeLock
  <2> QED
    BY <2>1 DEF Lock!Next
<1>7. ASSUME clock' = clock + 1, AbsLock' = AbsLock PROVE Lock!Next
  <2>1. Lock!Tick
    BY <1>1, <1>3, <1>7 DEF Lock!Tick
  <2> QED
    BY <2>1 DEF Lock!Next
<1>8. ASSUME clock' = clock, AbsLock' = AbsLock PROVE UNCHANGED <<clock, L>>
  BY <1>1, <1>3, <1>8
<1>9. ChainInv /\ [Next]_vars => [Lock!Next]_<<clock, L>>
  <2> SUFFICES ASSUME ChainInv, [Next]_vars
               PROVE  Lock!Next \/ UNCHANGED <<clock, L>>
    OBVIOUS
  <2> HIDE DEF L
  <2>1. CASE \E w \in Worker : lock_put(w)
    BY <1>5, <2>1, PutStep
  <2>2. CASE \E w \in Worker : \E u \in User : lock_get(w, u)
    BY <1>4, <2>2, GetStep
  <2>3. CASE Restart
    BY <1>6, <2>3, RestartStep
  <2>4. CASE Tick
    <3>0. clock \in Nat
      BY DEF ChainInv
    <3>1. clock' = clock + 1 /\ UNCHANGED <<chain, own>>
      BY <2>4, Zenon DEF Tick
    <3>2. clock' \in Nat
      BY <3>0, <3>1
    <3>3. AbsLock' = AbsLock
      BY <3>1, <3>2, QuietStep
    <3> QED
      BY <1>7, <3>1, <3>3
  <2>5. CASE UNCHANGED vars
    <3>0. clock \in Nat
      BY DEF ChainInv
    <3>1. clock' = clock /\ clock' \in Nat /\ UNCHANGED <<chain, own>>
      BY <2>5, <3>0 DEF vars
    <3>2. AbsLock' = AbsLock
      BY <3>1, QuietStep
    <3> QED
      BY <1>8, <3>1, <3>2
  <2> QED
    BY <2>1, <2>2, <2>3, <2>4, <2>5 DEF Next
<1> QED
  BY <1>2, <1>9, Invariance, PTL DEF Spec, ImplementsUserLock, Lock!Spec
-----------------------------------------------------------------------------
(* The owners. *)

NodeOf(w) == chain[uhash[own[w].user]].node[own[w].node]

\* The node a thread was given still carries its user's name and has not
\* expired, and no two threads have the lock of the same user.
OwnersApart ==
  /\ \A w \in Worker : own[w] # NoOwn =>
       NodeOf(w).user = own[w].user /\ clock < NodeOf(w).ltime + LockExpiry
  /\ \A v, w \in Worker :
       own[v] # NoOwn /\ own[w] # NoOwn /\ own[v].user = own[w].user => v = w

\* An owner's node is as it was if the step concerns another user.
LEMMA OthersKept ==
  ASSUME ChainInv, OwnersApart, NEW u, NEW x \in Worker, own[x] # NoOwn, own[x].user # u,
         own'[x] = own[x], \A b \in Bucket : Untouched(chain[b], chain'[b], u)
  PROVE  NodeOf(x)'.user = NodeOf(x).user /\ NodeOf(x)'.ltime = NodeOf(x).ltime
<1> DEFINE b == uhash[own[x].user]
           n == own[x].node
<1>1. own[x].user \in User /\ n \in 1 .. Len(chain[b].node)
  BY DEF ChainInv
<1>2. b \in Bucket /\ own[x].user # NoUser
  BY <1>1, UserAssumption
<1>3. chain[b].node[n].user \notin {u, NoUser}
  BY <1>2 DEF OwnersApart, NodeOf
<1>4. /\ chain'[b].node[n].user = chain[b].node[n].user
      /\ chain'[b].node[n].ltime = chain[b].node[n].ltime
  BY <1>1, <1>2, <1>3 DEF Untouched
<1> QED
  BY <1>4 DEF NodeOf

\* While its owner has not expired, a user's lock is held.
LEMMA OwnerHolds ==
  ASSUME ChainInv, OwnersApart, NEW x \in Worker, own[x] # NoOwn
  PROVE  /\ AbsLock[own[x].user].held
         /\ ~(clock >= AbsLock[own[x].user].ltime + LockExpiry)
<1> DEFINE u == own[x].user
           c == chain[uhash[u]]
           n == own[x].node
<1>1. u \in User /\ n \in 1 .. Len(c.node)
  BY DEF ChainInv
<1>2. Sound(c) /\ u # NoUser /\ clock \in Nat
  BY <1>1, UserAssumption DEF ChainInv
<1>3. c.node[n].user = u /\ clock < c.node[n].ltime + LockExpiry
  BY DEF OwnersApart, NodeOf
<1>4. AbsLock[u] = LockIn(c, u)
  BY <1>1 DEF AbsLock
<1>5. c.node[n].ltime \in Nat
  <2>1. c.node \in Seq(NodeType)
    BY <1>2 DEF Sound, ChainType
  <2>2. c.node[n] \in NodeType
    BY <1>1, <2>1
  <2> QED
    BY <2>2 DEF NodeType
<1> HIDE DEF c, n, u
<1>6. LockIn(c, u) = [held |-> TRUE, ltime |-> c.node[n].ltime]
  BY <1>1, <1>2, <1>3, LockHeld
<1>7. AbsLock[u].held = TRUE /\ AbsLock[u].ltime = c.node[n].ltime
  BY <1>4, <1>6
<1>8. ~(clock >= AbsLock[u].ltime + LockExpiry)
  BY <1>2, <1>3, <1>5, <1>7, BoundAssumption
<1> QED
  BY <1>7, <1>8 DEF u

\* As long as no thread keeps a lock past its expiry, the locks that lock_get()
\* gives out are exclusive and stay with their owners: whatever other users
\* hash to the same chain, no other thread's lock_get() or lock_put() touches
\* the node (lock.c:91-139, 145-175).
THEOREM OwnersExclusive == ASSUME ~SlowHolder PROVE Spec => []OwnersApart
<1>1. Init => OwnersApart
  BY DEF Init, OwnersApart
<1>2. ASSUME ChainInv, OwnersApart, [Next]_vars PROVE OwnersApart'
  <2>1. ASSUME NEW w \in Worker, lock_put(w) PROVE OwnersApart'
    <3> DEFINE u == own[w].user
    <3>1. own[w] # NoOwn /\ own' = [own EXCEPT ![w] = NoOwn]
      BY <2>1 DEF lock_put
    <3>2. u = NodeOf(w).user
      BY <1>2, <3>1 DEF OwnersApart
    <3>3. clock' = clock /\ \A b \in Bucket : Untouched(chain[b], chain'[b], u)
      BY <1>2, <2>1, <3>2, PutStep DEF NodeOf
    <3>4. own'[w] = NoOwn /\ \A x \in Worker : x # w => own'[x] = own[x]
      BY <1>2, <3>1 DEF ChainInv
    <3>5. ASSUME NEW x \in Worker, own'[x] # NoOwn
          PROVE  /\ own[x] # NoOwn /\ own'[x] = own[x]
                 /\ NodeOf(x)'.user = own'[x].user
                 /\ clock' < NodeOf(x)'.ltime + LockExpiry
      <4>1. x # w /\ own'[x] = own[x] /\ own[x] # NoOwn
        BY <3>4, <3>5
      <4>2. own[x].user # u
        BY <1>2, <3>1, <4>1 DEF OwnersApart
      <4> HIDE DEF u
      <4>3. NodeOf(x)'.user = NodeOf(x).user /\ NodeOf(x)'.ltime = NodeOf(x).ltime
        BY <1>2, <3>3, <4>1, <4>2, OthersKept
      <4> QED
        BY <1>2, <3>3, <4>1, <4>3 DEF OwnersApart
    <3>6. \A x \in Worker : own'[x] # NoOwn =>
            NodeOf(x)'.user = own'[x].user /\ clock' < NodeOf(x)'.ltime + LockExpiry
      BY <3>5
    <3>7. \A x, y \in Worker :
            own'[x] # NoOwn /\ own'[y] # NoOwn /\ own'[x].user = own'[y].user => x = y
      BY <1>2, <3>5 DEF OwnersApart
    <3> QED
      BY <3>6, <3>7 DEF OwnersApart
  <2>2. ASSUME NEW w \in Worker, NEW u \in User, lock_get(w, u) PROVE OwnersApart'
    <3>1. /\ AbsLock[u].held => clock >= AbsLock[u].ltime + LockExpiry
          /\ clock' = clock /\ Given(w, u)
      BY <1>2, <2>2, GetStep
    <3>2. PICK n : /\ own' = [own EXCEPT ![w] = [user |-> u, node |-> n]]
                   /\ chain'[uhash[u]].node[n].user = u
                   /\ chain'[uhash[u]].node[n].ltime = clock
      BY <3>1 DEF Given
    <3>3. own[w] = NoOwn
      BY <2>2 DEF lock_get
    <3>4. /\ own'[w] = [user |-> u, node |-> n]
          /\ \A x \in Worker : x # w => own'[x] = own[x]
      BY <1>2, <3>2 DEF ChainInv
    <3>5. NodeOf(w)'.user = own'[w].user /\ clock' < NodeOf(w)'.ltime + LockExpiry
      <4>1. NodeOf(w)' = chain'[uhash[u]].node[n]
        BY <3>4 DEF NodeOf
      <4>2. clock \in Nat
        BY <1>2 DEF ChainInv
      <4>3. clock < clock + LockExpiry
        BY <4>2, BoundAssumption
      <4> QED
        BY <3>1, <3>2, <3>4, <4>1, <4>3
    <3>6. ASSUME NEW x \in Worker, x # w, own'[x] # NoOwn
          PROVE  /\ own[x] # NoOwn /\ own'[x] = own[x] /\ own[x].user # u
                 /\ NodeOf(x)'.user = own'[x].user
                 /\ clock' < NodeOf(x)'.ltime + LockExpiry
      <4>1. own'[x] = own[x] /\ own[x] # NoOwn
        BY <3>4, <3>6
      <4>2. own[x].user # u
        BY <1>2, <3>1, <4>1, OwnerHolds
      <4>3. NodeOf(x)'.user = NodeOf(x).user /\ NodeOf(x)'.ltime = NodeOf(x).ltime
        BY <1>2, <3>1, <4>1, <4>2, OthersKept DEF Given
      <4> QED
        BY <1>2, <3>1, <4>1, <4>2, <4>3 DEF OwnersApart
    <3>7. \A x \in Worker : own'[x] # NoOwn =>
            NodeOf(x)'.user = own'[x].user /\ clock' < NodeOf(x)'.ltime + LockExpiry
      BY <3>5, <3>6
    <3>8. \A x, y \in Worker :
            own'[x] # NoOwn /\ own'[y] # NoOwn /\ own'[x].user = own'[y].user => x = y
      <4>1. own'[w].user = u
        BY <3>4
      <4> QED
        BY <1>2, <3>6, <4>1 DEF OwnersApart
    <3> QED
      BY <3>7, <3>8 DEF OwnersApart
  <2>3. CASE Restart
    <3>1. \A x \in Worker : own'[x] = NoOwn
      BY <2>3 DEF Restart
    <3> QED
      BY <3>1 DEF OwnersApart
  <2>4. CASE Tick
    <3>1. clock' = clock + 1 /\ chain' = chain /\ own' = own
      BY <2>4, Zenon DEF Tick
    <3>2. \A x \in Worker : own[x] # NoOwn => clock + 1 < NodeOf(x).ltime + LockExpiry
      BY <2>4, ~SlowHolder, Zenon DEF Tick, NodeOf
    <3>3. \A x \in Worker : NodeOf(x)' = NodeOf(x)
      BY <3>1, Zenon DEF NodeOf
    <3> QED
      BY <1>2, <3>1, <3>2, <3>3 DEF OwnersApart
  <2>5. CASE UNCHANGED vars
    <3>1. clock' = clock /\ chain' = chain /\ own' = own
      BY <2>5 DEF vars
    <3>2. \A x \in Worker : NodeOf(x)' = NodeOf(x)
      BY <3>1, Zenon DEF NodeOf
    <3> QED
      BY <1>2, <3>1, <3>2 DEF OwnersApart
  <2> QED
    BY <1>2, <2>1, <2>2, <2>3, <2>4, <2>5 DEF Next
<1> QED
  BY <1>1, <1>2, Invariance, PTL DEF Spec
-----------------------------------------------------------------------------
(* Without collisions. *)

\* No two users hash to the same chain.
NoCollision == \A u, v \in User : uhash[u] = uhash[v] => u = v

\* A chain of the node lock_init() made, which is last if it is held.
Lone(c) == Len(c.node) = 1 /\ (c.last # NULL => c.node[1].user # NoUser)

LEMMA LoneFacts ==
  ASSUME NEW c, Sound(c), Lone(c)
  PROVE  /\ c.first = 1 /\ c.node[1].prev = NULL
         /\ c.last = IF c.node[1].user = NoUser THEN NULL ELSE 1
         /\ \E L, s, k : Shape(c, L, s, k) /\ L[1] = 1 /\ (c.last = NULL => k < s)
<1>1. Len(c.node) = 1 /\ \A i \in 1 .. 1 : i = 1
  BY DEF Lone
<1>2. c.first = 1 /\ c.last \in {0, 1}
  BY <1>1 DEF Sound
<1>3. PICK L, s, k : Shape(c, L, s, k)
  BY DEF Sound
<1>4. L \in [1 .. 1 -> 1 .. 1] /\ c.node[L[1]].prev = NULL
  BY <1>1, <1>3 DEF Shape, Linked
<1>5. L[1] = 1
  BY <1>1, <1>4
<1>6. /\ s \in 1 .. 2 /\ k \in 0 .. 1
      /\ c.node[1].user # NoUser <=> s <= 1 /\ 1 <= k
  BY <1>1, <1>3, <1>5 DEF Shape, HeldAt
<1>7. c.last = NULL => k < s
  BY <1>3, <1>6 DEF Shape, Marked
<1>8. c.last = NULL => c.node[1].user = NoUser
  BY <1>6, <1>7
<1>9. c.last = IF c.node[1].user = NoUser THEN NULL ELSE 1
  BY <1>2, <1>8 DEF Lone, NULL
<1> QED
  BY <1>2, <1>3, <1>4, <1>5, <1>7, <1>9

\* find_lock() never faults on such a chain.
LEMMA LoneFind ==
  ASSUME NEW c, Sound(c), Lone(c), NEW u \in User
  PROVE  find_lock(c, u) = IF c.last = NULL THEN NotFound(1)
                           ELSE IF c.node[1].user = u THEN Found(1)
                           ELSE NotFound(c.node[1].next)
<1>1. c.first = 1 /\ (c.last = IF c.node[1].user = NoUser THEN NULL ELSE 1)
  BY LoneFacts
<1>2. CASE c.last = NULL
  BY <1>1, <1>2 DEF find_lock
<1>3. CASE c.last # NULL
  <2>1. PICK L, s, k : Shape(c, L, s, k) /\ L[1] = 1
    BY LoneFacts
  <2>2. Len(c.node) = 1 /\ c \in ChainType /\ Linked(c, L) /\ 1 \in 1 .. 1
    BY <2>1 DEF Lone, Sound, Shape
  <2>3. DOMAIN Walk(c) = 0 .. 1 /\ Walk(c)[0] = 1
    <3>1. /\ DOMAIN Walk(c) = 0 .. 1
          /\ \A i \in 0 .. 1 : Walk(c)[i] = IF 1 + i <= 1 THEN L[1 + i] ELSE NULL
      BY <1>1, <2>1, <2>2, WalkIs
    <3> QED
      BY <2>1, <3>1
  <2>4. 0 \in Stops(c, u) /\ Stops(c, u) \subseteq 0 .. 1
    BY <1>1, <1>3, <2>3 DEF Stops
  <2> DEFINE m == CHOOSE i \in Stops(c, u) : \A j \in Stops(c, u) : i <= j
  <2>5. m = 0
    <3>1. \A j \in Stops(c, u) : 0 <= j
      BY <2>4
    <3>2. m \in Stops(c, u) /\ \A j \in Stops(c, u) : m <= j
      BY <2>4, <3>1
    <3> HIDE DEF m
    <3> QED
      BY <2>4, <3>2
  <2>6. Stops(c, u) # {}
    BY <2>4
  <2>7. find_lock(c, u) =
          LET n == Walk(c)[m]
          IN  IF n = NULL \/ c.node[n].user = NoUser THEN Fault
              ELSE IF c.node[n].user = u THEN Found(n)
              ELSE NotFound(c.node[n].next)
    BY <1>3, <2>6, Zenon DEF find_lock
  <2> HIDE DEF m
  <2> QED
    BY <1>1, <1>3, <2>3, <2>5, <2>7 DEF NULL
<1> QED
  BY <1>2, <1>3

AllLone == \A b \in Bucket : Lone(chain[b])

\* lock_get() needs no second node.
LEMMA LoneGet ==
  ASSUME NoCollision, ChainInv, AllLone, NEW w \in Worker, NEW u \in User, lock_get(w, u)
  PROVE  AllLone'
<1> DEFINE b == uhash[u]
           c == chain[b]
           f == find_lock(c, u)
           n == IF f.node = NULL THEN Len(c.node) + 1 ELSE f.node
<1>1. b \in Bucket /\ u # NoUser /\ clock \in Nat
  BY UserAssumption DEF ChainInv
<1>2. Sound(c) /\ Lone(c) /\ c \in ChainType
      /\ \A i \in 1 .. Len(c.node) : c.node[i].user # NoUser => uhash[c.node[i].user] = b
  BY <1>1 DEF ChainInv, AllLone
<1>3. \/ /\ f.how = "held" /\ chain' = [chain EXCEPT ![b].node[n].ltime = clock]
      \/ /\ f.how = "free" /\ chain' = [chain EXCEPT ![b] = Grab(c, u, f.node)]
  BY DEF lock_get
<1>4. ASSUME NEW d, chain' = [chain EXCEPT ![b] = d], Lone(d) PROVE AllLone'
  BY <1>1, <1>4 DEF AllLone, ChainInv
<1> HIDE DEF c, n, b
<1>5. f = IF c.last = NULL THEN NotFound(1)
          ELSE IF c.node[1].user = u THEN Found(1) ELSE NotFound(c.node[1].next)
  BY <1>2, LoneFind
<1>6. Len(c.node) = 1 /\ 1 \in 1 .. Len(c.node)
  BY <1>2 DEF Lone
<1>7. c.last # NULL => c.node[1].user = u
  <2> SUFFICES ASSUME c.last # NULL PROVE c.node[1].user = u
    OBVIOUS
  <2>1. c.node[1].user # NoUser
    BY <1>2 DEF Lone
  <2>2. c.node[1] \in NodeType
    <3>1. c.node \in Seq(NodeType)
      BY <1>2 DEF ChainType
    <3> QED
      BY <1>6, <3>1
  <2>3. c.node[1].user \in User
    BY <2>1, <2>2 DEF NodeType
  <2> QED
    BY <1>2, <1>6, <2>1, <2>3 DEF NoCollision, b
<1> HIDE DEF f
<1>8. CASE c.last = NULL
  <2>1. f.how = "free" /\ f.node = 1
    BY <1>5, <1>8 DEF NotFound
  <2> DEFINE d == Grab(c, u, 1)
  <2>2. chain' = [chain EXCEPT ![b] = d]
    BY <1>3, <2>1
  <2>3. PICK L, s, k : Shape(c, L, s, k) /\ k < s
    BY <1>2, <1>8, LoneFacts
  <2>4. c.first = 1 /\ c.node[1].user = NoUser
    BY <1>2, <1>8, LoneFacts DEF NULL
  <2>5. \A i \in 1 .. Len(c.node) : c.node[i].user # u
    BY <1>1, <1>6, <2>4
  <2>6. /\ Len(d.node) = Len(c.node)
        /\ \A i \in 1 .. Len(c.node) : d.node[i].user = IF i = 1 THEN u ELSE c.node[i].user
    BY <1>1, <1>2, <1>6, <1>8, <2>3, <2>4, <2>5, ReuseSound
  <2> HIDE DEF d
  <2>7. Lone(d)
    BY <1>1, <1>6, <2>6 DEF Lone
  <2> QED
    BY <1>4, <2>2, <2>7
<1>9. CASE c.last # NULL
  <2>1. f.how = "held" /\ f.node = 1
    BY <1>5, <1>7, <1>9 DEF Found
  <2>2. n = 1
    BY <2>1 DEF n, NULL
  <2> DEFINE d == [c EXCEPT !.node[1].ltime = clock]
  <2>3. chain' = [chain EXCEPT ![b] = d]
    BY <1>3, <2>1, <2>2 DEF c
  <2>4. /\ Len(d.node) = Len(c.node)
        /\ \A i \in 1 .. Len(c.node) : d.node[i].user = c.node[i].user
    BY <1>1, <1>2, <1>6, RelockSound
  <2> HIDE DEF d
  <2>5. Lone(d)
    BY <1>1, <1>6, <1>7, <1>9, <2>4 DEF Lone
  <2> QED
    BY <1>4, <2>3, <2>5
<1> QED
  BY <1>8, <1>9

\* lock_put() has the held node in the good place.
LEMMA LonePut ==
  ASSUME ChainInv, AllLone, NEW w \in Worker, lock_put(w)
  PROVE  AllLone'
<1> DEFINE b == uhash[own[w].user]
           c == chain[b]
           n == own[w].node
           d == Released(c, n)
<1>1. /\ own[w] # NoOwn /\ ~PutFaults(c, n)
      /\ chain' = [chain EXCEPT ![b] = Released(@, n)]
  BY DEF lock_put
<1>2. own[w].user \in User /\ n \in 1 .. Len(c.node)
  BY <1>1 DEF ChainInv
<1>3. b \in Bucket
  BY <1>2, UserAssumption
<1>4. chain' = [chain EXCEPT ![b] = d]
  BY <1>1, <1>3 DEF ChainInv
<1>5. Sound(c) /\ Lone(c) /\ c \in ChainType
  BY <1>3 DEF ChainInv, AllLone
<1> HIDE DEF b, c, n
<1>6. n = 1 /\ Len(c.node) = 1
  BY <1>2, <1>5 DEF Lone
<1>7. c.node[n].user # NoUser
  BY <1>1 DEF PutFaults
<1>8. c.last = n /\ c.node[n].prev = NULL
  BY <1>5, <1>6, <1>7, LoneFacts
<1>9. Len(d.node) = 1
  BY <1>2, <1>5, <1>6, <1>7, <1>8, PutLastSound
<1>10. d.last = NULL
  BY <1>5, <1>8 DEF Released, Cleared, ChainType
<1> HIDE DEF d
<1>11. Lone(d)
  BY <1>9, <1>10 DEF Lone
<1> QED
  BY <1>3, <1>4, <1>11 DEF AllLone, ChainInv, b

\* If no two users hash to the same chain and no thread keeps a lock past its
\* expiry, lock_get() and lock_put() always return to their callers: the fault
\* of the lists needs two users in one chain or a late lock_put()
\* (lock.c:60-84, 145-175).
THEOREM FaultNeedsCollision ==
  ASSUME NoCollision, ~SlowHolder PROVE Spec => []NoFault
<1>1. Init => AllLone
  BY EmptySound DEF Init, AllLone, Lone, EmptyChain
<1>2. ASSUME ChainInv, AllLone, [Next]_vars PROVE AllLone'
  <2>1. CASE \E w \in Worker : lock_put(w)
    BY <1>2, <2>1, LonePut
  <2>2. CASE \E w \in Worker : \E u \in User : lock_get(w, u)
    BY <1>2, <2>2, LoneGet
  <2>3. CASE Restart
    <3>1. \A b \in Bucket : chain'[b] = EmptyChain
      BY <2>3 DEF Restart
    <3>2. Lone(EmptyChain)
      BY EmptySound DEF Lone, EmptyChain
    <3> QED
      BY <3>1, <3>2 DEF AllLone
  <2>4. CASE UNCHANGED chain
    BY <1>2, <2>4 DEF AllLone
  <2>5. Tick \/ UNCHANGED vars => UNCHANGED chain
    BY Zenon DEF Tick, vars
  <2> QED
    BY <1>2, <2>1, <2>2, <2>3, <2>4, <2>5 DEF Next
<1>3. ASSUME ChainInv, AllLone, OwnersApart PROVE NoFault
  <2>1. ASSUME NEW w \in Worker, own[w] # NoOwn,
               PutFaults(chain[uhash[own[w].user]], own[w].node)
        PROVE  FALSE
    <3> DEFINE c == chain[uhash[own[w].user]]
               n == own[w].node
    <3>1. own[w].user \in User /\ n \in 1 .. Len(c.node)
      BY <1>3, <2>1 DEF ChainInv
    <3>2. Sound(c) /\ Lone(c) /\ own[w].user # NoUser
      BY <1>3, <3>1, UserAssumption DEF ChainInv, AllLone
    <3>3. c.node[n].user = own[w].user
      BY <1>3, <2>1 DEF OwnersApart, NodeOf
    <3> HIDE DEF c, n
    <3>4. n = 1
      BY <3>1, <3>2 DEF Lone
    <3>5. c.last = n
      BY <3>2, <3>3, <3>4, LoneFacts
    <3> QED
      BY <2>1, <3>2, <3>3, <3>5 DEF PutFaults, c, n
  <2>2. ASSUME NEW u \in User, find_lock(chain[uhash[u]], u) = Fault PROVE FALSE
    <3> DEFINE c == chain[uhash[u]]
    <3>1. Sound(c) /\ Lone(c)
      BY <1>3, UserAssumption DEF ChainInv, AllLone
    <3> HIDE DEF c
    <3>2. find_lock(c, u).how \in {"held", "free"}
      BY <3>1, LoneFind DEF Found, NotFound
    <3> QED
      BY <2>2, <3>2 DEF Fault, c
  <2> QED
    BY <2>1, <2>2 DEF NoFault, Faulty
<1> QED
  BY <1>1, <1>2, <1>3, Invariance, OwnersExclusive, PTL DEF Spec
=============================================================================
