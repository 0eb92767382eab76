------------------------------ MODULE LockChain -----------------------------
(***************************************************************************)
(* lock.c as it is written: per hash bucket a doubly linked chain of       *)
(* nodes, of which the ones from first to last are meant to be held and    *)
(* the rest to be free.  Each operation runs under the bucket's mutex.     *)
(* A fault (a NULL dereference, or a walk that never ends) kills the       *)
(* daemon, which is then started again with an empty table.                *)
(***************************************************************************)
EXTENDS Integers, Sequences, FiniteSets

CONSTANTS
  User, Bucket,
  uhash,       \* [User -> Bucket]
  Worker,      \* threads, each holding at most one lock
  NoUser,      \* a NULL username
  LockExpiry,  \* 24 s
  SlowHolder,  \* may a thread hold a lock longer than LockExpiry?
  MaxNodes,    \* bound on the nodes of a chain
  MaxClock     \* bound on the clock

ASSUME UserAssumption == NoUser \notin User /\ uhash \in [User -> Bucket]
ASSUME BoundAssumption ==
  /\ LockExpiry \in Nat \ {0} /\ MaxNodes \in Nat \ {0} /\ MaxClock \in Nat
  /\ SlowHolder \in BOOLEAN

VARIABLES
  clock,
  chain,  \* lock_chain[]: per bucket its nodes, first and last
  own     \* per thread its user and the node it was given, NULL if none

vars == <<clock, chain, own>>

NULL == 0

\* lock_alloc()
Node(user, ltime, prev) == [user |-> user, ltime |-> ltime, next |-> NULL, prev |-> prev]

\* lock_init(): one free node per chain.
EmptyChain == [node |-> <<Node(NoUser, 0, NULL)>>, first |-> 1, last |-> NULL]

NoOwn == [user |-> NoUser, node |-> NULL]

Init ==
  /\ clock = 1
  /\ chain = [b \in Bucket |-> EmptyChain]
  /\ own = [w \in Worker |-> NoOwn]
-----------------------------------------------------------------------------
(* find_lock() *)

\* The nodes met when following next from the first node.
Walk(c) ==
  LET at[i \in Nat] ==
        IF i = 0 THEN c.first
        ELSE IF at[i - 1] = NULL THEN NULL ELSE c.node[at[i - 1]].next
  IN  [i \in 0 .. Len(c.node) |-> at[i]]

\* Where the walk ends: at the user's node, at last, or in a fault.
Stops(c, u) ==
  {i \in DOMAIN Walk(c) :
     LET n == Walk(c)[i] IN
     n = NULL \/ n = c.last \/ c.node[n].user \in {u, NoUser}}

Found(node) == [how |-> "held", node |-> node]
NotFound(node) == [how |-> "free", node |-> node]
Fault == [how |-> "fault", node |-> NULL]

find_lock_notlast(c, u) ==
  IF c.last = NULL THEN NotFound(c.first)
  ELSE IF Stops(c, u) = {} THEN Fault
  ELSE LET n == Walk(c)[CHOOSE i \in Stops(c, u) : \A j \in Stops(c, u) : i <= j]
       IN  IF n = NULL THEN Fault
           ELSE IF n = c.last THEN NotFound(c.node[n].next)
           ELSE IF c.node[n].user = NoUser THEN Fault
           ELSE Found(n)
find_lock(c, u) ==
  IF c.last = NULL THEN NotFound(c.first)
  ELSE IF Stops(c, u) = {} THEN Fault
  ELSE LET n == Walk(c)[CHOOSE i \in Stops(c, u) : \A j \in Stops(c, u) : i <= j]
       IN  IF n = NULL \/ c.node[n].user = NoUser THEN Fault
           ELSE IF c.node[n].user = u THEN Found(n)
           ELSE NotFound(c.node[n].next)
-----------------------------------------------------------------------------
(* lock_get() and lock_put() *)

\* Take node n, or a new one behind last, and make it the last one held.
Grab(c, u, n) ==
  IF n # NULL
  THEN [c EXCEPT !.node[n].user = u, !.node[n].ltime = clock, !.last = n]
  ELSE LET k == Len(c.node) + 1 IN
       [c EXCEPT !.node = Append([@ EXCEPT ![c.last].next = k], Node(u, clock, c.last)),
                 !.last = k]

\* A failed lock_get() changes nothing and is the stuttering step.
lock_get(w, u) ==
  LET b == uhash[u]
      c == chain[b]
      f == find_lock(c, u)
      n == IF f.node = NULL THEN Len(c.node) + 1 ELSE f.node
  IN
  /\ own[w] = NoOwn
  /\ \/ /\ f.how = "held" /\ clock >= c.node[n].ltime + LockExpiry
        /\ chain' = [chain EXCEPT ![b].node[n].ltime = clock]
     \/ /\ f.how = "free" /\ n <= MaxNodes
        /\ chain' = [chain EXCEPT ![b] = Grab(c, u, f.node)]
  /\ own' = [own EXCEPT ![w] = [user |-> u, node |-> n]]
  /\ UNCHANGED clock

\* Unlink node n and relink it after last.
Unlinked(c, n) ==
  LET d == c.node[n] IN
  [m \in DOMAIN c.node |->
     [c.node[m] EXCEPT !.next = IF m = d.prev THEN d.next ELSE @,
                       !.prev = IF m = d.next THEN d.prev ELSE @]]

Relinked(node, n, last) ==
  LET after == node[last].next IN
  [m \in DOMAIN node |->
     [node[m] EXCEPT
        !.next = IF m = last THEN n ELSE IF m = n THEN after ELSE @,
        !.prev = IF m = after THEN n ELSE IF m = n THEN last ELSE @]]

Cleared(c, n) == [c EXCEPT !.node[n].user = NoUser]

\* lock_put() faults on a node that is already free, and when there is no
\* node after last whose prev could be set.
PutFaults(c, n) ==
  \/ c.node[n].user = NoUser
  \/ c.last # n /\ (c.last = NULL \/ Unlinked(c, n)[c.last].next = NULL)

Released_first(c, n) ==
  LET f == IF c.first = n THEN c.node[n].next ELSE c.first IN
  IF c.last = n THEN [Cleared(c, n) EXCEPT !.last = c.node[n].prev, !.first = f]
  ELSE [Cleared(c, n) EXCEPT !.node = Relinked(Unlinked(Cleared(c, n), n), n, c.last),
                             !.first = f]
Released(c, n) ==
  IF c.last = n THEN [Cleared(c, n) EXCEPT !.last = c.node[n].prev]
  ELSE [Cleared(c, n) EXCEPT !.node = Relinked(Unlinked(Cleared(c, n), n), n, c.last)]

lock_put(w) ==
  LET b == uhash[own[w].user] IN
  /\ own[w] # NoOwn
  /\ ~PutFaults(chain[b], own[w].node)
  /\ chain' = [chain EXCEPT ![b] = Released(@, own[w].node)]
  /\ own' = [own EXCEPT ![w] = NoOwn]
  /\ UNCHANGED clock

Faulty ==
  \/ \E w \in Worker : own[w] # NoOwn /\ PutFaults(chain[uhash[own[w].user]], own[w].node)
  \/ \E w \in Worker, u \in User :
       own[w] = NoOwn /\ find_lock(chain[uhash[u]], u) = Fault

Restart ==
  /\ Faulty
  /\ chain' = [b \in Bucket |-> EmptyChain]
  /\ own' = [w \in Worker |-> NoOwn]
  /\ UNCHANGED clock

Tick ==
  /\ clock < MaxClock
  /\ SlowHolder \/ \A w \in Worker : own[w] # NoOwn =>
       clock + 1 < chain[uhash[own[w].user]].node[own[w].node].ltime + LockExpiry
  /\ clock' = clock + 1
  /\ UNCHANGED <<chain, own>>

Next ==
  \/ \E w \in Worker : lock_put(w) \/ \E u \in User : lock_get(w, u)
  \/ Restart
  \/ Tick

Spec == Init /\ [][Next]_vars
-----------------------------------------------------------------------------
(* Properties. *)

TypeOK ==
  /\ clock \in Nat
  /\ \A b \in Bucket :
       LET c == chain[b]  P == 0 .. Len(c.node) IN
       /\ Len(c.node) \in 1 .. MaxNodes
       /\ c.first \in P \ {NULL} /\ c.last \in P
       /\ \A i \in DOMAIN c.node :
            c.node[i] \in [user : User \cup {NoUser}, ltime : Nat, next : P, prev : P]
  /\ \A w \in Worker :
       own[w] = NoOwn \/ own[w].node \in DOMAIN chain[uhash[own[w].user]].node

\* The abstract lock of a user: the node that carries the user's name.
HeldNodes(u) ==
  LET c == chain[uhash[u]] IN {i \in DOMAIN c.node : c.node[i].user = u}

Lock == INSTANCE UserLock WITH
  lock <- [u \in User |->
             IF HeldNodes(u) = {} THEN [held |-> FALSE, ltime |-> 0]
             ELSE [held |-> TRUE,
                   ltime |-> chain[uhash[u]].node[CHOOSE i \in HeldNodes(u) : TRUE].ltime]]

\* Until it faults, the chain gives no user's lock to a second caller before
\* it has been put back or has expired, and takes it from nobody
\* (lock.c:86-90, "NULL otherwise (unexpired lock already held by someone
\* else)").
ImplementsUserLock == Lock!Spec

\* lock_get() and lock_put() return to their callers (lock.c:86-90, 141-143).
NoFault == ~Faulty
=============================================================================
