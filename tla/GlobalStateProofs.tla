------------------------- MODULE GlobalStateProofs --------------------------
(***************************************************************************)
(* Theorems about the exchange with the gsmd, for every number of threads, *)
(* sequence numbers and successes, and for both builds of nonce32().  What *)
(* they say of an exchange depends on its number having been handed out    *)
(* only once; what they say of the gsmd does not.                          *)
(***************************************************************************)
EXTENDS GlobalState, TLAPS

Stored == Vals \cup {NoUpdate}
Number == 0 .. MaxSeq + 1

Message ==
  [to : {"gsmd", "otpd"}, from : Worker, type : {"G", "P", "A", "N"},
   seq : Number, val : Stored]
Entry == [seq : Number, req : {"G", "P"}, val : Stored]

\* A thread that is still before its PUT holds a number that was handed out.
Early(w) == pc[w] \in {"nonce", "get", "have"}

\* A thread that uses its number.
In(w) == pc[w] \in {"get", "have", "put", "ok"}

(* Types, with those of the datagrams and of the gsmd's cache. *)
NetOK == net \subseteq Message
ServedOK == served \subseteq Entry
EarlyOK == \A w \in Worker : Early(w) => my[w] <= seq
OkOK == \A w \in Worker : /\ pc[w] = "ok" => val[w] # NoUpdate
                          /\ pc[w] \in {"put", "ok"} => my[w] >= 1
RequestOK ==
  \A m \in net : m.to = "gsmd" =>
    \/ m.type = "G" /\ m.seq <= MaxSeq
    \/ m.type = "P"

TInv ==
  /\ TypeOK
  /\ NetOK /\ ServedOK
  /\ EarlyOK /\ OkOK /\ RequestOK

(* The inductive invariant. *)

\* Numbers come in pairs: an even one for the GET, the next for the PUT.
Numbers ==
  /\ seq % 2 = 0
  /\ \A w \in Worker :
       /\ Early(w) => my[w] % 2 = 0
       /\ pc[w] \in {"put", "ok"} => my[w] % 2 = 1

\* Every number in use was handed out, to a thread whose exchange it is; two
\* threads are in the same exchange only if its number is shared.
Used(n) == n - (n % 2) \in handed
Handed ==
  /\ \A w \in Worker : In(w) => Own(w) \in handed
  /\ \A m \in net : Used(m.seq)
  /\ \A a \in served : Used(a.seq)
  /\ \A o \in okd : o.seq \in handed
Apart ==
  \A v, w \in Worker :
    v # w /\ In(v) /\ In(w) /\ Own(v) = Own(w) => Own(w) \in shared

\* Requests and cache entries have the parity of their kind.
Parity ==
  /\ \A m \in net : m.to = "gsmd" => (m.type = "P" <=> m.seq % 2 = 1)
  /\ \A a \in served : a.req = "P" <=> a.seq % 2 = 1

\* The part of the invariant that speaks of the numbers.
NInv == TInv /\ Numbers /\ Handed /\ Apart /\ Parity

\* One answer per number, and the lock goes with the state last handed out.
Cache == \A a, b \in served : a.seq = b.seq => a = b
Lock == glock # Unlocked => [seq |-> glock, req |-> "G", val |-> gstate] \in served

\* An acknowledgement repeats the cache.
Acks ==
  \A m \in net : m.to = "otpd" /\ m.type = "A" =>
    \E a \in served : a.seq = m.seq /\ a.val = m.val

\* A state to write is one success more than the one its exchange read.
Follows(s, v) ==
  \E u \in Stored : /\ [seq |-> s - 1, req |-> "G", val |-> u] \in served
                    /\ v \in {u + 1, NoUpdate}
Reads ==
  \A w \in Worker :
    /\ pc[w] = "have" => [seq |-> my[w], req |-> "G", val |-> val[w]] \in served
    /\ pc[w] = "put" => Follows(my[w], val[w])
Writes == \A m \in net : m.to = "gsmd" /\ m.type = "P" => Follows(m.seq, m.val)

\* Unless its number is shared, only its own thread ever asks for a PUT of an
\* exchange, and with one state.
OnePut ==
  \A w \in Worker : Own(w) \notin shared =>
    /\ pc[w] \in {"get", "have"} =>
         /\ \A m \in net : m.to = "gsmd" => m.seq # my[w] + 1
         /\ \A a \in served : a.seq # my[w] + 1
    /\ pc[w] = "put" =>
         /\ \A m \in net : m.to = "gsmd" /\ m.seq = my[w] => m.val = val[w]
         /\ \A a \in served : a.seq = my[w] => a.val = val[w]

\* A success is in the cache while it is reported, and after, when no thread
\* is in its exchange any more.
Put(s, v) == [seq |-> s, req |-> "P", val |-> v]
OkServed ==
  \A w \in Worker : pc[w] = "ok" =>
    /\ \E a \in served : a.seq = my[w] /\ a.req = "P"
    /\ Own(w) \notin shared => Put(my[w], val[w]) \in served
OkdServed ==
  \A o \in okd : o.seq \notin shared =>
    /\ Put(o.seq + 1, o.val) \in served /\ o.val # NoUpdate
    /\ \A w \in Worker : In(w) => Own(w) # o.seq

\* Every success the gsmd stored was a new one.
Successes ==
  \A a \in served : a.req = "P" /\ a.val # NoUpdate =>
    /\ a.val <= gstate
    /\ \A b \in served : b.req = "P" /\ b.val = a.val => a = b

Inv ==
  /\ NInv /\ Cache /\ Lock /\ Acks
  /\ Reads /\ Writes /\ OnePut /\ OkServed /\ OkdServed /\ Successes
-----------------------------------------------------------------------------
USE DEF Unlocked, NoUpdate

\* Closing a socket takes datagrams away.
LEMMA ClosedSubset == \A w \in Worker : Closed(w) \subseteq net
  BY DEF Closed

\* An answer adds at most itself to the network.
LEMMA TellAdds ==
  ASSUME NEW m, NEW type, NEW v, Tell(m, type, v)
  PROVE  net' \subseteq net \cup {Answer(m.from, type, m.seq, v)}
  BY DEF Tell

\* The initial state is well-typed.
LEMMA TInvInit == Init => TInv
<1> SUFFICES ASSUME Init PROVE TInv
  OBVIOUS
<1>1. nak \in [Worker -> BOOLEAN] /\ sem \in BOOLEAN
  BY Zenon DEF Init
<1>2. /\ 0 \in Vals /\ 0 \in 0 .. MaxSeq + 1
      /\ seq \in -2 .. MaxSeq /\ gstate \in Vals
  BY BoundAssumption DEF Init, Vals
<1>3. /\ pc \in [Worker -> PCs] /\ my \in [Worker -> 0 .. MaxSeq + 1]
      /\ val \in [Worker -> Vals \cup {NoUpdate}]
  BY <1>2 DEF Init, PCs
<1>4. TypeOK
  BY <1>1, <1>2, <1>3 DEF Init, TypeOK
<1> QED
  BY <1>4 DEF Init, TInv, NetOK, ServedOK, EarlyOK, OkOK, RequestOK, Early

\* Every step keeps the types.
LEMMA TInvNext == TInv /\ [Next]_vars => TInv'
<1> SUFFICES ASSUME TInv, [Next]_vars PROVE TInv'
  OBVIOUS
<1> USE BoundAssumption, ClosedSubset
<1>1. ASSUME NEW w \in Worker, nonce32(w) PROVE TInv'
  BY <1>1
  DEF nonce32, Goto, server, ghosts, TInv, TypeOK, NetOK, ServedOK, EarlyOK, OkOK, RequestOK,
      Early, PCs
<1>2. ASSUME NEW w \in Worker, nonce32_return(w) PROVE TInv'
  <2>1. my[w] \in 0 .. MaxSeq /\ seq \in 0 .. MaxSeq
    BY <1>2 DEF nonce32_return, Goto, TInv, TypeOK, EarlyOK, Early
  <2>2. handed' \subseteq 0 .. MaxSeq /\ shared' \subseteq handed'
    BY <1>2, <2>1 DEF nonce32_return, TInv, TypeOK
  <2> QED
    BY <1>2, <2>1, <2>2
    DEF nonce32_return, Goto, server, TInv, TypeOK, NetOK, ServedOK, EarlyOK, OkOK,
        RequestOK, Early, PCs
<1>3. ASSUME NEW w \in Worker, Send(w) PROVE TInv'
  <2>1. my[w] \in Number /\ val[w] \in Stored /\ NoUpdate \in Stored
    BY DEF TInv, TypeOK, Number, Stored
  <2>2. pc[w] = "get" => my[w] <= MaxSeq
    BY DEF TInv, TypeOK, EarlyOK, Early
  <2>3. NetOK'
    BY <1>3, <2>1 DEF Send, Request, TInv, NetOK, Message
  <2>4. RequestOK'
    BY <1>3, <2>2 DEF Send, Request, TInv, RequestOK
  <2> QED
    BY <1>3, <2>3, <2>4
    DEF Send, otpd, server, ghosts, TInv, TypeOK, ServedOK, EarlyOK, OkOK, Early
<1>4. ASSUME NEW w \in Worker, NEW m \in net, RecvState(w, m) PROVE TInv'
  <2>1. m.val \in Vals \cup {NoUpdate}
    BY DEF TInv, NetOK, Message, Stored
  <2> QED
    BY <1>4, <2>1
    DEF RecvState, Goto, server, ghosts, TInv, TypeOK, NetOK, ServedOK, EarlyOK, OkOK,
        RequestOK, Early, PCs
<1>5. ASSUME NEW w \in Worker, NEW m \in net, RecvGarbage(w, m) PROVE TInv'
  BY <1>5
  DEF RecvGarbage, Goto, server, ghosts, TInv, TypeOK, NetOK, ServedOK, EarlyOK, OkOK,
      RequestOK, Early, PCs
<1>6. ASSUME NEW w \in Worker, NEW m \in net, RecvStored(w, m) PROVE TInv'
  BY <1>6
  DEF RecvStored, Goto, server, ghosts, TInv, TypeOK, NetOK, ServedOK, EarlyOK, OkOK,
      RequestOK, Early, PCs
<1>7. ASSUME NEW w \in Worker, NEW m \in net, RecvNak(w, m) PROVE TInv'
  BY <1>7
  DEF RecvNak, server, ghosts, TInv, TypeOK, NetOK, ServedOK, EarlyOK, OkOK, RequestOK, Early
<1>8. ASSUME NEW w \in Worker, Timeout(w) \/ HardError(w) PROVE TInv'
  <2>1. sem' \in BOOLEAN
    BY <1>8 DEF Timeout, HardError, TInv, TypeOK
  <2> QED
    BY <1>8, <2>1
    DEF Timeout, HardError, Goto, server, ghosts, TInv, TypeOK, NetOK, ServedOK, EarlyOK, OkOK,
        RequestOK, Early, PCs
<1>9. ASSUME NEW w \in Worker, Decide(w) PROVE TInv'
  <2>1. my[w] \in 0 .. MaxSeq /\ my[w] + 1 \in 0 .. MaxSeq + 1
    BY <1>9 DEF Decide, Goto, TInv, TypeOK, EarlyOK, Early
  <2>2. val' \in [Worker -> Vals \cup {NoUpdate}]
    BY <1>9 DEF Decide, TInv, TypeOK, Vals
  <2> QED
    BY <1>9, <2>1, <2>2
    DEF Decide, Goto, server, ghosts, TInv, TypeOK, NetOK, ServedOK, EarlyOK, OkOK,
        RequestOK, Early, PCs
<1>10. ASSUME NEW w \in Worker, Reply(w) PROVE TInv'
  <2>1. okd' \subseteq [seq : 0 .. MaxSeq, val : Vals]
    <3>1. pc[w] = "ok" => Own(w) \in 0 .. MaxSeq /\ val[w] \in Vals
      BY DEF TInv, TypeOK, OkOK, Own
    <3> QED
      BY <1>10, <3>1 DEF Reply, TInv, TypeOK
  <2>2. 0 \in Vals /\ 0 \in 0 .. MaxSeq + 1
    BY DEF Vals
  <2> QED
    BY <1>10, <2>1, <2>2
    DEF Reply, Goto, server, ghosts, TInv, TypeOK, NetOK, ServedOK, EarlyOK, OkOK,
        RequestOK, Early, PCs
<1>11. ASSUME NEW m \in net, Serve(m) PROVE TInv'
  <2>1. /\ m.to = "gsmd" /\ m.from \in Worker /\ m.seq \in Number
        /\ m.val \in Stored /\ gstate \in Stored /\ NoUpdate \in Stored
    BY <1>11 DEF Serve, TInv, TypeOK, NetOK, Message, Stored
  <2>2. (m.type = "G" /\ m.seq \in 0 .. MaxSeq) \/ m.type = "P"
    BY <2>1 DEF TInv, RequestOK, Number
  <2>3. \E v \in Stored, t \in {"A", "N"} : Tell(m, t, v)
    BY <1>11, <2>1 DEF Serve, Cached, TInv, ServedOK, Entry
  <2>4. NetOK' /\ RequestOK'
    BY <2>1, <2>3, TellAdds DEF Answer, TInv, NetOK, RequestOK, Message
  <2>5. /\ gstate' \in Vals
        /\ glock' \in 0 .. MaxSeq \cup {Unlocked}
        /\ served' \subseteq Entry
    BY <1>11, <2>1, <2>2 DEF Serve, server, ghosts, TInv, TypeOK, ServedOK, Entry, Stored
  <2> QED
    BY <1>11, <2>4, <2>5 DEF Serve, otpd, ghosts, TInv, TypeOK, ServedOK, EarlyOK, OkOK, Early
<1>12. CASE BreakLock \/ Signalled \/ UNCHANGED vars
  BY <1>12
  DEF BreakLock, Signalled, vars, otpd, server, ghosts, TInv, TypeOK, NetOK, ServedOK,
      EarlyOK, OkOK, RequestOK, Early
<1> QED
  BY <1>1, <1>2, <1>3, <1>4, <1>5, <1>6, <1>7, <1>8, <1>9, <1>10, <1>11, <1>12 DEF Next

\* Whatever is lost, repeated or late, the threads, the network and the gsmd
\* keep their types: no state below the first or above the last success is
\* stored, and the lock is held by the number of a GET (state.c:119-470).
THEOREM TypeCorrect == Spec => []TypeOK
<1>1. TInv => TypeOK
  BY DEF TInv
<1> QED
  BY <1>1, TInvInit, TInvNext, PTL DEF Spec
-----------------------------------------------------------------------------
(* The numbers: they come in pairs, and those in use were handed out. *)

\* The two numbers of a pair.
LEMMA Pairs ==
  /\ \A s \in Nat : s % 2 = 0 => (s + 1) % 2 = 1 /\ (s + 1) - ((s + 1) % 2) = s
                                 /\ s - (s % 2) = s
  /\ \A s \in Nat : s % 2 = 1 => s >= 1 /\ s - (s % 2) = s - 1
  /\ \A s \in Nat : (s + 2) % 2 = s % 2
  OBVIOUS

LEMMA NInvInit == Init => NInv
<1> SUFFICES ASSUME Init PROVE NInv
  OBVIOUS
<1>1. (-2) % 2 = 0
  OBVIOUS
<1> QED
  BY <1>1, TInvInit DEF Init, NInv, Numbers, Handed, Apart, Parity, In, Early

LEMMA NInvNext == NInv /\ [Next]_vars => NInv'
<1> SUFFICES ASSUME NInv, [Next]_vars PROVE NInv'
  OBVIOUS
<1> USE BoundAssumption, ClosedSubset
<1>0. TInv /\ TInv'
  BY TInvNext DEF NInv
<1>1. ASSUME NEW w \in Worker, nonce32(w) PROVE NInv'
  <2>1. /\ seq \in -2 .. MaxSeq /\ seq % 2 = 0 /\ seq' = seq + 2 /\ seq + 2 \in Nat
        /\ (seq + 2) % 2 = 0
    BY <1>1 DEF nonce32, NInv, TInv, TypeOK, Numbers
  <2>2. Numbers'
    BY <1>0, <1>1, <2>1 DEF nonce32, Goto, NInv, TInv, TypeOK, Numbers, Early
  <2>3. \A v \in Worker : In(v)' => v # w /\ In(v) /\ Own(v)' = Own(v)
    BY <1>0, <1>1 DEF nonce32, Goto, TInv, TypeOK, In, Own
  <2> QED
    BY <1>0, <1>1, <2>2, <2>3
    DEF nonce32, server, ghosts, NInv, Handed, Used, Apart, Parity
<1>2. ASSUME NEW w \in Worker, nonce32_return(w) PROVE NInv'
  <2> DEFINE n == IF HAVE_ATOMIC_H THEN my[w] ELSE seq
  <2>1. /\ n % 2 = 0 /\ n \in 0 .. MaxSeq /\ my' = [my EXCEPT ![w] = n]
        /\ handed' = handed \cup {n} /\ pc[w] = "nonce" /\ pc' = [pc EXCEPT ![w] = "get"]
        /\ shared' = IF n \in handed THEN shared \cup {n} ELSE shared
        /\ UNCHANGED <<seq, net, served, okd>>
    BY <1>0, <1>2
    DEF nonce32_return, Goto, server, NInv, TInv, TypeOK, EarlyOK, Numbers, Early
  <2> HIDE DEF n
  <2>2. Numbers'
    BY <1>0, <2>1 DEF NInv, TInv, TypeOK, Numbers, Early
  <2>3. /\ In(w)' /\ Own(w)' = n
        /\ \A v \in Worker \ {w} : (In(v)' <=> In(v)) /\ Own(v)' = Own(v)
    BY <1>0, <2>1 DEF TInv, TypeOK, In, Own
  <2>4. Handed'
    BY <1>0, <2>1, <2>3 DEF NInv, Handed, Used
  <2>5. Apart'
    BY <2>1, <2>3 DEF NInv, Handed, Apart
  <2> QED
    BY <1>0, <2>1, <2>2, <2>4, <2>5 DEF NInv, Parity
<1>3. ASSUME NEW w \in Worker, Send(w) PROVE NInv'
  <2>1. /\ pc[w] = "get" => my[w] % 2 = 0
        /\ pc[w] = "put" => my[w] % 2 = 1
        /\ In(w) /\ my[w] \in Nat
    BY <1>0, <1>3 DEF Send, NInv, TInv, TypeOK, Numbers, Early, In
  <2>2. Used(my[w])
    BY <1>3, <2>1, Pairs DEF Send, NInv, Handed, Used, Own
  <2>3. UNCHANGED <<seq, pc, my, served, handed, shared, okd>>
    BY <1>3 DEF Send, otpd, server, ghosts
  <2>4. \A m \in net' : m \in net \/ m.seq = my[w]
    BY <1>3 DEF Send, Request
  <2>5. Handed'
    BY <2>2, <2>3, <2>4 DEF NInv, Handed, Used, In, Own
  <2>6. Parity'
    BY <1>3, <2>1, <2>3 DEF Send, Request, NInv, Parity
  <2> QED
    BY <1>0, <2>3, <2>5, <2>6 DEF NInv, Numbers, Early, Apart, In, Own
<1>4. ASSUME NEW w \in Worker, NEW m \in net,
             RecvState(w, m) \/ RecvGarbage(w, m) \/ RecvStored(w, m) \/ RecvNak(w, m)
      PROVE  NInv'
  <2>1. /\ net' \subseteq net /\ UNCHANGED <<seq, my, served, handed, shared, okd>>
        /\ pc' = pc \/ \/ pc[w] = "get" /\ pc' = [pc EXCEPT ![w] = "have"]
                       \/ pc[w] = "put" /\ pc' = [pc EXCEPT ![w] = "ok"]
                       \/ pc' = [pc EXCEPT ![w] = "err"]
    BY <1>4
    DEF RecvState, RecvGarbage, RecvStored, RecvNak, Goto, server, ghosts
  <2>2. \A v \in Worker : In(v)' => In(v) /\ Own(v)' = Own(v)
    BY <1>0, <2>1 DEF TInv, TypeOK, In, Own
  <2>3. Numbers'
    BY <1>0, <2>1 DEF NInv, TInv, TypeOK, Numbers, Early
  <2> QED
    BY <1>0, <2>1, <2>2, <2>3 DEF NInv, Handed, Used, Apart, Parity
<1>5. ASSUME NEW w \in Worker, Timeout(w) \/ HardError(w) PROVE NInv'
  <2>1. /\ net' \subseteq net /\ UNCHANGED <<seq, my, served, handed, shared, okd>>
        /\ pc' = [pc EXCEPT ![w] = "err"]
    BY <1>5 DEF Timeout, HardError, Goto, server, ghosts
  <2>2. \A v \in Worker : In(v)' => In(v) /\ Own(v)' = Own(v)
    BY <1>0, <2>1 DEF TInv, TypeOK, In, Own
  <2>3. Numbers'
    BY <1>0, <2>1 DEF NInv, TInv, TypeOK, Numbers, Early
  <2> QED
    BY <1>0, <2>1, <2>2, <2>3 DEF NInv, Handed, Used, Apart, Parity
<1>6. ASSUME NEW w \in Worker, Decide(w) PROVE NInv'
  <2>1. /\ my[w] \in Nat /\ my[w] % 2 = 0 /\ (my[w] + 1) % 2 = 1
        /\ pc[w] = "have" /\ pc' = [pc EXCEPT ![w] = "put"]
        /\ my' = [my EXCEPT ![w] = my[w] + 1]
        /\ UNCHANGED <<seq, net, served, handed, shared, okd>>
    BY <1>0, <1>6, Pairs DEF Decide, Goto, server, ghosts, NInv, TInv, TypeOK, Numbers, Early
  <2>2. \A v \in Worker : (In(v)' <=> In(v)) /\ Own(v)' = Own(v)
    BY <1>0, <2>1 DEF TInv, TypeOK, In, Own
  <2>3. Numbers'
    BY <1>0, <2>1 DEF NInv, TInv, TypeOK, Numbers, Early
  <2> QED
    BY <1>0, <2>1, <2>2, <2>3 DEF NInv, Handed, Used, Apart, Parity
<1>7. ASSUME NEW w \in Worker, Reply(w) PROVE NInv'
  <2>1. /\ pc' = [pc EXCEPT ![w] = "idle"] /\ my' = [my EXCEPT ![w] = 0]
        /\ UNCHANGED <<seq, net, served, handed, shared>>
    BY <1>7 DEF Reply, Goto, server
  <2>2. \A v \in Worker : In(v)' => In(v) /\ Own(v)' = Own(v)
    BY <1>0, <2>1 DEF TInv, TypeOK, In, Own
  <2>3. Numbers'
    BY <1>0, <2>1 DEF NInv, TInv, TypeOK, Numbers, Early
  <2>4. \A o \in okd' : o \in okd \/ (In(w) /\ o.seq = Own(w))
    BY <1>7 DEF Reply, In
  <2> QED
    BY <1>0, <2>1, <2>2, <2>3, <2>4 DEF NInv, Handed, Used, Apart, Parity
<1>8. ASSUME NEW m \in net, Serve(m) PROVE NInv'
  <2>1. \E v, t : Tell(m, t, v)
    BY <1>8 DEF Serve
  <2>2. m.to = "gsmd" /\ m.type \in {"G", "P"}
    BY <1>8 DEF Serve, NInv, TInv, RequestOK
  <2>3. \A n \in net' : n \in net \/ (n.to = "otpd" /\ n.seq = m.seq)
    BY <2>1, TellAdds DEF Answer
  <2>4. \A a \in served' : a \in served \/ (a.seq = m.seq /\ a.req = m.type)
    BY <1>8 DEF Serve, server
  <2>5. UNCHANGED <<seq, pc, my, handed, shared, okd>>
    BY <1>8 DEF Serve, otpd, ghosts
  <2>6. Handed'
    BY <2>3, <2>4, <2>5 DEF NInv, Handed, Used, In, Own
  <2>7. Parity'
    BY <2>2, <2>3, <2>4 DEF NInv, Parity
  <2> QED
    BY <1>0, <2>5, <2>6, <2>7 DEF NInv, Numbers, Early, Apart, In, Own
<1>9. CASE BreakLock \/ Signalled \/ UNCHANGED vars
  <2>1. UNCHANGED <<seq, pc, my, net, served, handed, shared, okd>>
    BY <1>9 DEF BreakLock, Signalled, vars, otpd, server, ghosts
  <2> QED
    BY <1>0, <2>1 DEF NInv, Numbers, Handed, Used, Apart, Parity, Early, In, Own
<1> QED
  BY <1>1, <1>2, <1>3, <1>4, <1>5, <1>6, <1>7, <1>8, <1>9 DEF Next
-----------------------------------------------------------------------------
(* The exchange: what is written follows what was read. *)

LEMMA InvInit == Init => Inv
  BY NInvInit
  DEF Init, Inv, Cache, Lock, Acks, Reads, Writes, OnePut, OkServed, OkdServed,
      Successes, Early

\* A step of a thread leaves the gsmd alone; what it takes from the network
\* is not missed.
LEMMA ServerKept ==
  ASSUME Inv, UNCHANGED server, net' \subseteq net
  PROVE  Cache' /\ Lock' /\ Acks' /\ Writes' /\ Successes'
  BY DEF server, Inv, Cache, Lock, Acks, Writes, Follows, Successes

\* Every step of a thread keeps the invariant.
LEMMA ThreadSteps ==
  ASSUME Inv, NInv',
         NEW w \in Worker,
         \/ nonce32(w) \/ nonce32_return(w) \/ Send(w)
         \/ \E m \in net : \/ RecvState(w, m) \/ RecvGarbage(w, m)
                           \/ RecvStored(w, m) \/ RecvNak(w, m)
         \/ Timeout(w) \/ HardError(w) \/ Decide(w) \/ Reply(w)
  PROVE  Inv'
<1> USE BoundAssumption, ClosedSubset
<1>0. /\ pc \in [Worker -> PCs] /\ my \in [Worker -> 0 .. MaxSeq + 1]
      /\ val \in [Worker -> Vals \cup {NoUpdate}] /\ seq \in -2 .. MaxSeq
  BY DEF Inv, NInv, TInv, TypeOK
<1>1. CASE nonce32(w)
  <2>1. /\ net' \subseteq net /\ UNCHANGED <<server, val, handed, shared, okd>>
        /\ pc' = [pc EXCEPT ![w] = "nonce"] /\ my' = [my EXCEPT ![w] = seq + 2]
    BY <1>1 DEF nonce32, Goto, ghosts
  <2>2. \A v \in Worker \ {w} : /\ pc'[v] = pc[v] /\ my'[v] = my[v] /\ Own(v)' = Own(v)
                                /\ In(v)' <=> In(v)
    BY <1>0, <2>1 DEF Own, In
  <2>3. pc'[w] = "nonce" /\ ~In(w)'
    BY <1>0, <2>1 DEF In
  <2>4. Reads'
    <3>1. \A s, v : Follows(s, v) => Follows(s, v)'
      BY <2>1 DEF server, Follows
    <3> QED
      BY <1>0, <2>1, <3>1 DEF server, Inv, Reads
  <2>5. OnePut'
    BY <2>1, <2>2, <2>3 DEF server, Inv, OnePut
  <2>6. OkServed' /\ OkdServed'
    BY <2>1, <2>2, <2>3 DEF server, Inv, OkServed, Put, OkdServed
  <2> QED
    BY <2>1, <2>4, <2>5, <2>6, ServerKept DEF Inv
<1>2. CASE nonce32_return(w)
  <2> DEFINE n == IF HAVE_ATOMIC_H THEN my[w] ELSE seq
  <2>1. /\ net' \subseteq net /\ UNCHANGED <<server, val, okd>>
        /\ pc' = [pc EXCEPT ![w] = "get"] /\ my' = [my EXCEPT ![w] = n]
        /\ shared' = IF n \in handed THEN shared \cup {n} ELSE shared
        /\ n \in Nat /\ n % 2 = 0
    BY <1>0, <1>2
    DEF nonce32_return, Goto, Inv, NInv, TInv, EarlyOK, Early, Numbers
  <2> HIDE DEF n
  <2>2. \A v \in Worker \ {w} : /\ pc'[v] = pc[v] /\ my'[v] = my[v] /\ Own(v)' = Own(v)
                                /\ In(v)' <=> In(v)
    BY <1>0, <2>1 DEF Own, In
  <2>3. pc'[w] = "get" /\ my'[w] = n /\ Own(w)' = n
    BY <1>0, <2>1 DEF Own
  <2>4. Reads'
    <3>1. \A s, v : Follows(s, v) => Follows(s, v)'
      BY <2>1 DEF server, Follows
    <3> QED
      BY <1>0, <2>1, <3>1 DEF server, Inv, Reads
  <2>5. shared \subseteq shared' /\ (n \notin shared' => n \notin handed)
    BY <2>1
  <2>6. ASSUME n \notin handed
        PROVE  /\ \A m \in net : m.seq # n + 1
               /\ \A a \in served : a.seq # n + 1
    <3>1. ~Used(n + 1)
      BY <2>1, <2>6, Pairs DEF Used
    <3> QED
      BY <3>1 DEF Inv, NInv, Handed
  <2>7. OnePut'
    BY <2>1, <2>2, <2>3, <2>5, <2>6 DEF server, Inv, OnePut
  <2>8. OkServed'
    BY <2>1, <2>2, <2>3, <2>5 DEF server, Inv, OkServed, Put
  <2>9. OkdServed'
    BY <2>1, <2>2, <2>3, <2>5 DEF server, Inv, NInv, Handed, OkdServed, Put
  <2> QED
    BY <2>1, <2>4, <2>7, <2>8, <2>9, ServerKept DEF Inv
<1>3. CASE Send(w)
  <2>1. UNCHANGED <<seq, pc, my, val, gstate, glock, served, shared, okd>>
    BY <1>3 DEF Send, otpd, server, ghosts
  <2>2. Cache' /\ Lock' /\ OkServed' /\ OkdServed' /\ Successes'
    BY <2>1 DEF Inv, Cache, Lock, OkServed, Put, OkdServed, In, Own, Successes
  <2>9. \A s, v : Follows(s, v) => Follows(s, v)'
    BY <2>1 DEF Follows
  <2>8. Reads'
    BY <2>1, <2>9 DEF Inv, Reads
  <2>3. Acks'
    BY <1>3, <2>1 DEF Send, Request, Inv, Acks
  <2>4. Writes'
    <3>1. \A m \in net' : \/ m \in net
                          \/ m.type = "G"
                          \/ pc[w] = "put" /\ m.seq = my[w] /\ m.val = val[w]
      BY <1>3 DEF Send, Request
    <3> QED
      BY <2>9, <3>1 DEF Inv, Writes, Reads
  <2>10. /\ pc[w] \in {"get", "put"} /\ In(w) /\ my[w] \in Nat
         /\ pc[w] = "get" => my[w] % 2 = 0
         /\ pc[w] = "put" => my[w] % 2 = 1
    BY <1>0, <1>3 DEF Send, In, Inv, NInv, Numbers, Early
  <2>5. ASSUME NEW v \in Worker, pc[v] \in {"get", "have"}, Own(v) \notin shared
        PROVE  my[v] + 1 # my[w]
    <3>1. my[v] \in Nat /\ my[v] % 2 = 0 /\ In(v) /\ Own(v) = my[v]
      BY <1>0, <2>5 DEF Inv, NInv, Numbers, Early, In, Own
    <3>2. SUFFICES ASSUME my[v] + 1 = my[w] PROVE FALSE
      OBVIOUS
    <3>3. my[w] % 2 = 1
      BY <3>1, <3>2, Pairs
    <3>4. pc[w] = "put" /\ v # w /\ Own(w) = my[w] - 1
      BY <2>5, <2>10, <3>3 DEF Own
    <3>5. Own(w) = Own(v)
      BY <3>1, <3>2, <3>4
    <3> QED
      BY <2>5, <2>10, <3>1, <3>4, <3>5 DEF Inv, NInv, Apart
  <2>6. ASSUME NEW v \in Worker, pc[v] = "put", my[v] = my[w], Own(v) \notin shared
        PROVE  v = w
    <3>1. my[v] % 2 = 1 /\ In(v)
      BY <2>6 DEF Inv, NInv, Numbers, In
    <3>2. pc[w] = "put"
      BY <2>6, <2>10, <3>1
    <3> QED
      BY <2>6, <2>10, <3>1, <3>2 DEF Inv, NInv, Apart, Own
  <2>11. \A m \in net' : \/ m \in net
                         \/ m.seq = my[w] /\ (pc[w] = "put" => m.val = val[w])
    BY <1>3 DEF Send, Request
  <2>7. OnePut'
    BY <2>1, <2>5, <2>6, <2>11 DEF Inv, OnePut, Own
  <2> QED
    BY <2>2, <2>3, <2>4, <2>7, <2>8 DEF Inv
<1>4. ASSUME NEW m \in net, RecvState(w, m) PROVE Inv'
  <2>1. /\ net' \subseteq net /\ UNCHANGED <<server, my, shared, okd>>
        /\ pc[w] = "get" /\ pc' = [pc EXCEPT ![w] = "have"]
        /\ val' = [val EXCEPT ![w] = m.val]
    BY <1>4 DEF RecvState, Goto, ghosts
  <2>2. m.to = "otpd" /\ m.type = "A" /\ m.seq = my[w] /\ my[w] % 2 = 0
    BY <1>4 DEF RecvState, Matches, Goto, Inv, NInv, Numbers, Early
  <2>3. PICK a \in served : a.seq = m.seq /\ a.val = m.val
    BY <2>2 DEF Inv, Acks
  <2>4. a = [seq |-> my[w], req |-> "G", val |-> m.val]
    BY <2>2, <2>3 DEF Inv, NInv, TInv, ServedOK, Entry, Parity
  <2>5. Reads'
    BY <1>0, <2>1, <2>3, <2>4 DEF server, Inv, Reads, Follows
  <2>6. \A v \in Worker : (In(v)' <=> In(v)) /\ Own(v)' = Own(v)
    BY <1>0, <2>1 DEF Own, In
  <2>7. OnePut' /\ OkServed' /\ OkdServed'
    BY <1>0, <2>1, <2>6 DEF server, Inv, OnePut, OkServed, Put, OkdServed
  <2> QED
    BY <2>1, <2>5, <2>7, ServerKept DEF Inv
<1>5. CASE (\E m \in net : RecvGarbage(w, m)) \/ Timeout(w) \/ HardError(w)
  <2>1. /\ net' \subseteq net
        /\ UNCHANGED <<seq, my, val, gstate, glock, served, shared, okd>>
        /\ pc' = [pc EXCEPT ![w] = "err"]
    BY <1>5 DEF RecvGarbage, Timeout, HardError, Goto, server, ghosts
  <2>2. \A v \in Worker : In(v)' => v # w /\ In(v) /\ Own(v)' = Own(v) /\ pc'[v] = pc[v]
    BY <1>0, <2>1 DEF Own, In
  <2>3. Reads' /\ OnePut' /\ OkServed' /\ OkdServed'
    BY <2>1, <2>2 DEF Inv, Reads, Follows, OnePut, OkServed, Put, OkdServed, In
  <2> QED
    BY <2>1, <2>3, ServerKept DEF Inv, server
<1>6. ASSUME NEW m \in net, RecvStored(w, m) PROVE Inv'
  <2>1. /\ net' \subseteq net /\ UNCHANGED <<server, my, val, shared, okd>>
        /\ pc[w] = "put" /\ pc' \in {[pc EXCEPT ![w] = "ok"], [pc EXCEPT ![w] = "err"]}
    BY <1>6 DEF RecvStored, Goto, ghosts
  <2>2. m.to = "otpd" /\ m.type = "A" /\ m.seq = my[w] /\ my[w] % 2 = 1
    BY <1>6 DEF RecvStored, Matches, Goto, Inv, NInv, Numbers
  <2>3. PICK a \in served : a.seq = m.seq /\ a.val = m.val
    BY <2>2 DEF Inv, Acks
  <2>4. a.seq = my[w] /\ a.req = "P"
    BY <2>2, <2>3 DEF Inv, NInv, TInv, ServedOK, Entry, Parity
  <2>5. Own(w) \notin shared => a = Put(my[w], val[w])
    BY <2>1, <2>4 DEF Inv, NInv, TInv, ServedOK, Entry, OnePut, Put
  <2>6. \A v \in Worker : In(v)' => In(v) /\ Own(v)' = Own(v) /\ (v # w => pc'[v] = pc[v])
    BY <1>0, <2>1 DEF Own, In
  <2>7. pc'[w] \in {"ok", "err"}
    BY <1>0, <2>1
  <2>8. OkServed'
    <3>1. ASSUME NEW v \in Worker, pc'[v] = "ok"
          PROVE  /\ \E b \in served : b.seq = my[v] /\ b.req = "P"
                 /\ Own(v) \notin shared => Put(my[v], val[v]) \in served
      BY <1>0, <2>1, <2>4, <2>5, <3>1 DEF Inv, OkServed
    <3>2. \A v \in Worker : pc'[v] = "ok" => Own(v)' = Own(v)
      BY <2>6 DEF In
    <3> QED
      BY <2>1, <3>1, <3>2 DEF server, OkServed, Put
  <2>9. Reads' /\ OnePut' /\ OkdServed'
    BY <2>1, <2>6, <2>7 DEF server, Inv, Reads, Follows, OnePut, OkdServed, Put, In
  <2> QED
    BY <2>1, <2>8, <2>9, ServerKept DEF Inv
<1>7. ASSUME NEW m \in net, RecvNak(w, m) PROVE Inv'
  <2>1. net' \subseteq net /\ UNCHANGED <<server, pc, my, val, shared, okd>>
    BY <1>7 DEF RecvNak, ghosts
  <2>2. Reads' /\ OnePut' /\ OkServed' /\ OkdServed'
    BY <2>1
    DEF server, Inv, Reads, Follows, OnePut, OkServed, Put, OkdServed, In, Own
  <2> QED
    BY <2>1, <2>2, ServerKept DEF Inv
<1>8. CASE Decide(w)
  <2>1. /\ net' \subseteq net /\ UNCHANGED <<server, shared, okd>>
        /\ pc[w] = "have" /\ pc' = [pc EXCEPT ![w] = "put"]
        /\ my' = [my EXCEPT ![w] = my[w] + 1]
        /\ \A v \in Worker \ {w} : val'[v] = val[v]
    BY <1>0, <1>8 DEF Decide, Goto, ghosts
  <2>2. (my[w] + 1) - 1 = my[w] /\ my'[w] = my[w] + 1 /\ pc'[w] = "put"
    BY <1>0, <2>1
  <2>3. Follows(my[w] + 1, val'[w])
    BY <1>0, <1>8, <2>1, <2>2 DEF Decide, Inv, Reads, Follows, Stored
  <2>4. \A v \in Worker : (In(v)' <=> In(v)) /\ Own(v)' = Own(v)
    BY <1>0, <2>1 DEF Own, In
  <2>5. Reads'
    BY <1>0, <2>1, <2>2, <2>3 DEF server, Inv, Reads, Follows
  <2>6. OnePut'
    BY <1>0, <2>1, <2>2, <2>4 DEF server, Inv, OnePut
  <2>7. OkServed' /\ OkdServed'
    BY <1>0, <2>1, <2>4 DEF server, Inv, OkServed, Put, OkdServed
  <2> QED
    BY <2>1, <2>5, <2>6, <2>7, ServerKept DEF Inv
<1>9. CASE Reply(w)
  <2>1. /\ net' \subseteq net /\ UNCHANGED <<server, shared>>
        /\ pc' = [pc EXCEPT ![w] = "idle"] /\ my' = [my EXCEPT ![w] = 0]
        /\ val' = [val EXCEPT ![w] = 0]
        /\ okd' = IF pc[w] = "ok" THEN okd \cup {[seq |-> Own(w), val |-> val[w]]} ELSE okd
    BY <1>9 DEF Reply, Goto
  <2>2. \A v \in Worker : In(v)' => /\ v # w /\ In(v) /\ Own(v)' = Own(v)
                                  /\ pc'[v] = pc[v] /\ my'[v] = my[v] /\ val'[v] = val[v]
    BY <1>0, <2>1 DEF Own, In
  <2>3. Reads'
    <3>1. \A s, v : Follows(s, v) => Follows(s, v)'
      BY <2>1 DEF server, Follows
    <3> QED
      BY <1>0, <2>1, <3>1 DEF server, Inv, Reads
  <2>6. OnePut' /\ OkServed'
    BY <2>1, <2>2 DEF server, Inv, OnePut, OkServed, Put, In
  <2>4. ASSUME pc[w] = "ok", Own(w) \notin shared
        PROVE  /\ Put(Own(w) + 1, val[w]) \in served /\ val[w] # NoUpdate
               /\ \A v \in Worker \ {w} : In(v) => Own(v) # Own(w)
    <3>1. Own(w) + 1 = my[w] /\ In(w)
      BY <1>0, <2>4 DEF Own, In
    <3> QED
      BY <2>4, <3>1 DEF Inv, OkServed, NInv, TInv, OkOK, Apart
  <2>5. OkdServed'
    BY <2>1, <2>2, <2>4 DEF server, Inv, OkdServed, Put
  <2> QED
    BY <2>1, <2>3, <2>5, <2>6, ServerKept DEF Inv
<1> QED
  BY <1>1, <1>2, <1>3, <1>4, <1>5, <1>6, <1>7, <1>8, <1>9

\* What is in the cache stays there.
LEMMA ReadsKept ==
  ASSUME served \subseteq served'
  PROVE  \A s, v : Follows(s, v) => Follows(s, v)'
  BY DEF Follows

\* A request served from the cache, or refused, changes nothing but the
\* network.
LEMMA AnswerKeeps ==
  ASSUME Inv, NInv', UNCHANGED <<server, otpd, ghosts>>,
         \A n \in net' : \/ n \in net
                         \/ /\ n.to = "otpd"
                            /\ n.type = "A" =>
                                 \E a \in served : a.seq = n.seq /\ a.val = n.val
  PROVE  Inv'
<1>1. UNCHANGED <<seq, pc, my, val, gstate, glock, served, shared, okd>>
  BY DEF server, otpd, ghosts
<1>2. Cache' /\ Lock' /\ OkServed' /\ OkdServed' /\ Successes'
  BY <1>1 DEF Inv, Cache, Lock, OkServed, Put, OkdServed, In, Own, Successes
<1>3. Acks'
  BY <1>1 DEF Inv, Acks
<1>4. Reads' /\ Writes'
  BY <1>1, ReadsKept DEF Inv, Reads, Writes
<1>5. OnePut'
  BY <1>1 DEF Inv, OnePut, Own
<1> QED
  BY <1>2, <1>3, <1>4, <1>5 DEF Inv

\* The first answer to a request keeps the invariant: a GET takes the lock
\* with the state, and a PUT that holds it stores one success more.
LEMMA ServeKeeps ==
  ASSUME Inv, NInv', NEW m \in net, Serve(m) PROVE Inv'
<1>0. /\ m.to = "gsmd" /\ m.type \in {"G", "P"} /\ m.seq \in Nat /\ m.val \in Stored
      /\ m.type = "P" <=> m.seq % 2 = 1
      /\ UNCHANGED <<otpd, ghosts>>
  BY DEF Serve, Inv, NInv, TInv, RequestOK, NetOK, Message, Number, Parity
<1>1. UNCHANGED <<seq, pc, my, val, shared, okd>>
  BY <1>0 DEF otpd, ghosts
<1>2. CASE \E a \in Cached(m) : Tell(m, "A", a.val) /\ UNCHANGED server
  BY <1>0, <1>2, TellAdds, AnswerKeeps DEF Cached, Answer
<1>3. CASE Tell(m, "N", NoUpdate) /\ UNCHANGED server
  BY <1>0, <1>3, TellAdds, AnswerKeeps DEF Answer
<1>4. ASSUME NEW e,
             e \in Entry, e.seq = m.seq, e.req = m.type,
             m.type = "P" => e.val = m.val,
             \A a \in served : a.seq # m.seq,
             served' = served \cup {e}, Tell(m, "A", e.val)
      PROVE  Cache' /\ Acks' /\ Reads' /\ Writes' /\ OnePut' /\ OkServed' /\ OkdServed'
  <2>1. Cache'
    BY <1>4 DEF Inv, Cache
  <2>2. net' \subseteq net \cup {Answer(m.from, "A", m.seq, e.val)}
    BY <1>4, TellAdds
  <2>3. Acks'
    BY <1>4, <2>2 DEF Answer, Inv, Acks
  <2>4. Reads' /\ Writes'
    BY <1>1, <1>4, <2>2, ReadsKept DEF Answer, Inv, Reads, Writes
  <2>5. OnePut'
    <3>1. \A v \in Worker : pc[v] = "put" /\ Own(v) \notin shared /\ m.seq = my[v]
                             => e.val = val[v]
      BY <1>0, <1>4 DEF Inv, NInv, Numbers, OnePut
    <3>2. \A v \in Worker : pc[v] \in {"get", "have"} /\ Own(v) \notin shared
                             => m.seq # my[v] + 1
      BY <1>0 DEF Inv, OnePut
    <3> QED
      BY <1>1, <1>4, <2>2, <3>1, <3>2 DEF Answer, Inv, OnePut, Own
  <2>6. OkServed' /\ OkdServed'
    BY <1>1, <1>4 DEF Inv, OkServed, Put, OkdServed, In, Own
  <2> QED
    BY <2>1, <2>3, <2>4, <2>5, <2>6
<1>5. Cached(m) = {} => \A a \in served : a.seq # m.seq
  BY <1>0 DEF Cached, Inv, NInv, TInv, ServedOK, Entry, Parity
<1>6. CASE /\ Cached(m) = {} /\ m.type = "G" /\ glock = Unlocked
           /\ glock' = m.seq
           /\ served' = served \cup {[seq |-> m.seq, req |-> "G", val |-> gstate]}
           /\ Tell(m, "A", gstate)
           /\ UNCHANGED gstate
  <2> DEFINE e == [seq |-> m.seq, req |-> "G", val |-> gstate]
  <2>1. e \in Entry
    BY <1>6 DEF Inv, NInv, TInv, ServedOK
  <2>2. Cache' /\ Acks' /\ Reads' /\ Writes' /\ OnePut' /\ OkServed' /\ OkdServed'
    BY <1>4, <1>5, <1>6, <2>1
  <2>3. Lock' /\ Successes'
    BY <1>6 DEF Inv, Lock, Successes
  <2> QED
    BY <2>2, <2>3 DEF Inv
<1>7. CASE /\ Cached(m) = {} /\ m.type = "P" /\ glock = m.seq - 1
           /\ gstate' = IF m.val = NoUpdate THEN gstate ELSE m.val
           /\ glock' = Unlocked
           /\ served' = served \cup {[seq |-> m.seq, req |-> "P", val |-> m.val]}
           /\ Tell(m, "A", m.val)
  <2> DEFINE e == [seq |-> m.seq, req |-> "P", val |-> m.val]
  <2>1. e \in Entry
    BY <1>7 DEF Inv, NInv, TInv, ServedOK
  <2>2. Cache' /\ Acks' /\ Reads' /\ Writes' /\ OnePut' /\ OkServed' /\ OkdServed'
    BY <1>4, <1>5, <1>7, <2>1
  <2>3. Lock'
    BY <1>7 DEF Lock
  <2>4. [seq |-> m.seq - 1, req |-> "G", val |-> gstate] \in served
    BY <1>0, <1>7, Pairs DEF Inv, Lock
  <2>5. m.val \in {gstate + 1, NoUpdate}
    BY <1>0, <1>7, <2>4 DEF Inv, Writes, Follows, Cache
  <2>6. gstate \in Nat /\ \A a \in served : a.val \in Int
    BY BoundAssumption
    DEF Inv, NInv, TInv, TypeOK, Vals, ServedOK, Entry, Stored
  <2>7. Successes'
    BY <1>7, <2>5, <2>6 DEF Inv, Successes
  <2> QED
    BY <2>2, <2>3, <2>7 DEF Inv
<1> QED
  BY <1>2, <1>3, <1>6, <1>7 DEF Serve

LEMMA InvNext == Inv /\ [Next]_vars => Inv'
<1> SUFFICES ASSUME Inv, [Next]_vars PROVE Inv'
  OBVIOUS
<1>0. NInv'
  BY NInvNext DEF Inv
<1>1. ASSUME NEW w \in Worker,
             \/ nonce32(w) \/ nonce32_return(w) \/ Send(w)
             \/ \E m \in net : \/ RecvState(w, m) \/ RecvGarbage(w, m)
                               \/ RecvStored(w, m) \/ RecvNak(w, m)
             \/ Timeout(w) \/ HardError(w) \/ Decide(w) \/ Reply(w)
      PROVE  Inv'
  BY <1>0, <1>1, ThreadSteps
<1>2. ASSUME NEW m \in net, Serve(m) PROVE Inv'
  BY <1>0, <1>2, ServeKeeps
<1>3. CASE BreakLock
  <2>1. UNCHANGED <<seq, pc, my, val, net, gstate, served, shared, okd>> /\ glock' = Unlocked
    BY <1>3 DEF BreakLock, otpd, ghosts
  <2>2. Lock'
    BY <2>1 DEF Lock
  <2>3. Cache' /\ Acks' /\ OnePut' /\ OkServed' /\ OkdServed' /\ Successes'
    BY <2>1
    DEF Inv, Cache, Acks, OnePut, OkServed, Put, OkdServed, In, Own, Successes
  <2>4. Reads' /\ Writes'
    BY <2>1, ReadsKept DEF Inv, Reads, Writes
  <2> QED
    BY <1>0, <2>2, <2>3, <2>4 DEF Inv
<1>4. CASE Signalled \/ UNCHANGED vars
  <2>1. UNCHANGED <<seq, pc, my, val, net, gstate, glock, served, shared, okd>>
    BY <1>4 DEF Signalled, vars, otpd, server, ghosts
  <2>2. Reads' /\ OnePut' /\ OkServed' /\ OkdServed'
    BY <2>1, ReadsKept DEF Inv, Reads, OnePut, OkServed, Put, OkdServed, In, Own
  <2> QED
    BY <1>0, <2>1, <2>2, ServerKept DEF Inv, server
<1> QED
  BY <1>1, <1>2, <1>3, <1>4 DEF Next

\* One state leads to one success, though datagrams are lost, repeated and late
\* and the gsmd breaks locks under the thread that holds them: the only way to
\* two is a number that nonce32() handed out twice, in either build
\* (README:271-272, "a consistent view of token state"; nonce.c:60).
THEOREM OneAcceptPerState == Spec => []NoDoubleAccept
<1>1. Inv => NoDoubleAccept
  <2> SUFFICES ASSUME Inv, NEW w \in Worker, Alone(w)
               PROVE  /\ \A o \in okd : o.val = val[w] => o.seq \in shared
                      /\ \A v \in Worker : Alone(v) /\ val[v] = val[w] => v = w
    BY DEF NoDoubleAccept
  <2>1. /\ Put(my[w], val[w]) \in served /\ val[w] # NoUpdate
        /\ In(w) /\ Own(w) = my[w] - 1 /\ my[w] \in Nat
    BY DEF Alone, Inv, OkServed, NInv, TInv, TypeOK, OkOK, In, Own
  <2>2. ASSUME NEW o \in okd, o.val = val[w], o.seq \notin shared PROVE FALSE
    <3>1. Put(o.seq + 1, val[w]) \in served /\ Own(w) # o.seq
      BY <2>1, <2>2 DEF Inv, OkdServed
    <3>2. o.seq + 1 = my[w] /\ o.seq \in Nat
      BY <2>1, <2>2, <3>1 DEF Inv, Successes, Put, NInv, TInv, TypeOK
    <3> QED
      BY <2>1, <3>1, <3>2
  <2>3. ASSUME NEW v \in Worker, Alone(v), val[v] = val[w] PROVE v = w
    <3>1. Put(my[v], val[v]) \in served /\ In(v) /\ Own(v) = my[v] - 1
      BY <2>3 DEF Alone, Inv, OkServed, In, Own
    <3>2. my[v] = my[w]
      BY <2>1, <2>3, <3>1 DEF Inv, Successes, Put
    <3> QED
      BY <2>1, <2>3, <3>1, <3>2 DEF Alone, Inv, NInv, Apart
  <2> QED
    BY <2>2, <2>3
<1> QED
  BY <1>1, InvNext, InvInit, PTL DEF Spec

\* A success that is about to be reported answers a PUT of its exchange, not a
\* late GET, and unless its number was handed out twice it is in the gsmd's
\* state, in either build (state.c:318, "disambiguate late GET responses").
THEOREM ReportedIsStored == Spec => []OkIsStored
<1>1. Inv => OkIsStored
  <2> SUFFICES ASSUME Inv, NEW w \in Worker, pc[w] = "ok"
               PROVE  \E a \in served : /\ a.seq = my[w] /\ a.req = "P"
                                        /\ Alone(w) => a.val = val[w] /\ val[w] <= gstate
    BY DEF OkIsStored
  <2>1. CASE ~Alone(w)
    BY <2>1 DEF Inv, OkServed
  <2>2. CASE Alone(w)
    BY <2>2 DEF Alone, Inv, OkServed, Put, Successes, NInv, TInv, OkOK
  <2> QED
    BY <2>1, <2>2
<1> QED
  BY <1>1, InvNext, InvInit, PTL DEF Spec
=============================================================================
