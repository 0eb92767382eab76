---------------------------- MODULE GlobalState -----------------------------
(***************************************************************************)
(* Global state mode (state.c, SMODE_GLOBAL): the threads of one otpd get  *)
(* and put one user's state at a gsmd over UDP.  A thread locks and reads  *)
(* with GET, and writes and unlocks with PUT, each repeated until it is    *)
(* answered or the thread runs out of time.  Requests carry the number     *)
(* nonce32() hands out (nonce.c), which is how answers are told apart.     *)
(*                                                                         *)
(* The network loses (nothing forces a delivery), repeats and reorders.    *)
(* The gsmd is another program: it is modelled from what state.c expects   *)
(* of it, and answers a request it has served from its transmit cache.     *)
(* A state is abstracted to the number of successes it has seen, so two    *)
(* successes from the same state stand for one passcode accepted twice.    *)
(***************************************************************************)
EXTENDS Integers, FiniteSets

CONSTANTS
  Worker,         \* threads with a request of this user
  HAVE_ATOMIC_H,  \* is nonce32() built on atomic_add_32_nv()?
  HasBackup,      \* gsmd->n == 2, and the primary is the active one
  MaxSeq,         \* bound on the sequence numbers used
  MaxVal          \* bound on the successes

ASSUME BuildAssumption == HAVE_ATOMIC_H \in BOOLEAN /\ HasBackup \in BOOLEAN
ASSUME BoundAssumption == MaxSeq \in Nat /\ MaxVal \in Nat

VARIABLES
  seq,     \* nonce.c: the counter
  pc,      \* where each thread is
  my,      \* state_t.l.g.seq
  val,     \* the state the thread read, then the one it writes
  nak,     \* gsmd(): has this exchange seen a NAK?
  sem,     \* has the failover thread been signalled?
  net,     \* datagrams that may still arrive
  gstate, glock, served,   \* gsmd: state, GET that holds the lock, cache
  handed,  \* history: numbers nonce32() has returned
  shared,  \* history: those it has returned more than once
  okd      \* history: successes sent, with the number of their exchange

otpd == <<seq, pc, my, val, nak, sem>>
server == <<gstate, glock, served>>
ghosts == <<handed, shared, okd>>
vars == <<otpd, net, server, ghosts>>

Unlocked == -1
NoUpdate == -1

PCs == {"idle", "nonce", "get", "have", "put", "ok", "err"}

Request(w, type, s, v) == [to |-> "gsmd", from |-> w, type |-> type, seq |-> s, val |-> v]
Answer(w, type, s, v) == [to |-> "otpd", from |-> w, type |-> type, seq |-> s, val |-> v]

Init ==
  /\ seq = -2                      \* nonce_init()
  /\ pc = [w \in Worker |-> "idle"]
  /\ my = [w \in Worker |-> 0]
  /\ val = [w \in Worker |-> 0]
  /\ nak = [w \in Worker |-> FALSE]
  /\ sem = FALSE
  /\ net = {}
  /\ gstate = 0 /\ glock = Unlocked /\ served = {}
  /\ handed = {} /\ shared = {} /\ okd = {}
-----------------------------------------------------------------------------
(* otpd *)

Goto(w, from, to) == pc[w] = from /\ pc' = [pc EXCEPT ![w] = to]

\* The socket is closed: answers to it no longer reach anyone.
Closed(w) == {m \in net : ~(m.to = "otpd" /\ m.from = w)}

\* nonce32(): with atomics the new value is returned; without, the counter is
\* read again after the unlock.
nonce32(w) ==
  /\ seq + 2 <= MaxSeq
  /\ seq' = seq + 2 /\ my' = [my EXCEPT ![w] = seq + 2]
  /\ Goto(w, "idle", "nonce")
  /\ nak' = [nak EXCEPT ![w] = FALSE]
  /\ UNCHANGED <<val, sem, net, server, ghosts>>

nonce32_return(w) ==
  LET n == IF HAVE_ATOMIC_H THEN my[w] ELSE seq IN
  /\ Goto(w, "nonce", "get")
  /\ my' = [my EXCEPT ![w] = n]
  /\ handed' = handed \cup {n}
  /\ shared' = IF n \in handed THEN shared \cup {n} ELSE shared
  /\ UNCHANGED <<seq, val, nak, sem, net, server, okd>>

\* gsmd(): send, again after every timeout or NAK.
Send(w) ==
  /\ pc[w] \in {"get", "put"}
  /\ net' = net \cup {IF pc[w] = "get" THEN Request(w, "G", my[w], NoUpdate)
                                       ELSE Request(w, "P", my[w], val[w])}
  /\ UNCHANGED <<otpd, server, ghosts>>

\* An answer with another sequence number is dropped.
Matches_any(w, m) == m.to = "otpd" /\ m.from = w
Matches(w, m) == m.to = "otpd" /\ m.from = w /\ m.seq = my[w]

\* ACK of the GET: state_get_global() keeps the socket for the PUT.
RecvState(w, m) ==
  /\ Matches(w, m) /\ m.type = "A"
  /\ Goto(w, "get", "have")
  /\ val' = [val EXCEPT ![w] = m.val]
  /\ UNCHANGED <<seq, my, nak, sem, net, server, ghosts>>

\* ... unless the state does not parse: the user stays locked at the gsmd.
RecvGarbage(w, m) ==
  /\ Matches(w, m) /\ m.type = "A"
  /\ Goto(w, "get", "err")
  /\ net' = Closed(w)
  /\ UNCHANGED <<seq, my, val, nak, sem, server, ghosts>>

\* ACK of the PUT.
RecvStored(w, m) ==
  /\ Matches(w, m) /\ m.type = "A"
  /\ Goto(w, "put", IF val[w] = NoUpdate THEN "err" ELSE "ok")
  /\ net' = Closed(w)
  /\ UNCHANGED <<seq, my, val, nak, sem, server, ghosts>>

RecvNak(w, m) ==
  /\ Matches(w, m) /\ m.type = "N" /\ pc[w] \in {"get", "put"}
  /\ nak' = [nak EXCEPT ![w] = TRUE]
  /\ UNCHANGED <<seq, pc, my, val, sem, net, server, ghosts>>

\* Out of time, or the port is refused: the failover thread is signalled
\* unless a NAK showed that the gsmd lives.
Timeout(w) ==
  /\ Goto(w, pc[w], "err") /\ pc[w] \in {"get", "put"}
  /\ sem' = (sem \/ (HasBackup /\ ~nak[w]))
  /\ net' = Closed(w)
  /\ UNCHANGED <<seq, my, val, nak, server, ghosts>>

\* A socket error, or a datagram that fails the checks of gsmd().
HardError(w) ==
  /\ Goto(w, pc[w], "err") /\ pc[w] \in {"get", "put"}
  /\ net' = Closed(w)
  /\ UNCHANGED <<seq, my, val, nak, sem, server, ghosts>>

\* verify() accepts the passcode, or gives up without an update; the PUT has
\* a number of its own.
Decide_sameseq(w) ==
  /\ Goto(w, "have", "put")
  /\ \/ val[w] < MaxVal /\ val' = [val EXCEPT ![w] = @ + 1]
     \/ val' = [val EXCEPT ![w] = NoUpdate]
  /\ nak' = [nak EXCEPT ![w] = FALSE]
  /\ UNCHANGED <<seq, my, sem, net, server, ghosts>>
Decide_nextseq(w) ==
  /\ Goto(w, "have", "put")
  /\ \/ val[w] < MaxVal /\ val' = [val EXCEPT ![w] = @ + 1]
     \/ val' = [val EXCEPT ![w] = NoUpdate]
  /\ my' = [my EXCEPT ![w] = @ + 2]
  /\ nak' = [nak EXCEPT ![w] = FALSE]
  /\ UNCHANGED <<seq, sem, net, server, ghosts>>
Decide(w) ==
  /\ Goto(w, "have", "put")
  /\ \/ val[w] < MaxVal /\ val' = [val EXCEPT ![w] = @ + 1]
     \/ val' = [val EXCEPT ![w] = NoUpdate]
  /\ my' = [my EXCEPT ![w] = @ + 1]
  /\ nak' = [nak EXCEPT ![w] = FALSE]
  /\ UNCHANGED <<seq, sem, net, server, ghosts>>

\* The number nonce32() gave to the exchange of w, which the GET carries.
Own(w) == IF pc[w] \in {"put", "ok"} THEN my[w] - 1 ELSE my[w]

Reply(w) ==
  /\ Goto(w, pc[w], "idle") /\ pc[w] \in {"ok", "err"}
  /\ okd' = IF pc[w] = "ok" THEN okd \cup {[seq |-> Own(w), val |-> val[w]]} ELSE okd
  /\ val' = [val EXCEPT ![w] = 0]
  /\ my' = [my EXCEPT ![w] = 0]
  /\ UNCHANGED <<seq, nak, sem, net, server, handed, shared>>

\* The failover thread takes the signal.
Signalled == sem /\ sem' = FALSE /\ UNCHANGED <<seq, pc, my, val, nak, net, server, ghosts>>
-----------------------------------------------------------------------------
(* gsmd *)

Cached(m) == {a \in served : a.seq = m.seq /\ a.req = m.type}

\* A socket is open from the GET to the end of the PUT; an answer to one that
\* has been closed reaches nobody.
Listening(w) == pc[w] \in {"get", "have", "put"}
Open(m) == Listening(m.from) /\ my[m.from] \div 2 = m.seq \div 2

Tell(m, type, v) ==
  net' = IF Open(m) THEN net \cup {Answer(m.from, type, m.seq, v)} ELSE net

\* A request is served whenever it arrives, be it after the thread gave up.
Serve(m) ==
  /\ m.to = "gsmd"
  /\ \/ \E a \in Cached(m) : Tell(m, "A", a.val) /\ UNCHANGED server
     \/ /\ Cached(m) = {} /\ m.type = "G" /\ glock = Unlocked
        /\ glock' = m.seq
        /\ served' = served \cup {[seq |-> m.seq, req |-> "G", val |-> gstate]}
        /\ Tell(m, "A", gstate)
        /\ UNCHANGED gstate
     \/ /\ Cached(m) = {} /\ m.type = "P" /\ glock = m.seq - 1
        /\ gstate' = IF m.val = NoUpdate THEN gstate ELSE m.val
        /\ glock' = Unlocked
        /\ served' = served \cup {[seq |-> m.seq, req |-> "P", val |-> m.val]}
        /\ Tell(m, "A", m.val)
     \/ /\ Cached(m) = {}
        /\ IF m.type = "G" THEN glock # Unlocked ELSE glock # m.seq - 1
        /\ Tell(m, "N", NoUpdate)
        /\ UNCHANGED server
  /\ UNCHANGED <<otpd, ghosts>>

\* A lock that is not given back in time is broken by the gsmd.
BreakLock ==
  /\ glock # Unlocked
  /\ glock' = Unlocked
  /\ UNCHANGED <<otpd, net, gstate, served, ghosts>>

Next ==
  \/ \E w \in Worker :
       \/ nonce32(w) \/ nonce32_return(w) \/ Send(w)
       \/ \E m \in net : \/ RecvState(w, m) \/ RecvGarbage(w, m)
                         \/ RecvStored(w, m) \/ RecvNak(w, m)
       \/ Timeout(w) \/ HardError(w) \/ Decide(w) \/ Reply(w)
  \/ \E m \in net : Serve(m)
  \/ BreakLock
  \/ Signalled

Spec == Init /\ [][Next]_vars
-----------------------------------------------------------------------------
(* Properties. *)

Vals == 0 .. MaxVal

TypeOK ==
  /\ seq \in -2 .. MaxSeq
  /\ pc \in [Worker -> PCs]
  /\ my \in [Worker -> 0 .. MaxSeq + 1]
  /\ val \in [Worker -> Vals \cup {NoUpdate}]
  /\ nak \in [Worker -> BOOLEAN] /\ sem \in BOOLEAN
  /\ gstate \in Vals /\ glock \in 0 .. MaxSeq \cup {Unlocked}
  /\ handed \subseteq 0 .. MaxSeq /\ shared \subseteq handed
  /\ okd \subseteq [seq : 0 .. MaxSeq, val : Vals]

\* One state leads to one success: whatever is lost, repeated or late, two
\* requests are accepted from the same state only if the exchange of one of
\* them has a number that nonce32() gave out twice (nonce.c:60 reads the
\* counter after the unlock; README:271-272, "a consistent view of token
\* state, to avoid replay attacks").
Alone(w) == pc[w] = "ok" /\ Own(w) \notin shared

NoDoubleAccept ==
  \A w \in Worker : Alone(w) =>
    /\ \A o \in okd : o.val = val[w] => o.seq \in shared
    /\ \A v \in Worker : Alone(v) /\ val[v] = val[w] => v = w

\* A success that is reported is the answer to a PUT of its exchange, never a
\* late answer to the GET (state.c:318, "disambiguate late GET responses"),
\* and unless the number is shared it is the gsmd's state or older.
OkIsStored ==
  \A w \in Worker : pc[w] = "ok" =>
    \E a \in served : /\ a.seq = my[w] /\ a.req = "P"
                      /\ Alone(w) => a.val = val[w] /\ val[w] <= gstate
=============================================================================
