-------------------------------- MODULE Ldap --------------------------------
(***************************************************************************)
(* The LDAP user backend (userops/ldap.c): concurrent lookups that share a *)
(* pool of connections, each guarded by a mutex that is only ever tried,   *)
(* the time a lookup may take, and what is made of the entry that is       *)
(* found.  The directory server is external: it answers, fails, or is      *)
(* restarted, after which the connections to it report SERVER_DOWN.        *)
(*                                                                         *)
(* Time is scaled: a second has K^2 "microseconds" of K "nanoseconds"; in  *)
(* the code K is 1000.                                                     *)
(***************************************************************************)
EXTENDS Integers, Sequences, FiniteSets

CONSTANTS
  Worker,
  Entries,      \* entries a search may find
  Answers,      \* how many entries a search may find: "none", "one", "many"
  K, Seconds,   \* scale, and config->timeout
  Durations,    \* nanoseconds the calls of a lookup may take
  MaxRestarts   \* bound on the restarts of the server

ASSUME TimeAssumption ==
  /\ K \in Nat \ {0, 1} /\ Seconds \in Nat /\ Durations \subseteq Nat
  /\ MaxRestarts \in Nat

VARIABLES
  pool,     \* the connections; the last one is ldp_head
  pc, at,   \* where each thread is, and its place in the walk or its ldp
  tv, rc, user,
  restarts

\* History, read by no action.
VARIABLE found   \* the entry each lookup has found

vars == <<pool, pc, at, tv, rc, user, restarts, found>>

\* ldap_ld_t; old: the server was restarted since the connection was made.
Connection == [locked : BOOLEAN, ld : BOOLEAN, used : BOOLEAN, old : BOOLEAN]
-----------------------------------------------------------------------------
(* What is made of an entry. *)

Expiry == {"none", "past", "future"}
Static == {"none", "clear", "{MD5}", "{SHA}", "{SHA1}"}
Entry == [valid : BOOLEAN, pw : Static, pwexp : Expiry, rw : BOOLEAN, rwexp : Expiry]

ASSUME DirectoryAssumption == IsFiniteSet(Worker) /\ Entries \subseteq Entry

NoEntry == [valid |-> FALSE, pw |-> "none", pwexp |-> "none", rw |-> FALSE, rwexp |-> "none"]

\* Characters of a hashed static password behind the fifth.
Rest(p) == CASE p = "{MD5}" -> 32 [] p = "{SHA}" -> 40 [] OTHER -> 41

\* strncmp() is 0 on equality.
StaticValid(p) ==
  \/ p = "clear"
  \/ IF p # "{MD5}" THEN Rest(p) = 32
     ELSE IF p # "{SHA}" THEN Rest(p) = 40 ELSE FALSE

StaticInForce(e) == e.pw # "none" /\ e.pwexp = "future"

\* The user_t, an error, or a NULL dereference: the expiry of the rwindow is
\* read although the test for it looks at the rwindow.
Faulted(e) == e.rw /\ e.rwexp = "none"
Refused(e) ==
  \/ ~e.valid
  \/ e.pw # "none" /\ e.pwexp = "none"
  \/ StaticInForce(e) /\ ~StaticValid(e.pw)

NoUser == [pw |-> "none", rw |-> FALSE, null |-> TRUE]
Extract_keep(e) == [pw |-> e.pw, rw |-> e.rw, null |-> FALSE]
Extract(e) == [pw |-> IF StaticInForce(e) THEN e.pw ELSE "none",
               rw |-> e.rw /\ e.rwexp = "future", null |-> FALSE]
-----------------------------------------------------------------------------
(* The timeout. *)

\* Carry as the code does it, once.
Carried(t) ==
  IF t.usec < 0 THEN [sec |-> t.sec - 1, usec |-> t.usec + K * K] ELSE t

update_timeout_nocarry(t, hret) ==
  [sec |-> t.sec - (hret \div (K * K * K)), usec |-> t.usec - (hret % (K * K))]
\* The microseconds subtracted are hret % 1000000, not those of hret.
update_timeout(t, hret) ==
  Carried([sec |-> t.sec - (hret \div (K * K * K)), usec |-> t.usec - (hret % (K * K))])

Expired(t) == t.sec < 0 \/ t.usec < 0

\* A call takes d nanoseconds, of which the code learns with update_timeout().
Takes(w, d) == tv' = [tv EXCEPT ![w] = update_timeout(@, d)]
-----------------------------------------------------------------------------
Idle == 0
NewConnection == [locked |-> TRUE, ld |-> FALSE, used |-> FALSE, old |-> FALSE]
FullTime == [sec |-> Seconds, usec |-> 0]

Init ==
  /\ pool = <<>>
  /\ pc = [w \in Worker |-> "idle"]
  /\ at = [w \in Worker |-> Idle]
  /\ tv = [w \in Worker |-> FullTime]
  /\ rc = [w \in Worker |-> 0]
  /\ user = [w \in Worker |-> NoUser]
  /\ restarts = 0
  /\ found = [w \in Worker |-> NoEntry]

Goto(w, from, to) == pc[w] = from /\ pc' = [pc EXCEPT ![w] = to]

\* ldap_get(): the walk through the pool starts at the head.
ldap_get(w) ==
  /\ Goto(w, "idle", "walk")
  /\ at' = [at EXCEPT ![w] = Len(pool)]
  /\ tv' = [tv EXCEPT ![w] = FullTime]
  /\ rc' = [rc EXCEPT ![w] = -2]
  /\ user' = [user EXCEPT ![w] = NoUser]
  /\ found' = [found EXCEPT ![w] = NoEntry]
  /\ UNCHANGED <<pool, restarts>>

\* getldp(): try one mutex after the other, then add a connection.
Try(w) ==
  /\ pc[w] = "walk" /\ at[w] > 0
  /\ IF pool[at[w]].locked
     THEN /\ at' = [at EXCEPT ![w] = @ - 1]
          /\ UNCHANGED <<pc, pool>>
     ELSE /\ Goto(w, "walk", "ldp")
          /\ pool' = [pool EXCEPT ![at[w]].locked = TRUE]
          /\ UNCHANGED at
  /\ UNCHANGED <<tv, rc, user, restarts, found>>

Add(w) ==
  /\ at[w] = 0
  /\ Goto(w, "walk", "ldp")
  /\ pool' = Append(pool, NewConnection)
  /\ at' = [at EXCEPT ![w] = Len(pool) + 1]
  /\ UNCHANGED <<tv, rc, user, restarts, found>>

\* Connect and bind unless the connection is there already.
Bind(w) ==
  /\ pc[w] = "ldp"
  /\ IF pool[at[w]].ld
     THEN Goto(w, "ldp", "search") /\ UNCHANGED <<pool, tv>>
     ELSE \E d \in Durations, ok \in BOOLEAN :
            LET bound == ok /\ ~Expired(update_timeout(tv[w], d)) IN
            /\ Goto(w, "ldp", IF bound THEN "search" ELSE "put")
            /\ Takes(w, d)
            /\ pool' = [pool EXCEPT ![at[w]] = [@ EXCEPT !.ld = bound, !.used = FALSE,
                                                        !.old = FALSE]]
  /\ UNCHANGED <<at, rc, user, restarts, found>>

\* One entry is found, or none, or too many.
Search(w) ==
  /\ pc[w] = "search" /\ pool[at[w]].ld /\ ~pool[at[w]].old
  /\ pool' = [pool EXCEPT ![at[w]].used = TRUE]
  /\ \/ /\ \E n \in Answers \ {"one"} :
               rc' = [rc EXCEPT ![w] = IF n = "none" THEN -1 ELSE -2]
          /\ Goto(w, "search", "put")
          /\ UNCHANGED <<user, found>>
     \/ \E e \in IF "one" \in Answers THEN Entries ELSE {} :
          LET refused == Refused(e)
              faulted == ~refused /\ Faulted(e) IN
          /\ found' = [found EXCEPT ![w] = e]
          /\ Goto(w, "search", IF faulted THEN "fault" ELSE "put")
          /\ IF refused \/ faulted THEN UNCHANGED <<rc, user>>
             ELSE /\ rc' = [rc EXCEPT ![w] = 0]
                  /\ user' = [user EXCEPT ![w] = Extract(e)]
  /\ UNCHANGED <<at, tv, restarts>>

\* putldp()
Put_open(c, unbind) == [c EXCEPT !.locked = FALSE]
Put_leak(c, unbind) == [c EXCEPT !.ld = @ /\ ~unbind, !.locked = unbind]
Put(c, unbind) ==
  [c EXCEPT !.ld = @ /\ ~unbind, !.locked = FALSE]

\* The server is gone.  A connection that worked before is put back and the
\* lookup starts over; if no time is left it is put back once more.
ServerDown(w) ==
  /\ pc[w] = "search" /\ pool[at[w]].ld /\ pool[at[w]].old
  /\ IF pool[at[w]].used
     THEN /\ pool' = [pool EXCEPT ![at[w]] = Put(@, TRUE)]
          /\ \E d \in Durations :
               /\ Takes(w, d)
               /\ IF Expired(update_timeout(tv[w], d))
                  THEN Goto(w, "search", "again") /\ UNCHANGED at
                  ELSE Goto(w, "search", "walk") /\ at' = [at EXCEPT ![w] = Len(pool)]
     ELSE Goto(w, "search", "unbind") /\ UNCHANGED <<pool, at, tv>>
  /\ UNCHANGED <<rc, user, restarts, found>>

\* Any other error of the search.
SearchFails(w) ==
  /\ pc[w] = "search" /\ pool[at[w]].ld
  /\ Goto(w, "search", "unbind")
  /\ UNCHANGED <<pool, at, tv, rc, user, restarts, found>>

\* out_filter
putldp(w) ==
  /\ \E from \in {"put", "unbind", "again"} :
       /\ Goto(w, from, "verify")
       /\ from # "put" => pool[at[w]].ld
       /\ pool' = [pool EXCEPT ![at[w]] = Put(@, from # "put")]
  /\ at' = [at EXCEPT ![w] = Idle]
  /\ UNCHANGED <<tv, rc, user, restarts, found>>

\* otp.c: verify() is done with the user and calls ldap_put().
ldap_put(w) ==
  /\ ~user[w].null
  /\ Goto(w, "verify", "idle")
  /\ user' = [user EXCEPT ![w] = NoUser]
  /\ UNCHANGED <<pool, at, tv, rc, restarts, found>>

\* The process dies and is started again: ldap_put() of a NULL user, the
\* expiry that is not there, or the use of a connection that was unbound.
Faulty(w) ==
  \/ pc[w] = "fault"
  \/ pc[w] = "verify" /\ user[w].null
  \/ pc[w] \in {"search", "unbind", "again"} /\ ~pool[at[w]].ld

Crash ==
  /\ \E w \in Worker : Faulty(w)
  /\ pool' = <<>>
  /\ pc' = [w \in Worker |-> "idle"]
  /\ at' = [w \in Worker |-> Idle]
  /\ tv' = [w \in Worker |-> FullTime]
  /\ rc' = [w \in Worker |-> 0]
  /\ user' = [w \in Worker |-> NoUser]
  /\ found' = [w \in Worker |-> NoEntry]
  /\ UNCHANGED <<restarts>>

ServerRestart ==
  /\ restarts < MaxRestarts
  /\ restarts' = restarts + 1
  /\ pool' = [i \in DOMAIN pool |-> [pool[i] EXCEPT !.old = @ \/ pool[i].ld]]
  /\ UNCHANGED <<pc, at, tv, rc, user, found>>

Step(w) ==
  \/ Try(w) \/ Add(w) \/ Bind(w) \/ Search(w) \/ ServerDown(w) \/ SearchFails(w)
  \/ putldp(w) \/ ldap_put(w)

Next ==
  \/ \E w \in Worker : Step(w) \/ ldap_get(w)
  \/ Crash
  \/ ServerRestart

Spec == Init /\ [][Next]_vars

\* Threads are scheduled; none waits for another.
Fairness == WF_vars(Crash) /\ \A w \in Worker : WF_vars(Step(w))
FairSpec == Spec /\ Fairness
-----------------------------------------------------------------------------
(* Properties. *)

TypeOK ==
  /\ pool \in Seq(Connection)
  /\ pc \in [Worker -> {"idle", "walk", "ldp", "search", "again", "put", "unbind",
                       "verify", "fault"}]
  /\ at \in [Worker -> 0 .. Len(pool)]
  /\ tv \in [Worker -> [sec : Int, usec : 0 .. K * K - 1]]
  /\ rc \in [Worker -> {0, -1, -2}]
  /\ user \in [Worker -> [pw : Static, rw : BOOLEAN, null : BOOLEAN]]
  /\ restarts \in 0 .. MaxRestarts
  /\ found \in [Worker -> Entry]

Uses(w) == pc[w] \in {"ldp", "search", "put", "unbind", "fault"}

\* A connection serves one lookup at a time, whose thread holds its mutex
\* (ldap.c:458, "get a bound ldap connection from the pool"; 582, "make
\* connection available to another thread").
OneLookup ==
  \A w \in Worker : Uses(w) =>
    pool[at[w]].locked /\ \A v \in Worker : Uses(v) /\ at[v] = at[w] => v = w

\* Connections are used again: a mutex is free once no lookup uses its
\* connection, whatever fails, so that there are never more connections than
\* threads, however the walks through the pool interleave (otpd.conf:136,
\* "otpd reuses connections to the LDAP server").
NoneLeaked ==
  /\ \A i \in DOMAIN pool : pool[i].locked => \E w \in Worker : Uses(w) /\ at[w] = i
  /\ Len(pool) <= Cardinality(Worker)

\* A user is reported found exactly if there is a user_t, whose temporary
\* overrides are in force.
FoundIsUser ==
  \A w \in Worker : pc[w] \in {"put", "unbind", "verify"} =>
    /\ (rc[w] = 0) = ~user[w].null
    /\ ~user[w].null =>
         /\ found[w].valid
         /\ user[w].pw # "none" => StaticInForce(found[w]) /\ found[w].pw = user[w].pw
         /\ user[w].rw => found[w].rw /\ found[w].rwexp = "future"

\* Every lookup ends, restarts of the server or not.
LookupEnds == \A w \in Worker : pc[w] # "idle" ~> pc[w] = "idle"
=============================================================================
