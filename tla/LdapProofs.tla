----------------------------- MODULE LdapProofs -----------------------------
(***************************************************************************)
(* Theorems about the LDAP backend, for every number of threads, directory *)
(* and time that its calls take, and the one step that lets two lookups    *)
(* share a connection.                                                     *)
(***************************************************************************)
EXTENDS Ldap, TLAPS, FiniteSetTheorems, SequenceTheorems

Time == [sec : Int, usec : 0 .. K * K - 1]
User == [pw : Static, rw : BOOLEAN, null : BOOLEAN]
PCs == {"idle", "walk", "ldp", "search", "again", "put", "unbind", "verify", "fault"}
-----------------------------------------------------------------------------
(* The time that is left. *)

LEMMA Scale == K * K \in Nat \ {0} /\ K * K * K \in Nat \ {0}
<1>1. K \in Nat \ {0}
  BY TimeAssumption
<1>2. \A a, b \in Nat \ {0} : a * b \in Nat \ {0}
  OBVIOUS
<1> QED
  BY <1>1, <1>2

\* What is subtracted is less than a second, so one carry is enough.
LEMMA TimeoutType ==
  ASSUME NEW t \in Time, NEW d \in Nat PROVE update_timeout(t, d) \in Time
<1> DEFINE M == K * K
           B == K * K * K
<1>1. M \in Nat \ {0} /\ B \in Nat \ {0}
  BY Scale
<1>2. t.sec \in Int /\ t.usec \in 0 .. M - 1
  BY DEF Time
<1> HIDE DEF M, B
<1>3. d % M \in 0 .. M - 1 /\ d \div B \in Int
  BY <1>1
<1> DEFINE u == [sec |-> t.sec - (d \div B), usec |-> t.usec - (d % M)]
<1>4. u.sec \in Int /\ u.usec \in -(M - 1) .. M - 1
  BY <1>1, <1>2, <1>3
<1>5. (IF u.usec < 0 THEN [sec |-> u.sec - 1, usec |-> u.usec + M] ELSE u)
        \in [sec : Int, usec : 0 .. M - 1]
  BY <1>1, <1>4
<1> QED
  BY <1>5 DEF M, B, update_timeout, Carried, Time
-----------------------------------------------------------------------------
(* Types. *)

LEMMA Nothing == NoUser \in User /\ NoEntry \in Entry /\ FullTime \in Time
<1>1. Seconds \in Int /\ 0 \in 0 .. K * K - 1
  BY Scale, TimeAssumption
<1>2. FullTime \in Time
  BY <1>1 DEF FullTime, Time
<1> QED
  BY <1>2, Zenon DEF NoUser, User, Static, NoEntry, Entry, Expiry

LEMMA NewType == NewConnection \in Connection
  BY Zenon DEF NewConnection, Connection

\* A connection stays one, and putldp() always unlocks it.
LEMMA ConnectionType ==
  ASSUME NEW c \in Connection, NEW b \in BOOLEAN
  PROVE  /\ [c EXCEPT !.locked = TRUE] \in Connection
         /\ [c EXCEPT !.used = TRUE] \in Connection
         /\ [c EXCEPT !.used = TRUE].locked = c.locked
         /\ [c EXCEPT !.ld = b, !.used = FALSE, !.old = FALSE] \in Connection
         /\ [c EXCEPT !.ld = b, !.used = FALSE, !.old = FALSE].locked = c.locked
         /\ [c EXCEPT !.old = @ \/ c.ld] \in Connection
         /\ [c EXCEPT !.old = @ \/ c.ld].locked = c.locked
         /\ Put(c, b) \in Connection
         /\ ~Put(c, b).locked
  BY Zenon DEF Connection, Put

\* The user_t of an entry is one, and only of what is in force.
LEMMA ExtractType ==
  ASSUME NEW e \in Entry
  PROVE  /\ Extract(e) \in User
         /\ Extract(e).null = FALSE
         /\ Extract(e).pw # "none" => StaticInForce(e) /\ e.pw = Extract(e).pw
         /\ Extract(e).rw => e.rw /\ e.rwexp = "future"
<1>1. Extract(e).pw \in Static
  BY DEF Extract, Entry, Static
<1>2. Extract(e).rw \in BOOLEAN
  BY Zenon DEF Extract, Entry
<1> QED
  BY <1>1, <1>2, Zenon DEF Extract, User
-----------------------------------------------------------------------------
(* The invariant: a lookup that uses a connection has one, a locked mutex *)
(* has a lookup that uses its connection, and only a search that found an *)
(* entry makes a user. *)

Placed == \A w \in Worker : Uses(w) \/ pc[w] = "again" => at[w] >= 1
Held == \A i \in DOMAIN pool : pool[i].locked => \E w \in Worker : Uses(w) /\ at[w] = i

\* What FoundIsUser says of one thread.
UserRight(w) ==
  /\ (rc[w] = 0) = ~user[w].null
  /\ ~user[w].null =>
       /\ found[w].valid
       /\ user[w].pw # "none" => StaticInForce(found[w]) /\ found[w].pw = user[w].pw
       /\ user[w].rw => found[w].rw /\ found[w].rwexp = "future"
Lookup ==
  \A w \in Worker :
    /\ pc[w] \in {"put", "verify"} => UserRight(w)
    /\ pc[w] \in {"walk", "ldp", "search", "again", "unbind", "fault"} =>
         rc[w] = -2 /\ user[w] = NoUser

Inv == TypeOK /\ Placed /\ Held /\ Lookup

LEMMA InvInit == Init => Inv
<1> SUFFICES ASSUME Init PROVE Inv
  OBVIOUS
<1>1. pool = <<>> /\ pool \in Seq(Connection) /\ Len(pool) = 0 /\ DOMAIN pool = {}
  BY DEF Init
<1>2. /\ tv \in [Worker -> Time] /\ user \in [Worker -> User] /\ found \in [Worker -> Entry]
      /\ pc \in [Worker -> PCs] /\ rc \in [Worker -> {0, -1, -2}]
      /\ at \in [Worker -> 0 .. Len(pool)] /\ restarts \in 0 .. MaxRestarts
  BY <1>1, Nothing, TimeAssumption DEF Init, PCs, Idle
<1>3. TypeOK
  BY <1>1, <1>2 DEF TypeOK, Time, User, PCs
<1> QED
  BY <1>1, <1>3 DEF Init, Inv, Placed, Held, Lookup, Uses

\* Changing one connection.
LEMMA OneChanged ==
  ASSUME pool \in Seq(Connection), NEW i \in 1 .. Len(pool), NEW c \in Connection,
         pool' = [pool EXCEPT ![i] = c]
  PROVE  /\ pool' \in Seq(Connection) /\ Len(pool') = Len(pool)
         /\ pool'[i] = c /\ \A j \in 1 .. Len(pool) : j # i => pool'[j] = pool[j]
         /\ DOMAIN pool' = 1 .. Len(pool) /\ DOMAIN pool = 1 .. Len(pool)
  BY ExceptSeq, LenProperties

\* Steps that change no mutex and leave every user of a connection one.
LEMMA HeldKept ==
  ASSUME Held, DOMAIN pool' = DOMAIN pool,
         \A i \in DOMAIN pool : pool'[i].locked => pool[i].locked,
         \A v \in Worker : Uses(v) => Uses(v)' /\ at'[v] = at[v]
  PROVE  Held'
<1> SUFFICES ASSUME NEW i \in DOMAIN pool, pool'[i].locked
             PROVE  \E v \in Worker : Uses(v)' /\ at'[v] = i
  BY DEF Held
<1>1. PICK v \in Worker : Uses(v) /\ at[v] = i
  BY DEF Held
<1> QED
  BY <1>1

LEMMA InvNext == Inv /\ [Next]_vars => Inv'
<1> SUFFICES ASSUME Inv, [Next]_vars PROVE Inv'
  OBVIOUS
<1> USE DEF PCs
<1>t. /\ pool \in Seq(Connection) /\ pc \in [Worker -> PCs]
      /\ at \in [Worker -> 0 .. Len(pool)] /\ tv \in [Worker -> Time]
      /\ rc \in [Worker -> {0, -1, -2}] /\ user \in [Worker -> User]
      /\ restarts \in 0 .. MaxRestarts /\ found \in [Worker -> Entry]
  BY DEF Inv, TypeOK, Time, User
<1>p. \A w \in Worker : Uses(w) \/ pc[w] = "again" => at[w] \in 1 .. Len(pool)
  BY <1>t DEF Inv, Placed
<1>l. /\ Len(pool) \in Nat /\ DOMAIN pool = 1 .. Len(pool)
      /\ \A i \in 1 .. Len(pool) : pool[i] \in Connection
  BY <1>t, LenProperties
<1>1. ASSUME NEW w \in Worker, ldap_get(w) PROVE Inv'
  <2>1. /\ at' \in [Worker -> 0 .. Len(pool)] /\ rc' \in [Worker -> {0, -1, -2}]
        /\ pc' \in [Worker -> PCs]
    BY <1>1, <1>t, <1>l DEF ldap_get, Goto
  <2>2. /\ tv' \in [Worker -> Time] /\ user' \in [Worker -> User]
        /\ found' \in [Worker -> Entry]
    BY <1>1, <1>t, Nothing DEF ldap_get
  <2>3. TypeOK'
    BY <1>1, <1>t, <2>1, <2>2 DEF ldap_get, TypeOK, Time, User
  <2>4. pc[w] = "idle" /\ \A v \in Worker \ {w} : UNCHANGED <<pc[v], at[v], rc[v], user[v], found[v]>>
    BY <1>1, <1>t DEF ldap_get, Goto
  <2>5. Placed' /\ Held'
    BY <1>1, <1>t, <2>4 DEF ldap_get, Goto, Inv, Placed, Held, Uses
  <2>6. Lookup'
    BY <1>1, <1>t, <2>4 DEF ldap_get, Goto, Inv, Lookup, UserRight
  <2> QED
    BY <2>3, <2>5, <2>6 DEF Inv
<1>2. ASSUME NEW w \in Worker, Try(w), pool[at[w]].locked PROVE Inv'
  <2>1. /\ at' \in [Worker -> 0 .. Len(pool)] /\ pc[w] = "walk"
        /\ UNCHANGED <<pc, pool, tv, rc, user, restarts, found>>
        /\ \A v \in Worker : v # w => at'[v] = at[v]
    BY <1>2, <1>t, <1>l DEF Try
  <2>2. TypeOK'
    BY <2>1 DEF Inv, TypeOK
  <2>3. Placed' /\ Held'
    BY <2>1 DEF Inv, Placed, Held, Uses
  <2> QED
    BY <2>1, <2>2, <2>3 DEF Inv, Lookup, UserRight
<1>3. ASSUME NEW w \in Worker, Try(w), ~pool[at[w]].locked PROVE Inv'
  <2>1. /\ pc[w] = "walk" /\ pc' = [pc EXCEPT ![w] = "ldp"] /\ at[w] \in 1 .. Len(pool)
        /\ UNCHANGED <<at, tv, rc, user, restarts, found>>
        /\ pool' = [pool EXCEPT ![at[w]] = [pool[at[w]] EXCEPT !.locked = TRUE]]
    BY <1>3, <1>t, <1>l DEF Try, Goto
  <2>2. /\ pool' \in Seq(Connection) /\ Len(pool') = Len(pool)
        /\ DOMAIN pool' = 1 .. Len(pool)
        /\ \A j \in 1 .. Len(pool) : j # at[w] => pool'[j] = pool[j]
    BY <1>t, <1>l, <2>1, OneChanged, ConnectionType
  <2>3. TypeOK' /\ Placed'
    BY <1>t, <1>l, <2>1, <2>2 DEF Inv, TypeOK, Placed, Uses
  <2>4. Held'
    BY <1>t, <1>l, <2>1, <2>2 DEF Inv, Held, Uses
  <2> QED
    BY <1>t, <2>1, <2>3, <2>4 DEF Inv, Lookup, UserRight
<1>4. ASSUME NEW w \in Worker, Add(w) PROVE Inv'
  <2>1. /\ pc[w] = "walk" /\ pc' = [pc EXCEPT ![w] = "ldp"]
        /\ UNCHANGED <<tv, rc, user, restarts, found>>
        /\ pool' = Append(pool, NewConnection) /\ at' = [at EXCEPT ![w] = Len(pool) + 1]
    BY <1>4 DEF Add, Goto
  <2>2. /\ pool' \in Seq(Connection) /\ Len(pool') = Len(pool) + 1
        /\ DOMAIN pool' = 1 .. Len(pool) + 1
        /\ \A j \in 1 .. Len(pool) : pool'[j] = pool[j]
    BY <1>t, <1>l, <2>1, NewType, AppendProperties, LenProperties
  <2>3. TypeOK' /\ Placed'
    BY <1>t, <1>l, <2>1, <2>2 DEF Inv, TypeOK, Placed, Uses
  <2>4. Held'
    <3> SUFFICES ASSUME NEW i \in DOMAIN pool', pool'[i].locked
                 PROVE  \E v \in Worker : Uses(v)' /\ at'[v] = i
      BY DEF Held
    <3>1. CASE i = Len(pool) + 1
      BY <1>t, <1>l, <2>1, <3>1 DEF Uses
    <3>2. CASE i \in 1 .. Len(pool)
      <4>1. PICK v \in Worker : Uses(v) /\ at[v] = i
        BY <1>l, <2>2, <3>2 DEF Inv, Held
      <4>2. v # w
        BY <2>1, <4>1 DEF Uses
      <4> QED
        BY <1>t, <2>1, <4>1, <4>2 DEF Uses
    <3> QED
      BY <1>l, <2>2, <3>1, <3>2
  <2> QED
    BY <1>t, <2>1, <2>3, <2>4 DEF Inv, Lookup, UserRight
<1>5. ASSUME NEW w \in Worker, Bind(w) PROVE Inv'
  <2>1. /\ pc[w] = "ldp" /\ UNCHANGED <<at, rc, user, restarts, found>>
        /\ \E to \in {"search", "put"} : pc' = [pc EXCEPT ![w] = to]
        /\ at[w] \in 1 .. Len(pool)
    BY <1>5, <1>p DEF Bind, Goto, Uses
  <2>2. /\ pool' \in Seq(Connection) /\ Len(pool') = Len(pool)
        /\ DOMAIN pool' = 1 .. Len(pool)
        /\ \A j \in 1 .. Len(pool) : pool'[j].locked = pool[j].locked
        /\ tv' \in [Worker -> Time]
    <3>1. CASE pool[at[w]].ld
      BY <1>5, <1>t, <1>l, <3>1 DEF Bind
    <3>2. CASE ~pool[at[w]].ld
      <4>1. PICK d \in Durations, b \in BOOLEAN :
              /\ tv' = [tv EXCEPT ![w] = update_timeout(tv[w], d)]
              /\ pool' = [pool EXCEPT ![at[w]] =
                            [pool[at[w]] EXCEPT !.ld = b, !.used = FALSE, !.old = FALSE]]
        BY <1>5, <3>2, Zenon DEF Bind, Takes
      <4>2. tv' \in [Worker -> Time]
        BY <1>t, <4>1, TimeoutType, TimeAssumption
      <4> DEFINE c == [pool[at[w]] EXCEPT !.ld = b, !.used = FALSE, !.old = FALSE]
      <4>3. c \in Connection /\ c.locked = pool[at[w]].locked
        BY <1>l, <2>1, ConnectionType
      <4>4. pool' = [pool EXCEPT ![at[w]] = c]
        BY <4>1
      <4> HIDE DEF c
      <4>5. /\ pool' \in Seq(Connection) /\ Len(pool') = Len(pool)
            /\ pool'[at[w]] = c /\ \A j \in 1 .. Len(pool) : j # at[w] => pool'[j] = pool[j]
            /\ DOMAIN pool' = 1 .. Len(pool)
        BY <1>t, <2>1, <4>3, <4>4, OneChanged
      <4> QED
        BY <4>2, <4>3, <4>5
    <3> QED
      BY <3>1, <3>2
  <2>3. TypeOK' /\ Placed'
    BY <1>t, <1>l, <2>1, <2>2 DEF Inv, TypeOK, Placed, Uses, Time
  <2>4. Held'
    <3>1. \A v \in Worker : Uses(v) => Uses(v)' /\ at'[v] = at[v]
      BY <1>t, <2>1 DEF Uses
    <3>2. \A i \in DOMAIN pool : pool'[i].locked => pool[i].locked
      BY <1>l, <2>2
    <3> QED
      BY <1>l, <2>2, <3>1, <3>2, HeldKept DEF Inv
  <2>5. Lookup'
    BY <1>t, <2>1 DEF Inv, Lookup, UserRight, NoUser
  <2> QED
    BY <2>3, <2>4, <2>5 DEF Inv
<1>6. ASSUME NEW w \in Worker, Search(w) PROVE Inv'
  <2>1. /\ pc[w] = "search" /\ at[w] \in 1 .. Len(pool) /\ UNCHANGED <<at, tv, restarts>>
        /\ pool' = [pool EXCEPT ![at[w]] = [pool[at[w]] EXCEPT !.used = TRUE]]
    BY <1>6, <1>p DEF Search, Uses
  <2> DEFINE c == [pool[at[w]] EXCEPT !.used = TRUE]
  <2>2. c \in Connection /\ c.locked = pool[at[w]].locked
    BY <1>l, <2>1, ConnectionType
  <2>3. /\ pool' \in Seq(Connection) /\ Len(pool') = Len(pool)
        /\ pool'[at[w]] = c /\ \A j \in 1 .. Len(pool) : j # at[w] => pool'[j] = pool[j]
        /\ DOMAIN pool' = 1 .. Len(pool)
    BY <1>t, <2>1, <2>2, OneChanged
  <2> HIDE DEF c
  <2>4. /\ rc[w] = -2 /\ user[w] = NoUser
    BY <2>1 DEF Inv, Lookup
  <2>5. /\ \E to \in {"put", "fault"} : pc' = [pc EXCEPT ![w] = to]
        /\ rc' \in [Worker -> {0, -1, -2}] /\ user' \in [Worker -> User]
        /\ found' \in [Worker -> Entry]
        /\ \A v \in Worker \ {w} : UNCHANGED <<rc[v], user[v], found[v]>>
        /\ pc'[w] = "put" => UserRight(w)'
        /\ pc'[w] = "fault" => rc'[w] = -2 /\ user'[w] = NoUser
    <3>1. CASE /\ \E n \in Answers \ {"one"} :
                    rc' = [rc EXCEPT ![w] = IF n = "none" THEN -1 ELSE -2]
               /\ Goto(w, "search", "put")
               /\ UNCHANGED <<user, found>>
      BY <1>t, <2>4, <3>1 DEF Goto, UserRight, NoUser
    <3>2. ASSUME NEW e \in Entries,
                 found' = [found EXCEPT ![w] = e],
                 Goto(w, "search", IF ~Refused(e) /\ Faulted(e) THEN "fault" ELSE "put"),
                 IF Refused(e) \/ (~Refused(e) /\ Faulted(e)) THEN UNCHANGED <<rc, user>>
                 ELSE /\ rc' = [rc EXCEPT ![w] = 0]
                      /\ user' = [user EXCEPT ![w] = Extract(e)]
          PROVE  <2>5
      <4>1. e \in Entry
        BY DirectoryAssumption
      <4>2. /\ pc' = [pc EXCEPT ![w] = IF ~Refused(e) /\ Faulted(e) THEN "fault" ELSE "put"]
            /\ found' \in [Worker -> Entry]
        BY <1>t, <3>2, <4>1 DEF Goto
      <4>3. CASE Refused(e) \/ Faulted(e)
        <5>1. UNCHANGED <<rc, user>>
          BY <3>2, <4>3, Zenon
        <5>2. \E to \in {"put", "fault"} : pc' = [pc EXCEPT ![w] = to]
          BY <4>2, Zenon
        <5>3. UserRight(w)'
          BY <2>4, <5>1 DEF UserRight, NoUser
        <5> QED
          BY <1>t, <2>4, <3>2, <4>2, <5>1, <5>2, <5>3
      <4>4. CASE ~Refused(e) /\ ~Faulted(e)
        <5>1. /\ rc' = [rc EXCEPT ![w] = 0] /\ user' = [user EXCEPT ![w] = Extract(e)]
              /\ pc' = [pc EXCEPT ![w] = "put"]
          BY <3>2, <4>2, <4>4, Zenon
        <5>2. /\ rc'[w] = 0 /\ user'[w] = Extract(e) /\ found'[w] = e
              /\ user' \in [Worker -> User]
          BY <1>t, <3>2, <4>1, <5>1, ExtractType
        <5>3. e.valid
          BY <4>4 DEF Refused
        <5>4. UserRight(w)'
          BY <4>1, <5>2, <5>3, ExtractType DEF UserRight
        <5> QED
          BY <1>t, <3>2, <4>2, <5>1, <5>2, <5>4
      <4> QED
        BY <4>3, <4>4
    <3> QED
      BY <1>6, <3>1, <3>2 DEF Search
  <2>6. pc' \in [Worker -> PCs]
    BY <1>t, <2>5
  <2>9. TypeOK'
    BY <1>t, <2>1, <2>3, <2>5, <2>6 DEF TypeOK, User, Time
  <2>10. Placed'
    BY <1>t, <2>1, <2>5 DEF Inv, Placed, Uses
  <2>7. Held'
    <3>1. \A v \in Worker : Uses(v) => Uses(v)' /\ at'[v] = at[v]
      BY <1>t, <2>1, <2>5 DEF Uses
    <3>2. \A i \in DOMAIN pool : pool'[i].locked => pool[i].locked
      BY <1>l, <2>2, <2>3
    <3> QED
      BY <1>l, <2>3, <3>1, <3>2, HeldKept DEF Inv
  <2>8. Lookup'
    BY <1>t, <2>5 DEF Inv, Lookup, UserRight
  <2> QED
    BY <2>7, <2>8, <2>9, <2>10 DEF Inv
<1>7. ASSUME NEW w \in Worker, NEW b \in BOOLEAN, at[w] \in 1 .. Len(pool),
             pool' = [pool EXCEPT ![at[w]] = Put(pool[at[w]], b)],
             NEW to \in {"walk", "again", "verify"}, pc' = [pc EXCEPT ![w] = to],
             at' \in [Worker -> 0 .. Len(pool)], to = "again" => UNCHANGED at,
             \A v \in Worker \ {w} : at'[v] = at[v]
      PROVE  /\ pool' \in Seq(Connection) /\ Len(pool') = Len(pool)
             /\ Placed' /\ Held'
  <2> DEFINE c == Put(pool[at[w]], b)
  <2>1. c \in Connection /\ ~c.locked
    <3>1. pool[at[w]] \in Connection /\ b \in BOOLEAN
      BY <1>7, <1>l
    <3> QED
      BY <3>1, ConnectionType, Zenon
  <2>2. /\ pool' \in Seq(Connection) /\ Len(pool') = Len(pool)
        /\ pool'[at[w]] = c /\ \A j \in 1 .. Len(pool) : j # at[w] => pool'[j] = pool[j]
        /\ DOMAIN pool' = 1 .. Len(pool)
    BY <1>t, <1>7, <2>1, OneChanged
  <2> HIDE DEF c
  <2>3. Placed'
    BY <1>t, <1>7 DEF Inv, Placed, Uses
  <2>4. Held'
    <3> SUFFICES ASSUME NEW i \in DOMAIN pool', pool'[i].locked
                 PROVE  \E v \in Worker : Uses(v)' /\ at'[v] = i
      BY DEF Held
    <3>1. i \in 1 .. Len(pool) /\ i # at[w]
      BY <2>1, <2>2
    <3>2. PICK v \in Worker : Uses(v) /\ at[v] = i
      BY <1>l, <2>2, <3>1 DEF Inv, Held
    <3>3. v # w
      BY <3>1, <3>2
    <3> QED
      BY <1>t, <1>7, <3>2, <3>3 DEF Uses
  <2> QED
    BY <2>2, <2>3, <2>4
<1>8. ASSUME NEW w \in Worker, ServerDown(w) PROVE Inv'
  <2>1. pc[w] = "search" /\ at[w] \in 1 .. Len(pool) /\ UNCHANGED <<rc, user, restarts, found>>
    BY <1>8, <1>p DEF ServerDown, Uses
  <2>2. CASE pool[at[w]].used
    <3>1. PICK d \in Durations, to \in {"walk", "again"} :
            /\ pool' = [pool EXCEPT ![at[w]] = Put(pool[at[w]], TRUE)]
            /\ tv' = [tv EXCEPT ![w] = update_timeout(tv[w], d)]
            /\ pc' = [pc EXCEPT ![w] = to]
            /\ at' = at \/ at' = [at EXCEPT ![w] = Len(pool)]
            /\ to = "again" => at' = at
      BY <1>8, <2>2, Zenon DEF ServerDown, Takes, Goto
    <3>2. at' \in [Worker -> 0 .. Len(pool)] /\ \A v \in Worker \ {w} : at'[v] = at[v]
      BY <1>t, <1>l, <3>1
    <3>3. /\ pool' \in Seq(Connection) /\ Len(pool') = Len(pool) /\ Placed' /\ Held'
      BY <1>7, <2>1, <3>1, <3>2
    <3>4. tv' \in [Worker -> Time]
      BY <1>t, <3>1, TimeoutType, TimeAssumption
    <3>5. TypeOK'
      BY <1>t, <2>1, <3>1, <3>2, <3>3, <3>4 DEF TypeOK, Time, User
    <3>6. Lookup'
      BY <1>t, <2>1, <3>1 DEF Inv, Lookup, UserRight
    <3> QED
      BY <3>3, <3>5, <3>6 DEF Inv
  <2>3. CASE ~pool[at[w]].used
    <3>1. pc' = [pc EXCEPT ![w] = "unbind"] /\ UNCHANGED <<pool, at, tv>>
      BY <1>8, <2>3 DEF ServerDown, Goto
    <3>2. TypeOK' /\ Placed' /\ Held'
      BY <1>t, <2>1, <3>1 DEF Inv, TypeOK, Placed, Held, Uses
    <3> QED
      BY <1>t, <2>1, <3>1, <3>2 DEF Inv, Lookup, UserRight
  <2> QED
    BY <2>2, <2>3
<1>9. ASSUME NEW w \in Worker, SearchFails(w) PROVE Inv'
  <2>1. /\ pc[w] = "search" /\ pc' = [pc EXCEPT ![w] = "unbind"]
        /\ UNCHANGED <<pool, at, tv, rc, user, restarts, found>>
    BY <1>9 DEF SearchFails, Goto
  <2>2. TypeOK' /\ Placed' /\ Held'
    BY <1>t, <2>1 DEF Inv, TypeOK, Placed, Held, Uses
  <2> QED
    BY <1>t, <2>1, <2>2 DEF Inv, Lookup, UserRight
<1>10. ASSUME NEW w \in Worker, putldp(w) PROVE Inv'
  <2>1. PICK from \in {"put", "unbind", "again"} :
          /\ pc[w] = from /\ pc' = [pc EXCEPT ![w] = "verify"]
          /\ pool' = [pool EXCEPT ![at[w]] = Put(pool[at[w]], from # "put")]
    BY <1>10 DEF putldp, Goto
  <2>2. /\ at[w] \in 1 .. Len(pool) /\ UNCHANGED <<tv, rc, user, restarts, found>>
        /\ at' \in [Worker -> 0 .. Len(pool)]
        /\ \A v \in Worker \ {w} : at'[v] = at[v]
    BY <1>10, <1>t, <1>p, <1>l, <2>1 DEF putldp, Uses, Idle
  <2>3. (from # "put") \in BOOLEAN
    OBVIOUS
  <2>4. pool' \in Seq(Connection) /\ Len(pool') = Len(pool) /\ Placed' /\ Held'
    BY <1>7, <2>1, <2>2, <2>3
  <2>5. TypeOK'
    BY <1>t, <2>1, <2>2, <2>4 DEF TypeOK, Time, User
  <2>6. UserRight(w)
    BY <2>1 DEF Inv, Lookup, UserRight, NoUser
  <2>7. Lookup'
    BY <1>t, <2>1, <2>2, <2>6 DEF Inv, Lookup, UserRight
  <2> QED
    BY <2>4, <2>5, <2>7 DEF Inv
<1>11. ASSUME NEW w \in Worker, ldap_put(w) PROVE Inv'
  <2>1. /\ pc[w] = "verify" /\ pc' = [pc EXCEPT ![w] = "idle"]
        /\ user' = [user EXCEPT ![w] = NoUser]
        /\ UNCHANGED <<pool, at, tv, rc, restarts, found>>
    BY <1>11 DEF ldap_put, Goto
  <2>2. user' \in [Worker -> User]
    BY <1>t, <2>1, Nothing
  <2>3. TypeOK' /\ Placed' /\ Held'
    BY <1>t, <2>1, <2>2 DEF Inv, TypeOK, Placed, Held, Uses, User
  <2> QED
    BY <1>t, <2>1, <2>3 DEF Inv, Lookup, UserRight
<1>12. CASE Crash
  <2>1. pool' = <<>> /\ pool' \in Seq(Connection) /\ Len(pool') = 0 /\ DOMAIN pool' = {}
    BY <1>12 DEF Crash
  <2>2. /\ tv' \in [Worker -> Time] /\ user' \in [Worker -> User]
        /\ found' \in [Worker -> Entry] /\ pc' \in [Worker -> PCs]
        /\ rc' \in [Worker -> {0, -1, -2}] /\ at' \in [Worker -> 0 .. Len(pool')]
        /\ restarts' \in 0 .. MaxRestarts
    BY <1>12, <1>t, <2>1, Nothing DEF Crash, Idle
  <2>3. TypeOK'
    BY <2>1, <2>2 DEF TypeOK, Time, User
  <2> QED
    BY <1>12, <2>1, <2>3 DEF Crash, Inv, Placed, Held, Lookup, Uses
<1>13. CASE ServerRestart
  <2>1. /\ UNCHANGED <<pc, at, tv, rc, user, found>> /\ restarts' \in 0 .. MaxRestarts
        /\ pool' = [i \in 1 .. Len(pool) |-> [pool[i] EXCEPT !.old = @ \/ pool[i].ld]]
    BY <1>13, <1>t, <1>l, TimeAssumption DEF ServerRestart
  <2>2. \A i \in 1 .. Len(pool) :
          /\ [pool[i] EXCEPT !.old = @ \/ pool[i].ld] \in Connection
          /\ [pool[i] EXCEPT !.old = @ \/ pool[i].ld].locked = pool[i].locked
    BY <1>l, ConnectionType
  <2>3. /\ DOMAIN pool' = 1 .. Len(pool)
        /\ \A i \in 1 .. Len(pool) : pool'[i] \in Connection /\ pool'[i].locked = pool[i].locked
    BY <2>1, <2>2, Zenon
  <2>4. pool' \in Seq(Connection) /\ Len(pool') = Len(pool)
    BY <1>l, <2>1, <2>3
  <2>5. TypeOK' /\ Placed'
    BY <1>t, <2>1, <2>4 DEF Inv, TypeOK, Placed, Uses, Time, User
  <2>6. Held'
    BY <1>l, <2>1, <2>3 DEF Inv, Held, Uses
  <2> QED
    BY <2>1, <2>5, <2>6 DEF Inv, Lookup, UserRight
<1>14. CASE UNCHANGED vars
  BY <1>14 DEF vars, Inv, TypeOK, Placed, Held, Lookup, UserRight, Uses
<1> QED
  BY <1>1, <1>2, <1>3, <1>4, <1>5, <1>6, <1>8, <1>9, <1>10, <1>11, <1>12, <1>13, <1>14
  DEF Next, Step

\* The pool, the times and the users keep their types: the microseconds that
\* are left never go below zero, whatever the calls take (userops/ldap.c:591-605,
\* update_timeout()).
THEOREM TypeCorrect == Spec => []TypeOK
<1>1. Inv => TypeOK
  BY DEF Inv
<1> QED
  BY <1>1, InvInit, InvNext, PTL DEF Spec

\* A user is reported found exactly if there is one, and only with overrides
\* that have not expired, whatever entry the directory holds (ldap_get(),
\* userops/ldap.c).
THEOREM FoundCorrect == Spec => []FoundIsUser
<1>1. Inv => FoundIsUser
  BY DEF Inv, Lookup, UserRight, NoUser, FoundIsUser
<1> QED
  BY <1>1, InvInit, InvNext, PTL DEF Spec
-----------------------------------------------------------------------------
(* The size of the pool.  A thread that has walked down to place k found   *)
(* every mutex above k locked, though not at the same time: by then each   *)
(* of the places above k has a thread of its own that is not below.        *)

Below(k) == {w \in Worker : (pc[w] = "walk" \/ Uses(w)) /\ at[w] <= k}
Crowd ==
  \A k \in 0 .. Len(pool) :
    Cardinality(Below(k)) <= Cardinality(Worker) - (Len(pool) - k)

LEMMA BelowFinite ==
  /\ Cardinality(Worker) \in Nat
  /\ \A k : /\ IsFiniteSet(Below(k)) /\ Cardinality(Below(k)) \in Nat
            /\ Cardinality(Below(k)) <= Cardinality(Worker)
<1>1. \A k : Below(k) \in SUBSET Worker
  BY DEF Below
<1> QED
  BY <1>1, FS_Subset, FS_CardinalityType, DirectoryAssumption

LEMMA BelowFiniteNext ==
  \A k : /\ IsFiniteSet(Below(k)') /\ Cardinality(Below(k)') \in Nat
        /\ Cardinality(Below(k)') <= Cardinality(Worker)
<1>1. \A k : Below(k)' \in SUBSET Worker
  BY DEF Below
<1> QED
  BY <1>1, FS_Subset, FS_CardinalityType, DirectoryAssumption

LEMMA CrowdInit == Init => Crowd
<1> SUFFICES ASSUME Init PROVE Crowd
  OBVIOUS
<1>1. Len(pool) = 0
  BY DEF Init
<1> QED
  BY <1>1, BelowFinite DEF Crowd

\* No step but a walk past a locked mutex brings a thread lower.
LEMMA CrowdKept ==
  ASSUME Crowd, Len(pool) \in Nat, Len(pool') = Len(pool),
         \A k \in 0 .. Len(pool) - 1 : Below(k)' \subseteq Below(k)
  PROVE  Crowd'
<1> SUFFICES ASSUME NEW k \in 0 .. Len(pool)
             PROVE  Cardinality(Below(k)') <= Cardinality(Worker) - (Len(pool) - k)
  BY DEF Crowd
<1>1. CASE k = Len(pool)
  BY <1>1, BelowFinite, BelowFiniteNext
<1>2. CASE k # Len(pool)
  <2>1. Below(k)' \in SUBSET Below(k) /\ IsFiniteSet(Below(k))
    BY <1>2, BelowFinite
  <2>2. Cardinality(Below(k)') <= Cardinality(Below(k))
    BY <2>1, FS_Subset
  <2>3. Cardinality(Below(k)) <= Cardinality(Worker) - (Len(pool) - k)
    BY DEF Crowd
  <2> QED
    BY <2>2, <2>3, BelowFinite, BelowFiniteNext
<1> QED
  BY <1>1, <1>2

\* A thread that walks past a locked mutex leaves behind the one that uses it.
LEMMA CrowdTry ==
  ASSUME Inv, Crowd, NEW w \in Worker, Try(w), pool[at[w]].locked
  PROVE  Crowd'
<1>t. /\ at \in [Worker -> 0 .. Len(pool)] /\ Len(pool) \in Nat
      /\ DOMAIN pool = 1 .. Len(pool)
  BY LenProperties DEF Inv, TypeOK
<1>1. /\ pc[w] = "walk" /\ at[w] \in 1 .. Len(pool) /\ ~Uses(w)
      /\ UNCHANGED <<pc, pool>> /\ at' = [at EXCEPT ![w] = at[w] - 1]
  BY <1>t DEF Try, Uses
<1>2. PICK u \in Worker : Uses(u) /\ at[u] = at[w]
  BY <1>t, <1>1 DEF Inv, Held
<1> SUFFICES ASSUME NEW k \in 0 .. Len(pool)
             PROVE  Cardinality(Below(k)') <= Cardinality(Worker) - (Len(pool) - k)
  BY <1>1 DEF Crowd
<1>3. CASE k # at[w] - 1
  <2>1. Below(k)' = Below(k)
    BY <1>t, <1>1, <1>3 DEF Below, Uses
  <2> QED
    BY <2>1 DEF Crowd
<1>4. CASE k = at[w] - 1
  <2>1. k + 1 \in 0 .. Len(pool) /\ k + 1 = at[w]
    BY <1>t, <1>1, <1>4
  <2>2. Below(k)' = Below(k) \cup {w}
    BY <1>t, <1>1, <1>4 DEF Below, Uses
  <2>3. w \notin Below(k) /\ u \notin Below(k) \cup {w}
    BY <1>t, <1>1, <1>2, <1>4 DEF Below
  <2>4. (Below(k) \cup {w}) \cup {u} \in SUBSET Below(k + 1)
    BY <1>t, <1>1, <1>2, <2>1 DEF Below
  <2>5. /\ IsFiniteSet(Below(k) \cup {w})
        /\ Cardinality((Below(k) \cup {w}) \cup {u}) = Cardinality(Below(k) \cup {w}) + 1
    BY <2>3, BelowFinite, FS_AddElement
  <2>6. Cardinality((Below(k) \cup {w}) \cup {u}) <= Cardinality(Below(k + 1))
    BY <2>4, BelowFinite, FS_Subset
  <2>7. Cardinality(Below(k + 1)) <= Cardinality(Worker) - (Len(pool) - (k + 1))
    BY <2>1 DEF Crowd
  <2>8. Cardinality(Below(k) \cup {w}) \in Nat
    BY <2>5, FS_CardinalityType
  <2> QED
    BY <1>t, <2>1, <2>2, <2>5, <2>6, <2>7, <2>8, BelowFinite
<1> QED
  BY <1>3, <1>4

\* A thread that adds a connection was below all of them.
LEMMA CrowdAdd ==
  ASSUME Inv, Crowd, NEW w \in Worker, Add(w)
  PROVE  Crowd'
<1>t. /\ at \in [Worker -> 0 .. Len(pool)] /\ Len(pool) \in Nat /\ pc \in [Worker -> PCs]
      /\ pool \in Seq(Connection)
  BY LenProperties DEF Inv, TypeOK, PCs
<1>1. /\ pc[w] = "walk" /\ at[w] = 0 /\ pc' = [pc EXCEPT ![w] = "ldp"]
      /\ at' = [at EXCEPT ![w] = Len(pool) + 1]
      /\ Len(pool') = Len(pool) + 1
  BY <1>t, NewType, AppendProperties DEF Add, Goto
<1> SUFFICES ASSUME NEW k \in 0 .. Len(pool) + 1
             PROVE  Cardinality(Below(k)') <= Cardinality(Worker) - (Len(pool) + 1 - k)
  BY <1>1 DEF Crowd
<1>2. CASE k = Len(pool) + 1
  BY <1>t, <1>2, BelowFinite, BelowFiniteNext
<1>3. CASE k \in 0 .. Len(pool)
  <2>1. Below(k)' = Below(k) \ {w} /\ w \in Below(k)
    BY <1>t, <1>1, <1>3 DEF Below, Uses
  <2>2. Cardinality(Below(k)') = Cardinality(Below(k)) - 1
    BY <2>1, BelowFinite, FS_RemoveElement
  <2>3. Cardinality(Below(k)) <= Cardinality(Worker) - (Len(pool) - k)
    BY <1>3 DEF Crowd
  <2> QED
    BY <1>t, <2>2, <2>3, BelowFinite
<1> QED
  BY <1>t, <1>2, <1>3

LEMMA CrowdNext == Inv /\ Inv' /\ Crowd /\ [Next]_vars => Crowd'
<1> SUFFICES ASSUME Inv, Inv', Crowd, [Next]_vars PROVE Crowd'
  OBVIOUS
<1> USE DEF PCs
<1>t. /\ at \in [Worker -> 0 .. Len(pool)] /\ Len(pool) \in Nat /\ pc \in [Worker -> PCs]
      /\ pool \in Seq(Connection) /\ DOMAIN pool = 1 .. Len(pool)
  BY LenProperties DEF Inv, TypeOK
<1>d. DOMAIN pool' = DOMAIN pool => Len(pool') = Len(pool)
  <2>1. /\ Len(pool') \in Nat /\ DOMAIN pool' = 1 .. Len(pool')
    BY LenProperties DEF Inv, TypeOK
  <2>2. \A m, n \in Nat : 1 .. m = 1 .. n => m = n
    BY FS_Interval
  <2> QED
    BY <1>t, <2>1, <2>2
<1>1. ASSUME NEW w \in Worker, Len(pool') = Len(pool),
             \A v \in Worker \ {w} : UNCHANGED <<pc[v], at[v]>>,
             \/ ~(pc[w] = "walk" \/ Uses(w))'
             \/ at'[w] = Len(pool)
             \/ at'[w] = at[w] /\ (pc[w] = "walk" \/ Uses(w))
      PROVE  Crowd'
  <2>1. \A k \in 0 .. Len(pool) - 1 : Below(k)' \subseteq Below(k)
    BY <1>t, <1>1 DEF Below, Uses
  <2> QED
    BY <1>t, <2>1, <1>1, CrowdKept
<1>2. ASSUME NEW w \in Worker, ldap_get(w) PROVE Crowd'
  BY <1>t, <1>1, <1>2 DEF ldap_get, Goto
<1>3. ASSUME NEW w \in Worker, Try(w) PROVE Crowd'
  <2>1. CASE ~pool[at[w]].locked
    <3>1. /\ pc[w] = "walk" /\ pc' = [pc EXCEPT ![w] = "ldp"] /\ UNCHANGED at
          /\ DOMAIN pool' = DOMAIN pool
      BY <1>3, <2>1 DEF Try, Goto
    <3> QED
      BY <1>t, <1>d, <1>1, <3>1
  <2> QED
    BY <1>3, <2>1, CrowdTry
<1>4. ASSUME NEW w \in Worker, Add(w) PROVE Crowd'
  BY <1>4, CrowdAdd
<1>5. ASSUME NEW w \in Worker, Bind(w) \/ Search(w) \/ SearchFails(w) PROVE Crowd'
  <2>1. Uses(w) /\ UNCHANGED at /\ \A v \in Worker \ {w} : pc'[v] = pc[v]
    BY <1>5, <1>t DEF Bind, Search, SearchFails, Goto, Uses
  <2>2. DOMAIN pool' = DOMAIN pool
    BY <1>5 DEF Bind, Search, SearchFails
  <2> QED
    BY <1>d, <1>1, <2>1, <2>2
<1>6. ASSUME NEW w \in Worker, ServerDown(w) PROVE Crowd'
  <2>1. /\ Uses(w) /\ \A v \in Worker \ {w} : UNCHANGED <<pc[v], at[v]>>
        /\ at'[w] \in {at[w], Len(pool)}
    BY <1>6, <1>t DEF ServerDown, Goto, Uses
  <2>2. DOMAIN pool' = DOMAIN pool
    BY <1>6 DEF ServerDown
  <2> QED
    BY <1>d, <1>1, <2>1, <2>2
<1>7. ASSUME NEW w \in Worker, putldp(w) \/ ldap_put(w) PROVE Crowd'
  <2>1. /\ pc'[w] \in {"verify", "idle"} /\ Len(pool') = Len(pool)
        /\ \A v \in Worker \ {w} : UNCHANGED <<pc[v], at[v]>>
    BY <1>7, <1>t DEF putldp, ldap_put, Goto
  <2> QED
    BY <1>1, <2>1 DEF Uses
<1>8. CASE Crash
  <2>1. Len(pool') = 0
    BY <1>8 DEF Crash
  <2> QED
    BY <2>1, BelowFinite, BelowFiniteNext DEF Crowd
<1>9. CASE ServerRestart \/ UNCHANGED vars
  <2>1. UNCHANGED <<pc, at>> /\ Len(pool') = Len(pool)
    BY <1>9, <1>t DEF ServerRestart, vars
  <2>2. \A k \in 0 .. Len(pool) - 1 : Below(k)' \subseteq Below(k)
    BY <2>1 DEF Below, Uses
  <2> QED
    BY <1>t, <2>1, <2>2, CrowdKept
<1> QED
  BY <1>2, <1>3, <1>4, <1>5, <1>6, <1>7, <1>8, <1>9 DEF Next, Step

\* Whatever fails, a mutex that is locked has a lookup that uses its
\* connection, and however the walks through the pool interleave, a new
\* connection is made only while there are fewer than threads (getldp() and
\* putldp(); otpd.conf:136, "otpd reuses connections to the LDAP server").
THEOREM PoolBounded == Spec => []NoneLeaked
<1>1. Inv /\ Crowd => NoneLeaked
  <2> SUFFICES ASSUME Inv, Crowd PROVE NoneLeaked
    OBVIOUS
  <2>1. Len(pool) \in Nat
    BY LenProperties DEF Inv, TypeOK
  <2>2. Cardinality(Below(0)) <= Cardinality(Worker) - (Len(pool) - 0)
    BY <2>1 DEF Crowd
  <2>3. Len(pool) <= Cardinality(Worker)
    BY <2>1, <2>2, BelowFinite
  <2> QED
    BY <2>3 DEF Inv, Held, NoneLeaked
<1> QED
  BY <1>1, InvInit, InvNext, CrowdInit, CrowdNext, PTL DEF Spec
-----------------------------------------------------------------------------
(* One lookup per connection. *)

\* The connection of a lookup whose time ran out when the server was gone is
\* put back for the second time.
SecondPut(w) == pc[w] = "again" /\ putldp(w)

\* A step that keeps every mutex locked, and the users of the connections, or
\* takes one of them away.
LEMMA UsersKept ==
  ASSUME OneLookup, NEW w \in Worker,
         \A v \in Worker : Uses(v)' => Uses(v) /\ at'[v] = at[v],
         \A v \in Worker : Uses(v)' => pool'[at[v]].locked = pool[at[v]].locked
  PROVE  OneLookup'
<1>1. ASSUME NEW v \in Worker, Uses(v)' PROVE pool'[at'[v]].locked
  <2>1. Uses(v) /\ at'[v] = at[v] /\ pool'[at[v]].locked = pool[at[v]].locked
    BY <1>1
  <2>2. pool[at[v]].locked
    BY <2>1 DEF OneLookup
  <2> QED
    BY <2>1, <2>2
<1>2. ASSUME NEW v \in Worker, NEW x \in Worker, Uses(v)', Uses(x)', at'[v] = at'[x]
      PROVE  v = x
  BY <1>2 DEF OneLookup
<1> QED
  BY <1>1, <1>2 DEF OneLookup

\* A thread puts back the connection that it alone uses.
LEMMA PutAlone ==
  ASSUME Inv, OneLookup, NEW w \in Worker, Uses(w), NEW c \in Connection,
         pool' = [pool EXCEPT ![at[w]] = c], ~Uses(w)',
         \A v \in Worker \ {w} : UNCHANGED <<pc[v], at[v]>>
  PROVE  OneLookup'
<1>1. /\ pool \in Seq(Connection) /\ at[w] \in 1 .. Len(pool)
      /\ \A v \in Worker : Uses(v) => at[v] \in 1 .. Len(pool)
  BY DEF Inv, TypeOK, Placed
<1>2. \A j \in 1 .. Len(pool) : j # at[w] => pool'[j] = pool[j]
  BY <1>1, OneChanged
<1>3. ASSUME NEW v \in Worker, Uses(v)'
      PROVE  /\ Uses(v) /\ at'[v] = at[v] /\ pool'[at[v]] = pool[at[v]]
  <2>1. v # w
    BY <1>3
  <2>2. Uses(v) /\ at'[v] = at[v]
    BY <1>3, <2>1 DEF Uses
  <2>3. at[v] # at[w]
    BY <2>1, <2>2 DEF OneLookup
  <2> QED
    BY <1>1, <1>2, <2>2, <2>3
<1> QED
  BY <1>3, UsersKept

\* A thread that gets a connection from the pool, or a new one, is its only
\* user.
LEMMA GetAlone ==
  ASSUME Inv, OneLookup, NEW w \in Worker, Try(w) \/ Add(w)
  PROVE  OneLookup'
<1>t. /\ pool \in Seq(Connection) /\ pc \in [Worker -> PCs] /\ Len(pool) \in Nat
      /\ at \in [Worker -> 0 .. Len(pool)]
      /\ \A v \in Worker : Uses(v) => at[v] \in 1 .. Len(pool)
      /\ \A j \in 1 .. Len(pool) : pool[j] \in Connection
  BY LenProperties DEF Inv, TypeOK, Placed, PCs
<1>1. pc[w] = "walk" /\ ~Uses(w)
  BY DEF Try, Add, Goto, Uses
<1>2. CASE Try(w) /\ pool[at[w]].locked
  <2>1. UNCHANGED <<pc, pool>> /\ \A v \in Worker \ {w} : at'[v] = at[v]
    BY <1>2, <1>t DEF Try
  <2> QED
    BY <1>1, <2>1, UsersKept DEF Uses
\* Otherwise the thread goes on with a place that nobody uses.
<1>3. ASSUME NEW i \in Nat, pc' = [pc EXCEPT ![w] = "ldp"], at'[w] = i,
             \A v \in Worker \ {w} : at'[v] = at[v], pool'[i].locked,
             \A v \in Worker : Uses(v) => at[v] # i /\ pool'[at[v]] = pool[at[v]]
      PROVE  OneLookup'
  <2>1. \A v \in Worker : Uses(v)' => v = w \/ (Uses(v) /\ at'[v] = at[v])
    BY <1>3, <1>t DEF Uses
  <2>2. ASSUME NEW v \in Worker, Uses(v)' PROVE pool'[at'[v]].locked
    <3>1. CASE v = w
      BY <1>3, <3>1
    <3>2. CASE v # w
      <4>1. Uses(v) /\ at'[v] = at[v] /\ pool'[at[v]] = pool[at[v]]
        BY <1>3, <2>1, <2>2, <3>2
      <4> QED
        BY <4>1 DEF OneLookup
    <3> QED
      BY <3>1, <3>2
  <2>3. ASSUME NEW v \in Worker, NEW x \in Worker, Uses(v)', Uses(x)', at'[v] = at'[x]
        PROVE  v = x
    BY <1>3, <2>1, <2>3 DEF OneLookup
  <2> QED
    BY <2>2, <2>3 DEF OneLookup
<1>4. CASE Try(w) /\ ~pool[at[w]].locked
  <2> DEFINE c == [pool[at[w]] EXCEPT !.locked = TRUE]
  <2>1. /\ at[w] \in 1 .. Len(pool) /\ pc' = [pc EXCEPT ![w] = "ldp"] /\ at' = at
        /\ pool' = [pool EXCEPT ![at[w]] = c]
    BY <1>4, <1>t DEF Try, Goto
  <2>2. c \in Connection /\ c.locked
    <3>1. pool[at[w]] \in Connection
      BY <1>t, <2>1
    <3> QED
      BY <3>1, Zenon DEF Connection
  <2> HIDE DEF c
  <2>3. pool'[at[w]] = c /\ \A j \in 1 .. Len(pool) : j # at[w] => pool'[j] = pool[j]
    BY <1>t, <2>1, <2>2, OneChanged
  <2>4. \A v \in Worker : Uses(v) => at[v] # at[w] /\ pool'[at[v]] = pool[at[v]]
    BY <1>4, <1>t, <2>3 DEF OneLookup
  <2> QED
    BY <1>3, <2>1, <2>2, <2>3, <2>4
<1>5. CASE Add(w)
  <2>1. /\ pc' = [pc EXCEPT ![w] = "ldp"] /\ at' = [at EXCEPT ![w] = Len(pool) + 1]
        /\ pool' = Append(pool, NewConnection)
    BY <1>5 DEF Add, Goto
  <2>2. /\ pool'[Len(pool) + 1] = NewConnection
        /\ \A j \in 1 .. Len(pool) : pool'[j] = pool[j]
    BY <1>t, <2>1, NewType, AppendProperties
  <2>3. NewConnection.locked
    BY DEF NewConnection
  <2>4. \A v \in Worker : Uses(v) =>
          at[v] # Len(pool) + 1 /\ pool'[at[v]] = pool[at[v]]
    BY <1>t, <2>2
  <2>5. at'[w] = Len(pool) + 1 /\ \A v \in Worker \ {w} : at'[v] = at[v]
    BY <1>t, <2>1
  <2> QED
    BY <1>3, <1>t, <2>1, <2>2, <2>3, <2>4, <2>5
<1> QED
  BY <1>2, <1>4, <1>5

\* Every step but the second putldp() keeps the lookups apart.
LEMMA ApartStep ==
  ASSUME Inv, OneLookup, [Next]_vars, \A w \in Worker : ~SecondPut(w)
  PROVE  OneLookup'
<1> USE DEF PCs
<1>t. /\ pool \in Seq(Connection) /\ pc \in [Worker -> PCs] /\ Len(pool) \in Nat
      /\ at \in [Worker -> 0 .. Len(pool)]
      /\ \A v \in Worker : Uses(v) => at[v] \in 1 .. Len(pool)
      /\ \A j \in 1 .. Len(pool) : pool[j] \in Connection
      /\ DOMAIN pool = 1 .. Len(pool)
  BY LenProperties DEF Inv, TypeOK, Placed
<1>1. ASSUME NEW w \in Worker, ldap_get(w) PROVE OneLookup'
  <2>1. /\ pc' = [pc EXCEPT ![w] = "walk"] /\ UNCHANGED pool
        /\ \A v \in Worker \ {w} : at'[v] = at[v]
    BY <1>1, <1>t DEF ldap_get, Goto
  <2> QED
    BY <1>t, <2>1, UsersKept DEF Uses
<1>2. ASSUME NEW w \in Worker, Try(w) \/ Add(w) PROVE OneLookup'
  BY <1>2, GetAlone
<1>3. ASSUME NEW w \in Worker, Bind(w) \/ Search(w) \/ SearchFails(w) PROVE OneLookup'
  <2>1. /\ Uses(w) /\ UNCHANGED at /\ \A v \in Worker \ {w} : pc'[v] = pc[v]
        /\ at[w] \in 1 .. Len(pool)
    BY <1>3, <1>t DEF Bind, Search, SearchFails, Goto, Uses
  <2>2. \E c \in Connection : /\ c.locked = pool[at[w]].locked
                             /\ (pool' = pool \/ pool' = [pool EXCEPT ![at[w]] = c])
    <3>0. pool[at[w]] \in Connection
      BY <1>t, <2>1
    <3>1. CASE Bind(w) /\ ~pool[at[w]].ld
      <4>1. PICK b \in BOOLEAN :
              pool' = [pool EXCEPT ![at[w]] =
                         [pool[at[w]] EXCEPT !.ld = b, !.used = FALSE, !.old = FALSE]]
        BY <3>1, Zenon DEF Bind
      <4> QED
        BY <3>0, <4>1, ConnectionType
    <3>2. CASE Search(w)
      <4>1. pool' = [pool EXCEPT ![at[w]] = [pool[at[w]] EXCEPT !.used = TRUE]]
        BY <3>2 DEF Search
      <4>2. [pool[at[w]] EXCEPT !.used = TRUE] \in Connection
            /\ [pool[at[w]] EXCEPT !.used = TRUE].locked = pool[at[w]].locked
        BY <3>0, ConnectionType
      <4> QED
        BY <4>1, <4>2
    <3>3. CASE SearchFails(w) \/ (Bind(w) /\ pool[at[w]].ld)
      <4>1. pool' = pool
        BY <3>3 DEF SearchFails, Bind
      <4> QED
        BY <3>0, <4>1
    <3> QED
      BY <1>3, <3>1, <3>2, <3>3
  <2>3. \A j \in 1 .. Len(pool) : pool'[j].locked = pool[j].locked
    <3>1. PICK c \in Connection : /\ c.locked = pool[at[w]].locked
                                  /\ (pool' = pool \/ pool' = [pool EXCEPT ![at[w]] = c])
      BY <2>2
    <3>2. CASE pool' = [pool EXCEPT ![at[w]] = c]
      BY <1>t, <2>1, <3>1, <3>2, OneChanged
    <3> QED
      BY <3>1, <3>2
  <2>4. \A v \in Worker : Uses(v)' => Uses(v) /\ at'[v] = at[v]
    BY <2>1 DEF Uses
  <2> QED
    BY <1>t, <2>3, <2>4, UsersKept
<1>4. ASSUME NEW w \in Worker, ServerDown(w) PROVE OneLookup'
  <2>1. /\ Uses(w) /\ pc[w] = "search" /\ at[w] \in 1 .. Len(pool)
        /\ \A v \in Worker \ {w} : UNCHANGED <<pc[v], at[v]>>
    BY <1>4, <1>t DEF ServerDown, Goto, Uses
  <2>2. CASE pool[at[w]].used
    <3>1. /\ pool' = [pool EXCEPT ![at[w]] = Put(pool[at[w]], TRUE)]
          /\ pc'[w] \in {"again", "walk"}
      BY <1>4, <1>t, <2>2 DEF ServerDown, Goto
    <3>2. Put(pool[at[w]], TRUE) \in Connection
      BY <1>t, <2>1, ConnectionType
    <3>3. ~Uses(w)'
      BY <3>1 DEF Uses
    <3> QED
      BY <2>1, <3>1, <3>2, <3>3, PutAlone
  <2>3. CASE ~pool[at[w]].used
    <3>1. UNCHANGED <<pool, at>>
      BY <1>4, <2>3 DEF ServerDown
    <3> QED
      BY <2>1, <3>1, UsersKept DEF Uses
  <2> QED
    BY <2>2, <2>3
<1>5. ASSUME NEW w \in Worker, putldp(w) PROVE OneLookup'
  <2>1. PICK from \in {"put", "unbind", "again"} :
          /\ pc[w] = from /\ pc' = [pc EXCEPT ![w] = "verify"]
          /\ pool' = [pool EXCEPT ![at[w]] = Put(pool[at[w]], from # "put")]
    BY <1>5 DEF putldp, Goto
  <2>2. from # "again" /\ Uses(w) /\ ~Uses(w)'
    BY <1>5, <1>t, <2>1 DEF SecondPut, Uses
  <2>3. \A v \in Worker \ {w} : UNCHANGED <<pc[v], at[v]>>
    BY <1>5, <1>t, <2>1 DEF putldp
  <2>4. Put(pool[at[w]], from # "put") \in Connection
    <3>1. pool[at[w]] \in Connection /\ (from # "put") \in BOOLEAN
      BY <1>t, <2>2
    <3> QED
      BY <3>1, ConnectionType
  <2> QED
    BY <2>1, <2>2, <2>3, <2>4, PutAlone
<1>6. ASSUME NEW w \in Worker, ldap_put(w) PROVE OneLookup'
  <2>1. pc' = [pc EXCEPT ![w] = "idle"] /\ UNCHANGED <<pool, at>>
    BY <1>6 DEF ldap_put, Goto
  <2> QED
    BY <1>t, <2>1, UsersKept DEF Uses
<1>7. CASE Crash
  BY <1>7 DEF Crash, OneLookup, Uses
<1>8. CASE ServerRestart
  <2>1. /\ UNCHANGED <<pc, at>>
        /\ \A j \in 1 .. Len(pool) : pool'[j] = [pool[j] EXCEPT !.old = @ \/ pool[j].ld]
    BY <1>8, <1>t DEF ServerRestart
  <2>2. \A j \in 1 .. Len(pool) : pool'[j].locked = pool[j].locked
    BY <1>t, <2>1, ConnectionType
  <2> QED
    BY <1>t, <2>1, <2>2 DEF OneLookup, Uses
<1>9. CASE UNCHANGED vars
  BY <1>9 DEF vars, OneLookup, Uses
<1> QED
  BY <1>1, <1>2, <1>3, <1>4, <1>5, <1>6, <1>7, <1>8, <1>9 DEF Next, Step

\* Two lookups come to share a connection only by the second putldp() of a
\* lookup whose time ran out while the server was gone: no other step, of any
\* thread, breaks what the mutexes of the pool are for (ldap.c:458, "get a
\* bound ldap connection from the pool"; the goto after put_ldp()).
THEOREM OnlySecondPut ==
  Spec => [][OneLookup => OneLookup' \/ \E w \in Worker : SecondPut(w)]_vars
<1>1. Inv /\ [Next]_vars => (OneLookup => OneLookup' \/ \E w \in Worker : SecondPut(w))
  BY ApartStep
<1> QED
  BY <1>1, InvInit, InvNext, PTL DEF Spec

\* No connection to a server that stays up is old, so none is put back twice.
UpInv ==
  /\ restarts = 0
  /\ \A i \in DOMAIN pool : ~pool[i].old
  /\ \A w \in Worker : pc[w] # "again"

LEMMA UpStep ==
  ASSUME MaxRestarts = 0, Inv, UpInv, [Next]_vars
  PROVE  UpInv'
<1>t. /\ pool \in Seq(Connection) /\ pc \in [Worker -> PCs] /\ Len(pool) \in Nat
      /\ at \in [Worker -> 0 .. Len(pool)]
      /\ \A v \in Worker : Uses(v) => at[v] \in 1 .. Len(pool)
      /\ \A j \in 1 .. Len(pool) : pool[j] \in Connection
      /\ DOMAIN pool = 1 .. Len(pool)
  BY LenProperties DEF Inv, TypeOK, Placed, PCs
\* It is enough that a thread changes one connection, and not to an old one.
<1>1. ASSUME NEW w \in Worker, UNCHANGED restarts, pc'[w] # "again",
             \A v \in Worker \ {w} : pc'[v] = pc[v],
             \A i \in DOMAIN pool' : ~pool'[i].old
      PROVE  UpInv'
  BY <1>1 DEF UpInv
<1>2. ASSUME NEW i \in 1 .. Len(pool), NEW c \in Connection, ~c.old,
             pool' = [pool EXCEPT ![i] = c]
      PROVE  \A j \in DOMAIN pool' : ~pool'[j].old
  BY <1>t, <1>2, OneChanged DEF UpInv
<1>3. ASSUME NEW w \in Worker, ldap_get(w) \/ ldap_put(w) \/ SearchFails(w) PROVE UpInv'
  <2>1. UNCHANGED <<restarts, pool>> /\ pc'[w] # "again"
        /\ \A v \in Worker \ {w} : pc'[v] = pc[v]
    BY <1>3, <1>t DEF ldap_get, ldap_put, SearchFails, Goto
  <2> QED
    BY <1>1, <2>1 DEF UpInv
<1>4. ASSUME NEW w \in Worker, Try(w) PROVE UpInv'
  <2>1. UNCHANGED restarts /\ pc'[w] # "again" /\ at[w] \in 1 .. Len(pool)
        /\ \A v \in Worker \ {w} : pc'[v] = pc[v]
    BY <1>4, <1>t DEF Try, Goto
  <2>2. CASE pool' = pool
    BY <1>1, <2>1, <2>2 DEF UpInv
  <2>3. CASE pool' = [pool EXCEPT ![at[w]].locked = TRUE]
    <3> DEFINE c == [pool[at[w]] EXCEPT !.locked = TRUE]
    <3>1. pool' = [pool EXCEPT ![at[w]] = c]
      BY <2>3
    <3>2. pool[at[w]] \in Connection /\ ~pool[at[w]].old
      BY <1>t, <2>1 DEF UpInv
    <3>3. c \in Connection /\ ~c.old
      BY <3>2, Zenon DEF Connection
    <3> HIDE DEF c
    <3> QED
      BY <1>1, <1>2, <2>1, <3>1, <3>3
  <2> QED
    BY <1>4, <2>2, <2>3 DEF Try
<1>5. ASSUME NEW w \in Worker, Add(w) PROVE UpInv'
  <2>1. UNCHANGED restarts /\ pc'[w] # "again" /\ pool' = Append(pool, NewConnection)
        /\ \A v \in Worker \ {w} : pc'[v] = pc[v]
    BY <1>5, <1>t DEF Add, Goto
  <2>2. /\ DOMAIN pool' = 1 .. Len(pool) + 1 /\ pool'[Len(pool) + 1] = NewConnection
        /\ \A j \in 1 .. Len(pool) : pool'[j] = pool[j]
    BY <1>t, <2>1, NewType, AppendProperties, LenProperties
  <2>3. ~NewConnection.old
    BY DEF NewConnection
  <2>4. \A i \in DOMAIN pool' : ~pool'[i].old
    BY <1>t, <2>2, <2>3 DEF UpInv
  <2> QED
    BY <1>1, <2>1, <2>4
<1>6. ASSUME NEW w \in Worker, Bind(w) \/ Search(w) PROVE UpInv'
  <2>1. UNCHANGED restarts /\ pc'[w] # "again" /\ at[w] \in 1 .. Len(pool)
        /\ \A v \in Worker \ {w} : pc'[v] = pc[v]
    BY <1>6, <1>t DEF Bind, Search, Goto, Uses
  <2>2. pool[at[w]] \in Connection /\ ~pool[at[w]].old
    BY <1>t, <2>1 DEF UpInv
  <2>3. CASE pool' = pool
    BY <1>1, <2>1, <2>3 DEF UpInv
  <2>4. CASE Bind(w) /\ ~pool[at[w]].ld
    <3>1. PICK b \in BOOLEAN :
            pool' = [pool EXCEPT ![at[w]] =
                       [pool[at[w]] EXCEPT !.ld = b, !.used = FALSE, !.old = FALSE]]
      BY <2>4, Zenon DEF Bind
    <3> DEFINE c == [pool[at[w]] EXCEPT !.ld = b, !.used = FALSE, !.old = FALSE]
    <3>2. c \in Connection
      BY <2>2, ConnectionType
    <3>3. ~c.old
      BY <2>2, Zenon DEF Connection
    <3>4. pool' = [pool EXCEPT ![at[w]] = c]
      BY <3>1
    <3> HIDE DEF c
    <3> QED
      BY <1>1, <1>2, <2>1, <3>2, <3>3, <3>4
  <2>5. CASE Search(w)
    <3> DEFINE c == [pool[at[w]] EXCEPT !.used = TRUE]
    <3>1. pool' = [pool EXCEPT ![at[w]] = c]
      BY <2>5 DEF Search
    <3>2. c \in Connection /\ ~c.old
      BY <2>2, Zenon DEF Connection
    <3> HIDE DEF c
    <3> QED
      BY <1>1, <1>2, <2>1, <3>1, <3>2
  <2>6. Bind(w) /\ pool[at[w]].ld => pool' = pool
    BY DEF Bind
  <2> QED
    BY <1>6, <2>3, <2>4, <2>5, <2>6
<1>7. ASSUME NEW w \in Worker, ServerDown(w) PROVE FALSE
  BY <1>7, <1>t DEF ServerDown, Uses, UpInv
<1>8. ASSUME NEW w \in Worker, putldp(w) PROVE UpInv'
  <2>1. PICK from \in {"put", "unbind", "again"} :
          /\ pc[w] = from /\ pc' = [pc EXCEPT ![w] = "verify"]
          /\ pool' = [pool EXCEPT ![at[w]] = Put(pool[at[w]], from # "put")]
    BY <1>8 DEF putldp, Goto
  <2> DEFINE c == Put(pool[at[w]], from # "put")
  <2>2. at[w] \in 1 .. Len(pool)
    BY <1>t, <2>1 DEF UpInv, Uses
  <2>3. pool[at[w]] \in Connection /\ ~pool[at[w]].old /\ (from # "put") \in BOOLEAN
    BY <1>t, <2>2 DEF UpInv
  <2>4. c \in Connection
    BY <2>3, ConnectionType
  <2>5. ~c.old
    BY <2>3, Zenon DEF Connection, Put
  <2>6. UNCHANGED restarts /\ pc'[w] # "again" /\ \A v \in Worker \ {w} : pc'[v] = pc[v]
    BY <1>8, <1>t, <2>1 DEF putldp
  <2>7. pool' = [pool EXCEPT ![at[w]] = c]
    BY <2>1
  <2> HIDE DEF c
  <2> QED
    BY <1>1, <1>2, <2>2, <2>4, <2>5, <2>6, <2>7
<1>9. CASE Crash
  BY <1>9 DEF Crash, UpInv
<1>10. ~ServerRestart
  BY DEF ServerRestart, UpInv
<1>11. CASE UNCHANGED vars
  BY <1>11 DEF vars, UpInv
<1> QED
  BY <1>3, <1>4, <1>5, <1>6, <1>7, <1>8, <1>9, <1>10, <1>11 DEF Next, Step

\* While the directory server stays up, a connection serves one lookup at a
\* time, whose thread holds its mutex, whatever else fails (ldap.c:458, 582).
THEOREM OneLookupWhileUp == ASSUME MaxRestarts = 0 PROVE Spec => []OneLookup
<1>1. Init => UpInv /\ OneLookup
  BY DEF Init, UpInv, OneLookup, Uses
<1>2. Inv /\ UpInv /\ [Next]_vars => UpInv'
  BY UpStep
<1>3. Inv /\ UpInv /\ OneLookup /\ [Next]_vars => OneLookup'
  BY ApartStep DEF UpInv, SecondPut
<1> QED
  BY <1>1, <1>2, <1>3, InvInit, InvNext, PTL DEF Spec
=============================================================================
