-------------------------- MODULE WorkThreadProofs --------------------------
(***************************************************************************)
(* Theorems about the connections, for every number of them, every         *)
(* timeout and every number of requests, of any mix of versions.           *)
(***************************************************************************)
EXTENDS WorkThread, TLAPS, SequenceTheorems

Piece == [id : Nat, n : Nat]
Reply == [id : Nat, rc : {"ok", "auth_err"}]

(* Types, with those of the sequences. *)
Queues ==
  /\ stream \in [Conn -> Seq(Piece)]
  /\ sent \in [Conn -> Seq(Request)]
  /\ out \in [Conn -> Seq(Reply)]
Threads ==
  /\ sock \in [Conn -> {"none", "queued", "open", "closed"}]
  /\ sending \in [Conn -> 0 .. 3]
  /\ pc \in [Conn -> {"none", "read", "check", "verify", "reply"}]
  /\ nread \in [Conn -> 0 .. 3]
  /\ timeout \in [Conn -> -Overrun .. Timeout]
  /\ request \in [Conn -> [id : Nat, last : Nat]]
  /\ reply \in [Conn -> {"ok", "auth_err"}]
Types == Queues /\ Threads

\* The piece that follows p in what the plugin writes.
Succ(c, p) ==
  IF p.n < Length(sent[c][p.id].v) THEN [id |-> p.id, n |-> p.n + 1]
                                   ELSE [id |-> p.id + 1, n |-> 1]

\* The piece the plugin writes next, and the one the work thread reads next.
Writer(c) ==
  IF sending[c] > 0
  THEN [id |-> Len(sent[c]), n |-> Length(sent[c][Len(sent[c])].v) - sending[c] + 1]
  ELSE [id |-> Len(sent[c]) + 1, n |-> 1]
Deciding(c) == pc[c] \in {"check", "verify", "reply"}
Reader(c) ==
  IF Deciding(c) THEN [id |-> Len(out[c]) + 2, n |-> 1]
                 ELSE [id |-> Len(out[c]) + 1, n |-> nread[c] + 1]

\* Every piece is one of a request that the plugin has begun.
Pieces(c) ==
  \A i \in 1 .. Len(stream[c]) :
    /\ stream[c][i].id \in 1 .. Len(sent[c])
    /\ stream[c][i].n \in 1 .. Length(sent[c][stream[c][i].id].v)
\* The stream holds what lies between the two, without a gap.
Chain(c) ==
  /\ \A i \in 1 .. Len(stream[c]) - 1 : stream[c][i + 1] = Succ(c, stream[c][i])
  /\ stream[c] = <<>> => Reader(c) = Writer(c)
  /\ stream[c] # <<>> => /\ stream[c][1] = Reader(c)
                         /\ Writer(c) = Succ(c, stream[c][Len(stream[c])])

\* What the work thread has read is the beginning, or all, of one request.
Reading(c) ==
  /\ pc[c] # "none" => sock[c] = "open"
  /\ sock[c] = "open" => pc[c] # "none"
  /\ sock[c] \in {"none", "queued"} => nread[c] = 0
  /\ nread[c] > 0 =>
       /\ request[c].id = Len(out[c]) + 1 /\ request[c].last = request[c].id
       /\ request[c].id \in 1 .. Len(sent[c])
       /\ sent[c][request[c].id].v \in {1, 2}
  /\ ~Deciding(c) /\ nread[c] > 0 => nread[c] < Length(sent[c][request[c].id].v)
  /\ Deciding(c) => nread[c] = Length(sent[c][request[c].id].v) /\ nread[c] > 0
  /\ pc[c] = "verify" => timeout[c] = Timeout /\ sent[c][request[c].id].kind = "valid"
  /\ pc[c] = "reply" /\ reply[c] = "ok" => sent[c][request[c].id].kind = "valid"

Sending(c) ==
  /\ Len(sent[c]) <= MaxRequests
  /\ sending[c] > 0 => Len(sent[c]) > 0 /\ sending[c] <= Length(sent[c][Len(sent[c])].v)

\* The part of RepliesInOrder about one connection.
InOrder(c) ==
  /\ Len(out[c]) <= Len(sent[c])
  /\ request[c].id <= Len(sent[c]) /\ request[c].last <= Len(sent[c])
  /\ \A i \in 1 .. Len(out[c]) :
       out[c][i].id = i /\ (out[c][i].rc = "ok" => sent[c][i].kind = "valid")

Connection(c) ==
  /\ Sending(c) /\ InOrder(c) /\ Pieces(c)
  /\ sock[c] # "closed" => Chain(c) /\ Reading(c)
  /\ sock[c] = "closed" => pc[c] = "none"

Inv == Types /\ \A c \in Conn : Connection(c)
-----------------------------------------------------------------------------
LEMMA LengthType == \A v \in Version : Length(v) \in 2 .. 3 /\ (v \in {1, 2} => Wanted(v) = Length(v))
  BY DEF Version, Length, Wanted

\* The sequences of a connection.
LEMMA SeqFacts ==
  ASSUME Types, NEW c \in Conn
  PROVE  /\ stream[c] \in Seq(Piece) /\ sent[c] \in Seq(Request) /\ out[c] \in Seq(Reply)
         /\ Len(stream[c]) \in Nat /\ Len(sent[c]) \in Nat /\ Len(out[c]) \in Nat
         /\ DOMAIN out[c] = 1 .. Len(out[c])
         /\ \A i \in 1 .. Len(sent[c]) : /\ sent[c][i] \in Request
                                        /\ sent[c][i].v \in Version
                                        /\ Length(sent[c][i].v) \in 2 .. 3
         /\ \A i \in 1 .. Len(stream[c]) : stream[c][i] \in Piece
         /\ stream[c] = <<>> <=> Len(stream[c]) = 0
<1>1. /\ stream[c] \in Seq(Piece) /\ sent[c] \in Seq(Request) /\ out[c] \in Seq(Reply)
  BY DEF Types, Queues
<1>4. \A i \in 1 .. Len(sent[c]) : sent[c][i] \in Request
  BY <1>1, ElementOfSeq
<1>2. \A i \in 1 .. Len(sent[c]) : sent[c][i] \in Request /\ sent[c][i].v \in Version
  BY <1>4 DEF Request
<1>3. stream[c] = <<>> <=> Len(stream[c]) = 0
  BY <1>1, EmptySeq
<1> QED
  BY <1>1, <1>2, <1>3, LengthType, LenProperties, ElementOfSeq

LEMMA InvInit == Init => Inv
<1> SUFFICES ASSUME Init PROVE Inv
  OBVIOUS
<1>1. Types
  <2>1. Queues
    BY EmptySeq DEF Init, Queues
  <2>2. Threads
    BY WorkAssumption DEF Init, Threads, NoRequest, NoReply
  <2> QED
    BY <2>1, <2>2 DEF Types
<1>2. ASSUME NEW c \in Conn PROVE Connection(c)
  <2>1. Len(<<>>) = 0
    OBVIOUS
  <2> QED
    BY <2>1, WorkAssumption
    DEF Init, Connection, Sending, InOrder, Pieces, Chain, Reading, Reader, Writer, Deciding,
        NoRequest
<1> QED
  BY <1>1, <1>2 DEF Inv

\* A connection that a step leaves alone.
Same(c) ==
  UNCHANGED <<sock[c], stream[c], sending[c], pc[c], nread[c], request[c], reply[c],
              timeout[c], out[c], sent[c]>>

LEMMA SameKeeps ==
  ASSUME NEW c \in Conn, Connection(c), Same(c) PROVE Connection(c)'
<1>1. Sending(c)' = Sending(c)
  BY DEF Same, Sending
<1>2. InOrder(c)' = InOrder(c)
  BY DEF Same, InOrder
<1>3. Pieces(c)' = Pieces(c)
  BY DEF Same, Pieces
<1>4. Deciding(c)' = Deciding(c)
  BY DEF Same, Deciding
<1>5. Reader(c)' = Reader(c) /\ Writer(c)' = Writer(c)
  BY <1>4 DEF Same, Reader, Writer
<1>6. Chain(c)' = Chain(c)
  BY <1>5 DEF Same, Chain, Succ
<1>7. Reading(c)' = Reading(c)
  BY <1>4 DEF Same, Reading
<1> QED
  BY <1>1, <1>2, <1>3, <1>6, <1>7 DEF Same, Connection

\* The plugin's steps.
LEMMA RequestKeeps ==
  ASSUME Inv, NEW c \in Conn, verify_request(c)
  PROVE  Types' /\ Connection(c)'
<1>1. PICK r \in Request : /\ sent' = [sent EXCEPT ![c] = Append(sent[c], r)]
                           /\ sending' = [sending EXCEPT ![c] = Length(r.v)]
  BY DEF verify_request
<1>2. /\ sending[c] = 0 /\ Len(sent[c]) < MaxRequests
      /\ UNCHANGED <<sock, stream, pc, nread, request, reply, timeout, out>>
  BY DEF verify_request
<1>3. Length(r.v) \in 2 .. 3
  BY LengthType DEF Request
<1>t. Types /\ Connection(c)
  BY DEF Inv
<1>4. /\ sent'[c] = Append(sent[c], r) /\ sending'[c] = Length(r.v)
      /\ Len(sent'[c]) = Len(sent[c]) + 1 /\ sent'[c][Len(sent[c]) + 1] = r
      /\ \A i \in 1 .. Len(sent[c]) : sent'[c][i] = sent[c][i]
      /\ sent'[c] \in Seq(Request)
  BY <1>1, <1>t, SeqFacts, AppendProperties DEF Types, Queues, Threads
<1>5. Types'
  BY <1>1, <1>2, <1>3, <1>4, <1>t DEF Types, Queues, Threads
<1> USE SeqFacts
<1>6. Sending(c)'
  BY <1>t, <1>2, <1>3, <1>4, WorkAssumption DEF Sending
<1>7. InOrder(c)'
  BY <1>t, <1>2, <1>4 DEF Types, Threads, Connection, InOrder
<1>8. Pieces(c)'
  BY <1>t, <1>2, <1>4 DEF Connection, Pieces
<1>9. ASSUME sock[c] # "closed" PROVE Chain(c)'
  <2>1. Writer(c)' = Writer(c)
    BY <1>t, <1>2, <1>3, <1>4 DEF Writer
  <2>2. Reader(c)' = Reader(c)
    BY <1>2 DEF Reader, Deciding
  <2>3. \A i \in 1 .. Len(stream[c]) : Succ(c, stream[c][i])' = Succ(c, stream[c][i])
    BY <1>t, <1>2, <1>4 DEF Succ, Connection, Pieces
  <2> QED
    BY <1>t, <1>2, <1>9, <2>1, <2>2, <2>3 DEF Connection, Chain
<1>10. ASSUME sock[c] # "closed" PROVE Reading(c)'
  <2>1. nread[c] > 0 => request[c].id \in 1 .. Len(sent[c])
    BY <1>t, <1>10 DEF Connection, Reading
  <2> QED
    BY <1>t, <1>2, <1>4, <1>10, <2>1 DEF Connection, Reading, Deciding
<1> QED
  BY <1>t, <1>2, <1>5, <1>6, <1>7, <1>8, <1>9, <1>10 DEF Connection

LEMMA WriteKeeps ==
  ASSUME Inv, NEW c \in Conn, otp_write(c)
  PROVE  Types' /\ Connection(c)'
<1> DEFINE p == [id |-> Len(sent[c]), n |-> Length(sent[c][Len(sent[c])].v) - sending[c] + 1]
           st == stream[c]
<1>1. /\ sending[c] > 0 /\ sending' = [sending EXCEPT ![c] = sending[c] - 1]
      /\ stream' = [stream EXCEPT ![c] = Append(st, p)]
      /\ UNCHANGED <<sock, sent, pc, nread, request, reply, timeout, out>>
  BY DEF otp_write
<1>t. Types /\ Connection(c)
  BY DEF Inv
<1>f. /\ st \in Seq(Piece) /\ Len(st) \in Nat /\ Len(sent[c]) \in Nat
      /\ st = <<>> <=> Len(st) = 0
  BY <1>t, SeqFacts
<1>2. /\ Len(sent[c]) > 0 /\ sending[c] \in 1 .. Length(sent[c][Len(sent[c])].v)
      /\ Length(sent[c][Len(sent[c])].v) \in 2 .. 3
  <2>1. Len(sent[c]) > 0 /\ sending[c] <= Length(sent[c][Len(sent[c])].v)
    BY <1>1, <1>t DEF Connection, Sending
  <2>2. Length(sent[c][Len(sent[c])].v) \in 2 .. 3
    BY <1>t, <1>f, <2>1, SeqFacts
  <2>3. sending[c] \in 0 .. 3
    BY <1>t DEF Types, Threads
  <2> QED
    BY <1>1, <2>1, <2>2, <2>3
<1>3. /\ p \in Piece /\ p.id \in 1 .. Len(sent[c])
      /\ p.n \in 1 .. Length(sent[c][p.id].v) /\ p = Writer(c)
  BY <1>1, <1>2, <1>f DEF Piece, Writer
<1> HIDE DEF p
<1>4. /\ stream'[c] = Append(st, p) /\ sending'[c] = sending[c] - 1
      /\ Len(stream'[c]) = Len(st) + 1 /\ stream'[c][Len(st) + 1] = p
      /\ \A i \in 1 .. Len(st) : stream'[c][i] = st[i]
      /\ stream'[c] \in Seq(Piece) /\ stream'[c] # <<>>
  <2>1. stream'[c] = Append(st, p) /\ sending'[c] = sending[c] - 1
    BY <1>1, <1>t DEF Types, Queues, Threads
  <2> HIDE DEF st
  <2> QED
    BY <1>3, <1>f, <2>1, AppendProperties
<1>5. Types'
  <2>1. Queues'
    BY <1>1, <1>4, <1>t DEF Types, Queues
  <2>2. sending[c] - 1 \in 0 .. 3
    BY <1>2
  <2>3. Threads'
    BY <1>1, <2>2, <1>t DEF Types, Threads
  <2> QED
    BY <2>1, <2>3 DEF Types
<1>6. Sending(c)' /\ InOrder(c)'
  BY <1>1, <1>2, <1>4, <1>t DEF Connection, Sending, InOrder
<1>7. Pieces(c)'
  BY <1>1, <1>3, <1>4, <1>f, <1>t DEF Connection, Pieces
<1>8. ASSUME sock[c] # "closed" PROVE Chain(c)'
  <2>1. Writer(c)' = Succ(c, p)
    BY <1>1, <1>2, <1>4, <1>f DEF Writer, Succ, p
  <2>2. Reader(c)' = Reader(c) /\ \A q : Succ(c, q)' = Succ(c, q)
    BY <1>1 DEF Reader, Deciding, Succ
  <2>3. st = <<>> => p = Reader(c)
    BY <1>3, <1>8, <1>t DEF Connection, Chain
  <2>4. st # <<>> => st[1] = Reader(c) /\ p = Succ(c, st[Len(st)])
    BY <1>3, <1>8, <1>t DEF Connection, Chain
  <2>5. \A i \in 1 .. Len(st) - 1 : st[i + 1] = Succ(c, st[i])
    BY <1>8, <1>t DEF Connection, Chain
  <2>6. \A i \in 1 .. Len(st) : stream'[c][i + 1] = Succ(c, stream'[c][i])
    BY <1>4, <1>f, <2>4, <2>5
  <2>7. stream'[c][1] = Reader(c)
    BY <1>4, <1>f, <2>3, <2>4
  <2> QED
    BY <1>4, <1>f, <2>1, <2>2, <2>6, <2>7 DEF Chain
<1>9. sock[c] # "closed" => Reading(c)'
  BY <1>1, <1>t DEF Connection, Reading, Deciding
<1> QED
  BY <1>1, <1>t, <1>5, <1>6, <1>7, <1>8, <1>9 DEF Connection

\* A thread that ends leaves what it has done.
LEMMA ReturnKeeps ==
  ASSUME NEW c \in Conn, Connection(c), sock'[c] = "closed", pc'[c] = "none",
         UNCHANGED <<sending[c], out[c], sent[c]>>,
         request'[c].id <= Len(sent[c]), request'[c].last <= Len(sent[c]),
         Pieces(c)'
  PROVE  Connection(c)'
  BY DEF Connection, Sending, InOrder

\* Read: the piece is the next one of the request that is being read.
LEMMA ReadKeeps ==
  ASSUME Inv, NEW c \in Conn, Read(c)
  PROVE  Types' /\ Connection(c)'
<1> DEFINE st == stream[c]
           p == Head(st)
           id == IF nread[c] = 0 THEN p.id ELSE request[c].id
           v == sent[c][id].v
<1>t. Types /\ Connection(c)
  BY DEF Inv
<1>f. /\ st \in Seq(Piece) /\ Len(st) \in Nat /\ Len(sent[c]) \in Nat /\ Len(out[c]) \in Nat
      /\ st = <<>> <=> Len(st) = 0
      /\ nread[c] \in 0 .. 3
  BY <1>t, SeqFacts DEF Types, Threads
<1>1. /\ pc[c] = "read" /\ st # <<>> /\ sock[c] = "open"
      /\ stream' = [stream EXCEPT ![c] = Tail(st)]
      /\ request' = [request EXCEPT ![c] = [id |-> id, last |-> p.id]]
      /\ nread' = [nread EXCEPT ![c] = nread[c] + 1]
      /\ IF v \notin {1, 2} THEN Return(c)
         ELSE /\ pc' = [pc EXCEPT ![c] = IF nread[c] + 1 = Wanted(v) THEN "check" ELSE "read"]
              /\ UNCHANGED sock
      /\ UNCHANGED <<sending, sent, reply, timeout, out>>
  BY <1>t DEF Read, plugin, Connection, Reading
<1>0. Len(st) >= 1
  <2> HIDE DEF st
  <2> QED
    BY <1>1, <1>f
<1>2. /\ p = st[1] /\ p = Reader(c) /\ p.id = Len(out[c]) + 1 /\ p.n = nread[c] + 1
      /\ p.id \in 1 .. Len(sent[c]) /\ p.n \in 1 .. Length(sent[c][p.id].v)
      /\ Length(sent[c][p.id].v) \in 2 .. 3 /\ sent[c][p.id].v \in Version
  <2>1. p = st[1] /\ p = Reader(c) /\ 1 \in 1 .. Len(st)
    BY <1>1, <1>f, <1>t DEF Connection, Chain
  <2>2. p = [id |-> Len(out[c]) + 1, n |-> nread[c] + 1]
    BY <1>1, <2>1 DEF Reader, Deciding
  <2>3. p.id \in 1 .. Len(sent[c]) /\ p.n \in 1 .. Length(sent[c][p.id].v)
    BY <1>t, <2>1 DEF Connection, Pieces
  <2>4. Length(sent[c][p.id].v) \in 2 .. 3 /\ sent[c][p.id].v \in Version
    BY <1>t, <2>3, SeqFacts
  <2>5. p.id = Len(out[c]) + 1 /\ p.n = nread[c] + 1
    BY <2>2
  <2> HIDE DEF p
  <2> QED
    BY <2>1, <2>3, <2>4, <2>5
<1>3. id = p.id
  BY <1>1, <1>2, <1>f, <1>t DEF Connection, Reading
<1> HIDE DEF id, p
<1>4. /\ request'[c] = [id |-> p.id, last |-> p.id] /\ request' \in [Conn -> [id : Nat, last : Nat]]
      /\ nread'[c] = nread[c] + 1 /\ nread' \in [Conn -> 0 .. 3]
  <2>1. [id |-> p.id, last |-> p.id] \in [id : Nat, last : Nat]
    BY <1>2, <1>f
  <2>2. nread[c] + 1 \in 0 .. 3
    BY <1>2, <1>t DEF Types, Threads
  <2>3. request \in [Conn -> [id : Nat, last : Nat]] /\ nread \in [Conn -> 0 .. 3]
    BY <1>t DEF Types, Threads
  <2> QED
    BY <1>1, <1>3, <2>1, <2>2, <2>3
<1>5. /\ stream'[c] = Tail(st) /\ stream'[c] \in Seq(Piece) /\ Len(stream'[c]) = Len(st) - 1
      /\ \A i \in 1 .. Len(st) - 1 : stream'[c][i] = st[i + 1]
      /\ stream'[c] = <<>> <=> Len(st) = 1
  <2>1. stream'[c] = Tail(st)
    BY <1>1, <1>t DEF Types, Queues
  <2>2. Tail(st) \in Seq(Piece) /\ Len(Tail(st)) = Len(st) - 1
    BY <1>1, <1>f, HeadTailProperties
  <2>3. \A i \in 1 .. Len(st) - 1 : Tail(st)[i] = st[i + 1]
    BY <1>1, <1>f, <2>2
  <2>4. Tail(st) = <<>> <=> Len(Tail(st)) = 0
    BY <2>2, EmptySeq
  <2> QED
    BY <1>f, <2>1, <2>2, <2>3, <2>4
<1>6. Types'
  <2>1. Queues'
    BY <1>1, <1>5, <1>t DEF Types, Queues
  <2>2. /\ pc' \in [Conn -> {"none", "read", "check", "verify", "reply"}]
        /\ sock' \in [Conn -> {"none", "queued", "open", "closed"}]
    BY <1>1, <1>t DEF Types, Threads, Return
  <2> QED
    BY <1>1, <1>4, <1>t, <2>1, <2>2 DEF Types, Threads
<1>7. Pieces(c)'
  BY <1>1, <1>5, <1>f, <1>t DEF Connection, Pieces
<1>8. CASE v \notin {1, 2}
  <2>1. sock'[c] = "closed" /\ pc'[c] = "none"
    BY <1>1, <1>8, <1>t DEF Return, Types, Threads
  <2> QED
    BY <1>1, <1>2, <1>4, <1>6, <1>7, <1>t, <2>1, ReturnKeeps
<1>9. CASE v \in {1, 2}
  <2>1. /\ sock'[c] = "open" /\ Wanted(v) = Length(v) /\ v = sent[c][p.id].v
        /\ pc'[c] = IF nread[c] + 1 = Length(v) THEN "check" ELSE "read"
    BY <1>1, <1>2, <1>3, <1>9, <1>t, LengthType DEF Types, Threads, id
  <2>2. Reader(c)' = Succ(c, p)
    BY <1>1, <1>2, <1>4, <1>f, <2>1 DEF Reader, Succ, Deciding
  <2>3. Writer(c)' = Writer(c) /\ \A q : Succ(c, q)' = Succ(c, q)
    BY <1>1 DEF Writer, Succ
  <2>4. /\ \A i \in 1 .. Len(st) - 1 : st[i + 1] = Succ(c, st[i])
        /\ Writer(c) = Succ(c, st[Len(st)])
    BY <1>1, <1>t DEF Connection, Chain
  <2>5. Chain(c)'
    <3>1. \A i \in 1 .. Len(stream'[c]) - 1 : stream'[c][i + 1] = Succ(c, stream'[c][i])
      BY <1>5, <1>f, <2>4
    <3>2. CASE Len(st) = 1
      BY <1>2, <1>5, <2>2, <2>3, <2>4, <3>1, <3>2 DEF Chain
    <3>3. CASE Len(st) # 1
      <4>1. stream'[c][1] = Reader(c)' /\ stream'[c][Len(stream'[c])] = st[Len(st)]
        <5>1. 1 \in 1 .. Len(st) - 1 /\ Len(st) - 1 \in 1 .. Len(st) - 1
          <6>1. Len(st) \in Nat
            BY <1>f
          <6>2. \A n \in Nat : n >= 1 /\ n # 1 => 1 \in 1 .. n - 1 /\ n - 1 \in 1 .. n - 1
            OBVIOUS
          <6> QED
            BY <1>0, <3>3, <6>1, <6>2, Zenon
        <5>2. stream'[c][1] = st[1 + 1] /\ stream'[c][Len(st) - 1] = st[Len(st) - 1 + 1]
          BY <1>5, <5>1
        <5>3. st[1 + 1] = Succ(c, p)
          BY <1>2, <2>4, <5>1
        <5>4. Len(st) - 1 + 1 = Len(st)
          BY <1>f
        <5> QED
          BY <1>5, <2>2, <5>2, <5>3, <5>4
      <4> QED
        BY <1>5, <2>3, <2>4, <3>1, <3>3, <4>1 DEF Chain
    <3> QED
      BY <3>2, <3>3
  <2>6. Reading(c)'
    BY <1>1, <1>2, <1>4, <1>9, <1>f, <2>1 DEF Reading, Deciding
  <2>7. Sending(c)' /\ InOrder(c)'
    BY <1>1, <1>2, <1>4, <1>t DEF Connection, Sending, InOrder
  <2> QED
    BY <1>6, <1>7, <2>1, <2>5, <2>6, <2>7 DEF Connection
<1> QED
  BY <1>8, <1>9

\* Check and verify() decide about the request that was read.
LEMMA CheckKeeps ==
  ASSUME Inv, NEW c \in Conn, Check(c)
  PROVE  Types' /\ Connection(c)'
<1>t. Types /\ Connection(c)
  BY DEF Inv
<1>1. pc[c] = "check" /\ UNCHANGED <<sending, sent, stream, nread, request, out>>
  BY DEF Check, plugin
<1>2. sock[c] = "open" /\ Chain(c) /\ Reading(c) /\ Deciding(c) /\ Rest(c) = sent[c][request[c].id]
  BY <1>1, <1>t DEF Connection, Reading, Deciding, Rest
<1>3. Pieces(c)' /\ Sending(c)' /\ InOrder(c)'
  BY <1>1, <1>t DEF Connection, Pieces, Sending, InOrder
<1>4. CASE Return(c) /\ UNCHANGED <<reply, timeout>>
  <2>1. sock'[c] = "closed" /\ pc'[c] = "none"
    BY <1>4, <1>t DEF Return, Types, Threads
  <2>2. Types'
    BY <1>1, <1>4, <1>t DEF Return, Types, Queues, Threads
  <2> QED
    BY <1>3, <2>1, <2>2 DEF Connection
<1>5. ASSUME NEW to \in {"verify", "reply"}, pc' = [pc EXCEPT ![c] = to], UNCHANGED sock,
             reply' \in [Conn -> {"ok", "auth_err"}],
             timeout' \in [Conn -> -Overrun .. Timeout],
             to = "verify" => timeout'[c] = Timeout /\ Rest(c).kind = "valid",
             to = "reply" => reply'[c] = "auth_err"
      PROVE  Types' /\ Connection(c)'
  <2>1. pc'[c] = to /\ Types'
    BY <1>1, <1>5, <1>t DEF Types, Queues, Threads
  <2>2. Reader(c)' = Reader(c) /\ Writer(c)' = Writer(c) /\ \A q : Succ(c, q)' = Succ(c, q)
    BY <1>1, <2>1 DEF Reader, Writer, Succ, Deciding
  <2>3. Chain(c)'
    BY <1>1, <1>2, <2>2 DEF Chain
  <2>4. Reading(c)'
    BY <1>1, <1>2, <1>5, <2>1 DEF Reading, Deciding
  <2> QED
    BY <1>2, <1>3, <1>5, <2>1, <2>3, <2>4 DEF Connection
<1>6. CASE Rest(c).kind = "invalid"
  BY <1>4, <1>6 DEF Check
<1>7. CASE Rest(c).kind = "lm"
  <2>1. /\ pc' = [pc EXCEPT ![c] = "reply"] /\ reply' = [reply EXCEPT ![c] = "auth_err"]
        /\ UNCHANGED <<sock, timeout>>
    BY <1>7 DEF Check
  <2>2. /\ reply' \in [Conn -> {"ok", "auth_err"}] /\ reply'[c] = "auth_err"
        /\ timeout' \in [Conn -> -Overrun .. Timeout]
    BY <1>t, <2>1 DEF Types, Threads
  <2> QED
    BY <1>5, <2>1, <2>2
<1>8. CASE Rest(c).kind \notin {"invalid", "lm"}
  <2>1. /\ pc' = [pc EXCEPT ![c] = "verify"] /\ timeout' = [timeout EXCEPT ![c] = Timeout]
        /\ UNCHANGED <<sock, reply>>
    BY <1>8 DEF Check, Budget
  <2>2. /\ reply' \in [Conn -> {"ok", "auth_err"}] /\ timeout'[c] = Timeout
        /\ timeout' \in [Conn -> -Overrun .. Timeout]
    BY <1>t, <2>1, WorkAssumption DEF Types, Threads
  <2>3. Rest(c).kind = "valid"
    <3>1. nread[c] > 0 => request[c].id \in 1 .. Len(sent[c])
      BY <1>2 DEF Reading
    <3>2. Rest(c) \in Request
      BY <1>2, <1>t, <3>1, SeqFacts DEF Reading
    <3> QED
      BY <1>8, <3>2 DEF Request, Kind
  <2> QED
    BY <1>5, <2>1, <2>2, <2>3
<1> QED
  BY <1>6, <1>7, <1>8

LEMMA VerifyKeeps ==
  ASSUME Inv, NEW c \in Conn, verify(c)
  PROVE  Types' /\ Connection(c)'
<1>t. Types /\ Connection(c)
  BY DEF Inv
<1>1. /\ pc[c] = "verify" /\ pc' = [pc EXCEPT ![c] = "reply"]
      /\ UNCHANGED <<sock, sending, sent, stream, nread, request, out>>
      /\ \E left \in -Overrun .. timeout[c] : timeout' = [timeout EXCEPT ![c] = left]
      /\ \E rc \in {"ok", "auth_err"} : reply' = [reply EXCEPT ![c] = rc]
  BY DEF verify, plugin
<1>2. sock[c] = "open" /\ Chain(c) /\ Reading(c) /\ pc'[c] = "reply"
  BY <1>1, <1>t DEF Connection, Reading, Types, Threads
<1>3. /\ timeout' \in [Conn -> -Overrun .. Timeout]
      /\ reply' \in [Conn -> {"ok", "auth_err"}]
  BY <1>1, <1>t, WorkAssumption DEF Types, Threads
<1>4. Types'
  BY <1>1, <1>3, <1>t DEF Types, Queues, Threads
<1>5. Reader(c)' = Reader(c) /\ Writer(c)' = Writer(c) /\ \A q : Succ(c, q)' = Succ(c, q)
  BY <1>1, <1>2 DEF Reader, Writer, Succ, Deciding
<1>6. Chain(c)'
  BY <1>1, <1>2, <1>5 DEF Chain
<1>7. Reading(c)'
  BY <1>1, <1>2 DEF Reading, Deciding
<1>8. Pieces(c)' /\ Sending(c)' /\ InOrder(c)'
  BY <1>1, <1>t DEF Connection, Pieces, Sending, InOrder
<1> QED
  BY <1>1, <1>2, <1>4, <1>6, <1>7, <1>8 DEF Connection

\* The reply is the next one.
LEMMA ReplyKeeps ==
  ASSUME Inv, NEW c \in Conn, send_reply(c)
  PROVE  Types' /\ Connection(c)'
<1> DEFINE r == [id |-> request[c].id, rc |-> reply[c]]
<1>t. Types /\ Connection(c)
  BY DEF Inv
<1>1. /\ pc[c] = "reply" /\ pc' = [pc EXCEPT ![c] = "read"]
      /\ nread' = [nread EXCEPT ![c] = 0] /\ out' = [out EXCEPT ![c] = Append(out[c], r)]
      /\ UNCHANGED <<sock, sending, sent, stream, request, reply, timeout>>
  BY DEF send_reply, plugin, Rewound
<1>2. sock[c] = "open" /\ Chain(c) /\ Reading(c) /\ Deciding(c)
  BY <1>1, <1>t DEF Connection, Reading, Deciding
<1>3. /\ request[c].id = Len(out[c]) + 1 /\ request[c].id \in 1 .. Len(sent[c])
      /\ reply[c] = "ok" => sent[c][request[c].id].kind = "valid"
  BY <1>1, <1>2 DEF Reading
<1>4. r \in Reply /\ out[c] \in Seq(Reply) /\ Len(out[c]) \in Nat
  BY <1>t, SeqFacts DEF Types, Threads, Reply
<1>5. /\ out'[c] = Append(out[c], r) /\ pc'[c] = "read" /\ nread'[c] = 0
  BY <1>1, <1>t DEF Types, Queues, Threads
<1> HIDE DEF r
<1>6. /\ out'[c] \in Seq(Reply) /\ Len(out'[c]) = Len(out[c]) + 1
      /\ out'[c][Len(out[c]) + 1] = r
      /\ \A i \in 1 .. Len(out[c]) : out'[c][i] = out[c][i]
  BY <1>4, <1>5, AppendProperties
<1>7. Types'
  BY <1>1, <1>6, <1>t DEF Types, Queues, Threads
<1>8. Reader(c)' = Reader(c) /\ Writer(c)' = Writer(c) /\ \A q : Succ(c, q)' = Succ(c, q)
  BY <1>1, <1>2, <1>4, <1>5, <1>6 DEF Reader, Writer, Succ, Deciding
<1>9. Chain(c)'
  BY <1>1, <1>2, <1>8 DEF Chain
<1>10. Reading(c)'
  BY <1>1, <1>2, <1>5 DEF Reading, Deciding
<1>11. Pieces(c)' /\ Sending(c)'
  BY <1>1, <1>t DEF Connection, Pieces, Sending
<1>12. InOrder(c)'
  BY <1>1, <1>3, <1>4, <1>6, <1>t DEF Connection, InOrder, r
<1> QED
  BY <1>1, <1>2, <1>7, <1>9, <1>10, <1>11, <1>12 DEF Connection

LEMMA InvNext == Inv /\ [Next]_vars => Inv'
<1> SUFFICES ASSUME Inv, [Next]_vars PROVE Inv'
  OBVIOUS
<1>t. Types /\ \A c \in Conn : Connection(c)
  BY DEF Inv
<1>1. ASSUME NEW c \in Conn, Types', Connection(c)', \A d \in Conn \ {c} : Same(d) PROVE Inv'
  BY <1>t, <1>1, SameKeeps DEF Inv
<1>2. ASSUME NEW c \in Conn, otp_connect(c) \/ accept(c) PROVE Inv'
  <2>1. Types'
    BY <1>2, <1>t DEF otp_connect, accept, plugin, Types, Queues, Threads
  <2>2. /\ sock[c] \in {"none", "queued"} /\ pc[c] = "none"
        /\ sock'[c] \in {"queued", "open"} /\ pc'[c] \in {"none", "read"}
        /\ sock'[c] = "open" <=> pc'[c] # "none"
        /\ UNCHANGED <<stream, sending, nread, request, reply, timeout, out, sent>>
    BY <1>2, <1>t DEF otp_connect, accept, plugin, Types, Threads, Connection, Reading
  <2>3. Reader(c)' = Reader(c) /\ Writer(c)' = Writer(c) /\ \A q : Succ(c, q)' = Succ(c, q)
    BY <2>2 DEF Reader, Writer, Succ, Deciding
  <2>4. Chain(c)'
    BY <1>t, <2>2, <2>3 DEF Connection, Chain
  <2>5. Reading(c)'
    BY <1>t, <2>2 DEF Connection, Reading, Deciding
  <2>6. Pieces(c)' /\ Sending(c)' /\ InOrder(c)'
    BY <1>t, <2>2 DEF Connection, Pieces, Sending, InOrder
  <2>7. \A d \in Conn \ {c} : Same(d)
    BY <1>2, <1>t DEF otp_connect, accept, plugin, Same, Types, Threads
  <2> QED
    BY <1>1, <2>1, <2>2, <2>4, <2>5, <2>6, <2>7 DEF Connection
<1>3. ASSUME NEW c \in Conn, verify_request(c) PROVE Inv'
  <2>1. \A d \in Conn \ {c} : Same(d)
    BY <1>3, <1>t DEF verify_request, Same, Types, Queues, Threads
  <2> QED
    BY <1>1, <1>3, <2>1, RequestKeeps
<1>4. ASSUME NEW c \in Conn, otp_write(c) PROVE Inv'
  <2>1. \A d \in Conn \ {c} : Same(d)
    BY <1>4, <1>t DEF otp_write, Same, Types, Queues, Threads
  <2> QED
    BY <1>1, <1>4, <2>1, WriteKeeps
<1>5. ASSUME NEW c \in Conn, Eof(c) \/ ReadFails(c) \/ WriteFails(c) PROVE Inv'
  <2>1. /\ Return(c) /\ UNCHANGED <<sending, sent, stream, nread, request, reply, timeout, out>>
    BY <1>5 DEF Eof, ReadFails, WriteFails, plugin
  <2>2. sock'[c] = "closed" /\ pc'[c] = "none" /\ Types'
    BY <1>t, <2>1 DEF Return, Types, Queues, Threads
  <2>3. Pieces(c)' /\ Sending(c)' /\ InOrder(c)'
    BY <1>t, <2>1 DEF Connection, Pieces, Sending, InOrder
  <2>4. \A d \in Conn \ {c} : Same(d)
    BY <1>t, <2>1 DEF Return, Same, Types, Threads
  <2> QED
    BY <1>1, <2>2, <2>3, <2>4 DEF Connection
<1>6. ASSUME NEW c \in Conn, Read(c) PROVE Inv'
  <2>1. \A d \in Conn \ {c} : Same(d)
    BY <1>6, <1>t DEF Read, Return, plugin, Same, Types, Queues, Threads
  <2> QED
    BY <1>1, <1>6, <2>1, ReadKeeps
<1>7. ASSUME NEW c \in Conn, Check(c) PROVE Inv'
  <2>1. \A d \in Conn \ {c} : Same(d)
    BY <1>7, <1>t DEF Check, Return, plugin, Same, Types, Threads
  <2> QED
    BY <1>1, <1>7, <2>1, CheckKeeps
<1>8. ASSUME NEW c \in Conn, verify(c) PROVE Inv'
  <2>1. \A d \in Conn \ {c} : Same(d)
    BY <1>8, <1>t DEF verify, plugin, Same, Types, Threads
  <2> QED
    BY <1>1, <1>8, <2>1, VerifyKeeps
<1>9. ASSUME NEW c \in Conn, send_reply(c) PROVE Inv'
  <2>1. \A d \in Conn \ {c} : Same(d)
    BY <1>9, <1>t DEF send_reply, plugin, Same, Types, Queues, Threads
  <2> QED
    BY <1>1, <1>9, <2>1, ReplyKeeps
<1>10. CASE Exit
  <2>1. /\ UNCHANGED <<sending, sent, stream, nread, request, reply, timeout, out>>
        /\ sock' = [c \in Conn |-> IF sock[c] = "none" THEN "none" ELSE "closed"]
        /\ pc' = [c \in Conn |-> "none"]
    BY <1>10 DEF Exit, plugin
  <2>2. Types'
    BY <1>t, <2>1 DEF Types, Queues, Threads
  <2>3. ASSUME NEW c \in Conn PROVE Connection(c)'
    <3>1. Pieces(c)' /\ Sending(c)' /\ InOrder(c)'
      BY <1>t, <2>1 DEF Connection, Pieces, Sending, InOrder
    <3>2. CASE sock[c] = "none"
      <4>1. Same(c)
        BY <1>t, <2>1, <3>2 DEF Connection, Reading, Same
      <4> QED
        BY <1>t, <4>1, SameKeeps
    <3>3. CASE sock[c] # "none"
      BY <2>1, <3>1, <3>3 DEF Connection
    <3> QED
      BY <3>2, <3>3
  <2> QED
    BY <2>2, <2>3 DEF Inv
<1>11. CASE UNCHANGED vars \/ \E c \in Conn : disconnect(c)
  <2>1. UNCHANGED <<sock, stream, sending, pc, nread, request, reply, timeout, out, sent>>
    BY <1>11 DEF vars, plugin, disconnect
  <2>2. Types' /\ \A c \in Conn : Same(c)
    BY <1>t, <2>1 DEF Same, Types, Queues, Threads
  <2> QED
    BY <1>t, <2>2, SameKeeps DEF Inv
<1> QED
  BY <1>2, <1>3, <1>4, <1>5, <1>6, <1>7, <1>8, <1>9, <1>10, <1>11 DEF Next, work_thread

\* The replies on a connection are those of its requests, one for each and in
\* their order, and only a request that verify() has seen succeeds, however
\* the stream is cut and whatever versions it mixes (work_thread.c:65-295;
\* README.API, "Requests are handled serially per connnection").
THEOREM SerialReplies == Spec => []RepliesInOrder
<1>1. Inv => RepliesInOrder
  <2> SUFFICES ASSUME Inv, NEW c \in Conn, NEW i \in DOMAIN out[c]
               PROVE  /\ out[c][i].id = i
                      /\ out[c][i].rc = "ok" => sent[c][i].kind = "valid"
    BY DEF RepliesInOrder
  <2>1. i \in 1 .. Len(out[c])
    BY SeqFacts DEF Inv
  <2> QED
    BY <2>1 DEF Inv, Connection, InOrder
<1> QED
  BY <1>1, InvInit, InvNext, PTL DEF Spec

\* A request is decided from its own pieces, all of them, and with its own
\* time (work_thread.c:77, "save original timeout as it gets modified as we make
\* progress").
THEOREM RequestsNotMixed == Spec => []RequestsWhole
<1>1. Inv => RequestsWhole
  <2> SUFFICES ASSUME Inv, NEW c \in Conn
               PROVE  /\ pc[c] \in {"check", "verify", "reply"} =>
                           /\ request[c].id = request[c].last
                           /\ nread[c] = Length(sent[c][request[c].id].v)
                      /\ pc[c] = "verify" => timeout[c] = Timeout
    BY DEF RequestsWhole
  <2> QED
    BY DEF Inv, Connection, Reading, Deciding
<1> QED
  BY <1>1, InvInit, InvNext, PTL DEF Spec

\* The daemon's and the plugins' ends of the sockets.
Ends == up \in BOOLEAN /\ peer \in [Conn -> BOOLEAN]

\* Every variable keeps its type, and no thread points to a request that was
\* never sent (accept_thread.c, work_thread.c).
THEOREM TypeCorrect == Spec => []TypeOK
<1>1. Init => Ends
  BY Zenon DEF Init, Ends
<1>2. Ends /\ [Next]_vars => Ends'
  <2> SUFFICES ASSUME Ends, [Next]_vars PROVE Ends'
    OBVIOUS
  <2>1. ASSUME NEW c \in Conn, otp_connect(c) \/ disconnect(c) PROVE Ends'
    BY <2>1, Zenon DEF otp_connect, disconnect, Ends
  <2>2. CASE \/ \E c \in Conn : verify_request(c) \/ otp_write(c) \/ accept(c) \/ work_thread(c)
             \/ Exit \/ UNCHANGED vars
    <3>1. UNCHANGED peer /\ (up' = up \/ up' = FALSE)
      BY <2>2
      DEF verify_request, otp_write, accept, work_thread, Read, Eof, ReadFails, Check, verify,
          send_reply, WriteFails, Exit, plugin, vars
    <3> QED
      BY <3>1, Zenon DEF Ends
  <2> QED
    BY <2>1, <2>2 DEF Next
<1>3. Inv /\ Ends => TypeOK
  <2> SUFFICES ASSUME Inv, Ends PROVE TypeOK
    OBVIOUS
  <2>1. \A c \in Conn :
          /\ Len(sent[c]) <= MaxRequests
          /\ request[c].id \in 0 .. Len(sent[c]) /\ request[c].last \in 0 .. Len(sent[c])
          /\ reply[c] \in {"ok", "auth_err"}
    <3> SUFFICES ASSUME NEW c \in Conn
                 PROVE  /\ Len(sent[c]) <= MaxRequests
                        /\ request[c].id \in 0 .. Len(sent[c])
                        /\ request[c].last \in 0 .. Len(sent[c])
                        /\ reply[c] \in {"ok", "auth_err"}
      OBVIOUS
    <3>1. Len(sent[c]) \in Nat
      BY SeqFacts DEF Inv
    <3>2. request[c].id \in Nat /\ request[c].last \in Nat /\ reply[c] \in {"ok", "auth_err"}
      BY DEF Inv, Types, Threads
    <3>3. Sending(c) /\ InOrder(c)
      BY DEF Inv, Connection
    <3>4. /\ Len(sent[c]) <= MaxRequests
          /\ request[c].id <= Len(sent[c]) /\ request[c].last <= Len(sent[c])
      BY <3>3 DEF Sending, InOrder
    <3> QED
      BY <3>1, <3>2, <3>4
  <2> QED
    BY <2>1, Zenon DEF Inv, Types, Threads, Ends, TypeOK
<1> QED
  BY <1>1, <1>2, <1>3, InvInit, InvNext, PTL DEF Spec
-----------------------------------------------------------------------------
=============================================================================
