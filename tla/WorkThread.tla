----------------------------- MODULE WorkThread -----------------------------
(***************************************************************************)
(* Connections of plugins to otpd: the accept thread (accept_thread.c)     *)
(* starts a work thread (work_thread.c) for each of them, which reads the  *)
(* requests from the byte stream one after the other, checks them, has     *)
(* verify() decide and writes the replies.  The plugin is the client side  *)
(* of otpauth.c, except that it may send several requests, of any version, *)
(* before it reads a reply.  verify() itself is modelled in Verify; here   *)
(* it is what it does to the reply and to the time it is given.            *)
(*                                                                         *)
(* The stream is a sequence of pieces: the version, and one more piece for *)
(* a v2 request, two more for the longer v1 request.                       *)
(***************************************************************************)
EXTENDS Integers, Sequences

CONSTANTS
  Conn,         \* connections
  Timeout,      \* config->timeout
  Overrun,      \* bound on how far a slow verify() overruns its time
  MaxRequests   \* bound on the requests of a connection

ASSUME WorkAssumption ==
  /\ Overrun \in Nat /\ Timeout \in Nat
  /\ MaxRequests \in Nat

VARIABLES
  up,       \* the daemon runs
  sock,     \* each connection's socket
  peer,     \* does the plugin hold its end?
  stream,   \* what the plugin has written and the work thread not yet read
  sending,  \* the pieces of its request the plugin still has to write
  pc, nread, request, reply, timeout,  \* the work threads
  out,      \* the replies written
  sent      \* the requests of each plugin, in order

plugin == <<peer, sending, sent>>
vars == <<up, sock, plugin, stream, pc, nread, request, reply, timeout, out>>

Kind == {"valid", "lm", "invalid"}
Version == {1, 2, 3}
Request == [v : Version, kind : Kind]

\* sizeof(request), sizeof(request_v1)
Wanted_v2(v) == 2
Wanted(v) == IF v = 1 THEN 3 ELSE 2

NoRequest == [id |-> 0, last |-> 0]
NoReply == "ok"

Init ==
  /\ up = TRUE
  /\ sock = [c \in Conn |-> "none"] /\ peer = [c \in Conn |-> FALSE]
  /\ stream = [c \in Conn |-> <<>>] /\ sending = [c \in Conn |-> 0]
  /\ pc = [c \in Conn |-> "none"] /\ nread = [c \in Conn |-> 0]
  /\ request = [c \in Conn |-> NoRequest] /\ reply = [c \in Conn |-> NoReply]
  /\ timeout = [c \in Conn |-> Timeout]
  /\ out = [c \in Conn |-> <<>>] /\ sent = [c \in Conn |-> <<>>]
-----------------------------------------------------------------------------
(* The plugin. *)

otp_connect(c) ==
  /\ up /\ sock[c] = "none"
  /\ sock' = [sock EXCEPT ![c] = "queued"] /\ peer' = [peer EXCEPT ![c] = TRUE]
  /\ UNCHANGED <<up, sending, sent, stream, pc, nread, request, reply, timeout, out>>

\* A request of a version otpd does not know is taken to be as long as v2.
Length(v) == IF v = 1 THEN 3 ELSE 2

verify_request(c) ==
  /\ peer[c] /\ sending[c] = 0 /\ Len(sent[c]) < MaxRequests
  /\ \E r \in Request :
       /\ sent' = [sent EXCEPT ![c] = Append(@, r)]
       /\ sending' = [sending EXCEPT ![c] = Length(r.v)]
  /\ UNCHANGED <<up, sock, peer, stream, pc, nread, request, reply, timeout, out>>

\* write() takes what it likes.
otp_write(c) ==
  /\ peer[c] /\ sending[c] > 0
  /\ sending' = [sending EXCEPT ![c] = @ - 1]
  /\ LET id == Len(sent[c]) IN
     stream' = [stream EXCEPT ![c] =
                  Append(@, [id |-> id, n |-> Length(sent[c][id].v) - sending[c] + 1])]
  /\ UNCHANGED <<up, sock, peer, sent, pc, nread, request, reply, timeout, out>>

disconnect(c) ==
  /\ peer[c] /\ peer' = [peer EXCEPT ![c] = FALSE]
  /\ UNCHANGED <<up, sock, sending, sent, stream, pc, nread, request, reply, timeout, out>>
-----------------------------------------------------------------------------
(* The accept thread. *)

\* The work thread has a copy of the configuration.
accept(c) ==
  /\ up /\ sock[c] = "queued"
  /\ sock' = [sock EXCEPT ![c] = "open"]
  /\ pc' = [pc EXCEPT ![c] = "read"]
  /\ UNCHANGED <<up, plugin, stream, nread, request, reply, timeout, out>>

\* xmalloc() or xpthread_create() fails: exit(1).
Exit ==
  /\ up /\ \E c \in Conn : sock[c] = "queued"
  /\ up' = FALSE
  /\ sock' = [c \in Conn |-> IF sock[c] = "none" THEN "none" ELSE "closed"]
  /\ pc' = [c \in Conn |-> "none"]
  /\ UNCHANGED <<plugin, stream, nread, request, reply, timeout, out>>
-----------------------------------------------------------------------------
(* A work thread. *)

\* RETURN
Return_leak(c) == pc' = [pc EXCEPT ![c] = "none"] /\ UNCHANGED sock
Return(c) ==
  /\ pc' = [pc EXCEPT ![c] = "none"] /\ sock' = [sock EXCEPT ![c] = "closed"]

\* The version comes from the first piece, the rest from the last one.
Rest(c) == sent[c][request[c].last]

\* The rest is as long as the version just read says; whatever stands first in
\* the stream is taken for a version.
Read(c) ==
  /\ pc[c] = "read" /\ stream[c] # <<>>
  /\ LET p == Head(stream[c])
         id == IF nread[c] = 0 THEN p.id ELSE request[c].id
         v == sent[c][id].v IN
     /\ stream' = [stream EXCEPT ![c] = Tail(@)]
     /\ request' = [request EXCEPT ![c] = [id |-> id, last |-> p.id]]
     /\ nread' = [nread EXCEPT ![c] = @ + 1]
     /\ IF v \notin {1, 2} THEN Return(c)
        ELSE /\ pc' = [pc EXCEPT ![c] = IF nread[c] + 1 = Wanted(v) THEN "check" ELSE "read"]
             /\ UNCHANGED sock
  /\ UNCHANGED <<up, plugin, reply, timeout, out>>

\* End of file, after what was written before it.
Eof(c) ==
  /\ pc[c] = "read" /\ stream[c] = <<>> /\ ~peer[c]
  /\ Return(c)
  /\ UNCHANGED <<up, plugin, stream, nread, request, reply, timeout, out>>

\* The plugin is gone without having read all of its replies: read() reports a
\* reset instead of what is still to be read.
ReadFails(c) ==
  /\ pc[c] = "read" /\ stream[c] # <<>> /\ ~peer[c]
  /\ Return(c)
  /\ UNCHANGED <<up, plugin, stream, nread, request, reply, timeout, out>>

\* What verify() may take, however much of it the last request has taken.
Budget_left(c) == timeout[c]
Budget(c) == Timeout

\* An invalid request ends the connection, an LM response is refused.
Check(c) ==
  /\ pc[c] = "check"
  /\ CASE Rest(c).kind = "invalid" -> Return(c) /\ UNCHANGED <<reply, timeout>>
       [] Rest(c).kind = "lm" ->
            /\ pc' = [pc EXCEPT ![c] = "reply"]
            /\ reply' = [reply EXCEPT ![c] = "auth_err"]
            /\ UNCHANGED <<sock, timeout>>
       [] OTHER ->
            /\ pc' = [pc EXCEPT ![c] = "verify"]
            /\ timeout' = [timeout EXCEPT ![c] = Budget(c)]
            /\ UNCHANGED <<sock, reply>>
  /\ UNCHANGED <<up, plugin, stream, nread, request, out>>

\* verify() takes time and returns a code.
verify(c) ==
  /\ pc[c] = "verify" /\ pc' = [pc EXCEPT ![c] = "reply"]
  /\ \E left \in -Overrun .. timeout[c] : timeout' = [timeout EXCEPT ![c] = left]
  /\ \E rc \in {"ok", "auth_err"} : reply' = [reply EXCEPT ![c] = rc]
  /\ UNCHANGED <<up, plugin, sock, stream, nread, request, out>>

\* The next request is read from its first byte on.
Rewound_not(n) == n
Rewound(n) == 0

send_reply(c) ==
  /\ pc[c] = "reply" /\ peer[c] /\ pc' = [pc EXCEPT ![c] = "read"]
  /\ nread' = [nread EXCEPT ![c] = Rewound(@)]
  /\ out' = [out EXCEPT ![c] = Append(@, [id |-> request[c].id, rc |-> reply[c]])]
  /\ UNCHANGED <<up, plugin, sock, stream, request, reply, timeout>>

\* The plugin is gone: write() fails with EPIPE.
WriteFails(c) ==
  /\ pc[c] = "reply" /\ ~peer[c]
  /\ Return(c)
  /\ UNCHANGED <<up, plugin, stream, nread, request, reply, timeout, out>>

work_thread(c) ==
  \/ Read(c) \/ Eof(c) \/ ReadFails(c)
  \/ Check(c) \/ verify(c) \/ send_reply(c) \/ WriteFails(c)

Next ==
  \/ \E c \in Conn :
       \/ otp_connect(c) \/ verify_request(c) \/ otp_write(c) \/ disconnect(c)
       \/ accept(c) \/ work_thread(c)
  \/ Exit

Spec == Init /\ [][Next]_vars

\* The accept thread and the work threads are scheduled.
Fairness == \A c \in Conn : WF_vars(accept(c)) /\ WF_vars(work_thread(c))
FairSpec == Spec /\ Fairness
-----------------------------------------------------------------------------
(* Properties. *)

TypeOK ==
  /\ up \in BOOLEAN
  /\ sock \in [Conn -> {"none", "queued", "open", "closed"}]
  /\ peer \in [Conn -> BOOLEAN] /\ sending \in [Conn -> 0 .. 3]
  /\ pc \in [Conn -> {"none", "read", "check", "verify", "reply"}]
  /\ nread \in [Conn -> 0 .. 3]
  /\ timeout \in [Conn -> -Overrun .. Timeout]
  /\ \A c \in Conn :
       /\ Len(sent[c]) <= MaxRequests
       /\ request[c].id \in 0 .. Len(sent[c]) /\ request[c].last \in 0 .. Len(sent[c])
       /\ reply[c] \in {"ok", "auth_err"}

\* However the stream is cut into pieces and whatever versions it mixes, the
\* replies are those of the requests, one for each and in their order
\* (README.API, "Requests are handled serially per connnection"), and no
\* success answers a request that verify() never saw.
RepliesInOrder ==
  \A c \in Conn : \A i \in DOMAIN out[c] :
    /\ out[c][i].id = i
    /\ out[c][i].rc = "ok" => sent[c][i].kind = "valid"

\* A request is decided from its own pieces, its version and its contents coming
\* from the same request of the plugin, and with its own time: it does not pay
\* for what an earlier one has taken (work_thread.c:77, "save original timeout
\* as it gets modified as we make progress").
RequestsWhole ==
  \A c \in Conn :
    /\ pc[c] \in {"check", "verify", "reply"} =>
         /\ request[c].id = request[c].last
         /\ nread[c] = Length(sent[c][request[c].id].v)
    /\ pc[c] = "verify" => timeout[c] = Timeout

\* A request that is written in full is answered, or the connection ends.
RequestAnswered ==
  \A c \in Conn : \A i \in 1 .. MaxRequests :
    (sock[c] \in {"queued", "open"} /\ Len(sent[c]) = i /\ sending[c] = 0)
      ~> (Len(out[c]) >= i \/ sock[c] = "closed")

\* A plugin that is gone leaves no thread and no descriptor behind.
ThreadEnds ==
  \A c \in Conn : (sock[c] = "open" /\ ~peer[c]) ~> (pc[c] = "none" /\ sock[c] = "closed")
=============================================================================
