------------------------------- MODULE Resync -------------------------------
(***************************************************************************)
(* The 64-bit counter of a HOTP token, as the token, hotp_challenge()      *)
(* (cardops/hotp.c) and resynctool (resynctool.c) handle it.  A user       *)
(* presses the button of the token with and without logging in; when the   *)
(* server has lost track, two consecutive passcodes within the rwindow     *)
(* bring it back, or an administrator runs resynctool on two of them and   *)
(* installs the state it prints.                                           *)
(*                                                                         *)
(* A challenge is its two halves, as hotp_challenge() reads them.  Unlike  *)
(* in CardOps, different counters may have the same passcode: mac is the   *)
(* truncated MAC under the user's key.  Of the clock only what verify()    *)
(* compares it with is kept: the last attempt and the end of its delay.    *)
(***************************************************************************)
EXTENDS Integers

CONSTANTS
  Half,          \* 2^32
  Codes,         \* passcodes
  Macs,          \* passcode of each counter, under the keys considered
  Starts,        \* counters the state file may start with
  ewindow_size,
  rwindow_size,  \* of the user or, if that is 0, of the file
  hardfail, softfail,
  Spans,         \* values of -f +n
  DefSpan,       \* 65536
  MaxPresses     \* bound on the passcodes the token gives

Size == Half * Half
Counters == 0 .. Size - 1
SignBit == Half \div 2

ASSUME HalfAssumption == Half \in Nat \ {0} /\ Half % 2 = 0
ASSUME MacAssumption == Macs \subseteq [Counters -> Codes]
ASSUME RangeAssumption ==
  /\ Starts \subseteq Counters /\ Spans \subseteq Nat /\ DefSpan \in Nat
  /\ ewindow_size \in Nat /\ rwindow_size \in Nat /\ MaxPresses \in Nat
  /\ hardfail \in Nat /\ softfail \in Nat

VARIABLES
  mac,
  token,    \* counter of the next passcode of the token
  presses,  \* passcodes it has given
  stored,   \* challenge of the state file: the last one that was used
  failcount,
  rd,       \* rwindow candidate
  rc,       \* what verify() said last, "none" if nothing since
  pc, initial, final, counter, pass1, pass2,   \* resynctool
  out       \* the challenge resynctool has printed

tool == <<pc, initial, final, counter, pass1, pass2, out>>
state == <<stored, failcount, rd>>
vars == <<mac, token, presses, state, rc, tool>>

Challenge == [hi : 0 .. Half - 1, lo : 0 .. Half - 1]

\* c2c(), and the number the bytes stand for.
c2c(n) == [hi |-> n \div Half, lo |-> n % Half]
Number(ch) == ch.hi * Half + ch.lo

hotp(ch) == mac[Number(ch)]

\* The bytes of the low half are joined as an int.  With its highest bit set
\* it is negative, and OR-ing it in sets all bits of the high half.
hotp_challenge(ch) ==
  LET hi == IF ch.lo >= SignBit THEN Half - 1 ELSE ch.hi
  IN  c2c((Number([ch EXCEPT !.hi = hi]) + 1) % Size)

\* The challenges of the window, each computed from the one before.
WindowEnd == IF rwindow_size > 0 THEN rwindow_size ELSE ewindow_size
Window(ch) ==
  LET w[e \in 0 .. WindowEnd] == hotp_challenge(IF e = 0 THEN ch ELSE w[e - 1])
  IN  w

Succ(n, k) == (n + k) % Size

NoRd == -1

Init ==
  /\ mac \in Macs
  /\ \E n \in Starts : stored = c2c(n) /\ token = Succ(n, 1)
  /\ presses = 0 /\ rc = "none" /\ failcount = 0 /\ rd = NoRd
  /\ pc = "idle" /\ initial = 0 /\ final = 0 /\ counter = 0
  /\ pass1 = mac[0] /\ pass2 = mac[0] /\ out = c2c(0)

\* The token gives n passcodes.
Gives(n) ==
  /\ presses + n <= MaxPresses /\ presses' = presses + n
  /\ token' = Succ(token, n)
-----------------------------------------------------------------------------
(* The user. *)

\* The passcode is not used.
Press ==
  /\ pc = "idle" /\ Gives(1)
  /\ rc' = "none"
  /\ UNCHANGED <<mac, state, tool>>

\* When a request comes: no later than the second of the last attempt, before
\* the end of the delay that attempt has started, or after both.
Times == {"soon", "early", "late"}

Hard == hardfail > 0 /\ failcount >= hardfail
Soft(time) == softfail > 0 /\ failcount >= softfail /\ time # "late"

isconsecutive_same(e) == rd # NoRd /\ e = rd
isconsecutive(e) == rd # NoRd /\ e = rd + 1

\* A passcode that matches at position e.
Verdict_short(e, time) ==
  IF Hard THEN "MAXTRIES"
  ELSE IF isconsecutive(e) THEN IF time = "soon" THEN "NEXTPASSCODE" ELSE "OK"
  ELSE IF Soft(time) \/ e >= ewindow_size THEN "NEXTPASSCODE"
  ELSE "OK"
Verdict(e, time) ==
  IF Hard THEN "MAXTRIES"
  ELSE IF isconsecutive(e) THEN IF time = "soon" THEN "NEXTPASSCODE" ELSE "OK"
  ELSE IF Soft(time) \/ e > ewindow_size THEN "NEXTPASSCODE"
  ELSE "OK"

\* The window is searched from position 0, so the first match decides.
Match_last(hits, e) == e \in hits /\ \A d \in hits : e >= d
Match(hits, e) == e \in hits /\ \A d \in hits : e <= d

\* verify() on the next passcode of the token.  Failures leave the challenge
\* alone; one that matches makes its position the candidate.
Login(time) ==
  /\ pc \in {"idle", "installed"} /\ Gives(1)
  /\ LET w == Window(stored)
         hits == {e \in DOMAIN w : hotp(w[e]) = mac[token]}
     IN  \/ /\ hits = {} /\ rc' = "AUTH_ERR"
            /\ failcount' = failcount + 1
            /\ UNCHANGED <<stored, rd>>
         \/ \E e \in hits :
              /\ Match(hits, e) /\ rc' = Verdict(e, time)
              /\ IF rc' = "OK"
                 THEN stored' = w[e] /\ failcount' = 0 /\ rd' = NoRd
                 ELSE failcount' = failcount + 1 /\ rd' = e /\ UNCHANGED stored
  /\ pc' = "idle"
  /\ UNCHANGED <<mac, initial, final, counter, pass1, pass2, out>>
-----------------------------------------------------------------------------
(* resynctool. *)

\* -i or -c, and -f: a final counter of 0 stands for the default.
Range(i, f) ==
  /\ initial' = i /\ counter' = i
  /\ final' = IF f = 0 THEN Succ(i, DefSpan) ELSE f

\* The user reads two passcodes; the search starts at 0 or at the counter of
\* the state file.
Start ==
  /\ pc = "idle" /\ pc' = "search" /\ Gives(2)
  /\ pass1' = mac[token] /\ pass2' = mac[Succ(token, 1)]
  /\ \E i \in {0, Number(stored)} :
       \E f \in {0} \cup {Succ(i, n) : n \in Spans} : Range(i, f)
  /\ rc' = "none"
  /\ UNCHANGED <<mac, state, out>>

\* Passcodes of the wrong length, an unknown option or a bad key.
Usage ==
  /\ pc = "idle" /\ pc' = "usage"
  /\ UNCHANGED <<mac, token, presses, state, rc, initial, final, counter, pass1, pass2, out>>

\* One round of the search.  When the first passcode matches and the second
\* does not, the search goes on behind the second.
Search_first ==
  /\ pc = "search" /\ counter < final
  /\ LET first == hotp(c2c(counter)) = pass1
         next == Succ(counter, 1)
     IN  IF first /\ hotp(c2c(next)) = pass2
         THEN pc' = "found" /\ out' = c2c(counter) /\ UNCHANGED counter
         ELSE counter' = Succ(counter, IF first THEN 2 ELSE 1) /\ UNCHANGED <<pc, out>>
  /\ UNCHANGED <<mac, token, presses, state, rc, initial, final, pass1, pass2>>
Search_far ==
  /\ pc = "search" /\ counter < final
  /\ LET first == hotp(c2c(counter)) = pass1
         next == Succ(counter, 1)
     IN  IF first /\ hotp(c2c(next)) = pass2
         THEN pc' = "found" /\ out' = c2c(next) /\ counter' = next
         ELSE counter' = Succ(counter, 2) /\ UNCHANGED <<pc, out>>
  /\ UNCHANGED <<mac, token, presses, state, rc, initial, final, pass1, pass2>>
Search ==
  /\ pc = "search" /\ counter < final
  /\ LET first == hotp(c2c(counter)) = pass1
         next == Succ(counter, 1)
     IN  IF first /\ hotp(c2c(next)) = pass2
         THEN pc' = "found" /\ out' = c2c(next) /\ counter' = next
         ELSE counter' = Succ(counter, IF first THEN 2 ELSE 1) /\ UNCHANGED <<pc, out>>
  /\ UNCHANGED <<mac, token, presses, state, rc, initial, final, pass1, pass2>>

NotFound ==
  /\ pc = "search" /\ counter >= final /\ pc' = "notfound"
  /\ UNCHANGED <<mac, token, presses, state, rc, initial, final, counter, pass1, pass2, out>>

\* The administrator installs what was printed.
Install ==
  /\ pc = "found" /\ pc' = "installed"
  /\ stored' = out /\ failcount' = 0 /\ rd' = NoRd
  /\ UNCHANGED <<mac, token, presses, rc, initial, final, counter, pass1, pass2, out>>

Leave ==
  /\ pc \in {"usage", "notfound", "installed"} /\ pc' = "idle"
  /\ UNCHANGED <<mac, token, presses, state, rc, initial, final, counter, pass1, pass2, out>>

Next == Press \/ (\E time \in Times : Login(time)) \/ Start \/ Usage \/ Search \/ NotFound \/ Install \/ Leave

Spec == Init /\ [][Next]_vars
-----------------------------------------------------------------------------
(* Properties. *)

\* No counter between the stored one and the token's has a low half that
\* hotp_challenge() takes for a negative number.
Positive(from, to) == \A n \in from .. to : n % Half < SignBit

\* A user whose token is within the event window gets in, up to the first
\* counter with a low half of 2^31 (cardops/hotp.c:120, "just increment +1"),
\* if there is neither a hardfail nor a delay.  Earlier matches of the passcode
\* and a stale candidate make no difference, but for the limit of one attempt a
\* second on what looks consecutive.
InWindowAccepted ==
  [][\A time \in Times :
       /\ Login(time) /\ ~Hard /\ ~Soft(time) /\ time # "soon"
       /\ token \in Number(stored) + 1 .. Number(stored) + ewindow_size + 1
       /\ token <= Number(stored) + WindowEnd + 1
       /\ Positive(Number(stored), token - 1)
       => rc' = "OK"]_vars

\* The passcode of n is that of no other counter the server tries.
Unique(n) ==
  \A m \in Number(stored) + 1 .. Number(stored) + WindowEnd + 1 :
    m \in Counters /\ mac[m] = mac[n] => m = n

\* A passcode that was put off makes the next one good, in the rwindow and in
\* delay mode too, and brings the server to the token (otp.c:558, "user can
\* always resync with 2 consecutive correct auths").
TwoInARow ==
  [][\A time \in Times :
       /\ Login(time) /\ ~Hard /\ time # "soon" /\ rc = "NEXTPASSCODE"
       /\ token \in Number(stored) + 2 .. Number(stored) + WindowEnd + 1
       /\ Positive(Number(stored), token - 1)
       /\ Unique(token - 1) /\ Unique(token)
       => rc' = "OK" /\ stored' = c2c(token)]_vars

Pair(n) == mac[n] = pass1 /\ mac[Succ(n, 1)] = pass2

\* A user whose state was installed gets in with the next passcode, and the
\* server then is where the token is, unless the same two passcodes came
\* earlier in the search (resynctool.8.pod:51, "resynctool will output the state
\* data which will resync the user").  A search up to the last counter of all may
\* step over it and go on at 0.
Resyncs ==
  [][(\E time \in Times : Login(time)) /\ pc = "installed"
     /\ token >= 2 /\ out.lo < SignBit /\ final < Size - 1
     /\ (\A n \in initial .. final - 1 : Pair(n) => n = token - 2)
     => rc' = "OK" /\ stored' = c2c(token)]_vars

\* The tool fails only if the pair is not in the range, or if the passcode in
\* front of it is the first one of the pair too: "continuing search"
\* (resynctool.c:245) is behind both.
MissesOnlyRepeats ==
  pc = "notfound" =>
    \A n \in initial .. final - 1 :
      Pair(n) => n > initial /\ mac[n - 1] = pass1

\* The server does not get ahead of the token, where it would refuse the
\* passcodes to come: not by a login whose passcode occurs more than once in
\* the window (otp.c:544-546 takes the first), and by a state that is installed
\* only if the search has missed the right pair.
NeverAhead ==
  [][/\ Number(stored) < token
     /\ Positive(Number(stored), Number(stored) + WindowEnd)
     /\ pc = "found" =>
          /\ token - 2 \in initial .. final - 1
          /\ token - 2 > initial => mac[token - 3] # pass1
     => Number(stored') < token']_vars
=============================================================================
