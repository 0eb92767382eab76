---------------------------- MODULE ResyncProofs ----------------------------
(***************************************************************************)
(* Theorems about the counter of a HOTP token and resynctool, for every    *)
(* width of the counter, every window, every length of search and every    *)
(* key, passcodes that repeat included.                                    *)
(***************************************************************************)
EXTENDS Resync, TLAPS, WellFoundedInduction

(* Induction over the positions of a window goes through least elements. *)

Less == {p \in Nat \X Nat : p[1] < p[2]}

\* A set of numbers that is not empty has a least element.
LEMMA LeastElement ==
  ASSUME NEW T, T \subseteq Nat, T # {}
  PROVE  \E x \in T : \A y \in T : x <= y
<1>1. IsWellFoundedOn(Less, Nat)
  BY NatLessThanWellFounded DEF OpToRel, Less
<1>2. PICK x \in T : \A y \in T : ~(<<y, x>> \in Less)
  BY <1>1, WFMin
<1>3. \A y \in T : x <= y
  <2> SUFFICES ASSUME NEW y \in T PROVE x <= y
    OBVIOUS
  <2>1. x \in Nat /\ y \in Nat
    OBVIOUS
  <2>2. ~(y < x)
    BY <1>2, <2>1 DEF Less
  <2> QED
    BY <2>1, <2>2
<1> QED
  BY <1>3

\* A set of numbers that has 0 and with every number the next has them all.
LEMMA SetInduction ==
  ASSUME NEW S, 0 \in S, \A n \in Nat : n \in S => n + 1 \in S
  PROVE  \A n \in Nat : n \in S
<1> DEFINE T == Nat \ S
<1> SUFFICES ASSUME T # {} PROVE FALSE
  OBVIOUS
<1>1. PICK x \in T : \A y \in T : x <= y
  <2>1. T \subseteq Nat
    OBVIOUS
  <2> HIDE DEF T
  <2> QED
    BY <2>1, LeastElement
<1>2. x \in Nat /\ x # 0 /\ x - 1 \in Nat
  BY <1>1
<1>3. x - 1 \in S
  BY <1>1, <1>2
<1> QED
  BY <1>1, <1>2, <1>3
-----------------------------------------------------------------------------
(* Counters and challenges. *)

\* There are counters.
LEMMA SizeType == Size \in Nat /\ Size > 0 /\ Half \in Nat /\ Half > 0
  BY HalfAssumption DEF Size

\* The number a challenge stands for is a counter.
LEMMA NumberType == ASSUME NEW ch \in Challenge PROVE Number(ch) \in Counters
<1>1. ch.hi \in 0 .. Half - 1 /\ ch.lo \in 0 .. Half - 1
  BY DEF Challenge
<1>2. ASSUME NEW h \in Nat, h > 0, NEW a \in 0 .. h - 1, NEW b \in 0 .. h - 1
      PROVE  a * h + b \in 0 .. h * h - 1
  <2>1. a * h <= (h - 1) * h
    BY <1>2
  <2>2. (h - 1) * h = h * h - h
    BY <1>2
  <2>3. a * h \in Nat /\ h * h \in Nat
    BY <1>2
  <2> QED
    BY <1>2, <2>1, <2>2, <2>3
<1> QED
  BY <1>1, <1>2, SizeType DEF Number, Counters, Size

\* c2c() gives the challenge of a counter.
LEMMA C2cType ==
  ASSUME NEW n \in Counters
  PROVE  c2c(n) \in Challenge /\ Number(c2c(n)) = n /\ c2c(n).lo = n % Half
<1>1. n \in Nat /\ n < Half * Half
  BY SizeType DEF Counters, Size
<1>2. ASSUME NEW h \in Nat, h > 0, NEW k \in Nat, k < h * h
      PROVE  k \div h \in 0 .. h - 1 /\ k % h \in 0 .. h - 1 /\ (k \div h) * h + (k % h) = k
  BY <1>2
<1>3. n \div Half \in 0 .. Half - 1 /\ n % Half \in 0 .. Half - 1
      /\ (n \div Half) * Half + (n % Half) = n
  BY <1>1, <1>2, SizeType
<1> QED
  BY <1>3 DEF c2c, Challenge, Number

\* The next counter.
LEMMA SuccType ==
  ASSUME NEW n \in Nat, NEW k \in Nat
  PROVE  Succ(n, k) \in Counters /\ (n + k < Size => Succ(n, k) = n + k)
  BY SizeType DEF Succ, Counters

\* A counter's low half is what c2c() makes it.
LEMMA LowHalf ==
  ASSUME NEW ch \in Challenge PROVE Number(ch) % Half = ch.lo
<1>1. ch.hi \in 0 .. Half - 1 /\ ch.lo \in 0 .. Half - 1
  BY DEF Challenge
<1>2. ASSUME NEW h \in Nat, h > 0, NEW a \in 0 .. h - 1, NEW b \in 0 .. h - 1
      PROVE  (a * h + b) % h = b
  BY <1>2
<1> QED
  BY <1>1, <1>2, SizeType DEF Number

\* A challenge is that of its number.
LEMMA NumberBack ==
  ASSUME NEW ch \in Challenge PROVE c2c(Number(ch)) = ch
<1>1. ch.hi \in 0 .. Half - 1 /\ ch.lo \in 0 .. Half - 1
  BY DEF Challenge
<1>2. ASSUME NEW h \in Nat, h > 0, NEW a \in 0 .. h - 1, NEW b \in 0 .. h - 1
      PROVE  (a * h + b) \div h = a
  BY <1>2
<1>3. Number(ch) \div Half = ch.hi /\ Number(ch) % Half = ch.lo
  BY <1>1, <1>2, LowHalf, SizeType DEF Number
<1> QED
  BY <1>3 DEF c2c, Challenge

\* hotp_challenge() counts on, from a low half that is not negative.
LEMMA ChallengeType ==
  ASSUME NEW ch \in Challenge
  PROVE  /\ hotp_challenge(ch) \in Challenge
         /\ ch.lo < SignBit => hotp_challenge(ch) = c2c(Succ(Number(ch), 1))
<1> DEFINE hi == IF ch.lo >= SignBit THEN Half - 1 ELSE ch.hi
           x == [ch EXCEPT !.hi = hi]
<1>1. hi \in 0 .. Half - 1
  BY SizeType DEF Challenge
<1>2. x \in Challenge
  BY <1>1 DEF Challenge
<1>3. Number(x) \in Nat
  BY <1>2, NumberType, SizeType DEF Counters
<1>4. hotp_challenge(ch) = c2c(Succ(Number(x), 1))
  BY DEF hotp_challenge, Succ
<1>5. hotp_challenge(ch) \in Challenge
  BY <1>3, <1>4, SuccType, C2cType
<1>6. ch.lo < SignBit => x = ch
  <2>1. ch.lo \in Nat /\ SignBit \in Nat
    BY SizeType DEF Challenge, SignBit
  <2>2. ch.lo < SignBit => hi = ch.hi
    BY <2>1
  <2> HIDE DEF hi
  <2> QED
    BY <2>2 DEF Challenge
<1> HIDE DEF x
<1> QED
  BY <1>4, <1>5, <1>6
-----------------------------------------------------------------------------
(* The window. *)

LEMMA WindowEndType == WindowEnd \in Nat
  BY RangeAssumption DEF WindowEnd

\* w is the walk from ch over the positions up to n.
Walk(w, ch, n) == w = [e \in 0 .. n |-> hotp_challenge(IF e = 0 THEN ch ELSE w[e - 1])]

\* There is a walk of every length.
LEMMA WalkExists ==
  ASSUME NEW ch \in Challenge
  PROVE  \A n \in Nat : \E w \in [0 .. n -> Challenge] : Walk(w, ch, n)
<1> DEFINE S == {n \in Nat : \E w \in [0 .. n -> Challenge] : Walk(w, ch, n)}
<1>1. 0 \in S
  <2> DEFINE w == [e \in 0 .. 0 |-> hotp_challenge(ch)]
  <2>1. w \in [0 .. 0 -> Challenge]
    BY ChallengeType
  <2>2. Walk(w, ch, 0)
    BY DEF Walk
  <2> QED
    BY <2>1, <2>2
<1>2. ASSUME NEW n \in Nat, n \in S PROVE n + 1 \in S
  <2>1. PICK w \in [0 .. n -> Challenge] : Walk(w, ch, n)
    BY <1>2
  <2> DEFINE v == [e \in 0 .. n + 1 |-> IF e <= n THEN w[e] ELSE hotp_challenge(w[n])]
  <2>2. w[n] \in Challenge
    OBVIOUS
  <2>3. v \in [0 .. n + 1 -> Challenge]
    BY <2>2, ChallengeType
  <2>4. ASSUME NEW e \in 0 .. n + 1
        PROVE  v[e] = hotp_challenge(IF e = 0 THEN ch ELSE v[e - 1])
    <3>1. CASE e = 0
      BY <2>1, <3>1 DEF Walk
    <3>2. CASE e \in 1 .. n
      <4>1. v[e] = w[e] /\ v[e - 1] = w[e - 1]
        BY <3>2
      <4>2. w[e] = hotp_challenge(w[e - 1])
        BY <2>1, <3>2 DEF Walk
      <4> QED
        BY <3>2, <4>1, <4>2
    <3>3. CASE e = n + 1
      <4>1. v[e] = hotp_challenge(w[n]) /\ v[e - 1] = w[n] /\ e # 0
        BY <3>3
      <4> QED
        BY <4>1
    <3> QED
      BY <3>1, <3>2, <3>3
  <2>5. Walk(v, ch, n + 1)
    BY <2>4 DEF Walk
  <2> HIDE DEF v
  <2> QED
    BY <2>3, <2>5
<1> HIDE DEF S
<1>3. \A n \in Nat : n \in S
  BY <1>1, <1>2, SetInduction
<1> QED
  BY <1>3 DEF S

\* Two walks from the same challenge are the same; so the window is the walk.
LEMMA WindowWalk ==
  ASSUME NEW ch \in Challenge
  PROVE  /\ Walk(Window(ch), ch, WindowEnd)
         /\ Window(ch) \in [0 .. WindowEnd -> Challenge]
<1>1. PICK w \in [0 .. WindowEnd -> Challenge] : Walk(w, ch, WindowEnd)
  BY WalkExists, WindowEndType
<1>2. Walk(Window(ch), ch, WindowEnd)
  BY <1>1, Zenon DEF Walk, Window
<1> DEFINE v == Window(ch)
           S == {n \in Nat : n <= WindowEnd => v[n] \in Challenge}
<1>3. v = [e \in 0 .. WindowEnd |-> hotp_challenge(IF e = 0 THEN ch ELSE v[e - 1])]
  BY <1>2 DEF Walk
<1> HIDE DEF v
<1>4. 0 \in S
  BY <1>3, WindowEndType, ChallengeType
<1>5. ASSUME NEW n \in Nat, n \in S PROVE n + 1 \in S
  <2> SUFFICES ASSUME n + 1 <= WindowEnd PROVE v[n + 1] \in Challenge
    OBVIOUS
  <2>1. v[n] \in Challenge
    BY <1>5, WindowEndType
  <2>2. v[n + 1] = hotp_challenge(v[n])
    BY <1>3, WindowEndType
  <2> QED
    BY <2>1, <2>2, ChallengeType
<1> HIDE DEF S
<1>6. \A n \in Nat : n \in S
  BY <1>4, <1>5, SetInduction
<1>7. v \in [0 .. WindowEnd -> Challenge]
  <2>1. \A n \in 0 .. WindowEnd : v[n] \in Challenge
    BY <1>6, WindowEndType DEF S
  <2>2. DOMAIN v = 0 .. WindowEnd /\ v = [n \in 0 .. WindowEnd |-> v[n]]
    BY <1>3
  <2> QED
    BY <2>1, <2>2
<1> QED
  BY <1>2, <1>7 DEF v

\* As long as no low half is negative, the window holds the counters that
\* follow.
LEMMA WindowCounts ==
  ASSUME NEW ch \in Challenge, NEW d \in 0 .. WindowEnd, Number(ch) + d + 1 < Size,
         Positive(Number(ch), Number(ch) + d)
  PROVE  \A e \in 0 .. d : Number(Window(ch)[e]) = Number(ch) + e + 1
<1> DEFINE v == Window(ch)
           c == Number(ch)
           S == {n \in Nat : n <= d => Number(v[n]) = c + n + 1}
<1>1. /\ \A e \in 0 .. WindowEnd : v[e] \in Challenge
      /\ v[0] = hotp_challenge(ch)
      /\ \A e \in 1 .. WindowEnd : v[e] = hotp_challenge(v[e - 1])
  <2>1. Walk(v, ch, WindowEnd) /\ v \in [0 .. WindowEnd -> Challenge]
    BY WindowWalk
  <2> HIDE DEF v
  <2>2. v = [e \in 0 .. WindowEnd |-> hotp_challenge(IF e = 0 THEN ch ELSE v[e - 1])]
    BY <2>1 DEF Walk
  <2>3. \A e \in 0 .. WindowEnd : v[e] = hotp_challenge(IF e = 0 THEN ch ELSE v[e - 1])
    BY <2>2
  <2> QED
    BY <2>1, <2>3, WindowEndType
<1>2. c \in Nat /\ WindowEnd \in Nat /\ d \in Nat /\ d <= WindowEnd /\ Size \in Nat
  BY NumberType, WindowEndType, SizeType DEF Counters
<1>3. ASSUME NEW x \in Challenge, NEW n \in Nat, n <= d, Number(x) = c + n
      PROVE  Number(hotp_challenge(x)) = c + n + 1
  <2>1. x.lo < SignBit
    BY <1>2, <1>3, LowHalf DEF Positive
  <2>2. Succ(Number(x), 1) = c + n + 1 /\ c + n + 1 \in Counters
    <3>1. c + d + 1 < Size
      OBVIOUS
    <3> HIDE DEF c
    <3>2. c + n \in Nat /\ (c + n) + 1 < Size
      BY <1>2, <1>3, <3>1
    <3>3. Succ(c + n, 1) = (c + n) + 1
      BY <3>2, SuccType
    <3> QED
      BY <1>2, <1>3, <3>2, <3>3 DEF Counters
  <2> QED
    BY <2>1, <2>2, ChallengeType, C2cType
<1> HIDE DEF v, c
<1>4. 0 \in S
  BY <1>1, <1>2, <1>3 DEF c
<1>5. ASSUME NEW n \in Nat, n \in S PROVE n + 1 \in S
  <2> SUFFICES ASSUME n + 1 <= d PROVE Number(v[n + 1]) = c + (n + 1) + 1
    OBVIOUS
  <2>1. Number(v[n]) = c + (n + 1) /\ v[n] \in Challenge
    BY <1>1, <1>2, <1>5
  <2>2. v[n + 1] = hotp_challenge(v[n])
    BY <1>1, <1>2
  <2> QED
    BY <1>3, <2>1, <2>2
<1> HIDE DEF S
<1>6. \A n \in Nat : n \in S
  BY <1>4, <1>5, SetInduction
<1> QED
  BY <1>2, <1>6 DEF S, v, c
-----------------------------------------------------------------------------
(* Types. *)

PCs == {"idle", "search", "usage", "found", "notfound", "installed"}

TypeInv ==
  /\ mac \in [Counters -> Codes]
  /\ token \in Counters /\ presses \in Nat /\ stored \in Challenge
  /\ failcount \in Nat /\ rd \in Nat \cup {NoRd}
  /\ pc \in PCs
  /\ initial \in Counters /\ final \in Counters /\ counter \in Counters
  /\ out \in Challenge

\* The positions of the window that have the passcode of counter t.
Hits(t) == {e \in 0 .. WindowEnd : mac[Number(Window(stored)[e])] = mac[t]}

\* A login goes by the least position of the window with the token's passcode.
LEMMA LoginFinds ==
  ASSUME TypeInv, NEW time \in Times, Login(time)
  PROVE  \/ /\ Hits(token) = {} /\ rc' = "AUTH_ERR" /\ failcount' = failcount + 1
            /\ stored' = stored /\ rd' = rd
         \/ \E e \in Hits(token) :
              /\ Match(Hits(token), e) /\ rc' = Verdict(e, time)
              /\ rc' = "OK" => stored' = Window(stored)[e] /\ failcount' = 0 /\ rd' = NoRd
              /\ rc' # "OK" => stored' = stored /\ failcount' = failcount + 1 /\ rd' = e
<1> DEFINE w == Window(stored)
           hits == {e \in DOMAIN w : hotp(w[e]) = mac[token]}
<1>1. DOMAIN w = 0 .. WindowEnd
  <2>1. w \in [0 .. WindowEnd -> Challenge]
    BY WindowWalk DEF TypeInv
  <2> HIDE DEF w
  <2> QED
    BY <2>1
<1>2. hits = Hits(token)
  BY <1>1, Zenon DEF hotp, Hits
<1>3. \/ /\ hits = {} /\ rc' = "AUTH_ERR" /\ failcount' = failcount + 1
         /\ UNCHANGED <<stored, rd>>
      \/ \E e \in hits :
           /\ Match(hits, e) /\ rc' = Verdict(e, time)
           /\ IF rc' = "OK"
              THEN stored' = w[e] /\ failcount' = 0 /\ rd' = NoRd
              ELSE failcount' = failcount + 1 /\ rd' = e /\ UNCHANGED stored
  BY Zenon DEF Login
<1> HIDE DEF hits
<1> QED
  BY <1>2, <1>3, Zenon

LEMMA TypeInit == Init => TypeInv
<1> SUFFICES ASSUME Init PROVE TypeInv
  OBVIOUS
<1>1. PICK n \in Starts : stored = c2c(n) /\ token = Succ(n, 1)
  BY DEF Init
<1>2. n \in Counters /\ 0 \in Counters
  BY RangeAssumption, SizeType DEF Counters
<1>3. n \in Nat
  BY <1>2, SizeType DEF Counters
<1>4. stored \in Challenge /\ token \in Counters /\ c2c(0) \in Challenge
  BY <1>1, <1>2, <1>3, C2cType, SuccType
<1> QED
  BY <1>2, <1>4, MacAssumption DEF Init, TypeInv, PCs

\* The token counts on.
LEMMA GivesType ==
  ASSUME TypeInv, NEW n \in Nat, Gives(n)
  PROVE  token' \in Counters /\ presses' \in Nat
<1>1. token \in Nat
  BY SizeType DEF TypeInv, Counters
<1> QED
  BY <1>1, SuccType DEF Gives, TypeInv

LEMMA TypeNext == TypeInv /\ [Next]_vars => TypeInv'
<1> SUFFICES ASSUME TypeInv, [Next]_vars PROVE TypeInv'
  OBVIOUS
<1> USE DEF PCs
<1>0. \A n \in Counters : n \in Nat
  BY SizeType DEF Counters
<1>1. CASE Press
  BY <1>1, GivesType DEF Press, TypeInv, tool, state
<1>2. ASSUME NEW time \in Times, Login(time) PROVE TypeInv'
  <2>1. \A e \in 0 .. WindowEnd : Window(stored)[e] \in Challenge /\ e \in Nat
    BY WindowWalk, WindowEndType DEF TypeInv
  <2>2. stored' \in Challenge /\ failcount' \in Nat /\ rd' \in Nat \cup {NoRd}
    <3>1. failcount + 1 \in Nat /\ 0 \in Nat /\ stored \in Challenge /\ rd \in Nat \cup {NoRd}
      BY DEF TypeInv
    <3>2. CASE stored' = stored /\ rd' = rd /\ failcount' = failcount + 1
      BY <3>1, <3>2
    <3>3. ASSUME NEW e \in Hits(token),
                 rc' = "OK" => stored' = Window(stored)[e] /\ failcount' = 0 /\ rd' = NoRd,
                 rc' # "OK" => stored' = stored /\ failcount' = failcount + 1 /\ rd' = e
          PROVE  stored' \in Challenge /\ failcount' \in Nat /\ rd' \in Nat \cup {NoRd}
      <4>1. e \in 0 .. WindowEnd
        BY DEF Hits
      <4> QED
        BY <2>1, <3>1, <3>3, <4>1
    <3> QED
      BY <1>2, <3>2, <3>3, LoginFinds, Zenon
  <2>3. Gives(1) /\ pc' = "idle" /\ UNCHANGED <<mac, initial, final, counter, out>>
    BY <1>2 DEF Login
  <2> QED
    BY <2>2, <2>3, GivesType DEF TypeInv
<1>3. CASE Start
  <2>0. PICK i \in {0, Number(stored)} :
          \E f \in {0} \cup {Succ(i, n) : n \in Spans} : Range(i, f)
    BY <1>3 DEF Start
  <2>1. PICK f \in {0} \cup {Succ(i, n) : n \in Spans} : Range(i, f)
    BY <2>0
  <2>2. i \in Counters /\ 0 \in Counters
    BY NumberType, SizeType DEF TypeInv, Counters
  <2>3. f \in Counters
    BY <1>0, <2>1, <2>2, SuccType, RangeAssumption
  <2>4. Succ(i, DefSpan) \in Counters
    BY <1>0, <2>2, SuccType, RangeAssumption
  <2>5. initial' \in Counters /\ counter' \in Counters /\ final' \in Counters
    BY <2>1, <2>2, <2>3, <2>4 DEF Range
  <2>6. token' \in Counters /\ presses' \in Nat
    BY <1>3, GivesType DEF Start
  <2> QED
    BY <1>3, <2>5, <2>6 DEF Start, TypeInv, state
<1>4. CASE Search
  <2>1. Succ(counter, 1) \in Counters /\ Succ(counter, 2) \in Counters
    BY <1>0, SuccType DEF TypeInv
  <2>2. c2c(Succ(counter, 1)) \in Challenge
    BY <2>1, C2cType
  <2>3. counter' \in Counters /\ out' \in Challenge /\ pc' \in PCs
    BY <1>4, <2>1, <2>2 DEF Search, TypeInv
  <2> QED
    BY <1>4, <2>3 DEF Search, TypeInv, state
<1>5. CASE Usage \/ NotFound \/ Install \/ Leave
  BY <1>5 DEF Usage, NotFound, Install, Leave, TypeInv, state
<1>6. CASE UNCHANGED vars
  BY <1>6 DEF vars, tool, state, TypeInv
<1> QED
  BY <1>1, <1>2, <1>3, <1>4, <1>5, <1>6 DEF Next

\* Where no low half is negative, the counters up to the token's are at the
\* positions that follow the stored one.
LEMMA TokenInWindow ==
  ASSUME TypeInv,
         token \in Number(stored) + 1 .. Number(stored) + WindowEnd + 1,
         Positive(Number(stored), token - 1)
  PROVE  LET d == token - Number(stored) - 1
         IN  /\ d \in 0 .. WindowEnd
             /\ \A e \in 0 .. d : /\ Number(Window(stored)[e]) = Number(stored) + e + 1
                                  /\ e \in 0 .. WindowEnd
<1> DEFINE d == token - Number(stored) - 1
<1>1. Number(stored) \in Nat /\ token \in Nat /\ token < Size /\ Size \in Nat
  BY NumberType, SizeType DEF TypeInv, Counters
<1>2. /\ d \in 0 .. WindowEnd /\ Number(stored) + d + 1 = token
      /\ Number(stored) + d = token - 1
  BY <1>1, WindowEndType
<1> HIDE DEF d
<1>3. stored \in Challenge
  BY DEF TypeInv
<1>4. \A e \in 0 .. d : Number(Window(stored)[e]) = Number(stored) + e + 1
  BY <1>1, <1>2, <1>3, WindowCounts
<1>5. \A e \in 0 .. d : e \in 0 .. WindowEnd
  BY <1>2, WindowEndType
<1> QED
  BY <1>2, <1>4, <1>5 DEF d

\* A user whose token is within the event window and who is neither in hardfail
\* nor delayed gets in: for every window, every key and every position of the
\* counter, whatever candidate is stored, as long as none of the low halves in
\* between is taken for a negative number (cardops/hotp.c:95-127).
THEOREM WindowAccepts == Spec => InWindowAccepted
<1> DEFINE Accepts ==
      \A time \in Times :
        /\ Login(time) /\ ~Hard /\ ~Soft(time) /\ time # "soon"
        /\ token \in Number(stored) + 1 .. Number(stored) + ewindow_size + 1
        /\ token <= Number(stored) + WindowEnd + 1
        /\ Positive(Number(stored), token - 1)
        => rc' = "OK"
<1>1. TypeInv => Accepts
  <2> SUFFICES ASSUME TypeInv, NEW time \in Times, Login(time), ~Hard, ~Soft(time),
                      time # "soon",
                      token \in Number(stored) + 1 .. Number(stored) + ewindow_size + 1,
                      token <= Number(stored) + WindowEnd + 1,
                      Positive(Number(stored), token - 1)
               PROVE  rc' = "OK"
    OBVIOUS
  <2> DEFINE d == token - Number(stored) - 1
  <2>1. /\ Number(stored) \in Nat /\ token \in Nat /\ WindowEnd \in Nat
        /\ ewindow_size \in Nat
    BY NumberType, SizeType, WindowEndType, RangeAssumption DEF TypeInv, Counters
  <2>2. token \in Number(stored) + 1 .. Number(stored) + WindowEnd + 1
        /\ d \in Nat /\ d <= ewindow_size /\ Number(stored) + d + 1 = token
    BY <2>1
  <2>3. d \in Hits(token)
    BY <2>2, TokenInWindow DEF Hits
  <2> HIDE DEF d
  <2>4. PICK e \in Hits(token) : Match(Hits(token), e) /\ rc' = Verdict(e, time)
    BY <2>3, LoginFinds
  <2>5. e <= d /\ e \in Nat
    BY <2>1, <2>3, <2>4 DEF Match, Hits
  <2>6. ~(e > ewindow_size)
    BY <2>1, <2>2, <2>5
  <2> QED
    BY <2>4, <2>6 DEF Verdict
<1> QED
  BY <1>1, TypeInit, TypeNext, PTL DEF Spec, InWindowAccepted
-----------------------------------------------------------------------------
(* Two consecutive passcodes. *)

\* After NEXTPASSCODE the candidate is where the passcode before the token's
\* next one was found.
Noted ==
  /\ rc = "NEXTPASSCODE" =>
       \E t \in Counters : token = Succ(t, 1) /\ Match(Hits(t), rd)
  /\ pc \in {"search", "found", "installed"} => rc = "none"

LEMMA NotedNext == TypeInv /\ Noted /\ [Next]_vars => Noted'
<1> SUFFICES ASSUME TypeInv, Noted, [Next]_vars PROVE Noted'
  OBVIOUS
<1>1. CASE Press
  BY <1>1 DEF Press, tool, Noted
<1>2. ASSUME NEW time \in Times, Login(time) PROVE Noted'
  <2>1. pc' = "idle" /\ token' = Succ(token, 1) /\ mac' = mac /\ token \in Counters
    BY <1>2 DEF Login, Gives, TypeInv
  <2>2. ASSUME rc' = "NEXTPASSCODE"
        PROVE  Match(Hits(token), rd') /\ stored' = stored
    BY <1>2, <2>2, LoginFinds
  <2> QED
    BY <2>1, <2>2 DEF Noted, Hits
<1>3. CASE Start
  BY <1>3 DEF Start, Noted
<1>4. CASE Install
  BY <1>4 DEF Install, Noted
<1>5. CASE Usage \/ Search \/ NotFound \/ Leave \/ UNCHANGED vars
  <2>1. UNCHANGED <<mac, token, stored, rd, rc>>
    BY <1>5 DEF Usage, Search, NotFound, Leave, vars, state
  <2>2. pc' \in {"search", "found", "installed"} => pc \in {"search", "found", "installed"}
    BY <1>5 DEF Usage, Search, NotFound, Leave, vars, tool
  <2> QED
    BY <2>1, <2>2 DEF Noted, Hits
<1> QED
  BY <1>1, <1>2, <1>3, <1>4, <1>5 DEF Next

\* After a passcode that was put off, the next one brings the user in and the
\* server to the token, in delay mode too and for every rwindow, unless passcodes
\* repeat in the window (otp.c:557-587).
THEOREM ConsecutiveResyncs == Spec => TwoInARow
<1> DEFINE Brings ==
      \A time \in Times :
        /\ Login(time) /\ ~Hard /\ time # "soon" /\ rc = "NEXTPASSCODE"
        /\ token \in Number(stored) + 2 .. Number(stored) + WindowEnd + 1
        /\ Positive(Number(stored), token - 1)
        /\ Unique(token - 1) /\ Unique(token)
        => rc' = "OK" /\ stored' = c2c(token)
<1>1. TypeInv /\ Noted => Brings
  <2> SUFFICES ASSUME TypeInv, Noted, NEW time \in Times, Login(time), ~Hard,
                      time # "soon", rc = "NEXTPASSCODE",
                      token \in Number(stored) + 2 .. Number(stored) + WindowEnd + 1,
                      Positive(Number(stored), token - 1),
                      Unique(token - 1), Unique(token)
               PROVE  rc' = "OK" /\ stored' = c2c(token)
    OBVIOUS
  <2> DEFINE c == Number(stored)
             d == token - c - 1
  <2>1. c \in Nat /\ token \in Nat /\ WindowEnd \in Nat /\ token < Size /\ Size \in Nat
    BY NumberType, SizeType, WindowEndType DEF TypeInv, Counters
  <2>2. /\ d \in 1 .. WindowEnd /\ d - 1 \in 0 .. d /\ d \in 0 .. d
        /\ c + d + 1 = token /\ c + (d - 1) + 1 = token - 1
    BY <2>1
  <2>3. \A e \in 0 .. d : /\ Number(Window(stored)[e]) = c + e + 1
                          /\ e \in 0 .. WindowEnd
    BY <2>1, TokenInWindow
  <2> HIDE DEF c, d
  <2>4. \A t \in {token - 1, token}, e \in 0 .. d : e \in Hits(t) => c + e + 1 = t
    <3> SUFFICES ASSUME NEW t \in {token - 1, token}, NEW e \in 0 .. d, e \in Hits(t)
                 PROVE  c + e + 1 = t
      OBVIOUS
    <3>1. mac[c + e + 1] = mac[t] /\ Unique(t)
      BY <2>3 DEF Hits
    <3>2. c + e + 1 \in c + 1 .. c + WindowEnd + 1 /\ c + e + 1 \in Counters
      BY <2>1, <2>2 DEF Counters
    <3> QED
      BY <3>1, <3>2 DEF Unique, c
  <2>5. d - 1 \in Hits(token - 1) /\ d \in Hits(token)
    BY <2>2, <2>3 DEF Hits
  <2>6. rd = d - 1
    <3>1. PICK t \in Counters : token = Succ(t, 1) /\ Match(Hits(t), rd)
      BY DEF Noted
    <3>2. t = token - 1
      <4>1. t \in Nat /\ t < Size /\ token # 0
        BY <2>1, <2>2, SizeType DEF Counters
      <4>2. CASE t + 1 < Size
        BY <3>1, <4>1, <4>2, SuccType
      <4>3. CASE t + 1 = Size
        BY <2>1, <3>1, <4>1, <4>3 DEF Succ
      <4> QED
        BY <2>1, <4>1, <4>2, <4>3
    <3>3. rd \in Hits(token - 1) /\ rd <= d - 1
      BY <2>5, <3>1, <3>2 DEF Match
    <3>4. rd \in 0 .. d
      BY <2>1, <2>2, <3>3 DEF Hits
    <3>5. c + rd + 1 = token - 1
      BY <2>4, <3>3, <3>4
    <3> QED
      BY <2>1, <2>2, <3>4, <3>5
  <2>7. PICK e \in Hits(token) :
          /\ Match(Hits(token), e) /\ rc' = Verdict(e, time)
          /\ rc' = "OK" => stored' = Window(stored)[e]
    BY <2>5, LoginFinds
  <2>8. e = d
    <3>1. e \in 0 .. d
      BY <2>1, <2>2, <2>5, <2>7 DEF Match, Hits
    <3> QED
      BY <2>1, <2>2, <2>4, <2>7, <3>1
  <2>9. isconsecutive(e)
    BY <2>2, <2>6, <2>8 DEF isconsecutive, NoRd
  <2>10. rc' = "OK" /\ stored' = Window(stored)[d]
    BY <2>7, <2>8, <2>9 DEF Verdict
  <2>11. Window(stored)[d] \in Challenge
    BY <2>2, <2>3, WindowWalk DEF TypeInv
  <2>12. Number(Window(stored)[d]) = token
    BY <2>2, <2>3
  <2> QED
    BY <2>10, <2>11, <2>12, NumberBack
<1>2. Init => Noted
  BY DEF Init, Noted
<1> QED
  BY <1>1, <1>2, NotedNext, TypeInit, TypeNext, PTL DEF Spec, TwoInARow
-----------------------------------------------------------------------------
(* The search. *)

\* The pair at n, if there is one, is behind a passcode equal to its first.
Behind(n) == Pair(n) => n > initial /\ mac[n - 1] = pass1
Clear(k) == \A n \in initial .. k - 1 : Behind(n)

\* A search has passed over nothing else, or has been through its whole range
\* before it went on at 0.  What it has found is a pair, which an installed
\* state is right behind.
SearchInv ==
  /\ pc = "search" => Clear(final) \/ (initial <= counter /\ Clear(counter))
  /\ pc = "search" /\ final < Size - 1 => initial <= counter
  /\ pc = "notfound" => Clear(final)
  /\ pc \in {"found", "installed"} =>
       /\ out = c2c(counter) /\ counter > 0 /\ Pair(counter - 1)
       /\ final < Size - 1 => counter - 1 \in initial .. final - 1
  /\ pc = "installed" => stored = out /\ failcount = 0 /\ rd = NoRd

\* One round of the search.
LEMMA SearchRound ==
  ASSUME TypeInv, Search
  PROVE  /\ counter < final /\ counter + 1 \in Counters /\ Succ(counter, 1) = counter + 1
         /\ UNCHANGED <<mac, token, presses, stored, initial, final, pass1, pass2>>
         /\ \/ /\ Pair(counter) /\ pc' = "found"
               /\ counter' = counter + 1 /\ out' = c2c(counter + 1)
            \/ /\ mac[counter] # pass1 /\ pc' = "search"
               /\ counter' = counter + 1 /\ out' = out
            \/ /\ mac[counter] = pass1 /\ ~Pair(counter) /\ pc' = "search"
               /\ counter' = Succ(counter, 2) /\ out' = out
<1>1. counter \in Nat /\ final \in Nat /\ final < Size /\ Size \in Nat /\ counter < final
  BY SizeType DEF TypeInv, Counters, Search
<1>2. counter + 1 \in Counters /\ Succ(counter, 1) = counter + 1
  BY <1>1, SuccType DEF Counters
<1>3. hotp(c2c(counter)) = mac[counter] /\ hotp(c2c(counter + 1)) = mac[counter + 1]
  BY <1>2, C2cType DEF hotp, TypeInv
<1> QED
  BY <1>1, <1>2, <1>3 DEF Search, Pair, state

\* A round of the search keeps the invariant.
LEMMA SearchKeeps ==
  ASSUME TypeInv, SearchInv, Search PROVE SearchInv'
<1>1. /\ counter \in Nat /\ final \in Nat /\ initial \in Nat /\ final < Size /\ Size \in Nat
      /\ counter < final /\ pc = "search" /\ Succ(counter, 1) = counter + 1
      /\ UNCHANGED <<mac, stored, initial, final, pass1, pass2>>
  BY SearchRound, SizeType DEF TypeInv, Counters, Search
<1>2. \A n : /\ (Behind(n)' <=> Behind(n)) /\ (Pair(n)' <=> Pair(n))
  BY <1>1 DEF Behind, Pair
<1>3. \A k : Clear(k)' <=> Clear(k)
  BY <1>1, <1>2 DEF Clear
<1>4. (initial <= counter /\ Clear(counter)) \/ Clear(final)
  BY <1>1 DEF SearchInv
<1>5. CASE /\ Pair(counter) /\ pc' = "found"
           /\ counter' = counter + 1 /\ out' = c2c(counter + 1)
  <2>1. final < Size - 1 => counter \in initial .. final - 1
    BY <1>1 DEF SearchInv
  <2>2. counter' - 1 = counter /\ counter' > 0
    BY <1>1, <1>5
  <2>4. /\ out' = c2c(counter') /\ counter' > 0 /\ mac'[counter' - 1] = pass1'
        /\ mac'[Succ(counter' - 1, 1)] = pass2'
        /\ final' < Size - 1 => counter' - 1 \in initial' .. final' - 1
    BY <1>1, <1>5, <2>1, <2>2 DEF Pair
  <2> QED
    BY <1>5, <2>4 DEF SearchInv, Pair
<1>6. CASE /\ mac[counter] # pass1 /\ pc' = "search" /\ counter' = counter + 1
  <2>1. Behind(counter)
    BY <1>6 DEF Behind, Pair
  <2>2. ASSUME initial <= counter, Clear(counter) PROVE Clear(counter + 1)
    <3> SUFFICES ASSUME NEW n \in initial .. counter PROVE Behind(n)
      BY <1>1 DEF Clear
    <3>1. n = counter \/ n \in initial .. counter - 1
      BY <1>1
    <3> QED
      BY <2>1, <2>2, <3>1 DEF Clear
  <2>3. initial <= counter => initial <= counter + 1
    BY <1>1
  <2>4. Clear(final)' \/ (initial' <= counter' /\ Clear(counter'))
    BY <1>1, <1>3, <1>4, <1>6, <2>2, <2>3
  <2>6. pc' = "search" => Clear(final)' \/ (initial' <= counter' /\ Clear(counter)')
    BY <1>1, <1>2, <1>6, <2>4 DEF Clear
  <2> QED
    BY <1>1, <1>6, <2>3, <2>6 DEF SearchInv
<1>7. CASE /\ mac[counter] = pass1 /\ ~Pair(counter) /\ pc' = "search"
           /\ counter' = Succ(counter, 2)
  <2>1. Behind(counter)
    BY <1>7 DEF Behind
  <2>2. initial <= counter => Behind(counter + 1)
    <3>1. initial <= counter => counter + 1 > initial /\ (counter + 1) - 1 = counter
      BY <1>1
    <3> QED
      BY <1>7, <3>1 DEF Behind
  <2>3. CASE counter + 2 < Size
    <3>1. counter' = counter + 2
      BY <1>1, <1>7, <2>3, SuccType
    <3>2. ASSUME initial <= counter, Clear(counter) PROVE Clear(counter + 2)
      <4> SUFFICES ASSUME NEW n \in initial .. counter + 1 PROVE Behind(n)
        BY <1>1 DEF Clear
      <4>1. n = counter + 1 \/ n = counter \/ n \in initial .. counter - 1
        BY <1>1
      <4> QED
        BY <2>1, <2>2, <3>2, <4>1 DEF Clear
    <3>3. initial <= counter => initial <= counter + 2
      BY <1>1
    <3>4. Clear(final)' \/ (initial' <= counter' /\ Clear(counter)')
      BY <1>1, <1>2, <1>4, <3>1, <3>2, <3>3 DEF Clear
    <3> QED
      BY <1>1, <1>7, <3>1, <3>3, <3>4 DEF SearchInv
  <2>4. CASE counter + 2 >= Size
    <3>1. final = counter + 1 /\ ~(final < Size - 1)
      BY <1>1, <2>4
    <3>2. ASSUME initial <= counter, Clear(counter) PROVE Clear(final)
      <4> SUFFICES ASSUME NEW n \in initial .. counter PROVE Behind(n)
        BY <1>1, <3>1 DEF Clear
      <4>1. n = counter \/ n \in initial .. counter - 1
        BY <1>1
      <4> QED
        BY <2>1, <3>2, <4>1 DEF Clear
    <3>3. Clear(final)'
      BY <1>1, <1>2, <1>4, <3>2 DEF Clear
    <3> QED
      BY <1>1, <1>7, <3>1, <3>3 DEF SearchInv
  <2> QED
    BY <1>1, <2>3, <2>4
<1> QED
  BY <1>5, <1>6, <1>7, SearchRound

LEMMA SearchNext == TypeInv /\ SearchInv /\ [Next]_vars => SearchInv'
<1> SUFFICES ASSUME TypeInv, SearchInv, [Next]_vars PROVE SearchInv'
  OBVIOUS
<1>1. CASE Press \/ (\E time \in Times : Login(time)) \/ Usage
  <2>1. pc' \notin {"search", "notfound", "found", "installed"}
    BY <1>1 DEF Press, Login, Usage, tool
  <2> QED
    BY <2>1 DEF SearchInv
<1>2. CASE Start
  <2>0. pc' = "search" /\ \E i \in {0, Number(stored)} : initial' = i /\ counter' = i
    BY <1>2 DEF Start, Range
  <2>1. PICK i \in Nat : initial' = i /\ counter' = i
    BY <2>0, NumberType, SizeType DEF TypeInv, Counters
  <2>2. \A n \in i .. i - 1 : FALSE
    OBVIOUS
  <2>3. initial' <= counter' /\ Clear(counter)'
    BY <2>1, <2>2 DEF Clear
  <2> QED
    BY <2>0, <2>3 DEF SearchInv
<1>3. CASE Search
  BY <1>3, SearchKeeps
<1>4. CASE NotFound
  <2>1. /\ counter >= final /\ pc = "search" /\ pc' = "notfound"
        /\ UNCHANGED <<mac, initial, final, counter, pass1, pass2>>
    BY <1>4 DEF NotFound
  <2>2. counter \in Nat /\ final \in Nat /\ initial \in Nat
    BY SizeType DEF TypeInv, Counters
  <2>3. Clear(final)
    <3>1. Clear(counter) => Clear(final)
      BY <2>1, <2>2 DEF Clear
    <3> QED
      BY <2>1, <3>1 DEF SearchInv
  <2>4. Clear(final)'
    BY <2>1, <2>3 DEF Clear, Behind, Pair
  <2> QED
    BY <2>1, <2>4 DEF SearchInv
<1>5. CASE Install
  BY <1>5 DEF Install, SearchInv, Pair
<1>6. CASE Leave
  BY <1>6 DEF Leave, SearchInv
<1>7. CASE UNCHANGED vars
  BY <1>7 DEF vars, tool, state, SearchInv, Clear, Behind, Pair
<1> QED
  BY <1>1, <1>2, <1>3, <1>4, <1>5, <1>6, <1>7 DEF Next

\* The invariant of the search holds of every behaviour.
LEMMA SearchRight == Spec => [](TypeInv /\ SearchInv)
<1>1. Init => SearchInv
  BY DEF Init, SearchInv
<1> QED
  BY <1>1, TypeInit, TypeNext, SearchNext, PTL DEF Spec

\* resynctool misses a pair of the range only behind a passcode that equals the
\* pair's first, for every key and every range, one that ends with the last
\* counter included (resynctool.c:217-250).
THEOREM SearchComplete == Spec => []MissesOnlyRepeats
<1>1. SearchInv => MissesOnlyRepeats
  BY DEF SearchInv, MissesOnlyRepeats, Clear, Behind
<1> QED
  BY <1>1, SearchRight, PTL

\* An installed state lets the user in with the next passcode and puts the
\* server where the token is, unless the same two passcodes come twice in the
\* range (resynctool.c:232-243).
THEOREM StateResyncs == Spec => Resyncs
<1> DEFINE Brings ==
      (\E time \in Times : Login(time)) /\ pc = "installed"
      /\ token >= 2 /\ out.lo < SignBit /\ final < Size - 1
      /\ (\A n \in initial .. final - 1 : Pair(n) => n = token - 2)
      => rc' = "OK" /\ stored' = c2c(token)
<1>1. TypeInv /\ SearchInv => Brings
  <2> SUFFICES ASSUME TypeInv, SearchInv, NEW time \in Times, Login(time),
                      pc = "installed", token >= 2,
                      out.lo < SignBit, final < Size - 1,
                      \A n \in initial .. final - 1 : Pair(n) => n = token - 2
               PROVE  rc' = "OK" /\ stored' = c2c(token)
    OBVIOUS
  <2>1. counter \in Nat /\ token \in Nat /\ token < Size /\ Size \in Nat
    BY SizeType DEF TypeInv, Counters
  <2>2. stored = c2c(counter) /\ stored.lo < SignBit /\ counter = token - 1
    BY <2>1 DEF SearchInv
  <2>3. Number(stored) = token - 1 /\ Succ(token - 1, 1) = token
    BY <2>1, <2>2, C2cType, SuccType DEF TypeInv
  <2>4. Window(stored)[0] = c2c(token)
    <3>1. stored \in Challenge /\ 0 \in 0 .. WindowEnd
      BY WindowEndType DEF TypeInv
    <3>2. Window(stored)[0] = hotp_challenge(stored)
      BY <3>1, WindowWalk DEF Walk
    <3> QED
      BY <2>2, <2>3, <3>1, <3>2, ChallengeType
  <2>5. Number(c2c(token)) = token /\ 0 \in 0 .. WindowEnd
    BY C2cType, WindowEndType DEF TypeInv
  <2>6. 0 \in Hits(token)
    BY <2>4, <2>5 DEF Hits
  <2>7. PICK e \in Hits(token) :
          /\ Match(Hits(token), e) /\ rc' = Verdict(e, time)
          /\ rc' = "OK" => stored' = Window(stored)[e]
    BY <2>6, LoginFinds
  <2>8. e = 0
    BY <2>6, <2>7, WindowEndType DEF Match, Hits
  <2>9. failcount = 0 /\ rd = NoRd
    BY DEF SearchInv
  <2>10. ~Hard /\ ~Soft(time) /\ ~isconsecutive(0) /\ ~(0 > ewindow_size)
    BY <2>9, RangeAssumption DEF Hard, Soft, isconsecutive
  <2>11. rc' = "OK"
    BY <2>7, <2>8, <2>10 DEF Verdict
  <2> QED
    BY <2>4, <2>7, <2>8, <2>11
<1> QED
  BY <1>1, SearchRight, PTL DEF Resyncs
-----------------------------------------------------------------------------
(* The server behind the token. *)

\* The token's counter does not run out of its 64 bits.
FarFromEnd == \A n \in Starts : n + 1 + MaxPresses < Size

\* The token's pair is in the range, and not behind a repeated passcode.
InReach ==
  /\ token - 2 \in initial .. final - 1
  /\ token - 2 > initial => mac[token - 3] # pass1

AheadInv ==
  /\ presses <= MaxPresses /\ token + (MaxPresses - presses) < Size
  /\ pc \in {"search", "found"} =>
       token >= 2 /\ pass1 = mac[token - 2] /\ pass2 = mac[token - 1]
  /\ pc = "search" /\ InReach => initial <= counter /\ counter <= token - 2
  /\ pc = "found" /\ InReach => counter <= token - 1

\* The token gives its passcodes in order.
LEMMA GivesOn ==
  ASSUME TypeInv, AheadInv, NEW n \in Nat, Gives(n)
  PROVE  /\ token' = token + n /\ token + n < Size
         /\ presses' <= MaxPresses /\ token' + (MaxPresses - presses') < Size
<1>1. /\ token \in Nat /\ presses \in Nat /\ MaxPresses \in Nat /\ Size \in Nat
      /\ presses + n <= MaxPresses /\ presses' = presses + n /\ token' = Succ(token, n)
      /\ token + (MaxPresses - presses) < Size
  BY SizeType, RangeAssumption DEF TypeInv, Counters, Gives, AheadInv
<1>2. token + n < Size
  BY <1>1
<1>3. token' = token + n
  BY <1>1, <1>2, SuccType
<1> QED
  BY <1>1, <1>2, <1>3

\* The search does not pass over the token's pair.
LEMMA AheadSearch ==
  ASSUME TypeInv, AheadInv, Search PROVE AheadInv'
<1>1. /\ counter \in Nat /\ final \in Nat /\ initial \in Nat /\ token \in Nat
      /\ final < Size /\ Size \in Nat /\ counter < final /\ pc = "search"
      /\ Succ(counter, 1) = counter + 1
      /\ UNCHANGED <<mac, token, presses, initial, final, pass1, pass2>>
  BY SearchRound, SizeType DEF TypeInv, Counters, Search
<1>2. token >= 2 /\ pass1 = mac[token - 2] /\ pass2 = mac[token - 1]
  BY <1>1 DEF AheadInv
<1>3. InReach' <=> InReach
  BY <1>1 DEF InReach
<1>4. ASSUME InReach
      PROVE  /\ initial <= counter /\ counter <= token - 2
             /\ counter = token - 2 => Pair(counter)
             /\ counter = token - 3 => mac[counter] # pass1
  <2>1. initial <= counter /\ counter <= token - 2
    BY <1>1, <1>4 DEF AheadInv
  <2>2. counter = token - 2 => Pair(counter)
    BY <1>1, <1>2 DEF Pair
  <2>3. counter = token - 3 => mac[counter] # pass1
    BY <1>1, <1>4, <2>1 DEF InReach
  <2> QED
    BY <2>1, <2>2, <2>3
<1>5. pc' \in {"search", "found"}
  BY SearchRound
<1>6. ASSUME pc' = "search", InReach PROVE initial <= counter' /\ counter' <= token - 2
  <2>1. CASE mac[counter] # pass1 /\ counter' = counter + 1
    <3>1. counter # token - 2
      BY <1>4, <1>6, <2>1 DEF Pair
    <3> QED
      BY <1>1, <1>4, <1>6, <2>1, <3>1
  <2>2. CASE mac[counter] = pass1 /\ ~Pair(counter) /\ counter' = Succ(counter, 2)
    <3>1. counter # token - 2 /\ counter # token - 3
      BY <1>4, <1>6, <2>2
    <3>2. counter + 2 <= token - 2
      BY <1>1, <1>4, <1>6, <3>1
    <3>3. token < Size
      BY SizeType DEF TypeInv, Counters
    <3>4. counter' = counter + 2
      BY <1>1, <2>2, <3>2, <3>3, SuccType
    <3> QED
      BY <1>1, <1>4, <1>6, <3>2, <3>4
  <2> QED
    BY <1>6, <2>1, <2>2, SearchRound
<1>7. ASSUME pc' = "found", InReach PROVE counter' <= token - 1
  <2>1. counter' = counter + 1
    BY <1>7, SearchRound
  <2> QED
    BY <1>1, <1>4, <1>7, <2>1
<1> QED
  BY <1>1, <1>2, <1>3, <1>6, <1>7 DEF AheadInv

LEMMA AheadNext == TypeInv /\ AheadInv /\ [Next]_vars => AheadInv'
<1> SUFFICES ASSUME TypeInv, AheadInv, [Next]_vars PROVE AheadInv'
  OBVIOUS
<1>1. CASE Press \/ \E time \in Times : Login(time)
  <2>1. Gives(1) /\ pc' \notin {"search", "found"}
    BY <1>1 DEF Press, Login, tool
  <2> QED
    BY <2>1, GivesOn DEF AheadInv
<1>2. CASE Start
  <2>1. Gives(2) /\ pc' = "search" /\ mac' = mac /\ pass1' = mac[token]
        /\ pass2' = mac[Succ(token, 1)] /\ initial' = counter'
        /\ initial' \in {0, Number(stored)}
    BY <1>2 DEF Start, Range
  <2>2. token \in Nat /\ token' = token + 2 /\ token + 2 < Size /\ Size \in Nat
    BY <2>1, GivesOn, SizeType DEF TypeInv, Counters
  <2>3. token' >= 2 /\ token' - 2 = token /\ token' - 1 = token + 1 /\ Succ(token, 1) = token + 1
    BY <2>2, SuccType
  <2>4. initial' \in Nat
    BY <2>1, NumberType, SizeType DEF TypeInv, Counters
  <2>5. InReach' => initial' <= counter' /\ counter' <= token' - 2
    <3>1. final' \in Nat
      BY TypeNext, SizeType DEF TypeInv, Counters
    <3>2. InReach' => initial' <= token' - 2
      BY <2>2, <2>3, <2>4, <3>1 DEF InReach
    <3> QED
      BY <2>1, <2>4, <3>2
  <2> QED
    BY <2>1, <2>3, <2>5, GivesOn DEF AheadInv
<1>3. CASE Search
  BY <1>3, AheadSearch
<1>4. CASE Usage \/ NotFound \/ Install \/ Leave
  BY <1>4 DEF Usage, NotFound, Install, Leave, AheadInv
<1>5. CASE UNCHANGED vars
  BY <1>5 DEF vars, tool, AheadInv, InReach
<1> QED
  BY <1>1, <1>2, <1>3, <1>4, <1>5 DEF Next

\* As long as the low halves are not negative, a login does not take the server
\* past the token, wherever else in the window its passcode occurs.
LEMMA LoginBehind ==
  ASSUME TypeInv, NEW time \in Times, Login(time), Number(stored) < token,
         Positive(Number(stored), Number(stored) + WindowEnd)
  PROVE  Number(stored') <= token
<1> DEFINE w == Window(stored)
           c == Number(stored)
           hits == Hits(token)
<1>1. c \in Nat /\ token \in Nat /\ token < Size /\ Size \in Nat /\ WindowEnd \in Nat
      /\ stored \in Challenge /\ c < token
  BY NumberType, SizeType, WindowEndType DEF TypeInv, Counters
<1>2. ASSUME NEW d \in 0 .. WindowEnd, c + d + 1 <= token
      PROVE  Number(w[d]) = c + d + 1
  <2>1. Positive(c, c + d)
    BY <1>1, <1>2 DEF Positive
  <2>2. c + d + 1 < Size
    BY <1>1, <1>2
  <2>3. \A e \in 0 .. d : Number(w[e]) = c + e + 1
    BY <1>1, <2>1, <2>2, WindowCounts
  <2> QED
    BY <2>3, <1>1
<1>3. CASE stored' = stored
  BY <1>1, <1>3
<1>5. hits = {e \in 0 .. WindowEnd : mac[Number(w[e])] = mac[token]}
  BY DEF Hits
<1> HIDE DEF hits
<1>4. ASSUME NEW e \in hits, \A d \in hits : e <= d, stored' = w[e]
      PROVE  Number(stored') <= token
  <2> HIDE DEF w, c
  <2>1. CASE c + e + 1 <= token
    BY <1>1, <1>2, <1>4, <1>5, <2>1
  <2>2. CASE c + e + 1 > token
    <3> DEFINE d == token - c - 1
    <3>1. d \in 0 .. WindowEnd /\ c + d + 1 = token /\ d < e
      BY <1>1, <1>5, <2>2
    <3>2. Number(w[d]) = token
      BY <1>1, <1>2, <3>1
    <3>3. d \in hits
      BY <1>5, <3>1, <3>2
    <3> QED
      BY <1>1, <1>4, <1>5, <3>1, <3>3
  <2> QED
    BY <1>1, <1>5, <2>1, <2>2
<1> QED
  BY <1>3, <1>4, LoginFinds DEF Match, hits

\* The server never gets ahead of the token, where it would refuse what is to
\* come: for every window, key and length of search, by logins whose passcode
\* is not unique and by installed states (otp.c:544-546, resynctool.c:217-250).
THEOREM ServerBehind == ASSUME FarFromEnd PROVE Spec => NeverAhead
<1>1. Init => AheadInv
  <2> SUFFICES ASSUME Init PROVE AheadInv
    OBVIOUS
  <2>1. PICK n \in Starts : token = Succ(n, 1)
    BY DEF Init
  <2>2. n \in Nat /\ MaxPresses \in Nat /\ Size \in Nat /\ n + 1 + MaxPresses < Size
    BY <2>1, RangeAssumption, SizeType DEF FarFromEnd, Counters
  <2>3. token = n + 1
    BY <2>1, <2>2, SuccType
  <2> QED
    BY <2>2, <2>3 DEF Init, AheadInv
<1> DEFINE Stays ==
      /\ Number(stored) < token
      /\ Positive(Number(stored), Number(stored) + WindowEnd)
      /\ pc = "found" =>
           /\ token - 2 \in initial .. final - 1
           /\ token - 2 > initial => mac[token - 3] # pass1
      => Number(stored') < token'
<1>2. TypeInv /\ SearchInv /\ AheadInv /\ [Next]_vars => Stays
  <2> SUFFICES ASSUME TypeInv, SearchInv, AheadInv, [Next]_vars,
                      Number(stored) < token,
                      Positive(Number(stored), Number(stored) + WindowEnd),
                      pc = "found" => InReach
               PROVE  Number(stored') < token'
    BY DEF InReach
  <2>1. Number(stored) \in Nat /\ token \in Nat /\ counter \in Nat
    BY NumberType, SizeType DEF TypeInv, Counters
  <2>2. CASE Press \/ Start
    <3>1. stored' = stored /\ (Gives(1) \/ Gives(2))
      BY <2>2 DEF Press, Start, state
    <3>2. token' >= token
      BY <2>1, <3>1, GivesOn
    <3>3. token' \in Nat
      BY TypeNext, SizeType DEF TypeInv, Counters
    <3> QED
      BY <2>1, <3>1, <3>2, <3>3
  <2>3. ASSUME NEW time \in Times, Login(time) PROVE Number(stored') < token'
    <3>1. token' = token + 1
      BY <2>3, GivesOn DEF Login
    <3>2. Number(stored') <= token
      BY <2>3, LoginBehind
    <3>3. Number(stored') \in Nat
      BY TypeNext, NumberType, SizeType DEF TypeInv, Counters
    <3> QED
      BY <2>1, <3>1, <3>2, <3>3
  <2>4. CASE Install
    <3>1. pc = "found" /\ stored' = c2c(counter) /\ token' = token
      BY <2>4 DEF Install, SearchInv
    <3>2. Number(stored') = counter
      BY <3>1, C2cType DEF TypeInv
    <3>3. counter <= token - 1
      BY <3>1 DEF AheadInv
    <3> QED
      BY <2>1, <3>1, <3>2, <3>3
  <2>5. CASE Usage \/ Search \/ NotFound \/ Leave \/ UNCHANGED vars
    BY <2>5 DEF Usage, Search, NotFound, Leave, vars, state
  <2> QED
    BY <2>2, <2>3, <2>4, <2>5 DEF Next
<1> QED
  BY <1>1, <1>2, AheadNext, SearchRight, PTL DEF Spec, NeverAhead
=============================================================================
