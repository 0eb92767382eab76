------------------------------ MODULE CardOps ------------------------------
(***************************************************************************)
(* The token modules of otpd (cardops/*.c) as otp.c:verify() uses them:    *)
(* which modes a token has, the passcode it expects at a position of the   *)
(* event window, and the "rwindow data" (rd) it keeps between requests.    *)
(*                                                                         *)
(* Data abstraction.  A synchronous challenge is a point of a chain: the   *)
(* challenge methods only ever walk forward from the stored challenge, so  *)
(* [chain |-> c, pos |-> i] is the i-th successor of the challenge that    *)
(* starts chain c.  A passcode is named by the challenge it answers;       *)
(* different challenges are taken to have different passcodes.             *)
(***************************************************************************)
EXTENDS Integers

CONSTANTS
  Card,       \* the token module of the user
  AsyncChal,  \* challenges the plugin may present to the user
  TimeStep,   \* TIME_STEP of totp.h / c200.h
  AsyncLen,   \* length of a presented challenge, site transform applied
  UIntMax     \* UINT_MAX

Cards == {"hotp", "cryptocard-es", "cryptocard-rs", "cryptocard-rc", "x99",
          "totp", "c200"}

\* Where a chain of challenges can start, apart from a presented challenge:
\* "file" is the challenge the administrator stored, "zeros" are eight zero
\* bytes, "blank" and "undef" are no bytes and bytes the program never wrote.
\* Passcodes also come from the "clock" of totp and c200, and are "bad" (no
\* token gives them) or "short" (of the wrong length).
Starts == {"file", "zeros", "blank", "undef", "clock", "bad", "short"}

ASSUME CardAssumption == Card \in Cards
ASSUME ChalAssumption == AsyncChal \cap Starts = {}
ASSUME StepAssumption == TimeStep \in Nat \ {0}
ASSUME UIntAssumption == UIntMax \in Nat \ {0, 1}

NoRd == -1        \* rd[0] == '\0'
SyncLen == 8      \* the length every challenge() method gives a challenge

Point(c, i) == [chain |-> c, pos |-> i]

\* OTP_CF_AM and OTP_CF_ES of the feature masks.
AM == Card \in {"cryptocard-rs", "cryptocard-rc", "x99"}
ES == Card \in {"hotp", "cryptocard-es", "cryptocard-rs", "totp", "c200"}

\* Tokens answered from the clock, and tokens with a chain of challenges.
TimeCard == Card \in {"totp", "c200"}
Counting == ~TimeCard /\ Card # "x99"

\* state_t, and with null = "there is no state file" the file itself.
Points == [chain : Starts \cup AsyncChal, pos : Nat]

StateRec == [null : BOOLEAN, clen : {0, SyncLen}, chal : Points, rd : Int,
             failcount : 0 .. UIntMax - 1, authtime : Int]

NullState == [null |-> TRUE, clen |-> 0, chal |-> Point("blank", 0),
              rd |-> NoRd, failcount |-> 0, authtime |-> 0]

\* nullstate(): can the module start from nothing?
nullstate == Card \in {"x99", "totp", "c200"}

\* challenge(): position e of the window is e+1 steps after the point c the
\* walk starts from.  hotp adds one to a counter, cryptocard runs the MAC over
\* the previous challenge.
hotp_challenge(c, e) == Point(c.chain, c.pos + e + 1)
cryptocard_challenge(c, e) == Point(c.chain, c.pos + e + 1)
challenge(c, e) ==
  IF Card = "hotp" THEN hotp_challenge(c, e) ELSE cryptocard_challenge(c, e)

\* response(): totp and c200 ignore the challenge and ask the clock, c200
\* after rounding it up to the next step.
totp_response(clock) == Point("clock", clock \div TimeStep)
c200_response(clock) == Point("clock", (clock + TimeStep - (clock % TimeStep)) \div TimeStep)
response(c, e, clock) ==
  IF Counting THEN challenge(c, e)
  ELSE IF Card = "totp" THEN totp_response(clock) ELSE c200_response(clock)

\* However a passcode is encoded (PAP, CHAP, MSCHAP, MSCHAP2), its encoding
\* matches that of the expected one only if they are the same.
compare(pass, expected) == pass = expected

\* The window positions whose response is the given passcode.
Positions(c, pass, clock, eend) ==
  {e \in 0 .. eend : compare(pass, response(c, e, clock))}

\* What running challenge() leaves in state_t: clen becomes 8, so a blank
\* challenge becomes the eight zero bytes it was initialised with.
Walked(s) ==
  IF Counting /\ s.clen = 0
  THEN [s EXCEPT !.clen = SyncLen, !.chal = Point("zeros", 0)]
  ELSE s

\* updatecsd(): success clears rd, anything else makes e the candidate; the
\* clock cards keep no rd.
updatecsd_keep(s, e, ok) == [s EXCEPT !.rd = IF ok THEN @ ELSE e]
hotp_updatecsd(s, e, ok) == [s EXCEPT !.rd = IF ok THEN NoRd ELSE e]
cryptocard_updatecsd(s, e, ok) == [s EXCEPT !.rd = IF ok THEN NoRd ELSE e]
updatecsd(s, e, ok) ==
  IF Card = "hotp" THEN hotp_updatecsd(s, e, ok)
  ELSE IF Counting THEN cryptocard_updatecsd(s, e, ok) ELSE s

\* isconsecutive(): is e right behind the candidate?  The clock cards say yes
\* to everything.
hotp_isconsecutive(s, e) == s.rd # NoRd /\ e = s.rd + 1
cryptocard_isconsecutive(s, e) == s.rd # NoRd /\ e = s.rd + 1
totp_isconsecutive(s, e) == TRUE
c200_isconsecutive(s, e) == TRUE
isconsecutive(s, e) ==
  CASE Card = "hotp" -> hotp_isconsecutive(s, e)
    [] Card = "totp" -> totp_isconsecutive(s, e)
    [] Card = "c200" -> c200_isconsecutive(s, e)
    [] Card = "x99"  -> FALSE
    [] OTHER         -> cryptocard_isconsecutive(s, e)

\* memcpy(state.u.challenge, challenge, state.clen) after an async success.
Resynced(s, a) ==
  IF s.clen = 0 THEN s.chal
  ELSE IF s.clen = AsyncLen THEN Point(a, 0)
  ELSE Point("undef", 0)
=============================================================================
