------------------------------- MODULE Verify -------------------------------
(***************************************************************************)
(* otp.c:verify() run by concurrent work threads for one user, with the    *)
(* user's state in a local file (state.c, SMODE_LOCAL) guarded by the      *)
(* user's lock (lock.c).  One action per stretch of code between two       *)
(* points where another thread, the clock or a crash can intervene.        *)
(***************************************************************************)
EXTENDS CardOps, FiniteSets

CONSTANTS
  Worker,             \* work threads with a request of this user
  Requests,           \* requests the plugin may make
  NoChal,             \* request->challenge is empty
  ewindow_size, rwindow_size, softfail, hardfail,   \* config_t
  user_rwindow_size,  \* user_t.rwindow_size, 0 if unset
  Passwords,          \* kinds of user_t.password a lookup may find, "none" if unset
  allow_async, allow_sync, challenge_delay, resync, \* otp_request_t
  Minute,             \* 64, the unit of the softfail delay
  IntMax,             \* INT_MAX
  Timeout,            \* config_t.timeout less the reserve for compute work
  LockExpiry,         \* 24 s in lock.c
  SlowHolder,         \* may a thread hold the lock longer than LockExpiry?
  InitFiles,          \* contents the state file may start with
  FirstClock,         \* the time the daemon is started
  MaxClock            \* bound on the clock

ASSUME WindowAssumption ==
  /\ ewindow_size \in Nat /\ rwindow_size \in Nat /\ user_rwindow_size \in Nat
  /\ softfail \in Nat /\ hardfail \in Nat
ASSUME PluginAssumption ==
  /\ allow_async \in BOOLEAN /\ allow_sync \in BOOLEAN /\ resync \in BOOLEAN
  /\ challenge_delay \in Nat
  /\ NoChal \notin AsyncChal
ASSUME TimeAssumption ==
  /\ Minute \in Nat \ {0} /\ Timeout \in Nat /\ LockExpiry \in Nat \ {0}
  /\ SlowHolder \in BOOLEAN /\ FirstClock \in Nat /\ MaxClock \in Nat
ASSUME IntAssumption == IntMax \in Nat /\ IntMax < UIntMax
\* otp_request_t: the challenge that was presented, if any, and the passcode.
ReqType == [chal : AsyncChal \cup {NoChal}, pass : Points]
ASSUME RequestAssumption == Requests \subseteq ReqType
ASSUME PasswordAssumption == Passwords \subseteq {"none", "clear", "{MD5", "{SHA"}
ASSUME InitAssumption ==
  /\ InitFiles \subseteq StateRec
  /\ \A f \in InitFiles : /\ f.null => f = NullState
                          /\ -FirstClock <= f.authtime /\ f.authtime <= FirstClock

VARIABLES
  clock,   \* time(NULL) and xgethrtime(), in seconds
  file,    \* the user's state file
  lock,    \* the user's entry of the lock table
  pc,      \* where each thread is
  now,     \* verify()'s now, read once before the user lookup
  req,     \* the request being verified
  res      \* state_t and the verdict so far

\* History, read by no action.
VARIABLES
  okd,      \* passcodes already answered OK in sync mode
  cand,     \* correct passcodes refused since the last success
  carried,  \* did an async success leave the candidate in the file?
  fails,    \* failures persisted since the last success, up to UIntMax
  lastFail  \* latest request time among them, 0 if none

ghosts == <<okd, cand, carried, fails, lastFail>>
vars == <<clock, file, lock, pc, now, req, res, ghosts>>

RC == {"OK", "USER_UNKNOWN", "AUTHINFO_UNAVAIL", "AUTH_ERR", "MAXTRIES",
       "SERVICE_ERR", "NEXTPASSCODE"}

\* How a verdict came about: the right static password, the right async
\* response, a passcode of the event window, or two consecutive ones
\* ("resync").
How == {"none", "static", "async", "sync", "resync"}

Result == [rc : RC, how : How, s : StateRec, updated : BOOLEAN]

PCs == {"idle", "lookup", "lock", "read", "decide", "put", "unlock", "reply"}

Error(rc, s) == [rc |-> rc, how |-> "none", s |-> s, updated |-> FALSE]

NoResult == Error("SERVICE_ERR", NullState)
NoRequest == [chal |-> NoChal, pass |-> Point("bad", 0)]
-----------------------------------------------------------------------------
(* The verdict on a passcode, otp.c:282-657. *)

\* state_parse() and the negative authtime that marks a user who was created
\* from null state and never succeeded.
Parsed(f) ==
  IF ~f.null /\ f.authtime < 0
  THEN [f EXCEPT !.null = TRUE, !.authtime = -f.authtime]
  ELSE f

\* state_unparse()
Unparsed(s) == [s EXCEPT !.null = FALSE]

\* Seconds a user with n failures beyond softfail is delayed.  n is converted
\* to int: from INT_MAX + 1 on it is negative and the shift has no defined
\* result; what is left of a shifted bit is one of 32 bits or nothing.
Delays_capped(n) == {(IF n > 4 THEN 16 ELSE 2 ^ n) * Minute}
Delays(n) ==
  IF n > IntMax THEN {0} \cup {2 ^ k * Minute : k \in 0 .. 25}
  ELSE {(IF n > 5 THEN 32 ELSE 2 ^ n) * Minute}

\* fc, as far as it is determined.
FailConditions(s, t) ==
  IF hardfail > 0 /\ s.failcount >= hardfail THEN {"hard"}
  ELSE IF softfail > 0 /\ s.null THEN {"soft"}
  ELSE IF softfail > 0 /\ s.failcount >= softfail
  THEN {IF t < s.authtime + d THEN "soft" ELSE "none" :
          d \in Delays(s.failcount - softfail)}
  ELSE {"none"}

\* The unsigned test (uint32_t) now - authtime < challenge_delay: a request
\* older than authtime wraps to a huge difference and is not too soon.
TooSoon(s, t) == t >= s.authtime /\ t - s.authtime < challenge_delay

AsyncTried(r) == AM /\ allow_async /\ r.chal # NoChal
AsyncMatch(r) == AsyncTried(r) /\ compare(r.pass, Point(r.chal, 0))

AsyncRc(fc, s, t) == IF fc # "none" \/ TooSoon(s, t) THEN "MAXTRIES" ELSE "OK"

\* eend
WindowEnd ==
  IF user_rwindow_size > 0 THEN user_rwindow_size
  ELSE IF rwindow_size > 0 THEN rwindow_size
  ELSE ewindow_size

SyncTried == ES /\ allow_sync

\* Where the walk through the window starts: the stored challenge.  If that is
\* blank, hotp counts on from whatever verify()'s buffer holds, the challenge of
\* the request or nothing, and cryptocard runs the MAC over no input at all.
Start(s, r) ==
  IF s.clen > 0 THEN s.chal
  ELSE IF Card = "hotp" /\ r.chal # NoChal /\ AsyncLen = SyncLen THEN Point(r.chal, 0)
  ELSE Point("undef", 0)

SyncRc(fc, s, t, e) ==
  IF fc = "hard" THEN "MAXTRIES"
  ELSE IF isconsecutive(s, e)
       THEN IF t <= s.authtime THEN "NEXTPASSCODE" ELSE "OK"
  ELSE IF fc = "soft" \/ e > ewindow_size THEN "NEXTPASSCODE"
  ELSE "OK"

\* auth_done on success: ch is the challenge to keep.
Accepted_sentinel(s, ch, t) == [s EXCEPT !.chal = ch, !.failcount = 0,
                                         !.authtime = IF s.null THEN -t ELSE t]
Accepted(s, ch, t) == [s EXCEPT !.chal = ch, !.failcount = 0, !.authtime = t]

\* auth_done otherwise: the count saturates below UINT_MAX.
Rejected_wrap(s, t) == [s EXCEPT !.failcount = (@ + 1) % UIntMax,
                                 !.authtime = IF s.null THEN -t ELSE t]
Rejected_nosat(s, t) == [s EXCEPT !.failcount = @ + 1,
                                  !.authtime = IF s.null THEN -t ELSE t]
Rejected(s, t) == [s EXCEPT !.failcount = IF @ + 1 = UIntMax THEN @ ELSE @ + 1,
                            !.authtime = IF s.null THEN -t ELSE t]

Verdict(rc, how, s, ch, t) ==
  [rc |-> rc, how |-> how, updated |-> TRUE,
   s |-> IF rc = "OK" THEN Accepted(s, ch, t) ELSE Rejected(s, t)]

AsyncVerdict(fc, s, r, t) ==
  Verdict(AsyncRc(fc, s, t), "async", s,
          IF resync THEN Resynced(s, r.chal) ELSE s.chal, t)

\* The first match in the window decides; rd is updated either way.
SyncVerdict(fc, s, r, t, e) ==
  LET rc == SyncRc(fc, s, t, e) IN
  Verdict(rc, IF rc = "OK" /\ isconsecutive(s, e) THEN "resync" ELSE "sync",
          updatecsd(Walked(s), e, rc = "OK"),
          IF Counting THEN challenge(Start(s, r), e) ELSE s.chal, t)

-----------------------------------------------------------------------------
(* The lock of the user, lock.c, and the moves of a thread. *)

NoLock == [held |-> FALSE, ltime |-> 0]

LockFree_any(l, t) == TRUE
LockFree(l, t) == ~l.held \/ t >= l.ltime + LockExpiry

Holders == {w \in Worker : pc[w] \in {"read", "decide", "put", "unlock"}}

Goto(w, from, to) == pc[w] = from /\ pc' = [pc EXCEPT ![w] = to]

Fail(w, rc) == res' = [res EXCEPT ![w] = Error(rc, NullState)]

Init ==
  /\ clock = FirstClock
  /\ file \in InitFiles
  /\ lock = NoLock
  /\ pc = [w \in Worker |-> "idle"]
  /\ now = [w \in Worker |-> 0]
  /\ req = [w \in Worker |-> NoRequest]
  /\ res = [w \in Worker |-> NoResult]
  /\ okd = {} /\ cand = {} /\ carried = FALSE /\ fails = file.failcount
  /\ lastFail = IF fails > 0 THEN Parsed(file).authtime ELSE 0

\* verify() is entered: the clock is read before the user lookup.
Receive(w, r) ==
  /\ Goto(w, "idle", "lookup")
  /\ req' = [req EXCEPT ![w] = r]
  /\ now' = [now EXCEPT ![w] = clock]
  /\ UNCHANGED <<clock, file, lock, res, ghosts>>

\* file_get(): what a lookup meets in the key file, and what it returns.
KeyFile == [private : BOOLEAN, readable : BOOLEAN, found : BOOLEAN, wellformed : BOOLEAN]
file_get(f) ==
  CASE ~f.private \/ ~f.readable -> -2
    [] ~f.found                   -> -1
    [] ~f.wellformed              -> -2
    [] OTHER                      -> 0

\* No state is touched.
LookupFails(w) ==
  /\ Goto(w, "lookup", "reply")
  /\ \/ \E f \in KeyFile : file_get(f) = -1 /\ Fail(w, "USER_UNKNOWN")
     \/ \E f \in KeyFile : file_get(f) = -2 /\ Fail(w, "AUTHINFO_UNAVAIL")
  /\ UNCHANGED <<clock, file, lock, now, req, ghosts>>

\* The user's record names no known token, or has a key it cannot use.
RecordFails(w) ==
  /\ Goto(w, "lookup", "reply")
  /\ Fail(w, "SERVICE_ERR")
  /\ UNCHANGED <<clock, file, lock, now, req, ghosts>>

\* The static password override.  strncmp() is 0 on equality, so the branch
\* taken hashes with an algorithm the stored hash was not made with.
StaticAlg(p) == IF p # "{MD5" THEN "{MD5" ELSE IF p # "{SHA" THEN "{SHA" ELSE "clear"

StaticVerdict(p, right) ==
  [NoResult EXCEPT !.how = IF right THEN "static" ELSE "none",
                   !.rc = IF right /\ StaticAlg(p) = p THEN "OK" ELSE "AUTH_ERR"]

StaticPassword(w) ==
  /\ Goto(w, "lookup", "reply")
  /\ \E p \in Passwords \ {"none"}, right \in BOOLEAN :
       res' = [res EXCEPT ![w] = StaticVerdict(p, right)]
  /\ UNCHANGED <<clock, file, lock, now, req, ghosts>>

\* A passcode of the wrong length is refused before the state is locked.
WrongLength(w) ==
  /\ "none" \in Passwords
  /\ Goto(w, "lookup", "reply")
  /\ req[w].pass.chain = "short"
  /\ Fail(w, "AUTH_ERR")
  /\ UNCHANGED <<clock, file, lock, now, req, ghosts>>

\* The user is known and the passcode well formed; the request has 500 ms
\* left or is given up.
LookupDone(w) ==
  /\ "none" \in Passwords
  /\ req[w].pass.chain # "short"
  /\ IF clock - now[w] > Timeout
     THEN Goto(w, "lookup", "reply") /\ Fail(w, "SERVICE_ERR")
     ELSE Goto(w, "lookup", "lock") /\ UNCHANGED res
  /\ UNCHANGED <<clock, file, lock, now, req, ghosts>>

\* lock_get(): an unexpired lock is "authentication already in progress".
LockGet_wait(w) ==
  /\ ~lock.held
  /\ Goto(w, "lock", "read")
  /\ lock' = [held |-> TRUE, ltime |-> clock]
  /\ UNCHANGED <<clock, file, now, req, res, ghosts>>
LockGet(w) ==
  /\ IF LockFree(lock, clock)
     THEN /\ Goto(w, "lock", "read")
          /\ lock' = [held |-> TRUE, ltime |-> clock]
          /\ UNCHANGED res
     ELSE /\ Goto(w, "lock", "reply")
          /\ Fail(w, "SERVICE_ERR")
          /\ UNCHANGED lock
  /\ UNCHANGED <<clock, file, now, req, ghosts>>

\* state_read() and state_parse() succeed, or fail and release the lock.
StateRead(w) ==
  /\ Goto(w, "read", "decide")
  /\ res' = [res EXCEPT ![w] = Error("SERVICE_ERR", file)]
  /\ UNCHANGED <<clock, file, lock, now, req, ghosts>>

StateReadFails_leak(w) ==
  /\ Goto(w, "read", "reply")
  /\ Fail(w, "SERVICE_ERR")
  /\ UNCHANGED <<clock, file, lock, now, req, ghosts>>
StateReadFails(w) ==
  /\ Goto(w, "read", "unlock")
  /\ Fail(w, "SERVICE_ERR")
  /\ UNCHANGED <<clock, file, lock, now, req, ghosts>>

Decided(w, r) ==
  /\ Goto(w, "decide", "put")
  /\ res' = [res EXCEPT ![w] = r]
  /\ UNCHANGED <<clock, file, lock, now, req, ghosts>>

Hopeless_patient(w) == res[w].s.null /\ ~nullstate
Hopeless(w) == \/ res[w].s.null /\ ~nullstate
               \/ clock - now[w] > Timeout

\* No null state for this token, or less than 250 ms left.
GiveUp(w) == Hopeless(w) /\ Decided(w, Error("SERVICE_ERR", res[w].s))

DecideAsync(w) ==
  /\ ~Hopeless(w) /\ AsyncMatch(req[w])
  /\ LET s == Parsed(res[w].s) IN
     \E fc \in FailConditions(s, now[w]) :
       Decided(w, AsyncVerdict(fc, s, req[w], now[w]))

Window(w) ==
  Positions(Start(Parsed(res[w].s), req[w]), req[w].pass, clock, WindowEnd)

\* The window is searched from position 0, so the first match decides.
DecideSync(w) ==
  /\ ~Hopeless(w) /\ ~AsyncMatch(req[w]) /\ SyncTried
  /\ LET s == Parsed(res[w].s) IN
     \E e \in Window(w), fc \in FailConditions(s, now[w]) :
       /\ \A d \in Window(w) : e <= d
       /\ Decided(w, SyncVerdict(fc, s, req[w], now[w], e))

DecideNoMatch(w) ==
  /\ ~Hopeless(w) /\ ~AsyncMatch(req[w])
  /\ SyncTried => Window(w) = {}
  /\ LET s == Parsed(res[w].s) IN
     Decided(w, Verdict("AUTH_ERR", "none", IF SyncTried THEN Walked(s) ELSE s,
                        s.chal, now[w]))

\* state_put_local(): a verdict is written by rename(), errors leave no trace.
StatePut(w) ==
  LET r == res[w] IN
  /\ Goto(w, "put", "unlock")
  /\ file' = IF r.updated THEN Unparsed(r.s) ELSE file
  /\ cand' = IF ~r.updated THEN cand
             ELSE IF r.rc = "OK" THEN {}
             ELSE IF r.how = "sync" THEN cand \cup {req[w].pass} ELSE cand
  /\ carried' = IF ~r.updated THEN carried
                ELSE IF r.how = "async" /\ r.rc = "OK" THEN r.s.rd # NoRd
                ELSE carried /\ r.how \notin {"sync", "resync"}
  /\ fails' = IF ~r.updated THEN fails
              ELSE IF r.rc = "OK" THEN 0
              ELSE IF fails < UIntMax THEN fails + 1 ELSE fails
  /\ lastFail' = IF ~r.updated THEN lastFail
                 ELSE IF r.rc = "OK" THEN 0
                 ELSE IF now[w] > lastFail THEN now[w] ELSE lastFail
  /\ UNCHANGED <<clock, lock, now, req, res, okd>>

\* state_write() fails before the rename: the verdict becomes SERVICE_ERR.
StatePutFails_ignored(w) ==
  /\ res[w].updated
  /\ Goto(w, "put", "unlock")
  /\ UNCHANGED <<clock, file, lock, now, req, res, ghosts>>
StatePutFails(w) ==
  /\ res[w].updated
  /\ Goto(w, "put", "unlock")
  /\ Fail(w, "SERVICE_ERR")
  /\ UNCHANGED <<clock, file, lock, now, req, ghosts>>

\* lock_put() frees the user's entry, whoever locked it last.  (On an entry
\* that is already free it hashes a NULL name: the process dies, see Crash.)
LockPut(w) ==
  /\ lock.held
  /\ Goto(w, "unlock", "reply")
  /\ lock' = NoLock
  /\ UNCHANGED <<clock, file, now, req, res, ghosts>>

Reply(w) ==
  /\ Goto(w, "reply", "idle")
  /\ okd' = IF res[w].rc = "OK" /\ res[w].how \in {"sync", "resync"}
            THEN okd \cup {req[w].pass} ELSE okd
  /\ now' = [now EXCEPT ![w] = 0]
  /\ req' = [req EXCEPT ![w] = NoRequest]
  /\ res' = [res EXCEPT ![w] = NoResult]
  /\ UNCHANGED <<clock, file, lock, cand, carried, fails, lastFail>>

\* The daemon dies and is restarted: the file survives, the lock table and
\* the requests do not.
Crash ==
  /\ \E w \in Worker : pc[w] # "idle"
  /\ lock' = NoLock
  /\ pc' = [w \in Worker |-> "idle"]
  /\ now' = [w \in Worker |-> 0]
  /\ req' = [w \in Worker |-> NoRequest]
  /\ res' = [w \in Worker |-> NoResult]
  /\ UNCHANGED <<clock, file, ghosts>>

\* Unless SlowHolder, a thread releases the lock before it expires.
Tick ==
  /\ clock < MaxClock
  /\ SlowHolder \/ (Holders # {} => clock + 1 < lock.ltime + LockExpiry)
  /\ clock' = clock + 1
  /\ UNCHANGED <<file, lock, pc, now, req, res, ghosts>>

Step(w) ==
  \/ LookupFails(w) \/ RecordFails(w) \/ StaticPassword(w) \/ WrongLength(w) \/ LookupDone(w)
  \/ LockGet(w) \/ StateRead(w) \/ StateReadFails(w)
  \/ GiveUp(w) \/ DecideAsync(w) \/ DecideSync(w) \/ DecideNoMatch(w)
  \/ StatePut(w) \/ StatePutFails(w) \/ LockPut(w) \/ Reply(w)

Next ==
  \/ \E w \in Worker : Step(w) \/ (\E r \in Requests : Receive(w, r))
  \/ Crash
  \/ Tick

Spec == Init /\ [][Next]_vars
-----------------------------------------------------------------------------
(* Properties. *)

TypeOK ==
  /\ clock \in Nat
  /\ file \in StateRec
  /\ lock \in [held : BOOLEAN, ltime : Nat]
  /\ pc \in [Worker -> PCs]
  /\ now \in [Worker -> Nat]
  /\ req \in [Worker -> ReqType]
  /\ res \in [Worker -> Result]
  /\ okd \subseteq Points /\ cand \subseteq Points
  /\ carried \in BOOLEAN /\ fails \in Nat /\ lastFail \in Nat

\* An OK that is about to be sent was not sent before for the same passcode:
\* otp.c:662-665, "for sync mode the response can be reused until state data
\* is updated, an obvious replay attack".
Winning(w) == pc[w] = "reply" /\ res[w].rc = "OK" /\ res[w].how \in {"sync", "resync"}

NoReplay ==
  \A w \in Worker : Winning(w) =>
    /\ req[w].pass \notin okd
    /\ \A v \in Worker : Winning(v) /\ req[v].pass = req[w].pass => v = w

\* A stored rwindow candidate is a correct passcode that was refused since the
\* last success, so two consecutive passcodes are needed to skip the delay or
\* to leave the event window: otpd.conf "if the user enters TWO CONSECUTIVE
\* CORRECT passcodes".  The one exception is a candidate that an async success
\* left in place (otp.c:431; cardops/cryptocard.c:218 says "successful auth
\* clears rd"), until the next passcode of the window replaces or clears it.
RdIsCandidate ==
  Counting /\ file.rd # NoRd /\ ~carried => challenge(file.chal, file.rd) \in cand

\* failcount is the number of consecutive failures, up to its saturation:
\* concurrent requests lose none (README, section 9).
FailcountExact == file.failcount = IF fails < UIntMax THEN fails ELSE UIntMax - 1

Persists(w) == pc[w] = "put" /\ pc'[w] = "unlock" /\ res[w].updated /\ res'[w] = res[w]

\* The delay otpd.conf:195-196 promises after n failures beyond softfail:
\* "starts at 1 minute and doubles, up to a maximum of 32 minutes".
PromisedMinutes == <<1, 2, 4, 8, 16, 32>>
Promised(n) == Minute * PromisedMinutes[IF n < 5 THEN n + 1 ELSE 6]

\* In delay mode an acceptance that is not a resync comes no earlier than the
\* promised delay after any failure counted since the last success, up to the
\* time a request may spend in the user lookup, as long as the count is exact
\* and the failures beyond softfail fit an int (otp.c:313-339).
DelayHonoured ==
  [][\A w \in Worker :
       Persists(w) /\ res[w].rc = "OK" /\ res[w].how \in {"sync", "async"}
         /\ softfail > 0 /\ fails < UIntMax /\ fails - softfail \in 0 .. IntMax
       => now[w] + Timeout >= lastFail + Promised(fails - softfail)]_vars

\* A user in hardfail stays there: no request gets the user out
\* (otpd.conf: "must have their state reset by an adminstrator").
HardfailSticks ==
  [][hardfail > 0 /\ file.failcount >= hardfail => file'.failcount >= hardfail]_vars

\* The mark of a user who was created from nothing and has never succeeded
\* goes with the first success and does not come back: no failure, concurrent
\* request or restart makes the user new again (otp.c:290, "negative authtime
\* is sentinel for nullstate without successful auth").
KnownOnce ==
  /\ ~Parsed(file).null => ~Parsed(file').null
  /\ \A w \in Worker : Persists(w) /\ res[w].rc = "OK" => ~Parsed(file').null
NullOnce == [][KnownOnce]_vars

\* A passcode that was given by a clock is only accepted in its own time step,
\* counted in the time of the request or the time the request had to reach the
\* verdict (cardops/c200.c:150 rounds up to the next step).
OwnTimeStep ==
  TimeCard => \A w \in Worker : Winning(w) =>
    \E t \in now[w] .. now[w] + Timeout :
      req[w].pass.pos = t \div TimeStep + (IF Card = "c200" THEN 1 ELSE 0)

\* The lock as verify() uses it is the lock that lock.c is to provide
\* (UserLock, which LockChain implements).
UserLocks == INSTANCE UserLock WITH
  User <- {"user"}, lock <- [u \in {"user"} |-> lock]
UsesUserLock == UserLocks!Spec
=============================================================================
