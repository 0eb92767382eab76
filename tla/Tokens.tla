------------------------------- MODULE Tokens -------------------------------
(***************************************************************************)
(* verify() for a user who may have any of several tokens: the module of   *)
(* the token is looked up with the user (otp.c:117), and verify() is the   *)
(* same for all of them.  Tokens differ in their modes, in whether they    *)
(* can start from nothing, and in what they answer from: a challenge, a    *)
(* chain of challenges or the clock.                                       *)
(***************************************************************************)
EXTENDS Integers, FiniteSets

CONSTANTS
  Tokens,       \* tokens the user may have
  RequestsOf,   \* requests that may be made for each of them
  ChalOf,       \* challenges that may be presented for each of them
  FilesOf,      \* state files each of them may start from
  Worker, NoChal, TimeStep, AsyncLen, UIntMax, ewindow_size,
  rwindow_size, user_rwindow_size, softfail, hardfail, Passwords, allow_async,
  allow_sync, challenge_delay, resync, Minute, IntMax, Timeout, LockExpiry,
  SlowHolder, FirstClock, MaxClock   \* as in Verify

VARIABLES
  card,   \* user_t.card
  clock, file, lock, pc, now, req, res, okd, cand, carried, fails, lastFail

V(c) == INSTANCE Verify WITH
  Card <- c, Requests <- RequestsOf[c], AsyncChal <- ChalOf[c],
  InitFiles <- FilesOf[c]

vars == <<card, clock, file, lock, pc, now, req, res, okd, cand, carried, fails,
          lastFail>>

Init == \E c \in Tokens : card = c /\ V(c)!Init

\* card2cardops(): the token's module decides.
Has(c) == card = c /\ UNCHANGED card

Next == \E c \in Tokens : Has(c) /\ V(c)!Next

\* As in Verify: a thread that has taken a request never waits for another.
Step(w) == \E c \in Tokens : Has(c) /\ V(c)!Step(w)
Fairness == \A w \in Worker : WF_vars(Step(w))

Spec == Init /\ [][Next]_vars
FairSpec == Spec /\ Fairness
-----------------------------------------------------------------------------
(* Properties. *)

\* Every request is answered, whatever the token and the other threads do:
\* no return of verify() (otp.c:693) is missed.
Answered == \A w \in Worker : pc[w] # "idle" ~> pc[w] = "idle"

\* The user's lock is always given back, on every error path too
\* (state.c:91-98, otp.c:659-688).
LockReleased == lock.held ~> ~lock.held

\* What Verify says of the user's own token, for whichever the user has: a
\* user who was created from nothing and succeeded is never new again
\* (otp.c:290);
NullOnce == [][\A c \in Tokens : card = c => V(c)!KnownOnce]_vars

\* and a clock's passcode is accepted in its own time step only
\* (cardops/totp.c:133, cardops/c200.c:150).
OwnTimeStep == \A c \in Tokens : card = c => V(c)!OwnTimeStep
=============================================================================
