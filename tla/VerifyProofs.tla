---------------------------- MODULE VerifyProofs ----------------------------
(***************************************************************************)
(* Theorems about verify() for every number of threads, every window and   *)
(* fail limit; those that depend on the lock assume that a thread keeps it *)
(* for less than its expiry time (~SlowHolder).                            *)
(***************************************************************************)
EXTENDS Verify, TLAPS

USE DEF SyncLen, NoRd, hotp_challenge, cryptocard_challenge, hotp_updatecsd,
        cryptocard_updatecsd

-----------------------------------------------------------------------------
(* The operators of the verdict keep a state a state. *)

\* state_parse() and the sign of authtime give a well-formed state.
LEMMA ParsedType == ASSUME NEW f \in StateRec PROVE Parsed(f) \in StateRec
<1>1. -f.authtime \in Int
  BY DEF StateRec
<1> QED
  BY <1>1 DEF Parsed, StateRec

\* So does running challenge().
LEMMA WalkedType == ASSUME NEW s \in StateRec PROVE Walked(s) \in StateRec
<1>1. Point("zeros", 0) \in Points
  BY DEF Point, Points, Starts
<1> QED
  BY <1>1 DEF Walked, StateRec

\* And updatecsd().
LEMMA UpdatecsdType ==
  ASSUME NEW s \in StateRec, NEW e \in Nat, NEW ok \in BOOLEAN
  PROVE  updatecsd(s, e, ok) \in StateRec
  BY DEF updatecsd, StateRec

\* A success leaves a well-formed state.
LEMMA AcceptedType ==
  ASSUME NEW s \in StateRec, NEW c \in Points, NEW t \in Nat
  PROVE  Accepted(s, c, t) \in StateRec
<1>1. 0 \in 0 .. UIntMax - 1 /\ t \in Int
  BY UIntAssumption
<1> QED
  BY <1>1 DEF Accepted, StateRec

\* So does a failure, whose count saturates below UINT_MAX.
LEMMA RejectedType ==
  ASSUME NEW s \in StateRec, NEW t \in Nat
  PROVE  Rejected(s, t) \in StateRec
<1>1. s.failcount \in 0 .. UIntMax - 1
  BY DEF StateRec
<1>2. (IF s.failcount + 1 = UIntMax THEN s.failcount ELSE s.failcount + 1)
        \in 0 .. UIntMax - 1
  BY <1>1, UIntAssumption
<1>3. (IF s.null THEN -t ELSE t) \in Int
  OBVIOUS
<1> QED
  BY <1>2, <1>3 DEF Rejected, StateRec

\* state_unparse() writes a well-formed file.
LEMMA UnparsedType == ASSUME NEW s \in StateRec PROVE Unparsed(s) \in StateRec
  BY DEF Unparsed, StateRec

\* The state of a user without a file is well-formed.
LEMMA NullType == NullState \in StateRec
<1>1. 0 \in 0 .. UIntMax - 1
  BY UIntAssumption
<1>2. Point("blank", 0) \in Points
  BY DEF Point, Points, Starts
<1> QED
  BY <1>1, <1>2 DEF NullState, StateRec

\* An error is a result.
LEMMA ErrorType ==
  ASSUME NEW rc \in RC, NEW s \in StateRec PROVE Error(rc, s) \in Result
  BY DEF Error, Result, How

\* A verdict is a result.
LEMMA VerdictType ==
  ASSUME NEW rc \in RC, NEW how \in How, NEW s \in StateRec, NEW c \in Points,
         NEW t \in Nat
  PROVE  Verdict(rc, how, s, c, t) \in Result
<1>1. Accepted(s, c, t) \in StateRec /\ Rejected(s, t) \in StateRec
  BY AcceptedType, RejectedType
<1> QED
  BY <1>1 DEF Verdict, Result

\* fc is "hard" for a user who has reached hardfail.
LEMMA NotHard ==
  ASSUME NEW s \in StateRec, NEW t, NEW fc \in FailConditions(s, t)
  PROVE  /\ fc \in {"hard", "soft", "none"}
         /\ fc # "hard" => (hardfail > 0 => ~(s.failcount >= hardfail))
  BY DEF FailConditions

\* The verdict on a correct async response is a result.
LEMMA AsyncVerdictType ==
  ASSUME NEW fc, NEW s \in StateRec, NEW t \in Nat, NEW r \in ReqType, AsyncMatch(r)
  PROVE  AsyncVerdict(fc, s, r, t) \in Result
<1>1. AsyncRc(fc, s, t) \in RC
  BY DEF AsyncRc, RC
<1>2. r.chal \in AsyncChal
  BY DEF AsyncMatch, AsyncTried, ReqType
<1>3. Point(r.chal, 0) \in Points /\ Point("undef", 0) \in Points
  BY <1>2 DEF Points, Point, Starts
<1>4. (IF resync THEN Resynced(s, r.chal) ELSE s.chal) \in Points
  BY <1>3 DEF StateRec, Resynced
<1> QED
  BY <1>1, <1>4, VerdictType DEF AsyncVerdict, How

\* The walk through the window starts at a point.
LEMMA StartType ==
  ASSUME NEW s \in StateRec, NEW r \in ReqType
  PROVE  Start(s, r) \in Points
<1>1. r.chal # NoChal => Point(r.chal, 0) \in Points
  BY DEF ReqType, Points, Point
<1>2. Point("undef", 0) \in Points
  BY DEF Points, Point, Starts
<1> QED
  BY <1>1, <1>2 DEF Start, StateRec

\* The verdict on a passcode of the window is a result.
LEMMA SyncVerdictType ==
  ASSUME NEW fc, NEW s \in StateRec, NEW t \in Nat, NEW e \in Nat, NEW r \in ReqType
  PROVE  SyncVerdict(fc, s, r, t, e) \in Result
<1>1. SyncRc(fc, s, t, e) \in RC
  BY DEF SyncRc, RC
<1>2. updatecsd(Walked(s), e, SyncRc(fc, s, t, e) = "OK") \in StateRec
  BY WalkedType, UpdatecsdType
<1>3. challenge(Start(s, r), e) \in Points
  <2>1. Start(s, r) \in Points
    BY StartType
  <2> QED
    BY <2>1 DEF challenge, Point, Points
<1>4. (IF Counting THEN challenge(Start(s, r), e) ELSE s.chal) \in Points
  BY <1>3 DEF StateRec
<1> QED
  BY <1>1, <1>2, <1>4, VerdictType DEF SyncVerdict, How
-----------------------------------------------------------------------------
(* Type correctness. *)

\* The request and the result of an idle thread are well-formed.
LEMMA IdleType == NoRequest \in ReqType /\ NoResult \in Result
<1>1. Point("bad", 0) \in Points
  BY DEF Point, Points, Starts
<1>2. "SERVICE_ERR" \in RC
  BY DEF RC
<1> QED
  BY <1>1, <1>2, NullType, ErrorType DEF NoRequest, NoResult, ReqType

\* A thread that fails has a well-formed result.
LEMMA FailType ==
  ASSUME TypeOK, NEW w \in Worker, NEW rc \in RC, Fail(w, rc)
  PROVE  res' \in [Worker -> Result]
  BY NullType, ErrorType DEF TypeOK, Fail

\* A move of one thread leaves pc well-formed.
LEMMA GotoType ==
  ASSUME TypeOK, NEW w \in Worker, NEW from, NEW to \in PCs, Goto(w, from, to)
  PROVE  pc' \in [Worker -> PCs]
  BY DEF TypeOK, Goto

\* A thread that has decided has a well-formed result.
LEMMA DecidedType ==
  ASSUME TypeOK, NEW w \in Worker, NEW r \in Result, Decided(w, r)
  PROVE  TypeOK'
<1>1. pc' \in [Worker -> PCs]
  BY GotoType DEF Decided, PCs
<1> QED
  BY <1>1 DEF TypeOK, Decided, ghosts

\* Every step of a thread keeps the types.
LEMMA StepType ==
  ASSUME TypeOK, NEW w \in Worker, Step(w)
  PROVE  TypeOK'
<1> USE DEF PCs
<1>a. res[w].s \in StateRec /\ Parsed(res[w].s) \in StateRec /\ now[w] \in Nat
      /\ req[w] \in ReqType /\ file \in StateRec
  BY ParsedType DEF TypeOK, Result
<1>1. CASE LookupFails(w)
  <2>1. res' \in [Worker -> Result]
    BY <1>1, FailType DEF LookupFails, RC
  <2>2. pc' \in [Worker -> PCs]
    BY <1>1, GotoType DEF LookupFails
  <2> QED
    BY <1>1, <2>1, <2>2 DEF LookupFails, TypeOK, ghosts
<1>r. CASE RecordFails(w)
  <2>1. res' \in [Worker -> Result]
    BY <1>r, FailType DEF RecordFails, RC
  <2>2. pc' \in [Worker -> PCs]
    BY <1>r, GotoType DEF RecordFails
  <2> QED
    BY <1>r, <2>1, <2>2 DEF RecordFails, TypeOK, ghosts
<1>2. CASE StaticPassword(w)
  <2>1. PICK p \in Passwords, right \in BOOLEAN :
          res' = [res EXCEPT ![w] = StaticVerdict(p, right)]
    BY <1>2 DEF StaticPassword
  <2>2. StaticVerdict(p, right) \in Result
    BY IdleType DEF StaticVerdict, Result, RC, How
  <2>3. pc' \in [Worker -> PCs]
    BY <1>2, GotoType DEF StaticPassword
  <2> QED
    BY <1>2, <2>1, <2>2, <2>3 DEF StaticPassword, TypeOK, ghosts
<1>3. CASE WrongLength(w)
  <2>1. res' \in [Worker -> Result]
    BY <1>3, FailType DEF WrongLength, RC
  <2>2. pc' \in [Worker -> PCs]
    BY <1>3, GotoType DEF WrongLength
  <2> QED
    BY <1>3, <2>1, <2>2 DEF WrongLength, TypeOK, ghosts
<1>4. CASE LookupDone(w)
  <2>1. res' \in [Worker -> Result]
    BY <1>4, FailType DEF LookupDone, RC, TypeOK
  <2>2. pc' \in [Worker -> PCs]
    BY <1>4, GotoType DEF LookupDone
  <2> QED
    BY <1>4, <2>1, <2>2 DEF LookupDone, TypeOK, ghosts
<1>5. CASE LockGet(w)
  <2>1. res' \in [Worker -> Result]
    BY <1>5, FailType DEF LockGet, RC, TypeOK
  <2>2. pc' \in [Worker -> PCs]
    BY <1>5, GotoType DEF LockGet
  <2>3. lock' \in [held : BOOLEAN, ltime : Nat]
    <3>1. [held |-> TRUE, ltime |-> clock] \in [held : BOOLEAN, ltime : Nat]
      BY DEF TypeOK
    <3>2. lock' = [held |-> TRUE, ltime |-> clock] \/ lock' = lock
      BY <1>5 DEF LockGet
    <3> QED
      BY <3>1, <3>2 DEF TypeOK
  <2> QED
    BY <1>5, <2>1, <2>2, <2>3 DEF LockGet, TypeOK, ghosts
<1>6. CASE StateRead(w)
  <2>1. Error("SERVICE_ERR", file) \in Result
    BY <1>a, ErrorType DEF RC
  <2>2. pc' \in [Worker -> PCs]
    BY <1>6, GotoType DEF StateRead
  <2>3. res' \in [Worker -> Result]
    BY <1>6, <2>1 DEF StateRead, TypeOK
  <2> QED
    BY <1>6, <2>2, <2>3 DEF StateRead, TypeOK, ghosts
<1>7. CASE StateReadFails(w)
  <2>1. res' \in [Worker -> Result]
    BY <1>7, FailType DEF StateReadFails, RC
  <2>2. pc' \in [Worker -> PCs]
    BY <1>7, GotoType DEF StateReadFails
  <2> QED
    BY <1>7, <2>1, <2>2 DEF StateReadFails, TypeOK, ghosts
<1>8. CASE GiveUp(w)
  <2>1. Error("SERVICE_ERR", res[w].s) \in Result
    BY <1>a, ErrorType DEF RC
  <2> QED
    BY <1>8, <2>1, DecidedType DEF GiveUp
<1>9. CASE DecideAsync(w)
  <2>1. PICK fc : Decided(w, AsyncVerdict(fc, Parsed(res[w].s), req[w], now[w]))
    BY <1>9 DEF DecideAsync
  <2>2. AsyncVerdict(fc, Parsed(res[w].s), req[w], now[w]) \in Result
    BY <1>9, <1>a, AsyncVerdictType DEF DecideAsync
  <2> QED
    BY <2>1, <2>2, DecidedType
<1>10. CASE DecideSync(w)
  <2>1. PICK e \in Window(w), fc \in FailConditions(Parsed(res[w].s), now[w]) :
          Decided(w, SyncVerdict(fc, Parsed(res[w].s), req[w], now[w], e))
    BY <1>10 DEF DecideSync
  <2>2. e \in Nat
    BY <2>1, WindowAssumption DEF Window, Positions, WindowEnd
  <2>3. SyncVerdict(fc, Parsed(res[w].s), req[w], now[w], e) \in Result
    BY <1>a, <2>2, SyncVerdictType
  <2> QED
    BY <2>1, <2>3, DecidedType
<1>11. CASE DecideNoMatch(w)
  <2> DEFINE s == Parsed(res[w].s)
             t == IF SyncTried THEN Walked(s) ELSE s
  <2>1. t \in StateRec /\ s.chal \in Points
    BY <1>a, WalkedType DEF StateRec
  <2>2. "AUTH_ERR" \in RC /\ "none" \in How
    BY DEF RC, How
  <2>3. Verdict("AUTH_ERR", "none", t, s.chal, now[w]) \in Result
    BY <1>a, <2>1, <2>2, VerdictType
  <2> QED
    BY <1>11, <2>3, DecidedType DEF DecideNoMatch
<1>12. CASE StatePut(w)
  <2>1. file' \in StateRec
    BY <1>12, <1>a, UnparsedType DEF StatePut
  <2>2. pc' \in [Worker -> PCs]
    BY <1>12, GotoType DEF StatePut
  <2>3. cand' \subseteq Points
    BY <1>12, <1>a DEF StatePut, TypeOK, ReqType
  <2>4. fails' \in Nat /\ lastFail' \in Nat
    BY <1>12, <1>a, UIntAssumption DEF StatePut, TypeOK
  <2>5. carried' \in BOOLEAN
    BY <1>12, Zenon DEF StatePut, TypeOK
  <2> QED
    BY <1>12, <2>1, <2>2, <2>3, <2>4, <2>5 DEF StatePut, TypeOK
<1>13. CASE StatePutFails(w)
  <2>1. res' \in [Worker -> Result]
    BY <1>13, FailType DEF StatePutFails, RC
  <2>2. pc' \in [Worker -> PCs]
    BY <1>13, GotoType DEF StatePutFails
  <2> QED
    BY <1>13, <2>1, <2>2 DEF StatePutFails, TypeOK, ghosts
<1>14. CASE LockPut(w)
  <2>1. pc' \in [Worker -> PCs]
    BY <1>14, GotoType DEF LockPut
  <2> QED
    BY <1>14, <2>1 DEF LockPut, NoLock, TypeOK, ghosts
<1>15. CASE Reply(w)
  <2>1. pc' \in [Worker -> PCs]
    BY <1>15, GotoType DEF Reply
  <2>2. okd' \subseteq Points
    BY <1>15, <1>a DEF Reply, TypeOK, ReqType
  <2> QED
    BY <1>15, <2>1, <2>2, IdleType DEF Reply, TypeOK
<1> QED
  BY <1>1, <1>r, <1>2, <1>3, <1>4, <1>5, <1>6, <1>7, <1>8, <1>9, <1>10, <1>11,
     <1>12, <1>13, <1>14, <1>15 DEF Step

\* The daemon is not started before the last request of the file it finds.
LEMMA InitWhen ==
  ASSUME NEW f \in InitFiles
  PROVE  Parsed(f).authtime \in Nat /\ Parsed(f).authtime <= FirstClock
<1>1. f \in StateRec /\ f.authtime \in Int /\ f.null \in BOOLEAN
  BY InitAssumption DEF StateRec
<1>2. /\ f.null => f.authtime = 0
      /\ -FirstClock <= f.authtime /\ f.authtime <= FirstClock
  BY InitAssumption DEF NullState
<1>3. Parsed(f).authtime = IF ~f.null /\ f.authtime < 0 THEN -f.authtime ELSE f.authtime
  BY <1>1 DEF Parsed, StateRec
<1> QED
  BY <1>1, <1>2, <1>3, TimeAssumption

\* The state file, the lock and the requests are always well-formed; in
\* particular failcount never reaches UINT_MAX (otp.c:640-641).
THEOREM TypeCorrect == Spec => []TypeOK
<1>1. Init => TypeOK
  <2> SUFFICES ASSUME Init PROVE TypeOK
    OBVIOUS
  <2>1. file \in StateRec /\ fails \in Nat
    BY InitAssumption, UIntAssumption DEF Init, StateRec
  <2>2. lastFail \in Nat
    BY InitWhen DEF Init
  <2> QED
    BY <2>1, <2>2, IdleType, TimeAssumption DEF Init, TypeOK, NoLock, PCs
<1>2. TypeOK /\ [Next]_vars => TypeOK'
  <2> SUFFICES ASSUME TypeOK, [Next]_vars PROVE TypeOK'
    OBVIOUS
  <2>1. CASE \E w \in Worker : Step(w)
    BY <2>1, StepType
  <2>2. ASSUME NEW w \in Worker, NEW r \in Requests, Receive(w, r) PROVE TypeOK'
    <3>1. r \in ReqType
      BY RequestAssumption
    <3>2. pc' \in [Worker -> PCs]
      BY <2>2, GotoType DEF Receive, PCs
    <3> QED
      BY <2>2, <3>1, <3>2 DEF Receive, TypeOK, ghosts
  <2>3. CASE Crash
    BY <2>3, IdleType DEF Crash, NoLock, TypeOK, ghosts, PCs
  <2>4. CASE Tick
    BY <2>4 DEF Tick, TypeOK, ghosts
  <2>5. CASE UNCHANGED vars
    BY <2>5 DEF vars, ghosts, TypeOK
  <2> QED
    BY <2>1, <2>2, <2>3, <2>4, <2>5 DEF Next
<1> QED
  BY <1>1, <1>2, PTL DEF Spec
-----------------------------------------------------------------------------
(* The user's lock: one holder at a time, until it expires. *)

InLock == {"read", "decide", "put", "unlock"}

LockInv ==
  /\ \A v, w \in Worker : pc[v] \in InLock /\ pc[w] \in InLock => v = w
  /\ \A w \in Worker : pc[w] \in InLock =>
       lock.held /\ clock < lock.ltime + LockExpiry

\* What a step of one thread leaves alone: the other threads and, outside
\* state_put(), the file and its history.
LEMMA StepFrame ==
  ASSUME TypeOK, NEW w \in Worker, Step(w)
  PROVE  /\ \A v \in Worker \ {w} : /\ pc'[v] = pc[v] /\ res'[v] = res[v]
                                    /\ req'[v] = req[v]
         /\ pc'[w] # pc[w]
         /\ clock' = clock
         /\ pc[w] # "put" => file' = file /\ fails' = fails
         /\ pc[w] # "reply" => okd' = okd /\ req' = req
         /\ pc[w] \notin {"lock", "unlock"} => lock' = lock
  BY DEF TypeOK, Step, Goto, Fail, Decided, ghosts, LookupFails, RecordFails, StaticPassword,
         WrongLength, LookupDone, LockGet, StateRead, StateReadFails, GiveUp,
         DecideAsync, DecideSync, DecideNoMatch, StatePut, StatePutFails,
         LockPut, Reply

\* The moves of a thread through verify().
LEMMA StepMoves ==
  ASSUME TypeOK, NEW w \in Worker, Step(w)
  PROVE  \/ pc[w] = "lookup" /\ pc'[w] \in {"lock", "reply"}
         \/ LockGet(w)
         \/ pc[w] = "read" /\ pc'[w] \in {"decide", "unlock"}
         \/ pc[w] = "decide" /\ pc'[w] = "put"
         \/ pc[w] = "put" /\ pc'[w] = "unlock"
         \/ LockPut(w)
         \/ pc[w] = "reply" /\ pc'[w] = "idle"
  BY DEF TypeOK, Step, Goto, Decided, LookupFails, RecordFails, StaticPassword,
         WrongLength, LookupDone, StateRead, StateReadFails, GiveUp,
         DecideAsync, DecideSync, DecideNoMatch, StatePut, StatePutFails, Reply

\* A step of a thread keeps the lock with its holder.
LEMMA LockStep ==
  ASSUME TypeOK, LockInv, NEW w \in Worker, Step(w)
  PROVE  LockInv'
<1>1. CASE LockGet(w)
  <2>1. CASE LockFree(lock, clock)
    <3>1. \A v \in Worker : pc[v] \notin InLock
      BY <2>1, TimeAssumption DEF LockFree, LockInv, TypeOK
    <3>2. pc' = [pc EXCEPT ![w] = "read"] /\ lock' = [held |-> TRUE, ltime |-> clock]
          /\ clock' = clock
      BY <1>1, <2>1 DEF LockGet, Goto
    <3>3. lock'.held /\ clock' < lock'.ltime + LockExpiry
      BY <3>2, TimeAssumption DEF TypeOK
    <3>4. \A v \in Worker : pc'[v] \in InLock => v = w
      BY <3>1, <3>2 DEF TypeOK
    <3> QED
      BY <3>3, <3>4 DEF LockInv
  <2>2. CASE ~LockFree(lock, clock)
    <3>1. pc' = [pc EXCEPT ![w] = "reply"] /\ lock' = lock /\ clock' = clock
      BY <1>1, <2>2 DEF LockGet, Goto
    <3> QED
      BY <3>1 DEF LockInv, InLock, TypeOK
  <2> QED
    BY <2>1, <2>2
<1>2. CASE LockPut(w)
  <2>1. pc[w] = "unlock" /\ pc' = [pc EXCEPT ![w] = "reply"]
    BY <1>2 DEF LockPut, Goto
  <2>2. \A v \in Worker : pc'[v] \notin InLock
    BY <2>1 DEF LockInv, InLock, TypeOK
  <2> QED
    BY <2>2 DEF LockInv
<1>3. CASE ~LockGet(w) /\ ~LockPut(w)
  <2>1. /\ pc'[w] \in InLock => pc[w] \in InLock
        /\ pc[w] \notin {"lock", "unlock"}
    BY <1>3, StepMoves DEF InLock
  <2>2. lock' = lock /\ clock' = clock /\ \A v \in Worker \ {w} : pc'[v] = pc[v]
    BY <2>1, StepFrame
  <2>3. \A v \in Worker : pc'[v] \in InLock => pc[v] \in InLock
    BY <2>1, <2>2
  <2> QED
    BY <2>2, <2>3 DEF LockInv
<1> QED
  BY <1>1, <1>2, <1>3

\* No two threads are inside the lock of the user, as long as none of them
\* holds it past its expiry (lock.c:91-139).
THEOREM LockExclusion == ASSUME ~SlowHolder PROVE Spec => []LockInv
<1>1. Init => LockInv
  BY DEF Init, LockInv, InLock
<1>2. TypeOK /\ LockInv /\ [Next]_vars => LockInv'
  <2> SUFFICES ASSUME TypeOK, LockInv, [Next]_vars PROVE LockInv'
    OBVIOUS
  <2>1. CASE \E w \in Worker : Step(w)
    BY <2>1, LockStep
  <2>2. ASSUME NEW w \in Worker, NEW r \in Requests, Receive(w, r) PROVE LockInv'
    BY <2>2 DEF Receive, Goto, LockInv, InLock, TypeOK
  <2>3. CASE Crash
    BY <2>3 DEF Crash, LockInv, InLock
  <2>4. CASE Tick
    <3>1. (\E w \in Worker : pc[w] \in InLock) => clock' < lock.ltime + LockExpiry
      BY <2>4, ~SlowHolder DEF Tick, Holders, InLock
    <3> QED
      BY <2>4, <3>1 DEF Tick, LockInv
  <2>5. CASE UNCHANGED vars
    BY <2>5 DEF vars, LockInv
  <2> QED
    BY <2>1, <2>2, <2>3, <2>4, <2>5 DEF Next
<1> QED
  BY <1>1, <1>2, TypeCorrect, PTL DEF Spec
-----------------------------------------------------------------------------
(* What a verdict about to be written owes to the file it was read from. *)

\* The count after one more failure.
Bump(n) == IF n + 1 = UIntMax THEN n ELSE n + 1

\* A thread that has read the file decides on what is still in the file, and
\* the count it writes continues the count in the file.
CountInv ==
  /\ \A w \in Worker : pc[w] = "decide" => res[w].s = file
  /\ \A w \in Worker : pc[w] = "put" =>
       /\ res[w].rc = "OK" =>
            res[w].updated /\ (hardfail > 0 => file.failcount < hardfail)
       /\ res[w].updated =>
            res[w].s.failcount =
              IF res[w].rc = "OK" THEN 0 ELSE Bump(file.failcount)

\* Reading and walking do not touch the count.
LEMMA CountKept ==
  ASSUME NEW s \in StateRec, NEW e \in Nat, NEW ok \in BOOLEAN
  PROVE  /\ Parsed(s).failcount = s.failcount
         /\ Walked(s).failcount = s.failcount
         /\ updatecsd(Walked(s), e, ok).failcount = s.failcount
<1>1. Walked(s) \in StateRec
  BY WalkedType
<1>2. Walked(s).failcount = s.failcount
  BY DEF Walked, StateRec
<1>3. Parsed(s).failcount = s.failcount
  BY DEF Parsed, StateRec
<1> QED
  BY <1>1, <1>2, <1>3 DEF updatecsd, StateRec

\* What a thread may decide, given the file it read.
Counted(r, f) ==
  /\ r.rc = "OK" => r.updated /\ (hardfail > 0 => f.failcount < hardfail)
  /\ r.updated => r.s.failcount = IF r.rc = "OK" THEN 0 ELSE Bump(f.failcount)

\* A verdict on the file that was read is counted.
LEMMA VerdictCounted ==
  ASSUME NEW rc \in RC, NEW how \in How, NEW s \in StateRec, NEW c \in Points,
         NEW t \in Nat, NEW f \in StateRec, s.failcount = f.failcount,
         rc = "OK" => (hardfail > 0 => f.failcount < hardfail)
  PROVE  Counted(Verdict(rc, how, s, c, t), f)
<1>1. PICK v : v = Verdict(rc, how, s, c, t)
  OBVIOUS
<1>2. v.rc = rc /\ v.updated
  BY <1>1 DEF Verdict
<1>3. v.s.failcount = IF rc = "OK" THEN 0 ELSE Bump(s.failcount)
  <2>1. Accepted(s, c, t).failcount = 0
    BY DEF Accepted, StateRec
  <2>2. Rejected(s, t).failcount = Bump(s.failcount)
    BY DEF Rejected, StateRec, Bump
  <2> QED
    BY <1>1, <2>1, <2>2 DEF Verdict
<1>4. Counted(v, f)
  BY <1>2, <1>3 DEF Counted
<1> QED
  BY <1>1, <1>4

\* Every decision is counted.
LEMMA DecideCounted ==
  ASSUME TypeOK, CountInv, NEW w \in Worker, Step(w), pc[w] = "decide"
  PROVE  pc'[w] = "put" /\ Counted(res'[w], file)
<1> DEFINE s == Parsed(res[w].s)
<1>1. /\ res[w].s = file /\ file \in StateRec /\ s \in StateRec
      /\ now[w] \in Nat /\ req[w] \in ReqType /\ s.failcount = file.failcount
      /\ s.failcount \in Nat
  BY ParsedType, CountKept, UIntAssumption DEF CountInv, TypeOK, Result, StateRec
<1>2. CASE GiveUp(w)
  BY <1>2 DEF GiveUp, Decided, Goto, Counted, Error, TypeOK
<1>3. CASE DecideAsync(w)
  <2> DEFINE c == IF resync THEN Resynced(s, req[w].chal) ELSE s.chal
  <2>0. PICK fc \in FailConditions(s, now[w]) :
          Decided(w, AsyncVerdict(fc, s, req[w], now[w]))
    BY <1>3 DEF DecideAsync
  <2>1. res'[w] = Verdict(AsyncRc(fc, s, now[w]), "async", s, c, now[w])
        /\ pc'[w] = "put"
    BY <2>0 DEF Decided, Goto, TypeOK, AsyncVerdict
  <2>2. AsyncRc(fc, s, now[w]) = "OK" => (hardfail > 0 => s.failcount < hardfail)
    BY <1>1, <2>0, NotHard, WindowAssumption DEF AsyncRc
  <2>3. c \in Points
    <3>1. req[w].chal \in AsyncChal
      BY <1>1, <1>3 DEF DecideAsync, AsyncMatch, AsyncTried, ReqType
    <3>2. Point(req[w].chal, 0) \in Points /\ Point("undef", 0) \in Points
      BY <3>1 DEF Points, Point, Starts
    <3> QED
      BY <1>1, <3>2 DEF Resynced, StateRec
  <2>4. AsyncRc(fc, s, now[w]) \in RC /\ "async" \in How
    BY DEF AsyncRc, RC, How
  <2> HIDE DEF s, c
  <2> QED
    BY <1>1, <2>1, <2>2, <2>3, <2>4, VerdictCounted
<1>4. CASE DecideSync(w)
  <2>1. PICK e \in Window(w), fc \in FailConditions(s, now[w]) :
          Decided(w, SyncVerdict(fc, s, req[w], now[w], e))
    BY <1>4 DEF DecideSync
  <2>2. e \in Nat
    BY <2>1, WindowAssumption DEF Window, Positions, WindowEnd
  <2> DEFINE rc == SyncRc(fc, s, now[w], e)
             how == IF rc = "OK" /\ isconsecutive(s, e) THEN "resync" ELSE "sync"
             u == updatecsd(Walked(s), e, rc = "OK")
             c == IF Counting THEN challenge(Start(s, req[w]), e) ELSE s.chal
  <2>3. res'[w] = Verdict(rc, how, u, c, now[w]) /\ pc'[w] = "put"
    BY <2>1 DEF Decided, Goto, TypeOK, SyncVerdict
  <2>4. rc \in RC /\ how \in How
    BY DEF SyncRc, RC, How
  <2>5. rc = "OK" => (hardfail > 0 => s.failcount < hardfail)
    BY <1>1, <2>1, NotHard, WindowAssumption DEF SyncRc
  <2>6. u \in StateRec /\ u.failcount = s.failcount
    BY <1>1, <2>2, WalkedType, UpdatecsdType, CountKept
  <2>7. c \in Points
    <3>1. Start(s, req[w]) \in Points
      BY <1>1, StartType
    <3> QED
      BY <1>1, <2>2, <3>1 DEF challenge, Point, Points, StateRec
  <2> HIDE DEF rc, how, u, c, s
  <2> QED
    BY <1>1, <2>3, <2>4, <2>5, <2>6, <2>7, VerdictCounted
<1>5. CASE DecideNoMatch(w)
  <2> DEFINE t == IF SyncTried THEN Walked(s) ELSE s
  <2>1. res'[w] = Verdict("AUTH_ERR", "none", t, s.chal, now[w]) /\ pc'[w] = "put"
    BY <1>5 DEF DecideNoMatch, Decided, Goto, TypeOK
  <2>2. t \in StateRec /\ t.failcount = s.failcount /\ s.chal \in Points
    BY <1>1, WalkedType, CountKept DEF StateRec
  <2>3. "AUTH_ERR" \in RC /\ "none" \in How
    BY DEF RC, How
  <2> HIDE DEF s, t
  <2> QED
    BY <1>1, <2>1, <2>2, <2>3, VerdictCounted
<1> QED
  BY <1>2, <1>3, <1>4, <1>5 DEF Step, Goto, LookupFails, RecordFails, StaticPassword,
     WrongLength, LookupDone, LockGet, StateRead, StateReadFails, StatePut,
     StatePutFails, LockPut, Reply

\* A step of a thread keeps the counts consistent.
LEMMA CountStep ==
  ASSUME TypeOK, LockInv, CountInv, NEW w \in Worker, Step(w)
  PROVE  CountInv'
<1>1. \A v \in Worker \ {w} : /\ pc'[v] = pc[v] /\ res'[v] = res[v]
                              /\ pc[v] \in InLock /\ pc[w] \in InLock => FALSE
  BY StepFrame DEF LockInv
<1>2. pc[w] \in {"decide", "put"} => pc[w] \in InLock
  BY DEF InLock
<1>3. pc[w] # "put" => file' = file
  BY StepFrame
<1>4. \A v \in Worker \ {w} : pc'[v] \in {"decide", "put"} => file' = file
  BY <1>1, <1>3 DEF InLock
<1>5. pc'[w] = "decide" => res'[w].s = file'
  <2>1. pc'[w] = "decide" => StateRead(w)
    BY StepMoves DEF Step, Goto, LookupFails, RecordFails, StaticPassword, Decided,
       WrongLength, LookupDone, LockGet, StateReadFails, GiveUp, DecideAsync,
       DecideSync, DecideNoMatch, StatePut, StatePutFails, LockPut, Reply, TypeOK
  <2> QED
    BY <2>1 DEF StateRead, Error, TypeOK
<1>6. pc'[w] = "put" => Counted(res'[w], file')
  <2>1. pc'[w] = "put" => pc[w] = "decide"
    BY StepMoves DEF LockGet, LockPut, Goto, TypeOK
  <2> QED
    BY <2>1, <1>3, DecideCounted
<1> QED
  BY <1>1, <1>4, <1>5, <1>6 DEF CountInv, Counted

\* The counting invariant holds of every behaviour.
LEMMA CountsKept == ASSUME ~SlowHolder PROVE Spec => []CountInv
<1>1. Init => CountInv
  BY DEF Init, CountInv
<1>2. TypeOK /\ LockInv /\ CountInv /\ [Next]_vars => CountInv'
  <2> SUFFICES ASSUME TypeOK, LockInv, CountInv, [Next]_vars PROVE CountInv'
    OBVIOUS
  <2>1. CASE \E w \in Worker : Step(w)
    BY <2>1, CountStep
  <2>2. ASSUME NEW w \in Worker, NEW r \in Requests, Receive(w, r) PROVE CountInv'
    BY <2>2 DEF Receive, Goto, CountInv, TypeOK
  <2>3. CASE Crash
    BY <2>3 DEF Crash, CountInv
  <2>4. CASE Tick
    BY <2>4 DEF Tick, CountInv
  <2>5. CASE UNCHANGED vars
    BY <2>5 DEF vars, CountInv
  <2> QED
    BY <2>1, <2>2, <2>3, <2>4, <2>5 DEF Next
<1> QED
  BY <1>1, <1>2, TypeCorrect, LockExclusion, PTL DEF Spec

\* The file changes only in state_put(), to what the thread decided.
LEMMA FileMoves ==
  ASSUME TypeOK, [Next]_vars
  PROVE  \/ file' = file /\ fails' = fails
         \/ \E w \in Worker : pc[w] = "put" /\ StatePut(w)
<1>1. ASSUME NEW w \in Worker, Step(w), ~StatePut(w)
      PROVE  file' = file /\ fails' = fails
  BY <1>1 DEF Step, Goto, LookupFails, RecordFails, StaticPassword, Decided, WrongLength,
     LookupDone, LockGet, StateRead, StateReadFails, GiveUp, DecideAsync,
     DecideSync, DecideNoMatch, StatePutFails, LockPut, Reply, ghosts
<1>2. ASSUME NEW w \in Worker, NEW r \in Requests, Receive(w, r)
      PROVE  file' = file /\ fails' = fails
  BY <1>2 DEF Receive, ghosts
<1>3. Crash \/ Tick \/ UNCHANGED vars => file' = file /\ fails' = fails
  BY DEF Crash, Tick, vars, ghosts
<1>4. \A w \in Worker : StatePut(w) => pc[w] = "put"
  BY DEF StatePut, Goto
<1> QED
  BY <1>1, <1>2, <1>3, <1>4 DEF Next

\* A verdict is persisted by state_put() and by nothing else.
LEMMA PersistsPuts ==
  ASSUME TypeOK, [Next]_vars, NEW w \in Worker, Persists(w)
  PROVE  StatePut(w)
<1>1. pc[w] = "put" /\ pc'[w] = "unlock" /\ res[w].updated /\ res'[w] = res[w]
  BY DEF Persists
<1>2. Step(w)
  <2>1. ASSUME NEW v \in Worker, Step(v), v # w PROVE FALSE
    BY <1>1, <2>1, StepFrame
  <2>2. ASSUME NEW v \in Worker, NEW r \in Requests, Receive(v, r) PROVE FALSE
    BY <1>1, <2>2 DEF Receive, Goto, TypeOK
  <2>3. ~Crash /\ ~Tick /\ ~UNCHANGED vars
    BY <1>1 DEF Crash, Tick, vars
  <2> QED
    BY <2>1, <2>2, <2>3 DEF Next
<1>3. ~StatePutFails(w)
  BY <1>1 DEF StatePutFails, Fail, Error, TypeOK
<1> QED
  BY <1>1, <1>2, <1>3 DEF Step, Goto, LookupFails, RecordFails, StaticPassword, Decided,
     WrongLength, LookupDone, LockGet, StateRead, StateReadFails, GiveUp,
     DecideAsync, DecideSync, DecideNoMatch, LockPut, Reply

\* What state_put() makes of the counts.
LEMMA PutCounts ==
  ASSUME TypeOK, CountInv, NEW w \in Worker, pc[w] = "put", StatePut(w)
  PROVE  \/ file' = file /\ fails' = fails
         \/ /\ hardfail > 0 => file.failcount < hardfail
            /\ file'.failcount = 0 /\ fails' = 0
         \/ /\ file'.failcount = Bump(file.failcount)
            /\ fails' = IF fails < UIntMax THEN fails + 1 ELSE fails
<1>1. res[w].s \in StateRec
  BY DEF TypeOK, Result
<1>2. CASE ~res[w].updated
  BY <1>2 DEF StatePut
<1>3. CASE res[w].updated
  <2>1. file'.failcount = res[w].s.failcount
    BY <1>1, <1>3 DEF StatePut, Unparsed, StateRec
  <2>2. fails' = IF res[w].rc = "OK" THEN 0
                 ELSE IF fails < UIntMax THEN fails + 1 ELSE fails
    BY <1>3 DEF StatePut
  <2> QED
    BY <1>3, <2>1, <2>2 DEF CountInv
<1> QED
  BY <1>2, <1>3

\* A user locked out by hardfail stays locked out, whatever the threads and
\* their passcodes (otp.c:307-309; otpd.conf:183-184).
THEOREM HardfailHolds == ASSUME ~SlowHolder PROVE Spec => HardfailSticks
<1> DEFINE Sticks == hardfail > 0 /\ file.failcount >= hardfail
                       => file'.failcount >= hardfail
<1>1. TypeOK /\ CountInv /\ [Next]_vars => Sticks
  <2> SUFFICES ASSUME TypeOK, CountInv, [Next]_vars, hardfail > 0,
                      file.failcount >= hardfail
               PROVE  file'.failcount >= hardfail
    OBVIOUS
  <2>1. file.failcount \in Nat /\ hardfail \in Nat
    BY UIntAssumption, WindowAssumption DEF TypeOK, StateRec
  <2>2. CASE file' = file
    BY <2>2
  <2>3. ASSUME NEW w \in Worker, pc[w] = "put", StatePut(w)
        PROVE  file'.failcount >= hardfail
    BY <2>1, <2>3, PutCounts DEF Bump
  <2> QED
    BY <2>2, <2>3, FileMoves
<1> QED
  BY <1>1, TypeCorrect, CountsKept, PTL DEF Spec, HardfailSticks

\* Concurrent requests lose no failure: failcount is the number of failures
\* since the last success until it saturates (otp.c:638-641).
THEOREM FailcountCounts == ASSUME ~SlowHolder PROVE Spec => []FailcountExact
<1>1. Init => FailcountExact
  BY InitAssumption, UIntAssumption DEF Init, FailcountExact, StateRec
<1>2. TypeOK /\ CountInv /\ FailcountExact /\ [Next]_vars => FailcountExact'
  <2> SUFFICES ASSUME TypeOK, CountInv, FailcountExact, [Next]_vars
               PROVE  FailcountExact'
    OBVIOUS
  <2>1. file.failcount \in Nat /\ fails \in Nat /\ UIntMax \in Nat /\ UIntMax > 1
    BY UIntAssumption DEF TypeOK, StateRec
  <2>2. CASE file' = file /\ fails' = fails
    BY <2>2 DEF FailcountExact
  <2>3. ASSUME NEW w \in Worker, pc[w] = "put", StatePut(w)
        PROVE  FailcountExact'
    BY <2>1, <2>3, PutCounts DEF Bump, FailcountExact
  <2> QED
    BY <2>2, <2>3, FileMoves
<1> QED
  BY <1>1, <1>2, TypeCorrect, CountsKept, PTL DEF Spec
-----------------------------------------------------------------------------
(* No passcode of an event-synchronous token is accepted twice. *)

\* A token that walks a chain of challenges, not used in async mode.
EventOnly == Counting /\ ~(AM /\ allow_async) /\ ~SlowHolder

\* The verdict of w is on disk and is, or will be, the answer OK.
Sent(w) == /\ pc[w] \in {"unlock", "reply"}
           /\ res[w].rc = "OK" /\ res[w].how \in {"sync", "resync"}

\* The stored challenge of f is at or beyond the challenge c answers.
Behind(c, f) ==
  f.clen = SyncLen /\ c.chain = f.chal.chain /\ c.pos <= f.chal.pos

\* Writing the result r of request q over f moves the challenge strictly
\* forward to the one just answered, or leaves it; only a blank challenge may
\* be replaced by one of another chain.
Advances(r, q, f) ==
  IF r.rc = "OK"
  THEN /\ r.s.clen = SyncLen /\ q.pass = r.s.chal
       /\ f.clen = SyncLen =>
            r.s.chal.chain = f.chal.chain /\ r.s.chal.pos > f.chal.pos
  ELSE f.clen = SyncLen => r.s.clen = SyncLen /\ r.s.chal = f.chal

ReplayInv ==
  /\ \A c \in okd : Behind(c, file)
  /\ \A w \in Worker : Sent(w) => Behind(req[w].pass, file) /\ req[w].pass \notin okd
  /\ \A v, w \in Worker : Sent(v) /\ Sent(w) /\ req[v].pass = req[w].pass => v = w
  /\ \A w \in Worker : pc[w] # "idle" => req[w] \in Requests
  /\ \A w \in Worker : pc[w] = "put" /\ res[w].updated => Advances(res[w], req[w], file)

\* Reading, walking and the rwindow data leave a stored challenge alone.
LEMMA ChalKept ==
  ASSUME NEW s \in StateRec, NEW e \in Nat, NEW ok \in BOOLEAN
  PROVE  /\ Parsed(s).clen = s.clen /\ Parsed(s).chal = s.chal
         /\ s.clen = SyncLen => Walked(s) = s
         /\ updatecsd(s, e, ok).clen = s.clen /\ updatecsd(s, e, ok).chal = s.chal
<1>1. Parsed(s).clen = s.clen /\ Parsed(s).chal = s.chal
  BY DEF Parsed, StateRec
<1>2. s.clen = SyncLen => Walked(s) = s
  BY DEF Walked
<1>3. updatecsd(s, e, ok).clen = s.clen /\ updatecsd(s, e, ok).chal = s.chal
  BY DEF updatecsd, StateRec
<1> QED
  BY <1>1, <1>2, <1>3

\* The challenge a verdict writes.
LEMMA VerdictChal ==
  ASSUME NEW rc \in RC, NEW how \in How, NEW s \in StateRec, NEW c \in Points,
         NEW t \in Nat, NEW v, v = Verdict(rc, how, s, c, t)
  PROVE  /\ v.rc = rc /\ v.s.clen = s.clen
         /\ v.s.chal = IF rc = "OK" THEN c ELSE s.chal
<1>1. Accepted(s, c, t).clen = s.clen /\ Accepted(s, c, t).chal = c
  BY DEF Accepted, StateRec
<1>2. Rejected(s, t).clen = s.clen /\ Rejected(s, t).chal = s.chal
  BY DEF Rejected, StateRec
<1> QED
  BY <1>1, <1>2 DEF Verdict

\* Every decision moves the challenge forward or leaves it.
LEMMA DecideAdvances ==
  ASSUME EventOnly, TypeOK, CountInv, ReplayInv, NEW w \in Worker, Step(w),
         pc[w] = "decide", res'[w].updated
  PROVE  Advances(res'[w], req[w], file)
<1> DEFINE s == Parsed(res[w].s)
<1>1. /\ res[w].s = file /\ file \in StateRec /\ s \in StateRec /\ now[w] \in Nat
      /\ req[w] \in ReqType /\ s.clen = file.clen /\ s.chal = file.chal
  BY ParsedType, ChalKept DEF CountInv, TypeOK, Result
<1>2. ~AsyncTried(req[w])
  BY DEF EventOnly, AsyncTried
<1>3. CASE GiveUp(w)
  BY <1>3 DEF GiveUp, Decided, Error, TypeOK
<1>4. CASE DecideAsync(w)
  BY <1>2, <1>4 DEF DecideAsync, AsyncMatch, compare
<1>5. CASE DecideSync(w)
  <2>1. PICK e \in Window(w), fc \in FailConditions(s, now[w]) :
          Decided(w, SyncVerdict(fc, s, req[w], now[w], e))
    BY <1>5 DEF DecideSync
  <2>2. e \in Nat
    BY <2>1, WindowAssumption DEF Window, Positions, WindowEnd
  <2>3. req[w].pass = challenge(Start(s, req[w]), e)
    BY <2>1 DEF Window, Positions, compare, response, EventOnly
  <2>5. s.clen = SyncLen => /\ req[w].pass.chain = s.chal.chain
                            /\ req[w].pass.pos = s.chal.pos + e + 1
    BY <2>3 DEF Start, challenge, Point, SyncLen
  <2>6. s.chal.pos \in Nat /\ s.chal \in Points
    BY <1>1 DEF StateRec, Points
  <2> DEFINE rc == SyncRc(fc, s, now[w], e)
             how == IF rc = "OK" /\ isconsecutive(s, e) THEN "resync" ELSE "sync"
             u == updatecsd(Walked(s), e, rc = "OK")
  <2>7. res'[w] = Verdict(rc, how, u, req[w].pass, now[w])
    BY <2>1, <2>3 DEF Decided, TypeOK, SyncVerdict, EventOnly
  <2>8. rc \in RC /\ how \in How
    BY DEF SyncRc, RC, How
  <2>9. u \in StateRec /\ u.clen = SyncLen /\ (s.clen = SyncLen => u.chal = s.chal)
    <3> DEFINE x == Walked(s)
    <3>1. x \in StateRec
      BY <1>1, WalkedType
    <3>2. x.clen = SyncLen /\ (s.clen = SyncLen => x.chal = s.chal)
      BY <1>1 DEF Walked, EventOnly, StateRec
    <3>3. u = updatecsd(x, e, rc = "OK")
      OBVIOUS
    <3> HIDE DEF s, rc, u, x
    <3> QED
      BY <2>2, <3>1, <3>2, <3>3, UpdatecsdType, ChalKept
  <2>10. req[w].pass \in Points
    BY <1>1 DEF ReqType
  <2> HIDE DEF rc, how, u
  <2>11. /\ res'[w].rc = rc /\ res'[w].s.clen = SyncLen
         /\ res'[w].s.chal = IF rc = "OK" THEN req[w].pass ELSE u.chal
    BY <1>1, <2>7, <2>8, <2>9, <2>10, VerdictChal
  <2> QED
    BY <1>1, <2>2, <2>5, <2>6, <2>9, <2>11 DEF Advances
<1>6. CASE DecideNoMatch(w)
  <2> DEFINE t == IF SyncTried THEN Walked(s) ELSE s
  <2>1. res'[w] = Verdict("AUTH_ERR", "none", t, s.chal, now[w])
    BY <1>6 DEF DecideNoMatch, Decided, TypeOK
  <2>2. t \in StateRec /\ s.chal \in Points /\ (s.clen = SyncLen => t = s)
    BY <1>1, WalkedType, ChalKept DEF StateRec
  <2>3. "AUTH_ERR" \in RC /\ "none" \in How
    BY DEF RC, How
  <2> HIDE DEF s, t
  <2>4. /\ res'[w].rc = "AUTH_ERR" /\ res'[w].s.clen = t.clen
        /\ res'[w].s.chal = t.chal
    BY <1>1, <2>1, <2>2, <2>3, VerdictChal
  <2> QED
    BY <1>1, <2>2, <2>4 DEF Advances
<1> QED
  BY <1>3, <1>4, <1>5, <1>6 DEF Step, Goto, LookupFails, RecordFails, StaticPassword,
     WrongLength, LookupDone, LockGet, StateRead, StateReadFails, StatePut,
     StatePutFails, LockPut, Reply

\* Outside state_put() no new OK is on its way to a reply.
LEMMA NothingSent ==
  ASSUME TypeOK, NEW w \in Worker, Step(w), ~StatePut(w), Sent(w)'
  PROVE  Sent(w)
<1>1. CASE LookupFails(w)
  BY <1>1 DEF LookupFails, Fail, Error, Sent, TypeOK
<1>r. CASE RecordFails(w)
  BY <1>r DEF RecordFails, Fail, Error, Sent, TypeOK
<1>2. CASE StaticPassword(w)
  BY <1>2 DEF StaticPassword, StaticVerdict, NoResult, Error, Sent, TypeOK
<1>3. CASE WrongLength(w)
  BY <1>3 DEF WrongLength, Fail, Error, Sent, TypeOK
<1>4. CASE LookupDone(w)
  BY <1>4 DEF LookupDone, Goto, Fail, Error, Sent, TypeOK
<1>5. CASE LockGet(w)
  BY <1>5 DEF LockGet, Goto, Fail, Error, Sent, TypeOK
<1>6. CASE StateRead(w) \/ GiveUp(w) \/ DecideAsync(w) \/ DecideSync(w)
           \/ DecideNoMatch(w) \/ Reply(w)
  BY <1>6 DEF StateRead, GiveUp, DecideAsync, DecideSync, DecideNoMatch, Reply,
              Decided, Goto, Sent, TypeOK
<1>7. CASE StateReadFails(w)
  BY <1>7 DEF StateReadFails, Fail, Error, Sent, TypeOK
<1>8. CASE StatePutFails(w)
  BY <1>8 DEF StatePutFails, Fail, Error, Sent, TypeOK
<1>9. CASE LockPut(w)
  BY <1>9 DEF LockPut, Goto, Sent, TypeOK
<1> QED
  BY <1>1, <1>r, <1>2, <1>3, <1>4, <1>5, <1>6, <1>7, <1>8, <1>9 DEF Step

\* A step of a thread keeps the replay invariant.
LEMMA ReplayStep ==
  ASSUME EventOnly, TypeOK, LockInv, CountInv, ReplayInv, NEW w \in Worker, Step(w)
  PROVE  ReplayInv'
<1>1. \A v \in Worker \ {w} : /\ pc'[v] = pc[v] /\ res'[v] = res[v]
                              /\ req'[v] = req[v] /\ (Sent(v)' <=> Sent(v))
  BY StepFrame DEF Sent
<1>2. \A v \in Worker : pc'[v] # "idle" => req'[v] \in Requests /\ req'[v] = req[v]
  <2>1. pc'[w] # "idle" => pc[w] # "reply" /\ pc[w] # "idle"
    BY StepMoves DEF LockGet, LockPut, Goto, TypeOK
  <2> QED
    BY <1>1, <2>1, StepFrame DEF ReplayInv
<1>3. \A v \in Worker : pc'[v] = "put" /\ res'[v].updated
                          => Advances(res'[v], req'[v], file')
  <2>1. ASSUME NEW v \in Worker, v # w, pc'[v] = "put", res'[v].updated
        PROVE  Advances(res'[v], req'[v], file')
    <3>1. pc[w] # "put"
      BY <1>1, <2>1 DEF LockInv, InLock
    <3>2. file' = file
      BY <3>1, StepFrame
    <3> QED
      BY <1>1, <2>1, <3>2 DEF ReplayInv
  <2>2. ASSUME pc'[w] = "put", res'[w].updated
        PROVE  Advances(res'[w], req'[w], file')
    <3>1. pc[w] = "decide"
      BY <2>2, StepMoves DEF LockGet, LockPut, Goto, TypeOK
    <3>2. file' = file /\ req' = req
      BY <3>1, StepFrame
    <3> QED
      BY <2>2, <3>1, <3>2, DecideAdvances
  <2> QED
    BY <2>1, <2>2
<1>4. CASE StatePut(w) /\ res[w].updated
  <2>1. /\ pc[w] = "put" /\ pc'[w] = "unlock" /\ res' = res /\ req' = req
        /\ okd' = okd /\ file' = Unparsed(res[w].s)
    BY <1>4 DEF StatePut, Goto, TypeOK
  <2>2. res[w].s \in StateRec /\ file \in StateRec
    BY DEF TypeOK, Result
  <2>3. file'.clen = res[w].s.clen /\ file'.chal = res[w].s.chal
    BY <2>1, <2>2 DEF Unparsed, StateRec
  <2>4. Advances(res[w], req[w], file)
    BY <1>4, <2>1 DEF ReplayInv
  <2>5. \A c \in Points : Behind(c, file) => Behind(c, file')
    <3> SUFFICES ASSUME NEW c \in Points, Behind(c, file) PROVE Behind(c, file')
      OBVIOUS
    <3>1. c.pos \in Nat /\ file.chal.pos \in Nat /\ res[w].s.chal.pos \in Nat
      BY <2>2 DEF Points, StateRec
    <3> QED
      BY <2>3, <2>4, <3>1 DEF Behind, Advances
  <2>6. \A c \in okd : Behind(c, file')
    BY <2>5 DEF ReplayInv, TypeOK
  <2>7. \A v \in Worker \ {w} : Sent(v)' => Behind(req[v].pass, file)
                                  /\ Behind(req[v].pass, file') /\ req[v].pass \notin okd
    BY <1>1, <2>5 DEF ReplayInv, TypeOK, ReqType
  <2>8. Sent(w)' => /\ Behind(req[w].pass, file')
                    /\ \A c \in Points : Behind(c, file) => c # req[w].pass
    <3> SUFFICES ASSUME Sent(w)'
                 PROVE  /\ Behind(req[w].pass, file')
                        /\ \A c \in Points : Behind(c, file) => c # req[w].pass
      OBVIOUS
    <3>1. res[w].rc = "OK"
      BY <2>1 DEF Sent
    <3>2. file.chal.pos \in Nat /\ res[w].s.chal.pos \in Nat
      BY <2>2 DEF Points, StateRec
    <3> QED
      BY <2>3, <2>4, <3>1, <3>2 DEF Advances, Behind
  <2>9. Sent(w)' => req[w].pass \notin okd
                    /\ \A v \in Worker \ {w} : Sent(v)' => req[v].pass # req[w].pass
    BY <2>7, <2>8 DEF ReplayInv, TypeOK, ReqType
  <2> QED
    BY <1>1, <1>2, <1>3, <2>1, <2>6, <2>7, <2>8, <2>9 DEF ReplayInv
<1>5. CASE StatePut(w) /\ ~res[w].updated
  <2>1. /\ pc[w] = "put" /\ pc'[w] = "unlock" /\ res' = res /\ req' = req
        /\ okd' = okd /\ file' = file
    BY <1>5 DEF StatePut, Goto, TypeOK
  <2>2. ~Sent(w)'
    BY <1>5, <2>1 DEF Sent, CountInv
  <2> QED
    BY <1>1, <1>2, <1>3, <2>1, <2>2 DEF ReplayInv
<1>6. CASE Reply(w)
  <2>1. /\ pc[w] = "reply" /\ pc'[w] = "idle" /\ file' = file
        /\ okd' = IF Sent(w) THEN okd \cup {req[w].pass} ELSE okd
    BY <1>6 DEF Reply, Goto, Sent, TypeOK
  <2>2. ~Sent(w)'
    BY <2>1 DEF Sent
  <2>3. \A c \in okd' : Behind(c, file')
    BY <2>1 DEF ReplayInv
  <2>4. \A v \in Worker \ {w} : Sent(v) => req[v].pass \notin okd'
    BY <2>1 DEF ReplayInv
  <2> QED
    BY <1>1, <1>2, <1>3, <2>1, <2>2, <2>3, <2>4 DEF ReplayInv
<1>7. CASE ~StatePut(w) /\ ~Reply(w)
  <2>1. pc[w] # "reply"
    BY <1>7 DEF Step, Goto, LookupFails, RecordFails, StaticPassword, Decided, WrongLength,
       LookupDone, LockGet, StateRead, StateReadFails, GiveUp, DecideAsync,
       DecideSync, DecideNoMatch, StatePutFails, LockPut
  <2>2. okd' = okd /\ req' = req
    BY <2>1, StepFrame
  <2>3. file' = file
    BY <1>7 DEF Step, LookupFails, RecordFails, StaticPassword, Decided, WrongLength,
       LookupDone, LockGet, StateRead, StateReadFails, GiveUp, DecideAsync,
       DecideSync, DecideNoMatch, StatePutFails, LockPut
  <2>4. \A v \in Worker : Sent(v)' => Sent(v)
    BY <1>1, <1>7, NothingSent
  <2> QED
    BY <1>2, <1>3, <2>2, <2>3, <2>4 DEF ReplayInv
<1> QED
  BY <1>4, <1>5, <1>6, <1>7

\* No passcode of an event-synchronous token is answered OK twice, whatever
\* the threads, crashes and failed writes, as long as no thread holds the
\* lock past its expiry (otp.c:659-665).
THEOREM ReplayFree == ASSUME EventOnly PROVE Spec => []NoReplay
<1>0. ~SlowHolder
  BY DEF EventOnly
<1>1. Init => ReplayInv
  BY DEF Init, ReplayInv, Sent
<1>2. TypeOK /\ LockInv /\ CountInv /\ ReplayInv /\ [Next]_vars => ReplayInv'
  <2> SUFFICES ASSUME TypeOK, LockInv, CountInv, ReplayInv, [Next]_vars
               PROVE  ReplayInv'
    OBVIOUS
  <2>1. CASE \E w \in Worker : Step(w)
    BY <2>1, ReplayStep
  <2>2. ASSUME NEW w \in Worker, NEW r \in Requests, Receive(w, r) PROVE ReplayInv'
    <3>1. /\ pc[w] = "idle" /\ pc'[w] = "lookup" /\ file' = file /\ okd' = okd
          /\ res' = res /\ req' = [req EXCEPT ![w] = r]
          /\ \A v \in Worker \ {w} : pc'[v] = pc[v]
      BY <2>2 DEF Receive, Goto, TypeOK, ghosts
    <3>2. \A v \in Worker : Sent(v)' => v # w /\ Sent(v)
      BY <3>1 DEF Sent
    <3>3. \A v \in Worker \ {w} : req'[v] = req[v]
      BY <3>1 DEF TypeOK
    <3>4. req'[w] \in Requests
      BY <3>1 DEF TypeOK
    <3> QED
      BY <3>1, <3>2, <3>3, <3>4 DEF ReplayInv
  <2>3. CASE Crash
    BY <2>3 DEF Crash, ReplayInv, Sent, ghosts
  <2>4. CASE Tick
    BY <2>4 DEF Tick, ReplayInv, Sent, ghosts
  <2>5. CASE UNCHANGED vars
    BY <2>5 DEF vars, ReplayInv, Sent, ghosts
  <2> QED
    BY <2>1, <2>2, <2>3, <2>4, <2>5 DEF Next
<1>3. ReplayInv => NoReplay
  BY DEF ReplayInv, NoReplay, Winning, Sent
<1> QED
  BY <1>0, <1>1, <1>2, <1>3, TypeCorrect, LockExclusion, CountsKept, PTL DEF Spec
-----------------------------------------------------------------------------
(* The softfail delay. *)

\* The time the file gives its last request.
When(f) == Parsed(f).authtime

\* A verdict r on the file f at time t writes that time, and honours the delay
\* that is promised after f's failures unless two consecutive passcodes skip it.
Paced(r, t, f) ==
  /\ When(Unparsed(r.s)) = t
  /\ r.rc = "OK" /\ r.how \in {"sync", "async"} /\ softfail > 0
       /\ f.failcount >= softfail /\ f.failcount - softfail <= IntMax
       => When(f) >= 0 /\ t >= When(f) + Promised(f.failcount - softfail)

\* No failure is counted before it has happened, and none is later than the
\* file says by more than a request may take.
DelayInv ==
  /\ \A w \in Worker : now[w] <= clock
  /\ lastFail <= clock
  /\ lastFail > 0 => When(file) + Timeout >= lastFail
  /\ \A w \in Worker : pc[w] = "put" /\ res[w].updated =>
       now[w] + Timeout >= lastFail /\ Paced(res[w], now[w], file)

\* The promised delay is a number of seconds.
LEMMA PromisedType == ASSUME NEW n \in Nat PROVE Promised(n) \in Nat
<1>1. (IF n < 5 THEN n + 1 ELSE 6) \in 1 .. 6
  OBVIOUS
<1>2. PromisedMinutes[IF n < 5 THEN n + 1 ELSE 6] \in Nat
  BY <1>1 DEF PromisedMinutes
<1> QED
  BY <1>2, TimeAssumption DEF Promised

\* As long as the failures beyond softfail fit an int, the program's shifts
\* give the promised delay.
LEMMA DelayAsPromised ==
  ASSUME NEW n \in Nat, n <= IntMax PROVE Delays(n) = {Promised(n)}
<1>1. 2^0 = 1 /\ 2^1 = 2 /\ 2^2 = 4 /\ 2^3 = 8 /\ 2^4 = 16 /\ 2^5 = 32
  BY SMT
<1> DEFINE d == IF n > 5 THEN 32 ELSE 2 ^ n
           m == PromisedMinutes[IF n < 5 THEN n + 1 ELSE 6]
<1>2. n \in 0 .. 5 \/ n > 5
  OBVIOUS
<1>3. d = m
  <2>0. CASE n = 0
    BY <1>1, <2>0 DEF PromisedMinutes
  <2>1. CASE n = 1
    BY <1>1, <2>1 DEF PromisedMinutes
  <2>2. CASE n = 2
    BY <1>1, <2>2 DEF PromisedMinutes
  <2>3. CASE n = 3
    BY <1>1, <2>3 DEF PromisedMinutes
  <2>4. CASE n = 4
    BY <1>1, <2>4 DEF PromisedMinutes
  <2>5. CASE n = 5
    BY <1>1, <2>5 DEF PromisedMinutes
  <2>6. CASE n > 5
    BY <2>6 DEF PromisedMinutes
  <2> HIDE DEF d, m
  <2> QED
    BY <1>2, <2>0, <2>1, <2>2, <2>3, <2>4, <2>5, <2>6
<1>4. Delays(n) = {d * Minute} /\ Promised(n) = Minute * m
  BY IntAssumption DEF Delays, Promised
<1>5. m \in Nat
  <2>1. (IF n < 5 THEN n + 1 ELSE 6) \in 1 .. 6
    OBVIOUS
  <2> QED
    BY <2>1 DEF PromisedMinutes
<1> HIDE DEF d, m
<1>6. d * Minute = Minute * m
  BY <1>3, <1>5, TimeAssumption
<1> QED
  BY <1>4, <1>6

\* A user with a state file who is not delayed has waited long enough.
LEMMA NotDelayed ==
  ASSUME NEW f \in StateRec, NEW t \in Nat, "none" \in FailConditions(Parsed(f), t),
         softfail > 0, f.failcount >= softfail, f.failcount - softfail <= IntMax
  PROVE  When(f) >= 0 /\ t >= When(f) + Promised(f.failcount - softfail)
<1> DEFINE s == Parsed(f)
           n == f.failcount - softfail
           d == Promised(n)
<1>1. s \in StateRec /\ s.failcount = f.failcount
  BY ParsedType DEF Parsed, StateRec
<1>2. n \in Nat /\ Delays(n) = {d}
  <2>1. n \in Nat
    BY UIntAssumption, WindowAssumption DEF StateRec
  <2> QED
    BY <2>1, DelayAsPromised
<1>3. s.authtime \in Int /\ f.authtime \in Int /\ d \in Int
  <2>1. d \in Int
    <3> HIDE DEF n
    <3> QED
      BY <1>2, PromisedType
  <2> QED
    BY <1>1, <2>1 DEF StateRec
<1>4. ~s.null
  BY DEF FailConditions
<1>5. ~(t < s.authtime + d)
  <2> HIDE DEF s, d
  <2>1. \E x \in Delays(s.failcount - softfail) : ~(t < s.authtime + x)
    BY <1>1 DEF FailConditions, s
  <2> QED
    BY <1>1, <1>2, <2>1
<1>6. s.authtime >= 0
  BY <1>3, <1>4 DEF Parsed, StateRec
<1> HIDE DEF s, d, n
<1>7. t >= s.authtime + d
  BY <1>3, <1>5
<1> QED
  BY <1>6, <1>7 DEF s, d, n, When

\* Every verdict stamps the state with the time of its request.
LEMMA VerdictWhen ==
  ASSUME NEW rc \in RC, NEW how \in How, NEW s \in StateRec, NEW c \in Points,
         NEW t \in Nat, NEW v, v = Verdict(rc, how, s, c, t)
  PROVE  /\ v.rc = rc /\ v.how = how
         /\ When(Unparsed(v.s)) = t
<1>1. v.rc = rc /\ v.how = how /\ v.s \in StateRec
  BY AcceptedType, RejectedType DEF Verdict
<1>2. v.s.authtime \in {t, -t}
  <2>1. Accepted(s, c, t).authtime = t
    BY DEF Accepted, StateRec
  <2>2. Rejected(s, t).authtime = IF s.null THEN -t ELSE t
    BY DEF Rejected, StateRec
  <2> QED
    BY <2>1, <2>2 DEF Verdict
<1> DEFINE u == Unparsed(v.s)
<1>3. u \in StateRec /\ ~u.null /\ u.authtime = v.s.authtime
  BY <1>1, UnparsedType DEF Unparsed, StateRec
<1>4. Parsed(u).authtime = IF u.authtime < 0 THEN -u.authtime ELSE u.authtime
  <2> HIDE DEF u
  <2> QED
    BY <1>3 DEF Parsed, StateRec
<1> QED
  BY <1>1, <1>2, <1>3, <1>4 DEF When

\* Every decision is paced.
LEMMA DecidePaced ==
  ASSUME TypeOK, CountInv, DelayInv, NEW w \in Worker, Step(w), pc[w] = "decide",
         res'[w].updated
  PROVE  now[w] + Timeout >= lastFail /\ Paced(res'[w], now[w], file)
<1> DEFINE s == Parsed(res[w].s)
<1>1. /\ res[w].s = file /\ file \in StateRec /\ s \in StateRec /\ now[w] \in Nat
      /\ req[w] \in ReqType
  BY ParsedType DEF CountInv, TypeOK, Result
<1>2. ~GiveUp(w)
  BY DEF GiveUp, Decided, Error, TypeOK
<1>3. DecideAsync(w) \/ DecideSync(w) \/ DecideNoMatch(w)
  BY <1>2 DEF Step, Goto, LookupFails, RecordFails, StaticPassword,
     WrongLength, LookupDone, LockGet, StateRead, StateReadFails, StatePut,
     StatePutFails, LockPut, Reply
<1>4. now[w] + Timeout >= lastFail
  <2>1. ~(clock - now[w] > Timeout)
    BY <1>3 DEF DecideAsync, DecideSync, DecideNoMatch, Hopeless
  <2>2. lastFail <= clock /\ clock \in Nat /\ lastFail \in Nat
    BY DEF DelayInv, TypeOK
  <2> QED
    BY <1>1, <2>1, <2>2, TimeAssumption
<1>5. ASSUME NEW rc \in RC, NEW how \in How, NEW x \in StateRec, NEW c \in Points,
             res'[w] = Verdict(rc, how, x, c, now[w]),
             rc = "OK" /\ how \in {"sync", "async"} => "none" \in FailConditions(s, now[w])
      PROVE  Paced(res'[w], now[w], file)
  <2>1. PICK v : v = Verdict(rc, how, x, c, now[w])
    OBVIOUS
  <2>2. v.rc = rc /\ v.how = how /\ When(Unparsed(v.s)) = now[w]
    BY <1>1, <2>1, VerdictWhen
  <2>3. ASSUME rc = "OK", how \in {"sync", "async"}, softfail > 0, file.failcount >= softfail,
               file.failcount - softfail <= IntMax
        PROVE  When(file) >= 0 /\ now[w] >= When(file) + Promised(file.failcount - softfail)
    BY <1>1, <1>5, <2>3, NotDelayed
  <2> HIDE DEF s
  <2> QED
    BY <1>5, <2>1, <2>2, <2>3 DEF Paced
<1>6. CASE DecideAsync(w)
  <2> DEFINE c == IF resync THEN Resynced(s, req[w].chal) ELSE s.chal
  <2>0. PICK fc \in FailConditions(s, now[w]) :
          Decided(w, AsyncVerdict(fc, s, req[w], now[w]))
    BY <1>6 DEF DecideAsync
  <2>1. res'[w] = Verdict(AsyncRc(fc, s, now[w]), "async", s, c, now[w])
    BY <2>0 DEF Decided, TypeOK, AsyncVerdict
  <2>2. AsyncRc(fc, s, now[w]) = "OK" => "none" \in FailConditions(s, now[w])
    BY <2>0 DEF AsyncRc
  <2>3. c \in Points
    <3>1. req[w].chal \in AsyncChal
      BY <1>1, <1>6 DEF DecideAsync, AsyncMatch, AsyncTried, ReqType
    <3>2. Point(req[w].chal, 0) \in Points /\ Point("undef", 0) \in Points
      BY <3>1 DEF Points, Point, Starts
    <3> QED
      BY <1>1, <3>2 DEF Resynced, StateRec
  <2>4. AsyncRc(fc, s, now[w]) \in RC /\ "async" \in How
    BY DEF AsyncRc, RC, How
  <2> HIDE DEF s, c
  <2> QED
    BY <1>1, <1>4, <1>5, <2>1, <2>2, <2>3, <2>4
<1>7. CASE DecideSync(w)
  <2>1. PICK e \in Window(w), fc \in FailConditions(s, now[w]) :
          Decided(w, SyncVerdict(fc, s, req[w], now[w], e))
    BY <1>7 DEF DecideSync
  <2>2. e \in Nat
    BY <2>1, WindowAssumption DEF Window, Positions, WindowEnd
  <2> DEFINE rc == SyncRc(fc, s, now[w], e)
             how == IF rc = "OK" /\ isconsecutive(s, e) THEN "resync" ELSE "sync"
             u == updatecsd(Walked(s), e, rc = "OK")
             c == IF Counting THEN challenge(Start(s, req[w]), e) ELSE s.chal
  <2>3. res'[w] = Verdict(rc, how, u, c, now[w])
    BY <2>1 DEF Decided, TypeOK, SyncVerdict
  <2>4. rc \in RC /\ how \in How
    BY DEF SyncRc, RC, How
  <2>5. rc = "OK" /\ how \in {"sync", "async"} => "none" \in FailConditions(s, now[w])
    <3>1. fc \in {"hard", "soft", "none"}
      BY <1>1, <2>1, NotHard
    <3>2. rc = "OK" /\ how \in {"sync", "async"} => ~isconsecutive(s, e)
      BY Zenon
    <3>3. rc = "OK" /\ ~isconsecutive(s, e) => fc \notin {"hard", "soft"}
      BY DEF SyncRc
    <3> QED
      BY <2>1, <3>1, <3>2, <3>3
  <2>6. u \in StateRec
    BY <1>1, <2>2, WalkedType, UpdatecsdType
  <2>7. c \in Points
    <3>1. Start(s, req[w]) \in Points
      BY <1>1, StartType
    <3> QED
      BY <1>1, <2>2, <3>1 DEF challenge, Point, Points, StateRec
  <2> HIDE DEF rc, how, u, c, s
  <2> QED
    BY <1>4, <1>5, <2>3, <2>4, <2>5, <2>6, <2>7
<1>8. CASE DecideNoMatch(w)
  <2> DEFINE t == IF SyncTried THEN Walked(s) ELSE s
  <2>1. res'[w] = Verdict("AUTH_ERR", "none", t, s.chal, now[w])
    BY <1>8 DEF DecideNoMatch, Decided, TypeOK
  <2>2. t \in StateRec /\ s.chal \in Points
    BY <1>1, WalkedType DEF StateRec
  <2>3. "AUTH_ERR" \in RC /\ "none" \in How
    BY DEF RC, How
  <2> HIDE DEF s, t
  <2> QED
    BY <1>4, <1>5, <2>1, <2>2, <2>3
<1> QED
  BY <1>3, <1>6, <1>7, <1>8

\* What a step of one thread leaves of the times.
LEMMA TimeFrame ==
  ASSUME TypeOK, NEW w \in Worker, Step(w)
  PROVE  /\ \A v \in Worker : now'[v] \in {now[v], 0}
         /\ \A v \in Worker \ {w} : now'[v] = now[v]
         /\ pc[w] # "reply" => now' = now
         /\ pc[w] # "put" => lastFail' = lastFail
  BY DEF TypeOK, Step, Goto, Decided, ghosts, LookupFails, RecordFails, StaticPassword,
         WrongLength, LookupDone, LockGet, StateRead, StateReadFails, GiveUp,
         DecideAsync, DecideSync, DecideNoMatch, StatePut, StatePutFails,
         LockPut, Reply

\* A step of a thread keeps the times apart.
LEMMA DelayStep ==
  ASSUME TypeOK, LockInv, CountInv, DelayInv, NEW w \in Worker, Step(w)
  PROVE  DelayInv'
<1>1. clock' = clock /\ clock \in Nat /\ lastFail \in Nat /\ now[w] \in Nat
  BY StepFrame DEF TypeOK
<1>2. \A v \in Worker : now'[v] <= clock'
  BY <1>1, TimeFrame DEF DelayInv, TypeOK
<1>3. \A v \in Worker \ {w} : /\ pc'[v] = pc[v] /\ res'[v] = res[v] /\ now'[v] = now[v]
  BY StepFrame, TimeFrame
<1>4. CASE StatePut(w)
  <2>1. /\ pc[w] = "put" /\ pc'[w] = "unlock"
        /\ file' = IF res[w].updated THEN Unparsed(res[w].s) ELSE file
        /\ lastFail' = IF ~res[w].updated THEN lastFail
                       ELSE IF res[w].rc = "OK" THEN 0
                       ELSE IF now[w] > lastFail THEN now[w] ELSE lastFail
    BY <1>4 DEF StatePut, Goto, TypeOK
  <2>2. \A v \in Worker : pc'[v] # "put"
    BY <1>3, <2>1 DEF LockInv, InLock
  <2>3. CASE ~res[w].updated
    BY <1>1, <1>2, <2>1, <2>2, <2>3 DEF DelayInv
  <2>4. CASE res[w].updated
    <3>1. now[w] <= clock /\ lastFail <= clock
          /\ now[w] + Timeout >= lastFail /\ When(Unparsed(res[w].s)) = now[w]
      BY <2>1, <2>4 DEF DelayInv, Paced
    <3>2. When(file') = now[w]
      BY <2>1, <2>4, <3>1
    <3>3. lastFail' <= clock' /\ (lastFail' > 0 => When(file') + Timeout >= lastFail')
      BY <1>1, <2>1, <2>4, <3>1, <3>2, TimeAssumption
    <3> QED
      BY <1>2, <2>2, <3>3 DEF DelayInv
  <2> QED
    BY <2>3, <2>4
<1>5. CASE ~StatePut(w)
  <2>1. file' = file /\ lastFail' = lastFail
    BY <1>5 DEF Step, LookupFails, RecordFails, StaticPassword, Decided, WrongLength, ghosts,
       LookupDone, LockGet, StateRead, StateReadFails, GiveUp, DecideAsync,
       DecideSync, DecideNoMatch, StatePutFails, LockPut, Reply
  <2>2. ASSUME NEW v \in Worker, pc'[v] = "put", res'[v].updated
        PROVE  now'[v] + Timeout >= lastFail' /\ Paced(res'[v], now'[v], file')
    <3>1. CASE v # w
      BY <1>3, <2>1, <2>2, <3>1 DEF DelayInv
    <3>2. CASE v = w
      <4>1. pc[w] = "decide"
        BY <2>2, <3>2, StepMoves DEF LockGet, LockPut, Goto, TypeOK
      <4>2. now'[w] = now[w]
        BY <4>1, TimeFrame
      <4> QED
        BY <2>1, <2>2, <3>2, <4>1, <4>2, DecidePaced
    <3> QED
      BY <3>1, <3>2
  <2> QED
    BY <1>1, <1>2, <2>1, <2>2 DEF DelayInv
<1> QED
  BY <1>4, <1>5

\* The times are in order in every behaviour.
LEMMA TimesKept == ASSUME ~SlowHolder PROVE Spec => []DelayInv
<1>1. Init => DelayInv
  <2> SUFFICES ASSUME Init PROVE DelayInv
    OBVIOUS
  <2>1. /\ \A w \in Worker : now[w] = 0 /\ pc[w] = "idle"
        /\ lastFail \in {0, When(file)} /\ clock = FirstClock /\ file \in InitFiles
    BY DEF Init, When
  <2>2. When(file) \in Nat /\ When(file) <= FirstClock
    BY <2>1, InitWhen DEF When
  <2> QED
    BY <2>1, <2>2, TimeAssumption DEF DelayInv
<1>2. TypeOK /\ LockInv /\ CountInv /\ DelayInv /\ [Next]_vars => DelayInv'
  <2> SUFFICES ASSUME TypeOK, LockInv, CountInv, DelayInv, [Next]_vars PROVE DelayInv'
    OBVIOUS
  <2>1. CASE \E w \in Worker : Step(w)
    BY <2>1, DelayStep
  <2>2. ASSUME NEW w \in Worker, NEW r \in Requests, Receive(w, r) PROVE DelayInv'
    <3>1. /\ clock' = clock /\ file' = file /\ lastFail' = lastFail /\ res' = res
          /\ now' = [now EXCEPT ![w] = clock] /\ pc' = [pc EXCEPT ![w] = "lookup"]
      BY <2>2 DEF Receive, Goto, ghosts
    <3>2. \A v \in Worker : now'[v] <= clock' /\ (pc'[v] = "put" => pc[v] = "put" /\ now'[v] = now[v])
      BY <3>1 DEF TypeOK, DelayInv
    <3> QED
      BY <3>1, <3>2 DEF DelayInv
  <2>3. CASE Crash
    BY <2>3 DEF Crash, DelayInv, ghosts, TypeOK
  <2>4. CASE Tick
    <3>1. \A v \in Worker : now[v] <= clock + 1
      BY DEF DelayInv, TypeOK
    <3> QED
      BY <2>4, <3>1 DEF Tick, DelayInv, ghosts, TypeOK
  <2>5. CASE UNCHANGED vars
    BY <2>5 DEF vars, DelayInv, ghosts
  <2> QED
    BY <2>1, <2>2, <2>3, <2>4, <2>5 DEF Next
<1> QED
  BY <1>1, <1>2, TypeCorrect, LockExclusion, CountsKept, PTL DEF Spec

\* In delay mode no request that is not a resync is accepted before the delay
\* after the latest counted failure is over, up to the time a request may take:
\* whatever the order in which the threads finish (otp.c:313-339).
THEOREM DelaysHonoured == ASSUME ~SlowHolder PROVE Spec => DelayHonoured
<1> DEFINE Honoured ==
      \A w \in Worker :
        Persists(w) /\ res[w].rc = "OK" /\ res[w].how \in {"sync", "async"}
          /\ softfail > 0 /\ fails < UIntMax /\ fails - softfail \in 0 .. IntMax
        => now[w] + Timeout >= lastFail + Promised(fails - softfail)
<1>1. TypeOK /\ FailcountExact /\ DelayInv => Honoured
  <2> SUFFICES ASSUME TypeOK, FailcountExact, DelayInv, NEW w \in Worker,
                      Persists(w), res[w].rc = "OK", res[w].how \in {"sync", "async"},
                      softfail > 0, fails < UIntMax, fails - softfail \in 0 .. IntMax
               PROVE  now[w] + Timeout >= lastFail + Promised(fails - softfail)
    OBVIOUS
  <2>1. pc[w] = "put" /\ res[w].updated
    BY DEF Persists
  <2>2. file.failcount = fails
    BY DEF FailcountExact
  <2> DEFINE d == Promised(fails - softfail)
             a == When(file)
  <2>3. d \in Int
    <3>1. fails - softfail \in Nat
      BY WindowAssumption DEF TypeOK
    <3> QED
      BY <3>1, PromisedType
  <2>4. a \in Int
    BY ParsedType DEF When, TypeOK, StateRec
  <2>5. a >= 0 /\ now[w] >= a + d
    <3>1. file.failcount >= softfail /\ file.failcount - softfail <= IntMax
      BY <2>2, WindowAssumption, IntAssumption DEF TypeOK
    <3> QED
      BY <2>1, <2>2, <3>1 DEF DelayInv, Paced
  <2>6. lastFail > 0 => a + Timeout >= lastFail
    BY DEF DelayInv
  <2>7. now[w] \in Nat /\ lastFail \in Nat /\ Timeout \in Nat
    BY TimeAssumption DEF TypeOK
  <2> HIDE DEF a, d
  <2>8. now[w] + Timeout >= lastFail + d
    BY <2>3, <2>4, <2>5, <2>6, <2>7
  <2> QED
    BY <2>8 DEF d
<1> QED
  BY <1>1, TypeCorrect, FailcountCounts, TimesKept, PTL DEF Spec, DelayHonoured
-----------------------------------------------------------------------------
(* The rwindow candidate. *)

\* The state files an administrator creates: with a challenge, and without a
\* candidate.
Administered ==
  \A f \in InitFiles : f.rd = NoRd /\ (f.null \/ f.clen = SyncLen)

\* The result r of request q keeps the candidate of f, makes q's passcode the
\* candidate, or clears it, unless it is an async success.
Candidate(r, q, f) ==
  /\ f.clen = SyncLen /\ r.s.clen = SyncLen
  /\ r.rc = "OK" /\ r.how # "async" => r.s.rd = NoRd
  /\ r.rc # "OK" =>
       /\ r.s.chal = f.chal
       /\ IF r.how = "sync" THEN q.pass = challenge(f.chal, r.s.rd)
          ELSE r.how # "resync" /\ r.s.rd = f.rd

RdInv ==
  /\ file.null \/ file.clen = SyncLen
  /\ RdIsCandidate
  /\ \A w \in Worker : pc[w] = "put" /\ res[w].updated => Candidate(res[w], req[w], file)

\* What a verdict leaves of the state it is about.
LEMMA VerdictRd ==
  ASSUME NEW rc \in RC, NEW how \in How, NEW s \in StateRec, NEW c \in Points,
         NEW t \in Nat, NEW v, v = Verdict(rc, how, s, c, t)
  PROVE  v.rc = rc /\ v.how = how /\ v.s.rd = s.rd
<1>1. Accepted(s, c, t).rd = s.rd /\ Rejected(s, t).rd = s.rd
  BY DEF Accepted, Rejected, StateRec
<1> QED
  BY <1>1 DEF Verdict

\* Every decision is right about the candidate.
LEMMA DecideCandidate ==
  ASSUME Counting, TypeOK, CountInv, RdInv, NEW w \in Worker, Step(w),
         pc[w] = "decide", res'[w].updated
  PROVE  Candidate(res'[w], req[w], file)
<1> DEFINE s == Parsed(res[w].s)
<1>1. /\ res[w].s = file /\ file \in StateRec /\ s \in StateRec /\ now[w] \in Nat
      /\ req[w] \in ReqType /\ s.clen = file.clen /\ s.chal = file.chal
  BY ParsedType, ChalKept DEF CountInv, TypeOK, Result
<1>2. s.rd = file.rd
  BY <1>1 DEF Parsed, StateRec
<1>3. ~GiveUp(w)
  BY DEF GiveUp, Decided, Error, TypeOK
<1>5. DecideAsync(w) \/ DecideSync(w) \/ DecideNoMatch(w)
  BY <1>3 DEF Step, Goto, LookupFails, RecordFails, StaticPassword,
     WrongLength, LookupDone, LockGet, StateRead, StateReadFails, StatePut,
     StatePutFails, LockPut, Reply
<1>6. s.clen = SyncLen
  <2>1. ~Hopeless(w) /\ ~nullstate
    BY <1>5 DEF DecideAsync, DecideSync, DecideNoMatch, Counting, TimeCard, nullstate
  <2> QED
    BY <1>1, <2>1 DEF Hopeless, RdInv
<1>7. Walked(s) = s
  BY <1>1, <1>6, ChalKept
<1>4. CASE DecideAsync(w)
  <2> DEFINE c == IF resync THEN Resynced(s, req[w].chal) ELSE s.chal
  <2>0. PICK fc \in FailConditions(s, now[w]) :
          Decided(w, AsyncVerdict(fc, s, req[w], now[w]))
    BY <1>4 DEF DecideAsync
  <2> DEFINE rc == AsyncRc(fc, s, now[w])
  <2>1. res'[w] = Verdict(rc, "async", s, c, now[w])
    BY <2>0 DEF Decided, TypeOK, AsyncVerdict
  <2>2. rc \in RC /\ "async" \in How
    BY DEF AsyncRc, RC, How
  <2>3. c \in Points
    <3>1. req[w].chal \in AsyncChal
      BY <1>1, <1>4 DEF DecideAsync, AsyncMatch, AsyncTried, ReqType
    <3>2. Point(req[w].chal, 0) \in Points /\ Point("undef", 0) \in Points
      BY <3>1 DEF Points, Point, Starts
    <3> QED
      BY <1>1, <3>2 DEF Resynced, StateRec
  <2> HIDE DEF s, c, rc
  <2>4. res'[w].rc = rc /\ res'[w].how = "async" /\ res'[w].s.rd = s.rd
    BY <1>1, <2>1, <2>2, <2>3, VerdictRd
  <2>5. res'[w].s.clen = SyncLen /\ (rc # "OK" => res'[w].s.chal = s.chal)
    BY <1>1, <1>6, <2>1, <2>2, <2>3, VerdictChal
  <2> QED
    BY <1>1, <1>2, <1>6, <2>4, <2>5 DEF Candidate
<1>8. CASE DecideSync(w)
  <2>1. PICK e \in Window(w), fc \in FailConditions(s, now[w]) :
          Decided(w, SyncVerdict(fc, s, req[w], now[w], e))
    BY <1>8 DEF DecideSync
  <2>2. e \in Nat
    BY <2>1, WindowAssumption DEF Window, Positions, WindowEnd
  <2>3. req[w].pass = challenge(s.chal, e)
    BY <1>6, <2>1 DEF Window, Positions, compare, response, Start
  <2> DEFINE rc == SyncRc(fc, s, now[w], e)
             how == IF rc = "OK" /\ isconsecutive(s, e) THEN "resync" ELSE "sync"
             u == updatecsd(s, e, rc = "OK")
  <2>4. res'[w] = Verdict(rc, how, u, req[w].pass, now[w])
    BY <1>6, <1>7, <2>1, <2>3 DEF Decided, TypeOK, SyncVerdict, Start
  <2>5. rc \in RC /\ how \in How /\ (rc # "OK" => how = "sync")
    BY DEF SyncRc, RC, How
  <2>6. u \in StateRec /\ u.clen = SyncLen /\ u.chal = s.chal
    <3>1. (rc = "OK") \in BOOLEAN
      OBVIOUS
    <3> HIDE DEF s, rc
    <3> QED
      BY <1>1, <1>6, <2>2, <3>1, UpdatecsdType, ChalKept
  <2>7. u.rd = IF rc = "OK" THEN NoRd ELSE e
    <3> HIDE DEF s, rc
    <3> QED
      BY <1>1 DEF updatecsd, StateRec
  <2>8. req[w].pass \in Points
    BY <1>1 DEF ReqType
  <2> HIDE DEF rc, how, u
  <2>9. res'[w].rc = rc /\ res'[w].how = how /\ res'[w].s.rd = u.rd
    BY <1>1, <2>4, <2>5, <2>6, <2>8, VerdictRd
  <2>10. res'[w].s.clen = SyncLen /\ (rc # "OK" => res'[w].s.chal = s.chal)
    BY <1>1, <2>4, <2>5, <2>6, <2>8, VerdictChal
  <2> QED
    BY <1>1, <1>6, <2>3, <2>5, <2>7, <2>9, <2>10 DEF Candidate
<1>9. CASE DecideNoMatch(w)
  <2>1. res'[w] = Verdict("AUTH_ERR", "none", s, s.chal, now[w])
    BY <1>7, <1>9 DEF DecideNoMatch, Decided, TypeOK
  <2>2. "AUTH_ERR" \in RC /\ "none" \in How /\ s.chal \in Points
    BY <1>1 DEF RC, How, StateRec
  <2> HIDE DEF s
  <2>3. res'[w].rc = "AUTH_ERR" /\ res'[w].how = "none" /\ res'[w].s.rd = s.rd
    BY <1>1, <2>1, <2>2, VerdictRd
  <2>4. res'[w].s.clen = SyncLen /\ res'[w].s.chal = s.chal
    BY <1>1, <1>6, <2>1, <2>2, VerdictChal
  <2> QED
    BY <1>1, <1>2, <1>6, <2>3, <2>4 DEF Candidate
<1> QED
  BY <1>4, <1>5, <1>8, <1>9

\* Outside state_put() the file and the candidates stay.
LEMMA CandFrame ==
  ASSUME TypeOK, NEW w \in Worker, Step(w), ~StatePut(w)
  PROVE  file' = file /\ cand' = cand /\ carried' = carried
  BY DEF Step, LookupFails, RecordFails, StaticPassword, Decided, WrongLength, ghosts,
         LookupDone, LockGet, StateRead, StateReadFails, GiveUp, DecideAsync,
         DecideSync, DecideNoMatch, StatePutFails, LockPut, Reply

\* A step of a thread keeps the candidate right.
LEMMA RdStep ==
  ASSUME Counting, TypeOK, LockInv, CountInv, RdInv, NEW w \in Worker, Step(w)
  PROVE  RdInv'
<1>1. \A v \in Worker \ {w} : pc'[v] = pc[v] /\ res'[v] = res[v] /\ req'[v] = req[v]
  BY StepFrame
<1>2. CASE StatePut(w)
  <2>1. /\ pc[w] = "put" /\ pc'[w] = "unlock"
        /\ file' = IF res[w].updated THEN Unparsed(res[w].s) ELSE file
        /\ cand' = IF ~res[w].updated THEN cand
                   ELSE IF res[w].rc = "OK" THEN {}
                   ELSE IF res[w].how = "sync" THEN cand \cup {req[w].pass} ELSE cand
        /\ carried' = IF ~res[w].updated THEN carried
                      ELSE IF res[w].how = "async" /\ res[w].rc = "OK" THEN res[w].s.rd # NoRd
                      ELSE carried /\ res[w].how \notin {"sync", "resync"}
    BY <1>2 DEF StatePut, Goto, TypeOK
  <2>2. \A v \in Worker : pc'[v] # "put"
    BY <1>1, <2>1 DEF LockInv, InLock
  <2>3. CASE ~res[w].updated
    BY <2>1, <2>2, <2>3 DEF RdInv, RdIsCandidate
  <2>4. CASE res[w].updated
    <3>1. Candidate(res[w], req[w], file)
      BY <2>1, <2>4 DEF RdInv
    <3>2. res[w].s \in StateRec
      BY DEF TypeOK, Result
    <3>3. file'.clen = res[w].s.clen /\ file'.chal = res[w].s.chal /\ file'.rd = res[w].s.rd
      BY <2>1, <2>4, <3>2 DEF Unparsed, StateRec
    <3>4. RdIsCandidate'
      <4>1. CASE res[w].rc = "OK"
        <5>1. res[w].how = "async" => (carried' <=> file'.rd # NoRd)
          BY <2>1, <2>4, <3>3, <4>1
        <5>2. res[w].how # "async" => file'.rd = NoRd
          BY <3>1, <3>3, <4>1 DEF Candidate
        <5> QED
          BY <5>1, <5>2 DEF RdIsCandidate
      <4>2. CASE res[w].rc # "OK"
        <5>1. cand \subseteq cand' /\ (res[w].how = "sync" => req[w].pass \in cand')
          BY <2>1, <2>4, <4>2
        <5>2. IF res[w].how = "sync" THEN req[w].pass = challenge(file.chal, file'.rd)
              ELSE res[w].how # "resync" /\ file'.rd = file.rd
          BY <3>1, <3>3, <4>2 DEF Candidate
        <5>3. file'.chal = file.chal
          BY <3>1, <3>3, <4>2 DEF Candidate
        <5>4. CASE res[w].how = "sync"
          BY <5>1, <5>2, <5>3, <5>4 DEF RdIsCandidate
        <5>5. CASE res[w].how # "sync"
          <6>1. carried' <=> carried
            BY <2>1, <2>4, <4>2, <5>2, <5>5
          <6> QED
            BY <5>1, <5>2, <5>3, <5>5, <6>1 DEF RdInv, RdIsCandidate
        <5> QED
          BY <5>4, <5>5
      <4> QED
        BY <4>1, <4>2
    <3> QED
      BY <2>2, <3>1, <3>3, <3>4 DEF RdInv, Candidate
  <2> QED
    BY <2>3, <2>4
<1>3. CASE ~StatePut(w)
  <2>1. file' = file /\ cand' = cand /\ carried' = carried
    BY <1>3, CandFrame
  <2>2. ASSUME NEW v \in Worker, pc'[v] = "put", res'[v].updated
        PROVE  Candidate(res'[v], req'[v], file')
    <3>1. CASE v # w
      BY <1>1, <2>1, <2>2, <3>1 DEF RdInv
    <3>2. CASE v = w
      <4>1. pc[w] = "decide"
        BY <2>2, <3>2, StepMoves DEF LockGet, LockPut, Goto, TypeOK
      <4>2. req' = req
        BY <4>1, StepFrame
      <4> QED
        BY <2>1, <2>2, <3>2, <4>1, <4>2, DecideCandidate
    <3> QED
      BY <3>1, <3>2
  <2> QED
    BY <2>1, <2>2 DEF RdInv, RdIsCandidate
<1> QED
  BY <1>2, <1>3

\* For a token with an event chain, with or without async mode, the stored
\* candidate is always a correct passcode that was refused since the last
\* success, or one an async success left behind: but for that, a user gets out
\* of delay mode or beyond the event window only with two consecutive
\* passcodes, whatever the threads and crashes in between (otp.c:549-618).
THEOREM CandidateSeen ==
  ASSUME Counting, ~SlowHolder, Administered PROVE Spec => []RdIsCandidate
<1>1. Init => RdInv
  BY DEF Init, RdInv, RdIsCandidate, Administered
<1>2. TypeOK /\ LockInv /\ CountInv /\ RdInv /\ [Next]_vars => RdInv'
  <2> SUFFICES ASSUME TypeOK, LockInv, CountInv, RdInv, [Next]_vars PROVE RdInv'
    OBVIOUS
  <2>1. CASE \E w \in Worker : Step(w)
    BY <2>1, RdStep
  <2>2. ASSUME NEW w \in Worker, NEW r \in Requests, Receive(w, r) PROVE RdInv'
    <3>1. /\ file' = file /\ cand' = cand /\ carried' = carried /\ res' = res
          /\ req' = [req EXCEPT ![w] = r] /\ pc' = [pc EXCEPT ![w] = "lookup"]
      BY <2>2 DEF Receive, Goto, ghosts
    <3>2. \A v \in Worker : pc'[v] = "put" => pc[v] = "put" /\ req'[v] = req[v]
      BY <3>1 DEF TypeOK
    <3> QED
      BY <3>1, <3>2 DEF RdInv, RdIsCandidate
  <2>3. CASE Crash
    BY <2>3 DEF Crash, RdInv, RdIsCandidate, ghosts
  <2>4. CASE Tick
    BY <2>4 DEF Tick, RdInv, RdIsCandidate, ghosts
  <2>5. CASE UNCHANGED vars
    BY <2>5 DEF vars, RdInv, RdIsCandidate, ghosts
  <2> QED
    BY <2>1, <2>2, <2>3, <2>4, <2>5 DEF Next
<1>3. RdInv => RdIsCandidate
  BY DEF RdInv
<1> QED
  BY <1>1, <1>2, <1>3, TypeCorrect, LockExclusion, CountsKept, PTL DEF Spec
-----------------------------------------------------------------------------
(* verify() asks of the lock no more than UserLock promises. *)

\* Every step of verify() is a step of the user's lock or leaves it alone.
THEOREM LockRefined == Spec => UsesUserLock
<1> DEFINE L == [u \in {"user"} |-> lock]
<1>1. Init => UserLocks!Init
  BY TimeAssumption DEF Init, UserLocks!Init, NoLock, UserLocks!Free
<1>2. TypeOK /\ [Next]_vars => [UserLocks!Next]_<<clock, L>>
  <2> SUFFICES ASSUME TypeOK, [Next]_vars
               PROVE  UserLocks!Next \/ (clock' = clock /\ lock' = lock)
    OBVIOUS
  <2>1. ASSUME NEW w \in Worker, Step(w)
        PROVE  UserLocks!Next \/ (clock' = clock /\ lock' = lock)
    <3>1. CASE LockGet(w)
      <4>1. CASE LockFree(lock, clock)
        <5>1. lock' = [held |-> TRUE, ltime |-> clock] /\ clock' = clock
          BY <3>1, <4>1 DEF LockGet
        <5>2. UserLocks!Acquire("user")
          BY <4>1, <5>1 DEF UserLocks!Acquire, LockFree
        <5> QED
          BY <5>2 DEF UserLocks!Next
      <4>2. CASE ~LockFree(lock, clock)
        BY <3>1, <4>2 DEF LockGet
      <4> QED
        BY <4>1, <4>2
    <3>2. CASE LockPut(w)
      <4>1. UserLocks!Release("user")
        BY <3>2 DEF LockPut, UserLocks!Release, NoLock, UserLocks!Free
      <4> QED
        BY <4>1 DEF UserLocks!Next
    <3>3. CASE ~LockGet(w) /\ ~LockPut(w)
      <4>1. pc[w] \notin {"lock", "unlock"}
        BY <2>1, <3>3, StepMoves
      <4> QED
        BY <2>1, <4>1, StepFrame
    <3> QED
      BY <3>1, <3>2, <3>3
  <2>2. ASSUME NEW w \in Worker, NEW r \in Requests, Receive(w, r)
        PROVE  clock' = clock /\ lock' = lock
    BY <2>2 DEF Receive
  <2>3. CASE Crash
    <3>1. UserLocks!Restart
      BY <2>3 DEF Crash, UserLocks!Restart, NoLock, UserLocks!Free
    <3> QED
      BY <3>1 DEF UserLocks!Next
  <2>4. CASE Tick
    <3>1. UserLocks!Tick
      BY <2>4 DEF Tick, UserLocks!Tick
    <3> QED
      BY <3>1 DEF UserLocks!Next
  <2>5. CASE UNCHANGED vars
    BY <2>5 DEF vars
  <2> QED
    BY <2>1, <2>2, <2>3, <2>4, <2>5 DEF Next
<1> QED
  BY <1>1, <1>2, TypeCorrect, PTL DEF Spec, UsesUserLock, UserLocks!Spec
-----------------------------------------------------------------------------
(* Tokens with a clock: a passcode is accepted in its own time step. *)

\* The passcode of request r is that of a time step the request r, entered at
\* time t, was alive in.
InStep(r, t) ==
  \E u \in t .. t + Timeout :
    r.pass.pos = u \div TimeStep + (IF Card = "c200" THEN 1 ELSE 0)

\* A success of the event window, from the verdict to the answer.
Won(w) ==
  /\ pc[w] \in {"put", "unlock", "reply"}
  /\ res[w].rc = "OK" /\ res[w].how \in {"sync", "resync"}

StepInv ==
  /\ \A w \in Worker : now[w] <= clock
  /\ TimeCard => \A w \in Worker : Won(w) => InStep(req[w], now[w])

\* Rounding up to the next step adds one to the count of steps.
LEMMA RoundUp ==
  ASSUME NEW t \in Nat
  PROVE  (t + TimeStep - (t % TimeStep)) \div TimeStep = t \div TimeStep + 1
<1> DEFINE q == t \div TimeStep
           r == t % TimeStep
<1>1. TimeStep \in Nat /\ TimeStep > 0
  BY StepAssumption
<1>2. q \in Nat /\ r \in Nat /\ t = TimeStep * q + r
  BY <1>1, SMT
<1>3. t + TimeStep - r = TimeStep * (q + 1)
  <2> HIDE DEF q, r
  <2> QED
    BY <1>1, <1>2, SMT
<1>4. (TimeStep * (q + 1)) \div TimeStep = q + 1
  <2> HIDE DEF q, r
  <2> QED
    BY <1>1, <1>2, SMT
<1> QED
  BY <1>3, <1>4

\* A clock's passcode that matches the window is that of the time of the
\* verdict, and the verdict comes before the request is given up.
LEMMA WindowInStep ==
  ASSUME TypeOK, TimeCard, NEW w \in Worker, now[w] <= clock, ~Hopeless(w),
         NEW e \in Window(w)
  PROVE  InStep(req[w], now[w])
<1>1. clock \in Nat /\ now[w] \in Nat /\ Timeout \in Nat
  BY TimeAssumption DEF TypeOK
<1>2. clock \in now[w] .. now[w] + Timeout
  BY <1>1 DEF Hopeless
<1>3. req[w].pass = response(Start(Parsed(res[w].s), req[w]), e, clock)
  BY DEF Window, Positions, compare
<1>4. req[w].pass.pos = clock \div TimeStep + (IF Card = "c200" THEN 1 ELSE 0)
  <2>1. CASE Card = "totp"
    <3>1. req[w].pass = Point("clock", clock \div TimeStep)
      BY <1>3, <2>1 DEF response, Counting, TimeCard, totp_response
    <3>2. clock \div TimeStep \in Int
      BY <1>1, StepAssumption
    <3> QED
      BY <2>1, <3>1, <3>2 DEF Point
  <2>2. CASE Card = "c200"
    <3>1. req[w].pass =
            Point("clock", (clock + TimeStep - (clock % TimeStep)) \div TimeStep)
      BY <1>3, <2>2 DEF response, Counting, TimeCard, c200_response
    <3>2. req[w].pass.pos = clock \div TimeStep + 1
      BY <1>1, <3>1, RoundUp DEF Point
    <3> QED
      BY <2>2, <3>2
  <2> QED
    BY <2>1, <2>2 DEF TimeCard
<1> QED
  BY <1>2, <1>4 DEF InStep

\* A step of a thread to a success of the event window.
LEMMA WonStep ==
  ASSUME TypeOK, StepInv, TimeCard, NEW w \in Worker, Step(w), Won(w)'
  PROVE  InStep(req[w], now[w]) /\ pc[w] # "reply"
<1>1. pc[w] \notin {"reply", "idle"}
  BY StepMoves DEF Won, LockGet, LockPut, Goto, TypeOK
<1>2. CASE pc[w] = "decide"
  <2>1. DecideSync(w)
    BY <1>2 DEF Won, Step, Goto, LookupFails, RecordFails, StaticPassword, Decided,
       WrongLength, LookupDone, LockGet, StateRead, StateReadFails, GiveUp,
       DecideAsync, DecideNoMatch, StatePut, StatePutFails, LockPut, Reply,
       Error, AsyncVerdict, Verdict, TypeOK
  <2>2. PICK e \in Window(w) : TRUE
    BY <2>1 DEF DecideSync
  <2> QED
    BY <1>1, <2>1, <2>2, WindowInStep DEF DecideSync, StepInv
<1>3. CASE pc[w] \in {"lookup", "lock", "read"}
  <2>1. \/ pc'[w] \notin {"put", "unlock", "reply"}
        \/ \E rc \in RC : Fail(w, rc) /\ rc # "OK"
        \/ \E p \in Passwords, right \in BOOLEAN :
             res' = [res EXCEPT ![w] = StaticVerdict(p, right)]
    BY <1>3 DEF Step, Goto, LookupFails, RecordFails, StaticPassword, Decided,
       WrongLength, LookupDone, LockGet, StateRead, StateReadFails, GiveUp,
       DecideAsync, DecideSync, DecideNoMatch, StatePut, StatePutFails, LockPut,
       Reply, RC, TypeOK
  <2>2. ASSUME NEW rc \in RC, Fail(w, rc), rc # "OK" PROVE FALSE
    BY <2>2 DEF Won, Fail, Error, TypeOK
  <2>3. ASSUME NEW p \in Passwords, NEW right \in BOOLEAN,
               res' = [res EXCEPT ![w] = StaticVerdict(p, right)]
        PROVE  FALSE
    <3>1. res'[w].how \in {"static", "none"}
      BY <2>3 DEF StaticVerdict, NoResult, Error, TypeOK
    <3> QED
      BY <3>1 DEF Won
  <2> QED
    BY <2>1, <2>2, <2>3 DEF Won
<1>4. CASE pc[w] \in {"put", "unlock"}
  <2>1. res'[w] = res[w]
    BY <1>4 DEF Won, Step, Goto, Fail, LookupFails, RecordFails, StaticPassword, Decided,
       WrongLength, LookupDone, LockGet, StateRead, StateReadFails, GiveUp,
       DecideAsync, DecideSync, DecideNoMatch, StatePut, StatePutFails, LockPut,
       Reply, Error, TypeOK
  <2> QED
    BY <1>1, <1>4, <2>1 DEF Won, StepInv
<1> QED
  BY <1>1, <1>2, <1>3, <1>4 DEF TypeOK, PCs

\* With a token that answers from a clock, a passcode is accepted only in the
\* time step it is for, up to the time a request may take, whatever the other
\* threads do and however late they are (cardops/totp.c:133,
\* cardops/c200.c:150; otp.c:294-305).
THEOREM StepOwned == Spec => []OwnTimeStep
<1>1. Init => StepInv
  BY TimeAssumption DEF Init, StepInv, Won
<1>2. TypeOK /\ StepInv /\ [Next]_vars => StepInv'
  <2> SUFFICES ASSUME TypeOK, StepInv, [Next]_vars PROVE StepInv'
    OBVIOUS
  <2>1. ASSUME NEW w \in Worker, Step(w) PROVE StepInv'
    <3>1. clock' = clock /\ \A v \in Worker : now'[v] <= clock'
      BY <2>1, StepFrame, TimeFrame DEF StepInv, TypeOK
    <3>2. ASSUME TimeCard, NEW v \in Worker, Won(v)' PROVE InStep(req[v], now[v])'
      <4>1. CASE v = w
        <5>1. InStep(req[w], now[w]) /\ pc[w] # "reply"
          BY <2>1, <3>2, <4>1, WonStep
        <5> QED
          BY <2>1, <4>1, <5>1, StepFrame, TimeFrame
      <4>2. CASE v # w
        <5>1. /\ pc'[v] = pc[v] /\ res'[v] = res[v] /\ req'[v] = req[v]
              /\ now'[v] = now[v]
          BY <2>1, <4>2, StepFrame, TimeFrame
        <5>2. Won(v)
          BY <3>2, <5>1 DEF Won
        <5> QED
          BY <3>2, <5>1, <5>2 DEF StepInv
      <4> QED
        BY <4>1, <4>2
    <3> QED
      BY <3>1, <3>2 DEF StepInv
  <2>2. ASSUME NEW w \in Worker, NEW r \in Requests, Receive(w, r) PROVE StepInv'
    <3>1. /\ clock' = clock /\ res' = res /\ req' = [req EXCEPT ![w] = r]
          /\ now' = [now EXCEPT ![w] = clock] /\ pc' = [pc EXCEPT ![w] = "lookup"]
      BY <2>2 DEF Receive, Goto
    <3>2. \A v \in Worker : now'[v] <= clock'
      BY <3>1 DEF TypeOK, StepInv
    <3>3. \A v \in Worker : Won(v)' => Won(v) /\ req'[v] = req[v] /\ now'[v] = now[v]
      BY <3>1 DEF TypeOK, Won
    <3> QED
      BY <3>2, <3>3 DEF StepInv
  <2>3. CASE Crash
    BY <2>3 DEF Crash, StepInv, Won, TypeOK
  <2>4. CASE Tick
    <3>1. \A v \in Worker : now[v] <= clock + 1
      BY DEF StepInv, TypeOK
    <3> QED
      BY <2>4, <3>1 DEF Tick, StepInv, Won
  <2>5. CASE UNCHANGED vars
    BY <2>5 DEF vars, StepInv, Won
  <2> QED
    BY <2>1, <2>2, <2>3, <2>4, <2>5 DEF Next
<1>3. StepInv => OwnTimeStep
  BY DEF StepInv, Won, InStep, OwnTimeStep, Winning
<1> QED
  BY <1>1, <1>2, <1>3, TypeCorrect, PTL DEF Spec
-----------------------------------------------------------------------------
(* A user is new only once. *)

\* A result whose state, once written, is that of a user who is not new.
Known(r) == r.s.authtime >= 0

KnownInv ==
  \A w \in Worker : pc[w] = "put" /\ res[w].updated =>
    (~Parsed(file).null \/ res[w].rc = "OK" => Known(res[w]))

\* A file is that of a new user if there is none or it bears the mark.
LEMMA NewUser ==
  ASSUME NEW f \in StateRec PROVE Parsed(f).null <=> (f.null \/ f.authtime < 0)
<1>1. CASE ~f.null /\ f.authtime < 0
  BY <1>1 DEF Parsed, StateRec
<1>2. CASE ~(~f.null /\ f.authtime < 0)
  BY <1>2 DEF Parsed
<1> QED
  BY <1>1, <1>2

\* Walking through the window does not make a user new.
LEMMA NullKept ==
  ASSUME NEW s \in StateRec, NEW e \in Nat, NEW ok \in BOOLEAN
  PROVE  Walked(s).null = s.null /\ updatecsd(Walked(s), e, ok).null = s.null
<1>1. Walked(s) \in StateRec
  BY WalkedType
<1>2. Walked(s).null = s.null
  BY DEF Walked, StateRec
<1>3. updatecsd(Walked(s), e, ok).null = Walked(s).null
  BY <1>1 DEF updatecsd, StateRec
<1> QED
  BY <1>2, <1>3

\* A verdict on a user who is not new, and any success, has no mark.
LEMMA VerdictKnown ==
  ASSUME NEW rc \in RC, NEW how \in How, NEW s \in StateRec, NEW c \in Points,
         NEW t \in Nat, ~s.null \/ rc = "OK"
  PROVE  Known(Verdict(rc, how, s, c, t))
<1>1. Accepted(s, c, t).authtime = t
  BY DEF Accepted, StateRec
<1>2. ~s.null => Rejected(s, t).authtime = t
  BY DEF Rejected, StateRec
<1> QED
  BY <1>1, <1>2 DEF Known, Verdict

\* Every decision keeps a known user known.
LEMMA DecideKnown ==
  ASSUME TypeOK, CountInv, NEW w \in Worker, Step(w), pc[w] = "decide",
         res'[w].updated, ~Parsed(file).null \/ res'[w].rc = "OK"
  PROVE  Known(res'[w])
<1> DEFINE s == Parsed(res[w].s)
<1>1. /\ res[w].s = file /\ file \in StateRec /\ s \in StateRec
      /\ now[w] \in Nat /\ req[w] \in ReqType
  BY ParsedType DEF CountInv, TypeOK
<1>2. CASE GiveUp(w)
  BY <1>2 DEF GiveUp, Decided, Goto, Error, TypeOK
<1>3. CASE DecideAsync(w)
  <2>0. PICK fc \in FailConditions(s, now[w]) :
          Decided(w, AsyncVerdict(fc, s, req[w], now[w]))
    BY <1>3 DEF DecideAsync
  <2> DEFINE c == IF resync THEN Resynced(s, req[w].chal) ELSE s.chal
             rc == AsyncRc(fc, s, now[w])
  <2>1. res'[w] = Verdict(rc, "async", s, c, now[w])
    BY <2>0 DEF Decided, Goto, TypeOK, AsyncVerdict
  <2>2. c \in Points
    <3>1. req[w].chal \in AsyncChal
      BY <1>1, <1>3 DEF DecideAsync, AsyncMatch, AsyncTried, ReqType
    <3>2. Point(req[w].chal, 0) \in Points /\ Point("undef", 0) \in Points
      BY <3>1 DEF Points, Point, Starts
    <3> QED
      BY <1>1, <3>2 DEF Resynced, StateRec
  <2>3. rc \in RC /\ "async" \in How
    BY DEF AsyncRc, RC, How
  <2>4. ~s.null \/ rc = "OK"
    <3>1. res'[w].rc = rc
      BY <2>1 DEF Verdict
    <3> QED
      BY <1>1, <3>1
  <2> HIDE DEF s, c, rc
  <2> QED
    BY <1>1, <2>1, <2>2, <2>3, <2>4, VerdictKnown
<1>4. CASE DecideSync(w)
  <2>1. PICK e \in Window(w), fc \in FailConditions(s, now[w]) :
          Decided(w, SyncVerdict(fc, s, req[w], now[w], e))
    BY <1>4 DEF DecideSync
  <2>2. e \in Nat
    BY <2>1, WindowAssumption DEF Window, Positions, WindowEnd
  <2> DEFINE rc == SyncRc(fc, s, now[w], e)
             how == IF rc = "OK" /\ isconsecutive(s, e) THEN "resync" ELSE "sync"
             u == updatecsd(Walked(s), e, rc = "OK")
             c == IF Counting THEN challenge(Start(s, req[w]), e) ELSE s.chal
  <2>3. res'[w] = Verdict(rc, how, u, c, now[w])
    BY <2>1 DEF Decided, Goto, TypeOK, SyncVerdict
  <2>4. rc \in RC /\ how \in How
    BY DEF SyncRc, RC, How
  <2>5. u \in StateRec /\ u.null = s.null
    BY <1>1, <2>2, WalkedType, UpdatecsdType, NullKept
  <2>6. c \in Points
    <3>1. Start(s, req[w]) \in Points
      BY <1>1, StartType
    <3> QED
      BY <1>1, <2>2, <3>1 DEF challenge, Point, Points, StateRec
  <2>7. ~u.null \/ rc = "OK"
    <3>1. res'[w].rc = rc
      BY <2>3 DEF Verdict
    <3> QED
      BY <1>1, <2>5, <3>1
  <2> HIDE DEF rc, how, u, c, s
  <2> QED
    BY <1>1, <2>3, <2>4, <2>5, <2>6, <2>7, VerdictKnown
<1>5. CASE DecideNoMatch(w)
  <2> DEFINE t == IF SyncTried THEN Walked(s) ELSE s
  <2>1. res'[w] = Verdict("AUTH_ERR", "none", t, s.chal, now[w])
    BY <1>5 DEF DecideNoMatch, Decided, Goto, TypeOK
  <2>2. t \in StateRec /\ t.null = s.null /\ s.chal \in Points
    BY <1>1, WalkedType, NullKept DEF StateRec
  <2>3. "AUTH_ERR" \in RC /\ "none" \in How
    BY DEF RC, How
  <2>4. ~t.null
    <3>1. res'[w].rc = "AUTH_ERR"
      BY <2>1 DEF Verdict
    <3> QED
      BY <1>1, <2>2, <3>1
  <2> HIDE DEF s, t
  <2> QED
    BY <1>1, <2>1, <2>2, <2>3, <2>4, VerdictKnown
<1> QED
  BY <1>2, <1>3, <1>4, <1>5 DEF Step, Goto, LookupFails, RecordFails, StaticPassword,
     WrongLength, LookupDone, LockGet, StateRead, StateReadFails, StatePut,
     StatePutFails, LockPut, Reply

\* A step of a thread keeps what is to be written free of the mark.
LEMMA KnownStep ==
  ASSUME TypeOK, LockInv, CountInv, KnownInv, NEW w \in Worker, Step(w)
  PROVE  KnownInv'
<1> SUFFICES ASSUME NEW v \in Worker, pc'[v] = "put", res'[v].updated,
                    ~Parsed(file').null \/ res'[v].rc = "OK"
             PROVE  Known(res'[v])
  BY DEF KnownInv, Known
<1>1. CASE v = w
  <2>1. pc[w] = "decide"
    BY <1>1, StepMoves DEF LockGet, LockPut, Goto, TypeOK
  <2>2. file' = file
    BY <2>1, StepFrame
  <2> QED
    BY <1>1, <2>1, <2>2, DecideKnown
<1>2. CASE v # w
  <2>1. pc'[v] = pc[v] /\ res'[v] = res[v]
    BY <1>2, StepFrame
  <2>2. pc[w] # "put"
    BY <1>2, <2>1 DEF LockInv, InLock
  <2>3. file' = file
    BY <2>2, StepFrame
  <2> QED
    BY <2>1, <2>3 DEF KnownInv
<1> QED
  BY <1>1, <1>2

\* Nothing about to be written takes a user back to being new.
LEMMA MarksKept == ASSUME ~SlowHolder PROVE Spec => []KnownInv
<1>1. Init => KnownInv
  BY DEF Init, KnownInv
<1>2. TypeOK /\ LockInv /\ CountInv /\ KnownInv /\ [Next]_vars => KnownInv'
  <2> SUFFICES ASSUME TypeOK, LockInv, CountInv, KnownInv, [Next]_vars PROVE KnownInv'
    OBVIOUS
  <2>1. CASE \E w \in Worker : Step(w)
    BY <2>1, KnownStep
  <2>2. ASSUME NEW w \in Worker, NEW r \in Requests, Receive(w, r) PROVE KnownInv'
    BY <2>2 DEF Receive, Goto, KnownInv, Known, TypeOK
  <2>3. CASE Crash
    BY <2>3 DEF Crash, KnownInv
  <2>4. CASE Tick
    BY <2>4 DEF Tick, KnownInv, Known
  <2>5. CASE UNCHANGED vars
    BY <2>5 DEF vars, KnownInv, Known
  <2> QED
    BY <2>1, <2>2, <2>3, <2>4, <2>5 DEF Next
<1> QED
  BY <1>1, <1>2, TypeCorrect, LockExclusion, CountsKept, PTL DEF Spec

\* A user who was created from nothing and succeeded is never taken for new
\* again: no failure, concurrent request or restart brings the mark back, as
\* long as no thread writes after its lock expired (otp.c:289-293, 635-645).
THEOREM NewOnce == ASSUME ~SlowHolder PROVE Spec => NullOnce
<1>1. TypeOK /\ KnownInv /\ [Next]_vars => KnownOnce
  <2> SUFFICES ASSUME TypeOK, KnownInv, [Next]_vars PROVE KnownOnce
    OBVIOUS
  <2>1. file \in StateRec
    BY DEF TypeOK
  <2>2. ASSUME NEW w \in Worker, pc[w] = "put", StatePut(w), res[w].updated,
               ~Parsed(file).null \/ res[w].rc = "OK"
        PROVE  ~Parsed(file').null
    <3>1. res[w].s \in StateRec /\ res[w].s.authtime >= 0
      BY <2>2 DEF KnownInv, Known, TypeOK, Result
    <3>2. file' = Unparsed(res[w].s) /\ file' \in StateRec
      BY <2>2, <3>1, UnparsedType DEF StatePut
    <3>3. ~file'.null /\ file'.authtime = res[w].s.authtime
      BY <3>1, <3>2 DEF Unparsed, StateRec
    <3>4. ~(file'.authtime < 0)
      BY <3>1, <3>3 DEF StateRec
    <3> QED
      BY <3>2, <3>3, <3>4, NewUser
  <2>3. ~Parsed(file).null => ~Parsed(file').null
    <3>1. ASSUME NEW w \in Worker, pc[w] = "put", StatePut(w), ~res[w].updated
          PROVE  file' = file
      BY <3>1 DEF StatePut
    <3> QED
      BY <2>2, <3>1, FileMoves
  <2>4. ASSUME NEW w \in Worker, Persists(w), res[w].rc = "OK"
        PROVE  ~Parsed(file').null
    <3>1. StatePut(w)
      BY <2>4, PersistsPuts
    <3> QED
      BY <2>2, <2>4, <3>1 DEF Persists
  <2> QED
    BY <2>3, <2>4 DEF KnownOnce
<1> QED
  BY <1>1, TypeCorrect, MarksKept, PTL DEF Spec, NullOnce
=============================================================================
