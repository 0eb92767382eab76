--------------------------- MODULE FailoverProofs ---------------------------
(***************************************************************************)
(* Theorems about the failover thread, for every number of work threads    *)
(* and every timeout that config.y lets through.                           *)
(***************************************************************************)
EXTENDS Failover, TLAPS

Work == [on : {"none", "primary", "backup"}, age : 0 .. ReqTimeout, late : BOOLEAN]

\* The timers fit the bound of the history variable.
LEMMA MaxTimeType ==
  /\ MaxTime \in Nat /\ fo_timeout \in Nat /\ fb_timeout \in Nat /\ ReqTimeout \in Nat
  /\ fo_timeout \in 0 .. MaxTime /\ fb_timeout \in 0 .. MaxTime
  /\ fb_timeout > ReqTimeout
  BY TimeoutAssumption DEF MaxTime

LEMMA TypeInit == Init => TypeOK
<1> SUFFICES ASSUME Init PROVE TypeOK
  OBVIOUS
<1>1. NoWork \in Work
  <2>1. 0 \in 0 .. ReqTimeout
    BY MaxTimeType
  <2> QED
    BY <2>1, Zenon DEF NoWork, Work
<1>2. work \in [Worker -> Work]
  BY <1>1 DEF Init
<1>3. /\ sem \in 0 .. MaxSem /\ left \in 0 .. MaxTime /\ quiet \in 0 .. MaxTime
  BY MaxTimeType, BoundAssumption DEF Init
<1> QED
  BY <1>2, <1>3, Zenon DEF Init, TypeOK, Work

\* A record of a request stays one when it ends, ages or is late.
LEMMA WorkUpdates ==
  ASSUME NEW r \in Work
  PROVE  /\ NoWork \in Work
         /\ \A o \in {"primary", "backup"} : [r EXCEPT !.on = o] \in Work
         /\ \A a \in 0 .. ReqTimeout : [r EXCEPT !.age = a] \in Work
         /\ \A l \in BOOLEAN : [r EXCEPT !.late = l] \in Work
<1>1. 0 \in 0 .. ReqTimeout
  BY MaxTimeType
<1> QED
  BY <1>1, Zenon DEF NoWork, Work

\* RESET_FAILBACK sets a timer that fits.
LEMMA ResetType ==
  ASSUME TypeOK, RESET_FAILBACK
  PROVE  left' \in 0 .. MaxTime
  BY MaxTimeType DEF TypeOK, RESET_FAILBACK

\* Trouble keeps the history's type.
LEMMA TroubleType ==
  ASSUME TypeOK, Trouble
  PROVE  quiet' \in 0 .. MaxTime /\ napped' \in BOOLEAN
<1>1. quiet \in 0 .. MaxTime /\ napped \in BOOLEAN /\ 0 \in 0 .. MaxTime
  BY MaxTimeType DEF TypeOK
<1> QED
  BY <1>1, Zenon DEF Trouble, seen

LEMMA TypeNext == TypeOK /\ [Next]_vars => TypeOK'
<1> SUFFICES ASSUME TypeOK, [Next]_vars PROVE TypeOK'
  OBVIOUS
<1> USE BoundAssumption, MaxTimeType
<1>0. /\ work \in [Worker -> Work] /\ sem \in 0 .. MaxSem /\ left \in 0 .. MaxTime
      /\ quiet \in 0 .. MaxTime /\ inbox \subseteq {"ack", "junk", "refused"}
      /\ slept \in BOOLEAN
  BY DEF TypeOK, Work
<1>1. CASE Signalled
  <2>1. sem' \in 0 .. MaxSem /\ left' \in 0 .. MaxTime /\ quiet' \in 0 .. MaxTime
    BY <1>0, <1>1 DEF Signalled
  <2>2. inbox' \subseteq {"ack", "junk", "refused"}
    BY <1>0, <1>1 DEF Signalled
  <2> QED
    BY <1>1, <2>1, <2>2, Zenon DEF Signalled, Goto, Encrypted, TypeOK
<1>2. CASE Send
  <2>1. inbox' \subseteq {"ack", "junk", "refused"}
    BY <1>0, <1>2 DEF Send, Answers
  <2> QED
    BY <1>2, <2>1, Zenon DEF Send, Goto, seen, TypeOK
<1>3. CASE Again \/ HardError
  <2>1. 0 \in 0 .. MaxTime
    OBVIOUS
  <2> QED
    BY <1>3, <2>1, Zenon DEF Again, HardError, seen, TypeOK
<1>4. CASE PollTimeout \/ RecvAgain \/ PenaltyDone
  <2>1. left' \in 0 .. MaxTime
    BY <1>4, ResetType DEF PollTimeout, RecvAgain, PenaltyDone
  <2>2. quiet' \in 0 .. MaxTime /\ napped' \in BOOLEAN
    BY <1>4, TroubleType, Zenon DEF PollTimeout, RecvAgain, PenaltyDone, seen, TypeOK
  <2> QED
    BY <1>4, <2>1, <2>2, Zenon DEF PollTimeout, RecvAgain, PenaltyDone, Goto, TypeOK
<1>5. CASE RecvAck \/ (\E m \in inbox : RecvOther(m)) \/ PauseDone
  <2>1. 0 \in 0 .. MaxTime
    OBVIOUS
  <2>2. quiet' \in 0 .. MaxTime /\ napped' \in BOOLEAN
    BY <1>5, <2>1, TroubleType, Zenon DEF RecvAck, RecvOther, PauseDone, seen, TypeOK
  <2> QED
    BY <1>5, <2>2, Zenon DEF RecvAck, RecvOther, PauseDone, Goto, TypeOK
<1>6. CASE Failover
  <2>1. \A w \in Worker : (work[w].late \/ work[w].on = "primary") \in BOOLEAN
    BY <1>0, Zenon DEF Work
  <2>2. work' \in [Worker -> Work]
    BY <1>0, <1>6, <2>1, WorkUpdates, Zenon DEF Failover
  <2>3. left' \in 0 .. MaxTime /\ quiet' \in 0 .. MaxTime
    BY <1>6 DEF Failover
  <2> QED
    BY <1>6, <2>2, <2>3, Zenon DEF Failover, Goto, TypeOK, Work
<1>7. CASE Failback
  BY <1>7, Zenon DEF Failback, Goto, seen, TypeOK
<1>8. CASE Drain
  <2>1. sem' \in 0 .. MaxSem
    BY <1>0, <1>8 DEF Drain
  <2> QED
    BY <1>8, <2>1, Zenon DEF Drain, Goto, seen, TypeOK
<1>9. ASSUME NEW w \in Worker, Begin(w) \/ End(w) \/ TimesOut(w) PROVE TypeOK'
  <2>1. work' \in [Worker -> Work]
    <3>1. \E r \in Work : work' = [work EXCEPT ![w] = r]
      <4>1. CASE Begin(w)
        <5>1. \E o \in {"primary", "backup"} : work' = [work EXCEPT ![w].on = o]
          BY <4>1 DEF Begin
        <5> QED
          BY <1>0, <5>1, WorkUpdates
      <4>2. CASE End(w) \/ TimesOut(w)
        BY <1>0, <4>2, WorkUpdates DEF End, TimesOut
      <4> QED
        BY <1>9, <4>1, <4>2
    <3> QED
      BY <1>0, <3>1
  <2>2. sem' \in 0 .. MaxSem
    BY <1>0, <1>9 DEF Begin, End, TimesOut
  <2>3. UNCHANGED <<thread, inbox, prim, seen>>
    BY <1>9 DEF Begin, End, TimesOut
  <2> QED
    BY <2>1, <2>2, <2>3, Zenon DEF thread, seen, TypeOK, Work
<1>10. CASE Change
  BY <1>10, Zenon DEF Change, thread, seen, TypeOK
<1>11. CASE Tick
  <2>1. left' \in 0 .. MaxTime /\ quiet' \in 0 .. MaxTime
    BY <1>0, <1>11 DEF Tick
  <2>2. \A w \in Worker : work[w].age \in 0 .. ReqTimeout /\ work[w].age < ReqTimeout
    BY <1>0, <1>11 DEF Tick, Work
  <2>3. \A w \in Worker : (IF work[w].on = "none" THEN 0 ELSE work[w].age + 1) \in 0 .. ReqTimeout
    BY <2>2
  <2>4. work' \in [Worker -> Work]
    BY <1>0, <1>11, <2>3, WorkUpdates, Zenon DEF Tick
  <2>5. slept' \in BOOLEAN
    <3>1. slept' = (pc \in {"poll", "pause", "penalty"})
      BY <1>11 DEF Tick
    <3> QED
      BY <3>1
  <2> QED
    BY <1>11, <2>1, <2>4, <2>5, Zenon DEF Tick, TypeOK, Work
<1>12. CASE UNCHANGED vars
  BY <1>12, Zenon DEF vars, thread, seen, TypeOK
<1> QED
  BY <1>1, <1>2, <1>3, <1>4, <1>5, <1>6, <1>7, <1>8, <1>9, <1>10, <1>11, <1>12
  DEF Next, Thread

\* The threads, the timers and the requests keep their types: no timer is set
\* beyond the timeouts of the configuration, and no request outlives its own
\* (failover_thread.c:62-386).
THEOREM TypeCorrect == Spec => []TypeOK
  BY TypeInit, TypeNext, PTL DEF Spec
-----------------------------------------------------------------------------
(* The timers. *)

Awake == pc \notin {"wait", "drain"}

\* What has passed and what is left of the timer make up the timeout: the
\* failover's on the primary; on the backup the failback's, unless the thread
\* has slept there or a reset is due at the end of the PAUSE.
Timers ==
  /\ Awake /\ active = 0 => quiet + left >= fo_timeout
  /\ Awake /\ active = 1 /\ ~napped /\ pc # "penalty" => quiet + left >= fb_timeout

\* Only an error sends the thread to sleep on the backup.
Naps == ~Awake /\ active = 1 => napped

\* A request that was on the primary when it was given up will have timed out
\* before the timer does.
LateEnds ==
  \A w \in Worker : work[w].late =>
    /\ work[w].on = "primary"
    /\ Awake /\ active = 1 /\ ~napped /\ pc # "penalty" =>
         work[w].age + left > ReqTimeout

Inv == TypeOK /\ Timers /\ Naps /\ LateEnds

LEMMA InvInit == Init => Inv
  BY TypeInit DEF Init, Inv, Timers, Naps, LateEnds, Awake, NoWork

\* RESET_FAILBACK gives the failback its whole timeout again.
LEMMA ResetKeeps ==
  ASSUME Inv, RESET_FAILBACK, Awake, Awake', UNCHANGED <<active, work>>,
         quiet' \in Nat, active = 0 => UNCHANGED quiet
  PROVE  Timers' /\ Naps' /\ LateEnds'
<1>0. /\ left \in Nat /\ quiet \in Nat /\ active \in {0, 1}
      /\ \A w \in Worker : work[w].age \in Nat
  BY MaxTimeType DEF Inv, TypeOK
<1>1. Timers' /\ Naps'
  BY <1>0, MaxTimeType DEF RESET_FAILBACK, Inv, Timers, Naps
<1>2. LateEnds'
  BY <1>0, MaxTimeType DEF RESET_FAILBACK, Inv, LateEnds
<1> QED
  BY <1>1, <1>2

LEMMA InvNext == Inv /\ [Next]_vars => Inv'
<1> SUFFICES ASSUME Inv, [Next]_vars PROVE Inv'
  OBVIOUS
<1> USE MaxTimeType
<1>0. TypeOK /\ TypeOK'
  BY TypeNext DEF Inv
<1>t. /\ left \in Nat /\ quiet \in 0 .. MaxTime /\ active \in {0, 1}
      /\ \A w \in Worker : work[w].age \in 0 .. ReqTimeout
      /\ quiet' \in Nat
  BY <1>0 DEF TypeOK
<1>1. CASE Signalled
  <2>1. ~Awake /\ left' = fo_timeout /\ quiet' = 0 /\ UNCHANGED <<active, work, napped>>
    BY <1>1 DEF Signalled, Goto, Awake
  <2>2. active = 1 => napped
    BY <2>1 DEF Inv, Naps
  <2>3. Timers' /\ Naps' /\ LateEnds'
    BY <1>t, <2>1, <2>2 DEF Inv, Timers, Naps, LateEnds
  <2> QED
    BY <1>0, <2>3 DEF Inv
<1>2. CASE Send \/ Again \/ PauseDone
  <2>1. /\ Awake /\ Awake' /\ pc # "penalty" /\ pc' # "penalty"
        /\ UNCHANGED <<active, left, quiet, napped, work>>
    BY <1>2 DEF Send, Again, PauseDone, Goto, Awake, seen
  <2> QED
    BY <1>0, <2>1 DEF Inv, Timers, Naps, LateEnds
<1>13. ASSUME NEW m \in inbox, RecvOther(m) PROVE Inv'
  <2>1. /\ Awake /\ Awake' /\ pc' = "penalty" /\ UNCHANGED <<active, left, work>>
        /\ active = 0 => UNCHANGED quiet
    BY <1>t, <1>13 DEF RecvOther, Trouble, Goto, Awake, seen
  <2>2. Timers' /\ Naps' /\ LateEnds'
    BY <1>t, <2>1 DEF Inv, Timers, Naps, LateEnds
  <2> QED
    BY <1>0, <2>2 DEF Inv
<1>3. CASE HardError
  <2>1. ~Awake' /\ UNCHANGED <<active, left, work>> /\ (active = 1 => napped')
    BY <1>3 DEF HardError, Awake
  <2> QED
    BY <1>0, <2>1 DEF Inv, Timers, Naps, LateEnds
<1>4. CASE PollTimeout \/ RecvAgain \/ PenaltyDone
  <2>1. /\ Awake /\ Awake' /\ RESET_FAILBACK /\ UNCHANGED <<active, work>>
        /\ active = 0 => UNCHANGED quiet
    BY <1>4 DEF PollTimeout, RecvAgain, PenaltyDone, Goto, Awake, Trouble, seen
  <2> QED
    BY <1>0, <1>t, <2>1, ResetKeeps DEF Inv
<1>5. CASE RecvAck
  <2>1. /\ Awake /\ UNCHANGED <<active, left, napped, work>> /\ pc # "penalty"
        /\ active = 0 => ~Awake'
        /\ active = 1 => Awake' /\ UNCHANGED quiet
    BY <1>5 DEF RecvAck, Goto, Awake
  <2>2. Timers' /\ Naps' /\ LateEnds'
    BY <1>t, <2>1 DEF Inv, Timers, Naps, LateEnds
  <2> QED
    BY <1>0, <2>2 DEF Inv
<1>6. CASE Failover
  <2>1. Awake' /\ active = 0 /\ active' = 1 /\ left' = fb_timeout /\ quiet' = 0
    BY <1>6 DEF Failover, Goto, Awake
  <2>2. LateEnds'
    <3> SUFFICES ASSUME NEW w \in Worker
                 PROVE  work'[w].late => /\ work'[w].on = "primary"
                                         /\ work'[w].age + left' > ReqTimeout
      BY Zenon DEF LateEnds
    <3>1. work'[w] = [work[w] EXCEPT !.late = (work[w].late \/ work[w].on = "primary")]
      BY <1>6 DEF Failover
    <3>2. work[w] \in Work
      BY <1>0 DEF TypeOK, Work
    <3>3. /\ work'[w].age = work[w].age /\ work'[w].on = work[w].on
          /\ work'[w].late = (work[w].late \/ work[w].on = "primary")
      BY <3>1, <3>2, Zenon DEF Work
    <3>4. work'[w].age + left' > ReqTimeout
      BY <1>t, <2>1, <3>3
    <3>5. work[w].late => work[w].on = "primary"
      BY Zenon DEF Inv, LateEnds
    <3> QED
      BY <3>3, <3>4, <3>5, Zenon
  <2>3. Timers' /\ Naps'
    BY <2>1 DEF Timers, Naps
  <2> QED
    BY <1>0, <2>2, <2>3 DEF Inv
<1>7. CASE Failback
  <2>1. ~Awake' /\ active' = 0 /\ UNCHANGED work
    BY <1>7 DEF Failback, Goto, Awake
  <2> QED
    BY <1>0, <2>1 DEF Inv, Timers, Naps, LateEnds
<1>8. CASE Drain
  <2>1. ~Awake /\ ~Awake' /\ UNCHANGED <<active, left, quiet, napped, work>>
    BY <1>8 DEF Drain, Goto, Awake, seen
  <2> QED
    BY <1>0, <2>1 DEF Inv, Timers, Naps, LateEnds
<1>9. ASSUME NEW w \in Worker, Begin(w) \/ End(w) \/ TimesOut(w) PROVE Inv'
  <2>1. UNCHANGED <<active, pc, left, quiet, napped>>
    BY <1>9 DEF Begin, End, TimesOut, thread, seen
  <2>2. \A v \in Worker : work'[v] = work[v] \/ ~work'[v].late
    BY <1>0, <1>9 DEF Begin, End, TimesOut, NoWork, TypeOK
  <2>3. LateEnds'
    BY <2>1, <2>2 DEF Inv, LateEnds, Awake
  <2> QED
    BY <1>0, <2>1, <2>3 DEF Inv, Timers, Naps, Awake
<1>10. CASE Change
  BY <1>0, <1>10 DEF Change, thread, seen, Inv, Timers, Naps, LateEnds, Awake
<1>11. CASE Tick
  <2>1. /\ UNCHANGED <<active, pc, napped>>
        /\ left' = (IF left > 0 THEN left - 1 ELSE 0)
        /\ quiet' = (IF quiet < MaxTime THEN quiet + 1 ELSE quiet)
    BY <1>11 DEF Tick
  <2>2. \A w \in Worker :
          /\ work'[w].late = work[w].late /\ work'[w].on = work[w].on
          /\ work[w].on # "none" => work'[w].age = work[w].age + 1
    BY <1>0, <1>11 DEF Tick, TypeOK
  <2>3. Timers'
    BY <1>t, <2>1 DEF Inv, Timers, Awake
  <2>4. LateEnds'
    BY <1>t, <2>1, <2>2 DEF Inv, LateEnds, Awake
  <2> QED
    BY <1>0, <2>1, <2>3, <2>4 DEF Inv, Naps, Awake
<1>12. CASE UNCHANGED vars
  BY <1>0, <1>12 DEF vars, thread, seen, Inv, Timers, Naps, LateEnds, Awake
<1> QED
  BY <1>1, <1>2, <1>3, <1>4, <1>5, <1>6, <1>7, <1>8, <1>9, <1>10, <1>11, <1>12, <1>13
  DEF Next, Thread

\* Only the two switches change the active gsmd, and each at the end of its
\* timer.
LEMMA Switches ==
  ASSUME Inv, [Next]_vars, active' # active
  PROVE  /\ active = 0 => Failover
         /\ active = 1 => Failback
  BY DEF Next, Thread, Signalled, Send, Again, HardError, PollTimeout, RecvAgain, RecvAck,
         RecvOther, PauseDone, PenaltyDone, Failover, Failback, Drain, Begin, End,
         TimesOut, Change, Tick, thread, vars

\* The primary is given up only when fo_timeout has passed since the signal
\* without an ACK and taken back only when nothing has gone wrong with it for
\* fb_timeout, whatever the signals and the answers do, unless an error has put
\* the thread to sleep on the backup since (failover_thread.c:241-242).
THEOREM SwitchTiming == Spec => SwitchesInTime
<1>1. Inv /\ [Next]_vars =>
        [/\ active = 0 /\ active' = 1 => quiet >= fo_timeout
         /\ active = 1 /\ active' = 0 /\ ~napped => quiet >= fb_timeout]_vars
  <2> SUFFICES ASSUME Inv, [Next]_vars
               PROVE  /\ active = 0 /\ active' = 1 => quiet >= fo_timeout
                      /\ active = 1 /\ active' = 0 /\ ~napped => quiet >= fb_timeout
    OBVIOUS
  <2>1. ASSUME active = 0, active' = 1 PROVE quiet >= fo_timeout
    <3>0. Failover
      BY <2>1, Switches
    <3>1. Awake /\ left = 0
      BY <3>0 DEF Failover, Goto, Awake
    <3> QED
      BY <2>1, <3>1, MaxTimeType DEF Inv, Timers, TypeOK
  <2>2. ASSUME active = 1, active' = 0, ~napped PROVE quiet >= fb_timeout
    <3>0. Failback
      BY <2>2, Switches
    <3>1. Awake /\ left = 0 /\ pc # "penalty"
      BY <3>0 DEF Failback, Goto, Awake
    <3> QED
      BY <2>2, <3>1, MaxTimeType DEF Inv, Timers, TypeOK
  <2> QED
    BY <2>1, <2>2
<1> QED
  BY <1>1, InvNext, InvInit, PTL DEF Spec, SwitchesInTime

\* Every request that was on the primary when it was given up has ended when it
\* is taken back (failover_thread.c:134, "all of these should timeout before we
\* switch back"), unless an error has put the thread to sleep on the backup
\* since.  It rests on fb_timeout > ReqTimeout alone, not on fo_timeout.
THEOREM LateRequestsGone == Spec => NoLateRequest
<1>1. Inv /\ [Next]_vars =>
        [active = 1 /\ active' = 0 /\ ~napped => \A w \in Worker : ~work[w].late]_vars
  <2> SUFFICES ASSUME Inv, [Next]_vars, active = 1, active' = 0, ~napped, NEW w \in Worker
               PROVE  ~work[w].late
    OBVIOUS
  <2>0. Failback
    BY Switches
  <2>1. Awake /\ left = 0 /\ pc # "penalty"
    BY <2>0 DEF Failback, Goto, Awake
  <2> QED
    BY <2>1, MaxTimeType DEF Inv, LateEnds, TypeOK
<1> QED
  BY <1>1, InvNext, InvInit, PTL DEF Spec, NoLateRequest
=============================================================================
