------------------------------ MODULE Failover ------------------------------
(***************************************************************************)
(* The failover thread of one gsmd with a backup (failover_thread.c), the  *)
(* work threads that use the gsmd and signal the thread (state.c:gsmd()),  *)
(* and the primary gsmd, which is external.                                *)
(*                                                                         *)
(* Time is relative: one tick is the 200 ms of a poll() or of PAUSE, and   *)
(* left is what remains until the thread's timeout, rounded up.            *)
(***************************************************************************)
EXTENDS Integers

CONSTANTS
  Worker,      \* work threads whose users are on this gsmd
  fo_timeout,  \* ticks the primary may be silent after a signal
  fb_timeout,  \* ticks the primary must answer before it is used again
  ReqTimeout,  \* config.timeout, in ticks
  HardErrors,  \* may system calls fail for good, e.g. on an ICMP error?
  WouldBlock,  \* may send(), poll() and recv() fail with EAGAIN?
  MaxSem       \* bound on the semaphore

\* config.y:1712-1736
ASSUME TimeoutAssumption ==
  /\ fo_timeout \in Nat \ {0} /\ ReqTimeout \in Nat
  /\ fb_timeout \in Nat /\ fb_timeout > ReqTimeout
ASSUME BoundAssumption == 
  HardErrors \in BOOLEAN /\ WouldBlock \in BOOLEAN /\ MaxSem \in Nat \ {0}

VARIABLES
  active,  \* gsmd->active: 0 is the primary, 1 the backup
  sem,     \* gsmd->sem
  pc, left, errno,
  slept,   \* has the 200 ms of the current poll() or PAUSE passed?
  probe,   \* what the request buffer holds
  inbox,   \* datagrams and errors on their way to the thread's socket
  prim,    \* is the primary "up", up but refusing ("nak"), or "down"?
  work     \* requests: the gsmd each uses and for how long it has

\* History, read by no action.
VARIABLES
  quiet,   \* ticks since the signal or the ACK, or since the failover or the
           \* last sign on the backup that the primary is not well
  napped   \* has an error put the thread to sleep on the backup since then?

thread == <<active, pc, left, errno, slept, probe>>
seen == <<quiet, napped>>
vars == <<thread, sem, inbox, prim, work, seen>>

MaxTime == IF fo_timeout > fb_timeout THEN fo_timeout ELSE fb_timeout

NoWork == [on |-> "none", age |-> 0, late |-> FALSE]

Init ==
  /\ active = 0 /\ sem = 0
  /\ pc = "wait" /\ left = 0 /\ errno = "none" /\ slept = FALSE
  /\ probe = "plain"
  /\ inbox = {} /\ prim = "up"
  /\ work = [w \in Worker |-> NoWork]
  /\ quiet = 0 /\ napped = FALSE
-----------------------------------------------------------------------------
(* The failover thread. *)

Goto(from, to) == pc = from /\ pc' = to

\* RESET_FAILBACK
RESET_FAILBACK_extend ==
  IF active = 1 THEN left' = left + fb_timeout ELSE UNCHANGED left
RESET_FAILBACK_always == left' = fb_timeout
RESET_FAILBACK ==
  IF active = 1 THEN left' = fb_timeout ELSE UNCHANGED left

\* History: something is wrong with the primary while the backup is in use.
Trouble ==
  IF active = 1 THEN quiet' = 0 /\ napped' = FALSE ELSE UNCHANGED seen

\* The request is encrypted where it stands: from the second signal on it is
\* the previous ciphertext that is encrypted.
Encrypted == IF probe = "plain" THEN "request" ELSE "garbled"

\* sem_wait() returns.  What is on its way has an old sequence number now.
Signalled ==
  /\ Goto("wait", "loop")
  /\ sem > 0 /\ sem' = sem - 1
  /\ probe' = Encrypted
  /\ left' = fo_timeout
  /\ inbox' = {IF m = "ack" THEN "junk" ELSE m : m \in inbox}
  /\ quiet' = 0
  /\ UNCHANGED <<active, errno, slept, prim, work, napped>>

\* What the primary answers: an ACK to the request, a NAK or nothing to any
\* other message, nothing or an ICMP error when it is down.
Answers ==
  CASE prim = "down" -> {{}} \cup (IF HardErrors THEN {{"refused"}} ELSE {})
    [] prim = "up" /\ probe = "request" -> {{"ack"}}
    [] OTHER -> {{}, {"junk"}}

Send ==
  /\ Goto("loop", "poll") /\ left > 0 /\ "refused" \notin inbox
  /\ \E a \in Answers : inbox' = inbox \cup a
  /\ slept' = FALSE
  /\ UNCHANGED <<active, left, errno, probe, sem, prim, work, seen>>

\* send() or poll() would block: once more, the timer runs on.
Again ==
  /\ WouldBlock
  /\ pc \in {"loop", "poll"} /\ (pc = "loop" => left > 0)
  /\ pc' = "loop" /\ errno' = "EAGAIN"
  /\ UNCHANGED <<active, left, slept, probe, sem, inbox, prim, work, seen>>

\* send() or poll() fails; send() also reports the ICMP error of an earlier
\* request.
HardError ==
  /\ HardErrors
  /\ pc \in {"loop", "poll"} /\ (pc = "loop" => left > 0)
  /\ pc' = "drain" /\ errno' = "other"
  /\ inbox' = inbox \ {"refused"}
  /\ IF active = 1 THEN quiet' = 0 /\ napped' = TRUE ELSE UNCHANGED seen
  /\ UNCHANGED <<active, left, slept, probe, sem, prim, work>>

\* poll() returns 0.  A primary that is up answers in time.
PollTimeout ==
  /\ Goto("poll", "loop") /\ slept
  /\ ~(prim = "up" /\ "ack" \in inbox)
  /\ RESET_FAILBACK /\ Trouble
  /\ UNCHANGED <<active, errno, slept, probe, sem, inbox, prim, work>>

\* recv() finds nothing after all, e.g. because of a bad checksum.
RecvAgain ==
  /\ WouldBlock
  /\ Goto("poll", "loop")
  /\ errno' = "EAGAIN"
  /\ RESET_FAILBACK /\ Trouble
  /\ UNCHANGED <<active, slept, probe, sem, inbox, prim, work>>

\* An ACK ends the matter if the primary is in use; if the backup is, the
\* primary is polled on.
RecvAck_reset ==
  /\ "ack" \in inbox /\ inbox' = inbox \ {"ack"}
  /\ Goto("poll", IF active = 0 THEN "drain" ELSE "pause")
  /\ slept' = FALSE
  /\ RESET_FAILBACK
  /\ quiet' = IF active = 0 THEN 0 ELSE quiet
  /\ UNCHANGED <<active, errno, probe, sem, prim, work, napped>>
RecvAck ==
  /\ "ack" \in inbox /\ inbox' = inbox \ {"ack"}
  /\ Goto("poll", IF active = 0 THEN "drain" ELSE "pause")
  /\ slept' = FALSE
  /\ quiet' = IF active = 0 THEN 0 ELSE quiet
  /\ UNCHANGED <<active, left, errno, probe, sem, prim, work, napped>>

\* An ICMP error, a NAK, an old answer, or one that fails a check: PAUSE, then
\* RESET_FAILBACK.
RecvOther(m) ==
  /\ m \in inbox \ {"ack"} /\ inbox' = inbox \ {m}
  /\ Goto("poll", "penalty")
  /\ errno' = IF m = "refused" THEN "other" ELSE errno
  /\ slept' = FALSE
  /\ Trouble
  /\ UNCHANGED <<active, left, probe, sem, prim, work>>

PauseDone ==
  /\ Goto("pause", "loop") /\ slept
  /\ UNCHANGED <<active, left, errno, slept, probe, sem, inbox, prim, work, seen>>

PenaltyDone_noreset ==
  /\ Goto("penalty", "loop") /\ slept
  /\ UNCHANGED <<active, left, errno, slept, probe, sem, inbox, prim, work, seen>>
PenaltyDone ==
  /\ Goto("penalty", "loop") /\ slept
  /\ RESET_FAILBACK
  /\ UNCHANGED <<active, errno, slept, probe, sem, inbox, prim, work, seen>>

\* The timeout: fail over, or fail back.
Failover_nofb ==
  /\ Goto("loop", "loop") /\ left = 0 /\ active = 0
  /\ active' = 1
  /\ quiet' = 0 /\ napped' = FALSE
  /\ work' = [w \in Worker |-> [work[w] EXCEPT !.late = (@ \/ work[w].on = "primary")]]
  /\ UNCHANGED <<left, errno, slept, probe, sem, inbox, prim>>
Failover ==
  /\ Goto("loop", "loop") /\ left = 0 /\ active = 0
  /\ active' = 1 /\ left' = fb_timeout
  /\ quiet' = 0 /\ napped' = FALSE
  /\ work' = [w \in Worker |-> [work[w] EXCEPT !.late = (@ \/ work[w].on = "primary")]]
  /\ UNCHANGED <<errno, slept, probe, sem, inbox, prim>>

Failback ==
  /\ Goto("loop", "drain") /\ left = 0 /\ active = 1
  /\ active' = 0
  /\ UNCHANGED <<left, errno, slept, probe, sem, inbox, prim, work, seen>>

\* while (sem_trywait() != -1 && errno != EAGAIN): a success leaves errno as
\* it was.
Drain ==
  /\ IF sem = 0
     THEN Goto("drain", "wait") /\ errno' = "EAGAIN" /\ UNCHANGED sem
     ELSE /\ Goto("drain", IF errno = "EAGAIN" THEN "wait" ELSE "drain")
          /\ sem' = sem - 1
          /\ UNCHANGED errno
  /\ UNCHANGED <<active, left, slept, probe, inbox, prim, work, seen>>

Thread ==
  \/ Signalled \/ Send \/ Again \/ HardError \/ PollTimeout \/ RecvAgain \/ RecvAck
  \/ (\E m \in inbox : RecvOther(m))
  \/ PauseDone \/ PenaltyDone \/ Failover \/ Failback \/ Drain
-----------------------------------------------------------------------------
(* The work threads, the primary and the time. *)

\* state_get_global() notes which gsmd is active, for the PUT too.
Begin(w) ==
  /\ work[w] = NoWork
  /\ work' = [work EXCEPT ![w].on = IF active = 0 THEN "primary" ELSE "backup"]
  /\ UNCHANGED <<thread, sem, inbox, prim, seen>>

\* The request ends without a signal: answered, or a NAK came, or the backup
\* was asked, or the socket failed.
End(w) ==
  /\ work[w] # NoWork
  /\ work[w].on = "primary" => prim # "down" \/ HardErrors
  /\ work' = [work EXCEPT ![w] = NoWork]
  /\ UNCHANGED <<thread, sem, inbox, prim, seen>>

\* gsmd(): the primary did not answer in time, or its port is closed.
TimesOut(w) ==
  /\ work[w].on = "primary"
  /\ work[w].age >= ReqTimeout \/ (HardErrors /\ prim = "down")
  /\ work' = [work EXCEPT ![w] = NoWork]
  /\ sem' = IF sem < MaxSem THEN sem + 1 ELSE sem
  /\ UNCHANGED <<thread, inbox, prim, seen>>

Change ==
  /\ prim' \in {"up", "nak", "down"} \ {prim}
  /\ UNCHANGED <<thread, sem, inbox, work, seen>>

\* poll() and PAUSE last one tick, the thread's other steps take no time unless
\* they are repeated, and no request outlives its timeout.
Tick ==
  /\ pc # "drain" /\ (pc = "loop" => WouldBlock)
  /\ pc \in {"poll", "pause", "penalty"} => ~slept
  /\ \A w \in Worker : work[w].age < ReqTimeout
  /\ left' = IF left > 0 THEN left - 1 ELSE 0
  /\ slept' = (pc \in {"poll", "pause", "penalty"})
  /\ work' = [w \in Worker |-> [work[w] EXCEPT !.age = IF work[w].on = "none" THEN 0 ELSE @ + 1]]
  /\ quiet' = IF quiet < MaxTime THEN quiet + 1 ELSE quiet
  /\ UNCHANGED <<active, pc, errno, probe, sem, inbox, prim, napped>>

Next ==
  \/ Thread
  \/ \E w \in Worker : Begin(w) \/ End(w) \/ TimesOut(w)
  \/ Change
  \/ Tick

Spec == Init /\ [][Next]_vars

\* The threads are scheduled, and time passes.
Fairness ==
  /\ WF_vars(Thread) /\ WF_vars(Tick)
  /\ \A w \in Worker : WF_vars(End(w) \/ TimesOut(w))
FairSpec == Spec /\ Fairness
-----------------------------------------------------------------------------
(* Properties. *)

TypeOK ==
  /\ active \in {0, 1} /\ sem \in 0 .. MaxSem
  /\ pc \in {"wait", "loop", "poll", "pause", "penalty", "drain"}
  /\ left \in 0 .. MaxTime
  /\ errno \in {"none", "EAGAIN", "other"} /\ slept \in BOOLEAN
  /\ probe \in {"plain", "request", "garbled"}
  /\ inbox \subseteq {"ack", "junk", "refused"} /\ prim \in {"up", "nak", "down"}
  /\ work \in [Worker -> [on : {"none", "primary", "backup"}, age : 0 .. ReqTimeout,
                          late : BOOLEAN]]
  /\ quiet \in 0 .. MaxTime /\ napped \in BOOLEAN

\* The primary is given up only when fo_timeout has passed since the signal
\* without an ACK, and taken back only when nothing has gone wrong with it for
\* fb_timeout (failover_thread.c:241-242, "we can't risk allowing a failback to
\* a broken gsmd"): no answer missing, refused or wrong.  The exception: after
\* an error on the backup the thread sleeps, and the next signal, taken for one
\* about an active primary (failover_thread.c:126), starts the failover's
\* timer; until the next sign of trouble the failback hangs on that one.
SwitchesInTime ==
  [][/\ active = 0 /\ active' = 1 => quiet >= fo_timeout
     /\ active = 1 /\ active' = 0 /\ ~napped => quiet >= fb_timeout]_vars

\* When the primary is taken back, every request that was on it when it was
\* given up has ended, so none of them can signal (failover_thread.c:134,
\* "all of these should timeout before we switch back"), with the same
\* exception.
NoLateRequest ==
  [][active = 1 /\ active' = 0 /\ ~napped => \A w \in Worker : ~work[w].late]_vars

\* If the primary is down for good, signals keep the thread awake, and its
\* socket reports no errors in the end, the backup gets used
\* (failover_thread.c:126-129).
FailsOver ==
  <>[](prim = "down" /\ errno # "other") /\ []<>(pc \notin {"wait", "drain"})
    => []<>(active = 1)

\* As long as the thread has been signalled once only, so that its request is
\* still the one the gsmd knows, a primary that is up for good is used again,
\* unless an error has sent the thread to sleep on the backup or poll() keeps
\* announcing datagrams that recv() does not find (failover_thread.c:131, "we
\* keep the backup active for the duration of the timeout +1s").
FailsBackOnce ==
  <>[](prim = "up") /\ [](probe # "garbled") /\ <>[][~RecvAgain]_vars
    => []<>(active = 0 \/ pc = "wait")
=============================================================================
