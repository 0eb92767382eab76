------------------------------ MODULE UserLock ------------------------------
(***************************************************************************)
(* What lock.c promises its callers: every user has a lock, which one      *)
(* caller at a time holds, until it is released or has expired.            *)
(***************************************************************************)
EXTENDS Integers

CONSTANTS User, LockExpiry

VARIABLES clock, lock

Free == [held |-> FALSE, ltime |-> 0]

Init == clock \in Nat /\ lock = [u \in User |-> Free]

\* A free lock, or one nobody gave back in time, goes to the caller.
Acquire(u) ==
  /\ lock[u].held => clock >= lock[u].ltime + LockExpiry
  /\ lock' = [lock EXCEPT ![u] = [held |-> TRUE, ltime |-> clock]]
  /\ UNCHANGED clock

Release(u) ==
  /\ lock[u].held
  /\ lock' = [lock EXCEPT ![u] = Free]
  /\ UNCHANGED clock

\* The daemon is restarted.
Restart == lock' = [u \in User |-> Free] /\ UNCHANGED clock

Tick == clock' = clock + 1 /\ UNCHANGED lock

Next == (\E u \in User : Acquire(u) \/ Release(u)) \/ Restart \/ Tick

Spec == Init /\ [][Next]_<<clock, lock>>
=============================================================================
