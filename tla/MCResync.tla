------------------------------ MODULE MCResync ------------------------------
(* A small instance of Resync. *)
EXTENDS Resync

\* All passcodes of the first counters, one that repeats for those that a
\* negative low half leads to, and different ones for the others.
Free == 0 .. 7
Negative == {n \in Counters : n >= Size - SignBit}
Repeating == {-1, -2}
AllCodes == Repeating \cup Counters
SomeMacs ==
  {[n \in Counters |-> IF n \in Free THEN f[n] ELSE IF n \in Negative THEN -1 ELSE n] :
     f \in [Free -> Repeating]}
=============================================================================
