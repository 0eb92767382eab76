------------------------------ MODULE MCVerify ------------------------------
(* Small instances of Verify. *)
EXTENDS Verify, TLC

Symm == Permutations(Worker)

\* A state file as the administrator creates it.
Fresh == [null |-> FALSE, clen |-> SyncLen, chal |-> Point("file", 0),
          rd |-> NoRd, failcount |-> 0, authtime |-> 0]

\* One whose delay ends now, in a second or in two, for every number of
\* failures that otpd.conf gives a delay of its own, and for one more.
Delayed ==
  UNION {{[Fresh EXCEPT !.failcount = softfail + n, !.authtime = FirstClock + k - Promised(n)]
            : k \in {i \in 0 .. 2 : i <= Promised(n)}} : n \in 0 .. 6}
Files == {Fresh, NullState} \cup Delayed

\* The presented challenge is answered, or one of the next two passcodes is
\* entered, or one of another length.
Async == [chal |-> "a1", pass |-> Point("a1", 0)]
Sync(i) == [chal |-> NoChal, pass |-> Point("file", i)]
Short == [chal |-> NoChal, pass |-> Point("short", 0)]
Attempts == {Async, Sync(1), Sync(2), Short}
=============================================================================
