---------------------------- MODULE MCLockChain -----------------------------
(* Small instances of LockChain. *)
EXTENDS LockChain

OneBucket == [u \in User |-> CHOOSE b \in Bucket : TRUE]
=============================================================================
