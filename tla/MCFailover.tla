----------------------------- MODULE MCFailover -----------------------------
(* Small instances of Failover. *)
EXTENDS Failover
=============================================================================
