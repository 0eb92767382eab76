---------------------------- MODULE MCWorkThread ----------------------------
(* Small instances of WorkThread. *)
EXTENDS WorkThread
=============================================================================
