------------------------------- MODULE MCLdap -------------------------------
(* Small instances of Ldap. *)
EXTENDS Ldap

Plain == [valid |-> TRUE, pw |-> "none", pwexp |-> "none", rw |-> FALSE, rwexp |-> "none"]
Invalid == [Plain EXCEPT !.valid = FALSE]
PlainOnly == {Plain, Invalid}

\* Entries with at most one temporary override, with or without its expiry.
Overrides ==
  {Plain, Invalid}
    \cup {[Plain EXCEPT !.pw = p, !.pwexp = x] : p \in {"clear", "{SHA}"}, x \in Expiry}
    \cup {[Plain EXCEPT !.rw = TRUE, !.rwexp = x] : x \in Expiry}

SomeTimes == {0, K, K * K * K}
WholeSeconds == {0, K * K * K}
=============================================================================
