----------------------------- MODULE MCStartup -----------------------------
(* Small instances of Startup. *)
EXTENDS Startup, TLC

Line(o, v) == [o |-> o, v |-> v]

\* n1 and n3 share a bucket.
Hash == "n1" :> 0 @@ "n2" :> 1 @@ "n3" :> 0
HashNames == {"n1", "n2", "n3"}

Words(os) == {Line(o, "word") : o \in os}
Server == Words({"primary", "server_key"})
Ldap == {Line("backend", "ldap")} \cup Words({"basedn", "filter"})

\* Three servers, with and without timeouts; a timeout that is too short, and
\* one whose product overflows.
GlobalFile ==
  Server \cup {Line("name", n) : n \in HashNames}
  \cup {Line("mode", "global"), Line("timeout", 2), Line("timeout", 5),
        Line("gtimeout", 4), Line("server_timeout", 4), Line("state_server", "n1")}

\* Either backend, with one server that may be unusable.
MixedFile ==
  Server \cup Ldap
  \cup {Line("name", "n1"), Line("mode", "global"), Line("primary", Bad),
        Line("backup", "word"), Line("server_key", "nohex"),
        Line("state_server", "n1"), Line("state_server", "n2")}

\* Local state, keys with a gap between them.
LocalFile ==
  Ldap \cup Words({"binddn", "bindpw", "tls_mode", "passwd", "plugin_rp"})
  \cup {Line("encrypt", 1), Line("keyid", 0), Line("keyid", 1), Line("keyid", 2),
        Line("keyid", 3), Line("key", "word"), Line("key", Bad),
        Line("rwindow_size", 3)}
SomeFiles == {GlobalFile, MixedFile, LocalFile}

\* Nothing but a timeout.
TimeoutFiles == {{Line("timeout", t)} : t \in 2 .. 12}
=============================================================================
