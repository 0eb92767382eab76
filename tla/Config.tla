------------------------------- MODULE Config -------------------------------
(***************************************************************************)
(* config.y, config.l: the configuration file is read line by line; every  *)
(* option is set once, every section is checked when it ends.  Whatever is *)
(* wrong ends the daemon (pc = "exit").                                    *)
(*                                                                         *)
(* Data abstraction.  The value of an option is what its setter makes a    *)
(* difference of: numbers where there is arithmetic, otherwise a name, or  *)
(* Bad for a value that is refused.                                        *)
(***************************************************************************)
EXTENDS Integers, Sequences

CONSTANTS
  Unset, Bad,    \* an option that was not seen; a value that is refused
  Files,         \* sets of lines [o |-> option, v |-> value] a file may consist of
  cmdline,       \* options given on the command line: -u, -d, -p
  MinTimeout,    \* 3000 ms
  NsPerMs,       \* 1,000,000
  Second,        \* 1,000,000,000 ns
  DefTimeout,    \* 11,700,000,000 ns
  DefGTimeout,   \* 30,000,000,000 ns
  IntSize,       \* 2^32
  MaxKeyid,      \* 127
  MaxServers     \* bound on the number of server sections

ASSUME ScaleAssumption ==
  /\ MinTimeout \in Nat \ {0} /\ NsPerMs \in Nat \ {0} /\ Second \in Nat \ {0}
  /\ DefTimeout \in Nat /\ DefGTimeout \in Nat /\ IntSize \in Nat \ {0}
  /\ MaxKeyid \in Nat
\* Numbers are strings of digits, and the state mode is one of two words.
ASSUME LinesAssumption == \A l \in UNION Files :
  /\ l.o \in {"timeout", "gtimeout", "server_timeout", "keyid"} => l.v \in Nat
  /\ l.o = "mode" => l.v \in {"local", "global", Bad}
ASSUME CmdAssumption == cmdline \subseteq {"user", "log_level", "plugin_rp"}

VARIABLES
  lines,    \* the lines of the file; any order, any number of times
  pc,
  section,  \* the section the parser is in
  opt,      \* seen_* and the value of each option
  closed,   \* sections that have ended: seen_file, seen_ldap, using_*
  keys,     \* config.key: "null", "key", or "junk" where nothing was stored
  servers   \* gsmd[]: the server sections so far

VARIABLE ms \* history: the timeout as it stands in the file

parser == <<lines, pc, section, opt, closed, keys, servers, ms>>

\* Options whose setter may refuse the value, and options that take anything.
TopNames == {"user", "log_facility"}
TopChecked == {"log_level", "plugin_rp", "backend"}
TopFree == {"prepend_pin", "hardfail", "softfail", "ewindow_size",
            "rwindow_size", "site_transform"}
FileChecked == {"passwd", "state_server"}
LdapChecked == {"host", "port", "filter", "scope"}
LdapFree == {"binddn", "bindpw", "basedn"}
TlsChecked == {"tls_mode", "verify_cert", "cacertfile", "cacertdir",
               "certfile", "keyfile"}
KeyChecked == {"key"}
StateChecked == {"mode", "statedir", "gport"}
ServerChecked == {"name", "server_gport", "server_key"}

\* The hosts are only looked up by finish_config().
ServerFree == {"primary", "backup"}

Checked == TopNames \cup TopChecked \cup FileChecked \cup LdapChecked
           \cup TlsChecked \cup KeyChecked \cup StateChecked \cup ServerChecked

OptionsOf ==
  [top    |-> TopNames \cup TopChecked \cup TopFree \cup {"timeout"},
   file   |-> FileChecked \cup {"encrypt"},
   ldap   |-> LdapFree \cup LdapChecked,
   tls    |-> TlsChecked,
   key    |-> KeyChecked \cup {"keyid"},
   state  |-> StateChecked \cup {"gtimeout"},
   server |-> ServerChecked \cup ServerFree \cup {"server_timeout"}]
Sections == DOMAIN OptionsOf
Options == UNION {OptionsOf[s] : s \in Sections}

\* otpd { file {} ldap { tls {} } passwdkey {} state { server {} } }
Parent == [file |-> "top", ldap |-> "top", tls |-> "ldap", key |-> "top",
           state |-> "top", server |-> "state"]

InitParser ==
  /\ lines \in Files
  /\ pc = "cmdline" /\ section = "top"
  /\ opt = [o \in Options |-> Unset]
  /\ closed = {} /\ keys = <<>> /\ servers = <<>>
  /\ ms = Unset

Exit == pc' = "exit" /\ UNCHANGED <<lines, section, opt, closed, keys, servers, ms>>

\* -u and -d are applied, or refused.  -p is stored in seen_plugin_rp, which
\* config_init() then clears.  The file is opened.
CommandLine ==
  /\ pc = "cmdline"
  /\ \/ Exit
     \/ pc' = "parse" /\ UNCHANGED <<lines, section, opt, closed, keys, servers, ms>>
-----------------------------------------------------------------------------
(* Options. *)

\* An int product.  Out of range it is undefined: builds keep the low 32 bits
\* or compute it in 64.
Wrapped(x) == ((x + IntSize \div 2) % IntSize) - IntSize \div 2
IntProduct(a, b) == {a * b, Wrapped(a * b)}

set_auth_timeout(v) == IF v < MinTimeout THEN {Bad} ELSE IntProduct(v, NsPerMs)

\* seen_gtimeout and seen_server_timeout double as the value: 0 is not set.
NonZero(v) == IF v = 0 THEN Unset ELSE v
set_state_timeout(v) == {NonZero(x) : x \in IntProduct(v, NsPerMs)}
set_server_timeout(v) == NonZero(v)

\* encrypt is the id of a key, or NoKeyid: clear, pin, pin-md5.
NoKeyid == -1
set_file_encrypt(v) == IF v > MaxKeyid THEN Bad ELSE v

\* A name that another server has is refused.
set_server_name(v) ==
  IF \E i \in DOMAIN servers : servers[i].name = v THEN Bad ELSE v

\* What the option's setter may store; Bad if it exits.
Stored(l) ==
  CASE l.o = "timeout"        -> set_auth_timeout(l.v)
    [] l.o = "gtimeout"       -> set_state_timeout(l.v)
    [] l.o = "server_timeout" -> {set_server_timeout(l.v)}
    [] l.o = "encrypt"        -> {set_file_encrypt(l.v)}
    [] l.o = "name"           -> {set_server_name(l.v)}
    [] l.o = "user"           -> {IF "user" \in cmdline THEN "ignored" ELSE l.v}
    [] l.o = "log_level"      -> {IF l.v # Bad /\ "log_level" \in cmdline THEN "ignored" ELSE l.v}
    [] OTHER                  -> {l.v}

Set(l) ==
  /\ pc = "parse" /\ l.o \in OptionsOf[section] /\ opt[l.o] = Unset
  /\ \E v \in Stored(l) :
       IF v = Bad /\ l.o \notin ServerFree THEN Exit
       ELSE /\ opt' = IF l.o = "plugin_rp" /\ l.o \in cmdline THEN opt
                      ELSE [opt EXCEPT ![l.o] = v]
            /\ ms' = IF l.o = "timeout" THEN l.v ELSE ms
            /\ UNCHANGED <<lines, pc, section, closed, keys, servers>>

\* The option was set before: the line is ignored.
SetAgain(l) ==
  /\ pc = "parse" /\ l.o \in OptionsOf[section] /\ opt[l.o] # Unset
  /\ UNCHANGED parser

\* yyerror(): a line where it must not be, an unterminated string, the end of
\* the file within a section.
SyntaxError == pc = "parse" /\ Exit
-----------------------------------------------------------------------------
(* Sections. *)

Begin(s) ==
  /\ pc = "parse" /\ section = Parent[s]
  /\ s = "server" => Len(servers) < MaxServers
  /\ section' = s
  /\ UNCHANGED <<lines, pc, opt, closed, keys, servers, ms>>

\* file, tls and state end.
OnlyOnce(s) ==
  /\ pc = "parse" /\ section = s /\ s \in {"file", "tls", "state"}
  /\ IF s \in closed THEN Exit
     ELSE /\ closed' = closed \cup {s} /\ section' = Parent[s]
          /\ UNCHANGED <<lines, pc, opt, keys, servers, ms>>

LdapComplete ==
  /\ opt.basedn # Unset /\ opt.filter # Unset
  /\ opt.binddn # Unset => opt.bindpw # Unset

finish_ldap ==
  /\ pc = "parse" /\ section = "ldap"
  /\ IF "ldap" \in closed \/ ~LdapComplete THEN Exit
     ELSE /\ closed' = closed \cup {"ldap"} /\ section' = "top"
          /\ UNCHANGED <<lines, pc, opt, keys, servers, ms>>

\* config.key grows to id + 1 entries.  xrealloc() does not clear what it
\* adds, and the memset() starts at entry id: the entries between the old end
\* and id hold what was there, and as many entries behind the end are cleared.
Grown(id) ==
  LET n == Len(keys) IN
  {[k \in 1 .. id + 1 |-> IF k <= n THEN keys[k] ELSE IF k = id + 1 THEN "null" ELSE gap[k]] :
     gap \in [n + 1 .. id -> IF n = 0 THEN {"null"} ELSE {"null", "junk"}]}

KeyTable(id) == IF id < Len(keys) THEN {keys} ELSE Grown(id)

finish_key ==
  /\ pc = "parse" /\ section = "key"
  /\ IF opt.keyid = Unset \/ opt.key = Unset THEN Exit
     ELSE IF opt.keyid > MaxKeyid THEN Exit
     ELSE \E t \in KeyTable(opt.keyid) :
            IF t[opt.keyid + 1] # "null" THEN Exit
            ELSE /\ keys' = [t EXCEPT ![opt.keyid + 1] = "key"]
                 /\ opt' = [opt EXCEPT !.keyid = Unset, !.key = Unset]
                 /\ section' = "top"
                 /\ UNCHANGED <<lines, pc, closed, servers, ms>>

finish_server ==
  /\ pc = "parse" /\ section = "server"
  /\ IF opt.name = Unset \/ opt.primary = Unset \/ opt.server_key = Unset THEN Exit
     ELSE /\ servers' = Append(servers,
               [name |-> opt.name, primary |-> opt.primary, backup |-> opt.backup,
                timeout |-> opt.server_timeout, key |-> opt.server_key])
          /\ opt' = [o \in Options |-> IF o \in OptionsOf["server"] THEN Unset ELSE opt[o]]
          /\ section' = "state"
          /\ UNCHANGED <<lines, pc, closed, keys, ms>>

Parse ==
  \/ CommandLine \/ SyntaxError
  \/ \E l \in lines : Set(l) \/ SetAgain(l)
  \/ \E s \in DOMAIN Parent : Begin(s) \/ OnlyOnce(s)
  \/ finish_ldap \/ finish_key \/ finish_server
=============================================================================
