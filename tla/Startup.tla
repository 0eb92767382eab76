------------------------------ MODULE Startup ------------------------------
(***************************************************************************)
(* From the configuration file to a running daemon: finish_config() makes  *)
(* the tables the daemon works with (config.y), the gsmds are hashed       *)
(* (gsmd.c), and main() starts a failover thread for each gsmd and then    *)
(* the accept thread (main.c).  All of it happens in one thread; from pc = *)
(* "run" on, the other modules of this development take over.              *)
(***************************************************************************)
EXTENDS Config, Gsmd, FiniteSets

VARIABLES
  unfound,  \* unfound_gsmd
  next,     \* i of the loop over gsmd[]
  gsmds,    \* the gsmd_t made so far, by name
  table,    \* gsmd_chain
  g,        \* main()'s position in the table
  threads   \* failover threads started, by gsmd, in order

daemon == <<unfound, next, gsmds, table, g, threads>>
vars == <<parser, daemon>>

ASSUME NamesAssumption ==
  \A l \in UNION Files : l.o \in {"name", "state_server"} /\ l.v # Bad => l.v \in Names

Init ==
  /\ InitParser
  /\ unfound = 0 /\ next = 1 /\ gsmds = <<>> /\ table = EmptyTable
  /\ g = NULL /\ threads = <<>>

Goto(to) == pc' = to /\ UNCHANGED <<lines, section, opt, closed, keys, servers, ms>>
-----------------------------------------------------------------------------
(* finish_config() *)

Value(o, default) == IF opt[o] = Unset THEN default ELSE opt[o]

backend == Value("backend", "file")
mode == Value("mode", "local")
timeout == Value("timeout", DefTimeout)

\* The state timeout: twice the request timeout and a second, 30 s at least.
gtimeout ==
  LET t == 2 * timeout + Second
  IN  Value("gtimeout", IF t < DefGTimeout THEN DefGTimeout ELSE t)

\* config.key[config.file.keyid]: a table that is too short is read past its
\* end.
KeyEntries(id) == IF id < Len(keys) THEN {keys[id + 1]} ELSE {"null", "junk"}

\* What the test for the key of the password file may find.
KeyTests ==
  IF backend = "file" /\ Value("encrypt", NoKeyid) # NoKeyid
  THEN IF keys = <<>> THEN {FALSE} ELSE {e # "null" : e \in KeyEntries(opt.encrypt)}
  ELSE {TRUE}

\* Without a file or an ldap section there is an empty file section.
AllSections == IF closed \cap {"file", "ldap"} = {} THEN closed \cup {"file"} ELSE closed

BackendThere == backend = "ldap" => "ldap" \in AllSections

StateThere == mode = "global" => servers # <<>> /\ gtimeout >= timeout + Second

\* The end of the file.
finish_config ==
  /\ pc = "parse" /\ section = "top"
  /\ \E there \in KeyTests :
       IF ~(BackendThere /\ there /\ StateThere) THEN Exit /\ UNCHANGED daemon
       ELSE /\ pc' = IF mode = "local" THEN "validate" ELSE "gsmd"
            /\ closed' = AllSections
            /\ unfound' = IF "file" \in AllSections THEN 1 ELSE 0
            /\ UNCHANGED <<lines, section, opt, keys, servers, ms>>
            /\ UNCHANGED <<next, gsmds, table, g, threads>>

\* A server's timeout, if it has one, and the timeouts of its gsmd_t.
TimeoutFits(s) == s.timeout # Unset => s.timeout >= timeout + Second
Timeouts(s) ==
  [fo |-> (IF s.timeout = Unset THEN gtimeout ELSE s.timeout) - timeout,
   fb |-> timeout + Second,
   n  |-> IF s.backup = Unset THEN 1 ELSE 2]

\* The next server becomes a gsmd: its hosts are known and its key is hex.
Fits(s) ==
  TimeoutFits(s) /\ s.primary # Bad /\ s.backup # Bad /\ s.key # "nohex"

NextServer ==
  /\ pc = "gsmd" /\ next <= Len(servers)
  /\ LET s == servers[next] IN
     IF ~Fits(s) THEN Exit /\ UNCHANGED daemon
     ELSE /\ gsmds' = [n \in DOMAIN gsmds \cup {s.name} |->
                         IF n = s.name THEN Timeouts(s) ELSE gsmds[n]]
          /\ table' = gsmd_hash(table, s.name)
          /\ unfound' = IF backend = "file" /\ s.name = Value("state_server", "")
                        THEN unfound - 1 ELSE unfound
          /\ next' = next + 1
          /\ UNCHANGED <<parser, g, threads>>

\* The state server of the password file was among them.
Found_any == TRUE
Found == unfound = 0

ServersDone ==
  /\ pc = "gsmd" /\ next > Len(servers)
  /\ IF Found THEN Goto("validate") ELSE Exit
  /\ UNCHANGED daemon
-----------------------------------------------------------------------------
(* main() *)

\* config_init() ends: an rwindow smaller than the ewindow is switched off.
Validate ==
  /\ pc = "validate" /\ pc' = "start"
  /\ opt' = [opt EXCEPT !.rwindow_size =
       IF Value("rwindow_size", 25) < Value("ewindow_size", 5) THEN 0 ELSE @]
  /\ UNCHANGED <<lines, section, closed, keys, servers, ms, daemon>>

\* cardops_init(), sig_init(), lock_init() or nonce_init(), daemonize().
Daemonize ==
  /\ pc = "start" /\ Goto("threads")
  /\ g' = gsmd_next(table, NULL)
  /\ UNCHANGED <<unfound, next, gsmds, table, threads>>

StartFailover ==
  /\ pc = "threads" /\ g # NULL
  /\ threads' = Append(threads, table[g[1]][g[2]])
  /\ g' = gsmd_next(table, g)
  /\ UNCHANGED <<parser, unfound, next, gsmds, table>>

StartAccept == pc = "threads" /\ g = NULL /\ Goto("run") /\ UNCHANGED daemon

\* What "guaranteed" calls do when they fail: socket(), bind() and listen() at
\* the end of the file, access() to the state directory, sem_init(), fork(),
\* malloc(), pthread_create().
CallFails == pc \in {"parse", "gsmd", "start", "threads"} /\ Exit /\ UNCHANGED daemon

Running == pc \in {"run", "exit"} /\ UNCHANGED vars

Next ==
  \/ Parse /\ UNCHANGED daemon
  \/ finish_config \/ NextServer \/ ServersDone
  \/ Validate \/ Daemonize \/ StartFailover \/ StartAccept \/ CallFails
  \/ Running

Spec == Init /\ [][Next]_vars
-----------------------------------------------------------------------------
(* Properties. *)

Configured == {servers[i].name : i \in DOMAIN servers}

\* When the daemon takes requests, each gsmd of a global configuration has one
\* failover thread, and a local one has none (main.c:247 "start failover
\* threads").
ServersWatched ==
  pc = "run" =>
    LET expected == IF mode = "global" THEN Configured ELSE {} IN
    /\ {threads[k] : k \in DOMAIN threads} = expected
    /\ Len(threads) = Cardinality(expected)

\* The gsmds that requests look up are there: every configured server, and
\* with a file section the one its users are on (config.y:1811 "file/gsmd
\* configuration mismatch").
ServersFound ==
  pc = "run" /\ mode = "global" =>
    /\ \A n \in Names : gsmd_get(table, n) <=> n \in Configured
    /\ backend = "file" /\ "file" \in closed => Value("state_server", "") \in Configured

\* The time a request has is the time that stands in the file
\* (otpd.conf:113 "Timeout, in ms, for each request").
TimeoutAsWritten == pc = "run" /\ ms # Unset => timeout = ms * NsPerMs
=============================================================================
