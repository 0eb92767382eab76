---------------------------- MODULE StartupProofs ---------------------------
(***************************************************************************)
(* Theorems about start-up, for every configuration file, every number of  *)
(* servers, every hash table and every scale of the timeouts.              *)
(***************************************************************************)
EXTENDS Startup, TLAPS, FiniteSetTheorems, WellFoundedInduction

(* Options. *)

\* The values lines have.
Values == {l.v : l \in UNION Files} \cup {Unset}

\* What a setter stores where finish_config() computes with it.
Fitting(o, v) ==
  /\ o \in {"timeout", "gtimeout", "server_timeout"} => v \in Int
  /\ o = "keyid" => v \in Nat
  /\ o = "mode" => v \in {"local", "global"}
  /\ o = "name" => v \in Names
  /\ o \in {"primary", "backup", "server_key"} => v \in Values

ServerType ==
  [name : Names, primary : Values, backup : Values, timeout : Int \cup {Unset},
   key : Values]

KeyType == {"null", "key", "junk"}

OptionInv ==
  /\ lines \in Files
  /\ DOMAIN opt = Options /\ opt = [o \in Options |-> opt[o]]
  /\ \A o \in Options : opt[o] # Unset => Fitting(o, opt[o])
  /\ servers \in Seq(ServerType)
  /\ keys \in Seq(KeyType)

\* The options the proofs name.
LEMMA OptionNames ==
  /\ {"timeout", "gtimeout", "server_timeout", "keyid", "key", "mode", "name", "backend",
      "primary", "backup", "server_key", "basedn", "filter", "binddn", "bindpw",
      "encrypt", "state_server", "rwindow_size"} \subseteq Options
  /\ OptionsOf["server"] =
       {"name", "server_gport", "server_key", "primary", "backup", "server_timeout"}
<1>1. /\ \A s \in {"top", "file", "ldap", "key", "state", "server"} : OptionsOf[s] \subseteq Options
      /\ OptionsOf["server"] =
           {"name", "server_gport", "server_key", "primary", "backup", "server_timeout"}
  BY DEF Options, Sections, OptionsOf, ServerChecked, ServerFree
<1>2. {"timeout", "backend", "rwindow_size"} \subseteq OptionsOf["top"]
  BY DEF OptionsOf, TopChecked, TopFree
<1>3. {"encrypt", "state_server"} \subseteq OptionsOf["file"]
  BY DEF OptionsOf, FileChecked
<1>4. {"basedn", "filter", "binddn", "bindpw"} \subseteq OptionsOf["ldap"]
  BY DEF OptionsOf, LdapFree, LdapChecked
<1>5. {"keyid", "key"} \subseteq OptionsOf["key"]
  BY DEF OptionsOf, KeyChecked
<1>6. {"gtimeout", "mode"} \subseteq OptionsOf["state"]
  BY DEF OptionsOf, StateChecked
<1> QED
  BY <1>1, <1>2, <1>3, <1>4, <1>5, <1>6

\* An int product is a number, however it wraps.
LEMMA ProductType ==
  ASSUME NEW a \in Int, NEW b \in Int PROVE IntProduct(a, b) \subseteq Int
<1>1. a * b \in Int
  OBVIOUS
<1>2. ASSUME NEW x \in Int PROVE Wrapped(x) \in Int
  <2>1. IntSize \div 2 \in Int /\ x + IntSize \div 2 \in Int
    BY ScaleAssumption
  <2>2. (x + IntSize \div 2) % IntSize \in Int
    BY <2>1, ScaleAssumption
  <2> QED
    BY <2>1, <2>2 DEF Wrapped
<1> QED
  BY <1>1, <1>2 DEF IntProduct

\* What a setter stores fits, unless it is refused.
LEMMA StoredFits ==
  ASSUME NEW l \in UNION Files, NEW v \in Stored(l), v # Unset,
         v # Bad \/ l.o \in ServerFree
  PROVE  Fitting(l.o, v)
<1>1. CASE l.o = "timeout"
  <2>1. v # Bad /\ l.v \in Int
    BY <1>1, LinesAssumption DEF ServerFree
  <2>2. v \in set_auth_timeout(l.v)
    BY <1>1 DEF Stored
  <2>3. v \in IntProduct(l.v, NsPerMs)
    BY <2>1, <2>2 DEF set_auth_timeout
  <2> QED
    BY <1>1, <2>1, <2>3, ProductType, ScaleAssumption DEF Fitting
<1>2. CASE l.o = "gtimeout"
  <2>1. l.v \in Int
    BY <1>2, LinesAssumption
  <2>2. v \in set_state_timeout(l.v)
    BY <1>2 DEF Stored
  <2>3. v \in IntProduct(l.v, NsPerMs)
    BY <2>2 DEF set_state_timeout, NonZero
  <2> QED
    BY <1>2, <2>1, <2>3, ProductType, ScaleAssumption DEF Fitting
<1>3. CASE l.o = "server_timeout"
  <2>1. l.v \in Int
    BY <1>3, LinesAssumption
  <2>2. v = set_server_timeout(l.v)
    BY <1>3 DEF Stored
  <2> QED
    BY <1>3, <2>1, <2>2 DEF Fitting, set_server_timeout, NonZero
<1>4. CASE l.o = "name"
  <2>1. v = set_server_name(l.v) /\ v # Bad
    BY <1>4 DEF Stored, ServerFree
  <2>2. v = l.v
    BY <2>1 DEF set_server_name
  <2> QED
    BY <1>4, <2>1, <2>2, NamesAssumption DEF Fitting
<1>5. CASE l.o \in {"keyid", "mode", "primary", "backup", "server_key"}
  <2>1. v = l.v
    BY <1>5 DEF Stored
  <2> QED
    BY <1>5, <2>1, LinesAssumption DEF Fitting, Values, ServerFree
<1>6. CASE l.o \notin {"timeout", "gtimeout", "server_timeout", "name", "keyid", "mode",
                       "primary", "backup", "server_key"}
  BY <1>6 DEF Fitting
<1> QED
  BY <1>1, <1>2, <1>3, <1>4, <1>5, <1>6
-----------------------------------------------------------------------------
(* Parsing. *)

\* No two servers have the same name, and the one being read has a new one.
NamesInv ==
  /\ \A i, j \in DOMAIN servers : servers[i].name = servers[j].name => i = j
  /\ opt.name # Unset => \A i \in DOMAIN servers : servers[i].name # opt.name

ParseInv == OptionInv /\ NamesInv

\* An option is set, or refused.
LEMMA SetStep ==
  ASSUME ParseInv, NEW l \in lines, Set(l)
  PROVE  ParseInv'
<1> USE DEF ParseInv
<1>1. CASE Exit
  BY <1>1 DEF Exit, OptionInv, NamesInv
<1>2. CASE ~Exit
  <2>1. PICK v \in Stored(l) :
          /\ v # Bad \/ l.o \in ServerFree
          /\ opt' = IF l.o = "plugin_rp" /\ l.o \in cmdline THEN opt
                    ELSE [opt EXCEPT ![l.o] = v]
          /\ UNCHANGED <<lines, section, closed, keys, servers>>
    BY <1>2 DEF Set
  <2>2. l \in UNION Files
    BY DEF Set, OptionInv
  <2>3. CASE l.o = "plugin_rp" /\ l.o \in cmdline
    BY <2>1, <2>3 DEF OptionInv, NamesInv
  <2>4. CASE ~(l.o = "plugin_rp" /\ l.o \in cmdline)
    <3>1. opt' = [opt EXCEPT ![l.o] = v]
      BY <2>1, <2>4
    <3>2. \A o \in Options : opt'[o] = IF o = l.o THEN v ELSE opt[o]
      BY <3>1 DEF OptionInv
    <3>3. OptionInv'
      <4>1. DOMAIN opt' = Options /\ opt' = [o \in Options |-> opt'[o]]
        BY <3>1 DEF OptionInv
      <4>2. \A o \in Options : opt'[o] # Unset => Fitting(o, opt'[o])
        BY <2>1, <2>2, <3>2, StoredFits DEF OptionInv
      <4> QED
        BY <2>1, <4>1, <4>2 DEF OptionInv, Fitting
    <3>4. NamesInv'
      <4>1. CASE l.o = "name"
        <5>1. v = set_server_name(l.v) /\ v # Bad
          BY <2>1, <4>1 DEF Stored, ServerFree
        <5>2. v = l.v /\ \A i \in DOMAIN servers : servers[i].name # v
          BY <5>1 DEF set_server_name
        <5>3. opt'.name = v
          BY <3>2, <4>1, OptionNames
        <5> QED
          BY <2>1, <5>2, <5>3 DEF NamesInv
      <4>2. CASE l.o # "name"
        <5>1. opt'.name = opt.name
          BY <3>2, <4>2, OptionNames
        <5> QED
          BY <2>1, <5>1 DEF NamesInv
      <4> QED
        BY <4>1, <4>2
    <3> QED
      BY <3>3, <3>4
  <2> QED
    BY <2>3, <2>4
<1> QED
  BY <1>1, <1>2

\* The key table grows to a table of keys.
LEMMA GrownType ==
  ASSUME keys \in Seq(KeyType), NEW id \in Nat, NEW t \in KeyTable(id)
  PROVE  t \in Seq(KeyType) /\ id + 1 \in 1 .. Len(t)
<1>1. CASE id < Len(keys)
  BY <1>1 DEF KeyTable
<1>2. CASE ~(id < Len(keys))
  <2> DEFINE n == Len(keys)
  <2>1. PICK gap \in [n + 1 .. id -> IF n = 0 THEN {"null"} ELSE {"null", "junk"}] :
          t = [k \in 1 .. id + 1 |->
                 IF k <= n THEN keys[k] ELSE IF k = id + 1 THEN "null" ELSE gap[k]]
    BY <1>2 DEF KeyTable, Grown
  <2>2. n \in Nat /\ n <= id /\ \A k \in 1 .. n : keys[k] \in KeyType
    BY <1>2
  <2>3. \A k \in n + 1 .. id : gap[k] \in KeyType
    BY <2>1 DEF KeyType
  <2> HIDE DEF n
  <2>4. \A k \in 1 .. id + 1 : t[k] \in KeyType
    BY <2>1, <2>2, <2>3 DEF KeyType
  <2>5. t \in [1 .. id + 1 -> KeyType]
    BY <2>1, <2>4
  <2> QED
    BY <2>5
<1> QED
  BY <1>1, <1>2

\* A key is entered.
LEMMA KeyStep == ASSUME ParseInv, finish_key PROVE ParseInv'
<1> USE DEF ParseInv
<1>1. CASE Exit
  BY <1>1 DEF Exit, OptionInv, NamesInv
<1>2. CASE ~Exit
  <2>1. /\ opt.keyid # Unset
        /\ opt' = [opt EXCEPT !.keyid = Unset, !.key = Unset]
        /\ section = "key" /\ section' = "top" /\ UNCHANGED <<lines, closed, servers>>
    BY <1>2 DEF finish_key
  <2>2. PICK t \in KeyTable(opt.keyid) : keys' = [t EXCEPT ![opt.keyid + 1] = "key"]
    BY <1>2 DEF finish_key
  <2>3. opt.keyid \in Nat
    BY <2>1, OptionNames DEF OptionInv, Fitting
  <2>4. keys' \in Seq(KeyType)
    BY <2>2, <2>3, GrownType DEF OptionInv, KeyType
  <2>5. \A o \in Options : opt'[o] = IF o \in {"keyid", "key"} THEN Unset ELSE opt[o]
    BY <2>1, OptionNames DEF OptionInv
  <2>6. OptionInv'
    <3>1. DOMAIN opt' = Options /\ opt' = [o \in Options |-> opt'[o]]
      BY <2>1 DEF OptionInv
    <3>2. \A o \in Options : opt'[o] # Unset => Fitting(o, opt'[o])
      BY <2>5 DEF OptionInv
    <3> QED
      BY <2>1, <2>4, <3>1, <3>2 DEF OptionInv, Fitting
  <2>7. NamesInv'
    BY <2>1, <2>5, OptionNames DEF NamesInv
  <2> QED
    BY <2>6, <2>7
<1> QED
  BY <1>1, <1>2

\* A server section ends.
LEMMA ServerStep == ASSUME ParseInv, finish_server PROVE ParseInv'
<1> USE DEF ParseInv
<1>1. CASE Exit
  BY <1>1 DEF Exit, OptionInv, NamesInv
<1>2. CASE ~Exit
  <2> DEFINE s == [name |-> opt.name, primary |-> opt.primary, backup |-> opt.backup,
                   timeout |-> opt.server_timeout, key |-> opt.server_key]
  <2>1. /\ opt.name # Unset
        /\ servers' = Append(servers, s)
        /\ opt' = [o \in Options |-> IF o \in OptionsOf["server"] THEN Unset ELSE opt[o]]
        /\ section = "server" /\ section' = "state" /\ UNCHANGED <<lines, closed, keys>>
    BY <1>2 DEF finish_server
  <2>2. s \in ServerType
    BY <2>1, OptionNames DEF OptionInv, Fitting, ServerType, Values
  <2>3. s.name = opt.name
    OBVIOUS
  <2> HIDE DEF s
  <2>4. OptionInv'
    <3>1. DOMAIN opt' = Options /\ opt' = [o \in Options |-> opt'[o]]
      BY <2>1
    <3>2. \A o \in Options : opt'[o] # Unset => Fitting(o, opt'[o])
      BY <2>1 DEF OptionInv
    <3>3. servers' \in Seq(ServerType)
      BY <2>1, <2>2 DEF OptionInv
    <3> QED
      BY <2>1, <3>1, <3>2, <3>3 DEF OptionInv, Fitting
  <2>5. NamesInv'
    <3>1. opt'.name = Unset
      BY <2>1, OptionNames
    <3>2. \A i \in DOMAIN servers' : servers'[i] = IF i \in DOMAIN servers THEN servers[i] ELSE s
      BY <2>1, <2>2 DEF OptionInv
    <3>3. \A i, j \in DOMAIN servers' :
            i \notin DOMAIN servers /\ j \notin DOMAIN servers => i = j
      BY <2>1, <2>2 DEF OptionInv
    <3> QED
      BY <2>1, <2>3, <3>1, <3>2, <3>3 DEF NamesInv
  <2> QED
    BY <2>4, <2>5
<1> QED
  BY <1>1, <1>2

\* No step of the parser breaks its invariant.
LEMMA ParseStep == ASSUME ParseInv, Parse PROVE ParseInv'
<1> USE DEF ParseInv
<1>1. CASE Exit \/ CommandLine \/ SyntaxError
  BY <1>1 DEF CommandLine, SyntaxError, Exit, OptionInv, NamesInv
<1>2. ASSUME NEW l \in lines, Set(l) PROVE ParseInv'
  BY <1>2, SetStep
<1>3. ASSUME NEW l \in lines, SetAgain(l) PROVE ParseInv'
  BY <1>3 DEF SetAgain, parser, OptionInv, NamesInv
<1>4. ASSUME NEW s \in DOMAIN Parent, Begin(s) PROVE ParseInv'
  BY <1>4 DEF Begin, OptionInv, NamesInv
<1>5. ASSUME NEW s \in DOMAIN Parent, OnlyOnce(s) PROVE ParseInv'
  <2>1. CASE ~Exit
    <3>1. UNCHANGED <<lines, opt, keys, servers>>
      BY <1>5, <2>1 DEF OnlyOnce
    <3> QED
      BY <3>1 DEF OptionInv, NamesInv
  <2> QED
    BY <1>1, <2>1
<1>6. CASE finish_ldap
  <2>1. CASE ~Exit
    <3>1. UNCHANGED <<lines, opt, keys, servers>>
      BY <1>6, <2>1 DEF finish_ldap
    <3> QED
      BY <3>1 DEF OptionInv, NamesInv
  <2> QED
    BY <1>1, <2>1
<1> QED
  BY <1>1, <1>2, <1>3, <1>4, <1>5, <1>6, KeyStep, ServerStep DEF Parse
-----------------------------------------------------------------------------
(* The end of the file and after. *)

Reading == pc \in {"cmdline", "parse"}
Loaded == pc \in {"validate", "start", "threads", "run"}

\* The steps after finish_config() change one option, and nothing else that
\* the parser has left.
Settled ==
  /\ \A o \in Options \ {"rwindow_size"} : opt'[o] = opt[o]
  /\ DOMAIN opt' = Options /\ opt' = [o \in Options |-> opt'[o]]
  /\ UNCHANGED <<lines, section, closed, keys, servers>>

\* Until the file has been read there are no gsmds.
IdleInv == Reading => next = 1 /\ gsmds = <<>> /\ g = NULL /\ threads = <<>>

\* gsmds are only made in global mode, and then all of them are.
ModeInv ==
  /\ next \in 1 .. Len(servers) + 1
  /\ pc = "gsmd" => mode = "global"
  /\ Loaded => next = IF mode = "global" THEN Len(servers) + 1 ELSE 1

\* The words of the state mode.
LEMMA ModeWords == ASSUME OptionInv PROVE mode \in {"local", "global"}
  BY OptionNames DEF OptionInv, Fitting, mode, Value

\* What does not change when the options are settled.
LEMMA SettledValues ==
  ASSUME ParseInv, Settled
  PROVE  /\ ParseInv'
         /\ mode' = mode /\ backend' = backend
         /\ Value("state_server", "")' = Value("state_server", "")
<1>1. \A o \in {"mode", "name", "backend", "state_server"} : opt'[o] = opt[o]
  BY OptionNames DEF Settled
<1>2. ParseInv'
  <2>1. OptionInv'
    <3>1. \A o \in Options : opt'[o] # Unset => Fitting(o, opt'[o])
      <4> SUFFICES ASSUME NEW o \in Options, opt'[o] # Unset PROVE Fitting(o, opt'[o])
        OBVIOUS
      <4>1. CASE o = "rwindow_size"
        BY <4>1 DEF Fitting
      <4>2. CASE o # "rwindow_size"
        BY <4>2 DEF Settled, ParseInv, OptionInv
      <4> QED
        BY <4>1, <4>2
    <3> QED
      BY <3>1 DEF Settled, ParseInv, OptionInv, Fitting
  <2>2. NamesInv'
    BY <1>1 DEF Settled, ParseInv, NamesInv
  <2> QED
    BY <2>1, <2>2 DEF ParseInv
<1>3. mode' = mode /\ backend' = backend
      /\ Value("state_server", "")' = Value("state_server", "")
  BY <1>1 DEF mode, backend, Value
<1> QED
  BY <1>2, <1>3

\* The steps of the daemon.
Step ==
  NextServer \/ ServersDone \/ Validate \/ Daemonize \/ StartFailover \/ StartAccept
  \/ CallFails \/ Running

\* The steps after the end of the file leave the options settled.
LEMMA StepSettles == ASSUME ParseInv, Step PROVE Settled
<1>1. CASE Exit \/ UNCHANGED parser
  BY <1>1 DEF Exit, parser, Settled, ParseInv, OptionInv
<1>2. CASE NextServer \/ CallFails \/ Running \/ StartFailover
  BY <1>1, <1>2 DEF NextServer, CallFails, Running, StartFailover, vars
<1>3. CASE ServersDone \/ Daemonize \/ StartAccept
  BY <1>1, <1>3 DEF ServersDone, Daemonize, StartAccept, Goto, Settled, ParseInv, OptionInv
<1>4. CASE Validate
  BY <1>4, OptionNames DEF Validate, Settled, ParseInv, OptionInv
<1> QED
  BY <1>2, <1>3, <1>4 DEF Step

\* A step of the parser is taken while the file is read.
LEMMA ParseReads ==
  ASSUME Parse
  PROVE  /\ Reading
         /\ pc' \in {"parse", "exit"}
         /\ pc' = "exit" => UNCHANGED <<lines, section, opt, closed, keys, servers>>
<1>1. CASE CommandLine \/ SyntaxError
  BY <1>1 DEF CommandLine, SyntaxError, Exit, Reading
<1>2. ASSUME NEW l \in lines, Set(l) \/ SetAgain(l)
      PROVE  pc = "parse" /\ (Exit \/ pc' = pc)
  BY <1>2 DEF Set, SetAgain, parser
<1>3. ASSUME NEW s \in DOMAIN Parent, Begin(s) \/ OnlyOnce(s)
      PROVE  pc = "parse" /\ (Exit \/ pc' = pc)
  BY <1>3 DEF Begin, OnlyOnce
<1>4. CASE finish_ldap \/ finish_key \/ finish_server
  <2>1. pc = "parse" /\ (Exit \/ pc' = pc)
    BY <1>4 DEF finish_ldap, finish_key, finish_server
  <2> QED
    BY <2>1 DEF Exit, Reading
<1> QED
  BY <1>1, <1>2, <1>3, <1>4 DEF Parse, Exit, Reading

CoreInv == ParseInv /\ IdleInv /\ ModeInv

LEMMA InitCore == ASSUME Init PROVE CoreInv
<1> USE DEF Init, InitParser
<1>1. OptionInv
  BY DEF OptionInv
<1>2. NamesInv
  BY OptionNames DEF NamesInv
<1>3. IdleInv /\ ModeInv
  BY DEF IdleInv, ModeInv, Reading, Loaded
<1> QED
  BY <1>1, <1>2, <1>3 DEF CoreInv, ParseInv

\* The end of the file.
LEMMA FinishCore == ASSUME CoreInv, finish_config PROVE CoreInv'
<1> USE DEF CoreInv
<1>0. pc = "parse" /\ UNCHANGED <<lines, opt, keys, servers>>
      /\ UNCHANGED <<next, gsmds, table, g, threads>>
  BY DEF finish_config, Exit, daemon
<1>1. ParseInv'
  BY <1>0 DEF ParseInv, OptionInv, NamesInv, Fitting
<1>2. next = 1 /\ next' \in 1 .. Len(servers') + 1
  BY <1>0 DEF IdleInv, ModeInv, Reading
<1>3. mode' = mode /\ mode \in {"local", "global"}
  BY <1>0, ModeWords DEF mode, Value, ParseInv
<1>4. pc' = "exit" \/ pc' = IF mode = "local" THEN "validate" ELSE "gsmd"
  BY DEF finish_config, Exit
<1> QED
  BY <1>0, <1>1, <1>2, <1>3, <1>4 DEF IdleInv, ModeInv, Reading, Loaded

\* The steps after the end of the file.
LEMMA StepCore == ASSUME CoreInv, Step PROVE CoreInv'
<1> USE DEF CoreInv
<1>1. Settled /\ ParseInv' /\ mode' = mode
  BY StepSettles, SettledValues
<1>2. servers' = servers /\ servers \in Seq(ServerType)
  BY <1>1 DEF Settled, ParseInv, OptionInv
<1>3. IdleInv'
  BY DEF Step, NextServer, ServersDone, Validate, Daemonize, StartFailover, StartAccept,
         CallFails, Running, Goto, Exit, vars, daemon, parser, IdleInv, Reading
<1>4. CASE NextServer /\ ~Exit
  <2>1. pc = "gsmd" /\ next <= Len(servers) /\ next' = next + 1 /\ pc' = pc
    BY <1>4 DEF NextServer, parser
  <2>2. ModeInv'
    BY <1>1, <1>2, <2>1 DEF ModeInv, Loaded
  <2> QED
    BY <1>1, <1>3, <2>2
<1>5. CASE ServersDone
  <2>1. ModeInv'
    BY <1>1, <1>2, <1>5 DEF ServersDone, daemon, ModeInv, Loaded, Goto, Exit
  <2> QED
    BY <1>1, <1>3, <2>1
<1>6. CASE Exit /\ UNCHANGED daemon
  BY <1>1, <1>2, <1>3, <1>6 DEF Exit, daemon, ModeInv, Loaded
<1>7. CASE Validate \/ Daemonize \/ StartFailover \/ StartAccept \/ Running
  <2>1. next' = next /\ (Loaded' => Loaded) /\ (pc' = "gsmd" => pc = "gsmd")
    BY <1>7 DEF Validate, Daemonize, StartFailover, StartAccept, Running, Goto, vars, daemon,
                parser, Loaded
  <2> QED
    BY <1>1, <1>2, <1>3, <2>1 DEF ModeInv
<1>8. (NextServer /\ Exit) \/ CallFails => Exit /\ UNCHANGED daemon
  BY DEF NextServer, CallFails, Exit, parser
<1> QED
  BY <1>4, <1>5, <1>6, <1>7, <1>8 DEF Step

\* Every step keeps the invariant.
LEMMA CoreStep == ASSUME CoreInv, [Next]_vars PROVE CoreInv'
<1>1. CASE Parse /\ UNCHANGED daemon
  <2>1. ParseInv' /\ Reading
    BY <1>1, ParseStep, ParseReads DEF CoreInv
  <2>2. UNCHANGED <<next, gsmds, g, threads>> /\ pc' \in {"parse", "exit"}
    BY <1>1, ParseReads DEF daemon
  <2>3. next = 1 /\ gsmds = <<>> /\ g = NULL /\ threads = <<>>
    BY <2>1 DEF CoreInv, IdleInv
  <2>4. next' \in 1 .. Len(servers') + 1
    BY <2>1, <2>2, <2>3 DEF ParseInv, OptionInv
  <2> QED
    BY <2>1, <2>2, <2>3, <2>4 DEF CoreInv, IdleInv, ModeInv, Loaded
<1>2. CASE UNCHANGED vars
  BY <1>2 DEF vars, CoreInv, ParseInv, OptionInv, Fitting, NamesInv, IdleInv, ModeInv,
     Reading, Loaded, mode, Value, parser, daemon
<1> QED
  BY <1>1, <1>2, FinishCore, StepCore DEF Next, Step

-----------------------------------------------------------------------------
(* The table of gsmds. *)

\* The names of the servers that have been made gsmds.
Hashed == {servers[i].name : i \in 1 .. next - 1}

\* A table of names, each once and on its own chain.
Orderly(t) ==
  /\ t \in [Bucket -> Seq(Names)]
  /\ \A b \in Bucket : \A k \in DOMAIN t[b] : uhash[t[b][k]] = b
  /\ \A b \in Bucket : \A j, k \in DOMAIN t[b] : t[b][j] = t[b][k] => j = k

TableInv ==
  /\ Orderly(table)
  /\ \A n \in Names : gsmd_get(table, n) <=> n \in Hashed

\* The state server of the password file is missed until it is met.
FileInv ==
  LET s == Value("state_server", "") IN
  backend = "file" /\ "file" \in closed =>
    /\ pc = "gsmd" => s \in Hashed \/ unfound = 1
    /\ Loaded /\ mode = "global" => s \in Hashed

\* A new name goes in front of its chain.
LEMMA HashAdds ==
  ASSUME NEW t, Orderly(t), NEW s \in Names, ~gsmd_get(t, s)
  PROVE  /\ Orderly(gsmd_hash(t, s))
         /\ \A n \in Names : gsmd_get(gsmd_hash(t, s), n) <=> n = s \/ gsmd_get(t, n)
<1> DEFINE a == uhash[s]
           u == gsmd_hash(t, s)
<1>1. a \in Bucket /\ t[a] \in Seq(Names) /\ <<s>> \in Seq(Names)
  BY HashAssumption DEF Orderly
<1>2. u = [t EXCEPT ![a] = <<s>> \o t[a]] /\ DOMAIN t = Bucket
  BY DEF gsmd_hash, Orderly
<1>3. u[a] = <<s>> \o t[a] /\ \A b \in Bucket : b # a => u[b] = t[b]
  BY <1>1, <1>2
<1>4. /\ u[a] \in Seq(Names) /\ Len(u[a]) = Len(t[a]) + 1
      /\ \A k \in 1 .. Len(t[a]) + 1 : u[a][k] = IF k = 1 THEN s ELSE t[a][k - 1]
  BY <1>1, <1>3
<1>5. u \in [Bucket -> Seq(Names)]
  BY <1>1, <1>2, <1>3, <1>4 DEF Orderly
<1>6. \A k \in DOMAIN t[a] : t[a][k] # s
  BY DEF gsmd_get
<1> HIDE DEF u
<1>7. ASSUME NEW b \in Bucket, NEW k \in DOMAIN u[b] PROVE uhash[u[b][k]] = b
  <2>1. CASE b = a
    <3>1. k \in 1 .. Len(t[a]) + 1
      BY <1>4, <1>7, <2>1
    <3>2. CASE k = 1
      BY <1>4, <2>1, <3>1, <3>2
    <3>3. CASE k # 1
      BY <1>1, <1>4, <2>1, <3>1, <3>3 DEF Orderly
    <3> QED
      BY <3>2, <3>3
  <2>2. CASE b # a
    BY <1>3, <1>7, <2>2 DEF Orderly
  <2> QED
    BY <2>1, <2>2
<1>8. ASSUME NEW b \in Bucket, NEW j \in DOMAIN u[b], NEW k \in DOMAIN u[b], u[b][j] = u[b][k]
      PROVE  j = k
  <2>1. CASE b = a
    <3>1. j \in 1 .. Len(t[a]) + 1 /\ k \in 1 .. Len(t[a]) + 1
      BY <1>4, <1>8, <2>1
    <3>2. \A i \in 1 .. Len(t[a]) + 1 :
            u[a][i] = (IF i = 1 THEN s ELSE t[a][i - 1]) /\ (i # 1 => i - 1 \in DOMAIN t[a])
      BY <1>1, <1>4
    <3>3. ASSUME j # 1, k # 1 PROVE j = k
      <4>1. j - 1 \in DOMAIN t[a] /\ k - 1 \in DOMAIN t[a] /\ t[a][j - 1] = t[a][k - 1]
        BY <1>8, <2>1, <3>1, <3>2, <3>3
      <4>2. j - 1 = k - 1
        BY <1>1, <4>1 DEF Orderly
      <4> QED
        BY <3>1, <4>2
    <3>4. ASSUME (j = 1) # (k = 1) PROVE FALSE
      BY <1>6, <1>8, <2>1, <3>1, <3>2, <3>4
    <3> QED
      BY <3>3, <3>4
  <2>2. CASE b # a
    BY <1>3, <1>8, <2>2 DEF Orderly
  <2> QED
    BY <2>1, <2>2
<1>9. Orderly(u)
  BY <1>5, <1>7, <1>8 DEF Orderly
<1>10. ASSUME NEW n \in Names PROVE gsmd_get(u, n) <=> n = s \/ gsmd_get(t, n)
  <2>1. CASE uhash[n] = a
    <3>1. gsmd_get(u, n) <=> \E k \in 1 .. Len(t[a]) + 1 : u[a][k] = n
      BY <1>4, <2>1 DEF gsmd_get
    <3>2. gsmd_get(t, n) <=> \E k \in 1 .. Len(t[a]) : t[a][k] = n
      BY <1>1, <2>1 DEF gsmd_get
    <3>3. ASSUME NEW k \in 1 .. Len(t[a]) + 1, u[a][k] = n
          PROVE  n = s \/ \E i \in 1 .. Len(t[a]) : t[a][i] = n
      <4>1. k = 1 \/ k - 1 \in 1 .. Len(t[a])
        BY <1>1, <3>3
      <4> QED
        BY <1>4, <3>3, <4>1
    <3>4. ASSUME NEW k \in 1 .. Len(t[a]), t[a][k] = n
          PROVE  \E i \in 1 .. Len(t[a]) + 1 : u[a][i] = n
      <4>1. k + 1 \in 1 .. Len(t[a]) + 1 /\ k + 1 # 1 /\ (k + 1) - 1 = k
        BY <1>1, <3>4
      <4> QED
        BY <1>4, <3>4, <4>1
    <3>5. n = s => \E i \in 1 .. Len(t[a]) + 1 : u[a][i] = n
      <4>1. 1 \in 1 .. Len(t[a]) + 1
        BY <1>1
      <4> QED
        BY <1>4, <4>1
    <3> QED
      BY <3>1, <3>2, <3>3, <3>4, <3>5
  <2>2. CASE uhash[n] # a
    <3>1. uhash[n] \in Bucket /\ n # s
      BY <2>2, HashAssumption
    <3> QED
      BY <1>3, <2>2, <3>1 DEF gsmd_get
  <2> QED
    BY <2>1, <2>2
<1> QED
  BY <1>9, <1>10 DEF u

FoundInv == CoreInv /\ TableInv /\ FileInv

LEMMA InitFound == ASSUME Init PROVE FoundInv
<1>1. CoreInv
  BY InitCore
<1>2. table = [b \in Bucket |-> <<>>] /\ next = 1 /\ pc = "cmdline"
  BY DEF Init, InitParser, EmptyTable
<1>3. \A b \in Bucket : table[b] = <<>> /\ DOMAIN table[b] = {}
  BY <1>2
<1>4. Orderly(table)
  <2>1. table \in [Bucket -> Seq(Names)]
    BY <1>2
  <2> QED
    BY <1>3, <2>1 DEF Orderly
<1>5. TableInv
  <2>1. Hashed = {}
    BY <1>2 DEF Hashed
  <2> QED
    BY <1>3, <1>4, <2>1, HashAssumption DEF TableInv, gsmd_get
<1>6. FileInv
  BY <1>2 DEF FileInv, Loaded
<1> QED
  BY <1>1, <1>5, <1>6 DEF FoundInv

\* A server becomes a gsmd.
LEMMA NextServerFound == ASSUME FoundInv, NextServer, ~Exit PROVE TableInv' /\ FileInv'
<1> DEFINE s == servers[next]
           n == s.name
<1>1. /\ pc = "gsmd" /\ pc' = pc /\ next <= Len(servers) /\ next' = next + 1
      /\ table' = gsmd_hash(table, n)
      /\ unfound' = IF backend = "file" /\ n = Value("state_server", "")
                    THEN unfound - 1 ELSE unfound
      /\ UNCHANGED <<opt, servers, closed>>
  BY DEF NextServer, parser
<1>2. next \in 1 .. Len(servers) /\ servers \in Seq(ServerType)
  <2>1. servers \in Seq(ServerType) /\ next \in 1 .. Len(servers) + 1
    BY DEF FoundInv, CoreInv, ModeInv, ParseInv, OptionInv
  <2>2. next <= Len(servers)
    BY <1>1
  <2> QED
    BY <2>1, <2>2
<1>3. n \in Names
  <2>1. s \in ServerType
    BY <1>2
  <2> QED
    BY <2>1 DEF ServerType
<1>4. n \notin Hashed
  <2> SUFFICES ASSUME NEW i \in 1 .. next - 1, servers[i].name = n PROVE FALSE
    BY DEF Hashed
  <2>1. i \in DOMAIN servers /\ next \in DOMAIN servers /\ i # next
    BY <1>2
  <2> QED
    BY <2>1 DEF FoundInv, CoreInv, ParseInv, NamesInv
<1>5. Hashed' = Hashed \cup {n}
  <2>0. next' = next + 1
    BY <1>1
  <2>1. \A i : i \in 1 .. next' - 1 <=> i \in 1 .. next - 1 \/ i = next
    BY <1>2, <2>0
  <2> QED
    BY <1>1, <2>1 DEF Hashed
<1> HIDE DEF s, n
<1>6. TableInv'
  <2>1. ~gsmd_get(table, n) /\ Orderly(table)
    BY <1>3, <1>4 DEF FoundInv, TableInv
  <2>2. Orderly(table') /\ \A m \in Names : gsmd_get(table', m) <=> m = n \/ gsmd_get(table, m)
    BY <1>1, <1>3, <2>1, HashAdds
  <2> QED
    BY <1>5, <2>2 DEF FoundInv, TableInv, Orderly
<1>7. FileInv'
  <2>1. backend' = backend /\ Value("state_server", "")' = Value("state_server", "")
    BY <1>1 DEF backend, Value
  <2>2. Value("state_server", "") \in Hashed' \/ unfound' = unfound
        \/ backend # "file"
    BY <1>1, <1>5
  <2> QED
    BY <1>1, <1>5, <2>1, <2>2 DEF FoundInv, FileInv, Loaded
<1> QED
  BY <1>6, <1>7

LEMMA FoundStep == ASSUME FoundInv, [Next]_vars PROVE FoundInv'
<1>1. CoreInv'
  BY CoreStep DEF FoundInv
<1>2. CASE Parse /\ UNCHANGED daemon
  <2>1. next = 1 /\ UNCHANGED <<next, table>> /\ pc' \in {"parse", "exit"}
    BY <1>2, ParseReads DEF daemon, FoundInv, CoreInv, IdleInv
  <2>2. Hashed = {} /\ Hashed' = {}
    BY <2>1 DEF Hashed
  <2>3. FileInv'
    BY <2>1 DEF FileInv, Loaded
  <2> QED
    BY <1>1, <2>1, <2>2, <2>3 DEF FoundInv, TableInv
<1>3. CASE finish_config
  <2>1. UNCHANGED <<next, table, servers, opt>> /\ pc = "parse"
    BY <1>3 DEF finish_config, daemon, Exit
  <2>2. Hashed' = Hashed /\ mode' = mode /\ backend' = backend
    BY <2>1 DEF Hashed, mode, backend, Value
  <2>3. CASE pc' = "exit"
    BY <1>1, <2>1, <2>2, <2>3 DEF FoundInv, TableInv, FileInv, Loaded
  <2>4. CASE pc' # "exit"
    <3>1. /\ pc' = IF mode = "local" THEN "validate" ELSE "gsmd"
          /\ closed' = AllSections
          /\ unfound' = IF "file" \in AllSections THEN 1 ELSE 0
      BY <1>3, <2>4 DEF finish_config, Exit
    <3>2. FileInv'
      BY <2>2, <3>1 DEF FileInv, Loaded
    <3> QED
      BY <1>1, <2>1, <2>2, <3>2 DEF FoundInv, TableInv
  <2> QED
    BY <2>3, <2>4
<1>4. CASE NextServer /\ ~Exit
  BY <1>1, <1>4, NextServerFound DEF FoundInv
<1>5. CASE Step /\ ~(NextServer /\ ~Exit)
  <2>1. Settled
    BY <1>5, StepSettles DEF FoundInv, CoreInv
  <2>2. servers' = servers /\ closed' = closed /\ mode' = mode /\ backend' = backend
        /\ Value("state_server", "")' = Value("state_server", "")
    BY <2>1, SettledValues DEF FoundInv, CoreInv, Settled
  <2>3. UNCHANGED <<next, table, unfound>>
    BY <1>5 DEF Step, NextServer, ServersDone, Validate, Daemonize, StartFailover,
                StartAccept, CallFails, Running, vars, daemon, parser, Exit
  <2>4. /\ pc' = "gsmd" => pc = "gsmd"
        /\ Loaded' => Loaded \/ (pc = "gsmd" /\ unfound = 0)
    BY <1>5 DEF Step, NextServer, ServersDone, Validate, Daemonize, StartFailover,
                StartAccept, CallFails, Running, vars, daemon, parser, Exit, Goto, Loaded, Found
  <2>5. Hashed' = Hashed
    BY <2>2, <2>3 DEF Hashed
  <2>6. TableInv'
    BY <2>3, <2>5 DEF FoundInv, TableInv
  <2>7. FileInv'
    <3> DEFINE s == Value("state_server", "")
    <3>1. ASSUME backend = "file", "file" \in closed
          PROVE  /\ pc = "gsmd" => s \in Hashed \/ unfound = 1
                 /\ Loaded /\ mode = "global" => s \in Hashed
      BY <3>1 DEF FoundInv, FileInv
    <3> HIDE DEF s
    <3>2. ASSUME backend = "file", "file" \in closed
          PROVE  /\ pc' = "gsmd" => s \in Hashed \/ unfound = 1
                 /\ Loaded' /\ mode = "global" => s \in Hashed
      BY <2>4, <3>1, <3>2
    <3> QED
      BY <2>2, <2>3, <2>5, <3>2 DEF FileInv, s
  <2> QED
    BY <1>1, <2>6, <2>7 DEF FoundInv
<1>6. CASE UNCHANGED vars
  <2>1. Hashed' = Hashed
    BY <1>6 DEF Hashed, vars, parser, daemon
  <2>2. TableInv'
    BY <1>6, <2>1 DEF vars, daemon, FoundInv, TableInv
  <2>3. FileInv'
    BY <1>6, <2>1 DEF vars, parser, daemon, FoundInv, FileInv, Loaded, mode, backend, Value
  <2> QED
    BY <1>1, <2>2, <2>3 DEF FoundInv
<1> QED
  BY <1>2, <1>3, <1>4, <1>5, <1>6 DEF Next, Step

\* Once they are loaded, the gsmds of a global configuration are its servers.
LEMMA LoadedAll ==
  ASSUME FoundInv, Loaded, mode = "global" PROVE Hashed = Configured
<1>1. next = Len(servers) + 1 /\ servers \in Seq(ServerType)
  BY DEF FoundInv, CoreInv, ModeInv, ParseInv, OptionInv
<1>2. 1 .. next - 1 = DOMAIN servers
  BY <1>1
<1> QED
  BY <1>2 DEF Hashed, Configured

\* The gsmds that requests look up are there: every configured server and no
\* other, and with a file section the one its users are on (config.y:1811
\* "file/gsmd configuration mismatch").
THEOREM ServersAreFound == Spec => []ServersFound
<1>1. Init => FoundInv
  BY InitFound
<1>2. FoundInv /\ [Next]_vars => FoundInv'
  BY FoundStep
<1>3. FoundInv => ServersFound
  BY LoadedAll DEF FoundInv, TableInv, FileInv, ServersFound, Loaded
<1> QED
  BY <1>1, <1>2, <1>3, PTL DEF Spec
-----------------------------------------------------------------------------
(* Going through the table. *)

\* The gsmd_t there are, and their order: by bucket, then along the chain.
Places(t) == {p \in Bucket \X Nat : p[2] \in DOMAIN t[p[1]]}
Before(p, q) == p[1] < q[1] \/ (p[1] = q[1] /\ p[2] < q[2])

\* The places that have been passed when h is the next one.
Passed(t, h) == {p \in Places(t) : h = NULL \/ Before(p, h)}

Entries(t, P) == {t[p[1]][p[2]] : p \in P}

\* A set of numbers that is not empty has a least element.
LEMMA LeastBucket ==
  ASSUME NEW T, T \subseteq Nat, T # {}
  PROVE  \E x \in T : \A y \in T : x <= y
<1> DEFINE less == {p \in Nat \X Nat : p[1] < p[2]}
<1>1. IsWellFoundedOn(less, Nat)
  BY NatLessThanWellFounded DEF OpToRel
<1> HIDE DEF less
<1>2. PICK x \in T : \A y \in T : ~(<<y, x>> \in less)
  BY <1>1, WFMin
<1>3. ASSUME NEW y \in T PROVE x <= y
  <2>1. x \in Nat /\ y \in Nat
    OBVIOUS
  <2>2. ~(y < x)
    BY <1>2, <2>1 DEF less
  <2> QED
    BY <2>1, <2>2
<1> QED
  BY <1>3

\* The first gsmd from a bucket on.
LEMMA FirstIs ==
  ASSUME NEW t, Orderly(t), NEW b \in Nat
  PROVE  LET h == FirstFrom(t, b) IN
         \/ h = NULL /\ \A p \in Places(t) : p[1] < b
         \/ h \in Places(t) /\ h[1] >= b /\ h[2] = 1 /\ h # NULL
            /\ \A p \in Places(t) : Before(p, h) <=> p[1] < b
<1> DEFINE used == {d \in Bucket : d >= b /\ t[d] # <<>>}
<1>0. Bucket \subseteq Nat
  BY HashAssumption DEF Bucket
<1>1. ASSUME NEW p \in Places(t), ~(p[1] < b) PROVE p[1] \in used
  <2>1. p[1] \in Bucket /\ p[2] \in DOMAIN t[p[1]]
    BY DEF Places
  <2>2. t[p[1]] # <<>>
    BY <2>1
  <2>3. p[1] \in Nat
    BY <1>0, <2>1
  <2>4. p[1] >= b
    BY <1>1, <2>3
  <2> QED
    BY <2>1, <2>2, <2>4
<1>2. CASE used = {}
  <2>1. FirstFrom(t, b) = NULL
    BY <1>2 DEF FirstFrom
  <2> QED
    BY <1>1, <1>2, <2>1
<1>3. CASE used # {}
  <2> DEFINE d == CHOOSE d \in used : \A e \in used : d <= e
  <2>1. FirstFrom(t, b) = <<d, 1>>
    BY <1>3 DEF FirstFrom
  <2>2. \E x \in used : \A e \in used : x <= e
    <3>1. used \subseteq Nat
      BY <1>0
    <3> HIDE DEF used
    <3> QED
      BY <1>3, <3>1, LeastBucket
  <2>3. d \in used /\ \A e \in used : d <= e
    BY <2>2
  <2> HIDE DEF d
  <2>4. d \in Bucket /\ d >= b /\ t[d] # <<>> /\ d \in Nat
    BY <1>0, <2>3
  <2> HIDE DEF used
  <2>5. 1 \in DOMAIN t[d]
    <3>1. t[d] \in Seq(Names)
      BY <2>4 DEF Orderly
    <3> QED
      BY <2>4, <3>1
  <2>6. <<d, 1>> \in Places(t)
    BY <2>4, <2>5 DEF Places
  <2>7. ASSUME NEW p \in Places(t) PROVE Before(p, <<d, 1>>) <=> p[1] < b
    <3>1. p[1] \in Nat /\ p[2] \in Nat /\ p[2] \in DOMAIN t[p[1]] /\ t[p[1]] \in Seq(Names)
      BY <1>0 DEF Places, Orderly
    <3>2. p[2] >= 1
      BY <3>1
    <3>3. p[1] < b \/ d <= p[1]
      BY <1>1, <2>3
    <3> QED
      BY <2>4, <3>1, <3>2, <3>3 DEF Before
  <2>8. <<d, 1>> # NULL
    BY DEF NULL
  <2> QED
    BY <2>1, <2>4, <2>6, <2>7, <2>8
<1> QED
  BY <1>2, <1>3

\* gsmd_next() passes one gsmd, and starts before the first.
LEMMA NextPasses ==
  ASSUME NEW t, Orderly(t)
  PROVE  /\ gsmd_next(t, NULL) = NULL \/ gsmd_next(t, NULL) \in Places(t)
         /\ Passed(t, gsmd_next(t, NULL)) = {}
         /\ \A p \in Places(t) :
              /\ gsmd_next(t, p) = NULL \/ gsmd_next(t, p) \in Places(t)
              /\ p # NULL
              /\ p \notin Passed(t, p)
              /\ Passed(t, gsmd_next(t, p)) = Passed(t, p) \cup {p}
<1>0. Bucket \subseteq Nat
  BY HashAssumption DEF Bucket
<1>a. ASSUME NEW p \in Places(t)
      PROVE  p[1] \in Bucket /\ p[1] \in Nat /\ p[2] \in Nat /\ p[2] >= 1
             /\ p[2] <= Len(t[p[1]]) /\ p = <<p[1], p[2]>> /\ Len(t[p[1]]) \in Nat
             /\ p # NULL
  <2>1. p \in Bucket \X Nat /\ p[2] \in DOMAIN t[p[1]]
    BY DEF Places
  <2>2. t[p[1]] \in Seq(Names)
    BY <2>1 DEF Orderly
  <2>3. PICK a \in Bucket, k \in Nat : p = <<a, k>>
    BY <2>1
  <2>4. p[1] = a /\ p[2] = k /\ p # NULL
    BY <2>3 DEF NULL
  <2>5. a \in Nat /\ t[a] \in Seq(Names) /\ k \in DOMAIN t[a]
    BY <1>0, <2>1, <2>2, <2>4
  <2>6. k >= 1 /\ k <= Len(t[a]) /\ Len(t[a]) \in Nat
    BY <2>5
  <2> QED
    BY <2>3, <2>4, <2>5, <2>6
<1>1. /\ gsmd_next(t, NULL) = NULL \/ gsmd_next(t, NULL) \in Places(t)
      /\ Passed(t, gsmd_next(t, NULL)) = {}
  <2>1. gsmd_next(t, NULL) = FirstFrom(t, 0)
    BY DEF gsmd_next
  <2>2. \A p \in Places(t) : ~(p[1] < 0)
    BY <1>a
  <2> QED
    BY <2>1, <2>2, FirstIs DEF Passed
<1>2. ASSUME NEW p \in Places(t)
      PROVE  /\ gsmd_next(t, p) = NULL \/ gsmd_next(t, p) \in Places(t)
             /\ p # NULL
             /\ p \notin Passed(t, p)
             /\ Passed(t, gsmd_next(t, p)) = Passed(t, p) \cup {p}
  <2> DEFINE h == gsmd_next(t, p)
  <2>1. p # NULL /\ p \notin Passed(t, p)
    BY <1>a DEF Passed, Before
  <2>2. CASE p[2] < Len(t[p[1]])
    <3>1. h = <<p[1], p[2] + 1>>
      BY <2>1, <2>2 DEF gsmd_next
    <3>2. h \in Places(t)
      <4>1. p[2] + 1 \in DOMAIN t[p[1]] /\ p[2] + 1 \in Nat /\ p[1] \in Bucket
        BY <1>a, <2>2 DEF Orderly
      <4> QED
        BY <3>1, <4>1 DEF Places
    <3>3. ASSUME NEW q \in Places(t) PROVE Before(q, h) <=> Before(q, p) \/ q = p
      <4>1. q[1] \in Nat /\ q[2] \in Nat /\ q = <<q[1], q[2]>>
        BY <1>a
      <4>2. p[1] \in Nat /\ p[2] \in Nat /\ p = <<p[1], p[2]>>
        BY <1>a
      <4>3. h[1] = p[1] /\ h[2] = p[2] + 1
        BY <3>1
      <4>4. q = p <=> q[1] = p[1] /\ q[2] = p[2]
        BY <4>1, <4>2
      <4> HIDE DEF h
      <4> QED
        BY <4>1, <4>2, <4>3, <4>4 DEF Before
    <3>4. h # NULL
      BY <1>a, <3>2
    <3> HIDE DEF h
    <3>5. Passed(t, h) = Passed(t, p) \cup {p}
      BY <2>1, <3>3, <3>4 DEF Passed
    <3> QED
      BY <2>1, <3>2, <3>5 DEF h
  <2>3. CASE ~(p[2] < Len(t[p[1]]))
    <3>1. h = FirstFrom(t, p[1] + 1) /\ p[1] + 1 \in Nat
      BY <1>a, <2>1, <2>3 DEF gsmd_next
    <3>2. ASSUME NEW q \in Places(t) PROVE q[1] < p[1] + 1 <=> Before(q, p) \/ q = p
      <4>1. q[1] \in Nat /\ q[2] \in Nat /\ q = <<q[1], q[2]>> /\ q[2] <= Len(t[q[1]])
        BY <1>a
      <4>2. p[1] \in Nat /\ p[2] \in Nat /\ p = <<p[1], p[2]>> /\ p[2] = Len(t[p[1]])
        BY <1>a, <2>3
      <4>3. q = p <=> q[1] = p[1] /\ q[2] = p[2]
        BY <4>1, <4>2
      <4>4. q[1] = p[1] => q[2] <= p[2]
        BY <4>1, <4>2
      <4> QED
        BY <4>1, <4>2, <4>3, <4>4 DEF Before
    <3>3. \/ h = NULL /\ \A q \in Places(t) : q[1] < p[1] + 1
          \/ h \in Places(t) /\ h # NULL
             /\ \A q \in Places(t) : Before(q, h) <=> q[1] < p[1] + 1
      BY <3>1, FirstIs
    <3> HIDE DEF h
    <3>4. Passed(t, h) = Passed(t, p) \cup {p}
      BY <2>1, <3>2, <3>3 DEF Passed
    <3> QED
      BY <2>1, <3>3, <3>4 DEF h
  <2> QED
    BY <2>2, <2>3
<1> QED
  BY <1>1, <1>2

Started == {threads[k] : k \in DOMAIN threads}

\* The gsmds that have been passed have their threads.
WatchInv ==
  /\ threads \in Seq(Names)
  /\ \A j, k \in DOMAIN threads : threads[j] = threads[k] => j = k
  /\ pc \in {"gsmd", "validate", "start"} => threads = <<>>
  /\ pc = "threads" =>
       /\ g = NULL \/ g \in Places(table)
       /\ Started = Entries(table, Passed(table, g))
  /\ pc = "run" => Started = Entries(table, Places(table))

\* No two places have the same name.
LEMMA PlacesApart ==
  ASSUME NEW t, Orderly(t), NEW p \in Places(t), NEW q \in Places(t),
         t[p[1]][p[2]] = t[q[1]][q[2]]
  PROVE  p = q
<1>1. PICK a \in Bucket, j \in Nat : p = <<a, j>> /\ j \in DOMAIN t[a]
  BY DEF Places
<1>2. PICK b \in Bucket, k \in Nat : q = <<b, k>> /\ k \in DOMAIN t[b]
  BY DEF Places
<1>3. t[a][j] = t[b][k]
  BY <1>1, <1>2
<1>4. a = b
  BY <1>1, <1>2, <1>3 DEF Orderly
<1>5. j = k
  BY <1>1, <1>2, <1>3, <1>4 DEF Orderly
<1> QED
  BY <1>1, <1>2, <1>4, <1>5

\* A thread is started for the gsmd that is passed.
LEMMA StartStep ==
  ASSUME FoundInv, WatchInv, StartFailover
  PROVE  WatchInv'
<1> DEFINE n == table[g[1]][g[2]]
<1>1. /\ pc = "threads" /\ pc' = pc /\ g # NULL /\ table' = table
      /\ threads' = Append(threads, n) /\ g' = gsmd_next(table, g)
  BY DEF StartFailover, parser
<1>2. g \in Places(table) /\ Started = Entries(table, Passed(table, g)) /\ Orderly(table)
  BY <1>1 DEF WatchInv, FoundInv, TableInv
<1>3. n \in Names
  BY <1>2 DEF Places, Orderly
<1>4. n \notin Started
  <2> SUFFICES ASSUME NEW p \in Passed(table, g), n = table[p[1]][p[2]] PROVE FALSE
    BY <1>2 DEF Entries
  <2>1. p \in Places(table)
    BY DEF Passed
  <2>2. p = g
    BY <1>2, <2>1, PlacesApart
  <2> QED
    BY <1>2, <2>2, NextPasses
<1>5. threads \in Seq(Names)
  BY DEF WatchInv
<1> HIDE DEF n
<1>6. /\ threads' \in Seq(Names) /\ Len(threads') = Len(threads) + 1
      /\ \A k \in DOMAIN threads' : threads'[k] = IF k \in DOMAIN threads THEN threads[k] ELSE n
      /\ DOMAIN threads' = DOMAIN threads \cup {Len(threads) + 1}
      /\ Len(threads) + 1 \notin DOMAIN threads
  BY <1>1, <1>3, <1>5
<1>7. \A j, k \in DOMAIN threads' : threads'[j] = threads'[k] => j = k
  BY <1>4, <1>6 DEF WatchInv, Started
<1>8. Started' = Started \cup {n}
  <2>1. Started' = {threads'[k] : k \in DOMAIN threads'}
    BY DEF Started
  <2> QED
    BY <1>6, <2>1 DEF Started
<1>9. Passed(table, g') = Passed(table, g) \cup {g} /\ (g' = NULL \/ g' \in Places(table))
  BY <1>1, <1>2, NextPasses
<1>10. Started' = Entries(table, Passed(table, g'))
  BY <1>2, <1>8, <1>9 DEF Entries, n
<1>11. table' = table /\ pc' = "threads"
  BY <1>1
<1>12. threads' \in Seq(Names)
  BY <1>6
<1> QED
  BY <1>7, <1>9, <1>10, <1>11, <1>12 DEF WatchInv

LEMMA WatchStep == ASSUME FoundInv, WatchInv, [Next]_vars PROVE WatchInv'
<1>1. CASE Daemonize
  <2>1. /\ threads' = threads /\ table' = table /\ g' = gsmd_next(table, NULL)
        /\ pc = "start" /\ pc' = "threads"
    BY <1>1 DEF Daemonize, Goto
  <2>2. threads = <<>> /\ Orderly(table)
    BY <2>1 DEF WatchInv, FoundInv, TableInv
  <2>3. (g' = NULL \/ g' \in Places(table)) /\ Passed(table, g') = {}
    BY <2>1, <2>2, NextPasses
  <2>4. Started' = {}
    BY <2>1, <2>2 DEF Started
  <2>5. Started' = Entries(table, Passed(table, g'))
    BY <2>3, <2>4 DEF Entries
  <2> QED
    BY <2>1, <2>2, <2>3, <2>5 DEF WatchInv
<1>2. CASE StartAccept
  <2>1. /\ threads' = threads /\ table' = table /\ pc = "threads" /\ g = NULL /\ pc' = "run"
    BY <1>2 DEF StartAccept, Goto, daemon
  <2>2. Passed(table, g) = Places(table)
    BY <2>1 DEF Passed
  <2>3. Started' = Started
    BY <2>1 DEF Started
  <2> QED
    BY <2>1, <2>2, <2>3 DEF WatchInv
<1>3. CASE /\ UNCHANGED threads
           /\ pc' \in {"gsmd", "validate", "start"} => threads = <<>>
           /\ pc' \notin {"threads", "run"}
  BY <1>3 DEF WatchInv
<1>4. CASE Parse /\ UNCHANGED daemon
  <2>1. pc' \in {"parse", "exit"} /\ UNCHANGED threads
    BY <1>4, ParseReads DEF daemon
  <2> QED
    BY <1>3, <2>1
<1>5. CASE finish_config
  <2>1. pc = "parse" /\ UNCHANGED threads /\ pc' \in {"exit", "validate", "gsmd"}
    BY <1>5 DEF finish_config, daemon, Exit
  <2>2. threads = <<>>
    BY <2>1 DEF FoundInv, CoreInv, IdleInv, Reading
  <2> QED
    BY <1>3, <2>1, <2>2
<1>6. CASE NextServer \/ ServersDone \/ Validate \/ CallFails
  <2>1. UNCHANGED threads /\ (pc' \in {"gsmd", "validate", "start"} => pc \in {"gsmd", "validate"})
        /\ pc' \notin {"threads", "run"}
    BY <1>6 DEF NextServer, ServersDone, Validate, CallFails, Goto, Exit, daemon, parser
  <2> QED
    BY <1>3, <2>1 DEF WatchInv
<1>7. CASE UNCHANGED vars
  <2>1. UNCHANGED <<threads, table, g, pc>>
    BY <1>7 DEF vars, parser, daemon
  <2>2. Started' = Started
    BY <2>1 DEF Started
  <2> QED
    BY <2>1, <2>2 DEF WatchInv
<1> QED
  BY <1>1, <1>2, <1>4, <1>5, <1>6, <1>7, StartStep DEF Next, Running

\* The names in the table are those that can be looked up.
LEMMA EntriesAre ==
  ASSUME NEW t, Orderly(t)
  PROVE  Entries(t, Places(t)) = {n \in Names : gsmd_get(t, n)}
<1>1. ASSUME NEW p \in Places(t)
      PROVE  t[p[1]][p[2]] \in Names /\ gsmd_get(t, t[p[1]][p[2]])
  <2>1. p[1] \in Bucket /\ p[2] \in DOMAIN t[p[1]] /\ t[p[1]] \in Seq(Names)
    BY DEF Places, Orderly
  <2>2. uhash[t[p[1]][p[2]]] = p[1]
    BY <2>1 DEF Orderly
  <2> QED
    BY <2>1, <2>2 DEF gsmd_get
<1>2. ASSUME NEW n \in Names, gsmd_get(t, n)
      PROVE  \E p \in Places(t) : n = t[p[1]][p[2]]
  <2>1. PICK k \in DOMAIN t[uhash[n]] : t[uhash[n]][k] = n
    BY <1>2 DEF gsmd_get
  <2>2. uhash[n] \in Bucket /\ k \in Nat
    BY <2>1, HashAssumption DEF Orderly
  <2>3. <<uhash[n], k>> \in Places(t)
    BY <2>1, <2>2 DEF Places
  <2> QED
    BY <2>1, <2>3
<1> QED
  BY <1>1, <1>2 DEF Entries

\* When the daemon takes requests, each gsmd of a global configuration has
\* exactly one failover thread, and a local one has none, however the names
\* share the buckets (main.c:247 "start failover threads").
THEOREM ServersAreWatched == Spec => []ServersWatched
<1>1. Init => FoundInv /\ WatchInv
  <2>1. Init => WatchInv
    BY DEF Init, InitParser, WatchInv
  <2> QED
    BY <2>1, InitFound
<1>2. FoundInv /\ WatchInv /\ [Next]_vars => FoundInv' /\ WatchInv'
  BY FoundStep, WatchStep
<1>3. FoundInv /\ WatchInv => ServersWatched
  <2> SUFFICES ASSUME FoundInv, WatchInv, pc = "run" PROVE ServersWatched
    BY DEF ServersWatched
  <2> DEFINE expected == IF mode = "global" THEN Configured ELSE {}
  <2>1. Started = {n \in Names : gsmd_get(table, n)}
    BY EntriesAre DEF WatchInv, FoundInv, TableInv
  <2>2. Hashed = expected
    <3>1. CASE mode = "global"
      BY <3>1, LoadedAll DEF Loaded
    <3>2. CASE mode # "global"
      <4>1. next = 1
        BY <3>2 DEF FoundInv, CoreInv, ModeInv, Loaded
      <4> QED
        BY <3>2, <4>1 DEF Hashed
    <3> QED
      BY <3>1, <3>2
  <2>3. Hashed \subseteq Names
    <3>1. servers \in Seq(ServerType) /\ next \in 1 .. Len(servers) + 1
      BY DEF FoundInv, CoreInv, ParseInv, OptionInv, ModeInv
    <3>2. \A i \in 1 .. next - 1 : servers[i] \in ServerType
      BY <3>1
    <3> QED
      BY <3>2 DEF Hashed, ServerType
  <2>4. Started = expected
    BY <2>1, <2>2, <2>3 DEF FoundInv, TableInv
  <2> HIDE DEF expected
  <2>5. Len(threads) = Cardinality(Started)
    <3>1. threads \in Seq(Names) /\ Len(threads) \in Nat /\ DOMAIN threads = 1 .. Len(threads)
      BY DEF WatchInv
    <3>2. threads \in [1 .. Len(threads) -> Started]
      BY <3>1 DEF Started
    <3>3. threads \in Bijection(1 .. Len(threads), Started)
      BY <3>1, <3>2 DEF Bijection, Injection, Surjection, IsInjective, WatchInv, Started
    <3> QED
      BY <3>1, <3>3, FS_CountingElements DEF ExistsBijection
  <2> QED
    BY <2>4, <2>5 DEF ServersWatched, Started, expected
<1> QED
  BY <1>1, <1>2, <1>3, PTL DEF Spec
=============================================================================
