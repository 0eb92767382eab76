# A TLA+ development of otpd

otpd verifies one-time passcodes for plugins (PAM, RADIUS) on the same host.
This directory holds TLA+ modules for the parts of otpd that keep state or run
concurrently, TLC configurations that check them on small instances, and
TLAPS proofs that carry the safety properties of every component to all
instances. Paths like `otp.c:422` are relative to
the root of the repository.

## 1. The system

    plugin --unix socket--> accept_thread --> work_thread (one per connection)
                                                  |
                                               verify()
                              +-------------------+----------------------+
                        userops get/put      state_get/state_put      cardops
                        file | ldap        local: lock.c + file    hotp cryptocard
                                           global: gsmd over UDP   x99 totp c200
                                                  ^
                                       failover_thread (one per gsmd with a backup)

`main.c:231-262` reads the configuration, initialises the tables and starts the
failover threads and the accept thread. From then on everything happens in
threads that share the lock table, the LDAP pool, the sequence counter and
`gsmd->active`.

| component | state | operations | what makes it correct |
|---|---|---|---|
| passcode verification (`otp.c`) | none of its own; the user's `state_t` between read and write | `verify()` | a passcode is good once; failures are counted; delay and lockout hold; every request is answered and gives its lock back |
| token modules (`cardops/`) | challenge and rwindow data inside `state_t` | `nullstate`, `challenge`, `response`, `updatecsd`, `isconsecutive` | the walk only goes forward; a resync takes two consecutive passcodes |
| local state (`state.c`) | one file per user | read, parse, unparse, write by `rename()` | what was decided is what is stored, or the answer is an error |
| user locks (`lock.c`, `uhash.c`) | hash chains of reused nodes | `lock_get`, `lock_put` | one holder per user until release or expiry (24 s) |
| global state client (`state.c`, `nonce.c`) | sequence counter, a socket per request | GET and PUT with retransmission | one state leads to one success; an OK is stored |
| failover (`failover_thread.c`, `gsmd.c`) | active gsmd, semaphore, timers | wait, poll the primary, switch, drain | switch only after the timeouts, in the end use what works |
| LDAP backend (`userops/ldap.c`) | pool of connections with mutexes | `ldap_get`, `ldap_put`, `getldp`, `putldp` | a connection serves one lookup; none is leaked; lookups end |
| file backend (`userops/file.c`) | none | lookup of a line | - |
| connections (`accept_thread.c`, `work_thread.c`, plugin side `otpauth.c`) | stream position, request, reply, time budget | accept, read, check, reply | replies match requests; no thread is left behind |
| configuration (`config.y`, `config.l`) | options, sections, key table, server list | one setter per option, one `finish_` per section | what runs is what the file says, in any order of lines |
| start-up (`main.c`, `gsmd.c`) | table of gsmds, threads started | hash, iterate, daemonize, start threads | each gsmd can be found and is watched once |
| resynctool (`resynctool.c`, counter of `cardops/hotp.c`) | range and position of a search | search for two consecutive passcodes | its state brings server and token together |
| logging, Helix, MACs, site transform | - | sequential code | not modelled, see section 8 |

**Interactions.** A work thread calls `verify()` for one request at a time.
`verify()` reads the clock, looks the user up (LDAP: a pooled connection),
locks and reads the state (local: the lock table, then the file; global: a GET
that also locks at the gsmd), decides with the token module, writes and unlocks
(PUT in global mode) and replies. A thread that gets no answer from a primary
gsmd signals its failover thread, which changes `gsmd->active` for requests to
come.

**What is hard.** Requests of one user that interleave around the read and the
write of the state; the death of the daemon between verdict, write and reply;
locks that expire under their holder; requests that are older than the state
they are compared with; lost, repeated and late datagrams; sequence numbers
handed out to several threads; a failover thread that races the requests it
serves; connections shared by threads and dropped by the server; requests of
two sizes pipelined on one stream; counters at their limits; milliseconds that
become nanoseconds in an int; passcodes that occur twice. `PROJECT.json`
lists each of these at the line where it bites, with the properties that
watch it.

## 2. Modules

| module | models | composed with |
|---|---|---|
| `CardOps` | the token modules as `verify()` uses them | extended by `Verify` |
| `Verify` | `verify()` by concurrent threads for one user with local state, file and crashes included | uses `UserLock` as its view of the lock |
| `Tokens` | `verify()` for a user with any one of several tokens | one instance of `Verify` per token |
| `UserLock` | the promise of `lock.c` (abstract) | - |
| `LockChain` | `lock.c` as written: chains, nodes, first and last | implements `UserLock` |
| `GlobalState` | `state.c` in global mode, `nonce.c`, the network, the gsmd (external) | - |
| `Failover` | `failover_thread.c`, the requests that signal it, the primary (external) | - |
| `Ldap` | `userops/ldap.c`, the server (external) | - |
| `WorkThread` | `accept_thread.c`, `work_thread.c`, the plugin | - |
| `Gsmd` | `gsmd.c`: the hash chains of gsmds and their iteration | extended by `Startup` |
| `Config` | the parser's actions in `config.y`: options and sections | extended by `Startup` |
| `Startup` | `finish_config()` and `main()` up to the running threads | - |
| `Resync` | the 64-bit counter of a HOTP token, `hotp_challenge()` and `resynctool.c` | - |
| `VerifyProofs`, `LockChainProofs`, `GlobalStateProofs`, `FailoverProofs`, `LdapProofs`, `WorkThreadProofs`, `StartupProofs`, `ResyncProofs` | theorems and their proofs, section 5 | each extends the module it is named after |
| `MC*` | sets and records for the configurations | extend the module of the same name |

Definitions whose name has a suffix (`LockFree_any`, `Put_leak`) are plausible
wrong versions of the definition below them. They are used by nothing, and
replacing a definition by its variant breaks the property `PROJECT.json` names:
they show that the properties depend on the code.

### CardOps and Verify

A synchronous challenge is a point of a chain, `[chain, pos]`: the `challenge`
methods of hotp (a counter) and cryptocard (a MAC over the previous challenge)
only walk forward. A passcode is named by the challenge it answers. totp and
c200 answer from the clock, whatever the challenge. Two odd chains
are part of the code: "undef" (`verify()` starts from bytes nobody wrote, when
the stored challenge is blank) and "zeros" (what the walk leaves in a blank
challenge).

`Verify` cuts `verify()` where another thread or the clock can get in between:
`Receive` (the time is read, before the lookup), `LookupFails` (with what
`file_get()` tests, in its order), `RecordFails`, `StaticPassword`, `WrongLength`, `LookupDone` (with the test for the remaining
time), `LockGet`, `StateRead` or `StateReadFails`, one of `GiveUp`,
`DecideAsync`, `DecideSync`, `DecideNoMatch`, then `StatePut` or
`StatePutFails`, `LockPut` and `Reply`. `Crash` restarts the daemon between any
two: the file stays, the lock table and the requests go. `Parsed` and
`Unparsed` carry the one thing the file format does to the data, the negative
`authtime` of a user created from null state. The failure counter saturates
below `UIntMax` as in `otp.c:640`. `Delays` is the shift of `otp.c:330-336`, a
set: beyond `IntMax` failures the count is negative and the shift undefined.
`DelayHonoured` does not use it, but the delays `otpd.conf:195-196` promises.

The clock is in seconds; `Minute` stands for the 64 s of the softfail delay.
`SlowHolder = FALSE` says that a thread gives its lock back before it expires
(24 s against a request timeout that is far shorter); it is an assumption about
the file system, not something the code enforces.

History variables `okd`, `cand`, `carried`, `fails`, `lastFail` record what has
been answered, counted and left behind; no action reads them.

### Tokens

`Tokens` adds the choice of the token (`card2cardops()`, `otp.c:117-130`) and
takes the steps of `Verify` for it: `V(c)` is `Verify` with `Card <- c` and the
passcodes, challenges and state files that go with it. One run covers tokens
with a challenge, with both modes and with a clock. The state files include the
one that is not there (null state) and the one of a user who has never
succeeded. Its safety properties are those of `Verify` (`KnownOnce`,
`OwnTimeStep`) for whichever token the user has; they are
proved where they are defined, for each token.

### UserLock and LockChain

`UserLock` has a record `[held, ltime]` per user. `LockChain` keeps per
bucket the nodes in allocation order with `next` and `prev`, and `first` and
`last`; `find_lock`, `lock_get` and `lock_put` follow the code pointer by
pointer. A NULL dereference or an endless walk is a fault, after which the
daemon starts again (`Restart`). The refinement maps a user to the node that
carries the user's name. `Verify` needs of its lock no more than `UserLock`
promises (`UsesUserLock`), and `LockChain` provides that until it faults
(`ImplementsUserLock`): both are proved, and together they connect `verify()`
to `lock.c`.

### GlobalState

A user's state is the number of successes it has seen. GET locks and reads, PUT
writes and unlocks with a sequence number one higher (`state.c:318`). The
network is a set of datagrams from which nothing has to be delivered and
anything may be delivered again. The gsmd is not part of the repository: it is
modelled from what `state.c` relies on (lock with expiry, NAK when locked,
answers repeated from a cache by sequence number). `nonce32` takes two steps;
without `HAVE_ATOMIC_H`, which no build file of the repository defines, the
second one reads the counter again, after the unlock. The history `handed` and
`shared` records which numbers were given out, and which of them twice.

### Failover

One tick is the 200 ms of `poll()` or `PAUSE`; `left` is what remains until the
thread's timeout. `Encrypted` models the request buffer that is encrypted in
place at every signal. `Again`, `RecvAgain`, `HardError` and the datagram
"refused" are the error paths, `RESET_FAILBACK` the macro, `Drain` the loop on
`sem_trywait()` with the `errno` it tests. The timeouts are assumed to be
related as `config.y:1709-1736` computes them: the failover timeout is at least
a second and the failback timeout a second longer than a request, in whatever
order the two are. The history `quiet` counts the time since the last sign of
trouble, independently of the thread's timer; `napped` says that an error has
put the thread to sleep with the backup active since then.

### Ldap

The pool is the sequence of connections in the order they were added; a lookup
walks it from the head and only ever tries mutexes. Time is scaled (a second
has K^2 "microseconds" of K "nanoseconds") so that the arithmetic of
`update_timeout()` stays what it is. Entries are records of what the code tests:
validity, static password with expiry, rwindow with expiry.

### WorkThread

The stream is cut into pieces: the version, and one more for a v2 request, two
more for the longer v1 request. The work thread takes whatever comes first for
a version, as the code does. `verify()` is reduced to what it does to the reply
and to the time budget.

### Config, Gsmd and Startup

A configuration file is a set of lines from which the parser takes any line at
any time, any number of times: every order and every repetition of a small file
is covered. A value is what its setter tells apart: a word, a number, or `Bad`
where the setter exits. `Set` is the first use of an option, `SetAgain` a later
one, which is ignored; `Begin` and the `finish_` actions open and close the
sections. `IntProduct` is a product of two ints, which a build may truncate.
`Grown` is the table of keys after `xrealloc()`: the `memset()` that should clear
the new entries starts at the last of them. `KeyTests` is what the later test
for a key may find, on such entries and behind the end of the table.

`Startup` runs `finish_config()` (one `NextServer` per turn of its loop), then
`main()`: `Daemonize`, `StartFailover` for each gsmd that `gsmd_next()` yields,
`StartAccept`. `CallFails` is any wrapper of `xfunc.c` that fails and exits. The
static variable of `gsmd_next()` is the bucket of its argument, which is how
`main()` calls it.

### Resync

Counters have two halves of `Half` values each. `hotp_challenge()` joins the
bytes of the low half as an int, so its sign is spread over the high half;
`resynctool` computes with unsigned numbers. `Login` is `verify()` on the next
passcode of the token: the window, the first match, hardfail, the resync with two
consecutive passcodes and its limit of one attempt a second, delay mode, the
event window, and what each verdict does to challenge, failure count and
candidate. Of the time only its relation to the last attempt and to the end of
the delay is kept (`Times`). `mac` gives every counter
its passcode and is chosen at the start, repetitions included, so that a
window or a search may meet the wrong one first. The token and the
administrator who installs the printed state are external.

## 3. Runs that hold

| run | question | instance |
|---|---|---|
| `VerifyThreads` | replay, lost failures, the resync candidate, delay, lockout and the use of the lock with two threads, failing calls and restarts | cryptocard-rs, 2 threads, 2 passcodes of the chain, an answer to a challenge and a passcode of another length, with and without a static password, softfail 1, hardfail 9, `INT_MAX` 6, counter below 10, challenge delay 1 s, from no state, a new state or any number of failures whose delay is about to end; 2.5 M states |
| `Tokens` | does every request end and every lock come back, on all error paths, is a user new only once, how long is a clock's passcode good | cryptocard-rs, x99, totp, c200, with and without a state file, 2 threads, fair; 132 k states |
| `Resync` | who in the window gets in; do two passcodes, and does resynctool, bring a user back | 64 counters in two halves of 8, all passcodes of 8 counters over 2 codes, ewindow 1, rwindow 3, softfail 1, hardfail 3, 3 lengths of search; 1.8 M states |
| `Startup` | any order of lines and sections, calls that fail: are the gsmds complete and watched | 3 files (global, mixed, local), 3 servers in 2 buckets, 3 key ids; 479 k states |
| `LockChain` | do the chains implement `UserLock` | 3 users in one bucket, 3 threads, 4 nodes; 7 k states |
| `GlobalState` | one success per state, stored when reported | 2 threads, 3 exchanges, 2 successes, no atomics; 457 k states |
| `Failover` | timers, late requests, failing over and back | 2 threads, all kinds of errors, failover timeout 1, failback timeout 2, fair; 138 k states |
| `Ldap` | pool, leaks, overrides, end of lookups | 2 threads, 1 restart, calls that take nothing, a little or the whole time, fair; 148 k states |
| `Connections` | framing, order of replies, budgets, abandoned connections | 1 connection, 3 requests of any version and kind, fair; 115 k states |

**The properties.**

- `NoReplay`: an OK about to be sent was not sent before for the same passcode,
  nor is another thread about to send it.
- `FailcountExact`: the stored counter is the number of failures since the last
  success, up to saturation: concurrent requests lose none.
- `RdIsCandidate`: the rwindow candidate in the file is a correct passcode seen
  since the last success, unless it is one that an async success has left there
  (section 4).
- `DelayHonoured`: in delay mode nothing but a resync succeeds earlier than the
  delay `otpd.conf` promises after any counted failure, up to the time a lookup
  may take (requests carry the time from before the lookup), as long as the
  number of failures is an int.
- `HardfailSticks`: no step takes a user out of hardfail, also when the counter
  saturates.
- `UsesUserLock`, `ImplementsUserLock`: see section 2.
- `Answered`, `LockReleased`: every request ends and gives its lock back.
- `NullOnce`: the mark of a user created from null state goes with the first
  success and never comes back.
- `OwnTimeStep`: a clock's passcode is good in its own time step only, give or
  take the time a request may take.
- `InWindowAccepted`, `NeverAhead`: a user whose token is in the event window and
  who is neither delayed nor locked out gets in, whatever candidate is stored,
  as long as no low half is 2^31 or more; the server never gets ahead of
  the token, also when a passcode occurs twice in the window.
- `TwoInARow`: a passcode that was put off, in the rwindow or in delay mode, makes
  the next one good and brings the server to the token.
- `Resyncs`, `MissesOnlyRepeats`: an installed state makes the next passcode good
  and puts the server where the token is; the tool only misses a pair behind a
  passcode equal to the pair's first.
- `ServersWatched`, `ServersFound`: each configured gsmd has one failover thread
  and can be looked up, the one of the password file included.
- `NoDoubleAccept`, `OkIsStored`: two threads never succeed from one state and a
  reported success is in the gsmd, even if answers to GET and PUT are late or
  repeated; exchanges whose number `nonce32()` gave out twice are excepted, and a
  reported success is an answer to a PUT for those too.
- `SwitchesInTime`, `NoLateRequest`, `FailsOver`, `FailsBackOnce`: the primary is given up or
  taken back only after the whole timeout without a sign of trouble; when it is
  taken back no request of before is left that could signal; both unless the
  thread has slept on an error in between (section 4); a primary that is down for good
  is given up; one that is up again is taken back, as long as the thread has
  been signalled once (see section 4 for the second time).
- `FoundIsUser`, `NoneLeaked`, `LookupEnds`: a user is reported exactly if there
  is one, with overrides that are in force; no mutex without a lookup and no
  more connections than threads; lookups end.
- `RepliesInOrder`, `RequestsWhole`, `RequestAnswered`, `ThreadEnds`: framing and
  order for any mix of versions and any cut of the stream; each request has
  the whole time; no thread or descriptor is left.

`TypeOK` is checked where it bounds something that is computed (counters,
timers, microseconds, sequence numbers, chains).

**Bounds.** Two threads are enough for every race of a pair around one user's
state, one connection or one counter; three are used where a chain needs a
first, a middle and a last node. In `VerifyThreads` `UIntMax` 10, `IntMax` 6 and
`softfail` 1 put every documented delay, the cap, the count that is no int any
more and the saturation of the counter within reach; the state files start with
each of these counts and with a delay that ends at the first second, the
second, or after the clock has ended (`Minute` 1, `Timeout` 1, clock 40 to 41). A
challenge delay of 1 s lets an async answer succeed in the second after a failure,
so that it does leave a candidate behind. In `Tokens` the counter ends at 2, as
nothing there is about it. A chain of 4 nodes is
longer than the number of locks held at once. Three sequence numbers are a
stale exchange, a current one and a next one. A `fo_timeout` of 1 that is
shorter than the `fb_timeout` of 2 is the case `config.y:1709` admits and a late
signal makes a difference in; a timer of 2 can be reset midway; `MaxSem` 2 is one signal more than is taken at
once. Three pipelined requests let a long one be misread into the next two.
One restart of the server leaves two stale connections, and `MaxRestarts`
bounds how often a lookup starts over. In `Tokens` a time step is 2 s of a clock
that ends at 2, so that requests fall on both sides of a step. In `Resync` a low
half of 8 has its sign change at 4, within the counters that can be reached;
two codes over 8 counters give every pattern of repetitions in a window and
in a search, and one of them repeats where a negative low half leads; `softfail` 1 and `hardfail` 3 leave two failures between delay and
lockout, and 6 presses reach both. In `Startup` `IntSize` 43 makes some products wrap to
positive, some to negative numbers; ids 0 to 3 with `MaxKeyid` 2 give a gap, a
repetition and an id that is too large; two of three names share a bucket.

**Deadlock** is checked except in `GlobalState` (the bound on sequence numbers
ends the run) and `Connections` (all plugins may be done).

**Fairness.** `Tokens`, `Ldap`: weak fairness of each thread's steps; no step of
these threads waits for another thread (locks and mutexes are only tried), so
the scheduler alone provides it. `Ldap` also for the crash that follows a
fault. `Failover`: weak fairness of the thread, of time, and of the end of
requests, which all have a timeout. `Connections`: weak fairness of the accept
thread and of the work threads; nothing is assumed of the plugin, which may
stop anywhere.

## 4. Runs that show a disagreement

| run | what happens | where |
|---|---|---|
| `BadTimeout` | `arg * 1000000` is an int product, out of range for every timeout the setter admits (3000 ms and more); a build that keeps 32 bits gives requests another timeout, or a negative one | `config.y:768`, against `otpd.conf:113` |
| `BadLockFault` | two users share a bucket; the first to lock is the first to release, `last->next` is NULL and its `prev` is written | `lock.c:168` |
| `BadLdapPool` | a lookup finds its server gone, puts the connection back, is out of time and puts it back again, when another thread already uses it | `userops/ldap.c:119`, against `:582` |

The last two are the reason for a condition elsewhere, and two theorems say
where they come from. `ImplementsUserLock` is claimed until a fault; no fault
happens without two users in one bucket or a late release
(`FaultNeedsCollision`). `OneLookup` is broken by the second `putldp()` of a
lookup that ran out of time on a dead connection and by nothing else
(`OnlySecondPut`).

Other disagreements that the models reproduce, and that no run is spent on.
The first seven are the reason for a condition of a property that holds. But for
the clocks of the first one, the case is part of the run, and TLC breaks the
property without its condition:

- `totp_response()` depends on the clock alone and nothing is stored, so a
  passcode is accepted again until its time step ends (`cardops/totp.c:133`;
  `otp.c:663-665`). `NoReplay` is claimed for event tokens, `OwnTimeStep` is
  what is left for clocks.
- No build file defines `HAVE_ATOMIC_H`, so `nonce32()` reads the counter again
  after the unlock: two threads get the same number, the gsmd answers both from
  its cache, both accept from the same state (`nonce.c:60`; `README:271-272`). The
  condition `shared` of `NoDoubleAccept` and `OkIsStored`.
- An async success does not call `updatecsd()`: the candidate of the old chain
  stays (`otp.c:431`; `cardops/cryptocard.c:218` "successful auth clears rd"). The
  condition `carried` of `RdIsCandidate`.
- `int fcount = failcount - softfail` is negative from 2^31 failures on, and the
  shift by it undefined (`otp.c:330-336`; `otpd.conf:195-196`): the condition
  `IntMax` of `DelayHonoured`.
- The failover thread can go to sleep with the backup active after an error
  (`failover_thread.c:184`). A late signal then wakes it with the failover
  timeout for what is a failback. `config.y:1709` lets a failover timeout of 1 s
  through, the failback timeout is the request timeout and 1 s: the primary is
  taken back too early, while requests from before may still be on it
  (`failover_thread.c:131-134` "we keep the backup active for the duration of the
  timeout +1s"). The condition `napped` of `SwitchesInTime` and `NoLateRequest`.
- From the second signal on the probe of the failover thread is the ciphertext
  encrypted again; a primary that is up never acknowledges it and is never used
  again (`failover_thread.c:166`; `:131`). Hence `FailsBackOnce`.
- The low half of the counter is joined as an int, and from 2^31 on its sign
  fills the high half (`cardops/hotp.c:109`; `:120` "just increment +1"): the
  condition `Positive` of `InWindowAccepted` and `NeverAhead`.
- `resynctool` does not look at the second passcode of a failed comparison as
  the first of the next pair, and skips a pair behind a repeated passcode
  (`resynctool.c:232`; `resynctool.8.pod:51`).
- The state timeout has the overflow of `BadTimeout` too, and a server's timeout
  is compared and used unconverted (`config.y:1299`, `:1391`).
- `-p` is stored where `config_init()` clears it, and the line of the file is
  ignored because of it: the default is used (`config.y:413`; `otpd.8.pod:44`).
- `finish_key()` clears at the wrong entry, and `finish_config()` reads the key
  of an id behind the end of the table: it may take for configured what is not,
  and refuse what is (`config.y:1576`, `:1637`; `:1632` "Make sure the key was
  configured").
- `unfound_gsmd` counts a file section that is not used: an ldap backend with a
  file section is refused in global mode, and a file backend with an ldap
  section only is not checked (`config.y:1616`, `:1739`).
- A request that is older than the stored time and fails puts `authtime` back,
  which opens the limit of one attempt per second again (`otp.c:561`).
- With softfail, null state counts as delay mode and a correct async answer is
  refused (`otp.c:310`; `README:327`).
- `totp_isconsecutive()` returns 1 under a comment that says 0
  (`cardops/totp.c:174-179`), which makes every passcode a resync.
- With `rwindow_size` 0 two consecutive passcodes of the event window still end
  delay mode (`otp.c:557`; `otpd.conf:234`).
- A request that is older than the stored time makes `now - authtime` wrap, so
  `challenge_delay` does not hold across threads (`otp.c:422`; `otp.h:83`).
- A resync into a blank challenge copies zero bytes (`otp.c:632`; `README:331`).
- `strncmp()` of static passwords is tested the wrong way round
  (`otp.c:143`, `userops/ldap.c:324`).
- A lock that expired under its holder is released twice (`lock.c:150`), and
  `first` need not be the start of the chain after a release (`lock.c:159`).
- The drain loop of the failover thread tests a stale `errno`
  (`failover_thread.c:380`).
- A search of `resynctool` that ends with the last of the 2^64 counters can step
  over its end and go on at 0 (`resynctool.c:232`). `Resyncs` is claimed for
  ranges that end earlier.
- The microseconds of `update_timeout()` are those of another unit
  (`userops/ldap.c:598`); `ldap_put()` reads through a NULL user (`:453`); a
  missing rwindow expiry is read (`:355`).
- The reply of a refused request still carries the passcode of an earlier
  request on the connection (`work_thread.c:69`; `README.API:37`). The model
  leaves the passcode out of the reply.

## 5. Theorems

The theorems hold for every set of threads, users, servers and connections,
every configuration, and for any bound on clocks, numbers and lengths. The
assumptions on constants are named (`WindowAssumption`, `TimeAssumption`,
`UserAssumption`, `HashAssumption`, ...), stand in the module that declares the
constants and are evaluated by TLC in the runs. Most give types. The others:
`TimeoutAssumption` says that a failover takes at least a tick, which is what
`config.y:1709` and `:1729` test, and a failback longer than a request, which is
how `config.y:1736` computes it; it describes timeouts that have not overflowed
(`BadTimeout`). `LinesAssumption` and `NamesAssumption`
say that the lexer passes on numbers as digits and words as names
(`config.l`); `DirectoryAssumption` that threads are finitely many.

| module | theorem | statement | condition |
|---|---|---|---|
| `VerifyProofs` | `TypeCorrect` | `[]TypeOK`; the counter stays below `UIntMax` | |
| | `LockExclusion` | at most one thread is between `lock_get()` and `lock_put()`, and its lock is held and unexpired | punctual holders (`~SlowHolder`) |
| | `FailcountCounts` | `[]FailcountExact` | punctual holders |
| | `HardfailHolds` | `HardfailSticks` | punctual holders |
| | `DelaysHonoured` | `DelayHonoured` | punctual holders |
| | `ReplayFree` | `[]NoReplay` | `EventOnly`: an event chain, no async mode, punctual holders |
| | `CandidateSeen` | `[]RdIsCandidate` | an event chain, punctual holders; state files start without a candidate (`Administered`) |
| | `StepOwned` | `[]OwnTimeStep` | |
| | `NewOnce` | `NullOnce` | punctual holders |
| | `LockRefined` | `UsesUserLock`, late holders included | |
| `LockChainProofs` | `TypeCorrect` | `[]TypeOK`: no link leaves its chain | |
| | `ChainImplementsLock` | `ImplementsUserLock` | |
| | `OwnersExclusive` | `[]OwnersApart`: one owner per user, whose node keeps its user and has not expired | punctual holders |
| | `FaultNeedsCollision` | `[]NoFault` | no two users in one bucket, punctual holders |
| `GlobalStateProofs` | `TypeCorrect` | `[]TypeOK` | |
| | `OneAcceptPerState` | `[]NoDoubleAccept`, for either build of `nonce32()` | |
| | `ReportedIsStored` | `[]OkIsStored`, for either build of `nonce32()` | |
| `FailoverProofs` | `TypeCorrect` | `[]TypeOK` | |
| | `SwitchTiming` | `SwitchesInTime`, for every order of the two timeouts | |
| | `LateRequestsGone` | `NoLateRequest`, for every order of the two timeouts | |
| `LdapProofs` | `TypeCorrect` | `[]TypeOK` | |
| | `FoundCorrect` | `[]FoundIsUser` | |
| | `PoolBounded` | `[]NoneLeaked` | |
| | `OnlySecondPut` | a step that breaks `OneLookup` is the second `putldp()` of a lookup | |
| | `OneLookupWhileUp` | `[]OneLookup` | the server is not restarted |
| `WorkThreadProofs` | `TypeCorrect` | `[]TypeOK` | |
| | `SerialReplies` | `[]RepliesInOrder` | |
| | `RequestsNotMixed` | `[]RequestsWhole` | |
| `StartupProofs` | `ServersAreFound` | `[]ServersFound` | |
| | `ServersAreWatched` | `[]ServersWatched` | |
| `ResyncProofs` | `WindowAccepts` | `InWindowAccepted` | |
| | `ConsecutiveResyncs` | `TwoInARow` | |
| | `SearchComplete` | `[]MissesOnlyRepeats` | |
| | `StateResyncs` | `Resyncs` | |
| | `ServerBehind` | `NeverAhead` | `FarFromEnd`: the token does not use up its counter |

**The conditions.** `SlowHolder` describes the file system; section 4 says what
happens without it. `EventOnly` leaves out the tokens for which section 4 lists a
counterexample. `Administered` describes the files an administrator writes,
`FarFromEnd` a token with fewer than 2^64 presses. What the program as it is
built does not keep is not assumed away: it stands as a condition in the
property itself (`shared`, `carried`, `napped`, `IntMax`, `Positive`).

**The arguments.** None of the invariants is inductive alone.

- *Verify.* `LockInv` says that the threads inside the lock are at most one and
  that the lock is held with a time that has not run out; it needs `Tick` not to
  pass the expiry. From it `CountInv` follows by induction: what a thread has
  read still is what the file holds, its pending verdict has a counter of 0 or
  one more than the file's (saturating), and it is OK only below hardfail. That
  gives `HardfailSticks` and `FailcountExact` at the only step that writes the
  file. `ReplayInv` adds that every passcode answered, or decided and stored, is
  at or behind the stored challenge, and that a pending OK moves the challenge
  strictly forward. A blank challenge is covered: nothing has been accepted as
  long as it is blank. `DelayInv` relates the stored `authtime` to the last
  counted failure, from which it may be back by the time a request takes, and
  every pending success outside a resync to the delay after that `authtime`; up
  to `IntMax` the shift has one result, and that is the promised delay.
  The candidate is kept, replaced by the passcode just entered, or cleared, by
  every verdict but an async success, after which it counts as carried over until
  the next passcode of the window (`RdInv`). `KnownInv` says that a thread that has read a user who is not
  new decides for a user who is not new, and that a stored success never is one:
  with `CountInv` (what was read is what is stored) no failure writes the mark
  back. `StepInv`
  ties a pending success to the time its own request has used, which needs
  neither the lock nor the file: hence no condition.
- *LockChain.* `Shape`: there is an order of all nodes of a chain that `next`
  follows forwards and `prev` backwards, in which the held nodes are neighbours;
  and either first and last mark their ends, or last is NULL and nothing is
  held, or first is a free node, a state that a release out of order leads to and
  in which every search faults. The last case is what makes
  the refinement true of this code: a corrupted chain stops the daemon before
  it hands out a lock twice. `Walk` is shown to follow that order, `find_lock()`
  to find a user's node or a free one next to the held ones, and each way to
  take, retake and release a node to keep the shape with a new order. A user
  has at most one node (`Single`), so that the refinement mapping has no choice.
  `OwnersApart` needs in addition that a step for one user changes neither the
  name nor the time of another's held node. With one user per chain every
  chain stays the one node it started with (`AllLone`), which is always `first`
  and is `last` exactly while it has a user.
- *GlobalState.* Numbers come in pairs, even for the GET and odd for the PUT. Two
  open exchanges are in different pairs, or the pair was given out twice and is in
  `shared` from then on. The cache of the gsmd answers a
  number once and for all; a PUT in flight carries one success more than the GET
  of its pair read; only one thread ever sends a PUT of a pair that is not shared. The gsmd's state
  grows with every success it stores, so no two stored successes are equal,
  and a reported one has its entry in the cache.
- *Failover.* While the thread is awake and has not slept on the backup, the time
  without trouble and what is left of the timer make up the timeout, except
  between an answer that is wrong and the reset behind its PAUSE; it is asleep on
  the backup only after an error (`Naps`); a request that was on the primary at
  the switch times out before the timer does.
- *Ldap.* A locked mutex has a lookup that uses its connection, and two locked
  ones have different lookups: a walk that finds every mutex locked has counted
  as many other threads. `rc` and the user agree after every way out of a
  search. A mutex is taken by a walk that found it free, so a new lookup shares
  nothing (`GetAlone`), and unlocked by the lookup that uses the connection,
  except from "again", where it has been unlocked before; that place is
  reached through a server that is gone only (`UpInv`).
- *WorkThread.* The stream holds exactly the pieces between the one the work
  thread reads next and the one the plugin writes next, in order. What has been
  read is therefore the beginning of one request, whatever its version.
- *Startup.* Server names differ (`NamesInv`), and in global mode all servers
  become gsmds before the daemon goes on (`ModeInv`); the table holds each name once and on its own chain; and
  `gsmd_next()` visits the places of the table in an order in which the passed
  ones are exactly those with a thread.
- *Resync.* The window is walked by `Succ`, the least hit is a position not behind
  the token. An attempt that was put off leaves the position of its passcode as
  the candidate, and if no passcode repeats in the window that is the position in
  front of the token, so that the next one is consecutive. A search has passed over nothing but pairs behind a repeated
  first passcode.

Facts about every position of a window, a walk or a chain are proved through the
least counterexample (`WFMin` on the natural numbers), as the induction rules
themselves are beyond the provers.

**Only model-checked.** Everything about liveness (`Answered`, `LockReleased`,
`FailsOver`, `FailsBackOnce`, `LookupEnds`, `RequestAnswered`, `ThreadEnds`:
fairness and `ENABLED` are beyond the prover). Every safety property of a run
that holds has a theorem; for the two of `Tokens` it is the theorem of the
same property of `Verify`, the module `Tokens` instantiates.

## 6. How to run

    tlc -workers 2 -config VerifyThreads.cfg MCVerify
    tlapm VerifyProofs.tla
    tlapm LockChainProofs.tla
    tlapm GlobalStateProofs.tla
    tlapm FailoverProofs.tla
    tlapm LdapProofs.tla
    tlapm WorkThreadProofs.tla
    tlapm StartupProofs.tla
    tlapm ResyncProofs.tla

Each entry of "runs" in `PROJECT.json` names the module and the configuration.

## 7. Plan

Done: all modules of section 2, and proofs for each of them. What is left
is a module that puts `Verify` on top of `LockChain` for several users. The two
are connected through `UserLock` by theorems; the composition would state
exclusion of two requests of one user in a single specification.

## 8. Not modelled

- `helix.c`, `hotp.c`, `x99.c`, `site.c`: ciphers, MACs and a site hook. `Verify`
  takes distinct challenges to have distinct passcodes; `Resync` does not.
- The lexical part of the configuration: `Config` starts from lines, and the
  defaults that only go to a library (LDAP URL, TLS files) are left out.
- `mlog.c`: logging. It keeps a level and a flag nothing else reads.
- The line format of `userops/file.c`: the file backend takes part through its
  result codes.
- Clocks that are set back, and the wrap of the 32-bit sequence number.
