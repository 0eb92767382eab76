SPECIFICATION Spec
CONSTANTS
  Worker = {w1, w2}
  Card = "cryptocard-rs"
  AsyncChal = {"a1"}
  NoChal = "nochal"
  TimeStep = 1
  AsyncLen = 8
  UIntMax = 10
  IntMax = 6
  FirstClock = 40
  Requests <- Attempts
  ewindow_size = 0
  rwindow_size = 1
  user_rwindow_size = 0
  softfail = 1
  hardfail = 9
  Passwords = {"none", "clear"}
  allow_async = TRUE
  allow_sync = TRUE
  challenge_delay = 1
  resync = FALSE
  Minute = 1
  Timeout = 1
  LockExpiry = 2
  SlowHolder = FALSE
  InitFiles <- Files
  MaxClock = 41
SYMMETRY Symm
INVARIANTS TypeOK NoReplay FailcountExact RdIsCandidate
PROPERTIES UsesUserLock DelayHonoured HardfailSticks
