SPECIFICATION FairSpec
CONSTANTS
  Tokens = {"cryptocard-rs", "x99", "totp", "c200"}
  RequestsOf <- Attempts
  Worker = {w1, w2}
  ChalOf <- Chals
  NoChal = "nochal"
  TimeStep = 2
  AsyncLen = 8
  UIntMax = 2
  IntMax = 1
  FirstClock = 1
  ewindow_size = 0
  rwindow_size = 0
  user_rwindow_size = 0
  softfail = 0
  hardfail = 0
  Passwords = {"none", "clear"}
  allow_async = TRUE
  allow_sync = TRUE
  challenge_delay = 1
  resync = TRUE
  Minute = 1
  Timeout = 0
  LockExpiry = 2
  SlowHolder = FALSE
  FilesOf <- Starting
  MaxClock = 2
INVARIANTS OwnTimeStep
PROPERTIES Answered LockReleased NullOnce
