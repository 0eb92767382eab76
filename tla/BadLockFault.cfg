SPECIFICATION Spec
CONSTANTS
  User = {"u1", "u2"}
  Bucket = {b1}
  uhash <- OneBucket
  Worker = {w1, w2, w3}
  NoUser = "none"
  LockExpiry = 2
  SlowHolder = FALSE
  MaxNodes = 4
  MaxClock = 4
INVARIANTS NoFault
