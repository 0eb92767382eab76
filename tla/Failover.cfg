SPECIFICATION FairSpec
CONSTANTS
  Worker = {w1, w2}
  fo_timeout = 1
  fb_timeout = 2
  ReqTimeout = 1
  HardErrors = TRUE
  WouldBlock = TRUE
  MaxSem = 2
INVARIANTS TypeOK
PROPERTIES SwitchesInTime NoLateRequest FailsOver FailsBackOnce
