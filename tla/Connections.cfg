SPECIFICATION FairSpec
CONSTANTS
  Conn = {c1}
  Timeout = 1
  Overrun = 1
  MaxRequests = 3
INVARIANTS RepliesInOrder RequestsWhole
PROPERTIES RequestAnswered ThreadEnds
CHECK_DEADLOCK FALSE
