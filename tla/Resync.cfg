SPECIFICATION Spec
CONSTANTS
  Half = 8
  Codes <- AllCodes
  Macs <- SomeMacs
  Starts = {0, 1, 7, 8}
  ewindow_size = 1
  rwindow_size = 3
  hardfail = 3
  softfail = 1
  Spans = {3, 6}
  DefSpan = 5
  MaxPresses = 6
INVARIANTS MissesOnlyRepeats
PROPERTIES InWindowAccepted TwoInARow Resyncs NeverAhead
