SPECIFICATION Spec
CONSTANTS
  Worker = {w1, w2}
  Entries <- PlainOnly
  Answers = {"one"}
  K = 2
  Seconds = 1
  Durations <- WholeSeconds
  MaxRestarts = 2
INVARIANTS OneLookup
