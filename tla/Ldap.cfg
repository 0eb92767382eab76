SPECIFICATION FairSpec
CONSTANTS
  Worker = {w1, w2}
  Entries <- Overrides
  Answers = {"none", "one", "many"}
  K = 2
  Seconds = 1
  Durations <- SomeTimes
  MaxRestarts = 1
INVARIANTS TypeOK FoundIsUser NoneLeaked
PROPERTIES LookupEnds
