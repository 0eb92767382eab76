SPECIFICATION Spec
CONSTANTS
  Worker = {w1, w2}
  HAVE_ATOMIC_H = FALSE
  HasBackup = TRUE
  MaxSeq = 4
  MaxVal = 2
SYMMETRY Symm
INVARIANTS TypeOK NoDoubleAccept OkIsStored
CHECK_DEADLOCK FALSE
