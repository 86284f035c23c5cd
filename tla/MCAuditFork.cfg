SPECIFICATION Spec
CONSTANTS
  Writers = {w1, w2}
  Ids = {1, 2, 3}
  Lineages = {}
  MaxTime = 3
  Backfilled = FALSE
INVARIANTS ChainNeverForks
CHECK_DEADLOCK FALSE
