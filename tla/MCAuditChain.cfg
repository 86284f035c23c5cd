SPECIFICATION Spec
CONSTANTS
  Writers = {w1, w2}
  Ids = {1, 2, 3}
  Lineages = {l1}
  MaxTime = 3
  Backfilled = TRUE
INVARIANTS TypeOK OrderedChainVerifies ForkNeedsInversion
CHECK_DEADLOCK FALSE
