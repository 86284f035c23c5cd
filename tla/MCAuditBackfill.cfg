SPECIFICATION Spec
CONSTANTS
  Writers = {w1}
  Ids = {1, 2}
  Lineages = {l1}
  MaxTime = 2
  Backfilled = TRUE
INVARIANTS VerifierAccepts
CHECK_DEADLOCK FALSE
