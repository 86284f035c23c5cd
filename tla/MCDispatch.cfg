SPECIFICATION MCSpec
CONSTANTS
  Lineages = {l1, l2}
  Attempts = {1}
  Callers = {c1, c2}
  MaxCalls = 3
  MaxFaults = 2
  MaxTrouble = 2
  MaxExpiries = 1
  MaxForeign = 1
SYMMETRY Symmetry
INVARIANTS TypeOK OneExecutionPerWindow RecordedFillIsReal
PROPERTIES LedgerSpec
CHECK_DEADLOCK FALSE
