SPECIFICATION Spec
CONSTANTS
  Lineages = {l1}
  Attempts = {1}
  Callers = {c1}
  MaxCalls = 2
  MaxFaults = 1
  MaxTrouble = 2
  MaxExpiries = 0
  MaxForeign = 0
INVARIANTS NoDuplicateExecution
CHECK_DEADLOCK FALSE
