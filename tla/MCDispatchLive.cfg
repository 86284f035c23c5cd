SPECIFICATION FairSpec
CONSTANTS
  Lineages = {l1}
  Attempts = {1, 2}
  Callers = {c1, c2}
  MaxCalls = 2
  MaxFaults = 1
  MaxTrouble = 2
  MaxExpiries = 1
  MaxForeign = 1
PROPERTIES DispatchTerminates
CHECK_DEADLOCK FALSE
