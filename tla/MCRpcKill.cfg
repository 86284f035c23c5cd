SPECIFICATION Spec
CONSTANTS
  Cycles = {cycle}
  Halts = {halt}
  Resumes = {}
  Cancels = {}
  BatchSize = 2
  MaxCrashes = 0
  MaxFaults = 0
  MaxAdmin = 1
PROPERTIES NoCycleWhileArmed
CHECK_DEADLOCK FALSE
