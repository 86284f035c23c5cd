SPECIFICATION FairSpec
CONSTANTS
  Cycles = {}
  Halts = {halt}
  Resumes = {resume}
  Cancels = {}
  BatchSize = 2
  MaxCrashes = 1
  MaxFaults = 0
  MaxAdmin = 0
PROPERTIES AtLeastOnce
CHECK_DEADLOCK FALSE
