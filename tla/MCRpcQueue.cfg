SPECIFICATION FairSpec
CONSTANTS
  Cycles = {cycle}
  Halts = {halt}
  Resumes = {}
  Cancels = {}
  BatchSize = 2
  MaxCrashes = 2
  MaxFaults = 2
  MaxAdmin = 2
INVARIANTS TypeOK EffectAtMostOnce AckedIsAnswered
PROPERTIES FinishedStaysFinished CommandsSettle
CHECK_DEADLOCK FALSE
