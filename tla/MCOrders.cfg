SPECIFICATION MCSpec
CONSTANTS
  Orders = {first, second}
  second = second
  ResultQueueMax = 1
  MaxSnapshots = 1
  MaxEdits = 2
  MaxFaults = 2
  MaxCrashes = 2
  Tickets = {t1, t2}
  MaxList = 2
  MaxSyncFaults = 2
  MaxSyncCrashes = 1
  LastSlot = 5
  MaxHeard = 2
  Bucket = 2
  MaxSeeds = 1
  MaxBarFaults = 1
INVARIANTS TypesOK NoPhantomFill OneExecution FillAccounted BarsAreReal
PROPERTIES ExecutedIsVisible ClosedStaysClosed SyncConverges
CHECK_DEADLOCK FALSE
