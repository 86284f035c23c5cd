SPECIFICATION MCSpec
CONSTANTS
  r1 = r1
  r2 = r2
  r3 = r3
  a = a
  b = b
  Posts = {r1, r2, r3}
  Runs = {r1, r2}
  Chats = {r3}
  Limits = {1, 2}
  MaxEvents = 1
  MaxAsks = 1
  MaxViews = 2
  MaxSweeps = 2
  Streamed = {r1}
  Calls = {r2}
  Conversations = {a}
  MaxStored = 1
  MaxDeltas = 2
  MaxTools = 1
  MaxReads = 1
  MaxCrashes = 1
  Sessions = {a, b}
  Talkers = {r1, r2}
  Forks = {r3}
  MaxCreates = 2
  MaxDeletes = 1
  MaxLocks = 2
  MaxChanges = 1
  Bodies = {a, b}
  MaxIdemFaults = 1
  MaxTurns = 3
  Jobs = {a, b}
  Stops = {r1, r2}
  Keys = {a, b}
  Prints = {a, b}
  MaxItems = 1
  MaxExpired = 1
  Channels = {a}
  Market = b
  Streams = {r1, r2, r3}
  KeyLimit = 2
  QueueMax = 1
  BufferMax = 2
  MaxPublished = 1
  MaxTicks = 1
  MaxAge = 1
INVARIANTS TypesOK UnderWayWithinCap GrantsAreAnswered ConversationResolves OutcomeStored
  TextIsWhole StreamIsComplete OriginalReplayed LockedTurnsHold ReapSparesNewest ComputedOnce
PROPERTIES RunSettles TurnsKept
CHECK_DEADLOCK FALSE
