SPECIFICATION MCSpec
CONSTANTS
  Cycles = {c1, c2}
  first = c1
  second = c2
  Workflow <- OneWorkflow
  Analysts = {"technical", "macro"}
  Hops = 1
  Books <- ThreeBooks
  RiskLimits <- Risk
  Adjustments <- Policy
  Regimes = {"calm", "trend", "flat"}
  MaxTicks = 3
  MaxFaults = 2
  Calls = {c1, c2, c3}
  Models = {"gpt", "kimi", "qwen"}
  Providers = {"a", "b"}
  Provider <- ProviderOf
  Alternates <- AlternatesOf
  Degraded <- DegradedOf
  Production = {"gpt", "kimi"}
  MaxConcurrent = 2
  RateLimit = 3
  Threshold = 2
  MaxHops = 2
  DailyBudget = 2
  Cost = 1
  MaxMinutes = 1
  Writers = {c1, c2}
  Places = {1, 2, 3}
  EveryRows = 1000
  EveryTicks = 1
  MaxPassed = 2
  MaxTrouble = 2
INVARIANTS TypesOK EvidenceIsWhole OrderWithinRisk PermitsAreReturned AnchorsHold
PROPERTIES CycleEnds
CHECK_DEADLOCK FALSE
