\* Reconfiguration between calls, with contexts that end and small queues.
SPECIFICATION FairSpec
CONSTANTS
  c1 = c1  c2 = c2  good = good  bad = bad
  Callers = {c1, c2}
  Queries = {good, bad}
  Valid = {good}
  Hash <- MCHash
  QueueDepth = 1
  InitShards = 2
  InitBatch = 2
  Changes <- Sweep
  Overlap = FALSE
  Cancels = TRUE
  MaxShards = 2
  MaxServices = 3
  MaxCalls = 2
CHECK_DEADLOCK FALSE
INVARIANTS TypeOK StopDrains ConfigurationInForce StatsConserved
PROPERTIES AnswersEverybody
