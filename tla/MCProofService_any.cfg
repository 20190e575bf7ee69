\* Any reconfiguration at any time, refused and failing ones included.
SPECIFICATION FairSpec
CONSTANTS
  c1 = c1  c2 = c2  good = good  bad = bad
  Callers = {c1, c2}
  Queries = {good, bad}
  Valid = {good}
  Hash <- MCHash
  QueueDepth = 1
  InitShards = 1
  InitBatch = 2
  Changes <- AllChanges
  Overlap = TRUE
  Cancels = TRUE
  MaxShards = 2
  MaxServices = 2
  MaxCalls = 2
CHECK_DEADLOCK FALSE
PROPERTIES ImplementsVerdicts ChangeReturns
