\* A call after a refused Reshard or Rebatch.
SPECIFICATION FairSpec
CONSTANTS
  c1 = c1  c2 = c2  good = good  bad = bad
  Callers = {c1, c2}
  Queries = {good, bad}
  Valid = {good}
  Hash <- MCHash
  QueueDepth = 1
  InitShards = 1
  InitBatch = 2
  Changes <- OutOfRange
  Overlap = FALSE
  Cancels = FALSE
  MaxShards = 2
  MaxServices = 2
  MaxCalls = 1
CHECK_DEADLOCK FALSE
PROPERTIES SubmitAnswered
