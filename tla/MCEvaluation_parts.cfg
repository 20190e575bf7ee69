\* Each part by itself.
SPECIFICATION EvaluationSpec
CONSTANTS
  t1 = t1  t2 = t2  t3 = t3  t4 = t4  r1 = r1  r2 = r2
  Dataset = {t1, t2, t3, t4}  Order <- MCOrder  Requests = {r1, r2}  Target <- MCTarget
  Nodes = {n1, n2}  BlockSize = 3  Threshold = 2
  Redactors = {w1, w2}  Auditors = {a1, a2}  MaxGrants = 3  MaxAudits = 2
  Genesis = genesis  None = none  Nothing = nothing
  Original = original  Changed = changed
  MaxSetups = 2  MaxRedactions = 2  MaxDeletes = 1  Optimized = TRUE  Z = 2
  MaxLeaves = 7  MaxTokens = 4
  True = true  False = false  Unknown = unknown  Open = open  Close = close  And = and  Or = or
  NotApplicable = na  NoSetup = nosetup  MaxDocuments = 3  Documents <- MCDocuments
  Schemes <- MCSchemes  Concurrency <- MCConcurrency  Picks = {{}, {2}}  Repetitions = 2  TraceLen = 2
  Axes <- MCAxes  Traces <- MCTraces  Sizes <- MCSizes  Waits <- MCSizes  Workloads <- MCWorkloads
  LedgerSizes <- MCLedgerSizes  Depths <- MCSizes  Cost <- MCCost  Claiming = TRUE
  Arities = {2, 3}  Total = 2
  Parts = {"ledger", "tree", "chain", "merkle", "policy", "rates", "arms", "merge"}
CHECK_DEADLOCK FALSE
INVARIANTS PartsTyped AuditRejectsOnlyMidway HistoryComplete TreeFollowsChain ChainVerifies OnlyCurrentAccumulated UpdateMatchesRebuild ParsesAsGrammar MeasuredAfresh ArmsMeasuredOnce BrokenClaimSurvives
