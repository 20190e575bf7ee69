\* A caller may give up during one round, and audits overlap with everything.
SPECIFICATION FairSpec
CONSTANTS
  t1 = t1  t2 = t2  original = original  redacted = redacted  p1 = p1  p2 = p2
  Tx <- MCTx
  Content = {original, redacted}
  Original = original
  Proofs = {p1, p2}
  NoProof = NoProof
  PolicyVersions = {1, 2}
  CurrentPolicy = 2
  Batches <- MCBatches
  Auditors = {a1}
  Epochs = {0, 1}
  MaxVersion = 2
  MaxCancels = 1
INVARIANTS TypeOK AgreeUnlessAbandoned OneRedactionPerRound OutcomeAccountsForBatch AuditNeverAccuses AnchorChainIntact
PROPERTIES AnchorsReachChain StrandedForever ImplementsHistory
