\* A caller gives up during a round: the ledger and the index part.
SPECIFICATION Spec
CONSTANTS
  t1 = t1  t2 = t2  original = original  redacted = redacted  p1 = p1  p2 = p2
  Tx <- MCTx
  Content = {original, redacted}
  Original = original
  Proofs = {p1}
  NoProof = NoProof
  PolicyVersions = {1, 2}
  CurrentPolicy = 2
  Batches <- MCBatches
  Auditors = {a1}
  Epochs = {0, 1}
  MaxVersion = 2
  MaxCancels = 1
INVARIANTS LedgerIndexAgree
