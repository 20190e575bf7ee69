\* Everything overlaps everything, and rounds fail.
SPECIFICATION Spec
CONSTANTS
  t1 = t1  alice = alice  bob = bob  m1 = m1  m2 = m2
  c1 = c1  c2 = c2  x1 = x1  x2 = x2
  Tx = {t1}
  Requesters = {alice, bob}
  Mods = {m1, m2}
  Nobody = nobody
  Requests <- TwoRequests
  Traces <- TwoTraces
  Callers = {c1, c2}
  Redactors = {x1, x2}
  Overlap = TRUE
  Cancels = TRUE
  MaxBatch = 1
  MaxVersion = 2
  MaxGateways = 3
CHECK_DEADLOCK FALSE
SYMMETRY Symmetry
INVARIANTS TypeOK DidNamesRedaction OneHolder GrantAttributed
