\* With and without a wait bound, whatever rounds fail and whenever the
\* context ends.
SPECIFICATION FairSpec
CONSTANTS
  s1 = s1  s2 = s2  s3 = s3
  Submitters = {s1, s2, s3}
  Total = 5
  BatchSize = 2
  Waits = {TRUE, FALSE}
  Failing = TRUE
  Cancels = TRUE
CHECK_DEADLOCK FALSE
INVARIANTS TypeOK ExecutedOnce PointIsComplete
PROPERTIES RunEnds
