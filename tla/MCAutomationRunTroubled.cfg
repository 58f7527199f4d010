CONSTANTS
  w1 = w1
  w2 = w2
  f = f
  Workers = {w1, w2}
  Replies = {}
  MaxDeliveries = 1
  FollowUps = {f}
  RetryLimit = 2
  Budget <- Troubled
SPECIFICATION Spec
SYMMETRY Symmetry
INVARIANTS LeaseInv HolderRuns NoStrandedRun
PROPERTIES OnlyHolderEnds ImplementsRunLease
