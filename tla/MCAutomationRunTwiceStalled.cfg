CONSTANTS
  w1 = w1
  w2 = w2
  a = a
  f = f
  Workers = {w1, w2}
  Replies = {}
  MaxDeliveries = 1
  FollowUps = {}
  RetryLimit = 1
  Budget <- Stalling
SPECIFICATION Spec
SYMMETRY Symmetry
INVARIANTS ReportedOnce

