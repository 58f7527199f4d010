CONSTANTS
  d1 = d1
  d2 = d2
  u1 = u1
  w1 = w1
  w2 = w2
  Deliveries = {d1, d2}
  Scans = {d2}
  Users = {u1}
  Workers = {w1, w2}
  Drains = {w1, w2}
  RetryLimit = 1
  MaxClaims = 2
  Budget <- Troubled
SPECIFICATION FairSpec
INVARIANTS ReportKept FiledOnce ChargedPerRerun AloneAtWork ReplayAgrees
PROPERTIES InvestigationSettles RequestSettles
