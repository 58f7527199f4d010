CONSTANTS
  r1 = r1
  r2 = r2
  p1 = p1
  Requests = {r1, r2}
  Passes = {p1}
  Use <- UseOne
  MaxUse = 2
  MinPrice = 1
  MaxPrice = 2
  Allowance = 3
  ListLimit = 1
  PassesAreQuick = TRUE
  Budgets <- Troubled
SPECIFICATION FairSpec
INVARIANTS ChargedOnce Covered UseFindsRow ChargedAsRecorded
PROPERTIES Settles
