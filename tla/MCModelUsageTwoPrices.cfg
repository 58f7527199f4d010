CONSTANTS
  r1 = r1
  p1 = p1
  p2 = p2
  Requests = {r1}
  Passes = {p1, p2}
  Use <- UseOne
  MaxUse = 2
  MinPrice = 1
  MaxPrice = 2
  Allowance = 4
  ListLimit = 2
  PassesAreQuick = TRUE
  Budgets <- Faulty
SPECIFICATION Spec
INVARIANTS ChargedAsStored
