CONSTANTS
  r1 = r1
  p1 = p1
  Requests = {r1}
  Passes = {p1}
  Use <- UseOne
  MaxUse = 2
  MinPrice = 1
  MaxPrice = 1
  Allowance = 3
  ListLimit = 2
  PassesAreQuick = FALSE
  Budgets <- Faulty
SPECIFICATION Spec

INVARIANTS ChargedOnce
