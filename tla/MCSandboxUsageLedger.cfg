CONSTANTS
  s1 = s1
  p1 = p1
  Periods = {s1}
  Passes = {p1}
  Plans = {"machine_hours", "usage_credit", "per_run"}
  Budget <- Failing
SPECIFICATION FairSpec
INVARIANTS ChargedOnce ChargedAsMeasured CreditedOnce
PROPERTIES PeriodsSettle ChargesReturn
