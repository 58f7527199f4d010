CONSTANTS
  s1 = s1
  p1 = p1
  Periods = {s1}
  Passes = {p1}
  Plans = {"machine_hours", "usage_credit"}
  Budget <- LostAnswer
SPECIFICATION Spec

INVARIANTS CreditReturnsCharge
