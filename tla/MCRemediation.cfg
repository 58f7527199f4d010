CONSTANTS
  r1 = r1
  r2 = r2
  w1 = w1
  w2 = w2
  Requests = {r1, r2}
  Workers = {w1, w2}
  Drains = {w2}
  Budget <- Troubled
SPECIFICATION FairSpec
INVARIANTS WorkedOnce KeepsRequest OnePullRequest
PROPERTIES NotMistaken RequestsSettle
