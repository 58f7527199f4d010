CONSTANTS
  c1 = c1
  c2 = c2
  c3 = c3
  Calls = {c1, c2, c3}
  Budget <- Troubled
SPECIFICATION FairSpec
INVARIANTS OneWriter OneEffect AnswersTrue
PROPERTIES SuccessStays AttemptEnds RetryRepairs
