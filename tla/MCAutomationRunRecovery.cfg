CONSTANTS
  w1 = w1
  w2 = w2
  a = a
  Workers = {w1, w2}
  Replies = {a}
  MaxDeliveries = 2
  FollowUps = {}
  RetryLimit = 1
  Budget <- Retrying
SPECIFICATION FairSpec
INVARIANTS TypeOK RepliesAnswered NoStrayGrant ReplyStoredOnce
PROPERTIES RunSettles ReplyReachesTurn ComesToRest
