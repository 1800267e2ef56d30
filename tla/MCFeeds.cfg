SPECIFICATION FairSpec
CONSTANTS
  w1 = w1 w2 = w2 s1 = s1 s2 = s2 cA = cA cB = cB
  today = today later = later in1 = in1 out1 = out1 in2 = in2 none = none
  Rows <- Ids
  Groups <- Transactions
  Counters = {w1, w2}
  BucketOf <- Columns
  DayOf <- Dates
  Inbound <- InboundColumn
  Payer <- Clients
  Limits <- Configs
  Entitled <- Upgraded
  NoLimit = none
  Batch = 2
  Sockets = {s1, s2}
  ClientOf <- Owners
  Limit = 3
  RingSize = 2
  QueueMax = 1
  MaxSubscriptions = 2
  MaxRestarts = 1
  Deployments <- OneOrTwoCounters
INVARIANTS TypeOK UsageExact MarksFollowLimits FeedExact
PROPERTIES RollupCatchesUp EveryRowFed
CHECK_DEADLOCK FALSE
