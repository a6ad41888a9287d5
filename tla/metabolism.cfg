CONSTANTS
  NSource = 1
  NAttempt = 2
  NMessage = 2
  MaxSources = 2
  MinSources = 1
  RetryDelay = 1
  LongDelay = 1
  MaxAge = 2
  MaxTtl = 1
  MaxMutations = 1
  MaxFaults = 1
SPECIFICATION FairSpec
INVARIANTS  PromotionProven
PROPERTIES RetryProgress
CHECK_DEADLOCK FALSE
