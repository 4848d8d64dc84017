SPECIFICATION Spec
CONSTANTS
  s1 = s1
  s2 = s2
  s3 = s3
  NoStage3 = NoStage3
  Unreadable = FALSE
  Stage3 = {s1, s2, s3}
  Pollers = {p1}
  ProviderName <- MCProviderName
  RowsOf <- MCRowsOf
  Replies <- MCReplies
  BatchSize = 1
  MaxPriceRequests = 2
  MaxDispatches = 1
  MaxPolls = 2
  MaxRewrites = 0
INVARIANTS
  PublishedPassMatches
CHECK_DEADLOCK FALSE
