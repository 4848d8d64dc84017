SPECIFICATION Spec
CONSTANTS
  s1 = s1
  s2 = s2
  s3 = s3
  NoStage3 = NoStage3
  Unreadable = TRUE
  Stage3 = {s1, s2, s3}
  Pollers = {p1, p2}
  ProviderName <- MCProviderName
  RowsOf <- MCRowsOf
  Replies <- MCReplies
  BatchSize = 1
  MaxPriceRequests = 2
  MaxDispatches = 2
  MaxPolls = 3
  MaxRewrites = 1
SYMMETRY MCSymmetry
INVARIANTS
  PassMeansWholeScope
  CurrentIsArchived
  SuccessHasEvidence
PROPERTIES
  SentinelKeepsPromise
  TerminalLostOnlyBlindly
CHECK_DEADLOCK FALSE
