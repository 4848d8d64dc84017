SPECIFICATION Spec
CONSTANTS
  LastDay = 3
  Lookback = 2
  SearchSpan = 1
  FeedAge = 1
  MaxFaults = 2
  Worlds <- MCWorlds
  FirstBar = 0
  FullPeriod = 3
  ShortPeriod = 2
  MaxBars = 3
  MinBars = 2
  MaxLateness = 1
INVARIANTS
  EvidenceAgreesWithWorld
  FailedRefreshUnverifies
  ComparableIsJustified
PROPERTIES
  EventsRetained
  OneBasisAfterEachSync
CHECK_DEADLOCK FALSE
