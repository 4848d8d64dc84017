SPECIFICATION JobSpec
CONSTANTS
  FullMin = 2
  StaleHistory = 2
  StaleQuote = 2
  RetireDays = 2
  Symbols <- MCSymbols
  GroupOf <- MCGroupOf
  Batches <- MCBatches
  Listings <- MCListings
  WeekendDays = {3}
  LastDay = 5
  MaxMishaps = 2
  Runs = {r1, r2, r3}
  LastWindow = 2
  MaxFaults = 2
  SecCases <- MCSecCases
  DriveCases <- MCDriveCases
  Retrieved = 5
  ShortWindow = 2
  LongWindow = 3
  HighWindow = 4
  Markets <- MCMarkets
  Targets = {1, 2}
  Horizon = 1
  LastDispatch = 2
  MaxRows = 2
  MaxMisses = 2
  Followed = {1, 2}
  OtherListed = {2}
  LastSession = 2
  MaxSlips = 2
SYMMETRY MCSymmetry
INVARIANTS
  GroupFilesAgree
  StateNeverAhead
  TargetKeepsItsProvenance
  CompleteMeansPublished
  VerifiedIsTheOnlyFiling
  NearestEventKept
  RegimeErrsOnCaution
  ReadyVouchesForItsAudit
PROPERTIES
  CacheKeepsPromise
  MappingLossIsRecorded
CHECK_DEADLOCK FALSE
