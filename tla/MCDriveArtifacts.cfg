SPECIFICATION ArtifactsSpec
CONSTANTS
  p1 = p1  p2 = p2  q = q
  Processes <- MCProcesses
  GroupOf <- MCGroupOf
  HostOf <- MCHostOf
  LastWindow = 2
  u1 = u1  u2 = u2  u3 = u3  q1 = q1  old = old  new = new
  UploadCalls <- MCUploads
  ReadCalls <- MCReads
  Payload <- MCPayload
  RetryAttempts = 2
  Probers <- MCProcesses
  MaxResets = 1
INVARIANTS
  DuplicatesNeedOverlap
  SuccessIsStored
  AbsentMeansAbsent
  RecordsWereObserved
  PublishedFailureWasAnnounced
PROPERTY SentinelsKeepPromise
CHECK_DEADLOCK FALSE
