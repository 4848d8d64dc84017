SPECIFICATION FairSpec
CONSTANTS
  r1 = r1  r2 = r2  r3 = r3
  Runs = {r1, r2}
  Signals <- GroupSignals
  NoSignal = NoSignal
  Instants <- FirstInstants
  Modes = {"legacy", "hybrid"}
  ActivationAt = 1333
  SecEnabled = TRUE
  Serialized = TRUE
  Faulty = {r2}
  MaxTries = 2
INVARIANTS
  OneCollectionPerSlot
  
PROPERTIES
  EveryRunConcludes
  AdmittedRunReports
CHECK_DEADLOCK FALSE
