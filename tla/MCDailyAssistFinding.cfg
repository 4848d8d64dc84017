SPECIFICATION FairSpec
CONSTANTS
  r1 = r1  r2 = r2  r3 = r3
  Runs = {r1, r2, r3}
  Signals <- GroupSignals
  NoSignal = NoSignal
  Instants <- FirstInstants
  Modes = {"hybrid"}
  ActivationAt = 1333
  SecEnabled = TRUE
  Serialized = TRUE
  Faulty = {}
  MaxTries = 1
PROPERTIES
  AssistSparesStage3
CHECK_DEADLOCK FALSE
