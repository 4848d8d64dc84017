SPECIFICATION Spec
CONSTANTS
  r1 = r1  r2 = r2  r3 = r3
  Runs = {r1}
  Signals <- GroupSignals
  NoSignal = NoSignal
  Instants <- FirstInstants
  Modes = {"hybrid"}
  ActivationAt = 1333
  SecEnabled = TRUE
  Serialized = TRUE
  Faulty = {r1}
  MaxTries = 2
INVARIANTS
  RerunWritesNoResult
CHECK_DEADLOCK FALSE
