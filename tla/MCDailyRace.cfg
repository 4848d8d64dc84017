SPECIFICATION Spec
CONSTANTS
  r1 = r1  r2 = r2  r3 = r3
  Runs = {r1, r2}
  Signals <- RaceSignals
  NoSignal = NoSignal
  Instants <- RaceInstants
  Modes = {"hybrid"}
  ActivationAt = 1333
  SecEnabled = TRUE
  Serialized = FALSE
  Faulty = {r1, r2}
  MaxTries = 1
SYMMETRY Symmetry
INVARIANTS
  TypeOK
  CollectionBackedByReceipt
  ReceiptNamesItsWake
  SecFollowsOwnCollection
PROPERTIES
  ImplementsSlotOnce
CHECK_DEADLOCK FALSE
