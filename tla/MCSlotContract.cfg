SPECIFICATION Spec
CONSTANTS
  Horizon = 14500
  Delays = {0, 1, 179, 180, 181, 600, 1440, 4320}
INVARIANTS
  NativeSlotIsLastFiring
  SenderAndReceiverAgree
CHECK_DEADLOCK FALSE
