SPECIFICATION Spec
CONSTANTS
  Symbols = {1, 2, 3}
  OtherListed = {2}
  LastSession = 2
  MaxSlips = 0
INVARIANT RemovedStaysUnverified
CHECK_DEADLOCK FALSE
