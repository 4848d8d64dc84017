SPECIFICATION HybridSpec
CONSTANTS
  r1 = r1  r2 = r2  p1 = p1  p2 = p2  h1 = h1
  Runs = {r1, r2}
  Signals <- HybridSignals
  NoSignal = NoSignal
  Instants <- HybridInstants
  Modes = {"hybrid"}
  ActivationAt = 1633
  SecEnabled = FALSE
  Serialized = FALSE
  Faulty = {}
  MaxTries = 1
  Senders = {p1, p2}
  Hosts = {h1}
  HostOf <- HybridHostOf
  Offsets <- HybridOffsets
INVARIANTS
  WakeIsNeverMisunderstood
PROPERTIES
  PostsOnlyWhenDue
  WakeOncePerHost
CHECK_DEADLOCK FALSE
