SPECIFICATION FairSpec
CONSTANTS
  w1 = w1
  w2 = w2
  x1 = x1
  x2 = x2
  s1 = s1
  s2 = s2
  NoWorker = NoWorker
  NoSession = NoSession
  Workers = {w1}
  Sweeps = {x1}
  Sessions = {s1, s2}
  NoBaseSha = {s2}
  MaxAttempts = 2
  QueueAttempts = 1
  MaxStalledCount = 1
  FaultKinds = {"crash", "sweepError"}
  MaxFaults = 2
PROPERTIES
  OrphanIsReleased
CHECK_DEADLOCK FALSE
