SPECIFICATION FairSpec
CONSTANTS
  w1 = w1
  w2 = w2
  x1 = x1
  x2 = x2
  s1 = s1
  s2 = s2
  NoWorker = NoWorker
  NoSession = NoSession
  Workers = {w1, w2}
  Sweeps = {x1}
  Sessions = {s1}
  NoBaseSha = {}
  MaxAttempts = 2
  QueueAttempts = 2
  MaxStalledCount = 1
  FaultKinds <- AnyFault
  MaxFaults = 2
PROPERTIES
  OrphanIsReleased
  SettledUnlessFault
  SettledOrStranded
CHECK_DEADLOCK FALSE
