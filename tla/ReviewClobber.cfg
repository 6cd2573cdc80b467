SPECIFICATION Spec
CONSTANTS
  w1 = w1
  w2 = w2
  x1 = x1
  x2 = x2
  s1 = s1
  s2 = s2
  NoWorker = NoWorker
  NoSession = NoSession
  Workers = {w1, w2}
  Sweeps = {x1}
  Sessions = {s1}
  NoBaseSha = {}
  MaxAttempts = 3
  QueueAttempts = 3
  MaxStalledCount = 1
  FaultKinds = {"dbError", "wedge"}
  MaxFaults = 2
PROPERTIES
  LiveRetryNotFailed
CHECK_DEADLOCK FALSE
