SPECIFICATION FairSpec
CONSTANTS
  w1 = w1
  w2 = w2
  Workers = {w1, w2}
  NoWorker = NoWorker
  Attempts = 2
  MaxRetries = 1
  MaxStalledCount = 1
  FailedJobs = {0, 1}
  Verdicts = {"LINT", "UNKNOWN"}
  FaultKinds = {"throws", "answerLost", "lockLost", "crash", "listenerLost", "badSummary"}
  MaxFaults = 2
INVARIANTS
  PostsCostFaults
  RowShowsItsComment
  FailedMeansExhausted
  CallsBounded
PROPERTIES
  CompletedStays
  Settles
CHECK_DEADLOCK FALSE
