SPECIFICATION Spec
CONSTANTS
  c1 = c1
  u1 = u1
  Installations = {1, 2}
  Commits = {c1}
  Runs = {u1}
  InstallationOf <- AllBelongTo1
  Requests = {1, 2}
  FaultKinds = {"throws", "answerLost", "crash"}
  MaxFaults = 1
  Logins = {2}
  PerPage = 1
INVARIANTS
  TypeOK
  OneRowPerSubject
  RowHasJob
  NothingOutlivesInstallation
  SignedInSeesAll
CHECK_DEADLOCK FALSE
