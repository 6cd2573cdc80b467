SPECIFICATION Spec
CONSTANTS
  PrivateNames <- MCPrivateNames
  PrNumber = 9
  CommitsOf <- MCCommitsOf
  PullsOf <- MCPullsOf
  CommentsOn <- MCCommentsOn
  MAX_API_CALLS = 4
  Repositories <- MCRepositories
  LimitSets <- MCLimits
  DiffContext = 1
  MaxCalls = 3
  MAX_CONTENT_BYTES = 2
  MaxFaults = 1
INVARIANTS
  CheckoutRemoved
  ChangesAreThePrs
  DependenciesNearest
  RelevantFirst
  WithinBudgets
CHECK_DEADLOCK FALSE
