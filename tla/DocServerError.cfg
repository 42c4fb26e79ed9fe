CONSTANTS
  r1 = r1
  r2 = r2
  c1 = c1
  NoId = NoId
  None = None
  Requests <- TwoRequests
  ClientIds = {c1}
  Inputs <- JobRoutes
  Environments = {"prod"}
  Exceptions = {}
  MaxRetries = 2
  PoolSize = 1
SPECIFICATION Spec
INVARIANTS
  ServerErrorsAreProblems
CHECK_DEADLOCK FALSE
