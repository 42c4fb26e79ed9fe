CONSTANTS
  r1 = r1
  r2 = r2
  c1 = c1
  NoId = NoId
  None = None
  Requests <- TwoRequests
  ClientIds = {c1}
  Inputs <- EveryRoute
  Environments = {"dev", "prod"}
  Exceptions <- EveryException
  MaxRetries = 2
  PoolSize = 1
SPECIFICATION FairSpec
INVARIANTS
  OneIdPerRequest
  SessionsEnd
  StatusIsHttp
  AllowedOriginsReadAnswers
PROPERTIES
  ServingSurvives
  ComesToServe
  EveryRequestAnswered
CHECK_DEADLOCK FALSE
