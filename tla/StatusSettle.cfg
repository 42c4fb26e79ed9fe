CONSTANTS
  j1 = j1
  w1 = w1
  w2 = w2
  c1 = c1
  c2 = c2
  None = None
  Jobs <- OneJob
  Workers <- OneWorker
  Commits <- TwoCommits
  MaxReceives = 2
  Faults = {"raise", "late", "push"}
SPECIFICATION StatusFairSpec
INVARIANTS
  DeadMeansFailed
PROPERTIES
  JobsSettle
  ClientsLearnTheEnd
  ShownInsightsStay
  FailedAnswerIsFinal
CHECK_DEADLOCK FALSE
