CONSTANTS
  j1 = j1
  j2 = j2
  w1 = w1
  w2 = w2
  c1 = c1
  c2 = c2
  None = None
  Jobs <- OneJob
  Workers <- TwoWorkers
  Commits <- TwoCommits
  MaxReceives = 2
  Faults = {"raise", "crash", "ttl", "push"}
SPECIFICATION Spec
SYMMETRY Symmetry
INVARIANTS
  ExclusiveProcessing
  InsightsMatchCommit
  CompletedRowMatchesReport
  StatusPageAgrees
  ErrorIffFailed
  AckedMeansDone
CHECK_DEADLOCK FALSE
