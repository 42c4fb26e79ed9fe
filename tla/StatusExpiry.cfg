CONSTANTS
  j1 = j1
  w1 = w1
  w2 = w2
  c1 = c1
  c2 = c2
  None = None
  Jobs <- OneJob
  Workers <- TwoWorkers
  Commits <- OneCommit
  MaxReceives = 2
  Faults = {"raise", "crash", "late", "ttl"}
SPECIFICATION StatusSpec
SYMMETRY Symmetry
INVARIANTS
  CompletedAnswerHasReport
CHECK_DEADLOCK FALSE
