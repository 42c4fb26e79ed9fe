CONSTANTS
  j1 = j1
  j2 = j2
  w1 = w1
  w2 = w2
  c1 = c1
  c2 = c2
  None = None
  Jobs <- OneJob
  Workers <- OneWorker
  Commits <- OneCommit
  MaxReceives = 2
  Faults = {"crash"}
SPECIFICATION Spec
SYMMETRY Symmetry
INVARIANTS
  DeadLetterMarkedFailed
CHECK_DEADLOCK FALSE
