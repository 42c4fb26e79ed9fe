CONSTANTS
  j1 = j1
  j2 = j2
  w1 = w1
  w2 = w2
  c1 = c1
  c2 = c2
  None = None
  Jobs <- OneJob
  Workers <- TwoWorkers
  Commits <- OneCommit
  MaxReceives = 3
  Faults = {"raise", "crash", "late"}
SPECIFICATION Spec
SYMMETRY Symmetry
INVARIANTS
  TypeOK
  CompletedHasReport
  NoJobLost
  FailedOnlyAfterLastAttempt
PROPERTIES
  KeepsLedger
CHECK_DEADLOCK FALSE
