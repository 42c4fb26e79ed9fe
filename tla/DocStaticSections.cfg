CONSTANTS
  j1 = j1
  j2 = j2
  None = None
  Jobs <- TwoJobs
  Badged <- OneBadged
  FaultSets = {{}}
  MaxTimers = 6
SPECIFICATION Spec
INVARIANTS
  AISectionsStayHidden
CHECK_DEADLOCK FALSE
