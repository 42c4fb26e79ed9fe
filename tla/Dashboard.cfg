CONSTANTS
  j1 = j1
  j2 = j2
  None = None
  Jobs <- TwoJobs
  Badged <- OneBadged
  FaultSets = {{"error", "network"}, {"network"}, {"slow"}}
  MaxTimers = 6
SPECIFICATION FairSpec
INVARIANTS
  OnePollLoop
  PageIsCurrent
  CopiesShownReport
  PollsUntilDeadline
  OneView
  PollsDoNotMultiply
PROPERTIES
  ReportStays
  LoadingEnds
CHECK_DEADLOCK FALSE
