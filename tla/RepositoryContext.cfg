CONSTANTS
  name = name
  orgs = orgs
  bad = bad
  dot = dot
  None = None
  Absent = Absent
  Unknown = Unknown
  Stems = {name, orgs, bad}
  NoStem = dot
  Reserved = {orgs}
  Unsupported = {bad}
  MaxSuffixes = 2
  MaxPasses = 2
  MaxChars = 1000
  HeaderLengths = {232, 586, 587}
  ReadmeLengths = {0, 1, 256, 271, 414, 768, 2000}
  TreeLengths = {0, 1, 128, 143, 161, 400, 2000}
  Paths <- SomePaths
  Commits <- SomeCommits
  Repositories <- SomeRepositories
SPECIFICATION Spec
INVARIANTS
  WorkerAgreesOnTarget
  PromptFitsBudget
  CutsInOrder
  CutsAreReported
  InsightsAreOfTheContext
CHECK_DEADLOCK FALSE
