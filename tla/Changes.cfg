CONSTANTS
  Subs = {s1}
  Values = {a}
  Target = a
  Modes = {"changes"}
  Kinds = {"json_changes", "semantic"}
  Lifetimes = {0}
  Interval = 1
  ReviewWindow = 2
  RetryDelay = 1
  MaxTurns = 2
  MaxRepairs = 2
  MaxTasks = 1
  PageLimit = 0
  MaxActive = 2
  MaxClock = 2
  MaxCrashes = 1
  MaxCalls = 1
SPECIFICATION Spec
INVARIANTS
  EvidenceIsLatest
  BaselineIsCurrent
PROPERTIES
  PublishedEvidence
