CONSTANTS
  Subs = {s1, s2, s3}
  Values = {a}
  Target = a
  Modes = {"until"}
  Kinds = {}
  Lifetimes = {1}
  Interval = 1
  ReviewWindow = 2
  RetryDelay = 1
  MaxTurns = 1
  MaxRepairs = 1
  MaxTasks = 2
  PageLimit = 0
  MaxActive = 2
  MaxClock = 1
  MaxCrashes = 0
  MaxCalls = 0
SPECIFICATION Spec
SYMMETRY Symmetric
INVARIANTS
  WithinLimits
