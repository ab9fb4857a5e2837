CONSTANTS
  Subs = {s1}
  Values = {a, b}
  Target = a
  Modes = {"changes"}
  Kinds = {"json_changes"}
  Lifetimes = {0}
  Interval = 1
  ReviewWindow = 2
  RetryDelay = 1
  MaxTurns = 3
  MaxRepairs = 1
  MaxTasks = 1
  PageLimit = 0
  MaxActive = 2
  MaxClock = 2
  MaxCrashes = 1
  MaxCalls = 1
SPECIFICATION Spec
PROPERTIES
  RepeatedTruthIsQuiet
