CONSTANTS
  Subs = {s1}
  Values = {a}
  Target = a
  Modes = {"until"}
  Kinds = {"json_equals", "semantic"}
  Lifetimes = {2}
  Interval = 1
  ReviewWindow = 2
  RetryDelay = 1
  MaxTurns = 2
  MaxRepairs = 1
  MaxTasks = 1
  PageLimit = 0
  MaxActive = 2
  MaxClock = 2
  MaxCrashes = 1
  MaxCalls = 1
SPECIFICATION FairSpec
INVARIANTS
  SingleLaunch
  NothingStrands
  ToldOnce
PROPERTIES
  TerminalIsFinal
  EventuallyCloses
