CONSTANTS
  Subs = {s1}
  Values = {a}
  Target = a
  Modes = {"until", "changes"}
  Kinds = {}
  Lifetimes = {0, 2}
  Interval = 1
  ReviewWindow = 2
  RetryDelay = 1
  MaxTurns = 2
  MaxRepairs = 1
  MaxTasks = 1
  PageLimit = 10
  MaxActive = 2
  MaxClock = 2
  MaxCrashes = 1
  MaxCalls = 1
SPECIFICATION FairSpec
INVARIANTS
  TypeOK
  WithdrawalOwed
  StopOwed
  InterruptedSendsAreUncertain
PROPERTIES
  DeliveryAdvances
  SentOnceUnlessCancelled
  EventuallyStopped
  EventuallyHandled
