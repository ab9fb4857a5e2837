CONSTANTS
  Threads = {t1}
  Manual = {m1}
  Messages = {"dot", "custom"}
  Default = "dot"
  Lease = 2
  RetryDelay = 1
  EventPage = 9
  MaxLog = 7
  MaxEvents = 3
  MaxEras = 1
  MaxFaults = 1
  MaxEdits = 1
  MaxStops = 1
SPECIFICATION Spec
INVARIANTS
  ExclusiveSend
  ResumedOnce
  SentIsTrue
PROPERTIES
  RetrySettles
CHECK_DEADLOCK FALSE
