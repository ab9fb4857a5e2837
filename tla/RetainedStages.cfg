SPECIFICATION Spec
CONSTANTS
    Threads = {1, 2}
    Facts = {1}
    Span = 10
    Bodies <- MCBodies
    MaxPages = 2
    ScanLimit = 2
INVARIANTS
    FrozenCoversMembers
    TotalsExact
    OneHistory
PROPERTY
    RefinesLedger
CHECK_DEADLOCK FALSE
