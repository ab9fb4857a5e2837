SPECIFICATION Spec
CONSTANTS
    Callers = {q1, q2}
    Users = {u1, u2}
    Transports = {1, 2, 3, 4}
    MaxTokens = 2
    MaxSignIns = 1
    MaxGenerations = 2
SYMMETRY Symmetric
INVARIANTS
    DisconnectForgets
    GrantIsCurrent
    CallbackUsedOnce
    TransportsOwned
CHECK_DEADLOCK FALSE
