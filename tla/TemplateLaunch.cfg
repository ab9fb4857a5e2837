SPECIFICATION FairSpec
CONSTANTS
    Runners = {r1, r2}
    Checks = {c1}
    MaxGenerations = 2
    MaxTokens = 4
INVARIANTS
    EffectsAtMostOnce
    SuccessWasAdmitted
    NoSuccessAfterRemoval
PROPERTIES
    AcknowledgedIsFinal
    LaunchSettles
CHECK_DEADLOCK FALSE
