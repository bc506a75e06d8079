SPECIFICATION FairSpec
CONSTANTS
    Writers = {w1, w2}
    transitionMaxAttempts = 4
    MaxCalls = 3
    MaxFaults = 0
PROPERTIES
    NoTransitionSlipsIn
CHECK_DEADLOCK FALSE
