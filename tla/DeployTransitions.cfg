SPECIFICATION FairSpec
CONSTANTS
    Writers = {w1, w2}
    transitionMaxAttempts = 2
    MaxCalls = 3
    MaxFaults = 1
INVARIANTS
    AuditSound
    EventAfterRecord
PROPERTIES
    ImplementsStatus
    CallReturns
CHECK_DEADLOCK FALSE
