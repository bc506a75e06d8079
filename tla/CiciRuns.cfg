SPECIFICATION FairSpec
CONSTANTS
    Runs = {r1, r2}
    Steps = 2
    MaxFaults = 2
    MaxRestarts = 1
INVARIANTS
    NeverStranded
    SuccessEarned
PROPERTIES
    ImplementsLifecycle
    LogsBeforeEnd
    RunEnds
CHECK_DEADLOCK FALSE
