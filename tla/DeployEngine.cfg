SPECIFICATION FairSpec
CONSTANTS
    Deployments = {d1, d2}
    Static = {d2}
    NoRoute = noRoute
    Events = {"rollback", "delete", "restart", "exit", "fault"}
    MaxEvents = 2
INVARIANTS
    TypeOK
    NoZombieRunning
PROPERTIES
    StopOwnsStatus
CHECK_DEADLOCK FALSE
