SPECIFICATION FairSpec
CONSTANTS
    Deployments = {d1, d2}
    Static = {d2}
    NoRoute = noRoute
    Events = {"rollback", "delete", "restart", "exit", "fault"}
    MaxEvents = 1
PROPERTIES
    InFlightSettles
    ReplacedLeaves
CHECK_DEADLOCK FALSE
