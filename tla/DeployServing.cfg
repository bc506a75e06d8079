SPECIFICATION FairSpec
CONSTANTS
    Deployments = {d1, d2}
    Static = {}
    NoRoute = noRoute
    Events = {}
    MaxEvents = 0
PROPERTIES
    KeepsServing
CHECK_DEADLOCK FALSE
