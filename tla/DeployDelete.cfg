SPECIFICATION FairSpec
CONSTANTS
    Deployments = {d1, d2}
    Static = {}
    NoRoute = noRoute
    Events = {"delete"}
    MaxEvents = 1
PROPERTIES
    RouteOfOthersKept
CHECK_DEADLOCK FALSE
