SPECIFICATION Spec
CONSTANTS
    Clients = {c1, c2}
    SecretIds = {s1, s2}
    MaxKeys = 3
    MaxVersions = 2
    MaxCalls = 6
INVARIANTS
    RetiredKeyUnused
CHECK_DEADLOCK FALSE
