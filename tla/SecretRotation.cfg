SPECIFICATION Spec
CONSTANTS
    Clients = {c1, c2}
    SecretIds = {s1, s2}
    MaxKeys = 3
    MaxVersions = 2
    MaxCalls = 6
SYMMETRY Symmetry
INVARIANTS
    OneActiveKey
    AlwaysDecryptable
PROPERTIES
    VersionsImmutable
CHECK_DEADLOCK FALSE
