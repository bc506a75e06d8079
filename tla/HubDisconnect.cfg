SPECIFICATION HubSpec
CONSTANTS
    Clients = {c1}
    Rooms = {r1}
    SendBuf = 1
    ChanCap = 2
    MaxReads = 1
    MaxEmits = 1
INVARIANT DisconnectsCleanly
CHECK_DEADLOCK FALSE
