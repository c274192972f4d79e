CONSTANTS
    c1 = c1
    c2 = c2
    Clients = {c1, c2}
    BufferSize = 2
    MaxReloads = 3
    MaxAlerts = 1
SPECIFICATION FairSpec
PROPERTIES BroadcastEnds PagesCatchUp LeaversForgotten
CHECK_DEADLOCK FALSE
