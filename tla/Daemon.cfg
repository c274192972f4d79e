CONSTANTS
    f = f
    g = g
    d = d
    Site = Site
    Files = {f, g}
    Dirs = {d}
    In <- MCIn
    Clients = {c1}
    MaxClients = 1
    Buffer = 1
    MaxSpent = 2
SPECIFICATION Spec
INVARIANT NotifiedThenFresh
PROPERTIES EditsAnnounced ShutdownEnds
CHECK_DEADLOCK FALSE
