SPECIFICATION FairSpec
CONSTANTS
    MaxCalls = 2
    MaxSessions = 2
    MaxSockets = 2
    MaxProcs = 2
    MaxFaults = 2
INVARIANTS TypeOK NoZombie
PROPERTIES RunsWhileAttached LeftEnds
CHECK_DEADLOCK FALSE
