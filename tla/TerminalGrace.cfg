SPECIFICATION Spec
CONSTANTS
    MaxCalls = 2
    MaxSessions = 2
    MaxSockets = 2
    MaxProcs = 2
    MaxFaults = 0
INVARIANTS KilledAfterGrace
CHECK_DEADLOCK FALSE
