SPECIFICATION FairSpec
CONSTANTS
    Cli = {c1, c2}
    Commands <- AllPairs
    c1 = c1
    c2 = c2
    Config = {"plain", "headed"}
    HeadedConfig = {"headed"}
    MaxServers = 3
    MaxFaults = 1
    None = None
INVARIANTS TypeOK OneServer
PROPERTIES HeadedKept CommandEnds
CHECK_DEADLOCK FALSE
