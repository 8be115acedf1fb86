SPECIFICATION Spec
CONSTANTS
    Cli = {c1, c2}
    Commands <- TwoPages
    c1 = c1
    c2 = c2
    Config = {"plain", "headed"}
    HeadedConfig = {"headed"}
    MaxServers = 4
    MaxFaults = 0
    None = None
INVARIANTS LockExclusive
CHECK_DEADLOCK FALSE
