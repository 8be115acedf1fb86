SPECIFICATION Spec
CONSTANTS
    Cli = {c1, c2}
    Commands <- TwoPages
    c1 = c1
    c2 = c2
    Config = {"plain", "headed"}
    HeadedConfig = {"headed"}
    MaxServers = 3
    MaxFaults = 1
    None = None
PROPERTIES ShownKept
CHECK_DEADLOCK FALSE
