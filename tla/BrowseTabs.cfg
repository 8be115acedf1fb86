SPECIFICATION TabsSpec
CONSTANTS
    r1 = r1
    r2 = r2
    a1 = a1
    Req = {r1, r2}
    Agent = {a1}
    Root = Root
    NoOwner = NoOwner
    Requests <- AllCommands
    Scales = {1, 2, 3}
    MaxTabs = 16
    MaxContexts = 10
    MaxFailures = 2
INVARIANTS TabsTypeOK ListedAlive OwnershipKept ScaleTracked
CHECK_DEADLOCK FALSE
