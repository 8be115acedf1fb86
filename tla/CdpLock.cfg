SPECIFICATION LockFairSpec
CONSTANTS
    Tab = {t1, t2}
    Browser = Browser
    MaxCalls = 4
INVARIANTS LockTypeOK Exclusive
PROPERTIES Implements Served
CHECK_DEADLOCK FALSE
