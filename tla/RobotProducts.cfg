CONSTANTS
    MaxId = 7
    FindCount = 2
    PoolLimit = 0
    Limits <- SmallTimings
    Listeners = {1, 2}
    Types = {e1, e2}
    MaxDepth = 2
    MaxCalls = 6
SPECIFICATION RobotSpec
INVARIANTS ProductsMultiply
CHECK_DEADLOCK FALSE
