CONSTANTS
    MaxId = 7
    FindCount = 2
    PoolLimit = 0
    Limits <- SmallTimings
    Listeners = {1, 2}
    Types = {e1, e2}
    MaxDepth = 2
    MaxCalls = 6
SPECIFICATION PartsSpec
INVARIANTS
    NodesAccounted MapsAgree EachCalledOnce CallsTakeEffect
    RoutesFound IsASet VersionsUnderstood
    TextKept JsonKept CryptoKept AudioKept GradientsExact
PROPERTIES EarliestFirst
CHECK_DEADLOCK FALSE
