CONSTANTS
    MixerLimits <- SmallMixers
    CHANNELS = 2
    StreamDataLimit = 4
SPECIFICATION PartsSpec
INVARIANTS
    ContentIsBody RequestsHandled ConnectionsWatched
    TimersAndRequestsKept PlaysAccounted
    RelayKept DebuggerAgrees QueriesAnswered
PROPERTIES CompletesOnce MessagesHandedOff
CHECK_DEADLOCK FALSE
