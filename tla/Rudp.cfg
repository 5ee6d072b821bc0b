CONSTANTS
    Clients = {c1, c2}
    Server = server
    Pending = Pending
    Aborted = Aborted
    Limits <- SmallLimits
SPECIFICATION Spec
INVARIANTS ConvsAccountedFor SessionKept OnlyOwnData FramesAligned SocketsServed OrderlyDisconnectedOnce
CHECK_DEADLOCK FALSE
