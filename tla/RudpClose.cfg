CONSTANTS
    Clients = {c1}
    Server = server
    Pending = Pending
    Aborted = Aborted
    Limits <- OneClosed
SPECIFICATION Spec
INVARIANTS ServerCloseHeeded
CHECK_DEADLOCK FALSE
