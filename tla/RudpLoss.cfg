CONSTANTS
    Clients = {c1}
    Server = server
    Pending = Pending
    Aborted = Aborted
    Limits <- OneAgain
SPECIFICATION Spec
INVARIANTS DisconnectedOnce
CHECK_DEADLOCK FALSE
