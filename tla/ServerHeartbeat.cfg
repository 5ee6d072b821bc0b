CONSTANTS
    Limits <- Restarted
    ErrorCount = 1
    HeadSize = 2
    LikeG = {3}
    MESSAGE_BUFFER_SIZE = 2
SPECIFICATION Spec
INVARIANTS HeartbeatsAtIntervals
CHECK_DEADLOCK FALSE
