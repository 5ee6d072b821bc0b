CONSTANTS
    Tasks = {t1, t2}
    MaxThreads = 2
SPECIFICATION Spec
INVARIANTS ShutdownEndsNormally
CHECK_DEADLOCK FALSE
