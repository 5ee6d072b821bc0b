CONSTANTS Limits <- Reconnecting
SPECIFICATION Spec
INVARIANTS LossReportedOnce
CHECK_DEADLOCK FALSE
