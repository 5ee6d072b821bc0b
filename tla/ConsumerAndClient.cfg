CONSTANTS
    Items = {i1, i2, i3}
    Adders = {a1, a2}
    NoItem = NoItem
    MaxStarts = 2
    Limits <- SmallLimits
SPECIFICATION PartsSpec
INVARIANTS OnlyLateItemsStay FramesInOrder OneOperationEach OrderlyLossReportedOnce
PROPERTIES HandsOffInOrder EventuallyHandled FlushedWhenIdle EndsNoticed
CHECK_DEADLOCK FALSE
