SPECIFICATION FairSpec
CONSTANTS
    ChannelSize = 2
    MaxInterrupts = 4
INVARIANTS ReturnLeavesNothing DeliveredAtMostOnce ReportsAreTrue
PROPERTIES InterruptsReachCommand DoomedCommandEnds
CHECK_DEADLOCK FALSE
