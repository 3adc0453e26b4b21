CONSTANTS
    MaxIncoming = 1
    MaxRequests = 2
    MaxBack = 1
SPECIFICATION UserSpec
INVARIANT ClientInv
PROPERTIES EndsWhenLost RequestEnds
CHECK_DEADLOCK FALSE
