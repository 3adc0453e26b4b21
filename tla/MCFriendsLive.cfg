CONSTANTS
    User = {a, b}
    NewUser = {b}
    MaxRequests = 2
    MaxSent = 2
    MaxStops = 0
SPECIFICATION FairSpec
PROPERTY Befriended
CHECK_DEADLOCK FALSE
