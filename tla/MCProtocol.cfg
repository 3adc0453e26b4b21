CONSTANTS
    a = a
    b = b
    c = c
    Senders <- TwoAndOne
    MaxMsgs = 1
    PIPE_CAP = 1
    SOCK_CAP = 1
    MaxKA <- ClientKA
    Slow = TRUE
    MayKill = {}
SPECIFICATION Spec
INVARIANTS WakeupInv AcksMatch
PROPERTY ImplementsChannel
CHECK_DEADLOCK FALSE
