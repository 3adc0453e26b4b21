CONSTANTS
    a = a
    b = b
    c = c
    Senders <- TwoAndOne
    MaxMsgs = 1
    PIPE_CAP = 1
    SOCK_CAP = 4
    MaxKA <- NoKA
    Slow = FALSE
    MayKill = {"server"}
SPECIFICATION FairSpec
INVARIANT StaysUp
PROPERTIES EverythingDelivered PeerLossNoticed
CHECK_DEADLOCK FALSE
