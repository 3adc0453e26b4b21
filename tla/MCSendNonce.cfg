CONSTANTS
    owner = owner
    other = other
    Sender <- ServerThreads
    FirstNonce = 2
    MaxMsgs = 2
SPECIFICATION SendSpec
INVARIANT NonceUnique
CHECK_DEADLOCK FALSE
