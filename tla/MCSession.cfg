CONSTANTS
    a = a
    b = b
    u = u
    k1 = k1
    k2 = k2
    Conn <- TwoConns
    Name <- OneName
    Key <- TwoKeys
    None = None
    Accounts <- TwoAccounts
    MAX_HANDSHAKES = 1
    Free = Free
SPECIFICATION FairSession
INVARIANTS GateInv SessionInv
PROPERTIES ServedOrTold NameFreed ImplementsLogins
CHECK_DEADLOCK FALSE
