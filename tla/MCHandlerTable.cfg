CONSTANTS
    s1 = s1
    s2 = s2
    s3 = s3
    s4 = s4
    s5 = s5
    s6 = s6
    s7 = s7
    extra = extra
    None = None
    Session <- Sessions
    Uid = {1, 2, 3, 4, 5, 6, 7}
    IdOf <- Ids
    Hash <- Hashes
    MIN_SIZE = 4
    MAX_SIZE = 8
    MaxAtStop = 3
SPECIFICATION Spec
INVARIANTS
    TableInv
    LoadBounded
PROPERTY ImplementsMap
CHECK_DEADLOCK FALSE
