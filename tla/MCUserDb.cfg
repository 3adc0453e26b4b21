CONSTANTS
    Nobody = Nobody
    Session = {s1, s2}
    Uid = {1, 2, 3}
    Hash <- Hashes
    MIN_SIZE = 2
    MAX_SIZE = 4
    MaxKeys = 4
    MaxCalls = 2
    MaxCrashes = 1
SPECIFICATION DbSpec
INVARIANTS UserDbInv UndelReadable
PROPERTY ImplementsUserSet
SYMMETRY Sessions
VIEW Relevant
CHECK_DEADLOCK FALSE
