CONSTANTS
    Threads = {t1, t2, t3}
    MAX_READERS = 2
    NoThread = NoThread
SPECIFICATION FairSpec
INVARIANTS LockInv Exclusion
PROPERTIES EveryoneServed ImplementsRWLock
