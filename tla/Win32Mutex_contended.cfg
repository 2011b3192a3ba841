SPECIFICATION FairSpec
CONSTANTS
    Threads = {t1, t2, t3}
    NoThread = NoThread
    Handles = {h1, h2}
    NoHandle = NoHandle
    Main = t1
    LockedBefore = TRUE
INVARIANTS
    OwnerIsHolder
PROPERTIES
    ImplementsLock
    SomebodyGetsIn
