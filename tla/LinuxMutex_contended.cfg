SPECIFICATION Spec
CONSTANTS
    Threads = {t1, t2, t3}
    NoThread = NoThread
    Handles = {h1}
    NoHandle = NoHandle
    Main = t1
    LockedBefore = TRUE
INVARIANTS
    OwnerIsHolder
    NeverUnlockingTwice
PROPERTIES
    ImplementsLock
CHECK_DEADLOCK FALSE
