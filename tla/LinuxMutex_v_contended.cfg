SPECIFICATION Spec
CONSTANTS
    Threads = {t1, t2}
    NoThread = NoThread
    Handles = {h1}
    NoHandle = NoHandle
    Main = t1
    LockedBefore = TRUE
INVARIANTS
    NeverLockingTwice
CHECK_DEADLOCK FALSE
