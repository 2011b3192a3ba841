---- MODULE EngoneMutex ----
(* The class engone::Mutex (PlatformLayer.h:257) as its callers know it: at some
   point in lock() the mutex becomes the caller's, which it can only while it is
   nobody's, and at some point in unlock() the caller's no longer. *)
CONSTANTS Threads,      \* those that call lock() and unlock()
          NoThread      \* the ThreadId 0 that getOwner() returns for nobody

VARIABLE holder         \* the thread whose mutex it is

NotLocked == holder = NoThread

TakenInLock == NotLocked /\ holder' \in Threads
GivenUpInUnlock == holder \in Threads /\ NotLocked'

\* A mutex starts unlocked, and nothing else changes whose it is.
Exclusive == NotLocked /\ [][TakenInLock \/ GivenUpInUnlock]_holder
====
