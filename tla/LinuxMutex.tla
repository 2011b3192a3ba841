----------------------------- MODULE LinuxMutex -----------------------------
(***************************************************************************)
(* engone::Mutex on Linux (src/Engone/Linux.cpp): lock() allocates and     *)
(* initialises a pthread mutex when there is none, asserts that nobody owns*)
(* the mutex, locks the pthread mutex and notes the owner; unlock() asserts*)
(* that somebody owns it, forgets the owner and unlocks the pthread mutex. *)
(* Threads lock and unlock the mutex again and again; none locks it while  *)
(* it has it.  One action is one access to a variable that threads share,  *)
(* or a test and the write that follows it where only the holder of the    *)
(* mutex writes.                                                           *)
(***************************************************************************)
EXTENDS FiniteSets

CONSTANTS Threads, NoThread,
          Handles, NoHandle,    \* what malloc may return
          Main,                 \* the thread that is there from the start
          LockedBefore          \* TRUE: it has locked the mutex before it starts
                                \* the others, as with Compiler::lock_imports.
                                \* FALSE: not so, as with Lexer::lock_chunks

ASSUME ThreadsAssumption == NoThread \notin Threads /\ Main \in Threads
ASSUME HandlesAssumption == NoHandle \notin Handles /\ Handles # {}
ASSUME LockedAssumption == LockedBefore \in BOOLEAN

VARIABLES
    m_internalHandle, m_ownerThread,
    allocated, initialised,     \* the pthread mutexes
    kernel,                     \* who has which of them
    pc,
    mine,                       \* the handle a thread has allocated or read
    crash                       \* the Assert that has fired, or "none"

vars == <<m_internalHandle, m_ownerThread, allocated, initialised, kernel, pc, mine, crash>>

Init ==
    /\ m_internalHandle = NoHandle
    /\ m_ownerThread = NoThread
    /\ allocated = {}
    /\ initialised = {}
    /\ kernel = [h \in Handles |-> NoThread]
    /\ pc = [t \in Threads |-> IF t = Main THEN "idle" ELSE "unborn"]
    /\ mine = [t \in Threads |-> NoHandle]
    /\ crash = "none"

\* A failed Assert ends the process.
Step(t, from, to) == crash = "none" /\ pc[t] = from /\ pc' = [pc EXCEPT ![t] = to]

\* The main thread starts another one between two uses of the mutex.
Start(t) ==
    /\ Step(t, "unborn", "idle")
    /\ pc[Main] = "idle"
    /\ LockedBefore => m_internalHandle # NoHandle
    /\ UNCHANGED <<m_internalHandle, m_ownerThread, allocated, initialised, kernel, mine, crash>>

-----------------------------------------------------------------------------
(* lock(): the handle is stored before the mutex it names is initialised.   *)

Call(t) ==
    /\ Step(t, "idle", "test")
    /\ UNCHANGED <<m_internalHandle, m_ownerThread, allocated, initialised, kernel, mine, crash>>

HandleExists == m_internalHandle # NoHandle

HasHandle(t) ==
    /\ Step(t, "test", "read") /\ HandleExists
    /\ UNCHANGED <<m_internalHandle, m_ownerThread, allocated, initialised, kernel, mine, crash>>

NeedsHandle(t) ==
    /\ Step(t, "test", "allocate") /\ ~HandleExists
    /\ UNCHANGED <<m_internalHandle, m_ownerThread, allocated, initialised, kernel, mine, crash>>

Allocate(t) ==
    /\ Step(t, "allocate", "init")
    /\ \E h \in Handles \ allocated : /\ allocated' = allocated \cup {h}
                                      /\ mine' = [mine EXCEPT ![t] = h]
                                      /\ m_internalHandle' = h
    /\ UNCHANGED <<m_ownerThread, initialised, kernel, crash>>

InitMutex(t) ==
    /\ Step(t, "init", "read")
    /\ initialised' = initialised \cup {mine[t]}
    /\ kernel' = [kernel EXCEPT ![mine[t]] = NoThread]
    /\ UNCHANGED <<m_internalHandle, m_ownerThread, allocated, mine, crash>>

ReadHandle(t) ==
    /\ Step(t, "read", "check")
    /\ mine' = [mine EXCEPT ![t] = m_internalHandle]
    /\ UNCHANGED <<m_internalHandle, m_ownerThread, allocated, initialised, kernel, crash>>

CheckOwner(t) ==
    /\ Step(t, "check", "wait")
    /\ crash' = IF m_ownerThread = NoThread THEN crash ELSE "Locking twice"
    /\ UNCHANGED <<m_internalHandle, m_ownerThread, allocated, initialised, kernel, mine>>

\* pthread_mutex_lock.  What it does with memory that is not initialised yet is
\* undefined: it takes it for a free mutex, for one that is not (and waits), or
\* fails, which is asserted not to happen.
NoWait(t) == TRUE
MutexFree(t) == kernel[mine[t]] = NoThread

Outcomes(t) == {"none"} \cup (IF mine[t] \in initialised THEN {} ELSE {"pthread_mutex_lock"})

LockMutex(t) ==
    /\ Step(t, "wait", "note")
    /\ MutexFree(t)
    /\ crash' \in Outcomes(t)
    /\ kernel' = [kernel EXCEPT ![mine[t]] = t]
    /\ UNCHANGED <<m_internalHandle, m_ownerThread, allocated, initialised, mine>>

NoteOwner(t) ==
    /\ Step(t, "note", "locked")
    /\ m_ownerThread' = t
    /\ UNCHANGED <<m_internalHandle, allocated, initialised, kernel, mine, crash>>

(* unlock()                                                                 *)
ForgetOwner(t) ==
    /\ Step(t, "locked", "release")
    /\ IF m_ownerThread = NoThread
       THEN crash' = "Unlocking twice" /\ UNCHANGED m_ownerThread
       ELSE m_ownerThread' = NoThread /\ UNCHANGED crash
    /\ UNCHANGED <<m_internalHandle, allocated, initialised, kernel, mine>>

\* A pthread mutex of the default kind does not care who unlocks it.
UnlockMutex(t) ==
    /\ Step(t, "release", "idle")
    /\ kernel' = [kernel EXCEPT ![m_internalHandle] = NoThread]
    /\ UNCHANGED <<m_internalHandle, m_ownerThread, allocated, initialised, mine, crash>>

lock(t) ==
    \/ Call(t) \/ HasHandle(t) \/ NeedsHandle(t) \/ Allocate(t) \/ InitMutex(t)
    \/ ReadHandle(t) \/ CheckOwner(t) \/ LockMutex(t) \/ NoteOwner(t)
unlock(t) == ForgetOwner(t) \/ UnlockMutex(t)

Next == \E t \in Threads : Start(t) \/ lock(t) \/ unlock(t)
Spec == Init /\ [][Next]_vars

-----------------------------------------------------------------------------
Labels == {"unborn", "idle", "test", "allocate", "init", "read", "check", "wait", "note",
           "locked", "release"}
\* A thread that initialises or locks a pthread mutex has one.
TypeOK ==
    /\ m_internalHandle \in Handles \cup {NoHandle}
    /\ m_ownerThread \in Threads \cup {NoThread}
    /\ allocated \subseteq Handles /\ initialised \subseteq allocated
    /\ kernel \in [Handles -> Threads \cup {NoThread}]
    /\ pc \in [Threads -> Labels]
    /\ mine \in [Threads -> Handles \cup {NoHandle}]
    /\ \A t \in Threads :
          pc[t] \in {"init", "check", "wait", "note", "locked", "release"} => mine[t] \in Handles
    /\ crash \in {"none", "Locking twice", "Unlocking twice", "pthread_mutex_lock"}

Has(t) == crash = "none" /\ pc[t] \in {"note", "locked", "release"}
Holders == {t \in Threads : Has(t)}

\* At most one thread has the mutex and getOwner() names it while it runs with it.
OwnerIsHolder ==
    /\ \A t, u \in Threads : Has(t) /\ Has(u) => t = u
    /\ \A t \in Threads : crash = "none" /\ pc[t] = "locked" => m_ownerThread = t

\* lock() and unlock() are a lock, until an Assert ends the process.
L == INSTANCE EngoneMutex WITH
        holder <- IF Holders = {} THEN NoThread ELSE CHOOSE t \in Holders : TRUE
ImplementsLock == L!Exclusive

\* "Mutex : Locking twice" (Linux.cpp:907): only a thread that locks the mutex
\* while it owns it finds the owner set.
NeverLockingTwice == crash # "Locking twice"
\* "Mutex : Unlocking twice" (Linux.cpp:923): a thread that unlocks the mutex it
\* has locked finds the owner set.
NeverUnlockingTwice == crash # "Unlocking twice"
=============================================================================
