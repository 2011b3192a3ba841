----------------------------- MODULE Win32Mutex -----------------------------
(***************************************************************************)
(* engone::Mutex on Windows (src/Engone/Win32.cpp): lock() creates the     *)
(* kernel mutex when it is first needed, waits for it and notes its owner; *)
(* unlock() clears the owner and releases the kernel mutex.  Threads lock  *)
(* and unlock the mutex again and again; none locks it while it has it.    *)
(* One action is one access to a variable that threads share, or a test and*)
(* the write that follows it where only the holder of the mutex writes.    *)
(***************************************************************************)
EXTENDS Naturals

CONSTANTS Threads, NoThread,
          Handles, NoHandle,    \* what CreateMutex may return
          Main,                 \* the thread that is there from the start
          LockedBefore          \* TRUE: it has locked the mutex before it starts
                                \* the others, as with Compiler::lock_imports.
                                \* FALSE: not so, as with Lexer::lock_chunks

ASSUME ThreadsAssumption == NoThread \notin Threads /\ Main \in Threads
ASSUME HandlesAssumption == NoHandle \notin Handles /\ Handles # {}
ASSUME LockedAssumption == LockedBefore \in BOOLEAN

VARIABLES
    m_internalHandle, m_ownerThread,
    global_value,       \* guards the creation of mutexes
    created,            \* kernel mutexes there are
    kernel,             \* who has which kernel mutex
    pc,
    mine,               \* the handle a thread has created or waits for
    locked_twice,       \* "Mutex : Locking twice" has been printed
    crashed             \* an Assert has fired

vars == <<m_internalHandle, m_ownerThread, global_value, created, kernel, pc, mine,
          locked_twice, crashed>>

Init ==
    /\ m_internalHandle = NoHandle
    /\ created = {}
    /\ m_ownerThread = NoThread
    /\ global_value = 0
    /\ kernel = [h \in Handles |-> NoThread]
    /\ pc = [t \in Threads |-> IF t = Main THEN "idle" ELSE "unborn"]
    /\ mine = [t \in Threads |-> NoHandle]
    /\ locked_twice = FALSE
    /\ crashed = FALSE

Step(t, from, to) == ~crashed /\ pc[t] = from /\ pc' = [pc EXCEPT ![t] = to]

\* The main thread starts another one between two uses of the mutex.
Start(t) ==
    /\ Step(t, "unborn", "idle")
    /\ pc[Main] = "idle"
    /\ LockedBefore => m_internalHandle # NoHandle
    /\ UNCHANGED <<m_internalHandle, m_ownerThread, global_value, created, kernel, mine,
                   locked_twice, crashed>>

-----------------------------------------------------------------------------
(* lock(): while there is no handle, compare and exchange global_value.     *)
(* atomic_compare_swap returns 1 when it has exchanged the value, and lock()*)
(* goes on to create the mutex when it returns 0.                           *)

Call(t) == Step(t, "idle", "test")
           /\ UNCHANGED <<m_internalHandle, m_ownerThread, global_value, created, kernel,
                          mine, locked_twice, crashed>>

HandleExists == m_internalHandle # NoHandle

NeedsHandle(t) == Step(t, "test", "swap") /\ ~HandleExists
                  /\ UNCHANGED <<m_internalHandle, m_ownerThread, global_value, created,
                                 kernel, mine, locked_twice, crashed>>

Swapped(t) == Step(t, "swap", "test") /\ global_value = 0
              /\ global_value' = 1
              /\ UNCHANGED <<m_internalHandle, m_ownerThread, created, kernel, mine,
                             locked_twice, crashed>>

NotSwapped(t) == Step(t, "swap", "create") /\ global_value # 0
                 /\ UNCHANGED <<m_internalHandle, m_ownerThread, global_value, created,
                                kernel, mine, locked_twice, crashed>>

CreateMutex(t) ==
    /\ Step(t, "create", "publish")
    /\ \E h \in Handles \ created : /\ created' = created \cup {h}
                                    /\ mine' = [mine EXCEPT ![t] = h]
    /\ UNCHANGED <<m_internalHandle, m_ownerThread, global_value, kernel, locked_twice, crashed>>

\* Assert(m_internalHandle == 0), then the assignment.
AssertNoHandle(t) ==
    /\ Step(t, "publish", "assign")
    /\ crashed' = (m_internalHandle # NoHandle)
    /\ UNCHANGED <<m_internalHandle, m_ownerThread, global_value, created, kernel, mine, locked_twice>>

Publish(t) ==
    /\ Step(t, "assign", "reset")
    /\ m_internalHandle' = mine[t]
    /\ UNCHANGED <<m_ownerThread, global_value, created, kernel, mine, locked_twice, crashed>>

ResetGlobal(t) ==
    /\ Step(t, "reset", "read")
    /\ global_value' = 0
    /\ UNCHANGED <<m_internalHandle, m_ownerThread, created, kernel, mine, locked_twice, crashed>>

-----------------------------------------------------------------------------
(* lock(): wait for the kernel mutex, then note the owner.                  *)

HasHandle(t) == Step(t, "test", "read") /\ HandleExists
                /\ UNCHANGED <<m_internalHandle, m_ownerThread, global_value, created,
                               kernel, mine, locked_twice, crashed>>

ReadHandle(t) ==
    /\ Step(t, "read", "wait")
    /\ mine' = [mine EXCEPT ![t] = m_internalHandle]
    /\ UNCHANGED <<m_internalHandle, m_ownerThread, global_value, created, kernel,
                   locked_twice, crashed>>

NoWait(t) == TRUE
KernelMutexFree(t) == kernel[mine[t]] = NoThread

WaitForSingleObject(t) ==
    /\ Step(t, "wait", "note")
    /\ KernelMutexFree(t)
    /\ kernel' = [kernel EXCEPT ![mine[t]] = t]
    /\ UNCHANGED <<m_internalHandle, m_ownerThread, global_value, created, mine,
                   locked_twice, crashed>>

NoteOwner(t) ==
    /\ Step(t, "note", "locked")
    /\ locked_twice' = (locked_twice \/ m_ownerThread # NoThread)
    /\ m_ownerThread' = t
    /\ UNCHANGED <<m_internalHandle, global_value, created, kernel, mine, crashed>>

(* unlock(): forget the owner, then release the mutex of the handle.        *)
OwnerStays == UNCHANGED m_ownerThread
OwnerForgotten == m_ownerThread' = NoThread

ForgetOwner(t) ==
    /\ Step(t, "locked", "release")
    /\ OwnerForgotten
    /\ UNCHANGED <<m_internalHandle, global_value, created, kernel, mine, locked_twice, crashed>>

\* ReleaseMutex fails for a thread that does not have the mutex.
StillHeld(t) == kernel
Released(t) == IF kernel[m_internalHandle] = t
               THEN [kernel EXCEPT ![m_internalHandle] = NoThread] ELSE kernel

ReleaseMutex(t) ==
    /\ Step(t, "release", "idle")
    /\ kernel' = Released(t)
    /\ UNCHANGED <<m_internalHandle, m_ownerThread, global_value, created, mine,
                   locked_twice, crashed>>

Create(t) ==
    Call(t) \/ NeedsHandle(t) \/ Swapped(t) \/ NotSwapped(t) \/ CreateMutex(t)
    \/ AssertNoHandle(t) \/ Publish(t) \/ ResetGlobal(t)
LockIt(t) ==
    HasHandle(t) \/ ReadHandle(t) \/ WaitForSingleObject(t) \/ NoteOwner(t)
Unlock(t) == ForgetOwner(t) \/ ReleaseMutex(t)

Next == \E t \in Threads : Start(t) \/ Create(t) \/ LockIt(t) \/ Unlock(t)
Spec == Init /\ [][Next]_vars
\* The system schedules every thread, and a call that can return does.
FairSpec == Spec /\ \A t \in Threads : WF_vars(Create(t) \/ LockIt(t) \/ Unlock(t))

-----------------------------------------------------------------------------
Labels == {"unborn", "idle", "test", "swap", "create", "publish", "assign", "reset", "read", "wait",
           "note", "locked", "release"}
\* A thread that publishes a handle, or waits for one, has one.
TypeOK ==
    /\ m_internalHandle \in Handles \cup {NoHandle}
    /\ m_ownerThread \in Threads \cup {NoThread}
    /\ global_value \in {0, 1}
    /\ created \subseteq Handles
    /\ kernel \in [Handles -> Threads \cup {NoThread}]
    /\ pc \in [Threads -> Labels]
    /\ mine \in [Threads -> Handles \cup {NoHandle}]
    /\ \A t \in Threads :
          pc[t] \in {"publish", "assign", "wait", "note", "locked", "release"} => mine[t] \in Handles
    /\ locked_twice \in BOOLEAN /\ crashed \in BOOLEAN

\* Threads that have the mutex, from the return of the wait to the release.
Has(t) == pc[t] \in {"note", "locked", "release"}
Holders == {t \in Threads : Has(t)}

\* At most one thread has the mutex, getOwner() names it while it runs with the
\* mutex, and "Locking twice" is never printed by threads that do not.
OwnerIsHolder ==
    /\ \A t, u \in Threads : Has(t) /\ Has(u) => t = u
    /\ \A t \in Threads : pc[t] = "locked" => m_ownerThread = t
    /\ ~locked_twice

\* lock() and unlock() are a lock.
L == INSTANCE EngoneMutex WITH
        holder <- IF Holders = {} THEN NoThread ELSE CHOOSE t \in Holders : TRUE
ImplementsLock == L!Exclusive

\* Whenever threads wait for the mutex, one of them gets it.
SomebodyGetsIn == (\E t \in Threads : pc[t] = "wait") ~> (\E t \in Threads : pc[t] = "locked")
=============================================================================
