-------------------------- MODULE LinuxMutexProofs --------------------------
(***************************************************************************)
(* A mutex that the main thread has locked before there are other threads  *)
(* is a lock until an Assert ends the process, and that Assert is never    *)
(* "Unlocking twice", for any number of threads.                           *)
(***************************************************************************)
EXTENDS LinuxMutex, TLAPS

\* Only the main thread creates the pthread mutex, it is alone while it does,
\* and the mutex is initialised when others find its handle.
AloneUntilReady ==
    /\ \A t \in Threads \ {Main} :
          /\ pc[t] \notin {"allocate", "init"}
          /\ pc[t] # "unborn" => m_internalHandle # NoHandle
          /\ pc[Main] \in {"allocate", "init"} => pc[t] = "unborn"
    /\ pc[Main] = "init" => mine[Main] = m_internalHandle /\ mine[Main] \in allocated
    /\ pc[Main] \in {"init", "read"} => m_internalHandle # NoHandle
    /\ m_internalHandle # NoHandle /\ pc[Main] # "init" => m_internalHandle \in initialised

\* The threads in lock() and unlock() use the handle that is published, and its
\* pthread mutex is theirs while they have the mutex.
PthreadMutexIsHeld ==
    /\ \A t \in Threads : pc[t] \in {"check", "wait", "note", "locked", "release"} =>
          m_internalHandle # NoHandle /\ mine[t] = m_internalHandle
    /\ \A t \in Threads : pc[t] \in {"note", "locked", "release"} => kernel[m_internalHandle] = t

\* A noted owner runs with the mutex, and a thread that does is noted.
OwnerRuns ==
    /\ m_ownerThread # NoThread => pc[m_ownerThread] = "locked"
    /\ \A t \in Threads : pc[t] = "locked" => m_ownerThread = t

\* The only Assert that fires is the one in lock().
OnlyLockAsserts == crash \in {"none", "Locking twice"}

IInv == TypeOK /\ AloneUntilReady /\ PthreadMutexIsHeld /\ OwnerRuns /\ OnlyLockAsserts

-----------------------------------------------------------------------------
\* The invariant holds before the mutex has been used.
LEMMA InvInit == Init => IInv
<1> SUFFICES ASSUME Init PROVE IInv
  OBVIOUS
<1>1. pc \in [Threads -> {"idle", "unborn"}] /\ pc[Main] = "idle"
  BY ThreadsAssumption DEF Init
<1>2. TypeOK
  BY <1>1, HandlesAssumption DEF Init, TypeOK, Labels
<1>3. AloneUntilReady /\ PthreadMutexIsHeld /\ OwnerRuns /\ OnlyLockAsserts
  BY <1>1 DEF Init, AloneUntilReady, PthreadMutexIsHeld, OwnerRuns, OnlyLockAsserts
<1> QED
  BY <1>2, <1>3 DEF IInv

\* The steps of lock() that create the pthread mutex preserve the invariant.
LEMMA CreateStep ==
    ASSUME LockedBefore, IInv, NEW t \in Threads,
           Start(t) \/ Call(t) \/ HasHandle(t) \/ NeedsHandle(t) \/ Allocate(t) \/ InitMutex(t)
    PROVE  IInv'
<1> USE ThreadsAssumption, HandlesAssumption DEF Step, HandleExists
<1>1. CASE Start(t)
  BY <1>1 DEF IInv, TypeOK, Labels, AloneUntilReady, PthreadMutexIsHeld, OwnerRuns,
              OnlyLockAsserts, Start
<1>2. CASE Call(t) \/ HasHandle(t)
  <2>1. TypeOK'
    BY <1>2 DEF IInv, TypeOK, Labels, Call, HasHandle
  <2>2. AloneUntilReady'
    BY <1>2 DEF IInv, TypeOK, AloneUntilReady, Call, HasHandle
  <2>3. PthreadMutexIsHeld' /\ OwnerRuns' /\ OnlyLockAsserts'
    BY <1>2 DEF IInv, TypeOK, PthreadMutexIsHeld, OwnerRuns, OnlyLockAsserts, Call, HasHandle
  <2> QED
    BY <2>1, <2>2, <2>3 DEF IInv
<1>3. CASE NeedsHandle(t)
  <2>1. t = Main /\ \A u \in Threads \ {Main} : pc[u] = "unborn"
    BY <1>3 DEF IInv, AloneUntilReady, NeedsHandle
  <2>2. TypeOK' /\ AloneUntilReady'
    BY <1>3, <2>1 DEF IInv, TypeOK, Labels, AloneUntilReady, NeedsHandle
  <2> QED
    BY <1>3, <2>1, <2>2 DEF IInv, TypeOK, PthreadMutexIsHeld, OwnerRuns, OnlyLockAsserts,
                            NeedsHandle
<1>4. CASE Allocate(t)
  <2>1. t = Main /\ \A u \in Threads \ {Main} : pc[u] = "unborn"
    BY <1>4 DEF IInv, AloneUntilReady, Allocate
  <2>2. TypeOK'
    BY <1>4 DEF IInv, TypeOK, Labels, Allocate
  <2>3. AloneUntilReady'
    BY <1>4, <2>1 DEF IInv, TypeOK, AloneUntilReady, Allocate
  <2>4. PthreadMutexIsHeld' /\ OwnerRuns' /\ OnlyLockAsserts'
    BY <1>4, <2>1 DEF IInv, TypeOK, PthreadMutexIsHeld, OwnerRuns, OnlyLockAsserts, Allocate
  <2> QED
    BY <2>2, <2>3, <2>4 DEF IInv
<1>5. CASE InitMutex(t)
  <2>1. t = Main /\ \A u \in Threads \ {Main} : pc[u] = "unborn"
    BY <1>5 DEF IInv, AloneUntilReady, InitMutex
  <2>2. mine[t] \in Handles /\ mine[t] \in allocated
    BY <1>5, <2>1 DEF IInv, TypeOK, AloneUntilReady, InitMutex
  <2>3. TypeOK'
    BY <1>5, <2>2 DEF IInv, TypeOK, Labels, InitMutex
  <2>4. AloneUntilReady'
    BY <1>5, <2>1 DEF IInv, TypeOK, AloneUntilReady, InitMutex
  <2>5. PthreadMutexIsHeld' /\ OwnerRuns' /\ OnlyLockAsserts'
    BY <1>5, <2>1 DEF IInv, TypeOK, PthreadMutexIsHeld, OwnerRuns, OnlyLockAsserts, InitMutex
  <2> QED
    BY <2>3, <2>4, <2>5 DEF IInv
<1> QED
  BY <1>1, <1>2, <1>3, <1>4, <1>5

\* The steps that lock the pthread mutex preserve the invariant.
LEMMA LockStep ==
    ASSUME IInv, NEW t \in Threads,
           ReadHandle(t) \/ CheckOwner(t) \/ LockMutex(t) \/ NoteOwner(t)
    PROVE  IInv'
<1> USE ThreadsAssumption, HandlesAssumption DEF Step, MutexFree
<1>1. CASE ReadHandle(t)
  <2>1. m_internalHandle \in Handles
    BY <1>1 DEF IInv, TypeOK, AloneUntilReady, ReadHandle
  <2>2. TypeOK'
    BY <1>1, <2>1 DEF IInv, TypeOK, Labels, ReadHandle
  <2> QED
    BY <1>1, <2>1, <2>2 DEF IInv, TypeOK, AloneUntilReady, PthreadMutexIsHeld, OwnerRuns,
                            OnlyLockAsserts, ReadHandle
<1>2. CASE CheckOwner(t)
  <2>1. crash' \in {"none", "Locking twice"}
    BY <1>2 DEF CheckOwner
  <2> QED
    BY <1>2, <2>1 DEF IInv, TypeOK, Labels, AloneUntilReady, PthreadMutexIsHeld, OwnerRuns,
                      OnlyLockAsserts, CheckOwner
<1>3. CASE LockMutex(t)
  <2>1. mine[t] \in initialised /\ mine[t] = m_internalHandle
    BY <1>3 DEF IInv, AloneUntilReady, PthreadMutexIsHeld, LockMutex
  <2>2. crash' = "none"
    BY <1>3, <2>1 DEF LockMutex, Outcomes
  <2>3. TypeOK'
    BY <1>3, <2>2 DEF IInv, TypeOK, Labels, LockMutex
  <2> QED
    BY <1>3, <2>1, <2>2, <2>3 DEF IInv, TypeOK, AloneUntilReady, PthreadMutexIsHeld, OwnerRuns,
                                  OnlyLockAsserts, LockMutex
<1>4. CASE NoteOwner(t)
  <2>1. \A u \in Threads : pc[u] \in {"note", "locked", "release"} => u = t
    BY <1>4 DEF IInv, PthreadMutexIsHeld, NoteOwner
  <2> QED
    BY <1>4, <2>1 DEF IInv, TypeOK, Labels, AloneUntilReady, PthreadMutexIsHeld, OwnerRuns,
                      OnlyLockAsserts, NoteOwner
<1> QED
  BY <1>1, <1>2, <1>3, <1>4

\* The steps of unlock() preserve the invariant.
LEMMA UnlockStep == ASSUME IInv, NEW t \in Threads, unlock(t) PROVE IInv'
<1> USE ThreadsAssumption, HandlesAssumption DEF Step
<1>1. CASE ForgetOwner(t)
  <2>1. m_ownerThread = t
    BY <1>1 DEF IInv, OwnerRuns, ForgetOwner
  <2>2. m_ownerThread' = NoThread /\ crash' = "none"
    BY <1>1, <2>1 DEF ForgetOwner
  <2> QED
    BY <1>1, <2>1, <2>2 DEF IInv, TypeOK, Labels, AloneUntilReady, PthreadMutexIsHeld, OwnerRuns,
                            OnlyLockAsserts, ForgetOwner
<1>2. CASE UnlockMutex(t)
  BY <1>2 DEF IInv, TypeOK, Labels, AloneUntilReady, PthreadMutexIsHeld, OwnerRuns,
              OnlyLockAsserts, UnlockMutex
<1> QED
  BY <1>1, <1>2 DEF unlock

\* Every step preserves the invariant.
LEMMA InvStep == LockedBefore /\ IInv /\ [Next]_vars => IInv'
<1> SUFFICES ASSUME LockedBefore, IInv, [Next]_vars PROVE IInv'
  OBVIOUS
<1>1. CASE UNCHANGED vars
  BY <1>1 DEF vars, IInv, TypeOK, AloneUntilReady, PthreadMutexIsHeld, OwnerRuns, OnlyLockAsserts
<1>2. ASSUME NEW t \in Threads, Start(t) \/ lock(t) \/ unlock(t) PROVE IInv'
  BY <1>2, CreateStep, LockStep, UnlockStep DEF lock
<1> QED
  BY <1>1, <1>2 DEF Next

\* The invariant says what the program relies on.
LEMMA InvMeans == IInv => OwnerIsHolder /\ NeverUnlockingTwice
BY DEF IInv, TypeOK, PthreadMutexIsHeld, Has, OwnerRuns, OwnerIsHolder, OnlyLockAsserts,
       NeverUnlockingTwice

\* lock() and unlock() exclude other threads and getOwner() tells the truth,
\* when the main thread has locked the mutex before it starts other threads.
THEOREM OwnerIsHolderCorrect == LockedBefore => (Spec => []OwnerIsHolder)
<1> SUFFICES ASSUME LockedBefore PROVE Spec => []OwnerIsHolder
  OBVIOUS
<1>1. IInv /\ [Next]_vars => IInv'
  BY InvStep
<1> QED
  BY <1>1, InvMeans, InvInit, PTL DEF Spec

\* The assertion of unlock() never fires, under the same condition.
THEOREM NeverUnlockingTwiceCorrect == LockedBefore => (Spec => []NeverUnlockingTwice)
<1> SUFFICES ASSUME LockedBefore PROVE Spec => []NeverUnlockingTwice
  OBVIOUS
<1>1. IInv /\ [Next]_vars => IInv'
  BY InvStep
<1> QED
  BY <1>1, InvMeans, InvInit, PTL DEF Spec

-----------------------------------------------------------------------------
\* The abstract holder, as a state function.
Holder == IF Holders = {} THEN NoThread ELSE CHOOSE t \in Holders : TRUE

\* Locking the pthread mutex acquires the abstract mutex, unlocking it releases
\* it, and so does the end of the process; no other step touches it.
LEMMA StepImplements ==
    ASSUME IInv, OwnerIsHolder, OwnerIsHolder', [Next]_vars
    PROVE  [L!TakenInLock \/ L!GivenUpInUnlock]_Holder
<1> USE ThreadsAssumption, HandlesAssumption
<1>1. CASE UNCHANGED vars
  BY <1>1 DEF vars, Holder, Holders, Has
<1>2. ASSUME NEW t \in Threads, Start(t) \/ lock(t) \/ unlock(t)
      PROVE  [L!TakenInLock \/ L!GivenUpInUnlock]_Holder
  <2>0. pc \in [Threads -> Labels]
    BY DEF IInv, TypeOK
  <2>1. CASE LockMutex(t) /\ crash' = "none"
    <3>1. Has(t)' /\ \A u \in Threads : ~Has(u)
      BY <2>0, <2>1 DEF LockMutex, MutexFree, Step, IInv, PthreadMutexIsHeld, Has
    <3>2. Holders = {} /\ Holders' = {t}
      BY <3>1 DEF Holders, OwnerIsHolder
    <3>3. Holder = NoThread /\ Holder' = t
      BY <3>2 DEF Holder
    <3> QED
      BY <3>3 DEF L!TakenInLock, L!NotLocked, Holder
  <2>2. CASE UnlockMutex(t)
    <3>1. Has(t) /\ \A u \in Threads : ~Has(u)'
      BY <2>0, <2>2 DEF UnlockMutex, Step, Has, OwnerIsHolder
    <3>2. Holders = {t} /\ Holders' = {}
      BY <3>1 DEF Holders, OwnerIsHolder
    <3>3. Holder = t /\ Holder' = NoThread
      BY <3>2 DEF Holder
    <3> QED
      BY <3>3 DEF L!GivenUpInUnlock, L!NotLocked, Holder
  <2>3. CASE crash' # "none"
    <3>1. Holders' = {}
      BY <2>3 DEF Holders, Has
    <3>2. Holders = {} \/ \E u \in Threads : Holders = {u}
      BY DEF Holders, OwnerIsHolder
    <3>3. Holder' = NoThread /\ (Holder = NoThread \/ Holder \in Threads)
      BY <3>1, <3>2 DEF Holder
    <3> QED
      BY <3>3 DEF L!GivenUpInUnlock, L!NotLocked, Holder
  <2>4. CASE ~LockMutex(t) /\ ~UnlockMutex(t) /\ crash' = "none"
    <3>1. \A u \in Threads : Has(u)' <=> Has(u)
      BY <1>2, <2>0, <2>4 DEF Step, Has, Start, lock, Call, HasHandle, NeedsHandle, Allocate,
           InitMutex, ReadHandle, CheckOwner, NoteOwner, unlock, ForgetOwner
    <3>2. Holders' = Holders
      BY <3>1 DEF Holders
    <3> QED
      BY <3>2 DEF Holder
  <2> QED
    BY <2>1, <2>2, <2>3, <2>4
<1> QED
  BY <1>1, <1>2 DEF Next

\* engone::Mutex implements the lock the compiler expects it to be, when the
\* main thread has locked it before it starts other threads.
THEOREM LockImplemented == LockedBefore => (Spec => ImplementsLock)
<1> SUFFICES ASSUME LockedBefore PROVE Spec => ImplementsLock
  OBVIOUS
<1>1. Init => L!NotLocked
  BY DEF Init, Has, Holders, Holder, L!NotLocked
<1>2. IInv /\ OwnerIsHolder /\ OwnerIsHolder' /\ [Next]_vars
        => [L!TakenInLock \/ L!GivenUpInUnlock]_Holder
  BY StepImplements
<1>3. IInv /\ [Next]_vars => IInv'
  BY InvStep
<1>4. Spec => L!NotLocked /\ [][L!TakenInLock \/ L!GivenUpInUnlock]_Holder
  BY <1>1, <1>2, <1>3, InvMeans, InvInit, PTL DEF Spec
<1> QED
  BY <1>4 DEF ImplementsLock, L!Exclusive, Holder
=============================================================================
