-------------------------- MODULE Win32MutexProofs --------------------------
(***************************************************************************)
(* A mutex that the main thread has locked before there are other threads  *)
(* is a lock, for any number of threads.  The kernel mutex of the handle   *)
(* belongs to the thread between wait and release, and is the same for all *)
(* threads, since the main thread is alone until it has published it.      *)
(***************************************************************************)
EXTENDS Win32Mutex, TLAPS

Creating(t) == pc[t] \in {"swap", "create", "publish", "assign", "reset"}

\* Only the main thread creates the kernel mutex, and until it has published
\* the handle it is alone.
AloneUntilPublished ==
    /\ \A t \in Threads \ {Main} :
          /\ ~Creating(t)
          /\ pc[t] # "unborn" => m_internalHandle # NoHandle
    /\ pc[Main] \in {"swap", "create", "publish", "assign"} => m_internalHandle = NoHandle
    /\ pc[Main] \in {"reset", "read"} => m_internalHandle # NoHandle

\* The threads that wait have read the handle that is published now, and the
\* kernel mutex of that handle is theirs while they have the mutex.
KernelMutexIsHeld ==
    /\ \A t \in Threads : pc[t] \in {"wait", "note", "locked", "release"} =>
          m_internalHandle # NoHandle /\ mine[t] = m_internalHandle
    /\ \A t \in Threads : Has(t) => kernel[m_internalHandle] = t

\* A noted owner runs with the mutex.
OwnerRuns ==
    /\ m_ownerThread # NoThread => pc[m_ownerThread] = "locked"
    /\ \A t \in Threads : pc[t] = "locked" => m_ownerThread = t

IInv == TypeOK /\ AloneUntilPublished /\ KernelMutexIsHeld /\ OwnerRuns /\ ~locked_twice

-----------------------------------------------------------------------------
\* The invariant holds before the mutex has been used.
LEMMA InvInit == Init => IInv
<1> SUFFICES ASSUME Init PROVE IInv
  OBVIOUS
<1>1. pc \in [Threads -> {"idle", "unborn"}] /\ pc[Main] = "idle"
  BY ThreadsAssumption DEF Init
<1>2. TypeOK
  BY <1>1, HandlesAssumption DEF Init, TypeOK, Labels
<1>3. AloneUntilPublished /\ KernelMutexIsHeld /\ OwnerRuns /\ ~locked_twice
  BY <1>1 DEF Init, AloneUntilPublished, Creating, KernelMutexIsHeld, Has, OwnerRuns
<1> QED
  BY <1>2, <1>3 DEF IInv

\* Every step of a thread preserves the invariant.
LEMMA InvStep == LockedBefore /\ IInv /\ [Next]_vars => IInv'
<1> SUFFICES ASSUME LockedBefore, IInv, [Next]_vars PROVE IInv'
  OBVIOUS
<1> USE ThreadsAssumption, HandlesAssumption
<1>1. CASE UNCHANGED vars
  BY <1>1 DEF vars, IInv, TypeOK, Labels, AloneUntilPublished, Creating, KernelMutexIsHeld,
              Has, OwnerRuns
<1>2. ASSUME NEW t \in Threads, Start(t) \/ Create(t) \/ LockIt(t) \/ Unlock(t)
      PROVE  IInv'
  <2> USE DEF Step, HandleExists, KernelMutexFree, Released, OwnerForgotten
  <2>1. TypeOK'
    <3>1. CASE Start(t) \/ Create(t)
      BY <1>2, <3>1 DEF IInv, TypeOK, Labels, Start, Create, Call, NeedsHandle, Swapped, NotSwapped,
                        CreateMutex, AssertNoHandle, Publish, ResetGlobal
    <3>2. CASE HasHandle(t) \/ ReadHandle(t)
      <4>1. CASE HasHandle(t)
        BY <4>1 DEF IInv, TypeOK, Labels, HasHandle
      <4>2. CASE ReadHandle(t)
        <5>1. m_internalHandle \in Handles
          BY <4>2 DEF IInv, TypeOK, AloneUntilPublished, ReadHandle
        <5> QED
          BY <4>2, <5>1 DEF IInv, TypeOK, Labels, ReadHandle
      <4> QED
        BY <3>2, <4>1, <4>2
    <3>3. CASE WaitForSingleObject(t) \/ NoteOwner(t)
      <4>1. CASE WaitForSingleObject(t)
        BY <4>1 DEF IInv, TypeOK, Labels, WaitForSingleObject
      <4>2. CASE NoteOwner(t)
        <5>1. m_ownerThread' \in Threads /\ pc' \in [Threads -> Labels]
          BY <4>2 DEF IInv, TypeOK, Labels, NoteOwner
        <5>2. \A u \in Threads :
                pc'[u] \in {"publish", "assign", "wait", "note", "locked", "release"} =>
                mine'[u] \in Handles
          BY <4>2 DEF IInv, TypeOK, NoteOwner
        <5>3. locked_twice' = FALSE
          BY <4>2 DEF IInv, OwnerRuns, KernelMutexIsHeld, Has, NoteOwner, TypeOK
        <5> QED
          BY <4>2, <5>1, <5>2, <5>3 DEF IInv, TypeOK, NoteOwner
      <4> QED
        BY <3>3, <4>1, <4>2
    <3>4. CASE Unlock(t)
      BY <3>4 DEF IInv, TypeOK, Labels, Unlock, ForgetOwner, ReleaseMutex
    <3> QED
      BY <1>2, <3>1, <3>2, <3>3, <3>4 DEF LockIt
  <2>2. AloneUntilPublished'
    <3>1. CASE Start(t) \/ Create(t)
      BY <1>2, <3>1 DEF IInv, TypeOK, Labels, AloneUntilPublished, Creating, Start, Create, Call,
                        NeedsHandle, Swapped, NotSwapped, CreateMutex, AssertNoHandle, Publish,
                        ResetGlobal
    <3>2. CASE LockIt(t) \/ Unlock(t)
      BY <1>2, <3>2 DEF IInv, TypeOK, Labels, AloneUntilPublished, Creating, LockIt, HasHandle,
                        ReadHandle, WaitForSingleObject, NoteOwner, Unlock, ForgetOwner, ReleaseMutex
    <3> QED
      BY <1>2, <3>1, <3>2
  <2>3. KernelMutexIsHeld'
    <3>1. CASE Start(t) \/ Create(t)
      BY <1>2, <3>1 DEF IInv, TypeOK, Labels, AloneUntilPublished, Creating, KernelMutexIsHeld, Has,
                        Start, Create, Call, NeedsHandle, Swapped, NotSwapped, CreateMutex,
                        AssertNoHandle, Publish, ResetGlobal
    <3>2. CASE LockIt(t) \/ Unlock(t)
      BY <1>2, <3>2 DEF IInv, TypeOK, Labels, AloneUntilPublished, KernelMutexIsHeld, Has, LockIt,
                        HasHandle, ReadHandle, WaitForSingleObject, NoteOwner, Unlock, ForgetOwner,
                        ReleaseMutex
    <3> QED
      BY <1>2, <3>1, <3>2
  <2>4. OwnerRuns' /\ ~locked_twice'
    <3>1. CASE Start(t) \/ Create(t)
      BY <1>2, <3>1 DEF IInv, TypeOK, Labels, OwnerRuns, Start, Create, Call, NeedsHandle, Swapped,
                        NotSwapped, CreateMutex, AssertNoHandle, Publish, ResetGlobal
    <3>2. CASE LockIt(t) \/ Unlock(t)
      BY <1>2, <3>2 DEF IInv, TypeOK, Labels, KernelMutexIsHeld, Has, OwnerRuns, LockIt, HasHandle,
                        ReadHandle, WaitForSingleObject, NoteOwner, Unlock, ForgetOwner, ReleaseMutex
    <3> QED
      BY <1>2, <3>1, <3>2
  <2> QED
    BY <2>1, <2>2, <2>3, <2>4 DEF IInv
<1> QED
  BY <1>1, <1>2 DEF Next

\* lock() and unlock() exclude other threads and getOwner() tells the truth,
\* when the main thread has locked the mutex before it starts other threads.
THEOREM OwnerIsHolderCorrect == LockedBefore => (Spec => []OwnerIsHolder)
<1> SUFFICES ASSUME LockedBefore PROVE Spec => []OwnerIsHolder
  OBVIOUS
<1>1. IInv => OwnerIsHolder
  BY DEF IInv, KernelMutexIsHeld, Has, OwnerRuns, OwnerIsHolder
<1>2. IInv /\ [Next]_vars => IInv'
  BY InvStep
<1> QED
  BY <1>1, <1>2, InvInit, PTL DEF Spec

-----------------------------------------------------------------------------
\* The abstract holder, as a state function.
Holder == IF Holders = {} THEN NoThread ELSE CHOOSE t \in Holders : TRUE

\* Waiting successfully acquires the lock, releasing the kernel mutex releases
\* it, and no other step touches it.
LEMMA StepImplements ==
    ASSUME IInv, IInv', OwnerIsHolder, OwnerIsHolder', [Next]_vars
    PROVE  [L!TakenInLock \/ L!GivenUpInUnlock]_Holder
<1> USE ThreadsAssumption, HandlesAssumption
<1>1. CASE UNCHANGED vars
  BY <1>1 DEF vars, Holder, Holders, Has
<1>2. ASSUME NEW t \in Threads, Start(t) \/ Create(t) \/ LockIt(t) \/ Unlock(t)
      PROVE  [L!TakenInLock \/ L!GivenUpInUnlock]_Holder
  <2>0. pc \in [Threads -> Labels]
    BY DEF IInv, TypeOK
  <2>1. CASE WaitForSingleObject(t)
    <3>1. pc'[t] = "note" /\ Has(t)'
      BY <2>0, <2>1 DEF WaitForSingleObject, Step, Has
    <3>2. \A u \in Threads : ~Has(u)
      BY <2>0, <2>1 DEF WaitForSingleObject, KernelMutexFree, Step, IInv, KernelMutexIsHeld, Has
    <3>3. Holders = {} /\ Holders' = {t}
      BY <3>1, <3>2 DEF Holders, OwnerIsHolder
    <3>4. Holder = NoThread /\ Holder' = t
      BY <3>3 DEF Holder
    <3> QED
      BY <3>4 DEF L!TakenInLock, L!NotLocked, Holder
  <2>2. CASE ReleaseMutex(t)
    <3>1. Has(t) /\ \A u \in Threads : ~Has(u)'
      BY <2>0, <2>2 DEF ReleaseMutex, Step, Has, OwnerIsHolder
    <3>2. Holders = {t} /\ Holders' = {}
      BY <3>1 DEF Holders, OwnerIsHolder
    <3>3. Holder = t /\ Holder' = NoThread
      BY <3>2 DEF Holder
    <3> QED
      BY <3>3 DEF L!GivenUpInUnlock, L!NotLocked, Holder
  <2>3. CASE ~WaitForSingleObject(t) /\ ~ReleaseMutex(t)
    <3>1. \A u \in Threads : Has(u)' <=> Has(u)
      BY <1>2, <2>0, <2>3 DEF Step, Has, Start, Create, Call, NeedsHandle, Swapped, NotSwapped,
           CreateMutex, AssertNoHandle, Publish, ResetGlobal, LockIt, HasHandle, ReadHandle,
           NoteOwner, Unlock, ForgetOwner
    <3>2. Holders' = Holders
      BY <3>1 DEF Holders
    <3> QED
      BY <3>2 DEF Holder
  <2> QED
    BY <2>1, <2>2, <2>3
<1> QED
  BY <1>1, <1>2 DEF Next

\* engone::Mutex implements the lock the compiler expects it to be, when the
\* main thread has locked it before it starts other threads.
THEOREM LockImplemented == LockedBefore => (Spec => ImplementsLock)
<1> SUFFICES ASSUME LockedBefore PROVE Spec => ImplementsLock
  OBVIOUS
<1>1. Init => L!NotLocked
  BY DEF Init, Has, Holders, Holder, L!NotLocked
<1>2. IInv => OwnerIsHolder
  BY DEF IInv, KernelMutexIsHeld, Has, OwnerRuns, OwnerIsHolder
<1>3. IInv /\ IInv' /\ OwnerIsHolder /\ OwnerIsHolder' /\ [Next]_vars
        => [L!TakenInLock \/ L!GivenUpInUnlock]_Holder
  BY StepImplements
<1>4. IInv /\ [Next]_vars => IInv'
  BY InvStep
<1>5. Spec => L!NotLocked /\ [][L!TakenInLock \/ L!GivenUpInUnlock]_Holder
  BY <1>1, <1>2, <1>3, <1>4, InvInit, PTL DEF Spec
<1> QED
  BY <1>5 DEF ImplementsLock, L!Exclusive, Holder
=============================================================================
