------------------------- MODULE BodyCheckingProofs -------------------------
(***************************************************************************)
(* What holds of the checking of bodies for any number of threads and any  *)
(* program: the flags keep threads out of each other's functions.  And for *)
(* one thread: type parameters stand for the right types.                  *)
(***************************************************************************)
EXTENDS BodyChecking, FiniteSetTheorems, SequenceTheorems, TLAPS

-----------------------------------------------------------------------------
(* Types.                                                                   *)
Labels == {"select", "scope", "statement", "checked", "lookup", "search", "compare", "take",
           "version", "write", "signature", "release", "add", "queue", "count", "done"}
TypeOrNone == Types \cup {None}
FuncImpl == [function : Functions, type : TypeOrNone, struct : TypeOrNone, polyVersion : Nat]
PolyState == [type : TypeOrNone, struct : TypeOrNone]
Wanted == [how : {"explicit", "implicit", "construct"}, function : Functions,
           type : TypeOrNone, struct : TypeOrNone]
Instances == 1..Len(impls)

SharedTypes ==
    /\ program \in Programs
    /\ impls \in Seq(FuncImpl) /\ tasks \in Seq(Instances)
    /\ used \subseteq Instances /\ checked \subseteq Instances /\ rechecked \subseteq Instances
    /\ polyVersionCount \in [Functions -> Nat]
    /\ is_being_checked \subseteq Functions \cup Structs
    /\ virtualType \in [Functions \cup Structs -> TypeOrNone]
    /\ polyStates \in [Functions -> Seq(PolyState)]

LocalTypes ==
    /\ pc \in [Threads -> Labels]
    /\ cur \in [Threads -> Nat] /\ at \in [Threads -> Nat \ {0}]
    /\ want \in [Threads -> Wanted \cup {None}]
    /\ fresh \in [Threads -> Nat] /\ got \in [Threads -> Nat] /\ tries \in [Threads -> Nat]

\* What a thread's own variables hold depends on where it is.
InCall(t) == pc[t] \in {"lookup", "search", "compare", "take", "version", "write",
                        "signature", "release", "add", "queue", "count"}
LocalOK(t) ==
    /\ InBody(t) => cur[t] \in Instances
    /\ InCall(t) => want[t] \in Wanted
    /\ pc[t] \in {"queue", "count"} => got[t] \in Instances

TypeOK == SharedTypes /\ LocalTypes /\ \A t \in Threads : LocalOK(t)

\* The fields of a program.
LEMMA ProgramFields ==
    ASSUME program \in Programs
    PROVE  /\ program.parent \in [Functions -> Structs \cup {None}]
           /\ program.body \in [Functions -> Seq(Call)]
           /\ program.start \in Seq(Functions)
           /\ program.threads \subseteq Threads
  BY ProgramsAssumption DEF ProgramType

\* A step of one thread leaves the program and the other threads' variables alone.
LEMMA OthersUnchanged ==
    ASSUME LocalTypes, NEW t \in Threads, Step(t)
    PROVE  /\ program' = program
           /\ \A u \in Threads \ {t} :
                 /\ pc'[u] = pc[u] /\ cur'[u] = cur[u] /\ at'[u] = at[u] /\ want'[u] = want[u]
                 /\ fresh'[u] = fresh[u] /\ got'[u] = got[u] /\ tries'[u] = tries[u]
<1> USE DEF LocalTypes, Goto, AssertFails, local
<1>1. CASE Select(t) \/ Finish(t) \/ CheckFunctionScope(t) \/ LeaveScope(t) \/ BodyDone(t)
  BY <1>1 DEF Select, Finish, CheckFunctionScope, LeaveScope, BodyDone
<1>2. CASE CallStep(t)
  BY <1>2 DEF CallStep, CheckCall, Found, TwoFound, Missing, Search, Compare, Resolved
<1>3. CASE InstanceStep(t)
  BY <1>3 DEF InstanceStep, Take, Wait, ReadVersion, WriteVersion, CheckFunctionSignature,
              Release, addPolyImplOverload, addTask_type_body, CountUsage, Resolved
<1>4. QED
  BY <1>1, <1>2, <1>3 DEF Step

\* Setting the parameters of a function, and putting them back.
LEMMA PushTypes ==
    ASSUME SharedTypes, NEW fn \in Functions, NEW ty \in TypeOrNone, NEW st \in TypeOrNone,
           pushPolyState(fn, ty, st)
    PROVE  /\ virtualType' \in [Functions \cup Structs -> TypeOrNone]
           /\ polyStates' \in [Functions -> Seq(PolyState)]
<1>1. StructType(fn) \in TypeOrNone
  BY ProgramFields DEF SharedTypes, StructType, TypeOrNone
<1>2. With(fn, ty, st) \in [Functions \cup Structs -> TypeOrNone]
  BY DEF With, SharedTypes
<1>3. [type |-> virtualType[fn], struct |-> StructType(fn)] \in PolyState
  BY <1>1 DEF SharedTypes, PolyState
<1>4. Append(polyStates[fn], [type |-> virtualType[fn], struct |-> StructType(fn)])
        \in Seq(PolyState)
  BY <1>3, AppendProperties DEF SharedTypes
<1>5. QED
  BY <1>2, <1>4 DEF pushPolyState, SharedTypes

LEMMA FrontLast ==
    ASSUME NEW X, NEW s \in Seq(X), s # <<>>
    PROVE  Last(s) \in X /\ Front(s) \in Seq(X)
<1>1. Len(s) \in Nat \ {0}
  BY EmptySeq
<1>2. Last(s) \in X
  BY <1>1, ElementOfSeq DEF Last
<1>3. Front(s) \in Seq(X)
  BY <1>1, SubSeqProperties DEF Front
<1>4. QED
  BY <1>2, <1>3

LEMMA PopTypes ==
    ASSUME SharedTypes, NEW fn \in Functions, popPolyState(fn)
    PROVE  /\ virtualType' \in [Functions \cup Structs -> TypeOrNone]
           /\ polyStates' \in [Functions -> Seq(PolyState)]
<1>1. CASE Polymorphic(fn)
  <2>1. polyStates[fn] \in Seq(PolyState) /\ polyStates[fn] # <<>>
    BY <1>1 DEF popPolyState, SharedTypes
  <2>2. Before(fn) \in PolyState /\ Front(polyStates[fn]) \in Seq(PolyState)
    BY <2>1, FrontLast DEF Before
  <2>3. With(fn, Before(fn).type, Before(fn).struct) \in [Functions \cup Structs -> TypeOrNone]
    BY <2>2 DEF With, SharedTypes, PolyState
  <2>4. QED
    BY <1>1, <2>2, <2>3 DEF popPolyState, SharedTypes
<1>2. CASE ~Polymorphic(fn)
  BY <1>2 DEF popPolyState, SharedTypes
<1>3. QED
  BY <1>1, <1>2

\* Taking one element out of the queue leaves a queue.
LEMMA RemoveAtType ==
    ASSUME NEW X, NEW s \in Seq(X), NEW k \in 1..Len(s)
    PROVE  RemoveAt(s, k) \in Seq(X)
<1>1. SubSeq(s, 1, k - 1) \in Seq(X)
  BY SubSeqProperties, ElementOfSeq, LenProperties
<1>2. SubSeq(s, k + 1, Len(s)) \in Seq(X)
  BY SubSeqProperties, ElementOfSeq, LenProperties
<1>3. QED
  BY <1>1, <1>2, ConcatProperties DEF RemoveAt

\* The function of the body a thread is in.
LEMMA FunctionType ==
    ASSUME SharedTypes, NEW t \in Threads, cur[t] \in Instances
    PROVE  /\ impls[cur[t]] \in FuncImpl
           /\ Function(t) \in Functions /\ Body(t) \in Seq(Call)
<1>1. impls[cur[t]] \in FuncImpl
  BY ElementOfSeq DEF SharedTypes, Instances
<1>2. Function(t) \in Functions
  BY <1>1 DEF Function, FuncImpl
<1>3. QED
  BY <1>1, <1>2, ProgramFields DEF SharedTypes, Body

\* A call asks for what its type arguments stand for.
LEMMA CheckCallType ==
    ASSUME SharedTypes, LocalTypes, NEW t \in Threads, LocalOK(t), CheckCall(t)
    PROVE  want'[t] \in Wanted /\ want'[t].function \in Functions
           /\ want'[t].how = Body(t)[at[t]].how
<1> DEFINE call == Body(t)[at[t]]
<1>1. cur[t] \in Instances
  BY DEF CheckCall, At, LocalOK, InBody
<1>2. call \in Call
  <2>1. Body(t) \in Seq(Call) /\ at[t] \in 1..Len(Body(t))
    BY <1>1, FunctionType DEF CheckCall, LocalTypes
  <2>2. QED
    BY <2>1, ElementOfSeq
<1>3. \A x \in TypeOrNone \cup {T, S} : Argument(t, x) \in TypeOrNone
  <2>1. Function(t) \in Functions
    BY <1>1, FunctionType
  <2>2. StructType(Function(t)) \in TypeOrNone /\ virtualType[Function(t)] \in TypeOrNone
    BY <2>1, ProgramFields DEF SharedTypes, StructType, TypeOrNone
  <2>3. QED
    BY <2>2 DEF Argument
<1>4. call.type \in TypeOrNone \cup {T, S} /\ call.struct \in TypeOrNone \cup {T, S}
  BY <1>2 DEF Call, TypeOrNone
<1>5. [call EXCEPT !.type = Argument(t, @), !.struct = Argument(t, @)] \in Wanted
  BY <1>2, <1>3, <1>4 DEF Call, Wanted
<1>6. want'[t] = [call EXCEPT !.type = Argument(t, @), !.struct = Argument(t, @)]
  BY DEF CheckCall, LocalTypes
<1>7. QED
  BY <1>2, <1>5, <1>6 DEF Wanted, Call

-----------------------------------------------------------------------------
\* At the start.
LEMMA PlainImplsType ==
    ASSUME NEW p \in Programs
    PROVE  /\ PlainImpls(p) \in Seq(FuncImpl)
           /\ \A i \in DOMAIN PlainImpls(p) :
                 /\ PlainImpls(p)[i].polyVersion = 0
                 /\ PlainImpls(p)[i].type = None /\ PlainImpls(p)[i].struct = None
                 /\ {PlainImpls(p)[i].function, p.parent[PlainImpls(p)[i].function]}
                       \cap p.generic = {}
           /\ \A i, k \in DOMAIN PlainImpls(p) :
                 i # k => PlainImpls(p)[i].function # PlainImpls(p)[k].function
           /\ \A fn \in Functions : {fn, p.parent[fn]} \cap p.generic = {} =>
                 \E i \in DOMAIN PlainImpls(p) : PlainImpls(p)[i].function = fn
<1> DEFINE X == {fn \in Functions : {fn, p.parent[fn]} \cap p.generic = {}}
           plain == SetToSeq(X)
<1>1. IsFiniteSet(X)
  BY FS_Subset, FiniteAssumption
<1>2. Cardinality(X) \in Nat /\ ExistsBijection(1..Cardinality(X), X)
  BY <1>1, FS_CardinalityType
<1>3. \E h \in [1..Cardinality(X) -> X] : IsInjective(h)
  BY <1>2 DEF ExistsBijection, Bijection, Injection, IsInjective
<1>4. plain \in [1..Cardinality(X) -> X] /\ IsInjective(plain)
  BY <1>3 DEF SetToSeq
<1>5. \A fn \in X : \E i \in 1..Cardinality(X) : plain[i] = fn
  <2>1. IsFiniteSet(1..Cardinality(X)) /\ Cardinality(1..Cardinality(X)) = Cardinality(X)
    BY <1>2, FS_Interval
  <2>2. plain \in Injection(1..Cardinality(X), X)
    BY <1>4 DEF Injection, IsInjective
  <2>3. plain \in Surjection(1..Cardinality(X), X)
    BY <1>1, <2>1, <2>2, FS_Injection
  <2>4. QED
    BY <2>3 DEF Surjection
<1>6. PlainImpls(p) = [i \in 1..Cardinality(X) |-> Impl(plain[i], None, None, 0)]
  BY <1>4 DEF PlainImpls
<1>7. \A i \in 1..Cardinality(X) : Impl(plain[i], None, None, 0) \in FuncImpl
  BY <1>4 DEF Impl, FuncImpl, TypeOrNone
<1>8. PlainImpls(p) \in Seq(FuncImpl)
  BY <1>2, <1>6, <1>7, SeqDef
<1> HIDE DEF plain, X
<1>9. ASSUME NEW i \in DOMAIN PlainImpls(p)
      PROVE  /\ PlainImpls(p)[i] = Impl(plain[i], None, None, 0)
             /\ i \in 1..Cardinality(X) /\ plain[i] \in X
  BY <1>4, <1>6
<1>10. \A i, k \in DOMAIN PlainImpls(p) :
         i # k => PlainImpls(p)[i].function # PlainImpls(p)[k].function
  <2>1. \A i \in DOMAIN PlainImpls(p) : PlainImpls(p)[i].function = plain[i]
    BY <1>9 DEF Impl
  <2>2. DOMAIN PlainImpls(p) = DOMAIN plain
    BY <1>4, <1>6
  <2>3. QED
    BY <1>4, <2>1, <2>2 DEF IsInjective
<1>11. ASSUME NEW fn \in X
       PROVE  \E i \in DOMAIN PlainImpls(p) : PlainImpls(p)[i].function = fn
  <2>1. PICK i \in 1..Cardinality(X) : plain[i] = fn
    BY <1>5
  <2>2. i \in DOMAIN PlainImpls(p)
    BY <1>6
  <2>3. QED
    BY <2>1, <2>2, <1>9 DEF Impl
<1>12. ASSUME NEW i \in DOMAIN PlainImpls(p)
       PROVE  /\ PlainImpls(p)[i].polyVersion = 0
              /\ PlainImpls(p)[i].type = None /\ PlainImpls(p)[i].struct = None
              /\ PlainImpls(p)[i].function \in X
  BY <1>9 DEF Impl
<1>13. QED
  BY <1>8, <1>10, <1>11, <1>12 DEF X

LEMMA TypeInit == Init => TypeOK
<1> SUFFICES ASSUME Init PROVE TypeOK
  OBVIOUS
<1>1. program \in Programs /\ impls \in Seq(FuncImpl)
  BY PlainImplsType DEF Init
<1>2. program.start \in Seq(Functions) /\ program.threads \subseteq Threads
  BY <1>1, ProgramFields
<1>3. Len(impls) \in Nat /\ DOMAIN impls = Instances
  BY <1>1, LenProperties DEF Instances
<1>4. tasks \in Seq(Instances)
  <2>1. Len(program.start) \in Nat /\ DOMAIN program.start = 1..Len(program.start)
    BY <1>2, LenProperties
  <2>2. tasks \in [1..Len(program.start) -> Instances]
    BY <1>3, <2>1 DEF Init
  <2>3. QED
    BY <2>1, <2>2, SeqDef
<1>5. used \subseteq Instances
  BY <1>4, ElementOfSeq, LenProperties DEF Init
<1>6. SharedTypes
  <2>1. polyVersionCount \in [Functions -> Nat]
    BY DEF Init
  <2>2. virtualType \in [Functions \cup Structs -> TypeOrNone]
    BY DEF Init, TypeOrNone
  <2>3. polyStates \in [Functions -> Seq(PolyState)]
    BY EmptySeq DEF Init
  <2>4. QED
    BY <1>1, <1>4, <1>5, <2>1, <2>2, <2>3 DEF Init, SharedTypes
<1>7. LocalTypes
  BY DEF Init, LocalTypes, Labels
<1>8. \A t \in Threads : LocalOK(t)
  BY DEF Init, LocalOK, InBody, InCall
<1>9. QED
  BY <1>6, <1>7, <1>8 DEF TypeOK

-----------------------------------------------------------------------------
\* What a step does to the instances and the queue: instances only come to the
\* end, and what the queue holds are instances.
LEMMA ImplsGrow ==
    ASSUME TypeOK, NEW t \in Threads, Step(t)
    PROVE  /\ impls' \in Seq(FuncImpl) /\ Len(impls') \in Nat
           /\ Len(impls) \in Nat /\ Len(impls') >= Len(impls)
           /\ Instances \subseteq Instances'
           /\ \A i \in Instances : impls'[i] = impls[i]
<1> impls \in Seq(FuncImpl) /\ Len(impls) \in Nat
  BY LenProperties DEF TypeOK, SharedTypes
<1>1. CASE addPolyImplOverload(t)
  <2> DEFINE new == Impl(want[t].function, want[t].type, want[t].struct, fresh[t])
  <2>1. new \in FuncImpl
    BY <1>1 DEF addPolyImplOverload, At, TypeOK, LocalTypes, LocalOK, InCall, Wanted, Impl,
                FuncImpl
  <2>2. impls' = Append(impls, new)
    BY <1>1 DEF addPolyImplOverload
  <2> HIDE DEF new
  <2>3. /\ impls' \in Seq(FuncImpl) /\ Len(impls') = Len(impls) + 1
        /\ \A i \in 1..Len(impls) : impls'[i] = impls[i]
    BY <2>1, <2>2, AppendProperties
  <2>4. QED
    BY <2>3 DEF Instances
<1>2. CASE impls' = impls
  BY <1>2 DEF Instances
<1>3. CASE Select(t) \/ Finish(t) \/ CheckFunctionScope(t) \/ LeaveScope(t) \/ BodyDone(t)
  BY <1>2, <1>3 DEF Select, Finish, CheckFunctionScope, LeaveScope, BodyDone, shared
<1>4. CASE CallStep(t)
  BY <1>2, <1>4 DEF CallStep, CheckCall, Found, TwoFound, Missing, Search, Compare, shared
<1>5. CASE InstanceStep(t)
  BY <1>1, <1>2, <1>5 DEF InstanceStep, Take, Wait, ReadVersion, WriteVersion,
      CheckFunctionSignature, Release, addTask_type_body, CountUsage, shared
<1>6. QED
  BY <1>3, <1>4, <1>5 DEF Step

LEMMA TasksStep ==
    ASSUME TypeOK, NEW t \in Threads, Step(t)
    PROVE  tasks' \in Seq(Instances')
<1>1. tasks \in Seq(Instances) /\ Instances \subseteq Instances'
  BY ImplsGrow DEF TypeOK, SharedTypes
<1>2. \A s \in Seq(Instances) : s \in Seq(Instances')
  BY <1>1, SeqMonotonic
<1>3. CASE Select(t)
  <2>1. PICK k \in DOMAIN tasks : tasks' = RemoveAt(tasks, k)
    BY <1>3 DEF Select
  <2>2. tasks' \in Seq(Instances)
    BY <1>1, <2>1, RemoveAtType, LenProperties
  <2>3. QED
    BY <1>2, <2>2
<1>4. CASE addTask_type_body(t)
  <2>1. got[t] \in Instances
    BY <1>4 DEF addTask_type_body, At, TypeOK, LocalOK
  <2>2. tasks' \in Seq(Instances)
    BY <1>1, <1>4, <2>1, AppendProperties DEF addTask_type_body
  <2>3. QED
    BY <1>2, <2>2
<1>5. CASE tasks' = tasks
  BY <1>1, <1>2, <1>5
<1>6. CASE Finish(t) \/ CheckFunctionScope(t) \/ LeaveScope(t) \/ BodyDone(t)
  BY <1>5, <1>6 DEF Finish, CheckFunctionScope, LeaveScope, BodyDone, shared
<1>7. CASE CallStep(t)
  BY <1>5, <1>7 DEF CallStep, CheckCall, Found, TwoFound, Missing, Search, Compare, shared
<1>8. CASE InstanceStep(t)
  BY <1>4, <1>5, <1>8 DEF InstanceStep, Take, Wait, ReadVersion, WriteVersion,
      CheckFunctionSignature, Release, addPolyImplOverload, CountUsage, shared
<1>9. QED
  BY <1>3, <1>6, <1>7, <1>8 DEF Step

\* Where a thread is tells what it does.
LEMMA WantType ==
    ASSUME TypeOK, NEW t \in Threads, InCall(t)
    PROVE  /\ want[t] \in Wanted /\ want[t].function \in Functions
           /\ want[t].type \in TypeOrNone /\ want[t].struct \in TypeOrNone
           /\ InBody(t) /\ cur[t] \in Instances
  BY DEF TypeOK, LocalOK, InCall, InBody, Wanted

LEMMA FlagsType ==
    ASSUME program \in Programs, NEW fn \in Functions
    PROVE  Flags(fn) \subseteq Functions \cup Structs
  BY ProgramFields DEF Flags

LEMMA SharedStep ==
    ASSUME TypeOK, NEW t \in Threads, Step(t)
    PROVE  SharedTypes'
<1> USE DEF At, TypeOK
<1>1. impls' \in Seq(FuncImpl) /\ tasks' \in Seq(Instances') /\ program' \in Programs
      /\ Instances \subseteq Instances'
  BY ImplsGrow, TasksStep, OthersUnchanged DEF SharedTypes
<1>2. /\ used' \subseteq Instances' /\ checked' \subseteq Instances'
      /\ rechecked' \subseteq Instances'
  <2> USE DEF SharedTypes, LocalOK
  <2>1. CASE UNCHANGED <<used, checks>>
    BY <1>1, <2>1 DEF checks
  <2>2. CASE CheckFunctionScope(t)
    BY <1>1, <2>2 DEF CheckFunctionScope, InBody
  <2>3. CASE Found(t)
    <3>1. Overloads(want[t]) \subseteq Instances
      BY LenProperties DEF Overloads, Exact, Castable, Constructors, Instances
    <3>2. QED
      BY <1>1, <2>3, <3>1 DEF Found, checks
  <2>4. CASE CountUsage(t)
    BY <1>1, <2>4 DEF CountUsage, checks
  <2>5. CASE Select(t) \/ Finish(t) \/ LeaveScope(t) \/ BodyDone(t)
    BY <2>1, <2>5 DEF Select, Finish, LeaveScope, BodyDone, shared
  <2>6. CASE CallStep(t)
    BY <2>1, <2>3, <2>6 DEF CallStep, CheckCall, TwoFound, Missing, Search, Compare, shared
  <2>7. CASE InstanceStep(t)
    BY <2>1, <2>4, <2>7 DEF InstanceStep, Take, Wait, ReadVersion, WriteVersion,
        CheckFunctionSignature, Release, addPolyImplOverload, addTask_type_body, shared
  <2>8. QED
    BY <2>2, <2>5, <2>6, <2>7 DEF Step
<1>3. polyVersionCount' \in [Functions -> Nat]
  <2> USE DEF SharedTypes
  <2>1. CASE WriteVersion(t)
    <3>1. fresh[t] + 1 \in Nat
      BY DEF LocalTypes
    <3>2. polyVersionCount' = [polyVersionCount EXCEPT ![want[t].function] = fresh[t] + 1]
      BY <2>1 DEF WriteVersion
    <3>3. QED
      BY <3>1, <3>2
  <2>2. CASE UNCHANGED polyVersionCount
    BY <2>2
  <2>3. CASE Select(t) \/ Finish(t) \/ CheckFunctionScope(t) \/ LeaveScope(t) \/ BodyDone(t)
    BY <2>2, <2>3 DEF Select, Finish, CheckFunctionScope, LeaveScope, BodyDone, shared
  <2>4. CASE CallStep(t)
    BY <2>2, <2>4 DEF CallStep, CheckCall, Found, TwoFound, Missing, Search, Compare, shared
  <2>5. CASE InstanceStep(t)
    BY <2>1, <2>2, <2>5 DEF InstanceStep, Take, Wait, ReadVersion,
        CheckFunctionSignature, Release, addPolyImplOverload, addTask_type_body, CountUsage,
        shared
  <2>6. QED
    BY <2>3, <2>4, <2>5 DEF Step
<1>4. is_being_checked' \subseteq Functions \cup Structs
  <2> USE DEF SharedTypes
  <2>1. CASE Select(t)
    <3>1. PICK k \in DOMAIN tasks :
            is_being_checked' = is_being_checked \cup Flags(impls[tasks[k]].function)
      BY <2>1 DEF Select
    <3>2. tasks[k] \in Instances
      BY ElementOfSeq, LenProperties
    <3>3. impls[tasks[k]] \in FuncImpl
      BY <3>2, ElementOfSeq DEF Instances
    <3>4. QED
      BY <3>1, <3>3, FlagsType DEF FuncImpl
  <2>2. CASE Take(t)
    BY <2>2, WantType, FlagsType DEF Take, InCall
  <2>3. CASE UNCHANGED is_being_checked \/ Release(t) \/ BodyDone(t)
    BY <2>3 DEF Release, BodyDone
  <2>4. CASE Finish(t) \/ CheckFunctionScope(t) \/ LeaveScope(t)
    BY <2>3, <2>4 DEF Finish, CheckFunctionScope, LeaveScope, shared
  <2>5. CASE CallStep(t)
    BY <2>3, <2>5 DEF CallStep, CheckCall, Found, TwoFound, Missing, Search, Compare, shared
  <2>6. CASE InstanceStep(t)
    BY <2>2, <2>3, <2>6 DEF InstanceStep, Wait, ReadVersion, WriteVersion,
        CheckFunctionSignature, addPolyImplOverload, addTask_type_body, CountUsage, shared
  <2>7. QED
    BY <2>1, <2>3, <2>4, <2>5, <2>6 DEF Step
<1>5. /\ virtualType' \in [Functions \cup Structs -> TypeOrNone]
      /\ polyStates' \in [Functions -> Seq(PolyState)]
  <2>1. CASE UNCHANGED parameters
    BY <2>1 DEF parameters, SharedTypes
  <2>2. CASE CheckFunctionScope(t) \/ LeaveScope(t)
    <3>1. Function(t) \in Functions /\ impls[cur[t]] \in FuncImpl
      BY <2>2, FunctionType DEF CheckFunctionScope, LeaveScope, LocalOK, InBody
    <3>2. CASE CheckFunctionScope(t)
      BY <3>1, <3>2, PushTypes DEF CheckFunctionScope, FuncImpl
    <3>3. CASE LeaveScope(t)
      BY <3>1, <3>3, PopTypes DEF LeaveScope
    <3>4. QED
      BY <2>2, <3>2, <3>3
  <2>3. CASE Search(t) \/ WriteVersion(t)
    BY <2>3, WantType, PushTypes DEF Search, WriteVersion, InCall
  <2>4. CASE Compare(t) \/ CheckFunctionSignature(t)
    BY <2>4, WantType, PopTypes DEF Compare, CheckFunctionSignature, InCall
  <2>5. CASE Select(t) \/ Finish(t) \/ BodyDone(t)
    BY <2>1, <2>5 DEF Select, Finish, BodyDone, shared
  <2>6. CASE CallStep(t)
    BY <2>1, <2>3, <2>4, <2>6 DEF CallStep, CheckCall, Found, TwoFound, Missing, shared
  <2>7. CASE InstanceStep(t)
    BY <2>1, <2>3, <2>4, <2>7 DEF InstanceStep, Take, Wait, ReadVersion,
        Release, addPolyImplOverload, addTask_type_body, CountUsage, shared
  <2>8. QED
    BY <2>2, <2>5, <2>6, <2>7 DEF Step
<1>6. QED
  BY <1>1, <1>2, <1>3, <1>4, <1>5 DEF SharedTypes

LEMMA ResolvedType ==
    ASSUME LocalTypes, NEW t \in Threads, NEW i \in Nat, Resolved(t, i)
    PROVE  /\ got' \in [Threads -> Nat] /\ at' \in [Threads -> Nat \ {0}]
           /\ pc' = [pc EXCEPT ![t] = "statement"] /\ got'[t] = i
<1>1. at[t] + 1 \in Nat \ {0}
  BY DEF LocalTypes
<1>2. at' \in [Threads -> Nat \ {0}]
  BY <1>1 DEF Resolved, LocalTypes
<1>3. QED
  BY <1>2 DEF Resolved, LocalTypes, Goto

LEMMA LocalStep ==
    ASSUME TypeOK, NEW t \in Threads, Step(t)
    PROVE  LocalTypes' /\ LocalOK(t)'
<1> USE DEF At, Goto, LocalTypes, LocalOK, InBody, InCall, Labels
<1> impls \in Seq(FuncImpl) /\ LocalTypes /\ SharedTypes /\ LocalOK(t)
  BY DEF TypeOK, SharedTypes
<1>1. Instances \subseteq Instances' /\ Instances \subseteq Nat
  BY ImplsGrow DEF Instances
<1>2. CASE Select(t)
  <2>1. PICK k \in DOMAIN tasks : cur' = [cur EXCEPT ![t] = tasks[k]]
    BY <1>2 DEF Select
  <2>2. tasks[k] \in Instances
    BY ElementOfSeq, LenProperties DEF SharedTypes
  <2>3. QED
    BY <1>1, <1>2, <2>1, <2>2 DEF Select
<1>3. CASE Finish(t) \/ LeaveScope(t) \/ BodyDone(t)
  BY <1>1, <1>3 DEF Finish, LeaveScope, BodyDone, local
<1>4. CASE CheckFunctionScope(t)
  BY <1>1, <1>4 DEF CheckFunctionScope
<1>5. CASE CheckCall(t)
  <2>1. want'[t] \in Wanted
    BY <1>5, CheckCallType
  <2>2. want' \in [Threads -> Wanted \cup {None}]
    BY <1>5, <2>1 DEF CheckCall
  <2>3. QED
    BY <1>1, <1>5, <2>1, <2>2 DEF CheckCall
<1>6. CASE Found(t)
  <2>1. PICK i \in Overloads(want[t]) :
          \/ Resolved(t, i) \/ (got' = [got EXCEPT ![t] = i] /\ Goto(t, "queue") /\ at' = at)
    BY <1>6 DEF Found
  <2>2. i \in Instances
    BY LenProperties DEF Overloads, Exact, Castable, Constructors, Instances
  <2>3. CASE Resolved(t, i)
    BY <1>1, <1>6, <2>2, <2>3, ResolvedType DEF Found
  <2>4. CASE got' = [got EXCEPT ![t] = i] /\ Goto(t, "queue") /\ at' = at
    BY <1>1, <1>6, <2>2, <2>4 DEF Found
  <2>5. QED
    BY <2>1, <2>3, <2>4
<1>7. CASE TwoFound(t) \/ Missing(t) \/ Search(t) \/ Compare(t)
  <2>1. CASE TwoFound(t) \/ Search(t) \/ Compare(t)
    BY <1>1, <2>1 DEF TwoFound, AssertFails, Search, Compare, shared, local
  <2>2. CASE Missing(t)
    BY <1>1, <2>2 DEF Missing, shared
  <2>3. QED
    BY <1>7, <2>1, <2>2
<1>8. CASE Take(t) \/ Wait(t)
  <2>1. CASE Take(t)
    BY <1>1, <2>1 DEF Take, local
  <2>2. CASE Wait(t)
    <3>1. tries[t] + 1 \in Nat
      OBVIOUS
    <3>2. tries' \in [Threads -> Nat]
      BY <2>2, <3>1 DEF Wait
    <3>3. QED
      BY <1>1, <2>2, <3>2 DEF Wait, AssertFails, shared
  <2>3. QED
    BY <1>8, <2>1, <2>2
<1>9. CASE ReadVersion(t)
  BY <1>1, <1>9, WantType DEF ReadVersion, shared, SharedTypes
<1>10. CASE WriteVersion(t) \/ CheckFunctionSignature(t) \/ Release(t)
  BY <1>1, <1>10 DEF WriteVersion, CheckFunctionSignature, Release, local
<1>11. CASE addPolyImplOverload(t)
  <2>1. Len(impls) + 1 \in Instances'
    <3>1. Len(impls) \in Nat
      BY LenProperties
    <3>2. Len(impls') = Len(impls) + 1
      BY <1>11, LenProperties, AppendProperties DEF addPolyImplOverload
    <3>3. QED
      BY <3>1, <3>2 DEF Instances
  <2>2. Len(impls) + 1 \in Nat
    BY LenProperties
  <2>3. QED
    BY <1>1, <1>11, <2>1, <2>2 DEF addPolyImplOverload
<1>12. CASE addTask_type_body(t)
  BY <1>1, <1>12 DEF addTask_type_body, local
<1>13. CASE CountUsage(t)
  <2>1. CASE MoreThanOneMatch(want[t])
    BY <1>1, <1>13, <2>1 DEF CountUsage, AssertFails
  <2>2. CASE ~MoreThanOneMatch(want[t])
    <3>1. Resolved(t, got[t])
      BY <1>13, <2>2 DEF CountUsage
    <3>2. QED
      BY <1>1, <1>13, <3>1, ResolvedType DEF CountUsage
  <2>3. QED
    BY <2>1, <2>2
<1>14. QED
  BY <1>2, <1>3, <1>4, <1>5, <1>6, <1>7, <1>8, <1>9, <1>10, <1>11, <1>12, <1>13
  DEF Step, CallStep, InstanceStep

LEMMA TypeStep ==
    ASSUME TypeOK, [Next]_vars
    PROVE  TypeOK'
<1>1. ASSUME NEW t \in Threads, Step(t) PROVE TypeOK'
  <2>1. SharedTypes' /\ LocalTypes' /\ LocalOK(t)'
    BY <1>1, SharedStep, LocalStep
  <2>2. ASSUME NEW u \in Threads \ {t} PROVE LocalOK(u)'
    <3>1. Instances \subseteq Instances'
      BY <1>1, ImplsGrow
    <3>2. pc'[u] = pc[u] /\ cur'[u] = cur[u] /\ want'[u] = want[u] /\ got'[u] = got[u]
      BY <1>1, OthersUnchanged DEF TypeOK
    <3>3. QED
      BY <3>1, <3>2 DEF TypeOK, LocalOK, InBody, InCall
  <2>3. QED
    BY <2>1, <2>2 DEF TypeOK
<1>2. CASE UNCHANGED vars
  BY <1>2 DEF vars, shared, checks, parameters, local, TypeOK, SharedTypes, LocalTypes, LocalOK,
              InBody, InCall, Instances
<1>3. QED
  BY <1>1, <1>2 DEF Next

\* TYPE CORRECTNESS.  A thread in a body has an instance, the queue holds nothing
\* but instances, and a call asks for types, never for a parameter that stands for
\* nothing it could name.
THEOREM TypeCorrect == Spec => []TypeOK
<1>1. Init => TypeOK
  BY TypeInit
<1>2. TypeOK /\ [Next]_vars => TypeOK'
  BY TypeStep
<1>3. QED
  BY <1>1, <1>2, PTL DEF Spec

-----------------------------------------------------------------------------
(* The flags.  construct() and destruct() make instances without them, so   *)
(* this is about programs that do not call these for a polymorphic struct.  *)
NoConstruct ==
    \A p \in Programs : \A fn \in Functions : \A k \in DOMAIN p.body[fn] :
        p.body[fn][k].how # "construct"

\* What a thread checks has its flag, and it does not compute a signature of the
\* function it is in: or clearing the flag of the one would clear the other's.
FlagsHeld == \A t \in Threads : Checks(t) \subseteq is_being_checked
TakesAnother == \A t \in Threads : InSignature(t) => want[t].function # Function(t)
NoneConstructed == \A t \in Threads : InCall(t) => want[t].how # "construct"
FlagsInv == FlagsHeld /\ TakesAnother /\ NoneConstructed /\ OneChecker

\* What a thread checks are functions, so no struct's flag.
LEMMA ChecksType ==
    ASSUME TypeOK, NEW t \in Threads
    PROVE  /\ Checks(t) \subseteq Functions
           /\ InBody(t) => Function(t) \in Functions
           /\ InSignature(t) => InBody(t) /\ InCall(t) /\ want[t].function \in Functions
<1>1. InBody(t) => Function(t) \in Functions
  BY FunctionType DEF TypeOK, LocalOK
<1>2. InSignature(t) => InBody(t) /\ InCall(t) /\ want[t].function \in Functions
  BY WantType DEF InSignature, InCall
<1>3. QED
  BY <1>1, <1>2 DEF Checks

\* What the others check stays the same.
LEMMA OthersCheck ==
    ASSUME TypeOK, NEW t \in Threads, Step(t), NEW u \in Threads \ {t}
    PROVE  /\ Checks(u)' = Checks(u)
           /\ (InBody(u) <=> InBody(u)') /\ (InSignature(u) <=> InSignature(u)')
           /\ InBody(u) => Function(u)' = Function(u)
           /\ want'[u] = want[u] /\ fresh'[u] = fresh[u] /\ pc'[u] = pc[u]
<1>1. pc'[u] = pc[u] /\ cur'[u] = cur[u] /\ want'[u] = want[u] /\ fresh'[u] = fresh[u]
  BY OthersUnchanged DEF TypeOK
<1>2. InBody(u) => Function(u)' = Function(u)
  BY <1>1, ImplsGrow DEF TypeOK, LocalOK, Function
<1>3. QED
  BY <1>1, <1>2 DEF Checks, InBody, InSignature

\* A step that takes no flag and gives none back goes on with what the thread has.
LEMMA QuietStep ==
    ASSUME TypeOK, FlagsInv, NEW t \in Threads, Step(t), is_being_checked' = is_being_checked,
           InBody(t)' => InBody(t) /\ cur'[t] = cur[t],
           InSignature(t)' => InSignature(t) /\ want'[t] = want[t],
           InCall(t)' => want'[t].how # "construct"
    PROVE  FlagsInv'
<1>1. InBody(t)' => Function(t)' = Function(t)
  BY ImplsGrow DEF TypeOK, LocalOK, Function
<1>2. Checks(t)' \subseteq Checks(t)
  BY <1>1 DEF Checks
<1>3. FlagsHeld'
  BY <1>2, OthersCheck DEF FlagsInv, FlagsHeld
<1>4. TakesAnother'
  BY <1>1, OthersCheck, ChecksType DEF FlagsInv, TakesAnother, InSignature, InBody
<1>5. NoneConstructed'
  BY OthersCheck DEF FlagsInv, NoneConstructed, InCall
<1>6. OneChecker'
  BY <1>2, OthersCheck DEF FlagsInv, OneChecker
<1>7. QED
  BY <1>3, <1>4, <1>5, <1>6 DEF FlagsInv

\* A flag a thread gives back is not one that another thread, or itself, needs.
LEMMA GiveBack ==
    ASSUME TypeOK, FlagsInv, NEW t \in Threads, Step(t), NEW fn \in Functions,
           fn \in Checks(t), is_being_checked' = is_being_checked \ Flags(fn),
           Checks(t)' \subseteq Checks(t) \ {fn}, ~InSignature(t)',
           InCall(t)' => want'[t].how # "construct"
    PROVE  FlagsInv'
<1>1. Flags(fn) \cap Functions \subseteq {fn}
  BY ProgramFields, NamesAssumption DEF Flags, TypeOK, SharedTypes
<1>2. \A u \in Threads : Checks(u)' \subseteq Functions /\ fn \notin Checks(u)'
  BY ChecksType, OthersCheck DEF FlagsInv, OneChecker
<1>3. \A u \in Threads : Checks(u)' \subseteq Checks(u)
  BY OthersCheck
<1>4. FlagsHeld'
  BY <1>1, <1>2, <1>3 DEF FlagsInv, FlagsHeld
<1>5. TakesAnother'
  BY OthersCheck, ChecksType DEF FlagsInv, TakesAnother
<1>6. NoneConstructed'
  BY OthersCheck DEF FlagsInv, NoneConstructed, InCall
<1>7. OneChecker'
  BY <1>3 DEF FlagsInv, OneChecker
<1>8. QED
  BY <1>4, <1>5, <1>6, <1>7 DEF FlagsInv

\* A flag a thread takes is that of a function no thread was checking.
LEMMA TakeFlag ==
    ASSUME TypeOK, FlagsInv, NEW t \in Threads, Step(t), NEW fn \in Functions,
           fn \notin is_being_checked, is_being_checked \cup {fn} \subseteq is_being_checked',
           Checks(t)' \subseteq Checks(t) \cup {fn},
           InSignature(t)' => want'[t].function # Function(t)',
           InCall(t)' => want'[t].how # "construct"
    PROVE  FlagsInv'
<1>1. \A u \in Threads \ {t} : Checks(u)' = Checks(u) /\ fn \notin Checks(u)
  BY OthersCheck DEF FlagsInv, FlagsHeld
<1>2. FlagsHeld'
  BY <1>1 DEF FlagsInv, FlagsHeld
<1>3. TakesAnother'
  BY OthersCheck, ChecksType DEF FlagsInv, TakesAnother
<1>4. NoneConstructed'
  BY OthersCheck DEF FlagsInv, NoneConstructed, InCall
<1>5. OneChecker'
  BY <1>1 DEF FlagsInv, OneChecker
<1>6. QED
  BY <1>2, <1>3, <1>4, <1>5 DEF FlagsInv

LEMMA FlagsStep ==
    ASSUME NoConstruct, TypeOK, FlagsInv, NEW t \in Threads, Step(t)
    PROVE  FlagsInv'
<1> pc \in [Threads -> Labels] /\ cur \in [Threads -> Nat] /\ LocalTypes /\ SharedTypes
    /\ LocalOK(t)
  BY DEF TypeOK, LocalTypes
<1> InCall(t) => want[t].how # "construct"
  BY DEF FlagsInv, NoneConstructed
<1>1. CASE Select(t)
  <2>1. PICK k \in DOMAIN tasks :
          /\ Pickable(tasks[k]) /\ cur' = [cur EXCEPT ![t] = tasks[k]]
          /\ is_being_checked' = is_being_checked \cup Flags(impls[tasks[k]].function)
    BY <1>1 DEF Select
  <2> DEFINE fn == impls[tasks[k]].function
  <2>2. tasks[k] \in Instances /\ impls' = impls
    BY <1>1, ElementOfSeq, LenProperties DEF Select, SharedTypes
  <2>3. fn \in Functions
    <3>1. impls[tasks[k]] \in FuncImpl
      BY <2>2, ElementOfSeq DEF Instances, SharedTypes
    <3>2. QED
      BY <3>1 DEF FuncImpl
  <2>4. cur'[t] = tasks[k] /\ pc'[t] = "scope"
    BY <1>1, <2>1 DEF Select, Goto
  <2>5. Checks(t)' = {fn} /\ ~InSignature(t)' /\ ~InCall(t)'
    BY <2>2, <2>4 DEF Checks, InBody, InSignature, InCall, Function
  <2>6. fn \notin is_being_checked /\ is_being_checked \cup {fn} \subseteq is_being_checked'
    BY <2>1, <2>3, NamesAssumption, ProgramFields DEF Pickable, Untouched, Flags, SharedTypes
  <2> HIDE DEF fn
  <2>7. QED
    BY <2>3, <2>5, <2>6, TakeFlag
<1>2. CASE Take(t)
  <2> DEFINE fn == want[t].function
  <2>1. /\ pc[t] = "take" /\ pc'[t] = "version" /\ want' = want /\ cur' = cur
        /\ impls' = impls /\ is_being_checked' = is_being_checked \cup Flags(fn)
    BY <1>2 DEF Take, At, Goto, local
  <2>2. InBody(t) /\ InBody(t)' /\ InCall(t) /\ InCall(t)' /\ Function(t)' = Function(t)
    BY <2>1 DEF InBody, InCall, Function
  <2>3. fn \in Functions /\ fn \notin is_being_checked /\ fn \in Flags(fn)
    BY <1>2, <2>2, WantType, NamesAssumption DEF Take, BeingChecked, Flags
  <2>4. fn # Function(t)
    BY <2>2, <2>3 DEF FlagsInv, FlagsHeld, Checks
  <2>5. Checks(t)' \subseteq Checks(t) \cup {fn}
    BY <2>1, <2>2 DEF Checks
  <2>6. want'[t].function # Function(t)' /\ want'[t].how # "construct"
    BY <2>1, <2>2, <2>4
  <2> HIDE DEF fn
  <2>7. QED
    BY <2>1, <2>3, <2>5, <2>6, TakeFlag
<1>3. CASE BodyDone(t)
  <2>1. /\ pc[t] = "checked" /\ pc'[t] = "select"
        /\ is_being_checked' = is_being_checked \ Flags(Function(t))
    BY <1>3 DEF BodyDone, At, Goto
  <2>2. InBody(t) /\ Checks(t)' = {} /\ Function(t) \in Checks(t) /\ ~InSignature(t)'
        /\ ~InCall(t)'
    BY <2>1 DEF Checks, InBody, InSignature, InCall
  <2>3. QED
    BY <2>1, <2>2, GiveBack, ChecksType
<1>4. CASE Release(t)
  <2>1. /\ pc[t] = "release" /\ pc'[t] = "add" /\ want' = want /\ cur' = cur
        /\ impls' = impls /\ is_being_checked' = is_being_checked \ Flags(want[t].function)
    BY <1>4 DEF Release, At, Goto, local
  <2>2. InBody(t) /\ InSignature(t) /\ InCall(t) /\ InBody(t)' /\ ~InSignature(t)'
    BY <2>1 DEF InBody, InSignature, InCall
  <2>3. want[t].function # Function(t) /\ Function(t)' = Function(t)
    BY <2>1, <2>2 DEF FlagsInv, TakesAnother, Function
  <2>4. Checks(t)' \subseteq Checks(t) \ {want[t].function} /\ want[t].function \in Checks(t)
    BY <2>2, <2>3 DEF Checks
  <2>5. want[t].function \in Functions
    BY <2>2, WantType
  <2>6. want'[t].how # "construct"
    BY <2>1, <2>2
  <2>7. QED
    BY <2>1, <2>2, <2>4, <2>5, <2>6, GiveBack
<1>5. CASE CheckCall(t)
  <2>1. want'[t].how # "construct"
    <3>1. cur[t] \in Instances /\ at[t] \in DOMAIN Body(t)
      BY <1>5, FunctionType, LenProperties DEF CheckCall, At, LocalOK, InBody, LocalTypes
    <3>2. want'[t].how = Body(t)[at[t]].how
      BY <1>5, CheckCallType
    <3>3. Body(t)[at[t]].how # "construct"
      BY <3>1, FunctionType DEF NoConstruct, Body, SharedTypes
    <3>4. QED
      BY <3>2, <3>3
  <2>2. /\ is_being_checked' = is_being_checked /\ cur' = cur
        /\ pc[t] = "statement" /\ pc'[t] = "lookup"
    BY <1>5 DEF CheckCall, At, Goto, shared
  <2>3. InBody(t) /\ ~InSignature(t)'
    BY <2>2 DEF InBody, InSignature
  <2>4. QED
    BY <2>1, <2>2, <2>3, QuietStep
<1>6. CASE Missing(t) \/ Found(t) \/ CountUsage(t) \/ addPolyImplOverload(t)
             \/ CheckFunctionSignature(t)
  <2>1. /\ is_being_checked' = is_being_checked /\ cur' = cur /\ want' = want
        /\ InBody(t) /\ InCall(t)
    BY <1>6 DEF Missing, Found, CountUsage, addPolyImplOverload, CheckFunctionSignature, At,
                shared, local, InBody, InCall
  <2>2. InSignature(t)' => InSignature(t)
    BY <1>6, <2>1 DEF Missing, Found, CountUsage, addPolyImplOverload, CheckFunctionSignature,
                      At, Goto, AssertFails, Resolved, InSignature
  <2>3. want'[t].how # "construct"
    BY <2>1
  <2>4. QED
    BY <2>1, <2>2, <2>3, QuietStep
<1>7. CASE CheckFunctionScope(t) \/ LeaveScope(t) \/ Finish(t) \/ TwoFound(t)
  <2>1. /\ is_being_checked' = is_being_checked /\ cur' = cur
        /\ ~InSignature(t)' /\ ~InCall(t)'
    BY <1>7 DEF CheckFunctionScope, LeaveScope, Finish, TwoFound, At, Goto, AssertFails,
                shared, local, InSignature, InCall
  <2>2. InBody(t)' => InBody(t)
    BY <1>7 DEF CheckFunctionScope, LeaveScope, Finish, TwoFound, At, Goto, AssertFails, InBody
  <2>3. QED
    BY <2>1, <2>2, QuietStep
<1>8. CASE Search(t) \/ Compare(t) \/ Wait(t) \/ ReadVersion(t) \/ WriteVersion(t)
             \/ addTask_type_body(t)
  <2>1. /\ is_being_checked' = is_being_checked /\ cur' = cur /\ want' = want
        /\ InBody(t) /\ InCall(t)
    BY <1>8 DEF Search, Compare, Wait, ReadVersion, WriteVersion, addTask_type_body, At,
                shared, local, InBody, InCall
  <2>2. InSignature(t)' => InSignature(t)
    BY <1>8 DEF Search, Compare, Wait, ReadVersion, WriteVersion, addTask_type_body, At, Goto,
                AssertFails, InSignature
  <2>3. want'[t].how # "construct"
    BY <2>1
  <2>4. QED
    BY <2>1, <2>2, <2>3, QuietStep
<1>9. QED
  BY <1>1, <1>2, <1>3, <1>4, <1>5, <1>6, <1>7, <1>8 DEF Step, CallStep, InstanceStep

LEMMA FlagsInit == Init => FlagsInv
<1> SUFFICES ASSUME Init PROVE FlagsInv
  OBVIOUS
<1>1. \A t \in Threads : ~InBody(t) /\ ~InSignature(t) /\ ~InCall(t)
  BY DEF Init, InBody, InSignature, InCall
<1>2. \A t \in Threads : Checks(t) = {}
  BY <1>1 DEF Checks
<1>3. QED
  BY <1>1, <1>2 DEF FlagsInv, FlagsHeld, TakesAnother, NoneConstructed, OneChecker

LEMMA FlagsInvariant ==
    ASSUME NoConstruct
    PROVE  Spec => [](TypeOK /\ FlagsInv)
<1>1. Init => TypeOK /\ FlagsInv
  BY TypeInit, FlagsInit
<1>2. TypeOK /\ FlagsInv /\ [Next]_vars => (TypeOK /\ FlagsInv)'
  <2> SUFFICES ASSUME TypeOK, FlagsInv, [Next]_vars PROVE (TypeOK /\ FlagsInv)'
    OBVIOUS
  <2>1. TypeOK'
    BY TypeStep
  <2>2. CASE Next
    BY <2>1, <2>2, FlagsStep DEF Next
  <2>3. CASE UNCHANGED vars
    <3>1. FlagsInv'
      BY <2>3 DEF vars, shared, local, FlagsInv, FlagsHeld, TakesAnother, NoneConstructed,
                  OneChecker, Checks, InBody, InSignature, InCall, Function
    <3>2. QED
      BY <2>1, <3>1
  <2>4. QED
    BY <2>2, <2>3
<1>3. QED
  BY <1>1, <1>2, PTL DEF Spec

\* ONE THREAD PER FUNCTION.  Whatever the programs and however many threads, as long
\* as no construct() or destruct() is called, two threads are never in the body or
\* the signature of the same function.
THEOREM OneCheckerCorrect ==
    ASSUME NoConstruct
    PROVE  Spec => []OneChecker
<1>1. FlagsInv => OneChecker
  BY DEF FlagsInv
<1>2. QED
  BY <1>1, FlagsInvariant, PTL

-----------------------------------------------------------------------------
(* The versions.                                                            *)
\* A thread that holds a version that is not yet an instance's.
Holds(t) == pc[t] \in {"signature", "release", "add"}

VersionsBelow == \A i \in Instances :
    impls[i].polyVersion < polyVersionCount[impls[i].function]
FreshIsNew == \A t \in Threads : Holds(t) =>
    /\ fresh[t] < polyVersionCount[want[t].function]
    /\ \A i \in Instances :
          impls[i].function = want[t].function => impls[i].polyVersion # fresh[t]
FreshDiffer == \A t, u \in Threads :
    t # u /\ Holds(t) /\ Holds(u) /\ want[t].function = want[u].function
        => fresh[t] # fresh[u]
ReadIsCurrent == \A t \in Threads :
    pc[t] = "write" => fresh[t] = polyVersionCount[want[t].function]
VersionsInv == VersionsBelow /\ FreshIsNew /\ FreshDiffer /\ ReadIsCurrent /\ VersionsDistinct

LEMMA InstanceType ==
    ASSUME SharedTypes, NEW i \in Instances
    PROVE  /\ impls[i] \in FuncImpl /\ impls[i].function \in Functions
           /\ impls[i].polyVersion \in Nat /\ polyVersionCount[impls[i].function] \in Nat
<1>1. impls[i] \in FuncImpl
  BY ElementOfSeq DEF SharedTypes, Instances
<1>2. QED
  BY <1>1 DEF FuncImpl, SharedTypes

LEMMA VersionsInit == Init => VersionsInv
<1> SUFFICES ASSUME Init PROVE VersionsInv
  OBVIOUS
<1>1. program \in Programs /\ impls = PlainImpls(program) /\ SharedTypes
  BY TypeInit DEF Init, TypeOK
<1>2. DOMAIN impls = Instances
  BY <1>1, LenProperties DEF SharedTypes, Instances
<1>3. \A t \in Threads : ~Holds(t) /\ pc[t] # "write"
  BY DEF Init, Holds
<1>4. ASSUME NEW i \in Instances
      PROVE  impls[i].polyVersion < polyVersionCount[impls[i].function]
  <2>1. impls[i].polyVersion = 0 /\ ~Polymorphic(impls[i].function)
    BY <1>1, <1>2, PlainImplsType DEF Polymorphic
  <2>2. impls[i].function \in Functions
    BY <1>1, InstanceType
  <2>3. polyVersionCount[impls[i].function] = 1
    BY <2>1, <2>2 DEF Init
  <2>4. QED
    BY <2>1, <2>3
<1>5. VersionsDistinct
  BY <1>1, PlainImplsType DEF VersionsDistinct
<1>6. QED
  BY <1>3, <1>4, <1>5
  DEF VersionsInv, VersionsBelow, FreshIsNew, FreshDiffer, ReadIsCurrent

\* A step of a thread that neither writes a counter nor adds an instance.
LEMMA VersionsKept ==
    ASSUME TypeOK, VersionsInv, NEW t \in Threads, Step(t),
           impls' = impls, polyVersionCount' = polyVersionCount,
           Holds(t)' => Holds(t) /\ want'[t] = want[t] /\ fresh'[t] = fresh[t],
           pc'[t] = "write" => fresh'[t] = polyVersionCount[want'[t].function]
    PROVE  VersionsInv'
<1>1. \A u \in Threads \ {t} :
        pc'[u] = pc[u] /\ want'[u] = want[u] /\ fresh'[u] = fresh[u]
  BY OthersUnchanged DEF TypeOK
<1>2. \A u \in Threads : Holds(u)' => Holds(u) /\ want'[u] = want[u] /\ fresh'[u] = fresh[u]
  BY <1>1 DEF Holds
<1>3. Instances' = Instances
  BY DEF Instances
<1>4. VersionsBelow' /\ VersionsDistinct'
  BY <1>3 DEF VersionsInv, VersionsBelow, VersionsDistinct
<1>5. FreshIsNew' /\ FreshDiffer'
  BY <1>2, <1>3 DEF VersionsInv, FreshIsNew, FreshDiffer
<1>6. ReadIsCurrent'
  BY <1>1 DEF VersionsInv, ReadIsCurrent
<1>7. QED
  BY <1>4, <1>5, <1>6 DEF VersionsInv

LEMMA VersionsWritten ==
    ASSUME TypeOK, FlagsInv, VersionsInv, NEW t \in Threads, Step(t), WriteVersion(t)
    PROVE  VersionsInv'
<1> DEFINE fn == want[t].function
<1>1. /\ pc[t] = "write" /\ pc'[t] = "signature" /\ impls' = impls
      /\ want' = want /\ fresh' = fresh
      /\ polyVersionCount' = [polyVersionCount EXCEPT ![fn] = fresh[t] + 1]
  BY DEF WriteVersion, At, Goto, TypeOK, LocalTypes, local
<1>2. fn \in Functions /\ fresh[t] = polyVersionCount[fn] /\ InSignature(t)
  BY <1>1, WantType DEF InCall, InSignature, VersionsInv, ReadIsCurrent
<1>3. /\ polyVersionCount[fn] \in Nat /\ polyVersionCount'[fn] = polyVersionCount[fn] + 1
      /\ \A g \in Functions \ {fn} : polyVersionCount'[g] = polyVersionCount[g]
  BY <1>1, <1>2 DEF TypeOK, SharedTypes
<1> HIDE DEF fn
<1>4. ASSUME NEW u \in Threads \ {t}
      PROVE  pc'[u] = pc[u] /\ (InSignature(u) => want[u].function # fn)
                            /\ (InCall(u) => want[u].function \in Functions)
  <2>1. pc'[u] = pc[u]
    BY OthersUnchanged DEF TypeOK
  <2>2. InSignature(u) => want[u].function # fn
    BY <1>2 DEF FlagsInv, OneChecker, Checks, fn
  <2>3. QED
    BY <2>1, <2>2, WantType
<1>5. Instances' = Instances
  BY <1>1 DEF Instances
<1>6. VersionsBelow'
  <2>1. ASSUME NEW i \in Instances
        PROVE  impls[i].polyVersion < polyVersionCount'[impls[i].function]
    BY <1>3, InstanceType DEF TypeOK, VersionsInv, VersionsBelow
  <2>2. QED
    BY <1>1, <1>5, <2>1 DEF VersionsBelow
<1>7. VersionsDistinct'
  BY <1>1 DEF VersionsInv, VersionsDistinct
<1>8. FreshIsNew'
  <2>1. ASSUME NEW u \in Threads, Holds(u)'
        PROVE  /\ fresh[u] < polyVersionCount'[want[u].function]
               /\ \A i \in Instances :
                     impls[i].function = want[u].function => impls[i].polyVersion # fresh[u]
    <3>1. CASE u = t
      <4>1. fresh[t] < polyVersionCount'[fn]
        BY <1>2, <1>3
      <4>2. ASSUME NEW i \in Instances, impls[i].function = fn
            PROVE  impls[i].polyVersion # fresh[t]
        BY <1>2, <4>2, InstanceType DEF TypeOK, VersionsInv, VersionsBelow
      <4>3. QED
        BY <3>1, <4>1, <4>2 DEF fn
    <3>2. CASE u # t
      <4>1. Holds(u) /\ InCall(u)
        BY <1>4, <2>1, <3>2 DEF Holds, InCall
      <4>2. fresh[u] < polyVersionCount[want[u].function] /\ want[u].function \in Functions
        BY <1>4, <3>2, <4>1 DEF VersionsInv, FreshIsNew
      <4>3. fresh[u] \in Nat
        BY DEF TypeOK, LocalTypes
      <4>4. fresh[u] < polyVersionCount'[want[u].function]
        BY <1>3, <4>2, <4>3
      <4>5. QED
        BY <4>1, <4>4 DEF VersionsInv, FreshIsNew
    <3>3. QED
      BY <3>1, <3>2
  <2>2. QED
    BY <1>1, <1>5, <2>1 DEF FreshIsNew
<1>9. FreshDiffer'
  <2>1. ASSUME NEW u \in Threads \ {t}, Holds(u)', want[u].function = fn
        PROVE  fresh[u] # fresh[t]
    <3>1. Holds(u)
      BY <1>4, <2>1 DEF Holds
    <3>2. fresh[u] < polyVersionCount[fn] /\ fresh[u] \in Nat
      BY <2>1, <3>1 DEF VersionsInv, FreshIsNew, TypeOK, LocalTypes
    <3>3. QED
      BY <1>2, <1>3, <3>2
  <2>2. \A u \in Threads \ {t} : Holds(u)' => Holds(u)
    BY <1>4 DEF Holds
  <2>3. QED
    BY <1>1, <2>1, <2>2 DEF VersionsInv, FreshDiffer, fn
<1>10. ReadIsCurrent'
  <2>1. ASSUME NEW u \in Threads, pc'[u] = "write"
        PROVE  fresh[u] = polyVersionCount'[want[u].function]
    <3>1. u # t /\ pc[u] = "write"
      BY <1>1, <1>4, <2>1
    <3>2. want[u].function # fn /\ want[u].function \in Functions
      BY <1>4, <3>1 DEF InSignature, InCall
    <3>3. QED
      BY <1>3, <3>1, <3>2 DEF VersionsInv, ReadIsCurrent
  <2>2. QED
    BY <1>1, <2>1 DEF ReadIsCurrent
<1>11. QED
  BY <1>6, <1>7, <1>8, <1>9, <1>10 DEF VersionsInv

LEMMA VersionsAdded ==
    ASSUME TypeOK, VersionsInv, NEW t \in Threads, Step(t), addPolyImplOverload(t)
    PROVE  VersionsInv'
<1> DEFINE fn == want[t].function
           n == Len(impls) + 1
<1>1. /\ pc[t] = "add" /\ pc'[t] = "queue" /\ want' = want /\ fresh' = fresh
      /\ polyVersionCount' = polyVersionCount
  BY DEF addPolyImplOverload, At, Goto, TypeOK, LocalTypes
<1>2. /\ Instances' = Instances \cup {n} /\ n \notin Instances
      /\ impls'[n].function = fn /\ impls'[n].polyVersion = fresh[t]
  <2> DEFINE new == Impl(fn, want[t].type, want[t].struct, fresh[t])
  <2>1. impls' = Append(impls, new) /\ impls \in Seq(FuncImpl) /\ Len(impls) \in Nat
    BY LenProperties DEF addPolyImplOverload, TypeOK, SharedTypes
  <2>2. new \in FuncImpl
    BY <1>1 DEF TypeOK, LocalTypes, LocalOK, InCall, Wanted, Impl, FuncImpl
  <2> HIDE DEF new
  <2>3. Len(impls') = n /\ impls'[n] = new
    BY <2>1, <2>2, AppendProperties
  <2>4. Instances' = Instances \cup {n} /\ n \notin Instances
    BY <2>1, <2>3 DEF Instances
  <2>5. QED
    BY <2>3, <2>4 DEF new, Impl
<1>3. \A i \in Instances : impls'[i] = impls[i]
  BY ImplsGrow
<1>4. /\ fresh[t] < polyVersionCount[fn]
      /\ \A i \in Instances : impls[i].function = fn => impls[i].polyVersion # fresh[t]
  BY <1>1 DEF VersionsInv, FreshIsNew, Holds
<1>5. \A u \in Threads : Holds(u)' => u # t /\ Holds(u)
  BY <1>1, OthersUnchanged DEF TypeOK, Holds
<1>6. VersionsBelow'
  BY <1>1, <1>2, <1>3, <1>4 DEF VersionsInv, VersionsBelow
<1>7. VersionsDistinct'
  <2>1. DOMAIN impls = Instances /\ DOMAIN impls' = Instances'
    BY ImplsGrow, LenProperties DEF TypeOK, SharedTypes, Instances
  <2>2. \A i, k \in Instances : i # k /\ impls'[i].function = impls'[k].function
                                 => impls'[i].polyVersion # impls'[k].polyVersion
    BY <2>1, <1>3 DEF VersionsInv, VersionsDistinct
  <2>3. \A i \in Instances : impls'[i].function = fn => impls'[i].polyVersion # fresh[t]
    BY <1>3, <1>4
  <2> HIDE DEF fn, n
  <2>4. QED
    BY <1>2, <2>1, <2>2, <2>3 DEF VersionsDistinct
<1>8. FreshIsNew'
  <2>1. ASSUME NEW u \in Threads, Holds(u)'
        PROVE  /\ fresh[u] < polyVersionCount[want[u].function]
               /\ \A i \in Instances' :
                     impls'[i].function = want[u].function => impls'[i].polyVersion # fresh[u]
    <3>1. /\ fresh[u] < polyVersionCount[want[u].function]
          /\ \A i \in Instances :
                impls[i].function = want[u].function => impls[i].polyVersion # fresh[u]
      BY <1>5, <2>1 DEF VersionsInv, FreshIsNew
    <3>2. fn = want[u].function => fresh[t] # fresh[u]
      BY <1>1, <1>5, <2>1 DEF VersionsInv, FreshDiffer, Holds
    <3>3. QED
      BY <1>2, <1>3, <3>1, <3>2
  <2>2. QED
    BY <1>1, <2>1 DEF FreshIsNew
<1>9. FreshDiffer'
  BY <1>1, <1>5 DEF VersionsInv, FreshDiffer
<1>10. ReadIsCurrent'
  <2>1. \A u \in Threads : pc'[u] = "write" => pc[u] = "write"
    BY <1>1, OthersUnchanged DEF TypeOK
  <2>2. QED
    BY <1>1, <2>1 DEF VersionsInv, ReadIsCurrent
<1>11. QED
  BY <1>6, <1>7, <1>8, <1>9, <1>10 DEF VersionsInv

LEMMA VersionsStep ==
    ASSUME TypeOK, FlagsInv, VersionsInv, NEW t \in Threads, Step(t)
    PROVE  VersionsInv'
<1> pc \in [Threads -> Labels] /\ fresh \in [Threads -> Nat]
  BY DEF TypeOK, LocalTypes
<1>1. CASE WriteVersion(t)
  BY <1>1, VersionsWritten
<1>2. CASE addPolyImplOverload(t)
  BY <1>2, VersionsAdded
<1>3. CASE ReadVersion(t)
  <2>1. /\ impls' = impls /\ polyVersionCount' = polyVersionCount /\ want' = want
        /\ fresh'[t] = polyVersionCount[want[t].function] /\ pc'[t] = "write"
    BY <1>3 DEF ReadVersion, Goto, shared
  <2>2. ~Holds(t)'
    BY <2>1 DEF Holds
  <2>3. QED
    BY <2>1, <2>2, VersionsKept
<1>4. CASE CheckFunctionSignature(t)
  <2>1. /\ impls' = impls /\ polyVersionCount' = polyVersionCount /\ want' = want
        /\ fresh' = fresh /\ Holds(t)
    BY <1>4 DEF CheckFunctionSignature, At, local, Holds
  <2>2. pc'[t] # "write"
    BY <1>4 DEF CheckFunctionSignature, Goto
  <2>3. QED
    BY <2>1, <2>2, VersionsKept
<1>5. CASE Release(t)
  <2>1. /\ impls' = impls /\ polyVersionCount' = polyVersionCount /\ want' = want
        /\ fresh' = fresh /\ Holds(t)
    BY <1>5 DEF Release, At, local, Holds
  <2>2. pc'[t] # "write"
    BY <1>5 DEF Release, Goto
  <2>3. QED
    BY <2>1, <2>2, VersionsKept
<1>6. CASE Select(t) \/ Finish(t) \/ CheckFunctionScope(t) \/ LeaveScope(t) \/ BodyDone(t)
  <2>1. impls' = impls /\ polyVersionCount' = polyVersionCount
    BY <1>6 DEF Select, Finish, CheckFunctionScope, LeaveScope, BodyDone, shared
  <2>2. pc'[t] # "write" /\ ~Holds(t)'
    BY <1>6 DEF Select, Finish, CheckFunctionScope, LeaveScope, BodyDone, Goto, Holds
  <2>3. QED
    BY <2>1, <2>2, VersionsKept
<1>7. CASE CallStep(t)
  <2>1. impls' = impls /\ polyVersionCount' = polyVersionCount
    BY <1>7 DEF CallStep, CheckCall, Found, TwoFound, Missing, Search, Compare, shared
  <2>2. pc'[t] # "write" /\ ~Holds(t)'
    BY <1>7 DEF CallStep, CheckCall, Found, TwoFound, Missing, Search, Compare, Goto, Resolved,
                AssertFails, Holds
  <2>3. QED
    BY <2>1, <2>2, VersionsKept
<1>8. CASE Take(t) \/ Wait(t) \/ addTask_type_body(t) \/ CountUsage(t)
  <2>1. impls' = impls /\ polyVersionCount' = polyVersionCount
    BY <1>8 DEF Take, Wait, addTask_type_body, CountUsage, shared
  <2>2. pc'[t] # "write" /\ ~Holds(t)'
    BY <1>8 DEF Take, Wait, addTask_type_body, CountUsage, At, Goto, Resolved, AssertFails, Holds
  <2>3. QED
    BY <2>1, <2>2, VersionsKept
<1>9. QED
  BY <1>1, <1>2, <1>3, <1>4, <1>5, <1>6, <1>7, <1>8 DEF Step, InstanceStep

\* VERSIONS ARE DISTINCT.  The counter of a function is read and written in two
\* steps; that no two instances get the same version rests on the flags.
THEOREM VersionsDistinctCorrect ==
    ASSUME NoConstruct
    PROVE  Spec => []VersionsDistinct
<1>1. Init => VersionsInv
  BY VersionsInit
<1>2. TypeOK /\ FlagsInv /\ VersionsInv /\ [Next]_vars => VersionsInv'
  <2> SUFFICES ASSUME TypeOK, FlagsInv, VersionsInv, [Next]_vars PROVE VersionsInv'
    OBVIOUS
  <2>1. CASE Next
    BY <2>1, VersionsStep DEF Next
  <2>2. CASE UNCHANGED vars
    BY <2>2 DEF vars, shared, local, VersionsInv, VersionsBelow, FreshIsNew, FreshDiffer,
                ReadIsCurrent, VersionsDistinct, Holds, Instances
  <2>3. QED
    BY <2>1, <2>2
<1>3. VersionsInv => VersionsDistinct
  BY DEF VersionsInv
<1>4. QED
  BY <1>1, <1>2, <1>3, FlagsInvariant, PTL DEF Spec

-----------------------------------------------------------------------------
(* The type parameters, when one thread checks all bodies.  Between two     *)
(* bodies they stand for nothing; in a body those of its function and its   *)
(* struct stand for the types of the instance; and on top of that, while    *)
(* another function is looked at, those of that one for what is asked for.  *)
(* What a thread pops is what it pushed, so this comes back level by level. *)
Names == Functions \cup Structs
Nothing == [type |-> None, struct |-> None]

Own(t) ==
    [x \in Names |->
        IF x = Function(t) THEN impls[cur[t]].type
        ELSE IF x = program.parent[Function(t)] THEN impls[cur[t]].struct ELSE None]
OwnStates(t) ==
    [fn \in Functions |-> IF fn = Function(t) /\ Polymorphic(fn) THEN <<Nothing>> ELSE <<>>]

Asked(t) ==
    LET fn == want[t].function
    IN  [x \in Names |->
            IF x = fn THEN want[t].type
            ELSE IF x = program.parent[fn] THEN want[t].struct ELSE Own(t)[x]]
AskedStates(t) ==
    LET fn == want[t].function
    IN  [OwnStates(t) EXCEPT ![fn] =
            Append(@, [type |-> Own(t)[fn],
                       struct |-> IF program.parent[fn] = None THEN None
                                  ELSE Own(t)[program.parent[fn]]])]

OutOfScope(t) == pc[t] \in {"select", "scope", "checked"}
InScope(t) == pc[t] \in {"statement", "lookup", "search", "take", "version", "write", "release",
                         "add", "queue", "count"}
Pushed(t) == pc[t] \in {"compare", "signature"}
Instantiates(t) == pc[t] \in {"search", "compare", "take", "version", "write", "signature",
                              "release", "add"}

ParametersOK(t) ==
    /\ OutOfScope(t) => /\ virtualType = [x \in Names |-> None]
                        /\ polyStates = [fn \in Functions |-> <<>>]
    /\ InScope(t) => virtualType = Own(t) /\ polyStates = OwnStates(t)
    /\ Pushed(t) => virtualType = Asked(t) /\ polyStates = AskedStates(t)

\* What has no type parameter is asked for, and made, without a type.
FitsFunction(i) == /\ ~Polymorphic(i.function) => i.type = None
                   /\ program.parent[i.function] \notin program.generic => i.struct = None
InstancesFit == \A i \in Instances : FitsFunction(impls[i])
PlainExist == \A fn \in Functions :
    ~Polymorphic(fn) => \E i \in Instances : impls[i].function = fn
WantFits(t) == /\ InCall(t) => FitsFunction(want[t])
               /\ Instantiates(t) => Polymorphic(want[t].function)

\* The thread that is alone.
OnlyThread(t) == program.threads = {t} /\ \A u \in Threads \ {t} : pc[u] = "done"
AloneInv == Alone => /\ InstancesFit /\ PlainExist
                     /\ \A t \in program.threads :
                           OnlyThread(t) /\ WantFits(t) /\ ParametersOK(t)

LEMMA AloneInit == Init => AloneInv
<1> SUFFICES ASSUME Init, Alone PROVE AloneInv
  BY DEF AloneInv
<1>1. program \in Programs /\ impls = PlainImpls(program) /\ SharedTypes
  BY TypeInit DEF Init, TypeOK
<1>2. DOMAIN impls = Instances
  BY <1>1, LenProperties DEF SharedTypes, Instances
<1>3. InstancesFit
  BY <1>1, <1>2, PlainImplsType DEF InstancesFit, FitsFunction
<1>4. PlainExist
  BY <1>1, <1>2, PlainImplsType DEF PlainExist, Polymorphic
<1>5. ASSUME NEW t \in program.threads
      PROVE  OnlyThread(t) /\ WantFits(t) /\ ParametersOK(t)
  <2>1. program.threads = {t} /\ t \in Threads
    <3>1. IsFiniteSet(program.threads)
      BY <1>1, ProgramFields, FiniteAssumption, FS_Subset
    <3>2. PICK u : program.threads = {u}
      BY <3>1, FS_Singleton DEF Alone
    <3>3. QED
      BY <3>2, <1>1, ProgramFields
  <2>2. pc[t] = "select" /\ \A u \in Threads \ {t} : pc[u] = "done"
    BY <2>1 DEF Init
  <2>3. QED
    BY <2>1, <2>2 DEF Init, OnlyThread, WantFits, InCall, Instantiates, ParametersOK, OutOfScope,
                      InScope, Pushed, Names
<1>6. QED
  BY <1>3, <1>4, <1>5 DEF AloneInv

\* Pushing and popping once undoes nothing and leaves nothing.
LEMMA PoppedIsPushed ==
    ASSUME NEW X, NEW s \in Seq(X), NEW e \in X
    PROVE  /\ Append(s, e) # <<>> /\ Last(Append(s, e)) = e /\ Front(Append(s, e)) = s
<1>1. /\ Append(s, e) \in Seq(X) /\ Len(s) \in Nat /\ Len(Append(s, e)) = Len(s) + 1
      /\ Append(s, e)[Len(s) + 1] = e /\ \A i \in 1..Len(s) : Append(s, e)[i] = s[i]
  BY AppendProperties, LenProperties
<1>2. Append(s, e) # <<>> /\ Last(Append(s, e)) = e
  BY <1>1, EmptySeq DEF Last
<1>3. Front(Append(s, e)) = SubSeq(Append(s, e), 1, Len(s))
  BY <1>1 DEF Front
<1>4. Front(Append(s, e)) = s
  BY <1>1, <1>3, SubSeqProperties, SeqEqual
<1>5. QED
  BY <1>2, <1>4

\* Entering the scope of a function and leaving it.
LEMMA EnterScope ==
    ASSUME SharedTypes, InstancesFit, NEW t \in Threads, cur[t] \in Instances,
           virtualType = [x \in Names |-> None], polyStates = [fn \in Functions |-> <<>>],
           pushPolyState(Function(t), impls[cur[t]].type, impls[cur[t]].struct)
    PROVE  virtualType' = Own(t) /\ polyStates' = OwnStates(t)
<1> DEFINE fn == Function(t)
<1>1. fn \in Functions /\ program.parent[fn] \in Structs \cup {None}
      /\ FitsFunction(impls[cur[t]]) /\ fn = impls[cur[t]].function
  BY FunctionType, ProgramFields DEF SharedTypes, InstancesFit, Function
<1>2. StructType(fn) = None /\ virtualType[fn] = None
  BY <1>1 DEF StructType, Names
<1>3. CASE Polymorphic(fn)
  <2>1. virtualType' = Own(t)
    BY <1>1, <1>3 DEF pushPolyState, With, Own, Names
  <2>2. polyStates' = [polyStates EXCEPT ![fn] = Append(<<>>, Nothing)]
    BY <1>1, <1>2, <1>3 DEF pushPolyState, Nothing
  <2>3. Append(<<>>, Nothing) = <<Nothing>>
    OBVIOUS
  <2>4. polyStates' = OwnStates(t)
    BY <1>3, <2>2, <2>3 DEF OwnStates
  <2>5. QED
    BY <2>1, <2>4
<1>4. CASE ~Polymorphic(fn)
  <2>1. impls[cur[t]].type = None /\ impls[cur[t]].struct = None
    BY <1>1, <1>4 DEF FitsFunction, Polymorphic
  <2>2. Own(t) = [x \in Names |-> None]
    BY <2>1 DEF Own
  <2>3. OwnStates(t) = [f \in Functions |-> <<>>]
    BY <1>4 DEF OwnStates
  <2>4. QED
    BY <1>4, <2>2, <2>3 DEF pushPolyState
<1>5. QED
  BY <1>3, <1>4

LEMMA ExitScope ==
    ASSUME SharedTypes, InstancesFit, NEW t \in Threads, cur[t] \in Instances,
           virtualType = Own(t), polyStates = OwnStates(t), popPolyState(Function(t))
    PROVE  virtualType' = [x \in Names |-> None] /\ polyStates' = [fn \in Functions |-> <<>>]
<1> DEFINE fn == Function(t)
<1>1. fn \in Functions /\ program.parent[fn] \in Structs \cup {None}
      /\ FitsFunction(impls[cur[t]]) /\ fn = impls[cur[t]].function
  BY FunctionType, ProgramFields DEF SharedTypes, InstancesFit, Function
<1>2. CASE Polymorphic(fn)
  <2>1. polyStates[fn] = <<Nothing>>
    BY <1>1, <1>2 DEF OwnStates
  <2>2. Last(<<Nothing>>) = Nothing /\ Front(<<Nothing>>) = <<>>
    <3>1. Nothing \in PolyState /\ <<Nothing>> = Append(<<>>, Nothing) /\ <<>> \in Seq(PolyState)
      BY DEF Nothing, PolyState, TypeOrNone
    <3>2. QED
      BY <3>1, PoppedIsPushed
  <2>3. Before(fn).type = None /\ Before(fn).struct = None
    BY <2>1, <2>2 DEF Before, Nothing
  <2>4. virtualType' = With(fn, None, None)
        /\ polyStates' = [polyStates EXCEPT ![fn] = <<>>]
    BY <1>2, <2>1, <2>2, <2>3 DEF popPolyState
  <2>5. With(fn, None, None) = [x \in Names |-> None]
    BY <1>1 DEF With, Own, Names
  <2>6. polyStates' = [f \in Functions |-> <<>>]
    BY <1>1, <2>4 DEF OwnStates
  <2>7. QED
    BY <2>4, <2>5, <2>6
<1>3. CASE ~Polymorphic(fn)
  <2>1. impls[cur[t]].type = None /\ impls[cur[t]].struct = None
    BY <1>1, <1>3 DEF FitsFunction, Polymorphic
  <2>2. Own(t) = [x \in Names |-> None]
    BY <2>1 DEF Own
  <2>3. OwnStates(t) = [f \in Functions |-> <<>>]
    BY <1>3 DEF OwnStates
  <2>4. QED
    BY <1>3, <2>2, <2>3 DEF popPolyState
<1>4. QED
  BY <1>2, <1>3

\* The same for the function a call asks for.
LEMMA PushAsked ==
    ASSUME SharedTypes, NEW t \in Threads, want[t].function \in Functions,
           Polymorphic(want[t].function), virtualType = Own(t), polyStates = OwnStates(t),
           pushPolyState(want[t].function, want[t].type, want[t].struct)
    PROVE  virtualType' = Asked(t) /\ polyStates' = AskedStates(t)
<1>1. virtualType' = Asked(t)
  BY DEF pushPolyState, With, Asked, Names
<1>2. polyStates' = AskedStates(t)
  BY DEF pushPolyState, StructType, AskedStates
<1>3. QED
  BY <1>1, <1>2

LEMMA PopAsked ==
    ASSUME SharedTypes, NEW t \in Threads, cur[t] \in Instances,
           want[t].function \in Functions, Polymorphic(want[t].function),
           virtualType = Asked(t), polyStates = AskedStates(t),
           popPolyState(want[t].function)
    PROVE  virtualType' = Own(t) /\ polyStates' = OwnStates(t)
<1> DEFINE fn == want[t].function
           st == IF program.parent[fn] = None THEN None ELSE Own(t)[program.parent[fn]]
           saved == [type |-> Own(t)[fn], struct |-> st]
<1>1. program.parent[fn] \in Structs \cup {None} /\ fn \in Names
  BY ProgramFields DEF SharedTypes, Names
<1>2. \A x \in Names : Own(t)[x] \in TypeOrNone
  BY FunctionType DEF Own, FuncImpl, TypeOrNone
<1>3. saved \in PolyState
  BY <1>1, <1>2 DEF PolyState, Names, TypeOrNone
<1>4. OwnStates(t)[fn] \in Seq(PolyState)
  <2>1. <<Nothing>> \in Seq(PolyState) /\ <<>> \in Seq(PolyState)
    BY DEF Nothing, PolyState, TypeOrNone
  <2>2. QED
    BY <2>1 DEF OwnStates
<1>5. polyStates[fn] = Append(OwnStates(t)[fn], saved)
  BY DEF AskedStates, OwnStates
<1>6. Before(fn) = saved /\ Front(polyStates[fn]) = OwnStates(t)[fn]
  BY <1>3, <1>4, <1>5, PoppedIsPushed DEF Before
<1>7. polyStates' = [polyStates EXCEPT ![fn] = OwnStates(t)[fn]]
      /\ virtualType' = With(fn, Own(t)[fn], st)
  BY <1>6 DEF popPolyState
<1>8. polyStates' = OwnStates(t)
  BY <1>7 DEF AskedStates, OwnStates
<1>9. With(fn, Own(t)[fn], st) = Own(t)
  <2> DEFINE W == With(fn, Own(t)[fn], st)
  <2>1. ASSUME NEW x \in Names PROVE W[x] = Own(t)[x]
    <3>1. x # None
      BY NamesAssumption DEF Names
    <3>2. CASE x = fn
      BY <3>2 DEF With, Names
    <3>3. CASE x # fn /\ x = program.parent[fn]
      BY <3>1, <3>3 DEF With, Names
    <3>4. CASE x # fn /\ x # program.parent[fn]
      BY <3>4 DEF With, Names, Asked
    <3>5. QED
      BY <3>2, <3>3, <3>4
  <2>2. W = [x \in Names |-> W[x]] /\ Own(t) = [x \in Names |-> Own(t)[x]]
    BY DEF With, Own, Names
  <2> HIDE DEF W
  <2>3. W = Own(t)
    BY <2>1, <2>2
  <2>4. QED
    BY <2>3 DEF W
<1>10. QED
  BY <1>7, <1>8, <1>9

\* The parameters of a call stand for types where Fits says there is one.
LEMMA CallFits ==
    ASSUME SharedTypes, LocalTypes, NEW t \in Threads, LocalOK(t), CheckCall(t)
    PROVE  FitsFunction(want'[t])
<1> DEFINE call == Body(t)[at[t]]
<1>1. cur[t] \in Instances
  BY DEF CheckCall, At, LocalOK, InBody
<1>2. at[t] \in DOMAIN Body(t) /\ call \in Call
  <2>1. Body(t) \in Seq(Call) /\ at[t] \in 1..Len(Body(t))
    BY <1>1, FunctionType DEF CheckCall, LocalTypes
  <2>2. QED
    BY <2>1, ElementOfSeq, LenProperties
<1>3. Fits(program, Function(t), call)
  BY <1>1, <1>2, FunctionType, ProgramsAssumption DEF Body, SharedTypes
<1>4. program.generic \subseteq Functions \cup Structs
  BY ProgramsAssumption DEF SharedTypes, ProgramType
<1>5. want'[t] = [call EXCEPT !.type = Argument(t, @), !.struct = Argument(t, @)]
  BY DEF CheckCall, LocalTypes
<1>6. /\ want'[t].function = call.function
      /\ want'[t].type = Argument(t, call.type) /\ want'[t].struct = Argument(t, call.struct)
  BY <1>2, <1>5 DEF Call
<1>7. Argument(t, None) = None
  BY NamesAssumption DEF Argument
<1>8. QED
  BY <1>3, <1>6, <1>7 DEF Fits, FitsFunction, Polymorphic

\* Only a polymorphic function lacks an instance.
LEMMA MissingIsPolymorphic ==
    ASSUME TypeOK, InstancesFit, PlainExist, NEW t \in Threads, WantFits(t), Missing(t)
    PROVE  Polymorphic(want[t].function)
<1> SUFFICES ASSUME ~Polymorphic(want[t].function) PROVE FALSE
  OBVIOUS
<1>1. InCall(t) /\ Overloads(want[t]) = {}
  BY DEF Missing, At, InCall
<1>2. want[t].function \in Functions /\ want[t].type = None /\ want[t].struct = None
  BY <1>1, WantType DEF WantFits, FitsFunction, Polymorphic
<1>3. PICK i \in Instances : impls[i].function = want[t].function
  BY <1>2 DEF PlainExist
<1>4. impls[i].type = None /\ impls[i].struct = None /\ i \in DOMAIN impls
  BY <1>3, LenProperties DEF InstancesFit, FitsFunction, Polymorphic, TypeOK, SharedTypes,
                             Instances
<1>5. i \in Exact(want[t]) /\ i \in Constructors(want[t])
  BY <1>2, <1>3, <1>4 DEF Exact, Constructors
<1>6. QED
  BY <1>1, <1>5 DEF Overloads

\* A step in a body that leaves the parameters alone.
LEMMA ParametersKept ==
    ASSUME TypeOK, NEW t \in Threads, Step(t), ParametersOK(t), InScope(t),
           InScope(t)' \/ pc'[t] = "done", UNCHANGED parameters, cur'[t] = cur[t]
    PROVE  ParametersOK(t)'
<1>1. cur[t] \in Instances
  BY DEF TypeOK, LocalOK, InScope, InBody
<1>2. impls'[cur[t]] = impls[cur[t]] /\ program' = program
  BY <1>1, ImplsGrow, OthersUnchanged DEF TypeOK
<1>3. Own(t)' = Own(t) /\ OwnStates(t)' = OwnStates(t)
  BY <1>2 DEF Own, OwnStates, Function, Polymorphic
<1>4. ~OutOfScope(t)' /\ ~Pushed(t)'
  BY DEF InScope, OutOfScope, Pushed
<1>5. QED
  BY <1>3, <1>4 DEF ParametersOK, parameters

LEMMA ParametersStep ==
    ASSUME TypeOK, InstancesFit, NEW t \in Threads, Step(t), WantFits(t), ParametersOK(t)
    PROVE  ParametersOK(t)'
<1> pc \in [Threads -> Labels] /\ cur \in [Threads -> Nat] /\ SharedTypes /\ LocalOK(t)
  BY DEF TypeOK, LocalTypes
<1>1. CASE Select(t) \/ Finish(t) \/ BodyDone(t)
  <2>1. UNCHANGED parameters /\ OutOfScope(t)
    BY <1>1 DEF Select, Finish, BodyDone, At, shared, OutOfScope
  <2>2. (OutOfScope(t)' \/ pc'[t] = "done") /\ ~InScope(t)' /\ ~Pushed(t)'
    BY <1>1 DEF Select, Finish, BodyDone, Goto, InScope, OutOfScope, Pushed
  <2>3. QED
    BY <2>1, <2>2 DEF ParametersOK, parameters
<1>2. CASE CheckFunctionScope(t)
  <2>1. /\ pc[t] = "scope" /\ pc'[t] = "statement"
        /\ impls' = impls /\ cur' = cur /\ program' = program
        /\ pushPolyState(Function(t), impls[cur[t]].type, impls[cur[t]].struct)
    BY <1>2 DEF CheckFunctionScope, At, Goto
  <2>2. virtualType' = Own(t) /\ polyStates' = OwnStates(t)
    BY <2>1, EnterScope DEF ParametersOK, OutOfScope, LocalOK, InBody
  <2>3. Own(t)' = Own(t) /\ OwnStates(t)' = OwnStates(t)
    BY <2>1 DEF Own, OwnStates, Function, Polymorphic
  <2>4. QED
    BY <2>1, <2>2, <2>3 DEF ParametersOK, InScope, OutOfScope, Pushed
<1>3. CASE LeaveScope(t)
  <2>1. pc[t] = "statement" /\ pc'[t] = "checked" /\ popPolyState(Function(t))
    BY <1>3 DEF LeaveScope, At, Goto
  <2>2. virtualType' = [x \in Names |-> None] /\ polyStates' = [fn \in Functions |-> <<>>]
    BY <2>1, ExitScope DEF ParametersOK, InScope, LocalOK, InBody
  <2>3. QED
    BY <2>1, <2>2 DEF ParametersOK, InScope, OutOfScope, Pushed
<1>4. CASE Search(t) \/ WriteVersion(t)
  <2>1. /\ InScope(t) /\ InCall(t) /\ Instantiates(t) /\ Pushed(t)'
        /\ impls' = impls /\ cur' = cur /\ program' = program /\ want' = want
        /\ pushPolyState(want[t].function, want[t].type, want[t].struct)
    BY <1>4 DEF Search, WriteVersion, At, Goto, local, InScope, InCall, Instantiates, Pushed
  <2>2. virtualType' = Asked(t) /\ polyStates' = AskedStates(t)
    BY <2>1, WantType, PushAsked DEF ParametersOK, WantFits
  <2>3. Asked(t)' = Asked(t) /\ AskedStates(t)' = AskedStates(t)
    BY <2>1 DEF Asked, AskedStates, Own, OwnStates, Function, Polymorphic
  <2>4. QED
    BY <2>1, <2>2, <2>3 DEF ParametersOK, InScope, OutOfScope, Pushed
<1>5. CASE Compare(t) \/ CheckFunctionSignature(t)
  <2>1. /\ Pushed(t) /\ InCall(t) /\ Instantiates(t) /\ InScope(t)'
        /\ impls' = impls /\ cur' = cur /\ program' = program
        /\ popPolyState(want[t].function)
    BY <1>5 DEF Compare, CheckFunctionSignature, At, Goto, local, InScope, InCall, Instantiates,
                Pushed
  <2>2. virtualType' = Own(t) /\ polyStates' = OwnStates(t)
    BY <2>1, WantType, PopAsked DEF ParametersOK, WantFits
  <2>3. Own(t)' = Own(t) /\ OwnStates(t)' = OwnStates(t)
    BY <2>1 DEF Own, OwnStates, Function, Polymorphic
  <2>4. QED
    BY <2>1, <2>2, <2>3 DEF ParametersOK, InScope, OutOfScope, Pushed
<1>6. CASE CheckCall(t) \/ Found(t) \/ TwoFound(t) \/ Missing(t)
  <2>1. InScope(t) /\ UNCHANGED parameters /\ cur' = cur
    BY <1>6 DEF CheckCall, Found, TwoFound, Missing, At, shared, local, InScope
  <2>2. InScope(t)' \/ pc'[t] = "done"
    BY <1>6 DEF CheckCall, Found, TwoFound, Missing, Goto, Resolved, AssertFails, InScope
  <2>3. QED
    BY <2>1, <2>2, ParametersKept
<1>7. CASE Take(t) \/ Wait(t) \/ ReadVersion(t) \/ Release(t) \/ addPolyImplOverload(t)
           \/ addTask_type_body(t) \/ CountUsage(t)
  <2>1. InScope(t) /\ UNCHANGED parameters /\ cur' = cur
    BY <1>7 DEF Take, Wait, ReadVersion, Release, addPolyImplOverload, addTask_type_body,
                CountUsage, At, shared, local, InScope
  <2>2. InScope(t)' \/ pc'[t] = "done"
    BY <1>7, <2>1 DEF Take, Wait, ReadVersion, Release, addPolyImplOverload, addTask_type_body,
                CountUsage, Goto, Resolved, AssertFails, InScope
  <2>3. QED
    BY <2>1, <2>2, ParametersKept
<1>8. QED
  BY <1>1, <1>2, <1>3, <1>4, <1>5, <1>6, <1>7 DEF Step, CallStep, InstanceStep

LEMMA WantStep ==
    ASSUME TypeOK, InstancesFit, PlainExist, NEW t \in Threads, Step(t), WantFits(t)
    PROVE  WantFits(t)'
<1> pc \in [Threads -> Labels] /\ SharedTypes /\ LocalTypes /\ LocalOK(t)
  BY DEF TypeOK, LocalTypes
<1>1. program' = program
  BY OthersUnchanged
<1>2. CASE CheckCall(t)
  <2>1. FitsFunction(want'[t]) /\ ~Instantiates(t)'
    BY <1>2, CallFits DEF CheckCall, Goto, Instantiates
  <2>2. QED
    BY <1>1, <2>1 DEF WantFits, FitsFunction, Polymorphic
<1>3. CASE Missing(t)
  <2>1. want' = want /\ InCall(t) /\ Polymorphic(want[t].function)
    BY <1>3, MissingIsPolymorphic DEF Missing, At, InCall
  <2>2. QED
    BY <1>1, <2>1 DEF WantFits, FitsFunction, Polymorphic
<1>4. CASE /\ InCall(t)' => InCall(t) /\ want' = want
           /\ Instantiates(t)' => Instantiates(t)
  BY <1>1, <1>4 DEF WantFits, FitsFunction, Polymorphic, InCall, Instantiates
<1>5. CASE Select(t) \/ Finish(t) \/ CheckFunctionScope(t) \/ LeaveScope(t) \/ BodyDone(t)
           \/ TwoFound(t)
  <2>1. ~InCall(t)' /\ ~Instantiates(t)'
    BY <1>5 DEF Select, Finish, CheckFunctionScope, LeaveScope, BodyDone, TwoFound, Goto,
                AssertFails, InCall, Instantiates
  <2>2. QED
    BY <1>4, <2>1
<1>6. CASE Search(t) \/ Compare(t) \/ Take(t) \/ Wait(t) \/ ReadVersion(t) \/ WriteVersion(t)
           \/ CheckFunctionSignature(t) \/ Release(t)
  <2>1. want' = want /\ InCall(t) /\ Instantiates(t)
    BY <1>6 DEF Search, Compare, Take, Wait, ReadVersion, WriteVersion, CheckFunctionSignature,
                Release, At, local, InCall, Instantiates
  <2>2. QED
    BY <1>4, <2>1
<1>7. CASE Found(t) \/ addPolyImplOverload(t) \/ addTask_type_body(t) \/ CountUsage(t)
  <2>1. want' = want /\ InCall(t)
    BY <1>7 DEF Found, addPolyImplOverload, addTask_type_body, CountUsage, At, local, InCall
  <2>2. ~Instantiates(t)'
    BY <1>7 DEF Found, addPolyImplOverload, addTask_type_body, CountUsage, Goto, Resolved,
                AssertFails, Instantiates
  <2>3. QED
    BY <1>4, <2>1, <2>2
<1>8. QED
  BY <1>2, <1>3, <1>5, <1>6, <1>7 DEF Step, CallStep, InstanceStep

LEMMA AloneStep ==
    ASSUME TypeOK, AloneInv, NEW t \in Threads, Step(t)
    PROVE  AloneInv'
<1>1. program' = program
  BY OthersUnchanged DEF TypeOK
<1> SUFFICES ASSUME Alone PROVE AloneInv'
  BY <1>1 DEF AloneInv, Alone
<1>2. PICK o \in program.threads : program.threads = {o} /\ o \in Threads
  <2>1. IsFiniteSet(program.threads) /\ program.threads \subseteq Threads
    BY ProgramFields, FiniteAssumption, FS_Subset DEF TypeOK, SharedTypes
  <2>2. QED
    BY <2>1, FS_Singleton DEF Alone
<1>3. t = o
  <2>1. pc[t] # "done"
    BY DEF Step, Select, Finish, CheckFunctionScope, LeaveScope, BodyDone, CallStep,
           CheckCall, Found, TwoFound, Missing, Search, Compare, InstanceStep, Take, Wait,
           ReadVersion, WriteVersion, CheckFunctionSignature, Release, addPolyImplOverload,
           addTask_type_body, CountUsage, At
  <2>2. QED
    BY <1>2, <2>1 DEF AloneInv, OnlyThread
<1>4. InstancesFit /\ PlainExist /\ WantFits(t) /\ ParametersOK(t)
  BY <1>2, <1>3 DEF AloneInv
<1>5. InstancesFit'
  <2>1. ASSUME NEW i \in Instances' PROVE FitsFunction(impls'[i])
    <3>1. CASE i \in Instances
      BY <1>4, <3>1, ImplsGrow DEF InstancesFit
    <3>2. CASE i \notin Instances
      <4>1. addPolyImplOverload(t)
        BY <3>2 DEF Step, Select, Finish, CheckFunctionScope, LeaveScope, BodyDone, CallStep,
             CheckCall, Found, TwoFound, Missing, Search, Compare, InstanceStep, Take, Wait,
             ReadVersion, WriteVersion, CheckFunctionSignature, Release,
             addTask_type_body, CountUsage, shared, Instances
      <4>2. impls'[i].function = want[t].function /\ impls'[i].type = want[t].type
            /\ impls'[i].struct = want[t].struct
        <5> DEFINE new == Impl(want[t].function, want[t].type, want[t].struct, fresh[t])
        <5>1. impls' = Append(impls, new) /\ impls \in Seq(FuncImpl) /\ Len(impls) \in Nat
          BY <4>1, LenProperties DEF addPolyImplOverload, TypeOK, SharedTypes
        <5>2. new \in FuncImpl
          BY <4>1 DEF addPolyImplOverload, At, TypeOK, LocalTypes, LocalOK, InCall, Wanted, Impl,
                      FuncImpl
        <5> HIDE DEF new
        <5>3. i = Len(impls) + 1 /\ impls'[i] = new
          BY <3>2, <5>1, <5>2, AppendProperties DEF Instances
        <5>4. QED
          BY <5>3 DEF new, Impl
      <4>3. FitsFunction(want[t])
        BY <1>4, <4>1 DEF addPolyImplOverload, At, WantFits, InCall
      <4>4. QED
        BY <4>2, <4>3 DEF FitsFunction, Polymorphic
    <3>3. QED
      BY <3>1, <3>2
  <2>2. QED
    BY <1>1, <2>1 DEF InstancesFit, FitsFunction, Polymorphic
<1>6. PlainExist'
  BY <1>1, <1>4, ImplsGrow DEF PlainExist, Polymorphic
<1>7. WantFits(t)' /\ ParametersOK(t)'
  BY <1>4, WantStep, ParametersStep
<1>8. OnlyThread(t)'
  BY <1>1, <1>2, <1>3, OthersUnchanged DEF AloneInv, OnlyThread, TypeOK
<1>9. QED
  BY <1>1, <1>2, <1>3, <1>5, <1>6, <1>7, <1>8 DEF AloneInv

\* TYPES ARE A BODY'S OWN.  For every program checked by one thread, whatever its
\* calls instantiate on the way.
THEOREM TypesAreOwnCorrect == Spec => []TypesAreOwn
<1>1. Init => TypeOK /\ AloneInv
  BY TypeInit, AloneInit
<1>2. TypeOK /\ AloneInv /\ [Next]_vars => (TypeOK /\ AloneInv)'
  <2> SUFFICES ASSUME TypeOK, AloneInv, [Next]_vars PROVE (TypeOK /\ AloneInv)'
    OBVIOUS
  <2>1. TypeOK'
    BY TypeStep
  <2>2. CASE Next
    BY <2>1, <2>2, AloneStep DEF Next
  <2>3. CASE UNCHANGED vars
    <3>1. AloneInv'
      <4>1. /\ program' = program /\ impls' = impls /\ pc' = pc /\ cur' = cur /\ want' = want
            /\ virtualType' = virtualType /\ polyStates' = polyStates
        BY <2>3 DEF vars, shared, parameters, local
      <4>2. (Alone <=> Alone') /\ (InstancesFit <=> InstancesFit') /\ (PlainExist <=> PlainExist')
        BY <4>1 DEF Alone, InstancesFit, PlainExist, Instances, FitsFunction, Polymorphic
      <4>3. ASSUME NEW t
            PROVE  (OnlyThread(t) <=> OnlyThread(t)') /\ (WantFits(t) <=> WantFits(t)')
        BY <4>1 DEF OnlyThread, WantFits, InCall, Instantiates, FitsFunction, Polymorphic
      <4>4. ASSUME NEW t PROVE ParametersOK(t) <=> ParametersOK(t)'
        <5>1. Own(t)' = Own(t) /\ OwnStates(t)' = OwnStates(t)
          BY <4>1 DEF Own, OwnStates, Function, Polymorphic
        <5>2. Asked(t)' = Asked(t) /\ AskedStates(t)' = AskedStates(t)
          BY <4>1, <5>1 DEF Asked, AskedStates
        <5>3. QED
          BY <4>1, <5>1, <5>2 DEF ParametersOK, OutOfScope, InScope, Pushed
      <4>5. QED
        BY <4>1, <4>2, <4>3, <4>4 DEF AloneInv
    <3>2. QED
      BY <2>1, <3>1
  <2>4. QED
    BY <2>2, <2>3
<1>3. TypeOK /\ AloneInv => TypesAreOwn
  <2> SUFFICES ASSUME TypeOK, AloneInv, Alone, NEW t \in program.threads
               PROVE  /\ pc[t] = "statement" =>
                            Stand(Function(t), impls[cur[t]].type, impls[cur[t]].struct)
                      /\ pc[t] = "signature" =>
                            Stand(want[t].function, want[t].type, want[t].struct)
    BY DEF TypesAreOwn
  <2>1. t \in Threads /\ WantFits(t) /\ ParametersOK(t) /\ InstancesFit /\ SharedTypes
        /\ program.generic \subseteq Functions \cup Structs
    BY ProgramFields, ProgramsAssumption DEF AloneInv, TypeOK, SharedTypes, ProgramType
  <2>2. \A fn \in Functions : /\ fn \in Names /\ program.parent[fn] # fn
                              /\ program.parent[fn] # None => program.parent[fn] \in Names
                              /\ program.parent[fn] = None =>
                                    program.parent[fn] \notin program.generic
    BY <2>1, ProgramFields, NamesAssumption DEF SharedTypes, Names
  <2>3. ASSUME pc[t] = "statement"
        PROVE  Stand(Function(t), impls[cur[t]].type, impls[cur[t]].struct)
    <3>1. cur[t] \in Instances /\ virtualType = Own(t)
      BY <2>1, <2>3 DEF TypeOK, LocalOK, InBody, ParametersOK, InScope
    <3>2. Function(t) \in Functions /\ FitsFunction(impls[cur[t]])
      BY <2>1, <3>1, FunctionType DEF InstancesFit
    <3>3. QED
      BY <2>2, <3>1, <3>2 DEF Stand, StructType, Own, FitsFunction, Function
  <2>4. ASSUME pc[t] = "signature"
        PROVE  Stand(want[t].function, want[t].type, want[t].struct)
    <3>1. InCall(t) /\ virtualType = Asked(t) /\ FitsFunction(want[t])
      BY <2>1, <2>4 DEF InCall, ParametersOK, Pushed, WantFits
    <3>2. want[t].function \in Functions
      BY <2>1, <3>1, WantType
    <3>3. QED
      BY <2>2, <3>1, <3>2 DEF Stand, StructType, Asked, FitsFunction
  <2>5. QED
    BY <2>3, <2>4
<1>4. QED
  BY <1>1, <1>2, <1>3, PTL DEF Spec
=============================================================================
