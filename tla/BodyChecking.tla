---------------------------- MODULE BodyChecking ----------------------------
(***************************************************************************)
(* How the bodies of functions are checked (TASK_TYPE_BODY of              *)
(* src/BetBat/Compiler.cpp, TypeChecker.cpp, AST.cpp).  A call of a        *)
(* polymorphic function is resolved to an instance (FuncImpl); one that is *)
(* missing is made on the spot: its signature is computed and its body     *)
(* queued.  A type parameter is one variable of the declaration, so while  *)
(* an instance is checked the parameters stand for its types, and all      *)
(* threads see that.  The flags is_being_checked are to keep them apart.   *)
(*                                                                         *)
(* A function and a struct have at most one type parameter here.  Of a body*)
(* its calls remain.  A definition that stands right above another one and *)
(* bears a name of its own, unused, is a mistake one could make there.     *)
(***************************************************************************)
EXTENDS Integers, Sequences, FiniteSets, SequencesExt

CONSTANTS
    Threads, Functions, Structs, Types,
    None,           \* no struct, no type parameter
    T, S,           \* in a body: the parameter of its function, of its struct
    Programs,       \* the programs considered, with the threads that check them
    MaxTries        \* how often a thread looks at the flags before it gives up: 1000

\* A call names a function, and the type arguments of it and of its struct.
\* "explicit": f<A>(), "implicit": f(x) with x of the type, "construct":
\* construct() or destruct() of a pointer to the struct, whose init or cleanup
\* the function is.
Call == [how : {"explicit", "implicit", "construct"}, function : Functions,
         type : Types \cup {None, T, S}, struct : Types \cup {None, T, S}]

ProgramType ==
    [ parent : [Functions -> Structs \cup {None}],      \* ASTFunction::parentStruct
      generic : SUBSET (Functions \cup Structs),        \* those with a type parameter
      body : [Functions -> Seq(Call)],
      start : Seq(Functions),                           \* the entry point, exported ones
      castable : SUBSET (Types \X Types),
      threads : SUBSET Threads ]

\* A call has type arguments for what has a type parameter, and for nothing else;
\* a body has no other parameters than those of its function and its struct.
Fits(p, fn, call) ==
    /\ call.type # None <=> call.function \in p.generic
    /\ call.struct # None <=> p.parent[call.function] \in p.generic
    /\ T \in {call.type, call.struct} => fn \in p.generic
    /\ S \in {call.type, call.struct} => p.parent[fn] \in p.generic

ASSUME NamesAssumption ==
    /\ None \notin Functions \cup Structs \cup Types \cup {T, S}
    /\ Functions \cap Structs = {} /\ {T, S} \cap Types = {}
ASSUME ProgramsAssumption ==
    \A p \in Programs :
        /\ p \in ProgramType
        /\ \A fn \in Functions : \A k \in DOMAIN p.body[fn] : Fits(p, fn, p.body[fn][k])
        /\ \A k \in DOMAIN p.start : {p.start[k], p.parent[p.start[k]]} \cap p.generic = {}
ASSUME FiniteAssumption == IsFiniteSet(Functions) /\ IsFiniteSet(Threads)
ASSUME TriesAssumption == MaxTries \in Nat \ {0}

VARIABLES
    program,
    tasks,              \* Compiler::tasks: instances whose bodies are to be checked
    impls,              \* the instances, in the order they were added to their overloads
    used,               \* those of which usages is not 0
    checked,            \* those whose bodies checkFunctionScope was called for
    rechecked,          \* those it was called for more than once
    polyVersionCount,   \* of ASTFunction
    is_being_checked,   \* the functions and structs with the flag
    virtualType,        \* what the type parameter of a function or struct stands for
    polyStates,         \* of ASTFunction: what its parameters stood for before
    asserted,           \* the assertion that ended the compiler, or "none"
    pc,
    cur,                \* the instance whose body a thread checks
    at,                 \* the position in that body
    want,               \* what the call there asks for
    fresh,              \* polyVersion of the instance that is being made
    got,                \* the instance the last call was resolved to, or 0
    tries               \* at the flags

checks == <<checked, rechecked>>
parameters == <<virtualType, polyStates>>
shared == <<tasks, impls, used, checks, polyVersionCount, is_being_checked, parameters>>
local == <<cur, at, want, fresh, got, tries>>
vars == <<program, shared, asserted, pc, local>>

\* An instance: FuncImpl.
Impl(fn, ty, st, version) ==
    [function |-> fn, type |-> ty, struct |-> st, polyVersion |-> version]

Polymorphic(fn) == {fn, program.parent[fn]} \cap program.generic # {}
\* What has a flag for a function: it and its struct.
Flags(fn) == {fn, program.parent[fn]} \ {None}
Function(t) == impls[cur[t]].function
Body(t) == program.body[Function(t)]

\* The phase before has added one instance of every function that is not
\* polymorphic.
PlainImpls(p) ==
    LET plain == SetToSeq({fn \in Functions : {fn, p.parent[fn]} \cap p.generic = {}})
    IN  [i \in DOMAIN plain |-> Impl(plain[i], None, None, 0)]

Init ==
    /\ program \in Programs
    /\ impls = PlainImpls(program)
    /\ tasks \in [DOMAIN program.start -> DOMAIN impls]
    /\ \A k \in DOMAIN tasks : impls[tasks[k]].function = program.start[k]
    /\ used = {tasks[k] : k \in DOMAIN tasks}
    /\ checked = {} /\ rechecked = {}
    /\ polyVersionCount = [fn \in Functions |-> IF Polymorphic(fn) THEN 0 ELSE 1]
    /\ is_being_checked = {}
    /\ virtualType = [x \in Functions \cup Structs |-> None]
    /\ polyStates = [fn \in Functions |-> <<>>]
    /\ asserted = "none"
    /\ pc = [t \in Threads |-> IF t \in program.threads THEN "select" ELSE "done"]
    /\ cur = [t \in Threads |-> 0]
    /\ at = [t \in Threads |-> 1]
    /\ want = [t \in Threads |-> None]
    /\ fresh = [t \in Threads |-> 0]
    /\ got = [t \in Threads |-> 0]
    /\ tries = [t \in Threads |-> 0]

At(t, place) == asserted = "none" /\ pc[t] = place
Goto(t, place) == pc' = [pc EXCEPT ![t] = place]
AssertFails(t, what) == asserted' = what /\ Goto(t, "done")

-----------------------------------------------------------------------------
(* pushPolyState and popPolyState.                                          *)
StructType(fn) == IF program.parent[fn] = None THEN None ELSE virtualType[program.parent[fn]]
With(fn, ty, st) ==
    [x \in Functions \cup Structs |->
        IF x = fn THEN ty ELSE IF x = program.parent[fn] THEN st ELSE virtualType[x]]

pushPolyState(fn, ty, st) ==
    IF Polymorphic(fn)
    THEN /\ polyStates' = [polyStates EXCEPT ![fn] =
                Append(@, [type |-> virtualType[fn], struct |-> StructType(fn)])]
         /\ virtualType' = With(fn, ty, st)
    ELSE UNCHANGED <<polyStates, virtualType>>

\* A mistake: the types are disabled, as the generator does after a function.
Disabled(fn) == [type |-> None, struct |-> None]
Before(fn) == Last(polyStates[fn])

\* Assert(polyStates.size() > 0) holds: a thread pops what it has pushed.
popPolyState(fn) ==
    IF Polymorphic(fn)
    THEN /\ polyStates[fn] # <<>>
         /\ virtualType' = With(fn, Before(fn).type, Before(fn).struct)
         /\ polyStates' = [polyStates EXCEPT ![fn] = Front(@)]
    ELSE UNCHANGED <<polyStates, virtualType>>

-----------------------------------------------------------------------------
(* The task loop, as far as bodies are concerned (see Scheduler).           *)
\* A mistake: only the flag of the struct is looked at.
OnlyStructTested(fn) == program.parent[fn] \notin is_being_checked
Untouched(fn) == Flags(fn) \cap is_being_checked = {}
Pickable(i) == Untouched(impls[i].function)

\* The last task nobody's flags are in the way of is picked.
Select(t) ==
    /\ At(t, "select")
    /\ \E k \in DOMAIN tasks :
          /\ Pickable(tasks[k])
          /\ \A l \in DOMAIN tasks : l > k => ~Pickable(tasks[l])
          /\ cur' = [cur EXCEPT ![t] = tasks[k]]
          /\ is_being_checked' = is_being_checked \cup Flags(impls[tasks[k]].function)
          /\ tasks' = RemoveAt(tasks, k)
    /\ Goto(t, "scope")
    /\ UNCHANGED <<program, impls, used, checks, polyVersionCount, parameters, asserted, at,
                   want, fresh, got, tries>>

\* No body is left in the queue: the thread leaves, or goes on to what follows.
Finish(t) ==
    /\ At(t, "select")
    /\ tasks = <<>>
    /\ Goto(t, "done")
    /\ UNCHANGED <<program, shared, asserted, local>>

\* checkFunctionScope begins.
CheckFunctionScope(t) ==
    /\ At(t, "scope")
    /\ checked' = checked \cup {cur[t]}
    /\ rechecked' = rechecked \cup ({cur[t]} \cap checked)
    /\ pushPolyState(Function(t), impls[cur[t]].type, impls[cur[t]].struct)
    /\ at' = [at EXCEPT ![t] = 1]
    /\ got' = [got EXCEPT ![t] = 0]
    /\ Goto(t, "statement")
    /\ UNCHANGED <<program, tasks, impls, used, polyVersionCount, is_being_checked,
                   asserted, cur, want, fresh, tries>>

\* checkFunctionScope ends.
LeaveScope(t) ==
    /\ At(t, "statement") /\ at[t] > Len(Body(t))
    /\ popPolyState(Function(t))
    /\ Goto(t, "checked")
    /\ UNCHANGED <<program, tasks, impls, used, checks, polyVersionCount, is_being_checked,
                   asserted, local>>

BodyDone(t) ==
    /\ At(t, "checked")
    /\ is_being_checked' = is_being_checked \ Flags(Function(t))
    /\ Goto(t, "select")
    /\ UNCHANGED <<program, tasks, impls, used, checks, polyVersionCount, parameters,
                   asserted, local>>

-----------------------------------------------------------------------------
(* A call in a body.                                                        *)
\* What a type argument stands for while this body is checked.
Argument(t, x) ==
    IF x = T THEN virtualType[Function(t)] ELSE IF x = S THEN StructType(Function(t)) ELSE x

CheckCall(t) ==
    /\ At(t, "statement") /\ at[t] <= Len(Body(t))
    /\ LET call == Body(t)[at[t]]
       IN  want' = [want EXCEPT ![t] = [call EXCEPT !.type = Argument(t, @),
                                                   !.struct = Argument(t, @)]]
    /\ Goto(t, "lookup")
    /\ UNCHANGED <<program, shared, asserted, cur, at, fresh, got, tries>>

\* What the call asks for, and what getPolyOverload takes for want of that:
\* an instance the argument can be cast to.  construct() takes any instance.
Exact(w) == {i \in DOMAIN impls : /\ impls[i].function = w.function
                                  /\ impls[i].type = w.type /\ impls[i].struct = w.struct}
Castable(w) == {i \in DOMAIN impls : /\ impls[i].function = w.function
                                     /\ impls[i].struct = w.struct /\ w.how = "implicit"
                                     /\ <<w.type, impls[i].type>> \in program.castable}
Constructors(w) == {i \in DOMAIN impls : impls[i].function = w.function}

Overloads(w) ==
    IF w.how = "construct" THEN Constructors(w)
    ELSE IF Exact(w) # {} THEN Exact(w) ELSE Castable(w)
MoreThanOneMatch(w) == w.how # "construct" /\ Cardinality(Exact(w)) > 1

Resolved(t, i) ==
    /\ got' = [got EXCEPT ![t] = i]
    /\ at' = [at EXCEPT ![t] = @ + 1]
    /\ Goto(t, "statement")

\* The body of a function that is not polymorphic is queued by the first call of
\* it; the same is done for construct(), where it is queued already.
DeclaresUsage(w) == ~Polymorphic(w.function) \/ w.how = "construct"

\* The first instance that matches.
Found(t) ==
    /\ At(t, "lookup") /\ ~MoreThanOneMatch(want[t])
    /\ \E i \in Overloads(want[t]) :
          /\ \A k \in Overloads(want[t]) : i <= k
          /\ \/ /\ i \in used \/ ~DeclaresUsage(want[t])
                /\ used' = used \cup {i}
                /\ Resolved(t, i)
             \/ /\ i \notin used /\ DeclaresUsage(want[t])
                /\ got' = [got EXCEPT ![t] = i]
                /\ Goto(t, "queue")
                /\ UNCHANGED <<used, at>>
    /\ UNCHANGED <<program, tasks, impls, checks, polyVersionCount, is_being_checked,
                   parameters, asserted, cur, want, fresh, tries>>

TwoFound(t) ==
    /\ At(t, "lookup")
    /\ MoreThanOneMatch(want[t])
    /\ AssertFails(t, "More than one match!")
    /\ UNCHANGED <<program, shared, local>>

Missing(t) ==
    /\ At(t, "lookup")
    /\ Overloads(want[t]) = {}
    /\ tries' = [tries EXCEPT ![t] = 0]
    /\ Goto(t, IF want[t].how = "construct" THEN "version" ELSE "search")
    /\ UNCHANGED <<program, shared, asserted, cur, at, want, fresh, got>>

\* The parameters get the types of the call for as long as its arguments are
\* compared with those of the function; no flag is looked at.
Search(t) ==
    /\ At(t, "search")
    /\ pushPolyState(want[t].function, want[t].type, want[t].struct)
    /\ Goto(t, "compare")
    /\ UNCHANGED <<program, tasks, impls, used, checks, polyVersionCount, is_being_checked,
                   asserted, local>>

Compare(t) ==
    /\ At(t, "compare")
    /\ popPolyState(want[t].function)
    /\ Goto(t, "take")
    /\ UNCHANGED <<program, tasks, impls, used, checks, polyVersionCount, is_being_checked,
                   asserted, local>>

-----------------------------------------------------------------------------
(* computePolymorphicFunction.                                              *)
\* This thread may have the struct itself, and then it does not wait for it.
\* A mistake: it waits for itself.
NeverOwn(t, fn) == FALSE
OwnStruct(t, fn) == program.parent[Function(t)] = program.parent[fn]
\* A mistake: what the thread may do with the struct it may do with the function.
OwnStructSuffices(t, fn) ==
    ~OwnStruct(t, fn) /\ Flags(fn) \cap is_being_checked # {}
BeingChecked(t, fn) ==
    \/ fn \in is_being_checked
    \/ ~OwnStruct(t, fn) /\ program.parent[fn] \in is_being_checked

Take(t) ==
    /\ At(t, "take") /\ ~BeingChecked(t, want[t].function)
    /\ is_being_checked' = is_being_checked \cup Flags(want[t].function)
    /\ Goto(t, "version")
    /\ UNCHANGED <<program, tasks, impls, used, checks, polyVersionCount, parameters,
                   asserted, local>>

Wait(t) ==
    /\ At(t, "take") /\ BeingChecked(t, want[t].function)
    /\ IF tries[t] < MaxTries
       THEN tries' = [tries EXCEPT ![t] = @ + 1] /\ UNCHANGED <<asserted, pc>>
       ELSE AssertFails(t, "WHILE_TRUE_N") /\ UNCHANGED tries
    /\ UNCHANGED <<program, shared, cur, at, want, fresh, got>>

\* polyVersionCount++ in checkFunctionSignature is a read and a write.
ReadVersion(t) ==
    /\ At(t, "version")
    /\ fresh' = [fresh EXCEPT ![t] = polyVersionCount[want[t].function]]
    /\ Goto(t, "write")
    /\ UNCHANGED <<program, shared, asserted, cur, at, want, got, tries>>

WriteVersion(t) ==
    /\ At(t, "write")
    /\ polyVersionCount' = [polyVersionCount EXCEPT ![want[t].function] = fresh[t] + 1]
    /\ pushPolyState(want[t].function, want[t].type, want[t].struct)
    /\ Goto(t, "signature")
    /\ UNCHANGED <<program, tasks, impls, used, checks, is_being_checked, asserted, local>>

CheckFunctionSignature(t) ==
    /\ At(t, "signature")
    /\ popPolyState(want[t].function)
    /\ Goto(t, IF want[t].how = "construct" THEN "add" ELSE "release")
    /\ UNCHANGED <<program, tasks, impls, used, checks, polyVersionCount, is_being_checked,
                   asserted, local>>

\* The flag of the struct is cleared even if this thread still needs it.
Release(t) ==
    /\ At(t, "release")
    /\ is_being_checked' = is_being_checked \ Flags(want[t].function)
    /\ Goto(t, "add")
    /\ UNCHANGED <<program, tasks, impls, used, checks, polyVersionCount, parameters,
                   asserted, local>>

addPolyImplOverload(t) ==
    /\ At(t, "add")
    /\ impls' = Append(impls, Impl(want[t].function, want[t].type, want[t].struct,
                                   fresh[t]))
    /\ got' = [got EXCEPT ![t] = Len(impls) + 1]
    /\ Goto(t, "queue")
    /\ UNCHANGED <<program, tasks, used, checks, polyVersionCount, is_being_checked,
                   parameters, asserted, cur, at, want, fresh, tries>>

addTask_type_body(t) ==
    /\ At(t, "queue")
    /\ tasks' = Append(tasks, got[t])
    /\ Goto(t, "count")
    /\ UNCHANGED <<program, impls, used, checks, polyVersionCount, is_being_checked,
                   parameters, asserted, local>>

\* usages++.  The new instance is then looked up again.
CountUsage(t) ==
    /\ At(t, "count")
    /\ used' = used \cup {got[t]}
    /\ IF MoreThanOneMatch(want[t])
       THEN AssertFails(t, "More than one match!") /\ UNCHANGED <<at, got>>
       ELSE Resolved(t, got[t]) /\ UNCHANGED asserted
    /\ UNCHANGED <<program, tasks, impls, checks, polyVersionCount, is_being_checked,
                   parameters, cur, want, fresh, tries>>

-----------------------------------------------------------------------------
CallStep(t) ==
    \/ CheckCall(t) \/ Found(t) \/ TwoFound(t) \/ Missing(t) \/ Search(t) \/ Compare(t)
InstanceStep(t) ==
    \/ Take(t) \/ Wait(t) \/ ReadVersion(t) \/ WriteVersion(t) \/ CheckFunctionSignature(t)
    \/ Release(t) \/ addPolyImplOverload(t) \/ addTask_type_body(t) \/ CountUsage(t)
Step(t) ==
    \/ Select(t) \/ Finish(t) \/ CheckFunctionScope(t) \/ LeaveScope(t) \/ BodyDone(t)
    \/ CallStep(t) \/ InstanceStep(t)
Next == \E t \in Threads : Step(t)

Spec == Init /\ [][Next]_vars
FairSpec == Spec /\ \A t \in Threads : WF_vars(Step(t))

-----------------------------------------------------------------------------
(* Properties.                                                              *)
Alone == Cardinality(program.threads) = 1

\* The functions a thread is checking: the one whose body it is in and the one
\* whose signature it computes there.
InBody(t) == pc[t] \notin {"select", "done"}
InSignature(t) == pc[t] \in {"version", "write", "signature", "release"}
Checks(t) == (IF InBody(t) THEN {Function(t)} ELSE {})
             \cup (IF InSignature(t) THEN {want[t].function} ELSE {})

\* "only one thread can check function at any one time" (AST.h, at the flag):
\* no two threads are in the body or the signature of the same function.
OneChecker == \A t, u \in Threads : t # u => Checks(t) \cap Checks(u) = {}

\* The types of expressions and identifiers are kept per polyVersion: two
\* instances of a function never have the same.
VersionsDistinct ==
    \A i, k \in DOMAIN impls :
        i # k /\ impls[i].function = impls[k].function
            => impls[i].polyVersion # impls[k].polyVersion

\* A single thread checks a body, and computes a signature, with the parameters
\* of the function and its struct standing for the types of that instance,
\* whatever it has instantiated in between.
Stand(fn, ty, st) == virtualType[fn] = ty /\ StructType(fn) = st
TypesAreOwn ==
    Alone => \A t \in program.threads :
        /\ pc[t] = "statement" =>
              Stand(Function(t), impls[cur[t]].type, impls[cur[t]].struct)
        /\ pc[t] = "signature" => Stand(want[t].function, want[t].type, want[t].struct)

\* The compiler checks every body that is used exactly once and ends; only
\* several threads may run into an assertion.
AllChecked ==
    /\ \A t \in Threads : pc[t] = "done"
    /\ checked = used /\ rechecked = {}
EveryBodyChecked == <>(IF Alone THEN asserted = "none" /\ AllChecked
                       ELSE asserted # "none" \/ \A t \in Threads : pc[t] = "done")

\* The loop that waits for the flags comes to an end: WHILE_TRUE_N asserts that.
WaitsEnd == asserted # "WHILE_TRUE_N"

\* A call gets an instance for the struct it names, and for the function's type
\* arguments if it names them.
OwnInstance ==
    \A t \in Threads : pc[t] = "statement" /\ got[t] # 0 =>
        /\ impls[got[t]].struct = want[t].struct
        /\ want[t].how = "explicit" => impls[got[t]].type = want[t].type
=============================================================================
