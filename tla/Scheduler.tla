----------------------------- MODULE Scheduler -----------------------------
(***************************************************************************)
(* The task loop of the compiler: Compiler::processImports, the handlers   *)
(* it dispatches to and the functions those handlers call to extend the    *)
(* queue (src/BetBat/Compiler.cpp).  Every thread runs the same loop; they *)
(* share the queue `tasks`, the table `imports` and two counters under     *)
(* `lock_imports`, and pass a baton: a semaphore that starts at 1, of      *)
(* which the flag `signaled` says whether it has been handed on.           *)
(*                                                                         *)
(* One action is one critical section of lock_imports, or one access to    *)
(* shared state outside it.  What a handler does with the text of a file   *)
(* is given by `job`, the facts about the source that the handlers report  *)
(* to the scheduler, together with the options that steer it.              *)
(*                                                                         *)
(* A definition that stands right above another one and bears a name of its*)
(* own, unused, is a mistake one could make there: PROJECT.json names the  *)
(* property that notices it.                                               *)
(***************************************************************************)
EXTENDS Integers, Sequences, FiniteSets, SequencesExt

CONSTANTS
    Threads,            \* the main thread and those run() spawns
    Imports,            \* files a job may reach, the preload included
    Structs,            \* struct declarations of those files
    Functions,          \* functions with a body
    NoImport, NoFunction,
    Jobs                \* the compilations considered

TASK_LEX == 1
TASK_PREPROCESS_AND_PARSE == 2
TASK_TYPE_ENUMS == 16
TASK_TYPE_STRUCTS == 32
TASK_TYPE_FUNCTIONS == 64
TASK_TYPE_BODY == 128
TASK_GEN_BYTECODE == 256
TASK_GEN_BYTECODE_RUNDIR == 512
TASK_GEN_MACHINE_CODE == 1024

\* The phases every import goes through; TASK_TYPE_BODY is per function.
ImportPhases == {TASK_LEX, TASK_PREPROCESS_AND_PARSE, TASK_TYPE_ENUMS,
                 TASK_TYPE_STRUCTS, TASK_TYPE_FUNCTIONS, TASK_GEN_BYTECODE,
                 TASK_GEN_BYTECODE_RUNDIR, TASK_GEN_MACHINE_CODE}
TaskTypes == ImportPhases \cup {TASK_TYPE_BODY}

\* `function` is NoFunction for a task about a whole import.
Task(type, imp, fn) == [type |-> type, import |-> imp, function |-> fn]
CompilerTask == [type : TaskTypes, import : Imports,
                 function : Functions \cup {NoFunction}]
NoTask == [type |-> 0, import |-> NoImport, function |-> NoFunction]

\* The three things run exactly once under lock_miscellaneous.
OnceSteps == {"global_data", "comp_time_data", "run_directives"}

JobType ==
    [ main : Imports, preload : Imports \cup {NoImport},
      finds : [Imports -> SUBSET Imports],         \* #import directives
      conditional : [Imports -> SUBSET Imports],   \* those inside an #if
      active : [Imports -> SUBSET Imports],        \* those that take effect
      structs : [Imports -> Seq(Structs)],         \* in declaration order
      needs : [Structs -> SUBSET Structs],         \* by-value members
      home : [Functions -> Imports],
      calls : [Imports \cup Functions -> SUBSET Functions],
      entry : Functions \cup {NoFunction},         \* the function named entry_point
      has_entry_point : BOOLEAN,                   \* FALSE for a library
      exported : SUBSET Functions,
      bad : SUBSET (Imports \X TaskTypes),         \* phases that report an error
      only_preprocess : BOOLEAN,
      incremental_build : BOOLEAN,
      output_is_newer : BOOLEAN,                   \* than every source file
      blocking_semaphore : BOOLEAN ]   \* TRUE: Win32.cpp.  FALSE: Linux.cpp, whose wait()
                                       \* re-initialises the semaphore and never blocks

ASSUME NamesAssumption ==
    /\ NoImport \notin Imports
    /\ NoFunction \notin Functions
    /\ Imports \cap Functions = {}

ASSUME FiniteAssumption ==
    IsFiniteSet(Threads) /\ IsFiniteSet(Imports) /\ IsFiniteSet(Functions)

ASSUME JobsAssumption ==
    \A j \in Jobs : /\ j \in JobType
                    /\ j.main # j.preload
                    /\ j.entry # NoFunction => j.has_entry_point
                    /\ j.entry \notin j.exported
                    /\ \A i \in Imports : i \notin j.finds[i]

VARIABLES
    job,            \* what is compiled; never changes
    tasks,          \* Compiler::tasks
    imports,        \* ids in Compiler::imports
    unreadable,     \* imports whose import_id tokenize() set to 0
    deps, disabled, \* CompilerImport::dependencies, and the disabled ones
    state,          \* CompilerImport::state, as a set of task types
    shared,         \* the imports whose scopes an import's scope shares
    complete,       \* structs in state TYPE_COMPLETE
    stall,          \* Compiler::struct_tasks_since_last_change
    used,           \* functions whose FuncImpl::usages is not 0
    checking,       \* functions with is_being_checked
    body_checks,    \* how often TypeCheckBody ran for a function or import
    errors,         \* compile_stats.errors
    done_once, once_runs,  \* the have_... flags, and how often each step ran
    modified_known, \* last_modified_time # 0
    output_is_up_to_date, compiler_got_stuck,
    sem, signaled, waiting_threads, total_threads,
    pc,             \* where each thread is
    cur,            \* its picked_task
    todo,           \* imports or functions its handler has yet to go through
    target,         \* the import, function or once-step of the current iteration
    prev_errors,    \* the snapshot taken before a check
    out             \* tasks its handler has yet to add to the queue

data == <<deps, disabled, state, shared, complete, stall, used, checking,
          body_checks, errors, done_once, once_runs>>
queue == <<tasks, imports, unreadable>>
baton == <<sem, signaled, waiting_threads, total_threads>>
verdict == <<modified_known, output_is_up_to_date, compiler_got_stuck>>
local == <<cur, todo, target, prev_errors, out>>
vars == <<job, queue, data, baton, verdict, pc, local>>

-----------------------------------------------------------------------------
(* What run() leaves behind when it calls processImports: the preload and   *)
(* the initial import, each with its LEX task.                              *)
HasPreload == job.preload # NoImport
Preload == IF HasPreload THEN {job.preload} ELSE {}

Init ==
    /\ job \in Jobs
    /\ tasks = (IF HasPreload
                THEN <<Task(TASK_LEX, job.preload, NoFunction)>> ELSE <<>>)
               \o <<Task(TASK_LEX, job.main, NoFunction)>>
    /\ imports = Preload \cup {job.main}
    /\ unreadable = {}
    /\ deps = [i \in Imports |-> IF i = job.main THEN Preload ELSE {}]
    /\ disabled = [i \in Imports |-> {}]
    /\ state = [i \in Imports |-> {}]
    /\ shared = [i \in Imports |-> {}]
    /\ complete = {}
    /\ stall = 0
    /\ used = {}
    /\ checking = {}
    /\ body_checks = [x \in Imports \cup Functions |-> 0]
    /\ errors = 0
    /\ done_once = {}
    /\ once_runs = [s \in OnceSteps |-> 0]
    /\ modified_known = FALSE
    /\ output_is_up_to_date = FALSE
    /\ compiler_got_stuck = FALSE
    /\ sem = 1
    /\ signaled = TRUE
    /\ waiting_threads = 0
    /\ total_threads = 0
    /\ pc = [t \in Threads |-> "start"]
    /\ cur = [t \in Threads |-> NoTask]
    /\ todo = [t \in Threads |-> {}]
    /\ target = [t \in Threads |-> NoImport]
    /\ prev_errors = [t \in Threads |-> 0]
    /\ out = [t \in Threads |-> <<>>]

Goto(t, label) == pc' = [pc EXCEPT ![t] = label]

\* signal() on a semaphore whose maximum is 1.
Signal == sem' = 1 /\ signaled' = TRUE

-----------------------------------------------------------------------------
(* Entering the loop and waiting for the baton.  The counters are added to  *)
(* atomically here, but elsewhere changed by ++ and -- under lock_imports,  *)
(* which this code does not hold: if that falls between the read and the    *)
(* write of such a change, what is added here is lost.                      *)

SomebodyElseAt(t, labels) == \E u \in Threads \ {t} : pc[u] \in labels

RegisterTotal(t) ==
    /\ pc[t] = "start"
    /\ \/ total_threads' = total_threads + 1
       \/ SomebodyElseAt(t, {"leave"}) /\ UNCHANGED total_threads
    /\ Goto(t, "register")
    /\ UNCHANGED <<job, queue, data, sem, signaled, waiting_threads, verdict, local>>

RegisterWaiting(t) ==
    /\ pc[t] = "register"
    /\ \/ waiting_threads' = waiting_threads + 1
       \/ SomebodyElseAt(t, {"select", "finish"}) /\ UNCHANGED waiting_threads
    /\ Goto(t, "wait")
    /\ UNCHANGED <<job, queue, data, sem, signaled, total_threads, verdict, local>>

Wait(t) ==
    /\ pc[t] = "wait"
    /\ job.blocking_semaphore => sem > 0
    /\ sem' = 0
    /\ Goto(t, "select")
    /\ UNCHANGED <<job, queue, data, signaled, waiting_threads, total_threads,
                   verdict, local>>

-----------------------------------------------------------------------------
(* Which queued task may be picked.  The scan reads the states while handlers*)
(* set state bits outside the lock, so the checks take the states as seen.   *)

\* The states without the bits set by threads that have not had the lock since.
StateBefore(t) ==
    LET fresh == {u \in Threads \ {t} : pc[u] = "post"}
    IN  [i \in Imports |-> state[i] \ {cur[u].type : u \in {v \in fresh : cur[v].import = i}}]

\* The imports reached from S along dependencies, S included.
Reach(S) ==
    LET within[n \in 0..Cardinality(Imports)] ==
            IF n = 0 THEN S
            ELSE LET nearer == within[n - 1]
                 IN  nearer \cup UNION {deps[i] : i \in nearer}
    IN  within[Cardinality(Imports)]

\* Step 1: the dependencies that depend on i themselves.  (The flag the code
\* keeps is recomputed before each use and dependencies are never removed.)
NoCircularDeps(i) == {}
CircularDeps(i) == {d \in deps[i] : \E e \in Reach({d}) : i \in deps[e]}

Reached(phase, S, seen) == \A i \in S : phase \in seen[i]

PreprocessInAnyOrder(i, seen) == Reached(TASK_LEX, Reach(deps[i]), seen)
PreprocessBeforeCycleLexed(i, seen) ==
    Reached(TASK_PREPROCESS_AND_PARSE, Reach(deps[i] \ CircularDeps(i)), seen)
MayPreprocess(i, seen) ==
    LET circular == IF job.only_preprocess THEN deps[i] ELSE CircularDeps(i)
    IN  /\ Reached(TASK_PREPROCESS_AND_PARSE, Reach(deps[i] \ circular), seen)
        /\ Reached(TASK_LEX, Reach(circular), seen)

TypeEnumsAfterLex(i, seen) == Reached(TASK_LEX, deps[i], seen)
MayTypeEnums(i, seen) == Reached(TASK_PREPROCESS_AND_PARSE, deps[i], seen)

\* Only tasks in the queue are looked at, not those other threads work on.
InAnyWave(type) == TRUE
NothingQueuedBefore(type) == \A k \in DOMAIN tasks : tasks[k].type >= type

Pickable(task, seen) ==
    CASE task.type = TASK_LEX -> TRUE
      [] task.type = TASK_PREPROCESS_AND_PARSE -> MayPreprocess(task.import, seen)
      [] task.type = TASK_TYPE_ENUMS ->
            MayTypeEnums(task.import, seen)
      [] task.type = TASK_TYPE_STRUCTS ->
            Reached(TASK_TYPE_ENUMS, deps[task.import], seen)
      [] OTHER -> /\ task.function \notin checking
                  /\ NothingQueuedBefore(task.type)

\* The queue is scanned backwards; 0 when no task can be picked.
IsPicked(t, k) == /\ k # 0 => Pickable(tasks[k], state)
                  /\ \A l \in (k + 1)..Len(tasks) : ~Pickable(tasks[l], StateBefore(t))

ChecksModified(task) ==
    task.type = TASK_TYPE_FUNCTIONS /\ job.incremental_build /\ ~modified_known

\* What the handler of a task goes through one by one.
Work(task) ==
    CASE task.type = TASK_LEX -> job.finds[task.import]
      [] task.type = TASK_TYPE_BODY ->
            job.calls[IF task.function = NoFunction THEN task.import
                                                    ELSE task.function]
      [] OTHER -> {}
GenerateTypes == {TASK_GEN_BYTECODE, TASK_GEN_BYTECODE_RUNDIR}
FirstTarget(task) == IF task.type \in GenerateTypes THEN "global_data" ELSE NoImport

-----------------------------------------------------------------------------
(* The critical section that selects a task.  It takes the baton (signaled  *)
(* becomes FALSE) and hands it on, except when it finds tasks none of which *)
(* can be picked.                                                           *)

(* Below k is the index picked, or 0.                                       *)

CutShort(k) == k # 0 /\ ChecksModified(tasks[k]) /\ job.output_is_newer
Found(k) == k # 0 /\ ~CutShort(k)
Finished(k) == tasks = <<>> \/ (CutShort(k) /\ k = Len(tasks))

CheckedFunction(task) == {task.function} \ {NoFunction}

StaysWaiting == UNCHANGED waiting_threads
StopWaiting == waiting_threads' = waiting_threads - 1

TakeTask(t, task) ==
    /\ cur' = [cur EXCEPT ![t] = task]
    /\ todo' = [todo EXCEPT ![t] = Work(task)]
    /\ target' = [target EXCEPT ![t] = FirstTarget(task)]
    /\ checking' = checking \cup CheckedFunction(task)
    /\ Goto(t, "work")

SelectTask(t, k) ==
    /\ Found(k)
    /\ Signal
    /\ StopWaiting
    /\ TakeTask(t, tasks[k])
    /\ tasks' = RemoveAt(tasks, k)
    /\ modified_known' = (modified_known \/ ChecksModified(tasks[k]))
    /\ UNCHANGED <<job, imports, unreadable, deps, disabled, state, shared, complete,
                   stall, used, body_checks, errors, done_once, once_runs, total_threads,
                   output_is_up_to_date, compiler_got_stuck, prev_errors, out>>

\* resize(0) of the queue, when every source file is older than the output.
Discard(k) ==
    /\ tasks' = IF CutShort(k) THEN <<>> ELSE tasks
    /\ modified_known' = (modified_known \/ CutShort(k))
    /\ output_is_up_to_date' = (output_is_up_to_date \/ CutShort(k))
    /\ UNCHANGED <<imports, unreadable>>

SelectFinished(t, k) ==
    /\ ~Found(k) /\ Finished(k)
    /\ Signal
    /\ StopWaiting
    /\ Discard(k)
    /\ Goto(t, "leave")
    /\ UNCHANGED <<job, data, total_threads, compiler_got_stuck, local>>

SomebodyWaits == waiting_threads >= 1
NobodyElseWorks == waiting_threads = total_threads

\* Nobody else can change the queue: the loop is left, and nobody signalled.
SelectStuck(t, k) ==
    /\ ~Found(k) /\ ~Finished(k)
    /\ NobodyElseWorks
    /\ signaled' = FALSE
    /\ StopWaiting
    /\ compiler_got_stuck' = (compiler_got_stuck \/ errors = 0)
    /\ Discard(k)
    /\ Goto(t, "leave")
    /\ UNCHANGED <<job, data, sem, total_threads, local>>

SelectNothing(t, k) ==
    /\ ~Found(k) /\ ~Finished(k)
    /\ ~NobodyElseWorks
    /\ signaled' = FALSE
    /\ Discard(k)
    /\ Goto(t, "wait")
    /\ UNCHANGED <<job, data, sem, waiting_threads, total_threads,
                   compiler_got_stuck, local>>

Select(t) ==
    /\ pc[t] = "select"
    /\ \E k \in 0..Len(tasks) :
          /\ IsPicked(t, k)
          /\ SelectTask(t, k) \/ SelectFinished(t, k) \/ SelectStuck(t, k) \/ SelectNothing(t, k)

-----------------------------------------------------------------------------
(* Helpers of the handlers.                                                 *)

Working(t, label, type) == pc[t] = label /\ cur[t].type = type
IsBad(t) == <<cur[t].import, cur[t].type>> \in job.bad
NewErrors(t) == IF IsBad(t) THEN 1 ELSE 0

\* The state bit is set outside the lock; the follow-up tasks are added later.
Complete(t, follow_up) ==
    /\ state' = [state EXCEPT ![cur[t].import] = @ \cup {cur[t].type}]
    /\ out' = [out EXCEPT ![t] = follow_up]
    /\ Goto(t, IF follow_up = <<>> THEN "finish" ELSE "post")
FollowUp(t, type) == <<Task(type, cur[t].import, NoFunction)>>

\* The handler drops its task: no state bit, no follow-up.
Drop(t) == Goto(t, "finish") /\ UNCHANGED <<state, out>>

\* `int prev_errors = compile_stats.errors` before a check.
Snapshot(t) ==
    /\ pc[t] = "work"
    /\ cur[t].type \in {TASK_TYPE_ENUMS, TASK_TYPE_FUNCTIONS}
    /\ prev_errors' = [prev_errors EXCEPT ![t] = errors]
    /\ shared' = IF cur[t].type = TASK_TYPE_ENUMS
                 THEN [shared EXCEPT ![cur[t].import] =
                         deps[cur[t].import] \ disabled[cur[t].import]]
                 ELSE shared
    /\ Goto(t, "check")
    /\ UNCHANGED <<job, queue, deps, disabled, state, complete, stall, used, checking,
                   body_checks, errors, done_once, once_runs, baton, verdict,
                   cur, todo, target, out>>

-----------------------------------------------------------------------------
(* TASK_LEX: tokenize, then the first preprocessor phase finds imports.     *)

LexUnreadable(t) ==
    /\ Working(t, "work", TASK_LEX) /\ IsBad(t)
    /\ unreadable' = unreadable \cup {cur[t].import}
    /\ errors' = errors + 1
    /\ Goto(t, "finish")
    /\ UNCHANGED <<job, tasks, imports, deps, disabled, state, shared, complete, stall,
                   used, checking, body_checks, done_once, once_runs, baton, verdict, local>>

\* addOrFindImport, up to its unlock.  It returns 0 for an unreadable file.
FindImport(t) ==
    /\ Working(t, "work", TASK_LEX) /\ ~IsBad(t)
    /\ \E d \in todo[t] :
          \/ /\ d \in unreadable
             /\ todo' = [todo EXCEPT ![t] = @ \ {d}]
             /\ UNCHANGED <<tasks, imports, target, pc>>
          \/ /\ d \in imports \ unreadable
             /\ target' = [target EXCEPT ![t] = d]
             /\ Goto(t, "link")
             /\ UNCHANGED <<tasks, imports, todo>>
          \/ /\ d \notin imports
             /\ imports' = imports \cup {d}
             /\ tasks' = Append(tasks, Task(TASK_LEX, d, NoFunction))
             /\ target' = [target EXCEPT ![t] = d]
             /\ Goto(t, IF HasPreload THEN "link_preload" ELSE "link")
             /\ UNCHANGED todo
    /\ UNCHANGED <<job, unreadable, data, baton, verdict, cur, prev_errors, out>>

\* addDependency(new import, preload), in a critical section of its own.
LinkPreload(t) ==
    /\ pc[t] = "link_preload"
    /\ deps' = [deps EXCEPT ![target[t]] = @ \cup {job.preload}]
    /\ Goto(t, "link")
    /\ UNCHANGED <<job, queue, disabled, state, shared, complete, stall, used, checking,
                   body_checks, errors, done_once, once_runs, baton, verdict, local>>

\* addDependency(this import, found import); disabled inside an #if.
LinkImport(t) ==
    LET i == cur[t].import
        d == target[t]
    IN  /\ pc[t] = "link"
        /\ deps' = [deps EXCEPT ![i] = @ \cup {d}]
        /\ disabled' = [disabled EXCEPT ![i] =
                          IF d \in job.conditional[i] THEN @ \cup {d} ELSE @ \ {d}]
        /\ todo' = [todo EXCEPT ![t] = @ \ {d}]
        /\ Goto(t, "work")
        /\ UNCHANGED <<job, queue, state, shared, complete, stall, used, checking,
                       body_checks, errors, done_once, once_runs, baton, verdict,
                       cur, target, prev_errors, out>>

LexDone(t) ==
    /\ Working(t, "work", TASK_LEX) /\ ~IsBad(t) /\ todo[t] = {}
    /\ Complete(t, FollowUp(t, TASK_PREPROCESS_AND_PARSE))
    /\ UNCHANGED <<job, queue, deps, disabled, shared, complete, stall, used, checking,
                   body_checks, errors, done_once, once_runs, baton, verdict,
                   cur, todo, target, prev_errors>>

(* TASK_PREPROCESS_AND_PARSE: the second phase enables the active imports;  *)
(* with only_preprocess nothing follows and no state bit is set.            *)
Preprocess(t) ==
    LET i == cur[t].import
    IN  /\ Working(t, "work", TASK_PREPROCESS_AND_PARSE)
        /\ disabled' = [disabled EXCEPT ![i] = @ \ job.active[i]]
        /\ errors' = errors + NewErrors(t)
        /\ IF job.only_preprocess THEN Drop(t)
           ELSE Complete(t, FollowUp(t, TASK_TYPE_ENUMS))
        /\ UNCHANGED <<job, queue, deps, shared, complete, stall, used, checking,
                       body_checks, done_once, once_runs, baton, verdict,
                       cur, todo, target, prev_errors>>

(* TASK_TYPE_ENUMS, after the scopes have been shared.                      *)
HadErrors(t) == errors' > prev_errors[t]

TypeEnums(t) ==
    /\ Working(t, "check", TASK_TYPE_ENUMS)
    /\ errors' = errors + NewErrors(t)
    /\ IF HadErrors(t) THEN Drop(t) ELSE Complete(t, FollowUp(t, TASK_TYPE_STRUCTS))
    /\ UNCHANGED <<job, queue, deps, disabled, shared, complete, stall, used, checking,
                   body_checks, done_once, once_runs, baton, verdict,
                   cur, todo, target, prev_errors>>

-----------------------------------------------------------------------------
(* TASK_TYPE_STRUCTS.  A sweep completes, in declaration order, the structs *)
(* whose members' structs are complete.  An import that is not done goes    *)
(* back to the front of the queue, until a shared counter of sweeps without *)
(* progress says that further ones are pointless.                           *)

Sweep(i) ==
    LET decl == job.structs[i]
        done[k \in DOMAIN decl] ==
            job.needs[decl[k]] \subseteq complete \cup {decl[l] : l \in {m \in 1..(k - 1) : done[m]}}
    IN  complete \cup {decl[k] : k \in {m \in DOMAIN decl : done[m]}}
Incomplete(i, done) == ~(ToSet(job.structs[i]) \subseteq done)

ResetByEverySweep == 0
SweepsSinceChange == IF complete' # complete THEN 0 ELSE stall + 1

\* The counter is changed without a lock, so another thread's ++ may overwrite
\* what this one writes.
AnotherSweep(t) == \E u \in Threads \ {t} : Working(u, "work", TASK_TYPE_STRUCTS)

TypeStructs(t) ==
    LET i == cur[t].import
    IN  /\ Working(t, "work", TASK_TYPE_STRUCTS)
        /\ complete' = Sweep(i)
        /\ \/ stall' = SweepsSinceChange
           \/ AnotherSweep(t) /\ UNCHANGED stall
        /\ IF Incomplete(i, complete')
           THEN Goto(t, "judge") /\ UNCHANGED <<state, out>>
           ELSE Complete(t, FollowUp(t, TASK_TYPE_FUNCTIONS))
        /\ UNCHANGED <<job, queue, deps, disabled, shared, used, checking, body_checks,
                       errors, done_once, once_runs, baton, verdict,
                       cur, todo, target, prev_errors>>

\* tasks.size() is read without the lock.
NoProgressNow == stall > 0
NoMoreProgress == stall > 2 * Len(tasks)

JudgeRequeue(t) ==
    /\ pc[t] = "judge" /\ ~NoMoreProgress
    /\ Goto(t, "requeue")
    /\ UNCHANGED <<job, queue, data, baton, verdict, local>>

JudgeGiveUp(t) ==
    LET i == cur[t].import
    IN  /\ pc[t] = "judge" /\ NoMoreProgress
        /\ complete' = Sweep(i)
        /\ errors' = errors + (IF Incomplete(i, complete') THEN 1 ELSE 0)
        /\ Goto(t, "finish")
        /\ UNCHANGED <<job, queue, deps, disabled, state, shared, stall, used, checking,
                       body_checks, done_once, once_runs, baton, verdict, local>>

\* At the front, behind all other tasks of a backwards scan.
NotReinserted(task) == tasks
Reinserted(task) == <<task>> \o tasks

Requeue(t) ==
    /\ pc[t] = "requeue"
    /\ tasks' = Reinserted(cur[t])
    /\ Goto(t, "finish")
    /\ UNCHANGED <<job, imports, unreadable, data, baton, verdict, local>>

(* TASK_TYPE_FUNCTIONS: an exported function is queued at once; the entry   *)
(* function counts as used and its body is queued, once, by the import that *)
(* declares it, followed by the body of the import itself.                  *)
Declares(i, fns) == {fn \in fns : fn # NoFunction /\ job.home[fn] = i}
FunctionBodies(i, fns) ==
    SetToSeq({Task(TASK_TYPE_BODY, i, fn) : fn \in Declares(i, fns)})

ExportedFromStart(i) == Declares(i, job.exported)
UsedFromStart(i) == Declares(i, {job.entry} \cup job.exported)

BodyTasks(i) ==
    IF job.has_entry_point
    THEN FunctionBodies(i, {job.entry}) \o <<Task(TASK_TYPE_BODY, i, NoFunction)>>
    ELSE <<>>

TypeFunctions(t) ==
    LET i == cur[t].import
    IN  /\ Working(t, "check", TASK_TYPE_FUNCTIONS)
        /\ errors' = errors + NewErrors(t)
        /\ used' = used \cup UsedFromStart(i)
        /\ tasks' = tasks \o FunctionBodies(i, job.exported \ used)
        /\ IF HadErrors(t) THEN Drop(t)
           ELSE Complete(t, BodyTasks(i) \o FollowUp(t, TASK_GEN_BYTECODE))
        /\ UNCHANGED <<job, imports, unreadable, deps, disabled, shared, complete, stall, checking,
                       body_checks, done_once, once_runs, baton, verdict,
                       cur, todo, target, prev_errors>>

(* TASK_TYPE_BODY: checking a body declares the usage of what it calls,     *)
(* which queues a body whose usages is still 0.                             *)
Call(t) ==
    /\ Working(t, "work", TASK_TYPE_BODY)
    /\ \E f \in todo[t] :
          /\ target' = [target EXCEPT ![t] = f]
          /\ tasks' = IF f \in used THEN tasks
                      ELSE Append(tasks, Task(TASK_TYPE_BODY, job.home[f], f))
    /\ Goto(t, "declare")
    /\ UNCHANGED <<job, imports, unreadable, data, baton, verdict,
                   cur, todo, prev_errors, out>>

DeclareUsage(t) ==
    /\ pc[t] = "declare"
    /\ used' = used \cup {target[t]}
    /\ todo' = [todo EXCEPT ![t] = @ \ {target[t]}]
    /\ Goto(t, "work")
    /\ UNCHANGED <<job, queue, deps, disabled, state, shared, complete, stall, checking,
                   body_checks, errors, done_once, once_runs, baton, verdict,
                   cur, target, prev_errors, out>>

Subject(task) == IF task.function = NoFunction THEN task.import ELSE task.function

BodyDone(t) ==
    /\ Working(t, "work", TASK_TYPE_BODY) /\ todo[t] = {}
    /\ body_checks' = [body_checks EXCEPT ![Subject(cur[t])] = @ + 1]
    /\ errors' = errors + NewErrors(t)
    /\ checking' = checking \ {cur[t].function}
    /\ Goto(t, "finish")
    /\ UNCHANGED <<job, queue, deps, disabled, state, shared, complete, stall, used,
                   done_once, once_runs, baton, verdict, local>>

-----------------------------------------------------------------------------
(* TASK_GEN_BYTECODE and TASK_GEN_BYTECODE_RUNDIR: first the steps that     *)
(* must run once, each guarded by a quick check outside lock_miscellaneous  *)
(* and a second one under it; then GenerateScope.                           *)

NeedsStep(t, step) ==
    /\ step \notin done_once
    /\ step # "global_data" => cur[t].type = TASK_GEN_BYTECODE_RUNDIR
    /\ step = "run_directives" => errors = 0

StepAfter == [global_data |-> "comp_time_data", comp_time_data |-> "run_directives"]

\* On to the next step, or to GenerateScope with a snapshot of the errors.
Advance(t) ==
    IF target[t] = "run_directives"
    THEN /\ prev_errors' = [prev_errors EXCEPT ![t] = errors]
         /\ Goto(t, "check")
         /\ UNCHANGED target
    ELSE /\ target' = [target EXCEPT ![t] = StepAfter[target[t]]]
         /\ Goto(t, "work")
         /\ UNCHANGED prev_errors

QuickCheck(t) ==
    /\ pc[t] = "work" /\ cur[t].type \in GenerateTypes
    /\ IF NeedsStep(t, target[t])
       THEN Goto(t, "once") /\ UNCHANGED <<target, prev_errors>>
       ELSE Advance(t)
    /\ UNCHANGED <<job, queue, data, baton, verdict, cur, todo, out>>

\* The second check, under lock_miscellaneous.
NoSecondCheck(step) == FALSE
DoneMeanwhile(step) == step \in done_once

RunOnce(t) ==
    /\ pc[t] = "once"
    /\ IF DoneMeanwhile(target[t]) THEN UNCHANGED <<done_once, once_runs>>
       ELSE /\ done_once' = done_once \cup {target[t]}
            /\ once_runs' = [once_runs EXCEPT ![target[t]] = @ + 1]
    /\ Advance(t)
    /\ UNCHANGED <<job, queue, deps, disabled, state, shared, complete, stall, used,
                   checking, body_checks, errors, baton, verdict, cur, todo, out>>

GenerateScope(t) ==
    /\ pc[t] = "check" /\ cur[t].type \in GenerateTypes
    /\ errors' = errors + NewErrors(t)
    /\ IF HadErrors(t) THEN Drop(t)
       ELSE Complete(t, FollowUp(t, IF cur[t].type = TASK_GEN_BYTECODE
                                    THEN TASK_GEN_BYTECODE_RUNDIR
                                    ELSE TASK_GEN_MACHINE_CODE))
    /\ UNCHANGED <<job, queue, deps, disabled, shared, complete, stall, used, checking,
                   body_checks, done_once, once_runs, baton, verdict,
                   cur, todo, target, prev_errors>>

(* TASK_GEN_MACHINE_CODE                                                    *)
GenerateMachineCode(t) ==
    /\ Working(t, "work", TASK_GEN_MACHINE_CODE)
    /\ Complete(t, <<>>)
    /\ UNCHANGED <<job, queue, deps, disabled, shared, complete, stall, used, checking,
                   body_checks, errors, done_once, once_runs, baton, verdict,
                   cur, todo, target, prev_errors>>

-----------------------------------------------------------------------------
(* The end of every handler, and the way out of the loop.                   *)

AddFollowUp(t) ==
    /\ pc[t] = "post"
    /\ tasks' = Append(tasks, Head(out[t]))
    /\ out' = [out EXCEPT ![t] = Tail(@)]
    /\ Goto(t, IF Len(out[t]) = 1 THEN "finish" ELSE "post")
    /\ UNCHANGED <<job, imports, unreadable, data, baton, verdict,
                   cur, todo, target, prev_errors>>

HandOnTwice == Signal
HandOn == IF signaled THEN UNCHANGED <<sem, signaled>> ELSE Signal

Finish(t) ==
    /\ pc[t] = "finish"
    /\ HandOn
    /\ waiting_threads' = waiting_threads + 1
    /\ cur' = [cur EXCEPT ![t] = NoTask]
    /\ Goto(t, "wait")
    /\ UNCHANGED <<job, queue, data, total_threads, verdict,
                   todo, target, prev_errors, out>>

Leave(t) ==
    /\ pc[t] = "leave"
    /\ total_threads' = total_threads - 1
    /\ Goto(t, "done")
    /\ UNCHANGED <<job, queue, data, sem, signaled, waiting_threads, verdict, local>>

Enter(t) == RegisterTotal(t) \/ RegisterWaiting(t) \/ Wait(t) \/ Select(t)
Lex(t) == LexUnreadable(t) \/ FindImport(t) \/ LinkPreload(t) \/ LinkImport(t) \/ LexDone(t)
TypeCheck(t) ==
    \/ Snapshot(t) \/ TypeEnums(t)
    \/ TypeStructs(t) \/ JudgeRequeue(t) \/ JudgeGiveUp(t) \/ Requeue(t)
    \/ TypeFunctions(t)
    \/ Call(t) \/ DeclareUsage(t) \/ BodyDone(t)
Generate(t) == QuickCheck(t) \/ RunOnce(t) \/ GenerateScope(t) \/ GenerateMachineCode(t)
Exit(t) == AddFollowUp(t) \/ Finish(t) \/ Leave(t)

processImports(t) ==
    Enter(t) \/ Lex(t) \/ Preprocess(t) \/ TypeCheck(t) \/ Generate(t) \/ Exit(t)

\* Every thread has returned and run() goes on.
Returned == \A t \in Threads : pc[t] = "done"
AfterReturn == Returned /\ UNCHANGED vars

Next == (\E t \in Threads : processImports(t)) \/ AfterReturn

Spec == Init /\ [][Next]_vars
\* Threads are scheduled by the operating system: one that can run will.
FairSpec == Spec /\ \A t \in Threads : WF_vars(processImports(t))

-----------------------------------------------------------------------------
(* What the scheduler promises.                                             *)

Labels == {"start", "register", "wait", "select", "work", "link_preload", "link",
           "check", "judge", "requeue", "declare", "once", "post", "finish",
           "leave", "done"}
Handling(t) == pc[t] \notin {"start", "register", "wait", "select", "leave", "done"}

QueueTypes ==
    /\ tasks \in Seq(CompilerTask)
    /\ imports \subseteq Imports
    /\ unreadable \subseteq Imports
DataTypes ==
    /\ deps \in [Imports -> SUBSET Imports]
    /\ disabled \in [Imports -> SUBSET Imports]
    /\ state \in [Imports -> SUBSET TaskTypes]
    /\ shared \in [Imports -> SUBSET Imports]
    /\ complete \subseteq Structs
    /\ stall \in Nat
    /\ used \subseteq Functions
    /\ checking \subseteq Functions
    /\ body_checks \in [Imports \cup Functions -> Nat]
    /\ errors \in Nat
    /\ done_once \subseteq OnceSteps
    /\ once_runs \in [OnceSteps -> Nat]
BatonTypes ==
    /\ sem \in {0, 1} /\ signaled \in BOOLEAN
    /\ waiting_threads \in Int /\ total_threads \in Int
VerdictTypes ==
    /\ modified_known \in BOOLEAN /\ output_is_up_to_date \in BOOLEAN
    /\ compiler_got_stuck \in BOOLEAN
LocalTypes ==
    /\ pc \in [Threads -> Labels]
    /\ cur \in [Threads -> CompilerTask \cup {NoTask}]
    /\ todo \in [Threads -> SUBSET (Imports \cup Functions)]
    /\ target \in [Threads -> Imports \cup Functions \cup OnceSteps \cup {NoImport}]
    /\ prev_errors \in [Threads -> Nat]
    /\ out \in [Threads -> Seq(CompilerTask)]

\* Every variable holds a value of its kind; of the task a thread has in hand
\* and of the sequences SetToSeq makes this is not obvious.
TypeOK == /\ job \in JobType
          /\ QueueTypes /\ DataTypes /\ BatonTypes /\ VerdictTypes /\ LocalTypes

\* The baton (lock_wait_for_imports and `signaled`), where wait() blocks: a
\* thread that is past wait() and has not yet entered its critical section has
\* it alone, and `signaled` says that it lies in the semaphore or is such a
\* thread's, so no signal() ever exceeds the semaphore's maximum of 1.
AtMostOneSelector == \A t, u \in Threads : pc[t] = "select" /\ pc[u] = "select" => t = u
SignaledIsBaton == signaled <=> (sem = 1 \/ \E t \in Threads : pc[t] = "select")
BatonNotCopied == sem = 1 => \A t \in Threads : pc[t] # "select"
BatonOK == job.blocking_semaphore => AtMostOneSelector /\ SignaledIsBaton /\ BatonNotCopied

\* waiting_threads and total_threads, each updated apart from the other and
\* apart from the step it describes, never count a thread that is not at the
\* semaphore, or not in the loop, and until a thread has left the loop
\* total_threads misses none that is in it.
AtSemaphore == {t \in Threads : pc[t] \in {"wait", "select"}}
InLoop == {t \in Threads : pc[t] \notin {"start", "done"}}
NobodyHasLeft == \A t \in Threads : pc[t] \notin {"leave", "done"}
CountersOK ==
    /\ waiting_threads <= Cardinality(AtSemaphore)
    /\ total_threads <= Cardinality(InLoop)
    /\ NobodyHasLeft => total_threads = Cardinality(InLoop)

\* "Some tasks have dependencies that cannot be computed" (and the silent exit
\* when there are errors) only while no thread works on a task, which could
\* still make one of the remaining tasks pickable.  This is said of the first
\* thread to leave the loop: afterwards total_threads may miss a thread.
GivesUpOnlyWhenQuiet ==
    [][\A t \in Threads :
         NobodyHasLeft /\ pc[t] = "select" /\ pc'[t] = "leave" /\ tasks' # <<>> =>
           \A u \in Threads : ~Handling(u)]_vars

\* A program none of whose phases reports an error never makes the compiler
\* say that it has a bug, whatever imports what.
NeverStuck == ~compiler_got_stuck

\* matchMacro asserts that every import reachable from the one that is being
\* preprocessed has been through the first phase.
LexedFirst ==
    \A t \in Threads : Working(t, "work", TASK_PREPROCESS_AND_PARSE) =>
        Reached(TASK_LEX, Reach(deps[cur[t].import]), state)

\* Unless imports depend on each other the dependency is preprocessed first,
\* so that its macros exist when they are expected, and those of the preload
\* are visible to every import.
MacrosExist ==
    \A t \in Threads : Working(t, "work", TASK_PREPROCESS_AND_PARSE) =>
        LET i == cur[t].import
        IN  /\ Preload \subseteq deps[i] \cup {i}
            /\ ~job.only_preprocess =>
                  \A d \in deps[i] : \/ i \in Reach({d})
                                     \/ TASK_PREPROCESS_AND_PARSE \in state[d]

\* A scope that is shared with an import exists: its file has been parsed.
SharedScopesParsed ==
    \A i \in Imports : Reached(TASK_PREPROCESS_AND_PARSE, shared[i], state)

\* Global data, compile time data and global run directives are produced once.
OnceEach == \A s \in OnceSteps : once_runs[s] <= 1

\* No body is type checked twice (checkFunctionScope asserts that it has not
\* seen the function, processImports that it has not seen the import).
BodyCheckedOnce == \A x \in Imports \cup Functions : body_checks[x] <= 1

\* A task of a wave is worked on only when no task of an earlier wave is
\* queued or in another thread's hands: all structs before signatures, all
\* signatures before bodies, all bodies before bytecode, functions without
\* run directives before those with, all bytecode before machine code.
WaveOrder ==
    \A t \in Threads : Handling(t) /\ cur[t].type >= TASK_TYPE_FUNCTIONS =>
        /\ \A k \in DOMAIN tasks : tasks[k].type >= cur[t].type
        /\ \A u \in Threads : Handling(u) => cur[u].type >= cur[t].type

\* The meaning of the waves: when a task of a wave is worked on, every import
\* has been through all earlier phases (unless errors were reported).
PhasesBefore(type) == {p \in ImportPhases : p < type}
PhaseBarrier ==
    \A t \in Threads : Handling(t) /\ cur[t].type >= TASK_TYPE_FUNCTIONS /\ errors = 0 =>
        \A i \in imports : PhasesBefore(cur[t].type) \subseteq state[i]

\* When everybody has returned without errors, every import found has been
\* through every phase and the body of every function used has been checked.
NothingDropped ==
    Returned /\ errors = 0 /\ ~output_is_up_to_date /\ ~job.only_preprocess =>
        /\ tasks = <<>>
        /\ \A i \in imports : ImportPhases \subseteq state[i]
        /\ \A x \in used \cup (IF job.has_entry_point THEN imports ELSE {}) :
              body_checks[x] > 0

\* A struct is reported as unresolvable only if it is: while somebody could
\* still complete a struct nobody gives up on one that waits for it.  (Not so once
\* another phase has reported an error: an import that is held up by it keeps its
\* structs incomplete, and the first sweeps over the others exhaust the counter.)
GivesUpOnlyWithoutProgress ==
    [][\A t \in Threads : pc[t] = "judge" /\ pc'[t] = "finish" /\ (errors = 0 \/ job.bad = {}) =>
           \A i \in imports : Sweep(i) = complete]_vars

\* Every thread that entered processImports returns from it.
Termination == <>Returned

-----------------------------------------------------------------------------
\* The task loop implements the pipeline.  An import is given up when it still
\* has phases to go, but no task for one is in a thread's hands or in the queue
\* of a loop that is still running.
ImportTask(task, i) == task.import = i /\ task.type # TASK_TYPE_BODY
Running == \E t \in Threads : pc[t] \notin {"leave", "done"}
OnItsWay(i) ==
    \/ Running /\ \E k \in DOMAIN tasks : ImportTask(tasks[k], i)
    \/ \E t \in Threads : Handling(t) /\ ImportTask(cur[t], i)
Stage == [i \in Imports |-> Cardinality(state[i])]
GivenUp == {i \in imports : ~OnItsWay(i) /\ state[i] # ImportPhases}
Pipe == INSTANCE Pipeline WITH
    Files <- Imports, Phases <- Cardinality(ImportPhases), FirstWave <- 5,
    found <- imports, stage <- Stage, given_up <- GivenUp

\* With one thread (the default) the loop implements the pipeline: imports are
\* found only while imports are lexed, and the waves go over all of them.
ImplementsPipeline == Pipe!Spec
\* Every import is compiled to the end or given up.
EverythingEnds == Pipe!EverythingEnds
=============================================================================
