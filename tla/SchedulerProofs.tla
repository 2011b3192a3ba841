--------------------------- MODULE SchedulerProofs ---------------------------
(***************************************************************************)
(* What holds of the task loop for any number of threads and any program,  *)
(* from the types of its state to this: every import has at most one task  *)
(* about it as a whole, wherever that is, in the queue, in a thread's      *)
(* hands or about to be queued.                                            *)
(***************************************************************************)
EXTENDS Scheduler, FiniteSetTheorems, SequenceTheorems, TLAPS

-----------------------------------------------------------------------------
(* Types.                                                                   *)

\* What a thread's own variables hold depends on where it is.
LocalOK(t) ==
    /\ Handling(t) => cur[t] \in CompilerTask
    /\ Handling(t) /\ cur[t].type = TASK_LEX => todo[t] \subseteq Imports
    /\ Handling(t) /\ cur[t].type = TASK_TYPE_BODY => todo[t] \subseteq Functions
    /\ pc[t] \in {"link_preload", "link"} =>
          cur[t].type = TASK_LEX /\ target[t] \in Imports
    /\ pc[t] = "link_preload" => HasPreload
    /\ pc[t] = "declare" => cur[t].type = TASK_TYPE_BODY /\ target[t] \in Functions
    /\ pc[t] = "once" => cur[t].type \in GenerateTypes
    /\ pc[t] \in {"work", "once"} /\ cur[t].type \in GenerateTypes => target[t] \in OnceSteps
    /\ pc[t] = "post" => out[t] # <<>>

TypeInv == TypeOK /\ \A t \in Threads : LocalOK(t)

BodyTask == {task \in CompilerTask : task.type = TASK_TYPE_BODY}

\* A set of bodies that is queued as a sequence becomes a sequence of tasks.
LEMMA FunctionBodiesType ==
    ASSUME NEW i \in Imports, NEW fns, Declares(i, fns) \subseteq Functions
    PROVE  /\ FunctionBodies(i, fns) \in Seq(BodyTask)
           /\ FunctionBodies(i, fns) \in Seq(CompilerTask)
<1> DEFINE T == {Task(TASK_TYPE_BODY, i, fn) : fn \in Declares(i, fns)}
           g == [fn \in Declares(i, fns) |-> Task(TASK_TYPE_BODY, i, fn)]
<1>1. IsFiniteSet(Declares(i, fns))
  BY FS_Subset, FiniteAssumption
<1>2. g \in Surjection(Declares(i, fns), T)
  BY DEF Surjection
<1>3. IsFiniteSet(T)
  BY <1>1, <1>2, FS_Surjection
<1>4. T \subseteq BodyTask
  BY DEF CompilerTask, Task, TaskTypes, BodyTask
<1>5. Cardinality(T) \in Nat /\ ExistsBijection(1..Cardinality(T), T)
  BY <1>3, FS_CardinalityType
<1>6. \E h \in [1..Cardinality(T) -> T] : IsInjective(h)
  BY <1>5 DEF ExistsBijection, Bijection, Injection, IsInjective
<1>7. SetToSeq(T) \in [1..Cardinality(T) -> T]
  BY <1>6 DEF SetToSeq
<1>8. SetToSeq(T) \in [1..Cardinality(T) -> BodyTask]
  BY <1>4, <1>7
<1>9. FunctionBodies(i, fns) \in Seq(BodyTask)
  BY <1>5, <1>8, SeqDef DEF FunctionBodies
<1>10. QED
  BY <1>9, SeqMonotonic DEF BodyTask

-----------------------------------------------------------------------------
(* What a step leaves alone, and what the fields of a task and of a job are. *)

\* A step of one thread leaves the job and the other threads' variables alone.
LEMMA OthersUnchanged ==
    ASSUME LocalTypes, NEW t \in Threads, processImports(t)
    PROVE  /\ job' = job
           /\ \A u \in Threads \ {t} :
                 /\ pc'[u] = pc[u] /\ cur'[u] = cur[u] /\ todo'[u] = todo[u]
                 /\ target'[u] = target[u] /\ out'[u] = out[u]
<1> USE DEF LocalTypes, Goto, local
<1>1. CASE Enter(t)
  BY <1>1 DEF Enter, RegisterTotal, RegisterWaiting, Wait, Select, SelectTask, TakeTask,
              SelectFinished, SelectStuck, SelectNothing
<1>2. CASE Lex(t) \/ Preprocess(t)
  BY <1>2 DEF Lex, LexUnreadable, FindImport, LinkPreload, LinkImport, LexDone,
              Preprocess, Complete, Drop
<1>3. CASE Snapshot(t) \/ TypeEnums(t) \/ TypeFunctions(t)
  BY <1>3 DEF Snapshot, TypeEnums, TypeFunctions, Complete, Drop
<1>4. CASE TypeStructs(t) \/ JudgeRequeue(t) \/ JudgeGiveUp(t) \/ Requeue(t)
  BY <1>4 DEF TypeStructs, JudgeRequeue, JudgeGiveUp, Requeue, Complete
<1>5. CASE Call(t) \/ DeclareUsage(t) \/ BodyDone(t)
  BY <1>5 DEF Call, DeclareUsage, BodyDone
<1>6. CASE Generate(t)
  BY <1>6 DEF Generate, QuickCheck, RunOnce, GenerateScope, GenerateMachineCode,
              Advance, Complete, Drop
<1>7. CASE Exit(t)
  BY <1>7 DEF Exit, AddFollowUp, Finish, Leave
<1>8. QED
  BY <1>1, <1>2, <1>3, <1>4, <1>5, <1>6, <1>7 DEF processImports, TypeCheck

\* A task has one of the task types, an import and maybe a function.
LEMMA TaskFields ==
    ASSUME NEW task \in CompilerTask
    PROVE  /\ task.type \in TaskTypes /\ task.type \in Nat
           /\ task.import \in Imports
           /\ task.function \in Functions \cup {NoFunction}
           /\ task # NoTask
  BY DEF CompilerTask, TaskTypes, ImportPhases, NoTask, TASK_LEX, TASK_PREPROCESS_AND_PARSE,
         TASK_TYPE_ENUMS, TASK_TYPE_STRUCTS, TASK_TYPE_FUNCTIONS, TASK_TYPE_BODY,
         TASK_GEN_BYTECODE, TASK_GEN_BYTECODE_RUNDIR, TASK_GEN_MACHINE_CODE

\* The kinds of a job's fields.
LEMMA JobFields ==
    ASSUME job \in JobType
    PROVE  /\ job.main \in Imports /\ job.preload \in Imports \cup {NoImport}
           /\ job.finds \in [Imports -> SUBSET Imports]
           /\ job.conditional \in [Imports -> SUBSET Imports]
           /\ job.active \in [Imports -> SUBSET Imports]
           /\ job.structs \in [Imports -> Seq(Structs)]
           /\ job.home \in [Functions -> Imports]
           /\ job.calls \in [Imports \cup Functions -> SUBSET Functions]
           /\ job.entry \in Functions \cup {NoFunction}
           /\ job.exported \subseteq Functions
  BY DEF JobType

\* The phases an import goes through, and TASK_TYPE_BODY, are task types.
LEMMA PhasesAreTypes ==
    /\ {TASK_LEX, TASK_PREPROCESS_AND_PARSE, TASK_TYPE_ENUMS, TASK_TYPE_STRUCTS,
        TASK_TYPE_FUNCTIONS, TASK_TYPE_BODY, TASK_GEN_BYTECODE,
        TASK_GEN_BYTECODE_RUNDIR, TASK_GEN_MACHINE_CODE} \subseteq TaskTypes
    /\ TASK_TYPE_BODY # TASK_LEX
    /\ GenerateTypes \cap {TASK_LEX, TASK_TYPE_BODY} = {}
  BY DEF TaskTypes, ImportPhases, GenerateTypes, TASK_LEX, TASK_PREPROCESS_AND_PARSE,
         TASK_TYPE_ENUMS, TASK_TYPE_STRUCTS, TASK_TYPE_FUNCTIONS, TASK_TYPE_BODY,
         TASK_GEN_BYTECODE, TASK_GEN_BYTECODE_RUNDIR, TASK_GEN_MACHINE_CODE

\* The task that follows an import's phase is a task.
LEMMA FollowUpType ==
    ASSUME NEW t \in Threads, cur[t] \in CompilerTask, NEW type \in TaskTypes
    PROVE  FollowUp(t, type) \in Seq(CompilerTask) /\ FollowUp(t, type) # <<>>
  BY TaskFields DEF FollowUp, Task, CompilerTask

\* Taking one element out of the queue leaves a queue.
LEMMA RemoveAtType ==
    ASSUME NEW S, NEW s \in Seq(S), NEW k \in 1..Len(s)
    PROVE  RemoveAt(s, k) \in Seq(S)
<1>1. SubSeq(s, 1, k - 1) \in Seq(S)
  BY SubSeqProperties, ElementOfSeq, LenProperties
<1>2. SubSeq(s, k + 1, Len(s)) \in Seq(S)
  BY SubSeqProperties, ElementOfSeq, LenProperties
<1>3. QED
  BY <1>1, <1>2, ConcatProperties DEF RemoveAt

\* A thread that is handling a task has one.
LEMMA HasTask ==
    ASSUME TypeInv, NEW t \in Threads,
           pc[t] \in {"work", "link_preload", "link", "check", "judge", "requeue",
                      "declare", "once", "post", "finish"}
    PROVE  /\ Handling(t) /\ cur[t] \in CompilerTask
           /\ cur[t].type \in TaskTypes /\ cur[t].import \in Imports
           /\ cur[t].function \in Functions \cup {NoFunction}
<1>1. Handling(t)
  BY DEF Handling
<1>2. cur[t] \in CompilerTask
  BY <1>1 DEF TypeInv, LocalOK
<1>3. QED
  BY <1>1, <1>2, TaskFields

-----------------------------------------------------------------------------
(* One lemma per part of the type invariant; each looks at the actions that  *)
(* change that part.                                                        *)

\* Every step leaves a queue of tasks and sets of known imports.
LEMMA QueueStep ==
    ASSUME TypeInv, NEW t \in Threads, processImports(t)
    PROVE  QueueTypes'
<1> USE DEF QueueTypes, queue
<1>0. QueueTypes /\ LocalTypes /\ LocalOK(t) /\ job \in JobType
  BY DEF TypeInv, TypeOK
<1>1. CASE Select(t)
  <2>1. PICK k \in 0..Len(tasks) :
           SelectTask(t, k) \/ SelectFinished(t, k) \/ SelectStuck(t, k) \/ SelectNothing(t, k)
    BY <1>1 DEF Select
  <2>2. CASE SelectTask(t, k)
    <3>1. k \in 1..Len(tasks)
      BY <2>2, <1>0 DEF SelectTask, Found
    <3>2. QED
      BY <2>2, <3>1, <1>0, RemoveAtType DEF SelectTask
  <2>3. CASE SelectFinished(t, k) \/ SelectStuck(t, k) \/ SelectNothing(t, k)
    <3>1. Discard(k)
      BY <2>3 DEF SelectFinished, SelectStuck, SelectNothing
    <3>2. QED
      BY <3>1, <1>0, EmptySeq DEF Discard
  <2>4. QED
    BY <2>1, <2>2, <2>3
<1>2. CASE LexUnreadable(t)
  BY <1>2, <1>0, HasTask DEF LexUnreadable, Working
<1>3. CASE FindImport(t)
  <2>1. todo[t] \subseteq Imports
    BY <1>3, <1>0, HasTask DEF FindImport, Working, LocalOK
  <2>2. \A d \in todo[t] : Task(TASK_LEX, d, NoFunction) \in CompilerTask
    BY <2>1, PhasesAreTypes DEF Task, CompilerTask
  <2>3. QED
    BY <1>3, <1>0, <2>1, <2>2 DEF FindImport
<1>4. CASE Requeue(t)
  BY <1>4, <1>0, HasTask DEF Requeue, Reinserted
<1>5. CASE TypeFunctions(t)
  <2>1. cur[t].import \in Imports
    BY <1>5, HasTask DEF TypeFunctions, Working
  <2>2. FunctionBodies(cur[t].import, job.exported \ used) \in Seq(CompilerTask)
    <3>1. Declares(cur[t].import, job.exported \ used) \subseteq Functions
      BY <1>0, JobFields DEF Declares
    <3>2. QED
      BY <2>1, <3>1, FunctionBodiesType
  <2>3. QED
    BY <1>5, <1>0, <2>2, ConcatProperties DEF TypeFunctions
<1>6. CASE Call(t)
  <2>1. todo[t] \subseteq Functions
    BY <1>6, <1>0, HasTask DEF Call, Working, LocalOK
  <2>2. \A f \in todo[t] : Task(TASK_TYPE_BODY, job.home[f], f) \in CompilerTask
    BY <2>1, <1>0, JobFields, PhasesAreTypes DEF Task, CompilerTask
  <2>3. QED
    BY <1>6, <1>0, <2>1, <2>2 DEF Call
<1>7. CASE AddFollowUp(t)
  BY <1>7, <1>0, HeadTailProperties DEF AddFollowUp, LocalOK, LocalTypes
<1>8. CASE UNCHANGED queue
  BY <1>8, <1>0
<1>9. QED
  BY <1>1, <1>2, <1>3, <1>4, <1>5, <1>6, <1>7, <1>8
     DEF processImports, Enter, Lex, TypeCheck, Generate, Exit, RegisterTotal,
         RegisterWaiting, Wait, LinkPreload, LinkImport, LexDone, Preprocess, Snapshot,
         TypeEnums, TypeStructs, JudgeRequeue, JudgeGiveUp, DeclareUsage, BodyDone,
         QuickCheck, RunOnce, GenerateScope, GenerateMachineCode, Finish, Leave

\* A sweep over an import's structs completes structs and nothing else.
LEMMA SweepType ==
    ASSUME job \in JobType, complete \subseteq Structs, NEW i \in Imports
    PROVE  Sweep(i) \subseteq Structs
<1>1. \A k \in DOMAIN job.structs[i] : job.structs[i][k] \in Structs
  BY JobFields
<1>2. QED
  BY <1>1 DEF Sweep

\* Marking a phase as done keeps the state bits task types.
LEMMA CompleteState ==
    ASSUME TypeInv, NEW t \in Threads, cur[t] \in CompilerTask,
           Drop(t) \/ \E x : Complete(t, x)
    PROVE  state' \in [Imports -> SUBSET TaskTypes]
<1>1. state' = state \/ state' = [state EXCEPT ![cur[t].import] = @ \cup {cur[t].type}]
  BY DEF Drop, Complete
<1>2. cur[t].import \in Imports /\ cur[t].type \in TaskTypes
  BY TaskFields
<1>3. state \in [Imports -> SUBSET TaskTypes]
  BY DEF TypeInv, TypeOK, DataTypes
<1>4. QED
  BY <1>1, <1>2, <1>3

\* Every step leaves the imports, the counters and the flags of their kinds.
LEMMA DataStep ==
    ASSUME TypeInv, NEW t \in Threads, processImports(t)
    PROVE  DataTypes'
<1> USE DEF DataTypes, data
<1>0. DataTypes /\ LocalTypes /\ LocalOK(t) /\ job \in JobType /\ NewErrors(t) \in Nat
  BY DEF TypeInv, TypeOK, NewErrors
<1>1. CASE Select(t)
  <2>1. PICK k \in 0..Len(tasks) :
           SelectTask(t, k) \/ SelectFinished(t, k) \/ SelectStuck(t, k) \/ SelectNothing(t, k)
    BY <1>1 DEF Select
  <2>2. CASE SelectTask(t, k)
    <3>1. tasks[k] \in CompilerTask
      BY <2>2, ElementOfSeq DEF SelectTask, Found, TypeInv, TypeOK, QueueTypes
    <3>2. CheckedFunction(tasks[k]) \subseteq Functions
      BY <3>1, TaskFields DEF CheckedFunction
    <3>3. QED
      BY <2>2, <3>2, <1>0 DEF SelectTask, TakeTask
  <2>3. CASE SelectFinished(t, k) \/ SelectStuck(t, k) \/ SelectNothing(t, k)
    BY <2>3, <1>0 DEF SelectFinished, SelectStuck, SelectNothing
  <2>4. QED
    BY <2>1, <2>2, <2>3
<1>2. CASE LexUnreadable(t)
  BY <1>2, <1>0 DEF LexUnreadable
<1>3. CASE LinkPreload(t)
  <2>1. job.preload \in Imports
    BY <1>3, <1>0, JobFields DEF LinkPreload, LocalOK, HasPreload
  <2>2. QED
    BY <1>3, <2>1, <1>0 DEF LinkPreload
<1>4. CASE LinkImport(t)
  <2>1. target[t] \in Imports
    BY <1>4, <1>0 DEF LinkImport, LocalOK
  <2>2. QED
    BY <1>4, <2>1, <1>0 DEF LinkImport
<1>5. CASE LexDone(t)
  BY <1>5, <1>0, HasTask, CompleteState DEF LexDone, Working
<1>6. CASE Preprocess(t)
  BY <1>6, <1>0, HasTask, CompleteState DEF Preprocess, Working
<1>7. CASE Snapshot(t)
  BY <1>7, <1>0, HasTask DEF Snapshot
<1>8. CASE TypeEnums(t)
  BY <1>8, <1>0, HasTask, CompleteState DEF TypeEnums, Working
<1>9. CASE TypeStructs(t)
  <2>1. cur[t] \in CompilerTask /\ cur[t].import \in Imports
    BY <1>9, HasTask DEF TypeStructs, Working
  <2>2. complete' \subseteq Structs /\ stall' \in Nat
    BY <1>9, <2>1, <1>0, SweepType DEF TypeStructs, SweepsSinceChange
  <2>3. state' \in [Imports -> SUBSET TaskTypes]
    BY <1>9, <2>1, <1>0, CompleteState DEF TypeStructs
  <2>4. QED
    BY <1>9, <2>2, <2>3, <1>0 DEF TypeStructs
<1>10. CASE JudgeGiveUp(t)
  <2>1. cur[t].import \in Imports
    BY <1>10, HasTask DEF JudgeGiveUp
  <2>2. complete' \subseteq Structs
    BY <1>10, <2>1, <1>0, SweepType DEF JudgeGiveUp
  <2>3. QED
    BY <1>10, <2>2, <1>0 DEF JudgeGiveUp
<1>11. CASE TypeFunctions(t)
  <2>1. cur[t] \in CompilerTask
    BY <1>11, HasTask DEF TypeFunctions, Working
  <2>2. UsedFromStart(cur[t].import) \subseteq Functions
    BY <1>0, JobFields DEF UsedFromStart, Declares
  <2>3. QED
    BY <1>11, <2>1, <2>2, <1>0, CompleteState DEF TypeFunctions
<1>12. CASE DeclareUsage(t)
  BY <1>12, <1>0 DEF DeclareUsage, LocalOK
<1>13. CASE BodyDone(t)
  <2>1. Subject(cur[t]) \in Imports \cup Functions
    BY <1>13, HasTask DEF BodyDone, Working, Subject
  <2>2. body_checks' \in [Imports \cup Functions -> Nat]
    BY <1>13, <2>1, <1>0 DEF BodyDone
  <2>3. QED
    BY <1>13, <2>2, <1>0 DEF BodyDone
<1>14. CASE RunOnce(t)
  BY <1>14, <1>0 DEF RunOnce, LocalOK
<1>15. CASE GenerateScope(t)
  BY <1>15, <1>0, HasTask, CompleteState DEF GenerateScope
<1>16. CASE GenerateMachineCode(t)
  BY <1>16, <1>0, HasTask, CompleteState DEF GenerateMachineCode, Working
<1>17. CASE UNCHANGED data
  BY <1>17, <1>0
<1>18. QED
  BY <1>1, <1>2, <1>3, <1>4, <1>5, <1>6, <1>7, <1>8, <1>9, <1>10, <1>11, <1>12, <1>13,
     <1>14, <1>15, <1>16, <1>17
     DEF processImports, Enter, Lex, TypeCheck, Generate, Exit, RegisterTotal,
         RegisterWaiting, Wait, FindImport, JudgeRequeue, Requeue, Call, QuickCheck,
         AddFollowUp, Finish, Leave

\* Every step keeps the semaphore at 0 or 1 and the counters integers.
LEMMA BatonTypesStep ==
    ASSUME TypeInv, NEW t \in Threads, processImports(t)
    PROVE  BatonTypes'
<1> USE DEF BatonTypes, baton
<1>0. BatonTypes
  BY DEF TypeInv, TypeOK
<1>1. CASE RegisterTotal(t) \/ RegisterWaiting(t) \/ Wait(t) \/ Leave(t)
  BY <1>0, <1>1 DEF RegisterTotal, RegisterWaiting, Wait, Leave
<1>2. CASE Select(t)
  <2>1. /\ signaled' \in BOOLEAN
         /\ sem' \in {1, sem}
    BY <1>2 DEF Select, SelectTask, SelectFinished, SelectStuck, SelectNothing, Signal
  <2>2. total_threads' = total_threads /\ waiting_threads' \in {waiting_threads, waiting_threads - 1}
    BY <1>2 DEF Select, SelectTask, SelectFinished, SelectStuck, SelectNothing, StopWaiting
  <2>3. QED
    BY <2>1, <2>2, <1>0
<1>3. CASE Finish(t)
  <2>1. signaled' \in BOOLEAN /\ sem' \in {1, sem}
    BY <1>0, <1>3 DEF Finish, HandOn, Signal
  <2>2. total_threads' = total_threads /\ waiting_threads' = waiting_threads + 1
    BY <1>3 DEF Finish
  <2>3. QED
    BY <2>1, <2>2, <1>0
<1>4. CASE UNCHANGED baton
  BY <1>0, <1>4
<1>5. QED
  BY <1>1, <1>2, <1>3, <1>4
     DEF processImports, Enter, Exit, Lex, TypeCheck, Generate, LexUnreadable, FindImport,
         LinkPreload, LinkImport, LexDone, Preprocess, Snapshot, TypeEnums, TypeStructs,
         JudgeRequeue, JudgeGiveUp, Requeue, TypeFunctions, Call, DeclareUsage, BodyDone,
         QuickCheck, RunOnce, GenerateScope, GenerateMachineCode, AddFollowUp

\* Every step keeps the three verdicts Booleans.
LEMMA VerdictStep ==
    ASSUME TypeInv, NEW t \in Threads, processImports(t)
    PROVE  VerdictTypes'
<1> USE DEF VerdictTypes, verdict
<1>0. VerdictTypes
  BY DEF TypeInv, TypeOK
<1>1. CASE Select(t)
  <2>1. \A k : CutShort(k) \in BOOLEAN /\ (\A task : ChecksModified(task) \in BOOLEAN)
    BY DEF CutShort, ChecksModified
  <2>2. QED
    BY <1>0, <1>1, <2>1 DEF Select, SelectTask, SelectFinished, SelectStuck, SelectNothing, Discard
<1>2. CASE UNCHANGED verdict
  BY <1>0, <1>2
<1>3. QED
  BY <1>1, <1>2
     DEF processImports, Enter, Lex, TypeCheck, Generate, Exit, RegisterTotal, RegisterWaiting,
         Wait, LexUnreadable, FindImport, LinkPreload, LinkImport, LexDone, Preprocess,
         Snapshot, TypeEnums, TypeStructs, JudgeRequeue, JudgeGiveUp, Requeue, TypeFunctions,
         Call, DeclareUsage, BodyDone, QuickCheck, RunOnce, GenerateScope,
         GenerateMachineCode, AddFollowUp, Finish, Leave

\* What a handler goes through is a set of imports or functions.
LEMMA WorkType ==
    ASSUME job \in JobType, NEW task \in CompilerTask
    PROVE  /\ Work(task) \subseteq Imports \cup Functions
           /\ task.type = TASK_LEX => Work(task) \subseteq Imports
           /\ task.type = TASK_TYPE_BODY => Work(task) \subseteq Functions
           /\ task.type \in GenerateTypes => FirstTarget(task) \in OnceSteps
           /\ FirstTarget(task) \in OnceSteps \cup {NoImport}
<1>1. /\ task.import \in Imports /\ task.function \in Functions \cup {NoFunction}
      /\ TASK_TYPE_BODY # TASK_LEX
  BY TaskFields, PhasesAreTypes
<1>2. CASE task.type = TASK_LEX
  BY <1>1, <1>2, JobFields, PhasesAreTypes DEF Work, FirstTarget, OnceSteps
<1>3. CASE task.type = TASK_TYPE_BODY
  BY <1>1, <1>3, JobFields, PhasesAreTypes DEF Work, FirstTarget, OnceSteps
<1>4. CASE task.type \notin {TASK_LEX, TASK_TYPE_BODY}
  BY <1>4 DEF Work, FirstTarget, OnceSteps
<1>5. QED
  BY <1>2, <1>3, <1>4

\* Taking the first of several follow-up tasks leaves one to add.
LEMMA TailNotEmpty ==
    ASSUME NEW S, NEW s \in Seq(S), s # <<>>, Len(s) # 1
    PROVE  Tail(s) # <<>>
<1>1. Len(Tail(s)) = Len(s) - 1 /\ Len(s) \in Nat
  BY HeadTailProperties, LenProperties
<1>2. Len(<<>>) = 0
  BY EmptySeq
<1>3. SUFFICES ASSUME Tail(s) = <<>> PROVE FALSE
  OBVIOUS
<1>4. Len(Tail(s)) = 0
  BY <1>2, <1>3
<1> DEFINE n == Len(s)
           m == Len(Tail(s))
<1>5. m = n - 1 /\ n \in Nat /\ n # 1 /\ m = 0
  BY <1>1, <1>4
<1> HIDE DEF n, m
<1>6. QED
  BY <1>5

\* What Complete and Drop do to the variables of the thread.
LEMMA CompleteLocal ==
    ASSUME LocalTypes, NEW t \in Threads, NEW follow_up \in Seq(CompilerTask),
           Drop(t) \/ Complete(t, follow_up)
    PROVE  /\ pc' \in [Threads -> Labels] /\ out' \in [Threads -> Seq(CompilerTask)]
           /\ pc'[t] \in {"finish", "post"}
           /\ pc'[t] = "post" => out'[t] # <<>>
<1>1. CASE Drop(t)
  BY <1>1 DEF LocalTypes, Drop, Goto, Labels
<1>2. CASE Complete(t, follow_up)
  BY <1>2 DEF LocalTypes, Complete, Goto, Labels
<1>3. QED
  BY <1>1, <1>2

\* Every step of a thread leaves its own variables of their kinds.
LEMMA LocalStep ==
    ASSUME TypeInv, NEW t \in Threads, processImports(t)
    PROVE  LocalTypes' /\ LocalOK(t)'
<1> USE DEF LocalTypes, Goto, Labels
<1>0. LocalTypes /\ LocalOK(t) /\ job \in JobType /\ errors \in Nat /\ job' = job
  BY OthersUnchanged DEF TypeInv, TypeOK, DataTypes
<1>1. CASE RegisterTotal(t)
  <2>1. LocalTypes'
    BY <1>1, <1>0 DEF RegisterTotal, local
  <2>2. LocalOK(t)'
    BY <1>1, <1>0 DEF RegisterTotal, local, LocalOK, Handling
  <2>3. QED
    BY <2>1, <2>2
<1>2. CASE RegisterWaiting(t)
  <2>1. LocalTypes'
    BY <1>2, <1>0 DEF RegisterWaiting, local
  <2>2. LocalOK(t)'
    BY <1>2, <1>0 DEF RegisterWaiting, local, LocalOK, Handling
  <2>3. QED
    BY <2>1, <2>2
<1>3. CASE Wait(t)
  <2>1. LocalTypes'
    BY <1>3, <1>0 DEF Wait, local
  <2>2. LocalOK(t)'
    BY <1>3, <1>0 DEF Wait, local, LocalOK, Handling
  <2>3. QED
    BY <2>1, <2>2
<1>4. CASE Select(t)
  <2>1. PICK k \in 0..Len(tasks) :
           SelectTask(t, k) \/ SelectFinished(t, k) \/ SelectStuck(t, k) \/ SelectNothing(t, k)
    BY <1>4 DEF Select
  <2>2. CASE SelectTask(t, k)
    <3>1. tasks[k] \in CompilerTask
      BY <2>2, ElementOfSeq DEF SelectTask, Found, TypeInv, TypeOK, QueueTypes
    <3>2. LocalTypes'
      BY <2>2, <3>1, <1>0, WorkType DEF SelectTask, TakeTask
    <3>3. cur'[t] = tasks[k] /\ todo'[t] = Work(tasks[k]) /\ target'[t] = FirstTarget(tasks[k])
          /\ pc'[t] = "work"
      BY <2>2, <1>0 DEF SelectTask, TakeTask
    <3>4. QED
      BY <3>1, <3>2, <3>3, <1>0, WorkType DEF LocalOK, Handling
  <2>3. CASE SelectFinished(t, k) \/ SelectStuck(t, k) \/ SelectNothing(t, k)
    <3>1. LocalTypes'
      BY <2>3, <1>0 DEF SelectFinished, SelectStuck, SelectNothing, local
    <3>2. pc'[t] \in {"leave", "wait"}
      BY <2>3, <1>0 DEF SelectFinished, SelectStuck, SelectNothing
    <3>3. QED
      BY <3>1, <3>2 DEF LocalOK, Handling
  <2>4. QED
    BY <2>1, <2>2, <2>3
<1>5. CASE LexUnreadable(t)
  <2>1. LocalTypes'
    BY <1>5, <1>0 DEF LexUnreadable, local, Working
  <2>2. LocalOK(t)'
    BY <1>5, <1>0 DEF LexUnreadable, local, LocalOK, Handling, Working
  <2>3. QED
    BY <2>1, <2>2
<1>6. CASE FindImport(t)
  <2>1. pc[t] = "work" /\ cur[t].type = TASK_LEX /\ todo[t] \subseteq Imports
    BY <1>6, <1>0, HasTask DEF FindImport, Working, LocalOK
  <2>2. LocalTypes' /\ cur'[t] = cur[t] /\ todo'[t] \subseteq todo[t]
    BY <1>6, <2>1, <1>0 DEF FindImport
  <2>3. \/ pc'[t] = "work"
        \/ pc'[t] \in {"link", "link_preload"} /\ target'[t] \in todo[t]
    BY <1>6, <2>1, <1>0 DEF FindImport
  <2>4. pc'[t] = "link_preload" => HasPreload
    BY <1>6, <2>1, <1>0 DEF FindImport
  <2>5. QED
    BY <2>1, <2>2, <2>3, <2>4, <1>0, HasTask, PhasesAreTypes DEF LocalOK, Handling, HasPreload
<1>7. CASE LinkPreload(t)
  <2>1. LocalTypes'
    BY <1>7, <1>0 DEF LinkPreload, local
  <2>2. LocalOK(t)'
    BY <1>7, <1>0 DEF LinkPreload, local, LocalOK, Handling
  <2>3. QED
    BY <2>1, <2>2
<1>8. CASE LinkImport(t)
  <2>1. pc[t] = "link" /\ cur[t].type = TASK_LEX /\ cur[t] \in CompilerTask
    BY <1>8, <1>0, HasTask DEF LinkImport, LocalOK
  <2>2. LocalTypes' /\ pc'[t] = "work" /\ cur'[t] = cur[t] /\ todo'[t] \subseteq todo[t]
    BY <1>8, <1>0 DEF LinkImport
  <2>3. todo[t] \subseteq Imports
    BY <2>1, <1>0, HasTask DEF LocalOK
  <2>4. QED
    BY <2>1, <2>2, <2>3, PhasesAreTypes DEF LocalOK, Handling
<1>9. CASE LexDone(t)
  <2>1. cur[t] \in CompilerTask
    BY <1>9, HasTask DEF LexDone, Working
  <2>2. PICK s \in Seq(CompilerTask) : Drop(t) \/ Complete(t, s)
    BY <1>9, <2>1, FollowUpType, PhasesAreTypes DEF LexDone
  <2>3. /\ cur' = cur /\ todo' = todo /\ target' = target /\ prev_errors' = prev_errors
        /\ Handling(t)
    BY <1>9, <2>1 DEF LexDone, Working, Handling, NoTask
  <2>4. QED
    BY <1>0, <2>1, <2>2, <2>3, CompleteLocal DEF LocalOK, Handling
<1>10. CASE Preprocess(t)
  <2>1. cur[t] \in CompilerTask
    BY <1>10, HasTask DEF Preprocess, Working
  <2>2. PICK s \in Seq(CompilerTask) : Drop(t) \/ Complete(t, s)
    BY <1>10, <2>1, FollowUpType, PhasesAreTypes, EmptySeq DEF Preprocess
  <2>3. /\ cur' = cur /\ todo' = todo /\ target' = target /\ prev_errors' = prev_errors
        /\ Handling(t)
    BY <1>10, <2>1 DEF Preprocess, Working, Handling, NoTask
  <2>4. QED
    BY <1>0, <2>1, <2>2, <2>3, CompleteLocal DEF LocalOK, Handling
<1>11. CASE Snapshot(t)
  <2>1. LocalTypes'
    BY <1>11, <1>0 DEF Snapshot, local
  <2>2. LocalOK(t)'
    BY <1>11, <1>0 DEF Snapshot, local, LocalOK, Handling
  <2>3. QED
    BY <2>1, <2>2
<1>12. CASE TypeEnums(t)
  <2>1. cur[t] \in CompilerTask
    BY <1>12, HasTask DEF TypeEnums, Working
  <2>2. PICK s \in Seq(CompilerTask) : Drop(t) \/ Complete(t, s)
    BY <1>12, <2>1, FollowUpType, PhasesAreTypes, EmptySeq DEF TypeEnums
  <2>3. /\ cur' = cur /\ todo' = todo /\ target' = target /\ prev_errors' = prev_errors
        /\ Handling(t)
    BY <1>12, <2>1 DEF TypeEnums, Working, Handling, NoTask
  <2>4. QED
    BY <1>0, <2>1, <2>2, <2>3, CompleteLocal DEF LocalOK, Handling
<1>13. CASE TypeStructs(t)
  <2>1. cur[t] \in CompilerTask
    BY <1>13, HasTask DEF TypeStructs, Working
  <2>2. cur' = cur /\ todo' = todo /\ target' = target /\ prev_errors' = prev_errors
    BY <1>13 DEF TypeStructs
  <2>3. CASE pc' = [pc EXCEPT ![t] = "judge"] /\ out' = out
    BY <2>1, <2>2, <2>3, <1>13, <1>0 DEF LocalOK, Handling, TypeStructs, Working
  <2>4. CASE Complete(t, FollowUp(t, TASK_TYPE_FUNCTIONS))
    <3>1. FollowUp(t, TASK_TYPE_FUNCTIONS) \in Seq(CompilerTask)
      BY <2>1, FollowUpType, PhasesAreTypes
    <3>2. Handling(t)
      BY <1>13, HasTask DEF TypeStructs, Working
    <3>3. QED
      BY <2>1, <2>2, <2>4, <3>1, <3>2, <1>0, CompleteLocal DEF LocalOK, Handling
  <2>5. QED
    BY <1>13, <2>3, <2>4 DEF TypeStructs
<1>14. CASE JudgeRequeue(t)
  <2>1. LocalTypes'
    BY <1>14, <1>0 DEF JudgeRequeue, local
  <2>2. LocalOK(t)'
    BY <1>14, <1>0 DEF JudgeRequeue, local, LocalOK, Handling
  <2>3. QED
    BY <2>1, <2>2
<1>15. CASE JudgeGiveUp(t)
  <2>1. LocalTypes'
    BY <1>15, <1>0 DEF JudgeGiveUp, local
  <2>2. LocalOK(t)'
    BY <1>15, <1>0 DEF JudgeGiveUp, local, LocalOK, Handling
  <2>3. QED
    BY <2>1, <2>2
<1>16. CASE Requeue(t)
  <2>1. LocalTypes'
    BY <1>16, <1>0 DEF Requeue, local
  <2>2. LocalOK(t)'
    BY <1>16, <1>0 DEF Requeue, local, LocalOK, Handling
  <2>3. QED
    BY <2>1, <2>2
<1>17. CASE TypeFunctions(t)
  <2>1. cur[t] \in CompilerTask /\ cur[t].import \in Imports
    BY <1>17, HasTask DEF TypeFunctions, Working
  <2>2. FunctionBodies(cur[t].import, {job.entry}) \in Seq(CompilerTask)
    <3>1. Declares(cur[t].import, {job.entry}) \subseteq Functions
      BY <1>0, JobFields DEF Declares
    <3>2. QED
      BY <2>1, <3>1, FunctionBodiesType
  <2>3. BodyTasks(cur[t].import) \in Seq(CompilerTask)
    <3>1. Task(TASK_TYPE_BODY, cur[t].import, NoFunction) \in CompilerTask
      BY <2>1, PhasesAreTypes DEF Task, CompilerTask
    <3>2. QED
      BY <2>2, <3>1, ConcatProperties, EmptySeq DEF BodyTasks
  <2>4. BodyTasks(cur[t].import) \o FollowUp(t, TASK_GEN_BYTECODE) \in Seq(CompilerTask)
    BY <2>1, <2>3, FollowUpType, PhasesAreTypes, ConcatProperties
  <2>5. PICK s \in Seq(CompilerTask) : Drop(t) \/ Complete(t, s)
    BY <1>17, <2>4, EmptySeq DEF TypeFunctions
  <2>6. /\ cur' = cur /\ todo' = todo /\ target' = target /\ prev_errors' = prev_errors
        /\ Handling(t)
    BY <1>17, HasTask DEF TypeFunctions, Working
  <2>7. QED
    BY <1>0, <2>1, <2>5, <2>6, CompleteLocal DEF LocalOK, Handling
<1>18. CASE Call(t)
  <2>1. /\ pc[t] = "work" /\ cur[t].type = TASK_TYPE_BODY /\ cur[t] \in CompilerTask
        /\ todo[t] \subseteq Functions
    BY <1>18, <1>0, HasTask DEF Call, Working, LocalOK
  <2>2. LocalTypes' /\ pc'[t] = "declare" /\ target'[t] \in todo[t]
    BY <1>18, <2>1, <1>0 DEF Call
  <2>3. cur' = cur /\ todo' = todo
    BY <1>18 DEF Call
  <2>4. QED
    BY <2>1, <2>2, <2>3, PhasesAreTypes DEF LocalOK, Handling
<1>19. CASE DeclareUsage(t)
  <2>1. /\ cur[t].type = TASK_TYPE_BODY /\ cur[t] \in CompilerTask
        /\ todo[t] \subseteq Functions
    BY <1>19, <1>0, HasTask DEF DeclareUsage, LocalOK
  <2>2. LocalTypes' /\ pc'[t] = "work" /\ cur'[t] = cur[t] /\ todo'[t] \subseteq todo[t]
    BY <1>19, <1>0 DEF DeclareUsage
  <2>3. QED
    BY <2>1, <2>2, PhasesAreTypes DEF LocalOK, Handling
<1>20. CASE BodyDone(t)
  <2>1. LocalTypes'
    BY <1>20, <1>0 DEF BodyDone, local, Working
  <2>2. LocalOK(t)'
    BY <1>20, <1>0 DEF BodyDone, local, LocalOK, Handling, Working
  <2>3. QED
    BY <2>1, <2>2
<1>21. CASE QuickCheck(t)
  <2>1. cur[t] \in CompilerTask /\ cur[t].type \in GenerateTypes /\ target[t] \in OnceSteps
    BY <1>21, <1>0, HasTask DEF QuickCheck, LocalOK
  <2>2. cur' = cur /\ todo' = todo /\ out' = out
    BY <1>21 DEF QuickCheck
  <2>3. CASE Advance(t)
    <3>0. target[t] # "run_directives" => StepAfter[target[t]] \in OnceSteps
      BY <2>1 DEF StepAfter, OnceSteps
    <3>1. LocalTypes'
      BY <2>1, <2>2, <2>3, <3>0, <1>0 DEF Advance
    <3>2. pc'[t] = "check" \/ (pc'[t] = "work" /\ target'[t] \in OnceSteps)
      BY <2>1, <2>3, <1>0 DEF Advance, StepAfter, OnceSteps
    <3>3. QED
      BY <2>1, <2>2, <3>1, <3>2, PhasesAreTypes DEF LocalOK, Handling
  <2>4. CASE pc' = [pc EXCEPT ![t] = "once"] /\ UNCHANGED <<target, prev_errors>>
    BY <2>1, <2>2, <2>4, <1>0, PhasesAreTypes DEF LocalOK, Handling
  <2>5. QED
    BY <1>21, <2>3, <2>4 DEF QuickCheck
<1>22. CASE RunOnce(t)
  <2>1. cur[t] \in CompilerTask /\ cur[t].type \in GenerateTypes /\ target[t] \in OnceSteps
    BY <1>22, <1>0, HasTask DEF RunOnce, LocalOK
  <2>2. cur' = cur /\ todo' = todo /\ out' = out
    BY <1>22 DEF RunOnce
  <2>3. CASE Advance(t)
    <3>0. target[t] # "run_directives" => StepAfter[target[t]] \in OnceSteps
      BY <2>1 DEF StepAfter, OnceSteps
    <3>1. LocalTypes'
      BY <2>1, <2>2, <2>3, <3>0, <1>0 DEF Advance
    <3>2. pc'[t] = "check" \/ (pc'[t] = "work" /\ target'[t] \in OnceSteps)
      BY <2>1, <2>3, <1>0 DEF Advance, StepAfter, OnceSteps
    <3>3. QED
      BY <2>1, <2>2, <3>1, <3>2, PhasesAreTypes DEF LocalOK, Handling
  <2>4. QED
    BY <1>22, <2>3 DEF RunOnce
<1>23. CASE GenerateScope(t)
  <2>1. cur[t] \in CompilerTask
    BY <1>23, HasTask DEF GenerateScope, Working
  <2>2. PICK s \in Seq(CompilerTask) : Drop(t) \/ Complete(t, s)
    BY <1>23, <2>1, FollowUpType, PhasesAreTypes, EmptySeq DEF GenerateScope
  <2>3. /\ cur' = cur /\ todo' = todo /\ target' = target /\ prev_errors' = prev_errors
        /\ Handling(t)
    BY <1>23, <2>1 DEF GenerateScope, Working, Handling, NoTask
  <2>4. QED
    BY <1>0, <2>1, <2>2, <2>3, CompleteLocal DEF LocalOK, Handling
<1>24. CASE GenerateMachineCode(t)
  <2>1. cur[t] \in CompilerTask
    BY <1>24, HasTask DEF GenerateMachineCode, Working
  <2>2. PICK s \in Seq(CompilerTask) : Drop(t) \/ Complete(t, s)
    BY <1>24, <2>1, EmptySeq DEF GenerateMachineCode
  <2>3. /\ cur' = cur /\ todo' = todo /\ target' = target /\ prev_errors' = prev_errors
        /\ Handling(t)
    BY <1>24, <2>1 DEF GenerateMachineCode, Working, Handling, NoTask
  <2>4. QED
    BY <1>0, <2>1, <2>2, <2>3, CompleteLocal DEF LocalOK, Handling
<1>25. CASE AddFollowUp(t)
  <2>1. out[t] \in Seq(CompilerTask) /\ out[t] # <<>> /\ cur[t] \in CompilerTask /\ Handling(t)
    BY <1>25, <1>0, HasTask DEF AddFollowUp, LocalOK
  <2>2. /\ Tail(out[t]) \in Seq(CompilerTask)
        /\ Len(out[t]) # 1 => Tail(out[t]) # <<>>
    BY <2>1, HeadTailProperties, TailNotEmpty
  <2>3. /\ cur' = cur /\ todo' = todo /\ target' = target /\ prev_errors' = prev_errors
        /\ pc' \in [Threads -> Labels]
        /\ out' = [out EXCEPT ![t] = Tail(out[t])]
    BY <1>25, <1>0 DEF AddFollowUp
  <2>4. pc'[t] = "finish" \/ (pc'[t] = "post" /\ out'[t] # <<>>)
    <3>0. pc' = [pc EXCEPT ![t] = IF Len(out[t]) = 1 THEN "finish" ELSE "post"]
      BY <1>25 DEF AddFollowUp
    <3>2. pc'[t] = IF Len(out[t]) = 1 THEN "finish" ELSE "post"
      BY <3>0, <1>0
    <3>1. out'[t] = Tail(out[t])
      BY <2>3, <1>0
    <3>3. CASE Len(out[t]) = 1
      BY <3>2, <3>3
    <3>4. CASE Len(out[t]) # 1
      <4>1. Tail(out[t]) # <<>>
        BY <2>2, <3>4
      <4>2. out'[t] # <<>>
        BY <3>1, <4>1
      <4>3. QED
        BY <3>2, <3>4, <4>2
    <3>5. QED
      BY <3>3, <3>4
  <2>5. QED
    BY <2>1, <2>2, <2>3, <2>4, <1>0 DEF LocalOK, Handling
<1>26. CASE Finish(t)
  <2>1. LocalTypes'
    BY <1>26, <1>0 DEF Finish, local
  <2>2. LocalOK(t)'
    BY <1>26, <1>0 DEF Finish, local, LocalOK, Handling
  <2>3. QED
    BY <2>1, <2>2
<1>27. CASE Leave(t)
  <2>1. LocalTypes'
    BY <1>27, <1>0 DEF Leave, local
  <2>2. LocalOK(t)'
    BY <1>27, <1>0 DEF Leave, local, LocalOK, Handling
  <2>3. QED
    BY <2>1, <2>2
<1>28. QED
  BY <1>1, <1>2, <1>3, <1>4, <1>5, <1>6, <1>7, <1>8, <1>9, <1>10, <1>11, <1>12,
     <1>13, <1>14, <1>15, <1>16, <1>17, <1>18, <1>19, <1>20, <1>21, <1>22,
     <1>23, <1>24, <1>25, <1>26, <1>27
     DEF processImports, Enter, Lex, TypeCheck, Generate, Exit

\* The typing invariant holds when run() starts the threads.
LEMMA TypeInit == Init => TypeInv
<1> SUFFICES ASSUME Init PROVE TypeInv
  OBVIOUS
<1>1. job \in JobType
  BY JobsAssumption DEF Init
<1>2. QueueTypes
  <2>1. \A i \in Imports : Task(TASK_LEX, i, NoFunction) \in CompilerTask
    BY PhasesAreTypes DEF Task, CompilerTask
  <2>2. HasPreload => job.preload \in Imports
    BY <1>1, JobFields DEF HasPreload
  <2>3. tasks \in Seq(CompilerTask)
    <3>1. <<Task(TASK_LEX, job.main, NoFunction)>> \in Seq(CompilerTask)
      BY <1>1, <2>1, JobFields
    <3>2. HasPreload => <<Task(TASK_LEX, job.preload, NoFunction)>> \in Seq(CompilerTask)
      BY <2>1, <2>2
    <3>3. QED
      BY <3>1, <3>2, ConcatProperties, EmptySeq DEF Init
  <2>4. QED
    BY <1>1, <2>2, <2>3, JobFields DEF Init, QueueTypes, Preload
<1>3. DataTypes
  <2>1. Preload \subseteq Imports
    BY <1>1, JobFields DEF Preload, HasPreload
  <2>2. QED
    BY <2>1 DEF Init, DataTypes
<1>4. BatonTypes /\ VerdictTypes
  <2>1. BatonTypes
    BY DEF Init, BatonTypes
  <2>2. VerdictTypes
    BY DEF Init, VerdictTypes
  <2>3. QED
    BY <2>1, <2>2
<1>5. LocalTypes
  BY EmptySeq DEF Init, LocalTypes, Labels
<1>6. \A t \in Threads : LocalOK(t)
  BY DEF Init, LocalOK, Handling
<1>7. QED
  BY <1>1, <1>2, <1>3, <1>4, <1>5, <1>6 DEF TypeInv, TypeOK

\* Every step preserves the typing invariant.
LEMMA TypeStep == TypeInv /\ [Next]_vars => TypeInv'
<1> SUFFICES ASSUME TypeInv, [Next]_vars PROVE TypeInv'
  OBVIOUS
<1>1. CASE UNCHANGED vars
  BY <1>1 DEF vars, queue, data, baton, verdict, local, TypeInv, TypeOK, QueueTypes,
              DataTypes, BatonTypes, VerdictTypes, LocalTypes, LocalOK, Handling, HasPreload
<1>2. ASSUME NEW t \in Threads, processImports(t) PROVE TypeInv'
  <2>1. QueueTypes' /\ DataTypes' /\ BatonTypes' /\ VerdictTypes' /\ LocalTypes'
    BY <1>2, QueueStep, DataStep, BatonTypesStep, VerdictStep, LocalStep
  <2>2. /\ job' = job /\ job \in JobType
        /\ \A u \in Threads \ {t} :
              /\ pc'[u] = pc[u] /\ cur'[u] = cur[u] /\ todo'[u] = todo[u]
              /\ target'[u] = target[u] /\ out'[u] = out[u]
    BY <1>2, OthersUnchanged DEF TypeInv, TypeOK
  <2>3. \A u \in Threads \ {t} : LocalOK(u)'
    BY <2>2 DEF TypeInv, LocalOK, Handling, HasPreload
  <2>4. LocalOK(t)'
    BY <1>2, LocalStep
  <2>5. QED
    BY <2>1, <2>2, <2>3, <2>4 DEF TypeInv, TypeOK
<1>3. QED
  BY <1>1, <1>2 DEF Next, AfterReturn

\* Every variable keeps its kind, whatever is compiled and however many threads
\* compile it.
THEOREM TypeCorrect == Spec => []TypeOK
<1>1. TypeInv => TypeOK
  BY DEF TypeInv
<1>2. QED
  BY <1>1, TypeInit, TypeStep, PTL DEF Spec

\* The typing invariant holds throughout, for the theorems below to use.
LEMMA TypeInvCorrect == Spec => []TypeInv
  BY TypeInit, TypeStep, PTL DEF Spec

-----------------------------------------------------------------------------
(* The steps that must run once.                                            *)

OnceInv == \A s \in OnceSteps : once_runs[s] = IF s \in done_once THEN 1 ELSE 0

\* Only RunOnce changes the flags and the counts.
LEMMA OnceUnchanged ==
    ASSUME NEW t \in Threads, processImports(t), ~RunOnce(t)
    PROVE  UNCHANGED <<done_once, once_runs>>
<1> USE DEF data
<1>1. CASE Enter(t)
  BY <1>1 DEF Enter, RegisterTotal, RegisterWaiting, Wait, Select, SelectTask,
              SelectFinished, SelectStuck, SelectNothing
<1>2. CASE Lex(t) \/ Preprocess(t)
  BY <1>2 DEF Lex, LexUnreadable, FindImport, LinkPreload, LinkImport, LexDone, Preprocess
<1>3. CASE TypeCheck(t)
  BY <1>3 DEF TypeCheck, Snapshot, TypeEnums, TypeStructs, JudgeRequeue, JudgeGiveUp, Requeue,
              TypeFunctions, Call, DeclareUsage, BodyDone
<1>4. CASE Generate(t) \/ Exit(t)
  BY <1>4 DEF Generate, QuickCheck, GenerateScope, GenerateMachineCode, Exit, AddFollowUp,
              Finish, Leave
<1>5. QED
  BY <1>1, <1>2, <1>3, <1>4 DEF processImports

\* Global data, compile time data and global run directives are produced at most
\* once, however many threads find at the same time that they are missing: the
\* second check is made under the lock under which the flag is set.
THEOREM OnceEachCorrect == Spec => []OnceEach
<1>1. Init => OnceInv
  BY DEF Init, OnceInv, OnceSteps
<1>2. TypeInv /\ OnceInv /\ [Next]_vars => OnceInv'
  <2> SUFFICES ASSUME TypeInv, OnceInv, [Next]_vars PROVE OnceInv'
    OBVIOUS
  <2>1. CASE UNCHANGED <<done_once, once_runs>>
    BY <2>1 DEF OnceInv
  <2>2. ASSUME NEW t \in Threads, RunOnce(t) PROVE OnceInv'
    <3>1. once_runs \in [OnceSteps -> Nat]
      BY DEF TypeInv, TypeOK, DataTypes
    <3>2. QED
      BY <2>2, <3>1 DEF RunOnce, DoneMeanwhile, OnceInv
  <2>3. QED
    BY <2>1, <2>2, OnceUnchanged DEF Next, AfterReturn, vars, data
<1>3. OnceInv => OnceEach
  BY DEF OnceInv, OnceEach
<1>4. QED
  BY <1>1, <1>2, <1>3, TypeInvCorrect, PTL DEF Spec

-----------------------------------------------------------------------------
(* The baton.                                                               *)

\* Every action but those below is a step of a thread that is handling a task
\* and goes on handling it.
ChangesBaton(t) ==
    RegisterTotal(t) \/ RegisterWaiting(t) \/ Wait(t) \/ Select(t) \/ Finish(t) \/ Leave(t)

\* A step of a handler touches neither the baton nor the counters, nor leaves
\* the handler.
LEMMA HandlingStep ==
    ASSUME TypeInv, NEW t \in Threads, processImports(t), ~ChangesBaton(t)
    PROVE  Handling(t) /\ Handling(t)' /\ UNCHANGED baton
<1> USE DEF Handling, Goto
<1>0. pc \in [Threads -> Labels]
  BY DEF TypeInv, TypeOK, LocalTypes
<1>1. CASE Lex(t) \/ Preprocess(t)
  BY <1>0, <1>1 DEF Lex, LexUnreadable, FindImport, LinkPreload, LinkImport, LexDone,
                    Preprocess, Complete, Drop, Working
<1>2. CASE Snapshot(t) \/ TypeEnums(t) \/ TypeFunctions(t)
  BY <1>0, <1>2 DEF Snapshot, TypeEnums, TypeFunctions, Complete, Drop, Working
<1>3. CASE TypeStructs(t) \/ JudgeRequeue(t) \/ JudgeGiveUp(t) \/ Requeue(t)
  BY <1>0, <1>3 DEF TypeStructs, JudgeRequeue, JudgeGiveUp, Requeue, Complete, Working
<1>4. CASE Call(t) \/ DeclareUsage(t) \/ BodyDone(t)
  BY <1>0, <1>4 DEF Call, DeclareUsage, BodyDone, Working
<1>5. CASE Generate(t)
  BY <1>0, <1>5 DEF Generate, QuickCheck, RunOnce, GenerateScope, GenerateMachineCode,
                    Advance, Complete, Drop, Working
<1>6. CASE AddFollowUp(t)
  BY <1>0, <1>6 DEF AddFollowUp
<1>7. QED
  BY <1>1, <1>2, <1>3, <1>4, <1>5, <1>6
     DEF processImports, ChangesBaton, Enter, TypeCheck, Exit

\* How a thread leaves the critical section that selects a task.
LEMMA SelectSteps ==
    ASSUME TypeInv, NEW t \in Threads, Select(t)
    PROVE  /\ pc[t] = "select" /\ total_threads' = total_threads
           /\ \/ /\ Signal /\ waiting_threads' = waiting_threads - 1
                 /\ \/ pc' = [pc EXCEPT ![t] = "work"]
                    \/ pc' = [pc EXCEPT ![t] = "leave"] /\ tasks' = <<>>
              \/ /\ signaled' = FALSE /\ sem' = sem /\ waiting_threads' = waiting_threads - 1
                 /\ pc' = [pc EXCEPT ![t] = "leave"] /\ NobodyElseWorks
              \/ /\ signaled' = FALSE /\ sem' = sem /\ waiting_threads' = waiting_threads
                 /\ pc' = [pc EXCEPT ![t] = "wait"]
<1> USE DEF Goto
<1>1. PICK k \in 0..Len(tasks) :
         SelectTask(t, k) \/ SelectFinished(t, k) \/ SelectStuck(t, k) \/ SelectNothing(t, k)
  BY DEF Select
<1>2. pc[t] = "select"
  BY DEF Select
<1>3. CASE SelectTask(t, k)
  BY <1>2, <1>3 DEF SelectTask, StopWaiting, TakeTask
<1>4. CASE SelectFinished(t, k)
  <2>1. tasks' = <<>>
    BY <1>4 DEF SelectFinished, Finished, Discard
  <2>2. QED
    BY <1>2, <1>4, <2>1 DEF SelectFinished, StopWaiting
<1>5. CASE SelectStuck(t, k)
  BY <1>2, <1>5 DEF SelectStuck, StopWaiting
<1>6. CASE SelectNothing(t, k)
  BY <1>2, <1>6 DEF SelectNothing
<1>7. QED
  BY <1>1, <1>3, <1>4, <1>5, <1>6

\* Every step of a blocking semaphore's users preserves the baton.
LEMMA BatonStep ==
    ASSUME TypeInv, BatonOK, NEW t \in Threads, processImports(t)
    PROVE  BatonOK'
<1> SUFFICES ASSUME job.blocking_semaphore
             PROVE  (AtMostOneSelector /\ SignaledIsBaton /\ BatonNotCopied)'
  BY OthersUnchanged DEF BatonOK, TypeInv, TypeOK
<1> USE DEF BatonOK, AtMostOneSelector, SignaledIsBaton, BatonNotCopied
<1>0. pc \in [Threads -> Labels] /\ sem \in {0, 1} /\ signaled \in BOOLEAN
  BY DEF TypeInv, TypeOK, LocalTypes, BatonTypes
<1>1. CASE RegisterTotal(t) \/ RegisterWaiting(t) \/ Leave(t)
  BY <1>0, <1>1 DEF RegisterTotal, RegisterWaiting, Leave, Goto
<1>2. CASE Wait(t)
  BY <1>0, <1>2 DEF Wait, Goto
<1>3. CASE Select(t)
  <2>1. \A u \in Threads : pc[u] = "select" <=> u = t
    BY <1>3, SelectSteps
  <2>2. sem = 0
    BY <1>0, <2>1
  <2>3. \A u \in Threads : pc'[u] # "select"
    BY <1>0, <1>3, <2>1, SelectSteps
  <2>4. (sem' = 1 /\ signaled' = TRUE) \/ (sem' = sem /\ signaled' = FALSE)
    BY <1>3, SelectSteps DEF Signal
  <2>5. QED
    BY <2>2, <2>3, <2>4
<1>4. CASE Finish(t)
  <2>1. \A u \in Threads : pc'[u] = "select" <=> pc[u] = "select"
    BY <1>0, <1>4 DEF Finish, Goto
  <2>2. CASE signaled
    BY <1>0, <1>4, <2>1, <2>2 DEF Finish, HandOn
  <2>3. CASE ~signaled
    BY <1>0, <1>4, <2>1, <2>3 DEF Finish, HandOn, Signal
  <2>4. QED
    BY <2>2, <2>3
<1>5. CASE ~ChangesBaton(t)
  <2>1. Handling(t) /\ Handling(t)' /\ UNCHANGED baton
    BY <1>5, HandlingStep
  <2>2. \A u \in Threads \ {t} : pc'[u] = pc[u]
    BY OthersUnchanged DEF TypeInv, TypeOK
  <2>3. \A u \in Threads : pc'[u] = "select" <=> pc[u] = "select"
    BY <2>1, <2>2 DEF Handling
  <2>4. QED
    BY <2>1, <2>3 DEF baton
<1>6. QED
  BY <1>1, <1>2, <1>3, <1>4, <1>5 DEF ChangesBaton

\* With a semaphore that blocks there is one baton, whatever the number of
\* threads: at most one thread is between wait() and its critical section, and
\* `signaled` is true exactly while the baton lies in the semaphore or is held by
\* that thread.
THEOREM BatonCorrect == Spec => []BatonOK
<1>1. Init => BatonOK
  BY DEF Init, BatonOK, AtMostOneSelector, SignaledIsBaton, BatonNotCopied
<1>2. TypeInv /\ BatonOK /\ [Next]_vars => BatonOK'
  <2> SUFFICES ASSUME TypeInv, BatonOK, [Next]_vars PROVE BatonOK'
    OBVIOUS
  <2>1. CASE UNCHANGED vars
    BY <2>1 DEF vars, baton, BatonOK, AtMostOneSelector, SignaledIsBaton, BatonNotCopied
  <2>2. QED
    BY <2>1, BatonStep DEF Next, AfterReturn
<1>3. QED
  BY <1>1, <1>2, TypeInvCorrect, PTL DEF Spec

-----------------------------------------------------------------------------
(* The counters.                                                            *)

\* Every step changes a counter and the set it counts together.
LEMMA CountersStep ==
    ASSUME TypeInv, CountersOK, NEW t \in Threads, processImports(t)
    PROVE  CountersOK'
<1> USE DEF CountersOK
<1>0. /\ pc \in [Threads -> Labels]
      /\ waiting_threads \in Int /\ total_threads \in Int
      /\ IsFiniteSet(AtSemaphore) /\ IsFiniteSet(InLoop)
      /\ Cardinality(AtSemaphore) \in Nat /\ Cardinality(InLoop) \in Nat
  <2>1. IsFiniteSet(AtSemaphore) /\ IsFiniteSet(InLoop)
    BY FiniteAssumption, FS_Subset DEF AtSemaphore, InLoop
  <2>2. QED
    BY <2>1, FS_CardinalityType DEF TypeInv, TypeOK, LocalTypes, BatonTypes
<1>others. \A u \in Threads \ {t} : pc'[u] = pc[u]
  BY OthersUnchanged DEF TypeInv, TypeOK
<1>1. CASE RegisterTotal(t)
  <2>1. AtSemaphore' = AtSemaphore /\ InLoop' = InLoop \cup {t} /\ t \notin InLoop
    BY <1>0, <1>1 DEF RegisterTotal, Goto, AtSemaphore, InLoop
  <2>2. Cardinality(InLoop') = Cardinality(InLoop) + 1
    BY <1>0, <2>1, FS_AddElement
  <2>3. NobodyHasLeft' => NobodyHasLeft /\ total_threads' = total_threads + 1
    BY <1>0, <1>1 DEF RegisterTotal, Goto, NobodyHasLeft, SomebodyElseAt
  <2>4. /\ waiting_threads' = waiting_threads
        /\ total_threads' \in {total_threads, total_threads + 1}
    BY <1>1 DEF RegisterTotal
  <2>5. QED
    BY <1>0, <2>1, <2>2, <2>3, <2>4
<1>2. CASE RegisterWaiting(t)
  <2>1. InLoop' = InLoop /\ AtSemaphore' = AtSemaphore \cup {t} /\ t \notin AtSemaphore
    BY <1>0, <1>2 DEF RegisterWaiting, Goto, AtSemaphore, InLoop
  <2>2. Cardinality(AtSemaphore') = Cardinality(AtSemaphore) + 1
    BY <1>0, <2>1, FS_AddElement
  <2>3. NobodyHasLeft' => NobodyHasLeft
    BY <1>0, <1>2 DEF RegisterWaiting, Goto, NobodyHasLeft
  <2>4. /\ total_threads' = total_threads
        /\ waiting_threads' \in {waiting_threads, waiting_threads + 1}
    BY <1>2 DEF RegisterWaiting
  <2>5. QED
    BY <1>0, <2>1, <2>2, <2>3, <2>4
<1>3. CASE Wait(t)
  <2>1. InLoop' = InLoop /\ AtSemaphore' = AtSemaphore /\ (NobodyHasLeft' => NobodyHasLeft)
    BY <1>0, <1>3 DEF Wait, Goto, AtSemaphore, InLoop, NobodyHasLeft
  <2>2. waiting_threads' = waiting_threads /\ total_threads' = total_threads
    BY <1>3 DEF Wait
  <2>3. QED
    BY <2>1, <2>2
<1>4. CASE Select(t)
  <2>1. InLoop' = InLoop /\ (NobodyHasLeft' => NobodyHasLeft)
    BY <1>0, <1>4, SelectSteps DEF InLoop, NobodyHasLeft
  <2>2. CASE pc' = [pc EXCEPT ![t] = "wait"]
    <3>1. AtSemaphore' = AtSemaphore
      BY <1>0, <1>4, <2>2, SelectSteps DEF AtSemaphore
    <3>2. waiting_threads' = waiting_threads /\ total_threads' = total_threads
      <4>1. "wait" \notin {"work", "leave"} /\ pc'[t] = "wait"
        BY <1>0, <2>2
      <4>2. QED
        BY <1>0, <1>4, <4>1, SelectSteps
    <3>3. QED
      BY <2>1, <3>1, <3>2
  <2>3. CASE pc' = [pc EXCEPT ![t] = "work"] \/ pc' = [pc EXCEPT ![t] = "leave"]
    <3>1. AtSemaphore' = AtSemaphore \ {t} /\ t \in AtSemaphore
      BY <1>0, <1>4, <2>3, SelectSteps DEF AtSemaphore
    <3>2. waiting_threads' = waiting_threads - 1 /\ total_threads' = total_threads
      <4>1. pc'[t] # "wait"
        BY <1>0, <2>3
      <4>2. QED
        BY <1>0, <1>4, <4>1, SelectSteps
    <3>3. Cardinality(AtSemaphore') = Cardinality(AtSemaphore) - 1
      BY <1>0, <3>1, FS_RemoveElement
    <3>4. QED
      BY <1>0, <2>1, <3>2, <3>3
  <2>4. QED
    BY <1>4, <2>2, <2>3, SelectSteps
<1>5. CASE Finish(t)
  <2>1. InLoop' = InLoop /\ AtSemaphore' = AtSemaphore \cup {t} /\ t \notin AtSemaphore
    BY <1>0, <1>5 DEF Finish, Goto, AtSemaphore, InLoop
  <2>2. Cardinality(AtSemaphore') = Cardinality(AtSemaphore) + 1
    BY <1>0, <2>1, FS_AddElement
  <2>3. NobodyHasLeft' => NobodyHasLeft
    BY <1>0, <1>5 DEF Finish, Goto, NobodyHasLeft
  <2>4. total_threads' = total_threads /\ waiting_threads' = waiting_threads + 1
    BY <1>5 DEF Finish
  <2>5. QED
    BY <1>0, <2>1, <2>2, <2>3, <2>4
<1>6. CASE Leave(t)
  <2>1. AtSemaphore' = AtSemaphore /\ InLoop' = InLoop \ {t} /\ t \in InLoop
    BY <1>0, <1>6 DEF Leave, Goto, AtSemaphore, InLoop
  <2>2. Cardinality(InLoop') = Cardinality(InLoop) - 1
    BY <1>0, <2>1, FS_RemoveElement
  <2>3. ~NobodyHasLeft'
    BY <1>0, <1>6 DEF Leave, Goto, NobodyHasLeft
  <2>4. waiting_threads' = waiting_threads /\ total_threads' = total_threads - 1
    BY <1>6 DEF Leave
  <2>5. QED
    BY <1>0, <2>1, <2>2, <2>3, <2>4
<1>7. CASE ~ChangesBaton(t)
  <2>1. Handling(t) /\ Handling(t)' /\ UNCHANGED baton
    BY <1>7, HandlingStep
  <2>2. AtSemaphore' = AtSemaphore /\ InLoop' = InLoop /\ (NobodyHasLeft' => NobodyHasLeft)
    BY <2>1, <1>others DEF Handling, AtSemaphore, InLoop, NobodyHasLeft
  <2>3. QED
    BY <2>1, <2>2 DEF baton
<1>8. QED
  BY <1>1, <1>2, <1>3, <1>4, <1>5, <1>6, <1>7 DEF ChangesBaton

\* The two counters never count a thread that is not where they say, for any
\* number of threads and for either semaphore.
THEOREM CountersCorrect == Spec => []CountersOK
<1>1. Init => CountersOK
  <2> SUFFICES ASSUME Init PROVE CountersOK
    OBVIOUS
  <2>1. AtSemaphore = {} /\ InLoop = {}
    BY DEF Init, AtSemaphore, InLoop
  <2>2. QED
    BY <2>1, FS_EmptySet DEF Init, CountersOK
<1>2. TypeInv /\ CountersOK /\ [Next]_vars => CountersOK'
  <2> SUFFICES ASSUME TypeInv, CountersOK, [Next]_vars PROVE CountersOK'
    OBVIOUS
  <2>1. CASE UNCHANGED vars
    BY <2>1 DEF vars, baton, CountersOK, AtSemaphore, InLoop, NobodyHasLeft
  <2>2. QED
    BY <2>1, CountersStep DEF Next, AfterReturn
<1>3. QED
  BY <1>1, <1>2, TypeInvCorrect, PTL DEF Spec

\* When the counters are equal and nobody has left no thread handles a task.
LEMMA EqualCountersMeanQuiet ==
    ASSUME TypeInv, CountersOK, NobodyElseWorks, NobodyHasLeft
    PROVE  \A u \in Threads : ~Handling(u)
<1>1. IsFiniteSet(InLoop) /\ AtSemaphore \subseteq InLoop
  BY FiniteAssumption, FS_Subset DEF InLoop, AtSemaphore
<1>2. Cardinality(InLoop) <= Cardinality(AtSemaphore)
  BY DEF CountersOK, NobodyElseWorks
<1>3. /\ Cardinality(AtSemaphore) <= Cardinality(InLoop)
      /\ Cardinality(AtSemaphore) = Cardinality(InLoop) => AtSemaphore = InLoop
      /\ Cardinality(AtSemaphore) \in Nat /\ Cardinality(InLoop) \in Nat
  BY <1>1, FS_Subset, FS_CardinalityType
<1>4. InLoop = AtSemaphore
  BY <1>2, <1>3
<1>5. QED
  BY <1>4 DEF InLoop, AtSemaphore, Handling

\* The task loop gives up on the tasks that are left only when no thread works on
\* a task that could still make one of them pickable.
THEOREM GivesUpOnlyWhenQuietCorrect == Spec => GivesUpOnlyWhenQuiet
<1> DEFINE Quiet == \A t \in Threads :
                      NobodyHasLeft /\ pc[t] = "select" /\ pc'[t] = "leave" /\ tasks' # <<>> =>
                        \A u \in Threads : ~Handling(u)
<1>1. TypeInv /\ CountersOK /\ [Next]_vars => [Quiet]_vars
  <2> SUFFICES ASSUME TypeInv, CountersOK, Next, NEW t \in Threads,
                      NobodyHasLeft, pc[t] = "select", pc'[t] = "leave", tasks' # <<>>
               PROVE  \A u \in Threads : ~Handling(u)
    OBVIOUS
  <2>0. pc \in [Threads -> Labels]
    BY DEF TypeInv, TypeOK, LocalTypes
  <2>1. processImports(t)
    <3>1. CASE AfterReturn
      BY <3>1 DEF AfterReturn, vars
    <3>2. ASSUME NEW u \in Threads, processImports(u) PROVE u = t
      BY <3>2, OthersUnchanged DEF TypeInv, TypeOK
    <3>3. QED
      BY <3>1, <3>2 DEF Next
  <2>2. ~Handling(t)
    BY DEF Handling
  <2>3. Select(t)
    <3>1. ChangesBaton(t)
      BY <2>1, <2>2, HandlingStep
    <3>2. QED
      BY <3>1 DEF ChangesBaton, RegisterTotal, RegisterWaiting, Wait, Finish, Leave
  <2>4. NobodyElseWorks
    <3>1. pc' # [pc EXCEPT ![t] = "work"] /\ pc' # [pc EXCEPT ![t] = "wait"]
      BY <2>0
    <3>2. QED
      BY <2>3, <3>1, SelectSteps
  <2>5. QED
    BY <2>4, EqualCountersMeanQuiet
<1>2. QED
  BY <1>1, TypeInvCorrect, CountersCorrect, PTL DEF Spec, GivesUpOnlyWhenQuiet

-----------------------------------------------------------------------------
(* The waves, for one thread.                                               *)

Later(type) == {task \in CompilerTask : task.type >= type}

\* While a task of a wave is worked on, what is queued and what the handler has
\* yet to queue belongs to this wave or a later one.
WaveInv ==
    \A t \in Threads : Handling(t) /\ cur[t].type >= TASK_TYPE_FUNCTIONS =>
        /\ tasks \in Seq(Later(cur[t].type))
        /\ pc[t] = "post" => out[t] \in Seq(Later(cur[t].type))

\* The task types are numbers in the order of the phases.
LEMMA PhaseOrder ==
    /\ TASK_LEX < TASK_TYPE_FUNCTIONS /\ TASK_PREPROCESS_AND_PARSE < TASK_TYPE_FUNCTIONS
    /\ TASK_TYPE_ENUMS < TASK_TYPE_FUNCTIONS /\ TASK_TYPE_STRUCTS < TASK_TYPE_FUNCTIONS
    /\ TASK_TYPE_FUNCTIONS < TASK_TYPE_BODY /\ TASK_TYPE_BODY < TASK_GEN_BYTECODE
    /\ TASK_GEN_BYTECODE < TASK_GEN_BYTECODE_RUNDIR
    /\ TASK_GEN_BYTECODE_RUNDIR < TASK_GEN_MACHINE_CODE
    /\ TaskTypes \subseteq Nat
  BY DEF TaskTypes, ImportPhases, TASK_LEX, TASK_PREPROCESS_AND_PARSE, TASK_TYPE_ENUMS,
         TASK_TYPE_STRUCTS, TASK_TYPE_FUNCTIONS, TASK_TYPE_BODY, TASK_GEN_BYTECODE,
         TASK_GEN_BYTECODE_RUNDIR, TASK_GEN_MACHINE_CODE

\* A queue each of whose tasks is of a wave or a later one.
LEMMA SeqOfLater ==
    ASSUME NEW s \in Seq(CompilerTask), NEW type,
           \A k \in DOMAIN s : s[k].type >= type
    PROVE  s \in Seq(Later(type))
<1>1. Len(s) \in Nat /\ s \in [1..Len(s) -> CompilerTask]
  BY LenProperties
<1>2. s \in [1..Len(s) -> Later(type)]
  BY <1>1 DEF Later
<1>3. QED
  BY <1>1, <1>2, SeqDef

\* The tasks of function bodies belong to the wave of bodies.
LEMMA BodiesAreLater ==
    ASSUME NEW type \in Nat, type <= TASK_TYPE_BODY, NEW s \in Seq(BodyTask)
    PROVE  s \in Seq(Later(type))
<1>1. BodyTask \subseteq Later(type)
  BY DEF BodyTask, Later
<1>2. QED
  BY <1>1, SeqMonotonic

\* A thread's task changes when it is selected and when its handler ends.
LEMMA CurUnchanged ==
    ASSUME NEW t \in Threads, processImports(t), ~Select(t), ~Finish(t)
    PROVE  cur' = cur
<1> USE DEF local
<1>1. CASE Enter(t) \/ Lex(t) \/ Preprocess(t)
  BY <1>1 DEF Enter, RegisterTotal, RegisterWaiting, Wait, Lex, LexUnreadable, FindImport,
              LinkPreload, LinkImport, LexDone, Preprocess
<1>2. CASE TypeCheck(t)
  BY <1>2 DEF TypeCheck, Snapshot, TypeEnums, TypeStructs, JudgeRequeue, JudgeGiveUp, Requeue,
              TypeFunctions, Call, DeclareUsage, BodyDone
<1>3. CASE Generate(t) \/ Exit(t)
  BY <1>3 DEF Generate, QuickCheck, RunOnce, GenerateScope, GenerateMachineCode, Exit,
              AddFollowUp, Leave
<1>4. QED
  BY <1>1, <1>2, <1>3 DEF processImports

\* What follows a task of a wave belongs to the same wave or a later one.
LEMMA FollowUpLater ==
    ASSUME TypeInv, NEW t \in Threads, cur[t] \in CompilerTask,
           NEW type \in TaskTypes, NEW from \in Nat, from <= type
    PROVE  FollowUp(t, type) \in Seq(Later(from))
<1>1. Task(type, cur[t].import, NoFunction) \in Later(from)
  BY TaskFields DEF Task, CompilerTask, Later
<1>2. QED
  BY <1>1 DEF FollowUp

\* What a handler has yet to queue is what it completed its task with.
LEMMA CompleteOut ==
    ASSUME TypeInv, NEW t \in Threads, NEW S, NEW s \in Seq(S), Complete(t, s) \/ Drop(t)
    PROVE  pc'[t] = "post" => out'[t] \in Seq(S)
<1>0. pc \in [Threads -> Labels] /\ out \in [Threads -> Seq(CompilerTask)]
  BY DEF TypeInv, TypeOK, LocalTypes
<1>1. CASE Complete(t, s)
  BY <1>0, <1>1 DEF Complete
<1>2. CASE Drop(t)
  BY <1>0, <1>2 DEF Drop, Goto
<1>3. QED
  BY <1>1, <1>2

\* A thread that picks a task of a wave leaves none of an earlier wave.
LEMMA SelectWave ==
    ASSUME TypeInv, NEW t \in Threads, Select(t), Handling(t)',
           cur'[t].type >= TASK_TYPE_FUNCTIONS
    PROVE  tasks' \in Seq(Later(cur'[t].type)) /\ pc'[t] # "post"
<1>0. /\ pc \in [Threads -> Labels] /\ tasks \in Seq(CompilerTask)
      /\ cur \in [Threads -> CompilerTask \cup {NoTask}]
  BY DEF TypeInv, TypeOK, LocalTypes, QueueTypes
<1>1. PICK k \in 0..Len(tasks) :
         /\ IsPicked(t, k)
         /\ SelectTask(t, k) \/ SelectFinished(t, k) \/ SelectStuck(t, k) \/ SelectNothing(t, k)
  BY DEF Select
<1>2. SelectTask(t, k)
  BY <1>0, <1>1 DEF SelectFinished, SelectStuck, SelectNothing, Goto, Handling
<1>3. k \in 1..Len(tasks) /\ Pickable(tasks[k], state)
  BY <1>0, <1>1, <1>2 DEF SelectTask, Found, IsPicked
<1>4. cur'[t] = tasks[k] /\ pc'[t] = "work" /\ tasks' = RemoveAt(tasks, k)
  BY <1>0, <1>2 DEF SelectTask, TakeTask, Goto
<1>5. tasks[k] \in CompilerTask /\ tasks[k].type \in Nat
  BY <1>0, <1>3, ElementOfSeq, TaskFields
<1>6. NothingQueuedBefore(tasks[k].type)
  <2>1. tasks[k].type \notin {TASK_LEX, TASK_PREPROCESS_AND_PARSE, TASK_TYPE_ENUMS, TASK_TYPE_STRUCTS}
    BY <1>4, <1>5, PhaseOrder
       DEF TASK_LEX, TASK_PREPROCESS_AND_PARSE, TASK_TYPE_ENUMS, TASK_TYPE_STRUCTS, TASK_TYPE_FUNCTIONS
  <2>2. QED
    BY <1>3, <2>1 DEF Pickable
<1>7. tasks \in Seq(Later(tasks[k].type))
  BY <1>0, <1>6, SeqOfLater DEF NothingQueuedBefore
<1>8. QED
  BY <1>3, <1>4, <1>7, RemoveAtType

\* A handler queues only tasks of its own wave or of a later one.
LEMMA HandlerWave ==
    ASSUME TypeInv, WaveInv, NEW t \in Threads, processImports(t), ~ChangesBaton(t),
           cur[t].type >= TASK_TYPE_FUNCTIONS
    PROVE  /\ tasks' \in Seq(Later(cur[t].type))
           /\ pc'[t] = "post" => out'[t] \in Seq(Later(cur[t].type))
<1> DEFINE type == cur[t].type
<1>0. /\ Handling(t) /\ job \in JobType /\ LocalOK(t)
      /\ cur[t] \in CompilerTask /\ type \in TaskTypes /\ type \in Nat /\ cur[t].import \in Imports
      /\ pc \in [Threads -> Labels] /\ out \in [Threads -> Seq(CompilerTask)]
  BY HandlingStep, TaskFields DEF TypeInv, TypeOK, LocalTypes, LocalOK
<1>1. /\ tasks \in Seq(Later(type))
      /\ pc[t] = "post" => out[t] \in Seq(Later(type))
  BY <1>0 DEF WaveInv
<1>2. /\ type \notin {TASK_LEX, TASK_PREPROCESS_AND_PARSE, TASK_TYPE_ENUMS, TASK_TYPE_STRUCTS}
      /\ ~Lex(t) /\ ~Preprocess(t) /\ ~TypeEnums(t) /\ ~TypeStructs(t)
  <2>1. type \notin {TASK_LEX, TASK_PREPROCESS_AND_PARSE, TASK_TYPE_ENUMS, TASK_TYPE_STRUCTS}
    BY <1>0 DEF TASK_LEX, TASK_PREPROCESS_AND_PARSE, TASK_TYPE_ENUMS, TASK_TYPE_STRUCTS,
                TASK_TYPE_FUNCTIONS
  <2>2. QED
    BY <1>0, <2>1 DEF Lex, LexUnreadable, FindImport, LinkPreload, LinkImport, LexDone,
                      Preprocess, TypeEnums, TypeStructs, Working, LocalOK
<1>3. CASE Snapshot(t) \/ JudgeRequeue(t) \/ JudgeGiveUp(t) \/ DeclareUsage(t) \/ BodyDone(t)
           \/ QuickCheck(t) \/ RunOnce(t)
  BY <1>0, <1>1, <1>3 DEF Snapshot, JudgeRequeue, JudgeGiveUp, DeclareUsage, BodyDone, QuickCheck,
                          RunOnce, Advance, Goto, queue
<1>4. CASE Requeue(t)
  <2>1. <<cur[t]>> \in Seq(Later(type))
    BY <1>0 DEF Later
  <2>2. QED
    BY <1>0, <1>1, <1>4, <2>1, ConcatProperties DEF Requeue, Reinserted, Goto
<1>5. CASE TypeFunctions(t)
  <2>1. type = TASK_TYPE_FUNCTIONS
    BY <1>5 DEF TypeFunctions, Working
  <2>2. \A fns : Declares(cur[t].import, fns) \subseteq Functions
                   => FunctionBodies(cur[t].import, fns) \in Seq(Later(type))
    <3>1. type <= TASK_TYPE_BODY
      BY <2>1 DEF TASK_TYPE_FUNCTIONS, TASK_TYPE_BODY
    <3>2. QED
      BY <1>0, <3>1, FunctionBodiesType, BodiesAreLater
  <2>3. /\ Declares(cur[t].import, job.exported \ used) \subseteq Functions
        /\ Declares(cur[t].import, {job.entry}) \subseteq Functions
    BY <1>0, JobFields DEF Declares
  <2>4. tasks' \in Seq(Later(type))
    BY <1>1, <1>5, <2>2, <2>3, ConcatProperties DEF TypeFunctions
  <2>5. BodyTasks(cur[t].import) \in Seq(Later(type))
    <3>1. Task(TASK_TYPE_BODY, cur[t].import, NoFunction) \in Later(type)
      BY <1>0, <2>1, PhasesAreTypes DEF Task, CompilerTask, Later, TASK_TYPE_FUNCTIONS, TASK_TYPE_BODY
    <3>2. <<Task(TASK_TYPE_BODY, cur[t].import, NoFunction)>> \in Seq(Later(type))
      BY <3>1
    <3>3. FunctionBodies(cur[t].import, {job.entry}) \in Seq(Later(type))
      BY <2>2, <2>3
    <3>4. QED
      BY <3>2, <3>3, ConcatProperties, EmptySeq DEF BodyTasks
  <2>6. FollowUp(t, TASK_GEN_BYTECODE) \in Seq(Later(type))
    BY <1>0, <2>1, FollowUpLater, PhasesAreTypes DEF TASK_TYPE_FUNCTIONS, TASK_GEN_BYTECODE
  <2>7. BodyTasks(cur[t].import) \o FollowUp(t, TASK_GEN_BYTECODE) \in Seq(Later(type))
    BY <2>5, <2>6, ConcatProperties
  <2>8. QED
    BY <1>5, <2>4, <2>7, CompleteOut DEF TypeFunctions
<1>6. CASE Call(t)
  <2>1. todo[t] \subseteq Functions /\ type = TASK_TYPE_BODY
    BY <1>0, <1>6 DEF Call, Working, LocalOK
  <2>2. \A f \in todo[t] : Task(TASK_TYPE_BODY, job.home[f], f) \in Later(type)
    BY <1>0, <2>1, JobFields, PhasesAreTypes DEF Task, CompilerTask, Later
  <2>3. QED
    <3>1. PICK f \in todo[t] :
             tasks' = IF f \in used THEN tasks ELSE Append(tasks, Task(TASK_TYPE_BODY, job.home[f], f))
      BY <1>6 DEF Call
    <3>2. tasks' \in Seq(Later(type))
      <4>1. \A x \in Later(type) : Append(tasks, x) \in Seq(Later(type))
        BY <1>1
      <4>2. QED
        BY <1>1, <2>2, <3>1, <4>1
    <3>3. pc'[t] # "post"
      BY <1>0, <1>6 DEF Call, Goto
    <3>4. QED
      BY <3>2, <3>3
<1>7. CASE GenerateScope(t)
  <2>1. tasks' = tasks
    BY <1>7 DEF GenerateScope, queue
  <2>2. PICK s \in Seq(Later(type)) : Complete(t, s) \/ Drop(t)
    <3>1. type = TASK_GEN_BYTECODE => FollowUp(t, TASK_GEN_BYTECODE_RUNDIR) \in Seq(Later(type))
      <4>1. /\ TASK_GEN_BYTECODE <= TASK_GEN_BYTECODE_RUNDIR
            /\ TASK_GEN_BYTECODE_RUNDIR \in TaskTypes
        BY PhasesAreTypes DEF TASK_GEN_BYTECODE, TASK_GEN_BYTECODE_RUNDIR
      <4>2. QED
        BY <1>0, <4>1, FollowUpLater
    <3>2. type = TASK_GEN_BYTECODE_RUNDIR => FollowUp(t, TASK_GEN_MACHINE_CODE) \in Seq(Later(type))
      BY <1>0, FollowUpLater, PhasesAreTypes, PhaseOrder
         DEF TASK_GEN_MACHINE_CODE, TASK_GEN_BYTECODE_RUNDIR
    <3>3. type \in {TASK_GEN_BYTECODE, TASK_GEN_BYTECODE_RUNDIR}
      BY <1>7 DEF GenerateScope, GenerateTypes
    <3>4. QED
      BY <1>7, <3>1, <3>2, <3>3, EmptySeq DEF GenerateScope
  <2>3. QED
    BY <1>1, <2>1, <2>2, CompleteOut
<1>8. CASE GenerateMachineCode(t)
  BY <1>1, <1>8, CompleteOut, EmptySeq DEF GenerateMachineCode, queue
<1>9. CASE AddFollowUp(t)
  <2>1. Head(out[t]) \in Later(type) /\ Tail(out[t]) \in Seq(Later(type))
    BY <1>0, <1>1, <1>9, HeadTailProperties DEF AddFollowUp, LocalOK
  <2>2. QED
    BY <1>0, <1>1, <1>9, <2>1 DEF AddFollowUp
<1>10. QED
  BY <1>2, <1>3, <1>4, <1>5, <1>6, <1>7, <1>8, <1>9
     DEF processImports, ChangesBaton, Enter, TypeCheck, Generate, Exit

\* With one thread the waves stay in order: what follows a task of a wave is
\* queued behind it, and none of an earlier wave is left when it is picked.
THEOREM WaveInvCorrect == (\A t, u \in Threads : t = u) => (Spec => []WaveInv)
<1> SUFFICES ASSUME \A t, u \in Threads : t = u PROVE Spec => []WaveInv
  OBVIOUS
<1>1. Init => WaveInv
  BY DEF Init, WaveInv, Handling
<1>2. TypeInv /\ WaveInv /\ [Next]_vars => WaveInv'
  <2> SUFFICES ASSUME TypeInv, WaveInv, [Next]_vars PROVE WaveInv'
    OBVIOUS
  <2>0. pc \in [Threads -> Labels]
    BY DEF TypeInv, TypeOK, LocalTypes
  <2>1. CASE UNCHANGED vars
    BY <2>1 DEF vars, queue, local, WaveInv, Handling
  <2>2. ASSUME NEW t \in Threads, processImports(t) PROVE WaveInv'
    <3>1. SUFFICES ASSUME Handling(t)', cur'[t].type >= TASK_TYPE_FUNCTIONS
                   PROVE  /\ tasks' \in Seq(Later(cur'[t].type))
                          /\ pc'[t] = "post" => out'[t] \in Seq(Later(cur'[t].type))
      BY DEF WaveInv
    <3>2. CASE Select(t)
      BY <3>1, <3>2, SelectWave
    <3>3. CASE ChangesBaton(t) /\ ~Select(t)
      BY <2>0, <3>1, <3>3 DEF ChangesBaton, RegisterTotal, RegisterWaiting, Wait, Finish, Leave,
                              Goto, Handling
    <3>4. CASE ~ChangesBaton(t)
      <4>1. cur' = cur
        BY <2>2, <3>4, CurUnchanged DEF ChangesBaton
      <4>2. QED
        BY <2>2, <3>1, <3>4, <4>1, HandlerWave
    <3>5. QED
      BY <3>2, <3>3, <3>4
  <2>3. QED
    BY <2>1, <2>2 DEF Next, AfterReturn
<1>3. QED
  BY <1>1, <1>2, TypeInvCorrect, PTL DEF Spec

\* With one thread, which is the default, no task of a wave is worked on while a
\* task of an earlier wave is left, whatever the program: signatures wait for all
\* structs, bodies for all signatures, bytecode for all bodies, functions with run
\* directives for those without, machine code for all bytecode.
THEOREM WaveOrderCorrect == (\A t, u \in Threads : t = u) => (Spec => []WaveOrder)
<1> SUFFICES ASSUME \A t, u \in Threads : t = u PROVE Spec => []WaveOrder
  OBVIOUS
<1>1. TypeInv /\ WaveInv => WaveOrder
  <2> SUFFICES ASSUME TypeInv, WaveInv, NEW t \in Threads, Handling(t),
                      cur[t].type >= TASK_TYPE_FUNCTIONS
               PROVE  /\ \A k \in DOMAIN tasks : tasks[k].type >= cur[t].type
                      /\ \A u \in Threads : Handling(u) => cur[u].type >= cur[t].type
    BY DEF WaveOrder
  <2>1. \A k \in DOMAIN tasks : tasks[k] \in Later(cur[t].type)
    BY LenProperties DEF WaveInv
  <2>2. cur[t].type \in Nat
    BY TaskFields DEF TypeInv, LocalOK
  <2>3. QED
    BY <2>1, <2>2 DEF Later
<1>2. Spec => []WaveInv
  BY WaveInvCorrect
<1>3. QED
  BY <1>1, <1>2, TypeInvCorrect, PTL DEF Spec

-----------------------------------------------------------------------------
(* Sequences of tasks: which tasks are in them, what these are about, and   *)
(* whether two of them are about the same thing.                            *)

PhaseTask == {task \in CompilerTask : task.type \in ImportPhases}

Subjects(s, C) == {Subject(x) : x \in ToSet(s) \cap C}
Apart(s, C) == \A k, l \in DOMAIN s :
                  s[k] \in C /\ s[l] \in C /\ Subject(s[k]) = Subject(s[l]) => k = l

\* A task is about a phase of an import or about a body.
LEMMA PhaseOrBody ==
    /\ CompilerTask = PhaseTask \cup BodyTask /\ PhaseTask \cap BodyTask = {}
    /\ \A x \in PhaseTask \cup BodyTask : Subject(x) \in Imports \cup Functions
<1>1. TASK_TYPE_BODY \notin ImportPhases
  BY DEF ImportPhases, TASK_LEX, TASK_PREPROCESS_AND_PARSE, TASK_TYPE_ENUMS, TASK_TYPE_STRUCTS,
         TASK_TYPE_FUNCTIONS, TASK_TYPE_BODY, TASK_GEN_BYTECODE, TASK_GEN_BYTECODE_RUNDIR,
         TASK_GEN_MACHINE_CODE
<1>2. \A x \in CompilerTask : /\ x.type \in ImportPhases \cup {TASK_TYPE_BODY}
                              /\ x.import \in Imports /\ x.function \in Functions \cup {NoFunction}
  BY TaskFields DEF TaskTypes
<1> QED
  BY <1>1, <1>2 DEF PhaseTask, BodyTask, Subject

\* What is in a sequence, and apart in it, after an element has been appended.
LEMMA AppendApart ==
    ASSUME NEW S, NEW s \in Seq(S), NEW x \in S
    PROVE  /\ ToSet(Append(s, x)) = ToSet(s) \cup {x}
           /\ \A C : Apart(s, C) /\ (x \in C => Subject(x) \notin Subjects(s, C))
                        => Apart(Append(s, x), C)
<1> DEFINE r == Append(s, x)
<1>1. /\ Len(s) \in Nat /\ DOMAIN s = 1..Len(s)
      /\ DOMAIN r = 1..(Len(s) + 1) /\ r[Len(s) + 1] = x
      /\ \A k \in DOMAIN s : r[k] = s[k]
  BY LenProperties
<1>2. ToSet(r) = ToSet(s) \cup {x}
  BY <1>1 DEF ToSet
<1>3. ASSUME NEW C, Apart(s, C), x \in C => Subject(x) \notin Subjects(s, C)
      PROVE  Apart(r, C)
  <2>1. \A k \in DOMAIN s : s[k] \in C => Subject(s[k]) \in Subjects(s, C)
    BY DEF Subjects, ToSet
  <2>2. SUFFICES ASSUME NEW k \in DOMAIN r, NEW l \in DOMAIN r,
                        r[k] \in C, r[l] \in C, Subject(r[k]) = Subject(r[l])
                 PROVE  k = l
    BY DEF Apart
  <2>3. CASE k \in DOMAIN s /\ l \in DOMAIN s
    BY <1>1, <1>3, <2>2, <2>3 DEF Apart
  <2>4. CASE k = Len(s) + 1 /\ l = Len(s) + 1
    BY <2>4
  <2>5. CASE k \in DOMAIN s /\ l = Len(s) + 1
    BY <1>1, <1>3, <2>1, <2>2, <2>5
  <2>6. CASE k = Len(s) + 1 /\ l \in DOMAIN s
    BY <1>1, <1>3, <2>1, <2>2, <2>6
  <2> QED
    BY <1>1, <2>3, <2>4, <2>5, <2>6
<1> QED
  BY <1>2, <1>3

\* The same for the concatenation of two sequences.
LEMMA ConcatApart ==
    ASSUME NEW S, NEW s \in Seq(S), NEW r \in Seq(S)
    PROVE  /\ ToSet(s \o r) = ToSet(s) \cup ToSet(r)
           /\ \A C : Apart(s, C) /\ Apart(r, C) /\ Subjects(s, C) \cap Subjects(r, C) = {}
                        => Apart(s \o r, C)
<1> DEFINE c == s \o r
<1>1. /\ Len(s) \in Nat /\ Len(r) \in Nat /\ DOMAIN s = 1..Len(s) /\ DOMAIN r = 1..Len(r)
      /\ DOMAIN c = 1..(Len(s) + Len(r))
      /\ \A k \in DOMAIN c : c[k] = IF k <= Len(s) THEN s[k] ELSE r[k - Len(s)]
  BY LenProperties, ConcatProperties
<1>2. ToSet(c) = ToSet(s) \cup ToSet(r)
  <2>1. \A k \in DOMAIN c : c[k] \in ToSet(s) \cup ToSet(r)
    BY <1>1 DEF ToSet
  <2>2. \A k \in DOMAIN s : k \in DOMAIN c /\ c[k] = s[k]
    BY <1>1
  <2>3. \A k \in DOMAIN r : k + Len(s) \in DOMAIN c /\ c[k + Len(s)] = r[k]
    BY <1>1
  <2>4. ToSet(s) \subseteq ToSet(c)
    BY <2>2 DEF ToSet
  <2>5. ToSet(r) \subseteq ToSet(c)
    BY <2>3 DEF ToSet
  <2>6. ToSet(c) \subseteq ToSet(s) \cup ToSet(r)
    BY <2>1 DEF ToSet
  <2> QED
    BY <2>4, <2>5, <2>6
<1>3. ASSUME NEW C, Apart(s, C), Apart(r, C), Subjects(s, C) \cap Subjects(r, C) = {}
      PROVE  Apart(c, C)
  <2>1. /\ \A k \in DOMAIN s : s[k] \in C => Subject(s[k]) \in Subjects(s, C)
        /\ \A k \in DOMAIN r : r[k] \in C => Subject(r[k]) \in Subjects(r, C)
    BY DEF Subjects, ToSet
  <2>2. SUFFICES ASSUME NEW k \in DOMAIN c, NEW l \in DOMAIN c,
                        c[k] \in C, c[l] \in C, Subject(c[k]) = Subject(c[l])
                 PROVE  k = l
    BY DEF Apart
  <2>3. CASE k <= Len(s) /\ l <= Len(s)
    BY <1>1, <1>3, <2>2, <2>3 DEF Apart
  <2>4. CASE k > Len(s) /\ l > Len(s)
    <3>1. /\ k - Len(s) \in DOMAIN r /\ l - Len(s) \in DOMAIN r
          /\ c[k] = r[k - Len(s)] /\ c[l] = r[l - Len(s)]
      BY <1>1, <2>4
    <3>2. k - Len(s) = l - Len(s)
      BY <1>3, <2>2, <3>1 DEF Apart
    <3> QED
      BY <1>1, <3>2
  <2>5. CASE k <= Len(s) /\ l > Len(s)
    <3>1. k \in DOMAIN s /\ c[k] = s[k] /\ l - Len(s) \in DOMAIN r /\ c[l] = r[l - Len(s)]
      BY <1>1, <2>5
    <3> QED
      BY <1>3, <2>1, <2>2, <3>1
  <2>6. CASE k > Len(s) /\ l <= Len(s)
    <3>1. l \in DOMAIN s /\ c[l] = s[l] /\ k - Len(s) \in DOMAIN r /\ c[k] = r[k - Len(s)]
      BY <1>1, <2>6
    <3> QED
      BY <1>3, <2>1, <2>2, <3>1
  <2> QED
    BY <1>1, <2>3, <2>4, <2>5, <2>6
<1> QED
  BY <1>2, <1>3

\* The elements of a sequence from which one has been taken.
LEMMA RemoveAtElements ==
    ASSUME NEW S, NEW s \in Seq(S), NEW k \in 1..Len(s)
    PROVE  /\ DOMAIN RemoveAt(s, k) = 1..(Len(s) - 1)
           /\ \A l \in 1..(Len(s) - 1) : RemoveAt(s, k)[l] = s[IF l < k THEN l ELSE l + 1]
<1> DEFINE a == SubSeq(s, 1, k - 1)
           b == SubSeq(s, k + 1, Len(s))
<1>0. Len(s) \in Nat /\ \A l \in 1..Len(s) : s[l] \in S
  BY LenProperties, ElementOfSeq
<1>1. a \in Seq(S) /\ Len(a) = k - 1 /\ \A l \in 1..(k - 1) : a[l] = s[l]
  BY <1>0, SubSeqProperties
<1>2. b \in Seq(S) /\ Len(b) = Len(s) - k /\ \A l \in 1..(Len(s) - k) : b[l] = s[k + l]
  BY <1>0, SubSeqProperties
<1> HIDE DEF a, b
<1>3. /\ a \o b \in Seq(S) /\ Len(a \o b) = Len(a) + Len(b)
      /\ \A l \in 1..(Len(a) + Len(b)) : (a \o b)[l] = IF l <= Len(a) THEN a[l] ELSE b[l - Len(a)]
  BY <1>1, <1>2, ConcatProperties
<1>4. ASSUME NEW l \in 1..(Len(s) - 1) PROVE (a \o b)[l] = s[IF l < k THEN l ELSE l + 1]
  <2>1. l \in 1..(Len(a) + Len(b))
    BY <1>0, <1>1, <1>2
  <2>2. CASE l < k
    BY <1>0, <1>1, <1>3, <2>1, <2>2
  <2>3. CASE ~(l < k)
    <3>1. l - Len(a) \in 1..(Len(s) - k) /\ k + (l - Len(a)) = l + 1
      BY <1>0, <1>1, <2>3
    <3>2. (a \o b)[l] = b[l - Len(a)]
      BY <1>0, <1>1, <1>3, <2>1, <2>3
    <3> QED
      BY <1>2, <2>3, <3>1, <3>2
  <2> QED
    BY <2>2, <2>3
<1>5. DOMAIN (a \o b) = 1..(Len(s) - 1)
  BY <1>0, <1>1, <1>2, <1>3, LenProperties
<1>6. RemoveAt(s, k) = a \o b
  BY DEF RemoveAt, a, b
<1> QED
  BY <1>4, <1>5, <1>6

\* What is in that sequence, and apart in it.
LEMMA RemoveApart ==
    ASSUME NEW S, NEW s \in Seq(S), NEW k \in 1..Len(s)
    PROVE  /\ ToSet(s) = ToSet(RemoveAt(s, k)) \cup {s[k]}
           /\ \A C : Apart(s, C) =>
                 /\ Apart(RemoveAt(s, k), C)
                 /\ s[k] \in C => Subject(s[k]) \notin Subjects(RemoveAt(s, k), C)
<1> DEFINE r == RemoveAt(s, k)
           at(l) == IF l < k THEN l ELSE l + 1
<1>1. /\ Len(s) \in Nat /\ DOMAIN s = 1..Len(s) /\ DOMAIN r = 1..(Len(s) - 1)
      /\ \A l \in DOMAIN r : r[l] = s[at(l)]
  BY LenProperties, RemoveAtElements
<1>2. \A l \in DOMAIN r : at(l) \in DOMAIN s /\ at(l) # k
  BY <1>1
<1>3. \A l, m \in DOMAIN r : at(l) = at(m) => l = m
  BY <1>1
<1>4. \A m \in DOMAIN s : m # k => \E l \in DOMAIN r : at(l) = m
  <2> SUFFICES ASSUME NEW m \in DOMAIN s, m # k PROVE \E l \in DOMAIN r : at(l) = m
    OBVIOUS
  <2>1. CASE m < k
    BY <1>1, <2>1
  <2>2. CASE m > k
    <3>1. m - 1 \in DOMAIN r /\ at(m - 1) = m
      BY <1>1, <2>2
    <3> QED
      BY <3>1
  <2> QED
    BY <1>1, <2>1, <2>2
<1>5. ToSet(s) = ToSet(r) \cup {s[k]}
  <2>1. k \in DOMAIN s
    BY <1>1
  <2>2. \A l \in DOMAIN r : r[l] \in ToSet(s)
    BY <1>1, <1>2 DEF ToSet
  <2>3. \A m \in DOMAIN s : s[m] \in ToSet(r) \cup {s[k]}
    BY <1>1, <1>4 DEF ToSet
  <2> QED
    BY <2>1, <2>2, <2>3 DEF ToSet
<1>6. ASSUME NEW C, Apart(s, C)
      PROVE  Apart(r, C) /\ (s[k] \in C => Subject(s[k]) \notin Subjects(r, C))
  <2>1. Apart(r, C)
    BY <1>1, <1>2, <1>3, <1>6 DEF Apart
  <2>2. ASSUME s[k] \in C, Subject(s[k]) \in Subjects(r, C) PROVE FALSE
    <3>1. PICK l \in DOMAIN r : r[l] \in C /\ Subject(r[l]) = Subject(s[k])
      BY <2>2 DEF Subjects, ToSet
    <3>2. at(l) = k
      BY <1>1, <1>2, <1>6, <2>2, <3>1 DEF Apart
    <3> QED
      BY <1>2, <3>2
  <2> QED
    BY <2>1, <2>2
<1> QED
  BY <1>5, <1>6

\* The same when the first element is taken.
LEMMA TailApart ==
    ASSUME NEW S, NEW s \in Seq(S), s # <<>>
    PROVE  /\ ToSet(s) = ToSet(Tail(s)) \cup {Head(s)}
           /\ \A C : Apart(s, C) =>
                 /\ Apart(Tail(s), C)
                 /\ Head(s) \in C => Subject(Head(s)) \notin Subjects(Tail(s), C)
<1>1. Len(s) \in Nat \ {0} /\ \A i \in 1..Len(s) : s[i] \in S
  BY EmptySeq, LenProperties, ElementOfSeq
<1>2. RemoveAt(s, 1) = Tail(s)
  <2>1. SubSeq(s, 1, 0) = <<>> /\ SubSeq(s, 2, Len(s)) = Tail(s) /\ Tail(s) \in Seq(S)
    BY <1>1, SubSeqEmpty, TailIsSubSeq, HeadTailProperties
  <2> QED
    BY <2>1, ConcatEmptySeq DEF RemoveAt
<1>3. Head(s) = s[1] /\ 1 \in 1..Len(s)
  BY <1>1
<1>4. /\ ToSet(s) = ToSet(RemoveAt(s, 1)) \cup {s[1]}
      /\ \A C : Apart(s, C) =>
            /\ Apart(RemoveAt(s, 1), C)
            /\ s[1] \in C => Subject(s[1]) \notin Subjects(RemoveAt(s, 1), C)
  BY <1>3, RemoveApart
<1> QED
  BY <1>2, <1>3, <1>4

\* Nothing is in the empty sequence, and one task in the sequence of one.
LEMMA ShortApart ==
    /\ ToSet(<<>>) = {} /\ \A C : Apart(<<>>, C)
    /\ \A x : ToSet(<<x>>) = {x} /\ \A C : Apart(<<x>>, C)
  BY DEF ToSet, Apart

-----------------------------------------------------------------------------
(* The invariant.                                                           *)

\* A thread has a task until its handler is done with it, and an import from
\* then on until the task that follows has been queued.
Holds(t) == Handling(t) /\ pc[t] \notin {"post", "finish"}
Owns(t) == (Holds(t) /\ cur[t] \in PhaseTask) \/ pc[t] = "post"

\* A task for a phase finds exactly the phases before it done.
InOrder(task) ==
    /\ task.import \in imports /\ task.function = NoFunction
    /\ state[task.import] = PhasesBefore(task.type)

\* What a handler has yet to queue: bodies, then the next phase of its import.
FollowsUp(t) ==
    LET n == Len(out[t])
    IN  /\ out[t][n] \in PhaseTask /\ out[t][n].import = cur[t].import /\ InOrder(out[t][n])
        /\ \A k \in 1..(n - 1) : out[t][k] \in BodyTask

QueueInOrder ==
    /\ \A x \in ToSet(tasks) \cap PhaseTask : InOrder(x)
    /\ Apart(tasks, PhaseTask)

ThreadInOrder(t) ==
    /\ Owns(t) => /\ cur[t] \in PhaseTask
                  /\ cur[t].import \in imports /\ cur[t].function = NoFunction
                  /\ cur[t].import \notin Subjects(tasks, PhaseTask)
    /\ Owns(t) /\ pc[t] # "post" => state[cur[t].import] = PhasesBefore(cur[t].type)
    /\ IF pc[t] = "post" THEN FollowsUp(t) ELSE out[t] = <<>>

OneOwner == \A t, u \in Threads : Owns(t) /\ Owns(u) /\ cur[t].import = cur[u].import => t = u

\* The phases an import has been through are the first so many.
FirstPhases == {PhasesBefore(p) : p \in ImportPhases} \cup {ImportPhases}
StatesInOrder ==
    /\ \A i \in Imports \ imports : state[i] = {}
    /\ \A i \in Imports : state[i] \in FirstPhases

ChainInv ==
    QueueInOrder /\ (\A t \in Threads : ThreadInOrder(t)) /\ OneOwner /\ StatesInOrder

-----------------------------------------------------------------------------
\* Which phases come before which.
LEMMA PhaseAfterPhase ==
    /\ PhasesBefore(TASK_LEX) = {}
    /\ PhasesBefore(TASK_PREPROCESS_AND_PARSE) = PhasesBefore(TASK_LEX) \cup {TASK_LEX}
    /\ PhasesBefore(TASK_TYPE_ENUMS) =
          PhasesBefore(TASK_PREPROCESS_AND_PARSE) \cup {TASK_PREPROCESS_AND_PARSE}
    /\ PhasesBefore(TASK_TYPE_STRUCTS) = PhasesBefore(TASK_TYPE_ENUMS) \cup {TASK_TYPE_ENUMS}
    /\ PhasesBefore(TASK_TYPE_FUNCTIONS) = PhasesBefore(TASK_TYPE_STRUCTS) \cup {TASK_TYPE_STRUCTS}
    /\ PhasesBefore(TASK_GEN_BYTECODE) = PhasesBefore(TASK_TYPE_FUNCTIONS) \cup {TASK_TYPE_FUNCTIONS}
    /\ PhasesBefore(TASK_GEN_BYTECODE_RUNDIR) =
          PhasesBefore(TASK_GEN_BYTECODE) \cup {TASK_GEN_BYTECODE}
    /\ PhasesBefore(TASK_GEN_MACHINE_CODE) =
          PhasesBefore(TASK_GEN_BYTECODE_RUNDIR) \cup {TASK_GEN_BYTECODE_RUNDIR}
    /\ ImportPhases = PhasesBefore(TASK_GEN_MACHINE_CODE) \cup {TASK_GEN_MACHINE_CODE}
    /\ \A p \in ImportPhases : PhasesBefore(p) \subseteq ImportPhases /\ p \notin PhasesBefore(p)
  BY DEF PhasesBefore, ImportPhases, TASK_LEX, TASK_PREPROCESS_AND_PARSE, TASK_TYPE_ENUMS,
         TASK_TYPE_STRUCTS, TASK_TYPE_FUNCTIONS, TASK_GEN_BYTECODE, TASK_GEN_BYTECODE_RUNDIR,
         TASK_GEN_MACHINE_CODE

\* A step of one thread keeps the invariant when it does so for the queue and
\* the thread itself, and takes nothing from the others.
LEMMA ChainStep ==
    ASSUME ChainInv, NEW t \in Threads, imports \subseteq imports',
           \A u \in Threads \ {t} : pc'[u] = pc[u] /\ cur'[u] = cur[u] /\ out'[u] = out[u],
           QueueInOrder', ThreadInOrder(t)', StatesInOrder',
           \A u \in Threads \ {t} : Owns(u) =>
              /\ cur[u].import \notin Subjects(tasks', PhaseTask)
              /\ state'[cur[u].import] = state[cur[u].import]
              /\ Owns(t)' => cur'[t].import # cur[u].import
    PROVE  ChainInv'
<1>1. \A u \in Threads \ {t} : (Owns(u)' <=> Owns(u)) /\ cur'[u] = cur[u]
  BY DEF Owns, Holds, Handling
<1>2. ASSUME NEW u \in Threads \ {t} PROVE ThreadInOrder(u)'
  <2>0. ThreadInOrder(u)
    BY <1>2 DEF ChainInv
  <2>1. Owns(u)' => /\ (cur[u] \in PhaseTask)'
                    /\ cur'[u].import \in imports' /\ cur'[u].function = NoFunction
                    /\ cur'[u].import \notin Subjects(tasks', PhaseTask)
    BY <1>1, <2>0 DEF ThreadInOrder, PhaseTask, CompilerTask
  <2>2. Owns(u)' /\ pc'[u] # "post" => state'[cur'[u].import] = PhasesBefore(cur'[u].type)
    BY <1>1, <2>0 DEF ThreadInOrder
  <2>3. CASE pc'[u] = "post"
    <3>1. pc[u] = "post" /\ Owns(u) /\ out'[u] = out[u] /\ cur'[u] = cur[u]
      BY <2>3 DEF Owns
    <3>2. FollowsUp(u) /\ state'[cur[u].import] = state[cur[u].import]
      BY <2>0, <3>1 DEF ThreadInOrder
    <3>3. FollowsUp(u)'
      BY <3>1, <3>2 DEF FollowsUp, InOrder, PhaseTask, CompilerTask, BodyTask
    <3> QED
      BY <2>1, <2>2, <2>3, <3>3 DEF ThreadInOrder
  <2>4. CASE pc'[u] # "post"
    BY <2>0, <2>1, <2>2, <2>4 DEF ThreadInOrder
  <2> QED
    BY <2>3, <2>4
<1>3. OneOwner'
  <2> SUFFICES ASSUME NEW u \in Threads, NEW v \in Threads, Owns(u)', Owns(v)',
                      cur'[u].import = cur'[v].import
               PROVE  u = v
    BY DEF OneOwner
  <2>1. CASE u # t /\ v # t
    BY <1>1, <2>1 DEF ChainInv, OneOwner
  <2>2. CASE u = t \/ v = t
    BY <1>1, <2>2
  <2> QED
    BY <2>1, <2>2
<1> QED
  BY <1>2, <1>3 DEF ChainInv

\* Nothing happens to an import: the queue loses tasks or gains bodies, and the
\* thread keeps the task it has or drops it.
LEMMA ChainQuiet ==
    ASSUME ChainInv, NEW t \in Threads, imports' = imports, state' = state,
           \A u \in Threads \ {t} : pc'[u] = pc[u] /\ cur'[u] = cur[u] /\ out'[u] = out[u],
           ToSet(tasks') \cap PhaseTask \subseteq ToSet(tasks), Apart(tasks', PhaseTask),
           pc[t] # "post", pc'[t] # "post", out'[t] = out[t],
           Owns(t)' => Owns(t) /\ cur'[t] = cur[t]
    PROVE  ChainInv'
<1>1. Subjects(tasks', PhaseTask) \subseteq Subjects(tasks, PhaseTask)
  BY DEF Subjects
<1>2. QueueInOrder'
  <2>1. \A x : InOrder(x)' <=> InOrder(x)
    BY DEF InOrder
  <2> QED
    BY <2>1 DEF ChainInv, QueueInOrder, PhaseTask, CompilerTask
<1>3. ThreadInOrder(t)'
  BY <1>1 DEF ChainInv, ThreadInOrder, PhaseTask, CompilerTask
<1>4. StatesInOrder'
  BY DEF ChainInv, StatesInOrder, FirstPhases, PhasesBefore
<1>5. \A u \in Threads \ {t} : Owns(u) =>
         /\ cur[u].import \notin Subjects(tasks', PhaseTask)
         /\ Owns(t)' => cur'[t].import # cur[u].import
  BY <1>1 DEF ChainInv, ThreadInOrder, OneOwner
<1> QED
  BY <1>2, <1>3, <1>4, <1>5, ChainStep

\* A handler that completes the phase of an import leaves the import to itself
\* until it has queued the next phase, if there is one.
LEMMA ChainComplete ==
    ASSUME TypeInv, ChainInv, NEW t \in Threads, imports' = imports, cur' = cur,
           \A u \in Threads \ {t} : pc'[u] = pc[u] /\ cur'[u] = cur[u] /\ out'[u] = out[u],
           Holds(t), cur[t] \in PhaseTask,
           ToSet(tasks') \cap PhaseTask \subseteq ToSet(tasks), Apart(tasks', PhaseTask),
           \/ cur[t].type = TASK_GEN_MACHINE_CODE /\ Complete(t, <<>>)
           \/ \E bodies \in Seq(BodyTask), next \in ImportPhases :
                 /\ PhasesBefore(next) = PhasesBefore(cur[t].type) \cup {cur[t].type}
                 /\ Complete(t, bodies \o FollowUp(t, next))
    PROVE  ChainInv'
<1> DEFINE i == cur[t].import
<1>0. /\ i \in Imports /\ cur[t].type \in ImportPhases /\ cur[t] \in CompilerTask
      /\ Owns(t) /\ pc[t] # "post" /\ i \in imports /\ cur[t].function = NoFunction
      /\ i \notin Subjects(tasks, PhaseTask) /\ state[i] = PhasesBefore(cur[t].type)
      /\ state \in [Imports -> SUBSET TaskTypes]
      /\ pc \in [Threads -> Labels] /\ out \in [Threads -> Seq(CompilerTask)]
  BY TaskFields DEF Owns, Holds, ChainInv, ThreadInOrder, PhaseTask, TypeInv, TypeOK, DataTypes,
                    LocalTypes
<1>1. state' = [state EXCEPT ![i] = @ \cup {cur[t].type}]
  BY DEF Complete
<1>2. Subjects(tasks', PhaseTask) \subseteq Subjects(tasks, PhaseTask)
  BY DEF Subjects
<1>3. QueueInOrder'
  <2>1. \A x \in ToSet(tasks) \cap PhaseTask : x.import # i /\ InOrder(x)
    BY <1>0 DEF ChainInv, QueueInOrder, InOrder, Subjects, Subject
  <2>2. \A x \in ToSet(tasks) \cap PhaseTask : InOrder(x)'
    BY <1>1, <2>1 DEF InOrder, PhaseTask, CompilerTask, PhasesBefore
  <2> QED
    BY <2>2 DEF QueueInOrder, PhaseTask, CompilerTask
<1>4. state'[i] = PhasesBefore(cur[t].type) \cup {cur[t].type}
  BY <1>0, <1>1
<1>5. StatesInOrder'
  <2>1. state'[i] \in FirstPhases
    <3>1. CASE cur[t].type = TASK_GEN_MACHINE_CODE /\ Complete(t, <<>>)
      BY <1>4, <3>1, PhaseAfterPhase DEF FirstPhases
    <3>2. ASSUME NEW next \in ImportPhases,
                 PhasesBefore(next) = PhasesBefore(cur[t].type) \cup {cur[t].type}
          PROVE  state'[i] \in FirstPhases
      BY <1>4, <3>2 DEF FirstPhases
    <3> QED
      BY <3>1, <3>2
  <2>2. \A j \in Imports \ {i} : state'[j] = state[j]
    BY <1>0, <1>1
  <2>3. i \in imports'
    BY <1>0
  <2>4. /\ \A j \in Imports \ imports : state[j] = {}
        /\ \A j \in Imports : state[j] \in FirstPhases
    BY DEF ChainInv, StatesInOrder
  <2>5. (FirstPhases)' = FirstPhases
    BY DEF FirstPhases, PhasesBefore
  <2>6. \A j \in Imports \ imports : j # i
    BY <1>0
  <2> QED
    BY <2>1, <2>2, <2>4, <2>5, <2>6 DEF StatesInOrder
<1>6. ThreadInOrder(t)'
  <2>1. /\ (cur[t] \in PhaseTask)' /\ cur'[t].import \in imports' /\ cur'[t].function = NoFunction
        /\ cur'[t].import \notin Subjects(tasks', PhaseTask)
    BY <1>0, <1>2 DEF PhaseTask, CompilerTask
  <2>2. CASE cur[t].type = TASK_GEN_MACHINE_CODE /\ Complete(t, <<>>)
    <3>1. pc'[t] = "finish" /\ out'[t] = <<>>
      BY <1>0, <2>2 DEF Complete, Goto
    <3>2. ~Owns(t)'
      BY <3>1 DEF Owns, Holds
    <3> QED
      BY <3>1, <3>2 DEF ThreadInOrder
  <2>3. ASSUME NEW bodies \in Seq(BodyTask), NEW next \in ImportPhases,
               PhasesBefore(next) = PhasesBefore(cur[t].type) \cup {cur[t].type},
               Complete(t, bodies \o FollowUp(t, next))
        PROVE  ThreadInOrder(t)'
    <3> DEFINE last == Task(next, i, NoFunction)
               s == bodies \o <<last>>
               n == Len(bodies) + 1
    <3>1. last \in PhaseTask /\ last.import = i /\ last.function = NoFunction /\ last.type = next
      BY <1>0 DEF Task, PhaseTask, CompilerTask, TaskTypes
    <3>2. bodies \in Seq(CompilerTask) /\ <<last>> \in Seq(CompilerTask)
      BY <3>1, SeqMonotonic DEF BodyTask, PhaseTask
    <3>3. Len(bodies) \in Nat /\ Len(<<last>>) = 1 /\ <<last>>[1] = last
      BY <3>2, LenProperties
    <3>4. /\ Len(s) = n /\ s[n] = last
          /\ \A k \in 1..(n - 1) : s[k] = bodies[k] /\ bodies[k] \in BodyTask
      <4>1. /\ Len(s) = Len(bodies) + Len(<<last>>)
            /\ \A k \in 1..(Len(bodies) + Len(<<last>>)) :
                  s[k] = IF k <= Len(bodies) THEN bodies[k] ELSE <<last>>[k - Len(bodies)]
        BY <3>2, ConcatProperties
      <4>2. \A k \in 1..Len(bodies) : bodies[k] \in BodyTask
        BY ElementOfSeq
      <4>3. Len(s) = n
        BY <3>3, <4>1
      <4>4. s[n] = last
        BY <3>3, <4>1
      <4> QED
        BY <3>3, <4>1, <4>2, <4>3, <4>4
    <3>5. s # <<>>
      BY <3>3, <3>4
    <3>6. pc'[t] = "post" /\ out'[t] = s
      BY <1>0, <2>3, <3>5 DEF Complete, Goto, FollowUp
    <3>7. /\ last.import \in imports' /\ last.function = NoFunction
          /\ state'[last.import] = PhasesBefore(last.type)
      BY <1>0, <1>4, <2>3, <3>1
    <3>8. FollowsUp(t)'
      <4> HIDE DEF last, s, n
      <4>1. Len(out'[t]) = n /\ out'[t][n] = last
        BY <3>4, <3>6
      <4>2. last \in PhaseTask /\ last.import = cur'[t].import
        BY <3>1
      <4>3. \A k \in 1..(n - 1) : out'[t][k] \in BodyTask
        BY <3>4, <3>6
      <4> QED
        BY <3>7, <4>1, <4>2, <4>3
           DEF FollowsUp, InOrder, PhaseTask, BodyTask, CompilerTask, PhasesBefore
    <3> QED
      BY <2>1, <3>6, <3>8 DEF ThreadInOrder
  <2> QED
    BY <2>2, <2>3
<1>7. ASSUME NEW u \in Threads \ {t}, Owns(u)
      PROVE  /\ cur[u].import \notin Subjects(tasks', PhaseTask)
             /\ state'[cur[u].import] = state[cur[u].import]
             /\ Owns(t)' => cur'[t].import # cur[u].import
  <2>1. cur[u].import # i /\ cur[u].import \in Imports
        /\ cur[u].import \notin Subjects(tasks, PhaseTask)
    BY <1>0, <1>7 DEF ChainInv, OneOwner, ThreadInOrder, PhaseTask, CompilerTask
  <2> QED
    BY <1>0, <1>1, <1>2, <2>1
<1> QED
  BY <1>3, <1>5, <1>6, <1>7, ChainStep

\* A thread that works on a task, and is not done with it, holds it.
LEMMA HoldsTask ==
    ASSUME TypeInv, NEW t \in Threads,
           pc[t] \in {"work", "link_preload", "link", "check", "judge", "requeue", "declare", "once"}
    PROVE  /\ Holds(t) /\ pc[t] # "post" /\ cur[t] \in CompilerTask
           /\ cur[t].type \in ImportPhases => cur[t] \in PhaseTask /\ Owns(t)
           /\ cur[t].type = TASK_TYPE_BODY => cur[t] \in BodyTask /\ ~Owns(t)
<1>1. Holds(t) /\ cur[t] \in CompilerTask
  BY HasTask DEF Holds
<1> QED
  BY <1>1, PhaseOrBody DEF Owns, PhaseTask, BodyTask

\* The task selected goes from the queue into the thread's hands.
LEMMA ChainSelect ==
    ASSUME TypeInv, ChainInv, NEW t \in Threads, Select(t)
    PROVE  ChainInv'
<1>0. /\ tasks \in Seq(CompilerTask) /\ pc \in [Threads -> Labels] /\ LocalTypes
      /\ cur \in [Threads -> CompilerTask \cup {NoTask}]
  BY DEF TypeInv, TypeOK, QueueTypes, LocalTypes
<1>1. \A u \in Threads \ {t} : pc'[u] = pc[u] /\ cur'[u] = cur[u] /\ out'[u] = out[u]
  BY <1>0, OthersUnchanged DEF processImports, Enter
<1>2. /\ pc[t] = "select" /\ ~Owns(t) /\ out[t] = <<>>
      /\ imports' = imports /\ state' = state /\ out' = out
  BY DEF Select, Owns, Holds, Handling, ChainInv, ThreadInOrder, SelectTask, SelectFinished,
         SelectStuck, SelectNothing, Discard, data, local
<1>3. PICK k \in 0..Len(tasks) :
         SelectTask(t, k) \/ SelectFinished(t, k) \/ SelectStuck(t, k) \/ SelectNothing(t, k)
  BY DEF Select
<1>4. CASE SelectTask(t, k)
  <2>1. /\ k \in 1..Len(tasks) /\ tasks' = RemoveAt(tasks, k)
        /\ cur'[t] = tasks[k] /\ pc'[t] = "work"
    BY <1>0, <1>4 DEF SelectTask, Found, TakeTask, Goto
  <2>2. tasks[k] \in CompilerTask /\ ToSet(tasks) = ToSet(tasks') \cup {tasks[k]}
    BY <1>0, <2>1, ElementOfSeq, RemoveApart
  <2>3. /\ Apart(tasks', PhaseTask)
        /\ tasks[k] \in PhaseTask => Subject(tasks[k]) \notin Subjects(tasks', PhaseTask)
    BY <1>0, <2>1, RemoveApart DEF ChainInv, QueueInOrder
  <2>4. tasks[k] \in PhaseTask => InOrder(tasks[k]) /\ Subject(tasks[k]) = tasks[k].import
    BY <2>2 DEF ChainInv, QueueInOrder, InOrder, Subject
  <2>5. QueueInOrder'
    <3>1. \A x \in ToSet(tasks') \cap PhaseTask : InOrder(x)
      BY <2>2 DEF ChainInv, QueueInOrder
    <3> QED
      BY <1>2, <2>3, <3>1 DEF QueueInOrder, InOrder, PhaseTask, CompilerTask
  <2>6. ThreadInOrder(t)'
    BY <1>2, <2>1, <2>3, <2>4 DEF ThreadInOrder, Owns, InOrder, PhasesBefore, PhaseTask, CompilerTask
  <2>7. StatesInOrder'
    BY <1>2 DEF ChainInv, StatesInOrder, FirstPhases, PhasesBefore
  <2>8. ASSUME NEW u \in Threads \ {t}, Owns(u)
        PROVE  /\ cur[u].import \notin Subjects(tasks', PhaseTask)
               /\ Owns(t)' => cur'[t].import # cur[u].import
    <3>1. cur[u].import \notin Subjects(tasks, PhaseTask)
      BY <2>8 DEF ChainInv, ThreadInOrder
    <3>2. Subjects(tasks', PhaseTask) \subseteq Subjects(tasks, PhaseTask)
      BY <2>2 DEF Subjects
    <3>3. Owns(t)' => tasks[k] \in PhaseTask
      BY <2>1 DEF Owns
    <3>4. tasks[k] \in PhaseTask => tasks[k].import \in Subjects(tasks, PhaseTask)
      BY <2>2, <2>4 DEF Subjects
    <3> QED
      BY <2>1, <3>1, <3>2, <3>3, <3>4
  <2> QED
    BY <1>1, <1>2, <2>5, <2>6, <2>7, <2>8, ChainStep
<1>5. CASE SelectFinished(t, k) \/ SelectStuck(t, k) \/ SelectNothing(t, k)
  <2>1. Discard(k) /\ pc'[t] \in {"leave", "wait"}
    BY <1>0, <1>5 DEF SelectFinished, SelectStuck, SelectNothing, Goto
  <2>2. ToSet(tasks') \subseteq ToSet(tasks) /\ Apart(tasks', PhaseTask)
    BY <2>1, ShortApart DEF Discard, ChainInv, QueueInOrder
  <2>3. ~Owns(t)' /\ pc'[t] # "post" /\ pc[t] # "post"
    BY <1>2, <2>1 DEF Owns, Holds, Handling
  <2> QED
    BY <1>1, <1>2, <2>2, <2>3, ChainQuiet
<1> QED
  BY <1>3, <1>4, <1>5

\* An import that is found has no task yet, and gets its first.
LEMMA ChainFind ==
    ASSUME TypeInv, ChainInv, NEW t \in Threads, FindImport(t)
    PROVE  ChainInv'
<1>0. /\ tasks \in Seq(CompilerTask) /\ pc \in [Threads -> Labels] /\ LocalTypes
      /\ todo[t] \subseteq Imports
  BY HoldsTask DEF TypeInv, TypeOK, QueueTypes, LocalTypes, LocalOK, FindImport, Working, Holds
<1>1. \A u \in Threads \ {t} : pc'[u] = pc[u] /\ cur'[u] = cur[u] /\ out'[u] = out[u]
  BY <1>0, OthersUnchanged DEF processImports, Lex
<1>2. /\ state' = state /\ out' = out /\ cur' = cur /\ pc[t] = "work"
      /\ pc'[t] \in {"work", "link_preload", "link"}
  BY <1>0 DEF FindImport, Working, data, Goto
<1>3. PICK d \in todo[t] :
         \/ tasks' = tasks /\ imports' = imports
         \/ /\ d \notin imports /\ imports' = imports \cup {d}
            /\ tasks' = Append(tasks, Task(TASK_LEX, d, NoFunction))
  BY DEF FindImport
<1>4. Owns(t)' <=> Owns(t)
  BY <1>2 DEF Owns, Holds, Handling
<1>5. CASE tasks' = tasks /\ imports' = imports
  BY <1>1, <1>2, <1>4, <1>5, ChainQuiet DEF ChainInv, QueueInOrder
<1>6. CASE /\ d \notin imports /\ imports' = imports \cup {d}
           /\ tasks' = Append(tasks, Task(TASK_LEX, d, NoFunction))
  <2> DEFINE x == Task(TASK_LEX, d, NoFunction)
  <2>1. /\ d \in Imports /\ x \in PhaseTask /\ x \in CompilerTask
        /\ x.type = TASK_LEX /\ x.import = d /\ x.function = NoFunction /\ Subject(x) = d
    BY <1>0, PhasesAreTypes DEF Task, PhaseTask, CompilerTask, ImportPhases, Subject
  <2>2. d \notin Subjects(tasks, PhaseTask)
    BY <1>6 DEF ChainInv, QueueInOrder, InOrder, Subjects, Subject
  <2>3. /\ ToSet(tasks') = ToSet(tasks) \cup {x} /\ Apart(tasks', PhaseTask)
        /\ Subjects(tasks', PhaseTask) \subseteq Subjects(tasks, PhaseTask) \cup {d}
    <3> HIDE DEF x
    <3>1. /\ ToSet(Append(tasks, x)) = ToSet(tasks) \cup {x} /\ Apart(Append(tasks, x), PhaseTask)
      BY <1>0, <2>1, <2>2, AppendApart DEF ChainInv, QueueInOrder
    <3>2. tasks' = Append(tasks, x)
      BY <1>6 DEF x
    <3> QED
      BY <2>1, <3>1, <3>2 DEF Subjects
  <2>4. QueueInOrder'
    <3>1. state'[d] = PhasesBefore(TASK_LEX)
      BY <1>2, <1>6, <2>1, PhaseAfterPhase DEF ChainInv, StatesInOrder
    <3>2. \A y \in ToSet(tasks) \cap PhaseTask : InOrder(y)
      BY DEF ChainInv, QueueInOrder
    <3>3. \A y \in ToSet(tasks') \cap PhaseTask :
             /\ y.import \in imports' /\ y.function = NoFunction
             /\ state'[y.import] = PhasesBefore(y.type)
      BY <1>2, <1>6, <2>1, <2>3, <3>1, <3>2 DEF InOrder
    <3> QED
      BY <2>3, <3>3 DEF QueueInOrder, InOrder, PhaseTask, CompilerTask, PhasesBefore
  <2>5. /\ imports \subseteq imports' /\ \A u \in Threads : Owns(u) => cur[u].import # d
    BY <1>6 DEF ChainInv, ThreadInOrder
  <2>6. ThreadInOrder(t)'
    <3>1. ThreadInOrder(t) /\ pc[t] # "post" /\ pc'[t] # "post"
      BY <1>2 DEF ChainInv
    <3>2. Owns(t)' => /\ cur'[t] \in PhaseTask
                      /\ cur'[t].import \in imports' /\ cur'[t].function = NoFunction
                      /\ cur'[t].import \notin Subjects(tasks', PhaseTask)
                      /\ state'[cur'[t].import] = PhasesBefore(cur'[t].type)
      BY <1>2, <1>4, <2>3, <2>5, <3>1 DEF ThreadInOrder
    <3> QED
      BY <1>2, <3>1, <3>2 DEF ThreadInOrder, PhaseTask, CompilerTask, PhasesBefore
  <2>7. StatesInOrder'
    BY <1>2, <1>6 DEF ChainInv, StatesInOrder, FirstPhases, PhasesBefore
  <2>8. \A u \in Threads \ {t} : Owns(u) =>
           /\ cur[u].import \notin Subjects(tasks', PhaseTask)
           /\ Owns(t)' => cur'[t].import # cur[u].import
    BY <1>2, <1>4, <2>3, <2>5 DEF ChainInv, ThreadInOrder, OneOwner
  <2> QED
    BY <1>1, <1>2, <2>4, <2>5, <2>6, <2>7, <2>8, ChainStep
<1> QED
  BY <1>3, <1>5, <1>6

\* Bodies leave the phases in the queue as they are.
LEMMA BodiesQueued ==
    ASSUME ChainInv, tasks \in Seq(CompilerTask), NEW bodies \in Seq(BodyTask)
    PROVE  /\ ToSet(tasks \o bodies) \cap PhaseTask \subseteq ToSet(tasks)
           /\ Apart(tasks \o bodies, PhaseTask)
           /\ \A x \in BodyTask : /\ ToSet(Append(tasks, x)) \cap PhaseTask \subseteq ToSet(tasks)
                                  /\ Apart(Append(tasks, x), PhaseTask)
<1>1. bodies \in Seq(CompilerTask) /\ \A k \in DOMAIN bodies : bodies[k] \in BodyTask
  BY SeqMonotonic, ElementOfSeq, LenProperties DEF BodyTask
<1>2. ToSet(bodies) \subseteq BodyTask /\ \A k \in DOMAIN bodies : bodies[k] \notin PhaseTask
  BY <1>1, PhaseOrBody DEF ToSet
<1>3. Apart(bodies, PhaseTask) /\ Subjects(bodies, PhaseTask) = {}
  BY <1>2, PhaseOrBody DEF Apart, Subjects
<1>4. /\ ToSet(tasks \o bodies) = ToSet(tasks) \cup ToSet(bodies)
      /\ Apart(tasks \o bodies, PhaseTask)
  BY <1>1, <1>3, ConcatApart DEF ChainInv, QueueInOrder
<1>5. ASSUME NEW x \in BodyTask
      PROVE  /\ ToSet(Append(tasks, x)) \cap PhaseTask \subseteq ToSet(tasks)
             /\ Apart(Append(tasks, x), PhaseTask)
  <2>1. x \in CompilerTask /\ x \notin PhaseTask
    BY PhaseOrBody
  <2> QED
    BY <2>1, AppendApart DEF ChainInv, QueueInOrder
<1> QED
  BY <1>2, <1>4, <1>5, PhaseOrBody

\* A struct task that goes back to the queue leaves the thread's hands.
LEMMA ChainRequeue ==
    ASSUME TypeInv, ChainInv, NEW t \in Threads, Requeue(t), cur[t] \in PhaseTask
    PROVE  ChainInv'
<1>0. /\ tasks \in Seq(CompilerTask) /\ pc \in [Threads -> Labels] /\ LocalTypes
      /\ pc[t] = "requeue" /\ Owns(t) /\ cur[t] \in CompilerTask
  BY HoldsTask, PhaseOrBody DEF TypeInv, TypeOK, QueueTypes, LocalTypes, Requeue, Owns
<1>1. \A u \in Threads \ {t} : pc'[u] = pc[u] /\ cur'[u] = cur[u] /\ out'[u] = out[u]
  BY <1>0, OthersUnchanged DEF processImports, TypeCheck
<1>2. /\ state' = state /\ out' = out /\ cur' = cur /\ imports' = imports
      /\ pc'[t] = "finish" /\ tasks' = <<cur[t]>> \o tasks
  BY <1>0 DEF Requeue, data, local, Goto, Reinserted
<1>3. ThreadInOrder(t) /\ InOrder(cur[t]) /\ Subject(cur[t]) = cur[t].import
  BY <1>0 DEF ChainInv, ThreadInOrder, InOrder, Subject
<1>4. /\ ToSet(tasks') = {cur[t]} \cup ToSet(tasks) /\ Apart(tasks', PhaseTask)
      /\ Subjects(tasks', PhaseTask) \subseteq Subjects(tasks, PhaseTask) \cup {cur[t].import}
  <2>1. /\ <<cur[t]>> \in Seq(CompilerTask) /\ ToSet(<<cur[t]>>) = {cur[t]}
        /\ Apart(<<cur[t]>>, PhaseTask)
    BY <1>0, ShortApart
  <2>2. Subjects(<<cur[t]>>, PhaseTask) \cap Subjects(tasks, PhaseTask) = {}
    BY <1>0, <1>3, <2>1 DEF Subjects, ThreadInOrder
  <2>3. /\ ToSet(<<cur[t]>> \o tasks) = ToSet(<<cur[t]>>) \cup ToSet(tasks)
        /\ Apart(<<cur[t]>> \o tasks, PhaseTask)
    <3> DEFINE s == <<cur[t]>>
    <3>1. s \in Seq(CompilerTask) /\ Apart(s, PhaseTask) /\ Apart(tasks, PhaseTask)
      BY <2>1 DEF ChainInv, QueueInOrder
    <3>2. Subjects(s, PhaseTask) \cap Subjects(tasks, PhaseTask) = {}
      BY <2>2
    <3> HIDE DEF s
    <3>3. ToSet(s \o tasks) = ToSet(s) \cup ToSet(tasks) /\ Apart(s \o tasks, PhaseTask)
      BY <1>0, <3>1, <3>2, ConcatApart
    <3> QED
      BY <3>3 DEF s
  <2> QED
    BY <1>2, <1>3, <2>1, <2>3 DEF Subjects
<1>5. QueueInOrder'
  BY <1>2, <1>3, <1>4 DEF ChainInv, QueueInOrder, InOrder, PhaseTask, CompilerTask, PhasesBefore
<1>6. ThreadInOrder(t)'
  <2>1. ~Owns(t)' /\ pc'[t] # "post" /\ out'[t] = <<>>
    BY <1>0, <1>2, <1>3 DEF Owns, Holds, ThreadInOrder
  <2> QED
    BY <2>1 DEF ThreadInOrder
<1>7. StatesInOrder'
  BY <1>2 DEF ChainInv, StatesInOrder, FirstPhases, PhasesBefore
<1>8. \A u \in Threads \ {t} : Owns(u) => cur[u].import \notin Subjects(tasks', PhaseTask)
  BY <1>0, <1>4 DEF ChainInv, ThreadInOrder, OneOwner
<1>9. ~Owns(t)'
  BY <1>2 DEF Owns, Holds
<1> QED
  BY <1>1, <1>2, <1>5, <1>6, <1>7, <1>8, <1>9, ChainStep

\* The bodies a handler has yet to queue go first, the next phase last.
LEMMA ChainAdd ==
    ASSUME TypeInv, ChainInv, NEW t \in Threads, AddFollowUp(t)
    PROVE  ChainInv'
<1> DEFINE n == Len(out[t])
           x == Head(out[t])
<1>0. /\ tasks \in Seq(CompilerTask) /\ pc \in [Threads -> Labels] /\ LocalTypes
      /\ out \in [Threads -> Seq(CompilerTask)]
      /\ pc[t] = "post" /\ Owns(t) /\ ThreadInOrder(t) /\ FollowsUp(t) /\ out[t] # <<>>
  BY DEF TypeInv, TypeOK, QueueTypes, LocalTypes, AddFollowUp, Owns, ChainInv, ThreadInOrder, LocalOK
<1>1. \A u \in Threads \ {t} : pc'[u] = pc[u] /\ cur'[u] = cur[u] /\ out'[u] = out[u]
  BY <1>0, OthersUnchanged DEF processImports, Exit
<1>2. /\ state' = state /\ cur' = cur /\ imports' = imports
      /\ tasks' = Append(tasks, x) /\ out'[t] = Tail(out[t])
      /\ pc'[t] = IF n = 1 THEN "finish" ELSE "post"
  BY <1>0 DEF AddFollowUp, data, Goto
<1>3. /\ n \in Nat \ {0} /\ x \in CompilerTask /\ x = out[t][1]
      /\ Len(Tail(out[t])) = n - 1 /\ \A k \in 1..(n - 1) : Tail(out[t])[k] = out[t][k + 1]
  <2>1. out[t] \in Seq(CompilerTask)
    BY <1>0
  <2>2. n \in Nat \ {0}
    BY <1>0, <2>1, EmptySeq
  <2>3. /\ x \in CompilerTask /\ Len(Tail(out[t])) = n - 1
        /\ \A k \in 1..Len(Tail(out[t])) : Tail(out[t])[k] = out[t][k + 1]
    BY <1>0, <2>1, HeadTailProperties
  <2>4. x = out[t][1]
    OBVIOUS
  <2> QED
    BY <2>2, <2>3, <2>4
<1>4. StatesInOrder'
  BY <1>2 DEF ChainInv, StatesInOrder, FirstPhases, PhasesBefore
<1>5. CASE n = 1
  <2>1. /\ x \in PhaseTask /\ x.import = cur[t].import /\ InOrder(x)
        /\ Subject(x) = x.import /\ x.import \notin Subjects(tasks, PhaseTask)
    BY <1>0, <1>3, <1>5 DEF FollowsUp, InOrder, Subject, ThreadInOrder
  <2>2. /\ ToSet(tasks') = ToSet(tasks) \cup {x} /\ Apart(tasks', PhaseTask)
    BY <1>0, <1>2, <1>3, <2>1, AppendApart DEF ChainInv, QueueInOrder
  <2>3. Subjects(tasks', PhaseTask) \subseteq Subjects(tasks, PhaseTask) \cup {cur[t].import}
    BY <2>1, <2>2 DEF Subjects
  <2>4. QueueInOrder'
    BY <1>2, <2>1, <2>2 DEF ChainInv, QueueInOrder, InOrder, PhaseTask, CompilerTask, PhasesBefore
  <2>5. pc'[t] = "finish" /\ ~Owns(t)' /\ out'[t] = <<>>
    <3>1. pc'[t] = "finish" /\ ~Owns(t)'
      BY <1>2, <1>5 DEF Owns, Holds
    <3>2. Tail(out[t]) \in Seq(CompilerTask) /\ Len(Tail(out[t])) = 0
      BY <1>0, <1>3, <1>5, HeadTailProperties
    <3>3. Tail(out[t]) = <<>>
      BY <3>2, EmptySeq
    <3> QED
      BY <1>2, <3>1, <3>3
  <2>6. ThreadInOrder(t)'
    BY <2>5 DEF ThreadInOrder
  <2>7. \A u \in Threads \ {t} : Owns(u) => cur[u].import \notin Subjects(tasks', PhaseTask)
    BY <1>0, <2>3 DEF ChainInv, ThreadInOrder, OneOwner
  <2> QED
    BY <1>1, <1>2, <1>4, <2>4, <2>5, <2>6, <2>7, ChainStep
<1>6. CASE n # 1
  <2>1. x \in BodyTask
    BY <1>0, <1>3, <1>6 DEF FollowsUp
  <2>2. /\ ToSet(tasks') \cap PhaseTask \subseteq ToSet(tasks) /\ Apart(tasks', PhaseTask)
        /\ Subjects(tasks', PhaseTask) \subseteq Subjects(tasks, PhaseTask)
    <3>1. <<>> \in Seq(BodyTask)
      BY EmptySeq
    <3> QED
      BY <1>0, <1>2, <2>1, <3>1, BodiesQueued DEF Subjects
  <2>3. QueueInOrder'
    BY <1>2, <2>2 DEF ChainInv, QueueInOrder, InOrder, PhaseTask, CompilerTask, PhasesBefore
  <2>4. pc'[t] = "post" /\ Owns(t)' /\ Len(out'[t]) = n - 1
    BY <1>2, <1>3, <1>6 DEF Owns
  <2>5. /\ out'[t][n - 1] = out[t][n]
        /\ \A k \in 1..((n - 1) - 1) : out'[t][k] = out[t][k + 1] /\ k + 1 \in 1..(n - 1)
    <3>1. /\ out'[t] = Tail(out[t]) /\ n \in Nat \ {0, 1}
          /\ \A k \in 1..(n - 1) : Tail(out[t])[k] = out[t][k + 1]
      BY <1>2, <1>3, <1>6
    <3> HIDE DEF n
    <3>2. /\ n - 1 \in 1..(n - 1) /\ (n - 1) + 1 = n
          /\ \A k \in 1..((n - 1) - 1) : k \in 1..(n - 1) /\ k + 1 \in 1..(n - 1)
      BY <3>1
    <3>3. out'[t][n - 1] = out[t][(n - 1) + 1]
      BY <3>1, <3>2
    <3> QED
      BY <3>1, <3>2, <3>3
  <2>6. FollowsUp(t)'
    <3>1. /\ out'[t][n - 1] \in PhaseTask /\ out'[t][n - 1].import = cur'[t].import
          /\ out'[t][n - 1].import \in imports' /\ out'[t][n - 1].function = NoFunction
          /\ state'[out'[t][n - 1].import] = PhasesBefore(out'[t][n - 1].type)
      BY <1>0, <1>2, <2>5 DEF FollowsUp, InOrder
    <3>2. \A k \in 1..((n - 1) - 1) : out'[t][k] \in BodyTask
      BY <1>0, <2>5 DEF FollowsUp
    <3> HIDE DEF n
    <3> QED
      BY <2>4, <3>1, <3>2 DEF FollowsUp, InOrder, PhaseTask, BodyTask, CompilerTask, PhasesBefore
  <2>7. ThreadInOrder(t)'
    BY <1>0, <1>2, <2>2, <2>4, <2>6 DEF ThreadInOrder, PhaseTask, CompilerTask
  <2>8. \A u \in Threads \ {t} : Owns(u) =>
           /\ cur[u].import \notin Subjects(tasks', PhaseTask)
           /\ cur'[t].import # cur[u].import
    BY <1>0, <1>2, <2>2 DEF ChainInv, ThreadInOrder, OneOwner
  <2> QED
    BY <1>1, <1>2, <1>4, <2>3, <2>7, <2>8, ChainStep
<1> QED
  BY <1>5, <1>6

\* A handler that ends, by dropping its task or by completing the phase.
LEMMA ChainEnd ==
    ASSUME TypeInv, ChainInv, NEW t \in Threads, imports' = imports, cur' = cur, tasks' = tasks,
           \A u \in Threads \ {t} : pc'[u] = pc[u] /\ cur'[u] = cur[u] /\ out'[u] = out[u],
           Holds(t), cur[t] \in PhaseTask,
           NEW next \in ImportPhases,
           PhasesBefore(next) = PhasesBefore(cur[t].type) \cup {cur[t].type},
           Drop(t) \/ Complete(t, FollowUp(t, next))
    PROVE  ChainInv'
<1>0. pc \in [Threads -> Labels] /\ pc[t] # "post" /\ Apart(tasks', PhaseTask)
  BY DEF TypeInv, TypeOK, LocalTypes, Holds, ChainInv, QueueInOrder
<1>1. CASE Drop(t)
  <2>1. state' = state /\ out' = out /\ pc'[t] = "finish" /\ ~Owns(t)'
    BY <1>0, <1>1 DEF Drop, Goto, Owns, Holds
  <2> QED
    BY <1>0, <2>1, ChainQuiet
<1>2. CASE Complete(t, FollowUp(t, next))
  <2>1. <<>> \in Seq(BodyTask) /\ <<>> \o FollowUp(t, next) = FollowUp(t, next)
    BY EmptySeq, ConcatEmptySeq, FollowUpType DEF PhaseTask, TaskTypes
  <2> QED
    BY <1>0, <1>2, <2>1, ChainComplete
<1> QED
  BY <1>1, <1>2

\* Signatures: the bodies an import queues at once, or before its next phase.
LEMMA ChainFunctions ==
    ASSUME TypeInv, ChainInv, NEW t \in Threads, TypeFunctions(t)
    PROVE  ChainInv'
<1> DEFINE i == cur[t].import
           exports == FunctionBodies(i, job.exported \ used)
<1>0. /\ tasks \in Seq(CompilerTask) /\ pc \in [Threads -> Labels] /\ LocalTypes
      /\ job \in JobType /\ Holds(t) /\ pc[t] # "post" /\ cur[t] \in PhaseTask
      /\ i \in Imports /\ cur[t].type = TASK_TYPE_FUNCTIONS
  <2>1. cur[t].type = TASK_TYPE_FUNCTIONS /\ pc[t] = "check"
    BY DEF TypeFunctions, Working
  <2>2. TASK_TYPE_FUNCTIONS \in ImportPhases
    BY DEF ImportPhases
  <2> QED
    BY <2>1, <2>2, HoldsTask DEF TypeInv, TypeOK, QueueTypes, LocalTypes, PhaseTask, CompilerTask
<1>1. \A u \in Threads \ {t} : pc'[u] = pc[u] /\ cur'[u] = cur[u] /\ out'[u] = out[u]
  BY <1>0, OthersUnchanged DEF processImports, TypeCheck
<1>2. imports' = imports /\ cur' = cur /\ tasks' = tasks \o exports
  BY DEF TypeFunctions
<1>3. /\ Declares(i, job.exported \ used) \subseteq Functions
      /\ Declares(i, {job.entry}) \subseteq Functions
  BY <1>0, JobFields DEF Declares
<1>4. ToSet(tasks') \cap PhaseTask \subseteq ToSet(tasks) /\ Apart(tasks', PhaseTask)
  <2>1. exports \in Seq(BodyTask)
    BY <1>0, <1>3, FunctionBodiesType
  <2> HIDE DEF exports
  <2> QED
    BY <1>0, <1>2, <2>1, BodiesQueued
<1>5. BodyTasks(i) \in Seq(BodyTask)
  <2>1. FunctionBodies(i, {job.entry}) \in Seq(BodyTask)
    BY <1>0, <1>3, FunctionBodiesType
  <2>2. Task(TASK_TYPE_BODY, i, NoFunction) \in BodyTask
    BY <1>0 DEF Task, BodyTask, CompilerTask, TaskTypes
  <2>3. <<Task(TASK_TYPE_BODY, i, NoFunction)>> \in Seq(BodyTask)
    BY <2>2
  <2> QED
    BY <2>1, <2>3, ConcatProperties, EmptySeq DEF BodyTasks
<1>6. CASE Drop(t)
  <2>1. state' = state /\ out' = out /\ pc'[t] = "finish" /\ ~Owns(t)'
    BY <1>0, <1>6 DEF Drop, Goto, Owns, Holds
  <2> QED
    BY <1>0, <1>1, <1>2, <1>4, <2>1, ChainQuiet
<1>7. CASE Complete(t, BodyTasks(i) \o FollowUp(t, TASK_GEN_BYTECODE))
  <2>1. /\ TASK_GEN_BYTECODE \in ImportPhases
        /\ PhasesBefore(TASK_GEN_BYTECODE) = PhasesBefore(cur[t].type) \cup {cur[t].type}
    BY <1>0, PhaseAfterPhase DEF ImportPhases
  <2> QED
    BY <1>0, <1>1, <1>2, <1>4, <1>5, <1>7, <2>1, ChainComplete
<1> QED
  BY <1>6, <1>7 DEF TypeFunctions

\* Only a struct task is judged and queued again.
JudgesStructs ==
    \A t \in Threads : pc[t] \in {"judge", "requeue"} => cur[t].type = TASK_TYPE_STRUCTS

\* A handler that ends with its task or with the next phase.
LEMMA ChainPhases ==
    ASSUME TypeInv, ChainInv, NEW t \in Threads,
           LexDone(t) \/ Preprocess(t) \/ TypeEnums(t) \/ TypeStructs(t) \/ GenerateScope(t)
              \/ GenerateMachineCode(t)
    PROVE  ChainInv'
<1>0. /\ pc \in [Threads -> Labels] /\ LocalTypes /\ Apart(tasks, PhaseTask)
      /\ processImports(t)
  BY DEF TypeInv, TypeOK, LocalTypes, ChainInv, QueueInOrder, processImports, Lex, TypeCheck,
         Generate
<1>1. \A u \in Threads \ {t} : pc'[u] = pc[u] /\ cur'[u] = cur[u] /\ out'[u] = out[u]
  BY <1>0, OthersUnchanged
<1>2. /\ pc[t] \in {"work", "check"} /\ cur[t].type \in ImportPhases
      /\ imports' = imports /\ cur' = cur /\ tasks' = tasks
  BY DEF LexDone, Preprocess, TypeEnums, TypeStructs, GenerateScope, GenerateMachineCode, Working,
         queue, GenerateTypes, ImportPhases
<1>3. Holds(t) /\ cur[t] \in PhaseTask /\ Owns(t) /\ pc[t] # "post"
  BY <1>2, HoldsTask
<1>4. CASE LexDone(t) \/ Preprocess(t)
  <2>1. \E next \in ImportPhases :
           /\ PhasesBefore(next) = PhasesBefore(cur[t].type) \cup {cur[t].type}
           /\ Drop(t) \/ Complete(t, FollowUp(t, next))
    <3>1. {TASK_PREPROCESS_AND_PARSE, TASK_TYPE_ENUMS} \subseteq ImportPhases
      BY DEF ImportPhases
    <3> QED
      BY <1>4, <3>1, PhaseAfterPhase DEF LexDone, Preprocess, Working
  <2> QED
    BY <1>1, <1>2, <1>3, <2>1, ChainEnd
<1>5. CASE TypeEnums(t) \/ GenerateScope(t)
  <2>1. \E next \in ImportPhases :
           /\ PhasesBefore(next) = PhasesBefore(cur[t].type) \cup {cur[t].type}
           /\ Drop(t) \/ Complete(t, FollowUp(t, next))
    <3>1. {TASK_TYPE_STRUCTS, TASK_GEN_BYTECODE_RUNDIR, TASK_GEN_MACHINE_CODE}
             \subseteq ImportPhases
      BY DEF ImportPhases
    <3> QED
      BY <1>5, <3>1, PhaseAfterPhase DEF TypeEnums, GenerateScope, Working, GenerateTypes
  <2> QED
    BY <1>1, <1>2, <1>3, <2>1, ChainEnd
<1>6. CASE TypeStructs(t)
  <2>1. CASE Goto(t, "judge") /\ UNCHANGED <<state, out>>
    <3>1. pc'[t] = "judge" /\ state' = state /\ out' = out
      BY <1>0, <2>1 DEF Goto
    <3> QED
      BY <1>0, <1>1, <1>2, <1>3, <3>1, ChainQuiet
  <2>2. CASE Complete(t, FollowUp(t, TASK_TYPE_FUNCTIONS))
    <3>1. /\ TASK_TYPE_FUNCTIONS \in ImportPhases
          /\ PhasesBefore(TASK_TYPE_FUNCTIONS) = PhasesBefore(cur[t].type) \cup {cur[t].type}
      BY <1>6, PhaseAfterPhase DEF ImportPhases, TypeStructs, Working
    <3> QED
      BY <1>1, <1>2, <1>3, <2>2, <3>1, ChainEnd
  <2> QED
    BY <1>6, <2>1, <2>2 DEF TypeStructs
<1>7. CASE GenerateMachineCode(t)
  <2>1. cur[t].type = TASK_GEN_MACHINE_CODE /\ Complete(t, <<>>)
    BY <1>7 DEF GenerateMachineCode, Working
  <2> QED
    BY <1>0, <1>1, <1>2, <1>3, <2>1, ChainComplete
<1> QED
  BY <1>4, <1>5, <1>6, <1>7

\* Every step of a thread keeps every import's single task.
LEMMA ChainNext ==
    ASSUME TypeInv, ChainInv, JudgesStructs, NEW t \in Threads, processImports(t)
    PROVE  ChainInv'
<1>0. /\ pc \in [Threads -> Labels] /\ LocalTypes /\ Apart(tasks, PhaseTask)
      /\ tasks \in Seq(CompilerTask)
  BY DEF TypeInv, TypeOK, LocalTypes, QueueTypes, ChainInv, QueueInOrder
<1>1. \A u \in Threads \ {t} : pc'[u] = pc[u] /\ cur'[u] = cur[u] /\ out'[u] = out[u]
  BY <1>0, OthersUnchanged
<1>2. CASE RegisterTotal(t) \/ RegisterWaiting(t) \/ Wait(t) \/ Finish(t) \/ Leave(t)
  <2>1. /\ imports' = imports /\ state' = state /\ tasks' = tasks /\ out' = out
        /\ pc[t] # "post" /\ pc'[t] \in {"register", "wait", "select", "done"}
    BY <1>0, <1>2 DEF RegisterTotal, RegisterWaiting, Wait, Finish, Leave, Goto, data, queue, local
  <2>2. ~Owns(t)'
    BY <2>1 DEF Owns, Holds, Handling
  <2> QED
    BY <1>0, <1>1, <2>1, <2>2, ChainQuiet
<1>3. CASE Select(t)
  BY <1>3, ChainSelect
<1>4. CASE FindImport(t)
  BY <1>4, ChainFind
<1>5. CASE LexUnreadable(t) \/ LinkPreload(t) \/ LinkImport(t)
  <2>1. /\ imports' = imports /\ state' = state /\ tasks' = tasks /\ out' = out /\ cur' = cur
        /\ pc[t] \in {"work", "link_preload", "link"} /\ pc'[t] \in {"finish", "link", "work"}
    BY <1>0, <1>5 DEF LexUnreadable, LinkPreload, LinkImport, Working, Goto, queue, local
  <2>2. Owns(t)' => Owns(t)
    BY <2>1 DEF Owns, Holds, Handling
  <2> QED
    BY <1>0, <1>1, <2>1, <2>2, ChainQuiet
<1>6. CASE Snapshot(t) \/ JudgeRequeue(t) \/ JudgeGiveUp(t) \/ DeclareUsage(t) \/ BodyDone(t)
           \/ QuickCheck(t) \/ RunOnce(t)
  <2>1. /\ imports' = imports /\ state' = state /\ tasks' = tasks /\ out' = out /\ cur' = cur
        /\ pc[t] \in {"work", "judge", "declare", "once"}
        /\ pc'[t] \in {"check", "requeue", "finish", "work", "once"}
    BY <1>0, <1>6 DEF Snapshot, JudgeRequeue, JudgeGiveUp, DeclareUsage, BodyDone, QuickCheck,
                      RunOnce, Advance, Working, Goto, data, queue, local
  <2>2. Owns(t)' => Owns(t)
    BY <2>1 DEF Owns, Holds, Handling
  <2> QED
    BY <1>0, <1>1, <2>1, <2>2, ChainQuiet
<1>7. CASE Requeue(t)
  <2>1. cur[t] \in PhaseTask
    <3>1. pc[t] = "requeue" /\ cur[t].type \in ImportPhases
      BY <1>7 DEF Requeue, JudgesStructs, ImportPhases
    <3> QED
      BY <3>1, HoldsTask
  <2> QED
    BY <1>7, <2>1, ChainRequeue
<1>8. CASE TypeFunctions(t)
  BY <1>8, ChainFunctions
<1>9. CASE Call(t)
  <2>1. /\ imports' = imports /\ state' = state /\ out' = out /\ cur' = cur
        /\ pc[t] = "work" /\ pc'[t] = "declare" /\ cur[t].type = TASK_TYPE_BODY
    BY <1>0, <1>9 DEF Call, Working, Goto, data
  <2>2. Owns(t)' => Owns(t)
    BY <2>1 DEF Owns, Holds, Handling
  <2>3. todo[t] \subseteq Functions /\ job \in JobType
    BY <2>1 DEF TypeInv, TypeOK, LocalOK, Handling
  <2>4. PICK f \in todo[t] :
           tasks' = IF f \in used THEN tasks
                    ELSE Append(tasks, Task(TASK_TYPE_BODY, job.home[f], f))
    BY <1>9 DEF Call
  <2>5. Task(TASK_TYPE_BODY, job.home[f], f) \in BodyTask
    BY <2>3, JobFields DEF Task, BodyTask, CompilerTask, TaskTypes
  <2>6. ToSet(tasks') \cap PhaseTask \subseteq ToSet(tasks) /\ Apart(tasks', PhaseTask)
    <3>1. <<>> \in Seq(BodyTask)
      BY EmptySeq
    <3> QED
      BY <1>0, <2>4, <2>5, <3>1, BodiesQueued
  <2> QED
    BY <1>1, <2>1, <2>2, <2>6, ChainQuiet
<1>10. CASE AddFollowUp(t)
  BY <1>10, ChainAdd
<1> QED
  BY <1>2, <1>3, <1>4, <1>5, <1>6, <1>7, <1>8, <1>9, <1>10, ChainPhases
     DEF processImports, Enter, Lex, TypeCheck, Generate, Exit

\* A sweep comes to be judged, or its task to be queued again, in two ways.
LEMMA JudgeSteps ==
    ASSUME TypeInv, NEW t \in Threads, processImports(t), pc'[t] \in {"judge", "requeue"}
    PROVE  \/ TypeStructs(t) /\ pc'[t] = "judge"
           \/ JudgeRequeue(t) /\ pc'[t] = "requeue"
<1>0. pc \in [Threads -> Labels]
  BY DEF TypeInv, TypeOK, LocalTypes
<1>1. ~Enter(t) /\ ~Lex(t) /\ ~Preprocess(t) /\ ~Generate(t) /\ ~Exit(t)
  <2>1. ~Enter(t)
    BY <1>0 DEF Enter, RegisterTotal, RegisterWaiting, Wait, Select, SelectTask, TakeTask,
                SelectFinished, SelectStuck, SelectNothing, Goto
  <2>2. ~Lex(t) /\ ~Preprocess(t)
    BY <1>0 DEF Lex, LexUnreadable, FindImport, LinkPreload, LinkImport, LexDone, Preprocess,
                Working, Complete, Drop, Goto
  <2>3. ~Generate(t) /\ ~Exit(t)
    BY <1>0 DEF Generate, QuickCheck, RunOnce, Advance, GenerateScope, GenerateMachineCode, Exit,
                AddFollowUp, Finish, Leave, Complete, Drop, Goto
  <2> QED
    BY <2>1, <2>2, <2>3
<1>2. /\ ~Snapshot(t) /\ ~TypeEnums(t) /\ ~JudgeGiveUp(t) /\ ~Requeue(t) /\ ~TypeFunctions(t)
      /\ ~Call(t) /\ ~DeclareUsage(t) /\ ~BodyDone(t)
  BY <1>0 DEF Snapshot, TypeEnums, JudgeGiveUp, Requeue, TypeFunctions, Call, DeclareUsage,
              BodyDone, Complete, Drop, Goto
<1>3. TypeStructs(t) => pc'[t] # "requeue"
  BY <1>0 DEF TypeStructs, Complete, Goto
<1>4. JudgeRequeue(t) => pc'[t] = "requeue"
  BY <1>0 DEF JudgeRequeue, Goto
<1> QED
  BY <1>1, <1>2, <1>3, <1>4 DEF processImports, TypeCheck

\* And no other task comes to be judged.
LEMMA JudgesStep ==
    ASSUME TypeInv, JudgesStructs, NEW t \in Threads, processImports(t)
    PROVE  JudgesStructs'
<1>0. pc \in [Threads -> Labels] /\ \A u \in Threads \ {t} : pc'[u] = pc[u] /\ cur'[u] = cur[u]
  BY OthersUnchanged DEF TypeInv, TypeOK, LocalTypes
<1> SUFFICES ASSUME pc'[t] \in {"judge", "requeue"} PROVE cur'[t].type = TASK_TYPE_STRUCTS
  BY <1>0 DEF JudgesStructs
<1>1. CASE TypeStructs(t)
  BY <1>1 DEF TypeStructs, Working
<1>2. CASE JudgeRequeue(t)
  BY <1>2 DEF JudgeRequeue, JudgesStructs, local
<1> QED
  BY <1>1, <1>2, JudgeSteps

\* The compilation starts with one task for each import there is.
LEMMA ChainInit ==
    ASSUME Init PROVE ChainInv /\ JudgesStructs
<1> DEFINE first == IF HasPreload THEN <<Task(TASK_LEX, job.preload, NoFunction)>> ELSE <<>>
           last == <<Task(TASK_LEX, job.main, NoFunction)>>
<1>1. /\ tasks = first \o last /\ imports = Preload \cup {job.main}
      /\ state = [i \in Imports |-> {}] /\ pc = [t \in Threads |-> "start"]
      /\ out = [t \in Threads |-> <<>>]
  BY DEF Init
<1>2. /\ job \in JobType /\ job.main # job.preload /\ job.main \in Imports
      /\ HasPreload => job.preload \in Imports
  BY JobsAssumption, JobFields DEF Init, HasPreload
<1>3. \A i \in Imports : /\ Task(TASK_LEX, i, NoFunction) \in PhaseTask
                         /\ Task(TASK_LEX, i, NoFunction) \in CompilerTask
                         /\ Subject(Task(TASK_LEX, i, NoFunction)) = i
  BY DEF Task, PhaseTask, CompilerTask, TaskTypes, ImportPhases, Subject
<1>4. /\ first \in Seq(CompilerTask) /\ last \in Seq(CompilerTask)
      /\ Apart(first, PhaseTask) /\ Apart(last, PhaseTask)
      /\ ToSet(first) = {Task(TASK_LEX, i, NoFunction) : i \in Preload}
      /\ ToSet(last) = {Task(TASK_LEX, job.main, NoFunction)}
  <2>1. /\ last \in Seq(CompilerTask) /\ Apart(last, PhaseTask)
        /\ ToSet(last) = {Task(TASK_LEX, job.main, NoFunction)}
    BY <1>2, <1>3, ShortApart
  <2>2. CASE HasPreload
    BY <1>2, <1>3, <2>1, <2>2, ShortApart DEF Preload
  <2>3. CASE ~HasPreload
    BY <2>1, <2>3, ShortApart, EmptySeq DEF Preload
  <2> QED
    BY <2>2, <2>3
<1>5. Subjects(first, PhaseTask) \subseteq Preload /\ Subjects(last, PhaseTask) = {job.main}
  BY <1>2, <1>3, <1>4 DEF Subjects, Preload
<1>6. job.main \notin Preload
  BY <1>2 DEF Preload
<1> HIDE DEF first, last
<1>7. ToSet(tasks) = ToSet(first) \cup ToSet(last) /\ Apart(tasks, PhaseTask)
  <2>1. Subjects(first, PhaseTask) \cap Subjects(last, PhaseTask) = {}
    BY <1>5, <1>6
  <2>2. ToSet(first \o last) = ToSet(first) \cup ToSet(last) /\ Apart(first \o last, PhaseTask)
    BY <1>4, <2>1, ConcatApart
  <2> QED
    BY <1>1, <2>2
<1>8. QueueInOrder
  <2>1. ASSUME NEW x \in ToSet(tasks) PROVE InOrder(x)
    <3>1. PICK i \in imports : x = Task(TASK_LEX, i, NoFunction)
      BY <1>1, <1>4, <1>7, <2>1
    <3>2. i \in Imports
      BY <1>1, <1>2 DEF Preload
    <3> QED
      BY <1>1, <3>1, <3>2, PhaseAfterPhase DEF InOrder, Task
  <2> QED
    BY <1>7, <2>1 DEF QueueInOrder
<1>9. \A t \in Threads : ~Owns(t) /\ pc[t] # "post" /\ out[t] = <<>>
  BY <1>1 DEF Owns, Holds, Handling
<1>10. StatesInOrder
  <2>1. {} \in FirstPhases
    BY PhaseAfterPhase DEF FirstPhases, ImportPhases
  <2> QED
    BY <1>1, <2>1 DEF StatesInOrder
<1> QED
  BY <1>1, <1>8, <1>9, <1>10 DEF ChainInv, ThreadInOrder, OneOwner, JudgesStructs

\* Every import has at most one task about it as a whole, queued, in a thread's
\* hands or about to be queued, and that task finds exactly the phases before its
\* own done: no phase of an import is done twice, skipped or done out of order,
\* whatever the number of threads.
THEOREM ChainCorrect == Spec => [](ChainInv /\ JudgesStructs)
<1>1. Init => ChainInv /\ JudgesStructs
  BY ChainInit
<1>2. TypeInv /\ ChainInv /\ JudgesStructs /\ [Next]_vars => ChainInv' /\ JudgesStructs'
  <2> SUFFICES ASSUME TypeInv, ChainInv, JudgesStructs, [Next]_vars
               PROVE  ChainInv' /\ JudgesStructs'
    OBVIOUS
  <2>1. CASE UNCHANGED vars
    <3>1. \A t : (Owns(t)' <=> Owns(t)) /\ (FollowsUp(t)' <=> FollowsUp(t))
      BY <2>1 DEF vars, queue, data, local, Owns, Holds, Handling, FollowsUp, InOrder, PhaseTask,
                  CompilerTask, BodyTask, PhasesBefore
    <3>2. \A t : ThreadInOrder(t)' <=> ThreadInOrder(t)
      BY <2>1, <3>1 DEF vars, queue, data, local, ThreadInOrder, PhaseTask, CompilerTask, PhasesBefore
    <3>3. QueueInOrder' /\ OneOwner' /\ StatesInOrder'
      BY <2>1, <3>1 DEF vars, queue, data, local, ChainInv, QueueInOrder, OneOwner, StatesInOrder,
                        InOrder, PhaseTask, CompilerTask, FirstPhases, PhasesBefore
    <3> QED
      BY <2>1, <3>2, <3>3 DEF ChainInv, JudgesStructs, vars, local
  <2> QED
    BY <2>1, ChainNext, JudgesStep DEF Next, AfterReturn
<1> QED
  BY <1>1, <1>2, TypeInvCorrect, PTL DEF Spec

-----------------------------------------------------------------------------
(* What one step may do to the state bits, the dependencies and the scopes. *)

\* No phase that has been completed is ever undone.
LEMMA StateGrows ==
    ASSUME TypeInv, NEW t \in Threads, processImports(t)
    PROVE  \A i \in Imports : state[i] \subseteq state'[i]
<1>0. state \in [Imports -> SUBSET TaskTypes]
  BY DEF TypeInv, TypeOK, DataTypes
<1>1. CASE Drop(t) \/ \E s : Complete(t, s)
  BY <1>0, <1>1 DEF Drop, Complete
<1>2. CASE state' = state
  BY <1>2
<1>3. state' = state \/ Drop(t) \/ \E s : Complete(t, s)
  <2>1. CASE Enter(t) \/ Exit(t)
    BY <2>1 DEF Enter, RegisterTotal, RegisterWaiting, Wait, Select, SelectTask, SelectFinished,
                SelectStuck, SelectNothing, Exit, AddFollowUp, Finish, Leave, data
  <2>2. CASE Lex(t) \/ Preprocess(t)
    BY <2>2 DEF Lex, LexUnreadable, FindImport, LinkPreload, LinkImport, LexDone, Preprocess, data
  <2>3. CASE TypeCheck(t)
    BY <2>3 DEF TypeCheck, Snapshot, TypeEnums, TypeStructs, JudgeRequeue, JudgeGiveUp, Requeue,
                TypeFunctions, Call, DeclareUsage, BodyDone, data
  <2>4. CASE Generate(t)
    BY <2>4 DEF Generate, QuickCheck, RunOnce, GenerateScope, GenerateMachineCode, data
  <2> QED
    BY <2>1, <2>2, <2>3, <2>4 DEF processImports
<1> QED
  BY <1>1, <1>2, <1>3

\* Dependencies are added by the handler that finds imports, and scopes shared
\* by the snapshot of a handler that types enums.
LEMMA GraphSteps ==
    ASSUME NEW t \in Threads, processImports(t)
    PROVE  /\ deps' = deps \/ LinkPreload(t) \/ LinkImport(t)
           /\ shared' = shared \/ Snapshot(t)
<1>1. CASE Enter(t) \/ Exit(t)
  BY <1>1 DEF Enter, RegisterTotal, RegisterWaiting, Wait, Select, SelectTask, SelectFinished,
              SelectStuck, SelectNothing, Exit, AddFollowUp, Finish, Leave, data
<1>2. CASE Lex(t) \/ Preprocess(t)
  BY <1>2 DEF Lex, LexUnreadable, FindImport, LinkPreload, LinkImport, LexDone, Preprocess, data
<1>3. CASE TypeCheck(t)
  BY <1>3 DEF TypeCheck, Snapshot, TypeEnums, TypeStructs, JudgeRequeue, JudgeGiveUp, Requeue,
              TypeFunctions, Call, DeclareUsage, BodyDone, data
<1>4. CASE Generate(t)
  BY <1>4 DEF Generate, QuickCheck, RunOnce, GenerateScope, GenerateMachineCode, data
<1> QED
  BY <1>1, <1>2, <1>3, <1>4 DEF processImports

\* A thread is at "work" with a task because it has selected it just now, or
\* because it had it in hand before.
LEMMA WorkStep ==
    ASSUME TypeInv, NEW t \in Threads, processImports(t), pc'[t] = "work"
    PROVE  \/ Handling(t) /\ cur' = cur /\ ~Select(t)
           \/ \E k \in 1..Len(tasks) : /\ SelectTask(t, k) /\ Pickable(tasks[k], state)
                                       /\ cur'[t] = tasks[k] /\ tasks[k] \in CompilerTask
<1>0. /\ pc \in [Threads -> Labels] /\ cur \in [Threads -> CompilerTask \cup {NoTask}]
      /\ tasks \in Seq(CompilerTask)
  BY DEF TypeInv, TypeOK, LocalTypes, QueueTypes
<1>1. CASE Select(t)
  <2>1. PICK k \in 0..Len(tasks) :
           /\ IsPicked(t, k)
           /\ SelectTask(t, k) \/ SelectFinished(t, k) \/ SelectStuck(t, k) \/ SelectNothing(t, k)
    BY <1>1 DEF Select
  <2>2. SelectTask(t, k)
    BY <1>0, <2>1 DEF SelectFinished, SelectStuck, SelectNothing, Goto
  <2>3. k \in 1..Len(tasks) /\ Pickable(tasks[k], state)
    BY <1>0, <2>1, <2>2 DEF SelectTask, Found, IsPicked
  <2> QED
    BY <1>0, <2>2, <2>3, ElementOfSeq DEF SelectTask, TakeTask
<1>2. CASE ~Select(t)
  <2>1. ~Finish(t)
    BY <1>0 DEF Finish, Goto
  <2>2. cur' = cur
    BY <1>2, <2>1, CurUnchanged
  <2>3. ~ChangesBaton(t)
    BY <1>0, <1>2 DEF ChangesBaton, RegisterTotal, RegisterWaiting, Wait, Finish, Leave, Goto
  <2> QED
    BY <1>2, <2>2, <2>3, HandlingStep
<1> QED
  BY <1>1, <1>2

-----------------------------------------------------------------------------
(* Scopes.                                                                  *)

\* The enums of an import are typed when everything it depends on is parsed.
EnumsAfterParse ==
    \A t \in Threads : Working(t, "work", TASK_TYPE_ENUMS) => MayTypeEnums(cur[t].import, state)

\* Every thread's enums task stays what it was when it was picked.
LEMMA EnumsStep ==
    ASSUME TypeInv, ChainInv, job \in Jobs, EnumsAfterParse,
           (\A t, u \in Threads : t = u) \/ (\A j \in Jobs : j.preload = NoImport),
           NEW t \in Threads, processImports(t)
    PROVE  EnumsAfterParse'
<1>0. /\ pc \in [Threads -> Labels] /\ state \in [Imports -> SUBSET TaskTypes]
      /\ deps \in [Imports -> SUBSET Imports] /\ job' = job
      /\ \A u \in Threads \ {t} : pc'[u] = pc[u] /\ cur'[u] = cur[u]
  BY OthersUnchanged DEF TypeInv, TypeOK, LocalTypes, DataTypes
<1>1. \A i \in Imports : state[i] \subseteq state'[i]
  BY StateGrows
<1> SUFFICES ASSUME NEW u \in Threads, Working(u, "work", TASK_TYPE_ENUMS)'
             PROVE  MayTypeEnums(cur[u].import, state)'
  BY DEF EnumsAfterParse
<1>2. CASE u = t
  <2>1. CASE \E k \in 1..Len(tasks) : /\ SelectTask(t, k) /\ Pickable(tasks[k], state)
                                      /\ cur'[t] = tasks[k] /\ tasks[k] \in CompilerTask
    <3>1. PICK k \in 1..Len(tasks) : /\ SelectTask(t, k) /\ Pickable(tasks[k], state)
                                     /\ cur'[t] = tasks[k] /\ tasks[k] \in CompilerTask
      BY <2>1
    <3>2. tasks[k].type = TASK_TYPE_ENUMS /\ tasks[k].import \in Imports
      BY <1>2, <3>1, TaskFields DEF Working
    <3>3. MayTypeEnums(tasks[k].import, state)
      BY <3>1, <3>2 DEF Pickable, TASK_LEX, TASK_PREPROCESS_AND_PARSE, TASK_TYPE_ENUMS,
                        TASK_TYPE_STRUCTS
    <3>4. deps' = deps /\ state' = state
      BY <3>1 DEF SelectTask
    <3> QED
      BY <1>2, <3>1, <3>3, <3>4 DEF MayTypeEnums, Reached
  <2>2. CASE Handling(t) /\ cur' = cur /\ ~Select(t)
    <3>1. cur[t].type = TASK_TYPE_ENUMS /\ pc'[t] = "work"
      BY <1>2, <2>2 DEF Working
    <3>2. ~Enter(t) /\ ~Exit(t)
      BY <1>0, <2>2, <3>1 DEF Enter, RegisterTotal, RegisterWaiting, Wait, Exit, AddFollowUp,
                              Finish, Leave, Goto
    <3>3. ~Lex(t) /\ ~Preprocess(t)
      BY <3>1 DEF Lex, LexUnreadable, FindImport, LinkPreload, LinkImport, LexDone, Preprocess,
                  Working, TypeInv, LocalOK, TASK_LEX, TASK_PREPROCESS_AND_PARSE, TASK_TYPE_ENUMS
    <3>4. ~TypeCheck(t)
      BY <1>0, <3>1 DEF TypeCheck, Snapshot, TypeEnums, TypeStructs, JudgeRequeue, JudgeGiveUp,
              Requeue, TypeFunctions, Call, DeclareUsage, BodyDone, Working, TypeInv, LocalOK,
              Complete, Drop, Goto, TASK_TYPE_BODY, TASK_TYPE_ENUMS
    <3>5. ~Generate(t)
      BY <3>1 DEF Generate, QuickCheck, RunOnce, GenerateScope, GenerateMachineCode, Working,
                  TypeInv, LocalOK, GenerateTypes, TASK_GEN_BYTECODE, TASK_GEN_BYTECODE_RUNDIR,
                  TASK_GEN_MACHINE_CODE, TASK_TYPE_ENUMS
    <3> QED
      BY <3>2, <3>3, <3>4, <3>5 DEF processImports
  <2> QED
    BY <1>2, <2>1, <2>2, WorkStep DEF Working
<1>3. CASE u # t
  <2>1. /\ Working(u, "work", TASK_TYPE_ENUMS) /\ cur'[u] = cur[u] /\ cur[u].import \in Imports
        /\ Owns(u) /\ MayTypeEnums(cur[u].import, state)
    <3>1. Working(u, "work", TASK_TYPE_ENUMS) /\ cur'[u] = cur[u]
      BY <1>0, <1>3 DEF Working
    <3>2. pc[u] = "work" /\ cur[u].type \in ImportPhases
      BY <3>1 DEF Working, ImportPhases
    <3> QED
      BY <3>1, <3>2, HoldsTask, TaskFields DEF EnumsAfterParse
  <2>2. deps'[cur[u].import] = deps[cur[u].import]
    <3>1. CASE LinkPreload(t)
      BY <1>3, <3>1 DEF LinkPreload, TypeInv, LocalOK, HasPreload
    <3>2. CASE LinkImport(t)
      <4>1. pc[t] = "link" /\ cur[t].type \in ImportPhases
        BY <3>2 DEF LinkImport, TypeInv, LocalOK, ImportPhases
      <4>2. Owns(t)
        BY <4>1, HoldsTask
      <4>3. cur[t].import # cur[u].import
        BY <1>3, <2>1, <4>2 DEF ChainInv, OneOwner
      <4> QED
        BY <1>0, <2>1, <3>2, <4>3 DEF LinkImport
    <3>3. CASE deps' = deps
      BY <3>3
    <3> QED
      BY <3>1, <3>2, <3>3, GraphSteps
  <2> QED
    BY <1>0, <1>1, <2>1, <2>2 DEF MayTypeEnums, Reached
<1> QED
  BY <1>2, <1>3

\* A scope that is shared with an import exists, with one thread or, for any
\* number of threads, without a preload.  (With a preload and several threads an
\* import can be preprocessed before it is linked to the preload.)
THEOREM SharedScopesParsedCorrect ==
    (\A t, u \in Threads : t = u) \/ (\A j \in Jobs : j.preload = NoImport)
        => (Spec => []SharedScopesParsed)
<1> SUFFICES ASSUME (\A t, u \in Threads : t = u) \/ (\A j \in Jobs : j.preload = NoImport)
             PROVE  Spec => []SharedScopesParsed
  OBVIOUS
<1> DEFINE Inv == job \in Jobs /\ EnumsAfterParse /\ SharedScopesParsed
<1>1. Init => Inv
  BY DEF Init, EnumsAfterParse, Working, SharedScopesParsed, Reached
<1>2. TypeInv /\ ChainInv /\ Inv /\ [Next]_vars => Inv'
  <2> SUFFICES ASSUME TypeInv, ChainInv, Inv, [Next]_vars PROVE Inv'
    OBVIOUS
  <2>1. CASE UNCHANGED vars
    <3>1. EnumsAfterParse'
      BY <2>1 DEF vars, data, local, EnumsAfterParse, Working, MayTypeEnums, Reached
    <3>2. SharedScopesParsed'
      BY <2>1 DEF vars, data, SharedScopesParsed, Reached
    <3> QED
      BY <2>1, <3>1, <3>2 DEF vars
  <2>2. ASSUME NEW t \in Threads, processImports(t) PROVE Inv'
    <3>0. /\ state \in [Imports -> SUBSET TaskTypes] /\ shared \in [Imports -> SUBSET Imports]
          /\ \A i \in Imports : state[i] \subseteq state'[i]
      BY <2>2, StateGrows DEF TypeInv, TypeOK, DataTypes
    <3>1. EnumsAfterParse'
      BY <2>2, EnumsStep
    <3>2. SharedScopesParsed'
      <4>1. CASE shared' = shared
        BY <3>0, <4>1 DEF SharedScopesParsed, Reached
      <4>2. CASE Snapshot(t)
        <5>1. \A i \in Imports : \/ shared'[i] = shared[i]
                                 \/ /\ shared'[i] \subseteq deps[i] /\ deps[i] \subseteq Imports
                                    /\ MayTypeEnums(i, state)
          BY <3>0, <4>2 DEF Snapshot, EnumsAfterParse, Working, TypeInv, TypeOK, DataTypes
        <5>2. state' = state
          BY <4>2 DEF Snapshot
        <5> QED
          BY <5>1, <5>2 DEF SharedScopesParsed, Reached, MayTypeEnums
      <4> QED
        BY <2>2, <4>1, <4>2, GraphSteps
    <3>3. job' \in Jobs
      BY <2>2, OthersUnchanged DEF TypeInv, TypeOK
    <3> QED
      BY <3>1, <3>2, <3>3
  <2> QED
    BY <2>1, <2>2 DEF Next, AfterReturn
<1> QED
  BY <1>1, <1>2, TypeInvCorrect, ChainCorrect, PTL DEF Spec

-----------------------------------------------------------------------------
(* Bodies, for one thread.                                                  *)

\* The bodies of a set of functions: one task for each.
LEMMA FunctionBodiesElements ==
    ASSUME NEW i \in Imports, NEW fns, Declares(i, fns) \subseteq Functions
    PROVE  /\ ToSet(FunctionBodies(i, fns)) = {Task(TASK_TYPE_BODY, i, fn) : fn \in Declares(i, fns)}
           /\ Subjects(FunctionBodies(i, fns), BodyTask) = Declares(i, fns)
           /\ Apart(FunctionBodies(i, fns), BodyTask)
<1> DEFINE T == {Task(TASK_TYPE_BODY, i, fn) : fn \in Declares(i, fns)}
           g == [fn \in Declares(i, fns) |-> Task(TASK_TYPE_BODY, i, fn)]
           n == Cardinality(T)
           s == SetToSeq(T)
<1>1. IsFiniteSet(T)
  <2>1. IsFiniteSet(Declares(i, fns)) /\ g \in Surjection(Declares(i, fns), T)
    BY FS_Subset, FiniteAssumption DEF Surjection
  <2> QED
    BY <2>1, FS_Surjection
<1>2. T \subseteq BodyTask /\ \A fn \in Declares(i, fns) : Subject(Task(TASK_TYPE_BODY, i, fn)) = fn
  BY NamesAssumption DEF CompilerTask, Task, TaskTypes, BodyTask, Subject
<1>3. \A x, y \in T : Subject(x) = Subject(y) => x = y
  BY <1>2
<1> HIDE DEF T
<1>4. n \in Nat /\ ExistsBijection(1..n, T)
  BY <1>1, FS_CardinalityType
<1>5. \E h \in [1..n -> T] : IsInjective(h)
  BY <1>4 DEF ExistsBijection, Bijection, Injection, IsInjective
<1>6. s \in [1..n -> T] /\ IsInjective(s)
  BY <1>5 DEF SetToSeq
<1>7. s \in Surjection(1..n, T)
  <2>1. Cardinality(1..n) = n
    BY <1>4, FS_Interval
  <2>2. s \in Injection(1..n, T)
    BY <1>6 DEF Injection, IsInjective
  <2> HIDE DEF s
  <2> QED
    BY <1>1, <2>1, <2>2, FS_Injection
<1> HIDE DEF s, n
<1>8. ToSet(s) = T
  BY <1>6, <1>7 DEF ToSet, Surjection
<1>9. Apart(s, BodyTask)
  BY <1>3, <1>6 DEF Apart, IsInjective
<1>10. Subjects(s, BodyTask) = Declares(i, fns)
  BY <1>2, <1>8 DEF Subjects, T
<1> QED
  BY <1>8, <1>9, <1>10 DEF s, T, FunctionBodies

\* Every task there is: queued, in a thread's hands or about to be queued.
Held(t) == IF Holds(t) THEN {cur[t]} ELSE {}
InFlight == ToSet(tasks) \cup UNION {ToSet(out[t]) \cup Held(t) : t \in Threads}

\* The bodies that are on their way, and those that have been checked as well.
Pending == {Subject(x) : x \in InFlight \cap BodyTask}
Begun == Pending \cup {x \in Imports \cup Functions : body_checks[x] > 0}

\* Nothing is left to do for an import before the bodies.
Past(i) == \A x \in InFlight : x.type <= TASK_TYPE_FUNCTIONS => x.import # i

BodiesApart(t) ==
    /\ Apart(tasks, BodyTask) /\ Apart(out[t], BodyTask)
    /\ Subjects(out[t], BodyTask) \cap Subjects(tasks, BodyTask) = {}
    /\ \A x \in Held(t) \cap BodyTask : Subject(x) \notin Subjects(tasks, BodyTask)

\* A body is begun once: the function counts as used from then on, or will in
\* the next step, and the import that declares it has been past the signatures.
BodyInv ==
    /\ \A t \in Threads : BodiesApart(t)
    /\ \A x \in Pending : body_checks[x] = 0
    /\ BodyCheckedOnce
    /\ \A fn \in Begun \cap Functions :
          fn \in used \/ \E t \in Threads : pc[t] = "declare" /\ target[t] = fn
    /\ \A i \in Begun \cap Imports : Past(i)
    /\ \A fn \in used : Past(job.home[fn])
    /\ used # {} \/ Begun \cap Imports # {} => \A x \in InFlight : x.type # TASK_LEX

\* Where the tasks of a loop with one thread are.
LEMMA OneThread ==
    ASSUME \A t, u \in Threads : t = u, NEW t \in Threads
    PROVE  /\ InFlight = ToSet(tasks) \cup ToSet(out[t]) \cup Held(t)
           /\ InFlight' = ToSet(tasks') \cup ToSet(out'[t]) \cup Held(t)'
  BY DEF InFlight

\* A step that begins no body keeps the invariant when the tasks it adds are not
\* the first of their import.
LEMMA BodyQuiet ==
    ASSUME \A t, u \in Threads : t = u, TypeInv, BodyInv, NEW t \in Threads,
           job' = job, used' = used, body_checks' = body_checks, pc[t] # "declare",
           BodiesApart(t)',
           \A x \in InFlight' \ InFlight :
              /\ x \in PhaseTask /\ x.type # TASK_LEX
              /\ x.type <= TASK_TYPE_FUNCTIONS =>
                    \E y \in InFlight : y.type <= TASK_TYPE_FUNCTIONS /\ y.import = x.import
    PROVE  BodyInv'
<1>1. \A x \in InFlight' : x \in BodyTask => x \in InFlight
  BY PhaseOrBody
<1>2. Pending' \subseteq Pending
  BY <1>1 DEF Pending, BodyTask, CompilerTask
<1>3. Begun' \subseteq Begun
  BY <1>2 DEF Begun
<1>4. \A i : Past(i) => Past(i)'
  BY DEF Past
<1>5. BodyCheckedOnce'
  BY DEF BodyInv, BodyCheckedOnce
<1>6. \A fn \in Begun \cap Functions : fn \in used
  BY DEF BodyInv
<1>7. used' # {} \/ Begun' \cap Imports # {} => \A x \in InFlight' : x.type # TASK_LEX
  BY <1>3 DEF BodyInv
<1>8. \A u \in Threads : BodiesApart(u)'
  OBVIOUS
<1> QED
  BY <1>2, <1>3, <1>4, <1>5, <1>6, <1>7, <1>8 DEF BodyInv

\* Nothing is added to the tasks there are.
LEMMA BodyKeeps ==
    ASSUME \A t, u \in Threads : t = u, TypeInv, BodyInv, NEW t \in Threads,
           job' = job, used' = used, body_checks' = body_checks, pc[t] # "declare",
           tasks' = tasks, out' = out, Holds(t)' => Holds(t) /\ cur' = cur
    PROVE  BodyInv'
<1>1. Held(t)' \subseteq Held(t)
  BY DEF Held
<1>2. InFlight' \subseteq InFlight
  BY <1>1, OneThread
<1>3. BodiesApart(t)'
  <2>1. BodiesApart(t)
    BY DEF BodyInv
  <2> QED
    BY <1>1, <2>1 DEF BodiesApart, BodyTask, CompilerTask
<1> QED
  BY <1>2, <1>3, BodyQuiet

\* A handler that is done with a phase adds at most the next phase.
LEMMA BodyPhase ==
    ASSUME \A t, u \in Threads : t = u, TypeInv, ChainInv, BodyInv, NEW t \in Threads,
           job' = job, used' = used, body_checks' = body_checks, tasks' = tasks, cur' = cur,
           Holds(t), cur[t] \in PhaseTask,
           \/ Drop(t) \/ Complete(t, <<>>)
           \/ \E next \in ImportPhases : cur[t].type < next /\ Complete(t, FollowUp(t, next))
    PROVE  BodyInv'
<1>0. /\ pc \in [Threads -> Labels] /\ out \in [Threads -> Seq(CompilerTask)]
      /\ cur[t].type \in ImportPhases /\ cur[t].import \in Imports /\ cur[t] \in CompilerTask
      /\ LocalOK(t) /\ Handling(t) /\ pc[t] # "post"
  BY DEF TypeInv, TypeOK, LocalTypes, PhaseTask, CompilerTask, Holds
<1>1. pc[t] # "declare"
  <2>1. TASK_TYPE_BODY \notin ImportPhases
    BY DEF ImportPhases, TASK_LEX, TASK_PREPROCESS_AND_PARSE, TASK_TYPE_ENUMS, TASK_TYPE_STRUCTS,
         TASK_TYPE_FUNCTIONS, TASK_TYPE_BODY, TASK_GEN_BYTECODE, TASK_GEN_BYTECODE_RUNDIR,
         TASK_GEN_MACHINE_CODE
  <2> QED
    BY <1>0, <2>1 DEF LocalOK
<1>2. out[t] = <<>>
  BY <1>0 DEF ChainInv, ThreadInOrder
<1>3. CASE Drop(t) \/ Complete(t, <<>>)
  <2>1. ~Holds(t)' /\ out' = out
    <3>1. pc'[t] = "finish"
      BY <1>0, <1>3 DEF Drop, Complete, Goto
    <3>2. out' = out
      BY <1>0, <1>2, <1>3 DEF Drop, Complete
    <3> QED
      BY <3>1, <3>2 DEF Holds
  <2> QED
    BY <1>1, <2>1, BodyKeeps
<1>4. ASSUME NEW next \in ImportPhases, cur[t].type < next, Complete(t, FollowUp(t, next))
      PROVE  BodyInv'
  <2> DEFINE x == Task(next, cur[t].import, NoFunction)
  <2>1. /\ x \in PhaseTask /\ x \notin BodyTask /\ x.type = next /\ x.import = cur[t].import
        /\ next # TASK_LEX /\ next \in Nat /\ cur[t].type \in Nat
    <3>1. x \in PhaseTask /\ x.type = next /\ x.import = cur[t].import
      BY <1>0 DEF Task, PhaseTask, CompilerTask, TaskTypes
    <3>2. next # TASK_LEX /\ next \in Nat /\ cur[t].type \in Nat
      BY <1>0, <1>4, PhaseOrder DEF TASK_LEX, ImportPhases, TaskTypes, TASK_PREPROCESS_AND_PARSE,
         TASK_TYPE_ENUMS, TASK_TYPE_STRUCTS, TASK_TYPE_FUNCTIONS, TASK_TYPE_BODY,
         TASK_GEN_BYTECODE, TASK_GEN_BYTECODE_RUNDIR, TASK_GEN_MACHINE_CODE
    <3> QED
      BY <3>1, <3>2, PhaseOrBody
  <2>2. out'[t] = <<x>> /\ ~Holds(t)'
    <3>1. FollowUp(t, next) # <<>>
      BY <1>0, FollowUpType DEF TaskTypes
    <3>2. out'[t] = FollowUp(t, next) /\ pc'[t] = "post"
      BY <1>0, <1>4, <3>1 DEF Complete, Goto
    <3> QED
      BY <3>2 DEF FollowUp, Holds
  <2> HIDE DEF x
  <2>3. ToSet(out'[t]) = {x} /\ Apart(out'[t], BodyTask) /\ Subjects(out'[t], BodyTask) = {}
    <3>1. ToSet(<<x>>) = {x} /\ Apart(<<x>>, BodyTask)
      BY ShortApart
    <3> QED
      BY <2>1, <2>2, <3>1 DEF Subjects
  <2>4. BodiesApart(t)'
    <3>1. Apart(tasks, BodyTask) /\ Held(t)' = {}
      BY <2>2 DEF BodyInv, BodiesApart, Held
    <3> QED
      BY <2>3, <3>1 DEF BodiesApart, BodyTask, CompilerTask
  <2>5. InFlight' \subseteq ToSet(tasks) \cup {x} /\ cur[t] \in InFlight /\ ToSet(tasks) \subseteq InFlight
    <3>1. Held(t)' = {} /\ Held(t) = {cur[t]}
      BY <2>2 DEF Held
    <3> QED
      BY <2>3, <3>1, OneThread
  <2>6. \A y \in InFlight' \ InFlight :
           /\ y \in PhaseTask /\ y.type # TASK_LEX
           /\ y.type <= TASK_TYPE_FUNCTIONS =>
                 \E z \in InFlight : z.type <= TASK_TYPE_FUNCTIONS /\ z.import = y.import
    <3>1. next <= TASK_TYPE_FUNCTIONS => cur[t].type <= TASK_TYPE_FUNCTIONS
      BY <1>4, <2>1, PhaseOrder DEF TASK_TYPE_FUNCTIONS
    <3> QED
      BY <2>1, <2>5, <3>1
  <2> QED
    BY <1>1, <2>4, <2>6, BodyQuiet
<1> QED
  BY <1>3, <1>4

\* Picking a task moves it from the queue into the thread's hands.
LEMMA BodySelect ==
    ASSUME \A t, u \in Threads : t = u, TypeInv, ChainInv, BodyInv, NEW t \in Threads, Select(t)
    PROVE  BodyInv'
<1>0. /\ tasks \in Seq(CompilerTask) /\ pc \in [Threads -> Labels]
      /\ cur \in [Threads -> CompilerTask \cup {NoTask}]
      /\ BodiesApart(t)
  BY DEF TypeInv, TypeOK, QueueTypes, LocalTypes, BodyInv
<1>1. /\ pc[t] = "select" /\ out[t] = <<>> /\ out' = out
      /\ job' = job /\ used' = used /\ body_checks' = body_checks
  BY DEF Select, ChainInv, ThreadInOrder, SelectTask, SelectFinished, SelectStuck, SelectNothing,
         data, local
<1>2. PICK k \in 0..Len(tasks) :
         SelectTask(t, k) \/ SelectFinished(t, k) \/ SelectStuck(t, k) \/ SelectNothing(t, k)
  BY DEF Select
<1>3. CASE SelectTask(t, k)
  <2>1. k \in 1..Len(tasks) /\ tasks' = RemoveAt(tasks, k) /\ cur'[t] = tasks[k]
    BY <1>0, <1>3 DEF SelectTask, Found, TakeTask
  <2>2. /\ ToSet(tasks) = ToSet(tasks') \cup {tasks[k]} /\ Apart(tasks', BodyTask)
        /\ tasks[k] \in BodyTask => Subject(tasks[k]) \notin Subjects(tasks', BodyTask)
    BY <1>0, <2>1, RemoveApart DEF BodiesApart
  <2>3. Held(t)' \subseteq {tasks[k]}
    BY <2>1 DEF Held
  <2>4. BodiesApart(t)'
    <3>1. Subjects(<<>>, BodyTask) = {} /\ Apart(<<>>, BodyTask)
      BY ShortApart DEF Subjects
    <3> QED
      BY <1>1, <2>2, <2>3, <3>1 DEF BodiesApart, BodyTask, CompilerTask
  <2>5. InFlight' \subseteq InFlight
    BY <1>1, <2>2, <2>3, OneThread
  <2> QED
    BY <1>1, <2>4, <2>5, BodyQuiet
<1>4. CASE SelectFinished(t, k) \/ SelectStuck(t, k) \/ SelectNothing(t, k)
  <2>1. Discard(k) /\ ~Holds(t)'
    BY <1>0, <1>4 DEF SelectFinished, SelectStuck, SelectNothing, Goto, Holds, Handling
  <2>2. CASE tasks' = tasks
    BY <1>1, <2>1, <2>2, BodyKeeps
  <2>3. CASE tasks' = <<>>
    <3>1. /\ ToSet(tasks') = {} /\ Apart(tasks', BodyTask) /\ Held(t)' = {}
          /\ Subjects(<<>>, BodyTask) = {}
      BY <2>1, <2>3, ShortApart DEF Held, Subjects
    <3>2. BodiesApart(t)' /\ InFlight' \subseteq InFlight
      BY <1>1, <3>1, <2>3, OneThread, ShortApart DEF BodiesApart, BodyTask, CompilerTask
    <3> QED
      BY <1>1, <3>2, BodyQuiet
  <2> QED
    BY <2>1, <2>2, <2>3 DEF Discard
<1> QED
  BY <1>2, <1>3, <1>4

\* A file that is found, while files are lexed, is found before any body.
LEMMA BodyFind ==
    ASSUME \A t, u \in Threads : t = u, TypeInv, ChainInv, BodyInv, NEW t \in Threads, FindImport(t)
    PROVE  BodyInv'
<1>0. /\ tasks \in Seq(CompilerTask) /\ todo[t] \subseteq Imports /\ Holds(t) /\ out[t] = <<>>
      /\ cur[t].type = TASK_LEX /\ BodiesApart(t) /\ pc[t] = "work"
      /\ job' = job /\ used' = used /\ body_checks' = body_checks /\ out' = out /\ cur' = cur
  <2>1. pc[t] = "work" /\ cur[t].type = TASK_LEX
    BY DEF FindImport, Working
  <2>2. Holds(t) /\ Handling(t) /\ pc[t] # "post"
    BY <2>1, HoldsTask DEF Holds
  <2> QED
    BY <2>1, <2>2 DEF TypeInv, TypeOK, QueueTypes, LocalOK, BodyInv, ChainInv, ThreadInOrder,
                      FindImport, data
<1>1. PICK d \in todo[t] :
         tasks' = tasks \/ tasks' = Append(tasks, Task(TASK_LEX, d, NoFunction))
  BY DEF FindImport
<1> DEFINE x == Task(TASK_LEX, d, NoFunction)
<1>2. x \in PhaseTask /\ x \in CompilerTask /\ x \notin BodyTask
  <2>1. x \in PhaseTask
    BY <1>0 DEF Task, PhaseTask, CompilerTask, TaskTypes, ImportPhases
  <2> QED
    BY <2>1, PhaseOrBody
<1> HIDE DEF x
<1>3. tasks' = tasks \/ tasks' = Append(tasks, x)
  BY <1>1 DEF x
<1>4. CASE tasks' = tasks
  BY <1>0, <1>4, BodyKeeps
<1>5. CASE tasks' = Append(tasks, x)
  <2>1. ToSet(tasks') = ToSet(tasks) \cup {x} /\ Apart(tasks', BodyTask)
    BY <1>0, <1>2, <1>5, AppendApart DEF BodiesApart
  <2>2. Held(t) = {cur[t]} /\ Held(t)' \subseteq Held(t)
    BY <1>0 DEF Held
  <2>3. InFlight' \subseteq InFlight \cup {x} /\ cur[t] \in InFlight
    BY <1>0, <2>1, <2>2, OneThread
  <2>4. used = {} /\ Begun = {}
    <3>1. used = {} /\ Begun \cap Imports = {}
      BY <1>0, <2>3 DEF BodyInv
    <3>2. Begun \cap Functions = {}
      BY <1>0, <3>1 DEF BodyInv
    <3>3. Begun \subseteq Imports \cup Functions
      BY PhaseOrBody DEF Begun, Pending
    <3> QED
      BY <3>1, <3>2, <3>3
  <2>5. Begun' = {} /\ used' = {} /\ Pending' = {}
    <3>1. Pending' \subseteq Pending
      BY <1>2, <2>3 DEF Pending, BodyTask, CompilerTask
    <3> QED
      BY <1>0, <2>4, <3>1 DEF Begun
  <2>6. BodiesApart(t)'
    <3>1. Subjects(tasks', BodyTask) \subseteq Subjects(tasks, BodyTask)
      BY <1>2, <2>1 DEF Subjects
    <3>2. Subjects(out'[t], BodyTask) = {} /\ Apart(out'[t], BodyTask)
      BY <1>0, ShortApart DEF Subjects
    <3>3. \A y \in Held(t)' \cap BodyTask : Subject(y) \notin Subjects(tasks', BodyTask)
      BY <1>0, <2>2, <3>1 DEF BodiesApart
    <3> QED
      BY <2>1, <3>2, <3>3 DEF BodiesApart, BodyTask, CompilerTask
  <2>7. \A u \in Threads : BodiesApart(u)'
    BY <2>6
  <2>8. BodyCheckedOnce'
    BY <1>0 DEF BodyInv, BodyCheckedOnce
  <2> QED
    BY <2>5, <2>7, <2>8 DEF BodyInv
<1> QED
  BY <1>3, <1>4, <1>5

\* What a handler has yet to queue is queued one by one.
LEMMA BodyAdd ==
    ASSUME \A t, u \in Threads : t = u, TypeInv, BodyInv, NEW t \in Threads, AddFollowUp(t)
    PROVE  BodyInv'
<1> DEFINE x == Head(out[t])
<1>0. /\ tasks \in Seq(CompilerTask) /\ out \in [Threads -> Seq(CompilerTask)]
      /\ pc \in [Threads -> Labels] /\ out[t] # <<>> /\ pc[t] = "post" /\ BodiesApart(t)
  BY DEF TypeInv, TypeOK, QueueTypes, LocalTypes, LocalOK, AddFollowUp, BodyInv
<1>1. /\ tasks' = Append(tasks, x) /\ out'[t] = Tail(out[t])
      /\ job' = job /\ used' = used /\ body_checks' = body_checks /\ pc'[t] \in {"finish", "post"}
  BY <1>0 DEF AddFollowUp, data, Goto
<1>2. x \in CompilerTask
  BY <1>0, HeadTailProperties
<1> HIDE DEF x
<1>3. /\ ToSet(out[t]) = ToSet(out'[t]) \cup {x} /\ Apart(out'[t], BodyTask)
      /\ x \in BodyTask => Subject(x) \notin Subjects(out'[t], BodyTask)
  <2>1. out[t] \in Seq(CompilerTask)
    BY <1>0
  <2> QED
    BY <1>0, <1>1, <2>1, TailApart DEF BodiesApart, x
<1>4. x \in BodyTask => Subject(x) \notin Subjects(tasks, BodyTask)
  BY <1>0, <1>3 DEF BodiesApart, Subjects
<1>5. ToSet(tasks') = ToSet(tasks) \cup {x} /\ Apart(tasks', BodyTask)
  BY <1>0, <1>1, <1>2, <1>4, AppendApart DEF BodiesApart
<1>6. Subjects(out'[t], BodyTask) \cap Subjects(tasks', BodyTask) = {}
  BY <1>0, <1>3, <1>5 DEF BodiesApart, Subjects
<1>7. Held(t)' = {}
  BY <1>1 DEF Held, Holds
<1>8. BodiesApart(t)'
  BY <1>3, <1>5, <1>6, <1>7 DEF BodiesApart, BodyTask, CompilerTask
<1>9. InFlight' \subseteq InFlight
  BY <1>3, <1>5, <1>7, OneThread
<1> QED
  BY <1>0, <1>1, <1>8, <1>9, BodyQuiet

\* A struct task is no body.
LEMMA BodyRequeue ==
    ASSUME \A t, u \in Threads : t = u, TypeInv, BodyInv, NEW t \in Threads, Requeue(t),
           cur[t] \in PhaseTask
    PROVE  BodyInv'
<1>0. /\ tasks \in Seq(CompilerTask) /\ pc \in [Threads -> Labels] /\ BodiesApart(t)
      /\ pc[t] = "requeue" /\ Holds(t) /\ cur[t] \in CompilerTask /\ cur[t] \notin BodyTask
  BY HoldsTask, PhaseOrBody DEF TypeInv, TypeOK, QueueTypes, LocalTypes, Requeue, BodyInv
<1>1. /\ pc'[t] = "finish" /\ tasks' = <<cur[t]>> \o tasks /\ out' = out
      /\ job' = job /\ used' = used /\ body_checks' = body_checks
  BY <1>0 DEF Requeue, data, local, Goto, Reinserted
<1> DEFINE s == <<cur[t]>>
<1>2. /\ s \in Seq(CompilerTask) /\ ToSet(s) = {cur[t]} /\ Apart(s, BodyTask)
      /\ Subjects(s, BodyTask) = {}
  BY <1>0, ShortApart DEF Subjects
<1>3. tasks' = s \o tasks
  BY <1>1
<1> HIDE DEF s
<1>4. ToSet(tasks') = {cur[t]} \cup ToSet(tasks) /\ Apart(tasks', BodyTask)
  BY <1>0, <1>2, <1>3, ConcatApart DEF BodiesApart
<1>5. Subjects(tasks', BodyTask) = Subjects(tasks, BodyTask)
  BY <1>0, <1>4 DEF Subjects
<1>6. Held(t)' = {} /\ Held(t) = {cur[t]}
  BY <1>0, <1>1 DEF Held, Holds
<1>7. BodiesApart(t)'
  BY <1>0, <1>1, <1>4, <1>5, <1>6 DEF BodiesApart, BodyTask, CompilerTask
<1>8. InFlight' \subseteq InFlight
  BY <1>1, <1>4, <1>6, OneThread
<1> QED
  BY <1>0, <1>1, <1>7, <1>8, BodyQuiet

\* Only a function that is not yet used is queued by a call.
LEMMA BodyCall ==
    ASSUME \A t, u \in Threads : t = u, TypeInv, ChainInv, BodyInv, NEW t \in Threads, Call(t)
    PROVE  BodyInv'
<1>0. /\ tasks \in Seq(CompilerTask) /\ pc \in [Threads -> Labels] /\ BodiesApart(t)
      /\ target \in [Threads -> Imports \cup Functions \cup OnceSteps \cup {NoImport}]
      /\ pc[t] = "work" /\ Holds(t) /\ out[t] = <<>> /\ todo[t] \subseteq Functions
      /\ body_checks \in [Imports \cup Functions -> Nat] /\ job \in JobType
  <2>1. pc[t] = "work" /\ cur[t].type = TASK_TYPE_BODY
    BY DEF Call, Working
  <2>2. Holds(t) /\ Handling(t) /\ pc[t] # "post"
    BY <2>1, HoldsTask DEF Holds
  <2> QED
    BY <2>1, <2>2 DEF TypeInv, TypeOK, QueueTypes, LocalTypes, DataTypes, LocalOK, BodyInv, ChainInv,
                      ThreadInOrder
<1>1. /\ pc'[t] = "declare" /\ cur' = cur /\ out' = out
      /\ job' = job /\ used' = used /\ body_checks' = body_checks
  BY <1>0 DEF Call, data, Goto
<1>2. PICK f \in todo[t] :
         /\ target' = [target EXCEPT ![t] = f]
         /\ tasks' = IF f \in used THEN tasks
                     ELSE Append(tasks, Task(TASK_TYPE_BODY, job.home[f], f))
  BY DEF Call
<1>3. CASE f \in used
  BY <1>0, <1>1, <1>2, <1>3, BodyKeeps
<1>4. CASE f \notin used
  <2> DEFINE x == Task(TASK_TYPE_BODY, job.home[f], f)
  <2>1. /\ f \in Functions /\ f \notin Imports /\ x \in BodyTask /\ x \in CompilerTask
        /\ Subject(x) = f /\ x.type = TASK_TYPE_BODY
    BY <1>0, JobFields, NamesAssumption DEF Task, BodyTask, CompilerTask, TaskTypes, Subject
  <2>2. tasks' = Append(tasks, x) /\ target'[t] = f
    BY <1>0, <1>2, <1>4
  <2> HIDE DEF x
  <2>3. f \notin Begun
    BY <1>0, <1>4, <2>1 DEF BodyInv
  <2>4. body_checks[f] = 0 /\ f \notin Pending
    BY <1>0, <2>1, <2>3 DEF Begun
  <2>5. Held(t)' = {cur[t]} /\ Held(t) = {cur[t]}
    BY <1>0, <1>1 DEF Held, Holds, Handling
  <2>6. f \notin Subjects(tasks, BodyTask) /\ \A y \in Held(t) \cap BodyTask : Subject(y) # f
    BY <2>4, OneThread DEF Pending, Subjects
  <2>7. ToSet(tasks') = ToSet(tasks) \cup {x} /\ Apart(tasks', BodyTask)
    BY <1>0, <2>1, <2>2, <2>6, AppendApart DEF BodiesApart
  <2>8. Subjects(tasks', BodyTask) = Subjects(tasks, BodyTask) \cup {f}
    BY <2>1, <2>7 DEF Subjects
  <2>9. BodiesApart(t)'
    <3>1. Apart(out'[t], BodyTask) /\ Subjects(out'[t], BodyTask) = {}
      BY <1>0, <1>1, ShortApart DEF Subjects
    <3>2. \A y \in Held(t)' \cap BodyTask : Subject(y) \notin Subjects(tasks', BodyTask)
      BY <1>0, <2>5, <2>6, <2>8 DEF BodiesApart
    <3> QED
      BY <2>7, <3>1, <3>2 DEF BodiesApart, BodyTask, CompilerTask
  <2>10. InFlight' = InFlight \cup {x}
    BY <1>1, <2>5, <2>7, OneThread
  <2>11. Pending' \subseteq Pending \cup {f} /\ Begun' \subseteq Begun \cup {f}
    <3>1. Pending' \subseteq Pending \cup {f}
      BY <2>1, <2>10 DEF Pending, BodyTask, CompilerTask
    <3> QED
      BY <1>1, <3>1 DEF Begun
  <2>12. TASK_TYPE_BODY > TASK_TYPE_FUNCTIONS /\ TASK_TYPE_BODY # TASK_LEX
         /\ ~(TASK_TYPE_BODY <= TASK_TYPE_FUNCTIONS)
    BY DEF TASK_LEX, TASK_TYPE_FUNCTIONS, TASK_TYPE_BODY
  <2>13. \A i : Past(i) => Past(i)'
    BY <2>1, <2>10, <2>12 DEF Past
  <2>14. \A y \in Pending' : body_checks'[y] = 0
    BY <1>1, <2>4, <2>11 DEF BodyInv
  <2>15. \A fn \in Begun' \cap Functions :
            fn \in used' \/ \E u \in Threads : pc'[u] = "declare" /\ target'[u] = fn
    BY <1>0, <1>1, <2>2, <2>11 DEF BodyInv
  <2>16. \A i \in Begun' \cap Imports : Past(i)'
    BY <2>1, <2>11, <2>13 DEF BodyInv
  <2>17. \A fn \in used' : Past(job.home[fn])'
    BY <1>1, <2>13 DEF BodyInv
  <2>18. used' # {} \/ Begun' \cap Imports # {} => \A y \in InFlight' : y.type # TASK_LEX
    BY <1>1, <2>1, <2>10, <2>11, <2>12 DEF BodyInv
  <2>19. \A u \in Threads : BodiesApart(u)'
    BY <2>9
  <2>20. BodyCheckedOnce'
    BY <1>1 DEF BodyInv, BodyCheckedOnce
  <2> QED
    BY <2>14, <2>15, <2>16, <2>17, <2>18, <2>19, <2>20 DEF BodyInv
<1> QED
  BY <1>3, <1>4

\* While bodies are checked no earlier phase is left.
LEMMA BodyDeclare ==
    ASSUME \A t, u \in Threads : t = u, TypeInv, ChainInv, WaveInv, BodyInv, NEW t \in Threads,
           DeclareUsage(t)
    PROVE  BodyInv'
<1>0. /\ pc \in [Threads -> Labels] /\ BodiesApart(t) /\ tasks \in Seq(CompilerTask)
      /\ pc[t] = "declare" /\ Holds(t) /\ Handling(t) /\ out[t] = <<>>
      /\ cur[t].type = TASK_TYPE_BODY
  <2>1. pc[t] = "declare" /\ cur[t].type = TASK_TYPE_BODY
    BY DEF DeclareUsage, TypeInv, LocalOK
  <2>2. Holds(t) /\ Handling(t) /\ pc[t] # "post"
    BY <2>1, HoldsTask DEF Holds
  <2> QED
    BY <2>1, <2>2 DEF TypeInv, TypeOK, QueueTypes, LocalTypes, BodyInv, ChainInv, ThreadInOrder
<1>1. /\ pc'[t] = "work" /\ cur' = cur /\ out' = out /\ tasks' = tasks
      /\ job' = job /\ used' = used \cup {target[t]} /\ body_checks' = body_checks
  BY <1>0 DEF DeclareUsage, queue, Goto
<1>2. Held(t)' = Held(t) /\ Held(t) = {cur[t]}
  BY <1>0, <1>1 DEF Held, Holds, Handling
<1>3. InFlight' = InFlight /\ InFlight = ToSet(tasks) \cup {cur[t]}
  BY <1>0, <1>1, <1>2, OneThread, ShortApart
<1>4. Pending' = Pending /\ Begun' = Begun
  BY <1>1, <1>3 DEF Pending, Begun, BodyTask, CompilerTask
<1>5. \A x \in InFlight : x.type > TASK_TYPE_FUNCTIONS /\ x.type # TASK_LEX
  <2>1. cur[t].type >= TASK_TYPE_FUNCTIONS
    BY <1>0 DEF TASK_TYPE_FUNCTIONS, TASK_TYPE_BODY
  <2>2. tasks \in Seq(Later(TASK_TYPE_BODY))
    BY <1>0, <2>1 DEF WaveInv
  <2>3. \A x \in ToSet(tasks) : x.type >= TASK_TYPE_BODY /\ x.type \in Nat
    BY <2>2, ElementOfSeq, LenProperties, TaskFields DEF Later, ToSet
  <2> QED
    BY <1>0, <1>3, <2>3 DEF TASK_LEX, TASK_TYPE_FUNCTIONS, TASK_TYPE_BODY
<1>6. \A x \in InFlight : ~(x.type <= TASK_TYPE_FUNCTIONS)
  <2>1. \A x \in InFlight : x.type \in Nat
    BY <1>0, <1>3, ElementOfSeq, LenProperties, TaskFields DEF ToSet, TASK_TYPE_BODY
  <2> QED
    BY <1>5, <2>1 DEF TASK_TYPE_FUNCTIONS
<1>7. \A i : Past(i)'
  BY <1>3, <1>6 DEF Past
<1>8. BodiesApart(t)'
  BY <1>0, <1>1, <1>2 DEF BodiesApart, BodyTask, CompilerTask
<1>9. \A fn \in Begun' \cap Functions : fn \in used'
  BY <1>1, <1>4 DEF BodyInv
<1>10. \A x \in Pending' : body_checks'[x] = 0
  BY <1>1, <1>4 DEF BodyInv
<1>11. BodyCheckedOnce'
  BY <1>1 DEF BodyInv, BodyCheckedOnce
<1>12. \A x \in InFlight' : x.type # TASK_LEX
  BY <1>3, <1>5
<1>13. \A u \in Threads : BodiesApart(u)'
  BY <1>8
<1> QED
  BY <1>7, <1>9, <1>10, <1>11, <1>12, <1>13 DEF BodyInv

\* The body whose check ends was the only task about it.
LEMMA BodyDoneOnce ==
    ASSUME \A t, u \in Threads : t = u, TypeInv, ChainInv, BodyInv, NEW t \in Threads, BodyDone(t)
    PROVE  BodyInv'
<1> DEFINE s == Subject(cur[t])
<1>0. /\ pc \in [Threads -> Labels] /\ BodiesApart(t)
      /\ pc[t] = "work" /\ Holds(t) /\ out[t] = <<>> /\ cur[t] \in BodyTask
      /\ body_checks \in [Imports \cup Functions -> Nat] /\ s \in Imports \cup Functions
  <2>1. pc[t] = "work" /\ cur[t].type = TASK_TYPE_BODY
    BY DEF BodyDone, Working
  <2>2. Holds(t) /\ cur[t] \in BodyTask /\ pc[t] # "post"
    BY <2>1, HoldsTask
  <2> QED
    BY <2>1, <2>2, PhaseOrBody DEF TypeInv, TypeOK, DataTypes, LocalTypes, BodyInv, ChainInv,
                                   ThreadInOrder
<1>1. /\ pc'[t] = "finish" /\ cur' = cur /\ out' = out /\ tasks' = tasks
      /\ job' = job /\ used' = used /\ body_checks' = [body_checks EXCEPT ![s] = @ + 1]
  BY <1>0 DEF BodyDone, queue, local, Goto
<1>2. Held(t)' = {} /\ Held(t) = {cur[t]}
  BY <1>0, <1>1 DEF Held, Holds
<1>3. InFlight' = ToSet(tasks) /\ InFlight = ToSet(tasks) \cup {cur[t]}
  <2>1. ToSet(out[t]) = {} /\ ToSet(out'[t]) = {} /\ ToSet(tasks') = ToSet(tasks)
    BY <1>0, <1>1, ShortApart
  <2>2. /\ InFlight = ToSet(tasks) \cup ToSet(out[t]) \cup Held(t)
        /\ InFlight' = ToSet(tasks') \cup ToSet(out'[t]) \cup Held(t)'
    BY OneThread
  <2> QED
    BY <1>2, <2>1, <2>2
<1>4. s \in Pending /\ s \notin Pending' /\ Pending' \subseteq Pending
  <2>1. s \notin Subjects(tasks, BodyTask) /\ Pending' = Subjects(tasks, BodyTask)
    BY <1>0, <1>2, <1>3 DEF BodiesApart, Pending, Subjects, BodyTask, CompilerTask
  <2> QED
    BY <1>0, <1>3, <2>1 DEF Pending, Subjects
<1>5. body_checks[s] = 0 /\ body_checks'[s] = 1
      /\ \A x \in (Imports \cup Functions) \ {s} : body_checks'[x] = body_checks[x]
  BY <1>0, <1>1, <1>4 DEF BodyInv
<1>6. Begun' \subseteq Begun
  BY <1>0, <1>4, <1>5 DEF Begun
<1>7. \A i : Past(i) => Past(i)'
  BY <1>3 DEF Past
<1>8. BodiesApart(t)'
  BY <1>0, <1>1, <1>2 DEF BodiesApart, BodyTask, CompilerTask
<1>9. \A x \in Pending' : body_checks'[x] = 0
  <2>1. Pending \subseteq Imports \cup Functions
    BY PhaseOrBody DEF Pending
  <2> QED
    BY <1>4, <1>5, <2>1 DEF BodyInv
<1>10. BodyCheckedOnce'
  <2>1. \A x \in Imports \cup Functions : body_checks[x] <= 1
    BY DEF BodyInv, BodyCheckedOnce
  <2>2. \A x \in Imports \cup Functions : body_checks'[x] <= 1
    BY <1>5, <2>1
  <2> QED
    BY <2>2 DEF BodyCheckedOnce
<1>11. \A fn \in Begun' \cap Functions : fn \in used'
  BY <1>0, <1>1, <1>6 DEF BodyInv
<1>12. \A i \in Begun' \cap Imports : Past(i)'
  BY <1>6, <1>7 DEF BodyInv
<1>13. \A fn \in used' : Past(job.home[fn])'
  BY <1>1, <1>7 DEF BodyInv
<1>14. used' # {} \/ Begun' \cap Imports # {} => \A x \in InFlight' : x.type # TASK_LEX
  BY <1>1, <1>3, <1>6 DEF BodyInv
<1>15. \A u \in Threads : BodiesApart(u)'
  BY <1>8
<1> QED
  BY <1>1, <1>9, <1>10, <1>11, <1>12, <1>13, <1>14, <1>15 DEF BodyInv

\* The bodies an import queues after its signatures: those of the entry function
\* it declares and of the import itself.
LEMMA BodyTasksElements ==
    ASSUME job \in JobType, NEW i \in Imports
    PROVE  /\ BodyTasks(i) \in Seq(BodyTask) /\ BodyTasks(i) \in Seq(CompilerTask)
           /\ Apart(BodyTasks(i), BodyTask) /\ ToSet(BodyTasks(i)) \subseteq BodyTask
           /\ Subjects(BodyTasks(i), BodyTask) =
                 IF job.has_entry_point THEN Declares(i, {job.entry}) \cup {i} ELSE {}
<1> DEFINE fns == FunctionBodies(i, {job.entry})
           x == Task(TASK_TYPE_BODY, i, NoFunction)
           own == <<x>>
<1>0. Declares(i, {job.entry}) \subseteq Functions
  BY JobFields DEF Declares
<1>1. /\ fns \in Seq(BodyTask) /\ fns \in Seq(CompilerTask) /\ Apart(fns, BodyTask)
      /\ Subjects(fns, BodyTask) = Declares(i, {job.entry})
  BY <1>0, FunctionBodiesType, FunctionBodiesElements
<1>2. x \in BodyTask /\ x \in CompilerTask /\ Subject(x) = i
  BY DEF Task, BodyTask, CompilerTask, TaskTypes, Subject
<1>3. /\ own \in Seq(BodyTask) /\ own \in Seq(CompilerTask) /\ Apart(own, BodyTask)
      /\ ToSet(own) = {x}
  BY <1>2, ShortApart
<1>4. Subjects(own, BodyTask) = {i} /\ i \notin Declares(i, {job.entry})
  BY <1>0, <1>2, <1>3, NamesAssumption DEF Subjects
<1> HIDE DEF fns, own
<1>5. CASE job.has_entry_point
  <2>1. BodyTasks(i) = fns \o own
    BY <1>5 DEF BodyTasks, fns, own
  <2>2. Subjects(fns, BodyTask) \cap Subjects(own, BodyTask) = {}
    BY <1>1, <1>4
  <2>3. ToSet(fns \o own) = ToSet(fns) \cup ToSet(own) /\ Apart(fns \o own, BodyTask)
    <3>1. /\ fns \in Seq(CompilerTask) /\ own \in Seq(CompilerTask)
          /\ Apart(fns, BodyTask) /\ Apart(own, BodyTask)
      BY <1>1, <1>3
    <3> QED
      BY <2>2, <3>1, ConcatApart
  <2>4. Subjects(fns \o own, BodyTask) = Subjects(fns, BodyTask) \cup Subjects(own, BodyTask)
    BY <2>3 DEF Subjects
  <2>5. fns \o own \in Seq(BodyTask) /\ fns \o own \in Seq(CompilerTask)
    BY <1>1, <1>3, ConcatProperties
  <2>6. ToSet(fns) \subseteq BodyTask
    BY <1>1, ElementOfSeq, LenProperties DEF ToSet
  <2> QED
    BY <1>1, <1>2, <1>3, <1>4, <1>5, <2>1, <2>3, <2>4, <2>5, <2>6
<1>6. CASE ~job.has_entry_point
  <2>1. BodyTasks(i) = <<>>
    BY <1>6 DEF BodyTasks
  <2> QED
    BY <1>6, <2>1, ShortApart, EmptySeq DEF Subjects
<1> QED
  BY <1>5, <1>6

\* An import that types its signatures has begun no body, and neither has any
\* function it declares: it begins those that are exported and its entry.
LEMMA BodyFunctions ==
    ASSUME \A t, u \in Threads : t = u, TypeInv, job \in Jobs, ChainInv, WaveInv, BodyInv,
           NEW t \in Threads, TypeFunctions(t)
    PROVE  BodyInv'
<1> DEFINE i == cur[t].import
           exports == FunctionBodies(i, job.exported \ used)
           E == Declares(i, job.exported \ used)
           own == BodyTasks(i)
           N == Declares(i, {job.entry})
           gen == Task(TASK_GEN_BYTECODE, i, NoFunction)
<1>0. /\ pc \in [Threads -> Labels] /\ BodiesApart(t) /\ tasks \in Seq(CompilerTask)
      /\ job \in JobType /\ body_checks \in [Imports \cup Functions -> Nat]
      /\ out \in [Threads -> Seq(CompilerTask)] /\ used \subseteq Functions
      /\ pc[t] = "check" /\ Holds(t) /\ Handling(t) /\ Owns(t) /\ out[t] = <<>>
      /\ cur[t] \in PhaseTask /\ cur[t].type = TASK_TYPE_FUNCTIONS /\ i \in Imports
  <2>1. pc[t] = "check" /\ cur[t].type = TASK_TYPE_FUNCTIONS /\ cur[t].type \in ImportPhases
    BY DEF TypeFunctions, Working, ImportPhases
  <2>2. Holds(t) /\ Handling(t) /\ Owns(t) /\ cur[t] \in PhaseTask /\ pc[t] # "post"
    BY <2>1, HoldsTask DEF Holds
  <2>3. out[t] = <<>> /\ i \in Imports
    BY <2>2 DEF ChainInv, ThreadInOrder, PhaseTask, CompilerTask
  <2> QED
    BY <2>1, <2>2, <2>3 DEF TypeInv, TypeOK, QueueTypes, DataTypes, LocalTypes, BodyInv
<1>1. /\ tasks' = tasks \o exports /\ cur' = cur /\ job' = job
      /\ used' = used \cup UsedFromStart(i) /\ body_checks' = body_checks
      /\ Drop(t) \/ Complete(t, own \o <<gen>>)
  BY DEF TypeFunctions, FollowUp
<1>2. /\ E \subseteq Functions /\ N \subseteq Functions /\ E \cap N = {}
      /\ UsedFromStart(i) \subseteq Functions /\ E \cup N \subseteq UsedFromStart(i)
      /\ \A fn \in UsedFromStart(i) : job.home[fn] = i
  BY <1>0, JobFields, JobsAssumption DEF Declares, UsedFromStart
<1>3. /\ exports \in Seq(CompilerTask) /\ Apart(exports, BodyTask)
      /\ Subjects(exports, BodyTask) = E /\ ToSet(exports) \subseteq BodyTask
  <2>1. exports \in Seq(BodyTask) /\ exports \in Seq(CompilerTask)
    BY <1>0, <1>2, FunctionBodiesType
  <2>2. Apart(exports, BodyTask) /\ Subjects(exports, BodyTask) = E
    BY <1>0, <1>2, FunctionBodiesElements
  <2>3. ToSet(exports) \subseteq BodyTask
    BY <2>1, ElementOfSeq, LenProperties DEF ToSet
  <2> QED
    BY <2>1, <2>2, <2>3
<1>4. /\ own \in Seq(CompilerTask) /\ Apart(own, BodyTask) /\ ToSet(own) \subseteq BodyTask
      /\ Subjects(own, BodyTask) \subseteq N \cup {i}
  BY <1>0, BodyTasksElements
<1>5. /\ gen \in CompilerTask /\ gen \in PhaseTask /\ gen \notin BodyTask
      /\ gen.type = TASK_GEN_BYTECODE
  <2>1. gen \in PhaseTask /\ gen \in CompilerTask /\ gen.type = TASK_GEN_BYTECODE
    BY <1>0 DEF Task, PhaseTask, CompilerTask, TaskTypes, ImportPhases
  <2> QED
    BY <2>1, PhaseOrBody
<1> HIDE DEF exports, own, gen, E, N
<1>6. /\ InFlight = ToSet(tasks) \cup {cur[t]} /\ Held(t)' = {}
      /\ \/ out' = out /\ ToSet(out'[t]) = {}
         \/ out'[t] = own \o <<gen>>
  <2>1. Held(t) = {cur[t]} /\ ToSet(out[t]) = {}
    BY <1>0, ShortApart DEF Held
  <2>2. InFlight = ToSet(tasks) \cup ToSet(out[t]) \cup Held(t)
    BY OneThread
  <2>3. pc'[t] \in {"post", "finish"}
    BY <1>0, <1>1 DEF Drop, Complete, Goto
  <2>4. out' = out \/ out'[t] = own \o <<gen>>
    BY <1>0, <1>1 DEF Drop, Complete
  <2> QED
    BY <2>1, <2>2, <2>3, <2>4 DEF Held, Holds
<1>7. \A x \in ToSet(tasks) : x.type >= TASK_TYPE_FUNCTIONS /\ x \in CompilerTask
  <2>1. tasks \in Seq(Later(TASK_TYPE_FUNCTIONS))
    BY <1>0 DEF WaveInv, TASK_TYPE_FUNCTIONS
  <2> QED
    BY <2>1, ElementOfSeq, LenProperties DEF Later, ToSet
<1>8. ~Past(i) /\ Begun \cap (E \cup N \cup {i}) = {}
  <2>1. ~Past(i)
    BY <1>0, <1>6 DEF Past, TASK_TYPE_FUNCTIONS
  <2>2. i \notin Begun
    BY <1>0, <2>1 DEF BodyInv
  <2>3. \A fn \in Begun \cap Functions : fn \in used
    BY <1>0 DEF BodyInv
  <2>4. \A fn \in E \cup N : fn \notin used
    BY <1>2, <2>1 DEF BodyInv
  <2>5. \A x \in E \cup N \cup {i} : x \notin Begun
    BY <1>2, <2>2, <2>3, <2>4
  <2> QED
    BY <2>1, <2>5
<1>9. ToSet(tasks') = ToSet(tasks) \cup ToSet(exports) /\ Apart(tasks', BodyTask)
  <2>1. Subjects(tasks, BodyTask) \cap E = {}
    BY <1>6, <1>8 DEF Begun, Pending, Subjects
  <2> QED
    BY <1>0, <1>1, <1>3, <2>1, ConcatApart DEF BodiesApart
<1>10. Subjects(tasks', BodyTask) = Subjects(tasks, BodyTask) \cup E
  BY <1>3, <1>9 DEF Subjects
<1>11. /\ ToSet(out'[t]) \subseteq ToSet(own) \cup {gen} /\ Apart(out'[t], BodyTask)
       /\ Subjects(out'[t], BodyTask) \subseteq N \cup {i}
  <2>1. CASE out' = out /\ ToSet(out'[t]) = {}
    BY <1>0, <2>1, ShortApart DEF Subjects
  <2>2. CASE out'[t] = own \o <<gen>>
    <3> DEFINE last == <<gen>>
    <3>1. /\ last \in Seq(CompilerTask) /\ Apart(last, BodyTask) /\ ToSet(last) = {gen}
      BY <1>5, ShortApart
    <3>2. Subjects(last, BodyTask) = {}
      BY <1>5, <3>1 DEF Subjects
    <3> HIDE DEF last
    <3>3. ToSet(own \o last) = ToSet(own) \cup {gen} /\ Apart(own \o last, BodyTask)
      BY <1>4, <3>1, <3>2, ConcatApart
    <3>4. Subjects(own \o last, BodyTask) \subseteq Subjects(own, BodyTask)
      BY <1>5, <3>3 DEF Subjects
    <3>5. out'[t] = own \o last
      BY <2>2 DEF last
    <3> QED
      BY <1>4, <3>3, <3>4, <3>5
  <2> QED
    BY <1>6, <2>1, <2>2
<1>12. BodiesApart(t)'
  <2>1. Subjects(tasks, BodyTask) \cap (N \cup {i}) = {}
    BY <1>6, <1>8 DEF Begun, Pending, Subjects
  <2>2. E \cap (N \cup {i}) = {}
    BY <1>0, <1>2, NamesAssumption
  <2>3. Subjects(out'[t], BodyTask) \cap Subjects(tasks', BodyTask) = {}
    BY <1>10, <1>11, <2>1, <2>2
  <2> QED
    BY <1>6, <1>9, <1>11, <2>3 DEF BodiesApart, BodyTask, CompilerTask
<1>13. InFlight' = ToSet(tasks') \cup ToSet(out'[t])
  BY <1>6, OneThread
<1>14. Pending' \subseteq Pending \cup E \cup N \cup {i} /\ Begun' \subseteq Begun \cup E \cup N \cup {i}
  <2>1. Pending' = Subjects(tasks', BodyTask) \cup Subjects(out'[t], BodyTask)
    BY <1>13 DEF Pending, Subjects, BodyTask, CompilerTask
  <2>2. Subjects(tasks, BodyTask) \subseteq Pending
    BY <1>6 DEF Pending, Subjects
  <2> QED
    BY <1>1, <1>10, <1>11, <2>1, <2>2 DEF Begun
<1>15. \A x \in InFlight' : x \in ToSet(tasks) \/ x.type > TASK_TYPE_FUNCTIONS
  <2>1. \A x \in BodyTask : x.type = TASK_TYPE_BODY
    BY DEF BodyTask
  <2>2. TASK_TYPE_BODY > TASK_TYPE_FUNCTIONS /\ TASK_GEN_BYTECODE > TASK_TYPE_FUNCTIONS
    BY DEF TASK_TYPE_BODY, TASK_TYPE_FUNCTIONS, TASK_GEN_BYTECODE
  <2> QED
    BY <1>3, <1>4, <1>5, <1>9, <1>11, <1>13, <2>1, <2>2
<1>16. \A x \in InFlight' : x.type \in Nat /\ x.type # TASK_LEX /\ x.type >= TASK_TYPE_FUNCTIONS
  <2>1. \A x \in InFlight' : x \in CompilerTask
    BY <1>4, <1>3, <1>5, <1>7, <1>9, <1>11, <1>13, PhaseOrBody
  <2>2. \A x \in InFlight' : x.type \in Nat
    BY <2>1, TaskFields
  <2> QED
    BY <1>7, <1>15, <2>2 DEF TASK_LEX, TASK_TYPE_FUNCTIONS
<1>17. \A j : Past(j) => Past(j)'
  <2>1. \A x \in InFlight' : x.type <= TASK_TYPE_FUNCTIONS => x \in InFlight
    BY <1>6, <1>15, <1>16 DEF TASK_TYPE_FUNCTIONS
  <2> QED
    BY <2>1 DEF Past
<1>18. Past(i)'
  <2>1. \A x \in ToSet(tasks) \cap PhaseTask : x.import # i
    BY <1>0 DEF ChainInv, ThreadInOrder, QueueInOrder, InOrder, Subjects, Subject
  <2>2. \A x \in ToSet(tasks) : x \in PhaseTask \/ x.type = TASK_TYPE_BODY
    BY <1>7, PhaseOrBody DEF BodyTask
  <2> QED
    BY <1>1, <1>15, <1>16, <2>1, <2>2 DEF Past, TASK_TYPE_FUNCTIONS, TASK_TYPE_BODY
<1>19. \A x \in Pending' : body_checks'[x] = 0
  <2>1. \A x \in E \cup N \cup {i} : body_checks[x] = 0
    BY <1>0, <1>2, <1>8 DEF Begun
  <2> QED
    BY <1>1, <1>14, <2>1 DEF BodyInv
<1>20. \A fn \in Begun' \cap Functions : fn \in used'
  <2>1. \A fn \in Begun \cap Functions : fn \in used
    BY <1>0 DEF BodyInv
  <2>2. i \notin Functions
    BY <1>0, NamesAssumption
  <2> QED
    BY <1>1, <1>2, <1>14, <2>1, <2>2
<1>21. \A j \in Begun' \cap Imports : Past(j)'
  <2>1. (E \cup N) \cap Imports = {}
    BY <1>2, NamesAssumption
  <2> QED
    BY <1>1, <1>14, <1>17, <1>18, <2>1 DEF BodyInv
<1>22. \A fn \in used' : Past(job.home[fn])'
  <2>1. \A fn \in used' : fn \in used \/ job.home[fn] = i
    BY <1>1, <1>2
  <2>2. \A fn \in used : Past(job.home[fn])
    BY DEF BodyInv
  <2>3. \A fn \in used' : Past(job.home[fn]) \/ job.home[fn] = i
    BY <2>1, <2>2
  <2> QED
    BY <1>1, <1>17, <1>18, <2>3
<1>23. BodyCheckedOnce'
  BY <1>1 DEF BodyInv, BodyCheckedOnce
<1>24. \A u \in Threads : BodiesApart(u)'
  BY <1>12
<1> QED
  BY <1>1, <1>16, <1>19, <1>20, <1>21, <1>22, <1>23, <1>24 DEF BodyInv

\* The phases of the other handlers.
LEMMA BodyPhases ==
    ASSUME \A t, u \in Threads : t = u, TypeInv, ChainInv, BodyInv, NEW t \in Threads,
           LexDone(t) \/ Preprocess(t) \/ TypeEnums(t) \/ TypeStructs(t) \/ GenerateScope(t)
              \/ GenerateMachineCode(t)
    PROVE  BodyInv'
<1>1. /\ pc[t] \in {"work", "check"} /\ cur[t].type \in ImportPhases
      /\ job' = job /\ used' = used /\ body_checks' = body_checks /\ cur' = cur /\ tasks' = tasks
  BY DEF LexDone, Preprocess, TypeEnums, TypeStructs, GenerateScope, GenerateMachineCode, Working,
         queue, GenerateTypes, ImportPhases
<1>2. Holds(t) /\ cur[t] \in PhaseTask /\ pc[t] # "post" /\ pc[t] # "declare"
  BY <1>1, HoldsTask
<1>3. {TASK_PREPROCESS_AND_PARSE, TASK_TYPE_ENUMS, TASK_TYPE_STRUCTS, TASK_TYPE_FUNCTIONS,
       TASK_GEN_BYTECODE_RUNDIR, TASK_GEN_MACHINE_CODE} \subseteq ImportPhases
  BY DEF ImportPhases
<1>4. CASE LexDone(t) \/ Preprocess(t) \/ TypeEnums(t)
  <2>1. \/ Drop(t)
        \/ \E next \in ImportPhases : cur[t].type < next /\ Complete(t, FollowUp(t, next))
    BY <1>3, <1>4 DEF LexDone, Preprocess, TypeEnums, Working, TASK_LEX,
       TASK_PREPROCESS_AND_PARSE, TASK_TYPE_ENUMS, TASK_TYPE_STRUCTS
  <2> QED
    BY <1>1, <1>2, <2>1, BodyPhase
<1>5. CASE GenerateScope(t) \/ GenerateMachineCode(t)
  <2>1. \/ Drop(t) \/ Complete(t, <<>>)
        \/ \E next \in ImportPhases : cur[t].type < next /\ Complete(t, FollowUp(t, next))
    BY <1>3, <1>5 DEF GenerateScope, GenerateMachineCode, Working, GenerateTypes,
       TASK_GEN_BYTECODE, TASK_GEN_BYTECODE_RUNDIR, TASK_GEN_MACHINE_CODE
  <2> QED
    BY <1>1, <1>2, <2>1, BodyPhase
<1>6. CASE TypeStructs(t)
  <2>1. \/ out' = out
        \/ \E next \in ImportPhases : cur[t].type < next /\ Complete(t, FollowUp(t, next))
    BY <1>3, <1>6 DEF TypeStructs, Working, TASK_TYPE_STRUCTS, TASK_TYPE_FUNCTIONS
  <2> QED
    BY <1>1, <1>2, <2>1, BodyPhase, BodyKeeps
<1> QED
  BY <1>4, <1>5, <1>6

\* Every step of the only thread begins only bodies that have not been begun.
LEMMA BodyNext ==
    ASSUME \A t, u \in Threads : t = u, TypeInv, job \in Jobs, ChainInv, JudgesStructs, WaveInv,
           BodyInv, NEW t \in Threads, processImports(t)
    PROVE  BodyInv'
<1>0. pc \in [Threads -> Labels]
  BY DEF TypeInv, TypeOK, LocalTypes
<1>1. CASE RegisterTotal(t) \/ RegisterWaiting(t) \/ Wait(t) \/ Finish(t) \/ Leave(t)
  <2>1. /\ job' = job /\ used' = used /\ body_checks' = body_checks /\ tasks' = tasks /\ out' = out
        /\ pc[t] # "declare" /\ pc'[t] \in {"register", "wait", "select", "done"}
    BY <1>0, <1>1 DEF RegisterTotal, RegisterWaiting, Wait, Finish, Leave, Goto, data, queue, local
  <2>2. ~Holds(t)'
    BY <2>1 DEF Holds, Handling
  <2> QED
    BY <2>1, <2>2, BodyKeeps
<1>2. CASE LexUnreadable(t) \/ LinkPreload(t) \/ LinkImport(t) \/ Snapshot(t) \/ JudgeRequeue(t)
           \/ JudgeGiveUp(t) \/ QuickCheck(t) \/ RunOnce(t)
  <2>1. /\ job' = job /\ used' = used /\ body_checks' = body_checks /\ tasks' = tasks /\ out' = out
        /\ cur' = cur /\ pc[t] \in {"work", "link_preload", "link", "judge", "once"}
    BY <1>2 DEF LexUnreadable, LinkPreload, LinkImport, Snapshot, JudgeRequeue, JudgeGiveUp,
                QuickCheck, RunOnce, Working, data, queue, local
  <2>2. Holds(t)
    BY <2>1 DEF Holds, Handling
  <2> QED
    BY <2>1, <2>2, BodyKeeps
<1>3. CASE Requeue(t)
  <2>1. cur[t] \in PhaseTask
    <3>1. pc[t] = "requeue" /\ cur[t].type \in ImportPhases
      BY <1>3 DEF Requeue, JudgesStructs, ImportPhases
    <3> QED
      BY <3>1, HoldsTask
  <2> QED
    BY <1>3, <2>1, BodyRequeue
<1> QED
  BY <1>1, <1>2, <1>3, BodySelect, BodyFind, BodyPhases, BodyFunctions, BodyCall, BodyDeclare,
     BodyDoneOnce, BodyAdd DEF processImports, Enter, Lex, TypeCheck, Generate, Exit

\* At the start there are only files to lex.
LEMMA BodyInit ==
    ASSUME Init PROVE BodyInv
<1>1. \A t \in Threads : out[t] = <<>> /\ Held(t) = {} /\ pc[t] = "start"
  BY DEF Init, Held, Holds, Handling
<1>2. tasks \in Seq(CompilerTask) /\ ToSet(tasks) \cap BodyTask = {}
  <2>1. TypeInv
    BY TypeInit
  <2>2. \A k \in DOMAIN tasks : tasks[k] = Task(TASK_LEX, job.preload, NoFunction)
                                  \/ tasks[k] = Task(TASK_LEX, job.main, NoFunction)
    BY DEF Init
  <2>3. \A x : Task(TASK_LEX, x, NoFunction).type # TASK_TYPE_BODY
    BY DEF Task, TASK_LEX, TASK_TYPE_BODY
  <2> QED
    BY <2>1, <2>2, <2>3 DEF TypeInv, TypeOK, QueueTypes, ToSet, BodyTask
<1>3. InFlight = ToSet(tasks)
  BY <1>1, ShortApart DEF InFlight
<1>4. Pending = {} /\ Begun = {}
  BY <1>2, <1>3 DEF Pending, Begun, Init
<1>5. Apart(tasks, BodyTask) /\ Subjects(tasks, BodyTask) = {}
  BY <1>2 DEF Apart, Subjects, ToSet
<1>6. \A t \in Threads : BodiesApart(t)
  BY <1>1, <1>5, ShortApart DEF BodiesApart, Subjects
<1>7. BodyCheckedOnce /\ used = {}
  BY DEF Init, BodyCheckedOnce
<1> QED
  BY <1>4, <1>6, <1>7 DEF BodyInv

\* With one thread a body that has been queued has never been queued before.
THEOREM BodyInvCorrect == (\A t, u \in Threads : t = u) => (Spec => [](job \in Jobs /\ BodyInv))
<1> SUFFICES ASSUME \A t, u \in Threads : t = u PROVE Spec => [](job \in Jobs /\ BodyInv)
  OBVIOUS
<1>1. Init => job \in Jobs /\ BodyInv
  BY BodyInit DEF Init
<1>2. TypeInv /\ ChainInv /\ JudgesStructs /\ WaveInv /\ job \in Jobs /\ BodyInv /\ [Next]_vars
         => (job \in Jobs /\ BodyInv)'
  <2> SUFFICES ASSUME TypeInv, ChainInv, JudgesStructs, WaveInv, job \in Jobs, BodyInv, [Next]_vars
               PROVE  job' \in Jobs /\ BodyInv'
    OBVIOUS
  <2>1. CASE UNCHANGED vars
    <3>1. \A t : Held(t)' = Held(t)
      BY <2>1 DEF vars, local, Held, Holds, Handling
    <3>2. InFlight' = InFlight
      BY <2>1, <3>1 DEF vars, queue, local, InFlight
    <3>3. Pending' = Pending /\ Begun' = Begun
      BY <2>1, <3>2 DEF vars, data, Pending, Begun, BodyTask, CompilerTask
    <3>4. \A t : BodiesApart(t)' <=> BodiesApart(t)
      BY <2>1, <3>1 DEF vars, queue, local, BodiesApart, BodyTask, CompilerTask
    <3>5. \A i : Past(i)' <=> Past(i)
      BY <3>2 DEF Past
    <3> QED
      BY <2>1, <3>2, <3>3, <3>4, <3>5 DEF vars, data, local, BodyInv, BodyCheckedOnce
  <2>2. ASSUME NEW t \in Threads, processImports(t) PROVE job' \in Jobs /\ BodyInv'
    BY <2>2, BodyNext, OthersUnchanged DEF TypeInv, TypeOK
  <2> QED
    BY <2>1, <2>2 DEF Next, AfterReturn
<1>3. Spec => []WaveInv
  BY WaveInvCorrect
<1> QED
  BY <1>1, <1>2, <1>3, TypeInvCorrect, ChainCorrect, PTL DEF Spec

\* With one thread no body is type checked twice, whatever calls what and
\* whatever is exported: the assertions of checkFunctionScope and processImports
\* hold.
THEOREM BodyCheckedOnceCorrect == (\A t, u \in Threads : t = u) => (Spec => []BodyCheckedOnce)
<1> SUFFICES ASSUME \A t, u \in Threads : t = u PROVE Spec => []BodyCheckedOnce
  OBVIOUS
<1>1. Spec => [](job \in Jobs /\ BodyInv)
  BY BodyInvCorrect
<1>2. BodyInv => BodyCheckedOnce
  BY DEF BodyInv
<1> QED
  BY <1>1, <1>2, PTL

-----------------------------------------------------------------------------
(* The barrier between the phases, for one thread.                          *)

\* Errors, and the decision that the output is up to date, excuse an import that
\* does not go through all phases.
Proper == errors = 0 /\ ~output_is_up_to_date

\* An import ends after the last phase, or when it has been preprocessed and
\* nothing else was asked for.
Ended(i) == state[i] = ImportPhases \/ (job.only_preprocess /\ TASK_LEX \in state[i])

OnTheWay(i) == \/ i \in Subjects(tasks, PhaseTask)
               \/ \E t \in Threads : Owns(t) /\ cur[t].import = i
AllOnTheWay ==
    Proper => \A i \in imports : Ended(i) \/ OnTheWay(i)

OnlyPreprocesses ==
    job.only_preprocess =>
        /\ \A x \in InFlight : x.type <= TASK_PREPROCESS_AND_PARSE
        /\ \A t \in Threads : Handling(t) => cur[t].type <= TASK_PREPROCESS_AND_PARSE

NothingLeftToDo == output_is_up_to_date => tasks = <<>> /\ \A t \in Threads : ~Handling(t)

\* An import that is judged is not complete, and the last sweep over it has
\* completed nothing if the counter says so.
JudgedRightly ==
    \A t \in Threads : pc[t] = "judge" =>
        /\ Incomplete(cur[t].import, complete)
        /\ stall > 0 => Sweep(cur[t].import) = complete

BarrierInv == AllOnTheWay /\ OnlyPreprocesses /\ NothingLeftToDo /\ JudgedRightly

\* What excuses an import is never taken back.
LEMMA ProperBefore ==
    ASSUME TypeInv, NEW t \in Threads, processImports(t)
    PROVE  /\ errors' >= errors /\ (output_is_up_to_date => output_is_up_to_date')
           /\ Proper' => Proper
<1>0. errors \in Nat /\ NewErrors(t) \in Nat /\ job' = job
  BY OthersUnchanged DEF TypeInv, TypeOK, DataTypes, NewErrors
<1>1. CASE Enter(t) \/ Exit(t)
  <2>1. CASE Select(t)
    <3>1. errors' = errors
      BY <2>1 DEF Select, SelectTask, SelectFinished, SelectStuck, SelectNothing, data
    <3>2. output_is_up_to_date => output_is_up_to_date'
      BY <2>1 DEF Select, SelectTask, SelectFinished, SelectStuck, SelectNothing, Discard
    <3> QED
      BY <1>0, <3>1, <3>2 DEF Proper
  <2>2. CASE ~Select(t)
    BY <1>0, <1>1, <2>2 DEF Enter, RegisterTotal, RegisterWaiting, Wait, Exit, AddFollowUp, Finish,
                            Leave, data, verdict, Proper
  <2> QED
    BY <2>1, <2>2
<1>2. CASE Lex(t) \/ Preprocess(t)
  BY <1>0, <1>2 DEF Lex, LexUnreadable, FindImport, LinkPreload, LinkImport, LexDone, Preprocess,
                    data, verdict, Proper
<1>3. CASE TypeCheck(t)
  BY <1>0, <1>3 DEF TypeCheck, Snapshot, TypeEnums, TypeStructs, JudgeRequeue, JudgeGiveUp, Requeue,
                    TypeFunctions, Call, DeclareUsage, BodyDone, data, verdict, Proper
<1>4. CASE Generate(t)
  BY <1>0, <1>4 DEF Generate, QuickCheck, RunOnce, GenerateScope, GenerateMachineCode, data,
                    verdict, Proper
<1> QED
  BY <1>1, <1>2, <1>3, <1>4 DEF processImports

\* A handler that ends without an error leaves its import on the way, or done.
LEMMA WayEnd ==
    ASSUME TypeInv, ChainInv, AllOnTheWay, NEW t \in Threads, processImports(t),
           imports' = imports, cur' = cur, Owns(t), pc[t] # "post",
           Subjects(tasks, PhaseTask) \subseteq Subjects(tasks', PhaseTask),
           \/ \E s : s # <<>> /\ Complete(t, s)
           \/ cur[t].type = TASK_GEN_MACHINE_CODE /\ Complete(t, <<>>)
    PROVE  AllOnTheWay'
<1> DEFINE i == cur[t].import
<1>0. /\ pc \in [Threads -> Labels] /\ state \in [Imports -> SUBSET TaskTypes]
      /\ i \in Imports /\ state[i] = PhasesBefore(cur[t].type) /\ job' = job
      /\ imports \subseteq Imports
      /\ \A u \in Threads \ {t} : Owns(u)' <=> Owns(u)
  BY OthersUnchanged
     DEF TypeInv, TypeOK, LocalTypes, DataTypes, QueueTypes, ChainInv, ThreadInOrder, PhaseTask,
         CompilerTask, Owns, Holds, Handling
<1>1. state' = [state EXCEPT ![i] = @ \cup {cur[t].type}]
  BY DEF Complete
<1>2. SUFFICES ASSUME Proper', NEW j \in imports PROVE (Ended(j) \/ OnTheWay(j))'
  BY DEF AllOnTheWay
<1>3. Ended(j) \/ OnTheWay(j)
  BY <1>2, ProperBefore DEF AllOnTheWay
<1>4. CASE j = i
  <2>1. CASE \E s : s # <<>> /\ Complete(t, s)
    <3>1. pc'[t] = "post"
      BY <1>0, <2>1 DEF Complete, Goto
    <3> QED
      BY <1>4, <3>1 DEF OnTheWay, Owns
  <2>2. CASE cur[t].type = TASK_GEN_MACHINE_CODE /\ Complete(t, <<>>)
    BY <1>0, <1>1, <1>4, <2>2, PhaseAfterPhase DEF Ended, ImportPhases
  <2> QED
    BY <2>1, <2>2
<1>5. CASE j # i
  <2>1. state'[j] = state[j]
    BY <1>0, <1>1, <1>5
  <2>2. OnTheWay(j) => OnTheWay(j)'
    <3>1. CASE j \in Subjects(tasks, PhaseTask)
      BY <3>1 DEF OnTheWay, PhaseTask, CompilerTask
    <3>2. ASSUME NEW u \in Threads, Owns(u), cur[u].import = j PROVE OnTheWay(j)'
      BY <1>0, <1>5, <3>2 DEF OnTheWay
    <3> QED
      BY <3>1, <3>2 DEF OnTheWay
  <2> QED
    BY <1>0, <1>3, <2>1, <2>2 DEF Ended, ImportPhases, TASK_LEX
<1> QED
  BY <1>4, <1>5

\* A step that ends no phase keeps every import on its way.
LEMMA WayKeeps ==
    ASSUME TypeInv, AllOnTheWay, NEW t \in Threads, processImports(t),
           state' = state,
           Subjects(tasks, PhaseTask) \subseteq Subjects(tasks', PhaseTask),
           \A i \in imports' \ imports : i \in Subjects(tasks', PhaseTask),
           \/ Owns(t) => Owns(t)' /\ cur' = cur
           \/ cur[t].import \in Subjects(tasks', PhaseTask)
           \/ Ended(cur[t].import)
    PROVE  AllOnTheWay'
<1>0. job' = job /\ \A u \in Threads \ {t} : (Owns(u)' <=> Owns(u)) /\ cur'[u] = cur[u]
  BY OthersUnchanged DEF TypeInv, TypeOK, Owns, Holds, Handling
<1>1. SUFFICES ASSUME Proper', NEW j \in imports' PROVE (Ended(j) \/ OnTheWay(j))'
  BY DEF AllOnTheWay
<1>2. Proper
  BY <1>1, ProperBefore
<1>3. j \in Subjects(tasks', PhaseTask) => OnTheWay(j)'
  BY DEF OnTheWay, PhaseTask, CompilerTask
<1>4. ASSUME NEW u \in Threads, Owns(u), cur[u].import = j PROVE Ended(j) \/ OnTheWay(j)'
  BY <1>0, <1>3, <1>4 DEF OnTheWay
<1>5. OnTheWay(j) => Ended(j) \/ OnTheWay(j)'
  BY <1>3, <1>4 DEF OnTheWay
<1>6. Ended(j) => Ended(j)'
  BY <1>0 DEF Ended, ImportPhases, TASK_LEX
<1> QED
  BY <1>1, <1>2, <1>3, <1>5, <1>6 DEF AllOnTheWay

\* What a step adds to the queue takes no import out of it.
LEMMA SubjectsGrow ==
    ASSUME NEW s, NEW r, ToSet(s) \subseteq ToSet(r), NEW C
    PROVE  Subjects(s, C) \subseteq Subjects(r, C)
  BY DEF Subjects

\* The steps between two phases: the task moves from the queue to a thread and,
\* as the next phase, from the thread to the queue.
LEMMA WaySelect ==
    ASSUME TypeInv, ChainInv, AllOnTheWay, NEW t \in Threads, Select(t)
    PROVE  AllOnTheWay'
<1>0. /\ tasks \in Seq(CompilerTask) /\ pc \in [Threads -> Labels]
      /\ cur \in [Threads -> CompilerTask \cup {NoTask}] /\ processImports(t)
  BY DEF TypeInv, TypeOK, QueueTypes, LocalTypes, processImports, Enter
<1>1. SUFFICES ASSUME Proper' PROVE AllOnTheWay'
  BY DEF AllOnTheWay
<1>2. PICK k \in 0..Len(tasks) :
         SelectTask(t, k) \/ SelectFinished(t, k) \/ SelectStuck(t, k) \/ SelectNothing(t, k)
  BY DEF Select
<1>3. state' = state /\ imports' = imports /\ pc[t] = "select" /\ ~Owns(t)
  BY <1>2 DEF Select, SelectTask, SelectFinished, SelectStuck, SelectNothing, Discard, data, Owns,
              Holds, Handling
<1>4. CASE SelectTask(t, k)
  <2>1. /\ k \in 1..Len(tasks) /\ tasks' = RemoveAt(tasks, k)
        /\ pc'[t] = "work" /\ cur'[t] = tasks[k]
    BY <1>0, <1>4 DEF SelectTask, Found, TakeTask, Goto
  <2>2. ToSet(tasks) = ToSet(tasks') \cup {tasks[k]}
    BY <1>0, <2>1, RemoveApart
  <2>3. tasks[k] \in PhaseTask => Subject(tasks[k]) = tasks[k].import
    BY <2>2 DEF ChainInv, QueueInOrder, InOrder, Subject
  <2>4. tasks[k] \in PhaseTask => Owns(t)'
    BY <2>1 DEF Owns, Holds, Handling, PhaseTask, CompilerTask
  <2>5. \A j \in Subjects(tasks, PhaseTask) : OnTheWay(j)'
    <3> SUFFICES ASSUME NEW x \in ToSet(tasks) \cap PhaseTask PROVE OnTheWay(Subject(x))'
      BY DEF Subjects
    <3>1. CASE x \in ToSet(tasks')
      BY <3>1 DEF OnTheWay, Subjects, PhaseTask, CompilerTask
    <3>2. CASE x = tasks[k]
      <4>1. Owns(t)' /\ cur'[t].import = Subject(x)
        BY <2>1, <2>3, <2>4, <3>2
      <4> QED
        BY <4>1 DEF OnTheWay
    <3> QED
      BY <2>2, <3>1, <3>2
  <2>6. ASSUME NEW u \in Threads, Owns(u) PROVE Owns(u)' /\ cur'[u] = cur[u]
    BY <1>0, <1>3, <2>6, OthersUnchanged DEF TypeInv, TypeOK, Owns, Holds, Handling
  <2>7. \A j : OnTheWay(j) => OnTheWay(j)'
    BY <2>5, <2>6 DEF OnTheWay
  <2>8. \A j : Ended(j) => Ended(j)'
    BY <1>0, <1>3, OthersUnchanged DEF Ended, ImportPhases, TASK_LEX, TypeInv, TypeOK
  <2> QED
    BY <1>0, <1>1, <1>3, <2>7, <2>8, ProperBefore DEF AllOnTheWay
<1>5. CASE SelectFinished(t, k) \/ SelectStuck(t, k) \/ SelectNothing(t, k)
  <2>1. Discard(k)
    BY <1>5 DEF SelectFinished, SelectStuck, SelectNothing
  <2>2. ~CutShort(k)
    BY <1>1, <2>1 DEF Discard, Proper
  <2>3. tasks' = tasks
    BY <2>1, <2>2 DEF Discard
  <2> QED
    BY <1>0, <1>3, <2>3, WayKeeps
<1> QED
  BY <1>2, <1>4, <1>5

LEMMA WayRequeue ==
    ASSUME TypeInv, ChainInv, AllOnTheWay, NEW t \in Threads, Requeue(t), cur[t] \in PhaseTask
    PROVE  AllOnTheWay'
<1>0. /\ tasks \in Seq(CompilerTask) /\ pc[t] = "requeue" /\ processImports(t)
      /\ state' = state /\ imports' = imports /\ tasks' = <<cur[t]>> \o tasks
      /\ Owns(t) /\ cur[t] \in CompilerTask
  BY HoldsTask DEF TypeInv, TypeOK, QueueTypes, processImports, TypeCheck, Requeue, data,
                   Reinserted, Owns
<1> DEFINE s == <<cur[t]>>
<1>1. s \in Seq(CompilerTask) /\ ToSet(s) = {cur[t]} /\ tasks' = s \o tasks
  BY <1>0, ShortApart
<1> HIDE DEF s
<1>2. ToSet(tasks') = {cur[t]} \cup ToSet(tasks)
  BY <1>0, <1>1, ConcatApart
<1>3. Subject(cur[t]) = cur[t].import
  BY <1>0 DEF ChainInv, ThreadInOrder, Subject
<1>4. cur[t].import \in Subjects(tasks', PhaseTask)
  BY <1>2, <1>3 DEF Subjects
<1> QED
  BY <1>0, <1>2, <1>4, SubjectsGrow, WayKeeps

LEMMA WayAdd ==
    ASSUME TypeInv, ChainInv, AllOnTheWay, NEW t \in Threads, AddFollowUp(t)
    PROVE  AllOnTheWay'
<1> DEFINE x == Head(out[t])
<1>0. /\ tasks \in Seq(CompilerTask) /\ out[t] \in Seq(CompilerTask) /\ pc \in [Threads -> Labels]
      /\ pc[t] = "post" /\ Owns(t) /\ processImports(t) /\ FollowsUp(t) /\ out[t] # <<>>
      /\ state' = state /\ imports' = imports /\ cur' = cur /\ tasks' = Append(tasks, x)
  BY DEF TypeInv, TypeOK, QueueTypes, LocalTypes, LocalOK, AddFollowUp, Owns, ChainInv,
         ThreadInOrder, processImports, Exit, data
<1>1. x \in CompilerTask /\ x = out[t][1]
  BY <1>0, HeadTailProperties
<1>2. ToSet(tasks') = ToSet(tasks) \cup {x}
  <2> HIDE DEF x
  <2> QED
    BY <1>0, <1>1, AppendApart
<1>3. CASE Len(out[t]) = 1
  <2>1. x \in PhaseTask /\ x.import = cur[t].import /\ Subject(x) = x.import
    BY <1>0, <1>1, <1>3 DEF FollowsUp, InOrder, Subject
  <2>2. cur[t].import \in Subjects(tasks', PhaseTask)
    BY <1>2, <2>1 DEF Subjects
  <2> QED
    BY <1>0, <1>2, <2>2, SubjectsGrow, WayKeeps
<1>4. CASE Len(out[t]) # 1
  <2>1. Owns(t)'
    BY <1>0, <1>4 DEF AddFollowUp, Goto, Owns
  <2> QED
    BY <1>0, <1>2, <2>1, SubjectsGrow, WayKeeps
<1> QED
  BY <1>3, <1>4

\* An import that is found gets a task.
LEMMA WayFind ==
    ASSUME TypeInv, ChainInv, AllOnTheWay, NEW t \in Threads, FindImport(t)
    PROVE  AllOnTheWay'
<1>0. /\ tasks \in Seq(CompilerTask) /\ pc \in [Threads -> Labels] /\ processImports(t)
      /\ state' = state /\ cur' = cur /\ pc[t] = "work" /\ pc'[t] \in {"work", "link_preload", "link"}
      /\ todo[t] \subseteq Imports
  <2>1. pc[t] = "work" /\ cur[t].type = TASK_LEX
    BY DEF FindImport, Working
  <2>2. Handling(t)
    BY <2>1 DEF Handling
  <2>3. /\ tasks \in Seq(CompilerTask) /\ pc \in [Threads -> Labels] /\ todo[t] \subseteq Imports
    BY <2>1, <2>2 DEF TypeInv, TypeOK, QueueTypes, LocalTypes, LocalOK
  <2>4. state' = state /\ cur' = cur /\ pc'[t] \in {"work", "link_preload", "link"}
    BY <2>1, <2>3 DEF FindImport, data, Goto
  <2> QED
    BY <2>1, <2>3, <2>4 DEF processImports, Lex
<1>1. Owns(t)' <=> Owns(t)
  BY <1>0 DEF Owns, Holds, Handling, PhaseTask, CompilerTask
<1>2. PICK d \in todo[t] : \/ tasks' = tasks /\ imports' = imports
                           \/ /\ imports' = imports \cup {d}
                              /\ tasks' = Append(tasks, Task(TASK_LEX, d, NoFunction))
  BY DEF FindImport
<1>3. CASE tasks' = tasks /\ imports' = imports
  BY <1>0, <1>1, <1>3, WayKeeps
<1>4. CASE imports' = imports \cup {d} /\ tasks' = Append(tasks, Task(TASK_LEX, d, NoFunction))
  <2> DEFINE x == Task(TASK_LEX, d, NoFunction)
  <2>1. x \in CompilerTask /\ x \in PhaseTask /\ Subject(x) = d
    BY <1>0, PhasesAreTypes DEF Task, PhaseTask, CompilerTask, ImportPhases, Subject
  <2> HIDE DEF x
  <2>2. ToSet(tasks') = ToSet(tasks) \cup {x}
    <3>1. tasks' = Append(tasks, x)
      BY <1>4 DEF x
    <3> QED
      BY <1>0, <2>1, <3>1, AppendApart
  <2>3. d \in Subjects(tasks', PhaseTask)
    BY <2>1, <2>2 DEF Subjects
  <2> QED
    BY <1>0, <1>1, <1>4, <2>2, <2>3, SubjectsGrow, WayKeeps
<1> QED
  BY <1>2, <1>3, <1>4

\* The handlers of the phases drop an import only with an error, or when nothing
\* but preprocessing is asked for.
LEMMA WayPhases ==
    ASSUME TypeInv, ChainInv, AllOnTheWay, NEW t \in Threads,
           LexDone(t) \/ Preprocess(t) \/ TypeEnums(t) \/ TypeStructs(t) \/ TypeFunctions(t)
              \/ GenerateScope(t) \/ GenerateMachineCode(t)
    PROVE  AllOnTheWay'
<1>0. /\ pc \in [Threads -> Labels] /\ tasks \in Seq(CompilerTask) /\ errors \in Nat
      /\ prev_errors[t] \in Nat /\ NewErrors(t) \in Nat /\ processImports(t)
  BY DEF TypeInv, TypeOK, LocalTypes, QueueTypes, DataTypes, NewErrors, processImports, Lex,
         TypeCheck, Generate
<1>1. /\ pc[t] \in {"work", "check"} /\ cur[t].type \in ImportPhases
      /\ imports' = imports /\ cur' = cur
  BY DEF LexDone, Preprocess, TypeEnums, TypeStructs, TypeFunctions, GenerateScope,
         GenerateMachineCode, Working, queue, GenerateTypes, ImportPhases
<1>2. Holds(t) /\ cur[t] \in PhaseTask /\ Owns(t) /\ pc[t] # "post" /\ cur[t].import \in Imports
  BY <1>1, HoldsTask DEF PhaseTask, CompilerTask
<1>3. Subjects(tasks, PhaseTask) \subseteq Subjects(tasks', PhaseTask)
  <2>1. CASE tasks' = tasks
    BY <2>1
  <2>2. CASE TypeFunctions(t)
    <3> DEFINE exports == FunctionBodies(cur[t].import, job.exported \ used)
    <3>1. exports \in Seq(CompilerTask)
      <4>1. Declares(cur[t].import, job.exported \ used) \subseteq Functions
        BY JobFields DEF Declares, TypeInv, TypeOK
      <4> QED
        BY <1>2, <4>1, FunctionBodiesType
    <3>2. tasks' = tasks \o exports
      BY <2>2 DEF TypeFunctions
    <3> HIDE DEF exports
    <3>3. ToSet(tasks \o exports) = ToSet(tasks) \cup ToSet(exports)
      <4>1. tasks \in Seq(CompilerTask)
        BY <1>0
      <4> QED
        BY <3>1, <4>1, ConcatApart
    <3> QED
      BY <3>2, <3>3, SubjectsGrow
  <2> QED
    BY <2>1, <2>2 DEF LexDone, Preprocess, TypeEnums, TypeStructs, GenerateScope,
                      GenerateMachineCode, queue
<1>4. \A s, type : FollowUp(t, type) # <<>>
  BY DEF FollowUp
<1>5. BodyTasks(cur[t].import) \o FollowUp(t, TASK_GEN_BYTECODE) # <<>>
  <2> DEFINE b == BodyTasks(cur[t].import)
             f == FollowUp(t, TASK_GEN_BYTECODE)
  <2>1. b \in Seq(BodyTask)
    <3>1. Declares(cur[t].import, {job.entry}) \subseteq Functions
      BY JobFields DEF Declares, TypeInv, TypeOK
    <3>2. FunctionBodies(cur[t].import, {job.entry}) \in Seq(BodyTask)
      BY <1>2, <3>1, FunctionBodiesType
    <3>3. Task(TASK_TYPE_BODY, cur[t].import, NoFunction) \in BodyTask
      BY <1>2 DEF Task, BodyTask, CompilerTask, TaskTypes
    <3>4. <<Task(TASK_TYPE_BODY, cur[t].import, NoFunction)>> \in Seq(BodyTask)
      BY <3>3
    <3> QED
      BY <3>2, <3>4, ConcatProperties, EmptySeq DEF BodyTasks
  <2>2. f \in Seq(CompilerTask) /\ Len(f) = 1
    <3>1. cur[t] \in CompilerTask /\ TASK_GEN_BYTECODE \in TaskTypes
      BY <1>2, PhasesAreTypes DEF PhaseTask
    <3> QED
      BY <3>1, FollowUpType DEF FollowUp
  <2>3. b \in Seq(CompilerTask)
    BY <2>1, SeqMonotonic DEF BodyTask
  <2> HIDE DEF b, f
  <2>4. Len(b) \in Nat /\ Len(b \o f) = Len(b) + 1
    <3>1. f \in Seq(CompilerTask)
      BY <2>2
    <3>2. Len(b \o f) = Len(b) + Len(f) /\ Len(b) \in Nat
      BY <2>3, <3>1, ConcatProperties, LenProperties
    <3> QED
      BY <2>2, <3>2
  <2>5. b \o f # <<>>
    <3>1. Len(<<>>) = 0
      OBVIOUS
    <3> QED
      BY <2>4, <3>1
  <2> QED
    BY <2>5 DEF b, f
<1>6. \/ \E s : s # <<>> /\ Complete(t, s)
      \/ cur[t].type = TASK_GEN_MACHINE_CODE /\ Complete(t, <<>>)
      \/ ~Proper'
      \/ TypeStructs(t) /\ pc'[t] = "judge" /\ state' = state
      \/ Preprocess(t) /\ Drop(t) /\ Ended(cur[t].import)
  <2>1. CASE LexDone(t)
    BY <1>4, <2>1 DEF LexDone
  <2>2. CASE Preprocess(t)
    <3>1. TASK_LEX \in state[cur[t].import]
      <4>1. state[cur[t].import] = PhasesBefore(TASK_PREPROCESS_AND_PARSE)
        BY <1>2, <2>2 DEF Preprocess, Working, ChainInv, ThreadInOrder
      <4> QED
        BY <4>1, PhaseAfterPhase
    <3> QED
      BY <1>4, <2>2, <3>1 DEF Preprocess, Ended
  <2>3. CASE TypeEnums(t) \/ TypeFunctions(t) \/ GenerateScope(t)
    <3>1. HadErrors(t) => ~Proper'
      <4>1. errors' = errors + NewErrors(t)
        BY <2>3 DEF TypeEnums, TypeFunctions, GenerateScope
      <4> QED
        BY <1>0, <4>1 DEF HadErrors, Proper
    <3> QED
      BY <1>4, <1>5, <2>3, <3>1 DEF TypeEnums, TypeFunctions, GenerateScope
  <2>4. CASE TypeStructs(t)
    BY <1>0, <1>4, <2>4 DEF TypeStructs, Goto
  <2>5. CASE GenerateMachineCode(t)
    BY <2>5 DEF GenerateMachineCode, Working
  <2> QED
    BY <2>1, <2>2, <2>3, <2>4, <2>5
<1>7. CASE ~Proper'
  BY <1>7 DEF AllOnTheWay
<1>8. CASE TypeStructs(t) /\ pc'[t] = "judge" /\ state' = state
  <2>1. Owns(t)'
    BY <1>1, <1>2, <1>8 DEF Owns, Holds, Handling, PhaseTask, CompilerTask
  <2> QED
    BY <1>0, <1>1, <1>3, <1>8, <2>1, WayKeeps
<1>9. CASE Preprocess(t) /\ Drop(t) /\ Ended(cur[t].import)
  <2>1. state' = state
    BY <1>9 DEF Drop
  <2> QED
    BY <1>0, <1>1, <1>3, <1>9, <2>1, WayKeeps
<1> QED
  BY <1>0, <1>1, <1>2, <1>3, <1>6, <1>7, <1>8, <1>9, WayEnd

\* Every step keeps every import on its way.
LEMMA WayNext ==
    ASSUME TypeInv, ChainInv, JudgesStructs, AllOnTheWay, JudgedRightly,
           NEW t \in Threads, processImports(t)
    PROVE  AllOnTheWay'
<1>0. pc \in [Threads -> Labels] /\ tasks \in Seq(CompilerTask) /\ errors \in Nat
  BY DEF TypeInv, TypeOK, LocalTypes, QueueTypes, DataTypes
<1>1. CASE RegisterTotal(t) \/ RegisterWaiting(t) \/ Wait(t) \/ Finish(t) \/ Leave(t)
  <2>1. state' = state /\ tasks' = tasks /\ imports' = imports /\ ~Owns(t)
    BY <1>1 DEF RegisterTotal, RegisterWaiting, Wait, Finish, Leave, data, queue, Owns, Holds, Handling
  <2> QED
    BY <2>1, WayKeeps
<1>2. CASE LinkPreload(t) \/ LinkImport(t) \/ Snapshot(t) \/ JudgeRequeue(t) \/ QuickCheck(t)
           \/ RunOnce(t)
  <2>1. /\ state' = state /\ tasks' = tasks /\ imports' = imports /\ cur' = cur
        /\ pc[t] \in {"work", "link_preload", "link", "judge", "once"}
        /\ pc'[t] \in {"work", "link", "check", "requeue", "once"}
    BY <1>0, <1>2 DEF LinkPreload, LinkImport, Snapshot, JudgeRequeue, QuickCheck, RunOnce, Advance,
                      data, queue, local, Goto
  <2>2. Owns(t) => Owns(t)'
    BY <2>1 DEF Owns, Holds, Handling, PhaseTask, CompilerTask
  <2> QED
    BY <2>1, <2>2, WayKeeps
<1>3. CASE LexUnreadable(t) \/ JudgeGiveUp(t)
  <2>1. errors' > 0
    <3>1. CASE LexUnreadable(t)
      BY <1>0, <3>1 DEF LexUnreadable
    <3>2. CASE JudgeGiveUp(t)
      <4> DEFINE i == cur[t].import
      <4>1. stall > 0 /\ pc[t] = "judge"
        <5>1. Len(tasks) \in Nat /\ stall \in Nat /\ stall > 2 * Len(tasks)
          BY <1>0, <3>2, LenProperties DEF JudgeGiveUp, NoMoreProgress, TypeInv, TypeOK, DataTypes
        <5> QED
          BY <3>2, <5>1 DEF JudgeGiveUp
      <4>2. Incomplete(i, complete) /\ Sweep(i) = complete
        BY <4>1 DEF JudgedRightly
      <4>3. complete' = complete
        BY <3>2, <4>2 DEF JudgeGiveUp
      <4>4. Incomplete(i, complete')
        BY <4>2, <4>3
      <4>5. errors' = errors + 1
        BY <3>2, <4>4 DEF JudgeGiveUp
      <4> QED
        BY <1>0, <4>5
    <3> QED
      BY <1>3, <3>1, <3>2
  <2> QED
    BY <2>1 DEF AllOnTheWay, Proper
<1>4. CASE Call(t) \/ DeclareUsage(t) \/ BodyDone(t)
  <2>1. /\ state' = state /\ imports' = imports
        /\ pc[t] \in {"work", "declare"} /\ cur[t].type = TASK_TYPE_BODY
    BY <1>4 DEF Call, DeclareUsage, BodyDone, Working, data, queue, TypeInv, LocalOK
  <2>2. ~Owns(t) /\ Handling(t)
    BY <2>1, HoldsTask, PhaseOrBody DEF Owns, Holds
  <2>3. Subjects(tasks, PhaseTask) \subseteq Subjects(tasks', PhaseTask)
    <3>1. CASE tasks' = tasks
      BY <3>1
    <3>2. ASSUME NEW f \in todo[t], tasks' = Append(tasks, Task(TASK_TYPE_BODY, job.home[f], f))
          PROVE  Subjects(tasks, PhaseTask) \subseteq Subjects(tasks', PhaseTask)
      <4> DEFINE x == Task(TASK_TYPE_BODY, job.home[f], f)
      <4>1. x \in CompilerTask
        <5>1. f \in Functions /\ job.home[f] \in Imports
          BY <2>1, <2>2, JobFields DEF TypeInv, TypeOK, LocalOK
        <5> QED
          BY <5>1, PhasesAreTypes DEF Task, CompilerTask
      <4>2. tasks' = Append(tasks, x)
        BY <3>2
      <4> HIDE DEF x
      <4> QED
        BY <1>0, <4>1, <4>2, AppendApart, SubjectsGrow
    <3> QED
      BY <1>4, <3>1, <3>2 DEF Call, DeclareUsage, BodyDone, queue
  <2> QED
    BY <2>1, <2>2, <2>3, WayKeeps
<1>5. CASE Requeue(t)
  <2>1. cur[t] \in PhaseTask
    <3>1. pc[t] = "requeue" /\ cur[t].type \in ImportPhases
      BY <1>5 DEF Requeue, JudgesStructs, ImportPhases
    <3> QED
      BY <3>1, HoldsTask
  <2> QED
    BY <1>5, <2>1, WayRequeue
<1> QED
  BY <1>1, <1>2, <1>3, <1>4, <1>5, WaySelect, WayAdd, WayFind, WayPhases
     DEF processImports, Enter, Lex, TypeCheck, Generate, Exit

\* With one thread nobody else moves the counter or completes a struct between
\* a sweep and the verdict on it.
LEMMA JudgedStep ==
    ASSUME \A t, u \in Threads : t = u, TypeInv, JudgedRightly, NEW t \in Threads, processImports(t)
    PROVE  JudgedRightly'
<1>0. job' = job /\ stall \in Nat
  BY OthersUnchanged DEF TypeInv, TypeOK, DataTypes
<1> SUFFICES ASSUME pc'[t] = "judge"
             PROVE  /\ Incomplete(cur[t].import, complete)'
                    /\ stall' > 0 => Sweep(cur[t].import)' = complete'
  BY DEF JudgedRightly
<1>1. TypeStructs(t) /\ cur' = cur
  BY JudgeSteps DEF TypeStructs, JudgeRequeue
<1> DEFINE i == cur[t].import
<1>2. complete' = Sweep(i) /\ stall' = SweepsSinceChange
  BY <1>1 DEF TypeStructs, AnotherSweep
<1>3. Incomplete(i, complete')
  <2>1. pc \in [Threads -> Labels]
    BY DEF TypeInv, TypeOK, LocalTypes
  <2> QED
    BY <1>1, <2>1 DEF TypeStructs, Complete, Goto
<1>4. stall' > 0 => complete' = complete
  BY <1>2 DEF SweepsSinceChange
<1>5. complete' = complete => Sweep(i)' = Sweep(i)
  BY <1>0, <1>1 DEF Sweep
<1> QED
  BY <1>0, <1>1, <1>2, <1>3, <1>4, <1>5 DEF Incomplete

\* With only_preprocess no task comes about beyond the preprocessor's.
LEMMA OnlyPreprocessesStep ==
    ASSUME \A t, u \in Threads : t = u, TypeInv, ChainInv, JudgesStructs, OnlyPreprocesses,
           NEW t \in Threads, processImports(t)
    PROVE  OnlyPreprocesses'
<1>0. /\ pc \in [Threads -> Labels] /\ tasks \in Seq(CompilerTask)
      /\ cur \in [Threads -> CompilerTask \cup {NoTask}]
      /\ out \in [Threads -> Seq(CompilerTask)] /\ job' = job
  BY OthersUnchanged DEF TypeInv, TypeOK, LocalTypes, QueueTypes
<1>1. SUFFICES ASSUME job.only_preprocess
               PROVE  /\ \A x \in InFlight' : x.type <= TASK_PREPROCESS_AND_PARSE
                      /\ Handling(t)' => cur'[t].type <= TASK_PREPROCESS_AND_PARSE
  BY <1>0 DEF OnlyPreprocesses
<1>2. /\ \A x \in ToSet(tasks) \cup ToSet(out[t]) \cup Held(t) : x.type <= TASK_PREPROCESS_AND_PARSE
      /\ Handling(t) => cur[t].type <= TASK_PREPROCESS_AND_PARSE
  BY <1>1, OneThread DEF OnlyPreprocesses
<1>3. SUFFICES /\ \A x \in ToSet(tasks') \cup ToSet(out'[t]) : x.type <= TASK_PREPROCESS_AND_PARSE
               /\ Handling(t)' => cur'[t].type <= TASK_PREPROCESS_AND_PARSE
  BY OneThread DEF Held, Holds
<1>4. CASE RegisterTotal(t) \/ RegisterWaiting(t) \/ Wait(t) \/ Finish(t) \/ Leave(t)
  <2>1. /\ tasks' = tasks /\ out' = out /\ pc'[t] \in {"register", "wait", "select", "done"}
    BY <1>0, <1>4 DEF RegisterTotal, RegisterWaiting, Wait, Finish, Leave, Goto, queue, local
  <2> QED
    BY <1>2, <2>1 DEF Handling
<1>5. CASE Select(t)
  <2>1. PICK k \in 0..Len(tasks) :
           SelectTask(t, k) \/ SelectFinished(t, k) \/ SelectStuck(t, k) \/ SelectNothing(t, k)
    BY <1>5 DEF Select
  <2>2. out' = out
    BY <2>1 DEF SelectTask, SelectFinished, SelectStuck, SelectNothing, local
  <2>3. CASE SelectTask(t, k)
    <3>1. k \in 1..Len(tasks) /\ tasks' = RemoveAt(tasks, k) /\ cur'[t] = tasks[k]
      BY <1>0, <2>3 DEF SelectTask, Found, TakeTask
    <3>2. ToSet(tasks) = ToSet(tasks') \cup {tasks[k]}
      BY <1>0, <3>1, RemoveApart
    <3> QED
      BY <1>2, <2>2, <3>1, <3>2
  <2>4. CASE SelectFinished(t, k) \/ SelectStuck(t, k) \/ SelectNothing(t, k)
    <3>1. Discard(k) /\ pc'[t] \in {"leave", "wait"}
      BY <1>0, <2>4 DEF SelectFinished, SelectStuck, SelectNothing, Goto
    <3>2. ToSet(tasks') \subseteq ToSet(tasks)
      BY <3>1, ShortApart DEF Discard
    <3> QED
      BY <1>2, <2>2, <3>1, <3>2 DEF Handling
  <2> QED
    BY <2>1, <2>3, <2>4
<1>6. CASE LexUnreadable(t) \/ LinkPreload(t) \/ LinkImport(t) \/ Preprocess(t)
  <2>1. /\ tasks' = tasks /\ out' = out /\ cur' = cur
        /\ pc[t] \in {"work", "link_preload", "link"}
    BY <1>1, <1>6 DEF LexUnreadable, LinkPreload, LinkImport, Preprocess, Drop, Working, queue, local
  <2>2. Handling(t)
    BY <2>1 DEF Handling
  <2> QED
    BY <1>2, <2>1, <2>2
<1>7. CASE FindImport(t)
  <2>1. pc[t] = "work" /\ cur[t].type = TASK_LEX /\ cur' = cur /\ out' = out
    BY <1>7 DEF FindImport, Working
  <2>2. Handling(t) /\ todo[t] \subseteq Imports
    BY <2>1 DEF Handling, TypeInv, LocalOK
  <2>3. PICK d \in todo[t] :
           tasks' = tasks \/ tasks' = Append(tasks, Task(TASK_LEX, d, NoFunction))
    BY <1>7 DEF FindImport
  <2> DEFINE x == Task(TASK_LEX, d, NoFunction)
  <2>4. x \in CompilerTask /\ x.type <= TASK_PREPROCESS_AND_PARSE
    BY <2>2, PhasesAreTypes DEF Task, CompilerTask, TASK_LEX, TASK_PREPROCESS_AND_PARSE
  <2>5. tasks' = tasks \/ tasks' = Append(tasks, x)
    BY <2>3
  <2> HIDE DEF x
  <2>6. ToSet(tasks') \subseteq ToSet(tasks) \cup {x}
    BY <1>0, <2>4, <2>5, AppendApart
  <2> QED
    BY <1>2, <2>1, <2>2, <2>4, <2>6
<1>8. CASE LexDone(t)
  <2>1. /\ pc[t] = "work" /\ tasks' = tasks /\ cur' = cur
        /\ out' = [out EXCEPT ![t] = FollowUp(t, TASK_PREPROCESS_AND_PARSE)]
    BY <1>8 DEF LexDone, Working, Complete, queue
  <2>2. Handling(t)
    BY <2>1 DEF Handling
  <2>3. ToSet(out'[t]) = {Task(TASK_PREPROCESS_AND_PARSE, cur[t].import, NoFunction)}
    BY <1>0, <2>1, ShortApart DEF FollowUp
  <2>4. \A x \in ToSet(out'[t]) : x.type <= TASK_PREPROCESS_AND_PARSE
    BY <2>3 DEF Task, TASK_PREPROCESS_AND_PARSE
  <2> QED
    BY <1>2, <2>1, <2>2, <2>4
<1>9. CASE AddFollowUp(t)
  <2> DEFINE x == Head(out[t])
  <2>1. /\ pc[t] = "post" /\ out[t] \in Seq(CompilerTask) /\ out[t] # <<>> /\ cur' = cur
        /\ tasks' = Append(tasks, x) /\ out'[t] = Tail(out[t])
    BY <1>0, <1>9 DEF AddFollowUp, TypeInv, LocalOK
  <2>2. Handling(t)
    BY <2>1 DEF Handling
  <2>3. x \in CompilerTask
    BY <2>1, HeadTailProperties
  <2>4. ToSet(out[t]) = ToSet(out'[t]) \cup {x}
    BY <2>1, TailApart
  <2> HIDE DEF x
  <2>5. ToSet(tasks') = ToSet(tasks) \cup {x}
    BY <1>0, <2>1, <2>3, AppendApart
  <2> QED
    BY <1>2, <2>1, <2>2, <2>4, <2>5
<1>10. ~TypeCheck(t) /\ ~Generate(t)
  <2>1. CASE TypeCheck(t)
    <3>1. Handling(t)
      BY <2>1 DEF TypeCheck, Snapshot, TypeEnums, TypeStructs, JudgeRequeue, JudgeGiveUp, Requeue,
                  TypeFunctions, Call, DeclareUsage, BodyDone, Working, Handling
    <3>2. cur[t].type \in {TASK_TYPE_ENUMS, TASK_TYPE_STRUCTS, TASK_TYPE_FUNCTIONS, TASK_TYPE_BODY}
      BY <2>1 DEF TypeCheck, Snapshot, TypeEnums, TypeStructs, JudgeRequeue, JudgeGiveUp, Requeue,
                  TypeFunctions, Call, DeclareUsage, BodyDone, Working, JudgesStructs, TypeInv,
                  LocalOK
    <3> QED
      BY <1>2, <3>1, <3>2 DEF TASK_TYPE_ENUMS, TASK_TYPE_STRUCTS, TASK_TYPE_FUNCTIONS,
                              TASK_TYPE_BODY, TASK_PREPROCESS_AND_PARSE
  <2>2. CASE Generate(t)
    <3>1. Handling(t)
      BY <2>2 DEF Generate, QuickCheck, RunOnce, GenerateScope, GenerateMachineCode, Working, Handling
    <3>2. cur[t].type \in GenerateTypes \cup {TASK_GEN_MACHINE_CODE}
      BY <2>2 DEF Generate, QuickCheck, RunOnce, GenerateScope, GenerateMachineCode, Working, TypeInv,
                  LocalOK
    <3> QED
      BY <1>2, <3>1, <3>2 DEF GenerateTypes, TASK_GEN_BYTECODE, TASK_GEN_BYTECODE_RUNDIR,
                              TASK_GEN_MACHINE_CODE, TASK_PREPROCESS_AND_PARSE
  <2> QED
    BY <2>1, <2>2
<1> QED
  BY <1>4, <1>5, <1>6, <1>7, <1>8, <1>9, <1>10 DEF processImports, Enter, Lex, Exit

\* Once the output is known to be up to date the only thread just leaves.
LEMMA NothingLeftStep ==
    ASSUME \A t, u \in Threads : t = u, TypeInv, NothingLeftToDo, NEW t \in Threads, processImports(t)
    PROVE  NothingLeftToDo'
<1>0. pc \in [Threads -> Labels]
  BY DEF TypeInv, TypeOK, LocalTypes
<1> SUFFICES ASSUME output_is_up_to_date' PROVE tasks' = <<>> /\ ~Handling(t)'
  BY DEF NothingLeftToDo
<1>1. CASE Select(t)
  <2>1. PICK k \in 0..Len(tasks) :
           SelectTask(t, k) \/ SelectFinished(t, k) \/ SelectStuck(t, k) \/ SelectNothing(t, k)
    BY <1>1 DEF Select
  <2>2. CASE SelectTask(t, k)
    <3>1. tasks = <<>> /\ k \in 1..Len(tasks)
      BY <2>2 DEF SelectTask, Found, NothingLeftToDo
    <3> QED
      BY <3>1
  <2>3. CASE SelectFinished(t, k) \/ SelectStuck(t, k) \/ SelectNothing(t, k)
    <3>1. Discard(k) /\ pc'[t] \in {"leave", "wait"}
      BY <1>0, <2>3 DEF SelectFinished, SelectStuck, SelectNothing, Goto
    <3>2. tasks' = <<>>
      BY <3>1 DEF Discard, NothingLeftToDo
    <3> QED
      BY <3>1, <3>2 DEF Handling
  <2> QED
    BY <2>1, <2>2, <2>3
<1>2. CASE RegisterTotal(t) \/ RegisterWaiting(t) \/ Wait(t) \/ Leave(t)
  <2>1. /\ tasks' = tasks /\ output_is_up_to_date' = output_is_up_to_date
        /\ pc'[t] \in {"register", "wait", "select", "done"}
    BY <1>0, <1>2 DEF RegisterTotal, RegisterWaiting, Wait, Leave, Goto, queue, verdict
  <2> QED
    BY <2>1 DEF NothingLeftToDo, Handling
<1>3. CASE ~ChangesBaton(t) \/ Finish(t)
  <2>1. Handling(t)
    BY <1>3, HandlingStep DEF Finish, Handling
  <2>2. output_is_up_to_date' = output_is_up_to_date
    <3>1. CASE Finish(t)
      BY <3>1 DEF Finish, verdict
    <3>2. CASE ~ChangesBaton(t)
      BY <3>2 DEF ChangesBaton, processImports, Enter, Exit, AddFollowUp, Lex, LexUnreadable,
                  FindImport, LinkPreload, LinkImport, LexDone, Preprocess, TypeCheck, Snapshot,
                  TypeEnums, TypeStructs, JudgeRequeue, JudgeGiveUp, Requeue, TypeFunctions, Call,
                  DeclareUsage, BodyDone, Generate, QuickCheck, RunOnce, GenerateScope,
                  GenerateMachineCode, verdict
    <3> QED
      BY <1>3, <3>1, <3>2
  <2> QED
    BY <2>1, <2>2 DEF NothingLeftToDo
<1> QED
  BY <1>1, <1>2, <1>3 DEF ChangesBaton

\* The loop starts with the files to lex that run() has queued.
LEMMA InitialTasks ==
    ASSUME Init
    PROVE  ToSet(tasks) = {Task(TASK_LEX, i, NoFunction) : i \in imports}
<1> DEFINE first == IF HasPreload THEN <<Task(TASK_LEX, job.preload, NoFunction)>> ELSE <<>>
           last == <<Task(TASK_LEX, job.main, NoFunction)>>
<1>1. tasks = first \o last /\ imports = Preload \cup {job.main}
  BY DEF Init
<1>2. job.main \in Imports /\ (HasPreload => job.preload \in Imports)
  BY JobsAssumption, JobFields DEF Init, HasPreload
<1>3. \A i \in Imports : Task(TASK_LEX, i, NoFunction) \in CompilerTask
  BY DEF Task, CompilerTask, TaskTypes, ImportPhases
<1>4. last \in Seq(CompilerTask) /\ ToSet(last) = {Task(TASK_LEX, job.main, NoFunction)}
  BY <1>2, <1>3, ShortApart
<1>5. first \in Seq(CompilerTask) /\ ToSet(first) = {Task(TASK_LEX, i, NoFunction) : i \in Preload}
  <2>1. CASE HasPreload
    BY <1>2, <1>3, <2>1, ShortApart DEF Preload
  <2>2. CASE ~HasPreload
    BY <2>2, ShortApart, EmptySeq DEF Preload
  <2> QED
    BY <2>1, <2>2
<1> HIDE DEF first, last
<1>6. ToSet(tasks) = ToSet(first) \cup ToSet(last)
  BY <1>1, <1>4, <1>5, ConcatApart
<1> QED
  BY <1>1, <1>4, <1>5, <1>6

\* The first imports are on their way from the start.
LEMMA BarrierInit ==
    ASSUME Init PROVE BarrierInv
<1>1. /\ imports \subseteq Imports
      /\ \A t \in Threads : pc[t] = "start" /\ out[t] = <<>>
      /\ ~output_is_up_to_date
  BY TypeInit DEF Init, TypeInv, TypeOK, QueueTypes
<1>2. \A i \in Imports : /\ Task(TASK_LEX, i, NoFunction) \in PhaseTask
                         /\ Subject(Task(TASK_LEX, i, NoFunction)) = i
                         /\ Task(TASK_LEX, i, NoFunction).type = TASK_LEX
  BY DEF Task, PhaseTask, CompilerTask, TaskTypes, ImportPhases, Subject
<1>3. AllOnTheWay
  <2> SUFFICES ASSUME NEW i \in imports PROVE i \in Subjects(tasks, PhaseTask)
    BY DEF AllOnTheWay, OnTheWay
  <2>1. i \in Imports /\ Task(TASK_LEX, i, NoFunction) \in ToSet(tasks)
    BY <1>1, InitialTasks
  <2> QED
    BY <1>2, <2>1 DEF Subjects
<1>4. \A x \in ToSet(tasks) : x.type = TASK_LEX
  BY <1>1, <1>2, InitialTasks
<1>5. OnlyPreprocesses
  <2>1. \A t \in Threads : ~Handling(t)
    BY <1>1 DEF Handling
  <2>2. \A t \in Threads : Held(t) = {} /\ ToSet(out[t]) = {}
    BY <1>1, <2>1, ShortApart DEF Held, Holds
  <2>3. InFlight = ToSet(tasks)
    BY <2>2 DEF InFlight
  <2> QED
    BY <1>4, <2>1, <2>3 DEF OnlyPreprocesses, TASK_LEX, TASK_PREPROCESS_AND_PARSE
<1>6. NothingLeftToDo /\ JudgedRightly
  BY <1>1 DEF NothingLeftToDo, JudgedRightly
<1> QED
  BY <1>3, <1>5, <1>6 DEF BarrierInv

\* With one thread an import leaves its way through the phases only when that
\* shows: in the count of errors, in the verdict or in the options.
THEOREM BarrierInvCorrect == (\A t, u \in Threads : t = u) => (Spec => []BarrierInv)
<1> SUFFICES ASSUME \A t, u \in Threads : t = u PROVE Spec => []BarrierInv
  OBVIOUS
<1>1. Init => BarrierInv
  BY BarrierInit
<1>2. TypeInv /\ ChainInv /\ JudgesStructs /\ BarrierInv /\ [Next]_vars => BarrierInv'
  <2> SUFFICES ASSUME TypeInv, ChainInv, JudgesStructs, BarrierInv, [Next]_vars PROVE BarrierInv'
    OBVIOUS
  <2>1. CASE UNCHANGED vars
    <3>1. \A t : /\ Held(t)' = Held(t) /\ (Owns(t)' <=> Owns(t))
                 /\ (Handling(t)' <=> Handling(t))
      BY <2>1 DEF vars, local, Held, Owns, Holds, Handling, PhaseTask, CompilerTask
    <3>2. InFlight' = InFlight /\ \A i : OnTheWay(i)' <=> OnTheWay(i)
      BY <2>1, <3>1 DEF vars, queue, local, InFlight, OnTheWay, PhaseTask, CompilerTask
    <3>3. AllOnTheWay'
      BY <2>1, <3>2 DEF vars, queue, data, verdict, BarrierInv, AllOnTheWay, Proper, Ended,
                              ImportPhases, TASK_LEX
    <3>4. OnlyPreprocesses' /\ NothingLeftToDo'
      BY <2>1, <3>1, <3>2 DEF vars, queue, verdict, local, BarrierInv, OnlyPreprocesses,
                              NothingLeftToDo
    <3>5. JudgedRightly'
      <4>1. \A i : Sweep(i)' = Sweep(i)
        BY <2>1 DEF vars, data, Sweep
      <4> QED
        BY <2>1, <4>1 DEF vars, data, local, BarrierInv, JudgedRightly, Incomplete
    <3> QED
      BY <3>3, <3>4, <3>5 DEF BarrierInv
  <2>2. ASSUME NEW t \in Threads, processImports(t) PROVE BarrierInv'
    BY <2>2, WayNext, OnlyPreprocessesStep, NothingLeftStep, JudgedStep DEF BarrierInv
  <2> QED
    BY <2>1, <2>2 DEF Next, AfterReturn
<1> QED
  BY <1>1, <1>2, TypeInvCorrect, ChainCorrect, PTL DEF Spec

\* With one thread the waves mean what they are for: when a task of a wave is
\* worked on every import has been through all the phases before that wave.
THEOREM PhaseBarrierCorrect == (\A t, u \in Threads : t = u) => (Spec => []PhaseBarrier)
<1> SUFFICES ASSUME \A t, u \in Threads : t = u PROVE Spec => []PhaseBarrier
  OBVIOUS
<1>1. Spec => []BarrierInv
  BY BarrierInvCorrect
<1>2. Spec => []WaveInv
  BY WaveInvCorrect
<1>3. TypeInv /\ ChainInv /\ BarrierInv /\ WaveInv => PhaseBarrier
  <2> SUFFICES ASSUME TypeInv, ChainInv, BarrierInv, WaveInv, NEW t \in Threads, Handling(t),
                      cur[t].type >= TASK_TYPE_FUNCTIONS, errors = 0, NEW i \in imports
               PROVE  PhasesBefore(cur[t].type) \subseteq state[i]
    BY DEF PhaseBarrier
  <2> DEFINE type == cur[t].type
  <2>0. cur[t] \in CompilerTask /\ type \in Nat /\ out[t] \in Seq(CompilerTask)
    BY TaskFields DEF TypeInv, LocalOK, TypeOK, LocalTypes
  <2>1. Proper /\ ~job.only_preprocess
    <3>1. ~job.only_preprocess
      BY <2>0 DEF BarrierInv, OnlyPreprocesses, TASK_PREPROCESS_AND_PARSE, TASK_TYPE_FUNCTIONS
    <3> QED
      BY <3>1 DEF BarrierInv, NothingLeftToDo, Proper
  <2>2. \A p \in ImportPhases : p >= type => PhasesBefore(type) \subseteq PhasesBefore(p)
    <3>1. ImportPhases \subseteq Nat
      BY PhaseOrder DEF TaskTypes
    <3> HIDE DEF type
    <3> SUFFICES ASSUME NEW p \in ImportPhases, p >= type, NEW q \in ImportPhases, q < type
                 PROVE  q < p
      BY DEF PhasesBefore
    <3>2. p \in Nat /\ q \in Nat /\ type \in Nat
      BY <2>0, <3>1 DEF type
    <3> QED
      BY <3>2
  <2>3. CASE state[i] = ImportPhases
    BY <2>3 DEF PhasesBefore
  <2>4. CASE i \in Subjects(tasks, PhaseTask)
    <3>1. PICK x \in ToSet(tasks) \cap PhaseTask : Subject(x) = i
      BY <2>4 DEF Subjects
    <3>2. InOrder(x) /\ x.import = i
      BY <3>1 DEF ChainInv, QueueInOrder, InOrder, Subject
    <3>3. x.type >= type
      <4>1. tasks \in Seq(Later(type))
        BY DEF WaveInv
      <4>2. \A k \in DOMAIN tasks : tasks[k] \in Later(type)
        BY <4>1, ElementOfSeq, LenProperties
      <4> QED
        BY <3>1, <4>2 DEF ToSet, Later
    <3> QED
      BY <2>2, <3>1, <3>2, <3>3 DEF InOrder, PhaseTask
  <2>5. CASE Owns(t) /\ cur[t].import = i /\ pc[t] # "post"
    BY <2>5 DEF ChainInv, ThreadInOrder
  <2>6. CASE pc[t] = "post" /\ cur[t].import = i
    <3> DEFINE x == out[t][Len(out[t])]
    <3>1. FollowsUp(t) /\ out[t] # <<>> /\ out[t] \in Seq(Later(type))
      BY <2>6 DEF ChainInv, ThreadInOrder, TypeInv, LocalOK, WaveInv
    <3>2. x \in PhaseTask /\ x.import = i /\ state[i] = PhasesBefore(x.type)
      BY <2>6, <3>1 DEF FollowsUp, InOrder
    <3>3. x \in Later(type)
      <4>1. Len(out[t]) \in 1..Len(out[t])
        BY <2>0, <3>1, EmptySeq, LenProperties
      <4> QED
        BY <3>1, <4>1, ElementOfSeq
    <3> QED
      BY <2>2, <3>2, <3>3 DEF PhaseTask, Later
  <2> QED
    BY <2>1, <2>3, <2>4, <2>5, <2>6 DEF BarrierInv, AllOnTheWay, Ended, OnTheWay, Owns
<1> QED
  BY <1>1, <1>2, <1>3, TypeInvCorrect, ChainCorrect, PTL
=============================================================================
