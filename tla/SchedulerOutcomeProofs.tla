--------------------------- MODULE SchedulerOutcomeProofs --------------------
(***************************************************************************)
(* What comes of a compilation: with one thread the task loop implements   *)
(* the pipeline, files are preprocessed after what they depend on, one of  *)
(* the tasks can always be picked, nothing is dropped and a struct is given*)
(* up only when no sweep could complete it.                                *)
(***************************************************************************)
EXTENDS SchedulerProofs, WellFoundedInduction

-----------------------------------------------------------------------------
(* The task loop implements the pipeline.                                   *)

\* The number of phases an import has been through tells which ones they are.
LEMMA StageOfPhases ==
    /\ IsFiniteSet(ImportPhases)
    /\ \A S, T : T \in SUBSET ImportPhases /\ S \subseteq T =>
          /\ Cardinality(S) \in Nat /\ Cardinality(T) \in Nat
          /\ Cardinality(S) <= Cardinality(T)
          /\ Cardinality(S) = Cardinality(T) => S = T
    /\ \A S \in SUBSET ImportPhases : \A p \in ImportPhases \ S :
          Cardinality(S \cup {p}) = Cardinality(S) + 1
    /\ \A p \in ImportPhases : Cardinality(PhasesBefore(p)) >= 4 => p >= TASK_TYPE_FUNCTIONS
<1>1. IsFiniteSet(ImportPhases)
  <2>1. /\ IsFiniteSet({TASK_LEX}) /\ IsFiniteSet({TASK_PREPROCESS_AND_PARSE})
        /\ IsFiniteSet({TASK_TYPE_ENUMS}) /\ IsFiniteSet({TASK_TYPE_STRUCTS})
        /\ IsFiniteSet({TASK_TYPE_FUNCTIONS}) /\ IsFiniteSet({TASK_GEN_BYTECODE})
        /\ IsFiniteSet({TASK_GEN_BYTECODE_RUNDIR}) /\ IsFiniteSet({TASK_GEN_MACHINE_CODE})
    BY FS_Singleton
  <2>2. ImportPhases = {TASK_LEX} \cup {TASK_PREPROCESS_AND_PARSE} \cup {TASK_TYPE_ENUMS}
           \cup {TASK_TYPE_STRUCTS} \cup {TASK_TYPE_FUNCTIONS} \cup {TASK_GEN_BYTECODE}
           \cup {TASK_GEN_BYTECODE_RUNDIR} \cup {TASK_GEN_MACHINE_CODE}
    BY DEF ImportPhases
  <2>3. \A S, T : IsFiniteSet(S) /\ IsFiniteSet(T) => IsFiniteSet(S \cup T)
    BY FS_Union
  <2> QED
    BY <2>1, <2>2, <2>3
<1>2. ASSUME NEW T \in SUBSET ImportPhases, NEW S, S \subseteq T
      PROVE  /\ Cardinality(S) \in Nat /\ Cardinality(T) \in Nat
             /\ Cardinality(S) <= Cardinality(T)
             /\ Cardinality(S) = Cardinality(T) => S = T
  <2>1. IsFiniteSet(T)
    BY <1>1, FS_Subset
  <2>2. IsFiniteSet(S) /\ Cardinality(S) <= Cardinality(T)
        /\ (Cardinality(S) = Cardinality(T) => S = T)
    BY <1>2, <2>1, FS_Subset
  <2> QED
    BY <2>1, <2>2, FS_CardinalityType
<1>3. ASSUME NEW S \in SUBSET ImportPhases, NEW p \in ImportPhases \ S
      PROVE  Cardinality(S \cup {p}) = Cardinality(S) + 1
  <2>1. IsFiniteSet(S)
    BY <1>1, FS_Subset
  <2> QED
    BY <2>1, FS_AddElement
<1>4. ASSUME NEW p \in ImportPhases, Cardinality(PhasesBefore(p)) >= 4
      PROVE  p >= TASK_TYPE_FUNCTIONS
  <2>1. Cardinality(PhasesBefore(TASK_LEX)) = 0
    BY PhaseAfterPhase, FS_EmptySet
  <2>2. Cardinality(PhasesBefore(TASK_PREPROCESS_AND_PARSE)) = 1
    BY <1>3, <2>1, PhaseAfterPhase DEF ImportPhases
  <2>3. Cardinality(PhasesBefore(TASK_TYPE_ENUMS)) = 2
    BY <1>3, <2>2, PhaseAfterPhase DEF ImportPhases
  <2>4. Cardinality(PhasesBefore(TASK_TYPE_STRUCTS)) = 3
    BY <1>3, <2>3, PhaseAfterPhase DEF ImportPhases
  <2> QED
    BY <1>4, <2>1, <2>2, <2>3, <2>4
       DEF ImportPhases, TASK_TYPE_FUNCTIONS, TASK_GEN_BYTECODE, TASK_GEN_BYTECODE_RUNDIR,
           TASK_GEN_MACHINE_CODE
<1> QED
  BY <1>1, <1>2, <1>3, <1>4

\* A queue of tasks, each for a whole import or a body, puts on their way the
\* imports that its tasks for phases are about.
LEMMA QueuedTasks ==
    ASSUME NEW s \in Seq(CompilerTask),
           \A x \in ToSet(s) \cap PhaseTask : x.function = NoFunction
    PROVE  \A i : (\E k \in DOMAIN s : ImportTask(s[k], i)) <=> i \in Subjects(s, PhaseTask)
<1>1. \A k \in DOMAIN s : s[k] \in CompilerTask /\ s[k] \in ToSet(s)
  BY ElementOfSeq, LenProperties DEF ToSet
<1>2. \A x \in CompilerTask : x.type # TASK_TYPE_BODY <=> x \in PhaseTask
  BY PhaseOrBody DEF BodyTask
<1> QED
  BY <1>1, <1>2 DEF ImportTask, Subjects, Subject, ToSet

\* What is on its way in a loop with one thread.
LEMMA WayOfOne ==
    ASSUME \A t, u \in Threads : t = u, TypeInv, ChainInv, NEW t \in Threads
    PROVE  \A i : OnItsWay(i) <=> \/ pc[t] \notin {"leave", "done"} /\ i \in Subjects(tasks, PhaseTask)
                                  \/ Handling(t) /\ ImportTask(cur[t], i)
<1>1. tasks \in Seq(CompilerTask) /\ \A x \in ToSet(tasks) \cap PhaseTask : x.function = NoFunction
  BY DEF TypeInv, TypeOK, QueueTypes, ChainInv, QueueInOrder, InOrder
<1>2. \A i : (\E k \in DOMAIN tasks : ImportTask(tasks[k], i)) <=> i \in Subjects(tasks, PhaseTask)
  BY <1>1, QueuedTasks
<1>3. Running <=> pc[t] \notin {"leave", "done"}
  BY DEF Running
<1> QED
  BY <1>2, <1>3 DEF OnItsWay

\* And the same of the next state.
LEMMA WayOfOneNext ==
    ASSUME \A t, u \in Threads : t = u, TypeInv', ChainInv', NEW t \in Threads
    PROVE  \A i : OnItsWay(i)' <=> \/ pc'[t] \notin {"leave", "done"} /\ i \in Subjects(tasks', PhaseTask)
                                   \/ Handling(t)' /\ ImportTask(cur'[t], i)
<1>1. tasks' \in Seq(CompilerTask) /\ \A x \in ToSet(tasks') \cap PhaseTask : x.function = NoFunction
  BY DEF TypeInv, TypeOK, QueueTypes, ChainInv, QueueInOrder, InOrder, PhaseTask, CompilerTask
<1>2. \A i : (\E k \in DOMAIN tasks' : ImportTask(tasks'[k], i)) <=> i \in Subjects(tasks', PhaseTask)
  BY <1>1, QueuedTasks
<1>3. Running' <=> pc'[t] \notin {"leave", "done"}
  BY DEF Running
<1> QED
  BY <1>2, <1>3 DEF OnItsWay, ImportTask

\* A step that finds nothing and ends no phase gives imports up, or is none.
LEMMA PipeQuiet ==
    ASSUME \A t, u \in Threads : t = u, TypeInv, ChainInv, TypeInv', ChainInv',
           NEW t \in Threads, imports' = imports, state' = state,
           pc[t] \in {"leave", "done"} => pc'[t] \in {"leave", "done"},
           \A i \in Subjects(tasks', PhaseTask) :
              i \in Subjects(tasks, PhaseTask) \/ (Handling(t) /\ ImportTask(cur[t], i)),
           Handling(t)' => \/ Handling(t) /\ cur' = cur
                           \/ pc[t] = "select" /\ \E k \in DOMAIN tasks : cur'[t] = tasks[k]
    PROVE  [Pipe!Next]_<<imports, Stage, GivenUp>>
<1>1. ASSUME NEW i, OnItsWay(i)' PROVE OnItsWay(i)
  <2>1. CASE pc'[t] \notin {"leave", "done"} /\ i \in Subjects(tasks', PhaseTask)
    BY <2>1, WayOfOne
  <2>2. CASE Handling(t)' /\ ImportTask(cur'[t], i)
    <3>1. CASE Handling(t) /\ cur' = cur
      BY <2>2, <3>1, WayOfOne
    <3>2. ASSUME pc[t] = "select", NEW k \in DOMAIN tasks, cur'[t] = tasks[k] PROVE OnItsWay(i)
      BY <2>2, <3>2 DEF OnItsWay, Running
    <3> QED
      BY <2>2, <3>1, <3>2
  <2> QED
    BY <1>1, <2>1, <2>2, WayOfOneNext
<1>2. GivenUp \subseteq GivenUp'
  BY <1>1 DEF GivenUp, ImportPhases
<1>3. Stage' = Stage
  BY DEF Stage
<1> DEFINE S == GivenUp' \ GivenUp
<1>4. S \subseteq Pipe!Alive /\ S \subseteq Imports
  <2> SUFFICES ASSUME NEW i \in S PROVE i \in Pipe!Alive /\ i \in Imports
    OBVIOUS
  <2>1. i \in imports /\ i \in Imports /\ i \notin GivenUp /\ state[i] # ImportPhases
    BY DEF GivenUp, ImportPhases, TypeInv, TypeOK, QueueTypes
  <2>2. state[i] \subseteq ImportPhases
    BY <2>1 DEF ChainInv, StatesInOrder, FirstPhases, PhasesBefore
  <2>3. Stage[i] < Cardinality(ImportPhases)
    BY <2>1, <2>2, StageOfPhases DEF Stage
  <2> QED
    BY <2>1, <2>3 DEF Pipe!Alive
<1>5. CASE S = {}
  BY <1>2, <1>3, <1>5
<1>6. CASE S # {}
  <2>1. GivenUp' = GivenUp \cup S
    BY <1>2
  <2>2. Pipe!GiveUp(S)
    BY <1>3, <1>4, <1>6, <2>1 DEF Pipe!GiveUp
  <2> QED
    BY <1>4, <2>2 DEF Pipe!Next
<1> QED
  BY <1>5, <1>6

\* An import is found while another one is being lexed.
LEMMA PipeFind ==
    ASSUME \A t, u \in Threads : t = u, TypeInv, ChainInv, TypeInv', ChainInv',
           NEW t \in Threads, FindImport(t), imports' # imports
    PROVE  Pipe!Next
<1> DEFINE j == cur[t].import
<1>0. /\ tasks \in Seq(CompilerTask) /\ pc \in [Threads -> Labels] /\ imports \subseteq Imports
      /\ pc[t] = "work" /\ Handling(t) /\ cur[t].type = TASK_LEX /\ todo[t] \subseteq Imports
      /\ state' = state /\ cur' = cur /\ j \in Imports
      /\ pc'[t] \in {"work", "link_preload", "link"}
  <2>1. pc[t] = "work" /\ cur[t].type = TASK_LEX
    BY DEF FindImport, Working
  <2>2. Handling(t)
    BY <2>1 DEF Handling
  <2>3. /\ tasks \in Seq(CompilerTask) /\ pc \in [Threads -> Labels] /\ todo[t] \subseteq Imports
        /\ imports \subseteq Imports /\ j \in Imports
    BY <2>1, <2>2, TaskFields DEF TypeInv, TypeOK, QueueTypes, LocalTypes, LocalOK
  <2>4. state' = state /\ cur' = cur /\ pc'[t] \in {"work", "link_preload", "link"}
    BY <2>1, <2>3 DEF FindImport, data, Goto
  <2> QED
    BY <2>1, <2>2, <2>3, <2>4
<1>1. PICK d \in todo[t] : /\ d \notin imports /\ imports' = imports \cup {d}
                           /\ tasks' = Append(tasks, Task(TASK_LEX, d, NoFunction))
  BY DEF FindImport
<1> DEFINE x == Task(TASK_LEX, d, NoFunction)
<1>2. x \in CompilerTask /\ x \in PhaseTask /\ Subject(x) = d
  BY <1>0, PhasesAreTypes DEF Task, PhaseTask, CompilerTask, ImportPhases, Subject
<1>3. ToSet(tasks') = ToSet(tasks) \cup {x}
  <2> HIDE DEF x
  <2>1. tasks' = Append(tasks, x)
    BY <1>1 DEF x
  <2> QED
    BY <1>0, <1>2, <2>1, AppendApart
<1> HIDE DEF x
<1>4. Subjects(tasks', PhaseTask) = Subjects(tasks, PhaseTask) \cup {d}
  BY <1>2, <1>3 DEF Subjects
<1>5. Handling(t)'
  BY <1>0 DEF Handling
<1>6. \A i : OnItsWay(i)' <=> OnItsWay(i) \/ i = d
  BY <1>0, <1>4, <1>5, WayOfOne, WayOfOneNext DEF ImportTask
<1>7. GivenUp' = GivenUp
  BY <1>0, <1>1, <1>6 DEF GivenUp, ImportPhases
<1>8. Stage' = Stage
  BY <1>0 DEF Stage
<1>9. j \in imports /\ j \notin GivenUp /\ state[j] = {}
  <2>1. Holds(t) /\ cur[t] \in PhaseTask
    BY <1>0, HoldsTask DEF ImportPhases
  <2>2. j \in imports /\ state[j] = PhasesBefore(TASK_LEX)
    BY <1>0, <2>1 DEF Owns, ChainInv, ThreadInOrder
  <2>3. OnItsWay(j)
    BY <1>0 DEF OnItsWay, ImportTask, TASK_LEX, TASK_TYPE_BODY
  <2> QED
    BY <2>2, <2>3, PhaseAfterPhase DEF GivenUp
<1>10. Stage[j] = 0 /\ 0 < Cardinality(ImportPhases)
  <2>1. Cardinality({}) = 0 /\ {} # ImportPhases
    BY FS_EmptySet DEF ImportPhases
  <2>2. Cardinality(ImportPhases) \in Nat /\ Cardinality(ImportPhases) # 0
    BY <2>1, StageOfPhases
  <2>3. Stage[j] = Cardinality(state[j])
    BY <1>0 DEF Stage
  <2> HIDE DEF j
  <2> QED
    BY <1>9, <2>1, <2>2, <2>3
<1>11. j \in Pipe!Alive
  BY <1>9, <1>10 DEF Pipe!Alive
<1> QED
  BY <1>0, <1>1, <1>7, <1>8, <1>10, <1>11 DEF Pipe!Next, Pipe!Find

\* A phase that is completed is an advance; in the waves no import is behind.
LEMMA PipeAdvance ==
    ASSUME \A t, u \in Threads : t = u, TypeInv, ChainInv, WaveInv, TypeInv', ChainInv',
           NEW t \in Threads, imports' = imports, cur' = cur, Owns(t), pc[t] # "post",
           Subjects(tasks', PhaseTask) = Subjects(tasks, PhaseTask),
           \E s : Complete(t, s)
    PROVE  Pipe!Next
<1> DEFINE i == cur[t].import
           type == cur[t].type
<1>0. /\ state \in [Imports -> SUBSET TaskTypes] /\ pc \in [Threads -> Labels]
      /\ Handling(t) /\ cur[t] \in PhaseTask /\ type \in ImportPhases /\ type \in Nat
      /\ i \in imports /\ i \in Imports
      /\ state[i] = PhasesBefore(type) /\ imports \subseteq Imports
  BY PhaseOrder DEF TypeInv, TypeOK, LocalTypes, DataTypes, QueueTypes, ChainInv, ThreadInOrder,
                    Owns, Holds, PhaseTask, CompilerTask, TaskTypes
<1>1. /\ state' = [state EXCEPT ![i] = @ \cup {type}]
      /\ pc'[t] \in {"finish", "post"} /\ pc[t] \notin {"leave", "done"}
  BY <1>0 DEF Complete, Goto, Handling
<1>2. Handling(t)' /\ \A j : OnItsWay(j)' <=> OnItsWay(j)
  <2>1. Handling(t)'
    BY <1>1 DEF Handling
  <2> QED
    BY <1>0, <1>1, <2>1, WayOfOne, WayOfOneNext
<1>3. OnItsWay(i)
  <2>1. type # TASK_TYPE_BODY
    BY <1>0, PhaseOrBody DEF BodyTask, PhaseTask
  <2> QED
    BY <1>0, <2>1 DEF OnItsWay, ImportTask
<1>4. GivenUp' = GivenUp
  <2>1. \A j \in imports \ {i} : state'[j] = state[j]
    BY <1>0, <1>1
  <2> QED
    BY <1>2, <1>3, <2>1 DEF GivenUp, ImportPhases
<1>5. /\ PhasesBefore(type) \in SUBSET ImportPhases /\ type \in ImportPhases \ PhasesBefore(type)
      /\ PhasesBefore(type) # ImportPhases
  BY <1>0, PhaseAfterPhase
<1>6. Stage' = [Stage EXCEPT ![i] = @ + 1]
  <2>1. Cardinality(state'[i]) = Cardinality(state[i]) + 1
    BY <1>0, <1>1, <1>5, StageOfPhases
  <2>2. \A j \in Imports \ {i} : state'[j] = state[j]
    BY <1>0, <1>1
  <2> QED
    BY <1>0, <2>1, <2>2 DEF Stage
<1>7. i \in Pipe!Alive
  <2>1. Stage[i] < Cardinality(ImportPhases)
    <3>1. /\ Cardinality(PhasesBefore(type)) \in Nat /\ Cardinality(ImportPhases) \in Nat
          /\ Cardinality(PhasesBefore(type)) <= Cardinality(ImportPhases)
          /\ Cardinality(PhasesBefore(type)) # Cardinality(ImportPhases)
      BY <1>5, StageOfPhases
    <3>2. Stage[i] = Cardinality(PhasesBefore(type))
      BY <1>0 DEF Stage
    <3> QED
      BY <3>1, <3>2
  <2>2. i \notin GivenUp
    BY <1>3 DEF GivenUp
  <2> QED
    BY <1>0, <2>1, <2>2 DEF Pipe!Alive
<1>8. Pipe!WaveReached(i)
  <2> SUFFICES ASSUME Stage[i] + 1 >= 5, NEW j \in imports \ GivenUp PROVE Stage[j] >= Stage[i]
    BY DEF Pipe!WaveReached
  <2>1. Cardinality(PhasesBefore(type)) >= 4
    <3>1. Stage[i] = Cardinality(PhasesBefore(type)) /\ Cardinality(PhasesBefore(type)) \in Nat
      BY <1>0, <1>5, StageOfPhases DEF Stage
    <3> QED
      BY <3>1
  <2>2. type >= TASK_TYPE_FUNCTIONS
    BY <1>0, <2>1, StageOfPhases
  <2>3. PhasesBefore(type) \subseteq state[j] /\ state[j] \in SUBSET ImportPhases
    <3>1. CASE state[j] = ImportPhases
      BY <1>5, <3>1
    <3>2. CASE i = j
      BY <1>0, <1>5, <3>2
    <3>3. CASE j \in Subjects(tasks, PhaseTask)
      <4>1. PICK x \in ToSet(tasks) \cap PhaseTask : Subject(x) = j
        BY <3>3 DEF Subjects
      <4>2. x.import = j /\ state[j] = PhasesBefore(x.type)
        BY <4>1 DEF ChainInv, QueueInOrder, InOrder, Subject
      <4>3. x.type >= type
        <5>1. tasks \in Seq(Later(type))
          BY <1>0, <2>2 DEF WaveInv
        <5>2. \A k \in DOMAIN tasks : tasks[k] \in Later(type)
          BY <5>1, ElementOfSeq, LenProperties
        <5> QED
          BY <4>1, <5>2 DEF ToSet, Later
      <4>4. \A p \in ImportPhases : p < type => p < x.type
        <5> SUFFICES ASSUME NEW p \in ImportPhases, p < type PROVE p < x.type
          OBVIOUS
        <5>1. p \in Nat /\ x.type \in Nat
          BY PhaseOrder DEF TaskTypes, PhaseTask
        <5> HIDE DEF type
        <5> QED
          BY <1>0, <4>3, <5>1
      <4> QED
        BY <4>2, <4>4 DEF PhasesBefore
    <3> QED
      BY <1>0, <3>1, <3>2, <3>3, WayOfOne DEF GivenUp, ImportTask
  <2> QED
    BY <1>0, <2>3, StageOfPhases DEF Stage
<1> QED
  BY <1>0, <1>4, <1>6, <1>7, <1>8 DEF Pipe!Next, Pipe!Advance

\* The handlers of the phases: advance, or keep the import for the end of the
\* handler, or drop it.
LEMMA PipePhases ==
    ASSUME \A t, u \in Threads : t = u, TypeInv, ChainInv, WaveInv, TypeInv', ChainInv',
           NEW t \in Threads,
           LexDone(t) \/ Preprocess(t) \/ TypeEnums(t) \/ TypeStructs(t) \/ TypeFunctions(t)
              \/ GenerateScope(t) \/ GenerateMachineCode(t)
    PROVE  [Pipe!Next]_<<imports, Stage, GivenUp>>
<1>0. pc \in [Threads -> Labels] /\ tasks \in Seq(CompilerTask)
  BY DEF TypeInv, TypeOK, LocalTypes, QueueTypes
<1>1. /\ pc[t] \in {"work", "check"} /\ cur[t].type \in ImportPhases
      /\ imports' = imports /\ cur' = cur
  BY DEF LexDone, Preprocess, TypeEnums, TypeStructs, TypeFunctions, GenerateScope,
         GenerateMachineCode, Working, queue, GenerateTypes, ImportPhases
<1>2. Holds(t) /\ cur[t] \in PhaseTask /\ Owns(t) /\ Handling(t) /\ cur[t].import \in Imports
  BY <1>1, HoldsTask DEF PhaseTask, CompilerTask, Holds
<1>3. Subjects(tasks', PhaseTask) = Subjects(tasks, PhaseTask)
  <2>1. CASE tasks' = tasks
    BY <2>1
  <2>2. CASE TypeFunctions(t)
    <3> DEFINE exports == FunctionBodies(cur[t].import, job.exported \ used)
    <3>1. exports \in Seq(BodyTask) /\ exports \in Seq(CompilerTask)
      <4>1. Declares(cur[t].import, job.exported \ used) \subseteq Functions
        BY JobFields DEF Declares, TypeInv, TypeOK
      <4> QED
        BY <1>2, <4>1, FunctionBodiesType
    <3>2. tasks' = tasks \o exports
      BY <2>2 DEF TypeFunctions
    <3> HIDE DEF exports
    <3>3. ToSet(tasks \o exports) = ToSet(tasks) \cup ToSet(exports)
      <4>1. exports \in Seq(CompilerTask)
        BY <3>1
      <4> QED
        BY <1>0, <4>1, ConcatApart
    <3>4. ToSet(tasks \o exports) \cap PhaseTask \subseteq ToSet(tasks)
      BY <1>0, <3>1, BodiesQueued
    <3> QED
      BY <3>2, <3>3, <3>4 DEF Subjects
  <2> QED
    BY <2>1, <2>2 DEF LexDone, Preprocess, TypeEnums, TypeStructs, GenerateScope,
                      GenerateMachineCode, queue
<1>4. (\E s : Complete(t, s)) \/ state' = state
  BY DEF LexDone, Preprocess, TypeEnums, TypeStructs, TypeFunctions, GenerateScope,
         GenerateMachineCode, Drop
<1>5. CASE \E s : Complete(t, s)
  BY <1>1, <1>2, <1>3, <1>5, PipeAdvance
<1>6. CASE state' = state
  BY <1>1, <1>2, <1>3, <1>6, PipeQuiet
<1> QED
  BY <1>4, <1>5, <1>6

\* Every step of the only thread is a step of the pipeline or none.
LEMMA PipeNext ==
    ASSUME \A t, u \in Threads : t = u, TypeInv, ChainInv, JudgesStructs, WaveInv,
           TypeInv', ChainInv', NEW t \in Threads, processImports(t)
    PROVE  [Pipe!Next]_<<imports, Stage, GivenUp>>
<1>0. /\ pc \in [Threads -> Labels] /\ tasks \in Seq(CompilerTask)
      /\ cur \in [Threads -> CompilerTask \cup {NoTask}]
  BY DEF TypeInv, TypeOK, LocalTypes, QueueTypes
<1>1. CASE RegisterTotal(t) \/ RegisterWaiting(t) \/ Wait(t) \/ Finish(t) \/ Leave(t)
  <2>1. /\ state' = state /\ tasks' = tasks /\ imports' = imports
        /\ pc'[t] \in {"register", "wait", "select", "done"}
        /\ pc[t] \in {"leave", "done"} => pc'[t] \in {"leave", "done"}
    BY <1>0, <1>1 DEF RegisterTotal, RegisterWaiting, Wait, Finish, Leave, data, queue, Goto
  <2>2. ~Handling(t)'
    BY <2>1 DEF Handling
  <2> QED
    BY <2>1, <2>2, PipeQuiet
<1>2. CASE Select(t)
  <2>1. PICK k \in 0..Len(tasks) :
           SelectTask(t, k) \/ SelectFinished(t, k) \/ SelectStuck(t, k) \/ SelectNothing(t, k)
    BY <1>2 DEF Select
  <2>2. state' = state /\ imports' = imports /\ pc[t] = "select"
    BY <1>2, <2>1 DEF Select, SelectTask, SelectFinished, SelectStuck, SelectNothing, Discard, data
  <2>3. ToSet(tasks') \subseteq ToSet(tasks)
    <3>1. CASE SelectTask(t, k)
      <4>1. k \in 1..Len(tasks) /\ tasks' = RemoveAt(tasks, k)
        BY <3>1 DEF SelectTask, Found
      <4> QED
        BY <1>0, <4>1, RemoveApart
    <3>2. CASE ~SelectTask(t, k)
      BY <2>1, <3>2, ShortApart DEF SelectFinished, SelectStuck, SelectNothing, Discard
    <3> QED
      BY <3>1, <3>2
  <2>4. Handling(t)' => \E l \in DOMAIN tasks : cur'[t] = tasks[l]
    <3>1. CASE SelectTask(t, k)
      <4>1. k \in DOMAIN tasks /\ cur'[t] = tasks[k]
        BY <1>0, <3>1, LenProperties DEF SelectTask, Found, TakeTask
      <4> QED
        BY <4>1
    <3>2. CASE ~SelectTask(t, k)
      BY <1>0, <2>1, <3>2 DEF SelectFinished, SelectStuck, SelectNothing, Goto, Handling
    <3> QED
      BY <3>1, <3>2
  <2> QED
    BY <2>2, <2>3, <2>4, SubjectsGrow, PipeQuiet
<1>3. CASE \/ LexUnreadable(t) \/ LinkPreload(t) \/ LinkImport(t) \/ Snapshot(t) \/ JudgeRequeue(t)
           \/ JudgeGiveUp(t) \/ DeclareUsage(t) \/ BodyDone(t) \/ QuickCheck(t) \/ RunOnce(t)
  <2>1. /\ state' = state /\ tasks' = tasks /\ imports' = imports /\ cur' = cur
        /\ pc[t] \in {"work", "link_preload", "link", "judge", "declare", "once"}
    BY <1>3 DEF LexUnreadable, LinkPreload, LinkImport, Snapshot, JudgeRequeue, JudgeGiveUp,
                DeclareUsage, BodyDone, QuickCheck, RunOnce, Working, data, queue, local
  <2>2. Handling(t)
    BY <2>1 DEF Handling
  <2> QED
    BY <2>1, <2>2, PipeQuiet
<1>4. CASE FindImport(t)
  <2>1. CASE imports' # imports
    BY <1>4, <2>1, PipeFind
  <2>2. CASE imports' = imports
    <3>1. tasks' = tasks /\ state' = state /\ cur' = cur /\ pc[t] = "work"
      BY <1>4, <2>2 DEF FindImport, Working, data
    <3>2. Handling(t)
      BY <3>1 DEF Handling
    <3> QED
      BY <2>2, <3>1, <3>2, PipeQuiet
  <2> QED
    BY <2>1, <2>2
<1>5. CASE Call(t)
  <2>1. /\ state' = state /\ imports' = imports /\ cur' = cur
        /\ pc[t] = "work" /\ cur[t].type = TASK_TYPE_BODY
    BY <1>5 DEF Call, Working, data
  <2>2. Handling(t) /\ todo[t] \subseteq Functions /\ job \in JobType
    BY <2>1 DEF Handling, TypeInv, TypeOK, LocalOK
  <2>3. PICK f \in todo[t] :
           tasks' = tasks \/ tasks' = Append(tasks, Task(TASK_TYPE_BODY, job.home[f], f))
    BY <1>5 DEF Call
  <2> DEFINE x == Task(TASK_TYPE_BODY, job.home[f], f)
  <2>4. x \in BodyTask
    BY <2>2, JobFields DEF Task, BodyTask, CompilerTask, TaskTypes
  <2>5. ToSet(tasks') \cap PhaseTask \subseteq ToSet(tasks)
    <3>1. tasks' = tasks \/ tasks' = Append(tasks, x)
      BY <2>3
    <3>2. <<>> \in Seq(BodyTask)
      BY EmptySeq
    <3> HIDE DEF x
    <3> QED
      BY <1>0, <2>4, <3>1, <3>2, BodiesQueued
  <2> QED
    BY <2>1, <2>2, <2>5, PipeQuiet DEF Subjects
<1>6. CASE Requeue(t)
  <2>1. /\ state' = state /\ imports' = imports /\ cur' = cur /\ tasks' = <<cur[t]>> \o tasks
        /\ pc[t] = "requeue" /\ cur[t].type \in ImportPhases
    BY <1>6 DEF Requeue, Reinserted, data, local, JudgesStructs, ImportPhases
  <2>2. Holds(t) /\ Handling(t) /\ cur[t] \in PhaseTask /\ cur[t] \in CompilerTask
    BY <2>1, HoldsTask DEF Holds
  <2>3. Subject(cur[t]) = cur[t].import /\ ImportTask(cur[t], cur[t].import)
    BY <2>1, <2>2, PhaseOrBody DEF ChainInv, ThreadInOrder, Owns, Subject, ImportTask, BodyTask
  <2> DEFINE s == <<cur[t]>>
  <2>4. s \in Seq(CompilerTask) /\ ToSet(s) = {cur[t]} /\ tasks' = s \o tasks
    BY <2>1, <2>2, ShortApart
  <2> HIDE DEF s
  <2>5. ToSet(tasks') = {cur[t]} \cup ToSet(tasks)
    BY <1>0, <2>4, ConcatApart
  <2>6. \A i \in Subjects(tasks', PhaseTask) :
           i \in Subjects(tasks, PhaseTask) \/ i = cur[t].import
    BY <2>3, <2>5 DEF Subjects
  <2> QED
    BY <2>1, <2>2, <2>3, <2>6, PipeQuiet
<1>7. CASE AddFollowUp(t)
  <2> DEFINE x == Head(out[t])
             n == Len(out[t])
  <2>1. /\ state' = state /\ imports' = imports /\ cur' = cur /\ tasks' = Append(tasks, x)
        /\ pc[t] = "post" /\ FollowsUp(t) /\ out[t] \in Seq(CompilerTask) /\ out[t] # <<>>
    BY <1>7 DEF AddFollowUp, data, TypeInv, TypeOK, LocalTypes, LocalOK, ChainInv, ThreadInOrder
  <2>2. Handling(t) /\ cur[t] \in PhaseTask
    BY <2>1 DEF Handling, Owns, ChainInv, ThreadInOrder
  <2>3. ImportTask(cur[t], cur[t].import)
    BY <2>2, PhaseOrBody DEF ImportTask, BodyTask, PhaseTask
  <2>4. x \in CompilerTask /\ x = out[t][1] /\ n \in Nat \ {0}
    BY <2>1, HeadTailProperties, EmptySeq, LenProperties
  <2>5. x \in BodyTask \/ (x \in PhaseTask /\ Subject(x) = cur[t].import)
    <3>1. CASE n = 1
      BY <2>1, <2>4, <3>1 DEF FollowsUp, InOrder, Subject
    <3>2. CASE n # 1
      <4>1. 1 \in 1..(n - 1)
        <5> HIDE DEF n, x
        <5> QED
          BY <2>4, <3>2
      <4> QED
        BY <2>1, <2>4, <4>1 DEF FollowsUp
    <3> QED
      BY <3>1, <3>2
  <2> HIDE DEF x
  <2>6. ToSet(tasks') = ToSet(tasks) \cup {x}
    BY <1>0, <2>1, <2>4, AppendApart
  <2>7. \A i \in Subjects(tasks', PhaseTask) :
           i \in Subjects(tasks, PhaseTask) \/ i = cur[t].import
    BY <2>5, <2>6, PhaseOrBody DEF Subjects
  <2> QED
    BY <2>1, <2>2, <2>3, <2>7, PipeQuiet
<1> QED
  BY <1>1, <1>2, <1>3, <1>4, <1>5, <1>6, <1>7, PipePhases
     DEF processImports, Enter, Lex, TypeCheck, Generate, Exit

\* The loop starts with the first imports, all on their way.
LEMMA PipeInit ==
    ASSUME Init, Threads # {} PROVE Pipe!Init
<1>1. PICK t \in Threads : TRUE
  OBVIOUS
<1>2. /\ pc[t] = "start" /\ \A u \in Threads : ~Handling(u)
      /\ imports # {} /\ state = [i \in Imports |-> {}]
  BY DEF Init, Handling
<1>3. imports \subseteq Imports /\ tasks \in Seq(CompilerTask)
  BY TypeInit DEF TypeInv, TypeOK, QueueTypes
<1>4. \A x \in ToSet(tasks) \cap PhaseTask : x.function = NoFunction
  BY ChainInit DEF ChainInv, QueueInOrder, InOrder
<1>5. \A i \in imports : i \in Subjects(tasks, PhaseTask)
  <2>1. \A i \in imports : Task(TASK_LEX, i, NoFunction) \in ToSet(tasks)
    BY InitialTasks
  <2>2. \A i \in imports : /\ Task(TASK_LEX, i, NoFunction) \in PhaseTask
                           /\ Subject(Task(TASK_LEX, i, NoFunction)) = i
    BY <1>3 DEF Task, PhaseTask, CompilerTask, TaskTypes, ImportPhases, Subject
  <2> QED
    BY <2>1, <2>2 DEF Subjects
<1>6. GivenUp = {}
  <2>1. \A i \in imports : OnItsWay(i)
    BY <1>1, <1>2, <1>3, <1>4, <1>5, QueuedTasks DEF OnItsWay, Running
  <2> QED
    BY <2>1 DEF GivenUp
<1>7. Stage = [i \in Imports |-> 0]
  BY <1>2, FS_EmptySet DEF Stage
<1> QED
  BY <1>2, <1>3, <1>6, <1>7 DEF Pipe!Init

\* With one thread the task loop implements the pipeline, for any program: files
\* are found while files are lexed, phases come in order, and from the signatures
\* on no file gets ahead of one that has not been given up.
THEOREM PipelineImplemented == (\E t : Threads = {t}) => (Spec => ImplementsPipeline)
<1> SUFFICES ASSUME \E t : Threads = {t} PROVE Spec => ImplementsPipeline
  OBVIOUS
<1>0. Threads # {} /\ \A t, u \in Threads : t = u
  OBVIOUS
<1>1. Init => Pipe!Init
  BY <1>0, PipeInit
<1>2. /\ TypeInv /\ ChainInv /\ JudgesStructs /\ WaveInv /\ TypeInv' /\ ChainInv' /\ [Next]_vars
      => [Pipe!Next]_<<imports, Stage, GivenUp>>
  <2> SUFFICES ASSUME TypeInv, ChainInv, JudgesStructs, WaveInv, TypeInv', ChainInv', [Next]_vars
               PROVE  [Pipe!Next]_<<imports, Stage, GivenUp>>
    OBVIOUS
  <2>1. CASE UNCHANGED vars
    <3>1. \A i : OnItsWay(i)' <=> OnItsWay(i)
      BY <2>1 DEF vars, queue, local, OnItsWay, Running, Handling, ImportTask
    <3> QED
      BY <2>1, <3>1 DEF vars, queue, data, Stage, GivenUp, ImportPhases
  <2>2. ASSUME NEW t \in Threads, processImports(t)
        PROVE  [Pipe!Next]_<<imports, Stage, GivenUp>>
    BY <1>0, <2>2, PipeNext
  <2> QED
    BY <2>1, <2>2 DEF Next, AfterReturn
<1>3. Spec => []WaveInv
  BY <1>0, WaveInvCorrect
<1>4. Spec => Pipe!Init /\ [][Pipe!Next]_<<imports, Stage, GivenUp>>
  BY <1>1, <1>2, <1>3, TypeInvCorrect, ChainCorrect, PTL DEF Spec
<1> QED
  BY <1>4 DEF ImplementsPipeline, Pipe!Spec, Pipe!vars

-----------------------------------------------------------------------------
(* What the pipeline promises, the task loop keeps.                         *)

PipeInv ==
    /\ Stage \in [Imports -> Nat] /\ imports \subseteq Imports
    /\ \A i \in Imports \ imports : Stage[i] = 0
    /\ Pipe!Together

\* While a file is lexed nobody is ahead of it.
LEMMA NobodyAheadOfLexing ==
    ASSUME PipeInv, NEW j \in Pipe!Alive, Stage[j] = 0
    PROVE  \A i \in imports \ GivenUp : Stage[i] < 5
BY DEF PipeInv, Pipe!Together, Pipe!Alive

\* A step of the pipeline keeps the files together.
LEMMA TogetherStep ==
    ASSUME PipeInv, [Pipe!Next]_<<imports, Stage, GivenUp>>
    PROVE  PipeInv'
<1>1. CASE UNCHANGED <<imports, Stage, GivenUp>>
  BY <1>1 DEF PipeInv, Pipe!Together
<1>2. ASSUME NEW i \in Imports, Pipe!Find(i) PROVE PipeInv'
  <2>1. \A j \in imports \ GivenUp : Stage[j] < 5
    BY <1>2, NobodyAheadOfLexing DEF Pipe!Find
  <2> QED
    BY <1>2, <2>1 DEF Pipe!Find, PipeInv, Pipe!Together
<1>3. ASSUME NEW i \in Imports, Pipe!Advance(i) PROVE PipeInv'
  <2>1. i \in imports \ GivenUp
    BY <1>3 DEF Pipe!Advance, Pipe!Alive
  <2>2. /\ Stage' = [Stage EXCEPT ![i] = @ + 1] /\ imports' = imports /\ GivenUp' = GivenUp
        /\ Stage[i] + 1 >= 5 => \A j \in imports \ GivenUp : Stage[j] >= Stage[i]
    BY <1>3 DEF Pipe!Advance, Pipe!WaveReached
  <2>3. Pipe!Together'
    BY <2>1, <2>2 DEF PipeInv, Pipe!Together
  <2> QED
    BY <2>1, <2>2, <2>3 DEF PipeInv
<1>4. ASSUME NEW S \in SUBSET Imports, Pipe!GiveUp(S) PROVE PipeInv'
  BY <1>4 DEF Pipe!GiveUp, PipeInv, Pipe!Together
<1> QED
  BY <1>1, <1>2, <1>3, <1>4 DEF Pipe!Next

LEMMA PipeInvCorrect == (\E t : Threads = {t}) => (Spec => []PipeInv)
<1> SUFFICES ASSUME \E t : Threads = {t} PROVE Spec => []PipeInv
  OBVIOUS
<1>1. Spec => Pipe!Init /\ [][Pipe!Next]_<<imports, Stage, GivenUp>>
  BY PipelineImplemented, PTL DEF ImplementsPipeline, Pipe!Spec, Pipe!vars
<1>2. Pipe!Init => PipeInv
  BY DEF Pipe!Init, PipeInv, Pipe!Together
<1>3. PipeInv /\ [Pipe!Next]_<<imports, Stage, GivenUp>> => PipeInv'
  BY TogetherStep
<1> QED
  BY <1>1, <1>2, <1>3, PTL

\* With one thread no file is ahead of another one that is still on its way by
\* more than the phase both are in, from the functions on.
THEOREM TogetherCorrect == (\E t : Threads = {t}) => (Spec => []Pipe!Together)
<1>1. PipeInv => Pipe!Together
  BY DEF PipeInv
<1> QED
  BY <1>1, PipeInvCorrect, PTL

\* With one thread no file is found once a file has entered the waves.
THEOREM FoundBeforeWavesCorrect == (\E t : Threads = {t}) => (Spec => Pipe!FoundBeforeWaves)
<1> SUFFICES ASSUME \E t : Threads = {t} PROVE Spec => Pipe!FoundBeforeWaves
  OBVIOUS
<1> DEFINE Early == imports' # imports => \A i \in Pipe!Alive : Stage[i] < 5
<1>1. PipeInv /\ [Pipe!Next]_<<imports, Stage, GivenUp>> => [Early]_<<imports, Stage, GivenUp>>
  <2> SUFFICES ASSUME PipeInv, Pipe!Next, imports' # imports
               PROVE  \A i \in Pipe!Alive : Stage[i] < 5
    OBVIOUS
  <2>1. PICK i \in Imports : Pipe!Find(i)
    BY DEF Pipe!Next, Pipe!Advance, Pipe!GiveUp
  <2> QED
    BY <2>1, NobodyAheadOfLexing DEF Pipe!Find, Pipe!Alive
<1>2. Spec => [][Pipe!Next]_<<imports, Stage, GivenUp>>
  BY PipelineImplemented, PTL DEF ImplementsPipeline, Pipe!Spec, Pipe!vars
<1>3. Spec => []PipeInv
  BY PipeInvCorrect
<1> QED
  BY <1>1, <1>2, <1>3, PTL DEF Pipe!FoundBeforeWaves, Pipe!vars

-----------------------------------------------------------------------------
(* What can be reached along the dependencies.                              *)

\* Every set of naturals that is not empty has a least element.
LEMMA LeastNatural ==
    ASSUME NEW T \in SUBSET Nat, T # {}
    PROVE  \E n \in T : \A m \in T : n <= m
<1> DEFINE Below == {ss \in Nat \X Nat : ss[1] < ss[2]}
<1>1. IsWellFoundedOn(Below, Nat)
  BY NatLessThanWellFounded DEF OpToRel
<1>2. \A x, y \in Nat : <<y, x>> \in Below <=> y < x
  OBVIOUS
<1> HIDE DEF Below
<1>3. PICK x \in T : \A y \in T : ~(<<y, x>> \in Below)
  BY <1>1, WFMin
<1>4. \A y \in T : ~(y < x)
  BY <1>2, <1>3
<1> QED
  BY <1>4

\* Induction, for a set of naturals.
LEMMA AllNaturals ==
    ASSUME NEW T \in SUBSET Nat, 0 \in T, \A n \in T : n + 1 \in T
    PROVE  T = Nat
<1> SUFFICES ASSUME Nat \ T # {} PROVE FALSE
  OBVIOUS
<1>1. PICK n \in Nat \ T : \A m \in Nat \ T : n <= m
  BY LeastNatural
<1>2. n # 0 /\ n - 1 \in Nat /\ n - 1 \in T
  BY <1>1
<1> QED
  BY <1>1, <1>2

\* What is reached from S in at most so many steps along the graph g, as a
\* function of the number of steps, up to `limit`.
IsReachedWithin(w, g, S, limit) ==
    w = [n \in 0..limit |->
           IF n = 0 THEN S ELSE w[n - 1] \cup UNION {g[i] : i \in w[n - 1]}]

\* There is such a function, whatever the limit.
LEMMA ReachedWithinExists ==
    ASSUME NEW g, NEW S, NEW limit \in Nat
    PROVE  \E w : IsReachedWithin(w, g, S, limit)
<1> DEFINE T == {m \in Nat : \E w : IsReachedWithin(w, g, S, m)}
<1>1. 0 \in T
  <2> DEFINE w == [n \in 0..0 |-> S]
  <2>1. IsReachedWithin(w, g, S, 0)
    BY DEF IsReachedWithin
  <2> QED
    BY <2>1
<1>2. \A m \in T : m + 1 \in T
  <2> SUFFICES ASSUME NEW m \in Nat, NEW v, IsReachedWithin(v, g, S, m)
               PROVE  \E w : IsReachedWithin(w, g, S, m + 1)
    OBVIOUS
  <2> DEFINE w == [n \in 0..(m + 1) |->
                     IF n = m + 1 THEN v[m] \cup UNION {g[i] : i \in v[m]} ELSE v[n]]
  <2>1. \A n \in 0..(m + 1) : w[n] = IF n = 0 THEN S
                                     ELSE w[n - 1] \cup UNION {g[i] : i \in w[n - 1]}
    <3> TAKE n \in 0..(m + 1)
    <3>0. \A l \in 0..m : v[l] = IF l = 0 THEN S
                                 ELSE v[l - 1] \cup UNION {g[i] : i \in v[l - 1]}
      BY DEF IsReachedWithin
    <3>1. CASE n = m + 1
      BY <3>1
    <3>2. CASE n # m + 1
      <4>1. n \in 0..m /\ w[n] = v[n] /\ (n # 0 => w[n - 1] = v[n - 1])
        BY <3>2
      <4> HIDE DEF w
      <4> QED
        BY <3>0, <4>1
    <3> QED
      BY <3>1, <3>2
  <2>2. w = [n \in 0..(m + 1) |-> w[n]]
    OBVIOUS
  <2> HIDE DEF w
  <2>3. IsReachedWithin(w, g, S, m + 1)
    BY <2>1, <2>2 DEF IsReachedWithin
  <2> QED
    BY <2>3
<1> HIDE DEF T
<1>3. T = Nat
  <2>1. T \in SUBSET Nat
    BY DEF T
  <2> QED
    BY <1>1, <1>2, <2>1, AllNaturals
<1> QED
  BY <1>3 DEF T

\* A set that is closed under the edges of a graph.
Closed(g, S) == \A i \in S : g[i] \subseteq S

\* Reach, for any graph: an action changes the dependencies.
ReachIn(g, S) ==
    LET within[n \in 0..Cardinality(Imports)] ==
            IF n = 0 THEN S
            ELSE LET nearer == within[n - 1]
                 IN  nearer \cup UNION {g[i] : i \in nearer}
    IN  within[Cardinality(Imports)]

\* The dependencies are one such graph, before a step and after it.
LEMMA ReachIsReachIn ==
    ASSUME NEW S PROVE Reach(S) = ReachIn(deps, S) /\ Reach(S)' = ReachIn(deps', S)
  BY DEF Reach, ReachIn

\* ReachIn is computed as it is written.
LEMMA ReachSteps ==
    ASSUME NEW g, NEW S
    PROVE  \E w : /\ IsReachedWithin(w, g, S, Cardinality(Imports))
                  /\ ReachIn(g, S) = w[Cardinality(Imports)]
<1> DEFINE N == Cardinality(Imports)
           w == CHOOSE v : IsReachedWithin(v, g, S, N)
<1>1. N \in Nat
  BY FiniteAssumption, FS_CardinalityType
<1>2. IsReachedWithin(w, g, S, N)
  BY <1>1, ReachedWithinExists
<1>3. ReachIn(g, S) = w[N]
  BY DEF ReachIn, IsReachedWithin
<1> QED
  BY <1>2, <1>3

\* ReachIn(g, S) holds what is in S and nothing a closed set around S does not hold.
LEMMA ReachLeast ==
    ASSUME NEW g \in [Imports -> SUBSET Imports], NEW S \in SUBSET Imports
    PROVE  /\ S \subseteq ReachIn(g, S)
           /\ \A T \in SUBSET Imports : S \subseteq T /\ Closed(g, T) => ReachIn(g, S) \subseteq T
<1> DEFINE N == Cardinality(Imports)
<1>1. N \in Nat
  BY FiniteAssumption, FS_CardinalityType
<1>2. PICK w : IsReachedWithin(w, g, S, N) /\ ReachIn(g, S) = w[N]
  BY ReachSteps
<1> HIDE DEF N
<1>3. \A n \in 0..N : w[n] = IF n = 0 THEN S
                             ELSE w[n - 1] \cup UNION {g[i] : i \in w[n - 1]}
  BY <1>2 DEF IsReachedWithin
<1>4. \A T : S \subseteq T /\ Closed(g, T) => \A n \in Nat : n <= N => S \subseteq w[n] /\ w[n] \subseteq T
  <2> SUFFICES ASSUME NEW T, S \subseteq T, Closed(g, T)
               PROVE  \A n \in Nat : n <= N => S \subseteq w[n] /\ w[n] \subseteq T
    OBVIOUS
  <2> DEFINE P == {n \in Nat : n <= N => S \subseteq w[n] /\ w[n] \subseteq T}
  <2>1. 0 \in P
    <3>1. 0 \in 0..N
      BY <1>1
    <3> QED
      BY <1>3, <3>1
  <2>2. \A n \in P : n + 1 \in P
    <3> TAKE n \in P
    <3>1. n \in Nat /\ (n <= N => S \subseteq w[n] /\ w[n] \subseteq T)
      OBVIOUS
    <3> HIDE DEF P
    <3>2. CASE n + 1 <= N
      <4>1. n + 1 \in 0..N /\ n + 1 # 0 /\ (n + 1) - 1 = n /\ n <= N
        BY <1>1, <3>1, <3>2
      <4>2. S \subseteq w[n] /\ w[n] \subseteq T
        BY <3>1, <4>1
      <4>3. w[n + 1] = w[n] \cup UNION {g[i] : i \in w[n]}
        BY <1>3, <4>1
      <4>4. UNION {g[i] : i \in w[n]} \subseteq T
        BY <4>2 DEF Closed
      <4> QED
        BY <3>1, <4>2, <4>3, <4>4 DEF P
    <3>3. CASE ~(n + 1 <= N)
      <4>1. n + 1 \in Nat
        BY <3>1
      <4> QED
        BY <3>3, <4>1 DEF P
    <3> QED
      BY <3>2, <3>3
  <2> HIDE DEF P
  <2>3. P = Nat
    <3>1. P \in SUBSET Nat
      BY DEF P
    <3> QED
      BY <2>1, <2>2, <3>1, AllNaturals
  <2> QED
    BY <2>3 DEF P
<1>5. Closed(g, Imports)
  BY DEF Closed
<1> QED
  BY <1>1, <1>2, <1>4, <1>5

\* It is closed: a set that is not grows by one import at least with every step,
\* and there are as many steps as imports.
LEMMA ReachClosed ==
    ASSUME NEW g \in [Imports -> SUBSET Imports], NEW S \in SUBSET Imports
    PROVE  ReachIn(g, S) \in SUBSET Imports /\ Closed(g, ReachIn(g, S))
<1> DEFINE N == Cardinality(Imports)
<1>1. N \in Nat /\ IsFiniteSet(Imports)
  BY FiniteAssumption, FS_CardinalityType
<1>2. PICK w : IsReachedWithin(w, g, S, N) /\ ReachIn(g, S) = w[N]
  BY ReachSteps
<1>3. \A n \in 0..N : w[n] = IF n = 0 THEN S
                             ELSE w[n - 1] \cup UNION {g[i] : i \in w[n - 1]}
  BY <1>2 DEF IsReachedWithin
<1> DEFINE P == {n \in Nat : n <= N => /\ w[n] \in SUBSET Imports
                                       /\ Closed(g, w[n]) \/ Cardinality(w[n]) >= n}
<1>4. 0 \in P
  <2>1. 0 \in 0..N
    BY <1>1
  <2>2. w[0] = S
    BY <1>3, <2>1
  <2>3. Cardinality(S) >= 0
    <3>1. Cardinality(S) \in Nat
      BY <1>1, FS_Subset, FS_CardinalityType
    <3> QED
      BY <3>1
  <2> QED
    BY <2>2, <2>3
<1>5. \A n \in P : n + 1 \in P
  <2> SUFFICES ASSUME NEW n \in P, n + 1 <= N
               PROVE  /\ w[n + 1] \in SUBSET Imports
                      /\ Closed(g, w[n + 1]) \/ Cardinality(w[n + 1]) >= n + 1
    OBVIOUS
  <2>1. n \in Nat /\ n + 1 \in 0..N /\ n + 1 # 0 /\ (n + 1) - 1 = n /\ n <= N
    <3> HIDE DEF N
    <3> QED
      BY <1>1
  <2>2. w[n] \in SUBSET Imports /\ (Closed(g, w[n]) \/ Cardinality(w[n]) >= n)
    BY <2>1
  <2>3. w[n + 1] = w[n] \cup UNION {g[i] : i \in w[n]}
    BY <1>3, <2>1
  <2>4. w[n + 1] \in SUBSET Imports
    BY <2>2, <2>3
  <2>5. CASE Closed(g, w[n])
    <3>1. w[n + 1] = w[n]
      BY <2>3, <2>5 DEF Closed
    <3> QED
      BY <2>4, <2>5, <3>1
  <2>6. CASE ~Closed(g, w[n])
    <3>1. w[n] \in SUBSET w[n + 1] /\ w[n] # w[n + 1]
      BY <2>3, <2>6 DEF Closed
    <3>2. IsFiniteSet(w[n + 1]) /\ IsFiniteSet(w[n])
      BY <1>1, <2>2, <2>4, FS_Subset
    <3> DEFINE c == Cardinality(w[n])
               d == Cardinality(w[n + 1])
    <3>3. c \in Nat /\ d \in Nat /\ c >= n
      BY <2>2, <2>6, <3>2, FS_CardinalityType
    <3>4. c <= d /\ c # d
      BY <3>1, <3>2, FS_Subset
    <3>5. d >= n + 1
      <4> HIDE DEF c, d
      <4> QED
        BY <2>1, <3>3, <3>4
    <3> QED
      BY <2>4, <3>5
  <2> QED
    BY <2>5, <2>6
<1> HIDE DEF P
<1>6. P = Nat
  <2>1. P \in SUBSET Nat
    BY DEF P
  <2> QED
    BY <1>4, <1>5, <2>1, AllNaturals
<1>7. w[N] \in SUBSET Imports /\ (Closed(g, w[N]) \/ Cardinality(w[N]) >= N)
  <2>1. N \in P /\ N <= N
    BY <1>1, <1>6
  <2> QED
    BY <2>1 DEF P
<1>8. CASE Cardinality(w[N]) >= N
  <2>1. Cardinality(w[N]) = N
    <3>1. Cardinality(w[N]) <= N /\ Cardinality(w[N]) \in Nat
      BY <1>1, <1>7, FS_Subset, FS_CardinalityType
    <3> DEFINE c == Cardinality(w[N])
    <3> HIDE DEF N, c
    <3>2. c = N
      BY <1>1, <1>8, <3>1 DEF c
    <3> QED
      BY <3>2 DEF c
  <2>2. w[N] = Imports
    BY <1>1, <1>7, <2>1, FS_Subset
  <2> QED
    BY <1>2, <2>2 DEF Closed
<1> QED
  BY <1>2, <1>7, <1>8

\* What this means for imports: those of S are reached, what they depend on as
\* well, from more one reaches more, and what is reached is reached from one of S.
LEMMA ReachFacts ==
    ASSUME NEW g \in [Imports -> SUBSET Imports], NEW S \in SUBSET Imports
    PROVE  /\ ReachIn(g, S) \in SUBSET Imports /\ S \subseteq ReachIn(g, S)
           /\ \A i \in ReachIn(g, S) : ReachIn(g, {i}) \subseteq ReachIn(g, S) /\ g[i] \subseteq ReachIn(g, S)
           /\ \A i \in ReachIn(g, S) : \E d \in S : i \in ReachIn(g, {d})
           /\ S = {} => ReachIn(g, S) = {}
           /\ \A T \in SUBSET Imports : S \subseteq T => ReachIn(g, S) \subseteq ReachIn(g, T)
<1>1. \A T \in SUBSET Imports : /\ ReachIn(g, T) \in SUBSET Imports /\ T \subseteq ReachIn(g, T)
                                /\ Closed(g, ReachIn(g, T))
  BY ReachLeast, ReachClosed
<1>2. \A T, U \in SUBSET Imports : T \subseteq U /\ Closed(g, U) => ReachIn(g, T) \subseteq U
  BY ReachLeast
<1>3. \A i \in ReachIn(g, S) : ReachIn(g, {i}) \subseteq ReachIn(g, S) /\ g[i] \subseteq ReachIn(g, S)
  <2> TAKE i \in ReachIn(g, S)
  <2>1. {i} \in SUBSET Imports /\ {i} \subseteq ReachIn(g, S)
    BY <1>1
  <2>2. g[i] \subseteq ReachIn(g, S)
    BY <1>1 DEF Closed
  <2> QED
    BY <1>1, <1>2, <2>1, <2>2
<1>4. \A i \in ReachIn(g, S) : \E d \in S : i \in ReachIn(g, {d})
  <2> DEFINE U == UNION {ReachIn(g, {d}) : d \in S}
  <2>1. \A d \in S : /\ ReachIn(g, {d}) \in SUBSET Imports /\ d \in ReachIn(g, {d})
                     /\ Closed(g, ReachIn(g, {d}))
    <3> TAKE d \in S
    <3>1. {d} \in SUBSET Imports
      OBVIOUS
    <3> QED
      BY <1>1, <3>1
  <2>2. U \in SUBSET Imports /\ S \subseteq U
    BY <2>1
  <2>3. Closed(g, U)
    BY <2>1 DEF Closed
  <2>4. ReachIn(g, S) \subseteq U
    BY <1>2, <2>2, <2>3
  <2> QED
    BY <2>4
<1>5. S = {} => ReachIn(g, S) = {}
  BY <1>4
<1>6. \A T \in SUBSET Imports : S \subseteq T => ReachIn(g, S) \subseteq ReachIn(g, T)
  BY <1>1, <1>2
<1> QED
  BY <1>1, <1>3, <1>4, <1>5, <1>6

\* From more dependencies one reaches more.
LEMMA ReachGrows ==
    ASSUME NEW g \in [Imports -> SUBSET Imports], NEW h \in [Imports -> SUBSET Imports],
           NEW S \in SUBSET Imports, \A i \in Imports : g[i] \subseteq h[i]
    PROVE  ReachIn(g, S) \subseteq ReachIn(h, S)
<1>1. ReachIn(h, S) \in SUBSET Imports /\ S \subseteq ReachIn(h, S) /\ Closed(h, ReachIn(h, S))
  BY ReachLeast, ReachClosed
<1>2. Closed(g, ReachIn(h, S))
  BY <1>1 DEF Closed
<1> QED
  BY <1>1, <1>2, ReachLeast

\* What is reached does not change when dependencies are added elsewhere.
LEMMA ReachElsewhere ==
    ASSUME NEW g \in [Imports -> SUBSET Imports], NEW h \in [Imports -> SUBSET Imports],
           NEW S \in SUBSET Imports, \A i \in ReachIn(g, S) : h[i] = g[i]
    PROVE  ReachIn(h, S) \subseteq ReachIn(g, S)
<1>1. ReachIn(g, S) \in SUBSET Imports /\ S \subseteq ReachIn(g, S) /\ Closed(g, ReachIn(g, S))
  BY ReachLeast, ReachClosed
<1>2. Closed(h, ReachIn(g, S))
  BY <1>1 DEF Closed
<1> QED
  BY <1>1, <1>2, ReachLeast

-----------------------------------------------------------------------------
(* The order in which files are preprocessed.                               *)

\* Everything an import may take a macro from has been lexed, and what does not
\* depend on the import in turn has been preprocessed.
LexedBefore(i) == Reached(TASK_LEX, Reach(deps[i]), state)
MacrosBefore(i) ==
    ~job.only_preprocess =>
        \A d \in deps[i] : i \in Reach({d}) \/ TASK_PREPROCESS_AND_PARSE \in state[d]
PreprocessedInOrder ==
    \A t \in Threads : Working(t, "work", TASK_PREPROCESS_AND_PARSE) =>
        LexedBefore(cur[t].import) /\ MacrosBefore(cur[t].import)

\* Every import is linked to the preload, or will be in the next step of the
\* thread that found it.
PreloadLinked ==
    \A i \in imports : \/ Preload \subseteq deps[i] \cup {i}
                       \/ \E t \in Threads : pc[t] = "link_preload" /\ target[t] = i

\* One thread, or no preload.
Orderly == (\A t, u \in Threads : t = u) \/ (\A j \in Jobs : j.preload = NoImport)

\* What has been preprocessed has been lexed.
LEMMA LexedOfPreprocessed ==
    ASSUME ChainInv, NEW i \in Imports, TASK_PREPROCESS_AND_PARSE \in state[i]
    PROVE  TASK_LEX \in state[i]
<1>1. \A p \in ImportPhases : TASK_PREPROCESS_AND_PARSE \in PhasesBefore(p) => TASK_LEX \in PhasesBefore(p)
  BY DEF PhasesBefore, ImportPhases, TASK_LEX, TASK_PREPROCESS_AND_PARSE, TASK_TYPE_ENUMS,
         TASK_TYPE_STRUCTS, TASK_TYPE_FUNCTIONS, TASK_GEN_BYTECODE, TASK_GEN_BYTECODE_RUNDIR,
         TASK_GEN_MACHINE_CODE
<1>2. TASK_LEX \in ImportPhases
  BY DEF ImportPhases
<1> QED
  BY <1>1, <1>2 DEF ChainInv, StatesInOrder, FirstPhases

\* What the scheduler looks at when it picks a preprocessing task.
LEMMA PickedInOrder ==
    ASSUME TypeInv, ChainInv, NEW i \in Imports, MayPreprocess(i, state)
    PROVE  LexedBefore(i) /\ MacrosBefore(i)
<1> DEFINE circular == IF job.only_preprocess THEN deps[i] ELSE CircularDeps(i)
<1>0. deps \in [Imports -> SUBSET Imports]
  BY DEF TypeInv, TypeOK, DataTypes
<1>1. circular \subseteq deps[i]
  BY DEF CircularDeps
<1>2. /\ Reached(TASK_PREPROCESS_AND_PARSE, Reach(deps[i] \ circular), state)
      /\ Reached(TASK_LEX, Reach(circular), state)
  BY DEF MayPreprocess
<1>3. /\ deps[i] \in SUBSET Imports /\ circular \in SUBSET Imports
      /\ deps[i] \ circular \in SUBSET Imports
  BY <1>0, <1>1
<1> HIDE DEF circular
<1>4. LexedBefore(i)
  <2> SUFFICES ASSUME NEW j \in Reach(deps[i]) PROVE TASK_LEX \in state[j]
    BY DEF LexedBefore, Reached
  <2>1. j \in ReachIn(deps, deps[i])
    BY ReachIsReachIn
  <2>2. PICK d \in deps[i] : j \in ReachIn(deps, {d})
    <3> DEFINE S == deps[i]
    <3>1. S \in SUBSET Imports
      BY <1>3
    <3> HIDE DEF S
    <3>2. \A l \in ReachIn(deps, S) : \E d \in S : l \in ReachIn(deps, {d})
      BY <1>0, <3>1, ReachFacts
    <3> QED
      BY <2>1, <3>2 DEF S
  <2>3. CASE d \in circular
    <3>1. {d} \subseteq circular /\ {d} \in SUBSET Imports
      BY <1>3, <2>3
    <3>2. j \in Reach(circular)
      BY <1>0, <1>3, <2>2, <3>1, ReachFacts, ReachIsReachIn
    <3> QED
      BY <1>2, <3>2 DEF Reached
  <2>4. CASE d \notin circular
    <3>1. {d} \subseteq deps[i] \ circular /\ {d} \in SUBSET Imports
      BY <1>3, <2>4
    <3>2. j \in ReachIn(deps, deps[i] \ circular)
      BY <1>0, <1>3, <2>2, <3>1, ReachFacts
    <3>3. j \in Imports /\ j \in Reach(deps[i] \ circular)
      BY <1>0, <1>3, <3>2, ReachFacts, ReachIsReachIn
    <3>4. TASK_PREPROCESS_AND_PARSE \in state[j]
      BY <1>2, <3>3 DEF Reached
    <3> QED
      BY <3>3, <3>4, LexedOfPreprocessed
  <2> QED
    BY <2>3, <2>4
<1>5. MacrosBefore(i)
  <2> SUFFICES ASSUME ~job.only_preprocess, NEW d \in deps[i]
               PROVE  i \in Reach({d}) \/ TASK_PREPROCESS_AND_PARSE \in state[d]
    BY DEF MacrosBefore
  <2>1. CASE d \in circular
    <3>1. PICK e \in Reach({d}) : i \in deps[e]
      BY <2>1 DEF circular, CircularDeps
    <3>2. {d} \in SUBSET Imports
      BY <1>3
    <3>3. deps[e] \subseteq ReachIn(deps, {d})
      <4>1. e \in ReachIn(deps, {d})
        BY <3>1, ReachIsReachIn
      <4>2. \A l \in ReachIn(deps, {d}) : deps[l] \subseteq ReachIn(deps, {d})
        BY <1>0, <3>2, ReachFacts
      <4> QED
        BY <4>1, <4>2
    <3> QED
      BY <3>1, <3>3, ReachIsReachIn
  <2>2. CASE d \notin circular
    <3>1. d \in ReachIn(deps, deps[i] \ circular)
      BY <1>0, <1>3, <2>2, ReachFacts
    <3>2. d \in Reach(deps[i] \ circular)
      BY <3>1, ReachIsReachIn
    <3> QED
      BY <1>2, <3>2 DEF Reached
  <2> QED
    BY <2>1, <2>2
<1> QED
  BY <1>4, <1>5

\* A preprocessing task stays at "work" in one step of its thread only when it
\* has just been picked.
LEMMA PreprocessStep ==
    ASSUME TypeInv, NEW t \in Threads, processImports(t),
           Working(t, "work", TASK_PREPROCESS_AND_PARSE)'
    PROVE  /\ MayPreprocess(cur'[t].import, state) /\ cur'[t].import \in Imports
           /\ deps' = deps /\ state' = state
<1>0. pc \in [Threads -> Labels]
  BY DEF TypeInv, TypeOK, LocalTypes
<1>1. CASE \E k \in 1..Len(tasks) : /\ SelectTask(t, k) /\ Pickable(tasks[k], state)
                                    /\ cur'[t] = tasks[k] /\ tasks[k] \in CompilerTask
  <2>1. PICK k \in 1..Len(tasks) : /\ SelectTask(t, k) /\ Pickable(tasks[k], state)
                                   /\ cur'[t] = tasks[k] /\ tasks[k] \in CompilerTask
    BY <1>1
  <2>2. tasks[k].type = TASK_PREPROCESS_AND_PARSE /\ tasks[k].import \in Imports
    BY <2>1, TaskFields DEF Working
  <2>3. MayPreprocess(tasks[k].import, state)
    BY <2>1, <2>2 DEF Pickable, TASK_LEX, TASK_PREPROCESS_AND_PARSE, TASK_TYPE_ENUMS,
                      TASK_TYPE_STRUCTS
  <2>4. deps' = deps /\ state' = state
    BY <2>1 DEF SelectTask
  <2> QED
    BY <2>1, <2>2, <2>3, <2>4
<1>2. CASE Handling(t) /\ cur' = cur /\ ~Select(t)
  <2>1. cur[t].type = TASK_PREPROCESS_AND_PARSE /\ pc'[t] = "work"
    BY <1>2 DEF Working
  <2>2. ~Enter(t) /\ ~Exit(t)
    BY <1>0, <1>2, <2>1 DEF Enter, RegisterTotal, RegisterWaiting, Wait, Exit, AddFollowUp,
                            Finish, Leave, Goto
  <2>3. ~Lex(t) /\ ~Preprocess(t)
    BY <1>0, <2>1 DEF Lex, LexUnreadable, FindImport, LinkPreload, LinkImport, LexDone, Preprocess,
                Working, TypeInv, LocalOK, Complete, Drop, Goto, TASK_LEX, TASK_PREPROCESS_AND_PARSE
  <2>4. ~TypeCheck(t)
    BY <1>0, <2>1 DEF TypeCheck, Snapshot, TypeEnums, TypeStructs, JudgeRequeue, JudgeGiveUp,
            Requeue, TypeFunctions, Call, DeclareUsage, BodyDone, Working, TypeInv, LocalOK,
            Complete, Drop, Goto, TASK_TYPE_BODY, TASK_TYPE_ENUMS, TASK_TYPE_STRUCTS,
            TASK_TYPE_FUNCTIONS, TASK_PREPROCESS_AND_PARSE
  <2>5. ~Generate(t)
    BY <2>1 DEF Generate, QuickCheck, RunOnce, GenerateScope, GenerateMachineCode, Working,
                TypeInv, LocalOK, GenerateTypes, TASK_GEN_BYTECODE, TASK_GEN_BYTECODE_RUNDIR,
                TASK_GEN_MACHINE_CODE, TASK_PREPROCESS_AND_PARSE
  <2> QED
    BY <2>2, <2>3, <2>4, <2>5 DEF processImports
<1> QED
  BY <1>1, <1>2, WorkStep DEF Working

\* Another thread's step does not take from an import what it may rely on: what
\* is linked meanwhile is linked to an import that is not lexed yet.
LEMMA OthersInOrder ==
    ASSUME TypeInv, ChainInv, job \in Jobs, Orderly, NEW t \in Threads, processImports(t),
           NEW u \in Threads, u # t, Owns(u), cur[u] \in CompilerTask,
           LexedBefore(cur[u].import), MacrosBefore(cur[u].import)
    PROVE  LexedBefore(cur[u].import)' /\ MacrosBefore(cur[u].import)'
<1> DEFINE i == cur[u].import
<1>0. /\ deps \in [Imports -> SUBSET Imports] /\ deps' \in [Imports -> SUBSET Imports]
      /\ state \in [Imports -> SUBSET TaskTypes] /\ i \in Imports /\ job' = job /\ cur'[u] = cur[u]
      /\ \A x \in Imports : state[x] \subseteq state'[x]
  <2>1. deps' \in [Imports -> SUBSET Imports]
    BY DataStep DEF DataTypes
  <2> QED
    BY <2>1, OthersUnchanged, StateGrows, TaskFields DEF TypeInv, TypeOK, LocalTypes, DataTypes
<1>1. /\ deps'[i] = deps[i] /\ \A x \in Imports : deps[x] \subseteq deps'[x]
      /\ \A x \in ReachIn(deps, deps[i]) : deps'[x] = deps[x]
  <2>1. CASE LinkPreload(t)
    BY <2>1 DEF LinkPreload, TypeInv, LocalOK, HasPreload, Orderly
  <2>2. CASE LinkImport(t)
    <3>1. pc[t] = "link" /\ cur[t].type = TASK_LEX /\ cur[t].type \in ImportPhases
      BY <2>2 DEF LinkImport, TypeInv, LocalOK, ImportPhases
    <3>2. Owns(t) /\ cur[t] \in CompilerTask
      BY <3>1, HoldsTask
    <3>3. cur[t].import # i /\ state[cur[t].import] = {}
      <4>1. state[cur[t].import] = PhasesBefore(TASK_LEX)
        BY <3>1, <3>2 DEF ChainInv, ThreadInOrder
      <4> QED
        BY <3>2, <4>1, PhaseAfterPhase DEF ChainInv, OneOwner
    <3>4. cur[t].import \notin ReachIn(deps, deps[i])
      BY <3>3, ReachIsReachIn DEF LexedBefore, Reached
    <3>5. \A x \in Imports : /\ x # cur[t].import => deps'[x] = deps[x]
                             /\ deps[x] \subseteq deps'[x]
      BY <1>0, <2>2, <3>2, TaskFields DEF LinkImport
    <3>6. ReachIn(deps, deps[i]) \subseteq Imports
      BY <1>0, ReachFacts
    <3> QED
      BY <1>0, <3>3, <3>4, <3>5, <3>6
  <2>3. CASE deps' = deps
    BY <2>3
  <2> QED
    BY <2>1, <2>2, <2>3, GraphSteps
<1> DEFINE S == deps[i]
<1>2. S \in SUBSET Imports
  BY <1>0
<1>3. Reach(deps[i])' = ReachIn(deps', deps'[i]) /\ Reach(deps[i]) = ReachIn(deps, deps[i])
  <2>1. Reach(deps[i])' = ReachIn(deps', deps'[cur'[u].import])
    BY DEF Reach, ReachIn
  <2> QED
    BY <1>0, <2>1, ReachIsReachIn
<1>4. ReachIn(deps', S) \subseteq ReachIn(deps, S)
  BY <1>0, <1>1, <1>2, ReachElsewhere
<1>5. LexedBefore(i)'
  <2>1. \A x \in ReachIn(deps, S) : x \in Imports /\ TASK_LEX \in state[x]
    BY <1>0, <1>2, <1>3, ReachFacts DEF LexedBefore, Reached
  <2> QED
    BY <1>0, <1>1, <1>3, <1>4, <2>1 DEF LexedBefore, Reached
<1>6. MacrosBefore(i)'
  <2>1. \A d \in deps[i] : /\ {d} \in SUBSET Imports /\ Reach({d}) = ReachIn(deps, {d})
                           /\ ReachIn(deps, {d}) \subseteq ReachIn(deps', {d})
    BY <1>0, <1>1, ReachGrows, ReachIsReachIn
  <2>2. \A d : ReachIn(deps', {d}) = Reach({d})'
    BY ReachIsReachIn
  <2>3. ~job.only_preprocess => \A d \in deps[i] :
           i \in ReachIn(deps', {d}) \/ TASK_PREPROCESS_AND_PARSE \in state'[d]
    BY <1>0, <2>1 DEF MacrosBefore
  <2> QED
    BY <1>0, <1>1, <2>2, <2>3 DEF MacrosBefore
<1> QED
  BY <1>5, <1>6

\* So the order in which files are preprocessed is kept.
LEMMA PreprocessedStep ==
    ASSUME TypeInv, ChainInv, job \in Jobs, Orderly, PreprocessedInOrder,
           NEW t \in Threads, processImports(t)
    PROVE  PreprocessedInOrder'
<1>0. \A u \in Threads \ {t} : pc'[u] = pc[u] /\ cur'[u] = cur[u]
  BY OthersUnchanged DEF TypeInv, TypeOK
<1> SUFFICES ASSUME NEW u \in Threads, Working(u, "work", TASK_PREPROCESS_AND_PARSE)'
             PROVE  (LexedBefore(cur[u].import) /\ MacrosBefore(cur[u].import))'
  BY DEF PreprocessedInOrder
<1>1. CASE u = t
  <2> DEFINE i == cur'[t].import
  <2>1. MayPreprocess(i, state) /\ i \in Imports /\ deps' = deps /\ state' = state /\ job' = job
    BY <1>1, PreprocessStep, OthersUnchanged DEF TypeInv, TypeOK
  <2>2. LexedBefore(i) /\ MacrosBefore(i)
    BY <2>1, PickedInOrder
  <2>3. LexedBefore(cur[t].import)'
    <3>1. Reach(deps[cur[t].import])' = ReachIn(deps', deps'[i])
      BY DEF Reach, ReachIn
    <3>2. Reach(deps[i]) = ReachIn(deps, deps[i])
      BY ReachIsReachIn
    <3> QED
      BY <2>1, <2>2, <3>1, <3>2 DEF LexedBefore, Reached
  <2>4. MacrosBefore(cur[t].import)'
    <3>1. \A d : Reach({d})' = Reach({d})
      BY <2>1, ReachIsReachIn
    <3> QED
      BY <2>1, <2>2, <3>1 DEF MacrosBefore
  <2> QED
    BY <1>1, <2>3, <2>4
<1>2. CASE u # t
  <2>1. Working(u, "work", TASK_PREPROCESS_AND_PARSE)
    BY <1>0, <1>2 DEF Working
  <2>2. pc[u] = "work" /\ cur[u].type \in ImportPhases
    BY <2>1 DEF Working, ImportPhases
  <2>3. Owns(u) /\ cur[u] \in CompilerTask
    BY <2>2, HoldsTask
  <2> QED
    BY <1>2, <2>1, <2>3, OthersInOrder DEF PreprocessedInOrder
<1> QED
  BY <1>1, <1>2

\* Imports are found by FindImport, and linked to the preload right after that.
LEMMA FindSteps ==
    ASSUME TypeInv, NEW t \in Threads, processImports(t)
    PROVE  /\ imports' = imports \/ FindImport(t)
           /\ pc[t] = "link_preload" => LinkPreload(t)
<1>1. CASE Enter(t) \/ Exit(t)
  BY <1>1 DEF Enter, RegisterTotal, RegisterWaiting, Wait, Select, SelectTask, SelectFinished,
              SelectStuck, SelectNothing, Discard, Exit, AddFollowUp, Finish, Leave, queue
<1>2. CASE Lex(t) \/ Preprocess(t)
  BY <1>2 DEF Lex, LexUnreadable, FindImport, LinkPreload, LinkImport, LexDone, Preprocess,
              queue, Working
<1>3. CASE TypeCheck(t)
  BY <1>3 DEF TypeCheck, Snapshot, TypeEnums, TypeStructs, JudgeRequeue, JudgeGiveUp, Requeue,
              TypeFunctions, Call, DeclareUsage, BodyDone, queue, Working
<1>4. CASE Generate(t)
  BY <1>4 DEF Generate, QuickCheck, RunOnce, GenerateScope, GenerateMachineCode, queue, Working
<1> QED
  BY <1>1, <1>2, <1>3, <1>4 DEF processImports

\* No import is found without being linked to the preload.
LEMMA PreloadStep ==
    ASSUME TypeInv, PreloadLinked, NEW t \in Threads, processImports(t)
    PROVE  PreloadLinked'
<1>0. /\ pc \in [Threads -> Labels] /\ deps \in [Imports -> SUBSET Imports]
      /\ target \in [Threads -> Imports \cup Functions \cup OnceSteps \cup {NoImport}]
      /\ Preload' = Preload /\ imports \subseteq Imports
      /\ \A u \in Threads \ {t} : pc'[u] = pc[u] /\ target'[u] = target[u]
  BY OthersUnchanged DEF TypeInv, TypeOK, LocalTypes, DataTypes, QueueTypes, Preload, HasPreload
<1>1. \A i \in Imports : deps[i] \subseteq deps'[i]
  <2>1. CASE LinkPreload(t)
    BY <1>0, <2>1 DEF LinkPreload
  <2>2. CASE LinkImport(t)
    BY <1>0, <2>2 DEF LinkImport
  <2>3. CASE deps' = deps
    BY <2>3
  <2> QED
    BY <2>1, <2>2, <2>3, GraphSteps
<1> SUFFICES ASSUME NEW i \in imports', ~(Preload \subseteq deps'[i] \cup {i})
             PROVE  \E u \in Threads : pc'[u] = "link_preload" /\ target'[u] = i
  BY <1>0 DEF PreloadLinked
<1>2. CASE i \in imports
  <2>1. PICK u \in Threads : pc[u] = "link_preload" /\ target[u] = i
    BY <1>0, <1>1, <1>2 DEF PreloadLinked
  <2>2. u # t
    <3> SUFFICES ASSUME u = t PROVE FALSE
      OBVIOUS
    <3>1. LinkPreload(t)
      BY <2>1, FindSteps
    <3>2. Preload \subseteq deps'[i]
      BY <1>0, <1>2, <2>1, <3>1 DEF LinkPreload, Preload
    <3> QED
      BY <3>2
  <2> QED
    BY <1>0, <2>1, <2>2
<1>3. CASE i \notin imports
  <2>1. FindImport(t) /\ HasPreload
    BY <1>0, <1>3, FindSteps DEF Preload
  <2>2. pc'[t] = "link_preload" /\ target'[t] = i
    BY <1>0, <1>3, <2>1 DEF FindImport, Goto
  <2> QED
    BY <2>2
<1> QED
  BY <1>2, <1>3

\* The files are preprocessed in order, with one thread or, for any number of
\* threads, without a preload: otherwise an import can be linked to the preload
\* when it has been lexed already.
LEMMA PreprocessedInOrderCorrect ==
    Orderly => (Spec => [](job \in Jobs /\ PreprocessedInOrder /\ PreloadLinked))
<1> SUFFICES ASSUME Orderly
             PROVE  Spec => [](job \in Jobs /\ PreprocessedInOrder /\ PreloadLinked)
  OBVIOUS
<1> DEFINE Inv == job \in Jobs /\ PreprocessedInOrder /\ PreloadLinked
<1>1. Init => Inv
  <2> SUFFICES ASSUME Init PROVE Inv
    OBVIOUS
  <2>1. PreprocessedInOrder
    BY DEF Init, PreprocessedInOrder, Working
  <2>2. PreloadLinked
    <3>1. job \in JobType /\ job.main \in Imports
      BY JobsAssumption, JobFields DEF Init
    <3>2. \A i \in imports : i = job.main \/ Preload = {i}
      BY DEF Init, Preload
    <3>3. deps[job.main] = Preload
      BY <3>1 DEF Init
    <3> QED
      BY <3>2, <3>3 DEF PreloadLinked
  <2> QED
    BY <2>1, <2>2 DEF Init
<1>2. TypeInv /\ ChainInv /\ Inv /\ [Next]_vars => Inv'
  <2> SUFFICES ASSUME TypeInv, ChainInv, Inv, [Next]_vars PROVE Inv'
    OBVIOUS
  <2>1. CASE UNCHANGED vars
    <3>1. \A S : Reach(S)' = Reach(S)
      BY <2>1, ReachIsReachIn DEF vars, data
    <3>2. \A t \in Threads : Reach(deps[cur[t].import])' = Reach(deps[cur[t].import])
      BY <2>1 DEF vars, data, local, Reach
    <3>3. PreprocessedInOrder'
      BY <2>1, <3>1, <3>2 DEF vars, data, local, PreprocessedInOrder, Working, LexedBefore,
                              MacrosBefore, Reached
    <3>4. PreloadLinked'
      BY <2>1 DEF vars, data, queue, local, PreloadLinked, Preload, HasPreload
    <3> QED
      BY <2>1, <3>3, <3>4 DEF vars
  <2>2. ASSUME NEW t \in Threads, processImports(t) PROVE Inv'
    BY <2>2, PreprocessedStep, PreloadStep, OthersUnchanged DEF TypeInv, TypeOK
  <2> QED
    BY <2>1, <2>2 DEF Next, AfterReturn
<1> QED
  BY <1>1, <1>2, TypeInvCorrect, ChainCorrect, PTL DEF Spec

\* matchMacro's assertion: what is reached from an import that is preprocessed
\* has been lexed.
THEOREM LexedFirstCorrect == Orderly => (Spec => []LexedFirst)
<1>1. PreprocessedInOrder => LexedFirst
  BY DEF PreprocessedInOrder, LexedFirst, LexedBefore
<1> QED
  BY <1>1, PreprocessedInOrderCorrect, PTL

\* The macros of what an import depends on exist when it is preprocessed, unless
\* the dependency is mutual, and those of the preload do in any case.
THEOREM MacrosExistCorrect == Orderly => (Spec => []MacrosExist)
<1> SUFFICES ASSUME Orderly PROVE Spec => []MacrosExist
  OBVIOUS
<1>1. TypeInv /\ ChainInv /\ job \in Jobs /\ PreprocessedInOrder /\ PreloadLinked => MacrosExist
  <2> SUFFICES ASSUME TypeInv, ChainInv, job \in Jobs, PreprocessedInOrder, PreloadLinked,
                      NEW t \in Threads, Working(t, "work", TASK_PREPROCESS_AND_PARSE)
               PROVE  LET i == cur[t].import
                      IN  /\ Preload \subseteq deps[i] \cup {i}
                          /\ ~job.only_preprocess =>
                                \A d \in deps[i] : \/ i \in Reach({d})
                                                   \/ TASK_PREPROCESS_AND_PARSE \in state[d]
    BY DEF MacrosExist
  <2> DEFINE i == cur[t].import
  <2>1. i \in imports
    <3>1. pc[t] = "work" /\ cur[t].type \in ImportPhases
      BY DEF Working, ImportPhases
    <3>2. Owns(t)
      BY <3>1, HoldsTask
    <3> QED
      BY <3>2 DEF ChainInv, ThreadInOrder
  <2>2. Preload \subseteq deps[i] \cup {i}
    <3>1. CASE \A j \in Jobs : j.preload = NoImport
      BY <3>1 DEF Preload, HasPreload
    <3>2. CASE \A u, v \in Threads : u = v
      <4>1. \A u \in Threads : pc[u] # "link_preload"
        BY <3>2 DEF Working
      <4> QED
        BY <2>1, <4>1 DEF PreloadLinked
    <3> QED
      BY <3>1, <3>2 DEF Orderly
  <2> QED
    BY <2>2 DEF PreprocessedInOrder, MacrosBefore
<1> QED
  BY <1>1, TypeInvCorrect, ChainCorrect, PreprocessedInOrderCorrect, PTL

-----------------------------------------------------------------------------
(* Some task can always be picked, with one thread.                         *)

\* Dependencies are imports that have been found.
DepsFound ==
    /\ \A i \in Imports : deps[i] \subseteq imports
    /\ Preload \subseteq imports
    /\ \A t \in Threads : pc[t] \in {"link_preload", "link"} => target[t] \in imports

\* A function is being checked only while a thread has its body in hand.
CheckingHeld ==
    \A fn \in checking : \E t \in Threads : Holds(t) /\ cur[t] \in BodyTask /\ cur[t].function = fn

\* While nobody has a task every import has ended or is queued.
LEMMA EndedOrQueued ==
    ASSUME BarrierInv, errors = 0, tasks # <<>>, \A u \in Threads : ~Handling(u), NEW i \in imports
    PROVE  Ended(i) \/ i \in Subjects(tasks, PhaseTask)
<1>1. Proper
  BY DEF BarrierInv, NothingLeftToDo, Proper
<1>2. \A u \in Threads : ~Owns(u)
  BY DEF Owns, Holds, Handling
<1> QED
  BY <1>1, <1>2 DEF BarrierInv, AllOnTheWay, OnTheWay

\* So a phase is done for an import when no task for it or an earlier one is.
LEMMA PhaseDone ==
    ASSUME TypeInv, ChainInv, BarrierInv, errors = 0, tasks # <<>>,
           \A u \in Threads : ~Handling(u),
           NEW p \in ImportPhases, p = TASK_LEX \/ ~job.only_preprocess, NEW i \in imports,
           \A x \in ToSet(tasks) : x.import = i /\ x \in PhaseTask => p < x.type
    PROVE  p \in state[i]
<1>1. CASE Ended(i)
  BY <1>1 DEF Ended
<1>2. CASE i \in Subjects(tasks, PhaseTask)
  <2>1. PICK x \in ToSet(tasks) \cap PhaseTask : Subject(x) = i
    BY <1>2 DEF Subjects
  <2>2. x.import = i /\ state[i] = PhasesBefore(x.type)
    BY <2>1 DEF ChainInv, QueueInOrder, InOrder, Subject
  <2> QED
    BY <2>1, <2>2 DEF PhasesBefore
<1> QED
  BY <1>1, <1>2, EndedOrQueued

\* What is reached from imports that have been found has been found.
LEMMA ReachFound ==
    ASSUME TypeInv, DepsFound, NEW S \in SUBSET imports
    PROVE  Reach(S) \subseteq imports
<1>1. deps \in [Imports -> SUBSET Imports] /\ imports \in SUBSET Imports /\ S \in SUBSET Imports
  BY DEF TypeInv, TypeOK, DataTypes, QueueTypes
<1>2. Closed(deps, imports)
  BY <1>1 DEF Closed, DepsFound
<1> QED
  BY <1>1, <1>2, ReachLeast, ReachIsReachIn

\* When every file has been lexed one of those that wait for the preprocessor
\* can be preprocessed: one from which the fewest imports are reached.
LEMMA CanPreprocess ==
    ASSUME TypeInv, ChainInv, BarrierInv, DepsFound, errors = 0, \A u \in Threads : ~Handling(u),
           \A x \in ToSet(tasks) : x.type # TASK_LEX,
           \E x \in ToSet(tasks) : x.type = TASK_PREPROCESS_AND_PARSE
    PROVE  \E x \in ToSet(tasks) : /\ x.type = TASK_PREPROCESS_AND_PARSE
                                   /\ MayPreprocess(x.import, state)
<1> DEFINE Waiting == {x.import : x \in {y \in ToSet(tasks) : y.type = TASK_PREPROCESS_AND_PARSE}}
           reached(i) == ReachIn(deps, {i})
           size(i) == Cardinality(reached(i))
<1>0. /\ deps \in [Imports -> SUBSET Imports] /\ imports \subseteq Imports
      /\ tasks \in Seq(CompilerTask) /\ tasks # <<>>
      /\ \A x \in ToSet(tasks) : x \in CompilerTask /\ x.type \in Nat
  <2>1. tasks \in Seq(CompilerTask)
    BY DEF TypeInv, TypeOK, QueueTypes
  <2>2. \A x \in ToSet(tasks) : x \in CompilerTask
    BY <2>1 DEF ToSet
  <2>3. tasks # <<>>
    BY ShortApart
  <2> QED
    BY <2>1, <2>2, <2>3, TaskFields DEF TypeInv, TypeOK, DataTypes, QueueTypes
<1>1. \A i \in imports : TASK_LEX \in state[i]
  <2> TAKE i \in imports
  <2>1. \A x \in PhaseTask : x.type # TASK_LEX => TASK_LEX < x.type
    BY DEF PhaseTask, ImportPhases, TASK_LEX, TASK_PREPROCESS_AND_PARSE, TASK_TYPE_ENUMS,
         TASK_TYPE_STRUCTS, TASK_TYPE_FUNCTIONS, TASK_GEN_BYTECODE, TASK_GEN_BYTECODE_RUNDIR,
         TASK_GEN_MACHINE_CODE
  <2>2. TASK_LEX \in ImportPhases
    BY DEF ImportPhases
  <2> QED
    BY <1>0, <2>1, <2>2, PhaseDone
<1>2. Waiting \subseteq imports /\ Waiting # {}
  <2>1. \A x \in ToSet(tasks) : x.type = TASK_PREPROCESS_AND_PARSE => x \in PhaseTask
    BY <1>0 DEF PhaseTask, ImportPhases
  <2> QED
    BY <2>1 DEF ChainInv, QueueInOrder, InOrder
<1>3. \A i \in Imports : /\ reached(i) \in SUBSET Imports /\ i \in reached(i)
                         /\ IsFiniteSet(reached(i)) /\ size(i) \in Nat
  <2> TAKE i \in Imports
  <2>1. reached(i) \in SUBSET Imports /\ {i} \subseteq reached(i)
    BY <1>0, ReachLeast, ReachClosed
  <2>2. IsFiniteSet(reached(i))
    BY <2>1, FiniteAssumption, FS_Subset
  <2> QED
    BY <2>1, <2>2, FS_CardinalityType
<1> HIDE DEF size, reached, Waiting
<1>4. PICK i \in Waiting : \A j \in Waiting : size(i) <= size(j)
  <2> DEFINE sizes == {size(j) : j \in Waiting}
  <2>1. sizes \in SUBSET Nat /\ sizes # {}
    BY <1>0, <1>2, <1>3
  <2> HIDE DEF sizes
  <2>2. PICK n \in sizes : \A m \in sizes : n <= m
    BY <2>1, LeastNatural
  <2> QED
    BY <2>2 DEF sizes
<1>5. i \in imports /\ deps[i] \in SUBSET imports
  BY <1>0, <1>2, <1>4 DEF DepsFound
<1> DEFINE circular == IF job.only_preprocess THEN deps[i] ELSE CircularDeps(i)
<1>6. circular \in SUBSET imports /\ deps[i] \ circular \in SUBSET imports
  BY <1>5 DEF CircularDeps
<1>7. Reached(TASK_LEX, Reach(circular), state)
  <2> HIDE DEF circular
  <2> QED
    BY <1>1, <1>6, ReachFound DEF Reached
<1>8. Reached(TASK_PREPROCESS_AND_PARSE, Reach(deps[i] \ circular), state)
  <2> DEFINE S == deps[i] \ circular
  <2>0. S \in SUBSET Imports /\ S \in SUBSET imports
    BY <1>0, <1>6
  <2>1. CASE job.only_preprocess
    <3>1. S = {}
      BY <2>1
    <3> HIDE DEF S
    <3>2. Reach(S) = {}
      BY <1>0, <2>0, <3>1, ReachFacts, ReachIsReachIn
    <3> QED
      BY <3>2 DEF Reached, S
  <2>2. CASE ~job.only_preprocess
    <3> SUFFICES ASSUME NEW j \in Reach(S) PROVE TASK_PREPROCESS_AND_PARSE \in state[j]
      BY DEF Reached
    <3>0. circular = CircularDeps(i)
      BY <2>2
    <3>1. \A d \in S : d \in deps[i] /\ \A e \in reached(d) : i \notin deps[e]
      BY <3>0, ReachIsReachIn DEF CircularDeps, reached
    <3> HIDE DEF S, circular
    <3>2. j \in imports
      BY <2>0, ReachFound
    <3>3. PICK d \in S : j \in reached(d)
      <4>1. \A l \in ReachIn(deps, S) : \E d \in S : l \in ReachIn(deps, {d})
        BY <1>0, <2>0, ReachFacts
      <4> QED
        BY <4>1, ReachIsReachIn DEF reached
    <3>4. d \in Imports /\ d \in deps[i] /\ i \notin reached(d)
      <4>1. d \in Imports /\ d \in deps[i] /\ i \in Imports
        BY <1>0, <1>5, <2>0, <3>1
      <4>2. ASSUME i \in reached(d) PROVE FALSE
        <5>1. CASE i = d
          BY <3>1, <4>1, <4>2, <5>1
        <5>2. CASE i # d
          <6> DEFINE T == reached(d) \ {i}
          <6>1. T \in SUBSET Imports /\ {d} \subseteq T
            BY <1>3, <4>1, <5>2
          <6>2. Closed(deps, T)
            <7>1. Closed(deps, reached(d))
              BY <1>0, <4>1, ReachClosed DEF reached
            <7> QED
              BY <3>1, <7>1 DEF Closed
          <6> HIDE DEF T
          <6>3. reached(d) \subseteq T
            BY <1>0, <4>1, <6>1, <6>2, ReachLeast DEF reached
          <6> QED
            BY <4>2, <6>3 DEF T
        <5> QED
          BY <5>1, <5>2
      <4> QED
        BY <4>1, <4>2
    <3>5. reached(j) \subseteq reached(d) /\ reached(d) \subseteq reached(i)
      <4>1. \A l \in Imports : \A m \in reached(l) : reached(m) \subseteq reached(l) /\ deps[m] \subseteq reached(l)
        <5> TAKE l \in Imports
        <5>1. {l} \in SUBSET Imports
          OBVIOUS
        <5> QED
          BY <1>0, <5>1, ReachFacts DEF reached
      <4>2. d \in reached(i)
        BY <1>0, <1>3, <1>5, <3>4, <4>1
      <4> QED
        BY <1>0, <1>5, <3>3, <3>4, <4>1, <4>2
    <3>6. size(j) < size(i)
      <4>1. i \in Imports /\ j \in Imports
        BY <1>0, <1>5, <3>2
      <4>2. /\ reached(j) \in SUBSET reached(i) /\ reached(j) # reached(i)
            /\ IsFiniteSet(reached(i)) /\ size(i) \in Nat /\ size(j) \in Nat
        BY <1>3, <3>4, <3>5, <4>1
      <4>3. size(j) <= size(i) /\ size(j) # size(i)
        BY <4>2, FS_Subset DEF size
      <4> QED
        BY <4>2, <4>3
    <3>7. j \notin Waiting
      <4>1. size(i) \in Nat /\ size(j) \in Nat
        BY <1>0, <1>3, <1>5, <3>2
      <4> QED
        BY <1>4, <3>6, <4>1
    <3>8. \A x \in ToSet(tasks) : x.import = j /\ x \in PhaseTask => TASK_PREPROCESS_AND_PARSE < x.type
      <4>1. \A x \in PhaseTask : x.type # TASK_LEX /\ x.type # TASK_PREPROCESS_AND_PARSE
                                 => TASK_PREPROCESS_AND_PARSE < x.type
        BY DEF PhaseTask, ImportPhases, TASK_LEX, TASK_PREPROCESS_AND_PARSE, TASK_TYPE_ENUMS,
         TASK_TYPE_STRUCTS, TASK_TYPE_FUNCTIONS, TASK_GEN_BYTECODE, TASK_GEN_BYTECODE_RUNDIR,
         TASK_GEN_MACHINE_CODE
      <4> QED
        BY <3>7, <4>1 DEF Waiting
    <3>9. TASK_PREPROCESS_AND_PARSE \in ImportPhases
      BY DEF ImportPhases
    <3> QED
      BY <1>0, <2>2, <3>2, <3>8, <3>9, PhaseDone
  <2> QED
    BY <2>1, <2>2
<1>9. MayPreprocess(i, state)
  BY <1>7, <1>8 DEF MayPreprocess
<1> QED
  BY <1>4, <1>9 DEF Waiting

\* When nobody has a task and no error was reported, a task of one of the phases
\* before the waves can be picked: one of an earlier phase, or else each of the
\* last of them.
LEMMA EarlyPick ==
    ASSUME TypeInv, ChainInv, BarrierInv, DepsFound, errors = 0, \A u \in Threads : ~Handling(u),
           NEW x \in ToSet(tasks), x.type <= TASK_TYPE_STRUCTS
    PROVE  \/ Pickable(x, state)
           \/ \E y \in ToSet(tasks) : y.type < TASK_TYPE_STRUCTS /\ Pickable(y, state)
<1>0. /\ deps \in [Imports -> SUBSET Imports] /\ imports \subseteq Imports
      /\ tasks \in Seq(CompilerTask) /\ tasks # <<>>
      /\ \A y \in ToSet(tasks) : y \in CompilerTask /\ y.type \in TaskTypes /\ y.import \in Imports
  <2>1. tasks \in Seq(CompilerTask)
    BY DEF TypeInv, TypeOK, QueueTypes
  <2>2. \A y \in ToSet(tasks) : y \in CompilerTask
    BY <2>1 DEF ToSet
  <2>3. tasks # <<>>
    BY ShortApart
  <2> QED
    BY <2>1, <2>2, <2>3, TaskFields DEF TypeInv, TypeOK, DataTypes, QueueTypes
<1> USE DEF TASK_LEX, TASK_PREPROCESS_AND_PARSE, TASK_TYPE_ENUMS, TASK_TYPE_STRUCTS
<1>1. \A y \in ToSet(tasks) : \/ y.type \in {TASK_LEX, TASK_PREPROCESS_AND_PARSE, TASK_TYPE_ENUMS,
                                            TASK_TYPE_STRUCTS}
                              \/ y.type \in Nat /\ y.type > TASK_TYPE_STRUCTS
  BY <1>0 DEF TaskTypes, ImportPhases, TASK_TYPE_FUNCTIONS, TASK_TYPE_BODY, TASK_GEN_BYTECODE,
              TASK_GEN_BYTECODE_RUNDIR, TASK_GEN_MACHINE_CODE
<1> DEFINE Some(type) == \E y \in ToSet(tasks) : y.type = type
<1>2. CASE Some(TASK_LEX)
  <2>1. PICK y \in ToSet(tasks) : y.type = TASK_LEX
    BY <1>2
  <2>2. Pickable(y, state)
    BY <2>1 DEF Pickable
  <2> QED
    BY <2>1, <2>2
<1>3. CASE ~Some(TASK_LEX) /\ Some(TASK_PREPROCESS_AND_PARSE)
  <2>1. PICK y \in ToSet(tasks) : y.type = TASK_PREPROCESS_AND_PARSE /\ MayPreprocess(y.import, state)
    BY <1>3, CanPreprocess
  <2>2. Pickable(y, state)
    BY <2>1 DEF Pickable
  <2> QED
    BY <2>1, <2>2
<1>4. CASE ~Some(TASK_LEX) /\ ~Some(TASK_PREPROCESS_AND_PARSE)
  <2>1. ~job.only_preprocess
    BY <1>1, <1>4 DEF BarrierInv, OnlyPreprocesses, InFlight
  <2>2. \A i \in imports : TASK_PREPROCESS_AND_PARSE \in state[i]
    <3>1. TASK_PREPROCESS_AND_PARSE \in ImportPhases
      BY DEF ImportPhases
    <3>2. \A y \in ToSet(tasks) : TASK_PREPROCESS_AND_PARSE < y.type
      BY <1>1, <1>4
    <3> QED
      BY <1>0, <2>1, <3>1, <3>2, PhaseDone
  <2>3. CASE Some(TASK_TYPE_ENUMS)
    <3>1. PICK y \in ToSet(tasks) : y.type = TASK_TYPE_ENUMS
      BY <2>3
    <3>2. MayTypeEnums(y.import, state)
      BY <1>0, <2>2, <3>1 DEF MayTypeEnums, Reached, DepsFound
    <3>3. Pickable(y, state)
      BY <3>1, <3>2 DEF Pickable
    <3> QED
      BY <3>1, <3>3
  <2>4. CASE ~Some(TASK_TYPE_ENUMS)
    <3>1. x.type = TASK_TYPE_STRUCTS
      BY <1>1, <1>4, <2>4
    <3>2. \A i \in imports : TASK_TYPE_ENUMS \in state[i]
      <4>1. TASK_TYPE_ENUMS \in ImportPhases
        BY DEF ImportPhases
      <4>2. \A y \in ToSet(tasks) : TASK_TYPE_ENUMS < y.type
        BY <1>1, <1>4, <2>4
      <4> QED
        BY <1>0, <2>1, <4>1, <4>2, PhaseDone
    <3>3. Reached(TASK_TYPE_ENUMS, deps[x.import], state)
      BY <1>0, <3>2 DEF Reached, DepsFound
    <3>4. Pickable(x, state)
      BY <3>1, <3>3 DEF Pickable
    <3> QED
      BY <3>4
  <2> QED
    BY <2>3, <2>4
<1> QED
  BY <1>2, <1>3, <1>4

\* When nobody has a task, no error was reported and the queue is not empty, one
\* of the tasks in it can be picked.
LEMMA CanPick ==
    ASSUME TypeInv, ChainInv, BarrierInv, DepsFound, CheckingHeld, errors = 0, tasks # <<>>,
           \A u \in Threads : ~Handling(u)
    PROVE  \E l \in 1..Len(tasks) : Pickable(tasks[l], state)
<1> DEFINE types == {x.type : x \in ToSet(tasks)}
<1>0. /\ tasks \in Seq(CompilerTask) /\ checking = {} /\ types \in SUBSET Nat
      /\ \A x \in ToSet(tasks) : x \in CompilerTask
  <2>1. tasks \in Seq(CompilerTask) /\ checking = {}
    BY DEF TypeInv, TypeOK, QueueTypes, CheckingHeld, Holds
  <2>2. \A x \in ToSet(tasks) : x \in CompilerTask /\ x.type \in Nat
    BY <2>1, PhaseOrder, TaskFields DEF ToSet
  <2> QED
    BY <2>1, <2>2
<1>1. SUFFICES \E x \in ToSet(tasks) : Pickable(x, state)
  BY <1>0, LenProperties DEF ToSet
<1>2. types # {}
  <2>1. \E x : x \in ToSet(tasks)
    BY <1>0, EmptySeq, LenProperties DEF ToSet
  <2> QED
    BY <2>1
<1>3. PICK x \in ToSet(tasks) : x.type \in Nat /\ \A y \in ToSet(tasks) : x.type <= y.type
  <2> HIDE DEF types
  <2>1. PICK n \in types : \A m \in types : n <= m
    BY <1>0, <1>2, LeastNatural
  <2> QED
    BY <1>0, <2>1 DEF types
<1>4. CASE x.type <= TASK_TYPE_STRUCTS
  BY <1>4, EarlyPick
<1>5. CASE ~(x.type <= TASK_TYPE_STRUCTS)
  <2>1. NothingQueuedBefore(x.type)
    <3>1. \A k \in DOMAIN tasks : tasks[k].type \in Nat /\ x.type <= tasks[k].type
      BY <1>0, <1>3 DEF ToSet
    <3> QED
      BY <1>3, <3>1 DEF NothingQueuedBefore
  <2>2. x.type \notin {TASK_LEX, TASK_PREPROCESS_AND_PARSE, TASK_TYPE_ENUMS, TASK_TYPE_STRUCTS}
    BY <1>5 DEF TASK_LEX, TASK_PREPROCESS_AND_PARSE, TASK_TYPE_ENUMS, TASK_TYPE_STRUCTS
  <2>3. Pickable(x, state)
    BY <1>0, <2>1, <2>2 DEF Pickable
  <2> QED
    BY <2>3
<1> QED
  BY <1>4, <1>5

-----------------------------------------------------------------------------
(* The loop with one thread is left only when the queue is empty.           *)

\* With incremental_build no import gets past its signatures before the age of
\* the output is known.
BeforeModified ==
    job.incremental_build /\ ~modified_known =>
        /\ \A x \in ToSet(tasks) : x.type <= TASK_TYPE_FUNCTIONS
        /\ \A t \in Threads : /\ \A x \in ToSet(out[t]) : x.type <= TASK_TYPE_FUNCTIONS
                              /\ Handling(t) => cur[t].type < TASK_TYPE_FUNCTIONS

\* Whoever leaves without errors leaves nothing behind.
LeftEmpty ==
    /\ ~compiler_got_stuck
    /\ \A t \in Threads : pc[t] \in {"leave", "done"} /\ errors = 0 => tasks = <<>>

\* No dependency is added that has not been found before.
LEMMA DepsFoundStep ==
    ASSUME TypeInv, DepsFound, NEW t \in Threads, processImports(t)
    PROVE  DepsFound'
<1>0. /\ pc \in [Threads -> Labels] /\ deps \in [Imports -> SUBSET Imports]
      /\ target \in [Threads -> Imports \cup Functions \cup OnceSteps \cup {NoImport}]
      /\ Preload' = Preload /\ LocalOK(t)
      /\ \A u \in Threads \ {t} : pc'[u] = pc[u] /\ target'[u] = target[u]
  BY OthersUnchanged DEF TypeInv, TypeOK, LocalTypes, DataTypes, Preload, HasPreload
<1>1. imports \subseteq imports'
  BY FindSteps DEF FindImport
<1>2. \A i \in Imports : deps'[i] \subseteq imports'
  <2>1. CASE LinkPreload(t)
    <3>1. job.preload \in imports'
      BY <1>0, <1>1, <2>1 DEF LinkPreload, LocalOK, DepsFound, Preload
    <3> QED
      BY <1>0, <1>1, <2>1, <3>1 DEF LinkPreload, DepsFound
  <2>2. CASE LinkImport(t)
    BY <1>0, <1>1, <2>2 DEF LinkImport, DepsFound
  <2>3. CASE deps' = deps
    BY <1>1, <2>3 DEF DepsFound
  <2> QED
    BY <2>1, <2>2, <2>3, GraphSteps
<1>3. pc'[t] \in {"link_preload", "link"} => target'[t] \in imports'
  <2>1. CASE FindImport(t)
    BY <1>0, <2>1 DEF FindImport, Working, Goto
  <2>2. CASE LinkPreload(t)
    BY <1>0, <1>1, <2>2 DEF LinkPreload, DepsFound, local
  <2>3. ~FindImport(t) /\ ~LinkPreload(t) => pc'[t] \notin {"link_preload", "link"}
    <3> USE <1>0 DEF Goto
    <3>1. CASE Enter(t) \/ Exit(t)
      BY <3>1 DEF Enter, RegisterTotal, RegisterWaiting, Wait, Select, SelectTask, TakeTask,
                  SelectFinished, SelectStuck, SelectNothing, Exit, AddFollowUp, Finish, Leave
    <3>2. CASE LexUnreadable(t) \/ LinkImport(t) \/ LexDone(t) \/ Preprocess(t)
      BY <3>2 DEF LexUnreadable, LinkImport, LexDone, Preprocess, Complete, Drop
    <3>3. CASE TypeCheck(t)
      BY <3>3 DEF TypeCheck, Snapshot, TypeEnums, TypeStructs, JudgeRequeue, JudgeGiveUp, Requeue,
                  TypeFunctions, Call, DeclareUsage, BodyDone, Complete, Drop
    <3>4. CASE Generate(t)
      BY <3>4 DEF Generate, QuickCheck, RunOnce, GenerateScope, GenerateMachineCode, Advance,
                  Complete, Drop
    <3> QED
      BY <3>1, <3>2, <3>3, <3>4 DEF processImports, Lex
  <2> QED
    BY <2>1, <2>2, <2>3
<1> QED
  BY <1>0, <1>1, <1>2, <1>3 DEF DepsFound

\* A function counts as being checked from the step that takes its body to the
\* one that is done with it.
LEMMA CheckingStep ==
    ASSUME TypeInv, ChainInv, JudgesStructs, CheckingHeld, NEW t \in Threads, processImports(t)
    PROVE  CheckingHeld'
<1>0. /\ pc \in [Threads -> Labels] /\ cur \in [Threads -> CompilerTask \cup {NoTask}]
      /\ tasks \in Seq(CompilerTask)
      /\ \A u \in Threads \ {t} : pc'[u] = pc[u] /\ cur'[u] = cur[u]
  BY OthersUnchanged DEF TypeInv, TypeOK, LocalTypes, QueueTypes
<1>1. CASE Select(t)
  <2>1. pc[t] = "select" /\ ~Holds(t)
    BY <1>1 DEF Select, Holds, Handling
  <2>2. PICK k \in 0..Len(tasks) :
           SelectTask(t, k) \/ SelectFinished(t, k) \/ SelectStuck(t, k) \/ SelectNothing(t, k)
    BY <1>1 DEF Select
  <2>3. \A fn \in checking : \E u \in Threads \ {t} :
           Holds(u)' /\ cur'[u] \in BodyTask /\ cur'[u].function = fn
    BY <1>0, <2>1 DEF CheckingHeld, Holds, Handling
  <2>4. CASE SelectTask(t, k)
    <3>1. /\ k \in 1..Len(tasks) /\ cur'[t] = tasks[k] /\ pc'[t] = "work"
          /\ checking' = checking \cup CheckedFunction(tasks[k])
      BY <1>0, <2>4 DEF SelectTask, Found, TakeTask, Goto
    <3>2. tasks[k] \in ToSet(tasks) /\ tasks[k] \in CompilerTask
      BY <1>0, <3>1, ElementOfSeq, LenProperties DEF ToSet
    <3>3. \A fn \in CheckedFunction(tasks[k]) : tasks[k] \in BodyTask /\ tasks[k].function = fn
      BY <3>2, PhaseOrBody DEF CheckedFunction, ChainInv, QueueInOrder, InOrder
    <3>4. Holds(t)'
      BY <3>1 DEF Holds, Handling
    <3>5. \A fn \in checking' : \E u \in Threads :
             Holds(u)' /\ cur'[u] \in BodyTask /\ cur'[u].function = fn
      BY <2>3, <3>1, <3>3, <3>4
    <3> QED
      BY <3>5 DEF CheckingHeld, BodyTask, CompilerTask
  <2>5. CASE SelectFinished(t, k) \/ SelectStuck(t, k) \/ SelectNothing(t, k)
    <3>1. checking' = checking
      BY <2>5 DEF SelectFinished, SelectStuck, SelectNothing, data
    <3>2. \A fn \in checking' : \E u \in Threads :
             Holds(u)' /\ cur'[u] \in BodyTask /\ cur'[u].function = fn
      BY <2>3, <3>1
    <3> QED
      BY <3>2 DEF CheckingHeld, BodyTask, CompilerTask
  <2> QED
    BY <2>2, <2>4, <2>5
<1>2. CASE BodyDone(t)
  <2>1. checking' = checking \ {cur[t].function}
    BY <1>2 DEF BodyDone
  <2>2. \A fn \in checking' : \E u \in Threads :
             Holds(u)' /\ cur'[u] \in BodyTask /\ cur'[u].function = fn
    BY <1>0, <2>1 DEF CheckingHeld, Holds, Handling
  <2> QED
    BY <2>2 DEF CheckingHeld, BodyTask, CompilerTask
<1>3. CASE ~Select(t) /\ ~BodyDone(t)
  <2>1. checking' = checking
    <3>1. CASE Enter(t) \/ Exit(t)
      BY <1>3, <3>1 DEF Enter, RegisterTotal, RegisterWaiting, Wait, Exit, AddFollowUp, Finish,
                        Leave, data
    <3>2. CASE Lex(t) \/ Preprocess(t)
      BY <3>2 DEF Lex, LexUnreadable, FindImport, LinkPreload, LinkImport, LexDone, Preprocess, data
    <3>3. CASE TypeCheck(t)
      BY <1>3, <3>3 DEF TypeCheck, Snapshot, TypeEnums, TypeStructs, JudgeRequeue, JudgeGiveUp,
                        Requeue, TypeFunctions, Call, DeclareUsage, data
    <3>4. CASE Generate(t)
      BY <3>4 DEF Generate, QuickCheck, RunOnce, GenerateScope, GenerateMachineCode, data
    <3> QED
      BY <3>1, <3>2, <3>3, <3>4 DEF processImports
  <2>2. Holds(t) /\ cur[t] \in BodyTask => Holds(t)' /\ cur'[t] = cur[t]
    <3> SUFFICES ASSUME Holds(t), cur[t] \in BodyTask PROVE Holds(t)' /\ cur'[t] = cur[t]
      OBVIOUS
    <3>1. Call(t) \/ DeclareUsage(t)
      <4> USE <1>0 DEF Holds, Handling
      <4>0. cur[t].type = TASK_TYPE_BODY
        BY DEF BodyTask
      <4>1. ~Enter(t) /\ ~Exit(t)
        BY <1>3 DEF Enter, RegisterTotal, RegisterWaiting, Wait, Exit, AddFollowUp, Finish, Leave
      <4>2. ~Lex(t) /\ ~Preprocess(t)
        BY <4>0 DEF Lex, LexUnreadable, FindImport, LinkPreload, LinkImport, LexDone, Preprocess,
                    Working, TypeInv, LocalOK, TASK_LEX, TASK_PREPROCESS_AND_PARSE, TASK_TYPE_BODY
      <4>3. ~Generate(t)
        BY <4>0 DEF Generate, QuickCheck, RunOnce, GenerateScope, GenerateMachineCode, Working,
                    TypeInv, LocalOK, GenerateTypes, TASK_GEN_BYTECODE, TASK_GEN_BYTECODE_RUNDIR,
                    TASK_GEN_MACHINE_CODE, TASK_TYPE_BODY
      <4>4. TypeCheck(t) => Call(t) \/ DeclareUsage(t)
        BY <1>3, <4>0 DEF TypeCheck, Snapshot, TypeEnums, TypeStructs, JudgeRequeue, JudgeGiveUp,
                          Requeue, TypeFunctions, Working, JudgesStructs, TASK_TYPE_BODY,
                          TASK_TYPE_ENUMS, TASK_TYPE_STRUCTS, TASK_TYPE_FUNCTIONS
      <4> QED
        BY <4>1, <4>2, <4>3, <4>4 DEF processImports
    <3> QED
      BY <1>0, <3>1 DEF Call, DeclareUsage, Goto, Holds, Handling
  <2>3. \A fn \in checking' : \E u \in Threads :
           Holds(u)' /\ cur'[u] \in BodyTask /\ cur'[u].function = fn
    BY <1>0, <2>1, <2>2 DEF CheckingHeld, Holds, Handling
  <2> QED
    BY <2>3 DEF CheckingHeld, BodyTask, CompilerTask
<1> QED
  BY <1>1, <1>2, <1>3

\* What is known about the age of the output stays known.
LEMMA ModifiedStaysKnown ==
    ASSUME TypeInv, NEW t \in Threads, processImports(t)
    PROVE  modified_known => modified_known'
<1>1. CASE Enter(t) \/ Exit(t)
  BY <1>1 DEF Enter, RegisterTotal, RegisterWaiting, Wait, Select, SelectTask, SelectFinished,
              SelectStuck, SelectNothing, Discard, Exit, AddFollowUp, Finish, Leave, verdict
<1>2. CASE Lex(t) \/ Preprocess(t)
  BY <1>2 DEF Lex, LexUnreadable, FindImport, LinkPreload, LinkImport, LexDone, Preprocess, verdict
<1>3. CASE TypeCheck(t)
  BY <1>3 DEF TypeCheck, Snapshot, TypeEnums, TypeStructs, JudgeRequeue, JudgeGiveUp, Requeue,
              TypeFunctions, Call, DeclareUsage, BodyDone, verdict
<1>4. CASE Generate(t)
  BY <1>4 DEF Generate, QuickCheck, RunOnce, GenerateScope, GenerateMachineCode, verdict
<1> QED
  BY <1>1, <1>2, <1>3, <1>4 DEF processImports

\* The first signatures task that is picked makes the age known.
LEMMA BeforeModifiedStep ==
    ASSUME \A t, u \in Threads : t = u, TypeInv, JudgesStructs, BeforeModified,
           NEW t \in Threads, processImports(t)
    PROVE  BeforeModified'
<1> DEFINE Early(s) == \A x \in ToSet(s) : x.type <= TASK_TYPE_FUNCTIONS
<1>0. /\ pc \in [Threads -> Labels] /\ tasks \in Seq(CompilerTask)
      /\ cur \in [Threads -> CompilerTask \cup {NoTask}]
      /\ out \in [Threads -> Seq(CompilerTask)] /\ job' = job
      /\ out[t] \in Seq(CompilerTask)
  BY OthersUnchanged DEF TypeInv, TypeOK, LocalTypes, QueueTypes
<1>1. SUFFICES ASSUME job.incremental_build, ~modified_known'
               PROVE  /\ Early(tasks') /\ Early(out'[t])
                      /\ Handling(t)' => cur'[t].type < TASK_TYPE_FUNCTIONS
  BY <1>0 DEF BeforeModified, TASK_TYPE_FUNCTIONS
<1>2. ~modified_known
  BY <1>1, ModifiedStaysKnown
<1>3. /\ Early(tasks) /\ Early(out[t])
      /\ Handling(t) => cur[t].type < TASK_TYPE_FUNCTIONS
  BY <1>1, <1>2 DEF BeforeModified
<1>4. CASE RegisterTotal(t) \/ RegisterWaiting(t) \/ Wait(t) \/ Finish(t) \/ Leave(t)
  <2>1. tasks' = tasks /\ out' = out /\ pc'[t] \in {"register", "wait", "select", "done"}
    BY <1>0, <1>4 DEF RegisterTotal, RegisterWaiting, Wait, Finish, Leave, Goto, queue, local
  <2> QED
    BY <1>3, <2>1 DEF Handling
<1>5. CASE Select(t)
  <2>1. PICK k \in 0..Len(tasks) :
           /\ IsPicked(t, k)
           /\ SelectTask(t, k) \/ SelectFinished(t, k) \/ SelectStuck(t, k) \/ SelectNothing(t, k)
    BY <1>5 DEF Select
  <2>2. out' = out
    BY <2>1 DEF SelectTask, SelectFinished, SelectStuck, SelectNothing, local
  <2>3. CASE SelectTask(t, k)
    <3>1. k \in 1..Len(tasks) /\ tasks' = RemoveAt(tasks, k) /\ cur'[t] = tasks[k]
      BY <1>0, <2>3 DEF SelectTask, Found, TakeTask
    <3>2. ToSet(tasks) = ToSet(tasks') \cup {tasks[k]} /\ tasks[k] \in CompilerTask
      BY <1>0, <3>1, RemoveApart, ElementOfSeq
    <3>3. ~ChecksModified(tasks[k])
      BY <1>1, <2>3 DEF SelectTask
    <3>4. tasks[k].type # TASK_TYPE_FUNCTIONS
      BY <1>1, <1>2, <3>3 DEF ChecksModified
    <3>5. tasks[k].type < TASK_TYPE_FUNCTIONS
      BY <1>3, <3>2, <3>4, TaskFields DEF TASK_TYPE_FUNCTIONS
    <3> QED
      BY <1>3, <2>2, <3>1, <3>2, <3>5
  <2>4. CASE SelectFinished(t, k) \/ SelectStuck(t, k) \/ SelectNothing(t, k)
    <3>1. Discard(k) /\ pc'[t] \in {"leave", "wait"}
      BY <1>0, <2>4 DEF SelectFinished, SelectStuck, SelectNothing, Goto
    <3>2. ToSet(tasks') \subseteq ToSet(tasks)
      BY <3>1, ShortApart DEF Discard
    <3> QED
      BY <1>3, <2>2, <3>1, <3>2 DEF Handling
  <2> QED
    BY <2>1, <2>3, <2>4
<1>6. CASE \/ LexUnreadable(t) \/ LinkPreload(t) \/ LinkImport(t) \/ Snapshot(t)
           \/ JudgeRequeue(t) \/ JudgeGiveUp(t)
  <2>1. /\ tasks' = tasks /\ out' = out /\ cur' = cur
        /\ pc[t] \in {"work", "link_preload", "link", "judge"}
    BY <1>6 DEF LexUnreadable, LinkPreload, LinkImport, Snapshot, JudgeRequeue, JudgeGiveUp,
                Working, queue, local
  <2>2. Handling(t)
    BY <2>1 DEF Handling
  <2> QED
    BY <1>3, <2>1, <2>2
<1>7. CASE FindImport(t)
  <2>1. pc[t] = "work" /\ cur[t].type = TASK_LEX /\ cur' = cur /\ out' = out
    BY <1>7 DEF FindImport, Working
  <2>2. Handling(t) /\ todo[t] \subseteq Imports
    BY <2>1 DEF Handling, TypeInv, LocalOK
  <2>3. PICK d \in todo[t] :
           tasks' = tasks \/ tasks' = Append(tasks, Task(TASK_LEX, d, NoFunction))
    BY <1>7 DEF FindImport
  <2> DEFINE x == Task(TASK_LEX, d, NoFunction)
  <2>4. x \in CompilerTask /\ x.type <= TASK_TYPE_FUNCTIONS
    BY <2>2, PhasesAreTypes DEF Task, CompilerTask, TASK_LEX, TASK_TYPE_FUNCTIONS
  <2>5. tasks' = tasks \/ tasks' = Append(tasks, x)
    BY <2>3
  <2> HIDE DEF x
  <2>6. ToSet(tasks') \subseteq ToSet(tasks) \cup {x}
    BY <1>0, <2>4, <2>5, AppendApart
  <2> QED
    BY <1>3, <2>1, <2>2, <2>4, <2>6
<1>8. CASE LexDone(t) \/ Preprocess(t) \/ TypeEnums(t) \/ TypeStructs(t)
  <2>1. pc[t] \in {"work", "check"} /\ tasks' = tasks /\ cur' = cur
    BY <1>8 DEF LexDone, Preprocess, TypeEnums, TypeStructs, Working, queue
  <2>2. Handling(t)
    BY <2>1 DEF Handling
  <2>3. out' = out \/ \E type \in {TASK_PREPROCESS_AND_PARSE, TASK_TYPE_ENUMS, TASK_TYPE_STRUCTS,
                                    TASK_TYPE_FUNCTIONS} :
                        out' = [out EXCEPT ![t] = FollowUp(t, type)]
    BY <1>8 DEF LexDone, Preprocess, TypeEnums, TypeStructs, Complete, Drop
  <2>4. Early(out'[t])
    <3>1. ASSUME NEW type \in {TASK_PREPROCESS_AND_PARSE, TASK_TYPE_ENUMS, TASK_TYPE_STRUCTS,
                               TASK_TYPE_FUNCTIONS},
                 out' = [out EXCEPT ![t] = FollowUp(t, type)]
          PROVE  Early(out'[t])
      <4>1. ToSet(out'[t]) = {Task(type, cur[t].import, NoFunction)}
        BY <1>0, <3>1, ShortApart DEF FollowUp
      <4>2. type <= TASK_TYPE_FUNCTIONS
        BY DEF TASK_PREPROCESS_AND_PARSE, TASK_TYPE_ENUMS, TASK_TYPE_STRUCTS, TASK_TYPE_FUNCTIONS
      <4> QED
        BY <4>1, <4>2 DEF Task
    <3> QED
      BY <1>3, <2>3, <3>1
  <2> QED
    BY <1>3, <2>1, <2>2, <2>4
<1>9. CASE AddFollowUp(t)
  <2> DEFINE x == Head(out[t])
  <2>1. /\ pc[t] = "post" /\ out[t] # <<>> /\ cur' = cur
        /\ tasks' = Append(tasks, x) /\ out'[t] = Tail(out[t])
    BY <1>0, <1>9 DEF AddFollowUp, TypeInv, LocalOK
  <2>2. Handling(t)
    BY <2>1 DEF Handling
  <2>3. x \in CompilerTask
    BY <1>0, <2>1, HeadTailProperties
  <2>4. ToSet(out[t]) = ToSet(out'[t]) \cup {x}
    BY <1>0, <2>1, TailApart
  <2> HIDE DEF x
  <2>5. ToSet(tasks') = ToSet(tasks) \cup {x}
    BY <1>0, <2>1, <2>3, AppendApart
  <2> QED
    BY <1>3, <2>1, <2>2, <2>4, <2>5
<1>10. CASE Requeue(t)
  <2>1. /\ pc[t] = "requeue" /\ tasks' = <<cur[t]>> \o tasks /\ cur' = cur /\ out' = out
    BY <1>10 DEF Requeue, Reinserted, local
  <2>2. Handling(t) /\ cur[t] \in CompilerTask
    BY <2>1 DEF Handling, TypeInv, LocalOK
  <2> DEFINE s == <<cur[t]>>
  <2>3. s \in Seq(CompilerTask) /\ ToSet(s) = {cur[t]} /\ tasks' = s \o tasks
    BY <2>1, <2>2, ShortApart
  <2> HIDE DEF s
  <2>4. ToSet(tasks') = {cur[t]} \cup ToSet(tasks)
    BY <1>0, <2>3, ConcatApart
  <2>5. cur[t].type <= TASK_TYPE_FUNCTIONS
    BY <1>3, <2>2, TaskFields DEF TASK_TYPE_FUNCTIONS
  <2> QED
    BY <1>3, <2>1, <2>2, <2>4, <2>5
<1>11. /\ ~TypeFunctions(t) /\ ~Call(t) /\ ~DeclareUsage(t) /\ ~BodyDone(t) /\ ~Generate(t)
  <2>1. CASE TypeFunctions(t) \/ Call(t) \/ DeclareUsage(t) \/ BodyDone(t) \/ Generate(t)
    <3>1. Handling(t)
      BY <2>1 DEF TypeFunctions, Call, DeclareUsage, BodyDone, Generate, QuickCheck, RunOnce,
                  GenerateScope, GenerateMachineCode, Working, Handling
    <3>2. cur[t].type \in {TASK_TYPE_FUNCTIONS, TASK_TYPE_BODY, TASK_GEN_MACHINE_CODE} \cup GenerateTypes
      BY <2>1 DEF TypeFunctions, Call, DeclareUsage, BodyDone, Generate, QuickCheck, RunOnce,
                  GenerateScope, GenerateMachineCode, Working, TypeInv, LocalOK
    <3> QED
      BY <1>3, <3>1, <3>2 DEF GenerateTypes, TASK_GEN_BYTECODE, TASK_GEN_BYTECODE_RUNDIR,
                              TASK_GEN_MACHINE_CODE, TASK_TYPE_FUNCTIONS, TASK_TYPE_BODY
  <2> QED
    BY <2>1
<1> QED
  BY <1>4, <1>5, <1>6, <1>7, <1>8, <1>9, <1>10, <1>11
     DEF processImports, Enter, Lex, TypeCheck, Exit

\* The discard of the queue happens at its end: the tasks behind the one picked
\* could have been picked as well.
LEMMA CutAtEnd ==
    ASSUME TypeInv, BeforeModified, checking = {}, NEW t \in Threads,
           NEW k \in 0..Len(tasks), IsPicked(t, k), CutShort(k)
    PROVE  k = Len(tasks)
<1> DEFINE l == Len(tasks)
<1>0. /\ tasks \in Seq(CompilerTask) /\ l \in Nat /\ DOMAIN tasks = 1..l
      /\ k # 0 /\ k \in 1..l
  BY LenProperties DEF TypeInv, TypeOK, QueueTypes, CutShort
<1>1. /\ tasks[k].type = TASK_TYPE_FUNCTIONS /\ job.incremental_build /\ ~modified_known
      /\ Pickable(tasks[k], state)
  BY <1>0 DEF CutShort, ChecksModified, IsPicked
<1>2. NothingQueuedBefore(TASK_TYPE_FUNCTIONS)
  BY <1>1 DEF Pickable, TASK_LEX, TASK_PREPROCESS_AND_PARSE, TASK_TYPE_ENUMS, TASK_TYPE_STRUCTS,
              TASK_TYPE_FUNCTIONS
<1>3. tasks[l].type = TASK_TYPE_FUNCTIONS
  <2>1. l \in 1..l /\ tasks[l] \in ToSet(tasks) /\ tasks[l].type \in Nat
    <3>1. l \in 1..l
      BY <1>0
    <3>2. tasks[l] \in CompilerTask
      BY <1>0, <3>1, ElementOfSeq
    <3> QED
      BY <1>0, <3>1, <3>2, TaskFields DEF ToSet
  <2>2. tasks[l].type <= TASK_TYPE_FUNCTIONS
    BY <1>1, <2>1 DEF BeforeModified
  <2>3. tasks[l].type >= TASK_TYPE_FUNCTIONS
    BY <1>0, <1>2, <2>1 DEF NothingQueuedBefore
  <2> QED
    BY <2>1, <2>2, <2>3 DEF TASK_TYPE_FUNCTIONS
<1>4. \A seen : Pickable(tasks[l], seen)
  BY <1>2, <1>3 DEF Pickable, TASK_LEX, TASK_PREPROCESS_AND_PARSE, TASK_TYPE_ENUMS,
                    TASK_TYPE_STRUCTS, TASK_TYPE_FUNCTIONS
<1>5. \A m \in (k + 1)..l : ~Pickable(tasks[m], StateBefore(t))
  BY DEF IsPicked
<1>6. ~(l \in (k + 1)..l)
  BY <1>4, <1>5
<1> HIDE DEF l
<1>7. k = l
  BY <1>0, <1>6
<1> QED
  BY <1>7 DEF l

\* A thread that is alone never has to give up.
LEMMA LeftEmptyStep ==
    ASSUME \A t, u \in Threads : t = u, TypeInv, ChainInv, BarrierInv, DepsFound, CheckingHeld,
           BeforeModified, LeftEmpty, NEW t \in Threads, processImports(t)
    PROVE  LeftEmpty'
<1>0. /\ pc \in [Threads -> Labels] /\ tasks \in Seq(CompilerTask)
      /\ state \in [Imports -> SUBSET TaskTypes] /\ errors \in Nat /\ errors' \in Nat
      /\ errors' >= errors
  <2>1. errors' >= errors
    BY ProperBefore
  <2>2. TypeInv'
    BY TypeStep DEF Next
  <2> QED
    BY <2>1, <2>2 DEF TypeInv, TypeOK, LocalTypes, QueueTypes, DataTypes
<1>1. CASE Select(t)
  <2>1. PICK k \in 0..Len(tasks) :
           /\ IsPicked(t, k)
           /\ SelectTask(t, k) \/ SelectFinished(t, k) \/ SelectStuck(t, k) \/ SelectNothing(t, k)
    BY <1>1 DEF Select
  <2>2. \A u \in Threads : ~Handling(u)
    BY <1>1 DEF Select, Handling
  <2>3. checking = {}
    BY <2>2 DEF CheckingHeld, Holds
  <2>4. CASE SelectTask(t, k)
    <3>1. pc'[t] = "work" /\ compiler_got_stuck' = compiler_got_stuck
      BY <1>0, <2>4 DEF SelectTask, TakeTask, Goto
    <3> QED
      BY <3>1 DEF LeftEmpty
  <2>5. CASE SelectFinished(t, k)
    <3>1. compiler_got_stuck' = compiler_got_stuck /\ tasks' = <<>>
      BY <2>5 DEF SelectFinished, Finished, Discard
    <3> QED
      BY <3>1 DEF LeftEmpty
  <2>6. CASE SelectStuck(t, k)
    <3>1. errors # 0
      <4> SUFFICES ASSUME errors = 0 PROVE FALSE
        OBVIOUS
      <4>1. ~Found(k) /\ ~Finished(k) /\ tasks # <<>>
        BY <2>6 DEF SelectStuck, Finished
      <4>2. CASE k = 0
        <5>1. PICK l \in 1..Len(tasks) : Pickable(tasks[l], state)
          BY <2>2, <4>1, CanPick
        <5>2. StateBefore(t) = state
          BY <1>0 DEF StateBefore
        <5> QED
          BY <2>1, <4>2, <5>1, <5>2 DEF IsPicked
      <4>3. CASE k # 0
        <5>1. CutShort(k)
          BY <4>1, <4>3 DEF Found
        <5>2. k = Len(tasks)
          BY <2>1, <2>3, <5>1, CutAtEnd
        <5> QED
          BY <4>1, <5>1, <5>2 DEF Finished
      <4> QED
        BY <4>2, <4>3
    <3>2. errors' = errors
      BY <2>6 DEF SelectStuck, data
    <3>3. compiler_got_stuck' = (compiler_got_stuck \/ errors = 0)
      BY <2>6 DEF SelectStuck
    <3>4. ~compiler_got_stuck'
      BY <3>1, <3>3, Zenon DEF LeftEmpty
    <3> QED
      BY <3>1, <3>2, <3>4 DEF LeftEmpty
  <2>7. CASE SelectNothing(t, k)
    <3>1. pc'[t] = "wait" /\ compiler_got_stuck' = compiler_got_stuck
      BY <1>0, <2>7 DEF SelectNothing, Goto
    <3> QED
      BY <3>1 DEF LeftEmpty
  <2> QED
    BY <2>1, <2>4, <2>5, <2>6, <2>7
<1>2. CASE RegisterTotal(t) \/ RegisterWaiting(t) \/ Wait(t) \/ Finish(t)
  <2>1. pc'[t] \in {"register", "wait", "select"} /\ compiler_got_stuck' = compiler_got_stuck
    BY <1>0, <1>2 DEF RegisterTotal, RegisterWaiting, Wait, Finish, Goto, verdict
  <2> QED
    BY <2>1 DEF LeftEmpty
<1>3. CASE Leave(t)
  <2>1. /\ pc[t] = "leave" /\ tasks' = tasks /\ errors' = errors
        /\ compiler_got_stuck' = compiler_got_stuck
    BY <1>3 DEF Leave, queue, data, verdict
  <2> QED
    BY <2>1 DEF LeftEmpty
<1>4. CASE ~ChangesBaton(t)
  <2>1. Handling(t)'
    BY <1>4, HandlingStep
  <2>2. compiler_got_stuck' = compiler_got_stuck
    <3>1. CASE Lex(t) \/ Preprocess(t) \/ AddFollowUp(t)
      BY <3>1 DEF Lex, LexUnreadable, FindImport, LinkPreload, LinkImport, LexDone, Preprocess,
                  AddFollowUp, verdict
    <3>2. CASE TypeCheck(t)
      BY <3>2 DEF TypeCheck, Snapshot, TypeEnums, TypeStructs, JudgeRequeue, JudgeGiveUp, Requeue,
                  TypeFunctions, Call, DeclareUsage, BodyDone, verdict
    <3>3. CASE Generate(t)
      BY <3>3 DEF Generate, QuickCheck, RunOnce, GenerateScope, GenerateMachineCode, verdict
    <3> QED
      BY <1>4, <3>1, <3>2, <3>3 DEF processImports, ChangesBaton, Enter, Exit
  <2> QED
    BY <2>1, <2>2 DEF LeftEmpty, Handling
<1> QED
  BY <1>1, <1>2, <1>3, <1>4 DEF ChangesBaton

\* What the theorems below rest on, in one invariant.
LEMMA LeavingInvCorrect ==
    (\A t, u \in Threads : t = u) =>
        (Spec => [](DepsFound /\ CheckingHeld /\ BeforeModified /\ LeftEmpty))
<1> SUFFICES ASSUME \A t, u \in Threads : t = u
             PROVE  Spec => [](DepsFound /\ CheckingHeld /\ BeforeModified /\ LeftEmpty)
  OBVIOUS
<1> DEFINE Inv == DepsFound /\ CheckingHeld /\ BeforeModified /\ LeftEmpty
<1>1. Init => Inv
  <2> SUFFICES ASSUME Init PROVE Inv
    OBVIOUS
  <2>1. \A t \in Threads : pc[t] = "start" /\ out[t] = <<>>
    BY DEF Init
  <2>2. job \in JobType /\ Preload \subseteq Imports /\ Preload \subseteq imports
    BY JobsAssumption DEF Init, Preload, HasPreload, JobType
  <2>3. DepsFound
    BY <2>1, <2>2 DEF Init, DepsFound
  <2>4. CheckingHeld
    BY DEF Init, CheckingHeld
  <2>5. \A x \in ToSet(tasks) : x.type = TASK_LEX
    BY InitialTasks DEF Task
  <2>6. ToSet(<< >>) = {}
    BY ShortApart
  <2>7. BeforeModified
    BY <2>1, <2>5, <2>6 DEF BeforeModified, Handling, TASK_LEX, TASK_TYPE_FUNCTIONS
  <2>8. LeftEmpty
    BY <2>1 DEF Init, LeftEmpty
  <2> QED
    BY <2>3, <2>4, <2>7, <2>8
<1>2. Inv /\ TypeInv /\ ChainInv /\ JudgesStructs /\ BarrierInv /\ [Next]_vars => Inv'
  <2> SUFFICES ASSUME Inv, TypeInv, ChainInv, JudgesStructs, BarrierInv, [Next]_vars PROVE Inv'
    OBVIOUS
  <2>1. CASE UNCHANGED vars
    BY <2>1 DEF vars, queue, data, baton, verdict, local, DepsFound, CheckingHeld, BeforeModified,
                LeftEmpty, Holds, Handling, Preload, HasPreload, BodyTask, CompilerTask
  <2>2. ASSUME NEW t \in Threads, processImports(t) PROVE Inv'
    BY <2>2, DepsFoundStep, CheckingStep, BeforeModifiedStep, LeftEmptyStep
  <2> QED
    BY <2>1, <2>2 DEF Next, AfterReturn
<1> QED
  BY <1>1, <1>2, TypeInvCorrect, ChainCorrect, BarrierInvCorrect, PTL DEF Spec

\* With one thread the compiler never says that it has a bug: as long as there
\* are tasks and no errors one of them can be picked.
THEOREM NeverStuckCorrect == (\A t, u \in Threads : t = u) => (Spec => []NeverStuck)
<1> SUFFICES ASSUME \A t, u \in Threads : t = u PROVE Spec => []NeverStuck
  OBVIOUS
<1>1. LeftEmpty => NeverStuck
  BY DEF LeftEmpty, NeverStuck
<1> QED
  BY <1>1, LeavingInvCorrect, PTL

-----------------------------------------------------------------------------
(* Nothing that was found or used is dropped, with one thread.              *)

\* A body is begun when its function is used, or about to be, and that of an
\* import when its signatures have been typed; errors and the verdict excuse it.
UsedBegun ==
    Proper =>
        /\ used \subseteq Begun
        /\ \A t \in Threads : pc[t] = "declare" => target[t] \in Begun
        /\ job.has_entry_point =>
              \A i \in imports : TASK_TYPE_FUNCTIONS \in state[i] => i \in Begun

\* A body that has been begun stays so while its task is not lost.
LEMMA BegunGrows ==
    ASSUME body_checks' = body_checks, InFlight \cap BodyTask \subseteq InFlight'
    PROVE  Begun \subseteq Begun'
<1>1. Pending \subseteq Pending'
  BY DEF Pending, BodyTask, CompilerTask
<1> QED
  BY <1>1 DEF Begun

\* A step that loses no task keeps what has been begun, and begins nothing.
LEMMA UsedKeeps ==
    ASSUME \A t, u \in Threads : t = u, TypeInv, ChainInv, UsedBegun,
           NEW t \in Threads, processImports(t),
           body_checks' = body_checks, InFlight \cap BodyTask \subseteq InFlight', used' = used,
           pc'[t] # "declare",
           \A i \in Imports : TASK_TYPE_FUNCTIONS \in state'[i] => TASK_TYPE_FUNCTIONS \in state[i]
    PROVE  UsedBegun'
<1>1. SUFFICES ASSUME Proper'
               PROVE  /\ used' \subseteq Begun'
                      /\ job'.has_entry_point =>
                            \A i \in imports' : TASK_TYPE_FUNCTIONS \in state'[i] => i \in Begun'
  BY DEF UsedBegun, TASK_TYPE_FUNCTIONS
<1>2. Proper /\ Begun \subseteq Begun' /\ job' = job
  BY <1>1, ProperBefore, BegunGrows, OthersUnchanged DEF TypeInv, TypeOK
<1>3. imports' \subseteq Imports /\ imports \subseteq Imports
  BY TypeStep DEF TypeInv, TypeOK, QueueTypes, Next
<1>4. ASSUME NEW i \in imports', TASK_TYPE_FUNCTIONS \in state'[i]
      PROVE  i \in imports /\ TASK_TYPE_FUNCTIONS \in state[i]
  BY <1>3, <1>4 DEF ChainInv, StatesInOrder
<1> QED
  BY <1>2, <1>4 DEF UsedBegun

\* A handler of a phase has no body in hand.
LEMMA UsedPhase ==
    ASSUME \A t, u \in Threads : t = u, TypeInv, ChainInv, UsedBegun,
           NEW t \in Threads, processImports(t),
           Holds(t), cur[t] \in PhaseTask, ToSet(tasks) \subseteq ToSet(tasks'),
           body_checks' = body_checks, used' = used, pc'[t] # "declare",
           state' = state \/ (cur[t].type # TASK_TYPE_FUNCTIONS /\ \E s : Complete(t, s))
    PROVE  UsedBegun'
<1>1. /\ out[t] = <<>> /\ cur[t] \notin BodyTask /\ cur[t].import \in Imports
      /\ state \in [Imports -> SUBSET TaskTypes]
  <2>1. pc[t] # "post" /\ cur[t] \in CompilerTask
    BY PhaseOrBody DEF Holds
  <2>2. cur[t].import \in Imports
    BY <2>1, TaskFields
  <2> QED
    BY <2>1, <2>2, PhaseOrBody DEF ChainInv, ThreadInOrder, TypeInv, TypeOK, DataTypes
<1>2. InFlight = ToSet(tasks) \cup {cur[t]}
  BY <1>1, OneThread, ShortApart DEF Held
<1>3. ToSet(tasks') \subseteq InFlight'
  BY OneThread
<1>4. InFlight \cap BodyTask \subseteq InFlight'
  BY <1>1, <1>2, <1>3
<1>5. \A i \in Imports : TASK_TYPE_FUNCTIONS \in state'[i] => TASK_TYPE_FUNCTIONS \in state[i]
  BY <1>1 DEF Complete
<1> QED
  BY <1>4, <1>5, UsedKeeps

\* Picking a task and handing on the next one move tasks; only the discard of
\* the queue drops any.
LEMMA UsedSelect ==
    ASSUME \A t, u \in Threads : t = u, TypeInv, ChainInv, UsedBegun, NEW t \in Threads, Select(t)
    PROVE  UsedBegun'
<1>0. /\ tasks \in Seq(CompilerTask) /\ pc \in [Threads -> Labels] /\ processImports(t)
      /\ cur \in [Threads -> CompilerTask \cup {NoTask}]
  BY DEF TypeInv, TypeOK, QueueTypes, LocalTypes, processImports, Enter
<1>1. SUFFICES ASSUME Proper' PROVE UsedBegun'
  BY DEF UsedBegun
<1>2. PICK k \in 0..Len(tasks) :
         SelectTask(t, k) \/ SelectFinished(t, k) \/ SelectStuck(t, k) \/ SelectNothing(t, k)
  BY DEF Select
<1>3. /\ state' = state /\ used' = used /\ body_checks' = body_checks /\ out' = out
      /\ Held(t) = {} /\ pc'[t] \in {"work", "leave", "wait"}
  BY <1>0, <1>2 DEF Select, SelectTask, SelectFinished, SelectStuck, SelectNothing, TakeTask, data,
                    local, Held, Holds, Handling, Goto
<1>4. InFlight \subseteq InFlight'
  <2>1. InFlight = ToSet(tasks) \cup ToSet(out[t])
    BY <1>3, OneThread
  <2>2. InFlight' = ToSet(tasks') \cup ToSet(out[t]) \cup Held(t)'
    BY <1>3, OneThread
  <2>3. CASE SelectTask(t, k)
    <3>1. /\ k \in 1..Len(tasks) /\ tasks' = RemoveAt(tasks, k)
          /\ pc'[t] = "work" /\ cur'[t] = tasks[k]
      BY <1>0, <2>3 DEF SelectTask, Found, TakeTask, Goto
    <3>2. ToSet(tasks) = ToSet(tasks') \cup {tasks[k]}
      BY <1>0, <3>1, RemoveApart
    <3>3. Held(t)' = {tasks[k]}
      BY <3>1 DEF Held, Holds, Handling
    <3> QED
      BY <2>1, <2>2, <3>2, <3>3
  <2>4. CASE SelectFinished(t, k) \/ SelectStuck(t, k) \/ SelectNothing(t, k)
    <3>1. Discard(k)
      BY <2>4 DEF SelectFinished, SelectStuck, SelectNothing
    <3>2. ~CutShort(k)
      BY <1>1, <3>1 DEF Discard, Proper
    <3>3. tasks' = tasks
      BY <3>1, <3>2 DEF Discard
    <3> QED
      BY <2>1, <2>2, <3>3
  <2> QED
    BY <1>2, <2>3, <2>4
<1> QED
  BY <1>0, <1>3, <1>4, UsedKeeps

\* What a handler has yet to queue is queued one by one.
LEMMA UsedAdd ==
    ASSUME \A t, u \in Threads : t = u, TypeInv, ChainInv, UsedBegun, NEW t \in Threads,
           AddFollowUp(t)
    PROVE  UsedBegun'
<1> DEFINE x == Head(out[t])
<1>0. /\ tasks \in Seq(CompilerTask) /\ out \in [Threads -> Seq(CompilerTask)]
      /\ out[t] \in Seq(CompilerTask) /\ pc \in [Threads -> Labels] /\ out[t] # <<>>
      /\ pc[t] = "post" /\ processImports(t)
  BY DEF TypeInv, TypeOK, QueueTypes, LocalTypes, LocalOK, AddFollowUp, processImports, Exit
<1>1. /\ tasks' = Append(tasks, x) /\ out'[t] = Tail(out[t]) /\ state' = state
      /\ used' = used /\ body_checks' = body_checks /\ pc'[t] \in {"finish", "post"}
  BY <1>0 DEF AddFollowUp, data, Goto
<1>2. x \in CompilerTask
  BY <1>0, HeadTailProperties
<1>3. ToSet(out[t]) = ToSet(out'[t]) \cup {x}
  BY <1>0, <1>1, TailApart
<1> HIDE DEF x
<1>4. ToSet(tasks') = ToSet(tasks) \cup {x}
  BY <1>0, <1>1, <1>2, AppendApart
<1>5. Held(t) = {}
  BY <1>0 DEF Held, Holds
<1>6. InFlight \subseteq InFlight'
  BY <1>3, <1>4, <1>5, OneThread
<1> QED
  BY <1>0, <1>1, <1>6, UsedKeeps

\* The body of a function that is called is queued, or has been before.
LEMMA UsedCall ==
    ASSUME \A t, u \in Threads : t = u, TypeInv, ChainInv, UsedBegun, NEW t \in Threads,
           Call(t) \/ DeclareUsage(t)
    PROVE  UsedBegun'
<1>0. /\ tasks \in Seq(CompilerTask) /\ pc \in [Threads -> Labels] /\ job \in JobType
      /\ target \in [Threads -> Imports \cup Functions \cup OnceSteps \cup {NoImport}]
      /\ pc[t] \in {"work", "declare"} /\ Holds(t) /\ processImports(t)
      /\ cur[t].type = TASK_TYPE_BODY /\ (pc[t] = "work" => todo[t] \subseteq Functions)
  <2>1. pc[t] \in {"work", "declare"} /\ cur[t].type = TASK_TYPE_BODY
    BY DEF Call, DeclareUsage, Working, TypeInv, LocalOK
  <2>2. Holds(t) /\ Handling(t)
    BY <2>1, HoldsTask DEF Holds
  <2> QED
    BY <2>1, <2>2 DEF TypeInv, TypeOK, QueueTypes, LocalTypes, LocalOK, processImports, TypeCheck
<1>1. SUFFICES ASSUME Proper' PROVE UsedBegun'
  BY DEF UsedBegun
<1>2. Proper /\ job' = job
  BY <1>0, <1>1, ProperBefore, OthersUnchanged DEF TypeInv, TypeOK
<1>3. /\ used \subseteq Begun
      /\ pc[t] = "declare" => target[t] \in Begun
      /\ job.has_entry_point =>
            \A i \in imports : TASK_TYPE_FUNCTIONS \in state[i] => i \in Begun
  BY <1>2 DEF UsedBegun
<1>4. /\ body_checks' = body_checks /\ cur' = cur /\ out' = out /\ imports' = imports
      /\ state' = state /\ pc'[t] \in {"work", "declare"}
  BY <1>0 DEF Call, DeclareUsage, data, queue, Goto
<1>5. Held(t)' = Held(t)
  BY <1>0, <1>4 DEF Held, Holds, Handling
<1>6. CASE Call(t)
  <2>1. PICK f \in todo[t] :
           /\ target' = [target EXCEPT ![t] = f]
           /\ tasks' = IF f \in used THEN tasks
                       ELSE Append(tasks, Task(TASK_TYPE_BODY, job.home[f], f))
    BY <1>6 DEF Call
  <2> DEFINE x == Task(TASK_TYPE_BODY, job.home[f], f)
  <2>2. pc[t] = "work" /\ f \in Functions /\ target'[t] = f /\ used' = used
    BY <1>0, <1>6, <2>1 DEF Call, Working, data
  <2>3. x \in BodyTask /\ x \in CompilerTask /\ Subject(x) = f
    BY <1>0, <2>2, JobFields, NamesAssumption DEF Task, BodyTask, CompilerTask, TaskTypes, Subject
  <2>4. tasks' = IF f \in used THEN tasks ELSE Append(tasks, x)
    BY <2>1
  <2> HIDE DEF x
  <2>5. ToSet(tasks') = ToSet(tasks) \cup (IF f \in used THEN {} ELSE {x})
    BY <1>0, <2>3, <2>4, AppendApart
  <2>6. InFlight' = InFlight \cup (IF f \in used THEN {} ELSE {x})
    BY <1>4, <1>5, <2>5, OneThread
  <2>7. Begun \subseteq Begun'
    BY <1>4, <2>6, BegunGrows
  <2>8. f \in Begun'
    <3>1. CASE f \in used
      BY <1>3, <2>7, <3>1
    <3>2. CASE f \notin used
      <4>1. x \in InFlight' /\ x \in BodyTask'
        BY <2>3, <2>6, <3>2 DEF BodyTask, CompilerTask
      <4>2. f \in Pending'
        BY <2>3, <4>1 DEF Pending
      <4> QED
        BY <4>2 DEF Begun
    <3> QED
      BY <3>1, <3>2
  <2> QED
    BY <1>2, <1>3, <1>4, <2>2, <2>7, <2>8 DEF UsedBegun, TASK_TYPE_FUNCTIONS
<1>7. CASE DeclareUsage(t)
  <2>1. /\ pc[t] = "declare" /\ pc'[t] = "work" /\ used' = used \cup {target[t]} /\ tasks' = tasks
    BY <1>0, <1>7 DEF DeclareUsage, Goto, queue
  <2>2. InFlight' = InFlight
    BY <1>4, <1>5, <2>1, OneThread
  <2>3. Begun \subseteq Begun'
    BY <1>4, <2>2, BegunGrows
  <2> QED
    BY <1>2, <1>3, <1>4, <2>1, <2>3 DEF UsedBegun, TASK_TYPE_FUNCTIONS
<1> QED
  BY <1>6, <1>7

\* A body that has been checked is no longer pending: it is counted.
LEMMA UsedBodyDone ==
    ASSUME \A t, u \in Threads : t = u, TypeInv, ChainInv, UsedBegun, NEW t \in Threads, BodyDone(t)
    PROVE  UsedBegun'
<1> DEFINE s == Subject(cur[t])
<1>0. /\ pc \in [Threads -> Labels] /\ pc[t] = "work" /\ Holds(t) /\ out[t] = <<>>
      /\ cur[t] \in BodyTask /\ processImports(t)
      /\ body_checks \in [Imports \cup Functions -> Nat] /\ s \in Imports \cup Functions
  <2>1. pc[t] = "work" /\ cur[t].type = TASK_TYPE_BODY
    BY DEF BodyDone, Working
  <2>2. Holds(t) /\ cur[t] \in BodyTask /\ pc[t] # "post"
    BY <2>1, HoldsTask
  <2> QED
    BY <2>1, <2>2, PhaseOrBody DEF TypeInv, TypeOK, DataTypes, LocalTypes, ChainInv, ThreadInOrder,
                                   processImports, TypeCheck
<1>1. SUFFICES ASSUME Proper' PROVE UsedBegun'
  BY DEF UsedBegun
<1>2. Proper /\ job' = job
  BY <1>0, <1>1, ProperBefore, OthersUnchanged DEF TypeInv, TypeOK
<1>3. /\ pc'[t] = "finish" /\ cur' = cur /\ out' = out /\ tasks' = tasks /\ imports' = imports
      /\ used' = used /\ body_checks' = [body_checks EXCEPT ![s] = @ + 1] /\ state' = state
  BY <1>0 DEF BodyDone, queue, local, Goto
<1>4. InFlight = ToSet(tasks) \cup {cur[t]} /\ ToSet(tasks) \subseteq InFlight'
  <2>1. ToSet(out[t]) = {} /\ ToSet(tasks') = ToSet(tasks) /\ Held(t) = {cur[t]}
    BY <1>0, <1>3, ShortApart DEF Held
  <2>2. /\ InFlight = ToSet(tasks) \cup ToSet(out[t]) \cup Held(t)
        /\ InFlight' = ToSet(tasks') \cup ToSet(out'[t]) \cup Held(t)'
    BY OneThread
  <2> QED
    BY <2>1, <2>2
<1>5. body_checks'[s] > 0
      /\ \A x \in Imports \cup Functions : body_checks[x] > 0 => body_checks'[x] > 0
  <2> HIDE DEF s
  <2> QED
    BY <1>0, <1>3
<1>6. Pending \subseteq Pending' \cup {s}
  BY <1>4 DEF Pending, BodyTask, CompilerTask
<1>7. Begun \subseteq Begun'
  BY <1>0, <1>5, <1>6 DEF Begun
<1> QED
  BY <1>2, <1>3, <1>7 DEF UsedBegun, TASK_TYPE_FUNCTIONS

\* Signatures: what counts as used from the start is queued by the same handler,
\* unless it reports an error.
LEMMA UsedFunctions ==
    ASSUME \A t, u \in Threads : t = u, TypeInv, job \in Jobs, ChainInv, UsedBegun,
           NEW t \in Threads, TypeFunctions(t)
    PROVE  UsedBegun'
<1> DEFINE i == cur[t].import
           exports == FunctionBodies(i, job.exported \ used)
           E == Declares(i, job.exported \ used)
           own == BodyTasks(i)
           gen == Task(TASK_GEN_BYTECODE, i, NoFunction)
<1>0. /\ pc \in [Threads -> Labels] /\ tasks \in Seq(CompilerTask)
      /\ job \in JobType /\ errors \in Nat /\ prev_errors \in [Threads -> Nat]
      /\ out \in [Threads -> Seq(CompilerTask)] /\ state \in [Imports -> SUBSET TaskTypes]
      /\ pc[t] = "check" /\ Holds(t) /\ out[t] = <<>> /\ processImports(t)
      /\ cur[t] \notin BodyTask /\ cur[t].type = TASK_TYPE_FUNCTIONS /\ i \in Imports
  <2>1. pc[t] = "check" /\ cur[t].type = TASK_TYPE_FUNCTIONS /\ cur[t].type \in ImportPhases
    BY DEF TypeFunctions, Working, ImportPhases
  <2>2. Holds(t) /\ cur[t] \in PhaseTask /\ pc[t] # "post"
    BY <2>1, HoldsTask
  <2>3. out[t] = <<>> /\ i \in Imports /\ cur[t] \notin BodyTask
    BY <2>2, PhaseOrBody DEF ChainInv, ThreadInOrder, PhaseTask, CompilerTask
  <2> QED
    BY <2>1, <2>2, <2>3 DEF TypeInv, TypeOK, QueueTypes, DataTypes, LocalTypes, processImports,
                            TypeCheck
<1>1. SUFFICES ASSUME Proper' PROVE UsedBegun'
  BY DEF UsedBegun
<1>2. Proper /\ job' = job
  BY <1>0, <1>1, ProperBefore, OthersUnchanged DEF TypeInv, TypeOK
<1>3. /\ used \subseteq Begun
      /\ job.has_entry_point =>
            \A j \in imports : TASK_TYPE_FUNCTIONS \in state[j] => j \in Begun
  BY <1>2 DEF UsedBegun
<1>4. /\ tasks' = tasks \o exports /\ imports' = imports /\ body_checks' = body_checks
      /\ used' = used \cup UsedFromStart(i) /\ Complete(t, own \o <<gen>>)
  <2>1. ~HadErrors(t)
    <3>1. errors' = 0 /\ prev_errors[t] \in Nat
      BY <1>0, <1>1 DEF Proper
    <3> QED
      BY <3>1 DEF HadErrors
  <2> QED
    BY <2>1 DEF TypeFunctions, FollowUp
<1>5. E \subseteq Functions /\ UsedFromStart(i) \subseteq used \cup E \cup Declares(i, {job.entry})
  BY <1>0, JobFields DEF Declares, UsedFromStart
<1>6. /\ exports \in Seq(CompilerTask) /\ Subjects(exports, BodyTask) = E
  BY <1>0, <1>5, FunctionBodiesType, FunctionBodiesElements
<1>7. /\ own \in Seq(CompilerTask)
      /\ Subjects(own, BodyTask) =
            IF job.has_entry_point THEN Declares(i, {job.entry}) \cup {i} ELSE {}
  BY <1>0, BodyTasksElements
<1>8. ~job.has_entry_point => Declares(i, {job.entry}) = {}
  BY JobsAssumption DEF Declares
<1>9. gen \in CompilerTask
  BY <1>0 DEF Task, CompilerTask, TaskTypes, ImportPhases
<1> HIDE DEF exports, own, gen, E
<1>10. ToSet(tasks') = ToSet(tasks) \cup ToSet(exports)
  BY <1>0, <1>4, <1>6, ConcatApart
<1>11. pc'[t] = "post" /\ ToSet(own) \subseteq ToSet(out'[t])
       /\ state' = [state EXCEPT ![i] = @ \cup {TASK_TYPE_FUNCTIONS}]
  <2> DEFINE last == <<gen>>
  <2>1. last \in Seq(CompilerTask) /\ Len(last) = 1
    BY <1>9
  <2> HIDE DEF last
  <2>2. ToSet(own \o last) = ToSet(own) \cup ToSet(last) /\ own \o last # <<>>
    <3>1. Len(own \o last) = Len(own) + 1 /\ Len(own) \in Nat
      <4>1. Len(own \o last) = Len(own) + Len(last)
        BY <1>7, <2>1, ConcatProperties
      <4>2. Len(own) \in Nat
        BY <1>7, LenProperties
      <4> QED
        BY <2>1, <4>1, <4>2
    <3>2. own \o last # <<>>
      BY <3>1
    <3> QED
      BY <1>7, <2>1, <3>2, ConcatApart
  <2>3. Complete(t, own \o last)
    BY <1>4 DEF last
  <2> QED
    BY <1>0, <2>2, <2>3 DEF Complete, Goto
<1>12. InFlight \cap BodyTask \subseteq InFlight'
  <2>1. Held(t) = {cur[t]} /\ ToSet(out[t]) = {}
    BY <1>0, ShortApart DEF Held
  <2> QED
    BY <1>0, <1>10, <2>1, OneThread
<1>13. Begun \subseteq Begun'
  BY <1>4, <1>12, BegunGrows
<1>14. Subjects(exports, BodyTask) \cup Subjects(own, BodyTask) \subseteq Begun'
  <2>1. ToSet(exports) \cup ToSet(own) \subseteq InFlight'
    BY <1>10, <1>11, OneThread
  <2>2. Subjects(exports, BodyTask) \cup Subjects(own, BodyTask) \subseteq Pending'
    BY <2>1 DEF Subjects, Pending, BodyTask, CompilerTask
  <2> QED
    BY <2>2 DEF Begun
<1>15. used' \subseteq Begun'
  BY <1>3, <1>4, <1>5, <1>6, <1>7, <1>8, <1>13, <1>14
<1>16. job.has_entry_point =>
          \A j \in imports : TASK_TYPE_FUNCTIONS \in state'[j] => j \in Begun'
  <2> SUFFICES ASSUME job.has_entry_point, NEW j \in imports, TASK_TYPE_FUNCTIONS \in state'[j]
               PROVE  j \in Begun'
    OBVIOUS
  <2>1. CASE j = i
    BY <1>7, <1>14, <2>1
  <2>2. CASE j # i
    <3>1. j \in Imports /\ state'[j] = state[j]
      BY <1>0, <1>11, <2>2 DEF TypeInv, TypeOK, QueueTypes
    <3> QED
      BY <1>3, <1>13, <3>1
  <2> QED
    BY <2>1, <2>2
<1> QED
  BY <1>2, <1>4, <1>11, <1>15, <1>16 DEF UsedBegun, TASK_TYPE_FUNCTIONS

\* Every step of the only thread keeps what is used begun.
LEMMA UsedNext ==
    ASSUME \A t, u \in Threads : t = u, TypeInv, job \in Jobs, ChainInv, JudgesStructs, UsedBegun,
           NEW t \in Threads, processImports(t)
    PROVE  UsedBegun'
<1>0. pc \in [Threads -> Labels] /\ tasks \in Seq(CompilerTask)
  BY DEF TypeInv, TypeOK, LocalTypes, QueueTypes
<1>1. CASE RegisterTotal(t) \/ RegisterWaiting(t) \/ Wait(t) \/ Finish(t) \/ Leave(t)
  <2>1. /\ used' = used /\ body_checks' = body_checks /\ state' = state /\ tasks' = tasks
        /\ out' = out /\ Held(t) = {} /\ pc'[t] \in {"register", "wait", "select", "done"}
    BY <1>0, <1>1 DEF RegisterTotal, RegisterWaiting, Wait, Finish, Leave, Goto, data, queue, local,
                      Held, Holds, Handling
  <2>2. InFlight \subseteq InFlight'
    BY <2>1, OneThread
  <2> QED
    BY <2>1, <2>2, UsedKeeps
<1>2. CASE LexUnreadable(t) \/ LinkPreload(t) \/ LinkImport(t) \/ Snapshot(t) \/ JudgeRequeue(t)
           \/ JudgeGiveUp(t) \/ QuickCheck(t) \/ RunOnce(t)
  <2>1. /\ used' = used /\ body_checks' = body_checks /\ tasks' = tasks /\ state' = state
        /\ pc[t] \in {"work", "link_preload", "link", "judge", "once"}
    BY <1>2 DEF LexUnreadable, LinkPreload, LinkImport, Snapshot, JudgeRequeue, JudgeGiveUp,
                QuickCheck, RunOnce, Working, data, queue
  <2>2. pc'[t] # "declare"
    BY <1>0, <1>2 DEF LexUnreadable, LinkPreload, LinkImport, Snapshot, JudgeRequeue, JudgeGiveUp,
                      QuickCheck, RunOnce, Advance, Goto
  <2>3. cur[t].type \in ImportPhases
    BY <1>2 DEF LexUnreadable, LinkPreload, LinkImport, Snapshot, JudgeRequeue, JudgeGiveUp,
                QuickCheck, RunOnce, Working, JudgesStructs, TypeInv, LocalOK, GenerateTypes,
                ImportPhases
  <2>4. Holds(t) /\ cur[t] \in PhaseTask
    BY <2>1, <2>3, HoldsTask
  <2> QED
    BY <2>1, <2>2, <2>4, UsedPhase
<1>3. CASE LexDone(t) \/ Preprocess(t) \/ TypeEnums(t) \/ TypeStructs(t) \/ GenerateScope(t)
           \/ GenerateMachineCode(t)
  <2>1. /\ used' = used /\ body_checks' = body_checks /\ tasks' = tasks
        /\ pc[t] \in {"work", "check"}
        /\ cur[t].type \in ImportPhases \ {TASK_TYPE_FUNCTIONS}
    BY <1>3 DEF LexDone, Preprocess, TypeEnums, TypeStructs, GenerateScope, GenerateMachineCode,
                Working, queue, GenerateTypes, ImportPhases, TASK_LEX, TASK_PREPROCESS_AND_PARSE,
                TASK_TYPE_ENUMS, TASK_TYPE_STRUCTS, TASK_TYPE_FUNCTIONS, TASK_GEN_BYTECODE,
                TASK_GEN_BYTECODE_RUNDIR, TASK_GEN_MACHINE_CODE
  <2>2. state' = state \/ \E s : Complete(t, s)
    BY <1>3 DEF LexDone, Preprocess, TypeEnums, TypeStructs, GenerateScope, GenerateMachineCode,
                Drop
  <2>3. pc'[t] # "declare"
    BY <1>0, <1>3 DEF LexDone, Preprocess, TypeEnums, TypeStructs, GenerateScope,
                      GenerateMachineCode, Complete, Drop, Goto
  <2>4. Holds(t) /\ cur[t] \in PhaseTask
    BY <2>1, HoldsTask
  <2> QED
    BY <2>1, <2>2, <2>3, <2>4, UsedPhase
<1>4. CASE FindImport(t)
  <2>1. /\ pc[t] = "work" /\ cur[t].type = TASK_LEX /\ cur[t].type \in ImportPhases
        /\ used' = used /\ body_checks' = body_checks /\ state' = state
    BY <1>4 DEF FindImport, Working, data, ImportPhases
  <2>2. Holds(t) /\ cur[t] \in PhaseTask /\ Handling(t)
    BY <2>1, HoldsTask DEF Holds
  <2>3. pc'[t] # "declare"
    BY <1>0, <1>4, <2>1 DEF FindImport, Goto
  <2>4. PICK d \in todo[t] :
           tasks' = tasks \/ tasks' = Append(tasks, Task(TASK_LEX, d, NoFunction))
    BY <1>4 DEF FindImport
  <2> DEFINE x == Task(TASK_LEX, d, NoFunction)
  <2>5. x \in CompilerTask
    BY <2>1, <2>2 DEF Task, CompilerTask, TaskTypes, ImportPhases, TypeInv, LocalOK
  <2>6. tasks' = tasks \/ tasks' = Append(tasks, x)
    BY <2>4
  <2> HIDE DEF x
  <2>7. ToSet(tasks) \subseteq ToSet(tasks')
    <3>1. ToSet(Append(tasks, x)) = ToSet(tasks) \cup {x}
      BY <1>0, <2>5, AppendApart
    <3> QED
      BY <2>6, <3>1
  <2> QED
    BY <2>1, <2>2, <2>3, <2>7, UsedPhase
<1>5. CASE Requeue(t)
  <2>1. /\ pc[t] = "requeue" /\ pc'[t] = "finish" /\ cur[t].type \in ImportPhases
        /\ used' = used /\ body_checks' = body_checks /\ state' = state
        /\ tasks' = <<cur[t]>> \o tasks
    BY <1>0, <1>5 DEF Requeue, Reinserted, data, Goto, JudgesStructs, ImportPhases
  <2>2. Holds(t) /\ cur[t] \in PhaseTask /\ cur[t] \in CompilerTask
    BY <2>1, HoldsTask
  <2> DEFINE s == <<cur[t]>>
  <2>3. s \in Seq(CompilerTask) /\ tasks' = s \o tasks
    BY <2>1, <2>2
  <2> HIDE DEF s
  <2>4. ToSet(tasks) \subseteq ToSet(tasks')
    BY <1>0, <2>3, ConcatApart
  <2> QED
    BY <2>1, <2>2, <2>4, UsedPhase
<1> QED
  BY <1>1, <1>2, <1>3, <1>4, <1>5, UsedSelect, UsedFunctions, UsedCall, UsedBodyDone, UsedAdd
     DEF processImports, Enter, Lex, TypeCheck, Generate, Exit

\* Bodies are begun for everything that is used.
LEMMA UsedBegunCorrect == (\A t, u \in Threads : t = u) => (Spec => []UsedBegun)
<1> SUFFICES ASSUME \A t, u \in Threads : t = u PROVE Spec => []UsedBegun
  OBVIOUS
<1>1. Init => UsedBegun
  BY TypeInit DEF Init, UsedBegun, TypeInv, TypeOK, QueueTypes
<1>2. TypeInv /\ job \in Jobs /\ ChainInv /\ JudgesStructs /\ UsedBegun /\ [Next]_vars => UsedBegun'
  <2> SUFFICES ASSUME TypeInv, job \in Jobs, ChainInv, JudgesStructs, UsedBegun, [Next]_vars
               PROVE  UsedBegun'
    OBVIOUS
  <2>1. CASE UNCHANGED vars
    <3>1. \A t : Held(t)' = Held(t)
      BY <2>1 DEF vars, local, Held, Holds, Handling
    <3>2. InFlight' = InFlight
      BY <2>1, <3>1 DEF vars, queue, local, InFlight
    <3>3. Begun' = Begun
      BY <2>1, <3>2 DEF vars, data, Pending, Begun, BodyTask, CompilerTask
    <3> QED
      BY <2>1, <3>3 DEF vars, queue, data, verdict, local, UsedBegun, Proper, TASK_TYPE_FUNCTIONS
  <2>2. ASSUME NEW t \in Threads, processImports(t) PROVE UsedBegun'
    BY <2>2, UsedNext
  <2> QED
    BY <2>1, <2>2 DEF Next, AfterReturn
<1>3. Spec => [](job \in Jobs /\ BodyInv)
  BY BodyInvCorrect
<1> QED
  BY <1>1, <1>2, <1>3, TypeInvCorrect, ChainCorrect, PTL DEF Spec

\* With one thread a compilation that reports no error drops nothing: every
\* import found has been through every phase, and the body of every function
\* used and of every import has been checked.
THEOREM NothingDroppedCorrect == (\E t : Threads = {t}) => (Spec => []NothingDropped)
<1> SUFFICES ASSUME NEW t, Threads = {t} PROVE Spec => []NothingDropped
  OBVIOUS
<1>1. \A u, v \in Threads : u = v
  OBVIOUS
<1>2. TypeInv /\ ChainInv /\ BarrierInv /\ LeftEmpty /\ UsedBegun => NothingDropped
  <2> SUFFICES ASSUME TypeInv, ChainInv, BarrierInv, LeftEmpty, UsedBegun,
                      Returned, errors = 0, ~output_is_up_to_date, ~job.only_preprocess
               PROVE  /\ tasks = <<>>
                      /\ \A i \in imports : ImportPhases \subseteq state[i]
                      /\ \A x \in used \cup (IF job.has_entry_point THEN imports ELSE {}) :
                            body_checks[x] > 0
    BY DEF NothingDropped
  <2>1. pc[t] = "done" /\ tasks = <<>> /\ out[t] = <<>> /\ Proper
    BY DEF Returned, LeftEmpty, ChainInv, ThreadInOrder, Proper
  <2>2. ~Owns(t) /\ Held(t) = {} /\ ToSet(tasks) = {} /\ ToSet(out[t]) = {}
    BY <2>1, ShortApart DEF Owns, Held, Holds, Handling
  <2>3. \A i \in imports : state[i] = ImportPhases
    BY <2>1, <2>2 DEF BarrierInv, AllOnTheWay, Ended, OnTheWay, Subjects
  <2>4. InFlight = {} /\ Pending = {}
    BY <2>2 DEF InFlight, Pending
  <2>5. TASK_TYPE_FUNCTIONS \in ImportPhases
    BY DEF ImportPhases
  <2>6. used \cup (IF job.has_entry_point THEN imports ELSE {}) \subseteq Begun
    BY <2>1, <2>3, <2>5 DEF UsedBegun
  <2> QED
    BY <2>1, <2>3, <2>4, <2>6 DEF Begun
<1>3. Spec => [](DepsFound /\ CheckingHeld /\ BeforeModified /\ LeftEmpty)
  BY <1>1, LeavingInvCorrect
<1>4. (Spec => []BarrierInv) /\ (Spec => []UsedBegun)
  BY <1>1, BarrierInvCorrect, UsedBegunCorrect
<1> QED
  BY <1>2, <1>3, <1>4, TypeInvCorrect, ChainCorrect, PTL

-----------------------------------------------------------------------------
(* Giving up on structs, with one thread.                                   *)

\* A sweep over the import would complete no struct.
Settled(i) == Sweep(i) = complete

\* No sweep over any import would complete a struct any more.
NoneLeft == \A i \in imports : TASK_TYPE_ENUMS \in state[i] /\ Settled(i)

\* The first b tasks of the queue are those that were put back into it since a
\* struct was completed.  An import is unswept when it is not among them, is not
\* in the hands of who puts it back, and has structs to go through.
SweptUpTo(b) == \A k \in 1..b : tasks[k].type = TASK_TYPE_STRUCTS /\ Settled(tasks[k].import)
Judged == {cur[t].import : t \in {u \in Threads : pc[u] \in {"judge", "requeue"}}}
Unswept(b) == {i \in imports \ Judged : /\ TASK_TYPE_STRUCTS \notin state[i]
                                        /\ \A k \in 1..b : tasks[k].import # i}

\* The counter counts the imports swept since: it exceeds their number only when
\* all have been swept in vain.
Counted(b) == SweptUpTo(b) /\ stall + Cardinality(Unswept(b)) <= Cardinality(imports)
SweepsCounted == Proper => NoneLeft \/ \E b \in 0..Len(tasks) : Counted(b)

\* An import is put back when the sweep over it was in vain, or completed structs
\* and so reset the counter.
RequeuedRightly ==
    \A t \in Threads : pc[t] = "requeue" /\ stall > 0 => Settled(cur[t].import)

\* The structs of an import that is done with them are complete.
StructsDone == \A i \in Imports : TASK_TYPE_STRUCTS \in state[i] => ~Incomplete(i, complete)

\* No signatures are checked before all structs are done.
SignaturesLast ==
    Proper /\ (\E i \in Imports : TASK_TYPE_FUNCTIONS \in state[i]) =>
        \A j \in imports : TASK_TYPE_STRUCTS \in state[j]

\* The first error of a program without other errors is a struct that depends on
\* itself.
OnlyStructErrors == job.bad = {} /\ errors > 0 => NoneLeft

SweepInv == SweepsCounted /\ RequeuedRightly /\ StructsDone /\ SignaturesLast /\ OnlyStructErrors

\* A sweep completes structs of its import only, and takes nothing back.
LEMMA SweepFacts ==
    ASSUME NEW i
    PROVE  complete \subseteq Sweep(i) /\ (~Incomplete(i, complete) => Settled(i))
<1>1. complete \subseteq Sweep(i)
  BY DEF Sweep
<1>2. ASSUME ~Incomplete(i, complete) PROVE Sweep(i) \subseteq complete
  <2>1. \A k \in DOMAIN job.structs[i] : job.structs[i][k] \in complete
    BY <1>2 DEF Incomplete, ToSet
  <2> QED
    BY <2>1 DEF Sweep
<1> QED
  BY <1>1, <1>2 DEF Settled

\* Phases are done, and structs completed, by the handler of the phase.
LEMMA PhaseSteps ==
    ASSUME TypeInv, NEW t \in Threads, processImports(t)
    PROVE  \/ state' = state
           \/ /\ pc[t] \in {"work", "check"} /\ cur[t] \in PhaseTask /\ Owns(t)
              /\ imports' = imports
              /\ state' = [state EXCEPT ![cur[t].import] = @ \cup {cur[t].type}]
              /\ cur[t].type = TASK_TYPE_STRUCTS =>
                    TypeStructs(t) /\ ~Incomplete(cur[t].import, complete')
<1>1. CASE Enter(t) \/ Exit(t)
  BY <1>1 DEF Enter, RegisterTotal, RegisterWaiting, Wait, Select, SelectTask, SelectFinished,
              SelectStuck, SelectNothing, Exit, AddFollowUp, Finish, Leave, data
<1>2. CASE LexUnreadable(t) \/ FindImport(t) \/ LinkPreload(t) \/ LinkImport(t) \/ Snapshot(t)
           \/ JudgeRequeue(t) \/ JudgeGiveUp(t) \/ Requeue(t) \/ Call(t) \/ DeclareUsage(t)
           \/ BodyDone(t) \/ QuickCheck(t) \/ RunOnce(t)
  BY <1>2 DEF LexUnreadable, FindImport, LinkPreload, LinkImport, Snapshot, JudgeRequeue, JudgeGiveUp,
              Requeue, Call, DeclareUsage, BodyDone, QuickCheck, RunOnce, data
<1>3. CASE LexDone(t) \/ Preprocess(t) \/ TypeEnums(t) \/ TypeStructs(t) \/ TypeFunctions(t)
           \/ GenerateScope(t) \/ GenerateMachineCode(t)
  <2>1. pc[t] \in {"work", "check"} /\ cur[t].type \in ImportPhases /\ imports' = imports
    BY <1>3 DEF LexDone, Preprocess, TypeEnums, TypeStructs, TypeFunctions, GenerateScope,
                GenerateMachineCode, Working, queue, GenerateTypes, ImportPhases
  <2>2. cur[t] \in PhaseTask /\ Owns(t)
    BY <2>1, HoldsTask
  <2>3. state' = state \/ \E s : Complete(t, s)
    BY <1>3 DEF LexDone, Preprocess, TypeEnums, TypeStructs, TypeFunctions, GenerateScope,
                GenerateMachineCode, Drop
  <2>4. cur[t].type = TASK_TYPE_STRUCTS => TypeStructs(t)
    BY <1>3 DEF LexDone, Preprocess, TypeEnums, TypeFunctions, GenerateScope, GenerateMachineCode,
                Working, GenerateTypes, TASK_LEX, TASK_PREPROCESS_AND_PARSE, TASK_TYPE_ENUMS,
                TASK_TYPE_STRUCTS, TASK_TYPE_FUNCTIONS, TASK_GEN_BYTECODE, TASK_GEN_BYTECODE_RUNDIR,
                TASK_GEN_MACHINE_CODE
  <2>5. TypeStructs(t) => state' = state \/ ~Incomplete(cur[t].import, complete')
    BY DEF TypeStructs
  <2> QED
    BY <2>1, <2>2, <2>3, <2>4, <2>5 DEF Complete
<1> QED
  BY <1>1, <1>2, <1>3 DEF processImports, Lex, TypeCheck, Generate

\* Structs are completed by sweeps over imports that have been found.
LEMMA CompleteSteps ==
    ASSUME TypeInv, ChainInv, JudgesStructs, NEW t \in Threads, processImports(t)
    PROVE  \/ complete' = complete /\ (stall' = stall \/ TypeStructs(t))
           \/ /\ TypeStructs(t) \/ (JudgeGiveUp(t) /\ stall' = stall)
              /\ complete' = Sweep(cur[t].import)
              /\ cur[t].import \in imports
<1>1. CASE Enter(t) \/ Exit(t)
  BY <1>1 DEF Enter, RegisterTotal, RegisterWaiting, Wait, Select, SelectTask, SelectFinished,
              SelectStuck, SelectNothing, Exit, AddFollowUp, Finish, Leave, data
<1>2. CASE Lex(t) \/ Preprocess(t)
  BY <1>2 DEF Lex, LexUnreadable, FindImport, LinkPreload, LinkImport, LexDone, Preprocess, data
<1>3. CASE TypeStructs(t) \/ JudgeGiveUp(t)
  <2>1. pc[t] \in {"work", "judge"} /\ cur[t].type \in ImportPhases
    BY <1>3 DEF TypeStructs, Working, JudgeGiveUp, JudgesStructs, ImportPhases
  <2>2. Owns(t)
    BY <2>1, HoldsTask
  <2> QED
    BY <1>3, <2>2 DEF ChainInv, ThreadInOrder, TypeStructs, JudgeGiveUp
<1>4. CASE TypeCheck(t) /\ ~TypeStructs(t) /\ ~JudgeGiveUp(t)
  BY <1>4 DEF TypeCheck, Snapshot, TypeEnums, JudgeRequeue, Requeue, TypeFunctions, Call,
              DeclareUsage, BodyDone, data
<1>5. CASE Generate(t)
  BY <1>5 DEF Generate, QuickCheck, RunOnce, GenerateScope, GenerateMachineCode, data
<1> QED
  BY <1>1, <1>2, <1>3, <1>4, <1>5 DEF processImports, TypeCheck

\* Imports are found only while one is being lexed.
LEMMA ImportSteps ==
    ASSUME TypeInv, ChainInv, NEW t \in Threads, processImports(t)
    PROVE  /\ imports \subseteq imports'
           /\ imports' # imports =>
                 /\ FindImport(t) /\ Holds(t)
                 /\ cur[t].import \in imports /\ state[cur[t].import] = {}
<1>1. FindImport(t) \/ imports' = imports
  <2>1. CASE Enter(t) \/ Exit(t)
    BY <2>1 DEF Enter, RegisterTotal, RegisterWaiting, Wait, Select, SelectTask, SelectFinished,
                SelectStuck, SelectNothing, Discard, Exit, AddFollowUp, Finish, Leave, queue
  <2>2. CASE Lex(t) \/ Preprocess(t)
    BY <2>2 DEF Lex, LexUnreadable, LinkPreload, LinkImport, LexDone, Preprocess, queue
  <2>3. CASE TypeCheck(t)
    BY <2>3 DEF TypeCheck, Snapshot, TypeEnums, TypeStructs, JudgeRequeue, JudgeGiveUp, Requeue,
                TypeFunctions, Call, DeclareUsage, BodyDone, queue
  <2>4. CASE Generate(t)
    BY <2>4 DEF Generate, QuickCheck, RunOnce, GenerateScope, GenerateMachineCode, queue
  <2> QED
    BY <2>1, <2>2, <2>3, <2>4 DEF processImports
<1>2. ASSUME FindImport(t)
      PROVE  /\ imports \subseteq imports' /\ Holds(t)
             /\ cur[t].import \in imports /\ state[cur[t].import] = {}
  <2>1. pc[t] = "work" /\ cur[t].type = TASK_LEX /\ imports \subseteq imports'
    BY <1>2 DEF FindImport, Working
  <2>2. Owns(t) /\ Holds(t)
    BY <2>1, HoldsTask DEF ImportPhases
  <2> QED
    BY <2>1, <2>2, PhaseAfterPhase DEF ChainInv, ThreadInOrder
<1> QED
  BY <1>1, <1>2

\* What the definitions above become when nothing they read changes.
LEMMA SettledSame ==
    ASSUME job' = job, complete' = complete, NEW i
    PROVE  Settled(i)' <=> Settled(i)
  BY DEF Settled, Sweep

\* When no struct can be completed none will ever be.
LEMMA NoneLeftStays ==
    ASSUME TypeInv, ChainInv, JudgesStructs, NoneLeft, NEW t \in Threads, processImports(t)
    PROVE  NoneLeft'
<1>0. job' = job /\ imports \subseteq Imports
  BY OthersUnchanged DEF TypeInv, TypeOK, QueueTypes
<1>1. imports' = imports
  <2> SUFFICES ASSUME imports' # imports PROVE FALSE
    OBVIOUS
  <2> QED
    BY ImportSteps DEF NoneLeft
<1>2. complete' = complete
  BY CompleteSteps DEF NoneLeft, Settled
<1>3. \A i \in Imports : state[i] \subseteq state'[i]
  BY StateGrows
<1>4. \A i : Settled(i)' <=> Settled(i)
  BY <1>0, <1>2, SettledSame
<1> QED
  BY <1>0, <1>1, <1>3, <1>4 DEF NoneLeft, TASK_TYPE_ENUMS

\* Nor is a struct taken back, so an import that is done stays so.
LEMMA StructsDoneStep ==
    ASSUME TypeInv, ChainInv, JudgesStructs, StructsDone, NEW t \in Threads, processImports(t)
    PROVE  StructsDone'
<1>0. job' = job /\ state \in [Imports -> SUBSET TaskTypes]
  BY OthersUnchanged DEF TypeInv, TypeOK, DataTypes
<1>1. complete \subseteq complete'
  BY CompleteSteps, SweepFacts
<1> SUFFICES ASSUME NEW i \in Imports, TASK_TYPE_STRUCTS \in state'[i]
             PROVE  ~Incomplete(i, complete')
  BY <1>0 DEF StructsDone, Incomplete, TASK_TYPE_STRUCTS
<1>2. CASE TASK_TYPE_STRUCTS \in state[i]
  BY <1>1, <1>2 DEF StructsDone, Incomplete
<1>3. CASE TASK_TYPE_STRUCTS \notin state[i]
  BY <1>0, <1>3, PhaseSteps
<1> QED
  BY <1>2, <1>3

\* With one thread nothing comes between the verdict and putting the task back.
LEMMA RequeuedStep ==
    ASSUME \A t, u \in Threads : t = u, TypeInv, JudgedRightly, NEW t \in Threads, processImports(t)
    PROVE  RequeuedRightly'
<1>0. job' = job
  BY OthersUnchanged DEF TypeInv, TypeOK
<1> SUFFICES ASSUME pc'[t] = "requeue", stall' > 0 PROVE Settled(cur[t].import)'
  BY DEF RequeuedRightly
<1>1. JudgeRequeue(t)
  BY JudgeSteps
<1>2. pc[t] = "judge" /\ cur' = cur /\ complete' = complete /\ stall' = stall
  BY <1>1 DEF JudgeRequeue, data, local
<1> QED
  BY <1>0, <1>2, SettledSame DEF JudgedRightly, Settled

\* The barrier in front of the signatures.
LEMMA SignaturesStep ==
    ASSUME TypeInv, ChainInv, PhaseBarrier, SignaturesLast, NEW t \in Threads, processImports(t)
    PROVE  SignaturesLast'
<1>0. /\ state \in [Imports -> SUBSET TaskTypes] /\ imports \subseteq Imports
      /\ \A i \in Imports : state[i] \subseteq state'[i]
  BY StateGrows DEF TypeInv, TypeOK, DataTypes, QueueTypes
<1> SUFFICES ASSUME Proper', NEW i \in Imports, TASK_TYPE_FUNCTIONS \in state'[i]
             PROVE  \A j \in imports' : TASK_TYPE_STRUCTS \in state'[j]
  BY DEF SignaturesLast, TASK_TYPE_FUNCTIONS, TASK_TYPE_STRUCTS
<1>1. Proper
  BY ProperBefore
<1>2. CASE TASK_TYPE_FUNCTIONS \in state[i]
  <2>1. \A j \in imports : TASK_TYPE_STRUCTS \in state[j]
    BY <1>1, <1>2 DEF SignaturesLast
  <2>2. imports' = imports
    <3> SUFFICES ASSUME imports' # imports PROVE FALSE
      OBVIOUS
    <3> QED
      BY <2>1, ImportSteps
  <2> QED
    BY <1>0, <2>1, <2>2
<1>3. CASE TASK_TYPE_FUNCTIONS \notin state[i]
  <2>1. /\ pc[t] \in {"work", "check"} /\ cur[t].type = TASK_TYPE_FUNCTIONS /\ imports' = imports
    BY <1>0, <1>3, PhaseSteps
  <2>2. \A j \in imports : PhasesBefore(TASK_TYPE_FUNCTIONS) \subseteq state[j]
    <3>1. Handling(t) /\ cur[t].type >= TASK_TYPE_FUNCTIONS
      BY <2>1 DEF Handling, TASK_TYPE_FUNCTIONS
    <3> QED
      BY <1>1, <2>1, <3>1 DEF PhaseBarrier, Proper
  <2> QED
    BY <1>0, <2>1, <2>2, PhaseAfterPhase
<1> QED
  BY <1>2, <1>3

\* A struct task in the queue.
LEMMA StructTask ==
    ASSUME TypeInv, ChainInv, NEW k \in 1..Len(tasks), tasks[k].type = TASK_TYPE_STRUCTS
    PROVE  /\ tasks[k] \in ToSet(tasks) \cap PhaseTask /\ tasks[k].import \in imports
           /\ TASK_TYPE_ENUMS \in state[tasks[k].import]
           /\ tasks[k].import \in Subjects(tasks, PhaseTask)
<1>1. tasks \in Seq(CompilerTask)
  BY DEF TypeInv, TypeOK, QueueTypes
<1>2. tasks[k] \in ToSet(tasks) /\ tasks[k] \in CompilerTask
  BY <1>1, ElementOfSeq, LenProperties DEF ToSet
<1>3. tasks[k] \in PhaseTask
  BY <1>2 DEF PhaseTask, ImportPhases
<1>4. InOrder(tasks[k])
  BY <1>2, <1>3 DEF ChainInv, QueueInOrder
<1>5. Subject(tasks[k]) = tasks[k].import
  BY <1>4 DEF InOrder, Subject
<1> QED
  BY <1>2, <1>3, <1>4, <1>5, PhaseAfterPhase DEF InOrder, Subjects

\* When no import is unswept nothing is left to complete.
LEMMA AllSwept ==
    ASSUME TypeInv, ChainInv, StructsDone, NEW b \in 0..Len(tasks), SweptUpTo(b), Unswept(b) = {},
           \A i \in Judged : TASK_TYPE_ENUMS \in state[i] /\ Settled(i)
    PROVE  NoneLeft
<1>0. Len(tasks) \in Nat /\ imports \subseteq Imports
  BY LenProperties DEF TypeInv, TypeOK, QueueTypes
<1> SUFFICES ASSUME NEW i \in imports PROVE TASK_TYPE_ENUMS \in state[i] /\ Settled(i)
  BY DEF NoneLeft
<1>1. CASE i \in Judged
  BY <1>1
<1>2. CASE TASK_TYPE_STRUCTS \in state[i]
  <2>1. TASK_TYPE_ENUMS \in state[i]
    <3>1. state[i] \in FirstPhases
      BY <1>0 DEF ChainInv, StatesInOrder
    <3>2. PICK S \in FirstPhases : state[i] = S
      BY <3>1
    <3>3. S = ImportPhases \/ \E p \in ImportPhases : S = PhasesBefore(p)
      BY DEF FirstPhases
    <3>4. CASE S = ImportPhases
      BY <3>2, <3>4 DEF ImportPhases
    <3>5. ASSUME NEW p \in ImportPhases, S = PhasesBefore(p) PROVE TASK_TYPE_ENUMS \in state[i]
      <4>1. TASK_TYPE_STRUCTS < p /\ p \in Nat
        BY <1>2, <3>2, <3>5, PhaseOrder DEF PhasesBefore, TaskTypes
      <4>2. TASK_TYPE_ENUMS < p /\ TASK_TYPE_ENUMS \in ImportPhases
        BY <4>1 DEF TASK_TYPE_STRUCTS, TASK_TYPE_ENUMS, ImportPhases
      <4> QED
        BY <3>2, <3>5, <4>2 DEF PhasesBefore
    <3> QED
      BY <3>3, <3>4, <3>5
  <2>2. ~Incomplete(i, complete)
    BY <1>0, <1>2 DEF StructsDone
  <2> QED
    BY <2>1, <2>2, SweepFacts
<1>3. CASE i \notin Judged /\ TASK_TYPE_STRUCTS \notin state[i]
  <2>1. PICK k \in 1..b : tasks[k].import = i
    BY <1>3 DEF Unswept
  <2>2. k \in 1..Len(tasks) /\ tasks[k].type = TASK_TYPE_STRUCTS /\ Settled(tasks[k].import)
    BY <1>0, <2>1 DEF SweptUpTo
  <2> QED
    BY <2>1, <2>2, StructTask
<1> QED
  BY <1>1, <1>2, <1>3

\* Sets of imports are finite.
LEMMA UnsweptFinite ==
    ASSUME TypeInv, NEW b
    PROVE  /\ IsFiniteSet(imports) /\ Cardinality(imports) \in Nat
           /\ IsFiniteSet(Unswept(b)) /\ Cardinality(Unswept(b)) \in Nat
           /\ Cardinality(Unswept(b)) <= Cardinality(imports)
<1>1. IsFiniteSet(imports)
  BY FiniteAssumption, FS_Subset DEF TypeInv, TypeOK, QueueTypes
<1>2. Unswept(b) \in SUBSET imports
  BY DEF Unswept
<1> QED
  BY <1>1, <1>2, FS_Subset, FS_CardinalityType

\* While an import is judged every other import is in the queue, or done with
\* its structs long after.
LEMMA OthersQueued ==
    ASSUME \A t, u \in Threads : t = u, TypeInv, ChainInv, JudgesStructs, BarrierInv, SignaturesLast,
           Proper, NEW t \in Threads, pc[t] = "judge"
    PROVE  Cardinality(imports) <= Len(tasks) + 1
<1> DEFINE i == cur[t].import
           T == {tasks[k].import : k \in 1..Len(tasks)}
           g == [k \in 1..Len(tasks) |-> tasks[k].import]
<1>0. Len(tasks) \in Nat /\ tasks \in Seq(CompilerTask) /\ DOMAIN tasks = 1..Len(tasks)
  BY LenProperties DEF TypeInv, TypeOK, QueueTypes
<1>1. cur[t].type = TASK_TYPE_STRUCTS /\ Handling(t)
  BY DEF JudgesStructs, Handling
<1>2. Owns(t) /\ pc[t] # "post"
  BY <1>1, HoldsTask DEF ImportPhases
<1>3. i \in imports /\ state[i] = PhasesBefore(TASK_TYPE_STRUCTS)
  BY <1>1, <1>2 DEF ChainInv, ThreadInOrder
<1>4. ASSUME NEW j \in imports, j # i PROVE j \in T
  <2>1. ~Ended(j)
    <3>1. state[j] # ImportPhases
      <4>1. TASK_TYPE_STRUCTS \notin state[i]
        BY <1>3, PhaseAfterPhase DEF ImportPhases
      <4>2. TASK_TYPE_FUNCTIONS \notin state[j]
        BY <1>3, <1>4, <4>1 DEF SignaturesLast, TypeInv, TypeOK, QueueTypes
      <4> QED
        BY <4>2 DEF ImportPhases
    <3>2. ~job.only_preprocess
      <4>1. ~(TASK_TYPE_STRUCTS <= TASK_PREPROCESS_AND_PARSE)
        BY DEF TASK_TYPE_STRUCTS, TASK_PREPROCESS_AND_PARSE
      <4> QED
        BY <1>1, <4>1 DEF BarrierInv, OnlyPreprocesses
    <3> QED
      BY <3>1, <3>2 DEF Ended
  <2>2. OnTheWay(j)
    BY <2>1 DEF BarrierInv, AllOnTheWay
  <2>3. j \in Subjects(tasks, PhaseTask)
    BY <1>4, <2>2 DEF OnTheWay
  <2>4. PICK x \in ToSet(tasks) \cap PhaseTask : Subject(x) = j
    BY <2>3 DEF Subjects
  <2>5. x.import = j
    BY <2>4 DEF ChainInv, QueueInOrder, InOrder, Subject
  <2> QED
    BY <1>0, <2>4, <2>5 DEF ToSet
<1>5. IsFiniteSet(1..Len(tasks)) /\ Cardinality(1..Len(tasks)) = Len(tasks)
  BY <1>0, FS_Interval
<1>6. g \in Surjection(1..Len(tasks), T)
  BY DEF Surjection
<1>7. IsFiniteSet(T) /\ Cardinality(T) <= Len(tasks)
  <2> HIDE DEF g, T
  <2> QED
    BY <1>5, <1>6, FS_Surjection
<1>8. IsFiniteSet(imports) /\ Cardinality(imports) \in Nat
  BY UnsweptFinite
<1>9. Cardinality(imports \ {i}) = Cardinality(imports) - 1
  BY <1>3, <1>8, FS_RemoveElement
<1>10. Cardinality(imports \ {i}) <= Cardinality(T) /\ Cardinality(T) \in Nat
  <2>1. (imports \ {i}) \in SUBSET T
    BY <1>4
  <2> HIDE DEF T
  <2> QED
    BY <1>7, <2>1, FS_Subset, FS_CardinalityType
<1> QED
  <2> HIDE DEF T
  <2> QED
    BY <1>0, <1>7, <1>8, <1>9, <1>10

\* So when the counter says so nothing is left to complete.
LEMMA GivesUpRightly ==
    ASSUME \A t, u \in Threads : t = u, TypeInv, ChainInv, JudgesStructs, BarrierInv, SweepInv,
           NEW t \in Threads, pc[t] = "judge", NoMoreProgress, errors = 0
    PROVE  NoneLeft
<1>0. Len(tasks) \in Nat /\ stall \in Nat /\ stall > 2 * Len(tasks)
  BY LenProperties DEF TypeInv, TypeOK, QueueTypes, DataTypes, NoMoreProgress
<1>1. Proper
  BY DEF BarrierInv, NothingLeftToDo, Handling, Proper
<1>2. CASE NoneLeft
  BY <1>2
<1>3. ASSUME NEW b \in 0..Len(tasks), Counted(b) PROVE NoneLeft
  <2>1. Cardinality(imports) <= Len(tasks) + 1
    BY <1>1, OthersQueued DEF SweepInv
  <2>2. Cardinality(imports) \in Nat /\ Cardinality(Unswept(b)) \in Nat /\ IsFiniteSet(Unswept(b))
    BY UnsweptFinite
  <2>3. stall + Cardinality(Unswept(b)) <= Cardinality(imports)
    BY <1>3 DEF Counted
  <2>4. Cardinality(Unswept(b)) = 0
    BY <1>0, <2>1, <2>2, <2>3
  <2>5. Unswept(b) = {}
    BY <2>2, <2>4, FS_EmptySet
  <2>6. \A i \in Judged : i = cur[t].import
    BY DEF Judged
  <2>7. TASK_TYPE_ENUMS \in state[cur[t].import] /\ Settled(cur[t].import)
    <3>1. cur[t].type = TASK_TYPE_STRUCTS
      BY DEF JudgesStructs
    <3>2. Owns(t) /\ pc[t] # "post"
      BY <3>1, HoldsTask DEF ImportPhases
    <3>3. stall > 0
      BY <1>0
    <3> QED
      BY <3>1, <3>2, <3>3, PhaseAfterPhase
         DEF ChainInv, ThreadInOrder, BarrierInv, JudgedRightly, Settled
  <2> QED
    BY <1>3, <2>5, <2>6, <2>7, AllSwept DEF Counted, SweepInv
<1> QED
  BY <1>1, <1>2, <1>3 DEF SweepInv, SweepsCounted

\* The count starts again when a struct has been completed.
LEMMA CountStarts ==
    ASSUME TypeInv, NEW t \in Threads, processImports(t), stall' = 0
    PROVE  SweepsCounted'
<1>1. imports' \in SUBSET Imports /\ tasks' \in Seq(CompilerTask)
  BY QueueStep DEF QueueTypes
<1>2. IsFiniteSet(imports') /\ Unswept(0)' \in SUBSET imports'
  BY <1>1, FiniteAssumption, FS_Subset DEF Unswept
<1>3. /\ Cardinality(Unswept(0)') <= Cardinality(imports')
      /\ Cardinality(Unswept(0)') \in Nat /\ Cardinality(imports') \in Nat
  BY <1>2, FS_Subset, FS_CardinalityType
<1>4. Counted(0)'
  <2>1. SweptUpTo(0)'
    BY DEF SweptUpTo
  <2>2. stall' + Cardinality(Unswept(0)') <= Cardinality(imports')
    BY <1>3
  <2> QED
    BY <2>1, <2>2 DEF Counted
<1>5. 0 \in 0..Len(tasks')
  BY <1>1, LenProperties
<1> QED
  BY <1>4, <1>5 DEF SweepsCounted

\* It goes on when the imports that were swept are still at the front.
LEMMA CountGoesOn ==
    ASSUME TypeInv, NEW t \in Threads, processImports(t),
           imports' = imports, complete' = complete, stall' = stall,
           NEW b \in 0..Len(tasks), Counted(b), NEW c \in 0..Len(tasks'), SweptUpTo(c)',
           \A i \in Judged \cup {tasks[k].import : k \in 1..b} :
              i \in Judged' \cup {tasks'[k].import : k \in 1..c}
    PROVE  Counted(c)'
<1>1. \A i \in Imports : state[i] \subseteq state'[i]
  BY StateGrows
<1>2. Unswept(c)' \in SUBSET Unswept(b)
  <2> SUFFICES ASSUME NEW i \in Unswept(c)' PROVE i \in Unswept(b)
    OBVIOUS
  <2>1. /\ i \in imports /\ i \notin Judged' /\ TASK_TYPE_STRUCTS \notin state'[i]
        /\ \A k \in 1..c : tasks'[k].import # i
    BY DEF Unswept, TASK_TYPE_STRUCTS
  <2>2. i \notin Judged /\ \A k \in 1..b : tasks[k].import # i
    BY <2>1
  <2> QED
    BY <1>1, <2>1, <2>2 DEF Unswept, TypeInv, TypeOK, QueueTypes
<1>3. /\ Cardinality(Unswept(c)') <= Cardinality(Unswept(b))
      /\ Cardinality(Unswept(c)') \in Nat
  BY <1>2, UnsweptFinite, FS_Subset, FS_CardinalityType
<1>4. stall' + Cardinality(Unswept(c)') <= Cardinality(imports')
  <2>1. /\ stall \in Nat /\ Cardinality(Unswept(b)) \in Nat /\ Cardinality(imports) \in Nat
        /\ stall + Cardinality(Unswept(b)) <= Cardinality(imports)
    BY UnsweptFinite DEF TypeInv, TypeOK, DataTypes, Counted
  <2>2. stall + Cardinality(Unswept(c)') <= Cardinality(imports)
    BY <1>3, <2>1
  <2> QED
    BY <2>2
<1> QED
  BY <1>4 DEF Counted

\* In particular when the queue loses or gains tasks behind them only.
LEMMA CountStays ==
    ASSUME TypeInv, NEW t \in Threads, processImports(t),
           imports' = imports, complete' = complete, stall' = stall, Judged \subseteq Judged',
           NEW b \in 0..Len(tasks), Counted(b), b \in 0..Len(tasks'),
           \A k \in 1..b : tasks'[k] = tasks[k]
    PROVE  Counted(b)'
<1>1. job' = job
  BY OthersUnchanged DEF TypeInv, TypeOK
<1>2. \A i : Settled(i)' <=> Settled(i)
  BY <1>1, SettledSame
<1>3. SweptUpTo(b)'
  BY <1>2 DEF Counted, SweptUpTo, TASK_TYPE_STRUCTS
<1>4. \A i \in Judged \cup {tasks[k].import : k \in 1..b} :
         i \in Judged' \cup {tasks'[k].import : k \in 1..b}
  OBVIOUS
<1> QED
  BY <1>3, <1>4, CountGoesOn

\* An import that is found has yet to be swept.
LEMMA CountFind ==
    ASSUME TypeInv, NEW t \in Threads, FindImport(t), NEW b \in 0..Len(tasks), Counted(b)
    PROVE  b \in 0..Len(tasks') /\ Counted(b)'
<1>0. /\ tasks \in Seq(CompilerTask) /\ Len(tasks) \in Nat /\ processImports(t)
      /\ pc \in [Threads -> Labels] /\ \A u \in Threads \ {t} : pc'[u] = pc[u]
  BY OthersUnchanged, LenProperties
     DEF TypeInv, TypeOK, QueueTypes, LocalTypes, processImports, Lex
<1>1. /\ pc[t] = "work" /\ pc'[t] \in {"work", "link_preload", "link"} /\ cur' = cur
      /\ state' = state /\ complete' = complete /\ stall' = stall /\ todo[t] \subseteq Imports
  <2>1. pc[t] = "work" /\ cur[t].type = TASK_LEX /\ Handling(t)
    BY DEF FindImport, Working, Handling
  <2> QED
    BY <1>0, <2>1 DEF FindImport, data, Goto, TypeInv, LocalOK
<1>2. Judged' = Judged
  BY <1>0, <1>1 DEF Judged
<1>3. PICK d \in todo[t] : \/ tasks' = tasks /\ imports' = imports
                           \/ /\ d \notin imports /\ imports' = imports \cup {d}
                              /\ tasks' = Append(tasks, Task(TASK_LEX, d, NoFunction))
  BY DEF FindImport
<1>4. CASE tasks' = tasks /\ imports' = imports
  BY <1>0, <1>1, <1>2, <1>4, CountStays
<1>5. CASE /\ d \notin imports /\ imports' = imports \cup {d}
           /\ tasks' = Append(tasks, Task(TASK_LEX, d, NoFunction))
  <2> DEFINE x == Task(TASK_LEX, d, NoFunction)
  <2>1. x \in CompilerTask
    BY <1>1, PhasesAreTypes DEF Task, CompilerTask
  <2>2. tasks' = Append(tasks, x)
    BY <1>5
  <2> HIDE DEF x
  <2>3. Len(tasks') = Len(tasks) + 1 /\ \A k \in 1..Len(tasks) : tasks'[k] = tasks[k]
    BY <1>0, <2>1, <2>2, AppendProperties
  <2>4. b \in 0..Len(tasks') /\ \A k \in 1..b : tasks'[k] = tasks[k]
    BY <1>0, <2>3
  <2>5. Unswept(b)' \in SUBSET (Unswept(b) \cup {d})
    BY <1>1, <1>2, <1>5, <2>4 DEF Unswept, TASK_TYPE_STRUCTS
  <2>6. /\ IsFiniteSet(Unswept(b) \cup {d}) /\ Cardinality(Unswept(b) \cup {d}) \in Nat
        /\ Cardinality(Unswept(b) \cup {d}) <= Cardinality(Unswept(b)) + 1
    <3>1. IsFiniteSet(Unswept(b)) /\ Cardinality(Unswept(b)) \in Nat
      BY UnsweptFinite
    <3>2. /\ IsFiniteSet(Unswept(b) \cup {d})
          /\ Cardinality(Unswept(b) \cup {d}) =
                IF d \in Unswept(b) THEN Cardinality(Unswept(b)) ELSE Cardinality(Unswept(b)) + 1
      BY <3>1, FS_AddElement
    <3> QED
      BY <3>1, <3>2, FS_CardinalityType
  <2>7. Cardinality(Unswept(b)') \in Nat /\ Cardinality(Unswept(b)') <= Cardinality(Unswept(b) \cup {d})
    BY <2>5, <2>6, FS_Subset, FS_CardinalityType
  <2>8. Cardinality(imports') = Cardinality(imports) + 1
    BY <1>5, UnsweptFinite, FS_AddElement
  <2>9. stall' + Cardinality(Unswept(b)') <= Cardinality(imports')
    <3>1. /\ stall \in Nat /\ Cardinality(Unswept(b)) \in Nat /\ Cardinality(imports) \in Nat
          /\ stall + Cardinality(Unswept(b)) <= Cardinality(imports)
      BY UnsweptFinite DEF TypeInv, TypeOK, DataTypes, Counted
    <3>2. stall + Cardinality(Unswept(b)') <= Cardinality(imports) + 1
      BY <2>6, <2>7, <3>1
    <3> QED
      BY <1>1, <2>8, <3>2
  <2>10. SweptUpTo(b)'
    <3>1. job' = job
      BY <1>0, OthersUnchanged DEF TypeInv, TypeOK
    <3>2. \A i : Settled(i)' <=> Settled(i)
      BY <1>1, <3>1, SettledSame
    <3> QED
      BY <2>4, <3>2 DEF Counted, SweptUpTo, TASK_TYPE_STRUCTS
  <2> QED
    BY <2>4, <2>9, <2>10 DEF Counted
<1> QED
  BY <1>3, <1>4, <1>5

\* A sweep in vain makes one import less to be swept, and counts.
LEMMA CountSweep ==
    ASSUME TypeInv, ChainInv, NEW t \in Threads, TypeStructs(t),
           \A u \in Threads : u = t, complete' = complete, stall' = stall + 1,
           NEW b \in 0..Len(tasks), Counted(b)
    PROVE  b \in 0..Len(tasks') /\ Counted(b)'
<1> DEFINE i == cur[t].import
<1>0. /\ pc \in [Threads -> Labels] /\ state \in [Imports -> SUBSET TaskTypes] /\ processImports(t)
      /\ imports \subseteq Imports /\ Len(tasks) \in Nat
  BY LenProperties DEF TypeInv, TypeOK, QueueTypes, DataTypes, LocalTypes, processImports, TypeCheck
<1>1. /\ pc[t] = "work" /\ cur[t].type = TASK_TYPE_STRUCTS /\ cur' = cur
      /\ tasks' = tasks /\ imports' = imports
  BY DEF TypeStructs, Working, queue
<1>2. Owns(t) /\ pc[t] # "post"
  BY <1>1, HoldsTask DEF ImportPhases
<1>3. /\ i \in imports /\ i \notin Subjects(tasks, PhaseTask)
      /\ state[i] = PhasesBefore(TASK_TYPE_STRUCTS)
  BY <1>1, <1>2 DEF ChainInv, ThreadInOrder
<1>4. i \in Unswept(b)
  <2>1. Judged = {}
    BY <1>1 DEF Judged
  <2>2. TASK_TYPE_STRUCTS \notin state[i]
    BY <1>3, PhaseAfterPhase DEF ImportPhases
  <2>3. \A k \in 1..b : tasks[k].import # i
    BY <1>0, <1>3, StructTask DEF Counted, SweptUpTo
  <2> QED
    BY <1>3, <2>1, <2>2, <2>3 DEF Unswept
<1>5. i \in Judged' \/ TASK_TYPE_STRUCTS \in state'[i]
  <2>1. CASE pc'[t] = "judge"
    BY <1>1, <2>1 DEF Judged
  <2>2. CASE pc'[t] # "judge"
    <3>1. Complete(t, FollowUp(t, TASK_TYPE_FUNCTIONS))
      BY <1>0, <2>2 DEF TypeStructs, Goto
    <3> QED
      BY <1>0, <1>1, <1>3, <3>1 DEF Complete
  <2> QED
    BY <2>1, <2>2
<1>6. Unswept(b)' \in SUBSET (Unswept(b) \ {i})
  <2>1. \A j \in Imports : state[j] \subseteq state'[j]
    BY <1>0, StateGrows
  <2>2. Judged = {}
    BY <1>1 DEF Judged
  <2> QED
    BY <1>0, <1>1, <1>5, <2>1, <2>2 DEF Unswept, TASK_TYPE_STRUCTS
<1>7. /\ IsFiniteSet(Unswept(b) \ {i}) /\ Cardinality(Unswept(b) \ {i}) \in Nat
      /\ Cardinality(Unswept(b) \ {i}) = Cardinality(Unswept(b)) - 1
  BY <1>4, UnsweptFinite, FS_RemoveElement, FS_CardinalityType
<1>8. /\ Cardinality(Unswept(b)') \in Nat
      /\ Cardinality(Unswept(b)') <= Cardinality(Unswept(b) \ {i})
  BY <1>6, <1>7, FS_Subset, FS_CardinalityType
<1>9. stall' + Cardinality(Unswept(b)') <= Cardinality(imports')
  <2>1. /\ stall \in Nat /\ Cardinality(Unswept(b)) \in Nat /\ Cardinality(imports) \in Nat
        /\ stall + Cardinality(Unswept(b)) <= Cardinality(imports)
    BY UnsweptFinite DEF TypeInv, TypeOK, DataTypes, Counted
  <2>2. stall + 1 + Cardinality(Unswept(b)') <= Cardinality(imports)
    BY <1>7, <1>8, <2>1
  <2> QED
    BY <1>1, <2>2
<1>10. SweptUpTo(b)'
  <2>1. job' = job
    BY <1>0, OthersUnchanged DEF TypeInv, TypeOK
  <2>2. \A j : Settled(j)' <=> Settled(j)
    BY <2>1, SettledSame
  <2> QED
    BY <1>1, <2>2 DEF Counted, SweptUpTo, TASK_TYPE_STRUCTS
<1> QED
  BY <1>1, <1>9, <1>10 DEF Counted

\* The scan is backwards: a task at the front is picked again only when no import
\* behind it has structs to go through.
LEMMA CountSelect ==
    ASSUME TypeInv, ChainInv, BarrierInv, DepsFound, StructsDone, NEW t \in Threads, Select(t),
           \A u \in Threads : u = t, Proper', NEW b \in 0..Len(tasks), Counted(b)
    PROVE  NoneLeft \/ (b \in 0..Len(tasks') /\ Counted(b)')
<1>0. /\ tasks \in Seq(CompilerTask) /\ Len(tasks) \in Nat /\ processImports(t)
      /\ pc \in [Threads -> Labels] /\ state \in [Imports -> SUBSET TaskTypes]
      /\ imports \subseteq Imports /\ errors = 0
  <2>1. processImports(t)
    BY DEF processImports, Enter
  <2>2. Proper
    BY <2>1, ProperBefore
  <2> QED
    BY <2>1, <2>2, LenProperties DEF TypeInv, TypeOK, QueueTypes, LocalTypes, DataTypes, Proper
<1>1. PICK k \in 0..Len(tasks) :
         /\ IsPicked(t, k)
         /\ SelectTask(t, k) \/ SelectFinished(t, k) \/ SelectStuck(t, k) \/ SelectNothing(t, k)
  BY DEF Select
<1>2. /\ pc[t] = "select" /\ imports' = imports /\ complete' = complete /\ stall' = stall
      /\ Judged = {}
  <2>1. pc[t] = "select"
    BY DEF Select
  <2> QED
    BY <1>1, <2>1 DEF SelectTask, SelectFinished, SelectStuck, SelectNothing, Discard, data, Judged
<1>3. CASE ~SelectTask(t, k)
  <2>1. tasks' = tasks
    BY <1>1, <1>3 DEF SelectFinished, SelectStuck, SelectNothing, Discard, Proper
  <2> QED
    BY <1>0, <1>2, <2>1, CountStays
<1>4. CASE SelectTask(t, k) /\ k > b
  <2>1. k \in 1..Len(tasks) /\ tasks' = RemoveAt(tasks, k)
    BY <1>0, <1>4 DEF SelectTask, Found
  <2>2. /\ tasks' \in Seq(CompilerTask) /\ DOMAIN tasks' = 1..(Len(tasks) - 1)
        /\ \A l \in 1..(Len(tasks) - 1) : tasks'[l] = tasks[IF l < k THEN l ELSE l + 1]
    BY <1>0, <2>1, RemoveAtElements, QueueStep DEF QueueTypes
  <2>3. Len(tasks') = Len(tasks) - 1
    BY <1>0, <2>1, <2>2, LenProperties
  <2>4. b \in 0..Len(tasks') /\ \A l \in 1..b : tasks'[l] = tasks[l]
    BY <1>0, <1>4, <2>1, <2>2, <2>3
  <2> QED
    BY <1>0, <1>2, <2>4, CountStays
<1>5. CASE SelectTask(t, k) /\ k <= b
  <2>1. k \in 1..Len(tasks) /\ k \in 1..b /\ tasks[k].type = TASK_TYPE_STRUCTS
    BY <1>0, <1>5 DEF SelectTask, Found, Counted, SweptUpTo
  <2>2. StateBefore(t) = state
    <3>1. Threads \ {t} = {}
      OBVIOUS
    <3> QED
      BY <1>0, <3>1 DEF StateBefore
  <2>3. \A l \in (k + 1)..Len(tasks) : ~Pickable(tasks[l], state)
    BY <1>1, <2>2 DEF IsPicked
  <2>4. ~job.only_preprocess
    <3>1. tasks[k] \in InFlight
      BY <2>1, StructTask DEF InFlight
    <3>2. ~(tasks[k].type <= TASK_PREPROCESS_AND_PARSE)
      BY <2>1 DEF TASK_TYPE_STRUCTS, TASK_PREPROCESS_AND_PARSE
    <3> QED
      BY <3>1, <3>2 DEF BarrierInv, OnlyPreprocesses
  <2>5. ASSUME NEW j \in Unswept(b) PROVE FALSE
    <3>1. j \in imports /\ TASK_TYPE_STRUCTS \notin state[j] /\ \A l \in 1..b : tasks[l].import # j
      BY <2>5 DEF Unswept
    <3>2. j \in Subjects(tasks, PhaseTask)
      <4>1. ~Ended(j)
        BY <2>4, <3>1 DEF Ended, ImportPhases
      <4>2. ~Owns(t) /\ Proper
        BY <1>0, <1>2, ProperBefore DEF Owns, Holds, Handling
      <4> QED
        BY <3>1, <4>1, <4>2 DEF BarrierInv, AllOnTheWay, OnTheWay
    <3>3. PICK x \in ToSet(tasks) \cap PhaseTask : Subject(x) = j
      BY <3>2 DEF Subjects
    <3>4. x.import = j /\ state[j] = PhasesBefore(x.type) /\ x.type \in Nat
      <4>1. InOrder(x) /\ x.type \in Nat
        BY <3>3, PhaseOrder DEF ChainInv, QueueInOrder, PhaseTask, TaskTypes
      <4> QED
        BY <3>3, <4>1 DEF InOrder, Subject
    <3>5. x.type <= TASK_TYPE_STRUCTS
      <4>1. ~(TASK_TYPE_STRUCTS < x.type)
        BY <3>1, <3>4 DEF PhasesBefore, ImportPhases
      <4> QED
        BY <3>4, <4>1 DEF TASK_TYPE_STRUCTS
    <3>6. \A u \in Threads : ~Handling(u)
      BY <1>2 DEF Handling
    <3>7. \E y \in ToSet(tasks) : Pickable(y, state) /\ (y = x \/ y.type < TASK_TYPE_STRUCTS)
      BY <1>0, <3>3, <3>5, <3>6, EarlyPick
    <3>8. PICK l \in 1..Len(tasks) :
             Pickable(tasks[l], state) /\ (tasks[l] = x \/ tasks[l].type < TASK_TYPE_STRUCTS)
      BY <1>0, <3>7, LenProperties DEF ToSet
    <3>9. ~(l \in 1..b)
      <4>1. ~(TASK_TYPE_STRUCTS < TASK_TYPE_STRUCTS)
        BY DEF TASK_TYPE_STRUCTS
      <4> QED
        BY <3>1, <3>4, <3>8, <4>1 DEF Counted, SweptUpTo
    <3>10. l \in (k + 1)..Len(tasks)
      BY <1>0, <2>1, <3>8, <3>9
    <3> QED
      BY <2>3, <3>8, <3>10
  <2> QED
    BY <1>2, <2>5, AllSwept DEF Counted
<1> QED
  BY <1>0, <1>3, <1>4, <1>5

\* A task that is put back after a sweep in vain is one more at the front.
LEMMA CountRequeue ==
    ASSUME TypeInv, ChainInv, JudgesStructs, RequeuedRightly, NEW t \in Threads, Requeue(t),
           \A u \in Threads : u = t, stall > 0, NEW b \in 0..Len(tasks), Counted(b)
    PROVE  b + 1 \in 0..Len(tasks') /\ Counted(b + 1)'
<1> DEFINE s == <<cur[t]>>
<1>0. /\ tasks \in Seq(CompilerTask) /\ Len(tasks) \in Nat /\ pc[t] = "requeue" /\ processImports(t)
      /\ imports' = imports /\ complete' = complete /\ stall' = stall
      /\ cur[t].type = TASK_TYPE_STRUCTS /\ Settled(cur[t].import) /\ job' = job
  BY LenProperties DEF TypeInv, TypeOK, QueueTypes, processImports, TypeCheck, Requeue, data,
                       JudgesStructs, RequeuedRightly
<1>1. s \in Seq(CompilerTask) /\ Len(s) = 1 /\ s[1] = cur[t] /\ tasks' = s \o tasks
  BY <1>0, HoldsTask DEF Requeue, Reinserted
<1> HIDE DEF s
<1>2. /\ Len(tasks') = Len(tasks) + 1 /\ tasks'[1] = cur[t]
      /\ \A l \in 2..(Len(tasks) + 1) : tasks'[l] = tasks[l - 1]
  <2> DEFINE r == s \o tasks
  <2>1. /\ Len(r) = Len(s) + Len(tasks)
        /\ \A l \in 1..(Len(s) + Len(tasks)) :
              r[l] = IF l <= Len(s) THEN s[l] ELSE tasks[l - Len(s)]
    BY <1>0, <1>1, ConcatProperties
  <2>2. tasks' = r
    BY <1>1
  <2> HIDE DEF r
  <2>3. Len(r) = Len(tasks) + 1 /\ r[1] = cur[t]
    BY <1>0, <1>1, <2>1
  <2>4. \A l \in 2..(Len(tasks) + 1) : r[l] = tasks[l - 1]
    BY <1>0, <1>1, <2>1
  <2> QED
    BY <2>2, <2>3, <2>4
<1>3. b + 1 \in 0..Len(tasks')
  BY <1>0, <1>2
<1>4. \A i : Settled(i)' <=> Settled(i)
  BY <1>0, SettledSame
<1>5. SweptUpTo(b + 1)'
  <2> SUFFICES ASSUME NEW l \in 1..(b + 1)
               PROVE  tasks'[l].type = TASK_TYPE_STRUCTS /\ Settled(tasks'[l].import)
    BY <1>4 DEF SweptUpTo, TASK_TYPE_STRUCTS
  <2>1. CASE l = 1
    BY <1>0, <1>2, <2>1
  <2>2. CASE l # 1
    <3>1. l \in 2..(Len(tasks) + 1) /\ l - 1 \in 1..b
      BY <1>0, <2>2
    <3> QED
      BY <1>2, <3>1 DEF Counted, SweptUpTo
  <2> QED
    BY <2>1, <2>2
<1>6. \A i \in Judged \cup {tasks[k].import : k \in 1..b} :
         i \in Judged' \cup {tasks'[k].import : k \in 1..(b + 1)}
  <2>1. \A i \in Judged : i = tasks'[1].import
    BY <1>2 DEF Judged
  <2>2. ASSUME NEW k \in 1..b PROVE k + 1 \in 1..(b + 1) /\ tasks'[k + 1] = tasks[k]
    <3>1. k + 1 \in 2..(Len(tasks) + 1) /\ (k + 1) - 1 = k
      BY <1>0
    <3> QED
      BY <1>2, <3>1
  <2>3. 1 \in 1..(b + 1)
    OBVIOUS
  <2> QED
    BY <2>1, <2>2, <2>3
<1> QED
  BY <1>0, <1>3, <1>5, <1>6, CountGoesOn

\* Other steps add to the queue at its end.
LEMMA QueueGrows ==
    ASSUME TypeInv, NEW t \in Threads, processImports(t), ~Select(t), ~Requeue(t)
    PROVE  Len(tasks) \in 0..Len(tasks') /\ \A k \in 1..Len(tasks) : tasks'[k] = tasks[k]
<1>0. tasks \in Seq(CompilerTask) /\ Len(tasks) \in Nat
  BY LenProperties DEF TypeInv, TypeOK, QueueTypes
<1>1. ASSUME NEW x \in CompilerTask, tasks' = Append(tasks, x)
      PROVE  Len(tasks) \in 0..Len(tasks') /\ \A k \in 1..Len(tasks) : tasks'[k] = tasks[k]
  <2>1. Len(tasks') = Len(tasks) + 1 /\ \A k \in 1..Len(tasks) : tasks'[k] = tasks[k]
    BY <1>0, <1>1, AppendProperties
  <2> QED
    BY <1>0, <2>1
<1>2. CASE tasks' = tasks
  BY <1>0, <1>2
<1>3. CASE FindImport(t)
  <2>1. todo[t] \subseteq Imports
    <3>1. Handling(t) /\ cur[t].type = TASK_LEX
      BY <1>3 DEF FindImport, Working, Handling
    <3> QED
      BY <3>1 DEF TypeInv, LocalOK
  <2>2. \A d \in Imports : Task(TASK_LEX, d, NoFunction) \in CompilerTask
    BY PhasesAreTypes DEF Task, CompilerTask
  <2>3. tasks' = tasks \/ \E d \in todo[t] : tasks' = Append(tasks, Task(TASK_LEX, d, NoFunction))
    BY <1>3 DEF FindImport
  <2>4. tasks' = tasks \/ \E x \in CompilerTask : tasks' = Append(tasks, x)
    BY <2>1, <2>2, <2>3
  <2> QED
    BY <1>1, <1>2, <2>4
<1>4. CASE Call(t)
  <2>1. todo[t] \subseteq Functions
    <3>1. Handling(t) /\ cur[t].type = TASK_TYPE_BODY
      BY <1>4 DEF Call, Working, Handling
    <3> QED
      BY <3>1 DEF TypeInv, LocalOK
  <2>2. \A fn \in Functions : Task(TASK_TYPE_BODY, job.home[fn], fn) \in CompilerTask
    BY JobFields DEF Task, CompilerTask, TaskTypes, TypeInv, TypeOK
  <2>3. \/ tasks' = tasks
        \/ \E fn \in todo[t] : tasks' = Append(tasks, Task(TASK_TYPE_BODY, job.home[fn], fn))
    BY <1>4 DEF Call
  <2>4. tasks' = tasks \/ \E x \in CompilerTask : tasks' = Append(tasks, x)
    BY <2>1, <2>2, <2>3
  <2> QED
    BY <1>1, <1>2, <2>4
<1>5. CASE AddFollowUp(t)
  <2>1. Head(out[t]) \in CompilerTask
    BY <1>5, HeadTailProperties DEF AddFollowUp, TypeInv, TypeOK, LocalTypes, LocalOK
  <2> QED
    BY <1>1, <1>5, <2>1 DEF AddFollowUp
<1>6. CASE TypeFunctions(t)
  <2> DEFINE exports == FunctionBodies(cur[t].import, job.exported \ used)
  <2>1. cur[t].import \in Imports
    BY <1>6, HoldsTask, TaskFields DEF TypeFunctions, Working
  <2>2. exports \in Seq(CompilerTask)
    <3>1. Declares(cur[t].import, job.exported \ used) \subseteq Functions
      BY JobFields DEF Declares, TypeInv, TypeOK
    <3> QED
      BY <2>1, <3>1, FunctionBodiesType
  <2>3. tasks' = tasks \o exports
    BY <1>6 DEF TypeFunctions
  <2> HIDE DEF exports
  <2>4. /\ Len(tasks \o exports) = Len(tasks) + Len(exports) /\ Len(exports) \in Nat
        /\ \A k \in 1..(Len(tasks) + Len(exports)) :
              (tasks \o exports)[k] = IF k <= Len(tasks) THEN tasks[k] ELSE exports[k - Len(tasks)]
    BY <1>0, <2>2, ConcatProperties, LenProperties
  <2> QED
    BY <1>0, <2>3, <2>4
<1>7. CASE ~FindImport(t) /\ ~Call(t) /\ ~AddFollowUp(t) /\ ~TypeFunctions(t)
  <2>1. tasks' = tasks
    <3>1. CASE Enter(t) \/ Exit(t)
      BY <1>7, <3>1 DEF Enter, RegisterTotal, RegisterWaiting, Wait, Exit, Finish, Leave, queue
    <3>2. CASE Lex(t) \/ Preprocess(t)
      BY <1>7, <3>2 DEF Lex, LexUnreadable, LinkPreload, LinkImport, LexDone, Preprocess, queue
    <3>3. CASE TypeCheck(t)
      BY <1>7, <3>3 DEF TypeCheck, Snapshot, TypeEnums, TypeStructs, JudgeRequeue, JudgeGiveUp,
                        DeclareUsage, BodyDone, queue
    <3>4. CASE Generate(t)
      BY <3>4 DEF Generate, QuickCheck, RunOnce, GenerateScope, GenerateMachineCode, queue
    <3> QED
      BY <3>1, <3>2, <3>3, <3>4 DEF processImports
  <2> QED
    BY <1>2, <2>1
<1> QED
  BY <1>3, <1>4, <1>5, <1>6, <1>7

\* An import is judged until its task is put back, or given up.
LEMMA JudgedStays ==
    ASSUME TypeInv, NEW t \in Threads, processImports(t), ~JudgeGiveUp(t), ~Requeue(t)
    PROVE  Judged \subseteq Judged'
<1>0. pc \in [Threads -> Labels] /\ \A u \in Threads \ {t} : pc'[u] = pc[u] /\ cur'[u] = cur[u]
  BY OthersUnchanged DEF TypeInv, TypeOK, LocalTypes
<1>1. pc[t] \in {"judge", "requeue"} => pc'[t] \in {"judge", "requeue"} /\ cur'[t] = cur[t]
  <2> SUFFICES ASSUME pc[t] \in {"judge", "requeue"} PROVE JudgeRequeue(t)
    BY <1>0 DEF JudgeRequeue, Goto, local
  <2>1. ~Enter(t) /\ ~Lex(t) /\ ~Preprocess(t)
    BY DEF Enter, RegisterTotal, RegisterWaiting, Wait, Select, Lex, LexUnreadable, FindImport,
           LinkPreload, LinkImport, LexDone, Preprocess, Working
  <2>2. ~Generate(t) /\ ~Exit(t)
    BY DEF Generate, QuickCheck, RunOnce, GenerateScope, GenerateMachineCode, Working, Exit,
           AddFollowUp, Finish, Leave
  <2>3. ~Snapshot(t) /\ ~TypeEnums(t) /\ ~TypeStructs(t) /\ ~TypeFunctions(t) /\ ~Call(t)
        /\ ~DeclareUsage(t) /\ ~BodyDone(t)
    BY DEF Snapshot, TypeEnums, TypeStructs, TypeFunctions, Call, DeclareUsage, BodyDone, Working
  <2> QED
    BY <2>1, <2>2, <2>3 DEF processImports, TypeCheck
<1> QED
  BY <1>0, <1>1 DEF Judged

\* Every step keeps the count.
LEMMA CountNext ==
    ASSUME \A t, u \in Threads : t = u, TypeInv, ChainInv, JudgesStructs, BarrierInv, DepsFound,
           SweepInv, NEW t \in Threads, processImports(t)
    PROVE  SweepsCounted'
<1>0. /\ Len(tasks) \in Nat /\ tasks \in Seq(CompilerTask) /\ stall \in Nat
      /\ \A u \in Threads : u = t
  BY LenProperties DEF TypeInv, TypeOK, QueueTypes, DataTypes
<1>1. SUFFICES ASSUME Proper', ~NoneLeft PROVE SweepsCounted'
  BY NoneLeftStays DEF SweepsCounted
<1>2. Proper
  BY <1>1, ProperBefore
<1>3. PICK b \in 0..Len(tasks) : Counted(b)
  BY <1>1, <1>2 DEF SweepInv, SweepsCounted
<1>4. CASE Select(t)
  BY <1>0, <1>1, <1>3, <1>4, CountSelect DEF SweepInv, SweepsCounted
<1>5. CASE FindImport(t)
  BY <1>3, <1>5, CountFind DEF SweepsCounted
<1>6. CASE TypeStructs(t)
  <2>1. stall' = SweepsSinceChange
    BY <1>0, <1>6 DEF TypeStructs, AnotherSweep
  <2>2. CASE complete' # complete
    BY <2>1, <2>2, CountStarts DEF SweepsSinceChange
  <2>3. CASE complete' = complete
    BY <1>0, <1>3, <1>6, <2>1, <2>3, CountSweep DEF SweepsSinceChange, SweepsCounted
  <2> QED
    BY <2>2, <2>3
<1>7. CASE Requeue(t)
  <2>1. CASE stall > 0
    BY <1>0, <1>3, <1>7, <2>1, CountRequeue DEF SweepInv, SweepsCounted
  <2>2. CASE stall = 0
    BY <1>7, <2>2, CountStarts DEF Requeue, data
  <2> QED
    BY <1>0, <2>1, <2>2
<1>8. CASE JudgeGiveUp(t)
  BY <1>1, <1>2, <1>8, GivesUpRightly DEF JudgeGiveUp, Proper
<1>9. CASE ~Select(t) /\ ~FindImport(t) /\ ~TypeStructs(t) /\ ~Requeue(t) /\ ~JudgeGiveUp(t)
  <2>1. imports' = imports /\ complete' = complete /\ stall' = stall /\ Judged \subseteq Judged'
    BY <1>9, ImportSteps, CompleteSteps, JudgedStays
  <2>2. Len(tasks) \in 0..Len(tasks') /\ \A k \in 1..Len(tasks) : tasks'[k] = tasks[k]
    BY <1>9, QueueGrows
  <2>3. b \in 0..Len(tasks') /\ \A k \in 1..b : tasks'[k] = tasks[k]
    BY <1>0, <2>2
  <2> QED
    BY <1>3, <2>1, <2>3, CountStays DEF SweepsCounted
<1> QED
  BY <1>4, <1>5, <1>6, <1>7, <1>8, <1>9

\* In a program without other errors the first is reported when a struct is given
\* up.
LEMMA OnlyStructErrorsStep ==
    ASSUME \A t, u \in Threads : t = u, TypeInv, ChainInv, JudgesStructs, BarrierInv, SweepInv,
           NEW t \in Threads, processImports(t)
    PROVE  OnlyStructErrors'
<1>0. job' = job /\ errors \in Nat
  BY OthersUnchanged DEF TypeInv, TypeOK, DataTypes
<1> SUFFICES ASSUME job.bad = {}, errors' > 0 PROVE NoneLeft'
  BY <1>0 DEF OnlyStructErrors
<1>1. NewErrors(t) = 0 /\ ~IsBad(t)
  BY DEF NewErrors, IsBad
<1>2. errors' = errors \/ JudgeGiveUp(t)
  <2>1. CASE Enter(t) \/ Exit(t)
    BY <2>1 DEF Enter, RegisterTotal, RegisterWaiting, Wait, Select, SelectTask, SelectFinished,
                SelectStuck, SelectNothing, Exit, AddFollowUp, Finish, Leave, data
  <2>2. CASE Lex(t) \/ Preprocess(t)
    BY <1>0, <1>1, <2>2 DEF Lex, LexUnreadable, FindImport, LinkPreload, LinkImport, LexDone,
                            Preprocess, data
  <2>3. CASE TypeCheck(t)
    BY <1>0, <1>1, <2>3 DEF TypeCheck, Snapshot, TypeEnums, TypeStructs, JudgeRequeue, Requeue,
                            TypeFunctions, Call, DeclareUsage, BodyDone, data
  <2>4. CASE Generate(t)
    BY <1>0, <1>1, <2>4 DEF Generate, QuickCheck, RunOnce, GenerateScope, GenerateMachineCode, data
  <2> QED
    BY <2>1, <2>2, <2>3, <2>4 DEF processImports
<1>3. CASE errors > 0
  BY <1>3, NoneLeftStays DEF SweepInv, OnlyStructErrors
<1>4. CASE errors = 0
  <2>1. JudgeGiveUp(t)
    BY <1>2, <1>4
  <2>2. NoneLeft
    BY <1>4, <2>1, GivesUpRightly DEF JudgeGiveUp
  <2> QED
    BY <2>2, NoneLeftStays
<1> QED
  BY <1>0, <1>3, <1>4

\* The invariant.
LEMMA SweepInvCorrect == (\A t, u \in Threads : t = u) => (Spec => []SweepInv)
<1> SUFFICES ASSUME \A t, u \in Threads : t = u PROVE Spec => []SweepInv
  OBVIOUS
<1>1. Init => SweepInv
  <2> SUFFICES ASSUME Init PROVE SweepInv
    OBVIOUS
  <2>0. TypeInv /\ stall = 0 /\ Len(tasks) \in Nat
    BY TypeInit, LenProperties DEF Init, TypeInv, TypeOK, QueueTypes
  <2>1. Counted(0) /\ 0 \in 0..Len(tasks)
    <3>1. Cardinality(Unswept(0)) \in Nat /\ Cardinality(Unswept(0)) <= Cardinality(imports)
      BY <2>0, UnsweptFinite
    <3> QED
      BY <2>0, <3>1 DEF Counted, SweptUpTo
  <2>2. SweepsCounted
    BY <2>1 DEF SweepsCounted
  <2>3. RequeuedRightly /\ StructsDone /\ SignaturesLast /\ OnlyStructErrors
    BY DEF Init, RequeuedRightly, StructsDone, SignaturesLast, OnlyStructErrors
  <2> QED
    BY <2>2, <2>3 DEF SweepInv
<1>2. /\ SweepInv /\ TypeInv /\ ChainInv /\ JudgesStructs /\ BarrierInv /\ PhaseBarrier /\ DepsFound
      /\ [Next]_vars
      => SweepInv'
  <2> SUFFICES ASSUME SweepInv, TypeInv, ChainInv, JudgesStructs, BarrierInv, PhaseBarrier,
                      DepsFound, [Next]_vars
               PROVE  SweepInv'
    OBVIOUS
  <2>1. CASE UNCHANGED vars
    <3>1. job' = job /\ complete' = complete
      BY <2>1 DEF vars, data
    <3>2. \A i : Settled(i)' <=> Settled(i)
      BY <3>1, SettledSame
    <3>3. Judged' = Judged
      BY <2>1 DEF vars, local, Judged
    <3>4. \A b : (SweptUpTo(b)' <=> SweptUpTo(b)) /\ Unswept(b)' = Unswept(b)
      BY <2>1, <3>2, <3>3 DEF vars, queue, data, SweptUpTo, Unswept, TASK_TYPE_STRUCTS
    <3>5. NoneLeft' <=> NoneLeft
      BY <2>1, <3>2 DEF vars, queue, data, NoneLeft, TASK_TYPE_ENUMS
    <3>6. SweepsCounted'
      BY <2>1, <3>4, <3>5 DEF vars, queue, data, verdict, SweepInv, SweepsCounted, Counted, Proper
    <3>7. RequeuedRightly' /\ OnlyStructErrors'
      BY <2>1, <3>2, <3>5 DEF vars, data, local, SweepInv, RequeuedRightly, OnlyStructErrors
    <3>8. StructsDone' /\ SignaturesLast'
      BY <2>1 DEF vars, queue, data, verdict, SweepInv, StructsDone, SignaturesLast, Incomplete,
                  Proper, TASK_TYPE_STRUCTS, TASK_TYPE_FUNCTIONS
    <3> QED
      BY <3>6, <3>7, <3>8 DEF SweepInv
  <2>2. ASSUME NEW t \in Threads, processImports(t) PROVE SweepInv'
    <3>1. SweepsCounted' /\ OnlyStructErrors'
      BY <2>2, CountNext, OnlyStructErrorsStep
    <3>2. RequeuedRightly' /\ StructsDone' /\ SignaturesLast'
      BY <2>2, RequeuedStep, StructsDoneStep, SignaturesStep DEF BarrierInv, SweepInv
    <3> QED
      BY <3>1, <3>2 DEF SweepInv
  <2> QED
    BY <2>1, <2>2 DEF Next, AfterReturn
<1>3. (Spec => []BarrierInv) /\ (Spec => []PhaseBarrier)
  BY BarrierInvCorrect, PhaseBarrierCorrect
<1>4. Spec => [](DepsFound /\ CheckingHeld /\ BeforeModified /\ LeftEmpty)
  BY LeavingInvCorrect
<1> QED
  BY <1>1, <1>2, <1>3, <1>4, TypeInvCorrect, ChainCorrect, PTL DEF Spec

\* With one thread a struct is reported as unresolvable only when no struct can
\* be completed any more, unless another phase has reported an error.
THEOREM GivesUpOnlyWithoutProgressCorrect ==
    (\A t, u \in Threads : t = u) => (Spec => GivesUpOnlyWithoutProgress)
<1> SUFFICES ASSUME \A t, u \in Threads : t = u PROVE Spec => GivesUpOnlyWithoutProgress
  OBVIOUS
<1> DEFINE Rightly == \A t \in Threads :
              pc[t] = "judge" /\ pc'[t] = "finish" /\ (errors = 0 \/ job.bad = {}) =>
                 \A i \in imports : Sweep(i) = complete
<1>1. TypeInv /\ ChainInv /\ JudgesStructs /\ BarrierInv /\ SweepInv /\ [Next]_vars => [Rightly]_vars
  <2> SUFFICES ASSUME TypeInv, ChainInv, JudgesStructs, BarrierInv, SweepInv, Next, NEW t \in Threads,
                      pc[t] = "judge", pc'[t] = "finish", errors = 0 \/ job.bad = {}
               PROVE  \A i \in imports : Sweep(i) = complete
    OBVIOUS
  <2>0. pc \in [Threads -> Labels] /\ errors \in Nat
    BY DEF TypeInv, TypeOK, LocalTypes, DataTypes
  <2>1. processImports(t)
    <3>1. CASE AfterReturn
      BY <3>1 DEF AfterReturn, vars
    <3> QED
      BY <3>1 DEF Next
  <2>2. NoMoreProgress
    <3>1. Judged \subseteq Judged' => FALSE
      BY DEF Judged
    <3>2. JudgeGiveUp(t) \/ Requeue(t)
      BY <2>1, <3>1, JudgedStays
    <3> QED
      BY <3>2 DEF JudgeGiveUp, Requeue
  <2>3. CASE errors = 0
    BY <2>2, <2>3, GivesUpRightly DEF NoneLeft, Settled
  <2>4. CASE errors # 0
    BY <2>0, <2>4 DEF SweepInv, OnlyStructErrors, NoneLeft, Settled
  <2> QED
    BY <2>3, <2>4
<1>2. (Spec => []BarrierInv) /\ (Spec => []SweepInv)
  BY BarrierInvCorrect, SweepInvCorrect
<1> QED
  BY <1>1, <1>2, TypeInvCorrect, ChainCorrect, PTL DEF Spec, GivesUpOnlyWithoutProgress
=============================================================================
