---------------------------- MODULE MCScheduler ----------------------------
(***************************************************************************)
(* Jobs for the model checker: small programs, one family per question.    *)
(***************************************************************************)
EXTENDS Scheduler, TLC

CONSTANTS P, A, B, C,   \* the preload and three files
          S1, S2,       \* a struct in A and one in B
          main, f,      \* a function in A, the entry, and one in B
          t1, t2

Files == Imports \ {P}
NoEdges == [i \in Imports |-> {}]
AToB == [NoEdges EXCEPT ![A] = {B}]

\* A imports B; functions call each other and themselves; A's struct holds B's.
Plain ==
    [ main |-> A, preload |-> P,
      finds |-> AToB, conditional |-> NoEdges, active |-> AToB,
      structs |-> [i \in Imports |-> IF i = A THEN <<S1>> ELSE IF i = B THEN <<S2>> ELSE <<>>],
      needs |-> [s \in Structs |-> IF s = S1 THEN {S2} ELSE {}],
      home |-> [fn \in Functions |-> IF fn = main THEN A ELSE B],
      calls |-> [x \in Imports \cup Functions |-> IF x \in Functions THEN Functions ELSE {}],
      entry |-> main, has_entry_point |-> TRUE, exported |-> {}, bad |-> {},
      only_preprocess |-> FALSE, incremental_build |-> FALSE, output_is_newer |-> FALSE,
      blocking_semaphore |-> TRUE ]

WithGraph(j, g) == [j EXCEPT !.finds = g, !.active = g]
Cyclic == WithGraph(Plain, [NoEdges EXCEPT ![A] = {B}, ![B] = {A}])
Library(j) == [j EXCEPT !.has_entry_point = FALSE, !.entry = NoFunction, !.exported = {main}]

\* Every import graph over the files (a file cannot import itself), and for
\* each the ways to run the compiler; A's imports may be in an #if.
Graphs == {g \in [Imports -> SUBSET Files] : g[P] = {} /\ \A i \in Files : i \notin g[i]}
Modes(j) ==
    { j, [j EXCEPT !.preload = NoImport], [j EXCEPT !.only_preprocess = TRUE],
      [j EXCEPT !.conditional[A] = j.finds[A], !.active[A] = {}] }
OtherModes(j) ==
    { Library(j),
      [j EXCEPT !.incremental_build = TRUE, !.output_is_newer = FALSE],
      [j EXCEPT !.incremental_build = TRUE, !.output_is_newer = TRUE] }
GraphJobs == UNION {Modes(WithGraph(Plain, g)) : g \in Graphs}
             \cup OtherModes(Plain) \cup OtherModes(Cyclic)

\* One phase of one file reports an error, or structs depend on each other, or
\* both: what depends on a file with an error waits in vain.
Faults(j) == {[j EXCEPT !.bad = {x}] : x \in Imports \X TaskTypes}
StructNeeds(j) == {[j EXCEPT !.needs = n] : n \in [Structs -> SUBSET Structs]}
Diamond == WithGraph(Plain, [NoEdges EXCEPT ![A] = {B, C}, ![B] = {C}])
HeldUp(j) == {[j EXCEPT !.bad = {<<i, TASK_TYPE_ENUMS>>}] : i \in Imports}
FaultyJobs == UNION {Faults(j) \cup StructNeeds(j) : j \in {Plain, Cyclic}} \cup Faults(Diamond)
              \cup UNION {HeldUp(j) : j \in StructNeeds(Plain)}

SerialJobs == GraphJobs \cup FaultyJobs

\* For two threads.
WithoutPreload(j) == [j EXCEPT !.preload = NoImport]
OnLinux(j) == [j EXCEPT !.blocking_semaphore = FALSE]
ParallelJobs == {WithoutPreload(Plain), WithoutPreload(Cyclic), WithoutPreload(OnLinux(Plain))}
=============================================================================
