------------------------------ MODULE Pipeline ------------------------------
(***************************************************************************)
(* What the task loop promises, without threads, queue or locks: files are *)
(* found while files are lexed, every file goes through the phases in      *)
(* order, and from the signatures on no file enters a phase before every   *)
(* file has been through the one before, unless that file was given up.    *)
(***************************************************************************)
EXTENDS Naturals, FiniteSets

CONSTANTS Files,        \* what may be found
          Phases,       \* how many phases there are; the first one is lexing
          FirstWave     \* from this phase on files advance together

VARIABLES found, stage, given_up
vars == <<found, stage, given_up>>

Alive == {i \in found \ given_up : stage[i] < Phases}

Init == /\ found \in SUBSET Files /\ found # {}
        /\ stage = [i \in Files |-> 0]
        /\ given_up = {}

\* Lexing a file finds another one.
Find(i) == /\ i \notin found
           /\ \E j \in Alive : stage[j] = 0
           /\ found' = found \cup {i}
           /\ UNCHANGED <<stage, given_up>>

\* The phase a file enters next comes after every file's current one.
WaveReached(i) ==
    stage[i] + 1 >= FirstWave => \A j \in found \ given_up : stage[j] >= stage[i]

Advance(i) == /\ i \in Alive
              /\ WaveReached(i)
              /\ stage' = [stage EXCEPT ![i] = @ + 1]
              /\ UNCHANGED <<found, given_up>>

\* Errors, or the decision not to compile at all, end the way of some files.
GiveUp(S) == /\ S # {} /\ S \subseteq Alive
             /\ given_up' = given_up \cup S
             /\ UNCHANGED <<found, stage>>

Next == \/ \E i \in Files : Find(i) \/ Advance(i)
        \/ \E S \in SUBSET Files : GiveUp(S)

Spec == Init /\ [][Next]_vars

\* A file is never ahead of a file that is still on its way by more than the
\* phase that both are in, once the waves have begun.
Together == \A i, j \in found \ given_up :
                stage[i] >= FirstWave => stage[j] >= stage[i] - 1
\* Nothing is found after the waves have begun.
FoundBeforeWaves == [][found' # found => \A i \in Alive : stage[i] < FirstWave]_vars
\* Every file found reaches the last phase or is given up.
EverythingEnds == <>[](Alive = {})
=============================================================================
