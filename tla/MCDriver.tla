------------------------------ MODULE MCDriver ------------------------------
(***************************************************************************)
(* A main file and one that it imports, written before the clock starts    *)
(* and edited at two moments; projects that take every way through the     *)
(* driver; builds that execute the output, with and without --incremental, *)
(* that run the virtual machine and that only preprocess.                  *)
(***************************************************************************)
EXTENDS Driver

Build(i, vm, p) == [incremental |-> i, vm |-> vm, run |-> ~vm, preprocess |-> p]
Incremental == {Build(TRUE, FALSE, FALSE)}
Project(type, target, linker, elsewhere, builds) ==
    [type |-> type, target |-> target, linker |-> linker, elsewhere |-> elsewhere, named |-> TRUE, sources |-> "file",
     builds |-> builds]
Executable == Project("exe", "x64", "gcc", FALSE, Incremental)
MCProjects ==
    {[Executable EXCEPT !.builds = {Build(TRUE, FALSE, FALSE), Build(TRUE, TRUE, FALSE), Build(FALSE, FALSE, TRUE)}],
     Project("exe", "x64", "msvc", TRUE, Incremental)}
    \cup {Project(type, "x64", "gcc", FALSE, Incremental) : type \in {"obj", "unsupported"}}
    \cup {Project("dll", "x64", "msvc", FALSE, Incremental)}
    \cup {Project(type, "arm", "gcc", FALSE, Incremental) : type \in {"image", "exe"}}
    \cup {Project("exe", "bytecode", "gcc", FALSE, Incremental)}
    \cup {[Executable EXCEPT !.sources = s] : s \in {"none", "both"}}
Alone == {Executable}
=============================================================================
