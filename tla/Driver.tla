------------------------------- MODULE Driver -------------------------------
(***************************************************************************)
(* One program that is edited and compiled again and again.  A run of the  *)
(* compiler (Compiler::run) reads the source files, decides whether there  *)
(* is anything to do (--incremental), compiles, writes an object file,     *)
(* links it, writes declaration files, executes the result and returns an  *)
(* exit code.  Every step may fail, not all failures are noticed, the      *)
(* compiler may be killed anywhere, and the files may be edited while it   *)
(* runs.                                                                   *)
(*                                                                         *)
(* What happens between reading and writing is the subject of Scheduler,   *)
(* Generator and X64Builder; here it is its outcome: errors or none.       *)
(***************************************************************************)
EXTENDS Naturals

CONSTANTS
    NFiles,         \* source files, numbered in the order the compiler meets them
    Texts,          \* what a file may contain
    EarlyErrors,    \* texts with errors that are found before the functions are checked
    LateErrors,     \* texts with errors that are found afterwards
    Missing,        \* instead of a text: there is no such file
    Projects,       \* the options of a program's builds
    MaxTime         \* bounds the clock

VARIABLES
    clock,
    source,     \* file -> [text, time]: what it contains and when it was written
    file,       \* the files the compiler writes
    project,    \* the options that all runs share, and those they choose from
    run         \* the run of the compiler
vars == <<clock, source, file, project, run>>

Files == 1..NFiles
\* An object file that is not the output is left out: the run that links it has
\* written it.
Paths == {"temp", "output", "declaration"}
Flags == [incremental : BOOLEAN, vm : BOOLEAN, run : BOOLEAN, preprocess : BOOLEAN]
OutputTypes == {"exe", "dll", "lib", "obj", "image", "unsupported"}

ASSUME ConstantsAssumption ==
    /\ NFiles \in Nat \ {0}
    /\ EarlyErrors \subseteq Texts /\ LateErrors \subseteq Texts
    /\ Missing \notin Texts
    /\ Projects \subseteq [type : OutputTypes, target : {"x64", "arm", "bytecode"}, linker : {"gcc", "msvc"},
                           elsewhere : BOOLEAN, named : BOOLEAN, sources : {"none", "file", "both"},
                           builds : SUBSET Flags]
    /\ MaxTime \in Nat \ {0}

Unread == [f \in Files |-> Missing]
\* A file: of are the texts it was made from.  It is clean when it is complete
\* and no file had been edited by then since it was read.
Absent == [exists |-> FALSE, of |-> Unread, time |-> 0, whole |-> FALSE, clean |-> FALSE]
Partial == [exists |-> TRUE, of |-> Unread, time |-> clock, whole |-> FALSE, clean |-> FALSE]
Made(of) == [exists |-> TRUE, of |-> of, time |-> clock, whole |-> TRUE,
             clean |-> \A f \in Files : of[f] = source[f].text]
\* What a run makes, when what it is made of was cut short or not.
Output(short) == IF short THEN Partial ELSE Made(run.text)

Idle == [at |-> "idle", flags |-> [incremental |-> FALSE, vm |-> FALSE, run |-> FALSE, preprocess |-> FALSE],
         next |-> 1, opened |-> FALSE, text |-> Unread, newest |-> 0,
         errors |-> 0, up_to_date |-> FALSE, refused |-> FALSE, stuck |-> FALSE,
         short |-> FALSE,       \* a file for the linker was not written whole, which nobody noticed
         undeclared |-> FALSE,  \* nor were the declarations
         linked |-> FALSE, copied |-> FALSE, executed |-> "nothing", program |-> Absent]

Init ==
    /\ clock = 1
    /\ source \in [Files -> [text : Texts \cup {Missing}, time : {0}]]
    /\ file = [p \in Paths |-> Absent]
    /\ project \in Projects
    /\ run = Idle

-----------------------------------------------------------------------------
(* The world around the compiler. *)

Tick == clock < MaxTime /\ clock' = clock + 1 /\ UNCHANGED <<source, file, project, run>>

\* A file is written, perhaps for the first time.  None is deleted.
Edit(f) ==
    /\ \E t \in Texts : source' = [source EXCEPT ![f] = [text |-> t, time |-> clock]]
    /\ UNCHANGED <<clock, file, project, run>>

Running == run.at \notin {"idle", "ended"}
Killed == Running /\ run' = Idle /\ UNCHANGED <<clock, source, file, project>>

-----------------------------------------------------------------------------
(***************************************************************************)
(* A run.  Goes(at) moves on, Fails counts an error and returns.           *)
(***************************************************************************)
Goes(r, at) == run' = [r EXCEPT !.at = at] /\ UNCHANGED <<clock, source, project>>
Ends(r) == Goes(r, "ended") /\ UNCHANGED file
Fails == Ends([run EXCEPT !.errors = @ + 1])
Writes(path, contents) == file' = [file EXCEPT ![path] = contents]

\* The options that run() returns on without an error.
Refused ==
    \/ project.sources = "none"
    \/ project.type = "unsupported"
    \/ project.target = "arm" /\ project.type \notin {"obj", "image"}
    \/ project.target # "arm" /\ project.type = "image"

Start(flags) ==
    LET r == [Idle EXCEPT !.flags = flags] IN
    /\ run.at \in {"idle", "ended"}
    /\ \/ ~Refused /\ project.sources = "file" /\ source[1].text # Missing
            /\ Goes(r, "reading") /\ UNCHANGED file
       \/ Refused /\ Ends([r EXCEPT !.refused = TRUE])
       \/ ~Refused /\ (project.sources = "both" \/ source[1].text = Missing)
            /\ Ends([r EXCEPT !.errors = 1])
       \/ project.linker = "msvc" /\ Ends([r EXCEPT !.errors = 1])     \* not installed

\* tokenize: the text is read, the file closed, and then its time is asked for.
ReadText ==
    /\ run.at = "reading" /\ run.next \in Files /\ ~run.opened
    /\ Goes([run EXCEPT !.text[run.next] = source[run.next].text, !.opened = TRUE], "reading")
    /\ UNCHANGED file
\* compute_last_modified_time takes one from the number of an import and the
\* lexer takes one again: instead of a file's time it sees that of the file
\* before it, and never that of the last one.
Examined == {f \in Files : f + 1 \in Files}
Looked(f) == f \in Examined /\ run.text[f] # Missing
ReadTime ==
    /\ run.at = "reading" /\ run.next \in Files /\ run.opened
    /\ Goes([run EXCEPT !.newest = IF Looked(run.next) /\ source[run.next].time > @ THEN source[run.next].time ELSE @,
                        !.next = @ + 1, !.opened = FALSE],
            IF run.next = NFiles THEN "deciding" ELSE "reading")
    /\ UNCHANGED file

OutputNotOlder == run.newest <= file["output"].time
OutputNewer == run.newest < file["output"].time
UpToDate == run.flags.incremental /\ ~run.flags.preprocess /\ project.named /\ file["output"].exists /\ OutputNewer

\* An error in a file may keep the others from getting to the decision, and
\* -preprocess finds only some of the early ones.
EarlyError == \E f \in Files : run.text[f] \in EarlyErrors \cup {Missing}
Decide ==
    /\ run.at = "deciding"
    /\ \E found, reached \in BOOLEAN :
        /\ found => EarlyError
        /\ EarlyError => found \/ run.flags.preprocess
        /\ reached \/ found
        /\ Goes([run EXCEPT !.errors = IF found THEN @ + 1 ELSE @, !.up_to_date = reached /\ UpToDate],
                IF reached /\ UpToDate THEN "execute" ELSE "compile")
    /\ UNCHANGED file

\* The rest of the task loop.  It may get stuck without an error.
LateError == ~run.flags.preprocess /\ \E f \in Files : run.text[f] \in LateErrors
Compile ==
    /\ run.at = "compile"
    /\ \E stuck \in BOOLEAN :
        Goes([run EXCEPT !.errors = IF LateError THEN @ + 1 ELSE @, !.stuck = stuck], "finalize")
    /\ UNCHANGED file

\* finalize_program; for bytecode nothing is done, which counts as a failure.
Finalize ==
    /\ run.at = "finalize"
    /\ \/ Fails
       \/ project.target # "bytecode" /\ (run.errors # 0 \/ run.flags.preprocess \/ run.stuck) /\ Ends(run)
       \/ project.target # "bytecode" /\ run.errors = 0 /\ ~run.flags.preprocess /\ ~run.stuck
            /\ Goes(run, "object") /\ UNCHANGED file

-----------------------------------------------------------------------------
(* Files are written in two steps; a run may be killed between them. *)

\* The file cannot be opened, or FileWrite returns that it has written nothing.
ObjectFails == run.at \in {"object", "writing"} /\ Fails
ObjectBegins ==
    /\ run.at = "object"
    /\ IF project.type = "obj" THEN Writes("output", Partial) ELSE UNCHANGED file
    /\ Goes(run, "writing")
\* What FileWrite returns is taken for a Boolean: an error (-1) and too few bytes
\* are as true as all of them.
ObjectDone ==
    /\ run.at = "writing"
    /\ \E short \in BOOLEAN :
        /\ IF project.type = "obj" THEN Writes("output", Output(short)) ELSE UNCHANGED file
        /\ Goes([run EXCEPT !.short = short],
                CASE project.type = "obj" -> "declare" [] project.type = "image" -> "assemble" [] OTHER -> "link")

\* The startup code of an image: libraries are not allowed, the assembler may fail.
\* Whether code and linker script were written is not looked at.
Assemble ==
    /\ run.at = "assemble"
    /\ \/ Fails
       \/ \E short \in BOOLEAN : Goes([run EXCEPT !.short = @ \/ short], "link") /\ UNCHANGED file

\* The MSVC linker only writes to the working directory.
Copying == project.linker = "msvc" /\ project.elsewhere /\ project.type # "image"
LinkPath == IF Copying THEN "temp" ELSE "output"
AfterLink == IF project.type \in {"dll", "lib", "obj"} THEN "declare" ELSE "execute"
LinkNotStarted == run.at = "link" /\ Fails
\* Nor is it for the list of the functions that a library exports, which only the
\* MSVC linker reads.
Exports == project.linker = "msvc" /\ project.type = "dll"
LinkBegins ==
    /\ run.at = "link" /\ Writes(LinkPath, Partial)
    /\ \E short \in {FALSE, Exports} : Goes([run EXCEPT !.short = @ \/ short], "linking")
\* Only whether the linker could be started is looked at.
LinkAlwaysDone ==
    /\ run.at \in {"link", "linking"}
    /\ file' = IF run.at = "linking" THEN [file EXCEPT ![LinkPath] = Absent] ELSE file
    /\ Goes(run, IF Copying THEN "copy" ELSE AfterLink)
\* With an exit code: the linker leaves the file it found or removes it.  What
\* is in the temporary file is copied all the same.
LinkFails ==
    /\ run.at \in {"link", "linking"}
    /\ file' = IF run.at = "linking" THEN [file EXCEPT ![LinkPath] = Absent] ELSE file
    /\ IF Copying THEN Goes(run, "copy") ELSE Goes([run EXCEPT !.errors = @ + 1], "ended")
LinkDone ==
    /\ run.at = "linking"
    /\ Writes(LinkPath, Output(run.short))
    /\ Goes([run EXCEPT !.linked = TRUE], IF Copying THEN "copy" ELSE AfterLink)

\* The copy keeps the time of what is copied.  That it fails is no error.
CopyBegins ==
    /\ run.at = "copy" /\ file["temp"].exists
    /\ Writes("output", Partial) /\ Goes(run, "copying")
CopyReturns(copied) ==
    IF run.linked THEN Goes([run EXCEPT !.copied = copied], AfterLink)
    ELSE Goes([run EXCEPT !.copied = copied, !.errors = @ + 1], "ended")
CopyDone == run.at = "copying" /\ Writes("output", file["temp"]) /\ CopyReturns(TRUE)
CopyFails == run.at = "copy" /\ CopyReturns(FALSE) /\ UNCHANGED file

\* WriteDeclFiles looks neither at whether the files were opened nor at whether
\* they were written, and always succeeds.
Declare ==
    /\ run.at = "declare"
    /\ \/ Writes("declaration", Made(run.text)) /\ Goes(run, "execute")
       \/ /\ UNCHANGED file \/ Writes("declaration", Partial)
          /\ Goes([run EXCEPT !.undeclared = TRUE], "execute")

\* JUMP_TO_EXEC without a look at the errors.
ExecuteAnyway ==
    /\ run.at = "execute"
    /\ \/ run.flags.run /\ project.type \in {"exe", "image"}
            /\ Ends([run EXCEPT !.executed = "output", !.program = file["output"]])
       \/ ~run.flags.run /\ Ends(run)
\* When the output is up to date there is no bytecode for the virtual machine.
Execute ==
    /\ run.at = "execute"
    /\ \/ run.errors # 0 /\ Ends(run)
       \/ run.errors = 0 /\ run.flags.vm
            /\ Ends([run EXCEPT !.executed = "bytecode",
                                !.program = IF run.up_to_date THEN Absent ELSE Made(run.text)])
       \/ run.errors = 0 /\ ~run.flags.vm /\ run.flags.run /\ project.type \in {"exe", "image"}
            /\ Ends([run EXCEPT !.executed = "output", !.program = file["output"]])
       \/ run.errors = 0 /\ ~run.flags.vm /\ ~(run.flags.run /\ project.type \in {"exe", "image"}) /\ Ends(run)

Write == ObjectFails \/ ObjectBegins \/ ObjectDone \/ Assemble
Link == LinkNotStarted \/ LinkBegins \/ LinkFails \/ LinkDone \/ CopyBegins \/ CopyDone \/ CopyFails
Next ==
    \/ Tick \/ Killed \/ \E f \in Files : Edit(f)
    \/ \E flags \in project.builds : Start(flags)
    \/ ReadText \/ ReadTime \/ Decide \/ Compile \/ Finalize
    \/ Write \/ Link \/ Declare \/ Execute
Spec == Init /\ [][Next]_vars

-----------------------------------------------------------------------------
\* main() turns the errors into an exit code.
ExitCode == IF run.errors > 0 THEN 1 ELSE 0
NotCopied == run.linked /\ Copying /\ ~run.copied
MadeOf(made, files) == \A f \in files : made.of[f] = run.text[f]

\* When a run without errors calls a complete output, made from files that were not edited
\* meanwhile, up to date (Compiler.cpp:576), it was made from what the run has
\* read of every file whose time it looks at, whatever was edited since, by
\* however many failed, killed or misled runs in between.
UpToDateIsTrue ==
    run.up_to_date /\ ExitCode = 0 /\ file["output"].clean => MadeOf(file["output"], Examined)

\* An exit code of success (main.cpp:199) of a run that had something to do means
\* that no file it read had errors, that the output is complete and made from
\* what it read, unless the copy failed or a file for the linker was cut short
\* (ObjectFile.cpp:732), and that for libraries the declarations are, too, unless
\* they were not written (decl_gen.cpp:549): one failure does not hide another.
\* Excepted altogether are a stuck task loop and the options run() returns on in
\* silence.
SuccessMeansBuilt ==
    /\ run.at = "ended" /\ ExitCode = 0 /\ ~run.up_to_date /\ ~run.flags.preprocess
    /\ ~run.refused /\ ~run.stuck
    => /\ \A f \in Files : run.text[f] \notin EarlyErrors \cup LateErrors \cup {Missing}
       /\ NotCopied \/ run.short \/ (file["output"].whole /\ MadeOf(file["output"], Files))
       /\ project.type \in {"dll", "lib", "obj"} =>
            run.undeclared \/ (file["declaration"].whole /\ MadeOf(file["declaration"], Files))

\* A program is only executed after a run without errors (Compiler.cpp:2201), and
\* it is the one that was read, if the output was copied and nothing cut short;
\* bytecode always is.  When the output was up to date, it is a clean one made
\* from what was read of the files that are looked at.
RunsWhatItRead ==
    run.executed # "nothing" =>
        /\ ExitCode = 0
        /\ ~run.up_to_date => \/ run.executed = "output" /\ (NotCopied \/ run.short)
                              \/ run.program.whole /\ MadeOf(run.program, Files)
        /\ run.up_to_date /\ run.program.clean => run.executed = "output" /\ MadeOf(run.program, Examined)

\* "Compiles source code if any file changed since last compilation."
\* (Help.cpp:105): an output that is called up to date was made from what was
\* read of all files.
AnyChangeCompiles ==
    run.up_to_date /\ ExitCode = 0 /\ file["output"].clean => MadeOf(file["output"], Files)
=============================================================================
