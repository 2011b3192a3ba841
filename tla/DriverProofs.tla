---------------------------- MODULE DriverProofs ----------------------------
(***************************************************************************)
(* What the driver promises, for any number of files, texts and projects   *)
(* and however long it goes on.                                            *)
(***************************************************************************)
EXTENDS Driver, TLAPS

Content == Texts \cup {Missing}
FileRecords == [exists : BOOLEAN, of : [Files -> Content], time : Nat, whole : BOOLEAN, clean : BOOLEAN]
Stages == {"idle", "reading", "deciding", "compile", "finalize", "object", "writing", "assemble", "link",
           "linking", "copy", "copying", "declare", "execute", "ended"}
Runs == [at : Stages, flags : Flags, next : Nat, opened : BOOLEAN, text : [Files -> Content], newest : Nat,
         errors : Nat, up_to_date : BOOLEAN, refused : BOOLEAN, stuck : BOOLEAN,
         short : BOOLEAN, undeclared : BOOLEAN, linked : BOOLEAN,
         copied : BOOLEAN, executed : {"nothing", "bytecode", "output"}, program : FileRecords]
TypeOK ==
    /\ clock \in Nat
    /\ source \in [Files -> [text : Content, time : Nat]]
    /\ file \in [Paths -> FileRecords]
    /\ project \in Projects
    /\ run \in Runs

LEMMA AbsentType == Absent \in FileRecords
BY DEF Absent, FileRecords, Unread, Content

LEMMA IdleType == ConstantsAssumption => Idle \in Runs
BY AbsentType DEF Idle, Runs, Stages, Flags, Unread, Content

LEMMA MadeType ==
    ASSUME TypeOK, NEW of \in [Files -> Content] PROVE Made(of) \in FileRecords /\ Partial \in FileRecords
BY DEF TypeOK, Made, Partial, FileRecords, Unread, Content

LEMMA OutputType ==
    ASSUME TypeOK, NEW short \in BOOLEAN PROVE Output(short) \in FileRecords /\ Partial \in FileRecords
<1>1. run.text \in [Files -> Content]
  BY DEF TypeOK, Runs
<1> QED
  BY <1>1, MadeType DEF Output

LEMMA GoesType ==
    ASSUME TypeOK, NEW r \in Runs, NEW at \in Stages, Goes(r, at), file' \in [Paths -> FileRecords]
    PROVE  TypeOK'
BY DEF TypeOK, Goes, Runs

LEMMA InitType == ASSUME ConstantsAssumption, Init PROVE TypeOK
BY AbsentType, IdleType DEF Init, TypeOK, Content

LEMMA EndsType ==
    ASSUME TypeOK, NEW r \in Runs, Ends(r) PROVE TypeOK'
BY GoesType DEF Ends, TypeOK, Stages

LEMMA FailsType == ASSUME TypeOK, Fails PROVE TypeOK'
<1>1. [run EXCEPT !.errors = @ + 1] \in Runs
  BY DEF TypeOK, Runs
<1> QED
  BY <1>1, EndsType DEF Fails

LEMMA WritesType ==
    ASSUME TypeOK, NEW path \in Paths, NEW contents \in FileRecords, Writes(path, contents)
    PROVE  file' \in [Paths -> FileRecords]
BY DEF TypeOK, Writes

LEMMA OutcomeType ==
    ASSUME TypeOK, NEW e \in Nat, NEW b
    PROVE  b \in BOOLEAN => /\ [run EXCEPT !.errors = e, !.stuck = b] \in Runs
                            /\ [run EXCEPT !.copied = b] \in Runs
                            /\ [run EXCEPT !.copied = b, !.errors = e] \in Runs
                            /\ [run EXCEPT !.short = b] \in Runs
                            /\ [run EXCEPT !.undeclared = b] \in Runs
BY DEF TypeOK, Runs

LEMMA ShortType == ASSUME TypeOK, NEW short \in BOOLEAN PROVE [run EXCEPT !.short = @ \/ short] \in Runs
<1> DEFINE b == run.short \/ short
<1>1. b \in BOOLEAN
  OBVIOUS
<1> HIDE DEF b
<1>2. [run EXCEPT !.short = b] \in Runs
  BY <1>1 DEF TypeOK, Runs
<1> QED
  BY <1>2 DEF b

LEMMA TypeStep == ASSUME ConstantsAssumption, TypeOK, [Next]_vars PROVE TypeOK'
<1> USE DEF Stages
<1>1. CASE UNCHANGED vars
  BY <1>1 DEF TypeOK, vars
<1>2. CASE Tick
  BY <1>2 DEF Tick, TypeOK
<1>3. ASSUME NEW f \in Files, Edit(f) PROVE TypeOK'
  BY <1>3 DEF Edit, TypeOK, Content
<1>4. CASE Killed
  BY <1>4, IdleType DEF Killed, TypeOK
<1>5. ASSUME NEW flags \in project.builds, Start(flags) PROVE TypeOK'
  <2>1. flags \in Flags
    BY DEF TypeOK, ConstantsAssumption
  <2> DEFINE r == [Idle EXCEPT !.flags = flags]
  <2>2. r \in Runs /\ [r EXCEPT !.refused = TRUE] \in Runs /\ [r EXCEPT !.errors = 1] \in Runs
    BY <2>1, IdleType DEF Runs
  <2>3. CASE Goes(r, "reading") /\ UNCHANGED file
    BY <2>2, <2>3, GoesType DEF TypeOK
  <2>4. CASE Ends([r EXCEPT !.refused = TRUE])
    BY <2>2, <2>4, EndsType
  <2>5. CASE Ends([r EXCEPT !.errors = 1])
    BY <2>2, <2>5, EndsType
  <2> QED
    BY <1>5, <2>3, <2>4, <2>5 DEF Start
<1>6. CASE ReadText
  <2>1. source[run.next].text \in Content
    BY <1>6 DEF ReadText, TypeOK
  <2>2. [run EXCEPT !.text[run.next] = source[run.next].text, !.opened = TRUE] \in Runs
    BY <1>6, <2>1 DEF ReadText, TypeOK, Runs
  <2> QED
    BY <1>6, <2>2, GoesType DEF ReadText, TypeOK
<1>7. CASE ReadTime
  <2> DEFINE t == IF Looked(run.next) /\ source[run.next].time > run.newest THEN source[run.next].time ELSE run.newest
  <2>1. t \in Nat /\ run.next + 1 \in Nat
    BY <1>7 DEF ReadTime, TypeOK, Runs
  <2>2. [run EXCEPT !.newest = t, !.next = @ + 1, !.opened = FALSE] \in Runs
    BY <2>1 DEF TypeOK, Runs
  <2> QED
    BY <1>7, <2>2, GoesType DEF ReadTime, TypeOK
<1>8. CASE Decide
  <2>1. PICK found, reached \in BOOLEAN :
          Goes([run EXCEPT !.errors = IF found THEN @ + 1 ELSE @, !.up_to_date = reached /\ UpToDate],
               IF reached /\ UpToDate THEN "execute" ELSE "compile")
    BY <1>8 DEF Decide
  <2>2. UpToDate \in BOOLEAN
    BY DEF UpToDate, OutputNewer, TypeOK, FileRecords, Runs, Flags, ConstantsAssumption
  <2> DEFINE e == IF found THEN run.errors + 1 ELSE run.errors
             u == reached /\ UpToDate
  <2>3. e \in Nat /\ u \in BOOLEAN
    BY <2>2 DEF TypeOK, Runs
  <2>4. [run EXCEPT !.errors = e, !.up_to_date = u] \in Runs
    <3> HIDE DEF e, u
    <3> QED
      BY <2>3 DEF TypeOK, Runs
  <2> QED
    BY <1>8, <2>1, <2>4, GoesType DEF Decide, TypeOK
<1>9. CASE Compile
  <2>1. PICK stuck \in BOOLEAN :
          Goes([run EXCEPT !.errors = IF LateError THEN @ + 1 ELSE @, !.stuck = stuck], "finalize")
    BY <1>9 DEF Compile
  <2>2. [run EXCEPT !.errors = IF LateError THEN @ + 1 ELSE @, !.stuck = stuck] \in Runs
    <3> DEFINE e == IF LateError THEN run.errors + 1 ELSE run.errors
    <3>1. e \in Nat
      BY DEF TypeOK, Runs
    <3> HIDE DEF e
    <3>2. [run EXCEPT !.errors = e, !.stuck = stuck] \in Runs
      BY <3>1, OutcomeType
    <3> QED
      BY <3>2 DEF e
  <2> QED
    BY <1>9, <2>1, <2>2, GoesType DEF Compile, TypeOK
<1>10. CASE Finalize
  BY <1>10, FailsType, EndsType, GoesType DEF Finalize, TypeOK
<1>11. CASE Write
  <2>1. CASE ObjectFails
    BY <2>1, FailsType DEF ObjectFails
  <2>2. CASE ObjectBegins
    BY <2>2, OutputType, WritesType, GoesType DEF ObjectBegins, TypeOK, Paths
  <2>3. CASE ObjectDone
    <3> DEFINE next == CASE project.type = "obj" -> "declare" [] project.type = "image" -> "assemble" [] OTHER -> "link"
    <3>1. PICK short \in BOOLEAN :
            /\ IF project.type = "obj" THEN Writes("output", Output(short)) ELSE UNCHANGED file
            /\ Goes([run EXCEPT !.short = short], next)
      BY <2>3 DEF ObjectDone
    <3>2. file' \in [Paths -> FileRecords]
      BY <3>1, OutputType, WritesType DEF TypeOK, Paths
    <3>3. [run EXCEPT !.short = short] \in Runs
      BY OutcomeType
    <3>4. next \in Stages
      OBVIOUS
    <3> HIDE DEF next
    <3> QED
      BY <3>1, <3>2, <3>3, <3>4, GoesType
  <2>4. CASE Assemble
    <3>1. CASE Fails
      BY <3>1, FailsType
    <3>2. ASSUME NEW short \in BOOLEAN, Goes([run EXCEPT !.short = @ \/ short], "link"), UNCHANGED file PROVE TypeOK'
      <4>1. [run EXCEPT !.short = @ \/ short] \in Runs
        BY ShortType
      <4> QED
        BY <3>2, <4>1, GoesType DEF TypeOK
    <3> QED
      BY <2>4, <3>1, <3>2 DEF Assemble
  <2> QED
    BY <1>11, <2>1, <2>2, <2>3, <2>4 DEF Write
<1>12. CASE Link
  <2>1. CASE LinkNotStarted
    BY <2>1, FailsType DEF LinkNotStarted
  <2>2. CASE LinkBegins
    <3>1. Partial \in FileRecords /\ LinkPath \in Paths
      BY OutputType DEF LinkPath, Paths
    <3>2. file' \in [Paths -> FileRecords]
      BY <2>2, <3>1, WritesType DEF LinkBegins
    <3>3. PICK short \in {FALSE, Exports} : Goes([run EXCEPT !.short = @ \/ short], "linking")
      BY <2>2 DEF LinkBegins
    <3>4. [run EXCEPT !.short = @ \/ short] \in Runs
      BY ShortType DEF Exports
    <3> QED
      BY <3>2, <3>3, <3>4, GoesType
  <2>3. CASE LinkFails
    <3>1. file' \in [Paths -> FileRecords]
      BY <2>3, AbsentType DEF LinkFails, TypeOK
    <3>2. [run EXCEPT !.errors = @ + 1] \in Runs
      BY DEF TypeOK, Runs
    <3> QED
      BY <2>3, <3>1, <3>2, GoesType DEF LinkFails, TypeOK
  <2>4. CASE LinkDone
    <3>1. Output(run.short) \in FileRecords
      BY OutputType DEF TypeOK, Runs
    <3>2. file' \in [Paths -> FileRecords]
      BY <2>4, <3>1, WritesType DEF LinkDone, LinkPath, Paths
    <3>3. [run EXCEPT !.linked = TRUE] \in Runs
      BY DEF TypeOK, Runs
    <3> QED
      BY <2>4, <3>2, <3>3, GoesType DEF LinkDone, AfterLink
  <2>5. ASSUME NEW copied \in BOOLEAN, CopyReturns(copied), file' \in [Paths -> FileRecords] PROVE TypeOK'
    <3>1. run.errors + 1 \in Nat
      BY DEF TypeOK, Runs
    <3>2. [run EXCEPT !.copied = copied] \in Runs /\ [run EXCEPT !.copied = copied, !.errors = @ + 1] \in Runs
      BY <3>1, OutcomeType
    <3> QED
      BY <2>5, <3>2, GoesType DEF CopyReturns, AfterLink
  <2>6. CASE CopyBegins
    <3>1. Partial \in FileRecords
      BY OutputType
    <3> QED
      BY <2>6, <3>1, WritesType, GoesType DEF CopyBegins, TypeOK, Paths
  <2>7. CASE CopyDone
    <3>1. file' \in [Paths -> FileRecords]
      BY <2>7, WritesType DEF CopyDone, TypeOK, Paths
    <3> QED
      BY <2>7, <3>1, <2>5 DEF CopyDone
  <2>8. CASE CopyFails
    BY <2>8, <2>5 DEF CopyFails, TypeOK
  <2> QED
    BY <1>12, <2>1, <2>2, <2>3, <2>4, <2>6, <2>7, <2>8 DEF Link
<1>13. CASE Declare
  <2>1. Made(run.text) \in FileRecords /\ Partial \in FileRecords
    BY MadeType DEF TypeOK, Runs
  <2>2. file' \in [Paths -> FileRecords]
    BY <1>13, <2>1, WritesType DEF Declare, TypeOK, Paths
  <2>3. [run EXCEPT !.undeclared = TRUE] \in Runs
    BY OutcomeType
  <2> QED
    BY <1>13, <2>2, <2>3, GoesType DEF Declare, TypeOK
<1>14. CASE Execute
  <2>1. Made(run.text) \in FileRecords
    BY MadeType DEF TypeOK, Runs
  <2>2. [run EXCEPT !.executed = "bytecode", !.program = IF run.up_to_date THEN Absent ELSE Made(run.text)] \in Runs
    BY <2>1, AbsentType DEF TypeOK, Runs
  <2>3. [run EXCEPT !.executed = "output", !.program = file["output"]] \in Runs
    BY DEF TypeOK, Runs, Paths
  <2> QED
    BY <1>14, <2>2, <2>3, EndsType DEF Execute, TypeOK
<1> QED
  BY <1>1, <1>2, <1>3, <1>4, <1>5, <1>6, <1>7, <1>8, <1>9, <1>10, <1>11, <1>12, <1>13, <1>14 DEF Next

-----------------------------------------------------------------------------
(***************************************************************************)
(* The inductive invariant.  A clean output was made from what the source  *)
(* files still contain, or they were edited no earlier than it was made    *)
(* (Clean).  So a file read is the one the output was made from, or its    *)
(* time will show (Reading).  The place of a run says what it cannot have  *)
(* done yet (Order) and which errors it cannot have met (Checked),         *)
(* and what it has written is complete, unless a failure to write it went  *)
(* unnoticed (Written).                                                    *)
(***************************************************************************)
Clean ==
    \A p \in Paths :
        /\ file[p].time <= clock
        /\ file[p].clean => \A f \in Files :
               source[f].text = file[p].of[f] \/ source[f].time >= file[p].time
Reading ==
    /\ run.opened => run.at = "reading" /\ run.next \in Files
    /\ run.opened /\ file["output"].clean =>
         run.text[run.next] = file["output"].of[run.next] \/ source[run.next].time >= file["output"].time
    /\ run.at = "deciding" => run.next = NFiles + 1
    /\ run.at \in {"reading", "deciding"} /\ file["output"].clean /\ run.newest < file["output"].time =>
         \A f \in Examined : f < run.next /\ run.text[f] # Missing => run.text[f] = file["output"].of[f]

Early == {"idle", "reading", "deciding"}
Built == {"copy", "copying", "declare"}
Building == {"object", "writing", "assemble", "link", "linking"} \cup Built
Order ==
    /\ run.at # "ended" => run.executed = "nothing" /\ ~run.refused
    /\ run.at \notin {"execute", "ended"} => ~run.up_to_date
    /\ run.at \in Early => run.errors = 0
    /\ run.at \notin Built \cup {"execute", "ended"} => ~run.linked
    /\ run.at \notin {"declare", "execute", "ended"} => ~run.copied

NoErrors == \A f \in Files : run.text[f] \notin EarlyErrors \cup LateErrors \cup {Missing}
Checked ==
    /\ run.at = "compile" /\ run.errors = 0 /\ ~run.flags.preprocess => ~EarlyError
    /\ run.at = "finalize" /\ run.errors = 0 /\ ~run.flags.preprocess => NoErrors
    /\ run.at \in Building \/ (run.at = "execute" /\ ~run.up_to_date) => run.errors = 0 /\ NoErrors

Good(p) == file[p].whole /\ MadeOf(file[p], Files)
\* What was written is complete, or a failure was not noticed.
Delivered == NotCopied \/ run.short \/ Good("output")
Declared == run.undeclared \/ Good("declaration")
Written ==
    /\ run.at \in {"copy", "copying"} => Copying /\ (run.linked => run.short \/ Good("temp"))
    /\ run.at = "declare" => Delivered
    /\ run.at = "execute" /\ ~run.up_to_date =>
         Delivered /\ (project.type \in {"dll", "lib", "obj"} => Declared)

IInv == TypeOK /\ Clean /\ Reading /\ Order /\ Checked /\ Written
             /\ UpToDateIsTrue /\ SuccessMeansBuilt /\ RunsWhatItRead

Later == Compile \/ Finalize \/ Write \/ Link \/ Declare \/ Execute

\* A run starts from nothing.
LEMMA StartsAnew ==
    ASSUME NEW flags, Start(flags)
    PROVE  /\ run'.at \in {"reading", "ended"} /\ UNCHANGED <<clock, source, project, file>>
           /\ run'.next = 1 /\ ~run'.opened /\ ~run'.up_to_date /\ ~run'.linked /\ ~run'.copied
           /\ run'.executed = "nothing" /\ run'.flags = flags
           /\ run'.at = "reading" => run'.errors = 0 /\ ~run'.refused
           /\ run'.at = "ended" => run'.errors > 0 \/ run'.refused
<1>1. CASE Goes([Idle EXCEPT !.flags = flags], "reading") /\ UNCHANGED file
  BY <1>1 DEF Goes, Idle
<1>2. CASE Ends([Idle EXCEPT !.flags = flags, !.refused = TRUE])
  BY <1>2 DEF Ends, Goes, Idle
<1>3. CASE Ends([Idle EXCEPT !.flags = flags, !.errors = 1])
  BY <1>3 DEF Ends, Goes, Idle
<1> QED
  BY <1>1, <1>2, <1>3 DEF Start

LEMMA KilledIsIdle ==
    ASSUME Killed
    PROVE  /\ run'.at = "idle" /\ UNCHANGED <<clock, source, project, file>>
           /\ run'.errors = 0 /\ ~run'.opened /\ ~run'.up_to_date /\ ~run'.linked /\ ~run'.copied
           /\ run'.executed = "nothing" /\ ~run'.refused /\ ~run'.flags.preprocess
BY DEF Killed, Idle

\* What happens to a run when the copy is made or not.
LEMMA CopyKeeps ==
    ASSUME TypeOK, NEW copied, CopyReturns(copied)
    PROVE  /\ UNCHANGED <<clock, source, project>> /\ run'.text = run.text /\ run'.flags = run.flags
           /\ run'.next = run.next /\ run'.opened = run.opened /\ run'.up_to_date = run.up_to_date
           /\ run'.linked = run.linked /\ run'.copied = copied /\ run'.executed = run.executed
           /\ run'.refused = run.refused /\ run'.stuck = run.stuck
           /\ run'.short = run.short /\ run'.undeclared = run.undeclared
           /\ IF run.linked THEN run'.at = AfterLink /\ run'.errors = run.errors
              ELSE run'.at = "ended" /\ run'.errors = run.errors + 1
<1>1. CASE run.linked
  BY <1>1 DEF CopyReturns, Goes, TypeOK, Runs
<1>2. CASE ~run.linked
  <2> DEFINE r == [run EXCEPT !.copied = copied, !.errors = @ + 1]
  <2>1. run' = [r EXCEPT !.at = "ended"] /\ UNCHANGED <<clock, source, project>>
    BY <1>2 DEF CopyReturns, Goes
  <2>2. /\ r.text = run.text /\ r.flags = run.flags /\ r.next = run.next /\ r.opened = run.opened
        /\ r.up_to_date = run.up_to_date /\ r.linked = run.linked /\ r.copied = copied
        /\ r.executed = run.executed /\ r.refused = run.refused /\ r.stuck = run.stuck
        /\ r.short = run.short /\ r.undeclared = run.undeclared
        /\ r.errors = run.errors + 1 /\ DOMAIN r = DOMAIN run
    BY DEF TypeOK, Runs
  <2> HIDE DEF r
  <2> QED
    BY <1>2, <2>1, <2>2 DEF TypeOK, Runs
<1> QED
  BY <1>1, <1>2

LEMMA FailsKeeps ==
    ASSUME TypeOK, Fails
    PROVE  /\ run' = [run EXCEPT !.at = "ended", !.errors = @ + 1] /\ run'.at = "ended" /\ run'.errors > 0
           /\ UNCHANGED <<clock, source, project, file>>
<1>1. run' = [run EXCEPT !.at = "ended", !.errors = @ + 1] /\ UNCHANGED <<clock, source, project, file>>
  BY DEF Fails, Ends, Goes, TypeOK, Runs
<1>2. run.errors + 1 > 0 /\ "errors" \in DOMAIN run /\ "at" \in DOMAIN run
  BY DEF TypeOK, Runs
<1> QED
  BY <1>1, <1>2

\* What a run that only moves on, or misses a failure to write, leaves alone.
Keeps ==
    /\ UNCHANGED <<clock, source, project>> /\ run'.text = run.text /\ run'.flags = run.flags
    /\ run'.next = run.next /\ run'.opened = run.opened /\ run'.up_to_date = run.up_to_date
    /\ run'.linked = run.linked /\ run'.copied = run.copied /\ run'.executed = run.executed
    /\ run'.refused = run.refused /\ run'.stuck = run.stuck /\ run'.errors = run.errors

LEMMA ShortKeeps ==
    ASSUME TypeOK, NEW short, NEW at, Goes([run EXCEPT !.short = short], at)
    PROVE  Keeps /\ run'.at = at /\ run'.short = short
<1> DEFINE r == [run EXCEPT !.short = short]
<1>1. run' = [r EXCEPT !.at = at] /\ UNCHANGED <<clock, source, project>>
  BY DEF Goes
<1>2. /\ r.text = run.text /\ r.flags = run.flags /\ r.next = run.next /\ r.opened = run.opened
      /\ r.up_to_date = run.up_to_date /\ r.linked = run.linked /\ r.copied = run.copied
      /\ r.executed = run.executed /\ r.refused = run.refused /\ r.stuck = run.stuck
      /\ r.errors = run.errors /\ r.short = short /\ DOMAIN r = DOMAIN run
  BY DEF TypeOK, Runs
<1> HIDE DEF r
<1> QED
  BY <1>1, <1>2 DEF Keeps, TypeOK, Runs

LEMMA UndeclaredKeeps ==
    ASSUME TypeOK, NEW at, Goes([run EXCEPT !.undeclared = TRUE], at) PROVE Keeps /\ run'.at = at
<1> DEFINE r == [run EXCEPT !.undeclared = TRUE]
<1>1. run' = [r EXCEPT !.at = at] /\ UNCHANGED <<clock, source, project>>
  BY DEF Goes
<1>2. /\ r.text = run.text /\ r.flags = run.flags /\ r.next = run.next /\ r.opened = run.opened
      /\ r.up_to_date = run.up_to_date /\ r.linked = run.linked /\ r.copied = run.copied
      /\ r.executed = run.executed /\ r.refused = run.refused /\ r.stuck = run.stuck
      /\ r.errors = run.errors /\ DOMAIN r = DOMAIN run
  BY DEF TypeOK, Runs
<1> HIDE DEF r
<1> QED
  BY <1>1, <1>2 DEF Keeps, TypeOK, Runs

\* The steps after which a file may be incomplete without the run's failing.
LEMMA ObjectDoneKeeps ==
    ASSUME TypeOK, ObjectDone
    PROVE  Keeps /\ run.at = "writing" /\ run'.at \in {"declare", "assemble", "link"}
<1> DEFINE next == CASE project.type = "obj" -> "declare" [] project.type = "image" -> "assemble" [] OTHER -> "link"
<1>1. PICK short \in BOOLEAN : Goes([run EXCEPT !.short = short], next)
  BY DEF ObjectDone
<1>2. next \in {"declare", "assemble", "link"}
  OBVIOUS
<1> HIDE DEF next
<1>3. Keeps /\ run'.at = next
  BY <1>1, ShortKeeps
<1> QED
  BY <1>2, <1>3 DEF ObjectDone

LEMMA AssembleKeeps ==
    ASSUME TypeOK, Assemble, ~Fails PROVE Keeps /\ run.at = "assemble" /\ run'.at = "link"
<1>1. PICK short \in BOOLEAN : Goes([run EXCEPT !.short = @ \/ short], "link")
  BY DEF Assemble
<1> DEFINE b == run.short \/ short
<1>2. Goes([run EXCEPT !.short = b], "link")
  BY <1>1
<1> HIDE DEF b
<1>3. Keeps /\ run'.at = "link"
  BY <1>2, ShortKeeps
<1> QED
  BY <1>3 DEF Assemble

LEMMA LinkBeginsKeeps ==
    ASSUME TypeOK, LinkBegins PROVE Keeps /\ run.at = "link" /\ run'.at = "linking"
<1>1. PICK short \in {FALSE, Exports} : Goes([run EXCEPT !.short = @ \/ short], "linking")
  BY DEF LinkBegins
<1> DEFINE b == run.short \/ short
<1>2. Goes([run EXCEPT !.short = b], "linking")
  BY <1>1
<1> HIDE DEF b
<1>3. Keeps /\ run'.at = "linking"
  BY <1>2, ShortKeeps
<1> QED
  BY <1>3 DEF LinkBegins

LEMMA DeclareKeeps ==
    ASSUME TypeOK, Declare PROVE Keeps /\ run.at = "declare" /\ run'.at = "execute"
<1>1. run.at = "declare" /\ (Goes(run, "execute") \/ Goes([run EXCEPT !.undeclared = TRUE], "execute"))
  BY Zenon DEF Declare
<1>2. CASE Goes(run, "execute")
  BY <1>1, <1>2 DEF Goes, Keeps, TypeOK, Runs
<1>3. CASE Goes([run EXCEPT !.undeclared = TRUE], "execute")
  BY <1>1, <1>3, UndeclaredKeeps
<1> QED
  BY <1>1, <1>2, <1>3

LEMMA LaterKeeps ==
    ASSUME TypeOK, Later
    PROVE  /\ UNCHANGED <<clock, source, project>>
           /\ run.at \notin {"idle", "reading", "deciding", "ended"}
           /\ run'.at \notin {"idle", "reading", "deciding", "compile"}
           /\ run'.flags = run.flags /\ run'.text = run.text /\ run'.opened = run.opened
           /\ run'.up_to_date = run.up_to_date
<1> USE DEF TypeOK, Runs, Goes
<1>1. CASE Compile
  BY <1>1 DEF Compile
<1>2. CASE Finalize
  BY <1>2 DEF Finalize, Fails, Ends
<1>3. CASE Write
  <2>1. CASE Fails /\ run.at \in {"object", "writing", "assemble"}
    BY <2>1, FailsKeeps
  <2>2. CASE ObjectBegins
    BY <2>2 DEF ObjectBegins
  <2>3. CASE ObjectDone
    BY <2>3, ObjectDoneKeeps DEF Keeps
  <2>4. CASE Assemble /\ ~Fails
    BY <2>4, AssembleKeeps DEF Keeps
  <2> QED
    BY <1>3, <2>1, <2>2, <2>3, <2>4 DEF Write, ObjectFails, Assemble
<1>4. CASE Link
  <2>1. CASE LinkNotStarted
    BY <2>1, FailsKeeps DEF LinkNotStarted
  <2>2. CASE LinkBegins
    BY <2>2, LinkBeginsKeeps DEF Keeps
  <2>3. CASE LinkFails
    BY <2>3 DEF LinkFails
  <2>4. CASE LinkDone
    BY <2>4 DEF LinkDone, AfterLink
  <2>5. CASE CopyBegins
    BY <2>5 DEF CopyBegins
  <2>6. CASE CopyDone
    BY <2>6, CopyKeeps DEF CopyDone, AfterLink
  <2>7. CASE CopyFails
    BY <2>7, CopyKeeps DEF CopyFails, AfterLink
  <2> QED
    BY <1>4, <2>1, <2>2, <2>3, <2>4, <2>5, <2>6, <2>7 DEF Link
<1>5. CASE Declare
  BY <1>5, DeclareKeeps DEF Keeps
<1>6. CASE Execute
  BY <1>6 DEF Execute, Ends
<1> QED
  BY <1>1, <1>2, <1>3, <1>4, <1>5, <1>6 DEF Later

\* A step of a later stage writes at most one file.
LEMMA LaterWrites ==
    ASSUME TypeOK, Later
    PROVE  \/ file' = file
           \/ /\ run.at \in Building
              /\ \E p \in Paths, c \in {Absent, Partial, Made(run.text), file["temp"]} : Writes(p, c)
<1> USE DEF Building, Built, Paths
<1>1. CASE Compile \/ Finalize \/ Execute
  BY <1>1, FailsKeeps DEF Compile, Finalize, Execute, Ends
<1>2. CASE Write
  BY <1>2, FailsKeeps DEF Write, ObjectFails, ObjectBegins, ObjectDone, Assemble, Output
<1>3. CASE Link
  <2>1. CASE LinkNotStarted
    BY <2>1, FailsKeeps DEF LinkNotStarted
  <2>2. CASE LinkBegins
    BY <2>2 DEF LinkBegins, LinkPath
  <2>3. CASE LinkFails
    BY <2>3 DEF LinkFails, LinkPath, Writes
  <2>4. CASE LinkDone
    BY <2>4 DEF LinkDone, LinkPath, Output
  <2>5. CASE CopyBegins \/ CopyDone \/ CopyFails
    BY <2>5 DEF CopyBegins, CopyDone, CopyFails
  <2> QED
    BY <1>3, <2>1, <2>2, <2>3, <2>4, <2>5 DEF Link
<1>4. CASE Declare
  BY <1>4 DEF Declare
<1> QED
  BY <1>1, <1>2, <1>3, <1>4 DEF Later

LEMMA CleanStep == ASSUME ConstantsAssumption, TypeOK, Clean, [Next]_vars PROVE Clean'
<1>1. CASE UNCHANGED <<clock, source, file>>
  BY <1>1 DEF Clean
<1>2. CASE Tick
  BY <1>2 DEF Tick, Clean, TypeOK, FileRecords
<1>3. ASSUME NEW f \in Files, Edit(f) PROVE Clean'
  BY <1>3 DEF Edit, Clean, TypeOK, FileRecords
<1>4. CASE Later
  <2>1. UNCHANGED <<clock, source>>
    BY <1>4, LaterKeeps
  <2>2. ASSUME NEW p \in Paths, NEW c \in {Absent, Partial, Made(run.text), file["temp"]}, Writes(p, c)
        PROVE  Clean'
    <3>1. c.time <= clock
      BY <2>2 DEF TypeOK, Clean, Paths, Absent, Partial, Made
    <3>2. ASSUME NEW f \in Files, c.clean PROVE source[f].text = c.of[f] \/ source[f].time >= c.time
      BY <2>2, <3>2 DEF TypeOK, Clean, Paths, Absent, Partial, Made
    <3> QED
      BY <2>1, <2>2, <3>1, <3>2 DEF TypeOK, Clean, Writes
  <2> QED
    BY <1>4, <2>1, <2>2, <1>1, LaterWrites
<1>5. CASE Killed
  BY <1>1, <1>5 DEF Killed
<1>6. ASSUME NEW flags \in project.builds, Start(flags) PROVE Clean'
  BY <1>1, <1>6 DEF Start, Goes, Ends
<1>7. CASE ReadText \/ ReadTime \/ Decide
  BY <1>1, <1>7 DEF ReadText, ReadTime, Decide, Goes
<1> QED
  BY <1>1, <1>2, <1>3, <1>4, <1>5, <1>6, <1>7 DEF Next, Later, vars

LEMMA ReadingStep ==
    ASSUME ConstantsAssumption, TypeOK, Clean, Reading, Order, [Next]_vars PROVE Reading'
<1> USE DEF TypeOK, Runs, Goes
<1>1. CASE UNCHANGED <<source, file, run>>
  BY <1>1 DEF Reading
<1>2. ASSUME NEW f \in Files, Edit(f) PROVE Reading'
  BY <1>2 DEF Edit, Reading, Clean, Paths, FileRecords
<1>3. CASE Later
  BY <1>3, LaterKeeps DEF Reading
<1>4. CASE Killed
  BY <1>4, KilledIsIdle DEF Reading
<1>5. ASSUME NEW flags \in project.builds, Start(flags) PROVE Reading'
  BY <1>5, StartsAnew DEF Reading, Files, Examined
<1>6. CASE ReadText
  <2>1. source[run.next].text = file["output"].of[run.next] \/ source[run.next].time >= file["output"].time
        \/ ~file["output"].clean
    BY <1>6 DEF ReadText, Clean, Paths
  <2> QED
    BY <1>6, <2>1 DEF ReadText, Reading, Files, Examined
<1>7. CASE ReadTime
  <2>1. run'.text = run.text /\ run'.next = run.next + 1 /\ ~run'.opened /\ file' = file
        /\ run'.at \in {"reading", "deciding"}
    BY <1>7 DEF ReadTime
  <2>2. run'.newest >= run.newest /\ (Looked(run.next) => run'.newest >= source[run.next].time)
    BY <1>7 DEF ReadTime, Files
  <2>3. run'.at = "deciding" => run'.next = NFiles + 1
    BY <1>7, <2>1 DEF ReadTime
  <2>4. ASSUME NEW f \in Examined, f < run.next + 1, run.text[f] # Missing, file["output"].clean,
               run'.newest < file["output"].time
        PROVE  run.text[f] = file["output"].of[f]
    <3>1. CASE f = run.next
      BY <1>7, <2>2, <2>4, <3>1 DEF ReadTime, Looked, Reading, Files, FileRecords, Paths
    <3>2. CASE f < run.next
      BY <1>7, <2>2, <2>4, <3>2 DEF ReadTime, Reading, Files, FileRecords, Paths
    <3> QED
      BY <1>7, <2>4, <3>1, <3>2 DEF Examined, Files
  <2> QED
    BY <2>1, <2>3, <2>4 DEF Reading
<1>8. CASE Decide
  BY <1>8 DEF Decide, Reading
<1> QED
  BY <1>1, <1>2, <1>3, <1>4, <1>5, <1>6, <1>7, <1>8 DEF Next, Later, vars, Tick

LEMMA OrderStep == ASSUME TypeOK, Order, [Next]_vars PROVE Order'
<1> USE DEF TypeOK, Runs, Goes, Early, Built
<1>0. CASE run'.at = "ended"
  BY <1>0 DEF Order
<1>1. CASE UNCHANGED run
  BY <1>1 DEF Order
<1>2. CASE Killed \/ \E flags \in project.builds : Start(flags)
  BY <1>2, KilledIsIdle, StartsAnew DEF Order
<1>3. CASE ReadText \/ ReadTime
  BY <1>3 DEF ReadText, ReadTime, Order
<1>4. CASE Decide
  BY <1>4 DEF Decide, Order
<1>5. CASE Compile
  BY <1>5 DEF Compile, Order
<1>6. CASE Finalize
  <2>1. run'.at = "ended" \/ (Goes(run, "object") /\ run.at = "finalize")
    BY <1>6, FailsKeeps DEF Finalize, Ends
  <2> QED
    BY <1>0, <2>1 DEF Order
<1>7. CASE Write
  <2>1. CASE Fails
    BY <1>0, <2>1, FailsKeeps
  <2>2. CASE ObjectBegins
    BY <2>2 DEF ObjectBegins, Order
  <2>3. CASE ObjectDone
    BY <2>3, ObjectDoneKeeps DEF Keeps, Order
  <2>4. CASE Assemble /\ ~Fails
    BY <2>4, AssembleKeeps DEF Keeps, Order
  <2> QED
    BY <1>7, <2>1, <2>2, <2>3, <2>4 DEF Write, ObjectFails
<1>8. CASE Link
  <2>1. CASE LinkNotStarted
    BY <1>0, <2>1, FailsKeeps DEF LinkNotStarted
  <2>2. CASE LinkFails
    BY <2>2 DEF LinkFails, Order
  <2>3. CASE LinkDone
    BY <2>3 DEF LinkDone, AfterLink, Order
  <2>4. CASE CopyDone \/ CopyFails
    BY <2>4, CopyKeeps DEF CopyDone, CopyFails, AfterLink, Order
  <2>5. CASE LinkBegins
    BY <2>5, LinkBeginsKeeps DEF Keeps, Order
  <2>6. CASE CopyBegins
    BY <2>6 DEF CopyBegins, Order
  <2> QED
    BY <1>8, <2>1, <2>2, <2>3, <2>4, <2>5, <2>6 DEF Link
<1>9. CASE Declare
  BY <1>9, DeclareKeeps DEF Keeps, Order
<1>10. CASE Execute
  BY <1>10 DEF Execute, Ends, Order
<1> QED
  BY <1>1, <1>2, <1>3, <1>4, <1>5, <1>6, <1>7, <1>8, <1>9, <1>10 DEF Next, vars, Tick, Edit

LEMMA CheckedStep == ASSUME TypeOK, Order, Checked, [Next]_vars PROVE Checked'
<1> USE DEF TypeOK, Runs, Goes, Built, Building
<1>1. CASE UNCHANGED run
  BY <1>1 DEF Checked, EarlyError, NoErrors
<1>2. CASE run'.at \in {"idle", "reading", "deciding", "ended"}
  BY <1>2 DEF Checked
<1>3. CASE Decide
  BY <1>3 DEF Decide, Order, Early, Checked, EarlyError
<1>4. CASE Compile
  BY <1>4 DEF Compile, Checked, EarlyError, LateError, NoErrors
<1>5. CASE Finalize
  <2>1. \/ run'.at = "ended"
        \/ Goes(run, "object") /\ run.at = "finalize" /\ run.errors = 0 /\ ~run.flags.preprocess
    BY <1>5, FailsKeeps DEF Finalize, Ends
  <2> QED
    BY <1>2, <2>1 DEF Checked, NoErrors
<1>6. CASE Write
  <2>1. CASE Fails
    BY <1>2, <2>1, FailsKeeps
  <2>2. CASE ObjectBegins
    BY <2>2 DEF ObjectBegins, Checked, NoErrors
  <2>3. CASE ObjectDone
    BY <2>3, ObjectDoneKeeps DEF Keeps, Checked, NoErrors
  <2>4. CASE Assemble /\ ~Fails
    BY <2>4, AssembleKeeps DEF Keeps, Checked, NoErrors
  <2> QED
    BY <1>6, <2>1, <2>2, <2>3, <2>4 DEF Write, ObjectFails
<1>7. CASE Link
  <2>1. CASE LinkNotStarted
    BY <1>2, <2>1, FailsKeeps DEF LinkNotStarted
  <2>2. CASE CopyBegins
    BY <2>2 DEF CopyBegins, Checked, NoErrors
  <2>3. CASE CopyDone \/ CopyFails
    BY <2>3, CopyKeeps DEF CopyDone, CopyFails, AfterLink, Order, Checked, NoErrors
  <2>4. CASE LinkBegins
    BY <2>4, LinkBeginsKeeps DEF Keeps, Checked, NoErrors
  <2>5. CASE LinkFails
    BY <1>2, <2>5 DEF LinkFails, Checked, NoErrors
  <2>6. CASE LinkDone
    BY <2>6 DEF LinkDone, AfterLink, Checked, NoErrors
  <2> QED
    BY <1>7, <2>1, <2>2, <2>3, <2>4, <2>5, <2>6 DEF Link
<1>8. CASE Killed \/ (\E flags \in project.builds : Start(flags)) \/ ReadText \/ ReadTime \/ Execute
  BY <1>2, <1>8, KilledIsIdle, StartsAnew DEF Ends, ReadText, ReadTime, Execute
<1>9. CASE Declare
  BY <1>9, DeclareKeeps DEF Keeps, Order, Checked, NoErrors
<1> QED
  BY <1>1, <1>3, <1>4, <1>5, <1>6, <1>7, <1>8, <1>9 DEF Next, vars, Tick, Edit

LEMMA WrittenStep == ASSUME TypeOK, Order, Checked, Written, [Next]_vars PROVE Written'
<1> USE DEF TypeOK, Runs, Goes, Good, Delivered, Declared, MadeOf, NotCopied, Copying
<1>1. CASE UNCHANGED <<file, project, run>>
  BY <1>1 DEF Written
<1>2. CASE run'.at \notin {"copy", "copying", "declare", "execute"}
  BY <1>2 DEF Written
<1>3. CASE Decide
  BY <1>3 DEF Decide, Order, Written
<1>4. CASE ObjectDone
  <2>1. CASE project.type # "obj"
    <3>1. run'.at \in {"assemble", "link"}
      BY <1>4, <2>1 DEF ObjectDone
    <3> QED
      BY <1>2, <3>1
  <2>2. CASE project.type = "obj"
    <3>1. PICK short \in BOOLEAN : Goes([run EXCEPT !.short = short], "declare") /\ Writes("output", Output(short))
      BY <1>4, <2>2 DEF ObjectDone
    <3>2. Keeps /\ run'.at = "declare" /\ run'.short = short
      BY <3>1, ShortKeeps
    <3>3. short \/ file'["output"] = Made(run.text)
      BY <3>1 DEF Writes, Output, Paths
    <3>4. Delivered'
      BY <3>2, <3>3 DEF Made, Keeps
    <3> HIDE DEF Delivered, Declared
    <3> QED
      BY <3>2, <3>4 DEF Written
  <2> QED
    BY <2>1, <2>2
<1>5. CASE LinkFails
  <2>1. CASE Copying
    <3>1. run' = [run EXCEPT !.at = "copy"] /\ UNCHANGED project /\ run.at \in {"link", "linking"}
      BY <1>5, <2>1 DEF LinkFails
    <3>2. run'.at = "copy" /\ ~run'.linked
      BY <3>1 DEF Order, Built
    <3> QED
      BY <2>1, <3>1, <3>2 DEF Written
  <2>2. CASE ~Copying
    <3>1. run'.at = "ended"
      BY <1>5, <2>2 DEF LinkFails
    <3> QED
      BY <1>2, <3>1
  <2> QED
    BY <2>1, <2>2
<1>6. CASE LinkDone
  <2>1. /\ UNCHANGED <<source, project>> /\ run'.text = run.text /\ run'.linked /\ run'.short = run.short
        /\ run'.up_to_date = run.up_to_date /\ run'.at = IF Copying THEN "copy" ELSE AfterLink
    BY <1>6 DEF LinkDone, AfterLink
  <2>2. run.short \/ file'[LinkPath] = Made(run.text)
    BY <1>6 DEF LinkDone, LinkPath, Writes, Output, Paths
  <2>3. run.short \/ Good(LinkPath)'
    BY <2>1, <2>2 DEF Made, LinkPath
  <2>4. CASE Copying
    BY <2>1, <2>3, <2>4 DEF Written, LinkPath
  <2>5. CASE ~Copying
    <3>1. Delivered'
      BY <2>1, <2>3, <2>5 DEF LinkPath
    <3>2. run'.at = "declare" \/ (run'.at = "execute" /\ project.type \notin {"dll", "lib", "obj"})
      BY <2>1, <2>5 DEF AfterLink
    <3> HIDE DEF Delivered, Declared
    <3> QED
      BY <2>1, <3>1, <3>2 DEF Written
  <2> QED
    BY <2>4, <2>5
<1>7. CASE CopyBegins
  <2>1. run' = [run EXCEPT !.at = "copying"] /\ UNCHANGED project /\ run.at = "copy" /\ file'["temp"] = file["temp"]
    BY <1>7 DEF CopyBegins, Writes, Paths
  <2> QED
    BY <2>1 DEF Written
<1>8. CASE CopyDone
  <2>1. file'["output"] = file["temp"] /\ (run.linked => run.short \/ Good("temp"))
    BY <1>8 DEF CopyDone, Writes, Written, Paths
  <2>2. run'.text = run.text /\ run'.linked = run.linked /\ run'.short = run.short /\ project' = project
        /\ IF run.linked THEN run'.at \in {"declare", "execute"} ELSE run'.at = "ended"
    BY <1>8, CopyKeeps DEF CopyDone, AfterLink
  <2>3. CASE ~run.linked
    BY <2>2, <2>3 DEF Written
  <2>4. CASE run.linked
    <3>1. Delivered'
      BY <2>1, <2>2, <2>4
    <3>2. run'.at = "execute" => project.type \notin {"dll", "lib", "obj"}
      BY <1>8, <2>4, CopyKeeps DEF CopyDone, AfterLink
    <3> HIDE DEF Delivered, Declared
    <3> QED
      BY <2>2, <3>1, <3>2 DEF Written
  <2> QED
    BY <2>3, <2>4
<1>9. CASE CopyFails
  BY <1>9, CopyKeeps DEF CopyFails, AfterLink, Written
<1>10. CASE Declare
  <2>1. run.at = "declare" /\ run'.at = "execute" /\ UNCHANGED <<source, project>> /\ run'.text = run.text
        /\ run'.linked = run.linked /\ run'.copied = run.copied /\ run'.short = run.short
    BY <1>10 DEF Declare
  <2>2. file'["output"] = file["output"]
    BY <1>10 DEF Declare, Writes, Paths
  <2>3. Delivered'
    BY <2>1, <2>2 DEF Written
  <2>4. run'.undeclared \/ file'["declaration"] = Made(run.text)
    BY <1>10 DEF Declare, Writes, Paths
  <2>5. Declared'
    BY <2>1, <2>4 DEF Made
  <2> HIDE DEF Delivered, Declared
  <2> QED
    BY <2>1, <2>3, <2>5 DEF Written
<1>11. CASE Killed \/ (\E flags \in project.builds : Start(flags)) \/ ReadText \/ ReadTime
            \/ Compile \/ Finalize \/ Execute
  BY <1>2, <1>11, FailsKeeps, KilledIsIdle, StartsAnew DEF Ends, ReadText, ReadTime, Compile, Finalize, Execute
<1>12. CASE ObjectFails \/ ObjectBegins \/ Assemble \/ LinkNotStarted \/ LinkBegins
  <2>1. Assemble => Fails \/ run'.at = "link"
    BY AssembleKeeps
  <2>2. LinkBegins => run'.at = "linking"
    BY LinkBeginsKeeps
  <2> QED
    BY <1>2, <1>12, <2>1, <2>2, FailsKeeps DEF ObjectFails, ObjectBegins, LinkNotStarted
<1> QED
  BY <1>1, <1>3, <1>4, <1>5, <1>6, <1>7, <1>8, <1>9, <1>10, <1>11, <1>12 DEF Next, Write, Link, vars, Tick, Edit

\* No step but Decide makes an output up to date, and none writes one that is.
LEMMA UpToDateStep ==
    ASSUME ConstantsAssumption, TypeOK, Reading, Order, UpToDateIsTrue, [Next]_vars PROVE UpToDateIsTrue'
<1> USE DEF UpToDateIsTrue, ExitCode, MadeOf
<1>1. CASE UNCHANGED <<file, run>>
  BY <1>1
<1>2. CASE Killed \/ \E flags \in project.builds : Start(flags)
  BY <1>2, KilledIsIdle, StartsAnew
<1>3. CASE ReadText \/ ReadTime
  BY <1>3 DEF ReadText, ReadTime, Goes, Order, TypeOK, Runs
<1>4. CASE Decide
  <2>1. PICK found, reached \in BOOLEAN :
          /\ EarlyError => found \/ run.flags.preprocess
          /\ Goes([run EXCEPT !.errors = IF found THEN @ + 1 ELSE @, !.up_to_date = reached /\ UpToDate],
                  IF reached /\ UpToDate THEN "execute" ELSE "compile")
    BY <1>4 DEF Decide
  <2>2. run'.text = run.text /\ file' = file
    BY <1>4 DEF Decide, Goes, TypeOK, Runs
  <2>3. run'.up_to_date => UpToDate
    BY <2>1 DEF Goes, TypeOK, Runs
  <2>4. run'.errors = IF found THEN run.errors + 1 ELSE run.errors
    BY <2>1 DEF Goes, TypeOK, Runs
  <2>5. ASSUME UpToDate, ~(run'.errors > 0) PROVE \A f \in Files : run.text[f] # Missing
    BY <2>1, <2>4, <2>5 DEF UpToDate, EarlyError, TypeOK, Runs
  <2>6. ASSUME UpToDate, ~(run'.errors > 0), file["output"].clean
        PROVE  \A f \in Examined : file["output"].of[f] = run.text[f]
    BY <1>4, <2>5, <2>6 DEF Decide, Reading, UpToDate, OutputNewer, Examined, Files, ConstantsAssumption
  <2> QED
    BY <2>2, <2>3, <2>6
<1>5. CASE Execute
  <2>1. run'.errors = run.errors /\ run'.up_to_date = run.up_to_date /\ run'.text = run.text /\ file' = file
    BY <1>5 DEF Execute, Ends, Goes, TypeOK, Runs
  <2> QED
    BY <2>1
<1>6. CASE Compile \/ Finalize \/ Write \/ Link \/ Declare
  <2>1. run.at # "execute"
    BY <1>6 DEF Compile, Finalize, Write, ObjectFails, ObjectBegins, ObjectDone, Assemble, Link, LinkNotStarted,
       LinkBegins, LinkFails, LinkDone, CopyBegins, CopyDone, CopyFails, Declare
  <2> QED
    BY <1>6, <2>1, LaterKeeps DEF Later, Order
<1> QED
  BY <1>1, <1>2, <1>3, <1>4, <1>5, <1>6 DEF Next, vars, Tick, Edit

\* A run without errors ends by Execute, or in silence.
LEMMA EndsInExecute ==
    ASSUME TypeOK, [Next]_vars, run'.at = "ended", ~(run'.errors > 0), ~run'.refused,
           ~run'.flags.preprocess, ~run'.stuck
    PROVE  Execute \/ UNCHANGED <<file, project, run>>
<1>0. run.errors \in Nat /\ run.errors + 1 > 0
  BY DEF TypeOK, Runs
<1>1. CASE Compile \/ Declare
  BY <1>1, DeclareKeeps DEF Compile, Goes, TypeOK, Runs
<1>2. CASE Finalize
  <2>1. CASE run.errors # 0 \/ run.flags.preprocess \/ run.stuck
    <3>1. ~Fails => run'.errors = run.errors /\ run'.flags = run.flags /\ run'.stuck = run.stuck
      BY <1>2 DEF Finalize, Ends, Goes, TypeOK, Runs
    <3> QED
      BY <1>0, <2>1, <3>1, FailsKeeps
  <2>2. CASE ~(run.errors # 0 \/ run.flags.preprocess \/ run.stuck)
    BY <1>2, <2>2, FailsKeeps DEF Finalize, Goes, TypeOK, Runs
  <2> QED
    BY <2>1, <2>2
<1>3. CASE Write
  <2>1. ObjectBegins => run'.at = "writing"
    BY DEF ObjectBegins, Goes, TypeOK, Runs
  <2> QED
    BY <1>3, <2>1, FailsKeeps, ObjectDoneKeeps, AssembleKeeps DEF Write, ObjectFails
<1>4. CASE Link
  <2>1. CASE LinkNotStarted \/ LinkBegins \/ CopyBegins
    <3>1. CopyBegins => run'.at = "copying"
      BY DEF CopyBegins, Goes, TypeOK, Runs
    <3> QED
      BY <2>1, <3>1, FailsKeeps, LinkBeginsKeeps DEF LinkNotStarted
  <2>2. CASE LinkFails
    <3>1. run' = [run EXCEPT !.errors = run.errors + 1, !.at = "ended"] \/ run'.at = "copy"
      BY <2>2 DEF LinkFails, Goes, TypeOK, Runs
    <3> QED
      BY <1>0, <3>1 DEF TypeOK, Runs
  <2>3. CASE LinkDone
    BY <2>3 DEF LinkDone, AfterLink, Goes
  <2>4. CASE CopyDone \/ CopyFails
    <3>1. AfterLink # "ended"
      BY DEF AfterLink
    <3> QED
      BY <1>0, <2>4, <3>1, CopyKeeps DEF CopyDone, CopyFails
  <2> QED
    BY <1>4, <2>1, <2>2, <2>3, <2>4 DEF Link
<1>5. CASE Killed \/ \E flags \in project.builds : Start(flags)
  BY <1>5, KilledIsIdle, StartsAnew
<1>6. CASE ReadText \/ ReadTime
  BY <1>6 DEF ReadText, ReadTime, Goes, TypeOK, Runs
<1>7. CASE Decide
  BY <1>7 DEF Decide, Goes
<1> QED
  BY <1>1, <1>2, <1>3, <1>4, <1>5, <1>6, <1>7 DEF Next, vars, Tick, Edit

LEMMA SuccessStep ==
    ASSUME TypeOK, Order, Checked, Written, SuccessMeansBuilt, [Next]_vars PROVE SuccessMeansBuilt'
<1>1. CASE UNCHANGED <<file, project, run>>
  BY <1>1 DEF SuccessMeansBuilt, ExitCode, MadeOf, NotCopied, Copying
<1>2. CASE Execute
  <2>1. /\ run'.errors = run.errors /\ run'.up_to_date = run.up_to_date /\ run'.text = run.text
        /\ run'.linked = run.linked /\ run'.copied = run.copied /\ UNCHANGED <<file, project>>
        /\ run'.short = run.short /\ run'.undeclared = run.undeclared
    BY <1>2 DEF Execute, Ends, Goes, TypeOK, Runs
  <2>2. ~run.up_to_date => NoErrors /\ Delivered /\ (project.type \in {"dll", "lib", "obj"} => Declared)
    BY <1>2 DEF Execute, Checked, Written
  <2> QED
    BY <2>1, <2>2 DEF SuccessMeansBuilt, NoErrors, Delivered, Declared, Good, MadeOf, NotCopied, Copying
<1> QED
  BY <1>1, <1>2, EndsInExecute DEF SuccessMeansBuilt, ExitCode

LEMMA LaterExecutesNothing ==
    ASSUME TypeOK, Compile \/ Finalize \/ Write \/ Link \/ Declare PROVE run'.executed = run.executed /\ run.at # "ended"
<1> USE DEF TypeOK, Runs, Goes
<1>1. CASE Compile \/ Finalize \/ Declare
  BY <1>1, FailsKeeps DEF Compile, Finalize, Declare, Ends
<1>2. CASE Write
  BY <1>2, FailsKeeps DEF Write, ObjectFails, ObjectBegins, ObjectDone, Assemble
<1>3. CASE LinkNotStarted \/ LinkBegins \/ CopyBegins
  BY <1>3, FailsKeeps DEF LinkNotStarted, LinkBegins, CopyBegins
<1>4. CASE LinkFails \/ LinkDone
  BY <1>4 DEF LinkFails, LinkDone
<1>5. CASE CopyDone \/ CopyFails
  BY <1>5, CopyKeeps DEF CopyDone, CopyFails
<1> QED
  BY <1>1, <1>2, <1>3, <1>4, <1>5 DEF Link

\* Only Execute executes, and it sees what is written.
LEMMA RunsStep ==
    ASSUME TypeOK, Order, Written, UpToDateIsTrue, RunsWhatItRead, [Next]_vars PROVE RunsWhatItRead'
<1> USE DEF RunsWhatItRead, ExitCode, MadeOf, NotCopied, Copying
<1>1. CASE UNCHANGED <<project, run>>
  BY <1>1
<1>2. CASE Execute
  <2>1. /\ run'.errors = run.errors /\ run'.up_to_date = run.up_to_date /\ run'.text = run.text
        /\ run'.linked = run.linked /\ run'.copied = run.copied /\ UNCHANGED <<file, project>>
        /\ run'.short = run.short
    BY <1>2 DEF Execute, Ends, Goes, TypeOK, Runs
  <2>2. run.executed = "nothing"
    BY <1>2 DEF Execute, Order
  <2>3. ASSUME run.errors = 0, run'.executed = "bytecode" PROVE RunsWhatItRead'
    <3>1. run'.program = IF run.up_to_date THEN Absent ELSE Made(run.text)
      BY <1>2, <2>2, <2>3 DEF Execute, Ends, Goes, TypeOK, Runs
    <3>2. ~run.up_to_date => run'.program.whole /\ MadeOf(run.program, Files)'
      BY <2>1, <3>1 DEF Made
    <3>3. run.up_to_date => ~run'.program.clean
      BY <3>1 DEF Absent
    <3> QED
      BY <2>1, <2>3, <3>2, <3>3
  <2>4. ASSUME run.errors = 0, run'.executed = "output" PROVE RunsWhatItRead'
    <3>1. run'.program = file["output"]
      BY <1>2, <2>2, <2>4 DEF Execute, Ends, Goes, TypeOK, Runs
    <3>2. ~run.up_to_date => Delivered
      BY <1>2 DEF Execute, Written
    <3> QED
      BY <2>1, <2>4, <3>1, <3>2 DEF Delivered, Good, UpToDateIsTrue
  <2>5. run'.executed # "nothing" => run.errors = 0 /\ run'.executed \in {"bytecode", "output"}
    BY <1>2, <2>2 DEF Execute, Ends, Goes, TypeOK, Runs
  <2> QED
    BY <2>3, <2>4, <2>5
<1>3. CASE Killed \/ \E flags \in project.builds : Start(flags)
  BY <1>3, KilledIsIdle, StartsAnew
<1>4. CASE ReadText \/ ReadTime
  BY <1>4 DEF ReadText, ReadTime, Goes, Order, TypeOK, Runs
<1>5. CASE Decide
  BY <1>5 DEF Decide, Goes, Order, TypeOK, Runs
<1>6. CASE Compile \/ Finalize \/ Write \/ Link \/ Declare
  BY <1>6, LaterExecutesNothing DEF Order
<1> QED
  BY <1>1, <1>2, <1>3, <1>4, <1>5, <1>6 DEF Next, vars, Tick, Edit

LEMMA InvInit == ASSUME ConstantsAssumption, Init PROVE IInv
<1>1. TypeOK
  BY InitType
<1>2. Clean
  BY DEF Init, Clean, Absent
<1>3. Reading /\ Order /\ Checked /\ Written
  BY DEF Init, Idle, Absent, Reading, Order, Checked, Written, Early, Built, Building
<1>4. UpToDateIsTrue /\ SuccessMeansBuilt /\ RunsWhatItRead
  BY DEF Init, Idle, UpToDateIsTrue, SuccessMeansBuilt, RunsWhatItRead
<1> QED
  BY <1>1, <1>2, <1>3, <1>4 DEF IInv

\* The inductive invariant holds throughout: a clean output was made from what the
\* sources still hold or from sources edited since (Clean, Reading), a stage of run() has
\* done and seen only what the stages before it leave (Order, Checked), what it has
\* written is complete unless a failure went unnoticed (Written), and the three properties of Driver hold.
THEOREM Inductive == Spec => []IInv
<1>1. ASSUME Init PROVE IInv
  BY <1>1, InvInit, ConstantsAssumption
<1>2. ASSUME IInv, [Next]_vars PROVE IInv'
  BY <1>2, ConstantsAssumption, TypeStep, CleanStep, ReadingStep, OrderStep, CheckedStep, WrittenStep,
     UpToDateStep, SuccessStep, RunsStep DEF IInv
<1> QED
  BY <1>1, <1>2, PTL DEF Spec

\* Every variable of the driver keeps its type.
THEOREM TypeCorrect == Spec => []TypeOK
BY Inductive, PTL DEF IInv

\* An output that a run without errors calls up to date was made from what the
\* run read, whatever was edited since and however many runs failed or were
\* killed (Compiler.cpp:576).
THEOREM UpToDateCorrect == Spec => []UpToDateIsTrue
BY Inductive, PTL DEF IInv

\* An exit code of success means that what was read had no errors and is built
\* (main.cpp:199), up to a failed copy and to files that were not written whole
\* without the code's noticing (ObjectFile.cpp:732, decl_gen.cpp:549).
THEOREM SuccessCorrect == Spec => []SuccessMeansBuilt
BY Inductive, PTL DEF IInv

\* What is executed is what was read, with the same exceptions for the output,
\* and nothing after an error (Compiler.cpp:2201).
THEOREM RunsCorrect == Spec => []RunsWhatItRead
BY Inductive, PTL DEF IInv
=============================================================================
