# Verification of the BetterThanBatch compiler

TLA+ models of the compiler in `src/` (paths below are relative to the
repository), the TLC configurations that check them and proofs for TLAPS.
`PROJECT.json` ties every definition to the lines it models, every property to a
hazard in the code and to a mistake (a *mutant*) that it notices.

    tlc -config MCScheduler_serial.cfg MCScheduler      one run
    tlapm SchedulerProofs.tla                           the proofs of a module

## 1. The system

The compiler turns `.btb` files into an object file and a program, or into
bytecode that it runs itself.  Every source file is an *import*; imports go
through eight phases, and the bodies of functions through one more.

| Component | State it keeps | Operations | Hard behaviour | What makes it correct |
|---|---|---|---|---|
| Task scheduler, `Compiler::processImports` | queue `tasks`, table `imports`, `signaled`, `waiting_threads`, `total_threads`, semaphore, phase bits of every import | select a task, handle it, queue its follow-up, give up, leave | all threads run it; picking looks at a queue that does not hold what others work on; cyclic imports; a fix-point that spans tasks | phases in order, nothing lost, nothing twice, always returns, says "bug in compiler" only when there is one |
| Import discovery, `addOrFindImport`, `addDependency` | `dependencies`, `disabled`, preload | find or create an import, link it | two critical sections for one operation | every reachable import is lexed before macros are looked up in it |
| Platform synchronisation, `Mutex`, `DepthMutex`, `Semaphore`, `Thread` | handle, owner, kernel object | lock, unlock, wait, signal | objects are created by the first user; two platforms | mutual exclusion, the owner is the holder, no assertion fires |
| Lexer | files, numbered token chunks | tokenize, look up tokens, append tokens | chunk table shared by threads | a token index always leads to the token appended |
| Preprocessor | macro tables, `#if` nesting, a stack of layers | scan for `#import`, expand | two passes over a file; macros found through the import graph; a stack of layers that refer to each other | the tokens of exactly the true branches, each call replaced as its macro says |
| Parser, AST | stacks of operands and operators, deferred blocks per scope; scopes, declarations, overloads | parse, share scopes, look up | precedence without a grammar, copies of deferred blocks at every exit; lookup through shared scopes | the tree the language means, the innermost visible declaration |
| Type checker | types, structs in progress, `usages`, instances of polymorphic functions, type parameters, `is_being_checked` | enums, structs, signatures, bodies, instances | fix-point over structs, body queued on first use; type parameters and flags are variables of the declaration that nested and concurrent checks share | every struct that can be completed is, every body used once, a parameter stands for the instance's type |
| Generator, bytecode | instructions, frame offset, loops to patch, global data | generate a scope, run global initialisers | a stack of values across branches and calls; a push and a pop that meet are merged | the stack is balanced on every path, the values are those of the program |
| Virtual machine | registers, stack, memory | execute | integer widths, stack discipline | agrees with the program |
| x64 and ARM back ends | registers in use, what an instruction's operands become, relocations | a pass backwards that allocates, a pass forwards that emits | division and shifts need fixed registers, spills, alignment at calls | no register holds two live values; agrees with the virtual machine |
| Object files, DWARF, PDB | sections, symbols, streams | write, read | sizes and offsets | the format |
| Driver, `Compiler::run` | options, statistics, the files it writes | read, decide, compile, finalise, write, link, copy, execute | verdict after partial failure; runs that are killed; edits while it runs; `--incremental` trusts the times of files | success, "up to date" and what is executed belong to what was read |
| Tools (tests, fuzzer, formatter, messages), containers, logger | their own | from outside the compiler | child processes | - |

How they interact: `run` queues the preload and the initial file and calls
`processImports`, alone or with the threads of `-threads`.  The handlers call
lexer, preprocessor, parser, type checker and generator; these call back into the
scheduler to add imports (`addOrFindImport`) and bodies (`addTask_type_body`).
Shared state is guarded by `lock_imports` (queue, table, counters),
`lock_miscellaneous` (once-only steps) and locks inside lexer and AST; phase bits,
usages and error counts are written outside any lock.  Options disable threads by
default (`CompilerOptions.h:82`) and `-threads` is announced as unstable
(`Compiler.cpp:1611`): one thread is what the compiler promises, several are what
the code is written for, so both are modelled.

## 2. Modules

| Module | Models | |
|---|---|---|
| `Scheduler` | `processImports` with its handlers, `addOrFindImport`, `addDependency`, `addTask_type_body`, `declareUsageOfOverload`, the sweep of `checkStructs`; the refinement mapping to `Pipeline` | state, actions, properties |
| `MCScheduler` | the jobs of the runs | instance |
| `Pipeline` | what the loop promises: files found while lexing, phases in order, waves | abstract |
| `SchedulerProofs` | types, who selects, the counters, the waves; tasks and phases, bodies, the barrier between waves | proofs |
| `SchedulerOutcomeProofs` | the refinement of `Pipeline` and what follows from it, the import graph, what the loop ends with | proofs |
| `EngoneMutex` | what the compiler expects of a mutex | abstract |
| `Win32Mutex`, `LinuxMutex` | `engone::Mutex` of the two platforms | state, actions, properties |
| `Win32MutexProofs`, `LinuxMutexProofs` | both implement `EngoneMutex` | proofs |
| `Parser` | `parseExpression`, `parseFlow`, `parseBody` | operators |
| `Generator` | `generateFunction`, `generateBody`, `generateStatement`, `generateExpression` and their helpers | operators |
| `Instructions` | the instructions of the bytecode | operators |
| `Bytecode` | `BytecodeBuilder`, the values in registers and memory | operators |
| `VirtualMachine` | `VirtualMachine::execute` | state, one step per instruction |
| `X64Builder` | `X64Builder::generate`, both passes, and its register allocation | state, one step per instruction and pass |
| `X64BuilderProofs` | the register allocation, for any bytecode | proofs |
| `Processor` | the x64 instructions that `X64Builder` emits (external) | state, one step per instruction |
| `Machine` | composes the modules from `Parser` on: source, bytecode, interpreted and compiled execution | Next, properties |
| `MCMachine` | the programs of the run | instance |
| `Preprocessor`, `MCPreprocessor` | `Preprocessor::process`, `parseMacroEvaluation`; the files of the run | state, actions, properties; instance |
| `MacroDefinition` | what a call of a macro means, by recursive substitution | reference definition, property |
| `PreprocessorProofs` | which branches are taken | proofs |
| `BodyChecking`, `MCBodyChecking` | `TASK_TYPE_BODY` as the type checker sees it: `checkFunctionScope`, calls, overloads, `computePolymorphicFunction`, `pushPolyState`, `popPolyState`, the flags; the programs of the runs | state, actions, properties; instance |
| `BodyCheckingProofs` | theorems about it | proofs |
| `Driver`, `MCDriver` | `Compiler::run` around the task loop, `main`, edits, kills; the projects of the run | state, actions, properties; instance |
| `DriverProofs` | theorems about it | proofs |

### Scheduler

One action is one critical section of `lock_imports`, or one access to shared state
outside it.  `pc[t]` names the place of a thread:

    start, register     atomic_add of the two counters        Compiler.cpp:349-351
    wait                the semaphore                          :360
    select              scan, pick, signal, or leave           :362-737
    work ... requeue    the handlers                           :739-1187
    post                queueing of a follow-up                e.g. :864-868
    finish              hand on the baton, wait again          :1191-1198
    leave, done         total_threads--, return                :1203-1205

The variables have the names of the code (`tasks`, `imports`, `signaled`, ...).
`state[i]` is `CompilerImport::state` as a set; `deps` and `disabled` are the
dependencies with their flag; `stall` is `struct_tasks_since_last_change`; `used`
are the functions with `usages != 0`; `done_once` are the `have_...` flags.

What a handler finds in a file is a fact of the constant `job`: which files import
which (`finds`, `conditional` and `active` for imports in an `#if`), which structs
need which, who calls whom, which phase of which file reports an error
(`bad`), and the options that steer the loop.  So lexer, parser and checker are
abstracted to what they report to the scheduler, the control of the loop is kept
entirely: the picking rule of every task type, each handler's early ends, the order
of its writes, the follow-up task and where it goes in the queue.

Unlocked accesses.  Handlers set phase bits outside the lock while another thread scans
the queue; the scan may pass a task that such a bit has made pickable a moment ago and
still use the bit for a task further on (`StateBefore`).  `waiting_threads` and `total_threads` are added to atomically
at the start but changed with `++` and `--` under a lock elsewhere; an addition that
falls into such a change is lost, and `RegisterTotal` and `RegisterWaiting` may lose
it.  Likewise `stall` may be overwritten by a concurrent sweep.  The increments of
`compile_stats.errors` are indivisible in the model: the loop only asks whether there
are errors and whether there are more than before, and an increment that is overwritten
was overwritten by another one.

A definition that stands right above another one and is otherwise unused
(`NothingQueuedBefore` has `InAnyWave`) is a mistake one could make at that place;
`PROJECT.json` lists the property that notices it.

### Pipeline

Files are found while a file is being lexed, each goes through the phases in order,
and from the signatures on (phase 5) no file enters a phase before every file that
has not been given up has been through the one before.  `Scheduler` maps the
task loop to it: the stage of an import is the number of its phase bits, and it is
given up when it has phases to go but no task.

### The mutexes

`Win32Mutex` and `LinuxMutex` split `lock()` and `unlock()` into single accesses to
the fields other threads use: the test for a handle, creation, publication, the wait,
the note of the owner, its removal, the release.  `EngoneMutex` has one variable, the
holder; the refinement mapping takes the thread between the return of the wait and the
release.  The constant `LockedBefore` says whether the main thread has used the mutex
before it starts the others: true of `Compiler::lock_imports` (`run()` adds the
preload), false of `Lexer::lock_chunks`, which is first locked by tasks.  On Linux a
failed `Assert` ends the process, so that run is allowed to stop.  pthread functions on
memory that is not initialised yet may do anything they can: take the mutex, wait, fail.

### Machine: parser, generator, virtual machine, x64 back end

A program starts as sequences of tokens and ends as the values `main` returns, twice:

    tokens --Parser--> trees --Generator--> bytecode --VirtualMachine--> values
                                                \--X64Builder--> code --Processor--> values

`Parser` and `Generator` are functions: no state of theirs outlives a call, so they are
operators that `Init` of `Machine` applies.  A token is an operand, an operator, or
brackets with what is between them; statements are given with their keyword (the shape of
`if` or `switch` is not what goes wrong), their expressions as tokens.  `parseExpression`
keeps its two stacks (`values`, `ops`) and the lists beside them (`casts`, `assigns`) and
folds them by `OpPrecedence`; `parseBody` keeps the `FunctionScope`, from which every
`return`, `break` and `continue` takes copies of deferred blocks.

In `Generator` a context `c` has the code so far, the frame offset (`frame`), the lowest
one (`low`, `free_frame_space`) and the locals; expressions push their values, statements
pop them.  Jumps are relative; `BREAK` and `CONTINUE` stand for the jumps that a loop
patches when its end is known.  `Join` is the elimination of a pop right after a push.

`VirtualMachine`, `X64Builder` and `Processor` take a step per instruction.  A word in a
register or in memory is `[v, w]`: a value and the number of low bytes in which it is
known; a load of one byte leaves the others unknown, and an operation on unknown bytes
gives `NoValue`, which equals no expected value.  So nothing can rely by chance on upper
bytes left from before.  Memory remembers what was stored at an address and in how many
bytes, and a store destroys those it overlaps.

`X64Builder.x64` has the stage of the builder: `Backward` visits an instruction from the last
to the first, decides which operands share an artificial register and deletes push/pop pairs
that nobody needs; `Forward` allocates physical registers (`alloc_register`), moves what is
in the way of `mul`, `div` and shifts aside, and emits.  `Relocate` patches jumps.  Its own
`BuilderInit` and `BuilderSpec` take any bytecode that has the form the generator gives it
(`IsBytecode`); `Machine` takes its steps for the bytecode of a program.  `Processor` is
external: what x64 does with the instructions emitted, with flags only as the conditional
jumps right after need them.

### Preprocessor

`context` is `PreprocContext`: the pass (`evaluateTokens`), the head, the stack of `#if`
frames, the layers of the evaluation under way.  One action per directive and per step of
the evaluation: a token, `Enter` (a macro's layer is pushed), `Argument` (a token of an
argument), `Overload` (the macro for the number of arguments is chosen), `Content` (a token
of a body).  An item of a file is a directive or a token; a token is a string.  `macros` and
`deps` of the imports other than the file are given, the file's own are collected by the
first pass and used by the second.  The reference definitions do not know passes or layers:
`Selected` goes by the nesting of conditions, `Evaluated` of `MacroDefinition` substitutes
recursively.

### BodyChecking

A call of a polymorphic function is resolved to an instance (`FuncImpl`) of it; one that is
missing is made in the middle of the caller's body.  `impls` are the instances in the order
they were added, `tasks` the queue, `used` those with `usages != 0`, `is_being_checked` the
functions and structs with the flag, `virtualType` what the parameter of a function or struct
stands for, `polyStates` what it stood for before.  The places of a thread:

    select                                processImports picks a body   Compiler.cpp:586, 684-737
    scope, statement, checked             checkFunctionScope            TypeChecker.cpp:3967
    lookup                                getPolyOverload               AST.cpp:941
    search, compare                       arguments against parameters  TypeChecker.cpp:1699-1757
    take                                  wait for the flags            :1946-1963
    version, write, signature, release    the instance's signature      :3439-3460, :1969
    add, queue, count                     addPolyImplOverload, addTask_type_body, usages++

What a body does besides calls is left out.  A call is "explicit" (`f<A>()`), "implicit" (the
types are those of the arguments, or of what they can be cast to) or "construct"
(`construct()` and `destruct()`, which look for `init` and `cleanup` by a way of their own,
`TypeChecker.cpp:1300-1400`).  Access to an array is indivisible; `polyVersionCount++` and the
test and the increment of `usages` are not.  A function or struct has at most one type
parameter; all overloads of a name count as one function; the candidates of an implicit search
are pushed and popped once, not one by one; the struct's own push around its signatures
(`checkStructImpl`) is left out, it is over before bodies are; the `create` and `iterate`
calls of an iterator are method calls; the baton is in `Scheduler`.  The
generator uses the same flags later (`Generator.cpp:5051`), when no body is left.

### Driver

`clock` is the clock of the file system, `source` the files with their times, `file` what
the compiler writes (`temp`, `output`, `declaration`; each with the texts it was made
from), `project` the options all runs share and those they choose from, `run` one run of
the compiler, `run.at` its place: reading, deciding, compile, finalize, object, writing,
assemble, link, linking, copy, copying, declare, execute, ended.  What the task loop does is
its outcome here: errors in the files or none, stuck or not.  Between any two steps a file
may be edited (`Edit`), time may pass (`Tick`), the compiler may be killed (`Killed`); files
are written in two steps, so a killed run leaves a part.  Several steps at one tick of the
clock have the same time, as within the resolution of a file system.

Every call that leaves the program may fail, and what the code learns of it is what it looks at.
That the object file cannot be opened, or that nothing is written to it, is an error
(`ObjectFails`).  Other failed writes are not noticed: `FileWrite` returns `(u64)-1` or too small a
count, and both are true (`ObjectFile.cpp:732`, 1440); startup code, linker script and list of
exports are written without a look at the result (`Compiler.cpp:1831`, 2104, 2119).  The run notes
this in `short`, and what is linked from such a file is not complete (`Output`), unless the linker
fails over it.  `WriteDeclFiles` looks neither at opening nor at writing (`decl_gen.cpp:548-557`):
with `undeclared`, old declarations, none, or a part of them are left.

## 3. Runs

| Run | Checks | Bounds |
|---|---|---|
| `serial` | everything about one thread: never stuck, imports lexed before macros are looked up, macros of dependencies exist, shared scopes parsed, bodies once, waves, nothing dropped, give up only without progress, implements `Pipeline`, every import ends, the loop returns | 3 files and the preload, every import graph over them, with and without preload, `-preprocess`, conditional imports, library, incremental build; one error in any phase of any file on two graphs and a diamond; every dependency relation of 2 structs, without errors and with one file that does not get past its enums; 2 functions that call each other |
| `parallel` | two threads: baton, counters, never stuck, once-only steps, giving up only when quiet | 2 files, plain and cyclic, both semaphores |
| `win32_mutex`, `linux_mutex` | exclusion, owner, refinement of `EngoneMutex`; progress on Windows, the assertion of `unlock()` on Linux | 3 threads |
| `machine` | interpreted and compiled, programs return what they mean to and end; stack and registers are as they should be, and the builder is given the form of bytecode that its proofs assume | 1,302 programs, 223,634 states: two operators in either grouping over operands of three sizes (four assignments of sizes, two of values), three operators without parentheses over i32, calls with up to three arguments, a recursion, loops with every kind of exit, ranges, switches, deferred blocks, pointers, arrays, conversions; each with 0, 1 and 2 further locals, so that calls start from either alignment |
| `driver` | what is called up to date, built or executed was made from what was read, up to the failures that the code does not notice | 2 files, 3 texts (one with errors), 2 ticks, 10 projects; 3,978,212 states |
| `preprocessor` | the true branches and no others are kept; macros give what their definitions say; a closed call reads nothing beyond its parenthesis | chains of `#if`, `#elif`, `#else` over four conditions with nested ones and with calls in branches, wrong chains, stray `#elif`, `#else` and `#endif`; ten macros, calls with up to two of seven arguments or three simple ones; `RecLimit` 12 instead of 1000; 62,270 states |
| `checks` | one thread: type parameters stand for the types of the instance, every body that is used is checked once, nobody waits for ever; one or two: nobody else is in a function, versions are distinct | 5,400 programs for one thread: `main` with two calls, two functions `f<T>`, `g<T>`, methods `m`, `n` of `V<S>` and `k<T>` of `W<S>`, each with one of three to six bodies, two types; 6 programs for two threads; `MaxTries` 2 instead of 1000; 656,712 states |
| `v_polymorphic`, `v_construct`, `v_contended`, `v_incremental` | violations, below | 16 and 18 programs; 2 or 3 threads; 2 files |

Why the bounds are enough.  Three files are the smallest graph with a cycle and a
dependency outside it, a chain and a diamond; the picking rules speak of direct
dependencies, of what is reachable, and of cycles, all of which occur.  Two structs in
two files give every case of the fix-point: independent, ordered with and against
declaration order, cyclic, self-referential.  Two functions give direct and mutual
recursion, an entry function called by others, an exported one.  Two threads are the
smallest number with contention for the queue, three the smallest at which a mutex has
more than one waiter.  No counter of these models needs a cap: they have finitely many states
as they are.

In `machine` the interesting cases are combinations: which operand is in which register
when a division needs A and D, whether an operand is a call, how the sizes differ, where
the stack stands.  Two operators in either grouping exhaust the registers that clash, three
without parentheses every comparison of the parser's two stacks that a fourth would only
repeat.  Values are small, products stay below 2^31 (TLC's integers); `i8` wraps, `i32` and
`i64` never get that far.  `Top` (1024) is the size of the stack; no program comes near its
end.  In `driver` two files are one whose time is looked at and one whose is not; two ticks
distinguish before, at and after; a third file or tick adds no order of two times that is
not there.  In `preprocessor` the recursion limit is reached by `forever` only, and any
limit beyond what the other programs need shows the same.

In `checks` the hazard is nesting: an instance is made while the same function, its struct,
or one that made it is being checked.  With two functions and three methods calls go from a
function to itself, back to its caller, to a method of its own struct with the same and
another type, and to another struct; a second parameter would be pushed and popped along with
the first.  A thread that has waited twice for a flag nobody clears waits as well a thousand
times; where another thread would clear it the limit makes no difference to a safety property,
since to give up is one of the outcomes.

Fairness.  `FairSpec` of the scheduler lets each thread that can take a step take
one (weak fairness per thread): threads are scheduled by the operating system and no
step of the loop waits for anything but the semaphore.  `FairSpec` of `Win32Mutex` is
the same; it suffices for "somebody gets in", not for every thread.  `Fairness` of
`Machine` says that a next step is taken as long as there is one: a single thread runs the
program and nothing in it waits.  `FairSpec` of `BodyChecking` is that of the scheduler; waiting
for a flag is a step that counts.  `Driver` and `Preprocessor` have safety properties only.

### What the violations show

These runs expect TLC to find a counterexample to what a comment or an assertion says.

- `v_polymorphic`: `computePolymorphicFunction` (`TypeChecker.cpp:1950`) excuses a struct that the
  thread has itself, not a function.  A polymorphic function that calls itself with other
  types, or a method of `S<A>` that calls itself on `S<B>`, waits for its own flag until the
  assertion against endless loops fails (`Asserts.h:25`), with a single thread.
- `v_construct`: `construct()` and `destruct()` (`TypeChecker.cpp:1332`) take the first instance of
  `init` or `cleanup` whose arguments have defaults, without a look at the struct it was made
  for, so `S<B>` may be initialised as `S<A>`.  The comment at 1384 says that polymorphic
  structs are matched.
- `v_contended`: on Linux the owner is tested before the wait (`Linux.cpp:906`), so
  any contention is taken for locking twice and asserted.
- `v_incremental`: `compute_last_modified_time` (`Compiler.cpp:2631`) subtracts one from the
  number of an import, and `getImport_unsafe` (`Lexer.h:316`) subtracts one again.  The last
  file is never looked at, which is the only one of a program in one file; "Compiles source
  code if any file changed since last compilation" (`Help.cpp:105`) does not hold.

Further claims that hold for one thread and not for several (seen with TLC by adding the
property to a configuration with two threads):

- `BodyCheckedOnce`: `declareUsageOfOverload` (`AST.cpp:907-912`) tests `usages`, queues the
  body and increments without a lock.  Two threads that call the same function queue it
  twice; `checkFunctionScope` (`TypeChecker.cpp:3975`) calls that "strange".
- `Termination`: the thread that finds tasks nobody can pick leaves without signalling
  (`Compiler.cpp:700-713`), and on Windows the others wait at the semaphore for ever.
- `WaveOrder`, `PhaseBarrier`: the wave checks look at the queue, not at what others work on.
  `GivesUpOnlyWithoutProgress`: counter and queue are compared outside the lock.
  It excepts programs in which another phase has reported an error: an import held up by it stays
  incomplete without being queued, so the counter exceeds twice the length of the queue too early
  (`Compiler.cpp:904`), and structs that could be completed are reported as unresolvable, too.
  `LexedFirst`, when there is a preload: `addOrFindImport` links it in a second critical section.
- `OneChecker`, `VersionsDistinct`, with `construct()`: its instance is made without a look at
  the flags (the comment at `TypeChecker.cpp:1391` says so).
- `TypesAreOwn` for each of several threads: the search for an overload pushes types without a
  look at the flags (`AST.cpp:1068` says that it "does not work here").
- Two threads that both miss an instance both make it, and the next call finds two: "More than
  one match!" (`AST.cpp:1044`).  Two structs whose methods call each other wait for each other.

With `LockedBefore = FALSE` the mutexes are not locks: `NeverUnlockingTwice` fails in `LinuxMutex`,
and `OwnerIsHolder` in `Win32Mutex`, where two threads create a mutex each.  On Windows a guard
should prevent that ("makes sure only one thread creates a mutex", `Win32.cpp:1157`), but
`atomic_compare_swap` returns 1 on success and `lock()` takes 0 for success (1164).  The guard is
in the model as it is; in the run and the theorems about mutexes used before it is never
contended, so they say nothing about it.

### What the models show besides

*Task loop, mutexes.*  Cut for space from the hazards of `PROJECT.json`: the incremental cut empties the queue
while other threads hold tasks whose follow-ups they add afterwards (`Compiler.cpp:575`);
`atomic_add` on Linux adds 64 bits to a 32 bit variable (`Linux.cpp:812`).

*Language.*  The parser gives `/` a higher precedence than `*` and `-` than `+`
(`OpPrecedence`), so `a*b/c` is `a*(b/c)` and `a-b+c` is `(a-b)+c`; the reference value in
`MCMachine` goes by the same table, so the run shows that the stacks follow the table, not
that the table is a good one.  Assignments in a row group to the left and are left out.
Deferred blocks run before the returned expressions are evaluated.  To the generator a
`switch` counts as a loop whose continue address stays 0 (`Generator.cpp:6063`), so
`continue` in a `switch` in a loop jumps to the start of the function
(`docs/guide/02-Loops and if.md:118` says the next iteration); to the parser it is none
(`Parser.cpp:5037`), so `break` there runs copies of the loop's deferred blocks although
only the `switch` is left.  `&&` and `||` evaluate both sides.  A compound assignment
evaluates its target twice, a range is evaluated again in every iteration.

*Where the back ends are known to disagree* (by reading; programs that get there are not
among those of `machine`): the sign of a remainder with operands of one byte; the size of
the reload of a `switch` on i8 or i64; an integer converted to `bool`; the alignment of the
virtual stack at `RET`; pushes over returned values that are still being read
(`VirtualMachine.cpp:879`).  The virtual machine keeps six states (`@run` within `@run`)
and does not test for the end of its stack.

*Preprocessor.*  In the first pass conditions are not evaluated, and a branch after `#else`
counts as active (`Preprocessor.cpp:716`): macros defined there are seen by files that
import this one.  An empty first argument is lost.  A macro defined first with and then
without parameters fails an assertion (219-225, 2349).  A disabled dependency hides only
the import itself.  `#unwrap` in a variadic argument does not split at commas.

*Driver.* `SuccessMeansBuilt` excepts what the code reports as success although nothing was
built: options that are refused (`Compiler.cpp:1365-1475`), a stuck loop (1709), a failed copy
of the MSVC linker's file (2034), and writes whose failure is not noticed, of the object file
(`ObjectFile.cpp:732`, 1440), of what else the linker reads (`Compiler.cpp:1831`, 2104, 2119),
and of the declarations (`decl_gen.cpp:549`).  So an exit code of 0 does not say that the
output is complete on a full disk, nor that there are declarations; each exception is for the
file concerned only.  A killed linker leaves a part of an output that is newer than the
sources and is called up to date next time.  `-incremental` does not look at changed options
or libraries.  With `-run-vm`, an output that is up to date leads to the execution of no
bytecode at all.  On Linux `FileCopy` opens the source for writing (`Linux.cpp:470`), so a
dynamic library is never copied; that path is not in `Driver`.

## 4. Proofs

For any number of threads, files, structs, functions and any job, for any programs of
`BodyChecking`, any files for the preprocessor, any bytecode for the x64 back end, and for any
number of files, texts, ticks and projects of the driver:

| Theorem | Says |
|---|---|
| `TypeCorrect` | `TypeOK`: every variable keeps its type |
| `OnceEachCorrect` | the double-checked steps run at most once |
| `BatonCorrect` | where the semaphore blocks, one selector at a time, no signal beyond the maximum |
| `CountersCorrect` | the counters never count a thread that is not there; `total_threads` misses none until one has left |
| `GivesUpOnlyWhenQuietCorrect` | the first thread to leave leaves tasks behind only when nobody works |
| `ChainCorrect` | an import has at most one task as a whole: queued, in a thread's hands or about to be queued; it finds done exactly the phases before its own |
| `WaveOrderCorrect` | one thread: the waves are kept apart |
| `BarrierInvCorrect` | one thread: an import with phases to go has a task, unless there are errors |
| `PhaseBarrierCorrect` | one thread: every import has been through all phases before the wave that is worked on |
| `BodyCheckedOnceCorrect` | one thread: no body is checked twice |
| `SharedScopesParsedCorrect` | one thread, or no preload: shared scopes have been parsed |
| `LexedFirstCorrect`, `MacrosExistCorrect` | one thread, or no preload: what is reached from an import is lexed, and what does not depend on it preprocessed, before it is preprocessed |
| `NeverStuckCorrect` | one thread: without errors one of the tasks can always be picked, whatever imports what |
| `NothingDroppedCorrect` | one thread: without errors every import has been through every phase and every body used was checked |
| `GivesUpOnlyWithoutProgressCorrect` | one thread: structs are given up only when none can be completed |
| `PipelineImplemented` | one thread: the task loop implements `Pipeline` |
| `TogetherCorrect`, `FoundBeforeWavesCorrect` | one thread: once the waves have begun, imports that have not been given up are at most a phase apart, and none is found any more |
| `RegistersApartCorrect` | for any bytecode: two values are never in one physical register, whatever is in use belongs to a value, nothing is in use at a call or at the end of a function |
| `OwnerIsHolderCorrect`, `LockImplemented` (both mutexes), `NeverUnlockingTwiceCorrect` | a mutex used before other threads start is an `EngoneMutex` |
| `UpToDateCorrect` | an output that is clean and called up to date was made from what was read of the files that are looked at |
| `SuccessCorrect` | exit code 0 means that nothing read had errors and that output and declarations are complete, up to the failures that the code does not notice |
| `RunsCorrect` | nothing is executed after an error; what is executed was made from what was read, with the same exceptions for the output |
| `ConditionalsChooseCorrect` | for any file whose calls end before the next directive: the second pass looks at the items of taken branches and no others, an import stays disabled if and only if none of them names it |
| `TypeCorrect` of `BodyCheckingProofs` | a thread in a body has an instance, the queue holds instances, calls ask for types |
| `OneCheckerCorrect` | without `construct()`: two threads are never in the body or signature of one function |
| `VersionsDistinctCorrect` | without `construct()`: two instances of a function have different `polyVersion`s |
| `TypesAreOwnCorrect` | one thread: parameters stand for the types of the instance, for any program |

Assumptions are the ASSUMEs of the modules (`NoImport` is not an import, the sets are
finite, the fields of a job have their types; `NoThread` is not a thread; the fields of a
project have their types and `Missing` is no text; ...); TLC
evaluates them.  `NoConstruct` of `BodyCheckingProofs`, an assumption of two theorems there, says
that no program calls `construct()` or `destruct()`; it is needed (see above).  The mutex theorems assume
`LockedBefore`.  One thread (the
default without `-threads`) is a hypothesis of the theorems marked so, stated as "any two threads
are equal" or, where the loop must run for something to be on its way, as "`Threads` is a
singleton".  With two threads `WaveOrder`, `PhaseBarrier`, `BodyCheckedOnce` and
`GivesUpOnlyWithoutProgress` fail (see above), and the proofs of `NothingDropped`, `NeverStuck` and
the refinement rest on the waves.  `RegistersApartCorrect` assumes `IsBytecode`, which is a part of
the invariant `RegisterDiscipline`: what is written, pushed or popped is a general register,
and jumps and calls name none.  `Orderly`, "one thread or no preload", excludes
the one race in which an import is lexed before `addOrFindImport` has linked it to the preload.

The argument.  Types are not inductive alone: which kind of thing a thread has in `todo`
and `target` depends on its `pc` and its task, so `TypeInv` adds `LocalOK`, and that the
bodies queued by `SetToSeq` form a sequence of tasks is a lemma about finite sets.
The lemmas `SelectSteps`, `HandlingStep` and `OthersUnchanged` say once what a step does to
baton, counters and other threads; `BatonStep` and `CountersStep` then have one case per
action that touches them.  `GivesUpOnlyWhenQuiet` follows from the counters by counting:
the threads at the semaphore are among those in the loop, so equal counters make the two
sets equal.  `WaveInv` strengthens `WaveOrder` by what a handler has yet to queue: nothing a
handler of a wave queues belongs to an earlier wave.

`ChainInv` is the core of the theorems about phases, for any number of threads: an import is owned
by one task, which carries it from phase to phase, and its phase bits are exactly those before
the task's type.  `Owns` includes the time between the bit and the follow-up (`post`), without
which it is not inductive.  Sequences are treated by what is in them (`ToSet`) and by `Apart`:
no two tasks have the same subject; the lemmas on `Append`, `\o`, `RemoveAt` and `Tail` say how
both change.  `BodyInv` does the same for bodies: what is in flight is apart, is not checked yet,
and belongs to an import that is past its signatures; a function outside `used` has no body in
flight.  `BarrierInv` turns the chain around: an import that has not `Ended` is on its way.
With the waves it gives `PhaseBarrier`: a task of an earlier phase would be queued, and
`NothingQueuedBefore` would hold the wave back.

For `NeverStuck` it remains that a queue with tasks has one that can be picked (`CanPick`).  Lexing
can always be picked, and a wave's least type, too.  The hard case is the preprocessor's: of the
imports that wait choose one from which the fewest imports are reached.  A dependency that waits
as well reaches no more than it, hence the same, hence depends on it in turn: it is circular, and
lexed is enough.  That needs `Reach` to be the closure of the graph: it is defined by as many
rounds as there are imports, and each round that is not the last adds one (`ReachClosed`, by
cardinality; induction is by least elements, as the library's induction rules cannot be used
here).  `PreprocessedInOrder` says the same of the past: what was reached when an import was
picked is still all that is reached, as lexed imports get no new dependencies.

`NothingDropped` adds `UsedBegun`: for a function that is used, and for an import past its
signatures, a body is in flight or has been checked; nothing that has begun is lost.  For the
refinement, a step that sets a phase bit is `Advance` of `Pipeline` if the wave is free, which is
`PhaseBarrier` for the imports that have not been given up; to select, requeue or drop a task
changes only who is on its way.  What holds of every pipeline then holds of the task loop:
`PipeInv` says that the imports which have not been given up are together; so while one is
lexed, which is when imports are found, none has entered the waves.

`GivesUpOnlyWithoutProgress` needs to know what the counter counts (`SweepsCounted`).  The first b
tasks of the queue are those that were put back since a struct was completed, after sweeps in
vain, and the counter plus the number of imports that have yet to be swept is at most the
number of imports: a sweep takes one import from the latter to the former.  The counter can
go on growing only when a task at the front is picked again, but the scan is backwards, so
then every task behind it waits for something, and nothing can: all has been swept
(`EarlyPick`).  While an import is judged the others are queued, so a counter beyond twice the
length of the queue is at least the number of imports and none is left to be swept.  TLC
refuted the first form of the property on the way, which did not except other errors (see
above).

For the mutexes the invariant says that only the main thread creates the kernel object,
alone, that every thread past the test uses the published handle, that its kernel object
belongs to the thread between wait and release, and that a noted owner runs with the mutex.
From it the step that passes the wait takes `EngoneMutex`, the one that releases gives it up,
and all others stutter (on Linux the end of the process gives it up, too).

For the driver the three properties are parts of the invariant `IInv`.  `Clean` says that for
a clean output every source file still has the text it was made from or was written no
earlier than the output; `Reading` carries that to the texts read so far, as long as the
newest time is before the output's; `Order` what a run cannot have done yet at a place;
`Checked` that what has passed a stage had none of the errors that stage finds; `Written`
what a run has put into the files by the time it gets to a place (`Delivered`, `Declared`),
unless it has noted a failure that went unnoticed.  `Clean` and `Reading`
together make a comparison of times a comparison of texts: `<` holds it up, `<=` would not
(the mutant `OutputNotOlder`).

For the preprocessor the theorem compares a stack that is pushed and popped item by item with
`Encloses` and `Before`, which look at the whole file.  The invariant (`Consistent`) relates
them by levels: the number of frames and of nested conditions skipped is the level of the head
(`Nested`), the n-th frame belongs to the last `#if` of level n that has no `#endif` yet, it is
active if and only if the branch the head is in was taken, and `complete_inactive` if and only
if one before it was (`Answered`); what was looked at or skipped so far was so rightly
(`Sorted`), and an import is enabled if and only if a selected item up to the head names it
(`Enabled`).  What `Encloses` an item changes only at directives of that item's level, which the
lemmas say once for each directive.  Files with a second `#else` or an `#elif` after it fail and are
excepted, others may have `#else`, `#elif` and `#endif` without their `#if`.  The hypothesis
`CallsEnd` is needed: `parseMacroEvaluation` takes its arguments from whatever the file holds
(`Preprocessor.cpp:1486`), so a call that lacks its parenthesis reads directives as if they
were tokens, and what they enclose can no longer be told.  The run checks that the calls of
its files satisfy it.

For the flags the invariant says that what a thread checks (`Checks`) has its flag and belongs to
no other thread.  A thread takes a function only without the flag, and the struct's flag
without a look at it only when it has the struct itself; so what `Release` and `BodyDone` clear
of functions is the thread's own.  The struct's flag may be cleared too early, and the theorem
does not need it.  The versions follow: between the read of the counter and the new instance the thread
is in the signature or has just left it, the counter is above every instance's version, and
two versions that are held for one function are distinct.  For the type parameters the
invariant is about the stack: what was pushed last is the body's own state, or what the
body's state was before the nested push, so a pop gives back what the thread had, whichever
function and struct the nested call is about.

For the registers (`BuilderInv`) the argument is about the lifetimes that the backward pass
leaves behind and the forward pass follows.  The code says of this pass that "the code mostly
works (some occasional bugs) but I would like to fully understand it"
(`x64_gen_extra.cpp:255`).  `Alloc` notes the instruction that creates an artificial register in
`started_by`: seen from the front, the last one that uses it, after which `free_artifical`
gives the register back.  The backward invariant says that an operand's value was started at
the operand or behind it, that no call lies in between, that the instruction that started a
value has it for an operand and is not deleted, and that what `map` and `original_recipient`
expect was started behind the head; the pop that may go with its push needs the
same, since `BackwardPush` deletes the pop and hands on what it expected.  That there is no
call in between is what `Cleared` is for, and an instruction may be deleted because it started
nothing: one that is deleted when it is visited has no operands yet, and a pop never starts a
value.  The forward invariant (`Held`) says that `used` are the registers of the values that
have one and are not the base pointer, that these are distinct, and that each has been handed
out at or before the head and is still to be freed by its starter.  `Out` keeps this since
`AllocRegister` takes what is not in use (or nothing, when all are: `RegistersFound`, only
model-checked, says that this does not happen to the programs of the run); `Post` since the
starter has the value as an operand.  At a call nothing is held: a value that is held lives
from before the call to a starter behind it, which the backward pass has excluded.  At the end
all starters have been passed.

Only model-checked: liveness (`EveryBodyChecked`, `EverythingEnds`, `Termination`,
`SomebodyGetsIn`, `EveryProgramEnds`), since proofs under fairness need ENABLED; that programs
compute their values (`ValuesOnVM`, `ValuesNative`), that stack and registers suffice for them
(`CallsAligned`, `RegisterDiscipline`: bytecode that pops what it has not pushed, or uses what
it has not set, violates it), which rest on the parser and the generator, recursive over the
program, whose results the prover cannot follow; `EvaluatesAsDefined`, whose reference is
recursive; and `CallsEnd`, which depends on the files.  `NeverStuck` for several threads is
checked by `parallel`.

## 5. What is not modelled, and the plan

Not modelled at all: text (scanning, formatting), encodings, file formats, external tools,
the UI and the logger, containers.  Within components that are modelled in part:

- Parser: declarations, structs, enums, namespaces, annotations, error recovery; name lookup
  of the AST; the rules of the type checker beyond the types of the expressions in `Generator`
  and the calls in `BodyChecking` (no overloads that differ in arguments, no polymorphic
  struct as a type, no use of the flags by the generator).
- Generator and back ends: structs, floats, unsigned types, strings, slices, globals, try and
  catch, inline assembly, `@run`, C calling conventions with their saved registers, calls
  into libraries, the interactive virtual machine, the ARM back end (the same shape as x64,
  less complete in the source).
- Preprocessor: `#global_macro`, `##`, `#quoted`, `#line` and the like.
- Import discovery: paths, virtual sources, renaming imports.
- Object files, DWARF and PDB are sequential writers whose correctness lies in the formats; of
  object files and declarations only the writing of the file is in `Driver`.
- Details of definitions that are otherwise whole: the errors of the once-only steps, which are
  added to `compile_stats.errors` (`Compiler.cpp:1033`, 1046, 1060; here the errors of a file's
  generation are), the assertion that there are returned values on the stack when one is read
  (`VirtualMachine.cpp:841`), two assertions about the operands of `%` in the x64 back end.
- Tools outside the compiler (tests, fuzzer, formatter) only start it.

What would add most, in this order:

1. Structs and unsigned integers in `Machine`.
2. `ScopeLookup`: name lookup over shared scopes with declaration order against a
   reference definition.
3. Overloads that differ in their arguments and are cast to, in `BodyChecking`.
4. `ChunkStore` of the lexer: indices stay valid; refinement of a sequence.
5. Theorems: `NeverStuck` for several threads without a preload; that the virtual machine
   leaves the stack pointer where a function found it, for bytecode whose pushes and pops pair up.
