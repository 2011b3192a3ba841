----------------------------- MODULE Generator -----------------------------
(***************************************************************************)
(* How GenContext turns functions into bytecode: expressions push their    *)
(* values, statements consume them, locals live at fixed offsets from the  *)
(* frame pointer.                                                          *)
(*                                                                         *)
(* A function is [params, rets, body]: the types of its parameters and of  *)
(* what it returns, and a sequence of statements.  Parameters are named by *)
(* their position, locals by strings.                                      *)
(***************************************************************************)
EXTENDS Bytecode, FiniteSetsExt

\* A type is [of, n]: n values of one kind, 0 for a value that is no array.
Scalar(kind) == [of |-> kind, n |-> 0]
Array(elem, n) == [elem EXCEPT !.n = n]
i8 == Scalar("i8")
i32 == Scalar("i32")
i64 == Scalar("i64")
bool == Scalar("bool")
ptr == Scalar("ptr")
IsArray(t) == t.n # 0
SizeOf(t) ==
    LET size == CASE t.of \in {"i8", "bool"} -> 1 [] t.of = "i32" -> 4 [] t.of \in {"i64", "ptr"} -> 8 IN
    IF IsArray(t) THEN t.n * size ELSE size
Integer == {i8, i32, i64}
RoundUp(n, m) == ((n + m - 1) \div m) * m

\* Where values are passed: parameters in order, aligned to their own size;
\* return values in reverse order, the last one lowest.
Offsets(types) ==
    FoldLeft(LAMBDA acc, t : [end |-> RoundUp(acc.end, SizeOf(t)) + SizeOf(t),
                              at |-> Append(acc.at, RoundUp(acc.end, SizeOf(t)))],
             [end |-> 0, at |-> <<>>], types)
ArgOffsets(f) == Offsets(f.params).at
ArgSize(f) == RoundUp(Offsets(f.params).end, REGISTER_SIZE)
RetOffsets(f) == Reverse(Offsets(Reverse(f.rets)).at)
RetSize(f) == RoundUp(Offsets(Reverse(f.rets)).end, REGISTER_SIZE)
\* The offset of a returned value below the frame of the function.
RetAt(f, k) == RetOffsets(f)[k] - RetSize(f)

-----------------------------------------------------------------------------
(***************************************************************************)
(* A context c holds the functions of the program, the function being      *)
(* generated and env, the type and offset of every local in scope.         *)
(***************************************************************************)
MovLocal(off, size) == Inst("MOV_RM", "T0", "LOCALS", size, FALSE, off)
Push(reg) == OnReg("PUSH", reg, 0)
Pop(reg) == OnReg("POP", reg, 0)
MovRM(to, from, size) == OnRegs("MOV_RM", to, from, size, FALSE)
MovMR(to, from, size) == OnRegs("MOV_MR", to, from, size, FALSE)
CastRegs(to, from, fsize, tsize) == Inst("CAST", to, from, fsize, TRUE, tsize)

\* performSafeCast, on the value that was pushed last.
SafeCast(from, to) ==
    IF from = to THEN <<>>
    ELSE CASE from \in Integer \cup {bool} /\ to \in Integer \cup {bool} ->
                <<Pop("T0"), CastRegs("T1", "T0", SizeOf(from), SizeOf(to)), Push("T1")>>
           [] from = ptr /\ to = bool ->
                <<Pop("T0"), OnReg("LI32", "A", 0), OnRegs("NEQ", "T0", "A", 8, FALSE), Push("T0")>>

\* The type of the only value of an expression; calls may have several.
RECURSIVE Types(_, _)
Types(e, c) ==
    LET T(x) == Types(x, c)[1]
        Larger(l, r) == IF SizeOf(l) < SizeOf(r) THEN r ELSE l IN
    CASE e.k = "lit" -> <<i32>>
      [] e.k = "local" -> <<c.env[e.x].type>>
      [] e.k = "param" -> <<c.fn.params[e.x]>>
      [] e.k = "bin" -> <<CASE e.op \in Comparisons \cup Logicals -> bool
                            [] e.op \in Shifts -> T(e.l)
                            [] OTHER -> Larger(T(e.l), T(e.r))>>
      [] e.k = "opasg" -> <<Larger(T(e.l), T(e.r))>>
      [] e.k = "un" -> <<IF e.op = "LNOT" THEN bool ELSE T(e.l)>>
      [] e.k \in {"asg", "incr"} -> <<T(e.l)>>
      [] e.k = "ref" -> <<ptr>>
      [] e.k \in {"deref", "cast"} -> <<e.t>>
      [] e.k = "index" -> <<Array(T(e.l), 0)>>
      [] e.k = "call" -> c.fns[e.f].rets

\* An operation of two values: operands are widened to the larger one, except
\* for shifts; comparisons look at that size, && and || at whole registers.
Operation(op, lt, rt) ==
    LET ls == SizeOf(lt)
        rs == SizeOf(rt)
        outSize == IF op \notin Shifts /\ rs > ls THEN rs ELSE ls
        widen(reg, s) == IF s # outSize /\ op \notin Shifts THEN <<CastRegs(reg, reg, s, outSize)>> ELSE <<>>
        integers == {lt, rt} \subseteq Integer IN
    <<Pop("D"), Pop("C")>>
    \o (IF integers THEN widen("C", ls) \o widen("D", rs) ELSE <<>>)
    \o <<OnRegs(op, "C", "D", IF op \in Logicals \/ ~integers THEN 8 ELSE outSize, integers)>>

\* Adds D, an index that is scaled in n bytes, to a register.
Scaled(base, size, n) ==
    (IF size > 1 THEN <<OnReg("LI32", "A", size), OnRegs("UMUL", "D", "A", n, FALSE)>> ELSE <<>>)
    \o <<OnRegs("ADD", base, "D", 8, FALSE)>>

\* generateReference pushes the address of a value, generateExpression its value.
RECURSIVE Reference(_, _), Expression(_, _)
TypeOf(e, c) == Types(e, c)[1]
SizeIn(e, c) == SizeOf(TypeOf(e, c))
ReferenceIndex(e, c) ==
    JoinAll(<<Reference(e.l, c), Expression(e.i, c), <<Pop("D"), Pop("C")>>,
              Scaled("C", SizeIn(e, c), REGISTER_SIZE), <<Push("C")>> >>)
Reference(e, c) ==
    CASE e.k = "local" -> <<OnReg("PTR_TO_LOCALS", "B", c.env[e.x].at), Push("B")>>
      [] e.k = "param" -> <<OnReg("PTR_TO_PARAMS", "B", ArgOffsets(c.fn)[e.x]), Push("B")>>
      [] e.k = "deref" -> Join(Reference(e.l, c), <<Pop("B"), MovRM("C", "B", 8), Push("C")>>)
      [] e.k = "index" -> ReferenceIndex(e, c)

\* A call pushes its arguments, stores them last first, calls, and pushes what
\* was returned.
Arguments(e, f, c) ==
    LET n == Len(e.args)
        pushed == [i \in 1..n |-> Join(Expression(e.args[i], c), SafeCast(TypeOf(e.args[i], c), f.params[i]))]
        set(i) == <<Pop("T0"), Inst("SET_ARG", "T0", "INVALID", SizeOf(f.params[i]), f.params[i] \in Integer, ArgOffsets(f)[i])>> IN
    JoinAll(pushed \o [j \in 1..n |-> set(n + 1 - j)])
Returned(f) ==
    JoinAll([k \in 1..Len(f.rets) |->
        <<Inst("GET_VAL", "T0", "INVALID", SizeOf(f.rets[k]), f.rets[k] \in Integer, RetAt(f, k)), Push("T0")>>])
CallOf(e, c) ==
    LET f == c.fns[e.f] IN
    JoinAll(<<<<NoOperands("ALLOC_ARGS", ArgSize(f))>>, Arguments(e, f, c),
              <<NoOperands("CALL", e.f), NoOperands("FREE_ARGS", ArgSize(f))>>, Returned(f)>>)

Variable(e, c) ==
    IF IsArray(TypeOf(e, c))
    THEN <<OnReg("LI64", "T0", c.env[e.x].at), OnRegs("ADD", "T0", "LOCALS", 8, FALSE), Push("T0")>>
    ELSE <<MovLocal(c.env[e.x].at, SizeIn(e, c)), Push("T0")>>
Parameter(e, c) ==
    <<Inst("GET_PARAM", "T0", "INVALID", SizeIn(e, c), TypeOf(e, c) \in Integer, ArgOffsets(c.fn)[e.x]), Push("T0")>>
Binary(e, c) ==
    JoinAll(<<Expression(e.l, c), Expression(e.r, c), Operation(e.op, TypeOf(e.l, c), TypeOf(e.r, c)), <<Push("C")>> >>)
\* x += e evaluates x as a value and as a reference.
CompoundAssignment(e, c) ==
    JoinAll(<<Binary(e, c), Reference(e.l, c), <<Pop("B")>>, SafeCast(TypeOf(e, c), TypeOf(e.l, c)),
              <<Pop("C"), MovMR("B", "C", SizeIn(e.l, c)), Push("C")>> >>)
Assignment(e, c) ==
    JoinAll(<<Expression(e.r, c), Reference(e.l, c), <<Pop("B")>>, SafeCast(TypeOf(e.r, c), TypeOf(e.l, c)),
              <<Pop("T0"), MovMR("B", "T0", SizeIn(e, c)), MovRM("T0", "B", SizeIn(e, c)), Push("T0")>> >>)
Negation(e, c) ==
    Join(Expression(e.l, c), <<Pop("D"), OnRegs("BXOR", "A", "A", SizeIn(e, c), FALSE),
                               OnRegs("SUB", "A", "D", SizeIn(e, c), FALSE), Push("A")>>)
Unary(e, c) ==
    Join(Expression(e.l, c), <<Pop("A"), OnRegs(e.op, "A", "A", SizeIn(e.l, c), FALSE), Push("A")>>)
Incrementation(e, c) ==
    JoinAll(<<Reference(e.l, c), <<Pop("B"), MovRM("A", "B", SizeIn(e, c))>>,
              IF e.post THEN <<Push("A")>> ELSE <<>>,
              <<OnReg("INCR", "A", e.by), MovMR("B", "A", SizeIn(e, c))>>,
              IF e.post THEN <<>> ELSE <<Push("A")>> >>)
Dereference(e, c) ==
    LET to == IF e.t = ptr THEN "A" ELSE "T0" IN
    Join(Expression(e.l, c), <<Pop("B"), MovRM(to, "B", SizeIn(e, c)), Push(to)>>)
Indexing(e, c) ==
    JoinAll(<<Expression(e.l, c), Expression(e.i, c), SafeCast(TypeOf(e.i, c), i32), <<Pop("D"), Pop("B")>>,
              Scaled("B", SizeIn(e, c), 4), <<MovRM("T0", "B", SizeIn(e, c)), Push("T0")>> >>)

Expression(e, c) ==
    CASE e.k = "lit" -> <<OnReg("LI32", "A", e.n), Push("A")>>
      [] e.k = "local" -> Variable(e, c)
      [] e.k = "param" -> Parameter(e, c)
      [] e.k = "bin" -> Binary(e, c)
      [] e.k = "opasg" -> CompoundAssignment(e, c)
      [] e.k = "asg" -> Assignment(e, c)
      [] e.k = "un" -> IF e.op = "NEG" THEN Negation(e, c) ELSE Unary(e, c)
      [] e.k = "cast" -> Join(Expression(e.l, c), SafeCast(TypeOf(e.l, c), e.t))
      [] e.k = "incr" -> Incrementation(e, c)
      [] e.k = "ref" -> Reference(e.l, c)
      [] e.k = "deref" -> Dereference(e, c)
      [] e.k = "index" -> Indexing(e, c)
      [] e.k = "call" -> CallOf(e, c)

\* now..end pushes the end first; both are evaluated in the order they are written.
RangeValues(e, c) ==
    JoinAll(<<Expression(e.now, c), Expression(e.end, c), <<Pop("D"), Pop("C"), Push("D")>>,
              SafeCast(TypeOf(e.end, c), i32), <<Push("C")>>, SafeCast(TypeOf(e.now, c), i32)>>)

-----------------------------------------------------------------------------
(***************************************************************************)
(* Statements.  frame is the offset of the last local allocated, low the   *)
(* deepest one so far.  A break is left as a BREAK and a continue as a     *)
(* CONTINUE for the statement around it to patch.                          *)
(***************************************************************************)
LocalSize(t) == RoundUp(SizeOf(t), REGISTER_SIZE)
Ends(s) == s.k \in {"return", "break", "continue"}
Emitted(c, more) == [c EXCEPT !.code = Join(c.code, more)]
Store64(reg, size, at) == Inst("MOV_MR", "LOCALS", reg, size, FALSE, at)

\* framePush
Frame(c, x, t) ==
    LET at == c.frame - LocalSize(t) IN
    [c EXCEPT !.frame = at, !.low = Min({c.low, at}), !.env = (x :> [type |-> t, at |-> at]) @@ @]

\* generatePop of the values of an expression, last first, into these targets;
\* values beyond the targets are dropped.
Targets(names, types, c) ==
    LET n == Len(types)
        pop(i) == IF i > Len(names) THEN <<Pop("T0")>>
                  ELSE Join(SafeCast(types[i], c.env[names[i]].type),
                            <<Pop("T0"), Store64("T0", SizeOf(c.env[names[i]].type), c.env[names[i]].at)>>) IN
    JoinAll([j \in 1..n |-> pop(n + 1 - j)])

\* Code that may be jumped over: a jump is relative to what follows it.
JumpIfZero(reg, code) == <<OnReg("JZ", reg, Len(code))>> \o code
Jump(n) == NoOperands("JMP", n)
\* The jumps out of a loop and back to its start, when code is all of it.
PatchLoop(code) ==
    [i \in 1..Len(code) |->
        CASE code[i].op = "BREAK" -> Jump(Len(code) - i)
          [] code[i].op = "CONTINUE" -> Jump(-i)
          [] OTHER -> code[i]]
\* A switch counts as a loop whose continue address is never set.
PatchSwitch(code) ==
    [i \in 1..Len(code) |->
        CASE code[i].op = "BREAK" -> Jump(Len(code) - i)
          [] code[i].op = "CONTINUE" -> NoOperands("RESTART", 0)
          [] OTHER -> code[i]]
PatchStart(code) == [i \in 1..Len(code) |-> IF code[i].op = "RESTART" THEN Jump(-i) ELSE code[i]]
Condition(e, c) == JoinAll(<<Expression(e, c), SafeCast(TypeOf(e, c), bool), <<Pop("A")>> >>)

RECURSIVE Body(_, _)
Declare(s, c) ==
    LET d == Frame(c, s.x, s.t) IN
    IF s.zero THEN Emitted(d, <<OnRegs("BXOR", "T1", "T1", SizeOf(s.t), FALSE), Store64("T1", SizeOf(s.t), d.frame)>>)
    ELSE d
If(s, c) ==
    LET then == Body(s.then, [c EXCEPT !.code = <<>>])
        else == Body(s.else, [c EXCEPT !.code = <<>>, !.low = then.low])
        skip == IF s.else = <<>> THEN <<>> ELSE <<Jump(Len(else.code))>> IN
    Emitted([c EXCEPT !.low = else.low],
            Condition(s.e, c) \o JumpIfZero("A", then.code \o skip) \o else.code)
WhilePatchedEarly(s, c) ==
    LET body == Body(s.body, [c EXCEPT !.code = <<>>]) IN
    Emitted([c EXCEPT !.low = body.low],
            PatchLoop(Append(Condition(s.e, c) \o JumpIfZero("A", body.code), NoOperands("CONTINUE", 0))))
While(s, c) ==
    LET body == Body(s.body, [c EXCEPT !.code = <<>>]) IN
    Emitted([c EXCEPT !.low = body.low],
            PatchLoop(Condition(s.e, c) \o JumpIfZero("A", Append(body.code, NoOperands("CONTINUE", 0)))))

\* for now..end and for @rev now..end: the range is evaluated before the loop and
\* again at the start of every iteration.
RangeLoop(s, c, range) ==
    LET d == Frame([c EXCEPT !.code = <<>>], "nr", i32)
        step == IF s.rev THEN -1 ELSE 1
        first == IF s.rev THEN <<Pop("D"), Pop("A")>> ELSE <<Pop("A"), Pop("D"), OnReg("INCR", "A", -1)>>
        bounds == IF s.rev THEN <<Pop("D"), Pop("A")>> ELSE <<Pop("A"), Pop("D")>>
        before == JoinAll(<<range, first, <<Push("A"), Pop("T0"), Store64("T0", 4, d.frame)>> >>)
        body == Body(s.body, d)
        next == <<Inst("MOV_RM", "C", "LOCALS", 4, FALSE, d.frame), OnReg("INCR", "C", step), Store64("C", 4, d.frame),
                  OnRegs(IF s.rev THEN "GTE" ELSE "LT", "C", "D", 4, TRUE)>>
        loop == JoinAll(<<range, bounds, next>>) \o JumpIfZero("C", Append(body.code, NoOperands("CONTINUE", 0))) IN
    Emitted([c EXCEPT !.low = body.low], before \o PatchLoop(loop))
ForRange(s, c) == RangeLoop(s, c, RangeValues(s.e, c))

\* The tests of all cases, then the default case, then the others.  A case that
\* falls through goes on with the next one, the last of them with the default.
CaseTest(case, c, at) ==
    LET size == SizeIn(case.value, c) IN
    Join(Expression(case.value, c),
         <<Pop("A"), Inst("MOV_RM", "D", "LOCALS", size, FALSE, at), OnRegs("EQ", "A", "D", size, FALSE)>>)
Cases(cases, tests, default, bodies) ==
    LET n == Len(cases)
        length(k) == Len(bodies[k]) + (IF cases[k].fall /\ k < n THEN 0 ELSE 1)
        \* What lies between two points of the code, in instructions.
        sum(from, to, f(_)) == SumFunctionOnSet([k \in from..to |-> f(k)], from..to)
        testLength(k) == Len(tests[k]) + 1
        toCase(k) == sum(k + 1, n, testLength) + Len(default) + sum(1, k - 1, length)
        jump(k) == CASE ~cases[k].fall -> <<NoOperands("BREAK", 0)>>
                     [] cases[k].fall /\ k < n -> <<>>
                     [] OTHER -> <<Jump(-(Len(default) + sum(1, n, length)))>> IN
    FlattenSeq([k \in 1..n |-> Append(tests[k], OnReg("JNZ", "A", toCase(k)))])
    \o default \o FlattenSeq([k \in 1..n |-> bodies[k] \o jump(k)])
Switch(s, c) ==
    LET d == Frame([c EXCEPT !.code = <<>>], "", TypeOf(s.e, c))
        body(k) == Body(s.cases[k].body, d)
        default == Body(s.default, d)
        K == 1..Len(s.cases) IN
    Emitted([c EXCEPT !.low = Min({body(k).low : k \in K} \cup {default.low})],
            PatchSwitch(Join(Expression(s.e, c), <<Pop("D"), Store64("D", SizeIn(s.e, c), d.frame)>>)
                        \o Cases(s.cases, [k \in K |-> CaseTest(s.cases[k], c, d.frame)],
                                 Append(default.code, NoOperands("BREAK", 0)), [k \in K |-> body(k).code])))

SetReturn(e, k, c) ==
    JoinAll(<<Expression(e, c), SafeCast(TypeOf(e, c), c.fn.rets[k]),
              <<Pop("T0"), Inst("SET_RET", "T0", "INVALID", SizeOf(c.fn.rets[k]), c.fn.rets[k] \in Integer, RetAt(c.fn, k))>> >>)
Return(s, c) ==
    Emitted(c, Append(JoinAll([k \in 1..Len(s.es) |-> SetReturn(s.es[k], k, c)]), NoOperands("RET", 0)))

Statement(s, c) ==
    CASE s.k = "declare" -> Declare(s, c)
      [] s.k = "let" -> Emitted(c, Join(Expression(s.e, c), Targets(s.names, Types(s.e, c), c)))
      [] s.k = "expr" -> Emitted(c, Join(Expression(s.e, c), [j \in 1..Len(Types(s.e, c)) |-> Pop("T0")]))
      [] s.k = "if" -> If(s, c)
      [] s.k = "while" -> While(s, c)
      [] s.k = "for" -> ForRange(s, c)
      [] s.k = "switch" -> Switch(s, c)
      [] s.k = "break" -> Emitted(c, <<NoOperands("BREAK", 0)>>)
      [] s.k = "continue" -> Emitted(c, <<NoOperands("CONTINUE", 0)>>)
      [] s.k \in {"body", "defer"} -> Body(s.body, c)
      [] s.k = "return" -> Return(s, c)

\* generateBody: what follows a return, break or continue is not generated; the
\* locals of the scope are gone at its end.
Reached(stmts) ==
    LET cut == SelectInSeq(stmts, Ends) IN IF cut = 0 THEN stmts ELSE SubSeq(stmts, 1, cut)
Leave(c, done) == [done EXCEPT !.frame = c.frame, !.env = c.env]
Body(stmts, c) == Leave(c, FoldLeft(LAMBDA acc, s : Statement(s, acc), c, Reached(stmts)))

\* generateFunction: the frame holds the return values and the deepest locals.
Returning(f, c) ==
    LET ended == f.body # <<>> /\ Last(f.body).k = "return" IN
    [code |-> PatchStart(IF ended THEN c.code ELSE Append(c.code, NoOperands("RET", 0))), frame_size |-> -c.low]
Function(f, fns) ==
    Returning(f, Body(f.body, [fn |-> f, fns |-> fns, env |-> <<>>, frame |-> -RetSize(f),
                               low |-> -RetSize(f), code |-> <<>>]))
Generate(fns) == [i \in 1..Len(fns) |-> Function(fns[i], fns)]
=============================================================================
