----------------------------- MODULE MCMachine -----------------------------
(***************************************************************************)
(* Programs for Machine: small functions in the shapes of the repository's *)
(* tests (tests/simple, tests/flow, tests/funcs).                          *)
(***************************************************************************)
EXTENDS Machine

\* Expressions as they are written: a number, a name, or operators with every
\* operand in parentheses that needs them.
tok(t, of) == <<[t |-> t, of |-> of]>>
sym(t) == tok(t, "")
in(e) == IF Len(e) = 1 THEN e ELSE tok("(", e)
lit(n) == tok("number", [k |-> "lit", n |-> n])
local(x) == tok("name", [k |-> "local", x |-> x])
param(i) == tok("name", [k |-> "param", x |-> i])
bin(o, l, r) == in(l) \o sym(o) \o in(r)
opasg(o, l, r) == l \o tok("op=", o) \o r
un(o, l) == sym(o) \o in(l)
asg(l, r) == l \o sym("=") \o r
incr(l, post, by) == LET o == sym(IF by = 1 THEN "++" ELSE "--") IN IF post THEN l \o o ELSE o \o l
ref(l) == sym("&") \o l
deref(l, t) == tok("*", t) \o in(l)
cast(l, t) == tok("cast", t) \o in(l)
index(l, i) == l \o tok("[", i)
call(f, args) == tok("call", [f |-> f, args |-> args])

declare(x, t, zero) == [k |-> "declare", x |-> x, t |-> t, zero |-> zero]
let(names, e) == [k |-> "let", names |-> names, e |-> e]
expr(e) == [k |-> "expr", e |-> e]
if(e, then, else) == [k |-> "if", e |-> e, then |-> then, else |-> else]
while(e, body) == [k |-> "while", e |-> e, body |-> body]
forRange(rev, now, end, body) == [k |-> "for", rev |-> rev, e |-> bin("..", now, end), body |-> body]
case(n, body, fall) == [value |-> lit(n), body |-> body, fall |-> fall]
switch(e, cases, default) == [k |-> "switch", e |-> e, cases |-> cases, default |-> default]
return(es) == [k |-> "return", es |-> es]
defer(body) == [k |-> "defer", body |-> body]
block(body) == [k |-> "body", body |-> body]
break == [k |-> "break"]
continue == [k |-> "continue"]
fn(params, rets, body) == [params |-> params, rets |-> rets, body |-> body]
set(x, t, e) == <<declare(x, t, FALSE), let(<<x>>, e)>>
a == local("a")
b == local("b")
c == local("c")
d == local("d")
i == local("i")
nr == local("nr")

\* tests/funcs: several returned values, arguments and calls in expressions.
TwoValues == [values |-> <<11, 23>>,
    fns |-> <<fn(<<>>, <<i32, i64>>,
                 set("a", i32, lit(0)) \o set("b", i64, lit(0)) \o
                 <<let(<<"a", "b">>, call(2, <<lit(5), lit(7)>>)),
                   return(<<bin("-", a, lit(1)), bin("+", b, call(3, <<lit(11)>>))>>)>>),
              fn(<<i32, i64>>, <<i32, i64>>, <<return(<<bin("+", param(1), param(2)), bin("+", param(1), param(2))>>)>>),
              fn(<<i8>>, <<i32>>, set("a", i32, param(1)) \o <<return(<<a>>)>>)>>]

-----------------------------------------------------------------------------
(***************************************************************************)
(* Expressions over three variables of different sizes, with the value     *)
(* that the language gives them; NoValue stands for those that no test     *)
(* defines (negative operands of bit operations) and for those on which    *)
(* the back ends are known to disagree (see the README).                   *)
(***************************************************************************)
Wrapped(v, t) == IF v # NoValue /\ t = i8 THEN Signed8(v) ELSE v
\* x % y is never negative for a positive y (tests/simple/operations.btb:82).
Meaning(op, x, y, lt, rt) ==
    IF NoValue \in {x, y} THEN NoValue
    ELSE IF op # "MOD" THEN Compute(op, x, y)
    ELSE IF x < 0 \/ y <= 0 \/ i8 \in {lt, rt} THEN NoValue ELSE x % y

\* An expression without parentheses: the operator that binds least, the last of
\* them, is applied to what is on either side of it.
Weakest(e) ==
    LET at == {j \in 1..Len(e) : j % 2 = 0}
        binds(j) == Source!OpPrecedence(Source!IsOp[e[j].t]) IN
    CHOOSE j \in at : \A h \in at : binds(j) < binds(h) \/ (binds(j) = binds(h) /\ h <= j)
RECURSIVE Value(_, _)
Value(e, ctx) ==
    CASE Len(e) > 1 ->
            LET j == Weakest(e)
                l == SubSeq(e, 1, j - 1)
                r == SubSeq(e, j + 1, Len(e))
                type(x) == Types(Source!ParseExpression(x), ctx)[1] IN
            Wrapped(Meaning(Source!IsOp[e[j].t], Value(l, ctx), Value(r, ctx), type(l), type(r)), type(e))
      [] e[1].t = "(" -> Value(e[1].of, ctx)
      [] e[1].t = "name" -> ctx.env[e[1].of.x].value

Inner == {"+", "-", "*", "/", "%", "^", "<<", ">>"}
Outer == {"-", "*", "/", "%", "&", "<", ">=", "<<"}
Shapes(op1, op2) == {bin(op2, bin(op1, a, b), c), bin(op2, c, bin(op1, a, b))}
Chained == {"+", "-", "*", "/", "%", "&", "<"}
Chains == {a \o sym(p[1]) \o b \o sym(p[2]) \o c \o sym(p[3]) \o d :
              p \in {q \in [1..3 -> Chained] : Cardinality({n \in 1..3 : q[n] = "<"}) <= 1}}
TypeTriples == {<<i32, i32, i32>>, <<i64, i32, i8>>, <<i8, i32, i64>>, <<i8, i8, i8>>}
Numbers == {<<13, 3, 2>>, <<3, 5, 2>>}
Expressions ==
    LET names == <<"a", "b", "c", "d">>
        context(t, v) == [env |-> [x \in {names[n] : n \in 1..Len(t)} |->
            LET n == CHOOSE n \in 1..Len(t) : names[n] = x IN [type |-> t[n], value |-> v[n]]]]
        main(t, v, e) == <<fn(<<>>, <<i64>>,
            Append(FlattenSeq([n \in 1..Len(t) |-> set(names[n], t[n], lit(v[n]))]), return(<<e>>)))>>
        meant(t, v, e) == [fns |-> main(t, v, e), values |-> <<Value(e, context(t, v))>>] IN
    {p \in {meant(t, v, e) : t \in TypeTriples, v \in Numbers, e \in UNION {Shapes(op1, op2) : op1 \in Inner, op2 \in Outer}}
            \cup {meant(<<i32, i32, i32, i32>>, <<29, 7, 5, 3>>, e) : e \in Chains} :
        p.values[1] # NoValue}

-----------------------------------------------------------------------------
\* Statements.  main with some locals that only make the frame larger, so that
\* calls start from both alignments; one returned value.
one == lit(1)
two == lit(2)
Filler(n) == [k \in 1..n |-> declare(<<"x", "y">>[k], i32, FALSE)]
Returns(n, v, body, others) == [fns |-> <<fn(<<>>, <<i32>>, Filler(n) \o body)>> \o others, values |-> <<v>>]
Twice == fn(<<i32>>, <<i32>>, <<return(<<bin("*", param(1), two)>>)>>)
Sum3 == fn(<<i8, i32, i64>>, <<i32>>, <<return(<<bin("+", bin("+", param(1), param(2)), param(3))>>)>>)
Calls(n) ==
    {Returns(n, 9, <<return(<<bin("+", one, bin("+", two, call(2, <<lit(3)>>)))>>)>>, <<Twice>>),
     Returns(n, 20, <<return(<<call(2, <<bin("+", call(2, <<lit(3)>>), call(2, <<two>>))>>)>>)>>, <<Twice>>),
     Returns(n, 16, <<return(<<bin("-", call(2, <<lit(3), lit(4), call(3, <<lit(5)>>)>>), one)>>)>>, <<Sum3, Twice>>),
     Returns(n, 6, <<return(<<call(2, <<lit(3)>>)>>)>>,
             <<fn(<<i32>>, <<i32>>, <<if(bin("<=", param(1), one), <<return(<<one>>)>>, <<>>),
                  return(<<bin("*", call(2, <<bin("-", param(1), one)>>), param(1))>>)>>)>>)}
\* A loop with an exit of either kind, a call in it and a call after it.
Loop(n, exit) ==
    LET total == CASE exit = break -> 3 [] exit = continue -> 12 [] OTHER -> 15 IN
    Returns(n, 2 * total,
            set("i", i32, lit(0)) \o set("a", i32, lit(0)) \o
            <<while(bin("<", i, lit(5)),
                <<expr(incr(i, TRUE, 1)),
                  if(bin("==", bin("%", i, lit(3)), lit(0)), <<exit>>,
                     <<expr(opasg("+", a, lit(0)))>>),
                  expr(opasg("+", a, bin("/", call(2, <<i>>), two)))>>),
              return(<<call(2, <<a>>)>>)>>, <<Twice>>)
\* A function that returns inside a branch, with a call after the branches meet.
Branches(n, x) ==
    Returns(n, CASE x = 0 -> 100 [] x = 1 -> 8 [] x = 2 -> 4 [] OTHER -> 6,
            set("a", i32, lit(x)) \o
            <<if(bin("==", a, lit(0)), <<return(<<lit(100)>>)>>, <<>>),
              if(bin("==", a, one), <<expr(asg(a, lit(4)))>>,
                 <<if(bin("==", a, two), <<expr(call(2, <<a>>))>>, <<expr(asg(a, lit(3)))>>)>>),
              expr(call(2, <<a>>)),
              return(<<call(2, <<a>>)>>)>>, <<Twice>>)
Nested ==
    {Returns(n, 12, set("i", i32, lit(0)) \o set("b", i32, lit(0)) \o
             <<while(one,
                 <<if(bin(">=", i, lit(3)), <<break>>, <<>>),
                   declare("c", i32, TRUE), expr(asg(c, lit(0))),
                   while(bin("<", c, lit(4)), <<expr(asg(c, bin("+", c, one))), expr(asg(b, bin("+", b, one))),
                                                 if(un("!", bin("!=", c, lit(4))), <<break>>, <<>>)>>),
                   expr(incr(i, FALSE, 1))>>),
               return(<<b>>)>>, <<>>) : n \in 0..1}
\* Without parentheses: tests/simple/operations.btb:83, prefixes, conditions, *p++.
Chain(first, rest) == FoldLeft(LAMBDA acc, p : acc \o sym(p[1]) \o in(p[2]), first, rest)
Precedences ==
    LET inner == Chain(lit(5), <<<<"-", lit(8)>>, <<"%", lit(6)>>, <<"+", lit(4)>>, <<"*", lit(3)>>, <<"%", one>>, <<"%", lit(7)>>,
                                 <<"-", lit(4)>>, <<"-", lit(7)>>, <<"+", lit(7)>>, <<"+", Chain(lit(8), <<<<"+", lit(7)>>>>)>>>>)
        last == Chain(lit(6), <<<<"+", lit(8)>>, <<"/", lit(4)>>, <<"*", one>>, <<"*", lit(5)>>, <<"*", two>>, <<"*", lit(6)>>>>)
        sum == Chain(lit(8), <<<<"+", one>>, <<"*", inner>>, <<"*", lit(4)>>, <<"+", lit(5)>>,
                               <<"%", Chain(lit(6), <<<<"/", two>>, <<"+", last>>>>)>>>>)
        prefixes == sym("-") \o a \o sym("*") \o sym("-") \o lit(3) \o sym("+") \o sym("~") \o b
        either == Chain(a, <<<<"<", b>>, <<"&&", b>>, <<">", lit(9)>>, <<"||", a>>, <<"==", lit(4)>>>>)
        both == Chain(a, <<<<"==", lit(4)>>, <<"||", b>>, <<"<", a>>, <<"&&", b>>, <<"!=", two>>>>)
        known == set("a", i32, lit(4)) \o set("b", i32, two) IN
    {Returns(0, 69, <<return(<<sum>>)>>, <<>>), Returns(0, 9, known \o <<return(<<prefixes>>)>>, <<>>)}
    \cup {Returns(0, 7, known \o <<if(e, <<return(<<lit(7)>>)>>, <<return(<<lit(8)>>)>>)>> \o <<return(<<one>>)>>, <<>>) : e \in {either, both}}
    \cup {Returns(0, 5, known \o <<expr(call(2, <<ref(a)>>)), return(<<a>>)>>,
                  <<fn(<<ptr>>, <<>>, <<expr(tok("*", i32) \o param(1) \o sym("++"))>>)>>)}
\* Pointers, arrays, unary operators, conversions; a value used after i++.
Memory(n) ==
    {Returns(n, 35, <<declare("a", Array(i32, 3), FALSE), expr(asg(index(a, lit(0)), lit(5))),
                      expr(asg(index(a, one), lit(7))),
                      return(<<bin("*", index(a, lit(0)), index(a, one))>>)>>, <<>>),
     Returns(n, 4, set("a", i32, two) \o <<expr(call(2, <<ref(a)>>)), return(<<a>>)>>,
             <<fn(<<ptr>>, <<>>, <<expr(asg(deref(param(1), i32), bin("+", deref(param(1), i32), two)))>>)>>),
     Returns(n, 17, set("a", i32, lit(8)) \o set("b", i32, incr(a, TRUE, 1)) \o <<return(<<bin("+", a, b)>>)>>, <<>>),
     Returns(n, 14, set("a", i8, lit(8)) \o set("b", i64, incr(a, FALSE, -1)) \o <<return(<<bin("+", a, b)>>)>>, <<>>),
     Returns(n, 47, set("a", i32, lit(300)) \o <<return(<<bin("+", lit(3), cast(a, i8))>>)>>, <<>>),
     Returns(n, -3, set("a", i32, lit(3)) \o <<return(<<un("-", a)>>)>>, <<>>),
     Returns(n, -4, set("a", i8, lit(3)) \o <<return(<<un("~", a)>>)>>, <<>>),
     Returns(n, 1, set("a", i32, lit(3)) \o set("b", i8, lit(0)) \o set("c", bool, a) \o
                   <<return(<<bin("&&", bin("||", c, b), un("!", b))>>)>>, <<>>),
     Returns(n, 5, set("a", i32, lit(5)) \o set("b", ptr, ref(a)) \o
                   <<if(b, <<expr(asg(b, ref(b)))>>, <<return(<<one>>)>>), return(<<a>>)>>, <<>>)}
\* Operands that are busy in A, C or D: divisions and shifts of sub-expressions.
Busy(n) ==
    LET set4 == set("a", i32, lit(20)) \o set("b", i32, lit(3)) \o set("c", i32, two) \o set("d", i32, lit(7))
        q(op, l, r, v) == Returns(n, v, set4 \o <<return(<<bin("-", bin("+", a, bin(op, l, r)), d)>>)>>, <<>>) IN
    {q("/", bin("*", a, b), bin("+", c, d), 19), q("%", bin("*", a, b), bin("+", c, d), 19),
     q("<<", bin("-", d, b), bin("+", c, one), 45), q(">>", a, bin("/", d, b), 18),
     q("/", call(2, <<a>>), b, 26)}
Busies(n) == {[p EXCEPT !.fns = @ \o <<Twice>>] : p \in Busy(n)}

\* tests/flow/loops.btb and switch.btb: ranges in both directions, whose bounds call
\* a function; cases that break, return, call or fall through.
Ranges(n) ==
    LET sum(rev, now, end, more, v) ==
            Returns(n, v, set("a", i32, lit(0)) \o
                    <<forRange(rev, now, end, <<expr(opasg("+", a, nr))>> \o more), return(<<call(2, <<a>>)>>)>>, <<Twice>>) IN
    {sum(FALSE, lit(0), lit(5), <<>>, 20), sum(TRUE, un("-", two), lit(5), <<>>, 14),
     sum(FALSE, one, call(2, <<two>>), <<>>, 12),
     sum(FALSE, lit(0), lit(9), <<if(bin("==", nr, lit(3)), <<break>>, <<continue>>)>>, 12),
     sum(TRUE, lit(0), lit(3), <<forRange(FALSE, nr, lit(3), <<expr(opasg("+", a, lit(10)))>>)>>, 126)}
Switches(n) ==
    LET out(v) == expr(asg(a, lit(v)))
        hit == expr(incr(a, TRUE, 1))
        on(x, cases, default, v) ==
            Returns(n, v, set("i", i32, lit(x)) \o set("a", i32, lit(0)) \o
                          <<switch(i, cases, default), return(<<call(2, <<a>>)>>)>>, <<Twice>>)
        cases == <<case(1, <<out(1)>>, FALSE), case(5, <<expr(asg(a, call(2, <<i>>)))>>, FALSE),
                   case(7, <<if(one, <<break>>, <<>>), out(7)>>, FALSE), case(8, <<return(<<two>>)>>, FALSE)>>
        chain == <<case(1, <<hit>>, TRUE), case(2, <<hit>>, TRUE)>> IN
    {on(p[1], cases, <<out(10)>>, p[2]) : p \in {<<1, 2>>, <<5, 20>>, <<7, 0>>, <<8, 2>>, <<9, 20>>}}
    \cup {on(1, chain, <<hit>>, 6), on(2, chain, <<hit>>, 4), on(3, chain, <<>>, 0)}

\* tests/flow/defer.btb: every block that is deferred writes a digit when it runs.
Digit(e, n) == expr(asg(e, bin("+", bin("*", e, lit(10)), lit(n))))
Defers(n) ==
    LET out(v, f, body) == Returns(n, v, set("a", i32, lit(0)) \o <<expr(call(2, <<ref(a)>>)), return(<<a>>)>>, <<fn(f, <<>>, body)>>)
        here == deref(param(1), i32)
        dig(k) == Digit(here, k)
        later(k) == defer(<<dig(k)>>)
        function(v, body) == out(v, <<ptr>>, body)
        nested(stops, exit) == set("i", i32, lit(0)) \o
            <<later(9),
              while(bin("<", i, one),
                <<expr(incr(i, FALSE, 1)), later(4),
                  while(one, <<later(3), block(<<later(2), if(bin("==", i, lit(stops)), <<later(1), exit>>, <<>>)>>),
                               later(5), dig(6), break>>),
                  dig(7)>>)>> IN
    {\* The end of a function, a return in a branch, and a block that was left before.
     function(5432, <<later(2), later(3), block(<<dig(5), later(4)>>)>>),
     function(5321, <<later(1), later(2), if(bin(">", one, lit(0)), <<dig(5), later(3), return(<<>>)>>, <<>>), dig(4)>>),
     function(312, <<block(<<later(3)>>), later(2), if(here, <<later(1), return(<<>>)>>, <<dig(4)>>)>>),
     \* Loops: each exit runs what it leaves, in the loop and in the function.
     function(123749, nested(1, break)), function(2653749, nested(2, break)), function(12349, nested(1, return(<<>>))),
     Returns(n, 1212, set("a", i32, lit(0)) \o
             <<forRange(FALSE, lit(0), two, <<defer(<<Digit(a, 2)>>), block(<<defer(<<Digit(a, 1)>>), continue>>)>>),
               return(<<a>>)>>, <<>>),
     \* What is returned is evaluated after the blocks have run.
     Returns(n, 57, set("a", i32, lit(5)) \o <<defer(<<Digit(a, 7)>>), return(<<a>>)>>, <<>>)}

Statements == Nested \cup Precedences \cup UNION {Calls(n) \cup Defers(n) \cup Ranges(n) \cup Switches(n) \cup Memory(n) \cup Busies(n)
                                 \cup {Loop(n, e) : e \in {break, continue, expr(one)}}
                                 \cup {Branches(n, x) : x \in 0..3} : n \in 0..2}

AllPrograms == {TwoValues} \cup Expressions \cup Statements
=============================================================================
