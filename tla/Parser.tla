------------------------------- MODULE Parser -------------------------------
(***************************************************************************)
(* What ParseContext makes of the tokens of a function: operands and       *)
(* operators become trees by means of two stacks, and the blocks of defer  *)
(* are copied to every place at which their scope is left.                 *)
(*                                                                         *)
(* A token is [t, of]: an operand with its node, an operator, or brackets  *)
(* with what is between them.  A pointer's dereference, a "*" too, carries *)
(* the type of what it points to, which the type checker finds out.        *)
(***************************************************************************)
EXTENDS Integers, Sequences, SequencesExt

\* Binary operators, and those of the same tokens before an operand.
IsOp == ("+" :> "ADD") @@ ("-" :> "SUB") @@ ("*" :> "MUL") @@ ("/" :> "DIV") @@ ("%" :> "MOD")
        @@ ("&" :> "BAND") @@ ("|" :> "BOR") @@ ("^" :> "BXOR") @@ ("<<" :> "BLSHIFT") @@ (">>" :> "BRSHIFT")
        @@ ("<" :> "LT") @@ (">" :> "GT") @@ ("==" :> "EQ") @@ ("!=" :> "NEQ") @@ ("<=" :> "LTE") @@ (">=" :> "GTE")
        @@ ("&&" :> "LAND") @@ ("||" :> "LOR") @@ (".." :> "RANGE")
UnaryOps == ("&" :> "REFER") @@ ("*" :> "DEREF") @@ ("!" :> "LNOT") @@ ("~" :> "BNOT") @@ ("-" :> "NEG")
            @@ ("++" :> "PRE_INCREMENT") @@ ("--" :> "PRE_DECREMENT") @@ ("cast" :> "CAST")
IsSingleOp(op) == op \in {UnaryOps[t] : t \in DOMAIN UnaryOps}
OpPrecedence(op) ==
    CASE op = "ASSIGN" -> 1
      [] op = "LOR" -> 2
      [] op = "LAND" -> 3
      [] op \in {"LT", "GT", "LTE", "GTE", "EQ", "NEQ"} -> 5
      [] op = "RANGE" -> 6
      [] op = "ADD" -> 8
      [] op = "SUB" -> 9
      [] op = "MOD" -> 10
      [] op = "MUL" -> 11
      [] op = "DIV" -> 12
      [] op \in {"BAND", "BOR", "BXOR", "BLSHIFT", "BRSHIFT"} -> 13
      [] IsSingleOp(op) -> 20

-----------------------------------------------------------------------------
(***************************************************************************)
(* parseExpression.  A state s has the operands and operators read so far, *)
(* and apart from them the types of the casts, of the dereferences and the *)
(* operations of the assignments among the operators.                      *)
(***************************************************************************)
Reading == [values |-> <<>>, ops |-> <<>>, casts |-> <<>>, derefs |-> <<>>, assigns |-> <<>>, expectOperator |-> FALSE]
Increment(v, post, by) == [k |-> "incr", l |-> v, post |-> post, by |-> by]

\* The node of an operator: a single one has the last operand, a binary one the
\* last two.  *a++ is (*a)++.
SingleNode(op, s) ==
    LET v == Last(s.values) IN
    CASE op = "CAST" -> [k |-> "cast", l |-> v, t |-> Last(s.casts)]
      [] op = "REFER" -> [k |-> "ref", l |-> v]
      [] op = "DEREF" ->
            IF v.k = "incr" /\ v.post THEN [v EXCEPT !.l = [k |-> "deref", l |-> v.l, t |-> Last(s.derefs)]]
            ELSE [k |-> "deref", l |-> v, t |-> Last(s.derefs)]
      [] op = "PRE_INCREMENT" -> Increment(v, FALSE, 1)
      [] op = "PRE_DECREMENT" -> Increment(v, FALSE, -1)
      [] OTHER -> [k |-> "un", op |-> op, l |-> v]
BinaryNode(op, s) ==
    LET r == Last(s.values)
        l == Last(Front(s.values)) IN
    CASE op = "ASSIGN" ->
            IF Last(s.assigns) = "" THEN [k |-> "asg", l |-> l, r |-> r]
            ELSE [k |-> "opasg", op |-> Last(s.assigns), l |-> l, r |-> r]
      [] op = "RANGE" -> [now |-> l, end |-> r]
      [] OTHER -> [k |-> "bin", op |-> op, l |-> l, r |-> r]

\* Reading goes on: the operator before the last one may be applied, unless the
\* last one binds its operand tighter.
LeftLast(op1, op2) == IF IsSingleOp(op1) THEN ~IsSingleOp(op2) ELSE OpPrecedence(op1) > OpPrecedence(op2)
Tighter(op1, op2) == IF IsSingleOp(op1) THEN ~IsSingleOp(op2) ELSE OpPrecedence(op1) >= OpPrecedence(op2)
Applies(s, ending) ==
    LET n == Len(s.ops) IN
    /\ s.values # <<>>
    /\ IF n >= 2 /\ ~ending
       THEN (IsSingleOp(s.ops[n - 1]) \/ Len(s.values) >= 2) /\ Tighter(s.ops[n - 1], s.ops[n])
       ELSE ending /\ n > 0
Applied(s, ending) ==
    LET at == IF Len(s.ops) >= 2 /\ ~ending THEN Len(s.ops) - 1 ELSE Len(s.ops)
        op == s.ops[at]
        without(list, uses) == IF uses THEN Front(list) ELSE list
        rest == [s EXCEPT !.ops = RemoveAt(@, at), !.casts = without(@, op = "CAST"),
                          !.derefs = without(@, op = "DEREF"), !.assigns = without(@, op = "ASSIGN")] IN
    IF IsSingleOp(op) THEN [rest EXCEPT !.values = Append(Front(@), SingleNode(op, s))]
    ELSE [rest EXCEPT !.values = Append(Front(Front(@)), BinaryNode(op, s))]
\* As long as one applies; each uses up an operator.
Folded(s, ending) ==
    FoldLeft(LAMBDA acc, i : IF Applies(acc, ending) THEN Applied(acc, ending) ELSE acc, s, s.ops)

Operand(v, s) == Folded([s EXCEPT !.values = Append(@, v), !.expectOperator = TRUE], FALSE)
Operator(op, s) == Folded([s EXCEPT !.ops = Append(@, op), !.expectOperator = FALSE], FALSE)
OnLast(v, s) == [s EXCEPT !.values = Append(Front(@), v)]
\* A minus before a number belongs to the number.
Literal(v, s) ==
    IF s.ops # <<>> /\ Last(s.ops) = "NEG"
    THEN Operand([v EXCEPT !.n = -@], [s EXCEPT !.ops = Front(@)])
    ELSE Operand(v, s)

RECURSIVE ParseExpression(_)
AfterOperand(tok, s) ==
    LET last == Last(s.values) IN
    CASE tok.t = "[" -> OnLast([k |-> "index", l |-> last, i |-> ParseExpression(tok.of)], s)
      [] tok.t = "++" -> OnLast(Increment(last, TRUE, 1), s)
      [] tok.t = "--" -> OnLast(Increment(last, TRUE, -1), s)
      [] tok.t = "=" -> Operator("ASSIGN", [s EXCEPT !.assigns = Append(@, "")])
      [] tok.t = "op=" -> Operator("ASSIGN", [s EXCEPT !.assigns = Append(@, IsOp[tok.of])])
      [] tok.t \in DOMAIN IsOp -> Operator(IsOp[tok.t], s)
BeforeOperand(tok, s) ==
    CASE tok.t \in DOMAIN UnaryOps ->
            LET t == [s EXCEPT !.ops = Append(@, UnaryOps[tok.t])] IN
            CASE tok.t = "cast" -> [t EXCEPT !.casts = Append(@, tok.of)]
              [] tok.t = "*" -> [t EXCEPT !.derefs = Append(@, tok.of)]
              [] OTHER -> t
      [] tok.t = "(" -> Operand(ParseExpression(tok.of), s)
      [] tok.t = "call" ->
            Operand([k |-> "call", f |-> tok.of.f,
                     args |-> [i \in 1..Len(tok.of.args) |-> ParseExpression(tok.of.args[i])]], s)
      [] tok.t = "number" -> Literal(tok.of, s)
      [] tok.t = "name" -> Operand(tok.of, s)
ParseExpression(toks) ==
    LET read == FoldLeft(LAMBDA s, tok : IF s.expectOperator THEN AfterOperand(tok, s) ELSE BeforeOperand(tok, s),
                         Reading, toks) IN
    Folded(read, TRUE).values[1]

-----------------------------------------------------------------------------
(***************************************************************************)
(* parseBody and parseFlow.  fs is the FunctionScope: the defers to insert *)
(* before a return, for each loop around the statement those to insert     *)
(* before a break or continue, too, and the nodes created so far.          *)
(***************************************************************************)
InLoop(fs) == fs.loopScopes # <<>>
Deferred(node, fs) ==
    IF InLoop(fs) THEN [fs EXCEPT !.loopScopes[Len(fs.loopScopes)] = Append(@, node)]
    ELSE [fs EXCEPT !.defers = Append(@, node)]
\* Copies to insert before a statement, the last defer first.
AddDefers(s, fs) ==
    CASE s.k = "return" -> FlattenSeq(Reverse([j \in 1..Len(fs.loopScopes) |-> Reverse(fs.loopScopes[j])]))
                           \o Reverse(fs.defers)
      [] s.k \in {"break", "continue"} /\ InLoop(fs) -> Reverse(Last(fs.loopScopes))
      [] OTHER -> <<>>

RECURSIVE ParseBody(_, _)
\* A statement and the scope after it.
Inner(s, fs, body) == [s |-> [s EXCEPT !.body = body.s], fs |-> body.fs]
ParseLoop(s, fs) ==
    LET body == ParseBody(s.body, [fs EXCEPT !.loopScopes = Append(@, <<>>)]) IN
    [s |-> [s EXCEPT !.e = ParseExpression(@), !.body = body.s], fs |-> [body.fs EXCEPT !.loopScopes = Front(@)]]
ParseIf(s, fs) ==
    LET then == ParseBody(s.then, fs)
        else == ParseBody(s.else, then.fs) IN
    [s |-> [s EXCEPT !.e = ParseExpression(@), !.then = then.s, !.else = else.s], fs |-> else.fs]
\* A switch is no loop to the parser.
ParseCase(acc, case) ==
    LET body == ParseBody(case.body, acc.fs) IN
    [s |-> Append(acc.s, [case EXCEPT !.value = ParseExpression(@), !.body = body.s]), fs |-> body.fs]
ParseDefault(s, cases) ==
    LET default == ParseBody(s.default, cases.fs) IN
    [s |-> [s EXCEPT !.cases = cases.s, !.default = default.s], fs |-> default.fs]
ParseSwitch(s, fs) ==
    ParseDefault([s EXCEPT !.e = ParseExpression(@)], FoldLeft(ParseCase, [s |-> <<>>, fs |-> fs], s.cases))
ParseDefer(s, fs) ==
    LET body == ParseBody(s.body, fs) IN
    [s |-> [k |-> "defer", body |-> body.s, node |-> body.fs.nodes + 1], fs |-> [body.fs EXCEPT !.nodes = @ + 1]]
ParseStatement(s, fs) ==
    CASE s.k = "if" -> ParseIf(s, fs)
      [] s.k \in {"while", "for"} -> ParseLoop(s, fs)
      [] s.k = "switch" -> ParseSwitch(s, fs)
      [] s.k = "defer" -> ParseDefer(s, fs)
      [] s.k = "body" -> Inner(s, fs, ParseBody(s.body, fs))
      [] s.k = "return" -> [s |-> [s EXCEPT !.es = [i \in DOMAIN @ |-> ParseExpression(@[i])]], fs |-> fs]
      [] s.k \in {"let", "expr"} -> [s |-> [s EXCEPT !.e = ParseExpression(@)], fs |-> fs]
      [] s.k \in {"declare", "break", "continue"} -> [s |-> s, fs |-> fs]

\* One more statement of a body: near are the defers of this body.
Add(acc, read) ==
    IF read.s.k = "defer"
    THEN [acc EXCEPT !.near = Append(@, read.s), !.fs = Deferred(read.s, read.fs)]
    ELSE [acc EXCEPT !.s = (@ \o AddDefers(read.s, read.fs)) \o <<read.s>>, !.fs = read.fs]
\* At the end of a body come its own defers, which later exits of the function or
\* of the loop no longer run.
Left(fs, near, size) ==
    LET nodes == {near[i].node : i \in DOMAIN near}
        outside(list) == SelectSeq(list, LAMBDA d : d.node \notin nodes) IN
    [fs EXCEPT !.defers = SubSeq(@, 1, size),
               !.loopScopes = IF @ = <<>> THEN @ ELSE Append(Front(@), outside(Last(@)))]
Close(read, size) == [s |-> read.s \o Reverse(read.near), fs |-> Left(read.fs, read.near, size)]
ParseBody(statements, fs) ==
    Close(FoldLeft(LAMBDA acc, s : Add(acc, ParseStatement(s, acc.fs)), [s |-> <<>>, near |-> <<>>, fs |-> fs], statements),
          Len(fs.defers))

ParseFunction(f) == [f EXCEPT !.body = ParseBody(@, [defers |-> <<>>, loopScopes |-> <<>>, nodes |-> 0]).s]
Parse(fns) == [i \in 1..Len(fns) |-> ParseFunction(fns[i])]
=============================================================================
