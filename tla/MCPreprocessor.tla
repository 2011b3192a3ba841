--------------------------- MODULE MCPreprocessor ---------------------------
(***************************************************************************)
(* Files with every chain of #if, #elif and #else over four conditions,    *)
(* nested in each branch, some of them wrong; and every call of ten macros *)
(* with up to two arguments, or three simple ones, out of seven, some in   *)
(* branches.                                                               *)
(***************************************************************************)
EXTENDS MacroDefinition, TLC

Directive(kind, name) ==
    [kind |-> kind, name |-> name, not |-> FALSE, parameters |-> FALSE, params |-> <<>>, body |-> <<>>, to |-> 0]
Tok(name) == Directive("token", name)
Toks(s) == [i \in 1..Len(s) |-> Tok(s[i])]
IfElse(kind, c) == [Directive(kind, c.name) EXCEPT !.not = c.not]
Define(name, params, body) ==
    [Directive("macro", name) EXCEPT !.parameters = params # <<>>, !.params = params, !.body = body]
Imports(id) == [Directive("import", "file") EXCEPT !.to = id]
Program(file) ==
    [items |-> file,
     macros |-> <<"FAR" :> Root(FALSE, 0 :> Blank, <<>>), "NEAR" :> Root(FALSE, 0 :> Blank, <<>>)>>,
     deps |-> <<<<[to |-> 3, disabled |-> FALSE]>>, <<>>>>]

Conditions == {[name |-> "YES", not |-> FALSE], [name |-> "NO", not |-> FALSE],
               [name |-> "YES", not |-> TRUE], [name |-> "FAR", not |-> FALSE]}
Yes == [name |-> "YES", not |-> FALSE]
Inner(c) == {<<Tok("t")>>, <<IfElse("if", c), Tok("u"), Directive("else", ""), Tok("v"), Directive("endif", "")>>}
Contents(c) == Inner(c) \cup {<<Imports(2)>>, <<Define("NO", <<>>, <<"n">>), Tok("NO")>>,
                              <<IfElse("if", c), Tok("u"), IfElse("elif", Yes), Imports(3), Directive("endif", "")>>}
Header == <<Define("YES", <<>>, <<"y">>)>>
Chains ==
    UNION {{Header \o <<IfElse("if", a)>> \o t \o <<IfElse("elif", b)>> \o u \o <<Directive("else", "")>> \o v
            \o <<Directive("endif", ""), Tok("NO")>> : t \in Contents(b), u \in Inner(a), v \in Contents(a)} :
           <<a, b>> \in Conditions \X Conditions}
    \cup {<<Imports(2)>> \o Header \o <<IfElse("if", a), Tok("t"), IfElse("elif", b), Tok("u"), IfElse("elif", c), Tok("v"),
            Directive("endif", "")>> : <<a, b, c>> \in Conditions \X Conditions \X Conditions}
Wrong ==
    {Header \o <<IfElse("if", a), Tok("t"), Directive("else", ""), Tok("u")>> \o last :
        <<a, last>> \in Conditions \X
            {<<>>, <<Directive("else", ""), Tok("v"), Directive("endif", "")>>,
             <<IfElse("elif", Yes), Tok("v"), Directive("endif", "")>>,
             <<Directive("endif", ""), Directive("endif", ""), Directive("else", "")>>,
             <<Directive("endif", ""), IfElse("elif", Yes), Tok("v")>>}}
    \cup {Header \o <<Define("YES", <<"x">>, <<"x">>)>>}

Defines ==
    <<Define("add", <<"x", "...">>, <<"x", "+", "add", "(", "...", ")">>),
      Define("add", <<"x">>, <<"x">>),
      Define("swap", <<"x", "...", "y">>, <<"y", "...", "x">>),
      Define("two", <<"x", "y">>, <<"x", "<", "y">>),
      Define("id", <<"x">>, <<"x">>),
      Define("call", <<"...">>, <<"[", "two", "(", "...", ")", "]">>),
      Define("nest", <<"x">>, <<"add", "(", "id", "(", "x", ")", ",", "one", ")">>),
      Define("all", <<"x">>, <<"two", "(", "#unwrap", "PAIR", ")", "x">>),
      Define("PAIR", <<>>, <<"a", ",", "id", "(", "b", ")">>),
      Define("forever", <<>>, <<"f", "forever">>)>>
Args == {<<"a">>, <<"id", "(", "a", ")">>, <<"(", "a", ",", "b", ")">>, <<"two", " (", "PAIR", ",", "x", ")">>,
         <<"PAIR">>, <<"#unwrap", "PAIR">>, <<"add", "(", "a", ",", "b", ")">>}
Call(name, args) ==
    <<name, "(">> \o FlattenSeq([i \in 1..Len(args) |-> args[i] \o (IF i < Len(args) THEN <<",">> ELSE <<>>)]) \o <<")", "z">>
Calls ==
    {Defines \o Toks(Call(name, args)) :
        name \in {"add", "swap", "two", "id", "call", "nest", "all"},
        args \in UNION {[1..n -> Args] : n \in 0..2} \cup [1..3 -> {<<"a">>, <<"PAIR">>}]}
    \cup {Defines \o Toks(s) : s \in {<<"forever", "z">>, <<"id", " (", "a", ")">>, <<"PAIR", "(", "a", ")">>, <<"id", "(", "a">>}}
Branched ==
    {Defines \o <<IfElse("if", a)>> \o Toks(Call(name, <<x>>)) \o Toks(<<"id", "(", "a", ")">>) \o <<Directive("else", "")>>
     \o Toks(Call("id", <<x>>)) \o <<Imports(2), Directive("endif", "")>> :
        <<a, name, x>> \in {Yes, [name |-> "id", not |-> FALSE]} \X {"add", "two", "call", "nest", "all"} \X Args}

MCPrograms == {Program(file) : file \in Chains \cup Wrong \cup Calls \cup Branched}
MCPunctuation == {"(", " (", ")", "[", "]", ",", "+", "<", "#unwrap"}
=============================================================================
