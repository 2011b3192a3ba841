-------------------------- MODULE MacroDefinition --------------------------
(***************************************************************************)
(* What is meant by a macro: a call is replaced by the body of the macro   *)
(* with as many parameters, in which parameters are replaced by evaluated  *)
(* arguments and calls likewise.                                           *)
(***************************************************************************)
EXTENDS Preprocessor

Closing(s) ==
    LET depth(k) == Cardinality({j \in 1..k : s[j] \in Opens \cup {"[", "{"}})
                    - Cardinality({j \in 1..k : s[j] \in {")", "]", "}"}})
    IN  CHOOSE k \in 1..Len(s) : depth(k) = 0 /\ \A j \in 1..k - 1 : depth(j) # 0
\* The lists between the commas that are not in brackets (flat: between all commas).
Split(s, flat) ==
    LET depth(k) == IF flat THEN 0 ELSE Cardinality({j \in 1..k : s[j] \in Opens \cup {"[", "{"}})
                                        - Cardinality({j \in 1..k : s[j] \in {")", "]", "}"}})
        commas == SetToSortSeq({k \in 1..Len(s) : s[k] = "," /\ depth(k) = 0}, <)
        ends == <<0>> \o commas \o <<Len(s) + 1>>
    IN  [i \in 1..Len(ends) - 1 |-> SubSeq(s, ends[i] + 1, ends[i + 1] - 1)]
\* The lists of tokens that the parameters stand for.
Bindings(params, args) ==
    LET rest == IF Contains(params, "...") THEN ParamIndex([params |-> params], "...") ELSE Len(params) + 1
        after == Len(params) - rest
    IN  [p \in {params[i] : i \in DOMAIN params} |->
            LET i == ParamIndex([params |-> params], p) IN
            IF i < rest THEN <<args[i]>>
            ELSE IF i = rest THEN SubSeq(args, rest, Len(args) - after)
            ELSE <<args[Len(args) - (Len(params) - i)]>>]

RECURSIVE Evaluated(_, _)
Evaluated(s, bound) ==
    LET Arguments(list) ==
            IF list = <<"...">> /\ "..." \in DOMAIN bound THEN bound["..."]
            ELSE IF list[1] = "#unwrap" THEN Split(Evaluated(Tail(list), bound), TRUE)
            ELSE <<Evaluated(list, bound)>>
        name == s[1]
        with == RootOf(name).has_parameters /\ Len(s) > 1 /\ s[2] \in Opens
        close == IF with THEN Closing(Tail(s)) + 1 ELSE 1
        args == IF close <= 3 THEN <<>>
                ELSE LET lists == Split(SubSeq(s, 3, close - 1), FALSE)
                     IN  FlattenSeq([i \in 1..Len(lists) |-> Arguments(lists[i])])
        macro == MatchArgCount(RootOf(name), Len(args))
    IN  IF s = <<>> THEN <<>>
        ELSE IF name \in DOMAIN bound THEN Joined(bound[name]) \o Evaluated(Tail(s), bound)
        ELSE IF Identifier(name) /\ MatchMacro(name) # 0
             THEN (IF macro = <<>> THEN <<"no such macro">> ELSE Evaluated(macro[1].body, Bindings(macro[1].params, args)))
                  \o Evaluated(SubSeq(s, close + 1, Len(s)), bound)
        ELSE <<name>> \o Evaluated(Tail(s), bound)

\* The stack of layers (Preprocessor.cpp:1487) writes what the definition of a
\* macro says, whatever macros, arguments and bodies call what others.
EvaluatesAsDefined ==
    history.call # <<>> /\ context.layers = <<>> /\ ~context.failed =>
        SubSeq(out, context.start + 1, Len(out)) =
            Evaluated([i \in 1..context.head - history.call[1] |-> items[history.call[1] + i - 1].name], <<>>)
=============================================================================
