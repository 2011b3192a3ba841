---------------------------- MODULE Preprocessor ----------------------------
(***************************************************************************)
(* The preprocessor goes through the tokens of a file twice.  The first    *)
(* time (evaluateTokens is false) it collects macros and imports, the      *)
(* second time it evaluates conditions and macros and writes the tokens    *)
(* that are left.  Macros are evaluated by a stack of layers: a body that  *)
(* is copied, or the arguments of the layer below, which is to come next.  *)
(*                                                                         *)
(* An item of a file is a directive or a token; a token is a string.  Not  *)
(* here: #global_macro, #link, #load, #function_insert, the directives     *)
(* that stand for a number or a string, ## and #quoted, white space.       *)
(***************************************************************************)
EXTENDS Integers, Sequences, SequencesExt, FiniteSets

CONSTANTS
    Programs,       \* a file with what it imports: [items, macros, deps]
    Punctuation,    \* the tokens that are not identifiers
    RecLimit        \* PREPROC_REC_LIMIT

\* A directive or a token: its kind, the token or the macro it is about (name,
\* and not for #if !name), what a macro is defined as, which import is meant.
ItemType == [kind : {"token", "if", "elif", "else", "endif", "import", "macro"}, name : STRING, not : BOOLEAN,
             parameters : BOOLEAN, params : Seq(STRING), body : Seq(STRING), to : Nat]
Dependency == [to : Nat, disabled : BOOLEAN]
ASSUME ProgramsType ==
    \A p \in Programs : /\ p.items \in Seq(ItemType) /\ Len(p.macros) \in Nat
                        /\ p.deps \in Seq(Seq(Dependency)) /\ Len(p.deps) = Len(p.macros)

VARIABLES
    items,      \* the file, import number 1
    macros,     \* import -> name -> MacroRoot
    deps,       \* import -> its dependencies: [to, disabled]
    context,    \* PreprocContext
    out,        \* the tokens written
    history     \* the items that were looked at, the conditions that held, the last evaluation
vars == <<items, macros, deps, context, out, history>>

File == 1
Context(evaluateTokens) ==
    [evaluateTokens |-> evaluateTokens, head |-> 1, frames |-> <<>>, layers |-> <<>>, cached |-> <<>>,
     start |-> 0, failed |-> FALSE, ended |-> FALSE]
Nothing == [kept |-> {}, skipped |-> {}, held |-> {}, call |-> <<>>]

Init ==
    \E p \in Programs :
        /\ items = p.items
        /\ macros = [i \in 1..Len(p.macros) + 1 |-> IF i = File THEN <<>> ELSE p.macros[i - 1]]
        /\ deps = [i \in 1..Len(p.macros) + 1 |-> IF i = File THEN <<>> ELSE p.deps[i - 1]]
        /\ context = Context(FALSE) /\ out = <<>> /\ history = Nothing

-----------------------------------------------------------------------------
(***************************************************************************)
(* Macros.  A root has a macro for each number of arguments and one with a *)
(* variadic parameter ("..."), which comes with an empty one for none.     *)
(***************************************************************************)
IsVariadic(macro) == Contains(macro.params, "...")
Blank == [params |-> <<>>, body |-> <<>>]
Blanks(macro) == IF IsVariadic(macro) /\ Len(macro.params) > 1 THEN 0 :> Blank ELSE <<>>
Root(parameters, specific, variadic) ==
    [has_parameters |-> parameters, specific |-> specific, variadic |-> variadic]

\* create_or_get_macro and insertCertainMacro
Inserted(root, macro) ==
    LET blanks == root.specific @@ Blanks(macro) IN
    IF IsVariadic(macro) THEN [root EXCEPT !.specific = blanks, !.variadic = <<macro>>]
    ELSE [root EXCEPT !.specific = (Len(macro.params) :> macro) @@ blanks]

\* The imports a macro is looked up in, in order, with the dependency that led to each.
Reached ==
    LET Visit(found, head) ==
            LET id == found[head].id
                next == [nr \in 1..Len(deps[id]) |-> [id |-> deps[id][nr].to, from |-> id, nr |-> nr]]
                IsNew(d) == \A i \in 1..Len(found) : found[i].id # d.id
            IN  IF head > Len(found) THEN found ELSE found \o SelectSeq(next, IsNew)
    IN  FoldLeft(Visit, <<[id |-> File, from |-> 0, nr |-> 0]>>, [i \in 1..Len(deps) |-> i])
\* A disabled dependency hides one import, not those that were reached through it.
Searched ==
    LET Enabled(d) == d.from = 0 \/ ~deps[d.from][d.nr].disabled
    IN  SelectSeq(Reached, Enabled)

\* matchMacro: the import whose root it is, 0 for none.  A root that was found stays.
MatchMacro(name) ==
    IF name \in DOMAIN context.cached THEN context.cached[name]
    ELSE LET at == {i \in 1..Len(Searched) : name \in DOMAIN macros[Searched[i].id]} IN
         IF at = {} THEN 0 ELSE Searched[CHOOSE i \in at : \A j \in at : i <= j].id
Cache(name) == IF MatchMacro(name) = 0 THEN context.cached ELSE (name :> MatchMacro(name)) @@ context.cached
RootOf(name) == macros[MatchMacro(name)][name]

MatchArgCount(root, count) ==
    IF count \in DOMAIN root.specific THEN <<root.specific[count]>>
    ELSE IF root.variadic # <<>> /\ Len(root.variadic[1].params) - 1 <= count THEN root.variadic
    ELSE <<>>

\* The arguments that a parameter stands for.
ParamIndex(macro, p) == CHOOSE i \in 1..Len(macro.params) : macro.params[i] = p
Chosen(macro, args, p) ==
    LET index == ParamIndex(macro, p)
        more == Len(args) - Len(macro.params)
        rest == IF IsVariadic(macro) THEN ParamIndex(macro, "...") ELSE Len(macro.params)
    IN  IF index < rest \/ ~IsVariadic(macro) THEN <<args[index]>>
        ELSE IF index = rest THEN SubSeq(args, rest, rest + more)
        ELSE <<args[index + more]>>

-----------------------------------------------------------------------------
(* The directives.  A frame is a call of parseIf. *)

Item == items[context.head]
Reads(kind) ==
    ~context.ended /\ context.layers = <<>> /\ context.head <= Len(items) /\ Item.kind = kind
Frame == Last(context.frames)
InIf == context.frames # <<>>
Active == InIf => Frame.active
Outer == InIf /\ Frame.depth = 0
Moved == [context EXCEPT !.head = @ + 1]
WithFrame(f) == [Moved EXCEPT !.frames = Append(Front(@), f)]
Holds(item) == (MatchMacro(item.name) # 0) # item.not

\* What is noted of the second time.
Looks(kept) ==
    history' = IF ~context.evaluateTokens THEN history
               ELSE IF kept THEN [history EXCEPT !.kept = @ \cup {context.head}, !.call = <<>>]
               ELSE [history EXCEPT !.skipped = @ \cup {context.head}, !.call = <<>>]
Passes == history' = [history EXCEPT !.call = <<>>]
Asks ==
    /\ context.evaluateTokens
    /\ history' = [history EXCEPT !.kept = IF Item.kind = "if" THEN @ \cup {context.head} ELSE @,
                                  !.held = IF Holds(Item) THEN @ \cup {context.head} ELSE @, !.call = <<>>]

Skip ==
    /\ \E kind \in {"token", "macro", "import"} : Reads(kind)
    /\ ~Active /\ (Item.kind = "import" => context.evaluateTokens)
    /\ context' = Moved /\ Looks(FALSE) /\ UNCHANGED <<items, macros, deps, out>>

NewFrame(active) == [active |-> active, complete_inactive |-> FALSE, had_else |-> FALSE, depth |-> 0]
If ==
    /\ Reads("if")
    /\ \/ /\ Active /\ context.evaluateTokens /\ Asks
          /\ context' = [Moved EXCEPT !.frames = Append(@, NewFrame(Holds(Item))), !.cached = Cache(Item.name)]
       \/ /\ Active /\ ~context.evaluateTokens /\ Looks(TRUE)
          /\ context' = [Moved EXCEPT !.frames = Append(@, NewFrame(FALSE))]
       \/ ~Active /\ Looks(FALSE) /\ context' = WithFrame([Frame EXCEPT !.depth = @ + 1])
    /\ UNCHANGED <<items, macros, deps, out>>

\* complete_inactive: a branch has been taken already.
Elif ==
    /\ Reads("elif") /\ InIf
    /\ LET wrong == Outer /\ Frame.had_else
           complete == Frame.complete_inactive \/ wrong
           c == [context EXCEPT !.failed = @ \/ (wrong /\ context.evaluateTokens)]
       IN  \/ /\ Outer /\ ~Frame.active /\ ~complete /\ Asks
              /\ context' = [c EXCEPT !.head = @ + 1, !.cached = Cache(Item.name),
                                      !.frames = Append(Front(@), [Frame EXCEPT !.active = Holds(Item)])]
           \/ Outer /\ ~Frame.active /\ ~complete /\ ~context.evaluateTokens /\ context' = Moved /\ Looks(FALSE)
           \/ /\ Outer /\ (Frame.active \/ complete) /\ Passes
              /\ context' = [c EXCEPT !.head = @ + 1,
                                      !.frames = Append(Front(@), [Frame EXCEPT !.active = FALSE, !.complete_inactive = TRUE])]
           \/ ~Outer /\ context' = Moved /\ Passes
    /\ UNCHANGED <<items, macros, deps, out>>

FlipsAnyway == Outer
Flips == Outer /\ ~Frame.complete_inactive
\* The first time nothing is active until an #else, whatever the condition is.
Else ==
    /\ Reads("else") /\ InIf
    /\ context' = IF ~Flips THEN Moved
                  ELSE [WithFrame([Frame EXCEPT !.active = ~@, !.had_else = TRUE,
                                                !.complete_inactive = @ \/ Frame.had_else])
                        EXCEPT !.failed = @ \/ (Frame.had_else /\ context.evaluateTokens)]
    /\ Passes /\ UNCHANGED <<items, macros, deps, out>>

EndIf ==
    /\ Reads("endif") /\ InIf
    /\ context' = IF Outer THEN [Moved EXCEPT !.frames = Front(@)] ELSE WithFrame([Frame EXCEPT !.depth = @ - 1])
    /\ Passes /\ UNCHANGED <<items, macros, deps, out>>

\* parseImport and addDependency: the first time those in an #if are disabled.
Import ==
    /\ Reads("import") /\ (Active \/ ~context.evaluateTokens)
    /\ LET dep == [to |-> Item.to, disabled |-> InIf /\ ~context.evaluateTokens]
           at == {nr \in 1..Len(deps[File]) : deps[File][nr].to = dep.to}
       IN  deps' = [deps EXCEPT ![File] =
                        IF at = {} THEN Append(@, dep) ELSE [nr \in 1..Len(@) |-> IF nr \in at THEN dep ELSE @[nr]]]
    /\ context' = Moved /\ Looks(TRUE) /\ UNCHANGED <<items, macros, out>>

\* A name has parameters or it has none: that it is redefined otherwise is
\* reported with a signal on which parseOne asserts.
Macro ==
    /\ Reads("macro") /\ Active
    /\ LET macro == [params |-> Item.params, body |-> Item.body]
           known == Item.name \in DOMAIN macros[File]
           root == IF known THEN macros[File][Item.name] ELSE Root(Item.parameters, <<>>, <<>>)
       IN  IF root.has_parameters = Item.parameters
           THEN /\ macros' = [macros EXCEPT ![File] = (Item.name :> Inserted(root, macro)) @@ @]
                /\ context' = Moved
           ELSE context' = [context EXCEPT !.failed = TRUE, !.ended = TRUE] /\ UNCHANGED macros
    /\ Looks(TRUE) /\ UNCHANGED <<items, deps, out>>

\* Outside of an #if these are tokens like others.
Stray ==
    /\ Reads("else") \/ Reads("endif")
    /\ ~InIf /\ context' = Moved /\ Looks(TRUE)
    /\ out' = IF context.evaluateTokens THEN Append(out, Item.kind) ELSE out
    /\ UNCHANGED <<items, macros, deps>>

\* After the first time comes the second, with or without errors.
EndOfFile ==
    /\ ~context.ended /\ context.layers = <<>> /\ context.head > Len(items)
    /\ context' = IF context.evaluateTokens THEN [context EXCEPT !.ended = TRUE, !.failed = @ \/ InIf]
                  ELSE [Context(TRUE) EXCEPT !.failed = context.failed \/ InIf]
    /\ UNCHANGED <<items, macros, deps, out, history>>

-----------------------------------------------------------------------------
(***************************************************************************)
(* Layers.  callee is the layer whose arguments the result belongs to, 0   *)
(* when it is written; caller the layer whose body arguments are read from *)
(* and whose parameters they may name, 0 when they are read from the file. *)
(***************************************************************************)
Identifier(token) == token \notin Punctuation
Opens == {"(", " ("}
BodyLayer(name, callee, unwrapped) ==
    [content |-> TRUE, root |-> <<MatchMacro(name), name>>, specific |-> <<>>, head |-> 1, args |-> <<>>,
     callee |-> callee, caller |-> 0, depth |-> 0, unwrapped |-> unwrapped]
ArgLayer(callee, caller) ==
    [content |-> FALSE, root |-> <<>>, specific |-> <<>>, head |-> 1, args |-> <<>>,
     callee |-> callee, caller |-> caller, depth |-> 0, unwrapped |-> FALSE]

\* A macro's name, followed by ( without a space if it is to have arguments.
\* Outside of an #if an #elif is two tokens, the second of which is its name.
Token ==
    /\ (Reads("token") /\ Active) \/ (Reads("elif") /\ ~InIf)
    /\ LET call == context.evaluateTokens /\ Identifier(Item.name) /\ MatchMacro(Item.name) # 0
           next == IF context.head < Len(items) THEN items[context.head + 1] ELSE [kind |-> "end"]
           with == call /\ RootOf(Item.name).has_parameters /\ next.kind = "token" /\ next.name = "("
           written == IF Item.kind = "elif" THEN Append(out, "elif") ELSE out
       IN  /\ context' =
                IF ~call THEN Moved
                ELSE [context EXCEPT !.head = @ + (IF with THEN 2 ELSE 1), !.start = Len(written),
                                     !.cached = Cache(Item.name),
                                     !.layers = <<BodyLayer(Item.name, 0, FALSE)>>
                                                \o (IF with THEN <<ArgLayer(1, 0)>> ELSE <<>>)]
           /\ out' = IF ~context.evaluateTokens THEN out ELSE IF call THEN written ELSE Append(written, Item.name)
           /\ history' = IF ~context.evaluateTokens THEN history
                         ELSE [history EXCEPT !.kept = @ \cup {context.head},
                                              !.call = IF call THEN <<context.head>> ELSE <<>>]
    /\ UNCHANGED <<items, macros, deps>>

Depth == Len(context.layers)
Layer == Last(context.layers)
Evaluates(content) ==
    ~context.ended /\ context.layers # <<>> /\ Depth < RecLimit /\ Layer.content = content
Body(l) == context.layers[l].specific[1].body
End == "end of tokens"
Upcoming(off) ==
    LET at(seq, head) == IF head + off <= Len(seq) THEN seq[head + off] ELSE End IN
    IF Layer.content THEN at(Body(Depth), Layer.head)
    ELSE IF Layer.caller # 0 THEN at(Body(Layer.caller), context.layers[Layer.caller].head)
    ELSE IF context.head + off <= Len(items) THEN items[context.head + off].name ELSE End
Stepped(n) ==
    IF Layer.content THEN [context EXCEPT !.layers[Depth].head = @ + n]
    ELSE IF Layer.caller # 0 THEN [context EXCEPT !.layers[Layer.caller].head = @ + n]
    ELSE [context EXCEPT !.head = @ + n]
Parameters == IF Layer.content THEN Layer ELSE context.layers[Layer.caller]
NamesParameter == (Layer.content \/ Layer.caller # 0) /\ Contains(Parameters.specific[1].params, Upcoming(0))
NamesMacro == Identifier(Upcoming(0)) /\ MatchMacro(Upcoming(0)) # 0

\* add_input_arg, and a token for the last argument
NewArg(args) == Append(args, <<>>)
AddToken(args, token) ==
    IF args = <<>> THEN <<<<token>>>> ELSE Append(Front(args), Append(Last(args), token))
AddTokens(args, tokens) == FoldLeft(AddToken, args, tokens)
AddUnwrapped(args, tokens) ==
    FoldLeft(LAMBDA a, token : IF token = "," THEN NewArg(a) ELSE AddToken(a, token), args, tokens)
Fails(c) == context' = [c EXCEPT !.failed = TRUE, !.ended = TRUE, !.layers = <<>>]
ToCallee(c, args) == context' = [c EXCEPT !.layers[Layer.callee].args = args]
CalleeArgs == context.layers[Layer.callee].args

\* The arguments of the callee with those that a parameter stands for.
Supplied(chosen) ==
    LET Add(args, i) == IF i = 1 THEN AddTokens(args, chosen[i]) ELSE AddTokens(NewArg(args), chosen[i])
        args == FoldLeft(Add, CalleeArgs, [i \in 1..Len(chosen) |-> i])
    IN  IF Upcoming(0) = "..." /\ args # <<>> /\ Last(args) = <<>> THEN Front(args) ELSE args

TooDeep ==
    /\ ~context.ended /\ Depth >= RecLimit
    /\ Fails(context) /\ out' = SubSeq(out, 1, context.start)
    /\ UNCHANGED <<items, macros, deps, history>>

\* The layer of a macro that is named, and that of its arguments.
Enter ==
    LET name == Upcoming(0)
        with == RootOf(name).has_parameters /\ Upcoming(1) \in Opens
        body == BodyLayer(name, Layer.callee, Layer.unwrapped)
        args == ArgLayer(Depth + 1, IF Layer.content THEN Depth ELSE Layer.caller)
        c == [Stepped(IF with THEN 2 ELSE 1) EXCEPT !.layers[Depth].unwrapped = @ /\ Layer.content,
                                                    !.cached = Cache(name)]
    IN  context' = [c EXCEPT !.layers = Append(@, body) \o (IF with THEN <<args>> ELSE <<>>)]

ClosesInner == Layer.depth = 1 /\ Upcoming(0) = ")"
Closes == Layer.depth = 0 /\ Upcoming(0) = ")"
SeparatesAnywhere == Upcoming(0) = ","
Separates == Layer.depth = 0 /\ Upcoming(0) = ","
Nests == IF Upcoming(0) \in Opens \cup {"[", "{"} THEN 1 ELSE IF Upcoming(0) \in {")", "]", "}"} THEN -1 ELSE 0

Argument ==
    /\ Evaluates(FALSE)
    /\ \/ Upcoming(0) = End /\ Fails(context)
       \/ Separates /\ ToCallee([Stepped(1) EXCEPT !.layers[Depth].unwrapped = FALSE], NewArg(CalleeArgs))
       \/ Closes /\ context' = [Stepped(1) EXCEPT !.layers = Front(@)]
       \/ /\ ~Separates /\ ~Closes
          /\ \/ Upcoming(0) = "#unwrap" /\ context' = [Stepped(1) EXCEPT !.layers[Depth].unwrapped = TRUE]
             \/ /\ NamesParameter
                /\ ToCallee([Stepped(1) EXCEPT !.layers[Depth].unwrapped = FALSE],
                            Supplied(Chosen(Parameters.specific[1], Parameters.args, Upcoming(0))))
             \/ ~NamesParameter /\ NamesMacro /\ Enter
             \/ /\ ~NamesParameter /\ ~NamesMacro /\ Upcoming(0) \notin {End, "#unwrap"}
                /\ ToCallee([Stepped(1) EXCEPT !.layers[Depth].depth = @ + Nests], AddToken(CalleeArgs, Upcoming(0)))
    /\ UNCHANGED <<items, macros, deps, out, history>>

\* Which of the macros is meant shows when the arguments are known.
Overload ==
    /\ Evaluates(TRUE) /\ Layer.specific = <<>>
    /\ LET specific == MatchArgCount(macros[Layer.root[1]][Layer.root[2]], Len(Layer.args)) IN
       context' = IF specific = <<>> THEN [context EXCEPT !.failed = TRUE, !.layers = <<>>]
                  ELSE [context EXCEPT !.layers[Depth].specific = specific]
    /\ UNCHANGED <<items, macros, deps, out, history>>

\* Token lists from a body are written or belong to an argument, with a comma
\* after those that are not empty.  Unwrapped, the commas in a list separate
\* arguments, those between lists do not.
Joined(lists) ==
    FoldLeft(LAMBDA s, i : s \o lists[i] \o (IF i < Len(lists) /\ lists[i] # <<>> THEN <<",">> ELSE <<>>),
             <<>>, [i \in 1..Len(lists) |-> i])
Given(lists) ==
    LET Give(args, i) ==
            LET more == IF Layer.unwrapped THEN AddUnwrapped(args, lists[i]) ELSE AddTokens(args, lists[i])
            IN  IF i < Len(lists) /\ lists[i] # <<>> THEN AddToken(more, ",") ELSE more
    IN  FoldLeft(Give, CalleeArgs, [i \in 1..Len(lists) |-> i])
Gives(lists) ==
    IF Layer.callee = 0 THEN context' = Stepped(1) /\ out' = out \o Joined(lists)
    ELSE ToCallee(Stepped(1), Given(lists)) /\ UNCHANGED out
Content ==
    /\ Evaluates(TRUE) /\ Layer.specific # <<>>
    /\ \/ Upcoming(0) = End /\ context' = [context EXCEPT !.layers = Front(@)] /\ UNCHANGED out
       \/ NamesParameter /\ Gives(Chosen(Layer.specific[1], Layer.args, Upcoming(0)))
       \/ ~NamesParameter /\ NamesMacro /\ Enter /\ UNCHANGED out
       \/ Upcoming(0) # End /\ ~NamesParameter /\ ~NamesMacro /\ Gives(<<<<Upcoming(0)>>>>)
    /\ UNCHANGED <<items, macros, deps, history>>

Done == context.ended /\ UNCHANGED vars

Next ==
    \/ Skip \/ If \/ Elif \/ Else \/ EndIf \/ Import \/ Macro \/ Stray \/ Token \/ EndOfFile
    \/ TooDeep \/ Argument \/ Overload \/ Content \/ Done
Spec == Init /\ [][Next]_vars

\* A call ends with its closing parenthesis (parseMacroEvaluation takes whatever
\* is in the file for its arguments): it reads no directive that comes after it.
CallsHoldTokens ==
    context.layers # <<>> => \A i \in context.head..context'.head - 1 : i \in DOMAIN items /\ items[i].kind = "token"
CallsEnd == [][CallsHoldTokens]_vars

-----------------------------------------------------------------------------
(* What is meant: which items the conditions select. *)

Kind(i) == items[i].kind
Level(i) == Cardinality({j \in 1..i : Kind(j) = "if"}) - Cardinality({j \in 1..i - 1 : Kind(j) = "endif"})
Encloses(h, i) ==
    /\ h < i /\ Kind(h) \in {"if", "elif", "else"}
    /\ \A j \in h + 1..i : Level(j) = Level(h) => Kind(j) \notin {"elif", "else", "endif"}
    /\ \E g \in 1..h : /\ Kind(g) = "if" /\ Level(g) = Level(h)
                       /\ \A j \in g..h : Level(j) = Level(h) => Kind(j) # "endif"
Before(g, h) ==
    /\ g < h /\ Kind(h) # "if" /\ Level(g) = Level(h) /\ Kind(g) \in {"if", "elif"}
    /\ \A j \in g..h : Level(j) = Level(h) => Kind(j) # "endif"
Taken(h) ==
    /\ Kind(h) = "else" \/ h \in history.held
    /\ \A g \in history.held : ~Before(g, h)
Selected(i) == \A h \in DOMAIN items : Encloses(h, i) => Taken(h)

\* Conditional directives leave out tokens (docs/guide/08-Macros and
\* preprocessor.md): the second time an item is looked at if and only if every
\* branch around it is the first of its #if whose condition held, however they
\* are nested, and in the end an import is disabled if and only if no such
\* directive names it.
ConditionalsChoose ==
    context.evaluateTokens /\ ~context.failed =>
        /\ \A i \in history.kept : Selected(i)
        /\ \A i \in history.skipped : ~Selected(i)
        /\ context.ended => \A nr \in DOMAIN deps[File] :
               ~deps[File][nr].disabled <=>
                   \E i \in DOMAIN items : Kind(i) = "import" /\ items[i].to = deps[File][nr].to /\ Selected(i)
=============================================================================
