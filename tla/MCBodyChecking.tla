--------------------------- MODULE MCBodyChecking ---------------------------
(***************************************************************************)
(* Small programs: two functions with a type parameter, two methods of a   *)
(* struct with one, a method of another such struct, and two plain         *)
(* functions, of which one is the entry point and the other exported.      *)
(***************************************************************************)
EXTENDS BodyChecking, TLC

CONSTANTS main, alias,  \* plain functions
          f, g,         \* f<T>, g<T>
          m, n, k,      \* struct V<S> has m and n, struct W<S> has k<T>
          V, W, A, B, t1, t2

Explicit(fn, ty) == [how |-> "explicit", function |-> fn, type |-> ty, struct |-> None]
Implicit(fn, ty) == [Explicit(fn, ty) EXCEPT !.how = "implicit"]
Method(fn, st) == [how |-> "implicit", function |-> fn, type |-> None, struct |-> st]
Construct(fn, st) == [Method(fn, st) EXCEPT !.how = "construct"]

Empty == [ parent |-> [fn \in Functions |-> CASE fn \in {m, n} -> V [] fn = k -> W
                                              [] OTHER -> None],
           generic |-> {f, g, k, V, W},
           body |-> [fn \in Functions |-> <<>>],
           start |-> <<main>>, castable |-> {<<B, A>>}, threads |-> {t1} ]
Bodies(p, bodies) == [p EXCEPT !.body = bodies @@ @]

\* One thread: bodies of one or two calls, own type parameters passed on, types
\* inferred, methods of the same and of another struct, functions that call
\* themselves and each other.
Of(calls) == {<<>>} \cup {<<c>> : c \in calls}
MainBodies ==
    {<<c, d>> : c \in {Explicit(f, A), Implicit(f, B), Construct(n, A)},
                d \in {Explicit(f, B), Implicit(f, B), Method(m, B)}}
FBodies == Of({Explicit(f, T), Explicit(g, T), Implicit(g, B), Method(m, T),
               Explicit(alias, None)})
GBodies == Of({Explicit(f, A), Implicit(f, B), Method(m, B)})
MBodies == Of({Method(m, S), Method(n, S), Construct(n, B)})
           \cup {<<Method(n, B), Explicit(g, S)>>}
NBodies == Of({Method(m, A), Explicit(f, B), [Explicit(k, S) EXCEPT !.struct = S],
               [Implicit(k, B) EXCEPT !.struct = A]})
SerialPrograms ==
    {Bodies(Empty, main :> b @@ f :> bf @@ g :> bg @@ m :> bm @@ n :> bn) :
        b \in MainBodies, bf \in FBodies, bg \in GBodies, bm \in MBodies, bn \in NBodies}

\* Two threads, one in each plain function: other instances, the same instance,
\* methods of one struct, structs that wait for each other, mutual recursion.
Two(b, c) ==
    Bodies([Empty EXCEPT !.start = <<main, alias>>, !.threads = {t1, t2}],
           main :> b @@ alias :> c)
ParallelPrograms ==
    { Two(<<Explicit(f, A)>>, <<Explicit(f, B)>>),
      Two(<<Explicit(f, A), Implicit(f, A)>>, <<Explicit(f, A)>>),
      Two(<<Method(m, A)>>, <<Method(m, B)>>),
      Bodies(Two(<<Method(m, A)>>, <<Method(n, B)>>), m :> <<Method(n, S)>>),
      Bodies(Two(<<Method(m, A)>>, <<[Explicit(k, A) EXCEPT !.struct = A]>>),
             m :> <<[Explicit(k, B) EXCEPT !.struct = S]>> @@ k :> <<Method(m, B)>>),
      Bodies(Two(<<Explicit(f, A)>>, <<Explicit(g, B)>>),
             f :> <<Explicit(g, T)>> @@ g :> <<Explicit(f, T)>>) }

CheckedPrograms == SerialPrograms \cup ParallelPrograms

\* A polymorphic function that calls itself with another type.
RecursivePrograms ==
    {Bodies(Empty, main :> b @@ f :> <<Explicit(f, B)>> @@ m :> <<Method(m, B)>>) :
        b \in {<<c, d>> : c, d \in {Explicit(f, A), Explicit(g, B), Method(m, A), Method(n, B)}}}

\* construct() of a struct with two types.
ConstructPrograms ==
    {Bodies(Empty, main :> <<c, d>> @@ m :> b) :
        c \in {Construct(m, A), Method(m, A), Construct(n, B)},
        d \in {Construct(m, B), Construct(m, A), Construct(n, A)},
        b \in {<<>>, <<Construct(n, S)>>}}
=============================================================================
