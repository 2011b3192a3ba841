-------------------------- MODULE PreprocessorProofs --------------------------
(***************************************************************************)
(* The second time conditional directives leave out exactly the items they *)
(* should, however they are nested and whatever macros they ask for.       *)
(***************************************************************************)
EXTENDS Preprocessor, FiniteSetTheorems, SequenceTheorems, TLAPS

-----------------------------------------------------------------------------
(* Branches and levels of a file.                                             *)

Branches == {"if", "elif", "else"}
\* How many #ifs are open before an item, less the #endifs that ended none.
Height(p) == Cardinality({j \in 1..p - 1 : Kind(j) = "if"}) - Cardinality({j \in 1..p - 1 : Kind(j) = "endif"})
EndedBy(g, p) == \E j \in g..p - 1 : Level(j) = Level(g) /\ Kind(j) = "endif"
HasIf(h) == \E g \in 1..h : /\ Kind(g) = "if" /\ Level(g) = Level(h)
                            /\ \A j \in g..h : Level(j) = Level(h) => Kind(j) # "endif"
\* A branch that would enclose an item at p.
OpenBranch(h, p) ==
    /\ h \in 1..p - 1 /\ Kind(h) \in Branches /\ HasIf(h)
    /\ \A j \in h + 1..p - 1 : Level(j) = Level(h) => Kind(j) \notin {"elif", "else", "endif"}
Free(i) == \A h \in DOMAIN items : ~Encloses(h, i)

LEMMA CountNext ==
    ASSUME NEW p \in Nat \ {0}, NEW C
    PROVE  LET before == {j \in 1..p - 1 : Kind(j) = C}
               upto == {j \in 1..p : Kind(j) = C}
           IN  /\ Cardinality(before) \in Nat /\ Cardinality(upto) \in Nat
               /\ Cardinality(upto) = Cardinality(before) + (IF Kind(p) = C THEN 1 ELSE 0)
<1> DEFINE before == {j \in 1..p - 1 : Kind(j) = C}
           upto == {j \in 1..p : Kind(j) = C}
<1>1. IsFiniteSet(before) /\ p \notin before
  <2>1. IsFiniteSet(1..p - 1)
    BY FS_Interval
  <2>2. before \subseteq 1..p - 1
    OBVIOUS
  <2> QED
    BY <2>1, <2>2, FS_Subset
<1>2. upto = IF Kind(p) = C THEN before \cup {p} ELSE before
  OBVIOUS
<1>3. /\ Cardinality(before) \in Nat
      /\ IsFiniteSet(before \cup {p}) /\ Cardinality(before \cup {p}) = Cardinality(before) + 1
  BY <1>1, FS_CardinalityType, FS_AddElement
<1> HIDE DEF before, upto
<1>4. Cardinality(upto) = Cardinality(before) + (IF Kind(p) = C THEN 1 ELSE 0)
  <2>1. CASE Kind(p) = C
    BY <2>1, <1>2, <1>3
  <2>2. CASE Kind(p) # C
    BY <2>2, <1>2, <1>3
  <2> QED
    BY <2>1, <2>2
<1> QED
  BY <1>3, <1>4 DEF before, upto

LEMMA HeightNext ==
    ASSUME NEW p \in Nat \ {0}
    PROVE  /\ Height(p) \in Int /\ Level(p) \in Int
           /\ Level(p) = Height(p) + (IF Kind(p) = "if" THEN 1 ELSE 0)
           /\ Height(p + 1) = Level(p) - (IF Kind(p) = "endif" THEN 1 ELSE 0)
<1> DEFINE ifs(i) == Cardinality({j \in 1..i : Kind(j) = "if"})
           endifs(i) == Cardinality({j \in 1..i : Kind(j) = "endif"})
<1>1. /\ ifs(p - 1) \in Nat /\ ifs(p) \in Nat
      /\ ifs(p) = ifs(p - 1) + (IF Kind(p) = "if" THEN 1 ELSE 0)
  BY CountNext, "if" = "if"
<1>2. /\ endifs(p - 1) \in Nat /\ endifs(p) \in Nat
      /\ endifs(p) = endifs(p - 1) + (IF Kind(p) = "endif" THEN 1 ELSE 0)
  BY CountNext
<1>3. Height(p) = ifs(p - 1) - endifs(p - 1) /\ Level(p) = ifs(p) - endifs(p - 1)
  BY DEF Height, Level
<1>4. Height(p + 1) = ifs(p) - endifs(p)
  <2>1. p + 1 - 1 = p
    OBVIOUS
  <2> QED
    BY <2>1 DEF Height
<1> HIDE DEF ifs, endifs
<1> QED
  BY <1>1, <1>2, <1>3, <1>4

LEMMA HeightCases ==
    ASSUME NEW p \in Nat \ {0}
    PROVE  /\ Height(p) \in Int /\ Level(p) \in Int
           /\ Kind(p) = "if" => Level(p) = Height(p) + 1 /\ Height(p + 1) = Height(p) + 1
           /\ Kind(p) = "endif" => Level(p) = Height(p) /\ Height(p + 1) = Height(p) - 1
           /\ Kind(p) \notin {"if", "endif"} => Level(p) = Height(p) /\ Height(p + 1) = Height(p)
<1>1. /\ Height(p) \in Int /\ Level(p) \in Int
      /\ Level(p) = Height(p) + (IF Kind(p) = "if" THEN 1 ELSE 0)
      /\ Height(p + 1) = Level(p) - (IF Kind(p) = "endif" THEN 1 ELSE 0)
  BY HeightNext
<1> QED
  BY <1>1

LEMMA EndedNext ==
    ASSUME NEW p \in Nat \ {0}, NEW g \in 1..p
    PROVE  EndedBy(g, p + 1) <=> EndedBy(g, p) \/ (Level(p) = Level(g) /\ Kind(p) = "endif")
<1>1. g..(p + 1) - 1 = (g..p - 1) \cup {p}
  OBVIOUS
<1> QED
  BY <1>1 DEF EndedBy

LEMMA OpenNext ==
    ASSUME NEW p \in Nat \ {0}, NEW h
    PROVE  OpenBranch(h, p + 1) <=>
              \/ OpenBranch(h, p) /\ (Level(p) = Level(h) => Kind(p) \notin {"elif", "else", "endif"})
              \/ h = p /\ Kind(p) \in Branches /\ HasIf(p)
<1>1. h \in 1..(p + 1) - 1 <=> h \in 1..p - 1 \/ h = p
  OBVIOUS
<1>2. ASSUME h \in 1..p - 1 PROVE h + 1..(p + 1) - 1 = (h + 1..p - 1) \cup {p}
  BY <1>2
<1>3. ASSUME h = p PROVE h + 1..(p + 1) - 1 = {} /\ h \notin 1..p - 1
  BY <1>3
<1> QED
  BY <1>1, <1>2, <1>3 DEF OpenBranch

\* What is open at an item encloses it unless the item ends it.
LEMMA OpenEncloses ==
    ASSUME NEW i \in Nat \ {0}, NEW h \in Nat \ {0}
    PROVE  /\ Encloses(h, i) => OpenBranch(h, i)
           /\ Kind(i) \notin {"elif", "else", "endif"} => (OpenBranch(h, i) => Encloses(h, i))
<1>1. ASSUME h < i PROVE h + 1..i = (h + 1..i - 1) \cup {i} /\ h \in 1..i - 1
  BY <1>1
<1> QED
  BY <1>1 DEF Encloses, OpenBranch, HasIf, Branches

-----------------------------------------------------------------------------
(* What the frames of parseIf stand for.  fr are the frames, p is where the   *)
(* file is read, held are the conditions that held.                           *)

FrameType == [active : BOOLEAN, complete_inactive : BOOLEAN, had_else : BOOLEAN, depth : Nat]
OpenIfs(fr) == IF fr = <<>> THEN 0 ELSE Len(fr) + fr[Len(fr)].depth
Base(fr, p) == Height(p) - OpenIfs(fr)

\* Only the last frame may be inactive or have #ifs in it that were passed over;
\* what is deeper than the last #if or was open before the first has ended; and
\* each frame has a branch that is open.
Nested(fr, p) ==
    /\ fr \in Seq(FrameType)
    /\ \A k \in 1..Len(fr) - 1 : fr[k].active /\ fr[k].depth = 0
    /\ fr # <<>> /\ fr[Len(fr)].active => fr[Len(fr)].depth = 0
    /\ \A g \in 1..p - 1 : Level(g) > Height(p) => EndedBy(g, p)
    /\ \A g \in 1..p - 1 : Kind(g) = "if" /\ Level(g) <= Base(fr, p) => EndedBy(g, p)
    /\ \A k \in 1..Len(fr) : \E h \in 1..p - 1 : OpenBranch(h, p) /\ Level(h) = Base(fr, p) + k

\* A branch of the #if that is open at a level had a condition that held.
Asked(held, level, p) == \E g \in held : Level(g) = level /\ ~EndedBy(g, p)
Told(f, asked) ==
    /\ f.complete_inactive => ~f.active /\ ~f.had_else /\ asked
    /\ ~f.complete_inactive /\ f.had_else => (asked <=> ~f.active)
    /\ ~f.complete_inactive /\ ~f.had_else => (asked <=> f.active)
TakenOf(held, h) ==
    /\ Kind(h) = "else" \/ h \in held
    /\ \A g \in held : ~Before(g, h)
SelectedOf(held, i) == \A h \in DOMAIN items : Encloses(h, i) => TakenOf(held, h)

\* A frame is active if its open branch is taken, and knows whether one was
\* taken before.
Answered(fr, p, held) ==
    /\ held \subseteq {g \in 1..p - 1 : Kind(g) \in {"if", "elif"}}
    /\ \A k \in 1..Len(fr), h \in 1..p - 1 :
          OpenBranch(h, p) /\ Level(h) = Base(fr, p) + k => (TakenOf(held, h) <=> fr[k].active)
    /\ \A k \in 1..Len(fr) : Told(fr[k], Asked(held, Base(fr, p) + k, p))

LEMMA OpenLevels ==
    ASSUME NEW p \in Nat \ {0}, NEW fr, Nested(fr, p), NEW h, OpenBranch(h, p)
    PROVE  h \in 1..p - 1 /\ Base(fr, p) < Level(h) /\ Level(h) <= Height(p)
<1>1. h \in 1..p - 1 /\ Kind(h) # "endif"
  BY DEF OpenBranch, Branches
<1>2. PICK g \in 1..h : Kind(g) = "if" /\ Level(g) = Level(h) /\ \A j \in g..h : Level(j) = Level(h) => Kind(j) # "endif"
  BY DEF OpenBranch, HasIf
<1>3. ASSUME NEW x \in g..h, EndedBy(x, p), Level(x) = Level(h) PROVE FALSE
  <2>1. PICK j \in x..p - 1 : Level(j) = Level(h) /\ Kind(j) = "endif"
    BY <1>3 DEF EndedBy
  <2>2. j \in g..h \/ j \in h + 1..p - 1
    BY <2>1, <1>1
  <2> QED
    BY <2>1, <2>2, <1>2 DEF OpenBranch
<1>4. Level(h) \in Int /\ Height(p) \in Int
  BY <1>1, HeightNext
<1>5. OpenIfs(fr) \in Nat
  <2>1. fr \in Seq(FrameType)
    BY DEF Nested
  <2>2. fr # <<>> => Len(fr) \in DOMAIN fr /\ Len(fr) \in Nat
    BY <2>1
  <2>3. fr # <<>> => fr[Len(fr)] \in FrameType
    BY <2>1, <2>2
  <2> QED
    BY <2>2, <2>3 DEF OpenIfs, FrameType
<1>6. ~(Level(h) > Height(p))
  BY <1>1, <1>2, <1>3 DEF Nested
<1>7. ~(Level(g) <= Base(fr, p))
  <2>1. g \in 1..p - 1 /\ g \in g..h
    BY <1>1
  <2> QED
    BY <2>1, <1>2, <1>3 DEF Nested
<1> QED
  BY <1>1, <1>2, <1>4, <1>5, <1>6, <1>7 DEF Base

\* An item that is no end of a branch is selected if the last frame is active.
LEMMA ActiveSelects ==
    ASSUME NEW p \in DOMAIN items, DOMAIN items = 1..Len(items), Len(items) \in Nat,
           NEW fr, Nested(fr, p), NEW held, Answered(fr, p, held),
           fr = <<>> \/ Kind(p) \notin {"elif", "else", "endif"}
    PROVE  SelectedOf(held, p) <=> (fr = <<>> \/ fr[Len(fr)].active)
<1>0. p \in Nat \ {0}
  OBVIOUS
<1>1. p \in Nat \ {0} /\ fr \in Seq(FrameType) /\ Height(p) \in Int
  <2>1. fr \in Seq(FrameType)
    BY DEF Nested
  <2>2. Height(p) \in Int
    BY <1>0, HeightCases
  <2> QED
    BY <1>0, <2>1, <2>2
<1>2. ASSUME fr = <<>> \/ fr[Len(fr)].active, NEW h \in DOMAIN items, Encloses(h, p)
      PROVE  TakenOf(held, h)
  <2>1. OpenBranch(h, p)
    BY <1>1, <1>2, OpenEncloses
  <2>2. h \in 1..p - 1 /\ Base(fr, p) < Level(h) /\ Level(h) <= Height(p)
    BY <2>1, <1>1, OpenLevels
  <2>3. OpenIfs(fr) = Len(fr) /\ Len(fr) \in Nat
    BY <1>1, <1>2 DEF OpenIfs, Nested
  <2>4. Level(h) \in Int
    BY HeightNext, <2>2
  <2> DEFINE k == Level(h) - Base(fr, p)
  <2>7. Base(fr, p) = Height(p) - Len(fr)
    BY <2>3 DEF Base
  <2>8. Base(fr, p) \in Int
    BY <2>3, <2>7, <1>1
  <2>9. k \in Int /\ Level(h) = Base(fr, p) + k
    BY <2>4, <2>8
  <2>10. k > 0
    BY <2>2, <2>4, <2>8
  <2>11. k <= Len(fr)
    BY <2>2, <2>4, <2>3, <2>7, <1>1
  <2>5. k \in 1..Len(fr) /\ Level(h) = Base(fr, p) + k
    BY <2>9, <2>10, <2>11, <2>3
  <2> HIDE DEF k
  <2>6. fr[k].active
    <3>1. fr # <<>>
      BY <2>5
    <3>2. k \in 1..Len(fr) - 1 \/ k = Len(fr)
      BY <2>5, <2>3
    <3> QED
      BY <3>1, <3>2, <1>2 DEF Nested
  <2> QED
    BY <2>1, <2>2, <2>5, <2>6 DEF Answered
<1>3. ASSUME fr # <<>>, ~fr[Len(fr)].active PROVE ~SelectedOf(held, p)
  <2>1. Len(fr) \in 1..Len(fr)
    BY <1>1, <1>3
  <2>2. PICK h \in 1..p - 1 : OpenBranch(h, p) /\ Level(h) = Base(fr, p) + Len(fr)
    BY <2>1 DEF Nested
  <2>3. ~TakenOf(held, h)
    BY <2>1, <2>2, <1>3 DEF Answered
  <2>4. h \in DOMAIN items /\ h \in Nat \ {0} /\ Encloses(h, p)
    BY <2>2, <1>1, <1>3, OpenEncloses
  <2> QED
    BY <2>3, <2>4 DEF SelectedOf
<1> QED
  BY <1>2, <1>3 DEF SelectedOf

LEMMA OutsideFree ==
    ASSUME NEW p \in Nat \ {0}, DOMAIN items \subseteq Nat \ {0}, Nested(<<>>, p)
    PROVE  Free(p)
<1> SUFFICES ASSUME NEW h \in DOMAIN items, Encloses(h, p) PROVE FALSE
  BY DEF Free
<1>1. OpenBranch(h, p)
  BY OpenEncloses
<1>2. h \in 1..p - 1 /\ Base(<<>>, p) < Level(h) /\ Level(h) <= Height(p)
  BY <1>1, OpenLevels
<1>3. Level(h) \in Int /\ Height(p) \in Int
  BY <1>2, HeightNext
<1> QED
  BY <1>2, <1>3 DEF Base, OpenIfs

LEMMA NestedType ==
    ASSUME NEW p \in Nat \ {0}, NEW fr, Nested(fr, p)
    PROVE  /\ fr \in Seq(FrameType) /\ Len(fr) \in Nat /\ Height(p) \in Int /\ OpenIfs(fr) \in Nat
           /\ Base(fr, p) \in Int /\ Height(p) = Base(fr, p) + OpenIfs(fr) /\ Len(fr) <= OpenIfs(fr)
           /\ fr = <<>> => OpenIfs(fr) = 0
           /\ fr # <<>> => /\ Len(fr) \in DOMAIN fr /\ Len(fr) >= 1 /\ fr[Len(fr)] \in FrameType
                           /\ fr[Len(fr)].depth \in Nat /\ OpenIfs(fr) = Len(fr) + fr[Len(fr)].depth
<1>1. fr \in Seq(FrameType) /\ Len(fr) \in Nat /\ Height(p) \in Int
  <2>1. fr \in Seq(FrameType)
    BY DEF Nested
  <2>2. Height(p) \in Int
    BY HeightCases
  <2> QED
    BY <2>1, <2>2
<1>2. ASSUME fr # <<>>
      PROVE  Len(fr) \in DOMAIN fr /\ Len(fr) >= 1 /\ fr[Len(fr)] \in FrameType /\ fr[Len(fr)].depth \in Nat
  <2>1. Len(fr) \in DOMAIN fr /\ Len(fr) >= 1
    BY <1>1, <1>2
  <2>2. fr[Len(fr)] \in FrameType
    BY <1>1, <2>1
  <2> QED
    BY <2>1, <2>2 DEF FrameType
<1>3. OpenIfs(fr) \in Nat /\ Len(fr) <= OpenIfs(fr)
  <2>1. CASE fr = <<>>
    BY <2>1 DEF OpenIfs
  <2>2. CASE fr # <<>>
    BY <2>2, <1>1, <1>2 DEF OpenIfs
  <2> QED
    BY <2>1, <2>2
<1>4. Base(fr, p) \in Int /\ Height(p) = Base(fr, p) + OpenIfs(fr)
  BY <1>1, <1>3 DEF Base
<1>5. /\ fr = <<>> => OpenIfs(fr) = 0
      /\ fr # <<>> => OpenIfs(fr) = Len(fr) + fr[Len(fr)].depth
  BY DEF OpenIfs
<1> QED
  BY <1>1, <1>2, <1>3, <1>4, <1>5

-----------------------------------------------------------------------------
(* What one item does to the nesting.                                         *)

Ends == {"elif", "else", "endif"}

\* A branch stays open unless the item is about its #if.
LEMMA StaysOpen ==
    ASSUME NEW p \in Nat \ {0}, NEW fr, Nested(fr, p), NEW k \in 1..Len(fr),
           Kind(p) \in Ends => k < OpenIfs(fr)
    PROVE  \E h \in 1..p : OpenBranch(h, p + 1) /\ Level(h) = Base(fr, p) + k
<1>1. PICK h \in 1..p - 1 : OpenBranch(h, p) /\ Level(h) = Base(fr, p) + k
  BY DEF Nested
<1>2. Level(p) = Level(h) => Kind(p) \notin Ends
  <2> SUFFICES ASSUME Level(p) = Level(h), Kind(p) \in Ends PROVE FALSE
    OBVIOUS
  <2>1. Level(p) = Height(p) /\ Height(p) \in Int
    <3>1. Kind(p) # "if"
      BY DEF Ends
    <3> QED
      BY <3>1, HeightNext
  <2>2. Height(p) = Base(fr, p) + OpenIfs(fr) /\ Base(fr, p) \in Int /\ OpenIfs(fr) \in Nat
    BY NestedType
  <2> QED
    BY <1>1, <2>1, <2>2
<1>3. OpenBranch(h, p + 1)
  BY <1>1, <1>2, OpenNext DEF Ends
<1> QED
  BY <1>1, <1>3

\* What it takes for frames to be those of the next item.
LEMMA NestedNext ==
    ASSUME NEW p \in Nat \ {0}, NEW fr, Nested(fr, p), NEW fr2 \in Seq(FrameType),
           \A k \in 1..Len(fr2) - 1 : fr2[k].active /\ fr2[k].depth = 0,
           fr2 # <<>> /\ fr2[Len(fr2)].active => fr2[Len(fr2)].depth = 0,
           Base(fr2, p + 1) \in Int, Base(fr2, p + 1) <= Base(fr, p),
           Kind(p) = "if" => fr2 # <<>>,
           \A k \in 1..Len(fr2) : \E h \in 1..p : OpenBranch(h, p + 1) /\ Level(h) = Base(fr2, p + 1) + k
    PROVE  Nested(fr2, p + 1)
<1>1. /\ Height(p) \in Int /\ Level(p) \in Int
      /\ Level(p) = Height(p) + (IF Kind(p) = "if" THEN 1 ELSE 0)
      /\ Height(p + 1) = Level(p) - (IF Kind(p) = "endif" THEN 1 ELSE 0)
  BY HeightNext
<1>2. p + 1 - 1 = p /\ 1..p = (1..p - 1) \cup {p}
  OBVIOUS
<1>3. ASSUME NEW g \in 1..p, Level(g) > Height(p + 1) PROVE EndedBy(g, p + 1)
  <2>1. Level(g) \in Int
    BY HeightNext
  <2>2. CASE g = p
    <3>1. Kind(p) = "endif"
      BY <1>1, <1>3, <2>2
    <3> QED
      BY <3>1, <2>2, EndedNext
  <2>3. CASE g \in 1..p - 1
    <3>1. CASE Level(g) > Height(p)
      BY <3>1, <2>3, EndedNext DEF Nested
    <3>2. CASE ~(Level(g) > Height(p))
      <4>1. Kind(p) = "endif" /\ Level(g) = Level(p)
        BY <3>2, <2>1, <1>1, <1>3
      <4> QED
        BY <4>1, EndedNext
    <3> QED
      BY <3>1, <3>2
  <2> QED
    BY <2>2, <2>3
<1>4. ASSUME NEW g \in 1..p, Kind(g) = "if", Level(g) <= Base(fr2, p + 1) PROVE EndedBy(g, p + 1)
  <2>1. Level(g) \in Int
    BY HeightNext
  <2>2. CASE g = p
    <3>1. fr2 # <<>> /\ Level(p) = Height(p + 1)
      BY <1>4, <2>2, <1>1
    <3>2. Len(fr2) \in DOMAIN fr2
      BY <3>1
    <3>5. fr2[Len(fr2)] \in FrameType
      BY <3>2
    <3>3. fr2[Len(fr2)].depth \in Nat /\ Len(fr2) \in Nat /\ Len(fr2) > 0
      BY <3>1, <3>2, <3>5 DEF FrameType
    <3>4. OpenIfs(fr2) \in Nat /\ OpenIfs(fr2) > 0
      BY <3>1, <3>3 DEF OpenIfs
    <3> QED
      BY <3>1, <3>4, <1>1, <1>4, <2>2 DEF Base
  <2>3. CASE g \in 1..p - 1
    <3>1. Base(fr, p) \in Int
      BY NestedType
    <3>2. Level(g) <= Base(fr, p)
      BY <1>4, <2>1, <3>1
    <3> QED
      BY <1>4, <2>3, <3>2, EndedNext DEF Nested
  <2> QED
    BY <2>2, <2>3
<1> QED
  BY <1>2, <1>3, <1>4 DEF Nested

LEMMA LastFrame ==
    ASSUME NEW fr \in Seq(FrameType), fr # <<>>, NEW f \in FrameType
    PROVE  /\ Last(fr) = fr[Len(fr)] /\ Last(fr) \in FrameType
           /\ Front(fr) \in Seq(FrameType) /\ Len(Front(fr)) = Len(fr) - 1
           /\ \A k \in 1..Len(fr) - 1 : Front(fr)[k] = fr[k]
           /\ Append(Front(fr), f) \in Seq(FrameType) /\ Len(Append(Front(fr), f)) = Len(fr)
           /\ \A k \in 1..Len(fr) - 1 : Append(Front(fr), f)[k] = fr[k]
           /\ Append(Front(fr), f)[Len(fr)] = f
<1>1. Len(fr) \in Nat /\ Len(fr) >= 1 /\ Len(fr) \in DOMAIN fr
  OBVIOUS
<1>2. Front(fr) \in Seq(FrameType) /\ Len(Front(fr)) = Len(fr) - 1 /\ \A k \in 1..Len(fr) - 1 : Front(fr)[k] = fr[k]
  <2>1. \A i \in 1..Len(fr) - 1 : fr[i] \in FrameType
    BY <1>1
  <2> DEFINE front == SubSeq(fr, 1, Len(fr) - 1)
  <2>2. /\ front \in Seq(FrameType) /\ Len(front) = IF 1 <= Len(fr) - 1 THEN Len(fr) - 1 - 1 + 1 ELSE 0
        /\ \A i \in 1..Len(fr) - 1 - 1 + 1 : front[i] = fr[1 + i - 1]
    BY <2>1, <1>1, SubSeqProperties
  <2>3. Front(fr) = front
    BY DEF Front
  <2> HIDE DEF front
  <2>4. Len(front) = Len(fr) - 1
    <3> DEFINE n == Len(fr)
    <3>1. n \in Nat /\ n >= 1 /\ Len(front) = IF 1 <= n - 1 THEN n - 1 - 1 + 1 ELSE 0
      BY <2>2, <1>1
    <3> HIDE DEF n
    <3>2. Len(front) = n - 1
      BY <3>1
    <3> QED
      BY <3>2 DEF n
  <2>5. \A i \in 1..Len(fr) - 1 : front[i] = fr[i]
    <3>1. \A i \in 1..Len(fr) - 1 : i \in 1..Len(fr) - 1 - 1 + 1 /\ 1 + i - 1 = i
      BY <1>1
    <3> QED
      BY <2>2, <3>1
  <2> QED
    BY <2>2, <2>3, <2>4, <2>5
<1>3. Last(fr) = fr[Len(fr)] /\ Last(fr) \in FrameType
  BY <1>1 DEF Last
<1> HIDE DEF Front
<1>4. Append(Front(fr), f) \in Seq(FrameType) /\ Len(Append(Front(fr), f)) = Len(Front(fr)) + 1
  BY <1>2
<1>5. /\ \A k \in 1..Len(fr) - 1 : Append(Front(fr), f)[k] = fr[k]
      /\ Append(Front(fr), f)[Len(fr)] = f
  <2>1. Append(Front(fr), f)[Len(Front(fr)) + 1] = f
    BY <1>2
  <2>2. ASSUME NEW k \in 1..Len(fr) - 1 PROVE Append(Front(fr), f)[k] = fr[k]
    <3>1. k \in 1..Len(Front(fr))
      BY <1>1, <1>2
    <3>2. Append(Front(fr), f)[k] = Front(fr)[k]
      BY <1>2, <3>1
    <3> QED
      BY <3>2, <1>2
  <2> QED
    BY <1>1, <1>2, <2>1, <2>2
<1> QED
  BY <1>1, <1>2, <1>3, <1>4, <1>5

LEMMA FrontFrames ==
    ASSUME NEW fr \in Seq(FrameType), fr # <<>>
    PROVE  Front(fr) \in Seq(FrameType) /\ Len(Front(fr)) = Len(fr) - 1 /\ \A k \in 1..Len(fr) - 1 : Front(fr)[k] = fr[k]
<1>1. fr[Len(fr)] \in FrameType
  OBVIOUS
<1> QED
  BY <1>1, LastFrame

LEMMA LastAgain ==
    ASSUME NEW fr \in Seq(FrameType), fr # <<>>
    PROVE  fr = Append(Front(fr), Last(fr))
<1>1. fr[Len(fr)] \in FrameType /\ Len(fr) \in Nat
  OBVIOUS
<1>2. /\ Append(Front(fr), fr[Len(fr)]) \in Seq(FrameType) /\ Len(Append(Front(fr), fr[Len(fr)])) = Len(fr)
      /\ \A k \in 1..Len(fr) - 1 : Append(Front(fr), fr[Len(fr)])[k] = fr[k]
      /\ Append(Front(fr), fr[Len(fr)])[Len(fr)] = fr[Len(fr)]
  BY <1>1, LastFrame
<1>3. \A k \in 1..Len(fr) : Append(Front(fr), fr[Len(fr)])[k] = fr[k]
  BY <1>1, <1>2
<1>4. Last(fr) = fr[Len(fr)]
  BY DEF Last
<1> HIDE DEF Front
<1> QED
  BY <1>2, <1>3, <1>4, SeqEqual

\* An #elif or #else of the last #if opens a branch.
LEMMA Reopens ==
    ASSUME NEW p \in Nat \ {0}, NEW fr, Nested(fr, p), Kind(p) \in {"elif", "else"},
           fr # <<>>, fr[Len(fr)].depth = 0
    PROVE  OpenBranch(p, p + 1) /\ Level(p) = Base(fr, p) + Len(fr)
<1>1. Level(p) = Height(p) /\ Height(p) \in Int
  <2>1. Kind(p) # "if"
    OBVIOUS
  <2> QED
    BY <2>1, HeightNext
<1>2. Level(p) = Base(fr, p) + Len(fr)
  BY <1>1, NestedType
<1>3. PICK h \in 1..p - 1 : OpenBranch(h, p) /\ Level(h) = Base(fr, p) + Len(fr)
  <2>1. Len(fr) \in 1..Len(fr)
    BY NestedType
  <2> QED
    BY <2>1 DEF Nested
<1>4. PICK g \in 1..h : Kind(g) = "if" /\ Level(g) = Level(h) /\ \A j \in g..h : Level(j) = Level(h) => Kind(j) # "endif"
  BY <1>3 DEF OpenBranch, HasIf
<1>5. ASSUME NEW j \in g..p, Level(j) = Level(p) PROVE Kind(j) # "endif"
  <2>1. j \in g..h \/ j \in h + 1..p - 1 \/ j = p
    BY <1>3
  <2> QED
    BY <2>1, <1>2, <1>3, <1>4, <1>5 DEF OpenBranch
<1>6. HasIf(p)
  <2>1. g \in 1..p
    BY <1>3
  <2> QED
    BY <2>1, <1>2, <1>3, <1>4, <1>5 DEF HasIf
<1> QED
  BY <1>2, <1>6, OpenNext DEF Branches

\* The frames stay the same, or the last one changes with a branch of its #if.
LEMMA ReplaceNested ==
    ASSUME NEW p \in Nat \ {0}, NEW fr, Nested(fr, p), NEW fr2 \in Seq(FrameType), Len(fr2) = Len(fr),
           \A k \in 1..Len(fr) - 1 : fr2[k] = fr[k],
           Kind(p) # "if", Kind(p) = "endif" => fr = <<>>,
           fr # <<>> => \/ fr2[Len(fr)] = fr[Len(fr)]
                        \/ Kind(p) \in {"elif", "else"} /\ fr[Len(fr)].depth = 0 /\ fr2[Len(fr)].depth = 0
    PROVE  Nested(fr2, p + 1) /\ (fr # <<>> => Base(fr2, p + 1) = Base(fr, p))
<1>1. /\ fr \in Seq(FrameType) /\ Len(fr) \in Nat /\ Height(p) \in Int /\ OpenIfs(fr) \in Nat
      /\ Base(fr, p) \in Int /\ Height(p) = Base(fr, p) + OpenIfs(fr) /\ Len(fr) <= OpenIfs(fr)
      /\ fr = <<>> => OpenIfs(fr) = 0
      /\ fr # <<>> => Len(fr) >= 1 /\ fr[Len(fr)].depth \in Nat /\ OpenIfs(fr) = Len(fr) + fr[Len(fr)].depth
  BY NestedType
<1>2. fr2 = <<>> <=> fr = <<>>
  BY <1>1
<1>3. /\ Kind(p) = "endif" => Height(p + 1) = Height(p) - 1
      /\ Kind(p) # "endif" => Height(p + 1) = Height(p)
  BY HeightCases
<1>4. OpenIfs(fr2) = OpenIfs(fr)
  <2>1. fr # <<>> => fr2[Len(fr2)].depth = fr[Len(fr)].depth
    OBVIOUS
  <2> QED
    BY <2>1, <1>2 DEF OpenIfs
<1>5. /\ Base(fr2, p + 1) \in Int /\ Base(fr2, p + 1) <= Base(fr, p)
      /\ Kind(p) # "endif" => Base(fr2, p + 1) = Base(fr, p)
  BY <1>1, <1>3, <1>4 DEF Base
<1>6. ASSUME NEW k \in 1..Len(fr2) PROVE \E h \in 1..p : OpenBranch(h, p + 1) /\ Level(h) = Base(fr2, p + 1) + k
  <2>1. k \in 1..Len(fr) /\ fr # <<>> /\ Base(fr2, p + 1) = Base(fr, p)
    BY <1>1, <1>2, <1>5
  <2>2. CASE Kind(p) \in Ends => k < OpenIfs(fr)
    BY <2>1, <2>2, StaysOpen
  <2>3. CASE Kind(p) \in Ends /\ ~(k < OpenIfs(fr))
    <3>1. k = Len(fr) /\ fr[Len(fr)].depth = 0
      BY <2>1, <2>3, <1>1
    <3>2. Kind(p) \in {"elif", "else"}
      BY <2>1, <2>3 DEF Ends
    <3>3. OpenBranch(p, p + 1) /\ Level(p) = Base(fr, p) + Len(fr)
      BY <2>1, <3>1, <3>2, Reopens
    <3>4. p \in 1..p
      OBVIOUS
    <3> QED
      BY <2>1, <3>1, <3>3, <3>4
  <2> QED
    BY <2>2, <2>3
<1>7. \A k \in 1..Len(fr2) - 1 : fr2[k].active /\ fr2[k].depth = 0
  BY DEF Nested
<1>8. fr2 # <<>> /\ fr2[Len(fr2)].active => fr2[Len(fr2)].depth = 0
  BY <1>2 DEF Nested
<1>9. Nested(fr2, p + 1)
  BY <1>5, <1>6, <1>7, <1>8, NestedNext
<1> QED
  BY <1>5, <1>9

\* An #if that is looked at has a frame of its own.
LEMMA PushNested ==
    ASSUME NEW p \in Nat \ {0}, NEW fr, Nested(fr, p), Kind(p) = "if",
           fr = <<>> \/ fr[Len(fr)].active, NEW f \in FrameType, f.depth = 0
    PROVE  /\ Nested(Append(fr, f), p + 1) /\ Base(Append(fr, f), p + 1) = Base(fr, p)
           /\ Level(p) = Base(fr, p) + Len(fr) + 1 /\ Level(p) = Height(p) + 1
<1> DEFINE fr2 == Append(fr, f)
<1>1. /\ fr \in Seq(FrameType) /\ Len(fr) \in Nat /\ Height(p) \in Int /\ OpenIfs(fr) = Len(fr)
      /\ Base(fr, p) \in Int /\ Height(p) = Base(fr, p) + Len(fr)
  BY NestedType DEF Nested
<1>2. /\ fr2 \in Seq(FrameType) /\ Len(fr2) = Len(fr) + 1 /\ fr2[Len(fr2)] = f /\ fr2 # <<>>
      /\ \A k \in 1..Len(fr) : fr2[k] = fr[k]
  BY <1>1, AppendProperties
<1> HIDE DEF fr2
<1>3. Level(p) = Height(p) + 1 /\ Height(p + 1) = Height(p) + 1
  BY HeightCases
<1>4. OpenIfs(fr2) = Len(fr) + 1
  BY <1>1, <1>2 DEF OpenIfs
<1>5. Base(fr2, p + 1) = Base(fr, p)
  <2>1. Base(fr2, p + 1) = Height(p + 1) - OpenIfs(fr2)
    BY DEF Base
  <2> QED
    BY <1>1, <1>3, <1>4, <2>1
<1>6. ASSUME NEW k \in 1..Len(fr2) PROVE \E h \in 1..p : OpenBranch(h, p + 1) /\ Level(h) = Base(fr2, p + 1) + k
  <2>1. CASE k \in 1..Len(fr)
    BY <2>1, <1>5, StaysOpen DEF Ends
  <2>2. CASE k \notin 1..Len(fr)
    <3>1. k = Len(fr) + 1 /\ p \in 1..p
      BY <2>2, <1>1, <1>2
    <3>2. HasIf(p)
      <4>1. \A j \in p..p : Kind(j) # "endif"
        OBVIOUS
      <4> QED
        BY <4>1, <3>1 DEF HasIf
    <3>3. OpenBranch(p, p + 1)
      BY <3>2, OpenNext DEF Branches
    <3>4. Level(p) = Base(fr2, p + 1) + k
      BY <3>1, <1>1, <1>3, <1>5
    <3> QED
      BY <3>1, <3>3, <3>4
  <2> QED
    BY <2>1, <2>2
<1>7. \A k \in 1..Len(fr2) - 1 : fr2[k].active /\ fr2[k].depth = 0
  <2> SUFFICES ASSUME NEW k \in 1..Len(fr2) - 1 PROVE fr2[k].active /\ fr2[k].depth = 0
    OBVIOUS
  <2>1. k \in 1..Len(fr) /\ fr # <<>>
    BY <1>1, <1>2
  <2>2. k \in 1..Len(fr) - 1 \/ k = Len(fr)
    BY <2>1, <1>1
  <2> QED
    BY <2>1, <2>2, <1>2 DEF Nested
<1>8. Nested(fr2, p + 1)
  <2>1. Base(fr2, p + 1) \in Int /\ Base(fr2, p + 1) <= Base(fr, p) /\ fr2[Len(fr2)].depth = 0
    BY <1>1, <1>2, <1>5
  <2> QED
    BY <1>2, <1>6, <1>7, <2>1, NestedNext
<1> QED
  BY <1>1, <1>3, <1>5, <1>8 DEF fr2

\* Where nothing is looked at the last frame counts the #ifs; an #endif ends
\* what it counts, or else the #if of the frame.
LEMMA CountNested ==
    ASSUME NEW p \in Nat \ {0}, NEW fr, Nested(fr, p), fr # <<>>, ~fr[Len(fr)].active,
           NEW f \in FrameType, ~f.active,
           \/ Kind(p) = "if" /\ f.depth = fr[Len(fr)].depth + 1
           \/ Kind(p) = "endif" /\ f.depth = fr[Len(fr)].depth - 1
    PROVE  LET fr2 == Append(Front(fr), f) IN Nested(fr2, p + 1) /\ Base(fr2, p + 1) = Base(fr, p)
<1> DEFINE fr2 == Append(Front(fr), f)
<1>1. /\ fr \in Seq(FrameType) /\ Len(fr) \in Nat /\ Height(p) \in Int /\ OpenIfs(fr) \in Nat
      /\ Base(fr, p) \in Int /\ Height(p) = Base(fr, p) + OpenIfs(fr)
      /\ Len(fr) >= 1 /\ fr[Len(fr)].depth \in Nat /\ OpenIfs(fr) = Len(fr) + fr[Len(fr)].depth
  BY NestedType
<1>2. /\ fr2 \in Seq(FrameType) /\ Len(fr2) = Len(fr) /\ fr2[Len(fr)] = f
      /\ \A k \in 1..Len(fr) - 1 : fr2[k] = fr[k]
  BY <1>1, LastFrame
<1> HIDE DEF fr2
<1>3. f.depth \in Nat
  BY DEF FrameType
<1>4. fr2 # <<>> /\ OpenIfs(fr2) = Len(fr) + f.depth
  <2>1. fr2 # <<>>
    BY <1>1, <1>2
  <2> QED
    BY <2>1, <1>2 DEF OpenIfs
<1>5. Base(fr2, p + 1) = Base(fr, p)
  <2>1. Base(fr2, p + 1) = Height(p + 1) - OpenIfs(fr2)
    BY DEF Base
  <2>2. CASE Kind(p) = "if"
    <3>1. Height(p + 1) = Height(p) + 1 /\ f.depth = fr[Len(fr)].depth + 1
      BY <2>2, HeightCases
    <3>2. OpenIfs(fr2) = OpenIfs(fr) + 1
      BY <3>1, <1>1, <1>3, <1>4
    <3> QED
      BY <2>1, <3>1, <3>2, <1>1
  <2>3. CASE Kind(p) = "endif"
    <3>1. Height(p + 1) = Height(p) - 1 /\ f.depth = fr[Len(fr)].depth - 1
      BY <2>3, HeightCases
    <3>2. OpenIfs(fr2) = OpenIfs(fr) - 1
      BY <3>1, <1>1, <1>3, <1>4
    <3> QED
      BY <2>1, <3>1, <3>2, <1>1
  <2> QED
    BY <2>2, <2>3
<1>6. ASSUME NEW k \in 1..Len(fr2) PROVE \E h \in 1..p : OpenBranch(h, p + 1) /\ Level(h) = Base(fr2, p + 1) + k
  <2>1. k \in 1..Len(fr)
    BY <1>2
  <2>2. Kind(p) \in Ends => k < OpenIfs(fr)
    <3> SUFFICES ASSUME Kind(p) \in Ends PROVE k < OpenIfs(fr)
      OBVIOUS
    <3>1. f.depth = fr[Len(fr)].depth - 1
      BY DEF Ends
    <3> QED
      BY <2>1, <3>1, <1>1, <1>3
  <2> QED
    BY <2>1, <2>2, <1>5, StaysOpen
<1>7. \A k \in 1..Len(fr2) - 1 : fr2[k].active /\ fr2[k].depth = 0
  BY <1>2 DEF Nested
<1>8. Nested(fr2, p + 1)
  <2>1. Base(fr2, p + 1) \in Int /\ Base(fr2, p + 1) <= Base(fr, p) /\ ~fr2[Len(fr2)].active
    BY <1>1, <1>2, <1>5
  <2> QED
    BY <1>2, <1>4, <1>6, <1>7, <2>1, NestedNext
<1> QED
  BY <1>5, <1>8 DEF fr2

LEMMA PopNested ==
    ASSUME NEW p \in Nat \ {0}, NEW fr, Nested(fr, p), fr # <<>>, fr[Len(fr)].depth = 0, Kind(p) = "endif"
    PROVE  Nested(Front(fr), p + 1) /\ Base(Front(fr), p + 1) = Base(fr, p)
<1> DEFINE fr2 == Front(fr)
<1>1. /\ fr \in Seq(FrameType) /\ Len(fr) \in Nat /\ Height(p) \in Int /\ OpenIfs(fr) = Len(fr)
      /\ Base(fr, p) \in Int /\ Height(p) = Base(fr, p) + Len(fr) /\ Len(fr) >= 1
      /\ fr[Len(fr)] \in FrameType
  BY NestedType
<1>2. fr2 \in Seq(FrameType) /\ Len(fr2) = Len(fr) - 1 /\ \A k \in 1..Len(fr) - 1 : fr2[k] = fr[k]
  BY <1>1, LastFrame
<1> HIDE DEF fr2
<1>3. Height(p + 1) = Height(p) - 1
  BY HeightCases
<1>4. OpenIfs(fr2) = Len(fr) - 1 /\ (fr2 # <<>> => fr2[Len(fr2)].depth = 0)
  <2>1. CASE fr2 = <<>>
    BY <2>1, <1>2 DEF OpenIfs
  <2>2. CASE fr2 # <<>>
    <3>1. Len(fr2) \in 1..Len(fr) - 1
      BY <2>2, <1>1, <1>2
    <3>2. fr2[Len(fr2)] = fr[Len(fr2)] /\ fr[Len(fr2)].depth = 0
      BY <3>1, <1>2 DEF Nested
    <3> QED
      BY <2>2, <3>2, <1>1, <1>2 DEF OpenIfs
  <2> QED
    BY <2>1, <2>2
<1>5. Base(fr2, p + 1) = Base(fr, p)
  <2>1. Base(fr2, p + 1) = Height(p + 1) - OpenIfs(fr2)
    BY DEF Base
  <2> QED
    BY <1>1, <1>3, <1>4, <2>1
<1>6. ASSUME NEW k \in 1..Len(fr2) PROVE \E h \in 1..p : OpenBranch(h, p + 1) /\ Level(h) = Base(fr2, p + 1) + k
  <2>1. k \in 1..Len(fr) /\ k < OpenIfs(fr)
    BY <1>1, <1>2
  <2> QED
    BY <2>1, <1>5, StaysOpen
<1>7. \A k \in 1..Len(fr2) - 1 : fr2[k].active /\ fr2[k].depth = 0
  <2> SUFFICES ASSUME NEW k \in 1..Len(fr2) - 1 PROVE fr2[k].active /\ fr2[k].depth = 0
    OBVIOUS
  <2>1. k \in 1..Len(fr) - 1
    BY <1>1, <1>2
  <2> QED
    BY <2>1, <1>2 DEF Nested
<1>8. Nested(fr2, p + 1)
  <2>1. Base(fr2, p + 1) \in Int /\ Base(fr2, p + 1) <= Base(fr, p)
    BY <1>1, <1>5
  <2> QED
    BY <1>2, <1>4, <1>6, <1>7, <2>1, NestedNext
<1> QED
  BY <1>5, <1>8 DEF fr2

-----------------------------------------------------------------------------
(* What one item does to the answers.                                         *)

\* The conditions that hold after an item: only that of an #if or #elif is new.
Grows(held, held2, p) ==
    /\ held2 \in {held, held \cup {p}}
    /\ p \in held2 => Kind(p) \in {"if", "elif"}

LEMMA TakenStable ==
    ASSUME DOMAIN items \subseteq Nat, NEW p \in Nat \ {0}, NEW held, NEW held2, held2 \in {held, held \cup {p}}
    PROVE  /\ \A h \in 1..p - 1 : TakenOf(held2, h) <=> TakenOf(held, h)
           /\ \A i \in 1..p : SelectedOf(held2, i) <=> SelectedOf(held, i)
<1>1. ASSUME NEW h \in Int, h < p PROVE TakenOf(held2, h) <=> TakenOf(held, h)
  <2>1. ~Before(p, h) /\ h # p
    BY <1>1 DEF Before
  <2> QED
    BY <2>1 DEF TakenOf
<1>2. ASSUME NEW i \in 1..p, NEW h \in DOMAIN items, Encloses(h, i)
      PROVE TakenOf(held2, h) <=> TakenOf(held, h)
  <2>1. h < i /\ h \in Int
    BY <1>2 DEF Encloses
  <2> QED
    BY <1>1, <2>1
<1> QED
  BY <1>1, <1>2 DEF SelectedOf

LEMMA AskedNext ==
    ASSUME NEW p \in Nat \ {0}, NEW held, NEW held2, held \subseteq 1..p - 1, Grows(held, held2, p),
           NEW level, Kind(p) = "endif" => Level(p) # level
    PROVE  Asked(held2, level, p + 1) <=> Asked(held, level, p) \/ (p \in held2 /\ Level(p) = level)
<1>1. ASSUME NEW g \in held, Level(g) = level PROVE EndedBy(g, p + 1) <=> EndedBy(g, p)
  <2>1. g \in 1..p
    OBVIOUS
  <2> QED
    BY <2>1, <1>1, EndedNext
<1>2. ASSUME p \in held2 PROVE ~EndedBy(p, p + 1)
  <2>1. Kind(p) # "endif"
    BY <1>2 DEF Grows
  <2>2. ~EndedBy(p, p) /\ p \in 1..p
    BY DEF EndedBy
  <2> QED
    BY <2>1, <2>2, EndedNext
<1> QED
  BY <1>1, <1>2 DEF Asked, Grows

\* The answer of a frame that the item is not about stays the same.
LEMMA KeepsAnswer ==
    ASSUME NEW p \in Nat \ {0}, DOMAIN items \subseteq Nat, NEW fr, Nested(fr, p),
           NEW held, Answered(fr, p, held), NEW held2, Grows(held, held2, p),
           NEW k \in 1..Len(fr), Kind(p) \in Ends => k < OpenIfs(fr)
    PROVE  /\ \A h \in 1..p : OpenBranch(h, p + 1) /\ Level(h) = Base(fr, p) + k => (TakenOf(held2, h) <=> fr[k].active)
           /\ Told(fr[k], Asked(held2, Base(fr, p) + k, p + 1))
<1>1. /\ Len(fr) \in Nat /\ Height(p) \in Int /\ OpenIfs(fr) \in Nat
      /\ Base(fr, p) \in Int /\ Height(p) = Base(fr, p) + OpenIfs(fr) /\ Len(fr) <= OpenIfs(fr)
  BY NestedType
<1>2. Kind(p) \in Branches \cup {"endif"} => Level(p) # Base(fr, p) + k
  <2>1. CASE Kind(p) = "if"
    <3>1. Level(p) = Height(p) + 1
      BY <2>1, HeightCases
    <3> QED
      BY <3>1, <1>1
  <2>2. CASE Kind(p) \in Ends
    <3>1. Level(p) = Height(p)
      BY <2>2, HeightCases DEF Ends
    <3> QED
      BY <2>2, <3>1, <1>1
  <2> QED
    BY <2>1, <2>2 DEF Branches, Ends
<1>3. ASSUME NEW h \in 1..p, OpenBranch(h, p + 1), Level(h) = Base(fr, p) + k
      PROVE  TakenOf(held2, h) <=> fr[k].active
  <2>1. h # p
    BY <1>2, <1>3, OpenNext DEF OpenBranch
  <2>2. h \in 1..p - 1 /\ OpenBranch(h, p)
    BY <1>3, <2>1, OpenNext
  <2>3. TakenOf(held2, h) <=> TakenOf(held, h)
    BY <2>2, TakenStable DEF Grows
  <2> QED
    BY <1>3, <2>2, <2>3 DEF Answered
<1>4. Asked(held2, Base(fr, p) + k, p + 1) <=> Asked(held, Base(fr, p) + k, p)
  <2>1. p \in held2 => Level(p) # Base(fr, p) + k
    BY <1>2 DEF Grows, Branches
  <2>2. held \subseteq 1..p - 1
    BY DEF Answered
  <2> DEFINE level == Base(fr, p) + k
  <2>3. Kind(p) = "endif" => Level(p) # level
    BY <1>2
  <2> HIDE DEF level
  <2>4. Asked(held2, level, p + 1) <=> Asked(held, level, p) \/ (p \in held2 /\ Level(p) = level)
    BY <2>2, <2>3, AskedNext
  <2> QED
    BY <2>1, <2>4 DEF level
<1>5. Told(fr[k], Asked(held, Base(fr, p) + k, p))
  BY DEF Answered
<1> QED
  BY <1>3, <1>4, <1>5 DEF Told

\* An #elif or #else of the last #if is taken if no condition before it held.
LEMMA TakenAt ==
    ASSUME NEW p \in Nat \ {0}, Kind(p) \in {"elif", "else"}, NEW held, NEW held2,
           held \subseteq {g \in 1..p - 1 : Kind(g) \in {"if", "elif"}}, Grows(held, held2, p)
    PROVE  TakenOf(held2, p) <=> (Kind(p) = "else" \/ p \in held2) /\ ~Asked(held, Level(p), p)
<1>1. ASSUME NEW g \in held, Level(g) = Level(p) PROVE Before(g, p) <=> ~EndedBy(g, p)
  <2>1. g \in 1..p - 1 /\ Kind(g) \in {"if", "elif"}
    OBVIOUS
  <2>2. g..p = (g..p - 1) \cup {p} /\ g < p
    BY <2>1
  <2> QED
    BY <2>1, <2>2, <1>1 DEF Before, EndedBy
<1>2. ASSUME NEW g, Before(g, p) PROVE Level(g) = Level(p) /\ g # p
  BY <1>2 DEF Before
<1> QED
  BY <1>1, <1>2 DEF TakenOf, Asked, Grows

\* What it takes for frames to have the answers at the next item.
LEMMA AnsweredNext ==
    ASSUME NEW p \in Nat \ {0}, DOMAIN items \subseteq Nat, NEW fr, Nested(fr, p),
           NEW held, Answered(fr, p, held), NEW held2, Grows(held, held2, p),
           NEW fr2, fr2 # <<>> => Base(fr2, p + 1) = Base(fr, p),
           fr2 = <<>> => Len(fr2) = 0,
           \A k \in 1..Len(fr2) :
              \/ /\ k \in 1..Len(fr) /\ (Kind(p) \in Ends => k < OpenIfs(fr))
                 /\ fr2[k].active = fr[k].active /\ fr2[k].had_else = fr[k].had_else
                 /\ fr2[k].complete_inactive = fr[k].complete_inactive
              \/ /\ \A h \in 1..p : OpenBranch(h, p + 1) /\ Level(h) = Base(fr, p) + k =>
                                       (TakenOf(held2, h) <=> fr2[k].active)
                 /\ Told(fr2[k], Asked(held2, Base(fr, p) + k, p + 1))
    PROVE  Answered(fr2, p + 1, held2)
<1>1. p + 1 - 1 = p
  OBVIOUS
<1>2. held2 \subseteq {g \in 1..p : Kind(g) \in {"if", "elif"}}
  BY DEF Answered, Grows
<1>3. ASSUME NEW k \in 1..Len(fr2)
      PROVE  /\ \A h \in 1..p : OpenBranch(h, p + 1) /\ Level(h) = Base(fr, p) + k => (TakenOf(held2, h) <=> fr2[k].active)
             /\ Told(fr2[k], Asked(held2, Base(fr, p) + k, p + 1))
  <2>1. CASE /\ k \in 1..Len(fr) /\ (Kind(p) \in Ends => k < OpenIfs(fr))
             /\ fr2[k].active = fr[k].active /\ fr2[k].had_else = fr[k].had_else
             /\ fr2[k].complete_inactive = fr[k].complete_inactive
    <3>1. /\ \A h \in 1..p : OpenBranch(h, p + 1) /\ Level(h) = Base(fr, p) + k => (TakenOf(held2, h) <=> fr[k].active)
          /\ Told(fr[k], Asked(held2, Base(fr, p) + k, p + 1))
      BY <2>1, KeepsAnswer
    <3> QED
      BY <2>1, <3>1 DEF Told
  <2> QED
    BY <2>1
<1>4. ASSUME NEW k \in 1..Len(fr2) PROVE Base(fr2, p + 1) = Base(fr, p)
  <2>1. fr2 # <<>>
    BY <1>4
  <2> QED
    BY <2>1
<1> QED
  BY <1>1, <1>2, <1>3, <1>4 DEF Answered

LEMMA PushAnswered ==
    ASSUME NEW p \in Nat \ {0}, DOMAIN items \subseteq Nat, NEW fr, Nested(fr, p), Kind(p) = "if",
           fr = <<>> \/ fr[Len(fr)].active,
           NEW held, Answered(fr, p, held), NEW held2, Grows(held, held2, p),
           NEW f \in FrameType, f.depth = 0, ~f.had_else, ~f.complete_inactive, f.active <=> p \in held2
    PROVE  Answered(Append(fr, f), p + 1, held2)
<1> DEFINE fr2 == Append(fr, f)
<1>2. /\ fr \in Seq(FrameType) /\ Len(fr) \in Nat /\ Height(p) \in Int /\ Base(fr, p) \in Int
      /\ Height(p) = Base(fr, p) + OpenIfs(fr) /\ OpenIfs(fr) \in Nat
  BY NestedType
<1>3. /\ Base(fr2, p + 1) = Base(fr, p) /\ Level(p) = Base(fr, p) + Len(fr) + 1 /\ Level(p) = Height(p) + 1
  BY PushNested
<1>4. Len(fr2) = Len(fr) + 1 /\ fr2[Len(fr) + 1] = f /\ fr2 # <<>> /\ \A k \in 1..Len(fr) : fr2[k] = fr[k]
  BY <1>2, AppendProperties
<1> HIDE DEF fr2
<1> DEFINE last == Len(fr) + 1
<1>5. ASSUME NEW h \in 1..p, OpenBranch(h, p + 1), Level(h) = Base(fr, p) + last
      PROVE  TakenOf(held2, h) <=> f.active
  <2>1. h = p
    <3> SUFFICES ASSUME h # p PROVE FALSE
      OBVIOUS
    <3>1. OpenBranch(h, p)
      BY <1>5, OpenNext
    <3>2. Level(h) <= Height(p)
      BY <3>1, OpenLevels
    <3>3. Level(h) = Height(p) + 1
      BY <1>2, <1>3, <1>5
    <3> QED
      BY <1>2, <3>2, <3>3
  <2>2. \A g : ~Before(g, p)
    BY DEF Before
  <2> QED
    BY <2>1, <2>2 DEF TakenOf
<1>6. Asked(held2, Base(fr, p) + last, p + 1) <=> p \in held2
  <2>1. Base(fr, p) + last = Level(p)
    BY <1>2, <1>3
  <2>2. held \subseteq 1..p - 1
    BY DEF Answered
  <2>3. Asked(held2, Level(p), p + 1) <=> Asked(held, Level(p), p) \/ p \in held2
    BY <2>2, AskedNext
  <2>4. ~Asked(held, Level(p), p)
    <3> SUFFICES ASSUME NEW g \in held, Level(g) = Level(p), ~EndedBy(g, p) PROVE FALSE
      BY DEF Asked
    <3>1. g \in 1..p - 1 /\ ~(Level(g) > Height(p))
      BY <2>2 DEF Nested
    <3> QED
      BY <3>1, <1>2, <1>3
  <2> QED
    BY <2>1, <2>3, <2>4
<1>7. Told(f, Asked(held2, Base(fr, p) + last, p + 1))
  BY <1>6 DEF Told
<1>8. ASSUME NEW k \in 1..Len(fr2)
      PROVE  (k = last /\ fr2[k] = f) \/ (k \in 1..Len(fr) /\ fr2[k] = fr[k])
  <2>1. k \in 1..Len(fr) \/ k = Len(fr) + 1
    BY <1>2, <1>4
  <2>2. CASE k \in 1..Len(fr)
    BY <2>2, <1>4
  <2>3. CASE k = Len(fr) + 1
    BY <2>3, <1>4
  <2> QED
    BY <2>1, <2>2, <2>3
<1>9. Kind(p) \notin Ends
  BY DEF Ends
<1> HIDE DEF last
<1>10. Answered(fr2, p + 1, held2)
  BY <1>3, <1>4, <1>5, <1>7, <1>8, <1>9, AnsweredNext
<1> QED
  BY <1>10 DEF fr2

\* An #elif or #else makes f of the last frame F.
Answers(F, f, p, held) ==
    \A asked \in BOOLEAN : Told(F, asked) =>
        /\ f.active <=> (Kind(p) = "else" \/ p \in held) /\ ~asked
        /\ Told(f, asked \/ p \in held)

LEMMA ReplaceAnswered ==
    ASSUME NEW p \in Nat \ {0}, DOMAIN items \subseteq Nat, NEW fr, Nested(fr, p), Kind(p) \in {"elif", "else"},
           fr # <<>>, fr[Len(fr)].depth = 0,
           NEW held, Answered(fr, p, held), NEW held2, Grows(held, held2, p),
           NEW fr2, Len(fr2) = Len(fr), Base(fr2, p + 1) = Base(fr, p), \A k \in 1..Len(fr) - 1 : fr2[k] = fr[k],
           Answers(fr[Len(fr)], fr2[Len(fr)], p, held2)
    PROVE  Answered(fr2, p + 1, held2)
<1> DEFINE last == Len(fr)
           asked == Asked(held, Level(p), p)
<1>1. Len(fr) \in Nat /\ Len(fr) >= 1 /\ OpenIfs(fr) = Len(fr)
  <2>1. Len(fr) \in Nat /\ Len(fr) >= 1 /\ OpenIfs(fr) = Len(fr) + fr[Len(fr)].depth
    BY NestedType
  <2> QED
    BY <2>1
<1>2. OpenBranch(p, p + 1) /\ Level(p) = Base(fr, p) + last
  BY Reopens
<1>3. asked \in BOOLEAN /\ Told(fr[last], asked)
  <2>1. last \in 1..Len(fr)
    BY <1>1
  <2> QED
    BY <2>1, <1>2 DEF Answered, Asked
<1>4. held \subseteq {g \in 1..p - 1 : Kind(g) \in {"if", "elif"}}
  BY DEF Answered
<1>5. ASSUME NEW h \in 1..p, OpenBranch(h, p + 1), Level(h) = Base(fr, p) + last
      PROVE  TakenOf(held2, h) <=> fr2[last].active
  <2>1. h = p
    BY <1>2, <1>5, OpenNext
  <2>2. TakenOf(held2, p) <=> (Kind(p) = "else" \/ p \in held2) /\ ~asked
    BY <1>4, TakenAt
  <2> QED
    BY <2>1, <2>2, <1>3 DEF Answers
<1>6. Told(fr2[last], Asked(held2, Base(fr, p) + last, p + 1))
  <2>1. Asked(held2, Level(p), p + 1) <=> asked \/ p \in held2
    <3>1. Kind(p) # "endif" /\ held \subseteq 1..p - 1
      BY <1>4
    <3> QED
      BY <3>1, AskedNext
  <2>2. Told(fr2[last], asked \/ p \in held2)
    BY <1>3 DEF Answers
  <2> HIDE DEF asked
  <2> QED
    BY <2>1, <2>2, <1>2 DEF Told
<1>7. ASSUME NEW k \in 1..Len(fr2)
      PROVE  k = last \/ (k \in 1..Len(fr) /\ k < OpenIfs(fr) /\ fr2[k] = fr[k])
  <2>1. k \in 1..Len(fr)
    OBVIOUS
  <2>2. k # last => k \in 1..Len(fr) - 1 /\ k < OpenIfs(fr)
    BY <2>1, <1>1
  <2> QED
    BY <2>1, <2>2
<1>8. fr2 = <<>> => Len(fr2) = 0
  OBVIOUS
<1> HIDE DEF asked, last
<1> QED
  BY <1>5, <1>6, <1>7, <1>8, AnsweredNext

-----------------------------------------------------------------------------
(* The invariant.                                                             *)

\* Every item that was looked at is selected, and none that was passed over.
Sorted(p, held, kept, skipped) ==
    /\ \A i \in kept : i \in 1..p - 1 /\ SelectedOf(held, i)
    /\ \A i \in skipped : i \in 1..p - 1 /\ ~SelectedOf(held, i)

\* A dependency dd[nr] is enabled the first time for a directive that no branch
\* encloses, the second time for each one that was selected so far.
Names(dd, i, nr) == Kind(i) = "import" /\ items[i].to = dd[nr].to
Enabled(evaluate, p, held, dd) ==
    /\ \A nr \in DOMAIN dd : ~dd[nr].disabled =>
          \/ \E i \in DOMAIN items : Names(dd, i, nr) /\ Free(i)
          \/ evaluate /\ \E i \in 1..p - 1 : Names(dd, i, nr) /\ SelectedOf(held, i)
    /\ evaluate => \A i \in 1..p - 1, nr \in DOMAIN dd :
          Names(dd, i, nr) /\ SelectedOf(held, i) => ~dd[nr].disabled

Consistent(evaluate, fr, p, held, kept, skipped, dd) ==
    /\ Nested(fr, p)
    /\ evaluate => Answered(fr, p, held) /\ Sorted(p, held, kept, skipped)
    /\ ~evaluate => held = {} /\ kept = {} /\ skipped = {}
    /\ Enabled(evaluate, p, held, dd)

TypeInv ==
    /\ items \in Seq(ItemType)
    /\ context \in [evaluateTokens : BOOLEAN, head : Nat \ {0}, frames : Seq(FrameType),
                    layers : {context.layers}, cached : {context.cached}, start : {context.start},
                    failed : BOOLEAN, ended : BOOLEAN]
    /\ history \in [kept : SUBSET Nat, skipped : SUBSET Nat, held : SUBSET Nat, call : {history.call}]
    /\ File \in DOMAIN deps /\ deps[File] \in Seq(Dependency)
    /\ context.head <= Len(items) + 1

IInv ==
    /\ TypeInv
    /\ ~context.failed =>
          /\ Consistent(context.evaluateTokens, context.frames, context.head,
                        history.held, history.kept, history.skipped, deps[File])
          /\ context.ended => context.evaluateTokens /\ context.head = Len(items) + 1

LEMMA SameItems ==
    ASSUME items' = items
    PROVE  \A evaluate, fr, p, held, kept, skipped, dd :
              Consistent(evaluate, fr, p, held, kept, skipped, dd)' = Consistent(evaluate, fr, p, held, kept, skipped, dd)
BY DEF Consistent, Sorted, Names, Enabled, Level, Height, Free, OpenBranch, EndedBy, TakenOf, SelectedOf, Nested, Answered,
       Base, Kind, Encloses, Before, HasIf, Asked, Told

LEMMA Files ==
    ASSUME items \in Seq(ItemType)
    PROVE  DOMAIN items = 1..Len(items) /\ Len(items) \in Nat /\ DOMAIN items \subseteq Nat \ {0}
BY LenProperties

\* The dependencies are those of the next item unless it is a directive that is
\* selected.
LEMMA EnabledNext ==
    ASSUME items \in Seq(ItemType), NEW p \in DOMAIN items, NEW evaluate \in BOOLEAN, NEW held, NEW held2, NEW dd,
           Enabled(evaluate, p, held, dd), held2 \in {held, held \cup {p}},
           evaluate /\ Kind(p) = "import" => ~SelectedOf(held, p)
    PROVE  Enabled(evaluate, p + 1, held2, dd)
<1>1. p \in Nat \ {0} /\ DOMAIN items \subseteq Nat
  BY Files
<1>2. p + 1 - 1 = p /\ 1..p = (1..p - 1) \cup {p}
  BY <1>1
<1>3. \A i \in 1..p : SelectedOf(held2, i) <=> SelectedOf(held, i)
  BY <1>1, TakenStable
<1>4. ASSUME NEW i \in 1..p, NEW nr, Names(dd, i, nr), SelectedOf(held2, i), evaluate
      PROVE  i \in 1..p - 1 /\ SelectedOf(held, i)
  <2>1. SelectedOf(held, i)
    BY <1>3, <1>4
  <2>2. i # p
    BY <1>4, <2>1 DEF Names
  <2> QED
    BY <1>2, <2>1, <2>2
<1>5. \A i \in 1..p - 1 : i \in 1..p /\ (SelectedOf(held, i) => SelectedOf(held2, i))
  BY <1>2, <1>3
<1>6. ASSUME NEW nr \in DOMAIN dd, ~dd[nr].disabled
      PROVE  \/ \E i \in DOMAIN items : Names(dd, i, nr) /\ Free(i)
             \/ evaluate /\ \E i \in 1..p : Names(dd, i, nr) /\ SelectedOf(held2, i)
  BY <1>5, <1>6 DEF Enabled
<1>7. ASSUME evaluate, NEW i \in 1..p, NEW nr \in DOMAIN dd, Names(dd, i, nr), SelectedOf(held2, i)
      PROVE  ~dd[nr].disabled
  <2>1. i \in 1..p - 1 /\ SelectedOf(held, i)
    BY <1>4, <1>7
  <2> QED
    BY <1>7, <2>1 DEF Enabled
<1> QED
  BY <1>2, <1>6, <1>7 DEF Enabled

LEMMA NotYet ==
    ASSUME NEW p \in Nat \ {0}, NEW evaluate, NEW fr, NEW held, NEW kept, NEW skipped, NEW dd,
           Consistent(evaluate, fr, p, held, kept, skipped, dd), evaluate
    PROVE  p \notin held /\ p \notin kept /\ p \notin skipped
<1>1. Answered(fr, p, held) /\ Sorted(p, held, kept, skipped)
  BY DEF Consistent
<1> QED
  BY <1>1 DEF Answered, Sorted

\* What it takes to be consistent at the next item.
LEMMA ConsistentNext ==
    ASSUME items \in Seq(ItemType), NEW p \in DOMAIN items, NEW evaluate \in BOOLEAN, NEW fr, NEW held, NEW kept, NEW skipped,
           NEW dd, Consistent(evaluate, fr, p, held, kept, skipped, dd),
           NEW fr2, NEW held2, NEW kept2, NEW skipped2, NEW dd2,
           Nested(fr2, p + 1), evaluate => Grows(held, held2, p) /\ Answered(fr2, p + 1, held2),
           evaluate => kept2 \subseteq kept \cup {p} /\ (p \in kept2 => SelectedOf(held, p)),
           evaluate => skipped2 \subseteq skipped \cup {p} /\ (p \in skipped2 => ~SelectedOf(held, p)),
           ~evaluate => held2 = held /\ kept2 = kept /\ skipped2 = skipped,
           Enabled(evaluate, p + 1, held2, dd2)
    PROVE  Consistent(evaluate, fr2, p + 1, held2, kept2, skipped2, dd2)
<1>1. p \in Nat \ {0} /\ DOMAIN items \subseteq Nat
  BY Files
<1>2. p + 1 - 1 = p /\ 1..p = (1..p - 1) \cup {p}
  BY <1>1
<1>3. ASSUME evaluate PROVE Sorted(p + 1, held2, kept2, skipped2)
  <2>1. \A i \in 1..p : SelectedOf(held2, i) <=> SelectedOf(held, i)
    BY <1>1, <1>3, TakenStable DEF Grows
  <2>2. Sorted(p, held, kept, skipped)
    BY <1>3 DEF Consistent
  <2>3. ASSUME NEW i \in kept2 PROVE i \in 1..p /\ SelectedOf(held2, i)
    BY <1>2, <1>3, <2>1, <2>2, <2>3 DEF Sorted
  <2>4. ASSUME NEW i \in skipped2 PROVE i \in 1..p /\ ~SelectedOf(held2, i)
    BY <1>2, <1>3, <2>1, <2>2, <2>4 DEF Sorted
  <2> QED
    BY <1>2, <2>3, <2>4 DEF Sorted
<1> QED
  BY <1>3 DEF Consistent

\* An item that is no directive about #ifs.
LEMMA PlainConsistent ==
    ASSUME items \in Seq(ItemType), NEW p \in DOMAIN items, NEW evaluate \in BOOLEAN, NEW fr, NEW held, NEW kept, NEW skipped,
           NEW dd, NEW dd2, Consistent(evaluate, fr, p, held, kept, skipped, dd),
           NEW kept2, NEW skipped2,
           Kind(p) \notin Branches \cup {"endif"} \/ (fr = <<>> /\ Kind(p) # "if"),
           evaluate => \/ kept2 = kept /\ skipped2 = skipped
                       \/ kept2 = kept \cup {p} /\ skipped2 = skipped /\ (fr = <<>> \/ fr[Len(fr)].active)
                       \/ kept2 = kept /\ skipped2 = skipped \cup {p} /\ fr # <<>> /\ ~fr[Len(fr)].active,
           ~evaluate => kept2 = kept /\ skipped2 = skipped,
           Enabled(evaluate, p + 1, held, dd2)
    PROVE  Consistent(evaluate, fr, p + 1, held, kept2, skipped2, dd2)
<1>1. p \in Nat \ {0} /\ DOMAIN items \subseteq Nat /\ DOMAIN items = 1..Len(items) /\ Len(items) \in Nat
  BY Files
<1>2. Nested(fr, p) /\ fr \in Seq(FrameType)
  BY DEF Consistent, Nested
<1>3. Nested(fr, p + 1) /\ (fr # <<>> => Base(fr, p + 1) = Base(fr, p))
  <2>1. Kind(p) # "if" /\ (Kind(p) = "endif" => fr = <<>>)
    BY DEF Branches
  <2> QED
    BY <1>1, <1>2, <2>1, ReplaceNested
<1>4. ASSUME evaluate PROVE Answered(fr, p, held) /\ Grows(held, held, p) /\ Sorted(p, held, kept, skipped)
  <2>1. Answered(fr, p, held) /\ Sorted(p, held, kept, skipped)
    BY <1>4 DEF Consistent
  <2>2. p \notin held
    BY <1>1, <2>1 DEF Answered
  <2> QED
    BY <2>1, <2>2 DEF Grows
<1>5. ASSUME evaluate PROVE Answered(fr, p + 1, held)
  <2>1. \A k \in 1..Len(fr) : Kind(p) \in Ends => k < OpenIfs(fr)
    BY <1>1, <1>2, NestedType DEF Ends, Branches
  <2>2. fr = <<>> => Len(fr) = 0
    OBVIOUS
  <2> QED
    BY <1>1, <1>2, <1>3, <1>4, <1>5, <2>1, <2>2, AnsweredNext
<1>6. ASSUME evaluate PROVE SelectedOf(held, p) <=> (fr = <<>> \/ fr[Len(fr)].active)
  <2>1. fr = <<>> \/ Kind(p) \notin Ends
    BY DEF Ends, Branches
  <2> QED
    BY <1>1, <1>2, <1>4, <1>6, <2>1, ActiveSelects DEF Ends
<1>7. ASSUME evaluate PROVE p \notin kept /\ p \notin skipped
  BY <1>1, <1>4, <1>7 DEF Sorted
<1> QED
  BY <1>3, <1>4, <1>5, <1>6, <1>7, ConsistentNext

\* An #elif or #else changes the last frame if it is about its #if.
LEMMA BranchConsistent ==
    ASSUME items \in Seq(ItemType), NEW p \in DOMAIN items, NEW evaluate \in BOOLEAN, NEW fr, NEW held, NEW kept, NEW skipped,
           NEW dd, Consistent(evaluate, fr, p, held, kept, skipped, dd),
           Kind(p) \in {"elif", "else"}, fr # <<>>,
           NEW fr2 \in Seq(FrameType), Len(fr2) = Len(fr), \A k \in 1..Len(fr) - 1 : fr2[k] = fr[k],
           NEW held2, evaluate => Grows(held, held2, p), ~evaluate => held2 = held,
           \/ fr[Len(fr)].depth # 0 /\ fr2[Len(fr)] = fr[Len(fr)] /\ held2 = held
           \/ /\ fr[Len(fr)].depth = 0 /\ fr2[Len(fr)].depth = 0
              /\ evaluate => Answers(fr[Len(fr)], fr2[Len(fr)], p, held2)
    PROVE  Consistent(evaluate, fr2, p + 1, held2, kept, skipped, dd)
<1>1. p \in Nat \ {0} /\ DOMAIN items \subseteq Nat
  BY Files
<1>2. Nested(fr, p) /\ (evaluate => Answered(fr, p, held))
  BY DEF Consistent
<1>3. Nested(fr2, p + 1) /\ Base(fr2, p + 1) = Base(fr, p)
  BY <1>1, <1>2, ReplaceNested
<1>4. ASSUME evaluate PROVE Answered(fr2, p + 1, held2)
  <2>1. CASE fr[Len(fr)].depth # 0 /\ fr2[Len(fr)] = fr[Len(fr)]
    <3>1. Len(fr) \in Nat /\ Len(fr) >= 1 /\ Len(fr) < OpenIfs(fr)
      <4>1. /\ Len(fr) \in Nat /\ Len(fr) >= 1 /\ fr[Len(fr)].depth \in Nat
            /\ OpenIfs(fr) = Len(fr) + fr[Len(fr)].depth
        BY <1>1, <1>2, NestedType
      <4> QED
        BY <4>1, <2>1
    <3>2. OpenIfs(fr) \in Nat
      BY <1>1, <1>2, NestedType
    <3>3. ASSUME NEW k \in 1..Len(fr2) PROVE k \in 1..Len(fr) /\ k < OpenIfs(fr) /\ fr2[k] = fr[k]
      <4>1. k \in 1..Len(fr) - 1 \/ k = Len(fr)
        BY <3>1
      <4> QED
        BY <4>1, <3>1, <3>2, <2>1
    <3>4. fr2 = <<>> => Len(fr2) = 0
      OBVIOUS
    <3> QED
      BY <1>1, <1>2, <1>3, <1>4, <3>3, <3>4, AnsweredNext
  <2>2. CASE ~(fr[Len(fr)].depth # 0 /\ fr2[Len(fr)] = fr[Len(fr)])
    BY <1>1, <1>2, <1>3, <1>4, <2>2, ReplaceAnswered
  <2> QED
    BY <2>1, <2>2
<1>5. Enabled(evaluate, p + 1, held2, dd)
  <2>1. held2 \in {held, held \cup {p}}
    BY DEF Grows
  <2> QED
    BY <2>1, EnabledNext DEF Consistent
<1>6. ASSUME evaluate PROVE p \notin kept /\ p \notin skipped
  BY <1>1, <1>6, NotYet
<1> QED
  BY <1>3, <1>4, <1>5, <1>6, ConsistentNext

-----------------------------------------------------------------------------
(* The steps.                                                                 *)

LEMMA Reading ==
    ASSUME TypeInv, NEW kind, Reads(kind)
    PROVE  /\ items \in Seq(ItemType) /\ context.head \in DOMAIN items /\ context.head \in Nat \ {0}
           /\ DOMAIN items = 1..Len(items) /\ Len(items) \in Nat /\ DOMAIN items \subseteq Nat \ {0}
           /\ context.head + 1 <= Len(items) + 1 /\ context.head + 1 \in Nat \ {0}
           /\ Kind(context.head) = kind /\ Item = items[context.head] /\ Item \in ItemType
           /\ ~context.ended /\ context.evaluateTokens \in BOOLEAN /\ context.failed \in BOOLEAN
           /\ context.frames \in Seq(FrameType)
           /\ InIf => Frame = context.frames[Len(context.frames)] /\ Frame \in FrameType
           /\ InIf <=> context.frames # <<>>
<1>1. items \in Seq(ItemType) /\ context.head \in Nat \ {0} /\ context.head <= Len(items)
  BY DEF TypeInv, Reads
<1>2. DOMAIN items = 1..Len(items) /\ Len(items) \in Nat /\ DOMAIN items \subseteq Nat \ {0}
  BY <1>1, Files
<1>3. context.head \in DOMAIN items /\ context.head + 1 <= Len(items) + 1 /\ context.head + 1 \in Nat \ {0}
  BY <1>1, <1>2
<1>4. Kind(context.head) = kind /\ Item = items[context.head] /\ Item \in ItemType /\ ~context.ended
  BY <1>1, <1>3 DEF Reads, Item, Kind
<1>5. context.evaluateTokens \in BOOLEAN /\ context.failed \in BOOLEAN /\ context.frames \in Seq(FrameType)
  BY DEF TypeInv
<1>6. InIf => Frame = context.frames[Len(context.frames)] /\ Frame \in FrameType
  <2>1. ASSUME NEW fr \in Seq(FrameType), fr # <<>> PROVE Last(fr) = fr[Len(fr)] /\ Last(fr) \in FrameType
    BY <2>1 DEF Last
  <2> QED
    BY <1>5, <2>1 DEF InIf, Frame
<1> QED
  BY <1>1, <1>2, <1>3, <1>4, <1>5, <1>6 DEF InIf

\* An item that is no end of a branch is selected if it is active.
LEMMA Selecting ==
    ASSUME IInv, ~context.failed, NEW kind, Reads(kind), ~InIf \/ kind \notin Ends, context.evaluateTokens
    PROVE  SelectedOf(history.held, context.head) <=> Active
<1>1. Nested(context.frames, context.head) /\ Answered(context.frames, context.head, history.held)
  BY DEF IInv, Consistent
<1> QED
  BY <1>1, Reading, ActiveSelects DEF IInv, Ends, Active

LEMMA SkipStep ==
    ASSUME IInv, Skip
    PROVE  IInv'
<1>1. PICK kind \in {"token", "macro", "import"} : Reads(kind)
  BY DEF Skip
<1>2. TypeInv /\ ~Active /\ context' = Moved /\ Looks(FALSE) /\ items' = items /\ deps' = deps
      /\ (Item.kind = "import" => context.evaluateTokens)
  BY DEF Skip, IInv
<1>3. /\ items \in Seq(ItemType) /\ context.head \in DOMAIN items /\ context.head \in Nat \ {0}
      /\ context.head + 1 <= Len(items) + 1 /\ context.head + 1 \in Nat \ {0}
      /\ Kind(context.head) = kind /\ Item.kind = kind /\ ~context.ended /\ context.evaluateTokens \in BOOLEAN
      /\ context.frames # <<>> /\ ~context.frames[Len(context.frames)].active
  BY <1>1, <1>2, Reading DEF Kind, Active
<1>4. TypeInv'
  BY <1>2, <1>3 DEF TypeInv, Moved, Looks
<1>5. /\ context'.head = context.head + 1 /\ context'.frames = context.frames /\ context'.failed = context.failed
      /\ context'.ended = context.ended /\ context'.evaluateTokens = context.evaluateTokens
  BY <1>2 DEF TypeInv, Moved
<1>6. /\ history'.held = history.held /\ history'.kept = history.kept
      /\ history'.skipped = IF context.evaluateTokens THEN history.skipped \cup {context.head} ELSE history.skipped
  BY <1>2 DEF TypeInv, Looks
<1>7. ASSUME ~context.failed
      PROVE  Consistent(context.evaluateTokens, context.frames, context.head + 1,
                        history.held, history.kept, history'.skipped, deps[File])
  <2>1. Consistent(context.evaluateTokens, context.frames, context.head,
                   history.held, history.kept, history.skipped, deps[File])
    BY <1>7 DEF IInv
  <2>2. context.evaluateTokens /\ kind = "import" => ~SelectedOf(history.held, context.head)
    BY <1>1, <1>2, <1>7, Selecting DEF Ends
  <2>3. Enabled(context.evaluateTokens, context.head + 1, history.held, deps[File])
    BY <1>2, <1>3, <2>1, <2>2, EnabledNext DEF Consistent
  <2>4. Kind(context.head) \notin Branches \cup {"endif"}
    BY <1>3 DEF Branches
  <2> QED
    BY <1>3, <1>6, <2>1, <2>3, <2>4, PlainConsistent
<1> QED
  BY <1>2, <1>3, <1>4, <1>5, <1>6, <1>7, SameItems DEF IInv

\* A condition that is asked for.
LEMMA Asking ==
    ASSUME IInv, ~context.failed, NEW kind \in {"if", "elif"}, Reads(kind), Asks
    PROVE  /\ Holds(Item) \in BOOLEAN /\ context.evaluateTokens
           /\ Grows(history.held, history'.held, context.head) /\ (context.head \in history'.held <=> Holds(Item))
           /\ history'.kept = (IF kind = "if" THEN history.kept \cup {context.head} ELSE history.kept)
           /\ history'.skipped = history.skipped
<1>1. Holds(Item) \in BOOLEAN
  BY DEF Holds
<1>2. context.evaluateTokens /\ history.held \subseteq 1..context.head - 1
  BY DEF Asks, IInv, Consistent, Answered
<1>3. Kind(context.head) = kind /\ Item.kind = kind /\ context.head \in Nat
  BY Reading DEF IInv, Kind
<1>4. context.head \notin history.held
  BY <1>2, <1>3
<1>5. /\ history'.held = IF Holds(Item) THEN history.held \cup {context.head} ELSE history.held
      /\ history'.kept = (IF kind = "if" THEN history.kept \cup {context.head} ELSE history.kept)
      /\ history'.skipped = history.skipped
  BY <1>3 DEF Asks, IInv, TypeInv
<1> HIDE DEF Holds
<1>6. Grows(history.held, history'.held, context.head) /\ (context.head \in history'.held <=> Holds(Item))
  BY <1>3, <1>4, <1>5 DEF Grows
<1> QED
  BY <1>1, <1>2, <1>5, <1>6

LEMMA IfStep ==
    ASSUME IInv, If
    PROVE  IInv'
<1> DEFINE p == context.head
           fr == context.frames
           e == context.evaluateTokens
<1>1. TypeInv /\ Reads("if") /\ items' = items /\ deps' = deps
  BY DEF If, IInv
<1>2. /\ items \in Seq(ItemType) /\ p \in DOMAIN items /\ p \in Nat \ {0}
      /\ p + 1 <= Len(items) + 1 /\ p + 1 \in Nat \ {0} /\ DOMAIN items \subseteq Nat
      /\ Kind(p) = "if" /\ ~context.ended /\ e \in BOOLEAN
      /\ fr \in Seq(FrameType) /\ (InIf <=> fr # <<>>)
      /\ InIf => Frame = fr[Len(fr)] /\ Frame \in FrameType
  BY <1>1, Reading
<1>3. SUFFICES ASSUME TRUE
      PROVE  /\ TypeInv' /\ ~context'.ended /\ context'.failed = context.failed
             /\ ~context.failed => Consistent(context'.evaluateTokens, context'.frames, context'.head,
                                              history'.held, history'.kept, history'.skipped, deps[File])
  BY <1>1, SameItems DEF IInv
<1>4. ASSUME ~context.failed PROVE Consistent(e, fr, p, history.held, history.kept, history.skipped, deps[File])
  BY <1>4 DEF IInv
<1>5. ASSUME ~context.failed PROVE e => (SelectedOf(history.held, p) <=> Active)
  BY <1>1, <1>5, Selecting DEF Ends
<1>6. ASSUME ~context.failed, NEW held2 \in {history.held, history.held \cup {p}}
      PROVE  Enabled(e, p + 1, held2, deps[File])
  BY <1>2, <1>4, <1>6, EnabledNext DEF Consistent
<1>7. CASE Active /\ e /\ Asks /\ context' = [Moved EXCEPT !.frames = Append(@, NewFrame(Holds(Item))), !.cached = Cache(Item.name)]
  <2> DEFINE f == NewFrame(Holds(Item))
             fr2 == Append(fr, f)
  <2>1. Holds(Item) \in BOOLEAN
    BY DEF Holds
  <2>2. f \in FrameType /\ f.depth = 0 /\ ~f.had_else /\ ~f.complete_inactive /\ f.active = Holds(Item)
    BY <2>1 DEF NewFrame, FrameType
  <2> HIDE DEF f
  <2>3. fr2 \in Seq(FrameType)
    BY <1>2, <2>2
  <2>4. context' = [Moved EXCEPT !.frames = fr2, !.cached = Cache(Item.name)]
    BY <1>7 DEF f, Moved, TypeInv
  <2> HIDE DEF fr2
  <2>5. /\ context'.head = p + 1 /\ context'.frames = fr2 /\ context'.failed = context.failed
        /\ context'.ended = context.ended /\ context'.evaluateTokens = e
    BY <2>4, <1>1 DEF TypeInv, Moved
  <2>6. TypeInv'
    BY <1>1, <1>2, <1>7, <2>3, <2>4 DEF TypeInv, Moved, Asks
  <2>7. ASSUME ~context.failed
        PROVE  Consistent(e, fr2, p + 1, history'.held, history'.kept, history'.skipped, deps[File])
    <3>1. /\ Grows(history.held, history'.held, p) /\ (p \in history'.held <=> Holds(Item))
          /\ history'.kept = history.kept \cup {p} /\ history'.skipped = history.skipped
      BY <1>1, <1>7, <2>7, Asking
    <3>2. Nested(fr, p) /\ Answered(fr, p, history.held) /\ (fr = <<>> \/ fr[Len(fr)].active)
      BY <1>2, <1>4, <1>7, <2>7 DEF Consistent, Active
    <3>3. Nested(fr2, p + 1)
      BY <1>2, <2>2, <3>2, PushNested DEF fr2
    <3>4. Answered(fr2, p + 1, history'.held)
      BY <1>2, <2>2, <3>1, <3>2, PushAnswered DEF fr2
    <3>5. Enabled(e, p + 1, history'.held, deps[File])
      BY <1>6, <2>7, <3>1 DEF Grows
    <3>6. p \notin history.skipped
      BY <1>2, <1>4, <1>7, <2>7, NotYet
    <3> QED
      BY <1>2, <1>4, <1>5, <1>7, <2>7, <3>1, <3>3, <3>4, <3>5, <3>6, ConsistentNext
  <2> QED
    BY <1>2, <2>5, <2>6, <2>7
<1>8. CASE Active /\ ~e /\ Looks(TRUE) /\ context' = [Moved EXCEPT !.frames = Append(@, NewFrame(FALSE))]
  <2> DEFINE f == NewFrame(FALSE)
             fr2 == Append(fr, f)
  <2>2. f \in FrameType /\ f.depth = 0
    BY DEF NewFrame, FrameType
  <2> HIDE DEF f
  <2>3. fr2 \in Seq(FrameType)
    BY <1>2, <2>2
  <2>4. context' = [Moved EXCEPT !.frames = fr2] /\ history' = history
    BY <1>8 DEF f, Moved, TypeInv, Looks
  <2> HIDE DEF fr2
  <2>5. /\ context'.head = p + 1 /\ context'.frames = fr2 /\ context'.failed = context.failed
        /\ context'.ended = context.ended /\ context'.evaluateTokens = e
    BY <2>4, <1>1 DEF TypeInv, Moved
  <2>6. TypeInv'
    BY <1>1, <1>2, <2>3, <2>4 DEF TypeInv, Moved
  <2>7. ASSUME ~context.failed
        PROVE  Consistent(e, fr2, p + 1, history'.held, history'.kept, history'.skipped, deps[File])
    <3>1. Nested(fr, p) /\ (fr = <<>> \/ fr[Len(fr)].active)
      BY <1>2, <1>4, <1>8, <2>7 DEF Consistent, Active
    <3>2. Nested(fr2, p + 1)
      BY <1>2, <2>2, <3>1, PushNested DEF fr2
    <3> QED
      BY <1>2, <1>4, <1>6, <1>8, <2>4, <2>7, <3>2, ConsistentNext
  <2> QED
    BY <1>2, <2>5, <2>6, <2>7
<1>9. CASE ~Active /\ Looks(FALSE) /\ context' = WithFrame([Frame EXCEPT !.depth = @ + 1])
  <2> DEFINE f == [Frame EXCEPT !.depth = @ + 1]
             fr2 == Append(Front(fr), f)
  <2>1. fr # <<>> /\ ~fr[Len(fr)].active /\ Frame = fr[Len(fr)] /\ Frame \in FrameType
    BY <1>2, <1>9 DEF Active
  <2>2. /\ f \in FrameType /\ f.depth = fr[Len(fr)].depth + 1 /\ ~f.active
        /\ f.active = fr[Len(fr)].active /\ f.had_else = fr[Len(fr)].had_else
        /\ f.complete_inactive = fr[Len(fr)].complete_inactive
    BY <2>1 DEF FrameType
  <2> HIDE DEF f
  <2>3. /\ fr2 \in Seq(FrameType) /\ Len(fr2) = Len(fr) /\ fr2[Len(fr)] = f
        /\ \A k \in 1..Len(fr) - 1 : fr2[k] = fr[k]
    BY <1>2, <2>1, <2>2, LastFrame
  <2>4. context' = [Moved EXCEPT !.frames = fr2]
    BY <1>9 DEF f, Moved, WithFrame, TypeInv
  <2>5. /\ context'.head = p + 1 /\ context'.frames = fr2 /\ context'.failed = context.failed
        /\ context'.ended = context.ended /\ context'.evaluateTokens = e
    BY <2>4, <1>1 DEF TypeInv, Moved
  <2>6. TypeInv'
    BY <1>1, <1>2, <1>9, <2>3, <2>4 DEF TypeInv, Moved, Looks
  <2>7. ASSUME ~context.failed
        PROVE  Consistent(e, fr2, p + 1, history'.held, history'.kept, history'.skipped, deps[File])
    <3>1. Nested(fr, p)
      BY <1>4, <2>7 DEF Consistent
    <3>2. Nested(fr2, p + 1) /\ Base(fr2, p + 1) = Base(fr, p)
      BY <1>2, <2>1, <2>2, <3>1, CountNested
    <3> HIDE DEF fr2
    <3>3. /\ history'.held = history.held /\ history'.kept = history.kept
          /\ history'.skipped = IF e THEN history.skipped \cup {p} ELSE history.skipped
      BY <1>1, <1>9 DEF TypeInv, Looks
    <3>4. ASSUME e PROVE Answered(fr, p, history.held) /\ p \notin history.held /\ p \notin history.kept
      BY <1>2, <1>4, <2>7, <3>4, NotYet DEF Consistent
    <3>5. ASSUME e PROVE Grows(history.held, history.held, p) /\ Answered(fr2, p + 1, history.held)
      <4>1. Grows(history.held, history.held, p) /\ Kind(p) \notin Ends
        BY <1>2, <3>4, <3>5 DEF Grows, Ends
      <4>2. fr2 = <<>> => Len(fr2) = 0
        OBVIOUS
      <4>3. ASSUME NEW k \in 1..Len(fr2)
            PROVE  /\ k \in 1..Len(fr) /\ fr2[k].active = fr[k].active /\ fr2[k].had_else = fr[k].had_else
                   /\ fr2[k].complete_inactive = fr[k].complete_inactive
        <5>1. k \in 1..Len(fr) - 1 \/ k = Len(fr)
          BY <1>2, <2>3
        <5> QED
          BY <5>1, <2>2, <2>3
      <4> QED
        BY <1>2, <3>1, <3>2, <3>4, <3>5, <4>1, <4>2, <4>3, AnsweredNext
    <3>6. Enabled(e, p + 1, history.held, deps[File])
      BY <1>6, <2>7
    <3> QED
      BY <1>2, <1>4, <1>5, <1>9, <2>7, <3>2, <3>3, <3>4, <3>5, <3>6, ConsistentNext
  <2> QED
    BY <1>2, <2>5, <2>6, <2>7
<1> QED
  BY <1>7, <1>8, <1>9 DEF If

\* What a step that reads an #elif or #else in an #if has to show.
LEMMA BranchStep ==
    ASSUME IInv, NEW kind \in {"elif", "else"}, Reads(kind), InIf, items' = items, deps' = deps,
           NEW f \in FrameType,
           context' \in [evaluateTokens : {context.evaluateTokens}, head : {context.head + 1},
                         frames : {context.frames, Append(Front(context.frames), f)},
                         layers : {context'.layers}, cached : {context'.cached}, start : {context'.start},
                         failed : BOOLEAN, ended : {FALSE}],
           context.failed => context'.failed,
           history' \in [kept : {history.kept}, skipped : {history.skipped}, held : SUBSET Nat, call : {history'.call}],
           ~context'.failed =>
              /\ context.evaluateTokens => Grows(history.held, history'.held, context.head)
              /\ ~context.evaluateTokens => history'.held = history.held
              /\ \/ ~Outer /\ context'.frames = context.frames /\ history'.held = history.held
                 \/ /\ Outer /\ context'.frames = Append(Front(context.frames), f) /\ f.depth = 0
                    /\ context.evaluateTokens => Answers(Frame, f, context.head, history'.held)
    PROVE  IInv'
<1> DEFINE p == context.head
           fr == context.frames
           fr2 == context'.frames
           e == context.evaluateTokens
<1>1. TypeInv
  BY DEF IInv
<1>2. /\ items \in Seq(ItemType) /\ p \in DOMAIN items /\ p \in Nat \ {0}
      /\ p + 1 <= Len(items) + 1 /\ p + 1 \in Nat \ {0}
      /\ Kind(p) = kind /\ e \in BOOLEAN
      /\ fr \in Seq(FrameType) /\ fr # <<>> /\ Frame = fr[Len(fr)]
  BY <1>1, Reading
<1>3. /\ Append(Front(fr), f) \in Seq(FrameType) /\ Len(Append(Front(fr), f)) = Len(fr)
      /\ \A k \in 1..Len(fr) - 1 : Append(Front(fr), f)[k] = fr[k]
      /\ Append(Front(fr), f)[Len(fr)] = f
  BY <1>2, LastFrame
<1>4. /\ context'.evaluateTokens = e /\ context'.head = p + 1 /\ ~context'.ended
      /\ history'.kept = history.kept /\ history'.skipped = history.skipped
      /\ fr2 \in {fr, Append(Front(fr), f)}
  OBVIOUS
<1>5. fr2 \in Seq(FrameType) /\ Len(fr2) = Len(fr) /\ \A k \in 1..Len(fr) - 1 : fr2[k] = fr[k]
  BY <1>2, <1>3, <1>4
<1>6. TypeInv'
  <2>1. context' \in [evaluateTokens : BOOLEAN, head : Nat \ {0}, frames : Seq(FrameType),
                      layers : {context'.layers}, cached : {context'.cached}, start : {context'.start},
                      failed : BOOLEAN, ended : BOOLEAN]
    BY <1>2, <1>5
  <2>2. history' \in [kept : SUBSET Nat, skipped : SUBSET Nat, held : SUBSET Nat, call : {history'.call}]
    BY <1>1 DEF TypeInv
  <2> QED
    BY <1>1, <1>2, <1>4, <2>1, <2>2 DEF TypeInv
<1>7. ASSUME ~context'.failed
      PROVE  Consistent(e, fr2, p + 1, history'.held, history.kept, history.skipped, deps[File])
  <2>1. Consistent(e, fr, p, history.held, history.kept, history.skipped, deps[File])
    BY <1>7 DEF IInv
  <2>2. \/ fr[Len(fr)].depth # 0 /\ fr2[Len(fr)] = fr[Len(fr)] /\ history'.held = history.held
        \/ /\ fr[Len(fr)].depth = 0 /\ fr2[Len(fr)].depth = 0
           /\ e => Answers(fr[Len(fr)], fr2[Len(fr)], p, history'.held)
    BY <1>2, <1>3, <1>7 DEF Outer
  <2>3. /\ e => Grows(history.held, history'.held, p)
        /\ ~e => history'.held = history.held
    BY <1>7
  <2>4. Kind(p) \in {"elif", "else"}
    BY <1>2
  <2> HIDE DEF fr2, fr, e, p
  <2> QED
    BY <1>2, <1>5, <2>1, <2>2, <2>3, <2>4, BranchConsistent
<1> QED
  BY <1>4, <1>6, <1>7, SameItems DEF IInv

LEMMA ElifStep ==
    ASSUME IInv, Elif
    PROVE  IInv'
<1> DEFINE wrong == Outer /\ Frame.had_else
           complete == Frame.complete_inactive \/ wrong
           c == [context EXCEPT !.failed = @ \/ (wrong /\ context.evaluateTokens)]
           p == context.head
<1>1. TypeInv /\ Reads("elif") /\ InIf /\ items' = items /\ deps' = deps
  BY DEF Elif, IInv
<1>2. /\ Kind(p) = "elif" /\ p \in Nat \ {0} /\ ~context.ended /\ Frame \in FrameType
      /\ context.evaluateTokens \in BOOLEAN /\ context.failed \in BOOLEAN
  BY <1>1, Reading
<1>3. ASSUME ~context.failed, context.evaluateTokens PROVE p \notin history.held
  <2>1. history.held \subseteq 1..p - 1
    BY <1>3 DEF IInv, Consistent, Answered
  <2> QED
    BY <1>2, <2>1
<1>4. CASE /\ Outer /\ ~Frame.active /\ ~complete /\ Asks
           /\ context' = [c EXCEPT !.head = @ + 1, !.cached = Cache(Item.name),
                                   !.frames = Append(Front(@), [Frame EXCEPT !.active = Holds(Item)])]
  <2> DEFINE f == [Frame EXCEPT !.active = Holds(Item)]
  <2>1. Holds(Item) \in BOOLEAN
    BY DEF Holds
  <2> HIDE DEF Holds
  <2>2. /\ f \in FrameType /\ f.depth = 0 /\ f.active = Holds(Item)
        /\ ~f.complete_inactive /\ ~f.had_else /\ ~Frame.complete_inactive /\ ~Frame.had_else /\ ~Frame.active
    BY <1>2, <1>4, <2>1 DEF FrameType, Outer
  <2>7. c = context
    <3>1. (context.failed \/ (wrong /\ context.evaluateTokens)) = context.failed
      BY <1>2, <1>4
    <3> QED
      BY <1>1, <3>1 DEF TypeInv
  <2>3. context' = [context EXCEPT !.head = @ + 1, !.cached = Cache(Item.name), !.frames = Append(Front(@), f)]
    BY <1>4, <2>7
  <2>4. context' \in [evaluateTokens : {context.evaluateTokens}, head : {context.head + 1},
                      frames : {context.frames, Append(Front(context.frames), f)},
                      layers : {context'.layers}, cached : {context'.cached}, start : {context'.start},
                      failed : {context.failed}, ended : {FALSE}]
        /\ context'.frames = Append(Front(context.frames), f)
    BY <1>1, <1>2, <2>3 DEF TypeInv
  <2> HIDE DEF f
  <2>5. history' \in [kept : {history.kept}, skipped : {history.skipped}, held : SUBSET Nat, call : {history'.call}]
    BY <1>1, <1>2, <1>4, Reading DEF TypeInv, Asks, Kind
  <2>6. ASSUME ~context.failed
        PROVE  /\ context.evaluateTokens /\ Grows(history.held, history'.held, p)
               /\ Answers(Frame, f, p, history'.held)
    <3>1. /\ context.evaluateTokens /\ Grows(history.held, history'.held, p)
          /\ (p \in history'.held <=> Holds(Item))
      BY <1>1, <1>4, <2>6, Asking
    <3>2. Kind(p) # "else"
      BY <1>2
    <3>3. Answers(Frame, f, p, history'.held)
      BY <2>1, <2>2, <3>1, <3>2 DEF Answers, Told
    <3> QED
      BY <3>1, <3>3
  <2> QED
    BY <1>1, <1>2, <1>4, <2>2, <2>4, <2>5, <2>6, BranchStep
<1>5. CASE /\ Outer /\ ~Frame.active /\ ~complete /\ ~context.evaluateTokens /\ context' = Moved /\ Looks(FALSE)
  <2> DEFINE f == Frame
  <2>1. /\ context' \in [evaluateTokens : {context.evaluateTokens}, head : {context.head + 1},
                         frames : {context.frames, Append(Front(context.frames), f)},
                         layers : {context'.layers}, cached : {context'.cached}, start : {context'.start},
                         failed : {context.failed}, ended : {FALSE}]
        /\ context'.frames = context.frames
    BY <1>1, <1>2, <1>5 DEF TypeInv, Moved
  <2>2. context'.frames = Append(Front(context.frames), f)
    BY <1>1, <1>2, <2>1, LastAgain DEF InIf, Frame, TypeInv
  <2>3. history' = history /\ history \in [kept : {history.kept}, skipped : {history.skipped}, held : SUBSET Nat, call : {history.call}]
    BY <1>1, <1>5 DEF TypeInv, Looks
  <2>4. f.depth = 0
    BY <1>5 DEF Outer
  <2> HIDE DEF f
  <2>5. f \in FrameType
    BY <1>2 DEF f
  <2> QED
    BY <1>1, <1>2, <1>5, <2>1, <2>2, <2>3, <2>4, <2>5, BranchStep
<1>6. CASE /\ Outer /\ (Frame.active \/ complete) /\ Passes
           /\ context' = [c EXCEPT !.head = @ + 1,
                                   !.frames = Append(Front(@), [Frame EXCEPT !.active = FALSE, !.complete_inactive = TRUE])]
  <2> DEFINE f == [Frame EXCEPT !.active = FALSE, !.complete_inactive = TRUE]
  <2>1. f \in FrameType /\ f.depth = 0 /\ ~f.active /\ f.complete_inactive /\ f.had_else = Frame.had_else
    BY <1>2, <1>6 DEF FrameType, Outer
  <2>2. /\ context' \in [evaluateTokens : {context.evaluateTokens}, head : {context.head + 1},
                         frames : {context.frames, Append(Front(context.frames), f)},
                         layers : {context'.layers}, cached : {context'.cached}, start : {context'.start},
                         failed : BOOLEAN, ended : {FALSE}]
        /\ context'.frames = Append(Front(context.frames), f)
        /\ context'.failed = (context.failed \/ (Frame.had_else /\ context.evaluateTokens))
    BY <1>1, <1>2, <1>6 DEF TypeInv
  <2> HIDE DEF f
  <2>3. /\ history' \in [kept : {history.kept}, skipped : {history.skipped}, held : SUBSET Nat, call : {history'.call}]
        /\ history'.held = history.held
    BY <1>1, <1>6 DEF TypeInv, Passes
  <2>4. ASSUME ~context'.failed, context.evaluateTokens
        PROVE  Grows(history.held, history'.held, p) /\ Answers(Frame, f, p, history'.held)
    <3>1. p \notin history'.held /\ Kind(p) # "else" /\ ~Frame.had_else
      BY <1>2, <1>3, <2>2, <2>3, <2>4
    <3>2. Grows(history.held, history'.held, p)
      BY <2>3, <3>1 DEF Grows
    <3>3. Frame.active \/ Frame.complete_inactive
      BY <1>6, <3>1
    <3>4. Answers(Frame, f, p, history'.held)
      BY <2>1, <3>1, <3>3 DEF Answers, Told
    <3> QED
      BY <3>2, <3>4
  <2> QED
    BY <1>1, <1>2, <1>6, <2>1, <2>2, <2>3, <2>4, BranchStep
<1>7. CASE ~Outer /\ context' = Moved /\ Passes
  <2>1. /\ context' \in [evaluateTokens : {context.evaluateTokens}, head : {context.head + 1},
                         frames : {context.frames, Append(Front(context.frames), Frame)},
                         layers : {context'.layers}, cached : {context'.cached}, start : {context'.start},
                         failed : {context.failed}, ended : {FALSE}]
        /\ context'.frames = context.frames
    BY <1>1, <1>2, <1>7 DEF TypeInv, Moved
  <2>2. /\ history' \in [kept : {history.kept}, skipped : {history.skipped}, held : SUBSET Nat, call : {history'.call}]
        /\ history'.held = history.held
    BY <1>1, <1>7 DEF TypeInv, Passes
  <2>3. context.evaluateTokens /\ ~context.failed => Grows(history.held, history'.held, p)
    BY <1>3, <2>2 DEF Grows
  <2> QED
    BY <1>1, <1>2, <1>7, <2>1, <2>2, <2>3, BranchStep
<1> QED
  BY <1>4, <1>5, <1>6, <1>7 DEF Elif

LEMMA ElseStep ==
    ASSUME IInv, Else
    PROVE  IInv'
<1> DEFINE p == context.head
<1>1. TypeInv /\ Reads("else") /\ InIf /\ items' = items /\ deps' = deps
  BY DEF Else, IInv
<1>2. /\ Kind(p) = "else" /\ p \in Nat \ {0} /\ ~context.ended /\ Frame \in FrameType
      /\ context.evaluateTokens \in BOOLEAN /\ context.failed \in BOOLEAN
  BY <1>1, Reading
<1>3. ASSUME ~context.failed, context.evaluateTokens PROVE p \notin history.held
  <2>1. history.held \subseteq 1..p - 1
    BY <1>3 DEF IInv, Consistent, Answered
  <2> QED
    BY <1>2, <2>1
<1>4. /\ history' \in [kept : {history.kept}, skipped : {history.skipped}, held : SUBSET Nat, call : {history'.call}]
      /\ history'.held = history.held
  BY <1>1 DEF TypeInv, Passes, Else
<1>5. context.evaluateTokens /\ ~context.failed => Grows(history.held, history'.held, p)
  BY <1>3, <1>4 DEF Grows
<1>6. CASE ~Flips
  <2> DEFINE f == Frame
  <2>1. context' = Moved
    BY <1>6 DEF Else
  <2>2. /\ context' \in [evaluateTokens : {context.evaluateTokens}, head : {context.head + 1},
                         frames : {context.frames, Append(Front(context.frames), f)},
                         layers : {context'.layers}, cached : {context'.cached}, start : {context'.start},
                         failed : {context.failed}, ended : {FALSE}]
        /\ context'.frames = context.frames
    BY <1>1, <1>2, <2>1 DEF TypeInv, Moved
  <2>3. context'.frames = Append(Front(context.frames), f)
    BY <1>1, <1>2, <2>2, LastAgain DEF InIf, Frame, TypeInv
  <2> HIDE DEF f
  <2>4. Outer => f.depth = 0
    BY DEF Outer, f
  <2>5. f \in FrameType
    BY <1>2 DEF f
  <2>6. ASSUME Outer, ~context.failed, context.evaluateTokens PROVE Answers(Frame, f, p, history'.held)
    <3>1. Frame.complete_inactive /\ f = Frame /\ p \notin history'.held /\ Kind(p) = "else"
      BY <1>2, <1>3, <1>4, <1>6, <2>6 DEF Flips, f
    <3> QED
      BY <3>1 DEF Answers, Told
  <2> QED
    BY <1>1, <1>2, <1>4, <1>5, <2>2, <2>3, <2>4, <2>5, <2>6, BranchStep
<1>7. CASE Flips
  <2> DEFINE f == [Frame EXCEPT !.active = ~@, !.had_else = TRUE, !.complete_inactive = @ \/ Frame.had_else]
  <2>1. /\ f \in FrameType /\ f.depth = 0 /\ f.active = ~Frame.active /\ f.had_else = TRUE
        /\ f.complete_inactive = (Frame.complete_inactive \/ Frame.had_else)
    BY <1>2, <1>7 DEF FrameType, Flips, Outer
  <2>2. context' = [WithFrame(f) EXCEPT !.failed = @ \/ (Frame.had_else /\ context.evaluateTokens)]
    BY <1>7 DEF Else
  <2> HIDE DEF f
  <2>3. /\ context' \in [evaluateTokens : {context.evaluateTokens}, head : {context.head + 1},
                         frames : {context.frames, Append(Front(context.frames), f)},
                         layers : {context'.layers}, cached : {context'.cached}, start : {context'.start},
                         failed : BOOLEAN, ended : {FALSE}]
        /\ context'.frames = Append(Front(context.frames), f)
        /\ context'.failed = (context.failed \/ (Frame.had_else /\ context.evaluateTokens))
    BY <1>1, <1>2, <2>2 DEF TypeInv, Moved, WithFrame
  <2>4. ASSUME ~context'.failed, context.evaluateTokens PROVE Answers(Frame, f, p, history'.held)
    <3>1. ~Frame.complete_inactive /\ ~Frame.had_else /\ p \notin history'.held /\ Kind(p) = "else"
      BY <1>2, <1>3, <1>4, <1>7, <2>3, <2>4 DEF Flips
    <3>2. /\ Frame.active \in BOOLEAN /\ ~f.complete_inactive /\ f.had_else /\ (f.active <=> ~Frame.active)
      BY <1>2, <2>1, <3>1 DEF FrameType
    <3> QED
      BY <3>1, <3>2 DEF Answers, Told
  <2>5. Outer
    BY <1>7 DEF Flips
  <2> QED
    BY <1>1, <1>2, <1>4, <1>5, <2>1, <2>3, <2>4, <2>5, BranchStep
<1> QED
  BY <1>6, <1>7

LEMMA EndIfStep ==
    ASSUME IInv, EndIf
    PROVE  IInv'
<1> DEFINE p == context.head
           fr == context.frames
           e == context.evaluateTokens
           f == [Frame EXCEPT !.depth = @ - 1]
           fr2 == IF Outer THEN Front(fr) ELSE Append(Front(fr), f)
<1>1. TypeInv /\ Reads("endif") /\ InIf /\ items' = items /\ deps' = deps /\ Passes
  BY DEF EndIf, IInv
<1>2. /\ items \in Seq(ItemType) /\ p \in DOMAIN items /\ p \in Nat \ {0}
      /\ p + 1 <= Len(items) + 1 /\ p + 1 \in Nat \ {0} /\ DOMAIN items \subseteq Nat
      /\ Kind(p) = "endif" /\ ~context.ended /\ e \in BOOLEAN
      /\ fr \in Seq(FrameType) /\ fr # <<>> /\ Frame = fr[Len(fr)] /\ Frame \in FrameType
  BY <1>1, Reading
<1>3. ~Outer => /\ f \in FrameType /\ f.depth = fr[Len(fr)].depth - 1 /\ f.active = fr[Len(fr)].active
                /\ f.had_else = fr[Len(fr)].had_else /\ f.complete_inactive = fr[Len(fr)].complete_inactive
  <2>1. ~Outer => Frame.depth \in Nat /\ Frame.depth # 0
    BY <1>1, <1>2 DEF FrameType, Outer
  <2>2. ~Outer => Frame.depth - 1 \in Nat
    BY <2>1
  <2> QED
    BY <1>2, <2>2 DEF FrameType
<1>4. context' = [Moved EXCEPT !.frames = fr2]
  BY DEF EndIf, WithFrame, Moved
<1> HIDE DEF f
<1>5. fr2 \in Seq(FrameType)
  BY <1>2, <1>3, LastFrame
<1>6. /\ context'.head = p + 1 /\ context'.frames = fr2 /\ context'.failed = context.failed
      /\ context'.ended = context.ended /\ context'.evaluateTokens = e
  BY <1>1, <1>4 DEF TypeInv, Moved
<1>7. history'.held = history.held /\ history'.kept = history.kept /\ history'.skipped = history.skipped
  BY <1>1 DEF TypeInv, Passes
<1>8. TypeInv'
  <2> HIDE DEF fr2
  <2> QED
    BY <1>1, <1>2, <1>4, <1>5 DEF TypeInv, Moved, Passes
<1>9. ASSUME ~context.failed
      PROVE  Consistent(e, fr2, p + 1, history.held, history.kept, history.skipped, deps[File])
  <2>1. Consistent(e, fr, p, history.held, history.kept, history.skipped, deps[File])
    BY <1>9 DEF IInv
  <2>2. Nested(fr, p) /\ (e => Answered(fr, p, history.held))
    BY <2>1 DEF Consistent
  <2>3. /\ Len(fr) \in Nat /\ Len(fr) >= 1 /\ fr[Len(fr)].depth \in Nat /\ OpenIfs(fr) = Len(fr) + fr[Len(fr)].depth
        /\ OpenIfs(fr) \in Nat
    BY <1>2, <2>2, NestedType
  <2>4. /\ Nested(fr2, p + 1) /\ Base(fr2, p + 1) = Base(fr, p)
        /\ \A k \in 1..Len(fr2) : /\ k \in 1..Len(fr) /\ k < OpenIfs(fr)
                                  /\ fr2[k].active = fr[k].active /\ fr2[k].had_else = fr[k].had_else
                                  /\ fr2[k].complete_inactive = fr[k].complete_inactive
    <3>1. CASE Outer
      <4>1. fr[Len(fr)].depth = 0 /\ fr2 = Front(fr)
        BY <1>2, <3>1 DEF Outer
      <4>2. Nested(fr2, p + 1) /\ Base(fr2, p + 1) = Base(fr, p)
        BY <1>2, <2>2, <4>1, PopNested
      <4>3. Len(fr2) = Len(fr) - 1 /\ \A k \in 1..Len(fr) - 1 : fr2[k] = fr[k]
        BY <1>2, <4>1, FrontFrames
      <4> HIDE DEF fr2
      <4>4. \A k \in 1..Len(fr) - 1 : k \in 1..Len(fr) /\ k < OpenIfs(fr)
        BY <2>3
      <4> QED
        BY <4>2, <4>3, <4>4
    <3>2. CASE ~Outer
      <4>1. fr2 = Append(Front(fr), f) /\ fr[Len(fr)].depth # 0
        BY <1>1, <1>2, <3>2 DEF Outer
      <4>2. ~fr[Len(fr)].active
        BY <1>2, <2>2, <4>1 DEF Nested
      <4>3. Nested(fr2, p + 1) /\ Base(fr2, p + 1) = Base(fr, p)
        BY <1>2, <1>3, <2>2, <3>2, <4>1, <4>2, CountNested
      <4>4. Len(fr2) = Len(fr) /\ fr2[Len(fr)] = f /\ \A k \in 1..Len(fr) - 1 : fr2[k] = fr[k]
        BY <1>2, <1>3, <3>2, <4>1, LastFrame
      <4> HIDE DEF fr2
      <4>5. \A k \in 1..Len(fr) : k < OpenIfs(fr) /\ (k \in 1..Len(fr) - 1 \/ k = Len(fr))
        BY <2>3, <4>1
      <4> QED
        BY <1>3, <3>2, <4>3, <4>4, <4>5
    <3> QED
      BY <3>1, <3>2
  <2>5. ASSUME e PROVE Grows(history.held, history.held, p) /\ p \notin history.kept /\ p \notin history.skipped
    BY <1>2, <2>1, <2>5, NotYet DEF Grows
  <2> HIDE DEF fr2
  <2>6. ASSUME e PROVE Answered(fr2, p + 1, history.held)
    <3>1. fr2 = <<>> => Len(fr2) = 0
      OBVIOUS
    <3> QED
      BY <1>2, <2>2, <2>4, <2>5, <2>6, <3>1, AnsweredNext
  <2>7. Enabled(e, p + 1, history.held, deps[File])
    BY <1>2, <2>1, EnabledNext DEF Consistent
  <2> QED
    BY <1>2, <2>1, <2>4, <2>5, <2>6, <2>7, ConsistentNext
<1> QED
  BY <1>1, <1>2, <1>6, <1>7, <1>8, <1>9, SameItems DEF IInv

\* A directive's own dependency is enabled if the directive is selected.
LEMMA ImportEnabled ==
    ASSUME items \in Seq(ItemType), NEW p \in DOMAIN items, Kind(p) = "import", NEW evaluate \in BOOLEAN, NEW held,
           NEW dd, Enabled(evaluate, p, held, dd), NEW dep, dep.to = items[p].to, NEW dd2,
           \A nr \in DOMAIN dd2 : \/ dd2[nr] = dep
                                  \/ nr \in DOMAIN dd /\ dd2[nr] = dd[nr] /\ dd[nr].to # dep.to,
           ~dep.disabled => Free(p) \/ (evaluate /\ SelectedOf(held, p)),
           evaluate => ~dep.disabled
    PROVE  Enabled(evaluate, p + 1, held, dd2)
<1>1. p \in Nat \ {0}
  BY Files
<1>2. p + 1 - 1 = p /\ 1..p = (1..p - 1) \cup {p}
  BY <1>1
<1>3. ASSUME NEW nr \in DOMAIN dd2, ~dd2[nr].disabled
      PROVE  \/ \E i \in DOMAIN items : Names(dd2, i, nr) /\ Free(i)
             \/ evaluate /\ \E i \in 1..p : Names(dd2, i, nr) /\ SelectedOf(held, i)
  <2>1. CASE dd2[nr] = dep
    <3>1. Names(dd2, p, nr)
      BY <2>1 DEF Names
    <3> QED
      BY <1>2, <1>3, <2>1, <3>1
  <2>2. CASE nr \in DOMAIN dd /\ dd2[nr] = dd[nr]
    <3>1. \A i : Names(dd, i, nr) => Names(dd2, i, nr)
      BY <2>2 DEF Names
    <3> QED
      BY <1>2, <1>3, <2>2, <3>1 DEF Enabled
  <2> QED
    BY <2>1, <2>2
<1>4. ASSUME evaluate, NEW i \in 1..p, NEW nr \in DOMAIN dd2, Names(dd2, i, nr), SelectedOf(held, i)
      PROVE  ~dd2[nr].disabled
  <2>1. CASE dd2[nr] = dep
    BY <1>4, <2>1
  <2>2. CASE nr \in DOMAIN dd /\ dd2[nr] = dd[nr] /\ dd[nr].to # dep.to
    <3>1. Names(dd, i, nr) /\ i # p
      BY <1>4, <2>2 DEF Names
    <3>2. i \in 1..p - 1
      BY <1>2, <3>1
    <3> QED
      BY <1>4, <2>2, <3>1, <3>2 DEF Enabled
  <2> QED
    BY <2>1, <2>2
<1> QED
  BY <1>2, <1>3, <1>4 DEF Enabled

LEMMA ImportStep ==
    ASSUME IInv, Import
    PROVE  IInv'
<1> DEFINE p == context.head
           fr == context.frames
           e == context.evaluateTokens
           dd == deps[File]
           dd2 == deps'[File]
           dep == [to |-> Item.to, disabled |-> InIf /\ ~e]
           at == {nr \in 1..Len(dd) : dd[nr].to = dep.to}
<1>1. /\ TypeInv /\ Reads("import") /\ items' = items /\ Looks(TRUE) /\ context' = Moved /\ (Active \/ ~e)
      /\ deps' = [deps EXCEPT ![File] = IF at = {} THEN Append(dd, dep) ELSE [nr \in 1..Len(dd) |-> IF nr \in at THEN dep ELSE dd[nr]]]
  BY DEF Import, IInv
<1>2. /\ items \in Seq(ItemType) /\ p \in DOMAIN items /\ p \in Nat \ {0}
      /\ p + 1 <= Len(items) + 1 /\ p + 1 \in Nat \ {0} /\ DOMAIN items \subseteq Nat \ {0}
      /\ Kind(p) = "import" /\ ~context.ended /\ e \in BOOLEAN /\ Item = items[p] /\ Item \in ItemType
      /\ fr \in Seq(FrameType) /\ (InIf <=> fr # <<>>)
      /\ InIf => Frame = fr[Len(fr)]
  BY <1>1, Reading
<1>3. dd \in Seq(Dependency) /\ Len(dd) \in Nat /\ DOMAIN dd = 1..Len(dd) /\ File \in DOMAIN deps
  BY <1>1, LenProperties DEF TypeInv
<1>4. dep \in Dependency /\ dep.to = items[p].to /\ (dep.disabled <=> InIf /\ ~e)
  BY <1>2 DEF ItemType, Dependency
<1>5. dd2 = IF at = {} THEN Append(dd, dep) ELSE [nr \in 1..Len(dd) |-> IF nr \in at THEN dep ELSE dd[nr]]
  BY <1>1, <1>3
<1> HIDE DEF dep
<1>6. /\ dd2 \in Seq(Dependency)
      /\ \A nr \in DOMAIN dd2 : dd2[nr] = dep \/ (nr \in DOMAIN dd /\ dd2[nr] = dd[nr] /\ dd[nr].to # dep.to)
  <2>1. CASE at = {}
    <3>1. dd2 = Append(dd, dep)
      BY <1>5, <2>1
    <3>2. /\ dd2 \in Seq(Dependency) /\ Len(dd2) = Len(dd) + 1
          /\ \A nr \in 1..Len(dd) : dd2[nr] = dd[nr]
          /\ dd2[Len(dd) + 1] = dep
      BY <1>3, <1>4, <3>1, AppendProperties
    <3>3. DOMAIN dd2 = 1..Len(dd) + 1
      BY <3>2, LenProperties
    <3> HIDE DEF dd2
    <3>4. ASSUME NEW nr \in DOMAIN dd2, nr # Len(dd) + 1
          PROVE  nr \in DOMAIN dd /\ dd2[nr] = dd[nr] /\ dd[nr].to # dep.to
      <4>1. nr \in 1..Len(dd)
        BY <1>3, <3>3, <3>4
      <4> QED
        BY <1>3, <2>1, <3>2, <4>1
    <3> QED
      BY <3>2, <3>4
  <2>2. CASE at # {}
    <3>1. dd2 = [nr \in 1..Len(dd) |-> IF nr \in at THEN dep ELSE dd[nr]]
      BY <1>5, <2>2
    <3>2. \A nr \in 1..Len(dd) : (IF nr \in at THEN dep ELSE dd[nr]) \in Dependency
      BY <1>3, <1>4
    <3>3. dd2 \in Seq(Dependency)
      <4> HIDE DEF dd, at, dd2
      <4> QED
        BY <1>3, <3>1, <3>2, IsASeq
    <3> QED
      BY <1>3, <3>1, <3>3
  <2> QED
    BY <2>1, <2>2
<1>7. /\ context'.head = p + 1 /\ context'.frames = fr /\ context'.failed = context.failed
      /\ context'.ended = context.ended /\ context'.evaluateTokens = e
  BY <1>1 DEF TypeInv, Moved
<1>8. /\ history'.held = history.held /\ history'.skipped = history.skipped
      /\ history'.kept = IF e THEN history.kept \cup {p} ELSE history.kept
  BY <1>1 DEF TypeInv, Looks
<1>9. TypeInv'
  <2>1. DOMAIN deps' = DOMAIN deps
    BY <1>1
  <2> HIDE DEF dd2
  <2>2. deps'[File] \in Seq(Dependency)
    BY <1>6 DEF dd2
  <2> QED
    BY <1>1, <1>2, <1>3, <2>1, <2>2 DEF TypeInv, Moved, Looks
<1>10. ASSUME ~context.failed
       PROVE  Consistent(e, fr, p + 1, history.held, history'.kept, history.skipped, dd2)
  <2>1. Consistent(e, fr, p, history.held, history.kept, history.skipped, dd)
    BY <1>10 DEF IInv
  <2>2. e => (SelectedOf(history.held, p) <=> Active)
    BY <1>1, <1>10, Selecting DEF Ends
  <2>3. ~InIf => Free(p)
    <3> SUFFICES ASSUME ~InIf PROVE Free(p)
      OBVIOUS
    <3>1. Nested(<<>>, p)
      BY <1>2, <2>1 DEF Consistent
    <3> QED
      BY <1>2, <3>1, OutsideFree
  <2>4. ~dep.disabled => Free(p) \/ (e /\ SelectedOf(history.held, p))
    BY <1>1, <1>4, <2>2, <2>3
  <2>5. Enabled(e, p, history.held, dd)
    BY <2>1 DEF Consistent
  <2> HIDE DEF dd, dd2
  <2>6. Enabled(e, p + 1, history.held, dd2)
    BY <1>2, <1>4, <1>6, <2>4, <2>5, ImportEnabled
  <2>7. Kind(p) \notin Branches \cup {"endif"}
    BY <1>2 DEF Branches
  <2>8. e => fr = <<>> \/ fr[Len(fr)].active
    BY <1>1, <1>2 DEF Active
  <2> QED
    BY <1>2, <1>8, <2>1, <2>6, <2>7, <2>8, PlainConsistent
<1> QED
  BY <1>1, <1>2, <1>7, <1>8, <1>9, <1>10, SameItems DEF IInv

\* An item that is looked at and changes nothing in the nesting, or two of them.
LEMMA PlainStep ==
    ASSUME IInv, NEW kind, Reads(kind), kind \notin {"if", "import"}, kind \in Ends => ~InIf, Active,
           items' = items, deps' = deps, NEW n \in {1, 2},
           n = 2 => context.head + 1 \in DOMAIN items /\ Kind(context.head + 1) = "token",
           context' \in [evaluateTokens : {context.evaluateTokens}, head : {context.head + n}, frames : {context.frames},
                         layers : {context'.layers}, cached : {context'.cached}, start : {context'.start},
                         failed : {context.failed}, ended : {FALSE}],
           history' \in [kept : {IF context.evaluateTokens THEN history.kept \cup {context.head} ELSE history.kept},
                         skipped : {history.skipped}, held : {history.held}, call : {history'.call}]
    PROVE  IInv'
<1> DEFINE p == context.head
           fr == context.frames
           e == context.evaluateTokens
<1>1. TypeInv
  BY DEF IInv
<1>2. /\ items \in Seq(ItemType) /\ p \in DOMAIN items /\ p \in Nat \ {0} /\ DOMAIN items = 1..Len(items)
      /\ p + 1 <= Len(items) + 1 /\ p + 1 \in Nat \ {0} /\ Len(items) \in Nat
      /\ Kind(p) = kind /\ e \in BOOLEAN
      /\ fr \in Seq(FrameType) /\ (InIf <=> fr # <<>>) /\ (InIf => Frame = fr[Len(fr)])
  BY <1>1, Reading
<1>3. TypeInv'
  <2>1. p + n \in Nat \ {0} /\ p + n <= Len(items) + 1
    BY <1>2
  <2>2. history'.kept \in SUBSET Nat /\ history'.kept = IF e THEN history.kept \cup {p} ELSE history.kept
    BY <1>1, <1>2 DEF TypeInv
  <2> QED
    BY <1>1, <1>2, <2>1, <2>2 DEF TypeInv
<1>4. ASSUME ~context.failed
      PROVE  Consistent(e, fr, p + n, history.held, history'.kept, history.skipped, deps[File])
  <2>1. Consistent(e, fr, p, history.held, history.kept, history.skipped, deps[File])
    BY <1>4 DEF IInv
  <2>2. Enabled(e, p + 1, history.held, deps[File])
    BY <1>2, <2>1, EnabledNext DEF Consistent
  <2>3. Kind(p) \notin Branches \cup {"endif"} \/ (fr = <<>> /\ Kind(p) # "if")
    BY <1>2 DEF Branches, Ends
  <2>4. fr = <<>> \/ fr[Len(fr)].active
    BY <1>2 DEF Active
  <2>5. history'.kept = IF e THEN history.kept \cup {p} ELSE history.kept
    OBVIOUS
  <2>6. Consistent(e, fr, p + 1, history.held, history'.kept, history.skipped, deps[File])
    BY <1>2, <2>1, <2>2, <2>3, <2>4, <2>5, PlainConsistent
  <2>7. CASE n = 2
    <3>1. p + 1 \in DOMAIN items /\ Kind(p + 1) = "token" /\ p + 1 + 1 = p + n
      BY <1>2, <2>7
    <3>2. Kind(p + 1) \notin Branches \cup {"endif"}
      BY <3>1 DEF Branches
    <3> DEFINE q == p + 1
    <3>3. q \in DOMAIN items /\ Kind(q) # "import" /\ Kind(q) \notin Branches \cup {"endif"} /\ q + 1 = p + n
      BY <3>1, <3>2
    <3>4. Consistent(e, fr, q, history.held, history'.kept, history.skipped, deps[File])
      BY <2>6
    <3> HIDE DEF q
    <3>5. Enabled(e, q + 1, history.held, deps[File])
      BY <1>2, <3>3, <3>4, EnabledNext DEF Consistent
    <3>6. Consistent(e, fr, q + 1, history.held, history'.kept, history.skipped, deps[File])
      BY <1>2, <3>3, <3>4, <3>5, PlainConsistent
    <3> QED
      BY <3>3, <3>6
  <2> QED
    BY <2>6, <2>7
<1>5. /\ context'.head = p + n /\ context'.frames = fr /\ context'.failed = context.failed
      /\ ~context'.ended /\ context'.evaluateTokens = e
      /\ history'.held = history.held /\ history'.skipped = history.skipped
  OBVIOUS
<1> QED
  BY <1>3, <1>4, <1>5, SameItems DEF IInv

LEMMA MacroStep ==
    ASSUME IInv, Macro
    PROVE  IInv'
<1>1. TypeInv /\ Reads("macro") /\ Active /\ items' = items /\ deps' = deps /\ Looks(TRUE)
  BY DEF Macro, IInv
<1>2. /\ context.head \in Nat \ {0} /\ context.head \in DOMAIN items /\ items \in Seq(ItemType)
      /\ ~context.ended /\ DOMAIN items \subseteq Nat \ {0}
  BY <1>1, Reading
<1>3. CASE context' = Moved
  <2> DEFINE n == 1
  <2>1. context' \in [evaluateTokens : {context.evaluateTokens}, head : {context.head + n}, frames : {context.frames},
                      layers : {context'.layers}, cached : {context'.cached}, start : {context'.start},
                      failed : {context.failed}, ended : {FALSE}]
    BY <1>1, <1>2, <1>3 DEF TypeInv, Moved
  <2>2. history' \in [kept : {IF context.evaluateTokens THEN history.kept \cup {context.head} ELSE history.kept},
                      skipped : {history.skipped}, held : {history.held}, call : {history'.call}]
    BY <1>1 DEF TypeInv, Looks
  <2>3. n \in {1, 2} /\ n # 2
    OBVIOUS
  <2>4. "macro" \notin Ends
    BY DEF Ends
  <2> HIDE DEF n
  <2> QED
    BY <1>1, <2>1, <2>2, <2>3, <2>4, PlainStep
<1>4. CASE context' = [context EXCEPT !.failed = TRUE, !.ended = TRUE]
  <2>1. TypeInv'
    BY <1>1, <1>2, <1>4 DEF TypeInv, Looks
  <2>2. context'.failed
    BY <1>1, <1>4 DEF TypeInv
  <2> QED
    BY <2>1, <2>2 DEF IInv
<1> QED
  BY <1>3, <1>4 DEF Macro

LEMMA StrayStep ==
    ASSUME IInv, Stray
    PROVE  IInv'
<1>1. TypeInv /\ ~InIf /\ Active /\ items' = items /\ deps' = deps /\ Looks(TRUE) /\ context' = Moved
  BY DEF Stray, IInv, Active
<1>2. PICK kind \in {"else", "endif"} : Reads(kind)
  BY DEF Stray
<1>3. context.head \in Nat \ {0} /\ ~context.ended
  BY <1>1, <1>2, Reading
<1> DEFINE n == 1
<1>4. context' \in [evaluateTokens : {context.evaluateTokens}, head : {context.head + n}, frames : {context.frames},
                    layers : {context'.layers}, cached : {context'.cached}, start : {context'.start},
                    failed : {context.failed}, ended : {FALSE}]
  BY <1>1, <1>3 DEF TypeInv, Moved
<1>5. history' \in [kept : {IF context.evaluateTokens THEN history.kept \cup {context.head} ELSE history.kept},
                    skipped : {history.skipped}, held : {history.held}, call : {history'.call}]
  BY <1>1 DEF TypeInv, Looks
<1>6. n \in {1, 2} /\ n # 2
  OBVIOUS
<1> HIDE DEF n
<1> QED
  BY <1>1, <1>2, <1>4, <1>5, <1>6, PlainStep

LEMMA TokenStep ==
    ASSUME IInv, Token
    PROVE  IInv'
<1> DEFINE call == context.evaluateTokens /\ Identifier(Item.name) /\ MatchMacro(Item.name) # 0
           next == IF context.head < Len(items) THEN items[context.head + 1] ELSE [kind |-> "end"]
           with == call /\ RootOf(Item.name).has_parameters /\ next.kind = "token" /\ next.name = "("
           written == IF Item.kind = "elif" THEN Append(out, "elif") ELSE out
           start == Len(written)
           cached == Cache(Item.name)
           layers == <<BodyLayer(Item.name, 0, FALSE)>> \o (IF with THEN <<ArgLayer(1, 0)>> ELSE <<>>)
           n == IF with THEN 2 ELSE 1
<1>1. PICK kind \in {"token", "elif"} : Reads(kind) /\ (kind = "token" => Active) /\ (kind = "elif" => ~InIf)
  BY DEF Token
<1>2. /\ TypeInv /\ Active /\ items' = items /\ deps' = deps
      /\ context' = IF ~call THEN Moved
                    ELSE [context EXCEPT !.head = @ + n, !.start = start, !.cached = cached, !.layers = layers]
      /\ history' = IF ~context.evaluateTokens THEN history
                    ELSE [history EXCEPT !.kept = @ \cup {context.head},
                                         !.call = IF call THEN <<context.head>> ELSE <<>>]
  BY <1>1 DEF Token, IInv, Active
<1>3. with => call
  OBVIOUS
<1>4. with => context.head < Len(items) /\ items[context.head + 1].kind = "token"
  OBVIOUS
<1> HIDE DEF call, with, start, cached, layers
<1>5. /\ context.head \in Nat \ {0} /\ ~context.ended /\ n \in {1, 2} /\ Len(items) \in Nat
      /\ DOMAIN items = 1..Len(items)
  BY <1>1, <1>2, Reading
<1>6. n = 2 => context.head + 1 \in DOMAIN items /\ Kind(context.head + 1) = "token"
  BY <1>4, <1>5 DEF Kind
<1>7. n = IF call THEN n ELSE 1
  BY <1>3
<1> HIDE DEF n
<1>8. context' \in [evaluateTokens : {context.evaluateTokens}, head : {context.head + n}, frames : {context.frames},
                    layers : {context'.layers}, cached : {context'.cached}, start : {context'.start},
                    failed : {context.failed}, ended : {FALSE}]
  BY <1>2, <1>5, <1>7 DEF TypeInv, Moved
<1>9. history' \in [kept : {IF context.evaluateTokens THEN history.kept \cup {context.head} ELSE history.kept},
                    skipped : {history.skipped}, held : {history.held}, call : {history'.call}]
  BY <1>2 DEF TypeInv
<1> QED
  BY <1>1, <1>2, <1>5, <1>6, <1>8, <1>9, PlainStep DEF Ends

\* The start of a file.
LEMMA StartConsistent ==
    ASSUME NEW evaluate \in BOOLEAN, NEW dd,
           \A nr \in DOMAIN dd : ~dd[nr].disabled => \E i \in DOMAIN items : Names(dd, i, nr) /\ Free(i)
    PROVE  Consistent(evaluate, <<>>, 1, {}, {}, {}, dd)
<1>1. 1..1 - 1 = {} /\ <<>> \in Seq(FrameType) /\ 1..Len(<<>>) = {} /\ 1..Len(<<>>) - 1 = {}
  OBVIOUS
<1>2. Nested(<<>>, 1)
  BY <1>1 DEF Nested
<1>3. Answered(<<>>, 1, {}) /\ Sorted(1, {}, {}, {}) /\ Enabled(evaluate, 1, {}, dd)
  BY <1>1 DEF Answered, Sorted, Enabled
<1> QED
  BY <1>2, <1>3 DEF Consistent

LEMMA InitInv ==
    ASSUME Init
    PROVE  IInv
<1>1. PICK p \in Programs :
         /\ items = p.items
         /\ deps = [i \in 1..Len(p.macros) + 1 |-> IF i = File THEN <<>> ELSE p.deps[i - 1]]
  BY DEF Init
<1>2. p.items \in Seq(ItemType) /\ Len(p.macros) \in Nat
  BY ProgramsType
<1>3. deps[File] = <<>> /\ File \in DOMAIN deps
  BY <1>1, <1>2 DEF File
<1>4. context = Context(FALSE) /\ history = Nothing
  BY DEF Init
<1>5. items \in Seq(ItemType) /\ Len(items) \in Nat
  BY <1>1, <1>2
<1>6. <<>> \in Seq(Dependency) /\ DOMAIN <<>> = {}
  OBVIOUS
<1>7. TypeInv
  BY <1>3, <1>4, <1>5, <1>6 DEF TypeInv, Context, Nothing
<1>8. Consistent(FALSE, <<>>, 1, {}, {}, {}, <<>>)
  BY <1>6, StartConsistent
<1> QED
  BY <1>3, <1>4, <1>7, <1>8 DEF IInv, Context, Nothing

LEMMA EndOfFileStep ==
    ASSUME IInv, EndOfFile
    PROVE  IInv'
<1>1. /\ TypeInv /\ ~context.ended /\ context.head > Len(items) /\ items' = items /\ deps' = deps /\ history' = history
      /\ context' = IF context.evaluateTokens THEN [context EXCEPT !.ended = TRUE, !.failed = @ \/ InIf]
                    ELSE [Context(TRUE) EXCEPT !.failed = context.failed \/ InIf]
  BY DEF EndOfFile, IInv
<1>2. /\ context.evaluateTokens \in BOOLEAN /\ context.failed \in BOOLEAN /\ InIf \in BOOLEAN
      /\ context.head = Len(items) + 1 /\ Len(items) \in Nat
  BY <1>1 DEF TypeInv, InIf
<1>6. TypeInv /\ items' = items /\ deps' = deps /\ history' = history
  BY <1>1
<1> DEFINE failing == context.failed \/ InIf
<1>3. failing \in BOOLEAN
  BY <1>2
<1>4. CASE context.evaluateTokens
  <2>1. context' = [context EXCEPT !.ended = TRUE, !.failed = failing]
    BY <1>1, <1>4
  <2> HIDE DEF failing
  <2>2. TypeInv'
    BY <1>1, <1>2, <1>3, <2>1 DEF TypeInv
  <2>3. /\ context'.head = context.head /\ context'.frames = context.frames /\ context'.failed = failing
        /\ context'.evaluateTokens = context.evaluateTokens
    BY <1>1, <2>1 DEF TypeInv
  <2>4. ~context'.failed => ~context.failed
    BY <2>3 DEF failing
  <2>5. context'.ended => context'.evaluateTokens /\ context'.head = Len(items) + 1
    BY <1>2, <1>4, <2>3
  <2>6. ~context'.failed => Consistent(context'.evaluateTokens, context'.frames, context'.head,
                                       history'.held, history'.kept, history'.skipped, deps'[File])
    BY <1>1, <2>3, <2>4 DEF IInv
  <2> QED
    BY <1>6, <2>2, <2>5, <2>6, SameItems DEF IInv
<1>5. CASE ~context.evaluateTokens
  <2>1. context' = [Context(TRUE) EXCEPT !.failed = failing]
    BY <1>1, <1>5
  <2> HIDE DEF failing
  <2>5. context' \in [evaluateTokens : BOOLEAN, head : Nat \ {0}, frames : Seq(FrameType),
                      layers : {context'.layers}, cached : {context'.cached}, start : {context'.start},
                      failed : BOOLEAN, ended : BOOLEAN] /\ context'.head = 1
    <3>1. <<>> \in Seq(FrameType)
      OBVIOUS
    <3>2. context' = [evaluateTokens |-> TRUE, head |-> 1, frames |-> <<>>, layers |-> <<>>, cached |-> <<>>,
                      start |-> 0, failed |-> failing, ended |-> FALSE]
      BY <2>1 DEF Context
    <3> QED
      BY <1>3, <3>1, <3>2
  <2>2. TypeInv'
    BY <1>2, <1>6, <2>5 DEF TypeInv
  <2>3. /\ context'.head = 1 /\ context'.frames = <<>> /\ context'.failed = failing
        /\ context'.evaluateTokens = TRUE /\ context'.ended = FALSE
    BY <2>1 DEF Context
  <2>4. ASSUME ~context'.failed PROVE Consistent(TRUE, <<>>, 1, history.held, history.kept, history.skipped, deps[File])
    <3>1. /\ history.held = {} /\ history.kept = {} /\ history.skipped = {}
          /\ Enabled(context.evaluateTokens, context.head, history.held, deps[File])
      BY <1>5, <2>3, <2>4 DEF failing, IInv, Consistent
    <3>2. \A nr \in DOMAIN deps[File] : ~deps[File][nr].disabled =>
             \E i \in DOMAIN items : Names(deps[File], i, nr) /\ Free(i)
      BY <1>5, <3>1 DEF Enabled
    <3> QED
      BY <3>1, <3>2, StartConsistent
  <2>6. ~context'.failed => Consistent(context'.evaluateTokens, context'.frames, context'.head,
                                       history'.held, history'.kept, history'.skipped, deps'[File])
    BY <1>1, <2>3, <2>4
  <2> QED
    BY <1>6, <2>2, <2>3, <2>6, SameItems DEF IInv
<1> QED
  BY <1>2, <1>4, <1>5

-----------------------------------------------------------------------------
(* Layers read tokens.                                                        *)

\* The contexts that differ in the layers, and in how far the file is read.
Near(c) ==
    c \in [evaluateTokens : {context.evaluateTokens}, head : {context.head, context.head + 1, context.head + 2},
           frames : {context.frames}, layers : {c.layers}, cached : {c.cached}, start : {c.start},
           failed : {context.failed}, ended : {context.ended}]
Failing(c) ==
    c \in [evaluateTokens : {context.evaluateTokens}, head : {context.head}, frames : {context.frames},
           layers : {c.layers}, cached : {c.cached}, start : {c.start}, failed : {TRUE}, ended : BOOLEAN]

LEMMA NearTo ==
    ASSUME TypeInv
    PROVE  /\ Near(context) /\ Near(Stepped(1)) /\ Near(Stepped(2))
           /\ \A c, layers : Near(c) => Near([c EXCEPT !.layers = layers])
           /\ \A c, cached : Near(c) => Near([c EXCEPT !.cached = cached])
           /\ \A layers : /\ Failing([context EXCEPT !.failed = TRUE, !.layers = layers])
                          /\ Failing([context EXCEPT !.failed = TRUE, !.ended = TRUE, !.layers = layers])
<1>1. Near(context)
  BY DEF TypeInv, Near
<1>2. ASSUME NEW c, Near(c), NEW layers PROVE Near([c EXCEPT !.layers = layers])
  BY <1>2 DEF Near
<1>3. ASSUME NEW c, Near(c), NEW cached PROVE Near([c EXCEPT !.cached = cached])
  BY <1>3 DEF Near
<1>4. ASSUME NEW n \in {1, 2} PROVE Near(Stepped(n))
  <2>1. Near([context EXCEPT !.head = @ + n])
    BY DEF TypeInv, Near
  <2>2. \A l : Near([context EXCEPT !.layers[l].head = @ + n])
    BY <1>1, <1>2
  <2> QED
    BY <2>1, <2>2 DEF Stepped
<1>5. ASSUME NEW layers
      PROVE  /\ Failing([context EXCEPT !.failed = TRUE, !.layers = layers])
             /\ Failing([context EXCEPT !.failed = TRUE, !.ended = TRUE, !.layers = layers])
  BY DEF TypeInv, Failing
<1> QED
  BY <1>1, <1>2, <1>3, <1>4, <1>5

LEMMA LayerStep ==
    ASSUME IInv, CallsHoldTokens, ~context.ended, items' = items, deps' = deps, history' = history,
           Failing(context') \/ (Near(context') /\ context.layers # <<>>)
    PROVE  IInv'
<1> DEFINE p == context.head
           fr == context.frames
           e == context.evaluateTokens
<1>1. TypeInv /\ items \in Seq(ItemType) /\ p \in Nat \ {0} /\ e \in BOOLEAN /\ p <= Len(items) + 1
      /\ DOMAIN items = 1..Len(items) /\ Len(items) \in Nat
  BY Files DEF IInv, TypeInv
<1>2. CASE Failing(context')
  <2>1. TypeInv'
    BY <1>1, <1>2 DEF TypeInv, Failing
  <2>2. context'.failed
    BY <1>2 DEF Failing
  <2> QED
    BY <2>1, <2>2 DEF IInv
<1>3. CASE Near(context') /\ context.layers # <<>>
  <2> DEFINE q == context'.head
             C(r) == Consistent(e, fr, r, history.held, history.kept, history.skipped, deps[File])
  <2>1. /\ q \in {p, p + 1, p + 2} /\ context'.frames = fr /\ context'.evaluateTokens = e
        /\ context'.failed = context.failed /\ ~context'.ended
    BY <1>3 DEF Near
  <2>2. \A i \in p..q - 1 : i \in DOMAIN items /\ Kind(i) = "token"
    BY <1>3 DEF CallsHoldTokens, Kind
  <2> HIDE DEF q
  <2>3. q \in Nat \ {0} /\ q <= Len(items) + 1
    <3>1. CASE q = p
      BY <1>1, <3>1
    <3>2. CASE q # p
      <4>1. q - 1 \in p..q - 1
        BY <1>1, <2>1, <3>2
      <4>2. q - 1 \in DOMAIN items
        BY <2>2, <4>1
      <4> QED
        BY <1>1, <2>1, <4>2
    <3> QED
      BY <3>1, <3>2
  <2>4. TypeInv'
    <3>1. context' \in [evaluateTokens : BOOLEAN, head : Nat \ {0}, frames : Seq(FrameType),
                        layers : {context'.layers}, cached : {context'.cached}, start : {context'.start},
                        failed : BOOLEAN, ended : BOOLEAN]
      BY <1>1, <1>3, <2>3 DEF TypeInv, Near, q
    <3> QED
      BY <1>1, <2>3, <3>1 DEF TypeInv, q
  <2>5. ASSUME ~context.failed PROVE C(q)
    <3>1. C(p)
      BY <2>5 DEF IInv
    <3>2. ASSUME NEW r \in DOMAIN items, Kind(r) = "token", C(r) PROVE C(r + 1)
      <4>1. Kind(r) \notin Branches \cup {"endif"} /\ Kind(r) # "import"
        BY <3>2 DEF Branches
      <4>2. Enabled(e, r + 1, history.held, deps[File])
        BY <1>1, <3>2, <4>1, EnabledNext DEF Consistent
      <4> QED
        BY <1>1, <3>2, <4>1, <4>2, PlainConsistent
    <3> HIDE DEF C
    <3>3. CASE q = p
      BY <3>1, <3>3
    <3>4. CASE q = p + 1
      <4>1. p \in p..q - 1
        BY <1>1, <3>4
      <4> QED
        BY <2>2, <3>1, <3>2, <3>4, <4>1
    <3>5. CASE q = p + 2
      <4>1. p \in p..q - 1 /\ p + 1 \in p..q - 1 /\ p + 1 + 1 = q
        BY <1>1, <3>5
      <4>2. C(p + 1)
        BY <2>2, <3>1, <3>2, <4>1
      <4>3. C(p + 1 + 1)
        BY <2>2, <3>2, <4>1, <4>2
      <4> QED
        BY <4>1, <4>3
    <3> QED
      BY <2>1, <3>3, <3>4, <3>5
  <2>6. ~context'.failed => Consistent(context'.evaluateTokens, context'.frames, context'.head,
                                       history'.held, history'.kept, history'.skipped, deps'[File])
    BY <2>1, <2>5 DEF q
  <2> QED
    BY <2>1, <2>4, <2>6, SameItems DEF IInv
<1> QED
  BY <1>2, <1>3

LEMMA TooDeepStep ==
    ASSUME IInv, CallsHoldTokens, TooDeep
    PROVE  IInv'
<1>1. Failing(context')
  BY NearTo DEF TooDeep, Fails, IInv
<1> QED
  BY <1>1, LayerStep DEF TooDeep

LEMMA EnterNear ==
    ASSUME TypeInv, Enter
    PROVE  Near(context')
<1> DEFINE name == Upcoming(0)
           with == RootOf(name).has_parameters /\ Upcoming(1) \in Opens
           body == BodyLayer(name, Layer.callee, Layer.unwrapped)
           args == ArgLayer(Depth + 1, IF Layer.content THEN Depth ELSE Layer.caller)
           c == [Stepped(IF with THEN 2 ELSE 1) EXCEPT !.layers[Depth].unwrapped = @ /\ Layer.content,
                                                       !.cached = Cache(name)]
<1>1. context' = [c EXCEPT !.layers = Append(@, body) \o (IF with THEN <<args>> ELSE <<>>)]
  BY DEF Enter
<1> HIDE DEF name, with, body, args
<1>2. Near(Stepped(IF with THEN 2 ELSE 1))
  BY NearTo
<1>3. Near(c)
  BY <1>2, NearTo
<1> HIDE DEF c
<1> QED
  BY <1>1, <1>3, NearTo

LEMMA ArgumentStep ==
    ASSUME IInv, CallsHoldTokens, Argument
    PROVE  IInv'
<1>1. /\ TypeInv /\ ~context.ended /\ context.layers # <<>>
      /\ items' = items /\ deps' = deps /\ history' = history
  BY DEF Argument, Evaluates, IInv
<1>2. ASSUME NEW c, Near(c), NEW given, ToCallee(c, given) PROVE Near(context')
  BY <1>1, <1>2, NearTo DEF ToCallee
<1>3. \A x : Near([Stepped(1) EXCEPT !.layers[Depth].unwrapped = x])
  BY <1>1, NearTo
<1>4. Near([Stepped(1) EXCEPT !.layers = Front(@)])
  BY <1>1, NearTo
<1>5. \A x : Near([Stepped(1) EXCEPT !.layers[Depth].depth = @ + x])
  BY <1>1, NearTo
<1>6. ASSUME Fails(context) PROVE Failing(context')
  BY <1>1, <1>6, NearTo DEF Fails
<1>7. ASSUME Enter PROVE Near(context')
  BY <1>1, <1>7, EnterNear
<1>8. Failing(context') \/ Near(context')
  BY <1>2, <1>3, <1>4, <1>5, <1>6, <1>7 DEF Argument
<1> QED
  BY <1>1, <1>8, LayerStep

LEMMA OverloadStep ==
    ASSUME IInv, CallsHoldTokens, Overload
    PROVE  IInv'
<1>1. /\ TypeInv /\ ~context.ended /\ context.layers # <<>>
      /\ items' = items /\ deps' = deps /\ history' = history
  BY DEF Overload, Evaluates, IInv
<1>2. Failing([context EXCEPT !.failed = TRUE, !.layers = <<>>])
  BY <1>1, NearTo
<1>3. \A x : Near([context EXCEPT !.layers[Depth].specific = x])
  BY <1>1, NearTo
<1>4. Failing(context') \/ Near(context')
  BY <1>2, <1>3 DEF Overload
<1> QED
  BY <1>1, <1>4, LayerStep

LEMMA ContentStep ==
    ASSUME IInv, CallsHoldTokens, Content
    PROVE  IInv'
<1>1. /\ TypeInv /\ ~context.ended /\ context.layers # <<>>
      /\ items' = items /\ deps' = deps /\ history' = history
  BY DEF Content, Evaluates, IInv
<1>2. ASSUME NEW c, Near(c), NEW given, ToCallee(c, given) PROVE Near(context')
  BY <1>1, <1>2, NearTo DEF ToCallee
<1>3. Near(Stepped(1)) /\ Near([context EXCEPT !.layers = Front(@)])
  BY <1>1, NearTo
<1>4. ASSUME NEW lists, Gives(lists) PROVE Near(context')
  BY <1>2, <1>3, <1>4 DEF Gives
<1>5. ASSUME Enter PROVE Near(context')
  BY <1>1, <1>5, EnterNear
<1>6. Near(context')
  BY <1>3, <1>4, <1>5 DEF Content
<1> QED
  BY <1>1, <1>6, LayerStep

-----------------------------------------------------------------------------
(* The theorem.                                                               *)

LEMMA Inductive ==
    ASSUME IInv, [Next]_vars, [CallsHoldTokens]_vars
    PROVE  IInv'
<1>1. CASE UNCHANGED vars
  <2>1. /\ items' = items /\ context' = context /\ history' = history /\ deps' = deps
    BY <1>1 DEF vars
  <2> QED
    BY <2>1, SameItems DEF IInv, TypeInv
<1>2. CASE ~UNCHANGED vars
  <2>1. CallsHoldTokens /\ Next
    BY <1>2
  <2> QED
    BY <1>1, <2>1, SkipStep, IfStep, ElifStep, ElseStep, EndIfStep, ImportStep, MacroStep, StrayStep, TokenStep,
       EndOfFileStep, TooDeepStep, ArgumentStep, OverloadStep, ContentStep DEF Next, Done
<1> QED
  BY <1>1, <1>2

LEMMA Chooses ==
    ASSUME IInv
    PROVE  ConditionalsChoose
<1> SUFFICES ASSUME context.evaluateTokens, ~context.failed
    PROVE  /\ \A i \in history.kept : Selected(i)
           /\ \A i \in history.skipped : ~Selected(i)
           /\ context.ended => \A nr \in DOMAIN deps[File] :
                 ~deps[File][nr].disabled <=>
                    \E i \in DOMAIN items : Kind(i) = "import" /\ items[i].to = deps[File][nr].to /\ Selected(i)
  BY DEF ConditionalsChoose
<1>1. \A i : Selected(i) <=> SelectedOf(history.held, i)
  BY DEF Selected, SelectedOf, Taken, TakenOf
<1>2. /\ Sorted(context.head, history.held, history.kept, history.skipped)
      /\ Enabled(TRUE, context.head, history.held, deps[File])
  BY DEF IInv, Consistent
<1>3. DOMAIN items = 1..Len(items) /\ Len(items) \in Nat
  BY Files DEF IInv, TypeInv
<1>4. ASSUME context.ended, NEW nr \in DOMAIN deps[File]
      PROVE  ~deps[File][nr].disabled <=>
                \E i \in DOMAIN items : Kind(i) = "import" /\ items[i].to = deps[File][nr].to /\ Selected(i)
  <2>1. 1..context.head - 1 = DOMAIN items
    <3>1. context.head = Len(items) + 1
      BY <1>4 DEF IInv
    <3>2. context.head - 1 = Len(items)
      BY <1>3, <3>1
    <3> QED
      BY <1>3, <3>2
  <2>2. \A i : Free(i) => SelectedOf(history.held, i)
    BY DEF Free, SelectedOf
  <2> QED
    BY <1>1, <1>2, <2>1, <2>2 DEF Enabled, Names
<1> QED
  BY <1>1, <1>2, <1>4 DEF Sorted

\* The second time exactly the items are looked at that every branch around them
\* selects, and in the end exactly the imports are enabled that such a directive
\* names, for every file, of whatever length and however deeply its #ifs are
\* nested, whose calls of macros end before the next directive.
THEOREM ConditionalsChooseCorrect == Spec /\ CallsEnd => []ConditionalsChoose
<1>1. Init => IInv
  BY InitInv
<1>2. IInv /\ [Next]_vars /\ [CallsHoldTokens]_vars => IInv'
  BY Inductive
<1>3. IInv => ConditionalsChoose
  BY Chooses
<1> QED
  BY <1>1, <1>2, <1>3, PTL DEF Spec, CallsEnd
=============================================================================
