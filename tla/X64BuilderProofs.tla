-------------------------- MODULE X64BuilderProofs --------------------------
(***************************************************************************)
(* Register allocation for any bytecode: two values are never in the same  *)
(* register and no register is used across a call or left in use.          *)
(***************************************************************************)
EXTENDS X64Builder, SequenceTheorems, TLAPS

-----------------------------------------------------------------------------
(* The builder.                                                               *)

\* A builder, whatever its fields hold.
IsBuilder(g) ==
    g \in [fn : {g.fn}, stage : {g.stage}, index : {g.index}, texts : {g.texts}, map : {g.map},
           push_list : {g.push_list}, last_was_pop : {g.last_was_pop}, index_of_last_pop : {g.index_of_last_pop},
           original_recipient : {g.original_recipient}, regs : {g.regs}, artificial : {g.artificial},
           deleted : {g.deleted}, used : {g.used}, virtual_stack_pointer : {g.virtual_stack_pointer},
           push_offsets : {g.push_offsets}, ret_offset : {g.ret_offset}, misalignments : {g.misalignments},
           moments : {g.moments}, text : {g.text}, starts : {g.starts}]

\* h has the registers that g has.
SameRegisters(g, h) ==
    /\ IsBuilder(h)
    /\ h.fn = g.fn /\ h.stage = g.stage /\ h.index = g.index
    /\ h.regs = g.regs /\ h.artificial = g.artificial /\ h.deleted = g.deleted /\ h.used = g.used

Started(g, k) == g.artificial[k].started_by
RegOf(g, k) == g.artificial[k].reg
Ids(g) == 1..Len(g.artificial)
\* The instructions after i and before j make no call.
NoCall(code, i, j) == \A c \in i + 1..j - 1 : code[c].op # "CALL"

Registers == {NoRegister, "BP", "C", "D", "B", "R8", "R9", "R10", "R11", "R12"}
ArtificialType == [reg : Registers, started_by : Int]
Types(g, code) ==
    /\ g.artificial \in Seq(ArtificialType)
    /\ g.regs \in [1..Len(code) -> [0..1 -> Nat]]

\* What operands were given: a value that lives from some instruction to the one
\* that started it, which is the last one to use it, without a call in between.
Operands(g, code) ==
    \A i \in 1..Len(code) :
        \A nr \in 0..1 :
            g.regs[i][nr] # 0 =>
                /\ g.regs[i][nr] \in Ids(g)
                /\ Started(g, g.regs[i][nr]) # -1 =>
                      i <= Started(g, g.regs[i][nr]) /\ NoCall(code, i, Started(g, g.regs[i][nr]))

\* Which instructions from p on have which operands.
Shaped(g, code, p) ==
    \A i \in p..Len(code) :
        /\ code[i].op \in NoOperand => g.regs[i][0] = 0
        /\ code[i].op \in NoOperand \cup OneOperand => g.regs[i][1] = 0
        /\ code[i].op = "BXOR" /\ code[i].a = code[i].b => g.regs[i][1] = g.regs[i][0]

\* The instruction that starts a value has it for an operand and is not deleted.
Starting(g, code) ==
    \A k \in Ids(g) :
        Started(g, k) # -1 =>
            /\ Started(g, k) \in 1..Len(code) /\ Started(g, k) \notin g.deleted
            /\ \E nr \in 0..1 : g.regs[Started(g, k)][nr] = k

-----------------------------------------------------------------------------
(* The backward pass.                                                         *)

\* A use whose value may be shared by instructions up to p.
Expects(g, code, u, p) ==
    /\ u.inst \in 1..Len(code) /\ u.nr \in 0..1
    /\ IdOf(g, u) \in Ids(g)
    /\ Started(g, IdOf(g, u)) \in p + 1..Len(code)
    /\ NoCall(code, p, Started(g, IdOf(g, u)))

\* What is known of the instructions after p.
Linked(g, code, p) ==
    /\ Types(g, code) /\ Operands(g, code) /\ Starting(g, code)
    /\ g.used = {}
    /\ g.map \in [GeneralRegisters -> [inst : Int, nr : Int]]
    /\ \A r \in GeneralRegisters : g.map[r] = NoUse \/ Expects(g, code, g.map[r], p)
    /\ g.last_was_pop \in BOOLEAN
    /\ g.last_was_pop =>
          /\ g.original_recipient \in [inst : Int, nr : Int] /\ Expects(g, code, g.original_recipient, p)
          /\ g.index_of_last_pop \in p + 1..Len(code) /\ code[g.index_of_last_pop].op = "POP"
    /\ \A k \in Ids(g) : IF Started(g, k) = -1 THEN RegOf(g, k) = "BP"
                         ELSE RegOf(g, k) = NoRegister /\ code[Started(g, k)].op # "POP"
\* The operands of an instruction that has not been visited.
Unvisited(g, i) == g.regs[i][0] = 0 /\ g.regs[i][1] = 0 /\ i \notin g.deleted

\* g is the builder in the middle of the visit of an instruction.
Visiting(g) ==
    /\ IsBuilder(g) /\ g.fn = x64.fn /\ g.stage = x64.stage /\ g.index = x64.index
    /\ Code \in Seq(Instruction) /\ x64.index \in 1..Len(Code)
    /\ Linked(g, Code, x64.index - 1)
    /\ Shaped(g, Code, x64.index + 1)
\* The other operands, of this and of any instruction, are as before.
ButOperand(g, h, nr) ==
    /\ \A i \in 1..Len(Code), n \in 0..1 : i # x64.index \/ n # nr => h.regs[i][n] = g.regs[i][n]
    /\ h.deleted = g.deleted

\* An operand is given the value of a use that expects it.
LEMMA ShareStep ==
    ASSUME NEW g, Visiting(g), NEW nr \in 0..1, g.regs[x64.index][nr] = 0,
           NEW u \in [inst : Int, nr : Int], Expects(g, Code, u, x64.index - 1)
    PROVE  LET h == SetReg(g, nr, IdOf(g, u)) IN
           /\ Visiting(h) /\ ButOperand(g, h, nr) /\ h.map = g.map /\ h.artificial = g.artificial
           /\ h.regs[x64.index][nr] = IdOf(g, u) /\ IdOf(g, u) \in Ids(g)
           /\ Started(h, IdOf(g, u)) \in x64.index..Len(Code)
           /\ \A w : Expects(g, Code, w, x64.index - 1) => Expects(h, Code, w, x64.index - 1)
<1> DEFINE p == x64.index
           id == IdOf(g, u)
           h == [g EXCEPT !.regs[p][nr] = id]
<1>0. h = SetReg(g, nr, IdOf(g, u))
  BY DEF SetReg
<1>1. /\ IsBuilder(g) /\ Code \in Seq(Instruction) /\ Len(Code) \in Nat /\ p \in 1..Len(Code)
      /\ Types(g, Code) /\ Operands(g, Code) /\ Starting(g, Code) /\ Linked(g, Code, p - 1)
      /\ Len(g.artificial) \in Nat
  BY DEF Visiting, Linked, Types
<1>2. /\ id \in Ids(g) /\ id \in Nat /\ id # 0 /\ Started(g, id) \in p..Len(Code) /\ NoCall(Code, p - 1, Started(g, id))
  BY <1>1 DEF Expects, Ids
<1>a. h = [g EXCEPT !.regs[p][nr] = id]
  OBVIOUS
<1> HIDE DEF h, id, p
<1>3. /\ IsBuilder(h)
      /\ h.regs \in [1..Len(Code) -> [0..1 -> Nat]]
      /\ h.regs[p][nr] = id
      /\ \A i \in 1..Len(Code), n \in 0..1 : i # p \/ n # nr => h.regs[i][n] = g.regs[i][n]
      /\ h.artificial = g.artificial /\ h.deleted = g.deleted /\ h.used = g.used /\ h.map = g.map
      /\ h.last_was_pop = g.last_was_pop /\ h.original_recipient = g.original_recipient
      /\ h.index_of_last_pop = g.index_of_last_pop
      /\ h.fn = g.fn /\ h.stage = g.stage /\ h.index = g.index
  <2>1. Len(Code) \in Nat /\ p \in 1..Len(Code) /\ id \in Nat /\ IsBuilder(g) /\ Types(g, Code)
    BY <1>1, <1>2
  <2> HIDE DEF Code
  <2> QED
    BY <2>1, <1>a DEF IsBuilder, Types
<1>4. Ids(h) = Ids(g) /\ (\A k : Started(h, k) = Started(g, k) /\ RegOf(h, k) = RegOf(g, k)) /\ Types(h, Code)
  BY <1>1, <1>3 DEF Ids, Started, RegOf, Types
<1>5. Operands(h, Code)
  <2> SUFFICES ASSUME NEW i \in 1..Len(Code), NEW n \in 0..1, h.regs[i][n] # 0
               PROVE  /\ h.regs[i][n] \in Ids(h)
                      /\ Started(h, h.regs[i][n]) # -1 =>
                            i <= Started(h, h.regs[i][n]) /\ NoCall(Code, i, Started(h, h.regs[i][n]))
    BY DEF Operands
  <2>1. CASE i = p /\ n = nr
    <3>1. p <= Started(g, id) /\ NoCall(Code, p, Started(g, id))
      BY <1>1, <1>2 DEF NoCall
    <3> QED
      BY <2>1, <3>1, <1>2, <1>3, <1>4
  <2>2. CASE i # p \/ n # nr
    BY <2>2, <1>1, <1>3, <1>4 DEF Operands
  <2> QED
    BY <2>1, <2>2
<1>6. Starting(h, Code)
  <2> SUFFICES ASSUME NEW k \in Ids(g), Started(g, k) # -1
               PROVE  /\ Started(g, k) \in 1..Len(Code) /\ Started(g, k) \notin g.deleted
                      /\ \E n \in 0..1 : h.regs[Started(g, k)][n] = k
    BY <1>3, <1>4 DEF Starting
  <2>1. PICK n \in 0..1 : g.regs[Started(g, k)][n] = k
    BY <1>1 DEF Starting
  <2>2. k # 0
    BY <1>1 DEF Ids
  <2>3. Started(g, k) # p \/ n # nr
    BY <2>1, <2>2 DEF p
  <2> QED
    BY <2>1, <2>3, <1>1, <1>3 DEF Starting
<1>7. ASSUME NEW w, Expects(g, Code, w, p - 1)
      PROVE  Expects(h, Code, w, p - 1)
  <2>1. IdOf(g, w) # 0
    BY <1>7, <1>1 DEF Expects, Ids
  <2>2. w.inst # p \/ w.nr # nr
    BY <2>1 DEF p, IdOf
  <2>3. IdOf(h, w) = IdOf(g, w)
    BY <1>7, <2>2, <1>3 DEF IdOf, Expects
  <2> QED
    BY <1>7, <2>3, <1>4 DEF Expects
<1>8. Linked(h, Code, p - 1)
  BY <1>1, <1>3, <1>4, <1>5, <1>6, <1>7 DEF Linked
<1>9. Shaped(h, Code, p + 1)
  <2> SUFFICES ASSUME NEW i \in p + 1..Len(Code) PROVE h.regs[i][0] = g.regs[i][0] /\ h.regs[i][1] = g.regs[i][1]
    BY DEF Visiting, Shaped, p
  <2> QED
    BY <1>1, <1>3
<1>10. Visiting(h)
  BY <1>1, <1>3, <1>8, <1>9 DEF Visiting, p
<1> QED
  BY <1>0, <1>1, <1>2, <1>3, <1>4, <1>7, <1>10 DEF ButOperand, p, id

\* An operand is given a value of its own: one that this instruction starts, or
\* the base pointer, which nobody starts.
LEMMA AllocStep ==
    ASSUME NEW g, Visiting(g), NEW nr \in 0..1, g.regs[x64.index][nr] = 0,
           x64.index \notin g.deleted, Current.op # "POP",
           NEW reg, NEW started_by,
           \/ reg = NoRegister /\ started_by = x64.index
           \/ reg = "BP" /\ started_by = -1
    PROVE  LET h == Alloc(g, nr, reg, started_by) IN
           /\ Visiting(h) /\ ButOperand(g, h, nr) /\ h.map = g.map
           /\ h.regs[x64.index][nr] \in Ids(h) /\ Started(h, h.regs[x64.index][nr]) = started_by
<1> DEFINE p == x64.index
           id == Len(g.artificial) + 1
           h == [[g EXCEPT !.artificial = Append(@, [reg |-> reg, started_by |-> started_by])]
                 EXCEPT !.regs[p][nr] = id]
<1>0. h = Alloc(g, nr, reg, started_by)
  BY DEF Alloc, SetReg
<1>1. /\ IsBuilder(g) /\ Code \in Seq(Instruction) /\ Len(Code) \in Nat /\ p \in 1..Len(Code)
      /\ Types(g, Code) /\ Operands(g, Code) /\ Starting(g, Code) /\ Linked(g, Code, p - 1)
      /\ Len(g.artificial) \in Nat
  BY DEF Visiting, Linked, Types
<1>2. id \in Nat /\ id # 0 /\ id \notin Ids(g) /\ reg \in Registers /\ started_by \in Int
  <2>1. id \in Nat /\ id # 0 /\ id \notin Ids(g)
    BY <1>1 DEF Ids
  <2>2. reg \in Registers
    BY DEF NoRegister, Registers
  <2>3. started_by \in Int
    BY <1>1
  <2> QED
    BY <2>1, <2>2, <2>3
<1>a. h = [[g EXCEPT !.artificial = Append(@, [reg |-> reg, started_by |-> started_by])]
           EXCEPT !.regs[p][nr] = id]
  OBVIOUS
<1> HIDE DEF h, p
<1>3. /\ IsBuilder(h)
      /\ h.regs \in [1..Len(Code) -> [0..1 -> Nat]]
      /\ h.regs[p][nr] = id
      /\ \A i \in 1..Len(Code), n \in 0..1 : i # p \/ n # nr => h.regs[i][n] = g.regs[i][n]
      /\ h.artificial = Append(g.artificial, [reg |-> reg, started_by |-> started_by])
      /\ h.deleted = g.deleted /\ h.used = g.used /\ h.map = g.map
      /\ h.last_was_pop = g.last_was_pop /\ h.original_recipient = g.original_recipient
      /\ h.index_of_last_pop = g.index_of_last_pop
      /\ h.fn = g.fn /\ h.stage = g.stage /\ h.index = g.index
  BY <1>1, <1>2, <1>a DEF IsBuilder, Types
<1>4. /\ Types(h, Code) /\ Ids(h) = Ids(g) \cup {id}
      /\ \A k \in Ids(g) : Started(h, k) = Started(g, k) /\ RegOf(h, k) = RegOf(g, k)
      /\ Started(h, id) = started_by /\ RegOf(h, id) = reg
  <2>1. h.artificial \in Seq(ArtificialType) /\ Len(h.artificial) = id
    BY <1>1, <1>2, <1>3 DEF Types, ArtificialType
  <2>2. \A k \in Ids(g) : h.artificial[k] = g.artificial[k]
    BY <1>1, <1>2, <1>3 DEF Types, Ids
  <2>3. h.artificial[id] = [reg |-> reg, started_by |-> started_by]
    BY <1>1, <1>2, <1>3 DEF Types
  <2> QED
    BY <2>1, <2>2, <2>3, <1>1, <1>3 DEF Types, Ids, Started, RegOf
<1> HIDE DEF id
<1>5. Operands(h, Code)
  <2> SUFFICES ASSUME NEW i \in 1..Len(Code), NEW n \in 0..1, h.regs[i][n] # 0
               PROVE  /\ h.regs[i][n] \in Ids(h)
                      /\ Started(h, h.regs[i][n]) # -1 =>
                            i <= Started(h, h.regs[i][n]) /\ NoCall(Code, i, Started(h, h.regs[i][n]))
    BY DEF Operands
  <2>1. CASE i = p /\ n = nr
    <3>1. NoCall(Code, p, p)
      BY <1>1 DEF NoCall
    <3> QED
      BY <2>1, <3>1, <1>1, <1>3, <1>4 DEF p
  <2>2. CASE i # p \/ n # nr
    BY <2>2, <1>1, <1>3, <1>4 DEF Operands
  <2> QED
    BY <2>1, <2>2
<1>6. Starting(h, Code)
  <2> SUFFICES ASSUME NEW k \in Ids(h), Started(h, k) # -1
               PROVE  /\ Started(h, k) \in 1..Len(Code) /\ Started(h, k) \notin g.deleted
                      /\ \E n \in 0..1 : h.regs[Started(h, k)][n] = k
    BY <1>3 DEF Starting
  <2>1. CASE k = id
    BY <2>1, <1>1, <1>3, <1>4 DEF p
  <2>2. CASE k \in Ids(g)
    <3>1. PICK n \in 0..1 : g.regs[Started(g, k)][n] = k
      BY <2>2, <1>1, <1>4 DEF Starting
    <3>2. k # 0
      BY <2>2, <1>1 DEF Ids
    <3>3. Started(g, k) # p \/ n # nr
      BY <3>1, <3>2 DEF p
    <3> QED
      BY <2>2, <3>1, <3>3, <1>1, <1>3, <1>4 DEF Starting
  <2> QED
    BY <2>1, <2>2, <1>4
<1>7. ASSUME NEW w, Expects(g, Code, w, p - 1)
      PROVE  Expects(h, Code, w, p - 1)
  <2>1. IdOf(g, w) # 0
    BY <1>7, <1>1 DEF Expects, Ids
  <2>2. w.inst # p \/ w.nr # nr
    BY <2>1 DEF p, IdOf
  <2>3. IdOf(h, w) = IdOf(g, w)
    BY <1>7, <2>2, <1>3 DEF IdOf, Expects
  <2> QED
    BY <1>7, <2>3, <1>4 DEF Expects
<1>8. \A k \in Ids(h) : IF Started(h, k) = -1 THEN RegOf(h, k) = "BP"
                        ELSE RegOf(h, k) = NoRegister /\ Code[Started(h, k)].op # "POP"
  BY <1>1, <1>4 DEF Linked, Current, p
<1>9. Linked(h, Code, p - 1)
  BY <1>1, <1>3, <1>4, <1>5, <1>6, <1>7, <1>8 DEF Linked
<1>10. Shaped(h, Code, p + 1)
  <2> SUFFICES ASSUME NEW i \in p + 1..Len(Code) PROVE h.regs[i][0] = g.regs[i][0] /\ h.regs[i][1] = g.regs[i][1]
    BY DEF Visiting, Shaped, p
  <2> QED
    BY <1>1, <1>3
<1>11. Visiting(h)
  BY <1>1, <1>3, <1>9, <1>10 DEF Visiting, p
<1> QED
  BY <1>0, <1>1, <1>3, <1>4, <1>11 DEF ButOperand, p

\* Only the map and what was popped last differ.
OnlyMap(g, h) ==
    /\ IsBuilder(h)
    /\ h.regs = g.regs /\ h.artificial = g.artificial /\ h.deleted = g.deleted /\ h.used = g.used
    /\ h.fn = g.fn /\ h.stage = g.stage /\ h.index = g.index

LEMMA OnlyMapStep ==
    ASSUME NEW g, Visiting(g), NEW h, OnlyMap(g, h), h.map \in [GeneralRegisters -> [inst : Int, nr : Int]],
           \A r \in GeneralRegisters : h.map[r] = NoUse \/ Expects(g, Code, h.map[r], x64.index - 1),
           h.last_was_pop \in BOOLEAN,
           h.last_was_pop =>
              /\ h.original_recipient \in [inst : Int, nr : Int] /\ Expects(g, Code, h.original_recipient, x64.index - 1)
              /\ h.index_of_last_pop \in x64.index..Len(Code) /\ Code[h.index_of_last_pop].op = "POP"
    PROVE  Visiting(h)
<1>1. Ids(h) = Ids(g) /\ \A k : Started(h, k) = Started(g, k) /\ RegOf(h, k) = RegOf(g, k)
  BY DEF OnlyMap, Ids, Started, RegOf
<1>2. \A w : Expects(g, Code, w, x64.index - 1) => Expects(h, Code, w, x64.index - 1)
  BY <1>1 DEF OnlyMap, Expects, IdOf
<1>3. Types(h, Code) /\ Operands(h, Code) /\ Starting(h, Code)
  BY <1>1 DEF Visiting, Linked, OnlyMap, Types, Operands, Starting
<1>4. \A k \in Ids(h) : IF Started(h, k) = -1 THEN RegOf(h, k) = "BP"
                        ELSE RegOf(h, k) = NoRegister /\ Code[Started(h, k)].op # "POP"
  BY <1>1 DEF Visiting, Linked
<1>5. Linked(h, Code, x64.index - 1)
  <2>1. h.used = {} /\ x64.index - 1 + 1 = x64.index
    BY DEF Visiting, Linked, OnlyMap
  <2> QED
    BY <2>1, <1>2, <1>3, <1>4 DEF Linked
<1>6. Shaped(h, Code, x64.index + 1)
  BY DEF Visiting, Shaped, OnlyMap
<1> QED
  BY <1>5, <1>6 DEF Visiting, OnlyMap

\* The register of an operand expects the operand's value.
LEMMA MapStep ==
    ASSUME NEW g, Visiting(g), NEW nr \in 0..1, Operand(nr) \in GeneralRegisters, Current.op # "CALL",
           g.regs[x64.index][nr] \in Ids(g), Started(g, g.regs[x64.index][nr]) \in x64.index..Len(Code)
    PROVE  LET h == MapReg(g, nr)
               use == [inst |-> x64.index, nr |-> nr]
           IN  /\ Visiting(h) /\ OnlyMap(g, h) /\ h.map[Operand(nr)] = use /\ use # NoUse
               /\ use \in [inst : Int, nr : Int] /\ Expects(h, Code, use, x64.index - 1)
<1> DEFINE p == x64.index
           use == [inst |-> p, nr |-> nr]
           h == [g EXCEPT !.map[Operand(nr)] = use]
<1>0. h = MapReg(g, nr)
  BY DEF MapReg
<1>1. /\ IsBuilder(g) /\ Len(Code) \in Nat /\ p \in 1..Len(Code)
      /\ Types(g, Code) /\ Operands(g, Code) /\ Linked(g, Code, p - 1) /\ Len(g.artificial) \in Nat
      /\ g.map \in [GeneralRegisters -> [inst : Int, nr : Int]]
  BY DEF Visiting, Linked, Types
<1>2. use \in [inst : Int, nr : Int] /\ use.inst = p /\ use.nr = nr
  BY <1>1
<1>3. use # NoUse
  BY <1>1, <1>2 DEF NoUse
<1>a. h = [g EXCEPT !.map[Operand(nr)] = use]
  OBVIOUS
<1> HIDE DEF h, use
<1>4. /\ OnlyMap(g, h) /\ h.last_was_pop = g.last_was_pop /\ h.original_recipient = g.original_recipient
      /\ h.index_of_last_pop = g.index_of_last_pop
      /\ h.map = [g.map EXCEPT ![Operand(nr)] = use]
  BY <1>1, <1>a DEF IsBuilder, OnlyMap
<1>5. Expects(g, Code, use, p - 1)
  <2>1. IdOf(g, use) = g.regs[p][nr]
    BY <1>2 DEF IdOf
  <2>2. IdOf(g, use) # 0
    BY <2>1, <1>1 DEF Ids
  <2>3. Started(g, IdOf(g, use)) # -1
    BY <2>1, <1>1
  <2>4. NoCall(Code, p, Started(g, IdOf(g, use)))
    BY <2>1, <2>2, <2>3, <1>1 DEF Operands
  <2>5. NoCall(Code, p - 1, Started(g, IdOf(g, use)))
    <3> SUFFICES ASSUME NEW c \in p..Started(g, IdOf(g, use)) - 1 PROVE Code[c].op # "CALL"
      BY <1>1 DEF NoCall
    <3>1. CASE c = p
      BY <3>1 DEF Current
    <3>2. CASE c # p
      BY <3>2, <2>4, <2>1, <1>1 DEF NoCall
    <3> QED
      BY <3>1, <3>2
  <2> QED
    BY <2>1, <2>5, <1>1, <1>2 DEF Expects
<1>6. /\ h.map \in [GeneralRegisters -> [inst : Int, nr : Int]]
      /\ h.map[Operand(nr)] = use
      /\ \A r \in GeneralRegisters : r # Operand(nr) => h.map[r] = g.map[r]
  BY <1>1, <1>2, <1>4
<1>7. Visiting(h)
  <2>1. \A r \in GeneralRegisters : h.map[r] = NoUse \/ Expects(g, Code, h.map[r], p - 1)
    BY <1>1, <1>5, <1>6 DEF Linked
  <2>2. p - 1 + 1 = p
    BY <1>1
  <2> QED
    BY <2>1, <2>2, <1>1, <1>4, <1>6, OnlyMapStep DEF Linked
<1>8. Expects(h, Code, use, p - 1)
  BY <1>5, <1>4 DEF OnlyMap, Expects, IdOf, Ids, Started
<1> QED
  BY <1>0, <1>2, <1>3, <1>4, <1>6, <1>7, <1>8 DEF use

\* A register forgets who expects its value.
LEMMA FreeMapStep ==
    ASSUME NEW g, Visiting(g), NEW nr \in 0..1
    PROVE  Visiting(FreeMapReg(g, nr)) /\ OnlyMap(g, FreeMapReg(g, nr))
<1> DEFINE h == [g EXCEPT !.map[Operand(nr)] = NoUse]
<1>0. h = FreeMapReg(g, nr)
  BY DEF FreeMapReg
<1>1. IsBuilder(g) /\ Linked(g, Code, x64.index - 1) /\ g.map \in [GeneralRegisters -> [inst : Int, nr : Int]]
  BY DEF Visiting, Linked
<1>2. NoUse \in [inst : Int, nr : Int]
  BY DEF NoUse
<1>a. h = [g EXCEPT !.map[Operand(nr)] = NoUse]
  OBVIOUS
<1> HIDE DEF h
<1>3. /\ OnlyMap(g, h) /\ h.last_was_pop = g.last_was_pop /\ h.original_recipient = g.original_recipient
      /\ h.index_of_last_pop = g.index_of_last_pop
      /\ h.map = [g.map EXCEPT ![Operand(nr)] = NoUse]
  BY <1>1, <1>a DEF IsBuilder, OnlyMap
<1>4. /\ h.map \in [GeneralRegisters -> [inst : Int, nr : Int]]
      /\ \A r \in GeneralRegisters : h.map[r] = NoUse \/ h.map[r] = g.map[r]
  BY <1>1, <1>2, <1>3
<1>5. \A r \in GeneralRegisters : h.map[r] = NoUse \/ Expects(g, Code, h.map[r], x64.index - 1)
  BY <1>1, <1>4 DEF Linked
<1>6. x64.index - 1 + 1 = x64.index
  BY DEF Visiting
<1> QED
  BY <1>0, <1>1, <1>3, <1>4, <1>5, <1>6, OnlyMapStep DEF Linked


LEMMA FreshStep ==
    ASSUME NEW g, Visiting(g), NEW nr \in 0..1, g.regs[x64.index][nr] = 0, x64.index \notin g.deleted,
           Operand(nr) \in GeneralRegisters, Current.op \notin {"POP", "CALL"}
    PROVE  Visiting(Fresh(g, nr)) /\ ButOperand(g, Fresh(g, nr), nr)
<1> DEFINE h == Alloc(g, nr, NoRegister, x64.index)
<1>1. /\ Visiting(h) /\ ButOperand(g, h, nr)
      /\ h.regs[x64.index][nr] \in Ids(h) /\ Started(h, h.regs[x64.index][nr]) = x64.index
  BY AllocStep
<1>2. x64.index \in x64.index..Len(Code)
  BY DEF Visiting
<1> HIDE DEF h
<1>3. Visiting(MapReg(h, nr)) /\ OnlyMap(h, MapReg(h, nr))
  BY <1>1, <1>2, MapStep
<1> QED
  BY <1>1, <1>3 DEF Fresh, h, ButOperand, OnlyMap

LEMMA SharedStep ==
    ASSUME NEW g, Visiting(g), NEW nr \in 0..1, g.regs[x64.index][nr] = 0,
           Operand(nr) \in GeneralRegisters, Current.op # "CALL", Recipient(g, nr) # NoUse
    PROVE  LET h == Share(g, nr)
               use == [inst |-> x64.index, nr |-> nr] IN
           /\ Visiting(h) /\ ButOperand(g, h, nr) /\ h.map[Operand(nr)] = use
           /\ use # NoUse /\ use \in [inst : Int, nr : Int] /\ Expects(h, Code, use, x64.index - 1)
           /\ h.regs[x64.index][nr] = IdOf(g, Recipient(g, nr))
<1> DEFINE u == g.map[Operand(nr)]
           h == SetReg(g, nr, IdOf(g, u))
<1>1. u \in [inst : Int, nr : Int] /\ Expects(g, Code, u, x64.index - 1)
  BY DEF Visiting, Linked, Recipient
<1>2. /\ Visiting(h) /\ ButOperand(g, h, nr)
      /\ h.regs[x64.index][nr] = IdOf(g, u) /\ IdOf(g, u) \in Ids(g) /\ h.artificial = g.artificial
      /\ Started(h, IdOf(g, u)) \in x64.index..Len(Code)
  BY <1>1, ShareStep
<1> HIDE DEF h
<1>3. h.regs[x64.index][nr] \in Ids(h)
  BY <1>2 DEF Ids
<1>4. /\ Visiting(MapReg(h, nr)) /\ OnlyMap(h, MapReg(h, nr))
      /\ MapReg(h, nr).map[Operand(nr)] = [inst |-> x64.index, nr |-> nr]
      /\ [inst |-> x64.index, nr |-> nr] # NoUse
      /\ [inst |-> x64.index, nr |-> nr] \in [inst : Int, nr : Int]
      /\ Expects(MapReg(h, nr), Code, [inst |-> x64.index, nr |-> nr], x64.index - 1)
  BY <1>2, <1>3, MapStep
<1>5. Share(g, nr) = MapReg(h, nr) /\ Recipient(g, nr) = u
  BY DEF Share, Recipient, h
<1> QED
  BY <1>2, <1>4, <1>5 DEF ButOperand, OnlyMap

LEMMA BindStep ==
    ASSUME NEW g, Visiting(g), NEW nr \in 0..1, g.regs[x64.index][nr] = 0, x64.index \notin g.deleted,
           Operand(nr) \in BCRegister,
           Operand(nr) # "INVALID" => Current.op \notin {"POP", "CALL"}
    PROVE  /\ Visiting(Bind(g, nr)) /\ ButOperand(g, Bind(g, nr), nr)
           /\ Operand(nr) = "INVALID" => Bind(g, nr) = g
<1>1. CASE Operand(nr) = "INVALID"
  BY <1>1 DEF Bind, ButOperand
<1>2. CASE Operand(nr) = "LOCALS"
  <2>1. Bind(g, nr) = Alloc(g, nr, "BP", -1)
    BY <1>2 DEF Bind
  <2>2. Visiting(Alloc(g, nr, "BP", -1)) /\ ButOperand(g, Alloc(g, nr, "BP", -1), nr)
    BY <1>2, AllocStep
  <2> QED
    BY <1>2, <2>1, <2>2
<1>3. CASE Operand(nr) \in GeneralRegisters
  <2>1. Operand(nr) # "INVALID" /\ Operand(nr) # "LOCALS"
    BY <1>3 DEF GeneralRegisters
  <2>2. CASE Recipient(g, nr) # NoUse
    <3>1. Bind(g, nr) = Share(g, nr)
      BY <2>1, <2>2 DEF Bind
    <3> QED
      BY <1>3, <2>1, <2>2, <3>1, SharedStep
  <2>3. CASE Recipient(g, nr) = NoUse
    <3>1. Bind(g, nr) = Fresh(g, nr)
      BY <2>1, <2>3 DEF Bind
    <3> QED
      BY <1>3, <2>1, <3>1, FreshStep
  <2> QED
    BY <2>2, <2>3
<1> QED
  BY <1>1, <1>2, <1>3 DEF BCRegister

-----------------------------------------------------------------------------
\* What holds between two steps of the backward pass.
BackwardInv ==
    /\ IsBuilder(x64) /\ IsBytecode
    /\ x64.fn \in DOMAIN bytecode /\ x64.index \in 0..Len(Code)
    /\ Linked(x64, Code, x64.index)
    /\ Shaped(x64, Code, x64.index + 1)
    /\ \A i \in 1..x64.index : Unvisited(x64, i)

LEMMA InstructionFacts ==
    ASSUME IsBytecode, x64.fn \in DOMAIN bytecode, x64.index \in 1..Len(Code)
    PROVE  /\ Code \in Seq(Instruction) /\ Len(Code) \in Nat
           /\ Operand(0) \in BCRegister /\ Operand(1) \in BCRegister
           /\ Current.op \in NoOperand => Operand(0) = "INVALID"
           /\ Current.op \in NoOperand \cup OneOperand => Operand(1) = "INVALID"
           /\ Current.op = "SET_RET" \/ ~Essential(Current.op) => Operand(0) \in GeneralRegisters
           /\ Current.op = "CAST" => Operand(1) \in GeneralRegisters
<1>1. /\ Code \in Seq(Instruction)
      /\ \A k \in 1..Len(Code) : IsInstruction(Code[k])
  <2> DEFINE Function == [code : Seq(Instruction), frame_size : Int]
  <2>1. bytecode \in Seq(Function)
    BY DEF IsBytecode
  <2> HIDE DEF Function
  <2>2. bytecode[x64.fn] \in Function
    BY <2>1, ElementOfSeq
  <2>3. Code \in Seq(Instruction)
    BY <2>2 DEF Function, Code
  <2>4. DOMAIN Code = 1..Len(Code)
    BY <2>3
  <2>5. \A k \in DOMAIN Code : IsInstruction(Code[k])
    BY DEF IsBytecode, Code
  <2> QED
    BY <2>3, <2>4, <2>5
<1>2. Current \in Instruction /\ IsInstruction(Current)
  BY <1>1 DEF Current
<1>3. Operand(0) = Current.a /\ Operand(1) = Current.b
  BY DEF Operand
<1> QED
  BY <1>1, <1>2, <1>3 DEF Instruction, IsInstruction

\* The visit of an instruction starts with what holds before it, and forgets
\* who expects what when it is a call.
LEMMA VisitStarts ==
    ASSUME BackwardInv, x64.index > 0, Current.op # "CALL"
    PROVE  Visiting(x64)
<1>1. x64.index \in 1..Len(Code) /\ Code \in Seq(Instruction) /\ Len(Code) \in Nat
  BY InstructionFacts DEF BackwardInv, IsBytecode, Code
<1>2. ASSUME NEW u, Expects(x64, Code, u, x64.index)
      PROVE  Expects(x64, Code, u, x64.index - 1)
  <2>1. NoCall(Code, x64.index - 1, Started(x64, IdOf(x64, u)))
    <3> SUFFICES ASSUME NEW c \in x64.index..Started(x64, IdOf(x64, u)) - 1 PROVE Code[c].op # "CALL"
      BY <1>1 DEF NoCall
    <3>1. CASE c = x64.index
      BY <3>1 DEF Current
    <3>2. CASE c # x64.index
      BY <3>2, <1>1, <1>2 DEF NoCall, Expects
    <3> QED
      BY <3>1, <3>2
  <2> QED
    BY <2>1, <1>1, <1>2 DEF Expects
<1>3. Linked(x64, Code, x64.index - 1)
  <2>1. /\ x64.last_was_pop =>
              /\ x64.original_recipient \in [inst : Int, nr : Int] /\ Expects(x64, Code, x64.original_recipient, x64.index - 1)
              /\ x64.index_of_last_pop \in x64.index..Len(Code) /\ Code[x64.index_of_last_pop].op = "POP"
    BY <1>1, <1>2 DEF BackwardInv, Linked
  <2>2. \A r \in GeneralRegisters : x64.map[r] = NoUse \/ Expects(x64, Code, x64.map[r], x64.index - 1)
    BY <1>2 DEF BackwardInv, Linked
  <2>3. x64.index - 1 + 1 = x64.index
    BY <1>1
  <2> QED
    BY <2>1, <2>2, <2>3 DEF BackwardInv, Linked
<1> QED
  BY <1>1, <1>3 DEF BackwardInv, Visiting

LEMMA ClearedStep ==
    ASSUME BackwardInv, x64.index > 0
    PROVE  Visiting(Cleared(x64)) /\ OnlyMap(x64, Cleared(x64))
<1> DEFINE h == [x64 EXCEPT !.last_was_pop = FALSE,
                            !.map = IF Forgets(Current.op) THEN [r \in GeneralRegisters |-> NoUse] ELSE @]
<1>1. x64.index \in 1..Len(Code) /\ Code \in Seq(Instruction) /\ Len(Code) \in Nat /\ IsBuilder(x64)
  BY InstructionFacts DEF BackwardInv, IsBytecode, Code
<1>a. h = [x64 EXCEPT !.last_was_pop = FALSE,
                      !.map = IF Forgets(Current.op) THEN [r \in GeneralRegisters |-> NoUse] ELSE @]
  OBVIOUS
<1>b. h = Cleared(x64)
  BY DEF Cleared
<1> HIDE DEF h
<1>2. /\ OnlyMap(x64, h) /\ h.last_was_pop = FALSE
      /\ h.map = IF Forgets(Current.op) THEN [r \in GeneralRegisters |-> NoUse] ELSE x64.map
  BY <1>1, <1>a DEF IsBuilder, OnlyMap
<1>3. NoUse \in [inst : Int, nr : Int]
  BY DEF NoUse
<1>4. x64.map \in [GeneralRegisters -> [inst : Int, nr : Int]]
  BY DEF BackwardInv, Linked
<1>5. CASE Current.op # "CALL"
  <2>1. Visiting(x64)
    BY <1>5, VisitStarts
  <2>2. /\ h.map \in [GeneralRegisters -> [inst : Int, nr : Int]]
        /\ \A r \in GeneralRegisters : h.map[r] = NoUse \/ h.map[r] = x64.map[r]
    BY <1>2, <1>3, <1>4
  <2>3. \A r \in GeneralRegisters : h.map[r] = NoUse \/ Expects(x64, Code, h.map[r], x64.index - 1)
    BY <2>1, <2>2 DEF Visiting, Linked
  <2> QED
    BY <2>1, <2>2, <2>3, <1>b, <1>2, OnlyMapStep
<1>6. CASE Current.op = "CALL"
  <2>1. h.map = [r \in GeneralRegisters |-> NoUse]
    BY <1>2, <1>6 DEF Forgets
  <2>2. h.map \in [GeneralRegisters -> [inst : Int, nr : Int]] /\ \A r \in GeneralRegisters : h.map[r] = NoUse
    BY <2>1, <1>3
  <2>3. Ids(h) = Ids(x64) /\ \A k : Started(h, k) = Started(x64, k) /\ RegOf(h, k) = RegOf(x64, k)
    BY <1>2 DEF OnlyMap, Ids, Started, RegOf
  <2>4. Types(h, Code) /\ Operands(h, Code) /\ Starting(h, Code)
    BY <2>3, <1>2 DEF BackwardInv, Linked, OnlyMap, Types, Operands, Starting
  <2>5. /\ \A k \in Ids(h) : IF Started(h, k) = -1 THEN RegOf(h, k) = "BP"
                             ELSE RegOf(h, k) = NoRegister /\ Code[Started(h, k)].op # "POP"
        /\ h.used = {}
    BY <2>3, <1>2 DEF BackwardInv, Linked, OnlyMap
  <2>6. Linked(h, Code, x64.index - 1)
    BY <2>2, <2>4, <2>5, <1>2 DEF Linked
  <2>7. Shaped(h, Code, x64.index + 1)
    BY <1>2 DEF BackwardInv, Shaped, OnlyMap
  <2> QED
    BY <2>6, <2>7, <1>b, <1>1, <1>2 DEF Visiting, OnlyMap
<1> QED
  BY <1>5, <1>6

\* An instruction that starts no value is deleted.
LEMMA DeleteStep ==
    ASSUME NEW g, Visiting(g), NEW i \in Int, \A k \in Ids(g) : Started(g, k) # i
    PROVE  LET h == Delete(g, i) IN
           /\ Visiting(h) /\ h.regs = g.regs /\ h.artificial = g.artificial /\ h.deleted = g.deleted \cup {i}
           /\ \A w : Expects(g, Code, w, x64.index - 1) => Expects(h, Code, w, x64.index - 1)
           /\ h.map = g.map /\ h.last_was_pop = g.last_was_pop /\ h.original_recipient = g.original_recipient
           /\ h.index_of_last_pop = g.index_of_last_pop
<1> DEFINE h == [g EXCEPT !.deleted = @ \cup {i}]
<1>1. IsBuilder(g) /\ Linked(g, Code, x64.index - 1)
  BY DEF Visiting
<1>a. h = [g EXCEPT !.deleted = @ \cup {i}]
  OBVIOUS
<1>b. h = Delete(g, i)
  BY DEF Delete
<1> HIDE DEF h
<1>2. /\ IsBuilder(h) /\ h.deleted = g.deleted \cup {i}
      /\ h.regs = g.regs /\ h.artificial = g.artificial /\ h.used = g.used /\ h.map = g.map
      /\ h.last_was_pop = g.last_was_pop /\ h.original_recipient = g.original_recipient
      /\ h.index_of_last_pop = g.index_of_last_pop
      /\ h.fn = g.fn /\ h.stage = g.stage /\ h.index = g.index
  BY <1>1, <1>a DEF IsBuilder
<1>3. Ids(h) = Ids(g) /\ \A k : Started(h, k) = Started(g, k) /\ RegOf(h, k) = RegOf(g, k)
  BY <1>2 DEF Ids, Started, RegOf
<1>4. \A w : Expects(g, Code, w, x64.index - 1) => Expects(h, Code, w, x64.index - 1)
  BY <1>2, <1>3 DEF Expects, IdOf
<1>5. Types(h, Code) /\ Operands(h, Code)
  BY <1>1, <1>2, <1>3 DEF Linked, Types, Operands
<1>6. Starting(h, Code)
  BY <1>1, <1>2, <1>3 DEF Linked, Starting
<1>7. Linked(h, Code, x64.index - 1)
  BY <1>1, <1>2, <1>3, <1>4, <1>5, <1>6 DEF Linked
<1>8. Shaped(h, Code, x64.index + 1)
  BY <1>2 DEF Visiting, Shaped
<1> QED
  BY <1>b, <1>2, <1>4, <1>7, <1>8 DEF Visiting

\* The visit of an instruction ends.
LEMMA VisitEnds ==
    ASSUME BackwardInv, x64.index > 0, x64.stage = "backward", NEW g, Visiting(g), Shaped(g, Code, x64.index),
           \A i \in 1..x64.index - 1 : g.regs[i] = x64.regs[i],
           \A i \in g.deleted : i \in x64.deleted \/ i >= x64.index,
           Earlier(g), bytecode' = bytecode
    PROVE  BackwardInv' /\ x64'.stage = "backward"
<1> DEFINE h == [g EXCEPT !.index = @ - 1]
<1>1. x64.index \in 1..Len(Code) /\ IsBuilder(g) /\ g.index = x64.index /\ g.fn = x64.fn /\ g.stage = x64.stage
  BY DEF BackwardInv, Visiting
<1>a. h = [g EXCEPT !.index = @ - 1]
  OBVIOUS
<1>b. x64' = h
  BY DEF Earlier
<1> HIDE DEF h
<1>2. /\ IsBuilder(h) /\ h.deleted = g.deleted
      /\ h.regs = g.regs /\ h.artificial = g.artificial /\ h.used = g.used /\ h.map = g.map
      /\ h.last_was_pop = g.last_was_pop /\ h.original_recipient = g.original_recipient
      /\ h.index_of_last_pop = g.index_of_last_pop
      /\ h.fn = g.fn /\ h.stage = g.stage /\ h.index = g.index - 1
  BY <1>1, <1>a DEF IsBuilder
<1>3. Ids(h) = Ids(g) /\ \A k : Started(h, k) = Started(g, k) /\ RegOf(h, k) = RegOf(g, k)
  BY <1>2 DEF Ids, Started, RegOf
<1>4. Code' = Code /\ IsBytecode'
  BY <1>b, <1>1, <1>2 DEF Code, BackwardInv, IsBytecode
<1>5. Linked(h, Code, x64.index - 1)
  <2>1. \A w : Expects(g, Code, w, x64.index - 1) => Expects(h, Code, w, x64.index - 1)
    BY <1>2, <1>3 DEF Expects, IdOf
  <2>2. Types(h, Code) /\ Operands(h, Code) /\ Starting(h, Code)
    BY <1>2, <1>3 DEF Visiting, Linked, Types, Operands, Starting
  <2> QED
    BY <2>1, <2>2, <1>2, <1>3 DEF Visiting, Linked
<1>6. Shaped(h, Code, x64.index)
  BY <1>2 DEF Shaped
<1>7. \A i \in 1..x64.index - 1 : Unvisited(h, i)
  BY <1>1, <1>2 DEF Unvisited, BackwardInv
<1> QED
  <2>1. x64'.index = x64.index - 1 /\ x64'.fn = x64.fn /\ x64'.stage = "backward" /\ IsBuilder(x64')
    BY <1>b, <1>1, <1>2
  <2>2. x64'.index + 1 = x64.index /\ x64'.index \in 0..Len(Code)
    BY <2>1, <1>1
  <2> HIDE DEF Code
  <2>3. (x64' = h) /\ (bytecode' = bytecode)
    BY <1>b
  <2> QED
    BY <2>1, <2>2, <2>3, <1>4, <1>5, <1>6, <1>7 DEF BackwardInv

\* What is known when an instruction is visited: it has no operands yet, starts
\* no value and is not deleted.
LEMMA NotVisited ==
    ASSUME BackwardInv, x64.index > 0
    PROVE  /\ x64.index \in 1..Len(Code) /\ Len(Code) \in Nat
           /\ x64.regs[x64.index][0] = 0 /\ x64.regs[x64.index][1] = 0 /\ x64.index \notin x64.deleted
           /\ x64.regs \in [1..Len(Code) -> [0..1 -> Nat]]
           /\ \A k \in Ids(x64) : Started(x64, k) # x64.index
<1>1. x64.index \in 1..Len(Code) /\ Len(Code) \in Nat
  BY InstructionFacts DEF BackwardInv
<1>2. x64.regs[x64.index][0] = 0 /\ x64.regs[x64.index][1] = 0 /\ x64.index \notin x64.deleted
  BY <1>1 DEF BackwardInv, Unvisited
<1>3. ASSUME NEW k \in Ids(x64), Started(x64, k) = x64.index
      PROVE  FALSE
  <2>1. PICK n \in 0..1 : x64.regs[x64.index][n] = k
    BY <1>1, <1>3 DEF BackwardInv, Linked, Starting
  <2> QED
    BY <2>1, <1>2, <1>3 DEF Ids
<1>4. x64.regs \in [1..Len(Code) -> [0..1 -> Nat]]
  BY DEF BackwardInv, Linked, Types
<1> QED
  BY <1>1, <1>2, <1>3, <1>4

\* The operands of two functions of operands are the same when both are.
LEMMA SameOperands ==
    ASSUME NEW r \in [1..Len(Code) -> [0..1 -> Nat]], NEW s \in [1..Len(Code) -> [0..1 -> Nat]],
           NEW i \in 1..Len(Code), \A n \in 0..1 : r[i][n] = s[i][n]
    PROVE  r[i] = s[i]
<1>1. r[i] \in [0..1 -> Nat] /\ s[i] \in [0..1 -> Nat]
  OBVIOUS
<1> QED
  BY <1>1

\* The shape of an instruction that has one operand, or two that may differ.
LEMMA ShapedFrom ==
    ASSUME NEW g, Visiting(g),
           Current.op \in NoOperand => g.regs[x64.index][0] = 0,
           Current.op \in NoOperand \cup OneOperand => g.regs[x64.index][1] = 0,
           Current.op = "BXOR" /\ Current.a = Current.b => g.regs[x64.index][1] = g.regs[x64.index][0]
    PROVE  Shaped(g, Code, x64.index)
<1>1. x64.index \in 1..Len(Code) /\ Len(Code) \in Nat
  BY DEF Visiting
<1> SUFFICES ASSUME NEW i \in x64.index..Len(Code)
             PROVE  /\ Code[i].op \in NoOperand => g.regs[i][0] = 0
                    /\ Code[i].op \in NoOperand \cup OneOperand => g.regs[i][1] = 0
                    /\ Code[i].op = "BXOR" /\ Code[i].a = Code[i].b => g.regs[i][1] = g.regs[i][0]
  BY DEF Shaped
<1>2. CASE i = x64.index
  BY <1>2 DEF Current
<1>3. CASE i \in x64.index + 1..Len(Code)
  BY <1>3 DEF Visiting, Shaped
<1> QED
  BY <1>1, <1>2, <1>3

\* The visit of an instruction ends: only its own operands were changed, and they
\* have the shape its operation asks for.
LEMMA VisitCloses ==
    ASSUME BackwardInv, x64.index > 0, x64.stage = "backward", NEW g, Visiting(g),
           Earlier(g), bytecode' = bytecode,
           \A i \in 1..Len(Code), n \in 0..1 : i # x64.index => g.regs[i][n] = x64.regs[i][n],
           \A i \in g.deleted : i \in x64.deleted \/ i >= x64.index,
           Current.op \in NoOperand => g.regs[x64.index][0] = 0,
           Current.op \in NoOperand \cup OneOperand => g.regs[x64.index][1] = 0,
           Current.op = "BXOR" /\ Current.a = Current.b => g.regs[x64.index][1] = g.regs[x64.index][0]
    PROVE  BackwardInv' /\ x64'.stage = "backward"
<1>1. /\ x64.index \in 1..Len(Code) /\ Len(Code) \in Nat
      /\ x64.regs \in [1..Len(Code) -> [0..1 -> Nat]] /\ g.regs \in [1..Len(Code) -> [0..1 -> Nat]]
  BY NotVisited DEF Visiting, Linked, Types
<1>2. Shaped(g, Code, x64.index)
  BY ShapedFrom
<1>3. \A i \in 1..x64.index - 1 : g.regs[i] = x64.regs[i]
  <2> TAKE i \in 1..x64.index - 1
  <2>1. i \in 1..Len(Code) /\ i # x64.index
    BY <1>1
  <2>2. \A n \in 0..1 : g.regs[i][n] = x64.regs[i][n]
    BY <2>1
  <2> QED
    BY <2>1, <2>2, <1>1, SameOperands
<1> QED
  BY <1>2, <1>3, VisitEnds

LEMMA BackwardPopKeeps ==
    ASSUME BackwardInv, BackwardPop, bytecode' = bytecode
    PROVE  BackwardInv' /\ x64'.stage = "backward"
<1> DEFINE p == x64.index
           to == Recipient(x64, 0)
           shared == SetReg(x64, 0, IdOf(x64, to))
           popped == [shared EXCEPT !.push_list = Append(@, p), !.last_was_pop = TRUE,
                                    !.index_of_last_pop = p, !.original_recipient = to]
           gone == Delete(x64, p)
           skipped == [gone EXCEPT !.push_list = Append(@, 0), !.last_was_pop = FALSE]
<1>1. x64.stage = "backward" /\ x64.index > 0 /\ Current.op = "POP"
  BY DEF BackwardPop, Backward
<1>2. /\ p \in 1..Len(Code) /\ Len(Code) \in Nat /\ Visiting(x64) /\ Operand(0) \in GeneralRegisters
      /\ x64.regs[p][0] = 0 /\ x64.regs[p][1] = 0 /\ p \notin x64.deleted
      /\ x64.regs \in [1..Len(Code) -> [0..1 -> Nat]]
      /\ \A k \in Ids(x64) : Started(x64, k) # p
  <2>1. ~Essential(Current.op)
    BY <1>1 DEF Essential
  <2> QED
    BY <2>1, <1>1, NotVisited, VisitStarts, InstructionFacts DEF BackwardInv
<1>3. Code[p].op = "POP"
  BY <1>1 DEF Current
<1>4. ASSUME NEW g, Visiting(g), Earlier(FreeMapReg(g, 0)),
             \A i \in 1..Len(Code), n \in 0..1 : i # p \/ n # 0 => g.regs[i][n] = x64.regs[i][n],
             \A i \in g.deleted : i \in x64.deleted \/ i = p
      PROVE  BackwardInv' /\ x64'.stage = "backward"
  <2> DEFINE h == FreeMapReg(g, 0)
  <2>1. Visiting(h) /\ h.regs = g.regs /\ h.deleted = g.deleted
    BY <1>4, FreeMapStep DEF OnlyMap
  <2>2. h.regs[p][1] = 0
    BY <2>1, <1>2, <1>4
  <2>3. Earlier(h)
    BY <1>4
  <2> HIDE DEF h
  <2>4. /\ \A i \in 1..Len(Code), n \in 0..1 : i # p => h.regs[i][n] = x64.regs[i][n]
        /\ \A i \in h.deleted : i \in x64.deleted \/ i >= p
    BY <2>1, <1>2, <1>4
  <2>5. Current.op \notin NoOperand /\ Current.op # "BXOR"
    BY <1>1 DEF NoOperand
  <2> QED
    BY <2>1, <2>2, <2>3, <2>4, <2>5, <1>1, VisitCloses
<1>5. CASE to # NoUse
  <2>1. to \in [inst : Int, nr : Int] /\ Expects(x64, Code, to, p - 1)
    BY <1>2, <1>5 DEF Visiting, Linked, Recipient
  <2>2. /\ Visiting(shared) /\ ButOperand(x64, shared, 0) /\ Expects(shared, Code, to, p - 1)
    BY <2>1, <1>2, ShareStep
  <2>a. popped = [shared EXCEPT !.push_list = Append(@, p), !.last_was_pop = TRUE,
                                !.index_of_last_pop = p, !.original_recipient = to]
    OBVIOUS
  <2>b. Earlier(FreeMapReg(popped, 0))
    BY <1>5 DEF BackwardPop
  <2> HIDE DEF popped, shared, to
  <2>3. /\ OnlyMap(shared, popped) /\ popped.map = shared.map /\ popped.last_was_pop = TRUE
        /\ popped.index_of_last_pop = p /\ popped.original_recipient = to
    BY <2>a, <2>2 DEF Visiting, IsBuilder, OnlyMap
  <2>4. Visiting(popped)
    <3>1. /\ shared.map \in [GeneralRegisters -> [inst : Int, nr : Int]]
          /\ \A r \in GeneralRegisters : shared.map[r] = NoUse \/ Expects(shared, Code, shared.map[r], p - 1)
      BY <2>2 DEF Visiting, Linked
    <3>2. /\ popped.map \in [GeneralRegisters -> [inst : Int, nr : Int]]
          /\ \A r \in GeneralRegisters : popped.map[r] = NoUse \/ Expects(shared, Code, popped.map[r], p - 1)
      BY <3>1, <2>3
    <3>3. /\ popped.original_recipient \in [inst : Int, nr : Int] /\ Expects(shared, Code, popped.original_recipient, p - 1)
          /\ popped.index_of_last_pop \in p..Len(Code) /\ Code[popped.index_of_last_pop].op = "POP"
          /\ popped.last_was_pop \in BOOLEAN
      <4>1. popped.original_recipient \in [inst : Int, nr : Int] /\ Expects(shared, Code, popped.original_recipient, p - 1)
        BY <2>1, <2>2, <2>3
      <4>2. popped.index_of_last_pop \in p..Len(Code)
        BY <2>3, <1>2
      <4>3. Code[popped.index_of_last_pop].op = "POP" /\ popped.last_was_pop \in BOOLEAN
        BY <2>3, <1>3
      <4> QED
        BY <4>1, <4>2, <4>3
    <3> QED
      BY <3>2, <3>3, <2>2, <2>3, OnlyMapStep
  <2> QED
    BY <2>2, <2>3, <2>4, <2>b, <1>4 DEF OnlyMap, ButOperand
<1>6. CASE to = NoUse
  <2>2. Visiting(gone) /\ gone.regs = x64.regs /\ gone.deleted = x64.deleted \cup {p}
    BY <1>2, DeleteStep
  <2>a. skipped = [gone EXCEPT !.push_list = Append(@, 0), !.last_was_pop = FALSE]
    OBVIOUS
  <2>b. Earlier(FreeMapReg(skipped, 0))
    BY <1>6 DEF BackwardPop
  <2> HIDE DEF skipped, gone
  <2>3. OnlyMap(gone, skipped) /\ skipped.map = gone.map /\ skipped.last_was_pop = FALSE
    BY <2>a, <2>2 DEF Visiting, IsBuilder, OnlyMap
  <2>4. Visiting(skipped)
    <3>1. /\ gone.map \in [GeneralRegisters -> [inst : Int, nr : Int]]
          /\ \A r \in GeneralRegisters : gone.map[r] = NoUse \/ Expects(gone, Code, gone.map[r], p - 1)
      BY <2>2 DEF Visiting, Linked
    <3> QED
      BY <3>1, <2>2, <2>3, OnlyMapStep
  <2> QED
    BY <2>2, <2>3, <2>4, <2>b, <1>4 DEF OnlyMap
<1> QED
  BY <1>5, <1>6

LEMMA BackwardPushKeeps ==
    ASSUME BackwardInv, BackwardPush, bytecode' = bytecode
    PROVE  BackwardInv' /\ x64'.stage = "backward"
<1> DEFINE p == x64.index
           to == Recipient(x64, 0)
           j == x64.index_of_last_pop
           both == Delete(Delete(x64, p), j)
           remapped == [both EXCEPT !.map[Current.a] = x64.original_recipient]
           g == IF Last(x64.push_list) = 0 THEN Delete(x64, p)
                ELSE IF x64.last_was_pop THEN remapped
                ELSE IF to # NoUse THEN SetReg(x64, 0, IdOf(x64, to))
                ELSE Fresh(x64, 0)
           h == [g EXCEPT !.last_was_pop = FALSE, !.push_list = Front(@)]
<1>1. x64.stage = "backward" /\ x64.index > 0 /\ Current.op = "PUSH" /\ Earlier(h)
  BY DEF BackwardPush, Backward
<1>2. /\ p \in 1..Len(Code) /\ Len(Code) \in Nat /\ Visiting(x64)
      /\ Operand(0) \in GeneralRegisters /\ Operand(0) = Current.a
      /\ x64.regs[p][0] = 0 /\ x64.regs[p][1] = 0 /\ p \notin x64.deleted
      /\ \A k \in Ids(x64) : Started(x64, k) # p
  <2>1. ~Essential(Current.op)
    BY <1>1 DEF Essential
  <2> QED
    BY <2>1, <1>1, NotVisited, VisitStarts, InstructionFacts DEF BackwardInv, Operand
<1>3. /\ Visiting(g)
      /\ \A i \in 1..Len(Code), n \in 0..1 : i # p \/ n # 0 => g.regs[i][n] = x64.regs[i][n]
      /\ \A i \in g.deleted : i \in x64.deleted \/ i >= p
  <2>0. /\ Visiting(Delete(x64, p)) /\ Delete(x64, p).regs = x64.regs /\ Delete(x64, p).artificial = x64.artificial
        /\ Delete(x64, p).deleted = x64.deleted \cup {p}
        /\ \A w : Expects(x64, Code, w, p - 1) => Expects(Delete(x64, p), Code, w, p - 1)
    BY <1>2, DeleteStep
  <2>1. CASE Last(x64.push_list) = 0
    <3>1. g = Delete(x64, p)
      BY <2>1
    <3> HIDE DEF g
    <3> QED
      BY <3>1, <2>0, <1>2
  <2>2. CASE Last(x64.push_list) # 0 /\ x64.last_was_pop
    <3>1. /\ j \in p..Len(Code) /\ Code[j].op = "POP"
          /\ x64.original_recipient \in [inst : Int, nr : Int] /\ Expects(x64, Code, x64.original_recipient, p - 1)
      <4>1. p - 1 + 1 = p
        BY <1>2
      <4> QED
        BY <4>1, <1>2, <2>2 DEF Visiting, Linked
    <3>2. \A k \in Ids(Delete(x64, p)) : Started(Delete(x64, p), k) # j
      <4> SUFFICES ASSUME NEW k \in Ids(x64), Started(x64, k) = j PROVE FALSE
        BY <2>0 DEF Ids, Started
      <4>1. Started(x64, k) # -1
        BY <3>1, <1>2
      <4> QED
        BY <4>1, <3>1, <1>2 DEF Visiting, Linked
    <3> DEFINE one == Delete(x64, p)
    <3>3. /\ Visiting(one) /\ one.regs = x64.regs /\ one.deleted = x64.deleted \cup {p}
          /\ Expects(one, Code, x64.original_recipient, p - 1)
      BY <2>0, <3>1
    <3>4. \A k \in Ids(one) : Started(one, k) # j
      BY <3>2
    <3> HIDE DEF one
    <3>5. j \in Int
      BY <3>1
    <3>6. /\ Visiting(Delete(one, j)) /\ Delete(one, j).regs = x64.regs /\ Delete(one, j).deleted = x64.deleted \cup {p} \cup {j}
          /\ Expects(Delete(one, j), Code, x64.original_recipient, p - 1)
      BY <3>3, <3>4, <3>5, DeleteStep
    <3>7. both = Delete(one, j)
      BY DEF one
    <3>8. /\ Visiting(both) /\ both.regs = x64.regs /\ both.deleted = x64.deleted \cup {p} \cup {j}
          /\ Expects(both, Code, x64.original_recipient, p - 1)
      BY <3>6, <3>7
    <3>a. remapped = [both EXCEPT !.map[Current.a] = x64.original_recipient]
      OBVIOUS
    <3>b. g = remapped
      BY <2>2
    <3> HIDE DEF both, remapped, g
    <3>9. /\ OnlyMap(both, remapped) /\ remapped.map = [both.map EXCEPT ![Current.a] = x64.original_recipient]
          /\ remapped.last_was_pop = both.last_was_pop /\ remapped.original_recipient = both.original_recipient
          /\ remapped.index_of_last_pop = both.index_of_last_pop
      BY <3>a, <3>8 DEF Visiting, IsBuilder, OnlyMap
    <3>10. /\ both.map \in [GeneralRegisters -> [inst : Int, nr : Int]]
           /\ \A r \in GeneralRegisters : both.map[r] = NoUse \/ Expects(both, Code, both.map[r], p - 1)
           /\ both.last_was_pop \in BOOLEAN
           /\ both.last_was_pop =>
                 /\ both.original_recipient \in [inst : Int, nr : Int]
                 /\ Expects(both, Code, both.original_recipient, p - 1)
                 /\ both.index_of_last_pop \in p..Len(Code) /\ Code[both.index_of_last_pop].op = "POP"
      <4>1. p - 1 + 1 = p
        BY <1>2
      <4> QED
        BY <4>1, <3>8 DEF Visiting, Linked
    <3>11. /\ remapped.map \in [GeneralRegisters -> [inst : Int, nr : Int]]
           /\ \A r \in GeneralRegisters : remapped.map[r] = both.map[r] \/ remapped.map[r] = x64.original_recipient
      BY <3>1, <3>9, <3>10
    <3>12. \A r \in GeneralRegisters : remapped.map[r] = NoUse \/ Expects(both, Code, remapped.map[r], p - 1)
      BY <3>8, <3>10, <3>11
    <3>13. Visiting(remapped)
      BY <3>8, <3>9, <3>10, <3>11, <3>12, OnlyMapStep
    <3> QED
      BY <3>b, <3>1, <3>8, <3>9, <3>13, <1>2 DEF OnlyMap
  <2>3. CASE Last(x64.push_list) # 0 /\ ~x64.last_was_pop /\ to # NoUse
    <3>1. to \in [inst : Int, nr : Int] /\ Expects(x64, Code, to, p - 1)
      BY <1>2, <2>3 DEF Visiting, Linked, Recipient
    <3> DEFINE shared == SetReg(x64, 0, IdOf(x64, to))
    <3>2. Visiting(shared) /\ ButOperand(x64, shared, 0)
      BY <3>1, <1>2, ShareStep
    <3>3. g = shared
      BY <2>3
    <3> HIDE DEF g, shared
    <3> QED
      BY <3>2, <3>3 DEF ButOperand
  <2>4. CASE Last(x64.push_list) # 0 /\ ~x64.last_was_pop /\ to = NoUse
    <3>1. Visiting(Fresh(x64, 0)) /\ ButOperand(x64, Fresh(x64, 0), 0)
      BY <1>1, <1>2, FreshStep
    <3>2. g = Fresh(x64, 0)
      BY <2>4
    <3> HIDE DEF g
    <3> QED
      BY <3>1, <3>2 DEF ButOperand
  <2> QED
    BY <2>1, <2>2, <2>3, <2>4
<1>a. h = [g EXCEPT !.last_was_pop = FALSE, !.push_list = Front(@)]
  OBVIOUS
<1> HIDE DEF h, g
<1>4. OnlyMap(g, h) /\ h.map = g.map /\ h.last_was_pop = FALSE
  BY <1>a, <1>3 DEF Visiting, IsBuilder, OnlyMap
<1>5. Visiting(h)
  <2>1. /\ g.map \in [GeneralRegisters -> [inst : Int, nr : Int]]
        /\ \A r \in GeneralRegisters : g.map[r] = NoUse \/ Expects(g, Code, g.map[r], p - 1)
    BY <1>3 DEF Visiting, Linked
  <2> QED
    BY <2>1, <1>3, <1>4, OnlyMapStep
<1>6. h.regs[p][1] = 0
  BY <1>2, <1>3, <1>4 DEF OnlyMap
<1>7. /\ \A i \in 1..Len(Code), n \in 0..1 : i # p => h.regs[i][n] = x64.regs[i][n]
      /\ \A i \in h.deleted : i \in x64.deleted \/ i >= p
  BY <1>3, <1>4 DEF OnlyMap
<1>8. Current.op \notin NoOperand /\ Current.op # "BXOR"
  BY <1>1 DEF NoOperand
<1> QED
  BY <1>1, <1>5, <1>6, <1>7, <1>8, VisitCloses

LEMMA BackwardCastKeeps ==
    ASSUME BackwardInv, BackwardCast, bytecode' = bytecode
    PROVE  BackwardInv' /\ x64'.stage = "backward"
<1> DEFINE p == x64.index
           c == [x64 EXCEPT !.last_was_pop = FALSE]
           shared == Share(c, 0)
           freed == FreeMapReg(shared, 0)
           g == IF Recipient(x64, 0) = NoUse THEN Delete(c, p)
                ELSE IF Current.a # Current.b THEN Bind(freed, 1) ELSE Fresh(freed, 1)
<1>1. x64.stage = "backward" /\ x64.index > 0 /\ Current.op = "CAST" /\ Earlier(g)
  BY DEF BackwardCast, Backward
<1>2. /\ p \in 1..Len(Code) /\ Len(Code) \in Nat /\ Visiting(x64)
      /\ Operand(0) \in GeneralRegisters /\ Operand(1) \in GeneralRegisters
      /\ x64.regs[p][0] = 0 /\ x64.regs[p][1] = 0 /\ p \notin x64.deleted
      /\ \A k \in Ids(x64) : Started(x64, k) # p
  <2>1. ~Essential(Current.op)
    BY <1>1 DEF Essential
  <2> QED
    BY <2>1, <1>1, NotVisited, VisitStarts, InstructionFacts DEF BackwardInv
<1>a. c = [x64 EXCEPT !.last_was_pop = FALSE]
  OBVIOUS
<1> HIDE DEF c
<1>3. OnlyMap(x64, c) /\ c.map = x64.map /\ c.last_was_pop = FALSE
  BY <1>a, <1>2 DEF Visiting, IsBuilder, OnlyMap
<1>4. Visiting(c)
  <2>1. /\ x64.map \in [GeneralRegisters -> [inst : Int, nr : Int]]
        /\ \A r \in GeneralRegisters : x64.map[r] = NoUse \/ Expects(x64, Code, x64.map[r], p - 1)
    BY <1>2 DEF Visiting, Linked
  <2> QED
    BY <2>1, <1>2, <1>3, OnlyMapStep
<1>5. /\ Visiting(g)
      /\ \A i \in 1..Len(Code), n \in 0..1 : i # p => g.regs[i][n] = x64.regs[i][n]
      /\ \A i \in g.deleted : i \in x64.deleted \/ i >= p
  <2>1. CASE Recipient(x64, 0) = NoUse
    <3>1. \A k \in Ids(c) : Started(c, k) # p
      BY <1>2, <1>3 DEF OnlyMap, Ids, Started
    <3>2. Visiting(Delete(c, p)) /\ Delete(c, p).regs = c.regs /\ Delete(c, p).deleted = c.deleted \cup {p}
      BY <3>1, <1>2, <1>4, DeleteStep
    <3>3. g = Delete(c, p)
      BY <2>1
    <3> HIDE DEF g
    <3> QED
      BY <3>2, <3>3, <1>2, <1>3 DEF OnlyMap
  <2>2. CASE Recipient(x64, 0) # NoUse
    <3>1. Visiting(shared) /\ ButOperand(c, shared, 0)
      <4>1. Recipient(c, 0) # NoUse /\ c.regs[x64.index][0] = 0
        BY <2>2, <1>2, <1>3 DEF Recipient, OnlyMap
      <4> QED
        BY <4>1, <1>1, <1>2, <1>4, SharedStep
    <3> HIDE DEF shared
    <3>2. Visiting(freed) /\ OnlyMap(shared, freed)
      BY <3>1, FreeMapStep
    <3>3. freed.regs[p][1] = 0 /\ p \notin freed.deleted
      BY <3>1, <3>2, <1>2, <1>3 DEF ButOperand, OnlyMap
    <3> HIDE DEF freed
    <3>4. Visiting(Bind(freed, 1)) /\ ButOperand(freed, Bind(freed, 1), 1)
      BY <3>2, <3>3, <1>1, <1>2, BindStep DEF BCRegister
    <3>5. Visiting(Fresh(freed, 1)) /\ ButOperand(freed, Fresh(freed, 1), 1)
      BY <3>2, <3>3, <1>1, <1>2, FreshStep
    <3>6. g = Bind(freed, 1) \/ g = Fresh(freed, 1)
      BY <2>2
    <3>7. \A i \in 1..Len(Code), n \in 0..1 : i # p => freed.regs[i][n] = x64.regs[i][n]
      BY <3>1, <3>2, <1>3 DEF ButOperand, OnlyMap
    <3>8. freed.deleted = x64.deleted
      BY <3>1, <3>2, <1>3 DEF ButOperand, OnlyMap
    <3> HIDE DEF g
    <3>9. CASE g = Bind(freed, 1)
      BY <3>4, <3>7, <3>8, <3>9 DEF ButOperand
    <3>10. CASE g = Fresh(freed, 1)
      BY <3>5, <3>7, <3>8, <3>10 DEF ButOperand
    <3> QED
      BY <3>6, <3>9, <3>10
  <2> QED
    BY <2>1, <2>2
<1> HIDE DEF g
<1>6. Current.op \notin NoOperand \cup OneOperand /\ Current.op # "BXOR"
  BY <1>1 DEF NoOperand, OneOperand
<1> QED
  BY <1>1, <1>5, <1>6, VisitCloses

LEMMA BackwardEssentialKeeps ==
    ASSUME BackwardInv, BackwardEssential, bytecode' = bytecode
    PROVE  BackwardInv' /\ x64'.stage = "backward"
<1> DEFINE p == x64.index
           c == Cleared(x64)
           first == IF Current.op = "SET_RET" THEN Fresh(c, 0) ELSE Bind(c, 0)
           g == Bind(first, 1)
<1>1. x64.stage = "backward" /\ x64.index > 0 /\ Essential(Current.op) /\ Earlier(g)
  BY DEF BackwardEssential
<1>2. /\ p \in 1..Len(Code) /\ Len(Code) \in Nat
      /\ Operand(0) \in BCRegister /\ Operand(1) \in BCRegister
      /\ Current.op \in NoOperand => Operand(0) = "INVALID"
      /\ Current.op \in NoOperand \cup OneOperand => Operand(1) = "INVALID"
      /\ Current.op = "SET_RET" => Operand(0) \in GeneralRegisters
      /\ x64.regs[p][0] = 0 /\ x64.regs[p][1] = 0 /\ p \notin x64.deleted
  BY <1>1, NotVisited, InstructionFacts DEF BackwardInv
<1>3. Visiting(c) /\ OnlyMap(x64, c)
  BY <1>1, ClearedStep
<1>4. c.regs[p][0] = 0 /\ c.regs[p][1] = 0 /\ p \notin c.deleted /\ c.deleted = x64.deleted
  BY <1>2, <1>3 DEF OnlyMap
<1> HIDE DEF c
<1>5. Current.op # "POP" /\ (Current.op = "CALL" => Operand(0) = "INVALID" /\ Operand(1) = "INVALID") /\ Current.op # "BXOR"
  BY <1>1, <1>2 DEF Essential, NoOperand
<1>6. Visiting(first) /\ ButOperand(c, first, 0) /\ (Current.op \in NoOperand => first = c)
  <2>1. CASE Current.op = "SET_RET"
    <3>1. Visiting(Fresh(c, 0)) /\ ButOperand(c, Fresh(c, 0), 0)
      BY <2>1, <1>2, <1>3, <1>4, FreshStep
    <3>2. Current.op \notin NoOperand
      BY <2>1 DEF NoOperand
    <3> QED
      BY <2>1, <3>1, <3>2
  <2>2. CASE Current.op # "SET_RET"
    <3>1. /\ Visiting(Bind(c, 0)) /\ ButOperand(c, Bind(c, 0), 0)
          /\ Operand(0) = "INVALID" => Bind(c, 0) = c
      BY <1>2, <1>3, <1>4, <1>5, BindStep
    <3> QED
      BY <2>2, <3>1, <1>2
  <2> QED
    BY <2>1, <2>2
<1> HIDE DEF first
<1>7. first.regs[p][1] = 0 /\ p \notin first.deleted /\ (Current.op \in NoOperand => first.regs[p][0] = 0)
  BY <1>2, <1>4, <1>6 DEF ButOperand
<1>8. /\ Visiting(g) /\ ButOperand(first, g, 1)
      /\ Operand(1) = "INVALID" => g = first
  BY <1>2, <1>5, <1>6, <1>7, BindStep
<1> HIDE DEF g
<1>9. /\ Current.op \in NoOperand => g.regs[p][0] = 0
      /\ Current.op \in NoOperand \cup OneOperand => g.regs[p][1] = 0
  BY <1>2, <1>7, <1>8
<1>10. /\ \A i \in 1..Len(Code), n \in 0..1 : i # p => g.regs[i][n] = x64.regs[i][n]
       /\ \A i \in g.deleted : i \in x64.deleted \/ i >= p
  BY <1>3, <1>4, <1>6, <1>8 DEF ButOperand, OnlyMap
<1> QED
  BY <1>1, <1>5, <1>8, <1>9, <1>10, VisitCloses

LEMMA BackwardOtherKeeps ==
    ASSUME BackwardInv, BackwardOther, bytecode' = bytecode
    PROVE  BackwardInv' /\ x64'.stage = "backward"
<1> DEFINE p == x64.index
           c == Cleared(x64)
           shared == Share(c, 0)
           first == IF Starts(Current.op) THEN FreeMapReg(shared, 0) ELSE shared
           g == IF Recipient(c, 0) = NoUse THEN Delete(c, p) ELSE Bind(first, 1)
<1>1. /\ x64.stage = "backward" /\ x64.index > 0
      /\ ~Essential(Current.op) /\ Current.op \notin {"POP", "PUSH", "CAST"} /\ Earlier(g)
  BY DEF BackwardOther
<1>2. /\ p \in 1..Len(Code) /\ Len(Code) \in Nat
      /\ Operand(0) \in GeneralRegisters /\ Operand(1) \in BCRegister
      /\ Current.op \in NoOperand \cup OneOperand => Operand(1) = "INVALID"
      /\ x64.regs[p][0] = 0 /\ x64.regs[p][1] = 0 /\ p \notin x64.deleted
      /\ \A k \in Ids(x64) : Started(x64, k) # p
  BY <1>1, NotVisited, InstructionFacts DEF BackwardInv
<1>3. Visiting(c) /\ OnlyMap(x64, c)
  BY <1>1, ClearedStep
<1>4. c.regs[p][0] = 0 /\ c.regs[p][1] = 0 /\ p \notin c.deleted /\ c.deleted = x64.deleted
  BY <1>2, <1>3 DEF OnlyMap
<1>5. Current.op \notin {"POP", "CALL"} /\ Current.op \notin NoOperand
  BY <1>1 DEF Essential, NoOperand
<1>6. CASE Recipient(c, 0) = NoUse
  <2>1. \A k \in Ids(c) : Started(c, k) # p
    BY <1>2, <1>3 DEF OnlyMap, Ids, Started
  <2>2. Visiting(Delete(c, p)) /\ Delete(c, p).regs = c.regs /\ Delete(c, p).deleted = c.deleted \cup {p}
    BY <2>1, <1>2, <1>3, DeleteStep
  <2>3. g = Delete(c, p)
    BY <1>6
  <2> HIDE DEF g, c
  <2>4. /\ Visiting(g) /\ g.regs[p][0] = 0 /\ g.regs[p][1] = 0
        /\ \A i \in 1..Len(Code), n \in 0..1 : i # p => g.regs[i][n] = x64.regs[i][n]
        /\ \A i \in g.deleted : i \in x64.deleted \/ i >= p
    BY <2>2, <2>3, <1>2, <1>3, <1>4 DEF OnlyMap
  <2> QED
    BY <2>4, <1>1, VisitCloses
<1>7. CASE Recipient(c, 0) # NoUse
  <2> DEFINE use == [inst |-> p, nr |-> 0]
  <2> HIDE DEF c
  <2>1. /\ Visiting(shared) /\ ButOperand(c, shared, 0) /\ shared.map[Operand(0)] = use
        /\ use # NoUse /\ use \in [inst : Int, nr : Int] /\ Expects(shared, Code, use, p - 1)
    BY <1>2, <1>3, <1>4, <1>5, <1>7, SharedStep
  <2> HIDE DEF shared
  <2>2. /\ Visiting(first) /\ OnlyMap(shared, first)
        /\ ~Starts(Current.op) => first = shared
    <3>1. Visiting(FreeMapReg(shared, 0)) /\ OnlyMap(shared, FreeMapReg(shared, 0))
      BY <2>1, FreeMapStep
    <3>2. OnlyMap(shared, shared)
      BY <2>1 DEF Visiting, OnlyMap
    <3> QED
      BY <2>1, <3>1, <3>2
  <2>3. first.regs[p][1] = 0 /\ p \notin first.deleted /\ first.deleted = x64.deleted
    BY <2>1, <2>2, <1>2, <1>4 DEF ButOperand, OnlyMap
  <2> HIDE DEF first
  <2>4. /\ Visiting(Bind(first, 1)) /\ ButOperand(first, Bind(first, 1), 1)
        /\ Operand(1) = "INVALID" => Bind(first, 1) = first
    BY <2>2, <2>3, <1>2, <1>5, BindStep
  <2>5. g = Bind(first, 1)
    BY <1>7
  <2>6. Current.op = "BXOR" /\ Current.a = Current.b => g.regs[p][1] = g.regs[p][0]
    <3> SUFFICES ASSUME Current.op = "BXOR", Current.a = Current.b PROVE g.regs[p][1] = g.regs[p][0]
      OBVIOUS
    <3>1. first = shared
      BY <2>2 DEF Starts
    <3>2. Operand(1) = Operand(0)
      BY DEF Operand
    <3>3. Recipient(first, 1) = use /\ Recipient(first, 1) # NoUse
      BY <3>1, <3>2, <2>1 DEF Recipient
    <3>4. Operand(1) # "INVALID" /\ Operand(1) # "LOCALS"
      BY <3>2, <1>2 DEF GeneralRegisters
    <3>5. g = Share(first, 1)
      BY <2>5, <3>3, <3>4 DEF Bind
    <3>6. Share(first, 1).regs[p][1] = IdOf(first, use)
      BY <3>2, <3>3, <2>2, <2>3, <1>2, <1>5, SharedStep
    <3>7. IdOf(first, use) = first.regs[p][0]
      BY DEF IdOf
    <3>8. g.regs[p][0] = first.regs[p][0]
      BY <2>4, <2>5, <1>2 DEF ButOperand
    <3> QED
      BY <3>5, <3>6, <3>7, <3>8
  <2> HIDE DEF g
  <2>7. Current.op \in NoOperand \cup OneOperand => g.regs[p][1] = 0
    BY <2>3, <2>4, <2>5, <1>2
  <2>8. /\ \A i \in 1..Len(Code), n \in 0..1 : i # p => g.regs[i][n] = x64.regs[i][n]
        /\ \A i \in g.deleted : i \in x64.deleted \/ i >= p
    BY <2>1, <2>2, <2>3, <2>4, <2>5, <1>3 DEF ButOperand, OnlyMap
  <2> QED
    BY <2>4, <2>5, <2>6, <2>7, <2>8, <1>1, <1>5, VisitCloses
<1> QED
  BY <1>6, <1>7

-----------------------------------------------------------------------------
(* The forward pass.                                                          *)

\* A register is free when it is allocated.
LEMMA AllocRegisterStep ==
    ASSUME NEW g
    PROVE  /\ AllocRegister(g) \in Registers \ {"BP"}
           /\ AllocRegister(g) # NoRegister => AllocRegister(g) \notin g.used
<1> DEFINE I == {i \in 1..Len(AllocationOrder) : AllocationOrder[i] \notin g.used}
           k == SelectInSeq(AllocationOrder, LAMBDA r : r \notin g.used)
<1>1. k = IF I # {} THEN Min(I) ELSE 0
  BY DEF SelectInSeq
<1>2. Len(AllocationOrder) = 8
  BY DEF AllocationOrder
<1>3. I # {} => \E i \in I : \A j \in I : i <= j
  <2>1. \A i \in I : i = 1 \/ i = 2 \/ i = 3 \/ i = 4 \/ i = 5 \/ i = 6 \/ i = 7 \/ i = 8
    BY <1>2
  <2> HIDE DEF I
  <2>2. CASE 1 \in I
    BY <2>1, <2>2
  <2>3. CASE 1 \notin I /\ 2 \in I
    BY <2>1, <2>3
  <2>4. CASE 1 \notin I /\ 2 \notin I /\ 3 \in I
    BY <2>1, <2>4
  <2>5. CASE {1, 2, 3} \cap I = {} /\ 4 \in I
    BY <2>1, <2>5
  <2>6. CASE {1, 2, 3, 4} \cap I = {} /\ 5 \in I
    BY <2>1, <2>6
  <2>7. CASE {1, 2, 3, 4, 5} \cap I = {} /\ 6 \in I
    BY <2>1, <2>7
  <2>8. CASE {1, 2, 3, 4, 5, 6} \cap I = {} /\ 7 \in I
    BY <2>1, <2>8
  <2>9. CASE {1, 2, 3, 4, 5, 6, 7} \cap I = {}
    BY <2>1, <2>9
  <2> QED
    BY <2>2, <2>3, <2>4, <2>5, <2>6, <2>7, <2>8, <2>9
<1>4. I # {} => k \in I
  <2> SUFFICES ASSUME I # {} PROVE k \in I
    OBVIOUS
  <2>1. k = Min(I)
    BY <1>1
  <2> HIDE DEF I, k
  <2> QED
    BY <2>1, <1>3 DEF Min
<1>5. k = 0 \/ k \in I
  <2> HIDE DEF I, k
  <2> QED
    BY <1>1, <1>4
<1>6. \A i \in I : AllocationOrder[i] \in Registers \ {"BP"} /\ AllocationOrder[i] \notin g.used /\ i # 0
  <2>1. \A i \in 1..8 : AllocationOrder[i] \in Registers \ {"BP"}
    BY DEF AllocationOrder, Registers
  <2> QED
    BY <1>2, <2>1
<1>7. AllocRegister(g) = IF k = 0 THEN NoRegister ELSE AllocationOrder[k]
  BY DEF AllocRegister
<1>8. NoRegister \in Registers \ {"BP"}
  BY DEF NoRegister, Registers
<1> HIDE DEF I, k
<1> QED
  BY <1>5, <1>6, <1>7, <1>8

\* A value that has a register, one of those that are allocated.
InUse(g, k) == Started(g, k) # -1 /\ RegOf(g, k) # NoRegister

\* Registers when lo is the next instruction to give some back, and hi the last
\* one to have allocated some: a value that has one is still to be given back by
\* the instruction that started it, and an instruction that is done had it.
Held(g, lo, hi) ==
    /\ IsBuilder(g)
    /\ Types(g, Code) /\ Operands(g, Code) /\ Shaped(g, Code, 1) /\ Starting(g, Code)
    /\ \A r \in g.used : \E k \in Ids(g) : InUse(g, k) /\ RegOf(g, k) = r
    /\ \A k \in Ids(g) : InUse(g, k) => RegOf(g, k) \in g.used
    /\ \A k, l \in Ids(g) : InUse(g, k) /\ InUse(g, l) /\ RegOf(g, k) = RegOf(g, l) => k = l
    /\ \A k \in Ids(g) : Started(g, k) = -1 => RegOf(g, k) = "BP"
    /\ \A k \in Ids(g) : InUse(g, k) =>
          Started(g, k) >= lo /\ \E i \in 1..hi : \E nr \in 0..1 : g.regs[i][nr] = k

\* What holds between two steps of the forward pass, and when the last one is done.
ForwardInv ==
    /\ IsBytecode /\ x64.fn \in DOMAIN bytecode
    /\ Code \in Seq(Instruction) /\ x64.index \in 1..Len(Code) + 1
    /\ Held(x64, x64.index, x64.index - 1)

\* g is the builder while machine code is made of an instruction.
Working(g) ==
    /\ Code \in Seq(Instruction) /\ x64.index \in 1..Len(Code)
    /\ g.fn = x64.fn /\ g.stage = "forward" /\ g.index = x64.index
    /\ Held(g, x64.index, x64.index)
\* An operand's value has no register left when this instruction started it.
Freed(g, nr) == Id(g, nr) # 0 /\ Started(g, Id(g, nr)) = x64.index => RegOf(g, Id(g, nr)) = NoRegister

\* Text, stack pointers and moments leave the registers as they are.
LEMMA KeepsStep ==
    ASSUME NEW g, Working(g), NEW h, SameRegisters(g, h)
    PROVE  /\ Working(h)
           /\ \A nr : Id(h, nr) = Id(g, nr) /\ (Freed(g, nr) => Freed(h, nr))
<1>1. Ids(h) = Ids(g) /\ \A k : Started(h, k) = Started(g, k) /\ RegOf(h, k) = RegOf(g, k)
  BY DEF SameRegisters, Ids, Started, RegOf
<1>2. \A k : InUse(h, k) <=> InUse(g, k)
  BY <1>1 DEF InUse
<1>3. Types(h, Code) /\ Operands(h, Code) /\ Shaped(h, Code, 1) /\ Starting(h, Code)
  BY <1>1 DEF Working, Held, SameRegisters, Types, Operands, Shaped, Starting
<1>4. Held(h, x64.index, x64.index)
  BY <1>1, <1>2, <1>3 DEF Working, Held, SameRegisters
<1>5. \A nr : Id(h, nr) = Id(g, nr)
  BY DEF SameRegisters, Id
<1> QED
  BY <1>1, <1>4, <1>5 DEF Working, SameRegisters, Freed

\* An operand that is written gets a register of its own.
LEMMA OutStep ==
    ASSUME NEW g, Working(g), NEW nr \in 0..1
    PROVE  Working(Out(g, nr)) /\ Out(g, nr).regs = g.regs
<1> DEFINE id == Id(g, nr)
           reg == AllocRegister(g)
           h == [g EXCEPT !.artificial[id].reg = reg, !.used = @ \cup ({reg} \ {NoRegister})]
           p == x64.index
<1>1. CASE id = 0 \/ Physical(g, nr) # NoRegister
  <2>1. Out(g, nr) = g
    BY <1>1 DEF Out
  <2> QED
    BY <2>1
<1>2. CASE id # 0 /\ Physical(g, nr) = NoRegister
  <2>1. Out(g, nr) = h
    BY <1>2 DEF Out
  <2>2. /\ IsBuilder(g) /\ Len(Code) \in Nat /\ p \in 1..Len(Code) /\ g.index = p /\ Len(g.artificial) \in Nat
        /\ Types(g, Code) /\ Operands(g, Code) /\ Shaped(g, Code, 1) /\ Starting(g, Code)
        /\ Held(g, p, p)
    BY DEF Working, Held, Types
  <2>3. id = g.regs[p][nr] /\ id \in Ids(g) /\ RegOf(g, id) = NoRegister
    <3>1. id = g.regs[p][nr]
      BY <2>2 DEF Id
    <3>2. id \in Ids(g)
      BY <3>1, <1>2, <2>2 DEF Operands
    <3>3. RegOf(g, id) = NoRegister
      BY <1>2 DEF Physical, RegOf
    <3> QED
      BY <3>1, <3>2, <3>3
  <2>4. Started(g, id) # -1 /\ Started(g, id) >= p
    <3>1. NoRegister # "BP"
      BY DEF NoRegister
    <3>2. Started(g, id) # -1
      BY <2>2, <2>3, <3>1 DEF Held
    <3> QED
      BY <3>2, <1>2, <2>2, <2>3 DEF Operands
  <2>5. reg \in Registers \ {"BP"} /\ (reg # NoRegister => reg \notin g.used)
    BY AllocRegisterStep
  <2>a. h = [g EXCEPT !.artificial[id].reg = reg, !.used = @ \cup ({reg} \ {NoRegister})]
    OBVIOUS
  <2> HIDE DEF h, id, reg
  <2>6. /\ IsBuilder(h) /\ h.fn = g.fn /\ h.stage = g.stage /\ h.index = g.index
        /\ h.regs = g.regs /\ h.deleted = g.deleted /\ h.used = g.used \cup ({reg} \ {NoRegister})
        /\ h.artificial = [g.artificial EXCEPT ![id].reg = reg]
    BY <2>a, <2>2 DEF IsBuilder
  <2>7. /\ h.artificial \in Seq(ArtificialType) /\ Ids(h) = Ids(g)
        /\ \A k \in Ids(g) : Started(h, k) = Started(g, k) /\ RegOf(h, k) = IF k = id THEN reg ELSE RegOf(g, k)
    <3>1. g.artificial \in Seq(ArtificialType) /\ id \in 1..Len(g.artificial)
      BY <2>2, <2>3 DEF Types, Ids
    <3>2. h.artificial \in Seq(ArtificialType) /\ Len(h.artificial) = Len(g.artificial)
      <4> DEFINE new == [g.artificial[id] EXCEPT !.reg = reg]
      <4>1. g.artificial[id] \in ArtificialType
        BY <3>1
      <4>2. new \in ArtificialType
        BY <4>1, <3>1, <2>5 DEF ArtificialType
      <4>3. h.artificial = [g.artificial EXCEPT ![id] = new]
        BY <2>6
      <4> HIDE DEF new
      <4> QED
        BY <3>1, <4>2, <4>3
    <3>3. \A k \in Ids(g) : h.artificial[k] = IF k = id THEN [g.artificial[k] EXCEPT !.reg = reg] ELSE g.artificial[k]
      BY <3>1, <2>6 DEF Ids
    <3>4. \A k \in Ids(g) : g.artificial[k] \in ArtificialType
      BY <3>1 DEF Ids
    <3> QED
      BY <3>1, <3>2, <3>3, <3>4 DEF Ids, Started, RegOf, ArtificialType
  <2>8. Types(h, Code) /\ Operands(h, Code) /\ Shaped(h, Code, 1) /\ Starting(h, Code)
    <3>1. Types(h, Code) /\ Shaped(h, Code, 1)
      BY <2>2, <2>6, <2>7 DEF Types, Shaped
    <3>2. Operands(h, Code)
      BY <2>2, <2>6, <2>7 DEF Operands
    <3>3. Starting(h, Code)
      BY <2>2, <2>6, <2>7 DEF Starting
    <3> QED
      BY <3>1, <3>2, <3>3
  <2>9. ASSUME NEW k \in Ids(g), InUse(h, k), k # id
        PROVE  InUse(g, k) /\ RegOf(h, k) = RegOf(g, k) /\ RegOf(g, k) \in g.used
    BY <2>2, <2>7, <2>9 DEF InUse, Held
  <2>10. \A r \in h.used : \E k \in Ids(h) : InUse(h, k) /\ RegOf(h, k) = r
    <3> SUFFICES ASSUME NEW r \in h.used PROVE \E k \in Ids(g) : InUse(h, k) /\ RegOf(h, k) = r
      BY <2>7
    <3>1. CASE r \in g.used
      <4>1. PICK k \in Ids(g) : InUse(g, k) /\ RegOf(g, k) = r
        BY <3>1, <2>2 DEF Held
      <4>2. k # id
        BY <4>1, <2>3 DEF InUse
      <4> QED
        BY <4>1, <4>2, <2>7 DEF InUse
    <3>2. CASE r = reg /\ reg # NoRegister
      BY <3>2, <2>3, <2>4, <2>7 DEF InUse
    <3> QED
      BY <3>1, <3>2, <2>6
  <2>11. \A k \in Ids(h) : InUse(h, k) => RegOf(h, k) \in h.used
    <3> SUFFICES ASSUME NEW k \in Ids(g), InUse(h, k) PROVE RegOf(h, k) \in h.used
      BY <2>7
    <3>1. CASE k = id
      BY <3>1, <2>6, <2>7 DEF InUse
    <3>2. CASE k # id
      BY <3>2, <2>6, <2>9
    <3> QED
      BY <3>1, <3>2
  <2>12. \A k, l \in Ids(h) : InUse(h, k) /\ InUse(h, l) /\ RegOf(h, k) = RegOf(h, l) => k = l
    <3> SUFFICES ASSUME NEW k \in Ids(g), NEW l \in Ids(g), InUse(h, k), InUse(h, l), RegOf(h, k) = RegOf(h, l)
                 PROVE  k = l
      BY <2>7
    <3>1. CASE k # id /\ l # id
      BY <3>1, <2>2, <2>9 DEF Held
    <3>2. CASE k = id /\ l # id
      BY <3>2, <2>5, <2>7, <2>9 DEF InUse
    <3>3. CASE k # id /\ l = id
      BY <3>3, <2>5, <2>7, <2>9 DEF InUse
    <3> QED
      BY <3>1, <3>2, <3>3
  <2>13. \A k \in Ids(h) : Started(h, k) = -1 => RegOf(h, k) = "BP"
    BY <2>2, <2>4, <2>7 DEF Held
  <2>14. \A k \in Ids(h) : InUse(h, k) =>
            Started(h, k) >= p /\ \E i \in 1..p : \E n \in 0..1 : h.regs[i][n] = k
    <3> SUFFICES ASSUME NEW k \in Ids(g), InUse(h, k)
                 PROVE  Started(g, k) >= p /\ \E i \in 1..p : \E n \in 0..1 : g.regs[i][n] = k
      BY <2>6, <2>7
    <3>1. CASE k = id
      <4>1. p \in 1..p
        BY <2>2
      <4> QED
        BY <4>1, <3>1, <2>3, <2>4
    <3>2. CASE k # id
      BY <3>2, <2>2, <2>9 DEF Held
    <3> QED
      BY <3>1, <3>2
  <2> QED
    BY <2>1, <2>2, <2>6, <2>8, <2>10, <2>11, <2>12, <2>13, <2>14 DEF Working, Held
<1> QED
  BY <1>1, <1>2

\* The instruction that started a value gives its register back.
LEMMA PostStep ==
    ASSUME NEW g, Working(g), NEW nr \in 0..1
    PROVE  /\ Working(Post(g, nr)) /\ Post(g, nr).regs = g.regs
           /\ Freed(Post(g, nr), nr)
           /\ \A n \in 0..1 : Id(Post(g, nr), n) = Id(g, n) /\ (Freed(g, n) => Freed(Post(g, nr), n))
<1> DEFINE id == Id(g, nr)
           reg == Physical(g, nr)
           h == [g EXCEPT !.used = @ \ {reg}, !.artificial[id].reg = NoRegister]
           p == x64.index
<1>1. CASE id = 0 \/ g.artificial[id].started_by # g.index
  <2>1. Post(g, nr) = g
    BY <1>1 DEF Post
  <2>2. Freed(g, nr)
    BY <1>1 DEF Freed, Started, Working
  <2> QED
    BY <2>1, <2>2
<1>2. CASE id # 0 /\ g.artificial[id].started_by = g.index
  <2>1. Post(g, nr) = h
    BY <1>2 DEF Post
  <2>2. /\ IsBuilder(g) /\ Len(Code) \in Nat /\ p \in 1..Len(Code) /\ g.index = p /\ Len(g.artificial) \in Nat
        /\ Types(g, Code) /\ Operands(g, Code) /\ Shaped(g, Code, 1) /\ Starting(g, Code)
        /\ Held(g, p, p)
    BY DEF Working, Held, Types
  <2>3. id = g.regs[p][nr] /\ id \in Ids(g) /\ RegOf(g, id) = reg /\ Started(g, id) = p
    <3>1. id = g.regs[p][nr]
      BY <2>2 DEF Id
    <3>2. id \in Ids(g)
      BY <3>1, <1>2, <2>2 DEF Operands
    <3>3. RegOf(g, id) = reg /\ Started(g, id) = p
      BY <1>2, <2>2 DEF Physical, RegOf, Started
    <3> QED
      BY <3>1, <3>2, <3>3
  <2>a. h = [g EXCEPT !.used = @ \ {reg}, !.artificial[id].reg = NoRegister]
    OBVIOUS
  <2>b. \A n : Id(g, n) = g.regs[p][n]
    BY <2>2 DEF Id
  <2> HIDE DEF h, id, reg
  <2>6. /\ IsBuilder(h) /\ h.fn = g.fn /\ h.stage = g.stage /\ h.index = g.index
        /\ h.regs = g.regs /\ h.deleted = g.deleted /\ h.used = g.used \ {reg}
        /\ h.artificial = [g.artificial EXCEPT ![id].reg = NoRegister]
    BY <2>a, <2>2 DEF IsBuilder
  <2>7. /\ h.artificial \in Seq(ArtificialType) /\ Ids(h) = Ids(g)
        /\ \A k \in Ids(g) : Started(h, k) = Started(g, k) /\ RegOf(h, k) = IF k = id THEN NoRegister ELSE RegOf(g, k)
    <3>1. g.artificial \in Seq(ArtificialType) /\ id \in 1..Len(g.artificial) /\ NoRegister \in Registers
      BY <2>2, <2>3 DEF Types, Ids, Registers
    <3>2. h.artificial \in Seq(ArtificialType) /\ Len(h.artificial) = Len(g.artificial)
      <4> DEFINE new == [g.artificial[id] EXCEPT !.reg = NoRegister]
      <4>1. g.artificial[id] \in ArtificialType
        BY <3>1
      <4>2. new \in ArtificialType
        BY <4>1, <3>1 DEF ArtificialType
      <4>3. h.artificial = [g.artificial EXCEPT ![id] = new]
        BY <2>6
      <4> HIDE DEF new
      <4> QED
        BY <3>1, <4>2, <4>3
    <3>3. \A k \in Ids(g) : h.artificial[k] = IF k = id THEN [g.artificial[k] EXCEPT !.reg = NoRegister] ELSE g.artificial[k]
      BY <3>1, <2>6 DEF Ids
    <3>4. \A k \in Ids(g) : g.artificial[k] \in ArtificialType
      BY <3>1 DEF Ids
    <3> QED
      BY <3>1, <3>2, <3>3, <3>4 DEF Ids, Started, RegOf, ArtificialType
  <2>8. Types(h, Code) /\ Operands(h, Code) /\ Shaped(h, Code, 1) /\ Starting(h, Code)
    <3>1. Types(h, Code) /\ Shaped(h, Code, 1)
      BY <2>2, <2>6, <2>7 DEF Types, Shaped
    <3>2. Operands(h, Code)
      BY <2>2, <2>6, <2>7 DEF Operands
    <3>3. Starting(h, Code)
      BY <2>2, <2>6, <2>7 DEF Starting
    <3> QED
      BY <3>1, <3>2, <3>3
  <2>9. ASSUME NEW k \in Ids(g), InUse(h, k)
        PROVE  k # id /\ InUse(g, k) /\ RegOf(h, k) = RegOf(g, k) /\ RegOf(g, k) \in g.used
    BY <2>2, <2>7, <2>9 DEF InUse, Held
  <2>c. Started(g, id) # -1
    BY <2>2, <2>3
  <2>10. \A r \in h.used : \E k \in Ids(h) : InUse(h, k) /\ RegOf(h, k) = r
    <3> SUFFICES ASSUME NEW r \in g.used, r # reg PROVE \E k \in Ids(g) : InUse(h, k) /\ RegOf(h, k) = r
      BY <2>6, <2>7
    <3>1. PICK k \in Ids(g) : InUse(g, k) /\ RegOf(g, k) = r
      BY <2>2 DEF Held
    <3>2. k # id
      BY <3>1, <2>3
    <3> QED
      BY <3>1, <3>2, <2>7 DEF InUse
  <2>11. \A k \in Ids(h) : InUse(h, k) => RegOf(h, k) \in h.used
    <3> SUFFICES ASSUME NEW k \in Ids(g), InUse(h, k) PROVE RegOf(h, k) \in h.used
      BY <2>7
    <3>1. RegOf(g, k) # reg
      BY <2>2, <2>3, <2>9, <2>c DEF Held, InUse
    <3> QED
      BY <3>1, <2>6, <2>9
  <2>12. \A k, l \in Ids(h) : InUse(h, k) /\ InUse(h, l) /\ RegOf(h, k) = RegOf(h, l) => k = l
    <3> SUFFICES ASSUME NEW k \in Ids(g), NEW l \in Ids(g), InUse(h, k), InUse(h, l), RegOf(h, k) = RegOf(h, l)
                 PROVE  k = l
      BY <2>7
    <3> QED
      BY <2>2, <2>9 DEF Held
  <2>13. \A k \in Ids(h) : Started(h, k) = -1 => RegOf(h, k) = "BP"
    BY <2>2, <2>c, <2>7 DEF Held
  <2>14. \A k \in Ids(h) : InUse(h, k) =>
            Started(h, k) >= p /\ \E i \in 1..p : \E n \in 0..1 : h.regs[i][n] = k
    <3> SUFFICES ASSUME NEW k \in Ids(g), InUse(h, k)
                 PROVE  Started(g, k) >= p /\ \E i \in 1..p : \E n \in 0..1 : g.regs[i][n] = k
      BY <2>6, <2>7
    <3> QED
      BY <2>2, <2>9 DEF Held
  <2>15. \A n : Id(h, n) = Id(g, n)
    BY <2>6 DEF Id
  <2>16. Freed(h, nr)
    <3>1. Id(h, nr) = id
      BY <2>15 DEF id
    <3> QED
      BY <3>1, <2>3, <2>7 DEF Freed
  <2>17. \A n \in 0..1 : Freed(g, n) => Freed(h, n)
    <3> SUFFICES ASSUME NEW n \in 0..1, Freed(g, n), Id(h, n) # 0, Started(h, Id(h, n)) = p
                 PROVE  RegOf(h, Id(h, n)) = NoRegister
      BY DEF Freed
    <3>1. Id(g, n) \in Ids(g)
      BY <2>2, <2>15, <2>b DEF Operands
    <3> QED
      BY <3>1, <2>7, <2>15 DEF Freed
  <2> QED
    BY <2>1, <2>2, <2>6, <2>8, <2>10, <2>11, <2>12, <2>13, <2>14, <2>15, <2>16, <2>17 DEF Working, Held
<1> QED
  BY <1>1, <1>2

-----------------------------------------------------------------------------
(* Making machine code.                                                       *)

LEMMA SameTwice ==
    ASSUME NEW g, NEW h, NEW k, SameRegisters(g, h), SameRegisters(h, k)
    PROVE  SameRegisters(g, k)
  BY DEF SameRegisters

LEMMA TextSame ==
    ASSUME NEW g, IsBuilder(g), NEW text
    PROVE  SameRegisters(g, [g EXCEPT !.text = text])
<1> DEFINE h == [g EXCEPT !.text = text]
<1>1. h = [g EXCEPT !.text = text]
  OBVIOUS
<1> HIDE DEF h
<1>2. SameRegisters(g, h)
  BY <1>1 DEF IsBuilder, SameRegisters
<1> QED
  BY <1>1, <1>2

LEMMA StackSame ==
    ASSUME NEW g, IsBuilder(g), NEW sp, NEW offsets, NEW ret
    PROVE  SameRegisters(g, [g EXCEPT !.virtual_stack_pointer = sp, !.push_offsets = offsets, !.ret_offset = ret])
<1> DEFINE h == [g EXCEPT !.virtual_stack_pointer = sp, !.push_offsets = offsets, !.ret_offset = ret]
<1>1. h = [g EXCEPT !.virtual_stack_pointer = sp, !.push_offsets = offsets, !.ret_offset = ret]
  OBVIOUS
<1> HIDE DEF h
<1>2. SameRegisters(g, h)
  BY <1>1 DEF IsBuilder, SameRegisters
<1> QED
  BY <1>1, <1>2

LEMMA MomentsSame ==
    ASSUME NEW g, IsBuilder(g), NEW sp, NEW moments
    PROVE  SameRegisters(g, [g EXCEPT !.moments = moments, !.virtual_stack_pointer = sp])
<1> DEFINE h == [g EXCEPT !.moments = moments, !.virtual_stack_pointer = sp]
<1>1. h = [g EXCEPT !.moments = moments, !.virtual_stack_pointer = sp]
  OBVIOUS
<1> HIDE DEF h
<1>2. SameRegisters(g, h)
  BY <1>1 DEF IsBuilder, SameRegisters
<1> QED
  BY <1>1, <1>2

LEMMA EmitSame ==
    ASSUME NEW g, IsBuilder(g), NEW more
    PROVE  SameRegisters(g, Emit(g, more))
  BY TextSame DEF Emit

LEMMA MovedSame ==
    ASSUME NEW g, IsBuilder(g), NEW n
    PROVE  SameRegisters(g, Moved(g, n))
<1> DEFINE h == [g EXCEPT !.ret_offset = @ + n,
                          !.push_offsets = IF @ = <<>> THEN @ ELSE Append(Front(@), Last(@) + n)]
<1>1. h = [g EXCEPT !.ret_offset = @ + n,
                    !.push_offsets = IF @ = <<>> THEN @ ELSE Append(Front(@), Last(@) + n)]
  OBVIOUS
<1>2. Moved(g, n) = h
  BY DEF Moved
<1> HIDE DEF h
<1>3. SameRegisters(g, h)
  BY <1>1 DEF IsBuilder, SameRegisters
<1> QED
  BY <1>2, <1>3

LEMMA EmitPushSame ==
    ASSUME NEW g, IsBuilder(g), NEW r
    PROVE  SameRegisters(g, EmitPush(g, r)) /\ SameRegisters(g, EmitPop(g, r))
<1>1. \A more : SameRegisters(g, Emit(g, more)) /\ IsBuilder(Emit(g, more))
  BY EmitSame DEF SameRegisters
<1>2. \A more, n : SameRegisters(Emit(g, more), Moved(Emit(g, more), n))
  BY <1>1, MovedSame
<1> QED
  BY <1>1, <1>2, SameTwice DEF EmitPush, EmitPop

LEMMA EmitAddSame ==
    ASSUME NEW g, IsBuilder(g), NEW n
    PROVE  SameRegisters(g, EmitAdd(g, n))
<1>1. SameRegisters(g, g)
  BY DEF SameRegisters
<1> QED
  BY <1>1, EmitSame DEF EmitAdd

LEMMA FrameSame ==
    ASSUME NEW g, IsBuilder(g), NEW value
    PROVE  SameRegisters(g, EnterFrame(g, value)) /\ SameRegisters(g, LeaveFrame(g, value))
<1>1. ASSUME NEW n
      PROVE  SameRegisters(g, EmitAdd(g, n)) /\ IsBuilder(EmitAdd(g, n))
  BY EmitAddSame DEF SameRegisters
<1>2. SameRegisters(g, EnterFrame(g, value))
  <2> DEFINE e == EmitAdd(g, -value)
             h == [e EXCEPT !.virtual_stack_pointer = @ - value, !.push_offsets = Append(@, 0)]
  <2>1. SameRegisters(g, e) /\ IsBuilder(e)
    BY <1>1
  <2>2. EnterFrame(g, value) = h
    BY DEF EnterFrame
  <2> HIDE DEF e
  <2>3. h = [e EXCEPT !.virtual_stack_pointer = @ - value, !.push_offsets = Append(@, 0)]
    OBVIOUS
  <2> HIDE DEF h
  <2>4. SameRegisters(e, h)
    BY <2>1, <2>3 DEF IsBuilder, SameRegisters
  <2> QED
    BY <2>1, <2>2, <2>4, SameTwice
<1>3. SameRegisters(g, LeaveFrame(g, value))
  <2> DEFINE e == EmitAdd(g, value)
             h == [e EXCEPT !.virtual_stack_pointer = @ + value, !.ret_offset = @ - value]
  <2>1. SameRegisters(g, e) /\ IsBuilder(e)
    BY <1>1
  <2>2. LeaveFrame(g, value) = h
    BY DEF LeaveFrame
  <2> HIDE DEF e
  <2>3. h = [e EXCEPT !.virtual_stack_pointer = @ + value, !.ret_offset = @ - value]
    OBVIOUS
  <2> HIDE DEF h
  <2>4. SameRegisters(e, h)
    BY <2>1, <2>3 DEF IsBuilder, SameRegisters
  <2> QED
    BY <2>1, <2>2, <2>4, SameTwice
<1> QED
  BY <1>2, <1>3

LEMMA PopMomentsSame ==
    ASSUME NEW g, IsBuilder(g), NEW i
    PROVE  SameRegisters(g, PopMoments(g, i))
<1>1. \E left, sp : PopMoments(g, i) = [g EXCEPT !.moments = left, !.virtual_stack_pointer = sp]
  <2> DEFINE here == SelectSeq(g.moments, LAMBDA m : m.pop_at = i)
             left == SelectSeq(g.moments, LAMBDA m : m.pop_at # i)
             sp == IF here = <<>> THEN g.virtual_stack_pointer ELSE Last(here).sp
  <2>1. PopMoments(g, i) = [g EXCEPT !.moments = left, !.virtual_stack_pointer = sp]
    BY DEF PopMoments
  <2> HIDE DEF left, sp, here
  <2> QED
    BY <2>1, Zenon
<1>2. PICK left, sp : PopMoments(g, i) = [g EXCEPT !.moments = left, !.virtual_stack_pointer = sp]
  BY <1>1
<1>3. SameRegisters(g, [g EXCEPT !.moments = left, !.virtual_stack_pointer = sp])
  BY MomentsSame
<1> QED
  BY <1>2, <1>3, Zenon

LEMMA PushMomentSame ==
    ASSUME NEW g, IsBuilder(g), NEW target
    PROVE  SameRegisters(g, PushMoment(g, target))
<1> DEFINE h == [g EXCEPT !.moments = Append(@, [sp |-> g.virtual_stack_pointer, pop_at |-> target])]
<1>1. h = [g EXCEPT !.moments = Append(@, [sp |-> g.virtual_stack_pointer, pop_at |-> target])]
  OBVIOUS
<1>2. PushMoment(g, target) = h
  BY DEF PushMoment
<1> HIDE DEF h
<1>3. SameRegisters(g, h)
  BY <1>1 DEF IsBuilder, SameRegisters
<1> QED
  BY <1>2, <1>3

LEMMA PushedAroundSame ==
    ASSUME NEW g, IsBuilder(g), NEW r, NEW busy \in BOOLEAN, NEW text
    PROVE  SameRegisters(g, PushedAround(g, r, busy, text))
<1>1. CASE busy
  <2> DEFINE pushed == EmitPush(g, r)
             done == Emit(pushed, text)
  <2>1. SameRegisters(g, pushed) /\ IsBuilder(pushed)
    BY EmitPushSame DEF SameRegisters
  <2> HIDE DEF pushed
  <2>2. SameRegisters(pushed, done) /\ IsBuilder(done)
    BY <2>1, EmitSame DEF SameRegisters
  <2> HIDE DEF done
  <2>3. SameRegisters(done, EmitPop(done, r))
    BY <2>2, EmitPushSame
  <2>4. PushedAround(g, r, busy, text) = EmitPop(done, r)
    BY <1>1 DEF PushedAround, done, pushed
  <2>5. SameRegisters(g, done)
    BY <2>1, <2>2, SameTwice
  <2> QED
    BY <2>3, <2>4, <2>5, SameTwice
<1>2. CASE ~busy
  BY <1>2, EmitSame DEF PushedAround
<1> QED
  BY <1>1, <1>2

LEMMA WorkingKeeps ==
    ASSUME NEW g, Working(g)
    PROVE  /\ \A more : Working(Emit(g, more))
           /\ \A r : Working(EmitPush(g, r)) /\ Working(EmitPop(g, r))
           /\ \A value : Working(EnterFrame(g, value)) /\ Working(LeaveFrame(g, value))
           /\ \A target : Working(PushMoment(g, target))
           /\ \A r, text : \A busy \in BOOLEAN : Working(PushedAround(g, r, busy, text))
<1>1. IsBuilder(g)
  BY DEF Working, Held
<1>2. \A h : SameRegisters(g, h) => Working(h)
  BY KeepsStep
<1> QED
  BY <1>1, <1>2, EmitSame, EmitPushSame, FrameSame, PushMomentSame, PushedAroundSame

LEMMA StackKeeps ==
    ASSUME NEW g, Working(g), NEW sp
    PROVE  Working([g EXCEPT !.virtual_stack_pointer = sp])
<1> DEFINE h == [g EXCEPT !.virtual_stack_pointer = sp]
<1>1. h = [g EXCEPT !.virtual_stack_pointer = sp]
  OBVIOUS
<1> HIDE DEF h
<1>2. SameRegisters(g, h)
  BY <1>1 DEF Working, Held, IsBuilder, SameRegisters
<1> QED
  BY <1>1, <1>2, KeepsStep

\* Machine code is made of the instruction at hand after the moments due there.
LEMMA ArrivedStep ==
    ASSUME ForwardInv, x64.stage = "forward", x64.index <= Len(Code)
    PROVE  Working(Arrived)
<1> DEFINE p == x64.index
           h == [x64 EXCEPT !.starts = (p :> (Len(x64.text) + 1)) @@ @]
<1>1. p \in 1..Len(Code) /\ Len(Code) \in Nat /\ IsBuilder(x64)
  BY DEF ForwardInv, Held
<1>2. Held(x64, p, p)
  <2>1. \A k \in Ids(x64) : InUse(x64, k) =>
            Started(x64, k) >= p /\ \E i \in 1..p : \E nr \in 0..1 : x64.regs[i][nr] = k
    <3> SUFFICES ASSUME NEW k \in Ids(x64), InUse(x64, k)
                 PROVE  Started(x64, k) >= p /\ \E i \in 1..p : \E nr \in 0..1 : x64.regs[i][nr] = k
      OBVIOUS
    <3>1. Started(x64, k) >= p /\ \E i \in 1..p - 1 : \E nr \in 0..1 : x64.regs[i][nr] = k
      BY DEF ForwardInv, Held
    <3>2. 1..p - 1 \subseteq 1..p
      BY <1>1
    <3> QED
      BY <3>1, <3>2
  <2> QED
    BY <2>1 DEF ForwardInv, Held
<1>3. Working(x64)
  BY <1>1, <1>2 DEF ForwardInv, Working
<1>a. h = [x64 EXCEPT !.starts = (p :> (Len(x64.text) + 1)) @@ @]
  OBVIOUS
<1> HIDE DEF h
<1>4. SameRegisters(x64, h)
  BY <1>1, <1>a DEF IsBuilder, SameRegisters
<1>5. SameRegisters(h, PopMoments(h, p))
  BY <1>4, PopMomentsSame DEF SameRegisters
<1>6. Arrived = PopMoments(h, p)
  BY <1>a DEF Arrived
<1> QED
  BY <1>3, <1>4, <1>5, <1>6, SameTwice, KeepsStep

\* The operands that an instruction has while it is worked on.
LEMMA WorkingShape ==
    ASSUME NEW g, Working(g)
    PROVE  /\ Current.op \in NoOperand => Id(g, 0) = 0
           /\ Current.op \in NoOperand \cup OneOperand => Id(g, 1) = 0
           /\ Current.op = "BXOR" /\ Current.a = Current.b => Id(g, 1) = Id(g, 0)
<1>1. x64.index \in 1..Len(Code) /\ g.index = x64.index /\ Shaped(g, Code, 1)
  BY DEF Working, Held
<1> QED
  BY <1>1 DEF Shaped, Id, Current

LEMMA LaterStep ==
    ASSUME ForwardInv, NEW g, Working(g), Freed(g, 0), Freed(g, 1), Later(g), bytecode' = bytecode
    PROVE  ForwardInv' /\ x64'.stage = "forward"
<1> DEFINE p == x64.index
           h == [g EXCEPT !.index = @ + 1]
<1>1. /\ p \in 1..Len(Code) /\ Len(Code) \in Nat /\ IsBuilder(g)
      /\ g.fn = x64.fn /\ g.stage = "forward" /\ g.index = p /\ Held(g, p, p)
  BY DEF Working, Held
<1>a. h = [g EXCEPT !.index = @ + 1]
  OBVIOUS
<1>b. x64' = h
  BY DEF Later
<1> HIDE DEF h
<1>2. /\ IsBuilder(h) /\ h.fn = x64.fn /\ h.stage = "forward" /\ h.index = p + 1
      /\ h.regs = g.regs /\ h.artificial = g.artificial /\ h.deleted = g.deleted /\ h.used = g.used
  BY <1>1, <1>a DEF IsBuilder
<1>3. Ids(h) = Ids(g) /\ \A k : Started(h, k) = Started(g, k) /\ RegOf(h, k) = RegOf(g, k)
  BY <1>2 DEF Ids, Started, RegOf
<1>4. \A k : InUse(h, k) <=> InUse(g, k)
  BY <1>3 DEF InUse
<1>5. Types(h, Code) /\ Operands(h, Code) /\ Shaped(h, Code, 1) /\ Starting(h, Code)
  BY <1>1, <1>2, <1>3 DEF Held, Types, Operands, Shaped, Starting
<1>6. ASSUME NEW k \in Ids(g), InUse(g, k)
      PROVE  Started(g, k) >= p + 1 /\ \E i \in 1..p : \E nr \in 0..1 : g.regs[i][nr] = k
  <2>1. Started(g, k) >= p /\ \E i \in 1..p : \E nr \in 0..1 : g.regs[i][nr] = k
    BY <1>1, <1>6 DEF Held
  <2>2. Started(g, k) \in 1..Len(Code) /\ \E nr \in 0..1 : g.regs[Started(g, k)][nr] = k
    BY <1>1, <1>6 DEF Held, Starting, InUse
  <2>3. Started(g, k) # p
    <3> SUFFICES ASSUME Started(g, k) = p PROVE FALSE
      OBVIOUS
    <3>1. PICK nr \in 0..1 : g.regs[p][nr] = k
      BY <2>2
    <3>2. Id(g, nr) = k /\ k # 0
      BY <3>1, <1>1, <1>6 DEF Id, Ids
    <3>3. Freed(g, nr)
      BY <3>1
    <3> QED
      BY <3>2, <3>3, <1>6 DEF Freed, InUse
  <2> QED
    BY <2>1, <2>2, <2>3, <1>1
<1>7. Held(h, p + 1, p)
  BY <1>1, <1>2, <1>3, <1>4, <1>5, <1>6 DEF Held
<1>8. Code' = Code /\ IsBytecode' /\ x64'.fn \in DOMAIN bytecode'
  BY <1>b, <1>2 DEF Code, ForwardInv, IsBytecode
<1>9. x64'.index = p + 1 /\ x64'.index \in 1..Len(Code) + 1 /\ x64'.index - 1 = p
  BY <1>b, <1>1, <1>2
<1>10. Held(x64, x64.index, x64.index - 1)'
  BY <1>b, <1>7, <1>8, <1>9 DEF Held
<1> QED
  BY <1>b, <1>2, <1>8, <1>9, <1>10 DEF ForwardInv

\* The work on an instruction ends with all its operands given back.
LEMMA WorkEnds ==
    ASSUME ForwardInv, NEW g, Working(g), bytecode' = bytecode,
           \/ Later(Post(Post(g, 0), 1))
           \/ Later(Post(g, 0)) /\ (Current.op \in OneOperand \/ (Current.op = "BXOR" /\ Current.a = Current.b))
           \/ Later(g) /\ Current.op \in NoOperand
    PROVE  ForwardInv' /\ x64'.stage = "forward"
<1> DEFINE one == Post(g, 0)
           both == Post(one, 1)
<1>1. Working(one) /\ Freed(one, 0) /\ \A n \in 0..1 : Id(one, n) = Id(g, n)
  BY PostStep
<1> HIDE DEF one
<1>2. Working(both) /\ Freed(both, 0) /\ Freed(both, 1)
  BY <1>1, PostStep
<1> HIDE DEF both
<1>3. CASE Later(Post(Post(g, 0), 1))
  BY <1>2, <1>3, LaterStep DEF one, both
<1>4. CASE Later(Post(g, 0)) /\ (Current.op \in OneOperand \/ (Current.op = "BXOR" /\ Current.a = Current.b))
  <2>1. Id(one, 1) = 0 \/ Id(one, 1) = Id(one, 0)
    BY <1>1, <1>4, WorkingShape
  <2>2. Freed(one, 1)
    BY <2>1, <1>1 DEF Freed
  <2> QED
    BY <2>2, <1>1, <1>4, LaterStep DEF one
<1>5. CASE Later(g) /\ Current.op \in NoOperand
  <2>1. Id(g, 0) = 0 /\ Id(g, 1) = 0
    BY <1>5, WorkingShape
  <2>2. Freed(g, 0) /\ Freed(g, 1)
    BY <2>1 DEF Freed
  <2> QED
    BY <2>2, <1>5, LaterStep
<1> QED
  BY <1>3, <1>4, <1>5

\* One instruction.
LEMMA ForwardKeeps ==
    ASSUME ForwardInv, bytecode' = bytecode,
           \/ ForwardLoad \/ ForwardStore \/ ForwardPush \/ ForwardPop
           \/ ForwardPlain \/ ForwardMulDiv \/ ForwardShift \/ ForwardConvert \/ ForwardIncrement
           \/ ForwardAllocArgs \/ ForwardFreeArgs \/ ForwardCall \/ ForwardReturn
           \/ ForwardJumpIf \/ ForwardJump
    PROVE  ForwardInv' /\ x64'.stage = "forward"
<1> DEFINE a == Arrived
<1>1. ASSUME NEW ops, Forward(ops)
      PROVE  Working(a) /\ Working(Out(a, 0)) /\ Current.op \in ops
  <2>1. Working(a) /\ Current.op \in ops
    BY <1>1, ArrivedStep DEF Forward
  <2> HIDE DEF a
  <2> QED
    BY <2>1, OutStep
<1>2. CASE ForwardLoad
  <2> DEFINE m == Physical(a, 1)
             g == Out(a, 0)
             h == Emit(g, Load64(Current, Physical(g, 0), m))
  <2>1. Working(g)
    BY <1>1, <1>2 DEF ForwardLoad
  <2>2. Later(Post(Post(h, 0), 1))
    BY <1>2 DEF ForwardLoad
  <2>3. Working(h)
    <3> HIDE DEF g, m
    <3> QED
      BY <2>1, WorkingKeeps
  <2> HIDE DEF h
  <2> QED
    BY <2>2, <2>3, WorkEnds
<1>3. CASE ForwardStore
  <2>1. PICK text : Later(Post(Post(Emit(a, text), 0), 1))
    BY <1>3 DEF ForwardStore
  <2>2. Working(a)
    BY <1>1, <1>3 DEF ForwardStore
  <2> HIDE DEF a
  <2> QED
    BY <2>1, <2>2, WorkingKeeps, WorkEnds
<1>4. CASE ForwardPush
  <2> DEFINE g == EmitPush(a, Physical(a, 0))
             h == [g EXCEPT !.virtual_stack_pointer = @ - REGISTER_SIZE]
  <2>1. Working(a) /\ Current.op \in {"PUSH"}
    BY <1>1, <1>4 DEF ForwardPush
  <2>2. Later(Post(h, 0))
    BY <1>4 DEF ForwardPush
  <2> HIDE DEF a
  <2>3. Working(g)
    BY <2>1, WorkingKeeps
  <2> HIDE DEF g
  <2>4. Working(h)
    BY <2>3, StackKeeps
  <2> HIDE DEF h
  <2> QED
    BY <2>1, <2>2, <2>4, WorkEnds DEF OneOperand
<1>5. CASE ForwardPop
  <2> DEFINE out == Out(a, 0)
             g == EmitPop(out, Physical(out, 0))
             h == [g EXCEPT !.virtual_stack_pointer = @ + REGISTER_SIZE]
  <2>1. Working(out) /\ Current.op \in {"POP"}
    BY <1>1, <1>5 DEF ForwardPop
  <2>2. Later(Post(h, 0))
    BY <1>5 DEF ForwardPop
  <2> HIDE DEF out
  <2>3. Working(g)
    BY <2>1, WorkingKeeps
  <2> HIDE DEF g
  <2>4. Working(h)
    BY <2>3, StackKeeps
  <2> HIDE DEF h
  <2> QED
    BY <2>1, <2>2, <2>4, WorkEnds DEF OneOperand
<1>6. CASE ForwardPlain
  <2> DEFINE i == Current
             same == i.op = "BXOR" /\ i.a = i.b
             g == IF same THEN Out(a, 0) ELSE a
             text == PlainText(i, Physical(g, 0), IF same THEN Physical(g, 0) ELSE Physical(g, 1))
             h == Emit(g, text)
  <2>1. Working(a) /\ Working(Out(a, 0))
    BY <1>1, <1>6 DEF ForwardPlain
  <2>2. Later(IF same THEN Post(h, 0) ELSE Post(Post(h, 0), 1))
    BY <1>6 DEF ForwardPlain
  <2> HIDE DEF a
  <2>3. Working(g)
    BY <2>1
  <2> HIDE DEF g
  <2>4. Working(h)
    <3> HIDE DEF text
    <3> QED
      BY <2>3, WorkingKeeps
  <2> HIDE DEF h
  <2> QED
    BY <2>2, <2>4, WorkEnds
<1>7. CASE ForwardMulDiv
  <2> DEFINE i == Current
             r0 == Physical(a, 0)
             r1 == Physical(a, 1)
             divisor == IF r1 = "D" THEN RESERVED_REG0 ELSE r1
             busy == r0 # "D" /\ r1 # "D" /\ "D" \in a.used
             result == IF i.op = "MOD" THEN "D" ELSE "A"
             text == <<X("mov", "A", r0, 8, 0), X(IF i.op = "UMUL" THEN "mul" ELSE "idiv", divisor, divisor, i.size, 0)>>
                     \o (IF r0 = result THEN <<>> ELSE <<X("mov", r0, result, 8, 0)>>)
                     \o (IF r1 = divisor THEN <<>> ELSE <<X("mov", r1, divisor, 8, 0)>>)
             moved == IF r1 = divisor THEN a ELSE Emit(a, <<X("mov", divisor, r1, 8, 0)>>)
             around == PushedAround(moved, "D", busy, text)
             h == Emit(around, Correction(i, r0, divisor))
  <2>1. Working(a)
    BY <1>1, <1>7 DEF ForwardMulDiv
  <2>2. Later(Post(Post(h, 0), 1))
    BY <1>7 DEF ForwardMulDiv
  <2> HIDE DEF a, divisor, r1
  <2>3. Working(moved)
    BY <2>1, WorkingKeeps
  <2>4. busy \in BOOLEAN
    OBVIOUS
  <2> HIDE DEF moved, busy, text
  <2>5. Working(around)
    BY <2>3, <2>4, WorkingKeeps
  <2> HIDE DEF around
  <2>6. Working(h)
    BY <2>5, WorkingKeeps
  <2> HIDE DEF h
  <2> QED
    BY <2>2, <2>6, WorkEnds
<1>8. CASE ForwardShift
  <2> DEFINE i == Current
             r0 == Physical(a, 0)
             r1 == Physical(a, 1)
             count == <<X("mov", "C", r1, 8, 0)>>
             around == <<X("mov", RESERVED_REG0, "C", 8, 0)>> \o count
                       \o ShiftText(i, RESERVED_REG0) \o <<X("mov", "C", RESERVED_REG0, 8, 0)>>
             h == IF r1 = "C" \/ "C" \notin a.used THEN Emit(a, ShiftText(i, r0))
                  ELSE IF r0 = "C" THEN Emit(a, around)
                  ELSE PushedAround(a, "C", TRUE, count \o ShiftText(i, r0))
  <2>1. Working(a)
    BY <1>1, <1>8 DEF ForwardShift
  <2>2. Later(Post(Post(h, 0), 1))
    BY <1>8 DEF ForwardShift
  <2> HIDE DEF a, around, count, r0, r1
  <2>3. Working(h)
    BY <2>1, WorkingKeeps
  <2> HIDE DEF h
  <2> QED
    BY <2>2, <2>3, WorkEnds
<1>9. CASE ForwardConvert
  <2> DEFINE m == Physical(a, 1)
             g == Out(a, 0)
             h == Emit(g, ConvertText(Current, Physical(g, 0), m))
  <2>1. Working(g)
    BY <1>1, <1>9 DEF ForwardConvert
  <2>2. Later(Post(Post(h, 0), 1))
    BY <1>9 DEF ForwardConvert
  <2>3. Working(h)
    <3> HIDE DEF g, m
    <3> QED
      BY <2>1, WorkingKeeps
  <2> HIDE DEF h
  <2> QED
    BY <2>2, <2>3, WorkEnds
<1>10. CASE ForwardIncrement
  <2> DEFINE h == Emit(a, <<AddImm(Physical(a, 0), Current.imm)>>)
  <2>1. Working(a) /\ Current.op \in {"INCR"}
    BY <1>1, <1>10 DEF ForwardIncrement
  <2>2. Later(Post(h, 0))
    BY <1>10 DEF ForwardIncrement
  <2> HIDE DEF a
  <2>3. Working(h)
    BY <2>1, WorkingKeeps
  <2> HIDE DEF h
  <2> QED
    BY <2>1, <2>2, <2>3, WorkEnds DEF OneOperand
<1>11. CASE ForwardAllocArgs
  <2> DEFINE mis == ArgsMisalignment(a.virtual_stack_pointer, Current.imm)
             g == [a EXCEPT !.misalignments = Append(@, mis)]
             h == EnterFrame(g, ArgsSpace(Current.imm, mis))
  <2>1. Working(a) /\ Current.op \in {"ALLOC_ARGS"}
    BY <1>1, <1>11 DEF ForwardAllocArgs
  <2>2. Later(h)
    BY <1>11 DEF ForwardAllocArgs
  <2> HIDE DEF a, mis
  <2>a. g = [a EXCEPT !.misalignments = Append(@, mis)]
    OBVIOUS
  <2> HIDE DEF g
  <2>3. SameRegisters(a, g)
    BY <2>1, <2>a DEF Working, Held, IsBuilder, SameRegisters
  <2>4. Working(h)
    BY <2>1, <2>3, KeepsStep, WorkingKeeps
  <2> HIDE DEF h
  <2> QED
    BY <2>1, <2>2, <2>4, WorkEnds DEF NoOperand
<1>12. CASE ForwardFreeArgs
  <2> DEFINE g == [a EXCEPT !.misalignments = Front(@), !.push_offsets = Front(@)]
             h == LeaveFrame(g, ArgsSpace(Current.imm, Last(a.misalignments)))
  <2>1. Working(a) /\ Current.op \in {"FREE_ARGS"}
    BY <1>1, <1>12 DEF ForwardFreeArgs
  <2>2. Later(h)
    BY <1>12 DEF ForwardFreeArgs
  <2> HIDE DEF a
  <2>a. g = [a EXCEPT !.misalignments = Front(@), !.push_offsets = Front(@)]
    OBVIOUS
  <2> HIDE DEF g
  <2>3. SameRegisters(a, g)
    BY <2>1, <2>a DEF Working, Held, IsBuilder, SameRegisters
  <2>4. Working(h)
    BY <2>1, <2>3, KeepsStep, WorkingKeeps
  <2> HIDE DEF h
  <2> QED
    BY <2>1, <2>2, <2>4, WorkEnds DEF NoOperand
<1>13. CASE ForwardCall
  <2> DEFINE g == Emit(a, <<X("call", NoRegister, NoRegister, 8, Current.imm)>>)
             h == [g EXCEPT !.ret_offset = 0]
  <2>1. Working(a) /\ Current.op \in {"CALL"}
    BY <1>1, <1>13 DEF ForwardCall
  <2>2. Later(h)
    BY <1>13 DEF ForwardCall
  <2> HIDE DEF a
  <2>3. Working(g)
    BY <2>1, WorkingKeeps
  <2> HIDE DEF g
  <2>a. h = [g EXCEPT !.ret_offset = 0]
    OBVIOUS
  <2> HIDE DEF h
  <2>4. SameRegisters(g, h)
    BY <2>3, <2>a DEF Working, Held, IsBuilder, SameRegisters
  <2> QED
    BY <2>1, <2>2, <2>3, <2>4, KeepsStep, WorkEnds DEF NoOperand
<1>14. CASE ForwardReturn
  <2> DEFINE left == LeaveFrame(a, bytecode[x64.fn].frame_size)
             popped == EmitPop(left, "BP")
             h == Emit(popped, <<X("ret", "SP", "SP", 8, 0)>>)
  <2>1. Working(a) /\ Current.op \in {"RET"}
    BY <1>1, <1>14 DEF ForwardReturn
  <2>2. Later(h)
    BY <1>14 DEF ForwardReturn
  <2> HIDE DEF a
  <2>3. Working(left)
    BY <2>1, WorkingKeeps
  <2> HIDE DEF left
  <2>4. Working(popped)
    BY <2>3, WorkingKeeps
  <2> HIDE DEF popped
  <2>5. Working(h)
    BY <2>4, WorkingKeeps
  <2> HIDE DEF h
  <2> QED
    BY <2>1, <2>2, <2>5, WorkEnds DEF NoOperand
<1>15. CASE ForwardJumpIf
  <2> DEFINE jump == IF Current.op = "JZ" THEN "jz" ELSE "jnz"
             g == Emit(a, <<X(jump, Physical(a, 0), Physical(a, 0), 8, TargetOf(x64.index))>>)
             h == PushMoment(g, TargetOf(x64.index))
  <2>1. Working(a) /\ Current.op \in {"JZ", "JNZ"}
    BY <1>1, <1>15 DEF ForwardJumpIf
  <2>2. Later(Post(h, 0))
    BY <1>15 DEF ForwardJumpIf
  <2> HIDE DEF a, jump
  <2>3. Working(g)
    BY <2>1, WorkingKeeps
  <2> HIDE DEF g
  <2>4. Working(h)
    BY <2>3, WorkingKeeps
  <2> HIDE DEF h
  <2> QED
    BY <2>1, <2>2, <2>4, WorkEnds DEF OneOperand
<1>16. CASE ForwardJump
  <2> DEFINE g == Emit(a, <<X("jmp", NoRegister, NoRegister, 8, TargetOf(x64.index))>>)
             popped == [g EXCEPT !.virtual_stack_pointer = Last(g.moments).sp, !.moments = Front(@)]
             h == PushMoment(popped, TargetOf(x64.index))
  <2>1. Working(a) /\ Current.op \in {"JMP"}
    BY <1>1, <1>16 DEF ForwardJump
  <2>2. Later(IF Meets(g, x64.index) THEN h ELSE g)
    BY <1>16 DEF ForwardJump
  <2> HIDE DEF a
  <2>3. Working(g)
    BY <2>1, WorkingKeeps
  <2> HIDE DEF g
  <2>a. popped = [g EXCEPT !.virtual_stack_pointer = Last(g.moments).sp, !.moments = Front(@)]
    OBVIOUS
  <2> HIDE DEF popped
  <2>4. SameRegisters(g, popped)
    BY <2>3, <2>a DEF Working, Held, IsBuilder, SameRegisters
  <2>5. Working(h)
    BY <2>3, <2>4, KeepsStep, WorkingKeeps
  <2> HIDE DEF h
  <2> QED
    BY <2>1, <2>2, <2>3, <2>5, WorkEnds DEF NoOperand
<1> QED
  BY <1>2, <1>3, <1>4, <1>5, <1>6, <1>7, <1>8, <1>9, <1>10, <1>11, <1>12, <1>13, <1>14, <1>15, <1>16

\* A deleted instruction started no value.
LEMMA SkipDeletedKeeps ==
    ASSUME ForwardInv, SkipDeleted, bytecode' = bytecode
    PROVE  ForwardInv' /\ x64'.stage = "forward"
<1> DEFINE p == x64.index
           h == [x64 EXCEPT !.index = @ + 1]
<1>1. /\ p \in 1..Len(Code) /\ Len(Code) \in Nat /\ IsBuilder(x64) /\ p \in x64.deleted
      /\ x64.stage = "forward" /\ Held(x64, p, p - 1)
  BY DEF SkipDeleted, ForwardInv, Held
<1>a. h = [x64 EXCEPT !.index = @ + 1]
  OBVIOUS
<1>b. x64' = h
  BY DEF SkipDeleted, Later
<1> HIDE DEF h
<1>2. /\ IsBuilder(h) /\ h.fn = x64.fn /\ h.stage = "forward" /\ h.index = p + 1
      /\ h.regs = x64.regs /\ h.artificial = x64.artificial /\ h.deleted = x64.deleted /\ h.used = x64.used
  BY <1>1, <1>a DEF IsBuilder
<1>3. Ids(h) = Ids(x64) /\ \A k : Started(h, k) = Started(x64, k) /\ RegOf(h, k) = RegOf(x64, k)
  BY <1>2 DEF Ids, Started, RegOf
<1>4. \A k : InUse(h, k) <=> InUse(x64, k)
  BY <1>3 DEF InUse
<1>5. Types(h, Code) /\ Operands(h, Code) /\ Shaped(h, Code, 1) /\ Starting(h, Code)
  BY <1>1, <1>2, <1>3 DEF Held, Types, Operands, Shaped, Starting
<1>6. ASSUME NEW k \in Ids(x64), InUse(x64, k)
      PROVE  Started(x64, k) >= p + 1 /\ \E i \in 1..p : \E nr \in 0..1 : x64.regs[i][nr] = k
  <2>1. Started(x64, k) >= p /\ \E i \in 1..p - 1 : \E nr \in 0..1 : x64.regs[i][nr] = k
    BY <1>1, <1>6 DEF Held
  <2>2. Started(x64, k) \in 1..Len(Code) /\ Started(x64, k) # p
    BY <1>1, <1>6 DEF Held, Starting, InUse
  <2>3. 1..p - 1 \subseteq 1..p
    BY <1>1
  <2> QED
    BY <2>1, <2>2, <2>3, <1>1
<1>7. Held(h, p + 1, p)
  BY <1>1, <1>2, <1>3, <1>4, <1>5, <1>6 DEF Held
<1>8. Code' = Code /\ IsBytecode' /\ x64'.fn \in DOMAIN bytecode'
  BY <1>b, <1>2 DEF Code, ForwardInv, IsBytecode
<1>9. x64'.index = p + 1 /\ x64'.index \in 1..Len(Code) + 1 /\ x64'.index - 1 = p
  BY <1>b, <1>1, <1>2
<1>10. Held(x64, x64.index, x64.index - 1)'
  BY <1>b, <1>7, <1>8, <1>9 DEF Held
<1> QED
  BY <1>b, <1>2, <1>8, <1>9, <1>10 DEF ForwardInv

\* The forward pass starts with no register allocated.
LEMMA PrologueKeeps ==
    ASSUME BackwardInv, Prologue, bytecode' = bytecode
    PROVE  ForwardInv' /\ x64'.stage = "forward"
<1> DEFINE pushed == EmitPush(x64, "BP")
           g == [pushed EXCEPT !.text = Append(@, X("mov", "BP", "SP", 8, 0)), !.stage = "forward", !.index = 1]
           h == EnterFrame(g, bytecode[x64.fn].frame_size)
<1>1. x64.index = 0 /\ x64' = h
  BY DEF Prologue
<1>2. IsBuilder(x64) /\ Linked(x64, Code, 0) /\ Shaped(x64, Code, 1) /\ x64.fn \in DOMAIN bytecode /\ IsBytecode
  BY <1>1 DEF BackwardInv
<1>c. Code \in Seq(Instruction) /\ Len(Code) \in Nat
  <2> DEFINE Function == [code : Seq(Instruction), frame_size : Int]
  <2>1. bytecode \in Seq(Function)
    BY <1>2 DEF IsBytecode
  <2> HIDE DEF Function
  <2>2. bytecode[x64.fn] \in Function
    BY <2>1, <1>2, ElementOfSeq
  <2> QED
    BY <2>2 DEF Function, Code
<1>3. SameRegisters(x64, pushed)
  BY <1>2, EmitPushSame
<1>a. g = [pushed EXCEPT !.text = Append(@, X("mov", "BP", "SP", 8, 0)), !.stage = "forward", !.index = 1]
  OBVIOUS
<1> HIDE DEF g, pushed
<1>4. /\ IsBuilder(g) /\ g.fn = x64.fn /\ g.stage = "forward" /\ g.index = 1
      /\ g.regs = x64.regs /\ g.artificial = x64.artificial /\ g.deleted = x64.deleted /\ g.used = x64.used
  BY <1>3, <1>a DEF IsBuilder, SameRegisters
<1>5. SameRegisters(g, h)
  BY <1>4, FrameSame
<1> HIDE DEF h
<1>6. /\ IsBuilder(h) /\ h.fn = x64.fn /\ h.stage = "forward" /\ h.index = 1
      /\ h.regs = x64.regs /\ h.artificial = x64.artificial /\ h.deleted = x64.deleted /\ h.used = x64.used
  BY <1>4, <1>5 DEF SameRegisters
<1>7. Ids(h) = Ids(x64) /\ \A k : Started(h, k) = Started(x64, k) /\ RegOf(h, k) = RegOf(x64, k)
  BY <1>6 DEF Ids, Started, RegOf
<1>8. Types(h, Code) /\ Operands(h, Code) /\ Shaped(h, Code, 1) /\ Starting(h, Code)
  BY <1>2, <1>6, <1>7 DEF Linked, Types, Operands, Shaped, Starting
<1>9. /\ h.used = {}
      /\ \A k \in Ids(h) : ~InUse(h, k) /\ (Started(h, k) = -1 => RegOf(h, k) = "BP")
  BY <1>2, <1>6, <1>7 DEF Linked, InUse
<1>10. Held(h, 1, 0)
  BY <1>6, <1>8, <1>9 DEF Held
<1>11. Code' = Code /\ IsBytecode' /\ x64'.fn \in DOMAIN bytecode'
  BY <1>1, <1>2, <1>6 DEF Code, IsBytecode
<1>12. x64'.index = 1 /\ x64'.index \in 1..Len(Code) + 1 /\ x64'.index - 1 = 0
  BY <1>1, <1>6, <1>c
<1>13. Held(x64, x64.index, x64.index - 1)'
  BY <1>1, <1>10, <1>11, <1>12 DEF Held
<1> QED
  BY <1>1, <1>6, <1>c, <1>11, <1>12, <1>13 DEF ForwardInv

\* The builder at the start of a function.
LEMMA BegunStep ==
    ASSUME NEW f, NEW code \in Seq(Instruction), NEW texts, NEW h, h = Begun(f, code, texts)
    PROVE  /\ IsBuilder(h) /\ h.fn = f /\ h.stage = "backward" /\ h.index = Len(code)
           /\ Linked(h, code, Len(code)) /\ Shaped(h, code, Len(code) + 1)
           /\ \A i \in 1..Len(code) : Unvisited(h, i)
<1>1. /\ h.fn = f /\ h.stage = "backward" /\ h.index = Len(code)
      /\ h.map = [r \in GeneralRegisters |-> NoUse] /\ h.last_was_pop = FALSE
      /\ h.regs = [i \in 1..Len(code) |-> [nr \in 0..1 |-> 0]] /\ h.artificial = <<>>
      /\ h.deleted = {} /\ h.used = {}
  BY DEF Begun
<1>2. IsBuilder(h)
  BY DEF Begun, IsBuilder
<1>3. Len(code) \in Nat
  OBVIOUS
<1>4. Ids(h) = {} /\ Types(h, code)
  BY <1>1, <1>3 DEF Ids, Types
<1>5. Operands(h, code) /\ Starting(h, code)
  BY <1>1, <1>4 DEF Operands, Starting
<1>6. NoUse \in [inst : Int, nr : Int]
  BY DEF NoUse
<1>7. Linked(h, code, Len(code))
  BY <1>1, <1>4, <1>5, <1>6 DEF Linked
<1>8. Shaped(h, code, Len(code) + 1)
  BY <1>3 DEF Shaped
<1>9. \A i \in 1..Len(code) : Unvisited(h, i)
  BY <1>1 DEF Unvisited
<1> QED
  BY <1>1, <1>2, <1>3, <1>7, <1>8, <1>9

LEMMA FunctionCode ==
    ASSUME IsBytecode, NEW f \in DOMAIN bytecode
    PROVE  bytecode[f].code \in Seq(Instruction) /\ DOMAIN bytecode = 1..Len(bytecode) /\ Len(bytecode) \in Nat
<1> DEFINE Function == [code : Seq(Instruction), frame_size : Int]
<1>1. bytecode \in Seq(Function)
  BY DEF IsBytecode
<1> HIDE DEF Function
<1>2. DOMAIN bytecode = 1..Len(bytecode) /\ Len(bytecode) \in Nat
  BY <1>1
<1>3. bytecode[f] \in Function
  BY <1>1, <1>2, ElementOfSeq
<1> QED
  BY <1>2, <1>3 DEF Function

-----------------------------------------------------------------------------
(* Any build.                                                                 *)

BuilderInv ==
    \/ x64.stage = "backward" /\ BackwardInv
    \/ x64.stage = "forward" /\ ForwardInv
    \/ x64.stage = "done" /\ ForwardInv /\ x64.index = Len(Code) + 1

\* Every step of the builder keeps it.
LEMMA BuilderInvStep ==
    ASSUME BuilderInv, BuildStep, bytecode' = bytecode
    PROVE  BuilderInv'
<1>1. CASE BackwardPop \/ BackwardPush \/ BackwardCast \/ BackwardEssential \/ BackwardOther
  <2>1. x64.stage = "backward"
    BY <1>1 DEF BackwardPop, BackwardPush, BackwardCast, BackwardEssential, BackwardOther, Backward
  <2>2. BackwardInv
    BY <2>1 DEF BuilderInv
  <2>3. BackwardInv' /\ x64'.stage = "backward"
    BY <1>1, <2>2, BackwardPopKeeps, BackwardPushKeeps, BackwardCastKeeps, BackwardEssentialKeeps, BackwardOtherKeeps
  <2> QED
    BY <2>3 DEF BuilderInv
<1>2. CASE Prologue
  <2>1. BackwardInv
    BY <1>2 DEF Prologue, BuilderInv
  <2>2. ForwardInv' /\ x64'.stage = "forward"
    BY <1>2, <2>1, PrologueKeeps
  <2> QED
    BY <2>2 DEF BuilderInv
<1>3. CASE \/ ForwardLoad \/ ForwardStore \/ ForwardPush \/ ForwardPop
           \/ ForwardPlain \/ ForwardMulDiv \/ ForwardShift \/ ForwardConvert \/ ForwardIncrement
           \/ ForwardAllocArgs \/ ForwardFreeArgs \/ ForwardCall \/ ForwardReturn
           \/ ForwardJumpIf \/ ForwardJump
  <2>1. x64.stage = "forward"
    BY <1>3 DEF ForwardLoad, ForwardStore, ForwardPush, ForwardPop, ForwardPlain, ForwardMulDiv, ForwardShift,
                ForwardConvert, ForwardIncrement, ForwardAllocArgs, ForwardFreeArgs, ForwardCall, ForwardReturn,
                ForwardJumpIf, ForwardJump, Forward
  <2>2. ForwardInv
    BY <2>1 DEF BuilderInv
  <2>3. ForwardInv' /\ x64'.stage = "forward"
    BY <1>3, <2>2, ForwardKeeps
  <2> QED
    BY <2>3 DEF BuilderInv
<1>4. CASE SkipDeleted
  <2>1. ForwardInv
    BY <1>4 DEF SkipDeleted, BuilderInv
  <2>2. ForwardInv' /\ x64'.stage = "forward"
    BY <1>4, <2>1, SkipDeletedKeeps
  <2> QED
    BY <2>2 DEF BuilderInv
<1>5. CASE Relocate
  <2>1. /\ x64.stage = "forward" /\ x64.index > Len(Code) /\ ForwardInv
        /\ IsBytecode /\ IsBytecode' /\ x64.fn \in 1..Len(bytecode) /\ Len(bytecode) \in Nat
    BY <1>5, FunctionCode DEF Relocate, BuilderInv, ForwardInv, IsBytecode
  <2> DEFINE texts == Append(x64.texts, Relocated)
  <2>2. CASE x64.fn < Len(bytecode)
    <3> DEFINE f == x64.fn + 1
    <3>1. f \in DOMAIN bytecode /\ bytecode[f].code \in Seq(Instruction)
      <4>1. f \in 1..Len(bytecode) /\ DOMAIN bytecode = 1..Len(bytecode)
        BY <2>1, <2>2, FunctionCode DEF ForwardInv
      <4> QED
        BY <4>1, <2>1, FunctionCode
    <3>2. x64' = Begun(f, bytecode[f].code, texts)
      BY <1>5, <2>2 DEF Relocate
    <3> HIDE DEF f, texts
    <3> DEFINE code == bytecode[f].code
    <3>3. x64' = Begun(f, code, texts) /\ code \in Seq(Instruction)
      BY <3>1, <3>2
    <3>4. Code' = code \/ x64'.fn # f
      BY DEF Code
    <3> HIDE DEF code
    <3>5. /\ IsBuilder(x64') /\ x64'.fn = f /\ x64'.stage = "backward" /\ x64'.index = Len(code)
          /\ Linked(x64', code, Len(code)) /\ Shaped(x64', code, Len(code) + 1)
          /\ \A i \in 1..Len(code) : Unvisited(x64', i)
      BY <3>3, BegunStep
    <3>6. Code' = code /\ Len(code) \in 0..Len(code)
      BY <3>3, <3>4, <3>5
    <3>7. BackwardInv'
      BY <2>1, <3>1, <3>5, <3>6 DEF BackwardInv
    <3> QED
      BY <3>5, <3>7 DEF BuilderInv
  <2>3. CASE ~(x64.fn < Len(bytecode))
    <3> DEFINE h == [x64 EXCEPT !.texts = texts, !.stage = "done"]
    <3>1. x64' = h
      BY <1>5, <2>3 DEF Relocate
    <3>2. IsBuilder(x64) /\ Code \in Seq(Instruction) /\ x64.index = Len(Code) + 1 /\ Held(x64, x64.index, x64.index - 1)
      BY <2>1 DEF ForwardInv, Held
    <3>a. h = [x64 EXCEPT !.texts = texts, !.stage = "done"]
      OBVIOUS
    <3> HIDE DEF h, texts
    <3>3. /\ IsBuilder(h) /\ h.fn = x64.fn /\ h.stage = "done" /\ h.index = x64.index
          /\ h.regs = x64.regs /\ h.artificial = x64.artificial /\ h.deleted = x64.deleted /\ h.used = x64.used
      BY <3>2, <3>a DEF IsBuilder
    <3>4. Ids(h) = Ids(x64) /\ \A k : Started(h, k) = Started(x64, k) /\ RegOf(h, k) = RegOf(x64, k)
      BY <3>3 DEF Ids, Started, RegOf
    <3>5. \A k : InUse(h, k) <=> InUse(x64, k)
      BY <3>4 DEF InUse
    <3>6. Types(h, Code) /\ Operands(h, Code) /\ Shaped(h, Code, 1) /\ Starting(h, Code)
      BY <3>2, <3>3, <3>4 DEF Held, Types, Operands, Shaped, Starting
    <3>7. Held(h, x64.index, x64.index - 1)
      BY <3>2, <3>3, <3>4, <3>5, <3>6 DEF Held
    <3>8. Code' = Code /\ x64'.index = x64.index /\ x64'.fn \in DOMAIN bytecode'
      BY <2>1, <3>1, <3>3 DEF Code, ForwardInv
    <3>9. Held(x64, x64.index, x64.index - 1)'
      BY <3>1, <3>7, <3>8 DEF Held
    <3>10. ForwardInv'
      BY <2>1, <3>2, <3>8, <3>9 DEF ForwardInv
    <3> QED
      BY <3>1, <3>2, <3>3, <3>8, <3>10 DEF BuilderInv
  <2> QED
    BY <2>2, <2>3
<1> QED
  BY <1>1, <1>2, <1>3, <1>4, <1>5 DEF BuildStep

\* Nothing is allocated in the backward pass, where only the base pointer is
\* given to operands; later Held tells the values apart.
LEMMA BuilderInvApart ==
    ASSUME BuilderInv
    PROVE  RegistersApart
<1>1. CASE x64.stage = "backward" /\ BackwardInv
  <2>1. Linked(x64, Code, x64.index) /\ DOMAIN x64.artificial = Ids(x64)
    BY <1>1 DEF BackwardInv, Linked, Types, Ids
  <2>2. OneValueEach
    BY <2>1 DEF OneValueEach, Linked, RegOf
  <2> QED
    BY <1>1, <2>2 DEF RegistersApart, NothingHeld
<1>2. CASE ForwardInv
  <2>1. /\ DOMAIN x64.artificial = Ids(x64) /\ Held(x64, x64.index, x64.index - 1) /\ x64.index \in 1..Len(Code) + 1
        /\ Len(Code) \in Nat
    BY <1>2 DEF ForwardInv, Held, Types, Ids
  <2>2. OneValueEach
    <3>1. \A k, l \in Ids(x64) : k # l /\ RegOf(x64, k) = RegOf(x64, l) => RegOf(x64, k) \in {NoRegister, "BP"}
      BY <2>1 DEF Held, InUse
    <3> QED
      BY <2>1, <3>1 DEF OneValueEach, Held, RegOf
  <2>3. NothingHeld
    <3> SUFFICES ASSUME x64.index > Len(Code) \/ (x64.index <= Len(Code) /\ Current.op = "CALL"), NEW r \in x64.used
                 PROVE  FALSE
      BY <2>1 DEF NothingHeld
    <3>1. PICK k \in Ids(x64) : InUse(x64, k)
      BY <2>1 DEF Held
    <3>2. /\ Started(x64, k) >= x64.index /\ Started(x64, k) \in 1..Len(Code)
          /\ \E nr \in 0..1 : x64.regs[Started(x64, k)][nr] = k
      BY <2>1, <3>1 DEF Held, Starting, InUse
    <3>3. PICK i \in 1..x64.index - 1, nr \in 0..1 : x64.regs[i][nr] = k
      BY <2>1, <3>1 DEF Held
    <3>4. k # 0 /\ Started(x64, k) # -1
      BY <3>1, <3>2 DEF Ids
    <3>5. x64.index \in 1..Len(Code) /\ Code[x64.index].op = "CALL"
      BY <2>1, <3>2 DEF Current
    <3>6. CASE Started(x64, k) = x64.index
      <4>1. x64.regs[x64.index][0] = 0 /\ x64.regs[x64.index][1] = 0
        BY <2>1, <3>5 DEF Held, Shaped, NoOperand
      <4> QED
        BY <4>1, <3>2, <3>4, <3>6
    <3>7. CASE Started(x64, k) > x64.index
      <4>1. NoCall(Code, i, Started(x64, k))
        BY <2>1, <3>3, <3>4, <3>5 DEF Held, Operands
      <4>2. x64.index \in i + 1..Started(x64, k) - 1
        BY <2>1, <3>2, <3>3, <3>7
      <4> QED
        BY <4>1, <4>2, <3>5 DEF NoCall
    <3> QED
      BY <2>1, <3>2, <3>6, <3>7
  <2> QED
    BY <2>2, <2>3 DEF RegistersApart
<1> QED
  BY <1>1, <1>2 DEF BuilderInv

\* Whatever bytecode the generator hands over, two values are never in the same
\* register, no register is in use without a value, and none is in use at a call
\* or at the end of a function (X64Builder::generate, alloc_register,
\* free_artifical, clear_register_map).
THEOREM RegistersApartCorrect == BuilderSpec => []RegistersApart
<1>1. BuilderInit => BuilderInv
  <2> SUFFICES ASSUME BuilderInit PROVE BuilderInv
    OBVIOUS
  <2>1. IsBytecode /\ bytecode # <<>> /\ x64 = Begun(1, bytecode[1].code, <<>>)
    BY DEF BuilderInit
  <2>2. 1 \in DOMAIN bytecode
    <3> DEFINE Function == [code : Seq(Instruction), frame_size : Int]
    <3>1. bytecode \in Seq(Function)
      BY <2>1 DEF IsBytecode
    <3> HIDE DEF Function
    <3> QED
      BY <2>1, <3>1
  <2> DEFINE code == bytecode[1].code
  <2>3. code \in Seq(Instruction) /\ x64 = Begun(1, code, <<>>)
    BY <2>1, <2>2, FunctionCode
  <2>4. Code = code \/ x64.fn # 1
    BY DEF Code
  <2> HIDE DEF code
  <2>5. /\ IsBuilder(x64) /\ x64.fn = 1 /\ x64.stage = "backward" /\ x64.index = Len(code)
        /\ Linked(x64, code, Len(code)) /\ Shaped(x64, code, Len(code) + 1)
        /\ \A i \in 1..Len(code) : Unvisited(x64, i)
    BY <2>3, BegunStep
  <2>6. Code = code /\ Len(code) \in 0..Len(code)
    BY <2>3, <2>4, <2>5
  <2> QED
    BY <2>1, <2>2, <2>5, <2>6 DEF BackwardInv, BuilderInv
<1>2. BuilderInv /\ [BuildStep /\ UNCHANGED bytecode]_builderVars => BuilderInv'
  <2> SUFFICES ASSUME BuilderInv, [BuildStep /\ UNCHANGED bytecode]_builderVars PROVE BuilderInv'
    OBVIOUS
  <2>1. CASE BuildStep /\ UNCHANGED bytecode
    BY <2>1, BuilderInvStep
  <2>2. CASE UNCHANGED builderVars
    <3>1. x64' = x64 /\ bytecode' = bytecode
      BY <2>2 DEF builderVars
    <3> QED
      BY <3>1 DEF BuilderInv, BackwardInv, ForwardInv, IsBytecode, Code, Held
  <2> QED
    BY <2>1, <2>2
<1>3. BuilderInv => RegistersApart
  BY BuilderInvApart
<1> QED
  BY <1>1, <1>2, <1>3, PTL DEF BuilderSpec
=============================================================================
