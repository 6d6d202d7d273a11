------------------------------ MODULE Codegen ------------------------------
(***************************************************************************)
(* software/src/codegen.rs: from the tree to the assembler's lines.  The   *)
(* generator's fields are a record that every Gen operator takes and       *)
(* returns, with the register of its result in rd where it has one.        *)
(*                                                                         *)
(* An error ends generate() and nothing is written: ok stays FALSE, and    *)
(* what is generated after it does not matter.                             *)
(***************************************************************************)
EXTENDS Parser, AsmLines, SequencesExt

CONSTANTS MAX_VAR_REG, SCRATCH_BASE, UART_TX_ADDR, IMM_MAX

Gen0 ==
  [asm |-> << >>, variables |-> << >>, next_var_reg |-> 0, scratch_used |-> {},
   label_counter |-> 1, if_depth |-> 0, ok |-> TRUE, rd |-> 0]

Put(g, line)  == [g EXCEPT !.asm = Append(@, line)]
Puts(g, code) == [g EXCEPT !.asm = @ \o code]
In(g, rd)     == [g EXCEPT !.rd = rd]
Wrong(g)      == [g EXCEPT !.ok = FALSE]
Need(g, good) == IF good THEN g ELSE Wrong(g)

-----------------------------------------------------------------------------
LoadConst(g, reg, n) == Put(g, Ins(IF n <= IMM_MAX THEN "MOV" ELSE "LDI", <<R(reg), Imm(n)>>))

\* A window moves by steps of at most IMM_MAX.
BaseMove(g, op, n) ==
  LET step(k) == Ins(op, <<Imm(k)>>)
      rest    == n % IMM_MAX
      last    == IF rest = 0 /\ n > 0 THEN IMM_MAX ELSE rest
      full    == (n - last) \div IMM_MAX
  IN Puts(g, [i \in 1 .. full |-> step(IMM_MAX)] \o (IF last > 0 THEN <<step(last)>> ELSE << >>))

Labelled(g) == [g EXCEPT !.label_counter = @ + 1]         \* next_label has been taken

\* The first free one of the two scratch registers.
Scratch(g) ==
  LET free == {SCRATCH_BASE, SCRATCH_BASE + 1} \ g.scratch_used
      r    == IF SCRATCH_BASE \in free THEN SCRATCH_BASE ELSE SCRATCH_BASE + 1
  IN IF free = {} THEN Wrong(g) ELSE [In(g, r) EXCEPT !.scratch_used = @ \cup {r}]

Release(g, r) == [g EXCEPT !.scratch_used = @ \ {r}]

\* Mutant: the second scratch register is not handed back.
ResultRegKeeps(g, l, r) ==
  CASE l >= SCRATCH_BASE                     -> In(g, l)
    [] l < SCRATCH_BASE /\ r >= SCRATCH_BASE -> In(g, r)
    [] l < SCRATCH_BASE /\ r < SCRATCH_BASE  -> Scratch(g)

\* A computed operand is dead after its use and holds the result.
ResultReg(g, l, r) ==
  CASE l >= SCRATCH_BASE                      -> In(IF r # l THEN Release(g, r) ELSE g, l)
    [] l < SCRATCH_BASE /\ r >= SCRATCH_BASE  -> In(g, r)
    [] l < SCRATCH_BASE /\ r < SCRATCH_BASE   -> Scratch(g)

Declared(g, x) == x \in DOMAIN g.variables
VarReg(g, x)   == IF Declared(g, x) THEN In(g, g.variables[x]) ELSE Wrong(g)

WRITES_RD == {"MOV", "LDI", "ADD", "ADDI", "SUB", "MUL", "SHR", "SHL", "LDR", "TID", "BID", "BDIM"}

\* Mutant: the last instruction is taken off and not put back.
RetargetLastDrops(g, from, to) ==
  LET can == /\ from >= SCRATCH_BASE /\ g.asm # << >>
             /\ Last(g.asm).op \in WRITES_RD /\ Last(g.asm).args[1] = R(from)
  IN [done |-> can, g |-> IF can THEN [g EXCEPT !.asm = Front(@)] ELSE g]

\* The last instruction writes the variable instead of the scratch register.
RetargetLast(g, from, to) ==
  LET can == /\ from >= SCRATCH_BASE /\ g.asm # << >>
             /\ Last(g.asm).op \in WRITES_RD /\ Last(g.asm).args[1] = R(from)
  IN [done |-> can,
      g |-> IF can THEN [g EXCEPT !.asm[Len(g.asm)].args[1] = R(to)] ELSE g]

-----------------------------------------------------------------------------
RECURSIVE GenExpr(_, _)

Mnemonic == [o \in {"+", "-", "*", ">>", "<<"} |->
               CASE o = "+" -> "ADD" [] o = "-" -> "SUB" [] o = "*" -> "MUL"
                 [] o = ">>" -> "SHR" [] o = "<<" -> "SHL"]
IdMnemonic == [tid |-> "TID", bid |-> "BID", bdim |-> "BDIM"]

\* Operands are generated first; the operators below finish what stands in g with
\* its operand in g.rd, or a pair g with the operands in l and r, the second
\* generated after the first.
Paired(ga, gb)   == [g |-> gb, l |-> ga.rd, r |-> gb.rd]
Second(ga, b)    == Paired(ga, GenExpr(ga, b))
GenPair(g, a, b) == Second(GenExpr(g, a), b)

Reused(g) == IF g.rd >= SCRATCH_BASE THEN g ELSE Scratch(g)

\* The operand plus n, with n in the instruction.
AddImmediate(g, n) == Put(Reused(g), Ins("ADDI", <<R(Reused(g).rd), R(g.rd), Imm(n)>>))

Binary(p, op) ==
  LET gd == ResultReg(p.g, p.l, p.r)
  IN IF op \in DOMAIN Mnemonic THEN Put(gd, Ins(Mnemonic[op], <<R(gd.rd), R(p.l), R(p.r)>>))
     ELSE Wrong(p.g)                    \* a comparison is not a value

\* Mutant: the operands are not swapped, so the result may be a variable's register.
LargerUnswapped(p) ==
  LET l  == <<"Lmax", p.g.label_counter>>
  IN Puts(In(Labelled(p.g), p.l),
          <<Ins("CMP", <<R(p.r), R(p.l)>>), Ins("BRn", <<To(l)>>),
            Ins("ADDI", <<R(p.l), R(p.r), Imm(0)>>), Mark(l), Ins("SYNC", << >>)>>)

\* max: copy the one, unless it is in a scratch register already, and replace it
\* by the other where that is not smaller.
Larger(p) ==
  LET swap == p.l < SCRATCH_BASE /\ p.r >= SCRATCH_BASE
      ra   == IF swap THEN p.r ELSE p.l
      rb   == IF swap THEN p.l ELSE p.r
      gd   == IF ra >= SCRATCH_BASE THEN In(p.g, ra) ELSE Scratch(p.g)
      d    == gd.rd
      l    == <<"Lmax", gd.label_counter>>
      copy == IF d # ra THEN <<Ins("ADDI", <<R(d), R(ra), Imm(0)>>)>> ELSE << >>
      done == Puts(Labelled(gd),
                   copy \o <<Ins("CMP", <<R(rb), R(d)>>), Ins("BRn", <<To(l)>>),
                             Ins("ADDI", <<R(d), R(rb), Imm(0)>>), Mark(l), Ins("SYNC", << >>)>>)
  IN Need(IF rb # d THEN Release(done, rb) ELSE done, p.g.if_depth = 0)

\* A load replaces its address, unless that is a variable.
Load(g) == Put(Reused(g), Ins("LDR", <<R(Reused(g).rd), R(g.rd)>>))

GenExpr(g, e) ==
  CASE e.node = "Number"   -> LoadConst(Scratch(g), Scratch(g).rd, e.num)
    [] e.node = "Variable" -> VarReg(g, e.name)
    [] e.node \in Identity -> Put(Scratch(g), Ins(IdMnemonic[e.node], <<R(Scratch(g).rd)>>))
    [] e.node = "max"      -> Larger(GenPair(g, e.args[1], e.args[2]))
    [] e.node = "mem"      -> Load(GenExpr(g, e.args[1]))
    [] e.node \in Ops ->
         IF e.node = "+" /\ e.args[2].node = "Number" /\ e.args[2].num <= IMM_MAX
         THEN AddImmediate(GenExpr(g, e.args[1]), e.args[2].num)
         ELSE Binary(GenPair(g, e.args[1], e.args[2]), e.node)

\* The register dest gets the value of e.
Move(g, dest) ==
  LET last == RetargetLast(g, g.rd, dest)
  IN CASE g.rd = dest               -> g
       [] g.rd # dest /\ last.done  -> last.g
       [] g.rd # dest /\ ~last.done -> Put(g, Ins("ADDI", <<R(dest), R(g.rd), Imm(0)>>))
StoreInto(g, dest, e) ==
  IF e.node = "Number" THEN LoadConst(g, dest, e.num) ELSE Move(GenExpr(g, e), dest)

\* The flags of a comparison, and the branch that leaves when it fails.
Leaving == [o \in {"<", "=="} |-> IF o = "<" THEN "BRzp" ELSE "BRnp"]
Compare(p, exit, op) == Puts(p.g, <<Ins("CMP", <<R(p.l), R(p.r)>>), Ins(Leaving[op], <<To(exit)>>)>>)
GenCondition(g, cond, exit) ==
  IF cond.node \in DOMAIN Leaving THEN Compare(GenPair(g, cond.args[1], cond.args[2]), exit, cond.node)
  ELSE Wrong(g)

-----------------------------------------------------------------------------
RECURSIVE GenBody(_, _)

GenManifest(g, x, e) ==
  LET reg == g.next_var_reg
      g1  == [g EXCEPT !.next_var_reg = @ + 1,
                       !.variables = [y \in DOMAIN @ \cup {x} |-> IF y = x THEN reg ELSE @[y]]]
  IN IF reg > MAX_VAR_REG THEN Wrong(g) ELSE StoreInto(g1, reg, e)

GenAssign(g, x, e) == IF Declared(g, x) THEN StoreInto(g, g.variables[x], e) ELSE Wrong(g)

\* An instruction that reads a pair of operands and has no result.
Consume(p, op)   == Put(p.g, Ins(op, <<R(p.l), R(p.r)>>))
Store(p)         == Put(p.g, Ins("STR", <<R(p.r), R(p.l)>>))

\* The byte goes to the UART's address, in a scratch register of its own.
SendByte(g) == Puts(Scratch(g), <<Ins("MOV", <<R(Scratch(g).rd), Imm(UART_TX_ADDR)>>),
                                  Ins("STR", <<R(g.rd), R(Scratch(g).rd)>>)>>)

\* Loop while the condition holds.
GenGrindUntil(g, cond, body) ==
  LET k    == g.label_counter
      top  == <<"Lcond", k>>
      end  == <<"Lend", k>>
      test == GenCondition(Put(Labelled(g), Mark(top)), cond, end)
      done == GenBody(test, body)
  IN Puts([done EXCEPT !.scratch_used = {}], <<Ins("BR", <<To(top)>>), Mark(end)>>)

\* Mutant: the lanes that skipped are not waited for.
GenIfNoSync(g, cond, body) ==
  LET skip == <<"Lskip", g.label_counter>>
      test == GenCondition(Labelled(g), cond, skip)
      done == GenBody([test EXCEPT !.if_depth = @ + 1], body)
  IN IF g.if_depth > 0 THEN Wrong(g)
     ELSE Puts([done EXCEPT !.if_depth = @ - 1], <<Mark(skip)>>)

GenIf(g, cond, body) ==
  LET skip == <<"Lskip", g.label_counter>>
      test == GenCondition(Labelled(g), cond, skip)
      done == GenBody([test EXCEPT !.if_depth = @ + 1], body)
  IN IF g.if_depth > 0 THEN Wrong(g)
     ELSE Puts([done EXCEPT !.if_depth = @ - 1], <<Mark(skip), Ins("SYNC", << >>)>>)

PushOne(g) == Put(g, Ins("MACL", <<R(g.rd)>>))
GenCrunchPush(g, exprs) ==
  IF Len(exprs) = 1 THEN PushOne(GenExpr(g, exprs[1]))
  ELSE Consume(GenPair(g, exprs[1], exprs[2]), "MACL")

\* crunch_fire and fc_best write into a variable.
GenRead(g, op, x, rest) ==
  IF Declared(g, x) THEN Put(g, Ins(op, <<R(g.variables[x])>> \o rest)) ELSE Wrong(g)

\* Every statement starts with both scratch registers free.
GenStatement(g0, s) ==
  LET g == [g0 EXCEPT !.scratch_used = {}]
  IN CASE s.stmt = "manifest"    -> GenManifest(g, s.name, s.exprs[1])
       [] s.stmt = "assign"      -> GenAssign(g, s.name, s.exprs[1])
       [] s.stmt = "store"       -> Store(GenPair(g, s.exprs[1], s.exprs[2]))
       [] s.stmt = "grind_until" -> GenGrindUntil(g, s.exprs[1], s.body)
       [] s.stmt = "if"          -> GenIf(g, s.exprs[1], s.body)
       [] s.stmt = "yeet"        -> SendByte(GenExpr(g, s.exprs[1]))
       [] s.stmt = "crunch_push" -> GenCrunchPush(g, s.exprs)
       [] s.stmt = "crunch_fire" -> GenRead(g, "MAC", s.name, <<Imm(s.num)>>)
       [] s.stmt = "fc_best"     -> GenRead(g, "FBEST", s.name, << >>)
       [] s.stmt = "fc_reset"    -> Put(g, Ins("FRST", << >>))
       [] s.stmt = "fc_finalize" -> Put(g, Ins("FARG", << >>))
       [] s.stmt = "fc_mac"      -> Consume(GenPair(g, s.exprs[1], s.exprs[2]), "FMAC")
       [] s.stmt = "advance"     -> BaseMove(g, "ADDB", s.num)
       [] s.stmt = "wbase"       -> BaseMove(g, "WBASE", s.num)

GenBody(g, body) == FoldLeft(GenStatement, g, body)

\* The second RET is for the loader, which may lose the last word.
Generate(tree) == Puts(GenBody(Gen0, tree), <<Ins("RET", << >>), Ins("RET", << >>)>>)
=============================================================================
