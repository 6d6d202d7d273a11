------------------------------- MODULE MCJpp -------------------------------
(* Jpp with the widths of the chip, three lanes, 128 bytes of data, and a    *)
(* library of programs: every statement and operator, every pair of nested   *)
(* operators, the limits of the compiler, damaged programs, and assembler    *)
(* files with every mnemonic.                                                *)
EXTENDS JppProperties

MCData == [a \in 0 .. 127 |-> (37 * a + 11) % 256]
MCBias == [d \in 0 .. 15 |-> (d % 3) - 1]

x == <<"x">>  y == <<"y">>  z == <<"z">>  i == <<"x", "1">>  u == <<"y", "0", "z">>  w == <<"z", "2">>

N(n)        == Number(n)
V(v)        == Variable(v)
E(o, a, b)  == Expr(o, <<a, b>>)
Tid         == Expr("tid", << >>)
Mem(a)      == Expr("mem", <<a>>)
MaxOf(a, b) == Expr("max", <<a, b>>)

S(kind, name, exprs) == Stmt(kind, [NoParts EXCEPT !.name = name, !.exprs = exprs])
B(kind, cond, body)  == Stmt(kind, [NoParts EXCEPT !.exprs = <<cond>>, !.body = body])
M(kind, n)           == Stmt(kind, [NoParts EXCEPT !.num = n])
Man(v, e) == S("manifest", v, <<e>>)
Set(v, e) == S("assign", v, <<e>>)
Put2(a, e) == S("store", << >>, <<a, e>>)
Yeet(e)   == S("yeet", << >>, <<e>>)
Push(es)  == S("crunch_push", << >>, es)
Fire(v, n) == Stmt("crunch_fire", [NoParts EXCEPT !.name = v, !.num = n])
Loop(c, body) == B("grind_until", c, body)
If(c, body)   == B("if", c, body)

-----------------------------------------------------------------------------
\* jpp_features.jpp.
Features ==
  <<Man(x, Tid), Man(y, N(200)), Man(z, MaxOf(V(x), N(2))), Man(i, N(5)),
    If(E("<", V(x), N(2)), <<Set(i, E("+", V(y), N(1)))>>), Man(u, N(7)),
    If(E("<", V(y), N(5)), <<Set(u, N(99))>>), If(E("==", V(y), N(200)), <<Set(u, E("+", V(u), N(1)))>>),
    Man(w, E("+", V(y), N(100)))>>

\* Copy and sum: loads, stores and windows in a loop with an if in it.
Walk ==
  <<Man(x, N(0)), Man(y, N(0)), M("advance", 70), M("wbase", 100),
    Loop(E("<", V(x), N(3)),
         <<Set(y, E("+", V(y), Mem(V(x)))), Put2(E("+", V(x), N(4)), E(">>", V(y), N(1))),
           If(E("==", Tid, V(x)), <<Put2(N(0), V(y))>>), Set(x, E("+", V(x), N(1)))>>),
    Yeet(V(y)), M("advance", 1), Yeet(Mem(N(0)))>>

\* A loop inside an if that lanes 1 and 2 skip, and max in a loop's condition.
LoopInIf ==
  <<Man(x, Tid), Man(y, N(0)),
    If(E("==", V(x), N(0)), <<Loop(E("<", V(y), N(3)), <<Set(y, E("+", V(y), N(1)))>>)>>),
    Man(z, N(9)),
    Loop(E("<", MaxOf(V(z), N(10)), N(12)), <<Set(z, E("+", V(z), N(1)))>>), Put2(N(1), V(y))>>

\* The shared units: a window of the MAC, a short one over stale slots, a
\* tenth push; two digits of the classifier.
Units ==
  <<Man(x, N(2)), Man(y, N(255)), Man(z, N(0)),
    Loop(E("<", V(z), N(10)), <<Push(<<E("+", V(z), N(250)), V(y)>>), Set(z, E("+", V(z), N(1)))>>),
    Fire(z, 0), Man(i, N(0)), Fire(i, 3)>>
UnitsShort ==
  <<Man(x, N(3)), Man(y, N(100)), Push(<<V(y), N(127)>>), Push(<<V(y)>>), Fire(y, 1),
    Push(<<N(1)>>), Man(z, N(0)), Fire(z, 0)>>
Classify ==
  <<Man(x, N(0)), M("fc_reset", 0), S("fc_mac", << >>, <<Mem(N(3)), N(200)>>), M("fc_finalize", 0),
    S("fc_mac", << >>, <<Mem(N(4)), Mem(N(5))>>), M("fc_finalize", 0), M("fc_finalize", 0), S("fc_best", x, << >>),
    Yeet(V(x))>>

\* More than 64 words before, inside and after a loop.
Far ==
  <<Man(x, N(0)), M("wbase", 2100), M("advance", 1900),
    Loop(E("<", V(x), N(2)), <<M("wbase", 63), Set(x, E("+", V(x), N(1)))>>),
    Man(y, MaxOf(V(x), Mem(Tid))), Man(z, N(40000)), Set(z, E("-", V(x), V(z))), Put2(Tid, V(z)),
    If(E("<", V(y), N(90)), <<Yeet(V(y))>>)>>

\* The scratch registers: tests/jpp_features.rs, expressions_reuse_scratch_registers.
Reuse ==
  <<Man(x, N(1000)), Man(y, N(2000)), Man(z, N(3000)),
    Set(x, E("+", E("+", E(">>", V(x), N(8)), E(">>", V(y), N(8))), E(">>", V(z), N(8)))),
    Set(y, E("+", V(y), E("*", Mem(E("+", V(z), N(56))), N(127)))),
    Set(z, MaxOf(E("+", V(x), N(1)), MaxOf(V(y), N(70)))), Set(x, MaxOf(V(x), V(y))), Set(y, V(z)),
    Set(x, MaxOf(V(y), E("+", Tid, N(2))))>>

\* The identity registers, the UART's address, redeclaration.
Names2 ==
  <<Man(x, Expr("bid", << >>)), Man(y, Expr("bdim", << >>)), Man(x, E("*", V(y), Tid)),
    Put2(N(63), V(x)), Yeet(E("-", V(x), V(y))), Put2(E("+", Tid, N(64)), N(300))>>

\* Every operator above and below every other one.
ValueOps == {"+", "-", "*", "<<", ">>"}
Around(e) == <<Man(x, E("+", Tid, N(3))), Man(y, N(70)), Man(z, N(0)), Set(z, e)>>
Pairs ==
  {Around(E(o, E(p, V(x), N(2)), V(y))) : o \in ValueOps, p \in ValueOps}
    \cup {Around(E(o, V(y), E(p, N(2), V(x)))) : o \in ValueOps, p \in ValueOps}
Trees ==
  {Around(E(o, E(p, V(x), N(2)), E(q, N(3), V(y)))) : o \in ValueOps, p \in ValueOps, q \in ValueOps}
Small == {V(x), N(7), N(64), Mem(V(x)), E("-", V(y), V(x))}
Maxes == {Around(MaxOf(a, b)) : a \in Small, b \in Small}

Branches ==
  {Around(N(0)) \o <<If(E(o, a, b), <<Set(z, a), Put2(Tid, b)>>), Yeet(V(z))>> : o \in {"<", "=="}, a \in Small, b \in Small}

Programs == {Features, Walk, LoopInIf, Units, UnitsShort, Classify, Far, Reuse, Names2} 
              \cup Pairs \cup Trees \cup Maxes \cup Branches

\* Not programs of the language.
SevenVars == [k \in 1 .. 7 |-> Man(<<"x", Digits[k]>>, N(k))]
Wrongs ==
  {<<Man(x, N(1)), If(E("<", Tid, N(2)), <<If(E("<", Tid, N(1)), <<Set(x, N(0))>>)>>)>>,
   <<Man(x, N(1)), If(E("<", Tid, N(2)), <<Loop(E("<", V(x), N(2)), <<Set(x, MaxOf(V(x), N(3)))>>)>>)>>,
   SevenVars, <<Set(x, N(1))>>, <<Yeet(V(y))>>, <<Man(x, N(65536))>>, <<Man(x, N(0)), Fire(x, 4)>>,
   <<Man(x, E("<", Tid, N(1)))>>, <<Man(x, N(0)), Loop(V(x), << >>)>>,
   <<Man(x, N(0)), If(E("+", V(x), N(1)), << >>)>>,
   <<Man(x, E("*", E("*", Tid, Expr("bid", << >>)), E("*", Tid, E("*", Tid, Tid))))>>}

-----------------------------------------------------------------------------
\* A program with one token dropped or doubled.
Whole   == SayAll(<<Man(x, E("-", Tid, N(1))), Fire(x, 2), M("advance", 5),
                    Loop(E("<", V(x), N(3)), <<Put2(E("+", V(x), N(2)), Mem(V(x))),
                                               Set(x, MaxOf(V(x), E("*", E("+", V(x), N(1)), N(2))))>>),
                    S("fc_mac", << >>, <<V(x), N(1)>>), Yeet(V(x))>>)
Damaged == {SubSeq(Whole, 1, k - 1) \o SubSeq(Whole, k + 1, Len(Whole)) : k \in DOMAIN Whole}
             \cup {SubSeq(Whole, 1, k) \o SubSeq(Whole, k, Len(Whole)) : k \in DOMAIN Whole}

-----------------------------------------------------------------------------
\* Assembler files: all the mnemonics around labels that LDI and MAX move.
I0(op)          == Ins(op, << >>)
I1(op, a)       == Ins(op, <<a>>)
I2(op, a, b)    == Ins(op, <<a, b>>)
I3(op, a, b, c) == Ins(op, <<a, b, c>>)
At(l, ln) == [ln EXCEPT !.label = l]
L1 == <<"L", 1>>
L2 == <<"L", 2>>

Everything ==
  <<I2("MOV", R(1), Imm(63)), I2("LDI", R(2), Imm(51966)), I2("LUI", R(1), Imm(5)), I1("TID", R(3)), I1("BID", R(4)),
    I1("BDIM", R(5)), I3("ADD", R(6), R(1), R(2)), I3("ADD", R(6), R(6), Imm(9)), I3("ADDI", R(7), R(6), Imm(62)),
    I3("SUB", R(0), R(7), R(6)), I3("MUL", R(6), R(7), R(2)), I3("SHR", R(2), R(2), R(3)), I3("SHL", R(5), R(4), R(3)),
    I2("LDR", R(1), R(3)), I2("STR", R(1), R(3)), I1("ADDB", Imm(13)), I1("WBASE", Imm(7)), I0("FRST"), I2("FMAC", R(1), R(2)),
    I2("FACC", R(1), Imm(2)), I1("FACC", R(2)), I2("FOUT", R(3), Imm(7)), I1("FOUT", R(3)), I0("FARG"), I1("FBEST", R(4)),
    I2("MACL", R(6), R(7)), I1("MACL", R(2)), I2("MAC", R(5), Imm(1)), I1("MAC", R(6)),
    I2("CMP", R(1), R(2)), I1("BRn", To(L2)), I1("BRz", To(L2)), I1("BRnz", To(L2)), I1("BRp", To(L1)),
    I3("MAX", R(1), R(2), R(3)), At(L1, I3("MAX", R(4), R(4), R(5))), I1("BRnp", To(L2)), I0("SYNC"),
    At(L1, I1("BRzp", To(L2))), I2("LDI", R(3), Imm(4660)), I1("BR", To(L2)), At(L2, Mark(NoLabel)),
    I0("SYNC"), I0("RET")>>

\* Labels that are missing, doubled or numbers, immediates that do not fit.
Odd ==
  <<I2("CMP", R(0), R(0)), I1("BRn", To(L1)), I1("BRn", Imm(300)), I2("MOV", R(1), Imm(70000)), I2("MOV", R(2), Imm(100)),
    I2("ADD", Imm(3), R(1)), I2("LDR", R(1), Imm(5)), I0("RET")>>
OddFixed == [k \in DOMAIN Odd |-> IF k = 6 THEN I3("ADD", Imm(3), R(1), R(2)) ELSE Odd[k]]
Strange  == <<I0("NOP"), I1("TID", R(1)), I0("RET")>>
NoSuchR  == <<I1("TID", R(1)), I2("MOV", R(8), Imm(1)), I0("RET")>>

\* A MAX into its own third operand.
Clobber == {<<I3("MAX", R(d), R(a), R(b)), I0("RET")>> : d \in 0 .. 2, a \in 0 .. 2, b \in 0 .. 2}

-----------------------------------------------------------------------------
NoJob == [from |-> "", fate |-> "", text |-> << >>, tokens |-> << >>, tree |-> << >>, lines |-> << >>]
Of(fate, t, style) ==
  [NoJob EXCEPT !.from = "text", !.fate = fate, !.text = Text(SayAll(t), style), !.tree = t]
Tokens(toks)   == [NoJob EXCEPT !.from = "tokens", !.fate = "either", !.tokens = toks]
File(fate, ls) == [NoJob EXCEPT !.from = "asm", !.fate = fate, !.lines = ls]

Texts ==
  {Of("runs", p, "tight") : p \in Programs} \cup {Of("runs", p, "spaced") : p \in {Features, Walk}}
    \cup {Of("runs", p, "commented") : p \in {Walk, Units, Names2}}
    \cup {Of("refused", p, "tight") : p \in Wrongs}
Files ==
  {File("runs", f) : f \in {Everything, OddFixed, Strange} \cup Clobber}
    \cup {File("refused", f) : f \in {Odd, NoSuchR}}
MCJobs  == Texts \cup {Tokens(t) : t \in Damaged} \cup Files
MaxJobs == {File("runs", f) : f \in Clobber \cup {Everything}}
=============================================================================
