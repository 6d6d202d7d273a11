---------------------------- MODULE GraphKernels ----------------------------
(***************************************************************************)
(* graph_compiler.rs: the kernel of a layer in assembly, and what          *)
(* the layer computes (eval).  from, to and weights are the addresses that *)
(* the plan gives its input, its output and its weights.                   *)
(***************************************************************************)
EXTENDS GraphPlanner, AsmLines, FiniteSetsExt

-----------------------------------------------------------------------------
(* Lines.                                                                   *)
Lit(r, v)        == <<Ins(IF v <= IMM_MAX THEN "MOV" ELSE "LDI", <<R(r), Imm(v)>>)>>
Addi(rd, rs, v)  == <<Ins("ADDI", <<R(rd), R(rs), Imm(v)>>)>>
Ldr(rd, rs)      == <<Ins("LDR", <<R(rd), R(rs)>>)>>
Str(rt, rs)      == <<Ins("STR", <<R(rt), R(rs)>>)>>
Cmp(ra, rb)      == <<Ins("CMP", <<R(ra), R(rb)>>)>>
Goto(op, label)  == <<Ins(op, <<To(label)>>)>>
Here(label)      == <<Mark(label)>>

Bump(r, v, scratch) ==
  IF v = 0 THEN << >>
  ELSE IF v <= IMM_MAX THEN Addi(r, r, v)
  ELSE Lit(scratch, v) \o <<Ins("ADD", <<R(r), R(r), R(scratch)>>)>>

\* rd := rs + v
Ahead(rd, rs, v) ==
  IF v <= IMM_MAX THEN Addi(rd, rs, v) ELSE Lit(rd, v) \o <<Ins("ADD", <<R(rd), R(rd), R(rs)>>)>>

\* Mutant: the loop is left one round late.
WhileNotPast(top, ra, rb, end) == Here(top) \o Cmp(ra, rb) \o Goto("BRp", end)

\* The head of a loop: leave once pointer ra has reached rb.
While(top, ra, rb, end) == Here(top) \o Cmp(ra, rb) \o Goto("BRzp", end)

\* One product; one neuron read and stored.
Tap(feature, weight) == Ldr(4, feature) \o Ldr(5, weight) \o <<Ins("FMAC", <<R(4), R(5)>>)>>
Fire(r, shift) == <<Ins("FOUT", <<R(r), Imm(shift)>>)>> \o Str(r, 3) \o Addi(3, 3, 1)

\* The code of 0 .. n - 1, one after the other.
Unrolled(n, code) ==
  LET upto[t \in 0 .. n] == IF t = 0 THEN << >> ELSE upto[t - 1] \o code[t - 1] IN upto[n]

GenDense(n, l, from, to, weights) ==
  LET L(s) == <<s, n>>
  IN Lit(0, weights) \o Lit(2, from + l.in_f) \o Lit(3, to) \o Lit(6, to + l.out_f)
       \o While(L("neuron"), 3, 6, L("end")) \o Lit(1, from)
       \o While(L("tap"), 1, 2, L("fire")) \o Tap(1, 0) \o Addi(1, 1, 1) \o Addi(0, 0, 1)
       \o Goto("BR", L("tap"))
       \o Here(L("fire")) \o Fire(7, l.shift) \o Goto("BR", L("neuron")) \o Here(L("end"))

\* Mutant: the width of the window is subtracted in full.
StrideShort(t, l) == IF (t + 1) % l.k # 0 THEN 1 ELSE l.w - l.k

\* Where the tap pointer goes from tap t of a window of width k in rows of width w.
Stride(t, l) == IF (t + 1) % l.k # 0 THEN 1 ELSE l.w - l.k + 1

GenConv(n, l, from, to, weights) ==
  LET L(s) == <<s, n>>
      taps == l.k * l.k
      code == [t \in 0 .. taps - 1 |->
                 Tap(2, 6) \o (IF t = taps - 1 THEN << >> ELSE Addi(6, 6, 1) \o Addi(2, 2, Stride(t, l)))]
  IN Lit(0, weights) \o Lit(3, to)
       \o Here(L("chan")) \o Lit(5, to + OutLen(l)) \o Cmp(3, 5) \o Goto("BRzp", L("end")) \o Lit(1, from)
       \o Here(L("row")) \o Lit(5, from + (l.h - l.k + 1) * l.w) \o Cmp(1, 5) \o Goto("BRzp", L("chan_next"))
       \o Ahead(7, 1, l.w - l.k + 1)
       \o While(L("pix"), 1, 7, L("row_next")) \o Addi(2, 1, 0) \o Addi(6, 0, 0) \o Unrolled(taps, code)
       \o Fire(4, l.shift) \o Addi(1, 1, 1) \o Goto("BR", L("pix"))
       \o Here(L("row_next")) \o Bump(1, l.k - 1, 5) \o Goto("BR", L("row"))
       \o Here(L("chan_next")) \o Bump(0, taps, 5) \o Goto("BR", L("chan")) \o Here(L("end"))

GenPool(n, l, from, to) ==
  LET L(s) == <<s, n>>
      oh == l.h \div l.k
      ow == l.w \div l.k
      code == [t \in 0 .. l.k * l.k - 2 |->
                 Addi(2, 2, Stride(t, l)) \o Ldr(5, 2) \o <<Ins("MAX", <<R(4), R(4), R(5)>>)>>]
  IN Lit(1, from) \o Lit(3, to) \o Lit(0, to)
       \o Here(L("chan")) \o Lit(5, to + OutLen(l)) \o Cmp(3, 5) \o Goto("BRzp", L("end")) \o Bump(0, oh * ow, 6)
       \o While(L("row"), 3, 0, L("chan_next")) \o Ahead(7, 3, ow)
       \o While(L("pix"), 3, 7, L("row_next")) \o Ldr(4, 1) \o Addi(2, 1, 0) \o Unrolled(l.k * l.k - 1, code)
       \o Str(4, 3) \o Addi(3, 3, 1) \o Addi(1, 1, l.k) \o Goto("BR", L("pix"))
       \o Here(L("row_next")) \o Bump(1, l.k * (l.w - ow), 6) \o Goto("BR", L("row"))
       \o Here(L("chan_next")) \o Bump(1, (l.h - l.k * oh) * l.w, 6) \o Goto("BR", L("chan")) \o Here(L("end"))

Kernel(n, l, from, to, weights) ==
  CASE l.kind = "Dense" -> GenDense(n, l, from, to, weights)
    [] l.kind = "Conv"  -> GenConv(n, l, from, to, weights)
    [] l.kind = "Pool"  -> GenPool(n, l, from, to)

\* [len][scores][argmax] over the n scores at from; the second RET is for the loader.
Epilogue(from, n) ==
  LET L(s) == <<s, 0>>
  IN Lit(2, MMIO_TX) \o Lit(3, n + 1) \o Str(3, 2) \o Lit(0, from) \o Lit(1, from + n)
       \o Lit(4, 0) \o Lit(5, 0) \o Lit(6, 0)
       \o While(L("Lemit"), 0, 1, L("Lemit_done")) \o Ldr(7, 0) \o Str(7, 2)
       \o Cmp(7, 4) \o Goto("BRnz", L("Lemit_next")) \o Addi(4, 7, 0) \o Addi(5, 6, 0)
       \o Here(L("Lemit_next")) \o Addi(6, 6, 1) \o Addi(0, 0, 1) \o Goto("BR", L("Lemit"))
       \o Here(L("Lemit_done")) \o Str(5, 2) \o <<Ins("RET", << >>), Ins("RET", << >>)>>

\* Mutant: the expansion of MAX is forgotten.
WordsOfNoMax(asm) ==
  LET Count(ops) == Cardinality({n \in DOMAIN asm : asm[n].op \in ops})
  IN Len(asm) - Count({""}) + 2 * Count({"LDI"})

\* The words that the lines of asm will be.
WordsOf(asm) ==
  LET Count(ops) == Cardinality({n \in DOMAIN asm : asm[n].op \in ops})
  IN Len(asm) - Count({""}) + 2 * Count({"LDI"}) + 3 * Count({"MAX"})

-----------------------------------------------------------------------------
(* The reference: in holds the layer's input, in[a + 1] at offset a.        *)
Total(n, Term(_)) == LET upto[t \in 0 .. n] == IF t = 0 THEN 0 ELSE upto[t - 1] + Term(t - 1) IN upto[n]
Most(n, Term(_)) == Max({0} \cup {Term(t) : t \in 0 .. n - 1})

Fout(acc, shift) ==
  LET v == acc \div 2^(8 + shift) IN IF v < 0 THEN 0 ELSE IF v > 255 THEN 255 ELSE v

\* Where tap t of the window of pixel p lies in the plane: pixels are ow in a row and
\* their windows apart from each other by stride.
TapAt(p, ow, stride, t, l) == ((p \div ow) * stride + (t \div l.k)) * l.w + (p % ow) * stride + (t % l.k)

EvalLayer(l, in) ==
  LET oh == IF l.kind = "Conv" THEN l.h - l.k + 1 ELSE l.h \div l.k
      ow == IF l.kind = "Conv" THEN l.w - l.k + 1 ELSE l.w \div l.k
      taps == l.k * l.k
      dense(o)   == Total(l.in_f, LAMBDA t : in[t + 1] * l.weights[o * l.in_f + t + 1])
      conv(c, p) == Total(taps, LAMBDA t : in[TapAt(p, ow, 1, t, l) + 1] * l.weights[c * taps + t + 1])
      pool(c, p) == Most(taps, LAMBDA t : in[c * (l.h * l.w) + TapAt(p, ow, l.k, t, l) + 1])
      value(o) == CASE l.kind = "Dense" -> Fout(dense(o), l.shift)
                    [] l.kind = "Conv"  -> Fout(conv(o \div (oh * ow), o % (oh * ow)), l.shift)
                    [] l.kind = "Pool"  -> pool(o \div (oh * ow), o % (oh * ow))
  IN [o \in 1 .. OutLen(l) |-> value(o - 1)]

\* The first of the largest.
Argmax(scores) ==
  CHOOSE b \in DOMAIN scores :
    \A o \in DOMAIN scores : scores[o] < scores[b] \/ (scores[o] = scores[b] /\ b <= o)
=============================================================================
