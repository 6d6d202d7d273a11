-------------------------- MODULE GraphRun_proofs ---------------------------
(***************************************************************************)
(* For every graph, from the file to the reply: the chip reads and stores  *)
(* what the plan says and sends what eval predicted.                       *)
(*                                                                         *)
(* The labels of a text are all different, so each kernel stands in it as it*)
(* was generated; each layer reads where the one before wrote and no output*)
(* is written twice; the lane of the warp is on the way of that thread.  The*)
(* invariant GraphInv carries this from the opened file to the run: the    *)
(* shapes (FlowInv), the image (StoreInv), the text (TextInv), the outputs *)
(* (ActsInv) and the program memory with the lane (RunInv).                *)
(***************************************************************************)
EXTENDS GraphKernels_proofs

-----------------------------------------------------------------------------
(* The labels of a kernel.                                                  *)

\* Lines that the assembler knows, without a label.
Plain(s) == \E S : s \in Seq(S) /\ \A l \in S : l.op \in Coded /\ l.label = NoLabel

\* What that says of the lines.
LEMMA PlainLines ==
  ASSUME NEW s, Plain(s)
  PROVE  KnownCode(s) /\ Len(s) \in Nat /\ \A j \in 1 .. Len(s) : s[j].label = NoLabel
<1>1. PICK S : s \in Seq(S) /\ \A l \in S : l.op \in Coded /\ l.label = NoLabel
  BY DEF Plain
<1>2. KnownCode(s)
  BY <1>1 DEF KnownCode
<1> QED BY <1>1, <1>2, ElementOfSeq

\* No line.
LEMMA PlainNone == Plain(<< >>)
<1> DEFINE none == {}
<1>1. << >> \in Seq(none) /\ \A l \in none : l.op \in Coded /\ l.label = NoLabel
  OBVIOUS
<1> HIDE DEF none
<1> QED BY <1>1 DEF Plain

\* One behind the other.
LEMMA PlainCat == ASSUME NEW a, NEW b, Plain(a), Plain(b) PROVE Plain(a \o b)
<1>1. PICK S : a \in Seq(S) /\ \A l \in S : l.op \in Coded /\ l.label = NoLabel
  BY DEF Plain
<1>2. PICK T : b \in Seq(T) /\ \A l \in T : l.op \in Coded /\ l.label = NoLabel
  BY DEF Plain
<1>3. a \in Seq(S \cup T) /\ b \in Seq(S \cup T)
  BY <1>1, <1>2, SeqMonotonic
<1>4. a \o b \in Seq(S \cup T)
  BY <1>3, ConcatProperties
<1> QED BY <1>1, <1>2, <1>4 DEF Plain

\* An instruction.
LEMMA InsPlain == ASSUME NEW op \in Coded, NEW args PROVE Plain(<<Ins(op, args)>>)
<1> DEFINE S == {Ins(op, args)}
<1>1. Ins(op, args).op = op /\ Ins(op, args).label = NoLabel
  BY DEF Ins, Line
<1>2. <<Ins(op, args)>> \in Seq(S) /\ \A l \in S : l.op \in Coded /\ l.label = NoLabel
  BY <1>1
<1> HIDE DEF S
<1> QED BY <1>2 DEF Plain

\* The pieces of a kernel but for its labels.
LEMMA PlainPieces ==
  ASSUME NEW a, NEW b, NEW v
  PROVE  /\ Plain(Lit(a, v)) /\ Plain(Addi(a, b, v)) /\ Plain(Ldr(a, b)) /\ Plain(Str(a, b))
         /\ Plain(Cmp(a, b)) /\ \A op \in {"BR", "BRzp", "BRnz"} : Plain(Goto(op, v))
         /\ Plain(Bump(a, v, b)) /\ Plain(Ahead(a, b, v))
         /\ Plain(Tap(a, b)) /\ Plain(Fire(a, v))
<1>0. \A r, u : Plain(Lit(r, u))
  BY Written, InsPlain DEF Lit
<1>1. \A c, d, u : Plain(Addi(c, d, u)) /\ Plain(Ldr(c, d)) /\ Plain(Str(c, d))
  BY Written, InsPlain DEF Addi, Ldr, Str
<1>2. Plain(Cmp(a, b)) /\ \A op \in {"BR", "BRzp", "BRnz"} : Plain(Goto(op, v))
  BY Written, InsPlain DEF Cmp, Goto
<1>3. Plain(Bump(a, v, b)) /\ Plain(Ahead(a, b, v))
  BY <1>0, <1>1, PlainNone, PlainCat, Written, InsPlain DEF Bump, Ahead
<1>4. Plain(Tap(a, b)) /\ Plain(Fire(a, v))
  BY <1>1, PlainCat, Written, InsPlain DEF Tap, Fire
<1> QED BY <1>0, <1>1, <1>2, <1>3, <1>4

\* Unrolled windows.
LEMMA UptoPlain ==
  ASSUME NEW n \in Nat, NEW code, NEW g, Upto(n, code, g), \A t \in 0 .. n - 1 : Plain(code[t])
  PROVE  Plain(g[n])
<1> DEFINE S == {m \in 0 .. n : Plain(g[m])}
<1>0. g = [t \in 0 .. n |-> IF t = 0 THEN << >> ELSE g[t - 1] \o code[t - 1]]
  BY DEF Upto
<1>1. 0 \in S
  <2>1. g[0] = << >>
    BY <1>0
  <2> QED BY <2>1, PlainNone
<1>2. \A j \in 0 .. n - 1 : j \in S => j + 1 \in S
  <2>1. SUFFICES ASSUME NEW j \in 0 .. n - 1, Plain(g[j]) PROVE Plain(g[j + 1])
    OBVIOUS
  <2>2. j + 1 \in 0 .. n /\ j + 1 # 0 /\ (j + 1) - 1 = j
    OBVIOUS
  <2>3. g[j + 1] = g[j] \o code[j]
    BY <1>0, <2>2
  <2> QED BY <2>1, <2>3, PlainCat
<1> HIDE DEF S
<1>3. \A j \in 0 .. n : j \in S
  BY <1>1, <1>2, Climb
<1> QED BY <1>3 DEF S

\* They have no labels.
LEMMA UnrolledPlain ==
  ASSUME NEW n \in Nat, NEW code, \A t \in 0 .. n - 1 : Plain(code[t])
  PROVE  Plain(Unrolled(n, code))
<1>1. \E g : Unrolled(n, code) = g[n] /\ ((\E h : Upto(n, code, h)) => Upto(n, code, g))
  BY DEF Unrolled, Upto
<1>2. PICK g : Unrolled(n, code) = g[n] /\ Upto(n, code, g)
  BY <1>1, UptoExists
<1> QED BY <1>2, UptoPlain

-----------------------------------------------------------------------------
\* The order in which the labels of a kernel come.
Order == [neuron |-> 0, tap |-> 1, fire |-> 2, chan |-> 0, row |-> 1, pix |-> 2, row_next |-> 3, chan_next |-> 4,
          Lemit |-> 0, Lemit_next |-> 1, Lemit_done |-> 2, end |-> 5]

\* A label of kernel n before the one of rank b.
Below(label, n, b) == \E z \in DOMAIN Order : label = <<z, n>> /\ Order[z] < b

\* No label of s stands at two of its lines.
Unique(s) == \A j, m \in 1 .. Len(s) : s[j].label # NoLabel /\ s[j].label = s[m].label => j = m

\* Code of kernel n up to the label of rank b.
Marks(s, n, b) ==
  /\ KnownCode(s) /\ b \in Nat /\ Unique(s)
  /\ \A j \in 1 .. Len(s) : s[j].label = NoLabel \/ Below(s[j].label, n, b)

\* Code whose first line, and no other, is a label.
Heads(r, label) ==
  /\ KnownCode(r) /\ Len(r) >= 1 /\ r[1].label = label
  /\ \A j \in 2 .. Len(r) : r[j].label = NoLabel

\* s is a and then b, line for line.
Lies(s, a, b) ==
  /\ Len(a) \in Nat /\ Len(b) \in Nat /\ Len(s) = Len(a) + Len(b) /\ KnownCode(s)
  /\ \A j \in 1 .. Len(s) : \/ j \in 1 .. Len(a) /\ s[j] = a[j]
                            \/ j > Len(a) /\ j - Len(a) \in 1 .. Len(b) /\ s[j] = b[j - Len(a)]

\* The lines of two texts.
LEMMA CatLines ==
  ASSUME NEW a, NEW b, KnownCode(a), KnownCode(b), NEW s, s = a \o b
  PROVE  Lies(s, a, b)
<1>1. PICK S : a \in Seq(S)
  BY DEF KnownCode
<1>2. PICK T : b \in Seq(T)
  BY DEF KnownCode
<1>3. a \in Seq(S \cup T) /\ b \in Seq(S \cup T)
  BY <1>1, <1>2, SeqMonotonic
<1>4. Joins(S \cup T, s, a, b)
  BY <1>3, Joined, Zenon
<1>5. KnownCode(s)
  BY KnownCat
<1>6. Len(a) \in Nat /\ Len(b) \in Nat
  BY <1>3
<1> QED BY <1>4, <1>5, <1>6 DEF Joins, Lies

\* What follows without a label.
LEMMA MarksPlain ==
  ASSUME NEW s, NEW n, NEW b, Marks(s, n, b), NEW r, Plain(r)
  PROVE  Marks(s \o r, n, b)
<1> DEFINE t == s \o r
<1>1. KnownCode(s) /\ KnownCode(r) /\ \A j \in 1 .. Len(r) : r[j].label = NoLabel
  BY PlainLines DEF Marks
<1>2. t = s \o r
  OBVIOUS
<1> HIDE DEF t
<1>3. /\ Len(s) \in Nat /\ Len(r) \in Nat /\ Len(t) = Len(s) + Len(r) /\ KnownCode(t)
      /\ \A j \in 1 .. Len(t) : \/ j \in 1 .. Len(s) /\ t[j] = s[j]
                                \/ j > Len(s) /\ j - Len(s) \in 1 .. Len(r) /\ t[j] = r[j - Len(s)]
  <2>1. Lies(t, s, r)
    BY <1>1, <1>2, CatLines, Zenon
  <2> QED BY <2>1 DEF Lies
<1>4. \A j \in 1 .. Len(t) : t[j].label = NoLabel \/ (j \in 1 .. Len(s) /\ t[j] = s[j])
  BY <1>1, <1>3
<1>5. Unique(t)
  <2>1. SUFFICES ASSUME NEW j \in 1 .. Len(t), NEW m \in 1 .. Len(t), t[j].label # NoLabel, t[j].label = t[m].label
                 PROVE  j = m
    BY DEF Unique
  <2>2. j \in 1 .. Len(s) /\ t[j] = s[j] /\ m \in 1 .. Len(s) /\ t[m] = s[m]
    BY <1>4, <2>1
  <2>3. Unique(s)
    BY DEF Marks
  <2> QED BY <2>1, <2>2, <2>3 DEF Unique
<1>6. \A j \in 1 .. Len(t) : t[j].label = NoLabel \/ Below(t[j].label, n, b)
  BY <1>4 DEF Marks
<1>7. Marks(t, n, b)
  BY <1>3, <1>5, <1>6 DEF Marks
<1> QED BY <1>2, <1>7

\* The next label.
LEMMA MarksHead ==
  ASSUME NEW s, NEW n, NEW b, Marks(s, n, b), NEW z \in DOMAIN Order, NEW k \in Nat, Order[z] = k, b <= k,
         NEW r, Heads(r, <<z, n>>)
  PROVE  Marks(s \o r, n, k + 1)
<1> DEFINE t == s \o r
           here == <<z, n>>
<1>1. KnownCode(s) /\ KnownCode(r) /\ Len(r) >= 1 /\ r[1].label = here /\ \A j \in 2 .. Len(r) : r[j].label = NoLabel
  BY DEF Marks, Heads
<1>2. t = s \o r /\ b \in Nat
  BY DEF Marks
<1>3. here # NoLabel /\ \A y : here = <<y, n>> => y = z
  BY DEF NoLabel
<1>4. ~Below(here, n, b) /\ Below(here, n, k + 1)
  BY <1>2, <1>3 DEF Below
<1> HIDE DEF t, here
<1>5. /\ Len(s) \in Nat /\ Len(r) \in Nat /\ Len(t) = Len(s) + Len(r) /\ KnownCode(t)
      /\ \A j \in 1 .. Len(t) : \/ j \in 1 .. Len(s) /\ t[j] = s[j]
                                \/ j > Len(s) /\ j - Len(s) \in 1 .. Len(r) /\ t[j] = r[j - Len(s)]
  <2>1. Lies(t, s, r)
    BY <1>1, <1>2, CatLines, Zenon
  <2> QED BY <2>1 DEF Lies
<1>6. ASSUME NEW j \in 1 .. Len(t)
      PROVE  \/ t[j].label = NoLabel
             \/ j \in 1 .. Len(s) /\ t[j] = s[j] /\ Below(t[j].label, n, b)
             \/ j = Len(s) + 1 /\ t[j].label = here
  <2>1. CASE j \in 1 .. Len(s) /\ t[j] = s[j]
    BY <2>1 DEF Marks
  <2>2. CASE j > Len(s) /\ j - Len(s) \in 1 .. Len(r) /\ t[j] = r[j - Len(s)]
    <3>1. CASE j - Len(s) = 1
      BY <1>1, <1>5, <2>2, <3>1
    <3>2. CASE j - Len(s) # 1
      <4>1. j - Len(s) \in 2 .. Len(r)
        BY <1>5, <2>2, <3>2
      <4> QED BY <1>1, <2>2, <4>1
    <3> QED BY <3>1, <3>2
  <2> QED BY <1>5, <2>1, <2>2
<1>7. Unique(t)
  <2>1. SUFFICES ASSUME NEW j \in 1 .. Len(t), NEW m \in 1 .. Len(t), t[j].label # NoLabel, t[j].label = t[m].label
                 PROVE  j = m
    BY DEF Unique
  <2>2. Unique(s)
    BY DEF Marks
  <2>3. \/ j \in 1 .. Len(s) /\ t[j] = s[j] /\ Below(t[j].label, n, b)
        \/ j = Len(s) + 1 /\ t[j].label = here
    BY <1>6, <2>1
  <2>4. \/ m \in 1 .. Len(s) /\ t[m] = s[m] /\ Below(t[m].label, n, b)
        \/ m = Len(s) + 1 /\ t[m].label = here
    BY <1>6, <2>1
  <2> QED BY <1>4, <2>1, <2>2, <2>3, <2>4 DEF Unique
<1>8. \A j \in 1 .. Len(t) : t[j].label = NoLabel \/ Below(t[j].label, n, k + 1)
  <2>1. \A q : Below(q, n, b) => Below(q, n, k + 1)
    <3>1. \A y \in DOMAIN Order : Order[y] \in Nat
      BY DEF Order
    <3> QED BY <1>2, <3>1 DEF Below
  <2> QED BY <1>4, <1>6, <2>1
<1>9. Marks(t, n, k + 1)
  BY <1>5, <1>7, <1>8 DEF Marks
<1> QED BY <1>2, <1>9

\* A label, and what follows it without one.
LEMMA HeadsPlain ==
  ASSUME NEW s, NEW label, Heads(s, label), NEW r, Plain(r)
  PROVE  Heads(s \o r, label)
<1> DEFINE t == s \o r
<1>1. /\ KnownCode(s) /\ KnownCode(r) /\ \A j \in 1 .. Len(r) : r[j].label = NoLabel
      /\ Len(s) >= 1 /\ s[1].label = label /\ \A j \in 2 .. Len(s) : s[j].label = NoLabel
  BY PlainLines DEF Heads
<1>2. t = s \o r
  OBVIOUS
<1> HIDE DEF t
<1>3. Lies(t, s, r)
  BY <1>1, <1>2, CatLines, Zenon
<1>4. /\ Len(s) \in Nat /\ Len(r) \in Nat /\ Len(t) = Len(s) + Len(r) /\ KnownCode(t)
      /\ \A j \in 1 .. Len(t) : \/ j \in 1 .. Len(s) /\ t[j] = s[j]
                                \/ j > Len(s) /\ j - Len(s) \in 1 .. Len(r) /\ t[j] = r[j - Len(s)]
  BY <1>3 DEF Lies
<1>5. Len(t) >= 1 /\ t[1] = s[1]
  BY <1>1, <1>4
<1>6. \A j \in 2 .. Len(t) : t[j].label = NoLabel
  BY <1>1, <1>4
<1>7. Heads(t, label)
  BY <1>1, <1>4, <1>5, <1>6 DEF Heads
<1> QED BY <1>2, <1>7

\* A label and the head of a loop.
LEMMA HeadPieces ==
  ASSUME NEW label, NEW ra, NEW rb, NEW end
  PROVE  Heads(Here(label), label) /\ Heads(While(label, ra, rb, end), label)
<1>1. Heads(Here(label), label)
  <2> DEFINE a == Mark(label)
  <2>1. a.label = label
    BY DEF Mark, Line
  <2>2. KnownCode(Here(label)) /\ Here(label) = <<a>>
    BY MarkKnown DEF Here
  <2> HIDE DEF a
  <2>3. Len(<<a>>) = 1 /\ <<a>>[1] = a
    OBVIOUS
  <2> QED BY <2>1, <2>2, <2>3 DEF Heads
<1>2. Heads(Here(label) \o Cmp(ra, rb), label)
  BY <1>1, PlainPieces, HeadsPlain
<1> DEFINE a == Here(label) \o Cmp(ra, rb)
<1>3. While(label, ra, rb, end) = a \o Goto("BRzp", end)
  BY DEF While
<1> HIDE DEF a
<1>4. Heads(a \o Goto("BRzp", end), label)
  BY <1>2, PlainPieces, HeadsPlain DEF a
<1> QED BY <1>1, <1>3, <1>4

\* Where the code of a kernel starts there is no label yet.
LEMMA MarksNone == ASSUME NEW s, Plain(s), NEW n PROVE Marks(s, n, 0)
<1>1. KnownCode(s) /\ \A j \in 1 .. Len(s) : s[j].label = NoLabel
  BY PlainLines
<1> QED BY <1>1 DEF Marks, Unique

\* The numbers of the labels.
LEMMA Ordered ==
  /\ {"neuron", "tap", "fire", "chan", "row", "pix", "row_next", "chan_next", "Lemit", "Lemit_next", "Lemit_done",
      "end"} \subseteq DOMAIN Order
  /\ Order["neuron"] = 0 /\ Order["tap"] = 1 /\ Order["fire"] = 2
  /\ Order["chan"] = 0 /\ Order["row"] = 1 /\ Order["pix"] = 2 /\ Order["row_next"] = 3 /\ Order["chan_next"] = 4
  /\ Order["Lemit"] = 0 /\ Order["Lemit_next"] = 1 /\ Order["Lemit_done"] = 2 /\ Order["end"] = 5
  BY DEF Order

\* A label behind the code before it, and a loop.
LEMMA MarksHere ==
  ASSUME NEW s, NEW n, NEW b, Marks(s, n, b), NEW z \in DOMAIN Order, NEW k \in Nat, Order[z] = k, b <= k
  PROVE  Marks(s \o Here(<<z, n>>), n, k + 1)
  BY MarksHead, HeadPieces

\* A loop is labelled at its top.
LEMMA MarksWhile ==
  ASSUME NEW s, NEW n, NEW b, Marks(s, n, b), NEW z \in DOMAIN Order, NEW k \in Nat, Order[z] = k, b <= k,
         NEW ra, NEW rb, NEW end
  PROVE  Marks(s \o While(<<z, n>>, ra, rb, end), n, k + 1)
  BY MarksHead, HeadPieces

\* The kernel of a dense layer.
LEMMA DenseMarks ==
  ASSUME NEW n, NEW l, NEW from, NEW to, NEW ws
  PROVE  Marks(GenDense(n, l, from, to, ws), n, 6)
<1> DEFINE a == Lit(0, ws) \o Lit(2, from + l.in_f) \o Lit(3, to) \o Lit(6, to + l.out_f)
<1>1. Marks(a, n, 0)
  <2>1. Plain(a)
    BY PlainPieces, PlainCat
  <2> HIDE DEF a
  <2> QED BY <2>1, MarksNone
<1> HIDE DEF a
<1> DEFINE b == a \o While(<<"neuron", n>>, 3, 6, <<"end", n>>)
<1>2. Marks(b, n, 1)
  <2>1. Marks(b, n, 0 + 1)
    BY <1>1, Ordered, MarksWhile
  <2> HIDE DEF b
  <2> QED BY <2>1
<1> HIDE DEF b
<1> DEFINE c == b \o Lit(1, from)
<1>3. Marks(c, n, 1)
  BY <1>2, PlainPieces, MarksPlain
<1> HIDE DEF c
<1> DEFINE d == c \o While(<<"tap", n>>, 1, 2, <<"fire", n>>)
<1>4. Marks(d, n, 2)
  <2>1. Marks(d, n, 1 + 1)
    BY <1>3, Ordered, MarksWhile
  <2> HIDE DEF d
  <2> QED BY <2>1
<1> HIDE DEF d
<1> DEFINE e == d \o Tap(1, 0) \o Addi(1, 1, 1) \o Addi(0, 0, 1) \o Goto("BR", <<"tap", n>>)
<1>5. Marks(e, n, 2)
  BY <1>4, PlainPieces, MarksPlain
<1> HIDE DEF e
<1> DEFINE f == e \o Here(<<"fire", n>>)
<1>6. Marks(f, n, 3)
  <2>1. Marks(f, n, 2 + 1)
    BY <1>5, Ordered, MarksHere
  <2> HIDE DEF f
  <2> QED BY <2>1
<1> HIDE DEF f
<1> DEFINE g == f \o Fire(7, l.shift) \o Goto("BR", <<"neuron", n>>)
<1>7. Marks(g, n, 3)
  BY <1>6, PlainPieces, MarksPlain
<1> HIDE DEF g
<1> DEFINE h == g \o Here(<<"end", n>>)
<1>8. Marks(h, n, 6)
  <2>1. Marks(h, n, 5 + 1)
    BY <1>7, Ordered, MarksHere
  <2> HIDE DEF h
  <2> QED BY <2>1
<1> HIDE DEF h
<1> QED BY <1>8, Zenon DEF GenDense, a, b, c, d, e, f, g, h

\* The kernel of a convolution: its taps have no labels.
LEMMA ConvMarks ==
  ASSUME NEW n, NEW l, NEW from, NEW to, NEW ws, l.k \in Nat
  PROVE  Marks(GenConv(n, l, from, to, ws), n, 6)
<1> DEFINE taps == l.k * l.k
           code == [t \in 0 .. taps - 1 |->
                      Tap(2, 6) \o (IF t = taps - 1 THEN << >> ELSE Addi(6, 6, 1) \o Addi(2, 2, Stride(t, l)))]
<1>1. taps \in Nat
  BY ProductNat
<1>2. \A t \in 0 .. taps - 1 : Plain(code[t])
  <2> HIDE DEF taps
  <2> QED BY PlainPieces, PlainNone, PlainCat
<1>3. Plain(Unrolled(taps, code))
  <2> HIDE DEF taps, code
  <2> QED BY <1>1, <1>2, UnrolledPlain
<1> HIDE DEF code, taps
<1> DEFINE p1 == Lit(0, ws) \o Lit(3, to)
<1>4. Marks(p1, n, 0)
  <2>1. Plain(p1)
    BY PlainPieces, PlainCat
  <2> HIDE DEF p1
  <2> QED BY <2>1, MarksNone
<1> HIDE DEF p1
<1> DEFINE p2 == p1 \o Here(<<"chan", n>>)
<1>5. Marks(p2, n, 1)
  <2>1. Marks(p2, n, 0 + 1)
    BY <1>4, Ordered, MarksHere
  <2> HIDE DEF p2
  <2> QED BY <2>1
<1> HIDE DEF p2
<1> DEFINE p3 == p2 \o Lit(5, to + OutLen(l)) \o Cmp(3, 5) \o Goto("BRzp", <<"end", n>>) \o Lit(1, from)
<1>6. Marks(p3, n, 1)
  BY <1>5, PlainPieces, MarksPlain
<1> HIDE DEF p3
<1> DEFINE p4 == p3 \o Here(<<"row", n>>)
<1>7. Marks(p4, n, 2)
  <2>1. Marks(p4, n, 1 + 1)
    BY <1>6, Ordered, MarksHere
  <2> HIDE DEF p4
  <2> QED BY <2>1
<1> HIDE DEF p4
<1> DEFINE p5 == p4 \o Lit(5, from + (l.h - l.k + 1) * l.w) \o Cmp(1, 5) \o Goto("BRzp", <<"chan_next", n>>)
               \o Ahead(7, 1, l.w - l.k + 1)
<1>8. Marks(p5, n, 2)
  BY <1>7, PlainPieces, MarksPlain
<1> HIDE DEF p5
<1> DEFINE p6 == p5 \o While(<<"pix", n>>, 1, 7, <<"row_next", n>>)
<1>9. Marks(p6, n, 3)
  <2>1. Marks(p6, n, 2 + 1)
    BY <1>8, Ordered, MarksWhile
  <2> HIDE DEF p6
  <2> QED BY <2>1
<1> HIDE DEF p6
<1> DEFINE p7 == p6 \o Addi(2, 1, 0) \o Addi(6, 0, 0) \o Unrolled(taps, code) \o Fire(4, l.shift) \o Addi(1, 1, 1)
               \o Goto("BR", <<"pix", n>>)
<1>10. Marks(p7, n, 3)
  BY <1>9, <1>3, PlainPieces, MarksPlain
<1> HIDE DEF p7
<1> DEFINE p8 == p7 \o Here(<<"row_next", n>>)
<1>11. Marks(p8, n, 4)
  <2>1. Marks(p8, n, 3 + 1)
    BY <1>10, Ordered, MarksHere
  <2> HIDE DEF p8
  <2> QED BY <2>1
<1> HIDE DEF p8
<1> DEFINE p9 == p8 \o Bump(1, l.k - 1, 5) \o Goto("BR", <<"row", n>>)
<1>12. Marks(p9, n, 4)
  BY <1>11, PlainPieces, MarksPlain
<1> HIDE DEF p9
<1> DEFINE p10 == p9 \o Here(<<"chan_next", n>>)
<1>13. Marks(p10, n, 5)
  <2>1. Marks(p10, n, 4 + 1)
    BY <1>12, Ordered, MarksHere
  <2> HIDE DEF p10
  <2> QED BY <2>1
<1> HIDE DEF p10
<1> DEFINE p11 == p10 \o Bump(0, taps, 5) \o Goto("BR", <<"chan", n>>)
<1>14. Marks(p11, n, 5)
  BY <1>13, PlainPieces, MarksPlain
<1> HIDE DEF p11
<1> DEFINE p12 == p11 \o Here(<<"end", n>>)
<1>15. Marks(p12, n, 6)
  <2>1. Marks(p12, n, 5 + 1)
    BY <1>14, Ordered, MarksHere
  <2> HIDE DEF p12
  <2> QED BY <2>1
<1> HIDE DEF p12
<1> QED BY <1>15, Zenon DEF GenConv, taps, code, p1, p2, p3, p4, p5, p6, p7, p8, p9, p10, p11, p12

\* The kernel of a pool.
LEMMA PoolMarks ==
  ASSUME NEW n, NEW l, NEW from, NEW to, l.k \in Nat, l.k >= 1
  PROVE  Marks(GenPool(n, l, from, to), n, 6)
<1> DEFINE code == [t \in 0 .. l.k * l.k - 2 |->
                      Addi(2, 2, Stride(t, l)) \o Ldr(5, 2) \o <<Ins("MAX", <<R(4), R(4), R(5)>>)>>]
           taps == l.k * l.k - 1
<1>1. taps \in Nat
  <2>1. l.k * l.k \in Nat /\ l.k * l.k >= l.k
    <3>1. \A a, b \in Nat : a >= 1 => a * b >= b
      OBVIOUS
    <3> QED BY <3>1, ProductNat
  <2> QED BY <2>1
<1>2. \A t \in 0 .. taps - 1 : Plain(code[t])
  <2>1. \A t : Plain(Addi(2, 2, Stride(t, l)) \o Ldr(5, 2) \o <<Ins("MAX", <<R(4), R(4), R(5)>>)>>)
    BY PlainPieces, PlainCat, Written, InsPlain
  <2>2. taps - 1 = l.k * l.k - 2
    <3>1. l.k * l.k \in Nat
      BY ProductNat
    <3> QED BY <3>1
  <2> QED BY <2>1, <2>2
<1>3. Plain(Unrolled(taps, code))
  <2> HIDE DEF taps, code
  <2> QED BY <1>1, <1>2, UnrolledPlain
<1> HIDE DEF code, taps
<1> DEFINE p1 == Lit(1, from) \o Lit(3, to) \o Lit(0, to)
<1>4. Marks(p1, n, 0)
  <2>1. Plain(p1)
    BY PlainPieces, PlainCat
  <2> HIDE DEF p1
  <2> QED BY <2>1, MarksNone
<1> HIDE DEF p1
<1> DEFINE p2 == p1 \o Here(<<"chan", n>>)
<1>5. Marks(p2, n, 1)
  <2>1. Marks(p2, n, 0 + 1)
    BY <1>4, Ordered, MarksHere
  <2> HIDE DEF p2
  <2> QED BY <2>1
<1> HIDE DEF p2
<1> DEFINE p3 == p2 \o Lit(5, to + OutLen(l)) \o Cmp(3, 5) \o Goto("BRzp", <<"end", n>>)
               \o Bump(0, (l.h \div l.k) * (l.w \div l.k), 6)
<1>6. Marks(p3, n, 1)
  BY <1>5, PlainPieces, MarksPlain
<1> HIDE DEF p3
<1> DEFINE p4 == p3 \o While(<<"row", n>>, 3, 0, <<"chan_next", n>>)
<1>7. Marks(p4, n, 2)
  <2>1. Marks(p4, n, 1 + 1)
    BY <1>6, Ordered, MarksWhile
  <2> HIDE DEF p4
  <2> QED BY <2>1
<1> HIDE DEF p4
<1> DEFINE p5 == p4 \o Ahead(7, 3, l.w \div l.k)
<1>8. Marks(p5, n, 2)
  BY <1>7, PlainPieces, MarksPlain
<1> HIDE DEF p5
<1> DEFINE p6 == p5 \o While(<<"pix", n>>, 3, 7, <<"row_next", n>>)
<1>9. Marks(p6, n, 3)
  <2>1. Marks(p6, n, 2 + 1)
    BY <1>8, Ordered, MarksWhile
  <2> HIDE DEF p6
  <2> QED BY <2>1
<1> HIDE DEF p6
<1> DEFINE p7 == p6 \o Ldr(4, 1) \o Addi(2, 1, 0) \o Unrolled(taps, code) \o Str(4, 3) \o Addi(3, 3, 1) \o Addi(1, 1, l.k)
               \o Goto("BR", <<"pix", n>>)
<1>10. Marks(p7, n, 3)
  BY <1>9, <1>3, PlainPieces, MarksPlain
<1> HIDE DEF p7
<1> DEFINE p8 == p7 \o Here(<<"row_next", n>>)
<1>11. Marks(p8, n, 4)
  <2>1. Marks(p8, n, 3 + 1)
    BY <1>10, Ordered, MarksHere
  <2> HIDE DEF p8
  <2> QED BY <2>1
<1> HIDE DEF p8
<1> DEFINE p9 == p8 \o Bump(1, l.k * (l.w - l.w \div l.k), 6) \o Goto("BR", <<"row", n>>)
<1>12. Marks(p9, n, 4)
  BY <1>11, PlainPieces, MarksPlain
<1> HIDE DEF p9
<1> DEFINE p10 == p9 \o Here(<<"chan_next", n>>)
<1>13. Marks(p10, n, 5)
  <2>1. Marks(p10, n, 4 + 1)
    BY <1>12, Ordered, MarksHere
  <2> HIDE DEF p10
  <2> QED BY <2>1
<1> HIDE DEF p10
<1> DEFINE p11 == p10 \o Bump(1, (l.h - l.k * (l.h \div l.k)) * l.w, 6) \o Goto("BR", <<"chan", n>>)
<1>14. Marks(p11, n, 5)
  BY <1>13, PlainPieces, MarksPlain
<1> HIDE DEF p11
<1> DEFINE p12 == p11 \o Here(<<"end", n>>)
<1>15. Marks(p12, n, 6)
  <2>1. Marks(p12, n, 5 + 1)
    BY <1>14, Ordered, MarksHere
  <2> HIDE DEF p12
  <2> QED BY <2>1
<1> HIDE DEF p12
<1> QED BY <1>15, Zenon DEF GenPool, taps, code, p1, p2, p3, p4, p5, p6, p7, p8, p9, p10, p11, p12

\* The epilogue.
LEMMA EpilogueMarks ==
  ASSUME NEW from, NEW n
  PROVE  Marks(Epilogue(from, n), 0, 3)
<1>1. \A a, b : Plain(<<Ins("RET", a), Ins("RET", b)>>)
  <2>1. \A a, b : <<Ins("RET", a), Ins("RET", b)>> = <<Ins("RET", a)>> \o <<Ins("RET", b)>>
    OBVIOUS
  <2> QED BY <2>1, Written, InsPlain, PlainCat
<1> DEFINE p1 == Lit(2, MMIO_TX) \o Lit(3, n + 1) \o Str(3, 2) \o Lit(0, from) \o Lit(1, from + n)
               \o Lit(4, 0) \o Lit(5, 0) \o Lit(6, 0)
<1>2. Marks(p1, 0, 0)
  <2>1. Plain(p1)
    BY PlainPieces, PlainCat
  <2> HIDE DEF p1
  <2> QED BY <2>1, MarksNone
<1> HIDE DEF p1
<1> DEFINE p2 == p1 \o While(<<"Lemit", 0>>, 0, 1, <<"Lemit_done", 0>>)
<1>3. Marks(p2, 0, 1)
  <2>1. Marks(p2, 0, 0 + 1)
    BY <1>2, Ordered, MarksWhile
  <2> HIDE DEF p2
  <2> QED BY <2>1
<1> HIDE DEF p2
<1> DEFINE p3 == p2 \o Ldr(7, 0) \o Str(7, 2) \o Cmp(7, 4) \o Goto("BRnz", <<"Lemit_next", 0>>) \o Addi(4, 7, 0) \o Addi(5, 6, 0)
<1>4. Marks(p3, 0, 1)
  BY <1>3, PlainPieces, MarksPlain
<1> HIDE DEF p3
<1> DEFINE p4 == p3 \o Here(<<"Lemit_next", 0>>)
<1>5. Marks(p4, 0, 2)
  <2>1. Marks(p4, 0, 1 + 1)
    BY <1>4, Ordered, MarksHere
  <2> HIDE DEF p4
  <2> QED BY <2>1
<1> HIDE DEF p4
<1> DEFINE p5 == p4 \o Addi(6, 6, 1) \o Addi(0, 0, 1) \o Goto("BR", <<"Lemit", 0>>)
<1>6. Marks(p5, 0, 2)
  BY <1>5, PlainPieces, MarksPlain
<1> HIDE DEF p5
<1> DEFINE p6 == p5 \o Here(<<"Lemit_done", 0>>)
<1>7. Marks(p6, 0, 3)
  <2>1. Marks(p6, 0, 2 + 1)
    BY <1>6, Ordered, MarksHere
  <2> HIDE DEF p6
  <2> QED BY <2>1
<1> HIDE DEF p6
<1> DEFINE p7 == p6 \o Str(5, 2) \o <<Ins("RET", << >>), Ins("RET", << >>)>>
<1>8. Marks(p7, 0, 3)
  BY <1>7, <1>1, PlainPieces, MarksPlain
<1> HIDE DEF p7
<1> QED BY <1>8, Zenon DEF Epilogue, p1, p2, p3, p4, p5, p6, p7

\* The kernel of any layer.
LEMMA KernelMarks ==
  ASSUME NEW n, NEW l, NEW from, NEW to, NEW ws, IsLayer(l)
  PROVE  Marks(Kernel(n, l, from, to, ws), n, 6)
<1>1. l.kind \in {"Dense", "Conv", "Pool"} /\ l.k \in Nat /\ (l.kind = "Pool" => l.k >= 1)
  BY DEF IsLayer
<1> QED BY <1>1, DenseMarks, ConvMarks, PoolMarks DEF Kernel

-----------------------------------------------------------------------------
(* A model, its plan and its code, as the run finds them.                   *)

\* What layer k is given.
Fed(k) == IF k = 1 THEN input ELSE acts[k - 1]

\* The first n layers take what comes before them, and give something.
Chain(n) ==
  \A k \in 1 .. n :
    /\ IsLayer(layers[k]) /\ (layers[k].kind = "Conv" => layers[k].k >= 1) /\ OutLen(layers[k]) >= 1
    /\ InLen(layers[k]) = IF k = 1 THEN Len(input) ELSE OutLen(layers[k - 1])

\* The image begins with the input and holds the weights of the first n layers.
Stored(n) ==
  /\ image \in Seq(Bytes) /\ Len(input) \in Nat /\ Len(input) <= Len(image)
  /\ \A a \in 1 .. Len(input) : image[a] = input[a]
  /\ \A k \in 1 .. n :
       /\ w[k] \in Nat /\ WeightsOk(layers[k]) /\ w[k] + Len(layers[k].weights) <= Len(image)
       /\ \A j \in 1 .. Len(layers[k].weights) : image[w[k] + j] = Byte(layers[k].weights[j])

\* The first n layers have been evaluated.
Evaluated(n) == \A k \in 1 .. n : acts[k] = EvalLayer(layers[k], Fed(k))

\* What the run relies on.
Relied ==
  /\ Len(layers) \in Nat \ {0} /\ Len(x) = Len(layers) + 1 /\ x[1] = 0 /\ x \in Seq(Nat)
  /\ Chain(Len(layers)) /\ Stored(Len(layers)) /\ Evaluated(Len(layers))
  /\ \A k \in 1 .. Len(layers) : Settled(k)
  /\ cursor \in Nat /\ Len(image) <= cursor /\ cursor <= AddrSize /\ Accepted

\* The kernels of the first n layers lie one after the other in the text, from its first line.
Laid(n, pos) ==
  /\ pos[1] = 1
  /\ \A k \in 1 .. n : Code(pos[k], Kernel(k, layers[k], x[k], x[k + 1], w[k]), pos[k + 1])

\* The thread that the chip starts.
Start == Chip!T!Fresh(0, Loaded)

\* A layer has the sizes of its description.
LEMMA LayerSizes ==
  ASSUME Relied, NEW k \in 1 .. Len(layers)
  PROVE  /\ InLen(layers[k]) \in Nat /\ OutLen(layers[k]) \in Nat /\ OutLen(layers[k]) >= 1
         /\ Weights(layers[k]) \in Nat /\ Weights(layers[k]) = Len(layers[k].weights)
         /\ \A j \in 1 .. Weights(layers[k]) : layers[k].weights[j] \in -128 .. 127
         /\ x[k] \in Nat /\ x[k + 1] \in Nat /\ w[k] \in Nat /\ Runnable(layers[k])
<1>1. /\ Chain(Len(layers)) /\ Stored(Len(layers)) /\ Len(layers) \in Nat /\ Len(x) = Len(layers) + 1 /\ x \in Seq(Nat)
      /\ Accepted
  BY DEF Relied
<1>2. /\ IsLayer(layers[k]) /\ (layers[k].kind = "Conv" => layers[k].k >= 1) /\ OutLen(layers[k]) >= 1
      /\ InLen(layers[k]) = IF k = 1 THEN Len(input) ELSE OutLen(layers[k - 1])
  BY <1>1 DEF Chain
<1>3. OutLen(layers[k]) \in Nat
  BY <1>2, OutLenNat
<1>4. InLen(layers[k]) \in Nat
  <2>1. CASE k = 1
    BY <1>1, <1>2, <2>1 DEF Stored
  <2>2. CASE k # 1
    <3>1. k - 1 \in 1 .. Len(layers)
      BY <1>1, <2>2
    <3>2. IsLayer(layers[k - 1])
      BY <1>1, <3>1 DEF Chain
    <3> QED BY <1>2, <2>2, <3>2, OutLenNat
  <2> QED BY <2>1, <2>2
<1>5. w[k] \in Nat /\ WeightsOk(layers[k])
  BY <1>1 DEF Stored
<1>6. /\ Weights(layers[k]) = Len(layers[k].weights)
      /\ \A j \in 1 .. Len(layers[k].weights) : layers[k].weights[j] \in -128 .. 127
  BY <1>5 DEF WeightsOk
<1>7. Len(layers[k].weights) \in Nat
  BY <1>2 DEF IsLayer
<1>8. k \in 1 .. Len(x) /\ k + 1 \in 1 .. Len(x)
  BY <1>1
<1>9. x[k] \in Nat /\ x[k + 1] \in Nat
  BY <1>1, <1>8, ElementOfSeq
<1>10. Runnable(layers[k])
  <2>1. /\ layers[k].kind # "Dense" => StepsFit(layers[k])
        /\ layers[k].kind # "Pool"  => SumFits(layers[k])
    BY <1>1 DEF Accepted
  <2> QED BY <1>2, <2>1 DEF Runnable
<1> QED BY <1>2, <1>3, <1>4, <1>5, <1>6, <1>7, <1>9, <1>10

\* Before layer k, with c at the first line and d here.
AtLayer(c, pos, k, d) ==
  /\ Goes(1, c, pos[k], d) /\ Ok(d) /\ d.acc = 0 /\ d.out = << >>
  /\ d.written = UNION {Output(j) : j \in 1 .. k - 1}
  /\ \A a \in 0 .. Len(image) - 1 : d.mem[a] = image[a + 1]
  /\ k > 1 => \A a \in 0 .. OutLen(layers[k - 1]) - 1 :
                Fed(k)[a + 1] \in Bytes /\ d.mem[x[k] + a] = Fed(k)[a + 1]

\* The first layer finds the image.
LEMMA LayerFirst ==
  ASSUME Sizes, InPlace, Relied, NEW pos, pos[1] = 1, NEW c, Ok(c), c.acc = 0, c.out = << >>, c.written = {},
         \A a \in 0 .. Len(image) - 1 : c.mem[a] = image[a + 1]
  PROVE  AtLayer(c, pos, 1, c)
<1>1. Goes(1, c, pos[1], c)
  BY GoesSelf
<1>2. UNION {Output(j) : j \in 1 .. 1 - 1} = {}
  OBVIOUS
<1> QED BY <1>1, <1>2 DEF AtLayer

\* What the layer is given lies where it should.
LEMMA LayerReady ==
  ASSUME Sizes, InPlace, Relied, NEW pos, NEW k \in 1 .. Len(layers), NEW c, NEW d, AtLayer(c, pos, k, d)
  PROVE  Ready(d, layers[k], Fed(k), x[k], x[k + 1], w[k])
<1> DEFINE l == layers[k]
           from == x[k]
           to == x[k + 1]
           ws == w[k]
<1>1. /\ InLen(l) \in Nat /\ OutLen(l) \in Nat /\ Weights(l) \in Nat /\ Weights(l) = Len(l.weights)
      /\ \A j \in 1 .. Weights(l) : l.weights[j] \in -128 .. 127
      /\ from \in Nat /\ to \in Nat /\ ws \in Nat
  BY LayerSizes
<1>2. /\ Len(image) \in Nat /\ Len(image) <= cursor /\ cursor <= AddrSize /\ cursor \in Nat /\ AddrSize \in Nat
      /\ Len(input) \in Nat /\ Len(input) <= Len(image) /\ Len(layers) \in Nat
      /\ \A a \in 1 .. Len(image) : image[a] \in Bytes
  <2>1. image \in Seq(Bytes)
    BY DEF Relied, Stored
  <2> QED BY <2>1, ElementOfSeq DEF Relied, Stored, Sizes, Words
<1>3. /\ Len(image) <= to /\ to + OutLen(l) <= cursor /\ ~(to <= MMIO_TX /\ MMIO_TX < to + OutLen(l))
      /\ \A j \in 1 .. k - 1 : x[j + 1] + OutLen(layers[j]) <= to
  BY DEF Relied, Settled, End
<1>4. /\ ws + Len(l.weights) <= Len(image)
      /\ \A j \in 1 .. Len(l.weights) : image[ws + j] = Byte(l.weights[j])
  BY DEF Relied, Stored
<1>5. /\ d.written = UNION {Output(j) : j \in 1 .. k - 1}
      /\ \A a \in 0 .. Len(image) - 1 : d.mem[a] = image[a + 1]
      /\ k > 1 => \A a \in 0 .. OutLen(layers[k - 1]) - 1 :
                    Fed(k)[a + 1] \in Bytes /\ d.mem[from + a] = Fed(k)[a + 1]
  BY DEF AtLayer
<1>6. InLen(l) = IF k = 1 THEN Len(input) ELSE OutLen(layers[k - 1])
  BY DEF Relied, Chain
<1>7. k = 1 => from = 0 /\ Fed(k) = input /\ \A a \in 1 .. Len(input) : image[a] = input[a]
  BY DEF Relied, Stored, Fed
<1>8. k # 1 => k - 1 \in 1 .. k - 1 /\ (k - 1) + 1 = k /\ k > 1
  BY <1>2
<1> HIDE DEF l, from, to, ws
<1>9. from + InLen(l) <= AddrSize /\ from + InLen(l) <= to
  <2>1. CASE k = 1
    BY <1>1, <1>2, <1>3, <1>6, <1>7, <2>1
  <2>2. CASE k # 1
    <3>1. x[(k - 1) + 1] + OutLen(layers[k - 1]) <= to
      BY <1>3, <1>8, <2>2
    <3>2. from + OutLen(layers[k - 1]) <= to
      BY <1>8, <2>2, <3>1 DEF from
    <3>3. from + InLen(l) <= to
      BY <1>6, <2>2, <3>2
    <3> QED BY <1>1, <1>2, <1>3, <3>3
  <2> QED BY <2>1, <2>2
<1>10. ASSUME NEW a \in 0 .. InLen(l) - 1
       PROVE  /\ Fed(k)[a + 1] \in Bytes /\ d.mem[from + a] = Fed(k)[a + 1] /\ Readable(d, from + a)
              /\ from + a \notin to .. to + OutLen(l) - 1
  <2>1. from + a \notin to .. to + OutLen(l) - 1
    BY <1>1, <1>9
  <2>2. CASE k = 1
    <3>1. from + a = a /\ a + 1 \in 1 .. Len(input) /\ a + 1 \in 1 .. Len(image) /\ a \in 0 .. Len(image) - 1
          /\ a < Len(image)
      BY <1>1, <1>2, <1>6, <1>7, <2>2
    <3>2. d.mem[a] = image[a + 1] /\ image[a + 1] = input[a + 1] /\ image[a + 1] \in Bytes
      BY <1>2, <1>5, <1>7, <2>2, <3>1
    <3> QED BY <1>7, <2>1, <2>2, <3>1, <3>2 DEF Readable
  <2>3. CASE k # 1
    <3>1. a \in 0 .. OutLen(layers[k - 1]) - 1
      BY <1>6, <2>3
    <3>2. Fed(k)[a + 1] \in Bytes /\ d.mem[from + a] = Fed(k)[a + 1]
      BY <1>5, <1>8, <2>3, <3>1
    <3>3. from + a \in Output(k - 1)
      <4>1. x[(k - 1) + 1] = from
        BY <1>8, <2>3 DEF from
      <4>2. from + a \in from .. from + OutLen(layers[k - 1]) - 1
        BY <1>1, <1>6, <2>3, <3>1
      <4> QED BY <4>1, <4>2 DEF Output
    <3>4. from + a \in d.written
      BY <1>5, <1>8, <2>3, <3>3
    <3> QED BY <2>1, <3>2, <3>4 DEF Readable
  <2> QED BY <2>2, <2>3
<1>11. ASSUME NEW a \in 0 .. Weights(l) - 1
       PROVE  /\ l.weights[a + 1] \in -128 .. 127 /\ d.mem[ws + a] = Byte(l.weights[a + 1]) /\ Readable(d, ws + a)
              /\ ws + a \notin to .. to + OutLen(l) - 1
  <2>1. a + 1 \in 1 .. Weights(l) /\ a + 1 \in 1 .. Len(l.weights)
    BY <1>1
  <2>2. ws + a \in 0 .. Len(image) - 1 /\ ws + a < Len(image) /\ (ws + a) + 1 = ws + (a + 1)
    <3>1. ws \in Nat /\ Len(l.weights) \in Nat /\ a \in 0 .. Len(l.weights) - 1
      BY <1>1
    <3>2. Len(image) \in Nat /\ ws + Len(l.weights) <= Len(image)
      BY <1>2, <1>4
    <3> QED BY <3>1, <3>2
  <2>3. ws + a \notin to .. to + OutLen(l) - 1
    BY <1>1, <1>2, <1>3, <2>2
  <2>4. d.mem[ws + a] = Byte(l.weights[a + 1])
    BY <1>4, <1>5, <2>1, <2>2
  <2> QED BY <1>1, <2>1, <2>2, <2>3, <2>4 DEF Readable
<1>12. ws + Weights(l) <= AddrSize /\ to + OutLen(l) <= AddrSize
  BY <1>1, <1>2, <1>3, <1>4
<1>13. MMIO_TX \notin to .. to + OutLen(l) - 1
  <2>1. MMIO_TX \in Nat
    BY DEF Sizes, Words
  <2> QED BY <1>1, <1>3, <2>1
<1>14. Ready(d, l, Fed(k), from, to, ws)
  BY <1>1, <1>9, <1>10, <1>11, <1>12, <1>13 DEF Ready
<1> QED BY <1>14 DEF l, from, to, ws

\* Layer k, run from where the layers before it have come to.
LEMMA LayerNext ==
  ASSUME Sizes, InPlace, Relied, NEW pos, NEW k \in 1 .. Len(layers), NEW c, NEW d, AtLayer(c, pos, k, d),
         Code(pos[k], Kernel(k, layers[k], x[k], x[k + 1], w[k]), pos[k + 1])
  PROVE  \E e : AtLayer(c, pos, k + 1, e)
<1> DEFINE l == layers[k]
           from == x[k]
           to == x[k + 1]
           ws == w[k]
           in == Fed(k)
           f == EvalLayer(l, in)
<1>1. /\ InLen(l) \in Nat /\ OutLen(l) \in Nat /\ Weights(l) \in Nat /\ to \in Nat /\ Runnable(l)
  BY LayerSizes
<1>2. Ready(d, l, in, from, to, ws)
  BY LayerReady, Zenon
<1>3. Computes(pos[k], pos[k + 1], l, from, to, ws)
  BY <1>1, KernelComputes, Zenon
<1>4. Goes(1, c, pos[k], d) /\ Ok(d) /\ d.acc = 0 /\ d.out = << >>
      /\ d.written = UNION {Output(j) : j \in 1 .. k - 1}
      /\ \A a \in 0 .. Len(image) - 1 : d.mem[a] = image[a + 1]
  BY DEF AtLayer
<1>5. PICK e : /\ Goes(pos[k], d, pos[k + 1], e) /\ Ok(e) /\ e.acc = 0
               /\ Filled(d, e, to, f, OutLen(l))
  BY <1>2, <1>3, <1>4, Zenon DEF Computes
<1>6. Goes(1, c, pos[k + 1], e)
  BY <1>4, <1>5, GoesTrans
<1>7. /\ k \in Nat /\ k + 1 - 1 = k /\ k + 1 # 1 /\ k \in 1 .. k /\ Len(layers) \in Nat
      /\ Fed(k + 1) = acts[k] /\ acts[k] = f
  BY DEF Relied, Evaluated, Fed
<1>8. /\ e.out = d.out /\ e.written = d.written \cup (to .. to + OutLen(l) - 1)
      /\ \A a \in 0 .. AddrSize - 1 : e.mem[a] = IF a \in to .. to + OutLen(l) - 1 THEN f[a - to + 1] ELSE d.mem[a]
  BY <1>5, Zenon DEF Filled
<1>9. /\ Len(image) \in Nat /\ Len(image) <= to /\ to + OutLen(l) <= AddrSize /\ Len(image) <= AddrSize /\ AddrSize \in Nat
  <2>1. image \in Seq(Bytes)
    BY DEF Relied, Stored
  <2>2. /\ Len(image) <= to /\ to + OutLen(l) <= cursor /\ cursor <= AddrSize /\ Len(image) <= cursor /\ cursor \in Nat
    BY DEF Relied, Settled, End
  <2> QED BY <1>1, <2>1, <2>2 DEF Sizes, Words
<1>10. e.mem \in [0 .. AddrSize - 1 -> Bytes]
  BY <1>5 DEF Ok
<1>11. to .. to + OutLen(l) - 1 = Output(k)
  BY DEF Output
<1> HIDE DEF l, from, to, ws, in, f
<1>12. e.written = UNION {Output(j) : j \in 1 .. k}
  <2>1. \A j \in 1 .. k : j \in 1 .. k - 1 \/ j = k
    BY <1>7
  <2>2. \A j \in 1 .. k - 1 : j \in 1 .. k
    BY <1>7
  <2>3. e.written = d.written \cup Output(k)
    BY <1>8, <1>11
  <2>4. d.written = UNION {Output(j) : j \in 1 .. k - 1}
    BY <1>4
  <2>5. \A z : z \in e.written <=> z \in UNION {Output(j) : j \in 1 .. k}
    BY <1>7, <2>1, <2>2, <2>3, <2>4, Zenon
  <2> QED BY <2>5
<1>13. ASSUME NEW a \in 0 .. Len(image) - 1
       PROVE  e.mem[a] = image[a + 1]
  <2>1. a \in 0 .. AddrSize - 1 /\ a \notin to .. to + OutLen(l) - 1
    BY <1>1, <1>9
  <2> QED BY <1>4, <1>8, <2>1
<1>14. ASSUME NEW a \in 0 .. OutLen(l) - 1
       PROVE  f[a + 1] \in Bytes /\ e.mem[to + a] = f[a + 1]
  <2>1. to + a \in 0 .. AddrSize - 1 /\ to + a \in to .. to + OutLen(l) - 1 /\ (to + a) - to + 1 = a + 1
    BY <1>1, <1>9
  <2>2. e.mem[to + a] = f[a + 1]
    BY <1>8, <2>1
  <2> QED BY <1>10, <2>1, <2>2
<1>15. AtLayer(c, pos, k + 1, e)
  <2>1. e.out = << >>
    BY <1>4, <1>8
  <2>2. e.written = UNION {Output(j) : j \in 1 .. (k + 1) - 1}
    BY <1>7, <1>12
  <2>3. ASSUME NEW a \in 0 .. OutLen(layers[(k + 1) - 1]) - 1
        PROVE  Fed(k + 1)[a + 1] \in Bytes /\ e.mem[x[k + 1] + a] = Fed(k + 1)[a + 1]
    <3>1. a \in 0 .. OutLen(l) - 1
      BY <1>7 DEF l
    <3> QED BY <1>7, <1>14, <3>1 DEF to
  <2> QED BY <1>5, <1>6, <1>13, <2>1, <2>2, <2>3 DEF AtLayer
<1> QED BY <1>15

\* All the layers.
LEMMA LayersAll ==
  ASSUME Sizes, InPlace, Relied, NEW pos, NEW c, AtLayer(c, pos, 1, c),
         \A k \in 1 .. Len(layers) : Code(pos[k], Kernel(k, layers[k], x[k], x[k + 1], w[k]), pos[k + 1])
  PROVE  \E e : AtLayer(c, pos, Len(layers) + 1, e)
<1> DEFINE S == {j \in 0 .. Len(layers) : \E e : AtLayer(c, pos, j + 1, e)}
           n == Len(layers)
<1>1. Len(layers) \in Nat
  BY DEF Relied
<1>2. 0 \in S
  <2>1. AtLayer(c, pos, 0 + 1, c)
    OBVIOUS
  <2>2. 0 \in 0 .. Len(layers)
    BY <1>1
  <2> QED BY <2>1, <2>2
<1>3. ASSUME NEW j \in 0 .. n - 1, j \in S PROVE j + 1 \in S
  <2>1. j + 1 \in 1 .. Len(layers) /\ j + 1 \in 0 .. Len(layers)
    BY <1>1, <1>3
  <2>2. PICK d : AtLayer(c, pos, j + 1, d)
    BY <1>3
  <2>3. Code(pos[j + 1], Kernel(j + 1, layers[j + 1], x[j + 1], x[(j + 1) + 1], w[j + 1]), pos[(j + 1) + 1])
    BY <2>1
  <2>4. \E e : AtLayer(c, pos, (j + 1) + 1, e)
    BY <2>1, <2>2, <2>3, LayerNext, Zenon
  <2> QED BY <2>1, <2>4
<1>4. n \in Nat
  BY <1>1
<1> HIDE DEF S, n
<1>5. \A j \in 0 .. n : j \in S
  <2>1. \A j \in 0 .. n - 1 : j \in S => j + 1 \in S
    BY <1>3, Zenon
  <2> QED BY <1>2, <1>4, <2>1, Climb, Zenon
<1>6. n \in S
  BY <1>4, <1>5
<1> QED BY <1>6, Zenon DEF S, n

\* What the chip starts with.
LEMMA Started ==
  ASSUME Sizes, Stored(0), Len(image) <= AddrSize
  PROVE  /\ Thread(Start) /\ Sound(Start) /\ Start.pc = 0 /\ Start.halted = FALSE
         /\ View(Start) = Shot([r \in Regs |-> 0], Loaded, 0, << >>, {}, FALSE)
         /\ Loaded \in [0 .. AddrSize - 1 -> Bytes] /\ \A a \in 0 .. Len(image) - 1 : Loaded[a] = image[a + 1]
<1>1. /\ AddrSize \in Nat /\ NumRegs = 8
  BY DEF Sizes, Words
<1>2. image \in Seq(Bytes) /\ Len(image) \in Nat
  BY DEF Stored
<1>3. Loaded \in [0 .. AddrSize - 1 -> Bytes]
  <2>1. ASSUME NEW a \in 0 .. AddrSize - 1
        PROVE  (IF a < Len(image) THEN image[a + 1] ELSE 0) \in Bytes
    <3>1. CASE a < Len(image)
      <4>1. a + 1 \in 1 .. Len(image)
        BY <1>1, <1>2, <3>1
      <4> QED BY <1>2, <3>1, <4>1, ElementOfSeq
    <3>2. CASE ~(a < Len(image))
      BY <3>2 DEF Bytes
    <3> QED BY <3>1, <3>2
  <2> QED BY <2>1, Zenon DEF Loaded
<1>4. \A a \in 0 .. Len(image) - 1 : Loaded[a] = image[a + 1]
  BY <1>1, <1>2 DEF Loaded
<1> HIDE DEF Loaded
<1>5. [r \in Regs |-> 0] \in [Regs -> Words]
  <2>1. 0 \in Words
    BY DEF Words, U16
  <2> QED BY <2>1
<1>6. /\ DOMAIN Start = {"tid", "pc", "regs", "flag", "base", "wbase", "mem", "read", "written", "out", "unit", "halted"}
      /\ Start.regs = [r \in Regs |-> 0] /\ Start.mem = Loaded /\ Start.base = 0 /\ Start.wbase = 0
      /\ Start.halted = FALSE /\ Start.flag = "none" /\ Start.out = << >> /\ Start.pc = 0
      /\ Start.read = {} /\ Start.written = {} /\ Start.unit = Chip!T!Cleared
  <2>1. 0 .. NumRegs - 1 = Regs
    BY <1>1 DEF Regs
  <2> QED BY <2>1, SMT DEF Start, Chip!T!Fresh
<1>7. "acc" \in DOMAIN Chip!T!Cleared /\ Chip!T!Cleared.acc = 0
  BY DEF Chip!T!Cleared
<1> HIDE DEF Start
<1>8. Thread(Start)
  BY <1>3, <1>5, <1>6, <1>7 DEF Thread
<1>9. Sound(Start)
  BY <1>6, <1>7, SumsAreNumbers DEF Sound
<1>10. View(Start) = Shot([r \in Regs |-> 0], Loaded, 0, << >>, {}, FALSE)
  BY <1>6, <1>7, Zenon DEF View
<1> QED BY <1>3, <1>4, <1>6, <1>8, <1>9, <1>10

\* The end that the plan promises.
Complete(u) ==
  u.halted = TRUE /\ u.out = Reply(acts[Len(layers)]) /\ u.written = UNION {Output(k) : k \in 1 .. Len(layers)}

\* The start of the first line.
LEMMA FirstRests ==
  ASSUME Sizes, InPlace, Relied, NEW pos, pos[1] = 1
  PROVE  Rests(Start, 1, View(Start)) /\ AtLayer(View(Start), pos, 1, View(Start)) /\ Ok(View(Start))
<1> DEFINE c == View(Start)
<1>1. Stored(0) /\ Len(image) <= AddrSize
  <2>1. image \in Seq(Bytes)
    BY DEF Relied, Stored
  <2>2. Len(image) <= cursor /\ cursor <= AddrSize /\ cursor \in Nat /\ AddrSize \in Nat /\ Len(image) \in Nat
    BY <2>1 DEF Relied, Sizes, Words
  <2>3. Stored(0)
    BY DEF Relied, Stored
  <2> QED BY <2>2, <2>3
<1>2. /\ Thread(Start) /\ Sound(Start) /\ Start.pc = 0
      /\ c = Shot([r \in Regs |-> 0], Loaded, 0, << >>, {}, FALSE)
      /\ Loaded \in [0 .. AddrSize - 1 -> Bytes] /\ \A a \in 0 .. Len(image) - 1 : Loaded[a] = image[a + 1]
  BY <1>1, Started
<1> HIDE DEF c
<1>3. Reached(1) % Targets = 0
  BY DEF Reached, Targets
<1>4. Rests(Start, 1, c)
  BY <1>2, <1>3 DEF Rests, c
<1>5. /\ c.regs = [r \in Regs |-> 0] /\ c.mem = Loaded /\ c.acc = 0 /\ c.out = << >> /\ c.written = {}
      /\ c.voted = FALSE
  BY <1>2 DEF Shot
<1>6. Ok(c)
  <2>1. [r \in Regs |-> 0] \in [Regs -> Words]
    BY DEF Words, U16
  <2>2. c = Shot(c.regs, c.mem, c.acc, c.out, c.written, c.voted)
    BY <1>2, <1>5
  <2>3. << >> \in Seq(Bytes) /\ 0 \in Sums
    BY SumsAreNumbers
  <2> QED BY <1>2, <1>5, <2>1, <2>2, <2>3, Zenon DEF Ok
<1>7. AtLayer(c, pos, 1, c)
  <2>2. \A a \in 0 .. Len(image) - 1 : c.mem[a] = image[a + 1]
    BY <1>2, <1>5
  <2> QED BY <1>5, <1>6, <2>2, LayerFirst
<1> QED BY <1>4, <1>6, <1>7 DEF c

\* Laid out, the kernels and the epilogue bring the thread of the chip to its end: with
\* every byte of every output stored, and the reply sent.
LEMMA Completes ==
  ASSUME Sizes, InPlace, Relied, NEW pos, Laid(Len(layers), pos),
         Code(pos[Len(layers) + 1], Epilogue(x[Len(layers) + 1], OutLen(layers[Len(layers)])), Len(source) + 1)
  PROVE  \E u : Reaches(Start, u) /\ Complete(u)
<1> DEFINE n == Len(layers)
           c == View(Start)
           f == acts[n]
           from == x[n + 1]
           len == OutLen(layers[n])
<1>1. n \in 1 .. Len(layers) /\ n \in Nat /\ n + 1 > 1 /\ (n + 1) - 1 = n /\ n + 1 # 1
  BY DEF Relied
<1>2. pos[1] = 1 /\ \A k \in 1 .. n : Code(pos[k], Kernel(k, layers[k], x[k], x[k + 1], w[k]), pos[k + 1])
  BY DEF Laid
<1>3. Rests(Start, 1, c) /\ AtLayer(c, pos, 1, c)
  BY <1>2, FirstRests
<1>4. PICK d : AtLayer(c, pos, n + 1, d)
  BY <1>2, <1>3, LayersAll, Zenon
<1>5. /\ Goes(1, c, pos[n + 1], d) /\ Ok(d) /\ d.out = << >>
      /\ d.written = UNION {Output(j) : j \in 1 .. n}
      /\ \A a \in 0 .. len - 1 : f[a + 1] \in Bytes /\ d.mem[from + a] = f[a + 1]
  BY <1>1, <1>4 DEF AtLayer, Fed
<1>6. /\ from \in Nat /\ len \in Nat /\ len >= 1
  BY <1>1, LayerSizes
<1>7. from + len <= AddrSize /\ len + 1 <= 255
  <2>1. from + len <= cursor /\ cursor <= AddrSize /\ cursor \in Nat /\ AddrSize \in Nat /\ len + 1 <= 255
    BY <1>1 DEF Relied, Settled, End, Accepted, Sizes, Words
  <2> QED BY <1>6, <2>1
<1>8. Output(n) = from .. from + len - 1
  BY DEF Output
<1>9. f = EvalLayer(layers[n], Fed(n))
  BY <1>1 DEF Relied, Evaluated
<1>10. DOMAIN f = 1 .. len /\ f = [o \in 1 .. len |-> f[o]]
  BY <1>9 DEF EvalLayer
<1>11. Code(pos[n + 1], Epilogue(from, len), Len(source) + 1)
  OBVIOUS
<1> HIDE DEF n, c, f, from, len
<1>12. ASSUME NEW o \in 1 .. len
       PROVE  f[o] \in Bytes /\ d.mem[from + o - 1] = f[o] /\ Readable(d, from + o - 1)
  <2>1. o - 1 \in 0 .. len - 1 /\ (o - 1) + 1 = o /\ from + (o - 1) = from + o - 1
        /\ from + o - 1 \in from .. from + len - 1
    BY <1>6
  <2>2. f[o] \in Bytes /\ d.mem[from + o - 1] = f[o]
    BY <1>5, <2>1
  <2>3. n \in 1 .. n
    BY <1>1
  <2>4. from + o - 1 \in d.written
    BY <1>5, <1>8, <2>1, <2>3
  <2> QED BY <2>2, <2>4 DEF Readable
<1>13. f \in Seq(Bytes) /\ Len(f) = len
  <2>1. f \in [1 .. len -> Bytes]
    BY <1>10, <1>12
  <2> QED BY <1>6, <2>1
<1>14. Scores(d, from, len, f)
  BY <1>6, <1>7, <1>12 DEF Scores
<1>15. PICK e : Stops(pos[n + 1], d, e) /\ e.out = Reply(f) /\ e.written = d.written
  BY <1>5, <1>11, <1>13, <1>14, EmitStops
<1>16. Stops(1, c, e)
  BY <1>5, <1>15, StopsThere
<1>17. PICK u : Reaches(Start, u) /\ u.halted = TRUE /\ View(u) = e
  BY <1>3, <1>16, Zenon DEF Stops
<1>18. u.out = e.out /\ u.written = e.written
  BY <1>17 DEF View, Shot
<1>19. Complete(u)
  <2>1. u.out = Reply(acts[Len(layers)])
    BY <1>15, <1>18 DEF f, n
  <2>2. u.written = UNION {Output(k) : k \in 1 .. Len(layers)}
    BY <1>5, <1>15, <1>18 DEF n
  <2> QED BY <1>17, <2>1, <2>2 DEF Complete
<1> QED BY <1>17, <1>19

-----------------------------------------------------------------------------
(* The lane of the warp is the thread, but for the pc, which is the warp's.  *)
Fields == {"tid", "pc", "regs", "flag", "base", "wbase", "mem", "read", "written", "out", "unit", "halted"}
Bare(t) == [t EXCEPT !.pc = 0]

\* Threads with the same fields but for the pc are the same lane.
LEMMA SameLane ==
  ASSUME NEW t, NEW u, DOMAIN t = Fields, DOMAIN u = Fields, \A f \in Fields \ {"pc"} : t[f] = u[f]
  PROVE  Bare(t) = Bare(u)
<1>1. Bare(t) = [f \in Fields |-> IF f = "pc" THEN 0 ELSE t[f]]
  BY DEF Bare
<1>2. Bare(u) = [f \in Fields |-> IF f = "pc" THEN 0 ELSE u[f]]
  BY DEF Bare
<1>3. \A f \in Fields : (IF f = "pc" THEN 0 ELSE t[f]) = (IF f = "pc" THEN 0 ELSE u[f])
  OBVIOUS
<1> QED BY <1>1, <1>2, <1>3

\* The lane does not know where the thread is ...
LEMMA BareFields ==
  ASSUME NEW t, DOMAIN t = Fields
  PROVE  DOMAIN Bare(t) = Fields /\ \A f \in Fields \ {"pc"} : Bare(t)[f] = t[f]
  BY DEF Bare, Fields

\* ... and an instruction that is no branch does the same to both.
LEMMA BareSteps ==
  ASSUME NEW t, DOMAIN t = Fields, NEW e, e.op \in Used \ {"BR"}
  PROVE  /\ Bare(Chip!T!Stepped(Bare(t), e)) = Bare(Chip!T!Stepped(t, e))
         /\ DOMAIN Chip!T!Stepped(t, e) = Fields
         /\ e.op # "RET" => /\ Chip!T!Stepped(t, e).pc = (t.pc + 1) % PcSize
                            /\ Chip!T!Stepped(t, e).halted = t.halted
         /\ e.op = "RET" => Chip!T!Stepped(t, e).halted = TRUE
<1> DEFINE b == Bare(t)
           u == Chip!T!Stepped(t, e)
           v == Chip!T!Stepped(b, e)
<1>1. /\ DOMAIN b = Fields /\ b.regs = t.regs /\ b.flag = t.flag /\ b.base = t.base /\ b.wbase = t.wbase
      /\ b.mem = t.mem /\ b.read = t.read /\ b.written = t.written /\ b.out = t.out /\ b.unit = t.unit
      /\ b.tid = t.tid /\ b.halted = t.halted
  BY DEF Bare, Fields
<1> HIDE DEF b
<1>2. CASE e.op \in {"MOV", "LUI", "ADDI", "ADD"}
  <2> DEFINE z == Chip!T!Value(t, e, t.regs[e.rs], t.regs[e.rt])
             y == Chip!T!Value(b, e, b.regs[e.rs], b.regs[e.rt])
  <2>1. y = z
    BY <1>1, <1>2 DEF Chip!T!Value
  <2>2. u = Chip!T!Wrote(t, e.rd, z) /\ v = Chip!T!Wrote(b, e.rd, y)
    BY <1>2 DEF Chip!T!Stepped, Chip!T!Arithmetic
  <2> HIDE DEF y, z, u, v
  <2>3. u = [t EXCEPT !.regs[e.rd] = z % WordSize, !.pc = (t.pc + 1) % PcSize]
    BY <2>2 DEF Chip!T!Wrote
  <2>4. v = [b EXCEPT !.regs[e.rd] = z % WordSize, !.pc = (b.pc + 1) % PcSize]
    BY <2>1, <2>2 DEF Chip!T!Wrote
  <2>5. DOMAIN u = Fields /\ DOMAIN v = Fields /\ \A f \in Fields \ {"pc"} : v[f] = u[f]
    BY <1>1, <2>3, <2>4 DEF Fields
  <2>6. u.pc = (t.pc + 1) % PcSize /\ u.halted = t.halted
    BY <2>3 DEF Fields
  <2>7. Bare(v) = Bare(u)
    BY <2>5, SameLane
  <2> QED BY <1>2, <2>5, <2>6, <2>7 DEF u, v, b
<1>3. CASE e.op = "CMP"
  <2>1. u = [t EXCEPT !.pc = (t.pc + 1) % PcSize,
                        !.flag = IF t.regs[e.rs] < t.regs[e.rt] THEN "N" ELSE IF t.regs[e.rs] = t.regs[e.rt] THEN "Z" ELSE "P"]
    BY <1>3 DEF Chip!T!Stepped, Chip!T!Arithmetic, Chip!T!Went, Chip!T!Wrote, Chip!T!With, Fields
  <2>2. v = [b EXCEPT !.pc = (b.pc + 1) % PcSize,
                        !.flag = IF b.regs[e.rs] < b.regs[e.rt] THEN "N" ELSE IF b.regs[e.rs] = b.regs[e.rt] THEN "Z" ELSE "P"]
    BY <1>1, <1>3 DEF Chip!T!Stepped, Chip!T!Arithmetic, Chip!T!Went, Chip!T!Wrote, Chip!T!With, Fields
  <2> HIDE DEF u, v
  <2>3. DOMAIN u = Fields /\ DOMAIN v = Fields /\ \A f \in Fields \ {"pc"} : v[f] = u[f]
    BY <1>1, <2>1, <2>2 DEF Fields
  <2>4. u.pc = (t.pc + 1) % PcSize /\ u.halted = t.halted
    BY <2>1 DEF Fields
  <2>5. Bare(v) = Bare(u)
    BY <2>3, SameLane
  <2> QED BY <1>3, <2>3, <2>4, <2>5 DEF u, v, b
<1>4. CASE e.op = "LDR"
  <2>1. u = [t EXCEPT !.regs[e.rd] = t.mem[(t.base + t.regs[e.rs]) % AddrSize] % WordSize,
                        !.pc = (t.pc + 1) % PcSize,
                        !.read = t.read \cup {(t.base + t.regs[e.rs]) % AddrSize}]
    BY <1>4 DEF Chip!T!Stepped, Chip!T!Arithmetic, Chip!T!Went, Chip!T!Wrote, Chip!T!With, Fields
  <2>2. v = [b EXCEPT !.regs[e.rd] = b.mem[(b.base + b.regs[e.rs]) % AddrSize] % WordSize,
                        !.pc = (b.pc + 1) % PcSize,
                        !.read = b.read \cup {(b.base + b.regs[e.rs]) % AddrSize}]
    BY <1>1, <1>4 DEF Chip!T!Stepped, Chip!T!Arithmetic, Chip!T!Went, Chip!T!Wrote, Chip!T!With, Fields
  <2> HIDE DEF u, v
  <2>3. DOMAIN u = Fields /\ DOMAIN v = Fields /\ \A f \in Fields \ {"pc"} : v[f] = u[f]
    BY <1>1, <2>1, <2>2 DEF Fields
  <2>4. u.pc = (t.pc + 1) % PcSize /\ u.halted = t.halted
    BY <2>1 DEF Fields
  <2>5. Bare(v) = Bare(u)
    BY <2>3, SameLane
  <2> QED BY <1>4, <2>3, <2>4, <2>5 DEF u, v, b
<1>5. CASE e.op = "STR" /\ t.regs[e.rs] = MMIO_TX
  <2>1. u = [t EXCEPT !.pc = (t.pc + 1) % PcSize,
                        !.out = Append(t.out, t.regs[e.rt] % ByteSize)]
    BY <1>5 DEF Chip!T!Stepped, Chip!T!Arithmetic, Chip!T!Went, Chip!T!Wrote, Chip!T!With, Fields
  <2>2. v = [b EXCEPT !.pc = (b.pc + 1) % PcSize,
                        !.out = Append(b.out, b.regs[e.rt] % ByteSize)]
    BY <1>1, <1>5 DEF Chip!T!Stepped, Chip!T!Arithmetic, Chip!T!Went, Chip!T!Wrote, Chip!T!With, Fields
  <2> HIDE DEF u, v
  <2>3. DOMAIN u = Fields /\ DOMAIN v = Fields /\ \A f \in Fields \ {"pc"} : v[f] = u[f]
    BY <1>1, <2>1, <2>2 DEF Fields
  <2>4. u.pc = (t.pc + 1) % PcSize /\ u.halted = t.halted
    BY <2>1 DEF Fields
  <2>5. Bare(v) = Bare(u)
    BY <2>3, SameLane
  <2> QED BY <1>5, <2>3, <2>4, <2>5 DEF u, v, b
<1>6. CASE e.op = "STR" /\ t.regs[e.rs] # MMIO_TX
  <2>1. u = [t EXCEPT !.pc = (t.pc + 1) % PcSize,
                        !.mem[(t.wbase + t.regs[e.rs]) % AddrSize] = t.regs[e.rt] % ByteSize,
                        !.written = t.written \cup {(t.wbase + t.regs[e.rs]) % AddrSize}]
    BY <1>6 DEF Chip!T!Stepped, Chip!T!Arithmetic, Chip!T!Went, Chip!T!Wrote, Chip!T!With, Fields
  <2>2. v = [b EXCEPT !.pc = (b.pc + 1) % PcSize,
                        !.mem[(b.wbase + b.regs[e.rs]) % AddrSize] = b.regs[e.rt] % ByteSize,
                        !.written = b.written \cup {(b.wbase + b.regs[e.rs]) % AddrSize}]
    BY <1>1, <1>6 DEF Chip!T!Stepped, Chip!T!Arithmetic, Chip!T!Went, Chip!T!Wrote, Chip!T!With, Fields
  <2> HIDE DEF u, v
  <2>3. DOMAIN u = Fields /\ DOMAIN v = Fields /\ \A f \in Fields \ {"pc"} : v[f] = u[f]
    BY <1>1, <2>1, <2>2 DEF Fields
  <2>4. u.pc = (t.pc + 1) % PcSize /\ u.halted = t.halted
    BY <2>1 DEF Fields
  <2>5. Bare(v) = Bare(u)
    BY <2>3, SameLane
  <2> QED BY <1>6, <2>3, <2>4, <2>5 DEF u, v, b
<1>7. CASE e.op = "FMAC"
  <2>1. u = [t EXCEPT !.pc = (t.pc + 1) % PcSize,
                        !.unit = Chip!T!FcMac(t.unit, t.regs[e.rs], t.regs[e.rt])]
    BY <1>7 DEF Chip!T!Stepped, Chip!T!Arithmetic, Chip!T!Went, Chip!T!Wrote, Chip!T!With, Fields
  <2>2. v = [b EXCEPT !.pc = (b.pc + 1) % PcSize,
                        !.unit = Chip!T!FcMac(b.unit, b.regs[e.rs], b.regs[e.rt])]
    BY <1>1, <1>7 DEF Chip!T!Stepped, Chip!T!Arithmetic, Chip!T!Went, Chip!T!Wrote, Chip!T!With, Fields
  <2> HIDE DEF u, v
  <2>3. DOMAIN u = Fields /\ DOMAIN v = Fields /\ \A f \in Fields \ {"pc"} : v[f] = u[f]
    BY <1>1, <2>1, <2>2 DEF Fields
  <2>4. u.pc = (t.pc + 1) % PcSize /\ u.halted = t.halted
    BY <2>1 DEF Fields
  <2>5. Bare(v) = Bare(u)
    BY <2>3, SameLane
  <2> QED BY <1>7, <2>3, <2>4, <2>5 DEF u, v, b
<1>8. CASE e.op = "FOUT"
  <2>1. u = [t EXCEPT !.regs[e.rd] = Chip!T!Neuron(t.unit, e.imm % 8) % WordSize,
                        !.pc = (t.pc + 1) % PcSize,
                        !.unit = Chip!T!NeuronTaken(t.unit)]
    BY <1>8 DEF Chip!T!Stepped, Chip!T!Arithmetic, Chip!T!Went, Chip!T!Wrote, Chip!T!With, Fields
  <2>2. v = [b EXCEPT !.regs[e.rd] = Chip!T!Neuron(b.unit, e.imm % 8) % WordSize,
                        !.pc = (b.pc + 1) % PcSize,
                        !.unit = Chip!T!NeuronTaken(b.unit)]
    BY <1>1, <1>8 DEF Chip!T!Stepped, Chip!T!Arithmetic, Chip!T!Went, Chip!T!Wrote, Chip!T!With, Fields
  <2> HIDE DEF u, v
  <2>3. DOMAIN u = Fields /\ DOMAIN v = Fields /\ \A f \in Fields \ {"pc"} : v[f] = u[f]
    BY <1>1, <2>1, <2>2 DEF Fields
  <2>4. u.pc = (t.pc + 1) % PcSize /\ u.halted = t.halted
    BY <2>1 DEF Fields
  <2>5. Bare(v) = Bare(u)
    BY <2>3, SameLane
  <2> QED BY <1>8, <2>3, <2>4, <2>5 DEF u, v, b
<1>9. CASE e.op = "RET"
  <2>1. u = [t EXCEPT !.halted = TRUE] /\ v = [b EXCEPT !.halted = TRUE]
    BY <1>9 DEF Chip!T!Stepped, Chip!T!Arithmetic
  <2> HIDE DEF u, v
  <2>2. DOMAIN u = Fields /\ DOMAIN v = Fields /\ \A f \in Fields \ {"pc"} : v[f] = u[f]
    BY <1>1, <2>1 DEF Fields
  <2>3. u.halted = TRUE
    BY <2>1 DEF Fields
  <2>4. Bare(v) = Bare(u)
    BY <2>2, SameLane
  <2> QED BY <1>9, <2>2, <2>3, <2>4 DEF u, v, b
<1> QED BY <1>2, <1>3, <1>4, <1>5, <1>6, <1>7, <1>8, <1>9 DEF Used

\* A branch moves the pc only.
LEMMA BareBranch ==
  ASSUME NEW t, DOMAIN t = Fields, NEW e, e.op = "BR", NEW u, u = Chip!T!Stepped(t, e)
  PROVE  /\ Bare(u) = Bare(t) /\ DOMAIN u = Fields /\ u.halted = t.halted
         /\ u.pc = IF Chip!T!FlagBit[t.flag] \in e.nzp THEN e.imm ELSE (t.pc + 1) % PcSize
<1>1. CASE Chip!T!FlagBit[t.flag] \in e.nzp
  <2>1. u = [t EXCEPT !.pc = e.imm]
    BY <1>1 DEF Chip!T!Stepped, Chip!T!Arithmetic
  <2>2. DOMAIN u = Fields /\ \A f \in Fields \ {"pc"} : u[f] = t[f]
    BY <2>1
  <2>3. Bare(u) = Bare(t)
    BY <2>2, SameLane
  <2> QED BY <1>1, <2>1, <2>2, <2>3 DEF Fields
<1>2. CASE Chip!T!FlagBit[t.flag] \notin e.nzp
  <2>1. u = [t EXCEPT !.pc = (t.pc + 1) % PcSize]
    BY <1>2 DEF Chip!T!Stepped, Chip!T!Arithmetic, Chip!T!Went
  <2>2. DOMAIN u = Fields /\ \A f \in Fields \ {"pc"} : u[f] = t[f]
    BY <2>1
  <2>3. Bare(u) = Bare(t)
    BY <2>2, SameLane
  <2> QED BY <1>2, <2>1, <2>2, <2>3 DEF Fields
<1> QED BY <1>1, <1>2

\* While the program and the data stay, the way does.
LEMMA ReachesStays ==
  UNCHANGED <<prog, image>> =>
    /\ Start' = Start
    /\ \A t, u : Reaches(t, u)' <=> Reaches(t, u)
<1> SUFFICES ASSUME UNCHANGED <<prog, image>>
             PROVE  Start' = Start /\ \A t, u : Reaches(t, u)' <=> Reaches(t, u)
  OBVIOUS
<1>1. prog' = prog /\ image' = image
  OBVIOUS
<1>2. Start' = Start
  BY <1>1 DEF Start, Loaded
<1>3. ASSUME NEW t, NEW u PROVE Reaches(t, u)' <=> Reaches(t, u)
  BY <1>1 DEF Reaches, Path, Steps, Did, Sound
<1> QED BY <1>2, <1>3

\* The warp carries the thread t, ahead of which lies the end of the run.
Carries(t) ==
  /\ DOMAIN t = Fields /\ t.halted = FALSE /\ t.pc = warp_pc /\ lanes[0] = Bare(t)
  /\ \A u : Reaches(Start, u) /\ u.halted = TRUE => Reaches(t, u)

\* The warp of one lane, on its way or at its end.
OnTheWay ==
  /\ DOMAIN lanes = {0} /\ active_mask = {0} /\ stack = << >>
  /\ warp_status = "READY" => \E t : Carries(t)
  /\ warp_status = "DONE" => \A u : Reaches(Start, u) /\ u.halted = TRUE => lanes[0] = Bare(u)

\* The program memory as the chip reads it.
Read ==
  \A p \in DOMAIN prog :
    /\ prog[p].op = IF prog[p].does.op \in {"BR", "SYNC", "RET"} THEN prog[p].does.op ELSE "OTHER"
    /\ prog[p].imm = prog[p].does.imm

\* What the lane does: the thread's instruction.
LEMMA LaneDoes ==
  ASSUME Sizes, NEW t, DOMAIN t = Fields, lanes[0] = Bare(t), active_mask = {0}, t.pc = warp_pc,
         Chip!LanesDo, prog[t.pc].does.op \in Used \ {"BR"}, NEW u, u = Did(t)
  PROVE  DOMAIN lanes' = {0} /\ lanes'[0] = Bare(u)
<1> DEFINE e == prog[t.pc].does
           v == Chip!T!Stepped(lanes[0], e)
<1>1. Chip!instr.does = e
  BY DEF Chip!instr
<1>2. u = Chip!T!Stepped(t, e)
  BY DEF Did
<1>3. Bare(v) = Bare(u) /\ DOMAIN u = Fields
  <2>1. e.op \in Used \ {"BR"}
    OBVIOUS
  <2> HIDE DEF e
  <2>2. Bare(Chip!T!Stepped(Bare(t), e)) = Bare(Chip!T!Stepped(t, e)) /\ DOMAIN Chip!T!Stepped(t, e) = Fields
    BY <2>1, BareSteps
  <2> QED BY <1>2, <2>2
<1>4. DOMAIN Chip!T!Stepped(Bare(t), e) = Fields
  BY BareFields, BareSteps
<1>5. DOMAIN v = Fields
  BY <1>4
<1>6. lanes' = [l \in {0} |-> [v EXCEPT !.pc = 0, !.unit = v.unit]]
  <2>1. Lanes = {0}
    BY DEF Sizes
  <2>2. lanes' = [l \in Lanes |->
                    [(IF l \in active_mask THEN Chip!T!Stepped(lanes[l], e) ELSE Chip!Ghost(lanes[l], e))
                       EXCEPT !.pc = 0, !.unit = Chip!T!Stepped(lanes[0], e).unit]]
    BY <1>1 DEF Chip!LanesDo
  <2> HIDE DEF e
  <2> QED BY <2>1, <2>2
<1> HIDE DEF v, e
<1>7. [v EXCEPT !.pc = 0, !.unit = v.unit] = Bare(v)
  <2>1. [v EXCEPT !.pc = 0, !.unit = v.unit] = [f \in Fields |-> IF f = "pc" THEN 0 ELSE v[f]]
    BY <1>5
  <2>2. Bare(v) = [f \in Fields |-> IF f = "pc" THEN 0 ELSE v[f]]
    BY <1>5 DEF Bare
  <2> QED BY <2>1, <2>2
<1> QED BY <1>3, <1>6, <1>7

\* A step of the warp is the next instruction of the thread, and the last one is at
\* the end.
LEMMA WarpStep ==
  ASSUME Sizes, Read, NEW w0, Reaches(Start, w0), w0.halted = TRUE, OnTheWay, Chip!Run, UNCHANGED image
  PROVE  OnTheWay'
<1>1. warp_status = "READY" /\ prog' = prog
  BY DEF Chip!Run, Chip!Execute, Chip!Split, Chip!Rejoin, Chip!Plain, Chip!Ret, Chip!Diverge, Chip!Uniform,
         Chip!SyncPop, Chip!SyncRestore, Chip!Executes
<1>2. PICK t : Carries(t)
  BY <1>1 DEF OnTheWay
<1>3. DOMAIN t = Fields /\ t.halted = FALSE /\ t.pc = warp_pc /\ lanes[0] = Bare(t)
  BY <1>2 DEF Carries
<1>4. \A u : Reaches(Start, u) /\ u.halted = TRUE => Reaches(t, u)
  BY <1>2 DEF Carries
<1>5. PICK q : q = Did(t)
  OBVIOUS
<1>6. ASSUME NEW u, Reaches(Start, u), u.halted = TRUE
      PROVE  Steps(t, q) /\ Reaches(q, u)
  <2>1. Reaches(t, u) /\ t # u
    BY <1>3, <1>4, <1>6
  <2> QED BY <1>5, <2>1, ReachNext
<1>7. t.pc \in DOMAIN prog /\ prog[t.pc].does.op \in Used
  BY <1>6 DEF Steps
<1>8. /\ Chip!instr = prog[t.pc] /\ Chip!instr.op \in {"BR", "RET", "OTHER"}
      /\ prog[t.pc].does.op \in {"BR", "RET"} => Chip!instr.op = prog[t.pc].does.op
      /\ prog[t.pc].does.op \notin {"BR", "RET"} => Chip!instr.op = "OTHER"
      /\ Chip!instr.imm = prog[t.pc].does.imm
  <2>1. Chip!instr = prog[t.pc]
    BY <1>3 DEF Chip!instr
  <2> QED BY <1>7, <2>1 DEF Read, Used
<1>9. active_mask = {0} /\ stack = << >> /\ DOMAIN lanes = {0}
  BY DEF OnTheWay
<1>10. PcSize = Targets /\ Lanes = {0}
  BY DEF Sizes
<1>11. Start' = Start /\ \A a, b : Reaches(a, b)' <=> Reaches(a, b)
  BY <1>1, ReachesStays
<1>12. CASE Chip!instr.op = "OTHER"
  <2>1. Chip!Plain /\ Chip!LanesDo
    BY <1>8, <1>12 DEF Chip!Run, Chip!Execute, Chip!Split, Chip!Rejoin, Chip!Plain, Chip!Ret, Chip!Diverge, Chip!Uniform,
         Chip!SyncPop, Chip!SyncRestore, Chip!Executes
  <2>2. prog[t.pc].does.op \in Used \ {"BR"} /\ prog[t.pc].does.op # "RET"
    BY <1>7, <1>8, <1>12
  <2>3. DOMAIN lanes' = {0} /\ lanes'[0] = Bare(q)
    BY <1>3, <1>5, <1>9, <2>1, <2>2, LaneDoes
  <2>4. DOMAIN q = Fields /\ q.pc = (t.pc + 1) % PcSize /\ q.halted = t.halted
    <3> DEFINE e == prog[t.pc].does
    <3>1. e.op \in Used \ {"BR"} /\ e.op # "RET"
      BY <2>2
    <3>2. q = Chip!T!Stepped(t, e)
      BY <1>5 DEF Did
    <3> HIDE DEF e
    <3> QED BY <1>3, <3>1, <3>2, BareSteps
  <2>5. warp_pc' = q.pc /\ active_mask' = {0} /\ stack' = << >> /\ warp_status' = "READY"
    BY <1>1, <1>3, <1>9, <2>1, <2>4 DEF Chip!Plain, Chip!NextPc
  <2>6. Carries(q)'
    BY <1>3, <1>6, <1>11, <2>3, <2>4, <2>5 DEF Carries
  <2> QED BY <2>3, <2>5, <2>6 DEF OnTheWay
<1>13. CASE Chip!instr.op = "RET"
  <2>1. Chip!Ret /\ Chip!LanesDo
    BY <1>8, <1>13 DEF Chip!Run, Chip!Execute, Chip!Split, Chip!Rejoin, Chip!Plain, Chip!Ret, Chip!Diverge, Chip!Uniform,
         Chip!SyncPop, Chip!SyncRestore, Chip!Executes
  <2>2. prog[t.pc].does.op \in Used \ {"BR"} /\ prog[t.pc].does.op = "RET"
    BY <1>7, <1>8, <1>13
  <2>3. DOMAIN lanes' = {0} /\ lanes'[0] = Bare(q)
    BY <1>3, <1>5, <1>9, <2>1, <2>2, LaneDoes
  <2>4. q.halted = TRUE
    <3> DEFINE e == prog[t.pc].does
    <3>1. e.op \in Used \ {"BR"} /\ e.op = "RET"
      BY <2>2
    <3>2. q = Chip!T!Stepped(t, e)
      BY <1>5 DEF Did
    <3> HIDE DEF e
    <3> QED BY <1>3, <3>1, <3>2, BareSteps
  <2>5. active_mask' = {0} /\ stack' = << >> /\ warp_status' = "DONE"
    BY <1>9, <2>1 DEF Chip!Ret
  <2>6. ASSUME NEW u, Reaches(Start, u), u.halted = TRUE PROVE lanes'[0] = Bare(u)
    <3>1. Reaches(q, u)
      BY <1>6, <2>6
    <3>2. q = u
      <4>1. ~Steps(q, Did(q))
        BY <2>4 DEF Steps
      <4> QED BY <3>1, <4>1, ReachNext
    <3> QED BY <2>3, <3>2
  <2> QED BY <1>11, <2>3, <2>5, <2>6 DEF OnTheWay
<1>14. CASE Chip!instr.op = "BR"
  <2>1. (Chip!Diverge(Chip!Votes) \/ Chip!Uniform(Chip!Votes)) /\ lanes' = lanes
    BY <1>8, <1>14 DEF Chip!Run, Chip!Execute, Chip!Split, Chip!Rejoin, Chip!Plain, Chip!Ret, Chip!Diverge, Chip!Uniform,
         Chip!SyncPop, Chip!SyncRestore, Chip!Executes
  <2>2. prog[t.pc].does.op = "BR"
    BY <1>8, <1>14
  <2>3. /\ Bare(q) = Bare(t) /\ DOMAIN q = Fields /\ q.halted = t.halted
        /\ q.pc = IF Chip!T!FlagBit[t.flag] \in prog[t.pc].does.nzp THEN prog[t.pc].does.imm ELSE (t.pc + 1) % PcSize
    <3> DEFINE e == prog[t.pc].does
    <3>1. e.op = "BR"
      BY <2>2
    <3>2. q = Chip!T!Stepped(t, e)
      BY <1>5 DEF Did
    <3> HIDE DEF e
    <3>3. /\ Bare(q) = Bare(t) /\ DOMAIN q = Fields /\ q.halted = t.halted
          /\ q.pc = IF Chip!T!FlagBit[t.flag] \in e.nzp THEN e.imm ELSE (t.pc + 1) % PcSize
      BY <1>3, <3>1, <3>2, BareBranch
    <3> QED BY <3>3 DEF e
  <2>4. lanes[0].flag = t.flag
    BY <1>3 DEF Bare, Fields
  <2>5. 0 \in Chip!Votes <=> Chip!T!FlagBit[t.flag] \in prog[t.pc].does.nzp
    BY <1>8, <1>10, <2>4 DEF Chip!Votes
  <2>6. Chip!Uniform(Chip!Votes)
    BY <1>9, <2>1 DEF Chip!Diverge, Chip!WantToBranch, Chip!WantToStay
  <2>7. /\ warp_pc' = IF Chip!T!FlagBit[t.flag] \in prog[t.pc].does.nzp THEN prog[t.pc].does.imm ELSE (warp_pc + 1) % PcSize
        /\ active_mask' = {0} /\ stack' = << >> /\ warp_status' = "READY"
    <3>1. Chip!WantToBranch(Chip!Votes) # {} <=> 0 \in Chip!Votes
      BY <1>9 DEF Chip!WantToBranch
    <3>2. /\ warp_pc' = IF Chip!WantToBranch(Chip!Votes) # {} THEN Chip!instr.imm ELSE Chip!NextPc
          /\ active_mask' = active_mask /\ stack' = stack /\ warp_status' = warp_status
      BY <2>6 DEF Chip!Uniform
    <3> QED BY <1>1, <1>8, <1>9, <2>5, <3>1, <3>2 DEF Chip!NextPc
  <2>8. Carries(q)'
    <3>1. lanes'[0] = Bare(q) /\ q.pc = warp_pc' /\ q.halted = FALSE
      BY <1>3, <2>1, <2>3, <2>7
    <3> QED BY <1>6, <1>11, <2>3, <3>1 DEF Carries
  <2> QED BY <1>9, <2>1, <2>7, <2>8 DEF OnTheWay
<1> QED BY <1>8, <1>12, <1>13, <1>14

\* The chip's decoder is the decoder.
LEMMA SameDecoder == \A v : Chip!Decode(v) = Decode(v)
  BY DEF Chip!Decode, Decode, Chip!BitsOf, BitsOf, Chip!Plainly, Plainly, Chip!MovVariant, MovVariant,
         Chip!FcFunction, FcFunction

\* The warp just started carries the thread just started.
LEMMA WarpStarts ==
  ASSUME Sizes, Chip!Load(words, Loaded), image' = image
  PROVE  /\ OnTheWay' /\ Read' /\ \A p \in DOMAIN prog' : prog'[p].does = Decode(words[p + 1])
         /\ DOMAIN prog' = 0 .. Len(words) - 1 /\ warp_status' = "READY"
<1>1. Lanes = {0} /\ Launched = {0}
  BY DEF Sizes
<1> DEFINE dec(p) == Chip!Decode(words[p + 1])
           cell(p) == [op |-> IF dec(p).op \in {"BR", "SYNC", "RET"} THEN dec(p).op ELSE "OTHER",
                       imm |-> dec(p).imm, does |-> dec(p)]
<1>2. prog' = [p \in 0 .. Len(words) - 1 |-> cell(p)]
  BY DEF Chip!Load
<1>3. \A p : /\ cell(p).op = IF dec(p).op \in {"BR", "SYNC", "RET"} THEN dec(p).op ELSE "OTHER"
             /\ cell(p).imm = dec(p).imm /\ cell(p).does = dec(p)
  OBVIOUS
<1>4. \A p : dec(p) = Decode(words[p + 1])
  BY SameDecoder
<1>5. /\ warp_pc' = 0 /\ stack' = << >> /\ active_mask' = Launched /\ warp_status' = "READY"
      /\ lanes' = [l \in Lanes |-> Chip!T!Fresh(l, Loaded)]
  BY DEF Chip!Load
<1> HIDE DEF cell, dec
<1>6. DOMAIN prog' = 0 .. Len(words) - 1 /\ \A p \in DOMAIN prog' : prog'[p] = cell(p)
  BY <1>2
<1>7. Read' /\ \A p \in DOMAIN prog' : prog'[p].does = Decode(words[p + 1])
  BY <1>3, <1>4, <1>6 DEF Read
<1>8. DOMAIN lanes' = {0} /\ lanes'[0] = Start
  BY <1>1, <1>5 DEF Start
<1>9. DOMAIN Start = Fields /\ Start.halted = FALSE /\ Start.pc = 0
  BY SMT DEF Start, Chip!T!Fresh, Fields
<1>10. Start' = Start
  BY DEF Start, Loaded
<1>11. PICK t : t = Start
  OBVIOUS
<1>12. t = Bare(t)
  <2>1. t = [f \in DOMAIN t |-> t[f]]
    BY <1>11 DEF Start, Chip!T!Fresh
  <2>2. Bare(t) = [f \in Fields |-> IF f = "pc" THEN 0 ELSE t[f]]
    BY <1>9, <1>11 DEF Bare
  <2>3. DOMAIN t = Fields /\ t["pc"] = 0
    BY <1>9, <1>11
  <2> QED BY <2>1, <2>2, <2>3
<1>13. Carries(t)'
  BY <1>5, <1>8, <1>9, <1>10, <1>11, <1>12 DEF Carries
<1>14. OnTheWay'
  BY <1>1, <1>5, <1>8, <1>13 DEF OnTheWay
<1> QED BY <1>5, <1>6, <1>7, <1>14

\* What is true of the lane on its way to an end that is complete.
LEMMA LaneIsSound ==
  ASSUME OnTheWay, NEW u, Reaches(Start, u), Complete(u), warp_status \in {"READY", "DONE"}
  PROVE  /\ lanes[0].written \subseteq u.written /\ lanes[0].unit.acc \in Sums
         /\ \A a \in lanes[0].read : a < Len(image) \/ a \in lanes[0].written
         /\ warp_status = "DONE" => lanes[0].written = u.written /\ lanes[0].out = u.out
<1>1. u.halted = TRUE
  BY DEF Complete
<1>2. ASSUME NEW t, Reaches(t, u), lanes[0] = Bare(t)
      PROVE  /\ lanes[0].written = t.written /\ lanes[0].read = t.read /\ lanes[0].out = t.out
             /\ lanes[0].unit = t.unit /\ t.written \subseteq u.written /\ Sound(t)
  <2>1. lanes[0].written = t.written /\ lanes[0].read = t.read /\ lanes[0].out = t.out /\ lanes[0].unit = t.unit
    BY <1>2 DEF Bare
  <2>2. t.written \subseteq u.written
    BY <1>2, ReachKeeps
  <2>3. Sound(t)
    BY <1>2, ReachNext
  <2> QED BY <2>1, <2>2, <2>3
<1>3. CASE warp_status = "READY"
  <2>1. PICK t : Carries(t)
    BY <1>3 DEF OnTheWay
  <2>2. Reaches(t, u) /\ lanes[0] = Bare(t)
    BY <1>1, <2>1 DEF Carries
  <2> QED BY <1>2, <1>3, <2>2 DEF Sound
<1>4. CASE warp_status = "DONE"
  <2>1. lanes[0] = Bare(u)
    BY <1>1, <1>4 DEF OnTheWay
  <2>2. Sound(u)
    BY DEF Reaches, Path
  <2>3. lanes[0].written = u.written /\ lanes[0].read = u.read /\ lanes[0].out = u.out /\ lanes[0].unit = u.unit
    BY <2>1 DEF Bare
  <2> QED BY <2>2, <2>3 DEF Sound
<1> QED BY <1>3, <1>4

-----------------------------------------------------------------------------
(* The text of the program as it is generated.                              *)
\* From line m on the text s is r, and k is the line behind it.
CodeIn(s, m, r, k) ==
  /\ m \in 1 .. Len(s) + 1 /\ k \in 1 .. Len(s) + 1 /\ k = m + Len(r)
  /\ \A j \in 1 .. Len(r) : s[m + j - 1] = r[j]

\* The code of layer k.
KernelOf(k) == Kernel(k, layers[k], x[k], x[k + 1], w[k])

\* The kernels of the first n layers lie one after the other in s, from its first line.
Strung(s, n, pos) ==
  /\ pos[1] = 1
  /\ \A k \in 1 .. n : CodeIn(s, pos[k], KernelOf(k), pos[k + 1])

\* The labels of s are those of the kernels in S.
Owned(s, S) ==
  /\ KnownCode(s) /\ Unique(s)
  /\ \A j \in 1 .. Len(s) : s[j].label = NoLabel \/ \E k \in S : Below(s[j].label, k, 6)

\* s is the code of the first n layers.
Generated(s, n) == Owned(s, 1 .. n) /\ \E pos : Strung(s, n, pos) /\ pos[n + 1] = Len(s) + 1

\* s is the code of the model.
Entire(s) ==
  /\ KnownCode(s) /\ Unique(s)
  /\ \E pos : /\ Strung(s, Len(layers), pos)
              /\ CodeIn(s, pos[Len(layers) + 1], Epilogue(x[Len(layers) + 1], OutLen(layers[Len(layers)])), Len(s) + 1)

\* More labels than there are.
LEMMA BelowMore ==
  ASSUME NEW label, NEW k, NEW b \in Nat, b <= 6, Below(label, k, b)
  PROVE  Below(label, k, 6)
<1>1. PICK z \in DOMAIN Order : label = <<z, k>> /\ Order[z] < b
  BY DEF Below
<1>2. \A y \in DOMAIN Order : Order[y] \in Nat
  BY DEF Order
<1>3. Order[z] \in Nat
  BY <1>2
<1>4. Order[z] < 6
  BY <1>1, <1>3
<1> QED BY <1>1, <1>4 DEF Below

\* The code of another kernel behind s.
LEMMA OwnedNext ==
  ASSUME NEW s, NEW S, Owned(s, S), NEW k, k \notin S, NEW r, NEW b \in Nat, b <= 6, Marks(r, k, b)
  PROVE  Owned(s \o r, S \cup {k})
<1>1. KnownCode(s) /\ KnownCode(r) /\ Unique(s) /\ Unique(r)
  BY DEF Owned, Marks
<1> DEFINE c == s \o r
<1>2. Lies(c, s, r)
  BY <1>1, CatLines
<1> HIDE DEF c
<1>3. /\ Len(s) \in Nat /\ Len(r) \in Nat /\ Len(c) = Len(s) + Len(r) /\ KnownCode(c)
      /\ \A j \in 1 .. Len(c) : \/ j \in 1 .. Len(s) /\ c[j] = s[j]
                                \/ j > Len(s) /\ j - Len(s) \in 1 .. Len(r) /\ c[j] = r[j - Len(s)]
  BY <1>2 DEF Lies
<1>4. \A j \in 1 .. Len(s) : s[j].label = NoLabel \/ \E o \in S : Below(s[j].label, o, 6)
  BY DEF Owned
<1>5. \A j \in 1 .. Len(r) : r[j].label = NoLabel \/ Below(r[j].label, k, 6)
  BY BelowMore DEF Marks
<1>6. ASSUME NEW j \in 1 .. Len(s), NEW m \in 1 .. Len(r), s[j].label # NoLabel, s[j].label = r[m].label
      PROVE  FALSE
  <2>1. PICK o \in S : Below(s[j].label, o, 6)
    BY <1>4, <1>6
  <2>2. Below(s[j].label, k, 6)
    BY <1>5, <1>6
  <2>3. PICK y : s[j].label = <<y, o>>
    BY <2>1 DEF Below
  <2>4. PICK z : s[j].label = <<z, k>>
    BY <2>2 DEF Below
  <2> QED BY <2>3, <2>4
<1>7. ASSUME NEW j \in 1 .. Len(c), NEW m \in 1 .. Len(c), c[j].label # NoLabel, c[j].label = c[m].label
      PROVE  j = m
  <2>1. CASE j \in 1 .. Len(s) /\ c[j] = s[j] /\ m \in 1 .. Len(s) /\ c[m] = s[m]
    BY <1>1, <1>7, <2>1 DEF Unique
  <2>2. CASE j > Len(s) /\ j - Len(s) \in 1 .. Len(r) /\ c[j] = r[j - Len(s)]
             /\ m > Len(s) /\ m - Len(s) \in 1 .. Len(r) /\ c[m] = r[m - Len(s)]
    <3>1. j - Len(s) = m - Len(s)
      BY <1>1, <1>7, <2>2 DEF Unique
    <3> QED BY <1>3, <3>1
  <2>3. CASE j \in 1 .. Len(s) /\ c[j] = s[j] /\ m - Len(s) \in 1 .. Len(r) /\ c[m] = r[m - Len(s)]
    BY <1>6, <1>7, <2>3
  <2>4. CASE j - Len(s) \in 1 .. Len(r) /\ c[j] = r[j - Len(s)] /\ m \in 1 .. Len(s) /\ c[m] = s[m]
    BY <1>6, <1>7, <2>4
  <2> QED BY <1>3, <2>1, <2>2, <2>3, <2>4
<1>8. ASSUME NEW j \in 1 .. Len(c)
      PROVE  c[j].label = NoLabel \/ \E o \in S \cup {k} : Below(c[j].label, o, 6)
  BY <1>3, <1>4, <1>5
<1>9. Owned(c, S \cup {k})
  BY <1>3, <1>7, <1>8 DEF Owned, Unique
<1> QED BY <1>9 DEF c

\* What stands in s stands in what begins with s.
LEMMA CodeStays ==
  ASSUME NEW s, NEW r, NEW c, Lies(c, s, r), NEW m, NEW q, NEW k, Len(q) \in Nat, CodeIn(s, m, q, k)
  PROVE  CodeIn(c, m, q, k)
<1>1. /\ Len(s) \in Nat /\ Len(r) \in Nat /\ Len(c) = Len(s) + Len(r)
      /\ \A j \in 1 .. Len(c) : \/ j \in 1 .. Len(s) /\ c[j] = s[j]
                                \/ j > Len(s) /\ j - Len(s) \in 1 .. Len(r) /\ c[j] = r[j - Len(s)]
  BY DEF Lies
<1>2. /\ m \in 1 .. Len(s) + 1 /\ k \in 1 .. Len(s) + 1 /\ k = m + Len(q)
      /\ \A j \in 1 .. Len(q) : s[m + j - 1] = q[j]
  BY DEF CodeIn
<1>3. m \in 1 .. Len(c) + 1 /\ k \in 1 .. Len(c) + 1
  BY <1>1, <1>2
<1>4. ASSUME NEW j \in 1 .. Len(q) PROVE c[m + j - 1] = q[j]
  <2>1. m + j - 1 \in 1 .. Len(s) /\ m + j - 1 \in 1 .. Len(c) /\ ~(m + j - 1 > Len(s))
    BY <1>1, <1>2
  <2>2. c[m + j - 1] = s[m + j - 1]
    BY <1>1, <2>1
  <2> QED BY <1>2, <2>2
<1> QED BY <1>2, <1>3, <1>4 DEF CodeIn

\* What is put behind s stands behind it.
LEMMA CodeBehind ==
  ASSUME NEW s, NEW r, NEW c, Lies(c, s, r)
  PROVE  CodeIn(c, Len(s) + 1, r, Len(c) + 1)
<1>1. /\ Len(s) \in Nat /\ Len(r) \in Nat /\ Len(c) = Len(s) + Len(r)
      /\ \A j \in 1 .. Len(c) : \/ j \in 1 .. Len(s) /\ c[j] = s[j]
                                \/ j > Len(s) /\ j - Len(s) \in 1 .. Len(r) /\ c[j] = r[j - Len(s)]
  BY DEF Lies
<1>2. Len(s) + 1 \in 1 .. Len(c) + 1 /\ Len(c) + 1 \in 1 .. Len(c) + 1 /\ Len(c) + 1 = (Len(s) + 1) + Len(r)
  BY <1>1
<1>3. ASSUME NEW j \in 1 .. Len(r) PROVE c[(Len(s) + 1) + j - 1] = r[j]
  <2>1. (Len(s) + 1) + j - 1 \in 1 .. Len(c) /\ (Len(s) + 1) + j - 1 \notin 1 .. Len(s)
        /\ ((Len(s) + 1) + j - 1) - Len(s) = j
    BY <1>1
  <2> QED BY <1>1, <2>1
<1> QED BY <1>2, <1>3 DEF CodeIn

\* Nothing is generated yet.
LEMMA GeneratedNone == Generated(<< >>, 0)
<1>1. KnownCode(<< >>)
  BY KnownNone
<1>2. Owned(<< >>, 1 .. 0)
  BY <1>1 DEF Owned, Unique
<1> DEFINE pos == [j \in {1} |-> 1]
<1>3. pos[1] = 1 /\ pos[0 + 1] = Len(<< >>) + 1
  OBVIOUS
<1> HIDE DEF pos
<1>4. Strung(<< >>, 0, pos)
  BY <1>3 DEF Strung
<1> QED BY <1>2, <1>3, <1>4 DEF Generated

\* What the kernels are behind, they are with more behind them.
LEMMA WrittenStays ==
  ASSUME NEW s, NEW r, NEW c, Lies(c, s, r), NEW n \in Nat, NEW pos, Strung(s, n, pos),
         \A k \in 1 .. n : IsLayer(layers[k])
  PROVE  Strung(c, n, pos)
<1>1. pos[1] = 1
  BY DEF Strung
<1>2. ASSUME NEW k \in 1 .. n PROVE CodeIn(c, pos[k], KernelOf(k), pos[k + 1])
  <2>1. CodeIn(s, pos[k], KernelOf(k), pos[k + 1])
    BY DEF Strung
  <2>2. KnownCode(KernelOf(k))
    BY KernelKnown DEF KernelOf
  <2>3. Len(KernelOf(k)) \in Nat
    BY <2>2, KnownLines
  <2> QED BY <2>1, <2>3, CodeStays
<1> QED BY <1>1, <1>2 DEF Strung

\* The kernel of the next layer.
LEMMA GeneratedNext ==
  ASSUME NEW s, NEW n \in Nat, Generated(s, n), \A k \in 1 .. n + 1 : IsLayer(layers[k])
  PROVE  Generated(s \o KernelOf(n + 1), n + 1)
<1> DEFINE r == KernelOf(n + 1)
           c == s \o r
<1>1. PICK pos : Strung(s, n, pos) /\ pos[n + 1] = Len(s) + 1
  BY DEF Generated
<1>2. Owned(s, 1 .. n) /\ KnownCode(s)
  BY DEF Generated, Owned
<1>3. n + 1 \in 1 .. n + 1 /\ n + 1 \notin 1 .. n /\ (1 .. n) \cup {n + 1} = 1 .. n + 1
      /\ \A k \in 1 .. n : k \in 1 .. n + 1 /\ k # n + 2 /\ k + 1 # n + 2
  OBVIOUS
<1>4. Marks(r, n + 1, 6)
  BY <1>3, KernelMarks DEF KernelOf
<1>5. KnownCode(r)
  BY <1>4 DEF Marks
<1>6. Lies(c, s, r)
  BY <1>2, <1>5, CatLines
<1>7. Owned(c, 1 .. n + 1)
  <2> HIDE DEF r
  <2>1. Owned(s \o r, (1 .. n) \cup {n + 1})
    BY <1>2, <1>3, <1>4, OwnedNext
  <2> QED BY <1>3, <2>1
<1> DEFINE p == [j \in 1 .. n + 2 |-> IF j = n + 2 THEN Len(c) + 1 ELSE pos[j]]
<1>8. \A k \in 1 .. n : IsLayer(layers[k])
  BY <1>3
<1> HIDE DEF r, c
<1>9. p[n + 1] = pos[n + 1] /\ p[(n + 1) + 1] = Len(c) + 1 /\ p[1] = pos[1]
      /\ \A k \in 1 .. n : p[k] = pos[k] /\ p[k + 1] = pos[k + 1]
  OBVIOUS
<1> HIDE DEF p
<1>10. Strung(c, n, pos)
  BY <1>1, <1>6, <1>8, WrittenStays
<1>11. CodeIn(c, pos[n + 1], r, Len(c) + 1)
  BY <1>1, <1>6, CodeBehind
<1>12. Strung(c, n + 1, p)
  <2>1. p[1] = 1
    BY <1>9, <1>10 DEF Strung
  <2>2. ASSUME NEW k \in 1 .. n + 1 PROVE CodeIn(c, p[k], KernelOf(k), p[k + 1])
    <3>1. CASE k \in 1 .. n
      BY <1>9, <1>10, <3>1 DEF Strung
    <3>2. CASE k = n + 1
      BY <1>9, <1>11, <3>2 DEF r
    <3> QED BY <3>1, <3>2
  <2> QED BY <2>1, <2>2 DEF Strung
<1>13. Generated(c, n + 1)
  BY <1>7, <1>9, <1>12 DEF Generated
<1> QED BY <1>13 DEF c, r

\* The epilogue behind all the kernels.
LEMMA EntireText ==
  ASSUME NEW s, NEW n \in Nat, n = Len(layers), Generated(s, n), \A k \in 1 .. n : IsLayer(layers[k])
  PROVE  Entire(s \o Epilogue(x[n + 1], OutLen(layers[n])))
<1> DEFINE r == Epilogue(x[n + 1], OutLen(layers[n]))
           c == s \o r
<1>1. PICK pos : Strung(s, n, pos) /\ pos[n + 1] = Len(s) + 1
  BY DEF Generated
<1>2. Owned(s, 1 .. n) /\ KnownCode(s)
  BY DEF Generated, Owned
<1>3. Marks(r, 0, 3) /\ 0 \notin 1 .. n
  BY EpilogueMarks
<1>4. KnownCode(r)
  BY <1>3 DEF Marks
<1>5. Lies(c, s, r)
  BY <1>2, <1>4, CatLines
<1> HIDE DEF r
<1>6. Owned(c, (1 .. n) \cup {0})
  BY <1>2, <1>3, OwnedNext
<1> HIDE DEF c
<1>7. Strung(c, n, pos)
  BY <1>1, <1>5, WrittenStays
<1>8. CodeIn(c, pos[n + 1], r, Len(c) + 1)
  BY <1>1, <1>5, CodeBehind
<1>9. KnownCode(c) /\ Unique(c)
  BY <1>6 DEF Owned
<1>10. Entire(c)
  BY <1>7, <1>8, <1>9 DEF Entire, r
<1> QED BY <1>10 DEF c, r

\* Where the assembler has the code of the model, the run finds it.
LEMMA FoundAs ==
  ASSUME Entire(source)
  PROVE  \E pos : /\ Laid(Len(layers), pos)
                  /\ Code(pos[Len(layers) + 1], Epilogue(x[Len(layers) + 1], OutLen(layers[Len(layers)])), Len(source) + 1)
<1>1. \A m, r, k : Code(m, r, k) <=> CodeIn(source, m, r, k)
  BY DEF Code, CodeIn
<1>2. PICK pos : /\ Strung(source, Len(layers), pos)
                 /\ CodeIn(source, pos[Len(layers) + 1], Epilogue(x[Len(layers) + 1], OutLen(layers[Len(layers)])), Len(source) + 1)
  BY DEF Entire
<1>3. Laid(Len(layers), pos)
  BY <1>1, <1>2 DEF Laid, Strung, KernelOf
<1> QED BY <1>1, <1>2, <1>3

\* The assembler's text, its words and the program memory belong together.
LEMMA IsInPlace ==
  ASSUME Sizes, AtWork, phase = "done", Unique(source), DOMAIN prog = 0 .. Len(words) - 1,
         \A p \in DOMAIN prog : prog[p].does = Decode(words[p + 1])
  PROVE  InPlace
<1>1. /\ Len(source) \in Nat /\ DOMAIN source = 1 .. Len(source)
      /\ \A k \in DOMAIN source : source[k].op \in Known \cup {""}
  BY KnownLines DEF AtWork, Coded
<1>2. AllKnown
  BY <1>1 DEF AllKnown
<1>3. /\ Typed /\ Addressed /\ Len(starts) = Len(source) /\ LabelsNamed(Len(source)) /\ LinesWritten(Len(source))
      /\ Len(words) = Reached(Len(source) + 1)
  BY <1>2 DEF AtWork, IInv, SecondPass
<1>4. Len(words) <= Targets
  <2>1. Len(words) = WordsOf(source) /\ WordsOf(source) <= ROM_WORDS
    BY Counts DEF AtWork
  <2>2. ROM_WORDS <= Targets /\ ROM_WORDS \in Nat /\ Targets \in Nat
    BY RomAssumption DEF Sizes, Targets
  <2>3. Len(words) \in Nat
    BY <1>3 DEF Typed
  <2> QED BY <2>1, <2>2, <2>3
<1>5. \A j, m \in DOMAIN source : source[j].label # NoLabel /\ source[j].label = source[m].label => j = m
  BY <1>1 DEF Unique
<1> QED BY <1>3, <1>4, <1>5 DEF InPlace

-----------------------------------------------------------------------------
(* The volume of a shape.                                                   *)
\* What folding computes on the way.
Folded(dims, g) ==
  g = [s \in SUBSET (DOMAIN dims) |-> IF s = {} THEN 1 ELSE g[s \ {Max(s)}] * dims[Max(s)]]

\* If it can be computed it is what is computed.
LEMMA VolumeFolds ==
  ASSUME NEW dims, NEW h, Folded(dims, h)
  PROVE  \E g : Folded(dims, g) /\ Volume(dims) = g[DOMAIN dims]
<1> DEFINE Like(g) == [s \in SUBSET (DOMAIN dims) |-> IF s = {} THEN 1 ELSE g[s \ {Max(s)}] * dims[Max(s)]]
<1>1. \E g : Volume(dims) = g[DOMAIN dims] /\ ((\E f : f = Like(f)) => g = Like(g))
  BY DEF Volume, FoldLeft, MapThenFoldSet
<1>2. h = Like(h)
  BY DEF Folded
<1>3. \A g : Folded(dims, g) <=> g = Like(g)
  BY DEF Folded
<1> HIDE DEF Like
<1> QED BY <1>1, <1>2, <1>3

\* One side.
LEMMA VolumeOne ==
  ASSUME NEW dims, DOMAIN dims = 1 .. 1, dims[1] \in Nat
  PROVE  Volume(dims) = dims[1]
<1> DEFINE h == [s \in SUBSET (DOMAIN dims) |-> IF s = {} THEN 1 ELSE dims[1]]
<1>1. \A s \in SUBSET (DOMAIN dims) : s # {} => s = {1} /\ Max(s) = 1 /\ s \ {Max(s)} = {}
  <2> SUFFICES ASSUME NEW s \in SUBSET (DOMAIN dims), s # {} PROVE s = {1} /\ Max(s) = 1 /\ s \ {Max(s)} = {}
    OBVIOUS
  <2>1. s = {1}
    OBVIOUS
  <2>2. Max(s) = 1
    BY <2>1, MaxIs
  <2> QED BY <2>1, <2>2
<1>2. 1 * dims[1] = dims[1] /\ {} \in SUBSET (DOMAIN dims) /\ DOMAIN dims \in SUBSET (DOMAIN dims) /\ DOMAIN dims # {}
  OBVIOUS
<1>3. Folded(dims, h)
  <2>1. \A s \in SUBSET (DOMAIN dims) : (IF s = {} THEN 1 ELSE dims[1]) = (IF s = {} THEN 1 ELSE h[s \ {Max(s)}] * dims[Max(s)])
    BY <1>1, <1>2
  <2> QED BY <2>1 DEF Folded
<1>4. PICK g : Folded(dims, g) /\ Volume(dims) = g[DOMAIN dims]
  BY <1>3, VolumeFolds
<1>5. g[{}] = 1
  BY <1>2, <1>4 DEF Folded
<1>6. g[DOMAIN dims] = g[(DOMAIN dims) \ {Max(DOMAIN dims)}] * dims[Max(DOMAIN dims)]
  BY <1>2, <1>4 DEF Folded
<1>7. g[DOMAIN dims] = 1 * dims[1]
  BY <1>1, <1>2, <1>5, <1>6
<1> QED BY <1>2, <1>4, <1>7

\* The largest of some of three.
LEMMA MaxOfThree ==
  ASSUME NEW s, s \subseteq 1 .. 3, s # {}
  PROVE  Max(s) \in s /\ \A k \in s : k <= Max(s)
<1>1. PICK m \in s : \A k \in s : k <= m
  <2>1. CASE 3 \in s
    <3>1. \A k \in s : k <= 3
      OBVIOUS
    <3> QED BY <2>1, <3>1
  <2>2. CASE 3 \notin s /\ 2 \in s
    <3>1. \A k \in s : k <= 2
      BY <2>2
    <3> QED BY <2>2, <3>1
  <2>3. CASE 3 \notin s /\ 2 \notin s
    <3>1. \A y \in s : y = 1
      BY <2>3
    <3>0. PICK k : k \in s
      OBVIOUS
    <3>2. 1 \in s /\ 1 <= 1
      BY <3>0, <3>1
    <3> QED BY <3>1, <3>2
  <2> QED BY <2>1, <2>2, <2>3
<1>2. Max(s) = m
  <2>1. s \subseteq Nat
    OBVIOUS
  <2> QED BY <1>1, <2>1, MaxIs
<1> QED BY <1>1, <1>2

\* Three sides.
LEMMA VolumeThree ==
  ASSUME NEW dims, DOMAIN dims = 1 .. 3, NEW a \in Nat, NEW b \in Nat, NEW c \in Nat,
         dims[1] = a, dims[2] = b, dims[3] = c
  PROVE  Volume(dims) = (a * b) * c
<1> DEFINE P(s) == IF 1 \in s THEN a ELSE 1
           Q(s) == IF 2 \in s THEN b ELSE 1
           T(s) == IF 3 \in s THEN c ELSE 1
           h == [s \in SUBSET (DOMAIN dims) |-> (P(s) * Q(s)) * T(s)]
<1>1. \A p, q \in Nat : p * q \in Nat
  BY ProductNat
<1>2. \A p \in Nat : p * 1 = p /\ 1 * p = p
  OBVIOUS
<1>3. \A s : P(s) \in Nat /\ Q(s) \in Nat /\ T(s) \in Nat
  OBVIOUS
<1>4. ASSUME NEW s \in SUBSET (DOMAIN dims), s # {}
      PROVE  h[s] = h[s \ {Max(s)}] * dims[Max(s)]
  <2> DEFINE m == Max(s)
             r == s \ {m}
  <2>1. s \subseteq 1 .. 3 /\ m \in s /\ \A k \in s : k <= m
    BY <1>4, MaxOfThree
  <2>2. r \in SUBSET (DOMAIN dims)
    OBVIOUS
  <2>3. h[s] = (P(s) * Q(s)) * T(s) /\ h[r] = (P(r) * Q(r)) * T(r)
    BY <2>2
  <2>4. CASE m = 3
    <3>1. T(s) = c /\ T(r) = 1 /\ P(r) = P(s) /\ Q(r) = Q(s) /\ dims[m] = c
      BY <2>1, <2>4
    <3> HIDE DEF m, r, P, Q, T, h
    <3> DEFINE z == P(s) * Q(s)
    <3>2. z \in Nat /\ h[s] = z * T(s) /\ h[r] = z * T(r)
      BY <1>1, <1>3, <2>3, <3>1
    <3> HIDE DEF z
    <3>3. h[s] = h[r] * dims[m]
      BY <1>2, <3>1, <3>2
    <3> QED BY <3>3 DEF m, r
  <2>5. CASE m = 2
    <3>1. T(s) = 1 /\ T(r) = 1 /\ P(r) = P(s) /\ Q(r) = 1 /\ Q(s) = b /\ dims[m] = b
      BY <2>1, <2>5
    <3> HIDE DEF m, r, P, Q, T, h
    <3>2. P(s) * b \in Nat /\ P(s) \in Nat
      BY <1>1, <1>3
    <3>3. h[s] = P(s) * b /\ h[r] = P(s)
      BY <1>2, <2>3, <3>1, <3>2
    <3>4. h[s] = h[r] * dims[m]
      BY <3>1, <3>3
    <3> QED BY <3>4 DEF m, r
  <2>6. CASE m = 1
    <3>1. T(s) = 1 /\ T(r) = 1 /\ P(r) = 1 /\ Q(r) = 1 /\ Q(s) = 1 /\ P(s) = a /\ dims[m] = a
      BY <2>1, <2>6
    <3> HIDE DEF m, r, P, Q, T, h
    <3>2. 1 \in Nat
      OBVIOUS
    <3>3. h[s] = a /\ h[r] = 1
      BY <1>2, <2>3, <3>1, <3>2
    <3>4. h[s] = h[r] * dims[m]
      BY <1>2, <3>1, <3>3
    <3> QED BY <3>4 DEF m, r
  <2> HIDE DEF m
  <2> QED BY <2>1, <2>4, <2>5, <2>6
<1>5. h[{}] = 1
  <2>1. {} \in SUBSET (DOMAIN dims) /\ P({}) = 1 /\ Q({}) = 1 /\ T({}) = 1
    OBVIOUS
  <2>2. h[{}] = (P({}) * Q({})) * T({})
    BY <2>1
  <2> QED BY <2>1, <2>2
<1>6. h = [s \in SUBSET (DOMAIN dims) |-> h[s]]
  OBVIOUS
<1> HIDE DEF h, P, Q, T
<1>7. Folded(dims, h)
  <2>1. \A s \in SUBSET (DOMAIN dims) : h[s] = (IF s = {} THEN 1 ELSE h[s \ {Max(s)}] * dims[Max(s)])
    BY <1>4, <1>5
  <2> DEFINE F(s) == IF s = {} THEN 1 ELSE h[s \ {Max(s)}] * dims[Max(s)]
  <2>2. \A s \in SUBSET (DOMAIN dims) : h[s] = F(s)
    BY <2>1
  <2> HIDE DEF F
  <2>3. h = [s \in SUBSET (DOMAIN dims) |-> F(s)]
    BY <1>6, <2>2
  <2> QED BY <2>3 DEF Folded, F
<1>8. PICK g : Folded(dims, g) /\ Volume(dims) = g[DOMAIN dims]
  BY <1>7, VolumeFolds
<1>9. g[{}] = 1 /\ \A s \in SUBSET (DOMAIN dims) : s # {} => g[s] = g[s \ {Max(s)}] * dims[Max(s)]
  <2>1. {} \in SUBSET (DOMAIN dims)
    OBVIOUS
  <2> QED BY <1>8, <2>1 DEF Folded
<1>10. /\ {1} \in SUBSET (DOMAIN dims) /\ {1, 2} \in SUBSET (DOMAIN dims) /\ {1, 2, 3} \in SUBSET (DOMAIN dims)
       /\ DOMAIN dims = {1, 2, 3} /\ {1} \ {1} = {} /\ {1, 2} \ {2} = {1} /\ {1, 2, 3} \ {3} = {1, 2}
       /\ {1} # {} /\ {1, 2} # {} /\ {1, 2, 3} # {}
  OBVIOUS
<1>11. Max({1}) = 1 /\ Max({1, 2}) = 2 /\ Max({1, 2, 3}) = 3
  <2>1. {1} \subseteq Nat /\ {1, 2} \subseteq Nat /\ {1, 2, 3} \subseteq Nat
        /\ (\A k \in {1} : k <= 1) /\ (\A k \in {1, 2} : k <= 2) /\ (\A k \in {1, 2, 3} : k <= 3)
    OBVIOUS
  <2>2. Max({1}) = 1
    BY <2>1, MaxIs
  <2>3. Max({1, 2}) = 2
    BY <2>1, MaxIs
  <2>4. Max({1, 2, 3}) = 3
    BY <2>1, MaxIs
  <2> QED BY <2>2, <2>3, <2>4
<1>12. g[{1}] = 1 * a
  <2>1. g[{1}] = g[{1} \ {Max({1})}] * dims[Max({1})]
    BY <1>9, <1>10
  <2> QED BY <1>9, <1>10, <1>11, <2>1
<1>13. g[{1, 2}] = g[{1}] * b
  BY <1>9, <1>10, <1>11
<1>14. g[{1, 2, 3}] = g[{1, 2}] * c
  BY <1>9, <1>10, <1>11
<1>15. g[{1}] = a
  BY <1>2, <1>12
<1> QED BY <1>8, <1>10, <1>13, <1>14, <1>15, Zenon

-----------------------------------------------------------------------------
(* Every layer takes what the one before it gives.                          *)

\* What the last layer gives, or the file.
Flow == IF layers = << >> THEN Len(input) ELSE OutLen(layers[Len(layers)])

\* While the graph is lowered, what flows has the shape that lower keeps.
FlowInv ==
  /\ budget <= AddrSize
  /\ step = "open" => layers = << >>
  /\ step = "lower" => /\ shape \in Seq(Nat) /\ Volume(shape) = Flow
                       /\ Len(shape) = 3 => shape[1] >= 1 /\ shape[2] >= 1 /\ shape[3] >= 1
  /\ Chain(Len(layers))
  /\ step \notin {"open", "lower", "rejected"} => layers # << >>

\* What flows is a number.
LEMMA FlowNat ==
  ASSUME IsModel(input, budget, layers), \E S : layers \in Seq(S)
  PROVE  Flow \in Nat /\ (layers = << >> <=> Len(layers) = 0)
<1>1. /\ Len(layers) \in Nat /\ (layers = << >> <=> Len(layers) = 0)
      /\ Len(input) \in Nat /\ \A k \in 1 .. Len(layers) : IsLayer(layers[k])
  BY DEF IsModel
<1>2. CASE layers = << >>
  BY <1>1, <1>2 DEF Flow
<1>3. CASE layers # << >>
  <2>1. Len(layers) \in 1 .. Len(layers)
    BY <1>1, <1>3
  <2> QED BY <1>1, <1>3, <2>1, OutLenNat DEF Flow
<1> QED BY <1>1, <1>2, <1>3

\* A layer that takes what flows.
LEMMA ChainNext ==
  ASSUME IsModel(input, budget, layers), \E S : layers \in Seq(S), Chain(Len(layers)),
         NEW layer, IsLayer(layer), layer.kind = "Conv" => layer.k >= 1, OutLen(layer) >= 1, InLen(layer) = Flow,
         layers' = Append(layers, layer), input' = input
  PROVE  Chain(Len(layers))' /\ Flow' = OutLen(layer) /\ layers' # << >>
<1> DEFINE n == Len(layers)
<1>1. n \in Nat /\ (layers = << >> <=> n = 0)
  BY FlowNat DEF IsModel
<1>2. /\ Len(layers') = n + 1 /\ layers'[n + 1] = layer /\ layers' # << >>
      /\ \A k \in 1 .. n : layers'[k] = layers[k]
  OBVIOUS
<1>3. \A k \in 1 .. n : k # 1 => k - 1 \in 1 .. n
  BY <1>1
<1>4. Flow = IF n = 0 THEN Len(input) ELSE OutLen(layers[n])
  BY <1>1 DEF Flow
<1>5. \A k \in 1 .. n :
         /\ IsLayer(layers[k]) /\ (layers[k].kind = "Conv" => layers[k].k >= 1) /\ OutLen(layers[k]) >= 1
         /\ InLen(layers[k]) = IF k = 1 THEN Len(input) ELSE OutLen(layers[k - 1])
  BY DEF Chain
<1> HIDE DEF n
<1>6. ASSUME NEW k \in 1 .. n + 1
      PROVE  /\ IsLayer(layers'[k]) /\ (layers'[k].kind = "Conv" => layers'[k].k >= 1) /\ OutLen(layers'[k]) >= 1
             /\ InLen(layers'[k]) = IF k = 1 THEN Len(input) ELSE OutLen(layers'[k - 1])
  <2>1. CASE k \in 1 .. n
    BY <1>2, <1>3, <1>5, <2>1
  <2>2. CASE k = n + 1
    <3>1. CASE n = 0
      BY <1>2, <1>4, <2>2, <3>1
    <3>2. CASE n # 0
      <4>1. k # 1 /\ k - 1 = n /\ n \in 1 .. n
        BY <1>1, <2>2, <3>2
      <4> QED BY <1>2, <1>4, <2>2, <3>2, <4>1
    <3> QED BY <3>1, <3>2
  <2>3. k \in 1 .. n \/ k = n + 1
    BY <1>1
  <2> QED BY <2>1, <2>2, <2>3
<1>7. Chain(Len(layers))'
  BY <1>2, <1>6 DEF Chain
<1>8. Flow' = OutLen(layer)
  BY <1>2 DEF Flow
<1> QED BY <1>2, <1>7, <1>8

\* Areas and volumes.
LEMMA Areas ==
  /\ \A a, b, c \in Nat : (a * b) * c = a * (b * c)
  /\ \A a, b \in Nat : a >= 1 /\ b >= 1 => a * b >= 1 /\ a * b \in Nat
  /\ \A a, b \in Nat : b >= 1 /\ a >= b => a \div b \in Nat /\ a \div b >= 1
<1>1. \A a, b, c \in Nat : (a * b) * c = a * (b * c)
  OBVIOUS
<1>2. ASSUME NEW a \in Nat, NEW b \in Nat, a >= 1, b >= 1 PROVE a * b >= 1 /\ a * b \in Nat
  <2>1. 0 * b = 0 /\ 0 * b + b <= a * b /\ a * b \in Nat
    BY <1>2, Rows
  <2> QED BY <1>2, <2>1
<1>3. \A a, b \in Nat : b >= 1 /\ a >= b => a \div b \in Nat /\ a \div b >= 1
  OBVIOUS
<1> QED BY <1>1, <1>2, <1>3

\* The sides of a tensor of a file.
LEMMA SidesAre ==
  ASSUME NoEmpty, graph \in Graphs, NEW t \in DOMAIN graph.tensors, NEW d \in 1 .. Len(graph.tensors[t].shape),
         graph.tensors[t].shape \in Seq(Nat)
  PROVE  graph.tensors[t].shape[d] \in Nat /\ graph.tensors[t].shape[d] >= 1
  BY ElementOfSeq DEF NoEmpty

\* The sides of the weights of a node.
LEMMA WeightSides ==
  ASSUME NoEmpty, graph \in Graphs, i \in Nat \ {0}, NEW dims \in Nat, Weighted(dims), NEW d \in 1 .. dims
  PROVE  weight.shape[d] \in Nat /\ weight.shape[d] >= 1
<1>1. weight.shape \in Seq(Nat) /\ Len(weight.shape) = dims
  BY WeightTyped
<1>2. node.inputs[2] \in DOMAIN graph.tensors
  BY DEF Weighted, Data, None
<1> QED BY <1>1, <1>2, SidesAre DEF weight

\* A node that becomes a layer.
LEMMA BecomesFlows ==
  ASSUME LowerInv, FlowInv, step = "lower", NEW layer, NEW dims \in Seq(Nat), NEW relu, Becomes(layer, dims, relu),
         IsLayer(layer), layer.kind = "Conv" => layer.k >= 1, OutLen(layer) >= 1, InLen(layer) = Flow,
         Volume(dims) = OutLen(layer),
         Len(dims) = 3 => dims[1] >= 1 /\ dims[2] >= 1 /\ dims[3] >= 1
  PROVE  FlowInv'
<1>1. /\ layers' = Append(layers, layer) /\ shape' = dims /\ step' = step /\ input' = input /\ budget' = budget
  BY DEF Becomes
<1>2. IsModel(input, budget, layers) /\ (\E S : layers \in Seq(S)) /\ Chain(Len(layers)) /\ budget <= AddrSize
  BY DEF LowerInv, FlowInv
<1>3. Chain(Len(layers))' /\ Flow' = OutLen(layer) /\ layers' # << >>
  BY <1>1, <1>2, ChainNext
<1>4. shape' \in Seq(Nat) /\ Volume(shape)' = Flow'
  BY <1>1, <1>3
<1>5. Len(shape') = 3 => shape'[1] >= 1 /\ shape'[2] >= 1 /\ shape'[3] >= 1
  BY <1>1
<1>6. step' = "lower" /\ budget' <= AddrSize
  BY <1>1, <1>2
<1> QED BY <1>3, <1>4, <1>5, <1>6 DEF FlowInv

\* Linear.
LEMMA LinearFlows == NoEmpty /\ LowerInv /\ FlowInv /\ LowerLinear => FlowInv'
<1> SUFFICES ASSUME NoEmpty, LowerInv, FlowInv, LowerLinear PROVE FlowInv'
  OBVIOUS
<1> DEFINE layer == [NoLayer EXCEPT !.kind = "Dense", !.in_f = weight.shape[2], !.out_f = weight.shape[1],
                                    !.shift = node.shift, !.weights = weight.data[1]]
           dims  == <<weight.shape[1]>>
           relu  == Feeds("Relu")
<1>1. /\ step = "lower" /\ i <= Len(graph.nodes) /\ Weighted(2) /\ Becomes(layer, dims, relu)
      /\ graph \in Graphs /\ i \in Nat \ {0} /\ shape = <<weight.shape[2]>>
  BY DEF LowerLinear, At, LinearFits, LowerInv
<1>2. /\ weight.shape[1] \in Nat /\ weight.shape[2] \in Nat /\ weight.shape[1] >= 1
      /\ weight.data[1] \in Seq(Int) /\ node.shift \in Nat
  BY <1>1, WeightTyped, NodeTyped, WeightSides
<1>3. /\ layer.kind = "Dense" /\ layer.in_f = weight.shape[2] /\ layer.out_f = weight.shape[1]
      /\ layer.shift = node.shift /\ layer.weights = weight.data[1]
      /\ layer.c = 0 /\ layer.h = 0 /\ layer.w = 0 /\ layer.k = 0
  BY DEF NoLayer
<1> HIDE DEF layer
<1>4. IsLayer(layer) /\ OutLen(layer) = weight.shape[1] /\ InLen(layer) = weight.shape[2]
  BY <1>2, <1>3 DEF IsLayer, OutLen, InLen
<1>5. /\ dims \in Seq(Nat) /\ Len(dims) = 1 /\ DOMAIN dims = 1 .. 1 /\ dims[1] = weight.shape[1]
      /\ DOMAIN shape = 1 .. 1 /\ shape[1] = weight.shape[2]
  BY <1>1, <1>2
<1>6. Volume(shape) = weight.shape[2] /\ Volume(shape) = Flow
  BY <1>1, <1>2, <1>5, VolumeOne DEF FlowInv
<1> HIDE DEF dims, relu
<1>7. Volume(dims) = weight.shape[1]
  BY <1>2, <1>5, VolumeOne
<1>8. /\ layer.kind # "Conv" /\ OutLen(layer) >= 1 /\ InLen(layer) = Flow /\ Volume(dims) = OutLen(layer)
      /\ Len(dims) # 3
  BY <1>2, <1>3, <1>4, <1>5, <1>6, <1>7
<1> QED BY <1>1, <1>4, <1>5, <1>8, BecomesFlows

\* Conv2d.
LEMMA ConvFlows == NoEmpty /\ LowerInv /\ FlowInv /\ LowerConv => FlowInv'
<1> SUFFICES ASSUME NoEmpty, LowerInv, FlowInv, LowerConv PROVE FlowInv'
  OBVIOUS
<1> DEFINE cout  == weight.shape[1]
           k     == weight.shape[3]
           layer == [NoLayer EXCEPT !.kind = "Conv", !.c = cout, !.h = shape[2], !.w = shape[3], !.k = k,
                                    !.shift = node.shift, !.weights = weight.data[1]]
           oh    == shape[2] - k + 1
           ow    == shape[3] - k + 1
           dims  == <<cout, oh, ow>>
<1>1. /\ step = "lower" /\ i <= Len(graph.nodes) /\ Weighted(4) /\ Becomes(layer, dims, TRUE)
      /\ graph \in Graphs /\ i \in Nat \ {0} /\ Len(shape) = 3 /\ k <= shape[2] /\ k <= shape[3] /\ shape[1] = 1
  BY DEF LowerConv, At, ConvFits, LowerInv
<1>2. /\ cout \in Nat /\ k \in Nat /\ cout >= 1 /\ k >= 1
      /\ weight.data[1] \in Seq(Int) /\ node.shift \in Nat
  <2>1. 4 \in Nat /\ 1 \in 1 .. 4 /\ 3 \in 1 .. 4
    OBVIOUS
  <2>2. weight.data[1] \in Seq(Int) /\ node.shift \in Nat
    BY <1>1, <2>1, WeightTyped, NodeTyped
  <2>3. weight.shape[1] \in Nat /\ weight.shape[1] >= 1
    BY <1>1, <2>1, WeightSides
  <2>4. weight.shape[3] \in Nat /\ weight.shape[3] >= 1
    BY <1>1, <2>1, WeightSides
  <2> QED BY <2>2, <2>3, <2>4
<1>3. shape[2] \in Nat /\ shape[3] \in Nat
  BY <1>1 DEF LowerInv
<1>4. /\ layer.kind = "Conv" /\ layer.c = cout /\ layer.h = shape[2] /\ layer.w = shape[3] /\ layer.k = k
      /\ layer.shift = node.shift /\ layer.weights = weight.data[1] /\ layer.in_f = 0 /\ layer.out_f = 0
  BY DEF NoLayer
<1>5. shape \in Seq(Nat) /\ Volume(shape) = Flow
  BY <1>1 DEF FlowInv
<1> HIDE DEF layer, cout, k
<1>6. oh \in Nat /\ ow \in Nat /\ oh >= 1 /\ ow >= 1
  BY <1>1, <1>2, <1>3
<1>7. IsLayer(layer) /\ OutLen(layer) = cout * (oh * ow) /\ InLen(layer) = shape[2] * shape[3]
  BY <1>1, <1>2, <1>3, <1>4 DEF IsLayer, OutLen, InLen
<1> HIDE DEF oh, ow
<1>8. /\ dims \in Seq(Nat) /\ Len(dims) = 3 /\ DOMAIN dims = 1 .. 3 /\ dims[1] = cout /\ dims[2] = oh /\ dims[3] = ow
  BY <1>2, <1>6
<1> HIDE DEF dims
<1>9. Volume(dims) = (cout * oh) * ow
  <2>1. cout \in Nat /\ oh \in Nat /\ ow \in Nat
    BY <1>2, <1>6
  <2>2. DOMAIN dims = 1 .. 3 /\ dims[1] = cout /\ dims[2] = oh /\ dims[3] = ow
    BY <1>8
  <2> QED BY <2>1, <2>2, VolumeThree
<1>10. Volume(dims) = cout * (oh * ow) /\ cout * (oh * ow) >= 1
  BY <1>2, <1>6, <1>9, Areas
<1>11. Volume(shape) = (1 * shape[2]) * shape[3]
  <2>1. DOMAIN shape = 1 .. 3 /\ 1 \in Nat
    BY <1>1, <1>5
  <2> QED BY <1>1, <1>3, <2>1, VolumeThree
<1>12. 1 * shape[2] = shape[2]
  BY <1>3
<1>13. InLen(layer) = Flow
  BY <1>5, <1>7, <1>11, <1>12
<1> QED BY <1>1, <1>2, <1>4, <1>6, <1>7, <1>8, <1>10, <1>13, BecomesFlows

\* MaxPool2d.
LEMMA PoolFlows == NoEmpty /\ LowerInv /\ FlowInv /\ LowerPool => FlowInv'
<1> SUFFICES ASSUME NoEmpty, LowerInv, FlowInv, LowerPool PROVE FlowInv'
  OBVIOUS
<1> DEFINE k     == node.kernel_size[1]
           layer == [NoLayer EXCEPT !.kind = "Pool", !.c = shape[1], !.h = shape[2], !.w = shape[3], !.k = k]
           oh    == shape[2] \div k
           ow    == shape[3] \div k
           dims  == <<shape[1], oh, ow>>
<1>1. /\ step = "lower" /\ i <= Len(graph.nodes) /\ node.kernel_size # None /\ Becomes(layer, dims, FALSE)
      /\ graph \in Graphs /\ i \in Nat \ {0}
      /\ Len(shape) = 3 /\ k >= 1 /\ shape[2] >= k /\ shape[3] >= k
  BY DEF LowerPool, At, PoolFits, LowerInv
<1>2. k \in Nat
  BY <1>1, NodeTyped
<1>3. shape[1] \in Nat /\ shape[2] \in Nat /\ shape[3] \in Nat
  BY <1>1 DEF LowerInv
<1>4. /\ layer.kind = "Pool" /\ layer.c = shape[1] /\ layer.h = shape[2] /\ layer.w = shape[3] /\ layer.k = k
      /\ layer.shift = 0 /\ layer.weights = << >> /\ layer.in_f = 0 /\ layer.out_f = 0
  BY DEF NoLayer
<1>5. shape \in Seq(Nat) /\ Volume(shape) = Flow /\ shape[1] >= 1
  BY <1>1 DEF FlowInv
<1> HIDE DEF layer, k
<1>6. oh \in Nat /\ ow \in Nat /\ oh >= 1 /\ ow >= 1
  BY <1>1, <1>2, <1>3, Areas
<1>7. IsLayer(layer) /\ OutLen(layer) = shape[1] * (oh * ow) /\ InLen(layer) = shape[1] * (shape[2] * shape[3])
  <2>1. << >> \in Seq(Int)
    OBVIOUS
  <2> QED BY <1>1, <1>2, <1>3, <1>4, <2>1 DEF IsLayer, OutLen, InLen
<1> HIDE DEF oh, ow
<1>8. /\ dims \in Seq(Nat) /\ Len(dims) = 3 /\ DOMAIN dims = 1 .. 3
      /\ dims[1] = shape[1] /\ dims[2] = oh /\ dims[3] = ow
  BY <1>3, <1>6
<1> HIDE DEF dims
<1>9. Volume(dims) = (shape[1] * oh) * ow
  <2>1. PICK planes \in Nat : planes = shape[1]
    BY <1>3
  <2>2. planes \in Nat /\ oh \in Nat /\ ow \in Nat
    BY <1>6
  <2>3. DOMAIN dims = 1 .. 3 /\ dims[1] = planes /\ dims[2] = oh /\ dims[3] = ow
    BY <1>8, <2>1
  <2>4. Volume(dims) = (planes * oh) * ow
    BY <2>2, <2>3, VolumeThree
  <2> QED BY <2>1, <2>4
<1>10. Volume(dims) = shape[1] * (oh * ow) /\ shape[1] * (oh * ow) >= 1
  BY <1>3, <1>5, <1>6, <1>9, Areas
<1>11. Volume(shape) = (shape[1] * shape[2]) * shape[3]
  <2>1. DOMAIN shape = 1 .. 3
    BY <1>1, <1>5
  <2> QED BY <1>3, <2>1, VolumeThree, Zenon
<1>12. InLen(layer) = Flow
  BY <1>3, <1>5, <1>7, <1>11, Areas
<1>13. layer.kind # "Conv"
  BY <1>4
<1> QED BY <1>1, <1>5, <1>6, <1>7, <1>8, <1>10, <1>12, <1>13, BecomesFlows

\* The input is as long as its shape is large.
LEMMA OpenFlows == Sizes /\ NoEmpty /\ BudgetsFit /\ LowerInv /\ FlowInv /\ Open => FlowInv'
<1> SUFFICES ASSUME Sizes, NoEmpty, BudgetsFit, LowerInv, FlowInv, Open PROVE FlowInv'
  OBVIOUS
<1>1. /\ step = "open" /\ layers = << >> /\ graph \in Graphs /\ layers' = layers
      /\ Chain(Len(layers)) /\ budget <= AddrSize
  BY DEF Open, LowerInv, FlowInv
<1>2. Chain(Len(layers))'
  BY <1>1 DEF Chain
<1>3. CASE ~Opens
  <2>1. step' = "rejected" /\ UNCHANGED <<shape, input, budget>>
    BY <1>3 DEF Open
  <2> QED BY <1>1, <1>2, <2>1 DEF FlowInv
<1>4. CASE Opens
  <2> DEFINE x0 == graph.nodes[1].inputs[1]
  <2>1. step' = "lower" /\ shape' = graph.tensors[x0].shape /\ input' = Data(x0)[1] /\ budget' = graph.budget
    BY <1>4 DEF Open
  <2>2. x0 \in DOMAIN graph.tensors /\ Volume(graph.tensors[x0].shape) = Len(Data(x0)[1])
    BY <1>4 DEF Opens, Data
  <2>3. IsFile(graph) /\ graph.budget <= AddrSize
    BY <1>1, FileAssumption DEF BudgetsFit
  <2> HIDE DEF x0
  <2>4. shape' \in Seq(Nat)
    BY <2>1, <2>2, <2>3 DEF IsFile
  <2>5. Volume(shape)' = Flow'
    BY <1>1, <2>1, <2>2 DEF Flow
  <2>6. Len(shape') = 3 => shape'[1] >= 1 /\ shape'[2] >= 1 /\ shape'[3] >= 1
    <3> SUFFICES ASSUME Len(shape') = 3 PROVE shape'[1] >= 1 /\ shape'[2] >= 1 /\ shape'[3] >= 1
      OBVIOUS
    <3>1. 1 \in 1 .. Len(shape') /\ 2 \in 1 .. Len(shape') /\ 3 \in 1 .. Len(shape')
      OBVIOUS
    <3> QED BY <1>1, <2>1, <2>2, <2>4, <3>1, SidesAre
  <2>7. step' # "open" /\ budget' <= AddrSize
    BY <2>1, <2>3
  <2> QED BY <1>2, <2>1, <2>4, <2>5, <2>6, <2>7 DEF FlowInv
<1> QED BY <1>3, <1>4

\* What flattens leaves as many numbers, and the end of the graph needs a layer.
LEMMA RestFlows == LowerInv /\ FlowInv /\ (LowerFlatten \/ LowerArgmax \/ RejectGraph) => FlowInv'
<1> SUFFICES ASSUME LowerInv, FlowInv, LowerFlatten \/ LowerArgmax \/ RejectGraph PROVE FlowInv'
  OBVIOUS
<1>1. step = "lower" /\ UNCHANGED <<input, budget, layers>> /\ Chain(Len(layers)) /\ budget <= AddrSize
  BY DEF LowerFlatten, LowerArgmax, RejectGraph, At, model, FlowInv
<1>2. Chain(Len(layers))' /\ Flow' = Flow
  BY <1>1 DEF Chain, Flow
<1>3. CASE LowerFlatten
  <2>1. step' = "lower" /\ shape' = <<Volume(shape)>> /\ Volume(shape) = Flow
    BY <1>1, <1>3 DEF LowerFlatten, FlowInv
  <2>2. Flow \in Nat
    BY FlowNat DEF LowerInv
  <2>3. shape' = <<Flow>> /\ shape' \in Seq(Nat) /\ Len(shape') = 1 /\ DOMAIN shape' = 1 .. 1 /\ shape'[1] = Flow
    BY <2>1, <2>2
  <2>4. Volume(shape') = Flow
    BY <2>2, <2>3, VolumeOne
  <2> QED BY <1>1, <1>2, <2>1, <2>3, <2>4 DEF FlowInv
<1>4. CASE LowerArgmax
  <2>1. step' = "weights" /\ layers # << >>
    BY <1>4 DEF LowerArgmax, ArgmaxFits
  <2> QED BY <1>1, <1>2, <2>1 DEF FlowInv
<1>5. CASE RejectGraph
  <2>1. step' = "rejected"
    BY <1>5 DEF RejectGraph
  <2> QED BY <1>1, <1>2, <2>1 DEF FlowInv
<1> QED BY <1>3, <1>4, <1>5

\* After lowering the model stands.
LEMMA FlowStands ==
  ASSUME FlowInv, UNCHANGED model, step \notin {"open", "lower"}, step' \notin {"open", "lower"},
         step' = "rejected" \/ step # "rejected"
  PROVE  FlowInv'
<1>1. UNCHANGED <<input, budget, layers>>
  BY DEF model
<1> QED BY <1>1 DEF FlowInv, Chain

\* Every step of the run keeps the chain.
LEMMA FlowKeeps == Sizes /\ NoEmpty /\ BudgetsFit /\ LowerInv /\ FlowInv /\ [Next]_vars => FlowInv'
<1> SUFFICES ASSUME Sizes, NoEmpty, BudgetsFit, LowerInv, FlowInv, [Next]_vars PROVE FlowInv'
  OBVIOUS
<1>1. CASE Open
  BY <1>1, OpenFlows
<1>2. CASE Lower
  BY <1>2, LinearFlows, ConvFlows, PoolFlows, RestFlows DEF Lower
<1>3. CASE Plan
  BY <1>3, FlowStands DEF Plan, PlanStep, PlaceWeights, RejectWeights, WeightsPlaced, PlaceOutput, OutputsPlaced, Check
<1>4. CASE GenerateLayer \/ GenerateEpilogue \/ EvaluateLayer \/ WriteFiles \/ LoadAndStart
  BY <1>4, FlowStands DEF GenerateLayer, GenerateEpilogue, EvaluateLayer, WriteFiles, LoadAndStart
<1>5. CASE OpenFile \/ Assemble \/ Execute \/ UNCHANGED vars
  <2>1. UNCHANGED <<step, input, budget, layers, shape>>
    BY <1>5 DEF OpenFile, Assemble, Execute, vars, compiler, planvars, front, model
  <2> QED BY <2>1 DEF FlowInv, Chain, Flow
<1> QED BY <1>1, <1>2, <1>3, <1>4, <1>5 DEF Next, Compile, CompilerNext

-----------------------------------------------------------------------------
(* The image holds the input and the weights; the plan is complete.         *)
StoredAll  == Stored(Len(layers))
StoredHere == Stored(i - 1)
StoreInv ==
  /\ x[1] = 0
  /\ step \in {"open", "lower"} => w = << >>
  /\ step = "weights" => i <= Len(layers) + 1 /\ w \in Seq(Nat) /\ Len(w) = i - 1 /\ StoredHere
  /\ step \in Placing => StoredAll
  /\ step \in {"check"} \cup Planned => Len(x) = Len(layers) + 1
  /\ step \in Planned => Accepted

\* The bytes of b stand in c behind those of a.
Grown(c, a, b) ==
  /\ c \in Seq(Bytes) /\ Len(c) = Len(a) + Len(b)
  /\ \A j \in 1 .. Len(a) : c[j] = a[j]
  /\ \A j \in 1 .. Len(b) : c[Len(a) + j] = b[j]

\* Bytes behind bytes.
LEMMA ImageGrows ==
  ASSUME NEW a \in Seq(Bytes), NEW b \in Seq(Bytes), NEW c, c = a \o b
  PROVE  Grown(c, a, b)
<1>1. Joins(Bytes, c, a, b)
  BY Joined
<1>2. c \in Seq(Bytes) /\ Len(c) = Len(a) + Len(b) /\ Len(a) \in Nat /\ Len(b) \in Nat
      /\ \A j \in 1 .. Len(a) + Len(b) : c[j] = IF j <= Len(a) THEN a[j] ELSE b[j - Len(a)]
  BY <1>1 DEF Joins
<1>3. \A j \in 1 .. Len(a) : c[j] = a[j]
  BY <1>2
<1>4. ASSUME NEW j \in 1 .. Len(b) PROVE c[Len(a) + j] = b[j]
  <2>1. Len(a) + j \in 1 .. Len(a) + Len(b) /\ ~(Len(a) + j <= Len(a)) /\ (Len(a) + j) - Len(a) = j
    BY <1>2
  <2> QED BY <1>2, <2>1
<1> QED BY <1>2, <1>3, <1>4 DEF Grown

\* The weights of layer n + 1 are stored behind those of the first n.
Stores(n) ==
  /\ n \in Nat /\ n + 1 \in 1 .. Len(layers) /\ Len(layers) \in Nat /\ w \in Seq(Nat) /\ Len(w) = n /\ Stored(n)
  /\ (\A k \in 1 .. n + 1 : IsLayer(layers[k])) /\ WeightsOk(layers[n + 1]) /\ UNCHANGED <<input, layers>>
  /\ w' = Append(w, Len(image))
  /\ image' = image \o [j \in 1 .. Len(layers[n + 1].weights) |-> Byte(layers[n + 1].weights[j])]
HasStored(n) == Stored(n + 1)' /\ w' \in Seq(Nat) /\ Len(w') = n + 1

\* The weights of the next layer.
LEMMA StoredNext ==
  ASSUME NEW n, Stores(n)
  PROVE  HasStored(n)
<1> USE DEF Stores
<1> DEFINE l == layers[n + 1]
           m == Len(l.weights)
           f == [j \in 1 .. m |-> Byte(l.weights[j])]
<1>1. /\ image \in Seq(Bytes) /\ Len(image) \in Nat /\ Len(input) \in Nat /\ Len(input) <= Len(image)
      /\ \A a \in 1 .. Len(input) : image[a] = input[a]
      /\ \A k \in 1 .. n :
           /\ w[k] \in Nat /\ WeightsOk(layers[k]) /\ w[k] + Len(layers[k].weights) <= Len(image)
           /\ \A j \in 1 .. Len(layers[k].weights) : image[w[k] + j] = Byte(layers[k].weights[j])
  BY DEF Stored
<1>2. m \in Nat /\ \A j \in 1 .. m : l.weights[j] \in -128 .. 127
  <2>1. IsLayer(l)
    OBVIOUS
  <2>2. m \in Nat
    BY <2>1 DEF IsLayer
  <2>3. WeightsOk(l)
    OBVIOUS
  <2> QED BY <2>2, <2>3 DEF WeightsOk
<1>3. f \in Seq(Bytes) /\ Len(f) = m /\ \A j \in 1 .. m : f[j] = Byte(l.weights[j])
  <2>1. \A j \in 1 .. m : Byte(l.weights[j]) \in Bytes
    BY <1>2, SignedByte
  <2>2. f \in [1 .. m -> Bytes]
    BY <2>1
  <2>3. m \in Nat
    BY <1>2
  <2>4. \A j \in 1 .. m : f[j] = Byte(l.weights[j])
    OBVIOUS
  <2> HIDE DEF f, m
  <2>5. f \in Seq(Bytes) /\ Len(f) = m
    BY <2>2, <2>3
  <2> QED BY <2>4, <2>5
<1>4. w' \in Seq(Nat) /\ Len(w') = n + 1 /\ w'[n + 1] = Len(image) /\ \A k \in 1 .. n : w'[k] = w[k]
  BY <1>1
<1>5. image' = image \o f
  OBVIOUS
<1> HIDE DEF l, m, f
<1>6. /\ image' \in Seq(Bytes) /\ Len(image') = Len(image) + m
      /\ \A j \in 1 .. Len(image) : image'[j] = image[j]
      /\ \A j \in 1 .. m : image'[Len(image) + j] = f[j]
  <2>1. image \in Seq(Bytes) /\ f \in Seq(Bytes) /\ Len(f) = m
    BY <1>1, <1>3
  <2>2. /\ image' \in Seq(Bytes) /\ Len(image') = Len(image) + Len(f)
        /\ \A j \in 1 .. Len(image) : image'[j] = image[j]
        /\ \A j \in 1 .. Len(f) : image'[Len(image) + j] = f[j]
    <3>1. PICK c : c = image'
      OBVIOUS
    <3>2. c = image \o f
      BY <1>5, <3>1, Zenon
    <3>3. Grown(c, image, f)
      BY <2>1, <3>2, ImageGrows, Zenon
    <3> QED BY <3>1, <3>3, Zenon DEF Grown
  <2> QED BY <2>1, <2>2
<1>7. ASSUME NEW k \in 1 .. n + 1
      PROVE  /\ w'[k] \in Nat /\ WeightsOk(layers[k]) /\ w'[k] + Len(layers[k].weights) <= Len(image')
             /\ \A j \in 1 .. Len(layers[k].weights) : image'[w'[k] + j] = Byte(layers[k].weights[j])
  <2>1. CASE k \in 1 .. n
    <3> DEFINE q == Len(layers[k].weights)
    <3>1. /\ w[k] \in Nat /\ WeightsOk(layers[k]) /\ w[k] + q <= Len(image) /\ w'[k] = w[k]
          /\ \A j \in 1 .. q : image[w[k] + j] = Byte(layers[k].weights[j])
      BY <1>1, <1>4, <2>1
    <3>2. q \in Nat
      <4>1. IsLayer(layers[k])
        BY <2>1
      <4> QED BY <4>1 DEF IsLayer
    <3> HIDE DEF q
    <3>3. /\ w[k] \in Nat /\ Len(image) \in Nat /\ m \in Nat /\ w[k] + q <= Len(image)
          /\ Len(image') = Len(image) + m
      BY <1>1, <1>2, <1>6, <3>1
    <3>5. w[k] + q <= Len(image')
      BY <3>2, <3>3
    <3>4. ASSUME NEW j \in 1 .. q PROVE image'[w'[k] + j] = Byte(layers[k].weights[j])
      <4>1. w[k] + j \in 1 .. Len(image)
        <5>1. \A a, b, c, d \in Nat : a + c <= b /\ d \in 1 .. c => a + d \in 1 .. b
          OBVIOUS
        <5>2. j \in Nat
          BY <3>2
        <5> QED BY <3>2, <3>3, <5>1, <5>2, Zenon
      <4>2. image'[w[k] + j] = image[w[k] + j] /\ image[w[k] + j] = Byte(layers[k].weights[j]) /\ w'[k] = w[k]
        BY <1>6, <3>1, <4>1
      <4> QED BY <4>2
    <3> QED BY <3>1, <3>5, <3>4 DEF q
  <2>2. CASE k = n + 1
    <3>1. layers[k] = l /\ w'[k] = Len(image) /\ Len(layers[k].weights) = m
      BY <1>4, <2>2 DEF l, m
    <3>2. WeightsOk(layers[k])
      BY <2>2
    <3>3. \A j \in 1 .. m : image'[Len(image) + j] = Byte(l.weights[j])
      BY <1>3, <1>6
    <3>4. Len(image) + m <= Len(image')
      BY <1>1, <1>2, <1>6
    <3> QED BY <1>1, <3>1, <3>2, <3>3, <3>4
  <2>3. k \in 1 .. n \/ k = n + 1
    OBVIOUS
  <2> QED BY <2>1, <2>2, <2>3
<1>8. Len(input) <= Len(image') /\ \A a \in 1 .. Len(input) : image'[a] = input[a]
  BY <1>1, <1>2, <1>6
<1>9. Stored(n + 1)'
  BY <1>1, <1>6, <1>7, <1>8 DEF Stored
<1> QED BY <1>4, <1>9 DEF HasStored

\* Lowering ends with the input at the start of the image.
LEMMA LoweringStores == StoreInv /\ Lowering => StoreInv'
<1> SUFFICES ASSUME StoreInv, Lowering PROVE StoreInv'
  OBVIOUS
<1>1. /\ step \in {"open", "lower"} /\ step' \in {"lower", "rejected", "weights"}
      /\ IsModel(input', budget', layers') /\ UNCHANGED <<x, w, cursor>>
      /\ (step' = "weights" => i' = 1 /\ image' = input')
  BY DEF Lowering
<1>2. x'[1] = 0 /\ w' = << >>
  BY <1>1 DEF StoreInv
<1>3. ASSUME step' = "weights" PROVE StoredHere' /\ i' = 1 /\ w' \in Seq(Nat) /\ Len(w') = 0 /\ i' <= Len(layers') + 1
  <2>1. image' = input' /\ i' = 1 /\ input' \in Seq(0 .. 255) /\ Len(layers') \in Nat
    BY <1>1, <1>3 DEF IsModel
  <2>2. image' \in Seq(Bytes) /\ Len(input') \in Nat
    <3>1. 0 .. 255 \subseteq Bytes
      BY DEF Bytes
    <3>2. image' \in Seq(Bytes)
      BY <2>1, <3>1, SeqMonotonic, Zenon
    <3> QED BY <2>1, <3>2
  <2>3. Stored(0)'
    BY <2>1, <2>2 DEF Stored
  <2>4. StoredHere'
    <3>1. i' - 1 = 0
      BY <2>1
    <3> QED BY <2>3, <3>1 DEF StoredHere
  <2> QED BY <1>2, <2>1, <2>4
<1>4. step' \notin Placing
  BY <1>1 DEF Placing, Planned
<1> QED BY <1>1, <1>2, <1>3, <1>4 DEF StoreInv, Placing

\* The weights of a layer go behind what is stored.
LEMMA PlacingStores == PInv /\ StoreInv /\ PlaceWeights => StoreInv'
<1> SUFFICES ASSUME PInv, StoreInv, PlaceWeights PROVE StoreInv'
  OBVIOUS
<1>0. PICK n : n = i - 1
  OBVIOUS
<1>1. /\ step = "weights" /\ i <= Len(layers) /\ WeightsOk(layers[i]) /\ w' = Append(w, Len(image))
      /\ image' = image \o [j \in 1 .. Len(layers[i].weights) |-> Byte(layers[i].weights[j])]
      /\ i' = i + 1 /\ UNCHANGED <<step, input, layers, x>>
  BY DEF PlaceWeights, model
<1>2. /\ i \in Nat \ {0} /\ Len(layers) \in Nat /\ \A k \in 1 .. Len(layers) : IsLayer(layers[k])
      /\ w \in Seq(Nat) /\ Len(w) = n /\ Stored(n) /\ x[1] = 0
  BY <1>0, <1>1 DEF PInv, PTyped, Position, StoreInv, StoredHere
<1>3. n \in Nat /\ n + 1 = i /\ n + 1 \in 1 .. Len(layers)
  BY <1>0, <1>1, <1>2
<1>4. (i + 1) - 1 = n + 1
  BY <1>0, <1>2
<1>5. Stored(n + 1)' /\ w' \in Seq(Nat) /\ Len(w') = n + 1
  <2>1. \A k \in 1 .. n + 1 : IsLayer(layers[k])
    BY <1>2, <1>3
  <2>2. /\ WeightsOk(layers[n + 1]) /\ UNCHANGED <<input, layers>>
        /\ image' = image \o [j \in 1 .. Len(layers[n + 1].weights) |-> Byte(layers[n + 1].weights[j])]
    BY <1>1, <1>3
  <2>3. w' = Append(w, Len(image))
    BY <1>1
  <2>4. Stores(n)
    BY <1>2, <1>3, <2>1, <2>2, <2>3 DEF Stores
  <2>5. HasStored(n)
    BY <2>4, StoredNext
  <2> QED BY <2>5 DEF HasStored
<1>6. i' = n + 2 /\ i' - 1 = n + 1 /\ i' <= Len(layers') + 1
  BY <1>1, <1>2, <1>3
<1>7. StoredHere' /\ Len(w') = i' - 1
  <2>1. PICK m : m = n + 1
    OBVIOUS
  <2>2. Stored(m)'
    BY <1>5, <2>1
  <2>3. i' - 1 = m
    BY <1>6, <2>1
  <2>4. StoredHere'
    BY <2>2, <2>3 DEF StoredHere
  <2> QED BY <1>5, <1>6, <2>4
<1> QED BY <1>1, <1>2, <1>5, <1>6, <1>7 DEF StoreInv, Placing, Planned

\* What does not touch image, weights and layers leaves them stored.
LEMMA StaysStored ==
  ASSUME UNCHANGED <<input, layers, w, image>>
  PROVE  /\ StoredAll => StoredAll'
         /\ i' = i => StoredHere' = StoredHere
  BY DEF Stored, StoredAll, StoredHere

\* The rest of the planner.
LEMMA RestStores ==
  PInv /\ StoreInv /\ (RejectWeights \/ WeightsPlaced \/ PlaceOutput \/ OutputsPlaced \/ Check) => StoreInv'
<1> SUFFICES ASSUME PInv, StoreInv, RejectWeights \/ WeightsPlaced \/ PlaceOutput \/ OutputsPlaced \/ Check PROVE StoreInv'
  OBVIOUS
<1>0. Len(layers) \in Nat /\ Len(x) \in Nat /\ x \in Seq(Nat) /\ Len(x) >= 1 /\ x[1] = 0
  BY DEF PInv, PTyped, StoreInv
<1>1. CASE RejectWeights
  BY <1>1 DEF RejectWeights, StoreInv, plan, Placing, Planned
<1>2. CASE WeightsPlaced
  <2>1. /\ step = "weights" /\ i > Len(layers) /\ step' = "outputs" /\ UNCHANGED <<input, layers, x, w, image>>
    BY <1>2 DEF WeightsPlaced, model
  <2>2. i - 1 = Len(layers)
    BY <1>0, <2>1 DEF PInv, Position, StoreInv
  <2>3. StoredAll
    BY <2>1, <2>2 DEF StoreInv, StoredHere, StoredAll
  <2>5. StoredAll'
    BY <2>1, <2>3, StaysStored
  <2> QED BY <1>0, <2>1, <2>5 DEF StoreInv, Placing, Planned
<1>3. CASE PlaceOutput
  <2>1. PICK v : x' = Append(x, v)
    BY <1>3 DEF PlaceOutput
  <2>2. step = "outputs" /\ step' = step /\ UNCHANGED <<input, layers, w, image>>
    BY <1>3 DEF PlaceOutput, model
  <2>3. x'[1] = 0
    BY <1>0, <2>1
  <2>5. StoredAll'
    BY <2>2, StaysStored DEF StoreInv, Placing
  <2> QED BY <2>2, <2>3, <2>5 DEF StoreInv, Placing, Planned
<1>4. CASE OutputsPlaced
  <2>1. step = "outputs" /\ i > Len(layers) /\ step' = "check" /\ UNCHANGED <<input, layers, x, w, image>>
    BY <1>4 DEF OutputsPlaced, model, plan
  <2>2. Len(x) = Len(layers) + 1
    <3>1. Len(x) = i /\ Len(x) <= Len(layers) + 1
      BY <2>1 DEF PInv, Position, Placing
    <3> QED BY <1>0, <2>1, <3>1
  <2>4. StoredAll'
    BY <2>1, StaysStored DEF StoreInv, Placing
  <2> QED BY <1>0, <2>1, <2>2, <2>4 DEF StoreInv, Placing, Planned
<1>5. CASE Check
  <2>1. /\ step = "check" /\ step' \in {"generate", "rejected"} /\ (step' = "generate" => Accepted)
        /\ UNCHANGED <<input, budget, layers, x, w, image, cursor>>
    BY <1>5 DEF Check, model, plan
  <2>2. step' = "generate" => Accepted'
    <3>1. Accepted' = Accepted
      BY <2>1 DEF Accepted, Output
    <3> QED BY <2>1, <3>1
  <2>3. Len(x) = Len(layers) + 1
    BY <2>1 DEF StoreInv
  <2>4. StoredAll'
    BY <2>1, StaysStored DEF StoreInv, Placing
  <2> QED BY <1>0, <2>1, <2>2, <2>3, <2>4 DEF StoreInv, Placing, Planned
<1> QED BY <1>1, <1>2, <1>3, <1>4, <1>5

\* Every step of the planner.
LEMMA StoreKeeps == PInv /\ StoreInv /\ [PlanNext]_planvars => StoreInv'
<1> SUFFICES ASSUME PInv, StoreInv, [PlanNext]_planvars PROVE StoreInv'
  OBVIOUS
<1>1. CASE Lowering
  BY <1>1, LoweringStores
<1>2. CASE PlanStep
  BY <1>2, PlacingStores, RestStores DEF PlanStep
<1>3. CASE Use \/ UNCHANGED planvars
  <2>1. UNCHANGED <<input, budget, layers, x, w, image, cursor>>
    BY <1>3 DEF Use, planvars, model, plan
  <2>2. Accepted' = Accepted
    BY <2>1 DEF Accepted, Output
  <2>3. (StoredAll => StoredAll') /\ (i' = i => StoredHere' = StoredHere)
    BY <2>1, StaysStored
  <2>4. CASE Use
    <3>1. step \in Planned /\ step' \in Planned \cup {"rejected"}
      BY <2>4 DEF Use
    <3> QED BY <2>1, <2>2, <2>3, <3>1 DEF StoreInv, Placing, Planned
  <2>5. CASE UNCHANGED planvars
    <3>1. step' = step /\ i' = i
      BY <2>5 DEF planvars
    <3> QED BY <2>1, <2>2, <2>3, <3>1 DEF StoreInv
  <2> QED BY <1>3, <2>4, <2>5
<1> QED BY <1>1, <1>2, <1>3 DEF PlanNext

-----------------------------------------------------------------------------
(* What is generated, handed to the assembler and assembled is the text.    *)
Before == {"open", "lower", "weights", "outputs", "check"}

GeneratedHere == Generated(asm, i - 1)
EntireAsm     == Entire(asm)
EntireSource  == Entire(source)

\* The text, from the generators to the program memory.
TextInv ==
  /\ step \in Before => asm = << >>
  /\ step = "generate" => i \in 1 .. Len(layers) + 1 /\ GeneratedHere
  /\ step = "evaluate" => EntireAsm
  /\ step = "asm" => IF source = << >> THEN EntireAsm ELSE EntireSource
  /\ step = "run" => EntireSource

\* While the plan stays, the text does.
LEMMA KernelsStay ==
  ASSUME UNCHANGED <<layers, x, w>>
  PROVE  (\A s : Entire(s) => Entire(s)') /\ (\A s, n : Generated(s, n) => Generated(s, n)')
<1>1. \A k : KernelOf(k)' = KernelOf(k)
  BY DEF KernelOf
<1>2. \A s, n, pos : Strung(s, n, pos)' <=> Strung(s, n, pos)
  BY <1>1 DEF Strung
<1>3. \A s : Entire(s) => Entire(s)'
  BY <1>2 DEF Entire
<1>4. \A s, n : Generated(s, n) => Generated(s, n)'
  BY <1>2 DEF Generated
<1> QED BY <1>3, <1>4

\* Until code generation nothing is written, and then the first kernel is next.
LEMMA FrontTexts == LowerInv /\ TextInv /\ (Open \/ Lower \/ Plan) => TextInv'
<1> SUFFICES ASSUME LowerInv, TextInv, Open \/ Lower \/ Plan PROVE TextInv'
  OBVIOUS
<1>1. /\ step \in Before /\ asm' = asm /\ step' \in Before \cup {"generate", "rejected"}
      /\ (step' = "generate" => i' = 1 /\ layers' = layers)
  <2>1. CASE Open
    BY <2>1 DEF Open, Before
  <2>2. CASE Lower
    BY <2>2 DEF Lower, LowerLinear, LowerConv, LowerPool, LowerFlatten, LowerArgmax, RejectGraph, At, Becomes, front, Before
  <2>3. CASE Plan
    BY <2>3 DEF Plan, PlanStep, PlaceWeights, RejectWeights, WeightsPlaced, PlaceOutput, OutputsPlaced, Check, front, Before, model
  <2> QED BY <2>1, <2>2, <2>3
<1>2. asm' = << >>
  BY <1>1 DEF TextInv
<1>3. ASSUME step' = "generate" PROVE i' \in 1 .. Len(layers') + 1 /\ GeneratedHere'
  <2>1. Len(layers) \in Nat /\ i' = 1 /\ layers' = layers
    BY <1>1, <1>3 DEF LowerInv, IsModel
  <2>2. Generated(<< >>, 0)'
    BY GeneratedNone, PTL
  <2>3. i' - 1 = 0
    BY <2>1
  <2>4. GeneratedHere'
    BY <1>2, <2>2, <2>3 DEF GeneratedHere
  <2> QED BY <2>1, <2>4
<1> QED BY <1>1, <1>2, <1>3 DEF TextInv, Before

\* Kernel after kernel, and the epilogue.
LEMMA GenerateTexts == LowerInv /\ TextInv /\ (GenerateLayer \/ GenerateEpilogue) => TextInv'
<1> SUFFICES ASSUME LowerInv, TextInv, GenerateLayer \/ GenerateEpilogue PROVE TextInv'
  OBVIOUS
<1>1. PICK n : n = i - 1
  OBVIOUS
<1>2. PICK s : s = asm
  OBVIOUS
<1>3. /\ Len(layers) \in Nat /\ (\A k \in 1 .. Len(layers) : IsLayer(layers[k])) /\ UNCHANGED <<layers, x, w>>
      /\ step = "generate"
  BY DEF LowerInv, IsModel, GenerateLayer, GenerateEpilogue, model, plan
<1>4. n \in Nat /\ n + 1 = i /\ n <= Len(layers) /\ Generated(s, n)
  <2>1. i \in 1 .. Len(layers) + 1 /\ Generated(asm, i - 1)
    BY <1>3 DEF TextInv, GeneratedHere
  <2> QED BY <1>1, <1>2, <1>3, <2>1
<1>5. CASE GenerateLayer
  <2>1. i <= Len(layers) /\ asm' = asm \o Kernel(i, layers[i], x[i], x[i + 1], w[i]) /\ i' = i + 1 /\ step' = step
    BY <1>5 DEF GenerateLayer
  <2>2. PICK c : c = asm'
    OBVIOUS
  <2>3. c = s \o KernelOf(n + 1)
    BY <1>2, <1>4, <2>1, <2>2 DEF KernelOf
  <2>4. Generated(c, n + 1)
    <3>1. \A k \in 1 .. n + 1 : IsLayer(layers[k])
      <4>1. \A k \in 1 .. n + 1 : k \in 1 .. Len(layers)
        BY <1>3, <1>4, <2>1
      <4> QED BY <1>3, <4>1, Zenon
    <3>2. Generated(s \o KernelOf(n + 1), n + 1)
      BY <1>4, <3>1, GeneratedNext, Zenon
    <3> QED BY <2>3, <3>2, Zenon
  <2>5. PICK m : m = n + 1
    OBVIOUS
  <2>6. Generated(c, m)'
    BY <1>3, <2>4, <2>5, KernelsStay
  <2>7. i' - 1 = m /\ i' \in 1 .. Len(layers') + 1
    BY <1>3, <1>4, <2>1, <2>5
  <2>8. GeneratedHere'
    BY <2>2, <2>6, <2>7 DEF GeneratedHere
  <2> QED BY <1>3, <2>1, <2>7, <2>8 DEF TextInv, Before
<1>6. CASE GenerateEpilogue
  <2>1. /\ i > Len(layers) /\ asm' = asm \o Epilogue(x[i], OutLen(layers[i - 1]))
        /\ step' \in {"rejected", "evaluate"}
    BY <1>6 DEF GenerateEpilogue
  <2>2. PICK c : c = asm'
    OBVIOUS
  <2>3. n = Len(layers) /\ c = s \o Epilogue(x[n + 1], OutLen(layers[n]))
    <3>1. n = Len(layers)
      BY <1>3, <1>4, <2>1
    <3> QED BY <1>1, <1>2, <1>4, <2>1, <2>2, <3>1, Zenon
  <2>4. Entire(c)
    <3>1. \A k \in 1 .. n : IsLayer(layers[k])
      BY <1>3, <2>3
    <3>2. Entire(s \o Epilogue(x[n + 1], OutLen(layers[n])))
      BY <1>4, <2>3, <3>1, EntireText, Zenon
    <3> QED BY <2>3, <3>2, Zenon
  <2>5. Entire(c)'
    BY <1>3, <2>4, KernelsStay
  <2>6. EntireAsm'
    BY <2>2, <2>5 DEF EntireAsm
  <2> QED BY <2>1, <2>6 DEF TextInv, Before
<1> QED BY <1>5, <1>6

\* Nobody else writes it.
LEMMA RestTexts ==
  GInv /\ TextInv /\ (((EvaluateLayer \/ WriteFiles) /\ UNCHANGED asmvars) \/ OpenFile \/ Assemble \/ LoadAndStart \/ Execute \/ UNCHANGED vars)
    => TextInv'
<1> SUFFICES ASSUME GInv, TextInv,
                    ((EvaluateLayer \/ WriteFiles) /\ UNCHANGED asmvars) \/ OpenFile \/ Assemble \/ LoadAndStart \/ Execute \/ UNCHANGED vars
             PROVE  TextInv'
  OBVIOUS
<1>1. UNCHANGED <<layers, x, w>>
  BY DEF EvaluateLayer, WriteFiles, OpenFile, Assemble, LoadAndStart, Execute, vars, compiler, planvars, front, model, plan
<1>2. \A s : Entire(s) => Entire(s)'
  BY <1>1, KernelsStay
<1>3. EntireAsm /\ asm' = asm => EntireAsm'
  BY <1>2 DEF EntireAsm
<1>4. EntireSource /\ source' = source => EntireSource'
  BY <1>2 DEF EntireSource
<1>5. CASE (EvaluateLayer \/ WriteFiles) /\ UNCHANGED asmvars
  <2>1. step = "evaluate" /\ step' \in {"evaluate", "asm"} /\ asm' = asm /\ source' = source
    BY <1>5 DEF EvaluateLayer, WriteFiles, asmvars
  <2>2. source = << >>
    BY <2>1 DEF GInv, CodeInv, NoText, InState, Fresh
  <2> QED BY <1>3, <2>1, <2>2 DEF TextInv, Before
<1>6. CASE OpenFile
  <2>1. step = "asm" /\ step' = step /\ source = << >> /\ source' = asm /\ asm' = << >>
    BY <1>6 DEF OpenFile, planvars
  <2>2. EntireSource'
    <3>1. PICK s : s = asm
      OBVIOUS
    <3>2. Entire(s)'
      BY <1>2, <2>1, <3>1 DEF TextInv, EntireAsm
    <3> QED BY <2>1, <3>1, <3>2 DEF EntireSource
  <2>3. source' = << >> => EntireAsm'
    BY <2>1, <2>2 DEF EntireSource, EntireAsm
  <2> QED BY <2>1, <2>2, <2>3 DEF TextInv, Before
<1>7. CASE Assemble
  <2>1. step = "asm" /\ step' = step /\ source # << >> /\ AsmNext
    BY <1>7 DEF Assemble, compiler, planvars
  <2>2. source' = source
    BY <2>1 DEF AsmNext, Scan, Rewind, Emit, Exit, Finish
  <2> QED BY <1>4, <2>1, <2>2 DEF TextInv, Before
<1>8. CASE LoadAndStart
  <2>1. step = "asm" /\ phase = "done" /\ step' = "run" /\ source' = source
    BY <1>8 DEF LoadAndStart, asmvars
  <2>2. source # << >>
    BY <2>1 DEF GInv, CodeInv, NoText, InState, Fresh, AtWork
  <2> QED BY <1>4, <2>1, <2>2 DEF TextInv, Before
<1>9. CASE Execute
  <2>1. step = "run" /\ step' = step /\ source' = source
    BY <1>9 DEF Execute, compiler, planvars, asmvars
  <2> QED BY <1>4, <2>1 DEF TextInv, Before
<1>10. CASE UNCHANGED vars
  <2>1. UNCHANGED <<step, i, asm, source, layers, x, w>>
    BY <1>10 DEF vars, compiler, planvars, front, model, plan, asmvars
  <2>2. GeneratedHere => GeneratedHere'
    BY <2>1, KernelsStay DEF GeneratedHere
  <2> QED BY <1>3, <1>4, <2>1, <2>2 DEF TextInv
<1> QED BY <1>5, <1>6, <1>7, <1>8, <1>9, <1>10

\* Every step.
LEMMA TextKeeps == GInv /\ TextInv /\ [Next]_vars => TextInv'
<1> SUFFICES ASSUME GInv, TextInv, [Next]_vars PROVE TextInv'
  OBVIOUS
<1>1. CASE Compile
  <2>1. LowerInv /\ UNCHANGED asmvars /\ CompilerNext
    BY <1>1 DEF GInv, Compile
  <2> QED BY <2>1, FrontTexts, GenerateTexts, RestTexts DEF CompilerNext
<1> QED BY <1>1, RestTexts DEF Next

-----------------------------------------------------------------------------
(* What is evaluated, and the reply.                                        *)
EvaluatedHere == Evaluated(i - 1)
EvaluatedAll  == Evaluated(Len(layers))
Answered      == expect = Reply(acts[Len(layers)])

\* The outputs of the layers, and the reply.
ActsInv ==
  /\ step \in Before \cup {"generate"} => acts = << >>
  /\ step = "evaluate" => i \in 1 .. Len(layers) + 1 /\ Len(acts) = i - 1 /\ (\E S : acts \in Seq(S)) /\ EvaluatedHere
  /\ step \in {"asm", "run"} => EvaluatedAll /\ Answered

\* While the layers and their outputs stay, they are evaluated.
LEMMA EvaluatedStays ==
  ASSUME UNCHANGED <<layers, input, acts>>
  PROVE  \A n : Evaluated(n) => Evaluated(n)'
  BY DEF Evaluated, Fed

\* Up to the evaluation nothing is evaluated.
LEMMA FrontActs ==
  LowerInv /\ ActsInv /\ (Open \/ Lower \/ Plan \/ GenerateLayer \/ GenerateEpilogue) => ActsInv'
<1> SUFFICES ASSUME LowerInv, ActsInv, Open \/ Lower \/ Plan \/ GenerateLayer \/ GenerateEpilogue PROVE ActsInv'
  OBVIOUS
<1>1. /\ step \in Before \cup {"generate"} /\ acts' = acts
      /\ step' \in Before \cup {"generate", "rejected", "evaluate"}
      /\ (step' = "evaluate" => i' = 1 /\ layers' = layers)
  <2>1. CASE Open
    BY <2>1 DEF Open, Before
  <2>2. CASE Lower
    BY <2>2 DEF Lower, LowerLinear, LowerConv, LowerPool, LowerFlatten, LowerArgmax, RejectGraph, At, Becomes, front, Before
  <2>3. CASE Plan
    BY <2>3 DEF Plan, PlanStep, PlaceWeights, RejectWeights, WeightsPlaced, PlaceOutput, OutputsPlaced, Check, front, Before, model
  <2>4. CASE GenerateLayer
    BY <2>4 DEF GenerateLayer, Before
  <2>5. CASE GenerateEpilogue
    BY <2>5 DEF GenerateEpilogue, Before, model
  <2> QED BY <2>1, <2>2, <2>3, <2>4, <2>5
<1>2. acts' = << >>
  BY <1>1 DEF ActsInv
<1>3. ASSUME step' = "evaluate"
      PROVE  i' \in 1 .. Len(layers') + 1 /\ Len(acts') = i' - 1 /\ acts' \in Seq({}) /\ EvaluatedHere'
  <2>1. Len(layers) \in Nat /\ i' = 1 /\ layers' = layers
    BY <1>1, <1>3 DEF LowerInv, IsModel
  <2>2. i' \in 1 .. Len(layers') + 1 /\ i' - 1 = 0
    BY <2>1
  <2>3. Evaluated(0)'
    BY DEF Evaluated
  <2>4. EvaluatedHere'
    BY <2>2, <2>3 DEF EvaluatedHere
  <2> QED BY <1>2, <2>2, <2>4
<1> QED BY <1>1, <1>2, <1>3 DEF ActsInv, Before

\* Layer after layer.
LEMMA EvaluateActs == LowerInv /\ ActsInv /\ EvaluateLayer => ActsInv'
<1> SUFFICES ASSUME LowerInv, ActsInv, EvaluateLayer PROVE ActsInv'
  OBVIOUS
<1>1. PICK n : n = i - 1
  OBVIOUS
<1>2. PICK v : v = EvalLayer(layers[i], IF i = 1 THEN input ELSE acts[i - 1])
  OBVIOUS
<1>3. /\ step = "evaluate" /\ step' = step /\ i <= Len(layers) /\ acts' = Append(acts, v) /\ i' = i + 1
      /\ UNCHANGED <<layers, input>>
  BY <1>2 DEF EvaluateLayer, model
<1>4. /\ Len(layers) \in Nat /\ i \in 1 .. Len(layers) + 1 /\ Len(acts) = n /\ Evaluated(n)
  BY <1>1, <1>3 DEF LowerInv, IsModel, ActsInv, EvaluatedHere
<1>5. n \in Nat /\ n + 1 = i /\ i' - 1 = n + 1 /\ i' \in 1 .. Len(layers') + 1
  BY <1>1, <1>3, <1>4
<1>6. PICK S : acts \in Seq(S)
  BY <1>3 DEF ActsInv
<1>7. /\ acts' \in Seq(S \cup {v}) /\ Len(acts') = n + 1 /\ acts'[n + 1] = v
      /\ \A k \in 1 .. n : acts'[k] = acts[k]
  BY <1>3, <1>4, <1>5, <1>6
<1>8. \A k \in 1 .. n + 1 : Fed(k)' = Fed(k)
  <2> SUFFICES ASSUME NEW k \in 1 .. n + 1 PROVE Fed(k)' = Fed(k)
    OBVIOUS
  <2>1. k # 1 => k - 1 \in 1 .. n
    BY <1>5
  <2> QED BY <1>3, <1>7, <2>1 DEF Fed
<1>9. Evaluated(n + 1)'
  <2> SUFFICES ASSUME NEW k \in 1 .. n + 1 PROVE acts'[k] = EvalLayer(layers[k], Fed(k))
    BY <1>3, <1>8 DEF Evaluated
  <2>1. CASE k = n + 1
    BY <1>2, <1>5, <1>7, <2>1 DEF Fed
  <2>2. CASE k # n + 1
    <3>1. k \in 1 .. n
      BY <1>5, <2>2
    <3> QED BY <1>4, <1>7, <3>1 DEF Evaluated
  <2> QED BY <2>1, <2>2
<1>10. EvaluatedHere'
  <2>1. PICK m : m = n + 1
    OBVIOUS
  <2>2. Evaluated(m)' /\ i' - 1 = m
    BY <1>5, <1>9, <2>1
  <2> QED BY <2>2 DEF EvaluatedHere
<1>11. Len(acts') = i' - 1 /\ \E T : acts' \in Seq(T)
  BY <1>5, <1>7
<1> QED BY <1>3, <1>5, <1>10, <1>11 DEF ActsInv, Before

\* The reply is written, and nobody touches it.
LEMMA RestActs ==
  LowerInv /\ ActsInv /\ (WriteFiles \/ OpenFile \/ Assemble \/ LoadAndStart \/ Execute \/ UNCHANGED vars) => ActsInv'
<1> SUFFICES ASSUME LowerInv, ActsInv, WriteFiles \/ OpenFile \/ Assemble \/ LoadAndStart \/ Execute \/ UNCHANGED vars
             PROVE  ActsInv'
  OBVIOUS
<1>1. UNCHANGED <<layers, input, acts, i>>
  BY DEF WriteFiles, OpenFile, Assemble, LoadAndStart, Execute, vars, compiler, planvars, front, model
<1>2. EvaluatedHere => EvaluatedHere'
  BY <1>1, EvaluatedStays DEF EvaluatedHere
<1>3. EvaluatedAll => EvaluatedAll'
  BY <1>1, EvaluatedStays DEF EvaluatedAll
<1>4. CASE WriteFiles
  <2>1. /\ step = "evaluate" /\ i > Len(layers) /\ step' = "asm"
        /\ expect' = <<Len(acts[i - 1]) + 1>> \o acts[i - 1] \o <<Argmax(acts[i - 1]) - 1>>
    BY <1>4 DEF WriteFiles
  <2>2. i - 1 = Len(layers)
    BY <2>1 DEF LowerInv, IsModel, ActsInv
  <2>3. EvaluatedAll
    BY <2>1, <2>2 DEF ActsInv, EvaluatedHere, EvaluatedAll
  <2>4. Answered'
    BY <1>1, <2>1, <2>2 DEF Answered, Reply
  <2> QED BY <1>3, <2>1, <2>3, <2>4 DEF ActsInv, Before
<1>5. CASE OpenFile \/ Assemble \/ LoadAndStart \/ Execute
  <2>1. step \in {"asm", "run"} /\ step' \in {"asm", "run"} /\ expect' = expect
    BY <1>5 DEF OpenFile, Assemble, LoadAndStart, Execute, compiler, planvars, front
  <2>2. Answered => Answered'
    BY <1>1, <2>1 DEF Answered
  <2> QED BY <1>3, <2>1, <2>2 DEF ActsInv, Before
<1>6. CASE UNCHANGED vars
  <2>1. step' = step /\ expect' = expect
    BY <1>6 DEF vars, compiler, planvars, front
  <2>2. Answered => Answered'
    BY <1>1, <2>1 DEF Answered
  <2> QED BY <1>1, <1>2, <1>3, <2>1, <2>2 DEF ActsInv
<1> QED BY <1>4, <1>5, <1>6

\* Every step.
LEMMA ActsKeeps == LowerInv /\ ActsInv /\ [Next]_vars => ActsInv'
  BY FrontActs, EvaluateActs, RestActs DEF Next, Compile, CompilerNext

-----------------------------------------------------------------------------
(* The run: the plan and the text of the model are under the warp.          *)
\* The program memory holds the words that the assembler wrote for the text.
Burnt ==
  /\ AtWork /\ phase = "done" /\ DOMAIN prog = 0 .. Len(words) - 1
  /\ \A p \in DOMAIN prog : prog[p].does = Decode(words[p + 1])

\* While the chip runs.
RunInv == step = "run" => Burnt /\ Read /\ OnTheWay /\ warp_status \in {"READY", "DONE"}

\* The whole of it, from the file to the run.
GraphInv == PInv /\ GInv /\ FlowInv /\ StoreInv /\ TextInv /\ ActsInv /\ RunInv

\* When the run begins the plan is what it relies on.
LEMMA RunIsSound ==
  ASSUME Sizes, GraphInv, step = "run"
  PROVE  Relied
<1>1. PInv /\ LowerInv /\ FlowInv /\ StoreInv /\ ActsInv
  BY DEF GraphInv, GInv
<1>2. step \in Planned /\ step \in Placing
  BY DEF Placing, Planned
<1>3. Len(layers) \in Nat \ {0}
  <2>1. layers # << >>
    BY <1>1 DEF FlowInv
  <2>2. IsModel(input, budget, layers) /\ \E S : layers \in Seq(S)
    BY <1>1 DEF LowerInv
  <2>3. Len(layers) \in Nat
    BY <2>2 DEF IsModel
  <2> QED BY <2>1, <2>2, <2>3, FlowNat
<1>4. Len(x) = Len(layers) + 1 /\ x[1] = 0 /\ Stored(Len(layers)) /\ Accepted
  BY <1>1, <1>2 DEF StoreInv, StoredAll
<1>5. x \in Seq(Nat) /\ cursor \in Nat /\ budget \in Nat /\ Len(image) <= cursor /\ cursor <= budget
  BY <1>1, <1>2 DEF PInv, PTyped, Position
<1>6. \A k \in 1 .. Len(layers) : Settled(k)
  <2>1. \A k \in 1 .. Len(x) - 1 : Settled(k)
    BY <1>1, <1>2 DEF PInv
  <2>2. Len(x) - 1 = Len(layers)
    BY <1>3, <1>4
  <2> QED BY <2>1, <2>2
<1>7. cursor <= AddrSize
  <2>1. budget <= AddrSize
    BY <1>1 DEF FlowInv
  <2>2. AddrSize \in Nat
    BY DEF Sizes, Words
  <2> QED BY <1>5, <2>1, <2>2
<1>8. Chain(Len(layers))
  BY <1>1 DEF FlowInv
<1>9. Evaluated(Len(layers))
  BY <1>1 DEF ActsInv, EvaluatedAll
<1> QED BY <1>3, <1>4, <1>5, <1>6, <1>7, <1>8, <1>9 DEF Relied

\* The words of the text lie where the text says.
LEMMA RunIsInPlace ==
  ASSUME Sizes, Burnt, Entire(source)
  PROVE  InPlace
<1>1. Unique(source)
  BY DEF Entire
<1> QED BY <1>1, IsInPlace DEF Burnt

\* The whole text, run from its start, ends as the plan promises.
LEMMA RunCompletes ==
  ASSUME Sizes, GraphInv, step = "run"
  PROVE  \E u : Reaches(Start, u) /\ Complete(u)
<1>1. Relied
  BY RunIsSound
<1>2. Entire(source) /\ Burnt
  BY DEF GraphInv, TextInv, EntireSource, RunInv
<1>3. InPlace
  BY <1>2, RunIsInPlace
<1>4. PICK pos : /\ Laid(Len(layers), pos)
                 /\ Code(pos[Len(layers) + 1], Epilogue(x[Len(layers) + 1], OutLen(layers[Len(layers)])), Len(source) + 1)
  BY <1>2, FoundAs
<1> QED BY <1>1, <1>3, <1>4, Completes

\* The words are burnt when the warp starts.
LEMMA StartRuns ==
  ASSUME Sizes, GraphInv, LoadAndStart
  PROVE  RunInv'
<1>1. /\ step = "asm" /\ phase = "done" /\ Chip!Load(words, Loaded) /\ image' = image /\ UNCHANGED asmvars
      /\ words' = words /\ phase' = phase
  BY DEF LoadAndStart, plan, asmvars
<1>2. AtWork
  BY <1>1 DEF GraphInv, GInv, CodeInv, NoText, InState, Fresh
<1>3. AtWork'
  <2>1. IInv /\ UNCHANGED asmvars => IInv'
    BY RestKeeps
  <2> QED BY <1>1, <1>2, <2>1 DEF AtWork, Counted, asmvars
<1>4. /\ OnTheWay' /\ Read' /\ \A p \in DOMAIN prog' : prog'[p].does = Decode(words[p + 1])
      /\ DOMAIN prog' = 0 .. Len(words) - 1 /\ warp_status' = "READY"
  BY <1>1, WarpStarts
<1>5. Burnt'
  BY <1>1, <1>3, <1>4 DEF Burnt
<1> QED BY <1>4, <1>5 DEF RunInv

\* The warp goes on.
LEMMA WarpRuns ==
  ASSUME Sizes, GraphInv, Execute
  PROVE  RunInv'
<1>1. step = "run" /\ Chip!Run /\ image' = image /\ UNCHANGED asmvars /\ words' = words /\ phase' = phase
  BY DEF Execute, compiler, planvars, plan, asmvars
<1>2. Burnt /\ Read /\ OnTheWay
  BY <1>1 DEF GraphInv, RunInv
<1>3. prog' = prog /\ warp_status' \in {"READY", "DONE"}
  BY <1>1 DEF Chip!Run, Chip!Execute, Chip!Split, Chip!Rejoin, Chip!Plain, Chip!Ret, Chip!Diverge, Chip!Uniform,
         Chip!SyncPop, Chip!SyncRestore, Chip!Executes
<1>4. AtWork'
  <2>1. IInv /\ UNCHANGED asmvars => IInv'
    BY RestKeeps
  <2> QED BY <1>1, <1>2, <2>1 DEF Burnt, AtWork, Counted, asmvars
<1>5. Burnt'
  BY <1>1, <1>2, <1>3, <1>4 DEF Burnt
<1>6. Read'
  BY <1>2, <1>3 DEF Read
<1>7. OnTheWay'
  <2>1. PICK u : Reaches(Start, u) /\ Complete(u)
    BY <1>1, RunCompletes
  <2>2. u.halted = TRUE
    BY <2>1 DEF Complete
  <2> QED BY <1>1, <1>2, <2>1, <2>2, WarpStep
<1> QED BY <1>3, <1>5, <1>6, <1>7 DEF RunInv

\* Nobody else runs.
LEMMA OthersRun ==
  ASSUME GraphInv, Compile \/ OpenFile \/ Assemble \/ UNCHANGED vars
  PROVE  RunInv'
<1>1. CASE Compile
  <2>1. step' # "run"
    <3>1. CASE Open
      BY <3>1 DEF Open
    <3>2. CASE Lower
      BY <3>2 DEF Lower, LowerLinear, LowerConv, LowerPool, LowerFlatten, LowerArgmax, RejectGraph, At, Becomes
    <3>3. CASE Plan
      BY <3>3 DEF Plan, PlanStep, PlaceWeights, RejectWeights, WeightsPlaced, PlaceOutput, OutputsPlaced, Check
    <3>4. CASE GenerateLayer \/ GenerateEpilogue \/ EvaluateLayer \/ WriteFiles
      BY <3>4 DEF GenerateLayer, GenerateEpilogue, EvaluateLayer, WriteFiles
    <3> QED BY <1>1, <3>1, <3>2, <3>3, <3>4 DEF Compile, CompilerNext
  <2> QED BY <2>1 DEF RunInv
<1>2. CASE OpenFile \/ Assemble
  <2>1. step' = "asm"
    BY <1>2 DEF OpenFile, Assemble, compiler, planvars
  <2> QED BY <2>1 DEF RunInv
<1>3. CASE UNCHANGED vars
  <2>1. step' = step /\ UNCHANGED asmvars /\ UNCHANGED chip /\ image' = image
    BY <1>3 DEF vars, compiler, planvars, plan
  <2>2. UNCHANGED <<words, phase, source, starts, at, pc, labels>> /\ UNCHANGED <<prog, warp_pc, active_mask, stack, warp_status, lanes>>
    BY <2>1 DEF asmvars, chip
  <2>3. AtWork => AtWork'
    <3>1. IInv /\ UNCHANGED asmvars => IInv'
      BY RestKeeps
    <3> QED BY <2>1, <2>2, <3>1 DEF AtWork, Counted
  <2>4. Burnt => Burnt'
    BY <2>2, <2>3 DEF Burnt
  <2>5. Read => Read'
    BY <2>2 DEF Read
  <2>6. OnTheWay => OnTheWay'
    <3>1. Start' = Start /\ \A t, u : Reaches(t, u)' <=> Reaches(t, u)
      BY <2>1, <2>2, ReachesStays
    <3>2. \A t : Carries(t) => Carries(t)'
      BY <2>2, <3>1 DEF Carries
    <3> QED BY <2>2, <3>1, <3>2 DEF OnTheWay
  <2> QED BY <2>1, <2>2, <2>4, <2>5, <2>6 DEF GraphInv, RunInv
<1> QED BY <1>1, <1>2, <1>3

\* Everything holds where the files are opened.
LEMMA GraphBegins == Sizes /\ BudgetsFit /\ Init => GraphInv
<1> SUFFICES ASSUME Sizes, BudgetsFit, Init PROVE GraphInv
  OBVIOUS
<1>1. /\ PlanInit /\ graph \in Graphs /\ step = "open" /\ i = 1 /\ input = << >> /\ budget = 0 /\ layers = << >>
      /\ x = <<0>> /\ w = << >> /\ asm = << >> /\ acts = << >>
  BY DEF Init, PlanInit, FrontInit
<1>2. PInv
  BY <1>1, PInitially
<1>3. GInv
  BY GInitially
<1>5. FlowInv
  <2>1. budget <= AddrSize
    BY <1>1 DEF Sizes, Words
  <2>2. Chain(Len(layers))
    BY <1>1 DEF Chain
  <2> QED BY <1>1, <2>1, <2>2 DEF FlowInv
<1>6. StoreInv /\ TextInv /\ ActsInv /\ RunInv
  BY <1>1 DEF StoreInv, TextInv, ActsInv, RunInv, Placing, Planned, Before
<1> QED BY <1>2, <1>3, <1>5, <1>6 DEF GraphInv

\* And every step keeps it.
LEMMA GraphKeeps == Sizes /\ NoEmpty /\ BudgetsFit /\ GraphInv /\ [Next]_vars => GraphInv'
<1> SUFFICES ASSUME Sizes, NoEmpty, BudgetsFit, GraphInv, [Next]_vars PROVE GraphInv'
  OBVIOUS
<1>1. PInv /\ GInv /\ LowerInv /\ FlowInv /\ StoreInv /\ TextInv /\ ActsInv
  BY DEF GraphInv, GInv
<1>2. [PlanNext]_planvars /\ LowerInv'
  BY <1>1, StepsPlan
<1>3. PInv' /\ StoreInv'
  BY <1>1, <1>2, PlannerKeeps, StoreKeeps
<1>4. GInv'
  BY <1>1, GKeeps
<1>5. FlowInv' /\ TextInv' /\ ActsInv'
  BY <1>1, FlowKeeps, TextKeeps, ActsKeeps
<1>6. RunInv'
  <2>1. CASE Compile \/ OpenFile \/ Assemble \/ UNCHANGED vars
    BY <2>1, OthersRun
  <2>2. CASE LoadAndStart
    BY <2>2, StartRuns
  <2>3. CASE Execute
    BY <2>3, WarpRuns
  <2> QED BY <2>1, <2>2, <2>3 DEF Next
<1> QED BY <1>3, <1>4, <1>5, <1>6 DEF GraphInv

\* The plan, the text, the data, the evaluation and the run of every graph.
THEOREM RunInductive == ASSUME Sizes, NoEmpty, BudgetsFit PROVE Spec => []GraphInv
<1>1. Init => GraphInv
  BY GraphBegins
<1>2. GraphInv /\ [Next]_vars => GraphInv'
  BY GraphKeeps
<1> QED BY <1>1, <1>2, PTL DEF Spec

\* What the invariant says of the lane.
LEMMA LaneIsPlanned ==
  ASSUME Sizes, GraphInv, step = "run"
  PROVE  /\ lanes[0].written \subseteq Outputs /\ lanes[0].unit.acc \in Sums
         /\ \A a \in lanes[0].read : a < Len(image) \/ a \in lanes[0].written
         /\ warp_status = "DONE" => lanes[0].written = Outputs /\ lanes[0].out = expect
<1>1. PICK u : Reaches(Start, u) /\ Complete(u)
  BY RunCompletes
<1>2. OnTheWay /\ warp_status \in {"READY", "DONE"}
  BY DEF GraphInv, RunInv
<1>3. /\ lanes[0].written \subseteq u.written /\ lanes[0].unit.acc \in Sums
      /\ \A a \in lanes[0].read : a < Len(image) \/ a \in lanes[0].written
      /\ warp_status = "DONE" => lanes[0].written = u.written /\ lanes[0].out = u.out
  BY <1>1, <1>2, LaneIsSound
<1>4. u.written = Outputs
  <2>1. u.written = UNION {Output(k) : k \in 1 .. Len(layers)}
    BY <1>1 DEF Complete
  <2>2. DOMAIN layers = 1 .. Len(layers)
    <3>1. \E S : layers \in Seq(S)
      BY DEF GraphInv, GInv, LowerInv
    <3> QED BY <3>1
  <2> QED BY <2>1, <2>2 DEF Outputs
<1>5. u.out = expect
  BY <1>1 DEF Complete, GraphInv, ActsInv, Answered
<1> QED BY <1>3, <1>4, <1>5

\* On a chip of the kernels' widths every kernel of every graph loads only what was
\* loaded or written before and stores to every byte of its outputs and nowhere else.
THEOREM GraphAccessesPlanned ==
  ASSUME Sizes, NoEmpty, BudgetsFit PROVE Spec => []EveryAccessIsPlanned
<1>1. GraphInv => EveryAccessIsPlanned
  BY LaneIsPlanned DEF EveryAccessIsPlanned
<1> QED BY <1>1, RunInductive, PTL

\* And the reply of the chip is the one that eval computed.
THEOREM GraphKernelMatchesEval ==
  ASSUME Sizes, NoEmpty, BudgetsFit PROVE Spec => []KernelMatchesEval
<1>1. GraphInv => KernelMatchesEval
  BY LaneIsPlanned DEF KernelMatchesEval, Ended
<1> QED BY <1>1, RunInductive, PTL

\* The sum that FMAC writes to the 32 bits of fc_mac.sv is the sum.
AccumulatorFits == step = "run" => lanes[0].unit.acc \in Sums

\* What check's worst-case test is for (graph_compiler.rs:318): while the kernel of a
\* graph that was accepted runs, no partial sum ever leaves 32 bits. So the chip's
\* accumulator, an integer in Coprocessor and in eval, is the register of fc_mac.sv.
THEOREM GraphSumsFit ==
  ASSUME Sizes, NoEmpty, BudgetsFit PROVE Spec => []AccumulatorFits
<1>1. GraphInv => AccumulatorFits
  BY LaneIsPlanned DEF AccumulatorFits
<1> QED BY <1>1, RunInductive, PTL
=============================================================================
