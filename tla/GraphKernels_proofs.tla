------------------------ MODULE GraphKernels_proofs -------------------------
(***************************************************************************)
(* For every layer that the compiler accepts, the generated kernel computes*)
(* what eval says of it, whatever the addresses and wherever it stands in  *)
(* the program; and the epilogue sends the reply.  Each loop has an        *)
(* invariant, one lemma for a round and one for the induction over rounds. *)
(***************************************************************************)
EXTENDS GraphSteps_proofs

-----------------------------------------------------------------------------
(* What every kernel is given and does.                                     *)
InLen(l) ==
  CASE l.kind = "Dense" -> l.in_f
    [] l.kind = "Conv"  -> l.h * l.w
    [] l.kind = "Pool"  -> l.c * (l.h * l.w)

\* The input and the weights of the layer lie where they should, clear of the
\* output, which lies in the memory and clear of the UART.
Ready(c, l, in, from, to, ws) ==
  /\ from \in Nat /\ to \in Nat /\ ws \in Nat
  /\ from + InLen(l) <= AddrSize /\ ws + Weights(l) <= AddrSize /\ to + OutLen(l) <= AddrSize
  /\ \A a \in 0 .. InLen(l) - 1 :
       /\ in[a + 1] \in Bytes /\ c.mem[from + a] = in[a + 1] /\ Readable(c, from + a)
       /\ from + a \notin to .. to + OutLen(l) - 1
  /\ \A a \in 0 .. Weights(l) - 1 :
       /\ l.weights[a + 1] \in -128 .. 127 /\ c.mem[ws + a] = Byte(l.weights[a + 1]) /\ Readable(c, ws + a)
       /\ ws + a \notin to .. to + OutLen(l) - 1
  /\ MMIO_TX \notin to .. to + OutLen(l) - 1

\* d is c with the first n bytes of f at to, but for the registers and the sum.
Filled(c, d, to, f, n) ==
  /\ d.out = c.out /\ d.written = c.written \cup (to .. to + n - 1)
  /\ \A a \in 0 .. AddrSize - 1 : d.mem[a] = IF a \in to .. to + n - 1 THEN f[a - to + 1] ELSE c.mem[a]

\* Nothing is filled yet.
LEMMA FilledNone == ASSUME NEW c, NEW to \in Nat, NEW f PROVE Filled(c, c, to, f, 0)
<1>1. to .. to + 0 - 1 = {}
  OBVIOUS
<1> QED BY <1>1 DEF Filled

\* What leaves the memory alone leaves it filled.
LEMMA FilledSame ==
  ASSUME NEW c, NEW d, NEW e, NEW to, NEW f, NEW n, Filled(c, d, to, f, n),
         e.mem = d.mem, e.out = d.out, e.written = d.written
  PROVE  Filled(c, e, to, f, n)
  BY DEF Filled

\* The next byte.
LEMMA FilledNext ==
  ASSUME AddrSize \in Nat, NEW c, NEW d, Ok(d), NEW to \in Nat, NEW f, NEW n \in Nat, Filled(c, d, to, f, n),
         to + n < AddrSize, NEW v, v = f[n + 1], NEW rs, NEW acc, NEW e, Same(Poke(Hold(d, acc), to + n, v), e, rs)
  PROVE  Filled(c, e, to, f, n + 1)
<1>1. /\ e.mem = [d.mem EXCEPT ![to + n] = v] /\ e.out = d.out /\ e.written = d.written \cup {to + n}
  BY DEF Same, Poke, Hold, Shot
<1>2. /\ d.out = c.out /\ d.written = c.written \cup (to .. to + n - 1)
      /\ \A a \in 0 .. AddrSize - 1 : d.mem[a] = IF a \in to .. to + n - 1 THEN f[a - to + 1] ELSE c.mem[a]
      /\ DOMAIN d.mem = 0 .. AddrSize - 1
  BY DEF Filled, Ok
<1>3. to .. to + (n + 1) - 1 = (to .. to + n - 1) \cup {to + n}
  OBVIOUS
<1>4. ASSUME NEW a \in 0 .. AddrSize - 1
      PROVE  e.mem[a] = IF a \in to .. to + (n + 1) - 1 THEN f[a - to + 1] ELSE c.mem[a]
  <2>1. CASE a = to + n
    <3>1. e.mem[a] = v /\ a - to + 1 = n + 1 /\ a \in to .. to + (n + 1) - 1
      BY <1>1, <1>2, <2>1
    <3> QED BY <3>1
  <2>2. CASE a # to + n
    <3>1. e.mem[a] = d.mem[a] /\ (a \in to .. to + (n + 1) - 1 <=> a \in to .. to + n - 1)
      BY <1>1, <1>2, <1>3, <2>2
    <3> QED BY <1>2, <3>1
  <2> QED BY <2>1, <2>2
<1> QED BY <1>1, <1>2, <1>3, <1>4 DEF Filled

\* The input and the weights lie where they should.
Given(d, l, in, from, ws) ==
  /\ \A a \in 0 .. InLen(l) - 1 :
       /\ from + a \in Nat /\ from + a < AddrSize /\ from + a + 1 \in Words /\ Readable(d, from + a)
       /\ d.mem[from + a] = in[a + 1]
  /\ \A a \in 0 .. Weights(l) - 1 :
       /\ ws + a \in Nat /\ ws + a < AddrSize /\ ws + a + 1 \in Words /\ Readable(d, ws + a)
       /\ d.mem[ws + a] = Byte(l.weights[a + 1])

\* What the kernel is given is still there while it writes its output.
LEMMA StillThere ==
  ASSUME Sizes, NEW c, NEW d, NEW l, NEW in, NEW from, NEW to, NEW ws, Ready(c, l, in, from, to, ws),
         InLen(l) \in Nat, Weights(l) \in Nat, OutLen(l) \in Nat,
         NEW f, NEW n \in 0 .. OutLen(l), Filled(c, d, to, f, n)
  PROVE  Given(d, l, in, from, ws)
<1>1. from \in Nat /\ to \in Nat /\ ws \in Nat /\ AddrSize \in Nat /\ AddrSize < U16 /\ U16 \in Nat
  BY DEF Ready, Sizes, Words, U16
<1>2. ASSUME NEW a, Readable(c, a) PROVE Readable(d, a)
  BY <1>2 DEF Readable, Filled
<1>3. ASSUME NEW a \in Nat, a < AddrSize, a \notin to .. to + OutLen(l) - 1 PROVE d.mem[a] = c.mem[a]
  <2>1. a \in 0 .. AddrSize - 1 /\ a \notin to .. to + n - 1
    BY <1>1, <1>3
  <2> QED BY <2>1 DEF Filled
<1>4. ASSUME NEW a \in 0 .. InLen(l) - 1
      PROVE  /\ from + a \in Nat /\ from + a < AddrSize /\ from + a + 1 \in Words /\ Readable(d, from + a)
             /\ d.mem[from + a] = in[a + 1]
  <2>1. from + InLen(l) <= AddrSize
    BY DEF Ready
  <2>2. from + a \in Nat /\ from + a < AddrSize /\ from + a + 1 < U16
    BY <1>1, <2>1
  <2>3. /\ c.mem[from + a] = in[a + 1] /\ Readable(c, from + a) /\ from + a \notin to .. to + OutLen(l) - 1
    BY DEF Ready
  <2> QED BY <1>2, <1>3, <2>2, <2>3 DEF Words
<1>5. ASSUME NEW a \in 0 .. Weights(l) - 1
      PROVE  /\ ws + a \in Nat /\ ws + a < AddrSize /\ ws + a + 1 \in Words /\ Readable(d, ws + a)
             /\ d.mem[ws + a] = Byte(l.weights[a + 1])
  <2>1. ws + Weights(l) <= AddrSize
    BY DEF Ready
  <2>2. ws + a \in Nat /\ ws + a < AddrSize /\ ws + a + 1 < U16
    BY <1>1, <2>1
  <2>3. /\ c.mem[ws + a] = Byte(l.weights[a + 1]) /\ Readable(c, ws + a) /\ ws + a \notin to .. to + OutLen(l) - 1
    BY DEF Ready
  <2> QED BY <1>2, <1>3, <2>2, <2>3 DEF Words
<1> QED BY <1>4, <1>5 DEF Given

\* A signed byte is stored and read back as what it is.
LEMMA SignedByte == ASSUME NEW v \in -128 .. 127 PROVE Signed(Byte(v)) = v /\ Byte(v) \in Bytes
<1>1. CASE v >= 0
  <2>1. Byte(v) = v
    BY <1>1 DEF Byte
  <2> QED BY <1>1, <2>1 DEF Signed, Bytes
<1>2. CASE v < 0
  <2>1. Byte(v) = v + 256
    BY <1>2 DEF Byte
  <2> QED BY <1>2, <2>1 DEF Signed, Bytes
<1> QED BY <1>1, <1>2

\* Rows of n.
LEMMA Rows ==
  ASSUME NEW a \in Nat, NEW n \in Nat, NEW b \in Nat, a < b
  PROVE  /\ a * n \in Nat /\ b * n \in Nat /\ (a + 1) * n = a * n + n /\ a * n + n <= b * n
<1>1. a * n \in Nat /\ b * n \in Nat /\ (a + 1) * n = a * n + n
  BY ProductNat
<1>2. PICK e \in Nat : b = (a + 1) + e
  <2>1. b - (a + 1) \in Nat /\ b = (a + 1) + (b - (a + 1))
    OBVIOUS
  <2> QED BY <2>1
<1>3. b * n = (a + 1) * n + e * n /\ e * n \in Nat
  BY <1>2, ProductNat
<1> QED BY <1>1, <1>3

-----------------------------------------------------------------------------
(* The kernel of a dense layer.                                             *)
DenseAt(n, l, from, to, ws, P) ==
  /\ Code(P[1], Lit(0, ws), P[2]) /\ Code(P[2], Lit(2, from + l.in_f), P[3])
  /\ Code(P[3], Lit(3, to), P[4]) /\ Code(P[4], Lit(6, to + l.out_f), P[5])
  /\ Code(P[5], While(<<"neuron", n>>, 3, 6, <<"end", n>>), P[6]) /\ Code(P[6], Lit(1, from), P[7])
  /\ Code(P[7], While(<<"tap", n>>, 1, 2, <<"fire", n>>), P[8]) /\ Code(P[8], Tap(1, 0), P[9])
  /\ Code(P[9], Addi(1, 1, 1), P[10]) /\ Code(P[10], Addi(0, 0, 1), P[11]) /\ Code(P[11], Goto("BR", <<"tap", n>>), P[12])
  /\ Code(P[12], Here(<<"fire", n>>), P[13]) /\ Code(P[13], Fire(7, l.shift), P[14])
  /\ Code(P[14], Goto("BR", <<"neuron", n>>), P[15]) /\ Code(P[15], Here(<<"end", n>>), P[16])

\* Its pieces in the text.
LEMMA DenseCode ==
  ASSUME NEW n, NEW l, NEW from, NEW to, NEW ws, NEW m, NEW k, Code(m, GenDense(n, l, from, to, ws), k)
  PROVE  \E P : DenseAt(n, l, from, to, ws, P) /\ P[1] = m /\ P[16] = k
<1> DEFINE b1 == Lit(0, ws)
           b2 == Lit(2, from + l.in_f)
           b3 == Lit(3, to)
           b4 == Lit(6, to + l.out_f)
           b5 == While(<<"neuron", n>>, 3, 6, <<"end", n>>)
           b6 == Lit(1, from)
           b7 == While(<<"tap", n>>, 1, 2, <<"fire", n>>)
           b8 == Tap(1, 0)
           b9 == Addi(1, 1, 1)
           b10 == Addi(0, 0, 1)
           b11 == Goto("BR", <<"tap", n>>)
           b12 == Here(<<"fire", n>>)
           b13 == Fire(7, l.shift)
           b14 == Goto("BR", <<"neuron", n>>)
           b15 == Here(<<"end", n>>)
<1>1. /\ KnownCode(b1) /\ KnownCode(b2) /\ KnownCode(b3) /\ KnownCode(b4) /\ KnownCode(b5) /\ KnownCode(b6)
      /\ KnownCode(b7) /\ KnownCode(b8) /\ KnownCode(b9) /\ KnownCode(b10) /\ KnownCode(b11) /\ KnownCode(b12)
      /\ KnownCode(b13) /\ KnownCode(b14) /\ KnownCode(b15)
  BY Pieces, WhileKnown, MarkKnown
<1>2. Code(m, b1 \o b2 \o b3 \o b4 \o b5 \o b6 \o b7 \o b8 \o b9 \o b10 \o b11 \o b12 \o b13 \o b14 \o b15, k)
  BY Zenon DEF GenDense
<1> HIDE DEF b1, b2, b3, b4, b5, b6, b7, b8, b9, b10, b11, b12, b13, b14, b15
<1> DEFINE a3  == b1 \o b2 \o b3
           a7  == a3 \o b4 \o b5 \o b6 \o b7
           a11 == a7 \o b8 \o b9 \o b10 \o b11
<1>3. KnownCode(a3)
  BY <1>1, KnownCat
<1>4. KnownCode(a7)
  <2> HIDE DEF a3
  <2> QED BY <1>1, <1>3, KnownCat
<1>5. KnownCode(a11)
  <2> HIDE DEF a7
  <2> QED BY <1>1, <1>4, KnownCat
<1>6. PICK p12, p13, p14, p15 : /\ Code(m, a11, p12) /\ Code(p12, b12, p13) /\ Code(p13, b13, p14)
                                /\ Code(p14, b14, p15) /\ Code(p15, b15, k)
  <2>1. Code(m, a11 \o b12 \o b13 \o b14 \o b15, k)
    BY <1>2
  <2> HIDE DEF a11
  <2> QED BY <1>1, <1>5, <2>1, CodeFive
<1>7. PICK p8, p9, p10, p11 : /\ Code(m, a7, p8) /\ Code(p8, b8, p9) /\ Code(p9, b9, p10)
                              /\ Code(p10, b10, p11) /\ Code(p11, b11, p12)
  <2>1. Code(m, a7 \o b8 \o b9 \o b10 \o b11, p12)
    BY <1>6
  <2> HIDE DEF a7
  <2> QED BY <1>1, <1>4, <2>1, CodeFive
<1>8. PICK p4, p5, p6, p7 : /\ Code(m, a3, p4) /\ Code(p4, b4, p5) /\ Code(p5, b5, p6)
                            /\ Code(p6, b6, p7) /\ Code(p7, b7, p8)
  <2>1. Code(m, a3 \o b4 \o b5 \o b6 \o b7, p8)
    BY <1>7
  <2> HIDE DEF a3
  <2> QED BY <1>1, <1>3, <2>1, CodeFive
<1>9. PICK p2, p3 : Code(m, b1, p2) /\ Code(p2, b2, p3) /\ Code(p3, b3, p4)
  <2>1. Code(m, b1 \o b2 \o b3, p4)
    BY <1>8
  <2> QED BY <1>1, <2>1, CodeThree
<1> DEFINE P == <<m, p2, p3, p4, p5, p6, p7, p8, p9, p10, p11, p12, p13, p14, p15, k>>
<1>10. /\ P[1] = m /\ P[2] = p2 /\ P[3] = p3 /\ P[4] = p4 /\ P[5] = p5 /\ P[6] = p6 /\ P[7] = p7 /\ P[8] = p8
       /\ P[9] = p9 /\ P[10] = p10 /\ P[11] = p11 /\ P[12] = p12 /\ P[13] = p13 /\ P[14] = p14 /\ P[15] = p15
       /\ P[16] = k
  OBVIOUS
<1> HIDE DEF P
<1>11. DenseAt(n, l, from, to, ws, P)
  BY <1>6, <1>7, <1>8, <1>9, <1>10 DEF DenseAt, b1, b2, b3, b4, b5, b6, b7, b8, b9, b10, b11, b12, b13, b14, b15
<1> QED BY <1>10, <1>11

\* Its labels.
LEMMA DenseLabels ==
  ASSUME Sizes, InPlace, NEW n, NEW l, NEW from, NEW to, NEW ws, NEW P, DenseAt(n, l, from, to, ws, P)
  PROVE  /\ Labelled(<<"neuron", n>>, P[5]) /\ Labelled(<<"tap", n>>, P[7])
         /\ Labelled(<<"fire", n>>, P[12]) /\ Labelled(<<"end", n>>, P[15])
         /\ \A c : Goes(P[12], c, P[13], c) /\ Goes(P[15], c, P[16], c)
<1>1. \A s : <<s, n>> # NoLabel
  BY DEF NoLabel
<1>2. 0 \in Regs /\ 1 \in Regs /\ 2 \in Regs /\ 3 \in Regs /\ 6 \in Regs
  BY DEF Regs
<1>3. /\ Code(P[5], While(<<"neuron", n>>, 3, 6, <<"end", n>>), P[6])
      /\ Code(P[7], While(<<"tap", n>>, 1, 2, <<"fire", n>>), P[8])
      /\ Code(P[12], Here(<<"fire", n>>), P[13]) /\ Code(P[15], Here(<<"end", n>>), P[16])
  BY DEF DenseAt
<1>4. Labelled(<<"neuron", n>>, P[5]) /\ Labelled(<<"tap", n>>, P[7])
  BY <1>1, <1>2, <1>3, WhileGoes
<1>5. Labelled(<<"fire", n>>, P[12]) /\ Labelled(<<"end", n>>, P[15])
      /\ \A c : Goes(P[12], c, P[13], c) /\ Goes(P[15], c, P[16], c)
  BY <1>1, <1>3, HereGoes
<1> QED BY <1>4, <1>5

\* At neuron o, with c at the first line and d here.
AtNeuron(c, l, from, to, ws, f, P, o, d) ==
  /\ Goes(P[1], c, P[5], d) /\ Ok(d) /\ Filled(c, d, to, f, o) /\ d.acc = 0
  /\ d.regs[0] = ws + o * l.in_f /\ d.regs[2] = from + l.in_f /\ d.regs[3] = to + o /\ d.regs[6] = to + l.out_f

\* At its tap t, where g are the sums.
AtTap(c, l, from, to, ws, f, P, o, g, t, d) ==
  /\ Goes(P[1], c, P[7], d) /\ Ok(d) /\ Filled(c, d, to, f, o) /\ d.acc = g[t] /\ d.voted = TRUE
  /\ d.regs[0] = ws + (o * l.in_f + t) /\ d.regs[1] = from + t /\ d.regs[2] = from + l.in_f
  /\ d.regs[3] = to + o /\ d.regs[6] = to + l.out_f

\* A tap.
LEMMA DenseTap ==
  ASSUME Sizes, InPlace, NEW n, NEW l, IsLayer(l), l.kind = "Dense", NEW from, NEW to, NEW ws, NEW c, NEW in,
         Ready(c, l, in, from, to, ws), NEW P, DenseAt(n, l, from, to, ws, P), NEW f,
         NEW o \in 0 .. l.out_f - 1, NEW t \in 0 .. l.in_f - 1, NEW g,
         g[t + 1] = g[t] + in[t + 1] * l.weights[o * l.in_f + t + 1], g[t + 1] \in Sums,
         NEW d, AtTap(c, l, from, to, ws, f, P, o, g, t, d)
  PROVE  \E e : AtTap(c, l, from, to, ws, f, P, o, g, t + 1, e)
<1>0. 0 \in Regs /\ 1 \in Regs /\ 2 \in Regs /\ 3 \in Regs /\ 6 \in Regs /\ 1 \in Nat /\ 1 <= 63
      /\ 0 \in Regs \ {4} /\ 1 \in Regs \ {4}
  BY DEF Regs
<1>1. /\ l.in_f \in Nat /\ l.out_f \in Nat /\ InLen(l) = l.in_f /\ OutLen(l) = l.out_f
      /\ Weights(l) = l.in_f * l.out_f /\ Weights(l) \in Nat
  BY ProductNat DEF IsLayer, InLen, OutLen, Weights
<1> DEFINE y == o * l.in_f + t
<1>2. y \in 0 .. Weights(l) - 1 /\ t \in 0 .. InLen(l) - 1
  <2>1. o \in Nat /\ o < l.out_f
    BY <1>1
  <2>2. o * l.in_f \in Nat /\ o * l.in_f + l.in_f <= l.out_f * l.in_f
    BY <1>1, <2>1, Rows
  <2>3. l.out_f * l.in_f = l.in_f * l.out_f
    BY <1>1
  <2> QED BY <1>1, <2>2, <2>3
<1>3. y + 1 = o * l.in_f + (t + 1) /\ y + 1 = o * l.in_f + t + 1 /\ y \in Nat
  <2>1. o * l.in_f \in Nat
    BY <1>1, ProductNat
  <2> QED BY <2>1
<1> HIDE DEF y
<1>4. from \in Nat /\ ws \in Nat /\ to \in Nat
  BY DEF Ready
<1>5. /\ Goes(P[1], c, P[7], d) /\ Ok(d) /\ Filled(c, d, to, f, o) /\ d.acc = g[t] /\ d.voted = TRUE
      /\ d.regs[0] = ws + y /\ d.regs[1] = from + t /\ d.regs[2] = from + l.in_f
      /\ d.regs[3] = to + o /\ d.regs[6] = to + l.out_f
  BY DEF AtTap, y
<1>6. /\ from + t \in Nat /\ from + t < AddrSize /\ from + t + 1 \in Words /\ Readable(d, from + t)
      /\ d.mem[from + t] = in[t + 1]
      /\ ws + y \in Nat /\ ws + y < AddrSize /\ ws + y + 1 \in Words /\ Readable(d, ws + y)
      /\ d.mem[ws + y] = Byte(l.weights[y + 1])
  <2>1. o \in 0 .. OutLen(l) /\ InLen(l) \in Nat /\ Weights(l) \in Nat /\ OutLen(l) \in Nat /\ Filled(c, d, to, f, o)
    BY <1>1, <1>5
  <2>2. Given(d, l, in, from, ws)
    BY <2>1, StillThere
  <2> QED BY <1>2, <2>2 DEF Given
<1>7. Signed(Byte(l.weights[y + 1])) = l.weights[y + 1]
  <2>1. l.weights[y + 1] \in -128 .. 127
    BY <1>2 DEF Ready
  <2> QED BY <2>1, SignedByte
<1>8. /\ Code(P[7], While(<<"tap", n>>, 1, 2, <<"fire", n>>), P[8]) /\ Code(P[8], Tap(1, 0), P[9])
      /\ Code(P[9], Addi(1, 1, 1), P[10]) /\ Code(P[10], Addi(0, 0, 1), P[11])
      /\ Code(P[11], Goto("BR", <<"tap", n>>), P[12])
      /\ Labelled(<<"tap", n>>, P[7]) /\ Labelled(<<"fire", n>>, P[12])
  BY DenseLabels DEF DenseAt
<1> DEFINE d1 == Vote(d)
<1>9. Passes(P[7], d, P[8], d1, {}) /\ d1.voted = TRUE
  <2>1. ~(d.regs[1] >= d.regs[2])
    BY <1>1, <1>4, <1>5
  <2>2. <<"tap", n>> # NoLabel
    BY DEF NoLabel
  <2>3. Leaves(P[7], 1, 2, <<"fire", n>>, P[8])
    BY <1>0, <1>8, <2>2, WhileGoes
  <2> QED BY <1>5, <1>8, <2>1, <2>3 DEF Leaves
<1> HIDE DEF d1
<1>10. /\ Goes(P[7], d, P[8], d1) /\ Ok(d1) /\ d1.mem = d.mem /\ d1.acc = d.acc /\ d1.out = d.out
       /\ d1.written = d.written /\ \A q \in Regs : d1.regs[q] = d.regs[q]
  BY <1>9 DEF Passes, Same
<1>11. /\ d1.regs[0] = ws + y /\ d1.regs[1] = from + t /\ d1.mem[from + t] = in[t + 1]
       /\ d1.mem[ws + y] = Byte(l.weights[y + 1]) /\ Readable(d1, from + t) /\ Readable(d1, ws + y)
       /\ d1.regs[2] = from + l.in_f /\ d1.regs[3] = to + o /\ d1.regs[6] = to + l.out_f
  BY <1>0, <1>5, <1>6, <1>10 DEF Readable
<1>12. PICK d2 : Turns(P[8], d1, P[9], d2, Hold(d1, d1.acc + d1.mem[d1.regs[1]] * Signed(d1.mem[d1.regs[0]])), {4, 5})
  <2>1. /\ d1.regs[1] < AddrSize /\ Readable(d1, d1.regs[1]) /\ d1.regs[0] < AddrSize /\ Readable(d1, d1.regs[0])
    BY <1>6, <1>11
  <2>2. d1.acc + d1.mem[d1.regs[1]] * Signed(d1.mem[d1.regs[0]]) \in Sums
    <3>1. d1.acc + d1.mem[d1.regs[1]] * Signed(d1.mem[d1.regs[0]]) = g[t + 1]
      BY <1>3, <1>5, <1>7, <1>10, <1>11
    <3> QED BY <3>1
  <2> QED BY <1>0, <1>8, <1>10, <2>1, <2>2, TapGoes
<1>13. /\ Goes(P[8], d1, P[9], d2) /\ Ok(d2) /\ d2.mem = d.mem /\ d2.acc = g[t + 1] /\ d2.out = d.out
       /\ d2.written = d.written /\ d2.voted = TRUE /\ \A q \in Regs \ {4, 5} : d2.regs[q] = d1.regs[q]
  <2>1. d1.acc + d1.mem[d1.regs[1]] * Signed(d1.mem[d1.regs[0]]) = g[t + 1]
    BY <1>3, <1>5, <1>7, <1>10, <1>11
  <2> QED BY <1>9, <1>10, <1>12, <2>1 DEF Turns, Same, Hold, Shot
<1>14. d2.regs[0] = ws + y /\ d2.regs[1] = from + t /\ d2.regs[2] = from + l.in_f /\ d2.regs[3] = to + o
       /\ d2.regs[6] = to + l.out_f
  BY <1>0, <1>11, <1>13
<1>15. PICK d3 : Passes(P[9], d2, P[10], d3, {1}) /\ d3.regs[1] = d2.regs[1] + 1
  <2>1. d2.regs[1] + 1 \in Words
    BY <1>6, <1>14
  <2>2. Gives(P[9], d2, P[10], {1}, 1, d2.regs[1] + 1)
    BY <1>0, <1>8, <1>13, <2>1, AddiMoves
  <2> QED BY <2>2 DEF Gives
<1>16. /\ Goes(P[9], d2, P[10], d3) /\ Ok(d3) /\ d3.mem = d.mem /\ d3.acc = g[t + 1] /\ d3.out = d.out
       /\ d3.written = d.written /\ d3.voted = TRUE
       /\ d3.regs[0] = ws + y /\ d3.regs[1] = from + t + 1 /\ d3.regs[2] = from + l.in_f /\ d3.regs[3] = to + o
       /\ d3.regs[6] = to + l.out_f
  BY <1>0, <1>13, <1>14, <1>15 DEF Passes, Same
<1>17. PICK e : Passes(P[10], d3, P[11], e, {0}) /\ e.regs[0] = d3.regs[0] + 1
  <2>1. d3.regs[0] + 1 \in Words
    BY <1>6, <1>16
  <2>2. Gives(P[10], d3, P[11], {0}, 0, d3.regs[0] + 1)
    BY <1>0, <1>8, <1>16, <2>1, AddiMoves
  <2> QED BY <2>2 DEF Gives
<1>18. /\ Goes(P[10], d3, P[11], e) /\ Ok(e) /\ e.mem = d.mem /\ e.acc = g[t + 1] /\ e.out = d.out
       /\ e.written = d.written /\ e.voted = TRUE
       /\ e.regs[0] = ws + y + 1 /\ e.regs[1] = from + t + 1 /\ e.regs[2] = from + l.in_f /\ e.regs[3] = to + o
       /\ e.regs[6] = to + l.out_f
  BY <1>0, <1>16, <1>17 DEF Passes, Same
<1>19. Goes(P[11], e, P[7], e)
  BY <1>8, <1>18, BrGoes
<1>20. Goes(P[1], c, P[7], e)
  <2>1. Goes(P[1], c, P[8], d1)
    BY <1>5, <1>10, GoesTrans
  <2>2. Goes(P[1], c, P[9], d2)
    BY <1>13, <2>1, GoesTrans
  <2>3. Goes(P[1], c, P[10], d3)
    BY <1>16, <2>2, GoesTrans
  <2>4. Goes(P[1], c, P[11], e)
    BY <1>18, <2>3, GoesTrans
  <2> QED BY <1>19, <2>4, GoesTrans
<1>21. Filled(c, e, to, f, o)
  BY <1>5, <1>18, FilledSame
<1>22. e.regs[0] = ws + (o * l.in_f + (t + 1)) /\ e.regs[1] = from + (t + 1)
  <2>1. ws + y + 1 = ws + (y + 1)
    BY <1>3, <1>4
  <2>2. from + t + 1 = from + (t + 1)
    BY <1>4
  <2> QED BY <1>3, <1>18, <2>1, <2>2
<1>23. AtTap(c, l, from, to, ws, f, P, o, g, t + 1, e)
  BY <1>18, <1>20, <1>21, <1>22 DEF AtTap
<1> QED BY <1>23

\* The sizes of a dense layer.
LEMMA DenseSizes ==
  ASSUME Sizes, NEW l, IsLayer(l), l.kind = "Dense", NEW from, NEW to, NEW ws, NEW c, NEW in,
         Ready(c, l, in, from, to, ws)
  PROVE  /\ l.in_f \in Nat /\ l.out_f \in Nat /\ InLen(l) = l.in_f /\ OutLen(l) = l.out_f
         /\ Weights(l) = l.in_f * l.out_f /\ Weights(l) \in Nat
         /\ from \in Nat /\ ws \in Nat /\ to \in Nat
         /\ ws \in Words /\ from \in Words /\ to \in Words
         /\ from + l.in_f \in Words /\ to + l.out_f \in Words /\ to + l.out_f <= AddrSize
<1>1. /\ l.in_f \in Nat /\ l.out_f \in Nat /\ InLen(l) = l.in_f /\ OutLen(l) = l.out_f
      /\ Weights(l) = l.in_f * l.out_f /\ Weights(l) \in Nat
  BY ProductNat DEF IsLayer, InLen, OutLen, Weights
<1>2. /\ from \in Nat /\ ws \in Nat /\ to \in Nat /\ from + l.in_f <= AddrSize /\ to + l.out_f <= AddrSize
      /\ ws + Weights(l) <= AddrSize
  BY <1>1 DEF Ready
<1>3. AddrSize \in Nat /\ AddrSize < U16 /\ U16 \in Nat
  BY DEF Sizes, Words, U16
<1> QED BY <1>1, <1>2, <1>3 DEF Words

\* The start of the kernel.
LEMMA DenseStart ==
  ASSUME Sizes, InPlace, NEW n, NEW l, IsLayer(l), l.kind = "Dense", NEW from, NEW to, NEW ws, NEW c, NEW in,
         Ready(c, l, in, from, to, ws), NEW P, DenseAt(n, l, from, to, ws, P), NEW f, Ok(c), c.acc = 0
  PROVE  \E d : AtNeuron(c, l, from, to, ws, f, P, 0, d)
<1>0. 0 \in Regs /\ 2 \in Regs /\ 3 \in Regs /\ 6 \in Regs
  BY DEF Regs
<1>1. /\ ws \in Words /\ from + l.in_f \in Words /\ to \in Words /\ to + l.out_f \in Words /\ to \in Nat /\ ws \in Nat
      /\ l.in_f \in Nat
  BY DenseSizes
<1>2. /\ Code(P[1], Lit(0, ws), P[2]) /\ Code(P[2], Lit(2, from + l.in_f), P[3])
      /\ Code(P[3], Lit(3, to), P[4]) /\ Code(P[4], Lit(6, to + l.out_f), P[5])
  BY DEF DenseAt
<1>3. PICK d1 : Passes(P[1], c, P[2], d1, {0}) /\ d1.regs[0] = ws
  <2>1. Gives(P[1], c, P[2], {0}, 0, ws)
    BY <1>0, <1>1, <1>2, LitGoes
  <2> QED BY <2>1 DEF Gives
<1>4. PICK d2 : Passes(P[2], d1, P[3], d2, {2}) /\ d2.regs[2] = from + l.in_f
  <2>1. Gives(P[2], d1, P[3], {2}, 2, from + l.in_f)
    BY <1>0, <1>1, <1>2, <1>3, LitGoes DEF Passes
  <2> QED BY <2>1 DEF Gives
<1>5. PICK d3 : Passes(P[3], d2, P[4], d3, {3}) /\ d3.regs[3] = to
  <2>1. Gives(P[3], d2, P[4], {3}, 3, to)
    BY <1>0, <1>1, <1>2, <1>4, LitGoes DEF Passes
  <2> QED BY <2>1 DEF Gives
<1>6. PICK d : Passes(P[4], d3, P[5], d, {6}) /\ d.regs[6] = to + l.out_f
  <2>1. Gives(P[4], d3, P[5], {6}, 6, to + l.out_f)
    BY <1>0, <1>1, <1>2, <1>5, LitGoes DEF Passes
  <2> QED BY <2>1 DEF Gives
<1>7. Goes(P[1], c, P[5], d) /\ Ok(d)
  <2>1. Passes(P[1], c, P[3], d2, {0} \cup {2})
    BY <1>3, <1>4, MovesTrans
  <2>2. Passes(P[1], c, P[4], d3, ({0} \cup {2}) \cup {3})
    BY <2>1, <1>5, MovesTrans
  <2>3. Passes(P[1], c, P[5], d, (({0} \cup {2}) \cup {3}) \cup {6})
    BY <2>2, <1>6, MovesTrans
  <2> QED BY <2>3 DEF Passes
<1>8. /\ d.regs[0] = ws /\ d.regs[2] = from + l.in_f /\ d.regs[3] = to /\ d.regs[6] = to + l.out_f
      /\ d.mem = c.mem /\ d.acc = c.acc /\ d.out = c.out /\ d.written = c.written
  BY <1>0, <1>3, <1>4, <1>5, <1>6 DEF Passes, Same
<1>9. Filled(c, d, to, f, 0)
  BY <1>1, <1>8, FilledNone, FilledSame
<1>10. 0 * l.in_f = 0 /\ ws + 0 = ws /\ to + 0 = to
  BY <1>1
<1>11. AtNeuron(c, l, from, to, ws, f, P, 0, d)
  BY <1>7, <1>8, <1>9, <1>10 DEF AtNeuron
<1> QED BY <1>11

\* All the taps of a neuron.
LEMMA DenseTaps ==
  ASSUME Sizes, InPlace, NEW n, NEW l, IsLayer(l), l.kind = "Dense", NEW from, NEW to, NEW ws, NEW c, NEW in,
         Ready(c, l, in, from, to, ws), NEW P, DenseAt(n, l, from, to, ws, P), NEW f,
         NEW o \in 0 .. l.out_f - 1, NEW g,
         \A t \in 0 .. l.in_f - 1 : g[t + 1] = g[t] + in[t + 1] * l.weights[o * l.in_f + t + 1],
         \A t \in 0 .. l.in_f : g[t] \in Sums,
         \E d : AtTap(c, l, from, to, ws, f, P, o, g, 0, d)
  PROVE  \E d : AtTap(c, l, from, to, ws, f, P, o, g, l.in_f, d)
<1> DEFINE S == {t \in 0 .. l.in_f : \E d : AtTap(c, l, from, to, ws, f, P, o, g, t, d)}
<1>1. l.in_f \in Nat
  BY DenseSizes
<1>2. 0 \in S
  BY <1>1
<1>3. ASSUME NEW t \in 0 .. l.in_f - 1, t \in S PROVE t + 1 \in S
  <2>1. PICK d : AtTap(c, l, from, to, ws, f, P, o, g, t, d)
    BY <1>3
  <2>2. g[t + 1] = g[t] + in[t + 1] * l.weights[o * l.in_f + t + 1] /\ g[t + 1] \in Sums
    BY <1>1
  <2>3. \E e : AtTap(c, l, from, to, ws, f, P, o, g, t + 1, e)
    BY <2>1, <2>2, DenseTap
  <2>4. t + 1 \in 0 .. l.in_f
    BY <1>1
  <2> QED BY <2>3, <2>4
<1> HIDE DEF S
<1>4. l.in_f \in S
  <2>1. l.in_f \in 0 .. l.in_f
    BY <1>1
  <2>2. \A t \in 0 .. l.in_f : t \in S
    BY <1>1, <1>2, <1>3, Climb
  <2> QED BY <2>1, <2>2
<1> QED BY <1>4 DEF S

\* A neuron.
LEMMA DenseNeuron ==
  ASSUME Sizes, InPlace, NEW n, NEW l, IsLayer(l), l.kind = "Dense", SumFits(l), NEW from, NEW to, NEW ws, NEW c,
         NEW in, Ready(c, l, in, from, to, ws), NEW P, DenseAt(n, l, from, to, ws, P),
         NEW f, f = EvalLayer(l, in),
         NEW o \in 0 .. l.out_f - 1, NEW d, AtNeuron(c, l, from, to, ws, f, P, o, d)
  PROVE  \E e : AtNeuron(c, l, from, to, ws, f, P, o + 1, e)
<1>0. /\ 0 \in Regs /\ 1 \in Regs /\ 2 \in Regs /\ 3 \in Regs /\ 6 \in Regs /\ 7 \in Regs \ {3}
      /\ 3 \notin {7, 3} \cap {0, 2, 6} /\ 0 \in Regs \ {7, 3} /\ 2 \in Regs \ {7, 3} /\ 6 \in Regs \ {7, 3}
  BY DEF Regs
<1>1. /\ l.in_f \in Nat /\ l.out_f \in Nat /\ InLen(l) = l.in_f /\ OutLen(l) = l.out_f
      /\ Weights(l) = l.in_f * l.out_f /\ Weights(l) \in Nat
      /\ from \in Nat /\ ws \in Nat /\ to \in Nat /\ from \in Words /\ to + l.out_f <= AddrSize
  BY DenseSizes
<1>2. /\ Goes(P[1], c, P[5], d) /\ Ok(d) /\ Filled(c, d, to, f, o) /\ d.acc = 0
      /\ d.regs[0] = ws + o * l.in_f /\ d.regs[2] = from + l.in_f /\ d.regs[3] = to + o /\ d.regs[6] = to + l.out_f
  BY DEF AtNeuron
<1> DEFINE T == [t \in 0 .. l.in_f - 1 |-> in[t + 1] * l.weights[o * l.in_f + t + 1]]
<1>3. PICK g : Adds(l.in_f, T, g) /\ f[o + 1] = Fout(g[l.in_f], l.shift)
  <2>1. \E g : Adds(l.in_f, T, g) /\ EvalLayer(l, in)[o + 1] = Fout(g[l.in_f], l.shift)
    BY DenseSum
  <2> QED BY <2>1
<1>4. \A t \in 0 .. l.in_f - 1 : T[t] = in[t + 1] * l.weights[o * l.in_f + t + 1] /\ Product(T[t])
  <2>1. ASSUME NEW t \in 0 .. l.in_f - 1
        PROVE  T[t] = in[t + 1] * l.weights[o * l.in_f + t + 1] /\ Product(T[t])
    <3>1. in[t + 1] \in Bytes
      <4>1. t \in 0 .. InLen(l) - 1
        BY <1>1
      <4> QED BY <4>1 DEF Ready
    <3>2. l.weights[o * l.in_f + t + 1] \in -128 .. 127
      <4>1. o * l.in_f \in Nat /\ o * l.in_f + l.in_f <= l.out_f * l.in_f /\ l.out_f * l.in_f = l.in_f * l.out_f
        BY <1>1, Rows
      <4>2. o * l.in_f + t \in 0 .. Weights(l) - 1
        BY <1>1, <4>1
      <4>3. l.weights[(o * l.in_f + t) + 1] \in -128 .. 127
        BY <4>2 DEF Ready
      <4> QED BY <4>1, <4>3
    <3>3. T[t] = in[t + 1] * l.weights[o * l.in_f + t + 1]
      OBVIOUS
    <3> HIDE DEF T
    <3> QED BY <3>1, <3>2, <3>3, ProductBound, Zenon
  <2> HIDE DEF T
  <2> QED BY <2>1
<1> HIDE DEF T
<1>b. \A t \in 0 .. l.in_f : g[t] \in Sums
  <2>1. g[0] = 0 /\ \A t \in 0 .. l.in_f - 1 : g[t + 1] = g[t] + T[t]
    <3>1. \A t \in 0 .. l.in_f - 1 : T[t] \in Int
      BY <1>4, ProductInt, Zenon
    <3> QED BY <1>1, <1>3, <3>1, AddsNext
  <2>2. Summed(l.in_f, T, g)
    BY <1>4, <2>1, Zenon DEF Summed
  <2>3. Few(l.in_f)
    BY DEF SumFits, Few
  <2> QED BY <1>1, <2>2, <2>3, AddsBound, Zenon
<1>5. /\ g[0] = 0 /\ \A t \in 0 .. l.in_f - 1 : g[t + 1] = g[t] + in[t + 1] * l.weights[o * l.in_f + t + 1]
      /\ g[l.in_f] \in Int
  <2>1. /\ g[0] = 0 /\ \A t \in 0 .. l.in_f - 1 : g[t + 1] = g[t] + T[t]
        /\ \A t \in 0 .. l.in_f : g[t] \in Int
    <3>1. \A t \in 0 .. l.in_f - 1 : T[t] \in Int
      BY <1>4, ProductInt, Zenon
    <3> QED BY <1>1, <1>3, <3>1, AddsNext
  <2>2. l.in_f \in 0 .. l.in_f
    BY <1>1
  <2>3. \A t \in 0 .. l.in_f - 1 : T[t] = in[t + 1] * l.weights[o * l.in_f + t + 1]
    BY <1>4, Zenon
  <2> QED BY <2>1, <2>2, <2>3
<1>6. /\ Code(P[5], While(<<"neuron", n>>, 3, 6, <<"end", n>>), P[6]) /\ Code(P[6], Lit(1, from), P[7])
      /\ Code(P[7], While(<<"tap", n>>, 1, 2, <<"fire", n>>), P[8])
      /\ Code(P[13], Fire(7, l.shift), P[14])
      /\ Code(P[14], Goto("BR", <<"neuron", n>>), P[15])
  BY DEF DenseAt
<1>7. /\ Labelled(<<"neuron", n>>, P[5]) /\ Labelled(<<"end", n>>, P[15]) /\ Labelled(<<"fire", n>>, P[12])
      /\ \A b : Goes(P[12], b, P[13], b)
  BY DenseLabels
<1>8. <<"tap", n>> # NoLabel /\ <<"neuron", n>> # NoLabel
  BY DEF NoLabel
<1> DEFINE d1 == Vote(d)
<1>9. Passes(P[5], d, P[6], d1, {}) /\ d1.voted = TRUE
  <2>1. ~(d.regs[3] >= d.regs[6])
    BY <1>1, <1>2
  <2>2. Leaves(P[5], 3, 6, <<"end", n>>, P[6])
    BY <1>0, <1>6, <1>8, WhileGoes
  <2> QED BY <1>2, <1>7, <2>1, <2>2 DEF Leaves
<1> HIDE DEF d1
<1>10. PICK d2 : Passes(P[6], d1, P[7], d2, {1}) /\ d2.regs[1] = from
  <2>1. Gives(P[6], d1, P[7], {1}, 1, from)
    BY <1>0, <1>1, <1>6, <1>9, LitGoes DEF Passes
  <2> QED BY <2>1 DEF Gives
<1>11. AtTap(c, l, from, to, ws, f, P, o, g, 0, d2)
  <2>1. Passes(P[5], d, P[7], d2, {} \cup {1})
    BY <1>9, <1>10, MovesTrans
  <2>2. Goes(P[1], c, P[7], d2)
    BY <1>2, <2>1, GoesTrans DEF Passes
  <2>3. /\ Ok(d2) /\ d2.mem = d.mem /\ d2.acc = 0 /\ d2.out = d.out /\ d2.written = d.written /\ d2.voted = TRUE
        /\ d2.regs[0] = ws + o * l.in_f /\ d2.regs[2] = from + l.in_f /\ d2.regs[3] = to + o /\ d2.regs[6] = to + l.out_f
    BY <1>0, <1>2, <1>9, <1>10 DEF Passes, Same
  <2>4. Filled(c, d2, to, f, o)
    BY <1>2, <2>3, FilledSame
  <2>5. o * l.in_f + 0 = o * l.in_f /\ from + 0 = from
    BY <1>1, ProductNat
  <2> QED BY <1>5, <1>10, <2>2, <2>3, <2>4, <2>5 DEF AtTap
<1>12. PICK d3 : AtTap(c, l, from, to, ws, f, P, o, g, l.in_f, d3)
  BY <1>b, <1>5, <1>11, DenseTaps
<1>13. /\ Goes(P[1], c, P[7], d3) /\ Ok(d3) /\ Filled(c, d3, to, f, o) /\ d3.acc = g[l.in_f] /\ d3.voted = TRUE
       /\ d3.regs[0] = ws + (o * l.in_f + l.in_f) /\ d3.regs[1] = from + l.in_f /\ d3.regs[2] = from + l.in_f
       /\ d3.regs[3] = to + o /\ d3.regs[6] = to + l.out_f
  BY <1>12 DEF AtTap
<1> DEFINE d4 == Vote(d3)
<1>14. Passes(P[7], d3, P[12], d4, {}) /\ d4.voted = TRUE
  <2>1. d3.regs[1] >= d3.regs[2]
    BY <1>1, <1>13
  <2>2. Leaves(P[7], 1, 2, <<"fire", n>>, P[8])
    BY <1>0, <1>6, <1>8, WhileGoes
  <2> QED BY <1>7, <1>13, <2>1, <2>2 DEF Leaves
<1> HIDE DEF d4
<1>15. /\ Goes(P[7], d3, P[12], d4) /\ Goes(P[12], d4, P[13], d4) /\ Ok(d4) /\ Filled(c, d4, to, f, o)
       /\ d4.acc = g[l.in_f] /\ d4.regs[0] = ws + (o * l.in_f + l.in_f) /\ d4.regs[2] = from + l.in_f
       /\ d4.regs[3] = to + o /\ d4.regs[6] = to + l.out_f
  <2>1. d4.mem = d3.mem /\ d4.out = d3.out /\ d4.written = d3.written
    BY <1>14 DEF Passes, Same
  <2>2. Filled(c, d4, to, f, o)
    BY <1>13, <2>1, FilledSame
  <2> QED BY <1>0, <1>7, <1>13, <1>14, <2>2 DEF Passes, Same
<1> DEFINE v == Fout(d4.acc, l.shift)
<1>16. PICK e : /\ Turns(P[13], d4, P[14], e, Poke(Hold(d4, 0), d4.regs[3], v), {7, 3})
                /\ e.regs[3] = d4.regs[3] + 1
  <2>1. l.shift \in Nat /\ l.shift <= 7
    BY DEF IsLayer, SumFits
  <2>2. d4.regs[3] < AddrSize
    <3>1. AddrSize \in Nat
      BY DEF Sizes, Words
    <3> QED BY <1>1, <1>15, <3>1
  <2>3. d4.regs[3] # MMIO_TX
    <3>1. MMIO_TX \notin to .. to + OutLen(l) - 1
      BY DEF Ready
    <3> QED BY <1>1, <1>15, <3>1
  <2>4. \E e : Fires(P[13], d4, P[14], 7, l.shift, e)
    BY <1>0, <1>6, <1>15, <2>1, <2>2, <2>3, FireGoes
  <2> QED BY <2>4 DEF Fires
<1>17. v = f[o + 1]
  BY <1>3, <1>15
<1> HIDE DEF v
<1>18. Filled(c, e, to, f, o + 1)
  <2>1. o \in Nat /\ to + o < AddrSize /\ AddrSize \in Nat
    BY <1>1 DEF Sizes, Words
  <2>2. Same(Poke(Hold(d4, 0), to + o, v), e, {7, 3})
    BY <1>15, <1>16 DEF Turns
  <2> QED BY <1>1, <1>15, <1>17, <2>1, <2>2, FilledNext
<1>19. /\ Goes(P[13], d4, P[14], e) /\ Ok(e) /\ e.acc = 0 /\ e.regs[3] = to + o + 1
       /\ e.regs[0] = ws + (o * l.in_f + l.in_f) /\ e.regs[2] = from + l.in_f /\ e.regs[6] = to + l.out_f
       /\ e.voted = TRUE
  <2>1. /\ Poke(Hold(d4, 0), d4.regs[3], v).acc = 0 /\ Poke(Hold(d4, 0), d4.regs[3], v).regs = d4.regs
        /\ Poke(Hold(d4, 0), d4.regs[3], v).voted = d4.voted
    BY DEF Poke, Hold, Shot
  <2> QED BY <1>0, <1>14, <1>15, <1>16, <2>1 DEF Turns, Same
<1>20. Goes(P[14], e, P[5], e)
  BY <1>6, <1>7, <1>19, BrGoes
<1>21. Goes(P[1], c, P[5], e)
  <2>1. Goes(P[1], c, P[12], d4)
    BY <1>13, <1>15, GoesTrans
  <2>2. Goes(P[1], c, P[13], d4)
    BY <1>15, <2>1, GoesTrans
  <2>3. Goes(P[1], c, P[14], e)
    BY <1>19, <2>2, GoesTrans
  <2> QED BY <1>20, <2>3, GoesTrans
<1>22. ws + (o * l.in_f + l.in_f) = ws + (o + 1) * l.in_f /\ to + o + 1 = to + (o + 1)
  <2>1. (o + 1) * l.in_f = o * l.in_f + l.in_f
    <3>1. o \in Nat /\ o < l.out_f
      BY <1>1
    <3> QED BY <1>1, <3>1, Rows
  <2> QED BY <1>1, <2>1
<1>23. AtNeuron(c, l, from, to, ws, f, P, o + 1, e)
  BY <1>18, <1>19, <1>21, <1>22 DEF AtNeuron
<1> QED BY <1>23

\* From m to k the kernel of l computes what eval says.
Computes(m, k, l, from, to, ws) ==
  \A c, in : Ready(c, l, in, from, to, ws) /\ Ok(c) /\ c.acc = 0 =>
    \E d : Goes(m, c, k, d) /\ Ok(d) /\ d.acc = 0 /\ Filled(c, d, to, EvalLayer(l, in), OutLen(l))

\* The kernel of a dense layer computes what eval says.
LEMMA DenseComputes ==
  ASSUME Sizes, InPlace, NEW n, NEW l, IsLayer(l), l.kind = "Dense", SumFits(l), NEW from, NEW to, NEW ws,
         NEW m, NEW k, Code(m, GenDense(n, l, from, to, ws), k)
  PROVE  Computes(m, k, l, from, to, ws)
<1> SUFFICES ASSUME NEW c, NEW in, Ready(c, l, in, from, to, ws), Ok(c), c.acc = 0
             PROVE  \E d : Goes(m, c, k, d) /\ Ok(d) /\ d.acc = 0 /\ Filled(c, d, to, EvalLayer(l, in), OutLen(l))
  BY DEF Computes
<1>1. PICK P : DenseAt(n, l, from, to, ws, P) /\ P[1] = m /\ P[16] = k
  BY DenseCode
<1> DEFINE f == EvalLayer(l, in)
           S == {o \in 0 .. l.out_f : \E d : AtNeuron(c, l, from, to, ws, f, P, o, d)}
<1> HIDE DEF f
<1>2. l.out_f \in Nat /\ OutLen(l) = l.out_f /\ to \in Nat
  BY DenseSizes
<1>3. 0 \in S
  <2>1. 0 \in 0 .. l.out_f
    BY <1>2
  <2> QED BY <1>1, <2>1, DenseStart
<1>4. ASSUME NEW o \in 0 .. l.out_f - 1, o \in S PROVE o + 1 \in S
  <2>1. PICK d : AtNeuron(c, l, from, to, ws, f, P, o, d)
    BY <1>4
  <2>2. \E e : AtNeuron(c, l, from, to, ws, f, P, o + 1, e)
    <3>1. f = EvalLayer(l, in)
      BY DEF f
    <3> QED BY <1>1, <2>1, <3>1, DenseNeuron
  <2>3. o + 1 \in 0 .. l.out_f
    BY <1>2
  <2> QED BY <2>2, <2>3
<1>5. PICK d : AtNeuron(c, l, from, to, ws, f, P, l.out_f, d)
  <2> HIDE DEF S
  <2>1. \A o \in 0 .. l.out_f : o \in S
    BY <1>2, <1>3, <1>4, Climb
  <2>2. l.out_f \in 0 .. l.out_f
    BY <1>2
  <2>3. l.out_f \in S
    BY <2>1, <2>2
  <2> QED BY <2>3 DEF S
<1>6. /\ Goes(P[1], c, P[5], d) /\ Ok(d) /\ Filled(c, d, to, f, l.out_f) /\ d.acc = 0
      /\ d.regs[3] = to + l.out_f /\ d.regs[6] = to + l.out_f
  BY <1>5 DEF AtNeuron
<1> DEFINE e == Vote(d)
<1>7. Passes(P[5], d, P[15], e, {})
  <2>1. d.regs[3] >= d.regs[6]
    BY <1>2, <1>6
  <2>2. <<"neuron", n>> # NoLabel /\ 3 \in Regs /\ 6 \in Regs
    BY DEF NoLabel, Regs
  <2>3. Code(P[5], While(<<"neuron", n>>, 3, 6, <<"end", n>>), P[6])
    BY <1>1 DEF DenseAt
  <2>4. Leaves(P[5], 3, 6, <<"end", n>>, P[6])
    BY <2>2, <2>3, WhileGoes
  <2>5. Labelled(<<"end", n>>, P[15])
    BY <1>1, DenseLabels
  <2> QED BY <1>6, <2>1, <2>4, <2>5 DEF Leaves
<1> HIDE DEF e
<1>8. Goes(P[15], e, P[16], e)
  BY <1>1, DenseLabels
<1>9. Goes(m, c, k, e)
  <2>1. Goes(P[1], c, P[15], e)
    BY <1>6, <1>7, GoesTrans DEF Passes
  <2>2. Goes(P[1], c, P[16], e)
    BY <1>8, <2>1, GoesTrans
  <2> QED BY <1>1, <2>2
<1>10. Ok(e) /\ e.acc = 0 /\ e.mem = d.mem /\ e.out = d.out /\ e.written = d.written
  BY <1>6, <1>7 DEF Passes, Same
<1>11. Filled(c, e, to, f, l.out_f)
  BY <1>6, <1>10, FilledSame
<1>12. Filled(c, e, to, EvalLayer(l, in), OutLen(l))
  BY <1>2, <1>11 DEF f
<1> QED BY <1>9, <1>10, <1>12

-----------------------------------------------------------------------------
(* Rows, columns and windows.                                               *)

Row(a, b) == a \div b
Col(a, b) == a % b

\* a is q rows of b and r more.
Split(a, b, q, r) == b \in Nat /\ q \in Nat /\ r \in Nat /\ r < b /\ a = q * b + r

\* The division of a row and a column.
LEMMA DivMod ==
  ASSUME NEW q \in Nat, NEW r \in Nat, NEW b \in Nat, r < b PROVE (q * b + r) \div b = q /\ (q * b + r) % b = r
<1>1. (q * b + r) \div b = q
  BY SMT
<1>2. (q * b + r) % b = r
  BY SMT
<1> QED BY <1>1, <1>2

\* The quotient and the rest.
LEMMA QuotientIs ==
  ASSUME NEW a, NEW b, NEW q, NEW r, Split(a, b, q, r)
  PROVE  Row(a, b) = q /\ Col(a, b) = r
<1>1. b \in Nat /\ q \in Nat /\ r \in Nat /\ r < b /\ a = q * b + r
  BY DEF Split
<1>2. (q * b + r) \div b = q /\ (q * b + r) % b = r
  BY <1>1, DivMod
<1> QED BY <1>1, <1>2, Zenon DEF Row, Col

\* Every number is some rows of b and less than b more.
LEMMA Quotient ==
  ASSUME NEW a \in Nat, NEW b \in Nat, b >= 1
  PROVE  a = Row(a, b) * b + Col(a, b) /\ Row(a, b) \in Nat /\ Col(a, b) \in Nat /\ Col(a, b) < b
<1> DEFINE S == {n \in 0 .. a : \E q, r \in Nat : n = q * b + r /\ r < b}
<1>1. 0 \in S
  <2>1. 0 = 0 * b + 0 /\ 0 < b
    OBVIOUS
  <2> QED BY <2>1
<1>2. ASSUME NEW n \in 0 .. a - 1, n \in S PROVE n + 1 \in S
  <2>1. PICK q, r \in Nat : n = q * b + r /\ r < b
    BY <1>2
  <2>2. n + 1 \in 0 .. a
    OBVIOUS
  <2>3. CASE r + 1 < b
    <3>1. n + 1 = q * b + (r + 1) /\ r + 1 \in Nat
      BY <2>1
    <3> QED BY <2>2, <2>3, <3>1
  <2>4. CASE r + 1 = b
    <3>1. (q + 1) * b = q * b + b /\ q * b \in Nat /\ q + 1 \in Nat
      BY SMT
    <3>2. n + 1 = (q + 1) * b + 0 /\ 0 < b
      BY <2>1, <2>4, <3>1
    <3> QED BY <2>2, <3>1, <3>2
  <2> QED BY <2>1, <2>3, <2>4
<1> HIDE DEF S
<1>3. a \in S
  <2>1. a \in 0 .. a /\ \A n \in 0 .. a : n \in S
    BY <1>1, <1>2, Climb
  <2> QED BY <2>1
<1>4. PICK q, r \in Nat : a = q * b + r /\ r < b
  BY <1>3 DEF S
<1>5. Row(a, b) = q /\ Col(a, b) = r
  BY <1>4, QuotientIs DEF Split
<1> QED BY <1>4, <1>5

\* What multiplication does to the order and to sums.
LEMMA Times ==
  ASSUME NEW a \in Nat, NEW b \in Nat, NEW n \in Nat
  PROVE  /\ a * n \in Nat /\ n * a \in Nat /\ a * n = n * a
         /\ (a + b) * n = a * n + b * n /\ (a + 1) * n = a * n + n
         /\ (a <= b => a * n <= b * n /\ n * a <= n * b)
         /\ (a < b => a * n + n <= b * n)
         /\ (a * b) * n = a * (b * n)
<1>1. a * n \in Nat /\ n * a \in Nat /\ a * n = n * a
  BY SMT
<1>2. (a + b) * n = a * n + b * n /\ (a + 1) * n = a * n + n
  BY SMT
<1>3. a <= b => a * n <= b * n
  BY SMT
<1>4. a <= b => n * a <= n * b
  BY SMT
<1>5. a < b => a * n + n <= b * n
  BY Rows
<1>6. (a * b) * n = a * (b * n)
  BY SMT
<1> QED BY <1>1, <1>2, <1>3, <1>4, <1>5, <1>6

\* A byte of a plane of h rows of w.
LEMMA InPlane ==
  ASSUME NEW h \in Nat, NEW w0 \in Nat, NEW a \in Nat, a < h, NEW b \in Nat, b < w0
  PROVE  a * w0 + b \in Nat /\ a * w0 + b < h * w0 /\ a * w0 \in Nat /\ h * w0 \in Nat /\ a * w0 + w0 <= h * w0
<1>1. a * w0 \in Nat /\ a * w0 + w0 <= h * w0 /\ h * w0 \in Nat
  BY Rows
<1> QED BY <1>1

\* How far tap t of a window is from its first tap.
Off(t, l) == Row(t, l.k) * l.w + Col(t, l.k)

\* The steps of the tap pointer.
LEMMA Window ==
  ASSUME NEW l, l.k \in Nat, l.k >= 1, l.w \in Nat, l.k <= l.w
  PROVE  /\ Off(0, l) = 0
         /\ \A t \in Nat : Off(t + 1, l) = Off(t, l) + Stride(t, l) /\ Off(t, l) \in Nat /\ Stride(t, l) \in Nat
         /\ \A t \in Nat : Stride(t, l) = 1 \/ Stride(t, l) = l.w - l.k + 1
         /\ \A t \in 0 .. l.k * l.k - 1 : Row(t, l.k) \in 0 .. l.k - 1 /\ Col(t, l.k) \in 0 .. l.k - 1
         /\ l.k * l.k \in Nat /\ l.k * l.k >= 1
<1> DEFINE k0 == l.k
           w0 == l.w
<1>1. k0 \in Nat /\ k0 >= 1 /\ w0 \in Nat /\ k0 <= w0
  OBVIOUS
<1>2. \A t : Off(t, l) = Row(t, k0) * w0 + Col(t, k0)
  BY DEF Off
<1>3. \A t : Stride(t, l) = IF Col(t + 1, k0) # 0 THEN 1 ELSE w0 - k0 + 1
  BY Zenon DEF Stride, Col
<1> HIDE DEF k0, w0
<1>4. Off(0, l) = 0
  <2>1. Row(0, k0) = 0 /\ Col(0, k0) = 0 /\ 0 * w0 + 0 = 0
    <3>1. Split(0, k0, 0, 0)
      BY <1>1 DEF Split
    <3> QED BY <1>1, <3>1, QuotientIs
  <2> QED BY <1>2, <2>1
<1>5. ASSUME NEW t \in Nat
      PROVE  /\ Off(t + 1, l) = Off(t, l) + Stride(t, l) /\ Off(t, l) \in Nat /\ Stride(t, l) \in Nat
             /\ Stride(t, l) = 1 \/ Stride(t, l) = w0 - k0 + 1
  <2> DEFINE a == Row(t, k0)
             b == Col(t, k0)
  <2>1. t = a * k0 + b /\ a \in Nat /\ b \in Nat /\ b < k0
    BY <1>1, Quotient
  <2>2. Off(t, l) = a * w0 + b
    BY <1>2
  <2> HIDE DEF a, b
  <2>3. a * k0 \in Nat /\ a * w0 \in Nat /\ (a + 1) * k0 = a * k0 + k0 /\ (a + 1) * w0 = a * w0 + w0 /\ a + 1 \in Nat
    BY <1>1, <2>1, Times
  <2>4. CASE b + 1 < k0
    <3>1. t + 1 = a * k0 + (b + 1) /\ b + 1 \in Nat
      BY <2>1, <2>3
    <3>2. Row(t + 1, k0) = a /\ Col(t + 1, k0) = b + 1
      <4>1. Split(t + 1, k0, a, b + 1)
        BY <1>1, <2>1, <2>4, <3>1 DEF Split
      <4> QED BY <4>1, QuotientIs
    <3>3. Off(t + 1, l) = a * w0 + (b + 1)
      BY <1>2, <3>2
    <3>4. Stride(t, l) = 1
      BY <1>3, <2>1, <3>2
    <3> QED BY <2>1, <2>2, <2>3, <3>3, <3>4
  <2>5. CASE b + 1 = k0
    <3>1. t + 1 = (a + 1) * k0 + 0 /\ 0 < k0
      BY <1>1, <2>1, <2>3, <2>5
    <3>2. Row(t + 1, k0) = a + 1 /\ Col(t + 1, k0) = 0
      <4>1. Split(t + 1, k0, a + 1, 0)
        BY <1>1, <2>3, <3>1 DEF Split
      <4> QED BY <4>1, QuotientIs
    <3>3. Off(t + 1, l) = (a + 1) * w0 + 0
      BY <1>2, <3>2
    <3>4. Stride(t, l) = w0 - k0 + 1
      BY <1>3, <3>2
    <3> QED BY <1>1, <2>1, <2>2, <2>3, <2>5, <3>3, <3>4
  <2> QED BY <1>1, <2>1, <2>4, <2>5
<1>6. k0 * k0 \in Nat /\ k0 * k0 >= 1
  BY <1>1, SMT
<1>7. ASSUME NEW t \in 0 .. k0 * k0 - 1
      PROVE  Row(t, k0) \in 0 .. k0 - 1 /\ Col(t, k0) \in 0 .. k0 - 1
  <2> DEFINE a == Row(t, k0)
             b == Col(t, k0)
  <2>1. t \in Nat /\ t < k0 * k0
    BY <1>6
  <2>2. t = a * k0 + b /\ a \in Nat /\ b \in Nat /\ b < k0
    BY <1>1, <2>1, Quotient
  <2> HIDE DEF a, b
  <2>3. a * k0 \in Nat /\ (k0 <= a => k0 * k0 <= a * k0)
    BY <1>1, <2>2, Times
  <2>4. a < k0
    BY <1>1, <1>6, <2>1, <2>2, <2>3
  <2>5. a \in 0 .. k0 - 1 /\ b \in 0 .. k0 - 1
    BY <1>1, <2>2, <2>4
  <2> QED BY <2>5 DEF a, b
<1> QED BY <1>4, <1>5, <1>6, <1>7 DEF k0, w0

\* Tap t of the window at row a and column b.
LEMMA TapIs ==
  ASSUME NEW l, l.k \in Nat, l.k >= 1, l.w \in Nat, l.k <= l.w, l.h \in Nat, NEW a \in Nat, NEW b \in Nat,
         a + l.k <= l.h, b + l.k <= l.w, NEW t \in 0 .. l.k * l.k - 1
  PROVE  /\ (a + Row(t, l.k)) * l.w + b + Col(t, l.k) = a * l.w + b + Off(t, l)
         /\ a * l.w + b + Off(t, l) \in Nat /\ a * l.w + b + Off(t, l) < l.h * l.w
         /\ a * l.w \in Nat /\ Off(t, l) \in Nat /\ l.h * l.w \in Nat
<1> DEFINE y == Row(t, l.k)
           z == Col(t, l.k)
<1>1. y \in 0 .. l.k - 1 /\ z \in 0 .. l.k - 1 /\ y \in Nat /\ z \in Nat
  BY Window
<1>2. Off(t, l) = y * l.w + z
  BY DEF Off
<1> HIDE DEF y, z
<1>3. (a + y) * l.w = a * l.w + y * l.w /\ a * l.w \in Nat /\ y * l.w \in Nat
  BY <1>1, Times
<1>4. (a + y) * l.w + (b + z) < l.h * l.w /\ l.h * l.w \in Nat
  <2>1. a + y \in Nat /\ a + y < l.h /\ b + z \in Nat /\ b + z < l.w
    BY <1>1
  <2> QED BY <2>1, InPlane
<1>5. (a + y) * l.w + b + z = a * l.w + b + Off(t, l) /\ Off(t, l) \in Nat
  BY <1>1, <1>2, <1>3
<1>6. (a + y) * l.w + b + z = (a + y) * l.w + (b + z)
  BY <1>1, <1>3
<1>7. a * l.w + b + Off(t, l) \in Nat /\ a * l.w + b + Off(t, l) < l.h * l.w
  BY <1>3, <1>4, <1>5, <1>6
<1> QED BY <1>3, <1>4, <1>5, <1>7 DEF y, z

-----------------------------------------------------------------------------
(* What eval says of a plane.                                               *)
Oh(l) == IF l.kind = "Conv" THEN l.h - l.k + 1 ELSE l.h \div l.k
Ow(l) == IF l.kind = "Conv" THEN l.w - l.k + 1 ELSE l.w \div l.k

\* A layer of planes, whose window is not empty.
IsPlane(l) == IsLayer(l) /\ l.kind \in {"Conv", "Pool"} /\ l.k >= 1

\* The sizes of its output.
LEMMA PlaneSizes ==
  ASSUME NEW l, IsPlane(l)
  PROVE  /\ l.k \in Nat /\ l.k >= 1 /\ l.h \in Nat /\ l.w \in Nat /\ l.c \in Nat /\ l.shift \in Nat
         /\ l.k <= l.h /\ l.k <= l.w
         /\ Oh(l) \in Nat /\ Ow(l) \in Nat /\ Oh(l) >= 1 /\ Ow(l) >= 1
         /\ OutLen(l) = l.c * (Oh(l) * Ow(l))
         /\ l.kind = "Conv" => Oh(l) = l.h - l.k + 1 /\ Ow(l) = l.w - l.k + 1
         /\ l.kind # "Conv" => Oh(l) * l.k <= l.h /\ Ow(l) * l.k <= l.w
<1>1. /\ l.k \in Nat /\ l.k >= 1 /\ l.h \in Nat /\ l.w \in Nat /\ l.c \in Nat /\ l.shift \in Nat
      /\ l.k <= l.h /\ l.k <= l.w
  BY DEF IsPlane, IsLayer
<1>2. CASE l.kind = "Conv"
  <2>1. Oh(l) = l.h - l.k + 1 /\ Ow(l) = l.w - l.k + 1
    BY <1>2 DEF Oh, Ow
  <2>2. OutLen(l) = l.c * (Oh(l) * Ow(l))
    BY <1>2, <2>1 DEF OutLen
  <2> QED BY <1>1, <1>2, <2>1, <2>2
<1>3. CASE l.kind # "Conv"
  <2>1. l.kind = "Pool"
    BY <1>3 DEF IsPlane
  <2>2. Oh(l) = Row(l.h, l.k) /\ Ow(l) = Row(l.w, l.k)
    BY <1>3, Zenon DEF Oh, Ow, Row
  <2>3. OutLen(l) = l.c * (Oh(l) * Ow(l))
    <3>1. OutLen(l) = l.c * ((l.h \div l.k) * (l.w \div l.k))
      BY <2>1 DEF OutLen
    <3> QED BY <2>2, <3>1, Zenon DEF Row
  <2>4. ASSUME NEW a \in Nat, l.k <= a PROVE Row(a, l.k) \in Nat /\ Row(a, l.k) >= 1 /\ Row(a, l.k) * l.k <= a
    <3> DEFINE b == Row(a, l.k)
               e == Col(a, l.k)
    <3>1. a = b * l.k + e /\ b \in Nat /\ e \in Nat /\ e < l.k
      BY <1>1, Quotient
    <3> HIDE DEF b, e
    <3>2. b * l.k \in Nat
      BY <1>1, <3>1, Times
    <3>3. b # 0
      <4>1. b = 0 => b * l.k = 0
        BY <1>1
      <4> QED BY <1>1, <2>4, <3>1, <3>2, <4>1
    <3>4. b >= 1 /\ b * l.k <= a
      BY <1>1, <3>1, <3>2, <3>3
    <3> QED BY <3>1, <3>4 DEF b
  <2> QED BY <1>1, <1>3, <2>2, <2>3, <2>4
<1> QED BY <1>2, <1>3

\* Output o is the pixel at row r and column q of plane c.
Pixel(l, c, r, q, o) ==
  /\ c \in Nat /\ c < l.c /\ r \in Nat /\ r < Oh(l) /\ q \in Nat /\ q < Ow(l)
  /\ o = c * (Oh(l) * Ow(l)) + (r * Ow(l) + q)

\* Which eval finds by division.
LEMMA PixelIs ==
  ASSUME NEW l, IsPlane(l), NEW c, NEW r, NEW q, NEW o, Pixel(l, c, r, q, o)
  PROVE  /\ o \in Nat /\ o < OutLen(l)
         /\ o \div (Oh(l) * Ow(l)) = c /\ (o % (Oh(l) * Ow(l))) \div Ow(l) = r /\ (o % (Oh(l) * Ow(l))) % Ow(l) = q
<1> DEFINE oh == Oh(l)
           ow == Ow(l)
           n  == oh * ow
           e  == r * ow + q
<1>1. /\ c \in Nat /\ c < l.c /\ r \in Nat /\ r < oh /\ q \in Nat /\ q < ow /\ o = c * n + e
  BY DEF Pixel
<1>2. oh \in Nat /\ ow \in Nat /\ l.c \in Nat /\ OutLen(l) = l.c * n
  BY PlaneSizes
<1>3. e \in Nat /\ e < n /\ n \in Nat
  <2> HIDE DEF oh, ow
  <2> QED BY <1>1, <1>2, InPlane
<1> HIDE DEF oh, ow, n
<1>4. Row(e, ow) = r /\ Col(e, ow) = q
  <2>1. Split(e, ow, r, q)
    BY <1>1, <1>2 DEF Split
  <2> QED BY <2>1, QuotientIs
<1> HIDE DEF e
<1>5. Row(o, n) = c /\ Col(o, n) = e
  <2>1. Split(o, n, c, e)
    BY <1>1, <1>3 DEF Split
  <2> QED BY <2>1, QuotientIs
<1>6. o \in Nat /\ o < OutLen(l)
  <2>1. c * n + e \in Nat /\ c * n + e < l.c * n
    BY <1>1, <1>2, <1>3, InPlane
  <2> QED BY <1>1, <1>2, <2>1
<1>7. o \div n = c /\ (o % n) \div ow = r /\ (o % n) % ow = q
  <2>1. o \div n = c /\ o % n = e
    BY <1>5, Zenon DEF Row, Col
  <2>2. e \div ow = r /\ e % ow = q
    BY <1>4, Zenon DEF Row, Col
  <2> QED BY <2>1, <2>2, Zenon
<1>8. o \div (Oh(l) * Ow(l)) = c /\ (o % (Oh(l) * Ow(l))) \div Ow(l) = r /\ (o % (Oh(l) * Ow(l))) % Ow(l) = q
  BY <1>7, Zenon DEF oh, ow, n
<1> QED BY <1>6, <1>8

\* The address of a tap, from the beginning of the plane.
LEMMA TapAtIs ==
  ASSUME NEW l, IsPlane(l), NEW c, NEW r, NEW q, NEW o, Pixel(l, c, r, q, o), NEW s \in Nat,
         r * s + l.k <= l.h, q * s + l.k <= l.w,
         NEW t \in 0 .. l.k * l.k - 1
  PROVE  /\ TapAt(o % (Oh(l) * Ow(l)), Ow(l), s, t, l) = (r * s) * l.w + q * s + Off(t, l)
         /\ (r * s) * l.w + q * s + Off(t, l) \in 0 .. l.h * l.w - 1
         /\ r * s \in Nat /\ (r * s) * l.w \in Nat /\ q * s \in Nat /\ Off(t, l) \in Nat
<1> DEFINE p == o % (Oh(l) * Ow(l))
<1>1. p \div Ow(l) = r /\ p % Ow(l) = q
  BY PixelIs
<1>2. r \in Nat /\ q \in Nat /\ r * s \in Nat /\ q * s \in Nat
  BY Times DEF Pixel
<1>3. l.k \in Nat /\ l.k >= 1 /\ l.w \in Nat /\ l.k <= l.w /\ l.h \in Nat
  BY PlaneSizes
<1> HIDE DEF p
<1>4. TapAt(p, Ow(l), s, t, l) = (r * s + Row(t, l.k)) * l.w + q * s + Col(t, l.k)
  BY <1>1, Zenon DEF TapAt, Row, Col
<1>5. /\ (r * s + Row(t, l.k)) * l.w + q * s + Col(t, l.k) = (r * s) * l.w + q * s + Off(t, l)
      /\ (r * s) * l.w + q * s + Off(t, l) \in Nat /\ (r * s) * l.w + q * s + Off(t, l) < l.h * l.w
      /\ (r * s) * l.w \in Nat /\ Off(t, l) \in Nat /\ l.h * l.w \in Nat
  <2> DEFINE a == r * s
             b == q * s
  <2>1. a \in Nat /\ b \in Nat /\ a + l.k <= l.h /\ b + l.k <= l.w
    BY <1>2
  <2> HIDE DEF a, b
  <2>2. /\ (a + Row(t, l.k)) * l.w + b + Col(t, l.k) = a * l.w + b + Off(t, l)
        /\ a * l.w + b + Off(t, l) \in Nat /\ a * l.w + b + Off(t, l) < l.h * l.w
        /\ a * l.w \in Nat /\ Off(t, l) \in Nat /\ l.h * l.w \in Nat
    BY <1>3, <2>1, TapIs
  <2> QED BY <2>2 DEF a, b
<1>6. TapAt(p, Ow(l), s, t, l) = (r * s) * l.w + q * s + Off(t, l)
  BY <1>4, <1>5, Zenon
<1>7. (r * s) * l.w + q * s + Off(t, l) \in 0 .. l.h * l.w - 1
  BY <1>5
<1> QED BY <1>2, <1>5, <1>6, <1>7 DEF p

\* Output o is the sum of the n terms T.
SumOf(l, in, o, n, T) == \E g : Adds(n, T, g) /\ EvalLayer(l, in)[o + 1] = Fout(g[n], l.shift)

\* A convolution.
LEMMA ConvSum ==
  ASSUME NEW l, IsPlane(l), l.kind = "Conv", NEW in, NEW c, NEW r, NEW q, NEW o, Pixel(l, c, r, q, o),
         NEW T, T = [t \in 0 .. l.k * l.k - 1 |->
                       in[r * l.w + q + Off(t, l) + 1] * l.weights[c * (l.k * l.k) + t + 1]]
  PROVE  SumOf(l, in, o, l.k * l.k, T)
<1> DEFINE n == l.k * l.k
           Term(t) == in[TapAt(o % (Oh(l) * Ow(l)), Ow(l), 1, t, l) + 1] * l.weights[(o \div (Oh(l) * Ow(l))) * n + t + 1]
           s == Total(n, Term)
<1>1. EvalLayer(l, in)[o + 1] = Fout(s, l.shift)
  <2>1. o + 1 \in 1 .. OutLen(l) /\ (o + 1) - 1 = o
    <3>1. o \in Nat /\ o < OutLen(l)
      BY PixelIs
    <3>2. OutLen(l) \in Nat
      BY OutLenNat DEF IsPlane
    <3> QED BY <3>1, <3>2
  <2> QED BY <2>1 DEF EvalLayer, Total, Oh, Ow
<1>2. n \in Nat
  BY Window, PlaneSizes
<1>3. ASSUME NEW t \in 0 .. n - 1 PROVE T[t] = Term(t)
  <2>1. T[t] = in[r * l.w + q + Off(t, l) + 1] * l.weights[c * n + t + 1]
    OBVIOUS
  <2>2. o \div (Oh(l) * Ow(l)) = c
    BY PixelIs
  <2>3. TapAt(o % (Oh(l) * Ow(l)), Ow(l), 1, t, l) = r * l.w + q + Off(t, l)
    <3>1. r \in Nat /\ q \in Nat /\ r < l.h - l.k + 1 /\ q < l.w - l.k + 1
      BY PlaneSizes DEF Pixel
    <3>2. r * 1 = r /\ q * 1 = q
      BY <3>1
    <3>3. r * 1 + l.k <= l.h /\ q * 1 + l.k <= l.w
      <4>1. l.k \in Nat /\ l.h \in Nat /\ l.w \in Nat
        BY PlaneSizes
      <4> QED BY <3>1, <3>2, <4>1
    <3>4. TapAt(o % (Oh(l) * Ow(l)), Ow(l), 1, t, l) = (r * 1) * l.w + q * 1 + Off(t, l)
      BY <3>3, TapAtIs
    <3> QED BY <3>2, <3>4, Zenon
  <2> QED BY <2>1, <2>2, <2>3, Zenon
<1>4. \E g : s = g[n] /\ ((\E h : Adds(n, T, h)) => Adds(n, T, g))
  <2> DEFINE Like(g) == [t \in 0 .. n |-> IF t = 0 THEN 0 ELSE g[t - 1] + Term(t - 1)]
  <2>1. ASSUME NEW g PROVE Adds(n, T, g) <=> g = Like(g)
    <3> HIDE DEF Term
    <3>1. \A t \in 0 .. n : t # 0 => T[t - 1] = Term(t - 1)
      <4>1. \A t \in 0 .. n : t # 0 => t - 1 \in 0 .. n - 1
        BY <1>2
      <4> QED BY <1>3, <4>1
    <3>2. Like(g) = [t \in 0 .. n |-> IF t = 0 THEN 0 ELSE g[t - 1] + T[t - 1]]
      BY <3>1
    <3> HIDE DEF Like
    <3> QED BY <3>2 DEF Adds
  <2>2. \E g : s = g[n] /\ ((\E h : h = Like(h)) => g = Like(g))
    BY Zenon DEF Total
  <2> HIDE DEF s, Like
  <2> QED BY <2>1, <2>2
<1> HIDE DEF s
<1>5. PICK g : s = g[n] /\ Adds(n, T, g)
  BY <1>2, <1>4, AddsExists
<1> QED BY <1>1, <1>5 DEF SumOf

\* A window of a pool lies in its plane.
LEMMA PooledInside ==
  ASSUME NEW l, IsPlane(l), l.kind = "Pool", NEW c, NEW r, NEW q, NEW o, Pixel(l, c, r, q, o)
  PROVE  r * l.k + l.k <= l.h /\ q * l.k + l.k <= l.w /\ r * l.k \in Nat /\ q * l.k \in Nat
<1>1. /\ r \in Nat /\ q \in Nat /\ r < Oh(l) /\ q < Ow(l) /\ l.k \in Nat /\ Oh(l) \in Nat /\ Ow(l) \in Nat
      /\ Oh(l) * l.k <= l.h /\ Ow(l) * l.k <= l.w /\ l.h \in Nat /\ l.w \in Nat
  BY PlaneSizes DEF Pixel
<1>2. r * l.k + l.k <= Oh(l) * l.k /\ q * l.k + l.k <= Ow(l) * l.k /\ r * l.k \in Nat /\ q * l.k \in Nat
      /\ Oh(l) * l.k \in Nat /\ Ow(l) * l.k \in Nat
  BY <1>1, Times
<1> DEFINE a == r * l.k
           b == q * l.k
           e == Oh(l) * l.k
           f == Ow(l) * l.k
<1>3. /\ a + l.k <= e /\ b + l.k <= f /\ e <= l.h /\ f <= l.w /\ a \in Nat /\ b \in Nat /\ e \in Nat
      /\ f \in Nat /\ l.k \in Nat /\ l.h \in Nat /\ l.w \in Nat
  BY <1>1, <1>2
<1> HIDE DEF a, b, e, f
<1>4. a + l.k <= l.h /\ b + l.k <= l.w
  BY <1>3
<1> QED BY <1>3, <1>4 DEF a, b

\* v is the largest of the n numbers T; eval says that output o is v.
Largest(T, n, v) ==
  (\A t \in 0 .. n - 1 : T[t] \in Nat /\ T[t] <= v) /\ \E t \in 0 .. n - 1 : T[t] = v

\* The output that eval gives pixel o.
EvalSays(l, in, o, v) == EvalLayer(l, in)[o + 1] = v

\* A maximum.
LEMMA PoolMost ==
  ASSUME NEW l, IsPlane(l), l.kind = "Pool", NEW in, NEW c, NEW r, NEW q, NEW o, Pixel(l, c, r, q, o),
         NEW T, T = [t \in 0 .. l.k * l.k - 1 |->
                       in[c * (l.h * l.w) + ((r * l.k) * l.w + q * l.k + Off(t, l)) + 1]],
         NEW v, Largest(T, l.k * l.k, v)
  PROVE  EvalSays(l, in, o, v)
<1> DEFINE n == l.k * l.k
           Term(t) == in[(o \div (Oh(l) * Ow(l))) * (l.h * l.w) + TapAt(o % (Oh(l) * Ow(l)), Ow(l), l.k, t, l) + 1]
           S == {0} \cup {Term(t) : t \in 0 .. n - 1}
<1>1. EvalLayer(l, in)[o + 1] = Max(S)
  <2>1. o + 1 \in 1 .. OutLen(l) /\ (o + 1) - 1 = o
    <3>1. o \in Nat /\ o < OutLen(l)
      BY PixelIs
    <3>2. OutLen(l) \in Nat
      BY OutLenNat DEF IsPlane
    <3> QED BY <3>1, <3>2
  <2>2. l.kind # "Dense" /\ l.kind # "Conv"
    OBVIOUS
  <2> QED BY <2>1, <2>2 DEF EvalLayer, Most, Oh, Ow
<1>2. n \in Nat
  BY Window, PlaneSizes
<1>3. ASSUME NEW t \in 0 .. n - 1 PROVE T[t] = Term(t)
  <2>1. T[t] = in[c * (l.h * l.w) + ((r * l.k) * l.w + q * l.k + Off(t, l)) + 1]
    OBVIOUS
  <2>2. o \div (Oh(l) * Ow(l)) = c
    BY PixelIs
  <2>3. TapAt(o % (Oh(l) * Ow(l)), Ow(l), l.k, t, l) = (r * l.k) * l.w + q * l.k + Off(t, l)
    <3>1. l.k \in Nat /\ r * l.k + l.k <= l.h /\ q * l.k + l.k <= l.w
      BY PooledInside, PlaneSizes
    <3> QED BY <3>1, TapAtIs
  <2> QED BY <2>1, <2>2, <2>3, Zenon
<1>4. PICK a \in 0 .. n - 1 : T[a] = v
  BY DEF Largest
<1> HIDE DEF Term, n
<1>5. S \subseteq Nat /\ v \in S /\ \A b \in S : b <= v
  <2>1. v \in Nat /\ v = Term(a)
    BY <1>3, <1>4 DEF n, Largest
  <2>2. ASSUME NEW t \in 0 .. n - 1 PROVE Term(t) \in Nat /\ Term(t) <= v
    BY <1>3 DEF n, Largest
  <2> QED BY <2>1, <2>2
<1> HIDE DEF S
<1> QED BY <1>1, <1>5, MaxIs DEF EvalSays

-----------------------------------------------------------------------------
(* The kernel of a convolution.                                             *)
ConvTap(l) ==
  [t \in 0 .. l.k * l.k - 1 |->
     Tap(2, 6) \o (IF t = l.k * l.k - 1 THEN << >> ELSE Addi(6, 6, 1) \o Addi(2, 2, Stride(t, l)))]

\* Its taps consist of lines.
LEMMA ConvTapKnown == ASSUME NEW l PROVE \A t \in 0 .. l.k * l.k - 1 : KnownCode(ConvTap(l)[t])
<1> SUFFICES ASSUME NEW t \in 0 .. l.k * l.k - 1 PROVE KnownCode(ConvTap(l)[t])
  OBVIOUS
<1> DEFINE a == Tap(2, 6)
           b == Addi(6, 6, 1)
           e == Addi(2, 2, Stride(t, l))
<1>1. KnownCode(a) /\ KnownCode(b) /\ KnownCode(e)
  BY Pieces
<1>2. ConvTap(l)[t] = a \o (IF t = l.k * l.k - 1 THEN << >> ELSE b \o e)
  BY DEF ConvTap
<1> HIDE DEF a, b, e
<1>3. KnownCode(b \o e) /\ KnownCode(<< >>)
  BY <1>1, KnownCat, KnownNone
<1>4. CASE t = l.k * l.k - 1
  <2>1. KnownCode(a \o << >>)
    BY <1>1, <1>3, KnownCat
  <2> QED BY <1>2, <1>4, <2>1
<1>5. CASE t # l.k * l.k - 1
  <2>1. KnownCode(a \o (b \o e))
    BY <1>1, <1>3, KnownCat
  <2> QED BY <1>2, <1>5, <2>1
<1> QED BY <1>4, <1>5

\* The pieces of the kernel of a convolution.
ConvAt(n, l, from, to, ws, P) ==
  /\ Code(P[1], Lit(0, ws), P[2])
  /\ Code(P[2], Lit(3, to), P[3])
  /\ Code(P[3], Here(<<"chan", n>>), P[4])
  /\ Code(P[4], Lit(5, to + OutLen(l)), P[5])
  /\ Code(P[5], Cmp(3, 5), P[6])
  /\ Code(P[6], Goto("BRzp", <<"end", n>>), P[7])
  /\ Code(P[7], Lit(1, from), P[8])
  /\ Code(P[8], Here(<<"row", n>>), P[9])
  /\ Code(P[9], Lit(5, from + (l.h - l.k + 1) * l.w), P[10])
  /\ Code(P[10], Cmp(1, 5), P[11])
  /\ Code(P[11], Goto("BRzp", <<"chan_next", n>>), P[12])
  /\ Code(P[12], Ahead(7, 1, l.w - l.k + 1), P[13])
  /\ Code(P[13], While(<<"pix", n>>, 1, 7, <<"row_next", n>>), P[14])
  /\ Code(P[14], Addi(2, 1, 0), P[15])
  /\ Code(P[15], Addi(6, 0, 0), P[16])
  /\ Code(P[16], Unrolled(l.k * l.k, ConvTap(l)), P[17])
  /\ Code(P[17], Fire(4, l.shift), P[18])
  /\ Code(P[18], Addi(1, 1, 1), P[19])
  /\ Code(P[19], Goto("BR", <<"pix", n>>), P[20])
  /\ Code(P[20], Here(<<"row_next", n>>), P[21])
  /\ Code(P[21], Bump(1, l.k - 1, 5), P[22])
  /\ Code(P[22], Goto("BR", <<"row", n>>), P[23])
  /\ Code(P[23], Here(<<"chan_next", n>>), P[24])
  /\ Code(P[24], Bump(0, l.k * l.k, 5), P[25])
  /\ Code(P[25], Goto("BR", <<"chan", n>>), P[26])
  /\ Code(P[26], Here(<<"end", n>>), P[27])

\* They lie one after the other in its text.
LEMMA ConvCode ==
  ASSUME NEW n, NEW l, NEW from, NEW to, NEW ws, IsPlane(l), NEW m, NEW k, Code(m, GenConv(n, l, from, to, ws), k)
  PROVE  \E P : ConvAt(n, l, from, to, ws, P) /\ P[1] = m /\ P[27] = k
<1> DEFINE b1 == Lit(0, ws)
           b2 == Lit(3, to)
           b3 == Here(<<"chan", n>>)
           b4 == Lit(5, to + OutLen(l))
           b5 == Cmp(3, 5)
           b6 == Goto("BRzp", <<"end", n>>)
           b7 == Lit(1, from)
           b8 == Here(<<"row", n>>)
           b9 == Lit(5, from + (l.h - l.k + 1) * l.w)
           b10 == Cmp(1, 5)
           b11 == Goto("BRzp", <<"chan_next", n>>)
           b12 == Ahead(7, 1, l.w - l.k + 1)
           b13 == While(<<"pix", n>>, 1, 7, <<"row_next", n>>)
           b14 == Addi(2, 1, 0)
           b15 == Addi(6, 0, 0)
           b16 == Unrolled(l.k * l.k, ConvTap(l))
           b17 == Fire(4, l.shift)
           b18 == Addi(1, 1, 1)
           b19 == Goto("BR", <<"pix", n>>)
           b20 == Here(<<"row_next", n>>)
           b21 == Bump(1, l.k - 1, 5)
           b22 == Goto("BR", <<"row", n>>)
           b23 == Here(<<"chan_next", n>>)
           b24 == Bump(0, l.k * l.k, 5)
           b25 == Goto("BR", <<"chan", n>>)
           b26 == Here(<<"end", n>>)
<1>1. /\ KnownCode(b1) /\ KnownCode(b2) /\ KnownCode(b3) /\ KnownCode(b4) /\ KnownCode(b5) /\ KnownCode(b6)
      /\ KnownCode(b7) /\ KnownCode(b8) /\ KnownCode(b9) /\ KnownCode(b10) /\ KnownCode(b11) /\ KnownCode(b12)
      /\ KnownCode(b13) /\ KnownCode(b14) /\ KnownCode(b15) /\ KnownCode(b16) /\ KnownCode(b17) /\ KnownCode(b18)
      /\ KnownCode(b19) /\ KnownCode(b20) /\ KnownCode(b21) /\ KnownCode(b22) /\ KnownCode(b23) /\ KnownCode(b24)
      /\ KnownCode(b25) /\ KnownCode(b26)
  <2>1. KnownCode(b16)
    BY ConvTapKnown, UnrolledKnown, Window, PlaneSizes
  <2> QED BY <2>1, Pieces, WhileKnown, MarkKnown
<1>2. Code(m, b1 \o b2 \o b3 \o b4 \o b5 \o b6 \o b7 \o b8 \o b9 \o b10 \o b11 \o b12 \o b13 \o b14 \o b15 \o b16 \o b17 \o b18 \o b19 \o b20 \o b21 \o b22 \o b23 \o b24 \o b25 \o b26, k)
  BY Zenon DEF GenConv, ConvTap
<1> HIDE DEF b1, b2, b3, b4, b5, b6, b7, b8, b9, b10, b11, b12, b13, b14, b15, b16, b17, b18, b19, b20, b21, b22, b23, b24, b25, b26
<1> DEFINE a2 == b1 \o b2
           a6 == a2 \o b3 \o b4 \o b5 \o b6
           a10 == a6 \o b7 \o b8 \o b9 \o b10
           a14 == a10 \o b11 \o b12 \o b13 \o b14
           a18 == a14 \o b15 \o b16 \o b17 \o b18
           a22 == a18 \o b19 \o b20 \o b21 \o b22
<1>3. KnownCode(a2)
  BY <1>1, KnownCat
<1>4. KnownCode(a6)
  <2> HIDE DEF a2
  <2> QED BY <1>1, <1>3, KnownCat
<1>5. KnownCode(a10)
  <2> HIDE DEF a6
  <2> QED BY <1>1, <1>4, KnownCat
<1>6. KnownCode(a14)
  <2> HIDE DEF a10
  <2> QED BY <1>1, <1>5, KnownCat
<1>7. KnownCode(a18)
  <2> HIDE DEF a14
  <2> QED BY <1>1, <1>6, KnownCat
<1>8. KnownCode(a22)
  <2> HIDE DEF a18
  <2> QED BY <1>1, <1>7, KnownCat
<1>9. PICK p23, p24, p25, p26 : /\ Code(m, a22, p23) /\ Code(p23, b23, p24) /\ Code(p24, b24, p25)
        /\ Code(p25, b25, p26) /\ Code(p26, b26, k)
  <2>1. Code(m, a22 \o b23 \o b24 \o b25 \o b26, k)
    BY <1>2
  <2> HIDE DEF a22
  <2> QED BY <1>1, <1>8, <2>1, CodeFive
<1>10. PICK p19, p20, p21, p22 : /\ Code(m, a18, p19) /\ Code(p19, b19, p20) /\ Code(p20, b20, p21)
        /\ Code(p21, b21, p22) /\ Code(p22, b22, p23)
  <2>1. Code(m, a18 \o b19 \o b20 \o b21 \o b22, p23)
    BY <1>9
  <2> HIDE DEF a18
  <2> QED BY <1>1, <1>7, <2>1, CodeFive
<1>11. PICK p15, p16, p17, p18 : /\ Code(m, a14, p15) /\ Code(p15, b15, p16) /\ Code(p16, b16, p17)
        /\ Code(p17, b17, p18) /\ Code(p18, b18, p19)
  <2>1. Code(m, a14 \o b15 \o b16 \o b17 \o b18, p19)
    BY <1>10
  <2> HIDE DEF a14
  <2> QED BY <1>1, <1>6, <2>1, CodeFive
<1>12. PICK p11, p12, p13, p14 : /\ Code(m, a10, p11) /\ Code(p11, b11, p12) /\ Code(p12, b12, p13)
        /\ Code(p13, b13, p14) /\ Code(p14, b14, p15)
  <2>1. Code(m, a10 \o b11 \o b12 \o b13 \o b14, p15)
    BY <1>11
  <2> HIDE DEF a10
  <2> QED BY <1>1, <1>5, <2>1, CodeFive
<1>13. PICK p7, p8, p9, p10 : /\ Code(m, a6, p7) /\ Code(p7, b7, p8) /\ Code(p8, b8, p9)
        /\ Code(p9, b9, p10) /\ Code(p10, b10, p11)
  <2>1. Code(m, a6 \o b7 \o b8 \o b9 \o b10, p11)
    BY <1>12
  <2> HIDE DEF a6
  <2> QED BY <1>1, <1>4, <2>1, CodeFive
<1>14. PICK p3, p4, p5, p6 : /\ Code(m, a2, p3) /\ Code(p3, b3, p4) /\ Code(p4, b4, p5)
        /\ Code(p5, b5, p6) /\ Code(p6, b6, p7)
  <2>1. Code(m, a2 \o b3 \o b4 \o b5 \o b6, p7)
    BY <1>13
  <2> HIDE DEF a2
  <2> QED BY <1>1, <1>3, <2>1, CodeFive
<1>15. PICK p2 : Code(m, b1, p2) /\ Code(p2, b2, p3)
  <2>1. Code(m, b1 \o b2, p3)
    BY <1>14
  <2> QED BY <1>1, <2>1, CodeCat
<1> DEFINE P == <<m, p2, p3, p4, p5, p6, p7, p8, p9, p10, p11, p12, p13, p14, p15, p16, p17, p18, p19, p20, p21, p22, p23, p24, p25, p26, k>>
<1>16. /\ P[1] = m /\ P[2] = p2 /\ P[3] = p3 /\ P[4] = p4 /\ P[5] = p5 /\ P[6] = p6 /\ P[7] = p7
       /\ P[8] = p8 /\ P[9] = p9 /\ P[10] = p10 /\ P[11] = p11 /\ P[12] = p12 /\ P[13] = p13 /\ P[14] = p14
       /\ P[15] = p15 /\ P[16] = p16 /\ P[17] = p17 /\ P[18] = p18 /\ P[19] = p19 /\ P[20] = p20 /\ P[21] = p21
       /\ P[22] = p22 /\ P[23] = p23 /\ P[24] = p24 /\ P[25] = p25 /\ P[26] = p26 /\ P[27] = k
  OBVIOUS
<1> HIDE DEF P
<1>17. ConvAt(n, l, from, to, ws, P)
  BY <1>9, <1>10, <1>11, <1>12, <1>13, <1>14, <1>15, <1>16
     DEF ConvAt, b1, b2, b3, b4, b5, b6, b7, b8, b9, b10, b11, b12, b13, b14, b15, b16, b17, b18, b19, b20, b21, b22, b23, b24, b25, b26
<1> QED BY <1>16, <1>17

\* From m0 and s control is at m, with d here and n outputs written.
Has(m0, s, m, d, to, f, n) == Goes(m0, s, m, d) /\ Ok(d) /\ Filled(s, d, to, f, n)

\* e is d but for the registers rs, in what control goes by.
Keeps(d, e, rs) ==
  /\ e.acc = d.acc /\ (d.voted = TRUE => e.voted = TRUE)
  /\ \A q \in Regs \ rs : e.regs[q] = d.regs[q]

\* A move that leaves the memory alone.
LEMMA HasMoves ==
  ASSUME NEW m0, NEW s, NEW m, NEW d, NEW to, NEW f, NEW n, Has(m0, s, m, d, to, f, n),
         NEW k, NEW e, NEW rs, Passes(m, d, k, e, rs)
  PROVE  Has(m0, s, k, e, to, f, n) /\ Keeps(d, e, rs)
<1>1. Goes(m0, s, m, d) /\ Filled(s, d, to, f, n)
  BY DEF Has
<1>2. Goes(m, d, k, e) /\ Ok(e) /\ Same(d, e, rs)
  BY DEF Passes
<1>3. Goes(m0, s, k, e)
  BY <1>1, <1>2, GoesTrans
<1>4. e.mem = d.mem /\ e.out = d.out /\ e.written = d.written
  BY <1>2 DEF Same
<1>5. Filled(s, e, to, f, n)
  BY <1>1, <1>4, FilledSame
<1> QED BY <1>2, <1>3, <1>5 DEF Has, Same, Keeps

\* A step that changes nothing.
LEMMA HasGoes ==
  ASSUME NEW m0, NEW s, NEW m, NEW d, NEW to, NEW f, NEW n, Has(m0, s, m, d, to, f, n), NEW k, Goes(m, d, k, d)
  PROVE  Has(m0, s, k, d, to, f, n)
<1>1. Goes(m0, s, m, d) /\ Ok(d) /\ Filled(s, d, to, f, n)
  BY DEF Has
<1>2. Goes(m0, s, k, d)
  BY <1>1, GoesTrans
<1> QED BY <1>1, <1>2 DEF Has

\* The labels of a convolution.
LEMMA ConvLabels ==
  ASSUME Sizes, InPlace, NEW n, NEW l, NEW from, NEW to, NEW ws, NEW P, ConvAt(n, l, from, to, ws, P)
  PROVE  /\ Labelled(<<"chan", n>>, P[3]) /\ Labelled(<<"row", n>>, P[8]) /\ Labelled(<<"pix", n>>, P[13])
         /\ Labelled(<<"row_next", n>>, P[20]) /\ Labelled(<<"chan_next", n>>, P[23]) /\ Labelled(<<"end", n>>, P[26])
         /\ \A c : /\ Goes(P[3], c, P[4], c) /\ Goes(P[8], c, P[9], c) /\ Goes(P[20], c, P[21], c)
                   /\ Goes(P[23], c, P[24], c) /\ Goes(P[26], c, P[27], c)
<1>1. \A s : <<s, n>> # NoLabel
  BY DEF NoLabel
<1>2. /\ Code(P[3], Here(<<"chan", n>>), P[4]) /\ Code(P[8], Here(<<"row", n>>), P[9])
      /\ Code(P[13], While(<<"pix", n>>, 1, 7, <<"row_next", n>>), P[14])
      /\ Code(P[20], Here(<<"row_next", n>>), P[21]) /\ Code(P[23], Here(<<"chan_next", n>>), P[24])
      /\ Code(P[26], Here(<<"end", n>>), P[27])
  BY DEF ConvAt
<1>3. Labelled(<<"chan", n>>, P[3]) /\ \A c : Goes(P[3], c, P[4], c)
  BY <1>1, <1>2, HereGoes
<1>4. Labelled(<<"row", n>>, P[8]) /\ \A c : Goes(P[8], c, P[9], c)
  BY <1>1, <1>2, HereGoes
<1>5. Labelled(<<"row_next", n>>, P[20]) /\ \A c : Goes(P[20], c, P[21], c)
  BY <1>1, <1>2, HereGoes
<1>6. Labelled(<<"chan_next", n>>, P[23]) /\ \A c : Goes(P[23], c, P[24], c)
  BY <1>1, <1>2, HereGoes
<1>7. Labelled(<<"end", n>>, P[26]) /\ \A c : Goes(P[26], c, P[27], c)
  BY <1>1, <1>2, HereGoes
<1>8. Labelled(<<"pix", n>>, P[13])
  <2>1. 1 \in Regs /\ 7 \in Regs
    BY DEF Regs
  <2> QED BY <1>1, <1>2, <2>1, WhileGoes
<1> QED BY <1>3, <1>4, <1>5, <1>6, <1>7, <1>8

\* Its sizes.
LEMMA ConvSizes ==
  ASSUME Sizes, NEW l, IsPlane(l), l.kind = "Conv", NEW from, NEW to, NEW ws, NEW s, NEW in,
         Ready(s, l, in, from, to, ws)
  PROVE  /\ InLen(l) = l.h * l.w /\ OutLen(l) = l.c * (Oh(l) * Ow(l)) /\ Weights(l) = l.c * (l.k * l.k)
         /\ InLen(l) \in Nat /\ OutLen(l) \in Nat /\ Weights(l) \in Nat
         /\ from \in Nat /\ ws \in Nat /\ to \in Nat /\ AddrSize \in Nat /\ U16 \in Nat /\ AddrSize < U16
         /\ from + InLen(l) <= AddrSize /\ to + OutLen(l) <= AddrSize /\ ws + Weights(l) <= AddrSize
<1>1. /\ l.k \in Nat /\ l.h \in Nat /\ l.w \in Nat /\ l.c \in Nat /\ Oh(l) \in Nat /\ Ow(l) \in Nat
      /\ OutLen(l) = l.c * (Oh(l) * Ow(l))
  BY PlaneSizes
<1>2. /\ l.h * l.w \in Nat /\ l.k * l.k \in Nat /\ Oh(l) * Ow(l) \in Nat
  BY <1>1, Times
<1>3. l.c * (Oh(l) * Ow(l)) \in Nat /\ l.c * (l.k * l.k) \in Nat
  BY <1>1, <1>2, Times
<1>4. InLen(l) = l.h * l.w /\ Weights(l) = l.c * (l.k * l.k)
  BY DEF InLen, Weights
<1>5. from \in Nat /\ ws \in Nat /\ to \in Nat
      /\ from + InLen(l) <= AddrSize /\ to + OutLen(l) <= AddrSize /\ ws + Weights(l) <= AddrSize
  BY DEF Ready
<1>6. AddrSize \in Nat /\ U16 \in Nat /\ AddrSize < U16
  BY DEF Sizes, Words, U16
<1> QED BY <1>1, <1>2, <1>3, <1>4, <1>5, <1>6

\* At tap t of the window at offset a, with the channel's weights at offset b, for
\* output o and with the sum v.
ConvWin(m0, s, l, from, to, ws, f, m, a, b, o, e, v, t, d) ==
  /\ Has(m0, s, m, d, to, f, o) /\ d.acc = v /\ d.voted = TRUE
  /\ d.regs[0] = ws + b /\ d.regs[1] = from + a /\ d.regs[3] = to + o /\ d.regs[7] = e
  /\ t < l.k * l.k => d.regs[2] = from + (a + Off(t, l)) /\ d.regs[6] = ws + (b + t)

\* A tap.
LEMMA ConvTapGoes ==
  ASSUME Sizes, InPlace, NEW l, IsPlane(l), l.kind = "Conv", l.w - l.k + 1 <= 63, NEW from, NEW to, NEW ws,
         NEW s, NEW in, Ready(s, l, in, from, to, ws), NEW f, NEW m0, NEW m, NEW k,
         NEW t \in 0 .. l.k * l.k - 1, Code(m, ConvTap(l)[t], k),
         NEW a \in Nat, NEW b \in Nat, NEW o \in 0 .. OutLen(l), NEW e7,
         \A j \in 0 .. l.k * l.k - 1 : a + Off(j, l) \in 0 .. InLen(l) - 1 /\ b + j \in 0 .. Weights(l) - 1,
         NEW v, NEW v1 \in Sums, v1 = v + in[a + Off(t, l) + 1] * l.weights[b + t + 1],
         NEW d, ConvWin(m0, s, l, from, to, ws, f, m, a, b, o, e7, v, t, d)
  PROVE  \E e : ConvWin(m0, s, l, from, to, ws, f, k, a, b, o, e7, v1, t + 1, e)
<1> DEFINE n  == l.k * l.k
           y  == a + Off(t, l)
           z  == b + t
           st == Stride(t, l)
<1>0. /\ 0 \in Regs /\ 1 \in Regs /\ 2 \in Regs /\ 3 \in Regs /\ 6 \in Regs /\ 7 \in Regs
      /\ 2 \in Regs \ {4} /\ 6 \in Regs \ {4} /\ 1 \in Nat /\ 1 <= 63
  BY DEF Regs
<1>1. /\ n \in Nat /\ st \in Nat /\ st <= 63 /\ Off(t + 1, l) = Off(t, l) + st /\ Off(t, l) \in Nat
      /\ t \in Nat
  <2>1. l.k \in Nat /\ l.k >= 1 /\ l.w \in Nat /\ l.k <= l.w
    BY PlaneSizes
  <2>2. n \in Nat /\ t \in Nat
    BY <2>1, Times
  <2>3. Off(t + 1, l) = Off(t, l) + st /\ Off(t, l) \in Nat /\ st \in Nat /\ (st = 1 \/ st = l.w - l.k + 1)
    BY <2>1, <2>2, Window
  <2> QED BY <2>2, <2>3
<1>2. /\ InLen(l) \in Nat /\ OutLen(l) \in Nat /\ Weights(l) \in Nat
      /\ from \in Nat /\ ws \in Nat /\ to \in Nat /\ AddrSize \in Nat
  BY ConvSizes
<1>3. y \in 0 .. InLen(l) - 1 /\ z \in 0 .. Weights(l) - 1 /\ y \in Nat /\ z \in Nat
  BY <1>1
<1>4. t # n - 1 => y + st \in 0 .. InLen(l) - 1 /\ z + 1 \in 0 .. Weights(l) - 1
                   /\ y + st = a + Off(t + 1, l) /\ z + 1 = b + (t + 1)
  <2>1. t # n - 1 => t + 1 \in 0 .. n - 1
    BY <1>1
  <2>2. y + st = a + Off(t + 1, l) /\ z + 1 = b + (t + 1)
    BY <1>1
  <2> HIDE DEF y, z, st
  <2> QED BY <2>1, <2>2
<1>5. /\ Has(m0, s, m, d, to, f, o) /\ d.acc = v /\ d.voted = TRUE
      /\ d.regs[0] = ws + b /\ d.regs[1] = from + a /\ d.regs[3] = to + o /\ d.regs[7] = e7
      /\ d.regs[2] = from + y /\ d.regs[6] = ws + z
  <2>1. t < n
    BY <1>1
  <2> QED BY <2>1 DEF ConvWin
<1>6. v1 = v + in[y + 1] * l.weights[z + 1]
  BY DEF y, z
<1> HIDE DEF y, z, st
<1>7. /\ from + y \in Nat /\ from + y < AddrSize /\ Readable(d, from + y) /\ d.mem[from + y] = in[y + 1]
      /\ ws + z \in Nat /\ ws + z < AddrSize /\ Readable(d, ws + z) /\ d.mem[ws + z] = Byte(l.weights[z + 1])
      /\ (t # n - 1 => from + (y + st) + 1 \in Words /\ ws + (z + 1) + 1 \in Words)
  <2>1. Given(d, l, in, from, ws)
    BY <1>2, <1>5, StillThere DEF Has
  <2> HIDE DEF n
  <2> QED BY <1>3, <1>4, <2>1 DEF Given
<1>8. Signed(Byte(l.weights[z + 1])) = l.weights[z + 1]
  <2>1. l.weights[z + 1] \in -128 .. 127
    BY <1>3 DEF Ready
  <2> QED BY <2>1, SignedByte
<1> DEFINE tap == Tap(2, 6)
           add == Addi(6, 6, 1)
           nxt == Addi(2, 2, st)
           rest == IF t = n - 1 THEN << >> ELSE add \o nxt
<1>9. KnownCode(tap) /\ KnownCode(add) /\ KnownCode(nxt) /\ KnownCode(rest)
  <2>1. KnownCode(tap) /\ KnownCode(add) /\ KnownCode(nxt)
    BY Pieces
  <2> HIDE DEF tap, add, nxt
  <2> QED BY <2>1, KnownCat, KnownNone
<1>10. PICK j : Code(m, tap, j) /\ Code(j, rest, k)
  <2>1. ConvTap(l)[t] = tap \o rest
    BY DEF ConvTap, st
  <2>2. Code(m, tap \o rest, k)
    BY <2>1
  <2> HIDE DEF tap, rest
  <2> QED BY <1>9, <2>2, CodeCat
<1>11. PICK d1 : Turns(m, d, j, d1, Hold(d, d.acc + d.mem[d.regs[2]] * Signed(d.mem[d.regs[6]])), {4, 5})
  <2>1. /\ d.regs[2] < AddrSize /\ Readable(d, d.regs[2]) /\ d.regs[6] < AddrSize /\ Readable(d, d.regs[6])
    BY <1>5, <1>7
  <2>2. Ok(d)
    BY <1>5 DEF Has
  <2>3. d.acc + d.mem[d.regs[2]] * Signed(d.mem[d.regs[6]]) \in Sums
    <3>1. d.acc + d.mem[d.regs[2]] * Signed(d.mem[d.regs[6]]) = v1
      BY <1>5, <1>6, <1>7, <1>8
    <3> QED BY <3>1
  <2> QED BY <1>0, <1>10, <2>1, <2>2, <2>3, TapGoes
<1>12. /\ Has(m0, s, j, d1, to, f, o) /\ d1.acc = v1 /\ d1.voted = TRUE
       /\ d1.regs[0] = ws + b /\ d1.regs[1] = from + a /\ d1.regs[3] = to + o /\ d1.regs[7] = e7
       /\ d1.regs[2] = from + y /\ d1.regs[6] = ws + z
  <2>1. d.acc + d.mem[d.regs[2]] * Signed(d.mem[d.regs[6]]) = v1
    BY <1>5, <1>6, <1>7, <1>8
  <2>2. /\ Goes(m, d, j, d1) /\ Ok(d1) /\ d1.mem = d.mem /\ d1.acc = v1 /\ d1.out = d.out
        /\ d1.written = d.written /\ d1.voted = TRUE /\ \A q \in Regs \ {4, 5} : d1.regs[q] = d.regs[q]
    BY <1>5, <1>11, <2>1 DEF Turns, Same, Hold, Shot
  <2>3. Has(m0, s, j, d1, to, f, o)
    <3>1. Goes(m0, s, j, d1)
      BY <1>5, <2>2, GoesTrans DEF Has
    <3>2. Filled(s, d1, to, f, o)
      BY <1>5, <2>2, FilledSame DEF Has
    <3> QED BY <2>2, <3>1, <3>2 DEF Has
  <2> QED BY <1>0, <1>5, <2>2, <2>3
<1>13. CASE t = n - 1
  <2>1. j = k
    <3>1. Code(j, << >>, k)
      BY <1>10, <1>13
    <3>2. j \in Int /\ k = j + Len(<< >>) /\ Len(<< >>) = 0
      BY <3>1 DEF Code
    <3> QED BY <3>2
  <2>2. ~(t + 1 < n)
    BY <1>1, <1>13
  <2>3. ConvWin(m0, s, l, from, to, ws, f, k, a, b, o, e7, v1, t + 1, d1)
    BY <1>12, <2>1, <2>2 DEF ConvWin
  <2> QED BY <2>3
<1>14. CASE t # n - 1
  <2>1. PICK i1 : Code(j, add, i1) /\ Code(i1, nxt, k)
    <3>1. Code(j, add \o nxt, k)
      BY <1>10, <1>14
    <3> HIDE DEF add, nxt
    <3> QED BY <1>9, <3>1, CodeCat
  <2>2. PICK d2 : Passes(j, d1, i1, d2, {6}) /\ d2.regs[6] = ws + z + 1
    <3>1. d1.regs[6] + 1 \in Words
      <4>1. ws + (z + 1) + 1 \in Nat /\ ws + (z + 1) + 1 < U16 /\ U16 \in Nat
        BY <1>7, <1>14 DEF Words, U16
      <4> HIDE DEF n
      <4> QED BY <1>2, <1>3, <1>12, <4>1 DEF Words
    <3>2. Gives(j, d1, i1, {6}, 6, d1.regs[6] + 1)
      BY <1>0, <1>12, <2>1, <3>1, AddiMoves DEF Has
    <3> QED BY <1>12, <3>2 DEF Gives
  <2>3. /\ Has(m0, s, i1, d2, to, f, o) /\ d2.acc = v1 /\ d2.voted = TRUE
        /\ d2.regs[0] = ws + b /\ d2.regs[1] = from + a /\ d2.regs[3] = to + o /\ d2.regs[7] = e7
        /\ d2.regs[2] = from + y
    <3>1. Has(m0, s, i1, d2, to, f, o) /\ Keeps(d1, d2, {6})
      BY <1>12, <2>2, HasMoves
    <3> QED BY <1>0, <1>12, <3>1 DEF Keeps
  <2>4. PICK d3 : Passes(i1, d2, k, d3, {2}) /\ d3.regs[2] = from + y + st
    <3>1. d2.regs[2] + st \in Words
      <4>1. from + (y + st) + 1 \in Nat /\ from + (y + st) + 1 < U16 /\ U16 \in Nat
        BY <1>7, <1>14 DEF Words, U16
      <4> HIDE DEF n
      <4> QED BY <1>1, <1>2, <1>3, <2>3, <4>1 DEF Words
    <3>2. Gives(i1, d2, k, {2}, 2, d2.regs[2] + st)
      BY <1>0, <1>1, <2>1, <2>3, <3>1, AddiMoves DEF Has
    <3> QED BY <2>3, <3>2 DEF Gives
  <2>5. /\ Has(m0, s, k, d3, to, f, o) /\ d3.acc = v1 /\ d3.voted = TRUE
        /\ d3.regs[0] = ws + b /\ d3.regs[1] = from + a /\ d3.regs[3] = to + o /\ d3.regs[7] = e7
        /\ d3.regs[6] = ws + z + 1
    <3>1. Has(m0, s, k, d3, to, f, o) /\ Keeps(d2, d3, {2})
      BY <2>3, <2>4, HasMoves
    <3> QED BY <1>0, <2>2, <2>3, <3>1 DEF Keeps
  <2>6. ws + z + 1 = ws + (b + (t + 1)) /\ from + y + st = from + (a + Off(t + 1, l))
    <3>1. ws + z + 1 = ws + (z + 1) /\ from + y + st = from + (y + st)
      BY <1>1, <1>2, <1>3
    <3> QED BY <1>4, <1>14, <3>1
  <2>7. ConvWin(m0, s, l, from, to, ws, f, k, a, b, o, e7, v1, t + 1, d3)
    BY <2>4, <2>5, <2>6 DEF ConvWin
  <2> QED BY <2>7
<1> QED BY <1>13, <1>14

\* The bytes that a pixel of a convolution is computed from.
LEMMA ConvAddr ==
  ASSUME Sizes, NEW l, IsPlane(l), l.kind = "Conv", NEW from, NEW to, NEW ws, NEW s, NEW in,
         Ready(s, l, in, from, to, ws), NEW c, NEW r, NEW q, NEW o, Pixel(l, c, r, q, o),
         NEW a, a = r * l.w + q, NEW b, b = c * (l.k * l.k)
  PROVE  /\ \A t \in 0 .. l.k * l.k - 1 : a + Off(t, l) \in 0 .. InLen(l) - 1 /\ b + t \in 0 .. Weights(l) - 1
         /\ a \in Nat /\ b \in Nat /\ o \in 0 .. OutLen(l) - 1 /\ o \in Nat
         /\ r * l.w \in Nat /\ r * l.w + Ow(l) <= InLen(l) /\ b + l.k * l.k <= Weights(l)
<1>1. /\ l.k \in Nat /\ l.k >= 1 /\ l.h \in Nat /\ l.w \in Nat /\ l.c \in Nat /\ l.k <= l.h /\ l.k <= l.w
      /\ Oh(l) = l.h - l.k + 1 /\ Ow(l) = l.w - l.k + 1 /\ l.k * l.k \in Nat
  BY PlaneSizes, Times
<1>2. /\ InLen(l) = l.h * l.w /\ Weights(l) = l.c * (l.k * l.k)
      /\ InLen(l) \in Nat /\ OutLen(l) \in Nat /\ Weights(l) \in Nat
  BY ConvSizes
<1>3. c \in Nat /\ c < l.c /\ r \in Nat /\ r < Oh(l) /\ q \in Nat /\ q < Ow(l)
  BY DEF Pixel
<1>4. o \in Nat /\ o < OutLen(l)
  BY PixelIs
<1>5. /\ b \in Nat /\ b + l.k * l.k <= Weights(l)
      /\ \A t \in 0 .. l.k * l.k - 1 : b + t \in 0 .. Weights(l) - 1
  <2> DEFINE n == l.k * l.k
  <2>1. b = c * n /\ c * n \in Nat /\ c * n + n <= l.c * n /\ Weights(l) = l.c * n /\ n \in Nat
    BY <1>1, <1>2, <1>3, Rows
  <2> HIDE DEF n
  <2>2. b \in Nat /\ b + n <= Weights(l) /\ n \in Nat
    BY <2>1
  <2>3. \A t \in 0 .. n - 1 : b + t \in 0 .. Weights(l) - 1
    BY <1>2, <2>2
  <2> QED BY <2>2, <2>3 DEF n
<1>6. r * l.w \in Nat /\ r * l.w + l.w <= l.h * l.w
  <2>1. r < l.h
    BY <1>1, <1>3
  <2> QED BY <1>1, <1>3, <2>1, Rows
<1>7. r * l.w + Ow(l) <= InLen(l) /\ a \in Nat
  BY <1>1, <1>2, <1>3, <1>6
<1>8. ASSUME NEW t \in 0 .. l.k * l.k - 1 PROVE a + Off(t, l) \in 0 .. InLen(l) - 1
  <2>1. r * 1 = r /\ q * 1 = q /\ r * 1 + l.k <= l.h /\ q * 1 + l.k <= l.w
    BY <1>1, <1>3
  <2>2. (r * 1) * l.w + q * 1 + Off(t, l) \in 0 .. l.h * l.w - 1
    BY <2>1, TapAtIs
  <2>3. (r * 1) * l.w + q * 1 + Off(t, l) = a + Off(t, l)
    BY <2>1
  <2> QED BY <1>2, <2>2, <2>3
<1> QED BY <1>2, <1>4, <1>5, <1>6, <1>7, <1>8

\* The window at offset a and the weights at offset b exist, and g are their sums.
WindowFits(l, a, b) ==
  \A j \in 0 .. l.k * l.k - 1 : a + Off(j, l) \in 0 .. InLen(l) - 1 /\ b + j \in 0 .. Weights(l) - 1
WindowSums(l, in, a, b, g) ==
  \A t \in 0 .. l.k * l.k - 1 :
    g[t + 1] = g[t] + in[a + Off(t, l) + 1] * l.weights[b + t + 1] /\ g[t + 1] \in Sums

\* The whole window.
LEMMA ConvTaps ==
  ASSUME Sizes, InPlace, NEW l, IsPlane(l), l.kind = "Conv", l.w - l.k + 1 <= 63, NEW from, NEW to, NEW ws,
         NEW s, NEW in, Ready(s, l, in, from, to, ws), NEW f, NEW m0, NEW m, NEW k,
         Code(m, Unrolled(l.k * l.k, ConvTap(l)), k),
         NEW a \in Nat, NEW b \in Nat, NEW o \in 0 .. OutLen(l), NEW e7,
         WindowFits(l, a, b), NEW g, WindowSums(l, in, a, b, g),
         NEW c, ConvWin(m0, s, l, from, to, ws, f, m, a, b, o, e7, g[0], 0, c)
  PROVE  \E d : ConvWin(m0, s, l, from, to, ws, f, k, a, b, o, e7, g[l.k * l.k], l.k * l.k, d)
<1>1. l.k * l.k \in Nat
  BY PlaneSizes, Times
<1>2. PICK pos : /\ pos[0] = m /\ pos[l.k * l.k] = k
                 /\ \A t \in 0 .. l.k * l.k - 1 : Code(pos[t], ConvTap(l)[t], pos[t + 1])
  BY <1>1, ConvTapKnown, UnrolledAt
<1> DEFINE S == {t \in 0 .. l.k * l.k :
                   \E d : ConvWin(m0, s, l, from, to, ws, f, pos[t], a, b, o, e7, g[t], t, d)}
<1>3. 0 \in S
  <2>1. 0 \in 0 .. l.k * l.k
    BY <1>1
  <2> QED BY <1>2, <2>1
<1>4. ASSUME NEW t \in 0 .. l.k * l.k - 1, t \in S PROVE t + 1 \in S
  <2>1. PICK d : ConvWin(m0, s, l, from, to, ws, f, pos[t], a, b, o, e7, g[t], t, d)
    BY <1>4
  <2>2. g[t + 1] = g[t] + in[a + Off(t, l) + 1] * l.weights[b + t + 1] /\ g[t + 1] \in Sums
        /\ Code(pos[t], ConvTap(l)[t], pos[t + 1])
    BY <1>2 DEF WindowSums
  <2>3. \E e : ConvWin(m0, s, l, from, to, ws, f, pos[t + 1], a, b, o, e7, g[t + 1], t + 1, e)
    BY <2>1, <2>2, ConvTapGoes DEF WindowFits
  <2>4. t + 1 \in 0 .. l.k * l.k
    BY <1>1
  <2> QED BY <2>3, <2>4
<1> HIDE DEF S
<1>5. l.k * l.k \in S
  <2>1. l.k * l.k \in 0 .. l.k * l.k
    BY <1>1
  <2>2. \A t \in 0 .. l.k * l.k : t \in S
    BY <1>1, <1>3, <1>4, Climb
  <2> QED BY <2>1, <2>2
<1> QED BY <1>2, <1>5 DEF S

\* At the pixel at offset a of a row that ends at offset e, before output o.
ConvPix(m0, s, from, to, ws, f, m, a, b, e, o, d) ==
  /\ Has(m0, s, m, d, to, f, o) /\ d.acc = 0
  /\ d.regs[0] = ws + b /\ d.regs[1] = from + a /\ d.regs[3] = to + o /\ d.regs[7] = from + e

\* A pixel.
LEMMA ConvPixel ==
  ASSUME Sizes, InPlace, NEW n, NEW l, IsPlane(l), l.kind = "Conv", l.w - l.k + 1 <= 63, SumFits(l),
         NEW from, NEW to, NEW ws, NEW s, NEW in, Ready(s, l, in, from, to, ws), NEW f, f = EvalLayer(l, in),
         NEW P, ConvAt(n, l, from, to, ws, P), NEW c, NEW r, NEW q, NEW o, Pixel(l, c, r, q, o),
         NEW a, a = r * l.w + q, NEW b, b = c * (l.k * l.k), NEW e, e = r * l.w + Ow(l),
         NEW d, ConvPix(P[1], s, from, to, ws, f, P[13], a, b, e, o, d)
  PROVE  \E u : ConvPix(P[1], s, from, to, ws, f, P[13], a + 1, b, e, o + 1, u)
<1>0. /\ 0 \in Regs /\ 1 \in Regs /\ 2 \in Regs /\ 3 \in Regs /\ 6 \in Regs /\ 7 \in Regs
      /\ 4 \in Regs \ {3} /\ 0 \in Nat /\ 0 <= 63 /\ 1 \in Nat /\ 1 <= 63
      /\ 0 \in Regs \ {4, 3} /\ 1 \in Regs \ {4, 3} /\ 7 \in Regs \ {4, 3}
  BY DEF Regs
<1>1. /\ \A t \in 0 .. l.k * l.k - 1 : a + Off(t, l) \in 0 .. InLen(l) - 1 /\ b + t \in 0 .. Weights(l) - 1
      /\ a \in Nat /\ b \in Nat /\ o \in 0 .. OutLen(l) - 1 /\ o \in Nat
      /\ r * l.w \in Nat /\ r * l.w + Ow(l) <= InLen(l) /\ b + l.k * l.k <= Weights(l)
  BY ConvAddr
<1>2. /\ InLen(l) \in Nat /\ OutLen(l) \in Nat /\ Weights(l) \in Nat
      /\ from \in Nat /\ ws \in Nat /\ to \in Nat /\ AddrSize \in Nat /\ U16 \in Nat /\ AddrSize < U16
      /\ from + InLen(l) <= AddrSize /\ to + OutLen(l) <= AddrSize /\ ws + Weights(l) <= AddrSize
  BY ConvSizes
<1>3. e \in Nat /\ a < e /\ e <= InLen(l) /\ l.k * l.k \in Nat
  <2>1. q < Ow(l) /\ q \in Nat /\ Ow(l) \in Nat /\ l.k * l.k \in Nat
    BY PlaneSizes, Times DEF Pixel
  <2> QED BY <1>1, <1>2, <2>1
<1> DEFINE T == [t \in 0 .. l.k * l.k - 1 |->
                   in[r * l.w + q + Off(t, l) + 1] * l.weights[c * (l.k * l.k) + t + 1]]
<1>4. PICK g : Adds(l.k * l.k, T, g) /\ f[o + 1] = Fout(g[l.k * l.k], l.shift)
  <2>1. T = [t \in 0 .. l.k * l.k - 1 |->
                   in[r * l.w + q + Off(t, l) + 1] * l.weights[c * (l.k * l.k) + t + 1]]
    OBVIOUS
  <2> HIDE DEF T
  <2>2. SumOf(l, in, o, l.k * l.k, T)
    BY <2>1, ConvSum
  <2> QED BY <2>2 DEF SumOf
<1>5. \A t \in 0 .. l.k * l.k - 1 : T[t] = in[a + Off(t, l) + 1] * l.weights[b + t + 1] /\ Product(T[t])
  <2>1. ASSUME NEW t \in 0 .. l.k * l.k - 1
        PROVE  T[t] = in[a + Off(t, l) + 1] * l.weights[b + t + 1] /\ Product(T[t])
    <3>1. T[t] = in[a + Off(t, l) + 1] * l.weights[b + t + 1]
      <4>1. T[t] = in[r * l.w + q + Off(t, l) + 1] * l.weights[c * (l.k * l.k) + t + 1]
        OBVIOUS
      <4> QED BY <4>1, Zenon
    <3> HIDE DEF T
    <3>2. in[a + Off(t, l) + 1] \in Bytes /\ l.weights[b + t + 1] \in -128 .. 127
      <4>1. a + Off(t, l) \in 0 .. InLen(l) - 1 /\ b + t \in 0 .. Weights(l) - 1
        BY <1>1
      <4> QED BY <4>1, Zenon DEF Ready
    <3> QED BY <3>1, <3>2, ProductBound, Zenon
  <2> HIDE DEF T
  <2> QED BY <2>1
<1> HIDE DEF T
<1>6. /\ g[0] = 0 /\ \A t \in 0 .. l.k * l.k - 1 : g[t + 1] = g[t] + in[a + Off(t, l) + 1] * l.weights[b + t + 1]
      /\ g[l.k * l.k] \in Int /\ \A t \in 0 .. l.k * l.k - 1 : g[t + 1] \in Sums
  <2>1. /\ g[0] = 0 /\ \A t \in 0 .. l.k * l.k - 1 : g[t + 1] = g[t] + T[t]
        /\ \A t \in 0 .. l.k * l.k : g[t] \in Int
    <3>1. \A t \in 0 .. l.k * l.k - 1 : T[t] \in Int
      BY <1>5, ProductInt, Zenon
    <3> QED BY <1>3, <1>4, <3>1, AddsNext
  <2>2. l.k * l.k \in 0 .. l.k * l.k
    BY <1>3
  <2>6. \A t \in 0 .. l.k * l.k - 1 : T[t] = in[a + Off(t, l) + 1] * l.weights[b + t + 1]
    BY <1>5, Zenon
  <2>3. \A t \in 0 .. l.k * l.k - 1 : g[t + 1] = g[t] + in[a + Off(t, l) + 1] * l.weights[b + t + 1]
    BY <2>1, <2>6, Zenon
  <2>4. \A t \in 0 .. l.k * l.k : g[t] \in Sums
    <3>1. Few(l.k * l.k)
      BY DEF SumFits, Few
    <3>2. Summed(l.k * l.k, T, g)
      BY <1>5, <2>1, Zenon DEF Summed
    <3> QED BY <1>3, <3>1, <3>2, AddsBound, Zenon
  <2>5. \A t \in 0 .. l.k * l.k - 1 : g[t + 1] \in Sums
    <3>1. \A n1 \in Nat : \A t \in 0 .. n1 - 1 : t + 1 \in 0 .. n1
      OBVIOUS
    <3> QED BY <1>3, <2>4, <3>1, Zenon
  <2> QED BY <2>1, <2>2, <2>3, <2>5, Zenon
<1>7. /\ Code(P[13], While(<<"pix", n>>, 1, 7, <<"row_next", n>>), P[14]) /\ Code(P[14], Addi(2, 1, 0), P[15])
      /\ Code(P[15], Addi(6, 0, 0), P[16]) /\ Code(P[16], Unrolled(l.k * l.k, ConvTap(l)), P[17])
      /\ Code(P[17], Fire(4, l.shift), P[18]) /\ Code(P[18], Addi(1, 1, 1), P[19])
      /\ Code(P[19], Goto("BR", <<"pix", n>>), P[20])
  BY DEF ConvAt
<1>8. Labelled(<<"pix", n>>, P[13]) /\ Labelled(<<"row_next", n>>, P[20]) /\ <<"pix", n>> # NoLabel
  BY ConvLabels DEF NoLabel
<1>9. /\ Has(P[1], s, P[13], d, to, f, o) /\ d.acc = 0
      /\ d.regs[0] = ws + b /\ d.regs[1] = from + a /\ d.regs[3] = to + o /\ d.regs[7] = from + e
  BY DEF ConvPix
<1> DEFINE d1 == Vote(d)
<1>10. Passes(P[13], d, P[14], d1, {}) /\ d1.voted = TRUE
  <2>1. ~(d.regs[1] >= d.regs[7])
    BY <1>1, <1>2, <1>3, <1>9
  <2>2. Leaves(P[13], 1, 7, <<"row_next", n>>, P[14])
    BY <1>0, <1>7, <1>8, WhileGoes
  <2> QED BY <1>8, <1>9, <2>1, <2>2 DEF Leaves, Has
<1> HIDE DEF d1
<1>11. /\ Has(P[1], s, P[14], d1, to, f, o) /\ d1.acc = 0
       /\ d1.regs[0] = ws + b /\ d1.regs[1] = from + a /\ d1.regs[3] = to + o /\ d1.regs[7] = from + e
  <2>1. Has(P[1], s, P[14], d1, to, f, o) /\ Keeps(d, d1, {})
    BY <1>9, <1>10, HasMoves
  <2> QED BY <1>0, <1>9, <2>1 DEF Keeps
<1>12. PICK d2 : Passes(P[14], d1, P[15], d2, {2}) /\ d2.regs[2] = from + a + 0
  <2>1. d1.regs[1] + 0 \in Words
    BY <1>1, <1>2, <1>3, <1>11 DEF Words
  <2>2. Gives(P[14], d1, P[15], {2}, 2, d1.regs[1] + 0)
    BY <1>0, <1>7, <1>11, <2>1, AddiMoves DEF Has
  <2> QED BY <1>11, <2>2 DEF Gives
<1>13. /\ Has(P[1], s, P[15], d2, to, f, o) /\ d2.acc = 0 /\ d2.voted = TRUE
       /\ d2.regs[0] = ws + b /\ d2.regs[1] = from + a /\ d2.regs[3] = to + o /\ d2.regs[7] = from + e
  <2>1. Has(P[1], s, P[15], d2, to, f, o) /\ Keeps(d1, d2, {2})
    BY <1>11, <1>12, HasMoves
  <2> QED BY <1>0, <1>10, <1>11, <2>1 DEF Keeps
<1>14. PICK d3 : Passes(P[15], d2, P[16], d3, {6}) /\ d3.regs[6] = ws + b + 0
  <2>1. d2.regs[0] + 0 \in Words
    BY <1>1, <1>2, <1>3, <1>13 DEF Words
  <2>2. Gives(P[15], d2, P[16], {6}, 6, d2.regs[0] + 0)
    BY <1>0, <1>7, <1>13, <2>1, AddiMoves DEF Has
  <2> QED BY <1>13, <2>2 DEF Gives
<1>15. ConvWin(P[1], s, l, from, to, ws, f, P[16], a, b, o, from + e, g[0], 0, d3)
  <2>1. Has(P[1], s, P[16], d3, to, f, o) /\ Keeps(d2, d3, {6})
    BY <1>13, <1>14, HasMoves
  <2>2. from + a + 0 = from + (a + Off(0, l)) /\ ws + b + 0 = ws + (b + 0)
    <3>1. Off(0, l) = 0
      BY Window, PlaneSizes
    <3> QED BY <1>1, <1>2, <3>1
  <2> QED BY <1>0, <1>6, <1>12, <1>13, <1>14, <2>1, <2>2 DEF Keeps, ConvWin
<1>16. PICK d4 : ConvWin(P[1], s, l, from, to, ws, f, P[17], a, b, o, from + e, g[l.k * l.k], l.k * l.k, d4)
  <2>1. o \in 0 .. OutLen(l)
    BY <1>1, <1>2
  <2>2. WindowFits(l, a, b) /\ WindowSums(l, in, a, b, g)
    BY <1>1, <1>6 DEF WindowFits, WindowSums
  <2> QED BY <1>1, <1>7, <1>15, <2>1, <2>2, ConvTaps
<1>17. /\ Has(P[1], s, P[17], d4, to, f, o) /\ d4.acc = g[l.k * l.k] /\ d4.voted = TRUE
       /\ d4.regs[0] = ws + b /\ d4.regs[1] = from + a /\ d4.regs[3] = to + o /\ d4.regs[7] = from + e
  BY <1>16 DEF ConvWin
<1> DEFINE v == Fout(d4.acc, l.shift)
<1>18. PICK d5 : /\ Turns(P[17], d4, P[18], d5, Poke(Hold(d4, 0), d4.regs[3], v), {4, 3})
                 /\ d5.regs[3] = d4.regs[3] + 1
  <2>1. l.shift \in Nat /\ l.shift <= 7
    BY PlaneSizes DEF SumFits
  <2>2. d4.regs[3] < AddrSize
    BY <1>1, <1>2, <1>17
  <2>3. d4.regs[3] # MMIO_TX
    <3>1. MMIO_TX \notin to .. to + OutLen(l) - 1
      BY DEF Ready
    <3> QED BY <1>1, <1>2, <1>17, <3>1
  <2>4. \E u : Fires(P[17], d4, P[18], 4, l.shift, u)
    BY <1>0, <1>7, <1>17, <2>1, <2>2, <2>3, FireGoes DEF Has
  <2> QED BY <2>4 DEF Fires
<1>19. v = f[o + 1]
  BY <1>4, <1>17
<1> HIDE DEF v
<1>20. Filled(s, d5, to, f, o + 1)
  <2>1. to + o < AddrSize
    BY <1>1, <1>2
  <2>2. Same(Poke(Hold(d4, 0), to + o, v), d5, {4, 3})
    BY <1>17, <1>18 DEF Turns
  <2>3. Ok(d4) /\ Filled(s, d4, to, f, o)
    BY <1>17 DEF Has
  <2> QED BY <1>1, <1>2, <1>19, <2>1, <2>2, <2>3, FilledNext
<1>21. /\ Has(P[1], s, P[18], d5, to, f, o + 1) /\ d5.acc = 0 /\ d5.voted = TRUE /\ d5.regs[3] = to + o + 1
       /\ d5.regs[0] = ws + b /\ d5.regs[1] = from + a /\ d5.regs[7] = from + e
  <2>1. /\ Poke(Hold(d4, 0), d4.regs[3], v).acc = 0 /\ Poke(Hold(d4, 0), d4.regs[3], v).regs = d4.regs
        /\ Poke(Hold(d4, 0), d4.regs[3], v).voted = d4.voted
    BY DEF Poke, Hold, Shot
  <2>2. Goes(P[17], d4, P[18], d5) /\ Ok(d5) /\ Same(Poke(Hold(d4, 0), d4.regs[3], v), d5, {4, 3})
    BY <1>18 DEF Turns
  <2>3. Goes(P[1], s, P[18], d5)
    BY <1>17, <2>2, GoesTrans DEF Has
  <2>4. Has(P[1], s, P[18], d5, to, f, o + 1)
    BY <1>20, <2>2, <2>3 DEF Has
  <2> QED BY <1>0, <1>17, <1>18, <2>1, <2>2, <2>4 DEF Same
<1>22. PICK u : Passes(P[18], d5, P[19], u, {1}) /\ u.regs[1] = from + a + 1
  <2>1. d5.regs[1] + 1 \in Words
    BY <1>1, <1>2, <1>3, <1>21 DEF Words
  <2>2. Gives(P[18], d5, P[19], {1}, 1, d5.regs[1] + 1)
    BY <1>0, <1>7, <1>21, <2>1, AddiMoves DEF Has
  <2> QED BY <1>21, <2>2 DEF Gives
<1>23. /\ Has(P[1], s, P[19], u, to, f, o + 1) /\ u.acc = 0 /\ u.voted = TRUE /\ u.regs[3] = to + o + 1
       /\ u.regs[0] = ws + b /\ u.regs[7] = from + e
  <2>1. Has(P[1], s, P[19], u, to, f, o + 1) /\ Keeps(d5, u, {1})
    BY <1>21, <1>22, HasMoves
  <2> QED BY <1>0, <1>21, <2>1 DEF Keeps
<1>24. Has(P[1], s, P[13], u, to, f, o + 1)
  <2>1. Goes(P[19], u, P[13], u)
    BY <1>7, <1>8, <1>23, BrGoes
  <2> QED BY <1>23, <2>1, HasGoes
<1>25. from + a + 1 = from + (a + 1) /\ to + o + 1 = to + (o + 1)
  BY <1>1, <1>2
<1>26. ConvPix(P[1], s, from, to, ws, f, P[13], a + 1, b, e, o + 1, u)
  BY <1>22, <1>23, <1>24, <1>25 DEF ConvPix
<1> QED BY <1>26

\* From m and c to k, with a comparison made.
Tests(m, c, k, rs) == \E d : Passes(m, c, k, d, rs) /\ d.voted = TRUE

\* At j when register r has reached v, at k before.
Limits(m, c, r, v, j, k) ==
  (c.regs[r] >= v => Tests(m, c, j, {5})) /\ (~(c.regs[r] >= v) => Tests(m, c, k, {5}))

\* A register is compared with a limit.
LEMMA LimitGoes ==
  ASSUME Sizes, InPlace, NEW m, NEW n1, NEW n2, NEW k, NEW v \in Words, NEW r \in Regs, r # 5, NEW label, NEW j,
         Code(m, Lit(5, v), n1), Code(n1, Cmp(r, 5), n2), Code(n2, Goto("BRzp", label), k), Labelled(label, j),
         NEW c, Ok(c)
  PROVE  Limits(m, c, r, v, j, k)
<1>0. 5 \in Regs /\ r \in Regs
  BY DEF Regs
<1>1. PICK d : Passes(m, c, n1, d, {5}) /\ d.regs[5] = v
  <2>1. Gives(m, c, n1, {5}, 5, v)
    BY <1>0, LitGoes
  <2> QED BY <2>1 DEF Gives
<1>2. Ok(d) /\ d.regs[r] = c.regs[r]
  BY <1>0, <1>1 DEF Passes, Same
<1> DEFINE e == Vote(d)
<1>3. /\ Taken("BRzp", d.regs[r], d.regs[5])  => Passes(n1, d, j, e, {})
      /\ ~Taken("BRzp", d.regs[r], d.regs[5]) => Passes(n1, d, k, e, {})
      /\ e.voted = TRUE
  <2>1. "BRzp" \in Conds
    BY DEF Conds
  <2> QED BY <1>0, <1>2, <2>1, CmpMoves
<1>4. Taken("BRzp", d.regs[r], d.regs[5]) <=> c.regs[r] >= v
  BY <1>1, <1>2 DEF Taken
<1> HIDE DEF e
<1>5. \A i1 : Passes(n1, d, i1, e, {}) => Passes(m, c, i1, e, {5})
  <2>1. \A i1 : Passes(n1, d, i1, e, {}) => Passes(m, c, i1, e, {5} \cup {})
    BY <1>1, MovesTrans
  <2>2. {5} \cup {} = {5}
    OBVIOUS
  <2> QED BY <2>1, <2>2, Zenon
<1> QED BY <1>3, <1>4, <1>5 DEF Tests, Limits

\* All the pixels of a row.
LEMMA ConvPixels ==
  ASSUME Sizes, InPlace, NEW n, NEW l, IsPlane(l), l.kind = "Conv", l.w - l.k + 1 <= 63, SumFits(l),
         NEW from, NEW to, NEW ws, NEW s, NEW in, Ready(s, l, in, from, to, ws), NEW f, f = EvalLayer(l, in),
         NEW P, ConvAt(n, l, from, to, ws, P), NEW c \in Nat, c < l.c, NEW r \in Nat, r < Oh(l),
         NEW b, b = c * (l.k * l.k), NEW a, a = r * l.w, NEW o, o = c * (Oh(l) * Ow(l)) + r * Ow(l),
         NEW d, ConvPix(P[1], s, from, to, ws, f, P[13], a, b, a + Ow(l), o, d)
  PROVE  \E u : ConvPix(P[1], s, from, to, ws, f, P[13], a + Ow(l), b, a + Ow(l), o + Ow(l), u)
<1>1. /\ Ow(l) \in Nat /\ Oh(l) \in Nat /\ l.w \in Nat /\ a \in Nat /\ r * Ow(l) \in Nat
      /\ c * (Oh(l) * Ow(l)) \in Nat /\ o \in Nat
  <2>1. Ow(l) \in Nat /\ Oh(l) \in Nat /\ l.w \in Nat
    BY PlaneSizes
  <2>2. Oh(l) * Ow(l) \in Nat /\ r * Ow(l) \in Nat /\ r * l.w \in Nat
    BY <2>1, Times
  <2>3. c * (Oh(l) * Ow(l)) \in Nat
    BY <2>2, Times
  <2> QED BY <2>1, <2>2, <2>3
<1> DEFINE S == {q \in 0 .. Ow(l) : \E u : ConvPix(P[1], s, from, to, ws, f, P[13], a + q, b, a + Ow(l), o + q, u)}
<1>2. 0 \in S
  <2>1. 0 \in 0 .. Ow(l) /\ a + 0 = a /\ o + 0 = o
    BY <1>1
  <2> QED BY <2>1
<1>3. ASSUME NEW q \in 0 .. Ow(l) - 1, q \in S PROVE q + 1 \in S
  <2>1. PICK u : ConvPix(P[1], s, from, to, ws, f, P[13], a + q, b, a + Ow(l), o + q, u)
    BY <1>3
  <2>2. Pixel(l, c, r, q, o + q)
    <3>1. q \in Nat /\ q < Ow(l)
      BY <1>1
    <3>2. o + q = c * (Oh(l) * Ow(l)) + (r * Ow(l) + q)
      BY <1>1, <3>1
    <3> QED BY <3>1, <3>2 DEF Pixel
  <2>3. \E v : ConvPix(P[1], s, from, to, ws, f, P[13], (a + q) + 1, b, a + Ow(l), (o + q) + 1, v)
    <3> DEFINE a1 == a + q
               e1 == a + Ow(l)
               o1 == o + q
    <3>1. a1 = r * l.w + q /\ e1 = r * l.w + Ow(l)
      OBVIOUS
    <3>2. ConvPix(P[1], s, from, to, ws, f, P[13], a1, b, e1, o1, u) /\ Pixel(l, c, r, q, o1)
      BY <2>1, <2>2
    <3> HIDE DEF a1, e1, o1, S
    <3>3. \E v : ConvPix(P[1], s, from, to, ws, f, P[13], a1 + 1, b, e1, o1 + 1, v)
      BY <3>1, <3>2, ConvPixel
    <3> QED BY <3>3 DEF a1, e1, o1
  <2>4. q + 1 \in 0 .. Ow(l) /\ (a + q) + 1 = a + (q + 1) /\ (o + q) + 1 = o + (q + 1)
    BY <1>1
  <2> HIDE DEF S
  <2>5. \E v : ConvPix(P[1], s, from, to, ws, f, P[13], a + (q + 1), b, a + Ow(l), o + (q + 1), v)
    BY <2>3, <2>4, Zenon
  <2> QED BY <2>4, <2>5 DEF S
<1> HIDE DEF S
<1>4. Ow(l) \in S
  <2>1. Ow(l) \in 0 .. Ow(l)
    BY <1>1
  <2>2. \A q \in 0 .. Ow(l) : q \in S
    BY <1>1, <1>2, <1>3, Climb
  <2> QED BY <2>1, <2>2
<1> QED BY <1>4 DEF S

\* At the row at offset a, before output o.
ConvRow(m0, s, from, to, ws, f, m, a, b, o, d) ==
  /\ Has(m0, s, m, d, to, f, o) /\ d.acc = 0
  /\ d.regs[0] = ws + b /\ d.regs[1] = from + a /\ d.regs[3] = to + o

\* A row.
LEMMA ConvRowGoes ==
  ASSUME Sizes, InPlace, NEW n, NEW l, IsPlane(l), l.kind = "Conv", l.w - l.k + 1 <= 63, SumFits(l),
         NEW from, NEW to, NEW ws, NEW s, NEW in, Ready(s, l, in, from, to, ws), NEW f, f = EvalLayer(l, in),
         NEW P, ConvAt(n, l, from, to, ws, P), NEW c \in Nat, c < l.c, NEW r \in Nat, r < Oh(l),
         NEW b, b = c * (l.k * l.k), NEW a, a = r * l.w, NEW o, o = c * (Oh(l) * Ow(l)) + r * Ow(l),
         NEW d, ConvRow(P[1], s, from, to, ws, f, P[8], a, b, o, d)
  PROVE  \E u : ConvRow(P[1], s, from, to, ws, f, P[8], a + l.w, b, o + Ow(l), u)
<1>0. /\ 0 \in Regs /\ 1 \in Regs /\ 3 \in Regs /\ 5 \in Regs /\ 7 \in Regs /\ 1 \in Regs \ {5}
  BY DEF Regs
<1> DEFINE top == from + (l.h - l.k + 1) * l.w
<1>1. /\ Ow(l) \in Nat /\ Ow(l) >= 1 /\ Ow(l) = l.w - l.k + 1 /\ l.k \in Nat /\ l.w \in Nat /\ l.k >= 1 /\ l.k <= l.w
      /\ a \in Nat /\ a + l.w <= InLen(l) /\ o \in Nat /\ b \in Nat
      /\ top \in Words /\ from + a < top
  <2>1. /\ Ow(l) \in Nat /\ Oh(l) \in Nat /\ Ow(l) >= 1 /\ Ow(l) = l.w - l.k + 1 /\ Oh(l) = l.h - l.k + 1
        /\ l.k \in Nat /\ l.w \in Nat /\ l.h \in Nat /\ l.k >= 1 /\ l.k <= l.w /\ l.k <= l.h
    BY PlaneSizes
  <2>2. Oh(l) * Ow(l) \in Nat /\ r * Ow(l) \in Nat /\ l.k * l.k \in Nat
    BY <2>1, Times
  <2>3. c * (Oh(l) * Ow(l)) \in Nat /\ c * (l.k * l.k) \in Nat
    BY <2>2, Times
  <2>4. r * l.w \in Nat /\ r * l.w + l.w <= Oh(l) * l.w /\ Oh(l) * l.w <= l.h * l.w /\ Oh(l) * l.w \in Nat
        /\ l.h * l.w \in Nat
    <3>1. Oh(l) <= l.h
      BY <2>1
    <3>2. r * l.w \in Nat /\ r * l.w + l.w <= Oh(l) * l.w /\ Oh(l) * l.w \in Nat
      BY <2>1, Rows
    <3>3. Oh(l) * l.w <= l.h * l.w /\ l.h * l.w \in Nat
      BY <2>1, <3>1, Times
    <3> QED BY <3>2, <3>3
  <2>5. InLen(l) = l.h * l.w /\ from + InLen(l) <= AddrSize /\ from \in Nat /\ AddrSize \in Nat /\ AddrSize < U16
        /\ U16 \in Nat
    BY ConvSizes
  <2>6. top = from + Oh(l) * l.w
    BY <2>1
  <2> DEFINE x1 == Oh(l) * l.w
             y1 == l.h * l.w
             z1 == r * l.w
  <2>7. /\ top = from + x1 /\ x1 <= y1 /\ x1 \in Nat /\ y1 \in Nat /\ z1 \in Nat /\ z1 + l.w <= x1 /\ a = z1
        /\ InLen(l) = y1
    BY <2>4, <2>5, <2>6
  <2> HIDE DEF top, x1, y1, z1
  <2>8. top \in Words /\ from + a < top /\ a + l.w <= InLen(l) /\ a \in Nat
    BY <2>1, <2>5, <2>7 DEF Words
  <2>9. o \in Nat /\ b \in Nat
    BY <2>2, <2>3
  <2> QED BY <2>1, <2>8, <2>9
<1>2. /\ from \in Nat /\ to \in Nat /\ ws \in Nat /\ AddrSize \in Nat /\ U16 \in Nat /\ AddrSize < U16
      /\ from + InLen(l) <= AddrSize /\ InLen(l) \in Nat
  BY ConvSizes
<1>3. /\ Code(P[9], Lit(5, top), P[10]) /\ Code(P[10], Cmp(1, 5), P[11])
      /\ Code(P[11], Goto("BRzp", <<"chan_next", n>>), P[12]) /\ Code(P[12], Ahead(7, 1, Ow(l)), P[13])
      /\ Code(P[13], While(<<"pix", n>>, 1, 7, <<"row_next", n>>), P[14])
      /\ Code(P[21], Bump(1, l.k - 1, 5), P[22]) /\ Code(P[22], Goto("BR", <<"row", n>>), P[23])
  BY <1>1 DEF ConvAt
<1> HIDE DEF top
<1>4. /\ Labelled(<<"row", n>>, P[8]) /\ Labelled(<<"row_next", n>>, P[20]) /\ Labelled(<<"chan_next", n>>, P[23])
      /\ \A v : Goes(P[8], v, P[9], v) /\ Goes(P[20], v, P[21], v)
  BY ConvLabels
<1>5. /\ Has(P[1], s, P[8], d, to, f, o) /\ d.acc = 0
      /\ d.regs[0] = ws + b /\ d.regs[1] = from + a /\ d.regs[3] = to + o
  BY DEF ConvRow
<1>6. Has(P[1], s, P[9], d, to, f, o)
  BY <1>4, <1>5, HasGoes
<1>7. PICK d1 : Passes(P[9], d, P[12], d1, {5}) /\ d1.voted = TRUE
  <2>1. Tests(P[9], d, P[12], {5})
    <3>1. ~(d.regs[1] >= top)
      <4>1. top \in Nat
        BY <1>1 DEF Words
      <4> QED BY <1>1, <1>2, <1>5, <4>1
    <3>2. Ok(d)
      BY <1>5 DEF Has
    <3>3. top \in Words
      BY <1>1
    <3>4. (d.regs[1] >= top => Tests(P[9], d, P[23], {5})) /\ (~(d.regs[1] >= top) => Tests(P[9], d, P[12], {5}))
      <4>1. 1 # 5
        OBVIOUS
      <4>2. Limits(P[9], d, 1, top, P[23], P[12])
        BY <1>0, <1>3, <1>4, <3>2, <3>3, <4>1, LimitGoes, Zenon
      <4> QED BY <4>2 DEF Limits
    <3> QED BY <3>1, <3>4
  <2> QED BY <2>1 DEF Tests
<1>8. /\ Has(P[1], s, P[12], d1, to, f, o) /\ d1.acc = 0
      /\ d1.regs[0] = ws + b /\ d1.regs[1] = from + a /\ d1.regs[3] = to + o
  <2>1. Has(P[1], s, P[12], d1, to, f, o) /\ Keeps(d, d1, {5})
    BY <1>6, <1>7, HasMoves
  <2> QED BY <1>0, <1>5, <2>1 DEF Keeps
<1>9. PICK d2 : Passes(P[12], d1, P[13], d2, {7}) /\ d2.regs[7] = from + a + Ow(l)
  <2>1. d1.regs[1] + Ow(l) \in Words /\ Ow(l) \in Words
    BY <1>1, <1>2, <1>8 DEF Words
  <2>2. Gives(P[12], d1, P[13], {7}, 7, d1.regs[1] + Ow(l))
    <3>1. Code(P[12], Ahead(7, 1, Ow(l)), P[13]) /\ Ok(d1)
      BY <1>3, <1>8 DEF Has
    <3>2. 7 # 1
      OBVIOUS
    <3> QED BY <1>0, <2>1, <3>1, <3>2, AheadGoes, Zenon
  <2> QED BY <1>8, <2>2 DEF Gives
<1>10. ConvPix(P[1], s, from, to, ws, f, P[13], a, b, a + Ow(l), o, d2)
  <2>1. Has(P[1], s, P[13], d2, to, f, o) /\ Keeps(d1, d2, {7})
    BY <1>8, <1>9, HasMoves
  <2>2. from + a + Ow(l) = from + (a + Ow(l))
    BY <1>1, <1>2
  <2> QED BY <1>0, <1>8, <1>9, <2>1, <2>2 DEF Keeps, ConvPix
<1>11. PICK d3 : ConvPix(P[1], s, from, to, ws, f, P[13], a + Ow(l), b, a + Ow(l), o + Ow(l), d3)
  BY <1>10, ConvPixels
<1>12. /\ Has(P[1], s, P[13], d3, to, f, o + Ow(l)) /\ d3.acc = 0
       /\ d3.regs[0] = ws + b /\ d3.regs[1] = from + (a + Ow(l)) /\ d3.regs[3] = to + (o + Ow(l))
       /\ d3.regs[7] = from + (a + Ow(l))
  BY <1>11 DEF ConvPix
<1> DEFINE d4 == Vote(d3)
<1>13. Passes(P[13], d3, P[20], d4, {}) /\ d4.voted = TRUE
  <2>1. d3.regs[1] >= d3.regs[7]
    BY <1>1, <1>2, <1>12
  <2>2. Leaves(P[13], 1, 7, <<"row_next", n>>, P[14])
    <3>1. <<"pix", n>> # NoLabel
      BY DEF NoLabel
    <3> QED BY <1>0, <1>3, <3>1, WhileGoes
  <2> QED BY <1>4, <1>12, <2>1, <2>2 DEF Leaves, Has
<1> HIDE DEF d4
<1>14. /\ Has(P[1], s, P[21], d4, to, f, o + Ow(l)) /\ d4.acc = 0
       /\ d4.regs[0] = ws + b /\ d4.regs[1] = from + (a + Ow(l)) /\ d4.regs[3] = to + (o + Ow(l))
  <2>1. Has(P[1], s, P[20], d4, to, f, o + Ow(l)) /\ Keeps(d3, d4, {})
    BY <1>12, <1>13, HasMoves
  <2>2. Has(P[1], s, P[21], d4, to, f, o + Ow(l))
    BY <1>4, <2>1, HasGoes
  <2> QED BY <1>0, <1>12, <2>1, <2>2 DEF Keeps
<1>15. PICK u : Passes(P[21], d4, P[22], u, {1, 5}) /\ u.regs[1] = from + (a + Ow(l)) + (l.k - 1)
  <2>1. d4.regs[1] + (l.k - 1) \in Words /\ l.k - 1 \in Words
    BY <1>1, <1>2, <1>14 DEF Words
  <2>2. Gives(P[21], d4, P[22], {1, 5}, 1, d4.regs[1] + (l.k - 1))
    BY <1>0, <1>3, <1>14, <2>1, BumpGoes DEF Has
  <2> QED BY <1>14, <2>2 DEF Gives
<1>16. /\ Has(P[1], s, P[22], u, to, f, o + Ow(l)) /\ u.acc = 0 /\ u.voted = TRUE
       /\ u.regs[0] = ws + b /\ u.regs[3] = to + (o + Ow(l))
  <2>1. Has(P[1], s, P[22], u, to, f, o + Ow(l)) /\ Keeps(d4, u, {1, 5})
    BY <1>14, <1>15, HasMoves
  <2> QED BY <1>0, <1>13, <1>14, <2>1 DEF Keeps
<1>17. Has(P[1], s, P[8], u, to, f, o + Ow(l))
  <2>1. Goes(P[22], u, P[8], u)
    BY <1>3, <1>4, <1>16, BrGoes
  <2> QED BY <1>16, <2>1, HasGoes
<1>18. from + (a + Ow(l)) + (l.k - 1) = from + (a + l.w)
  <2>1. from \in Nat /\ a \in Nat /\ l.k \in Nat /\ l.w \in Nat /\ Ow(l) = l.w - l.k + 1
    BY <1>1, <1>2
  <2> QED BY <2>1, SMT
<1>19. ConvRow(P[1], s, from, to, ws, f, P[8], a + l.w, b, o + Ow(l), u)
  BY <1>15, <1>16, <1>17, <1>18 DEF ConvRow
<1> QED BY <1>19

\* All the rows of a channel.
LEMMA ConvRows ==
  ASSUME Sizes, InPlace, NEW n, NEW l, IsPlane(l), l.kind = "Conv", l.w - l.k + 1 <= 63, SumFits(l),
         NEW from, NEW to, NEW ws, NEW s, NEW in, Ready(s, l, in, from, to, ws), NEW f, f = EvalLayer(l, in),
         NEW P, ConvAt(n, l, from, to, ws, P), NEW c \in Nat, c < l.c,
         NEW b, b = c * (l.k * l.k), NEW o, o = c * (Oh(l) * Ow(l)),
         NEW d, ConvRow(P[1], s, from, to, ws, f, P[8], 0, b, o, d)
  PROVE  \E u : ConvRow(P[1], s, from, to, ws, f, P[8], Oh(l) * l.w, b, o + Oh(l) * Ow(l), u)
<1>1. Oh(l) \in Nat /\ Ow(l) \in Nat /\ l.w \in Nat /\ o \in Nat
  <2>1. Oh(l) \in Nat /\ Ow(l) \in Nat /\ l.w \in Nat
    BY PlaneSizes
  <2>2. Oh(l) * Ow(l) \in Nat
    BY <2>1, Times
  <2> QED BY <2>1, <2>2, Times
<1> DEFINE S == {r \in 0 .. Oh(l) : \E u : ConvRow(P[1], s, from, to, ws, f, P[8], r * l.w, b, o + r * Ow(l), u)}
<1>2. 0 \in S
  <2>1. 0 \in 0 .. Oh(l) /\ 0 * l.w = 0 /\ o + 0 * Ow(l) = o
    BY <1>1
  <2>2. ConvRow(P[1], s, from, to, ws, f, P[8], 0 * l.w, b, o + 0 * Ow(l), d)
    BY <2>1, Zenon
  <2> QED BY <2>1, <2>2
<1>3. ASSUME NEW r \in 0 .. Oh(l) - 1, r \in S PROVE r + 1 \in S
  <2>1. PICK u : ConvRow(P[1], s, from, to, ws, f, P[8], r * l.w, b, o + r * Ow(l), u)
    BY <1>3
  <2>2. r \in Nat /\ r < Oh(l) /\ r + 1 \in 0 .. Oh(l)
    BY <1>1
  <2> DEFINE a1 == r * l.w
             o1 == o + r * Ow(l)
  <2>3. (r + 1) * l.w = a1 + l.w /\ o + (r + 1) * Ow(l) = o1 + Ow(l)
    <3>1. (r + 1) * l.w = r * l.w + l.w /\ (r + 1) * Ow(l) = r * Ow(l) + Ow(l) /\ r * Ow(l) \in Nat
      BY <1>1, <2>2, Times
    <3> QED BY <1>1, <3>1
  <2>4. a1 = r * l.w /\ o1 = c * (Oh(l) * Ow(l)) + r * Ow(l) /\ ConvRow(P[1], s, from, to, ws, f, P[8], a1, b, o1, u)
    BY <2>1, Zenon
  <2> HIDE DEF a1, o1, S
  <2>5. \E v : ConvRow(P[1], s, from, to, ws, f, P[8], a1 + l.w, b, o1 + Ow(l), v)
    BY <2>2, <2>4, ConvRowGoes
  <2>6. \E v : ConvRow(P[1], s, from, to, ws, f, P[8], (r + 1) * l.w, b, o + (r + 1) * Ow(l), v)
    BY <2>3, <2>5, Zenon
  <2> QED BY <2>2, <2>6 DEF S
<1> HIDE DEF S
<1>4. Oh(l) \in S
  <2>1. Oh(l) \in 0 .. Oh(l)
    BY <1>1
  <2>2. \A r \in 0 .. Oh(l) : r \in S
    BY <1>1, <1>2, <1>3, Climb
  <2> QED BY <2>1, <2>2
<1> QED BY <1>4 DEF S

\* At the channel with weights at offset b, before output o.
ConvTop(m0, s, to, ws, f, m, b, o, d) ==
  Has(m0, s, m, d, to, f, o) /\ d.acc = 0 /\ d.regs[0] = ws + b /\ d.regs[3] = to + o

\* A channel.
LEMMA ConvChan ==
  ASSUME Sizes, InPlace, NEW n, NEW l, IsPlane(l), l.kind = "Conv", l.w - l.k + 1 <= 63, SumFits(l),
         NEW from, NEW to, NEW ws, NEW s, NEW in, Ready(s, l, in, from, to, ws), NEW f, f = EvalLayer(l, in),
         NEW P, ConvAt(n, l, from, to, ws, P), NEW c \in Nat, c < l.c,
         NEW b, b = c * (l.k * l.k), NEW o, o = c * (Oh(l) * Ow(l)),
         NEW d, ConvTop(P[1], s, to, ws, f, P[3], b, o, d)
  PROVE  \E u : ConvTop(P[1], s, to, ws, f, P[3], b + l.k * l.k, o + Oh(l) * Ow(l), u)
<1>0. 0 \in Regs /\ 1 \in Regs /\ 3 \in Regs /\ 5 \in Regs /\ 1 # 5 /\ 3 # 5 /\ 0 # 5
  BY DEF Regs
<1> DEFINE op == Oh(l) * Ow(l)
           kk == l.k * l.k
           all == to + OutLen(l)
           top == from + (l.h - l.k + 1) * l.w
           end == Oh(l) * l.w
<1>1. /\ op \in Nat /\ kk \in Nat /\ o \in Nat /\ b \in Nat /\ op >= 1
      /\ o + op <= OutLen(l) /\ b + kk <= Weights(l)
  <2>1. /\ Ow(l) \in Nat /\ Oh(l) \in Nat /\ Ow(l) >= 1 /\ Oh(l) >= 1 /\ l.k \in Nat /\ l.c \in Nat
        /\ OutLen(l) = l.c * op
    BY PlaneSizes
  <2>2. op \in Nat /\ kk \in Nat /\ 1 * Ow(l) <= op
    BY <2>1, Times
  <2>3. Weights(l) = l.c * kk
    BY ConvSizes
  <2> HIDE DEF op, kk
  <2>4. c * op \in Nat /\ c * op + op <= l.c * op /\ c * kk \in Nat /\ c * kk + kk <= l.c * kk
    BY <2>1, <2>2, Rows
  <2>5. o = c * op /\ b = c * kk
    BY Zenon DEF op, kk
  <2>6. op >= 1
    BY <2>1, <2>2
  <2>7. o \in Nat /\ b \in Nat /\ o + op <= OutLen(l) /\ b + kk <= Weights(l)
    BY <2>1, <2>3, <2>4, <2>5, Zenon
  <2> QED BY <2>2, <2>6, <2>7
<1>2. /\ InLen(l) = l.h * l.w /\ InLen(l) \in Nat /\ OutLen(l) \in Nat /\ Weights(l) \in Nat
      /\ from \in Nat /\ ws \in Nat /\ to \in Nat /\ AddrSize \in Nat /\ U16 \in Nat /\ AddrSize < U16
      /\ from + InLen(l) <= AddrSize /\ to + OutLen(l) <= AddrSize /\ ws + Weights(l) <= AddrSize
  BY ConvSizes
<1>3. top = from + end /\ end \in Nat /\ end <= InLen(l)
  <2>1. Oh(l) = l.h - l.k + 1 /\ l.h \in Nat /\ l.w \in Nat /\ Oh(l) \in Nat /\ Oh(l) <= l.h
    BY PlaneSizes
  <2>2. end \in Nat /\ end <= l.h * l.w
    BY <2>1, Times
  <2> QED BY <1>2, <2>1, <2>2
<1>4. /\ Code(P[4], Lit(5, all), P[5]) /\ Code(P[5], Cmp(3, 5), P[6]) /\ Code(P[6], Goto("BRzp", <<"end", n>>), P[7])
      /\ Code(P[7], Lit(1, from), P[8])
      /\ Code(P[9], Lit(5, top), P[10]) /\ Code(P[10], Cmp(1, 5), P[11])
      /\ Code(P[11], Goto("BRzp", <<"chan_next", n>>), P[12])
      /\ Code(P[24], Bump(0, kk, 5), P[25]) /\ Code(P[25], Goto("BR", <<"chan", n>>), P[26])
  BY DEF ConvAt
<1>5. /\ Labelled(<<"chan", n>>, P[3]) /\ Labelled(<<"chan_next", n>>, P[23]) /\ Labelled(<<"end", n>>, P[26])
      /\ \A v : Goes(P[3], v, P[4], v) /\ Goes(P[8], v, P[9], v) /\ Goes(P[23], v, P[24], v)
  BY ConvLabels
<1>6. Has(P[1], s, P[3], d, to, f, o) /\ d.acc = 0 /\ d.regs[0] = ws + b /\ d.regs[3] = to + o
  BY DEF ConvTop
<1>7. ASSUME NEW u, NEW r, ConvRow(P[1], s, from, to, ws, f, P[8], end, b, o + op, u)
      PROVE  \E v : ConvTop(P[1], s, to, ws, f, P[3], b + kk, o + op, v)
  <2> DEFINE o1 == o + op
  <2>1. o1 \in Nat
    BY <1>1
  <2> HIDE DEF top, end, kk, op
  <2>2. /\ Has(P[1], s, P[8], u, to, f, o1) /\ u.acc = 0
        /\ u.regs[0] = ws + b /\ u.regs[1] = from + end /\ u.regs[3] = to + o1
    BY <1>7 DEF ConvRow
  <2> HIDE DEF o1
  <2>3. Has(P[1], s, P[9], u, to, f, o1)
    BY <1>5, <2>2, HasGoes
  <2>4. PICK d1 : Passes(P[9], u, P[23], d1, {5}) /\ d1.voted = TRUE
    <3>1. top \in Words /\ u.regs[1] >= top
      BY <1>2, <1>3, <2>2 DEF Words
    <3>2. Ok(u)
      BY <2>2 DEF Has
    <3>3. Limits(P[9], u, 1, top, P[23], P[12])
      BY <1>0, <1>4, <1>5, <3>1, <3>2, LimitGoes, Zenon
    <3> QED BY <3>1, <3>3 DEF Limits, Tests
  <2>5. /\ Has(P[1], s, P[24], d1, to, f, o1) /\ d1.acc = 0 /\ d1.regs[0] = ws + b /\ d1.regs[3] = to + o1
    <3>1. Has(P[1], s, P[23], d1, to, f, o1) /\ Keeps(u, d1, {5})
      BY <2>3, <2>4, HasMoves
    <3>2. Has(P[1], s, P[24], d1, to, f, o1)
      BY <1>5, <3>1, HasGoes
    <3> QED BY <1>0, <2>2, <3>1, <3>2 DEF Keeps
  <2>6. PICK v : Passes(P[24], d1, P[25], v, {0, 5}) /\ v.regs[0] = ws + b + kk
    <3>1. kk \in Words /\ d1.regs[0] + kk \in Words
      BY <1>1, <1>2, <2>5 DEF Words
    <3>2. Ok(d1)
      BY <2>5 DEF Has
    <3>3. Gives(P[24], d1, P[25], {0, 5}, 0, d1.regs[0] + kk)
      BY <1>0, <1>4, <3>1, <3>2, BumpGoes
    <3> QED BY <2>5, <3>3 DEF Gives
  <2>7. Has(P[1], s, P[25], v, to, f, o1) /\ v.acc = 0 /\ v.regs[3] = to + o1 /\ v.voted = TRUE
    <3>1. Has(P[1], s, P[25], v, to, f, o1) /\ Keeps(d1, v, {0, 5})
      BY <2>5, <2>6, HasMoves
    <3> QED BY <1>0, <2>4, <2>5, <3>1 DEF Keeps
  <2>8. Has(P[1], s, P[3], v, to, f, o1)
    <3>1. Goes(P[25], v, P[3], v)
      BY <1>4, <1>5, <2>7, BrGoes
    <3> QED BY <2>7, <3>1, HasGoes
  <2>9. ws + b + kk = ws + (b + kk)
    BY <1>1, <1>2
  <2>10. ConvTop(P[1], s, to, ws, f, P[3], b + kk, o1, v)
    BY <2>6, <2>7, <2>8, <2>9 DEF ConvTop
  <2> QED BY <2>10 DEF o1
<1> HIDE DEF top
<1>8. Has(P[1], s, P[4], d, to, f, o)
  BY <1>5, <1>6, HasGoes
<1>9. PICK d1 : Passes(P[4], d, P[7], d1, {5})
  <2> HIDE DEF op
  <2>1. all \in Words /\ ~(d.regs[3] >= all)
    BY <1>1, <1>2, <1>6 DEF Words
  <2> HIDE DEF all
  <2>2. Ok(d)
    BY <1>8 DEF Has
  <2>3. Limits(P[4], d, 3, all, P[26], P[7])
    BY <1>0, <1>4, <1>5, <2>1, <2>2, LimitGoes, Zenon
  <2> QED BY <2>1, <2>3 DEF Limits, Tests
<1>10. Has(P[1], s, P[7], d1, to, f, o) /\ d1.acc = 0 /\ d1.regs[0] = ws + b /\ d1.regs[3] = to + o
  <2>1. Has(P[1], s, P[7], d1, to, f, o) /\ Keeps(d, d1, {5})
    BY <1>8, <1>9, HasMoves
  <2> QED BY <1>0, <1>6, <2>1 DEF Keeps
<1>11. PICK d2 : Passes(P[7], d1, P[8], d2, {1}) /\ d2.regs[1] = from
  <2>1. from \in Words
    BY <1>2 DEF Words
  <2>2. Gives(P[7], d1, P[8], {1}, 1, from)
    BY <1>0, <1>4, <1>10, <2>1, LitGoes DEF Has
  <2> QED BY <2>2 DEF Gives
<1>12. ConvRow(P[1], s, from, to, ws, f, P[8], 0, b, o, d2)
  <2>1. Has(P[1], s, P[8], d2, to, f, o) /\ Keeps(d1, d2, {1})
    BY <1>10, <1>11, HasMoves
  <2>2. from + 0 = from
    BY <1>2
  <2> QED BY <1>0, <1>10, <1>11, <2>1, <2>2 DEF Keeps, ConvRow
<1>13. PICK u : ConvRow(P[1], s, from, to, ws, f, P[8], end, b, o + op, u)
  BY <1>12, ConvRows
<1> QED BY <1>7, <1>13

\* The kernel of a convolution, in place, computes what eval says of its layer.
LEMMA ConvComputes ==
  ASSUME Sizes, InPlace, NEW n, NEW l, IsPlane(l), l.kind = "Conv", l.w - l.k + 1 <= 63, SumFits(l),
         NEW from, NEW to, NEW ws, NEW m, NEW k, Code(m, GenConv(n, l, from, to, ws), k)
  PROVE  Computes(m, k, l, from, to, ws)
<1> SUFFICES ASSUME NEW s, NEW in, Ready(s, l, in, from, to, ws), Ok(s), s.acc = 0
             PROVE  \E d : Goes(m, s, k, d) /\ Ok(d) /\ d.acc = 0 /\ Filled(s, d, to, EvalLayer(l, in), OutLen(l))
  BY DEF Computes
<1>0. 0 \in Regs /\ 3 \in Regs /\ 5 \in Regs /\ 3 # 5
  BY DEF Regs
<1>1. PICK P : ConvAt(n, l, from, to, ws, P) /\ P[1] = m /\ P[27] = k
  BY ConvCode
<1> DEFINE f == EvalLayer(l, in)
           op == Oh(l) * Ow(l)
           kk == l.k * l.k
           all == to + OutLen(l)
<1>2. f = EvalLayer(l, in)
  OBVIOUS
<1> HIDE DEF f
<1>3. /\ OutLen(l) \in Nat /\ from \in Nat /\ ws \in Nat /\ to \in Nat /\ AddrSize \in Nat /\ U16 \in Nat
      /\ AddrSize < U16 /\ to + OutLen(l) <= AddrSize /\ ws + Weights(l) <= AddrSize /\ Weights(l) \in Nat
      /\ OutLen(l) = l.c * op /\ l.c \in Nat /\ op \in Nat /\ kk \in Nat
  <2>1. l.c \in Nat /\ Oh(l) \in Nat /\ Ow(l) \in Nat /\ l.k \in Nat
    BY PlaneSizes
  <2> QED BY <2>1, ConvSizes, Times
<1>4. /\ Code(P[1], Lit(0, ws), P[2]) /\ Code(P[2], Lit(3, to), P[3])
      /\ Code(P[4], Lit(5, all), P[5]) /\ Code(P[5], Cmp(3, 5), P[6]) /\ Code(P[6], Goto("BRzp", <<"end", n>>), P[7])
  BY <1>1 DEF ConvAt
<1>5. /\ Labelled(<<"end", n>>, P[26]) /\ \A v : Goes(P[3], v, P[4], v) /\ Goes(P[26], v, P[27], v)
  BY <1>1, ConvLabels
<1>6. Has(P[1], s, P[1], s, to, f, 0)
  BY <1>3, GoesSelf, FilledNone DEF Has
<1>7. PICK d1 : Passes(P[1], s, P[2], d1, {0}) /\ d1.regs[0] = ws
  <2>1. ws \in Words
    BY <1>3 DEF Words
  <2>2. Gives(P[1], s, P[2], {0}, 0, ws)
    BY <1>0, <1>4, <2>1, LitGoes
  <2> QED BY <2>2 DEF Gives
<1>8. Has(P[1], s, P[2], d1, to, f, 0) /\ Keeps(s, d1, {0})
  BY <1>6, <1>7, HasMoves
<1>9. PICK d2 : Passes(P[2], d1, P[3], d2, {3}) /\ d2.regs[3] = to
  <2>1. to \in Words
    BY <1>3 DEF Words
  <2>2. Gives(P[2], d1, P[3], {3}, 3, to)
    BY <1>0, <1>4, <1>8, <2>1, LitGoes DEF Has
  <2> QED BY <2>2 DEF Gives
<1> HIDE DEF op, kk
<1> DEFINE S == {c \in 0 .. l.c : \E d : ConvTop(P[1], s, to, ws, f, P[3], c * kk, c * op, d)}
<1>10. 0 \in S
  <2>1. Has(P[1], s, P[3], d2, to, f, 0) /\ Keeps(d1, d2, {3})
    BY <1>8, <1>9, HasMoves
  <2>2. 0 * kk = 0 /\ 0 * op = 0 /\ to + 0 = to /\ ws + 0 = ws /\ 0 \in 0 .. l.c
    BY <1>3
  <2>3. d2.acc = 0 /\ d2.regs[0] = ws + 0 /\ d2.regs[3] = to + 0
    BY <1>0, <1>7, <1>8, <1>9, <2>1, <2>2 DEF Keeps
  <2>4. ConvTop(P[1], s, to, ws, f, P[3], 0 * kk, 0 * op, d2)
    BY <2>1, <2>2, <2>3, Zenon DEF ConvTop
  <2> QED BY <2>2, <2>4
<1>11. ASSUME NEW c \in 0 .. l.c - 1, c \in S PROVE c + 1 \in S
  <2>1. PICK d : ConvTop(P[1], s, to, ws, f, P[3], c * kk, c * op, d)
    BY <1>11
  <2>2. c \in Nat /\ c < l.c /\ c + 1 \in 0 .. l.c
    BY <1>3
  <2>3. (c + 1) * kk = c * kk + kk /\ (c + 1) * op = c * op + op
    BY <1>3, <2>2, Times
  <2> HIDE DEF S
  <2>4. \E v : ConvTop(P[1], s, to, ws, f, P[3], c * kk + kk, c * op + op, v)
    <3> DEFINE b1 == c * kk
               o1 == c * op
    <3>1. b1 = c * (l.k * l.k) /\ o1 = c * (Oh(l) * Ow(l)) /\ ConvTop(P[1], s, to, ws, f, P[3], b1, o1, d)
      BY <2>1, Zenon DEF kk, op
    <3> HIDE DEF b1, o1
    <3>2. \E v : ConvTop(P[1], s, to, ws, f, P[3], b1 + l.k * l.k, o1 + Oh(l) * Ow(l), v)
      BY <1>1, <1>2, <2>2, <3>1, ConvChan
    <3> QED BY <3>2, Zenon DEF b1, o1, kk, op
  <2>5. \E v : ConvTop(P[1], s, to, ws, f, P[3], (c + 1) * kk, (c + 1) * op, v)
    BY <2>3, <2>4, Zenon
  <2> QED BY <2>2, <2>5 DEF S
<1> HIDE DEF S
<1>12. l.c \in S
  <2>1. l.c \in 0 .. l.c
    BY <1>3
  <2>2. \A c \in 0 .. l.c : c \in S
    BY <1>3, <1>10, <1>11, Climb
  <2> QED BY <2>1, <2>2
<1>13. PICK d : Has(P[1], s, P[3], d, to, f, OutLen(l)) /\ d.acc = 0 /\ d.regs[3] = to + OutLen(l)
  BY <1>3, <1>12 DEF S, ConvTop
<1>14. Has(P[1], s, P[4], d, to, f, OutLen(l))
  BY <1>5, <1>13, HasGoes
<1>15. PICK e : Passes(P[4], d, P[26], e, {5})
  <2>1. all \in Words /\ d.regs[3] >= all
    BY <1>3, <1>13 DEF Words
  <2> HIDE DEF all
  <2>2. Ok(d)
    BY <1>13 DEF Has
  <2>3. Limits(P[4], d, 3, all, P[26], P[7])
    BY <1>0, <1>4, <1>5, <2>1, <2>2, LimitGoes, Zenon
  <2> QED BY <2>1, <2>3 DEF Limits, Tests
<1>16. Has(P[1], s, P[27], e, to, f, OutLen(l)) /\ e.acc = 0
  <2>1. Has(P[1], s, P[26], e, to, f, OutLen(l)) /\ Keeps(d, e, {5})
    BY <1>14, <1>15, HasMoves
  <2>2. Has(P[1], s, P[27], e, to, f, OutLen(l))
    BY <1>5, <2>1, HasGoes
  <2> QED BY <1>13, <2>1, <2>2 DEF Keeps
<1> QED BY <1>1, <1>16 DEF Has, f

-----------------------------------------------------------------------------
(* The kernel of a pool.                                                    *)
PoolTap(l) ==
  [t \in 0 .. l.k * l.k - 2 |-> Addi(2, 2, Stride(t, l)) \o Ldr(5, 2) \o <<Ins("MAX", <<R(4), R(4), R(5)>>)>>]

\* Its taps consist of lines.
LEMMA PoolTapKnown == ASSUME NEW l PROVE \A t \in 0 .. l.k * l.k - 2 : KnownCode(PoolTap(l)[t])
<1> SUFFICES ASSUME NEW t \in 0 .. l.k * l.k - 2 PROVE KnownCode(PoolTap(l)[t])
  OBVIOUS
<1> DEFINE a == Addi(2, 2, Stride(t, l))
           b == Ldr(5, 2)
           e == <<Ins("MAX", <<R(4), R(4), R(5)>>)>>
<1>1. KnownCode(a) /\ KnownCode(b) /\ KnownCode(e)
  BY Pieces, InsKnown, Written
<1>2. PoolTap(l)[t] = a \o b \o e
  BY DEF PoolTap
<1> HIDE DEF a, b, e
<1>3. KnownCode(a \o b \o e)
  BY <1>1, KnownCat
<1> QED BY <1>2, <1>3

\* The pieces of the kernel of a pool.
PoolAt(n, l, from, to, P) ==
  /\ Code(P[1], Lit(1, from), P[2])
  /\ Code(P[2], Lit(3, to), P[3])
  /\ Code(P[3], Lit(0, to), P[4])
  /\ Code(P[4], Here(<<"chan", n>>), P[5])
  /\ Code(P[5], Lit(5, to + OutLen(l)), P[6])
  /\ Code(P[6], Cmp(3, 5), P[7])
  /\ Code(P[7], Goto("BRzp", <<"end", n>>), P[8])
  /\ Code(P[8], Bump(0, (l.h \div l.k) * (l.w \div l.k), 6), P[9])
  /\ Code(P[9], While(<<"row", n>>, 3, 0, <<"chan_next", n>>), P[10])
  /\ Code(P[10], Ahead(7, 3, l.w \div l.k), P[11])
  /\ Code(P[11], While(<<"pix", n>>, 3, 7, <<"row_next", n>>), P[12])
  /\ Code(P[12], Ldr(4, 1), P[13])
  /\ Code(P[13], Addi(2, 1, 0), P[14])
  /\ Code(P[14], Unrolled(l.k * l.k - 1, PoolTap(l)), P[15])
  /\ Code(P[15], Str(4, 3), P[16])
  /\ Code(P[16], Addi(3, 3, 1), P[17])
  /\ Code(P[17], Addi(1, 1, l.k), P[18])
  /\ Code(P[18], Goto("BR", <<"pix", n>>), P[19])
  /\ Code(P[19], Here(<<"row_next", n>>), P[20])
  /\ Code(P[20], Bump(1, l.k * (l.w - (l.w \div l.k)), 6), P[21])
  /\ Code(P[21], Goto("BR", <<"row", n>>), P[22])
  /\ Code(P[22], Here(<<"chan_next", n>>), P[23])
  /\ Code(P[23], Bump(1, (l.h - l.k * (l.h \div l.k)) * l.w, 6), P[24])
  /\ Code(P[24], Goto("BR", <<"chan", n>>), P[25])
  /\ Code(P[25], Here(<<"end", n>>), P[26])

\* They lie one after the other in its text.
LEMMA PoolCode ==
  ASSUME NEW n, NEW l, NEW from, NEW to, IsPlane(l), NEW m, NEW k, Code(m, GenPool(n, l, from, to), k)
  PROVE  \E P : PoolAt(n, l, from, to, P) /\ P[1] = m /\ P[26] = k
<1> DEFINE b1 == Lit(1, from)
           b2 == Lit(3, to)
           b3 == Lit(0, to)
           b4 == Here(<<"chan", n>>)
           b5 == Lit(5, to + OutLen(l))
           b6 == Cmp(3, 5)
           b7 == Goto("BRzp", <<"end", n>>)
           b8 == Bump(0, (l.h \div l.k) * (l.w \div l.k), 6)
           b9 == While(<<"row", n>>, 3, 0, <<"chan_next", n>>)
           b10 == Ahead(7, 3, l.w \div l.k)
           b11 == While(<<"pix", n>>, 3, 7, <<"row_next", n>>)
           b12 == Ldr(4, 1)
           b13 == Addi(2, 1, 0)
           b14 == Unrolled(l.k * l.k - 1, PoolTap(l))
           b15 == Str(4, 3)
           b16 == Addi(3, 3, 1)
           b17 == Addi(1, 1, l.k)
           b18 == Goto("BR", <<"pix", n>>)
           b19 == Here(<<"row_next", n>>)
           b20 == Bump(1, l.k * (l.w - (l.w \div l.k)), 6)
           b21 == Goto("BR", <<"row", n>>)
           b22 == Here(<<"chan_next", n>>)
           b23 == Bump(1, (l.h - l.k * (l.h \div l.k)) * l.w, 6)
           b24 == Goto("BR", <<"chan", n>>)
           b25 == Here(<<"end", n>>)
<1>1. /\ KnownCode(b1) /\ KnownCode(b2) /\ KnownCode(b3) /\ KnownCode(b4) /\ KnownCode(b5) /\ KnownCode(b6)
      /\ KnownCode(b7) /\ KnownCode(b8) /\ KnownCode(b9) /\ KnownCode(b10) /\ KnownCode(b11) /\ KnownCode(b12)
      /\ KnownCode(b13) /\ KnownCode(b14) /\ KnownCode(b15) /\ KnownCode(b16) /\ KnownCode(b17) /\ KnownCode(b18)
      /\ KnownCode(b19) /\ KnownCode(b20) /\ KnownCode(b21) /\ KnownCode(b22) /\ KnownCode(b23) /\ KnownCode(b24)
      /\ KnownCode(b25)
  <2>1. KnownCode(b14)
    <3> DEFINE n1 == l.k * l.k - 1
    <3>1. n1 \in Nat /\ \A t \in 0 .. n1 - 1 : t \in 0 .. l.k * l.k - 2
      <4>1. l.k * l.k \in Nat /\ l.k * l.k >= 1
        BY Window, PlaneSizes
      <4> QED BY <4>1
    <3>2. \A t \in 0 .. n1 - 1 : KnownCode(PoolTap(l)[t])
      BY <3>1, PoolTapKnown
    <3> HIDE DEF n1
    <3>3. KnownCode(Unrolled(n1, PoolTap(l)))
      BY <3>1, <3>2, UnrolledKnown
    <3> QED BY <3>3 DEF n1
  <2> QED BY <2>1, Pieces, WhileKnown, MarkKnown
<1>2. Code(m, b1 \o b2 \o b3 \o b4 \o b5 \o b6 \o b7 \o b8 \o b9 \o b10 \o b11 \o b12 \o b13 \o b14 \o b15 \o b16 \o b17 \o b18 \o b19 \o b20 \o b21 \o b22 \o b23 \o b24 \o b25, k)
  BY Zenon DEF GenPool, PoolTap
<1> HIDE DEF b1, b2, b3, b4, b5, b6, b7, b8, b9, b10, b11, b12, b13, b14, b15, b16, b17, b18, b19, b20, b21, b22, b23, b24, b25
<1> DEFINE a5 == b1 \o b2 \o b3 \o b4 \o b5
           a9 == a5 \o b6 \o b7 \o b8 \o b9
           a13 == a9 \o b10 \o b11 \o b12 \o b13
           a17 == a13 \o b14 \o b15 \o b16 \o b17
           a21 == a17 \o b18 \o b19 \o b20 \o b21
<1>3. KnownCode(a5)
  <2> QED BY <1>1, <1>1, KnownCat
<1>4. KnownCode(a9)
  <2> HIDE DEF a5
  <2> QED BY <1>1, <1>3, KnownCat
<1>5. KnownCode(a13)
  <2> HIDE DEF a9
  <2> QED BY <1>1, <1>4, KnownCat
<1>6. KnownCode(a17)
  <2> HIDE DEF a13
  <2> QED BY <1>1, <1>5, KnownCat
<1>7. KnownCode(a21)
  <2> HIDE DEF a17
  <2> QED BY <1>1, <1>6, KnownCat
<1>8. PICK p22, p23, p24, p25 : /\ Code(m, a21, p22) /\ Code(p22, b22, p23) /\ Code(p23, b23, p24)
        /\ Code(p24, b24, p25) /\ Code(p25, b25, k)
  <2>1. Code(m, a21 \o b22 \o b23 \o b24 \o b25, k)
    BY <1>2
  <2> HIDE DEF a21
  <2> QED BY <1>1, <1>7, <2>1, CodeFive
<1>9. PICK p18, p19, p20, p21 : /\ Code(m, a17, p18) /\ Code(p18, b18, p19) /\ Code(p19, b19, p20)
        /\ Code(p20, b20, p21) /\ Code(p21, b21, p22)
  <2>1. Code(m, a17 \o b18 \o b19 \o b20 \o b21, p22)
    BY <1>8
  <2> HIDE DEF a17
  <2> QED BY <1>1, <1>6, <2>1, CodeFive
<1>10. PICK p14, p15, p16, p17 : /\ Code(m, a13, p14) /\ Code(p14, b14, p15) /\ Code(p15, b15, p16)
        /\ Code(p16, b16, p17) /\ Code(p17, b17, p18)
  <2>1. Code(m, a13 \o b14 \o b15 \o b16 \o b17, p18)
    BY <1>9
  <2> HIDE DEF a13
  <2> QED BY <1>1, <1>5, <2>1, CodeFive
<1>11. PICK p10, p11, p12, p13 : /\ Code(m, a9, p10) /\ Code(p10, b10, p11) /\ Code(p11, b11, p12)
        /\ Code(p12, b12, p13) /\ Code(p13, b13, p14)
  <2>1. Code(m, a9 \o b10 \o b11 \o b12 \o b13, p14)
    BY <1>10
  <2> HIDE DEF a9
  <2> QED BY <1>1, <1>4, <2>1, CodeFive
<1>12. PICK p6, p7, p8, p9 : /\ Code(m, a5, p6) /\ Code(p6, b6, p7) /\ Code(p7, b7, p8)
        /\ Code(p8, b8, p9) /\ Code(p9, b9, p10)
  <2>1. Code(m, a5 \o b6 \o b7 \o b8 \o b9, p10)
    BY <1>11
  <2> HIDE DEF a5
  <2> QED BY <1>1, <1>3, <2>1, CodeFive
<1>13. PICK p2, p3, p4, p5 : /\ Code(m, b1, p2) /\ Code(p2, b2, p3) /\ Code(p3, b3, p4)
        /\ Code(p4, b4, p5) /\ Code(p5, b5, p6)
  <2>1. Code(m, b1 \o b2 \o b3 \o b4 \o b5, p6)
    BY <1>12
  <2> QED BY <1>1, <1>1, <2>1, CodeFive
<1> DEFINE P == <<m, p2, p3, p4, p5, p6, p7, p8, p9, p10, p11, p12, p13, p14, p15, p16, p17, p18, p19, p20, p21, p22, p23, p24, p25, k>>
<1>14. /\ P[1] = m /\ P[2] = p2 /\ P[3] = p3 /\ P[4] = p4 /\ P[5] = p5 /\ P[6] = p6 /\ P[7] = p7
       /\ P[8] = p8 /\ P[9] = p9 /\ P[10] = p10 /\ P[11] = p11 /\ P[12] = p12 /\ P[13] = p13 /\ P[14] = p14
       /\ P[15] = p15 /\ P[16] = p16 /\ P[17] = p17 /\ P[18] = p18 /\ P[19] = p19 /\ P[20] = p20 /\ P[21] = p21
       /\ P[22] = p22 /\ P[23] = p23 /\ P[24] = p24 /\ P[25] = p25 /\ P[26] = k
  OBVIOUS
<1> HIDE DEF P
<1>15. PoolAt(n, l, from, to, P)
  BY <1>8, <1>9, <1>10, <1>11, <1>12, <1>13, <1>14
     DEF PoolAt, b1, b2, b3, b4, b5, b6, b7, b8, b9, b10, b11, b12, b13, b14, b15, b16, b17, b18, b19, b20, b21, b22, b23, b24, b25
<1> QED BY <1>14, <1>15

\* A pool whose window is not empty.
IsPool(l) == IsPlane(l) /\ l.kind = "Pool"

\* The lines of its kernel that the plane's size is in.
LEMMA PoolPieces ==
  ASSUME NEW n, NEW l, IsPool(l), NEW from, NEW to, NEW P, PoolAt(n, l, from, to, P)
  PROVE  /\ Code(P[8], Bump(0, Oh(l) * Ow(l), 6), P[9]) /\ Code(P[10], Ahead(7, 3, Ow(l)), P[11])
         /\ Code(P[20], Bump(1, l.k * (l.w - Ow(l)), 6), P[21])
         /\ Code(P[23], Bump(1, (l.h - l.k * Oh(l)) * l.w, 6), P[24])
<1>1. l.kind # "Conv"
  BY DEF IsPool
<1>2. Oh(l) = l.h \div l.k /\ Ow(l) = l.w \div l.k
  BY <1>1, Zenon DEF Oh, Ow
<1>3. /\ Code(P[8], Bump(0, (l.h \div l.k) * (l.w \div l.k), 6), P[9]) /\ Code(P[10], Ahead(7, 3, l.w \div l.k), P[11])
      /\ Code(P[20], Bump(1, l.k * (l.w - (l.w \div l.k)), 6), P[21])
      /\ Code(P[23], Bump(1, (l.h - l.k * (l.h \div l.k)) * l.w, 6), P[24])
  BY Zenon DEF PoolAt
<1> QED BY <1>2, <1>3, Zenon

\* Its labels.
LEMMA PoolLabels ==
  ASSUME Sizes, InPlace, NEW n, NEW l, NEW from, NEW to, NEW P, PoolAt(n, l, from, to, P)
  PROVE  /\ Labelled(<<"chan", n>>, P[4]) /\ Labelled(<<"row", n>>, P[9]) /\ Labelled(<<"pix", n>>, P[11])
         /\ Labelled(<<"row_next", n>>, P[19]) /\ Labelled(<<"chan_next", n>>, P[22]) /\ Labelled(<<"end", n>>, P[25])
         /\ Leaves(P[9], 3, 0, <<"chan_next", n>>, P[10]) /\ Leaves(P[11], 3, 7, <<"row_next", n>>, P[12])
         /\ \A c : /\ Goes(P[4], c, P[5], c) /\ Goes(P[19], c, P[20], c) /\ Goes(P[22], c, P[23], c)
                   /\ Goes(P[25], c, P[26], c)
<1>1. \A s : <<s, n>> # NoLabel
  BY DEF NoLabel
<1>2. /\ Code(P[4], Here(<<"chan", n>>), P[5]) /\ Code(P[9], While(<<"row", n>>, 3, 0, <<"chan_next", n>>), P[10])
      /\ Code(P[11], While(<<"pix", n>>, 3, 7, <<"row_next", n>>), P[12])
      /\ Code(P[19], Here(<<"row_next", n>>), P[20]) /\ Code(P[22], Here(<<"chan_next", n>>), P[23])
      /\ Code(P[25], Here(<<"end", n>>), P[26])
  BY Zenon DEF PoolAt
<1>3. Labelled(<<"chan", n>>, P[4]) /\ \A c : Goes(P[4], c, P[5], c)
  BY <1>1, <1>2, HereGoes
<1>4. Labelled(<<"row_next", n>>, P[19]) /\ \A c : Goes(P[19], c, P[20], c)
  BY <1>1, <1>2, HereGoes
<1>5. Labelled(<<"chan_next", n>>, P[22]) /\ \A c : Goes(P[22], c, P[23], c)
  BY <1>1, <1>2, HereGoes
<1>6. Labelled(<<"end", n>>, P[25]) /\ \A c : Goes(P[25], c, P[26], c)
  BY <1>1, <1>2, HereGoes
<1>7. 0 \in Regs /\ 3 \in Regs /\ 7 \in Regs
  BY DEF Regs
<1>8. Labelled(<<"row", n>>, P[9]) /\ Leaves(P[9], 3, 0, <<"chan_next", n>>, P[10])
  BY <1>1, <1>2, <1>7, WhileGoes
<1>9. Labelled(<<"pix", n>>, P[11]) /\ Leaves(P[11], 3, 7, <<"row_next", n>>, P[12])
  BY <1>1, <1>2, <1>7, WhileGoes
<1> QED BY <1>3, <1>4, <1>5, <1>6, <1>8, <1>9

\* Its sizes.
LEMMA PoolSizes ==
  ASSUME Sizes, NEW l, IsPool(l), NEW from, NEW to, NEW ws, NEW s, NEW in, Ready(s, l, in, from, to, ws)
  PROVE  /\ InLen(l) = l.c * (l.h * l.w) /\ OutLen(l) = l.c * (Oh(l) * Ow(l))
         /\ InLen(l) \in Nat /\ OutLen(l) \in Nat /\ Weights(l) \in Nat
         /\ from \in Nat /\ to \in Nat /\ AddrSize \in Nat /\ U16 \in Nat /\ AddrSize < U16
         /\ from + InLen(l) <= AddrSize /\ to + OutLen(l) <= AddrSize
<1>1. /\ l.h \in Nat /\ l.w \in Nat /\ l.c \in Nat /\ Oh(l) \in Nat /\ Ow(l) \in Nat
      /\ OutLen(l) = l.c * (Oh(l) * Ow(l))
  BY PlaneSizes DEF IsPool
<1>2. l.h * l.w \in Nat /\ Oh(l) * Ow(l) \in Nat
  BY <1>1, Times
<1>3. l.c * (Oh(l) * Ow(l)) \in Nat /\ l.c * (l.h * l.w) \in Nat
  BY <1>1, <1>2, Times
<1>4. InLen(l) = l.c * (l.h * l.w) /\ Weights(l) = 0
  BY DEF InLen, Weights, IsPool
<1>5. from \in Nat /\ to \in Nat /\ from + InLen(l) <= AddrSize /\ to + OutLen(l) <= AddrSize
  BY DEF Ready
<1>6. AddrSize \in Nat /\ U16 \in Nat /\ AddrSize < U16
  BY DEF Sizes, Words, U16
<1> QED BY <1>1, <1>3, <1>4, <1>5, <1>6

\* The bytes that a pixel of a pool is computed from.
LEMMA PoolAddr ==
  ASSUME Sizes, NEW l, IsPool(l), NEW from, NEW to, NEW ws, NEW s, NEW in,
         Ready(s, l, in, from, to, ws), NEW c, NEW r, NEW q, NEW o, Pixel(l, c, r, q, o),
         NEW a, a = c * (l.h * l.w) + ((r * l.k) * l.w + q * l.k)
  PROVE  /\ \A t \in 0 .. l.k * l.k - 1 : a + Off(t, l) \in 0 .. InLen(l) - 1 /\ Off(t, l) \in Nat
         /\ a \in Nat /\ a + l.k <= InLen(l) /\ o \in 0 .. OutLen(l) - 1 /\ o \in Nat
<1>1. /\ l.k \in Nat /\ l.k >= 1 /\ l.h \in Nat /\ l.w \in Nat /\ l.c \in Nat /\ l.h * l.w \in Nat
  BY PlaneSizes, Times DEF IsPool
<1>2. InLen(l) = l.c * (l.h * l.w) /\ InLen(l) \in Nat /\ OutLen(l) \in Nat
  BY PoolSizes
<1>3. c \in Nat /\ c < l.c
  BY DEF Pixel
<1>4. o \in Nat /\ o < OutLen(l)
  BY PixelIs DEF IsPool
<1>5. r * l.k + l.k <= l.h /\ q * l.k + l.k <= l.w /\ r * l.k \in Nat /\ q * l.k \in Nat
  BY PooledInside DEF IsPool
<1> DEFINE y == r * l.k
           z == q * l.k
           n == l.h * l.w
<1>6. y \in Nat /\ z \in Nat /\ y + l.k <= l.h /\ z + l.k <= l.w
  BY <1>5
<1>7. y * l.w \in Nat /\ y * l.w + l.w <= n
  <2>1. y < l.h
    BY <1>1, <1>6
  <2> HIDE DEF y
  <2> QED BY <1>1, <1>6, <2>1, Rows
<1>8. c * n \in Nat /\ c * n + n <= InLen(l)
  <2>1. n \in Nat /\ InLen(l) = l.c * n
    BY <1>1, <1>2
  <2> HIDE DEF n
  <2> QED BY <1>1, <1>3, <2>1, Rows
<1>9. \A t \in 0 .. l.k * l.k - 1 : y * l.w + z + Off(t, l) \in 0 .. n - 1 /\ Off(t, l) \in Nat
  BY <1>1, <1>5, TapAtIs DEF IsPool
<1>10. a = c * n + (y * l.w + z)
  OBVIOUS
<1>11. n \in Nat
  BY <1>1
<1> DEFINE b  == c * n
           yw == y * l.w
<1>12. /\ b \in Nat /\ b + n <= InLen(l) /\ yw \in Nat /\ yw + l.w <= n /\ a = b + (yw + z)
       /\ \A t \in 0 .. l.k * l.k - 1 : yw + z + Off(t, l) \in 0 .. n - 1 /\ Off(t, l) \in Nat
  BY <1>7, <1>8, <1>9, <1>10
<1> HIDE DEF b, yw, y, z, n
<1>13. a \in Nat /\ a + l.k <= InLen(l)
  BY <1>1, <1>2, <1>6, <1>11, <1>12
<1>14. ASSUME NEW t \in 0 .. l.k * l.k - 1 PROVE a + Off(t, l) \in 0 .. InLen(l) - 1
  <2>1. yw + z + Off(t, l) \in 0 .. n - 1 /\ Off(t, l) \in Nat
    BY <1>12
  <2> QED BY <1>2, <1>6, <1>11, <1>12, <2>1
<1> QED BY <1>2, <1>4, <1>12, <1>13, <1>14

\* The window at offset a exists.
WindowIn(l, a) == \A j \in 0 .. l.k * l.k - 1 : a + Off(j, l) \in 0 .. InLen(l) - 1

\* v is the largest of the taps 0 .. t.
MostOf(l, in, a, t, v) ==
  /\ \E j \in 0 .. t : in[a + Off(j, l) + 1] = v
  /\ \A j \in 0 .. t : in[a + Off(j, l) + 1] <= v

\* At tap t of the window at offset a for output o.
PoolWin(m0, s, l, in, from, to, f, m, x0, a, o, e, t, d) ==
  /\ Has(m0, s, m, d, to, f, o) /\ d.acc = 0 /\ d.voted = TRUE
  /\ d.regs[0] = x0 /\ d.regs[1] = from + a /\ d.regs[3] = to + o /\ d.regs[7] = e
  /\ d.regs[2] = from + (a + Off(t, l)) /\ MostOf(l, in, a, t, d.regs[4])

\* A tap.
LEMMA PoolTapGoes ==
  ASSUME Sizes, InPlace, NEW l, IsPool(l), l.w - l.k + 1 <= 63, NEW from, NEW to, NEW ws,
         NEW s, NEW in, Ready(s, l, in, from, to, ws), NEW f, NEW m0, NEW m, NEW k,
         NEW t \in 0 .. l.k * l.k - 2, Code(m, PoolTap(l)[t], k), NEW x0,
         NEW a \in Nat, NEW o \in 0 .. OutLen(l), NEW e7, WindowIn(l, a),
         NEW d, PoolWin(m0, s, l, in, from, to, f, m, x0, a, o, e7, t, d)
  PROVE  \E e : PoolWin(m0, s, l, in, from, to, f, k, x0, a, o, e7, t + 1, e)
<1> DEFINE n  == l.k * l.k
           y  == a + Off(t, l)
           st == Stride(t, l)
<1>0. /\ 0 \in Regs /\ 1 \in Regs /\ 2 \in Regs /\ 3 \in Regs /\ 4 \in Regs /\ 5 \in Regs /\ 7 \in Regs
  BY DEF Regs
<1>1. /\ n \in Nat /\ t \in Nat /\ t + 1 \in 0 .. n - 1 /\ st \in Nat /\ st <= 63
      /\ Off(t + 1, l) = Off(t, l) + st /\ Off(t, l) \in Nat
  <2>1. l.k \in Nat /\ l.k >= 1 /\ l.w \in Nat /\ l.k <= l.w
    BY PlaneSizes DEF IsPool
  <2>2. n \in Nat /\ t \in Nat /\ t + 1 \in 0 .. n - 1
    BY <2>1, Times
  <2>3. Off(t + 1, l) = Off(t, l) + st /\ Off(t, l) \in Nat /\ st \in Nat /\ (st = 1 \/ st = l.w - l.k + 1)
    BY <2>1, <2>2, Window
  <2> QED BY <2>2, <2>3
<1>2. /\ InLen(l) \in Nat /\ OutLen(l) \in Nat /\ Weights(l) \in Nat
      /\ from \in Nat /\ to \in Nat /\ AddrSize \in Nat
  BY PoolSizes
<1>3. y + st \in 0 .. InLen(l) - 1 /\ y + st = a + Off(t + 1, l) /\ y \in Nat
  <2>1. a + Off(t + 1, l) \in 0 .. InLen(l) - 1
    BY <1>1 DEF WindowIn
  <2> QED BY <1>1, <2>1
<1>4. /\ Has(m0, s, m, d, to, f, o) /\ d.acc = 0 /\ d.voted = TRUE
      /\ d.regs[0] = x0 /\ d.regs[1] = from + a /\ d.regs[3] = to + o /\ d.regs[7] = e7
      /\ d.regs[2] = from + y /\ MostOf(l, in, a, t, d.regs[4])
  BY DEF PoolWin
<1> DEFINE z == y + st
<1>5. z \in 0 .. InLen(l) - 1 /\ z = a + Off(t + 1, l) /\ z = y + st
  BY <1>3
<1> HIDE DEF y, st, z
<1>6. /\ from + z \in Nat /\ from + z < AddrSize /\ from + z + 1 \in Words
      /\ \A u : Has(m0, s, m, u, to, f, o) \/ (Filled(s, u, to, f, o) /\ Ok(u))
                  => Readable(u, from + z) /\ u.mem[from + z] = in[z + 1]
  <2>1. ASSUME NEW u, Has(m0, s, m, u, to, f, o) \/ (Filled(s, u, to, f, o) /\ Ok(u)) PROVE Given(u, l, in, from, ws)
    BY <1>2, <2>1, StillThere DEF Has
  <2> HIDE DEF n
  <2>2. Given(d, l, in, from, ws)
    BY <1>4, <2>1
  <2>3. from + z \in Nat /\ from + z < AddrSize /\ from + z + 1 \in Words
    BY <1>5, <2>2 DEF Given
  <2> QED BY <1>5, <2>1, <2>3 DEF Given
<1> DEFINE add == Addi(2, 2, st)
           ldr == Ldr(5, 2)
           max == <<Ins("MAX", <<R(4), R(4), R(5)>>)>>
<1>7. PICK j1, j2 : Code(m, add, j1) /\ Code(j1, ldr, j2) /\ Code(j2, max, k)
  <2>1. PoolTap(l)[t] = add \o ldr \o max
    BY DEF PoolTap, st
  <2>2. KnownCode(add) /\ KnownCode(ldr) /\ KnownCode(max)
    BY Pieces, InsKnown, Written
  <2>3. Code(m, add \o ldr \o max, k)
    BY <2>1
  <2> HIDE DEF add, ldr, max
  <2> QED BY <2>2, <2>3, CodeThree
<1>8. PICK d1 : Passes(m, d, j1, d1, {2}) /\ d1.regs[2] = from + z
  <2>1. d.regs[2] + st = from + z
    BY <1>1, <1>2, <1>3, <1>4, <1>5
  <2>2. d.regs[2] + st \in Words
    <3>1. from + z + 1 < U16 /\ U16 \in Nat
      BY <1>6 DEF Words, U16
    <3> HIDE DEF n
    <3> QED BY <1>6, <2>1, <3>1 DEF Words
  <2>3. Gives(m, d, j1, {2}, 2, d.regs[2] + st)
    BY <1>0, <1>1, <1>4, <1>7, <2>2, AddiMoves DEF Has
  <2> QED BY <2>1, <2>3 DEF Gives
<1>9. /\ Has(m0, s, j1, d1, to, f, o) /\ d1.acc = 0 /\ d1.voted = TRUE
      /\ d1.regs[0] = x0 /\ d1.regs[1] = from + a /\ d1.regs[3] = to + o /\ d1.regs[7] = e7
      /\ d1.regs[2] = from + z /\ d1.regs[4] = d.regs[4]
  <2>1. Has(m0, s, j1, d1, to, f, o) /\ Keeps(d, d1, {2})
    BY <1>4, <1>8, HasMoves
  <2> QED BY <1>0, <1>4, <1>8, <2>1 DEF Keeps
<1> DEFINE b  == in[z + 1]
           d2 == Put(d1, 5, b)
<1>10. Passes(j1, d1, j2, d2, {5}) /\ d2.regs[5] = b /\ b \in Bytes
  <2>1. Readable(d1, from + z) /\ d1.mem[from + z] = b
    BY <1>6, <1>9 DEF Has
  <2>2. Ok(d1)
    BY <1>9 DEF Has
  <2> HIDE DEF b, d2, n
  <2>3. Goes(j1, d1, j2, Put(d1, 5, d1.mem[from + z])) /\ d1.mem[from + z] \in Bytes
    BY <1>0, <1>6, <1>7, <1>9, <2>1, <2>2, LdrGoes
  <2>4. b \in Bytes /\ b \in Words /\ Goes(j1, d1, j2, Put(d1, 5, b))
    <3>1. \A i1 \in Bytes : i1 \in Words
      BY DEF Bytes, Words, U16
    <3> QED BY <2>1, <2>3, <3>1
  <2>5. Ok(Put(d1, 5, b)) /\ Same(d1, Put(d1, 5, b), {5}) /\ Put(d1, 5, b).regs[5] = b
    <3>1. 5 \in Regs /\ b \in Words /\ Ok(d1)
      BY <1>0, <2>2, <2>4
    <3> QED BY <3>1, PutSees, Zenon
  <2> QED BY <2>4, <2>5 DEF Passes, d2
<1>11. /\ Has(m0, s, j2, d2, to, f, o) /\ d2.acc = 0 /\ d2.voted = TRUE
       /\ d2.regs[0] = x0 /\ d2.regs[1] = from + a /\ d2.regs[3] = to + o /\ d2.regs[7] = e7
       /\ d2.regs[2] = from + z /\ d2.regs[4] = d.regs[4] /\ d2.regs[5] = b
  <2> HIDE DEF d2, b
  <2>1. Has(m0, s, j2, d2, to, f, o) /\ Keeps(d1, d2, {5})
    BY <1>9, <1>10, HasMoves
  <2> QED BY <1>0, <1>9, <1>10, <2>1 DEF Keeps
<1> HIDE DEF d2
<1> DEFINE v  == Larger(d2)
           d3 == Put(Vote(d2), 4, v)
<1>12. Passes(j2, d2, k, d3, {4}) /\ d3.regs[4] = v
  <2>1. Ok(d2)
    BY <1>11 DEF Has
  <2>2. Goes(j2, d2, k, d3) /\ Ok(d3)
    BY <1>7, <2>1, MaxGoes
  <2>3. v \in Words /\ Ok(Vote(d2)) /\ Vote(d2).regs = d2.regs
    <3>1. d2.regs[4] \in Words /\ d2.regs[5] \in Words
      BY <1>0, <2>1 DEF Ok
    <3> QED BY <2>1, <3>1, OkUpdates DEF Larger, Vote, Shot
  <2> HIDE DEF v
  <2>4. Same(Vote(d2), d3, {4}) /\ d3.regs[4] = v
    BY <1>0, <2>3, PutSees
  <2>5. Same(d2, Vote(d2), {})
    BY DEF Same, Vote, Shot
  <2>6. Same(d2, d3, {4})
    BY <2>4, <2>5 DEF Same
  <2> QED BY <2>2, <2>4, <2>6 DEF Passes
<1> HIDE DEF d3
<1>13. /\ Has(m0, s, k, d3, to, f, o) /\ d3.acc = 0 /\ d3.voted = TRUE
       /\ d3.regs[0] = x0 /\ d3.regs[1] = from + a /\ d3.regs[3] = to + o /\ d3.regs[7] = e7
       /\ d3.regs[2] = from + z
  <2> HIDE DEF v
  <2>1. Has(m0, s, k, d3, to, f, o) /\ Keeps(d2, d3, {4})
    BY <1>11, <1>12, HasMoves
  <2> QED BY <1>0, <1>11, <2>1 DEF Keeps
<1>14. MostOf(l, in, a, t + 1, v)
  <2> DEFINE u == d.regs[4]
  <2>1. v = IF b < u THEN u ELSE b
    BY <1>11 DEF Larger
  <2>2. u \in Nat /\ b \in Nat
    BY <1>0, <1>4, <1>10 DEF Has, Ok, Words, Bytes
  <2>3. /\ \E j \in 0 .. t : in[a + Off(j, l) + 1] = u
        /\ \A j \in 0 .. t : in[a + Off(j, l) + 1] <= u
    BY <1>4 DEF MostOf
  <2>4. in[a + Off(t + 1, l) + 1] = b
    BY <1>5
  <2> HIDE DEF u, b, v
  <2>5. \E j \in 0 .. t + 1 : in[a + Off(j, l) + 1] = v
    <3>1. \A j \in 0 .. t : j \in 0 .. t + 1
      BY <1>1
    <3>2. t + 1 \in 0 .. t + 1
      BY <1>1
    <3> QED BY <2>1, <2>3, <2>4, <3>1, <3>2
  <2>6. ASSUME NEW j \in 0 .. t + 1 PROVE in[a + Off(j, l) + 1] <= v
    <3>1. CASE j = t + 1
      BY <2>1, <2>2, <2>4, <3>1
    <3>2. CASE j # t + 1
      <4>1. j \in 0 .. t
        BY <1>1, <3>2
      <4>2. in[a + Off(j, l) + 1] \in Bytes
        <5>1. j \in 0 .. n - 1
          BY <1>1, <4>1
        <5>2. a + Off(j, l) \in 0 .. InLen(l) - 1
          BY <5>1 DEF WindowIn
        <5> QED BY <5>2, Zenon DEF Ready
      <4>3. in[a + Off(j, l) + 1] <= u /\ in[a + Off(j, l) + 1] \in Nat
        BY <2>3, <4>1, <4>2 DEF Bytes
      <4> DEFINE i1 == in[a + Off(j, l) + 1]
      <4>4. i1 <= u /\ i1 \in Nat
        BY <4>3
      <4> HIDE DEF i1
      <4>5. i1 <= v
        BY <2>1, <2>2, <4>4
      <4> QED BY <4>5 DEF i1
    <3> QED BY <3>1, <3>2
  <2> QED BY <2>5, <2>6 DEF MostOf
<1>15. PoolWin(m0, s, l, in, from, to, f, k, x0, a, o, e7, t + 1, d3)
  <2> HIDE DEF v
  <2> QED BY <1>5, <1>12, <1>13, <1>14 DEF PoolWin
<1> QED BY <1>15

\* The whole window.
LEMMA PoolTaps ==
  ASSUME Sizes, InPlace, NEW l, IsPool(l), l.w - l.k + 1 <= 63, NEW from, NEW to, NEW ws,
         NEW s, NEW in, Ready(s, l, in, from, to, ws), NEW f, NEW m0, NEW m, NEW k,
         Code(m, Unrolled(l.k * l.k - 1, PoolTap(l)), k), NEW x0,
         NEW a \in Nat, NEW o \in 0 .. OutLen(l), NEW e7, WindowIn(l, a),
         NEW c, PoolWin(m0, s, l, in, from, to, f, m, x0, a, o, e7, 0, c)
  PROVE  \E d : PoolWin(m0, s, l, in, from, to, f, k, x0, a, o, e7, l.k * l.k - 1, d)
<1> DEFINE n == l.k * l.k - 1
<1>1. n \in Nat /\ \A t \in 0 .. n - 1 : t \in 0 .. l.k * l.k - 2
  <2>1. l.k * l.k \in Nat /\ l.k * l.k >= 1
    BY Window, PlaneSizes DEF IsPool
  <2> QED BY <2>1
<1>2. Code(m, Unrolled(n, PoolTap(l)), k)
  OBVIOUS
<1> HIDE DEF n
<1>3. PICK pos : /\ pos[0] = m /\ pos[n] = k
                 /\ \A t \in 0 .. n - 1 : Code(pos[t], PoolTap(l)[t], pos[t + 1])
  <2>1. \A t \in 0 .. n - 1 : KnownCode(PoolTap(l)[t])
    BY <1>1, PoolTapKnown
  <2> QED BY <1>1, <1>2, <2>1, UnrolledAt
<1> DEFINE S == {t \in 0 .. n : \E d : PoolWin(m0, s, l, in, from, to, f, pos[t], x0, a, o, e7, t, d)}
<1>4. 0 \in S
  <2>1. 0 \in 0 .. n
    BY <1>1
  <2> QED BY <1>3, <2>1
<1>5. ASSUME NEW t \in 0 .. n - 1, t \in S PROVE t + 1 \in S
  <2>1. PICK d : PoolWin(m0, s, l, in, from, to, f, pos[t], x0, a, o, e7, t, d)
    BY <1>5
  <2>2. Code(pos[t], PoolTap(l)[t], pos[t + 1]) /\ t \in 0 .. l.k * l.k - 2
    BY <1>1, <1>3
  <2>3. \E e : PoolWin(m0, s, l, in, from, to, f, pos[t + 1], x0, a, o, e7, t + 1, e)
    BY <2>1, <2>2, PoolTapGoes
  <2>4. t + 1 \in 0 .. n
    BY <1>1
  <2> QED BY <2>3, <2>4
<1> HIDE DEF S
<1>6. n \in S
  <2>1. n \in 0 .. n
    BY <1>1
  <2>2. \A t \in 0 .. n : t \in S
    BY <1>1, <1>4, <1>5, Climb
  <2> QED BY <2>1, <2>2
<1>7. PICK d : PoolWin(m0, s, l, in, from, to, f, pos[n], x0, a, o, e7, n, d)
  BY <1>6 DEF S
<1>8. PoolWin(m0, s, l, in, from, to, f, k, x0, a, o, e7, n, d)
  BY <1>3, <1>7
<1> QED BY <1>8 DEF n

\* A sum, put together in another order.
LEMMA Regroup ==
  ASSUME NEW a \in Nat, NEW b \in Nat, NEW c \in Nat, NEW d \in Nat
  PROVE  a + (b + c + d) + 1 = (a + (b + c)) + d + 1
  OBVIOUS

\* The taps of the window at offset a are numbers.
TapsFit(l, in, a) == \A t \in 0 .. l.k * l.k - 1 : in[a + Off(t, l) + 1] \in Nat /\ Off(t, l) \in Nat

\* What eval says is the largest of the window.
LEMMA PoolIs ==
  ASSUME NEW l, IsPool(l), NEW in, NEW c, NEW r, NEW q, NEW o, Pixel(l, c, r, q, o),
         NEW a, a = c * (l.h * l.w) + ((r * l.k) * l.w + q * l.k),
         TapsFit(l, in, a), NEW v, MostOf(l, in, a, l.k * l.k - 1, v)
  PROVE  EvalSays(l, in, o, v)
<1> DEFINE T == [t \in 0 .. l.k * l.k - 1 |->
                  in[c * (l.h * l.w) + ((r * l.k) * l.w + q * l.k + Off(t, l)) + 1]]
<1>1. T = [t \in 0 .. l.k * l.k - 1 |->
                  in[c * (l.h * l.w) + ((r * l.k) * l.w + q * l.k + Off(t, l)) + 1]]
  OBVIOUS
<1>2. c * (l.h * l.w) \in Nat /\ (r * l.k) * l.w \in Nat /\ q * l.k \in Nat
  <2>1. c \in Nat /\ r \in Nat /\ q \in Nat /\ l.h \in Nat /\ l.w \in Nat /\ l.k \in Nat
    BY PlaneSizes DEF IsPool, Pixel
  <2>2. l.h * l.w \in Nat /\ r * l.k \in Nat /\ q * l.k \in Nat
    BY <2>1, Times
  <2> QED BY <2>1, <2>2, Times
<1>3. ASSUME NEW t \in 0 .. l.k * l.k - 1 PROVE T[t] = in[a + Off(t, l) + 1]
  <2>1. T[t] = in[c * (l.h * l.w) + ((r * l.k) * l.w + q * l.k + Off(t, l)) + 1]
    BY Zenon
  <2> HIDE DEF T
  <2>2. Off(t, l) \in Nat
    BY DEF TapsFit
  <2> DEFINE y1 == c * (l.h * l.w)
             y2 == (r * l.k) * l.w
             y3 == q * l.k
             y4 == Off(t, l)
  <2>3. y1 \in Nat /\ y2 \in Nat /\ y3 \in Nat /\ y4 \in Nat /\ a = y1 + (y2 + y3)
    BY <1>2, <2>2
  <2>4. T[t] = in[y1 + (y2 + y3 + y4) + 1]
    BY <2>1
  <2> HIDE DEF y1, y2, y3, y4
  <2>5. y1 + (y2 + y3 + y4) + 1 = a + y4 + 1
    <3>1. y1 + (y2 + y3 + y4) + 1 = (y1 + (y2 + y3)) + y4 + 1
      BY <2>3, Regroup
    <3> QED BY <2>3, <3>1, Zenon
  <2>6. T[t] = in[a + y4 + 1]
    BY <2>4, <2>5, Zenon
  <2> QED BY <2>6 DEF y4
<1> HIDE DEF T
<1>4. \A t \in 0 .. l.k * l.k - 1 : T[t] \in Nat
  BY <1>3 DEF TapsFit
<1>5. Largest(T, l.k * l.k, v)
  BY <1>3, <1>4 DEF MostOf, Largest
<1>6. IsPlane(l) /\ l.kind = "Pool"
  BY DEF IsPool
<1> QED BY <1>1, <1>5, <1>6, PoolMost

\* At the pixel at offset a of a row that ends before output e, before output o.
PoolPix(m0, s, from, to, f, m, x0, a, e, o, d) ==
  /\ Has(m0, s, m, d, to, f, o) /\ d.acc = 0
  /\ d.regs[0] = x0 /\ d.regs[1] = from + a /\ d.regs[3] = to + o /\ d.regs[7] = to + e

\* A pixel.
LEMMA PoolPixel ==
  ASSUME Sizes, InPlace, NEW n, NEW l, IsPool(l), l.w - l.k + 1 <= 63, l.k <= 63,
         NEW from, NEW to, NEW ws, NEW s, NEW in, Ready(s, l, in, from, to, ws), NEW f, f = EvalLayer(l, in),
         NEW P, PoolAt(n, l, from, to, P), NEW c, NEW r, NEW q, NEW o, Pixel(l, c, r, q, o), NEW x0,
         NEW a, a = c * (l.h * l.w) + ((r * l.k) * l.w + q * l.k), NEW e \in Nat, o < e,
         NEW d, PoolPix(P[1], s, from, to, f, P[11], x0, a, e, o, d)
  PROVE  \E u : PoolPix(P[1], s, from, to, f, P[11], x0, a + l.k, e, o + 1, u)
<1>0. /\ 0 \in Regs /\ 1 \in Regs /\ 2 \in Regs /\ 3 \in Regs /\ 4 \in Regs /\ 7 \in Regs
      /\ 0 \in Nat /\ 0 <= 63 /\ 1 \in Nat /\ 1 <= 63
  BY DEF Regs
<1>1. /\ \A t \in 0 .. l.k * l.k - 1 : a + Off(t, l) \in 0 .. InLen(l) - 1 /\ Off(t, l) \in Nat
      /\ a \in Nat /\ a + l.k <= InLen(l) /\ o \in 0 .. OutLen(l) - 1 /\ o \in Nat
  BY PoolAddr
<1>2. /\ InLen(l) \in Nat /\ OutLen(l) \in Nat
      /\ from \in Nat /\ to \in Nat /\ AddrSize \in Nat /\ U16 \in Nat /\ AddrSize < U16
      /\ from + InLen(l) <= AddrSize /\ to + OutLen(l) <= AddrSize
  BY PoolSizes
<1>3. /\ l.k \in Nat /\ l.k >= 1 /\ 0 \in 0 .. l.k * l.k - 1 /\ Off(0, l) = 0 /\ l.k * l.k \in Nat
  <2>1. l.k \in Nat /\ l.k >= 1 /\ l.w \in Nat /\ l.k <= l.w
    BY PlaneSizes DEF IsPool
  <2>2. l.k * l.k \in Nat /\ l.k * l.k >= 1 /\ Off(0, l) = 0
    BY <2>1, Window
  <2> QED BY <2>1, <2>2
<1>4. a \in 0 .. InLen(l) - 1
  <2>1. a + Off(0, l) \in 0 .. InLen(l) - 1
    BY <1>1, <1>3
  <2> QED BY <1>1, <1>3, <2>1
<1>5. /\ Code(P[12], Ldr(4, 1), P[13]) /\ Code(P[13], Addi(2, 1, 0), P[14])
      /\ Code(P[14], Unrolled(l.k * l.k - 1, PoolTap(l)), P[15]) /\ Code(P[15], Str(4, 3), P[16])
      /\ Code(P[16], Addi(3, 3, 1), P[17]) /\ Code(P[17], Addi(1, 1, l.k), P[18])
      /\ Code(P[18], Goto("BR", <<"pix", n>>), P[19])
  BY Zenon DEF PoolAt
<1>6. /\ Labelled(<<"pix", n>>, P[11]) /\ Labelled(<<"row_next", n>>, P[19])
      /\ Leaves(P[11], 3, 7, <<"row_next", n>>, P[12])
  BY PoolLabels
<1>7. /\ Has(P[1], s, P[11], d, to, f, o) /\ d.acc = 0
      /\ d.regs[0] = x0 /\ d.regs[1] = from + a /\ d.regs[3] = to + o /\ d.regs[7] = to + e
  BY DEF PoolPix
<1> DEFINE d1 == Vote(d)
<1>8. Passes(P[11], d, P[12], d1, {}) /\ d1.voted = TRUE
  <2>1. ~(d.regs[3] >= d.regs[7])
    BY <1>1, <1>2, <1>7
  <2> QED BY <1>6, <1>7, <2>1 DEF Leaves, Has
<1> HIDE DEF d1
<1>9. /\ Has(P[1], s, P[12], d1, to, f, o) /\ d1.acc = 0
      /\ d1.regs[0] = x0 /\ d1.regs[1] = from + a /\ d1.regs[3] = to + o /\ d1.regs[7] = to + e
  <2>1. Has(P[1], s, P[12], d1, to, f, o) /\ Keeps(d, d1, {})
    BY <1>7, <1>8, HasMoves
  <2> QED BY <1>0, <1>7, <2>1 DEF Keeps
<1> DEFINE b  == in[a + 1]
           d2 == Put(d1, 4, b)
<1>10. Passes(P[12], d1, P[13], d2, {4}) /\ d2.regs[4] = b /\ b \in Bytes
  <2>1. from + a < AddrSize /\ Readable(d1, from + a) /\ d1.mem[from + a] = b
    <3>1. o \in 0 .. OutLen(l)
      BY <1>1, <1>2
    <3>2. InLen(l) \in Nat /\ Weights(l) \in Nat /\ OutLen(l) \in Nat
      BY PoolSizes
    <3>3. Given(d1, l, in, from, ws)
      BY <1>9, <3>1, <3>2, StillThere DEF Has
    <3> QED BY <1>4, <3>3 DEF Given
  <2>2. Ok(d1)
    BY <1>9 DEF Has
  <2> HIDE DEF b, d2
  <2>3. Goes(P[12], d1, P[13], Put(d1, 4, d1.mem[from + a])) /\ d1.mem[from + a] \in Bytes
    <3> DEFINE a1 == from + a
    <3>1. a1 = d1.regs[1] /\ a1 < AddrSize /\ Readable(d1, a1)
      BY <1>9, <2>1
    <3>2. Code(P[12], Ldr(4, 1), P[13]) /\ 1 \in Regs /\ 4 \in Regs
      BY <1>0, <1>5
    <3> HIDE DEF a1
    <3>3. Goes(P[12], d1, P[13], Put(d1, 4, d1.mem[a1])) /\ d1.mem[a1] \in Bytes
      BY <2>2, <3>1, <3>2, LdrGoes
    <3> QED BY <3>3 DEF a1
  <2>4. b \in Bytes /\ b \in Words /\ Goes(P[12], d1, P[13], Put(d1, 4, b))
    <3>1. \A i1 \in Bytes : i1 \in Words
      BY DEF Bytes, Words, U16
    <3> QED BY <2>1, <2>3, <3>1
  <2>5. Ok(Put(d1, 4, b)) /\ Same(d1, Put(d1, 4, b), {4}) /\ Put(d1, 4, b).regs[4] = b
    <3>1. 4 \in Regs /\ b \in Words /\ Ok(d1)
      BY <1>0, <2>2, <2>4
    <3> QED BY <3>1, PutSees, Zenon
  <2> QED BY <2>4, <2>5 DEF Passes, d2
<1> HIDE DEF d2
<1>11. /\ Has(P[1], s, P[13], d2, to, f, o) /\ d2.acc = 0 /\ d2.voted = TRUE
       /\ d2.regs[0] = x0 /\ d2.regs[1] = from + a /\ d2.regs[3] = to + o /\ d2.regs[7] = to + e
       /\ d2.regs[4] = b
  <2> HIDE DEF b
  <2>1. Has(P[1], s, P[13], d2, to, f, o) /\ Keeps(d1, d2, {4})
    BY <1>9, <1>10, HasMoves
  <2> QED BY <1>0, <1>8, <1>9, <1>10, <2>1 DEF Keeps
<1>12. PICK d3 : Passes(P[13], d2, P[14], d3, {2}) /\ d3.regs[2] = from + a + 0
  <2>1. d2.regs[1] + 0 \in Words
    BY <1>1, <1>2, <1>4, <1>11 DEF Words
  <2>2. Gives(P[13], d2, P[14], {2}, 2, d2.regs[1] + 0)
    BY <1>0, <1>5, <1>11, <2>1, AddiMoves DEF Has
  <2> QED BY <1>11, <2>2 DEF Gives
<1>13. PoolWin(P[1], s, l, in, from, to, f, P[14], x0, a, o, to + e, 0, d3)
  <2>1. Has(P[1], s, P[14], d3, to, f, o) /\ Keeps(d2, d3, {2})
    BY <1>11, <1>12, HasMoves
  <2>2. from + a + 0 = from + (a + Off(0, l))
    BY <1>1, <1>2, <1>3
  <2>3. MostOf(l, in, a, 0, b)
    <3>1. a + Off(0, l) + 1 = a + 1
      BY <1>1, <1>3
    <3>2. \A j \in 0 .. 0 : j = 0
      OBVIOUS
    <3>3. b <= b
      BY <1>10 DEF Bytes
    <3> QED BY <3>1, <3>2, <3>3 DEF MostOf
  <2> HIDE DEF b
  <2> QED BY <1>0, <1>11, <1>12, <2>1, <2>2, <2>3 DEF Keeps, PoolWin
<1>14. PICK d4 : PoolWin(P[1], s, l, in, from, to, f, P[15], x0, a, o, to + e, l.k * l.k - 1, d4)
  <2>1. o \in 0 .. OutLen(l) /\ WindowIn(l, a)
    BY <1>1, <1>2 DEF WindowIn
  <2> QED BY <1>1, <1>5, <1>13, <2>1, PoolTaps
<1> DEFINE v == d4.regs[4]
<1>15. /\ Has(P[1], s, P[15], d4, to, f, o) /\ d4.acc = 0 /\ d4.voted = TRUE
       /\ d4.regs[0] = x0 /\ d4.regs[1] = from + a /\ d4.regs[3] = to + o /\ d4.regs[7] = to + e
       /\ MostOf(l, in, a, l.k * l.k - 1, v)
  BY <1>14 DEF PoolWin
<1>16. v = f[o + 1] /\ v \in Bytes
  <2>1. \A t \in 0 .. l.k * l.k - 1 : in[a + Off(t, l) + 1] \in Bytes
    BY <1>1, Zenon DEF Ready
  <2> HIDE DEF v
  <2>2. TapsFit(l, in, a)
    BY <1>1, <2>1 DEF Bytes, TapsFit
  <2>3. f[o + 1] = v
    <3>1. EvalSays(l, in, o, v)
      BY <1>15, <2>2, PoolIs
    <3> QED BY <3>1 DEF EvalSays
  <2>4. v \in Bytes
    BY <1>15, <2>1 DEF MostOf
  <2> QED BY <2>3, <2>4
<1> DEFINE d5 == Poke(d4, to + o, v)
<1>17. Goes(P[15], d4, P[16], d5) /\ Ok(d5)
  <2>1. to + o < AddrSize
    BY <1>1, <1>2
  <2>2. to + o # MMIO_TX
    <3>1. MMIO_TX \notin to .. to + OutLen(l) - 1
      BY DEF Ready
    <3> QED BY <1>1, <1>2, <3>1
  <2>3. d4.regs[4] < 256
    BY <1>16 DEF Bytes
  <2>4. Ok(d4)
    BY <1>15 DEF Has
  <2>5. /\ Goes(P[15], d4, P[16], Poke(d4, d4.regs[3], d4.regs[4])) /\ Ok(Poke(d4, d4.regs[3], d4.regs[4]))
    BY <1>0, <1>5, <1>15, <2>1, <2>2, <2>3, <2>4, StrGoes
  <2> QED BY <1>15, <2>5
<1>18. Same(Poke(Hold(d4, 0), to + o, v), d5, {})
  <2>1. Hold(d4, 0) = d4
    BY <1>15 DEF Hold, Shot, Has, Ok
  <2> QED BY <2>1 DEF Same, d5
<1>19. /\ d5.regs = d4.regs /\ d5.acc = 0 /\ d5.voted = TRUE
  BY <1>15 DEF Poke, Shot
<1> HIDE DEF d5, v
<1>20. Filled(s, d5, to, f, o + 1)
  <2>1. to + o < AddrSize
    BY <1>1, <1>2
  <2>2. Ok(d4) /\ Filled(s, d4, to, f, o)
    BY <1>15 DEF Has
  <2> QED BY <1>1, <1>2, <1>16, <1>18, <2>1, <2>2, FilledNext
<1>21. /\ Has(P[1], s, P[16], d5, to, f, o + 1) /\ d5.regs[3] = to + o
       /\ d5.regs[0] = x0 /\ d5.regs[1] = from + a /\ d5.regs[7] = to + e
  <2>1. Goes(P[1], s, P[16], d5)
    BY <1>15, <1>17, GoesTrans DEF Has
  <2>2. Has(P[1], s, P[16], d5, to, f, o + 1)
    BY <1>17, <1>20, <2>1 DEF Has
  <2> QED BY <1>0, <1>15, <1>19, <2>2
<1>22. PICK d6 : Passes(P[16], d5, P[17], d6, {3}) /\ d6.regs[3] = to + o + 1
  <2>1. d5.regs[3] + 1 \in Words
    BY <1>1, <1>2, <1>21 DEF Words
  <2>2. Gives(P[16], d5, P[17], {3}, 3, d5.regs[3] + 1)
    BY <1>0, <1>5, <1>21, <2>1, AddiMoves DEF Has
  <2> QED BY <1>21, <2>2 DEF Gives
<1>23. /\ Has(P[1], s, P[17], d6, to, f, o + 1) /\ d6.acc = 0 /\ d6.voted = TRUE
       /\ d6.regs[0] = x0 /\ d6.regs[1] = from + a /\ d6.regs[7] = to + e
  <2>1. Has(P[1], s, P[17], d6, to, f, o + 1) /\ Keeps(d5, d6, {3})
    BY <1>21, <1>22, HasMoves
  <2> QED BY <1>0, <1>19, <1>21, <2>1 DEF Keeps
<1>24. PICK u : Passes(P[17], d6, P[18], u, {1}) /\ u.regs[1] = from + a + l.k
  <2>1. d6.regs[1] + l.k \in Words
    BY <1>1, <1>2, <1>3, <1>23 DEF Words
  <2>2. Gives(P[17], d6, P[18], {1}, 1, d6.regs[1] + l.k)
    BY <1>0, <1>3, <1>5, <1>23, <2>1, AddiMoves DEF Has
  <2> QED BY <1>23, <2>2 DEF Gives
<1>25. /\ Has(P[1], s, P[18], u, to, f, o + 1) /\ u.acc = 0 /\ u.voted = TRUE
       /\ u.regs[0] = x0 /\ u.regs[3] = to + o + 1 /\ u.regs[7] = to + e
  <2>1. Has(P[1], s, P[18], u, to, f, o + 1) /\ Keeps(d6, u, {1})
    BY <1>23, <1>24, HasMoves
  <2> QED BY <1>0, <1>22, <1>23, <2>1 DEF Keeps
<1>26. Has(P[1], s, P[11], u, to, f, o + 1)
  <2>1. Goes(P[18], u, P[11], u)
    BY <1>5, <1>6, <1>25, BrGoes
  <2> QED BY <1>25, <2>1, HasGoes
<1>27. from + a + l.k = from + (a + l.k) /\ to + o + 1 = to + (o + 1)
  BY <1>1, <1>2, <1>3
<1>28. PoolPix(P[1], s, from, to, f, P[11], x0, a + l.k, e, o + 1, u)
  BY <1>24, <1>25, <1>26, <1>27 DEF PoolPix
<1> QED BY <1>28

\* Sums of three numbers.
LEMMA Together ==
  \A a, b, c \in Nat : (a + b) + c = a + (b + c)
  OBVIOUS

\* All the pixels of a row.
LEMMA PoolPixels ==
  ASSUME Sizes, InPlace, NEW n, NEW l, IsPool(l), l.w - l.k + 1 <= 63, l.k <= 63,
         NEW from, NEW to, NEW ws, NEW s, NEW in, Ready(s, l, in, from, to, ws), NEW f, f = EvalLayer(l, in),
         NEW P, PoolAt(n, l, from, to, P), NEW c \in Nat, c < l.c, NEW r \in Nat, r < Oh(l), NEW x0,
         NEW a, a = c * (l.h * l.w) + (r * l.k) * l.w, NEW o, o = c * (Oh(l) * Ow(l)) + r * Ow(l),
         NEW d, PoolPix(P[1], s, from, to, f, P[11], x0, a, o + Ow(l), o, d)
  PROVE  \E u : PoolPix(P[1], s, from, to, f, P[11], x0, a + Ow(l) * l.k, o + Ow(l), o + Ow(l), u)
<1>1. /\ Ow(l) \in Nat /\ l.k \in Nat /\ c * (l.h * l.w) \in Nat /\ (r * l.k) * l.w \in Nat
      /\ c * (Oh(l) * Ow(l)) \in Nat /\ r * Ow(l) \in Nat
  <2>1. /\ Ow(l) \in Nat /\ Oh(l) \in Nat /\ l.w \in Nat /\ l.h \in Nat /\ l.k \in Nat
    BY PlaneSizes DEF IsPool
  <2>2. Oh(l) * Ow(l) \in Nat /\ r * Ow(l) \in Nat /\ l.h * l.w \in Nat /\ r * l.k \in Nat
    BY <2>1, Times
  <2> QED BY <2>1, <2>2, Times
<1> DEFINE y1 == c * (l.h * l.w)
           y2 == (r * l.k) * l.w
           z1 == c * (Oh(l) * Ow(l))
           z2 == r * Ow(l)
           e  == o + Ow(l)
<1>2. /\ y1 \in Nat /\ y2 \in Nat /\ z1 \in Nat /\ z2 \in Nat /\ a = y1 + y2 /\ o = z1 + z2
      /\ PoolPix(P[1], s, from, to, f, P[11], x0, a, e, o, d)
  BY <1>1
<1>3. \A q, b : Pixel(l, c, r, q, b) <=> q \in Nat /\ q < Ow(l) /\ b = z1 + (z2 + q)
  BY DEF Pixel
<1>4. \A q : c * (l.h * l.w) + ((r * l.k) * l.w + q * l.k) = y1 + (y2 + q * l.k)
  OBVIOUS
<1>5. e \in Nat /\ e = o + Ow(l)
  BY <1>1, <1>2
<1> HIDE DEF y1, y2, z1, z2, e
<1> DEFINE S == {q \in 0 .. Ow(l) : \E u : PoolPix(P[1], s, from, to, f, P[11], x0, a + q * l.k, e, o + q, u)}
<1>6. 0 \in S
  <2>1. 0 \in 0 .. Ow(l) /\ a + 0 * l.k = a /\ o + 0 = o
    BY <1>1, <1>2
  <2>2. PoolPix(P[1], s, from, to, f, P[11], x0, a + 0 * l.k, e, o + 0, d)
    BY <1>2, <2>1, Zenon
  <2> QED BY <2>1, <2>2
<1>7. ASSUME NEW q \in 0 .. Ow(l) - 1, q \in S PROVE q + 1 \in S
  <2>1. PICK u : PoolPix(P[1], s, from, to, f, P[11], x0, a + q * l.k, e, o + q, u)
    BY <1>7
  <2>2. q \in Nat /\ q < Ow(l) /\ q + 1 \in 0 .. Ow(l)
    BY <1>1
  <2> DEFINE qk == q * l.k
             a1 == a + qk
             o1 == o + q
  <2>3. qk \in Nat /\ (q + 1) * l.k = qk + l.k
    <3>1. q \in Nat /\ l.k \in Nat
      BY <1>1, <2>2
    <3>2. q * l.k \in Nat /\ (q + 1) * l.k = q * l.k + l.k
      BY <3>1, Times
    <3> QED BY <3>2
  <2>4. PoolPix(P[1], s, from, to, f, P[11], x0, a1, e, o1, u)
    BY <2>1
  <2>5. a1 = y1 + (y2 + q * l.k)
    <3> HIDE DEF qk
    <3>1. a1 = y1 + (y2 + qk)
      BY <1>2, <2>3
    <3> QED BY <3>1 DEF qk
  <2> HIDE DEF qk
  <2>6. o1 = z1 + (z2 + q) /\ o1 < e /\ a1 + l.k = a + (qk + l.k) /\ o1 + 1 = o + (q + 1)
    <3>1. a \in Nat /\ o \in Nat /\ z1 \in Nat /\ z2 \in Nat /\ o = z1 + z2 /\ Ow(l) \in Nat /\ l.k \in Nat
      BY <1>1, <1>2
    <3>2. o1 = z1 + (z2 + q) /\ o1 + 1 = o + (q + 1)
      <4>1. o1 = o + q
        OBVIOUS
      <4> HIDE DEF o1
      <4>2. (z1 + z2) + q = z1 + (z2 + q) /\ (o + q) + 1 = o + (q + 1)
        BY <2>2, <3>1, Together
      <4>3. o1 = z1 + (z2 + q)
        BY <3>1, <4>1, <4>2, Zenon
      <4> QED BY <4>1, <4>2, <4>3, Zenon
    <3>3. a1 + l.k = a + (qk + l.k)
      BY <2>3, <3>1
    <3>4. o1 < e
      BY <1>5, <2>2, <3>1
    <3> QED BY <3>2, <3>3, <3>4
  <2>7. Pixel(l, c, r, q, o1) /\ a1 = c * (l.h * l.w) + ((r * l.k) * l.w + q * l.k)
    BY <1>3, <1>4, <2>2, <2>5, <2>6
  <2> HIDE DEF a1, o1, S
  <2>8. \E v : PoolPix(P[1], s, from, to, f, P[11], x0, a1 + l.k, e, o1 + 1, v)
    BY <1>5, <2>4, <2>6, <2>7, PoolPixel
  <2>9. \E v : PoolPix(P[1], s, from, to, f, P[11], x0, a + (q + 1) * l.k, e, o + (q + 1), v)
    BY <2>3, <2>6, <2>8, Zenon
  <2> QED BY <2>2, <2>9 DEF S
<1> HIDE DEF S
<1>8. Ow(l) \in S
  <2>1. Ow(l) \in 0 .. Ow(l)
    BY <1>1
  <2>2. \A q \in 0 .. Ow(l) : q \in S
    BY <1>1, <1>6, <1>7, Climb
  <2> QED BY <2>1, <2>2
<1> QED BY <1>8 DEF S, e

\* At the row at offset a of a channel that ends before output p, before output o.
PoolRow(m0, s, from, to, f, m, p, a, o, d) ==
  /\ Has(m0, s, m, d, to, f, o) /\ d.acc = 0
  /\ d.regs[0] = to + p /\ d.regs[1] = from + a /\ d.regs[3] = to + o

\* A row.
LEMMA PoolRowGoes ==
  ASSUME Sizes, InPlace, NEW n, NEW l, IsPool(l), l.w - l.k + 1 <= 63, l.k <= 63,
         NEW from, NEW to, NEW ws, NEW s, NEW in, Ready(s, l, in, from, to, ws), NEW f, f = EvalLayer(l, in),
         NEW P, PoolAt(n, l, from, to, P), NEW c \in Nat, c < l.c, NEW r \in Nat, r < Oh(l),
         NEW p, p = c * (Oh(l) * Ow(l)) + Oh(l) * Ow(l),
         NEW a, a = c * (l.h * l.w) + (r * l.k) * l.w, NEW o, o = c * (Oh(l) * Ow(l)) + r * Ow(l),
         NEW d, PoolRow(P[1], s, from, to, f, P[9], p, a, o, d)
  PROVE  \E u : PoolRow(P[1], s, from, to, f, P[9], p, a + l.k * l.w, o + Ow(l), u)
<1>0. 0 \in Regs /\ 1 \in Regs /\ 3 \in Regs /\ 6 \in Regs /\ 7 \in Regs /\ 1 # 6 /\ 7 # 3
  BY DEF Regs
<1> DEFINE far  == l.k * (l.w - Ow(l))
           wide == Ow(l) * l.k
           all  == l.k * l.w
<1>1. /\ Ow(l) \in Nat /\ Ow(l) >= 1 /\ a \in Nat /\ o \in Nat /\ p \in Nat /\ o + Ow(l) <= p /\ p <= OutLen(l)
      /\ far \in Nat /\ wide \in Nat /\ all \in Nat /\ wide + far = all /\ a + all <= InLen(l)
  <2>1. /\ Ow(l) \in Nat /\ Oh(l) \in Nat /\ Ow(l) >= 1 /\ l.k \in Nat /\ l.k >= 1 /\ l.w \in Nat /\ l.h \in Nat /\ l.c \in Nat
        /\ Oh(l) * l.k <= l.h /\ Ow(l) * l.k <= l.w
    BY PlaneSizes DEF IsPool
  <2>2. InLen(l) = l.c * (l.h * l.w) /\ OutLen(l) = l.c * (Oh(l) * Ow(l)) /\ InLen(l) \in Nat /\ OutLen(l) \in Nat
    BY PoolSizes
  <2>3. o \in Nat /\ p \in Nat /\ o + Ow(l) <= p /\ p <= OutLen(l)
    <3> DEFINE op == Oh(l) * Ow(l)
    <3>1. op \in Nat /\ r * Ow(l) \in Nat /\ r * Ow(l) + Ow(l) <= op
      BY <2>1, Rows
    <3>2. OutLen(l) = l.c * op /\ p = c * op + op /\ o = c * op + r * Ow(l)
      BY <2>2
    <3> HIDE DEF op
    <3>3. c * op \in Nat /\ c * op + op <= l.c * op
      BY <2>1, <3>1, Rows
    <3> DEFINE z1 == c * op
               z2 == r * Ow(l)
    <3>4. z1 \in Nat /\ z2 \in Nat /\ z2 + Ow(l) <= op /\ p = z1 + op /\ o = z1 + z2 /\ p <= OutLen(l)
      BY <3>1, <3>2, <3>3
    <3> HIDE DEF z1, z2
    <3> QED BY <2>1, <3>1, <3>4
  <2>4. Ow(l) <= l.w
    <3>1. Ow(l) * 1 <= Ow(l) * l.k /\ Ow(l) * l.k \in Nat
      BY <2>1, Times
    <3> DEFINE z == Ow(l) * l.k
    <3>2. Ow(l) <= z /\ z <= l.w /\ z \in Nat
      BY <2>1, <3>1
    <3> HIDE DEF z
    <3> QED BY <2>1, <3>2
  <2>5. far \in Nat /\ wide \in Nat /\ all \in Nat /\ wide + far = all
    <3> DEFINE b == l.w - Ow(l)
    <3>1. b \in Nat /\ l.w = Ow(l) + b
      BY <2>1, <2>4
    <3> HIDE DEF b
    <3>2. (Ow(l) + b) * l.k = Ow(l) * l.k + b * l.k /\ b * l.k = l.k * b /\ l.k * b \in Nat /\ Ow(l) * l.k \in Nat
          /\ l.w * l.k = l.k * l.w /\ l.k * l.w \in Nat
      BY <2>1, <3>1, Times
    <3>3. far = l.k * b
      BY DEF b
    <3>4. Ow(l) * l.k + l.k * b = l.k * l.w
      BY <3>1, <3>2, Zenon
    <3> QED BY <3>2, <3>3, <3>4
  <2>6. a \in Nat /\ a + all <= InLen(l)
    <3> DEFINE n0 == l.h * l.w
               y  == r * l.k
    <3>1. y \in Nat /\ y + l.k <= l.h
      <4>1. y \in Nat /\ y + l.k <= Oh(l) * l.k /\ Oh(l) * l.k \in Nat
        BY <2>1, Times
      <4> DEFINE z == Oh(l) * l.k
      <4>2. y \in Nat /\ y + l.k <= z /\ z <= l.h /\ z \in Nat
        BY <2>1, <4>1
      <4> HIDE DEF y, z
      <4> QED BY <2>1, <4>2
    <3>2. n0 \in Nat
      BY <2>1, Times
    <3>3. InLen(l) = l.c * n0 /\ a = c * n0 + y * l.w
      BY <2>2
    <3> HIDE DEF y, n0
    <3>4. y * l.w \in Nat /\ y * l.w + all <= n0
      <4>1. y * l.w \in Nat /\ (y + l.k) * l.w = y * l.w + all /\ (y + l.k) * l.w <= l.h * l.w
        BY <2>1, <3>1, Times
      <4> QED BY <4>1 DEF n0
    <3>5. c * n0 \in Nat /\ c * n0 + n0 <= l.c * n0
      BY <2>1, <3>2, Rows
    <3> DEFINE z1 == c * n0
               z2 == y * l.w
    <3>6. z1 \in Nat /\ z2 \in Nat /\ z2 + all <= n0 /\ a = z1 + z2 /\ z1 + n0 <= InLen(l)
      BY <3>3, <3>4, <3>5
    <3> HIDE DEF z1, z2, all
    <3> QED BY <2>2, <2>5, <3>2, <3>6
  <2> QED BY <2>1, <2>3, <2>5, <2>6
<1>2. /\ InLen(l) \in Nat /\ OutLen(l) \in Nat
      /\ from \in Nat /\ to \in Nat /\ AddrSize \in Nat /\ U16 \in Nat /\ AddrSize < U16
      /\ from + InLen(l) <= AddrSize /\ to + OutLen(l) <= AddrSize
  BY PoolSizes
<1>3. /\ Code(P[10], Ahead(7, 3, Ow(l)), P[11]) /\ Code(P[20], Bump(1, far, 6), P[21])
      /\ Code(P[21], Goto("BR", <<"row", n>>), P[22])
  <2>1. Code(P[21], Goto("BR", <<"row", n>>), P[22])
    BY Zenon DEF PoolAt
  <2> QED BY <2>1, PoolPieces
<1>4. /\ Labelled(<<"row", n>>, P[9]) /\ Labelled(<<"row_next", n>>, P[19]) /\ Labelled(<<"chan_next", n>>, P[22])
      /\ Leaves(P[9], 3, 0, <<"chan_next", n>>, P[10]) /\ Leaves(P[11], 3, 7, <<"row_next", n>>, P[12])
      /\ \A v : Goes(P[19], v, P[20], v)
  BY PoolLabels
<1>5. /\ Has(P[1], s, P[9], d, to, f, o) /\ d.acc = 0
      /\ d.regs[0] = to + p /\ d.regs[1] = from + a /\ d.regs[3] = to + o
  BY DEF PoolRow
<1>6. ASSUME NEW d0, PoolPix(P[1], s, from, to, f, P[11], to + p, a, o + Ow(l), o, d0)
      PROVE  \E u : PoolPix(P[1], s, from, to, f, P[11], to + p, a + wide, o + Ow(l), o + Ow(l), u)
  BY <1>6, PoolPixels
<1> HIDE DEF far, wide, all
<1> DEFINE d1 == Vote(d)
<1>7. Passes(P[9], d, P[10], d1, {}) /\ d1.voted = TRUE
  <2>1. ~(d.regs[3] >= d.regs[0])
    BY <1>1, <1>2, <1>5
  <2> QED BY <1>4, <1>5, <2>1 DEF Leaves, Has
<1> HIDE DEF d1
<1>8. /\ Has(P[1], s, P[10], d1, to, f, o) /\ d1.acc = 0
      /\ d1.regs[0] = to + p /\ d1.regs[1] = from + a /\ d1.regs[3] = to + o
  <2>1. Has(P[1], s, P[10], d1, to, f, o) /\ Keeps(d, d1, {})
    BY <1>5, <1>7, HasMoves
  <2> QED BY <1>0, <1>5, <2>1 DEF Keeps
<1>9. PICK d2 : Passes(P[10], d1, P[11], d2, {7}) /\ d2.regs[7] = to + o + Ow(l)
  <2>1. d1.regs[3] + Ow(l) \in Words /\ Ow(l) \in Words
    BY <1>1, <1>2, <1>8 DEF Words
  <2>2. Gives(P[10], d1, P[11], {7}, 7, d1.regs[3] + Ow(l))
    <3>1. Code(P[10], Ahead(7, 3, Ow(l)), P[11]) /\ Ok(d1)
      BY <1>3, <1>8 DEF Has
    <3> QED BY <1>0, <2>1, <3>1, AheadGoes, Zenon
  <2> QED BY <1>8, <2>2 DEF Gives
<1>10. PoolPix(P[1], s, from, to, f, P[11], to + p, a, o + Ow(l), o, d2)
  <2>1. Has(P[1], s, P[11], d2, to, f, o) /\ Keeps(d1, d2, {7})
    BY <1>8, <1>9, HasMoves
  <2>2. to + o + Ow(l) = to + (o + Ow(l))
    BY <1>1, <1>2
  <2> QED BY <1>0, <1>8, <1>9, <2>1, <2>2 DEF Keeps, PoolPix
<1>11. PICK d3 : PoolPix(P[1], s, from, to, f, P[11], to + p, a + wide, o + Ow(l), o + Ow(l), d3)
  BY <1>6, <1>10
<1>12. /\ Has(P[1], s, P[11], d3, to, f, o + Ow(l)) /\ d3.acc = 0
       /\ d3.regs[0] = to + p /\ d3.regs[1] = from + (a + wide) /\ d3.regs[3] = to + (o + Ow(l))
       /\ d3.regs[7] = to + (o + Ow(l))
  BY <1>11 DEF PoolPix
<1> DEFINE d4 == Vote(d3)
<1>13. Passes(P[11], d3, P[19], d4, {}) /\ d4.voted = TRUE
  <2>1. d3.regs[3] >= d3.regs[7]
    BY <1>1, <1>2, <1>12
  <2> QED BY <1>4, <1>12, <2>1 DEF Leaves, Has
<1> HIDE DEF d4
<1>14. /\ Has(P[1], s, P[20], d4, to, f, o + Ow(l)) /\ d4.acc = 0
       /\ d4.regs[0] = to + p /\ d4.regs[1] = from + (a + wide) /\ d4.regs[3] = to + (o + Ow(l))
  <2>1. Has(P[1], s, P[19], d4, to, f, o + Ow(l)) /\ Keeps(d3, d4, {})
    BY <1>12, <1>13, HasMoves
  <2>2. Has(P[1], s, P[20], d4, to, f, o + Ow(l))
    BY <1>4, <2>1, HasGoes
  <2> QED BY <1>0, <1>12, <2>1, <2>2 DEF Keeps
<1>15. PICK u : Passes(P[20], d4, P[21], u, {1, 6}) /\ u.regs[1] = from + (a + wide) + far
  <2>1. d4.regs[1] + far \in Words /\ far \in Words
    BY <1>1, <1>2, <1>14 DEF Words
  <2>2. Ok(d4)
    BY <1>14 DEF Has
  <2>3. Gives(P[20], d4, P[21], {1, 6}, 1, d4.regs[1] + far)
    BY <1>0, <1>3, <2>1, <2>2, BumpGoes
  <2> QED BY <1>14, <2>3 DEF Gives
<1>16. /\ Has(P[1], s, P[21], u, to, f, o + Ow(l)) /\ u.acc = 0 /\ u.voted = TRUE
       /\ u.regs[0] = to + p /\ u.regs[3] = to + (o + Ow(l))
  <2>1. Has(P[1], s, P[21], u, to, f, o + Ow(l)) /\ Keeps(d4, u, {1, 6})
    BY <1>14, <1>15, HasMoves
  <2> QED BY <1>0, <1>13, <1>14, <2>1 DEF Keeps
<1>17. Has(P[1], s, P[9], u, to, f, o + Ow(l))
  <2>1. Goes(P[21], u, P[9], u)
    BY <1>3, <1>4, <1>16, BrGoes
  <2> QED BY <1>16, <2>1, HasGoes
<1>18. from + (a + wide) + far = from + (a + all)
  BY <1>1, <1>2
<1>19. PoolRow(P[1], s, from, to, f, P[9], p, a + all, o + Ow(l), u)
  BY <1>15, <1>16, <1>17, <1>18 DEF PoolRow
<1> QED BY <1>19 DEF all

\* All the rows of a channel.
LEMMA PoolRows ==
  ASSUME Sizes, InPlace, NEW n, NEW l, IsPool(l), l.w - l.k + 1 <= 63, l.k <= 63,
         NEW from, NEW to, NEW ws, NEW s, NEW in, Ready(s, l, in, from, to, ws), NEW f, f = EvalLayer(l, in),
         NEW P, PoolAt(n, l, from, to, P), NEW c \in Nat, c < l.c,
         NEW p, p = c * (Oh(l) * Ow(l)) + Oh(l) * Ow(l),
         NEW a, a = c * (l.h * l.w), NEW o, o = c * (Oh(l) * Ow(l)),
         NEW d, PoolRow(P[1], s, from, to, f, P[9], p, a, o, d)
  PROVE  \E u : PoolRow(P[1], s, from, to, f, P[9], p, a + (Oh(l) * l.k) * l.w, o + Oh(l) * Ow(l), u)
<1>1. Oh(l) \in Nat /\ Ow(l) \in Nat /\ l.w \in Nat /\ l.k \in Nat /\ l.k * l.w \in Nat /\ a \in Nat /\ o \in Nat
  <2>1. Oh(l) \in Nat /\ Ow(l) \in Nat /\ l.w \in Nat /\ l.h \in Nat /\ l.k \in Nat
    BY PlaneSizes DEF IsPool
  <2>2. Oh(l) * Ow(l) \in Nat /\ l.h * l.w \in Nat /\ l.k * l.w \in Nat
    BY <2>1, Times
  <2> QED BY <2>1, <2>2, Times
<1> DEFINE S == {r \in 0 .. Oh(l) :
                   \E u : PoolRow(P[1], s, from, to, f, P[9], p, a + (r * l.k) * l.w, o + r * Ow(l), u)}
<1>2. 0 \in S
  <2>1. 0 \in 0 .. Oh(l) /\ 0 * l.k = 0 /\ 0 * l.w = 0 /\ 0 * Ow(l) = 0 /\ a + 0 = a /\ o + 0 = o
    BY <1>1
  <2>2. PoolRow(P[1], s, from, to, f, P[9], p, a + (0 * l.k) * l.w, o + 0 * Ow(l), d)
    BY <2>1, Zenon
  <2> QED BY <2>1, <2>2
<1>3. ASSUME NEW r \in 0 .. Oh(l) - 1, r \in S PROVE r + 1 \in S
  <2>1. PICK u : PoolRow(P[1], s, from, to, f, P[9], p, a + (r * l.k) * l.w, o + r * Ow(l), u)
    BY <1>3
  <2>2. r \in Nat /\ r < Oh(l) /\ r + 1 \in 0 .. Oh(l)
    BY <1>1
  <2> DEFINE y  == (r * l.k) * l.w
             z  == r * Ow(l)
             a1 == a + y
             o1 == o + z
  <2>3. /\ y \in Nat /\ z \in Nat /\ ((r + 1) * l.k) * l.w = y + l.k * l.w /\ (r + 1) * Ow(l) = z + Ow(l)
    <3>1. r * l.k \in Nat /\ (r + 1) * l.k = r * l.k + l.k /\ (r + 1) * Ow(l) = r * Ow(l) + Ow(l) /\ r * Ow(l) \in Nat
      <4>1. r \in Nat /\ l.k \in Nat /\ Ow(l) \in Nat
        BY <1>1, <2>2
      <4>2. r * l.k \in Nat /\ (r + 1) * l.k = r * l.k + l.k
        BY <4>1, Times
      <4>3. (r + 1) * Ow(l) = r * Ow(l) + Ow(l) /\ r * Ow(l) \in Nat
        BY <4>1, Times
      <4> QED BY <4>2, <4>3
    <3>2. (r * l.k + l.k) * l.w = (r * l.k) * l.w + l.k * l.w /\ (r * l.k) * l.w \in Nat
      BY <1>1, <3>1, Times
    <3> QED BY <3>1, <3>2
  <2>4. /\ a1 = c * (l.h * l.w) + (r * l.k) * l.w /\ o1 = c * (Oh(l) * Ow(l)) + r * Ow(l)
        /\ PoolRow(P[1], s, from, to, f, P[9], p, a1, o1, u) /\ a1 = a + y /\ o1 = o + z
    BY <2>1, Zenon
  <2> HIDE DEF a1, o1, y, z, S
  <2>5. \E v : PoolRow(P[1], s, from, to, f, P[9], p, a1 + l.k * l.w, o1 + Ow(l), v)
    BY <2>2, <2>4, PoolRowGoes
  <2>6. a1 + l.k * l.w = a + ((r + 1) * l.k) * l.w /\ o1 + Ow(l) = o + (r + 1) * Ow(l)
    <3>1. (a + y) + l.k * l.w = a + (y + l.k * l.w) /\ (o + z) + Ow(l) = o + (z + Ow(l))
      BY <1>1, <2>3, Together
    <3> QED BY <2>3, <2>4, <3>1, Zenon
  <2>7. \E v : PoolRow(P[1], s, from, to, f, P[9], p, a + ((r + 1) * l.k) * l.w, o + (r + 1) * Ow(l), v)
    BY <2>5, <2>6, Zenon
  <2> QED BY <2>2, <2>7 DEF S
<1> HIDE DEF S
<1>4. Oh(l) \in S
  <2>1. Oh(l) \in 0 .. Oh(l)
    BY <1>1
  <2>2. \A r \in 0 .. Oh(l) : r \in S
    BY <1>1, <1>2, <1>3, Climb
  <2> QED BY <2>1, <2>2
<1> QED BY <1>4 DEF S

\* At the channel at offset a, before output o.
PoolTop(m0, s, from, to, f, m, a, o, d) ==
  /\ Has(m0, s, m, d, to, f, o) /\ d.acc = 0
  /\ d.regs[0] = to + o /\ d.regs[1] = from + a /\ d.regs[3] = to + o

\* A channel.
LEMMA PoolChan ==
  ASSUME Sizes, InPlace, NEW n, NEW l, IsPool(l), l.w - l.k + 1 <= 63, l.k <= 63,
         NEW from, NEW to, NEW ws, NEW s, NEW in, Ready(s, l, in, from, to, ws), NEW f, f = EvalLayer(l, in),
         NEW P, PoolAt(n, l, from, to, P), NEW c \in Nat, c < l.c,
         NEW a, a = c * (l.h * l.w), NEW o, o = c * (Oh(l) * Ow(l)),
         NEW d, PoolTop(P[1], s, from, to, f, P[4], a, o, d)
  PROVE  \E u : PoolTop(P[1], s, from, to, f, P[4], a + l.h * l.w, o + Oh(l) * Ow(l), u)
<1>0. /\ 0 \in Regs /\ 1 \in Regs /\ 3 \in Regs /\ 5 \in Regs /\ 6 \in Regs /\ 3 # 5 /\ 0 # 6 /\ 1 # 6
  BY DEF Regs
<1> DEFINE op  == Oh(l) * Ow(l)
           hw  == l.h * l.w
           all == to + OutLen(l)
           done == (Oh(l) * l.k) * l.w
           rest == (l.h - l.k * Oh(l)) * l.w
           p   == o + op
<1>1. /\ op \in Nat /\ hw \in Nat /\ o \in Nat /\ a \in Nat /\ op >= 1 /\ o + op <= OutLen(l) /\ a + hw <= InLen(l)
      /\ done \in Nat /\ rest \in Nat /\ done + rest = hw
  <2>1. /\ Ow(l) \in Nat /\ Oh(l) \in Nat /\ Ow(l) >= 1 /\ Oh(l) >= 1 /\ l.k \in Nat /\ l.c \in Nat
        /\ l.h \in Nat /\ l.w \in Nat /\ Oh(l) * l.k <= l.h
    BY PlaneSizes DEF IsPool
  <2>2. InLen(l) = l.c * hw /\ OutLen(l) = l.c * op
    BY PoolSizes
  <2>3. op \in Nat /\ hw \in Nat /\ 1 * Ow(l) <= op
    BY <2>1, Times
  <2>4. done \in Nat /\ rest \in Nat /\ done + rest = hw
    <3> DEFINE y == Oh(l) * l.k
               z == l.h - l.k * Oh(l)
    <3>1. l.k * Oh(l) = y /\ y \in Nat
      BY <2>1, Times
    <3>2. z \in Nat /\ y + z = l.h
      <4>1. z = l.h - y /\ y <= l.h
        BY <2>1, <3>1
      <4> HIDE DEF y, z
      <4> QED BY <2>1, <3>1, <4>1
    <3>3. done = y * l.w /\ rest = z * l.w
      OBVIOUS
    <3> HIDE DEF y, z, done, rest
    <3>4. (y + z) * l.w = y * l.w + z * l.w /\ y * l.w \in Nat /\ z * l.w \in Nat
      BY <2>1, <3>1, <3>2, Times
    <3> QED BY <3>2, <3>3, <3>4
  <2>5. o = c * op /\ a = c * hw
    OBVIOUS
  <2> HIDE DEF op, hw, done, rest
  <2>6. c * op \in Nat /\ c * op + op <= l.c * op /\ c * hw \in Nat /\ c * hw + hw <= l.c * hw
    BY <2>1, <2>3, Rows
  <2>7. o \in Nat /\ a \in Nat /\ o + op <= OutLen(l) /\ a + hw <= InLen(l)
    BY <2>2, <2>5, <2>6, Zenon
  <2>8. op >= 1
    BY <2>1, <2>3
  <2> QED BY <2>3, <2>4, <2>7, <2>8
<1>2. /\ InLen(l) \in Nat /\ OutLen(l) \in Nat
      /\ from \in Nat /\ to \in Nat /\ AddrSize \in Nat /\ U16 \in Nat /\ AddrSize < U16
      /\ from + InLen(l) <= AddrSize /\ to + OutLen(l) <= AddrSize
  BY PoolSizes
<1>3. /\ Code(P[5], Lit(5, all), P[6]) /\ Code(P[6], Cmp(3, 5), P[7]) /\ Code(P[7], Goto("BRzp", <<"end", n>>), P[8])
      /\ Code(P[8], Bump(0, op, 6), P[9]) /\ Code(P[23], Bump(1, rest, 6), P[24])
      /\ Code(P[24], Goto("BR", <<"chan", n>>), P[25])
  <2>1. /\ Code(P[5], Lit(5, all), P[6]) /\ Code(P[6], Cmp(3, 5), P[7]) /\ Code(P[7], Goto("BRzp", <<"end", n>>), P[8])
        /\ Code(P[24], Goto("BR", <<"chan", n>>), P[25])
    BY Zenon DEF PoolAt
  <2> QED BY <2>1, PoolPieces
<1>4. /\ Labelled(<<"chan", n>>, P[4]) /\ Labelled(<<"chan_next", n>>, P[22]) /\ Labelled(<<"end", n>>, P[25])
      /\ Leaves(P[9], 3, 0, <<"chan_next", n>>, P[10])
      /\ \A v : Goes(P[4], v, P[5], v) /\ Goes(P[22], v, P[23], v)
  BY PoolLabels
<1>5. /\ Has(P[1], s, P[4], d, to, f, o) /\ d.acc = 0
      /\ d.regs[0] = to + o /\ d.regs[1] = from + a /\ d.regs[3] = to + o
  BY DEF PoolTop
<1>6. ASSUME NEW d0, PoolRow(P[1], s, from, to, f, P[9], p, a, o, d0)
      PROVE  \E u : PoolRow(P[1], s, from, to, f, P[9], p, a + done, o + op, u)
  <2>1. p = c * (Oh(l) * Ow(l)) + Oh(l) * Ow(l)
    OBVIOUS
  <2> HIDE DEF p
  <2> QED BY <1>6, <2>1, PoolRows
<1> HIDE DEF op, hw, done, rest
<1>7. p \in Nat /\ p = o + op /\ o < p /\ p <= OutLen(l)
  BY <1>1
<1> HIDE DEF p
<1>8. Has(P[1], s, P[5], d, to, f, o)
  BY <1>4, <1>5, HasGoes
<1>9. PICK d1 : Passes(P[5], d, P[8], d1, {5})
  <2>1. all \in Words /\ ~(d.regs[3] >= all)
    BY <1>1, <1>2, <1>5 DEF Words
  <2> HIDE DEF all
  <2>2. Ok(d)
    BY <1>8 DEF Has
  <2>3. Limits(P[5], d, 3, all, P[25], P[8])
    BY <1>0, <1>3, <1>4, <2>1, <2>2, LimitGoes, Zenon
  <2> QED BY <2>1, <2>3 DEF Limits, Tests
<1>10. /\ Has(P[1], s, P[8], d1, to, f, o) /\ d1.acc = 0
       /\ d1.regs[0] = to + o /\ d1.regs[1] = from + a /\ d1.regs[3] = to + o
  <2>1. Has(P[1], s, P[8], d1, to, f, o) /\ Keeps(d, d1, {5})
    BY <1>8, <1>9, HasMoves
  <2> QED BY <1>0, <1>5, <2>1 DEF Keeps
<1>11. PICK d2 : Passes(P[8], d1, P[9], d2, {0, 6}) /\ d2.regs[0] = to + o + op
  <2>1. op \in Words /\ d1.regs[0] + op \in Words
    BY <1>1, <1>2, <1>10 DEF Words
  <2>2. Ok(d1)
    BY <1>10 DEF Has
  <2>3. Gives(P[8], d1, P[9], {0, 6}, 0, d1.regs[0] + op)
    BY <1>0, <1>3, <2>1, <2>2, BumpGoes
  <2> QED BY <1>10, <2>3 DEF Gives
<1>12. PoolRow(P[1], s, from, to, f, P[9], p, a, o, d2)
  <2>1. Has(P[1], s, P[9], d2, to, f, o) /\ Keeps(d1, d2, {0, 6})
    BY <1>10, <1>11, HasMoves
  <2>2. to + o + op = to + p
    BY <1>1, <1>2, <1>7
  <2> QED BY <1>0, <1>10, <1>11, <2>1, <2>2 DEF Keeps, PoolRow
<1>13. PICK d3 : PoolRow(P[1], s, from, to, f, P[9], p, a + done, p, d3)
  BY <1>6, <1>7, <1>12
<1>14. /\ Has(P[1], s, P[9], d3, to, f, p) /\ d3.acc = 0
       /\ d3.regs[0] = to + p /\ d3.regs[1] = from + (a + done) /\ d3.regs[3] = to + p
  BY <1>13 DEF PoolRow
<1> DEFINE d4 == Vote(d3)
<1>15. Passes(P[9], d3, P[22], d4, {}) /\ d4.voted = TRUE
  <2>1. d3.regs[3] >= d3.regs[0]
    BY <1>2, <1>7, <1>14
  <2> QED BY <1>4, <1>14, <2>1 DEF Leaves, Has
<1> HIDE DEF d4
<1>16. /\ Has(P[1], s, P[23], d4, to, f, p) /\ d4.acc = 0
       /\ d4.regs[0] = to + p /\ d4.regs[1] = from + (a + done) /\ d4.regs[3] = to + p
  <2>1. Has(P[1], s, P[22], d4, to, f, p) /\ Keeps(d3, d4, {})
    BY <1>14, <1>15, HasMoves
  <2>2. Has(P[1], s, P[23], d4, to, f, p)
    BY <1>4, <2>1, HasGoes
  <2> QED BY <1>0, <1>14, <2>1, <2>2 DEF Keeps
<1>17. PICK u : Passes(P[23], d4, P[24], u, {1, 6}) /\ u.regs[1] = from + (a + done) + rest
  <2>1. rest \in Words /\ d4.regs[1] + rest \in Words
    BY <1>1, <1>2, <1>16 DEF Words
  <2>2. Ok(d4)
    BY <1>16 DEF Has
  <2>3. Gives(P[23], d4, P[24], {1, 6}, 1, d4.regs[1] + rest)
    BY <1>0, <1>3, <2>1, <2>2, BumpGoes
  <2> QED BY <1>16, <2>3 DEF Gives
<1>18. /\ Has(P[1], s, P[24], u, to, f, p) /\ u.acc = 0 /\ u.voted = TRUE
       /\ u.regs[0] = to + p /\ u.regs[3] = to + p
  <2>1. Has(P[1], s, P[24], u, to, f, p) /\ Keeps(d4, u, {1, 6})
    BY <1>16, <1>17, HasMoves
  <2> QED BY <1>0, <1>15, <1>16, <2>1 DEF Keeps
<1>19. Has(P[1], s, P[4], u, to, f, p)
  <2>1. Goes(P[24], u, P[4], u)
    BY <1>3, <1>4, <1>18, BrGoes
  <2> QED BY <1>18, <2>1, HasGoes
<1>20. from + (a + done) + rest = from + (a + hw)
  BY <1>1, <1>2
<1>21. PoolTop(P[1], s, from, to, f, P[4], a + hw, p, u)
  BY <1>17, <1>18, <1>19, <1>20 DEF PoolTop
<1> QED BY <1>7, <1>21 DEF hw, op

\* The kernel of a pool, in place, computes what eval says of its layer.
LEMMA PoolComputes ==
  ASSUME Sizes, InPlace, NEW n, NEW l, IsPool(l), l.w - l.k + 1 <= 63, l.k <= 63,
         NEW from, NEW to, NEW ws, NEW m, NEW k, Code(m, GenPool(n, l, from, to), k)
  PROVE  Computes(m, k, l, from, to, ws)
<1> SUFFICES ASSUME NEW s, NEW in, Ready(s, l, in, from, to, ws), Ok(s), s.acc = 0
             PROVE  \E d : Goes(m, s, k, d) /\ Ok(d) /\ d.acc = 0 /\ Filled(s, d, to, EvalLayer(l, in), OutLen(l))
  BY DEF Computes
<1>0. 0 \in Regs /\ 1 \in Regs /\ 3 \in Regs /\ 5 \in Regs /\ 3 # 5
  BY DEF Regs
<1>1. PICK P : PoolAt(n, l, from, to, P) /\ P[1] = m /\ P[26] = k
  BY PoolCode DEF IsPool
<1> DEFINE f == EvalLayer(l, in)
           op == Oh(l) * Ow(l)
           hw == l.h * l.w
           all == to + OutLen(l)
<1>2. f = EvalLayer(l, in)
  OBVIOUS
<1> HIDE DEF f
<1>3. /\ OutLen(l) \in Nat /\ from \in Nat /\ to \in Nat /\ AddrSize \in Nat /\ U16 \in Nat
      /\ AddrSize < U16 /\ to + OutLen(l) <= AddrSize /\ from + InLen(l) <= AddrSize /\ InLen(l) \in Nat
      /\ OutLen(l) = l.c * op /\ l.c \in Nat /\ op \in Nat /\ hw \in Nat
  <2>1. l.c \in Nat /\ Oh(l) \in Nat /\ Ow(l) \in Nat /\ l.h \in Nat /\ l.w \in Nat
    BY PlaneSizes DEF IsPool
  <2> QED BY <2>1, PoolSizes, Times
<1>4. /\ Code(P[1], Lit(1, from), P[2]) /\ Code(P[2], Lit(3, to), P[3]) /\ Code(P[3], Lit(0, to), P[4])
      /\ Code(P[5], Lit(5, all), P[6]) /\ Code(P[6], Cmp(3, 5), P[7]) /\ Code(P[7], Goto("BRzp", <<"end", n>>), P[8])
  BY <1>1, Zenon DEF PoolAt
<1>5. /\ Labelled(<<"end", n>>, P[25]) /\ \A v : Goes(P[4], v, P[5], v) /\ Goes(P[25], v, P[26], v)
  BY <1>1, PoolLabels
<1>6. Has(P[1], s, P[1], s, to, f, 0)
  BY <1>3, GoesSelf, FilledNone DEF Has
<1>7. from \in Words /\ to \in Words
  BY <1>3 DEF Words
<1>8. PICK d1 : Passes(P[1], s, P[2], d1, {1}) /\ d1.regs[1] = from
  <2>1. Gives(P[1], s, P[2], {1}, 1, from)
    BY <1>0, <1>4, <1>7, LitGoes
  <2> QED BY <2>1 DEF Gives
<1>9. Has(P[1], s, P[2], d1, to, f, 0) /\ Keeps(s, d1, {1})
  BY <1>6, <1>8, HasMoves
<1>10. PICK d2 : Passes(P[2], d1, P[3], d2, {3}) /\ d2.regs[3] = to
  <2>1. Gives(P[2], d1, P[3], {3}, 3, to)
    BY <1>0, <1>4, <1>7, <1>9, LitGoes DEF Has
  <2> QED BY <2>1 DEF Gives
<1>11. Has(P[1], s, P[3], d2, to, f, 0) /\ Keeps(d1, d2, {3})
  BY <1>9, <1>10, HasMoves
<1>12. PICK d3 : Passes(P[3], d2, P[4], d3, {0}) /\ d3.regs[0] = to
  <2>1. Gives(P[3], d2, P[4], {0}, 0, to)
    BY <1>0, <1>4, <1>7, <1>11, LitGoes DEF Has
  <2> QED BY <2>1 DEF Gives
<1>13. Has(P[1], s, P[4], d3, to, f, 0) /\ Keeps(d2, d3, {0})
  BY <1>11, <1>12, HasMoves
<1>14. d3.acc = 0 /\ d3.regs[0] = to /\ d3.regs[1] = from /\ d3.regs[3] = to
  <2>1. d3.regs[1] = d2.regs[1] /\ d3.regs[3] = d2.regs[3] /\ d2.regs[1] = d1.regs[1]
    BY <1>0, <1>11, <1>13 DEF Keeps
  <2>2. d3.acc = 0
    BY <1>9, <1>11, <1>13 DEF Keeps
  <2> QED BY <1>8, <1>10, <1>12, <2>1, <2>2
<1> HIDE DEF op, hw
<1> DEFINE S == {c \in 0 .. l.c : \E d : PoolTop(P[1], s, from, to, f, P[4], c * hw, c * op, d)}
<1>15. 0 \in S
  <2>1. 0 * hw = 0 /\ 0 * op = 0 /\ to + 0 = to /\ from + 0 = from /\ 0 \in 0 .. l.c
    BY <1>3
  <2>2. PoolTop(P[1], s, from, to, f, P[4], 0 * hw, 0 * op, d3)
    BY <1>13, <1>14, <2>1, Zenon DEF PoolTop
  <2> QED BY <2>1, <2>2
<1>16. ASSUME NEW c \in 0 .. l.c - 1, c \in S PROVE c + 1 \in S
  <2>1. PICK d : PoolTop(P[1], s, from, to, f, P[4], c * hw, c * op, d)
    BY <1>16
  <2>2. c \in Nat /\ c < l.c /\ c + 1 \in 0 .. l.c
    BY <1>3
  <2>3. (c + 1) * hw = c * hw + hw /\ (c + 1) * op = c * op + op
    BY <1>3, <2>2, Times
  <2> HIDE DEF S
  <2>4. \E v : PoolTop(P[1], s, from, to, f, P[4], c * hw + hw, c * op + op, v)
    <3> DEFINE a1 == c * hw
               o1 == c * op
    <3>1. a1 = c * (l.h * l.w) /\ o1 = c * (Oh(l) * Ow(l)) /\ PoolTop(P[1], s, from, to, f, P[4], a1, o1, d)
      BY <2>1, Zenon DEF hw, op
    <3> HIDE DEF a1, o1
    <3>2. \E v : PoolTop(P[1], s, from, to, f, P[4], a1 + l.h * l.w, o1 + Oh(l) * Ow(l), v)
      BY <1>1, <1>2, <2>2, <3>1, PoolChan
    <3> QED BY <3>2, Zenon DEF a1, o1, hw, op
  <2>5. \E v : PoolTop(P[1], s, from, to, f, P[4], (c + 1) * hw, (c + 1) * op, v)
    BY <2>3, <2>4, Zenon
  <2> QED BY <2>2, <2>5 DEF S
<1> HIDE DEF S
<1>17. l.c \in S
  <2>1. l.c \in 0 .. l.c
    BY <1>3
  <2>2. \A c \in 0 .. l.c : c \in S
    BY <1>3, <1>15, <1>16, Climb
  <2> QED BY <2>1, <2>2
<1>18. PICK d : Has(P[1], s, P[4], d, to, f, OutLen(l)) /\ d.acc = 0 /\ d.regs[3] = to + OutLen(l)
  BY <1>3, <1>17 DEF S, PoolTop
<1>19. Has(P[1], s, P[5], d, to, f, OutLen(l))
  BY <1>5, <1>18, HasGoes
<1>20. PICK e : Passes(P[5], d, P[25], e, {5})
  <2>1. all \in Words /\ d.regs[3] >= all
    BY <1>3, <1>18 DEF Words
  <2> HIDE DEF all
  <2>2. Ok(d)
    BY <1>18 DEF Has
  <2>3. Limits(P[5], d, 3, all, P[25], P[8])
    BY <1>0, <1>4, <1>5, <2>1, <2>2, LimitGoes, Zenon
  <2> QED BY <2>1, <2>3 DEF Limits, Tests
<1>21. Has(P[1], s, P[26], e, to, f, OutLen(l)) /\ e.acc = 0
  <2>1. Has(P[1], s, P[25], e, to, f, OutLen(l)) /\ Keeps(d, e, {5})
    BY <1>19, <1>20, HasMoves
  <2>2. Has(P[1], s, P[26], e, to, f, OutLen(l))
    BY <1>5, <2>1, HasGoes
  <2> QED BY <1>18, <2>1, <2>2 DEF Keeps
<1> QED BY <1>1, <1>21 DEF Has, f

\* What check lets through, as far as the kernel of a layer relies on it.
Runnable(l) ==
  /\ IsLayer(l)
  /\ l.kind # "Dense" => StepsFit(l)
  /\ l.kind # "Pool"  => SumFits(l)
  /\ l.kind = "Conv"  => l.k >= 1

\* The kernel of a layer, of whatever kind, computes what eval says: started on its
\* input and its weights, it comes to its end with exactly its outputs stored, having
\* read nothing that was not put there (graph_compiler.rs:340-551).
THEOREM KernelComputes ==
  ASSUME Sizes, InPlace, NEW n, NEW l, Runnable(l), NEW from, NEW to, NEW ws,
         NEW m, NEW k, Code(m, Kernel(n, l, from, to, ws), k)
  PROVE  Computes(m, k, l, from, to, ws)
<1>1. IsLayer(l) /\ IMM_MAX = 63
  BY DEF Runnable, Sizes
<1>2. CASE l.kind = "Dense"
  <2>1. Code(m, GenDense(n, l, from, to, ws), k) /\ SumFits(l)
    BY <1>2 DEF Kernel, Runnable
  <2> QED BY <1>1, <1>2, <2>1, DenseComputes
<1>3. CASE l.kind = "Conv"
  <2>1. Code(m, GenConv(n, l, from, to, ws), k) /\ SumFits(l) /\ IsPlane(l) /\ l.w - l.k + 1 <= 63
    BY <1>1, <1>3 DEF Kernel, Runnable, IsPlane, StepsFit
  <2> QED BY <1>3, <2>1, ConvComputes
<1>4. CASE l.kind = "Pool"
  <2>1. Code(m, GenPool(n, l, from, to), k) /\ IsPool(l) /\ l.w - l.k + 1 <= 63 /\ l.k <= 63
    BY <1>1, <1>4 DEF Kernel, Runnable, IsPlane, IsPool, StepsFit, IsLayer
  <2> QED BY <2>1, PoolComputes
<1> QED BY <1>1, <1>2, <1>3, <1>4 DEF IsLayer

-----------------------------------------------------------------------------
(* The epilogue.                                                            *)
\* Its last two lines.
LEMMA Returns == \A a, b : KnownCode(<<Ins("RET", a), Ins("RET", b)>>)
<1>1. \A a, b : <<Ins("RET", a), Ins("RET", b)>> = <<Ins("RET", a)>> \o <<Ins("RET", b)>>
  OBVIOUS
<1> QED BY <1>1, Written, InsKnown, KnownCat

\* The pieces of the epilogue.
EmitAt(from, n, P) ==
  /\ Code(P[1], Lit(2, MMIO_TX), P[2])
  /\ Code(P[2], Lit(3, n + 1), P[3])
  /\ Code(P[3], Str(3, 2), P[4])
  /\ Code(P[4], Lit(0, from), P[5])
  /\ Code(P[5], Lit(1, from + n), P[6])
  /\ Code(P[6], Lit(4, 0), P[7])
  /\ Code(P[7], Lit(5, 0), P[8])
  /\ Code(P[8], Lit(6, 0), P[9])
  /\ Code(P[9], While(<<"Lemit", 0>>, 0, 1, <<"Lemit_done", 0>>), P[10])
  /\ Code(P[10], Ldr(7, 0), P[11])
  /\ Code(P[11], Str(7, 2), P[12])
  /\ Code(P[12], Cmp(7, 4), P[13])
  /\ Code(P[13], Goto("BRnz", <<"Lemit_next", 0>>), P[14])
  /\ Code(P[14], Addi(4, 7, 0), P[15])
  /\ Code(P[15], Addi(5, 6, 0), P[16])
  /\ Code(P[16], Here(<<"Lemit_next", 0>>), P[17])
  /\ Code(P[17], Addi(6, 6, 1), P[18])
  /\ Code(P[18], Addi(0, 0, 1), P[19])
  /\ Code(P[19], Goto("BR", <<"Lemit", 0>>), P[20])
  /\ Code(P[20], Here(<<"Lemit_done", 0>>), P[21])
  /\ Code(P[21], Str(5, 2), P[22])
  /\ Code(P[22], <<Ins("RET", << >>), Ins("RET", << >>)>>, P[23])

\* They lie one after the other in its text.
LEMMA EmitCode ==
  ASSUME NEW from, NEW n, NEW m, NEW k, Code(m, Epilogue(from, n), k)
  PROVE  \E P : EmitAt(from, n, P) /\ P[1] = m /\ P[23] = k
<1> DEFINE b1 == Lit(2, MMIO_TX)
           b2 == Lit(3, n + 1)
           b3 == Str(3, 2)
           b4 == Lit(0, from)
           b5 == Lit(1, from + n)
           b6 == Lit(4, 0)
           b7 == Lit(5, 0)
           b8 == Lit(6, 0)
           b9 == While(<<"Lemit", 0>>, 0, 1, <<"Lemit_done", 0>>)
           b10 == Ldr(7, 0)
           b11 == Str(7, 2)
           b12 == Cmp(7, 4)
           b13 == Goto("BRnz", <<"Lemit_next", 0>>)
           b14 == Addi(4, 7, 0)
           b15 == Addi(5, 6, 0)
           b16 == Here(<<"Lemit_next", 0>>)
           b17 == Addi(6, 6, 1)
           b18 == Addi(0, 0, 1)
           b19 == Goto("BR", <<"Lemit", 0>>)
           b20 == Here(<<"Lemit_done", 0>>)
           b21 == Str(5, 2)
           b22 == <<Ins("RET", << >>), Ins("RET", << >>)>>
<1>1. /\ KnownCode(b1) /\ KnownCode(b2) /\ KnownCode(b3) /\ KnownCode(b4) /\ KnownCode(b5) /\ KnownCode(b6)
      /\ KnownCode(b7) /\ KnownCode(b8) /\ KnownCode(b9) /\ KnownCode(b10) /\ KnownCode(b11) /\ KnownCode(b12)
      /\ KnownCode(b13) /\ KnownCode(b14) /\ KnownCode(b15) /\ KnownCode(b16) /\ KnownCode(b17) /\ KnownCode(b18)
      /\ KnownCode(b19) /\ KnownCode(b20) /\ KnownCode(b21) /\ KnownCode(b22)
  <2>1. KnownCode(b22)
    BY Returns
  <2> QED BY <2>1, Pieces, WhileKnown, MarkKnown
<1>2. Code(m, b1 \o b2 \o b3 \o b4 \o b5 \o b6 \o b7 \o b8 \o b9 \o b10 \o b11 \o b12 \o b13 \o b14 \o b15 \o b16 \o b17 \o b18 \o b19 \o b20 \o b21 \o b22, k)
  BY Zenon DEF Epilogue
<1> HIDE DEF b1, b2, b3, b4, b5, b6, b7, b8, b9, b10, b11, b12, b13, b14, b15, b16, b17, b18, b19, b20, b21, b22
<1> DEFINE a2 == b1 \o b2
           a6 == a2 \o b3 \o b4 \o b5 \o b6
           a10 == a6 \o b7 \o b8 \o b9 \o b10
           a14 == a10 \o b11 \o b12 \o b13 \o b14
           a18 == a14 \o b15 \o b16 \o b17 \o b18
<1>3. KnownCode(a2)
  BY <1>1, KnownCat
<1>4. KnownCode(a6)
  <2> HIDE DEF a2
  <2> QED BY <1>1, <1>3, KnownCat
<1>5. KnownCode(a10)
  <2> HIDE DEF a6
  <2> QED BY <1>1, <1>4, KnownCat
<1>6. KnownCode(a14)
  <2> HIDE DEF a10
  <2> QED BY <1>1, <1>5, KnownCat
<1>7. KnownCode(a18)
  <2> HIDE DEF a14
  <2> QED BY <1>1, <1>6, KnownCat
<1>8. PICK p19, p20, p21, p22 : /\ Code(m, a18, p19) /\ Code(p19, b19, p20) /\ Code(p20, b20, p21)
        /\ Code(p21, b21, p22) /\ Code(p22, b22, k)
  <2>1. Code(m, a18 \o b19 \o b20 \o b21 \o b22, k)
    BY <1>2
  <2> HIDE DEF a18
  <2> QED BY <1>1, <1>7, <2>1, CodeFive
<1>9. PICK p15, p16, p17, p18 : /\ Code(m, a14, p15) /\ Code(p15, b15, p16) /\ Code(p16, b16, p17)
        /\ Code(p17, b17, p18) /\ Code(p18, b18, p19)
  <2>1. Code(m, a14 \o b15 \o b16 \o b17 \o b18, p19)
    BY <1>8
  <2> HIDE DEF a14
  <2> QED BY <1>1, <1>6, <2>1, CodeFive
<1>10. PICK p11, p12, p13, p14 : /\ Code(m, a10, p11) /\ Code(p11, b11, p12) /\ Code(p12, b12, p13)
        /\ Code(p13, b13, p14) /\ Code(p14, b14, p15)
  <2>1. Code(m, a10 \o b11 \o b12 \o b13 \o b14, p15)
    BY <1>9
  <2> HIDE DEF a10
  <2> QED BY <1>1, <1>5, <2>1, CodeFive
<1>11. PICK p7, p8, p9, p10 : /\ Code(m, a6, p7) /\ Code(p7, b7, p8) /\ Code(p8, b8, p9)
        /\ Code(p9, b9, p10) /\ Code(p10, b10, p11)
  <2>1. Code(m, a6 \o b7 \o b8 \o b9 \o b10, p11)
    BY <1>10
  <2> HIDE DEF a6
  <2> QED BY <1>1, <1>4, <2>1, CodeFive
<1>12. PICK p3, p4, p5, p6 : /\ Code(m, a2, p3) /\ Code(p3, b3, p4) /\ Code(p4, b4, p5)
        /\ Code(p5, b5, p6) /\ Code(p6, b6, p7)
  <2>1. Code(m, a2 \o b3 \o b4 \o b5 \o b6, p7)
    BY <1>11
  <2> HIDE DEF a2
  <2> QED BY <1>1, <1>3, <2>1, CodeFive
<1>13. PICK p2 : Code(m, b1, p2) /\ Code(p2, b2, p3)
  <2>1. Code(m, b1 \o b2, p3)
    BY <1>12
  <2> QED BY <1>1, <2>1, CodeCat
<1> DEFINE P == <<m, p2, p3, p4, p5, p6, p7, p8, p9, p10, p11, p12, p13, p14, p15, p16, p17, p18, p19, p20, p21, p22, k>>
<1>14. /\ P[1] = m /\ P[2] = p2 /\ P[3] = p3 /\ P[4] = p4 /\ P[5] = p5 /\ P[6] = p6 /\ P[7] = p7
       /\ P[8] = p8 /\ P[9] = p9 /\ P[10] = p10 /\ P[11] = p11 /\ P[12] = p12 /\ P[13] = p13 /\ P[14] = p14
       /\ P[15] = p15 /\ P[16] = p16 /\ P[17] = p17 /\ P[18] = p18 /\ P[19] = p19 /\ P[20] = p20 /\ P[21] = p21
       /\ P[22] = p22 /\ P[23] = k
  OBVIOUS
<1> HIDE DEF P
<1>15. EmitAt(from, n, P)
  BY <1>8, <1>9, <1>10, <1>11, <1>12, <1>13, <1>14
     DEF EmitAt, b1, b2, b3, b4, b5, b6, b7, b8, b9, b10, b11, b12, b13, b14, b15, b16, b17, b18, b19, b20, b21, b22
<1> QED BY <1>14, <1>15

\* The scores, n of them from address from: the bytes f.
Scores(c, from, n, f) ==
  /\ n \in Nat /\ n >= 1 /\ n + 1 <= 255 /\ from \in Nat /\ from + n <= AddrSize
  /\ \A o \in 1 .. n : f[o] \in Bytes /\ c.mem[from + o - 1] = f[o] /\ Readable(c, from + o - 1)

\* The length and j scores have been sent.
Told(d, f, n, j) == Len(d.out) = j + 1 /\ d.out[1] = n + 1 /\ \A o \in 1 .. j : d.out[o + 1] = f[o]

\* Of the first j scores the first of the largest has index b and is v; 0 and 0 as
\* long as they are all 0.
Best(f, j, b, v) ==
  \/ b = 0 /\ v = 0 /\ \A o \in 1 .. j : f[o] = 0
  \/ b \in 0 .. j - 1 /\ f[b + 1] = v /\ \A o \in 1 .. j : f[o] < v \/ (f[o] = v /\ b + 1 <= o)

\* At score j, with c at the first line and d here.
AtScore(c, from, n, f, P, j, d) ==
  /\ Goes(P[1], c, P[9], d) /\ Ok(d) /\ Told(d, f, n, j) /\ d.mem = c.mem /\ d.written = c.written
  /\ d.regs[0] = from + j /\ d.regs[1] = from + n /\ d.regs[2] = MMIO_TX /\ d.regs[6] = j
  /\ Best(f, j, d.regs[5], d.regs[4])

\* The labels of the epilogue.
LEMMA EmitLabels ==
  ASSUME Sizes, InPlace, NEW from, NEW n, NEW P, EmitAt(from, n, P)
  PROVE  /\ Labelled(<<"Lemit", 0>>, P[9]) /\ Leaves(P[9], 0, 1, <<"Lemit_done", 0>>, P[10])
         /\ Labelled(<<"Lemit_next", 0>>, P[16]) /\ Labelled(<<"Lemit_done", 0>>, P[20])
         /\ \A c : Goes(P[16], c, P[17], c) /\ Goes(P[20], c, P[21], c)
<1>1. \A s : <<s, 0>> # NoLabel
  BY DEF NoLabel
<1>2. /\ Code(P[16], Here(<<"Lemit_next", 0>>), P[17]) /\ Code(P[20], Here(<<"Lemit_done", 0>>), P[21])
      /\ Code(P[9], While(<<"Lemit", 0>>, 0, 1, <<"Lemit_done", 0>>), P[10])
  BY DEF EmitAt
<1>3. Labelled(<<"Lemit_next", 0>>, P[16]) /\ \A c : Goes(P[16], c, P[17], c)
  BY <1>1, <1>2, HereGoes
<1>4. Labelled(<<"Lemit_done", 0>>, P[20]) /\ \A c : Goes(P[20], c, P[21], c)
  BY <1>1, <1>2, HereGoes
<1>5. Labelled(<<"Lemit", 0>>, P[9]) /\ Leaves(P[9], 0, 1, <<"Lemit_done", 0>>, P[10])
  <2>1. 0 \in Regs /\ 1 \in Regs
    BY DEF Regs
  <2> QED BY <1>1, <1>2, <2>1, WhileGoes
<1> QED BY <1>3, <1>4, <1>5

\* A byte is sent.
Sends(m, c, k, v, d) ==
  /\ Goes(m, c, k, d) /\ Ok(d) /\ d.regs = c.regs /\ d.mem = c.mem /\ d.written = c.written /\ d.voted = c.voted
  /\ d.out = Append(c.out, v)

\* STR Rt,Rs to the UART.
LEMMA SendGoes ==
  ASSUME Sizes, InPlace, NEW m, NEW k, NEW rt \in Regs, NEW rs \in Regs, Code(m, Str(rt, rs), k), NEW c, Ok(c),
         NEW v, v = c.regs[rt], v < 256, c.regs[rs] = MMIO_TX
  PROVE  \E d : Sends(m, c, k, v, d)
<1>1. Goes(m, c, k, Send(c, c.regs[rt])) /\ Ok(Send(c, c.regs[rt]))
  BY StrGoes
<1> DEFINE d == Send(c, v)
<1>2. /\ d.regs = c.regs /\ d.mem = c.mem /\ d.written = c.written /\ d.voted = c.voted
      /\ d.out = Append(c.out, v)
  BY DEF Send, Shot
<1>3. Goes(m, c, k, d) /\ Ok(d)
  BY <1>1
<1> HIDE DEF d
<1> QED BY <1>2, <1>3 DEF Sends

\* The start of the epilogue: the length is sent.
LEMMA EmitStart ==
  ASSUME Sizes, InPlace, NEW from, NEW n, NEW P, EmitAt(from, n, P), NEW c, NEW f, Scores(c, from, n, f),
         Ok(c), c.out = << >>
  PROVE  \E d : AtScore(c, from, n, f, P, 0, d)
<1>0. /\ 0 \in Regs /\ 1 \in Regs /\ 2 \in Regs /\ 3 \in Regs /\ 4 \in Regs /\ 5 \in Regs /\ 6 \in Regs
  BY DEF Regs
<1>1. /\ MMIO_TX \in Words /\ n + 1 \in Words /\ from \in Words /\ from + n \in Words /\ 0 \in Words
      /\ n \in Nat /\ n + 1 < 256 /\ from \in Nat
  BY DEF Scores, Sizes, Words, U16
<1>2. /\ Code(P[1], Lit(2, MMIO_TX), P[2]) /\ Code(P[2], Lit(3, n + 1), P[3]) /\ Code(P[3], Str(3, 2), P[4])
      /\ Code(P[4], Lit(0, from), P[5]) /\ Code(P[5], Lit(1, from + n), P[6]) /\ Code(P[6], Lit(4, 0), P[7])
      /\ Code(P[7], Lit(5, 0), P[8]) /\ Code(P[8], Lit(6, 0), P[9])
  BY DEF EmitAt
<1>3. PICK d1 : Passes(P[1], c, P[2], d1, {2}) /\ d1.regs[2] = MMIO_TX
  <2>1. Gives(P[1], c, P[2], {2}, 2, MMIO_TX)
    BY <1>0, <1>1, <1>2, LitGoes
  <2> QED BY <2>1 DEF Gives
<1>4. PICK d2 : Passes(P[2], d1, P[3], d2, {3}) /\ d2.regs[3] = n + 1
  <2>1. Gives(P[2], d1, P[3], {3}, 3, n + 1)
    BY <1>0, <1>1, <1>2, <1>3, LitGoes DEF Passes
  <2> QED BY <2>1 DEF Gives
<1>5. d2.regs[2] = MMIO_TX /\ Ok(d2)
  BY <1>0, <1>3, <1>4 DEF Passes, Same
<1>6. PICK e : Sends(P[3], d2, P[4], n + 1, e)
  BY <1>0, <1>1, <1>2, <1>4, <1>5, SendGoes
<1>7. Ok(e)
  BY <1>6 DEF Sends
<1>8. PICK e1 : Passes(P[4], e, P[5], e1, {0}) /\ e1.regs[0] = from
  <2>1. Gives(P[4], e, P[5], {0}, 0, from)
    BY <1>0, <1>1, <1>2, <1>7, LitGoes
  <2> QED BY <2>1 DEF Gives
<1>9. PICK e2 : Passes(P[5], e1, P[6], e2, {1}) /\ e2.regs[1] = from + n
  <2>1. Gives(P[5], e1, P[6], {1}, 1, from + n)
    BY <1>0, <1>1, <1>2, <1>8, LitGoes DEF Passes
  <2> QED BY <2>1 DEF Gives
<1>10. PICK e3 : Passes(P[6], e2, P[7], e3, {4}) /\ e3.regs[4] = 0
  <2>1. Gives(P[6], e2, P[7], {4}, 4, 0)
    BY <1>0, <1>1, <1>2, <1>9, LitGoes DEF Passes
  <2> QED BY <2>1 DEF Gives
<1>11. PICK e4 : Passes(P[7], e3, P[8], e4, {5}) /\ e4.regs[5] = 0
  <2>1. Gives(P[7], e3, P[8], {5}, 5, 0)
    BY <1>0, <1>1, <1>2, <1>10, LitGoes DEF Passes
  <2> QED BY <2>1 DEF Gives
<1>12. PICK d : Passes(P[8], e4, P[9], d, {6}) /\ d.regs[6] = 0
  <2>1. Gives(P[8], e4, P[9], {6}, 6, 0)
    BY <1>0, <1>1, <1>2, <1>11, LitGoes DEF Passes
  <2> QED BY <2>1 DEF Gives
<1>13. Goes(P[1], c, P[9], d) /\ Ok(d)
  <2>1. Goes(P[1], c, P[3], d2)
    BY <1>3, <1>4, GoesTrans DEF Passes
  <2>2. Goes(P[1], c, P[4], e)
    BY <1>6, <2>1, GoesTrans DEF Sends
  <2>3. Goes(P[1], c, P[5], e1)
    BY <1>8, <2>2, GoesTrans DEF Passes
  <2>4. Goes(P[1], c, P[6], e2)
    BY <1>9, <2>3, GoesTrans DEF Passes
  <2>5. Goes(P[1], c, P[7], e3)
    BY <1>10, <2>4, GoesTrans DEF Passes
  <2>6. Goes(P[1], c, P[8], e4)
    BY <1>11, <2>5, GoesTrans DEF Passes
  <2> QED BY <1>12, <2>6, GoesTrans DEF Passes
<1>14. d2.mem = c.mem /\ d2.written = c.written /\ d2.out = << >>
  BY <1>3, <1>4 DEF Passes, Same
<1>15. e.mem = c.mem /\ e.written = c.written /\ e.out = <<n + 1>> /\ e.regs[2] = MMIO_TX
  BY <1>5, <1>6, <1>14 DEF Sends
<1>16. /\ d.mem = e.mem /\ d.written = e.written /\ d.out = e.out /\ d.regs[2] = e.regs[2]
       /\ d.regs[0] = from /\ d.regs[1] = from + n /\ d.regs[4] = 0 /\ d.regs[5] = 0 /\ d.regs[6] = 0
  <2>1. /\ e2.mem = e.mem /\ e2.written = e.written /\ e2.out = e.out /\ e2.regs[2] = e.regs[2]
        /\ e2.regs[0] = from /\ e2.regs[1] = from + n
    BY <1>0, <1>8, <1>9 DEF Passes, Same
  <2>2. /\ e4.mem = e2.mem /\ e4.written = e2.written /\ e4.out = e2.out /\ e4.regs[2] = e2.regs[2]
        /\ e4.regs[0] = e2.regs[0] /\ e4.regs[1] = e2.regs[1] /\ e4.regs[4] = 0 /\ e4.regs[5] = 0
    BY <1>0, <1>10, <1>11 DEF Passes, Same
  <2> QED BY <1>0, <1>12, <2>1, <2>2 DEF Passes, Same
<1>17. Told(d, f, n, 0)
  <2>1. d.out = <<n + 1>>
    BY <1>15, <1>16
  <2> QED BY <2>1 DEF Told
<1>18. Best(f, 0, d.regs[5], d.regs[4])
  BY <1>16 DEF Best
<1>19. from + 0 = from
  BY <1>1
<1> QED BY <1>13, <1>15, <1>16, <1>17, <1>18, <1>19 DEF AtScore

\* One score more.
LEMMA BestNext ==
  ASSUME NEW f, NEW j \in Nat, NEW b \in Nat, NEW v \in Nat, Best(f, j, b, v),
         \A o \in 1 .. j + 1 : f[o] \in Nat
  PROVE  /\ f[j + 1] <= v => Best(f, j + 1, b, v)
         /\ ~(f[j + 1] <= v) => Best(f, j + 1, j, f[j + 1])
<1>1. (\A o \in 1 .. j + 1 : o \in 1 .. j \/ o = j + 1) /\ f[j + 1] \in Nat
  OBVIOUS
<1>2. CASE f[j + 1] <= v
  <2>1. CASE b = 0 /\ v = 0 /\ \A o \in 1 .. j : f[o] = 0
    <3>1. \A o \in 1 .. j + 1 : f[o] = 0
      BY <1>1, <1>2, <2>1
    <3> QED BY <1>2, <2>1, <3>1 DEF Best
  <2>2. CASE b \in 0 .. j - 1 /\ f[b + 1] = v /\ \A o \in 1 .. j : f[o] < v \/ (f[o] = v /\ b + 1 <= o)
    <3>1. f[j + 1] < v \/ (f[j + 1] = v /\ b + 1 <= j + 1)
      BY <1>2, <2>2
    <3>2. \A o \in 1 .. j + 1 : f[o] < v \/ (f[o] = v /\ b + 1 <= o)
      BY <1>1, <2>2, <3>1
    <3> QED BY <1>2, <2>2, <3>2 DEF Best
  <2> QED BY <2>1, <2>2 DEF Best
<1>3. CASE ~(f[j + 1] <= v)
  <2>1. \A o \in 1 .. j : f[o] < f[j + 1]
    BY <1>1, <1>3 DEF Best
  <2>2. \A o \in 1 .. j + 1 : f[o] < f[j + 1] \/ (f[o] = f[j + 1] /\ j + 1 <= o)
    BY <1>1, <2>1
  <2>3. j \in 0 .. (j + 1) - 1
    OBVIOUS
  <2> QED BY <1>3, <2>2, <2>3 DEF Best
<1> QED BY <1>2, <1>3

\* From m to k the score in register 7, number j, has been compared with the largest.
Weighs(m, c, k, f, j, d) ==
  Passes(m, c, k, d, {4, 5}) /\ d.voted = TRUE /\ Best(f, j + 1, d.regs[5], d.regs[4])

\* The comparison, and what it keeps.
LEMMA EmitWeighs ==
  ASSUME Sizes, InPlace, NEW from, NEW n, NEW P, EmitAt(from, n, P), NEW c, Ok(c), NEW f, NEW j \in Nat,
         c.regs[7] = f[j + 1], c.regs[6] = j, Best(f, j, c.regs[5], c.regs[4]),
         \A o \in 1 .. j + 1 : f[o] \in Nat
  PROVE  \E d : Weighs(P[12], c, P[17], f, j, d)
<1>0. 4 \in Regs /\ 5 \in Regs /\ 6 \in Regs /\ 7 \in Regs /\ "BRnz" \in Conds
  BY DEF Regs, Conds
<1>1. c.regs[4] \in Nat /\ c.regs[5] \in Nat /\ c.regs[7] \in Words /\ f[j + 1] \in Nat /\ j \in Words
  BY <1>0 DEF Ok, Words
<1>2. /\ f[j + 1] <= c.regs[4] => Best(f, j + 1, c.regs[5], c.regs[4])
      /\ ~(f[j + 1] <= c.regs[4]) => Best(f, j + 1, j, f[j + 1])
  BY <1>1, BestNext
<1>3. /\ Code(P[12], Cmp(7, 4), P[13]) /\ Code(P[13], Goto("BRnz", <<"Lemit_next", 0>>), P[14])
      /\ Code(P[14], Addi(4, 7, 0), P[15]) /\ Code(P[15], Addi(5, 6, 0), P[16])
  BY DEF EmitAt
<1>4. Labelled(<<"Lemit_next", 0>>, P[16]) /\ \A e : Goes(P[16], e, P[17], e)
  BY EmitLabels
<1> DEFINE e == Vote(c)
<1>5. /\ Taken("BRnz", c.regs[7], c.regs[4])  => Passes(P[12], c, P[16], e, {})
      /\ ~Taken("BRnz", c.regs[7], c.regs[4]) => Passes(P[12], c, P[14], e, {})
      /\ e.voted = TRUE
  BY <1>0, <1>3, <1>4, CmpMoves
<1>6. Taken("BRnz", c.regs[7], c.regs[4]) <=> f[j + 1] <= c.regs[4]
  BY DEF Taken
<1> HIDE DEF e
<1>7. CASE f[j + 1] <= c.regs[4]
  <2>1. Passes(P[12], c, P[16], e, {})
    BY <1>5, <1>6, <1>7
  <2>2. Passes(P[16], e, P[17], e, {4, 5})
    BY <1>4, <2>1 DEF Passes, Same
  <2>3. Passes(P[12], c, P[17], e, {} \cup {4, 5})
    BY <2>1, <2>2, MovesTrans
  <2>4. e.regs[4] = c.regs[4] /\ e.regs[5] = c.regs[5]
    BY <1>0, <2>1 DEF Passes, Same
  <2>5. {} \cup {4, 5} = {4, 5}
    OBVIOUS
  <2> QED BY <1>2, <1>5, <1>7, <2>3, <2>4, <2>5 DEF Weighs
<1>8. CASE ~(f[j + 1] <= c.regs[4])
  <2>1. Passes(P[12], c, P[14], e, {})
    BY <1>5, <1>6, <1>8
  <2>2. e.regs[7] = f[j + 1] /\ e.regs[6] = j /\ Ok(e)
    BY <1>0, <1>1, <2>1 DEF Passes, Same
  <2>3. PICK d1 : Passes(P[14], e, P[15], d1, {4}) /\ d1.regs[4] = f[j + 1]
    <3>1. e.regs[7] + 0 \in Words /\ e.regs[7] + 0 = f[j + 1]
      BY <1>1, <2>2
    <3>2. Gives(P[14], e, P[15], {4}, 4, e.regs[7] + 0)
      <4>1. e.regs[7] + 0 \in Words
        BY <3>1
      <4>2. Code(P[14], Addi(4, 7, 0), P[15]) /\ Ok(e) /\ 4 \in Regs /\ 7 \in Regs /\ 0 \in Nat /\ 0 <= 63
        BY <1>0, <1>3, <2>2
      <4> QED BY <4>1, <4>2, AddiMoves
    <3> QED BY <3>1, <3>2 DEF Gives
  <2>4. d1.regs[6] = j /\ Ok(d1)
    BY <1>0, <1>1, <2>2, <2>3 DEF Passes, Same
  <2>5. PICK d : Passes(P[15], d1, P[16], d, {5}) /\ d.regs[5] = j
    <3>1. d1.regs[6] + 0 \in Words /\ d1.regs[6] + 0 = j
      BY <1>1, <2>4
    <3>2. Gives(P[15], d1, P[16], {5}, 5, d1.regs[6] + 0)
      <4>1. d1.regs[6] + 0 \in Words
        BY <3>1
      <4>2. Code(P[15], Addi(5, 6, 0), P[16]) /\ Ok(d1) /\ 5 \in Regs /\ 6 \in Regs /\ 0 \in Nat /\ 0 <= 63
        BY <1>0, <1>3, <2>4
      <4> QED BY <4>1, <4>2, AddiMoves
    <3> QED BY <3>1, <3>2 DEF Gives
  <2>6. d.regs[4] = f[j + 1]
    BY <1>0, <2>3, <2>5 DEF Passes, Same
  <2>7. Passes(P[16], d, P[17], d, {})
    BY <1>4, <2>5 DEF Passes, Same
  <2>8. Passes(P[12], c, P[17], d, (({} \cup {4}) \cup {5}) \cup {})
    <3>1. Passes(P[12], c, P[15], d1, {} \cup {4})
      BY <2>1, <2>3, MovesTrans
    <3>2. Passes(P[12], c, P[16], d, ({} \cup {4}) \cup {5})
      BY <2>5, <3>1, MovesTrans
    <3> QED BY <2>7, <3>2, MovesTrans
  <2>9. (({} \cup {4}) \cup {5}) \cup {} = {4, 5}
    OBVIOUS
  <2>10. d.voted = TRUE
    BY <1>5, <2>3, <2>5 DEF Passes, Same
  <2>11. Passes(P[12], c, P[17], d, {4, 5})
    BY <2>8, <2>9
  <2> QED BY <1>2, <1>8, <2>5, <2>6, <2>10, <2>11 DEF Weighs
<1> QED BY <1>7, <1>8

\* One byte more.
LEMMA ToldNext ==
  ASSUME NEW c, NEW d, NEW f, NEW n, NEW j \in Nat, Told(c, f, n, j), c.out \in Seq(Bytes), NEW v, v = f[j + 1],
         v \in Bytes, d.out = Append(c.out, v)
  PROVE  Told(d, f, n, j + 1)
<1>1. /\ Len(d.out) = Len(c.out) + 1 /\ d.out[Len(c.out) + 1] = v
      /\ \A a \in 1 .. Len(c.out) : d.out[a] = c.out[a]
  BY AppendProperties
<1>2. Len(c.out) = j + 1 /\ c.out[1] = n + 1 /\ \A o \in 1 .. j : c.out[o + 1] = f[o]
  BY DEF Told
<1>3. ASSUME NEW o \in 1 .. j + 1 PROVE d.out[o + 1] = f[o]
  <2>1. CASE o \in 1 .. j
    <3>1. o + 1 \in 1 .. Len(c.out)
      BY <1>2, <2>1
    <3> QED BY <1>1, <1>2, <2>1, <3>1
  <2>2. CASE o = j + 1
    <3>1. o + 1 = Len(c.out) + 1
      BY <1>2, <2>2
    <3> QED BY <1>1, <2>2, <3>1
  <2>3. o \in 1 .. j \/ o = j + 1
    OBVIOUS
  <2> QED BY <2>1, <2>2, <2>3
<1>4. d.out[1] = n + 1
  BY <1>1, <1>2
<1>5. Len(d.out) = (j + 1) + 1
  BY <1>1, <1>2
<1> QED BY <1>3, <1>4, <1>5 DEF Told

\* A score is read, sent and weighed.
LEMMA EmitScore ==
  ASSUME Sizes, InPlace, NEW from, NEW n, NEW P, EmitAt(from, n, P), NEW c, NEW f, Scores(c, from, n, f),
         NEW j \in 0 .. n - 1, NEW d, AtScore(c, from, n, f, P, j, d)
  PROVE  \E e : AtScore(c, from, n, f, P, j + 1, e)
<1>0. /\ 0 \in Regs /\ 1 \in Regs /\ 2 \in Regs /\ 4 \in Regs /\ 5 \in Regs /\ 6 \in Regs /\ 7 \in Regs
      /\ 1 \in Nat /\ 1 <= 63
  BY DEF Regs
<1>1. /\ n \in Nat /\ j \in Nat /\ j + 1 \in 1 .. n /\ from \in Nat /\ from + j < AddrSize /\ AddrSize \in Nat
      /\ from + j + 1 \in Words /\ j + 1 \in Words /\ from + (j + 1) - 1 = from + j
  BY DEF Scores, Sizes, Words, U16
<1>2. /\ f[j + 1] \in Bytes /\ f[j + 1] \in Nat /\ f[j + 1] < 256 /\ f[j + 1] \in Words
      /\ c.mem[from + j] = f[j + 1] /\ Readable(c, from + j)
      /\ \A o \in 1 .. j + 1 : f[o] \in Nat
  <2>1. f[j + 1] \in Bytes /\ c.mem[from + j] = f[j + 1] /\ Readable(c, from + j)
    <3>1. f[j + 1] \in Bytes /\ c.mem[from + (j + 1) - 1] = f[j + 1] /\ Readable(c, from + (j + 1) - 1)
      BY <1>1 DEF Scores
    <3> QED BY <1>1, <3>1
  <2>2. \A o \in 1 .. j + 1 : o \in 1 .. n
    BY <1>1
  <2>3. \A o \in 1 .. n : f[o] \in Nat
    BY DEF Scores, Bytes
  <2> QED BY <2>1, <2>2, <2>3 DEF Bytes, Words, U16
<1>3. /\ Goes(P[1], c, P[9], d) /\ Ok(d) /\ Told(d, f, n, j) /\ d.mem = c.mem /\ d.written = c.written
      /\ d.regs[0] = from + j /\ d.regs[1] = from + n /\ d.regs[2] = MMIO_TX /\ d.regs[6] = j
      /\ Best(f, j, d.regs[5], d.regs[4])
  BY DEF AtScore
<1>4. /\ Code(P[10], Ldr(7, 0), P[11]) /\ Code(P[11], Str(7, 2), P[12])
      /\ Code(P[17], Addi(6, 6, 1), P[18]) /\ Code(P[18], Addi(0, 0, 1), P[19])
      /\ Code(P[19], Goto("BR", <<"Lemit", 0>>), P[20])
  BY DEF EmitAt
<1>5. /\ Labelled(<<"Lemit", 0>>, P[9]) /\ Leaves(P[9], 0, 1, <<"Lemit_done", 0>>, P[10])
      /\ Labelled(<<"Lemit_done", 0>>, P[20])
  BY EmitLabels
<1> DEFINE d0 == Vote(d)
<1>6. Passes(P[9], d, P[10], d0, {})
  <2>1. ~(d.regs[0] >= d.regs[1])
    BY <1>1, <1>3
  <2> QED BY <1>3, <1>5, <2>1 DEF Leaves
<1> HIDE DEF d0
<1>7. /\ Ok(d0) /\ d0.mem = c.mem /\ d0.written = c.written /\ d0.out = d.out
      /\ d0.regs[0] = from + j /\ d0.regs[1] = from + n /\ d0.regs[2] = MMIO_TX /\ d0.regs[6] = j
      /\ d0.regs[5] = d.regs[5] /\ d0.regs[4] = d.regs[4]
  BY <1>0, <1>3, <1>6 DEF Passes, Same
<1> DEFINE d1 == Put(d0, 7, f[j + 1])
<1>8. Goes(P[10], d0, P[11], d1)
  <2> DEFINE a == from + j
  <2>1. a = d0.regs[0] /\ a < AddrSize /\ d0.mem[a] = f[j + 1]
    BY <1>1, <1>2, <1>7
  <2>2. Readable(d0, a)
    BY <1>2, <1>7 DEF Readable
  <2> HIDE DEF a
  <2>3. Goes(P[10], d0, P[11], Put(d0, 7, d0.mem[a]))
    BY <1>0, <1>4, <1>7, <2>1, <2>2, LdrGoes
  <2> QED BY <2>1, <2>3
<1>9. Ok(d1) /\ Same(d0, d1, {7}) /\ d1.regs[7] = f[j + 1]
  BY <1>0, <1>2, <1>7, PutSees
<1> HIDE DEF d1
<1>10. PICK d2 : Sends(P[11], d1, P[12], f[j + 1], d2)
  <2>1. d1.regs[2] = MMIO_TX /\ f[j + 1] = d1.regs[7]
    BY <1>0, <1>7, <1>9 DEF Same
  <2> QED BY <1>0, <1>2, <1>4, <1>9, <2>1, SendGoes
<1>11. /\ Ok(d2) /\ d2.mem = c.mem /\ d2.written = c.written /\ d2.out = Append(d.out, f[j + 1])
       /\ d2.regs[7] = f[j + 1] /\ d2.regs[6] = j /\ d2.regs[0] = from + j /\ d2.regs[1] = from + n
       /\ d2.regs[2] = MMIO_TX /\ d2.regs[5] = d.regs[5] /\ d2.regs[4] = d.regs[4]
  BY <1>0, <1>7, <1>9, <1>10 DEF Sends, Same
<1>12. PICK d3 : Weighs(P[12], d2, P[17], f, j, d3)
  <2>1. Best(f, j, d2.regs[5], d2.regs[4])
    BY <1>3, <1>11
  <2> QED BY <1>1, <1>2, <1>11, <2>1, EmitWeighs
<1>13. /\ Passes(P[12], d2, P[17], d3, {4, 5}) /\ d3.voted = TRUE /\ Best(f, j + 1, d3.regs[5], d3.regs[4])
       /\ d3.regs[6] = j /\ d3.regs[0] = from + j
  BY <1>0, <1>11, <1>12 DEF Weighs, Passes, Same
<1>14. PICK d4 : Passes(P[17], d3, P[18], d4, {6}) /\ d4.regs[6] = j + 1
  <2>1. d3.regs[6] + 1 \in Words /\ d3.regs[6] + 1 = j + 1
    BY <1>1, <1>13
  <2>2. Gives(P[17], d3, P[18], {6}, 6, d3.regs[6] + 1)
    <3>1. d3.regs[6] + 1 \in Words
      BY <2>1
    <3>2. Ok(d3)
      BY <1>13 DEF Passes
    <3> QED BY <1>0, <1>4, <3>1, <3>2, AddiMoves
  <2> QED BY <2>1, <2>2 DEF Gives
<1>15. PICK e : Passes(P[18], d4, P[19], e, {0}) /\ e.regs[0] = from + (j + 1)
  <2>0. d4.regs[0] = from + j /\ Ok(d4)
    BY <1>0, <1>13, <1>14 DEF Passes, Same
  <2>1. d4.regs[0] + 1 \in Words /\ d4.regs[0] + 1 = from + (j + 1)
    BY <1>1, <2>0
  <2>2. Gives(P[18], d4, P[19], {0}, 0, d4.regs[0] + 1)
    <3>1. d4.regs[0] + 1 \in Words
      BY <2>1
    <3> QED BY <1>0, <1>4, <2>0, <3>1, AddiMoves
  <2> QED BY <2>1, <2>2 DEF Gives
<1>16. /\ e.mem = d2.mem /\ e.written = d2.written /\ e.out = d2.out /\ e.voted = TRUE /\ Ok(e)
       /\ e.regs[1] = d2.regs[1] /\ e.regs[2] = d2.regs[2] /\ e.regs[6] = j + 1
       /\ e.regs[4] = d3.regs[4] /\ e.regs[5] = d3.regs[5]
  <2>1. /\ d3.mem = d2.mem /\ d3.written = d2.written /\ d3.out = d2.out
        /\ d3.regs[1] = d2.regs[1] /\ d3.regs[2] = d2.regs[2]
    BY <1>0, <1>13 DEF Passes, Same
  <2>2. /\ d4.mem = d2.mem /\ d4.written = d2.written /\ d4.out = d2.out /\ d4.voted = TRUE
        /\ d4.regs[1] = d2.regs[1] /\ d4.regs[2] = d2.regs[2]
        /\ d4.regs[4] = d3.regs[4] /\ d4.regs[5] = d3.regs[5]
    BY <1>0, <1>13, <1>14, <2>1 DEF Passes, Same
  <2> QED BY <1>0, <1>14, <1>15, <2>2 DEF Passes, Same
<1>17. Goes(P[1], c, P[9], e)
  <2>1. Goes(P[1], c, P[10], d0)
    BY <1>3, <1>6, GoesTrans DEF Passes
  <2>2. Goes(P[1], c, P[11], d1)
    BY <1>8, <2>1, GoesTrans
  <2>3. Goes(P[1], c, P[12], d2)
    BY <1>10, <2>2, GoesTrans DEF Sends
  <2>4. Goes(P[1], c, P[17], d3)
    BY <1>13, <2>3, GoesTrans DEF Passes
  <2>5. Goes(P[1], c, P[18], d4)
    BY <1>14, <2>4, GoesTrans DEF Passes
  <2>6. Goes(P[1], c, P[19], e)
    BY <1>15, <2>5, GoesTrans DEF Passes
  <2>7. Goes(P[19], e, P[9], e)
    BY <1>4, <1>5, <1>16, BrGoes
  <2> QED BY <2>6, <2>7, GoesTrans
<1>18. Told(e, f, n, j + 1)
  <2>1. d.out \in Seq(Bytes) /\ e.out = Append(d.out, f[j + 1])
    BY <1>3, <1>11, <1>16 DEF Ok
  <2> QED BY <1>1, <1>2, <1>3, <2>1, ToldNext
<1>19. Best(f, j + 1, e.regs[5], e.regs[4])
  BY <1>13, <1>16
<1> QED BY <1>11, <1>15, <1>16, <1>17, <1>18, <1>19 DEF AtScore

\* The first of the largest is what the host computes.
LEMMA BestIsArgmax ==
  ASSUME NEW n \in Nat, n >= 1, NEW f \in Seq(Bytes), Len(f) = n, NEW b, NEW v, Best(f, n, b, v)
  PROVE  b = Argmax(f) - 1 /\ b \in 0 .. n - 1
<1> DEFINE First(a) == \A o \in DOMAIN f : f[o] < f[a] \/ (f[o] = f[a] /\ a <= o)
<1>1. DOMAIN f = 1 .. n /\ \A o \in 1 .. n : f[o] \in Nat
  BY LenProperties, ElementOfSeq DEF Bytes
<1>2. b \in 0 .. n - 1 /\ b + 1 \in DOMAIN f /\ First(b + 1)
  <2>1. CASE b = 0 /\ v = 0 /\ \A o \in 1 .. n : f[o] = 0
    <3>1. 1 \in 1 .. n /\ 0 + 1 = 1
      OBVIOUS
    <3>2. \A o \in 1 .. n : f[o] = f[1] /\ 1 <= o
      BY <2>1, <3>1
    <3> QED BY <1>1, <2>1, <3>1, <3>2
  <2>2. CASE b \in 0 .. n - 1 /\ f[b + 1] = v /\ \A o \in 1 .. n : f[o] < v \/ (f[o] = v /\ b + 1 <= o)
    <3>1. b + 1 \in 1 .. n
      BY <2>2
    <3> QED BY <1>1, <2>2, <3>1
  <2> QED BY <2>1, <2>2 DEF Best
<1>3. ASSUME NEW a \in DOMAIN f, First(a), NEW e \in DOMAIN f, First(e) PROVE a = e
  <2>1. f[e] < f[a] \/ (f[e] = f[a] /\ a <= e)
    BY <1>3
  <2>2. f[a] < f[e] \/ (f[a] = f[e] /\ e <= a)
    BY <1>3
  <2> QED BY <1>1, <2>1, <2>2
<1>4. Argmax(f) \in DOMAIN f /\ First(Argmax(f))
  <2>1. Argmax(f) = CHOOSE a \in DOMAIN f : First(a)
    BY DEF Argmax
  <2> QED BY <1>2, <2>1
<1> HIDE DEF First
<1>5. Argmax(f) = b + 1
  BY <1>2, <1>3, <1>4
<1> QED BY <1>2, <1>5

\* The reply to the scores f.
Reply(f) == <<Len(f) + 1>> \o f \o <<Argmax(f) - 1>>

\* The loop comes to its end with every score sent.
LEMMA EmitLoop ==
  ASSUME Sizes, InPlace, NEW from, NEW n, NEW P, EmitAt(from, n, P), NEW c, NEW f, Scores(c, from, n, f),
         Ok(c), c.out = << >>
  PROVE  \E d : AtScore(c, from, n, f, P, n, d)
<1> DEFINE S == {j \in 0 .. n : \E d : AtScore(c, from, n, f, P, j, d)}
<1>1. n \in Nat
  BY DEF Scores
<1>2. 0 \in S
  <2>1. \E d : AtScore(c, from, n, f, P, 0, d)
    BY EmitStart
  <2> QED BY <1>1, <2>1
<1>3. \A j \in 0 .. n - 1 : j \in S => j + 1 \in S
  <2>1. SUFFICES ASSUME NEW j \in 0 .. n - 1, NEW d, AtScore(c, from, n, f, P, j, d)
                 PROVE  \E e : AtScore(c, from, n, f, P, j + 1, e)
    BY <1>1
  <2> QED BY <2>1, EmitScore
<1> HIDE DEF S
<1>4. \A j \in 0 .. n : j \in S
  BY <1>1, <1>2, <1>3, Climb
<1>5. n \in S
  BY <1>1, <1>4
<1> QED BY <1>5 DEF S

\* s is a and then b.
Joins(S, s, a, b) ==
  /\ s \in Seq(S) /\ Len(s) = Len(a) + Len(b)
  /\ \A j \in 1 .. Len(a) + Len(b) : s[j] = IF j <= Len(a) THEN a[j] ELSE b[j - Len(a)]

\* One sequence behind another.
LEMMA Joined ==
  ASSUME NEW S, NEW a \in Seq(S), NEW b \in Seq(S), NEW s, s = a \o b
  PROVE  Joins(S, s, a, b)
<1>1. a \o b \in Seq(S)
  BY ConcatProperties, Zenon
<1>2. Len(a \o b) = Len(a) + Len(b)
  BY ConcatProperties, Zenon
<1>3. \A j \in 1 .. Len(a) + Len(b) : (a \o b)[j] = IF j <= Len(a) THEN a[j] ELSE b[j - Len(a)]
  BY ConcatProperties, Zenon
<1> QED BY <1>1, <1>2, <1>3, Zenon DEF Joins

\* What has been sent, with the index of the largest, is the reply.
LEMMA ToldAll ==
  ASSUME NEW n \in Nat, n + 1 <= 255, NEW f \in Seq(Bytes), Len(f) = n, NEW c, NEW d, Told(d, f, n, n), d.out \in Seq(Bytes),
         NEW v, v \in Bytes, v = Argmax(f) - 1, c.out = Append(d.out, v)
  PROVE  c.out = Reply(f)
<1>1. /\ Len(d.out) = n + 1 /\ d.out[1] = n + 1 /\ \A o \in 1 .. n : d.out[o + 1] = f[o]
  BY DEF Told
<1>2. /\ Len(c.out) = n + 2 /\ c.out \in Seq(Bytes) /\ c.out[n + 2] = v
      /\ \A j \in 1 .. n + 1 : c.out[j] = d.out[j]
  BY <1>1, AppendProperties
<1> DEFINE a == <<n + 1>>
           s == a \o f
           b == <<v>>
           r == s \o b
<1>3. a \in Seq(Bytes) /\ Len(a) = 1 /\ a[1] = n + 1 /\ b \in Seq(Bytes) /\ Len(b) = 1 /\ b[1] = v
  BY DEF Bytes
<1>4. f \in Seq(Bytes) /\ c.out \in Seq(Bytes)
  BY <1>2
<1> HIDE DEF a, b
<1>5. s \in Seq(Bytes) /\ Len(s) = n + 1 /\ s[1] = n + 1 /\ \A o \in 1 .. n : s[o + 1] = f[o]
  <2>1. s \in Seq(Bytes) /\ Len(s) = Len(a) + Len(f)
        /\ \A j \in 1 .. Len(a) + Len(f) : s[j] = IF j <= Len(a) THEN a[j] ELSE f[j - Len(a)]
    <3>1. s = a \o f
      BY Zenon
    <3> HIDE DEF s
    <3>2. Joins(Bytes, s, a, f)
      BY <1>3, <1>4, <3>1, Joined, Zenon
    <3> QED BY <3>2, Zenon DEF Joins
  <2> HIDE DEF s
  <2>2. 1 \in 1 .. Len(a) + Len(f) /\ \A o \in 1 .. n : o + 1 \in 1 .. Len(a) + Len(f) /\ ~(o + 1 <= 1) /\ (o + 1) - 1 = o
    BY <1>3
  <2>3. s[1] = a[1]
    BY <1>3, <2>1, <2>2
  <2>4. \A o \in 1 .. n : s[o + 1] = f[o]
    BY <1>3, <2>1, <2>2
  <2> QED BY <1>3, <2>1, <2>3, <2>4
<1> HIDE DEF s
<1>6. r \in Seq(Bytes) /\ Len(r) = n + 2 /\ r[n + 2] = v /\ \A j \in 1 .. n + 1 : r[j] = s[j]
  <2>1. r \in Seq(Bytes) /\ Len(r) = Len(s) + Len(b)
        /\ \A j \in 1 .. Len(s) + Len(b) : r[j] = IF j <= Len(s) THEN s[j] ELSE b[j - Len(s)]
    <3>1. r = s \o b
      BY Zenon
    <3> HIDE DEF r
    <3>2. Joins(Bytes, r, s, b)
      BY <1>3, <1>5, <3>1, Joined, Zenon
    <3> QED BY <3>2, Zenon DEF Joins
  <2> HIDE DEF r
  <2>2. n + 2 \in 1 .. Len(s) + Len(b) /\ ~(n + 2 <= n + 1) /\ (n + 2) - (n + 1) = 1
    BY <1>3, <1>5
  <2>3. r[n + 2] = b[1]
    BY <1>5, <2>1, <2>2
  <2>4. \A j \in 1 .. n + 1 : j \in 1 .. Len(s) + Len(b) /\ j <= Len(s)
    BY <1>3, <1>5
  <2> QED BY <1>3, <1>5, <2>1, <2>3, <2>4
<1> HIDE DEF r
<1>7. \A j \in 1 .. n + 2 : c.out[j] = r[j]
  <2>1. SUFFICES ASSUME NEW j \in 1 .. n + 2 PROVE c.out[j] = r[j]
    OBVIOUS
  <2>2. CASE j = n + 2
    BY <1>2, <1>6, <2>2
  <2>3. CASE j = 1
    BY <1>1, <1>2, <1>5, <1>6, <2>3
  <2>4. CASE j # 1 /\ j # n + 2
    <3>1. j - 1 \in 1 .. n /\ (j - 1) + 1 = j /\ j \in 1 .. n + 1
      BY <2>4
    <3>2. d.out[j] = f[j - 1] /\ s[j] = f[j - 1]
      BY <1>1, <1>5, <3>1
    <3> QED BY <1>2, <1>6, <3>1, <3>2
  <2> QED BY <2>2, <2>3, <2>4
<1>8. c.out = r
  BY <1>2, <1>4, <1>6, <1>7, SeqEqual
<1>9. Reply(f) = r
  BY DEF Reply, r, s, a, b
<1> QED BY <1>8, <1>9

\* The epilogue, in place, sends the reply to the scores it finds and ends the
\* program, having stored nothing (graph_compiler.rs:553-590).
THEOREM EmitStops ==
  ASSUME Sizes, InPlace, NEW from, NEW n, NEW m, NEW k, Code(m, Epilogue(from, n), k), NEW c, NEW f,
         Scores(c, from, n, f), f \in Seq(Bytes), Len(f) = n, Ok(c), c.out = << >>
  PROVE  \E d : Stops(m, c, d) /\ d.out = Reply(f) /\ d.written = c.written
<1>1. PICK P : EmitAt(from, n, P) /\ P[1] = m /\ P[23] = k
  BY EmitCode
<1>2. PICK d : AtScore(c, from, n, f, P, n, d)
  BY <1>1, EmitLoop
<1>3. /\ Goes(P[1], c, P[9], d) /\ Ok(d) /\ Told(d, f, n, n) /\ d.written = c.written
      /\ d.regs[0] = from + n /\ d.regs[1] = from + n /\ d.regs[2] = MMIO_TX
      /\ Best(f, n, d.regs[5], d.regs[4])
  BY <1>2 DEF AtScore
<1>4. /\ Leaves(P[9], 0, 1, <<"Lemit_done", 0>>, P[10]) /\ Labelled(<<"Lemit_done", 0>>, P[20])
      /\ \A b : Goes(P[20], b, P[21], b)
  BY <1>1, EmitLabels
<1>5. 5 \in Regs /\ 2 \in Regs /\ n \in Nat /\ n >= 1 /\ n + 1 <= 255 /\ from \in Nat
  BY DEF Regs, Scores
<1>6. PICK e : Passes(P[9], d, P[20], e, {})
  <2>1. d.regs[0] >= d.regs[1]
    BY <1>3, <1>5
  <2> QED BY <1>3, <1>4, <2>1 DEF Leaves
<1>7. Ok(e) /\ e.out = d.out /\ e.written = c.written /\ e.regs[5] = d.regs[5] /\ e.regs[2] = MMIO_TX
  BY <1>3, <1>5, <1>6 DEF Passes, Same
<1>8. d.regs[5] = Argmax(f) - 1 /\ d.regs[5] \in 0 .. n - 1
  BY <1>3, <1>5, BestIsArgmax
<1>9. d.regs[5] < 256 /\ d.regs[5] \in Bytes
  BY <1>5, <1>8 DEF Bytes
<1>10. PICK u : Sends(P[21], e, P[22], e.regs[5], u)
  <2>1. Code(P[21], Str(5, 2), P[22])
    BY <1>1 DEF EmitAt
  <2>2. e.regs[5] < 256
    BY <1>7, <1>9
  <2> QED BY <1>5, <1>7, <2>1, <2>2, SendGoes
<1>11. Goes(m, c, P[22], u)
  <2>1. Goes(P[1], c, P[20], e)
    BY <1>3, <1>6, GoesTrans DEF Passes
  <2>2. Goes(P[20], e, P[21], e)
    BY <1>4
  <2>3. Goes(P[1], c, P[21], e)
    BY <2>1, <2>2, GoesTrans
  <2> QED BY <1>1, <1>10, <2>3, GoesTrans DEF Sends
<1>12. u.out = Append(d.out, d.regs[5]) /\ u.written = c.written
  BY <1>7, <1>10 DEF Sends
<1>13. u.out = Reply(f)
  <2>1. d.out \in Seq(Bytes)
    BY <1>3 DEF Ok
  <2>2. d.regs[5] = Argmax(f) - 1 /\ d.regs[5] \in Bytes
    BY <1>8, <1>9
  <2>3. Told(d, f, n, n) /\ u.out = Append(d.out, d.regs[5])
    BY <1>3, <1>12
  <2> QED BY <1>5, <2>1, <2>2, <2>3, ToldAll
<1>14. Code(P[22], <<Ins("RET", << >>)>>, P[22] + 1)
  <2> DEFINE a == Ins("RET", << >>)
  <2>1. Code(P[22], <<a, a>>, P[23])
    BY <1>1 DEF EmitAt
  <2> HIDE DEF a
  <2>2. /\ P[22] \in 1 .. Len(source) + 1 /\ P[23] \in 1 .. Len(source) + 1 /\ P[23] = P[22] + 2
        /\ source[P[22] + 1 - 1] = a
    BY <2>1 DEF Code
  <2>3. Len(source) \in Nat
    BY DEF InPlace, Typed
  <2> QED BY <2>2, <2>3 DEF Code, a
<1>15. Stops(P[22], u, u)
  BY <1>14, RetStops
<1>16. Stops(m, c, u)
  BY <1>11, <1>15, StopsThere
<1> QED BY <1>12, <1>13, <1>16
=============================================================================
