------------------------- MODULE GraphSteps_proofs --------------------------
(***************************************************************************)
(* How code that graph_compiler.rs generates runs on a warp of one thread: *)
(* the lines stand in the program memory as their words (Code), a thread is*)
(* seen as its registers, memory, accumulator and output (View), and code  *)
(* brings it from a line and a view to a line and a view (Goes).  One lemma*)
(* for each mnemonic the generators write, one for each piece that they    *)
(* share.                                                                  *)
(***************************************************************************)
EXTENDS Graph_proofs

\* The values of a register, of a byte, and the registers.
Words == {n \in Nat : n < U16}
Bytes == {n \in Nat : n < 256}
Regs  == 0 .. 7

\* The numbers that the 32-bit accumulator of fc_mac.sv can hold.
Sums == {n \in Int : -2147483648 <= n /\ n <= 2147483647}

\* The widths of the chip; a warp of one thread, for which the kernels are written.
Sizes ==
  /\ WordSize = U16 /\ ByteSize = 256 /\ NumRegs = 8 /\ PcSize = Targets
  /\ AddrSize \in Words \ {0} /\ MMIO_TX \in Words /\ IMM_MAX = 63 /\ ROM_WORDS <= Targets
  /\ Lanes = {0} /\ Launched = {0}

-----------------------------------------------------------------------------
(* Induction, over the least counterexample.                                *)
LEMMA Climb ==
  ASSUME NEW n \in Nat, NEW S, 0 \in S, \A j \in 0 .. n - 1 : j \in S => j + 1 \in S
  PROVE  \A j \in 0 .. n : j \in S
<1> DEFINE Fails == {j \in 0 .. n : j \notin S}
<1>1. CASE Fails # {}
  <2>1. PICK m \in Fails : \A k \in Fails : m <= k
    <3>1. Fails \subseteq Nat
      OBVIOUS
    <3> HIDE DEF Fails
    <3> QED BY <1>1, <3>1, LeastNat
  <2>2. m # 0
    OBVIOUS
  <2>3. m - 1 \in 0 .. n - 1 /\ m - 1 \notin Fails /\ (m - 1) + 1 = m
    BY <2>1, <2>2
  <2> QED BY <2>3
<1> QED BY <1>1

-----------------------------------------------------------------------------
(* The thread of a warp of one lane.                                        *)
Thread(t) ==
  /\ DOMAIN t = {"tid", "pc", "regs", "flag", "base", "wbase", "mem", "read", "written", "out", "unit", "halted"}
  /\ t.regs \in [Regs -> Words] /\ t.mem \in [0 .. AddrSize - 1 -> Bytes]
  /\ t.base = 0 /\ t.wbase = 0 /\ t.halted = FALSE /\ t.flag \in {"none", "N", "Z", "P"}
  /\ "acc" \in DOMAIN t.unit /\ t.unit.acc \in Int
  /\ t.out \in Seq(Bytes)

\* What of it the kernels are about.
Shot(regs, mem, acc, out, written, voted) ==
  [regs |-> regs, mem |-> mem, acc |-> acc, out |-> out, written |-> written, voted |-> voted]

\* The view of a thread: what the kernels can tell of it.
View(t) == Shot(t.regs, t.mem, t.unit.acc, t.out, t.written, t.flag # "none")

\* Its accumulator has not wrapped, and it has read only what was put there: by
\* the loader or by itself.
Sound(t) ==
  /\ t.unit.acc \in Sums
  /\ \A a \in t.read : a < Len(image) \/ a \in t.written

\* The accumulator starts at 0 and holds numbers.
LEMMA SumsAreNumbers == 0 \in Sums /\ Sums \subseteq Int
  BY DEF Sums

\* What the lines of a kernel become.
Used == {"MOV", "LUI", "ADDI", "ADD", "CMP", "BR", "LDR", "STR", "FMAC", "FOUT", "RET"}

\* What the ISA says the instruction at its address does to it.
Did(t) == Chip!T!Stepped(t, prog[t.pc].does)

\* The view with value v in register r.
Put(c, r, v) == Shot([c.regs EXCEPT ![r] = v], c.mem, c.acc, c.out, c.written, c.voted)

\* An instruction that writes a register.
LEMMA DoesPut ==
  ASSUME Sizes, NEW t, Thread(t), NEW e, e.op \in {"MOV", "LUI", "ADDI", "ADD"}, e.rd \in Regs,
         NEW v \in Words, Chip!T!Value(t, e, t.regs[e.rs], t.regs[e.rt]) = v,
         NEW u, u = Chip!T!Stepped(t, e)
  PROVE  /\ Thread(u) /\ u.pc = (t.pc + 1) % Targets /\ u.read = t.read
         /\ View(u) = Put(View(t), e.rd, v)
<1> DEFINE regs == [t.regs EXCEPT ![e.rd] = v]
<1>1. u = [t EXCEPT !.regs = regs, !.pc = (t.pc + 1) % Targets]
  <2>1. e.op \in Chip!T!Arithmetic
    BY DEF Chip!T!Arithmetic
  <2>2. Chip!T!Stepped(t, e) = Chip!T!Wrote(t, e.rd, Chip!T!Value(t, e, t.regs[e.rs], t.regs[e.rt]))
    <3>1. CASE e.op = "MOV"
      BY <2>1, <3>1 DEF Chip!T!Stepped
    <3>2. CASE e.op = "LUI"
      BY <2>1, <3>2 DEF Chip!T!Stepped
    <3>3. CASE e.op = "ADDI"
      BY <2>1, <3>3 DEF Chip!T!Stepped
    <3>4. CASE e.op = "ADD"
      BY <2>1, <3>4 DEF Chip!T!Stepped
    <3> QED BY <3>1, <3>2, <3>3, <3>4
  <2>3. v % WordSize = v /\ PcSize = Targets
    BY Small DEF Sizes, Words, U16
  <2>4. "regs" \in DOMAIN t /\ "pc" \in DOMAIN t
    BY DEF Thread
  <2>5. Chip!T!Wrote(t, e.rd, v) = [t EXCEPT !.regs = regs, !.pc = (t.pc + 1) % Targets]
    BY <2>3, <2>4 DEF Chip!T!Wrote
  <2> QED BY <2>2, <2>5
<1>2. regs \in [Regs -> Words]
  BY DEF Thread
<1> HIDE DEF regs
<1>3. /\ DOMAIN u = DOMAIN t /\ u.pc = (t.pc + 1) % Targets /\ u.regs = regs
      /\ u.mem = t.mem /\ u.base = t.base /\ u.wbase = t.wbase /\ u.halted = t.halted /\ u.flag = t.flag
      /\ u.unit = t.unit /\ u.out = t.out /\ u.read = t.read /\ u.written = t.written
  BY <1>1 DEF Thread
<1>4. Thread(u)
  BY <1>2, <1>3 DEF Thread
<1>5. View(u) = Put(View(t), e.rd, v)
  BY <1>3 DEF View, Shot, Put, regs
<1> QED BY <1>3, <1>4, <1>5

\* The view with a flag set.
Vote(c) == Shot(c.regs, c.mem, c.acc, c.out, c.written, TRUE)

\* What leaves all but the flag as it was.
Flagged(t, u, f) ==
  Thread(u) /\ u.pc = (t.pc + 1) % Targets /\ u.read = t.read /\ View(u) = Vote(View(t)) /\ u.flag = f

\* CMP: the flag, and nothing else of the view.
LEMMA DoesCompare ==
  ASSUME Sizes, NEW t, Thread(t), NEW e, e.op = "CMP", NEW u, u = Chip!T!Stepped(t, e)
  PROVE  Flagged(t, u, IF t.regs[e.rs] < t.regs[e.rt] THEN "N" ELSE IF t.regs[e.rs] = t.regs[e.rt] THEN "Z" ELSE "P")
<1> DEFINE f == IF t.regs[e.rs] < t.regs[e.rt] THEN "N" ELSE IF t.regs[e.rs] = t.regs[e.rt] THEN "Z" ELSE "P"
<1>1. u = [Chip!T!Went(t) EXCEPT !.flag = f]
  <2>1. e.op \notin Chip!T!Arithmetic
    BY DEF Chip!T!Arithmetic
  <2> QED BY <2>1 DEF Chip!T!Stepped
<1>2. f \in {"N", "Z", "P"}
  OBVIOUS
<1> HIDE DEF f
<1>3. "pc" \in DOMAIN t /\ "flag" \in DOMAIN t /\ PcSize = Targets
  BY DEF Thread, Sizes
<1>4. PICK a : a = Chip!T!Went(t)
  OBVIOUS
<1>5. /\ DOMAIN a = DOMAIN t /\ a.pc = (t.pc + 1) % Targets
      /\ a.regs = t.regs /\ a.mem = t.mem /\ a.base = t.base /\ a.wbase = t.wbase /\ a.halted = t.halted
      /\ a.unit = t.unit /\ a.out = t.out /\ a.read = t.read /\ a.written = t.written
  BY <1>3, <1>4 DEF Thread, Chip!T!Went
<1>6. /\ DOMAIN u = DOMAIN t /\ u.pc = (t.pc + 1) % Targets /\ u.flag = f
      /\ u.regs = t.regs /\ u.mem = t.mem /\ u.base = t.base /\ u.wbase = t.wbase /\ u.halted = t.halted
      /\ u.unit = t.unit /\ u.out = t.out /\ u.read = t.read /\ u.written = t.written
  BY <1>1, <1>3, <1>4, <1>5 DEF Thread
<1>7. Thread(u)
  BY <1>2, <1>6 DEF Thread
<1>8. View(u) = Vote(View(t))
  BY <1>2, <1>6 DEF View, Shot, Vote
<1> QED BY <1>6, <1>7, <1>8 DEF Flagged, f

\* A branch goes where the flag sends it.
LEMMA DoesBranch ==
  ASSUME Sizes, NEW t, Thread(t), NEW e, e.op = "BR", NEW u, u = Chip!T!Stepped(t, e)
  PROVE  /\ Thread(u) /\ u.read = t.read /\ View(u) = View(t)
         /\ u.pc = IF Chip!T!FlagBit[t.flag] \in e.nzp THEN e.imm ELSE (t.pc + 1) % Targets
<1> DEFINE to == IF Chip!T!FlagBit[t.flag] \in e.nzp THEN e.imm ELSE (t.pc + 1) % Targets
<1>1. u = [t EXCEPT !.pc = to]
  <2>1. e.op \notin Chip!T!Arithmetic
    BY DEF Chip!T!Arithmetic
  <2>2. PcSize = Targets
    BY DEF Sizes
  <2>3. CASE Chip!T!FlagBit[t.flag] \in e.nzp
    BY <2>1, <2>3 DEF Chip!T!Stepped
  <2>4. CASE Chip!T!FlagBit[t.flag] \notin e.nzp
    BY <2>1, <2>2, <2>4 DEF Chip!T!Stepped, Chip!T!Went
  <2> QED BY <2>3, <2>4
<1> HIDE DEF to
<1>2. /\ DOMAIN u = DOMAIN t /\ u.pc = to /\ u.flag = t.flag
      /\ u.regs = t.regs /\ u.mem = t.mem /\ u.base = t.base /\ u.wbase = t.wbase /\ u.halted = t.halted
      /\ u.unit = t.unit /\ u.out = t.out /\ u.read = t.read /\ u.written = t.written
  BY <1>1 DEF Thread
<1> QED BY <1>2 DEF Thread, View, Shot, to

\* LDR: a register and the set of what was read.
LEMMA DoesLoad ==
  ASSUME Sizes, NEW t, Thread(t), NEW e, e.op = "LDR", e.rd \in Regs, e.rs \in Regs, t.regs[e.rs] < AddrSize,
         NEW u, u = Chip!T!Stepped(t, e)
  PROVE  /\ Thread(u) /\ u.pc = (t.pc + 1) % Targets /\ u.read = t.read \cup {t.regs[e.rs]}
         /\ View(u) = Put(View(t), e.rd, t.mem[t.regs[e.rs]])
<1> DEFINE a == t.regs[e.rs]
           v == t.mem[a]
           regs == [t.regs EXCEPT ![e.rd] = v]
<1>1. a \in Nat /\ a \in 0 .. AddrSize - 1 /\ (t.base + a) % AddrSize = a /\ v \in Bytes /\ AddrSize \in Nat
  <2>1. a \in Nat /\ AddrSize \in Nat /\ t.base = 0
    BY DEF Thread, Sizes, Words
  <2>2. a % AddrSize = a /\ 0 + a = a /\ a \in 0 .. AddrSize - 1
    BY <2>1, Small
  <2> QED BY <2>1, <2>2 DEF Thread
<1>2. v \in Words /\ v % WordSize = v
  BY <1>1, Small DEF Sizes, Words, Bytes, U16
<1>3. u = [Chip!T!Wrote(t, e.rd, v) EXCEPT !.read = @ \cup {a}]
  <2>1. e.op \notin Chip!T!Arithmetic
    BY DEF Chip!T!Arithmetic
  <2> QED BY <1>1, <2>1 DEF Chip!T!Stepped
<1>4. PICK b : b = Chip!T!Wrote(t, e.rd, v)
  OBVIOUS
<1>5. "regs" \in DOMAIN t /\ "pc" \in DOMAIN t /\ "read" \in DOMAIN t /\ PcSize = Targets
  BY DEF Thread, Sizes
<1>6. regs \in [Regs -> Words]
  BY <1>2 DEF Thread
<1>7. b = [t EXCEPT !.regs = regs, !.pc = (t.pc + 1) % Targets]
  BY <1>2, <1>4, <1>5 DEF Chip!T!Wrote
<1> HIDE DEF regs, v, a
<1>8. /\ DOMAIN b = DOMAIN t /\ b.pc = (t.pc + 1) % Targets /\ b.regs = regs
      /\ b.mem = t.mem /\ b.base = t.base /\ b.wbase = t.wbase /\ b.halted = t.halted /\ b.flag = t.flag
      /\ b.unit = t.unit /\ b.out = t.out /\ b.read = t.read /\ b.written = t.written
  BY <1>7 DEF Thread
<1>9. /\ DOMAIN u = DOMAIN t /\ u.pc = (t.pc + 1) % Targets /\ u.regs = regs
      /\ u.mem = t.mem /\ u.base = t.base /\ u.wbase = t.wbase /\ u.halted = t.halted /\ u.flag = t.flag
      /\ u.unit = t.unit /\ u.out = t.out /\ u.read = t.read \cup {a} /\ u.written = t.written
  BY <1>3, <1>4, <1>5, <1>8 DEF Thread
<1>10. Thread(u)
  BY <1>6, <1>9 DEF Thread
<1>11. View(u) = Put(View(t), e.rd, v)
  BY <1>9 DEF View, Shot, Put, regs
<1> QED BY <1>9, <1>10, <1>11 DEF v, a

\* The view with byte v at address a.
Poke(c, a, v) == Shot(c.regs, [c.mem EXCEPT ![a] = v], c.acc, c.out, c.written \cup {a}, c.voted)

\* The view with byte v sent.
Send(c, v) == Shot(c.regs, c.mem, c.acc, Append(c.out, v), c.written, c.voted)

\* The view with another sum.
Hold(c, n) == Shot(c.regs, c.mem, n, c.out, c.written, c.voted)

\* STR: the low byte, to the memory ...
LEMMA DoesStore ==
  ASSUME Sizes, NEW t, Thread(t), NEW e, e.op = "STR", e.rs \in Regs, e.rt \in Regs,
         t.regs[e.rs] < AddrSize, t.regs[e.rs] # MMIO_TX, t.regs[e.rt] < 256,
         NEW u, u = Chip!T!Stepped(t, e)
  PROVE  /\ Thread(u) /\ u.pc = (t.pc + 1) % Targets /\ u.read = t.read
         /\ View(u) = Poke(View(t), t.regs[e.rs], t.regs[e.rt])
<1> DEFINE a == t.regs[e.rs]
           v == t.regs[e.rt]
           mem == [t.mem EXCEPT ![a] = v]
<1>1. a \in Nat /\ a \in 0 .. AddrSize - 1 /\ (t.wbase + a) % AddrSize = a /\ v \in Bytes /\ v % ByteSize = v
  <2>1. a \in Nat /\ AddrSize \in Nat /\ t.wbase = 0 /\ v \in Nat /\ ByteSize = 256
    BY DEF Thread, Sizes, Words
  <2>2. a % AddrSize = a /\ 0 + a = a /\ a \in 0 .. AddrSize - 1
    BY <2>1, Small
  <2>3. v \in Bytes /\ v % ByteSize = v
    BY <2>1, Small DEF Bytes
  <2> QED BY <2>1, <2>2, <2>3
<1>2. u = [Chip!T!Went(t) EXCEPT !.mem[a] = v, !.written = @ \cup {a}]
  <2>1. e.op \notin Chip!T!Arithmetic
    BY DEF Chip!T!Arithmetic
  <2> QED BY <1>1, <2>1 DEF Chip!T!Stepped
<1>3. PICK b : b = Chip!T!Went(t)
  OBVIOUS
<1>4. "pc" \in DOMAIN t /\ "mem" \in DOMAIN t /\ "written" \in DOMAIN t /\ PcSize = Targets
  BY DEF Thread, Sizes
<1>5. mem \in [0 .. AddrSize - 1 -> Bytes]
  BY <1>1 DEF Thread
<1> HIDE DEF v, a
<1>6. /\ DOMAIN b = DOMAIN t /\ b.pc = (t.pc + 1) % Targets /\ b.regs = t.regs
      /\ b.mem = t.mem /\ b.base = t.base /\ b.wbase = t.wbase /\ b.halted = t.halted /\ b.flag = t.flag
      /\ b.unit = t.unit /\ b.out = t.out /\ b.read = t.read /\ b.written = t.written
  BY <1>3, <1>4 DEF Thread, Chip!T!Went
<1>7. u = [b EXCEPT !.mem = mem, !.written = t.written \cup {a}]
  BY <1>2, <1>3, <1>4, <1>6
<1> HIDE DEF mem
<1>9. /\ DOMAIN u = DOMAIN t /\ u.pc = (t.pc + 1) % Targets /\ u.regs = t.regs
      /\ u.mem = mem /\ u.base = t.base /\ u.wbase = t.wbase /\ u.halted = t.halted /\ u.flag = t.flag
      /\ u.unit = t.unit /\ u.out = t.out /\ u.read = t.read /\ u.written = t.written \cup {a}
  BY <1>4, <1>6, <1>7 DEF Thread
<1>10. Thread(u)
  BY <1>5, <1>9 DEF Thread
<1>11. View(u) = Poke(View(t), a, v)
  BY <1>9 DEF View, Shot, Poke, mem
<1> QED BY <1>9, <1>10, <1>11 DEF v, a

\* ... or, at the address of the UART, to the line.
LEMMA DoesSend ==
  ASSUME Sizes, NEW t, Thread(t), NEW e, e.op = "STR", e.rs \in Regs, e.rt \in Regs,
         t.regs[e.rs] = MMIO_TX, t.regs[e.rt] < 256,
         NEW u, u = Chip!T!Stepped(t, e)
  PROVE  /\ Thread(u) /\ u.pc = (t.pc + 1) % Targets /\ u.read = t.read
         /\ View(u) = Send(View(t), t.regs[e.rt])
<1> DEFINE v == t.regs[e.rt]
           out == Append(t.out, v)
<1>1. v \in Bytes /\ v % ByteSize = v
  <2>1. v \in Nat /\ ByteSize = 256
    BY DEF Thread, Sizes, Words
  <2> QED BY <2>1, Small DEF Bytes
<1>2. u = [Chip!T!Went(t) EXCEPT !.out = Append(@, v)]
  <2>1. e.op \notin Chip!T!Arithmetic
    BY DEF Chip!T!Arithmetic
  <2> QED BY <1>1, <2>1 DEF Chip!T!Stepped
<1>3. PICK b : b = Chip!T!Went(t)
  OBVIOUS
<1>4. "pc" \in DOMAIN t /\ "out" \in DOMAIN t /\ PcSize = Targets
  BY DEF Thread, Sizes
<1>5. out \in Seq(Bytes)
  BY <1>1, AppendProperties DEF Thread
<1> HIDE DEF v
<1>6. /\ DOMAIN b = DOMAIN t /\ b.pc = (t.pc + 1) % Targets /\ b.regs = t.regs
      /\ b.mem = t.mem /\ b.base = t.base /\ b.wbase = t.wbase /\ b.halted = t.halted /\ b.flag = t.flag
      /\ b.unit = t.unit /\ b.out = t.out /\ b.read = t.read /\ b.written = t.written
  BY <1>3, <1>4 DEF Thread, Chip!T!Went
<1>7. u = [b EXCEPT !.out = out]
  BY <1>2, <1>3, <1>4, <1>6
<1> HIDE DEF out
<1>9. /\ DOMAIN u = DOMAIN t /\ u.pc = (t.pc + 1) % Targets /\ u.regs = t.regs
      /\ u.mem = t.mem /\ u.base = t.base /\ u.wbase = t.wbase /\ u.halted = t.halted /\ u.flag = t.flag
      /\ u.unit = t.unit /\ u.out = out /\ u.read = t.read /\ u.written = t.written
  BY <1>4, <1>6, <1>7 DEF Thread
<1>10. Thread(u)
  BY <1>5, <1>9 DEF Thread
<1>11. View(u) = Send(View(t), v)
  BY <1>9 DEF View, Shot, Send, out
<1> QED BY <1>9, <1>10, <1>11 DEF v

\* A weight in the memory means the number it was stored for.
Signed(v) == ((v + 128) % 256) - 128

\* FMAC: one product more.
LEMMA DoesMac ==
  ASSUME Sizes, NEW t, Thread(t), NEW e, e.op = "FMAC", e.rs \in Regs, e.rt \in Regs,
         t.regs[e.rs] < 256,
         NEW u, u = Chip!T!Stepped(t, e)
  PROVE  /\ Thread(u) /\ u.pc = (t.pc + 1) % Targets /\ u.read = t.read
         /\ View(u) = Hold(View(t), t.unit.acc + t.regs[e.rs] * Signed(t.regs[e.rt]))
<1> DEFINE s == t.regs[e.rs]
           d == t.regs[e.rt]
           n == t.unit.acc + s * Signed(d)
           unit == [t.unit EXCEPT !.acc = n]
<1>1. Chip!T!Low8(s) = s /\ Chip!T!Signed8(d) = Signed(d)
  <2>1. s \in Nat
    BY DEF Thread, Words
  <2> QED BY <2>1, Small DEF Chip!T!Low8, Chip!T!Signed8, Signed
<1>2. n \in Int
  <2>1. s \in Int /\ d \in Int /\ t.unit.acc \in Int
    BY DEF Thread, Words
  <2>2. Signed(d) \in Int
    BY <2>1 DEF Signed
  <2> HIDE DEF s, d
  <2>3. s * Signed(d) \in Int
    BY <2>1, <2>2
  <2> QED BY <2>1, <2>3
<1>3. u = [Chip!T!Went(t) EXCEPT !.unit = unit]
  <2>1. e.op \notin Chip!T!Arithmetic
    BY DEF Chip!T!Arithmetic
  <2>2. u = Chip!T!With(Chip!T!Went(t), Chip!T!FcMac(t.unit, s, d))
    BY <2>1 DEF Chip!T!Stepped
  <2> HIDE DEF s, d
  <2>3. Chip!T!FcMac(t.unit, s, d) = unit
    BY <1>1 DEF Chip!T!FcMac
  <2> QED BY <2>2, <2>3 DEF Chip!T!With
<1>4. "pc" \in DOMAIN t /\ "unit" \in DOMAIN t /\ PcSize = Targets
  BY DEF Thread, Sizes
<1>5. PICK b : b = Chip!T!Went(t)
  OBVIOUS
<1>6. /\ DOMAIN b = DOMAIN t /\ b.pc = (t.pc + 1) % Targets /\ b.regs = t.regs
      /\ b.mem = t.mem /\ b.base = t.base /\ b.wbase = t.wbase /\ b.halted = t.halted /\ b.flag = t.flag
      /\ b.unit = t.unit /\ b.out = t.out /\ b.read = t.read /\ b.written = t.written
  BY <1>5, <1>4 DEF Thread, Chip!T!Went
<1>7. "acc" \in DOMAIN unit /\ unit.acc = n
  BY DEF Thread
<1> HIDE DEF unit, n, s, d
<1>9. /\ DOMAIN u = DOMAIN t /\ u.pc = (t.pc + 1) % Targets /\ u.regs = t.regs
      /\ u.mem = t.mem /\ u.base = t.base /\ u.wbase = t.wbase /\ u.halted = t.halted /\ u.flag = t.flag
      /\ u.unit = unit /\ u.out = t.out /\ u.read = t.read /\ u.written = t.written
  BY <1>3, <1>4, <1>5, <1>6 DEF Thread
<1>10. Thread(u)
  BY <1>2, <1>7, <1>9 DEF Thread
<1>11. View(u) = Hold(View(t), n)
  BY <1>7, <1>9 DEF View, Shot, Hold
<1> QED BY <1>9, <1>10, <1>11 DEF n, s, d

\* The divisors of FOUT.
LEMMA PowerPositive == ASSUME NEW m \in Nat, 8 <= m, m <= 15 PROVE 2^m \in Nat /\ 2^m > 0
<1>1. CASE m = 8
  BY <1>1, SMT
<1>2. CASE m = 9
  BY <1>2, SMT
<1>3. CASE m = 10
  BY <1>3, SMT
<1>4. CASE m = 11
  BY <1>4, SMT
<1>5. CASE m = 12
  BY <1>5, SMT
<1>6. CASE m = 13
  BY <1>6, SMT
<1>7. CASE m = 14
  BY <1>7, SMT
<1>8. CASE m = 15
  BY <1>8, SMT
<1> QED BY <1>1, <1>2, <1>3, <1>4, <1>5, <1>6, <1>7, <1>8

\* A neuron fits a byte.
LEMMA FoutByte == ASSUME NEW n \in Int, NEW shift \in Nat, shift <= 7 PROVE Fout(n, shift) \in Bytes
<1>1. 2^(8 + shift) \in Nat /\ 2^(8 + shift) > 0
  BY PowerPositive
<1>2. PICK v : v = n \div 2^(8 + shift)
  OBVIOUS
<1>3. v \in Int
  BY <1>1, <1>2
<1>4. Fout(n, shift) = IF v < 0 THEN 0 ELSE IF v > 255 THEN 255 ELSE v
  BY <1>2 DEF Fout
<1> QED BY <1>3, <1>4 DEF Bytes

\* FOUT: the neuron of the sum to a register, and a sum of 0.
LEMMA DoesFire ==
  ASSUME Sizes, NEW t, Thread(t), NEW e, e.op = "FOUT", e.rd \in Regs, NEW shift \in Nat, shift <= 7, e.imm % 8 = shift,
         NEW u, u = Chip!T!Stepped(t, e)
  PROVE  /\ Thread(u) /\ u.pc = (t.pc + 1) % Targets /\ u.read = t.read
         /\ View(u) = Hold(Put(View(t), e.rd, Fout(t.unit.acc, shift)), 0)
<1> DEFINE v == Fout(t.unit.acc, shift)
           regs == [t.regs EXCEPT ![e.rd] = v]
           unit == [t.unit EXCEPT !.acc = 0]
<1>1. v \in Bytes
  BY FoutByte DEF Thread
<1>2. v \in Words /\ v % WordSize = v
  BY <1>1, Small DEF Sizes, Words, Bytes, U16
<1>3. Chip!T!Neuron(t.unit, shift) = v /\ Chip!T!NeuronTaken(t.unit) = unit
  BY DEF Chip!T!Neuron, Chip!T!Clamped, Fout, Chip!T!NeuronTaken
<1> HIDE DEF v
<1>4. u = [Chip!T!Wrote(t, e.rd, v) EXCEPT !.unit = unit]
  <2>1. e.op \notin Chip!T!Arithmetic
    BY DEF Chip!T!Arithmetic
  <2>2. u = Chip!T!With(Chip!T!Wrote(t, e.rd, Chip!T!Neuron(t.unit, shift)), Chip!T!NeuronTaken(t.unit))
    BY <2>1 DEF Chip!T!Stepped
  <2> QED BY <1>3, <2>2 DEF Chip!T!With
<1>5. PICK b : b = Chip!T!Wrote(t, e.rd, v)
  OBVIOUS
<1>6. "regs" \in DOMAIN t /\ "pc" \in DOMAIN t /\ "unit" \in DOMAIN t /\ PcSize = Targets
  BY DEF Thread, Sizes
<1>7. regs \in [Regs -> Words]
  BY <1>2 DEF Thread
<1>8. b = [t EXCEPT !.regs = regs, !.pc = (t.pc + 1) % Targets]
  BY <1>2, <1>5, <1>6 DEF Chip!T!Wrote
<1>9. "acc" \in DOMAIN unit /\ unit.acc = 0
  BY DEF Thread
<1> HIDE DEF regs, unit
<1>10. /\ DOMAIN b = DOMAIN t /\ b.pc = (t.pc + 1) % Targets /\ b.regs = regs
       /\ b.mem = t.mem /\ b.base = t.base /\ b.wbase = t.wbase /\ b.halted = t.halted /\ b.flag = t.flag
       /\ b.unit = t.unit /\ b.out = t.out /\ b.read = t.read /\ b.written = t.written
  BY <1>8 DEF Thread
<1>11. /\ DOMAIN u = DOMAIN t /\ u.pc = (t.pc + 1) % Targets /\ u.regs = regs
       /\ u.mem = t.mem /\ u.base = t.base /\ u.wbase = t.wbase /\ u.halted = t.halted /\ u.flag = t.flag
       /\ u.unit = unit /\ u.out = t.out /\ u.read = t.read /\ u.written = t.written
  BY <1>4, <1>5, <1>6, <1>10 DEF Thread
<1>12. Thread(u)
  BY <1>7, <1>9, <1>11 DEF Thread
<1>13. View(u) = Hold(Put(View(t), e.rd, v), 0)
  BY <1>9, <1>11 DEF View, Shot, Hold, Put, regs
<1> QED BY <1>11, <1>12, <1>13 DEF v

\* RET: the end.
LEMMA DoesEnd ==
  ASSUME NEW t, Thread(t), NEW e, e.op = "RET", NEW u, u = Chip!T!Stepped(t, e)
  PROVE  u.halted = TRUE /\ u.read = t.read /\ View(u) = View(t)
<1>1. u = [t EXCEPT !.halted = TRUE]
  <2>1. e.op \notin Chip!T!Arithmetic
    BY DEF Chip!T!Arithmetic
  <2> QED BY <2>1 DEF Chip!T!Stepped
<1>2. /\ u.halted = TRUE /\ u.regs = t.regs /\ u.mem = t.mem /\ u.unit = t.unit /\ u.out = t.out /\ u.flag = t.flag
      /\ u.read = t.read /\ u.written = t.written
  BY <1>1 DEF Thread
<1> QED BY <1>2 DEF View, Shot

-----------------------------------------------------------------------------
(* The way of a thread through the loaded program.                          *)
Steps(t, u) ==
  /\ t.halted = FALSE /\ t.pc \in DOMAIN prog /\ prog[t.pc].does.op \in Used
  /\ u = Did(t) /\ t.written \subseteq u.written

\* h leads from t to u in n instructions.
Path(n, h, t, u) ==
  /\ h[0] = t /\ h[n] = u
  /\ \A j \in 0 .. n : Sound(h[j])
  /\ \A j \in 0 .. n - 1 : Steps(h[j], h[j + 1])
Reaches(t, u) == \E n \in Nat : \E h : Path(n, h, t, u)

\* It is where it is.
LEMMA ReachSelf == ASSUME NEW t, Sound(t) PROVE Reaches(t, t)
<1> DEFINE h == [j \in {0} |-> t]
<1>1. Path(0, h, t, t)
  BY DEF Path
<1> QED BY <1>1 DEF Reaches

\* One instruction.
LEMMA ReachStep == ASSUME NEW t, NEW u, Sound(t), Sound(u), Steps(t, u) PROVE Reaches(t, u)
<1> DEFINE h == [j \in 0 .. 1 |-> IF j = 0 THEN t ELSE u]
<1>1. h[0] = t /\ h[1] = u
  OBVIOUS
<1> HIDE DEF h
<1>2. Path(1, h, t, u)
  <2>1. \A j \in 0 .. 1 : j = 0 \/ j = 1
    OBVIOUS
  <2>2. \A j \in 0 .. 1 - 1 : j = 0 /\ j + 1 = 1
    OBVIOUS
  <2> QED BY <1>1, <2>1, <2>2 DEF Path
<1>3. 1 \in Nat
  OBVIOUS
<1> QED BY <1>2, <1>3 DEF Reaches

\* One way after the other.
LEMMA ReachTrans == ASSUME NEW t, NEW v, NEW u, Reaches(t, v), Reaches(v, u) PROVE Reaches(t, u)
<1>a. PICK n \in Nat : \E h : Path(n, h, t, v)
  BY DEF Reaches
<1>1. PICK h : Path(n, h, t, v)
  BY <1>a
<1>b. PICK m \in Nat : \E g : Path(m, g, v, u)
  BY DEF Reaches
<1>2. PICK g : Path(m, g, v, u)
  BY <1>b
<1> DEFINE f == [j \in 0 .. n + m |-> IF j <= n THEN h[j] ELSE g[j - n]]
<1>3. /\ \A j \in 0 .. n : f[j] = h[j]
      /\ \A j \in 0 .. m : f[n + j] = g[j]
  <2>1. \A j \in 0 .. n : j \in 0 .. n + m
    OBVIOUS
  <2>2. ASSUME NEW j \in 0 .. m PROVE f[n + j] = g[j]
    <3>1. n + j \in 0 .. n + m /\ (n + j) - n = j
      OBVIOUS
    <3>2. CASE j = 0
      <4>1. f[n + j] = h[n] /\ h[n] = v /\ g[0] = v
        BY <1>1, <1>2, <3>1, <3>2 DEF Path
      <4> QED BY <3>2, <4>1
    <3>3. CASE j # 0
      BY <3>1, <3>3
    <3> QED BY <3>2, <3>3
  <2>3. ASSUME NEW j \in 0 .. n PROVE f[j] = h[j]
    <3>1. j \in 0 .. n + m /\ j <= n
      BY <2>1
    <3> QED BY <3>1
  <2> QED BY <2>2, <2>3
<1> HIDE DEF f
<1>4. Path(n + m, f, t, u)
  <2>1. f[0] = t /\ f[n + m] = u
    <3>1. 0 \in 0 .. n /\ m \in 0 .. m
      OBVIOUS
    <3> QED BY <1>1, <1>2, <1>3, <3>1 DEF Path
  <2>2. ASSUME NEW j \in 0 .. n + m PROVE Sound(f[j])
    <3>1. CASE j <= n
      <4>1. j \in 0 .. n
        BY <3>1
      <4> QED BY <1>1, <1>3, <4>1 DEF Path
    <3>2. CASE ~(j <= n)
      <4>1. j - n \in 0 .. m /\ n + (j - n) = j
        BY <3>2
      <4>2. f[j] = g[j - n]
        BY <1>3, <4>1
      <4> QED BY <1>2, <4>1, <4>2 DEF Path
    <3> QED BY <3>1, <3>2
  <2>3. ASSUME NEW j \in 0 .. (n + m) - 1 PROVE Steps(f[j], f[j + 1])
    <3>1. CASE j < n
      <4>1. j \in 0 .. n /\ j + 1 \in 0 .. n /\ j \in 0 .. n - 1
        BY <3>1
      <4> QED BY <1>1, <1>3, <4>1 DEF Path
    <3>2. CASE ~(j < n)
      <4>1. /\ j - n \in 0 .. m /\ n + (j - n) = j /\ (j - n) + 1 \in 0 .. m /\ n + ((j - n) + 1) = j + 1
            /\ j - n \in 0 .. m - 1
        BY <3>2
      <4>2. f[j] = g[j - n] /\ f[j + 1] = g[(j - n) + 1]
        BY <1>3, <4>1
      <4> QED BY <1>2, <4>1, <4>2 DEF Path
    <3> QED BY <3>1, <3>2
  <2> QED BY <2>1, <2>2, <2>3 DEF Path
<1>5. n + m \in Nat
  OBVIOUS
<1> QED BY <1>4, <1>5 DEF Reaches

\* There is only one way: what lies ahead of t lies ahead of what t becomes.
LEMMA ReachNext ==
  ASSUME NEW t, NEW u, Reaches(t, u)
  PROVE  Sound(t) /\ (t # u => Steps(t, Did(t)) /\ Reaches(Did(t), u))
<1>a. PICK n \in Nat : \E h : Path(n, h, t, u)
  BY DEF Reaches
<1>1. PICK h : Path(n, h, t, u)
  BY <1>a
<1>2. Sound(t)
  <2>1. 0 \in 0 .. n
    OBVIOUS
  <2> QED BY <1>1, <2>1 DEF Path
<1>3. CASE n = 0
  BY <1>1, <1>2, <1>3 DEF Path
<1>4. CASE n # 0
  <2>1. Steps(t, h[1]) /\ h[1] = Did(t)
    <3>1. 0 \in 0 .. n - 1 /\ 0 + 1 = 1
      BY <1>4
    <3> QED BY <1>1, <3>1 DEF Path, Steps
  <2> DEFINE g == [j \in 0 .. n - 1 |-> h[j + 1]]
  <2>2. \A j \in 0 .. n - 1 : g[j] = h[j + 1]
    OBVIOUS
  <2> HIDE DEF g
  <2>3. Path(n - 1, g, h[1], u)
    <3>1. g[0] = h[1] /\ g[n - 1] = u
      <4>1. 0 \in 0 .. n - 1 /\ 0 + 1 = 1 /\ n - 1 \in 0 .. n - 1 /\ (n - 1) + 1 = n
        BY <1>4
      <4>2. g[0] = h[0 + 1] /\ g[n - 1] = h[(n - 1) + 1]
        BY <2>2, <4>1
      <4>3. h[n] = u
        BY <1>1 DEF Path
      <4> QED BY <4>1, <4>2, <4>3
    <3>2. ASSUME NEW j \in 0 .. n - 1 PROVE Sound(g[j])
      <4>1. j + 1 \in 0 .. n
        OBVIOUS
      <4> QED BY <1>1, <2>2, <4>1 DEF Path
    <3>3. ASSUME NEW j \in 0 .. (n - 1) - 1 PROVE Steps(g[j], g[j + 1])
      <4>1. j + 1 \in 0 .. n - 1 /\ j \in 0 .. n - 1
        OBVIOUS
      <4>2. g[j] = h[j + 1] /\ g[j + 1] = h[(j + 1) + 1]
        BY <2>2, <4>1
      <4> QED BY <1>1, <4>1, <4>2 DEF Path
    <3> QED BY <3>1, <3>2, <3>3 DEF Path
  <2>4. n - 1 \in Nat
    BY <1>4
  <2>5. Reaches(h[1], u)
    BY <2>3, <2>4 DEF Reaches
  <2> QED BY <1>2, <2>1, <2>5
<1> QED BY <1>3, <1>4

\* What is stored stays stored.
LEMMA ReachKeeps == ASSUME NEW t, NEW u, Reaches(t, u) PROVE t.written \subseteq u.written
<1>a. PICK n \in Nat : \E h : Path(n, h, t, u)
  BY DEF Reaches
<1>1. PICK h : Path(n, h, t, u)
  BY <1>a
<1> DEFINE S == {j \in Nat : t.written \subseteq h[j].written}
<1>2. 0 \in S
  BY <1>1 DEF Path
<1>3. ASSUME NEW j \in 0 .. n - 1, j \in S PROVE j + 1 \in S
  <2>1. h[j].written \subseteq h[j + 1].written /\ j + 1 \in Nat
    BY <1>1 DEF Path, Steps
  <2> QED BY <1>3, <2>1
<1> HIDE DEF S
<1>4. n \in S
  <2>1. \A j \in 0 .. n : j \in S
    BY <1>2, <1>3, Climb
  <2> QED BY <2>1
<1> QED BY <1>1, <1>4 DEF S, Path

-----------------------------------------------------------------------------
(* The text, its words and the program memory belong together.              *)
InPlace ==
  /\ Typed /\ Addressed /\ Len(starts) = Len(source)
  /\ LabelsNamed(Len(source)) /\ LinesWritten(Len(source))
  /\ Len(words) = Reached(Len(source) + 1) /\ Len(words) <= Targets
  /\ \A j, m \in DOMAIN source : source[j].label # NoLabel /\ source[j].label = source[m].label => j = m
  /\ DOMAIN prog = 0 .. Len(words) - 1
  /\ \A p \in DOMAIN prog : prog[p].does = Decode(words[p + 1])

\* From line m on the text is s, and k is the line behind it.
Code(m, s, k) ==
  /\ m \in 1 .. Len(source) + 1 /\ k \in 1 .. Len(source) + 1 /\ k = m + Len(s)
  /\ \A j \in 1 .. Len(s) : source[m + j - 1] = s[j]

\* The branches to label go to line m.
Labelled(label, m) ==
  /\ m \in 1 .. Len(source) + 1
  /\ label \in DOMAIN labels /\ labels[label] = Reached(m)

\* A thread about to run line m, of which c is the view.
Rests(t, m, c) == Thread(t) /\ Sound(t) /\ View(t) = c /\ t.pc = Reached(m) % Targets

\* From line m and view c the program comes to line k and view d.
Goes(m, c, k, d) == \A t : Rests(t, m, c) => \E u : Reaches(t, u) /\ Rests(u, k, d)

\* A view that a thread can have.
Ok(c) ==
  /\ c = Shot(c.regs, c.mem, c.acc, c.out, c.written, c.voted)
  /\ c.regs \in [Regs -> Words] /\ c.mem \in [0 .. AddrSize - 1 -> Bytes] /\ c.acc \in Sums
  /\ c.out \in Seq(Bytes)

\* Byte a is one that the loader or the kernel put there.
Readable(c, a) == a < Len(image) \/ a \in c.written

\* Nothing has to be done to stay ...
LEMMA GoesSelf == ASSUME NEW m, NEW c PROVE Goes(m, c, m, c)
  BY ReachSelf DEF Goes, Rests

\* ... and one way continues another.
LEMMA GoesTrans ==
  ASSUME NEW m, NEW c, NEW k, NEW d, NEW j, NEW e, Goes(m, c, k, d), Goes(k, d, j, e)
  PROVE  Goes(m, c, j, e)
<1> SUFFICES ASSUME NEW t, Rests(t, m, c) PROVE \E u : Reaches(t, u) /\ Rests(u, j, e)
  BY DEF Goes
<1>1. PICK v : Reaches(t, v) /\ Rests(v, k, d)
  BY DEF Goes
<1>2. PICK u : Reaches(v, u) /\ Rests(u, j, e)
  BY <1>1 DEF Goes
<1> QED BY <1>1, <1>2, ReachTrans

\* The updates of a view leave it one.
LEMMA OkUpdates ==
  ASSUME NEW c, Ok(c)
  PROVE  /\ \A r \in Regs, v \in Words : Ok(Put(c, r, v))
         /\ \A a \in 0 .. AddrSize - 1, v \in Bytes : Ok(Poke(c, a, v))
         /\ \A v \in Bytes : Ok(Send(c, v))
         /\ \A n \in Sums : Ok(Hold(c, n))
         /\ Ok(Vote(c))
<1>1. /\ c.regs \in [Regs -> Words] /\ c.mem \in [0 .. AddrSize - 1 -> Bytes] /\ c.acc \in Sums
      /\ c.out \in Seq(Bytes)
  BY DEF Ok
<1>2. ASSUME NEW regs \in [Regs -> Words], NEW mem \in [0 .. AddrSize - 1 -> Bytes], NEW acc \in Sums,
             NEW out \in Seq(Bytes), NEW written, NEW voted
      PROVE  Ok(Shot(regs, mem, acc, out, written, voted))
  BY DEF Ok, Shot
<1>3. \A r \in Regs, v \in Words : Ok(Put(c, r, v))
  BY <1>1, <1>2 DEF Put
<1>4. \A a \in 0 .. AddrSize - 1, v \in Bytes : Ok(Poke(c, a, v))
  BY <1>1, <1>2 DEF Poke
<1>5. \A v \in Bytes : Ok(Send(c, v))
  BY <1>1, <1>2, AppendProperties DEF Send
<1>6. (\A n \in Sums : Ok(Hold(c, n))) /\ Ok(Vote(c))
  BY <1>1, <1>2 DEF Hold, Vote
<1> QED BY <1>3, <1>4, <1>5, <1>6

-----------------------------------------------------------------------------
\* A text in two parts.
LEMMA CodeCat ==
  ASSUME NEW m, NEW s, NEW r, NEW k, KnownCode(s), KnownCode(r), Code(m, s \o r, k)
  PROVE  \E j : Code(m, s, j) /\ Code(j, r, k)
<1>1. /\ Len(s) \in Nat /\ Len(r) \in Nat /\ Len(s \o r) = Len(s) + Len(r)
      /\ \A j \in 1 .. Len(s) : (s \o r)[j] = s[j]
      /\ \A j \in 1 .. Len(r) : (s \o r)[Len(s) + j] = r[j]
  <2>1. PICK S : s \in Seq(S)
    BY DEF KnownCode
  <2>2. PICK T : r \in Seq(T)
    BY DEF KnownCode
  <2> QED BY <2>1, <2>2
<1> DEFINE j == m + Len(s)
<1>2. /\ m \in 1 .. Len(source) + 1 /\ k \in 1 .. Len(source) + 1 /\ k = m + (Len(s) + Len(r))
      /\ \A q \in 1 .. Len(s) + Len(r) : source[m + q - 1] = (s \o r)[q]
  BY <1>1 DEF Code
<1>3. j \in 1 .. Len(source) + 1 /\ k = j + Len(r)
  BY <1>1, <1>2
<1>4. \A q \in 1 .. Len(s) : source[m + q - 1] = s[q]
  BY <1>1, <1>2
<1>5. ASSUME NEW q \in 1 .. Len(r) PROVE source[j + q - 1] = r[q]
  <2>1. Len(s) + q \in 1 .. Len(s) + Len(r) /\ m + (Len(s) + q) - 1 = j + q - 1
    BY <1>1, <1>2
  <2>2. source[m + (Len(s) + q) - 1] = (s \o r)[Len(s) + q]
    BY <1>2, <2>1
  <2> QED BY <1>1, <2>1, <2>2
<1>6. Code(m, s, j) /\ Code(j, r, k)
  BY <1>2, <1>3, <1>4, <1>5 DEF Code
<1> QED BY <1>6

\* One line.
LEMMA CodeOne ==
  ASSUME InPlace, NEW m, NEW line, NEW k, Code(m, <<line>>, k)
  PROVE  k = m + 1 /\ m \in Nat /\ m \in DOMAIN source /\ m \in 1 .. Len(source) /\ source[m] = line
<1>1. Len(<<line>>) = 1 /\ <<line>>[1] = line
  OBVIOUS
<1>2. DOMAIN source = 1 .. Len(source) /\ Len(source) \in Nat
  BY DEF InPlace, Typed
<1>3. m \in 1 .. Len(source) + 1 /\ k \in 1 .. Len(source) + 1 /\ k = m + 1 /\ source[m + 1 - 1] = line
  BY <1>1, <1>2 DEF Code
<1> QED BY <1>2, <1>3

\* Where the lines lie.
LEMMA Addresses ==
  ASSUME InPlace, NEW m \in 1 .. Len(source)
  PROVE  /\ Reached(m) \in Nat /\ starts[m] = Reached(m) /\ Reached(m + 1) = Reached(m) + Size(source[m])
<1>1. Len(starts) = Len(source) /\ starts \in Seq(Nat) /\ Len(source) \in Nat
  BY DEF InPlace, Typed
<1>2. starts[m] = Reached(m) /\ starts[m] \in Nat
  BY <1>1 DEF InPlace, Addressed
<1>3. Reached(m + 1) = starts[m] + Size(source[m])
  <2>1. m + 1 # 1 /\ (m + 1) - 1 = m
    BY <1>1
  <2> QED BY <2>1 DEF Reached
<1> QED BY <1>2, <1>3

\* The words of a line.
LEMMA LineAt ==
  ASSUME Sizes, InPlace, NEW m \in 1 .. Len(source), ~Blank(source[m]), NEW n, n = WordCount(source[m].op)
  PROVE  /\ ~Faulty(source[m]) /\ n \in 1 .. 4
         /\ Reached(m) \in Nat /\ Reached(m) + n <= Targets /\ Reached(m + 1) = Reached(m) + n
         /\ \A j \in 1 .. n :
              /\ Reached(m) + j - 1 \in DOMAIN prog
              /\ prog[Reached(m) + j - 1].does = Decode(Encode(source[m], Reached(m), labels)[j])
<1>1. /\ Reached(m) \in Nat /\ starts[m] = Reached(m) /\ Reached(m + 1) = Reached(m) + n
  BY Addresses DEF Size, Blank
<1>2. n \in 1 .. 4
  BY DEF WordCount
<1>3. /\ ~Faulty(source[m]) /\ starts[m] + n <= Len(words)
      /\ \A j \in 1 .. n : words[starts[m] + j] = Encode(source[m], starts[m], labels)[j]
  BY DEF InPlace, LinesWritten
<1>4. Len(words) \in Nat /\ Len(words) <= Targets /\ Targets \in Nat
  BY DEF InPlace, Typed, Targets
<1>5. ASSUME NEW j \in 1 .. n
      PROVE  /\ Reached(m) + j - 1 \in DOMAIN prog
             /\ prog[Reached(m) + j - 1].does = Decode(Encode(source[m], Reached(m), labels)[j])
  <2>1. Reached(m) + j - 1 \in 0 .. Len(words) - 1 /\ (Reached(m) + j - 1) + 1 = Reached(m) + j
    BY <1>1, <1>2, <1>3, <1>4
  <2>2. DOMAIN prog = 0 .. Len(words) - 1 /\ \A p \in DOMAIN prog : prog[p].does = Decode(words[p + 1])
    BY DEF InPlace
  <2> QED BY <1>1, <1>3, <2>1, <2>2
<1> QED BY <1>1, <1>2, <1>3, <1>4, <1>5

\* A thread at line m is at its first word, and behind its j-th it is at the next.
LEMMA Counter ==
  ASSUME NEW p \in Nat, NEW n \in 1 .. 4, p + n <= Targets
  PROVE  /\ p % Targets = p
         /\ \A j \in 1 .. n : (p + j - 1) % Targets = p + j - 1 /\ ((p + j - 1) + 1) % Targets = (p + j) % Targets
<1>1. Targets \in Nat
  BY DEF Targets
<1>2. ASSUME NEW j \in 1 .. n PROVE (p + j - 1) % Targets = p + j - 1 /\ (p + j - 1) + 1 = p + j
  <2>1. p + j - 1 \in Nat /\ p + j - 1 < Targets /\ (p + j - 1) + 1 = p + j
    BY <1>1
  <2> QED BY <1>1, <2>1, Small
<1>3. p < Targets
  BY <1>1
<1> QED BY <1>1, <1>2, <1>3, Small

\* The one word of a line.
LEMMA OneWord ==
  ASSUME Sizes, InPlace, NEW m \in 1 .. Len(source), ~Blank(source[m]), source[m].op \in Known, ~Pseudo(source[m])
  PROVE  /\ ~Faulty(source[m])
         /\ \A t, c : Rests(t, m, c) =>
              /\ t.pc \in DOMAIN prog /\ prog[t.pc].does = Decode(Word(source[m], labels))
              /\ (t.pc + 1) % Targets = Reached(m + 1) % Targets
<1>1. WordCount(source[m].op) = 1
  BY DEF WordCount, Pseudo
<1>2. /\ ~Faulty(source[m]) /\ Reached(m) \in Nat /\ Reached(m) + 1 <= Targets /\ Reached(m + 1) = Reached(m) + 1
      /\ Reached(m) + 1 - 1 \in DOMAIN prog
      /\ prog[Reached(m) + 1 - 1].does = Decode(Encode(source[m], Reached(m), labels)[1])
  <2>1. 1 \in 1 .. 1
    OBVIOUS
  <2> QED BY <1>1, <2>1, LineAt
<1>3. Encode(source[m], Reached(m), labels)[1] = Word(source[m], labels)
  <2>1. Encode(source[m], Reached(m), labels) = <<Word(source[m], labels)>>
    BY DEF Encode, Pseudo
  <2> QED BY <2>1
<1>4. Reached(m) % Targets = Reached(m) /\ Reached(m) + 1 - 1 = Reached(m)
  BY <1>2, Counter
<1> QED BY <1>2, <1>3, <1>4 DEF Rests

\* A step that leads to line k.
LEMMA Arrives ==
  ASSUME NEW t, NEW m, NEW c, Rests(t, m, c), t.pc \in DOMAIN prog, prog[t.pc].does.op \in Used,
         NEW u, u = Did(t), Thread(u), NEW d, View(u) = d, NEW k, u.pc = Reached(k) % Targets,
         \A a \in u.read : a \in t.read \/ Readable(c, a), c.written \subseteq d.written, d.acc \in Sums
  PROVE  Reaches(t, u) /\ Rests(u, k, d)
<1>1. t.written = c.written /\ u.written = d.written /\ u.unit.acc = d.acc
  BY DEF Rests, View, Shot
<1>2. Sound(u)
  BY <1>1 DEF Rests, Sound, Readable
<1>3. Steps(t, u)
  BY <1>1 DEF Rests, Thread, Steps
<1> QED BY <1>2, <1>3, ReachStep DEF Rests

-----------------------------------------------------------------------------
(* A line at a time.                                                        *)
Plainest == {"MOV", "ADD", "ADDI", "LDR", "STR", "CMP", "FMAC", "FOUT", "RET"}

\* The word of line m is e, and a thread that has done it stands at line k.
Fetched(m, e, k) ==
  \A t, c : Rests(t, m, c) =>
    t.pc \in DOMAIN prog /\ prog[t.pc].does = e /\ (t.pc + 1) % Targets = Reached(k) % Targets

\* An instruction is what the decoder makes of it.
LEMMA Says ==
  ASSUME Sizes, InPlace, NEW m, NEW k, NEW op \in Plainest, NEW args, \E S : args \in Seq(S),
         NEW line, line = Ins(op, args), Fits(line), Code(m, <<line>>, k)
  PROVE  \E e : Is(line, e) /\ Fetched(m, e, k)
<1>1. line.op = op /\ line.args = args
  BY DEF Ins, Line
<1>2. line.op \in Known /\ ~Pseudo(line) /\ ~Blank(line) /\ line.op \notin DOMAIN Mask
  <2>1. op \in Known /\ op \notin {"LDI", "MAX", ""} /\ op \notin DOMAIN Mask
    BY Mnemonics DEF Plainest, Known
  <2> QED BY <1>1, <2>1 DEF Pseudo, Blank
<1>3. k = m + 1 /\ m \in 1 .. Len(source) /\ source[m] = line
  BY CodeOne
<1>4. /\ ~Faulty(line)
      /\ \A t, c : Rests(t, m, c) =>
           /\ t.pc \in DOMAIN prog /\ prog[t.pc].does = Decode(Word(line, labels))
           /\ (t.pc + 1) % Targets = Reached(m + 1) % Targets
  BY <1>2, <1>3, OneWord
<1>5. Is(line, Decode(Word(line, labels)))
  BY <1>1, <1>2, <1>4, Operands, WordSaysTheLine
<1> QED BY <1>3, <1>4, <1>5 DEF Fetched

\* From a step of every thread at m to the way from m to k.
LEMMA GoesStep ==
  ASSUME NEW m, NEW c, NEW k, NEW d, NEW e, Fetched(m, e, k), e.op \in Used, c.written \subseteq d.written, Ok(d),
         \A t, u : Rests(t, m, c) /\ u = Chip!T!Stepped(t, e)
           => /\ Thread(u) /\ u.pc = (t.pc + 1) % Targets /\ View(u) = d
              /\ \A a \in u.read : a \in t.read \/ Readable(c, a)
  PROVE  Goes(m, c, k, d)
<1> SUFFICES ASSUME NEW t, Rests(t, m, c) PROVE \E u : Reaches(t, u) /\ Rests(u, k, d)
  BY DEF Goes
<1>1. t.pc \in DOMAIN prog /\ prog[t.pc].does = e /\ (t.pc + 1) % Targets = Reached(k) % Targets
  BY DEF Fetched
<1>2. PICK u : u = Chip!T!Stepped(t, e)
  OBVIOUS
<1>3. u = Did(t)
  BY <1>1, <1>2 DEF Did
<1>4. /\ Thread(u) /\ u.pc = Reached(k) % Targets /\ View(u) = d
      /\ \A a \in u.read : a \in t.read \/ Readable(c, a)
  BY <1>1, <1>2
<1>5. d.acc \in Sums
  BY DEF Ok
<1> QED BY <1>1, <1>3, <1>4, <1>5, Arrives

\* What a thread at m with view c has.
LEMMA Seen ==
  ASSUME NEW t, NEW m, NEW c, Rests(t, m, c)
  PROVE  /\ Thread(t) /\ View(t) = c /\ t.regs = c.regs /\ t.mem = c.mem /\ t.unit.acc = c.acc /\ t.out = c.out
         /\ t.written = c.written /\ c.voted = (t.flag # "none") /\ Ok(c)
<1>1. Thread(t) /\ View(t) = c
  BY DEF Rests
<1>2. t.unit.acc \in Sums
  BY DEF Rests, Sound
<1> QED BY <1>1, <1>2 DEF View, Shot, Ok, Thread

\* An operand of the right kind.
LEMMA OperandsFit ==
  /\ U16 - 1 \in Nat /\ ImmSize \in Nat
  /\ \A r \in Regs : R(r).is = "R" /\ R(r).n = r /\ R(r).n \in 0 .. U16 - 1
  /\ \A v : Imm(v).is = "#" /\ Imm(v).n = v
  BY DEF R, Imm, U16, ImmSize, Regs

\* ADDI Rd,Rs,#v.
LEMMA AddiGoes ==
  ASSUME Sizes, InPlace, NEW m, NEW k, NEW rd \in Regs, NEW rs \in Regs, NEW v \in Nat, v <= 63,
         Code(m, Addi(rd, rs, v), k), NEW c, Ok(c), c.regs[rs] + v \in Words
  PROVE  Goes(m, c, k, Put(c, rd, c.regs[rs] + v)) /\ Ok(Put(c, rd, c.regs[rs] + v))
<1> DEFINE args == <<R(rd), R(rs), Imm(v)>>
           line == Ins("ADDI", args)
<1>1. /\ line.op = "ADDI" /\ line.args = args
      /\ args[1] = R(rd) /\ args[2] = R(rs) /\ args[3] = Imm(v) /\ Len(args) = 3
      /\ \E S : args \in Seq(S)
  <2>1. line.op = "ADDI" /\ line.args = args
    BY DEF Ins, Line
  <2>2. args \in Seq({R(rd), R(rs), Imm(v)})
    OBVIOUS
  <2> QED BY <2>1, <2>2
<1>2. Fits(line)
  <2>1. RegArgs(line) = {1, 2} /\ ImmArg(line) = {3} /\ Field(line.op) = ImmSize
    BY <1>1, Mnemonics DEF RegArgs, ImmArg, Field
  <2> HIDE DEF line, args
  <2>2. v \in 0 .. ImmSize - 1
    BY DEF ImmSize
  <2> QED BY <1>1, <2>1, <2>2, OperandsFit DEF Fits
<1>3. "ADDI" \in Plainest /\ Code(m, <<line>>, k)
  BY DEF Plainest, Addi
<1> HIDE DEF line, args
<1>4. PICK e : Is(line, e) /\ Fetched(m, e, k)
  BY <1>1, <1>2, <1>3, Says DEF line
<1>5. e.op = "ADDI" /\ e.rd = rd /\ e.rs = rs /\ e.imm = v
  BY <1>1, <1>4, Mnemonics, OperandsFit DEF Is
<1>15. e.op \in Used
  BY <1>5 DEF Used
<1>6. ASSUME NEW t, NEW u, Rests(t, m, c), u = Chip!T!Stepped(t, e)
      PROVE  /\ Thread(u) /\ u.pc = (t.pc + 1) % Targets /\ View(u) = Put(c, rd, c.regs[rs] + v)
             /\ u.read = t.read
  <2>1. Thread(t) /\ View(t) = c /\ t.regs = c.regs
    BY <1>6, Seen
  <2>2. Chip!T!Value(t, e, t.regs[e.rs], t.regs[e.rt]) = c.regs[rs] + v
    BY <1>5, <2>1 DEF Chip!T!Value
  <2> QED BY <1>5, <1>6, <2>1, <2>2, DoesPut
<1>7. Ok(Put(c, rd, c.regs[rs] + v))
  BY OkUpdates
<1>8. c.written \subseteq Put(c, rd, c.regs[rs] + v).written
  BY DEF Put, Shot
<1> QED BY <1>4, <1>6, <1>7, <1>8, <1>15, GoesStep

\* Lit with a number that fits an immediate: MOV Rd,#v.
LEMMA MovGoes ==
  ASSUME Sizes, InPlace, NEW m, NEW k, NEW rd \in Regs, NEW v \in Nat, v <= 63,
         Code(m, <<Ins("MOV", <<R(rd), Imm(v)>>)>>, k), NEW c, Ok(c)
  PROVE  Goes(m, c, k, Put(c, rd, v)) /\ Ok(Put(c, rd, v))
<1> DEFINE args == <<R(rd), Imm(v)>>
           line == Ins("MOV", args)
<1>1. /\ line.op = "MOV" /\ line.args = args
      /\ args[1] = R(rd) /\ args[2] = Imm(v) /\ Len(args) = 2
      /\ \E S : args \in Seq(S)
  <2>1. line.op = "MOV" /\ line.args = args
    BY DEF Ins, Line
  <2>2. args \in Seq({R(rd), Imm(v)})
    OBVIOUS
  <2> QED BY <2>1, <2>2
<1>2. Fits(line)
  <2>1. RegArgs(line) = {1} /\ ImmArg(line) = {2} /\ Field(line.op) = ImmSize
    BY <1>1, Mnemonics DEF RegArgs, ImmArg, Field
  <2> HIDE DEF line, args
  <2>2. v \in 0 .. ImmSize - 1
    BY DEF ImmSize
  <2> QED BY <1>1, <2>1, <2>2, OperandsFit DEF Fits
<1>3. "MOV" \in Plainest /\ Code(m, <<line>>, k)
  BY DEF Plainest
<1> HIDE DEF line, args
<1>4. PICK e : Is(line, e) /\ Fetched(m, e, k)
  BY <1>1, <1>2, <1>3, Says DEF line
<1>5. e.op = "MOV" /\ e.rd = rd /\ e.imm = v
  BY <1>1, <1>4, Mnemonics, OperandsFit DEF Is
<1>15. e.op \in Used
  BY <1>5 DEF Used
<1>0. v \in Words
  BY DEF Words, U16
<1>6. ASSUME NEW t, NEW u, Rests(t, m, c), u = Chip!T!Stepped(t, e)
      PROVE  /\ Thread(u) /\ u.pc = (t.pc + 1) % Targets /\ View(u) = Put(c, rd, v)
             /\ u.read = t.read
  <2>1. Thread(t) /\ View(t) = c /\ t.regs = c.regs
    BY <1>6, Seen
  <2>2. Chip!T!Value(t, e, t.regs[e.rs], t.regs[e.rt]) = v
    BY <1>5 DEF Chip!T!Value
  <2> QED BY <1>0, <1>5, <1>6, <2>1, <2>2, DoesPut
<1>7. Ok(Put(c, rd, v))
  BY <1>0, OkUpdates
<1>8. c.written \subseteq Put(c, rd, v).written
  BY DEF Put, Shot
<1> QED BY <1>4, <1>6, <1>7, <1>8, <1>15, GoesStep

\* ADD Rd,Rs,Rt.
LEMMA AddGoes ==
  ASSUME Sizes, InPlace, NEW m, NEW k, NEW rd \in Regs, NEW rs \in Regs, NEW rt \in Regs,
         Code(m, <<Ins("ADD", <<R(rd), R(rs), R(rt)>>)>>, k), NEW c, Ok(c), c.regs[rs] + c.regs[rt] \in Words
  PROVE  Goes(m, c, k, Put(c, rd, c.regs[rs] + c.regs[rt])) /\ Ok(Put(c, rd, c.regs[rs] + c.regs[rt]))
<1> DEFINE args == <<R(rd), R(rs), R(rt)>>
           line == Ins("ADD", args)
           v == c.regs[rs] + c.regs[rt]
<1>1. /\ line.op = "ADD" /\ line.args = args
      /\ args[1] = R(rd) /\ args[2] = R(rs) /\ args[3] = R(rt) /\ Len(args) = 3
      /\ \E S : args \in Seq(S)
  <2>1. line.op = "ADD" /\ line.args = args
    BY DEF Ins, Line
  <2>2. args \in Seq({R(rd), R(rs), R(rt)})
    OBVIOUS
  <2> QED BY <2>1, <2>2
<1>9. args[3].is # "#"
  BY <1>1, OperandsFit
<1>2. Fits(line)
  <2>1. RegArgs(line) = 1 .. 3 /\ ImmArg(line) = {}
    BY <1>1, <1>9, Mnemonics DEF RegArgs, ImmArg
  <2> HIDE DEF line, args
  <2>2. \A q \in 1 .. 3 : q = 1 \/ q = 2 \/ q = 3
    OBVIOUS
  <2> QED BY <1>1, <2>1, <2>2, OperandsFit DEF Fits
<1>3. "ADD" \in Plainest /\ Code(m, <<line>>, k)
  BY DEF Plainest
<1> HIDE DEF line, args
<1>4. PICK e : Is(line, e) /\ Fetched(m, e, k)
  BY <1>1, <1>2, <1>3, Says DEF line
<1>5. e.op = "ADD" /\ e.rd = rd /\ e.rs = rs /\ e.rt = rt
  BY <1>1, <1>4, <1>9, Mnemonics, OperandsFit DEF Is
<1>15. e.op \in Used
  BY <1>5 DEF Used
<1>6. ASSUME NEW t, NEW u, Rests(t, m, c), u = Chip!T!Stepped(t, e)
      PROVE  /\ Thread(u) /\ u.pc = (t.pc + 1) % Targets /\ View(u) = Put(c, rd, v)
             /\ u.read = t.read
  <2>1. Thread(t) /\ View(t) = c /\ t.regs = c.regs
    BY <1>6, Seen
  <2>2. Chip!T!Value(t, e, t.regs[e.rs], t.regs[e.rt]) = v
    BY <1>5, <2>1 DEF Chip!T!Value
  <2> HIDE DEF v
  <2>3. v \in Words
    BY DEF v
  <2> QED BY <1>5, <1>6, <2>1, <2>2, <2>3, DoesPut
<1>7. Ok(Put(c, rd, v))
  BY OkUpdates
<1>8. c.written \subseteq Put(c, rd, v).written
  BY DEF Put, Shot
<1> QED BY <1>4, <1>6, <1>7, <1>8, <1>15, GoesStep

\* LDR Rd,Rs, from a byte that was put there.
LEMMA LdrGoes ==
  ASSUME Sizes, InPlace, NEW m, NEW k, NEW rd \in Regs, NEW rs \in Regs,
         Code(m, Ldr(rd, rs), k), NEW c, Ok(c), NEW a, a = c.regs[rs], a < AddrSize, Readable(c, a)
  PROVE  /\ Goes(m, c, k, Put(c, rd, c.mem[a])) /\ Ok(Put(c, rd, c.mem[a]))
         /\ a \in 0 .. AddrSize - 1 /\ c.mem[a] \in Bytes
<1> DEFINE args == <<R(rd), R(rs)>>
           line == Ins("LDR", args)
<1>1. /\ line.op = "LDR" /\ line.args = args
      /\ args[1] = R(rd) /\ args[2] = R(rs) /\ Len(args) = 2
      /\ \E S : args \in Seq(S)
  <2>1. line.op = "LDR" /\ line.args = args
    BY DEF Ins, Line
  <2>2. args \in Seq({R(rd), R(rs)})
    OBVIOUS
  <2> QED BY <2>1, <2>2
<1>2. Fits(line)
  <2>1. RegArgs(line) = {1, 2} /\ ImmArg(line) = {}
    BY <1>1, Mnemonics DEF RegArgs, ImmArg
  <2> HIDE DEF line, args
  <2> QED BY <1>1, <2>1, OperandsFit DEF Fits
<1>3. "LDR" \in Plainest /\ Code(m, <<line>>, k)
  BY DEF Plainest, Ldr
<1> HIDE DEF line, args
<1>4. PICK e : Is(line, e) /\ Fetched(m, e, k)
  BY <1>1, <1>2, <1>3, Says DEF line
<1>5. e.op = "LDR" /\ e.rd = rd /\ e.rs = rs
  BY <1>1, <1>4, Mnemonics, OperandsFit DEF Is
<1>15. e.op \in Used
  BY <1>5 DEF Used
<1>0. a \in 0 .. AddrSize - 1 /\ c.mem[a] \in Bytes /\ c.mem[a] \in Words
  <2>1. a \in Nat /\ AddrSize \in Nat
    BY DEF Ok, Words, Sizes
  <2>2. a \in 0 .. AddrSize - 1
    BY <2>1
  <2>3. c.mem[a] \in Bytes
    BY <2>2 DEF Ok
  <2> QED BY <2>2, <2>3 DEF Bytes, Words, U16
<1>6. ASSUME NEW t, NEW u, Rests(t, m, c), u = Chip!T!Stepped(t, e)
      PROVE  /\ Thread(u) /\ u.pc = (t.pc + 1) % Targets /\ View(u) = Put(c, rd, c.mem[a])
             /\ u.read = t.read \cup {a}
  <2>1. Thread(t) /\ View(t) = c /\ t.regs = c.regs /\ t.mem = c.mem
    BY <1>6, Seen
  <2> QED BY <1>5, <1>6, <2>1, DoesLoad
<1>7. Ok(Put(c, rd, c.mem[a]))
  BY <1>0, OkUpdates
<1>8. c.written \subseteq Put(c, rd, c.mem[a]).written
  BY DEF Put, Shot
<1>9. Goes(m, c, k, Put(c, rd, c.mem[a]))
  BY <1>4, <1>6, <1>7, <1>8, <1>15, GoesStep
<1> QED BY <1>0, <1>7, <1>9

\* STR Rt,Rs.
LEMMA StrGoes ==
  ASSUME Sizes, InPlace, NEW m, NEW k, NEW rt \in Regs, NEW rs \in Regs,
         Code(m, Str(rt, rs), k), NEW c, Ok(c), c.regs[rt] < 256
  PROVE  /\ c.regs[rs] < AddrSize /\ c.regs[rs] # MMIO_TX
              => /\ Goes(m, c, k, Poke(c, c.regs[rs], c.regs[rt])) /\ Ok(Poke(c, c.regs[rs], c.regs[rt]))
                 /\ c.regs[rs] \in 0 .. AddrSize - 1
         /\ c.regs[rs] = MMIO_TX
              => Goes(m, c, k, Send(c, c.regs[rt])) /\ Ok(Send(c, c.regs[rt]))
         /\ c.regs[rt] \in Bytes
<1> DEFINE args == <<R(rt), R(rs)>>
           line == Ins("STR", args)
<1>1. /\ line.op = "STR" /\ line.args = args
      /\ args[1] = R(rt) /\ args[2] = R(rs) /\ Len(args) = 2
      /\ \E S : args \in Seq(S)
  <2>1. line.op = "STR" /\ line.args = args
    BY DEF Ins, Line
  <2>2. args \in Seq({R(rt), R(rs)})
    OBVIOUS
  <2> QED BY <2>1, <2>2
<1>2. Fits(line)
  <2>1. RegArgs(line) = {1, 2} /\ ImmArg(line) = {}
    BY <1>1, Mnemonics DEF RegArgs, ImmArg
  <2> HIDE DEF line, args
  <2> QED BY <1>1, <2>1, OperandsFit DEF Fits
<1>3. "STR" \in Plainest /\ Code(m, <<line>>, k)
  BY DEF Plainest, Str
<1> HIDE DEF line, args
<1>4. PICK e : Is(line, e) /\ Fetched(m, e, k)
  BY <1>1, <1>2, <1>3, Says DEF line
<1>5. e.op = "STR" /\ e.rt = rt /\ e.rs = rs
  BY <1>1, <1>4, Mnemonics, OperandsFit DEF Is
<1>15. e.op \in Used
  BY <1>5 DEF Used
<1>0. c.regs[rs] \in Nat /\ AddrSize \in Nat /\ c.regs[rt] \in Bytes
  BY DEF Ok, Words, Sizes, Bytes
<1>6. CASE c.regs[rs] < AddrSize /\ c.regs[rs] # MMIO_TX
  <2>1. c.regs[rs] \in 0 .. AddrSize - 1
    BY <1>0, <1>6
  <2>2. ASSUME NEW t, NEW u, Rests(t, m, c), u = Chip!T!Stepped(t, e)
        PROVE  /\ Thread(u) /\ u.pc = (t.pc + 1) % Targets /\ View(u) = Poke(c, c.regs[rs], c.regs[rt])
               /\ u.read = t.read
    <3>1. Thread(t) /\ View(t) = c /\ t.regs = c.regs
      BY <2>2, Seen
    <3> QED BY <1>5, <1>6, <2>2, <3>1, DoesStore
  <2>3. Ok(Poke(c, c.regs[rs], c.regs[rt]))
    BY <1>0, <2>1, OkUpdates
  <2>4. c.written \subseteq Poke(c, c.regs[rs], c.regs[rt]).written
    BY DEF Poke, Shot
  <2>5. Goes(m, c, k, Poke(c, c.regs[rs], c.regs[rt]))
    BY <1>4, <1>15, <2>2, <2>3, <2>4, GoesStep
  <2> QED BY <1>0, <1>6, <2>1, <2>3, <2>5
<1>7. CASE c.regs[rs] = MMIO_TX
  <2>2. ASSUME NEW t, NEW u, Rests(t, m, c), u = Chip!T!Stepped(t, e)
        PROVE  /\ Thread(u) /\ u.pc = (t.pc + 1) % Targets /\ View(u) = Send(c, c.regs[rt])
               /\ u.read = t.read
    <3>1. Thread(t) /\ View(t) = c /\ t.regs = c.regs
      BY <2>2, Seen
    <3> QED BY <1>5, <1>7, <2>2, <3>1, DoesSend
  <2>3. Ok(Send(c, c.regs[rt]))
    BY <1>0, OkUpdates
  <2>4. c.written \subseteq Send(c, c.regs[rt]).written
    BY DEF Send, Shot
  <2>5. Goes(m, c, k, Send(c, c.regs[rt]))
    BY <1>4, <1>15, <2>2, <2>3, <2>4, GoesStep
  <2> QED BY <1>0, <1>7, <2>3, <2>5
<1> QED BY <1>0, <1>6, <1>7

\* FMAC Rs,Rt.
LEMMA MacGoes ==
  ASSUME Sizes, InPlace, NEW m, NEW k, NEW rs \in Regs, NEW rt \in Regs,
         Code(m, <<Ins("FMAC", <<R(rs), R(rt)>>)>>, k), NEW c, Ok(c), c.regs[rs] < 256,
         NEW n \in Sums, n = c.acc + c.regs[rs] * Signed(c.regs[rt])
  PROVE  Goes(m, c, k, Hold(c, n)) /\ Ok(Hold(c, n))
<1> DEFINE args == <<R(rs), R(rt)>>
           line == Ins("FMAC", args)
<1>1. /\ line.op = "FMAC" /\ line.args = args
      /\ args[1] = R(rs) /\ args[2] = R(rt) /\ Len(args) = 2
      /\ \E S : args \in Seq(S)
  <2>1. line.op = "FMAC" /\ line.args = args
    BY DEF Ins, Line
  <2>2. args \in Seq({R(rs), R(rt)})
    OBVIOUS
  <2> QED BY <2>1, <2>2
<1>2. Fits(line)
  <2>1. RegArgs(line) = {1, 2} /\ ImmArg(line) = {}
    BY <1>1, Mnemonics DEF RegArgs, ImmArg
  <2> HIDE DEF line, args
  <2> QED BY <1>1, <2>1, OperandsFit DEF Fits
<1>3. "FMAC" \in Plainest /\ Code(m, <<line>>, k)
  BY DEF Plainest
<1> HIDE DEF line, args
<1>4. PICK e : Is(line, e) /\ Fetched(m, e, k)
  BY <1>1, <1>2, <1>3, Says DEF line
<1>5. e.op = "FMAC" /\ e.rs = rs /\ e.rt = rt
  BY <1>1, <1>4, Mnemonics, OperandsFit DEF Is
<1>15. e.op \in Used
  BY <1>5 DEF Used
<1>6. ASSUME NEW t, NEW u, Rests(t, m, c), u = Chip!T!Stepped(t, e)
      PROVE  Thread(u) /\ u.pc = (t.pc + 1) % Targets /\ View(u) = Hold(c, n) /\ u.read = t.read
  <2>1. Thread(t) /\ View(t) = c /\ t.regs = c.regs /\ t.unit.acc = c.acc
    BY <1>6, Seen
  <2> QED BY <1>5, <1>6, <2>1, DoesMac
<1>7. Ok(Hold(c, n))
  BY OkUpdates
<1>8. c.written \subseteq Hold(c, n).written
  BY DEF Hold, Shot
<1> QED BY <1>4, <1>6, <1>7, <1>8, <1>15, GoesStep

\* FOUT Rd,#shift.
LEMMA FoutGoes ==
  ASSUME Sizes, InPlace, NEW m, NEW k, NEW rd \in Regs, NEW shift \in Nat, shift <= 7,
         Code(m, <<Ins("FOUT", <<R(rd), Imm(shift)>>)>>, k), NEW c, Ok(c), NEW v, v = Fout(c.acc, shift)
  PROVE  Goes(m, c, k, Hold(Put(c, rd, v), 0)) /\ Ok(Hold(Put(c, rd, v), 0)) /\ v \in Bytes
<1> DEFINE args == <<R(rd), Imm(shift)>>
           line == Ins("FOUT", args)
<1>1. /\ line.op = "FOUT" /\ line.args = args
      /\ args[1] = R(rd) /\ args[2] = Imm(shift) /\ Len(args) = 2
      /\ \E S : args \in Seq(S)
  <2>1. line.op = "FOUT" /\ line.args = args
    BY DEF Ins, Line
  <2>2. args \in Seq({R(rd), Imm(shift)})
    OBVIOUS
  <2> QED BY <2>1, <2>2
<1>2. Fits(line)
  <2>1. RegArgs(line) = {1} /\ ImmArg(line) = {2} /\ Field(line.op) = 8
    <3>1. DOMAIN args = {1, 2}
      BY <1>1
    <3> QED BY <1>1, <3>1, Mnemonics DEF RegArgs, ImmArg, Field
  <2> HIDE DEF line, args
  <2> QED BY <1>1, <2>1, OperandsFit DEF Fits
<1>3. "FOUT" \in Plainest /\ Code(m, <<line>>, k)
  BY DEF Plainest
<1> HIDE DEF line, args
<1>4. PICK e : Is(line, e) /\ Fetched(m, e, k)
  BY <1>1, <1>2, <1>3, Says DEF line
<1>5. e.op = "FOUT" /\ e.rd = rd /\ e.imm % 8 = shift
  BY <1>1, <1>4, Mnemonics, OperandsFit DEF Is
<1>15. e.op \in Used
  BY <1>5 DEF Used
<1>0. v \in Bytes /\ v \in Words
  <2>1. v \in Bytes
    BY FoutByte, SumsAreNumbers DEF Ok
  <2> QED BY <2>1 DEF Bytes, Words, U16
<1>6. ASSUME NEW t, NEW u, Rests(t, m, c), u = Chip!T!Stepped(t, e)
      PROVE  Thread(u) /\ u.pc = (t.pc + 1) % Targets /\ View(u) = Hold(Put(c, rd, v), 0) /\ u.read = t.read
  <2>1. Thread(t) /\ View(t) = c /\ t.unit.acc = c.acc
    BY <1>6, Seen
  <2> QED BY <1>5, <1>6, <2>1, DoesFire
<1>7. Ok(Hold(Put(c, rd, v), 0))
  <2>1. Ok(Put(c, rd, v)) /\ 0 \in Sums
    BY <1>0, OkUpdates, SumsAreNumbers
  <2> QED BY <2>1, OkUpdates
<1>8. c.written \subseteq Hold(Put(c, rd, v), 0).written
  BY DEF Hold, Put, Shot
<1> QED BY <1>0, <1>4, <1>6, <1>7, <1>8, <1>15, GoesStep

\* A line's address is a number.
LEMMA ReachedNat == ASSUME InPlace, NEW m \in 1 .. Len(source) + 1 PROVE Reached(m) \in Nat
<1>0. Len(source) \in Nat
  BY DEF InPlace, Typed
<1>1. CASE m \in 1 .. Len(source)
  BY <1>1, Addresses
<1>2. CASE m \notin 1 .. Len(source) /\ m # 1
  <2>1. m - 1 \in 1 .. Len(source) /\ (m - 1) + 1 = m
    BY <1>0, <1>2
  <2>2. Reached(m - 1) \in Nat /\ Reached(m) = Reached(m - 1) + Size(source[m - 1])
    BY <2>1, Addresses
  <2>3. Size(source[m - 1]) \in Nat
    BY SizeNat
  <2> QED BY <2>2, <2>3
<1>3. CASE m = 1
  BY <1>3 DEF Reached
<1> QED BY <1>1, <1>2, <1>3

\* A label is no word, and the branches to it go here.
LEMMA HereGoes ==
  ASSUME InPlace, NEW m, NEW label, label # NoLabel, NEW k, Code(m, Here(label), k)
  PROVE  Labelled(label, m) /\ \A c : Goes(m, c, k, c)
<1>1. k = m + 1 /\ m \in 1 .. Len(source) /\ source[m] = Mark(label)
  BY CodeOne DEF Here
<1>2. source[m].label = label /\ Size(source[m]) = 0
  <2>1. Mark(label).label = label /\ Size(Mark(label)) = 0
    BY DEF Mark, Line, Size
  <2> QED BY <1>1, <2>1
<1>3. /\ Reached(m) \in Nat /\ starts[m] = Reached(m) /\ Reached(m + 1) = Reached(m) + Size(source[m])
  BY <1>1, Addresses
<1>4. Reached(k) = Reached(m)
  BY <1>1, <1>2, <1>3
<1>5. DOMAIN source = 1 .. Len(source) /\ Len(source) \in Nat
  BY DEF InPlace, Typed
<1>6. \A j \in 1 .. Len(source) : source[j].label = source[m].label => j = m
  BY <1>1, <1>2, <1>5 DEF InPlace
<1>7. label \in DOMAIN labels /\ labels[label] = starts[m]
  BY <1>1, <1>2, <1>6 DEF InPlace, LabelsNamed
<1>8. Labelled(label, m)
  BY <1>1, <1>3, <1>5, <1>7 DEF Labelled
<1>9. \A t, c : Rests(t, m, c) => Rests(t, k, c)
  BY <1>4 DEF Rests
<1>10. \A c : Goes(m, c, k, c)
  BY <1>9, ReachSelf DEF Goes, Rests
<1> QED BY <1>8, <1>10

\* A branch carries the address of its label.
LEMMA GotoSays ==
  ASSUME Sizes, InPlace, NEW m, NEW k, NEW op \in {"BR", "BRzp", "BRnz"}, NEW label, NEW j,
         Code(m, Goto(op, label), k), Labelled(label, j)
  PROVE  \E e : e.op = "BR" /\ e.nzp = Flags[op] /\ e.imm = Reached(j) % Targets /\ Fetched(m, e, k)
<1> DEFINE args == <<To(label)>>
           line == Ins(op, args)
<1>1. /\ line.op = op /\ line.args = args /\ args[1] = To(label) /\ Len(args) = 1
      /\ \E S : args \in Seq(S)
  <2>1. line.op = op /\ line.args = args
    BY DEF Ins, Line
  <2>2. args \in Seq({To(label)})
    OBVIOUS
  <2> QED BY <2>1, <2>2
<1>2. op \in DOMAIN Mask /\ op \in Known /\ op # "" /\ op \notin {"LDI", "MAX"}
  BY Mnemonics DEF Known
<1>3. k = m + 1 /\ m \in 1 .. Len(source) /\ source[m] = line
  BY CodeOne DEF Goto
<1> HIDE DEF line, args
<1>4. ~Blank(line) /\ line.op \in Known /\ ~Pseudo(line)
  BY <1>1, <1>2 DEF Blank, Pseudo
<1>5. /\ ~Faulty(line) /\ Fetched(m, Decode(Word(line, labels)), k)
  BY <1>3, <1>4, OneWord DEF Fetched
<1>6. Fits(line)
  <2>1. RegArgs(line) = {} /\ ImmArg(line) = {}
    BY <1>1, Mnemonics DEF RegArgs, ImmArg
  <2> QED BY <2>1 DEF Fits
<1>7. TargetOf(line.args[1], labels) = Reached(j) /\ Reached(j) \in Nat
  <2>1. To(label).is = "label" /\ To(label).name = label
    BY DEF To
  <2>2. label \in DOMAIN labels /\ labels[label] = Reached(j) /\ Reached(j) \in Nat
    BY ReachedNat DEF Labelled
  <2> QED BY <1>1, <2>1, <2>2 DEF TargetOf
<1>8. Is(line, Decode(Word(line, labels)))
  BY <1>1, <1>4, <1>5, <1>6, <1>7, Operands, WordSaysTheLine
<1>9. PICK e : e = Decode(Word(line, labels))
  OBVIOUS
<1>10. e.op = "BR" /\ e.nzp = Flags[op]
  BY <1>1, <1>2, <1>8, <1>9, Mnemonics DEF Is
<1>11. e.imm = Reached(j) % Targets
  <2>1. Word(line, labels) = Branch(Mask[op], Reached(j))
    BY <1>1, <1>2, <1>7, Mnemonics DEF Word
  <2>2. Mask[op] \in 1 .. 7
    BY DEF Mask
  <2> QED BY <1>7, <1>9, <2>1, <2>2, BranchWord
<1> QED BY <1>5, <1>9, <1>10, <1>11

\* Where a branch takes a thread with a flag.
LEMMA BranchTakes ==
  ASSUME Sizes, NEW m, NEW k, NEW j, NEW e, e.op = "BR", e.imm = Reached(j) % Targets, Fetched(m, e, k),
         NEW t, NEW c, Rests(t, m, c), NEW to, to = IF Chip!T!FlagBit[t.flag] \in e.nzp THEN j ELSE k
  PROVE  \E u : Reaches(t, u) /\ Rests(u, to, c)
<1>1. t.pc \in DOMAIN prog /\ prog[t.pc].does = e /\ (t.pc + 1) % Targets = Reached(k) % Targets
  BY DEF Fetched
<1>7. e.op \in Used
  BY DEF Used
<1>2. PICK u : u = Chip!T!Stepped(t, e)
  OBVIOUS
<1>3. u = Did(t)
  BY <1>1, <1>2 DEF Did
<1>4. Thread(t) /\ View(t) = c
  BY DEF Rests
<1>5. /\ Thread(u) /\ u.read = t.read /\ View(u) = c
      /\ u.pc = IF Chip!T!FlagBit[t.flag] \in e.nzp THEN e.imm ELSE (t.pc + 1) % Targets
  BY <1>2, <1>4, DoesBranch
<1>6. u.pc = Reached(to) % Targets
  BY <1>1, <1>5
<1>8. c.acc \in Sums
  BY Seen DEF Ok
<1> QED BY <1>1, <1>3, <1>5, <1>6, <1>7, <1>8, Arrives

\* BR goes to its label, once there is a flag.
LEMMA BrGoes ==
  ASSUME Sizes, InPlace, NEW m, NEW k, NEW label, NEW j, Code(m, Goto("BR", label), k), Labelled(label, j),
         NEW c, c.voted = TRUE
  PROVE  Goes(m, c, j, c)
<1>1. PICK e : e.op = "BR" /\ e.nzp = Flags["BR"] /\ e.imm = Reached(j) % Targets /\ Fetched(m, e, k)
  BY GotoSays
<1>2. ASSUME NEW t, Rests(t, m, c) PROVE \E u : Reaches(t, u) /\ Rests(u, j, c)
  <2>1. t.flag \in {"N", "Z", "P"}
    BY <1>2, Seen DEF Thread
  <2>2. Chip!T!FlagBit[t.flag] \in e.nzp
    BY <1>1, <2>1 DEF Chip!T!FlagBit, Flags
  <2> QED BY <1>1, <1>2, <2>2, BranchTakes
<1> QED BY <1>2 DEF Goes

\* The branches behind a CMP.
Conds == {"BRzp", "BRnz"}

\* The branch is taken after CMP of a and b.
Taken(op, a, b) == IF op = "BRzp" THEN a >= b ELSE a <= b

\* CMP and a branch.
LEMMA CmpGoes ==
  ASSUME Sizes, InPlace, NEW m, NEW n, NEW k, NEW ra \in Regs, NEW rb \in Regs, Code(m, Cmp(ra, rb), n),
         NEW op \in Conds, NEW label, NEW j, Code(n, Goto(op, label), k), Labelled(label, j),
         NEW c, Ok(c)
  PROVE  /\ Taken(op, c.regs[ra], c.regs[rb])  => Goes(m, c, j, Vote(c))
         /\ ~Taken(op, c.regs[ra], c.regs[rb]) => Goes(m, c, k, Vote(c))
         /\ Ok(Vote(c)) /\ Vote(c).voted = TRUE
<1> DEFINE args == <<R(ra), R(rb)>>
           line == Ins("CMP", args)
           to   == IF Taken(op, c.regs[ra], c.regs[rb]) THEN j ELSE k
<1>1. /\ line.op = "CMP" /\ line.args = args
      /\ args[1] = R(ra) /\ args[2] = R(rb) /\ Len(args) = 2
      /\ \E S : args \in Seq(S)
  <2>1. line.op = "CMP" /\ line.args = args
    BY DEF Ins, Line
  <2>2. args \in Seq({R(ra), R(rb)})
    OBVIOUS
  <2> QED BY <2>1, <2>2
<1>2. Fits(line)
  <2>1. RegArgs(line) = {1, 2} /\ ImmArg(line) = {}
    BY <1>1, Mnemonics DEF RegArgs, ImmArg
  <2> HIDE DEF line, args
  <2> QED BY <1>1, <2>1, OperandsFit DEF Fits
<1>3. "CMP" \in Plainest /\ Code(m, <<line>>, n)
  BY DEF Plainest, Cmp
<1> HIDE DEF line, args
<1>4. PICK e : Is(line, e) /\ Fetched(m, e, n)
  BY <1>1, <1>2, <1>3, Says DEF line
<1>5. e.op = "CMP" /\ e.rs = ra /\ e.rt = rb
  BY <1>1, <1>4, Mnemonics, OperandsFit DEF Is
<1>6. PICK f : f.op = "BR" /\ f.nzp = Flags[op] /\ f.imm = Reached(j) % Targets /\ Fetched(n, f, k)
  BY GotoSays DEF Conds
<1>7. Ok(Vote(c)) /\ Vote(c).acc \in Sums /\ Vote(c).voted = TRUE /\ c.written \subseteq Vote(c).written
  <2>1. Ok(Vote(c))
    BY OkUpdates
  <2>2. Vote(c).acc \in Sums
    BY <2>1 DEF Ok
  <2> QED BY <2>1, <2>2 DEF Vote, Shot
<1>8. c.regs[ra] \in Nat /\ c.regs[rb] \in Nat
  BY DEF Ok, Words
<1>9. ASSUME NEW t, Rests(t, m, c) PROVE \E u : Reaches(t, u) /\ Rests(u, to, Vote(c))
  <2>1. Thread(t) /\ View(t) = c /\ t.regs = c.regs
    BY <1>9, Seen
  <2>2. t.pc \in DOMAIN prog /\ prog[t.pc].does = e /\ (t.pc + 1) % Targets = Reached(n) % Targets
    BY <1>4, <1>9 DEF Fetched
  <2>3. PICK u : u = Chip!T!Stepped(t, e)
    OBVIOUS
  <2>4. /\ Thread(u) /\ u.pc = (t.pc + 1) % Targets /\ u.read = t.read /\ View(u) = Vote(c)
        /\ u.flag = IF c.regs[ra] < c.regs[rb] THEN "N" ELSE IF c.regs[ra] = c.regs[rb] THEN "Z" ELSE "P"
    BY <1>5, <2>1, <2>3, DoesCompare DEF Flagged
  <2>5. u = Did(t)
    BY <2>2, <2>3 DEF Did
  <2>9. e.op \in Used
    BY <1>5 DEF Used
  <2>6. Reaches(t, u) /\ Rests(u, n, Vote(c))
    BY <2>9, <1>7, <1>9, <2>2, <2>4, <2>5, Arrives
  <2>7. to = IF Chip!T!FlagBit[u.flag] \in f.nzp THEN j ELSE k
    <3>1. CASE c.regs[ra] < c.regs[rb]
      BY <1>6, <1>8, <2>4, <3>1 DEF Chip!T!FlagBit, Flags, Taken, Conds
    <3>2. CASE c.regs[ra] = c.regs[rb]
      BY <1>6, <1>8, <2>4, <3>2 DEF Chip!T!FlagBit, Flags, Taken, Conds
    <3>3. CASE c.regs[ra] > c.regs[rb]
      BY <1>6, <1>8, <2>4, <3>3 DEF Chip!T!FlagBit, Flags, Taken, Conds
    <3> QED BY <1>8, <3>1, <3>2, <3>3
  <2>8. PICK v : Reaches(u, v) /\ Rests(v, to, Vote(c))
    BY <1>6, <2>6, <2>7, BranchTakes
  <2> QED BY <2>6, <2>8, ReachTrans
<1>10. Goes(m, c, to, Vote(c))
  BY <1>9 DEF Goes
<1> HIDE DEF to
<1>11. to = IF Taken(op, c.regs[ra], c.regs[rb]) THEN j ELSE k
  BY DEF to
<1> QED BY <1>7, <1>10, <1>11

-----------------------------------------------------------------------------
(* Lines of several words.                                                  *)
Stood(t, p, c) == Thread(t) /\ Sound(t) /\ View(t) = c /\ t.pc = p % Targets

\* One word of them.
LEMMA WordStep ==
  ASSUME NEW t, NEW p, NEW c, Stood(t, p, c), p % Targets = p, p \in DOMAIN prog, prog[p].does.op \in Used,
         NEW u, u = Chip!T!Stepped(t, prog[p].does), Thread(u), u.read = t.read, NEW d, View(u) = d,
         c.written \subseteq d.written, Ok(d), NEW q, u.pc = q % Targets
  PROVE  Reaches(t, u) /\ Stood(u, q, d)
<1>1. t.written = c.written /\ u.written = d.written /\ t.pc = p /\ u.unit.acc = d.acc
  BY DEF Stood, View, Shot
<1>2. Sound(u)
  BY <1>1 DEF Stood, Sound, Ok
<1>3. Steps(t, u)
  BY <1>1 DEF Stood, Thread, Steps, Did
<1> QED BY <1>2, <1>3, ReachStep DEF Stood

\* LDI Rd,#v.
LEMMA LdiGoes ==
  ASSUME Sizes, InPlace, NEW m, NEW k, NEW rd \in Regs, NEW v \in Words,
         Code(m, <<Ins("LDI", <<R(rd), Imm(v)>>)>>, k), NEW c, Ok(c)
  PROVE  Goes(m, c, k, Put(c, rd, v)) /\ Ok(Put(c, rd, v))
<1> DEFINE args == <<R(rd), Imm(v)>>
           line == Ins("LDI", args)
           p == Reached(m)
           hi == v \div 4096
           mid == v \div 64
<1>1. /\ line.op = "LDI" /\ line.args = args /\ args[1] = R(rd) /\ args[2] = Imm(v)
  BY DEF Ins, Line
<1>2. k = m + 1 /\ m \in 1 .. Len(source) /\ source[m] = line
  BY CodeOne
<1>3. ~Blank(line) /\ WordCount(line.op) = 3 /\ "LDI" \in Known
  BY <1>1 DEF Blank, WordCount, Known
<1> HIDE DEF line, args
<1>4. /\ p \in Nat /\ p + 3 <= Targets /\ Reached(k) = p + 3
      /\ \A j \in 1 .. 3 :
           p + j - 1 \in DOMAIN prog /\ prog[p + j - 1].does = Decode(Encode(line, p, labels)[j])
  BY <1>2, <1>3, LineAt
<1>5. Encode(line, p, labels) = Ldi(rd, v)
  <2>1. RegOf(R(rd)) = rd
    <3>1. rd < U16
      BY DEF Regs, U16
    <3> QED BY <3>1 DEF RegOf, R
  <2>2. ImmOf(Imm(v)) = v
    BY DEF ImmOf, Imm, Words
  <2>3. Encode(line, p, labels) = Ldi(RegOf(line.args[1]), ImmOf(line.args[2]))
    BY <1>1, <1>3 DEF Encode
  <2> QED BY <1>1, <2>1, <2>2, <2>3
<1>6. /\ Ldi(rd, v)[1] = W(2, rd, 0, hi) /\ Ldi(rd, v)[2] = W(2, rd, 4, mid) /\ Ldi(rd, v)[3] = W(2, rd, 4, v)
  BY DEF Ldi, ImmSize
<1>7. /\ v \in Nat /\ v < U16 /\ hi \in Nat /\ hi < 64 /\ mid \in Nat /\ mid < U16
      /\ hi * 64 + (mid % 64) = mid /\ mid * 64 + (v % 64) = v
  BY Sixes DEF Words
<1>8. hi \in Words /\ mid \in Words /\ hi % 64 = hi
  BY <1>7 DEF Words, U16
<1> HIDE DEF p, hi, mid
<1>9. /\ p \in DOMAIN prog /\ p + 1 \in DOMAIN prog /\ p + 2 \in DOMAIN prog
      /\ p % Targets = p /\ (p + 1) % Targets = p + 1 /\ (p + 2) % Targets = p + 2
      /\ prog[p].does = Decode(W(2, rd, 0, hi)) /\ prog[p + 1].does = Decode(W(2, rd, 4, mid))
      /\ prog[p + 2].does = Decode(W(2, rd, 4, v))
  <2>1. /\ p + 1 - 1 = p /\ p + 2 - 1 = p + 1 /\ p + 3 - 1 = p + 2
        /\ 1 \in 1 .. 3 /\ 2 \in 1 .. 3 /\ 3 \in 1 .. 3 /\ 3 \in 1 .. 4
    BY <1>4
  <2>2. \A j \in 1 .. 3 : (p + j - 1) % Targets = p + j - 1
    BY <1>4, <2>1, Counter
  <2>3. \A j \in 1 .. 3 : p + j - 1 \in DOMAIN prog /\ prog[p + j - 1].does = Decode(Ldi(rd, v)[j])
    BY <1>4, <1>5
  <2>4. /\ p + 1 - 1 \in DOMAIN prog /\ prog[p + 1 - 1].does = Decode(Ldi(rd, v)[1])
        /\ p + 2 - 1 \in DOMAIN prog /\ prog[p + 2 - 1].does = Decode(Ldi(rd, v)[2])
        /\ p + 3 - 1 \in DOMAIN prog /\ prog[p + 3 - 1].does = Decode(Ldi(rd, v)[3])
        /\ (p + 1 - 1) % Targets = p + 1 - 1 /\ (p + 2 - 1) % Targets = p + 2 - 1
        /\ (p + 3 - 1) % Targets = p + 3 - 1
    BY <2>1, <2>2, <2>3
  <2> QED BY <1>6, <2>1, <2>4
<1>10. PICK e1 : e1 = Decode(W(2, rd, 0, hi))
  OBVIOUS
<1>11. PICK e2 : e2 = Decode(W(2, rd, 4, mid))
  OBVIOUS
<1>12. PICK e3 : e3 = Decode(W(2, rd, 4, v))
  OBVIOUS
<1>13. e1.op = "MOV" /\ e1.rd = rd /\ e1.imm = hi
  <2>1. Reads(e1, MovVariant(0), rd, IF 0 = 4 THEN rd ELSE 0, hi)
    BY <1>7, <1>10, MovWord DEF Regs
  <2> QED BY <1>8, <2>1 DEF Reads, MovVariant
<1>14. e2.op = "LUI" /\ e2.rd = rd /\ e2.rs = rd /\ e2.imm = mid % 64
  <2>1. Reads(e2, MovVariant(4), rd, IF 4 = 4 THEN rd ELSE 4, mid)
    BY <1>7, <1>11, MovWord DEF Regs
  <2> QED BY <2>1 DEF Reads, MovVariant
<1>15. e3.op = "LUI" /\ e3.rd = rd /\ e3.rs = rd /\ e3.imm = v % 64
  <2>1. Reads(e3, MovVariant(4), rd, IF 4 = 4 THEN rd ELSE 4, v)
    BY <1>7, <1>12, MovWord DEF Regs
  <2> QED BY <2>1 DEF Reads, MovVariant
<1> DEFINE c1 == Put(c, rd, hi)
           c2 == Put(c1, rd, mid)
           c3 == Put(c2, rd, v)
<1>16. /\ Ok(c1) /\ Ok(c2) /\ Ok(c3) /\ c1.regs[rd] = hi /\ c2.regs[rd] = mid /\ c3 = Put(c, rd, v)
       /\ c.written = c1.written /\ c1.written = c2.written /\ c2.written = c3.written
  <2>1. Ok(c1)
    BY <1>8, OkUpdates
  <2>2. c1.regs = [c.regs EXCEPT ![rd] = hi] /\ c.regs \in [Regs -> Words] /\ c1.written = c.written
        /\ c1.mem = c.mem /\ c1.acc = c.acc /\ c1.out = c.out /\ c1.voted = c.voted
    BY DEF Put, Shot, Ok
  <2> HIDE DEF c1
  <2>3. Ok(c2)
    BY <1>8, <2>1, OkUpdates
  <2>4. c2.regs = [c1.regs EXCEPT ![rd] = mid] /\ c2.written = c1.written
        /\ c2.mem = c1.mem /\ c2.acc = c1.acc /\ c2.out = c1.out /\ c2.voted = c1.voted
    BY DEF Put, Shot
  <2> HIDE DEF c2
  <2>5. Ok(c3)
    BY <2>3, OkUpdates
  <2>6. [c2.regs EXCEPT ![rd] = v] = [c.regs EXCEPT ![rd] = v]
    BY <2>2, <2>4
  <2>7. c3.written = c2.written /\ c3 = Put(c, rd, v)
    BY <2>2, <2>4, <2>6 DEF Put, Shot
  <2> QED BY <2>1, <2>2, <2>3, <2>4, <2>5, <2>7
<1> HIDE DEF c1, c2, c3
<1> SUFFICES ASSUME NEW t, Rests(t, m, c) PROVE \E u : Reaches(t, u) /\ Rests(u, k, c3)
  BY <1>16 DEF Goes
<1>17. Stood(t, p, c)
  BY DEF Rests, Stood, p
<1>18. PICK t1 : t1 = Chip!T!Stepped(t, e1)
  OBVIOUS
<1>19. Reaches(t, t1) /\ Stood(t1, p + 1, c1)
  <2>1. Thread(t) /\ View(t) = c /\ t.pc = p
    BY <1>9, <1>17 DEF Stood
  <2>2. Chip!T!Value(t, e1, t.regs[e1.rs], t.regs[e1.rt]) = hi
    BY <1>13 DEF Chip!T!Value
  <2>3. Thread(t1) /\ t1.pc = (t.pc + 1) % Targets /\ t1.read = t.read /\ View(t1) = c1
    BY <1>8, <1>13, <1>18, <2>1, <2>2, DoesPut DEF c1
  <2>4. e1.op \in Used
    BY <1>13 DEF Used
  <2> QED BY <2>4, <1>9, <1>10, <1>16, <1>17, <1>18, <2>1, <2>3, WordStep
<1>20. PICK t2 : t2 = Chip!T!Stepped(t1, e2)
  OBVIOUS
<1>21. Reaches(t1, t2) /\ Stood(t2, p + 2, c2)
  <2>1. Thread(t1) /\ View(t1) = c1 /\ t1.pc = p + 1 /\ t1.regs = c1.regs /\ (p + 1) + 1 = p + 2
    BY <1>4, <1>9, <1>19 DEF Stood, View, Shot
  <2>2. Chip!T!Value(t1, e2, t1.regs[e2.rs], t1.regs[e2.rt]) = mid
    <3>1. (mid % 64) % 64 = mid % 64
      BY <1>7
    <3> QED BY <1>7, <1>14, <1>16, <2>1, <3>1 DEF Chip!T!Value, ImmSize
  <2>3. Thread(t2) /\ t2.pc = (t1.pc + 1) % Targets /\ t2.read = t1.read /\ View(t2) = c2
    BY <1>8, <1>14, <1>20, <2>1, <2>2, DoesPut DEF c2
  <2>4. e2.op \in Used
    BY <1>14 DEF Used
  <2> QED BY <2>4, <1>9, <1>11, <1>16, <1>19, <1>20, <2>1, <2>3, WordStep
<1>22. PICK t3 : t3 = Chip!T!Stepped(t2, e3)
  OBVIOUS
<1>23. Reaches(t2, t3) /\ Stood(t3, p + 3, c3)
  <2>1. Thread(t2) /\ View(t2) = c2 /\ t2.pc = p + 2 /\ t2.regs = c2.regs /\ (p + 2) + 1 = p + 3
    BY <1>4, <1>9, <1>21 DEF Stood, View, Shot
  <2>2. Chip!T!Value(t2, e3, t2.regs[e3.rs], t2.regs[e3.rt]) = v
    <3>1. (v % 64) % 64 = v % 64
      BY <1>7
    <3> QED BY <1>7, <1>15, <1>16, <2>1, <3>1 DEF Chip!T!Value, ImmSize
  <2>3. Thread(t3) /\ t3.pc = (t2.pc + 1) % Targets /\ t3.read = t2.read /\ View(t3) = c3
    BY <1>15, <1>22, <2>1, <2>2, DoesPut DEF c3
  <2>4. e3.op \in Used
    BY <1>15 DEF Used
  <2> QED BY <2>4, <1>9, <1>12, <1>16, <1>21, <1>22, <2>1, <2>3, WordStep
<1>24. Rests(t3, k, c3)
  BY <1>4, <1>23 DEF Stood, Rests
<1> QED BY <1>19, <1>21, <1>23, <1>24, ReachTrans

\* The larger of what registers 4 and 5 hold.
Larger(c) == IF c.regs[5] < c.regs[4] THEN c.regs[4] ELSE c.regs[5]

\* A register written with what it holds.
LEMMA PutSame == ASSUME NEW c, Ok(c), NEW r \in Regs PROVE Put(c, r, c.regs[r]) = c
<1>1. [c.regs EXCEPT ![r] = c.regs[r]] = c.regs
  BY DEF Ok
<1> QED BY <1>1 DEF Ok, Put

\* MAX R4,R4,R5.
LEMMA MaxGoes ==
  ASSUME Sizes, InPlace, NEW m, NEW k, Code(m, <<Ins("MAX", <<R(4), R(4), R(5)>>)>>, k), NEW c, Ok(c)
  PROVE  Goes(m, c, k, Put(Vote(c), 4, Larger(c))) /\ Ok(Put(Vote(c), 4, Larger(c)))
<1> DEFINE args == <<R(4), R(4), R(5)>>
           line == Ins("MAX", args)
           p == Reached(m)
           d == Put(Vote(c), 4, Larger(c))
<1>1. /\ line.op = "MAX" /\ line.args = args /\ args[1] = R(4) /\ args[2] = R(4) /\ args[3] = R(5)
  BY DEF Ins, Line
<1>2. k = m + 1 /\ m \in 1 .. Len(source) /\ source[m] = line
  BY CodeOne
<1>3. ~Blank(line) /\ WordCount(line.op) = 4 /\ "MAX" \in Known
  BY <1>1 DEF Blank, WordCount, Known
<1> HIDE DEF line, args
<1>4. /\ p \in Nat /\ p + 4 <= Targets /\ Reached(k) = p + 4
      /\ \A j \in 1 .. 4 :
           p + j - 1 \in DOMAIN prog /\ prog[p + j - 1].does = Decode(Encode(line, p, labels)[j])
  BY <1>2, <1>3, LineAt
<1>5. Encode(line, p, labels) = Max4(4, 4, 5, p)
  <2>1. RegOf(R(4)) = 4 /\ RegOf(R(5)) = 5
    BY DEF RegOf, R, U16
  <2>2. Encode(line, p, labels) = Max4(RegOf(line.args[1]), RegOf(line.args[2]), RegOf(line.args[3]), p)
    BY <1>1, <1>3 DEF Encode
  <2> QED BY <1>1, <2>1, <2>2
<1>6. /\ Max4(4, 4, 5, p)[1] = W(5, 4, 4, 0) /\ Max4(4, 4, 5, p)[2] = W(3, 0, 5, 4)
      /\ Max4(4, 4, 5, p)[3] = Branch(4, p + 4) /\ Max4(4, 4, 5, p)[4] = W(5, 4, 5, 0)
  BY DEF Max4, Mask
<1> HIDE DEF p
<1>9. /\ p \in DOMAIN prog /\ p + 1 \in DOMAIN prog /\ p + 2 \in DOMAIN prog /\ p + 3 \in DOMAIN prog
      /\ p % Targets = p /\ (p + 1) % Targets = p + 1 /\ (p + 2) % Targets = p + 2 /\ (p + 3) % Targets = p + 3
      /\ prog[p].does = Decode(W(5, 4, 4, 0)) /\ prog[p + 1].does = Decode(W(3, 0, 5, 4))
      /\ prog[p + 2].does = Decode(Branch(4, p + 4)) /\ prog[p + 3].does = Decode(W(5, 4, 5, 0))
  <2>1. /\ p + 1 - 1 = p /\ p + 2 - 1 = p + 1 /\ p + 3 - 1 = p + 2 /\ p + 4 - 1 = p + 3
        /\ 1 \in 1 .. 4 /\ 2 \in 1 .. 4 /\ 3 \in 1 .. 4 /\ 4 \in 1 .. 4
    BY <1>4
  <2>2. \A j \in 1 .. 4 : (p + j - 1) % Targets = p + j - 1
    BY <1>4, <2>1, Counter
  <2>3. \A j \in 1 .. 4 : p + j - 1 \in DOMAIN prog /\ prog[p + j - 1].does = Decode(Max4(4, 4, 5, p)[j])
    BY <1>4, <1>5
  <2>4. /\ p + 1 - 1 \in DOMAIN prog /\ prog[p + 1 - 1].does = Decode(Max4(4, 4, 5, p)[1])
        /\ p + 2 - 1 \in DOMAIN prog /\ prog[p + 2 - 1].does = Decode(Max4(4, 4, 5, p)[2])
        /\ p + 3 - 1 \in DOMAIN prog /\ prog[p + 3 - 1].does = Decode(Max4(4, 4, 5, p)[3])
        /\ p + 4 - 1 \in DOMAIN prog /\ prog[p + 4 - 1].does = Decode(Max4(4, 4, 5, p)[4])
        /\ (p + 1 - 1) % Targets = p + 1 - 1 /\ (p + 2 - 1) % Targets = p + 2 - 1
        /\ (p + 3 - 1) % Targets = p + 3 - 1 /\ (p + 4 - 1) % Targets = p + 4 - 1
    BY <2>1, <2>2, <2>3
  <2> QED BY <1>6, <2>1, <2>4
<1>10. PICK e1 : e1 = Decode(W(5, 4, 4, 0))
  OBVIOUS
<1>11. PICK e2 : e2 = Decode(W(3, 0, 5, 4))
  OBVIOUS
<1>12. PICK e3 : e3 = Decode(Branch(4, p + 4))
  OBVIOUS
<1>13. PICK e4 : e4 = Decode(W(5, 4, 5, 0))
  OBVIOUS
<1>14. /\ e1.op = "ADDI" /\ e1.rd = 4 /\ e1.rs = 4 /\ e1.imm = 0
       /\ e4.op = "ADDI" /\ e4.rd = 4 /\ e4.rs = 5 /\ e4.imm = 0
  <2>1. 5 \in DOMAIN Plainly /\ Plainly[5] = "ADDI"
    BY DEF Plainly
  <2>2. Reads(e1, "ADDI", 4, 4, 0) /\ Reads(e4, "ADDI", 4, 5, 0)
    BY <1>10, <1>13, <2>1, PlainWord
  <2> QED BY <2>2 DEF Reads
<1>15. e2.op = "CMP" /\ e2.rs = 5 /\ e2.rt = 4
  <2>1. 3 \in DOMAIN Plainly /\ Plainly[3] = "CMP"
    BY DEF Plainly
  <2>2. Reads(e2, "CMP", 0, 5, 4)
    BY <1>11, <2>1, PlainWord
  <2> QED BY <2>2 DEF Reads
<1>16. e3.op = "BR" /\ e3.nzp = {2} /\ e3.imm = (p + 4) % Targets
  <2>1. BitsOf(4) = {2}
    BY ConditionBits
  <2>2. p + 4 \in Nat
    BY <1>4
  <2>3. e3.op = "BR" /\ e3.nzp = BitsOf(4) /\ e3.imm = (p + 4) % Targets
    BY <1>12, <2>2, BranchWord
  <2> QED BY <2>1, <2>3
<1>17. /\ c.regs[4] \in Words /\ c.regs[5] \in Words /\ 4 \in Regs /\ 5 \in Regs
       /\ c.regs[4] \in Nat /\ c.regs[5] \in Nat
       /\ Put(c, 4, c.regs[4]) = c /\ Ok(Vote(c)) /\ Ok(d)
       /\ Vote(c).regs = c.regs /\ c.written \subseteq Vote(c).written /\ Vote(c).written \subseteq d.written
  <2>1. 4 \in Regs /\ 5 \in Regs
    BY DEF Regs
  <2>2. c.regs[4] \in Words /\ c.regs[5] \in Words /\ Larger(c) \in Words
    BY <2>1 DEF Ok, Larger
  <2>3. Ok(Vote(c)) /\ Put(c, 4, c.regs[4]) = c
    BY <2>1, OkUpdates, PutSame
  <2>4. Ok(d)
    BY <2>1, <2>2, <2>3, OkUpdates
  <2> QED BY <2>1, <2>2, <2>3, <2>4 DEF Vote, Put, Shot, Words
<1> HIDE DEF d
<1>30. e1.op \in Used /\ e2.op \in Used /\ e3.op \in Used /\ e4.op \in Used
  BY <1>14, <1>15, <1>16 DEF Used
<1> SUFFICES ASSUME NEW t, Rests(t, m, c) PROVE \E u : Reaches(t, u) /\ Rests(u, k, d)
  BY <1>17 DEF Goes, d
<1>18. Stood(t, p, c)
  BY DEF Rests, Stood, p
<1>19. PICK t1 : t1 = Chip!T!Stepped(t, e1)
  OBVIOUS
<1>20. Reaches(t, t1) /\ Stood(t1, p + 1, c)
  <2>1. Thread(t) /\ View(t) = c /\ t.pc = p /\ t.regs = c.regs
    BY <1>9, <1>18 DEF Stood, View, Shot
  <2>2. Chip!T!Value(t, e1, t.regs[e1.rs], t.regs[e1.rt]) = c.regs[4]
    BY <1>14, <1>17, <2>1 DEF Chip!T!Value
  <2>3. Thread(t1) /\ t1.pc = (t.pc + 1) % Targets /\ t1.read = t.read /\ View(t1) = Put(c, 4, c.regs[4])
    BY <1>14, <1>17, <1>19, <2>1, <2>2, DoesPut
  <2>4. View(t1) = c
    BY <1>17, <2>3
  <2> QED BY <1>30, <1>9, <1>10, <1>18, <1>19, <2>1, <2>3, <2>4, WordStep
<1>21. PICK t2 : t2 = Chip!T!Stepped(t1, e2)
  OBVIOUS
<1>22. /\ Reaches(t1, t2) /\ Stood(t2, p + 2, Vote(c))
       /\ t2.flag = IF c.regs[5] < c.regs[4] THEN "N" ELSE IF c.regs[5] = c.regs[4] THEN "Z" ELSE "P"
  <2>1. Thread(t1) /\ View(t1) = c /\ t1.pc = p + 1 /\ t1.regs = c.regs /\ (p + 1) + 1 = p + 2
    BY <1>4, <1>9, <1>20 DEF Stood, View, Shot
  <2>2. Flagged(t1, t2, IF c.regs[5] < c.regs[4] THEN "N" ELSE IF c.regs[5] = c.regs[4] THEN "Z" ELSE "P")
    BY <1>15, <1>21, <2>1, DoesCompare
  <2>3. /\ Thread(t2) /\ t2.pc = (p + 2) % Targets /\ t2.read = t1.read /\ View(t2) = Vote(c)
        /\ t2.flag = IF c.regs[5] < c.regs[4] THEN "N" ELSE IF c.regs[5] = c.regs[4] THEN "Z" ELSE "P"
    BY <2>1, <2>2 DEF Flagged
  <2> QED BY <1>30, <1>9, <1>11, <1>17, <1>20, <1>21, <2>1, <2>3, WordStep
<1>23. PICK t3 : t3 = Chip!T!Stepped(t2, e3)
  OBVIOUS
<1>24. /\ Thread(t2) /\ View(t2) = Vote(c) /\ t2.pc = p + 2 /\ (p + 2) + 1 = p + 3
       /\ Thread(t3) /\ t3.read = t2.read /\ View(t3) = Vote(c)
       /\ t3.pc = IF Chip!T!FlagBit[t2.flag] \in {2} THEN (p + 4) % Targets ELSE (p + 3) % Targets
  <2>1. Thread(t2) /\ View(t2) = Vote(c) /\ t2.pc = p + 2 /\ (p + 2) + 1 = p + 3
    BY <1>4, <1>9, <1>22 DEF Stood
  <2> QED BY <1>16, <1>23, <2>1, DoesBranch
<1>25. CASE c.regs[5] < c.regs[4]
  <2>1. t2.flag = "N"
    BY <1>22, <1>25
  <2>2. t3.pc = (p + 4) % Targets
    BY <1>24, <2>1 DEF Chip!T!FlagBit
  <2>3. Reaches(t2, t3) /\ Stood(t3, p + 4, Vote(c))
    BY <1>30, <1>9, <1>12, <1>17, <1>22, <1>23, <1>24, <2>2, WordStep
  <2>4. Vote(c) = d
    <3>1. Larger(c) = Vote(c).regs[4]
      BY <1>17, <1>25 DEF Larger
    <3> QED BY <1>17, <3>1, PutSame DEF d
  <2>5. Rests(t3, k, d)
    BY <1>4, <2>3, <2>4 DEF Stood, Rests
  <2> QED BY <1>20, <1>22, <2>3, <2>5, ReachTrans
<1>26. CASE ~(c.regs[5] < c.regs[4])
  <2>1. t2.flag = "Z" \/ t2.flag = "P"
    BY <1>22, <1>26
  <2>2. t3.pc = (p + 3) % Targets
    BY <1>24, <2>1 DEF Chip!T!FlagBit
  <2>3. Reaches(t2, t3) /\ Stood(t3, p + 3, Vote(c))
    BY <1>30, <1>9, <1>12, <1>17, <1>22, <1>23, <1>24, <2>2, WordStep
  <2>4. PICK t4 : t4 = Chip!T!Stepped(t3, e4)
    OBVIOUS
  <2>5. Reaches(t3, t4) /\ Stood(t4, p + 4, d)
    <3>1. Thread(t3) /\ View(t3) = Vote(c) /\ t3.pc = p + 3 /\ t3.regs = c.regs /\ (p + 3) + 1 = p + 4
      BY <1>4, <1>9, <1>17, <2>3 DEF Stood, View, Shot
    <3>2. Chip!T!Value(t3, e4, t3.regs[e4.rs], t3.regs[e4.rt]) = c.regs[5]
      BY <1>14, <1>17, <3>1 DEF Chip!T!Value
    <3>3. Thread(t4) /\ t4.pc = (t3.pc + 1) % Targets /\ t4.read = t3.read /\ View(t4) = Put(Vote(c), 4, c.regs[5])
      BY <1>14, <1>17, <2>4, <3>1, <3>2, DoesPut
    <3>4. View(t4) = d
      BY <1>26, <3>3 DEF d, Larger
    <3> QED BY <1>30, <1>9, <1>13, <1>17, <2>3, <2>4, <3>1, <3>3, <3>4, WordStep
  <2>6. Rests(t4, k, d)
    BY <1>4, <2>5 DEF Stood, Rests
  <2> QED BY <1>20, <1>22, <2>3, <2>5, <2>6, ReachTrans
<1> QED BY <1>25, <1>26

\* From line m and view c the program ends with view d.
Stops(m, c, d) == \A t : Rests(t, m, c) => \E u : Reaches(t, u) /\ u.halted = TRUE /\ View(u) = d

\* RET.
LEMMA RetStops ==
  ASSUME Sizes, InPlace, NEW m, NEW k, Code(m, <<Ins("RET", << >>)>>, k), NEW c
  PROVE  Stops(m, c, c)
<1> DEFINE args == << >>
           line == Ins("RET", args)
<1>1. line.op = "RET" /\ line.args = args /\ \E S : args \in Seq(S)
  BY DEF Ins, Line
<1>2. Fits(line)
  <2>1. RegArgs(line) = {} /\ ImmArg(line) = {}
    BY <1>1, Mnemonics DEF RegArgs, ImmArg
  <2> QED BY <2>1 DEF Fits
<1>3. "RET" \in Plainest /\ Code(m, <<line>>, k)
  BY DEF Plainest
<1> HIDE DEF line, args
<1>4. PICK e : Is(line, e) /\ Fetched(m, e, k)
  BY <1>1, <1>2, <1>3, Says DEF line
<1>5. e.op = "RET"
  BY <1>1, <1>4, Mnemonics DEF Is
<1> SUFFICES ASSUME NEW t, Rests(t, m, c) PROVE \E u : Reaches(t, u) /\ u.halted = TRUE /\ View(u) = c
  BY DEF Stops
<1>6. PICK u : u = Chip!T!Stepped(t, e)
  OBVIOUS
<1>7. u = Did(t) /\ t.pc \in DOMAIN prog
  BY <1>4, <1>6 DEF Fetched, Did
<1>8. Thread(t) /\ Sound(t) /\ View(t) = c
  BY DEF Rests
<1>9. u.halted = TRUE /\ u.read = t.read /\ View(u) = c
  BY <1>5, <1>6, <1>8, DoesEnd
<1>10. t.written = c.written /\ u.written = c.written /\ u.unit.acc = t.unit.acc
  BY <1>8, <1>9 DEF View, Shot
<1>12. prog[t.pc].does.op \in Used
  BY <1>4, <1>5 DEF Fetched, Used
<1>11. Sound(u) /\ Steps(t, u)
  BY <1>12, <1>7, <1>8, <1>9, <1>10 DEF Sound, Steps, Thread
<1> QED BY <1>8, <1>9, <1>11, ReachStep

\* A way that comes to where the program stops.
LEMMA StopsThere ==
  ASSUME NEW m, NEW c, NEW k, NEW d, NEW e, Goes(m, c, k, d), Stops(k, d, e)
  PROVE  Stops(m, c, e)
<1> SUFFICES ASSUME NEW t, Rests(t, m, c) PROVE \E u : Reaches(t, u) /\ u.halted = TRUE /\ View(u) = e
  BY DEF Stops
<1>1. PICK v : Reaches(t, v) /\ Rests(v, k, d)
  BY DEF Goes
<1>2. PICK u : Reaches(v, u) /\ u.halted = TRUE /\ View(u) = e
  BY <1>1 DEF Stops
<1> QED BY <1>1, <1>2, ReachTrans

-----------------------------------------------------------------------------
(* Pieces of a kernel.                                                      *)
Same(c, d, rs) ==
  /\ d.mem = c.mem /\ d.acc = c.acc /\ d.out = c.out /\ d.written = c.written
  /\ c.voted = TRUE => d.voted = TRUE
  /\ \A q \in Regs \ rs : d.regs[q] = c.regs[q]

\* From m to k only the registers rs change.
Passes(m, c, k, d, rs) == Goes(m, c, k, d) /\ Ok(d) /\ Same(c, d, rs)

\* ... and r becomes v.
Gives(m, c, k, rs, r, v) == \E d : Passes(m, c, k, d, rs) /\ d.regs[r] = v

\* One passage continues another, and changes the registers of both.
LEMMA MovesTrans ==
  ASSUME NEW m, NEW c, NEW k, NEW d, NEW j, NEW e, NEW rs, NEW qs, Passes(m, c, k, d, rs), Passes(k, d, j, e, qs)
  PROVE  Passes(m, c, j, e, rs \cup qs)
<1>1. Goes(m, c, j, e)
  BY GoesTrans DEF Passes
<1>2. Same(c, e, rs \cup qs)
  BY DEF Same, Passes
<1> QED BY <1>1, <1>2 DEF Passes

\* A register is written.
LEMMA PutSees ==
  ASSUME NEW c, Ok(c), NEW r \in Regs, NEW v \in Words
  PROVE  Ok(Put(c, r, v)) /\ Same(c, Put(c, r, v), {r}) /\ Put(c, r, v).regs[r] = v
<1>1. Ok(Put(c, r, v))
  BY OkUpdates
<1>2. c.regs \in [Regs -> Words] /\ Put(c, r, v).regs = [c.regs EXCEPT ![r] = v]
  BY DEF Ok, Put, Shot
<1>3. Same(c, Put(c, r, v), {r})
  BY <1>2 DEF Same, Put, Shot
<1> QED BY <1>1, <1>2, <1>3

\* Rd := a number.
LEMMA LitGoes ==
  ASSUME Sizes, InPlace, NEW m, NEW k, NEW r \in Regs, NEW v \in Words, Code(m, Lit(r, v), k), NEW c, Ok(c)
  PROVE  Gives(m, c, k, {r}, r, v)
<1>1. v \in Nat /\ IMM_MAX = 63
  BY DEF Words, Sizes
<1>2. Goes(m, c, k, Put(c, r, v))
  <2>1. CASE v <= 63
    <3>1. Lit(r, v) = <<Ins("MOV", <<R(r), Imm(v)>>)>>
      BY <1>1, <2>1 DEF Lit
    <3>2. Code(m, <<Ins("MOV", <<R(r), Imm(v)>>)>>, k)
      BY <3>1
    <3> QED BY <1>1, <2>1, <3>2, MovGoes
  <2>2. CASE ~(v <= 63)
    <3>1. Lit(r, v) = <<Ins("LDI", <<R(r), Imm(v)>>)>>
      BY <1>1, <2>2 DEF Lit
    <3>2. Code(m, <<Ins("LDI", <<R(r), Imm(v)>>)>>, k)
      BY <3>1
    <3> QED BY <3>2, LdiGoes
  <2> QED BY <2>1, <2>2
<1> QED BY <1>2, PutSees DEF Passes, Gives

\* Rd := Rs + a small number.
LEMMA AddiMoves ==
  ASSUME Sizes, InPlace, NEW m, NEW k, NEW rd \in Regs, NEW rs \in Regs, NEW v \in Nat, v <= 63,
         Code(m, Addi(rd, rs, v), k), NEW c, Ok(c), c.regs[rs] + v \in Words
  PROVE  Gives(m, c, k, {rd}, rd, c.regs[rs] + v)
<1>1. Goes(m, c, k, Put(c, rd, c.regs[rs] + v))
  BY AddiGoes
<1> QED BY <1>1, PutSees DEF Passes, Gives

\* No line at all.
LEMMA NoneGoes ==
  ASSUME NEW m, NEW k, Code(m, << >>, k), NEW c, Ok(c), NEW rs PROVE Passes(m, c, k, c, rs)
<1>1. m = k
  <2>1. m \in Int /\ Len(<< >>) = 0 /\ k = m + Len(<< >>)
    BY DEF Code
  <2> QED BY <2>1
<1> QED BY <1>1, GoesSelf DEF Passes, Same

\* A literal and ADD.
LEMMA FarGoes ==
  ASSUME Sizes, InPlace, NEW m, NEW k, NEW r \in Regs, NEW v \in Words, NEW rd \in Regs, NEW rs \in Regs, rs # r,
         Code(m, Lit(r, v) \o <<Ins("ADD", <<R(rd), R(rd), R(IF rd = r THEN rs ELSE r)>>)>>, k),
         rd = r \/ rd = rs, NEW c, Ok(c), c.regs[rs] + v \in Words
  PROVE  Gives(m, c, k, {r, rd}, rd, c.regs[rs] + v)
<1> DEFINE rt == IF rd = r THEN rs ELSE r
           add == <<Ins("ADD", <<R(rd), R(rd), R(rt)>>)>>
<1>1. rt \in Regs /\ KnownCode(add) /\ KnownCode(Lit(r, v))
  BY Written, InsKnown, Pieces
<1>2. PICK j : Code(m, Lit(r, v), j) /\ Code(j, add, k)
  BY <1>1, CodeCat
<1>3. PICK e : Passes(m, c, j, e, {r}) /\ e.regs[r] = v
  <2>1. Gives(m, c, j, {r}, r, v)
    BY <1>2, LitGoes
  <2> QED BY <2>1 DEF Gives
<1>4. Ok(e) /\ e.regs[rs] = c.regs[rs] /\ c.regs[rs] \in Nat /\ v \in Nat
  BY <1>3 DEF Passes, Same, Ok, Words
<1>5. e.regs[rd] + e.regs[rt] = c.regs[rs] + v
  BY <1>3, <1>4
<1>6. Goes(j, e, k, Put(e, rd, c.regs[rs] + v))
  BY <1>1, <1>2, <1>4, <1>5, AddGoes
<1>7. Passes(j, e, k, Put(e, rd, c.regs[rs] + v), {rd}) /\ Put(e, rd, c.regs[rs] + v).regs[rd] = c.regs[rs] + v
  BY <1>4, <1>6, PutSees DEF Passes
<1>8. Passes(m, c, k, Put(e, rd, c.regs[rs] + v), {r} \cup {rd})
  BY <1>3, <1>7, MovesTrans
<1>9. {r} \cup {rd} = {r, rd}
  OBVIOUS
<1> QED BY <1>7, <1>8, <1>9 DEF Gives

\* r := r + v.
LEMMA BumpGoes ==
  ASSUME Sizes, InPlace, NEW m, NEW k, NEW r \in Regs, NEW v \in Words, NEW scratch \in Regs, r # scratch,
         Code(m, Bump(r, v, scratch), k), NEW c, Ok(c), c.regs[r] + v \in Words
  PROVE  Gives(m, c, k, {r, scratch}, r, c.regs[r] + v)
<1>1. v \in Nat /\ IMM_MAX = 63 /\ c.regs[r] \in Nat
  BY DEF Words, Sizes, Ok
<1>2. CASE v = 0
  <2>1. Code(m, << >>, k)
    BY <1>2 DEF Bump
  <2>2. Passes(m, c, k, c, {r, scratch}) /\ c.regs[r] = c.regs[r] + v
    BY <1>1, <1>2, <2>1, NoneGoes
  <2> QED BY <2>2 DEF Gives
<1>3. CASE v # 0 /\ v <= 63
  <2>1. Code(m, Addi(r, r, v), k)
    BY <1>1, <1>3 DEF Bump
  <2>2. Gives(m, c, k, {r}, r, c.regs[r] + v)
    BY <1>1, <1>3, <2>1, AddiMoves
  <2>3. \A d : Passes(m, c, k, d, {r}) => Passes(m, c, k, d, {r, scratch})
    BY DEF Passes, Same
  <2> QED BY <2>2, <2>3 DEF Gives
<1>4. CASE ~(v <= 63)
  <2>1. Bump(r, v, scratch) = Lit(scratch, v) \o <<Ins("ADD", <<R(r), R(r), R(scratch)>>)>>
    BY <1>1, <1>4 DEF Bump
  <2>2. (IF r = scratch THEN r ELSE scratch) = scratch
    OBVIOUS
  <2>3. Code(m, Lit(scratch, v) \o <<Ins("ADD", <<R(r), R(r), R(IF r = scratch THEN r ELSE scratch)>>)>>, k)
    BY <2>1, <2>2
  <2>4. Gives(m, c, k, {scratch, r}, r, c.regs[r] + v)
    BY <2>3, FarGoes
  <2>5. {scratch, r} = {r, scratch}
    OBVIOUS
  <2> QED BY <2>4, <2>5
<1> QED BY <1>2, <1>3, <1>4

\* rd := rs + v.
LEMMA AheadGoes ==
  ASSUME Sizes, InPlace, NEW m, NEW k, NEW rd \in Regs, NEW rs \in Regs, rd # rs, NEW v \in Words,
         Code(m, Ahead(rd, rs, v), k), NEW c, Ok(c), c.regs[rs] + v \in Words
  PROVE  Gives(m, c, k, {rd}, rd, c.regs[rs] + v)
<1>1. v \in Nat /\ IMM_MAX = 63
  BY DEF Words, Sizes
<1>2. CASE v <= 63
  <2>1. Code(m, Addi(rd, rs, v), k)
    BY <1>1, <1>2 DEF Ahead
  <2> QED BY <1>1, <1>2, <2>1, AddiMoves
<1>3. CASE ~(v <= 63)
  <2>1. Ahead(rd, rs, v) = Lit(rd, v) \o <<Ins("ADD", <<R(rd), R(rd), R(rs)>>)>>
    BY <1>1, <1>3 DEF Ahead
  <2>2. (IF rd = rd THEN rs ELSE rd) = rs
    OBVIOUS
  <2>3. Code(m, Lit(rd, v) \o <<Ins("ADD", <<R(rd), R(rd), R(IF rd = rd THEN rs ELSE rd)>>)>>, k)
    BY <2>1, <2>2
  <2>4. Gives(m, c, k, {rd, rd}, rd, c.regs[rs] + v)
    BY <2>3, FarGoes
  <2>5. {rd, rd} = {rd}
    OBVIOUS
  <2> QED BY <2>4, <2>5
<1> QED BY <1>2, <1>3

\* From m and c to k and d, which is b but for the registers rs.
Turns(m, c, k, d, b, rs) == Goes(m, c, k, d) /\ Ok(d) /\ Same(b, d, rs)

\* CMP and BRzp or BRnz.
LEMMA CmpMoves ==
  ASSUME Sizes, InPlace, NEW m, NEW n, NEW k, NEW ra \in Regs, NEW rb \in Regs, NEW op \in Conds, NEW label,
         NEW j, Code(m, Cmp(ra, rb), n), Code(n, Goto(op, label), k), Labelled(label, j), NEW c, Ok(c)
  PROVE  /\ Taken(op, c.regs[ra], c.regs[rb])  => Passes(m, c, j, Vote(c), {})
         /\ ~Taken(op, c.regs[ra], c.regs[rb]) => Passes(m, c, k, Vote(c), {})
         /\ Vote(c).voted = TRUE
<1>1. /\ Taken(op, c.regs[ra], c.regs[rb])  => Goes(m, c, j, Vote(c))
      /\ ~Taken(op, c.regs[ra], c.regs[rb]) => Goes(m, c, k, Vote(c))
      /\ Ok(Vote(c)) /\ Vote(c).voted = TRUE
  BY CmpGoes
<1>2. Same(c, Vote(c), {})
  BY DEF Same, Vote, Shot
<1> QED BY <1>1, <1>2 DEF Passes

\* At m, whose text is the head of a loop, control goes to the end once ra has reached rb and on to k before.
Leaves(m, ra, rb, end, k) ==
  \A j, c : Labelled(end, j) /\ Ok(c) =>
    /\ c.regs[ra] >= c.regs[rb]    => Passes(m, c, j, Vote(c), {})
    /\ ~(c.regs[ra] >= c.regs[rb]) => Passes(m, c, k, Vote(c), {})
    /\ Vote(c).voted = TRUE

\* The head of a loop.
LEMMA WhileGoes ==
  ASSUME Sizes, InPlace, NEW m, NEW k, NEW ra \in Regs, NEW rb \in Regs, NEW top, NEW end, top # NoLabel,
         Code(m, While(top, ra, rb, end), k)
  PROVE  Labelled(top, m) /\ Leaves(m, ra, rb, end, k)
<1>1. KnownCode(Here(top)) /\ KnownCode(Cmp(ra, rb)) /\ KnownCode(Goto("BRzp", end))
  BY Pieces, MarkKnown
<1>2. KnownCode(Here(top) \o Cmp(ra, rb))
  BY <1>1, KnownCat
<1>3. PICK n : Code(m, Here(top) \o Cmp(ra, rb), n) /\ Code(n, Goto("BRzp", end), k)
  BY <1>1, <1>2, CodeCat DEF While
<1>4. PICK h : Code(m, Here(top), h) /\ Code(h, Cmp(ra, rb), n)
  BY <1>1, <1>3, CodeCat
<1>5. Labelled(top, m) /\ \A c : Goes(m, c, h, c)
  BY <1>4, HereGoes
<1>6. ASSUME NEW j, NEW c, Labelled(end, j), Ok(c)
      PROVE  /\ c.regs[ra] >= c.regs[rb]    => Passes(m, c, j, Vote(c), {})
             /\ ~(c.regs[ra] >= c.regs[rb]) => Passes(m, c, k, Vote(c), {})
             /\ Vote(c).voted = TRUE
  <2>1. /\ Taken("BRzp", c.regs[ra], c.regs[rb])  => Goes(h, c, j, Vote(c))
        /\ ~Taken("BRzp", c.regs[ra], c.regs[rb]) => Goes(h, c, k, Vote(c))
        /\ Ok(Vote(c)) /\ Vote(c).voted = TRUE
    <3>1. "BRzp" \in Conds
      BY DEF Conds
    <3> QED BY <1>3, <1>4, <1>6, <3>1, CmpGoes
  <2>2. \A to : Goes(h, c, to, Vote(c)) => Goes(m, c, to, Vote(c))
    BY <1>5, GoesTrans
  <2>3. Same(c, Vote(c), {})
    BY DEF Same, Vote, Shot
  <2>4. Taken("BRzp", c.regs[ra], c.regs[rb]) <=> c.regs[ra] >= c.regs[rb]
    BY DEF Taken
  <2> QED BY <2>1, <2>2, <2>3, <2>4 DEF Passes
<1> QED BY <1>5, <1>6 DEF Leaves

\* One product to the sum.
LEMMA TapGoes ==
  ASSUME Sizes, InPlace, NEW m, NEW k, NEW f \in Regs \ {4}, NEW g \in Regs \ {4}, Code(m, Tap(f, g), k), NEW c, Ok(c),
         c.regs[f] < AddrSize, Readable(c, c.regs[f]), c.regs[g] < AddrSize, Readable(c, c.regs[g]),
         c.acc + c.mem[c.regs[f]] * Signed(c.mem[c.regs[g]]) \in Sums
  PROVE  \E d : Turns(m, c, k, d, Hold(c, c.acc + c.mem[c.regs[f]] * Signed(c.mem[c.regs[g]])), {4, 5})
<1> DEFINE mac == <<Ins("FMAC", <<R(4), R(5)>>)>>
           x1 == c.mem[c.regs[f]]
           y1 == c.mem[c.regs[g]]
           n  == c.acc + x1 * Signed(y1)
           d1 == Put(c, 4, x1)
           d2 == Put(d1, 5, y1)
           d3 == Hold(d2, n)
<1>1. KnownCode(Ldr(4, f)) /\ KnownCode(Ldr(5, g)) /\ KnownCode(mac)
  BY Written, InsKnown, Pieces
<1>2. KnownCode(Ldr(4, f) \o Ldr(5, g))
  BY <1>1, KnownCat
<1>3. PICK j2 : Code(m, Ldr(4, f) \o Ldr(5, g), j2) /\ Code(j2, mac, k)
  BY <1>1, <1>2, CodeCat DEF Tap
<1>4. PICK j1 : Code(m, Ldr(4, f), j1) /\ Code(j1, Ldr(5, g), j2)
  BY <1>1, <1>3, CodeCat
<1>0. 4 \in Regs /\ 5 \in Regs /\ f \in Regs /\ g \in Regs
  BY DEF Regs
<1>5. Goes(m, c, j1, d1) /\ Ok(d1) /\ x1 \in Bytes
  BY <1>0, <1>4, LdrGoes
<1>6. d1.mem = c.mem /\ d1.regs = [c.regs EXCEPT ![4] = x1] /\ d1.written = c.written /\ d1.acc = c.acc
      /\ d1.out = c.out /\ d1.voted = c.voted
  BY DEF Put, Shot
<1>7. c.regs \in [Regs -> Words]
  BY DEF Ok
<1>8. d1.regs[g] = c.regs[g] /\ d1.regs[4] = x1 /\ Readable(d1, c.regs[g])
  BY <1>0, <1>6, <1>7 DEF Readable
<1>9. Goes(j1, d1, j2, d2) /\ Ok(d2) /\ y1 \in Bytes
  <2> HIDE DEF d1
  <2>1. d1.regs[g] < AddrSize /\ Readable(d1, d1.regs[g]) /\ y1 = d1.mem[d1.regs[g]]
    BY <1>6, <1>8
  <2> HIDE DEF y1
  <2> QED BY <1>0, <1>4, <1>5, <2>1, LdrGoes
<1>10. d2.mem = c.mem /\ d2.regs = [d1.regs EXCEPT ![5] = y1] /\ d2.written = c.written /\ d2.acc = c.acc
       /\ d2.out = c.out /\ d2.voted = c.voted
  BY DEF Put, Shot
<1> HIDE DEF d2, d1
<1>11. d2.regs[4] = x1 /\ d2.regs[5] = y1 /\ \A q \in Regs \ {4, 5} : d2.regs[q] = c.regs[q]
  BY <1>0, <1>6, <1>7, <1>10
<1>12. Goes(j2, d2, k, d3) /\ Ok(d3)
  <2>1. d2.regs[4] < 256
    BY <1>5, <1>11 DEF Bytes
  <2>2. n \in Sums /\ n = d2.acc + d2.regs[4] * Signed(d2.regs[5])
    BY <1>10, <1>11
  <2> HIDE DEF n, x1, y1
  <2> QED BY <1>0, <1>3, <1>9, <2>1, <2>2, MacGoes
<1>13. Same(Hold(c, n), d3, {4, 5})
  BY <1>10, <1>11 DEF Same, Hold, Shot
<1>14. Goes(m, c, k, d3)
  <2> HIDE DEF d3
  <2> QED BY <1>5, <1>9, <1>12, GoesTrans
<1> HIDE DEF d3
<1> QED BY <1>12, <1>13, <1>14 DEF Turns

\* From m and c to k and d the neuron in the accumulator is stored.
Fires(m, c, k, r, shift, d) ==
  /\ Turns(m, c, k, d, Poke(Hold(c, 0), c.regs[3], Fout(c.acc, shift)), {r, 3})
  /\ d.regs[3] = c.regs[3] + 1

\* A neuron is stored.
LEMMA FireGoes ==
  ASSUME Sizes, InPlace, NEW m, NEW k, NEW r \in Regs \ {3}, NEW shift \in Nat, shift <= 7, Code(m, Fire(r, shift), k),
         NEW c, Ok(c), c.regs[3] < AddrSize, c.regs[3] # MMIO_TX
  PROVE  \E d : Fires(m, c, k, r, shift, d)
<1> DEFINE fout == <<Ins("FOUT", <<R(r), Imm(shift)>>)>>
           a  == c.regs[3]
           v  == Fout(c.acc, shift)
           d1 == Hold(Put(c, r, v), 0)
           d2 == Poke(d1, a, v)
           d3 == Put(d2, 3, a + 1)
<1>1. KnownCode(fout) /\ KnownCode(Str(r, 3)) /\ KnownCode(Addi(3, 3, 1))
  BY Written, InsKnown, Pieces
<1>2. KnownCode(fout \o Str(r, 3))
  BY <1>1, KnownCat
<1>3. PICK j2 : Code(m, fout \o Str(r, 3), j2) /\ Code(j2, Addi(3, 3, 1), k)
  BY <1>1, <1>2, CodeCat DEF Fire
<1>4. PICK j1 : Code(m, fout, j1) /\ Code(j1, Str(r, 3), j2)
  BY <1>1, <1>3, CodeCat
<1>0. 3 \in Regs /\ r \in Regs /\ a \in Nat /\ a + 1 \in Words /\ a \in 0 .. AddrSize - 1
  <2>1. 3 \in Regs /\ AddrSize \in Nat /\ AddrSize < U16 /\ U16 \in Nat
    BY DEF Regs, Sizes, Words, U16
  <2>2. a \in Nat
    BY <2>1 DEF Ok, Words
  <2> QED BY <2>1, <2>2 DEF Words
<1>5. Goes(m, c, j1, d1) /\ Ok(d1) /\ v \in Bytes
  BY <1>0, <1>4, FoutGoes
<1>6. d1.mem = c.mem /\ d1.regs = [c.regs EXCEPT ![r] = v] /\ d1.written = c.written /\ d1.acc = 0
      /\ d1.out = c.out /\ d1.voted = c.voted
  BY DEF Put, Shot, Hold
<1>7. c.regs \in [Regs -> Words]
  BY DEF Ok
<1>8. d1.regs[3] = a /\ d1.regs[r] = v /\ v < 256
  BY <1>0, <1>5, <1>6, <1>7 DEF Bytes
<1> HIDE DEF d1, v
<1>9. Goes(j1, d1, j2, d2) /\ Ok(d2)
  BY <1>0, <1>4, <1>5, <1>8, StrGoes
<1>10. d2.mem = [c.mem EXCEPT ![a] = v] /\ d2.regs = d1.regs /\ d2.written = c.written \cup {a} /\ d2.acc = 0
       /\ d2.out = c.out /\ d2.voted = c.voted
  BY <1>6 DEF Poke, Shot
<1> HIDE DEF d2, a
<1>11. Goes(j2, d2, k, d3) /\ Ok(d3)
  <2>1. d2.regs[3] + 1 \in Words /\ a + 1 = d2.regs[3] + 1 /\ 1 \in Nat /\ 1 <= 63
    BY <1>0, <1>8, <1>10
  <2> QED BY <1>0, <1>3, <1>9, <2>1, AddiGoes
<1>12. d3.mem = d2.mem /\ d3.regs = [d2.regs EXCEPT ![3] = a + 1] /\ d3.written = d2.written /\ d3.acc = 0
       /\ d3.out = c.out /\ d3.voted = c.voted
  BY <1>10 DEF Put, Shot
<1> HIDE DEF d3
<1>13. d3.regs[3] = a + 1 /\ \A q \in Regs \ {r, 3} : d3.regs[q] = c.regs[q]
  BY <1>0, <1>6, <1>7, <1>10, <1>12
<1>14. Same(Poke(Hold(c, 0), a, v), d3, {r, 3})
  BY <1>10, <1>12, <1>13 DEF Same, Hold, Poke, Shot
<1>15. Goes(m, c, k, d3)
  BY <1>5, <1>9, <1>11, GoesTrans
<1> QED BY <1>11, <1>13, <1>14, <1>15 DEF Fires, Turns, a, v

\* A text in five parts.
LEMMA CodeFive ==
  ASSUME NEW m, NEW k, NEW a, NEW b1, NEW b2, NEW b3, NEW b4,
         KnownCode(a), KnownCode(b1), KnownCode(b2), KnownCode(b3), KnownCode(b4),
         Code(m, a \o b1 \o b2 \o b3 \o b4, k)
  PROVE  \E j1, j2, j3, j4 : /\ Code(m, a, j1) /\ Code(j1, b1, j2) /\ Code(j2, b2, j3)
                             /\ Code(j3, b3, j4) /\ Code(j4, b4, k)
<1>1. KnownCode(a \o b1)
  BY KnownCat
<1>2. KnownCode(a \o b1 \o b2)
  BY <1>1, KnownCat
<1>3. KnownCode(a \o b1 \o b2 \o b3)
  BY <1>2, KnownCat
<1>4. PICK j4 : Code(m, a \o b1 \o b2 \o b3, j4) /\ Code(j4, b4, k)
  BY <1>3, CodeCat
<1>5. PICK j3 : Code(m, a \o b1 \o b2, j3) /\ Code(j3, b3, j4)
  BY <1>2, <1>4, CodeCat
<1>6. PICK j2 : Code(m, a \o b1, j2) /\ Code(j2, b2, j3)
  BY <1>1, <1>5, CodeCat
<1>7. PICK j1 : Code(m, a, j1) /\ Code(j1, b1, j2)
  BY <1>6, CodeCat
<1> QED BY <1>4, <1>5, <1>6, <1>7

\* A text in three parts.
LEMMA CodeThree ==
  ASSUME NEW m, NEW k, NEW a, NEW b1, NEW b2, KnownCode(a), KnownCode(b1), KnownCode(b2), Code(m, a \o b1 \o b2, k)
  PROVE  \E j1, j2 : Code(m, a, j1) /\ Code(j1, b1, j2) /\ Code(j2, b2, k)
<1>1. KnownCode(a \o b1)
  BY KnownCat
<1>2. PICK j2 : Code(m, a \o b1, j2) /\ Code(j2, b2, k)
  BY <1>1, CodeCat
<1>3. PICK j1 : Code(m, a, j1) /\ Code(j1, b1, j2)
  BY <1>2, CodeCat
<1> QED BY <1>2, <1>3

\* Where the rounds of an unrolled text lie.
LEMMA UnrolledAt ==
  ASSUME NEW n \in Nat, NEW code, \A t \in 0 .. n - 1 : KnownCode(code[t]), NEW m, NEW k, Code(m, Unrolled(n, code), k)
  PROVE  \E pos : /\ pos[0] = m /\ pos[n] = k
                  /\ \A t \in 0 .. n - 1 : Code(pos[t], code[t], pos[t + 1])
<1>1. \E g : Unrolled(n, code) = g[n] /\ ((\E h : Upto(n, code, h)) => Upto(n, code, g))
  BY DEF Unrolled, Upto
<1>2. PICK g : Unrolled(n, code) = g[n] /\ Upto(n, code, g)
  BY <1>1, UptoExists
<1>3. g[0] = << >> /\ \A t \in 0 .. n - 1 : g[t + 1] = g[t] \o code[t]
  <2>1. \A t \in 0 .. n : g[t] = IF t = 0 THEN << >> ELSE g[t - 1] \o code[t - 1]
    BY <1>2 DEF Upto
  <2>2. \A t \in 0 .. n - 1 : t + 1 \in 0 .. n /\ t + 1 # 0 /\ (t + 1) - 1 = t
    OBVIOUS
  <2>3. 0 \in 0 .. n
    OBVIOUS
  <2> QED BY <2>1, <2>2, <2>3
<1>4. \A t \in 0 .. n : KnownCode(g[t])
  <2> DEFINE S == {t \in 0 .. n : KnownCode(g[t])}
  <2>1. 0 \in S
    BY <1>3, KnownNone
  <2>2. ASSUME NEW t \in 0 .. n - 1, t \in S PROVE t + 1 \in S
    <3>1. KnownCode(g[t + 1])
      BY <1>3, <2>2, KnownCat
    <3>2. t + 1 \in 0 .. n
      OBVIOUS
    <3> QED BY <3>1, <3>2
  <2> HIDE DEF S
  <2>3. \A t \in 0 .. n : t \in S
    BY <2>1, <2>2, Climb
  <2> QED BY <2>3 DEF S
<1> DEFINE pos == [t \in 0 .. n |-> m + Len(g[t])]
           Lies(t) == Code(m, g[t], pos[t])
<1>5. \A t \in 0 .. n : pos[t] = m + Len(g[t])
  OBVIOUS
<1>6. n \in 0 .. n /\ 0 \in 0 .. n
  OBVIOUS
<1> HIDE DEF pos
<1>7. Lies(n) /\ pos[n] = k
  <2>1. Code(m, g[n], k)
    BY <1>2
  <2>2. k = m + Len(g[n])
    BY <2>1 DEF Code
  <2> QED BY <1>5, <1>6, <2>1, <2>2
<1>8. ASSUME NEW t \in 0 .. n - 1, Lies(t + 1) PROVE Lies(t) /\ Code(pos[t], code[t], pos[t + 1])
  <2>1. t \in 0 .. n /\ t + 1 \in 0 .. n
    OBVIOUS
  <2>2. PICK j : Code(m, g[t], j) /\ Code(j, code[t], pos[t + 1])
    <3>1. KnownCode(g[t]) /\ KnownCode(code[t])
      BY <1>4, <2>1
    <3>2. Code(m, g[t] \o code[t], pos[t + 1])
      BY <1>3, <1>8
    <3> HIDE DEF Lies
    <3> QED BY <3>1, <3>2, CodeCat
  <2>3. j = m + Len(g[t])
    BY <2>2 DEF Code
  <2> QED BY <1>5, <2>1, <2>2, <2>3
<1>9. \A t \in 0 .. n : Lies(t)
  <2> DEFINE S == {j \in 0 .. n : Lies(n - j)}
  <2> HIDE DEF Lies
  <2>1. 0 \in S
    <3>1. n - 0 = n
      OBVIOUS
    <3> QED BY <1>6, <1>7, <3>1
  <2>2. ASSUME NEW j \in 0 .. n - 1, j \in S PROVE j + 1 \in S
    <3>1. n - (j + 1) \in 0 .. n - 1 /\ (n - (j + 1)) + 1 = n - j /\ j + 1 \in 0 .. n
      OBVIOUS
    <3>2. Lies((n - (j + 1)) + 1)
      BY <2>2, <3>1
    <3>3. Lies(n - (j + 1))
      BY <1>8, <3>1, <3>2
    <3> QED BY <3>1, <3>3
  <2> HIDE DEF S
  <2>3. \A j \in 0 .. n : j \in S
    BY <2>1, <2>2, Climb
  <2>4. ASSUME NEW t \in 0 .. n PROVE Lies(t)
    <3>1. n - t \in 0 .. n /\ n - (n - t) = t
      OBVIOUS
    <3>2. n - t \in S
      BY <2>3, <3>1
    <3>3. Lies(n - (n - t))
      BY <3>2 DEF S
    <3> QED BY <3>1, <3>3
  <2> QED BY <2>4
<1>10. ASSUME NEW t \in 0 .. n - 1 PROVE Code(pos[t], code[t], pos[t + 1])
  <2>1. t + 1 \in 0 .. n
    OBVIOUS
  <2> HIDE DEF Lies
  <2>2. Lies(t + 1)
    BY <1>9, <2>1
  <2> QED BY <1>8, <2>2
<1>11. pos[0] = m
  <2>1. pos[0] = m + Len(g[0]) /\ Len(<< >>) = 0 /\ m \in Int
    <3>1. m \in Int
      BY <1>7 DEF Code
    <3> QED BY <1>5, <1>6, <3>1
  <2>2. g[0] = << >>
    BY <1>3
  <2> QED BY <2>1, <2>2
<1> QED BY <1>7, <1>10, <1>11

-----------------------------------------------------------------------------
(* The sums of eval.                                                        *)
Adds(n, T, g) == g = [t \in 0 .. n |-> IF t = 0 THEN 0 ELSE g[t - 1] + T[t - 1]]

\* The recursion of a sum is well defined.
LEMMA AddsExists == ASSUME NEW n \in Nat, NEW T PROVE \E g : Adds(n, T, g)
<1> DEFINE S == {m \in 0 .. n : \E g : Adds(m, T, g)}
<1>1. 0 \in S
  <2> DEFINE g == [t \in 0 .. 0 |-> 0]
  <2>1. g = [t \in 0 .. 0 |-> IF t = 0 THEN 0 ELSE g[t - 1] + T[t - 1]]
    OBVIOUS
  <2> HIDE DEF g
  <2>2. Adds(0, T, g)
    BY <2>1 DEF Adds
  <2> QED BY <2>2
<1>2. ASSUME NEW m \in 0 .. n - 1, m \in S PROVE m + 1 \in S
  <2>1. PICK g : Adds(m, T, g)
    BY <1>2
  <2>2. \A t \in 0 .. m : g[t] = IF t = 0 THEN 0 ELSE g[t - 1] + T[t - 1]
    BY <2>1 DEF Adds
  <2> DEFINE h == [t \in 0 .. m + 1 |-> IF t = m + 1 THEN g[m] + T[m] ELSE g[t]]
  <2>3. ASSUME NEW t \in 0 .. m + 1 PROVE h[t] = IF t = 0 THEN 0 ELSE h[t - 1] + T[t - 1]
    <3>1. CASE t = m + 1
      <4>1. h[t] = g[m] + T[m] /\ h[m] = g[m] /\ t - 1 = m /\ t # 0
        BY <3>1
      <4> QED BY <4>1
    <3>2. CASE t # m + 1 /\ t # 0
      <4>1. t \in 0 .. m /\ t - 1 \in 0 .. m /\ t - 1 # m + 1 /\ t - 1 \in 0 .. m + 1
        BY <3>2
      <4>2. h[t] = g[t] /\ h[t - 1] = g[t - 1]
        BY <3>2, <4>1
      <4>3. g[t] = g[t - 1] + T[t - 1]
        BY <2>2, <3>2, <4>1
      <4> QED BY <3>2, <4>2, <4>3
    <3>3. CASE t = 0
      <4>1. h[0] = g[0] /\ 0 \in 0 .. m
        BY <3>3
      <4>2. g[0] = 0
        BY <2>2, <4>1
      <4> QED BY <3>3, <4>1, <4>2
    <3> QED BY <3>1, <3>2, <3>3
  <2>4. h = [t \in 0 .. m + 1 |-> h[t]]
    OBVIOUS
  <2> HIDE DEF h
  <2>5. h = [t \in 0 .. m + 1 |-> IF t = 0 THEN 0 ELSE h[t - 1] + T[t - 1]]
    BY <2>3, <2>4
  <2>6. Adds(m + 1, T, h) /\ m + 1 \in 0 .. n
    BY <2>5 DEF Adds
  <2> QED BY <2>6
<1> HIDE DEF S
<1>3. n \in S
  <2>1. n \in 0 .. n /\ \A t \in 0 .. n : t \in S
    BY <1>1, <1>2, Climb
  <2> QED BY <2>1
<1> QED BY <1>3 DEF S

\* What it computes on the way.
LEMMA AddsNext ==
  ASSUME NEW n \in Nat, NEW T, \A t \in 0 .. n - 1 : T[t] \in Int, NEW g, Adds(n, T, g)
  PROVE  /\ g[0] = 0 /\ \A t \in 0 .. n - 1 : g[t + 1] = g[t] + T[t]
         /\ \A t \in 0 .. n : g[t] \in Int
<1>1. g[0] = 0 /\ \A t \in 0 .. n - 1 : g[t + 1] = g[t] + T[t]
  <2>1. \A t \in 0 .. n : g[t] = IF t = 0 THEN 0 ELSE g[t - 1] + T[t - 1]
    BY DEF Adds
  <2>2. \A t \in 0 .. n - 1 : t + 1 \in 0 .. n /\ t + 1 # 0 /\ (t + 1) - 1 = t
    OBVIOUS
  <2>3. 0 \in 0 .. n
    OBVIOUS
  <2> QED BY <2>1, <2>2, <2>3
<1> DEFINE S == {t \in 0 .. n : g[t] \in Int}
<1>2. 0 \in S
  BY <1>1
<1>3. ASSUME NEW t \in 0 .. n - 1, t \in S PROVE t + 1 \in S
  <2>1. g[t + 1] \in Int
    BY <1>1, <1>3
  <2>2. t + 1 \in 0 .. n
    OBVIOUS
  <2> QED BY <2>1, <2>2
<1> HIDE DEF S
<1>4. \A t \in 0 .. n : t \in S
  BY <1>2, <1>3, Climb
<1> QED BY <1>1, <1>4 DEF S

\* What a product of a byte and a signed byte can be.
Product(n) == n \in Int /\ -32640 <= n /\ n <= 32640

\* It is a number.
LEMMA ProductInt == \A n : Product(n) => n \in Int
  BY DEF Product

\* A byte times a signed byte.
LEMMA ProductBound == \A a \in Bytes : \A b \in -128 .. 127 : Product(a * b)
<1> SUFFICES ASSUME NEW a \in Bytes, NEW b \in -128 .. 127 PROVE Product(a * b)
  OBVIOUS
<1>1. a \in Nat /\ a <= 255 /\ b \in Int /\ -128 <= b /\ b <= 127
  BY DEF Bytes
<1>2. a * b \in Int
  BY <1>1
<1>3. a * b <= a * 127 /\ a * (-128) <= a * b
  <2>1. \A u, v \in Int : u <= v => a * u <= a * v
    BY <1>1
  <2> QED BY <1>1, <2>1
<1> DEFINE n == a * b
<1>4. n \in Int /\ n <= a * 127 /\ a * (-128) <= n
  BY <1>2, <1>3
<1> HIDE DEF n
<1>5. Product(n)
  BY <1>1, <1>4 DEF Product
<1> QED BY <1>5 DEF n

\* So many products are few enough.
Few(n) == n * 32640 <= 2147483647

\* g are the sums of the first products of T.
Summed(n, T, g) ==
  g[0] = 0 /\ \A t \in 0 .. n - 1 : g[t + 1] = g[t] + T[t] /\ Product(T[t])

\* As many products as check's worst case allows never leave 32 bits.
LEMMA AddsBound ==
  ASSUME NEW n \in Nat, Few(n), NEW T, NEW g, Summed(n, T, g)
  PROVE  \A t \in 0 .. n : g[t] \in Sums
<1> DEFINE S == {t \in 0 .. n : g[t] \in Int /\ -(t * 32640) <= g[t] /\ g[t] <= t * 32640}
<1>1. 0 \in S
  BY DEF Summed
<1>2. ASSUME NEW t \in 0 .. n - 1, t \in S PROVE t + 1 \in S
  <2>1. /\ g[t] \in Int /\ -(t * 32640) <= g[t] /\ g[t] <= t * 32640
        /\ g[t + 1] = g[t] + T[t] /\ T[t] \in Int /\ -32640 <= T[t] /\ T[t] <= 32640
    BY <1>2 DEF Summed, Product
  <2>2. t + 1 \in 0 .. n /\ (t + 1) * 32640 = t * 32640 + 32640
    OBVIOUS
  <2>3. g[t + 1] \in Int /\ -((t + 1) * 32640) <= g[t + 1] /\ g[t + 1] <= (t + 1) * 32640
    BY <2>1, <2>2
  <2> QED BY <2>2, <2>3
<1> HIDE DEF S
<1>3. \A t \in 0 .. n : t \in S
  BY <1>1, <1>2, Climb
<1>4. ASSUME NEW t \in 0 .. n PROVE g[t] \in Sums
  <2>1. g[t] \in Int /\ -(t * 32640) <= g[t] /\ g[t] <= t * 32640
    BY <1>3 DEF S
  <2>2. t * 32640 <= n * 32640 /\ n * 32640 <= 2147483647
    BY DEF Few
  <2>3. -2147483648 <= g[t] /\ g[t] <= 2147483647
    BY <2>1, <2>2
  <2> QED BY <2>1, <2>3 DEF Sums
<1> QED BY <1>4

\* The largest of some numbers is the one that no other exceeds.
LEMMA MaxIs == ASSUME NEW S, S \subseteq Nat, NEW a \in S, \A b \in S : b <= a PROVE Max(S) = a
<1>1. \A b \in S : (\A e \in S : b >= e) => b = a
  OBVIOUS
<1>2. a \in S /\ \A e \in S : a >= e
  OBVIOUS
<1> QED BY <1>1, <1>2, Zenon DEF Max

-----------------------------------------------------------------------------
(* What eval says of a dense layer.                                         *)
LEMMA DenseSum ==
  ASSUME NEW l, IsLayer(l), l.kind = "Dense", NEW in, NEW o \in 0 .. l.out_f - 1,
         NEW T, T = [t \in 0 .. l.in_f - 1 |-> in[t + 1] * l.weights[o * l.in_f + t + 1]]
  PROVE  \E g : Adds(l.in_f, T, g) /\ EvalLayer(l, in)[o + 1] = Fout(g[l.in_f], l.shift)
<1>1. l.in_f \in Nat /\ l.out_f \in Nat /\ OutLen(l) = l.out_f
  BY DEF IsLayer, OutLen
<1> DEFINE Term(t) == in[t + 1] * l.weights[o * l.in_f + t + 1]
           s == Total(l.in_f, Term)
<1>2. EvalLayer(l, in)[o + 1] = Fout(s, l.shift)
  <2>1. o + 1 \in 1 .. OutLen(l) /\ (o + 1) - 1 = o
    BY <1>1
  <2> QED BY <2>1 DEF EvalLayer, Total
<1>3. \E g : s = g[l.in_f] /\ ((\E h : Adds(l.in_f, T, h)) => Adds(l.in_f, T, g))
  <2> DEFINE Like(g) == [t \in 0 .. l.in_f |-> IF t = 0 THEN 0 ELSE g[t - 1] + Term(t - 1)]
  <2>1. ASSUME NEW g PROVE Adds(l.in_f, T, g) <=> g = Like(g)
    <3>1. \A t \in 0 .. l.in_f : t # 0 => T[t - 1] = Term(t - 1)
      <4>1. \A t \in 0 .. l.in_f : t # 0 => t - 1 \in 0 .. l.in_f - 1
        BY <1>1
      <4>2. \A t \in 0 .. l.in_f - 1 : T[t] = Term(t)
        OBVIOUS
      <4> QED BY <4>1, <4>2
    <3> HIDE DEF Term
    <3>2. Like(g) = [t \in 0 .. l.in_f |-> IF t = 0 THEN 0 ELSE g[t - 1] + T[t - 1]]
      BY <3>1
    <3> HIDE DEF Like
    <3> QED BY <3>2 DEF Adds
  <2>2. \E g : s = g[l.in_f] /\ ((\E h : h = Like(h)) => g = Like(g))
    BY DEF Total
  <2> HIDE DEF s, Like
  <2> QED BY <2>1, <2>2
<1> HIDE DEF s
<1>4. PICK g : s = g[l.in_f] /\ Adds(l.in_f, T, g)
  BY <1>1, <1>3, AddsExists
<1> QED BY <1>2, <1>4
=============================================================================
