-------------------------- MODULE Assembler_proofs --------------------------
(***************************************************************************)
(* For every text: the second pass of the assembler meets each line at the *)
(* address the first pass saw, branches reach their labels, and the words  *)
(* mean what the lines say.  The first two rest on the length of a line's  *)
(* code, EncodeLength, and the chain of addresses, IInv; the third also on *)
(* the decoder taking apart what W puts together, mnemonic by mnemonic,    *)
(* and on a thread running the words of LDI and MAX.                       *)
(***************************************************************************)
EXTENDS AssemblerProperties, SequenceTheorems, TLAPS

\* A line that is only a label, or nothing.
Blank(line) == line.op = ""

\* The words a line takes, and the address behind line k - 1.
Size(line) == IF line.op = "" THEN 0 ELSE WordCount(line.op)
Reached(k) == IF k = 1 THEN 0 ELSE starts[k - 1] + Size(source[k - 1])

\* A label that one of the first n lines bears alone is its address.
LabelsNamed(n) ==
  \A m \in 1 .. n :
    source[m].label # NoLabel /\ (\A o \in 1 .. n : source[o].label = source[m].label => o = m)
    => source[m].label \in DOMAIN labels /\ labels[source[m].label] = starts[m]

\* The first n lines are in the file, at their addresses, and none was faulty.
LinesWritten(n) ==
  \A k \in 1 .. n :
    ~Blank(source[k]) =>
      /\ ~Faulty(source[k])
      /\ starts[k] + WordCount(source[k].op) <= Len(words)
      /\ \A j \in 1 .. WordCount(source[k].op) :
           words[starts[k] + j] = Encode(source[k], starts[k], labels)[j]

Typed ==
  /\ Len(source) \in Nat /\ DOMAIN source = 1 .. Len(source)
  /\ at \in 1 .. Len(source) + 1
  /\ pc \in Nat /\ starts \in Seq(Nat) /\ (\A l \in DOMAIN labels : labels[l] \in Nat)
  /\ \E S : words \in Seq(S)
  /\ phase \in {"labels", "encode", "done", "exited"}

Addressed == \A k \in 1 .. Len(starts) : starts[k] = Reached(k)

FirstPass ==
  phase = "labels" =>
    Len(starts) = at - 1 /\ pc = Reached(at) /\ LabelsNamed(at - 1) /\ words = << >>

SecondPass ==
  /\ phase # "labels" => Len(starts) = Len(source) /\ LabelsNamed(Len(source))
  /\ phase = "encode" /\ AllKnown => pc = Reached(at) /\ pc = Len(words) /\ LinesWritten(at - 1)
  /\ phase = "done" /\ AllKnown => Len(words) = Reached(Len(source) + 1) /\ LinesWritten(Len(source))

IInv == Typed /\ Addressed /\ FirstPass /\ SecondPass

-----------------------------------------------------------------------------
\* Pass 1's word count is the length of pass 2's code, for every known mnemonic.
LEMMA EncodeLength ==
  ASSUME NEW line, NEW p, NEW labs, line.op \in Known
  PROVE  Len(Encode(line, p, labs)) = WordCount(line.op)
<1>1. CASE line.op = "LDI"
  BY <1>1 DEF Encode, WordCount, Ldi
<1>2. CASE line.op = "MAX"
  BY <1>2 DEF Encode, WordCount, Max4
<1>3. CASE line.op \notin {"LDI", "MAX"}
  <2>1. Encode(line, p, labs) = <<Word(line, labs)>>
    BY <1>3 DEF Encode
  <2> QED BY <1>3, <2>1 DEF WordCount
<1> QED BY <1>1, <1>2, <1>3

\* What a line becomes is a sequence, known or not.
LEMMA EncodeSequence ==
  ASSUME NEW line, NEW p, NEW labs
  PROVE  \E S : Encode(line, p, labs) \in Seq(S)
<1>0. "LDI" \in Known /\ "MAX" \in Known
  BY DEF Known
<1>1. CASE line.op = "LDI"
  <2>1. \A a, b, c : <<a, b, c>> \in Seq({a, b, c})
    OBVIOUS
  <2>2. Encode(line, p, labs) = Ldi(RegOf(line.args[1]), ImmOf(line.args[2]))
    BY <1>0, <1>1 DEF Encode
  <2>3. ASSUME NEW rd, NEW v PROVE \E S : Ldi(rd, v) \in Seq(S)
    <3> DEFINE a == W(2, rd, 0, v \div 4096)
               b == W(2, rd, 4, v \div ImmSize)
               c == W(2, rd, 4, v)
    <3>1. Ldi(rd, v) = <<a, b, c>>
      BY DEF Ldi
    <3> HIDE DEF a, b, c
    <3>2. <<a, b, c>> \in Seq({a, b, c})
      BY <2>1
    <3> QED BY <3>1, <3>2
  <2> QED BY <2>2, <2>3
<1>2. CASE line.op = "MAX"
  <2>1. ASSUME NEW a, NEW b, NEW c, NEW d PROVE \E S : <<a, b, c, d>> \in Seq(S)
    <3>1. <<a, b, c, d>> \in Seq({a, b, c, d})
      OBVIOUS
    <3> QED BY <3>1
  <2>2. Encode(line, p, labs) = Max4(RegOf(line.args[1]), RegOf(line.args[2]), RegOf(line.args[3]), p)
    BY <1>0, <1>2 DEF Encode
  <2>3. ASSUME NEW rd, NEW ra, NEW rb PROVE \E S : Max4(rd, ra, rb, p) \in Seq(S)
    BY <2>1, Zenon DEF Max4
  <2> QED BY <2>2, <2>3
<1>3. CASE line.op \in Known \ {"LDI", "MAX"}
  <2>1. Encode(line, p, labs) = <<Word(line, labs)>>
    BY <1>3 DEF Encode
  <2>2. <<Word(line, labs)>> \in Seq({Word(line, labs)})
    OBVIOUS
  <2> QED BY <2>1, <2>2
<1>4. CASE line.op \notin Known
  <2>1. Encode(line, p, labs) = << >>
    BY <1>0, <1>4 DEF Encode
  <2>2. << >> \in Seq({})
    OBVIOUS
  <2> QED BY <2>1, <2>2
<1> QED BY <1>0, <1>1, <1>2, <1>3, <1>4

\* Branches are known, one word each, and what Encode makes of them.
LEMMA EncodeBranch ==
  ASSUME NEW line, NEW p, NEW labs, line.op \in DOMAIN Mask
  PROVE  /\ line.op # "" /\ line.op \in Known /\ WordCount(line.op) = 1
         /\ Encode(line, p, labs) = <<Branch(Mask[line.op], TargetOf(line.args[1], labs))>>
<1>1. DOMAIN Mask = {"BRn", "BRz", "BRp", "BRnz", "BRnp", "BRzp", "BR"}
  BY DEF Mask
<1>2. line.op # "" /\ line.op \in Known /\ WordCount(line.op) = 1
  BY <1>1 DEF Known, WordCount
<1>3. line.op \in Known \ {"LDI", "MAX"}
  BY <1>1, <1>2
<1>4. Encode(line, p, labs) = <<Word(line, labs)>>
  BY <1>3 DEF Encode
<1>5. Word(line, labs) = Branch(Mask[line.op], TargetOf(line.args[1], labs))
  <2>1. DOMAIN Alu = {"MUL", "SHR", "SHL", "SUB"} /\ DOMAIN Fixed = {"FRST", "FARG", "RET", "SYNC"}
    BY DEF Alu, Fixed
  <2> QED BY <1>1, <2>1 DEF Word
<1> QED BY <1>2, <1>4, <1>5

\* A line is worth a natural number of words.
LEMMA SizeNat == ASSUME NEW line PROVE Size(line) \in Nat
  BY DEF Size, WordCount

-----------------------------------------------------------------------------
(* The decoder takes apart what W puts together.                            *)

\* The fields of a word, and what the decoder makes of them.
Holds(word, op, rd, rs, low) ==
  /\ word \div 4096 = op /\ (word \div 512) % 8 = rd /\ (word \div 64) % 8 = rs
  /\ word % 8 = low % 8 /\ word % 64 = low % 64 /\ (word \div 8) % 8 = (low % 64) \div 8
Reads(i, op, rd, rs, low) ==
  i.op = op /\ i.rd = rd /\ i.rs = rs /\ i.rt = low % 8 /\ i.imm = low % 64

\* word(): the fields that the decoder cuts out of a word are those it was made of.
LEMMA FieldsOfW ==
  ASSUME NEW op \in 0 .. 15, NEW rd \in 0 .. 7, NEW rs \in 0 .. 7, NEW low \in Nat
  PROVE  Holds(W(op, rd, rs, low), op, rd, rs, low)
<1> DEFINE c == low % 64
           word == op * 4096 + rd * 512 + rs * 64 + c
<1>1. c \in 0 .. 63 /\ c % 8 = low % 8
  OBVIOUS
<1>2. W(op, rd, rs, low) = word
  <2>1. rd % 8 = rd /\ rs % 8 = rs
    OBVIOUS
  <2> QED BY <2>1 DEF W, ImmSize
<1> HIDE DEF c
<1>3. word \div 4096 = op /\ (word \div 512) % 8 = rd
  <2>1. word \div 512 = op * 8 + rd
    BY <1>1
  <2> QED BY <1>1, <2>1
<1>4. (word \div 64) % 8 = rs
  <2>1. word \div 64 = op * 64 + rd * 8 + rs
    BY <1>1
  <2> QED BY <2>1
<1>5. word % 8 = c % 8 /\ word % 64 = c
  BY <1>1
<1>6. (word \div 8) % 8 = c \div 8
  <2>1. word \div 8 = op * 512 + rd * 64 + rs * 8 + (c \div 8)
    BY <1>1
  <2>2. c \div 8 \in 0 .. 7
    BY <1>1
  <2> QED BY <2>1, <2>2
<1> QED BY <1>1, <1>2, <1>3, <1>4, <1>5, <1>6 DEF c, Holds

\* The opcodes that are one operation are read back field by field.
LEMMA PlainWord ==
  ASSUME NEW op \in DOMAIN Plainly, NEW rd \in 0 .. 7, NEW rs \in 0 .. 7, NEW low \in Nat
  PROVE  Reads(Decode(W(op, rd, rs, low)), Plainly[op], rd, rs, low)
<1>1. op \in 0 .. 15 /\ op \notin {0, 2, 8, 9, 15}
  BY DEF Plainly
<1>2. PICK word : word = W(op, rd, rs, low)
  OBVIOUS
<1>3. Holds(word, op, rd, rs, low)
  BY <1>1, <1>2, FieldsOfW
<1>4. Reads(Decode(word), Plainly[op], rd, rs, low)
  BY <1>1, <1>3 DEF Decode, Holds, Reads
<1> QED BY <1>2, <1>4

\* The FC functions are read from the low bits.
LEMMA FcWord ==
  ASSUME NEW rd \in 0 .. 7, NEW rs \in 0 .. 7, NEW low \in Nat
  PROVE  Reads(Decode(W(0, rd, rs, low)), FcFunction((low % 64) \div 8), rd, rs, low)
<1>1. 0 \in 0 .. 15 /\ 0 \notin DOMAIN Plainly
  BY DEF Plainly
<1>2. PICK word : word = W(0, rd, rs, low)
  OBVIOUS
<1>3. Holds(word, 0, rd, rs, low)
  BY <1>1, <1>2, FieldsOfW
<1>4. Reads(Decode(word), FcFunction((low % 64) \div 8), rd, rs, low)
  BY <1>1, <1>3 DEF Decode, Holds, Reads
<1> QED BY <1>2, <1>4

\* The MOV variants are read from the rs field; LUI works on its destination.
LEMMA MovWord ==
  ASSUME NEW rd \in 0 .. 7, NEW rs \in 0 .. 7, NEW low \in Nat
  PROVE  Reads(Decode(W(2, rd, rs, low)), MovVariant(rs), rd, IF rs = 4 THEN rd ELSE rs, low)
<1>1. 2 \in 0 .. 15 /\ 2 \notin DOMAIN Plainly
  BY DEF Plainly
<1>2. PICK word : word = W(2, rd, rs, low)
  OBVIOUS
<1>3. Holds(word, 2, rd, rs, low)
  BY <1>1, <1>2, FieldsOfW
<1>4. Reads(Decode(word), MovVariant(rs), rd, IF rs = 4 THEN rd ELSE rs, low)
  BY <1>1, <1>3 DEF Decode, Holds, Reads
<1> QED BY <1>2, <1>4

\* The base pointer instructions differ in bit 11.
LEMMA BaseWord ==
  ASSUME NEW rd \in 0 .. 7, NEW low \in Nat
  PROVE  Reads(Decode(W(9, rd, 0, low)), IF rd >= 4 THEN "WBASE" ELSE "ADDB", rd, 0, low)
<1>1. 9 \in 0 .. 15 /\ 0 \in 0 .. 7 /\ 9 \notin DOMAIN Plainly
  BY DEF Plainly
<1>2. PICK word : word = W(9, rd, 0, low)
  OBVIOUS
<1>3. Holds(word, 9, rd, 0, low)
  BY <1>1, <1>2, FieldsOfW
<1>4. Reads(Decode(word), IF rd >= 4 THEN "WBASE" ELSE "ADDB", rd, 0, low)
  BY <1>1, <1>3 DEF Decode, Holds, Reads
<1> QED BY <1>2, <1>4

\* A branch is read back with its condition and its target.
LEMMA BranchWord ==
  ASSUME NEW m \in 1 .. 7, NEW t \in Nat
  PROVE  /\ Decode(Branch(m, t)).op = "BR" /\ Decode(Branch(m, t)).nzp = BitsOf(m)
         /\ Decode(Branch(m, t)).imm = t % Targets
<1> DEFINE c == t % 256
           word == 32768 + m * 512 + c
<1>1. c \in Nat /\ c < 256
  OBVIOUS
<1>2. Branch(m, t) = word
  BY DEF Branch, Targets
<1> HIDE DEF c
<1>3. word \div 4096 = 8 /\ (word \div 512) % 8 = m /\ word % 256 = c
  <2>1. word \div 512 = 64 + m
    BY <1>1
  <2> QED BY <1>1, <2>1
<1>4. 8 \notin DOMAIN Plainly
  BY DEF Plainly
<1> HIDE DEF word
<1>5. Decode(word).op = "BR" /\ Decode(word).nzp = BitsOf(m) /\ Decode(word).imm = c
  BY <1>3, <1>4 DEF Decode
<1> QED BY <1>2, <1>5 DEF c, Targets

-----------------------------------------------------------------------------
(* A line that is one instruction, mnemonic by mnemonic.                    *)

\* A register operand is its number, and so is a number.
Reg(line, k) == line.args[k].n \in 0 .. 7 /\ RegOf(line.args[k]) = line.args[k].n
Num(line, k) ==
  line.args[k].n \in Nat /\ line.args[k].n < Field(line.op) /\ ImmOf(line.args[k]) = line.args[k].n

\* What a line means that the second pass accepts.
Good(line) ==
  /\ Len(line.args) >= Arity(line.op)
  /\ \E S : line.args \in Seq(S)
  /\ \A k \in RegArgs(line) : Reg(line, k)
  /\ \A k \in ImmArg(line) : Num(line, k)

\* reg() and imm(): of a line that is not faulty and whose operands are of the right
\* kind, registers are 0 to 7 and immediates natural.
LEMMA Operands ==
  ASSUME NEW line, ~Faulty(line), Fits(line), \E S : line.args \in Seq(S)
  PROVE  Good(line)
<1> U16 \in Nat
  BY DEF U16
<1>1. ASSUME NEW k \in RegArgs(line) PROVE Reg(line, k)
  <2>1. line.args[k].is = "R" /\ line.args[k].n \in 0 .. U16 - 1
    BY <1>1 DEF Fits
  <2>2. RegOf(line.args[k]) = line.args[k].n
    BY <2>1 DEF RegOf
  <2>3. ~(RegOf(line.args[k]) > 7)
    BY <1>1 DEF Faulty
  <2> QED BY <2>1, <2>2, <2>3 DEF Reg
<1>2. ASSUME NEW k \in ImmArg(line) PROVE Num(line, k)
  <2>1. line.args[k].is = "#" /\ line.args[k].n \in 0 .. Field(line.op) - 1
    BY <1>2 DEF Fits
  <2>2. Field(line.op) \in Nat /\ Field(line.op) <= U16
    BY DEF Field, ImmSize, U16
  <2>3. ImmOf(line.args[k]) = line.args[k].n
    BY <2>1, <2>2 DEF ImmOf
  <2> QED BY <2>1, <2>2, <2>3 DEF Num
<1> QED BY <1>1, <1>2 DEF Good, Faulty

\* The mnemonics of each group of pass 2, spelled out.
LEMMA Mnemonics ==
  /\ DOMAIN Alu = {"MUL", "SHR", "SHL", "SUB"}
  /\ DOMAIN Variant = {"MOV", "TID", "BID", "BDIM", "LUI"}
  /\ DOMAIN Mask = {"BRn", "BRz", "BRp", "BRnz", "BRnp", "BRzp", "BR"}
  /\ DOMAIN Flags = DOMAIN Mask
  /\ DOMAIN Fixed = {"FRST", "FARG", "RET", "SYNC"}
  BY DEF Alu, Variant, Mask, Flags, Fixed

\* Three registers.
LEMMA ThreeRegisters ==
  ASSUME NEW line, NEW labs, Good(line), line.op \in DOMAIN Alu \cup {"ADD"},
         line.op = "ADD" => line.args[3].is # "#"
  PROVE  Is(line, Decode(Word(line, labs)))
<1> USE Mnemonics
<1> DEFINE a == line.args[1].n
           b == line.args[2].n
           c == line.args[3].n
<1>1. RegArgs(line) = 1 .. 3
  BY DEF RegArgs
<1>2. /\ a \in 0 .. 7 /\ b \in 0 .. 7 /\ c \in 0 .. 7
      /\ a = RegOf(line.args[1]) /\ b = RegOf(line.args[2]) /\ c = RegOf(line.args[3])
  BY <1>1 DEF Good, Reg
<1>3. PICK o \in DOMAIN Plainly : Word(line, labs) = W(o, a, b, c) /\ Plainly[o] = line.op
  <2>1. CASE line.op = "ADD"
    <3>1. Word(line, labs) = W(1, a, b, c)
      BY <1>2, <2>1 DEF Word
    <3>2. 1 \in DOMAIN Plainly /\ Plainly[1] = "ADD"
      BY DEF Plainly
    <3> QED BY <2>1, <3>1, <3>2
  <2>2. CASE line.op \in DOMAIN Alu
    <3>1. Word(line, labs) = W(Alu[line.op], a, b, c)
      BY <1>2, <2>2 DEF Word
    <3>2. Alu[line.op] \in DOMAIN Plainly /\ Plainly[Alu[line.op]] = line.op
      BY <2>2 DEF Plainly, Alu
    <3> QED BY <3>1, <3>2
  <2> QED BY <2>1, <2>2
<1>4. PICK i : i = Decode(Word(line, labs))
  OBVIOUS
<1>5. Reads(i, line.op, a, b, c)
  BY <1>2, <1>3, <1>4, PlainWord
<1>6. i.op = line.op /\ i.rd = a /\ i.rs = b /\ i.rt = c
  <2>1. c % 8 = c
    BY <1>2
  <2> QED BY <1>5, <2>1 DEF Reads
<1>7. Is(line, i)
  BY <1>6 DEF Is
<1> QED BY <1>4, <1>7

\* Two registers and a number.
LEMMA AddImmediate ==
  ASSUME NEW line, NEW labs, Good(line), line.op = "ADDI" \/ (line.op = "ADD" /\ line.args[3].is = "#")
  PROVE  Is(line, Decode(Word(line, labs)))
<1> USE Mnemonics
<1> DEFINE a == line.args[1].n
           b == line.args[2].n
           v == line.args[3].n
<1>1. 1 \in RegArgs(line) /\ 2 \in RegArgs(line) /\ 3 \in ImmArg(line) /\ Field(line.op) = 64
  BY DEF RegArgs, ImmArg, Field, ImmSize
<1>2. /\ a \in 0 .. 7 /\ b \in 0 .. 7 /\ v \in Nat /\ v < 64
      /\ a = RegOf(line.args[1]) /\ b = RegOf(line.args[2]) /\ v = ImmOf(line.args[3])
  BY <1>1 DEF Good, Reg, Num
<1>3. Word(line, labs) = W(5, a, b, v)
  BY <1>2 DEF Word
<1>4. PICK i : i = Decode(Word(line, labs))
  OBVIOUS
<1>5. Reads(i, "ADDI", a, b, v)
  <2>1. 5 \in DOMAIN Plainly /\ Plainly[5] = "ADDI"
    BY DEF Plainly
  <2> QED BY <1>2, <1>3, <1>4, <2>1, PlainWord
<1>6. i.op = "ADDI" /\ i.rd = a /\ i.rs = b /\ i.imm = v
  <2>1. v % 64 = v
    BY <1>2
  <2> QED BY <1>5, <2>1 DEF Reads
<1>7. Is(line, i)
  BY <1>6 DEF Is
<1> QED BY <1>4, <1>7

\* MOV and its variants.
LEMMA Moves ==
  ASSUME NEW line, NEW labs, Good(line), line.op \in DOMAIN Variant
  PROVE  Is(line, Decode(Word(line, labs)))
<1> USE Mnemonics
<1> DEFINE a == line.args[1].n
           v == IF line.op \in {"MOV", "LUI"} THEN line.args[2].n ELSE 0
<1>1. 1 \in RegArgs(line)
  BY DEF RegArgs
<1>2. a \in 0 .. 7 /\ a = RegOf(line.args[1])
  BY <1>1 DEF Good, Reg
<1>3. v \in Nat /\ v < 64 /\ (line.op \in {"MOV", "LUI"} => v = ImmOf(line.args[2]))
  <2>1. CASE line.op \in {"MOV", "LUI"}
    <3>1. 2 \in ImmArg(line) /\ Field(line.op) = 64
      BY <2>1 DEF ImmArg, Field, ImmSize
    <3> QED BY <2>1, <3>1 DEF Good, Num
  <2> QED BY <2>1
<1>4. Variant[line.op] \in 0 .. 7 /\ MovVariant(Variant[line.op]) = line.op
  BY DEF Variant, MovVariant
<1>5. Variant[line.op] = 4 <=> line.op = "LUI"
  BY DEF Variant
<1>6. Word(line, labs) = W(2, a, Variant[line.op], v)
  <2>1. CASE line.op \in {"MOV", "LUI"}
    BY <1>2, <1>3, <2>1 DEF Word
  <2>2. CASE line.op \in {"TID", "BID", "BDIM"}
    BY <1>2, <2>2 DEF Word
  <2> QED BY <2>1, <2>2
<1> HIDE DEF v
<1>7. PICK i : i = Decode(Word(line, labs))
  OBVIOUS
<1>8. Reads(i, line.op, a, IF Variant[line.op] = 4 THEN a ELSE Variant[line.op], v)
  BY <1>2, <1>3, <1>4, <1>6, <1>7, MovWord
<1>9. i.op = line.op /\ i.rd = a /\ i.imm = v /\ (line.op = "LUI" => i.rs = a)
  <2>1. v % 64 = v
    BY <1>3
  <2> QED BY <1>5, <1>8, <2>1 DEF Reads
<1>10. Is(line, i)
  BY <1>9 DEF Is, v
<1> QED BY <1>7, <1>10

\* CMP, LDR, STR and MACL: where the fields are crossed.
LEMMA TwoRegisters ==
  ASSUME NEW line, NEW labs, Good(line), line.op \in {"CMP", "LDR", "STR", "MACL"}
  PROVE  Is(line, Decode(Word(line, labs)))
<1> USE Mnemonics
<1> DEFINE a == line.args[1].n
           second == IF Len(line.args) >= 2 THEN line.args[2].n ELSE 0
<1>1. /\ Len(line.args) \in Nat /\ DOMAIN line.args = 1 .. Len(line.args) /\ Len(line.args) >= 1
      /\ line.op # "MACL" => Len(line.args) >= 2
  <2>1. Len(line.args) \in Nat /\ DOMAIN line.args = 1 .. Len(line.args)
    BY DEF Good
  <2>2. Len(line.args) >= Arity(line.op) /\ Arity(line.op) >= 1 /\ (line.op # "MACL" => Arity(line.op) = 2)
    BY DEF Good, Arity
  <2>3. Arity(line.op) \in Nat
    BY DEF Arity
  <2> QED BY <2>1, <2>2, <2>3
<1>2. 1 \in RegArgs(line) /\ (Len(line.args) >= 2 => 2 \in RegArgs(line))
  BY <1>1 DEF RegArgs
<1>3. a \in 0 .. 7 /\ a = RegOf(line.args[1])
  BY <1>2 DEF Good, Reg
<1>4. second \in 0 .. 7 /\ (Len(line.args) >= 2 => second = RegOf(line.args[2]) /\ second = line.args[2].n)
  BY <1>2 DEF Good, Reg
<1>5. Len(line.args) < 2 => second = 0
  BY <1>1
<1> HIDE DEF second
<1>6. PICK i : i = Decode(Word(line, labs))
  OBVIOUS
<1>7. a % 8 = a /\ second % 8 = second
  BY <1>3, <1>4
<1>8. CASE line.op = "CMP"
  <2>1. Word(line, labs) = W(3, 0, a, second)
    BY <1>1, <1>3, <1>4, <1>8 DEF Word
  <2>2. 3 \in DOMAIN Plainly /\ Plainly[3] = "CMP"
    BY DEF Plainly
  <2>3. Reads(i, "CMP", 0, a, second)
    BY <1>3, <1>4, <1>6, <2>1, <2>2, PlainWord
  <2>4. i.op = "CMP" /\ i.rs = a /\ i.rt = line.args[2].n
    BY <1>1, <1>4, <1>7, <1>8, <2>3 DEF Reads
  <2> QED BY <1>6, <1>8, <2>4 DEF Is
<1>9. CASE line.op = "LDR"
  <2>1. Word(line, labs) = W(4, a, second, 0)
    BY <1>1, <1>3, <1>4, <1>9 DEF Word
  <2>2. 4 \in DOMAIN Plainly /\ Plainly[4] = "LDR"
    BY DEF Plainly
  <2>3. Reads(i, "LDR", a, second, 0)
    BY <1>3, <1>4, <1>6, <2>1, <2>2, PlainWord
  <2>4. i.op = "LDR" /\ i.rd = a /\ i.rs = line.args[2].n
    BY <1>1, <1>4, <1>9, <2>3 DEF Reads
  <2> QED BY <1>6, <1>9, <2>4 DEF Is
<1>10. CASE line.op = "STR"
  <2>1. Word(line, labs) = W(11, 0, second, a)
    BY <1>1, <1>3, <1>4, <1>10 DEF Word
  <2>2. 11 \in DOMAIN Plainly /\ Plainly[11] = "STR"
    BY DEF Plainly
  <2>3. Reads(i, "STR", 0, second, a)
    BY <1>3, <1>4, <1>6, <2>1, <2>2, PlainWord
  <2>4. i.op = "STR" /\ i.rt = a /\ i.rs = line.args[2].n
    BY <1>1, <1>4, <1>7, <1>10, <2>3 DEF Reads
  <2> QED BY <1>6, <1>10, <2>4 DEF Is
<1>11. CASE line.op = "MACL"
  <2>1. Word(line, labs) = W(6, 0, a, second)
    BY <1>1, <1>3, <1>4, <1>5, <1>11 DEF Word
  <2>2. 6 \in DOMAIN Plainly /\ Plainly[6] = "MACL"
    BY DEF Plainly
  <2>3. Reads(i, "MACL", 0, a, second)
    BY <1>3, <1>4, <1>6, <2>1, <2>2, PlainWord
  <2>4. i.op = "MACL" /\ i.rs = a /\ i.rt = second
    BY <1>7, <2>3 DEF Reads
  <2> QED BY <1>6, <1>11, <2>4 DEF Is, second
<1> QED BY <1>8, <1>9, <1>10, <1>11

\* The condition bits of the decoder, written out.
LEMMA ConditionBits ==
  ASSUME NEW v \in 0 .. 7
  PROVE  BitsOf(v) = {b \in 0 .. 2 : \/ b = 0 /\ v % 2 = 1
                                     \/ b = 1 /\ (v \div 2) % 2 = 1
                                     \/ b = 2 /\ (v \div 4) % 2 = 1}
<1>1. 2^0 = 1 /\ 2^1 = 2 /\ 2^2 = 4 /\ v \div 1 = v
  BY SMT
<1>2. ASSUME NEW b \in 0 .. 2
      PROVE  (v \div 2^b) % 2 = 1 <=> \/ b = 0 /\ v % 2 = 1
                                      \/ b = 1 /\ (v \div 2) % 2 = 1
                                      \/ b = 2 /\ (v \div 4) % 2 = 1
  <2>1. CASE b = 0
    BY <1>1, <2>1
  <2>2. CASE b = 1
    BY <1>1, <2>2
  <2>3. CASE b = 2
    BY <1>1, <2>3
  <2> QED BY <2>1, <2>2, <2>3
<1> QED BY <1>2, Zenon DEF BitsOf

\* Branches: the condition of the mnemonic.
LEMMA Branches ==
  ASSUME NEW line, NEW labs, line.op \in DOMAIN Mask,
         NEW t \in Nat, Word(line, labs) = Branch(Mask[line.op], t)
  PROVE  Is(line, Decode(Word(line, labs)))
<1>1. Mask[line.op] \in 1 .. 7
  BY DEF Mask
<1>2. BitsOf(Mask[line.op]) = Flags[line.op]
  <2>1. /\ BitsOf(1) = {0} /\ BitsOf(2) = {1} /\ BitsOf(3) = {1, 0} /\ BitsOf(4) = {2}
        /\ BitsOf(5) = {2, 0} /\ BitsOf(6) = {2, 1} /\ BitsOf(7) = {2, 1, 0}
    <3>1. BitsOf(1) = {0} /\ BitsOf(2) = {1}
      BY ConditionBits
    <3>2. BitsOf(3) = {1, 0} /\ BitsOf(4) = {2}
      BY ConditionBits
    <3>3. BitsOf(5) = {2, 0} /\ BitsOf(6) = {2, 1}
      BY ConditionBits
    <3>4. BitsOf(7) = {2, 1, 0}
      BY ConditionBits
    <3> QED BY <3>1, <3>2, <3>3, <3>4
  <2> QED BY <2>1 DEF Mask, Flags
<1>3. PICK i : i = Decode(Word(line, labs))
  OBVIOUS
<1>4. i.op = "BR" /\ i.nzp = Flags[line.op]
  BY <1>1, <1>2, <1>3, BranchWord
<1>5. Is(line, i)
  BY <1>4, Mnemonics DEF Is
<1> QED BY <1>3, <1>5

\* The base pointer instructions, whose number is unsigned.
LEMMA Bases ==
  ASSUME NEW line, NEW labs, Good(line), line.op \in {"ADDB", "WBASE"}
  PROVE  Is(line, Decode(Word(line, labs)))
<1> DEFINE v == line.args[1].n
           rd == IF line.op = "WBASE" THEN 4 ELSE 0
<1>1. 1 \in ImmArg(line) /\ Field(line.op) = 64
  BY DEF ImmArg, Field, ImmSize
<1>2. v \in Nat /\ v < 64 /\ v = ImmOf(line.args[1])
  BY <1>1 DEF Good, Num
<1>3. Word(line, labs) = W(9, rd, 0, v)
  BY <1>2, Mnemonics DEF Word
<1>4. rd \in 0 .. 7 /\ (IF rd >= 4 THEN "WBASE" ELSE "ADDB") = line.op
  OBVIOUS
<1>5. PICK i : i = Decode(Word(line, labs))
  OBVIOUS
<1> HIDE DEF rd
<1>6. Reads(i, line.op, rd, 0, v)
  BY <1>2, <1>3, <1>4, <1>5, BaseWord
<1>7. i.op = line.op /\ i.imm = v
  <2>1. v % 64 = v
    BY <1>2
  <2> QED BY <1>6, <2>1 DEF Reads
<1>8. Is(line, i)
  BY <1>7, Mnemonics DEF Is
<1> QED BY <1>5, <1>8

\* How the decoder names the words whose function is in their low bits.
LEMMA FcOp == ASSUME NEW word, word \div 4096 = 0 PROVE Decode(word).op = FcFunction((word \div 8) % 8)
<1>1. 0 \notin DOMAIN Plainly
  BY DEF Plainly
<1> QED BY <1>1 DEF Decode

\* decoder.sv: under opcode 15 the lowest bit tells SYNC from RET.
LEMMA EndOp ==
  ASSUME NEW word, word \div 4096 = 15 PROVE Decode(word).op = IF word % 2 = 1 THEN "SYNC" ELSE "RET"
<1>1. 15 \notin DOMAIN Plainly
  BY DEF Plainly
<1> QED BY <1>1 DEF Decode

\* The instructions without operands.
LEMMA Fixeds ==
  ASSUME NEW line, NEW labs, line.op \in DOMAIN Fixed
  PROVE  Is(line, Decode(Word(line, labs)))
<1> USE Mnemonics
<1>1. Word(line, labs) = Fixed[line.op]
  BY DEF Word
<1>2. PICK word : word = Fixed[line.op]
  OBVIOUS
<1>3. PICK i : i = Decode(word)
  OBVIOUS
<1>4. CASE line.op \in {"RET", "SYNC"}
  <2>1. word \div 4096 = 15 /\ word % 2 = IF line.op = "SYNC" THEN 1 ELSE 0
    BY <1>2, <1>4 DEF Fixed
  <2>2. i.op = line.op
    BY <1>3, <1>4, <2>1, EndOp
  <2> QED BY <1>1, <1>2, <1>3, <1>4, <2>2 DEF Is
<1>5. CASE line.op \in {"FRST", "FARG"}
  <2>1. word \div 4096 = 0 /\ (word \div 8) % 8 = IF line.op = "FARG" THEN 4 ELSE 0
    BY <1>2, <1>5 DEF Fixed
  <2>2. i.op = FcFunction((word \div 8) % 8)
    BY <1>3, <2>1, FcOp
  <2>3. i.op = line.op
    BY <1>5, <2>1, <2>2 DEF FcFunction
  <2> QED BY <1>1, <1>2, <1>3, <1>5, <2>3 DEF Is
<1> QED BY <1>4, <1>5

\* FMAC: two registers below the FC function.
LEMMA FcMacs ==
  ASSUME NEW line, NEW labs, Good(line), line.op = "FMAC"
  PROVE  Is(line, Decode(Word(line, labs)))
<1> DEFINE a == line.args[1].n
           b == line.args[2].n
<1>1. 1 \in RegArgs(line) /\ 2 \in RegArgs(line)
  BY Mnemonics DEF RegArgs
<1>2. a \in 0 .. 7 /\ b \in 0 .. 7 /\ a = RegOf(line.args[1]) /\ b = RegOf(line.args[2])
  BY <1>1 DEF Good, Reg
<1>3. Word(line, labs) = W(0, 0, a, 16 + b)
  BY <1>2, Mnemonics DEF Word
<1>4. PICK c \in Nat : c = 16 + b
  BY <1>2
<1>5. c % 8 = b /\ (c % 64) \div 8 = 2
  BY <1>2, <1>4
<1>6. PICK i : i = Decode(Word(line, labs))
  OBVIOUS
<1>7. Reads(i, FcFunction((c % 64) \div 8), 0, a, c)
  BY <1>2, <1>3, <1>4, <1>6, FcWord
<1>8. i.op = "FMAC" /\ i.rs = a /\ i.rt = b
  BY <1>5, <1>7 DEF Reads, FcFunction
<1>9. Is(line, i)
  BY <1>8, Mnemonics DEF Is
<1> QED BY <1>6, <1>9

\* What MAC, FOUT and FACC take after their register, if anything.
LEMMA Selectors ==
  ASSUME NEW line, NEW labs, Good(line), line.op \in {"MAC", "FOUT", "FBEST", "FACC"}
  PROVE  Is(line, Decode(Word(line, labs)))
<1> DEFINE a == line.args[1].n
           size == IF line.op = "FOUT" THEN 8 ELSE 4
           second == IF Len(line.args) >= 2 THEN line.args[2].n ELSE 0
           v == IF Len(line.args) >= 2 THEN ImmOf(line.args[2]) % size ELSE 0
<1>1. 1 \in RegArgs(line)
  BY Mnemonics DEF RegArgs
<1>2. a \in 0 .. 7 /\ a = RegOf(line.args[1])
  BY <1>1 DEF Good, Reg
<1>3. line.op # "FBEST" => second \in Nat /\ second < size /\ v = second
  <2> SUFFICES ASSUME line.op # "FBEST" PROVE second \in Nat /\ second < size /\ v = second
    OBVIOUS
  <2>1. Len(line.args) \in Nat /\ DOMAIN line.args = 1 .. Len(line.args)
    BY DEF Good
  <2>2. CASE Len(line.args) >= 2
    <3>1. 2 \in ImmArg(line) /\ Field(line.op) = size
      BY <2>1, <2>2 DEF ImmArg, Field
    <3>2. second \in Nat /\ second < size /\ ImmOf(line.args[2]) = second
      BY <2>2, <3>1 DEF Good, Num
    <3>3. size \in Nat
      OBVIOUS
    <3>4. second % size = second
      <4> HIDE DEF second, size
      <4> QED BY <3>2, <3>3
    <3> QED BY <2>2, <3>2, <3>4
  <2>3. CASE ~(Len(line.args) >= 2)
    BY <2>3
  <2> QED BY <2>2, <2>3
<1>4. PICK i : i = Decode(Word(line, labs))
  OBVIOUS
<1>5. CASE line.op = "MAC"
  <2>1. Word(line, labs) = W(7, a, 0, v)
    BY <1>2, <1>5, Mnemonics DEF Word
  <2>2. 7 \in DOMAIN Plainly /\ Plainly[7] = "MAC" /\ v \in 0 .. 3
    <3>1. 7 \in DOMAIN Plainly /\ Plainly[7] = "MAC"
      BY DEF Plainly
    <3> QED BY <1>3, <1>5, <3>1
  <2> HIDE DEF v, second
  <2>3. Reads(i, "MAC", a, 0, v)
    BY <1>2, <1>4, <2>1, <2>2, PlainWord
  <2>4. i.op = "MAC" /\ i.rd = a /\ i.imm % 4 = second
    <3>1. v % 64 = v /\ v % 4 = v
      BY <2>2
    <3> QED BY <1>3, <1>5, <2>3, <3>1 DEF Reads
  <2> QED BY <1>4, <1>5, <2>4, Mnemonics DEF Is, second
<1>6. CASE line.op = "FOUT"
  <2>1. Word(line, labs) = W(0, a, 0, 40 + v)
    BY <1>2, <1>6, Mnemonics DEF Word
  <2>2. v \in 0 .. 7
    BY <1>3, <1>6
  <2> HIDE DEF v, second
  <2>3. PICK c \in Nat : c = 40 + v
    BY <2>2
  <2>4. c % 64 = c /\ c \div 8 = 5 /\ c % 8 = v
    BY <2>2, <2>3
  <2>5. Reads(i, FcFunction((c % 64) \div 8), a, 0, c)
    BY <1>2, <1>4, <2>1, <2>3, FcWord
  <2>6. i.op = "FOUT" /\ i.rd = a /\ i.imm % 8 = second
    BY <1>3, <1>6, <2>4, <2>5 DEF Reads, FcFunction
  <2> QED BY <1>4, <1>6, <2>6, Mnemonics DEF Is, second
<1>7. CASE line.op = "FBEST"
  <2>1. Word(line, labs) = W(0, a, 0, 48)
    BY <1>2, <1>7, Mnemonics DEF Word
  <2>2. (48 % 64) \div 8 = 6
    OBVIOUS
  <2>3. Reads(i, FcFunction((48 % 64) \div 8), a, 0, 48)
    BY <1>2, <1>4, <2>1, FcWord
  <2>4. i.op = "FBEST" /\ i.rd = a
    BY <2>2, <2>3 DEF Reads, FcFunction
  <2> QED BY <1>4, <1>7, <2>4, Mnemonics DEF Is
<1>8. CASE line.op = "FACC"
  <2>1. Word(line, labs) = W(0, a, 0, 56 + v)
    BY <1>2, <1>8, Mnemonics DEF Word
  <2>2. v \in 0 .. 3
    BY <1>3, <1>8
  <2> HIDE DEF v, second
  <2>3. PICK c \in Nat : c = 56 + v
    BY <2>2
  <2>4. c % 64 = c /\ c \div 8 = 7 /\ c % 4 = v
    BY <2>2, <2>3
  <2>5. Reads(i, FcFunction((c % 64) \div 8), a, 0, c)
    BY <1>2, <1>4, <2>1, <2>3, FcWord
  <2>6. i.op = "FACC" /\ i.rd = a /\ i.imm % 4 = second
    BY <1>3, <1>8, <2>4, <2>5 DEF Reads, FcFunction
  <2> QED BY <1>4, <1>8, <2>6, Mnemonics DEF Is, second
<1> QED BY <1>5, <1>6, <1>7, <1>8

\* Every line that is one instruction is what the decoder makes of its word.
LEMMA WordSaysTheLine ==
  ASSUME NEW line, NEW labs, Good(line), line.op \in Known, ~Pseudo(line),
         line.op \in DOMAIN Mask => TargetOf(line.args[1], labs) \in Nat
  PROVE  Is(line, Decode(Word(line, labs)))
<1>1. CASE line.op \in DOMAIN Mask
  <2>1. Word(line, labs) = Branch(Mask[line.op], TargetOf(line.args[1], labs))
    BY <1>1, Mnemonics DEF Word
  <2> QED BY <1>1, <2>1, Branches
<1>2. CASE line.op \in DOMAIN Alu \cup {"ADD", "ADDI"}
  <2>1. (line.op = "ADDI" \/ (line.op = "ADD" /\ line.args[3].is = "#"))
        \/ (line.op \in DOMAIN Alu \cup {"ADD"} /\ (line.op = "ADD" => line.args[3].is # "#"))
    BY <1>2, Mnemonics
  <2> QED BY <2>1, AddImmediate, ThreeRegisters
<1>3. CASE line.op \in DOMAIN Variant
  BY <1>3, Moves
<1>4. CASE line.op \in DOMAIN Fixed
  BY <1>4, Fixeds
<1>5. CASE line.op \in {"CMP", "LDR", "STR", "MACL"}
  BY <1>5, TwoRegisters
<1>6. CASE line.op \in {"ADDB", "WBASE"}
  BY <1>6, Bases
<1>7. CASE line.op = "FMAC"
  BY <1>7, FcMacs
<1>8. CASE line.op \in {"MAC", "FOUT", "FBEST", "FACC"}
  BY <1>8, Selectors
<1> QED BY <1>1, <1>2, <1>3, <1>4, <1>5, <1>6, <1>7, <1>8 DEF Known, Pseudo

-----------------------------------------------------------------------------
(* The pseudo-ops, run by the thread of LaneReference.                      *)

\* A thread with these registers, about to do the instruction at p.
Stands(t, regs, p) ==
  "regs" \in DOMAIN t /\ "pc" \in DOMAIN t /\ "flag" \in DOMAIN t /\ t.regs = regs /\ t.pc = p

\* A number below the modulus is its own residue.
LEMMA Small == ASSUME NEW m \in Nat, NEW v \in Nat, v < m PROVE v % m = v
  OBVIOUS

\* A register is written with what fits the word, and the thread goes on.
LEMMA StepWrites ==
  ASSUME NEW t, NEW regs, NEW p, Stands(t, regs, p), NEW i, i.op \in {"MOV", "LUI", "ADDI"},
         NEW v \in Nat, v < U16, Lane!Value(t, i, regs[i.rs], regs[i.rt]) = v
  PROVE  Stands(Lane!Stepped(t, i), [regs EXCEPT ![i.rd] = v], (p + 1) % Targets)
<1> DEFINE to == [regs EXCEPT ![i.rd] = v]
           u  == [t EXCEPT !.regs = to, !.pc = (p + 1) % Targets]
<1>1. v % U16 = v
  <2>1. U16 \in Nat
    BY DEF U16
  <2> QED BY <2>1, Small
<1>2. t.regs = regs /\ t.pc = p /\ "regs" \in DOMAIN t /\ "pc" \in DOMAIN t /\ "flag" \in DOMAIN t
  BY DEF Stands
<1>3. Lane!Stepped(t, i) = Lane!Wrote(t, i.rd, v)
  <2>1. i.op \in Lane!Arithmetic
    BY DEF Lane!Arithmetic
  <2>3. Lane!Stepped(t, i) = Lane!Wrote(t, i.rd, Lane!Value(t, i, t.regs[i.rs], t.regs[i.rt]))
    <3>1. CASE i.op = "MOV"
      BY <2>1, <3>1 DEF Lane!Stepped
    <3>2. CASE i.op = "LUI"
      BY <2>1, <3>2 DEF Lane!Stepped
    <3>3. CASE i.op = "ADDI"
      BY <2>1, <3>3 DEF Lane!Stepped
    <3> QED BY <3>1, <3>2, <3>3
  <2> QED BY <1>2, <2>3
<1>4. Lane!Wrote(t, i.rd, v) = u
  BY <1>1, <1>2 DEF Lane!Wrote
<1> HIDE DEF to
<1>5. Stands(u, to, (p + 1) % Targets)
  BY <1>2 DEF Stands
<1> QED BY <1>3, <1>4, <1>5 DEF to

\* CMP leaves the registers and sets the flag.
LEMMA StepCompares ==
  ASSUME NEW t, NEW regs, NEW p, Stands(t, regs, p), NEW i, i.op = "CMP"
  PROVE  /\ Stands(Lane!Stepped(t, i), regs, (p + 1) % Targets)
         /\ Lane!Stepped(t, i).flag = IF regs[i.rs] < regs[i.rt] THEN "N"
                                      ELSE IF regs[i.rs] = regs[i.rt] THEN "Z" ELSE "P"
<1> DEFINE f == IF regs[i.rs] < regs[i.rt] THEN "N" ELSE IF regs[i.rs] = regs[i.rt] THEN "Z" ELSE "P"
           u == [Lane!Went(t) EXCEPT !.flag = f]
<1>1. t.regs = regs /\ t.pc = p /\ "regs" \in DOMAIN t /\ "pc" \in DOMAIN t /\ "flag" \in DOMAIN t
  BY DEF Stands
<1>2. Lane!Stepped(t, i) = u
  <2>1. i.op \notin Lane!Arithmetic
    BY DEF Lane!Arithmetic
  <2> QED BY <1>1, <2>1 DEF Lane!Stepped
<1> HIDE DEF f
<1>3. Stands(u, regs, (p + 1) % Targets) /\ u.flag = f
  BY <1>1 DEF Stands, Lane!Went
<1> QED BY <1>2, <1>3 DEF f

\* BRn goes to its target exactly when the flag is N.
LEMMA StepBranches ==
  ASSUME NEW t, NEW regs, NEW p, Stands(t, regs, p), NEW i, i.op = "BR", i.nzp = {2},
         t.flag \in {"N", "Z", "P"}
  PROVE  Stands(Lane!Stepped(t, i), regs, IF t.flag = "N" THEN i.imm ELSE (p + 1) % Targets)
<1>1. t.regs = regs /\ t.pc = p /\ "regs" \in DOMAIN t /\ "pc" \in DOMAIN t /\ "flag" \in DOMAIN t
  BY DEF Stands
<1>2. i.op \notin Lane!Arithmetic
  BY DEF Lane!Arithmetic
<1>3. Lane!FlagBit[t.flag] \in i.nzp <=> t.flag = "N"
  BY DEF Lane!FlagBit
<1>4. CASE t.flag = "N"
  <2>1. Lane!Stepped(t, i) = [t EXCEPT !.pc = i.imm]
    BY <1>2, <1>3, <1>4 DEF Lane!Stepped
  <2> QED BY <1>1, <1>4, <2>1 DEF Stands
<1>5. CASE t.flag # "N"
  <2>1. Lane!Stepped(t, i) = Lane!Went(t)
    BY <1>2, <1>3, <1>5 DEF Lane!Stepped
  <2> QED BY <1>1, <1>5, <2>1 DEF Stands, Lane!Went
<1> QED BY <1>4, <1>5

\* The thread the pseudo-ops are tried on.
LEMMA MarkedStands == ASSUME NEW p PROVE Stands(Marked(p), [r \in 0 .. 7 |-> 100 * (r + 1)], p)
  BY DEF Marked, Stands, Lane!Fresh

\* A word of 16 bits is 4 bits and twice 6.
LEMMA Sixes ==
  ASSUME NEW v \in Nat, v < U16
  PROVE  /\ v \div 4096 \in Nat /\ v \div 4096 < 64 /\ v \div 64 \in Nat /\ v \div 64 < U16
         /\ (v \div 4096) * 64 + ((v \div 64) % 64) = v \div 64
         /\ (v \div 64) * 64 + (v % 64) = v
<1> DEFINE m == v \div 64
           q == m \div 64
<1>1. m \in Nat /\ m < 1024 /\ m * 64 + (v % 64) = v /\ v < 65536
  BY DEF U16
<1>2. q \in Nat /\ q < 64 /\ q * 64 + (m % 64) = m
  <2> HIDE DEF m
  <2> QED BY <1>1
<1>3. v \div 4096 = q
  <2> DEFINE x == m % 64
             y == v % 64
  <2>1. x \in 0 .. 63 /\ y \in 0 .. 63
    OBVIOUS
  <2>2. v = m * 64 + y /\ m = q * 64 + x
    BY <1>1, <1>2
  <2> HIDE DEF m, q, x, y
  <2> QED BY <1>2, <2>1, <2>2
<1>4. m < U16
  BY <1>1 DEF U16
<1> QED BY <1>1, <1>2, <1>3, <1>4

\* Behind the words at p a thread rests.
LEMMA Outside ==
  ASSUME NEW p \in Nat, NEW size \in 1 .. 4, p + size <= Targets, NEW t, t.pc = (p + size) % Targets
  PROVE  Within(p, size, t) = t
<1>1. t.pc \notin p .. p + size - 1
  <2>1. CASE p + size = Targets
    BY <2>1 DEF Targets
  <2>2. CASE p + size # Targets
    <3>1. p + size \in Nat /\ Targets \in Nat /\ p + size < Targets
      BY <2>2 DEF Targets
    <3>2. t.pc = p + size
      BY <3>1, Small
    <3> QED BY <3>2
  <2> QED BY <2>1, <2>2
<1> QED BY <1>1 DEF Within

\* LDI Rd,#v leaves v in Rd and every other register as it was.
LEMMA LdiEffect ==
  ASSUME NEW line, line.op = "LDI", Good(line), NEW p \in Nat, p + 3 <= Targets,
         \A j \in 1 .. 3 : words[p + j] = Ldi(RegOf(line.args[1]), ImmOf(line.args[2]))[j]
  PROVE  Effect(line, p)
<1> DEFINE r  == line.args[1].n
           v  == line.args[2].n
           hi == v \div 4096
           m  == v \div 64
           R0 == [x \in 0 .. 7 |-> 100 * (x + 1)]
           R1 == [R0 EXCEPT ![r] = hi]
           R2 == [R1 EXCEPT ![r] = m]
           R3 == [R2 EXCEPT ![r] = v]
<1>1. /\ r \in 0 .. 7 /\ RegOf(line.args[1]) = r
      /\ v \in Nat /\ v < U16 /\ ImmOf(line.args[2]) = v
  <2>1. 1 \in RegArgs(line) /\ 2 \in ImmArg(line) /\ Field(line.op) = U16
    BY Mnemonics DEF RegArgs, ImmArg, Field
  <2> QED BY <2>1 DEF Good, Reg, Num
<1>2. /\ hi \in Nat /\ hi < 64 /\ m \in Nat /\ m < U16
      /\ hi * 64 + (m % 64) = m /\ m * 64 + (v % 64) = v
  BY <1>1, Sixes
<1>3. /\ words[p + 1] = W(2, r, 0, hi) /\ words[p + 2] = W(2, r, 4, m) /\ words[p + 3] = W(2, r, 4, v)
  BY <1>1 DEF Ldi, ImmSize
<1> HIDE DEF hi, m
<1>4. PICK i1 : i1 = Decode(words[p + 1])
  OBVIOUS
<1>5. PICK i2 : i2 = Decode(words[p + 2])
  OBVIOUS
<1>6. PICK i3 : i3 = Decode(words[p + 3])
  OBVIOUS
<1>7. i1.op = "MOV" /\ i1.rd = r /\ i1.imm = hi
  <2>1. Reads(i1, MovVariant(0), r, IF 0 = 4 THEN r ELSE 0, hi)
    BY <1>1, <1>2, <1>3, <1>4, MovWord
  <2>2. hi % 64 = hi
    BY <1>2
  <2> QED BY <2>1, <2>2 DEF Reads, MovVariant
<1>8. i2.op = "LUI" /\ i2.rd = r /\ i2.rs = r /\ i2.imm = m % 64
  <2>1. Reads(i2, MovVariant(4), r, IF 4 = 4 THEN r ELSE 4, m)
    BY <1>1, <1>2, <1>3, <1>5, MovWord
  <2> QED BY <2>1 DEF Reads, MovVariant
<1>9. i3.op = "LUI" /\ i3.rd = r /\ i3.rs = r /\ i3.imm = v % 64
  <2>1. Reads(i3, MovVariant(4), r, IF 4 = 4 THEN r ELSE 4, v)
    BY <1>1, <1>2, <1>3, <1>6, MovWord
  <2> QED BY <2>1 DEF Reads, MovVariant
<1>10. /\ R0 \in [0 .. 7 -> Nat] /\ R1 \in [0 .. 7 -> Nat] /\ R2 \in [0 .. 7 -> Nat]
       /\ R1[r] = hi /\ R2[r] = m /\ R3 = [R0 EXCEPT ![r] = v]
  <2> HIDE DEF r, v
  <2>1. R0 \in [0 .. 7 -> Nat]
    OBVIOUS
  <2> HIDE DEF R0
  <2>2. R1 \in [0 .. 7 -> Nat] /\ R1[r] = hi
    BY <1>1, <1>2, <2>1
  <2>3. R3 = [R0 EXCEPT ![r] = v]
    BY <1>1, <2>1
  <2> HIDE DEF R1
  <2>4. R2 \in [0 .. 7 -> Nat] /\ R2[r] = m
    BY <1>1, <1>2, <2>2
  <2> QED BY <2>1, <2>2, <2>3, <2>4
<1>11. /\ Targets \in Nat /\ p + 1 = (p + 0) + 1 /\ p < Targets
       /\ (p + 1) % Targets = p + 1 /\ ((p + 1) + 1) % Targets = p + 2 /\ ((p + 2) + 1) % Targets = (p + 3) % Targets
  BY DEF Targets
<1> HIDE DEF R0, R1, R2, R3, r, v
<1> DEFINE t0 == Marked(p)
<1>12. Stands(t0, R0, p)
  BY MarkedStands DEF R0
<1> HIDE DEF t0
<1> DEFINE t1 == Within(p, 3, t0)
<1>13. Stands(t1, R1, p + 1)
  <2>1. t1 = Lane!Stepped(t0, i1)
    <3>1. t0.pc = p /\ t0.pc \in p .. p + 3 - 1
      BY <1>12 DEF Stands
    <3> QED BY <1>4, <3>1 DEF t1, Within
  <2>2. Lane!Value(t0, i1, R0[i1.rs], R0[i1.rt]) = hi
    BY <1>7 DEF Lane!Value
  <2>3. hi < U16
    BY <1>2 DEF U16
  <2> HIDE DEF t1
  <2>4. Stands(Lane!Stepped(t0, i1), [R0 EXCEPT ![i1.rd] = hi], (p + 1) % Targets)
    BY <1>2, <1>7, <1>12, <2>2, <2>3, StepWrites
  <2> QED BY <1>7, <1>11, <2>1, <2>4 DEF R1
<1> HIDE DEF t1
<1> DEFINE t2 == Within(p, 3, t1)
<1>14. Stands(t2, R2, p + 2)
  <2>1. t2 = Lane!Stepped(t1, i2)
    <3>1. t1.pc = p + 1 /\ (p + 1) + 1 = p + 2 /\ t1.pc \in p .. p + 3 - 1
      BY <1>13 DEF Stands
    <3> QED BY <1>5, <3>1 DEF t2, Within
  <2>2. Lane!Value(t1, i2, R1[i2.rs], R1[i2.rt]) = m
    <3>1. (m % 64) % 64 = m % 64
      BY <1>2
    <3> QED BY <1>2, <1>8, <1>10, <3>1 DEF Lane!Value, ImmSize
  <2> HIDE DEF t2
  <2>3. Stands(Lane!Stepped(t1, i2), [R1 EXCEPT ![i2.rd] = m], ((p + 1) + 1) % Targets)
    BY <1>2, <1>8, <1>13, <2>2, StepWrites
  <2> QED BY <1>8, <1>11, <2>1, <2>3 DEF R2
<1> HIDE DEF t2
<1> DEFINE t3 == Within(p, 3, t2)
<1>15. Stands(t3, R3, (p + 3) % Targets)
  <2>1. t3 = Lane!Stepped(t2, i3)
    <3>1. t2.pc = p + 2 /\ (p + 2) + 1 = p + 3 /\ t2.pc \in p .. p + 3 - 1
      BY <1>14 DEF Stands
    <3> QED BY <1>6, <3>1 DEF t3, Within
  <2>2. Lane!Value(t2, i3, R2[i3.rs], R2[i3.rt]) = v
    <3>1. (v % 64) % 64 = v % 64
      BY <1>1 DEF v
    <3> QED BY <1>2, <1>9, <1>10, <3>1 DEF Lane!Value, ImmSize
  <2> HIDE DEF t3
  <2>3. Stands(Lane!Stepped(t2, i3), [R2 EXCEPT ![i3.rd] = v], ((p + 2) + 1) % Targets)
    <3>1. v \in Nat /\ v < U16
      BY <1>1 DEF v
    <3> QED BY <1>9, <1>14, <2>2, <3>1, StepWrites
  <2> QED BY <1>9, <1>11, <2>1, <2>3 DEF R3
<1> HIDE DEF t3
<1> DEFINE t4 == Within(p, 3, t3)
<1>16. t4 = t3
  <2>1. t3.pc = (p + 3) % Targets /\ 3 \in 1 .. 4
    BY <1>15 DEF Stands
  <2> QED BY <2>1, Outside
<1>17. Through(p, 3, t0) = t3
  BY <1>16 DEF Through, t1, t2, t3
<1>18. t3.regs = [Marked(p).regs EXCEPT ![line.args[1].n] = line.args[2].n]
  BY <1>10, <1>12, <1>15 DEF Stands, t0, r, v
<1>19. WordCount(line.op) = 3
  BY DEF WordCount
<1> QED BY <1>17, <1>18, <1>19 DEF Effect, t0

\* MAX Rd,Ra,Rb leaves the larger of Ra and Rb in Rd and every other register as it
\* was, unless Rd is Rb and not Ra.
LEMMA MaxEffect ==
  ASSUME NEW line, line.op = "MAX", Good(line), ~Overlaps(line), NEW p \in Nat, p + 4 <= Targets,
         \A j \in 1 .. 4 :
           words[p + j] = Max4(RegOf(line.args[1]), RegOf(line.args[2]), RegOf(line.args[3]), p)[j]
  PROVE  Effect(line, p)
<1> DEFINE r  == line.args[1].n
           a  == line.args[2].n
           b  == line.args[3].n
           R0 == [x \in 0 .. 7 |-> 100 * (x + 1)]
           R1 == [R0 EXCEPT ![r] = R0[a]]
           R2 == [R1 EXCEPT ![r] = R1[b]]
           end == (p + 4) % Targets
<1>1. /\ r \in 0 .. 7 /\ RegOf(line.args[1]) = r
      /\ a \in 0 .. 7 /\ RegOf(line.args[2]) = a
      /\ b \in 0 .. 7 /\ RegOf(line.args[3]) = b
      /\ r = b => a = b
  <2>1. 1 \in RegArgs(line) /\ 2 \in RegArgs(line) /\ 3 \in RegArgs(line)
    BY Mnemonics DEF RegArgs
  <2> QED BY <2>1 DEF Good, Reg, Overlaps
<1>2. /\ words[p + 1] = W(5, r, a, 0) /\ words[p + 2] = W(3, 0, b, a)
      /\ words[p + 3] = Branch(4, p + 4) /\ words[p + 4] = W(5, r, b, 0)
  BY <1>1 DEF Max4, Mask
<1> HIDE DEF r, a, b
<1>3. PICK i1 : i1 = Decode(words[p + 1])
  OBVIOUS
<1>4. PICK i2 : i2 = Decode(words[p + 2])
  OBVIOUS
<1>5. PICK i3 : i3 = Decode(words[p + 3])
  OBVIOUS
<1>6. PICK i4 : i4 = Decode(words[p + 4])
  OBVIOUS
<1>7. /\ i1.op = "ADDI" /\ i1.rd = r /\ i1.rs = a /\ i1.imm = 0
      /\ i4.op = "ADDI" /\ i4.rd = r /\ i4.rs = b /\ i4.imm = 0
  <2>1. 5 \in DOMAIN Plainly /\ Plainly[5] = "ADDI"
    BY DEF Plainly
  <2>2. Reads(i1, "ADDI", r, a, 0) /\ Reads(i4, "ADDI", r, b, 0)
    BY <1>1, <1>2, <1>3, <1>6, <2>1, PlainWord
  <2> QED BY <2>2 DEF Reads
<1>8. i2.op = "CMP" /\ i2.rs = b /\ i2.rt = a
  <2>1. 3 \in DOMAIN Plainly /\ Plainly[3] = "CMP"
    BY DEF Plainly
  <2>2. Reads(i2, "CMP", 0, b, a)
    BY <1>1, <1>2, <1>4, <2>1, PlainWord
  <2> QED BY <1>1, <2>2 DEF Reads
<1>9. i3.op = "BR" /\ i3.nzp = {2} /\ i3.imm = end
  <2>1. BitsOf(4) = {2}
    BY ConditionBits
  <2>2. p + 4 \in Nat
    OBVIOUS
  <2> HIDE DEF end
  <2>3. i3.op = "BR" /\ i3.nzp = BitsOf(4) /\ i3.imm = (p + 4) % Targets
    BY <1>2, <1>5, <2>2, BranchWord
  <2> QED BY <2>1, <2>3 DEF end
<1>10. /\ Targets \in Nat /\ p < Targets
       /\ (p + 1) % Targets = p + 1 /\ ((p + 1) + 1) % Targets = p + 2
       /\ ((p + 2) + 1) % Targets = p + 3 /\ ((p + 3) + 1) % Targets = end
  BY DEF Targets
<1>11. /\ \A x \in 0 .. 7 : R0[x] \in Nat /\ R0[x] < U16
       /\ \A x, y \in 0 .. 7 : R0[x] < R0[y] <=> x < y
       /\ DOMAIN R0 = 0 .. 7
  BY DEF U16
<1> HIDE DEF R0
<1>12. /\ R1[a] = R0[a] /\ R1[b] = R0[b] /\ R2 = [R0 EXCEPT ![r] = R0[b]]
  BY <1>1, <1>11
<1> HIDE DEF R1, R2, end
<1> DEFINE t0 == Marked(p)
<1>13. Stands(t0, R0, p)
  BY MarkedStands DEF R0
<1> HIDE DEF t0
<1> DEFINE t1 == Within(p, 4, t0)
<1>14. Stands(t1, R1, p + 1)
  <2>1. t1 = Lane!Stepped(t0, i1)
    <3>1. t0.pc = p /\ t0.pc \in p .. p + 4 - 1
      BY <1>13 DEF Stands
    <3> QED BY <1>3, <3>1 DEF t1, Within
  <2>2. Lane!Value(t0, i1, R0[i1.rs], R0[i1.rt]) = R0[a]
    BY <1>1, <1>7, <1>11 DEF Lane!Value
  <2> HIDE DEF t1
  <2>3. R0[a] \in Nat /\ R0[a] < U16
    BY <1>1, <1>11
  <2>4. Stands(Lane!Stepped(t0, i1), [R0 EXCEPT ![i1.rd] = R0[a]], (p + 1) % Targets)
    BY <1>7, <1>13, <2>2, <2>3, StepWrites
  <2> QED BY <1>7, <1>10, <2>1, <2>4 DEF R1
<1> HIDE DEF t1
<1> DEFINE t2 == Within(p, 4, t1)
<1>15. /\ Stands(t2, R1, p + 2)
       /\ t2.flag \in {"N", "Z", "P"} /\ (t2.flag = "N" <=> b < a)
  <2>1. t2 = Lane!Stepped(t1, i2)
    <3>1. t1.pc = p + 1 /\ (p + 1) + 1 = p + 2 /\ t1.pc \in p .. p + 4 - 1
      BY <1>14 DEF Stands
    <3> QED BY <1>4, <3>1 DEF t2, Within
  <2> HIDE DEF t2
  <2>2. /\ Stands(t2, R1, p + 2)
        /\ t2.flag = IF R1[b] < R1[a] THEN "N" ELSE IF R1[b] = R1[a] THEN "Z" ELSE "P"
    BY <1>8, <1>10, <1>14, <2>1, StepCompares
  <2>3. R1[b] < R1[a] <=> b < a
    BY <1>1, <1>11, <1>12
  <2> QED BY <2>2, <2>3
<1> HIDE DEF t2
<1> DEFINE t3 == Within(p, 4, t2)
<1>16. Stands(t3, R1, IF b < a THEN end ELSE p + 3)
  <2>1. t3 = Lane!Stepped(t2, i3)
    <3>1. t2.pc = p + 2 /\ (p + 2) + 1 = p + 3 /\ t2.pc \in p .. p + 4 - 1
      BY <1>15 DEF Stands
    <3> QED BY <1>5, <3>1 DEF t3, Within
  <2> HIDE DEF t3
  <2> QED BY <1>9, <1>10, <1>15, <2>1, StepBranches
<1> HIDE DEF t3
<1> DEFINE t4 == Within(p, 4, t3)
<1>17. CASE b < a
  <2>1. t4 = t3
    <3>1. t3.pc = (p + 4) % Targets /\ 4 \in 1 .. 4
      BY <1>16, <1>17 DEF Stands, end
    <3> QED BY <3>1, Outside
  <2>2. t4.regs = [R0 EXCEPT ![r] = R0[a]]
    BY <1>16, <2>1 DEF Stands, R1
  <2>3. R0[a] > R0[b]
    BY <1>1, <1>11, <1>17
  <2>4. Through(p, 4, t0) = t4
    BY DEF Through, t1, t2, t3
  <2>5. t0.regs = R0 /\ WordCount(line.op) = 4
    BY <1>13 DEF Stands, WordCount
  <2> HIDE DEF t4
  <2> QED BY <2>2, <2>3, <2>4, <2>5 DEF Effect, t0, r, a, b
<1>18. CASE ~(b < a)
  <2>1. t4 = Lane!Stepped(t3, i4)
    <3>1. t3.pc = p + 3 /\ (p + 3) + 1 = p + 4 /\ t3.pc \in p .. p + 4 - 1
      BY <1>16, <1>18 DEF Stands
    <3> QED BY <1>6, <3>1 DEF t4, Within
  <2> HIDE DEF t4
  <2>2. Lane!Value(t3, i4, R1[i4.rs], R1[i4.rt]) = R0[b]
    BY <1>1, <1>7, <1>11, <1>12 DEF Lane!Value
  <2>3. Stands(t4, [R1 EXCEPT ![r] = R0[b]], end)
    BY <1>1, <1>7, <1>10, <1>11, <1>16, <1>18, <2>1, <2>2, StepWrites
  <2>4. t4.regs = [R0 EXCEPT ![r] = R0[b]]
    BY <1>12, <2>3 DEF Stands, R2
  <2>5. ~(R0[a] > R0[b])
    BY <1>1, <1>11, <1>18
  <2>6. Through(p, 4, t0) = t4
    BY DEF Through, t1, t2, t3, t4
  <2>7. t0.regs = R0 /\ WordCount(line.op) = 4
    BY <1>13 DEF Stands, WordCount
  <2> QED BY <2>4, <2>5, <2>6, <2>7 DEF Effect, t0, r, a, b
<1> QED BY <1>17, <1>18

-----------------------------------------------------------------------------
\* Before the first line there is no address and no word to be wrong about.
LEMMA Initially == (\E S : source \in Seq(S)) /\ InState(Fresh(source)) => IInv
<1> SUFFICES ASSUME \E S : source \in Seq(S), InState(Fresh(source)) PROVE IInv
  OBVIOUS
<1>0. PICK S : source \in Seq(S)
  OBVIOUS
<1>1. /\ phase = "labels" /\ at = 1 /\ pc = 0 /\ labels = << >> /\ words = << >> /\ starts = << >>
  BY DEF InState, Fresh
<1>2. Typed
  BY <1>0, <1>1 DEF Typed
<1> QED BY <1>1, <1>2 DEF IInv, Addressed, FirstPass, SecondPass, Reached, LabelsNamed

\* A line of pass 1 adds its own address to the chain, and its label at it.
LEMMA ScanKeeps == IInv /\ Scan => IInv'
<1> SUFFICES ASSUME IInv, Scan PROVE IInv'
  OBVIOUS
<1> USE DEF IInv
<1>1. /\ phase = "labels" /\ at <= Len(source) /\ at' = at + 1 /\ starts' = Append(starts, pc)
      /\ UNCHANGED <<source, phase, words>>
  BY DEF Scan, Reading
<1>2. at \in 1 .. Len(source) /\ Len(starts) = at - 1 /\ pc = Reached(at) /\ pc \in Nat /\ starts \in Seq(Nat)
  BY <1>1 DEF Typed, FirstPass
<1>3. pc' = pc + Size(source[at])
  <2>1. CASE source[at].op = ""
    <3>1. pc' = pc /\ Size(source[at]) = 0
      BY <2>1 DEF Scan, Size, current
    <3> QED BY <1>2, <3>1
  <2>2. CASE source[at].op # ""
    BY <2>2 DEF Scan, Size, current
  <2> QED BY <2>1, <2>2
<1>4. Len(starts') = at /\ starts'[at] = pc /\ \A k \in 1 .. at - 1 : starts'[k] = starts[k]
  BY <1>1, <1>2
<1>5. Typed'
  <2>1. \A l \in DOMAIN labels : labels[l] \in Nat
    BY DEF Typed
  <2>2. \A l \in DOMAIN labels' : labels'[l] \in Nat
    <3>1. CASE current.label = NoLabel
      BY <2>1, <3>1 DEF Scan
    <3>2. CASE current.label # NoLabel
      <4> DEFINE l0 == current.label
      <4>1. labels' = [l \in DOMAIN labels \cup {l0} |-> IF l = l0 THEN pc ELSE labels[l]]
        BY <3>2 DEF Scan
      <4> HIDE DEF l0
      <4> QED BY <1>2, <2>1, <4>1
    <3> QED BY <3>1, <3>2
  <2>3. Size(source[at]) \in Nat
    BY SizeNat
  <2> QED BY <1>1, <1>2, <1>3, <2>1, <2>2, <2>3 DEF Typed
<1>6. Addressed'
  BY <1>1, <1>2, <1>4 DEF Addressed, Reached
<1>7. pc' = Reached(at)' 
  <2>1. at' # 1 /\ at' - 1 = at
    BY <1>1, <1>2
  <2> QED BY <1>1, <1>3, <1>4, <2>1 DEF Reached, Size
<1>8. LabelsNamed(at - 1)'
  <2> SUFFICES ASSUME NEW m \in 1 .. at, source[m].label # NoLabel,
                      \A o \in 1 .. at : source[o].label = source[m].label => o = m
               PROVE  source[m].label \in DOMAIN labels' /\ labels'[source[m].label] = starts'[m]
    BY <1>1, <1>2 DEF LabelsNamed
  <2>1. CASE m = at
    BY <1>4, <2>1 DEF Scan, current
  <2>2. CASE m # at
    <3>1. m \in 1 .. at - 1 /\ source[at].label # source[m].label
      BY <1>2, <2>2
    <3>2. source[m].label \in DOMAIN labels /\ labels[source[m].label] = starts[m]
      <4>1. LabelsNamed(at - 1)
        BY <1>1 DEF FirstPass
      <4> QED BY <1>2, <3>1, <4>1 DEF LabelsNamed
    <3> QED BY <1>4, <3>1, <3>2 DEF Scan, current
  <2> QED BY <2>1, <2>2
<1> QED BY <1>1, <1>2, <1>4, <1>5, <1>6, <1>7, <1>8 DEF FirstPass, SecondPass

\* Between the passes the addresses stay and the word counter starts over.
LEMMA RewindKeeps == IInv /\ Rewind => IInv'
<1> SUFFICES ASSUME IInv, Rewind PROVE IInv'
  OBVIOUS
<1> USE DEF IInv
<1>1. /\ phase = "labels" /\ at > Len(source) /\ phase' = "encode" /\ at' = 1 /\ pc' = 0
      /\ UNCHANGED <<source, labels, words, starts>>
  BY DEF Rewind
<1>2. at = Len(source) + 1 /\ Len(starts) = Len(source)
  BY <1>1 DEF Typed, FirstPass
<1>3. Typed'
  BY <1>1 DEF Typed
<1>4. Addressed' /\ LabelsNamed(Len(source))'
  BY <1>1, <1>2 DEF Addressed, Reached, FirstPass, LabelsNamed, Typed
<1>5. pc' = Reached(at)' /\ pc' = Len(words') /\ LinesWritten(at - 1)'
  BY <1>1 DEF Rewind, FirstPass, Reached, LinesWritten
<1>6. FirstPass'
  BY <1>1 DEF FirstPass
<1>7. SecondPass'
  BY <1>1, <1>2, <1>4, <1>5 DEF SecondPass
<1> QED BY <1>3, <1>4, <1>6, <1>7

\* A line of pass 2 keeps the chain because its code is as long as pass 1 counted.
LEMMA EmitKeeps == IInv /\ Emit => IInv'
<1> SUFFICES ASSUME IInv, Emit PROVE IInv'
  OBVIOUS
<1> USE DEF IInv
<1> DEFINE line == source[at]
           code == IF line.op = "" THEN << >> ELSE Encode(line, pc, labels)
<1>1. /\ phase = "encode" /\ at <= Len(source) /\ at' = at + 1
      /\ words' = words \o code /\ pc' = pc + Len(code)
      /\ UNCHANGED <<source, phase, labels, starts>>
  BY DEF Emit, Reading, current
<1> HIDE DEF code, IInv
<1>2. /\ at \in 1 .. Len(source) /\ at \in DOMAIN source /\ Len(source) \in Nat
      /\ Len(starts) = Len(source) /\ LabelsNamed(Len(source)) /\ starts \in Seq(Nat)
      /\ pc \in Nat /\ phase' = "encode"
  <2>1. /\ Len(source) \in Nat /\ DOMAIN source = 1 .. Len(source) /\ at \in 1 .. Len(source) + 1
        /\ starts \in Seq(Nat) /\ pc \in Nat
    BY DEF IInv, Typed
  <2>2. Len(starts) = Len(source) /\ LabelsNamed(Len(source))
    BY <1>1 DEF IInv, SecondPass
  <2>3. at \in 1 .. Len(source)
    BY <1>1, <2>1
  <2> QED BY <1>1, <2>1, <2>2, <2>3
<1>3. PICK S, T : words \in Seq(S) /\ code \in Seq(T)
  <2>1. \E S : words \in Seq(S)
    BY DEF IInv, Typed
  <2>2. \E T : code \in Seq(T)
    <3>1. << >> \in Seq({})
      OBVIOUS
    <3>2. \E T : Encode(line, pc, labels) \in Seq(T)
      BY EncodeSequence
    <3> QED BY <3>1, <3>2 DEF code
  <2> QED BY <2>1, <2>2
<1>4. words \in Seq(S \cup T) /\ code \in Seq(S \cup T)
  BY <1>3, SeqMonotonic, Zenon
<1>5. /\ Len(code) \in Nat /\ Len(words) \in Nat /\ Len(words') = Len(words) + Len(code)
      /\ words' \in Seq(S \cup T)
      /\ \A k \in 1 .. Len(words) : words'[k] = words[k]
      /\ \A k \in 1 .. Len(code) : words'[Len(words) + k] = code[k]
  BY <1>1, <1>4
<1>6. Typed'
  <2>1. \A l \in DOMAIN labels' : labels'[l] \in Nat
    BY <1>1 DEF IInv, Typed
  <2> QED BY <1>1, <1>2, <1>5, <2>1 DEF Typed
<1>7. Addressed' /\ FirstPass' /\ LabelsNamed(Len(source))'
  BY <1>1, <1>2 DEF IInv, Addressed, Reached, FirstPass, LabelsNamed
<1>8. ASSUME AllKnown
      PROVE  pc' = Reached(at)' /\ pc' = Len(words') /\ LinesWritten(at - 1)'
  <2>1. pc = Reached(at) /\ pc = Len(words) /\ LinesWritten(at - 1)
    BY <1>1, <1>8 DEF IInv, SecondPass
  <2>2. Len(code) = Size(line)
    <3>1. CASE line.op = ""
      BY <3>1 DEF code, Size
    <3>2. CASE line.op # ""
      <4>1. line.op \in Known
        BY <1>2, <1>8, <3>2 DEF AllKnown
      <4> QED BY <3>2, <4>1, EncodeLength DEF code, Size
    <3> QED BY <3>1, <3>2
  <2>3. starts[at] = pc
    BY <1>2, <2>1 DEF IInv, Addressed, Reached
  <2>4. pc' = Reached(at)'
    <3>1. at' # 1 /\ at' - 1 = at
      BY <1>1, <1>2
    <3> QED BY <1>1, <2>2, <2>3, <3>1 DEF Reached, Size
  <2>5. LinesWritten(at - 1)'
    <3> SUFFICES ASSUME NEW k \in 1 .. at, ~Blank(source[k])
                 PROVE  /\ ~Faulty(source[k])
                        /\ starts[k] + WordCount(source[k].op) <= Len(words')
                        /\ \A j \in 1 .. WordCount(source[k].op) :
                             words'[starts[k] + j] = Encode(source[k], starts[k], labels)[j]
      <4>1. at' - 1 = at
        BY <1>1, <1>2
      <4> QED BY <1>1, <4>1 DEF LinesWritten
    <3>1. CASE k = at
      <4>1. code = Encode(source[k], starts[k], labels) /\ ~Faulty(source[k])
        BY <2>3, <3>1 DEF code, Emit, current, Blank
      <4>2. Len(code) = WordCount(source[k].op)
        BY <2>2, <3>1 DEF Size, Blank
      <4>3. starts[k] = Len(words)
        BY <2>1, <2>3, <3>1
      <4>4. \A j \in 1 .. WordCount(source[k].op) : words'[starts[k] + j] = Encode(source[k], starts[k], labels)[j]
        BY <1>5, <4>1, <4>2, <4>3
      <4>5. starts[k] + WordCount(source[k].op) <= Len(words')
        BY <1>5, <4>2, <4>3
      <4> QED BY <4>1, <4>4, <4>5
    <3>2. CASE k # at
      <4>1. k \in 1 .. at - 1
        BY <1>2, <3>2
      <4>2. /\ ~Faulty(source[k])
            /\ starts[k] + WordCount(source[k].op) <= Len(words)
            /\ \A j \in 1 .. WordCount(source[k].op) :
                 words[starts[k] + j] = Encode(source[k], starts[k], labels)[j]
        BY <2>1, <4>1 DEF LinesWritten
      <4>3. starts[k] \in Nat /\ WordCount(source[k].op) \in Nat
        BY <1>2, <4>1, ElementOfSeq DEF WordCount
      <4>4. \A j \in 1 .. WordCount(source[k].op) : starts[k] + j \in 1 .. Len(words)
        BY <1>5, <4>2, <4>3
      <4>5. \A j \in 1 .. WordCount(source[k].op) : words'[starts[k] + j] = words[starts[k] + j]
        BY <1>5, <4>4
      <4>6. starts[k] + WordCount(source[k].op) <= Len(words')
        BY <1>5, <4>2, <4>3
      <4> QED BY <4>2, <4>5, <4>6
    <3> QED BY <3>1, <3>2
  <2> QED BY <1>1, <1>2, <1>5, <2>1, <2>4, <2>5
<1>9. SecondPass'
  BY <1>1, <1>2, <1>7, <1>8 DEF SecondPass, AllKnown
<1> QED BY <1>6, <1>7, <1>9 DEF IInv

\* Stopping, at the end or at an error, and doing nothing change no word.
LEMMA RestKeeps == IInv /\ (Exit \/ Finish \/ UNCHANGED asmvars) => IInv'
<1> SUFFICES ASSUME IInv, Exit \/ Finish \/ UNCHANGED asmvars PROVE IInv'
  OBVIOUS
<1>1. UNCHANGED <<source, at, pc, labels, words, starts>>
  BY DEF Exit, Finish, asmvars
<1>2. Addressed' /\ LabelsNamed(Len(source))' = LabelsNamed(Len(source))
  BY <1>1 DEF IInv, Addressed, Reached, LabelsNamed
<1>3. CASE Exit
  BY <1>1, <1>2, <1>3 DEF Exit, Reading, IInv, Typed, FirstPass, SecondPass
<1>4. CASE Finish
  <2>1. phase = "encode" /\ phase' = "done" /\ at = Len(source) + 1 /\ Len(source) \in Nat
    BY <1>4 DEF Finish, IInv, Typed
  <2>2. AllKnown' => LinesWritten(Len(source))' /\ Len(words') = Reached(Len(source) + 1)'
    <3>1. at - 1 = Len(source) /\ at = Len(source) + 1
      BY <2>1
    <3>2. AllKnown => LinesWritten(at - 1) /\ Len(words) = Reached(at)
      BY <2>1 DEF IInv, SecondPass
    <3>3. /\ AllKnown' = AllKnown /\ LinesWritten(Len(source))' = LinesWritten(Len(source))
          /\ Reached(Len(source) + 1)' = Reached(Len(source) + 1)
      BY <1>1 DEF AllKnown, LinesWritten, Reached
    <3> QED BY <1>1, <3>1, <3>2, <3>3
  <2>3. Typed' /\ FirstPass'
    BY <1>1, <2>1 DEF IInv, Typed, FirstPass
  <2>4. SecondPass'
    BY <1>1, <1>2, <2>1, <2>2 DEF IInv, SecondPass
  <2> QED BY <1>2, <2>3, <2>4 DEF IInv
<1>5. CASE UNCHANGED asmvars
  BY <1>5 DEF asmvars, IInv, Typed, Addressed, Reached, FirstPass, SecondPass, LabelsNamed,
                  LinesWritten, AllKnown
<1> QED BY <1>3, <1>4, <1>5

\* The chain of addresses and what was written along it, for every source.
THEOREM Inductive == AsmSpec => []IInv
<1>1. IsAssembly(source) /\ InState(Fresh(source)) => IInv
  BY Initially DEF IsAssembly
<1>2. IInv /\ [AsmNext]_asmvars => IInv'
  BY ScanKeeps, RewindKeeps, EmitKeeps, RestKeeps DEF AsmNext
<1> QED BY <1>1, <1>2, PTL DEF AsmSpec

\* The text is read and never written.
LEMMA TextStays == AsmSpec => []IsAssembly(source)
<1>1. IsAssembly(source) /\ [AsmNext]_asmvars => IsAssembly(source)'
  BY DEF IsAssembly, AsmNext, Scan, Rewind, Emit, Exit, Finish, asmvars
<1> QED BY <1>1, PTL DEF AsmSpec

\* Pass 2 comes to each line of every known source at the address where pass 1
\* saw it (main.rs:213-247).
THEOREM PassesAlwaysAgree == AsmSpec => []PassesAgree
<1>1. IInv => PassesAgree
  <2> SUFFICES ASSUME IInv, phase = "encode", AllKnown
               PROVE  pc = Len(words) /\ (at \in DOMAIN starts => pc = starts[at])
    BY DEF PassesAgree
  <2>1. pc = Reached(at) /\ pc = Len(words)
    BY DEF IInv, SecondPass
  <2>2. starts \in Seq(Nat)
    BY DEF IInv, Typed
  <2>3. at \in DOMAIN starts => starts[at] = Reached(at)
    BY <2>2 DEF IInv, Addressed
  <2> QED BY <2>1, <2>3
<1> QED BY <1>1, Inductive, PTL

\* Every branch to a label that one line bears holds that line's address, whatever
\* stands between them (main.rs:131-141, decoder.sv:210).
THEOREM BranchesAlwaysArrive == AsmSpec => []BranchesReachTheirLabel
<1>1. IInv => BranchesReachTheirLabel
  <2> SUFFICES ASSUME IInv, phase = "done", AllKnown,
                      NEW k \in DOMAIN source, NEW m \in DOMAIN source,
                      source[k].op \in DOMAIN Mask,
                      source[k].args[1].is = "label", Bears(m, source[k].args[1].name),
                      starts[m] < Targets
               PROVE  Decode(words[starts[k] + 1]).imm = starts[m]
    BY DEF BranchesReachTheirLabel
  <2> DEFINE label == source[k].args[1].name
  <2>1. /\ Len(starts) = Len(source) /\ LabelsNamed(Len(source)) /\ LinesWritten(Len(source))
        /\ DOMAIN source = 1 .. Len(source) /\ starts \in Seq(Nat)
    BY DEF IInv, SecondPass, Typed
  <2>2. label # NoLabel /\ source[m].label = label /\ \A o \in DOMAIN source : source[o].label = label => o = m
    BY DEF Bears
  <2>3. label \in DOMAIN labels /\ labels[label] = starts[m]
    BY <2>1, <2>2 DEF LabelsNamed
  <2>4. TargetOf(source[k].args[1], labels) = starts[m]
    BY <2>3 DEF TargetOf
  <2>5. words[starts[k] + 1] = Branch(Mask[source[k].op], starts[m])
    <3>1. /\ ~Blank(source[k]) /\ WordCount(source[k].op) = 1
          /\ Encode(source[k], starts[k], labels) = <<Branch(Mask[source[k].op], TargetOf(source[k].args[1], labels))>>
      BY EncodeBranch DEF Blank
    <3>2. words[starts[k] + 1] = Encode(source[k], starts[k], labels)[1]
      <4>1. 1 \in 1 .. WordCount(source[k].op) /\ k \in 1 .. Len(source)
        BY <2>1, <3>1
      <4> QED BY <2>1, <3>1, <4>1 DEF LinesWritten
    <3> QED BY <2>4, <3>1, <3>2
  <2>6. starts[m] \in Nat /\ starts[m] % Targets = starts[m]
    <3>1. starts[m] \in Nat
      BY <2>1, ElementOfSeq
    <3>2. Targets \in Nat
      BY DEF Targets
    <3> QED BY <3>1, <3>2, Small
  <2>7. Mask[source[k].op] \in 1 .. 7
    BY DEF Mask
  <2> QED BY <2>5, <2>6, <2>7, BranchWord
<1> QED BY <1>1, Inductive, PTL

\* Every instruction of every text is what the decoder makes of its word, LDI and
\* MAX do what they stand for (main.rs:94-200 against decoder.sv and LaneReference).
THEOREM WordsAlwaysSayTheLine == AsmSpec => []WordsSayTheLine
<1>1. IInv /\ IsAssembly(source) => WordsSayTheLine
  <2> SUFFICES ASSUME IInv, IsAssembly(source), phase = "done", AllKnown, NEW k \in Lines
               PROVE  IF Pseudo(source[k]) THEN Overlaps(source[k]) \/ Effect(source[k], starts[k])
                      ELSE Is(source[k], Decode(words[starts[k] + 1]))
    BY DEF WordsSayTheLine
  <2> DEFINE line == source[k]
             p    == starts[k]
             code == Encode(line, p, labels)
  <2>1. k \in DOMAIN source /\ line.op \in Known /\ Fits(line) /\ p + WordCount(line.op) <= Targets
    BY DEF Lines
  <2>2. /\ Len(starts) = Len(source) /\ LinesWritten(Len(source)) /\ DOMAIN source = 1 .. Len(source)
        /\ starts \in Seq(Nat) /\ IsAssembly(source) /\ \A l \in DOMAIN labels : labels[l] \in Nat
    BY DEF IInv, SecondPass, Typed
  <2>3. ~Blank(line)
    BY <2>1, Mnemonics DEF Blank, Known
  <2>4. /\ ~Faulty(line)
        /\ \A j \in 1 .. WordCount(line.op) : words[p + j] = code[j]
    BY <2>1, <2>2, <2>3 DEF LinesWritten
  <2>5. p \in Nat
    BY <2>1, <2>2, ElementOfSeq
  <2>6. (\E S : line.args \in Seq(S)) /\ \A j \in DOMAIN line.args : line.args[j].n \in Nat
    BY <2>1, <2>2 DEF IsAssembly
  <2>7. Good(line)
    BY <2>1, <2>4, <2>6, Operands
  <2> HIDE DEF line, p, code
  <2>8. CASE line.op = "LDI"
    <3>1. code = Ldi(RegOf(line.args[1]), ImmOf(line.args[2])) /\ WordCount(line.op) = 3
      BY <2>1, <2>8 DEF code, Encode, WordCount
    <3>2. Effect(line, p)
      BY <2>1, <2>4, <2>5, <2>7, <2>8, <3>1, LdiEffect
    <3> QED BY <2>8, <3>2 DEF Pseudo, line, p
  <2>9. CASE line.op = "MAX" /\ ~Overlaps(line)
    <3>1. /\ code = Max4(RegOf(line.args[1]), RegOf(line.args[2]), RegOf(line.args[3]), p)
          /\ WordCount(line.op) = 4
      BY <2>1, <2>9 DEF code, Encode, WordCount
    <3>2. Effect(line, p)
      BY <2>1, <2>4, <2>5, <2>7, <2>9, <3>1, MaxEffect
    <3> QED BY <2>9, <3>2 DEF Pseudo, line, p
  <2>10. CASE ~Pseudo(line)
    <3>1. code = <<Word(line, labels)>> /\ WordCount(line.op) = 1
      BY <2>1, <2>10 DEF code, Encode, WordCount, Pseudo
    <3>2. words[p + 1] = Word(line, labels)
      BY <2>4, <3>1
    <3>3. line.op \in DOMAIN Mask => TargetOf(line.args[1], labels) \in Nat
      <4> SUFFICES ASSUME line.op \in DOMAIN Mask PROVE TargetOf(line.args[1], labels) \in Nat
        OBVIOUS
      <4>1. Arity(line.op) = 1
        BY Mnemonics DEF Arity
      <4>2. line.args[1].n \in Nat
        BY <2>6, <2>7, <4>1 DEF Good
      <4> QED BY <2>2, <4>2 DEF TargetOf, ImmOf
    <3>4. Is(line, Decode(Word(line, labels)))
      BY <2>1, <2>7, <2>10, <3>3, WordSaysTheLine
    <3> QED BY <2>10, <3>2, <3>4 DEF line, p
  <2>11. CASE line.op = "MAX" /\ Overlaps(line)
    BY <2>11 DEF Pseudo, line
  <2> QED BY <2>8, <2>9, <2>10, <2>11 DEF Pseudo
<1> QED BY <1>1, Inductive, TextStays, PTL
=============================================================================
