------------------------ MODULE AssemblerProperties ------------------------
(***************************************************************************)
(* What the two passes of the assembler owe each other and the decoder.    *)
(***************************************************************************)
EXTENDS Assembler, Decoder

\* What clean leaves of a text: lines with any operands, whose numbers have no sign.
IsAssembly(lines) ==
  /\ \E S : lines \in Seq(S)
  /\ \A k \in DOMAIN lines :
       /\ \E S : lines[k].args \in Seq(S)
       /\ \A j \in DOMAIN lines[k].args : lines[k].args[j].n \in Nat

\* The assembler on its own, for any text.
AsmSpec == IsAssembly(source) /\ InState(Fresh(source)) /\ [][AsmNext]_asmvars

\* Every line is a label, blank, or an instruction that the assembler knows.
AllKnown == \A k \in DOMAIN source : source[k].op \in Known \cup {""}

\* The two passes agree: pass 2 comes to each line at the address where pass 1
\* saw it, and has written that many words (main.rs:9 "Pass 1 assigns an address
\* to every emitted instruction word").
PassesAgree ==
  phase = "encode" /\ AllKnown =>
    pc = Len(words) /\ (at \in DOMAIN starts => pc = starts[at])

\* The line m is the only one to bear this label.
Bears(m, label) ==
  label # NoLabel /\ source[m].label = label /\ \A o \in DOMAIN source : source[o].label = label => o = m

\* A branch goes to the line that bears its label, anywhere in the 256 words of the
\* instruction memory: 8 bits of target reach past the 6 of an immediate, and LDI
\* and MAX before the label have moved it (main.rs:131-141).
BranchesReachTheirLabel ==
  phase = "done" /\ AllKnown =>
    \A k, m \in DOMAIN source :
      /\ source[k].op \in DOMAIN Mask
      /\ source[k].args[1].is = "label" /\ Bears(m, source[k].args[1].name)
      /\ starts[m] < Targets
      => Decode(words[starts[k] + 1]).imm = starts[m]
-----------------------------------------------------------------------------
(* The assembler against the decoder.                                       *)
Flags == [BRn |-> {2}, BRz |-> {1}, BRp |-> {0}, BRnz |-> {2, 1}, BRnp |-> {2, 0},
          BRzp |-> {1, 0}, BR |-> {2, 1, 0}]

\* The operand that has to be a number, and how many bits the field gives it.
ImmArg(ln) ==
  CASE ln.op \in {"ADDB", "WBASE"}                 -> {1}
    [] ln.op \in {"MOV", "LUI", "LDI"}             -> {2}
    [] ln.op \in {"MAC", "FACC", "FOUT"}           -> DOMAIN ln.args \cap {2}
    [] ln.op = "ADDI"                              -> {3}
    [] ln.op = "ADD" /\ ln.args[3].is = "#"        -> {3}
    [] OTHER                                       -> {}
Field(op) ==
  CASE op \in {"MAC", "FACC"} -> 4 [] op = "FOUT" -> 8 [] op = "LDI" -> U16 [] OTHER -> ImmSize

\* Registers stand where registers belong, and numbers where numbers belong and
\* fit their fields.
Fits(ln) ==
  /\ \A k \in RegArgs(ln) : ln.args[k].is = "R" /\ ln.args[k].n \in 0 .. U16 - 1
  /\ \A k \in ImmArg(ln)  : ln.args[k].is = "#" /\ ln.args[k].n \in 0 .. Field(ln.op) - 1

\* i is the instruction that ln names, field by field.
Is(ln, i) ==
  LET n(k) == ln.args[k].n
      three == i.rd = n(1) /\ i.rs = n(2) /\ i.rt = n(3)
      second == IF Len(ln.args) >= 2 THEN n(2) ELSE 0
      adds  == ln.op = "ADD" /\ ln.args[3].is = "#"
  IN /\ i.op = CASE adds -> "ADDI" [] ln.op \in DOMAIN Flags -> "BR"
                 [] ~adds /\ ln.op \notin DOMAIN Flags -> ln.op
     /\ CASE ln.op \in {"SUB", "MUL", "SHR", "SHL"} \/ (ln.op = "ADD" /\ ~adds) -> three
          [] adds \/ ln.op = "ADDI"                -> i.rd = n(1) /\ i.rs = n(2) /\ i.imm = n(3)
          [] ln.op = "MOV"                         -> i.rd = n(1) /\ i.imm = n(2)
          [] ln.op = "LUI"                         -> i.rd = n(1) /\ i.rs = n(1) /\ i.imm = n(2)
          [] ln.op \in {"TID", "BID", "BDIM", "FBEST"} -> i.rd = n(1)
          [] ln.op \in {"CMP", "FMAC"}             -> i.rs = n(1) /\ i.rt = n(2)
          [] ln.op = "MACL"                        -> i.rs = n(1) /\ i.rt = second
          [] ln.op \in {"MAC", "FACC"}             -> i.rd = n(1) /\ i.imm % 4 = second
          [] ln.op = "FOUT"                        -> i.rd = n(1) /\ i.imm % 8 = second
          [] ln.op = "LDR"                         -> i.rd = n(1) /\ i.rs = n(2)
          [] ln.op = "STR"                         -> i.rt = n(1) /\ i.rs = n(2)
          [] ln.op \in {"ADDB", "WBASE"}           -> i.imm = n(1)
          [] ln.op \in DOMAIN Flags                -> i.nzp = Flags[ln.op]
          [] OTHER                                 -> TRUE

\* The threads that run a pseudo-op, with the widths of the chip.
Lane == INSTANCE LaneReference WITH
  AddrSize <- 8192, WordSize <- U16, ByteSize <- 256, NumRegs <- 8, PcSize <- Targets, MMIO_TX <- 63,
  BlockId <- 0, BLOCK_DIM <- 1, Bias <- [d \in 0 .. 15 |-> 0]

\* A thread at address p whose registers are all different.
Marked(p) == [Lane!Fresh(0, << >>) EXCEPT !.regs = [r \in 0 .. 7 |-> 100 * (r + 1)], !.pc = p]

\* It goes on while it is inside the size words at p; no pseudo-op has more than 4.
Within(p, size, t) ==
  IF t.pc \in p .. p + size - 1 THEN Lane!Stepped(t, Decode(words[t.pc + 1])) ELSE t
Through(p, size, t) == Within(p, size, Within(p, size, Within(p, size, Within(p, size, t))))

\* The pseudo-op at p puts its result into its register and nothing else anywhere.
Effect(ln, p) ==
  LET t == Through(p, WordCount(ln.op), Marked(p))
      r(k) == Marked(p).regs[ln.args[k].n]
      result == IF ln.op = "LDI" THEN ln.args[2].n ELSE IF r(2) > r(3) THEN r(2) ELSE r(3)
  IN t.regs = [Marked(p).regs EXCEPT ![ln.args[1].n] = result]

Pseudo(ln)   == ln.op \in {"LDI", "MAX"}
Overlaps(ln) == ln.op = "MAX" /\ ln.args[1].n = ln.args[3].n /\ ln.args[2].n # ln.args[3].n

\* The lines of the source that mean something and lie in the instruction memory.
Lines == {k \in DOMAIN source : source[k].op \in Known /\ Fits(source[k])
                                 /\ starts[k] + WordCount(source[k].op) <= Targets}

\* Every instruction of the source is what the decoder of the chip makes of its
\* words, for all the mnemonics, and LDI and MAX do what they stand for; a MAX
\* whose destination is its third operand, which goes wrong, is left out.
WordsSayTheLine ==
  phase = "done" /\ AllKnown =>
    \A k \in Lines :
      IF Pseudo(source[k]) THEN Overlaps(source[k]) \/ Effect(source[k], starts[k])
      ELSE Is(source[k], Decode(words[starts[k] + 1]))

\* main.rs:173 "Rd = max(Ra,Rb)": MAX leaves the larger one in Rd.
MaxIsTheLarger ==
  phase = "done" /\ AllKnown => \A k \in Lines : Pseudo(source[k]) => Effect(source[k], starts[k])
=============================================================================
