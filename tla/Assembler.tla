----------------------------- MODULE Assembler -----------------------------
(***************************************************************************)
(* software/src/main.rs: the two-pass assembler, line by line.  A line is  *)
(* what clean and split_label leave of it (AsmLines).                      *)
(*                                                                         *)
(* The hex file is written while the second pass runs, so an error leaves  *)
(* the words of the lines before it.  pc is a u16 in the source: no source *)
(* of a run reaches 2^16 words.                                            *)
(***************************************************************************)
EXTENDS AsmLines

VARIABLES
  source,  \* the lines to assemble
  phase,   \* "labels", "encode", then "done" or "exited"
  at,      \* the current line of the pass
  pc,      \* the address the pass has reached
  labels,  \* pass 1's addresses of the labels
  words,   \* the file written so far
  starts   \* history: where pass 1 saw each line begin

asmvars == <<source, phase, at, pc, labels, words, starts>>

U16      == 65536
ImmSize  == 64          \* low6
Targets  == 256         \* branch targets are 8 bits

-----------------------------------------------------------------------------
(* What the mnemonics take.                                                 *)
Alu      == [MUL |-> 10, SHR |-> 12, SHL |-> 13, SUB |-> 14]
Variant  == [MOV |-> 0, TID |-> 1, BID |-> 2, BDIM |-> 3, LUI |-> 4]
Mask     == [BRn |-> 4, BRz |-> 2, BRp |-> 1, BRnz |-> 6, BRnp |-> 5, BRzp |-> 3, BR |-> 7]
Fixed    == [FRST |-> 0, FARG |-> 32, RET |-> 61440, SYNC |-> 61441]
Known    == DOMAIN Alu \cup DOMAIN Variant \cup DOMAIN Mask \cup DOMAIN Fixed
              \cup {"ADD", "ADDI", "LDI", "MAX", "CMP", "LDR", "STR", "MACL", "MAC",
                    "ADDB", "WBASE", "FMAC", "FOUT", "FBEST", "FACC"}

\* The operands indexed without a check: toks[1], toks[2], toks[3].
Arity(op) ==
  CASE op \in DOMAIN Alu \cup {"ADD", "ADDI", "MAX"}                              -> 3
    [] op \in {"MOV", "LUI", "LDI", "CMP", "LDR", "STR", "FMAC"}                  -> 2
    [] op \in DOMAIN Mask \cup {"TID", "BID", "BDIM", "MACL", "MAC", "ADDB", "WBASE",
                                "FOUT", "FBEST", "FACC"}                          -> 1
    [] OTHER                                                                      -> 0

\* The operands read with reg(), which ends the program at R8 and above.
RegArgs(line) ==
  CASE line.op \in DOMAIN Alu \cup {"MAX"}           -> 1 .. 3
    [] line.op = "ADD"                               -> IF line.args[3].is = "#" THEN {1, 2} ELSE 1 .. 3
    [] line.op \in {"ADDI", "CMP", "LDR", "STR", "FMAC"} -> {1, 2}
    [] line.op = "MACL"                              -> DOMAIN line.args \cap {1, 2}
    [] line.op \in DOMAIN Variant \cup {"LDI", "MAC", "FOUT", "FBEST", "FACC"} -> {1}
    [] OTHER                                         -> {}

\* What is not a number reads as 0: a label that nobody defined, R where # is due.
RegOf(a)         == IF a.is = "R" /\ a.n < U16 THEN a.n ELSE 0
ImmOf(a)         == IF a.is = "#" /\ a.n < U16 THEN a.n ELSE 0
TargetOf(a, labs) == IF a.is = "label" /\ a.name \in DOMAIN labs THEN labs[a.name] ELSE ImmOf(a)

Faulty(line) ==
  Len(line.args) >= Arity(line.op) => \E k \in RegArgs(line) : RegOf(line.args[k]) > 7

\* Mutant: the LDI expansion is forgotten in pass 1.
WordCountNoLdi(op) == IF op = "MAX" THEN 4 ELSE 1

WordCount(op) == IF op = "MAX" THEN 4 ELSE IF op = "LDI" THEN 3 ELSE 1

-----------------------------------------------------------------------------
\* Mutant: the two source registers swap their places.
WSwapped(op, rd, rs, low6) == op * 4096 + (rs % 8) * 512 + (rd % 8) * 64 + (low6 % ImmSize)

W(op, rd, rs, low6) == op * 4096 + (rd % 8) * 512 + (rs % 8) * 64 + (low6 % ImmSize)

\* Mutant: the target keeps its low 6 bits only.
BranchShort(mask, target) == 8 * 4096 + mask * 512 + (target % ImmSize)

Branch(mask, target)      == 8 * 4096 + mask * 512 + (target % Targets)

\* The word of a line that is one instruction.
Word(line, labs) ==
  LET m      == line.op
      r(k)   == RegOf(line.args[k])
      i(k)   == ImmOf(line.args[k])
      opt(v) == IF Len(line.args) >= 2 THEN v ELSE 0
  IN CASE m = "ADD" /\ line.args[3].is # "#"                -> W(1, r(1), r(2), r(3))
       [] m = "ADDI" \/ (m = "ADD" /\ line.args[3].is = "#") -> W(5, r(1), r(2), i(3))
       [] m \in DOMAIN Alu          -> W(Alu[m], r(1), r(2), r(3))
       [] m \in {"MOV", "LUI"}      -> W(2, r(1), Variant[m], i(2))
       [] m \in {"TID", "BID", "BDIM"} -> W(2, r(1), Variant[m], 0)
       [] m = "CMP"                 -> W(3, 0, r(1), r(2))
       [] m = "LDR"                 -> W(4, r(1), r(2), 0)
       [] m = "MACL"                -> W(6, 0, r(1), opt(r(2)))
       [] m = "MAC"                 -> W(7, r(1), 0, opt(i(2) % 4))
       [] m \in DOMAIN Mask         -> Branch(Mask[m], TargetOf(line.args[1], labs))
       [] m = "ADDB"                -> W(9, 0, 0, i(1))
       [] m = "WBASE"               -> W(9, 4, 0, i(1))
       [] m = "STR"                 -> W(11, 0, r(2), r(1))
       [] m \in DOMAIN Fixed        -> Fixed[m]
       [] m = "FMAC"                -> W(0, 0, r(1), 16 + r(2))
       [] m = "FOUT"                -> W(0, r(1), 0, 40 + opt(i(2) % 8))
       [] m = "FBEST"               -> W(0, r(1), 0, 48)
       [] m = "FACC"                -> W(0, r(1), 0, 56 + opt(i(2) % 4))

\* LDI Rd,#v: the top 4 bits, then twice 6 more.
Ldi(rd, v) == <<W(2, rd, 0, v \div 4096), W(2, rd, 4, v \div ImmSize), W(2, rd, 4, v)>>

\* MAX Rd,Ra,Rb at address p.
Max4(rd, ra, rb, p) ==
  <<W(5, rd, ra, 0), W(3, 0, rb, ra), Branch(Mask["BRn"], p + 4), W(5, rd, rb, 0)>>

\* An unknown mnemonic is reported and emits nothing.
Encode(line, p, labs) ==
  CASE line.op = "LDI"  -> Ldi(RegOf(line.args[1]), ImmOf(line.args[2]))
    [] line.op = "MAX"  -> Max4(RegOf(line.args[1]), RegOf(line.args[2]), RegOf(line.args[3]), p)
    [] line.op \in Known \ {"LDI", "MAX"} -> <<Word(line, labs)>>
    [] line.op \notin Known -> << >>

-----------------------------------------------------------------------------
Fresh(lines) ==
  [source |-> lines, phase |-> "labels", at |-> 1, pc |-> 0, labels |-> << >>,
   words |-> << >>, starts |-> << >>]

InState(s) ==
  /\ source = s.source /\ phase = s.phase /\ at = s.at /\ pc = s.pc
  /\ labels = s.labels /\ words = s.words /\ starts = s.starts

current == source[at]
Reading(pass) == phase = pass /\ at <= Len(source)

\* Pass 1: a label names the address reached, the last of two equal ones wins.
Scan ==
  /\ Reading("labels")
  /\ labels' = IF current.label = NoLabel THEN labels
               ELSE [l \in DOMAIN labels \cup {current.label} |->
                       IF l = current.label THEN pc ELSE labels[l]]
  /\ starts' = Append(starts, pc)
  /\ pc' = IF current.op = "" THEN pc ELSE pc + WordCount(current.op)
  /\ at' = at + 1
  /\ UNCHANGED <<source, phase, words>>

Rewind ==
  /\ phase = "labels" /\ at > Len(source)
  /\ phase' = "encode" /\ at' = 1 /\ pc' = 0
  /\ UNCHANGED <<source, labels, words, starts>>

\* Pass 2: the words of a line, each of which moves pc.
Emit ==
  /\ Reading("encode") /\ (current.op # "" => ~Faulty(current))
  /\ LET code == IF current.op = "" THEN << >> ELSE Encode(current, pc, labels)
     IN words' = words \o code /\ pc' = pc + Len(code)
  /\ at' = at + 1
  /\ UNCHANGED <<source, phase, labels, starts>>

\* reg() exits, or an index is out of bounds.
Exit ==
  /\ Reading("encode") /\ current.op # "" /\ Faulty(current)
  /\ phase' = "exited"
  /\ UNCHANGED <<source, at, pc, labels, words, starts>>

Finish ==
  /\ phase = "encode" /\ at > Len(source)
  /\ phase' = "done"
  /\ UNCHANGED <<source, at, pc, labels, words, starts>>

AsmNext == Scan \/ Rewind \/ Emit \/ Exit \/ Finish
=============================================================================
