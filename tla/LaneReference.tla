--------------------------- MODULE LaneReference ---------------------------
(***************************************************************************)
(* What the ISA promises one thread: the program run alone, one            *)
(* instruction after the other, by a thread with its own registers, flags  *)
(* and base pointers.  No warps, no masks, no pipeline, no latency.        *)
(* Instructions are those of Core; SYNC does nothing here.                 *)
(***************************************************************************)
EXTENDS Coprocessor, Sequences

CONSTANTS AddrSize, WordSize, ByteSize, NumRegs, PcSize, MMIO_TX,
          ImmSize,            \* what LUI shifts by: 2^6
          BlockId, BLOCK_DIM  \* the identity registers other than threadIdx

\* A thread before its first instruction, over the loaded data memory.
Fresh(tid, data) ==
  [tid |-> tid, pc |-> 0, regs |-> [r \in 0 .. NumRegs - 1 |-> 0], flag |-> "none",
   base |-> 0, wbase |-> 0, mem |-> data, read |-> {}, written |-> {}, out |-> << >>,
   unit |-> Cleared, halted |-> FALSE]

FlagBit == [N |-> 2, Z |-> 1, P |-> 0, none |-> 3]

Wrote(t, r, value) == [t EXCEPT !.regs[r] = value % WordSize, !.pc = (@ + 1) % PcSize]
Went(t)            == [t EXCEPT !.pc = (@ + 1) % PcSize]

With(t, unit)      == [t EXCEPT !.unit = unit]

\* The low WordSize of a product, without a number TLC cannot hold.
Product(a, b) == (a * (b % ByteSize) + ByteSize * ((a * (b \div ByteSize)) % WordSize)) % WordSize

\* What the instructions that write a register compute, by their operands.
Value(t, i, s, d) ==
  CASE i.op = "MOV"  -> i.imm
    [] i.op = "TID"  -> t.tid
    [] i.op = "BID"  -> BlockId
    [] i.op = "BDIM" -> BLOCK_DIM
    [] i.op = "LUI"  -> s * ImmSize + (i.imm % ImmSize)
    [] i.op = "ADD"  -> s + d
    [] i.op = "ADDI" -> s + i.imm
    [] i.op = "SUB"  -> s - d
    [] i.op = "MUL"  -> Product(s, d)
    [] i.op = "SHR"  -> s \div 2^(d % 16)
    [] i.op = "SHL"  -> s * 2^(d % 16)
Arithmetic == {"MOV", "TID", "BID", "BDIM", "LUI", "ADD", "ADDI", "SUB", "MUL", "SHR", "SHL"}

Stepped(t, i) ==
  LET s == t.regs[i.rs]
      d == t.regs[i.rt]
      from == (t.base + s) % AddrSize
      to   == (t.wbase + s) % AddrSize
  IN CASE i.op \in Arithmetic -> Wrote(t, i.rd, Value(t, i, s, d))
       [] i.op = "CMP"   -> [Went(t) EXCEPT !.flag = IF s < d THEN "N" ELSE IF s = d THEN "Z" ELSE "P"]
       [] i.op = "LDR"   -> [Wrote(t, i.rd, t.mem[from]) EXCEPT !.read = @ \cup {from}]
       [] i.op = "STR" /\ s = MMIO_TX -> [Went(t) EXCEPT !.out = Append(@, d % ByteSize)]
       [] i.op = "STR" /\ s # MMIO_TX ->
            [Went(t) EXCEPT !.mem[to] = d % ByteSize, !.written = @ \cup {to}]
       [] i.op = "ADDB"  -> [Went(t) EXCEPT !.base = (@ + i.imm) % AddrSize]
       [] i.op = "WBASE" -> [Went(t) EXCEPT !.wbase = (@ + i.imm) % AddrSize]
       [] i.op = "BR" /\ FlagBit[t.flag] \in i.nzp -> [t EXCEPT !.pc = i.imm]
       [] i.op = "BR" /\ FlagBit[t.flag] \notin i.nzp -> Went(t)
       [] i.op = "SYNC"  -> Went(t)
       [] i.op = "MACL"  -> With(Went(t), Macl(t.unit, s, d))
       [] i.op = "MAC"   -> With(Wrote(t, i.rd, ByteOf(MacResult(t.unit), i.imm % 4)), Fired(t.unit))
       [] i.op = "FRST"  -> With(Went(t), FcReset(t.unit))
       [] i.op = "FMAC"  -> With(Went(t), FcMac(t.unit, s, d))
       [] i.op = "FARG"  -> With(Went(t), FcFinalize(t.unit))
       [] i.op = "FOUT"  -> With(Wrote(t, i.rd, Neuron(t.unit, i.imm % 8)), NeuronTaken(t.unit))
       [] i.op = "FBEST" -> Wrote(t, i.rd, t.unit.best_idx)
       [] i.op = "FACC"  -> Wrote(t, i.rd, ByteOf(t.unit.acc, i.imm % 4))
       [] i.op = "RET"   -> [t EXCEPT !.halted = TRUE]

\* The thread after at most fuel instructions of rom.
Run(tid, rom, data, fuel) ==
  LET after[n \in 0 .. fuel] ==
        IF n = 0 THEN Fresh(tid, data)
        ELSE LET t == after[n - 1] IN IF t.halted THEN t ELSE Stepped(t, rom[t.pc])
  IN after[fuel]
=============================================================================
