------------------------------- MODULE MCCore -------------------------------
(* Core with two warps of two lanes, three of the four threads launched,     *)
(* words of 3 bits, bytes of 2, 8 addresses, and families of kernels.        *)
EXTENDS CoreProperties

Ins(op, rd, a, b, imm) == [op |-> op, rd |-> rd, rs |-> a, rt |-> b, imm |-> imm, nzp |-> {}]
Br(cond, imm)          == [op |-> "BR", rd |-> 0, rs |-> 0, rt |-> 0, imm |-> imm, nzp |-> cond]
Tid(rd)       == Ins("TID", rd, 1, 0, 0)
Mov(rd, imm)  == Ins("MOV", rd, 0, 0, imm)
Cmp(a, b)     == Ins("CMP", 0, a, b, 0)
Ldr(rd, a)    == Ins("LDR", rd, a, 0, 0)
Str(a, b)     == Ins("STR", 0, a, b, 0)
Sync          == Ins("SYNC", 0, 0, 0, 0)
RetI          == Ins("RET", 0, 0, 0, 0)

MCTx   == 7
MCData == [a \in 0 .. 7 |-> (3 * a + 1) % 4]
MCPc   == 11

\* R1 = thread index, R3 = the emit offset or a constant, R2 = data.
Access   == {Ldr(2, 1), Ldr(1, 1), Str(1, 2), Str(2, 1)}
Compute  == {Ins("ADD", 2, 1, 2, 0), Ins("ADDI", 1, 1, 0, 1)}
\* An identity register in R1, and an operation on it and the thread index.
Identities == {Ins("BID", 1, 2, 0, 0), Ins("BDIM", 1, 3, 0, 0), Ins("LUI", 1, 1, 0, 3)}
Operations == {Ins(op, 1, 1, 2, 0) : op \in {"SUB", "MUL", "SHR", "SHL"}}
Window   == {Ins("ADDB", 0, 0, 0, 3), Ins("WBASE", 0, 0, 0, 3)}
EmitR1   == Str(3, 1)

Load(code) == [p \in 0 .. MCPc - 1 |-> IF p < Len(code) THEN code[p + 1] ELSE RetI]

\* Straight kernels: every three accesses, emits, computations, window moves.
Straight ==
  {Load(<<Tid(1), Mov(3, MCTx), x, y, z, RetI>>) :
     x \in Access \cup Compute \cup {EmitR1}, y \in Access \cup Window \cup {EmitR1},
     z \in Access \cup {EmitR1, Str(1, 3), Ldr(2, 3)}}

\* Computing kernels: every operation on every identity, as an address.
Computing ==
  {Load(<<Tid(1), Tid(2), x, y, Str(2, 1), Ldr(3, 2), RetI>>) : x \in Identities, y \in Operations}

\* Divergent kernels: an if around one instruction, then common code.
Divergent ==
  {Load(<<Tid(1), Mov(3, 1), Cmp(1, 3), Br(cond, 5), x, Sync, y, RetI>>) :
     cond \in {{0}, {1}, {2}, {0, 1}, {0, 2}}, x \in Access \cup Compute, y \in Access \cup Window}

\* Looping kernels: an if around a loop that compares while lanes are masked, then
\* common code.
Looping ==
  {Load(<<Tid(1), Mov(3, 1), Cmp(1, 3), Br(cond, 8),
          Cmp(2, 3), Br({0, 1}, 8), Ins("ADDI", 2, 2, 0, 1), Br(0 .. 2, 4), Sync, y, RetI>>) :
     cond \in {{0}, {1}, {2}, {0, 1}, {0, 2}}, y \in Access}

\* Kernels whose if body moves a window or compares: a masked lane should not.
Ghostly ==
  {Load(<<Tid(1), Mov(3, 1), Cmp(1, 3), Br({1}, 5), x, Sync, Ldr(2, 1), RetI>>) :
     x \in Window \cup {Cmp(3, 1)}}

\* A kernel that emits inside an if, for the lanes that pass a test.
EmitInIf ==
  {Load(<<Tid(1), Cmp(1, 0), Br(cond, 4), Mov(3, MCTx), EmitR1, Sync, RetI>>) :
     cond \in {{0}, {1}, {2}, {0, 1}, {0, 2}}}

MCPrograms == Straight \cup Computing \cup Divergent \cup Looping

\* What Core_proofs assumes of a program is true of these.
ASSUME KernelsAreDisciplined == \A prog \in MCPrograms : Disciplined(prog) /\ Ends(prog)
=============================================================================
