------------------------------ MODULE Decoder ------------------------------
(***************************************************************************)
(* src/decoder.sv: the instruction a 16-bit word is.  The fields are cut   *)
(* out of the word and the opcode (with a sub-function in three cases)     *)
(* names the operation.                                                    *)
(***************************************************************************)
EXTENDS Naturals

BitsOf(v) == {b \in 0 .. 2 : (v \div 2^b) % 2 = 1}

\* The opcodes that are one operation.
Plainly ==
  [o \in {1, 3, 4, 5, 6, 7, 10, 11, 12, 13, 14} |->
     CASE o = 1  -> "ADD"  [] o = 3  -> "CMP"  [] o = 4  -> "LDR"  [] o = 5  -> "ADDI"
       [] o = 6  -> "MACL" [] o = 7  -> "MAC"  [] o = 10 -> "MUL"  [] o = 11 -> "STR"
       [] o = 12 -> "SHR"  [] o = 13 -> "SHL"  [] o = 14 -> "SUB"]

\* The MOV variants by their rs field; the identity read defaults to threadIdx.
MovVariant(rs) ==
  CASE rs = 0 -> "MOV" [] rs = 2 -> "BID" [] rs = 3 -> "BDIM" [] rs = 4 -> "LUI" [] OTHER -> "TID"

\* The FC sub-functions by instruction[5:3].
FcFunction(fn) ==
  CASE fn \in {0, 1} -> "FRST" [] fn \in {2, 3} -> "FMAC" [] fn = 4 -> "FARG"
    [] fn = 5 -> "FOUT" [] fn = 6 -> "FBEST" [] fn = 7 -> "FACC"

Decode(word) ==
  LET opcode == word \div 4096
      rd     == (word \div 512) % 8
      rs     == (word \div 64) % 8
      fields == [op |-> "", rd |-> rd, rs |-> rs, rt |-> word % 8, imm |-> word % 64, nzp |-> {}]
  IN CASE opcode \in DOMAIN Plainly -> [fields EXCEPT !.op = Plainly[opcode]]
       [] opcode = 0  -> [fields EXCEPT !.op = FcFunction((word \div 8) % 8)]
       [] opcode = 2  -> [fields EXCEPT !.op = MovVariant(rs), !.rs = IF rs = 4 THEN rd ELSE rs]
       [] opcode = 8  -> [fields EXCEPT !.op = "BR", !.imm = word % 256, !.nzp = BitsOf(rd)]
       [] opcode = 9  -> [fields EXCEPT !.op = IF rd >= 4 THEN "WBASE" ELSE "ADDB"]
       [] opcode = 15 -> [fields EXCEPT !.op = IF word % 2 = 1 THEN "SYNC" ELSE "RET"]
=============================================================================
