------------------------------ MODULE AsmLines ------------------------------
(***************************************************************************)
(* The assembly language as its two compilers write it and the assembler   *)
(* reads it: a line is a label or NoLabel, a mnemonic or "", and operands. *)
(***************************************************************************)
EXTENDS Naturals, Sequences

NoLabel == << >>
R(n)    == [is |-> "R", n |-> n, name |-> NoLabel]
Imm(n)  == [is |-> "#", n |-> n, name |-> NoLabel]
To(l)   == [is |-> "label", n |-> 0, name |-> l]

Line(label, op, args) == [label |-> label, op |-> op, args |-> args]
Ins(op, args)         == Line(NoLabel, op, args)
Mark(label)           == Line(label, "", << >>)
=============================================================================
