---------------------------- MODULE Coprocessor ----------------------------
(***************************************************************************)
(* The two arithmetic units a core shares between its threads:             *)
(* vector_mac.sv behind the operand buffers of core.sv (MACL, MAC), and    *)
(* fc_mac.sv, accumulator and argmax (FRST, FMAC, FARG, FOUT, FBEST,       *)
(* FACC).  Pure: a unit goes in, a unit or a value comes out.              *)
(*                                                                         *)
(* The accumulators are 32 bits wide in the source and integers here: TLC  *)
(* stops with an error at 2^31, so no run reaches their wrap.              *)
(***************************************************************************)
EXTENDS Integers, Functions

CONSTANT Bias  \* fc_mac's bias_rom, read at digit + 1

Slots == 0 .. 8

\* Both units after reset.  best is not read before the first FARG has set it.
Cleared ==
  [px |-> [s \in Slots |-> 0], wt |-> [s \in Slots |-> 0], wptr |-> 0,
   acc |-> 0, best |-> 0, digit |-> 0, best_idx |-> 0]

Low8(v)    == v % 256
Signed8(v) == ((v + 128) % 256) - 128

\* Byte n of the 32 bits of v (\div and % round down, as >>> does).
ByteOf(v, n) == (v \div 256^n) % 256

-----------------------------------------------------------------------------
\* MACL pushes a pair; a tenth one finds the buffers full and is dropped.
Macl(u, pixel, weight) ==
  IF u.wptr \in Slots
  THEN [u EXCEPT !.px[u.wptr] = Low8(pixel), !.wt[u.wptr] = Low8(weight), !.wptr = @ + 1]
  ELSE u

\* MAC reads the sum over ALL the slots and rewinds the pointer: slots that the
\* next window does not fill keep their operands.
MacResult(u) ==
  FoldFunction(LAMBDA a, b : a + b, 0, [s \in Slots |-> u.px[s] * Signed8(u.wt[s])])
Fired(u) == [u EXCEPT !.wptr = 0]

-----------------------------------------------------------------------------
FcReset(u) == [u EXCEPT !.acc = 0, !.digit = 0, !.best_idx = 0]

FcMac(u, pixel, weight) == [u EXCEPT !.acc = @ + Low8(pixel) * Signed8(weight)]

\* FARG: the digit's score joins the argmax, which the first of equals wins.
FcFinalize(u) ==
  LET score  == u.acc + Bias[u.digit + 1]
      adopts == u.digit = 0 \/ score > u.best
  IN [u EXCEPT !.best = IF adopts THEN score ELSE @,
               !.best_idx = IF adopts THEN u.digit ELSE @,
               !.digit = (@ + 1) % 16, !.acc = 0]

\* FOUT reads a hidden neuron, requantized and clamped, and clears it.
Clamped(v)        == IF v < 0 THEN 0 ELSE IF v > 255 THEN 255 ELSE v
Neuron(u, shift)  == Clamped(u.acc \div 2^(8 + shift))
NeuronTaken(u)    == [u EXCEPT !.acc = 0]
=============================================================================
