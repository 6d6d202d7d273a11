---------------------------- MODULE MCDivergence ----------------------------
(* Divergence with every program of three instructions, on a warp of five   *)
(* lanes of which four, or all five, are launched.  The launched lanes are  *)
(* interchangeable in this module, so they are symmetric.                   *)
EXTENDS Divergence, TLC

CONSTANTS a, b, c, d, e

FourLanes    == {a, b, c, d}
FiveLanes    == {a, b, c, d, e}
Symmetry     == Permutations(FourLanes)
ProgLen      == 3
\* Instructions with an immediate nobody reads are listed once.
SmallInstr   == {i \in [op : {"BR", "SYNC", "RET", "OTHER"}, imm : 0 .. ProgLen - 1] :
                   i.op = "BR" \/ i.imm = 0}
EveryProgram == [0 .. ProgLen - 1 -> SmallInstr]
=============================================================================
