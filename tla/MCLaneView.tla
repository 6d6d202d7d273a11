----------------------------- MODULE MCLaneView -----------------------------
(* LaneView on the programs codegen.rs emits, as branch skeletons: up to     *)
(* three statements, each straight code, an if (max has the same shape), a   *)
(* loop, a loop inside an if or an if inside a loop, then RET.  And on two    *)
(* nested ifs, which codegen.rs rejects but the assembler accepts.            *)
EXTENDS LaneView, SequencesExt

CONSTANTS a, b, c

ThreeLanes == {a, b, c}
Symmetry   == Permutations(ThreeLanes)
MaxStmts   == 3
ProgLen    == 16

Ins(op, imm) == [op |-> op, imm |-> imm]
Other        == Ins("OTHER", 0)

\* gen_if and gen_grind_until at address `at`, the CMP folded into the branch.
If(at, body)   == <<Ins("BR", at + Len(body) + 1)>> \o body \o <<Ins("SYNC", 0)>>
Loop(at, body) == <<Ins("BR", at + Len(body) + 2)>> \o body \o <<Ins("BR", at)>>

Kinds == {"plain", "if", "empty if", "loop", "loop in if", "if in loop"}
Stmt(at, kind) ==
  CASE kind = "plain"      -> <<Other>>
    [] kind = "if"         -> If(at, <<Other>>)
    [] kind = "empty if"   -> If(at, << >>)
    [] kind = "loop"       -> Loop(at, <<Other>>)
    [] kind = "loop in if" -> If(at, Loop(at + 1, <<Other>>))
    [] kind = "if in loop" -> Loop(at, If(at + 1, <<Other>>))

Code(kinds)  == FoldLeft(LAMBDA code, k : code \o Stmt(Len(code), k), << >>, kinds)
Loaded(code) == [p \in 0 .. ProgLen - 1 |-> IF p < Len(code) THEN code[p + 1] ELSE Ins("RET", 0)]

CompiledPrograms ==
  {Loaded(Code(kinds)) : kinds \in UNION {[1 .. k -> Kinds] : k \in 1 .. MaxStmts}}

\* The layouts are those the theorems of Divergence_proofs are about ...
ASSUME CompiledAssumption == \A code \in CompiledPrograms : Structured(code)

\* ... and this one is not: if (A) { other; if (B) { other } other }
NestedIf ==
  {Loaded(<<Ins("BR", 6), Other, Ins("BR", 4), Other, Ins("SYNC", 0), Other, Ins("SYNC", 0)>>)}
ASSUME NestedAssumption == \A code \in NestedIf : ~Structured(code)
=============================================================================
