---------------------------- MODULE BranchLayout ----------------------------
(***************************************************************************)
(* How codegen.rs lays out control flow ("`if` and `max` are laid out so   *)
(* the side that jumps lands directly on a SYNC"), read off the loaded     *)
(* program, a function from addresses to [op, imm].                        *)
(***************************************************************************)
EXTENDS Naturals

\* A branch of a loop is its back edge, or the exit branch, which goes to the
\* instruction after the back edge.
IsLoopBranch(code, p) ==
  /\ code[p].op = "BR"
  /\ \/ code[p].imm <= p
     \/ LET back == code[code[p].imm - 1] IN back.op = "BR" /\ back.imm <= p

\* Any other branch is that of an if or a max.
IsIf(code, p) == code[p].op = "BR" /\ ~IsLoopBranch(code, p)

\* The branch of an if lands on a SYNC.  What it jumps over is straight code and
\* loops that stay within it: no RET, no SYNC and, as codegen.rs rejects it, no
\* other if.
Structured(code) ==
  \A p \in DOMAIN code :
    IsIf(code, p) =>
      LET skip == code[p].imm
      IN /\ code[skip].op = "SYNC"
         /\ \A q \in p + 1 .. skip - 1 :
              \/ code[q].op = "OTHER"
              \/ IsLoopBranch(code, q) /\ code[q].imm \in p + 1 .. skip
=============================================================================
