-------------------------------- MODULE Graph --------------------------------
(***************************************************************************)
(* A graph on its way to the chip: graph_compiler.rs compiles it, main.rs  *)
(* assembles the kernel, the image is loaded from address 0, and the warp  *)
(* of one thread that the kernel is written for runs it.                   *)
(***************************************************************************)
EXTENDS GraphCompiler, Assembler

CONSTANTS Graphs,              \* the files, each with its fate: "runs" or "refused"
          WordSize, ByteSize, AddrSize, NumRegs, PcSize, SDEPTH, BlockId, BLOCK_DIM, Lanes, Launched, Bias

ASSUME FileAssumption == \A g \in Graphs : IsFile(g)

VARIABLES prog, warp_pc, active_mask, stack, base_mask, warp_status, lanes  \* the chip

Chip == INSTANCE Warp WITH Programs <- {}

compiler == <<planvars, front>>
chip     == <<prog, warp_pc, active_mask, stack, base_mask, warp_status, lanes>>
vars     == <<compiler, asmvars, chip>>

\* Ordinary files: no tensor has a side of length 0, and no budget is larger than
\* the memory of the chip.
NoEmpty ==
  \A g \in Graphs : \A t \in DOMAIN g.tensors :
    \A d \in DOMAIN g.tensors[t].shape : g.tensors[t].shape[d] >= 1
BudgetsFit == \A g \in Graphs : g.budget <= AddrSize

Init ==
  /\ graph \in Graphs
  /\ PlanInit /\ FrontInit /\ InState(Fresh(<< >>)) /\ Chip!Unloaded

Compile == CompilerNext /\ UNCHANGED <<asmvars, chip>>

\* The assembler reads the file that was written.
OpenFile ==
  /\ step = "asm" /\ source = << >>
  /\ source' = asm /\ asm' = << >>
  /\ UNCHANGED <<planvars, graph, cur, shape, acts, expect, phase, at, pc, labels, words, starts, chip>>

Assemble == step = "asm" /\ source # << >> /\ AsmNext /\ UNCHANGED <<compiler, chip>>

\* The memory holds the image, and 0 behind it.
Loaded == [a \in 0 .. AddrSize - 1 |-> IF a < Len(image) THEN image[a + 1] ELSE 0]

LoadAndStart ==
  /\ step = "asm" /\ phase = "done"
  /\ step' = "run"
  /\ Chip!Load(words, Loaded)
  /\ UNCHANGED <<i, model, plan, front, asmvars>>

Execute == step = "run" /\ Chip!Run /\ UNCHANGED <<compiler, asmvars>>

Next == Compile \/ OpenFile \/ Assemble \/ LoadAndStart \/ Execute

\* The tools run to their end and the warp is scheduled.
Spec == Init /\ [][Next]_vars /\ WF_vars(Next)

-----------------------------------------------------------------------------
Ended == step = "run" /\ warp_status = "DONE"

\* The reply of the chip is the one the compiler computed from the graph: the
\* addresses, the pointer walks and the arithmetic of every kernel agree with eval
\* (graph_compiler.rs:9 "all three come from the SAME Model value").
KernelMatchesEval == Ended => lanes[0].out = expect

\* A kernel loads from what the plan gave away and stores to every byte of its
\* outputs and to nothing else.
Outputs == UNION {Output(k) : k \in DOMAIN layers}
EveryAccessIsPlanned ==
  step = "run" =>
    /\ lanes[0].written \subseteq Outputs
    /\ \A a \in lanes[0].read : a < Len(image) \/ a \in lanes[0].written
    /\ warp_status = "DONE" => lanes[0].written = Outputs

\* word_count counts what the assembler writes, so a kernel that is let through
\* fits the instruction memory and the 8 bits of a branch.
WordCountAgrees ==
  step = "asm" /\ phase = "done" => Len(words) = WordsOf(source) /\ Len(words) <= ROM_WORDS

\* The compiler implements the planner of the theorem.
ImplementsPlanner == PlannerSpec

\* A graph the hardware can run is run to its end; any other one is rejected.
Ends == <>(IF graph.fate = "runs" THEN Ended ELSE step = "rejected")
=============================================================================
