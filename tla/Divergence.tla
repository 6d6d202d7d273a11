----------------------------- MODULE Divergence -----------------------------
(***************************************************************************)
(* The branch-divergence machinery of src/scheduler.sv for ONE warp, at    *)
(* the grain of one instruction: a step is the EXECUTE (and, for RET, the  *)
(* UPDATE) state of the scheduler for the instruction at the warp's PC.    *)
(*                                                                         *)
(* The program is loaded once and does not change, so it is a variable     *)
(* chosen in Init.  What the lanes vote at a branch depends on data that   *)
(* this module does not hold (the N/Z/P flags of pc.sv): every vote is     *)
(* possible.  The module Core computes the votes from the flags and        *)
(* implements this one.                                                    *)
(*                                                                         *)
(* The flat vectors stack_pc, stack_mask and the 2-bit stack_ptr are one   *)
(* sequence of frames whose length is stack_ptr: an entry at or above the  *)
(* pointer is never read before it is written again.                       *)
(***************************************************************************)
EXTENDS Naturals, Sequences, FiniteSets

CONSTANTS
  Lanes,     \* the lanes of a warp (THREADS_PER_BLOCK of them)
  Launched,  \* the lanes of this warp below BLOCK_DIM
  PcSize,    \* the number of PC values: 2^8
  SDEPTH,    \* levels per warp that stack_ptr can count: 2^2
  Programs   \* the programs the DMA may have loaded

Pc    == 0 .. PcSize - 1
Instr == [op : {"BR", "SYNC", "RET", "OTHER"}, imm : Pc]

ASSUME SizesAssumption   == PcSize \in Nat \ {0} /\ SDEPTH \in Nat \ {0}
ASSUME LanesAssumption   == IsFiniteSet(Lanes) /\ Launched \subseteq Lanes
ASSUME ProgramAssumption == Programs \subseteq [Pc -> Instr]

VARIABLES
  prog,         \* program_memory's contents
  warp_pc,      \* the warp's program counter
  active_mask,  \* the lanes that are awake
  stack,        \* reconvergence frames [pc, mask], the top one last
  base_mask,    \* the mask an empty-stack SYNC restores
  warp_status   \* "READY" or "DONE" (WAITING is invisible at this grain)

vars == <<prog, warp_pc, active_mask, stack, base_mask, warp_status>>

Frame  == [pc : Pc, mask : SUBSET Lanes]
instr  == prog[warp_pc]
WidePc == warp_pc + 1                      \* mutant: the increment does not wrap
NextPc == (warp_pc + 1) % PcSize          \* 8-bit increment

\* The lanes asleep on the reconvergence stack.
Stacked == UNION {stack[i].mask : i \in DOMAIN stack}

Init ==
  /\ prog \in Programs
  /\ warp_pc = 0
  /\ active_mask = Launched
  /\ base_mask = Launched
  /\ stack = << >>
  /\ warp_status = IF Launched = {} THEN "DONE" ELSE "READY"

Executes(op) == warp_status = "READY" /\ instr.op = op

-----------------------------------------------------------------------------
\* Any instruction that is neither a branch nor a SYNC nor a RET.
Plain ==
  /\ Executes("OTHER")
  /\ warp_pc' = NextPc
  /\ UNCHANGED <<prog, active_mask, stack, base_mask, warp_status>>

\* stack_ptr is 2 bits wide: the push at level SDEPTH - 1 wraps it to 0.
Push(s, frame) == IF Len(s) = SDEPTH - 1 THEN << >> ELSE Append(s, frame)

\* Mutants: votes of sleeping lanes count; the frame holds the original mask.
UnmaskedVotes(votes) == votes
OriginalMask(votes)  == active_mask

WantToBranch(votes) == active_mask \cap votes
WantToStay(votes)   == active_mask \ votes

\* Mutants of Diverge: pushing though the lanes agree, saving the mask at every
\* divergence, saving only the branching lanes, resuming at the branch itself.
DivergeAlways(votes) ==
  /\ Executes("BR") /\ WantToBranch(votes) # {}
  /\ base_mask' = IF stack = << >> THEN active_mask ELSE base_mask
  /\ stack' = Push(stack, [pc |-> NextPc, mask |-> WantToStay(votes)])
  /\ warp_pc' = instr.imm /\ active_mask' = WantToBranch(votes)
  /\ UNCHANGED <<prog, warp_status>>

DivergeSaving(votes, saved, resume) ==
  /\ Executes("BR") /\ WantToBranch(votes) # {} /\ WantToStay(votes) # {}
  /\ base_mask' = saved
  /\ stack' = Push(stack, [pc |-> resume, mask |-> WantToStay(votes)])
  /\ warp_pc' = instr.imm /\ active_mask' = WantToBranch(votes)
  /\ UNCHANGED <<prog, warp_status>>

DivergeRebase(votes) == DivergeSaving(votes, active_mask, NextPc)
DivergeSavesBranch(votes) ==
  DivergeSaving(votes, IF stack = << >> THEN WantToBranch(votes) ELSE base_mask, NextPc)
DivergeSamePc(votes) ==
  DivergeSaving(votes, IF stack = << >> THEN active_mask ELSE base_mask, warp_pc)

\* The awake lanes disagree: the staying ones sleep, the branching ones run.
Diverge(votes) ==
  /\ Executes("BR")
  /\ WantToBranch(votes) # {} /\ WantToStay(votes) # {}
  /\ base_mask' = IF stack = << >> THEN active_mask ELSE base_mask
  /\ stack' = Push(stack, [pc |-> NextPc, mask |-> WantToStay(votes)])
  /\ warp_pc' = instr.imm
  /\ active_mask' = WantToBranch(votes)
  /\ UNCHANGED <<prog, warp_status>>

\* The awake lanes agree (a branch no lane is awake for falls through).
Uniform(votes) ==
  /\ Executes("BR")
  /\ WantToBranch(votes) = {} \/ WantToStay(votes) = {}
  /\ warp_pc' = IF WantToBranch(votes) # {} THEN instr.imm ELSE NextPc
  /\ UNCHANGED <<prog, active_mask, stack, base_mask, warp_status>>

\* Mutants of SyncPop: the pointer is cleared; the PC of the frame is ignored.
SyncPopAll ==
  /\ Executes("SYNC") /\ stack # << >>
  /\ warp_pc' = stack[Len(stack)].pc /\ active_mask' = stack[Len(stack)].mask
  /\ stack' = << >>
  /\ UNCHANGED <<prog, base_mask, warp_status>>

SyncPopInPlace ==
  /\ Executes("SYNC") /\ stack # << >>
  /\ warp_pc' = NextPc /\ active_mask' = stack[Len(stack)].mask
  /\ stack' = SubSeq(stack, 1, Len(stack) - 1)
  /\ UNCHANGED <<prog, base_mask, warp_status>>

\* SYNC hands the warp to the lanes of the top frame ...
SyncPop ==
  /\ Executes("SYNC") /\ stack # << >>
  /\ warp_pc' = stack[Len(stack)].pc
  /\ active_mask' = stack[Len(stack)].mask
  /\ stack' = SubSeq(stack, 1, Len(stack) - 1)
  /\ UNCHANGED <<prog, base_mask, warp_status>>

\* ... and with an empty stack wakes every lane of the base mask.
SyncRestore ==
  /\ Executes("SYNC") /\ stack = << >>
  /\ warp_pc' = NextPc
  /\ active_mask' = base_mask
  /\ UNCHANGED <<prog, stack, base_mask, warp_status>>

\* RET retires the whole warp, whoever sleeps on its stack.
Ret ==
  /\ Executes("RET")
  /\ warp_pc' = NextPc
  /\ warp_status' = "DONE"
  /\ UNCHANGED <<prog, active_mask, stack, base_mask>>

Next ==
  \/ Plain
  \/ \E votes \in SUBSET Lanes : Diverge(votes) \/ Uniform(votes)
  \/ SyncPop
  \/ SyncRestore
  \/ Ret

Spec == Init /\ [][Next]_vars

-----------------------------------------------------------------------------
\* Every variable has its type, and the stack holds at most SDEPTH - 1 frames.
TypeOK ==
  /\ prog \in Programs
  /\ warp_pc \in Pc
  /\ active_mask \subseteq Lanes
  /\ base_mask \subseteq Lanes
  /\ stack \in Seq(Frame)
  /\ Len(stack) < SDEPTH
  /\ warp_status \in {"READY", "DONE"}

\* No lane is in two places: a lane asleep on the stack is not awake as well,
\* and it sleeps in one frame only.  A lane in two masks would run a piece of
\* its program twice.
MasksDisjoint ==
  /\ \A i \in 1 .. Len(stack) : stack[i].mask \cap active_mask = {}
  /\ \A i, j \in 1 .. Len(stack) :
        i # j => stack[i].mask \cap stack[j].mask = {}

\* The hardware never runs an instruction, or keeps a frame, for nobody.
NobodyRunsForNobody ==
  warp_status = "READY" =>
    /\ active_mask # {}
    /\ \A i \in 1 .. Len(stack) : stack[i].mask # {}

\* An empty-stack SYNC never puts a lane to sleep: whoever is awake or on the
\* stack is in the base mask it restores, and no lane past BLOCK_DIM ever is.
BaseCovers ==
  /\ active_mask \cup Stacked \subseteq base_mask
  /\ base_mask \subseteq Launched

\* Every frame costs a lane that is not awake, so the stack of a warp with at
\* most SDEPTH launched lanes never reaches the depth where stack_ptr wraps.
StackFits == stack # << >> => Len(stack) < Cardinality(Launched)

\* A sleeping lane is not forgotten: it leaves the stack only by being woken.
\* A wrap of stack_ptr (scheduler.sv: "SDEPTH reconvergence levels each") would
\* drop every frame at once.
SleepersAreKept == [][Stacked \subseteq Stacked' \cup active_mask']_vars

\* Every launched lane is awake, asleep on the stack, or in the mask that the
\* SYNC of the outermost divergence restores (comments at EXECUTE: "only at the
\* outermost divergence ... so the matching reconverging SYNC can restore it");
\* a warp that has ended has woken them all: its RET was the RET of every lane.
NoLaneLost ==
  /\ Launched \subseteq active_mask \cup Stacked \cup base_mask
  /\ warp_status = "DONE" => active_mask = Launched /\ stack = << >>
=============================================================================
