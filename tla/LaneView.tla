------------------------------ MODULE LaneView ------------------------------
(***************************************************************************)
(* Divergence with one history variable: the PC each lane would have if it *)
(* ran alone.  pc.sv still computes such a per-lane next_pc, unused since  *)
(* the warp PC moved into the scheduler.  For a program whose divergent    *)
(* branches reconverge the way codegen.rs lays them out, the warp then     *)
(* implements LaneSemantics: each lane sees just its own path.             *)
(***************************************************************************)
EXTENDS Divergence, BranchLayout

VARIABLE lane_pc

viewvars == <<vars, lane_pc>>

ViewInit == Init /\ lane_pc = [l \in Launched |-> 0]

\* The awake lanes execute the instruction at the warp's PC, the others stand.
LanePcs(votes) ==
  [l \in Launched |->
     IF l \notin active_mask THEN lane_pc[l]
     ELSE IF instr.op = "BR" /\ l \in votes THEN instr.imm ELSE NextPc]

\* codegen.rs: "Loops emit no SYNC and still assume every thread takes the same
\* path".
LoopsAgree(votes) ==
  IsLoopBranch(prog, warp_pc) => active_mask \subseteq votes \/ active_mask \cap votes = {}

ViewNext ==
  \/ \E votes \in SUBSET Lanes :
       /\ LoopsAgree(votes)
       /\ Diverge(votes) \/ Uniform(votes)
       /\ lane_pc' = LanePcs(votes)
  \/ (Plain \/ SyncPop \/ SyncRestore \/ Ret) /\ lane_pc' = LanePcs({})

ViewSpec == ViewInit /\ [][ViewNext]_viewvars

\* The whole warp halts at the RET of any of its lanes.
halted == IF warp_status = "DONE" THEN Launched ELSE {}

PerLane == INSTANCE LaneSemantics

-----------------------------------------------------------------------------
\* Lockstep: a lane is awake only where its own control flow would be.
LanesInStep ==
  warp_status = "READY" => \A l \in active_mask : lane_pc[l] = warp_pc

\* A sleeping lane is resumed exactly where it stopped.
SleepersResume ==
  \A i \in 1 .. Len(stack) : \A l \in stack[i].mask : lane_pc[l] = stack[i].pc

\* Running the lanes of a warp under masks is running each lane by itself:
\* every step of the warp is a step of the lanes standing at its PC.
ImplementsLaneSemantics == PerLane!Spec
=============================================================================
