--------------------------- MODULE LaneSemantics ---------------------------
(***************************************************************************)
(* What a programmer is promised of a warp: every lane runs the program by *)
(* itself.  A lane has its own PC, a branch takes it where its own vote    *)
(* says, SYNC is a no-op and RET stops the lane.  The lanes step in groups *)
(* that stand at the same PC, in any order.                                *)
(***************************************************************************)
EXTENDS Naturals

CONSTANTS Launched, PcSize, Programs

VARIABLES
  prog,     \* the program, the same for every lane
  lane_pc,  \* where each lane stands
  halted    \* the lanes that have executed RET

lanevars == <<prog, lane_pc, halted>>

Init ==
  /\ prog \in Programs
  /\ lane_pc = [l \in Launched |-> 0]
  /\ halted = {}

\* Where an instruction at p takes a lane that votes, or does not vote, for it.
Succ(p, vote) ==
  IF prog[p].op = "BR" /\ vote THEN prog[p].imm ELSE (p + 1) % PcSize

\* The lanes of group all stand at p and execute the instruction there.
Step(group, p, votes) ==
  /\ \A l \in group : lane_pc[l] = p
  /\ lane_pc' = [l \in Launched |->
                   IF l \in group THEN Succ(p, l \in votes) ELSE lane_pc[l]]
  /\ halted' = IF prog[p].op = "RET" THEN halted \cup group ELSE halted
  /\ UNCHANGED prog

Next ==
  \E group \in (SUBSET (Launched \ halted)) \ {{}} :
    \E p \in {lane_pc[l] : l \in group}, votes \in SUBSET group :
      Step(group, p, votes)

Spec == Init /\ [][Next]_lanevars
=============================================================================
