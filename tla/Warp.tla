-------------------------------- MODULE Warp --------------------------------
(***************************************************************************)
(* One warp running a loaded program, an instruction at a time: the masks  *)
(* and the stack are Divergence's, the lanes are LaneReference's threads,  *)
(* the votes of a branch come from the lanes' flags.  This is the grain at *)
(* which Core implements Divergence and LaneReference.                     *)
(*                                                                         *)
(* Every lane has its own view of the data memory: the programs run here   *)
(* do not store where another lane reads or stores.                        *)
(***************************************************************************)
EXTENDS Divergence, Decoder

CONSTANTS AddrSize, WordSize, ByteSize, NumRegs, MMIO_TX, ImmSize, BlockId, BLOCK_DIM, Bias

VARIABLE lanes  \* the thread of each lane

T == INSTANCE LaneReference

warp     == <<warp_pc, active_mask, stack, base_mask, warp_status>>
warpvars == <<prog, warp, lanes>>

\* Before anything is loaded.
Unloaded ==
  /\ prog = << >> /\ warp_pc = 0 /\ stack = << >> /\ active_mask = {} /\ base_mask = {}
  /\ warp_status = "DONE" /\ lanes = << >>

\* The DMA puts the words and the data in place and the GPU is reset.
Load(words, data) ==
  /\ prog' = [p \in 0 .. Len(words) - 1 |->
                LET i == Decode(words[p + 1])
                IN [op |-> IF i.op \in {"BR", "SYNC", "RET"} THEN i.op ELSE "OTHER",
                    imm |-> i.imm, does |-> i]]
  /\ warp_pc' = 0 /\ stack' = << >> /\ active_mask' = Launched /\ base_mask' = Launched
  /\ warp_status' = "READY"
  /\ lanes' = [l \in Lanes |-> T!Fresh(l, data)]

\* Who votes for a branch: the lanes whose flag the mask names, awake or not.
Votes == {l \in Lanes : T!FlagBit[lanes[l].flag] \in instr.does.nzp}

\* What an instruction does to a lane that sleeps: pc.sv latches the flags and
\* lsu.sv moves the windows of every lane of the warp.
Ghost(t, i) ==
  LET s == T!Stepped(t, i) IN [t EXCEPT !.flag = s.flag, !.base = s.base, !.wbase = s.wbase]

\* Every lane does the instruction; the lane's own pc is the warp's.  The shared
\* units listen to thread 0's operands, so its view of them is everybody's.
LanesDo ==
  LET after(l) == IF l \in active_mask THEN T!Stepped(lanes[l], instr.does)
                  ELSE Ghost(lanes[l], instr.does)
      unit     == T!Stepped(lanes[0], instr.does).unit
  IN lanes' = [l \in Lanes |-> [after(l) EXCEPT !.pc = 0, !.unit = unit]]

Execute == (Plain \/ Ret) /\ LanesDo
Split   == (Diverge(Votes) \/ Uniform(Votes)) /\ UNCHANGED lanes
Rejoin  == (SyncPop \/ SyncRestore) /\ UNCHANGED lanes

Run == Execute \/ Split \/ Rejoin
=============================================================================
