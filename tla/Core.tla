-------------------------------- MODULE Core --------------------------------
(***************************************************************************)
(* One SIMT core, cycle by cycle: src/core.sv with its scheduler.sv,       *)
(* decoder.sv, registers.sv, pc.sv, alu.sv, one lsu.sv per lane, the read  *)
(* and write arbiters, and the two memories it talks to.                   *)
(*                                                                         *)
(* A step is one clock edge.  Everything is clocked, so a step updates     *)
(* every register from the values of the cycle before; the scheduler's     *)
(* state says which of the disjuncts of Next a cycle is.  The only input   *)
(* is emit_ready, the UART's acknowledgement: it comes any number of       *)
(* cycles after emit_valid rises.                                          *)
(*                                                                         *)
(* Lanes are numbered through the core (flat_id): lane i of warp w is      *)
(* w * THREADS_PER_BLOCK + i.                                              *)
(***************************************************************************)
EXTENDS Integers, Sequences, FiniteSets, FiniteSetsExt

CONSTANTS
  WARPS_PER_CORE, THREADS_PER_BLOCK,
  BLOCK_DIM,   \* launch size: threads with a larger index never run
  PcSize,      \* 2^8 program addresses
  AddrSize,    \* 2^13 data addresses
  WordSize,    \* 2^16 register values
  ByteSize,    \* 2^8 memory values
  NumRegs,     \* registers an instruction can name
  ImmSize,     \* 2^6, what LUI shifts a register by
  BlockId,     \* the core's block_id
  MMIO_TX,     \* the STR offset that means "emit": 63
  SDEPTH,      \* see Divergence
  Programs,    \* the programs the DMA may have loaded
  LoadedData   \* the data memory the DMA left behind

Warps == 0 .. WARPS_PER_CORE - 1
Lanes == 0 .. WARPS_PER_CORE * THREADS_PER_BLOCK - 1
Pc    == 0 .. PcSize - 1
Addr  == 0 .. AddrSize - 1
Word  == 0 .. WordSize - 1
Byte  == 0 .. ByteSize - 1
Bits3 == SUBSET (0 .. 2)       \* N = bit 2, Z = bit 1, P = bit 0

WarpOf(l)   == l \div THREADS_PER_BLOCK
LanesOf(w)  == {l \in Lanes : WarpOf(l) = w}
Thread0(w)  == w * THREADS_PER_BLOCK
LaunchMask(w) == {l \in LanesOf(w) : l < BLOCK_DIM}

Arithmetic == {"MOV", "LUI", "ADD", "ADDI", "SUB", "MUL", "SHR", "SHL"}
Identity   == {"TID", "BID", "BDIM"}
Ops   == Arithmetic \cup Identity
           \cup {"CMP", "LDR", "STR", "ADDB", "WBASE", "BR", "SYNC", "RET"}
Reg   == 0 .. NumRegs - 1
Instr == [op : Ops, rd : Reg, rs : Reg, rt : Reg, imm : Nat, nzp : Bits3]

\* The sizes are positive, a register holds a byte, a thread's index and the
\* flags, the target of a branch is 8 bits wide, and rs says which identity
\* register an instruction reads (Decoder's MovVariant).
ASSUME CoreAssumption ==
  /\ WARPS_PER_CORE \in {1, 2}      \* current_warp and emit_owner are one bit
  /\ {THREADS_PER_BLOCK, PcSize, AddrSize, WordSize, ByteSize, NumRegs, ImmSize, SDEPTH} \subseteq Nat \ {0}
  /\ Byte \cup Lanes \cup {BlockId, BLOCK_DIM, 1, 2, 4} \subseteq Word
  /\ \A prog \in Programs : \A p \in Pc :
       /\ prog[p] \in Instr
       /\ prog[p].op = "BR" => prog[p].imm \in Pc
       /\ prog[p].op \in Identity =>
            (prog[p].op = "BID" <=> prog[p].rs = 2) /\ (prog[p].op = "BDIM" <=> prog[p].rs = 3)
  /\ LoadedData \in [Addr -> Byte]

VARIABLES
  rom,           \* program_memory.rom_array
  mem,           \* main_memory.mem
  \* scheduler.sv
  core_state, current_warp, warp_status, warp_pc, active_mask, stack, base_mask, done,
  \* the instruction register of program_memory and the decoder's outputs
  instruction, decoded,
  \* registers.sv, pc.sv: the register file, its two read ports, the flags
  registers, rs, rt, nzp,
  \* lsu.sv: the request FSM of each lane and its two base pointers
  lsu, base, wbase,
  \* lsu_arbiter.sv, and main_memory's read register
  rarb, ready, mem_rdata,
  \* lsu_write_arbiter.sv
  mem_we, mem_waddr, mem_wdata, wgrant,
  \* the emit ownership latch, the UART's answer, and what it has sent of each warp
  emit_owned, emit_owner, emit_ready, sent

sched  == <<core_state, current_warp, warp_status, warp_pc, active_mask, stack, base_mask, done>>
front  == <<rom, instruction, decoded>>
grid   == <<registers, rs, rt, nzp, lsu, base, wbase>>
memory == <<mem, rarb, ready, mem_rdata, mem_we, mem_waddr, mem_wdata, wgrant>>
emit   == <<emit_owned, emit_owner, emit_ready, sent>>
vars   == <<sched, front, grid, memory, emit>>

-----------------------------------------------------------------------------
(* decoder.sv: the strobes of an opcode.  Every strobe not listed is 0.     *)
Strobes ==
  [op \in Ops |->
     CASE op = "LUI"               -> {"reg_write", "lui"}
       [] op \in Identity          -> {"reg_write", "id_read"}
       [] op \in Arithmetic \ {"LUI"} -> {"reg_write"}
       [] op = "CMP"               -> {"nzp_write"}
       [] op = "LDR"               -> {"reg_write", "mem_read", "from_memory"}
       [] op = "STR"               -> {"mem_write"}
       [] op = "ADDB"              -> {"base_add"}
       [] op = "WBASE"             -> {"wbase_add"}
       [] op = "BR"                -> {"pc_mux"}
       [] op = "SYNC"              -> {"sync"}
       [] op = "RET"               -> {"ret"}]

\* The fields are as Decoder cuts them: an identity read has its selector, and
\* LUI its own rd, in rs.
Control(i) ==
  [strobes |-> Strobes[i.op], rd |-> i.rd, rs |-> i.rs, rt |-> i.rt,
   imm |-> i.imm, nzp |-> i.nzp]

Decoded(strobe) == strobe \in decoded.strobes
MemOp           == Decoded("mem_read") \/ Decoded("mem_write")

\* The bits of the low three of a word.
LowBits(v) == {b \in 0 .. 2 : (v \div 2^b) % 2 = 1}

\* 2^k, for the barrel shifter's four bits.
Power(k) ==
  <<1, 2, 4, 8, 16, 32, 64, 128, 256, 512, 1024, 2048, 4096, 8192, 16384, 32768>>[k + 1]

\* alu.sv, selected by the LIVE opcode of the instruction register, not by the
\* decoder.
AluOut(l) ==
  CASE instruction.op = "ADD"  -> (rs[l] + rt[l]) % WordSize
    [] instruction.op = "ADDI" -> (rs[l] + decoded.imm) % WordSize
    [] instruction.op = "SUB"  -> (rs[l] - rt[l]) % WordSize
    [] instruction.op = "MUL"  -> (rs[l] * rt[l]) % WordSize
    [] instruction.op = "SHR"  -> rs[l] \div Power(rt[l] % 16)
    [] instruction.op = "SHL"  -> (rs[l] * Power(rt[l] % 16)) % WordSize
    [] instruction.op = "MOV"  -> decoded.imm % WordSize
    [] instruction.op = "CMP"  -> IF rs[l] < rt[l] THEN 4 ELSE IF rs[l] = rt[l] THEN 2 ELSE 1
    [] OTHER -> 0

-----------------------------------------------------------------------------
(* The data path: what every register other than the scheduler's does.      *)

\* registers.sv: the identity register that the rs field selects.
IdentityOf(l) ==
  CASE decoded.rs = 2 -> BlockId [] decoded.rs = 3 -> BLOCK_DIM [] OTHER -> l

Awake(l)      == l \in active_mask[current_warp]     \* thread_active && warp_active
WarpActive(l) == WarpOf(l) = current_warp

\* Mutant: the decoder latches a state early.
DecodeInFetch ==
  /\ instruction' = rom[warp_pc[current_warp]]
  /\ decoded' = IF core_state = "FETCH" THEN Control(instruction) ELSE decoded
  /\ UNCHANGED rom

\* program_memory reads the address of the current warp every cycle; the
\* decoder latches its output in DECODE.
FetchAndDecode ==
  /\ instruction' = rom[warp_pc[current_warp]]
  /\ decoded' = IF core_state = "DECODE" THEN Control(instruction) ELSE decoded
  /\ UNCHANGED rom

\* Mutant: the write port is enabled for the masked lanes too.
GhostsWrite ==
  /\ rs' = IF core_state = "REQUEST" THEN [l \in Lanes |-> registers[l][decoded.rs]] ELSE rs
  /\ rt' = IF core_state = "REQUEST" THEN [l \in Lanes |-> registers[l][decoded.rt]] ELSE rt
  /\ registers' =
       IF core_state = "UPDATE" /\ Decoded("reg_write")
       THEN [l \in Lanes |->
               IF ~WarpActive(l) THEN registers[l]
               ELSE [registers[l] EXCEPT ![decoded.rd] =
                       CASE Decoded("id_read")     -> IdentityOf(l)
                         [] Decoded("lui")         -> (rs[l] * ImmSize + (decoded.imm % ImmSize)) % WordSize
                         [] Decoded("from_memory") -> lsu[l].out
                         [] OTHER                  -> AluOut(l)]]
       ELSE registers

\* registers.sv: the read ports latch in REQUEST for EVERY warp, the write port
\* writes in UPDATE for the awake lanes of the current one.
RegisterFile ==
  /\ rs' = IF core_state = "REQUEST" THEN [l \in Lanes |-> registers[l][decoded.rs]] ELSE rs
  /\ rt' = IF core_state = "REQUEST" THEN [l \in Lanes |-> registers[l][decoded.rt]] ELSE rt
  /\ registers' =
       IF core_state = "UPDATE" /\ Decoded("reg_write")
       THEN [l \in Lanes |->
               IF ~Awake(l) THEN registers[l]
               ELSE [registers[l] EXCEPT ![decoded.rd] =
                       CASE Decoded("id_read")     -> IdentityOf(l)
                         [] Decoded("lui")         -> (rs[l] * ImmSize + (decoded.imm % ImmSize)) % WordSize
                         [] Decoded("from_memory") -> lsu[l].out
                         [] OTHER                  -> AluOut(l)]]
       ELSE registers

\* pc.sv: the flags of EVERY lane of the warp, awake or not.
Flags ==
  nzp' = IF core_state = "UPDATE" /\ Decoded("nzp_write")
         THEN [l \in Lanes |-> IF WarpActive(l) THEN LowBits(AluOut(l)) ELSE nzp[l]]
         ELSE nzp

\* lsu.sv: the base pointers of every lane of the warp, awake or not.
BasePointers ==
  LET Add(pointer, strobe) ==
        [l \in Lanes |->
           IF core_state = "UPDATE" /\ Decoded(strobe) /\ WarpActive(l)
           THEN (pointer[l] + decoded.imm) % AddrSize ELSE pointer[l]]
  IN base' = Add(base, "base_add") /\ wbase' = Add(wbase, "wbase_add")

\* lsu.sv: req stands for the three request lines (mem_valid, we_req,
\* emit_valid), of which at most one is up.
LsuIdle == [state |-> "IDLE", is_read |-> FALSE, req |-> "none", addr |-> 0, data |-> 0, out |-> 0]

\* Mutant: a whole register goes out on the byte-wide write port.
IssuedWide(l) ==
  [lsu[l] EXCEPT !.state = "WAIT", !.data = rt[l],
                 !.req = IF lsu[l].is_read THEN "read" ELSE IF rs[l] = MMIO_TX THEN "emit" ELSE "write",
                 !.addr = ((IF lsu[l].is_read THEN base[l] ELSE wbase[l]) + rs[l]) % AddrSize]

\* 01 ISSUE: rs and rt are valid now, form the address.
Issued(l) ==
  CASE lsu[l].is_read ->
         [lsu[l] EXCEPT !.state = "WAIT", !.req = "read", !.addr = (base[l] + rs[l]) % AddrSize]
    [] ~lsu[l].is_read /\ rs[l] = MMIO_TX ->
         [lsu[l] EXCEPT !.state = "WAIT", !.req = "emit", !.data = rt[l] % ByteSize]
    [] OTHER ->
         [lsu[l] EXCEPT !.state = "WAIT", !.req = "write",
                        !.addr = (wbase[l] + rs[l]) % AddrSize, !.data = rt[l] % ByteSize]

\* 10 WAIT: mem_ready, emit_ready (steered to the owner warp only) or wgrant.
Acked(l) ==
  \/ lsu[l].req = "read" /\ l \in ready
  \/ lsu[l].req = "emit" /\ emit_ready /\ emit_owned /\ emit_owner = WarpOf(l)
  \/ lsu[l].req = "write" /\ l \in wgrant

\* Mutant: any warp's UPDATE releases the LSUs of all warps.
LsuReleasedByAnyWarp(l) ==
  CASE lsu[l].state = "IDLE" /\ core_state = "REQUEST" /\ Awake(l) /\ MemOp ->
         [lsu[l] EXCEPT !.state = "ISSUE", !.is_read = Decoded("mem_read")]
    [] lsu[l].state = "ISSUE" -> Issued(l)
    [] lsu[l].state = "WAIT" /\ Acked(l) ->
         [lsu[l] EXCEPT !.state = "DONE", !.req = "none",
                        !.out = IF lsu[l].is_read THEN rarb.rdata ELSE @]
    [] lsu[l].state = "DONE" /\ core_state = "UPDATE" -> [lsu[l] EXCEPT !.state = "IDLE"]
    [] OTHER -> lsu[l]

LsuNext(l) ==
  CASE lsu[l].state = "IDLE" /\ core_state = "REQUEST" /\ Awake(l) /\ MemOp ->
         [lsu[l] EXCEPT !.state = "ISSUE", !.is_read = Decoded("mem_read")]
    [] lsu[l].state = "ISSUE" -> Issued(l)
    [] lsu[l].state = "WAIT" /\ Acked(l) ->
         [lsu[l] EXCEPT !.state = "DONE", !.req = "none",
                        !.out = IF lsu[l].is_read THEN rarb.rdata ELSE @]
    [] lsu[l].state = "DONE" /\ core_state = "UPDATE" /\ WarpActive(l) ->
         [lsu[l] EXCEPT !.state = "IDLE"]
    [] OTHER -> lsu[l]

Lsus == lsu' = [l \in Lanes |-> LsuNext(l)]

\* lsu_arbiter.sv: lowest requester first; address, one cycle of BRAM latency,
\* then a one-cycle ready pulse.
Requesting(kind) == {l \in Lanes : lsu[l].req = kind}

\* Mutant: the pulse goes to the lane selected now, not to the lane served.
PulseTheSelected ==
  /\ ready' = IF rarb.state = "RESP" /\ Requesting("read") # {} THEN {Min(Requesting("read"))} ELSE {}
  /\ rarb' =
       CASE rarb.state = "IDLE" /\ Requesting("read") # {} ->
              LET sel == Min(Requesting("read"))
              IN [rarb EXCEPT !.state = "WAIT", !.svc = sel, !.raddr = lsu[sel].addr]
         [] rarb.state = "WAIT" -> [rarb EXCEPT !.state = "RESP"]
         [] rarb.state = "RESP" -> [rarb EXCEPT !.state = "IDLE", !.rdata = mem_rdata]
         [] OTHER -> rarb

ReadArbiter ==
  /\ ready' = IF rarb.state = "RESP" THEN {rarb.svc} ELSE {}
  /\ rarb' =
       CASE rarb.state = "IDLE" /\ Requesting("read") # {} ->
              LET sel == Min(Requesting("read"))
              IN [rarb EXCEPT !.state = "WAIT", !.svc = sel, !.raddr = lsu[sel].addr]
         [] rarb.state = "WAIT" -> [rarb EXCEPT !.state = "RESP"]
         [] rarb.state = "RESP" -> [rarb EXCEPT !.state = "IDLE", !.rdata = mem_rdata]
         [] OTHER -> rarb

\* lsu_write_arbiter.sv: wgrant and last_grant_oh are always equal; the lane of
\* the last cycle still raises we_req and is masked out.
GrantAgain   == Requesting("write")            \* mutant: the last grant is not masked
WritePending == Requesting("write") \ wgrant

WriteArbiter ==
  IF WritePending # {}
  THEN LET sel == Min(WritePending)
       IN /\ mem_we' = TRUE
          /\ mem_waddr' = lsu[sel].addr /\ mem_wdata' = lsu[sel].data
          /\ wgrant' = {sel}
  ELSE mem_we' = FALSE /\ wgrant' = {} /\ UNCHANGED <<mem_waddr, mem_wdata>>

\* main_memory.sv: the write port commits, the read port registers the old data.
MainMemory ==
  /\ mem' = IF mem_we THEN [mem EXCEPT ![mem_waddr] = mem_wdata] ELSE mem
  /\ mem_rdata' = mem[rarb.raddr]

\* core.sv: the lowest warp whose thread 0 emits owns the UART until the ack.
WarpEmit   == {w \in Warps : lsu[Thread0(w)].req = "emit"}
emit_valid == emit_owned /\ emit_owner \in WarpEmit
emit_data  == lsu[Thread0(emit_owner)].data

\* Mutant: the owner is held for one cycle instead of until the ack.
EmitLatchPulse ==
  /\ emit_owned' = (~emit_owned /\ WarpEmit # {})
  /\ emit_owner' = IF ~emit_owned /\ WarpEmit # {} THEN Min(WarpEmit) ELSE emit_owner

EmitLatch ==
  IF emit_owned
  THEN emit_owned' = ~emit_ready /\ UNCHANGED emit_owner
  ELSE /\ emit_owned' = (WarpEmit # {})
       /\ emit_owner' = IF WarpEmit # {} THEN Min(WarpEmit) ELSE emit_owner

\* gpu.sv and top.sv, seen from the core: a one-cycle acknowledgement of the
\* byte on emit_data, some time after emit_valid rose.
Uart ==
  /\ emit_ready' \in IF emit_valid /\ ~emit_ready THEN BOOLEAN ELSE {FALSE}
  /\ sent' = IF emit_ready' THEN [sent EXCEPT ![emit_owner] = Append(@, emit_data)] ELSE sent

DataPath ==
  /\ FetchAndDecode /\ RegisterFile /\ Flags /\ BasePointers /\ Lsus
  /\ ReadArbiter /\ WriteArbiter /\ MainMemory /\ EmitLatch /\ Uart

-----------------------------------------------------------------------------
(* scheduler.sv: the cycle each value of core_state is, with the data path   *)
(* beside it.  The wake-up of parked warps runs in every cycle.              *)

Busy(w)    == \E l \in LanesOf(w) : lsu[l].state \in {"ISSUE", "WAIT"}
Issuing(w) == \E l \in LanesOf(w) : lsu[l].state = "ISSUE"

\* Mutant: only the current warp is woken.
WakeCurrent ==
  [w \in Warps |-> IF warp_status[w] = "WAITING" /\ w = current_warp /\ ~Busy(w)
                   THEN "READY" ELSE warp_status[w]]

WokenStatus ==
  [w \in Warps |-> IF warp_status[w] = "WAITING" /\ ~Busy(w) THEN "READY" ELSE warp_status[w]]

StatusWith(s) == warp_status' = [WokenStatus EXCEPT ![current_warp] = s]
GoTo(s)       == core_state' = s /\ done' = (core_state = "DONE")
NoControlFlow == UNCHANGED <<warp_pc, active_mask, stack, base_mask>>

\* The dispatcher's start pulse (Init is the cycle in which it is up).
Idle ==
  /\ core_state = "IDLE"
  /\ DataPath
  /\ GoTo("SELECT_WARP") /\ warp_status' = WokenStatus
  /\ NoControlFlow /\ UNCHANGED current_warp

ReadyWarps == {w \in Warps : warp_status[w] = "READY"}

SelectWarp ==
  /\ core_state = "SELECT_WARP"
  /\ DataPath
  /\ \/ /\ ReadyWarps # {}
        /\ current_warp' = Min(ReadyWarps) /\ GoTo("FETCH")
     \/ /\ ReadyWarps = {} /\ \A w \in Warps : warp_status[w] = "DONE"
        /\ GoTo("DONE") /\ UNCHANGED current_warp
     \/ /\ ReadyWarps = {} /\ \E w \in Warps : warp_status[w] # "DONE"
        /\ GoTo("SELECT_WARP") /\ UNCHANGED current_warp
  /\ warp_status' = WokenStatus
  /\ NoControlFlow

Fetch ==
  /\ core_state = "FETCH"
  /\ DataPath
  /\ GoTo("DECODE") /\ warp_status' = WokenStatus
  /\ NoControlFlow /\ UNCHANGED current_warp

Decode ==
  /\ core_state = "DECODE"
  /\ DataPath
  /\ GoTo("REQUEST") /\ warp_status' = WokenStatus
  /\ NoControlFlow /\ UNCHANGED current_warp

\* Mutant: the short cut past WAIT is taken by stores as well.
RequestSkipsStores ==
  /\ core_state = "REQUEST"
  /\ DataPath
  /\ GoTo(IF Decoded("mem_read") THEN "WAIT" ELSE "EXECUTE") /\ warp_status' = WokenStatus
  /\ NoControlFlow /\ UNCHANGED current_warp

Request ==
  /\ core_state = "REQUEST"
  /\ DataPath
  /\ GoTo(IF MemOp THEN "WAIT" ELSE "EXECUTE") /\ warp_status' = WokenStatus
  /\ NoControlFlow /\ UNCHANGED current_warp

\* An emit stalls the core; a read or a write in flight parks the warp, which
\* will run the same instruction again from FETCH when it wakes.
Stall ==
  /\ core_state = "WAIT"
  /\ DataPath
  /\ current_warp \in WarpEmit \/ Issuing(current_warp)
  /\ GoTo("WAIT") /\ warp_status' = WokenStatus
  /\ NoControlFlow /\ UNCHANGED current_warp

Park ==
  /\ core_state = "WAIT"
  /\ DataPath
  /\ current_warp \notin WarpEmit /\ ~Issuing(current_warp) /\ Busy(current_warp)
  /\ GoTo("SELECT_WARP") /\ StatusWith("WAITING")
  /\ NoControlFlow /\ UNCHANGED current_warp

Proceed ==
  /\ core_state = "WAIT"
  /\ DataPath
  /\ current_warp \notin WarpEmit /\ ~Busy(current_warp)
  /\ GoTo("EXECUTE") /\ warp_status' = WokenStatus
  /\ NoControlFlow /\ UNCHANGED current_warp

\* EXECUTE: the current warp's PC, mask and reconvergence stack.
Votes  == {l \in LanesOf(current_warp) : nzp[l] \cap decoded.nzp # {}}
Branch == active_mask[current_warp] \cap Votes
StayUnmasked == LanesOf(current_warp) \ Votes     \* mutant: no active_mask
Stay         == active_mask[current_warp] \ Votes
NextPc == (warp_pc[current_warp] + 1) % PcSize
Push(s, frame) == IF Len(s) = SDEPTH - 1 THEN << >> ELSE Append(s, frame)

SetWarp(pc, mask, frames) ==
  /\ warp_pc' = [warp_pc EXCEPT ![current_warp] = pc]
  /\ active_mask' = [active_mask EXCEPT ![current_warp] = mask]
  /\ stack' = [stack EXCEPT ![current_warp] = frames]

Execute ==
  /\ core_state = "EXECUTE"
  /\ DataPath
  /\ LET s    == stack[current_warp]
         mask == active_mask[current_warp]
     IN \/ /\ Decoded("sync") /\ s # << >>
           /\ SetWarp(s[Len(s)].pc, s[Len(s)].mask, SubSeq(s, 1, Len(s) - 1))
           /\ UNCHANGED base_mask
        \/ /\ Decoded("sync") /\ s = << >>
           /\ SetWarp(NextPc, base_mask[current_warp], s)
           /\ UNCHANGED base_mask
        \/ /\ Decoded("pc_mux") /\ Branch # {} /\ Stay # {}
           /\ SetWarp(decoded.imm, Branch, Push(s, [pc |-> NextPc, mask |-> Stay]))
           /\ base_mask' = IF s = << >> THEN [base_mask EXCEPT ![current_warp] = mask] ELSE base_mask
        \/ /\ Decoded("pc_mux") /\ (Branch = {} \/ Stay = {})
           /\ SetWarp(IF Branch # {} THEN decoded.imm ELSE NextPc, mask, s)
           /\ UNCHANGED base_mask
        \/ /\ ~Decoded("sync") /\ ~Decoded("pc_mux")
           /\ SetWarp(NextPc, mask, s)
           /\ UNCHANGED base_mask
  /\ GoTo("UPDATE") /\ warp_status' = WokenStatus
  /\ UNCHANGED current_warp

\* RET retires the warp.
Update ==
  /\ core_state = "UPDATE"
  /\ DataPath
  /\ GoTo("SELECT_WARP")
  /\ IF Decoded("ret") THEN StatusWith("DONE") ELSE warp_status' = WokenStatus
  /\ NoControlFlow /\ UNCHANGED current_warp

\* DONE is terminal until the next reset.
Finished ==
  /\ core_state = "DONE"
  /\ DataPath
  /\ GoTo("DONE") /\ warp_status' = WokenStatus
  /\ NoControlFlow /\ UNCHANGED current_warp

Next ==
  \/ Idle \/ SelectWarp \/ Fetch \/ Decode \/ Request \/ Stall \/ Park \/ Proceed
  \/ Execute \/ Update \/ Finished

-----------------------------------------------------------------------------
\* The registers after the reset top.sv gives before every run.
Init ==
  /\ rom \in Programs /\ mem = LoadedData
  /\ core_state = "IDLE" /\ current_warp = 0 /\ done = FALSE
  /\ warp_status = [w \in Warps |-> IF LaunchMask(w) = {} THEN "DONE" ELSE "READY"]
  /\ warp_pc = [w \in Warps |-> 0]
  /\ active_mask = [w \in Warps |-> LaunchMask(w)]
  /\ base_mask = [w \in Warps |-> LaunchMask(w)]
  /\ stack = [w \in Warps |-> << >>]
  /\ instruction = rom[0]
  /\ decoded = [strobes |-> {}, rd |-> 0, rs |-> 0, rt |-> 0, imm |-> 0, nzp |-> {}]
  /\ registers = [l \in Lanes |-> [r \in Reg |-> 0]]
  /\ rs = [l \in Lanes |-> 0] /\ rt = [l \in Lanes |-> 0]
  /\ nzp = [l \in Lanes |-> {}]
  /\ lsu = [l \in Lanes |-> LsuIdle]
  /\ base = [l \in Lanes |-> 0] /\ wbase = [l \in Lanes |-> 0]
  /\ rarb = [state |-> "IDLE", svc |-> 0, raddr |-> 0, rdata |-> 0]
  /\ ready = {} /\ mem_rdata = mem[0]
  /\ mem_we = FALSE /\ mem_waddr = 0 /\ mem_wdata = 0 /\ wgrant = {}
  /\ emit_owned = FALSE /\ emit_owner = 0 /\ emit_ready = FALSE
  /\ sent = [w \in Warps |-> << >>]

Spec == Init /\ [][Next]_vars

\* The clock never stops, and the UART answers a byte that stays offered.
FairSpec == Spec /\ WF_vars(Next) /\ WF_vars(Next /\ emit_ready')
=============================================================================
