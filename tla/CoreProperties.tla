--------------------------- MODULE CoreProperties ---------------------------
(* What makes a core correct: the promises of its parts to one another, and *)
(* of the whole to the programmer.                                          *)
EXTENDS Core, BranchLayout

\* Every register has its type.
TypeOK ==
  /\ core_state \in {"IDLE", "SELECT_WARP", "FETCH", "DECODE", "REQUEST", "WAIT",
                     "EXECUTE", "UPDATE", "DONE"}
  /\ current_warp \in Warps /\ done \in BOOLEAN
  /\ warp_status \in [Warps -> {"READY", "WAITING", "DONE"}]
  /\ warp_pc \in [Warps -> Pc]
  /\ \A w \in Warps :
        /\ active_mask[w] \subseteq LanesOf(w) /\ base_mask[w] \subseteq LanesOf(w)
        /\ Len(stack[w]) < SDEPTH
  /\ registers \in [Lanes -> [Reg -> Word]] /\ rs \in [Lanes -> Word] /\ rt \in [Lanes -> Word]
  /\ nzp \in [Lanes -> Bits3]
  /\ base \in [Lanes -> Addr] /\ wbase \in [Lanes -> Addr]
  /\ lsu \in [Lanes -> [state : {"IDLE", "ISSUE", "WAIT", "DONE"}, is_read : BOOLEAN,
                        req : {"none", "read", "write", "emit"},
                        addr : Addr, data : Byte, out : Byte]]
  /\ rarb \in [state : {"IDLE", "WAIT", "RESP"}, svc : Lanes, raddr : Addr, rdata : Byte]
  /\ mem \in [Addr -> Byte] /\ mem_rdata \in Byte
  /\ mem_we \in BOOLEAN /\ mem_waddr \in Addr /\ mem_wdata \in Byte
  /\ ready \subseteq Lanes /\ wgrant \subseteq Lanes
  /\ emit_owned \in BOOLEAN /\ emit_owner \in Warps /\ emit_ready \in BOOLEAN

-----------------------------------------------------------------------------
\* The registered decoder and the program memory's one-cycle latency line up:
\* from REQUEST on the decoder's outputs, and through UPDATE the live opcode the
\* ALU sees, are those of the current warp's instruction.
ControlIsCurrent ==
  /\ core_state \in {"REQUEST", "WAIT", "EXECUTE"} =>
       decoded = Control(rom[warp_pc[current_warp]])
  /\ core_state \in {"REQUEST", "WAIT", "EXECUTE", "UPDATE"} => decoded = Control(instruction)

\* A ready pulse answers the request its lane is making NOW.  The arbiter serves
\* a lane once more after its answer, for the request is still up in the cycle of
\* the pulse (lsu_arbiter.sv promises one pulse per request); the late second pulse
\* must never meet the lane's next request, for another address.
ReadAnswersRequest ==
  \A l \in ready : lsu[l].req = "read" => rarb.svc = l /\ rarb.raddr = lsu[l].addr

\* A store commits exactly once: the memory's write enable is up for a lane that
\* is still waiting, with its address and data, and for no other lane.
GrantMatchesStore ==
  /\ mem_we <=> wgrant # {}
  /\ \A l \in wgrant :
        /\ wgrant = {l} /\ lsu[l].state = "WAIT" /\ lsu[l].req = "write"
        /\ mem_waddr = lsu[l].addr /\ mem_wdata = lsu[l].data

\* An instruction executes only when the access of every awake lane is over, and
\* a parked warp that replays its LDR or STR finds it done instead of issuing it
\* again; nothing else finds an access pending.
AccessesComplete ==
  core_state \in {"EXECUTE", "UPDATE"} =>
    \A l \in LanesOf(current_warp) :
      lsu[l].state = IF MemOp /\ Awake(l) THEN "DONE" ELSE "IDLE"

\* A warp is parked only while the pipeline is not on it, and it is woken only
\* with every access complete; what it replays is the access it was parked on.
ParkedWarpWaits ==
  \A w \in Warps :
    warp_status[w] = "WAITING" =>
      /\ core_state \in {"SELECT_WARP", "DONE"} \/ current_warp # w
      /\ rom[warp_pc[w]].op \in {"LDR", "STR"}
      /\ \A l \in active_mask[w] : lsu[l].state \in {"WAIT", "DONE"}

\* No byte is torn: an offered byte stays, unchanged, until it is acknowledged.
EmitIsStable ==
  [][emit_valid /\ ~emit_ready => emit_valid' /\ emit_data' = emit_data /\ emit_owner' = emit_owner]_vars

\* README.md, Branch divergence: masked threads "act as ghosts - doing the work
\* but leaving no trace": no register of a masked lane ever changes, neither its
\* file nor its flags nor its base pointers.
GhostsLeaveNoTrace ==
  [][\A l \in Lanes :
       l \notin active_mask[WarpOf(l)] =>
         /\ registers'[l] = registers[l] /\ nzp'[l] = nzp[l]
         /\ base'[l] = base[l] /\ wbase'[l] = wbase[l]]_vars

\* scheduler.sv, WAIT: "UART emit in flight: STALL on this warp (do not yield)
\* ... Stay until the byte is acked": a lane's emit is answered in the end.
EmitsAreAnswered ==
  \A l \in Lanes : lsu[l].req = "emit" ~> lsu[l].req = "none"

-----------------------------------------------------------------------------
\* The warp's masks and stack, seen at the grain of whole instructions.  A RET
\* counts from its EXECUTE on.
Skeleton(prog) ==
  [p \in Pc |->
     [op  |-> IF prog[p].op \in {"BR", "SYNC", "RET"} THEN prog[p].op ELSE "OTHER",
      imm |-> IF prog[p].op = "BR" THEN prog[p].imm ELSE 0]]

Retired(w) ==
  \/ warp_status[w] = "DONE"
  \/ core_state = "UPDATE" /\ current_warp = w /\ Decoded("ret")

Warp(w) == INSTANCE Divergence WITH
  Lanes <- LanesOf(w), Launched <- LaunchMask(w),
  Programs <- {Skeleton(prog) : prog \in Programs},
  prog <- Skeleton(rom), warp_pc <- warp_pc[w], active_mask <- active_mask[w],
  stack <- stack[w], base_mask <- base_mask[w],
  warp_status <- IF Retired(w) THEN "DONE" ELSE "READY"

\* Whatever the interleaving of the warps, each of them runs its own program
\* under its own masks: the core implements one Divergence per warp.
WarpsImplementDivergence ==
  /\ \A w \in Warps : Warp(w)!Init
  /\ [][\A w \in Warps : [Warp(w)!Next]_(Warp(w)!vars)]_vars

-----------------------------------------------------------------------------
CONSTANT Fuel  \* more instructions than any of the Programs executes

ASSUME FuelAssumption == Fuel \in Nat

Ref == INSTANCE LaneReference WITH Bias <- [d \in 0 .. 15 |-> 0]

Threads    == UNION {LaunchMask(w) : w \in Warps}
Alone(l)   == Ref!Run(l, rom, LoadedData, Fuel)

\* The threads of the program do not share a location that one of them writes.
RaceFree(run) ==
  \A k, l \in Threads :
    k # l => run[k].written \cap (run[l].read \cup run[l].written) = {}

\* The whole core against the ISA: when the core reports done, every thread of a
\* race-free program has the registers, the memory has the stores and the UART
\* has (in order, each once) the bytes of threads run one at a time.
DoneMatchesReference ==
  done =>
    LET run == [l \in Threads |-> Alone(l)]
    IN RaceFree(run) =>
         /\ \A l \in Threads : registers[l] = run[l].regs
         /\ \A a \in Addr : mem[a] \in {run[l].mem[a] : l \in {k \in Threads : a \in run[k].written}}
                             \/ (mem[a] = LoadedData[a] /\ \A l \in Threads : a \notin run[l].written)
         /\ \A w \in Warps : LaunchMask(w) # {} => sent[w] = run[Thread0(w)].out

\* A branch that asks for some of the flags and not for all.
IsConditional(i) == i.op = "BR" /\ i.nzp \notin {{}, 0 .. 2}

\* The programs that codegen.rs makes: an if as BranchLayout says, in its body no
\* move of the base pointers (which the lanes that skip it would make too), and a
\* conditional branch only right after the CMP that gen_condition emits for it.
Disciplined(prog) ==
  LET code == Skeleton(prog)
  IN /\ Structured(code)
     /\ \A p \in Pc :
          /\ IsIf(code, p) =>
               \A q \in p + 1 .. code[p].imm - 1 : prog[q].op \notin {"ADDB", "WBASE"}
          /\ IsConditional(prog[p]) =>
               /\ p > 0 /\ prog[p - 1].op = "CMP"
               /\ \A q \in Pc : prog[q].op = "BR" => prog[q].imm # p

\* Each thread of the launch comes to its RET, alone and within Fuel instructions.
Ends(prog) == \A l \in Threads : Ref!Run(l, prog, LoadedData, Fuel).halted

\* codegen.rs: "Loops emit no SYNC and still assume every thread takes the same path".
LoopsAgree ==
  core_state = "EXECUTE" /\ IsLoopBranch(Skeleton(rom), warp_pc[current_warp]) =>
    Branch = {} \/ Stay = {}

\* Every kernel comes to its end: no warp is parked for ever, no emit waits for
\* an owner that never comes, the two warps never wait for one another.
Terminates == <>done
=============================================================================
